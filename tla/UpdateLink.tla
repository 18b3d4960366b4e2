------------------------------ MODULE UpdateLink ------------------------------
(***************************************************************************)
(* The connection over which a firmware archive reaches the device         *)
(* (tcptest/update_server.c) and the loop of the update thread that reads  *)
(* it (Update_Process_Thread, tcptest/update_process.c).  The accept       *)
(* thread and the update thread share tcp_info.client_fd and connect_state *)
(* without a lock, and the process's descriptor numbers, of which accept   *)
(* and fopen take the lowest free one.  A client sends a header and then   *)
(* the pieces of one file.  What is done with a complete file is in        *)
(* FirmwareUpdate.                                                         *)
(***************************************************************************)
EXTENDS Integers, Sequences

CONSTANTS
  Conn,    \* connections of clients, each used once
  Fd,      \* descriptor numbers for connections and the file
  Pieces,  \* pieces of a file, as recv() returns them
  None     \* no connection

UpdateLinkAssumption ==
  /\ Fd \subseteq Nat \ {0} /\ Pieces \in Nat \ {0}
  /\ Conn \cap {"free", "accept", "file", None} = {}

VARIABLES
  peer,           \* per connection: state of the client
  sent, got,      \* per connection: items sent by the client, and read
  backlog,        \* connections waiting for accept
  fdtab,          \* descriptor table
  connect_state, client_fd,
  acc, new,       \* accept thread: control point ("exit": the program does not
                  \* run), its local client_fd
  upd,            \* update thread: control point
  want,           \* what Recv_Internet_Msg is called for: its flag argument
  pin,            \* connection its select or recv has begun on
  head, out,      \* connection whose header was accepted, fp's descriptor
  file,           \* what has been written: <<connection, item>>
  calm,           \* connections stored while no file was being received
  raced           \* "yes" once a hand-over met a tear-down

clients == <<peer, sent>>
shared  == <<connect_state, client_fd>>
accepts == <<acc, new, calm>>
updates == <<want, pin, head, out, file>>
vars == <<peer, sent, got, backlog, fdtab, shared, accepts, upd, updates, raced>>

NoFd == 0 - 1
AccPc == {"enter", "wait", "flag", "test", "close", "store", "exit"}
HandOver == {"test", "close", "store"}
TearDown == {"eof1", "eof2", "eof3", "err1", "err2", "err3", "end1", "end2", "end3"}
UpdPc == {"idle", "sel", "selecting", "recv", "receiving", "check"} \cup TearDown

At(f) == IF f \in Fd THEN IF fdtab[f] \in Conn THEN fdtab[f] ELSE None ELSE None
Open == {c \in Conn : \E f \in Fd : fdtab[f] = c}
FreeFds == {f \in Fd : fdtab[f] = "free"}
Lowest == {f \in FreeFds : \A g \in FreeFds : f <= g}
HasData(c) == got[c] < sent[c]

\* The table after close(f); a number held by an accept is not open yet.
Closed(f) == IF f \in Fd THEN IF fdtab[f] = "accept" THEN fdtab
                               ELSE [fdtab EXCEPT ![f] = "free"]
             ELSE fdtab

Init ==
  /\ peer = [c \in Conn |-> "new"]
  /\ sent = [c \in Conn |-> 0] /\ got = [c \in Conn |-> 0]
  /\ backlog = {} /\ fdtab = [f \in Fd |-> "free"]
  /\ connect_state = 0 /\ client_fd = NoFd
  /\ acc \in {"enter", "exit"} /\ new = NoFd
  /\ upd = "idle" /\ want = "header" /\ pin = None
  /\ head = None /\ out = NoFd /\ file = <<>> /\ calm = {} /\ raced = "no"

-----------------------------------------------------------------------------
(* The accept thread: Tcp_Server_Thread *)

AccGoto(a, b) == acc = a /\ acc' = b

\* accept() is entered and reserves the lowest free number.
AcceptEnter ==
  /\ AccGoto("enter", "wait")
  /\ \E f \in Lowest : fdtab' = [fdtab EXCEPT ![f] = "accept"]
  /\ UNCHANGED <<clients, got, backlog, shared, new, calm, upd, updates, raced>>

Accept(c) ==
  /\ AccGoto("wait", "flag")
  /\ c \in backlog /\ backlog' = backlog \ {c}
  /\ \E f \in Fd : /\ fdtab[f] = "accept"
                   /\ fdtab' = [fdtab EXCEPT ![f] = c] /\ new' = f
  /\ UNCHANGED <<clients, got, shared, calm, upd, updates, raced>>

\* socket() and bind() are retried for ever, a failed listen() or accept()
\* ends the program.
AcceptFails ==
  /\ AccGoto("enter", "exit")
  /\ UNCHANGED <<clients, got, backlog, fdtab, shared, new, calm, upd, updates, raced>>

\* Bug: connect_state is not set.
FlagForgets ==
  /\ AccGoto("flag", "test")
  /\ UNCHANGED <<clients, got, backlog, fdtab, shared, new, calm, upd, updates, raced>>

Flag ==
  /\ AccGoto("flag", "test") /\ connect_state' = 1
  /\ raced' = IF upd \in TearDown THEN "yes" ELSE raced
  /\ UNCHANGED <<clients, got, backlog, fdtab, client_fd, new, calm, upd, updates>>

Test ==
  /\ AccGoto("test", IF client_fd > 0 THEN "close" ELSE "store")
  /\ UNCHANGED <<clients, got, backlog, fdtab, shared, new, calm, upd, updates, raced>>

\* Bug: the client that is replaced is not closed.
CloseForgets ==
  /\ AccGoto("close", "store")
  /\ UNCHANGED <<clients, got, backlog, fdtab, shared, new, calm, upd, updates, raced>>

Close ==
  /\ AccGoto("close", "store") /\ fdtab' = Closed(client_fd)
  /\ UNCHANGED <<clients, got, backlog, shared, new, calm, upd, updates, raced>>

\* The client is calm if the update thread is not receiving a file.
Store ==
  /\ AccGoto("store", "enter") /\ client_fd' = new /\ new' = NoFd
  /\ calm' = IF want = "header" THEN calm \cup ({At(new)} \ {None}) ELSE calm
  /\ UNCHANGED <<clients, got, backlog, fdtab, connect_state, upd, updates, raced>>

-----------------------------------------------------------------------------
(* The update thread: Update_Process_Thread, Recv_Internet_Msg *)

UpdGoto(a, b) == upd = a /\ upd' = b

\* A tear-down begins; the accept thread may be in the middle of a hand-over.
Ends(a, b) == /\ UpdGoto(a, b)
              /\ raced' = IF acc \in HandOver THEN "yes" ELSE raced

\* connect_state is 1 and the card is there: a header is awaited.
Begin ==
  /\ UpdGoto("idle", "sel") /\ connect_state = 1
  /\ want' = "header"
  /\ UNCHANGED <<clients, got, backlog, fdtab, shared, accepts, pin, head, out, file, raced>>

\* select() on client_fd: it waits on the connection it finds, and fails on
\* a number that names none, which counts as a timeout.
Select ==
  /\ upd = "sel" /\ client_fd > 0
  /\ IF fdtab[client_fd] = "file" THEN upd' = "recv" /\ UNCHANGED <<pin, raced>>
     ELSE IF At(client_fd) # None
       THEN upd' = "selecting" /\ pin' = At(client_fd) /\ UNCHANGED raced
       ELSE want = "file" /\ Ends("sel", "end1") /\ UNCHANGED pin
  /\ UNCHANGED <<clients, got, backlog, fdtab, shared, accepts, want, head, out, file>>

Ready ==
  /\ UpdGoto("selecting", "recv")
  /\ HasData(pin) \/ peer[pin] = "gone"
  /\ pin' = None
  /\ UNCHANGED <<clients, got, backlog, fdtab, shared, accepts, want, head, out, file, raced>>

\* Bug: the flag is ignored, a file is waited for as long as a header.
TimeoutRetries ==
  /\ UpdGoto("selecting", "sel") /\ ~HasData(pin) /\ pin' = None
  /\ UNCHANGED <<clients, got, backlog, fdtab, shared, accepts, want, head, out, file, raced>>

\* 5 s without data: the wait for a header starts again, a file is given up.
Timeout ==
  /\ upd = "selecting" /\ ~HasData(pin)
  /\ IF want = "header" THEN UpdGoto("selecting", "sel") /\ UNCHANGED raced
                        ELSE Ends("selecting", "end1")
  /\ pin' = None
  /\ UNCHANGED <<clients, got, backlog, fdtab, shared, accepts, want, head, out, file>>

\* recv() on what client_fd is now.
Recv ==
  /\ upd = "recv"
  /\ IF At(client_fd) # None
       THEN upd' = "receiving" /\ pin' = At(client_fd) /\ UNCHANGED raced
       ELSE Ends("recv", "err1") /\ UNCHANGED pin
  /\ UNCHANGED <<clients, got, backlog, fdtab, shared, accepts, want, head, out, file>>

RecvEof ==
  /\ upd = "receiving" /\ ~HasData(pin) /\ peer[pin] = "gone"
  /\ Ends("receiving", "eof1") \/ Ends("receiving", "err1")
  /\ pin' = None
  /\ UNCHANGED <<clients, got, backlog, fdtab, shared, accepts, want, head, out, file>>

\* Bug: the file is opened for appending.
RecvHeaderAppends ==
  /\ upd = "receiving" /\ want = "header" /\ HasData(pin)
  /\ got' = [got EXCEPT ![pin] = @ + 1] /\ pin' = None
  /\ \/ upd' = "idle" /\ UNCHANGED <<fdtab, want, head, out, file>>
     \/ /\ got[pin] = 0
        /\ upd' = "sel" /\ want' = "file" /\ head' = pin /\ file' = file
        /\ out' \in Lowest /\ fdtab' = [fdtab EXCEPT ![out'] = "file"]
  /\ UNCHANGED <<clients, backlog, shared, accepts, raced>>

\* What recv() returns while a header is expected.  Anything but a header
\* with a good check sum, too little space or a file that cannot be created
\* sends the thread back without closing anything.
RecvHeader ==
  /\ upd = "receiving" /\ want = "header" /\ HasData(pin)
  /\ got' = [got EXCEPT ![pin] = @ + 1] /\ pin' = None
  /\ \/ upd' = "idle" /\ UNCHANGED <<fdtab, want, head, out, file>>
     \/ /\ got[pin] = 0
        /\ upd' = "sel" /\ want' = "file" /\ head' = pin /\ file' = <<>>
        /\ out' \in Lowest /\ fdtab' = [fdtab EXCEPT ![out'] = "file"]
  /\ UNCHANGED <<clients, backlog, shared, accepts, raced>>

\* Whatever is received next is written, until there is as much as announced.
RecvPiece ==
  /\ upd = "receiving" /\ want = "file" /\ HasData(pin)
  /\ got' = [got EXCEPT ![pin] = @ + 1] /\ pin' = None
  /\ file' = Append(file, <<pin, got[pin]>>)
  /\ upd' = IF Len(file) + 1 = Pieces THEN "check" ELSE "sel"
  /\ UNCHANGED <<clients, backlog, fdtab, shared, accepts, want, head, out, raced>>

\* fclose, then Check_update_file and Update_process (see FirmwareUpdate).
Check ==
  /\ UpdGoto("check", "idle") /\ want' = "header"
  /\ fdtab' = Closed(out) /\ out' = NoFd
  /\ UNCHANGED <<clients, got, backlog, shared, accepts, pin, head, file, raced>>

\* The tear-downs: end of file, an error of recv, and the file given up.
CloseClient(a, b) ==
  /\ UpdGoto(a, b) /\ fdtab' = Closed(client_fd)
  /\ UNCHANGED <<clients, got, backlog, shared, accepts, updates, raced>>

\* Where the thread goes when Recv_Internet_Msg has returned 0.
Returned == IF want = "file" THEN "end1" ELSE "idle"

ForgetClient(a, b) ==
  /\ UpdGoto(a, b) /\ client_fd' = NoFd
  /\ UNCHANGED <<clients, got, backlog, fdtab, connect_state, accepts, updates, raced>>

Unflag(a, b) ==
  /\ UpdGoto(a, b) /\ connect_state' = 0
  /\ UNCHANGED <<clients, got, backlog, fdtab, client_fd, accepts, updates, raced>>

\* connect_state = 0, fclose, remove.
GiveUp ==
  /\ UpdGoto("end3", "idle") /\ connect_state' = 0 /\ want' = "header"
  /\ fdtab' = Closed(out) /\ out' = NoFd
  /\ UNCHANGED <<clients, got, backlog, client_fd, accepts, pin, head, file, raced>>

Drops ==
  \/ CloseClient("eof1", "eof2") \/ ForgetClient("eof2", "eof3") \/ Unflag("eof3", Returned)
  \/ CloseClient("err1", "err2") \/ Unflag("err2", "err3") \/ ForgetClient("err3", Returned)
  \/ CloseClient("end1", "end2") \/ ForgetClient("end2", "end3") \/ GiveUp

-----------------------------------------------------------------------------
(* Clients *)

Connect(c) ==
  /\ peer[c] = "new" /\ peer' = [peer EXCEPT ![c] = "up"]
  /\ backlog' = backlog \cup {c}
  /\ UNCHANGED <<sent, got, fdtab, shared, accepts, upd, updates, raced>>

Send(c) ==
  /\ peer[c] = "up" /\ sent[c] <= Pieces /\ sent' = [sent EXCEPT ![c] = @ + 1]
  /\ UNCHANGED <<peer, got, backlog, fdtab, shared, accepts, upd, updates, raced>>

Leave(c) ==
  /\ peer[c] = "up" /\ peer' = [peer EXCEPT ![c] = "gone"]
  /\ UNCHANGED <<sent, got, backlog, fdtab, shared, accepts, upd, updates, raced>>

Accepter == AcceptEnter \/ Flag \/ Test \/ Close \/ Store \/ \E c \in Conn : Accept(c)

Updater ==
  \/ Begin \/ Select \/ Ready \/ Timeout \/ Recv \/ RecvEof
  \/ RecvHeader \/ RecvPiece \/ Check \/ Drops

Next ==
  /\ acc # "exit"
  /\ \/ Accepter \/ AcceptFails \/ Updater
     \/ \E c \in Conn : Connect(c) \/ Send(c) \/ Leave(c)

\* Both threads are scheduled; clients do what they like.
Fairness == WF_vars(acc # "exit" /\ Accepter) /\ WF_vars(acc # "exit" /\ Updater)

Spec == Init /\ [][Next]_vars
FairSpec == Spec /\ Fairness

-----------------------------------------------------------------------------
(* Properties *)

TypeOK ==
  /\ peer \in [Conn -> {"new", "up", "gone"}]
  /\ sent \in [Conn -> 0..Pieces + 1] /\ got \in [Conn -> 0..Pieces + 1]
  /\ backlog \subseteq Conn /\ calm \subseteq Conn
  /\ fdtab \in [Fd -> Conn \cup {"free", "accept", "file"}]
  /\ connect_state \in {0, 1} /\ client_fd \in Fd \cup {NoFd}
  /\ acc \in AccPc /\ new \in Fd \cup {NoFd}
  /\ upd \in UpdPc /\ want \in {"header", "file"}
  /\ pin \in Conn \cup {None} /\ head \in Conn \cup {None}
  /\ out \in Fd \cup {NoFd}
  /\ file \in Seq(Conn \X (0..Pieces + 1)) /\ raced \in {"yes", "no"}

\* Unless a hand-over met a tear-down, an accepted client is the one in
\* client_fd and connect_state says so: none is left open and unserved.
NoneStranded ==
  raced = "no" /\ acc \notin HandOver /\ upd \notin TearDown =>
    /\ client_fd > 0 => connect_state = 1 /\ At(client_fd) # None
    /\ \A c \in Open : At(client_fd) = c \/ (acc = "flag" /\ At(new) = c)

\* Unless a hand-over met a tear-down, the file being received stays open:
\* its number, the lowest free one, is not one a thread is yet to close.
FileStaysOpen == raced = "no" /\ want = "file" => fdtab[out] = "file"

\* The file holds what clients sent in the order they sent it: first pieces
\* of the client whose header was accepted, then, if it was replaced, the
\* next client's stream from its header on.
FileOrder ==
  \A i \in 1..Len(file) :
    IF i = 1 THEN file[1] \in {<<head, 1>>} \cup (Conn \X {0})
    ELSE \/ file[i] = <<file[i-1][1], file[i-1][2] + 1>>
         \/ file[i][2] = 0 /\ file[i][1] # file[i-1][1]

\* What holds between the two threads, although they share no lock.
Inv == TypeOK /\ NoneStranded /\ FileStaysOpen

\* A client that connects while no file is being received, and sends, is read
\* from, unless it is replaced or its hand-over met a tear-down
\* (update_server.c:59-76, 153-161).
Heard ==
  \A c \in Conn :
    c \in calm /\ At(client_fd) = c /\ sent[c] > 0
      ~> got[c] > 0 \/ At(client_fd) # c \/ raced = "yes" \/ acc = "exit"

\* The reception of a file ends, complete or given up, whatever the client
\* does; but recv() has no timeout of its own, and waits for ever on a silent
\* client that has replaced the one select() found ready (:51-53).
TransferEnds ==
  want = "file" ~> \/ want = "header" \/ raced = "yes" \/ acc = "exit"
                   \/ upd = "receiving" /\ pin # head

=============================================================================
