------------------------------ MODULE VoipAudio ------------------------------
(***************************************************************************)
(* The audio streams of the phone (dz_voip_20200810/src/voip.c).  Two      *)
(* server threads accept clients, one on the port that sends microphone    *)
(* data (audio_send_handle), one on the port that receives the other       *)
(* side's voice (audio_recv_handle).  Each accepted client gets a worker   *)
(* thread (server_send, server_recv), which is never ended.                *)
(* The server thread passes its worker the ADDRESS of its local client_fd, *)
(* and closes and resets that variable when it comes round to accept       *)
(* again; the worker reads the variable when it starts to run.  All of     *)
(* them share the process's descriptor table, whose lowest free number is  *)
(* given to the next accept, and one mutex around the two PCM devices,     *)
(* which the receiving server initialises when it starts.                  *)
(* A worker is named by the connection it was created for.                 *)
(***************************************************************************)
EXTENDS Integers, FiniteSets

CONSTANTS
  SendConn,  \* clients of TCP_SEND_PORT, each used once
  RecvConn,  \* clients of TCP_RECV_PORT, each used once
  MaxClients, \* bound: clients that connect
  Fd,        \* descriptor numbers left for the audio connections
  None       \* no connection, no owner

Port == {"send", "recv"}
Conn == SendConn \cup RecvConn

VoipAssumption ==
  /\ Fd \subseteq Nat \ {0} /\ MaxClients \in Nat /\ SendConn \cap RecvConn = {}
  /\ Conn \cap {"free", "send", "recv", None} = {}
  /\ None \notin {"free", "send", "recv"}

VARIABLES
  up,          \* "yes" while the process runs, "no" before and after
  pcm,         \* devices opened by audio_params_init
  phone,       \* "active" while phone_state is PHONE_STATE_ACTIVATED
  peer,        \* per connection: state of the far end
  backlog,     \* connections waiting for accept
  fdtab,       \* descriptor table; a port's name: held by its accept
  srv,         \* per port: control point of the server thread
  client_fd,   \* per port: its local client_fd
  work, fd,    \* per worker: control point, its copy of client_fd
  pin,         \* per worker: the connection its recv has begun on
  mutex_audio, \* the owner, or None
  broken       \* "yes" once the mutex was initialised while it was held

srvs  == <<srv, client_fd>>
works == <<work, fd, pin>>
locks == <<mutex_audio, broken>>
vars  == <<up, pcm, phone, peer, backlog, fdtab, srv, client_fd,
           work, fd, pin, mutex_audio, broken>>

PortOf(c) == IF c \in SendConn THEN "send" ELSE "recv"
NoFd == 0 - 1
SrvPc == {"start", "listen", "prior", "clear", "enter", "wait"}
WorkPc == {"none", "start", "test", "lock", "pcm", "send", "recv", "recving"}

\* The connection behind descriptor f, None when f names no open socket.
At(f) == IF f \in Fd THEN IF fdtab[f] \in Conn THEN fdtab[f] ELSE None ELSE None

Open == {c \in Conn : \E f \in Fd : fdtab[f] = c}
FreeFds == {f \in Fd : fdtab[f] = "free"}
InPcm == {w \in Conn : work[w] = "pcm"}

Init ==
  /\ up \in {"yes", "no"} /\ pcm = "none" /\ phone = "idle"
  /\ peer = [c \in Conn |-> "new"] /\ backlog = {}
  /\ fdtab = [f \in Fd |-> "free"]
  /\ srv = [p \in Port |-> "start"] /\ client_fd = [p \in Port |-> 0]
  /\ work = [w \in Conn |-> "none"] /\ fd = [w \in Conn |-> 0]
  /\ pin = [w \in Conn |-> None]
  /\ mutex_audio = None /\ broken = "no"

-----------------------------------------------------------------------------
(* Start: the devices, then the two servers *)

\* exit() or a signal ends every thread; the system closes what is open.
Exit ==
  /\ up' = "no" /\ pcm' = "none" /\ phone' = "idle"
  /\ peer' = [c \in Conn |-> "gone"] /\ backlog' = {}
  /\ fdtab' = [f \in Fd |-> "free"]
  /\ srv' = [p \in Port |-> "start"] /\ client_fd' = [p \in Port |-> 0]
  /\ work' = [w \in Conn |-> "none"] /\ fd' = [w \in Conn |-> 0]
  /\ pin' = [w \in Conn |-> None]
  /\ mutex_audio' = None /\ broken' = "no"

\* dz_set_params: the device is opened and its parameters are accepted, or
\* the program exits; capture first, then playback.
dz_set_params(from, to) ==
  /\ pcm = from
  /\ \/ /\ pcm' = to
        /\ UNCHANGED <<up, phone, peer, backlog, fdtab, srvs, works, locks>>
     \/ Exit

SrvGoto(p, a, b) == srv[p] = a /\ srv' = [srv EXCEPT ![p] = b]

\* Sending port: socket and bind are retried until they succeed.
SendStart ==
  /\ pcm = "both" /\ SrvGoto("send", "start", "listen")
  /\ UNCHANGED <<up, pcm, phone, peer, backlog, fdtab, client_fd, works, locks>>

\* Receiving port: the mutex is initialised, whoever holds it; socket, bind
\* and listen then succeed or the program exits.
RecvStart ==
  /\ pcm = "both" /\ SrvGoto("recv", "start", "prior")
  /\ mutex_audio' = None
  /\ broken' = IF mutex_audio = None THEN broken ELSE "yes"
  /\ UNCHANGED <<up, pcm, phone, peer, backlog, fdtab, client_fd, works>>

RecvStartFails == srv["recv"] = "start" /\ pcm = "both" /\ Exit

\* The sending server listens again before every accept.
Listen ==
  /\ SrvGoto("send", "listen", "prior")
  /\ UNCHANGED <<up, pcm, phone, peer, backlog, fdtab, client_fd, works, locks>>

ListenFails == srv["send"] = "listen" /\ Exit

-----------------------------------------------------------------------------
(* The server threads; p is the port *)

\* Bug: what is in client_fd is not closed.
PriorForgets(p) ==
  /\ SrvGoto(p, "prior", "enter")
  /\ UNCHANGED <<up, pcm, phone, peer, backlog, fdtab, client_fd, works, locks>>

\* if(client_fd > 0) close(client_fd)
Prior(p) ==
  /\ IF client_fd[p] > 0
       THEN /\ SrvGoto(p, "prior", "clear")
            /\ fdtab' = [fdtab EXCEPT ![client_fd[p]] = "free"]
       ELSE SrvGoto(p, "prior", "enter") /\ UNCHANGED fdtab
  /\ UNCHANGED <<up, pcm, phone, peer, backlog, client_fd, works, locks>>

\* client_fd = -1
Clear(p) ==
  /\ SrvGoto(p, "clear", "enter")
  /\ client_fd' = [client_fd EXCEPT ![p] = NoFd]
  /\ UNCHANGED <<up, pcm, phone, peer, backlog, fdtab, works, locks>>

\* accept() is entered and reserves the lowest free number.
AcceptEnter(p) ==
  /\ SrvGoto(p, "enter", "wait")
  /\ \E f \in FreeFds :
       /\ \A g \in FreeFds : f <= g
       /\ fdtab' = [fdtab EXCEPT ![f] = p]
  /\ UNCHANGED <<up, pcm, phone, peer, backlog, client_fd, works, locks>>

\* Where the server goes once it has created a worker.
Again(p) == IF p = "send" THEN "listen" ELSE "prior"

\* accept() returns c: its number is stored and a worker for it created.
Accept(c) ==
  LET p == PortOf(c) IN
  /\ SrvGoto(p, "wait", Again(p))
  /\ c \in backlog /\ backlog' = backlog \ {c}
  /\ \E f \in Fd :
       /\ fdtab[f] = p
       /\ fdtab' = [fdtab EXCEPT ![f] = c]
       /\ client_fd' = [client_fd EXCEPT ![p] = f]
  /\ work' = [work EXCEPT ![c] = "start"]
  /\ UNCHANGED <<up, pcm, phone, peer, fd, pin, locks>>

\* Bug: after a failure the receiving server does not come back to accept.
AcceptGivesUp(p) ==
  /\ srv[p] = "enter"
  /\ IF p = "send" THEN Exit
     ELSE /\ SrvGoto(p, "enter", "wait")
          /\ UNCHANGED <<up, pcm, phone, peer, backlog, fdtab, client_fd, works, locks>>

\* accept() fails: the receiving server tries again, the sending one exits.
AcceptFails(p) ==
  /\ srv[p] = "enter"
  /\ IF p = "send" THEN Exit
     ELSE /\ SrvGoto(p, "enter", "prior")
          /\ client_fd' = [client_fd EXCEPT ![p] = NoFd]
          /\ UNCHANGED <<up, pcm, phone, peer, backlog, fdtab, works, locks>>

-----------------------------------------------------------------------------
(* The workers; w is the connection the worker was created for *)

WorkGoto(w, a, b) == work[w] = a /\ work' = [work EXCEPT ![w] = b]

\* int client_fd = *(int *)arg
Start(w) ==
  /\ WorkGoto(w, "start", IF PortOf(w) = "send" THEN "test" ELSE "recv")
  /\ fd' = [fd EXCEPT ![w] = client_fd[PortOf(w)]]
  /\ UNCHANGED <<up, pcm, phone, peer, backlog, fdtab, srvs, pin, locks>>

\* if(get_phone_state() == PHONE_STATE_ACTIVATED), tried again by the
\* sending worker; the receiving one drops what it has received.
Test(w) ==
  /\ \/ phone = "active" /\ WorkGoto(w, "test", "lock")
     \/ phone = "idle" /\ PortOf(w) = "recv" /\ WorkGoto(w, "test", "recv")
  /\ UNCHANGED <<up, pcm, phone, peer, backlog, fdtab, srvs, fd, pin, locks>>

\* Bug: the device is used without the mutex.
LockSkips(w) ==
  /\ WorkGoto(w, "lock", "pcm")
  /\ UNCHANGED <<up, pcm, phone, peer, backlog, fdtab, srvs, fd, pin, locks>>

Lock(w) ==
  /\ WorkGoto(w, "lock", "pcm")
  /\ mutex_audio = None /\ mutex_audio' = w
  /\ UNCHANGED <<up, pcm, phone, peer, backlog, fdtab, srvs, fd, pin, broken>>

\* snd_pcm_readi or snd_pcm_writei, with its error cases, then the unlock,
\* which frees the mutex whoever owns it.
Unlock(w) ==
  /\ WorkGoto(w, "pcm", IF PortOf(w) = "send" THEN "send" ELSE "recv")
  /\ mutex_audio' = None
  /\ UNCHANGED <<up, pcm, phone, peer, backlog, fdtab, srvs, fd, pin, broken>>

\* send() delivers a frame to whatever connection fd names now.
Send(w) ==
  /\ WorkGoto(w, "send", "test")
  /\ At(fd[w]) # None
  /\ UNCHANGED <<up, pcm, phone, peer, backlog, fdtab, srvs, fd, pin, locks>>

\* send() fails and the program exits: fd names nothing, or the client has
\* gone (EPIPE, or the signal that has no handler).
SendFails(w) ==
  /\ work[w] = "send"
  /\ At(fd[w]) # None => peer[At(fd[w])] = "gone"
  /\ Exit

\* recv() is entered: it keeps the connection it finds behind fd.  On a
\* number that names nothing it fails at once and is tried again.
RecvEnter(w) ==
  /\ WorkGoto(w, "recv", "recving")
  /\ At(fd[w]) # None /\ pin' = [pin EXCEPT ![w] = At(fd[w])]
  /\ UNCHANGED <<up, pcm, phone, peer, backlog, fdtab, srvs, fd, locks>>

\* recv() returns data, or the end of the stream, after which it is called
\* again and again.
RecvReturn(w) ==
  /\ work[w] = "recving"
  /\ work' = [work EXCEPT ![w] = IF peer[pin[w]] = "up" THEN "test" ELSE "recv"]
  /\ pin' = [pin EXCEPT ![w] = None]
  /\ UNCHANGED <<up, pcm, phone, peer, backlog, fdtab, srvs, fd, locks>>

-----------------------------------------------------------------------------
(* Around: clients, and the call control *)

Connect(c) ==
  /\ peer[c] = "new" /\ srv[PortOf(c)] # "start"
  /\ Cardinality({d \in Conn : peer[d] # "new"}) < MaxClients
  /\ peer' = [peer EXCEPT ![c] = "up"] /\ backlog' = backlog \cup {c}
  /\ UNCHANGED <<up, pcm, phone, fdtab, srvs, works, locks>>

PeerClose(c) ==
  /\ peer[c] = "up" /\ peer' = [peer EXCEPT ![c] = "gone"]
  /\ UNCHANGED <<up, pcm, phone, backlog, fdtab, srvs, works, locks>>

\* phone_state enters or leaves PHONE_STATE_ACTIVATED (see PhoneCall).
CallChanges ==
  /\ pcm = "both" /\ phone' \in {"active", "idle"} \ {phone}
  /\ UNCHANGED <<up, pcm, peer, backlog, fdtab, srvs, works, locks>>

OpenPcm == dz_set_params("none", "capture") \/ dz_set_params("capture", "both")

Server(p) ==
  \/ p = "send" /\ (SendStart \/ Listen)
  \/ p = "recv" /\ RecvStart
  \/ Prior(p) \/ Clear(p) \/ AcceptEnter(p)
  \/ \E c \in Conn : PortOf(c) = p /\ Accept(c)

Fails == RecvStartFails \/ ListenFails \/ \E p \in Port : AcceptFails(p)

Runs(w) ==
  \/ Start(w) \/ Test(w) \/ Unlock(w)
  \/ Send(w) \/ SendFails(w) \/ RecvEnter(w)

Worker(w) == Runs(w) \/ Lock(w) \/ RecvReturn(w)

Around == CallChanges \/ \E c \in Conn : Connect(c) \/ PeerClose(c)

Next ==
  /\ up = "yes"
  /\ \/ OpenPcm \/ Fails \/ Around
     \/ \E p \in Port : Server(p)
     \/ \E w \in Conn : Worker(w)

Spec == Init /\ [][Next]_vars

\* Every thread is scheduled, and gets the mutex if it goes on being freed;
\* but one initialised while it is in use may forget a waiter.  Nothing is
\* assumed of clients (data need not arrive) and calls.  A failure need not
\* happen, and accept() on the receiving port does not fail every time.
Fairness ==
  /\ SF_vars(up = "yes" /\ AcceptEnter("recv"))
  /\ \A p \in Port : WF_vars(up = "yes" /\ Server(p))
  /\ \A w \in Conn : WF_vars(up = "yes" /\ Runs(w))
  /\ \A w \in SendConn : SF_vars(up = "yes" /\ broken = "no" /\ Lock(w))

FairSpec == Spec /\ Fairness

-----------------------------------------------------------------------------
(* Properties *)

TypeOK ==
  /\ up \in {"yes", "no"} /\ pcm \in {"none", "capture", "both"}
  /\ phone \in {"active", "idle"}
  /\ peer \in [Conn -> {"new", "up", "gone"}]
  /\ backlog \in SUBSET Conn
  /\ fdtab \in [Fd -> Conn \cup {"free"} \cup Port]
  /\ srv \in [Port -> SrvPc] /\ client_fd \in [Port -> Fd \cup {NoFd, 0}]
  /\ work \in [Conn -> WorkPc] /\ fd \in [Conn -> Fd \cup {NoFd, 0}]
  /\ pin \in [Conn -> Conn \cup {None}]
  /\ mutex_audio \in Conn \cup {None} /\ broken \in {"yes", "no"}

\* A server holds at most one number: the one reserved by its accept or the
\* one in client_fd.  No open connection is forgotten, and none is closed by
\* the other server, although the numbers are shared (voip.c:160, :249).
Owned ==
  \A f \in Fd :
    /\ fdtab[f] \in Port =>
         /\ srv[fdtab[f]] = "wait"
         /\ \A g \in Fd : fdtab[g] = fdtab[f] => g = f
    /\ fdtab[f] \in Conn =>
         LET p == PortOf(fdtab[f]) IN
         client_fd[p] = f /\ srv[p] \in {"listen", "prior"}

\* client_fd names an open connection of its own port whenever the server
\* is about to close it.
PriorIsOwn ==
  \A p \in Port : srv[p] \in {"listen", "prior"} /\ client_fd[p] > 0 =>
    /\ At(client_fd[p]) # None
    /\ PortOf(At(client_fd[p])) = p

\* As long as a connection is open its worker uses it and nothing else, even
\* though it reads the number through a pointer to a variable the server
\* goes on writing (voip.c:179, 262; 375, 427).
OwnWhileOpen ==
  \A w \in Open : work[w] \notin {"none", "start"} => At(fd[w]) = w

\* A worker that has run into another connection has lost its own.
StrayHasLost ==
  \A w \in Conn : At(fd[w]) \notin {w, None} => w \notin Open

\* The PCM devices have one user at a time, unless the receiving server
\* started while a sending worker held the mutex; then they may have two for
\* good, as each frees the mutex the other one holds (voip.c:205, 388, 444).
PcmExclusive ==
  /\ Cardinality(InPcm) <= (IF broken = "yes" THEN 2 ELSE 1)
  /\ broken = "no" => \A w \in InPcm : mutex_audio = w

\* What the sharing of descriptors between the servers and the workers
\* leaves intact, for a whole run of the program.
Inv == TypeOK /\ Owned /\ PriorIsOwn /\ OwnWhileOpen /\ StrayHasLost

\* Two descriptor numbers are enough for the two servers: accept never fails
\* for want of one, so the sending server does not end the program that way.
NumbersSuffice == \A p \in Port : srv[p] = "enter" => FreeFds # {}

\* Every client of either port gets a worker, or the program exits.
Served == \A c \in Conn : c \in backlog ~> (work[c] # "none" \/ up = "no")

\* No call outlives a client of the sending port: the server closes the
\* descriptor 500 ms after it accepted it, the worker goes on sending to
\* that number, and once it names nothing send() fails and the program ends
\* (voip.c:160-164, 405-408), unless the mutex was initialised in use.
SendDooms ==
  \A w \in SendConn :
    work[w] # "none" ~> phone = "idle" \/ up = "no" \/ broken = "yes"

=============================================================================
