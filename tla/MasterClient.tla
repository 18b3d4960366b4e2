----------------------------- MODULE MasterClient -----------------------------
(***************************************************************************)
(* The test client that plays the master                                   *)
(* (dz_voip_20200810/test/voip_client/dz_voip_client.c): one thread plays  *)
(* what it receives, one records and sends, one answers single-digit       *)
(* commands with their names.  The first two share a mutex around the PCM  *)
(* devices.  client_ctrl clears its buffer for a length, size, that it     *)
(* never sets, so what follows the bytes received is what was there        *)
(* before; the two bytes atoi() can tell apart are kept here.              *)
(***************************************************************************)
EXTENDS Naturals, Sequences, SequencesExt

CONSTANTS
  MaxWire,  \* bound: bytes under way to the client on the control connection
  MaxCmd,   \* bound: commands sent by the phone
  None      \* no owner

ClientAssumption ==
  MaxWire \in Nat \ {0} /\ MaxCmd \in Nat /\ None \notin {"recv", "send"}

Port == {"recv", "send", "ctrl"}
Symbol == {"digit", "text", "nul"}

VARIABLES
  up,          \* "no" (not started, or ended), "yes"
  conn,        \* per port: "new", "up", "gone" (closed by the phone)
  recv, send, ctrl, \* the threads: control points
  mutex_audio, \* the owner, or None
  size,        \* what the uninitialised variable holds: "none", "all", "beyond"
  wire,        \* bytes from the phone on the control connection
  recv_buf,    \* the first two bytes of client_ctrl's buffer
  sent,        \* commands the phone has sent
  handled, named, \* commands handled, and answered with their name
  mixed        \* "yes" once a digit has stood behind the one received

voices == <<recv, send, mutex_audio>>
cmds   == <<ctrl, size, wire, recv_buf, sent, handled, named, mixed>>
vars == <<up, conn, recv, send, ctrl, mutex_audio, size, wire, recv_buf,
          sent, handled, named, mixed>>

Init ==
  /\ up \in {"yes", "no"} /\ conn = [p \in Port |-> "new"]
  /\ recv = "connect" /\ send = "connect" /\ ctrl = "connect"
  /\ mutex_audio = None
  /\ IF up = "yes" THEN size \in {"none", "all", "beyond"} /\ recv_buf \in [1..2 -> Symbol]
                   ELSE size = "all" /\ recv_buf = <<"nul", "nul">>
  /\ wire = <<>> /\ sent = 0 /\ handled = 0 /\ named = 0 /\ mixed = "no"

\* exit(0), or the signal of a send() to a closed connection.
Exit ==
  /\ up' = "no" /\ conn' = [p \in Port |-> "gone"]
  /\ recv' = "connect" /\ send' = "connect" /\ ctrl' = "connect"
  /\ mutex_audio' = None /\ size' = "all" /\ wire' = <<>>
  /\ recv_buf' = <<"nul", "nul">> /\ sent' = 0 /\ handled' = 0 /\ named' = 0
  /\ mixed' = "no"

\* socket, inet_pton and connect: a failure of any thread ends the program.
Connect(p) ==
  /\ conn[p] = "new"
  /\ \/ /\ conn' = [conn EXCEPT ![p] = "up"]
        /\ recv' = IF p = "recv" THEN "recv" ELSE recv
        /\ send' = IF p = "send" THEN "lock" ELSE send
        /\ ctrl' = IF p = "ctrl" THEN "recv" ELSE ctrl
        /\ UNCHANGED <<up, mutex_audio, size, wire, recv_buf, sent, handled, named, mixed>>
     \/ Exit

-----------------------------------------------------------------------------
(* client_recv, client_send *)

\* recv() returns data; without any it blocks, and at the end of the stream
\* it is called again and again.
RecvReturn ==
  /\ recv = "recv" /\ conn["recv"] = "up" /\ recv' = "lock"
  /\ UNCHANGED <<up, conn, send, mutex_audio, cmds>>

RecvLock ==
  /\ recv = "lock" /\ mutex_audio = None
  /\ recv' = "pcm" /\ mutex_audio' = "recv"
  /\ UNCHANGED <<up, conn, send, cmds>>

\* snd_pcm_writei with its error cases, and the unlock.
RecvUnlock ==
  /\ recv = "pcm" /\ recv' = "recv" /\ mutex_audio' = None
  /\ UNCHANGED <<up, conn, send, cmds>>

\* Bug: the capture device is read without the mutex.
SendLockSkips ==
  /\ send = "lock" /\ send' = "pcm"
  /\ UNCHANGED <<up, conn, recv, mutex_audio, cmds>>

SendLock ==
  /\ send = "lock" /\ mutex_audio = None
  /\ send' = "pcm" /\ mutex_audio' = "send"
  /\ UNCHANGED <<up, conn, recv, cmds>>

\* snd_pcm_readi with its error cases, and the unlock.
SendUnlock ==
  /\ send = "pcm" /\ send' = "send" /\ mutex_audio' = None
  /\ UNCHANGED <<up, conn, recv, cmds>>

\* Bug: a failed send is reported and the loop goes on.
SendGoesOn ==
  /\ send = "send" /\ send' = "lock"
  /\ UNCHANGED <<up, conn, recv, mutex_audio, cmds>>

\* send(): on a connection the phone has closed it ends the program.
Send ==
  /\ send = "send"
  /\ IF conn["send"] = "gone" THEN Exit
     ELSE send' = "lock" /\ UNCHANGED <<up, conn, recv, mutex_audio, cmds>>

-----------------------------------------------------------------------------
(* client_ctrl *)

\* recv() puts what has arrived, or part of it, over the start of the buffer.
CtrlRecv ==
  /\ ctrl = "recv" /\ wire # <<>> /\ ctrl' = "handle"
  /\ \E n \in 1..Len(wire) :
       /\ recv_buf' = [i \in 1..2 |-> IF i <= n THEN wire[i] ELSE recv_buf[i]]
       /\ wire' = SubSeq(wire, n + 1, Len(wire))
  /\ mixed' = IF recv_buf'[2] = "digit" THEN "yes" ELSE mixed
  /\ UNCHANGED <<up, conn, voices, size, sent, handled, named>>

\* atoi(): one digit is a command, two are a number that is none, a text is 0.
ctrl_cmd_handle ==
  /\ ctrl = "handle" /\ ctrl' = "clear"
  /\ handled' = IF recv_buf[1] = "digit" THEN handled + 1 ELSE handled
  /\ named' = IF recv_buf[1] = "digit" /\ recv_buf[2] # "digit" THEN named + 1 ELSE named
  /\ UNCHANGED <<up, conn, voices, size, wire, recv_buf, sent, mixed>>

\* memset(recv_buf, 0, size): nothing, the buffer, or the stack behind it too.
Clear ==
  /\ ctrl = "clear"
  /\ \/ /\ ctrl' = "recv"
        /\ recv_buf' = IF size = "none" THEN recv_buf ELSE <<"nul", "nul">>
        /\ UNCHANGED <<up, conn, voices, size, wire, sent, handled, named, mixed>>
     \/ size = "beyond" /\ Exit

-----------------------------------------------------------------------------
(* The phone *)

\* It sends the number of its state, or the name of a command.
PhoneSends(b) ==
  /\ conn["ctrl"] = "up" /\ Len(wire) < MaxWire /\ wire' = Append(wire, b)
  /\ sent < MaxCmd /\ sent' = sent + 1
  /\ UNCHANGED <<up, conn, voices, ctrl, size, recv_buf, handled, named, mixed>>

PhoneCloses(p) ==
  /\ conn[p] = "up" /\ conn' = [conn EXCEPT ![p] = "gone"]
  /\ UNCHANGED <<up, voices, cmds>>

Sender == SendUnlock \/ Send
Ctrl == CtrlRecv \/ ctrl_cmd_handle \/ Clear

Next ==
  /\ up = "yes"
  /\ \/ \E p \in Port : Connect(p) \/ PhoneCloses(p)
     \/ RecvReturn \/ RecvLock \/ RecvUnlock
     \/ Sender \/ SendLock \/ Ctrl
     \/ \E b \in {"digit", "text"} : PhoneSends(b)

\* The threads are scheduled, and a mutex that is free again and again is
\* got.  The phone does what it likes.
Fairness ==
  /\ WF_vars(up = "yes" /\ RecvUnlock) /\ WF_vars(up = "yes" /\ Sender)
  /\ SF_vars(up = "yes" /\ SendLock) /\ WF_vars(up = "yes" /\ Ctrl)

Spec == Init /\ [][Next]_vars
FairSpec == Spec /\ Fairness

-----------------------------------------------------------------------------
(* Properties *)

TypeOK ==
  /\ up \in {"yes", "no"} /\ conn \in [Port -> {"new", "up", "gone"}]
  /\ recv \in {"connect", "recv", "lock", "pcm"}
  /\ send \in {"connect", "lock", "pcm", "send"}
  /\ ctrl \in {"connect", "recv", "handle", "clear"}
  /\ mutex_audio \in {"recv", "send", None}
  /\ size \in {"none", "all", "beyond"}
  /\ wire \in Seq({"digit", "text"}) /\ recv_buf \in [1..2 -> Symbol]
  /\ sent \in 0..MaxCmd /\ handled \in Nat /\ named \in Nat
  /\ mixed \in {"yes", "no"}

\* The PCM devices have one user at a time.
Exclusive == (recv = "pcm" => mutex_audio = "recv") /\ (send = "pcm" => mutex_audio = "send")

\* As long as no read has brought two bytes at once or met a digit left in
\* the buffer, every command is answered once, whatever size holds and
\* wherever the clearing stops (dz_voip_client.c:352-354, 381-384).
Understood == handled <= sent /\ (mixed = "no" => named = handled) /\ named <= handled

ClientInv == TypeOK /\ Exclusive /\ Understood

\* Once the phone has closed the connection the client sends on, the client
\* ends, however the two audio threads share the mutex.
Ends == conn["send"] = "gone" ~> up = "no"

=============================================================================
