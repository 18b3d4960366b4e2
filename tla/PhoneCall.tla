------------------------------ MODULE PhoneCall ------------------------------
(***************************************************************************)
(* The call of the phone (dz_voip_20200810/src: phone.c, events.c, key.c). *)
(* Two threads move phone_state: the main thread on commands received over *)
(* the control link, the key thread when the phone key is pressed.  Both   *)
(* test phone_state without mutex_phone_stat and take the mutex only to    *)
(* write it.  The control link is as CtrlLink promises it: one client at a *)
(* time, its commands received in order; its descriptors are CtrlServer's. *)
(***************************************************************************)
EXTENDS Naturals, Sequences

CONSTANTS
  MaxInbox,    \* bound: commands sent to the phone and not yet received
  MaxWire,     \* room for messages to the client; when full, sends are lost
  Terminated,  \* TRUE: the client ends each command with a NUL byte
  Steady       \* TRUE: the phone key is pressed only while server_fd > 0

ASSUME ParamAssumption == /\ MaxInbox \in Nat /\ MaxWire \in Nat
                          /\ Terminated \in BOOLEAN /\ Steady \in BOOLEAN

VARIABLES
  up,            \* the process runs
  phone_state, mutex_phone_stat,   \* mutex: its owner, or "none"
  server_fd,     \* "unset", "open", "closed": only > 0, here "open", is tested
  link,          \* client_fd: "none", "up", or "fin" when the client closed
  inbox, wire,   \* commands to the phone, messages to the client
  pc,            \* per thread: control point
  goal,          \* per thread: the state it is to write
  inCall,        \* the threads inside voice_call_answer or voice_call_handup
  buf,           \* per thread: the state it is to report
  cmd            \* main thread: the command in hand, "none" if unknown

thread == <<pc, goal, inCall, buf, cmd>>
net    == <<server_fd, link, inbox, wire>>
vars   == <<up, phone_state, mutex_phone_stat, net, thread>>

Threads == {"main", "key"}

\* phone.h: commands and states.
RMT_CALL_IN_REQ == "RMT_CALL_IN_REQ"
RMT_HANDUP_SYNC == "RMT_HANDUP_SYNC"
MSR_ANSWER_SYNC == "MSR_ANSWER_SYNC"
MSR_HANDUP_SYNC == "MSR_HANDUP_SYNC"
HandupCmds == {RMT_HANDUP_SYNC, MSR_HANDUP_SYNC}
Commands == {RMT_CALL_IN_REQ, MSR_ANSWER_SYNC} \cup HandupCmds
States == {"NORMAL", "WAIT", "ACTIVATED"}

MainPc == {"poll", "loop", "recv", "dispatch", "check", "lock", "set",
           "unlock", "get", "send", "ack"}
KeyPc == {"off", "open", "idle", "check", "lock", "set", "unlock", "get", "send"}

TypeOK ==
  /\ up \in BOOLEAN
  /\ phone_state \in States
  /\ mutex_phone_stat \in Threads \cup {"none"}
  /\ server_fd \in {"unset", "open", "closed"}
  /\ link \in {"none", "up", "fin"}
  /\ inbox \in Seq(Commands) /\ Len(inbox) <= MaxInbox
  /\ wire \in Seq(Commands \cup States) /\ Len(wire) <= MaxWire
  /\ pc \in [Threads -> MainPc \cup KeyPc]
  /\ pc["main"] \in MainPc /\ pc["key"] \in KeyPc
  /\ goal \in [Threads -> States] /\ buf \in [Threads -> States]
  /\ inCall \in SUBSET Threads
  /\ cmd \in Commands \cup {"none"}

Init ==
  /\ up = TRUE
  /\ phone_state = "NORMAL" /\ mutex_phone_stat = "none"
  /\ server_fd = "unset" /\ link = "none"
  /\ inbox = <<>> /\ wire = <<>>
  /\ pc = [t \in Threads |-> IF t = "main" THEN "poll" ELSE "off"]
  /\ goal = [t \in Threads |-> "NORMAL"] /\ buf = [t \in Threads |-> "NORMAL"]
  /\ inCall = {}
  /\ cmd = "none"

Goto(t, a, b) == pc[t] = a /\ pc' = [pc EXCEPT ![t] = b]

-----------------------------------------------------------------------------
(* Steps both threads take *)

\* server_send_msg: select, ten microseconds long, then send.  The message is
\* lost when there is no client or no room; sending to a client that closed
\* loses it too or, once the client has reset the connection, kills the
\* process with SIGPIPE.
ServerSend(m) ==
  /\ wire' = IF link = "up" /\ Len(wire) < MaxWire THEN Append(wire, m) ELSE wire
  /\ \/ up' = TRUE
     \/ link = "fin" /\ up' = FALSE
  /\ UNCHANGED <<server_fd, link, inbox>>

\* Bug: the key starts a call too.
BeforeDials(g) == IF g = "ACTIVATED" THEN "NORMAL" ELSE "ACTIVATED"

\* The state in which voice_call_answer and voice_call_handup act.
Before(g) == IF g = "ACTIVATED" THEN "WAIT" ELSE "ACTIVATED"

\* Where a thread goes when voice_call_answer or voice_call_handup returns:
\* the main thread then writes its goal once more.
Returns(t, a) ==
  /\ Goto(t, a, IF t = "main" THEN "lock" ELSE "idle")
  /\ inCall' = inCall \ {t}

\* if(phone_state == ...), outside the mutex.
Check(t) ==
  /\ \/ /\ phone_state = Before(goal[t])
        /\ Goto(t, "check", "lock") /\ UNCHANGED inCall
     \/ /\ phone_state # Before(goal[t])
        /\ Returns(t, "check")
  /\ UNCHANGED <<up, phone_state, mutex_phone_stat, net, goal, buf, cmd>>

Lock(t) ==
  /\ mutex_phone_stat = "none" /\ mutex_phone_stat' = t
  /\ Goto(t, "lock", "set")
  /\ UNCHANGED <<up, phone_state, net, goal, inCall, buf, cmd>>

Set(t) ==
  /\ Goto(t, "set", "unlock")
  /\ phone_state' = goal[t]
  /\ UNCHANGED <<up, mutex_phone_stat, net, goal, inCall, buf, cmd>>

\* The commands acknowledged are those but RMT_CALL_IN_REQ.
AfterUnlock(t) == IF t \in inCall THEN "get"
                  ELSE IF cmd = RMT_CALL_IN_REQ THEN "loop" ELSE "ack"

\* Bug: the mutex stays locked.
UnlockForgets(t) ==
  /\ Goto(t, "unlock", AfterUnlock(t))
  /\ UNCHANGED <<up, phone_state, mutex_phone_stat, net, goal, inCall, buf, cmd>>

Unlock(t) ==
  /\ Goto(t, "unlock", AfterUnlock(t))
  /\ mutex_phone_stat' = "none"
  /\ UNCHANGED <<up, phone_state, net, goal, inCall, buf, cmd>>

\* get_phone_state(), after the mutex was released.
Get(t) ==
  /\ Goto(t, "get", "send")
  /\ buf' = [buf EXCEPT ![t] = phone_state]
  /\ UNCHANGED <<up, phone_state, mutex_phone_stat, net, goal, inCall, cmd>>

Send(t) ==
  /\ Returns(t, "send")
  /\ ServerSend(buf[t])
  /\ UNCHANGED <<phone_state, mutex_phone_stat, goal, buf, cmd>>

-----------------------------------------------------------------------------
(* The main thread *)

\* main()'s loop: the handler as soon as there is a client; until then, the
\* remaining threads are created.
MainPoll ==
  /\ \/ link # "none" /\ Goto("main", "poll", "loop")
     \/ /\ link = "none" /\ pc["main"] = "poll" /\ pc["key"] = "off"
        /\ pc' = [pc EXCEPT !["key"] = "open"]
  /\ UNCHANGED <<up, phone_state, mutex_phone_stat, net, goal, inCall, buf, cmd>>

\* if(tcp_ctrl_events.server_fd > 0), then server_recv_msg waits.
MainLoop ==
  /\ server_fd = "open" /\ Goto("main", "loop", "recv")
  /\ UNCHANGED <<up, phone_state, mutex_phone_stat, net, goal, inCall, buf, cmd>>

\* atoi of what one recv returned: one command alone is read as itself; of
\* several that arrived together, the first if a NUL follows it, else their
\* digits run into an unknown number.
Decode(msgs) == IF Terminated \/ Len(msgs) = 1 THEN msgs[1] ELSE "none"

MainRecv ==
  /\ link # "none" /\ Goto("main", "recv", "dispatch")
  /\ \E k \in 1..Len(inbox) :
       /\ cmd' = Decode(SubSeq(inbox, 1, k))
       /\ inbox' = SubSeq(inbox, k + 1, Len(inbox))
  /\ UNCHANGED <<up, phone_state, mutex_phone_stat, server_fd, link, wire,
                 goal, inCall, buf>>

\* End of file: the descriptor is closed, the empty buffer no command.
MainEof ==
  /\ link = "fin" /\ inbox = <<>> /\ Goto("main", "recv", "dispatch")
  /\ link' = "none" /\ wire' = <<>> /\ cmd' = "none"
  /\ UNCHANGED <<up, phone_state, mutex_phone_stat, server_fd, inbox,
                 goal, inCall, buf>>

\* The branches of ctrl_events_handle; all test phone_state outside the mutex.
Begin(g, state, next) ==
  /\ phone_state = state /\ Goto("main", "dispatch", next)
  /\ goal' = [goal EXCEPT !["main"] = g]

Skip(state, next) ==
  /\ phone_state # state /\ Goto("main", "dispatch", next)
  /\ UNCHANGED goal

\* Bug: an incoming call rings whatever the phone is doing.
DispatchRings ==
  /\ \/ /\ cmd = RMT_CALL_IN_REQ
        /\ \E state \in States : Begin("WAIT", state, "lock")
     \/ /\ cmd = MSR_ANSWER_SYNC
        /\ Begin("ACTIVATED", "NORMAL", "lock") \/ Skip("NORMAL", "ack")
     \/ /\ cmd \in HandupCmds
        /\ Begin("NORMAL", "ACTIVATED", "check") \/ Skip("ACTIVATED", "ack")
     \/ /\ cmd = "none"
        /\ Goto("main", "dispatch", "loop") /\ UNCHANGED goal
  /\ inCall' = IF pc'["main"] = "check" THEN inCall \cup {"main"} ELSE inCall
  /\ UNCHANGED <<up, phone_state, mutex_phone_stat, net, buf, cmd>>

Dispatch ==
  /\ \/ /\ cmd = RMT_CALL_IN_REQ
        /\ Begin("WAIT", "NORMAL", "lock") \/ Skip("NORMAL", "loop")
     \/ /\ cmd = MSR_ANSWER_SYNC
        /\ Begin("ACTIVATED", "NORMAL", "lock") \/ Skip("NORMAL", "ack")
     \/ /\ cmd \in HandupCmds
        /\ Begin("NORMAL", "ACTIVATED", "check") \/ Skip("ACTIVATED", "ack")
     \/ /\ cmd = "none"
        /\ Goto("main", "dispatch", "loop") /\ UNCHANGED goal
  /\ inCall' = IF pc'["main"] = "check" THEN inCall \cup {"main"} ELSE inCall
  /\ UNCHANGED <<up, phone_state, mutex_phone_stat, net, buf, cmd>>

MainAck ==
  /\ Goto("main", "ack", "loop")
  /\ ServerSend(cmd)
  /\ UNCHANGED <<phone_state, mutex_phone_stat, goal, inCall, buf, cmd>>

-----------------------------------------------------------------------------
(* The key thread *)

\* The input device is opened, or the process exits.
KeyOpen ==
  /\ Goto("key", "open", "idle") /\ up' \in BOOLEAN
  /\ UNCHANGED <<phone_state, mutex_phone_stat, net, goal, inCall, buf, cmd>>

\* Bug (a plausible repair of the key): answer when the phone rings, else
\* hang up, with the same unlocked test.
KeyPressToggles ==
  /\ Steady => server_fd = "open"
  /\ Goto("key", "idle", "check")
  /\ goal' = [goal EXCEPT !["key"] = IF phone_state = "WAIT" THEN "ACTIVATED" ELSE "NORMAL"]
  /\ inCall' = inCall \cup {"key"}
  /\ UNCHANGED <<up, phone_state, mutex_phone_stat, net, buf, cmd>>

\* KEY_PHONE: answer while the server socket is open, else hang up.
KeyPress ==
  /\ Steady => server_fd = "open"
  /\ Goto("key", "idle", "check")
  /\ goal' = [goal EXCEPT !["key"] = IF server_fd = "open" THEN "ACTIVATED" ELSE "NORMAL"]
  /\ inCall' = inCall \cup {"key"}
  /\ UNCHANGED <<up, phone_state, mutex_phone_stat, net, buf, cmd>>

-----------------------------------------------------------------------------
(* The server thread and the client, as CtrlServer has them in detail *)

SrvOpen == /\ server_fd = "unset" /\ server_fd' = "open"
           /\ UNCHANGED <<up, phone_state, mutex_phone_stat, link, inbox, wire, thread>>

\* listen or accept fails: server_fd = -1, then exit(0).
SrvFail == /\ server_fd = "open" /\ server_fd' = "closed"
           /\ UNCHANGED <<up, phone_state, mutex_phone_stat, link, inbox, wire, thread>>

SrvExit == /\ server_fd = "closed" /\ up' = FALSE
           /\ UNCHANGED <<phone_state, mutex_phone_stat, net, thread>>

\* A client connects; what an earlier one left unread is gone.
ClientConnect ==
  /\ server_fd = "open" /\ link' = "up" /\ inbox' = <<>> /\ wire' = <<>>
  /\ UNCHANGED <<up, phone_state, mutex_phone_stat, server_fd, thread>>

ClientSend ==
  /\ link = "up" /\ Len(inbox) < MaxInbox
  /\ \E c \in Commands : inbox' = Append(inbox, c)
  /\ UNCHANGED <<up, phone_state, mutex_phone_stat, server_fd, link, wire, thread>>

ClientRead ==
  /\ wire # <<>> /\ wire' = Tail(wire)
  /\ UNCHANGED <<up, phone_state, mutex_phone_stat, server_fd, link, inbox, thread>>

ClientClose ==
  /\ link = "up" /\ link' = "fin" /\ wire' = <<>>
  /\ UNCHANGED <<up, phone_state, mutex_phone_stat, server_fd, inbox, thread>>

-----------------------------------------------------------------------------
Shared(t) == Check(t) \/ Lock(t) \/ Set(t) \/ Unlock(t) \/ Get(t) \/ Send(t)

Main == \/ MainPoll \/ MainLoop \/ MainRecv \/ MainEof \/ Dispatch \/ MainAck
        \/ Shared("main")

Key == KeyOpen \/ Shared("key")

Server == SrvOpen \/ SrvExit

Client == ClientConnect \/ ClientSend \/ ClientRead \/ ClientClose

\* After exit nothing happens, which is not a deadlock.
Exited == ~up /\ UNCHANGED vars

Next == \/ up /\ (Main \/ Key \/ KeyPress \/ Server \/ SrvFail \/ Client)
        \/ Exited

Spec == Init /\ [][Next]_vars

\* The scheduler runs the three threads.  Nothing is assumed of the client or
\* of the person at the key, and the server socket need not fail.
FairSpec == Spec /\ WF_vars(up /\ Main) /\ WF_vars(up /\ Key) /\ WF_vars(up /\ Server)

-----------------------------------------------------------------------------
(* Properties *)

\* The request a thread has in hand: from its arrival to the write of
\* phone_state, or to the test that finds nothing to do.
ReqOf(c) == CASE c = RMT_CALL_IN_REQ -> "ring"
              [] c = MSR_ANSWER_SYNC -> "answer"
              [] c \in HandupCmds -> "hangup"
              [] OTHER -> "none"

Writing(t) == pc[t] \in {"lock", "set"}

\* The main thread repeats the write of voice_call_handup after its return.
Repeats == Writing("main") /\ cmd \in HandupCmds /\ "main" \notin inCall

MainReq == IF pc["main"] \in {"dispatch", "check"} \/ (Writing("main") /\ ~Repeats)
           THEN ReqOf(cmd) ELSE "none"

KeyReq == IF pc["key"] = "check" \/ Writing("key")
          THEN IF goal["key"] = "ACTIVATED" THEN "pickup" ELSE "hangup"
          ELSE "none"

Atomic == INSTANCE Call WITH state <- phone_state,
  req <- [t \in Threads |-> IF t = "main" THEN MainReq ELSE KeyReq]

\* Every request acts as one step, although its handler tests phone_state
\* outside the mutex and writes it later (events.c:43-47, 51-56, 61-65, 91-94).
ImplementsCall == Atomic!Spec

\* The main thread reports the hang-up it made as "NORMAL" (events.c:110-111),
\* although it reads the state again after releasing the mutex.
HangupReported == pc["main"] = "send" => buf["main"] = "NORMAL"

\* Control points, the command in hand and the routine agree.
Control ==
  /\ pc["main"] \in {"check", "get", "send"} => "main" \in inCall
  /\ Writing("main") \/ pc["main"] \in {"check", "unlock", "get", "send"} =>
       /\ cmd # "none"
       /\ "main" \in inCall => cmd \in HandupCmds
       /\ goal["main"] = CASE cmd = RMT_CALL_IN_REQ -> "WAIT"
                           [] cmd = MSR_ANSWER_SYNC -> "ACTIVATED"
                           [] OTHER -> "NORMAL"
  /\ pc["main"] = "ack" => cmd # "none"
  /\ pc["main"] \in {"poll", "loop", "recv", "dispatch", "ack"} => "main" \notin inCall
  /\ pc["key"] \notin {"off", "open", "idle"} =>
       "key" \in inCall /\ goal["key"] \in {"ACTIVATED", "NORMAL"}

\* What each thread's test, made outside the mutex, still guarantees later:
\* only the main thread moves the phone out of NORMAL, and it leaves WAIT
\* to the key.
Guards ==
  /\ Writing("main") /\ cmd \notin HandupCmds => phone_state = "NORMAL"
  /\ Repeats => phone_state = "NORMAL"
  /\ pc["main"] = "check" \/ (Writing("main") /\ "main" \in inCall)
       => phone_state # "WAIT"
  /\ pc["main"] \in {"unlock", "get", "send"} /\ "main" \in inCall
       => phone_state = "NORMAL"
  /\ Writing("key") /\ goal["key"] = "ACTIVATED" => phone_state = "WAIT"

\* Holds whenever the key is pressed (events.c:43-77, 88-114).
Inv == TypeOK /\ Control /\ Guards /\ HangupReported

\* The state a thread tested is still there when it writes, and the repeated
\* write of a hang-up finds the call already ended (events.c:52-55, 71-74).
GuardsStable ==
  /\ \A t \in Threads : Writing(t) /\ t \in inCall => phone_state = Before(goal[t])
  /\ Writing("main") /\ cmd \in {RMT_CALL_IN_REQ, MSR_ANSWER_SYNC}
       => phone_state = "NORMAL"
  /\ Repeats => phone_state = "NORMAL"

\* With a steady server the key only answers.
KeyAnswers == pc["key"] = "check" \/ Writing("key") => goal["key"] = "ACTIVATED"

SteadyInv == /\ Inv /\ GuardsStable /\ KeyAnswers
             /\ pc["main"] = "check" => phone_state = "ACTIVATED"

Legal == {<<"NORMAL", "WAIT">>, <<"WAIT", "ACTIVATED">>,
          <<"NORMAL", "ACTIVATED">>, <<"ACTIVATED", "NORMAL">>}

\* A call goes through its states in order; the one exception is a key press
\* made while server_fd was not open (key.c:125): it can hang up a later call,
\* which rings, long after it tested phone_state.
LegalMoves ==
  [][\/ phone_state' = phone_state
     \/ <<phone_state, phone_state'>> \in Legal
     \/ Set("key") /\ goal["key"] = "NORMAL" /\ phone_state = "WAIT"]_vars

\* Pressing the key while the phone rings answers the call.
Answered ==
  pc["key"] = "check" /\ goal["key"] = "ACTIVATED" /\ phone_state = "WAIT"
    ~> phone_state = "ACTIVATED" \/ ~up

\* A hang-up command received during the call ends it.
HungUp == pc["main"] = "dispatch" /\ cmd \in HandupCmds /\ phone_state = "ACTIVATED"
            ~> phone_state = "NORMAL" \/ ~up

\* Commands do not stay unread (unless their connection is lost).
Read == inbox # <<>> ~> pc["main"] = "dispatch" \/ inbox = <<>> \/ ~up

\* main() creates the key thread (phone.c:3-5 "creates the key thread, the
\* control thread ...", phone.c:114-119).
KeyThreadCreated == <>(pc["key"] # "off" \/ ~up)
=============================================================================
