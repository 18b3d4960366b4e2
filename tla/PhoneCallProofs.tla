--------------------------- MODULE PhoneCallProofs ---------------------------
(***************************************************************************)
(* Proofs about PhoneCall, for any bounds and any way the client ends its  *)
(* commands: the invariant of the unlocked tests whenever the key is       *)
(* pressed, and, when it is pressed only while the server socket is open,  *)
(* that every request acts as one step.                                    *)
(***************************************************************************)
EXTENDS PhoneCall, SequenceTheorems, TLAPS

LEMMA EmptyTypes ==
  /\ <<>> \in Seq(Commands) /\ <<>> \in Seq(Commands \cup States)
  /\ Len(<<>>) <= MaxInbox /\ Len(<<>>) <= MaxWire
  BY EmptySeq, ParamAssumption

LEMMA TypeInit == Init => TypeOK /\ Control
  BY EmptyTypes DEF Init, TypeOK, Control, Threads, MainPc, KeyPc, States, Writing

\* What a recv leaves and yields: commands, and one of them or none.
LEMMA RecvTypes ==
  ASSUME inbox \in Seq(Commands), NEW k \in 1..Len(inbox)
  PROVE  /\ SubSeq(inbox, k + 1, Len(inbox)) \in Seq(Commands)
         /\ Len(SubSeq(inbox, k + 1, Len(inbox))) <= Len(inbox)
         /\ Decode(SubSeq(inbox, 1, k)) \in Commands \cup {"none"}
  <1>1. /\ SubSeq(inbox, k + 1, Len(inbox)) \in Seq(Commands)
        /\ Len(SubSeq(inbox, k + 1, Len(inbox))) <= Len(inbox)
    BY SubSeqProperties
  <1>2. SubSeq(inbox, 1, k)[1] = inbox[1]
    BY SubSeqProperties
  <1>3. inbox[1] \in Commands
    BY ElementOfSeq
  <1>4. QED
    BY <1>1, <1>2, <1>3 DEF Decode

LEMMA SendTypes ==
  ASSUME TypeOK, NEW m \in Commands \cup States, ServerSend(m)
  PROVE  wire' \in Seq(Commands \cup States) /\ Len(wire') <= MaxWire /\ up' \in BOOLEAN
  <1>1. wire \in Seq(Commands \cup States) /\ Len(wire) \in Nat /\ Len(wire) <= MaxWire
    BY DEF TypeOK
  <1>2. Append(wire, m) \in Seq(Commands \cup States) /\ Len(Append(wire, m)) = Len(wire) + 1
    BY <1>1, AppendProperties
  <1>3. up' \in BOOLEAN
    BY DEF ServerSend, TypeOK
  <1>4. QED
    BY <1>1, <1>2, <1>3, ParamAssumption DEF ServerSend

-----------------------------------------------------------------------------
(* Types and control *)

LEMMA TypeShared ==
  ASSUME TypeOK, Control, NEW t \in Threads, Shared(t)
  PROVE  TypeOK' /\ Control'
  <1> USE DEF TypeOK, Control, Threads, Goto, MainPc, KeyPc, Writing, net
  <1>1. CASE Check(t)
    BY <1>1 DEF Check, Returns
  <1>2. CASE Lock(t)
    BY <1>2 DEF Lock
  <1>3. CASE Set(t)
    BY <1>3 DEF Set
  <1>4. CASE Unlock(t)
    BY <1>4 DEF Unlock, AfterUnlock
  <1>5. CASE Get(t)
    BY <1>5 DEF Get
  <1>6. CASE Send(t)
    <2>1. wire' \in Seq(Commands \cup States) /\ Len(wire') <= MaxWire /\ up' \in BOOLEAN
      BY <1>6, SendTypes DEF Send
    <2>2. QED
      BY <1>6, <2>1 DEF Send, Returns, ServerSend
  <1>7. QED
    BY <1>1, <1>2, <1>3, <1>4, <1>5, <1>6 DEF Shared

LEMMA TypeMain ==
  ASSUME TypeOK, Control, Main
  PROVE  TypeOK' /\ Control'
  <1> USE DEF TypeOK, Control, Threads, Goto, MainPc, KeyPc, Writing, net
  <1>1. CASE MainPoll \/ MainLoop
    BY <1>1 DEF MainPoll, MainLoop
  <1>2. CASE MainRecv
    <2>1. PICK k \in 1..Len(inbox) :
            cmd' = Decode(SubSeq(inbox, 1, k)) /\ inbox' = SubSeq(inbox, k + 1, Len(inbox))
      BY <1>2 DEF MainRecv
    <2>2. inbox' \in Seq(Commands) /\ Len(inbox') <= Len(inbox) /\ cmd' \in Commands \cup {"none"}
      BY <2>1, RecvTypes
    <2>3. Len(inbox') <= MaxInbox
      BY <2>2, ParamAssumption
    <2>4. QED
      BY <1>2, <2>2, <2>3 DEF MainRecv
  <1>3. CASE MainEof
    BY <1>3, EmptyTypes DEF MainEof
  <1>4. CASE Dispatch
    BY <1>4 DEF Dispatch, Begin, Skip, Commands, HandupCmds, States,
                RMT_CALL_IN_REQ, RMT_HANDUP_SYNC, MSR_ANSWER_SYNC, MSR_HANDUP_SYNC
  <1>5. CASE MainAck
    <2>1. wire' \in Seq(Commands \cup States) /\ Len(wire') <= MaxWire /\ up' \in BOOLEAN
      BY <1>5, SendTypes DEF MainAck
    <2>2. QED
      BY <1>5, <2>1 DEF MainAck, ServerSend
  <1>6. QED
    BY <1>1, <1>2, <1>3, <1>4, <1>5, TypeShared DEF Main

LEMMA TypeKey ==
  ASSUME TypeOK, Control, Key \/ KeyPress
  PROVE  TypeOK' /\ Control'
  <1> USE DEF TypeOK, Control, Threads, Goto, MainPc, KeyPc, Writing, net
  <1>1. CASE KeyOpen
    BY <1>1 DEF KeyOpen
  <1>2. CASE KeyPress
    BY <1>2 DEF KeyPress, States
  <1>3. QED
    BY <1>1, <1>2, TypeShared DEF Key

LEMMA TypeWorld ==
  ASSUME TypeOK, Control, Server \/ SrvFail \/ Client
  PROVE  TypeOK' /\ Control'
  <1> USE DEF thread, Writing, Control, net
  <1>1. CASE Server \/ SrvFail
    BY <1>1 DEF Server, SrvOpen, SrvExit, SrvFail, TypeOK
  <1>2. CASE ClientConnect \/ ClientClose
    BY <1>2, EmptyTypes DEF ClientConnect, ClientClose, TypeOK
  <1>3. CASE ClientSend
    <2>1. PICK c \in Commands : inbox' = Append(inbox, c)
      BY <1>3 DEF ClientSend
    <2>2. inbox' \in Seq(Commands) /\ Len(inbox') = Len(inbox) + 1
      BY <2>1, AppendProperties DEF TypeOK
    <2>3. Len(inbox') <= MaxInbox
      BY <1>3, <2>2, ParamAssumption DEF ClientSend, TypeOK
    <2>4. QED
      BY <1>3, <2>2, <2>3 DEF ClientSend, TypeOK
  <1>4. CASE ClientRead
    <2>1. wire' \in Seq(Commands \cup States) /\ Len(wire') = Len(wire) - 1 /\ Len(wire) \in Nat
      BY <1>4, HeadTailProperties DEF ClientRead, TypeOK
    <2>2. Len(wire') <= MaxWire
      BY <2>1, ParamAssumption DEF TypeOK
    <2>3. QED
      BY <1>4, <2>1, <2>2 DEF ClientRead, TypeOK
  <1>5. QED
    BY <1>1, <1>2, <1>3, <1>4 DEF Client

LEMMA TypeNext == ASSUME TypeOK, Control, [Next]_vars PROVE TypeOK' /\ Control'
  <1>1. CASE UNCHANGED vars
    BY <1>1 DEF vars, net, thread, TypeOK, Control, Writing
  <1>2. QED
    BY <1>1, TypeMain, TypeKey, TypeWorld DEF Next, Exited

-----------------------------------------------------------------------------
(* The guards, whenever the key is pressed *)

\* The steps of the threads that leave phone_state alone.
LEMMA GuardsShared ==
  ASSUME Inv, TypeOK', Control', NEW t \in Threads, Shared(t)
  PROVE  Guards' /\ HangupReported'
  <1> USE DEF Inv, TypeOK, Control, Guards, HangupReported, Threads, Goto, Writing,
              Repeats, MainPc, KeyPc
  <1>1. CASE Check(t)
    <2>1. UNCHANGED <<phone_state, buf, goal, cmd>>
      BY <1>1 DEF Check
    <2>2. CASE t = "main"
      BY <1>1, <2>1, <2>2 DEF Check, Returns, Before, HandupCmds, States,
         RMT_CALL_IN_REQ, RMT_HANDUP_SYNC, MSR_ANSWER_SYNC, MSR_HANDUP_SYNC
    <2>3. CASE t = "key"
      BY <1>1, <2>1, <2>3 DEF Check, Returns, Before
    <2>4. QED
      BY <2>2, <2>3
  <1>2. CASE Lock(t)
    BY <1>2 DEF Lock
  <1>3. CASE Set(t)
    <2>1. CASE t = "main"
      BY <1>3, <2>1 DEF Set, HandupCmds, Commands,
         RMT_CALL_IN_REQ, RMT_HANDUP_SYNC, MSR_ANSWER_SYNC, MSR_HANDUP_SYNC
    <2>2. CASE t = "key"
      BY <1>3, <2>2 DEF Set
    <2>3. QED
      BY <2>1, <2>2
  <1>4. CASE Unlock(t)
    BY <1>4 DEF Unlock, AfterUnlock
  <1>5. CASE Get(t)
    BY <1>5 DEF Get
  <1>6. CASE Send(t)
    BY <1>6 DEF Send, Returns
  <1>7. QED
    BY <1>1, <1>2, <1>3, <1>4, <1>5, <1>6 DEF Shared

LEMMA InvNext == ASSUME Inv, [Next]_vars PROVE Inv'
  <1>1. TypeOK' /\ Control'
    BY TypeNext DEF Inv
  <1>2. CASE \E t \in Threads : Shared(t)
    BY <1>1, <1>2, GuardsShared DEF Inv
  <1> USE DEF Inv, TypeOK, Guards, HangupReported, Goto, Writing, Repeats, Threads, MainPc
  <1>3. CASE MainPoll \/ MainLoop \/ MainRecv \/ MainEof \/ MainAck
    BY <1>1, <1>3 DEF MainPoll, MainLoop, MainRecv, MainEof, MainAck
  <1>4. CASE Dispatch
    BY <1>1, <1>4 DEF Dispatch, Begin, Skip, HandupCmds, Control,
       RMT_CALL_IN_REQ, RMT_HANDUP_SYNC, MSR_ANSWER_SYNC, MSR_HANDUP_SYNC
  <1>5. CASE KeyOpen \/ KeyPress
    BY <1>1, <1>5 DEF KeyOpen, KeyPress
  <1>6. CASE Server \/ SrvFail \/ Client \/ UNCHANGED vars
    BY <1>1, <1>6 DEF Server, SrvOpen, SrvExit, SrvFail, Client, ClientConnect,
       ClientSend, ClientRead, ClientClose, thread, vars
  <1>7. QED
    BY <1>2, <1>3, <1>4, <1>5, <1>6 DEF Next, Main, Key, Exited

\* Whenever the key is pressed: the phone leaves NORMAL and is written in WAIT
\* only as the tests made outside the mutex allow, and the main thread reports
\* a hang-up as "NORMAL" (events.c:43-77, 88-114).
THEOREM AnyTimeInv == Spec => []Inv
  <1>1. Init => Inv
    BY TypeInit DEF Init, Inv, Guards, HangupReported, Writing, Repeats, Threads
  <1>2. Inv /\ [Next]_vars => Inv'
    BY InvNext
  <1>3. QED
    BY <1>1, <1>2, PTL DEF Spec

\* The phone moves through its states in order, but for the stale hang-up of a
\* key pressed while the server socket was not open (key.c:121-126).
THEOREM MovesLegal == Spec => LegalMoves
  <1> DEFINE Move == \/ phone_state' = phone_state
                     \/ <<phone_state, phone_state'>> \in Legal
                     \/ Set("key") /\ goal["key"] = "NORMAL" /\ phone_state = "WAIT"
  <1>1. ASSUME Inv, Next PROVE Move
    <2>1. CASE \E t \in Threads : Set(t)
      <3>1. CASE Set("main")
        BY <1>1, <3>1 DEF Set, Inv, TypeOK, Guards, Control, Writing, Repeats, Goto,
           Legal, States, Threads, HandupCmds, Commands,
           RMT_CALL_IN_REQ, RMT_HANDUP_SYNC, MSR_ANSWER_SYNC, MSR_HANDUP_SYNC
      <3>2. CASE Set("key")
        BY <1>1, <3>2 DEF Set, Inv, TypeOK, Guards, Control, Writing, Goto, Legal, States
      <3>3. QED
        BY <2>1, <3>1, <3>2 DEF Threads
    <2>2. CASE ~ \E t \in Threads : Set(t)
      <3>1. phone_state' = phone_state
        BY <1>1, <2>2 DEF Next, Main, Key, KeyPress, Server, SrvFail, Client, Exited,
           Shared, Threads, Check, Lock, Unlock, Get, Send, MainPoll, MainLoop,
           MainRecv, MainEof, Dispatch, MainAck, KeyOpen, SrvOpen, SrvExit,
           ClientConnect, ClientSend, ClientRead, ClientClose, vars
      <3>2. QED
        BY <3>1
    <2>3. QED
      BY <2>1, <2>2
  <1>2. ASSUME Inv, [Next]_vars PROVE [Move]_vars
    BY <1>1, <1>2
  <1>3. QED
    BY <1>2, AnyTimeInv, PTL DEF Spec, LegalMoves

-----------------------------------------------------------------------------
(* The key pressed only while the server socket is open *)

\* The names of the commands, told apart.
LEMMA Names ==
  /\ HandupCmds \subseteq Commands
  /\ RMT_CALL_IN_REQ \notin HandupCmds /\ MSR_ANSWER_SYNC \notin HandupCmds
  /\ RMT_CALL_IN_REQ # MSR_ANSWER_SYNC
  /\ "none" \notin Commands
  /\ Commands = {RMT_CALL_IN_REQ, MSR_ANSWER_SYNC} \cup HandupCmds
  BY DEF Commands, HandupCmds, RMT_CALL_IN_REQ, RMT_HANDUP_SYNC, MSR_ANSWER_SYNC,
         MSR_HANDUP_SYNC

\* What SteadyInv adds to Inv.
Extra == /\ GuardsStable /\ KeyAnswers
         /\ pc["main"] = "check" => phone_state = "ACTIVATED"

LEMMA SteadyShared ==
  ASSUME SteadyInv, Inv', NEW t \in Threads, Shared(t)
  PROVE  Extra'
  <1> USE DEF SteadyInv, Inv, TypeOK, Control, Guards, GuardsStable, KeyAnswers, Extra,
              Threads, Goto, Writing, Repeats, MainPc, KeyPc, Before
  <1>1. CASE Check(t)
    BY <1>1, Names DEF Check, Returns
  <1>2. CASE Lock(t)
    BY <1>2 DEF Lock
  <1>3. CASE Set(t)
    BY <1>3, Names DEF Set
  <1>4. CASE Unlock(t)
    BY <1>4 DEF Unlock, AfterUnlock
  <1>5. CASE Get(t)
    BY <1>5 DEF Get
  <1>6. CASE Send(t)
    BY <1>6, Names DEF Send, Returns
  <1>7. QED
    BY <1>1, <1>2, <1>3, <1>4, <1>5, <1>6 DEF Shared

LEMMA SteadyNext == ASSUME Steady, SteadyInv, [Next]_vars PROVE SteadyInv'
  <1>1. Inv'
    BY InvNext DEF SteadyInv
  <1>2. SteadyInv' <=> Inv' /\ Extra'
    BY DEF SteadyInv, Extra
  <1>3. CASE \E t \in Threads : Shared(t)
    BY <1>1, <1>2, <1>3, SteadyShared
  <1> USE DEF SteadyInv, Inv, TypeOK, GuardsStable, KeyAnswers, Extra, Goto, Writing,
              Repeats, Threads, MainPc, KeyPc, Before
  <1>4. CASE MainPoll \/ MainLoop \/ MainRecv \/ MainEof \/ MainAck
    BY <1>1, <1>2, <1>4 DEF MainPoll, MainLoop, MainRecv, MainEof, MainAck
  <1>5. CASE Dispatch
    BY <1>1, <1>2, <1>5, Names DEF Dispatch, Begin, Skip, Control
  <1>6. CASE KeyOpen \/ KeyPress
    BY <1>1, <1>2, <1>6 DEF KeyOpen, KeyPress
  <1>7. CASE Server \/ SrvFail \/ Client \/ UNCHANGED vars
    BY <1>1, <1>2, <1>7 DEF Server, SrvOpen, SrvExit, SrvFail, Client, ClientConnect,
       ClientSend, ClientRead, ClientClose, thread, vars
  <1>8. QED
    BY <1>3, <1>4, <1>5, <1>6, <1>7 DEF Next, Main, Key, Exited

\* While the server socket stays open, the invariant that makes a state tested
\* outside the mutex still hold at the write.
THEOREM SteadyInvHolds == ASSUME Steady PROVE Spec => []SteadyInv
  <1>1. Init => SteadyInv
    BY TypeInit DEF Init, SteadyInv, Inv, Guards, HangupReported, GuardsStable,
       KeyAnswers, Writing, Repeats, Threads
  <1>2. SteadyInv /\ [Next]_vars => SteadyInv'
    BY SteadyNext
  <1>3. QED
    BY <1>1, <1>2, PTL DEF Spec

\* While the server socket stays open, the state a thread tested outside the
\* mutex is still the state of the phone when it writes (events.c:43-114).
THEOREM SteadyGuardsStable == ASSUME Steady PROVE Spec => []GuardsStable
  <1>1. SteadyInv => GuardsStable
    BY DEF SteadyInv
  <1>2. QED
    BY <1>1, SteadyInvHolds, PTL

-----------------------------------------------------------------------------
(* PhoneCall implements Call *)

LEMMA CallStutter ==
  ASSUME MainReq' = MainReq, KeyReq' = KeyReq, phone_state' = phone_state
  PROVE  UNCHANGED Atomic!vars
  BY DEF Atomic!vars

LEMMA CallRequests ==
  ASSUME phone_state' = phone_state,
         \/ MainReq = "none" /\ MainReq' \in Atomic!Requests /\ KeyReq' = KeyReq
         \/ KeyReq = "none" /\ KeyReq' \in Atomic!Requests /\ MainReq' = MainReq
  PROVE  Atomic!Next
  <1> DEFINE R == [t \in Threads |-> IF t = "main" THEN MainReq ELSE KeyReq]
  <1>1. CASE MainReq = "none" /\ MainReq' \in Atomic!Requests /\ KeyReq' = KeyReq
    <2>1. R["main"] = "none" /\ R' = [R EXCEPT !["main"] = MainReq']
      BY <1>1 DEF Threads
    <2>2. PICK r \in Atomic!Requests : r = MainReq'
      BY <1>1
    <2>3. Atomic!Request("main", r)
      BY <2>1, <2>2 DEF Atomic!Request
    <2>4. QED
      BY <2>3 DEF Atomic!Next, Threads
  <1>2. CASE KeyReq = "none" /\ KeyReq' \in Atomic!Requests /\ MainReq' = MainReq
    <2>1. R["key"] = "none" /\ R' = [R EXCEPT !["key"] = KeyReq']
      BY <1>2 DEF Threads
    <2>2. PICK r \in Atomic!Requests : r = KeyReq'
      BY <1>2
    <2>3. Atomic!Request("key", r)
      BY <2>1, <2>2 DEF Atomic!Request
    <2>4. QED
      BY <2>3 DEF Atomic!Next, Threads
  <1>3. QED
    BY <1>1, <1>2

\* The effect of a request.
Done(r) == phone_state' = IF phone_state = Atomic!From(r) THEN Atomic!To(r) ELSE phone_state

LEMMA CallMainPerforms ==
  ASSUME MainReq # "none", MainReq' = "none", KeyReq' = KeyReq, Done(MainReq)
  PROVE  Atomic!Next
  <1> DEFINE R == [t \in Threads |-> IF t = "main" THEN MainReq ELSE KeyReq]
  <1>1. R["main"] = MainReq /\ R' = [R EXCEPT !["main"] = "none"]
    BY DEF Threads
  <1>2. Atomic!Perform("main")
    BY <1>1 DEF Atomic!Perform, Done
  <1>3. QED
    BY <1>2 DEF Atomic!Next, Threads

LEMMA CallKeyPerforms ==
  ASSUME KeyReq # "none", KeyReq' = "none", MainReq' = MainReq, Done(KeyReq)
  PROVE  Atomic!Next
  <1> DEFINE R == [t \in Threads |-> IF t = "main" THEN MainReq ELSE KeyReq]
  <1>1. R["key"] = KeyReq /\ R' = [R EXCEPT !["key"] = "none"]
    BY DEF Threads
  <1>2. Atomic!Perform("key")
    BY <1>1 DEF Atomic!Perform, Done
  <1>3. QED
    BY <1>2 DEF Atomic!Next, Threads

\* The requests the commands make, and their transitions.
LEMMA Transitions ==
  /\ ReqOf(RMT_CALL_IN_REQ) = "ring" /\ ReqOf(MSR_ANSWER_SYNC) = "answer"
  /\ \A c \in HandupCmds : ReqOf(c) = "hangup"
  /\ ReqOf("none") = "none"
  /\ \A c \in Commands : ReqOf(c) \in Atomic!Requests
  /\ Atomic!From("ring") = "NORMAL" /\ Atomic!To("ring") = "WAIT"
  /\ Atomic!From("answer") = "NORMAL" /\ Atomic!To("answer") = "ACTIVATED"
  /\ Atomic!From("pickup") = "WAIT" /\ Atomic!To("pickup") = "ACTIVATED"
  /\ Atomic!From("hangup") = "ACTIVATED" /\ Atomic!To("hangup") = "NORMAL"
  BY DEF ReqOf, Atomic!From, Atomic!To, Atomic!Requests, Commands, HandupCmds,
         RMT_CALL_IN_REQ, RMT_HANDUP_SYNC, MSR_ANSWER_SYNC, MSR_HANDUP_SYNC

LEMMA CallInit == Init => Atomic!Init
  BY DEF Init, Atomic!Init, MainReq, KeyReq, Writing, Threads

LEMMA CallMainAlone ==
  ASSUME SteadyInv, MainPoll \/ MainLoop \/ MainRecv \/ MainEof \/ MainAck \/ Dispatch
  PROVE  Atomic!Next \/ UNCHANGED Atomic!vars
  <1> USE DEF SteadyInv, Inv, TypeOK, Threads, Goto, Writing, Repeats, KeyPc
  <1>1. KeyReq' = KeyReq
    BY DEF MainPoll, MainLoop, MainRecv, MainEof, MainAck, Dispatch, Begin, Skip, KeyReq
  <1>2. CASE MainPoll \/ MainLoop \/ MainEof \/ MainAck
    <2>1. MainReq' = MainReq /\ phone_state' = phone_state
      BY <1>2, Transitions DEF MainPoll, MainLoop, MainEof, MainAck, MainReq
    <2>2. QED
      BY <1>1, <2>1, CallStutter
  <1>3. CASE MainRecv
    <2>1. MainReq = "none" /\ phone_state' = phone_state
      BY <1>3 DEF MainRecv, MainReq
    <2>2. PICK k \in 1..Len(inbox) : cmd' = Decode(SubSeq(inbox, 1, k))
      BY <1>3 DEF MainRecv
    <2>3. cmd' \in Commands \cup {"none"}
      BY <2>2, RecvTypes
    <2>4. MainReq' \in Atomic!Requests \cup {"none"}
      BY <1>3, <2>3, Transitions DEF MainRecv, MainReq
    <2>5. QED
      BY <1>1, <2>1, <2>4, CallStutter, CallRequests
  <1>4. CASE Dispatch
    <2>1. MainReq = ReqOf(cmd) /\ phone_state' = phone_state /\ cmd' = cmd
      BY <1>4 DEF Dispatch, Begin, Skip, MainReq
    <2>2. CASE cmd = "none"
      BY <1>1, <1>4, <2>1, <2>2, Names, Transitions, CallStutter
         DEF Dispatch, MainReq
    <2>3. CASE cmd # "none" /\ phone_state = Atomic!From(ReqOf(cmd))
      <3>1. MainReq' = ReqOf(cmd)
        BY <1>4, <2>1, <2>3, Names, Transitions DEF Dispatch, Begin, Skip, MainReq, Control
      <3>2. QED
        BY <1>1, <2>1, <3>1, CallStutter
    <2>4. CASE cmd # "none" /\ phone_state # Atomic!From(ReqOf(cmd))
      <3>1. MainReq # "none" /\ MainReq' = "none"
        BY <1>4, <2>1, <2>4, Names, Transitions DEF Dispatch, Begin, Skip, MainReq
      <3>2. QED
        BY <1>1, <2>1, <2>4, <3>1, CallMainPerforms DEF Done
    <2>5. QED
      BY <2>2, <2>3, <2>4
  <1>5. QED
    BY <1>2, <1>3, <1>4

LEMMA CallShared ==
  ASSUME SteadyInv, NEW t \in Threads, Shared(t)
  PROVE  Atomic!Next \/ UNCHANGED Atomic!vars
  <1> USE DEF SteadyInv, Inv, TypeOK, Threads, Goto, Writing, Repeats, KeyPc, MainPc
  <1>1. CASE t = "main"
    <2>1. KeyReq' = KeyReq
      BY <1>1 DEF Shared, Check, Returns, Lock, Set, Unlock, Get, Send, KeyReq
    <2>2. CASE Check(t) \/ Lock(t) \/ Unlock(t) \/ Get(t) \/ Send(t)
      <3>1. MainReq' = MainReq /\ phone_state' = phone_state
        BY <1>1, <2>2, Names DEF Check, Returns, Lock, Unlock, AfterUnlock, Get, Send,
           MainReq, Control, Before
      <3>2. QED
        BY <2>1, <3>1, CallStutter
    <2>3. CASE Set(t)
      <3>1. MainReq' = "none"
        BY <1>1, <2>3 DEF Set, MainReq
      <3>2. CASE Repeats
        BY <1>1, <2>1, <2>3, <3>1, <3>2, Names, CallStutter
           DEF Set, MainReq, Control, GuardsStable
      <3>3. CASE ~Repeats
        <4>1. MainReq = ReqOf(cmd) /\ cmd \in Commands
          BY <1>1, <2>3, <3>3 DEF Set, MainReq, Control
        <4>2. MainReq # "none" /\ Done(MainReq)
          BY <1>1, <2>3, <3>3, <4>1, Names, Transitions
             DEF Set, Control, GuardsStable, Before, Done
        <4>3. QED
          BY <2>1, <3>1, <4>2, CallMainPerforms
      <3>4. QED
        BY <3>2, <3>3
    <2>4. QED
      BY <2>2, <2>3 DEF Shared
  <1>2. CASE t = "key"
    <2>1. MainReq' = MainReq
      BY <1>2 DEF Shared, Check, Returns, Lock, Set, Unlock, Get, Send, MainReq
    <2>2. CASE Lock(t) \/ Unlock(t) \/ Get(t) \/ Send(t)
      <3>1. KeyReq' = KeyReq /\ phone_state' = phone_state
        BY <1>2, <2>2 DEF Returns, Lock, Unlock, AfterUnlock, Get, Send, KeyReq, Control
      <3>2. QED
        BY <2>1, <3>1, CallStutter
    <2>3. CASE Check(t) \/ Set(t)
      <3>1. KeyReq = "pickup" /\ goal["key"] = "ACTIVATED"
        <4>1. pc["key"] \in {"check", "set"}
          BY <1>2, <2>3 DEF Check, Set, Returns
        <4>2. goal["key"] = "ACTIVATED"
          BY <4>1 DEF KeyAnswers
        <4>3. QED
          BY <4>1, <4>2 DEF KeyReq
      <3>2. CASE Check(t) /\ phone_state = "WAIT"
        BY <1>2, <2>1, <3>1, <3>2, CallStutter DEF Check, KeyReq, Before
      <3>3. CASE Check(t) /\ phone_state # "WAIT"
        <4>1. KeyReq' = "none" /\ phone_state' = phone_state
          BY <1>2, <3>1, <3>3 DEF Check, Returns, KeyReq, Before
        <4>2. QED
          BY <2>1, <3>1, <3>3, <4>1, Transitions, CallKeyPerforms DEF Done
      <3>4. CASE Set(t)
        <4>1. KeyReq' = "none" /\ phone_state = "WAIT" /\ phone_state' = "ACTIVATED"
          BY <1>2, <3>1, <3>4 DEF Set, KeyReq, Guards
        <4>2. QED
          BY <2>1, <3>1, <4>1, Transitions, CallKeyPerforms DEF Done
      <3>5. QED
        BY <2>3, <3>2, <3>3, <3>4
    <2>4. QED
      BY <2>2, <2>3 DEF Shared
  <1>3. QED
    BY <1>1, <1>2

LEMMA CallWorld ==
  ASSUME SteadyInv, SteadyInv',
         KeyOpen \/ KeyPress \/ Server \/ SrvFail \/ Client \/ UNCHANGED vars
  PROVE  Atomic!Next \/ UNCHANGED Atomic!vars
  <1>1. MainReq' = MainReq /\ phone_state' = phone_state
    BY DEF KeyOpen, KeyPress, Server, SrvOpen, SrvExit, SrvFail, Client, ClientConnect,
       ClientSend, ClientRead, ClientClose, thread, vars, MainReq, Writing, Repeats,
       Goto, SteadyInv, Inv, TypeOK, Threads, HandupCmds
  <1>2. CASE KeyPress
    <2>1. KeyReq = "none" /\ KeyReq' = "pickup"
      BY <1>2 DEF KeyPress, KeyReq, Writing, Goto, SteadyInv, Inv, TypeOK, Threads, KeyAnswers
    <2>2. QED
      BY <1>1, <2>1, CallRequests DEF Atomic!Requests
  <1>3. CASE KeyOpen \/ Server \/ SrvFail \/ Client \/ UNCHANGED vars
    <2>1. KeyReq' = KeyReq
      BY <1>3 DEF KeyOpen, Server, SrvOpen, SrvExit, SrvFail, Client, ClientConnect,
         ClientSend, ClientRead, ClientClose, thread, vars, KeyReq, Writing, Goto,
         SteadyInv, Inv, TypeOK, Threads
    <2>2. QED
      BY <1>1, <2>1, CallStutter
  <1>4. QED
    BY <1>2, <1>3

\* While the server socket stays open, every command and every key press takes
\* effect in one step, as if the test and the write were made under the mutex
\* (events.c:43-114, key.c:121-126).
THEOREM SteadyImplementsCall == ASSUME Steady PROVE Spec => ImplementsCall
  <1>1. ASSUME SteadyInv, SteadyInv', [Next]_vars PROVE [Atomic!Next]_(Atomic!vars)
    BY <1>1, CallMainAlone, CallShared, CallWorld DEF Next, Main, Key, Exited, Threads
  <1>2. QED
    BY <1>1, CallInit, SteadyInvHolds, PTL DEF Spec, ImplementsCall, Atomic!Spec
=============================================================================
