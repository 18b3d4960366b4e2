---------------------------- MODULE ProgramsProofs ----------------------------
(***************************************************************************)
(* What the runs of Programs check as invariants, proved for every value   *)
(* of the constants.  The larger programs have their proofs in modules of  *)
(* their own (VoipAudioProofs, AecServerProofs, UpdateLinkProofs and       *)
(* PcmSplitProofs), whose lemmas about one step are put together here; the *)
(* smaller ones are proved here.                                           *)
(***************************************************************************)
EXTENDS Programs, SequenceTheorems, FiniteSetTheorems, TLAPS

-----------------------------------------------------------------------------
(* One step *)

\* A step of the whole is, for every program, a step of its own or none.
LEMMA Steps ==
  ASSUME [Next]_vars
  PROVE  /\ [Voip!Next]_Voip!vars /\ [Aec!Next]_Aec!vars /\ [Link!Next]_Link!vars
         /\ [Client!Next]_Client!vars /\ [Mixer!Next]_Mixer!vars
         /\ [Hand!Next]_Hand!vars /\ [Voice!Next]_Voice!vars
         /\ [Fesp!Next]_Fesp!vars /\ [Split!Next]_Split!vars
  <1> USE DEF Next, vars, VoipStep, AecStep, LinkStep, ClientStep, MixerStep, HandStep,
              VoiceStep, DemoStep, FespStep, SplitStep
  <1>1. [Voip!Next]_Voip!vars
    BY DEF voip, Voip!vars, Voip!srvs, Voip!works, Voip!locks
  <1>2. [Aec!Next]_Aec!vars
    BY DEF aec, Aec!vars, Aec!nets, Aec!locks, Aec!plays, Aec!voices
  <1>3. [Link!Next]_Link!vars
    BY DEF link, Link!vars, Link!clients, Link!shared, Link!accepts, Link!updates
  <1>4. [Client!Next]_Client!vars /\ [Mixer!Next]_Mixer!vars
    BY DEF client, Client!vars, mixer, Mixer!vars
  <1>5. [Hand!Next]_Hand!vars /\ [Voice!Next]_Voice!vars
    BY DEF hand, Hand!vars, voice, Voice!vars
  <1>6. [Fesp!Next]_Fesp!vars /\ [Split!Next]_Split!vars
    BY DEF fesp, Fesp!vars, split, Split!vars
  <1> QED
    BY <1>1, <1>2, <1>3, <1>4, <1>5, <1>6

-----------------------------------------------------------------------------
(* The programs whose steps have lemmas of their own *)

\* No descriptor of the phone's audio servers is lost or closed by the other
\* server and no worker strays while its own connection is open, for any
\* clients and descriptor numbers; two numbers are enough (voip.c:160-262).
THEOREM VoipSafe ==
  ASSUME \E f, g \in Fd : f # g
  PROVE  Spec => []VoipInv
  <1>1. Voip!VoipAssumption
    BY ProgramsAssumption
  <1>2. Init => Voip!SafeInv
    BY <1>1, Voip!SafeInit DEF Init
  <1>3. Voip!SafeInv /\ [Next]_vars => Voip!SafeInv'
    BY <1>1, Steps, Voip!SafeStep
  <1>4. Voip!SafeInv => VoipInv
    BY <1>1, Voip!SafeImplies, Voip!SafeNumbers DEF VoipInv
  <1> QED
    BY <1>2, <1>3, <1>4, PTL DEF Spec

\* A lone player of the echo-cancelling server plays its own fresh sound, and
\* an engine's thread finds a buffer and a recording client, for any clients
\* (algotest dz_voip.c:558-584, 709-726).
THEOREM AecSafe == Spec => []AecInv
  <1>1. Aec!AecAssumption
    BY ProgramsAssumption
  <1>2. Init => Aec!SafeInv
    BY <1>1, Aec!SafeInit DEF Init
  <1>3. Aec!SafeInv /\ [Next]_vars => Aec!SafeInv'
    BY <1>1, Steps, Aec!SafeStep
  <1>4. Aec!SafeInv => AecInv
    BY <1>1, Aec!SafeImplies DEF AecInv
  <1> QED
    BY <1>2, <1>3, <1>4, PTL DEF Spec

\* The PCM devices of both servers have one user at a time, and of the
\* phone's, once a starting server has initialised the mutex in use, two at
\* most, for any number of workers (voip.c:205, 388, 444; algotest
\* dz_voip.c:75, 151, 561, 633).
THEOREM PcmSafe == Spec => []PcmExclusive
  <1>1. Voip!VoipAssumption /\ Aec!AecAssumption
    BY ProgramsAssumption
  <1>2. Init => Voip!SafeInv /\ Aec!SafeInv
    BY <1>1, Voip!SafeInit, Aec!SafeInit DEF Init
  <1>3. Voip!SafeInv /\ Aec!SafeInv /\ [Next]_vars => (Voip!SafeInv /\ Aec!SafeInv)'
    BY <1>1, Steps, Voip!SafeStep, Aec!SafeStep
  <1>4. Voip!SafeInv /\ Aec!SafeInv => PcmExclusive
    BY <1>1, Voip!SafeImplies, Aec!SafeImplies DEF PcmExclusive
  <1> QED
    BY <1>2, <1>3, <1>4, PTL DEF Spec

\* The update server's two threads leave no client stranded and no file closed
\* under its writer, unless a hand-over met a tear-down, for any clients,
\* descriptor numbers and length of a file (update_server.c:59-76, 153-161).
THEOREM LinkSafe == Spec => []LinkInv
  <1>1. Link!UpdateLinkAssumption
    BY ProgramsAssumption
  <1>2. Init => Link!LinkSafe
    BY <1>1, Link!LinkSafeInit DEF Init
  <1>3. Link!LinkSafe /\ [Next]_vars => Link!LinkSafe'
    BY <1>1, Steps, Link!LinkSafeStep
  <1>4. Link!LinkSafe => LinkInv
    BY <1>1, Link!LinkSafeImplies DEF LinkInv
  <1> QED
    BY <1>2, <1>3, <1>4, PTL DEF Spec

\* The archive is written in the order in which it was sent, whatever clients
\* take the connection over (update_process.c:906-963).
THEOREM LinkOrder == Spec => []FileOrder
  <1>1. Link!UpdateLinkAssumption
    BY ProgramsAssumption
  <1>2. Init => Link!OrderSafe
    BY <1>1, Link!OrderSafeInit DEF Init
  <1>3. Link!OrderSafe /\ [Next]_vars => Link!OrderSafe'
    BY <1>1, Steps, Link!OrderSafeStep
  <1>4. Link!OrderSafe => FileOrder
    BY DEF Link!OrderSafe, FileOrder
  <1> QED
    BY <1>2, <1>3, <1>4, PTL DEF Spec

\* One channel at 16 kHz is spread over two at 48 kHz within bounds, for
\* inputs of every length (pcm_s16le_split.c:35-56).
THEOREM SplitSafe == Spec => []SplitInv
  <1>1. Split!PcmAssumption
    BY ProgramsAssumption
  <1>2. Init => SplitInv
    BY <1>1, Split!InitInv DEF Init, SplitInv
  <1>3. SplitInv /\ [Next]_vars => SplitInv'
    BY <1>1, Steps, Split!StepInv DEF SplitInv
  <1> QED
    BY <1>2, <1>3, PTL DEF Spec

-----------------------------------------------------------------------------
(* The 2.4G handset's voice *)

\* A thread that has come to its second device has opened the first, and the
\* engine is created when both are open.
VoiceOpens ==
  /\ hv_uplink = "open2" => hv_pcm["rk_capture"] # "closed"
  /\ hv_uplink \in {"init", "read", "feed"} => hv_pcm["xy_playback"] # "closed"
  /\ hv_down = "open2" => hv_pcm["xy_capture"] # "closed"

VoiceIInv == VoiceInv /\ VoiceOpens

LEMMA VoiceInit == Voice!Init => VoiceIInv
  BY DEF Voice!Init, VoiceIInv, VoiceInv, Voice!VoiceInv, Voice!TypeOK, Voice!VoiceReady,
         VoiceOpens, Voice!Device

LEMMA VoiceNext == VoiceIInv /\ [Voice!Next]_Voice!vars => VoiceIInv'
  <1> SUFFICES ASSUME VoiceIInv, [Voice!Next]_Voice!vars PROVE VoiceIInv'
    OBVIOUS
  <1> USE DEF VoiceIInv, VoiceInv, Voice!VoiceInv, Voice!TypeOK, Voice!VoiceReady,
              VoiceOpens, Voice!Device
  <1>1. CASE Voice!Exit
    BY <1>1 DEF Voice!Exit
  <1>2. CASE Voice!Down /\ ~Voice!Exit
    BY <1>2 DEF Voice!Down, Voice!DownOpen, Voice!DownRead, Voice!DownWrite, Voice!DownGoto,
                Voice!dz_set_params
  <1>3. CASE Voice!Uplink /\ ~Voice!Exit
    BY <1>3 DEF Voice!Uplink, Voice!UpOpen, Voice!duilite_init, Voice!UpRead, Voice!Feed,
                Voice!UpGoto, Voice!dz_set_params
  <1>4. CASE Voice!Engine
    BY <1>4 DEF Voice!Engine, Voice!beamforming_callback, Voice!WriteAgain
  <1>5. ASSUME NEW d \in Voice!Device, Voice!Xrun(d) PROVE VoiceIInv'
    BY <1>5 DEF Voice!Xrun
  <1>6. CASE UNCHANGED Voice!vars
    BY <1>6 DEF Voice!vars
  <1> QED
    BY <1>1, <1>2, <1>3, <1>4, <1>5, <1>6 DEF Voice!Next

\* The handset's threads use open devices only (dzvoip dz_voip.c:139-253).
THEOREM VoiceSafe == Spec => []VoiceInv
  <1>1. Init => VoiceIInv
    BY VoiceInit DEF Init
  <1>2. VoiceIInv /\ [Next]_vars => VoiceIInv'
    BY Steps, VoiceNext
  <1> QED
    BY <1>1, <1>2, PTL DEF Spec, VoiceIInv

-----------------------------------------------------------------------------
(* The master's test client *)

\* A command sent is on the wire, in the buffer, or handled; a buffer that was
\* never mixed holds one byte when it is handled.
ClientCounts ==
  /\ cl_handled + Len(cl_wire) + (IF cl_ctrl = "handle" THEN 1 ELSE 0) <= cl_sent
  /\ cl_ctrl = "handle" /\ cl_mixed = "no" => cl_recv_buf[2] # "digit"

ClientIInv == ClientInv /\ ClientCounts

LEMMA ClientInit == Client!ClientAssumption /\ Client!Init => ClientIInv
  BY DEF Client!ClientAssumption, Client!Init, ClientIInv, ClientInv, Client!ClientInv,
         Client!TypeOK, Client!Exclusive, Client!Understood, ClientCounts, Client!Port,
         Client!Symbol

LEMMA ClientNext ==
  ASSUME Client!ClientAssumption, ClientIInv, [Client!Next]_Client!vars
  PROVE  ClientIInv'
  <1> USE DEF Client!ClientAssumption, ClientIInv, ClientInv, Client!ClientInv, Client!TypeOK,
              Client!Exclusive, Client!Understood, ClientCounts, Client!Symbol,
              Client!voices, Client!cmds
  <1>1. CASE Client!Exit
    BY <1>1 DEF Client!Exit, Client!Port
  <1>2. ASSUME NEW p \in Client!Port, Client!Connect(p) \/ Client!PhoneCloses(p), ~Client!Exit
        PROVE  ClientIInv'
    BY <1>2 DEF Client!Connect, Client!PhoneCloses
  <1>3. CASE Client!RecvReturn \/ Client!RecvLock \/ Client!RecvUnlock
    BY <1>3 DEF Client!RecvReturn, Client!RecvLock, Client!RecvUnlock
  <1>4. CASE (Client!Sender \/ Client!SendLock) /\ ~Client!Exit
    BY <1>4 DEF Client!Sender, Client!SendUnlock, Client!Send, Client!SendLock
  <1>5. CASE Client!CtrlRecv
    <2>1. PICK n \in 1..Len(cl_wire) :
            /\ cl_recv_buf' = [i \in 1..2 |-> IF i <= n THEN cl_wire[i] ELSE cl_recv_buf[i]]
            /\ cl_wire' = SubSeq(cl_wire, n + 1, Len(cl_wire))
      BY <1>5 DEF Client!CtrlRecv
    <2>2. cl_wire' \in Seq({"digit", "text"}) /\ Len(cl_wire') = Len(cl_wire) - n
      BY <2>1
    <2>3. cl_recv_buf' \in [1..2 -> Client!Symbol]
      BY <2>1
    <2> QED
      BY <1>5, <2>2, <2>3 DEF Client!CtrlRecv
  <1>6. CASE Client!ctrl_cmd_handle
    BY <1>6 DEF Client!ctrl_cmd_handle
  <1>7. CASE Client!Clear /\ ~Client!Exit
    BY <1>7 DEF Client!Clear
  <1>8. ASSUME NEW b \in {"digit", "text"}, Client!PhoneSends(b) PROVE ClientIInv'
    BY <1>8 DEF Client!PhoneSends
  <1>9. CASE UNCHANGED Client!vars
    BY <1>9 DEF Client!vars
  <1> QED
    BY <1>1, <1>2, <1>3, <1>4, <1>5, <1>6, <1>7, <1>8, <1>9
    DEF Client!Next, Client!Ctrl

\* The master's client takes no more commands than were sent, names each once
\* unless two were mixed, and keeps its PCM devices to one thread, for any
\* number of commands (dz_voip_client.c:249-338, 380-425).
THEOREM ClientSafe == Spec => []ClientInv
  <1>1. Client!ClientAssumption
    BY ProgramsAssumption
  <1>2. Init => ClientIInv
    BY <1>1, ClientInit DEF Init
  <1>3. ClientIInv /\ [Next]_vars => ClientIInv'
    BY <1>1, Steps, ClientNext
  <1> QED
    BY <1>2, <1>3, PTL DEF Spec, ClientIInv

-----------------------------------------------------------------------------
(* The vendor engine's sample *)

\* What main() holds follows from the label it is at, as far as the properties
\* ask: what was acquired on the way down to the engine, and what _end has
\* left.  Outside the stretch in which it exists there is no engine.
FespHolds ==
  /\ fe_main \in {"off", "open"} => fe_held = {}
  /\ fe_main = "size" => fe_held = {"config"}
  /\ fe_main = "parse" => "config" \notin fe_held
  /\ "jsroot" \in fe_held => "config" \notin fe_held
  /\ fe_main \in {"raw", "header", "load", "new"} => "bf" \in fe_held
  /\ fe_main \in {"load", "new"} => "peroid_buffer" \in fe_held
  /\ fe_main = "new" => "library" \in fe_held
  /\ fe_main \in {"register", "start", "feed"} => fe_engine # "none"
  /\ fe_main \notin {"register", "start", "feed", "end"} => fe_engine = "none"
  /\ fe_main = "files" => fe_held \subseteq {"bf", "raw", "config", "jsroot"}

\* Every period is in the recording, with the engine, or called back for; a
\* started engine is at the loop or past its end.
FespFeeds ==
  /\ fe_queued + fe_left.whole + fe_left.part <= MaxPeriods + 1
  /\ fe_begun = "yes" => fe_main \in {"feed", "end", "files", "returned"}
  /\ fe_begun = "yes" /\ fe_main # "feed" => fe_left.whole + fe_left.part = 0

FespIInv == FespInv /\ FespHolds /\ FespFeeds

LEMMA FespInit == Fesp!FespAssumption /\ Fesp!Init => FespIInv
  <1> SUFFICES ASSUME Fesp!FespAssumption, Fesp!Init PROVE FespIInv
    OBVIOUS
  <1>1. fe_left \in [whole : 0..MaxPeriods, part : {0, 1}]
    BY DEF Fesp!FespAssumption, Fesp!Init
  <1> QED
    BY <1>1 DEF Fesp!FespAssumption, Fesp!Init, FespIInv, FespInv, Fesp!FespInv, Fesp!TypeOK,
         Fesp!CallbackHasFile, Fesp!GivenBack, Fesp!WholeFed, FespHolds, FespFeeds

\* The step that a label of main() stands for.
LEMMA FespSteps ==
  ASSUME Fesp!Next
  PROVE  \/ Fesp!OpenConfig \/ Fesp!ReadConfig \/ Fesp!CloseConfig \/ Fesp!Parse
         \/ Fesp!Items \/ Fesp!OpenOutput \/ Fesp!OpenInput \/ Fesp!Header \/ Fesp!Load
         \/ Fesp!New \/ Fesp!Register \/ Fesp!Start \/ Fesp!Feed \/ Fesp!Stop \/ Fesp!End
         \/ Fesp!Callback
  BY DEF Fesp!Next, Fesp!Main

LEMMA FespHeldStep ==
  ASSUME Fesp!TypeOK, Fesp!CallbackHasFile, Fesp!GivenBack, FespHolds, Fesp!Next
  PROVE  (Fesp!CallbackHasFile /\ Fesp!GivenBack /\ FespHolds)'
  <1>0. fe_held \subseteq Fesp!Things
    BY DEF Fesp!TypeOK
  <1> USE DEF Fesp!CallbackHasFile, Fesp!GivenBack, FespHolds, Fesp!Acquire
  <1>1. CASE Fesp!OpenConfig
    BY <1>1 DEF Fesp!OpenConfig
  <1>2. CASE Fesp!ReadConfig
    BY <1>2 DEF Fesp!ReadConfig
  <1>3. CASE Fesp!CloseConfig
    BY <1>3 DEF Fesp!CloseConfig
  <1>4. CASE Fesp!Parse
    BY <1>4 DEF Fesp!Parse
  <1>5. CASE Fesp!Items
    BY <1>5 DEF Fesp!Items
  <1>6. CASE Fesp!OpenOutput
    BY <1>6 DEF Fesp!OpenOutput
  <1>7. CASE Fesp!OpenInput
    BY <1>7 DEF Fesp!OpenInput
  <1>8. CASE Fesp!Header
    BY <1>8 DEF Fesp!Header
  <1>9. CASE Fesp!Load
    BY <1>9 DEF Fesp!Load
  <1>10. CASE Fesp!New
    BY <1>10 DEF Fesp!New
  <1>11. CASE Fesp!Register \/ Fesp!Start
    <2>1. /\ fe_main \in {"register", "start"} /\ fe_main' \in {"start", "feed", "end"}
          /\ fe_held' = fe_held /\ fe_engine' \in {fe_engine, "registered", "started"}
      BY <1>11 DEF Fesp!Register, Fesp!Start
    <2> QED
      BY <2>1
  <1>12. CASE Fesp!Feed \/ Fesp!Callback
    BY <1>12 DEF Fesp!Feed, Fesp!Callback
  <1>13. CASE Fesp!Stop
    BY <1>13 DEF Fesp!Stop
  <1>14. CASE Fesp!End
    BY <1>0, <1>14 DEF Fesp!End, Fesp!Things
  <1> QED
    BY <1>1, <1>2, <1>3, <1>4, <1>5, <1>6, <1>7, <1>8, <1>9, <1>10, <1>11, <1>12, <1>13,
       <1>14, FespSteps

LEMMA FespFedStep ==
  ASSUME Fesp!FespAssumption, Fesp!TypeOK, Fesp!WholeFed, FespFeeds, Fesp!Next
  PROVE  (Fesp!TypeOK /\ Fesp!WholeFed /\ FespFeeds)'
  <1>1. /\ fe_left.whole \in 0..MaxPeriods /\ fe_left.part \in {0, 1}
        /\ MaxPeriods \in Nat /\ fe_queued \in Nat
    BY DEF Fesp!FespAssumption, Fesp!TypeOK
  <1> USE DEF Fesp!WholeFed, FespFeeds, Fesp!TypeOK, Fesp!Things
  <1>2. CASE Fesp!Feed
    <2>1. /\ fe_main = "feed" /\ fe_left.whole + fe_left.part > 0
          /\ fe_left' = IF fe_left.whole > 0
                        THEN [fe_left EXCEPT !.whole = fe_left.whole - 1]
                        ELSE [fe_left EXCEPT !.part = 0]
          /\ fe_queued' = fe_queued + 1 /\ UNCHANGED <<fe_main, fe_held, fe_engine, fe_begun>>
      BY <1>2 DEF Fesp!Feed
    <2>2. /\ fe_left' \in [whole : 0..MaxPeriods, part : {0, 1}]
          /\ fe_left'.whole + fe_left'.part = fe_left.whole + fe_left.part - 1
      BY <1>1, <2>1
    <2> QED
      BY <1>1, <2>1, <2>2
  <1>3. CASE Fesp!Callback
    BY <1>1, <1>3 DEF Fesp!Callback
  <1>4. CASE Fesp!Stop
    BY <1>1, <1>4 DEF Fesp!Stop
  <1>5. CASE Fesp!End
    <2>1. /\ fe_left' = fe_left /\ fe_begun' = fe_begun /\ fe_queued' \in {0, fe_queued}
          /\ fe_engine' \in {fe_engine, "none"} /\ fe_held' \subseteq fe_held
          /\ fe_main \in {"end", "files"} /\ fe_main' \in {"files", "returned"}
      BY <1>5 DEF Fesp!End
    <2> QED
      BY <1>1, <2>1
  <1>6. CASE Fesp!Start
    BY <1>1, <1>6 DEF Fesp!Start
  <1>7. CASE Fesp!New \/ Fesp!Register
    BY <1>1, <1>7 DEF Fesp!New, Fesp!Register
  <1>8. CASE Fesp!OpenConfig \/ Fesp!ReadConfig \/ Fesp!CloseConfig \/ Fesp!Parse
    BY <1>1, <1>8 DEF Fesp!OpenConfig, Fesp!ReadConfig, Fesp!CloseConfig, Fesp!Parse,
                      Fesp!Acquire
  <1>9. CASE Fesp!Items \/ Fesp!OpenOutput \/ Fesp!OpenInput \/ Fesp!Header \/ Fesp!Load
    BY <1>1, <1>9 DEF Fesp!Items, Fesp!OpenOutput, Fesp!OpenInput, Fesp!Header, Fesp!Load,
                      Fesp!Acquire
  <1> QED
    BY <1>2, <1>3, <1>4, <1>5, <1>6, <1>7, <1>8, <1>9, FespSteps

LEMMA FespNext ==
  ASSUME Fesp!FespAssumption, FespIInv, [Fesp!Next]_Fesp!vars
  PROVE  FespIInv'
  <1>1. CASE Fesp!Next
    <2>1. Fesp!TypeOK /\ Fesp!CallbackHasFile /\ Fesp!GivenBack /\ Fesp!WholeFed
      BY DEF FespIInv, FespInv, Fesp!FespInv
    <2>2. (Fesp!CallbackHasFile /\ Fesp!GivenBack /\ FespHolds)'
      BY <1>1, <2>1, FespHeldStep DEF FespIInv
    <2>3. (Fesp!TypeOK /\ Fesp!WholeFed /\ FespFeeds)'
      BY <1>1, <2>1, FespFedStep DEF FespIInv
    <2> QED
      BY <2>2, <2>3 DEF FespIInv, FespInv, Fesp!FespInv
  <1>2. CASE UNCHANGED Fesp!vars
    BY <1>2 DEF Fesp!vars, FespIInv, FespInv, Fesp!FespInv, Fesp!TypeOK, Fesp!CallbackHasFile,
                Fesp!GivenBack, Fesp!WholeFed, FespHolds, FespFeeds
  <1> QED
    BY <1>1, <1>2

\* The vendor's sample gives back what it acquires on every path and outlives
\* its engine's thread, for recordings of any length (test_fesp.c:79-252).
THEOREM FespSafe == Spec => []FespInv
  <1>1. Fesp!FespAssumption
    BY ProgramsAssumption
  <1>2. Init => FespIInv
    BY <1>1, FespInit DEF Init
  <1>3. FespIInv /\ [Next]_vars => FespIInv'
    BY <1>1, Steps, FespNext
  <1> QED
    BY <1>2, <1>3, PTL DEF Spec, FespIInv

-----------------------------------------------------------------------------
(* The 2.4G handset's link *)

Quiet(s) == \A i \in 1..Len(s) : s[i] = "other"
Stands(r) == IF r \in {"pair", "connect"} THEN 1 ELSE 0

\* The last report of the link that is on the wire is the last one sent, and
\* once it has been read it is what counts in the bytes read or has been
\* counted, unless it stood behind another byte of its read.
HandFollows ==
  /\ ha_main = "run" <=> ha_uart # "none"
  /\ ha_uart = "none" => ha_wire = <<>> /\ ha_last = None /\ ha_state_link = 0
  /\ ha_uart = "handle" => ha_chunk # <<>>
  /\ \A i \in 1..Len(ha_wire) :
       ha_wire[i] # "other" /\ (\A j \in i + 1..Len(ha_wire) : ha_wire[j] = "other")
         => ha_wire[i] = ha_last
  /\ ha_lost = "no" /\ Quiet(ha_wire) =>
       IF ha_uart = "handle" /\ ha_chunk[1] # "other" THEN ha_chunk[1] = ha_last
                                                      ELSE ha_state_link = Stands(ha_last)

HandIInv == Hand!TypeOK /\ HandFollows

LEMMA HandInit == Hand!HandsetAssumption /\ Hand!Init => HandIInv
  BY DEF Hand!HandsetAssumption, Hand!Report, Hand!Init, HandIInv, Hand!TypeOK, HandFollows,
         Quiet, Stands

LEMMA HandBoots ==
  ASSUME Hand!HandsetAssumption, HandIInv, Hand!Boot \/ Hand!VoiceExits \/ Hand!Query
  PROVE  HandIInv'
  <1> USE DEF Hand!HandsetAssumption, Hand!Report, HandIInv, Hand!TypeOK, HandFollows, Quiet,
              Stands
  <1>1. CASE Hand!Exit
    BY <1>1 DEF Hand!Exit
  <1>2. CASE Hand!Boot /\ ~Hand!Exit
    BY <1>2 DEF Hand!Boot, Hand!key_events_init, Hand!uart_events_init, Hand!Create
  <1>3. CASE Hand!Query
    BY <1>3 DEF Hand!Query
  <1> QED
    BY <1>1, <1>2, <1>3 DEF Hand!VoiceExits

\* What a read leaves on the wire is its end.  If no report of the link is
\* left there and none was hidden, the last one is the first byte read, or was
\* counted before.
LEMMA HandTakes ==
  ASSUME Hand!HandsetAssumption, HandIInv, Hand!Read
  PROVE  HandIInv'
  <1> DEFINE L == Len(ha_wire)
  <1>0. Hand!TypeOK /\ HandFollows
    BY DEF HandIInv
  <1>1. /\ ha_uart = "read" /\ ha_uart' = "handle" /\ UNCHANGED <<ha_main, ha_state_link>>
        /\ UNCHANGED <<ha_stat_pair, ha_last>>
    BY DEF Hand!Read
  <1>2. PICK n \in 1..L :
          /\ n <= HandRead
          /\ ha_chunk' = SubSeq(ha_wire, 1, n) /\ ha_wire' = SubSeq(ha_wire, n + 1, L)
          /\ ha_lost' = IF \E i \in 2..n : ha_wire[i] # "other" THEN "yes"
                        ELSE IF ha_wire[1] # "other" THEN "no" ELSE ha_lost
    BY DEF Hand!Read
  <1>3. ha_wire \in Seq(Hand!Report) /\ L \in Nat /\ L <= HandWire /\ n \in Nat /\ n >= 1 /\ n <= L
    BY <1>0 DEF Hand!TypeOK
  <1>4. /\ ha_wire' \in Seq(Hand!Report) /\ Len(ha_wire') = L - n
        /\ \A i \in 1..L - n : ha_wire'[i] = ha_wire[n + i]
    BY <1>2, <1>3
  <1>5. /\ ha_chunk' \in Seq(Hand!Report) /\ Len(ha_chunk') = n /\ ha_chunk'[1] = ha_wire[1]
    BY <1>2, <1>3
  <1>6. Hand!TypeOK'
    BY <1>0, <1>1, <1>2, <1>3, <1>4, <1>5 DEF Hand!TypeOK, Hand!HandsetAssumption
  <1>7. ASSUME NEW i \in 1..L - n, ha_wire'[i] # "other",
               \A j \in i + 1..L - n : ha_wire'[j] = "other"
        PROVE  ha_wire'[i] = ha_last
    <2>1. n + i \in 1..L /\ ha_wire[n + i] # "other"
      BY <1>3, <1>4, <1>7
    <2>2. ASSUME NEW j \in n + i + 1..L PROVE ha_wire[j] = "other"
      <3>1. j - n \in i + 1..L - n /\ j - n \in 1..L - n /\ n + (j - n) = j
        BY <1>3
      <3> QED
        BY <1>4, <1>7, <3>1
    <2>3. ha_wire[n + i] = ha_last
      BY <1>0, <2>1, <2>2 DEF HandFollows
    <2> QED
      BY <1>4, <2>3
  <1>8. ASSUME ha_lost' = "no", Quiet(ha_wire)'
        PROVE  IF ha_chunk'[1] # "other" THEN ha_chunk'[1] = ha_last
                                         ELSE ha_state_link = Stands(ha_last)
    <2>1. ASSUME NEW j \in 2..L PROVE ha_wire[j] = "other"
      <3>1. CASE j <= n
        BY <1>2, <1>3, <1>8, <3>1
      <3>2. CASE j > n
        <4>1. j - n \in 1..L - n /\ n + (j - n) = j
          BY <1>3, <3>2
        <4> QED
          BY <1>4, <1>8, <4>1 DEF Quiet
      <3> QED
        BY <1>3, <3>1, <3>2
    <2>2. CASE ha_wire[1] # "other"
      <3>1. ha_wire[1] = ha_last
        BY <1>0, <1>3, <2>1, <2>2 DEF HandFollows
      <3> QED
        BY <1>5, <2>2, <3>1
    <2>3. CASE ha_wire[1] = "other"
      <3>1. ha_lost = "no"
        BY <1>2, <1>8, <2>3
      <3>2. Quiet(ha_wire)
        BY <1>3, <2>1, <2>3 DEF Quiet
      <3> QED
        BY <1>0, <1>1, <1>5, <2>3, <3>1, <3>2 DEF HandFollows
    <2> QED
      BY <2>2, <2>3
  <1>9. ha_chunk' # <<>>
    BY <1>3, <1>5
  <1> QED
    BY <1>0, <1>1, <1>4, <1>6, <1>7, <1>8, <1>9 DEF HandIInv, HandFollows, Stands

LEMMA HandHandles ==
  ASSUME Hand!HandsetAssumption, HandIInv, Hand!Handle
  PROVE  HandIInv'
  <1>0. Hand!TypeOK /\ HandFollows
    BY DEF HandIInv
  <1>1. /\ ha_uart = "handle" /\ ha_uart' = "read" /\ ha_chunk' = <<>>
        /\ UNCHANGED <<ha_main, ha_wire, ha_stat_pair, ha_last, ha_lost>>
        /\ ha_state_link' = IF ha_chunk[1] \in {"pair", "connect"} THEN 1
                            ELSE IF ha_chunk[1] = "disconnect" THEN 0 ELSE ha_state_link
    BY DEF Hand!Handle
  <1>2. Hand!TypeOK' /\ ha_chunk[1] \in Hand!Report
    BY <1>0, <1>1 DEF Hand!TypeOK, Hand!HandsetAssumption, HandFollows
  <1>3. ASSUME ha_lost' = "no", Quiet(ha_wire)'
        PROVE  ha_state_link' = Stands(ha_last)
    <2>1. Quiet(ha_wire) /\ ha_lost = "no"
      BY <1>1, <1>3 DEF Quiet
    <2> QED
      BY <1>0, <1>1, <1>2, <2>1 DEF HandFollows, Hand!Report, Stands
  <1> QED
    BY <1>0, <1>1, <1>2, <1>3 DEF HandIInv, HandFollows, Stands

LEMMA HandReports ==
  ASSUME Hand!HandsetAssumption, HandIInv, NEW r \in Hand!Report, Hand!Reports(r)
  PROVE  HandIInv'
  <1> DEFINE L == Len(ha_wire)
  <1>0. Hand!TypeOK /\ HandFollows
    BY DEF HandIInv
  <1>1. /\ ha_main = "run" /\ L < HandWire /\ ha_wire' = Append(ha_wire, r)
        /\ ha_last' = IF r = "other" THEN ha_last ELSE r
        /\ UNCHANGED <<ha_main, ha_uart, ha_chunk, ha_state_link, ha_stat_pair, ha_lost>>
    BY DEF Hand!Reports
  <1>2. /\ ha_wire' \in Seq(Hand!Report) /\ Len(ha_wire') = L + 1 /\ L \in Nat
        /\ ha_wire'[L + 1] = r /\ \A i \in 1..L : ha_wire'[i] = ha_wire[i]
    BY <1>0, <1>1 DEF Hand!TypeOK
  <1>3. Hand!TypeOK'
    BY <1>0, <1>1, <1>2 DEF Hand!TypeOK, Hand!HandsetAssumption
  <1>4. ASSUME NEW i \in 1..L + 1, ha_wire'[i] # "other",
               \A j \in i + 1..L + 1 : ha_wire'[j] = "other"
        PROVE  ha_wire'[i] = ha_last'
    <2>1. CASE i = L + 1
      BY <1>1, <1>2, <1>4, <2>1
    <2>2. CASE i # L + 1
      <3>1. i \in 1..L /\ r = "other" /\ ha_wire[i] # "other"
        BY <1>2, <1>4, <2>2
      <3>2. \A j \in i + 1..L : ha_wire[j] = "other"
        BY <1>2, <1>4, <3>1
      <3> QED
        BY <1>0, <1>1, <1>2, <3>1, <3>2 DEF HandFollows
    <2> QED
      BY <2>1, <2>2
  <1>5. Quiet(ha_wire)' => Quiet(ha_wire) /\ ha_last' = ha_last
    BY <1>1, <1>2 DEF Quiet
  <1> QED
    BY <1>0, <1>1, <1>2, <1>3, <1>4, <1>5 DEF HandIInv, HandFollows, Stands

LEMMA HandTracks == Hand!HandsetAssumption /\ HandIInv => HandsetInv
  <1> SUFFICES ASSUME Hand!TypeOK, HandFollows, ha_uart = "read", ha_lost = "no",
                      Hand!Range(ha_wire) \subseteq {"other"}
               PROVE  ha_state_link = Stands(ha_last)
    BY DEF HandIInv, HandsetInv, Hand!HandsetInv, Hand!LinkTracks, Stands
  <1>1. Quiet(ha_wire)
    BY DEF Quiet, Hand!Range, Hand!TypeOK
  <1> QED
    BY <1>1 DEF HandFollows

\* state_link follows the dongle's reports, for lines and reads of any length,
\* unless a report stood behind another byte (dzvoip events.c:192-223).
THEOREM HandsetSafe == Spec => []HandsetInv
  <1>1. Hand!HandsetAssumption
    BY ProgramsAssumption
  <1>2. Init => HandIInv
    BY <1>1, HandInit DEF Init
  <1>3. HandIInv /\ [Next]_vars => HandIInv'
    <2> SUFFICES ASSUME HandIInv, [Hand!Next]_Hand!vars PROVE HandIInv'
      BY Steps
    <2>1. CASE UNCHANGED Hand!vars
      BY <2>1 DEF Hand!vars, HandIInv, Hand!TypeOK, HandFollows, Quiet
    <2> QED
      BY <1>1, <2>1, HandBoots, HandTakes, HandHandles, HandReports DEF Hand!Next, Hand!Uart
  <1> QED
    BY <1>1, <1>2, <1>3, HandTracks, PTL DEF Spec

-----------------------------------------------------------------------------
(* The volume and microphone keys *)

\* What the program believes of the controls of a kind, and whether a command
\* for a control has still to take effect.
Current(k) == IF k = "volume" THEN mi_volume ELSE mi_micsta
Pending(c) == \/ \E i \in DOMAIN mi_todo : mi_todo[i].control = c
              \/ \E i \in DOMAIN mi_jobs : mi_jobs[i].control = c

\* The commands of one key, which are to be started, carry the value that the
\* program believes, and so do those running, unless keys came too fast; every
\* control that was ever asked for has its value or a command on its way.
MixerFollows ==
  /\ mi_todo \in Seq(Mixer!Command) /\ mi_jobs \in Seq(Mixer!Command)
  /\ mi_key = "do" <=> mi_todo # <<>>
  /\ \A i \in DOMAIN mi_todo :
       mi_todo[i].value = Current(Mixer!KindOf(mi_todo[i].control))
  /\ \A i \in DOMAIN mi_jobs :
       Mixer!KindOf(mi_jobs[i].control) \notin mi_racing =>
         mi_jobs[i].value = Current(Mixer!KindOf(mi_jobs[i].control))
  /\ \A c \in Mixer!Control :
       Mixer!KindOf(c) \in mi_asked =>
         /\ Pending(c) \/ mi_mixer[c] # None
         /\ Mixer!KindOf(c) \notin mi_racing =>
              Pending(c) \/ mi_mixer[c] = Current(Mixer!KindOf(c))

MixerIInv == Mixer!TypeOK /\ MixerFollows

\* SetToSeq gives every group one place.
LEMMA GroupSeq ==
  ASSUME Mixer!MixerAssumption
  PROVE  /\ Mixer!SetToSeq(Group) \in Seq(Group) /\ Len(Mixer!SetToSeq(Group)) \in Nat \ {0}
         /\ \A g \in Group : \E i \in 1..Len(Mixer!SetToSeq(Group)) :
              Mixer!SetToSeq(Group)[i] = g
  <1> DEFINE n == Cardinality(Group)
             f == Mixer!SetToSeq(Group)
  <1>1. IsFiniteSet(Group) /\ Group # {}
    BY DEF Mixer!MixerAssumption, Mixer!IsFiniteSet, IsFiniteSet
  <1>2. n \in Nat /\ ExistsBijection(1..n, Group)
    BY <1>1, FS_CardinalityType
  <1>3. Mixer!Cardinality(Group) = n
    BY DEF Mixer!Cardinality, Cardinality
  <1>4. \E h \in [1..n -> Group] : Mixer!IsInjective(h)
    BY <1>2 DEF ExistsBijection, Bijection, Injection, IsInjective, Mixer!IsInjective
  <1>5. f \in [1..n -> Group] /\ Mixer!IsInjective(f)
    BY <1>3, <1>4 DEF Mixer!SetToSeq
  <1>6. f \in Injection(1..n, Group)
    BY <1>5 DEF Injection, IsInjective, Mixer!IsInjective
  <1>7. Cardinality(1..n) = n
    BY <1>2, FS_Interval
  <1>8. f \in Surjection(1..n, Group)
    BY <1>1, <1>6, <1>7, FS_Injection
  <1>9. \A g \in Group : \E i \in 1..n : f[i] = g
    BY <1>8 DEF Surjection
  <1>10. f \in Seq(Group) /\ Len(f) = n
    BY <1>2, <1>5
  <1>11. n # 0
    BY <1>1, <1>9
  <1> QED
    BY <1>2, <1>9, <1>10, <1>11

LEMMA Commands ==
  ASSUME Mixer!MixerAssumption, NEW v \in 0..Top \cup {0, 1}
  PROVE  /\ Mixer!Groups(v) \in Seq(Mixer!Command) /\ Mixer!Groups(v) # <<>>
         /\ Mixer!Master(v) \in Seq(Mixer!Command) /\ Mixer!Master(v) # <<>>
         /\ Len(Mixer!Master(v)) = 1 /\ Mixer!Master(v)[1].value = v
         /\ Mixer!Master(v)[1].control = "Master"
         /\ \A i \in DOMAIN Mixer!Groups(v) :
              Mixer!Groups(v)[i].value = v /\ Mixer!Groups(v)[i].control \in Group
         /\ \A g \in Group : \E i \in DOMAIN Mixer!Groups(v) : Mixer!Groups(v)[i].control = g
  <1> DEFINE s == Mixer!SetToSeq(Group)
  <1>1. s \in Seq(Group) /\ Len(s) \in Nat \ {0} /\ \A g \in Group : \E i \in 1..Len(s) : s[i] = g
    BY GroupSeq
  <1> HIDE DEF s
  <1>2. Mixer!Groups(v) = [i \in 1..Len(s) |-> [control |-> s[i], value |-> v]]
    BY DEF Mixer!Groups, s
  <1>3. Mixer!Groups(v) \in Seq(Mixer!Command)
    <2>1. \A i \in 1..Len(s) : [control |-> s[i], value |-> v] \in Mixer!Command
      BY <1>1 DEF Mixer!Command, Mixer!Control
    <2> QED
      BY <1>1, <1>2, <2>1
  <1>4. Mixer!Master(v) \in Seq(Mixer!Command) /\ Mixer!Master(v) # <<>>
    BY DEF Mixer!Master, Mixer!Command, Mixer!Control
  <1>5. Mixer!Groups(v) # <<>>
    BY <1>1, <1>2
  <1>6. /\ Len(Mixer!Master(v)) = 1 /\ Mixer!Master(v)[1].value = v
        /\ Mixer!Master(v)[1].control = "Master"
    BY DEF Mixer!Master
  <1>7. /\ DOMAIN Mixer!Groups(v) = 1..Len(s)
        /\ \A i \in 1..Len(s) : /\ Mixer!Groups(v)[i].value = v
                               /\ Mixer!Groups(v)[i].control = s[i] /\ s[i] \in Group
    BY <1>1, <1>2
  <1>8. \A g \in Group : \E i \in DOMAIN Mixer!Groups(v) : Mixer!Groups(v)[i].control = g
    BY <1>1, <1>7
  <1> QED
    BY <1>3, <1>4, <1>5, <1>6, <1>7, <1>8

LEMMA MixerStart ==
  ASSUME Mixer!MixerAssumption, Mixer!Init
  PROVE  MixerIInv
  <1> DEFINE G == Mixer!Groups(1)
             M == Mixer!Master(First)
             C == Mixer!Command
  <1>1. First \in 0..Top \cup {0, 1} /\ None \notin 0..Top \cup {0, 1} /\ "Master" \notin Group
    BY DEF Mixer!MixerAssumption
  <1>2. /\ mi_volume = First /\ mi_micsta = 1 /\ mi_jobs = <<>> /\ mi_racing = {}
        /\ mi_mixer = [c \in Mixer!Control |-> None]
        /\ \/ mi_key \in {"off", "read"} /\ mi_todo = <<>> /\ mi_asked = {}
           \/ mi_key = "do" /\ mi_todo = G \o M /\ mi_asked = Mixer!Kind
    BY DEF Mixer!Init
  <1>3. /\ G \in Seq(C) /\ G # <<>> /\ M \in Seq(C) /\ Len(M) = 1 /\ M[1].value = First
        /\ M[1].control = "Master"
        /\ \A i \in DOMAIN G : G[i].value = 1 /\ G[i].control \in Group
        /\ \A g \in Group : \E i \in DOMAIN G : G[i].control = g
    BY <1>1, Commands
  <1> HIDE DEF G, M, C
  <1>4. /\ G \o M \in Seq(C) /\ Len(G \o M) = Len(G) + 1 /\ Len(G) \in Nat /\ Len(G) # 0
        /\ DOMAIN G = 1..Len(G)
        /\ \A i \in 1..Len(G) : (G \o M)[i] = G[i]
        /\ (G \o M)[Len(G) + 1] = M[1]
    <2>1. Len(G) \in Nat /\ Len(G) # 0 /\ DOMAIN G = 1..Len(G)
      BY <1>3
    <2>2. /\ G \o M \in Seq(C) /\ Len(G \o M) = Len(G) + Len(M)
          /\ \A i \in 1..Len(G) + Len(M) :
               (G \o M)[i] = IF i <= Len(G) THEN G[i] ELSE M[i - Len(G)]
      BY <1>3, ConcatProperties
    <2> QED
      BY <1>3, <2>1, <2>2
  <1>5. CASE mi_todo = <<>>
    BY <1>1, <1>2, <1>4, <1>5
    DEF MixerIInv, MixerFollows, Mixer!TypeOK, Mixer!MixerAssumption, Mixer!Kind
  <1>6. CASE mi_todo = G \o M /\ mi_key = "do" /\ mi_asked = Mixer!Kind
    <2>1. mi_todo \in Seq(Mixer!Command) /\ mi_todo # <<>>
      BY <1>4, <1>6 DEF C
    <2>2. ASSUME NEW i \in DOMAIN mi_todo
          PROVE  mi_todo[i].value = Current(Mixer!KindOf(mi_todo[i].control))
      <3>1. i \in 1..Len(G) \/ i = Len(G) + 1
        BY <1>4, <1>6
      <3> QED
        BY <1>1, <1>2, <1>3, <1>4, <1>6, <3>1 DEF Current, Mixer!KindOf
    <2>3. ASSUME NEW c \in Mixer!Control PROVE Pending(c)
      <3>1. CASE c \in Group
        BY <1>3, <1>4, <1>6, <3>1 DEF Pending
      <3>2. CASE c = "Master"
        <4>1. Len(G) + 1 \in DOMAIN mi_todo /\ mi_todo[Len(G) + 1].control = c
          BY <1>3, <1>4, <1>6, <3>2
        <4> QED
          BY <4>1 DEF Pending
      <3> QED
        BY <3>1, <3>2 DEF Mixer!Control
    <2>4. MixerFollows
      BY <1>2, <1>6, <2>1, <2>2, <2>3 DEF MixerFollows
    <2>5. Mixer!TypeOK
      BY <1>1, <1>2, <1>6, <2>1 DEF Mixer!TypeOK, Mixer!MixerAssumption, Mixer!Kind
    <2> QED
      BY <2>4, <2>5 DEF MixerIInv
  <1> QED
    BY <1>2, <1>5, <1>6

\* A key: every control of its kind gets a command with the new value, and
\* those of the other kind had none to be started.
LEMMA MixerAsks ==
  ASSUME Mixer!MixerAssumption, MixerIInv, NEW k \in Mixer!Kind, NEW s \in Seq(Mixer!Command),
         Mixer!Ask(k, s), s # <<>>,
         mi_volume' \in 0..Top, mi_micsta' \in {0, 1},
         \A j \in Mixer!Kind : j # k => Current(j)' = Current(j),
         \A i \in DOMAIN s : /\ s[i].value = Current(k)'
                             /\ Mixer!KindOf(s[i].control) = k,
         \A c \in Mixer!Control : Mixer!KindOf(c) = k => \E i \in DOMAIN s : s[i].control = c
  PROVE  MixerIInv'
  <1>0. Mixer!TypeOK /\ MixerFollows
    BY DEF MixerIInv
  <1>1. /\ mi_key = "read" /\ mi_key' = "do" /\ mi_todo' = s
        /\ mi_asked' = mi_asked \cup {k}
        /\ mi_racing' = IF Mixer!Running(k) THEN mi_racing \cup {k} ELSE mi_racing \ {k}
        /\ mi_jobs' = mi_jobs /\ mi_mixer' = mi_mixer
    BY DEF Mixer!Ask
  <1>2. Mixer!TypeOK'
    BY <1>0, <1>1 DEF Mixer!TypeOK
  <1>3. \A c : Mixer!KindOf(c) \in Mixer!Kind
    BY DEF Mixer!KindOf, Mixer!Kind
  <1>4. mi_todo = <<>>
    BY <1>0, <1>1 DEF MixerFollows
  <1>5. ASSUME NEW i \in DOMAIN mi_jobs, Mixer!KindOf(mi_jobs[i].control) \notin mi_racing'
        PROVE  mi_jobs[i].value = Current(Mixer!KindOf(mi_jobs[i].control))'
    <2>1. Mixer!KindOf(mi_jobs[i].control) # k
      BY <1>1, <1>5 DEF Mixer!Running
    <2>2. mi_jobs[i].value = Current(Mixer!KindOf(mi_jobs[i].control))
      BY <1>0, <1>1, <1>5, <2>1 DEF MixerFollows
    <2> QED
      BY <1>1, <1>3, <2>1, <2>2 DEF Current
  <1>6. ASSUME NEW c \in Mixer!Control, Mixer!KindOf(c) = k
        PROVE  Pending(c)'
    BY <1>1, <1>6 DEF Pending
  <1>7. ASSUME NEW c \in Mixer!Control, Mixer!KindOf(c) # k, Mixer!KindOf(c) \in mi_asked'
        PROVE  /\ Pending(c)' \/ mi_mixer[c] # None
               /\ Mixer!KindOf(c) \notin mi_racing' =>
                    Pending(c)' \/ mi_mixer[c] = Current(Mixer!KindOf(c))'
    <2>1. Pending(c) => Pending(c)'
      BY <1>1, <1>4 DEF Pending
    <2>2. Current(Mixer!KindOf(c))' = Current(Mixer!KindOf(c))
      BY <1>3, <1>7
    <2>3. Mixer!KindOf(c) \in mi_asked /\ (Mixer!KindOf(c) \in mi_racing <=> Mixer!KindOf(c) \in mi_racing')
      BY <1>1, <1>7
    <2> QED
      BY <1>0, <2>1, <2>2, <2>3 DEF MixerFollows
  <1>8. MixerFollows'
    <2>1. (\A i \in DOMAIN mi_todo :
             mi_todo[i].value = Current(Mixer!KindOf(mi_todo[i].control)))'
      BY <1>1
    <2> QED
      BY <1>0, <1>1, <1>5, <1>6, <1>7, <2>1 DEF MixerFollows
  <1> QED
    BY <1>2, <1>8 DEF MixerIInv

LEMMA MixerPress ==
  ASSUME Mixer!MixerAssumption, MixerIInv, Mixer!Press
  PROVE  MixerIInv'
  <1>1. mi_volume \in 0..Top /\ Top \in Nat /\ mi_micsta \in {0, 1}
    BY DEF MixerIInv, Mixer!TypeOK, Mixer!MixerAssumption
  <1>2. \A c \in Mixer!Control : IF c = "Master" THEN Mixer!KindOf(c) = "volume"
                                 ELSE Mixer!KindOf(c) = "mic" /\ c \in Group
    BY DEF Mixer!Control, Mixer!KindOf
  <1>3. "Master" \notin Group
    BY DEF Mixer!MixerAssumption
  <1>4. CASE Mixer!volume_down \/ Mixer!volume_up
    <2>1. mi_volume' \in 0..Top /\ mi_micsta' = mi_micsta
      BY <1>1, <1>4 DEF Mixer!volume_down, Mixer!volume_up
    <2>2. Mixer!Ask("volume", Mixer!Master(mi_volume'))
      BY <1>4 DEF Mixer!volume_down, Mixer!volume_up
    <2> DEFINE s == Mixer!Master(mi_volume')
    <2>3. /\ s \in Seq(Mixer!Command) /\ s # <<>> /\ Len(s) = 1
          /\ s[1].value = mi_volume' /\ s[1].control = "Master"
      BY <2>1, Commands
    <2> HIDE DEF s
    <2>4. "volume" \in Mixer!Kind /\ \A j \in Mixer!Kind : j # "volume" => Current(j)' = Current(j)
      BY <2>1 DEF Mixer!Kind, Current
    <2>5. \A i \in DOMAIN s : s[i].value = Current("volume")' /\ Mixer!KindOf(s[i].control) = "volume"
      BY <2>3 DEF Current, Mixer!KindOf
    <2>6. \A c \in Mixer!Control : Mixer!KindOf(c) = "volume" => \E i \in DOMAIN s : s[i].control = c
      BY <1>2, <2>3
    <2>7. Mixer!Ask("volume", s)
      BY <2>2 DEF s
    <2> QED
      BY <1>1, <2>1, <2>3, <2>4, <2>5, <2>6, <2>7, MixerAsks
  <1>5. CASE Mixer!set_mic_state
    <2>1. mi_micsta' \in {0, 1} /\ mi_volume' = mi_volume
      BY <1>1, <1>5 DEF Mixer!set_mic_state
    <2>2. Mixer!Ask("mic", Mixer!Groups(mi_micsta'))
      BY <1>5 DEF Mixer!set_mic_state
    <2> DEFINE s == Mixer!Groups(mi_micsta')
    <2>3. /\ s \in Seq(Mixer!Command) /\ s # <<>>
          /\ \A i \in DOMAIN s : s[i].value = mi_micsta' /\ s[i].control \in Group
          /\ \A g \in Group : \E i \in DOMAIN s : s[i].control = g
      BY <2>1, Commands
    <2> HIDE DEF s
    <2>4. "mic" \in Mixer!Kind /\ \A j \in Mixer!Kind : j # "mic" => Current(j)' = Current(j)
      BY <2>1 DEF Mixer!Kind, Current
    <2>5. \A i \in DOMAIN s : s[i].value = Current("mic")' /\ Mixer!KindOf(s[i].control) = "mic"
      BY <1>3, <2>3 DEF Current, Mixer!KindOf
    <2>6. \A c \in Mixer!Control : Mixer!KindOf(c) = "mic" => \E i \in DOMAIN s : s[i].control = c
      BY <1>2, <2>3
    <2>7. Mixer!Ask("mic", s)
      BY <2>2 DEF s
    <2> QED
      BY <1>1, <2>1, <2>3, <2>4, <2>5, <2>6, <2>7, MixerAsks
  <1> QED
    BY <1>4, <1>5 DEF Mixer!Press

LEMMA MixerIssue ==
  ASSUME Mixer!MixerAssumption, MixerIInv, Mixer!Issue
  PROVE  MixerIInv'
  <1> DEFINE n == Len(mi_todo)
             m == Len(mi_jobs)
             C == Mixer!Command
  <1>0. Mixer!TypeOK /\ MixerFollows
    BY DEF MixerIInv
  <1>1. /\ mi_key = "do" /\ mi_jobs' = Append(mi_jobs, Head(mi_todo)) /\ mi_todo' = Tail(mi_todo)
        /\ mi_key' = IF n = 1 THEN "read" ELSE "do"
        /\ UNCHANGED <<mi_volume, mi_micsta, mi_mixer, mi_asked, mi_racing>>
    BY DEF Mixer!Issue
  <1>2. /\ mi_todo \in Seq(C) /\ mi_jobs \in Seq(C) /\ n \in Nat /\ n # 0 /\ m \in Nat
        /\ DOMAIN mi_todo = 1..n /\ DOMAIN mi_jobs = 1..m
    BY <1>0, <1>1 DEF MixerFollows
  <1> HIDE DEF C
  <1>3. /\ mi_todo' \in Seq(C) /\ Len(mi_todo') = n - 1 /\ DOMAIN mi_todo' = 1..n - 1
        /\ \A i \in 1..n - 1 : mi_todo'[i] = mi_todo[i + 1]
    BY <1>1, <1>2
  <1>4. /\ mi_jobs' \in Seq(C) /\ Len(mi_jobs') = m + 1 /\ DOMAIN mi_jobs' = 1..m + 1
        /\ mi_jobs'[m + 1] = mi_todo[1] /\ \A i \in 1..m : mi_jobs'[i] = mi_jobs[i]
    BY <1>1, <1>2
  <1>5. Mixer!TypeOK'
    <2>1. \A i \in DOMAIN mi_todo' : mi_todo'[i] \in C
      BY <1>3
    <2>2. \A i \in DOMAIN mi_jobs' : mi_jobs'[i] \in C
      BY <1>4
    <2> QED
      BY <1>0, <1>1, <2>1, <2>2 DEF Mixer!TypeOK, C
  <1>6. \A k : Current(k)' = Current(k)
    BY <1>1 DEF Current
  <1>7. \A c : Pending(c) => Pending(c)'
    <2> SUFFICES ASSUME NEW c, Pending(c) PROVE Pending(c)'
      OBVIOUS
    <2>1. ASSUME NEW i \in 1..m, mi_jobs[i].control = c PROVE Pending(c)'
      <3>1. i \in DOMAIN mi_jobs' /\ mi_jobs'[i].control = c
        BY <1>2, <1>4, <2>1
      <3> QED
        BY <3>1 DEF Pending
    <2>2. ASSUME NEW i \in 1..n, mi_todo[i].control = c PROVE Pending(c)'
      <3>1. CASE i = 1
        <4>1. m + 1 \in DOMAIN mi_jobs' /\ mi_jobs'[m + 1].control = c
          BY <1>2, <1>4, <2>2, <3>1
        <4> QED
          BY <4>1 DEF Pending
      <3>2. CASE i # 1
        <4>1. i - 1 \in 1..n - 1 /\ (i - 1) + 1 = i
          BY <1>2, <3>2
        <4>2. i - 1 \in DOMAIN mi_todo' /\ mi_todo'[i - 1].control = c
          BY <1>3, <2>2, <4>1
        <4> QED
          BY <4>2 DEF Pending
      <3> QED
        BY <3>1, <3>2
    <2> QED
      BY <1>2, <2>1, <2>2 DEF Pending
  <1>8. \A i \in 1..n : mi_todo[i].value = Current(Mixer!KindOf(mi_todo[i].control))
    BY <1>0, <1>2 DEF MixerFollows
  <1>9. (\A i \in DOMAIN mi_todo :
          mi_todo[i].value = Current(Mixer!KindOf(mi_todo[i].control)))'
    <2> SUFFICES ASSUME NEW i \in 1..n - 1
                 PROVE  mi_todo'[i].value = (Current(Mixer!KindOf(mi_todo[i].control)))'
      BY <1>3
    <2>1. i + 1 \in 1..n /\ mi_todo'[i] = mi_todo[i + 1]
      BY <1>2, <1>3
    <2> QED
      BY <1>1, <1>8, <2>1 DEF Current
  <1>10. (\A i \in DOMAIN mi_jobs :
           Mixer!KindOf(mi_jobs[i].control) \notin mi_racing =>
             mi_jobs[i].value = Current(Mixer!KindOf(mi_jobs[i].control)))'
    <2> SUFFICES ASSUME NEW i \in 1..m + 1, Mixer!KindOf(mi_jobs'[i].control) \notin mi_racing
                 PROVE  mi_jobs'[i].value = (Current(Mixer!KindOf(mi_jobs[i].control)))'
      BY <1>1, <1>4
    <2>1. CASE i \in 1..m
      BY <1>0, <1>1, <1>2, <1>4, <2>1 DEF MixerFollows, Current
    <2>2. CASE i = m + 1
      <3>1. mi_jobs'[i] = mi_todo[1] /\ 1 \in 1..n
        BY <1>2, <1>4, <2>2
      <3> QED
        BY <1>1, <1>8, <3>1 DEF Current
    <2> QED
      BY <1>2, <2>1, <2>2
  <1>11. (\A c \in Mixer!Control :
           Mixer!KindOf(c) \in mi_asked =>
             /\ Pending(c) \/ mi_mixer[c] # None
             /\ Mixer!KindOf(c) \notin mi_racing =>
                  Pending(c) \/ mi_mixer[c] = Current(Mixer!KindOf(c)))'
    BY <1>0, <1>1, <1>6, <1>7 DEF MixerFollows
  <1>12. (mi_key = "do" <=> mi_todo # <<>>)'
    <2>1. mi_todo' = <<>> <=> Len(mi_todo') = 0
      BY <1>3
    <2>2. n - 1 = 0 <=> n = 1
      BY <1>2
    <2> QED
      BY <1>1, <1>3, <2>1, <2>2
  <1> QED
    BY <1>3, <1>4, <1>5, <1>9, <1>10, <1>11, <1>12 DEF MixerIInv, MixerFollows, C

\* RemoveAt takes one element out and keeps the others.
LEMMA Removed ==
  ASSUME NEW C, NEW s \in Seq(C), NEW i \in 1..Len(s)
  PROVE  /\ Mixer!RemoveAt(s, i) \in Seq(C) /\ Len(Mixer!RemoveAt(s, i)) = Len(s) - 1
         /\ \A j \in 1..Len(s) - 1 :
              Mixer!RemoveAt(s, i)[j] = IF j < i THEN s[j] ELSE s[j + 1]
  <1> DEFINE a == SubSeq(s, 1, i - 1)
             b == SubSeq(s, i + 1, Len(s))
  <1>1. a \in Seq(C) /\ Len(a) = i - 1 /\ \A j \in 1..i - 1 : a[j] = s[j]
    OBVIOUS
  <1>2. b \in Seq(C) /\ Len(b) = Len(s) - i /\ \A j \in 1..Len(s) - i : b[j] = s[i + j]
    OBVIOUS
  <1>3. Mixer!RemoveAt(s, i) = a \o b
    BY DEF Mixer!RemoveAt
  <1> HIDE DEF a, b
  <1>4. /\ a \o b \in Seq(C) /\ Len(a \o b) = Len(a) + Len(b)
        /\ \A j \in 1..Len(a) + Len(b) :
             (a \o b)[j] = IF j <= Len(a) THEN a[j] ELSE b[j - Len(a)]
    BY <1>1, <1>2, ConcatProperties
  <1>5. ASSUME NEW j \in 1..Len(s) - 1
        PROVE  (a \o b)[j] = IF j < i THEN s[j] ELSE s[j + 1]
    <2>1. CASE j < i
      BY <1>1, <1>2, <1>4, <2>1
    <2>2. CASE ~(j < i)
      <3>1. j - (i - 1) \in 1..Len(s) - i /\ i + (j - (i - 1)) = j + 1 /\ ~(j <= i - 1)
        BY <2>2
      <3>2. (a \o b)[j] = b[j - (i - 1)]
        BY <1>1, <1>2, <1>4, <3>1
      <3>3. b[j - (i - 1)] = s[i + (j - (i - 1))]
        BY <1>2, <3>1
      <3> QED
        BY <2>2, <3>1, <3>2, <3>3
    <2> QED
      BY <2>1, <2>2
  <1> QED
    BY <1>1, <1>2, <1>3, <1>4, <1>5

LEMMA MixerEffect ==
  ASSUME Mixer!MixerAssumption, MixerIInv, NEW i \in 1..MaxJobs, Mixer!Effect(i)
  PROVE  MixerIInv'
  <1> DEFINE m == Len(mi_jobs)
             C == Mixer!Command
             d == mi_jobs[i].control
             v == mi_jobs[i].value
  <1>0. Mixer!TypeOK /\ MixerFollows
    BY DEF MixerIInv
  <1>1. /\ i \in DOMAIN mi_jobs /\ mi_jobs' = Mixer!RemoveAt(mi_jobs, i)
        /\ mi_mixer' = [mi_mixer EXCEPT ![d] = v]
        /\ UNCHANGED <<mi_key, mi_volume, mi_micsta, mi_todo, mi_asked, mi_racing>>
    BY DEF Mixer!Effect
  <1>2. /\ mi_jobs \in Seq(C) /\ m \in Nat /\ DOMAIN mi_jobs = 1..m /\ i \in 1..m
    BY <1>0, <1>1 DEF MixerFollows
  <1>3. d \in Mixer!Control /\ v \in 0..Top \cup {0, 1} /\ v # None
    <2>1. mi_jobs[i] \in C
      BY <1>2
    <2> QED
      BY <2>1 DEF Mixer!Command, Mixer!MixerAssumption
  <1>4. /\ mi_jobs' \in Seq(C) /\ Len(mi_jobs') = m - 1 /\ DOMAIN mi_jobs' = 1..m - 1
        /\ \A j \in 1..m - 1 : mi_jobs'[j] = IF j < i THEN mi_jobs[j] ELSE mi_jobs[j + 1]
    <2> HIDE DEF C
    <2>1. Len(mi_jobs') = m - 1 /\ mi_jobs' \in Seq(C)
      BY <1>1, <1>2, Removed
    <2>2. \A j \in 1..m - 1 : mi_jobs'[j] = IF j < i THEN mi_jobs[j] ELSE mi_jobs[j + 1]
      BY <1>1, <1>2, Removed
    <2> QED
      BY <2>1, <2>2
  <1>5. \A c \in Mixer!Control : mi_mixer'[c] = IF c = d THEN v ELSE mi_mixer[c]
    BY <1>0, <1>1 DEF Mixer!TypeOK
  <1> HIDE DEF C
  <1>6. Mixer!TypeOK'
    <2>1. \A j \in DOMAIN mi_jobs' : mi_jobs'[j] \in C
      BY <1>4
    <2>2. mi_mixer' \in [Mixer!Control -> 0..Top \cup {0, 1, None}]
      BY <1>0, <1>1, <1>3 DEF Mixer!TypeOK
    <2> QED
      BY <1>0, <1>1, <2>1, <2>2 DEF Mixer!TypeOK, C
  <1>7. \A j \in 1..m - 1 : \E l \in 1..m : mi_jobs'[j] = mi_jobs[l]
    BY <1>2, <1>4
  <1>8. ASSUME NEW c, c # d, Pending(c) PROVE Pending(c)'
    <2>1. ASSUME NEW l \in 1..m, mi_jobs[l].control = c PROVE Pending(c)'
      <3>1. l # i
        BY <1>8, <2>1
      <3>2. CASE l < i
        <4>1. l \in 1..m - 1 /\ mi_jobs'[l] = mi_jobs[l]
          BY <1>2, <1>4, <3>2
        <4> QED
          BY <1>4, <2>1, <4>1 DEF Pending
      <3>3. CASE l > i
        <4>1. l - 1 \in 1..m - 1 /\ ~(l - 1 < i) /\ (l - 1) + 1 = l
          BY <1>2, <3>3
        <4>2. mi_jobs'[l - 1] = mi_jobs[l]
          BY <1>4, <4>1
        <4> QED
          BY <1>4, <2>1, <4>1, <4>2 DEF Pending
      <3> QED
        BY <1>2, <3>1, <3>2, <3>3
    <2> QED
      BY <1>1, <1>2, <1>8, <2>1 DEF Pending
  <1>9. (\A j \in DOMAIN mi_jobs :
          Mixer!KindOf(mi_jobs[j].control) \notin mi_racing =>
            mi_jobs[j].value = Current(Mixer!KindOf(mi_jobs[j].control)))'
    <2> SUFFICES ASSUME NEW j \in 1..m - 1, Mixer!KindOf(mi_jobs'[j].control) \notin mi_racing
                 PROVE  mi_jobs'[j].value = (Current(Mixer!KindOf(mi_jobs[j].control)))'
      BY <1>1, <1>4
    <2>1. PICK l \in 1..m : mi_jobs'[j] = mi_jobs[l]
      BY <1>7
    <2> QED
      BY <1>0, <1>1, <1>2, <2>1 DEF MixerFollows, Current
  <1>10. (\A c \in Mixer!Control :
           Mixer!KindOf(c) \in mi_asked =>
             /\ Pending(c) \/ mi_mixer[c] # None
             /\ Mixer!KindOf(c) \notin mi_racing =>
                  Pending(c) \/ mi_mixer[c] = Current(Mixer!KindOf(c)))'
    <2> SUFFICES ASSUME NEW c \in Mixer!Control, Mixer!KindOf(c) \in mi_asked
                 PROVE  /\ Pending(c)' \/ mi_mixer'[c] # None
                        /\ Mixer!KindOf(c) \notin mi_racing =>
                             Pending(c)' \/ mi_mixer'[c] = Current(Mixer!KindOf(c))'
      BY <1>1
    <2>1. Current(Mixer!KindOf(c))' = Current(Mixer!KindOf(c))
      BY <1>1 DEF Current
    <2>2. CASE c = d
      <3>1. mi_mixer'[c] = v
        BY <1>5, <2>2
      <3>2. Mixer!KindOf(c) \notin mi_racing => v = Current(Mixer!KindOf(c))
        BY <1>0, <1>1, <2>2 DEF MixerFollows
      <3> QED
        BY <1>3, <2>1, <3>1, <3>2
    <2>3. CASE c # d
      <3>1. mi_mixer'[c] = mi_mixer[c] /\ (Pending(c) => Pending(c)')
        BY <1>5, <1>8, <2>3
      <3> QED
        BY <1>0, <2>1, <3>1 DEF MixerFollows
    <2> QED
      BY <2>2, <2>3
  <1> QED
    BY <1>0, <1>1, <1>4, <1>6, <1>9, <1>10 DEF MixerIInv, MixerFollows, C, Current

\* When no command is to be started or runs, what was asked for is there.
LEMMA MixerSettles == MixerIInv => MixerInv
  <1> SUFFICES ASSUME MixerIInv PROVE Mixer!Believed /\ Mixer!NoneUnset
    BY DEF MixerInv, Mixer!MixerInv, MixerIInv
  <1>1. ASSUME NEW k \in Mixer!Kind, Mixer!Settled(k), NEW c \in Mixer!Control,
               Mixer!KindOf(c) = k
        PROVE  mi_mixer[c] # None /\ (k \notin mi_racing => mi_mixer[c] = Current(k))
    <2>1. ~Pending(c)
      BY <1>1 DEF Mixer!Settled, Mixer!Running, Pending, MixerIInv, MixerFollows
    <2> QED
      BY <1>1, <2>1 DEF Mixer!Settled, MixerIInv, MixerFollows
  <1>2. Mixer!NoneUnset
    BY <1>1 DEF Mixer!NoneUnset
  <1>3. "Master" \in Mixer!Control /\ Mixer!KindOf("Master") = "volume"
    BY DEF Mixer!Control, Mixer!KindOf
  <1>4. \A g \in Group : g # "Master" => g \in Mixer!Control /\ Mixer!KindOf(g) = "mic"
    BY DEF Mixer!Control, Mixer!KindOf
  <1>5. "Master" \notin Group
    BY ProgramsAssumption DEF Mixer!MixerAssumption
  <1>6. Mixer!Believed
    BY <1>1, <1>3, <1>4, <1>5 DEF Mixer!Believed, Mixer!Kind, Current
  <1> QED
    BY <1>2, <1>6

\* With no command running the mixer is as the program believes, unless keys
\* came too fast, and never as it was before, for any controls and values
\* (key.c:27-85).
THEOREM MixerSafe == Spec => []MixerInv
  <1>1. Mixer!MixerAssumption
    BY ProgramsAssumption
  <1>2. Init => MixerIInv
    BY <1>1, MixerStart DEF Init
  <1>3. MixerIInv /\ [Next]_vars => MixerIInv'
    <2> SUFFICES ASSUME MixerIInv, [Mixer!Next]_Mixer!vars PROVE MixerIInv'
      BY Steps
    <2>1. CASE UNCHANGED Mixer!vars
      BY <2>1 DEF Mixer!vars, MixerIInv, Mixer!TypeOK, MixerFollows, Pending, Current
    <2> QED
      BY <1>1, <2>1, MixerPress, MixerIssue, MixerEffect DEF Mixer!Next
  <1> QED
    BY <1>2, <1>3, MixerSettles, PTL DEF Spec

=============================================================================
