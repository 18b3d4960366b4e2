---------------------------- MODULE AecServerProofs ----------------------------
(***************************************************************************)
(* Proofs about AecServer, for any clients of the two ports: what a lone   *)
(* player hears, what the engines' threads find, and who uses the PCM      *)
(* devices.  The lemmas are about the steps; ProgramsProofs puts them      *)
(* together for the specification that is run.                             *)
(***************************************************************************)
EXTENDS AecServer, FiniteSetTheorems, TLAPS

-----------------------------------------------------------------------------
(* What the properties need to be inductive *)

\* A worker of one port never gets into the code of the other, and until its
\* client is accepted a connection has no worker.
Kinds ==
  \A w \in Conn :
    /\ work[w] \in {"load", "register", "alloc", "feed"} => w \in SendConn
    /\ work[w] \in {"recv", "recving", "clear"} => w \in RecvConn
    /\ peer[w] = "new" \/ w \in backlog => work[w] = "none"
    /\ w \in backlog => peer[w] # "new"

\* Whatever a later accept stores in a client_fd, it is a client of the same
\* port; the workers that read it find one there.
Descriptors ==
  /\ client_fd["send"] \in SendConn \cup {None}
  /\ client_fd["recv"] \in RecvConn \cup {None}
  /\ \A w \in Conn : work[w] # "none" => client_fd[PortOf(w)] # None
  /\ \A w \in RecvConn : work[w] \notin {"none", "start"} => fd[w] \in RecvConn

\* The first recording worker sets the global client_fd before it loads the
\* engine, and allocates send_buf before it feeds the engine.
Recording ==
  \A w \in SendConn :
    /\ work[w] \notin {"none", "start"} => global_fd \in SendConn
    /\ work[w] \in {"lock", "pcm", "feed"} => send_buf = "yes"

Alone(w) == Started \cap RecvConn = {w}

\* Nobody else has replaced the buffer of a lone player.
OwnBuffer ==
  \A w \in RecvConn :
    Alone(w) => /\ work[w] # "open" => recv_buf = w
                /\ work[w] = "recving" => into[w] = w

\* While the mutex was never initialised in use, its users are its owner.
Owner == broken = "no" => \A w \in InPcm : mutex_audio = w

Core == TypeOK /\ Kinds /\ Descriptors /\ Recording

\* The types need CallbackReady: send_audio adds the global client_fd to heard.
IInv == Core /\ CallbackReady

SafeInv == IInv /\ OwnBuffer /\ PlaysOwn /\ ClearedBefore /\ Owner

-----------------------------------------------------------------------------
(* The beginning and the end *)

\* Nobody is started at the beginning or after exit(): all of it holds.
LEMMA SafeInit == AecAssumption /\ Init => SafeInv
  <1> SUFFICES ASSUME AecAssumption, Init PROVE SafeInv
    OBVIOUS
  <1> USE DEF AecAssumption, Init, Conn, Port
  <1>1. TypeOK
    BY DEF TypeOK
  <1>2. Kinds /\ Descriptors /\ Recording
    BY DEF Kinds, Descriptors, Recording, PortOf
  <1>3. Started = {} /\ InPcm = {}
    BY DEF Started, InPcm
  <1>4. OwnBuffer /\ PlaysOwn /\ ClearedBefore /\ Owner
    BY <1>3 DEF OwnBuffer, PlaysOwn, ClearedBefore, Owner, Alone
  <1> QED
    BY <1>1, <1>2, <1>4 DEF SafeInv, IInv, Core, CallbackReady

LEMMA SafeExit == AecAssumption /\ TypeOK /\ Exit => SafeInv'
  <1> SUFFICES ASSUME AecAssumption, TypeOK, Exit PROVE SafeInv'
    OBVIOUS
  <1> USE DEF AecAssumption, Exit, Conn, Port
  <1>1. TypeOK'
    BY DEF TypeOK
  <1>2. Kinds' /\ Descriptors' /\ Recording'
    BY DEF Kinds, Descriptors, Recording, PortOf
  <1>3. Started' = {} /\ InPcm' = {}
    BY DEF Started, InPcm
  <1>4. OwnBuffer' /\ PlaysOwn' /\ ClearedBefore' /\ Owner'
    BY <1>3 DEF OwnBuffer, PlaysOwn, ClearedBefore, Owner, Alone
  <1> QED
    BY <1>1, <1>2, <1>4 DEF SafeInv, IInv, Core, CallbackReady

-----------------------------------------------------------------------------
(* Steps *)

\* A step of a worker, as a function of the control points.
LEMMA Goes ==
  ASSUME TypeOK, NEW w \in Conn, NEW a, NEW b, WorkGoto(w, a, b)
  PROVE  work[w] = a /\ \A v \in Conn : work'[v] = IF v = w THEN b ELSE work[v]
  BY DEF TypeOK, WorkGoto

LEMMA CoreStep ==
  ASSUME AecAssumption, IInv, [Next]_vars
  PROVE  Core'
  <1>0. TypeOK /\ Kinds /\ Descriptors /\ Recording
    BY DEF IInv, Core
  <1> USE <1>0 DEF AecAssumption, Port, Conn, PortOf, nets, locks, plays, voices
  <1>1. CASE UNCHANGED vars
    BY <1>1 DEF vars, Core, TypeOK, Kinds, Descriptors, Recording
  <1>2. CASE Exit
    BY <1>2, SafeExit DEF SafeInv, IInv
  <1>3. ASSUME NEW p \in Port, Listen(p) PROVE Core'
    BY <1>3 DEF Listen, Core, TypeOK, Kinds, Descriptors, Recording
  <1>4. ASSUME NEW c \in Conn, Accept(c) PROVE Core'
    <2>1. TypeOK'
      BY <1>4 DEF Accept, TypeOK
    <2>2. Kinds'
      BY <1>4 DEF Accept, TypeOK, Kinds
    <2>3. Descriptors'
      BY <1>4 DEF Accept, TypeOK, Kinds, Descriptors
    <2>4. Recording'
      BY <1>4 DEF Accept, TypeOK, Recording
    <2> QED
      BY <2>1, <2>2, <2>3, <2>4 DEF Core
  <1>5. ASSUME NEW w \in Conn, Connect(w) \/ Leave(w) PROVE Core'
    <2>1. TypeOK'
      BY <1>5 DEF Connect, Leave, TypeOK
    <2>2. Kinds'
      BY <1>5 DEF Connect, Leave, TypeOK, Kinds
    <2> QED
      BY <1>5, <2>1, <2>2 DEF Connect, Leave, Core, Descriptors, Recording
  <1>6. ASSUME NEW w \in Conn, RecvStart(w) \/ RecvOpen(w) \/ Recv(w) \/ Clear(w) PROVE Core'
    <2>1. TypeOK'
      BY <1>6 DEF RecvStart, RecvOpen, Recv, Clear, WorkGoto, TypeOK, Descriptors
    <2>2. Kinds'
      BY <1>6 DEF RecvStart, RecvOpen, Recv, Clear, WorkGoto, TypeOK, Kinds
    <2>3. Descriptors'
      BY <1>6 DEF RecvStart, RecvOpen, Recv, Clear, WorkGoto, TypeOK, Kinds, Descriptors
    <2>4. Recording'
      BY <1>6 DEF RecvStart, RecvOpen, Recv, Clear, WorkGoto, TypeOK, Kinds, Recording
    <2> QED
      BY <2>1, <2>2, <2>3, <2>4 DEF Core
  <1>7. ASSUME NEW w \in Conn, Lock(w) \/ Unlock(w) PROVE Core'
    <2>1. TypeOK'
      BY <1>7 DEF Lock, Unlock, WorkGoto, TypeOK
    <2>2. Kinds'
      BY <1>7 DEF Lock, Unlock, WorkGoto, TypeOK, Kinds
    <2>3. Descriptors'
      BY <1>7 DEF Lock, Unlock, WorkGoto, TypeOK, Descriptors
    <2>4. Recording'
      BY <1>7 DEF Lock, Unlock, WorkGoto, TypeOK, Recording
    <2> QED
      BY <2>1, <2>2, <2>3, <2>4 DEF Core
  <1>8. ASSUME NEW w \in Conn,
               SendStart(w) \/ SendOpen(w) \/ Register(w) \/ Alloc(w) \/ Feed(w)
        PROVE  Core'
    <2>1. TypeOK'
      <3>1. CASE SendStart(w) \/ SendOpen(w) \/ Alloc(w)
        BY <3>1 DEF SendStart, SendOpen, Alloc, WorkGoto, TypeOK, Descriptors
      <3>2. CASE Register(w)
        BY <3>2 DEF Register, WorkGoto, TypeOK
      <3>3. CASE Feed(w)
        BY <3>3 DEF Feed, WorkGoto, TypeOK
      <3> QED
        BY <1>8, <3>1, <3>2, <3>3
    <2>2. Kinds'
      BY <1>8 DEF SendStart, SendOpen, Register, Alloc, Feed, WorkGoto, TypeOK, Kinds
    <2>3. Descriptors'
      BY <1>8 DEF SendStart, SendOpen, Register, Alloc, Feed, WorkGoto, TypeOK, Kinds,
                  Descriptors
    <2>4. Recording'
      BY <1>8 DEF SendStart, SendOpen, Register, Alloc, Feed, WorkGoto, TypeOK, Kinds,
                  Descriptors, Recording
    <2> QED
      BY <2>1, <2>2, <2>3, <2>4 DEF Core
  <1>9. ASSUME NEW w \in Conn, Load(w), ~Exit PROVE Core'
    <2>1. TypeOK'
      BY <1>9 DEF Load, WorkGoto, TypeOK, Kinds
    <2>2. Kinds' /\ Descriptors' /\ Recording'
      BY <1>9 DEF Load, WorkGoto, TypeOK, Kinds, Descriptors, Recording
    <2> QED
      BY <2>1, <2>2 DEF Core
  <1>10. ASSUME NEW w \in RecvConn, RecvReturn(w) PROVE Core'
    <2>1. TypeOK'
      BY <1>10 DEF RecvReturn, WorkGoto, TypeOK, Descriptors
    <2>2. Kinds' /\ Descriptors' /\ Recording'
      BY <1>10 DEF RecvReturn, WorkGoto, TypeOK, Kinds, Descriptors, Recording
    <2> QED
      BY <2>1, <2>2 DEF Core
  <1>11. ASSUME NEW e \in SendConn, Callback(e) \/ send_audio(e), ~Exit PROVE Core'
    <2>1. TypeOK'
      BY <1>11 DEF Callback, send_audio, TypeOK, IInv, CallbackReady
    <2> QED
      BY <1>11, <2>1 DEF Callback, send_audio, Core, Kinds, Descriptors, Recording
  <1> QED
    BY <1>1, <1>2, <1>3, <1>4, <1>5, <1>6, <1>7, <1>8, <1>9, <1>10, <1>11
    DEF Next, Serve, Engines, Runs, ListenFails, OpenFails

\* What a lone player finds in recv_buf: only its own steps can have changed
\* it, since nobody else has started.
LEMMA PlayStep ==
  ASSUME AecAssumption, IInv, OwnBuffer, PlaysOwn, ClearedBefore, Next, ~Exit
  PROVE  (OwnBuffer /\ PlaysOwn /\ ClearedBefore)'
  <1>0. TypeOK /\ Kinds /\ Descriptors
    BY DEF IInv, Core
  <1> USE DEF AecAssumption, PortOf, nets, plays, voices
  <1>1. SUFFICES ASSUME NEW w \in RecvConn, Alone(w)'
                 PROVE  /\ work'[w] # "open" => recv_buf' = w
                        /\ work'[w] = "recving" => into'[w] = w
                        /\ work'[w] \in {"lock", "pcm"} => holds'[recv_buf'] = fd'[w]
                        /\ work'[w] \in {"recv", "recving"} => holds'[recv_buf'] = None
    BY DEF OwnBuffer, PlaysOwn, ClearedBefore, Alone
  <1>2. /\ work'[w] \notin {"none", "start"} /\ w \in Conn
        /\ \A v \in RecvConn : v # w => work'[v] \in {"none", "start"}
    BY <1>1 DEF Alone, Started, Conn
  <1>3. ASSUME work[w] \notin {"none", "start"},
               \A v \in RecvConn : v # w => work[v] \in {"none", "start"}
        PROVE  Alone(w)
    BY <1>2, <1>3 DEF Alone, Started, Conn
  <1>4. /\ Alone(w) /\ work[w] # "open" => recv_buf = w
        /\ Alone(w) /\ work[w] = "recving" => into[w] = w
        /\ Alone(w) /\ work[w] \in {"lock", "pcm"} => holds[recv_buf] = fd[w]
        /\ Alone(w) /\ work[w] \in {"recv", "recving"} => holds[recv_buf] = None
    BY DEF OwnBuffer, PlaysOwn, ClearedBefore, Alone
  <1>5. ASSUME UNCHANGED <<recv_buf, into, holds, fd>>,
               \A v \in RecvConn : work'[v] # work[v] => work[v] = "none" /\ work'[v] = "start"
        PROVE  /\ work'[w] # "open" => recv_buf' = w
               /\ work'[w] = "recving" => into'[w] = w
               /\ work'[w] \in {"lock", "pcm"} => holds'[recv_buf'] = fd'[w]
               /\ work'[w] \in {"recv", "recving"} => holds'[recv_buf'] = None
    <2>1. work'[w] = work[w]
      BY <1>2, <1>5
    <2>2. Alone(w)
      BY <1>2, <1>3, <1>5, <2>1
    <2> QED
      BY <1>4, <1>5, <2>1, <2>2
  <1>6. CASE \E p \in Port : Listen(p)
    BY <1>5, <1>6 DEF Listen
  <1>7. ASSUME NEW c \in Conn, Accept(c)
        PROVE  \A v \in RecvConn : work'[v] # work[v] => work[v] = "none" /\ work'[v] = "start"
    <2>1. work[c] = "none" /\ \A v \in Conn : work'[v] = IF v = c THEN "start" ELSE work[v]
      BY <1>0, <1>7 DEF Accept, TypeOK, Kinds
    <2> QED
      BY <2>1 DEF Conn
  <1>8. CASE Engines
    BY <1>5, <1>8 DEF Engines, Callback, send_audio
  <1>9. ASSUME NEW v \in Conn, Connect(v) \/ Leave(v)
        PROVE  UNCHANGED <<recv_buf, into, holds, fd, work>>
    BY <1>9 DEF Connect, Leave
  <1>10. ASSUME NEW v \in Conn, v \notin RecvConn, Runs(v) \/ Lock(v)
         PROVE  /\ UNCHANGED <<recv_buf, into, holds, fd>>
                /\ \A u \in RecvConn : work'[u] = work[u]
    <2>1. /\ UNCHANGED <<recv_buf, into, holds, fd>>
          /\ \E a, b : WorkGoto(v, a, b)
      BY <1>0, <1>10 DEF Runs, RecvStart, RecvOpen, Recv, Unlock, Clear, SendStart, SendOpen,
                         Load, Register, Alloc, Feed, Lock, WorkGoto, Kinds
    <2> QED
      BY <1>0, <1>10, <2>1, Goes DEF Conn
  <1>11. ASSUME NEW v \in RecvConn, v # w, Runs(v) \/ Lock(v) \/ RecvReturn(v)
         PROVE  /\ UNCHANGED <<recv_buf, into, holds, fd>>
                /\ work' = work
    <2>1. v \in Conn /\ work'[v] \in {"none", "start"}
      BY <1>2, <1>11 DEF Conn
    <2> QED
      BY <1>0, <1>11, <2>1
      DEF Runs, RecvStart, RecvOpen, Recv, Unlock, Clear, SendStart, SendOpen, Load,
          Register, Alloc, Feed, Lock, RecvReturn, WorkGoto, TypeOK
  <1>12. ASSUME Runs(w) \/ Lock(w) \/ RecvReturn(w)
         PROVE  /\ work'[w] # "open" => recv_buf' = w
                /\ work'[w] = "recving" => into'[w] = w
                /\ work'[w] \in {"lock", "pcm"} => holds'[recv_buf'] = fd'[w]
                /\ work'[w] \in {"recv", "recving"} => holds'[recv_buf'] = None
    <2>1. work[w] = "start" => RecvStart(w)
      BY <1>12 DEF Runs, RecvStart, RecvOpen, Recv, Unlock, Clear, SendStart, SendOpen, Load,
          Register, Alloc, Feed, Lock, RecvReturn, WorkGoto
    <2>2. CASE RecvStart(w)
      BY <1>0, <1>2, <2>2, Goes DEF RecvStart
    <2>3. CASE ~RecvStart(w)
      <3>1. \E a, b : WorkGoto(w, a, b) /\ a \notin {"none", "start"}
        BY <1>12, <2>3 DEF Runs, RecvStart, RecvOpen, Recv, Unlock, Clear, SendStart, SendOpen,
          Load, Register, Alloc, Feed, Lock, RecvReturn
      <3>2. Alone(w)
        BY <1>0, <1>2, <1>3, <3>1, Goes DEF Conn
      <3>3. CASE RecvOpen(w)
        BY <1>0, <1>2, <3>3 DEF RecvOpen, WorkGoto, TypeOK
      <3>4. CASE Recv(w)
        BY <1>0, <1>2, <1>4, <3>2, <3>4 DEF Recv, WorkGoto, TypeOK
      <3>5. CASE Unlock(w) \/ Lock(w)
        BY <1>0, <1>2, <1>4, <3>2, <3>5 DEF Lock, Unlock, WorkGoto, TypeOK
      <3>6. CASE Clear(w)
        BY <1>0, <1>2, <1>4, <3>2, <3>6 DEF Clear, WorkGoto, TypeOK
      <3>7. CASE RecvReturn(w)
        BY <1>0, <1>2, <1>4, <3>2, <3>7 DEF RecvReturn, WorkGoto, TypeOK
      <3>8. ~(SendStart(w) \/ SendOpen(w) \/ Load(w) \/ Register(w) \/ Alloc(w) \/ Feed(w))
        BY <1>0, <1>2 DEF SendStart, SendOpen, Load, Register, Alloc, Feed, WorkGoto, Kinds
      <3> QED
        BY <1>12, <2>3, <3>3, <3>4, <3>5, <3>6, <3>7, <3>8 DEF Runs
    <2> QED
      BY <2>2, <2>3
  <1> QED
    BY <1>5, <1>6, <1>7, <1>8, <1>9, <1>10, <1>11, <1>12
    DEF Next, Serve, ListenFails, OpenFails, Accept, Conn

\* The engine is fed by a worker that has allocated send_buf, and its client
\* is in the global client_fd, if not a later one of the same port.
LEMMA ReadyStep ==
  ASSUME AecAssumption, IInv, [Next]_vars
  PROVE  CallbackReady'
  <1>0. TypeOK /\ Kinds /\ Descriptors /\ Recording /\ CallbackReady
    BY DEF IInv, Core
  <1> USE <1>0 DEF AecAssumption, voices
  <1>1. ASSUME NEW w \in Conn, SendStart(w) PROVE CallbackReady'
    BY <1>1 DEF SendStart, WorkGoto, Descriptors, PortOf, CallbackReady
  <1>2. ASSUME NEW w \in Conn, Feed(w) PROVE CallbackReady'
    BY <1>2 DEF Feed, WorkGoto, TypeOK, Kinds, Recording, CallbackReady
  <1>3. ASSUME NEW w \in Conn, Load(w), ~Exit PROVE CallbackReady'
    BY <1>3 DEF Load, WorkGoto, TypeOK, CallbackReady
  <1>4. ASSUME NEW w \in Conn, Register(w) \/ Alloc(w) PROVE CallbackReady'
    BY <1>4 DEF Register, Alloc, TypeOK, CallbackReady
  <1>5. ASSUME Engines, ~Exit PROVE CallbackReady'
    BY <1>5 DEF Engines, Callback, send_audio, TypeOK, CallbackReady
  <1>6. ASSUME UNCHANGED voices PROVE CallbackReady'
    BY <1>6 DEF CallbackReady
  <1>7. CASE Exit
    BY <1>7, SafeExit DEF SafeInv, IInv
  <1>8. CASE UNCHANGED vars \/ Serve
    BY <1>6, <1>8 DEF vars, Serve, Listen, Accept
  <1>9. ASSUME NEW w \in Conn,
               RecvStart(w) \/ RecvOpen(w) \/ Recv(w) \/ Unlock(w) \/ Clear(w) \/ SendOpen(w)
               \/ Lock(w) \/ Connect(w) \/ Leave(w) \/ RecvReturn(w)
        PROVE  CallbackReady'
    BY <1>6, <1>9 DEF RecvStart, RecvOpen, Recv, Unlock, Clear, SendOpen, Lock, Connect, Leave,
                      RecvReturn
  <1> QED
    BY <1>1, <1>2, <1>3, <1>4, <1>5, <1>7, <1>8, <1>9
    DEF Next, Runs, ListenFails, OpenFails, Conn

\* The mutex: lock takes it from nobody, and unlock leaves no user behind.
LEMMA OwnerStep ==
  ASSUME AecAssumption, IInv, Owner, [Next]_vars
  PROVE  Owner'
  <1>0. TypeOK /\ Kinds
    BY DEF IInv, Core
  <1> USE <1>0 DEF AecAssumption, locks
  <1>1. ASSUME NEW p \in Port, Listen(p) PROVE Owner'
    BY <1>1 DEF Listen, Owner, InPcm, TypeOK
  <1>2. ASSUME NEW w \in Conn, Lock(w) \/ Unlock(w) PROVE Owner'
    BY <1>2 DEF Lock, Unlock, WorkGoto, Owner, InPcm, TypeOK
  <1>3. ASSUME InPcm' \subseteq InPcm, UNCHANGED locks PROVE Owner'
    BY <1>3 DEF Owner
  <1>4. CASE Exit
    BY <1>4, SafeExit DEF SafeInv
  <1>5. ASSUME NEW w \in Conn,
               RecvStart(w) \/ RecvOpen(w) \/ Recv(w) \/ Clear(w) \/ SendStart(w) \/ SendOpen(w)
               \/ Load(w) \/ Register(w) \/ Alloc(w) \/ Feed(w) \/ RecvReturn(w), ~Exit
        PROVE  Owner'
    BY <1>3, <1>5 DEF RecvStart, RecvOpen, Recv, Clear, SendStart, SendOpen, Load, Register,
                      Alloc, Feed, RecvReturn, WorkGoto, InPcm, TypeOK
  <1>6. ASSUME NEW w \in Conn, Accept(w) \/ Connect(w) \/ Leave(w) PROVE Owner'
    BY <1>3, <1>6 DEF Accept, Connect, Leave, InPcm, TypeOK
  <1>7. ASSUME UNCHANGED vars \/ Engines, ~Exit PROVE Owner'
    BY <1>3, <1>7 DEF vars, Engines, Callback, send_audio, InPcm
  <1> QED
    BY <1>1, <1>2, <1>4, <1>5, <1>6, <1>7
    DEF Next, Serve, Runs, ListenFails, OpenFails, Conn

LEMMA OwnerExclusive == AecAssumption /\ Owner => PcmExclusive
  <1> SUFFICES ASSUME Owner, broken = "no"
               PROVE  Cardinality(InPcm) <= 1 /\ \A w \in InPcm : mutex_audio = w
    BY DEF PcmExclusive
  <1>1. InPcm \subseteq {mutex_audio}
    BY DEF Owner
  <1>2. IsFiniteSet({mutex_audio}) /\ Cardinality({mutex_audio}) = 1
    BY FS_Singleton
  <1>3. Cardinality(InPcm) <= Cardinality({mutex_audio})
    BY <1>1, <1>2, FS_Subset
  <1> QED
    BY <1>2, <1>3 DEF Owner

-----------------------------------------------------------------------------
(* What a run keeps *)

LEMMA SafeStep == AecAssumption /\ SafeInv /\ [Next]_vars => SafeInv'
  <1> SUFFICES ASSUME AecAssumption, SafeInv, [Next]_vars PROVE SafeInv'
    OBVIOUS
  <1>1. Core' /\ CallbackReady' /\ Owner'
    BY CoreStep, ReadyStep, OwnerStep DEF SafeInv
  <1>2. CASE Exit
    BY <1>2, SafeExit DEF SafeInv, IInv, Core
  <1>3. CASE UNCHANGED vars
    <2>1. (OwnBuffer /\ PlaysOwn /\ ClearedBefore)'
      BY <1>3 DEF SafeInv, vars, plays, OwnBuffer, PlaysOwn, ClearedBefore, Alone, Started
    <2> QED
      BY <1>1, <2>1 DEF SafeInv, IInv
  <1>4. CASE Next /\ ~Exit
    BY <1>1, <1>4, PlayStep DEF SafeInv, IInv
  <1> QED
    BY <1>2, <1>3, <1>4

LEMMA SafeImplies == AecAssumption /\ SafeInv => Inv /\ PcmExclusive
  BY OwnerExclusive DEF SafeInv, IInv, Core, Inv

=============================================================================
