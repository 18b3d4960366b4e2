--------------------------- MODULE VoipAudioProofs ---------------------------
(***************************************************************************)
(* Proofs about VoipAudio, for any clients, any descriptor numbers and any *)
(* bound on clients: the invariant Inv that the sharing of descriptors     *)
(* leaves intact, that two numbers are enough, and that the PCM devices    *)
(* have the users PcmExclusive allows.  The lemmas are about the steps;    *)
(* ProgramsProofs puts them together for the specification that is run.    *)
(***************************************************************************)
EXTENDS VoipAudio, FiniteSetTheorems, TLAPS

-----------------------------------------------------------------------------
(* Types *)

LEMMA TypeInit == VoipAssumption /\ Init => TypeOK
  BY DEF VoipAssumption, Init, TypeOK, SrvPc, WorkPc, NoFd, Port

LEMMA TypeExit == VoipAssumption /\ Exit => TypeOK'
  BY DEF VoipAssumption, Exit, TypeOK, SrvPc, WorkPc, NoFd, Port

LEMMA TypeServers ==
  ASSUME VoipAssumption, TypeOK, OpenPcm \/ Fails \/ \E p \in Port : Server(p)
  PROVE  TypeOK'
  <1> USE DEF VoipAssumption, TypeOK, Port, SrvPc, srvs, works, locks, SrvGoto, NoFd
  <1>1. CASE OpenPcm
    BY <1>1, TypeExit DEF OpenPcm, dz_set_params
  <1>2. CASE RecvStartFails \/ ListenFails
    BY <1>2, TypeExit DEF RecvStartFails, ListenFails
  <1>3. ASSUME NEW p \in Port, AcceptFails(p) PROVE TypeOK'
    BY <1>3, TypeExit DEF AcceptFails
  <1>4. CASE SendStart \/ Listen
    BY <1>4 DEF SendStart, Listen
  <1>5. CASE RecvStart
    BY <1>5 DEF RecvStart
  <1>6. ASSUME NEW p \in Port, Prior(p) PROVE TypeOK'
    BY <1>6 DEF Prior
  <1>7. ASSUME NEW p \in Port, Clear(p) PROVE TypeOK'
    BY <1>7 DEF Clear
  <1>8. ASSUME NEW p \in Port, AcceptEnter(p) PROVE TypeOK'
    BY <1>8 DEF AcceptEnter
  <1>9. ASSUME NEW c \in Conn, Accept(c) PROVE TypeOK'
    BY <1>9 DEF Accept, Again, PortOf, WorkPc
  <1>10. QED
    BY <1>1, <1>2, <1>3, <1>4, <1>5, <1>6, <1>7, <1>8, <1>9 DEF Fails, Server

LEMMA AtType == ASSUME TypeOK, NEW f PROVE At(f) \in Conn \cup {None}
  BY DEF TypeOK, At

LEMMA TypeWorkers ==
  ASSUME VoipAssumption, TypeOK, Around \/ \E w \in Conn : Worker(w)
  PROVE  TypeOK'
  <1> USE DEF VoipAssumption, TypeOK, Port, WorkPc, srvs, works, locks, WorkGoto
  <1>1. CASE CallChanges
    BY <1>1 DEF CallChanges
  <1>2. ASSUME NEW c \in Conn, Connect(c) \/ PeerClose(c) PROVE TypeOK'
    BY <1>2 DEF Connect, PeerClose
  <1>3. ASSUME NEW w \in Conn, Start(w) PROVE TypeOK'
    BY <1>3 DEF Start, PortOf
  <1>4. ASSUME NEW w \in Conn, Test(w) \/ Send(w) PROVE TypeOK'
    BY <1>4 DEF Test, Send
  <1>5. ASSUME NEW w \in Conn, Lock(w) \/ Unlock(w) PROVE TypeOK'
    BY <1>5 DEF Lock, Unlock
  <1>6. ASSUME NEW w \in Conn, SendFails(w) PROVE TypeOK'
    BY <1>6, TypeExit DEF SendFails
  <1>7. ASSUME NEW w \in Conn, RecvEnter(w) PROVE TypeOK'
    BY <1>7, AtType DEF RecvEnter
  <1>8. ASSUME NEW w \in Conn, RecvReturn(w) PROVE TypeOK'
    BY <1>8 DEF RecvReturn
  <1>9. QED
    BY <1>1, <1>2, <1>3, <1>4, <1>5, <1>6, <1>7, <1>8 DEF Around, Worker, Runs

LEMMA TypeStep == VoipAssumption /\ TypeOK /\ [Next]_vars => TypeOK'
  <1>1. UNCHANGED vars => (TypeOK => TypeOK')
    BY DEF vars, TypeOK
  <1>2. QED
    BY <1>1, TypeServers, TypeWorkers DEF Next

-----------------------------------------------------------------------------
(* The descriptor table *)

\* What Inv needs to be inductive.  A connection that nobody has accepted has
\* no worker, so the worker that accept creates is a new one; and a worker
\* that has not read the server's variable has no number yet, so it is none
\* of the strays.  A server that has not begun has nothing to close.
Fresh ==
  /\ \A c \in Conn :
       /\ peer[c] = "new" \/ c \in backlog => work[c] = "none"
       /\ c \in backlog => peer[c] # "new"
       /\ work[c] \in {"none", "start"} => fd[c] = 0
  /\ \A p \in Port : srv[p] = "start" => client_fd[p] = 0

Table == Owned /\ PriorIsOwn /\ OwnWhileOpen /\ StrayHasLost /\ Fresh

IInv == TypeOK /\ Table

LEMMA ExitTable == VoipAssumption /\ Exit => Table'
  BY DEF VoipAssumption, Exit, Table, Owned, PriorIsOwn, OwnWhileOpen, StrayHasLost,
         Fresh, At, Open, NoFd, Port

LEMMA TableInit == VoipAssumption /\ Init => Table
  BY DEF VoipAssumption, Init, Table, Owned, PriorIsOwn, OwnWhileOpen, StrayHasLost,
         Fresh, At, Open, Port

\* A server's close takes the number away from a connection of its own port,
\* and so from no other.
LEMMA PriorTable ==
  ASSUME VoipAssumption, IInv, NEW p \in Port, Prior(p)
  PROVE  Table'
  <1> USE DEF IInv, SrvGoto, Port
  <1>1. CASE client_fd[p] > 0
    <2> DEFINE k == client_fd[p]
    <2>1. /\ srv[p] = "prior" /\ srv' = [srv EXCEPT ![p] = "clear"]
          /\ fdtab' = [fdtab EXCEPT ![k] = "free"]
          /\ UNCHANGED <<peer, backlog, client_fd, work, fd>>
      BY <1>1 DEF Prior, works
    <2>2. k \in Fd /\ fdtab[k] \in Conn /\ PortOf(fdtab[k]) = p
      BY <1>1, <2>1 DEF TypeOK, Table, PriorIsOwn, At, VoipAssumption, NoFd
    <2>3. \A f \in Fd : fdtab'[f] = IF f = k THEN "free" ELSE fdtab[f]
      BY <2>1, <2>2 DEF TypeOK
    <2>4. \A q \in Port : srv'[q] = IF q = p THEN "clear" ELSE srv[q]
      BY <2>1 DEF TypeOK
    <2>5. Owned'
      BY <2>1, <2>2, <2>3, <2>4 DEF Table, Owned, PortOf, VoipAssumption
    <2>6. PriorIsOwn'
      <3> SUFFICES ASSUME NEW q \in Port, q # p, srv[q] \in {"listen", "prior"},
                          client_fd[q] > 0
                   PROVE  At(client_fd[q])' # None /\ PortOf(At(client_fd[q])') = q
        BY <2>1, <2>4 DEF PriorIsOwn, PortOf
      <3>1. At(client_fd[q]) # None /\ PortOf(At(client_fd[q])) = q
        BY DEF Table, PriorIsOwn
      <3>2. client_fd[q] \in Fd /\ At(client_fd[q]) = fdtab[client_fd[q]]
        BY <3>1 DEF At
      <3>3. client_fd[q] # k
        BY <2>2, <3>1, <3>2
      <3> QED
        BY <2>1, <2>3, <3>1, <3>2, <3>3 DEF At
    <2>7. Open' \subseteq Open
      BY <2>3, <2>2 DEF Open, VoipAssumption
    <2>8. \A f : At(f)' = At(f) \/ At(f)' = None
      BY <2>3, <2>2 DEF At, VoipAssumption
    <2>9. OwnWhileOpen'
      <3> SUFFICES ASSUME NEW w \in Open', work[w] \notin {"none", "start"}
                   PROVE  At(fd[w])' = w
        BY <2>1 DEF OwnWhileOpen
      <3>1. At(fd[w]) = w /\ w \in Conn
        BY <2>7 DEF Table, OwnWhileOpen, Open
      <3>2. fd[w] \in Fd /\ fdtab[fd[w]] = w
        BY <3>1 DEF At, VoipAssumption
      <3>3. PICK g \in Fd : fdtab'[g] = w
        BY DEF Open
      <3>4. g # k /\ fdtab[g] = w
        BY <2>3, <2>2, <3>1, <3>3 DEF VoipAssumption
      <3>5. fd[w] = g
        BY <3>1, <3>2, <3>4 DEF Table, Owned
      <3> QED
        BY <2>1, <3>1, <3>3, <3>5 DEF At
    <2>10. StrayHasLost'
      BY <2>1, <2>7, <2>8 DEF Table, StrayHasLost
    <2> QED
      BY <2>1, <2>5, <2>6, <2>9, <2>10 DEF Table, Fresh
  <1>2. CASE ~(client_fd[p] > 0)
    <2>1. /\ srv[p] = "prior" /\ srv' = [srv EXCEPT ![p] = "enter"]
          /\ UNCHANGED <<fdtab, peer, backlog, client_fd, work, fd>>
      BY <1>2 DEF Prior, works
    <2>2. \A q \in Port : srv'[q] = IF q = p THEN "enter" ELSE srv[q]
      BY <2>1 DEF TypeOK
    <2>3. Owned'
      BY <1>2, <2>1, <2>2 DEF TypeOK, Table, Owned, PortOf, VoipAssumption
    <2>4. PriorIsOwn'
      BY <2>1, <2>2 DEF Table, PriorIsOwn, At, PortOf
    <2> QED
      BY <2>1, <2>3, <2>4
      DEF Table, OwnWhileOpen, StrayHasLost, Fresh, Open, At
  <1> QED
    BY <1>1, <1>2

\* The number accept reserved becomes the new connection's: its server had
\* none, and no worker was waiting behind it.
LEMMA AcceptTable ==
  ASSUME VoipAssumption, IInv, NEW c \in Conn, Accept(c)
  PROVE  Table'
  <1> DEFINE p == PortOf(c)
  <1>1. p \in Port
    BY DEF PortOf, Port
  <1>2. PICK f \in Fd : /\ fdtab[f] = p
                        /\ fdtab' = [fdtab EXCEPT ![f] = c]
                        /\ client_fd' = [client_fd EXCEPT ![p] = f]
    BY DEF Accept
  <1>3. /\ srv[p] = "wait" /\ srv' = [srv EXCEPT ![p] = Again(p)]
        /\ c \in backlog /\ backlog' = backlog \ {c}
        /\ work' = [work EXCEPT ![c] = "start"]
        /\ UNCHANGED <<peer, fd>>
    BY DEF Accept, SrvGoto
  <1>4. \A g \in Fd : fdtab'[g] = IF g = f THEN c ELSE fdtab[g]
    BY <1>2 DEF IInv, TypeOK
  <1>5. \A q \in Port : /\ client_fd'[q] = IF q = p THEN f ELSE client_fd[q]
                        /\ srv'[q] = IF q = p THEN Again(p) ELSE srv[q]
    BY <1>2, <1>3 DEF IInv, TypeOK
  <1>6. \A w \in Conn : work'[w] = IF w = c THEN "start" ELSE work[w]
    BY <1>3 DEF IInv, TypeOK
  <1>7. work[c] = "none" /\ fd[c] = 0
    BY <1>3 DEF IInv, Table, Fresh
  <1>8. f # 0 /\ Again(p) \in {"listen", "prior"} /\ c # None /\ c \notin Port
    BY DEF VoipAssumption, Again, Port
  <1>9. \A g \in Fd : fdtab[g] \in Conn => PortOf(fdtab[g]) # p
    BY <1>3 DEF IInv, Table, Owned
  <1>10. Owned'
    <2> SUFFICES ASSUME NEW g \in Fd
                 PROVE  /\ fdtab'[g] \in Port =>
                             /\ srv'[fdtab'[g]] = "wait"
                             /\ \A h \in Fd : fdtab'[h] = fdtab'[g] => h = g
                        /\ fdtab'[g] \in Conn =>
                             /\ client_fd'[PortOf(fdtab'[g])] = g
                             /\ srv'[PortOf(fdtab'[g])] \in {"listen", "prior"}
      BY DEF Owned, PortOf
    <2>1. CASE g = f
      BY <1>1, <1>4, <1>5, <1>8, <2>1
    <2>2. CASE g # f /\ fdtab[g] \in Port
      BY <1>1, <1>2, <1>4, <1>5, <1>8, <2>2 DEF IInv, Table, Owned, VoipAssumption, Port
    <2>3. CASE g # f /\ fdtab[g] \in Conn
      <3>1. PortOf(fdtab[g]) \in Port /\ PortOf(fdtab[g]) # p
        BY <1>9, <2>3 DEF PortOf, Port
      <3> QED
        BY <1>4, <1>5, <2>3, <3>1 DEF IInv, Table, Owned, VoipAssumption, Port
    <2> QED
      BY <1>4, <2>1, <2>2, <2>3
  <1>11. PriorIsOwn'
    <2> SUFFICES ASSUME NEW q \in Port, srv'[q] \in {"listen", "prior"}, client_fd'[q] > 0
                 PROVE  At(client_fd[q])' # None /\ PortOf(At(client_fd[q])') = q
      BY DEF PriorIsOwn, PortOf
    <2>1. CASE q = p
      BY <1>4, <1>5, <1>8, <2>1 DEF At
    <2>2. CASE q # p
      <3>1. At(client_fd[q]) # None /\ client_fd'[q] = client_fd[q] /\ PortOf(At(client_fd[q])) = q
        BY <1>5, <2>2 DEF IInv, Table, PriorIsOwn
      <3>2. client_fd[q] \in Fd /\ fdtab[client_fd[q]] \in Conn /\ At(client_fd[q]) = fdtab[client_fd[q]]
        BY <3>1 DEF At
      <3>3. client_fd[q] # f
        BY <1>1, <1>2, <3>2 DEF VoipAssumption, Port
      <3> QED
        BY <1>4, <3>1, <3>2, <3>3 DEF At
    <2> QED
      BY <2>1, <2>2
  <1>12. \A w \in Conn : w # c /\ w \in Open' => w \in Open
    BY <1>4 DEF Open
  <1>13. OwnWhileOpen'
    <2> SUFFICES ASSUME NEW w \in Conn, w \in Open', work'[w] \notin {"none", "start"}
                 PROVE  At(fd[w])' = w
      BY <1>3 DEF OwnWhileOpen, Open
    <2>1. w # c /\ w \in Open /\ At(fd[w]) = w
      BY <1>6, <1>12 DEF IInv, Table, OwnWhileOpen
    <2>2. fd[w] \in Fd /\ fdtab[fd[w]] = w
      BY <2>1 DEF At, VoipAssumption
    <2>3. fd[w] # f
      BY <1>1, <1>2, <2>2 DEF VoipAssumption, Port
    <2> QED
      BY <1>3, <1>4, <2>2, <2>3 DEF At
  <1>14. StrayHasLost'
    <2> SUFFICES ASSUME NEW w \in Conn, At(fd[w])' \notin {w, None}, w \in Open'
                 PROVE  FALSE
      BY <1>3 DEF StrayHasLost
    <2>1. w # c
      BY <1>7, <1>8, <1>3 DEF At, VoipAssumption
    <2>2. w \in Open
      BY <1>12, <2>1
    <2>3. CASE fd[w] = f
      <3>1. At(f) = None
        BY <1>1, <1>2 DEF At, VoipAssumption, Port
      <3>2. work[w] \notin {"none", "start"}
        BY <1>8, <2>3 DEF IInv, Table, Fresh
      <3> QED
        BY <2>2, <2>3, <3>1, <3>2 DEF IInv, Table, OwnWhileOpen, VoipAssumption
    <2>4. CASE fd[w] # f
      <3>1. At(fd[w])' = At(fd[w])
        BY <1>3, <1>4, <2>4 DEF At
      <3> QED
        BY <2>2, <3>1 DEF IInv, Table, StrayHasLost
    <2> QED
      BY <2>3, <2>4
  <1>15. Fresh'
    <2>1. \A d \in Conn : /\ peer'[d] = "new" \/ d \in backlog' => work'[d] = "none"
                          /\ d \in backlog' => peer'[d] # "new"
                          /\ work'[d] \in {"none", "start"} => fd'[d] = 0
      BY <1>3, <1>6, <1>7 DEF IInv, Table, Fresh
    <2>2. \A q \in Port : srv'[q] = "start" => client_fd'[q] = 0
      BY <1>1, <1>5, <1>8 DEF IInv, Table, Fresh
    <2> QED
      BY <2>1, <2>2 DEF Fresh
  <1> QED
    BY <1>10, <1>11, <1>13, <1>14, <1>15 DEF Table

\* Any other step of the servers leaves every connection where it is.
LEMMA ServerTable ==
  ASSUME VoipAssumption, IInv, NEW p \in Port,
         Clear(p) \/ AcceptEnter(p) \/ SendStart \/ Listen \/ RecvStart
         \/ (AcceptFails(p) /\ ~Exit)
  PROVE  Table'
  <1> USE DEF IInv, SrvGoto, Port, works, VoipAssumption
  <1>1. UNCHANGED <<peer, backlog, work, fd>>
    BY DEF Clear, AcceptEnter, SendStart, Listen, RecvStart, AcceptFails
  <1>2. \A g \in Fd : fdtab[g] \in Conn \/ fdtab'[g] \in Conn => fdtab'[g] = fdtab[g]
    BY DEF Clear, AcceptEnter, SendStart, Listen, RecvStart, AcceptFails, FreeFds, TypeOK
  <1>3. Open' = Open
    BY <1>2 DEF Open
  <1>4. \A f : At(f)' = At(f)
    BY <1>2 DEF At
  <1>5. Owned'
    <2>1. ASSUME NEW g \in Fd, fdtab'[g] \in Conn
          PROVE  LET q == PortOf(fdtab'[g]) IN
                 client_fd'[q] = g /\ srv'[q] \in {"listen", "prior"}
      <3> DEFINE q == PortOf(fdtab[g])
      <3>1. fdtab'[g] = fdtab[g] /\ client_fd[q] = g /\ srv[q] \in {"listen", "prior"}
        BY <1>2, <2>1 DEF Table, Owned
      <3>2. q \in Port
        BY DEF PortOf
      <3>3. client_fd'[q] = client_fd[q] /\ srv'[q] \in {"listen", "prior"}
        BY <3>1, <3>2
        DEF Clear, AcceptEnter, SendStart, Listen, RecvStart, AcceptFails, TypeOK
      <3> QED
        BY <3>1, <3>3
    <2>2. ASSUME NEW g \in Fd, fdtab'[g] \in Port
          PROVE  /\ srv'[fdtab'[g]] = "wait"
                 /\ \A h \in Fd : fdtab'[h] = fdtab'[g] => h = g
      <3>1. CASE AcceptEnter(p)
        <4>1. PICK f \in Fd : fdtab[f] = "free" /\ fdtab' = [fdtab EXCEPT ![f] = p]
          BY <3>1 DEF AcceptEnter, FreeFds
        <4>2. /\ \A h \in Fd : fdtab'[h] = IF h = f THEN p ELSE fdtab[h]
              /\ \A q \in Port : srv'[q] = IF q = p THEN "wait" ELSE srv[q]
              /\ srv[p] = "enter"
          BY <3>1, <4>1 DEF AcceptEnter, TypeOK
        <4>3. \A h \in Fd : fdtab[h] # p
          BY <4>2 DEF Table, Owned
        <4> QED
          BY <2>2, <4>2, <4>3 DEF Table, Owned
      <3>2. CASE ~AcceptEnter(p)
        <4>1. fdtab' = fdtab /\ \A q \in Port : srv[q] = "wait" => srv'[q] = "wait"
          BY <3>2 DEF Clear, SendStart, Listen, RecvStart, AcceptFails, TypeOK
        <4> QED
          BY <2>2, <4>1 DEF Table, Owned
      <3> QED
        BY <3>1, <3>2
    <2> QED
      BY <2>1, <2>2 DEF Owned
  <1>6. PriorIsOwn'
    <2>1. ASSUME NEW q \in Port, srv'[q] \in {"listen", "prior"}, client_fd'[q] > 0
          PROVE  client_fd'[q] = client_fd[q] /\ srv[q] \in {"listen", "prior"}
      BY <2>1 DEF Clear, AcceptEnter, SendStart, Listen, RecvStart, AcceptFails, TypeOK, NoFd,
                  Table, Fresh
    <2>2. ASSUME NEW q \in Port, srv'[q] \in {"listen", "prior"}, client_fd'[q] > 0
          PROVE  At(client_fd[q])' # None /\ PortOf(At(client_fd[q])') = q
      <3>1. At(client_fd[q]) # None /\ PortOf(At(client_fd[q])) = q
        BY <2>1, <2>2 DEF Table, PriorIsOwn
      <3>2. At(client_fd[q])' = At(client_fd[q])
        BY <1>4, <2>1, <2>2
      <3> QED
        BY <3>1, <3>2
    <2> QED
      BY <2>2 DEF PriorIsOwn, PortOf
  <1>7. \A q \in Port : srv'[q] = "start" => client_fd'[q] = 0
    BY DEF Clear, AcceptEnter, SendStart, Listen, RecvStart, AcceptFails, TypeOK, NoFd,
           Table, Fresh
  <1> QED
    BY <1>1, <1>3, <1>4, <1>5, <1>6, <1>7
    DEF Table, OwnWhileOpen, StrayHasLost, Fresh

\* The workers, the clients and the call control leave the table alone; a
\* worker that reads the server's variable while its connection is open finds
\* its own number there.
LEMMA WorkerTable ==
  ASSUME VoipAssumption, IInv, Around \/ \E w \in Conn : Worker(w), ~Exit
  PROVE  Table'
  <1> USE DEF IInv, works, srvs
  <1>1. UNCHANGED <<fdtab, srv, client_fd>>
    BY DEF Around, CallChanges, Connect, PeerClose, Worker, Runs, Start, Test, Lock,
           Unlock, Send, SendFails, RecvEnter, RecvReturn
  <1>2. Owned' /\ PriorIsOwn'
    BY <1>1 DEF Table, Owned, PriorIsOwn, At, PortOf
  <1>3. Open' = Open /\ \A f : At(f)' = At(f)
    BY <1>1 DEF Open, At
  <1>4. CASE \E w \in Conn : Start(w)
    <2>1. PICK w \in Conn : Start(w)
      BY <1>4
    <2> DEFINE p == PortOf(w)
    <2>2. /\ \A v \in Conn : fd'[v] = IF v = w THEN client_fd[p] ELSE fd[v]
          /\ work[w] = "start" /\ work'[w] \notin {"none", "start"}
          /\ \A v \in Conn : v # w => work'[v] = work[v]
          /\ UNCHANGED <<peer, backlog>>
      BY <2>1 DEF Start, WorkGoto, TypeOK
    <2>3. w \in Open => At(client_fd[p]) = w
      BY DEF Table, Owned, Open, At
    <2>4. OwnWhileOpen'
      BY <1>3, <2>2, <2>3 DEF Table, OwnWhileOpen, Open
    <2>5. StrayHasLost'
      BY <1>3, <2>2, <2>3 DEF Table, StrayHasLost
    <2>6. Fresh'
      BY <1>1, <2>2 DEF Table, Fresh
    <2> QED
      BY <1>2, <2>4, <2>5, <2>6 DEF Table
  <1>5. CASE ~ \E w \in Conn : Start(w)
    <2>1. fd' = fd
      BY <1>5 DEF Around, CallChanges, Connect, PeerClose, Worker, Runs, Test, Lock,
                  Unlock, Send, SendFails, RecvEnter, RecvReturn
    <2>2. \A v \in Conn : work'[v] = work[v]
                          \/ (work[v] \notin {"none", "start"} /\ work'[v] \notin {"none", "start"})
      BY <1>5 DEF Around, CallChanges, Connect, PeerClose, Worker, Runs, Test, Lock,
                  Unlock, Send, SendFails, RecvEnter, RecvReturn, WorkGoto, TypeOK
    <2>3. OwnWhileOpen' /\ StrayHasLost'
      BY <1>3, <2>1, <2>2 DEF Table, OwnWhileOpen, StrayHasLost, Open
    <2>4. \A c \in Conn : peer'[c] = "new" \/ c \in backlog' => peer[c] = "new" \/ c \in backlog
      BY <1>5 DEF Around, CallChanges, Connect, PeerClose, Worker, Runs, Test, Lock,
                  Unlock, Send, SendFails, RecvEnter, RecvReturn, TypeOK
    <2>5. \A c \in Conn : c \in backlog' => peer'[c] # "new"
      BY <1>5 DEF Around, CallChanges, Connect, PeerClose, Worker, Runs, Test, Lock,
                  Unlock, Send, SendFails, RecvEnter, RecvReturn, TypeOK, Table, Fresh
    <2>6. Fresh'
      BY <1>1, <2>1, <2>2, <2>4, <2>5 DEF Table, Fresh
    <2> QED
      BY <1>2, <2>3, <2>6 DEF Table
  <1> QED
    BY <1>4, <1>5

LEMMA TableStep ==
  ASSUME VoipAssumption, IInv, [Next]_vars
  PROVE  Table'
  <1>1. CASE UNCHANGED vars
    BY <1>1 DEF vars, IInv, Table, Owned, PriorIsOwn, OwnWhileOpen, StrayHasLost, Fresh,
                At, Open, PortOf
  <1>2. CASE Exit
    BY <1>2, ExitTable
  <1>3. CASE Next /\ ~Exit
    <2>1. CASE OpenPcm
      <3>1. UNCHANGED <<fdtab, srv, client_fd, work, fd, peer, backlog>>
        BY <1>3, <2>1 DEF OpenPcm, dz_set_params, srvs, works
      <3> QED
        BY <3>1 DEF IInv, Table, Owned, PriorIsOwn, OwnWhileOpen, StrayHasLost, Fresh,
                    At, Open, PortOf
    <2>2. CASE Fails
      <3>1. PICK p \in Port : AcceptFails(p) /\ ~Exit
        BY <1>3, <2>2 DEF Fails, RecvStartFails, ListenFails
      <3> QED
        BY <3>1, ServerTable
    <2>3. CASE Around \/ \E w \in Conn : Worker(w)
      BY <1>3, <2>3, WorkerTable
    <2>4. ASSUME NEW p \in Port, Server(p) PROVE Table'
      BY <2>4, PriorTable, AcceptTable, ServerTable DEF Server
    <2> QED
      BY <1>3, <2>1, <2>2, <2>3, <2>4 DEF Next
  <1> QED
    BY <1>1, <1>2, <1>3

\* With the servers taking at most one number each, the second of two numbers
\* is free for the one that enters accept.
LEMMA TwoNumbers ==
  ASSUME VoipAssumption, IInv, \E f, g \in Fd : f # g
  PROVE  NumbersSuffice
  <1> SUFFICES ASSUME NEW p \in Port, srv[p] = "enter", FreeFds = {}
               PROVE  FALSE
    BY DEF NumbersSuffice
  <1>1. PICK f, g \in Fd : f # g
    OBVIOUS
  <1>2. ASSUME NEW h \in Fd
        PROVE  \E q \in Port : /\ q # p
                               /\ \/ fdtab[h] = q /\ srv[q] = "wait"
                                  \/ fdtab[h] \in Conn /\ client_fd[q] = h /\ srv[q] # "wait"
    <2>1. fdtab[h] # "free" /\ fdtab[h] \in Conn \cup {"free"} \cup Port
      BY DEF FreeFds, IInv, TypeOK
    <2>2. CASE fdtab[h] \in Port
      BY <2>2 DEF IInv, Table, Owned
    <2>3. CASE fdtab[h] \in Conn
      <3>1. PortOf(fdtab[h]) \in Port
        BY DEF PortOf, Port
      <3> QED
        BY <2>3, <3>1 DEF IInv, Table, Owned
    <2> QED
      BY <2>1, <2>2, <2>3
  <1>3. \A q, r \in Port : q # p /\ r # p => q = r
    BY DEF Port
  <1> QED
    BY <1>1, <1>2, <1>3 DEF IInv, Table, Owned

-----------------------------------------------------------------------------
(* The PCM devices *)

\* What PcmExclusive needs to be inductive.  A mutex initialised in use is
\* wrong by one user and stays so: free it may hide one, held it may have one
\* beside its owner.  That happens once, when the receiving server starts.
Mutex ==
  /\ broken = "no" => \A w \in InPcm : mutex_audio = w
  /\ broken = "yes" =>
       /\ srv["recv"] # "start" /\ IsFiniteSet(InPcm)
       /\ Cardinality(InPcm) <= (IF mutex_audio = None THEN 1 ELSE 2)

LEMMA MutexInit == VoipAssumption /\ Init => Mutex
  BY DEF Init, Mutex, InPcm

\* Users that are all the owner are at most one.
LEMMA OneUser ==
  ASSUME NEW x, \A w \in InPcm : x = w
  PROVE  IsFiniteSet(InPcm) /\ Cardinality(InPcm) <= 1
  <1>1. InPcm \subseteq {x} /\ IsFiniteSet({x}) /\ Cardinality({x}) = 1
    BY FS_Singleton
  <1> QED
    BY <1>1, FS_Subset

LEMMA MutexExclusive == TypeOK /\ Mutex => PcmExclusive
  <1> SUFFICES ASSUME TypeOK, Mutex PROVE PcmExclusive
    OBVIOUS
  <1>1. CASE broken = "no"
    BY <1>1, OneUser DEF Mutex, PcmExclusive
  <1>2. CASE broken = "yes"
    <2>1. Cardinality(InPcm) \in Nat
      BY <1>2, FS_CardinalityType DEF Mutex
    <2> QED
      BY <1>2, <2>1 DEF Mutex, PcmExclusive
  <1> QED
    BY <1>1, <1>2 DEF TypeOK

LEMMA MutexStep ==
  ASSUME VoipAssumption, IInv, Mutex, [Next]_vars
  PROVE  Mutex'
  <1>0. TypeOK
    BY DEF IInv
  <1> USE <1>0 DEF VoipAssumption, TypeOK, Port
  <1>1. CASE Exit
    BY <1>1 DEF Exit, Mutex, InPcm
  <1>2. ASSUME NEW w \in Conn, Lock(w) PROVE Mutex'
    <2>1. InPcm' = InPcm \cup {w} /\ w \notin InPcm
      BY <1>2 DEF Lock, WorkGoto, InPcm, WorkPc
    <2>2. /\ mutex_audio = None /\ mutex_audio' = w /\ w # None
          /\ UNCHANGED <<broken, srv>>
      BY <1>2 DEF Lock, srvs
    <2>3. CASE broken = "no"
      <3>1. InPcm = {}
        BY <2>2, <2>3 DEF Mutex, InPcm
      <3> QED
        BY <2>1, <2>2, <2>3, <3>1 DEF Mutex
    <2>4. CASE broken = "yes"
      <3>1. IsFiniteSet(InPcm) /\ Cardinality(InPcm) <= 1 /\ Cardinality(InPcm) \in Nat
        BY <2>2, <2>4, FS_CardinalityType DEF Mutex
      <3>2. IsFiniteSet(InPcm') /\ Cardinality(InPcm') = Cardinality(InPcm) + 1
        BY <2>1, <3>1, FS_AddElement
      <3> QED
        BY <2>2, <2>4, <3>1, <3>2 DEF Mutex
    <2> QED
      BY <2>3, <2>4
  <1>3. ASSUME NEW w \in Conn, Unlock(w) PROVE Mutex'
    <2>1. InPcm' = InPcm \ {w} /\ w \in InPcm
      BY <1>3 DEF Unlock, WorkGoto, InPcm, WorkPc
    <2>2. mutex_audio' = None /\ UNCHANGED <<broken, srv>>
      BY <1>3 DEF Unlock, srvs
    <2>3. CASE broken = "no"
      <3>1. InPcm' = {}
        BY <2>1, <2>3 DEF Mutex
      <3> QED
        BY <2>2, <2>3, <3>1 DEF Mutex
    <2>4. CASE broken = "yes"
      <3>1. IsFiniteSet(InPcm) /\ Cardinality(InPcm) <= 2 /\ Cardinality(InPcm) \in Nat
        BY <2>4, FS_CardinalityType DEF Mutex
      <3>2. IsFiniteSet(InPcm') /\ Cardinality(InPcm') = Cardinality(InPcm) - 1
        BY <2>1, <3>1, FS_RemoveElement
      <3> QED
        BY <2>2, <2>4, <3>1, <3>2 DEF Mutex
    <2> QED
      BY <2>3, <2>4
  <1>4. CASE RecvStart
    <2>1. /\ InPcm' = InPcm /\ srv["recv"] = "start" /\ srv'["recv"] = "prior"
          /\ mutex_audio' = None
          /\ broken' = IF mutex_audio = None THEN broken ELSE "yes"
      BY <1>4 DEF RecvStart, SrvGoto, InPcm, works
    <2>2. broken = "no"
      BY <2>1 DEF Mutex
    <2>3. CASE mutex_audio = None
      <3>1. InPcm = {}
        BY <2>2, <2>3 DEF Mutex, InPcm
      <3> QED
        BY <2>1, <2>2, <2>3, <3>1 DEF Mutex
    <2>4. CASE mutex_audio # None
      <3>1. IsFiniteSet(InPcm) /\ Cardinality(InPcm) <= 1
        BY <2>2, OneUser DEF Mutex
      <3> QED
        BY <2>1, <2>4, <3>1 DEF Mutex
    <2> QED
      BY <2>3, <2>4
  <1>5. ASSUME InPcm' = InPcm, UNCHANGED <<mutex_audio, broken>>,
               srv["recv"] # "start" => srv'["recv"] # "start"
        PROVE  Mutex'
    BY <1>5 DEF Mutex
  <1>6. CASE UNCHANGED vars \/ OpenPcm \/ Around
    BY <1>1, <1>5, <1>6 DEF vars, OpenPcm, dz_set_params, Around, CallChanges, Connect,
                            PeerClose, srvs, works, locks, InPcm
  <1>7. CASE Fails
    <2>1. ASSUME NEW p \in Port, AcceptFails(p) PROVE Mutex'
      BY <1>1, <1>5, <2>1 DEF AcceptFails, SrvGoto, works, locks, InPcm
    <2> QED
      BY <1>1, <1>7, <2>1 DEF Fails, RecvStartFails, ListenFails
  <1>8. ASSUME NEW p \in Port, Server(p) PROVE Mutex'
    <2>1. CASE SendStart \/ Listen \/ Prior(p) \/ Clear(p) \/ AcceptEnter(p)
      BY <1>5, <2>1 DEF SendStart, Listen, Prior, Clear, AcceptEnter, SrvGoto, works,
                        locks, InPcm
    <2>2. ASSUME NEW c \in Conn, Accept(c) PROVE Mutex'
      <3>1. work[c] = "none"
        BY <2>2 DEF Accept, IInv, Table, Fresh
      <3>2. InPcm' = InPcm
        BY <2>2, <3>1 DEF Accept, InPcm
      <3> QED
        BY <1>5, <2>2, <3>2 DEF Accept, SrvGoto, Again, PortOf, locks
    <2> QED
      BY <1>4, <1>8, <2>1, <2>2 DEF Server
  <1>9. ASSUME NEW w \in Conn,
               Start(w) \/ Test(w) \/ Send(w) \/ RecvEnter(w) \/ RecvReturn(w)
        PROVE  Mutex'
    <2>1. InPcm' = InPcm
      BY <1>9 DEF Start, Test, Send, RecvEnter, RecvReturn, WorkGoto, InPcm
    <2> QED
      BY <1>5, <1>9, <2>1 DEF Start, Test, Send, RecvEnter, RecvReturn, srvs, locks
  <1> QED
    BY <1>1, <1>2, <1>3, <1>6, <1>7, <1>8, <1>9 DEF Next, Worker, Runs, SendFails

-----------------------------------------------------------------------------
(* What a run keeps *)

SafeInv == IInv /\ Mutex

LEMMA SafeInit == VoipAssumption /\ Init => SafeInv
  BY TypeInit, TableInit, MutexInit DEF SafeInv, IInv

LEMMA SafeStep == VoipAssumption /\ SafeInv /\ [Next]_vars => SafeInv'
  BY TypeStep, TableStep, MutexStep DEF SafeInv, IInv

LEMMA SafeImplies == VoipAssumption /\ SafeInv => Inv /\ PcmExclusive
  BY MutexExclusive DEF SafeInv, IInv, Table, Inv

LEMMA SafeNumbers ==
  VoipAssumption /\ SafeInv /\ (\E f, g \in Fd : f # g) => NumbersSuffice
  BY TwoNumbers DEF SafeInv

=============================================================================
