-------------------------- MODULE CtrlServerProofs --------------------------
(***************************************************************************)
(* Proofs about CtrlServer, for any set of connections, any descriptor     *)
(* numbers and any bound on unread commands: the types, that no step but   *)
(* main's reset of client_fd loses an open connection, and for patient     *)
(* clients the inductive invariant Inv and that CtrlLink is implemented.   *)
(***************************************************************************)
EXTENDS CtrlServer, TLAPS

USE FdAssumption, ConnAssumption, BoundAssumption

-----------------------------------------------------------------------------
LEMMA TypeInit == Init => TypeOK
  BY DEF Init, TypeOK, Slot, SrvPc, MainPc

LEMMA TypeServer == TypeOK /\ (ServerWork \/ SrvFail) => TypeOK'
  <1> SUFFICES ASSUME TypeOK, ServerWork \/ SrvFail PROVE TypeOK'
    OBVIOUS
  <1> USE DEF TypeOK, Slot, SrvPc, MainPc, env, srvs, mains, SrvGoto
  <1>1. CASE SrvSocket
    BY <1>1 DEF SrvSocket
  <1>2. CASE SrvBind
    BY <1>2 DEF SrvBind
  <1>3. CASE SrvListen
    BY <1>3 DEF SrvListen
  <1>4. CASE SrvAcceptEnter
    BY <1>4 DEF SrvAcceptEnter, FreeFds
  <1>5. ASSUME NEW c \in Conn, SrvAccept(c) PROVE TypeOK'
    BY <1>5 DEF SrvAccept
  <1>6. CASE SrvCheck
    BY <1>6 DEF SrvCheck
  <1>7. CASE SrvClosePrior
    BY <1>7 DEF SrvClosePrior, CloseFd
  <1>8. CASE SrvStore
    BY <1>8 DEF SrvStore
  <1>9. CASE SrvFail
    BY <1>9 DEF SrvFail
  <1>10. CASE SrvExit
    BY <1>10 DEF SrvExit
  <1>11. QED
    BY <1>1, <1>2, <1>3, <1>4, <1>5, <1>6, <1>7, <1>8, <1>9, <1>10 DEF ServerWork

LEMMA AtType == ASSUME TypeOK, NEW f PROVE At(f) \in Conn \cup {None}
  BY DEF TypeOK, At

LEMMA TypeMain == TypeOK /\ Main => TypeOK'
  <1> SUFFICES ASSUME TypeOK, Main PROVE TypeOK'
    OBVIOUS
  <1> USE DEF TypeOK, Slot, SrvPc, MainPc, env, srvs, mains, MainGoto
  <1>1. CASE MainEnter \/ MainLoop \/ MainTest
    BY <1>1 DEF MainEnter, MainLoop, MainTest
  <1>2. CASE MainFdSet
    BY <1>2 DEF MainFdSet
  <1>3. CASE MainSelectEnter
    BY <1>3, AtType DEF MainSelectEnter
  <1>4. CASE MainSelect
    BY <1>4 DEF MainSelect
  <1>5. CASE MainRecv
    BY <1>5, AtType DEF MainRecv
  <1>6. CASE MainRecvReturn
    BY <1>6 DEF MainRecvReturn
  <1>7. CASE MainReply
    BY <1>7 DEF MainReply
  <1>8. CASE MainClose
    <2>1. fdtab' \in [Fd -> Slot]
      BY <1>8 DEF MainClose, CloseFd
    <2>2. main' \in MainPc /\ UNCHANGED <<up, env, client_fd, srvs, selfd, pin>>
      BY <1>8 DEF MainClose
    <2>. QED
      BY <2>1, <2>2
  <1>9. CASE MainClear
    BY <1>9 DEF MainClear
  <1>10. QED
    BY <1>1, <1>2, <1>3, <1>4, <1>5, <1>6, <1>7, <1>8, <1>9 DEF Main

LEMMA TypeClients == TypeOK /\ Clients => TypeOK'
  <1> SUFFICES ASSUME TypeOK, NEW c \in Conn,
                      Connect(c) \/ PeerSend(c) \/ PeerEnd(c, "fin") \/ PeerEnd(c, "dead")
               PROVE TypeOK'
    BY DEF Clients
  <1> USE DEF TypeOK, Slot, SrvPc, MainPc, env, srvs, mains
  <1>1. CASE Connect(c)
    BY <1>1 DEF Connect
  <1>2. CASE PeerSend(c)
    BY <1>2 DEF PeerSend
  <1>3. CASE PeerEnd(c, "fin") \/ PeerEnd(c, "dead")
    BY <1>3 DEF PeerEnd
  <1>4. QED
    BY <1>1, <1>2, <1>3

\* Every variable keeps its type, whatever the clients do.
THEOREM TypeCorrect == Spec => []TypeOK
  <1>1. TypeOK /\ [Next]_vars => TypeOK'
    <2> SUFFICES ASSUME TypeOK, [Next]_vars PROVE TypeOK'
      OBVIOUS
    <2>1. CASE UNCHANGED vars
      BY <2>1 DEF vars, TypeOK
    <2>2. QED
      BY <2>1, TypeServer, TypeMain, TypeClients DEF Next
  <1>2. QED
    BY <1>1, TypeInit, PTL DEF Spec

-----------------------------------------------------------------------------
(* The inductive invariant for patient clients *)

LEMMA InvInit == Init => Inv
  <1> SUFFICES ASSUME Init PROVE Inv
    OBVIOUS
  <1>1. TypeOK
    BY TypeInit
  <1>2. Open = {} /\ At(client_fd) = None
    BY DEF Init, Open, At
  <1>3. QED
    BY <1>1, <1>2 DEF Init, Inv, Tables, Install, Wait, Current, Serving, NoLeak,
                      Busy, Installing, Waits

\* The server thread, before it has a connection in hand: the number it
\* reserves holds no connection, and it accepts one only while main waits.
LEMMA InvServerAccepts ==
  ASSUME Inv, TypeOK',
         \/ SrvSocket \/ SrvBind \/ SrvListen \/ SrvAcceptEnter
         \/ SrvFail \/ SrvExit \/ \E c \in Conn : SrvAccept(c)
  PROVE  Inv'
  <1> USE DEF Inv, Busy, Installing, SrvGoto, env, srvs, mains
  <1>1. CASE SrvSocket \/ SrvBind \/ SrvListen \/ SrvExit
    BY <1>1 DEF SrvSocket, SrvBind, SrvListen, SrvExit, Tables, Install, Wait,
                Current, Serving, NoLeak, Tracked, Open, At, Ready, Silent
  <1>2. CASE SrvAcceptEnter \/ SrvFail
    <2>1. \A f : At(f)' = At(f)
      BY <1>2 DEF SrvAcceptEnter, SrvFail, FreeFds, At, TypeOK, Slot, Install
    <2>2. Open' = Open
      BY <1>2 DEF SrvAcceptEnter, SrvFail, FreeFds, Open, TypeOK, Install
    <2>3. Tables'
      BY <1>2, <2>2 DEF SrvAcceptEnter, SrvFail, FreeFds, Tables, TypeOK, Install
    <2>4. Install'
      BY <1>2, <2>1 DEF SrvAcceptEnter, SrvFail, FreeFds, Install, TypeOK
    <2>5. Wait' /\ Current' /\ Serving' /\ NoLeak'
      BY <1>2, <2>1, <2>2 DEF SrvAcceptEnter, SrvFail, Wait, Current, Serving,
                              NoLeak, Tracked, Ready, Silent
    <2>6. QED
      BY <2>3, <2>4, <2>5
  <1>3. ASSUME NEW c \in Conn, SrvAccept(c) PROVE Inv'
    <2> USE <1>3 DEF SrvAccept
    <2>1. new_fd \in Fd /\ fdtab[new_fd] = "held" /\ main \in Waits
      BY DEF Install, Wait
    <2>2. new_fd # client_fd
      BY <2>1 DEF Current, At, Waits
    <2>3. At(new_fd)' = c /\ \A f : f # new_fd => At(f)' = At(f)
      BY <2>1 DEF At, TypeOK
    <2>4. Open' = Open \cup {c}
      BY <2>1 DEF Open, TypeOK
    <2>5. Tables'
      BY <2>1, <2>4 DEF Tables, Open, TypeOK
    <2>6. Install' /\ Wait' /\ Current' /\ NoLeak'
      BY <2>1, <2>2, <2>3, <2>4 DEF Install, Wait, Current, NoLeak, Tracked, Tables, Silent, Waits
    <2>7. Serving'
      BY <2>1, <2>2, <2>3 DEF Serving, Waits, Silent
    <2>8. QED
      BY <2>5, <2>6, <2>7
  <1>4. QED
    BY <1>1, <1>2, <1>3

\* The server thread replaces the current connection: the one it closes is
\* silent, and main, which waits, comes to wait on the new one.
LEMMA InvServerStores ==
  ASSUME Inv, TypeOK', SrvCheck \/ SrvClosePrior \/ SrvStore
  PROVE  Inv'
  <1> USE DEF Inv, Busy, Installing, SrvGoto, env, srvs, mains
  <1>1. CASE SrvCheck
    BY <1>1 DEF SrvCheck, Tables, Install, Wait, Current, Serving, NoLeak,
                Tracked, Open, At, Ready, Silent, TypeOK
  <1>2. CASE SrvClosePrior
    <2> USE <1>2 DEF SrvClosePrior, CloseFd
    <2>1. At(client_fd)' = None /\ \A f : f # client_fd => At(f)' = At(f)
      BY DEF At, TypeOK
    <2>2. At(new_fd)' = At(new_fd) /\ Open' = Open \ {At(client_fd)}
      BY <2>1 DEF Install, Open, At, Tables, TypeOK
    <2>3. main \in Waits /\ \A c \in Open : At(new_fd) = c \/ Silent(c)
      BY DEF Wait
    <2>4. Tables'
      BY <2>2 DEF Tables, At, TypeOK
    <2>5. Install' /\ Wait' /\ Current' /\ NoLeak'
      BY <2>1, <2>2, <2>3 DEF Install, Wait, Current, NoLeak, Tracked, Silent
    <2>6. At(client_fd) # None => Silent(At(client_fd))
      BY <2>3 DEF Install, Open, At, Tables, TypeOK
    <2>7. Serving'
      BY <2>1, <2>3, <2>6 DEF Serving, Waits, Silent
    <2>8. QED
      BY <2>4, <2>5, <2>7
  <1>3. CASE SrvStore
    <2> USE <1>3 DEF SrvStore
    <2>1. Open' = Open /\ \A f : At(f)' = At(f)
      BY DEF Open, At
    <2>2. At(client_fd)' = At(new_fd)
      BY DEF At
    <2>3. Tables'
      BY <2>1 DEF Tables
    <2>4. Install' /\ Wait' /\ Current' /\ NoLeak'
      BY <2>1, <2>2 DEF Install, Wait, Current, NoLeak, Tracked, Silent, Open
    <2>5. Serving'
      BY <2>1, <2>2 DEF Serving, Install, Wait, Waits, Silent
    <2>6. QED
      BY <2>3, <2>4, <2>5
  <1>4. QED
    BY <1>1, <1>2, <1>3

\* Steps of main that touch neither descriptors nor client_fd disturb only
\* what is said of main.
LEMMA InvMainWaits ==
  ASSUME Inv, TypeOK', UNCHANGED <<fdtab, client_fd, srvs, env>>,
         main' \in Waits \/ ~Busy, main # "clear",
         Serving'
  PROVE  Inv'
  BY DEF Inv, Tables, Install, Wait, Current, NoLeak, Tracked, Open, At, Busy,
         Installing, Silent, srvs, env

\* While a connection is being made, main finds nothing to read.
LEMMA NotReadyWhenBusy ==
  ASSUME Inv, Busy, NEW c \in Conn, At(client_fd) = c \/ Silent(c)
  PROVE  ~Ready(c)
  BY DEF Inv, Wait, Install, Tables, Silent, Ready, Open, At, Installing, Busy, TypeOK

LEMMA InvMain == ASSUME Inv, TypeOK', Main PROVE Inv'
  <1> USE DEF MainGoto, env, srvs
  <1>1. CASE MainEnter \/ MainLoop \/ MainTest \/ MainFdSet
    <2>1. Serving'
      BY <1>1 DEF MainEnter, MainLoop, MainTest, MainFdSet, Inv, Serving, At
    <2>2. QED
      BY <1>1, <2>1, InvMainWaits DEF MainEnter, MainLoop, MainTest, MainFdSet, Waits
  <1>2. CASE MainSelectEnter
    <2>1. Serving'
      BY <1>2 DEF MainSelectEnter, Inv, Serving, At
    <2>2. QED
      BY <1>2, <2>1, InvMainWaits DEF MainSelectEnter, Waits
  <1>3. CASE MainSelect
    <2>1. pin # None /\ Ready(pin) => At(client_fd) = pin /\ ~Busy
      BY <1>3, NotReadyWhenBusy DEF MainSelect, Inv, Serving, Silent, Ready, TypeOK
    <2>2. Serving'
      BY <1>3, <2>1 DEF MainSelect, Inv, Serving, At, Ready
    <2>3. QED
      BY <1>3, <2>1, <2>2, InvMainWaits DEF MainSelect, Waits
  <1>4. CASE MainRecv \/ MainReply
    <2>1. ~Busy
      BY <1>4 DEF MainRecv, MainReply, Inv, Wait, Waits
    <2>2. Serving'
      BY <1>4 DEF MainRecv, MainReply, Inv, Serving, At, Ready
    <2>3. QED
      BY <1>4, <2>1, <2>2, InvMainWaits DEF MainRecv, MainReply
  <1>5. CASE MainRecvReturn
    <2>1. ~Busy /\ ~Busy'
      BY <1>5 DEF MainRecvReturn, Inv, Wait, Waits, Busy, Installing
    <2>2. pin \in Conn /\ pin = At(client_fd) /\ peer[pin] # "new"
      BY <1>5 DEF MainRecvReturn, Inv, Serving, TypeOK, Tables, Open, At
    <2>3. Serving'
      BY <1>5, <2>2 DEF MainRecvReturn, Inv, Serving, At, Ready
    <2>4. Tables' /\ Install' /\ Wait' /\ Current' /\ NoLeak'
      BY <1>5, <2>1, <2>2 DEF MainRecvReturn, Inv, Tables, Install, Wait, Current,
                 NoLeak, Tracked, Open, At, Installing, TypeOK
    <2>5. QED
      BY <2>3, <2>4 DEF Inv
  <1>6. CASE MainClose
    <2> USE <1>6 DEF MainClose, CloseFd
    <2>1. ~Busy /\ ~Busy'
      BY DEF Inv, Wait, Waits, Busy, Installing
    <2>2. At(client_fd)' = None /\ \A f : f # client_fd => At(f)' = At(f)
      BY DEF Inv, At, TypeOK
    <2>3. Open' = Open \ {At(client_fd)}
      BY <2>2 DEF Inv, Open, At, Tables, TypeOK
    <2>4. Tables' /\ Install'
      BY <2>1, <2>3 DEF Inv, Tables, Install, Busy, Installing, At, TypeOK
    <2>5. Wait' /\ Current' /\ Serving' /\ NoLeak'
      BY <2>1, <2>2, <2>3 DEF Inv, Wait, Current, Serving, NoLeak, Tracked, Busy
    <2>6. QED
      BY <2>4, <2>5 DEF Inv
  <1>7. CASE MainClear
    <2> USE <1>7 DEF MainClear
    <2>1. ~Busy /\ ~Busy' /\ At(client_fd) = None
      BY DEF Inv, Wait, Waits, Serving, Busy, Installing
    <2>2. Open = {} /\ Open' = {}
      BY <2>1 DEF Inv, NoLeak, Tracked, Busy, Open, At, TypeOK
    <2>3. QED
      BY <2>1, <2>2 DEF Inv, Tables, Install, Wait, Current, Serving, NoLeak, Busy, Installing, TypeOK
  <1>8. QED
    BY <1>1, <1>2, <1>3, <1>4, <1>5, <1>6, <1>7 DEF Main

\* A patient client connects when no other connection is being made and main
\* waits; afterwards the far ends change nothing the threads rely on.
LEMMA InvClients == ASSUME Inv, TypeOK', Patient, Clients PROVE Inv'
  <1> USE DEF env, srvs, mains
  <1>1. PICK c \in Conn : Connect(c) \/ PeerSend(c) \/ PeerEnd(c, "fin") \/ PeerEnd(c, "dead")
    BY DEF Clients
  <1>2. Open' = Open /\ \A f : At(f)' = At(f)
    BY <1>1 DEF Connect, PeerSend, PeerEnd, Open, At
  <1>3. CASE Connect(c)
    <2> USE <1>3 DEF Connect, Quiet, Settled
    <2>1. backlog = {} /\ ~Installing
      BY DEF Inv, Tables, Install, Installing, Open, At, TypeOK
    <2>2. \A d \in Open : Silent(d)
      BY DEF Inv, Tables, Open, Silent
    <2>3. Tables'
      BY <1>2, <2>1 DEF Inv, Tables, TypeOK
    <2>4. Install' /\ Wait' /\ Current' /\ NoLeak'
      BY <1>2, <2>1, <2>2 DEF Inv, Install, Wait, Current, NoLeak, Tracked, Busy,
                              Installing, Silent, Open, Waits, Tables, TypeOK
    <2>5. Serving'
      BY <1>2 DEF Inv, Serving, Silent, TypeOK
    <2>6. QED
      BY <2>3, <2>4, <2>5 DEF Inv
  <1>4. CASE PeerSend(c) \/ PeerEnd(c, "fin") \/ PeerEnd(c, "dead")
    <2>1. /\ \A d \in Conn : Silent(d) => Silent(d)'
          /\ \A d \in Conn : Ready(d) => Ready(d)'
          /\ \A d \in Conn : peer[d] = "new" <=> peer'[d] = "new"
          /\ \A d \in Conn : peer[d] \in {"new", "fin"} => peer'[d] = peer[d] /\ rx'[d] = rx[d]
      BY <1>4 DEF PeerSend, PeerEnd, Inv, TypeOK, Silent, Ready
    <2>2. UNCHANGED <<backlog, fdtab, client_fd, srvs, mains>>
      BY <1>4 DEF PeerSend, PeerEnd
    <2>3. Tables' /\ Install' /\ Wait' /\ Current' /\ NoLeak'
      BY <1>2, <2>1, <2>2 DEF Inv, Tables, Install, Wait, Current, NoLeak, Tracked,
                              Busy, Installing, Open, TypeOK
    <2>4. Serving'
      BY <1>2, <2>1, <2>2, AtType DEF Inv, Serving, Busy, Installing, TypeOK
    <2>5. QED
      BY <2>3, <2>4 DEF Inv
  <1>5. QED
    BY <1>1, <1>3, <1>4

LEMMA InvNext == ASSUME Patient, Inv, [Next]_vars PROVE Inv'
  <1>1. CASE UNCHANGED vars
    BY <1>1 DEF vars, Inv, TypeOK, Tables, Install, Wait, Current, Serving, NoLeak,
                Tracked, Open, At, Busy, Installing, Silent, Ready
  <1>2. CASE Next
    <2>1. TypeOK'
      BY <1>2, TypeServer, TypeMain, TypeClients DEF Next, Inv
    <2>2. QED
      BY <1>2, <2>1, InvServerAccepts, InvServerStores, InvMain, InvClients
         DEF Next, ServerWork
  <1>3. QED
    BY <1>1, <1>2

\* With patient clients the invariant holds throughout.
THEOREM PatientInv == ASSUME Patient PROVE Spec => []Inv
  <1>1. Inv /\ [Next]_vars => Inv'
    BY InvNext
  <1>2. QED
    BY <1>1, InvInit, PTL DEF Spec

\* With patient clients no open connection is ever lost by the phone: each is
\* the current one or about to be (tcp_server.c:64-65, 159-164).
THEOREM PatientNoLeak == ASSUME Patient PROVE Spec => []NoLeak
  <1>1. Inv => NoLeak
    BY DEF Inv
  <1>2. QED
    BY <1>1, PatientInv, PTL

\* With patient clients the connection the server thread closes before it
\* stores a new one is the previous one (tcp_server.c:158-163).
THEOREM PatientClosesPrevious == ASSUME Patient PROVE Spec => ClosesPrevious
  <1>1. ASSUME Inv, SrvClosePrior PROVE At(new_fd)' = At(new_fd)
    <2>1. At(new_fd) # None /\ new_fd # client_fd
      BY <1>1 DEF Inv, Install, Installing, SrvClosePrior, SrvGoto
    <2>2. new_fd' = new_fd /\ CloseFd(client_fd)
      BY <1>1 DEF SrvClosePrior
    <2>. QED
      BY <1>1, <2>1, <2>2 DEF At, CloseFd, Inv, TypeOK
  <1>2. Inv => [SrvClosePrior => At(new_fd)' = At(new_fd)]_vars
    BY <1>1
  <1>. QED
    BY <1>2, PatientInv, PTL DEF ClosesPrevious

\* With patient clients the main thread, told that a client has disconnected,
\* closes that client's connection (tcp_server.c:61-65).
THEOREM PatientClosesDisconnected == ASSUME Patient PROVE Spec => ClosesDisconnected
  <1>1. ASSUME Inv, MainClose, main = "eof", NEW c \in Open \ Open'
        PROVE  peer[c] = "fin"
    <2>1. At(client_fd) # None /\ peer[At(client_fd)] = "fin"
      BY <1>1 DEF Inv, Serving
    <2>2. PICK f \in Fd : fdtab[f] = c
      BY <1>1 DEF Open
    <2>3. CASE f = client_fd
      BY <1>1, <2>1, <2>2, <2>3 DEF At
    <2>4. CASE f # client_fd
      <3>1. fdtab'[f] = c
        BY <1>1, <2>2, <2>4 DEF MainClose, CloseFd, Inv, TypeOK
      <3>. QED
        BY <1>1, <2>2, <3>1 DEF Open
    <2>. QED
      BY <2>3, <2>4
  <1>2. Inv => [MainClose /\ main = "eof" => \A c \in Open \ Open' : peer[c] = "fin"]_vars
    BY <1>1
  <1>. QED
    BY <1>2, PatientInv, PTL DEF ClosesDisconnected

-----------------------------------------------------------------------------
(* CtrlServer implements CtrlLink for patient clients *)

\* The connection the server thread is installing.
Taken(c) == Installing /\ At(new_fd) = c

LEMMA LinkStutter ==
  ASSUME UNCHANGED <<peer, rx>>, \A c \in Conn : LinkOf(c)' = LinkOf(c)
  PROVE  UNCHANGED Link!vars
  BY DEF Link!vars

LEMMA LinkMove ==
  ASSUME NEW c \in Conn, NEW a, NEW b, LinkOf(c) = a,
         \A d \in Conn : LinkOf(d)' = IF d = c THEN b ELSE LinkOf(d)
  PROVE  Link!Move(c, a, b)
  BY DEF Link!Move

\* A connection's link depends on these facts about it only.
LEMMA LinkSame ==
  ASSUME NEW c \in Conn,
         (peer[c] = "new")' <=> peer[c] = "new",
         (c \in backlog \/ Taken(c))' <=> c \in backlog \/ Taken(c),
         (c \in Open)' <=> c \in Open
  PROVE  LinkOf(c)' = LinkOf(c)
  BY DEF LinkOf, Taken

LEMMA LinkInit == Init => Link!Init
  BY DEF Init, Link!Init, LinkOf

LEMMA LinkServer ==
  ASSUME Inv, Inv', ServerWork \/ SrvFail
  PROVE  Link!Next \/ UNCHANGED Link!vars
  <1> USE DEF SrvGoto, env, srvs, mains
  <1>1. CASE SrvSocket \/ SrvBind \/ SrvListen \/ SrvExit \/ SrvCheck
    <2>1. \A c \in Conn : LinkOf(c)' = LinkOf(c)
      BY <1>1, LinkSame DEF SrvSocket, SrvBind, SrvListen, SrvExit, SrvCheck,
                            Taken, Installing, Open, At
    <2>2. QED
      BY <1>1, <2>1, LinkStutter DEF SrvSocket, SrvBind, SrvListen, SrvExit, SrvCheck
  <1>2. CASE SrvAcceptEnter \/ SrvFail
    <2>1. Open' = Open /\ ~Installing /\ ~Installing'
      BY <1>2 DEF SrvAcceptEnter, SrvFail, FreeFds, Open, Inv, TypeOK, Install, Installing
    <2>2. \A c \in Conn : LinkOf(c)' = LinkOf(c)
      BY <1>2, <2>1, LinkSame DEF SrvAcceptEnter, SrvFail, Taken
    <2>3. QED
      BY <1>2, <2>2, LinkStutter DEF SrvAcceptEnter, SrvFail
  <1>3. ASSUME NEW c \in Conn, SrvAccept(c) PROVE UNCHANGED Link!vars
    <2> USE <1>3 DEF SrvAccept
    <2>1. new_fd \in Fd /\ fdtab[new_fd] = "held" /\ ~Installing /\ Installing'
      BY DEF Inv, Install, Installing
    <2>2. Open' = Open \cup {c} /\ At(new_fd)' = c
      BY <2>1 DEF Inv, Open, At, TypeOK
    <2>3. \A d \in Conn : d \in backlog <=> d = c
      BY DEF Inv, Tables
    <2>4. LinkOf(c)' = LinkOf(c)
      BY <2>1, <2>2, LinkSame DEF Taken, LinkOf
    <2>5. ASSUME NEW d \in Conn, d # c PROVE LinkOf(d)' = LinkOf(d)
      BY <2>1, <2>2, <2>3, <2>5, LinkSame DEF Taken
    <2>6. QED
      BY <2>4, <2>5, LinkStutter
  <1>4. CASE SrvClosePrior
    <2> USE <1>4 DEF SrvClosePrior, CloseFd
    <2>1. Installing /\ Installing' /\ At(new_fd) \in Conn /\ At(new_fd)' = At(new_fd)
      BY DEF Inv, Install, Installing, At, TypeOK
    <2>2. Open' = Open \ {At(client_fd)}
      BY DEF Inv, Open, At, Tables, TypeOK
    <2>3. CASE At(client_fd) = None
      <3>1. \A c \in Conn : LinkOf(c)' = LinkOf(c)
        BY <2>1, <2>2, <2>3, LinkSame DEF Taken
      <3>2. QED
        BY <3>1, LinkStutter
    <2>4. CASE At(client_fd) # None
      <3> PICK c \in Conn : c = At(client_fd)
        BY <2>4, AtType DEF Inv
      <3>1. c \in Open /\ c \in Conn /\ c # At(new_fd) /\ c \notin backlog
        BY <2>4, <2>1 DEF Inv, Install, Tables, Open, At, TypeOK, Installing
      <3>2. Silent(c)
        BY <3>1 DEF Inv, Wait, Busy, Installing
      <3>3. LinkOf(c) = "current" /\ LinkOf(c)' = "gone"
        BY <2>1, <2>2, <3>1, <3>2 DEF LinkOf, Silent
      <3>4. ASSUME NEW d \in Conn, d # c PROVE LinkOf(d)' = LinkOf(d)
        BY <2>1, <2>2, <3>4, LinkSame DEF Taken
      <3>5. Link!Move(c, "current", "gone")
        BY <3>1, <3>3, <3>4, LinkMove
      <3>6. peer[At(new_fd)] # "new"
        BY <2>1 DEF Inv, Tables, Open, At
      <3>7. LinkOf(At(new_fd)) = "waiting"
        BY <2>1, <3>6 DEF LinkOf
      <3>8. Link!Drop(c)
        BY <2>1, <3>2, <3>5, <3>7 DEF Link!Drop, Silent
      <3>9. QED
        BY <3>1, <3>8 DEF Link!Next
    <2>5. QED
      BY <2>3, <2>4
  <1>5. CASE SrvStore
    <2> USE <1>5 DEF SrvStore
    <2> PICK c \in Conn : c = At(new_fd)
      BY AtType DEF Inv, Install, Installing
    <2>1. Installing /\ ~Installing' /\ c \in Open /\ backlog = {}
      BY DEF Inv, Install, Installing, Open, At, TypeOK
    <2>2. Open' = Open /\ Open = {c}
      BY <2>1 DEF Inv, NoLeak, Tracked, Install, Open
    <2>3. peer[c] # "new"
      BY <2>1 DEF Inv, Tables
    <2>4. LinkOf(c) = "waiting" /\ LinkOf(c)' = "current"
      BY <2>1, <2>2, <2>3 DEF LinkOf
    <2>5. ASSUME NEW d \in Conn, d # c
          PROVE LinkOf(d)' = LinkOf(d) /\ LinkOf(d) # "current"
      BY <2>1, <2>2, <2>5, LinkSame DEF Taken, LinkOf
    <2>6. Link!Move(c, "waiting", "current")
      BY <2>1, <2>4, <2>5, LinkMove
    <2>7. Link!Take(c)
      BY <2>1, <2>4, <2>5, <2>6 DEF Link!Take
    <2>8. QED
      BY <2>1, <2>7 DEF Link!Next
  <1>6. QED
    BY <1>1, <1>2, <1>3, <1>4, <1>5 DEF ServerWork

LEMMA LinkMain ==
  ASSUME Inv, Inv', Main
  PROVE  Link!Next \/ UNCHANGED Link!vars
  <1> USE DEF MainGoto, env, srvs, mains
  <1>1. CASE \/ MainEnter \/ MainLoop \/ MainTest \/ MainFdSet \/ MainSelectEnter
             \/ MainSelect \/ MainRecv \/ MainReply \/ MainClear
    <2>1. UNCHANGED <<peer, rx, backlog, fdtab, srv, new_fd>>
      BY <1>1 DEF MainEnter, MainLoop, MainTest, MainFdSet, MainSelectEnter,
                  MainSelect, MainRecv, MainReply, MainClear
    <2>2. \A c \in Conn : LinkOf(c)' = LinkOf(c)
      BY <2>1, LinkSame DEF Taken, Installing, Open, At
    <2>3. QED
      BY <2>1, <2>2, LinkStutter
  <1>2. CASE MainRecvReturn
    <2>1. UNCHANGED <<peer, backlog, fdtab, srv, new_fd>>
      BY <1>2 DEF MainRecvReturn
    <2>2. \A c \in Conn : LinkOf(c)' = LinkOf(c)
      BY <2>1, LinkSame DEF Taken, Installing, Open, At
    <2>3. CASE UNCHANGED rx
      BY <2>1, <2>2, <2>3, LinkStutter
    <2>4. ASSUME NEW left \in 0..(rx[pin] - 1), rx' = [rx EXCEPT ![pin] = left]
          PROVE  Link!Next
      <3>1. ~Busy /\ pin \in Open /\ pin \in Conn /\ peer[pin] # "new"
        BY <1>2 DEF MainRecvReturn, Inv, Serving, Wait, Waits, Tables, Open, At, TypeOK
      <3>2. LinkOf(pin) = "current"
        BY <3>1 DEF LinkOf, Busy, Installing
      <3>3. Link!Receive(pin)
        BY <2>1, <2>2, <2>4, <3>1, <3>2 DEF Link!Receive
      <3>4. QED
        BY <3>1, <3>3 DEF Link!Next
    <2>5. QED
      BY <1>2, <2>3, <2>4 DEF MainRecvReturn
  <1>3. CASE MainClose
    <2> USE <1>3 DEF MainClose, CloseFd
    <2> PICK c \in Conn : c = At(client_fd)
      BY AtType DEF Inv, Serving
    <2>1. ~Busy /\ c \in Open /\ peer[c] = "fin" /\ rx[c] = 0
      BY DEF Inv, Serving, Wait, Waits, Open, At, TypeOK
    <2>2. Open' = Open \ {c}
      BY DEF Inv, Open, At, Tables, TypeOK
    <2>3. ~Busy'
      BY <2>1 DEF Busy, Installing
    <2>4. LinkOf(c) = "current" /\ LinkOf(c)' = "gone"
      BY <2>1, <2>2, <2>3 DEF LinkOf, Busy
    <2>5. ASSUME NEW d \in Conn, d # c PROVE LinkOf(d)' = LinkOf(d)
      BY <2>1, <2>2, <2>3, <2>5, LinkSame DEF Taken, Busy
    <2>6. Link!Move(c, "current", "gone")
      BY <2>1, <2>4, <2>5, LinkMove
    <2>7. Link!Drop(c)
      BY <2>1, <2>6 DEF Link!Drop
    <2>8. QED
      BY <2>1, <2>7 DEF Link!Next
  <1>4. QED
    BY <1>1, <1>2, <1>3 DEF Main

LEMMA LinkClients ==
  ASSUME Inv, Inv', Clients
  PROVE  Link!Next
  <1> USE DEF srvs, mains
  <1>1. PICK c \in Conn : Connect(c) \/ PeerSend(c) \/ PeerEnd(c, "fin") \/ PeerEnd(c, "dead")
    BY DEF Clients
  <1>2. Open' = Open /\ \A d \in Conn : Taken(d)' <=> Taken(d)
    BY <1>1 DEF Connect, PeerSend, PeerEnd, Open, Taken, Installing, At
  <1>3. CASE Connect(c)
    <2> USE <1>3 DEF Connect
    <2>1. LinkOf(c) = "none" /\ LinkOf(c)' = "waiting"
      BY DEF LinkOf, Inv, TypeOK
    <2>2. ASSUME NEW d \in Conn, d # c PROVE LinkOf(d)' = LinkOf(d)
      BY <1>2, <2>2, LinkSame DEF Inv, TypeOK
    <2>3. Link!Move(c, "none", "waiting")
      BY <2>1, <2>2, LinkMove
    <2>4. QED
      BY <2>3 DEF Link!Connect, Link!Next
  <1>4. CASE PeerSend(c) \/ PeerEnd(c, "fin") \/ PeerEnd(c, "dead")
    <2>1. backlog' = backlog /\ \A d \in Conn : (peer[d] = "new")' <=> peer[d] = "new"
      BY <1>4 DEF PeerSend, PeerEnd, Inv, TypeOK
    <2>2. \A d \in Conn : LinkOf(d)' = LinkOf(d)
      BY <1>2, <2>1, LinkSame
    <2>3. Link!Send(c) \/ Link!End(c, "fin") \/ Link!End(c, "dead")
      BY <1>4, <2>2 DEF PeerSend, PeerEnd, Link!Send, Link!End
    <2>4. QED
      BY <2>3 DEF Link!Next
  <1>5. QED
    BY <1>1, <1>3, <1>4

\* With patient clients the two threads of the phone implement CtrlLink:
\* connections are served one at a time and none is dropped with a command
\* unread (tcp_server.c:41-96, 98-171).
THEOREM PatientImplementsLink == ASSUME Patient PROVE Spec => ImplementsLink
  <1>1. ASSUME Inv, Inv', [Next]_vars PROVE [Link!Next]_(Link!vars)
    <2>1. CASE UNCHANGED vars
      <3>1. \A c \in Conn : LinkOf(c)' = LinkOf(c)
        BY <2>1, LinkSame DEF vars, Taken, Installing, Open, At
      <3>2. QED
        BY <2>1, <3>1, LinkStutter DEF vars
    <2>2. QED
      BY <1>1, <2>1, LinkServer, LinkMain, LinkClients DEF Next
  <1>2. QED
    BY <1>1, LinkInit, PatientInv, PTL DEF Spec, ImplementsLink, Link!Spec

-----------------------------------------------------------------------------
(* Clients that overlap: what holds whatever they do *)

\* A connection has one number, and none before it is accepted; the number
\* that accept reserves stays reserved until it returns; and nothing is stored
\* over a client_fd that names an open connection.
Slots ==
  /\ TypeOK
  /\ \A f, g \in Fd : fdtab[f] = fdtab[g] /\ fdtab[f] \in Conn => f = g
  /\ \A f \in Fd : fdtab[f] \notin backlog
  /\ \A c \in Conn : peer[c] = "new" => c \notin backlog /\ \A f \in Fd : fdtab[f] # c
  /\ srv = "wait" => new_fd \in Fd /\ fdtab[new_fd] = "held"
  /\ srv = "store" => At(client_fd) = None

LEMMA SlotsInit == Init => Slots
  BY TypeInit DEF Init, Slots, At

LEMMA SlotsServer == ASSUME Slots, TypeOK', ServerWork \/ SrvFail PROVE Slots'
  <1> USE DEF Slots, SrvGoto, env, mains
  <1>1. CASE SrvSocket \/ SrvBind \/ SrvListen \/ SrvExit \/ SrvStore
    BY <1>1 DEF SrvSocket, SrvBind, SrvListen, SrvExit, SrvStore, srvs, At
  <1>2. CASE SrvCheck
    <2>1. UNCHANGED <<peer, backlog, fdtab, client_fd>> /\ \A f : At(f)' = At(f)
      BY <1>2 DEF SrvCheck, At
    <2>2. srv' = "store" => At(client_fd) = None
      BY <1>2 DEF SrvCheck, At, TypeOK
    <2>3. srv' # "wait"
      BY <1>2 DEF SrvCheck
    <2>4. QED
      BY <2>1, <2>2, <2>3
  <1>3. CASE SrvAcceptEnter \/ SrvFail
    BY <1>3 DEF SrvAcceptEnter, SrvFail, FreeFds, TypeOK, Slot
  <1>4. ASSUME NEW c \in Conn, SrvAccept(c) PROVE Slots'
    <2> USE <1>4 DEF SrvAccept
    <2>1. new_fd \in Fd /\ \A f \in Fd : fdtab'[f] = IF f = new_fd THEN c ELSE fdtab[f]
      BY DEF TypeOK
    <2>2. backlog' = backlog \ {c} /\ c \in backlog /\ peer[c] # "new"
      OBVIOUS
    <2>3. \A f \in Fd : fdtab[f] # c
      BY <2>2
    <2>4. \A f, g \in Fd : fdtab'[f] = fdtab'[g] /\ fdtab'[f] \in Conn => f = g
      BY <2>1, <2>3
    <2>5. \A f \in Fd : fdtab'[f] \notin backlog'
      BY <2>1, <2>2
    <2>6. \A d \in Conn : peer'[d] = "new" => d \notin backlog' /\ \A f \in Fd : fdtab'[f] # d
      BY <2>1, <2>2
    <2>7. QED
      BY <2>4, <2>5, <2>6
  <1>5. CASE SrvClosePrior
    <2>1. At(client_fd)' = None
      BY <1>5 DEF SrvClosePrior, CloseFd, At, TypeOK
    <2>2. QED
      BY <1>5, <2>1 DEF SrvClosePrior, CloseFd, TypeOK, Slot
  <1>6. QED
    BY <1>1, <1>2, <1>3, <1>4, <1>5 DEF ServerWork

LEMMA SlotsMain == ASSUME Slots, TypeOK', Main PROVE Slots'
  <1> USE DEF Slots, MainGoto, env, srvs
  <1>1. CASE \/ MainEnter \/ MainLoop \/ MainTest \/ MainFdSet \/ MainSelectEnter
             \/ MainSelect \/ MainRecv \/ MainRecvReturn \/ MainReply
    BY <1>1 DEF MainEnter, MainLoop, MainTest, MainFdSet, MainSelectEnter,
                MainSelect, MainRecv, MainRecvReturn, MainReply, At
  <1>2. CASE MainClose
    BY <1>2 DEF MainClose, CloseFd, At, TypeOK, Slot
  <1>3. CASE MainClear
    BY <1>3 DEF MainClear, At
  <1>4. QED
    BY <1>1, <1>2, <1>3 DEF Main

LEMMA SlotsClients == ASSUME Slots, TypeOK', Clients PROVE Slots'
  <1>1. PICK c \in Conn : Connect(c) \/ PeerSend(c) \/ PeerEnd(c, "fin") \/ PeerEnd(c, "dead")
    BY DEF Clients
  <1>2. UNCHANGED <<fdtab, client_fd, srvs>>
    BY <1>1 DEF Connect, PeerSend, PeerEnd
  <1>3. \A d \in Conn : peer'[d] = "new" => peer[d] = "new"
    BY <1>1 DEF Connect, PeerSend, PeerEnd, Slots, TypeOK
  <1>4. /\ backlog' \subseteq backlog \cup {c}
        /\ backlog' # backlog => peer[c] = "new" /\ peer'[c] # "new"
    BY <1>1 DEF Connect, PeerSend, PeerEnd, Slots, TypeOK
  <1>5. QED
    BY <1>2, <1>3, <1>4 DEF Slots, srvs, At

LEMMA SlotsNext == ASSUME Slots, [Next]_vars PROVE Slots'
  <1>1. CASE UNCHANGED vars
    BY <1>1 DEF vars, Slots, TypeOK, At
  <1>2. CASE Next
    <2>1. TypeOK'
      BY <1>2, TypeServer, TypeMain, TypeClients DEF Next, Slots
    <2>2. QED
      BY <1>2, <2>1, SlotsServer, SlotsMain, SlotsClients DEF Next
  <1>3. QED
    BY <1>1, <1>2

\* A connection that is tracked and stays open stays tracked, but for main's
\* reset of client_fd.
LEMMA TrackedStays ==
  ASSUME Slots, Next, ~MainClear, NEW c \in Conn, Tracked(c), c \in Open'
  PROVE  Tracked(c)'
  <1> USE DEF Tracked, Installing, SrvGoto, MainGoto, env, srvs, mains
  <1>1. CASE \/ SrvSocket \/ SrvBind \/ SrvListen \/ SrvCheck \/ SrvExit
             \/ MainEnter \/ MainLoop \/ MainTest \/ MainFdSet \/ MainSelectEnter
             \/ MainSelect \/ MainRecv \/ MainRecvReturn \/ MainReply \/ Clients
    BY <1>1 DEF SrvSocket, SrvBind, SrvListen, SrvCheck, SrvExit, MainEnter,
                MainLoop, MainTest, MainFdSet, MainSelectEnter, MainSelect, MainRecv,
                MainRecvReturn, MainReply, Clients, Connect, PeerSend, PeerEnd, At
  <1>2. CASE SrvAcceptEnter \/ SrvFail \/ \E d \in Conn : SrvAccept(d)
    BY <1>2 DEF SrvAcceptEnter, SrvFail, SrvAccept, FreeFds, Slots, TypeOK, Slot, At
  <1>3. CASE SrvClosePrior \/ MainClose
    <2>1. CloseFd(client_fd) /\ UNCHANGED <<client_fd, new_fd>>
      BY <1>3 DEF SrvClosePrior, MainClose
    <2>2. Installing' <=> Installing
      BY <1>3 DEF SrvClosePrior, MainClose
    <2>3. c # At(client_fd)
      BY <2>1 DEF CloseFd, Open, At, Slots, TypeOK
    <2>4. Installing /\ At(new_fd) = c /\ new_fd # client_fd
      BY <2>3
    <2>5. At(new_fd)' = c
      BY <2>1, <2>4 DEF CloseFd, At, Slots, TypeOK
    <2>6. QED
      BY <2>2, <2>4, <2>5
  <1>4. CASE SrvStore
    <2>1. At(new_fd) = c
      BY <1>4 DEF SrvStore, Slots
    <2>2. QED
      BY <1>4, <2>1 DEF SrvStore, At
  <1>5. QED
    BY <1>1, <1>2, <1>3, <1>4 DEF Next, ServerWork, Main

\* Whatever the clients do, the only step that loses an open connection is the
\* main thread's reset of client_fd (tcp_server.c:65, 77): the server thread
\* stores over client_fd only when that names no open connection.
THEOREM LeaksAtClear == Spec => LeakOrigin
  <1>1. Slots /\ [Next]_vars => Slots'
    BY SlotsNext
  <1>2. ASSUME Slots, [Next]_vars
        PROVE  [\A c \in Open : Tracked(c) /\ c \in Open' /\ ~Tracked(c)' => MainClear]_vars
    BY <1>2, TrackedStays DEF Open
  <1>3. QED
    BY <1>1, <1>2, SlotsInit, PTL DEF Spec, LeakOrigin

=============================================================================
