----------------------------- MODULE CtrlServer -----------------------------
(***************************************************************************)
(* The control connection of the phone (dz_voip_20200810/src/tcp_server.c),*)
(* at the level of file descriptors.  Two threads of one process share the *)
(* global tcp_ctrl_events without a lock:                                  *)
(*   - the server thread accepts a client, closes the descriptor it finds  *)
(*     in client_fd and stores the new one (tcp_server_thread);            *)
(*   - the main thread waits for data on client_fd, receives a command,    *)
(*     answers it, and on end of file closes client_fd and sets it to -1   *)
(*     (server_recv_msg, called by ctrl_events_handle).                    *)
(* The build has no optimisation flag, so every use of a global in the C   *)
(* text is a read of its own: each read and each write is a step here.     *)
(* The descriptor table is the kernel's: accept reserves the lowest free   *)
(* number when it is entered, close frees a number at once, and a blocked  *)
(* select or recv keeps the connection it started on.                      *)
(***************************************************************************)
EXTENDS Integers

CONSTANTS
  Conn,      \* client connections, each used once
  Fd,        \* descriptor numbers left for accepted connections
  ListenFd,  \* descriptor number of the listening socket
  MaxRx,     \* bound: commands queued unread on one connection
  Patient,   \* TRUE: clients connect one at a time (see Quiet)
  None       \* no connection

ASSUME FdAssumption == Fd \subseteq Nat \ {0} /\ ListenFd \in Nat \ {0}
ASSUME ConnAssumption == "free" \notin Conn /\ "held" \notin Conn /\ None \notin Conn
ASSUME BoundAssumption == MaxRx \in Nat /\ Patient \in BOOLEAN

VARIABLES
  up,         \* the process runs
  peer, rx,   \* per connection: state of the far end, commands unread
  backlog,    \* connections the kernel completed, waiting for accept
  fdtab,      \* descriptor table
  server_fd, client_fd,   \* tcp_ctrl_events
  srv, new_fd,            \* server thread: control point, local client_fd
  main, selfd, pin        \* main thread: control point, the descriptor put
                          \* in the fd_set, the connection select or recv
                          \* holds (in "handle": the command's sender)

env   == <<peer, rx, backlog>>
srvs  == <<srv, new_fd, server_fd>>
mains == <<main, selfd, pin>>
vars  == <<up, peer, rx, backlog, fdtab, server_fd, client_fd,
           srv, new_fd, main, selfd, pin>>

Slot == Conn \cup {"free", "held"}
SrvPc == {"socket", "bind", "listen", "accept", "wait", "check", "close",
          "store", "sleep", "exit"}
MainPc == {"idle", "loop", "test", "fdset", "enter", "select", "recv",
           "recving", "handle", "eof", "error", "clear"}

\* The two threads share no lock, so no control point excludes another.
TypeOK ==
  /\ up \in BOOLEAN
  /\ peer \in [Conn -> {"new", "up", "fin", "dead"}]
  /\ rx \in [Conn -> 0..MaxRx]
  /\ backlog \in SUBSET Conn
  /\ fdtab \in [Fd -> Slot]
  /\ server_fd \in {-1, 0, ListenFd}
  /\ client_fd \in Fd \cup {-1, 0}
  /\ srv \in SrvPc /\ new_fd \in Fd \cup {0}
  /\ main \in MainPc /\ selfd \in Fd \cup {-1, 0} /\ pin \in Conn \cup {None}

Init ==
  /\ up = TRUE
  /\ peer = [c \in Conn |-> "new"] /\ rx = [c \in Conn |-> 0]
  /\ backlog = {}
  /\ fdtab = [f \in Fd |-> "free"]
  /\ server_fd = 0 /\ client_fd = 0
  /\ srv = "socket" /\ new_fd = 0
  /\ main = "idle" /\ selfd = 0 /\ pin = None

-----------------------------------------------------------------------------
(* Descriptors *)

\* The connection behind descriptor f, None when f names no open socket.
At(f) == IF f \in Fd THEN IF fdtab[f] \in Conn THEN fdtab[f] ELSE None ELSE None

\* close(f): EBADF, without effect, unless f is an open socket.
CloseFd(f) == fdtab' = IF At(f) = None THEN fdtab ELSE [fdtab EXCEPT ![f] = "free"]

FreeFds == {f \in Fd : fdtab[f] = "free"}

Open == {c \in Conn : \E f \in Fd : fdtab[f] = c}

\* select finds the connection readable: data, or the peer's FIN.
Ready(c) == rx[c] > 0 \/ peer[c] = "fin"

-----------------------------------------------------------------------------
(* The server thread *)

SrvGoto(a, b) == srv = a /\ srv' = b

\* socket() is retried until it succeeds; meanwhile server_fd is -1.
SrvSocket ==
  /\ \/ SrvGoto("socket", "bind") /\ server_fd' = ListenFd
     \/ SrvGoto("socket", "socket") /\ server_fd' = -1
  /\ UNCHANGED <<up, env, fdtab, client_fd, new_fd, mains>>

\* bind() is retried until it succeeds.
SrvBind == /\ SrvGoto("bind", "listen")
           /\ UNCHANGED <<up, env, fdtab, client_fd, new_fd, server_fd, mains>>

SrvListen == /\ SrvGoto("listen", "accept") \/ SrvGoto("sleep", "accept")
             /\ UNCHANGED <<up, env, fdtab, client_fd, new_fd, server_fd, mains>>

\* accept() is entered: the kernel reserves the lowest free number.
SrvAcceptEnter ==
  /\ SrvGoto("accept", "wait")
  /\ \E f \in FreeFds :
       /\ \A g \in FreeFds : f <= g
       /\ new_fd' = f
       /\ fdtab' = [fdtab EXCEPT ![f] = "held"]
  /\ UNCHANGED <<up, env, server_fd, client_fd, mains>>

\* accept() returns connection c.
SrvAccept(c) ==
  /\ SrvGoto("wait", "check")
  /\ c \in backlog /\ backlog' = backlog \ {c}
  /\ fdtab' = [fdtab EXCEPT ![new_fd] = c]
  /\ UNCHANGED <<up, peer, rx, server_fd, client_fd, new_fd, mains>>

\* Bug: the previous client's descriptor is overwritten without being closed.
SrvCheckSkips ==
  /\ SrvGoto("check", "store")
  /\ UNCHANGED <<up, env, fdtab, server_fd, client_fd, new_fd, mains>>

\* Bug: a new client is kept until the previous one has gone.
SrvCheckRefuses ==
  /\ client_fd <= 0 /\ SrvGoto("check", "store")
  /\ UNCHANGED <<up, env, fdtab, server_fd, client_fd, new_fd, mains>>

\* if(tcp_ctrl_events.client_fd > 0)
SrvCheck ==
  /\ IF client_fd > 0 THEN SrvGoto("check", "close") ELSE SrvGoto("check", "store")
  /\ UNCHANGED <<up, env, fdtab, server_fd, client_fd, new_fd, mains>>

\* close(tcp_ctrl_events.client_fd), read again.
SrvClosePrior ==
  /\ SrvGoto("close", "store")
  /\ CloseFd(client_fd)
  /\ UNCHANGED <<up, env, server_fd, client_fd, new_fd, mains>>

SrvStore ==
  /\ SrvGoto("store", "sleep")
  /\ client_fd' = new_fd
  /\ UNCHANGED <<up, env, fdtab, server_fd, new_fd, mains>>

\* listen or accept fails (accept also when no descriptor is free).
SrvFail ==
  /\ srv \in {"listen", "sleep", "accept", "wait"} /\ srv' = "exit"
  /\ server_fd' = -1
  /\ fdtab' = IF srv = "wait" THEN [fdtab EXCEPT ![new_fd] = "free"] ELSE fdtab
  /\ UNCHANGED <<up, env, client_fd, new_fd, mains>>

SrvExit ==
  /\ srv = "exit" /\ up' = FALSE
  /\ UNCHANGED <<env, fdtab, client_fd, srvs, mains>>

-----------------------------------------------------------------------------
(* The main thread *)

MainGoto(a, b) == main = a /\ main' = b

\* main()'s loop finds client_fd > 0 and enters ctrl_events_handle for good.
MainEnter ==
  /\ client_fd > 0 /\ MainGoto("idle", "loop")
  /\ UNCHANGED <<up, env, fdtab, client_fd, srvs, selfd, pin>>

MainLoop ==
  /\ server_fd > 0 /\ MainGoto("loop", "test")
  /\ UNCHANGED <<up, env, fdtab, client_fd, srvs, selfd, pin>>

MainTest ==
  /\ client_fd > 0 /\ MainGoto("test", "fdset")
  /\ UNCHANGED <<up, env, fdtab, client_fd, srvs, selfd, pin>>

\* FD_SET(net_info->client_fd, &tcp_rfds)
MainFdSet ==
  /\ MainGoto("fdset", "enter") /\ selfd' = client_fd
  /\ UNCHANGED <<up, env, fdtab, client_fd, srvs, pin>>

\* Bug: whatever the slot holds is taken for a connection.
MainSelectAny ==
  /\ MainGoto("enter", "select")
  /\ pin' = IF selfd <= client_fd /\ selfd \in Fd THEN fdtab[selfd] ELSE None
  /\ UNCHANGED <<up, env, fdtab, client_fd, srvs, selfd>>

\* select(net_info->client_fd + 1, ...): the descriptor in the set counts only
\* below this new reading of client_fd, and must be open.
MainSelectEnter ==
  /\ MainGoto("enter", "select")
  /\ pin' = IF selfd <= client_fd THEN At(selfd) ELSE None
  /\ UNCHANGED <<up, env, fdtab, client_fd, srvs, selfd>>

\* select returns > 0, or <= 0 (EBADF, five seconds without data).
MainSelect ==
  /\ IF pin # None /\ Ready(pin) THEN MainGoto("select", "recv")
                                 ELSE MainGoto("select", "test")
  /\ pin' = None /\ selfd' = 0
  /\ UNCHANGED <<up, env, fdtab, client_fd, srvs>>

\* recv(net_info->client_fd, ...) on whatever that is now; EBADF is an error.
MainRecv ==
  /\ pin' = At(client_fd)
  /\ IF pin' # None THEN MainGoto("recv", "recving") ELSE MainGoto("recv", "error")
  /\ UNCHANGED <<up, env, fdtab, client_fd, srvs, selfd>>

\* Bug: the FIN ends the connection although data is unread.
MainRecvEarlyEof ==
  \/ /\ MainGoto("recving", "handle")
     /\ \E left \in 0..(rx[pin] - 1) : rx' = [rx EXCEPT ![pin] = left]
     /\ UNCHANGED <<up, peer, backlog, fdtab, client_fd, srvs, selfd, pin>>
  \/ /\ MainGoto("recving", "eof")
     /\ peer[pin] = "fin"
     /\ pin' = None
     /\ UNCHANGED <<up, env, fdtab, client_fd, srvs, selfd>>

\* recv returns some of the data, or 0 after the last of it; else it blocks.
MainRecvReturn ==
  \/ /\ MainGoto("recving", "handle")
     /\ \E left \in 0..(rx[pin] - 1) : rx' = [rx EXCEPT ![pin] = left]
     /\ UNCHANGED <<up, peer, backlog, fdtab, client_fd, srvs, selfd, pin>>
  \/ /\ MainGoto("recving", "eof")
     /\ rx[pin] = 0 /\ peer[pin] = "fin"
     /\ pin' = None
     /\ UNCHANGED <<up, env, fdtab, client_fd, srvs, selfd>>

\* Bug: the branch falls through: every command is followed by the tear-down.
MainReplyFallsThrough ==
  /\ MainGoto("handle", "eof") /\ pin' = None
  /\ UNCHANGED <<up, env, fdtab, client_fd, srvs, selfd>>

\* The command is carried out and answered on At(client_fd).
MainReply ==
  /\ MainGoto("handle", "loop") /\ pin' = None
  /\ UNCHANGED <<up, env, fdtab, client_fd, srvs, selfd>>

\* Bug: client_fd is reset without the close.
MainCloseForgets ==
  /\ MainGoto("eof", "clear") \/ MainGoto("error", "clear")
  /\ UNCHANGED <<up, env, fdtab, client_fd, srvs, selfd, pin>>

\* close(net_info->client_fd), then client_fd = -1: two steps.
MainClose ==
  /\ MainGoto("eof", "clear") \/ MainGoto("error", "clear")
  /\ CloseFd(client_fd)
  /\ UNCHANGED <<up, env, client_fd, srvs, selfd, pin>>

\* Bug: client_fd keeps the number just closed.
MainClearNoReset ==
  /\ MainGoto("clear", "loop")
  /\ UNCHANGED <<up, env, fdtab, client_fd, srvs, selfd, pin>>

MainClear ==
  /\ MainGoto("clear", "loop")
  /\ client_fd' = -1
  /\ UNCHANGED <<up, env, fdtab, srvs, selfd, pin>>

-----------------------------------------------------------------------------
(* The clients *)

Listening == srv \notin {"socket", "bind", "listen", "exit"}

\* Connection c no longer concerns the phone: never made, already closed by
\* it, or the current one with its far end silently gone and nothing unread.
Settled(c) == \/ peer[c] = "new"
              \/ c \notin backlog \cup Open
              \/ peer[c] = "dead" /\ rx[c] = 0 /\ At(client_fd) = c

\* A patient client connects only after every earlier connection is settled
\* and the main thread has had the time to return to its wait.
Quiet == /\ \A c \in Conn : Settled(c)
         /\ main \in {"idle", "loop", "test", "select"}

Connect(c) ==
  /\ peer[c] = "new" /\ Listening
  /\ Patient => Quiet
  /\ peer' = [peer EXCEPT ![c] = "up"]
  /\ backlog' = backlog \cup {c}
  /\ UNCHANGED <<up, rx, fdtab, client_fd, srvs, mains>>

PeerSend(c) ==
  /\ peer[c] = "up" /\ rx[c] < MaxRx
  /\ rx' = [rx EXCEPT ![c] = @ + 1]
  /\ UNCHANGED <<up, peer, backlog, fdtab, client_fd, srvs, mains>>

\* The client closes its socket, or vanishes without a FIN.
PeerEnd(c, how) ==
  /\ peer[c] = "up"
  /\ peer' = [peer EXCEPT ![c] = how]
  /\ UNCHANGED <<up, rx, backlog, fdtab, client_fd, srvs, mains>>

-----------------------------------------------------------------------------
ServerWork == \/ SrvSocket \/ SrvBind \/ SrvListen \/ SrvAcceptEnter
              \/ (\E c \in Conn : SrvAccept(c))
              \/ SrvCheck \/ SrvClosePrior \/ SrvStore \/ SrvExit
              \/ srv = "accept" /\ FreeFds = {} /\ SrvFail

Main == \/ MainEnter \/ MainLoop \/ MainTest \/ MainFdSet \/ MainSelectEnter
        \/ MainSelect \/ MainRecv \/ MainRecvReturn \/ MainReply
        \/ MainClose \/ MainClear

Clients == \E c \in Conn : \/ Connect(c) \/ PeerSend(c)
                           \/ PeerEnd(c, "fin") \/ PeerEnd(c, "dead")

Next == up /\ (ServerWork \/ SrvFail \/ Main \/ Clients)

Spec == Init /\ [][Next]_vars

\* The scheduler runs both threads; socket() succeeds if tried long enough.
\* Nothing is assumed of the clients, and listen and accept need not fail.
Fairness == /\ WF_vars(up /\ ServerWork) /\ WF_vars(up /\ Main)
            /\ SF_vars(up /\ SrvSocket /\ srv' = "bind")

FairSpec == Spec /\ Fairness

-----------------------------------------------------------------------------
(* Properties *)

\* The server thread holds an accepted connection it has not yet stored.
Installing == srv \in {"check", "close", "store"}

\* What a client of the phone can say of its connection.
LinkOf(c) == IF peer[c] = "new" THEN "none"
             ELSE IF c \in backlog \/ (Installing /\ At(new_fd) = c) THEN "waiting"
             ELSE IF c \in Open THEN "current" ELSE "gone"

Link == INSTANCE CtrlLink WITH link <- [c \in Conn |-> LinkOf(c)]

\* For patient clients the two threads implement CtrlLink: one connection at a
\* time, and none dropped with a command unread (tcp_server.c:41-96, 98-171).
ImplementsLink == Link!Spec

\* No connection is lost: an open descriptor is either the one client_fd names
\* or the one the server thread is about to store there.
Tracked(c) == At(client_fd) = c \/ (Installing /\ At(new_fd) = c)
NoLeak == \A c \in Open : Tracked(c)

\* The connection the server thread closes before storing a new one is a
\* previous one, never the one just accepted (tcp_server.c:158 "close the
\* previous socket").
ClosesPrevious == [][SrvClosePrior => At(new_fd)' = At(new_fd)]_vars

\* After end of file the main thread closes the connection whose client has
\* disconnected (tcp_server.c:61 "client disconnect"), not another one.  (With
\* clients that overlap it may close the one just stored in client_fd.)
ClosesDisconnected ==
  [][MainClose /\ main = "eof" => \A c \in Open \ Open' : peer[c] = "fin"]_vars

\* Whatever the clients do, a connection the threads track stops being
\* tracked while open only at main's reset of client_fd (tcp_server.c:65, 77).
LeakOrigin ==
  [][\A c \in Open : Tracked(c) /\ c \in Open' /\ ~Tracked(c)' => MainClear]_vars

\* A client the kernel has connected is accepted and stored (tcp_server.c:148,
\* 164), whatever the main thread does, unless the process ends.
Served == \A c \in Conn : c \in backlog ~> LinkOf(c) \in {"current", "gone"} \/ ~up

\* When a client closes, the phone comes to close its side too
\* (tcp_server.c:61-68): the descriptor does not stay in use.
Released == \A c \in Conn : peer[c] = "fin" ~> LinkOf(c) = "gone" \/ ~up

-----------------------------------------------------------------------------
(* The inductive invariant for patient clients *)

Waits == {"idle", "loop", "test", "fdset", "enter", "select"}
Busy  == backlog # {} \/ Installing
Silent(c) == peer[c] = "dead" /\ rx[c] = 0

\* Descriptors and connections match one to one.
Tables ==
  /\ \A f, g \in Fd : fdtab[f] = fdtab[g] /\ fdtab[f] \in Conn => f = g
  /\ \A f \in Fd : fdtab[f] = "held" => srv = "wait" /\ f = new_fd
  /\ \A c \in backlog : c \notin Open /\ \A d \in backlog : c = d
  /\ \A c \in Conn : peer[c] = "new" => c \notin backlog \cup Open /\ rx[c] = 0

\* What the server thread's control point says of its descriptor.
Install ==
  /\ srv = "wait" => new_fd \in Fd /\ fdtab[new_fd] = "held"
  /\ Installing => /\ At(new_fd) # None /\ new_fd # client_fd
                   /\ backlog = {}
  /\ srv = "close" => client_fd > 0
  /\ srv = "store" => At(client_fd) = None

\* While a connection is being made, the main thread waits, and every other
\* open connection is silent.
Wait ==
  Busy => /\ main \in Waits
          /\ \A c \in Open : (Installing /\ At(new_fd) = c) \/ Silent(c)

\* client_fd names an open connection but in the windows between close and
\* the assignment that follows it.
Current == client_fd > 0 /\ At(client_fd) = None => srv = "store" \/ main = "clear"

\* What the main thread's control point says of the connection it serves.
Serving ==
  /\ main = "enter" => \/ selfd = client_fd
                       \/ At(selfd) = None /\ ~Busy
  /\ main = "select" /\ pin # None => At(client_fd) = pin \/ Silent(pin)
  /\ main = "recv" => At(client_fd) # None /\ Ready(At(client_fd))
  /\ main \in {"recving", "handle"} => pin # None /\ pin = At(client_fd)
  /\ main = "recving" => Ready(pin)
  /\ main = "eof" => /\ At(client_fd) # None
                     /\ peer[At(client_fd)] = "fin" /\ rx[At(client_fd)] = 0
  /\ main # "error"
  /\ main = "clear" => At(client_fd) = None

Inv == /\ TypeOK /\ Tables /\ Install /\ Wait /\ Current /\ Serving /\ NoLeak
=============================================================================
