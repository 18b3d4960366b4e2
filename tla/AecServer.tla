------------------------------ MODULE AecServer ------------------------------
(***************************************************************************)
(* The echo-cancelling audio server (algotest/src/dz_voip.c, main.c).  Two *)
(* server threads accept clients and give each a worker, to which they     *)
(* pass the address of their local client_fd, overwritten by the next      *)
(* accept.  Nothing is ever closed, so a descriptor is named here by its   *)
(* connection.  The workers of a kind share globals: recv_buf for those    *)
(* that play; the global client_fd, the engine fespa and send_buf for      *)
(* those that record.  Sound is fed to the engine fespa names, and an      *)
(* engine's own thread sends what it makes of it to the global client_fd.  *)
(* A worker, and the engine and the buffer it creates, are named by the    *)
(* connection the worker was created for.                                  *)
(***************************************************************************)
EXTENDS Naturals, FiniteSets

CONSTANTS
  SendConn,  \* clients of TCP_SEND_PORT, each used once
  RecvConn,  \* clients of TCP_RECV_PORT, each used once
  None       \* nothing: no connection, no owner, no engine, silence

Conn == SendConn \cup RecvConn
Port == {"send", "recv"}

AecAssumption == SendConn \cap RecvConn = {} /\ None \notin Conn

VARIABLES
  up,           \* "yes" while the process runs, "no" before and after
  peer,         \* per connection: state of the client
  backlog,      \* connections waiting for accept
  srv,          \* per port: has the server thread begun to listen
  client_fd,    \* per port: the server's local client_fd
  work, fd,     \* per worker: control point, its descriptor
  mutex_audio,  \* the owner, or None
  broken,       \* "yes" once the mutex was initialised while it was held
  recv_buf,     \* the worker that allocated the buffer played from
  into,         \* per worker: the buffer its recv() was given
  holds,        \* per buffer: whose sound is in it
  global_fd,    \* the global client_fd
  fespa,        \* the engine that is fed
  send_buf,     \* "yes" once it is allocated
  engine,       \* per engine: "none", "new", "registered", "fed", "called"
  heard         \* clients that have been sent sound

nets   == <<peer, backlog, srv, client_fd>>
locks  == <<mutex_audio, broken>>
plays  == <<recv_buf, into, holds>>
voices == <<global_fd, fespa, send_buf, engine, heard>>
vars == <<up, nets, work, fd, locks, plays, voices>>

PortOf(c) == IF c \in SendConn THEN "send" ELSE "recv"
Started == {w \in Conn : work[w] \notin {"none", "start"}}
InPcm == {w \in Conn : work[w] = "pcm"}

Init ==
  /\ up \in {"yes", "no"} /\ peer = [c \in Conn |-> "new"] /\ backlog = {}
  /\ srv = [p \in Port |-> "start"] /\ client_fd = [p \in Port |-> None]
  /\ work = [w \in Conn |-> "none"] /\ fd = [w \in Conn |-> None]
  /\ mutex_audio = None /\ broken = "no"
  /\ recv_buf = None /\ into = [w \in RecvConn |-> None]
  /\ holds = [w \in RecvConn |-> None]
  /\ global_fd = None /\ fespa = None /\ send_buf = "no"
  /\ engine = [w \in SendConn |-> "none"] /\ heard = {}

\* exit(), a failed assert or a signal: only who was served is remembered.
Exit ==
  /\ up' = "no" /\ peer' = [c \in Conn |-> "gone"] /\ backlog' = {}
  /\ srv' = [p \in Port |-> "start"] /\ client_fd' = [p \in Port |-> None]
  /\ work' = [w \in Conn |-> "none"] /\ fd' = [w \in Conn |-> None]
  /\ mutex_audio' = None /\ broken' = "no"
  /\ recv_buf' = None /\ into' = [w \in RecvConn |-> None]
  /\ holds' = [w \in RecvConn |-> None]
  /\ global_fd' = None /\ fespa' = None /\ send_buf' = "no"
  /\ engine' = [w \in SendConn |-> "none"] /\ UNCHANGED heard

-----------------------------------------------------------------------------
(* Server threads *)

\* Each thread initialises the mutex, whoever holds it, and listens.
Listen(p) ==
  /\ srv[p] = "start" /\ srv' = [srv EXCEPT ![p] = "accept"]
  /\ mutex_audio' = None
  /\ broken' = IF mutex_audio = None THEN broken ELSE "yes"
  /\ UNCHANGED <<up, peer, backlog, client_fd, work, fd, plays, voices>>

ListenFails(p) == srv[p] = "start" /\ Exit

Accept(c) ==
  LET p == PortOf(c) IN
  /\ srv[p] = "accept" /\ c \in backlog /\ backlog' = backlog \ {c}
  /\ client_fd' = [client_fd EXCEPT ![p] = c]
  /\ work' = [work EXCEPT ![c] = "start"]
  /\ UNCHANGED <<up, peer, srv, fd, locks, plays, voices>>

-----------------------------------------------------------------------------
(* server_recv *)

WorkGoto(w, a, b) == work[w] = a /\ work' = [work EXCEPT ![w] = b]

\* The local client_fd of the playing worker is its own.
RecvStart(w) ==
  /\ w \in RecvConn /\ WorkGoto(w, "start", "open")
  /\ fd' = [fd EXCEPT ![w] = client_fd["recv"]]
  /\ UNCHANGED <<up, nets, locks, plays, voices>>

\* set_params_playback, and a new zeroed recv_buf for everybody.
RecvOpen(w) ==
  /\ w \in RecvConn /\ WorkGoto(w, "open", "recv")
  /\ recv_buf' = w /\ holds' = [holds EXCEPT ![w] = None]
  /\ UNCHANGED <<up, nets, fd, locks, into, voices>>

OpenFails(w) == work[w] = "open" /\ Exit

Recv(w) ==
  /\ WorkGoto(w, "recv", "recving")
  /\ into' = [into EXCEPT ![w] = recv_buf]
  /\ UNCHANGED <<up, nets, fd, locks, recv_buf, holds, voices>>

\* At the end of the stream recv is called again and again.
RecvReturn(w) ==
  /\ work[w] = "recving"
  /\ IF peer[fd[w]] = "gone" THEN WorkGoto(w, "recving", "recv") /\ UNCHANGED holds
     ELSE /\ WorkGoto(w, "recving", "lock")
          /\ holds' = [holds EXCEPT ![into[w]] = fd[w]]
  /\ UNCHANGED <<up, nets, fd, locks, recv_buf, into, voices>>

\* Bug: the devices are used without the mutex.
LockSkips(w) ==
  /\ WorkGoto(w, "lock", "pcm")
  /\ UNCHANGED <<up, nets, fd, locks, plays, voices>>

Lock(w) ==
  /\ WorkGoto(w, "lock", "pcm")
  /\ mutex_audio = None /\ mutex_audio' = w
  /\ UNCHANGED <<up, nets, fd, broken, plays, voices>>

\* snd_pcm_writei from recv_buf, or snd_pcm_readi into the worker's own
\* buffer, with their error cases; the unlock frees the mutex for anybody.
Unlock(w) ==
  /\ WorkGoto(w, "pcm", IF w \in RecvConn THEN "clear" ELSE "feed")
  /\ mutex_audio' = None
  /\ UNCHANGED <<up, nets, fd, broken, plays, voices>>

\* Bug: only the part of the buffer just received is cleared, before the next.
ClearForgets(w) ==
  /\ WorkGoto(w, "clear", "recv")
  /\ UNCHANGED <<up, nets, fd, locks, plays, voices>>

\* memset(recv_buf, 0, size)
Clear(w) ==
  /\ WorkGoto(w, "clear", "recv")
  /\ holds' = [holds EXCEPT ![recv_buf] = None]
  /\ UNCHANGED <<up, nets, fd, locks, recv_buf, into, voices>>

-----------------------------------------------------------------------------
(* server_send, and duilite_init *)

\* The recording worker stores its descriptor in the GLOBAL client_fd.
SendStart(w) ==
  /\ w \in SendConn /\ WorkGoto(w, "start", "open")
  /\ global_fd' = client_fd["send"]
  /\ UNCHANGED <<up, nets, fd, locks, plays, fespa, send_buf, engine, heard>>

\* set_params_capture
SendOpen(w) ==
  /\ w \in SendConn /\ WorkGoto(w, "open", "load")
  /\ UNCHANGED <<up, nets, fd, locks, plays, voices>>

\* duilite_library_load and fespa = duilite_fespa_new, or the assert.
Load(w) ==
  /\ work[w] = "load"
  /\ \/ /\ WorkGoto(w, "load", "register")
        /\ fespa' = w /\ engine' = [engine EXCEPT ![w] = "new"]
        /\ UNCHANGED <<up, nets, fd, locks, plays, global_fd, send_buf, heard>>
     \/ Exit

\* Bug: the callbacks are left to the engine that was there before.
RegisterForgets(w) ==
  /\ WorkGoto(w, "register", "alloc")
  /\ UNCHANGED <<up, nets, fd, locks, plays, voices>>

\* The callbacks are registered with whatever fespa is now.
Register(w) ==
  /\ WorkGoto(w, "register", "alloc")
  /\ engine' = [engine EXCEPT ![fespa] = IF @ = "new" THEN "registered" ELSE @]
  /\ UNCHANGED <<up, nets, fd, locks, plays, global_fd, fespa, send_buf, heard>>

Alloc(w) ==
  /\ WorkGoto(w, "alloc", "lock") /\ send_buf' = "yes"
  /\ UNCHANGED <<up, nets, fd, locks, plays, global_fd, fespa, engine, heard>>

\* duilite_feed: an engine without callbacks drops it.
Feed(w) ==
  /\ WorkGoto(w, "feed", "lock")
  /\ engine' = [engine EXCEPT ![fespa] = IF @ = "registered" THEN "fed" ELSE @]
  /\ UNCHANGED <<up, nets, fd, locks, plays, global_fd, fespa, send_buf, heard>>

-----------------------------------------------------------------------------
(* The engines' threads: beamforming_callback, send_audio *)

\* The engine calls back, and the sound is spread into send_buf.
Callback(e) ==
  /\ engine[e] = "fed" /\ engine' = [engine EXCEPT ![e] = "called"]
  /\ UNCHANGED <<up, nets, work, fd, locks, plays, global_fd, fespa, send_buf, heard>>

\* send_audio, to the global client_fd; if it fails the program ends.
send_audio(e) ==
  /\ engine[e] = "called"
  /\ IF peer[global_fd] = "gone" THEN Exit
     ELSE /\ engine' = [engine EXCEPT ![e] = "registered"]
          /\ heard' = heard \cup {global_fd}
          /\ UNCHANGED <<up, nets, work, fd, locks, plays, global_fd, fespa, send_buf>>

-----------------------------------------------------------------------------
(* Clients, and the whole *)

Connect(c) ==
  /\ peer[c] = "new" /\ srv[PortOf(c)] # "start"
  /\ peer' = [peer EXCEPT ![c] = "up"] /\ backlog' = backlog \cup {c}
  /\ UNCHANGED <<up, srv, client_fd, work, fd, locks, plays, voices>>

Leave(c) ==
  /\ peer[c] = "up" /\ peer' = [peer EXCEPT ![c] = "gone"]
  /\ UNCHANGED <<up, backlog, srv, client_fd, work, fd, locks, plays, voices>>

Runs(w) ==
  \/ RecvStart(w) \/ RecvOpen(w) \/ Recv(w) \/ Unlock(w) \/ Clear(w)
  \/ SendStart(w) \/ SendOpen(w) \/ Load(w) \/ Register(w) \/ Alloc(w) \/ Feed(w)

Serve == (\E p \in Port : Listen(p)) \/ (\E c \in Conn : Accept(c))
Engines == \E e \in SendConn : Callback(e) \/ send_audio(e)

Next ==
  /\ up = "yes"
  /\ \/ Serve \/ Engines
     \/ \E p \in Port : ListenFails(p)
     \/ \E w \in Conn : Runs(w) \/ Lock(w) \/ OpenFails(w) \/ Connect(w) \/ Leave(w)
     \/ \E w \in RecvConn : RecvReturn(w)

\* Every thread is scheduled, the engine answers what it is fed, and a worker
\* gets the mutex if it is free again and again, unless it was initialised
\* while in use.  Clients, and the data they send, are not assumed.
Fairness ==
  /\ WF_vars(up = "yes" /\ Serve)
  /\ WF_vars(up = "yes" /\ Engines)
  /\ \A w \in Conn : /\ WF_vars(up = "yes" /\ Runs(w))
                     /\ SF_vars(up = "yes" /\ broken = "no" /\ Lock(w))

Spec == Init /\ [][Next]_vars
FairSpec == Spec /\ Fairness

-----------------------------------------------------------------------------
(* Properties *)

TypeOK ==
  /\ up \in {"yes", "no"} /\ peer \in [Conn -> {"new", "up", "gone"}]
  /\ backlog \subseteq Conn /\ srv \in [Port -> {"start", "accept"}]
  /\ client_fd \in [Port -> Conn \cup {None}]
  /\ work \in [Conn -> {"none", "start", "open", "recv", "recving", "lock", "pcm",
                        "clear", "load", "register", "alloc", "feed"}]
  /\ fd \in [Conn -> Conn \cup {None}]
  /\ mutex_audio \in Conn \cup {None} /\ broken \in {"yes", "no"}
  /\ recv_buf \in RecvConn \cup {None}
  /\ into \in [RecvConn -> RecvConn \cup {None}]
  /\ holds \in [RecvConn -> RecvConn \cup {None}]
  /\ global_fd \in Conn \cup {None} /\ fespa \in SendConn \cup {None}
  /\ send_buf \in {"yes", "no"}
  /\ engine \in [SendConn -> {"none", "new", "registered", "fed", "called"}]
  /\ heard \subseteq Conn

\* The PCM devices have one user at a time, unless a server thread
\* initialised the mutex while a worker held it (dz_voip.c:75, 151).
PcmExclusive ==
  broken = "no" => Cardinality(InPcm) <= 1 /\ \A w \in InPcm : mutex_audio = w

\* A lone playing worker plays what it received; a second one may replace,
\* overwrite or clear the buffer between its recv() and its writei().
PlaysOwn ==
  \A w \in RecvConn :
    work[w] \in {"lock", "pcm"} /\ Started \cap RecvConn = {w} => holds[recv_buf] = fd[w]

\* No sound is stale: what is in the buffer when a lone worker waits in
\* recv() was cleared.
ClearedBefore ==
  \A w \in RecvConn :
    work[w] \in {"recv", "recving"} /\ Started \cap RecvConn = {w} => holds[recv_buf] = None

\* An engine's answer finds send_buf allocated and a recording client in the
\* global client_fd, although both are set by other threads.
CallbackReady ==
  \A e \in SendConn :
    engine[e] \in {"fed", "called"} => send_buf = "yes" /\ global_fd \in SendConn

Inv == TypeOK /\ PlaysOwn /\ ClearedBefore /\ CallbackReady

\* A later client has taken the local or the global client_fd from worker c.
Overtaken(c) == \/ work[c] = "start" /\ client_fd["send"] # c
                \/ work[c] \notin {"none", "start"} /\ global_fd # c

\* A client of the sending port hears something, unless a later one overtakes
\* it, the mutex was initialised in use, or the program ends
\* (dz_voip.c:601, 686-694, 709-726).
Heard ==
  \A c \in SendConn :
    c \in backlog ~> c \in heard \/ Overtaken(c) \/ broken = "yes" \/ up = "no"

=============================================================================
