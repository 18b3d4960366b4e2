--------------------------- MODULE UpdateLinkProofs ---------------------------
(***************************************************************************)
(* Proofs about UpdateLink, for any clients, any descriptor numbers and    *)
(* any number of pieces: what the two threads keep although they share no  *)
(* lock (Inv), and the order of what is written (FileOrder), which holds   *)
(* whatever meets whatever.  The lemmas are about the steps;               *)
(* ProgramsProofs puts them together for the specification that is run.    *)
(***************************************************************************)
EXTENDS UpdateLink, TLAPS

\* The steps by what they are: a thread's or a client's.
Around == \E c \in Conn : Connect(c) \/ Send(c) \/ Leave(c)

-----------------------------------------------------------------------------
(* Types *)

\* What TypeOK needs to be inductive: there is a connection where the update
\* thread waits for one; and a file where it closes one.
Pinned ==
  /\ upd \in {"selecting", "receiving"} => pin \in Conn
  /\ upd \in {"check", "end1", "end2", "end3"} => want = "file"

Types == TypeOK /\ Pinned

LEMMA TypeInit == UpdateLinkAssumption /\ Init => Types
  BY DEF UpdateLinkAssumption, Init, Types, TypeOK, Pinned, AccPc, UpdPc, NoFd

LEMMA AtType == ASSUME NEW f PROVE At(f) \in Conn \cup {None}
  BY DEF At

LEMMA ClosedType ==
  ASSUME TypeOK, NEW f
  PROVE  Closed(f) \in [Fd -> Conn \cup {"free", "accept", "file"}]
  BY DEF TypeOK, Closed

LEMMA TypeAccepter ==
  ASSUME UpdateLinkAssumption, Types, Accepter \/ AcceptFails
  PROVE  Types'
  <1> USE DEF UpdateLinkAssumption, Types, TypeOK, Pinned, AccGoto, AccPc, NoFd,
              clients, shared, updates
  <1>1. CASE AcceptEnter
    BY <1>1 DEF AcceptEnter
  <1>2. ASSUME NEW c \in Conn, Accept(c) PROVE Types'
    BY <1>2 DEF Accept
  <1>3. CASE AcceptFails
    BY <1>3 DEF AcceptFails
  <1>4. CASE Flag \/ Test
    BY <1>4 DEF Flag, Test
  <1>5. CASE Close
    BY <1>5, ClosedType DEF Close
  <1>6. CASE Store
    BY <1>6, AtType DEF Store
  <1>7. QED
    BY <1>1, <1>2, <1>3, <1>4, <1>5, <1>6 DEF Accepter

LEMMA TypeUpdater ==
  ASSUME UpdateLinkAssumption, Types, Updater
  PROVE  Types'
  <1> USE DEF UpdateLinkAssumption, Types, TypeOK, Pinned, UpdGoto, UpdPc, TearDown, NoFd,
              clients, shared, accepts, updates, Ends
  <1>1. CASE Begin
    BY <1>1 DEF Begin
  <1>2. CASE Select
    BY <1>2, AtType DEF Select
  <1>3. CASE Ready \/ Timeout
    BY <1>3 DEF Ready, Timeout
  <1>4. CASE Recv
    BY <1>4, AtType DEF Recv
  <1>5. CASE RecvEof
    BY <1>5 DEF RecvEof
  <1>6. CASE RecvHeader
    <2>1. /\ upd = "receiving" /\ HasData(pin) /\ pin' = None
          /\ got' = [got EXCEPT ![pin] = @ + 1]
      BY <1>6 DEF RecvHeader
    <2>2. pin \in Conn /\ got[pin] + 1 \in 0..Pieces + 1
      BY <2>1 DEF HasData
    <2>3. got' \in [Conn -> 0..Pieces + 1]
      BY <2>1, <2>2
    <2>4. UNCHANGED <<clients, backlog, shared, accepts, raced>>
      BY <1>6 DEF RecvHeader
    <2>5. upd' \in {"idle", "sel"} /\ want' \in {"header", "file"} /\ head' \in Conn \cup {None}
      BY <1>6, <2>2 DEF RecvHeader
    <2>7. file' \in Seq(Conn \X (0..Pieces + 1))
      <3>1. file' \in {file, <<>>}
        BY <1>6 DEF RecvHeader
      <3> DEFINE S == Seq(Conn \X (0..Pieces + 1))
      <3>2. <<>> \in S
        OBVIOUS
      <3>3. file \in S
        OBVIOUS
      <3> HIDE DEF S
      <3>4. file' \in S
        BY <3>1, <3>2, <3>3, Zenon
      <3> QED
        BY <3>4 DEF S
    <2>6. out' \in Fd \cup {NoFd} /\ fdtab' \in [Fd -> Conn \cup {"free", "accept", "file"}]
      BY <1>6 DEF RecvHeader, Lowest, FreeFds
    <2> QED
      BY <2>1, <2>3, <2>4, <2>5, <2>6, <2>7
  <1>7. CASE RecvPiece
    <2>1. pin \in Conn /\ got[pin] \in 0..Pieces + 1 /\ got[pin] < sent[pin]
          /\ sent[pin] \in 0..Pieces + 1
      BY <1>7 DEF RecvPiece, HasData
    <2>2. got' \in [Conn -> 0..Pieces + 1]
      BY <1>7, <2>1 DEF RecvPiece
    <2>3. file' \in Seq(Conn \X (0..Pieces + 1))
      BY <1>7, <2>1 DEF RecvPiece
    <2> QED
      BY <1>7, <2>1, <2>2, <2>3 DEF RecvPiece
  <1>8. CASE Check
    BY <1>8, ClosedType DEF Check
  <1>9. CASE Drops
    BY <1>9, ClosedType DEF Drops, CloseClient, ForgetClient, Unflag, GiveUp, Returned
  <1>10. QED
    BY <1>1, <1>2, <1>3, <1>4, <1>5, <1>6, <1>7, <1>8, <1>9 DEF Updater

LEMMA TypeAround ==
  ASSUME UpdateLinkAssumption, Types, Around
  PROVE  Types'
  <1> USE DEF UpdateLinkAssumption, Types, TypeOK, Pinned, shared, accepts, updates
  <1>1. ASSUME NEW c \in Conn, Connect(c) \/ Leave(c) PROVE Types'
    BY <1>1 DEF Connect, Leave
  <1>2. ASSUME NEW c \in Conn, Send(c) PROVE Types'
    <2>1. sent[c] + 1 \in 0..Pieces + 1
      BY <1>2 DEF Send
    <2> QED
      BY <1>2, <2>1 DEF Send
  <1> QED
    BY <1>1, <1>2 DEF Around

LEMMA TypeStep == UpdateLinkAssumption /\ Types /\ [Next]_vars => Types'
  <1>1. UNCHANGED vars => (Types => Types')
    BY DEF vars, clients, shared, accepts, updates, Types, TypeOK, Pinned
  <1>2. QED
    BY <1>1, TypeAccepter, TypeUpdater, TypeAround DEF Next, Around

-----------------------------------------------------------------------------
(* The two threads, while no hand-over meets a tear-down *)

\* The accept thread has a connection that client_fd does not name yet.
Holding == acc \in {"flag", "test", "close", "store"}

\* The update thread has closed what client_fd names and not forgotten it.
Dead == {"eof2", "err2", "err3", "end2"}

\* What NoneStranded and FileStaysOpen need to be inductive: where each
\* thread stands, client_fd and new are open or not, and are different, so
\* that no close hits the wrong number.
Apart ==
  /\ acc \in HandOver => upd \notin TearDown /\ connect_state = 1
  /\ client_fd # NoFd /\ upd # "err3" => connect_state = 1
  /\ upd \in {"eof3", "end3"} => client_fd = NoFd
  /\ Holding => new \in Fd /\ fdtab[new] \in Conn
  /\ client_fd # NoFd =>
       IF upd \in Dead \/ acc = "store"
         THEN fdtab[client_fd] \in Conn => Holding /\ client_fd = new
         ELSE fdtab[client_fd] \in Conn /\ (Holding => client_fd # new)
  /\ \A f \in Fd : fdtab[f] \in Conn => f = client_fd \/ (Holding /\ f = new)
  /\ want = "file" => out \in Fd /\ fdtab[out] = "file"

LinkSafe == Types /\ (raced = "no" => Apart)

-----------------------------------------------------------------------------
(* The order of what is written, whatever the threads do *)

\* The connection read last for the file, and how much of it has been read.
Last  == IF file = <<>> THEN head ELSE file[Len(file)][1]
Count == IF file = <<>> THEN 1 ELSE file[Len(file)][2] + 1

\* A connection that is waiting to be accepted is open nowhere, and unread.
Unread ==
  \A c \in Conn :
    /\ c \in backlog \/ peer[c] = "new" => got[c] = 0 /\ c \notin Open /\ c # pin
    /\ c \in backlog => peer[c] # "new"

\* A connection has one number.
OneNumber == \A f, g \in Fd : fdtab[f] \in Conn /\ fdtab[f] = fdtab[g] => f = g

\* The accept thread's connection has been read only through client_fd,
\* which a race may have left with the same number.
NewUnread ==
  At(new) # None => \/ got[At(new)] = 0
                    \/ client_fd = new /\ upd \notin Dead

\* While recv() or select() keeps one connection, the one client_fd names, if
\* another, is unread.
PinFirst ==
  upd \in {"selecting", "receiving"} =>
    /\ At(new) = pin => client_fd = new
    /\ At(client_fd) \notin {pin, None} => got[At(client_fd)] = 0

\* While a file is received, what can be read next is the connection read
\* last, from where it was left, or one that has not been read at all.
Contiguous ==
  want = "file" =>
    /\ Last \in Conn /\ got[Last] = Count
    /\ upd \notin TearDown /\ At(client_fd) \notin {Last, None} =>
         got[At(client_fd)] = 0
    /\ upd \in {"selecting", "receiving"} => pin = Last \/ got[pin] = 0

Order == Unread /\ OneNumber /\ NewUnread /\ PinFirst /\ Contiguous

OrderSafe == Types /\ Order /\ FileOrder

-----------------------------------------------------------------------------
(* Steps while no hand-over meets a tear-down *)

\* close() takes its number from whatever has it, but not from an accept.
LEMMA ClosedAt ==
  ASSUME TypeOK, NEW f, NEW g \in Fd
  PROVE  Closed(f)[g] = IF g = f /\ fdtab[f] # "accept" THEN "free" ELSE fdtab[g]
  BY DEF TypeOK, Closed

LEMMA ApartInit == UpdateLinkAssumption /\ Init => Apart
  BY DEF UpdateLinkAssumption, Init, Apart, HandOver, TearDown, Holding, Dead, NoFd

LEMMA ApartAccepter ==
  ASSUME UpdateLinkAssumption, Types, Apart, Accepter \/ AcceptFails, raced' = "no"
  PROVE  Apart'
  <1> USE DEF UpdateLinkAssumption, Types, TypeOK, AccGoto, NoFd, AccPc,
              clients, shared, updates, Apart, HandOver, Holding, Dead
  <1>1. CASE AcceptEnter
    <2>1. PICK f \in Fd : fdtab[f] = "free" /\ fdtab' = [fdtab EXCEPT ![f] = "accept"]
      BY <1>1 DEF AcceptEnter, Lowest, FreeFds
    <2>2. \A g \in Fd : fdtab'[g] = IF g = f THEN "accept" ELSE fdtab[g]
      BY <2>1
    <2>3. /\ acc = "enter" /\ acc' = "wait"
          /\ UNCHANGED <<connect_state, client_fd, new, upd, want, out>>
      BY <1>1 DEF AcceptEnter
    <2> QED
      BY <2>1, <2>2, <2>3
  <1>2. ASSUME NEW c \in Conn, Accept(c) PROVE Apart'
    <2>1. PICK f \in Fd : /\ fdtab[f] = "accept"
                          /\ fdtab' = [fdtab EXCEPT ![f] = c] /\ new' = f
      BY <1>2 DEF Accept
    <2>2. \A g \in Fd : fdtab'[g] = IF g = f THEN c ELSE fdtab[g]
      BY <2>1
    <2>3. /\ acc = "wait" /\ acc' = "flag"
          /\ UNCHANGED <<connect_state, client_fd, upd, want, out>>
      BY <1>2 DEF Accept
    <2>4. \A g \in Fd : fdtab[g] \in Conn => g = client_fd
      BY <2>3
    <2>5. client_fd # NoFd =>
            IF upd \in Dead THEN fdtab'[client_fd] \in Conn => client_fd = f
                            ELSE fdtab'[client_fd] \in Conn /\ client_fd # f
      BY <2>1, <2>2, <2>3
    <2> QED
      BY <2>1, <2>2, <2>3, <2>4, <2>5
  <1>3. CASE AcceptFails \/ Flag \/ Test
    <2>1. CASE AcceptFails
      BY <2>1 DEF AcceptFails
    <2>2. CASE Flag
      <3>1. /\ acc = "flag" /\ acc' = "test" /\ connect_state' = 1 /\ upd \notin TearDown
            /\ UNCHANGED <<client_fd, fdtab, new, upd, want, out>>
        BY <2>2 DEF Flag
      <3> QED
        BY <3>1 DEF TearDown
    <2>3. CASE Test
      <3>1. /\ acc = "test" /\ acc' = (IF client_fd > 0 THEN "close" ELSE "store")
            /\ UNCHANGED <<connect_state, client_fd, fdtab, new, upd, want, out>>
        BY <2>3 DEF Test
      <3>2. client_fd > 0 <=> client_fd # NoFd
        OBVIOUS
      <3> QED
        BY <3>1, <3>2 DEF TearDown
    <2> QED
      BY <1>3, <2>1, <2>2, <2>3
  <1>4. CASE Close
    <2>1. /\ acc = "close" /\ acc' = "store" /\ fdtab' = Closed(client_fd)
          /\ UNCHANGED <<connect_state, client_fd, new, upd, want, out>>
      BY <1>4 DEF Close
    <2>2. upd \notin TearDown /\ upd \notin Dead
      BY <2>1 DEF TearDown
    <2>3. CASE client_fd = NoFd
      <3>1. fdtab' = fdtab
        BY <2>1, <2>3 DEF Closed
      <3> QED
        BY <2>1, <2>2, <2>3, <3>1
    <2>4. CASE client_fd # NoFd
      <3>1. client_fd \in Fd /\ fdtab[client_fd] \in Conn /\ client_fd # new
        BY <2>1, <2>2, <2>4
      <3>2. \A g \in Fd : fdtab'[g] = IF g = client_fd THEN "free" ELSE fdtab[g]
        BY <2>1, <3>1, ClosedAt
      <3> QED
        BY <2>1, <2>2, <3>1, <3>2
    <2> QED
      BY <2>3, <2>4
  <1>5. CASE Store
    <2>1. /\ acc = "store" /\ acc' = "enter" /\ client_fd' = new /\ new' = NoFd
          /\ UNCHANGED <<connect_state, fdtab, upd, want, out>>
      BY <1>5 DEF Store
    <2>2. upd \notin TearDown /\ connect_state = 1
      BY <2>1
    <2> QED
      BY <2>1, <2>2 DEF TearDown
  <1>6. QED
    BY <1>1, <1>2, <1>3, <1>4, <1>5 DEF Accepter

LEMMA ApartUpdater ==
  ASSUME UpdateLinkAssumption, Types, Apart, Updater, raced' = "no"
  PROVE  Apart'
  <1> USE DEF UpdateLinkAssumption, Types, TypeOK, UpdGoto, NoFd, AccPc, UpdPc,
              clients, shared, accepts, updates, Apart, HandOver, Holding, Dead
  <1>1. CASE Begin \/ Ready
    BY <1>1 DEF Begin, Ready, TearDown
  <1>2. CASE Select \/ Timeout \/ Recv \/ RecvEof \/ RecvPiece
    <2>1. UNCHANGED <<fdtab, connect_state, client_fd, new, acc, want, out>>
      BY <1>2 DEF Select, Timeout, Recv, RecvEof, RecvPiece
    <2>2. upd \notin TearDown /\ upd' \notin Dead \cup {"eof3", "end3"}
      BY <1>2 DEF Select, Timeout, Recv, RecvEof, RecvPiece, Ends, TearDown
    <2>3. upd' \in TearDown => acc \notin HandOver
      BY <1>2 DEF Select, Timeout, Recv, RecvEof, RecvPiece, Ends, TearDown
    <2> QED
      BY <2>1, <2>2, <2>3 DEF TearDown
  <1>3. CASE RecvHeader
    <2>1. /\ upd = "receiving" /\ upd' \in {"idle", "sel"}
          /\ UNCHANGED <<connect_state, client_fd, new, acc>>
      BY <1>3 DEF RecvHeader
    <2>2. CASE UNCHANGED <<fdtab, want, out>>
      BY <2>1, <2>2 DEF TearDown
    <2>3. CASE out' \in Lowest /\ fdtab' = [fdtab EXCEPT ![out'] = "file"]
      <3>1. out' \in Fd /\ fdtab[out'] = "free"
        BY <2>3 DEF Lowest, FreeFds
      <3>2. \A g \in Fd : fdtab'[g] = IF g = out' THEN "file" ELSE fdtab[g]
        BY <2>3, <3>1
      <3> QED
        BY <2>1, <3>1, <3>2 DEF TearDown
    <2> QED
      BY <1>3, <2>2, <2>3 DEF RecvHeader
  <1>4. CASE Check
    <2>1. /\ upd = "check" /\ upd' = "idle" /\ want' = "header"
          /\ fdtab' = Closed(out)
          /\ UNCHANGED <<connect_state, client_fd, new, acc>>
      BY <1>4 DEF Check
    <2>2. out \in Fd /\ fdtab[out] = "file"
      BY <2>1 DEF Pinned
    <2>3. \A g \in Fd : fdtab'[g] = IF g = out THEN "free" ELSE fdtab[g]
      BY <2>1, <2>2, ClosedAt
    <2>4. upd \notin Dead /\ upd' \notin Dead \cup TearDown
      BY <2>1 DEF TearDown
    <2>5. \A g \in Fd : fdtab[g] \in Conn \/ fdtab'[g] \in Conn => fdtab'[g] = fdtab[g]
      BY <2>2, <2>3
    <2> HIDE DEF TypeOK
    <2>6. client_fd \in Fd \cup {NoFd}
      BY DEF TypeOK
    <2> QED
      BY <2>1, <2>4, <2>5, <2>6
  <1>5. ASSUME NEW a, NEW b, CloseClient(a, b),
               <<a, b>> \in {<<"eof1", "eof2">>, <<"err1", "err2">>, <<"end1", "end2">>}
        PROVE  Apart'
    <2>1. /\ upd = a /\ upd' = b /\ fdtab' = Closed(client_fd)
          /\ UNCHANGED <<connect_state, client_fd, new, acc, want, out>>
      BY <1>5 DEF CloseClient
    <2>2. upd \in TearDown \ (Dead \cup {"eof3", "end3"}) /\ upd' \in Dead /\ upd' # "err3"
      BY <1>5, <2>1 DEF TearDown
    <2>3. CASE client_fd = NoFd
      <3>1. fdtab' = fdtab
        BY <2>1, <2>3 DEF Closed
      <3> QED
        BY <2>1, <2>2, <2>3, <3>1 DEF TearDown
    <2>4. CASE client_fd # NoFd
      <3>1. client_fd \in Fd /\ fdtab[client_fd] \in Conn /\ (Holding => client_fd # new)
        BY <2>2, <2>4
      <3>2. \A g \in Fd : fdtab'[g] = IF g = client_fd THEN "free" ELSE fdtab[g]
        BY <2>1, <3>1, ClosedAt
      <3> QED
        BY <2>1, <2>2, <3>1, <3>2 DEF TearDown
    <2> QED
      BY <2>3, <2>4
  <1>6. ASSUME NEW a, ForgetClient(a, Returned) \/ ForgetClient(a, "eof3") \/ ForgetClient(a, "end3"),
               a \in Dead
        PROVE  Apart'
    <2>1. /\ upd = a /\ client_fd' = NoFd
          /\ UNCHANGED <<fdtab, connect_state, new, acc, want, out>>
          /\ upd' \in {"eof3", "end3", "idle", "end1"}
      BY <1>6 DEF ForgetClient, Returned
    <2>2. acc \notin HandOver /\ \A f \in Fd : fdtab[f] \in Conn => Holding /\ f = new
      BY <1>6, <2>1 DEF TearDown
    <2> QED
      BY <2>1, <2>2
  <1>7. ASSUME NEW a, NEW b, Unflag(a, b),
               <<a, b>> \in {<<"eof3", Returned>>, <<"err2", "err3">>}
        PROVE  Apart'
    <2>1. /\ upd = a /\ upd' = b /\ connect_state' = 0
          /\ UNCHANGED <<fdtab, client_fd, new, acc, want, out>>
      BY <1>7 DEF Unflag
    <2>2. acc \notin HandOver
      BY <1>7, <2>1 DEF TearDown
    <2>3. CASE a = "eof3"
      BY <1>7, <2>1, <2>2, <2>3 DEF Returned
    <2>4. CASE a = "err2"
      BY <1>7, <2>1, <2>2, <2>4
    <2> QED
      BY <1>7, <2>3, <2>4
  <1>8. CASE GiveUp
    <2>1. /\ upd = "end3" /\ upd' = "idle" /\ connect_state' = 0 /\ want' = "header"
          /\ fdtab' = Closed(out) /\ UNCHANGED <<client_fd, new, acc>>
      BY <1>8 DEF GiveUp
    <2>2. out \in Fd /\ fdtab[out] = "file" /\ client_fd = NoFd /\ acc \notin HandOver
      BY <2>1 DEF Pinned, TearDown
    <2>3. \A g \in Fd : fdtab'[g] = IF g = out THEN "free" ELSE fdtab[g]
      BY <2>1, <2>2, ClosedAt
    <2> QED
      BY <2>1, <2>2, <2>3
  <1> QED
    BY <1>1, <1>2, <1>3, <1>4, <1>5, <1>6, <1>7, <1>8 DEF Updater, Drops

LEMMA ApartAround ==
  ASSUME UpdateLinkAssumption, Types, Apart, Around \/ UNCHANGED vars
  PROVE  Apart'
  <1>1. UNCHANGED <<fdtab, connect_state, client_fd, acc, new, upd, want, out>>
    BY DEF Around, Connect, Send, Leave, vars, clients, shared, accepts, updates
  <1> QED
    BY <1>1 DEF Apart, Holding

LEMMA RacedStays == UpdateLinkAssumption /\ Types /\ [Next]_vars /\ raced' = "no" => raced = "no"
  <1> SUFFICES ASSUME Types, Next, raced' = "no", raced = "yes" PROVE FALSE
    BY DEF vars, Types, TypeOK
  <1>1. CASE Accepter \/ AcceptFails
    BY <1>1 DEF Accepter, AcceptEnter, Accept, AcceptFails, Flag, Test, Close, Store
  <1>2. CASE Updater
    BY <1>2 DEF Updater, Begin, Select, Ready, Timeout, Recv, RecvEof, RecvHeader, RecvPiece,
                Check, Drops, CloseClient, ForgetClient, Unflag, GiveUp, Ends
  <1>3. CASE Around
    BY <1>3 DEF Around, Connect, Send, Leave
  <1> QED
    BY <1>1, <1>2, <1>3 DEF Next, Around

LEMMA LinkSafeInit == UpdateLinkAssumption /\ Init => LinkSafe
  BY TypeInit, ApartInit DEF LinkSafe

LEMMA LinkSafeStep == UpdateLinkAssumption /\ LinkSafe /\ [Next]_vars => LinkSafe'
  BY TypeStep, RacedStays, ApartAccepter, ApartUpdater, ApartAround
  DEF LinkSafe, Next, Around

\* With the threads apart, no client is stranded and the file stays open.
LEMMA LinkSafeImplies == UpdateLinkAssumption /\ LinkSafe => Inv
  <1> SUFFICES ASSUME UpdateLinkAssumption, LinkSafe PROVE Inv
    OBVIOUS
  <1>1. NoneStranded
    <2> SUFFICES ASSUME raced = "no", acc \notin HandOver, upd \notin TearDown
                 PROVE  /\ client_fd > 0 => connect_state = 1 /\ At(client_fd) # None
                        /\ \A c \in Open : At(client_fd) = c \/ (acc = "flag" /\ At(new) = c)
      BY DEF NoneStranded
    <2> USE DEF LinkSafe, Types, TypeOK, Apart, HandOver, TearDown, Dead, Holding,
                UpdateLinkAssumption, NoFd, At, Open
    <2>1. client_fd > 0 => connect_state = 1 /\ At(client_fd) # None
      OBVIOUS
    <2>2. ASSUME NEW c \in Open PROVE At(client_fd) = c \/ (acc = "flag" /\ At(new) = c)
      OBVIOUS
    <2> QED
      BY <2>1, <2>2
  <1>2. FileStaysOpen
    BY DEF LinkSafe, Apart, FileStaysOpen
  <1> QED
    BY <1>1, <1>2 DEF LinkSafe, Types, Inv

-----------------------------------------------------------------------------
(* Steps and the order of what is written *)

LEMMA OrderInit == UpdateLinkAssumption /\ Init => Order /\ FileOrder
  BY DEF UpdateLinkAssumption, Init, Order, Unread, OneNumber, NewUnread, PinFirst,
         Contiguous, FileOrder, At, Open, NoFd

\* Steps that at most close something.
LEMMA OrderFewer ==
  ASSUME UpdateLinkAssumption, Types, Order,
         \A f \in Fd : fdtab'[f] \in Conn => fdtab'[f] = fdtab[f],
         UNCHANGED <<client_fd, new, pin, got, backlog, peer, upd, want, head, file>>
  PROVE  Order'
  <1>1. \A f : At(f)' \in {At(f), None}
    BY DEF At
  <1>2. Open' \subseteq Open
    BY DEF Open
  <1>3. Last' = Last /\ Count' = Count
    BY DEF Last, Count
  <1>4. Unread'
    BY <1>2 DEF Order, Unread
  <1>5. OneNumber'
    BY DEF Order, OneNumber
  <1>6. NewUnread'
    BY <1>1 DEF Order, NewUnread, Dead
  <1>7. PinFirst'
    BY <1>1 DEF Order, PinFirst, Types, Pinned, UpdateLinkAssumption
  <1>8. Contiguous'
    BY <1>1, <1>3 DEF Order, Contiguous
  <1> QED
    BY <1>4, <1>5, <1>6, <1>7, <1>8 DEF Order

LEMMA OrderAccepter ==
  ASSUME UpdateLinkAssumption, Types, Order, Accepter \/ AcceptFails
  PROVE  Order'
  <1> USE DEF UpdateLinkAssumption, clients, shared, updates
  <1>1. CASE AcceptEnter \/ AcceptFails \/ Flag \/ Test \/ Close
    <2>1. UNCHANGED <<client_fd, new, pin, got, backlog, peer, upd, want, head, file>>
      BY <1>1 DEF AcceptEnter, AcceptFails, Flag, Test, Close
    <2>2. \A f \in Fd : fdtab'[f] \in Conn => fdtab'[f] = fdtab[f]
      <3>1. CASE AcceptEnter
        BY <3>1 DEF AcceptEnter, Lowest, FreeFds, Types, TypeOK
      <3>2. CASE Close
        BY <3>2, ClosedAt DEF Close, Types
      <3>3. CASE AcceptFails \/ Flag \/ Test
        BY <3>3 DEF AcceptFails, Flag, Test
      <3> QED
        BY <1>1, <3>1, <3>2, <3>3
    <2> QED
      BY <2>1, <2>2, OrderFewer
  <1>2. ASSUME NEW c \in Conn, Accept(c) PROVE Order'
    <2>1. PICK f \in Fd : /\ fdtab[f] = "accept"
                          /\ fdtab' = [fdtab EXCEPT ![f] = c] /\ new' = f
      BY <1>2 DEF Accept
    <2>2. /\ c \in backlog /\ backlog' = backlog \ {c}
          /\ UNCHANGED <<client_fd, pin, got, peer, upd, want, head, file>>
      BY <1>2 DEF Accept
    <2>3. \A g \in Fd : fdtab'[g] = IF g = f THEN c ELSE fdtab[g]
      BY <2>1 DEF Types, TypeOK
    <2>4. got[c] = 0 /\ c \notin Open /\ c # pin /\ peer[c] # "new"
      BY <2>2 DEF Order, Unread
    <2>5. /\ \A g : At(g)' = IF g = f THEN c ELSE At(g)
          /\ Open' = Open \cup {c}
      BY <2>1, <2>3 DEF At, Open
    <2>6. At(new)' = c
      BY <2>1, <2>5
    <2>7. Last' = Last /\ Count' = Count
      BY <2>2 DEF Last, Count
    <2>8. Unread'
      BY <2>2, <2>4, <2>5 DEF Order, Unread
    <2>9. OneNumber'
      BY <2>3, <2>4 DEF Order, OneNumber, Open
    <2>10. NewUnread'
      BY <2>2, <2>4, <2>6 DEF NewUnread
    <2>11. PinFirst'
      BY <2>2, <2>4, <2>5, <2>6 DEF Order, PinFirst
    <2>12. Contiguous'
      BY <2>2, <2>4, <2>5, <2>7 DEF Order, Contiguous
    <2> QED
      BY <2>8, <2>9, <2>10, <2>11, <2>12 DEF Order
  <1>3. CASE Store
    <2>1. /\ client_fd' = new /\ new' = NoFd
          /\ UNCHANGED <<fdtab, pin, got, backlog, peer, upd, want, head, file>>
      BY <1>3 DEF Store
    <2>2. /\ \A g : At(g)' = At(g)
          /\ At(client_fd)' = At(new) /\ At(new)' = None
          /\ Open' = Open
      BY <2>1 DEF At, Open, NoFd
    <2>3. Last' = Last /\ Count' = Count
      BY <2>1 DEF Last, Count
    <2>4. At(new) = None \/ got[At(new)] = 0 \/ At(new) = At(client_fd)
      BY DEF Order, NewUnread
    <2>5. Unread' /\ OneNumber' /\ NewUnread'
      BY <2>1, <2>2 DEF Order, Unread, OneNumber, NewUnread
    <2>6. PinFirst'
      BY <2>1, <2>2, <2>4 DEF Order, PinFirst, Types, Pinned
    <2>7. Contiguous'
      BY <2>1, <2>2, <2>3, <2>4 DEF Order, Contiguous
    <2> QED
      BY <2>5, <2>6, <2>7 DEF Order
  <1> QED
    BY <1>1, <1>2, <1>3 DEF Accepter

LEMMA OrderAround ==
  ASSUME UpdateLinkAssumption, Types, Order, Around \/ UNCHANGED vars
  PROVE  Order'
  <1>1. UNCHANGED <<fdtab, client_fd, new, pin, got, upd, want, head, file>>
    BY DEF Around, Connect, Send, Leave, vars, clients, shared, accepts, updates
  <1>2. /\ \A g : At(g)' = At(g)
        /\ At(client_fd)' = At(client_fd) /\ At(new)' = At(new)
        /\ Open' = Open /\ Last' = Last /\ Count' = Count
    BY <1>1 DEF At, Open, Last, Count
  <1>3. \A c \in Conn : /\ c \in backlog' \/ peer'[c] = "new" => c \in backlog \/ peer[c] = "new"
                        /\ c \in backlog' => peer'[c] # "new"
    BY DEF Around, Connect, Send, Leave, vars, clients, shared, accepts, updates,
           Types, TypeOK, Order, Unread
  <1>4. Unread'
    BY <1>1, <1>2, <1>3 DEF Order, Unread
  <1>5. OneNumber' /\ NewUnread' /\ PinFirst' /\ Contiguous'
    BY <1>1, <1>2 DEF Order, OneNumber, NewUnread, PinFirst, Contiguous
  <1> QED
    BY <1>4, <1>5 DEF Order

\* A transfer's steps without data: the thread goes on, takes hold of a
\* connection or lets it go.
LEMMA OrderWait ==
  ASSUME UpdateLinkAssumption, Types, Order,
         Begin \/ Select \/ Ready \/ Timeout \/ Recv \/ RecvEof
  PROVE  Order'
  <1> USE DEF UpdateLinkAssumption, UpdGoto, Ends, clients, shared, accepts
  <1>1. /\ UNCHANGED <<fdtab, client_fd, new, got, backlog, peer, head, file>>
        /\ upd \notin Dead \cup TearDown /\ upd' \notin Dead
    BY DEF Begin, Select, Ready, Timeout, Recv, RecvEof, Dead, TearDown
  <1>2. /\ want' = want \/ want' = "header"
        /\ \/ pin' = pin /\ upd' \notin {"selecting", "receiving"}
           \/ pin' = None /\ upd' \notin {"selecting", "receiving"}
           \/ pin' = At(client_fd) /\ At(client_fd) # None
    BY DEF Begin, Select, Ready, Timeout, Recv, RecvEof, Types, TypeOK
  <1>3. /\ At(client_fd)' = At(client_fd) /\ At(new)' = At(new)
        /\ Open' = Open /\ Last' = Last /\ Count' = Count
    BY <1>1 DEF At, Open, Last, Count
  <1>4. pin' = At(client_fd) /\ At(client_fd) # None => pin' \in Open
    BY DEF At, Open
  <1>5. Unread'
    BY <1>1, <1>2, <1>3, <1>4 DEF Order, Unread
  <1>6. OneNumber' /\ NewUnread'
    BY <1>1, <1>3 DEF Order, OneNumber, NewUnread
  <1>7. At(new) = At(client_fd) /\ At(new) # None => client_fd = new
    BY DEF At, Order, OneNumber
  <1>8. PinFirst'
    BY <1>1, <1>2, <1>3, <1>7 DEF PinFirst
  <1>9. Contiguous'
    BY <1>1, <1>2, <1>3 DEF Order, Contiguous
  <1> QED
    BY <1>5, <1>6, <1>8, <1>9 DEF Order

\* What a read leaves of the connection it reads from and of the others.
LEMMA OrderRead ==
  ASSUME UpdateLinkAssumption, Types, Order, upd = "receiving",
         got' = [got EXCEPT ![pin] = @ + 1], pin' = None,
         upd' \notin {"selecting", "receiving"} \cup Dead,
         \A f \in Fd : fdtab'[f] \in Conn => fdtab'[f] = fdtab[f],
         UNCHANGED <<client_fd, new, backlog, peer>>
  PROVE  /\ Unread' /\ OneNumber' /\ NewUnread' /\ PinFirst'
         /\ pin \in Conn /\ got'[pin] = got[pin] + 1 /\ got[pin] \in Nat
         /\ At(client_fd)' \notin {pin, None} => got'[At(client_fd)'] = 0
  <1>1. /\ pin \in Conn /\ got[pin] \in Nat
        /\ \A c \in Conn : got'[c] = IF c = pin THEN got[pin] + 1 ELSE got[c]
    BY DEF Types, TypeOK, Pinned
  <1>2. \A f : At(f)' \in {At(f), None}
    BY DEF At
  <1>3. Open' \subseteq Open /\ OneNumber'
    BY DEF Open, Order, OneNumber
  <1>4. Unread'
    BY <1>1, <1>3 DEF Order, Unread, UpdateLinkAssumption
  <1>5. NewUnread'
    <2>1. CASE At(new)' = None
      BY <2>1 DEF NewUnread
    <2>2. CASE At(new)' = At(new) /\ At(new) = pin
      BY <2>2 DEF Order, PinFirst, NewUnread
    <2>3. CASE At(new)' = At(new) /\ At(new) # pin /\ At(new) # None
      BY <1>1, <2>3, AtType DEF Order, NewUnread
    <2> QED
      BY <1>2, <2>1, <2>2, <2>3
  <1>6. PinFirst'
    BY DEF PinFirst
  <1>7. At(client_fd)' \notin {pin, None} => got'[At(client_fd)'] = 0
    BY <1>1, <1>2, AtType DEF Order, PinFirst
  <1> QED
    BY <1>1, <1>3, <1>4, <1>5, <1>6, <1>7

LEMMA HeaderOrder ==
  ASSUME UpdateLinkAssumption, Types, Order, FileOrder, RecvHeader
  PROVE  Order' /\ FileOrder'
  <1>1. /\ upd = "receiving" /\ want = "header" /\ upd' \in {"idle", "sel"}
        /\ got' = [got EXCEPT ![pin] = @ + 1] /\ pin' = None
        /\ UNCHANGED <<client_fd, new, backlog, peer>>
        /\ \/ UNCHANGED <<fdtab, want, head, out, file>>
           \/ /\ got[pin] = 0 /\ head' = pin /\ file' = <<>>
              /\ out' \in Lowest /\ fdtab' = [fdtab EXCEPT ![out'] = "file"]
    BY DEF RecvHeader, clients, shared, accepts
  <1>2. \A f \in Fd : fdtab'[f] \in Conn => fdtab'[f] = fdtab[f]
    BY <1>1 DEF Types, TypeOK, UpdateLinkAssumption
  <1>3. upd' \notin {"selecting", "receiving"} \cup Dead
    BY <1>1 DEF Dead
  <1>4. /\ Unread' /\ OneNumber' /\ NewUnread' /\ PinFirst'
        /\ pin \in Conn /\ got'[pin] = got[pin] + 1
        /\ At(client_fd)' \notin {pin, None} => got'[At(client_fd)'] = 0
    BY <1>1, <1>2, <1>3, OrderRead
  <1>5. CASE UNCHANGED <<fdtab, want, head, out, file>>
    BY <1>1, <1>4, <1>5 DEF Order, Contiguous, FileOrder
  <1>6. CASE got[pin] = 0 /\ head' = pin /\ file' = <<>>
    <2>1. Last' = pin /\ Count' = 1
      BY <1>6 DEF Last, Count
    <2>2. Contiguous'
      BY <1>1, <1>4, <1>6, <2>1 DEF Contiguous
    <2>3. FileOrder'
      BY <1>6 DEF FileOrder
    <2> QED
      BY <1>4, <2>2, <2>3 DEF Order
  <1> QED
    BY <1>1, <1>5, <1>6

LEMMA PieceOrder ==
  ASSUME UpdateLinkAssumption, Types, Order, FileOrder, RecvPiece
  PROVE  Order' /\ FileOrder'
  <1> DEFINE n == Len(file)
  <1>1. /\ upd = "receiving" /\ want = "file" /\ upd' \in {"check", "sel"}
        /\ got' = [got EXCEPT ![pin] = @ + 1] /\ pin' = None
        /\ file' = Append(file, <<pin, got[pin]>>)
        /\ UNCHANGED <<client_fd, new, backlog, peer, fdtab, want, head>>
    BY DEF RecvPiece, clients, shared, accepts
  <1>2. upd' \notin {"selecting", "receiving"} \cup Dead
    BY <1>1 DEF Dead
  <1>3. /\ Unread' /\ OneNumber' /\ NewUnread' /\ PinFirst'
        /\ pin \in Conn /\ got'[pin] = got[pin] + 1 /\ got[pin] \in Nat
        /\ At(client_fd)' \notin {pin, None} => got'[At(client_fd)'] = 0
    BY <1>1, <1>2, OrderRead
  <1>4. file \in Seq(Conn \X (0..Pieces + 1)) /\ n \in Nat
    BY DEF Types, TypeOK
  <1>5. /\ Len(file') = n + 1 /\ file'[n + 1] = <<pin, got[pin]>>
        /\ \A i \in 1..n : file'[i] = file[i]
    BY <1>1, <1>4
  <1>6. Last' = pin /\ Count' = got[pin] + 1
    <2>1. file' # <<>>
      BY <1>4, <1>5
    <2> QED
      BY <1>5, <2>1 DEF Last, Count
  <1>7. Contiguous'
    BY <1>1, <1>3, <1>6 DEF Contiguous
  <1>8. (pin = Last /\ got[pin] = Count) \/ (pin # Last /\ got[pin] = 0)
    BY <1>1 DEF Order, Contiguous
  <1>9. ASSUME NEW i \in 1..n + 1
        PROVE  IF i = 1 THEN file'[1] \in {<<head, 1>>} \cup (Conn \X {0})
               ELSE \/ file'[i] = <<file'[i-1][1], file'[i-1][2] + 1>>
                    \/ file'[i][2] = 0 /\ file'[i][1] # file'[i-1][1]
    <2>1. CASE i \in 1..n
      <3>1. file'[i] = file[i] /\ (i # 1 => file'[i-1] = file[i-1])
        BY <1>4, <1>5, <2>1
      <3>2. IF i = 1 THEN file[1] \in {<<head, 1>>} \cup (Conn \X {0})
            ELSE \/ file[i] = <<file[i-1][1], file[i-1][2] + 1>>
                 \/ file[i][2] = 0 /\ file[i][1] # file[i-1][1]
        BY <2>1 DEF FileOrder
      <3>3. CASE i = 1
        BY <3>1, <3>2, <3>3
      <3>4. CASE i # 1
        BY <3>1, <3>2, <3>4
      <3> QED
        BY <3>3, <3>4
    <2>2. CASE i = n + 1 /\ n = 0
      <3>1. file = <<>>
        BY <1>4, <2>2
      <3>2. Last = head /\ Count = 1
        BY <3>1 DEF Last, Count
      <3>3. file'[1] = <<pin, got[pin]>>
        BY <1>5, <2>2
      <3>4. <<pin, got[pin]>> \in {<<head, 1>>} \cup (Conn \X {0})
        BY <1>3, <1>8, <3>2
      <3> QED
        BY <2>2, <3>3, <3>4
    <2>3. CASE i = n + 1 /\ n # 0
      <3>1. file # <<>> /\ n \in 1..n /\ i - 1 = n /\ i # 1
        BY <1>4, <2>3
      <3>2. Last = file[n][1] /\ Count = file[n][2] + 1
        BY <3>1 DEF Last, Count
      <3> QED
        BY <1>5, <1>8, <2>3, <3>1, <3>2
    <2> QED
      BY <1>4, <2>1, <2>2, <2>3
  <1>10. FileOrder'
    BY <1>1, <1>5, <1>9 DEF FileOrder
  <1> QED
    BY <1>3, <1>7, <1>10 DEF Order

LEMMA OrderEnds ==
  ASSUME UpdateLinkAssumption, Types, Order, Check \/ Drops
  PROVE  Order'
  <1> USE DEF UpdateLinkAssumption, UpdGoto, clients, shared, accepts, updates
  <1>1. /\ UNCHANGED <<new, pin, got, backlog, peer, head, file>>
        /\ upd \notin {"selecting", "receiving"} /\ upd' \notin {"selecting", "receiving"}
        /\ want' = "header" \/ (want' = want /\ upd' \in TearDown)
    BY DEF Check, Drops, CloseClient, ForgetClient, Unflag, GiveUp, Returned, Types, TypeOK,
           TearDown
  <1>2. \A f \in Fd : fdtab'[f] \in Conn => fdtab'[f] = fdtab[f]
    BY ClosedAt DEF Check, Drops, CloseClient, ForgetClient, Unflag, GiveUp, Types
  <1>3. /\ \A f : At(f)' \in {At(f), None}
        /\ Open' \subseteq Open /\ Last' = Last /\ Count' = Count
    BY <1>1, <1>2 DEF At, Open, Last, Count
  <1>4. Unread' /\ OneNumber' /\ PinFirst' /\ Contiguous'
    BY <1>1, <1>2, <1>3 DEF Order, Unread, OneNumber, PinFirst, Contiguous
  <1>5. NewUnread'
    <2> SUFFICES ASSUME At(new)' # None
                 PROVE  got[At(new)] = 0 \/ (client_fd' = new /\ upd' \notin Dead)
      BY <1>1, <1>3 DEF NewUnread
    <2>1. At(new) # None /\ (got[At(new)] = 0 \/ (client_fd = new /\ upd \notin Dead))
      BY <1>1, <1>3 DEF Order, NewUnread
    <2>2. CASE upd \in Dead
      BY <2>1, <2>2
    <2>3. CASE upd' \notin Dead /\ client_fd' = client_fd
      BY <2>1, <2>3
    <2>4. CASE upd \notin Dead /\ (upd' \in Dead \/ client_fd' # client_fd)
      <3>1. fdtab' = Closed(client_fd)
        BY <2>4 DEF Check, Drops, CloseClient, ForgetClient, Unflag, GiveUp, Returned, Dead
      <3>2. client_fd # new
        BY <1>1, <3>1, ClosedAt DEF Closed, At, Types
      <3> QED
        BY <2>1, <3>2
    <2> QED
      BY <2>2, <2>3, <2>4
  <1> QED
    BY <1>4, <1>5 DEF Order

\* Only what is read changes the file.
LEMMA FileSame ==
  ASSUME FileOrder, [Next]_vars, ~RecvHeader, ~RecvPiece
  PROVE  FileOrder'
  <1>1. UNCHANGED <<head, file>>
    <2>1. CASE Accepter \/ AcceptFails
      BY <2>1 DEF Accepter, AcceptEnter, Accept, AcceptFails, Flag, Test, Close, Store, updates
    <2>2. CASE Updater
      BY <2>2 DEF Updater, Begin, Select, Ready, Timeout, Recv, RecvEof,
                  Check, Drops, CloseClient, ForgetClient, Unflag, GiveUp, updates
    <2>3. CASE Around \/ UNCHANGED vars
      BY <2>3 DEF Around, Connect, Send, Leave, vars, updates
    <2> QED
      BY <2>1, <2>2, <2>3 DEF Next, Around
  <1> QED
    BY <1>1 DEF FileOrder

LEMMA OrderSafeInit == UpdateLinkAssumption /\ Init => OrderSafe
  BY TypeInit, OrderInit DEF OrderSafe

LEMMA OrderSafeStep == UpdateLinkAssumption /\ OrderSafe /\ [Next]_vars => OrderSafe'
  <1> SUFFICES ASSUME UpdateLinkAssumption, Types, Order, FileOrder, [Next]_vars
               PROVE  Order' /\ FileOrder'
    BY TypeStep DEF OrderSafe
  <1>1. CASE RecvHeader
    BY <1>1, HeaderOrder
  <1>2. CASE RecvPiece
    BY <1>2, PieceOrder
  <1>3. CASE ~RecvHeader /\ ~RecvPiece
    BY <1>3, FileSame, OrderAccepter, OrderAround, OrderWait, OrderEnds
    DEF Next, Updater, Around
  <1> QED
    BY <1>1, <1>2, <1>3

=============================================================================
