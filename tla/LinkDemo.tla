------------------------------- MODULE LinkDemo -------------------------------
(***************************************************************************)
(* The test program of the update server's connections (tcptest/main.c):   *)
(* three accept threads, and a main loop that serves all three ports, one  *)
(* at a time, with calls of Recv_Internet_Msg that have no timeout         *)
(* (flag = 0).  A connection is its port's current client; how client_fd   *)
(* is handed over is in UpdateLink.                                        *)
(***************************************************************************)
EXTENDS Sequences, SequencesExt

\* tcp_ctrl_events, tcp_audio_send, tcp_audio_recv, in the order of the loop
Ports == <<"ctrl", "snd", "rec">>
Port == Range(Ports)
After(p) == IF p = "ctrl" THEN "snd" ELSE IF p = "snd" THEN "rec" ELSE "ctrl"

VARIABLES
  main,     \* "off", "create", "test", "recv", "reply"
  at,       \* the port main is at
  threads,  \* ports whose accept thread runs
  client,   \* per port: "none", "open", "closed" by the client
  data      \* per port: "sent" by the current client and not read, or "none"

links == <<threads, client, data>>
vars == <<main, at, links>>

Init ==
  /\ main \in {"off", "create"} /\ at = "ctrl" /\ threads = {}
  /\ client = [p \in Port |-> "none"] /\ data = [p \in Port |-> "none"]

-----------------------------------------------------------------------------
(* main() *)

\* The accept threads are created once, in the first turn of the loop.
Create ==
  /\ main = "create" /\ threads' = threads \cup {at} /\ at' = After(at)
  /\ main' = IF at = "rec" THEN "test" ELSE "create"
  /\ UNCHANGED <<client, data>>

\* Bug: the loop begins again after the first two ports.
TestTwo ==
  /\ main = "test"
  /\ IF client[at] # "none"
       THEN main' = "recv" /\ at' = at
       ELSE main' = "test" /\ at' = IF at = "ctrl" THEN "snd" ELSE "ctrl"
  /\ UNCHANGED links

\* if(client_fd > 0): the port's handler is called.
Test ==
  /\ main = "test"
  /\ IF client[at] # "none" THEN main' = "recv" /\ at' = at
                            ELSE main' = "test" /\ at' = After(at)
  /\ UNCHANGED links

\* Recv_Internet_Msg returns what the client sent, or nothing after its end.
Recv ==
  /\ main = "recv" /\ client[at] # "none"
  /\ data[at] # "none" \/ client[at] = "closed"
  /\ main' = "reply"
  /\ data' = [data EXCEPT ![at] = "none"]
  /\ client' = IF data[at] = "none" THEN [client EXCEPT ![at] = "none"] ELSE client
  /\ UNCHANGED <<at, threads>>

\* Send_Internet_Msg to whoever is the client now: a command's name, or what
\* an audio client sent.  The audio handlers return; ctrl_events_handle
\* never does, and so serves no other port again.
Reply ==
  /\ main = "reply"
  /\ IF at = "ctrl" THEN main' = "recv" /\ at' = at
                    ELSE main' = "test" /\ at' = After(at)
  /\ UNCHANGED links

-----------------------------------------------------------------------------
(* The accept threads and the clients *)

\* A new client takes the place of the one before.
Accept(p) ==
  /\ p \in threads /\ client' = [client EXCEPT ![p] = "open"]
  /\ data' = [data EXCEPT ![p] = "none"]
  /\ UNCHANGED <<main, at, threads>>

Sends(p) ==
  /\ client[p] = "open" /\ data[p] = "none" /\ data' = [data EXCEPT ![p] = "sent"]
  /\ UNCHANGED <<main, at, threads, client>>

Leaves(p) ==
  /\ client[p] = "open" /\ client' = [client EXCEPT ![p] = "closed"]
  /\ UNCHANGED <<main, at, threads, data>>

Main == Create \/ Test \/ Recv \/ Reply
Next == Main \/ \E p \in Port : Accept(p) \/ Sends(p) \/ Leaves(p)

Fairness == WF_vars(Main)

Spec == Init /\ [][Next]_vars
FairSpec == Spec /\ Fairness

-----------------------------------------------------------------------------
(* Properties *)

TypeOK ==
  /\ main \in {"off", "create", "test", "recv", "reply"} /\ at \in Port
  /\ threads \subseteq Port /\ client \in [Port -> {"none", "open", "closed"}]
  /\ data \in [Port -> {"none", "sent"}]

\* main waits for a client that says nothing.
WaitsAt(p) == main = "recv" /\ at = p /\ client[p] \in {"none", "open"} /\ data[p] = "none"

\* What a client sends is read, unless main is in the control handler, which
\* it never leaves, or waits for the silent client of another port: one
\* thread serves three ports with calls that have no timeout
\* (tcptest/main.c:60-70, 93-95).
Turns ==
  \A p \in Port :
    data[p] # "none" ~> \/ data[p] = "none"
                        \/ p # "ctrl" /\ main # "test" /\ at = "ctrl"
                        \/ \E q \in Port \ {p} : WaitsAt(q)

=============================================================================
