------------------------------ MODULE CtrlLink ------------------------------
(***************************************************************************)
(* What the control connection promises its clients: connections are       *)
(* served one at a time, the connection being served is the one whose      *)
(* commands are received, and the phone drops it only when the client has  *)
(* closed it and every command it sent was received, or when the client is *)
(* silently gone and another one waits.  CtrlServer implements this for    *)
(* patient clients.                                                        *)
(***************************************************************************)
EXTENDS Integers

CONSTANTS Conn,  \* client connections, each used once
          MaxRx  \* bound: commands queued unread on one connection

VARIABLES peer, rx,  \* per connection: state of the far end, commands unread
          link       \* per connection: none, waiting, current or gone
vars == <<peer, rx, link>>

Init == /\ peer = [c \in Conn |-> "new"]
        /\ rx   = [c \in Conn |-> 0]
        /\ link = [c \in Conn |-> "none"]

Move(c, a, b) == link[c] = a /\ link' = [link EXCEPT ![c] = b]

Connect(c) == /\ peer[c] = "new" /\ peer' = [peer EXCEPT ![c] = "up"]
              /\ Move(c, "none", "waiting") /\ UNCHANGED rx

Send(c) == /\ peer[c] = "up" /\ rx[c] < MaxRx
           /\ rx' = [rx EXCEPT ![c] = @ + 1] /\ UNCHANGED <<peer, link>>

End(c, how) == /\ peer[c] = "up" /\ peer' = [peer EXCEPT ![c] = how]
               /\ UNCHANGED <<rx, link>>

Take(c) == /\ \A d \in Conn : link[d] # "current"
           /\ Move(c, "waiting", "current") /\ UNCHANGED <<peer, rx>>

Receive(c) == /\ link[c] = "current" 
              /\ \E left \in 0..(rx[c] - 1) : rx' = [rx EXCEPT ![c] = left]
              /\ UNCHANGED <<peer, link>>

Drop(c) == /\ rx[c] = 0
           /\ \/ peer[c] = "fin"
              \/ peer[c] = "dead" /\ \E d \in Conn : link[d] = "waiting"
           /\ Move(c, "current", "gone") /\ UNCHANGED <<peer, rx>>

Next == \E c \in Conn : \/ Connect(c) \/ Send(c) \/ End(c, "fin") \/ End(c, "dead")
                        \/ Take(c) \/ Receive(c) \/ Drop(c)

Spec == Init /\ [][Next]_vars
=============================================================================
