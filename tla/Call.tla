-------------------------------- MODULE Call --------------------------------
(***************************************************************************)
(* What the phone promises about a call: the state of the call, and        *)
(* requests that each thread carries out one at a time, every one in a     *)
(* single step that either makes its transition or, when the call is in    *)
(* another state, does nothing.  PhoneCall, whose handlers test the state  *)
(* without the lock and write it several steps later, implements this.     *)
(***************************************************************************)
CONSTANT Threads   \* the threads that carry out requests

VARIABLES state,   \* of the call
          req      \* per thread: the request in hand, or "none"
vars == <<state, req>>

Requests == {"ring", "answer", "pickup", "hangup"}

From(r) == CASE r \in {"ring", "answer"} -> "NORMAL"
             [] r = "pickup" -> "WAIT"
             [] r = "hangup" -> "ACTIVATED"

To(r) == CASE r = "ring" -> "WAIT"
           [] r \in {"answer", "pickup"} -> "ACTIVATED"
           [] r = "hangup" -> "NORMAL"

Init == state = "NORMAL" /\ req = [t \in Threads |-> "none"]

Request(t, r) == /\ req[t] = "none" /\ req' = [req EXCEPT ![t] = r]
                 /\ UNCHANGED state

Perform(t) == /\ req[t] # "none" /\ req' = [req EXCEPT ![t] = "none"]
              /\ state' = IF state = From(req[t]) THEN To(req[t]) ELSE state

Next == \E t \in Threads : Perform(t) \/ \E r \in Requests : Request(t, r)

Spec == Init /\ [][Next]_vars
=============================================================================
