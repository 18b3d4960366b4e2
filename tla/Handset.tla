-------------------------------- MODULE Handset --------------------------------
(***************************************************************************)
(* The 2.4G handset's link to its radio, the dongle (dzvoip/src/main.c,    *)
(* events.c).  main() opens the keys and the serial line and creates three *)
(* threads: the two voice threads (see HandsetVoice) and                   *)
(* uart_events_capture, which keeps state_link from the reports of the     *)
(* dongle.  main() reads no key: the call is a comment.                    *)
(***************************************************************************)
EXTENDS Naturals, Sequences, SequencesExt

CONSTANTS
  MaxWire,  \* bound: bytes on the serial line
  MaxRead,  \* bytes one read takes at most (8 in the code)
  None      \* nothing reported yet

\* UART_CMD_PAIR_SUCCESS, _DISCONNECT, _CONNECT, and any other byte
Report == {"pair", "disconnect", "connect", "other"}

HandsetAssumption ==
  MaxWire \in Nat \ {0} /\ MaxRead \in Nat \ {0} /\ None \notin Report

VARIABLES
  main,        \* "off", "keys", "uart", "create", "run", "exit"
  uart,        \* the thread's control point
  wire,        \* bytes from the dongle not yet read
  chunk,       \* bytes the last read returned
  state_link, stat_pair,
  last, lost   \* last report sent; "yes" if a read hid one since the last kept

vars == <<main, uart, wire, chunk, state_link, stat_pair, last, lost>>

Init ==
  /\ main \in {"off", "keys"} /\ uart = "none"
  /\ wire = <<>> /\ chunk = <<>>
  /\ state_link = 0 /\ stat_pair = 0 /\ last = None /\ lost = "no"

-----------------------------------------------------------------------------
(* main() *)

\* Any exit() ends every thread.
Exit ==
  /\ main' = "exit" /\ uart' = "none" /\ wire' = <<>> /\ chunk' = <<>>
  /\ state_link' = 0 /\ stat_pair' = 0 /\ last' = None /\ lost' = "no"

\* key_events_init, then ttySX_init: the device is there or the program exits.
key_events_init ==
  /\ main = "keys"
  /\ \/ main' = "uart"
        /\ UNCHANGED <<uart, wire, chunk, state_link, stat_pair, last, lost>>
     \/ Exit

uart_events_init ==
  /\ main = "uart"
  /\ \/ main' = "create"
        /\ UNCHANGED <<uart, wire, chunk, state_link, stat_pair, last, lost>>
     \/ Exit

Create ==
  /\ main = "create" /\ main' = "run" /\ uart' = "query"
  /\ UNCHANGED <<wire, chunk, state_link, stat_pair, last, lost>>

\* A voice thread that cannot open its devices ends the program.
VoiceExits == main = "run" /\ Exit

-----------------------------------------------------------------------------
(* uart_events_capture *)

\* The link state is asked for once: UART_CMD_QUERY.
Query ==
  /\ uart = "query" /\ uart' = "read"
  /\ UNCHANGED <<main, wire, chunk, state_link, stat_pair, last, lost>>

\* ttySX_read: what is there, up to 8 bytes; a timeout after 15 s without any.
Read ==
  /\ uart = "read" /\ wire # <<>> /\ uart' = "handle"
  /\ \E n \in 1..Len(wire) :
       /\ n <= MaxRead
       /\ chunk' = SubSeq(wire, 1, n) /\ wire' = SubSeq(wire, n + 1, Len(wire))
       /\ lost' = IF \E i \in 2..n : wire[i] # "other" THEN "yes"
                  ELSE IF wire[1] # "other" THEN "no" ELSE lost
  /\ UNCHANGED <<main, state_link, stat_pair, last>>

\* Bug: the fall-through of a missing break.
HandleFallsThrough ==
  /\ uart = "handle" /\ uart' = "read" /\ chunk' = <<>>
  /\ state_link' = IF chunk[1] \in {"pair", "connect", "disconnect"} THEN 1 ELSE state_link
  /\ UNCHANGED <<main, wire, stat_pair, last, lost>>

\* switch(buf[0]): only the first byte counts, and STATE_PAIR is never set.
Handle ==
  /\ uart = "handle" /\ uart' = "read" /\ chunk' = <<>>
  /\ state_link' = CASE chunk[1] \in {"pair", "connect"} -> 1
                     [] chunk[1] = "disconnect" -> 0
                     [] OTHER -> state_link
  /\ UNCHANGED <<main, wire, stat_pair, last, lost>>

-----------------------------------------------------------------------------
(* The dongle *)

\* It answers the query, or reports a change.
Reports(r) ==
  /\ main = "run" /\ Len(wire) < MaxWire /\ wire' = Append(wire, r)
  /\ last' = IF r = "other" THEN last ELSE r
  /\ UNCHANGED <<main, uart, chunk, state_link, stat_pair, lost>>

Boot == key_events_init \/ uart_events_init \/ Create
Uart == Query \/ Read \/ Handle

Next == Boot \/ Uart \/ VoiceExits \/ \E r \in Report : Reports(r)

Spec == Init /\ [][Next]_vars

-----------------------------------------------------------------------------
(* Properties *)

TypeOK ==
  /\ main \in {"off", "keys", "uart", "create", "run", "exit"}
  /\ uart \in {"none", "query", "read", "handle"}
  /\ wire \in Seq(Report) /\ Len(wire) <= MaxWire
  /\ chunk \in Seq(Report) /\ Len(chunk) <= MaxRead
  /\ state_link \in {0, 1} /\ stat_pair \in {0, 1}
  /\ last \in Report \cup {None} /\ lost \in {"yes", "no"}

\* With everything read, state_link is what the dongle last reported, unless
\* that report stood behind another byte in the same read (events.c:201-216).
LinkTracks ==
  uart = "read" /\ lost = "no" /\ Range(wire) \subseteq {"other"} =>
    state_link = (IF last \in {"pair", "connect"} THEN 1 ELSE 0)

HandsetInv == TypeOK /\ LinkTracks

=============================================================================
