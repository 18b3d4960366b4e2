------------------------------ MODULE FespSample ------------------------------
(***************************************************************************)
(* The sample of the vendor's front end (speech_sample/src/src/            *)
(* test_fesp.c): a recording is fed to the engine, whose own thread calls  *)
(* back with sound, which is written to bf.pcm.  main() acquires one thing *)
(* after the other; whatever fails, it goes to _end and gives back what it *)
(* holds there.                                                            *)
(***************************************************************************)
EXTENDS Naturals

CONSTANT MaxPeriods  \* bound: whole periods in the recording

FespAssumption == MaxPeriods \in Nat

Things == {"config", "config_buff", "jsroot", "strings", "bf", "raw",
           "peroid_buffer", "library", "engine"}

VARIABLES
  main,     \* control point
  held,     \* what has been acquired and not given back
  engine,   \* "none", "new", "registered", "started", "stopped"
  left,     \* [whole: periods of the recording not read, part: 0 or 1]
  queued,   \* periods fed and not called back for
  begun     \* "yes" once the engine has been started

vars == <<main, held, engine, left, queued, begun>>

Init ==
  /\ main \in {"off", "open"} /\ held = {} /\ engine = "none" /\ queued = 0 /\ begun = "no"
  /\ left \in IF main = "off" THEN {[whole |-> 0, part |-> 0]}
              ELSE [whole : 0..MaxPeriods, part : {0, 1}]

\* A step of main() that acquires t, or fails and goes to the label b.
Acquire(a, t, next, b) ==
  /\ main = a
  /\ \/ main' = next /\ held' = held \cup {t}
     \/ main' = b /\ held' = held
  /\ UNCHANGED <<engine, left, queued, begun>>

\* The configuration: without the file main() returns at once.
OpenConfig == Acquire("open", "config", "size", "returned")

\* A file that is too large is left open, and so is one without memory for it.
ReadConfig ==
  \/ /\ main = "size" /\ main' = "returned"
     /\ UNCHANGED <<held, engine, left, queued, begun>>
  \/ Acquire("size", "config_buff", "close", "end")
CloseConfig ==
  /\ main = "close" /\ main' = "parse" /\ held' = held \ {"config"}
  /\ UNCHANGED <<engine, left, queued, begun>>
Parse == Acquire("parse", "jsroot", "items", "end")

\* auth, aim, fesp and res are there, and are printed to strings.
Items == Acquire("items", "strings", "bf", "end")

OpenOutput == Acquire("bf", "bf", "raw", "end")
OpenInput  == Acquire("raw", "raw", "header", "end")

\* Size, sample rate and width of the recording; then room for a period.
Header == Acquire("header", "peroid_buffer", "load", "end")

Load == Acquire("load", "library", "new", "end")

New ==
  \/ /\ main = "new" /\ main' = "register"
     /\ held' = held \cup {"engine"} /\ engine' = "new"
     /\ UNCHANGED <<left, queued, begun>>
  \/ main = "new" /\ main' = "end" /\ UNCHANGED <<held, engine, left, queued, begun>>

Register ==
  /\ main = "register" /\ main' = "start" /\ engine' = "registered"
  /\ UNCHANGED <<held, left, queued, begun>>

Start ==
  /\ main = "start"
  /\ \/ main' = "feed" /\ engine' = "started" /\ begun' = "yes"
     \/ main' = "end" /\ UNCHANGED <<engine, begun>>
  /\ UNCHANGED <<held, left, queued>>

\* fread: whole periods, then what is left of the last.
Feed ==
  /\ main = "feed" /\ left.whole + left.part > 0
  /\ left' = IF left.whole > 0 THEN [left EXCEPT !.whole = @ - 1]
                               ELSE [left EXCEPT !.part = 0]
  /\ queued' = queued + 1
  /\ UNCHANGED <<main, held, engine, begun>>

\* len == 0: the engine is stopped; its thread calls back for nothing more.
Stop ==
  /\ main = "feed" /\ left.whole + left.part = 0 /\ main' = "end"
  /\ engine' = "stopped" /\ queued' = 0
  /\ UNCHANGED <<held, left, begun>>

\* Bug: the files are closed before the engine is deleted.
EndFilesFirst ==
  \/ /\ main = "end" /\ main' = "files" /\ held' = held \ {"bf", "raw"}
     /\ UNCHANGED <<engine, left, queued, begun>>
  \/ /\ main = "files" /\ main' = "returned" /\ held' = held \cap {"jsroot", "config"}
     /\ engine' = "none" /\ queued' = 0 /\ UNCHANGED <<left, begun>>

\* _end: the engine, the library, the buffers and strings, the files.
End ==
  \/ /\ main = "end" /\ main' = "files" /\ engine' = "none" /\ queued' = 0
     /\ held' = held \ {"engine", "library", "peroid_buffer", "config_buff", "strings"}
     /\ UNCHANGED <<left, begun>>
  \/ /\ main = "files" /\ main' = "returned" /\ held' = held \ {"bf", "raw"}
     /\ UNCHANGED <<engine, left, queued, begun>>

\* The engine's thread: beamforming_callback writes to the file.
Callback ==
  /\ engine \in {"registered", "started"} /\ queued > 0 /\ queued' = queued - 1
  /\ UNCHANGED <<main, held, engine, left, begun>>

Main == \/ OpenConfig \/ ReadConfig \/ CloseConfig \/ Parse \/ Items
        \/ OpenOutput \/ OpenInput \/ Header \/ Load \/ New \/ Register
        \/ Start \/ Feed \/ Stop \/ End
Next == Main \/ Callback

Spec == Init /\ [][Next]_vars

-----------------------------------------------------------------------------
(* Properties *)

TypeOK ==
  /\ main \in {"off", "open", "size", "close", "parse", "items", "bf", "raw", "header",
               "load", "new", "register", "start", "feed", "end", "files", "returned"}
  /\ held \subseteq Things /\ begun \in {"yes", "no"}
  /\ engine \in {"none", "new", "registered", "started", "stopped"}
  /\ left \in [whole : 0..MaxPeriods, part : {0, 1}] /\ queued \in 0..MaxPeriods + 1

\* The engine and its thread live inside the life of the file that the
\* callback writes to (test_fesp.c:190, 223-248).
CallbackHasFile == engine # "none" => {"bf", "library", "peroid_buffer"} \subseteq held

\* On every path main() gives back what it acquired, except the parsed
\* configuration, and the configuration file when it is too large or does not
\* fit in memory (test_fesp.c:87-96, 104).
GivenBack ==
  main = "returned" => held \subseteq {"jsroot", "config"} /\ ("jsroot" \in held => "config" \notin held)

\* An engine that was started has been fed the whole recording.
WholeFed == main = "returned" /\ begun = "yes" => left.whole + left.part = 0

FespInv == TypeOK /\ CallbackHasFile /\ GivenBack /\ WholeFed

=============================================================================
