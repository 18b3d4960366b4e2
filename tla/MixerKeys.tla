------------------------------ MODULE MixerKeys ------------------------------
(***************************************************************************)
(* The volume and microphone keys (dz_voip_20200810/src/key.c, and the     *)
(* test program test/vol_ctrl/volume.c).  Every change of a mixer control  *)
(* is an amixer command that the shell starts in the background: system()  *)
(* returns once the shell has started it, and commands that run at the     *)
(* same time take effect in any order.  Only the program knows what it     *)
(* asked for (volume, micsta); the mixer is never read.                    *)
(***************************************************************************)
EXTENDS Integers, Sequences, FiniteSets, SequencesExt

CONSTANTS
  Top,      \* highest index of volarg
  First,    \* what volume starts with
  Group,    \* 'ADC ALC Group' controls of the microphones
  MaxJobs,  \* bound: commands running at the same time
  Unset     \* what a control holds before the first command

MixerAssumption ==
  /\ Top \in Nat /\ First \in 0..Top /\ MaxJobs \in Nat \ {0}
  /\ IsFiniteSet(Group) /\ Group # {} /\ "Master" \notin Group
  /\ Unset \notin 0..Top \cup {0, 1}

Control == {"Master"} \cup Group
Kind == {"volume", "mic"}
KindOf(c) == IF c = "Master" THEN "volume" ELSE "mic"

VARIABLES
  key,       \* "off" (not started), "read", "do"
  volume, micsta,
  todo,      \* commands the handler of the current key is yet to start
  jobs,      \* commands running
  mixer,     \* the controls: index of volarg, or 1 (23) or 0 for a group
  asked,     \* kinds asked for since the program started
  racing     \* kinds last asked for while a command of theirs still ran

vars == <<key, volume, micsta, todo, jobs, mixer, asked, racing>>

Command == [control : Control, value : 0..Top \cup {0, 1}]

\* The loop over the groups, in any fixed order.
Groups(v) == [i \in 1..Len(SetToSeq(Group)) |->
                [control |-> SetToSeq(Group)[i], value |-> v]]
Master(v) == <<[control |-> "Master", value |-> v]>>

Running(k) == \E i \in DOMAIN jobs : KindOf(jobs[i].control) = k

\* key.c sets nothing when it starts; volume.c first sets every control.
Init ==
  /\ volume = First /\ micsta = 1 /\ jobs = <<>> /\ racing = {}
  /\ mixer = [c \in Control |-> Unset]
  /\ \/ key \in {"off", "read"} /\ todo = <<>> /\ asked = {}
     \/ key = "do" /\ todo = Groups(1) \o Master(First) /\ asked = Kind

Ask(k, commands) ==
  /\ key = "read" /\ key' = "do" /\ todo' = commands
  /\ asked' = asked \cup {k}
  /\ racing' = IF Running(k) THEN racing \cup {k} ELSE racing \ {k}
  /\ UNCHANGED <<jobs, mixer>>

\* Bug: volarg[volume--].
volume_down_late ==
  /\ volume' = IF volume = 0 THEN volume ELSE volume - 1
  /\ Ask("volume", Master(volume)) /\ UNCHANGED micsta

volume_down ==
  /\ volume' = IF volume = 0 THEN volume ELSE volume - 1
  /\ Ask("volume", Master(volume')) /\ UNCHANGED micsta

volume_up ==
  /\ volume' = IF volume = Top THEN volume ELSE volume + 1
  /\ Ask("volume", Master(volume')) /\ UNCHANGED micsta

\* The code turns micsta after the loop over the groups, here before it: only
\* this thread reads it, and the loop has no other exit.
set_mic_state ==
  /\ micsta' = 1 - micsta
  /\ Ask("mic", Groups(micsta')) /\ UNCHANGED volume

\* system(): the next command of the handler starts to run.
Issue ==
  /\ key = "do" /\ Len(jobs) < MaxJobs
  /\ jobs' = Append(jobs, Head(todo)) /\ todo' = Tail(todo)
  /\ key' = IF Len(todo) = 1 THEN "read" ELSE "do"
  /\ UNCHANGED <<volume, micsta, mixer, asked, racing>>

\* A command takes effect, in any order.
Effect(i) ==
  /\ i \in DOMAIN jobs /\ jobs' = RemoveAt(jobs, i)
  /\ mixer' = [mixer EXCEPT ![jobs[i].control] = jobs[i].value]
  /\ UNCHANGED <<key, volume, micsta, todo, asked, racing>>

Press == volume_down \/ volume_up \/ set_mic_state
Next == Press \/ Issue \/ \E i \in 1..MaxJobs : Effect(i)

Spec == Init /\ [][Next]_vars

-----------------------------------------------------------------------------
(* Properties *)

TypeOK ==
  /\ key \in {"off", "read", "do"} /\ volume \in 0..Top /\ micsta \in {0, 1}
  /\ \A i \in DOMAIN todo : todo[i] \in Command
  /\ \A i \in DOMAIN jobs : jobs[i] \in Command
  /\ mixer \in [Control -> 0..Top \cup {0, 1, Unset}]
  /\ asked \subseteq Kind /\ racing \subseteq Kind

Settled(k) == key = "read" /\ ~Running(k) /\ k \in asked

\* Once no command runs, the mixer is what the program believes, if the last
\* key of a kind was pressed with no command of its kind running
\* (key.c:27-47, 60-85).
Believed ==
  /\ Settled("volume") /\ "volume" \notin racing => mixer["Master"] = volume
  /\ Settled("mic") /\ "mic" \notin racing => \A g \in Group : mixer[g] = micsta

\* Whatever the order, the mixer is left at a value that was asked for: no
\* control of a kind that was set once is left as it was before.
NoneUnset == \A k \in Kind : Settled(k) =>
               \A c \in Control : KindOf(c) = k => mixer[c] # Unset

MixerInv == TypeOK /\ Believed /\ NoneUnset

=============================================================================
