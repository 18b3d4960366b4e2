------------------------------- MODULE PcmSplit -------------------------------
(***************************************************************************)
(* How one channel at 16 kHz is spread over two channels at 48 kHz:        *)
(* pcm_s16le_split (pcm_s16le_split/pcm_s16le_split.c, and without the     *)
(* final NUL algotest/src/dz_voip.c) and pcm_16k1chto48k2ch                *)
(* (dzvoip/src/dz_voip.c) write every 16-bit sample six times.  The loop   *)
(* is run here byte by byte: offsets count from 0, a sample is two bytes,  *)
(* and input[ilen] is the byte that follows the input in memory.           *)
(***************************************************************************)
EXTENDS Integers

CONSTANTS
  Byte,     \* values of a byte
  Nul,      \* the byte '\0'
  Old,      \* what was in the output before
  MaxLen,   \* bound: length of the input
  Ends      \* TRUE: the version that ends its output with NUL

PcmAssumption ==
  MaxLen \in Nat /\ Nul \in Byte /\ Old \notin Byte /\ Ends \in BOOLEAN

VARIABLES input, ilen, i, output, split

vars == <<input, ilen, i, output, split>>

Copies == 6

Init ==
  /\ i = 0 /\ split \in {"uncalled", "loop"}
  /\ ilen \in 0..(IF split = "loop" THEN MaxLen ELSE 0)
  /\ input \in [0..ilen -> IF split = "loop" THEN Byte ELSE {Nul}]
  /\ output = [k \in 0..Copies * ilen + 5 |-> Old]

\* Bug: the loop takes one byte at a time, as an earlier version did.
SampleByte ==
  /\ split = "loop" /\ i < ilen
  /\ output' = [k \in DOMAIN output |->
                  IF Copies * i <= k /\ k < Copies * i + 12
                    THEN input[i + ((k - Copies * i) % 2)] ELSE output[k]]
  /\ i' = i + 1 /\ UNCHANGED <<input, ilen, split>>

\* The two bytes at i go to the twelve from 6*i on; an odd length takes the
\* byte after the input as the second half of its last sample.
Sample ==
  /\ split = "loop" /\ i < ilen
  /\ output' = [k \in DOMAIN output |->
                  IF Copies * i <= k /\ k < Copies * i + 12
                    THEN input[i + ((k - Copies * i) % 2)] ELSE output[k]]
  /\ i' = i + 2 /\ UNCHANGED <<input, ilen, split>>

\* output[6*len] = '\0'
End ==
  /\ split = "loop" /\ i >= ilen /\ split' = "done"
  /\ output' = IF Ends THEN [output EXCEPT ![Copies * ilen] = Nul] ELSE output
  /\ UNCHANGED <<input, ilen, i>>

Next == Sample \/ End

Spec == Init /\ [][Next]_vars

-----------------------------------------------------------------------------
(* Properties *)

TypeOK ==
  /\ ilen \in 0..MaxLen /\ input \in [0..ilen -> Byte]
  /\ i \in 0..ilen + 1 /\ split \in {"uncalled", "loop", "done"}
  /\ output \in [0..Copies * ilen + 5 -> Byte \cup {Old}]

\* What byte k of the output should be: the samples in order, six of each.
Spread(k) == input[2 * (k \div 12) + (k % 2)]

\* The reads stay within the input and the byte after it, the writes within
\* 6*len bytes and the half sample of an odd length.
InBounds == i < ilen => i + 1 <= ilen /\ Copies * i + 11 \in DOMAIN output

\* The loop's invariant: all below 6*i is spread, all above untouched.
Progress ==
  split = "loop" =>
    /\ \E m \in 0..ilen + 1 : i = 2 * m
    /\ \A k \in DOMAIN output : output[k] = IF k < Copies * i THEN Spread(k) ELSE Old

\* When the loop is done the 6*len bytes announced are the input spread.
Spreads == split = "done" => \A k \in 0..Copies * ilen - 1 : output[k] = Spread(k)

\* What the loop keeps.
SplitInv == TypeOK /\ InBounds /\ Progress /\ Spreads

=============================================================================
