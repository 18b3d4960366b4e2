---------------------------- MODULE PcmSplitProofs ----------------------------
(***************************************************************************)
(* For every input, of every length, pcm_s16le_split spreads it as         *)
(* announced: the loop invariant of PcmSplit, proved.                      *)
(***************************************************************************)
EXTENDS PcmSplit, TLAPS

\* The arithmetic of one turn: byte k of the twelve that start at 12*m comes
\* from sample m, and has the parity of its distance from the start.
LEMMA Block ==
  ASSUME NEW m \in Nat, NEW k \in Nat, 12 * m <= k, k < 12 * m + 12
  PROVE  k \div 12 = m /\ (k - 12 * m) % 2 = k % 2
<1>1. k \div 12 = m OBVIOUS
<1>2. (k - 12 * m) % 2 = k % 2 OBVIOUS
<1>. QED BY <1>1, <1>2

\* Nothing is spread yet when the loop starts.
LEMMA InitInv ==
  ASSUME PcmAssumption, Init
  PROVE  SplitInv
<1>. USE DEF PcmAssumption
<1>1. TypeOK BY PcmAssumption DEF Init, TypeOK, Copies
<1>2. InBounds BY PcmAssumption DEF Init, InBounds, Copies
<1>3. Progress
  <2>1. ilen \in Nat BY PcmAssumption DEF Init
  <2>2. 0 \in 0..ilen + 1 /\ i = 2 * 0 BY <2>1 DEF Init
  <2>. QED BY <2>1, <2>2, PcmAssumption DEF Init, Progress, Copies
<1>4. Spreads BY DEF Init, Spreads
<1>. QED BY <1>1, <1>2, <1>3, <1>4 DEF SplitInv

\* A turn of the loop spreads the sample at i and touches nothing else.
LEMMA SampleInv ==
  ASSUME PcmAssumption, SplitInv, Sample
  PROVE  SplitInv'
<1>. USE DEF PcmAssumption
<1>1. PICK m \in 0..ilen + 1 : i = 2 * m BY DEF SplitInv, Progress, Sample
<1>2. /\ ilen \in Nat /\ i \in Nat /\ i + 1 <= ilen
      /\ input \in [0..ilen -> Byte]
      /\ output \in [0..6 * ilen + 5 -> Byte \cup {Old}]
      /\ i' = i + 2 /\ ilen' = ilen /\ input' = input
      /\ split = "loop" /\ split' = "loop"
  BY DEF SplitInv, TypeOK, InBounds, Sample, Copies
<1>3. output' = [k \in 0..6 * ilen + 5 |->
                   IF 6 * i <= k /\ k < 6 * i + 12
                     THEN input[i + ((k - 6 * i) % 2)] ELSE output[k]]
  BY <1>2 DEF Sample, Copies
<1>4. ASSUME NEW k \in 0..6 * ilen + 5, 6 * i <= k, k < 6 * i + 12
      PROVE  output'[k] = Spread(k) /\ output'[k] \in Byte
  <2>1. k \div 12 = m /\ (k - 12 * m) % 2 = k % 2 BY <1>1, <1>4, Block
  <2>2. k % 2 \in 0..1 OBVIOUS
  <2>3. i + ((k - 6 * i) % 2) = 2 * (k \div 12) + (k % 2) BY <1>1, <2>1, <2>2
  <2>4. i + ((k - 6 * i) % 2) \in 0..ilen BY <1>1, <1>2, <2>1, <2>2
  <2>5. output'[k] = input[i + ((k - 6 * i) % 2)] BY <1>3, <1>4
  <2>. QED BY <2>3, <2>4, <2>5, <1>2 DEF Spread
<1>5. ASSUME NEW k \in 0..6 * ilen + 5, ~(6 * i <= k /\ k < 6 * i + 12)
      PROVE  output'[k] = output[k]
  BY <1>3, <1>5
<1>6. TypeOK'
  <2>1. output' \in [0..6 * ilen + 5 -> Byte \cup {Old}] BY <1>2, <1>3, <1>4, <1>5
  <2>2. i' \in 0..ilen' + 1 BY <1>2
  <2>. QED BY <1>2, <2>1, <2>2 DEF TypeOK, SplitInv, Copies
<1>7. InBounds'
  <2>1. ASSUME i' < ilen' PROVE i' + 1 <= ilen' /\ 6 * i' + 11 \in 0..6 * ilen' + 5
    BY <2>1, <1>2
  <2>2. DOMAIN output' = 0..6 * ilen + 5 BY <1>3
  <2>. QED BY <1>2, <2>1, <2>2 DEF InBounds, Copies
<1>8. Progress'
  <2>1. i' = 2 * (m + 1) /\ m + 1 \in 0..ilen' + 1 BY <1>1, <1>2
  <2>2. ASSUME NEW k \in 0..6 * ilen + 5
        PROVE  output'[k] = IF k < 6 * i' THEN Spread(k)' ELSE Old
    <3>1. Spread(k)' = Spread(k) BY <1>2 DEF Spread
    <3>2. output[k] = IF k < 6 * i THEN Spread(k) ELSE Old
      BY <1>2 DEF SplitInv, Progress, Copies
    <3>3. CASE 6 * i <= k /\ k < 6 * i + 12 BY <1>2, <1>4, <3>1, <3>3
    <3>4. CASE ~(6 * i <= k /\ k < 6 * i + 12) BY <1>2, <1>5, <3>1, <3>2, <3>4
    <3>. QED BY <3>3, <3>4
  <2>3. DOMAIN output' = 0..6 * ilen + 5 BY <1>3
  <2>. QED BY <2>1, <2>2, <2>3 DEF Progress, Copies
<1>9. Spreads' BY <1>2 DEF Spreads
<1>. QED BY <1>6, <1>7, <1>8, <1>9 DEF SplitInv

\* The loop ends with everything below 6*len spread; the NUL goes after it.
LEMMA EndInv ==
  ASSUME PcmAssumption, SplitInv, End
  PROVE  SplitInv'
<1>. USE DEF PcmAssumption
<1>1. /\ ilen \in Nat /\ i \in Nat /\ ilen <= i
      /\ output \in [0..6 * ilen + 5 -> Byte \cup {Old}]
      /\ i' = i /\ ilen' = ilen /\ input' = input /\ split = "loop" /\ split' = "done"
  BY DEF SplitInv, TypeOK, End, Copies
<1>2. output' \in [0..6 * ilen + 5 -> Byte \cup {Old}]
  BY <1>1 DEF End, Copies
<1>3. ASSUME NEW k \in 0..6 * ilen - 1 PROVE output'[k] = output[k]
  BY <1>1, <1>3 DEF End, Copies
<1>4. ASSUME NEW k \in 0..6 * ilen - 1 PROVE output'[k] = Spread(k)'
  <2>1. output[k] = Spread(k)
    BY <1>1, k \in 0..6 * ilen + 5, k < 6 * i DEF SplitInv, Progress, Copies
  <2>. QED BY <1>1, <1>3, <2>1 DEF Spread
<1>5. TypeOK' BY <1>1, <1>2 DEF TypeOK, SplitInv, Copies
<1>6. InBounds' BY <1>1 DEF InBounds
<1>7. Progress' BY <1>1 DEF Progress
<1>8. Spreads' BY <1>1, <1>4 DEF Spreads, Copies
<1>. QED BY <1>5, <1>6, <1>7, <1>8 DEF SplitInv

LEMMA StepInv == PcmAssumption /\ SplitInv /\ [Next]_vars => SplitInv'
<1>. SUFFICES ASSUME PcmAssumption, SplitInv, [Next]_vars PROVE SplitInv' OBVIOUS
<1>1. CASE Sample BY <1>1, SampleInv
<1>2. CASE End BY <1>2, EndInv
<1>3. CASE UNCHANGED vars
  BY <1>3 DEF vars, SplitInv, TypeOK, InBounds, Progress, Spreads, Spread
<1>. QED BY <1>1, <1>2, <1>3 DEF Next

\* For inputs of every length the reads and writes of the loop are where they
\* should be, and what it leaves is the input spread.
THEOREM SplitCorrect == ASSUME PcmAssumption PROVE Spec => []SplitInv
BY InitInv, StepInv, PTL DEF Spec

=============================================================================
