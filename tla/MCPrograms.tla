----------------------------- MODULE MCPrograms -----------------------------
EXTENDS Programs, TLC

\* The clients of one port are alike, and no property of the run that uses
\* this is temporal.
Symmetry ==
  Permutations(VoipSend) \cup Permutations(AecSend) \cup Permutations(LinkConn)

=============================================================================
