SPECIFICATION Spec
CONSTANTS
  Program = {"Voip", "Aec", "Link", "Client", "Mixer", "Hand", "Voice", "Demo", "Fesp", "Split"}
  VoipSend = {s1, s2}
  VoipRecv = {r1}
  Fd = {5, 6}
  MaxClients = 2
  AecSend = {e1, e2}
  AecRecv = {p1}
  LinkConn = {c1, c2}
  LinkFd = {5, 6, 7}
  Pieces = 2
  ClientWire = 2
  ClientCmd = 3
  Top = 3
  First = 1
  Group = {g1, g2}
  MaxJobs = 3
  HandWire = 3
  HandRead = 2
  MaxPeriods = 3
  Byte = {0, 1}
  Nul = 0
  MaxLen = 5
  FinalNul = TRUE
  None = None
SYMMETRY Symmetry
INVARIANTS VoipInv PcmExclusive AecInv LinkInv FileOrder ClientInv MixerInv HandsetInv VoiceInv  SplitInv
\* Programs end, and clients are a bounded supply.
CHECK_DEADLOCK FALSE
