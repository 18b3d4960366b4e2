SPECIFICATION FairServers
CONSTANTS
  Program = {"Voip", "Link"}
  VoipSend = {s1}
  VoipRecv = {r1}
  Fd = {5, 6}
  MaxClients = 2
  AecSend = {e1, e2}
  AecRecv = {}
  LinkConn = {c1, c2}
  LinkFd = {5, 6, 7}
  Pieces = 1
  ClientWire = 2
  ClientCmd = 2
  Top = 1
  First = 1
  Group = {g1}
  MaxJobs = 1
  HandWire = 1
  HandRead = 1
  MaxPeriods = 3
  Byte = {0}
  Nul = 0
  MaxLen = 1
  FinalNul = TRUE
  None = None
PROPERTIES VoipServed   TransferEnds
\* Programs end, and clients are a bounded supply.
CHECK_DEADLOCK FALSE
