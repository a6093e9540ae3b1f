SPECIFICATION Spec
CONSTANTS
  u1 = u1  u2 = u2  p1 = p1  p2 = p2
  i1 = i1  i2 = i2  i3 = i3  i4 = i4  i5 = i5  i6 = i6
  Users = {u1}
  Procs = {p1, p2}
  Ids = {i1, i2, i3, i4}
  IPs = {a1, a2}
  ShortId <- DistinctShortIds
  Legacy <- OldContainer
  Ops = {"ensure", "pause", "resume", "destroy", "sync"}
  MayFail = TRUE
  OperatorActs = TRUE
  GatewayRestarts = TRUE
  NoRow = NoRow  NoIP = NoIP  Gone = Gone  Nobody = Nobody
SYMMETRY FreshSymmetry
INVARIANT TypeOK
PROPERTY NoLostContainer
