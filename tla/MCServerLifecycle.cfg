\* Three clients, a second signal, sizes at and past every limit.
SPECIFICATION FairSpec
CHECK_DEADLOCK FALSE
CONSTANTS
  Clients = {c1, c2, c3}
  MaxSignals = 2
  MinPayload = 2
  MaxPayload = 6
  DefaultPayload = 4
  UIntRange = 16
  Sizes = {1, 5, 7, 16}
  MaxOptions = 2
  NoArg = NoArg
  Text = Text
  Unfit = Unfit
  NoClient = NoClient
INVARIANTS TypeOK ReportIsTrue TracksOpenClients OnlyStopRaces PayloadBounded
PROPERTIES WalkSparesClients StartReturns SignalEndsServer
