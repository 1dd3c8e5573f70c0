CONSTANTS
  Producers = {p1, p2}
  NoResult = NoResult
  Failure = Failure
  Listeners <- TwoListeners
  Connections <- Arriving
  Spawned <- Competing
  Operation <- TheOperation
  Protocol <- ServiceOf
  Limit <- BudgetOf
  Handoffs <- HandedOver
  CommandRoom = 2
  HandoffRoom = 1
  MaxProtocols = 2
  MaxListeners = 2
  Applications <- OperationOrListeners
  None = None
SPECIFICATION RuntimeSpec
INVARIANTS
  ExactlyOneOwner
  ClaimedNeverCancelled
  BudgetIsShared
  NothingOutlivesTheWorker
PROPERTIES
  OutcomeDelivered
  CancelRetires
  ShutdownCompletes
  ImplementsSingleResult
