SPECIFICATION Spec
CONSTANTS
  mail = mail
  name = name
  boss = boss
  bogus = bogus
  x = x
  y = y
  TxInstant = TxInstant
  NoValue = NoValue
  Attrs = {mail, name, boss}
  Unique = {mail}
  Many = {boss}
  Values = {x, y}
  TxData <- AllTxData
  ExecFacts <- MailY
  MaxTx = 3
  MaxUser = 2
  MaxRestarts = 1
  MaxAnchors = 1
  MaxHydrated = 2
INVARIANTS TypeOK  JournalHoldsPrefix  LookupExact HydratedComplete SlotsResolve
CHECK_DEADLOCK FALSE
