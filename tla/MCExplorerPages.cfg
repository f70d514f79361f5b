CONSTANTS
  t1 = t1
  t2 = t2
  alice = alice
  bob = bob
  note = note
  transfer = transfer
  mint = mint
  NoUser = NoUser
  Gone = Gone
  NoContract = NoContract
  Tabs <- MCTabs
  Users <- MCUsers
  Contracts <- MCContracts
  Preferred <- transfer
  NeedsFrom <- MCNeedsFrom
  SchemaFields <- MCFields
  Required <- MCRequired
  RawPayloads <- MCRaw
  Page <- t1
  MaxClicks = 3
  Balances = {0, 1}
  Unknown = Unknown
  StreamCap = 1
SYMMETRY Symmetry
SPECIFICATION PagesSpec
CHECK_DEADLOCK FALSE
INVARIANTS TypeOK SubmittedFrom StoredPair CommonFields OwnFields WatchesItsAccount ShowsTheBalance
