CONSTANTS
  a = a
  b = b
  e = e
  t1 = t1
  t2 = t2
  t3 = t3
  Nothing = Nothing
  Rejected = Rejected
  Treasury = Treasury
  Key <- Keys
  Tx <- Txs
  ReadKeys <- RaceKeys
  Effect <- RaceEffect
  Size <- Digits
  InitialValue <- RaceStart
  Blocks <- ShortBlocks
  Money <- MoneyKeys
  MintKeys <- MintTo
  MaxHeight = 2
  MaxFailures = 1
  MaxMints = 1
SPECIFICATION Spec
CHECK_DEADLOCK FALSE
INVARIANTS
  TypeOK
  ReadsCurrent
  AppliedOnce
  NoMoneyCreated
