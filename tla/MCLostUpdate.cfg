CONSTANTS
  a = a
  b = b
  e = e
  t1 = t1
  t2 = t2
  t3 = t3
  Nothing = Nothing
  Rejected = Rejected
  Treasury = Treasury
  Key <- Keys
  Tx <- Txs
  ReadKeys <- SpendKeys
  Effect <- SpendEffect
  Size <- Digits
  InitialValue <- SpendStart
  Blocks <- ShortBlocks
  Money <- MoneyKeys
  MintKeys <- MintTo
  MaxHeight = 2
  MaxFailures = 0
  MaxMints = 0
SPECIFICATION Spec
CHECK_DEADLOCK FALSE
INVARIANTS
  Conservation
