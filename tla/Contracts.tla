------------------------------ MODULE Contracts ------------------------------
(***************************************************************************)
(* The contracts under coreservice/contracts that move balances, as pure    *)
(* functions: the keys a call reads, in order, and the writes it makes from  *)
(* the values it got, or Rejected.  A value that did not come is 0 (getInt)  *)
(* or no escrow (loadEscrow).  Receipts, which nothing reads, are left out.  *)
(* A discount is stored with two decimals, as hundredths; an escrow stores   *)
(* its amount, its parties being those of the call that names it.  Accounts  *)
(* are 40 characters long and a call's differ (verify_tx): none pays itself, *)
(* and the treasury takes part in none.                                      *)
(***************************************************************************)
EXTENDS Naturals, Sequences

CONSTANTS Nothing, Rejected, Treasury

Balance(a)  == <<"balance", a>>
Discount(a) == <<"discount", a>>
Loyalty(a)  == <<"loyalty", a>>
Escrow(id)  == <<"escrow", id>>

GetInt(v) == IF v = Nothing THEN 0 ELSE v

\* The write set after one more write: the last one of a key wins.
PutWrite(writes, key, val) ==
  [k \in DOMAIN writes \cup {key} |-> IF k = key THEN val ELSE writes[k]]

-----------------------------------------------------------------------------
(* transfer: the sender pays less than the receiver gets if it has a discount *)

TransferKeys(c) == <<Discount(c.from), Balance(c.from), Balance(c.to)>>

\* ceil(amount / (1 + d)), at least 1.
Debit(amount, d) ==
  IF d = 0 THEN amount
  ELSE LET least == (amount * 100 + 99 + d) \div (100 + d)
       IN IF least < 1 THEN 1 ELSE least

Transfer_Unchecked(c, got) ==
  LET debit == Debit(c.amount, GetInt(got[1]))
  IN PutWrite(PutWrite(<<>>, Balance(c.from), GetInt(got[2]) - debit),
              Balance(c.to), GetInt(got[3]) + c.amount)
Transfer(c, got) ==
  LET debit == Debit(c.amount, GetInt(got[1]))
      fromBal == GetInt(got[2])
      toBal == GetInt(got[3])
  IN IF fromBal < debit THEN Rejected
     ELSE PutWrite(PutWrite(<<>>, Balance(c.from), fromBal - debit),
                   Balance(c.to), toBal + c.amount)

-----------------------------------------------------------------------------
(* escrow: lock, release to the beneficiary, refund to the sender *)

LockKeys(c) == <<Escrow(c.id), Balance(c.from)>>
Lock(c, got) ==
  IF got[1] # Nothing \/ GetInt(got[2]) < c.amount THEN Rejected
  ELSE PutWrite(PutWrite(<<>>, Balance(c.from), GetInt(got[2]) - c.amount),
                Escrow(c.id), c.amount)

ReleaseKeys(c) == <<Escrow(c.id), Balance(c.to)>>
Release(c, got) ==
  IF got[1] = Nothing THEN Rejected
  ELSE PutWrite(PutWrite(<<>>, Balance(c.to), GetInt(got[2]) + got[1]),
                Escrow(c.id), Nothing)

RefundKeys(c) == <<Escrow(c.id), Balance(c.from)>>
Refund(c, got) ==
  IF got[1] = Nothing THEN Rejected
  ELSE PutWrite(PutWrite(<<>>, Balance(c.from), GetInt(got[2]) + got[1]),
                Escrow(c.id), Nothing)

-----------------------------------------------------------------------------
(* loyalty_xfer: a fee for the treasury, points, 5 back for each 100 points *)

FeeBPS(amount) ==
  CASE amount >= 500 -> 800
    [] amount >= 100 /\ amount < 500 -> 500
    [] amount >= 50 /\ amount < 100 -> 200
    [] OTHER -> 0

CalcFee(amount) ==
  LET share == (amount * FeeBPS(amount)) \div 10000
      fee == IF share < 1 THEN 1 ELSE share
  IN IF FeeBPS(amount) = 0 THEN 0 ELSE IF fee < amount THEN fee ELSE amount - 1

LoyaltyKeys(c) ==
  <<Balance(c.from), Balance(c.to), Balance(Treasury), Loyalty(c.from)>>
LoyaltyXfer(c, got) ==
  LET fee == CalcFee(c.amount)
      fromBal == GetInt(got[1])
      points == GetInt(got[4]) + c.amount \div 10
      bonus == 5 * (points \div 100)
      moved == PutWrite(PutWrite(<<>>, Balance(c.from), fromBal - c.amount + bonus),
                        Balance(c.to), GetInt(got[2]) + c.amount - fee)
      split == IF fee > 0 THEN PutWrite(moved, Balance(Treasury), GetInt(got[3]) + fee)
               ELSE moved
  IN IF fromBal < c.amount THEN Rejected
     ELSE PutWrite(split, Loyalty(c.from), points % 100)

-----------------------------------------------------------------------------
KeysOf(c) ==
  CASE c.contract = "transfer" -> TransferKeys(c)
    [] c.contract = "lock"     -> LockKeys(c)
    [] c.contract = "release"  -> ReleaseKeys(c)
    [] c.contract = "refund"   -> RefundKeys(c)
    [] c.contract = "loyalty"  -> LoyaltyKeys(c)

Execute(c, got) ==
  CASE c.contract = "transfer" -> Transfer(c, got)
    [] c.contract = "lock"     -> Lock(c, got)
    [] c.contract = "release"  -> Release(c, got)
    [] c.contract = "refund"   -> Refund(c, got)
    [] c.contract = "loyalty"  -> LoyaltyXfer(c, got)
=============================================================================
