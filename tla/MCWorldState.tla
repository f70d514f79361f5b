---------------------------- MODULE MCWorldState ----------------------------
(* WorldState with the real contracts, on two accounts and one escrow.        *)
EXTENDS WorldState, TLC

CONSTANTS a, b, e, t1, t2, t3, Treasury

INSTANCE Contracts

Call(contract, from, to, amount) ==
  [contract |-> contract, from |-> from, to |-> to, amount |-> amount, id |-> e]

\* The beneficiary releases the escrow, the sender refunds it, and meanwhile
\* spends what it has.
Race ==
  (t1 :> Call("release", a, b, 0)) @@ (t2 :> Call("refund", a, b, 0))
    @@ (t3 :> Call("transfer", a, b, 1))

\* b receives a payment that makes its balance longer while the escrow is
\* released to it, and locked again.
Spend ==
  (t1 :> Call("loyalty", a, b, 50)) @@ (t2 :> Call("release", a, b, 0))
    @@ (t3 :> Call("lock", a, b, 1))

Txs == {t1, t2, t3}
RaceKeys == [t \in Txs |-> KeysOf(Race[t])]
RaceEffect(t, got) == Execute(Race[t], got)

SpendKeys == [t \in Txs |-> KeysOf(Spend[t])]
SpendEffect(t, got) == Execute(Spend[t], got)

MoneyKeys == {Balance(a), Balance(b), Balance(Treasury), Escrow(e)}
Keys == MoneyKeys \cup {Discount(a), Loyalty(a)}
MintTo == {Balance(b)}

\* An escrow of 1 is locked, and b's balance is about to gain a digit.
RaceStart ==
  [k \in Keys |-> CASE k = Balance(a) -> 1 [] k = Balance(b) -> 9
                    [] k = Escrow(e) -> 1 [] OTHER -> Nothing]
SpendStart ==
  [k \in Keys |-> CASE k = Balance(a) -> 51 [] k = Balance(b) -> 60
                    [] k = Escrow(e) -> 1 [] OTHER -> Nothing]

Digits(v) ==
  IF v = Nothing THEN 0 ELSE IF v < 10 THEN 1 ELSE IF v < 100 THEN 2 ELSE 3

ShortBlocks == {<<t>> : t \in Txs} \cup (Txs \X Txs)
=============================================================================
