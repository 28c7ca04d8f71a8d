----------------------------- MODULE LedgerCoins -----------------------------
(***************************************************************************)
(* What Ledger does with coins, for every choice of addresses,             *)
(* transactions, blocks and parameters: no coin is created beyond the      *)
(* emission, the balance index is exact, no transaction confirms twice and *)
(* unbonded coins stay frozen.                                             *)
(*                                                                         *)
(* All four rest on one fact: the outputs of a transaction that applies    *)
(* are new.  Its inputs are unspent, the inputs of every transaction       *)
(* applied before are spent, so it is none of those; and the UTXO set      *)
(* holds the outputs of those only, and of coinbases of earlier heights.   *)
(***************************************************************************)
EXTENDS LedgerProofs, SumFacts

\* The transactions of a chain, and the first n - 2 of a block at height h, each
\* with its height: at position n those, and the coinbase, are applied.
Confirmed(blocks) ==
  {p \in Txs \X DOMAIN blocks :
     \E i \in DOMAIN blocks[p[2]].txs : p[1] = blocks[p[2]].txs[i]}

AppliedOf(b, h, n) == {p \in Txs \X {h} : \E i \in DOMAIN b.txs : i + 1 < n /\ p[1] = b.txs[i]}

\* Every output is a coinbase's or one of an applied transaction's.
OutputsAreKnown(u, D, H) ==
  \A o \in DOMAIN u : o[1][2] \in 1..H \/ \E p \in D : o[1] = p[1].id

\* A txid names its content: the output's owner is the one its transaction says.
OwnersAreNamed(u) ==
  \A o \in DOMAIN u : \A t \in Txs :
    t.id = o[1] => o[2] \in DOMAIN t.outs /\ u[o].owner = t.outs[o[2]].owner

InputsAreSpent(u, D) ==
  \A p \in D : p[1].ins # {} /\ \A o \in p[1].ins : o \in DOMAIN u /\ u[o].spent

ReleasesAreFrozen(u, D) ==
  \A p \in D : Unbonds(p[1]) =>
    \A o \in NewOutpoints(p[1]) : o \in DOMAIN u /\ u[o].spendable = p[2] + UnbondDelay

DelaysAreKept(D) ==
  \A p, q \in D :
    Unbonds(p[1]) /\ q[1].ins \cap NewOutpoints(p[1]) # {} => q[2] >= p[2] + UnbondDelay

IndexIsExact(l) == \A a \in Address : l.index[a] = BalanceOf(l, a)

\* l is the ledger after the transactions D and the coinbases up to height H.
CoinsOf(l, D, H) ==
  /\ IsFiniteSet(DOMAIN l.utxo)
  /\ OutputsAreKnown(l.utxo, D, H)
  /\ OwnersAreNamed(l.utxo)
  /\ InputsAreSpent(l.utxo, D)
  /\ ReleasesAreFrozen(l.utxo, D)
  /\ DelaysAreKept(D)
  /\ IndexIsExact(l)

Conserved(l) == UnspentCoins(l) + l.slashed <= l.emitted

\* A ledger between blocks.
SettledCoins(l) ==
  /\ CoinsOf(l, Confirmed(l.blocks), Height(l))
  /\ ConfirmedOnce(l.blocks)
  /\ Conserved(l)

\* The fees of the transactions applied at position n.
FeesBefore(b, n) == SumFunctionOnSet(Fees(b), {i \in DOMAIN b.txs : i + 1 < n})

\* Inside a block the coinbase has collected what the transactions have still
\* to pay.
Covered(l, b, n) ==
  IF n > 1
  THEN UnspentCoins(l) + l.slashed + FeesBefore(b, n) <= l.emitted + AmountOf(b.outs)
  ELSE Conserved(l)

\* The transactions of the block applied so far are new to the chain and to
\* each other.
FreshBlock(l, b, n) ==
  n > 0 =>
    /\ \A i \in DOMAIN b.txs : b.txs[i].ins # {}
    /\ \A i \in DOMAIN b.txs : i + 1 < n =>
         /\ \A p \in Confirmed(l.blocks) : p[1] # b.txs[i]
         /\ \A j \in DOMAIN b.txs : j + 1 < n /\ b.txs[i] = b.txs[j] => i = j

AppliedAt(l, b, n) == Confirmed(l.blocks) \cup AppliedOf(b, Height(l) + 1, n)

\* The height of the last coinbase applied.
CoinbasesAt(l, n) == IF n > 1 THEN Height(l) + 1 ELSE Height(l)

\* A ledger to which add_block has applied b up to position n; n = 0 outside it.
CoinsAt(l, b, n) ==
  /\ CoinsOf(l, AppliedAt(l, b, n), CoinbasesAt(l, n))
  /\ ConfirmedOnce(l.blocks)
  /\ Covered(l, b, n)
  /\ FreshBlock(l, b, n)

CoinsInv == CoinsAt(led, blk, pos) /\ SettledCoins(snap) /\ SettledCoins(old)

-----------------------------------------------------------------------------
(* The coins of a set of owners, and what a transaction does to them.      *)

Purse(u, W) == {o \in DOMAIN u : u[o].owner \in W /\ ~u[o].spent}

Held(u, W) == SumFunctionOnSet(Amounts(u), Purse(u, W))

Spends(u, t, W) == {o \in t.ins : u[o].owner \in W}

Pays(t, W) == {i \in DOMAIN t.outs : t.outs[i].owner \in W}

\* What is left when c coins are spent, d of them paid out again and e of them left as a fee.
LEMMA PaidCoins ==
  \A a, b, c, d, e \in Nat : a + c = b + d /\ c >= d + e => a + e <= b
OBVIOUS

LEMMA MintedCoins ==
  \A a, b, d \in Nat : a + 0 = b + d => a = b + d
OBVIOUS

\* A balance is what one owner holds, the unspent coins are what all hold.
LEMMA HeldNames ==
  ASSUME NEW l, LedgerTypeOK(l)
  PROVE  /\ UnspentCoins(l) = Held(l.utxo, Address)
         /\ \A a : BalanceOf(l, a) = Held(l.utxo, {a})
<1>1. {o \in DOMAIN l.utxo : ~l.utxo[o].spent} = Purse(l.utxo, Address)
  BY DEF LedgerTypeOK, Utxo, Purse
<1>2. ASSUME NEW a
      PROVE  {o \in DOMAIN l.utxo : l.utxo[o].owner = a /\ ~l.utxo[o].spent} = Purse(l.utxo, {a})
  BY DEF Purse
<1> QED
  BY <1>1, <1>2, Zenon DEF UnspentCoins, BalanceOf, Held

\* The amounts of a ledger's outputs are numbers.
LEMMA UtxoAmounts ==
  ASSUME NEW l, LedgerTypeOK(l), NEW S \in SUBSET DOMAIN l.utxo
  PROVE  /\ NatOn(Amounts(l.utxo), S)
         /\ \A o \in S : Amounts(l.utxo)[o] = l.utxo[o].amount
  BY DEF LedgerTypeOK, Utxo, NatOn, Amounts

\* So are those of a transaction, whose outputs are finitely many.
LEMMA OutAmounts ==
  ASSUME NEW t, IsTx(t), NEW I \in SUBSET DOMAIN t.outs
  PROVE  IsFiniteSet(I) /\ NatOn(Amounts(t.outs), I)
<1>1. t.outs \in Seq(Output)
  BY DEF IsTx
<1>2. DOMAIN t.outs = 1..Len(t.outs) /\ Len(t.outs) \in Nat
  BY <1>1
<1>3. IsFiniteSet(DOMAIN t.outs)
  BY <1>2, FinRange
<1>4. \A i \in DOMAIN t.outs : t.outs[i].amount \in Nat
  <2>1. \A i \in DOMAIN t.outs : t.outs[i] \in Output
    BY <1>1
  <2> QED
    BY <2>1 DEF Output
<1>5. NatOn(Amounts(t.outs), I)
  BY <1>4 DEF NatOn, Amounts
<1>6. IsFiniteSet(I)
  BY <1>3, FinSubset
<1> QED
  BY <1>5, <1>6

\* When the inputs are unspent and the outputs new, owners gain what they are
\* paid and lose what they spend.
LEMMA HeldAfter ==
  ASSUME NEW l, LedgerTypeOK(l), IsFiniteSet(DOMAIN l.utxo),
         NEW t, IsTx(t), \A o \in t.ins : Unspent(l.utxo, o),
         NEW h, NewOutpoints(t) \cap DOMAIN l.utxo = {},
         LedgerTypeOK(ApplyTransaction(l, t, h)), NEW W
  PROVE  /\ Held(ApplyTransaction(l, t, h).utxo, W) \in Nat /\ Held(l.utxo, W) \in Nat
         /\ SumFunctionOnSet(Amounts(l.utxo), Spends(l.utxo, t, W)) \in Nat
         /\ SumFunctionOnSet(Amounts(t.outs), Pays(t, W)) \in Nat
         /\ Held(ApplyTransaction(l, t, h).utxo, W)
              + SumFunctionOnSet(Amounts(l.utxo), Spends(l.utxo, t, W))
            = Held(l.utxo, W) + SumFunctionOnSet(Amounts(t.outs), Pays(t, W))
<1> DEFINE U    == UtxoAfter(l, t, h)
           Gone == Spends(l.utxo, t, W)
           Kept == Purse(l.utxo, W) \ Gone
           Made == PairsOf(t.id, Pays(t, W))
<1>1. ApplyTransaction(l, t, h).utxo = U
  BY Zenon DEF ApplyTransaction
<1>2. /\ DOMAIN U = DOMAIN l.utxo \cup NewOutpoints(t)
      /\ \A o \in NewOutpoints(t) : /\ U[o].owner = t.outs[o[2]].owner
                                    /\ U[o].amount = t.outs[o[2]].amount
                                    /\ U[o].spent = FALSE
      /\ \A o \in DOMAIN l.utxo : /\ U[o].owner = l.utxo[o].owner
                                  /\ U[o].amount = l.utxo[o].amount
                                  /\ o \in t.ins => U[o].spent = TRUE
                                  /\ o \notin t.ins => U[o].spent = l.utxo[o].spent
  BY Zenon DEF UtxoAfter, MarkSpent
<1>3. Purse(l.utxo, W) = Kept \cup Gone /\ Kept \cap Gone = {}
  BY DEF Purse, Spends, Unspent
<1>4. Made \subseteq NewOutpoints(t)
  BY DEF Pays, NewOutpoints, PairsOf
<1>5. \A o \in NewOutpoints(t) : o[2] \in DOMAIN t.outs /\ o = <<t.id, o[2]>>
  BY DEF NewOutpoints
<1>6. Kept \subseteq DOMAIN l.utxo /\ Gone \subseteq DOMAIN l.utxo
  BY DEF Purse, Spends, Unspent
<1>7. Purse(U, W) = Kept \cup Made
  <2>1. ASSUME NEW o \in Purse(U, W)
        PROVE  o \in Kept \cup Made
    <3>1. CASE o \in NewOutpoints(t)
      BY <1>2, <1>5, <3>1 DEF Purse, Pays, PairsOf
    <3>2. CASE o \in DOMAIN l.utxo
      BY <1>2, <3>2 DEF Purse, Spends
    <3> QED
      BY <1>2, <3>1, <3>2 DEF Purse
  <2>2. ASSUME NEW o \in Kept
        PROVE  o \in Purse(U, W)
    BY <1>2, <1>6 DEF Purse, Spends
  <2>3. ASSUME NEW o \in Made
        PROVE  o \in Purse(U, W)
    BY <1>2, <1>4 DEF Purse, Pays, PairsOf
  <2> QED
    BY <2>1, <2>2, <2>3
<1>8. Kept \cap Made = {}
  BY <1>4, <1>6
<1>9. /\ \A o \in Kept : Amounts(U)[o] = Amounts(l.utxo)[o]
      /\ \A i \in Pays(t, W) : Amounts(U)[<<t.id, i>>] = Amounts(t.outs)[i]
  BY <1>2, <1>4, <1>6 DEF Amounts, Pays, PairsOf
<1> HIDE DEF U, Gone, Kept, Made
<1>10. /\ IsFiniteSet(Kept) /\ IsFiniteSet(Gone)
       /\ NatOn(Amounts(l.utxo), Kept) /\ NatOn(Amounts(l.utxo), Gone)
  BY <1>6, FinSubset, UtxoAmounts
<1>11. IsFiniteSet(Pays(t, W)) /\ NatOn(Amounts(t.outs), Pays(t, W))
  BY OutAmounts DEF Pays
<1>12. /\ IsFiniteSet(Made) /\ NatOn(Amounts(U), Made)
       /\ SumFunctionOnSet(Amounts(U), Made) = SumFunctionOnSet(Amounts(t.outs), Pays(t, W))
  BY <1>9, <1>11, SumPairs DEF Made
<1>13. /\ NatOn(Amounts(U), Kept)
       /\ SumFunctionOnSet(Amounts(U), Kept) = SumFunctionOnSet(Amounts(l.utxo), Kept)
  <2>1. NatOn(Amounts(U), Kept)
    BY <1>9, <1>10 DEF NatOn
  <2> QED
    BY <2>1, <1>9, <1>10, SumEqual
<1>14. Held(U, W) = SumFunctionOnSet(Amounts(U), Kept) + SumFunctionOnSet(Amounts(U), Made)
  BY <1>7, <1>8, <1>10, <1>12, <1>13, SumUnion DEF Held
<1>15. Held(l.utxo, W) = SumFunctionOnSet(Amounts(l.utxo), Kept) + SumFunctionOnSet(Amounts(l.utxo), Gone)
  BY <1>3, <1>10, SumUnion DEF Held
<1>16. /\ SumFunctionOnSet(Amounts(l.utxo), Kept) \in Nat
       /\ SumFunctionOnSet(Amounts(l.utxo), Gone) \in Nat
       /\ SumFunctionOnSet(Amounts(t.outs), Pays(t, W)) \in Nat
  BY <1>10, <1>11, SumType
<1>17. /\ Held(U, W) \in Nat /\ Held(l.utxo, W) \in Nat
       /\ Held(U, W) + SumFunctionOnSet(Amounts(l.utxo), Gone)
            = Held(l.utxo, W) + SumFunctionOnSet(Amounts(t.outs), Pays(t, W))
  BY <1>12, <1>13, <1>14, <1>15, <1>16
<1> QED
  BY <1>1, <1>16, <1>17 DEF Gone

-----------------------------------------------------------------------------
(* The outputs of a transaction that applies are new.                      *)

\* D lists transactions with the heights they were applied at.
IsHistory(D) == \A p \in D : p[1] \in Txs /\ p[2] \in Nat

\* A transaction with inputs applies once, and its outputs are new.
LEMMA FreshTx ==
  ASSUME NEW l, NEW D, NEW H \in Nat, IsHistory(D), CoinsOf(l, D, H),
         NEW t \in Txs, t.ins # {}, NEW h, Applies(l, t, h)
  PROVE  /\ \A p \in D : p[1] # t
         /\ NewOutpoints(t) \cap DOMAIN l.utxo = {}
<1>1. \A o \in t.ins : Unspent(l.utxo, o)
  BY DEF Applies, ValidateTransaction, InputsOk
<1>2. \A p \in D : p[1] # t
  BY <1>1 DEF CoinsOf, InputsAreSpent, Unspent
<1>3. ASSUME NEW o \in NewOutpoints(t), o \in DOMAIN l.utxo
      PROVE  FALSE
  <2>1. o[1] = t.id /\ t.id[2] = 0
    BY <1>3, TxsAssumption DEF NewOutpoints
  <2>2. o[1][2] \in 1..H \/ \E p \in D : o[1] = p[1].id
    BY <1>3 DEF CoinsOf, OutputsAreKnown
  <2>3. PICK p \in D : o[1] = p[1].id
    BY <2>1, <2>2
  <2> QED
    BY <1>2, <2>1, <2>3, TxsAssumption, Zenon DEF IsHistory
<1> QED
  BY <1>2, <1>3

\* So are the outputs of the coinbase of the next height.
LEMMA FreshCoinbase ==
  ASSUME NEW l, NEW D, NEW H \in Nat, IsHistory(D), CoinsOf(l, D, H),
         NEW b \in Blocks
  PROVE  NewOutpoints(Coinbase(b, H + 1)) \cap DOMAIN l.utxo = {}
<1> SUFFICES ASSUME NEW o \in NewOutpoints(Coinbase(b, H + 1)), o \in DOMAIN l.utxo
             PROVE  FALSE
  OBVIOUS
<1>1. o[1] = <<b.coinbase, H + 1>>
  BY DEF NewOutpoints, Coinbase
<1>2. o[1][2] = H + 1 /\ H + 1 # 0
  BY <1>1
<1>3. o[1][2] \in 1..H \/ \E p \in D : o[1] = p[1].id
  BY DEF CoinsOf, OutputsAreKnown
<1>4. PICK p \in D : o[1] = p[1].id
  BY <1>2, <1>3
<1>5. p[1].id[2] = 0
  BY TxsAssumption DEF IsHistory
<1> QED
  BY <1>2, <1>4, <1>5

\* The index follows the outputs: the subtraction that stops at 0 never does.
LEMMA IndexAfterExact ==
  ASSUME NEW l, LedgerTypeOK(l), IsFiniteSet(DOMAIN l.utxo), IndexIsExact(l),
         NEW t, IsTx(t), \A o \in t.ins : Unspent(l.utxo, o),
         NEW h, NewOutpoints(t) \cap DOMAIN l.utxo = {},
         LedgerTypeOK(ApplyTransaction(l, t, h))
  PROVE  IndexIsExact(ApplyTransaction(l, t, h))
<1> DEFINE m == ApplyTransaction(l, t, h)
<1> SUFFICES ASSUME NEW a \in Address
             PROVE  m.index[a] = BalanceOf(m, a)
  BY DEF IndexIsExact
<1>1. m.index[a] = Monus(l.index[a], SpentOf(l, t, a)) + PaidTo(t, a)
  BY DEF ApplyTransaction, IndexAfter
<1>2. BalanceOf(m, a) = Held(m.utxo, {a}) /\ l.index[a] = Held(l.utxo, {a})
  BY HeldNames, Zenon DEF IndexIsExact
<1>3. Spends(l.utxo, t, {a}) = {o \in t.ins : l.utxo[o].owner = a}
  BY DEF Spends
<1>4. Pays(t, {a}) = {i \in DOMAIN t.outs : t.outs[i].owner = a}
  BY DEF Pays
<1>5. /\ Held(m.utxo, {a}) \in Nat /\ Held(l.utxo, {a}) \in Nat
      /\ SpentOf(l, t, a) \in Nat /\ PaidTo(t, a) \in Nat
      /\ Held(m.utxo, {a}) + SpentOf(l, t, a) = Held(l.utxo, {a}) + PaidTo(t, a)
  <2>1. /\ SpentOf(l, t, a) = SumFunctionOnSet(Amounts(l.utxo), Spends(l.utxo, t, {a}))
        /\ PaidTo(t, a) = SumFunctionOnSet(Amounts(t.outs), Pays(t, {a}))
    BY <1>3, <1>4, Zenon DEF SpentOf, PaidTo
  <2> QED
    BY <2>1, HeldAfter
<1>6. SpentOf(l, t, a) <= Held(l.utxo, {a})
  <2>1. Spends(l.utxo, t, {a}) \subseteq Purse(l.utxo, {a})
    BY DEF Spends, Purse, Unspent
  <2>2. IsFiniteSet(Purse(l.utxo, {a})) /\ NatOn(Amounts(l.utxo), Purse(l.utxo, {a}))
    BY FinSubset, UtxoAmounts, Zenon DEF Purse
  <2>3. SumFunctionOnSet(Amounts(l.utxo), Spends(l.utxo, t, {a}))
          <= SumFunctionOnSet(Amounts(l.utxo), Purse(l.utxo, {a}))
    BY <2>1, <2>2, SumPart
  <2> QED
    BY <1>3, <2>3, Zenon DEF SpentOf, Held
<1> HIDE DEF m
<1> QED
  BY <1>1, <1>2, <1>5, <1>6 DEF Monus

-----------------------------------------------------------------------------
(* CoinsOf through apply_transaction, a slash and the rest of add_block.   *)

\* Marking an entry spent changes nothing else in it.
LEMMA MarkSpentFacts ==
  ASSUME NEW u
  PROVE  /\ MarkSpent(u).owner = u.owner /\ MarkSpent(u).amount = u.amount
         /\ MarkSpent(u).spendable = u.spendable /\ MarkSpent(u).spent = TRUE
  BY DEF MarkSpent

\* What apply_transaction makes of the outputs: U after it, when its own are new.
UtxoMoves(l, t, h, U) ==
  /\ DOMAIN U = DOMAIN l.utxo \cup NewOutpoints(t)
  /\ \A o \in NewOutpoints(t) :
       /\ o[1] = t.id /\ o[2] \in DOMAIN t.outs
       /\ U[o].owner = t.outs[o[2]].owner /\ U[o].amount = t.outs[o[2]].amount
       /\ U[o].spent = FALSE
       /\ SpendsTicket(l, t) => U[o].spendable = h + UnbondDelay
  /\ \A o \in DOMAIN l.utxo :
       /\ U[o].owner = l.utxo[o].owner /\ U[o].amount = l.utxo[o].amount
       /\ U[o].spendable = l.utxo[o].spendable
       /\ o \in t.ins => U[o].spent = TRUE
       /\ o \notin t.ins => U[o].spent = l.utxo[o].spent

LEMMA ApplyMovesUtxo ==
  ASSUME NEW l, NEW t, NEW h, NewOutpoints(t) \cap DOMAIN l.utxo = {}
  PROVE  UtxoMoves(l, t, h, ApplyTransaction(l, t, h).utxo)
<1> DEFINE U == ApplyTransaction(l, t, h).utxo
<1>1. U = UtxoAfter(l, t, h)
  BY DEF ApplyTransaction
<1> HIDE DEF U
<1>2. \A o \in NewOutpoints(t) : o[1] = t.id /\ o[2] \in DOMAIN t.outs
  BY DEF NewOutpoints
<1>3. \A o \in NewOutpoints(t) :
        /\ U[o].owner = t.outs[o[2]].owner /\ U[o].amount = t.outs[o[2]].amount
        /\ U[o].spent = FALSE
        /\ SpendsTicket(l, t) => U[o].spendable = h + UnbondDelay
  BY <1>1 DEF UtxoAfter
<1>4. \A o \in DOMAIN l.utxo :
        /\ U[o].owner = l.utxo[o].owner /\ U[o].amount = l.utxo[o].amount
        /\ U[o].spendable = l.utxo[o].spendable
        /\ o \in t.ins => U[o].spent = TRUE
        /\ o \notin t.ins => U[o].spent = l.utxo[o].spent
  <2> TAKE o \in DOMAIN l.utxo
  <2>1. U[o] = IF o \in t.ins THEN MarkSpent(l.utxo[o]) ELSE l.utxo[o]
    <3>1. o \notin NewOutpoints(t)
      OBVIOUS
    <3> QED
      BY <1>1, <3>1 DEF UtxoAfter
  <2>2. CASE o \in t.ins
    <3>1. U[o] = MarkSpent(l.utxo[o])
      BY <2>1, <2>2
    <3> QED
      BY <2>2, <3>1, MarkSpentFacts, Zenon
  <2>3. CASE o \notin t.ins
    <3>1. U[o] = l.utxo[o]
      BY <2>1, <2>3
    <3> QED
      BY <2>3, <3>1
  <2> QED
    BY <2>2, <2>3, Zenon
<1>5. DOMAIN U = DOMAIN l.utxo \cup NewOutpoints(t)
  BY <1>1 DEF UtxoAfter
<1> HIDE DEF U
<1>6. UtxoMoves(l, t, h, U)
  BY <1>2, <1>3, <1>4, <1>5 DEF UtxoMoves
<1> QED
  BY <1>6 DEF U

\* Finitely many outputs stay finitely many.
LEMMA UtxoAfterFinite ==
  ASSUME NEW l, NEW t, IsTx(t), NEW h, IsFiniteSet(DOMAIN l.utxo)
  PROVE  IsFiniteSet(DOMAIN ApplyTransaction(l, t, h).utxo)
<1>1. DOMAIN ApplyTransaction(l, t, h).utxo = DOMAIN l.utxo \cup NewOutpoints(t)
  BY DEF ApplyTransaction, UtxoAfter
<1>2. IsFiniteSet(DOMAIN t.outs) /\ NatOn(Amounts(t.outs), DOMAIN t.outs)
  BY OutAmounts
<1>3. NewOutpoints(t) = PairsOf(t.id, DOMAIN t.outs)
  BY DEF NewOutpoints, PairsOf
<1> DEFINE f == [p \in PairsOf(t.id, DOMAIN t.outs) |-> Amounts(t.outs)[p[2]]]
<1>4. \A i \in DOMAIN t.outs : f[<<t.id, i>>] = Amounts(t.outs)[i]
  BY DEF PairsOf
<1> HIDE DEF f
<1>5. IsFiniteSet(PairsOf(t.id, DOMAIN t.outs))
  BY <1>2, <1>4, SumPairs
<1> QED
  BY <1>1, <1>3, <1>5, FinUnion

\* A spend applied at height h joins the history.
LEMMA ApplyTxCoins ==
  ASSUME NEW l, LedgerInv(l), NEW D, NEW H \in Nat, IsHistory(D), CoinsOf(l, D, H),
         NEW t \in Txs, IsTx(t), t.ins # {}, NEW h \in Nat, Applies(l, t, h)
  PROVE  CoinsOf(ApplyTransaction(l, t, h), D \cup {<<t, h>>}, H)
<1> DEFINE m == ApplyTransaction(l, t, h)
           E == D \cup {<<t, h>>}
           U == m.utxo
<1>1. NewOutpoints(t) \cap DOMAIN l.utxo = {}
  BY FreshTx
<1>2. \A o \in t.ins : Unspent(l.utxo, o) /\ l.utxo[o].spendable <= h
  BY DEF Applies, ValidateTransaction, InputsOk
<1>3. LedgerTypeOK(l) /\ LedgerTypeOK(m)
  BY ApplyType DEF LedgerInv
<1>4. UtxoMoves(l, t, h, U)
  BY <1>1, ApplyMovesUtxo
<1>5. IndexIsExact(m)
  BY <1>1, <1>2, <1>3, IndexAfterExact, Zenon DEF CoinsOf
<1>6. IsFiniteSet(DOMAIN U)
  BY UtxoAfterFinite DEF CoinsOf
<1> HIDE DEF m, U
<1>e. \A p \in E : p \in D \/ (p[1] = t /\ p[2] = h)
  OBVIOUS
<1>f. D \subseteq E /\ <<t, h>> \in E /\ <<t, h>>[1] = t
  OBVIOUS
<1> HIDE DEF E
<1>7. OutputsAreKnown(U, E, H)
  <2> SUFFICES ASSUME NEW o \in DOMAIN U
               PROVE  o[1][2] \in 1..H \/ \E p \in E : o[1] = p[1].id
    BY DEF OutputsAreKnown
  <2>1. CASE o \in NewOutpoints(t)
    BY <1>4, <1>f, <2>1, Zenon DEF UtxoMoves
  <2>2. CASE o \in DOMAIN l.utxo
    BY <1>f, <2>2, Zenon DEF CoinsOf, OutputsAreKnown
  <2> QED
    BY <1>4, <2>1, <2>2, Zenon DEF UtxoMoves
<1>8. OwnersAreNamed(U)
  <2> SUFFICES ASSUME NEW o \in DOMAIN U, NEW u \in Txs, u.id = o[1]
               PROVE  o[2] \in DOMAIN u.outs /\ U[o].owner = u.outs[o[2]].owner
    BY Zenon DEF OwnersAreNamed
  <2>1. CASE o \in NewOutpoints(t)
    BY <1>4, <2>1, TxsAssumption DEF UtxoMoves
  <2>2. CASE o \in DOMAIN l.utxo
    BY <1>4, <2>2 DEF UtxoMoves, CoinsOf, OwnersAreNamed
  <2> QED
    BY <1>4, <2>1, <2>2, Zenon DEF UtxoMoves
<1>9. InputsAreSpent(U, E)
  BY <1>2, <1>4, <1>e, Zenon DEF UtxoMoves, InputsAreSpent, CoinsOf, Unspent
<1>10. Unbonds(t) => SpendsTicket(l, t)
  BY <1>2, Zenon DEF Unbonds, SpendsTicket, CoinsOf, OwnersAreNamed, LedgerInv, TicketsBackedBy, Unspent
<1>11. ReleasesAreFrozen(U, E)
  <2> SUFFICES ASSUME NEW p \in E, Unbonds(p[1]), NEW o \in NewOutpoints(p[1])
               PROVE  o \in DOMAIN U /\ U[o].spendable = p[2] + UnbondDelay
    BY Zenon DEF ReleasesAreFrozen
  <2>1. CASE p \in D
    <3>1. o \in DOMAIN l.utxo /\ l.utxo[o].spendable = p[2] + UnbondDelay
      BY <2>1, Zenon DEF ReleasesAreFrozen, CoinsOf
    <3> QED
      BY <1>4, <3>1, Zenon DEF UtxoMoves
  <2>2. CASE p[1] = t /\ p[2] = h
    <3>1. o \in NewOutpoints(t) /\ SpendsTicket(l, t)
      BY <1>10, <2>2, Zenon
    <3> QED
      BY <1>4, <2>2, <3>1, Zenon DEF UtxoMoves
  <2> QED
    BY <1>e, <2>1, <2>2, Zenon
<1>12. DelaysAreKept(E)
  <2> SUFFICES ASSUME NEW p \in E, NEW q \in E, Unbonds(p[1]),
                      NEW o \in q[1].ins, o \in NewOutpoints(p[1])
               PROVE  q[2] >= p[2] + UnbondDelay
    BY DEF DelaysAreKept
  <2>1. o \in DOMAIN l.utxo
    BY <1>2, <1>e DEF CoinsOf, InputsAreSpent, Unspent
  <2>2. p \in D
    BY <1>1, <1>e, <2>1, Zenon
  <2>3. CASE q \in D
    BY <2>2, <2>3 DEF CoinsOf, DelaysAreKept
  <2>4. CASE q[1] = t /\ q[2] = h
    <3>1. l.utxo[o].spendable = p[2] + UnbondDelay
      BY <2>2 DEF CoinsOf, ReleasesAreFrozen
    <3>2. l.utxo[o].spendable <= h
      BY <1>2, <2>4
    <3>3. p[2] \in Nat /\ UnbondDelay \in Nat
      BY <2>2, ParametersAssumption DEF IsHistory
    <3> QED
      BY <2>4, <3>1, <3>2, <3>3, Zenon
  <2> QED
    BY <1>e, <2>3, <2>4
<1>13. CoinsOf(m, E, H)
  BY <1>5, <1>6, <1>7, <1>8, <1>9, <1>11, <1>12 DEF CoinsOf, U
<1> QED
  BY <1>13 DEF m, E

\* The coinbase of the next height adds outputs and spends none.
LEMMA ApplyCoinbaseCoins ==
  ASSUME NEW l, LedgerInv(l), NEW D, NEW H \in Nat, IsHistory(D), CoinsOf(l, D, H),
         NEW b \in Blocks, IsTx(Coinbase(b, H + 1)), Applies(l, Coinbase(b, H + 1), H + 1)
  PROVE  CoinsOf(ApplyTransaction(l, Coinbase(b, H + 1), H + 1), D, H + 1)
<1> DEFINE t == Coinbase(b, H + 1)
           m == ApplyTransaction(l, t, H + 1)
           U == m.utxo
<1>0. H + 1 \in Nat /\ t.ins = {} /\ t.id = <<b.coinbase, H + 1>>
  BY DEF Coinbase
<1>1. NewOutpoints(t) \cap DOMAIN l.utxo = {}
  BY FreshCoinbase
<1> HIDE DEF t
<1>2. IsTx(t) /\ Applies(l, t, H + 1)
  BY DEF t
<1>3. LedgerTypeOK(l) /\ LedgerTypeOK(m)
  BY <1>0, <1>2, ApplyType DEF LedgerInv
<1>4. UtxoMoves(l, t, H + 1, U)
  BY <1>1, ApplyMovesUtxo, Zenon
<1>5. IndexIsExact(m)
  BY <1>0, <1>1, <1>2, <1>3, IndexAfterExact, Zenon DEF CoinsOf
<1>6. IsFiniteSet(DOMAIN U)
  BY <1>2, UtxoAfterFinite, Zenon DEF CoinsOf
<1> HIDE DEF m, U
<1>7. OutputsAreKnown(U, D, H + 1)
  <2> SUFFICES ASSUME NEW o \in DOMAIN U
               PROVE  o[1][2] \in 1..(H + 1) \/ \E p \in D : o[1] = p[1].id
    BY DEF OutputsAreKnown
  <2>1. CASE o \in NewOutpoints(t)
    <3>1. o[1] = <<b.coinbase, H + 1>>
      BY <1>0, <1>4, <2>1 DEF UtxoMoves
    <3> QED
      BY <1>0, <3>1
  <2>2. CASE o \in DOMAIN l.utxo
    <3>1. o[1][2] \in 1..H \/ \E p \in D : o[1] = p[1].id
      BY <2>2, Zenon DEF CoinsOf, OutputsAreKnown
    <3> QED
      BY <3>1
  <2> QED
    BY <1>4, <2>1, <2>2, Zenon DEF UtxoMoves
<1>8. OwnersAreNamed(U)
  <2> SUFFICES ASSUME NEW o \in DOMAIN U, NEW u \in Txs, u.id = o[1]
               PROVE  o[2] \in DOMAIN u.outs /\ U[o].owner = u.outs[o[2]].owner
    BY DEF OwnersAreNamed
  <2>1. CASE o \in NewOutpoints(t)
    <3>1. u.id = <<b.coinbase, H + 1>> /\ u.id[2] = 0
      BY <1>0, <1>4, <2>1, TxsAssumption DEF UtxoMoves
    <3> QED
      BY <1>0, <3>1
  <2>2. CASE o \in DOMAIN l.utxo
    BY <1>4, <2>2 DEF UtxoMoves, CoinsOf, OwnersAreNamed
  <2> QED
    BY <1>4, <2>1, <2>2, Zenon DEF UtxoMoves
<1>9. InputsAreSpent(U, D)
  BY <1>0, <1>4, Zenon DEF UtxoMoves, InputsAreSpent, CoinsOf
<1>10. ReleasesAreFrozen(U, D)
  BY <1>4, Zenon DEF UtxoMoves, ReleasesAreFrozen, CoinsOf
<1>11. CoinsOf(m, D, H + 1)
  BY <1>5, <1>6, <1>7, <1>8, <1>9, <1>10 DEF CoinsOf, U
<1> QED
  BY <1>11 DEF m, t

\* A ledger that differs only in members the coins do not depend on.
LEMMA SameCoins ==
  ASSUME NEW l, NEW m, NEW D, NEW H, CoinsOf(l, D, H), m.utxo = l.utxo, m.index = l.index
  PROVE  CoinsOf(m, D, H) /\ UnspentCoins(m) = UnspentCoins(l)
<1>1. \A a : BalanceOf(m, a) = BalanceOf(l, a)
  BY DEF BalanceOf
<1>2. UnspentCoins(m) = UnspentCoins(l)
  BY DEF UnspentCoins
<1>3. IndexIsExact(m)
  BY <1>1, Zenon DEF CoinsOf, IndexIsExact
<1> QED
  BY <1>2, <1>3 DEF CoinsOf

\* Burning a ticket takes its coins from the owner @stake and from the total.
LEMMA HeldAfterBurn ==
  ASSUME NEW l, LedgerTypeOK(l), IsFiniteSet(DOMAIN l.utxo), NEW o, Unspent(l.utxo, o),
         NEW W
  PROVE  LET U == [l.utxo EXCEPT ![o] = MarkSpent(@)]
         IN  /\ Held(U, W) \in Nat /\ Held(l.utxo, W) \in Nat /\ l.utxo[o].amount \in Nat
             /\ l.utxo[o].owner \in W => Held(l.utxo, W) = l.utxo[o].amount + Held(U, W)
             /\ l.utxo[o].owner \notin W => Held(l.utxo, W) = Held(U, W)
<1> DEFINE U == [l.utxo EXCEPT ![o] = MarkSpent(@)]
           P == Purse(l.utxo, W)
<1>1. o \in DOMAIN l.utxo /\ ~l.utxo[o].spent /\ l.utxo[o].amount \in Nat
  BY DEF Unspent, LedgerTypeOK, Utxo
<1>2. /\ DOMAIN U = DOMAIN l.utxo
      /\ \A x \in DOMAIN l.utxo : x # o => U[x] = l.utxo[x]
      /\ U[o] = MarkSpent(l.utxo[o])
  BY <1>1
<1> HIDE DEF U
<1>3. U[o].owner = l.utxo[o].owner /\ U[o].amount = l.utxo[o].amount /\ U[o].spent = TRUE
  BY <1>2, MarkSpentFacts, Zenon
<1>4. Purse(U, W) = P \ {o}
  BY <1>1, <1>2, <1>3 DEF Purse
<1>5. P \subseteq DOMAIN l.utxo /\ (l.utxo[o].owner \in W <=> o \in P)
  BY <1>1 DEF Purse
<1>6. \A x \in P : Amounts(U)[x] = Amounts(l.utxo)[x]
  BY <1>1, <1>2, <1>3, <1>5, Zenon DEF Amounts
<1> HIDE DEF P
<1>7. IsFiniteSet(P) /\ NatOn(Amounts(l.utxo), P) /\ NatOn(Amounts(U), P)
  <2>1. IsFiniteSet(P) /\ NatOn(Amounts(l.utxo), P)
    BY <1>5, FinSubset, UtxoAmounts, Zenon
  <2> QED
    BY <1>6, <2>1 DEF NatOn
<1>8. /\ SumFunctionOnSet(Amounts(U), P) = SumFunctionOnSet(Amounts(l.utxo), P)
      /\ SumFunctionOnSet(Amounts(U), P) \in Nat
  BY <1>6, <1>7, SumEqual, SumType
<1>9. IsFiniteSet(P \ {o}) /\ NatOn(Amounts(U), P \ {o})
  BY <1>7, FinSubset DEF NatOn
<1>10. SumFunctionOnSet(Amounts(U), P \ {o}) \in Nat
  BY <1>9, SumType
<1>11. o \in P => SumFunctionOnSet(Amounts(U), P)
                    = Amounts(U)[o] + SumFunctionOnSet(Amounts(U), P \ {o})
  BY <1>7, SumRemove
<1>12. o \in P => Amounts(U)[o] = l.utxo[o].amount
  BY <1>1, <1>5, <1>6, Zenon DEF Amounts
<1>13. o \notin P => P \ {o} = P
  OBVIOUS
<1>14. /\ Held(U, W) = SumFunctionOnSet(Amounts(U), P \ {o})
       /\ Held(l.utxo, W) = SumFunctionOnSet(Amounts(l.utxo), P)
  BY <1>4, Zenon DEF Held, P
<1> QED
  BY <1>1, <1>5, <1>8, <1>10, <1>11, <1>12, <1>13, <1>14, Zenon DEF U

\* A slash keeps the coins in order and moves what it burns to the slashed sum.
LEMMA SlashCoins ==
  ASSUME NEW l, LedgerInv(l), NEW D, NEW H, CoinsOf(l, D, H), NEW o
  PROVE  /\ CoinsOf(ApplySlash(l, o), D, H)
         /\ UnspentCoins(l) \in Nat /\ UnspentCoins(ApplySlash(l, o)) \in Nat
         /\ UnspentCoins(ApplySlash(l, o)) + ApplySlash(l, o).slashed = UnspentCoins(l) + l.slashed
<1> DEFINE m == ApplySlash(l, o)
<1>0. LedgerInv(m)
  BY SlashKeepsLedgerInv
<1>t. /\ LedgerTypeOK(l) /\ LedgerTypeOK(m) /\ l.slashed \in Nat /\ m.slashed \in Nat
      /\ l.index \in [Address -> Nat]
  BY <1>0, Zenon DEF LedgerInv, LedgerTypeOK
<1>u. UnspentCoins(l) = Held(l.utxo, Address) /\ UnspentCoins(m) = Held(m.utxo, Address)
  BY <1>t, HeldNames
<1>1. CASE o \notin DOMAIN l.tickets
  <2>1. m = l
    BY <1>1 DEF ApplySlash
  <2>2. Held(l.utxo, Address) \in Nat
    <3>1. IsFiniteSet(Purse(l.utxo, Address)) /\ NatOn(Amounts(l.utxo), Purse(l.utxo, Address))
      BY <1>t, FinSubset, UtxoAmounts, Zenon DEF Purse, CoinsOf
    <3> QED
      BY <3>1, SumType, Zenon DEF Held
  <2> QED
    BY <1>t, <1>u, <2>1, <2>2
<1>2. CASE o \in DOMAIN l.tickets
  <2>1. Unspent(l.utxo, o) /\ l.utxo[o].owner = StakeAddress
    BY <1>2 DEF LedgerInv, TicketsBackedBy, Unspent
  <2>2. /\ m.utxo = [l.utxo EXCEPT ![o] = MarkSpent(@)]
        /\ m.index = [l.index EXCEPT ![StakeAddress] = Monus(@, l.utxo[o].amount)]
        /\ m.slashed = l.slashed + l.utxo[o].amount
    BY <1>2, <2>1 DEF ApplySlash, IndexWithout
  <2> DEFINE U == m.utxo
  <2> HIDE DEF m
  <2>3. \A W : /\ Held(U, W) \in Nat /\ Held(l.utxo, W) \in Nat /\ l.utxo[o].amount \in Nat
               /\ StakeAddress \in W => Held(l.utxo, W) = l.utxo[o].amount + Held(U, W)
               /\ StakeAddress \notin W => Held(l.utxo, W) = Held(U, W)
    <3>1. LedgerTypeOK(l) /\ IsFiniteSet(DOMAIN l.utxo)
      BY <1>t, Zenon DEF CoinsOf
    <3>2. U = [l.utxo EXCEPT ![o] = MarkSpent(@)]
      BY <2>2, Zenon
    <3> HIDE DEF U
    <3> QED
      BY <2>1, <3>1, <3>2, HeldAfterBurn, Zenon
  <2>4. StakeAddress \in Address
    BY ParametersAssumption
  <2>5. /\ Held(U, Address) \in Nat /\ Held(l.utxo, Address) \in Nat /\ l.utxo[o].amount \in Nat
        /\ Held(l.utxo, Address) = l.utxo[o].amount + Held(U, Address)
    BY <2>3, <2>4
  <2>6. /\ UnspentCoins(l) \in Nat /\ UnspentCoins(m) \in Nat
        /\ UnspentCoins(m) + m.slashed = UnspentCoins(l) + l.slashed
    BY <1>t, <1>u, <2>2, <2>5
  <2>7. IndexIsExact(m)
    <3> SUFFICES ASSUME NEW a \in Address
                 PROVE  m.index[a] = BalanceOf(m, a)
      BY Zenon DEF IndexIsExact
    <3>1. BalanceOf(m, a) = Held(U, {a}) /\ l.index[a] = Held(l.utxo, {a})
      BY <1>t, HeldNames, Zenon DEF CoinsOf, IndexIsExact
    <3>2. CASE a = StakeAddress
      <4>1. m.index[a] = Monus(l.index[a], l.utxo[o].amount)
        BY <1>t, <2>2, <3>2
      <4>2. /\ Held(U, {a}) \in Nat /\ Held(l.utxo, {a}) \in Nat /\ l.utxo[o].amount \in Nat
            /\ Held(l.utxo, {a}) = l.utxo[o].amount + Held(U, {a})
        BY <2>3, <3>2
      <4> QED
        BY <3>1, <4>1, <4>2 DEF Monus
    <3>3. CASE a # StakeAddress
      <4>1. m.index[a] = l.index[a]
        BY <1>t, <2>2, <3>3
      <4>2. Held(l.utxo, {a}) = Held(U, {a})
        BY <2>3, <3>3, Zenon
      <4> QED
        BY <3>1, <4>1, <4>2, Zenon
    <3> QED
      BY <3>2, <3>3
  <2>8. /\ DOMAIN U = DOMAIN l.utxo
        /\ \A x \in DOMAIN l.utxo : x # o => U[x] = l.utxo[x]
        /\ o \in DOMAIN l.utxo /\ U[o] = MarkSpent(l.utxo[o])
    BY <2>1, <2>2 DEF Unspent
  <2> HIDE DEF U
  <2>9. \A x \in DOMAIN l.utxo : /\ U[x].owner = l.utxo[x].owner
                                 /\ U[x].spendable = l.utxo[x].spendable
                                 /\ l.utxo[x].spent => U[x].spent
    <3>1. /\ U[o].owner = l.utxo[o].owner /\ U[o].spendable = l.utxo[o].spendable
          /\ U[o].spent = TRUE
      BY <2>8, MarkSpentFacts, Zenon
    <3> QED
      BY <2>8, <3>1, Zenon
  <2>10. /\ IsFiniteSet(DOMAIN U) /\ OutputsAreKnown(U, D, H) /\ OwnersAreNamed(U)
         /\ InputsAreSpent(U, D) /\ ReleasesAreFrozen(U, D)
    BY <2>8, <2>9, Zenon
       DEF CoinsOf, OutputsAreKnown, OwnersAreNamed, InputsAreSpent, ReleasesAreFrozen
  <2>11. CoinsOf(m, D, H)
    BY <2>7, <2>10 DEF CoinsOf, U
  <2> QED
    BY <2>6, <2>11 DEF m
<1> QED
  BY <1>1, <1>2

\* A spend pays no more than it consumes, its fee included.
LEMMA SpendConserves ==
  ASSUME NEW l, LedgerInv(l), NEW D, NEW H \in Nat, IsHistory(D), CoinsOf(l, D, H),
         NEW t \in Txs, IsTx(t), t.ins # {}, NEW h \in Nat, Applies(l, t, h)
  PROVE  /\ UnspentCoins(l) \in Nat /\ UnspentCoins(ApplyTransaction(l, t, h)) \in Nat
         /\ UnspentCoins(ApplyTransaction(l, t, h)) + t.fee <= UnspentCoins(l)
<1> DEFINE m == ApplyTransaction(l, t, h)
           spent == SumFunctionOnSet(Amounts(l.utxo), t.ins)
<1>1. NewOutpoints(t) \cap DOMAIN l.utxo = {}
  BY FreshTx
<1>2. \A o \in t.ins : Unspent(l.utxo, o)
  BY Zenon DEF Applies, ValidateTransaction, InputsOk
<1>3. LedgerTypeOK(l) /\ LedgerTypeOK(m) /\ IsFiniteSet(DOMAIN l.utxo)
  BY ApplyType, Zenon DEF LedgerInv, CoinsOf
<1>4. UnspentCoins(l) = Held(l.utxo, Address) /\ UnspentCoins(m) = Held(m.utxo, Address)
  BY <1>3, HeldNames, Zenon
<1>5. Spends(l.utxo, t, Address) = t.ins
  BY <1>2, <1>3, Zenon DEF Spends, Unspent, LedgerTypeOK, Utxo
<1>6. Pays(t, Address) = DOMAIN t.outs
  <2>1. \A i \in DOMAIN t.outs : t.outs[i] \in Output
    BY DEF IsTx
  <2> QED
    BY <2>1 DEF Pays, Output
<1>7. spent >= AmountOf(t.outs) + t.fee /\ t.fee \in Nat
  BY TxsAssumption, Zenon DEF Applies, ValidateTransaction, ValueOk
<1>8. /\ Held(m.utxo, Address) \in Nat /\ Held(l.utxo, Address) \in Nat
      /\ SumFunctionOnSet(Amounts(l.utxo), Spends(l.utxo, t, Address)) \in Nat
      /\ SumFunctionOnSet(Amounts(t.outs), Pays(t, Address)) \in Nat
      /\ Held(m.utxo, Address) + SumFunctionOnSet(Amounts(l.utxo), Spends(l.utxo, t, Address))
           = Held(l.utxo, Address) + SumFunctionOnSet(Amounts(t.outs), Pays(t, Address))
  BY <1>1, <1>2, <1>3, HeldAfter
<1>9. /\ SumFunctionOnSet(Amounts(l.utxo), Spends(l.utxo, t, Address)) = spent
      /\ SumFunctionOnSet(Amounts(t.outs), Pays(t, Address)) = AmountOf(t.outs)
  BY <1>5, <1>6, Zenon DEF AmountOf
<1> HIDE DEF m, spent
<1>10. /\ UnspentCoins(l) \in Nat /\ UnspentCoins(m) \in Nat
       /\ UnspentCoins(m) + t.fee <= UnspentCoins(l)
  <2>1. /\ Held(m.utxo, Address) \in Nat /\ Held(l.utxo, Address) \in Nat
        /\ spent \in Nat /\ AmountOf(t.outs) \in Nat
        /\ Held(m.utxo, Address) + spent = Held(l.utxo, Address) + AmountOf(t.outs)
    BY <1>8, <1>9, Zenon
  <2>2. Held(m.utxo, Address) + t.fee <= Held(l.utxo, Address)
    BY <1>7, <2>1, PaidCoins, Zenon
  <2> QED
    BY <1>4, <2>1, <2>2, Zenon
<1> QED
  BY <1>10, Zenon DEF m

\* The coinbase adds its outputs to what is unspent.
LEMMA CoinbaseConserves ==
  ASSUME NEW l, LedgerInv(l), NEW D, NEW H \in Nat, IsHistory(D), CoinsOf(l, D, H),
         NEW b \in Blocks, IsTx(Coinbase(b, H + 1)), Applies(l, Coinbase(b, H + 1), H + 1)
  PROVE  LET m == ApplyTransaction(l, Coinbase(b, H + 1), H + 1)
         IN  /\ UnspentCoins(l) \in Nat /\ UnspentCoins(m) \in Nat /\ AmountOf(b.outs) \in Nat
             /\ UnspentCoins(m) = UnspentCoins(l) + AmountOf(b.outs)
<1> DEFINE t == Coinbase(b, H + 1)
           m == ApplyTransaction(l, t, H + 1)
<1>0. H + 1 \in Nat /\ t.ins = {} /\ t.outs = b.outs
  BY DEF Coinbase
<1>1. NewOutpoints(t) \cap DOMAIN l.utxo = {}
  BY FreshCoinbase
<1> HIDE DEF t
<1>2. IsTx(t) /\ Applies(l, t, H + 1)
  BY DEF t
<1>3. LedgerTypeOK(l) /\ LedgerTypeOK(m) /\ IsFiniteSet(DOMAIN l.utxo)
  BY <1>0, <1>2, ApplyType, Zenon DEF LedgerInv, CoinsOf
<1>4. UnspentCoins(l) = Held(l.utxo, Address) /\ UnspentCoins(m) = Held(m.utxo, Address)
  BY <1>3, HeldNames
<1>5. Spends(l.utxo, t, Address) = {}
  BY <1>0 DEF Spends
<1>6. Pays(t, Address) = DOMAIN t.outs
  <2>1. \A i \in DOMAIN t.outs : t.outs[i] \in Output
    BY <1>2 DEF IsTx
  <2> QED
    BY <2>1, Zenon DEF Pays, Output
<1>8. /\ Held(m.utxo, Address) \in Nat /\ Held(l.utxo, Address) \in Nat
      /\ SumFunctionOnSet(Amounts(t.outs), Pays(t, Address)) \in Nat
      /\ Held(m.utxo, Address) + SumFunctionOnSet(Amounts(l.utxo), Spends(l.utxo, t, Address))
           = Held(l.utxo, Address) + SumFunctionOnSet(Amounts(t.outs), Pays(t, Address))
  BY <1>0, <1>1, <1>2, <1>3, HeldAfter
<1>9. /\ SumFunctionOnSet(Amounts(l.utxo), Spends(l.utxo, t, Address)) = 0
      /\ SumFunctionOnSet(Amounts(t.outs), Pays(t, Address)) = AmountOf(b.outs)
  BY <1>0, <1>5, <1>6, SumEmpty, Zenon DEF AmountOf
<1> HIDE DEF m
<1>10. /\ UnspentCoins(l) \in Nat /\ UnspentCoins(m) \in Nat /\ AmountOf(b.outs) \in Nat
       /\ UnspentCoins(m) = UnspentCoins(l) + AmountOf(b.outs)
  <2>1. /\ Held(m.utxo, Address) \in Nat /\ Held(l.utxo, Address) \in Nat
        /\ AmountOf(b.outs) \in Nat
        /\ Held(m.utxo, Address) + 0 = Held(l.utxo, Address) + AmountOf(b.outs)
    BY <1>8, <1>9, Zenon
  <2>2. Held(m.utxo, Address) = Held(l.utxo, Address) + AmountOf(b.outs)
    BY <2>1, MintedCoins, Zenon
  <2> QED
    BY <1>4, <2>1, <2>2, Zenon
<1> QED
  BY <1>10 DEF m, t

-----------------------------------------------------------------------------
(* CoinsAt through the steps of add_block.                                 *)

\* What is applied, and at which heights, is a history.
LEMMA Histories ==
  ASSUME NEW blocks \in Seq(Blocks), NEW b, NEW h \in Nat, NEW n
  PROVE  IsHistory(Confirmed(blocks) \cup AppliedOf(b, h, n))
  BY DEF IsHistory, Confirmed, AppliedOf

\* Until the coinbase is applied, and one step longer, nothing of the block is.
LEMMA NothingAppliedYet ==
  ASSUME NEW b \in Blocks \cup {NoBlock}, NEW h, NEW n \in 0..2
  PROVE  AppliedOf(b, h, n) = {} /\ {i \in DOMAIN b.txs : i + 1 < n} = {}
<1>1. b.txs = <<>> \/ b.txs \in Seq(Txs)
  BY BlocksAssumption DEF NoBlock
<1>2. \A i \in DOMAIN b.txs : i \in Nat \ {0}
  BY <1>1
<1> QED
  BY <1>2 DEF AppliedOf

\* Outside add_block.
LEMMA RestIsSettled ==
  ASSUME NEW l, NEW b \in Blocks \cup {NoBlock}
  PROVE  CoinsAt(l, b, 0) <=> SettledCoins(l)
<1>1. AppliedAt(l, b, 0) = Confirmed(l.blocks) /\ CoinbasesAt(l, 0) = Height(l)
  BY NothingAppliedYet DEF AppliedAt, CoinbasesAt
<1>2. Covered(l, b, 0) = Conserved(l) /\ FreshBlock(l, b, 0)
  BY DEF Covered, FreshBlock
<1> QED
  BY <1>1, <1>2, Zenon DEF CoinsAt, SettledCoins

\* add_block begins.
LEMMA EnterCoins ==
  ASSUME NEW l, SettledCoins(l), NEW b \in Blocks, NEW h, BlockValid(l, b, h)
  PROVE  CoinsAt(l, b, 1)
<1>1. AppliedAt(l, b, 1) = Confirmed(l.blocks) /\ CoinbasesAt(l, 1) = Height(l)
  BY NothingAppliedYet DEF AppliedAt, CoinbasesAt
<1>2. Covered(l, b, 1) = Conserved(l)
  BY DEF Covered
<1>3. FreshBlock(l, b, 1)
  <2>1. {i \in DOMAIN b.txs : i + 1 < 1} = {}
    BY NothingAppliedYet
  <2>2. \A i \in DOMAIN b.txs : b.txs[i].ins # {}
    BY DEF BlockValid
  <2> QED
    BY <2>1, <2>2 DEF FreshBlock
<1> QED
  BY <1>1, <1>2, <1>3, Zenon DEF CoinsAt, SettledCoins

\* The coinbase.
LEMMA CoinbaseStep ==
  ASSUME NEW l, LedgerInv(l), NEW b \in Blocks, CoinsAt(l, b, 1),
         Applies(l, Coinbase(b, Height(l) + 1), Height(l) + 1)
  PROVE  CoinsAt(ApplyTransaction(l, Coinbase(b, Height(l) + 1), Height(l) + 1), b, 2)
<1> DEFINE H == Height(l)
           t == Coinbase(b, H + 1)
           m == ApplyTransaction(l, t, H + 1)
           D == Confirmed(l.blocks)
<1>1. l.blocks \in Seq(Blocks) /\ H \in Nat /\ l.slashed \in Nat /\ l.emitted \in Nat
  <2>1. l.blocks \in Seq(Blocks) /\ l.slashed \in Nat /\ l.emitted \in Nat
    BY Zenon DEF LedgerInv, LedgerTypeOK
  <2> QED
    BY <2>1 DEF Height
<1>2. \A h : /\ D \cup AppliedOf(b, h, 1) = D /\ D \cup AppliedOf(b, h, 2) = D
             /\ {i \in DOMAIN b.txs : i + 1 < 2} = {}
  BY NothingAppliedYet
<1>3. IsHistory(D)
  BY <1>1, <1>2, Histories, Zenon
<1>4. IsTx(t)
  <2>1. 1 \in 1..NumTxs(b) /\ H + 1 \in Nat \ {0}
    BY <1>1, TxsAreCounted, BlocksAssumption DEF NumTxs
  <2>2. TxAt(b, H + 1, 1) = t
    BY DEF TxAt
  <2> HIDE DEF t
  <2> QED
    BY <2>1, <2>2, TxAtIsTx
<1>5. CoinsOf(l, D, H) /\ ConfirmedOnce(l.blocks) /\ Conserved(l)
  <2>1. AppliedAt(l, b, 1) = D /\ CoinbasesAt(l, 1) = H
    BY <1>2 DEF AppliedAt, CoinbasesAt
  <2>2. Covered(l, b, 1) = Conserved(l)
    BY DEF Covered
  <2> QED
    BY <2>1, <2>2, Zenon DEF CoinsAt
<1>6. m.blocks = l.blocks /\ m.emitted = l.emitted /\ m.slashed = l.slashed
  BY Zenon DEF ApplyTransaction
<1>7. CoinsOf(m, D, H + 1)
  BY <1>1, <1>3, <1>4, <1>5, ApplyCoinbaseCoins, Zenon
<1>8. /\ UnspentCoins(l) \in Nat /\ UnspentCoins(m) \in Nat /\ AmountOf(b.outs) \in Nat
      /\ UnspentCoins(m) = UnspentCoins(l) + AmountOf(b.outs)
  BY <1>1, <1>3, <1>4, <1>5, CoinbaseConserves, Zenon
<1> HIDE DEF m
<1>9. FeesBefore(b, 2) = 0
  BY <1>2, SumEmpty, Zenon DEF FeesBefore
<1>10. Covered(m, b, 2)
  <2>1. UnspentCoins(l) + l.slashed <= l.emitted
    BY <1>5, Zenon DEF Conserved
  <2>2. UnspentCoins(m) + m.slashed + FeesBefore(b, 2) <= m.emitted + AmountOf(b.outs)
    BY <1>1, <1>6, <1>8, <1>9, <2>1
  <2> QED
    BY <2>2 DEF Covered
<1>11. FreshBlock(m, b, 2)
  <2>0. 1 > 0
    OBVIOUS
  <2>1. \A i \in DOMAIN b.txs : b.txs[i].ins # {}
    BY <2>0, Zenon DEF CoinsAt, FreshBlock
  <2>2. \A i \in DOMAIN b.txs : ~(i + 1 < 2)
    BY <1>2, Zenon
  <2> QED
    BY <2>1, <2>2, Zenon DEF FreshBlock
<1>12. AppliedAt(m, b, 2) = D /\ CoinbasesAt(m, 2) = H + 1
  BY <1>2, <1>6, SMTT(25) DEF AppliedAt, CoinbasesAt, Height
<1>13. CoinsAt(m, b, 2)
  BY <1>5, <1>6, <1>7, <1>10, <1>11, <1>12, Zenon DEF CoinsAt
<1> QED
  BY <1>13 DEF m

\* The transactions and the fees that position n adds.
LEMMA NextApplied ==
  ASSUME NEW b \in Blocks, NEW h, NEW n \in 2..NumTxs(b)
  PROVE  /\ n - 1 \in DOMAIN b.txs /\ b.txs[n - 1] \in Txs
         /\ AppliedOf(b, h, n + 1) = AppliedOf(b, h, n) \cup {<<b.txs[n - 1], h>>}
         /\ FeesBefore(b, n) \in Nat
         /\ FeesBefore(b, n + 1) = FeesBefore(b, n) + b.txs[n - 1].fee
<1> DEFINE I == {i \in DOMAIN b.txs : i + 1 < n}
<1>1. b.txs \in Seq(Txs) /\ DOMAIN b.txs = 1..Len(b.txs) /\ Len(b.txs) \in Nat
  BY BlocksAssumption
<1>2. n - 1 \in DOMAIN b.txs /\ b.txs[n - 1] \in Txs
  BY <1>1 DEF NumTxs
<1>3. {i \in DOMAIN b.txs : i + 1 < n + 1} = I \cup {n - 1} /\ n - 1 \notin I
  BY <1>1, <1>2
<1>4. AppliedOf(b, h, n + 1) = AppliedOf(b, h, n) \cup {<<b.txs[n - 1], h>>}
  BY <1>2, <1>3 DEF AppliedOf
<1>5. IsFiniteSet(DOMAIN b.txs)
  BY <1>1, FinRange, Zenon
<1>6. \A i \in DOMAIN b.txs : Fees(b)[i] = b.txs[i].fee /\ b.txs[i].fee \in Nat
  BY <1>1, TxsAssumption DEF Fees
<1>7. IsFiniteSet(I) /\ NatOn(Fees(b), I)
  <2>1. I \subseteq DOMAIN b.txs
    OBVIOUS
  <2> HIDE DEF I
  <2> QED
    BY <1>5, <1>6, <2>1, FinSubset, Zenon DEF NatOn
<1>8. FeesBefore(b, n) = SumFunctionOnSet(Fees(b), I)
  BY DEF FeesBefore
<1>9. FeesBefore(b, n + 1) = SumFunctionOnSet(Fees(b), I \cup {n - 1})
  BY <1>3, Zenon DEF FeesBefore
<1> HIDE DEF I
<1>10. Fees(b)[n - 1] = b.txs[n - 1].fee /\ b.txs[n - 1].fee \in Nat
  BY <1>2, <1>6
<1>11. SumFunctionOnSet(Fees(b), I \cup {n - 1}) = Fees(b)[n - 1] + SumFunctionOnSet(Fees(b), I)
  BY <1>3, <1>7, <1>10, SumAdd
<1>12. SumFunctionOnSet(Fees(b), I) \in Nat
  BY <1>7, SumType
<1> QED
  BY <1>2, <1>4, <1>8, <1>9, <1>10, <1>11, <1>12

\* After the transactions the whole block is applied.
LEMMA AllApplied ==
  ASSUME NEW b \in Blocks, NEW n \in Nat, n > NumTxs(b)
  PROVE  /\ \A i \in DOMAIN b.txs : i + 1 < n
         /\ FeesBefore(b, n) = BlockFees(b)
<1>1. b.txs \in Seq(Txs) /\ DOMAIN b.txs = 1..Len(b.txs) /\ Len(b.txs) \in Nat
  BY BlocksAssumption
<1>2. \A i \in DOMAIN b.txs : i + 1 < n
  BY <1>1 DEF NumTxs
<1>3. {i \in DOMAIN b.txs : i + 1 < n} = DOMAIN b.txs
  BY <1>2
<1> QED
  BY <1>2, <1>3, Zenon DEF FeesBefore, BlockFees

\* What the coinbase creates.
LEMMA BlockAmount ==
  ASSUME NEW b \in Blocks
  PROVE  AmountOf(b.outs) \in Nat
<1>1. IsTx(Coinbase(b, 1)) /\ Coinbase(b, 1).outs = b.outs
  <2>1. b.txs \in Seq(Txs)
    BY BlocksAssumption
  <2>2. 1 \in 1..NumTxs(b) /\ TxAt(b, 1, 1) = Coinbase(b, 1)
    BY <2>1 DEF NumTxs, TxAt
  <2>3. IsTx(TxAt(b, 1, 1))
    BY <2>2, TxAtIsTx
  <2> QED
    BY <2>2, <2>3, Zenon DEF Coinbase
<1>2. IsFiniteSet(DOMAIN b.outs) /\ NatOn(Amounts(b.outs), DOMAIN b.outs)
  BY <1>1, OutAmounts
<1> QED
  BY <1>2, SumType, Zenon DEF AmountOf

\* A transaction of the block.
LEMMA SpendStep ==
  ASSUME NEW l, LedgerInv(l), NEW b \in Blocks, NEW n \in 2..NumTxs(b), CoinsAt(l, b, n),
         Applies(l, b.txs[n - 1], Height(l) + 1)
  PROVE  CoinsAt(ApplyTransaction(l, b.txs[n - 1], Height(l) + 1), b, n + 1)
<1> DEFINE H == Height(l)
           t == b.txs[n - 1]
           m == ApplyTransaction(l, t, H + 1)
           D == AppliedAt(l, b, n)
<1>1. l.blocks \in Seq(Blocks) /\ H \in Nat /\ l.slashed \in Nat /\ l.emitted \in Nat
  <2>1. l.blocks \in Seq(Blocks) /\ l.slashed \in Nat /\ l.emitted \in Nat
    BY DEF LedgerInv, LedgerTypeOK
  <2> QED
    BY <2>1 DEF Height
<1>n. n \in Nat /\ n > 1 /\ n + 1 > 1
  BY TxsAreCounted
<1>2. IsHistory(D)
  <2>1. Height(l) + 1 \in Nat
    BY <1>1
  <2> QED
    BY <1>1, <2>1, Histories, Zenon DEF AppliedAt
<1>3. /\ n - 1 \in DOMAIN b.txs /\ t \in Txs
      /\ AppliedOf(b, H + 1, n + 1) = AppliedOf(b, H + 1, n) \cup {<<t, H + 1>>}
      /\ FeesBefore(b, n) \in Nat
      /\ FeesBefore(b, n + 1) = FeesBefore(b, n) + t.fee
  BY NextApplied, Zenon
<1>4. t.ins # {} /\ IsTx(t) /\ t.fee \in Nat
  <2>1. n > 0
    BY <1>n
  <2>2. t.ins # {}
    BY <1>3, <2>1, Zenon DEF CoinsAt, FreshBlock
  <2> HIDE DEF t
  <2>3. /\ t.id \in Name \X {0} /\ t.ins \subseteq Outpoint /\ t.outs \in Seq(Output)
        /\ t.signer \in Address \cup {NoSigner} /\ t.nonce \in Nat /\ t.key \in BOOLEAN
        /\ t.fee \in Nat
    BY <1>3, TxsAssumption, Zenon
  <2>4. t.id \in TxId
    BY <2>3 DEF TxId
  <2> QED
    BY <1>3, <2>2, <2>3, <2>4, Zenon DEF IsTx
<1>5. CoinsOf(l, D, H + 1)
  BY <1>n, Zenon DEF CoinsAt, CoinbasesAt
<1>6. m.blocks = l.blocks /\ m.emitted = l.emitted /\ m.slashed = l.slashed
  BY Zenon DEF ApplyTransaction
<1>7. Applies(l, t, H + 1) /\ H + 1 \in Nat
  BY <1>1
<1> HIDE DEF t, H
<1>8. CoinsOf(m, D \cup {<<t, H + 1>>}, H + 1)
  BY <1>2, <1>3, <1>4, <1>5, <1>7, ApplyTxCoins, Zenon
<1>9. /\ UnspentCoins(l) \in Nat /\ UnspentCoins(m) \in Nat
      /\ UnspentCoins(m) + t.fee <= UnspentCoins(l)
  BY <1>2, <1>3, <1>4, <1>5, <1>7, SpendConserves, Zenon
<1>10. \A p \in D : p[1] # t
  BY <1>2, <1>3, <1>4, <1>5, <1>7, FreshTx, Zenon
<1> HIDE DEF m
<1>11. AppliedAt(m, b, n + 1) = D \cup {<<t, H + 1>>} /\ CoinbasesAt(m, n + 1) = H + 1
  BY <1>3, <1>6, <1>n, Zenon DEF AppliedAt, CoinbasesAt, Height, H
<1>12. Covered(m, b, n + 1)
  <2>1. UnspentCoins(l) + l.slashed + FeesBefore(b, n) <= l.emitted + AmountOf(b.outs)
    BY <1>n, Zenon DEF CoinsAt, Covered
  <2>2. \A u, v, x, f, e, y, z \in Nat :
          v + e <= u /\ u + x + f <= y + z => v + x + (f + e) <= y + z
    OBVIOUS
  <2>3. AmountOf(b.outs) \in Nat
    BY BlockAmount
  <2>4. UnspentCoins(m) + l.slashed + (FeesBefore(b, n) + t.fee) <= l.emitted + AmountOf(b.outs)
    <3>1. FeesBefore(b, n) \in Nat /\ t.fee \in Nat /\ l.slashed \in Nat /\ l.emitted \in Nat
      BY <1>1, <1>3, <1>4
    <3> QED
      BY <1>9, <2>1, <2>2, <2>3, <3>1, Zenon
  <2> QED
    BY <1>3, <1>6, <1>n, <2>4, Zenon DEF Covered
<1>13. FreshBlock(m, b, n + 1)
  <2>0. FreshBlock(l, b, n)
    BY Zenon DEF CoinsAt
  <2>1. \A i \in DOMAIN b.txs : i + 1 < n + 1 => i + 1 < n \/ i = n - 1
    BY BlocksAssumption, <1>n
  <2>2. \A i \in DOMAIN b.txs : i + 1 < n => b.txs[i] # t
    <3>1. \A i \in DOMAIN b.txs : b.txs[i] \in Txs
      BY BlocksAssumption
    <3>2. \A i \in DOMAIN b.txs : i + 1 < n => <<b.txs[i], H + 1>> \in D
      BY <3>1, Zenon DEF AppliedAt, AppliedOf, H
    <3> QED
      BY <1>10, <3>2, Zenon
  <2>3. \A p \in Confirmed(l.blocks) : p[1] # t
    BY <1>10, Zenon DEF AppliedAt
  <2> QED
    BY <1>6, <1>n, <2>0, <2>1, <2>2, <2>3 DEF FreshBlock, t
<1>14. CoinsAt(m, b, n + 1)
  BY <1>6, <1>8, <1>11, <1>12, <1>13, Zenon DEF CoinsAt
<1> QED
  BY <1>14, Zenon DEF m, H, t

\* A slash after the transactions.
LEMMA SlashStep ==
  ASSUME NEW l, LedgerInv(l), NEW b \in Blocks, NEW n \in Nat, n > NumTxs(b), CoinsAt(l, b, n), NEW o
  PROVE  CoinsAt(ApplySlash(l, o), b, n + 1)
<1> DEFINE m == ApplySlash(l, o)
<1>1. m.blocks = l.blocks /\ m.emitted = l.emitted
  BY DEF ApplySlash
<1>2. /\ l.slashed \in Nat /\ m.slashed \in Nat /\ NumTxs(b) \in Nat /\ NumTxs(b) >= 1
  <2>1. LedgerInv(m)
    BY SlashKeepsLedgerInv, Zenon
  <2>2. l.slashed \in Nat /\ m.slashed \in Nat
    BY <2>1, Zenon DEF LedgerInv, LedgerTypeOK
  <2>3. b.txs \in Seq(Txs)
    BY BlocksAssumption
  <2> QED
    BY <2>2, <2>3 DEF NumTxs
<1>3. n > 1 /\ n + 1 > 1 /\ n + 1 \in Nat /\ n + 1 > NumTxs(b)
  BY <1>2
<1>4. /\ CoinsOf(m, AppliedAt(l, b, n), CoinbasesAt(l, n))
      /\ UnspentCoins(l) \in Nat /\ UnspentCoins(m) \in Nat
      /\ UnspentCoins(m) + m.slashed = UnspentCoins(l) + l.slashed
  BY SlashCoins, Zenon DEF CoinsAt
<1>5. /\ \A i \in DOMAIN b.txs : i + 1 < n /\ i + 1 < n + 1
      /\ FeesBefore(b, n) = BlockFees(b) /\ FeesBefore(b, n + 1) = BlockFees(b)
  BY <1>3, AllApplied, Zenon
<1> HIDE DEF m
<1>6. AppliedAt(m, b, n + 1) = AppliedAt(l, b, n)
  <2>1. \A h : AppliedOf(b, h, n + 1) = AppliedOf(b, h, n)
    BY <1>5 DEF AppliedOf
  <2> QED
    BY <1>1, <2>1 DEF AppliedAt, Height
<1>7. CoinbasesAt(m, n + 1) = CoinbasesAt(l, n)
  BY <1>1, <1>3, Zenon DEF CoinbasesAt, Height
<1>8. Covered(m, b, n + 1)
  <2>1. UnspentCoins(l) + l.slashed + BlockFees(b) <= l.emitted + AmountOf(b.outs)
    BY <1>3, <1>5, Zenon DEF CoinsAt, Covered
  <2>2. UnspentCoins(m) + m.slashed + BlockFees(b) <= l.emitted + AmountOf(b.outs)
    BY <1>4, <2>1
  <2> QED
    BY <1>1, <1>3, <1>5, <2>2, Zenon DEF Covered
<1>9. FreshBlock(m, b, n + 1)
  <2>1. n > 0
    BY <1>3
  <2> QED
    BY <1>1, <1>5, <2>1, Zenon DEF CoinsAt, FreshBlock
<1>10. CoinsAt(m, b, n + 1)
  BY <1>1, <1>4, <1>6, <1>7, <1>8, <1>9 DEF CoinsAt
<1> QED
  BY <1>10, Zenon DEF m

\* The block joins the chain.
LEMMA SealStep ==
  ASSUME NEW l, LedgerInv(l), NEW b \in Blocks, NEW n \in Nat, n > NumTxs(b), CoinsAt(l, b, n),
         AmountOf(b.outs) \in Nat, BlockFees(b) \in Nat
  PROVE  SettledCoins(SealBlock(l, b))
<1> DEFINE m == SealBlock(l, b)
           H == Height(l)
<1>1. /\ m.blocks = Append(l.blocks, b) /\ m.utxo = l.utxo /\ m.index = l.index
      /\ m.emitted = l.emitted + Minted(b) /\ m.slashed = l.slashed
  BY Zenon DEF SealBlock
<1>2. /\ l.blocks \in Seq(Blocks) /\ l.slashed \in Nat /\ l.emitted \in Nat
      /\ b.txs \in Seq(Txs) /\ NumTxs(b) \in Nat /\ NumTxs(b) >= 1
  <2>1. b.txs \in Seq(Txs)
    BY BlocksAssumption
  <2>2. NumTxs(b) \in Nat /\ NumTxs(b) >= 1
    BY <2>1 DEF NumTxs
  <2> QED
    BY <2>1, <2>2, Zenon DEF LedgerInv, LedgerTypeOK
<1>3. n > 1
  BY <1>2
<1>4. \A i \in DOMAIN b.txs : i + 1 < n
  BY AllApplied, Zenon
<1>5. /\ DOMAIN m.blocks = DOMAIN l.blocks \cup {H + 1} /\ H + 1 \notin DOMAIN l.blocks
      /\ Height(m) = H + 1 /\ m.blocks[H + 1] = b
      /\ \A g \in DOMAIN l.blocks : m.blocks[g] = l.blocks[g]
  <2>1. /\ DOMAIN Append(l.blocks, b) = DOMAIN l.blocks \cup {Len(l.blocks) + 1}
        /\ Len(l.blocks) + 1 \notin DOMAIN l.blocks
        /\ Len(Append(l.blocks, b)) = Len(l.blocks) + 1
        /\ Append(l.blocks, b)[Len(l.blocks) + 1] = b
        /\ \A g \in DOMAIN l.blocks : Append(l.blocks, b)[g] = l.blocks[g]
    BY <1>2, AppendFacts, Zenon
  <2>2. H = Len(l.blocks) /\ Height(m) = Len(m.blocks)
    BY Zenon DEF Height
  <2> HIDE DEF m, H
  <2> QED
    BY <1>1, <2>1, <2>2, Zenon
<1> HIDE DEF m, H
<1>6. Confirmed(m.blocks) = AppliedAt(l, b, n)
  <2>1. AppliedOf(b, H + 1, n) = {p \in Txs \X {H + 1} : \E i \in DOMAIN b.txs : p[1] = b.txs[i]}
    BY <1>4, Zenon DEF AppliedOf
  <2>2. AppliedAt(l, b, n) = Confirmed(l.blocks) \cup AppliedOf(b, H + 1, n)
    BY DEF AppliedAt, H
  <2> SUFFICES ASSUME NEW t, NEW h
               PROVE  <<t, h>> \in Confirmed(m.blocks) <=> <<t, h>> \in AppliedAt(l, b, n)
    <3>1. /\ Confirmed(m.blocks) \subseteq Txs \X DOMAIN m.blocks
          /\ AppliedAt(l, b, n) \subseteq Txs \X DOMAIN m.blocks
      BY <1>5, <2>1, <2>2 DEF Confirmed
    <3> QED
      BY <3>1
  <2>3. \A c : <<t, h>> \in Confirmed(c) <=>
              t \in Txs /\ h \in DOMAIN c /\ \E i \in DOMAIN c[h].txs : t = c[h].txs[i]
    BY DEF Confirmed
  <2>4. <<t, h>> \in AppliedOf(b, H + 1, n) <=>
          t \in Txs /\ h = H + 1 /\ \E i \in DOMAIN b.txs : t = b.txs[i]
    BY <2>1
  <2>5. CASE h = H + 1
    BY <1>5, <2>2, <2>3, <2>4, <2>5, Zenon
  <2>6. CASE h # H + 1
    <3>1. h \in DOMAIN m.blocks <=> h \in DOMAIN l.blocks
      BY <1>5, <2>6, Zenon
    <3>2. h \in DOMAIN l.blocks => m.blocks[h] = l.blocks[h]
      BY <1>5, Zenon
    <3>3. <<t, h>> \in Confirmed(m.blocks) <=> <<t, h>> \in Confirmed(l.blocks)
      BY <2>3, <3>1, <3>2
    <3> QED
      BY <2>2, <2>4, <2>6, <3>3, Zenon
  <2> QED
    BY <2>5, <2>6, Zenon
<1>7. /\ CoinsOf(m, Confirmed(m.blocks), Height(m))
      /\ UnspentCoins(m) = UnspentCoins(l)
  <2>1. CoinsOf(l, Confirmed(m.blocks), Height(m))
    BY <1>3, <1>5, <1>6, Zenon DEF CoinsAt, CoinbasesAt, H
  <2> QED
    BY <1>1, <2>1, SameCoins, Zenon
<1>8. ConfirmedOnce(m.blocks)
  <2> SUFFICES ASSUME NEW g \in DOMAIN m.blocks, NEW k \in DOMAIN m.blocks,
                      NEW i \in DOMAIN m.blocks[g].txs, NEW j \in DOMAIN m.blocks[k].txs,
                      m.blocks[g].txs[i].id = m.blocks[k].txs[j].id
               PROVE  g = k /\ i = j
    BY DEF ConfirmedOnce
  <2>1. \A x \in DOMAIN m.blocks : \A y \in DOMAIN m.blocks[x].txs : m.blocks[x].txs[y] \in Txs
    <3>1. \A x \in DOMAIN m.blocks : m.blocks[x] \in Blocks
      BY <1>2, <1>5
    <3>2. \A c \in Blocks : \A y \in DOMAIN c.txs : c.txs[y] \in Txs
      BY BlocksAssumption
    <3> QED
      BY <3>1, <3>2, Zenon
  <2>2. m.blocks[g].txs[i] = m.blocks[k].txs[j]
    BY <2>1, TxsAssumption, Zenon
  <2>3. \A x \in DOMAIN l.blocks : \A y \in DOMAIN l.blocks[x].txs :
          <<l.blocks[x].txs[y], x>> \in Confirmed(l.blocks)
    BY <1>5, <2>1, Zenon DEF Confirmed
  <2>4. FreshBlock(l, b, n) /\ ConfirmedOnce(l.blocks) /\ n > 0
    <3>1. n > 0
      BY <1>3
    <3> QED
      BY <3>1, Zenon DEF CoinsAt
  <2>5. \A x \in DOMAIN l.blocks : \A y \in DOMAIN l.blocks[x].txs : \A z \in DOMAIN b.txs :
          l.blocks[x].txs[y] # b.txs[z]
    <3>1. \A p \in Confirmed(l.blocks) : \A z \in DOMAIN b.txs : p[1] # b.txs[z]
      BY <1>4, <2>4, Zenon DEF FreshBlock
    <3> QED
      BY <2>3, <3>1, Zenon
  <2>6. \A y, z \in DOMAIN b.txs : b.txs[y] = b.txs[z] => y = z
    BY <1>4, <2>4, Zenon DEF FreshBlock
  <2>7. CASE g \in DOMAIN l.blocks /\ k \in DOMAIN l.blocks
    <3>1. m.blocks[g] = l.blocks[g] /\ m.blocks[k] = l.blocks[k]
      BY <1>5, <2>7, Zenon
    <3>2. /\ i \in DOMAIN l.blocks[g].txs /\ j \in DOMAIN l.blocks[k].txs
          /\ l.blocks[g].txs[i].id = l.blocks[k].txs[j].id
      BY <3>1
    <3>3. \A y \in DOMAIN l.blocks[g].txs, z \in DOMAIN l.blocks[k].txs :
            l.blocks[g].txs[y].id = l.blocks[k].txs[z].id => g = k /\ y = z
      BY <2>4, <2>7, Zenon DEF ConfirmedOnce
    <3> QED
      BY <3>2, <3>3, Zenon
  <2>8. CASE g = H + 1 /\ k = H + 1
    BY <1>5, <2>2, <2>6, <2>8, Zenon
  <2>9. CASE g \in DOMAIN l.blocks /\ k = H + 1
    <3>1. m.blocks[g] = l.blocks[g] /\ m.blocks[k] = b
      BY <1>5, <2>9, Zenon
    <3> QED
      BY <2>2, <2>5, <2>9, <3>1, Zenon
  <2>10. CASE g = H + 1 /\ k \in DOMAIN l.blocks
    <3>1. m.blocks[g] = b /\ m.blocks[k] = l.blocks[k]
      BY <1>5, <2>10, Zenon
    <3> QED
      BY <2>2, <2>5, <2>10, <3>1, Zenon
  <2> QED
    BY <1>5, <2>7, <2>8, <2>9, <2>10, Zenon
<1>9. Conserved(m)
  <2>1. UnspentCoins(l) \in Nat
    BY SlashCoins, Zenon DEF CoinsAt
  <2>2. UnspentCoins(l) + l.slashed + BlockFees(b) <= l.emitted + AmountOf(b.outs)
    BY <1>3, AllApplied DEF CoinsAt, Covered
  <2>3. UnspentCoins(l) + l.slashed <= l.emitted + Minted(b)
    BY <1>2, <2>1, <2>2 DEF Minted
  <2> QED
    BY <1>1, <1>7, <2>3 DEF Conserved
<1>10. SettledCoins(m)
  BY <1>7, <1>8, <1>9 DEF SettledCoins
<1> QED
  BY <1>10, Zenon DEF m

LEMMA GenesisCoins == SettledCoins(Genesis)
<1>1. /\ Genesis.blocks = <<>> /\ DOMAIN Genesis.utxo = {} /\ Genesis.index = [a \in Address |-> 0]
      /\ Genesis.emitted = 0 /\ Genesis.slashed = 0
  BY DEF Genesis, EmptyMap
<1>2. Confirmed(Genesis.blocks) = {}
  BY <1>1 DEF Confirmed
<1>3. /\ \A a : {o \in DOMAIN Genesis.utxo : Genesis.utxo[o].owner = a /\ ~Genesis.utxo[o].spent} = {}
      /\ {o \in DOMAIN Genesis.utxo : ~Genesis.utxo[o].spent} = {}
  BY <1>1
<1>4. UnspentCoins(Genesis) = 0 /\ \A a : BalanceOf(Genesis, a) = 0
  BY <1>3, SumEmpty, Zenon DEF UnspentCoins, BalanceOf
<1>5. IndexIsExact(Genesis)
  BY <1>1, <1>4 DEF IndexIsExact
<1>6. IsFiniteSet(DOMAIN Genesis.utxo)
  BY <1>1, FinEmpty
<1>7. CoinsOf(Genesis, Confirmed(Genesis.blocks), Height(Genesis))
  BY <1>1, <1>2, <1>5, <1>6, Zenon
     DEF CoinsOf, OutputsAreKnown, OwnersAreNamed, InputsAreSpent, ReleasesAreFrozen, DelaysAreKept
<1>8. ConfirmedOnce(Genesis.blocks) /\ Conserved(Genesis)
  BY <1>1, <1>4 DEF ConfirmedOnce, Conserved
<1> QED
  BY <1>7, <1>8, Zenon DEF SettledCoins

\* The restores bring the coins back as they were.
LEMMA RestoreCoins ==
  ASSUME NEW l, SettledCoins(l)
  PROVE  SettledCoins(Restore(l))
<1>1. /\ Restore(l).blocks = l.blocks /\ Restore(l).utxo = l.utxo /\ Restore(l).index = l.index
      /\ Restore(l).emitted = l.emitted /\ Restore(l).slashed = l.slashed
  BY DEF Restore
<1>2. /\ CoinsOf(Restore(l), Confirmed(l.blocks), Height(l))
      /\ UnspentCoins(Restore(l)) = UnspentCoins(l)
  BY <1>1, SameCoins, Zenon DEF SettledCoins
<1>3. Height(Restore(l)) = Height(l)
  BY <1>1 DEF Height
<1> QED
  BY <1>1, <1>2, <1>3, Zenon DEF SettledCoins, Conserved

-----------------------------------------------------------------------------
(* The invariant, and the theorems.                                        *)

LEMMA InitCoins == Init => CoinsInv
<1> SUFFICES ASSUME Init PROVE CoinsInv
  OBVIOUS
<1>1. SettledCoins(Genesis) /\ CoinsAt(Genesis, NoBlock, 0)
  BY GenesisCoins, RestIsSettled
<1> QED
  BY <1>1 DEF Init, CoinsInv

\* add_block begins, whoever calls it.
LEMMA EnterKeepsCoins ==
  ASSUME Inv, CoinsInv, NEW b \in Blocks, EnterAddBlock(b)
  PROVE  CoinsInv'
<1>1. pos = 0 /\ blk \in Blocks \cup {NoBlock}
  BY DEF EnterAddBlock, Inv, TypeOK
<1>2. SettledCoins(led)
  BY <1>1, RestIsSettled DEF CoinsInv
<1>3. CoinsAt(led, b, 1)
  BY <1>2, EnterCoins DEF EnterAddBlock
<1>4. led' = led /\ blk' = b /\ pos' = 1 /\ snap' = led /\ old' = old
  BY DEF EnterAddBlock
<1> QED
  BY <1>2, <1>3, <1>4 DEF CoinsInv

\* A step that ends outside add_block with settled ledgers.
LEMMA RestKeepsCoins ==
  ASSUME Inv', pos' = 0, SettledCoins(led'), SettledCoins(snap'), SettledCoins(old')
  PROVE  CoinsInv'
<1>1. blk' \in Blocks \cup {NoBlock}
  BY DEF Inv, TypeOK
<1>2. CoinsAt(led', blk', 0)
  BY <1>1, RestIsSettled
<1> QED
  BY <1>2 DEF CoinsInv

LEMMA NextCoins == Inv /\ Inv' /\ CoinsInv /\ [Next]_vars => CoinsInv'
<1> SUFFICES ASSUME Inv, Inv', CoinsInv, [Next]_vars PROVE CoinsInv'
  OBVIOUS
<1>0. /\ LedgerInv(led) /\ Height(led) \in Nat /\ Applying = Height(led) + 1
      /\ pos \in Nat /\ (pos > 0 => blk \in Blocks) /\ blk \in Blocks \cup {NoBlock}
  <2>1. led.blocks \in Seq(Blocks)
    BY Zenon DEF Inv, TypeOK, LedgerTypeOK
  <2> QED
    BY <2>1 DEF Inv, TypeOK, Height, Applying
<1>s. SettledCoins(snap) /\ SettledCoins(old) /\ CoinsAt(led, blk, pos) /\ SettledCoins(Genesis)
  BY GenesisCoins DEF CoinsInv
<1>r. pos = 0 => SettledCoins(led)
  BY <1>0, <1>s, RestIsSettled
<1>1. ASSUME NEW b \in Blocks, AddBlock(b) \/ ReplayCandidateBlock(b) PROVE CoinsInv'
  BY <1>1, EnterKeepsCoins DEF AddBlock, ReplayCandidateBlock
<1>2. ASSUME NEW b \in Blocks, CandidateInvalid(b) PROVE CoinsInv'
  <2>1. pos' = 0 /\ led' = Restore(old) /\ snap' = snap /\ old' = Genesis
    BY <1>2 DEF CandidateInvalid, RestoreOldChain
  <2> QED
    BY <1>s, <2>1, RestoreCoins, RestKeepsCoins
<1>3. CASE ApplyTx
  <2>1. /\ pos \in 1..NumTxs(blk) /\ blk \in Blocks
        /\ Applies(led, TxAt(blk, Applying, pos), Applying)
        /\ led' = ApplyTransaction(led, TxAt(blk, Applying, pos), Applying)
        /\ pos' = pos + 1 /\ blk' = blk /\ snap' = snap /\ old' = old
    <3>1. NumTxs(blk) \in Nat
      BY <1>0, TxsAreCounted
    <3> QED
      BY <1>0, <1>3, <3>1 DEF ApplyTx
  <2>2. CASE pos = 1
    <3>1. TxAt(blk, Applying, pos) = Coinbase(blk, Applying)
      BY <2>2, Zenon DEF TxAt
    <3>2. CoinsAt(led', blk, 2)
      BY <1>0, <1>s, <2>1, <2>2, <3>1, CoinbaseStep, Zenon
    <3>3. pos + 1 = 2
      BY <2>2
    <3> QED
      BY <1>s, <2>1, <3>2, <3>3, Zenon DEF CoinsInv
  <2>3. CASE pos # 1
    <3>1. TxAt(blk, Applying, pos) = blk.txs[pos - 1] /\ pos \in 2..NumTxs(blk)
      <4>1. TxAt(blk, Applying, pos) = blk.txs[pos - 1]
        BY <2>3, Zenon DEF TxAt
      <4>2. pos \in 1..NumTxs(blk)
        BY <2>1, Zenon
      <4>3. pos \in 2..NumTxs(blk)
        BY <2>3, <4>2
      <4> QED
        BY <4>1, <4>3, Zenon
    <3>2. CoinsAt(led', blk, pos + 1)
      BY <1>0, <1>s, <2>1, <3>1, SpendStep, Zenon
    <3> QED
      BY <1>s, <2>1, <3>2, Zenon DEF CoinsInv
  <2> QED
    BY <2>2, <2>3
<1>4. CASE RollBackBlock
  <2>1. /\ pos' = 0 /\ led' \in {Restore(old), Restore(snap)}
        /\ snap' = Genesis /\ old' = Genesis
    BY <1>4 DEF RollBackBlock
  <2>2. SettledCoins(led')
    BY <1>s, <2>1, RestoreCoins
  <2> QED
    BY <1>s, <2>1, <2>2, RestKeepsCoins, Zenon
<1>5. CASE SlashTicket
  <2>1. /\ pos > 0 /\ blk \in Blocks /\ SlashIndex \in DOMAIN blk.slashes
        /\ led' = ApplySlash(led, blk.slashes[SlashIndex])
        /\ pos' = pos + 1 /\ blk' = blk /\ snap' = snap /\ old' = old
    BY <1>0, <1>5 DEF SlashTicket
  <2>2. pos > NumTxs(blk)
    <3>1. NumTxs(blk) \in Nat
      BY <1>0, TxsAreCounted
    <3>2. blk.slashes \in Seq(Outpoint)
      BY <2>1, BlocksAssumption
    <3>3. SlashIndex \in 1..Len(blk.slashes) /\ Len(blk.slashes) \in Nat
      BY <2>1, <3>2
    <3> QED
      BY <1>0, <3>1, <3>3 DEF SlashIndex
  <2>3. CoinsAt(led', blk, pos + 1)
    BY <1>0, <1>s, <2>1, <2>2, SlashStep, Zenon
  <2> QED
    BY <1>s, <2>1, <2>3 DEF CoinsInv
<1>6. CASE FinishAddBlock
  <2>1. /\ pos > 0 /\ blk \in Blocks /\ SlashIndex = Len(blk.slashes) + 1
        /\ led' = SealBlock(led, blk) /\ pos' = 0 /\ snap' = Genesis /\ old' = old
    BY <1>0, <1>6, Zenon DEF FinishAddBlock
  <2>2. pos > NumTxs(blk)
    <3>1. NumTxs(blk) \in Nat
      BY <1>0, TxsAreCounted
    <3>2. Len(blk.slashes) \in Nat
      BY <2>1, BlocksAssumption
    <3> QED
      BY <1>0, <2>1, <3>1, <3>2 DEF SlashIndex
  <2>3. BlockFees(blk) \in Nat
    BY <2>1 DEF Inv, ApplyingInv
  <2>4. AmountOf(blk.outs) \in Nat
    BY <2>1, BlockAmount, Zenon
  <2>5. SettledCoins(led')
    BY <1>0, <1>s, <2>1, <2>2, <2>3, <2>4, SealStep, Zenon
  <2> QED
    BY <1>s, <2>1, <2>5, RestKeepsCoins, Zenon
<1>7. CASE StartReplace
  <2>1. pos = 0 /\ pos' = 0 /\ led' = Genesis /\ old' = led /\ snap' = snap
    BY <1>7 DEF StartReplace, Reset, Inv, CallInv
  <2> QED
    BY <1>r, <1>s, <2>1, RestKeepsCoins, Zenon
<1>8. CASE FinishReplace
  <2>1. /\ pos = 0 /\ pos' = 0 /\ led' \in {led, Restore(old)}
        /\ old' = Genesis /\ snap' = snap
    BY <1>8 DEF FinishReplace, RestoreOldChain
  <2>2. SettledCoins(led')
    BY <1>r, <1>s, <2>1, RestoreCoins, Zenon
  <2> QED
    BY <1>s, <2>1, <2>2, RestKeepsCoins
<1>9. CASE Crash
  BY <1>9, <1>s, RestKeepsCoins DEF Crash
<1>10. CASE LoadBlock
  <2>1. todo \in Seq(Blocks) /\ todo # <<>>
    BY <1>10 DEF LoadBlock, Inv, TypeOK
  <2>2. Head(todo) \in Blocks
    BY <2>1
  <2>3. EnterAddBlock(Head(todo)) \/ UNCHANGED <<led, blk, pos, snap, old>>
    BY <1>10 DEF LoadBlock
  <2>4. CASE EnterAddBlock(Head(todo))
    BY <2>2, <2>4, EnterKeepsCoins
  <2>5. CASE UNCHANGED <<led, blk, pos, snap, old>>
    BY <1>s, <2>5 DEF CoinsInv
  <2> QED
    BY <2>3, <2>4, <2>5, Zenon
<1>11. CASE Restart \/ FinishLoad \/ UNCHANGED vars
  <2>1. UNCHANGED <<led, blk, pos, snap, old>>
    BY <1>11 DEF Restart, FinishLoad, vars
  <2> QED
    BY <1>s, <2>1 DEF CoinsInv
<1> QED
  BY <1>1, <1>2, <1>3, <1>4, <1>5, <1>6, <1>7, <1>8, <1>9, <1>10, <1>11, Zenon DEF Next, Bounded

LEMMA CoinsInvariance == Spec => []CoinsInv
  BY Invariance, InitCoins, NextCoins, PTL DEF Spec

\* No coin from nothing: between blocks the unspent and the slashed coins are at
\* most the emission, whatever was rolled back, replaced or reloaded.
THEOREM Conservation == Spec => []SupplyConserved
<1>1. Inv /\ CoinsInv => SupplyConserved
  <2> SUFFICES ASSUME Inv, CoinsInv, pos = 0
               PROVE  UnspentCoins(led) + led.slashed <= led.emitted
    BY DEF SupplyConserved
  <2> QED
    BY DEF CoinsInv, CoinsAt, Covered, Conserved
<1> QED
  BY <1>1, Invariance, CoinsInvariance, PTL

\* The balance index is exact in every state, the middle of a block included:
\* its subtraction, which hides an underflow at 0, never underflows.
THEOREM IndexExact == Spec => []IndexMatchesUtxo
<1>1. CoinsInv => IndexMatchesUtxo
  BY DEF CoinsInv, CoinsAt, CoinsOf, IndexIsExact, IndexMatchesUtxo
<1> QED
  BY <1>1, CoinsInvariance, PTL

\* No chain a node holds confirms a transaction twice.
THEOREM ConfirmsOnce == Spec => []NoTxConfirmedTwice
<1>1. CoinsInv => NoTxConfirmedTwice
  BY Zenon DEF CoinsInv, CoinsAt, NoTxConfirmedTwice
<1> QED
  BY <1>1, CoinsInvariance, PTL

\* Coins released from a ticket are not spent before the delay has passed, by
\* any transaction of any chain a node holds.
THEOREM DelayKept == Spec => []UnbondingRespected
<1>1. Inv /\ CoinsInv => UnbondingRespected
  <2> SUFFICES ASSUME Inv, CoinsInv, NEW h \in DOMAIN led.blocks, NEW g \in 1..h,
                      NEW i \in DOMAIN led.blocks[g].txs, NEW j \in DOMAIN led.blocks[h].txs,
                      Unbonds(led.blocks[g].txs[i]),
                      led.blocks[h].txs[j].ins \cap NewOutpoints(led.blocks[g].txs[i]) # {}
               PROVE  h >= g + UnbondDelay
    BY Zenon DEF UnbondingRespected
  <2>1. led.blocks \in Seq(Blocks)
    BY Zenon DEF Inv, TypeOK, LedgerTypeOK
  <2>2. g \in DOMAIN led.blocks
    BY <2>1
  <2>3. led.blocks[g].txs[i] \in Txs /\ led.blocks[h].txs[j] \in Txs
    <3>1. led.blocks[g] \in Blocks /\ led.blocks[h] \in Blocks
      BY <2>1, <2>2
    <3>2. led.blocks[g].txs \in Seq(Txs) /\ led.blocks[h].txs \in Seq(Txs)
      BY <3>1, BlocksAssumption, Zenon
    <3> QED
      BY <3>2
  <2> DEFINE p == <<led.blocks[g].txs[i], g>>
             q == <<led.blocks[h].txs[j], h>>
  <2>4. p \in Confirmed(led.blocks) /\ q \in Confirmed(led.blocks)
    BY <2>2, <2>3, Zenon DEF Confirmed
  <2>5. p \in AppliedAt(led, blk, pos) /\ q \in AppliedAt(led, blk, pos)
    BY <2>4, Zenon DEF AppliedAt
  <2>6. DelaysAreKept(AppliedAt(led, blk, pos))
    BY Zenon DEF CoinsInv, CoinsAt, CoinsOf
  <2>7. Unbonds(p[1]) /\ q[1].ins \cap NewOutpoints(p[1]) # {}
    OBVIOUS
  <2>8. q[2] >= p[2] + UnbondDelay
    BY <2>5, <2>6, <2>7, Zenon DEF DelaysAreKept
  <2> QED
    BY <2>8, Zenon
<1> QED
  BY <1>1, Invariance, CoinsInvariance, PTL
=============================================================================
