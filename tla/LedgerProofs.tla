---------------------------- MODULE LedgerProofs ----------------------------
(***************************************************************************)
(* The inductive invariant of Ledger, and the theorems about it, for every *)
(* choice of addresses, transactions, blocks and parameters.  The          *)
(* invariant adds to the type invariant what the safety properties need of *)
(* the ledger and of the copies a rollback brings back (LedgerInv), and    *)
(* what add_block's checks established about the block being applied       *)
(* (ApplyingInv).                                                          *)
(***************************************************************************)
EXTENDS Ledger, TLAPS

\* A ticket is an output to @stake of a known transaction: its txid, a hash of
\* the content, cannot come to name anything else.
TicketsFromTxs(l) ==
  \A o \in DOMAIN l.tickets :
    \E t \in Txs : o[1] = t.id /\ o[2] \in DOMAIN t.outs /\ t.outs[o[2]].owner = StakeAddress

KeysKnown(l) ==
  \A o \in DOMAIN l.tickets :
    l.tickets[o].owner # NoSigner => l.tickets[o].owner \in l.registry

LedgerInv(l) ==
  /\ LedgerTypeOK(l)
  /\ l.emitted <= MaxSupply
  /\ TicketsBackedBy(l)
  /\ TicketsFromTxs(l)
  /\ KeysKnown(l)

-----------------------------------------------------------------------------
\* What a transaction that add_block applies looks like: one of Txs, or the
\* coinbase, whose txid no transaction of Txs shares.
IsTx(t) ==
  /\ t.id \in TxId /\ t.ins \subseteq Outpoint /\ t.outs \in Seq(Output)
  /\ t.signer \in Address \cup {NoSigner} /\ t.nonce \in Nat /\ t.key \in BOOLEAN
  /\ t \in Txs \/ (t.ins = {} /\ \A u \in Txs : u.id # t.id)

\* A block, and the placeholder for none, has a number of transactions.
LEMMA TxsAreCounted ==
  ASSUME NEW b \in Blocks \cup {NoBlock}
  PROVE  NumTxs(b) \in Nat
<1>1. b.txs = <<>> \/ b.txs \in Seq(Txs)
  BY BlocksAssumption DEF NoBlock
<1> QED
  BY <1>1 DEF NumTxs

\* A block at the end of a chain.
LEMMA AppendFacts ==
  ASSUME NEW s \in Seq(Blocks), NEW b \in Blocks
  PROVE  /\ DOMAIN Append(s, b) = DOMAIN s \cup {Len(s) + 1} /\ Len(s) + 1 \notin DOMAIN s
         /\ Len(Append(s, b)) = Len(s) + 1 /\ Append(s, b)[Len(s) + 1] = b
         /\ \A g \in DOMAIN s : Append(s, b)[g] = s[g]
<1>1. DOMAIN s = 1..Len(s) /\ Len(s) \in Nat
  OBVIOUS
<1>2. Append(s, b) \in Seq(Blocks) /\ Len(Append(s, b)) = Len(s) + 1
  OBVIOUS
<1>3. DOMAIN Append(s, b) = 1..(Len(s) + 1)
  BY <1>2
<1>4. Append(s, b)[Len(s) + 1] = b /\ \A g \in 1..Len(s) : Append(s, b)[g] = s[g]
  BY <1>1
<1>5. 1..(Len(s) + 1) = 1..Len(s) \cup {Len(s) + 1} /\ Len(s) + 1 \notin 1..Len(s)
  BY <1>1
<1> QED
  BY <1>1, <1>2, <1>3, <1>4, <1>5

\* add_block's loop meets only such transactions.
LEMMA TxAtIsTx ==
  ASSUME NEW b \in Blocks, NEW h \in Nat \ {0}, NEW i \in 1..NumTxs(b)
  PROVE  IsTx(TxAt(b, h, i))
<1>1. CASE i = 1
  <2>1. TxAt(b, h, i) = Coinbase(b, h)
    BY <1>1 DEF TxAt
  <2>2. b.coinbase \in Name /\ b.outs \in Seq(Output)
    BY BlocksAssumption
  <2>3. \A u \in Txs : u.id # <<b.coinbase, h>>
    BY TxsAssumption
  <2> QED
    BY <2>1, <2>2, <2>3 DEF Coinbase, IsTx, TxId
<1>2. CASE i # 1
  <2>1. b.txs \in Seq(Txs)
    BY BlocksAssumption
  <2>2. i - 1 \in 1..Len(b.txs)
    BY <1>2, <2>1 DEF NumTxs
  <2>3. b.txs[i - 1] \in Txs
    BY <2>1, <2>2
  <2>4. TxAt(b, h, i) \in Txs
    BY <1>2, <2>3 DEF TxAt
  <2> QED
    BY <2>4, TxsAssumption DEF IsTx, TxId
<1> QED
  BY <1>1, <1>2

\* The subsidy of a height is a natural number.
LEMMA SubsidyType ==
  ASSUME NEW h \in Nat
  PROVE  ScheduledBlockSubsidy(h, BlockReward, HalvingInterval, SubsidyFloor) \in Nat
<1>1. BlockReward \in Nat /\ HalvingInterval \in Nat /\ SubsidyFloor \in Nat
  BY ParametersAssumption
<1>2. CASE HalvingInterval = 0
  BY <1>1, <1>2 DEF ScheduledBlockSubsidy
<1>3. CASE HalvingInterval # 0
  <2> DEFINE n == h \div HalvingInterval
  <2> DEFINE r == IF n >= MaxHalvings THEN 0 ELSE BlockReward \div 2^n
  <2>1. n \in Nat
    BY <1>1, <1>3
  <2>2. ASSUME ~(n >= MaxHalvings)
        PROVE  BlockReward \div 2^n \in Nat
    <3>1. n \in 0..MaxHalvings
      BY <2>1, <2>2 DEF MaxHalvings
    <3>2. 2^n \in Nat \ {0}
      BY <3>1, PowersOfTwo
    <3> HIDE DEF n
    <3> QED
      BY <1>1, <3>2
  <2>3. r \in Nat
    BY <2>2
  <2>4. ScheduledBlockSubsidy(h, BlockReward, HalvingInterval, SubsidyFloor)
          = MaxOf(r, MinOf(SubsidyFloor, BlockReward))
    BY <1>3 DEF ScheduledBlockSubsidy
  <2> HIDE DEF r
  <2> QED
    BY <1>1, <2>3, <2>4 DEF MaxOf, MinOf
<1> QED
  BY <1>2, <1>3

\* What a block may mint never takes the emission past the cap.
LEMMA MintFits ==
  ASSUME NEW l, NEW h \in Nat, l.emitted \in Nat, l.emitted <= MaxSupply
  PROVE  /\ MaxMintableAt(l, h) \in Nat
         /\ l.emitted + MaxMintableAt(l, h) <= MaxSupply
<1> DEFINE s == ScheduledBlockSubsidy(h, BlockReward, HalvingInterval, SubsidyFloor)
<1>1. s \in Nat
  BY SubsidyType
<1>2. MaxSupply \in Nat
  BY ParametersAssumption
<1>3. MaxMintableAt(l, h) = MinOf(s, IF MaxSupply > l.emitted THEN MaxSupply - l.emitted ELSE 0)
  BY DEF MaxMintableAt, MaxMintableSubsidy
<1> HIDE DEF s
<1> QED
  BY <1>1, <1>2, <1>3 DEF MinOf

-----------------------------------------------------------------------------
\* apply_transaction keeps the ledger well typed.
LEMMA ApplyType ==
  ASSUME NEW l, LedgerTypeOK(l), NEW t, IsTx(t), NEW h \in Nat, Applies(l, t, h)
  PROVE  LedgerTypeOK(ApplyTransaction(l, t, h))
<1> DEFINE m == ApplyTransaction(l, t, h)
<1>1. NewOutpoints(t) \subseteq Outpoint
  BY DEF IsTx, NewOutpoints, Outpoint
<1>2. \A o \in NewOutpoints(t) : o[2] \in DOMAIN t.outs /\ t.outs[o[2]] \in Output
  BY DEF IsTx, NewOutpoints
<1>3. DOMAIN m.utxo \subseteq Outpoint /\ \A o \in DOMAIN m.utxo : m.utxo[o] \in Utxo
  <2>1. m.utxo = UtxoAfter(l, t, h)
    BY DEF ApplyTransaction
  <2>2. DOMAIN UtxoAfter(l, t, h) = DOMAIN l.utxo \cup NewOutpoints(t)
    BY DEF UtxoAfter
  <2>3. ASSUME NEW o \in DOMAIN l.utxo \cup NewOutpoints(t)
        PROVE  UtxoAfter(l, t, h)[o] \in Utxo
    <3>1. UnbondDelay \in Nat
      BY ParametersAssumption
    <3>2. CASE o \in NewOutpoints(t)
      BY <1>2, <3>1, <3>2 DEF UtxoAfter, Utxo, Output
    <3>3. CASE o \notin NewOutpoints(t)
      <4>1. l.utxo[o] \in Utxo
        BY <3>3 DEF LedgerTypeOK
      <4> QED
        BY <3>3, <4>1 DEF UtxoAfter, MarkSpent, Utxo
    <3> QED
      BY <3>2, <3>3
  <2> QED
    BY <1>1, <2>1, <2>2, <2>3 DEF LedgerTypeOK
<1>4. DOMAIN m.tickets \subseteq Outpoint /\ \A o \in DOMAIN m.tickets : m.tickets[o] \in Ticket
  <2>1. m.tickets = TicketsAfter(l, t, h)
    BY DEF ApplyTransaction
  <2>2. DOMAIN TicketsAfter(l, t, h) = (DOMAIN l.tickets \ t.ins) \cup StakedBy(t)
    BY DEF TicketsAfter
  <2>3. StakedBy(t) \subseteq NewOutpoints(t)
    BY DEF StakedBy
  <2>4. ASSUME NEW o \in (DOMAIN l.tickets \ t.ins) \cup StakedBy(t)
        PROVE  TicketsAfter(l, t, h)[o] \in Ticket
    <3>1. CASE o \in StakedBy(t)
      BY <1>2, <2>3, <3>1 DEF TicketsAfter, Ticket, Output, IsTx
    <3>2. CASE o \notin StakedBy(t)
      BY <3>2 DEF TicketsAfter, LedgerTypeOK
    <3> QED
      BY <3>1, <3>2
  <2> QED
    BY <1>1, <2>1, <2>2, <2>3, <2>4 DEF LedgerTypeOK
<1>5. m.index \in [Address -> Nat]
  <2>1. m.index = IndexAfter(l, t)
    BY DEF ApplyTransaction
  <2>2. IndexAfter(l, t) \in [Address -> 0..MaxU64] /\ MaxU64 \in Nat
    BY ParametersAssumption DEF Applies
  <2> QED
    BY <2>1, <2>2
<1>6. m.nonce \in [Address -> Nat \cup {NoNonce}] /\ m.registry \subseteq Address
  <2>1. SignedSpend(t) => t.signer \in Address
    BY DEF SignedSpend, IsTx
  <2> QED
    BY <2>1 DEF ApplyTransaction, RegistryAfter, LedgerTypeOK, IsTx
<1>7. /\ m.blocks = l.blocks /\ m.emitted = l.emitted /\ m.slashed = l.slashed
      /\ m.fees = l.fees /\ m.work = l.work
  BY DEF ApplyTransaction
<1> HIDE DEF m
<1>8. LedgerTypeOK(m)
  BY <1>3, <1>4, <1>5, <1>6, <1>7 DEF LedgerTypeOK
<1> QED
  BY <1>8 DEF m

\* apply_transaction keeps the pool equal to the unspent stake outputs.
LEMMA ApplyTickets ==
  ASSUME NEW l, LedgerInv(l), NEW t, IsTx(t), NEW h \in Nat, Applies(l, t, h)
  PROVE  /\ TicketsBackedBy(ApplyTransaction(l, t, h))
         /\ TicketsFromTxs(ApplyTransaction(l, t, h))
<1> DEFINE U == UtxoAfter(l, t, h)
<1> DEFINE K == TicketsAfter(l, t, h)
<1>1. /\ DOMAIN U = DOMAIN l.utxo \cup NewOutpoints(t)
      /\ DOMAIN K = (DOMAIN l.tickets \ t.ins) \cup StakedBy(t)
  BY DEF UtxoAfter, TicketsAfter
<1>2. StakedBy(t) = {o \in NewOutpoints(t) : t.outs[o[2]].owner = StakeAddress}
  BY DEF StakedBy
<1>3. \A o \in NewOutpoints(t) : o[1] = t.id /\ o[2] \in DOMAIN t.outs
  BY DEF NewOutpoints
<1>4. StakedBy(t) # {} => t \in Txs /\ t.ins # {}
  BY <1>2, <1>3 DEF Applies, ValidateTransaction, IsTx
<1>5. \A o \in StakedBy(t) : t.outs[o[2]].amount >= StakeMin
  BY <1>2, <1>3, <1>4 DEF Applies, ValidateTransaction, StakeOutputsOk
<1>6. \A o \in DOMAIN l.tickets : o \in NewOutpoints(t) => o \in StakedBy(t)
  <2> SUFFICES ASSUME NEW o \in DOMAIN l.tickets, o \in NewOutpoints(t)
               PROVE  o \in StakedBy(t)
    OBVIOUS
  <2>1. PICK u \in Txs : o[1] = u.id /\ o[2] \in DOMAIN u.outs /\ u.outs[o[2]].owner = StakeAddress
    BY DEF LedgerInv, TicketsFromTxs
  <2>2. u = t
    BY <1>3, <2>1, TxsAssumption DEF IsTx
  <2> QED
    BY <1>2, <2>1, <2>2
<1>7. \A o \in NewOutpoints(t) : /\ U[o].owner = t.outs[o[2]].owner
                                 /\ U[o].amount = t.outs[o[2]].amount
                                 /\ U[o].spent = FALSE
  BY DEF UtxoAfter
<1>8. \A o \in DOMAIN l.utxo \ NewOutpoints(t) :
        /\ U[o].owner = l.utxo[o].owner
        /\ U[o].amount = l.utxo[o].amount
        /\ o \in t.ins => U[o].spent = TRUE
        /\ o \notin t.ins => U[o].spent = l.utxo[o].spent
  BY DEF UtxoAfter, MarkSpent
<1>9. /\ \A o \in StakedBy(t) : K[o].amount = t.outs[o[2]].amount
      /\ \A o \in DOMAIN l.tickets \ t.ins : o \notin StakedBy(t) => K[o] = l.tickets[o]
  BY DEF TicketsAfter
<1>10. ApplyTransaction(l, t, h).utxo = U /\ ApplyTransaction(l, t, h).tickets = K
  BY DEF ApplyTransaction
<1> HIDE DEF U, K
<1>11. DOMAIN K = {o \in DOMAIN U : U[o].owner = StakeAddress /\ ~U[o].spent}
  <2>1. ASSUME NEW o \in DOMAIN K
        PROVE  o \in DOMAIN U /\ U[o].owner = StakeAddress /\ ~U[o].spent
    <3>1. CASE o \in StakedBy(t)
      BY <1>1, <1>2, <1>7, <3>1
    <3>2. CASE o \notin StakedBy(t)
      BY <1>1, <1>6, <1>8, <2>1, <3>2 DEF LedgerInv, TicketsBackedBy
    <3> QED
      BY <3>1, <3>2
  <2>2. ASSUME NEW o \in DOMAIN U, U[o].owner = StakeAddress, ~U[o].spent
        PROVE  o \in DOMAIN K
    <3>1. CASE o \in NewOutpoints(t)
      BY <1>1, <1>2, <1>7, <2>2, <3>1
    <3>2. CASE o \notin NewOutpoints(t)
      BY <1>1, <1>8, <2>2, <3>2 DEF LedgerInv, TicketsBackedBy
    <3> QED
      BY <3>1, <3>2
  <2> QED
    BY <2>1, <2>2
<1>12. ASSUME NEW o \in DOMAIN K
       PROVE  K[o].amount = U[o].amount /\ K[o].amount >= StakeMin
  <2>1. CASE o \in StakedBy(t)
    BY <1>2, <1>5, <1>7, <1>9, <2>1
  <2>2. CASE o \notin StakedBy(t)
    BY <1>1, <1>6, <1>8, <1>9, <2>2 DEF LedgerInv, TicketsBackedBy
  <2> QED
    BY <2>1, <2>2
<1>13. ASSUME NEW o \in DOMAIN K
       PROVE  \E u \in Txs : o[1] = u.id /\ o[2] \in DOMAIN u.outs /\ u.outs[o[2]].owner = StakeAddress
  <2>1. CASE o \in StakedBy(t)
    BY <1>2, <1>3, <1>4, <2>1
  <2>2. CASE o \notin StakedBy(t)
    BY <1>1, <2>2 DEF LedgerInv, TicketsFromTxs
  <2> QED
    BY <2>1, <2>2
<1> QED
  BY <1>10, <1>11, <1>12, <1>13 DEF TicketsBackedBy, TicketsFromTxs

\* apply_transaction registers the key of whoever locks stake.
LEMMA ApplyKeys ==
  ASSUME NEW l, LedgerInv(l), NEW t, IsTx(t), NEW h \in Nat, Applies(l, t, h)
  PROVE  KeysKnown(ApplyTransaction(l, t, h))
<1> DEFINE m == ApplyTransaction(l, t, h)
<1>1. /\ DOMAIN m.tickets = (DOMAIN l.tickets \ t.ins) \cup StakedBy(t)
      /\ \A o \in StakedBy(t) : m.tickets[o].owner = t.signer
      /\ \A o \in DOMAIN l.tickets \ t.ins : o \notin StakedBy(t) => m.tickets[o] = l.tickets[o]
  BY DEF ApplyTransaction, TicketsAfter
<1>2. l.registry \subseteq m.registry
  BY DEF ApplyTransaction, RegistryAfter
<1>3. StakedBy(t) # {} /\ t.signer # NoSigner => t.signer \in m.registry
  <2> SUFFICES ASSUME StakedBy(t) # {}, t.signer # NoSigner
               PROVE  t.signer \in m.registry
    OBVIOUS
  <2>1. t.ins # {}
    BY DEF StakedBy, NewOutpoints, Applies, ValidateTransaction
  <2>2. t.key \/ t.signer \in l.registry
    BY <2>1 DEF Applies, ValidateTransaction, SignerOk
  <2>3. SignedSpend(t)
    BY <2>1 DEF SignedSpend
  <2> QED
    BY <2>2, <2>3 DEF ApplyTransaction, RegistryAfter
<1> HIDE DEF m
<1>4. KeysKnown(m)
  BY <1>1, <1>2, <1>3 DEF KeysKnown, LedgerInv
<1> QED
  BY <1>4 DEF m

LEMMA ApplyKeepsLedgerInv ==
  ASSUME NEW l, LedgerInv(l), NEW t, IsTx(t), NEW h \in Nat, Applies(l, t, h)
  PROVE  LedgerInv(ApplyTransaction(l, t, h))
<1>1. LedgerTypeOK(ApplyTransaction(l, t, h))
  BY ApplyType DEF LedgerInv
<1>2. ApplyTransaction(l, t, h).emitted <= MaxSupply
  BY DEF LedgerInv, ApplyTransaction
<1> QED
  BY <1>1, <1>2, ApplyTickets, ApplyKeys DEF LedgerInv

\* Slashing burns the ticket's output together with the ticket.
LEMMA SlashKeepsLedgerInv ==
  ASSUME NEW l, LedgerInv(l), NEW t
  PROVE  LedgerInv(ApplySlash(l, t))
<1>1. CASE t \notin DOMAIN l.tickets
  BY <1>1 DEF ApplySlash
<1>2. CASE t \in DOMAIN l.tickets
  <2> DEFINE m == ApplySlash(l, t)
  <2>1. Unspent(l.utxo, t) /\ l.utxo[t].owner = StakeAddress
    BY <1>2 DEF LedgerInv, TicketsBackedBy, Unspent
  <2>2. l.utxo[t] \in Utxo /\ t \in DOMAIN l.utxo
    BY <2>1 DEF LedgerInv, LedgerTypeOK, Unspent
  <2>3. /\ m.blocks = l.blocks
        /\ m.utxo = [l.utxo EXCEPT ![t] = MarkSpent(@)]
        /\ m.index = [l.index EXCEPT ![l.utxo[t].owner] = Monus(@, l.utxo[t].amount)]
        /\ m.tickets = [o \in DOMAIN l.tickets \ {t} |-> l.tickets[o]]
        /\ m.nonce = l.nonce /\ m.registry = l.registry /\ m.emitted = l.emitted
        /\ m.slashed = l.slashed + l.utxo[t].amount /\ m.fees = l.fees /\ m.work = l.work
    BY <1>2, <2>1 DEF ApplySlash, IndexWithout
  <2> HIDE DEF m
  <2>4. /\ DOMAIN m.utxo = DOMAIN l.utxo
        /\ \A o \in DOMAIN l.utxo : o # t => m.utxo[o] = l.utxo[o]
        /\ m.utxo[t] = MarkSpent(l.utxo[t])
    BY <2>2, <2>3
  <2>5. m.utxo[t] \in Utxo /\ m.utxo[t].spent = TRUE
    <3>1. \A u \in Utxo : MarkSpent(u) \in Utxo /\ MarkSpent(u).spent = TRUE
      BY DEF Utxo, MarkSpent
    <3> QED
      BY <2>2, <2>4, <3>1
  <2>6. DOMAIN m.tickets = DOMAIN l.tickets \ {t}
        /\ \A o \in DOMAIN m.tickets : m.tickets[o] = l.tickets[o]
    BY <2>3
  <2>7. m.index \in [Address -> Nat]
    <3>1. l.index \in [Address -> Nat] /\ l.utxo[t].owner \in Address /\ l.utxo[t].amount \in Nat
      BY <2>2 DEF LedgerInv, LedgerTypeOK, Utxo
    <3>2. \A x, y \in Nat : Monus(x, y) \in Nat
      BY DEF Monus
    <3>3. Monus(l.index[l.utxo[t].owner], l.utxo[t].amount) \in Nat
      BY <3>1, <3>2
    <3> QED
      BY <2>3, <3>1, <3>3
  <2>8. m.slashed \in Nat
    <3>1. l.utxo[t].amount \in Nat /\ l.slashed \in Nat
      BY <2>2 DEF LedgerInv, LedgerTypeOK, Utxo
    <3> QED
      BY <2>3, <3>1
  <2>9. LedgerTypeOK(m)
    BY <2>3, <2>4, <2>5, <2>6, <2>7, <2>8 DEF LedgerInv, LedgerTypeOK
  <2>10. TicketsBackedBy(m)
    BY <2>4, <2>5, <2>6 DEF LedgerInv, TicketsBackedBy
  <2>11. TicketsFromTxs(m) /\ KeysKnown(m)
    BY <2>3, <2>6 DEF LedgerInv, TicketsFromTxs, KeysKnown
  <2>12. m.emitted <= MaxSupply
    BY <2>3 DEF LedgerInv
  <2>13. LedgerInv(m)
    BY <2>9, <2>10, <2>11, <2>12 DEF LedgerInv
  <2> QED
    BY <2>13 DEF m
<1> QED
  BY <1>1, <1>2

\* Sealing a block that mints no more than it may keeps the cap.
LEMMA SealKeepsLedgerInv ==
  ASSUME NEW l, LedgerInv(l), NEW b \in Blocks, NEW h \in Nat,
         BlockFees(b) \in Nat, Minted(b) \in Nat, Minted(b) <= MaxMintableAt(l, h)
  PROVE  LedgerInv(SealBlock(l, b))
<1> DEFINE m == SealBlock(l, b)
<1>1. /\ m.blocks = Append(l.blocks, b) /\ m.utxo = l.utxo /\ m.index = l.index
      /\ m.tickets = l.tickets /\ m.nonce = l.nonce /\ m.registry = l.registry
      /\ m.emitted = l.emitted + Minted(b) /\ m.slashed = l.slashed
      /\ m.fees = BlockFees(b) /\ m.work = l.work + b.work
  BY DEF SealBlock
<1> HIDE DEF m
<1>2. l.emitted \in Nat /\ l.work \in Nat /\ l.blocks \in Seq(Blocks) /\ l.emitted <= MaxSupply
  BY DEF LedgerInv, LedgerTypeOK
<1>3. MaxMintableAt(l, h) \in Nat /\ l.emitted + MaxMintableAt(l, h) <= MaxSupply
  BY <1>2, MintFits
<1>4. b.work \in Nat
  BY BlocksAssumption
<1>5. MaxSupply \in Nat
  BY ParametersAssumption
<1>6. m.emitted \in Nat /\ m.emitted <= MaxSupply
  BY <1>1, <1>2, <1>3, <1>5
<1>7. m.blocks \in Seq(Blocks) /\ m.work \in Nat
  BY <1>1, <1>2, <1>4
<1>8. LedgerTypeOK(m)
  BY <1>1, <1>6, <1>7 DEF LedgerInv, LedgerTypeOK
<1>9. TicketsBackedBy(m) /\ TicketsFromTxs(m) /\ KeysKnown(m)
  BY <1>1 DEF LedgerInv, TicketsBackedBy, TicketsFromTxs, KeysKnown
<1>10. LedgerInv(m)
  BY <1>6, <1>8, <1>9 DEF LedgerInv
<1> QED
  BY <1>10 DEF m

LEMMA GenesisLedgerInv == LedgerInv(Genesis)
<1>1. /\ Genesis.blocks = <<>> /\ DOMAIN Genesis.utxo = {} /\ DOMAIN Genesis.tickets = {}
      /\ Genesis.index = [a \in Address |-> 0] /\ Genesis.nonce = [a \in Address |-> NoNonce]
      /\ Genesis.registry = {} /\ Genesis.emitted = 0 /\ Genesis.slashed = 0
      /\ Genesis.fees = 0 /\ Genesis.work = 0
  BY DEF Genesis, EmptyMap
<1>2. MaxSupply \in Nat
  BY ParametersAssumption
<1>3. LedgerTypeOK(Genesis)
  BY <1>1 DEF LedgerTypeOK
<1>4. TicketsBackedBy(Genesis) /\ TicketsFromTxs(Genesis) /\ KeysKnown(Genesis)
  BY <1>1 DEF TicketsBackedBy, TicketsFromTxs, KeysKnown
<1> QED
  BY <1>1, <1>2, <1>3, <1>4 DEF LedgerInv

\* The restores of add_block and replace_with_chain leave out no member.
LEMMA RestoreKeepsLedgerInv ==
  ASSUME NEW l, LedgerInv(l)
  PROVE  /\ LedgerInv(Restore(l))
         /\ Restore(l).blocks = l.blocks /\ Restore(l).work = l.work
<1>1. /\ Restore(l).blocks = l.blocks /\ Restore(l).utxo = l.utxo
      /\ Restore(l).index = l.index /\ Restore(l).tickets = l.tickets
      /\ Restore(l).nonce = l.nonce /\ Restore(l).registry = l.registry
      /\ Restore(l).emitted = l.emitted /\ Restore(l).slashed = l.slashed
      /\ Restore(l).fees = l.fees /\ Restore(l).work = l.work
  BY DEF Restore
<1>2. LedgerTypeOK(Restore(l)) /\ Restore(l).emitted <= MaxSupply
  BY <1>1 DEF LedgerInv, LedgerTypeOK
<1>3. TicketsBackedBy(Restore(l)) /\ TicketsFromTxs(Restore(l)) /\ KeysKnown(Restore(l))
  BY <1>1 DEF LedgerInv, TicketsBackedBy, TicketsFromTxs, KeysKnown
<1> QED
  BY <1>1, <1>2, <1>3 DEF LedgerInv
-----------------------------------------------------------------------------

\* While a block is applied, neither the tip nor the emission has moved, and
\* the block still mints no more than it may.
ApplyingInv ==
  pos > 0 => /\ blk \in Blocks
             /\ led.blocks = snap.blocks /\ led.work = snap.work
             /\ BlockFees(blk) \in Nat /\ Minted(blk) \in Nat
             /\ Minted(blk) <= MaxMintableAt(led, Applying)

CallInv ==
  /\ call = "add" => pos > 0
  /\ call \in {"idle", "down", "failed"} => pos = 0

Inv == /\ TypeOK
       /\ LedgerInv(led) /\ LedgerInv(snap) /\ LedgerInv(old)
       /\ ApplyingInv
       /\ CallInv

-----------------------------------------------------------------------------
\* What entering add_block establishes about the block.
LEMMA EnterFacts ==
  ASSUME Inv, NEW b \in Blocks, EnterAddBlock(b)
  PROVE  /\ LedgerInv(led)' /\ LedgerInv(snap)' /\ LedgerInv(old)'
         /\ ApplyingInv'
         /\ pos' = 1 /\ blk' = b /\ led' = led /\ snap' = led /\ old' = old
<1>1. pos' = 1 /\ blk' = b /\ led' = led /\ snap' = led /\ old' = old
  BY DEF EnterAddBlock
<1>2. CoinbaseOk(led, b, Applying)
  BY DEF EnterAddBlock, BlockValid
<1>3. AmountOf(b.outs) \in Nat /\ BlockFees(b) \in Nat
  BY <1>2, ParametersAssumption DEF CoinbaseOk
<1>4. Minted(b) \in Nat
  BY <1>3 DEF Minted
<1>5. Minted(b) <= MaxMintableAt(led, Applying)
  BY <1>2 DEF CoinbaseOk
<1>6. ApplyingInv'
  BY <1>1, <1>3, <1>4, <1>5 DEF ApplyingInv, Applying
<1> QED
  BY <1>1, <1>6 DEF Inv

\* A transaction changes neither the blocks nor what they minted and weigh.
LEMMA ApplyFrame ==
  ASSUME NEW l, NEW t, NEW h
  PROVE  LET m == ApplyTransaction(l, t, h)
         IN  m.blocks = l.blocks /\ m.emitted = l.emitted /\ m.work = l.work
  BY DEF ApplyTransaction

\* A step inside add_block that adds no block keeps what add_block checked.
LEMMA StepKeepsApplyingInv ==
  ASSUME ApplyingInv, CallInv, pos > 0, pos' > 0, blk' = blk, snap' = snap, call' = call,
         led'.blocks = led.blocks, led'.emitted = led.emitted, led'.work = led.work
  PROVE  ApplyingInv' /\ CallInv'
<1>1. Applying' = Applying
  BY DEF Applying, Height
<1>2. MaxMintableAt(led, Applying)' = MaxMintableAt(led, Applying)
  BY <1>1 DEF MaxMintableAt
<1>3. ApplyingInv'
  BY <1>2 DEF ApplyingInv
<1>4. CallInv'
  BY DEF CallInv
<1> QED
  BY <1>3, <1>4

LEMMA InitInv == Init => Inv
<1> SUFFICES ASSUME Init PROVE Inv
  OBVIOUS
<1>1. LedgerInv(led) /\ LedgerInv(snap) /\ LedgerInv(old)
  BY GenesisLedgerInv DEF Init
<1>2. TypeOK
  BY <1>1 DEF Init, TypeOK, LedgerInv
<1>3. ApplyingInv /\ CallInv
  BY DEF Init, ApplyingInv, CallInv
<1> QED
  BY <1>1, <1>2, <1>3 DEF Inv

LEMMA NextInv == Inv /\ [Next]_vars => Inv'
<1> SUFFICES ASSUME Inv, [Next]_vars PROVE Inv'
  OBVIOUS
<1> USE DEF Inv
<1>0. Height(led) \in Nat /\ Applying \in Nat \ {0}
  <2>1. led.blocks \in Seq(Blocks)
    BY DEF LedgerInv, LedgerTypeOK
  <2>2. Len(led.blocks) \in Nat
    BY <2>1
  <2> QED
    BY <2>2 DEF Height, Applying
<1>1. ASSUME NEW b \in Blocks, AddBlock(b) PROVE Inv'
  <2>1. EnterAddBlock(b)
    BY <1>1 DEF AddBlock
  <2>2. /\ LedgerInv(led)' /\ LedgerInv(snap)' /\ LedgerInv(old)' /\ ApplyingInv'
        /\ pos' = 1 /\ blk' = b
    BY <2>1, EnterFacts
  <2>3. TypeOK'
    BY <1>1, <2>2 DEF AddBlock, EnterAddBlock, TypeOK, LedgerInv
  <2>4. CallInv'
    BY <1>1, <2>2 DEF AddBlock, CallInv
  <2> QED
    BY <2>2, <2>3, <2>4
<1>2. ASSUME NEW b \in Blocks, ReplayCandidateBlock(b) PROVE Inv'
  <2>1. EnterAddBlock(b)
    BY <1>2 DEF ReplayCandidateBlock
  <2>2. /\ LedgerInv(led)' /\ LedgerInv(snap)' /\ LedgerInv(old)' /\ ApplyingInv'
        /\ pos' = 1 /\ blk' = b
    BY <2>1, EnterFacts
  <2>3. TypeOK'
    BY <1>2, <2>2 DEF ReplayCandidateBlock, EnterAddBlock, TypeOK, LedgerInv
  <2>4. CallInv'
    BY <1>2, <2>2 DEF ReplayCandidateBlock, CallInv
  <2> QED
    BY <2>2, <2>3, <2>4
<1>3. ASSUME NEW b \in Blocks, CandidateInvalid(b) PROVE Inv'
  <2>1. LedgerInv(led)' /\ LedgerInv(snap)' /\ LedgerInv(old)'
    BY <1>3, RestoreKeepsLedgerInv, GenesisLedgerInv DEF CandidateInvalid, RestoreOldChain
  <2>2. TypeOK'
    BY <1>3, <2>1 DEF CandidateInvalid, RestoreOldChain, TypeOK, LedgerInv
  <2>3. ApplyingInv' /\ CallInv'
    BY <1>3 DEF CandidateInvalid, ApplyingInv, CallInv
  <2> QED
    BY <2>1, <2>2, <2>3
<1>4. CASE ApplyTx
  <2> DEFINE t == TxAt(blk, Applying, pos)
  <2>1. pos \in 1..NumTxs(blk) /\ blk \in Blocks
    BY <1>4, BlocksAssumption DEF ApplyTx, TypeOK, NumTxs
  <2>2. IsTx(t)
    BY <1>0, <2>1, TxAtIsTx
  <2>3. Applies(led, t, Applying) /\ led' = ApplyTransaction(led, t, Applying)
    BY <1>4 DEF ApplyTx
  <2> HIDE DEF t
  <2>4. LedgerInv(led)'
    BY <1>0, <2>2, <2>3, ApplyKeepsLedgerInv
  <2>5. led'.blocks = led.blocks /\ led'.emitted = led.emitted /\ led'.work = led.work
    BY <2>3, ApplyFrame
  <2>6. /\ LedgerInv(snap)' /\ LedgerInv(old)'
        /\ TypeOK'
    <3>1. UNCHANGED <<call, blk, snap, old, todo, disk, crashes>> /\ pos' = pos + 1
      BY <1>4 DEF ApplyTx
    <3>2. LedgerInv(snap)' /\ LedgerInv(old)'
      BY <3>1 DEF LedgerInv
    <3>3. LedgerTypeOK(led)' /\ pos' \in Nat
      BY <2>4, <3>1 DEF LedgerInv, TypeOK
    <3> QED
      BY <2>1, <3>1, <3>2, <3>3 DEF TypeOK
  <2>7. ApplyingInv' /\ CallInv'
    <3>1. pos > 0 /\ pos' > 0 /\ blk' = blk /\ snap' = snap /\ call' = call
      BY <1>4, <2>1 DEF ApplyTx, TypeOK
    <3> QED
      BY <2>5, <3>1, StepKeepsApplyingInv
  <2> QED
    BY <2>4, <2>6, <2>7
<1>5. CASE RollBackBlock
  <2>1. LedgerInv(led)' /\ LedgerInv(snap)' /\ LedgerInv(old)'
    BY <1>5, RestoreKeepsLedgerInv, GenesisLedgerInv DEF RollBackBlock
  <2>2. TypeOK'
    BY <1>5, <2>1 DEF RollBackBlock, TypeOK, LedgerInv
  <2>3. ApplyingInv' /\ CallInv'
    <3>1. pos' = 0 /\ call' # "add"
      BY <1>5, Zenon DEF RollBackBlock
    <3> QED
      BY <3>1 DEF ApplyingInv, CallInv
  <2> QED
    BY <2>1, <2>2, <2>3
<1>6. CASE SlashTicket
  <2> DEFINE t == blk.slashes[SlashIndex]
  <2>1. led' = ApplySlash(led, t) /\ pos > 0
    BY <1>6 DEF SlashTicket
  <2> HIDE DEF t
  <2>2. LedgerInv(led)'
    BY <2>1, SlashKeepsLedgerInv
  <2>3. led'.blocks = led.blocks /\ led'.emitted = led.emitted /\ led'.work = led.work
    BY <2>1 DEF ApplySlash
  <2>4. LedgerInv(snap)' /\ LedgerInv(old)' /\ TypeOK'
    BY <1>6, <2>2 DEF SlashTicket, TypeOK, LedgerInv
  <2>5. ApplyingInv' /\ CallInv'
    <3>1. pos > 0 /\ pos' > 0 /\ blk' = blk /\ snap' = snap /\ call' = call
      BY <1>6, <2>1 DEF SlashTicket, TypeOK
    <3> QED
      BY <2>3, <3>1, StepKeepsApplyingInv
  <2> QED
    BY <2>2, <2>4, <2>5
<1>7. CASE FinishAddBlock
  <2>1. /\ blk \in Blocks /\ BlockFees(blk) \in Nat /\ Minted(blk) \in Nat
        /\ Minted(blk) <= MaxMintableAt(led, Applying)
    BY <1>7 DEF FinishAddBlock, ApplyingInv
  <2>2. LedgerInv(led)'
    BY <1>0, <1>7, <2>1, SealKeepsLedgerInv DEF FinishAddBlock
  <2>3. LedgerInv(snap)' /\ LedgerInv(old)'
    BY <1>7, GenesisLedgerInv DEF FinishAddBlock
  <2>4. disk' \in Seq(Blocks)
    <3>1. led'.blocks \in Seq(Blocks) /\ disk \in Seq(Blocks)
      BY <2>2 DEF LedgerInv, LedgerTypeOK, TypeOK
    <3>2. disk' \in {disk, led'.blocks}
      BY <1>7 DEF FinishAddBlock, NotifyCommit
    <3> QED
      BY <3>1, <3>2
  <2>5. TypeOK'
    BY <1>7, <2>2, <2>3, <2>4 DEF FinishAddBlock, TypeOK, LedgerInv
  <2>6. ApplyingInv' /\ CallInv'
    <3>1. pos' = 0 /\ call' # "add"
      BY <1>7, Zenon DEF FinishAddBlock
    <3> QED
      BY <3>1 DEF ApplyingInv, CallInv
  <2> QED
    BY <2>2, <2>3, <2>5, <2>6
<1>8. CASE StartReplace
  <2>1. LedgerInv(led)' /\ LedgerInv(snap)' /\ LedgerInv(old)'
    BY <1>8, GenesisLedgerInv DEF StartReplace, Reset
  <2>2. TypeOK'
    BY <1>8, <2>1 DEF StartReplace, Reset, TypeOK, LedgerInv
  <2>3. ApplyingInv' /\ CallInv'
    BY <1>8 DEF StartReplace, ApplyingInv, CallInv
  <2> QED
    BY <2>1, <2>2, <2>3
<1>9. CASE FinishReplace
  <2>1. LedgerInv(led)' /\ LedgerInv(snap)' /\ LedgerInv(old)'
    BY <1>9, RestoreKeepsLedgerInv, GenesisLedgerInv DEF FinishReplace, RestoreOldChain
  <2>2. disk' \in Seq(Blocks)
    BY <1>9 DEF FinishReplace, RestoreOldChain, NotifyCommit, TypeOK, LedgerTypeOK
  <2>3. TypeOK'
    BY <1>9, <2>1, <2>2 DEF FinishReplace, TypeOK, LedgerInv
  <2>4. ApplyingInv' /\ CallInv'
    BY <1>9 DEF FinishReplace, ApplyingInv, CallInv
  <2> QED
    BY <2>1, <2>3, <2>4
<1>10. CASE Crash
  <2>1. LedgerInv(led)' /\ LedgerInv(snap)' /\ LedgerInv(old)'
    BY <1>10, GenesisLedgerInv DEF Crash
  <2>2. TypeOK'
    BY <1>10, <2>1 DEF Crash, TypeOK, LedgerInv
  <2>3. ApplyingInv' /\ CallInv'
    BY <1>10 DEF Crash, ApplyingInv, CallInv
  <2> QED
    BY <2>1, <2>2, <2>3
<1>11. CASE Restart
  BY <1>11 DEF Restart, TypeOK, ApplyingInv, CallInv, Applying
<1>12. CASE LoadBlock
  <2> DEFINE b == Head(todo)
  <2>1. b \in Blocks /\ Tail(todo) \in Seq(Blocks)
    BY <1>12 DEF LoadBlock, TypeOK
  <2>2. CASE BlockValid(led, b, Applying)
    <3>1. EnterAddBlock(b) /\ call' = call /\ todo' = Tail(todo) /\ call = "load"
      BY <1>12, <2>2 DEF LoadBlock
    <3> HIDE DEF b
    <3>2. /\ LedgerInv(led)' /\ LedgerInv(snap)' /\ LedgerInv(old)' /\ ApplyingInv'
          /\ pos' = 1 /\ blk' = b
      BY <2>1, <3>1, EnterFacts
    <3>3. TypeOK'
      BY <2>1, <3>1, <3>2 DEF EnterAddBlock, TypeOK, LedgerInv
    <3>4. CallInv'
      BY <3>1, <3>2 DEF CallInv
    <3> QED
      BY <3>2, <3>3, <3>4
  <2>3. CASE ~BlockValid(led, b, Applying)
    BY <1>12, <2>3 DEF LoadBlock, TypeOK, ApplyingInv, CallInv, Applying
  <2> QED
    BY <2>2, <2>3
<1>13. CASE FinishLoad
  BY <1>13 DEF FinishLoad, TypeOK, ApplyingInv, CallInv, Applying
<1>14. CASE UNCHANGED vars
  BY <1>14 DEF vars, TypeOK, ApplyingInv, CallInv, Applying
<1> QED
  BY <1>1, <1>2, <1>3, <1>4, <1>5, <1>6, <1>7, <1>8, <1>9, <1>10, <1>11, <1>12, <1>13, <1>14
     DEF Next, Bounded

LEMMA Invariance == Spec => []Inv
  BY InitInv, NextInv, PTL DEF Spec

-----------------------------------------------------------------------------
(* The theorems.                                                           *)

\* The members of Chain stay well formed through every call, crash and reload.
THEOREM TypeCorrect == Spec => []TypeOK
<1>1. Inv => TypeOK
  BY DEF Inv
<1> QED
  BY <1>1, Invariance, PTL

\* The hard cap of the whitepaper: no state a node can reach, the middle of a
\* block and of a chain replacement included, has emitted more than max_supply.
THEOREM SupplyCap == Spec => []EmissionCapped
<1>1. Inv => EmissionCapped
  BY DEF Inv, LedgerInv, EmissionCapped
<1> QED
  BY <1>1, Invariance, PTL

\* add_block's last check of the mint, which returns without restoring the
\* snapshots, can never fail: the check before the transactions implies it.
THEOREM LateMintCheckIsDead == Spec => []LateMintCheckHolds
<1>1. Inv => LateMintCheckHolds
  <2> SUFFICES ASSUME Inv, pos > NumTxs(blk)
               PROVE  Minted(blk) <= MaxMintableAt(led, Applying)
    BY DEF LateMintCheckHolds
  <2>1. pos \in Nat
    BY DEF Inv, TypeOK
  <2>2. CASE pos > 0
    BY <2>2 DEF Inv, ApplyingInv
  <2>3. CASE pos = 0
    <3>1. blk \in Blocks \cup {NoBlock}
      BY DEF Inv, TypeOK
    <3> QED
      BY <2>3, <3>1, TxsAreCounted
  <2> QED
    BY <2>1, <2>2, <2>3
<1> QED
  BY <1>1, Invariance, PTL

\* The pool of tickets that may vote is the set of unspent stake outputs, in
\* every state, whatever is spent, slashed, rolled back or replaced.
THEOREM TicketPool == Spec => []TicketsAreStakeOutputs
<1>1. Inv => TicketsAreStakeOutputs
  BY DEF Inv, LedgerInv, TicketsAreStakeOutputs
<1> QED
  BY <1>1, Invariance, PTL

\* The registry always resolves the key of a ticket's owner.
THEOREM TicketKeys == Spec => []TicketKeysKnown
<1>1. Inv => TicketKeysKnown
  BY DEF Inv, LedgerInv, KeysKnown, TicketKeysKnown
<1> QED
  BY <1>1, Invariance, PTL

\* A running node leaves its chain only for one with strictly more work: no
\* rollback, rejected candidate or tie changes what it answers with.
THEOREM OnlyHeavier == Spec => ChainChangesToHeavier
<1> DEFINE Running == {call, call'} \subseteq {"idle", "add", "replace"}
<1> DEFINE Step == Running => Chain' = Chain \/ ChainWork' > ChainWork
<1>1. Inv /\ [Next]_vars => [Step]_vars
  <2>a. SUFFICES ASSUME Inv, [Next]_vars, Running
                 PROVE  Chain' = Chain \/ ChainWork' > ChainWork
    OBVIOUS
  <2>b. led.work \in Nat
    BY <2>a DEF Inv, TypeOK, LedgerTypeOK
  <2>0. /\ pos > 0 => snap.blocks = led.blocks /\ snap.work = led.work /\ blk \in Blocks
        /\ call = "idle" => pos = 0
        /\ call = "add" => pos > 0
        /\ pos \in Nat
    BY <2>a DEF Inv, ApplyingInv, CallInv, TypeOK
  <2>1. ASSUME NEW b \in Blocks, AddBlock(b) PROVE Chain' = Chain
    BY <2>0, <2>1 DEF AddBlock, EnterAddBlock, Chain
  <2>2. ASSUME NEW b \in Blocks, ReplayCandidateBlock(b) PROVE Chain' = Chain
    BY <2>2 DEF ReplayCandidateBlock, EnterAddBlock, Chain
  <2>3. ASSUME NEW b \in Blocks, CandidateInvalid(b) PROVE Chain' = Chain
    <3>1. call = "replace" /\ pos = 0 /\ led' = Restore(old) /\ call' = "idle" /\ pos' = pos
      BY <2>3, Zenon DEF CandidateInvalid, RestoreOldChain
    <3>2. led'.blocks = old.blocks
      BY <3>1 DEF Restore
    <3> QED
      BY <3>1, <3>2 DEF Chain
  <2>4. CASE ApplyTx
    <3>1. pos > 0 /\ pos' > 0 /\ snap' = snap /\ old' = old /\ call' = call
      <4>1. pos \in 1..NumTxs(blk) /\ pos' = pos + 1 /\ snap' = snap /\ old' = old /\ call' = call
        BY <2>4, Zenon DEF ApplyTx
      <4> QED
        BY <2>0, <4>1
    <3> QED
      BY <3>1 DEF Chain
  <2>5. CASE RollBackBlock
    <3>1. pos > 0 /\ pos' = 0 /\ call' # "replace"
      BY <2>0, <2>5 DEF RollBackBlock
    <3>2. led'.blocks = IF call = "replace" THEN old.blocks ELSE snap.blocks
      BY <2>5 DEF RollBackBlock, Restore
    <3> QED
      BY <3>1, <3>2 DEF Chain
  <2>6. CASE SlashTicket
    <3>1. pos > 0 /\ pos' > 0 /\ snap' = snap /\ old' = old /\ call' = call
      BY <2>0, <2>6 DEF SlashTicket
    <3> QED
      BY <3>1 DEF Chain
  <2>7. CASE FinishAddBlock
    <3>1. CASE call = "replace"
      BY <2>7, <3>1 DEF FinishAddBlock, Chain
    <3>2. CASE call # "replace"
      <4>1. pos > 0 /\ pos' = 0 /\ call' # "replace" /\ led' = SealBlock(led, blk)
        BY <2>7, <3>2 DEF FinishAddBlock
      <4>2. ChainWork = led.work
        BY <2>0, <3>2, <4>1 DEF ChainWork
      <4>3. ChainWork' = led.work + blk.work
        BY <4>1 DEF ChainWork, SealBlock
      <4>4. blk.work \in Nat \ {0}
        BY <2>0, <4>1, BlocksAssumption
      <4> QED
        BY <2>b, <4>2, <4>3, <4>4
    <3> QED
      BY <3>1, <3>2
  <2>8. CASE StartReplace
    <3>1. call = "idle" /\ call' = "replace" /\ old' = led
      BY <2>8 DEF StartReplace
    <3> QED
      BY <2>0, <3>1 DEF Chain
  <2>9. CASE FinishReplace
    <3>1. /\ call = "replace" /\ call' = "idle"
          /\ (Heavier /\ led' = led) \/ RestoreOldChain
          /\ pos = 0 /\ pos' = pos
      BY <2>9, Zenon DEF FinishReplace
    <3>2. CASE Heavier /\ led' = led
      BY <3>1, <3>2 DEF Heavier, Chain, ChainWork
    <3>3. CASE RestoreOldChain
      <4>1. led'.blocks = old.blocks
        BY <3>3 DEF RestoreOldChain, Restore
      <4> QED
        BY <3>1, <4>1 DEF Chain
    <3> QED
      BY <3>1, <3>2, <3>3
  <2>10. CASE Crash \/ Restart \/ LoadBlock \/ FinishLoad
    BY <2>a, <2>10 DEF Crash, Restart, LoadBlock, FinishLoad
  <2>11. CASE UNCHANGED vars
    BY <2>11 DEF vars, Chain
  <2> QED
    BY <2>a, <2>1, <2>2, <2>3, <2>4, <2>5, <2>6, <2>7, <2>8, <2>9, <2>10, <2>11 DEF Next, Bounded
<1> QED
  BY <1>1, Invariance, PTL DEF Spec, ChainChangesToHeavier
=============================================================================
