------------------------------- MODULE Mempool -------------------------------
(***************************************************************************)
(* Mempool (mempool.cpp): the pending transactions and the three indexes   *)
(* that keep two of them from having one id, one signer's nonce, or one    *)
(* outpoint or nullifier in common.  Every call runs under mu_.            *)
(*                                                                         *)
(* A transaction is [id, signer, nonce, fee, outs, inputs, nullifiers,     *)
(* bundle, authorised]: inputs and nullifiers are the keys it spends, outs *)
(* the number of its outputs, bundle whether it has a shielded part, and   *)
(* authorised whether it carries a PQ signature, or for a script spend a   *)
(* witness in every input.  pending_ is a set here: fetch_for_block sorts  *)
(* the vector before anything depends on its order.                        *)
(***************************************************************************)
EXTENDS Integers, Sequences, FiniteSets, SequencesExt

NoSigner == "none"

Pool(pending, txids, nonces, reserved) ==
    [pending |-> pending, txids |-> txids, signer_nonces |-> nonces, reserved_outpoints |-> reserved]

EmptyPool == Pool({}, {}, {}, {})

outpoint_keys(tx) == tx.inputs \union tx.nullifiers

\* The key under which a signer's nonce is taken; none without inputs or signer.
signer_nonce_key(tx) ==
    IF tx.inputs = {} \/ tx.signer = NoSigner THEN {} ELSE {<<tx.signer, tx.nonce>>}

looks_spendable(tx) ==
    \/ tx.inputs = {} /\ tx.bundle /\ tx.signer = NoSigner /\ tx.nullifiers # {}
    \/ tx.inputs # {} /\ tx.outs > 0 /\ tx.authorised

index_inputs(m, tx) ==
    Pool(m.pending \union {tx}, m.txids \union {tx.id}, m.signer_nonces \union signer_nonce_key(tx),
         m.reserved_outpoints \union outpoint_keys(tx))

\* Mutant: a refused transaction leaves its nonce behind.
submitKeepingNonce(m, tx) ==
    IF ~looks_spendable(tx) \/ tx.id \in m.txids THEN m
    ELSE IF \/ signer_nonce_key(tx) \cap m.signer_nonces # {}
            \/ outpoint_keys(tx) \cap m.reserved_outpoints # {}
    THEN [m EXCEPT !.signer_nonces = @ \union signer_nonce_key(tx)]
    ELSE index_inputs(m, tx)

submit(m, tx) ==
    IF \/ ~looks_spendable(tx)
       \/ tx.id \in m.txids
       \/ signer_nonce_key(tx) \cap m.signer_nonces # {}
       \/ outpoint_keys(tx) \cap m.reserved_outpoints # {}
    THEN m
    ELSE index_inputs(m, tx)

SubmitAll(m, txs) == FoldLeft(submit, m, txs)

\* The pool without some pending transactions: what they had in the indexes goes
\* with them.
unindex_inputs(m, gone) ==
    Pool(m.pending \ gone, m.txids \ {tx.id : tx \in gone},
         m.signer_nonces \ UNION {signer_nonce_key(tx) : tx \in gone},
         m.reserved_outpoints \ UNION {outpoint_keys(tx) : tx \in gone})

---------------------------------------------------------------------------
Before(a, b) ==
    \/ a.fee > b.fee
    \/ a.fee = b.fee /\ a.outs < b.outs
    \/ a.fee = b.fee /\ a.outs = b.outs /\ a.nonce < b.nonce

\* The orders std::sort may leave: it is not stable.
FeeOrders(pending) ==
    {s \in SetToSeqs(pending) : \A i, j \in DOMAIN s : i < j => ~Before(s[j], s[i])}

\* Mutant: the fee order is kept though a signer's nonces are out of order.
NonceOrderIgnored(s) == s

\* Every signer's transactions, in the slots the fee order gave that signer, by
\* ascending nonce.
NonceOrder(s) ==
    LET Own(signer) == {i \in DOMAIN s : s[i].signer = signer}
        Lower(i) == Cardinality({j \in Own(s[i].signer) : s[j].nonce < s[i].nonce})
        Slot(i) == Cardinality({j \in Own(s[i].signer) : j < i})
    IN  [i \in DOMAIN s |->
           IF s[i].signer = NoSigner THEN s[i]
           ELSE s[CHOOSE j \in Own(s[i].signer) : Lower(j) = Slot(i)]]

\* The results fetch_for_block may have: the pool left and the transactions.
fetch_for_block(m, max_count) ==
    {LET s == NonceOrder(order)
         n == IF max_count < Len(s) THEN max_count ELSE Len(s)
         out == SubSeq(s, 1, n)
     IN  [pool |-> unindex_inputs(m, ToSet(out)), out |-> out]
       : order \in FeeOrders(m.pending)}

\* replace looks for conflicts among inputs only; two transactions with a
\* nullifier in common never get into the file it reads.
ReplaceOne(m, tx) ==
    IF \/ ~looks_spendable(tx)
       \/ tx.id \in m.txids
       \/ tx.inputs \cap m.reserved_outpoints # {}
       \/ signer_nonce_key(tx) \cap m.signer_nonces # {}
    THEN m
    ELSE index_inputs(m, tx)

replace(txs) == FoldSet(LAMBDA tx, m : ReplaceOne(m, tx), EmptyPool, txs)

\* Everything a block confirms or conflicts with leaves the pool.
remove_confirmed(m, block_txs) ==
    LET Hit(tx) == \E b \in ToSet(block_txs) :
                      \/ tx.id = b.id
                      \/ signer_nonce_key(tx) \cap signer_nonce_key(b) # {}
                      \/ outpoint_keys(tx) \cap outpoint_keys(b) # {}
    IN  unindex_inputs(m, {tx \in m.pending : Hit(tx)})

max_pending_nonce(m, signer) ==
    Max({0} \union {tx.nonce : tx \in {t \in m.pending : t.signer = signer}})

outpoint_reserved(m, key) == key \in m.reserved_outpoints

---------------------------------------------------------------------------
\* The indexes hold exactly what the pending transactions need: an entry that is
\* missing lets a double spend in, one left behind shuts a coin out for ever.
IndexesExact(m) ==
    /\ m.txids = {tx.id : tx \in m.pending}
    /\ m.signer_nonces = UNION {signer_nonce_key(tx) : tx \in m.pending}
    /\ m.reserved_outpoints = UNION {outpoint_keys(tx) : tx \in m.pending}
    /\ Cardinality(m.txids) = Cardinality(m.pending)

=============================================================================
