------------------------------- MODULE Mining -------------------------------
(***************************************************************************)
(* Transactions from submission to confirmation: the mempool, the chain    *)
(* and Miner::mine_next_block (miner.cpp), which the mine command and the  *)
(* auto-mine thread run with the RPC lock released, so that every step of  *)
(* it interleaves with submissions, blocks from peers, chain replacements  *)
(* and other miners.                                                       *)
(*                                                                         *)
(* The chain is the sequence of its blocks above genesis, a block the      *)
(* sequence of its transactions; what a transaction needs of the chain is  *)
(* derived from it (module Ledger has the ledger in full).  The chain only *)
(* ever gives way to a heavier one, so no tip comes back and a counter     *)
(* names the tips.  A call of a Chain method is one step: that two threads *)
(* may be inside Chain at once, a data race, is not modelled.              *)
(***************************************************************************)
EXTENDS Mempool

CONSTANTS Txs,          \* the transactions anyone may submit
          Miners,       \* threads that run mine_next_block
          MaxTxs,       \* the transactions a block may ask for
          Rooms,        \* how many transactions the relay and weight budgets may allow
          QuorumFrom,   \* the height from which a block needs stake votes
          PeerTxs,      \* the transaction lists of peers' blocks
          MaxHeight, MaxEvents   \* reorganisations and stops

VARIABLES chain, tip, pool, seen_txids, job, file, events

vars == <<chain, tip, pool, seen_txids, job, file, events>>

Ids(s) == {tx.id : tx \in ToSet(s)}

---------------------------------------------------------------------------
\* What add_block and validate_transaction make of a chain.
Confirmed(blocks) == UNION {ToSet(blocks[i]) : i \in DOMAIN blocks}

last_nonce(blocks, signer) ==
    Max({0} \union {tx.nonce : tx \in {t \in Confirmed(blocks) : t.signer = signer}})

validate_transaction(blocks, tx) ==
    /\ outpoint_keys(tx) \cap UNION {outpoint_keys(t) : t \in Confirmed(blocks)} = {}
    /\ tx.signer # NoSigner => tx.nonce > last_nonce(blocks, tx.signer)
    /\ tx.authorised
    /\ tx.bundle \/ tx.outs > 0

ValidInOrder(blocks, txs) ==
    \A i \in DOMAIN txs :
       validate_transaction(Append(blocks, SubSeq(txs, 1, i - 1)), txs[i])

RequiresVotes(blocks) == Len(blocks) + 1 >= QuorumFrom

next_nonce(blocks, m, signer) ==
    Max({last_nonce(blocks, signer), max_pending_nonce(m, signer)}) + 1

---------------------------------------------------------------------------
\* A miner's call: fetched is what is still to be validated, valid what passed;
\* votes is the tip the votes were collected for and whether they suffice, parent
\* the tip the template extends and base the tip the call began on.
NoVotes == [on |-> 0, quorum |-> FALSE]
IdleJob == [at |-> "idle", fetched |-> <<>>, valid |-> <<>>, votes |-> NoVotes,
            parent |-> 0, base |-> 0]

Init ==
    /\ chain = <<>> /\ tip = 0 /\ pool = EmptyPool /\ seen_txids = {}
    /\ job = [m \in Miners |-> IdleJob]
    /\ file = {} /\ events = 0

\* The transactions of a call that failed go back to the pool.
GiveBack(m) ==
    /\ pool' = SubmitAll(pool, job[m].valid)
    /\ job' = [job EXCEPT ![m] = IdleJob]

Fetch(m) ==
    /\ job[m].at = "idle" /\ Len(chain) < MaxHeight
    /\ \E n \in MaxTxs : \E f \in fetch_for_block(pool, n) :
         /\ pool' = f.pool
         /\ job' = [job EXCEPT ![m] = [IdleJob EXCEPT !.at = "validate", !.fetched = f.out, !.base = tip]]
    /\ UNCHANGED <<chain, tip, seen_txids, file, events>>

ValidateNext(m) ==
    /\ job[m].at = "validate" /\ job[m].fetched # <<>>
    /\ LET tx == Head(job[m].fetched)
       IN  job' = [job EXCEPT ![m].fetched = Tail(@),
                              ![m].valid = IF validate_transaction(chain, tx) THEN Append(@, tx) ELSE @]
    /\ UNCHANGED <<chain, tip, pool, seen_txids, file, events>>

\* Votes are collected, then the block is packed; the tail goes back to the pool.
Pack(m) ==
    /\ job[m].at = "validate" /\ job[m].fetched = <<>>
    /\ \E room \in Rooms, quorum \in IF RequiresVotes(chain) THEN BOOLEAN ELSE {FALSE} :
         LET txs == job[m].valid
             keep == IF Len(txs) < room THEN Len(txs) ELSE room
         IN  /\ pool' = SubmitAll(pool, SubSeq(txs, keep + 1, Len(txs)))
             /\ job' = [job EXCEPT ![m].at = "template", ![m].valid = SubSeq(txs, 1, keep),
                                   ![m].votes = [on |-> tip, quorum |-> quorum]]
    /\ UNCHANGED <<chain, tip, seen_txids, file, events>>

\* mine_and_add_block_with_votes up to the search.
Template(m) ==
    /\ job[m].at = "template"
    /\ IF RequiresVotes(chain) /\ ~job[m].votes.quorum
       THEN GiveBack(m)
       ELSE job' = [job EXCEPT ![m].at = "search", ![m].parent = tip] /\ pool' = pool
    /\ UNCHANGED <<chain, tip, seen_txids, file, events>>

SearchFails(m) ==
    /\ job[m].at = "search"
    /\ GiveBack(m)
    /\ UNCHANGED <<chain, tip, seen_txids, file, events>>

\* Does add_block accept what the miner found?
Addable(m) ==
    /\ job[m].parent = tip
    /\ RequiresVotes(chain) => job[m].votes.on = tip /\ job[m].votes.quorum
    /\ ValidInOrder(chain, job[m].valid)

\* Mutant: a block that add_block refuses takes its transactions with it.
AddLosing(m) ==
    /\ job[m].at = "search"
    /\ IF Addable(m)
       THEN /\ chain' = Append(chain, job[m].valid) /\ tip' = tip + 1
            /\ job' = [job EXCEPT ![m] = [IdleJob EXCEPT !.at = "announce"]]
       ELSE job' = [job EXCEPT ![m] = IdleJob] /\ UNCHANGED <<chain, tip>>
    /\ UNCHANGED <<pool, seen_txids, file, events>>

Add(m) ==
    /\ job[m].at = "search"
    /\ IF Addable(m)
       THEN /\ chain' = Append(chain, job[m].valid) /\ tip' = tip + 1
            /\ job' = [job EXCEPT ![m] = [IdleJob EXCEPT !.at = "announce"]]
            /\ pool' = pool
       ELSE GiveBack(m) /\ UNCHANGED <<chain, tip>>
    /\ UNCHANGED <<seen_txids, file, events>>

\* announce_tip: whatever the tip is by now.
AnnounceTip(m) ==
    /\ job[m].at = "announce"
    /\ job' = [job EXCEPT ![m] = IdleJob]
    /\ seen_txids' = seen_txids \union Ids(chain[Len(chain)])
    /\ UNCHANGED <<chain, tip, pool, file, events>>

---------------------------------------------------------------------------
\* A transaction arrives; a refused one is forgotten so that it may come again.
fluff_transaction(tx) ==
    /\ validate_transaction(chain, tx)
    /\ tx.id \notin seen_txids
    /\ pool' = submit(pool, tx)
    /\ seen_txids' = IF pool' = pool THEN seen_txids ELSE seen_txids \union {tx.id}
    /\ UNCHANGED <<chain, tip, job, file, events>>

GossipTx(tx) == fluff_transaction(tx)

\* build_transaction selects only outpoints that no pending transaction reserves.
build_transaction(tx) ==
    /\ tx.signer # NoSigner /\ tx.outs > 0
    /\ \A k \in outpoint_keys(tx) : ~outpoint_reserved(pool, k)

\* sendtx, sendtx_hash, sendtx_signed, sendtx_signed_hash: the caller's nonce.
SendTx(tx) == build_transaction(tx) /\ fluff_transaction(tx)

WalletSend(tx) ==
    /\ tx.nonce = next_nonce(chain, pool, tx.signer)
    /\ build_transaction(tx)
    /\ fluff_transaction(tx)

\* A peer's block on our tip.
ingest_block(txs) ==
    /\ Len(chain) < MaxHeight /\ ValidInOrder(chain, txs)
    /\ chain' = Append(chain, txs) /\ tip' = tip + 1
    /\ pool' = remove_confirmed(pool, txs)
    /\ UNCHANGED <<seen_txids, job, file, events>>

\* sync_once adopts a heavier candidate of a peer: the pool stays as it is and the
\* transactions of the blocks left behind do not come back to it.
AdoptCandidate(keep, blocks) ==
    /\ events < MaxEvents /\ keep < Len(chain)
    /\ LET candidate == SubSeq(chain, 1, keep) \o blocks
       IN  /\ Len(candidate) <= MaxHeight /\ candidate # chain
           /\ \A i \in DOMAIN blocks :
                 ValidInOrder(SubSeq(candidate, 1, keep + i - 1), blocks[i])
           /\ chain' = candidate /\ tip' = tip + 1
           /\ seen_txids' = seen_txids \union {tx.id : tx \in Confirmed(candidate)}
    /\ events' = events + 1
    /\ UNCHANGED <<pool, job, file>>

\* What a miner holds, and the pool after a crash since the last save, is lost.
Stop(saved) ==
    /\ events < MaxEvents
    /\ file' = IF saved THEN pool.pending ELSE file
    /\ pool' = replace(file')
    /\ seen_txids' = {}
    /\ job' = [m \in Miners |-> IdleJob]
    /\ events' = events + 1
    /\ UNCHANGED <<chain, tip>>

PeerChains == PeerTxs \X PeerTxs

Next ==
    \/ \E m \in Miners : Fetch(m) \/ ValidateNext(m) \/ Pack(m) \/ Template(m)
                         \/ SearchFails(m) \/ Add(m) \/ AnnounceTip(m)
    \/ \E tx \in Txs : GossipTx(tx) \/ SendTx(tx) \/ WalletSend(tx)
    \/ \E txs \in PeerTxs : ingest_block(txs)
    \/ \E keep \in 0..MaxHeight, blocks \in PeerChains : AdoptCandidate(keep, blocks)
    \/ \E saved \in BOOLEAN : Stop(saved)

Spec == Init /\ [][Next]_vars

---------------------------------------------------------------------------
Held == UNION {ToSet(job[m].fetched) \union ToSet(job[m].valid) : m \in Miners}
Known == pool.pending \union Held

Rival(tx, others) ==
    \E t \in others : \/ t.id = tx.id
                      \/ outpoint_keys(t) \cap outpoint_keys(tx) # {}
                      \/ signer_nonce_key(t) \cap signer_nonce_key(tx) # {}

\* The mempool's id, nonce and outpoint indexes (mempool.cpp) never drift from the
\* pending transactions, however fetches, failed blocks, evictions and reloads
\* alternate; so no two pending transactions conflict.
PoolIndexesExact == IndexesExact(pool)

\* While the chain stays the one a miner fetched for, what it searches a nonce for
\* is a block that add_block accepts: the hashing is never wasted on an order of
\* nonces or on missing votes.
SearchIsNotWasted ==
    \A m \in Miners : job[m].at = "search" /\ tip = job[m].base => Addable(m)

\* A transaction leaves a running node's pool and miners only when it is confirmed,
\* no longer valid, or conflicts with one that is confirmed or known: failed
\* searches, refused blocks and packing lose nothing (mine_next_block's submits).
NothingLost ==
    \A tx \in Known :
       \/ tx \in Known' \/ tx \in Confirmed(chain')
       \/ ~validate_transaction(chain, tx) \/ ~validate_transaction(chain', tx)
       \/ Rival(tx, pool'.pending)

\* Nothing pending is already in the chain: ingest_block evicts what a block
\* confirms "so tx_status, mining and re-gossip stay correct".
PendingUnconfirmed == pool.pending \cap Confirmed(chain) = {}

LossStep == (\E saved \in BOOLEAN : Stop(saved)) \/ NothingLost
=============================================================================
