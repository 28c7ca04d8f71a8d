------------------------------- MODULE Ledger -------------------------------
(***************************************************************************)
(* Chain (src/chain.cpp): the block chain of one node and the state that   *)
(* its blocks determine, with the calls that change it.                    *)
(*                                                                         *)
(* add_block is modelled at the grain of its loops: one step per           *)
(* transaction applied, one per ticket slashed, one that seals the block,  *)
(* or one that rolls everything back.  replace_with_chain resets the state *)
(* and runs add_block over a candidate chain, then keeps it or restores    *)
(* the old state; load_chain runs add_block over the saved chain after a   *)
(* restart.  A node holds its state mutex for a whole call, so no other    *)
(* call starts in between; a crash may come at any step.                   *)
(*                                                                         *)
(* Shielded bundles are not modelled: networks run with shielded_enabled   *)
(* off unless they opt in, and then validate_transaction rejects them.     *)
(***************************************************************************)
EXTENDS ConsensusRules, Staking

CONSTANTS
  Address,            \* owners of outputs, StakeAddress included
  StakeAddress,       \* kStakeAddress, "@stake"
  ScriptAddress,      \* the owners that are script hashes
  NoSigner,           \* the empty signer of coinbases and script spends
  Name,               \* what tells two transactions apart besides the height
  Txs,                \* the transactions other than coinbases
  Blocks,             \* the blocks that may be offered
  TicketOrder,        \* ticket ids in the order of their strings
  GenesisDraws,       \* the draws the genesis hash seeds
  MaxSupply, BlockReward, HalvingInterval, SubsidyFloor,
  MinFee, AllowZeroReward, MaxBlockTxs, MaxU64,
  StakingActivation, StakeMin, StakeMaturity, UnbondDelay,
  VotesPerBlock, VoteQuorum, MinLiveTickets, StakeRewardBps,
  MaxHeight,          \* bound: height of the chains explored
  MaxReplaceHeight,   \* bound: height at which a replacement may start
  MaxCrashes          \* bound: crashes

(***************************************************************************)
(* A txid is a hash of the content, here a name and a number: 0 for an     *)
(* ordinary transaction, the height (the coinbase's nonce in               *)
(* make_block_template) for a coinbase.  An outpoint is a txid and the     *)
(* index of an output.                                                     *)
(***************************************************************************)
TxId == Name \X Nat

Outpoint == TxId \X Nat

Output == [owner : Address, amount : Nat]

Transaction == [id : TxId, ins : SUBSET Outpoint, outs : Seq(Output), fee : Nat,
                signer : Address \cup {NoSigner}, nonce : Nat, key : BOOLEAN]

\* `coinbase` names the coinbase, `outs` are its outputs; `work` is the work of
\* the header's difficulty target, `draws` the ticket draws its hash seeds.
Block == [coinbase : Name, outs : Seq(Output), txs : Seq(Txs),
          votes : Seq([ticket : Outpoint, approve : BOOLEAN]),
          slashes : Seq(Outpoint), work : Nat, draws : Seq(Nat)]

ASSUME TxsAssumption ==
  /\ \A t \in Txs : /\ t.id \in Name \X {0}
                    /\ t.ins \subseteq Outpoint
                    /\ t.outs \in Seq(Output)
                    /\ t.fee \in Nat
                    /\ t.signer \in Address \cup {NoSigner}
                    /\ t.nonce \in Nat
                    /\ t.key \in BOOLEAN
  /\ \A t, u \in Txs : t.id = u.id => t = u

ASSUME BlocksAssumption ==
  \A b \in Blocks : /\ b.coinbase \in Name
                    /\ b.outs \in Seq(Output)
                    /\ b.txs \in Seq(Txs)
                    /\ b.slashes \in Seq(Outpoint)
                    /\ b.work \in Nat \ {0}

ASSUME ParametersAssumption ==
  /\ StakeAddress \in Address /\ NoSigner \notin Address
  /\ {MaxSupply, BlockReward, HalvingInterval, SubsidyFloor, MinFee, MaxU64,
      StakeMin, UnbondDelay, MaxHeight, MaxReplaceHeight, MaxCrashes} \subseteq Nat
  /\ StakeMin > 0

Utxo == [owner : Address, amount : Nat, spent : BOOLEAN, spendable : Nat]

Ticket == [owner : Address \cup {NoSigner}, amount : Nat, lock : Nat]

\* signer_last_nonce_ holds no entry: every nonce is above this one.
NoNonce == -1

VARIABLES
  led,      \* the members of Chain, as a record
  call,     \* the call in progress: "idle", "add", "replace", "load", or "down", "failed"
  blk,      \* the block add_block is working on
  pos,      \* add_block's progress: 0 outside it, then the next tx or slash
  snap,     \* add_block's snapshots
  old,      \* replace_with_chain's copies of the old state
  todo,     \* blocks load_chain has still to replay
  disk,     \* the chain in the data directory
  crashes

vars == <<led, call, blk, pos, snap, old, todo, disk, crashes>>

(***************************************************************************)
(* The ledger state and the genesis state of Chain::reset.                 *)
(***************************************************************************)
EmptyMap == [o \in {} |-> 0]

Genesis ==
  [blocks |-> <<>>, utxo |-> EmptyMap, index |-> [a \in Address |-> 0],
   tickets |-> EmptyMap, nonce |-> [a \in Address |-> NoNonce], registry |-> {},
   emitted |-> 0, slashed |-> 0, fees |-> 0, work |-> 0]

\* height(): genesis, height 0, is not listed in `blocks`.
Height(l) == Len(l.blocks)

NoBlock == [coinbase |-> CHOOSE n \in Name : TRUE, outs |-> <<>>, txs |-> <<>>,
            votes |-> <<>>, slashes |-> <<>>, work |-> 0, draws |-> <<>>]

Coinbase(b, h) ==
  [id |-> <<b.coinbase, h>>, ins |-> {}, outs |-> b.outs, fee |-> 0,
   signer |-> NoSigner, nonce |-> h, key |-> FALSE]

BlockTxs(b, h) == <<Coinbase(b, h)>> \o b.txs

\* The same list position by position, for add_block's loop.
NumTxs(b) == Len(b.txs) + 1

TxAt(b, h, i) == IF i = 1 THEN Coinbase(b, h) ELSE b.txs[i - 1]

(***************************************************************************)
(* validate_transaction, as add_block calls it: applying_height_ is h.     *)
(***************************************************************************)
\* What the outputs of a list, or of the UTXO set, are worth.
Amounts(outs) == [o \in DOMAIN outs |-> outs[o].amount]

AmountOf(outs) == SumFunctionOnSet(Amounts(outs), DOMAIN outs)

StakingActiveAt(h) == h >= StakingActivation

Unspent(u, o) == o \in DOMAIN u /\ ~u[o].spent

\* validate_script_inputs: the witness is taken to satisfy the script; what
\* remains is that the input exists and is owned by a script hash.
ScriptInputsOk(l, tx) ==
  \A o \in tx.ins : Unspent(l.utxo, o) /\ l.utxo[o].owner \in ScriptAddress

\* validate_transaction_signature: a resolvable key and control of every input,
\* a ticket being controlled by the owner its lock recorded.
ControlsInput(l, tx, o) ==
  /\ Unspent(l.utxo, o)
  /\ IF l.utxo[o].owner = StakeAddress
     THEN o \in DOMAIN l.tickets /\ l.tickets[o].owner = tx.signer
     ELSE l.utxo[o].owner = tx.signer

\* Mutant: the nonce may repeat.
SignerOkAnyNonce(l, tx) ==
  /\ tx.key \/ tx.signer \in l.registry
  /\ \A o \in tx.ins : ControlsInput(l, tx, o)

SignerOk(l, tx) ==
  /\ tx.key \/ tx.signer \in l.registry
  /\ \A o \in tx.ins : ControlsInput(l, tx, o)
  /\ tx.nonce > l.nonce[tx.signer]

SpendsTicket(l, tx) == tx.ins \cap DOMAIN l.tickets # {}

\* The rules for outputs to @stake.
StakeOutputsOk(l, tx, h) ==
  \A i \in DOMAIN tx.outs : tx.outs[i].owner = StakeAddress =>
    /\ ~SpendsTicket(l, tx)
    /\ StakingActiveAt(h)
    /\ tx.outs[i].amount >= StakeMin

\* Mutant: the unbonding delay is not enforced.
InputsOkIgnoringUnbonding(l, tx, h) == \A o \in tx.ins : Unspent(l.utxo, o)

InputsOk(l, tx, h) ==
  \A o \in tx.ins : Unspent(l.utxo, o) /\ l.utxo[o].spendable <= h

\* The sums are taken in 64 bits, with overflow refused.
ValueOk(l, tx) ==
  LET inputs == SumFunctionOnSet(Amounts(l.utxo), tx.ins)
  IN  /\ inputs <= MaxU64
      /\ AmountOf(tx.outs) + tx.fee <= MaxU64
      /\ inputs >= AmountOf(tx.outs) + tx.fee

OutputsOk(tx) == \A i \in DOMAIN tx.outs : tx.outs[i].amount > 0

ValidateTransaction(l, tx, h) ==
  /\ OutputsOk(tx)
  /\ IF tx.ins = {}
     THEN /\ tx.signer = NoSigner
          /\ \A i \in DOMAIN tx.outs : tx.outs[i].owner # StakeAddress
     ELSE /\ tx.outs # <<>>
          /\ tx.fee >= MinFee
          /\ IF tx.signer = NoSigner THEN ScriptInputsOk(l, tx) ELSE SignerOk(l, tx)
          /\ InputsOk(l, tx, h)
          /\ StakeOutputsOk(l, tx, h)
          /\ ValueOk(l, tx)

(***************************************************************************)
(* apply_transaction.  The balance index subtracts down to 0 and refuses   *)
(* to pass the width of its counters.                                      *)
(***************************************************************************)
Monus(a, b) == IF a - b \in Nat THEN a - b ELSE 0

NewOutpoints(tx) == {<<tx.id, i>> : i \in DOMAIN tx.outs}

SpentOf(l, tx, a) ==
  SumFunctionOnSet(Amounts(l.utxo), {o \in tx.ins : l.utxo[o].owner = a})

PaidTo(tx, a) ==
  SumFunctionOnSet(Amounts(tx.outs), {i \in DOMAIN tx.outs : tx.outs[i].owner = a})

IndexAfter(l, tx) ==
  [a \in Address |-> Monus(l.index[a], SpentOf(l, tx, a)) + PaidTo(tx, a)]

\* Mutant: the entry is left as it was.
MarkSpentForgotten(u) == u

MarkSpent(u) ==
  [owner |-> u.owner, amount |-> u.amount, spent |-> TRUE, spendable |-> u.spendable]

UtxoAfter(l, tx, h) ==
  [o \in DOMAIN l.utxo \cup NewOutpoints(tx) |->
     IF o \in NewOutpoints(tx)
     THEN [owner |-> tx.outs[o[2]].owner, amount |-> tx.outs[o[2]].amount, spent |-> FALSE,
           spendable |-> IF SpendsTicket(l, tx) THEN h + UnbondDelay ELSE 0]
     ELSE IF o \in tx.ins THEN MarkSpent(l.utxo[o])
     ELSE l.utxo[o]]

StakedBy(tx) == {o \in NewOutpoints(tx) : tx.outs[o[2]].owner = StakeAddress}

\* Mutant: spending a ticket leaves it in the pool.
TicketsAfterNoErase(l, tx, h) ==
  [o \in DOMAIN l.tickets \cup StakedBy(tx) |->
     IF o \in StakedBy(tx)
     THEN [owner |-> tx.signer, amount |-> tx.outs[o[2]].amount, lock |-> h]
     ELSE l.tickets[o]]

TicketsAfter(l, tx, h) ==
  [o \in (DOMAIN l.tickets \ tx.ins) \cup StakedBy(tx) |->
     IF o \in StakedBy(tx)
     THEN [owner |-> tx.signer, amount |-> tx.outs[o[2]].amount, lock |-> h]
     ELSE l.tickets[o]]

\* A signer's nonce moves and its full key, when sent, is registered.
SignedSpend(tx) == tx.ins # {} /\ tx.signer # NoSigner

RegistryAfter(l, tx) ==
  IF SignedSpend(tx) /\ tx.key THEN l.registry \cup {tx.signer} ELSE l.registry

ApplyTransaction(l, tx, h) ==
  [blocks |-> l.blocks, utxo |-> UtxoAfter(l, tx, h), index |-> IndexAfter(l, tx),
   tickets |-> TicketsAfter(l, tx, h),
   nonce |-> IF SignedSpend(tx) THEN [l.nonce EXCEPT ![tx.signer] = tx.nonce] ELSE l.nonce,
   registry |-> RegistryAfter(l, tx),
   emitted |-> l.emitted, slashed |-> l.slashed, fees |-> l.fees, work |-> l.work]

\* apply_transaction succeeds: the transaction is valid now, after the ones
\* before it in the block, and no balance overflows.
Applies(l, tx, h) ==
  /\ ValidateTransaction(l, tx, h)
  /\ IndexAfter(l, tx) \in [Address -> 0..MaxU64]

(***************************************************************************)
(* validate_block_transactions: checks against the state before the block. *)
(***************************************************************************)
Fees(b) == [i \in DOMAIN b.txs |-> b.txs[i].fee]

BlockFees(b) == SumFunctionOnSet(Fees(b), DOMAIN b.txs)

MaxMintableAt(l, h) ==
  MaxMintableSubsidy(h, l.emitted, MaxSupply, BlockReward, HalvingInterval, SubsidyFloor)

ComputeBlockReward(h) ==
  ScheduledBlockSubsidy(h, BlockReward, HalvingInterval, SubsidyFloor)

\* What the coinbase creates beyond the fees it collects.
Minted(b) ==
  IF AmountOf(b.outs) > BlockFees(b) THEN AmountOf(b.outs) - BlockFees(b) ELSE 0

\* Mutant: the supply cap is left to the reward schedule.
CoinbaseOkNoCap(l, b, h) ==
  /\ AmountOf(b.outs) \in 0..MaxU64
  /\ BlockFees(b) \in 0..MaxU64
  /\ \A i \in DOMAIN b.outs : b.outs[i].amount > 0
  /\ b.outs = <<>> => AllowZeroReward \/ MaxMintableAt(l, h) = 0
  /\ AmountOf(b.outs) <= ComputeBlockReward(h) + BlockFees(b)

CoinbaseOk(l, b, h) ==
  /\ AmountOf(b.outs) \in 0..MaxU64
  /\ BlockFees(b) \in 0..MaxU64
  /\ \A i \in DOMAIN b.outs : b.outs[i].amount > 0
  /\ b.outs = <<>> => AllowZeroReward \/ MaxMintableAt(l, h) = 0
  /\ AmountOf(b.outs) <= ComputeBlockReward(h) + BlockFees(b)
  /\ Minted(b) <= MaxMintableAt(l, h)

\* op applied to the elements of seq from the first to the last.
InOrder(op(_, _), base, seq) ==
  MapThenFoldSet(LAMBDA x, y : op(y, x), base, LAMBDA i : seq[i], Max, DOMAIN seq)

\* One transaction of the block against the running copy of the UTXO set; the
\* copy gives new outputs no unbonding height, apply_transaction does.
SnapshotAccepts(u, tx, h) ==
  /\ OutputsOk(tx)
  /\ tx.outs = <<>> => tx.ins = {}
  /\ \A o \in tx.ins : Unspent(u, o) /\ u[o].spendable <= h
  /\ tx.ins # {} =>
       SumFunctionOnSet(Amounts(u), tx.ins) >= AmountOf(tx.outs) + tx.fee

SnapshotStep(s, tx, h) ==
  IF ~s.ok \/ ~SnapshotAccepts(s.utxo, tx, h) THEN [s EXCEPT !.ok = FALSE]
  ELSE [s EXCEPT !.utxo =
         [o \in DOMAIN s.utxo \cup NewOutpoints(tx) |->
            IF o \in NewOutpoints(tx)
            THEN [owner |-> tx.outs[o[2]].owner, amount |-> tx.outs[o[2]].amount,
                  spent |-> FALSE, spendable |-> 0]
            ELSE IF o \in tx.ins THEN [s.utxo[o] EXCEPT !.spent = TRUE]
            ELSE s.utxo[o]]]

SnapshotOk(l, b, h) ==
  InOrder(LAMBDA s, tx : SnapshotStep(s, tx, h),
           [ok |-> TRUE, utxo |-> l.utxo], BlockTxs(b, h)).ok

\* The batch signature check resolves a key from the transaction, the registry
\* or an earlier transaction of the block.
KeysResolve(l, b) ==
  \A i \in DOMAIN b.txs :
    \/ b.txs[i].signer = NoSigner
    \/ b.txs[i].key
    \/ b.txs[i].signer \in l.registry
    \/ \E j \in 1..(i - 1) : b.txs[j].signer = b.txs[i].signer /\ b.txs[j].key

(***************************************************************************)
(* validate_block_staking.  A vote is a selected ticket's signature on the *)
(* parent; evidence is two conflicting votes of one ticket, which its      *)
(* owner alone can produce.                                                *)
(***************************************************************************)
EligibleTicketsAt(l, votedHeight) ==
  {t \in DOMAIN l.tickets : l.tickets[t].lock + StakeMaturity <= votedHeight}

TipDraws(l) == IF l.blocks = <<>> THEN GenesisDraws ELSE l.blocks[Len(l.blocks)].draws

SelectedTickets(l, h) ==
  LET eligible == EligibleTicketsAt(l, h - 1)
  IN  SelectTickets(TicketOrder, [t \in eligible |-> l.tickets[t].amount],
                    TipDraws(l), VotesPerBlock)

\* ticket_with_key finds the owner's key, without which no vote verifies.
KeyOfTicketKnown(l, t) == l.tickets[t].owner \in l.registry

SlashesOk(l, b) ==
  /\ \A i \in DOMAIN b.slashes :
       b.slashes[i] \in DOMAIN l.tickets /\ KeyOfTicketKnown(l, b.slashes[i])
  /\ IsInjective(b.slashes)

VotesOk(l, b, h) ==
  LET selected == SelectedTickets(l, h)
  IN  /\ Len(b.votes) <= Len(selected)
      /\ \A i \in DOMAIN b.votes : /\ b.votes[i].ticket \in Range(selected)
                                   /\ KeyOfTicketKnown(l, b.votes[i].ticket)
      /\ IsInjective([i \in DOMAIN b.votes |-> b.votes[i].ticket])

ApprovingOwners(l, b) ==
  LET approving == SelectSeq(b.votes, LAMBDA v : v.approve)
  IN  [i \in DOMAIN approving |-> l.tickets[approving[i].ticket].owner]

QuorumMet(l, b, h) ==
  Cardinality(EligibleTicketsAt(l, h - 1)) >= MinLiveTickets =>
    Len(ApprovingOwners(l, b)) >= VoteQuorum

\* The coinbase ends with one equal reward per approving vote, in vote order.
RewardsOk(l, b, h) ==
  LET owners == ApprovingOwners(l, b)
      n      == Len(owners)
      per    == StakeRewardPerVote(MaxMintableAt(l, h) + BlockFees(b), StakeRewardBps, n)
  IN  n > 0 /\ per > 0 =>
        /\ Len(b.outs) >= n
        /\ \A k \in 1..n : b.outs[Len(b.outs) - n + k] = [owner |-> owners[k], amount |-> per]

ValidateBlockStaking(l, b, h) ==
  IF ~StakingActiveAt(h) THEN b.votes = <<>> /\ b.slashes = <<>>
  ELSE SlashesOk(l, b) /\ VotesOk(l, b, h) /\ QuorumMet(l, b, h) /\ RewardsOk(l, b, h)

\* add_block's checks before it changes anything.  Headers are taken to be
\* well formed; a malformed one is refused like any other invalid block.
BlockValid(l, b, h) ==
  /\ Len(b.txs) <= MaxBlockTxs
  /\ CoinbaseOk(l, b, h)
  /\ \A i \in DOMAIN b.txs : b.txs[i].ins # {}
  /\ SnapshotOk(l, b, h)
  /\ KeysResolve(l, b)
  /\ ValidateBlockStaking(l, b, h)

(***************************************************************************)
(* The rest of add_block.                                                  *)
(***************************************************************************)

\* Mutant: the index keeps counting the burned coins.
IndexWithBurned(l, t) == l.index

IndexWithout(l, t) == [l.index EXCEPT ![l.utxo[t].owner] = Monus(@, l.utxo[t].amount)]

\* One piece of evidence: burn the ticket unless the block already spent it.
ApplySlash(l, t) ==
  IF t \notin DOMAIN l.tickets THEN l
  ELSE [blocks |-> l.blocks,
        utxo |-> IF Unspent(l.utxo, t) THEN [l.utxo EXCEPT ![t] = MarkSpent(@)] ELSE l.utxo,
        index |-> IF Unspent(l.utxo, t) THEN IndexWithout(l, t) ELSE l.index,
        tickets |-> [o \in DOMAIN l.tickets \ {t} |-> l.tickets[o]],
        nonce |-> l.nonce, registry |-> l.registry, emitted |-> l.emitted,
        slashed |-> IF Unspent(l.utxo, t) THEN l.slashed + l.utxo[t].amount ELSE l.slashed,
        fees |-> l.fees, work |-> l.work]

\* Mutant: the slashed coins may be minted again.
SealBlockReminting(l, b) ==
  [blocks |-> Append(l.blocks, b), utxo |-> l.utxo, index |-> l.index, tickets |-> l.tickets,
   nonce |-> l.nonce, registry |-> l.registry,
   emitted |-> l.emitted + Minted(b) - (l.slashed - snap.slashed),
   slashed |-> l.slashed, fees |-> BlockFees(b), work |-> l.work + b.work]

\* Emission, the block itself and its work.
SealBlock(l, b) ==
  [blocks |-> Append(l.blocks, b), utxo |-> l.utxo, index |-> l.index, tickets |-> l.tickets,
   nonce |-> l.nonce, registry |-> l.registry, emitted |-> l.emitted + Minted(b),
   slashed |-> l.slashed, fees |-> BlockFees(b), work |-> l.work + b.work]

\* Mutant: the tickets are not among the restored members.
RestoreWithoutTickets(s) ==
  [blocks |-> s.blocks, utxo |-> s.utxo, index |-> s.index, tickets |-> led.tickets,
   nonce |-> s.nonce, registry |-> s.registry, emitted |-> s.emitted,
   slashed |-> s.slashed, fees |-> s.fees, work |-> s.work]

\* Both restores list every member; s is what was saved.
Restore(s) ==
  [blocks |-> s.blocks, utxo |-> s.utxo, index |-> s.index, tickets |-> s.tickets,
   nonce |-> s.nonce, registry |-> s.registry, emitted |-> s.emitted,
   slashed |-> s.slashed, fees |-> s.fees, work |-> s.work]

-----------------------------------------------------------------------------
Init ==
  /\ led = Genesis
  /\ call = "idle"
  /\ blk = NoBlock
  /\ pos = 0
  /\ snap = Genesis
  /\ old = Genesis
  /\ todo = <<>>
  /\ disk = <<>>
  /\ crashes = 0

\* The height add_block works at: applying_height_ while pos > 0.
Applying == Height(led) + 1

\* add_block passes its checks and takes its snapshots.
EnterAddBlock(b) ==
  /\ pos = 0
  /\ Height(led) < MaxHeight
  /\ BlockValid(led, b, Applying)
  /\ blk' = b
  /\ pos' = 1
  /\ snap' = led
  /\ UNCHANGED <<led, old, disk, crashes>>

\* notify_commit: save_chain writes the whole chain to a temporary file and
\* renames it; a failed save is only logged and leaves the previous file.
NotifyCommit(blocks) == disk' \in {blocks, disk}

\* A block from a peer, a miner or the pool (ingest_block, mine_block).
AddBlock(b) ==
  /\ call = "idle"
  /\ EnterAddBlock(b)
  /\ call' = "add"
  /\ UNCHANGED todo

ApplyTx ==
  /\ pos \in 1..NumTxs(blk)
  /\ Applies(led, TxAt(blk, Applying, pos), Applying)
  /\ led' = ApplyTransaction(led, TxAt(blk, Applying, pos), Applying)
  /\ pos' = pos + 1
  /\ UNCHANGED <<call, blk, snap, old, todo, disk, crashes>>

\* apply_transaction fails: add_block restores its snapshots and returns
\* false; replace_with_chain then restores the old chain, load_chain gives up.
RollBackBlock ==
  /\ pos \in 1..NumTxs(blk)
  /\ ~Applies(led, TxAt(blk, Applying, pos), Applying)
  /\ led' = IF call = "replace" THEN Restore(old) ELSE Restore(snap)
  /\ call' = IF call = "load" THEN "failed" ELSE "idle"
  /\ pos' = 0
  /\ blk' = NoBlock
  /\ snap' = Genesis
  /\ old' = Genesis
  /\ UNCHANGED <<todo, disk, crashes>>

\* The slashes follow the transactions.
SlashIndex == pos - NumTxs(blk)

SlashTicket ==
  /\ pos > 0
  /\ SlashIndex \in DOMAIN blk.slashes
  /\ led' = ApplySlash(led, blk.slashes[SlashIndex])
  /\ pos' = pos + 1
  /\ UNCHANGED <<call, blk, snap, old, todo, disk, crashes>>

SealsWithCommitAlways == TRUE

\* Commits are suppressed while replace_with_chain runs, and load_chain runs
\* before the commit hook is installed.
SealsWithCommit == call = "add"

FinishAddBlock ==
  /\ pos > 0
  /\ SlashIndex = Len(blk.slashes) + 1
  /\ led' = SealBlock(led, blk)
  /\ IF SealsWithCommit THEN NotifyCommit(led'.blocks) ELSE UNCHANGED disk
  /\ call' = IF call = "add" THEN "idle" ELSE call
  /\ pos' = 0
  /\ blk' = NoBlock
  /\ snap' = Genesis
  /\ UNCHANGED <<old, todo, crashes>>

(***************************************************************************)
(* replace_with_chain.  The candidate is any chain on the same genesis,    *)
(* chosen block by block: the choice ends with FinishReplace, or with a    *)
(* block that add_block refuses.                                           *)
(***************************************************************************)
\* Mutant: pubkey_registry_ survives the reset.
ResetKeepingKeys == [Genesis EXCEPT !.registry = led.registry]

Reset == Genesis

StartReplace ==
  /\ call = "idle"
  /\ Height(led) \in 1..MaxReplaceHeight
  /\ old' = led
  /\ led' = Reset
  /\ call' = "replace"
  /\ UNCHANGED <<blk, pos, snap, todo, disk, crashes>>

ReplayCandidateBlock(b) ==
  /\ call = "replace"
  /\ EnterAddBlock(b)
  /\ UNCHANGED <<call, todo>>

RestoreOldChain ==
  /\ led' = Restore(old)
  /\ UNCHANGED disk

\* Mutant: equal work is enough.
HeavierOrEqual == led.work >= old.work

Heavier == led.work > old.work

CandidateInvalid(b) ==
  /\ call = "replace" /\ pos = 0
  /\ ~BlockValid(led, b, Applying)
  /\ RestoreOldChain
  /\ call' = "idle"
  /\ old' = Genesis
  /\ UNCHANGED <<blk, pos, snap, todo, crashes>>

FinishReplace ==
  /\ call = "replace" /\ pos = 0
  /\ IF Heavier THEN led' = led /\ NotifyCommit(led.blocks) ELSE RestoreOldChain
  /\ call' = "idle"
  /\ old' = Genesis
  /\ UNCHANGED <<blk, pos, snap, todo, crashes>>

(***************************************************************************)
(* The process dies at any step; the data directory survives.  On restart  *)
(* load_chain replays the saved blocks; a block that does not replay is    *)
(* fatal ("chain load failed").                                            *)
(***************************************************************************)
Crash ==
  /\ call \notin {"down", "failed"}
  /\ crashes < MaxCrashes
  /\ led' = Genesis /\ snap' = Genesis /\ old' = Genesis
  /\ blk' = NoBlock /\ pos' = 0 /\ todo' = <<>>
  /\ call' = "down"
  /\ crashes' = crashes + 1
  /\ UNCHANGED disk

Restart ==
  /\ call = "down"
  /\ call' = "load"
  /\ todo' = disk
  /\ UNCHANGED <<led, blk, pos, snap, old, disk, crashes>>

LoadBlock ==
  /\ call = "load" /\ pos = 0 /\ todo # <<>>
  /\ IF BlockValid(led, Head(todo), Applying)
     THEN EnterAddBlock(Head(todo)) /\ UNCHANGED call /\ todo' = Tail(todo)
     ELSE call' = "failed" /\ UNCHANGED <<led, blk, pos, snap, old, todo, disk, crashes>>

FinishLoad ==
  /\ call = "load" /\ pos = 0 /\ todo = <<>>
  /\ call' = "idle"
  /\ UNCHANGED <<led, blk, pos, snap, old, todo, disk, crashes>>

\* The bound on heights is reached: the run may end here, the chain would go on.
Bounded ==
  /\ call = "idle" /\ Height(led) = MaxHeight
  /\ UNCHANGED vars

Next ==
  \/ \E b \in Blocks : AddBlock(b) \/ ReplayCandidateBlock(b) \/ CandidateInvalid(b)
  \/ ApplyTx \/ RollBackBlock \/ SlashTicket \/ FinishAddBlock
  \/ StartReplace \/ FinishReplace
  \/ Crash \/ Restart \/ LoadBlock \/ FinishLoad
  \/ Bounded

Spec == Init /\ [][Next]_vars

-----------------------------------------------------------------------------
(***************************************************************************)
(* Properties.  Predicates on a ledger l are stated for the current state  *)
(* and for the copies a rollback would bring back.                         *)
(***************************************************************************)
LedgerTypeOK(l) ==
  /\ l.blocks \in Seq(Blocks)
  /\ DOMAIN l.utxo \subseteq Outpoint /\ \A o \in DOMAIN l.utxo : l.utxo[o] \in Utxo
  /\ DOMAIN l.tickets \subseteq Outpoint /\ \A o \in DOMAIN l.tickets : l.tickets[o] \in Ticket
  /\ l.index \in [Address -> Nat]
  /\ l.nonce \in [Address -> Nat \cup {NoNonce}]
  /\ l.registry \subseteq Address
  /\ l.emitted \in Nat /\ l.slashed \in Nat /\ l.fees \in Nat /\ l.work \in Nat

TypeOK ==
  /\ LedgerTypeOK(led) /\ LedgerTypeOK(snap) /\ LedgerTypeOK(old)
  /\ call \in {"idle", "add", "replace", "load", "down", "failed"}
  /\ blk \in Blocks \cup {NoBlock}
  /\ pos \in Nat
  /\ pos > 0 => blk \in Blocks
  /\ todo \in Seq(Blocks) /\ disk \in Seq(Blocks)
  /\ crashes \in Nat

\* The hard cap: whatever blocks, rollbacks and chain replacements occur, no
\* state the node can be in has emitted more than max_supply.
EmissionCapped == led.emitted <= MaxSupply

\* add_block returns without a rollback when the block's mint no longer fits
\* after its transactions are applied (chain.cpp, "max supply exceeded" after
\* the slashes); that exit would leave a half-applied block and is never taken.
LateMintCheckHolds ==
  pos > NumTxs(blk) => Minted(blk) <= MaxMintableAt(led, Applying)

TicketsBackedBy(l) ==
  /\ DOMAIN l.tickets = {o \in DOMAIN l.utxo : l.utxo[o].owner = StakeAddress /\ ~l.utxo[o].spent}
  /\ \A o \in DOMAIN l.tickets :
       l.tickets[o].amount = l.utxo[o].amount /\ l.tickets[o].amount >= StakeMin

\* The ticket pool is exactly the set of unspent outputs to @stake: a spent or
\* slashed ticket never votes again, and no locked coin lacks its ticket.
TicketsAreStakeOutputs == TicketsBackedBy(led)

\* Every ticket a signer locked has its owner's key in the registry, so that its
\* votes can be verified although the lock may have omitted the key.
TicketKeysKnown ==
  \A o \in DOMAIN led.tickets :
    led.tickets[o].owner # NoSigner => led.tickets[o].owner \in led.registry

\* include/addition/staking.hpp: a stake output "becomes a ticket ... owned by
\* the tx signer, bound to the signer's ML-DSA-87 pubkey".
TicketsHaveSigners == \A o \in DOMAIN led.tickets : led.tickets[o].owner # NoSigner

UnspentCoins(l) ==
  SumFunctionOnSet(Amounts(l.utxo), {o \in DOMAIN l.utxo : ~l.utxo[o].spent})

\* No coin from nothing: between blocks, the unspent coins and the slashed ones
\* together never exceed what was emitted.
SupplyConserved == pos = 0 => UnspentCoins(led) + led.slashed <= led.emitted

BalanceOf(l, a) ==
  SumFunctionOnSet(Amounts(l.utxo), {o \in DOMAIN l.utxo : l.utxo[o].owner = a /\ ~l.utxo[o].spent})

\* balance_of answers from address_index_, which every path updates on its own
\* and which hides an underflow at 0; it always equals the owner's unspent sum.
IndexMatchesUtxo == \A a \in Address : led.index[a] = BalanceOf(led, a)

\* The state the blocks alone determine, in one pass without snapshots: l after
\* the first n steps of b, its transactions and then its slashes, and the state
\* after the first n blocks.
BlockSteps(b) == NumTxs(b) + Len(b.slashes)

BlockStep(l, b, h, i) ==
  IF i <= NumTxs(b) THEN ApplyTransaction(l, TxAt(b, h, i), h) ELSE ApplySlash(l, b.slashes[i - NumTxs(b)])

AfterSteps(l, b, n) ==
  LET after[i \in 0..n] == IF i = 0 THEN l ELSE BlockStep(after[i - 1], b, Height(l) + 1, i)
  IN  after[n]

ReplayBlock(l, b) == SealBlock(AfterSteps(l, b, BlockSteps(b)), b)

AfterBlocks(blocks, n) ==
  LET after[i \in 0..n] == IF i = 0 THEN Genesis ELSE ReplayBlock(after[i - 1], blocks[i])
  IN  after[n]

Replay(blocks) == AfterBlocks(blocks, Len(blocks))

\* After any history of blocks added, rolled back, replaced and reloaded, an
\* idle node's state is the one its blocks determine: nothing of an abandoned
\* block or chain survives, and two nodes with one chain agree.
StateIsReplayOfBlocks == call = "idle" => led = Replay(led.blocks)

ConfirmedOnce(blocks) ==
  \A g, h \in DOMAIN blocks : \A i \in DOMAIN blocks[g].txs, j \in DOMAIN blocks[h].txs :
    blocks[g].txs[i].id = blocks[h].txs[j].id => g = h /\ i = j

\* Each transaction confirms at most once on a chain.
NoTxConfirmedTwice == ConfirmedOnce(led.blocks)

Unbonds(t) ==
  \E o \in t.ins : \E u \in Txs : /\ u.id = o[1]
                                  /\ u.outs[o[2]].owner = StakeAddress

\* Coins released from a ticket stay frozen for UnbondDelay blocks: nothing in
\* the chain, the same block included, spends them earlier.
UnbondingRespected ==
  \A h \in DOMAIN led.blocks : \A g \in 1..h :
    \A i \in DOMAIN led.blocks[g].txs, j \in DOMAIN led.blocks[h].txs :
      LET t == led.blocks[g].txs[i]
          s == led.blocks[h].txs[j]
      IN  Unbonds(t) /\ s.ins \cap NewOutpoints(t) # {} => h >= g + UnbondDelay

\* A chain that was committed always loads again.
CommittedChainLoads == call # "failed"

WorkOf(blocks) == SumFunctionOnSet([i \in DOMAIN blocks |-> blocks[i].work], DOMAIN blocks)

\* The chain in the data directory only ever gives way to one with at least as
\* much work: no crash, failed save or lost replacement makes a node forget work.
SavedWorkNeverDecreases == [][WorkOf(disk') >= WorkOf(disk)]_vars

\* The chain a running node answers with between calls, and its work.
Chain == IF call = "replace" THEN old.blocks ELSE IF pos > 0 THEN snap.blocks ELSE led.blocks

ChainWork == IF call = "replace" THEN old.work ELSE IF pos > 0 THEN snap.work ELSE led.work

\* A running node changes its chain only for a strictly heavier one: of two
\* chains with equal work the first seen stays.
ChainChangesToHeavier ==
  [][{call, call'} \subseteq {"idle", "add", "replace"} =>
       Chain' = Chain \/ ChainWork' > ChainWork]_vars
=============================================================================
