-------------------------------- MODULE Sync --------------------------------
(***************************************************************************)
(* Blocks between nodes (decentralized_node.cpp): gossip of new blocks     *)
(* and the synchronization loop, which asks a peer for its work, its       *)
(* height, an inventory and blocks, one request at a time.  The node's     *)
(* lock is free during each request, so both chains may move between any   *)
(* two of them.  Requests are lost; nodes restart.                         *)
(*                                                                         *)
(* A chain is named by its last block; PathTo gives its blocks from the    *)
(* genesis on.  Block validation is module Ledger's: here a block fits     *)
(* exactly its parent.  Scores, bans and handshakes are module PeerTable's.*)
(***************************************************************************)
EXTENDS Integers, Sequences, FiniteSets, SequencesExt

CONSTANTS Nodes,
          Syncers,        \* nodes that run the loop; the others only answer
          Blocks, Genesis, PathTo, Weight,
          InvLimit,       \* blocks per inventory: 24 in the code
          Lonely,         \* TRUE: a node that does not sync moves to any heavier chain
          MaxFaults

VARIABLES tip, seen_block_hashes, outbound, sync, mined, faults

syncVars == <<tip, seen_block_hashes, outbound, sync, mined, faults>>

height(b) == Len(PathTo[b]) - 1
block_at(b, h) == PathTo[b][h + 1]
Parent(b) == PathTo[b][Len(PathTo[b]) - 1]
cumulative_work(b) == FoldLeft(LAMBDA w, x : w + Weight[x], 0, PathTo[b])

Heavier(a, b) == cumulative_work(a) > cumulative_work(b)

Idle == [pc |-> "idle", peer |-> "none", todo |-> {}, remote_h |-> 0, idle_rounds |-> 0,
         before |-> 0, wanted |-> <<>>, got |-> <<>>]

---------------------------------------------------------------------------
(* c is [tip, seen, out], what the functions change of a node.             *)

Chain(n) == [tip |-> tip[n], seen |-> seen_block_hashes[n], out |-> outbound[n]]

\* Mutant: a block that does not connect stays in seen_block_hashes_.
ingest_blockRemembering(c, b) ==
    IF b \in c.seen THEN [c |-> c, ok |-> TRUE]
    ELSE IF Parent(b) # c.tip THEN [c |-> [c EXCEPT !.seen = @ \union {b}], ok |-> FALSE]
    ELSE [c |-> [tip |-> b, seen |-> c.seen \union {b}, out |-> c.out \union {b}], ok |-> TRUE]

ingest_block(c, b) ==
    IF b \in c.seen THEN [c |-> c, ok |-> TRUE]
    ELSE IF Parent(b) # c.tip THEN [c |-> c, ok |-> FALSE]
    ELSE [c |-> [tip |-> b, seen |-> c.seen \union {b}, out |-> c.out \union {b}], ok |-> TRUE]

\* The candidate must be one chain from the genesis on, and heavier; its blocks
\* then count as seen (fetch_blocks_from_peer).
replace_with_chain(c, candidate) ==
    LET last == candidate[Len(candidate)]
    IN  IF PathTo[last] = candidate /\ Heavier(last, c.tip)
        THEN [c |-> [c EXCEPT !.tip = last, !.seen = @ \union ToSet(candidate)], ok |-> TRUE]
        ELSE [c |-> c, ok |-> FALSE]

\* The loop over the pipelined answers: it stops at the first block that fails.
IngestAnswers(c0, blocks) ==
    LET One(r, b) ==
          IF r.stopped \/ height(b) <= height(r.c.tip) THEN r
          ELSE LET i == ingest_block(r.c, b)
               IN  [c |-> i.c, any |-> r.any \/ i.ok, stopped |-> ~i.ok]
    IN  FoldLeft(One, [c |-> c0, any |-> FALSE, stopped |-> FALSE], blocks)

---------------------------------------------------------------------------
SyncInit ==
    /\ tip = [n \in Nodes |-> Genesis]
    /\ seen_block_hashes = [n \in Nodes |-> {}]
    /\ outbound = [n \in Nodes |-> {}]
    /\ sync = [n \in Nodes |-> Idle]
    /\ mined = {Genesis} /\ faults = 0

Put(n, c) ==
    /\ tip' = [tip EXCEPT ![n] = c.tip]
    /\ seen_block_hashes' = [seen_block_hashes EXCEPT ![n] = c.seen]
    /\ outbound' = [outbound EXCEPT ![n] = c.out]

\* mine, with its announce_tip.
Mine(n, b) ==
    /\ b \in Blocks \ mined /\ Parent(b) = tip[n]
    /\ mined' = mined \union {b}
    /\ Put(n, [tip |-> b, seen |-> seen_block_hashes[n] \union {b}, out |-> outbound[n] \union {b}])
    /\ UNCHANGED <<sync, faults>>

\* A peer whose own syncing is left out has come to another chain.
Moves(n, b) ==
    /\ Lonely /\ n \notin Syncers /\ Heavier(b, tip[n])
    /\ tip' = [tip EXCEPT ![n] = b]
    /\ mined' = mined \union ToSet(PathTo[b])
    /\ UNCHANGED <<seen_block_hashes, outbound, sync, faults>>

\* The flush loop pushes BLK| to the peers, each of which gets it or not.
Gossip(n, b, reached) ==
    /\ b \in outbound[n] /\ reached \subseteq Nodes \ {n}
    /\ LET after == [m \in reached |-> ingest_block(Chain(m), b).c]
           Of(f, g) == [m \in Nodes |-> IF m \in reached THEN g[m] ELSE f[m]]
       IN  /\ tip' = Of(tip, [m \in reached |-> after[m].tip])
           /\ seen_block_hashes' = Of(seen_block_hashes, [m \in reached |-> after[m].seen])
           /\ outbound' = [Of(outbound, [m \in reached |-> after[m].out]) EXCEPT ![n] = @ \ {b}]
    /\ UNCHANGED <<sync, mined, faults>>

To(n, s) == sync' = [sync EXCEPT ![n] = s]
KeepChains == UNCHANGED <<tip, seen_block_hashes, outbound>>

\* The next peer of this sync_once.
Done(n) == To(n, [Idle EXCEPT !.todo = sync[n].todo])

\* sync_once begins with all peers, and goes on with the next.
NextPeer(n, p) ==
    /\ n \in Syncers /\ sync[n].pc = "idle"
    /\ LET todo == IF sync[n].todo = {} THEN Nodes \ {n} ELSE sync[n].todo
       IN  p \in todo /\ To(n, [Idle EXCEPT !.pc = "work", !.peer = p, !.todo = todo \ {p}])
    /\ KeepChains /\ UNCHANGED <<mined, faults>>

\* REQWORK
AskWork(n) ==
    /\ sync[n].pc = "work"
    /\ IF Heavier(tip[sync[n].peer], tip[n]) THEN To(n, [sync[n] EXCEPT !.pc = "height"]) ELSE Done(n)
    /\ KeepChains /\ UNCHANGED <<mined, faults>>

\* REQH
AskHeight(n) ==
    LET h == height(tip[sync[n].peer])
    IN  /\ sync[n].pc = "height"
        /\ IF h <= height(tip[n]) THEN Done(n)
           ELSE To(n, [sync[n] EXCEPT !.pc = "inv", !.remote_h = h, !.before = height(tip[n])])
        /\ KeepChains /\ UNCHANGED <<mined, faults>>

\* REQINV from one below the tip: the answer is compared with the chain, and either the
\* missing blocks or, when a block differs, the peer's whole chain is asked for.
AskInventory(n) ==
    LET s == sync[n]
        theirs == tip[s.peer]  mine == tip[n]
        from == IF height(mine) > 0 THEN height(mine) - 1 ELSE 0
        inv == {h \in from..(from + InvLimit - 1) : h <= height(theirs)}
        differs == \E h \in inv : h <= height(mine) /\ block_at(theirs, h) # block_at(mine, h)
        wanted == SetToSortSeq({h \in inv : h > height(mine)}, LAMBDA x, y : x < y)
    IN  /\ s.pc = "inv"
        /\ To(n, IF differs THEN [s EXCEPT !.pc = "reqh"]
                 ELSE IF wanted = <<>> THEN [s EXCEPT !.pc = "refresh"]
                 ELSE [s EXCEPT !.pc = "blocks", !.wanted = wanted, !.got = <<>>])
        /\ KeepChains /\ UNCHANGED <<mined, faults>>

\* One of the pipelined REQBLK; a height the peer no longer has is an error answer.
AskBlock(n) ==
    LET s == sync[n]  theirs == tip[s.peer]  h == Head(s.wanted)
    IN  /\ s.pc = "blocks" /\ s.wanted # <<>>
        /\ To(n, IF h <= height(theirs)
                 THEN [s EXCEPT !.wanted = Tail(@), !.got = Append(@, block_at(theirs, h))]
                 ELSE [s EXCEPT !.wanted = <<>>])
        /\ KeepChains /\ UNCHANGED <<mined, faults>>

\* All answers are in, or the connection is gone (short): the blocks are ingested.
IngestPipeline(n, short) ==
    LET s == sync[n]
        r == IngestAnswers(Chain(n), s.got)
    IN  /\ s.pc = "blocks" /\ (s.wanted = <<>> \/ short)
        /\ Put(n, r.c)
        /\ IF (r.stopped \/ short) /\ ~r.any THEN Done(n)
           ELSE To(n, [s EXCEPT !.pc = "refresh", !.wanted = <<>>, !.got = <<>>])
        /\ UNCHANGED mined

\* REQH of the reorganization, then REQBLK from 0 on.
AskReorgHeight(n) ==
    LET s == sync[n]  h == height(tip[s.peer])
    IN  /\ s.pc = "reqh"
        /\ To(n, [s EXCEPT !.pc = "chain", !.got = <<>>, !.wanted = [i \in 1..(h + 1) |-> i - 1]])
        /\ KeepChains /\ UNCHANGED <<mined, faults>>

AskChainBlock(n) ==
    LET s == sync[n]  theirs == tip[s.peer]  h == Head(s.wanted)
    IN  /\ s.pc = "chain" /\ s.wanted # <<>>
        /\ IF h <= height(theirs)
           THEN To(n, [s EXCEPT !.wanted = Tail(@), !.got = Append(@, block_at(theirs, h))])
           ELSE Done(n)
        /\ KeepChains /\ UNCHANGED <<mined, faults>>

Reorganize(n) ==
    LET s == sync[n]
        r == replace_with_chain(Chain(n), s.got)
    IN  /\ s.pc = "chain" /\ s.wanted = <<>>
        /\ Put(n, r.c)
        /\ IF r.ok THEN To(n, [s EXCEPT !.pc = "refresh", !.got = <<>>]) ELSE Done(n)
        /\ UNCHANGED <<mined, faults>>

\* The end of a round: two rounds without a new block end the loop.
GoOn(s, h, mine) ==
    LET stalls == IF mine = s.before THEN s.idle_rounds + 1 ELSE 0
    IN  IF stalls < 2 /\ mine < h
        THEN [s EXCEPT !.pc = "inv", !.remote_h = h, !.before = mine, !.idle_rounds = stalls]
        ELSE [Idle EXCEPT !.todo = s.todo]

\* REQH once more; an answer that is lost leaves the old height.
Refresh(n, answered) ==
    LET s == sync[n]
    IN  /\ s.pc = "refresh"
        /\ To(n, GoOn(s, IF answered THEN height(tip[s.peer]) ELSE s.remote_h, height(tip[n])))
        /\ KeepChains /\ UNCHANGED mined

\* A lost request: every place but the pipeline and the refresh gives the peer up.
Lost(n) ==
    /\ faults < MaxFaults /\ faults' = faults + 1
    /\ \/ /\ sync[n].pc \in {"work", "height", "inv", "reqh", "chain"}
          /\ Done(n) /\ KeepChains /\ UNCHANGED mined
       \/ IngestPipeline(n, TRUE)
       \/ Refresh(n, FALSE)

\* The chain is on disk, everything else is not.
Restart(n) ==
    /\ faults < MaxFaults /\ faults' = faults + 1
    /\ Put(n, [tip |-> tip[n], seen |-> {}, out |-> {}])
    /\ To(n, Idle)
    /\ UNCHANGED mined

SyncStep(n) ==
    \/ \E p \in Nodes : NextPeer(n, p)
    \/ AskWork(n) \/ AskHeight(n) \/ AskInventory(n) \/ AskBlock(n)
    \/ IngestPipeline(n, FALSE) /\ UNCHANGED faults
    \/ AskReorgHeight(n) \/ AskChainBlock(n) \/ Reorganize(n)
    \/ Refresh(n, TRUE) /\ UNCHANGED faults

SyncNext ==
    \E n \in Nodes :
       \/ \E b \in Blocks : Mine(n, b) \/ Moves(n, b)
       \/ \E b \in outbound[n], reached \in SUBSET (Nodes \ {n}) : Gossip(n, b, reached)
       \/ SyncStep(n) \/ Lost(n) \/ Restart(n)

SyncSpec == SyncInit /\ [][SyncNext]_syncVars

\* The loop in main runs sync_once for ever, and a request comes to an end.
SyncFairSpec == SyncSpec /\ \A n \in Syncers : WF_syncVars(SyncStep(n))

---------------------------------------------------------------------------
\* A chain that is both heavier and higher than a node's does not stay unknown to it:
\* when mining ends, no peer keeps such a chain to itself.
Behind(n) == \E p \in Nodes : Heavier(tip[p], tip[n]) /\ height(tip[p]) > height(tip[n])
SyncConverges == \A n \in Syncers : []<>~Behind(n)
=============================================================================
