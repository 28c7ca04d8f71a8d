------------------------------- MODULE MCLive -------------------------------
(***************************************************************************)
(* What must eventually happen, in the three loops that repeat until it    *)
(* does: rchan_tick, the gossip flush and sync_once.  A behaviour picks    *)
(* one of them and leaves the variables of the others alone.               *)
(***************************************************************************)
EXTENDS Naturals, Sequences, FiniteSets

VARIABLES
    part,
    rc, disk, call, late, signed, revealed, budget, used,          \* of RemoteChannel
    router, stempool, embargo_until, expired, stem_outbound,       \* of Dandelion
    fluffed, flush, accepted,
    tip, seen_block_hashes, sync, mined,                           \* of Sync
    outbound, faults                                               \* of both

C == INSTANCE RemoteChannel WITH
       Capacity <- 4, Fee <- 1, MaxNumber <- 3, Start <- 3, Proposers <- {"a"},
       Budgets <- {[number |-> 3, amounts |-> {1, 2}, proposals |-> 3, rollbacks |-> 0,
                    faults |-> 2, late |-> 0, crashes |-> 1]}

\* Three nodes in a line, of which the first has a transaction.
D == INSTANCE Dandelion WITH
       Nodes <- {"e1", "e2", "e3"}, Origins <- {"e1"}, Txs <- {"t"},
       IdOf <- [e1 |-> "i1", e2 |-> "i2", e3 |-> "i3"],
       Peers <- [e1 |-> {"e2"}, e2 |-> {"e1", "e3"}, e3 |-> {"e2"}],
       kMaxStempool <- 2, MaxEpochs <- 1, MaxFaults <- 1

\* Two branches, of which one has more work at each height.
Branches == [g |-> <<"g">>, a1 |-> <<"g", "a1">>, a2 |-> <<"g", "a1", "a2">>,
             b1 |-> <<"g", "b1">>, b2 |-> <<"g", "b1", "b2">>]

S == INSTANCE Sync WITH
       Nodes <- {"x", "y"}, Syncers <- {"x"}, Blocks <- DOMAIN Branches, Genesis <- "g",
       PathTo <- Branches, Weight <- [g |-> 0, a1 |-> 1, a2 |-> 1, b1 |-> 2, b2 |-> 1],
       InvLimit <- 3, Lonely <- TRUE, MaxFaults <- 1

channelState == <<rc, disk, call, late, signed, revealed, budget, used>>
stemState == <<router, stempool, embargo_until, expired, stem_outbound, fluffed, flush, accepted>>
chainState == <<tip, seen_block_hashes, sync, mined>>
vars == <<part, channelState, stemState, chainState, outbound, faults>>

NoChannel ==
    rc = 0 /\ disk = 0 /\ call = 0 /\ late = 0 /\ signed = 0 /\ revealed = 0 /\ budget = 0 /\ used = 0
NoStem ==
    /\ router = 0 /\ stempool = 0 /\ embargo_until = 0 /\ expired = 0 /\ stem_outbound = 0
    /\ fluffed = 0 /\ flush = 0 /\ accepted = 0
NoChain == tip = 0 /\ seen_block_hashes = 0 /\ sync = 0 /\ mined = 0

Init ==
    /\ part \in {"channel", "gossip", "sync"}
    /\ IF part = "channel" THEN C!Init /\ outbound = 0 /\ faults = 0 ELSE NoChannel
    /\ IF part = "gossip" THEN D!DanInit ELSE NoStem
    /\ IF part = "sync" THEN S!SyncInit ELSE NoChain

Next ==
    /\ UNCHANGED part
    /\ \/ part = "channel" /\ C!Next /\ UNCHANGED <<stemState, chainState, outbound, faults>>
       \/ part = "gossip" /\ D!DanNext /\ UNCHANGED <<channelState, chainState>>
       \/ part = "sync" /\ S!SyncNext /\ UNCHANGED <<channelState, stemState>>

\* The fairness of each part: RemoteChannel's Fairness, DanFairness, SyncFairSpec's.
Fairness ==
    /\ \A p \in {"a", "b"} :
          /\ WF_channelState(part = "channel" /\ C!Resume(p))
          /\ WF_channelState(part = "channel" /\ C!DriveContinues(p))
          /\ WF_channelState(part = "channel" /\ C!TickSync(p))
          /\ WF_channelState(part = "channel" /\ C!SyncContinues(p))
          /\ WF_channelState(part = "channel" /\ C!RollbackContinues(p))
          /\ \A t \in C!Calls : WF_channelState(part = "channel" /\ C!Deliver(p, t))
    /\ \A n \in {"e1", "e2", "e3"} :
          /\ WF_<<stemState, outbound, faults>>(part = "gossip" /\ D!FlushStep(n))
          /\ WF_<<stemState, outbound, faults>>(part = "gossip" /\ D!Expire(n, "t"))
    /\ WF_<<chainState, outbound, faults>>(part = "sync" /\ S!SyncStep("x"))

Spec == Init /\ [][Next]_vars /\ Fairness

---------------------------------------------------------------------------
\* Interrupted channel updates are resumed until both nodes are at the same state.
EventuallySettled == <>[](part = "channel" => C!Settled)

\* A transaction reaches every node, though a relay loses it or sends it back.
EventuallyEverywhere == []<>(part = "gossip" => ~D!Underway("e1", "t"))

\* No peer keeps a heavier and higher chain to itself.
SyncConverges == []<>(part = "sync" => ~S!Behind("x"))
=============================================================================
