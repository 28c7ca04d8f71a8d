------------------------------ MODULE Dandelion ------------------------------
(***************************************************************************)
(* How a transaction leaves its node: Dandelion++ routing (dandelion.cpp), *)
(* the stem pool, its embargo and the flush loop (decentralized_node.cpp), *)
(* over a network that loses requests and answers, with nodes that crash.  *)
(*                                                                         *)
(* No block is mined here, so the mempool and seen_txids_ hold the same    *)
(* transactions: `fluffed`.  Queues are sets, for their order decides      *)
(* nothing.  A node releases its lock while it waits for a peer, so a      *)
(* flush is a process of its own; module Sync has the peers themselves.    *)
(***************************************************************************)
EXTENDS Naturals, FiniteSets, FiniteSetsExt

CONSTANTS Nodes,        \* endpoints
          IdOf,         \* the wire id a node gives when it calls: not an endpoint
          Peers,        \* per node, the endpoints outbound_relay_peers returns
          Origins, Txs, \* where users submit which transactions
          kMaxStempool, MaxEpochs, MaxFaults

VARIABLES router,       \* per node: diffuser, relays, source_to_relay, epochs used
          stempool, embargo_until, expired, stem_outbound,
          fluffed, outbound,
          flush,        \* per node: where the flush is and what it has left to send
          accepted,     \* node and transaction, once submit_transaction said yes
          faults

danVars == <<router, stempool, embargo_until, expired, stem_outbound, fluffed, outbound,
             flush, accepted, faults>>

Local == "local"
NoRelay == "none"
Sources == {Local} \union {IdOf[n] : n \in Nodes}

NewRouter == [diffuser |-> FALSE, relays |-> {}, source_to_relay |-> [s \in Sources |-> NoRelay], epoch |-> 0]

IdleFlush == [pc |-> "idle", queue |-> {}, msgs |-> {}]

\* What one node holds, as its handlers read and change it.
NodeState(n) ==
    [stempool |-> stempool[n], embargo |-> embargo_until[n], stem_out |-> stem_outbound[n],
     fluffed |-> fluffed[n], out |-> outbound[n], router |-> router[n]]

\* seen_txids_ makes a second fluff do nothing.
fluff_transaction(s, tx) ==
    IF tx \in s.fluffed THEN s
    ELSE [s EXCEPT !.fluffed = @ \union {tx}, !.out = @ \union {tx}]

\* The routers r can become: a new epoch flips the coin; relays are picked again in a
\* new epoch, and when one of them went away or there was none.
maybe_new_epoch(r, peers) ==
    LET picks == {c \in SUBSET peers : Cardinality(c) = (IF Cardinality(peers) < 2 THEN Cardinality(peers) ELSE 2)}
        again == ~(r.relays \subseteq peers) \/ (r.relays = {} /\ peers # {})
        Fresh(e, coin, c) == [diffuser |-> coin, relays |-> c,
                              source_to_relay |-> [s \in Sources |-> NoRelay], epoch |-> e]
    IN  {Fresh(r.epoch + 1, coin, c) : coin \in BOOLEAN, c \in picks}
        \union (IF r.epoch = 0 THEN {}
                ELSE IF again THEN {Fresh(r.epoch, r.diffuser, c) : c \in picks} ELSE {r})

\* The decisions for a transaction from source: <<router, fluff, relay>>.
route(router0, source, peers) ==
    UNION {LET c == r.relays \ {source}
               kept == r.source_to_relay[source]
           IN  IF (source # Local /\ r.diffuser) \/ c = {} THEN {<<r, TRUE, NoRelay>>}
               ELSE IF kept \in c THEN {<<r, FALSE, kept>>}
               ELSE {<<[r EXCEPT !.source_to_relay[source] = x], FALSE, x>> : x \in c}
           : r \in {q \in maybe_new_epoch(router0, peers) : q.epoch <= MaxEpochs}}

\* Mutant: the stemmed transaction gets no embargo timer.
StemUnembargoed(s, d, tx) ==
    [s EXCEPT !.router = d[1], !.stempool = @ \union {tx}, !.stem_out = @ \union {<<d[3], tx>>}]

Stem(s, d, tx) ==
    [s EXCEPT !.router = d[1], !.stempool = @ \union {tx}, !.embargo = @ \union {tx},
              !.stem_out = @ \union {<<d[3], tx>>}]

\* What a node becomes with a transaction to stem: a set, for the router draws.
stem_transaction(s, tx, source, peers) ==
    IF tx \in s.fluffed \/ tx \in s.stempool THEN {s}
    ELSE {IF d[2] \/ Cardinality(s.stempool) >= kMaxStempool
          THEN fluff_transaction([s EXCEPT !.router = d[1], !.embargo = @ \ {tx}], tx)
          ELSE Stem(s, d, tx)
          : d \in route(s.router, source, peers)}

\* TX|
ReceiveTx(s, tx) ==
    fluff_transaction([s EXCEPT !.stempool = @ \ {tx}, !.embargo = @ \ {tx}], tx)

---------------------------------------------------------------------------
DanInit ==
    /\ router = [n \in Nodes |-> NewRouter]
    /\ stempool = [n \in Nodes |-> {}] /\ embargo_until = [n \in Nodes |-> {}]
    /\ expired = [n \in Nodes |-> {}] /\ stem_outbound = [n \in Nodes |-> {}]
    /\ fluffed = [n \in Nodes |-> {}] /\ outbound = [n \in Nodes |-> {}]
    /\ flush = [n \in Nodes |-> IdleFlush]
    /\ accepted = {} /\ faults = 0

\* Nodes take the states that `becomes` gives for them.
Become(becomes) ==
    \E b \in {becomes} :
       LET Put(f, field) == [n \in Nodes |-> IF n \in DOMAIN b THEN b[n][field] ELSE f[n]]
       IN  /\ stempool' = Put(stempool, "stempool")
           /\ embargo_until' = Put(embargo_until, "embargo")
           /\ expired' = [n \in Nodes |-> IF n \in DOMAIN b THEN expired[n] \intersect b[n].embargo
                                          ELSE expired[n]]
           /\ stem_outbound' = Put(stem_outbound, "stem_out")
           /\ fluffed' = Put(fluffed, "fluffed")
           /\ outbound' = Put(outbound, "out")
           /\ router' = Put(router, "router")

\* wallet_send, sendtx and the other commands, at their submit_transaction.
Submit(n, tx) ==
    /\ n \in Origins /\ <<n, tx>> \notin accepted
    /\ \E s \in stem_transaction(NodeState(n), tx, Local, Peers[n]) : Become([m \in {n} |-> s])
    /\ accepted' = accepted \union {<<n, tx>>}
    /\ UNCHANGED <<flush, faults>>

\* Time: an embargo runs out.
Expire(n, tx) ==
    /\ tx \in embargo_until[n] \ expired[n]
    /\ expired' = [expired EXCEPT ![n] = @ \union {tx}]
    /\ UNCHANGED <<router, stempool, embargo_until, stem_outbound, fluffed, outbound, flush, accepted, faults>>

\* flush_stem up to its first request: expired embargoes are fluffed.
BeginFlush(n) ==
    LET s == NodeState(n)
        Fluff(tx, t) == IF tx \in t.stempool
                        THEN fluff_transaction([t EXCEPT !.stempool = @ \ {tx}], tx) ELSE t
        done == FoldSet(Fluff, [s EXCEPT !.embargo = @ \ expired[n], !.stem_out = {}], expired[n])
    IN  /\ flush[n].pc = "idle"
        /\ Become([m \in {n} |-> done])
        /\ flush' = [flush EXCEPT ![n] = [IdleFlush EXCEPT !.pc = "stem", !.queue = stem_outbound[n]]]
        /\ UNCHANGED <<accepted, faults>>

\* The relay did not answer: fluff.
StemFailed(s, tx) ==
    fluff_transaction([s EXCEPT !.stempool = @ \ {tx}, !.embargo = @ \ {tx}], tx)

\* Of the request and its answer one is lost, or neither.
Outcome(delivered, answered) ==
    /\ answered => delivered
    /\ ~answered => faults < MaxFaults
    /\ faults' = IF answered THEN faults ELSE faults + 1

\* One STEM request.  The relay handles it (delivered) and the answer arrives
\* (answered), or one of the two is lost.
SendStem(n, item, delivered, answered) ==
    LET relay == item[1]  tx == item[2]
        mine == IF answered THEN NodeState(n) ELSE StemFailed(NodeState(n), tx)
    IN  /\ flush[n].pc = "stem" /\ item \in flush[n].queue
        /\ Outcome(delivered, answered)
        /\ IF delivered
           THEN \E s \in stem_transaction(NodeState(relay), tx, IdOf[n], Peers[relay]) :
                   Become([m \in {n, relay} |-> IF m = n THEN mine ELSE s])
           ELSE Become([m \in {n} |-> mine])
        /\ flush' = [flush EXCEPT ![n].queue = @ \ {item}]
        /\ UNCHANGED accepted

\* flush_outbound_gossip after flush_stem: queued gossip, and the mempool once more.
BeginPush(n) ==
    /\ flush[n].pc = "stem" /\ flush[n].queue = {}
    /\ flush' = [flush EXCEPT ![n] = [pc |-> "push", queue |-> {},
                     msgs |-> Peers[n] \X (outbound[n] \union (fluffed[n] \ stempool[n]))]]
    /\ Become([m \in {n} |-> [NodeState(n) EXCEPT !.out = {}]])
    /\ UNCHANGED <<accepted, faults>>

\* One TX request; a peer that does not answer gets no more of this flush.
PushTx(n, msg, delivered, answered) ==
    LET peer == msg[1]  tx == msg[2]
    IN  /\ flush[n].pc = "push" /\ msg \in flush[n].msgs
        /\ Outcome(delivered, answered)
        /\ IF delivered
           THEN Become([m \in {peer} |-> ReceiveTx(NodeState(peer), tx)])
           ELSE UNCHANGED <<router, stempool, embargo_until, expired, stem_outbound, fluffed, outbound>>
        /\ flush' = [flush EXCEPT ![n].msgs =
                        IF answered THEN @ \ {msg} ELSE {x \in @ : x[1] # peer}]
        /\ UNCHANGED accepted

EndFlush(n) ==
    /\ flush[n].pc = "push" /\ flush[n].msgs = {}
    /\ flush' = [flush EXCEPT ![n] = IdleFlush]
    /\ UNCHANGED <<router, stempool, embargo_until, expired, stem_outbound, fluffed, outbound, accepted, faults>>

\* The node restarts with nothing: neither pool is on disk.
Crash(n) ==
    /\ faults < MaxFaults
    /\ faults' = faults + 1
    /\ Become([m \in {n} |-> [stempool |-> {}, embargo |-> {}, stem_out |-> {}, fluffed |-> {},
                              out |-> {}, router |-> NewRouter]])
    /\ flush' = [flush EXCEPT ![n] = IdleFlush]
    /\ accepted' = {a \in accepted : a[1] # n}

FlushStep(n) ==
    \/ BeginFlush(n) \/ BeginPush(n) \/ EndFlush(n)
    \/ \E item \in flush[n].queue, delivered, answered \in BOOLEAN : SendStem(n, item, delivered, answered)
    \/ \E msg \in flush[n].msgs, delivered, answered \in BOOLEAN : PushTx(n, msg, delivered, answered)

DanNext ==
    \E n \in Nodes :
       \/ \E tx \in Txs : Submit(n, tx) \/ Expire(n, tx)
       \/ FlushStep(n)
       \/ Crash(n)

DanSpec == DanInit /\ [][DanNext]_danVars

\* The loop in main flushes for ever, clocks run, and a request ends one way or the
\* other; losses and crashes are finitely many.
DanFairness ==
    \A n \in Nodes :
       /\ WF_danVars(FlushStep(n))
       /\ \A tx \in Txs : WF_danVars(Expire(n, tx))

DanFairSpec == DanSpec /\ DanFairness

---------------------------------------------------------------------------
\* A transaction whose node said yes and did not crash reaches every node: through the
\* stem, or past a relay that lost it, when the embargo runs out.
Underway(n, tx) == <<n, tx>> \in accepted /\ \E m \in Nodes : tx \notin fluffed[m]
EventuallyEverywhere == \A n \in Origins, tx \in Txs : []<>~Underway(n, tx)

\* What the comment in DandelionRouter::route says: "never stem back".
NeverStemsBack ==
    \A n \in Nodes : \A m \in Nodes : router[n].source_to_relay[IdOf[m]] # m
=============================================================================
