------------------------------- MODULE MCNode -------------------------------
(***************************************************************************)
(* The parts of a running node and of nodes among themselves, checked side *)
(* by side: a behaviour picks one part and leaves the variables of the     *)
(* others alone.  The search for a nonce and the socket server are here    *)
(* under their own names, the others as instances.                         *)
(***************************************************************************)
EXTENDS Integers, Sequences, FiniteSets, PowSearch, Connections

CONSTANTS
    Parts,          \* the parts a run is about
    Rotators        \* the nodes whose operators rotate keys

VARIABLES
    part,
    \* of Mempool and Mining
    tip, pool, seen_txids, job, file, events,
    \* of Votes
    visited, vote_pool, seen_stake_votes, vote_watch, slash_reported, pending_slashes, auto,
    published, fallen, left, steps,
    \* of PeerTable
    peers, score, banned, backoff, candidates, handshake_ok, peer_pubkeys, pinned,
    seen_nonces, hello_cache, dialing, calls, faulted,
    \* of Rotation
    node_public_key, node_private_key, pending_rotation, seen_rotation_ids, seen_votes,
    outbound, elapsed, proposed, cast, broadcasts,
    \* of Forwarding
    ep, node,
    \* of PmRelay
    relay, expire_at, got,
    \* of two of them
    chain, now, faults

Tx(id, signer, n, fee, outs, inputs, nullifiers, bundle) ==
    [id |-> id, signer |-> signer, nonce |-> n, fee |-> fee, outs |-> outs, inputs |-> inputs,
     nullifiers |-> nullifiers, bundle |-> bundle, authorised |-> TRUE]

\* a pays twice, b spends a coin of the second payment, z a note of the first.
PayOne == Tx("a1", "a", 1, 1, 1, {"c1"}, {"n1"}, TRUE)
PayTwo == Tx("a2", "a", 2, 2, 1, {"c2"}, {}, FALSE)
Rival  == Tx("b1", "b", 1, 1, 1, {"c2"}, {}, FALSE)
Note   == Tx("z1", "none", 0, 1, 0, {}, {"n1"}, TRUE)

\* One miner, a reorganisation or a stop; two miners without.
A == INSTANCE Mining WITH
       Txs <- {PayOne, PayTwo, Note}, Miners <- {"m1"}, MaxTxs <- {2}, Rooms <- {1, 2}, QuorumFrom <- 2,
       MaxHeight <- 2, MaxEvents <- 1, PeerTxs <- {<<>>, <<PayOne>>, <<Rival>>}

B == INSTANCE Mining WITH
       Txs <- {PayOne, PayTwo}, Miners <- {"m1", "m2"}, MaxTxs <- {2}, Rooms <- {1, 2}, QuorumFrom <- 2,
       MaxHeight <- 2, MaxEvents <- 0, PeerTxs <- {<<>>, <<Rival>>}

V == INSTANCE Votes WITH
       Own <- {"o"}, Others <- {"p"}, Hashes <- {"A", "B"}, Seating <- [A |-> <<"o", "p">>, B |-> <<"p", "o">>],
       VotesPerBlock <- 1, MaxHeight <- 2, MaxSteps <- 3

P == INSTANCE PeerTable WITH
       Labels <- {"s", "p", "q"}, Order <- [s |-> 1, p |-> 2, q |-> 3], Seeds <- {"s"}, Keys <- {"k1", "k2"},
       max_peers <- 2, max_candidates <- 1, kMaxScore <- 1, kMinScore <- -3, kBanScore <- -2,
       ban_seconds <- 2, backoff_seconds <- 1, kHelloCacheSeconds <- 2, MaxTime <- 3, MaxCalls <- 4

K == INSTANCE Rotation WITH
       Nodes <- {"x", "y"}, Proposers <- Rotators, OldKey <- [x |-> "ox", y |-> "oy"],
       NewKey <- [x |-> "nx", y |-> "ny"], MaxVotes <- [x |-> 0, y |-> 1]

\* Payments in opposite directions through m.
H == INSTANCE Forwarding WITH
       Nodes <- {"p", "m", "q"}, Chans <- {"c1", "c2"}, SideA <- [c1 |-> "p", c2 |-> "m"],
       SideB <- [c1 |-> "m", c2 |-> "q"], Payments <- {"x", "y"}, Payer <- [x |-> "p", y |-> "q"],
       Route <- [x |-> <<"c1", "c2">>, y |-> <<"c2", "c1">>], Invoiced <- {"x", "y"},
       MaxFaults <- 1, MaxQueue <- 3

\* One message among three nodes; two messages and a directory between two.
Lists == [k1 |-> "u", k2 |-> "v"]

M == INSTANCE PmRelay WITH
       Relays <- {"x", "y", "z"}, Peers <- [x |-> {"y", "z"}, y |-> {"x", "z"}, z |-> {"x", "y"}],
       Ids <- {"a"}, Author <- [a |-> "x"], Home <- [a |-> "y"], Size <- [a |-> 1], Ttl <- 2,
       kMaxMessages <- 1, kMaxStoreBytes <- 1, Packages <- {}, Owner <- Lists, Created <- Lists, Expires <- Lists,
       MaxTime <- 0, MaxFaults <- 1

N == INSTANCE PmRelay WITH
       Relays <- {"x", "y"}, Peers <- [x |-> {"y"}, y |-> {"x"}],
       Ids <- {"a", "b"}, Author <- [a |-> "x", b |-> "y"], Home <- [a |-> "y", b |-> "x"],
       Size <- [a |-> 1, b |-> 2], Ttl <- 2, kMaxMessages <- 2, kMaxStoreBytes <- 2,
       Packages <- {"k1", "k2"}, Owner <- Lists, Created <- [k1 |-> 0, k2 |-> 1],
       Expires <- [k1 |-> 2, k2 |-> 3], MaxTime <- 2, MaxFaults <- 1

\* Two addresses, one of which may have one connection and the other two.
Origin == [a |-> "l", b |-> "l", c |-> "r", d |-> "r"]
PerAddress == [l |-> 1, r |-> 2]

poolState == <<tip, pool, seen_txids, job, file, events>>
voteState == <<visited, vote_pool, seen_stake_votes, vote_watch, slash_reported,
    pending_slashes, auto, published, fallen, left, steps>>
peerState == <<peers, score, banned, backoff, candidates, handshake_ok, peer_pubkeys,
    pinned, seen_nonces, hello_cache, dialing, calls, faulted>>
keyState == <<node_public_key, node_private_key, pending_rotation, seen_rotation_ids,
    seen_votes, outbound, elapsed, proposed, cast, broadcasts>>
htlcState == <<ep, node>>
relayState == <<relay, expire_at, got>>

vars == <<part, chain, now, faults, poolState, powVars, voteState, peerState, keyState, htlcState, relayState, connVars>>

NoPool ==
    tip = 0 /\ pool = 0 /\ seen_txids = 0 /\ job = 0 /\ file = 0 /\ events = 0
\* A search nothing happens to
NoSearch ==
    PowInit /\ threads = 1 /\ golden = {}
NoVotes ==
    visited = 0 /\ vote_pool = 0 /\ seen_stake_votes = 0 /\ vote_watch = 0 /\
    slash_reported = 0 /\ pending_slashes = 0 /\ auto = 0 /\ published = 0 /\ fallen = 0
    /\ left = 0 /\ steps = 0
NoPeers ==
    peers = 0 /\ score = 0 /\ banned = 0 /\ backoff = 0 /\ candidates = 0 /\
    handshake_ok = 0 /\ peer_pubkeys = 0 /\ pinned = 0 /\ seen_nonces = 0 /\ hello_cache
    = 0 /\ dialing = 0 /\ calls = 0 /\ faulted = 0
NoKeys ==
    node_public_key = 0 /\ node_private_key = 0 /\ pending_rotation = 0 /\
    seen_rotation_ids = 0 /\ seen_votes = 0 /\ outbound = 0 /\ elapsed = 0 /\ proposed =
    0 /\ cast = 0 /\ broadcasts = 0
NoHtlcs ==
    ep = 0 /\ node = 0
NoRelay ==
    relay = 0 /\ expire_at = 0 /\ got = 0

Init ==
    /\ part \in Parts
    /\ CASE part = "alone" -> A!Init [] part = "mining" -> B!Init [] OTHER -> NoPool
    /\ IF part = "pow" THEN PowInit ELSE NoSearch
    /\ IF part = "votes" THEN V!VoteInit ELSE NoVotes
    /\ IF part = "peers" THEN P!PeerInit ELSE NoPeers
    /\ IF part = "rotation" THEN K!RotInit ELSE NoKeys
    /\ IF part = "forwarding" THEN H!FwdInit ELSE NoHtlcs
    /\ CASE part = "relay" -> M!PmInit [] part = "directory" -> N!PmInit [] OTHER -> NoRelay
    /\ ConnInit
    /\ part \notin {"alone", "mining", "votes"} => chain = 0
    /\ part \notin {"peers", "relay", "directory"} => now = 0
    /\ part \notin {"forwarding", "relay", "directory"} => faults = 0

Next ==
    /\ UNCHANGED part
    /\ \/ /\ ((part = "alone" /\ A!Next) \/ (part = "mining" /\ B!Next))
          /\ UNCHANGED <<now, faults, powVars, voteState, peerState, keyState, htlcState, relayState, connVars>>
       \/ /\ part = "pow" /\ PowNext
          /\ UNCHANGED <<chain, now, faults, poolState, voteState, peerState, keyState, htlcState, relayState, connVars>>
       \/ /\ part = "votes" /\ V!VoteNext
          /\ UNCHANGED <<now, faults, poolState, powVars, peerState, keyState, htlcState, relayState, connVars>>
       \/ /\ part = "peers" /\ P!PeerNext
          /\ UNCHANGED <<chain, faults, poolState, powVars, voteState, keyState, htlcState, relayState, connVars>>
       \/ /\ part = "rotation" /\ K!RotNext
          /\ UNCHANGED <<chain, now, faults, poolState, powVars, voteState, peerState, htlcState, relayState, connVars>>
       \/ /\ part = "forwarding" /\ H!FwdNext
          /\ UNCHANGED <<chain, now, poolState, powVars, voteState, peerState, keyState, relayState, connVars>>
       \/ /\ ((part = "relay" /\ M!PmNext) \/ (part = "directory" /\ N!PmNext))
          /\ UNCHANGED <<chain, poolState, powVars, voteState, peerState, keyState, htlcState, connVars>>
       \/ /\ part = "sockets" /\ ConnNext
          /\ UNCHANGED <<chain, now, faults, poolState, powVars, voteState, peerState, keyState, htlcState, relayState>>

Spec == Init /\ [][Next]_vars

---------------------------------------------------------------------------
(* The properties of the parts, each for the behaviours of its part.       *)

\* The mempool's indexes are those of its pending transactions.
PoolIndexesExact == (part = "alone" => A!PoolIndexesExact) /\ (part = "mining" => B!PoolIndexesExact)

\* On an unchanged chain a miner searches a nonce for a block add_block accepts.
SearchIsNotWasted == (part = "alone" => A!SearchIsNotWasted) /\ (part = "mining" => B!SearchIsNotWasted)

\* A running node loses no valid transaction that nothing conflicts with.
NothingLost == [][(part = "alone" => A!LossStep) /\ (part = "mining" => B!LossStep)]_vars

\* A node votes twice at a height only after its tip fell or it restarted.
ConflictsOnlyAfterFall == part = "votes" => V!ConflictsOnlyAfterFall

\* The votes and evidence a miner puts into a block pass the chain's check, and the
\* evidence of a double vote stays pending while its ticket is live.
StakingSectionIsRight == part = "votes" => V!StakingSectionValidates /\ V!EvidenceIsKept

\* Through handshakes that end late: only misbehaviour is banned and a banned peer is
\* not in the table, no seed is evicted, and an authenticated peer has the pinned key.
TableIsSound == part = "peers" => P!BansHold /\ P!SeedsStay /\ P!AuthenticatedIsPinned

\* Keys change hands lawfully: a node's only to one that a quorum voted for, and a
\* live entry of the message directory stays with its owner.
IdentityIsKept ==
    [][(part = "rotation" => K!QuorumStep) /\ (part = "directory" => N!IndexStep)]_vars

\* A node can sign for the key it shows.
KeysArePaired == part = "rotation" => K!KeysArePaired

\* A forwarder that has paid downstream is paid upstream, or still means to claim.
ClaimIsKept == part = "forwarding" => H!ClaimIsKept

\* One incoming HTLC is forwarded by one outgoing HTLC, whose settlement is led back.
ForwardsAreLinked == part = "forwarding" => H!ForwardedOnce /\ H!SettlementTravelsBack

\* What the payer's node reports of a payment is what happened.
StatusIsTrue == part = "forwarding" => H!StatusIsTrue

\* A deletion follows its message to every node the message went to; and the store
\* of messages counts its bytes right and stays below its bound.
StoreIsRight ==
    /\ part = "relay" => M!DeletionIsChased /\ M!StoreIsAccounted
    /\ part = "directory" => N!DeletionIsChased /\ N!StoreIsAccounted
=============================================================================
