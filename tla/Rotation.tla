------------------------------ MODULE Rotation ------------------------------
(***************************************************************************)
(* The staged rotation of a node's identity key (decentralized_node.cpp):  *)
(* the proposal, its announcement and the votes in gossip, and the commit  *)
(* after the grace period with a quorum of peers and self.                 *)
(*                                                                         *)
(* Every node is every other's peer.  A rotation is named by its new       *)
(* public key; a private key is named by the public key it belongs to.     *)
(* Signatures hold: forged announcements and votes are refused before they *)
(* change anything.                                                        *)
(***************************************************************************)
EXTENDS Naturals, FiniteSets

CONSTANTS Nodes,
          Proposers,               \* nodes whose operators rotate
          OldKey, NewKey,          \* per node, its first key and the one it rotates to
          MaxVotes                 \* per node, how often it broadcasts a vote

VARIABLES node_public_key, node_private_key, pending_rotation, seen_rotation_ids,
          seen_votes, outbound,
          elapsed,                 \* rotations whose grace period is over
          proposed,                \* nodes whose operator proposed and has not committed
          cast, broadcasts         \* votes anyone cast: voter and rotation; how many

rotVars == <<node_public_key, node_private_key, pending_rotation, seen_rotation_ids,
             seen_votes, outbound, elapsed, proposed, cast, broadcasts>>

NoKey == "none"
NoRotation == [id |-> NoKey, private |-> NoKey, votes |-> {}]

Announcement(id) == [type |-> "IDROTATE", id |-> id, voter |-> NoKey]
VoteMessage(id, n) == [type |-> "IDVOTE", id |-> id, voter |-> n]

Needed == (2 * Cardinality(Nodes)) \div 3 + 1     \* of peers and self

RotInit ==
    /\ node_public_key = OldKey /\ node_private_key = OldKey
    /\ pending_rotation = [n \in Nodes |-> NoRotation]
    /\ seen_rotation_ids = [n \in Nodes |-> {}] /\ seen_votes = [n \in Nodes |-> {}]
    /\ outbound = [n \in Nodes |-> {}]
    /\ elapsed = {} /\ proposed = {} /\ cast = {}
    /\ broadcasts = [n \in Nodes |-> 0]

\* identity_rotate_propose
propose_identity_rotation(n) ==
    /\ n \in Proposers \ proposed /\ node_public_key[n] = OldKey[n]
    /\ pending_rotation' = [pending_rotation EXCEPT ![n] =
                               [id |-> NewKey[n], private |-> NewKey[n], votes |-> {n}]]
    /\ outbound' = [outbound EXCEPT ![n] = @ \union {Announcement(NewKey[n])}]
    /\ proposed' = proposed \union {n}
    /\ cast' = cast \union {<<n, NewKey[n]>>}
    /\ UNCHANGED <<node_public_key, node_private_key, seen_rotation_ids, seen_votes, elapsed, broadcasts>>

\* identity_rotate_vote: the operator enters a peer's vote, which that peer has cast.
vote_identity_rotation(n, voter) ==
    /\ pending_rotation[n] # NoRotation
    /\ <<voter, pending_rotation[n].id>> \in cast
    /\ pending_rotation' = [pending_rotation EXCEPT ![n].votes = @ \union {voter}]
    /\ UNCHANGED <<node_public_key, node_private_key, seen_rotation_ids, seen_votes, outbound,
                   elapsed, proposed, cast, broadcasts>>

\* identity_rotate_vote_broadcast
broadcast_identity_rotation_vote(n) ==
    LET id == pending_rotation[n].id
    IN  /\ pending_rotation[n] # NoRotation /\ broadcasts[n] < MaxVotes[n]
        /\ broadcasts' = [broadcasts EXCEPT ![n] = @ + 1]
        /\ pending_rotation' = [pending_rotation EXCEPT ![n].votes = @ \union {n}]
        /\ outbound' = [outbound EXCEPT ![n] = @ \union {VoteMessage(id, n)}]
        /\ cast' = cast \union {<<n, id>>}
        /\ UNCHANGED <<node_public_key, node_private_key, seen_rotation_ids, seen_votes, elapsed, proposed>>

\* IDROTATE: the first announcement of a rotation replaces whatever is pending, and
\* an announcement does not bring the private key.
Announced(n, id) ==
    IF id \in seen_rotation_ids[n] THEN pending_rotation[n]
    ELSE [id |-> id, private |-> NoKey, votes |-> {}]

ReceiveAnnouncement(n, m) ==
    /\ pending_rotation' = [pending_rotation EXCEPT ![n] = Announced(n, m.id)]
    /\ outbound' = [outbound EXCEPT ![n] = @ \union ({m} \ {Announcement(id) : id \in seen_rotation_ids[n]})]
    /\ seen_rotation_ids' = [seen_rotation_ids EXCEPT ![n] = @ \union {m.id}]
    /\ UNCHANGED seen_votes

\* Mutant: the vote counts for whatever rotation is pending.
FitsPendingAny(n, m) == pending_rotation[n] # NoRotation

FitsPending(n, m) == pending_rotation[n] # NoRotation /\ m.id = pending_rotation[n].id

\* IDVOTE: the vote counts whenever it fits; it is passed on the first time.
ReceiveVote(n, m) ==
    /\ FitsPending(n, m)
    /\ pending_rotation' = [pending_rotation EXCEPT ![n].votes = @ \union {m.voter}]
    /\ outbound' = [outbound EXCEPT ![n] = @ \union ({m} \ seen_votes[n])]
    /\ seen_votes' = [seen_votes EXCEPT ![n] = @ \union {m}]
    /\ UNCHANGED seen_rotation_ids

\* A queued message reaches a peer: relay_rotation_messages_to_peer, or the flush.
Relay(n, m, peer) ==
    /\ m \in outbound[n] /\ peer # n
    /\ IF m.type = "IDROTATE" THEN ReceiveAnnouncement(peer, m) ELSE ReceiveVote(peer, m)
    /\ UNCHANGED <<node_public_key, node_private_key, elapsed, proposed, cast, broadcasts>>

\* pull_outbound_messages: a flush empties the queue, and what it did not deliver is lost.
pull_outbound_messages(n) ==
    /\ outbound[n] # {}
    /\ outbound' = [outbound EXCEPT ![n] = {}]
    /\ UNCHANGED <<node_public_key, node_private_key, pending_rotation, seen_rotation_ids,
                   seen_votes, elapsed, proposed, cast, broadcasts>>

GraceElapses(id) ==
    /\ \E n \in Nodes : pending_rotation[n].id = id
    /\ id # NoKey /\ id \notin elapsed
    /\ elapsed' = elapsed \union {id}
    /\ UNCHANGED <<node_public_key, node_private_key, pending_rotation, seen_rotation_ids,
                   seen_votes, outbound, proposed, cast, broadcasts>>

\* identity_rotate_commit, by an operator who has proposed.
commit_identity_rotation(n) ==
    LET r == pending_rotation[n]
    IN  /\ n \in proposed
        /\ r # NoRotation /\ r.id \in elapsed /\ Cardinality(r.votes) >= Needed
        /\ node_public_key' = [node_public_key EXCEPT ![n] = r.id]
        /\ node_private_key' = [node_private_key EXCEPT ![n] = r.private]
        /\ pending_rotation' = [pending_rotation EXCEPT ![n] = NoRotation]
        /\ proposed' = proposed \ {n}
        /\ UNCHANGED <<seen_rotation_ids, seen_votes, outbound, elapsed, cast, broadcasts>>

RotNext ==
    \/ \E n \in Nodes :
          \/ propose_identity_rotation(n) \/ broadcast_identity_rotation_vote(n)
          \/ commit_identity_rotation(n)
          \/ GraceElapses(NewKey[n]) \/ pull_outbound_messages(n)
          \/ \E voter \in Nodes : vote_identity_rotation(n, voter)
          \/ \E m \in outbound[n] : \E peer \in Nodes : Relay(n, m, peer)

RotSpec == RotInit /\ [][RotNext]_rotVars

---------------------------------------------------------------------------
\* A node changes its key only to one that a quorum of the nodes voted for, though
\* announcements and votes cross and replace one another.
QuorumStep ==
    \A n \in Nodes : node_public_key'[n] # node_public_key[n] =>
       Cardinality({v \in Nodes : <<v, node_public_key'[n]>> \in cast}) >= Needed

\* After the switch the node can sign for the key it shows: "Final switch by
\* `identity_rotate_commit`".
KeysArePaired == \A n \in Nodes : node_private_key[n] = node_public_key[n]
=============================================================================
