-------------------------------- MODULE Votes --------------------------------
(***************************************************************************)
(* Stake votes in one node (decentralized_node.cpp): the pool of votes on  *)
(* the tip, the watch for tickets that vote twice at one height, and the   *)
(* local auto-voter, while blocks arrive, the chain gives way to a heavier *)
(* one and the process restarts.  Module Ledger has what blocks do to      *)
(* tickets; here a block burns or unlocks any of them, and another chain   *)
(* has any of them.                                                        *)
(*                                                                         *)
(* A tip is a height and a hash.  A heavier chain may be a lower one:      *)
(* sync_once compares heights before it waits for the candidate's blocks,  *)
(* and the chain grows meanwhile.  No tip comes back, for the work of the  *)
(* chain always grows.                                                     *)
(***************************************************************************)
EXTENDS Naturals, Sequences, FiniteSets, SequencesExt

CONSTANTS Own, Others,      \* tickets of the auto-vote key and of anyone else
          Hashes,
          Seating,          \* per hash, the tickets in the order the draw takes them
          VotesPerBlock,
          MaxHeight, MaxSteps

VARIABLES chain, visited,   \* the tip with its live tickets; the tips so far
          vote_pool, seen_stake_votes, vote_watch, slash_reported, pending_slashes,
          auto,             \* auto_vote_keys_ holds the key of Own
          published,        \* the votes handed to gossip, in all runs of the process
          fallen,           \* heights at which a tip came after a higher one or a restart
          left,             \* tickets that were reported and have been off the chain since
          steps

voteVars == <<chain, visited, vote_pool, seen_stake_votes, vote_watch, slash_reported,
              pending_slashes, auto, published, fallen, left, steps>>

Tickets == Own \union Others

Vote(id, height, hash, approve, signed) ==
    [ticket_id |-> id, voted_height |-> height, voted_hash |-> hash, approve |-> approve, signed |-> signed]

\* What the functions below read and change of the node.
Node == [pool |-> vote_pool, seen |-> seen_stake_votes, watch |-> vote_watch,
         reported |-> slash_reported, slashes |-> pending_slashes, out |-> {}]

Conflict(a, b) ==
    /\ a.ticket_id = b.ticket_id /\ a.voted_height = b.voted_height
    /\ a.voted_hash # b.voted_hash \/ a.approve # b.approve

---------------------------------------------------------------------------
(* The rules of Chain, on a tip c.                                         *)

selected_tickets_for_next_block(c) ==
    LET live == SelectSeq(Seating[c.hash], LAMBDA id : id \in c.tickets)
    IN  SubSeq(live, 1, IF Len(live) < VotesPerBlock THEN Len(live) ELSE VotesPerBlock)

verify_vote_signature_only(c, v) == v.ticket_id \in c.tickets /\ v.signed

verify_stake_vote(c, v) ==
    /\ v.voted_height = c.height /\ v.voted_hash = c.hash
    /\ v.ticket_id \in ToSet(selected_tickets_for_next_block(c))
    /\ verify_vote_signature_only(c, v)

usable_votes_for_next_block(c, pool) ==
    {v \in pool : v.approve /\ verify_stake_vote(c, v)}

validate_slash(c, ev) ==
    /\ Conflict(ev.a, ev.b)
    /\ verify_vote_signature_only(c, ev.a) /\ verify_vote_signature_only(c, ev.b)

\* The votes and slashes of a block on c, without the quorum and the rewards.
validate_block_staking(c, votes, slashes) ==
    /\ \A ev \in slashes : validate_slash(c, ev)
    /\ \A x, y \in slashes : x.a.ticket_id = y.a.ticket_id => x = y
    /\ Cardinality(votes) <= Len(selected_tickets_for_next_block(c))
    /\ \A v \in votes : verify_stake_vote(c, v)
    /\ \A x, y \in votes : x.ticket_id = y.ticket_id => x = y

---------------------------------------------------------------------------
(* The node's functions: n is the node's members, c the tip.               *)

\* Mutant: evidence goes when the tip passes its height, like a vote.
prune_vote_poolByHeight(n, c) ==
    [n EXCEPT !.pool = {v \in @ : v.voted_height >= c.height},
              !.slashes = {ev \in @ : ev.a.voted_height >= c.height}]

prune_vote_pool(n, c) ==
    [n EXCEPT !.pool = {v \in @ : v.voted_height >= c.height},
              !.slashes = {ev \in @ : ev.a.ticket_id \in c.tickets}]

\* Mutant: evidence against a ticket is queued as often as it is found.
observe_vote_for_equivocationAgain(n, c, v) ==
    LET key == <<v.ticket_id, v.voted_height>>
        No(m) == [node |-> m, yes |-> FALSE]
        ev == [a |-> n.watch[key], b |-> v]
    IN  IF ~verify_vote_signature_only(c, v) THEN No(n)
        ELSE IF n.watch[key] = <<>> THEN No([n EXCEPT !.watch[key] = v])
        ELSE IF ~Conflict(n.watch[key], v) THEN No(n)
        ELSE [node |-> [n EXCEPT !.reported = @ \union {v.ticket_id}, !.slashes = @ \union {ev},
                                 !.out = @ \union {ev.a, ev.b}],
              yes |-> TRUE]

\* The result is TRUE when the vote conflicts with the first one at its height.
observe_vote_for_equivocation(n, c, v) ==
    LET key == <<v.ticket_id, v.voted_height>>
        Answer(m, yes) == [node |-> m, yes |-> yes]
        ev == [a |-> n.watch[key], b |-> v]
    IN  IF ~verify_vote_signature_only(c, v) THEN Answer(n, FALSE)
        ELSE IF n.watch[key] = <<>> THEN Answer([n EXCEPT !.watch[key] = v], FALSE)
        ELSE IF ~Conflict(n.watch[key], v) THEN Answer(n, FALSE)
        ELSE IF v.ticket_id \in n.reported THEN Answer(n, TRUE)
        ELSE IF ~validate_slash(c, ev) THEN Answer(n, FALSE)
        ELSE Answer([n EXCEPT !.reported = @ \union {v.ticket_id}, !.slashes = @ \union {ev},
                              !.out = @ \union {ev.a, ev.b}], TRUE)

usable_slash_evidence(n, c) == {ev \in n.slashes : validate_slash(c, ev)}

submit_stake_vote(n, c, v) ==
    LET seen == observe_vote_for_equivocation(prune_vote_pool(n, c), c, v)
    IN  IF \/ seen.yes
           \/ v.voted_height # c.height
           \/ v \in seen.node.seen
           \/ ~verify_stake_vote(c, v)
        THEN seen.node
        ELSE [seen.node EXCEPT !.seen = @ \union {v}, !.pool = @ \union {v}, !.out = @ \union {v}]

\* Mutant: only a vote for this very tip counts as already cast.
AlreadyOnThisTip(n, c, id) ==
    \E p \in n.pool : p.ticket_id = id /\ p.voted_height = c.height /\ p.voted_hash = c.hash

\* "Never sign a second, conflicting vote at this height"
Already(n, c, id) == \E p \in n.pool : p.ticket_id = id /\ p.voted_height = c.height

\* The auto-voter votes for every drawn ticket of its key that has not voted.  It
\* announces a vote it finds in the pool again, which adds nothing to `published`.
refresh_local_votes(n, c, on) ==
    LET Cast(m, id) ==
          IF id \notin Own \/ Already(m, c, id) THEN m
          ELSE submit_stake_vote(m, c, Vote(id, c.height, c.hash, TRUE, TRUE))
    IN  IF ~on THEN n ELSE FoldLeft(Cast, n, selected_tickets_for_next_block(c))

---------------------------------------------------------------------------
VoteInit ==
    /\ chain = [height |-> 1, hash |-> CHOOSE h \in Hashes : TRUE, tickets |-> Tickets]
    /\ visited = {<<chain.height, chain.hash>>}
    /\ vote_pool = {} /\ seen_stake_votes = {}
    /\ vote_watch = [k \in Tickets \X (1..MaxHeight) |-> <<>>]
    /\ slash_reported = {} /\ pending_slashes = {}
    /\ auto \in BOOLEAN
    /\ published = {} /\ fallen = {} /\ left = {} /\ steps = 0

Becomes(n) ==
    /\ vote_pool' = n.pool /\ seen_stake_votes' = n.seen /\ vote_watch' = n.watch
    /\ slash_reported' = n.reported /\ pending_slashes' = n.slashes
    /\ published' = published \union n.out

Step == steps < MaxSteps /\ steps' = steps + 1

\* The chain moves to a tip c it never had.
MovesTo(c) ==
    /\ <<c.height, c.hash>> \notin visited
    /\ chain' = c
    /\ visited' = visited \union {<<c.height, c.hash>>}
    /\ fallen' = fallen \union {h \in {c.height} : \E x \in visited : x[1] > h}
    /\ left' = left \union (slash_reported' \ c.tickets)

\* Votes of others: anything they sign, and votes in our name that we did not sign.
PeerVotes == {Vote(id, h, x, approve, id \in Others) :
                 id \in Tickets, h \in 1..MaxHeight, x \in Hashes, approve \in BOOLEAN}

\* SVOTE of a peer, vote_submit, and our own votes coming back.
ReceiveVote(v) ==
    /\ Step
    /\ Becomes(submit_stake_vote(Node, chain, v))
    /\ UNCHANGED <<chain, visited, auto, fallen, left>>

\* ingest_block: the votes in the block are watched even when it does not connect.
IngestBlock(votes, connects, hash, tickets) ==
    LET watched == FoldSet(LAMBDA v, n : observe_vote_for_equivocation(n, chain, v).node, Node, votes)
        c == [height |-> chain.height + 1, hash |-> hash, tickets |-> tickets]
    IN  /\ Step
        /\ IF connects
           THEN /\ c.height <= MaxHeight
                /\ Becomes(refresh_local_votes(watched, c, auto)) /\ MovesTo(c)
           ELSE Becomes(watched) /\ UNCHANGED <<chain, visited, fallen, left>>
        /\ UNCHANGED auto

\* sync_once after fetch_blocks_from_peer replaced the chain.
SyncReorg(height, hash, tickets) ==
    LET c == [height |-> height, hash |-> hash, tickets |-> tickets]
    IN  /\ Step
        /\ Becomes(refresh_local_votes(Node, c, auto))
        /\ MovesTo(c)
        /\ UNCHANGED auto

\* The miner's vote source.
RefreshVotes ==
    /\ Becomes(refresh_local_votes(Node, chain, auto))
    /\ UNCHANGED <<chain, visited, auto, fallen, left, steps>>

\* stake_autovote
SetAutoVote(on) ==
    /\ Step /\ auto # on
    /\ auto' = on
    /\ Becomes(refresh_local_votes(Node, chain, on))
    /\ UNCHANGED <<chain, visited, fallen, left>>

\* Everything but the chain is forgotten.
Restart ==
    /\ Step
    /\ vote_pool' = {} /\ seen_stake_votes' = {} /\ slash_reported' = {} /\ pending_slashes' = {}
    /\ vote_watch' = [k \in Tickets \X (1..MaxHeight) |-> <<>>]
    /\ auto' = FALSE
    /\ fallen' = 1..chain.height
    /\ left' = {}
    /\ UNCHANGED <<chain, visited, published>>

VoteNext ==
    \/ \E v \in PeerVotes \union published : ReceiveVote(v)
    \/ \E v \in PeerVotes :
          \/ IngestBlock({v}, FALSE, chain.hash, {})
          \/ \E hash \in Hashes, tickets \in SUBSET chain.tickets : IngestBlock({v}, TRUE, hash, tickets)
    \/ \E height \in 1..MaxHeight, hash \in Hashes, tickets \in SUBSET Tickets :
          SyncReorg(height, hash, tickets)
    \/ RefreshVotes \/ Restart
    \/ \E on \in BOOLEAN : SetAutoVote(on)

VoteSpec == VoteInit /\ [][VoteNext]_voteVars

---------------------------------------------------------------------------
OwnConflicts == {v \in published : v.ticket_id \in Own /\ \E w \in published : Conflict(v, w)}

\* The auto-voter publishes conflicting votes, which burn its ticket, only at a
\* height the chain fell back to, or had voted at before a restart.
ConflictsOnlyAfterFall == \A v \in OwnConflicts : v.voted_height \in fallen

\* What the comment in refresh_local_votes says: "Never sign a second, conflicting
\* vote at this height (equivocation burns the ticket)."
NeverConflicts == OwnConflicts = {}

\* The votes and the evidence the node hands its miner pass validate_block_staking:
\* no block is mined in vain because of what gossip put into the pools.
StakingSectionValidates ==
    validate_block_staking(chain, usable_votes_for_next_block(chain, vote_pool),
                           usable_slash_evidence(Node, chain))

\* An equivocation the node has seen stays ready for its miner as long as the ticket
\* has not left the chain in between.
EvidenceIsKept ==
    \A id \in slash_reported \ left :
       id \in chain.tickets => \E ev \in usable_slash_evidence(Node, chain) : ev.a.ticket_id = id
=============================================================================
