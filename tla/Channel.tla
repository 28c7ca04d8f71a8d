------------------------------ MODULE Channel ------------------------------
(* One endpoint of a two-party payment channel, src/src/channel.cpp: the   *)
(* state kept by class Channel and the operations that change it, as       *)
(* operators from the endpoint's record to its next record.                *)
(*                                                                         *)
(* A channel state is its number and side a's balance; side b holds the    *)
(* rest of the capacity, so conservation of the capacity becomes the range *)
(* check of ValidateNext.  The HTLCs of a state are left out: every update *)
(* is a plain payment.  Revocation secrets and hashes are derived from a   *)
(* seed and the state number, so a number stands for both: an endpoint     *)
(* knows the set of numbers whose remote hash, or remote secret, it holds. *)
(* Signatures are perfect: a signature on a commitment is the fact that the *)
(* signer signed that state.                                               *)
EXTENDS Integers, FiniteSets

CONSTANTS Capacity,    \* Info::capacity
          Fee,         \* Info::fee, reserved on side a's balance
          MaxNumber    \* bound: the highest state number explored

ASSUME ChannelAssumption ==
    /\ Capacity \in Nat /\ Fee \in Nat /\ MaxNumber \in Nat
    /\ Fee <= Capacity

Sides == {"a", "b"}

Peer(p) == IF p = "a" THEN "b" ELSE "a"

ChanState == [n : 0 .. MaxNumber, bal_a : 0 .. Capacity]

\* an empty std::optional<State>, and an empty out_state string
None == [n |-> -1, bal_a |-> 0]

Balance(p, s) == IF p = "a" THEN s.bal_a ELSE Capacity - s.bal_a

\* The endpoint after the opening exchange of revocation hashes 0 and 1 and
\* of the signatures on state 0.
OpenedChannel(s0) ==
    [cur |-> s0, pending |-> None, remote_hashes |-> {0, 1}, remote_secrets |-> {},
     history |-> {}, abandoned |-> {}]

HasPending(c) == c.pending # None

AwaitingRemoteRevoke(c) == c.cur.n + 1 \notin c.remote_hashes

ValidateNext(c, next) ==
    /\ ~HasPending(c)
    /\ next.n = c.cur.n + 1
    /\ next.n \in c.remote_hashes
    /\ next.bal_a \in Fee .. Capacity

ReceiveCommitSig(c, next) == [c EXCEPT !.pending = next]

\* The current state is revoked and kept for the penalty; the pending one,
\* which the peer has signed, takes its place.
RevokeAndAdvance(c) ==
    [c EXCEPT !.history = @ \cup {c.cur}, !.cur = c.pending, !.pending = None]

LastRevoked(c) == IF c.cur.n = 0 THEN 0 ELSE c.cur.n - 1

NoteSignedAbandoned(c, s) == [c EXCEPT !.abandoned = @ \cup {s}]

\* Mutant: the signed state is dropped without a trace.
DropPendingForgotten(c) == [c EXCEPT !.pending = None]

\* The peer still holds our signature on the state: it is remembered.
DropPending(c) ==
    [c EXCEPT !.abandoned = @ \cup ({c.pending} \ {None}), !.pending = None]

\* The secret of state n and the hash of state n + 2 travel together.
CanReceiveRevoke(c, n) == n \in c.remote_hashes

ReceiveRevoke(c, n) ==
    [c EXCEPT !.remote_secrets = @ \cup {n}, !.remote_hashes = @ \cup {n + 2}]

\* classify_peer_update for a plain payment proposed to side p.
AcceptsPayment(p, c, next) == Balance(p, next) >= Balance(p, c.cur)

\* penalty_for: the commitment of the peer for state s can be punished.
CanPunish(c, s) ==
    /\ s.n \in c.remote_secrets
    /\ s.n \in c.remote_hashes
    /\ s \in c.history \cup c.abandoned
=============================================================================
