----------------------------- MODULE PeerTable ------------------------------
(***************************************************************************)
(* The peers of a node: the table with its scores, bans, backoffs and      *)
(* candidates (p2p.cpp), and the handshakes that pin a peer's key          *)
(* (handle_inbound_message, handshake_with_peer).  A peer is a label: an   *)
(* endpoint the node dials or the id a caller gives.                       *)
(***************************************************************************)
EXTENDS Integers, FiniteSets, FiniteSetsExt, Functions

CONSTANTS Labels,          \* in the order in which ties are broken
          Order,           \* of a label, for the ties
          Seeds, Keys,
          max_peers, max_candidates, kMaxScore, kMinScore, kBanScore,
          ban_seconds, backoff_seconds, kHelloCacheSeconds,
          MaxTime, MaxCalls

VARIABLES peers, score, banned, backoff, candidates,      \* of PeerNetwork
          handshake_ok, peer_pubkeys, pinned, seen_nonces,
          hello_cache,                                    \* 0, or when the cached HELLO ends
          dialing,                                        \* HELLOs under way
          now, calls,
          faulted                                         \* labels that misbehaved

netVars == <<peers, score, banned, backoff, candidates>>
keyVars == <<handshake_ok, peer_pubkeys, pinned, seen_nonces, hello_cache>>
peerVars == <<netVars, keyVars, dialing, now, calls, faulted>>

NoKey == "none"
NoScore == kMaxScore + 1       \* a label without an entry in score_

---------------------------------------------------------------------------
(* PeerNetwork: w is [peers, score, banned, backoff, candidates].          *)

Net == [peers |-> peers, score |-> score, banned |-> banned, backoff |-> backoff,
        candidates |-> candidates]

banned_locked(w, e) == w.banned[e] > now
ScoreOf(w, e) == IF w.score[e] = NoScore THEN 0 ELSE w.score[e]

\* Mutant: the worst peer goes, seed or not.
EvictableOfAll(w) == w.peers

Evictable(w) == w.peers \ Seeds

\* The lowest score goes, of several the first label, until there is room.
evict_if_full_locked(w) ==
    LET worst == CHOOSE e \in Evictable(w) : \A d \in Evictable(w) :
                    \/ ScoreOf(w, e) < ScoreOf(w, d)
                    \/ ScoreOf(w, e) = ScoreOf(w, d) /\ Order[e] <= Order[d]
    IN  IF Cardinality(w.peers) < max_peers \/ Evictable(w) = {} THEN w
        ELSE [w EXCEPT !.peers = @ \ {worst}, !.score[worst] = NoScore]

\* <<new state, result>>
add_peer(w, e) ==
    LET freed == evict_if_full_locked([w EXCEPT !.banned[e] = 0])
    IN  IF banned_locked(w, e) THEN <<w, FALSE>>
        ELSE IF e \in w.peers THEN <<[w EXCEPT !.banned[e] = 0], FALSE>>
        ELSE IF Cardinality(freed.peers) >= max_peers THEN <<freed, FALSE>>
        ELSE <<[freed EXCEPT !.score[e] = ScoreOf(freed, e), !.peers = @ \union {e},
                             !.candidates = @ \ {e}], TRUE>>

add_candidate(w, e) ==
    IF e \in w.peers \/ banned_locked(w, e) \/ Cardinality(w.candidates) >= max_candidates THEN w
    ELSE [w EXCEPT !.candidates = @ \union {e}]

promote_candidate(w, e) ==
    IF e \notin w.candidates THEN w ELSE add_peer([w EXCEPT !.candidates = @ \ {e}], e)[1]

mark_peer_good(w, e) ==
    IF e \notin w.peers THEN w
    ELSE [w EXCEPT !.score[e] = Min({kMaxScore, ScoreOf(w, e) + 1}), !.backoff[e] = 0]

mark_peer_bad(w, e) ==
    LET sc == Max({kMinScore, ScoreOf(w, e) - 1})
    IN  IF e \notin w.peers THEN w
        ELSE IF sc > kBanScore THEN [w EXCEPT !.score[e] = sc]
        ELSE IF e \in Seeds
        THEN [w EXCEPT !.backoff[e] = now + backoff_seconds, !.score[e] = kBanScore + 2]
        ELSE [w EXCEPT !.banned[e] = now + ban_seconds, !.peers = @ \ {e}, !.score[e] = NoScore]

mark_peer_unreachable(w, e) ==
    LET sc == Max({kMinScore, ScoreOf(w, e) - 1})
    IN  IF e \notin w.peers THEN w
        ELSE IF sc > kBanScore THEN [w EXCEPT !.score[e] = sc]
        ELSE [w EXCEPT !.backoff[e] = now + backoff_seconds, !.score[e] = kBanScore + 1]

\* Mutant: a handshake lifts every ban.
readmit_authenticatedBanned(w, e) ==
    [w EXCEPT !.backoff[e] = 0,
              !.peers = IF Cardinality(@) < max_peers THEN @ \union {e} ELSE @,
              !.score[e] = Max({0, ScoreOf(w, e)})]

\* A handshake ends the backoff; a ban for misbehaviour stands.
readmit_authenticated(w, e) ==
    IF banned_locked(w, e) THEN [w EXCEPT !.backoff[e] = 0]
    ELSE [w EXCEPT !.backoff[e] = 0, !.banned[e] = 0,
                   !.peers = IF Cardinality(@) < max_peers THEN @ \union {e} ELSE @,
                   !.score[e] = Max({0, ScoreOf(w, e)})]

select_peers(w) == {e \in w.peers : w.backoff[e] <= now}

---------------------------------------------------------------------------
PeerInit ==
    /\ peers = Seeds /\ score = [e \in Labels |-> IF e \in Seeds THEN 0 ELSE NoScore]
    /\ banned = [e \in Labels |-> 0] /\ backoff = [e \in Labels |-> 0] /\ candidates = {}
    /\ handshake_ok = [e \in Labels |-> FALSE] /\ peer_pubkeys = [e \in Labels |-> NoKey]
    /\ pinned = [e \in Labels |-> NoKey] /\ seen_nonces = [e \in Labels |-> {}]
    /\ hello_cache = [e \in Labels |-> 0]
    /\ dialing = {} /\ now = 1 /\ calls = 0 /\ faulted = {}

Becomes(w) ==
    /\ peers' = w.peers /\ score' = w.score /\ banned' = w.banned
    /\ backoff' = w.backoff /\ candidates' = w.candidates

Call == calls < MaxCalls /\ calls' = calls + 1 /\ UNCHANGED now

Tick == now < MaxTime /\ now' = now + 1 /\ UNCHANGED <<netVars, keyVars, dialing, calls, faulted>>

\* Every inbound line enters the caller into the table, unless it is banned or
\* the table is full.
Entered(e) == IF e \in peers THEN <<Net, TRUE>> ELSE add_peer(Net, e)

Misbehaves(w, e) == Becomes(mark_peer_bad(w, e)) /\ faulted' = faulted \union {e}

Refused(e) ==
    /\ Call
    /\ ~Entered(e)[2]
    /\ Becomes(Entered(e)[1]) /\ UNCHANGED <<keyVars, dialing, faulted>>

\* Mutant: a HELLO is checked against the key it brings only.
FitsPinAny(e, key) == TRUE

FitsPin(e, key) == pinned[e] \in {NoKey, key}

\* HELLO: wrong in its fields or signature (valid), with a key other than the
\* pinned one, repeated, or answered with HELLO_ACK.
Hello(e, key, nonce, valid) ==
    LET w == Entered(e)[1]
    IN  /\ Call /\ Entered(e)[2]
        /\ IF ~valid \/ ~FitsPin(e, key) \/ nonce \in seen_nonces[e]
           THEN /\ Misbehaves(w, e)
                /\ handshake_ok' = [handshake_ok EXCEPT ![e] = FALSE]
                /\ UNCHANGED <<peer_pubkeys, pinned, seen_nonces>>
           ELSE /\ Becomes(mark_peer_good(readmit_authenticated(w, e), e))
                /\ seen_nonces' = [seen_nonces EXCEPT ![e] = @ \union {nonce}]
                /\ peer_pubkeys' = [peer_pubkeys EXCEPT ![e] = key]
                /\ pinned' = [pinned EXCEPT ![e] = IF @ = NoKey THEN key ELSE @]
                /\ handshake_ok' = [handshake_ok EXCEPT ![e] = TRUE]
                /\ UNCHANGED faulted
        /\ UNCHANGED <<hello_cache, dialing>>

\* Any other message: over the rate limit, before a handshake, good, one that its
\* handler scores as misbehaviour, or one it refuses without a score.
Message(e, kind) ==
    LET w == Entered(e)[1]
    IN  /\ Call /\ Entered(e)[2]
        /\ \/ kind \in {"limited", "bad"} /\ Misbehaves(w, e)
           \/ kind = "good" /\ handshake_ok[e] /\ Becomes(mark_peer_good(w, e)) /\ UNCHANGED faulted
           \/ kind = "neutral" /\ Becomes(w) /\ UNCHANGED faulted
           \/ kind = "advertise" /\ handshake_ok[e]
              /\ \E c \in Labels : Becomes(add_candidate(w, c))
              /\ UNCHANGED faulted
        /\ kind = "bad" => handshake_ok[e]
        /\ UNCHANGED <<keyVars, dialing>>

\* handshake_with_peer: without a cached handshake HELLO goes out, and the lock is
\* free until it is answered with a key, refused, or lost.
Dial(e) ==
    /\ Call /\ e \in (select_peers(Net) \union candidates) \ dialing
    /\ hello_cache[e] <= now
    /\ hello_cache' = [hello_cache EXCEPT ![e] = 0]
    /\ dialing' = dialing \union {e}
    /\ UNCHANGED <<netVars, handshake_ok, peer_pubkeys, pinned, seen_nonces, faulted>>

\* A candidate that answered joins the table, one that did not is forgotten.
DialEnds(e, key, answered) ==
    /\ e \in dialing
    /\ dialing' = dialing \ {e}
    /\ IF answered /\ FitsPin(e, key)
       THEN /\ peer_pubkeys' = [peer_pubkeys EXCEPT ![e] = key]
            /\ pinned' = [pinned EXCEPT ![e] = IF @ = NoKey THEN key ELSE @]
            /\ hello_cache' = [hello_cache EXCEPT ![e] = now + kHelloCacheSeconds]
            /\ Becomes(promote_candidate(readmit_authenticated(Net, e), e))
       ELSE /\ Becomes([Net EXCEPT !.candidates = @ \ {e}])
            /\ UNCHANGED <<peer_pubkeys, pinned, hello_cache>>
    /\ UNCHANGED <<handshake_ok, seen_nonces, now, calls, faulted>>

\* A request to a dialled peer: an answer, no answer, or an answer that is wrong.
Request(e, result) ==
    /\ Call /\ e \in peers /\ hello_cache[e] > now
    /\ \/ result = "good" /\ Becomes(mark_peer_good(Net, e)) /\ UNCHANGED <<hello_cache, faulted>>
       \/ result = "bad" /\ Misbehaves(Net, e) /\ UNCHANGED hello_cache
       \/ /\ result = "lost" /\ Becomes(mark_peer_unreachable(Net, e))
          /\ hello_cache' = [hello_cache EXCEPT ![e] = 0] /\ UNCHANGED faulted
       \/ /\ result = "handshake required" /\ Becomes(Net)
          /\ hello_cache' = [hello_cache EXCEPT ![e] = 0] /\ UNCHANGED faulted
    /\ UNCHANGED <<handshake_ok, peer_pubkeys, pinned, seen_nonces, dialing>>

\* addpeer
AddPeer(e) == Call /\ Becomes(add_peer(Net, e)[1]) /\ UNCHANGED <<keyVars, dialing, faulted>>

\* The node restarts with its seeds and the pins from disk; the labels' past is gone.
Restart ==
    /\ Call
    /\ Becomes([peers |-> Seeds, score |-> [e \in Labels |-> IF e \in Seeds THEN 0 ELSE NoScore],
                banned |-> [e \in Labels |-> 0], backoff |-> [e \in Labels |-> 0], candidates |-> {}])
    /\ handshake_ok' = [e \in Labels |-> FALSE] /\ peer_pubkeys' = [e \in Labels |-> NoKey]
    /\ seen_nonces' = [e \in Labels |-> {}] /\ hello_cache' = [e \in Labels |-> 0]
    /\ dialing' = {} /\ faulted' = {} /\ UNCHANGED pinned

PeerNext ==
    \/ Tick \/ Restart
    \/ \E e \in Labels :
          \/ Refused(e) \/ AddPeer(e)
          \/ \E key \in Keys, nonce \in {1, 2}, valid \in BOOLEAN : Hello(e, key, nonce, valid)
          \/ \E kind \in {"limited", "good", "bad", "neutral", "advertise"} : Message(e, kind)
          \/ Dial(e) \/ \E key \in Keys, answered \in BOOLEAN : DialEnds(e, key, answered)
          \/ \E result \in {"good", "bad", "lost", "handshake required"} : Request(e, result)

PeerSpec == PeerInit /\ [][PeerNext]_peerVars

---------------------------------------------------------------------------
\* A ban holds: whatever else the label does, handshakes included, it is not in the
\* table before the ban ends; and only misbehaviour is banned.
BansHold == \A e \in Labels : banned[e] > now => e \notin peers /\ e \in faulted

\* The comment on PeerNetwork: "a seed (bootstrap) peer is only put on backoff, never
\* dropped", and the table does not outgrow its cap.
SeedsStay == Seeds \subseteq peers /\ Cardinality(peers) <= Max({max_peers, Cardinality(Seeds)})

\* Whoever is authenticated, as a caller or as the one called, has the pinned key.
AuthenticatedIsPinned ==
    \A e \in Labels : handshake_ok[e] \/ hello_cache[e] > now => peer_pubkeys[e] = pinned[e]
=============================================================================
