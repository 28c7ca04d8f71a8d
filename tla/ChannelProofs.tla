--------------------------- MODULE ChannelProofs ----------------------------
(***************************************************************************)
(* Proofs about RemoteChannel: the two promises of a channel, a safe       *)
(* unilateral close and a penalty for every revoked state.  They follow    *)
(* from the inductive invariant IInv, whose heart is Store, a fact about   *)
(* one copy of a node's channel (its memory or its file) and what the two  *)
(* nodes have signed and revealed so far.  In order: the invariant and     *)
(* facts about records; the handlers of requests, the network and          *)
(* restarts; the steps of a node on its own channel (rchan_tick,           *)
(* rchan_recover, rchan_drive); the theorems.                              *)
(***************************************************************************)
EXTENDS RemoteChannel, TLAPS

\* The node remembers a state it has signed.
Known(r, s) ==
    \/ s \in r.ch.history \cup r.ch.abandoned
    \/ s = r.ch.cur
    \/ s = r.ch.pending
    \/ r.out_phase = "upd" /\ s = r.out_state

\* One copy of a channel; own and peer are what this node and its peer have signed,
\* given the numbers this node has revealed.
Store(r, own, peer, given) ==
    /\ r \in Endpoints /\ own \subseteq ChanState /\ given \subseteq Nat
    /\ r.ch.cur \in own \cap peer
    /\ HasPending(r.ch) =>
          /\ r.ch.pending \in own \cap peer
          /\ r.ch.pending.n = r.ch.cur.n + 1
          /\ r.out_phase = "none"
    /\ r.out_phase = "upd" => r.out_state \in own /\ r.out_state.n = r.ch.cur.n + 1
    /\ r.out_phase = "rev" => r.ch.cur.n >= 1 /\ \A s \in own : s.n <= r.ch.cur.n
    /\ \A s \in own : s.n <= r.ch.cur.n + 1 /\ Known(r, s)
    /\ \A n \in given : n < r.ch.cur.n
    /\ r.ch.cur.n >= 1 => r.ch.cur.n - 1 \in given
    /\ \A n \in r.ch.remote_secrets : n < r.ch.cur.n /\ n \in r.ch.remote_hashes

\* A request carries only what its sender has given away.
Truthful(m) ==
    /\ m.op = "UPD" => m.st \in signed[m.from]
    /\ m.op = "REV" => m.st.n \in revealed[m.from]

\* So does an answer; and the state of a proposal under way is the outbox's.
CallOK(p, t) ==
    LET c == call[p][t]
    IN  /\ c.at # "idle" => c.msg.from = p /\ Truthful(c.msg)
        /\ c.resp.tag = "ok" /\ c.msg.op = "UPD" => c.msg.st \in signed[Peer(p)]
        /\ c.resp.tag = "ok" /\ c.msg.op = "REV" => c.resp.n \in revealed[Peer(p)]

DriveOK(p) ==
    LET c == call[p]["drive"]
    IN  /\ c.at # "sync"
        /\ c.at \in {"upd", "reupd"} => c.msg.op = "UPD"
        /\ c.at \in {"rev", "rev2"} => c.msg.op = "REV"
        /\ c.at \in {"rev", "rev2", "reupd"} => rc[p].out_phase = "rev"
        /\ c.at = "upd" => rc[p].out_phase # "rev"
        /\ c.at = "upd" /\ rc[p].out_phase = "upd" => rc[p].out_state = c.msg.st

IInv ==
    /\ TypeOK
    /\ \A p \in Sides : /\ Store(rc[p], signed[p], signed[Peer(p)], revealed[p])
                        /\ Store(disk[p], signed[p], signed[Peer(p)], revealed[p])
                        /\ DriveOK(p)
                        /\ \A t \in Calls : CallOK(p, t)
    /\ \A m \in late : Truthful(m)

---------------------------------------------------------------------------
(* Endpoints and the operations of Channel on them.                        *)

LEMMA Sides2 == \A p \in Sides : Peer(p) \in Sides /\ Peer(p) # p /\ Peer(Peer(p)) = p
BY DEF Sides, Peer

LEMMA NoneIsNoState == None \notin ChanState
BY DEF None, ChanState

\* What an endpoint is made of.
LEMMA EndpointFields ==
  ASSUME NEW r \in Endpoints
  PROVE  /\ r.ch.cur \in ChanState /\ r.ch.cur.n \in Nat /\ r.ch.pending \in ChanState \cup {None}
         /\ r.ch.remote_hashes \in SUBSET (0 .. MaxNumber + 1)
         /\ r.ch.remote_secrets \in SUBSET (0 .. MaxNumber - 1)
         /\ r.ch.history \in SUBSET ChanState /\ r.ch.abandoned \in SUBSET ChanState
         /\ r.out_phase \in {"none", "upd", "rev"} /\ r.out_state \in ChanState \cup {None}
<1>1. \A s \in ChanState : s.n \in Nat
  BY DEF ChanState
<1>2. r.ch.cur \in ChanState
  BY DEF Endpoints
<1> QED
  BY <1>1, <1>2 DEF Endpoints

\* Dropping a pending state keeps it among the abandoned ones.
LEMMA DropPendingKeepsStore ==
  ASSUME NEW r, NEW own, NEW peer, NEW given, Store(r, own, peer, given)
  PROVE  LET d == [r EXCEPT !.ch = DropPending(@)]
         IN  /\ Store(d, own, peer, given)
             /\ ~HasPending(d.ch) /\ d.ch.cur = r.ch.cur
             /\ d.out_phase = r.out_phase /\ d.out_state = r.out_state
<1> DEFINE d == [r EXCEPT !.ch = DropPending(@)]
<1>1. r \in Endpoints
  BY DEF Store
<1>2. /\ d.ch.cur = r.ch.cur /\ d.ch.pending = None
      /\ d.ch.remote_hashes = r.ch.remote_hashes /\ d.ch.remote_secrets = r.ch.remote_secrets
      /\ d.ch.history = r.ch.history
      /\ d.ch.abandoned = r.ch.abandoned \cup ({r.ch.pending} \ {None})
      /\ d.out_phase = r.out_phase /\ d.out_state = r.out_state
  BY <1>1, Zenon DEF Endpoints, DropPending
<1>3. d \in Endpoints
  BY <1>1, Zenon DEF Endpoints, DropPending
<1> HIDE DEF d
<1>4. ~HasPending(d.ch)
  BY <1>2 DEF HasPending
<1>5. \A s : Known(r, s) => Known(d, s)
  BY <1>2 DEF Known
<1> QED
  BY <1>2, <1>3, <1>4, <1>5 DEF Store, d

\* Giving up a proposal keeps it among the abandoned states.
LEMMA AbandonOutKeepsStore ==
  ASSUME NEW r, NEW own, NEW peer, NEW given, Store(r, own, peer, given)
  PROVE  /\ Store(AbandonOut(r), own, peer, given)
         /\ AbandonOut(r).ch.cur = r.ch.cur /\ AbandonOut(r).ch.pending = r.ch.pending
         /\ AbandonOut(r).ch.remote_hashes = r.ch.remote_hashes
         /\ AbandonOut(r).out_phase # "upd"
         /\ r.out_phase # "upd" => AbandonOut(r) = r
         /\ r.out_phase = "upd" => AbandonOut(r).out_phase = "none"
<1> DEFINE d == AbandonOut(r)
<1>1. r \in Endpoints
  BY DEF Store
<1>2. CASE r.out_phase # "upd"
  BY <1>2 DEF AbandonOut
<1>3. CASE r.out_phase = "upd"
  <2>1. /\ d.ch.cur = r.ch.cur /\ d.ch.pending = r.ch.pending
        /\ d.ch.remote_hashes = r.ch.remote_hashes /\ d.ch.remote_secrets = r.ch.remote_secrets
        /\ d.ch.history = r.ch.history
        /\ d.ch.abandoned = r.ch.abandoned \cup {r.out_state}
        /\ d.out_phase = "none" /\ d.out_state = None
    BY <1>1, <1>3 DEF Endpoints, AbandonOut, ClearOutbox, NoteSignedAbandoned
  <2>2. r.out_state \in ChanState
    <3>1. r.out_state.n = r.ch.cur.n + 1 /\ r.ch.cur.n \in Nat /\ r.out_state \in ChanState \cup {None}
      BY <1>1, <1>3, EndpointFields DEF Store
    <3> QED
      BY <3>1 DEF None
  <2>3. d \in Endpoints
    BY <1>1, <1>3, <2>2, Zenon DEF Endpoints, AbandonOut, ClearOutbox, NoteSignedAbandoned
  <2> HIDE DEF d
  <2>4. \A s : Known(r, s) => Known(d, s)
    BY <1>3, <2>1 DEF Known
  <2> QED
    BY <1>3, <2>1, <2>3, <2>4 DEF Store, HasPending, d
<1> QED
  BY <1>2, <1>3

\* What the invariant says of a node's memory.
LEMMA MemoryFacts ==
  ASSUME IInv, NEW p \in Sides
  PROVE  /\ Store(rc[p], signed[p], signed[Peer(p)], revealed[p])
         /\ rc[p] \in Endpoints /\ rc[p].ch.cur \in ChanState
         /\ rc[p].ch.cur.n \in Nat /\ rc[p].ch.cur.n \in 0 .. MaxNumber
<1>1. Store(rc[p], signed[p], signed[Peer(p)], revealed[p])
  BY DEF IInv
<1>2. rc[p] \in Endpoints
  BY <1>1 DEF Store
<1>3. rc[p].ch.cur \in ChanState
  BY <1>2, EndpointFields
<1> QED
  BY <1>1, <1>2, <1>3 DEF ChanState

\* The outbox is as before, or a proposal was given up.
PhaseKept(r, new) ==
    \/ new.out_phase = r.out_phase /\ new.out_state = r.out_state
    \/ r.out_phase # "rev" /\ new.out_phase = "none"

---------------------------------------------------------------------------
(* Calls and their requests.                                               *)

\* Only the call t of node p changes.
LEMMA CallChanges ==
  ASSUME IInv, NEW p \in Sides, NEW t \in Calls, NEW c \in Waiting, SetCall(p, t, c)
  PROVE  /\ call' \in [Sides -> [Calls -> Waiting]]
         /\ call'[p][t] = c
         /\ \A x \in Sides, u \in Calls : x # p \/ u # t => call'[x][u] = call[x][u]
BY DEF IInv, TypeOK, SetCall

LEMMA CallIsTyped ==
  ASSUME IInv, NEW p \in Sides, NEW t \in Calls
  PROVE  /\ call[p][t] \in Waiting /\ call[p][t].msg \in Requests /\ call[p][t].resp \in Replies
         /\ call[p][t] = [at |-> call[p][t].at, msg |-> call[p][t].msg, resp |-> call[p][t].resp]
<1>1. call[p][t] \in Waiting
  BY DEF IInv, TypeOK
<1> QED
  BY <1>1 DEF Waiting

\* What the node waits for.
LEMMA RequestIsTyped ==
  ASSUME IInv, NEW p \in Sides, NEW t \in Calls
  PROVE  /\ call[p][t].msg \in Requests /\ call[p][t].msg.st \in ChanState
         /\ call[p][t].msg.st # None /\ call[p][t].msg.st.n \in 0 .. MaxNumber
<1>1. call[p][t].msg \in Requests
  BY CallIsTyped, Zenon
<1>2. call[p][t].msg.st \in ChanState
  BY <1>1 DEF Requests
<1> QED
  BY <1>1, <1>2, NoneIsNoState DEF ChanState

SetAnswer(p, t, reply) == call' = [call EXCEPT ![p][t].resp = reply]

LEMMA IdleFacts == Idle \in Waiting /\ Idle.at = "idle" /\ Idle.resp.tag # "ok"
BY ChannelAssumption, RemoteChannelAssumption
   DEF Idle, Waiting, Request, Requests, Numbered, NoReply, Error, Refused, Replies, Sides, ChanState

LEMMA WaitFacts ==
  ASSUME NEW at \in {"upd", "abort", "rev", "rev2", "reupd", "sync"}, NEW m \in Requests
  PROVE  /\ Wait(at, m) \in Waiting /\ Wait(at, m).at = at /\ Wait(at, m).msg = m
         /\ Wait(at, m).resp.tag # "ok"
BY DEF Wait, Waiting, NoReply, Error, Refused, Replies

LEMMA RequestFacts ==
  ASSUME NEW op \in {"UPD", "REV", "ABORT", "SYNC"}, NEW p \in Sides, NEW s \in ChanState
  PROVE  /\ Request(op, p, s) \in Requests /\ Request(op, p, s).op = op
         /\ Request(op, p, s).from = p /\ Request(op, p, s).st = s
BY DEF Request, Requests

LEMMA NumberedFacts ==
  ASSUME NEW n \in 0 .. MaxNumber
  PROVE  Numbered(n) \in ChanState /\ Numbered(n).n = n
BY ChannelAssumption DEF Numbered, ChanState

LEMMA DriveIsRecord ==
  ASSUME NEW p, NEW r
  PROVE  LET d == [Drive(p, r) EXCEPT !.save = TRUE]
         IN  d.rc = Drive(p, r).rc /\ d.call = Drive(p, r).call /\ d.save
BY DEF Drive, DriveUpd, Stop, Advance, SendUpd, SendRev, Drove

---------------------------------------------------------------------------
(* The operations of Channel on an endpoint.                               *)

\* What the peer signs in addition does no harm.
LEMMA PeerSignsMore ==
  ASSUME NEW r, NEW own, NEW peer, NEW given, NEW more, Store(r, own, peer, given), peer \subseteq more
  PROVE  Store(r, own, more, given)
BY DEF Store

\* Signing the peer's next state.
LEMMA AcceptKeepsStore ==
  ASSUME NEW r, NEW own, NEW peer, NEW given, Store(r, own, peer, given),
         NEW next \in ChanState, next \in peer, r.out_phase = "none", ValidateNext(r.ch, next)
  PROVE  Store([r EXCEPT !.ch = ReceiveCommitSig(@, next)], own \cup {next}, peer, given)
<1> DEFINE d == [r EXCEPT !.ch = ReceiveCommitSig(@, next)]
<1>1. r \in Endpoints
  BY DEF Store
<1>2. /\ d.ch.cur = r.ch.cur /\ d.ch.pending = next
      /\ d.ch.remote_hashes = r.ch.remote_hashes /\ d.ch.remote_secrets = r.ch.remote_secrets
      /\ d.ch.history = r.ch.history /\ d.ch.abandoned = r.ch.abandoned
      /\ d.out_phase = r.out_phase /\ d.out_state = r.out_state
  BY <1>1 DEF Endpoints, ReceiveCommitSig
<1>3. d \in Endpoints
  BY <1>1 DEF Endpoints, ReceiveCommitSig
<1>4. r.ch.pending = None /\ next.n = r.ch.cur.n + 1
  BY DEF ValidateNext, HasPending
<1>5. r.ch.cur.n \in Nat
  BY <1>1, EndpointFields
<1> HIDE DEF d
<1>6. \A s \in own : s # None
  BY NoneIsNoState DEF Store
<1>7. \A s \in own : Known(r, s) => Known(d, s)
  BY <1>2, <1>4, <1>6 DEF Known
<1>8. Known(d, next)
  BY <1>2 DEF Known
<1>9. /\ d.ch.cur \in (own \cup {next}) \cap peer
      /\ d.ch.pending \in (own \cup {next}) \cap peer
      /\ d.ch.pending.n = d.ch.cur.n + 1 /\ d.out_phase = "none"
      /\ \A n \in given : n < d.ch.cur.n
      /\ d.ch.cur.n >= 1 => d.ch.cur.n - 1 \in given
      /\ \A n \in d.ch.remote_secrets : n < d.ch.cur.n /\ n \in d.ch.remote_hashes
  BY <1>2, <1>4 DEF Store
<1>10. \A s \in own \cup {next} : s.n <= d.ch.cur.n + 1 /\ Known(d, s)
  <2>1. \A s \in own : s.n <= d.ch.cur.n + 1 /\ Known(d, s)
    BY <1>2, <1>7 DEF Store
  <2>2. next.n <= d.ch.cur.n + 1
    BY <1>2, <1>4, <1>5
  <2> QED
    BY <1>8, <2>1, <2>2
<1>11. own \cup {next} \subseteq ChanState
  BY DEF Store
<1>12. Store(d, own \cup {next}, peer, given)
  BY <1>3, <1>9, <1>10, <1>11 DEF Store
<1> QED
  BY <1>12 DEF d

\* Taking the peer's revocation of a number below the current one.
LEMMA ReceiveRevokeKeepsStore ==
  ASSUME NEW r, NEW own, NEW peer, NEW given, Store(r, own, peer, given),
         NEW n \in Nat, n < r.ch.cur.n, CanReceiveRevoke(r.ch, n)
  PROVE  LET d == [r EXCEPT !.ch = ReceiveRevoke(@, n)]
         IN  Store(d, own, peer, given)
<1> DEFINE d == [r EXCEPT !.ch = ReceiveRevoke(@, n)]
<1>1. r \in Endpoints
  BY DEF Store
<1>2. /\ d.ch.cur = r.ch.cur /\ d.ch.pending = r.ch.pending
      /\ d.ch.remote_hashes = r.ch.remote_hashes \cup {n + 2}
      /\ d.ch.remote_secrets = r.ch.remote_secrets \cup {n}
      /\ d.ch.history = r.ch.history /\ d.ch.abandoned = r.ch.abandoned
      /\ d.out_phase = r.out_phase /\ d.out_state = r.out_state
  BY <1>1, Zenon DEF Endpoints, ReceiveRevoke
<1>3. n \in 0 .. MaxNumber - 1 /\ n + 2 \in 0 .. MaxNumber + 1
  <2>1. r.ch.cur \in ChanState
    BY <1>1, EndpointFields
  <2>2. r.ch.cur.n \in 0 .. MaxNumber
    BY <2>1 DEF ChanState
  <2> QED
    BY <2>2, ChannelAssumption
<1>4. d \in Endpoints
  BY <1>1, <1>3, Zenon DEF Endpoints, ReceiveRevoke
<1> HIDE DEF d
<1>5. \A s : Known(r, s) => Known(d, s)
  BY <1>2 DEF Known
<1>6. \A k \in d.ch.remote_secrets : k < d.ch.cur.n /\ k \in d.ch.remote_hashes
  BY <1>2 DEF Store, CanReceiveRevoke
<1>7. HasPending(d.ch) <=> HasPending(r.ch)
  BY <1>2 DEF HasPending
<1> QED
  BY <1>2, <1>4, <1>5, <1>6, <1>7 DEF Store, d

\* Revoking the current state for a next one that both have signed; the outbox is then
\* empty, or holds that very state.
LEMMA AdvanceKeepsStore ==
  ASSUME NEW r, NEW own, NEW peer, NEW given, Store(r, own, peer, given),
         NEW d \in Endpoints, NEW next \in own \cap peer, next.n = r.ch.cur.n + 1,
         r.ch.pending \in {None, next},
         r.out_phase = "upd" => r.out_state = next,
         d.ch.cur = next, d.ch.pending = None,
         d.ch.remote_hashes = r.ch.remote_hashes, d.ch.remote_secrets = r.ch.remote_secrets,
         d.ch.history = r.ch.history \cup {r.ch.cur}, d.ch.abandoned = r.ch.abandoned,
         d.out_phase \in {"none", "rev"}
  PROVE  Store(d, own, peer, given \cup {r.ch.cur.n})
<1>1. r \in Endpoints /\ r.ch.cur.n \in Nat
  BY EndpointFields DEF Store
<1>2. \A s \in own : s # None
  BY NoneIsNoState DEF Store
<1>3. \A s \in own : Known(d, s)
  BY <1>2 DEF Store, Known
<1>4. ~HasPending(d.ch)
  BY DEF HasPending
<1>5. \A s \in own : s.n <= d.ch.cur.n
  BY DEF Store
<1>6. \A s \in own : s.n <= d.ch.cur.n + 1
  <2>1. \A s \in own : s.n \in Int
    BY DEF Store, ChanState
  <2> QED
    BY <1>1, <1>5, <2>1
<1>7. \A n \in given \cup {r.ch.cur.n} : n < d.ch.cur.n
  <2>1. \A n \in given : n < r.ch.cur.n
    BY DEF Store
  <2> QED
    BY <1>1, <2>1 DEF Store
<1>8. d.ch.cur.n - 1 \in given \cup {r.ch.cur.n}
  BY <1>1
<1>9. \A n \in d.ch.remote_secrets : n < d.ch.cur.n /\ n \in d.ch.remote_hashes
  <2>1. \A n \in r.ch.remote_secrets : n \in Int
    BY <1>1, EndpointFields
  <2> QED
    BY <1>1, <2>1 DEF Store
<1>10. given \cup {r.ch.cur.n} \subseteq Nat /\ own \subseteq ChanState
  BY <1>1, Zenon DEF Store
<1>11. d.ch.cur \in own \cap peer /\ d.ch.cur.n >= 1
  BY <1>1
<1> QED
  BY <1>3, <1>4, <1>5, <1>6, <1>7, <1>8, <1>9, <1>10, <1>11 DEF Store

---------------------------------------------------------------------------
(* What the handlers leave behind.                                         *)

LEMMA Answers ==
  /\ \A n \in Nat, phase \in {"none", "upd", "rev"} :
        Ok(n, phase).tag = "ok" /\ Ok(n, phase).n = n /\ Ok(n, phase) \in Replies
  /\ \A tag \in {"error", "conflict", "nopending", "none"} : Error(tag).tag = tag /\ Error(tag) \in Replies
<1>1. \A n \in Nat, phase \in {"none", "upd", "rev"} :
        Ok(n, phase).tag = "ok" /\ Ok(n, phase).n = n /\ Ok(n, phase) \in Replies
  BY DEF Ok, Replies
<1>2. \A tag \in {"error", "conflict", "nopending", "none"} : Error(tag).tag = tag /\ Error(tag) \in Replies
  BY DEF Error, Refused, Replies
<1> QED
  BY <1>1, <1>2

\* What an answer gives away: x, if it is positive.
Gives(h, x) == IF h.reply.tag = "ok" THEN {x} ELSE {}

LEMMA GivesAll == \A h, x : /\ h.reply.tag = "ok" => Gives(h, x) = {x}
                            /\ h.reply.tag # "ok" => Gives(h, x) = {}
BY DEF Gives

LEMMA HandleUpdKeepsStore ==
  ASSUME NEW q \in Sides, NEW r, NEW own, NEW peer, NEW given, Store(r, own, peer, given),
         NEW next \in ChanState, next \in peer
  PROVE  LET h == HandleUpd(q, r, next)
         IN  /\ Store(h.rc, own \cup Gives(h, next), peer, given)
             /\ h.save \/ Gives(h, next) \subseteq own
             /\ h.reply \in Replies
<1> DEFINE h == HandleUpd(q, r, next)
           free == [r EXCEPT !.ch = DropPending(@)]
           Good(x) == /\ Store(x.rc, own \cup Gives(x, next), peer, given)
                      /\ x.save \/ Gives(x, next) \subseteq own
                      /\ x.reply \in Replies
<1> HIDE DEF h
<1> SUFFICES Good(h)
  BY DEF h
<1>1. next.n \in Nat
  BY DEF ChanState
<1>2. ASSUME NEW x, Store(x, own, peer, given)
      PROVE  Good(Reject(x, "conflict")) /\ Good(Reject(x, "error"))
  <2>1. ASSUME NEW tag \in {"conflict", "error"} PROVE Good(Reject(x, tag))
    <3>1. Reject(x, tag).rc = x /\ Reject(x, tag).reply.tag # "ok" /\ Reject(x, tag).reply \in Replies
      BY Answers DEF Reject, Handled
    <3>2. own \cup Gives(Reject(x, tag), next) = own
      BY <3>1, GivesAll
    <3> QED
      BY <1>2, <3>1, <3>2
  <2> QED
    BY <2>1
<1>3. CASE r.ch.pending = next
  <2>1. h = Handled(r, FALSE, Ok(next.n, "none"))
    BY <1>3 DEF HandleUpd, h
  <2>2. next \in own /\ own \cup {next} = own
    BY <1>3, NoneIsNoState DEF Store, HasPending
  <2>3. h.rc = r /\ h.reply.tag = "ok" /\ h.reply \in Replies
    BY <1>1, <2>1, Answers DEF Handled
  <2>4. Gives(h, next) = {next}
    BY <2>3, GivesAll
  <2> QED
    BY <2>2, <2>3, <2>4
<1>4. CASE r.ch.pending # next /\ HasPending(r.ch) /\ q = "a"
  <2>1. h = Reject(r, "conflict")
    BY <1>4 DEF HandleUpd, h
  <2> QED
    BY <1>2, <2>1, Zenon
<1>5. CASE r.ch.pending # next /\ ~(HasPending(r.ch) /\ q = "a")
  <2>1. Store(free, own, peer, given) /\ free.out_phase = r.out_phase
    BY DropPendingKeepsStore
  <2>2. CASE r.out_phase = "rev"
    <3>1. h = Reject(free, "error")
      BY <1>5, <2>2 DEF HandleUpd, h
    <3> QED
      BY <1>2, <2>1, <3>1, Zenon
  <2>3. CASE r.out_phase = "upd" /\ q = "a"
    <3>1. h = Reject(free, "conflict")
      BY <1>5, <2>3 DEF HandleUpd, h
    <3> QED
      BY <1>2, <2>1, <3>1, Zenon
  <2>4. CASE r.out_phase # "rev" /\ ~(r.out_phase = "upd" /\ q = "a")
    <3> DEFINE g == AbandonOut(free)
    <3>1. h = AcceptUpd(q, g, next)
      BY <1>5, <2>4 DEF HandleUpd, h
    <3>2. Store(g, own, peer, given)
      BY <2>1, AbandonOutKeepsStore
    <3>3. g.out_phase = "none"
      <4>1. free.out_phase \in {"none", "upd", "rev"}
        BY <2>1, EndpointFields DEF Store
      <4> QED
        BY <2>1, <2>4, <4>1, AbandonOutKeepsStore, Zenon
    <3> HIDE DEF g, free
    <3>4. CASE AcceptsPayment(q, g.ch, next) /\ ValidateNext(g.ch, next)
      <4> DEFINE d == [g EXCEPT !.ch = ReceiveCommitSig(@, next)]
      <4>1. h = Handled(d, TRUE, Ok(next.n, "none"))
        BY <3>1, <3>4 DEF AcceptUpd
      <4>2. Store(d, own \cup {next}, peer, given)
        BY <3>2, <3>3, <3>4, AcceptKeepsStore
      <4> HIDE DEF d
      <4>3. h.rc = d /\ h.save /\ h.reply.tag = "ok" /\ h.reply \in Replies
        BY <1>1, <4>1, Answers DEF Handled
      <4>4. Gives(h, next) = {next}
        BY <4>3, GivesAll
      <4> QED
        BY <4>2, <4>3, <4>4
    <3>5. CASE ~(AcceptsPayment(q, g.ch, next) /\ ValidateNext(g.ch, next))
      <4>1. h = Reject(g, "error")
        BY <3>1, <3>5, Zenon DEF AcceptUpd
      <4> QED
        BY <1>2, <3>2, <4>1, Zenon
    <3> QED
      BY <3>4, <3>5
  <2> QED
    BY <2>2, <2>3, <2>4
<1> QED
  BY <1>3, <1>4, <1>5

\* The peer has revoked n, and so is at most one state ahead.
LEMMA HandleRevKeepsStore ==
  ASSUME NEW r, NEW own, NEW peer, NEW given, Store(r, own, peer, given),
         NEW n \in Nat, n <= r.ch.cur.n
  PROVE  LET h == HandleRev(r, n)
         IN  /\ Store(h.rc, own, peer, given \cup Gives(h, h.reply.n))
             /\ h.save \/ Gives(h, h.reply.n) \subseteq given
             /\ h.reply \in Replies
<1> DEFINE h == HandleRev(r, n)
           Good(x) == /\ Store(x.rc, own, peer, given \cup Gives(x, x.reply.n))
                      /\ x.save \/ Gives(x, x.reply.n) \subseteq given
                      /\ x.reply \in Replies
<1> HIDE DEF h
<1> SUFFICES Good(h)
  BY DEF h
<1>1. r \in Endpoints /\ r.ch.cur.n \in Nat
  BY EndpointFields DEF Store
<1>2. ASSUME NEW tag \in {"nopending", "error"}, h = Reject(r, tag)
      PROVE  Good(h)
  <2>1. h.rc = r /\ h.reply.tag # "ok" /\ h.reply \in Replies
    BY <1>2, Answers DEF Reject, Handled
  <2>2. Gives(h, h.reply.n) = {}
    BY <2>1, GivesAll
  <2>3. given \cup Gives(h, h.reply.n) = given
    BY <2>2
  <2> QED
    BY <2>1, <2>2, <2>3
<1>3. CASE ~HasPending(r.ch)
  <2>1. h = RevRepeated(r, n)
    BY <1>3 DEF HandleRev, h
  <2>2. CASE n + 1 = r.ch.cur.n /\ n \in r.ch.remote_secrets
    <3>1. h = Handled(r, FALSE, Ok(LastRevoked(r.ch), "none"))
      BY <2>1, <2>2 DEF RevRepeated
    <3>2. LastRevoked(r.ch) = r.ch.cur.n - 1 /\ LastRevoked(r.ch) \in Nat
      BY <1>1, <2>2 DEF LastRevoked
    <3>3. h.rc = r /\ h.reply.tag = "ok" /\ h.reply.n = r.ch.cur.n - 1 /\ h.reply \in Replies
      BY <3>1, <3>2, Answers DEF Handled
    <3>4. Gives(h, h.reply.n) = {r.ch.cur.n - 1}
      BY <3>3, GivesAll
    <3>5. r.ch.cur.n - 1 \in given
      BY <1>1, <2>2 DEF Store
    <3>6. given \cup Gives(h, h.reply.n) = given
      BY <3>4, <3>5
    <3> QED
      BY <3>3, <3>4, <3>5, <3>6, Zenon
  <2>3. CASE ~(n + 1 = r.ch.cur.n /\ n \in r.ch.remote_secrets)
    BY <1>2, <2>1, <2>3, Zenon DEF RevRepeated
  <2> QED
    BY <2>2, <2>3
<1>4. CASE HasPending(r.ch) /\ CanReceiveRevoke(r.ch, n)
  <2> DEFINE d == [r EXCEPT !.ch = RevokeAndAdvance(ReceiveRevoke(@, n))]
             e == [r EXCEPT !.ch = RevokeAndAdvance(@)]
  <2>1. h = Handled(d, TRUE, Ok(r.ch.cur.n, "none"))
    BY <1>4 DEF HandleRev, RevReplied, h
  <2>2. h.rc = d /\ h.save /\ h.reply.tag = "ok" /\ h.reply.n = r.ch.cur.n /\ h.reply \in Replies
    BY <1>1, <2>1, Answers DEF Handled
  <2>3. Gives(h, h.reply.n) = {r.ch.cur.n}
    BY <2>2, GivesAll
  <2>4. /\ r.ch.pending \in own \cap peer /\ r.ch.pending.n = r.ch.cur.n + 1
        /\ r.ch.pending \in ChanState /\ r.out_phase = "none"
    BY <1>4 DEF Store
  <2>5. /\ e \in Endpoints /\ e.ch.cur = r.ch.pending /\ e.ch.pending = None
        /\ e.ch.remote_hashes = r.ch.remote_hashes /\ e.ch.remote_secrets = r.ch.remote_secrets
        /\ e.ch.history = r.ch.history \cup {r.ch.cur} /\ e.ch.abandoned = r.ch.abandoned
        /\ e.out_phase = r.out_phase
    BY <1>1, <2>4, Zenon DEF Endpoints, RevokeAndAdvance
  <2>6. d = [e EXCEPT !.ch = ReceiveRevoke(@, n)]
    BY <1>1, ZenonT(30) DEF Endpoints, RevokeAndAdvance, ReceiveRevoke
  <2> HIDE DEF d, e
  <2>7. Store(e, own, peer, given \cup {r.ch.cur.n})
    BY <2>4, <2>5, AdvanceKeepsStore
  <2>8. n < e.ch.cur.n /\ CanReceiveRevoke(e.ch, n)
    BY <1>1, <1>4, <2>4, <2>5 DEF CanReceiveRevoke
  <2>9. Store(d, own, peer, given \cup {r.ch.cur.n})
    BY <2>6, <2>7, <2>8, ReceiveRevokeKeepsStore
  <2> QED
    BY <2>2, <2>3, <2>9
<1>5. CASE HasPending(r.ch) /\ ~CanReceiveRevoke(r.ch, n)
  BY <1>2, <1>5 DEF HandleRev, h
<1> QED
  BY <1>3, <1>4, <1>5

---------------------------------------------------------------------------
(* Steps of the whole system.                                              *)

\* What one node has revoked is at most the other's current state.
LEMMA RevealedBehind ==
  ASSUME IInv, NEW p \in Sides
  PROVE  \A n \in revealed[p] :
            /\ n \in Nat /\ n <= rc[Peer(p)].ch.cur.n
            /\ rc[Peer(p)].out_phase = "rev" => n < rc[Peer(p)].ch.cur.n
<1> DEFINE q == Peer(p)
<1>1. q \in Sides /\ Peer(q) = p
  BY Sides2
<1>2. Store(rc[p], signed[p], signed[q], revealed[p]) /\ Store(rc[q], signed[q], signed[p], revealed[q])
  BY <1>1 DEF IInv
<1>3. rc[p].ch.cur.n \in Nat /\ rc[q].ch.cur.n \in Nat
  BY <1>2, EndpointFields DEF Store
<1> HIDE DEF q
<1>4. /\ rc[p].ch.cur.n <= rc[q].ch.cur.n + 1
      /\ rc[q].out_phase = "rev" => rc[p].ch.cur.n <= rc[q].ch.cur.n
  BY <1>2 DEF Store
<1>5. \A n \in revealed[p] : n \in Nat /\ n < rc[p].ch.cur.n
  BY <1>2 DEF Store
<1> QED
  BY <1>3, <1>4, <1>5 DEF q

\* The handler at the receiver of a request.
LEMMA HandlerKeepsStore ==
  ASSUME IInv, NEW m \in Requests, Truthful(m), NEW q \in Sides, q = Peer(m.from)
  PROVE  LET h == HandleChannelMessage(q, m)
             sig == IF m.op = "UPD" /\ h.reply.tag = "ok" THEN {m.st} ELSE {}
             secret == IF m.op = "REV" /\ h.reply.tag = "ok" THEN {h.reply.n} ELSE {}
         IN  /\ Store(h.rc, signed[q] \cup sig, signed[Peer(q)], revealed[q] \cup secret)
             /\ h.save \/ (sig \subseteq signed[q] /\ secret \subseteq revealed[q])
             /\ h.reply \in Replies
             /\ Busy(q) => h.rc = rc[q]
<1> DEFINE h == HandleChannelMessage(q, m)
           r == rc[q]
           sig == IF m.op = "UPD" /\ h.reply.tag = "ok" THEN {m.st} ELSE {}
           secret == IF m.op = "REV" /\ h.reply.tag = "ok" THEN {h.reply.n} ELSE {}
           Good == /\ Store(h.rc, signed[q] \cup sig, signed[Peer(q)], revealed[q] \cup secret)
                   /\ h.save \/ (sig \subseteq signed[q] /\ secret \subseteq revealed[q])
                   /\ h.reply \in Replies
                   /\ Busy(q) => h.rc = rc[q]
<1> HIDE DEF h
<1> SUFFICES Good
  BY DEF h
<1>1. m.from \in Sides /\ Peer(q) = m.from /\ m.st \in ChanState /\ m.op \in {"UPD", "REV", "ABORT", "SYNC"}
  BY Sides2 DEF Requests
<1>2. Store(r, signed[q], signed[Peer(q)], revealed[q])
  BY DEF IInv
<1>3. r \in Endpoints /\ r.ch.cur.n \in Nat /\ r.out_phase \in {"none", "upd", "rev"}
  BY <1>2, EndpointFields DEF Store
<1>4. ASSUME sig = {}, secret = {}, Store(h.rc, signed[q], signed[Peer(q)], revealed[q]),
             h.reply \in Replies, Busy(q) => h.rc = rc[q]
      PROVE  Good
  <2>1. signed[q] \cup sig = signed[q] /\ revealed[q] \cup secret = revealed[q]
    BY <1>4
  <2> QED
    BY <1>4, <2>1, Zenon
<1>5. CASE Busy(q)
  <2>1. h = Reject(r, "error")
    BY <1>5 DEF HandleChannelMessage, h
  <2>2. h.rc = r /\ h.reply.tag # "ok" /\ h.reply \in Replies
    BY <2>1, Answers DEF Reject, Handled
  <2> QED
    BY <1>2, <1>4, <2>2
<1>6. CASE ~Busy(q) /\ m.op = "SYNC"
  <2>1. h = Handled(r, FALSE, Ok(r.ch.cur.n, r.out_phase))
    BY <1>6 DEF HandleChannelMessage, HandleSync, h
  <2>2. h.rc = r /\ h.reply \in Replies
    BY <1>3, <2>1, Answers DEF Handled
  <2> QED
    BY <1>2, <1>4, <1>6, <2>2
<1>7. CASE ~Busy(q) /\ m.op = "ABORT"
  <2> DEFINE d == [r EXCEPT !.ch = DropPending(@)]
  <2>1. h = Handled(d, TRUE, Ok(r.ch.cur.n, "none")) \/ h = Handled(r, FALSE, Ok(r.ch.cur.n, "none"))
    BY <1>7, Zenon DEF HandleChannelMessage, HandleAbort, h
  <2>2. Store(d, signed[q], signed[Peer(q)], revealed[q])
    BY <1>2, DropPendingKeepsStore
  <2> HIDE DEF d
  <2>3. h.rc \in {d, r} /\ h.reply \in Replies
    BY <1>3, <2>1, Answers DEF Handled
  <2>4. Store(h.rc, signed[q], signed[Peer(q)], revealed[q])
    BY <1>2, <2>2, <2>3
  <2>5. sig = {} /\ secret = {}
    BY <1>7
  <2> HIDE DEF sig, secret, Good
  <2> QED
    BY <1>4, <1>7, <2>3, <2>4, <2>5
<1>8. CASE ~Busy(q) /\ m.op = "UPD"
  <2>1. h = HandleUpd(q, r, m.st)
    BY <1>8 DEF HandleChannelMessage, h
  <2>2. m.st \in signed[Peer(q)]
    BY <1>1, <1>8 DEF Truthful
  <2>3. /\ Store(h.rc, signed[q] \cup Gives(h, m.st), signed[Peer(q)], revealed[q])
        /\ h.save \/ Gives(h, m.st) \subseteq signed[q]
        /\ h.reply \in Replies
    BY <1>1, <1>2, <2>1, <2>2, HandleUpdKeepsStore
  <2>4. sig = Gives(h, m.st) /\ secret = {}
    BY <1>8 DEF Gives
  <2>5. revealed[q] \cup secret = revealed[q] /\ secret \subseteq revealed[q]
    BY <2>4
  <2> QED
    BY <1>8, <2>3, <2>4, <2>5
<1>9. CASE ~Busy(q) /\ m.op = "REV"
  <2>1. h = HandleRev(r, m.st.n)
    BY <1>9 DEF HandleChannelMessage, h
  <2>2. m.st.n \in Nat /\ m.st.n <= r.ch.cur.n
    BY <1>1, <1>9, RevealedBehind DEF Truthful
  <2>3. /\ Store(h.rc, signed[q], signed[Peer(q)], revealed[q] \cup Gives(h, h.reply.n))
        /\ h.save \/ Gives(h, h.reply.n) \subseteq revealed[q]
        /\ h.reply \in Replies
    BY <1>2, <2>1, <2>2, HandleRevKeepsStore, Zenon
  <2>4. secret = Gives(h, h.reply.n) /\ sig = {}
    BY <1>9 DEF Gives
  <2>5. signed[q] \cup sig = signed[q] /\ sig \subseteq signed[q]
    BY <2>4
  <2> QED
    BY <1>9, <2>3, <2>4, <2>5
<1> QED
  BY <1>1, <1>5, <1>6, <1>7, <1>8, <1>9

\* What the copies and the records of both nodes are after a step that changes one of
\* them; calls and requests are left to the lemmas below.
Grown ==
    /\ rc' \in [Sides -> Endpoints] /\ disk' \in [Sides -> Endpoints]
    /\ signed' \in [Sides -> SUBSET ChanState] /\ revealed' \in [Sides -> SUBSET (0 .. MaxNumber)]
    /\ \A p \in Sides : /\ Store(rc[p], signed[p], signed[Peer(p)], revealed[p])'
                        /\ Store(disk[p], signed[p], signed[Peer(p)], revealed[p])'
                        /\ signed[p] \subseteq signed'[p] /\ revealed[p] \subseteq revealed'[p]

\* A node changes its memory, and saves it when it gives away anything new.
LEMMA NodeChanges ==
  ASSUME IInv, NEW q \in Sides, NEW r, NEW sig, NEW secret,
         Store(r, signed[q] \cup sig, signed[Peer(q)], revealed[q] \cup secret),
         rc' = [rc EXCEPT ![q] = r],
         \/ disk' = [disk EXCEPT ![q] = r]
         \/ disk' = disk /\ sig \subseteq signed[q] /\ secret \subseteq revealed[q],
         signed' = [signed EXCEPT ![q] = @ \cup sig],
         revealed' = [revealed EXCEPT ![q] = @ \cup secret]
  PROVE  Grown
<1> DEFINE p == Peer(q)
<1>1. p \in Sides /\ p # q /\ Peer(p) = q /\ \A x \in Sides : x = p \/ x = q
  BY Sides2 DEF Sides
<1>2. /\ rc'[q] = r /\ rc'[p] = rc[p]
      /\ signed'[q] = signed[q] \cup sig /\ signed'[p] = signed[p]
      /\ revealed'[q] = revealed[q] \cup secret /\ revealed'[p] = revealed[p]
      /\ disk'[p] = disk[p] /\ disk'[q] \in {r, disk[q]}
  BY <1>1 DEF IInv, TypeOK
<1>3. r \in Endpoints /\ r.ch.cur \in ChanState /\ signed'[q] \subseteq ChanState
  BY <1>2, EndpointFields DEF Store
<1>4. revealed'[q] \subseteq 0 .. MaxNumber
  <2>1. r.ch.cur.n \in 0 .. MaxNumber
    BY <1>3 DEF ChanState
  <2>2. \A n \in revealed'[q] : n \in Nat /\ n < r.ch.cur.n
    BY <1>2 DEF Store
  <2> QED
    BY <2>1, <2>2, ChannelAssumption
<1>5. /\ rc' \in [Sides -> Endpoints] /\ disk' \in [Sides -> Endpoints]
  BY <1>3 DEF IInv, TypeOK
<1>6. signed' \in [Sides -> SUBSET ChanState] /\ revealed' \in [Sides -> SUBSET (0 .. MaxNumber)]
  BY <1>2, <1>3, <1>4 DEF IInv, TypeOK
<1> HIDE DEF p
<1>7. Store(rc'[q], signed'[q], signed'[p], revealed'[q]) /\ Store(disk'[q], signed'[q], signed'[p], revealed'[q])
  <2>1. CASE disk' = [disk EXCEPT ![q] = r]
    BY <1>2, <2>1 DEF p, IInv, TypeOK
  <2>2. CASE disk' = disk /\ sig \subseteq signed[q] /\ secret \subseteq revealed[q]
    <3>1. signed[q] \cup sig = signed[q] /\ revealed[q] \cup secret = revealed[q]
      BY <2>2
    <3> QED
      BY <1>1, <1>2, <2>2, <3>1, Zenon DEF IInv, p
  <2> QED
    BY <2>1, <2>2
<1>8. Store(rc'[p], signed'[p], signed'[q], revealed'[p]) /\ Store(disk'[p], signed'[p], signed'[q], revealed'[p])
  <2>1. Store(rc[p], signed[p], signed[q], revealed[p]) /\ Store(disk[p], signed[p], signed[q], revealed[p])
    BY <1>1 DEF IInv
  <2> QED
    BY <1>2, <2>1, PeerSignsMore
<1>9. \A x \in Sides : signed[x] \subseteq signed'[x] /\ revealed[x] \subseteq revealed'[x]
  BY <1>1, <1>2
<1> QED
  BY <1>1, <1>5, <1>6, <1>7, <1>8, <1>9 DEF Grown, p

\* A call that does not change stays as truthful as it was.
LEMMA CallStays ==
  ASSUME IInv, Grown, NEW p \in Sides, NEW t \in Calls, call'[p][t] = call[p][t]
  PROVE  CallOK(p, t)'
<1>1. Peer(p) \in Sides /\ call[p][t].msg.from \in Sides
  BY Sides2 DEF IInv, TypeOK, Waiting, Requests
<1>2. CallOK(p, t)
  BY DEF IInv
<1> QED
  BY <1>1, <1>2 DEF CallOK, Truthful, Grown

\* So does a request that is handled late.
LEMMA LateStays ==
  ASSUME IInv, Grown, NEW m \in late
  PROVE  Truthful(m)'
<1>1. m.from \in Sides
  BY DEF IInv, TypeOK, Requests
<1> QED
  BY <1>1 DEF IInv, Truthful, Grown

LEMMA TogetherIInv ==
  ASSUME Grown, call' \in [Sides -> [Calls -> Waiting]], late' \subseteq Requests, budget' \in Budgets,
         \A p \in Sides : DriveOK(p)' /\ \A t \in Calls : CallOK(p, t)',
         \A m \in late' : Truthful(m)'
  PROVE  IInv'
BY Zenon DEF Grown, IInv, TypeOK

\* A request is handled at its receiver.
LEMMA HandledGrows ==
  ASSUME IInv, NEW m \in Requests, Truthful(m),
         RunHandler(m, HandleChannelMessage(Peer(m.from), m))
  PROVE  LET h == HandleChannelMessage(Peer(m.from), m)
         IN  /\ Grown
             /\ h.reply \in Replies
             /\ m.op = "UPD" /\ h.reply.tag = "ok" => m.st \in signed'[Peer(m.from)]
             /\ m.op = "REV" /\ h.reply.tag = "ok" => h.reply.n \in revealed'[Peer(m.from)]
             /\ \A x \in Sides : Busy(x) => rc'[x] = rc[x]
<1> DEFINE q == Peer(m.from)
           h == HandleChannelMessage(q, m)
           sig == IF m.op = "UPD" /\ h.reply.tag = "ok" THEN {m.st} ELSE {}
           secret == IF m.op = "REV" /\ h.reply.tag = "ok" THEN {h.reply.n} ELSE {}
<1>1. q \in Sides
  BY Sides2, Zenon DEF Requests
<1>2. /\ Store(h.rc, signed[q] \cup sig, signed[Peer(q)], revealed[q] \cup secret)
      /\ h.save \/ (sig \subseteq signed[q] /\ secret \subseteq revealed[q])
      /\ h.reply \in Replies
      /\ Busy(q) => h.rc = rc[q]
  BY <1>1, HandlerKeepsStore
<1>3. /\ rc' = [rc EXCEPT ![q] = h.rc]
      /\ disk' = IF h.save THEN [disk EXCEPT ![q] = h.rc] ELSE disk
      /\ signed' = [signed EXCEPT ![q] = @ \cup sig]
      /\ revealed' = [revealed EXCEPT ![q] = @ \cup secret]
  BY DEF RunHandler
<1> HIDE DEF h, q
<1>4. \/ disk' = [disk EXCEPT ![q] = h.rc]
      \/ disk' = disk /\ sig \subseteq signed[q] /\ secret \subseteq revealed[q]
  BY <1>2, <1>3
<1>5. Grown
  <2> HIDE DEF sig, secret
  <2> QED
    BY <1>1, <1>2, <1>3, <1>4, NodeChanges, Zenon
<1>6. sig \subseteq signed'[q] /\ secret \subseteq revealed'[q]
  <2> HIDE DEF sig, secret
  <2> QED
    BY <1>1, <1>3 DEF IInv, TypeOK
<1>7. \A x \in Sides : Busy(x) => rc'[x] = rc[x]
  BY <1>1, <1>2, <1>3 DEF IInv, TypeOK
<1> QED
  BY <1>2, <1>5, <1>6, <1>7 DEF h, q

\* Handlers leave alone a node whose rchan_drive waits.
LEMMA DriveStays ==
  ASSUME IInv, NEW p \in Sides,
         call'[p]["drive"].at = call[p]["drive"].at, call'[p]["drive"].msg = call[p]["drive"].msg,
         Busy(p) => rc'[p] = rc[p]
  PROVE  DriveOK(p)'
BY DEF IInv, DriveOK, Busy

\* The answer to a call is set, after a step that let the nodes grow.
LEMMA AnswerKeepsIInv ==
  ASSUME IInv, Grown, NEW p \in Sides, NEW t \in Calls, NEW reply \in Replies,
         call[p][t].at # "idle",
         SetAnswer(p, t, reply),
         \A x \in Sides : Busy(x) => rc'[x] = rc[x],
         call[p][t].msg.op = "UPD" /\ reply.tag = "ok" => call[p][t].msg.st \in signed'[Peer(p)],
         call[p][t].msg.op = "REV" /\ reply.tag = "ok" => reply.n \in revealed'[Peer(p)],
         late' \subseteq Requests, \A m \in late' : m \in late \/ Truthful(m)', budget' \in Budgets
  PROVE  IInv'
<1> DEFINE old == call[p][t]
<1>1. PICK c \in Waiting : /\ c = [old EXCEPT !.resp = reply]
                          /\ c.at = old.at /\ c.msg = old.msg /\ c.resp = reply
  <2>1. old \in Waiting
    BY CallIsTyped, Zenon
  <2> DEFINE new == [old EXCEPT !.resp = reply]
  <2> HIDE DEF old
  <2>2. new \in Waiting /\ new.at = old.at /\ new.msg = old.msg /\ new.resp = reply
    BY <2>1 DEF Waiting
  <2> QED
    BY <2>2, Zenon
<1>2. SetCall(p, t, c)
  BY <1>1 DEF IInv, TypeOK, SetCall, SetAnswer
<1>3. /\ call' \in [Sides -> [Calls -> Waiting]]
      /\ call'[p][t] = c
      /\ \A x \in Sides, u \in Calls : x # p \/ u # t => call'[x][u] = call[x][u]
  BY <1>1, <1>2, CallChanges
<1>4. CallOK(p, t)'
  <2>1. c.msg.from = p /\ Truthful(c.msg)
    BY <1>1 DEF IInv, CallOK
  <2>2. Truthful(c.msg)'
    BY <2>1 DEF Truthful, Grown
  <2> QED
    BY <1>1, <1>3, <2>1, <2>2 DEF CallOK
<1>5. \A x \in Sides, u \in Calls : CallOK(x, u)'
  <2> TAKE x \in Sides, u \in Calls
  <2>1. CASE x = p /\ u = t
    BY <1>4, <2>1
  <2>2. CASE x # p \/ u # t
    BY <1>3, <2>2, CallStays
  <2> QED
    BY <2>1, <2>2
<1>6. \A x \in Sides : DriveOK(x)'
  <2> TAKE x \in Sides
  <2>1. "drive" \in Calls
    BY DEF Calls
  <2>2. call'[x]["drive"].at = call[x]["drive"].at /\ call'[x]["drive"].msg = call[x]["drive"].msg
    BY <1>1, <1>3, <2>1, Zenon
  <2> QED
    BY <2>2, DriveStays
<1>7. \A m \in late' : Truthful(m)'
  BY LateStays
<1> QED
  BY <1>3, <1>5, <1>6, <1>7, TogetherIInv

LEMMA NothingGrows ==
  ASSUME IInv, UNCHANGED <<rc, disk, signed, revealed>>
  PROVE  Grown
BY DEF IInv, TypeOK, Grown

LEMMA DeliverKeepsIInv ==
  ASSUME IInv, NEW p \in Sides, NEW t \in Calls, Deliver(p, t)
  PROVE  IInv'
<1> DEFINE m == call[p][t].msg
           h == HandleChannelMessage(Peer(p), m)
<1>1. call[p][t].at # "idle" /\ m \in Requests /\ m.from = p /\ Truthful(m)
  BY CallIsTyped, Zenon DEF Deliver, Unhandled, IInv, CallOK
<1>2. RunHandler(m, HandleChannelMessage(Peer(m.from), m)) /\ SetAnswer(p, t, h.reply)
  BY <1>1 DEF Deliver, SetAnswer
<1>3. late' = late /\ budget' = budget
  BY DEF Deliver, UseNothing
<1> HIDE DEF m
<1>4. /\ Grown /\ h.reply \in Replies
      /\ m.op = "UPD" /\ h.reply.tag = "ok" => m.st \in signed'[Peer(p)]
      /\ m.op = "REV" /\ h.reply.tag = "ok" => h.reply.n \in revealed'[Peer(p)]
      /\ \A x \in Sides : Busy(x) => rc'[x] = rc[x]
  BY <1>1, <1>2, HandledGrows, Zenon
<1> HIDE DEF h
<1> QED
  BY <1>1, <1>2, <1>3, <1>4, AnswerKeepsIInv, Zenon DEF IInv, TypeOK, m

\* The nodes grow, and no call changes.
LEMMA CallsStayIInv ==
  ASSUME IInv, Grown, UNCHANGED call, late' \subseteq late, budget' \in Budgets,
         \A x \in Sides : Busy(x) => rc'[x] = rc[x]
  PROVE  IInv'
<1>1. \A x \in Sides, u \in Calls : CallOK(x, u)'
  BY CallStays
<1>2. \A x \in Sides : DriveOK(x)'
  BY DriveStays
<1>3. \A m \in late' : Truthful(m)'
  BY LateStays
<1>4. call' \in [Sides -> [Calls -> Waiting]] /\ late' \subseteq Requests
  BY DEF IInv, TypeOK
<1> QED
  BY <1>1, <1>2, <1>3, <1>4, TogetherIInv

LEMMA HandledKeepsIInv ==
  ASSUME IInv, NEW m \in Requests, Truthful(m), RunHandler(m, HandleChannelMessage(Peer(m.from), m)),
         UNCHANGED call, late' \subseteq late, budget' \in Budgets
  PROVE  IInv'
<1>1. Grown /\ \A x \in Sides : Busy(x) => rc'[x] = rc[x]
  BY HandledGrows
<1> QED
  BY <1>1, CallsStayIInv

LEMMA DeliverTwiceKeepsIInv ==
  ASSUME IInv, NEW p \in Sides, NEW t \in Calls, DeliverTwice(p, t)
  PROVE  IInv'
<1> DEFINE m == call[p][t].msg
<1>1. call[p][t].at # "idle" /\ m \in Requests /\ m.from = p /\ Truthful(m)
  BY CallIsTyped, Zenon DEF DeliverTwice, Unhandled, IInv, CallOK
<1>2. /\ RunHandler(m, HandleChannelMessage(Peer(m.from), m))
      /\ UNCHANGED call /\ late' \subseteq late /\ budget' \in Budgets
  BY <1>1, Zenon DEF DeliverTwice, Use, IInv, TypeOK
<1> HIDE DEF m
<1> QED
  BY <1>1, <1>2, HandledKeepsIInv, Zenon

LEMMA DeliverLateKeepsIInv ==
  ASSUME IInv, NEW m \in late, DeliverLate(m)
  PROVE  IInv'
<1>1. m \in Requests /\ Truthful(m)
  BY DEF IInv, TypeOK
<1>2. /\ RunHandler(m, HandleChannelMessage(Peer(m.from), m))
      /\ UNCHANGED call /\ late' \subseteq late /\ budget' \in Budgets
  BY Zenon DEF DeliverLate, UseNothing, IInv, TypeOK
<1> QED
  BY <1>1, <1>2, HandledKeepsIInv

LEMMA LoseKeepsIInv ==
  ASSUME IInv, NEW p \in Sides, NEW t \in Calls, Lose(p, t) \/ GiveUp(p, t)
  PROVE  IInv'
<1> DEFINE m == call[p][t].msg
<1>1. /\ call[p][t].at # "idle" /\ SetAnswer(p, t, Refused)
      /\ UNCHANGED <<rc, disk, signed, revealed>> /\ budget' \in Budgets
      /\ late' \subseteq late \cup {m}
  BY DEF Lose, GiveUp, Unhandled, SetAnswer, Use, IInv, TypeOK
<1>2. Refused \in Replies /\ Refused.tag # "ok"
  BY DEF Refused, Replies
<1>3. Grown
  BY <1>1, NothingGrows, Zenon
<1>4. m \in Requests /\ Truthful(m)
  BY <1>1, CallIsTyped, Zenon DEF IInv, CallOK
<1>5. \A x \in late' : x \in late \/ Truthful(x)'
  <2> TAKE x \in late'
  <2>1. x \in late \/ x = m
    BY <1>1
  <2>2. Truthful(m) /\ x = m => Truthful(x)'
    BY <1>1 DEF Truthful
  <2> QED
    BY <1>4, <2>1, <2>2
<1>6. late' \subseteq Requests
  BY <1>1, <1>4 DEF IInv, TypeOK
<1> HIDE DEF m
<1> QED
  BY <1>1, <1>2, <1>3, <1>5, <1>6, AnswerKeepsIInv

\* A restart puts the file's copy in memory; the calls are gone.
LEMMA CrashKeepsIInv ==
  ASSUME IInv, NEW p \in Sides, Crash(p)
  PROVE  IInv'
<1>1. /\ rc' = [rc EXCEPT ![p] = disk[p]] /\ call' = [call EXCEPT ![p] = AllIdle]
      /\ UNCHANGED <<disk, late, signed, revealed>> /\ budget' = budget
  BY DEF Crash, Use
<1>2. Grown
  BY <1>1 DEF IInv, TypeOK, Grown
<1>3. Idle \in Waiting /\ Idle.at = "idle" /\ Idle.resp.tag # "ok"
  BY ChannelAssumption, RemoteChannelAssumption
     DEF Idle, Waiting, Request, Requests, Numbered, NoReply, Error, Refused, Replies, Sides, ChanState
<1>4. call' \in [Sides -> [Calls -> Waiting]]
  BY <1>1, <1>3 DEF IInv, TypeOK, AllIdle
<1>5. /\ \A u \in Calls : call'[p][u] = Idle
      /\ \A x \in Sides : x # p => call'[x] = call[x] /\ rc'[x] = rc[x]
  BY <1>1 DEF IInv, TypeOK, AllIdle
<1>6. \A x \in Sides, u \in Calls : CallOK(x, u)'
  <2> TAKE x \in Sides, u \in Calls
  <2>1. CASE x = p
    BY <1>3, <1>5, <2>1 DEF CallOK
  <2>2. CASE x # p
    BY <1>2, <1>5, <2>2, CallStays
  <2> QED
    BY <2>1, <2>2
<1>7. \A x \in Sides : DriveOK(x)'
  <2> TAKE x \in Sides
  <2>1. CASE x = p
    BY <1>3, <1>5, <2>1 DEF DriveOK, Calls
  <2>2. CASE x # p
    BY <1>5, <2>2, DriveStays
  <2> QED
    BY <2>1, <2>2
<1>8. \A m \in late' : Truthful(m)'
  BY <1>1, <1>2, LateStays
<1>9. late' \subseteq Requests /\ budget' \in Budgets
  BY <1>1 DEF IInv, TypeOK
<1> QED
  BY <1>2, <1>4, <1>6, <1>7, <1>8, <1>9, TogetherIInv

---------------------------------------------------------------------------
(* The probe of rchan_tick and the rollback of rchan_recover.              *)

LEMMA RememberGrows ==
  ASSUME IInv, NEW p \in Sides, NEW r, Remember(p, r), UNCHANGED <<signed, revealed>>,
         Store(r, signed[p], signed[Peer(p)], revealed[p]), PhaseKept(rc[p], r)
  PROVE  Grown /\ \A x \in Sides : PhaseKept(rc[x], rc'[x])
<1>1. rc' = [rc EXCEPT ![p] = r] /\ disk' = [disk EXCEPT ![p] = r]
  BY DEF Remember
<1>2. /\ signed' = [signed EXCEPT ![p] = @ \cup {}] /\ revealed' = [revealed EXCEPT ![p] = @ \cup {}]
      /\ signed[p] \cup {} = signed[p] /\ revealed[p] \cup {} = revealed[p]
  BY DEF IInv, TypeOK
<1>3. Grown
  BY <1>1, <1>2, NodeChanges, Zenon
<1>4. rc'[p] = r /\ \A x \in Sides : x # p => rc'[x] = rc[x]
  BY <1>1 DEF IInv, TypeOK
<1> QED
  BY <1>3, <1>4 DEF PhaseKept

LEMMA DriveOutlives ==
  ASSUME IInv, NEW p \in Sides, call'[p]["drive"] = call[p]["drive"], PhaseKept(rc[p], rc'[p])
  PROVE  DriveOK(p)'
BY DEF IInv, DriveOK, PhaseKept

LEMMA OtherCallKeepsIInv ==
  ASSUME IInv, Grown, NEW p \in Sides, NEW t \in Calls, t # "drive", NEW c \in Waiting, SetCall(p, t, c),
         c.at # "idle" => c.msg.from = p /\ c.msg.op \notin {"UPD", "REV"}, c.resp.tag # "ok",
         late' \subseteq late, budget' \in Budgets, \A x \in Sides : PhaseKept(rc[x], rc'[x])
  PROVE  IInv'
<1>1. /\ call' \in [Sides -> [Calls -> Waiting]]
      /\ call'[p][t] = c
      /\ \A x \in Sides, u \in Calls : x # p \/ u # t => call'[x][u] = call[x][u]
  BY CallChanges
<1>2. \A x \in Sides, u \in Calls : CallOK(x, u)'
  <2> TAKE x \in Sides, u \in Calls
  <2>1. CASE x = p /\ u = t
    BY <1>1, <2>1 DEF CallOK, Truthful
  <2>2. CASE x # p \/ u # t
    BY <1>1, <2>2, CallStays, Zenon
  <2> QED
    BY <2>1, <2>2
<1>3. \A x \in Sides : DriveOK(x)'
  BY <1>1, DriveOutlives DEF Calls
<1>4. \A m \in late' : Truthful(m)'
  BY LateStays, Zenon
<1>5. late' \subseteq Requests
  BY Zenon DEF IInv, TypeOK
<1> QED
  BY <1>1, <1>2, <1>3, <1>4, <1>5, TogetherIInv

LEMMA PhaseSame == \A r : PhaseKept(r, r)
BY Zenon DEF PhaseKept

LEMMA TickSyncKeepsIInv ==
  ASSUME IInv, NEW p \in Sides, TickSync(p)
  PROVE  IInv'
<1> DEFINE c == Wait("sync", Request("SYNC", p, Numbered(0)))
<1>1. /\ SetCall(p, "sync", c) /\ UNCHANGED <<rc, disk, signed, revealed>>
      /\ late' \subseteq late /\ budget' \in Budgets
  BY DEF TickSync, UseNothing, IInv, TypeOK
<1>2. Grown /\ \A x \in Sides : PhaseKept(rc[x], rc'[x])
  BY <1>1, NothingGrows, PhaseSame
<1>3. Numbered(0) \in ChanState
  BY NumberedFacts, ChannelAssumption
<1>4. c \in Waiting /\ c.msg.from = p /\ c.msg.op = "SYNC" /\ c.resp.tag # "ok"
  BY <1>3, RequestFacts, WaitFacts
<1>5. "sync" \in Calls
  BY DEF Calls
<1> HIDE DEF c
<1> QED
  BY <1>1, <1>2, <1>4, <1>5, OtherCallKeepsIInv, Zenon

LEMMA SyncContinuesKeepsIInv ==
  ASSUME IInv, NEW p \in Sides, SyncContinues(p)
  PROVE  IInv'
<1> DEFINE r == [rc[p] EXCEPT !.ch = DropPending(@)]
<1>1. /\ SetCall(p, "sync", Idle) /\ UNCHANGED <<signed, revealed>>
      /\ late' \subseteq late /\ budget' \in Budgets
      /\ Remember(p, r) \/ UNCHANGED <<rc, disk>>
  BY DEF SyncContinues, UseNothing, IInv, TypeOK
<1>2. Store(r, signed[p], signed[Peer(p)], revealed[p]) /\ PhaseKept(rc[p], r)
  BY DropPendingKeepsStore, Zenon DEF IInv, PhaseKept
<1> HIDE DEF r
<1>3. Grown /\ \A x \in Sides : PhaseKept(rc[x], rc'[x])
  BY <1>1, <1>2, NothingGrows, PhaseSame, RememberGrows
<1>4. "sync" \in Calls
  BY DEF Calls
<1> QED
  BY <1>1, <1>3, <1>4, IdleFacts, OtherCallKeepsIInv

LEMMA RolledBackKeepsStore ==
  ASSUME IInv, NEW p \in Sides
  PROVE  /\ Store(RolledBack(rc[p]), signed[p], signed[Peer(p)], revealed[p])
         /\ PhaseKept(rc[p], RolledBack(rc[p]))
<1> DEFINE gone == AbandonOut(rc[p])
<1>1. /\ Store(gone, signed[p], signed[Peer(p)], revealed[p])
      /\ rc[p].out_phase # "upd" => gone = rc[p]
      /\ rc[p].out_phase = "upd" => gone.out_phase = "none"
  BY AbandonOutKeepsStore DEF IInv
<1>2. RolledBack(rc[p]) = [gone EXCEPT !.ch = DropPending(@)]
  BY DEF RolledBack
<1> HIDE DEF gone
<1>3. /\ Store(RolledBack(rc[p]), signed[p], signed[Peer(p)], revealed[p])
      /\ RolledBack(rc[p]).out_phase = gone.out_phase /\ RolledBack(rc[p]).out_state = gone.out_state
  BY <1>1, <1>2, DropPendingKeepsStore
<1> QED
  BY <1>1, <1>3 DEF PhaseKept

LEMMA RollbackProposalKeepsIInv ==
  ASSUME IInv, NEW p \in Sides, RollbackProposal(p)
  PROVE  IInv'
<1> DEFINE n == rc[p].out_state.n
           c == Wait("abort", Request("ABORT", p, Numbered(n)))
<1>1. /\ SetCall(p, "rollback", c) /\ UNCHANGED <<rc, disk, signed, revealed>>
      /\ late' \subseteq late /\ budget' \in Budgets
  BY DEF RollbackProposal, Use, IInv, TypeOK
<1>2. Grown /\ \A x \in Sides : PhaseKept(rc[x], rc'[x])
  BY <1>1, NothingGrows, PhaseSame
<1>3. n \in 0 .. MaxNumber
  <2>1. rc[p].out_state \in signed[p] /\ signed[p] \subseteq ChanState
    BY Zenon DEF RollbackProposal, IInv, Store
  <2> QED
    BY <2>1, Zenon DEF ChanState
<1> HIDE DEF n
<1>4. c \in Waiting /\ c.msg.from = p /\ c.msg.op = "ABORT" /\ c.resp.tag # "ok"
  BY <1>3, NumberedFacts, RequestFacts, WaitFacts
<1>5. "rollback" \in Calls
  BY DEF Calls
<1> HIDE DEF c
<1> QED
  BY <1>1, <1>2, <1>4, <1>5, OtherCallKeepsIInv

LEMMA RollbackContinuesKeepsIInv ==
  ASSUME IInv, NEW p \in Sides, RollbackContinues(p)
  PROVE  IInv'
<1>1. /\ SetCall(p, "rollback", Idle) /\ UNCHANGED <<signed, revealed>>
      /\ late' \subseteq late /\ budget' \in Budgets
      /\ Remember(p, RolledBack(rc[p]))
  BY DEF RollbackContinues, UseNothing, IInv, TypeOK
<1>2. Grown /\ \A x \in Sides : PhaseKept(rc[x], rc'[x])
  BY <1>1, RolledBackKeepsStore, RememberGrows, Zenon
<1>3. "rollback" \in Calls
  BY DEF Calls
<1> QED
  BY <1>1, <1>2, <1>3, IdleFacts, OtherCallKeepsIInv

LEMMA RollbackPendingKeepsIInv ==
  ASSUME IInv, NEW p \in Sides, RollbackPending(p)
  PROVE  IInv'
<1>1. /\ UNCHANGED <<call, signed, revealed>>
      /\ late' \subseteq late /\ budget' \in Budgets
      /\ Remember(p, RolledBack(rc[p]))
  BY DEF RollbackPending, Use, IInv, TypeOK
<1>2. Grown /\ \A x \in Sides : PhaseKept(rc[x], rc'[x])
  BY <1>1, RolledBackKeepsStore, RememberGrows
<1>3. \A x \in Sides : DriveOK(x)' /\ \A u \in Calls : CallOK(x, u)'
  BY <1>1, <1>2, DriveOutlives, CallStays
<1>4. call' \in [Sides -> [Calls -> Waiting]] /\ late' \subseteq Requests /\ \A m \in late' : Truthful(m)'
  BY <1>1, <1>2, LateStays DEF IInv, TypeOK
<1> QED
  BY <1>1, <1>2, <1>3, <1>4, TogetherIInv

---------------------------------------------------------------------------
(* rchan_drive.                                                            *)

\* What a stretch of rchan_drive gives away with the request it ends with.
Sent(d, op) == IF d.call.at # "idle" /\ d.call.msg.op = op THEN {d.call.msg.st} ELSE {}

Shown(d) == {s.n : s \in Sent(d, "REV")}

\* A stretch of rchan_drive at node p keeps the invariant.
DriveGood(p, d) ==
    /\ Store(d.rc, signed[p] \cup Sent(d, "UPD"), signed[Peer(p)], revealed[p] \cup Shown(d))
    /\ d.save \/ (Sent(d, "UPD") \subseteq signed[p] /\ Shown(d) \subseteq revealed[p])
    /\ d.call \in Waiting /\ d.call.resp.tag # "ok" /\ d.call.at # "sync"
    /\ d.call.at # "idle" => d.call.msg.from = p
    /\ d.call.at \in {"upd", "reupd"} => d.call.msg.op = "UPD"
    /\ d.call.at \in {"rev", "rev2"} => d.call.msg.op = "REV"
    /\ d.call.at \in {"rev", "rev2", "reupd"} => d.rc.out_phase = "rev"
    /\ d.call.at = "upd" => d.rc.out_phase # "rev"
    /\ d.call.at = "upd" /\ d.rc.out_phase = "upd" => d.rc.out_state = d.call.msg.st

LEMMA RunKeepsIInv ==
  ASSUME IInv, NEW p \in Sides, NEW d, Run(p, d), DriveGood(p, d), UNCHANGED late, UNCHANGED budget
  PROVE  IInv'
<1> DEFINE sig == Sent(d, "UPD")
           secret == Shown(d)
           c == d.call
<1>1. /\ rc' = [rc EXCEPT ![p] = d.rc]
      /\ disk' = IF d.save THEN [disk EXCEPT ![p] = d.rc] ELSE disk
      /\ SetCall(p, "drive", c)
      /\ signed' = [signed EXCEPT ![p] = @ \cup sig]
      /\ revealed' = [revealed EXCEPT ![p] = @ \cup secret]
  BY Zenon DEF Run, Sent, Shown, SetCall
<1>2. /\ Store(d.rc, signed[p] \cup sig, signed[Peer(p)], revealed[p] \cup secret)
      /\ d.save \/ (sig \subseteq signed[p] /\ secret \subseteq revealed[p])
      /\ c \in Waiting
  BY DEF DriveGood
<1>3. Grown /\ sig \subseteq signed'[p] /\ secret \subseteq revealed'[p]
  <2> HIDE DEF sig, secret
  <2>1. \/ disk' = [disk EXCEPT ![p] = d.rc]
        \/ disk' = disk /\ sig \subseteq signed[p] /\ secret \subseteq revealed[p]
    BY <1>1, <1>2
  <2>2. Grown
    BY <1>1, <1>2, <2>1, NodeChanges, Zenon
  <2> QED
    BY <1>1, <2>2 DEF IInv, TypeOK
<1>4. /\ call' \in [Sides -> [Calls -> Waiting]]
      /\ call'[p]["drive"] = c
      /\ \A x \in Sides, u \in Calls : x # p \/ u # "drive" => call'[x][u] = call[x][u]
  <2>1. "drive" \in Calls
    BY DEF Calls
  <2> HIDE DEF c
  <2> QED
    BY <1>1, <1>2, <2>1, CallChanges
<1>5. rc'[p] = d.rc /\ \A x \in Sides : x # p => rc'[x] = rc[x]
  BY <1>1 DEF IInv, TypeOK
<1>6. \A x \in Sides, u \in Calls : CallOK(x, u)'
  <2> TAKE x \in Sides, u \in Calls
  <2>1. CASE x = p /\ u = "drive"
    <3>1. c.at # "idle" => c.msg.from = p
      BY DEF DriveGood
    <3>2. c.at # "idle" /\ c.msg.op = "UPD" => c.msg.st \in signed'[p]
      BY <1>3, Zenon DEF Sent
    <3>3. c.at # "idle" /\ c.msg.op = "REV" => c.msg.st.n \in revealed'[p]
      BY <1>3, Zenon DEF Sent, Shown
    <3>4. c.resp.tag # "ok"
      BY Zenon DEF DriveGood
    <3> QED
      BY <1>4, <2>1, <3>1, <3>2, <3>3, <3>4, Zenon DEF CallOK, Truthful
  <2>2. CASE x # p \/ u # "drive"
    BY <1>3, <1>4, <2>2, CallStays
  <2> QED
    BY <2>1, <2>2, Zenon
<1>7. \A x \in Sides : DriveOK(x)'
  <2> TAKE x \in Sides
  <2>1. CASE x = p
    BY <1>4, <1>5, <2>1, Zenon DEF DriveOK, DriveGood
  <2>2. CASE x # p
    BY <1>4, <1>5, <2>2, DriveStays, Zenon DEF Calls
  <2> QED
    BY <2>1, <2>2, Zenon
<1>8. late' \subseteq Requests /\ budget' \in Budgets /\ \A m \in late' : Truthful(m)'
  BY <1>3, LateStays, Zenon DEF IInv, TypeOK
<1> QED
  BY <1>3, <1>4, <1>6, <1>7, <1>8, TogetherIInv

\* A stretch that ends without a request that gives anything away.
LEMMA QuietIsGood ==
  ASSUME IInv, NEW p \in Sides, NEW d, Store(d.rc, signed[p], signed[Peer(p)], revealed[p]),
         d.call \in Waiting, d.call.resp.tag # "ok",
         d.call.at = "idle" \/ (d.call.at = "abort" /\ d.call.msg.op = "ABORT" /\ d.call.msg.from = p)
  PROVE  DriveGood(p, d)
<1>1. Sent(d, "UPD") = {} /\ Sent(d, "REV") = {}
  BY DEF Sent
<1>2. Shown(d) = {}
  BY <1>1 DEF Shown
<1>3. signed[p] \cup Sent(d, "UPD") = signed[p] /\ revealed[p] \cup Shown(d) = revealed[p]
  BY <1>1, <1>2
<1> QED
  BY <1>1, <1>2, <1>3, Zenon DEF DriveGood

LEMMA StopIsGood ==
  ASSUME IInv, NEW p \in Sides, NEW r, Store(r, signed[p], signed[Peer(p)], revealed[p])
  PROVE  DriveGood(p, Stop(r))
<1>1. Stop(r).rc = r /\ Stop(r).call = Idle
  BY Zenon DEF Stop, Drove
<1> QED
  BY <1>1, IdleFacts, QuietIsGood

\* A request UPD for a state s that is signed with it.
LEMMA UpdIsGood ==
  ASSUME IInv, NEW p \in Sides, NEW d, NEW s \in ChanState, NEW at \in {"upd", "reupd"},
         d.call = Wait(at, Request("UPD", p, s)),
         Store(d.rc, signed[p] \cup {s}, signed[Peer(p)], revealed[p]),
         d.save \/ s \in signed[p],
         at = "upd" => d.rc.out_phase = "upd" /\ d.rc.out_state = s,
         at = "reupd" => d.rc.out_phase = "rev"
  PROVE  DriveGood(p, d)
<1>1. /\ d.call \in Waiting /\ d.call.at = at /\ d.call.resp.tag # "ok"
      /\ d.call.msg.op = "UPD" /\ d.call.msg.from = p /\ d.call.msg.st = s
  BY RequestFacts, WaitFacts
<1>2. Sent(d, "UPD") = {s} /\ Sent(d, "REV") = {}
  BY <1>1 DEF Sent
<1>3. Shown(d) = {}
  BY <1>2 DEF Shown
<1>4. revealed[p] \cup Shown(d) = revealed[p]
  BY <1>3, Zenon
<1> QED
  BY <1>1, <1>2, <1>3, <1>4, Zenon DEF DriveGood

\* A request REV: the secret of the state before the current one.
LEMMA RevIsGood ==
  ASSUME IInv, NEW p \in Sides, NEW d, NEW n \in 0 .. MaxNumber, NEW at \in {"rev", "rev2"},
         d.call = Wait(at, Request("REV", p, Numbered(n))),
         Store(d.rc, signed[p], signed[Peer(p)], revealed[p] \cup {n}),
         d.save \/ n \in revealed[p],
         d.rc.out_phase = "rev"
  PROVE  DriveGood(p, d)
<1>1. Numbered(n) \in ChanState /\ Numbered(n).n = n
  BY NumberedFacts, Zenon
<1>2. /\ d.call \in Waiting /\ d.call.at = at /\ d.call.resp.tag # "ok"
      /\ d.call.msg.op = "REV" /\ d.call.msg.from = p /\ d.call.msg.st = Numbered(n)
  BY <1>1, RequestFacts, WaitFacts
<1>3. Sent(d, "UPD") = {} /\ Sent(d, "REV") = {Numbered(n)}
  BY <1>2 DEF Sent
<1>4. Shown(d) = {n}
  BY <1>1, <1>3, Zenon DEF Shown
<1>5. signed[p] \cup Sent(d, "UPD") = signed[p]
  BY <1>3
<1> QED
  BY <1>2, <1>3, <1>4, <1>5, Zenon DEF DriveGood

\* A revoked state whose revocation is (re)sent.
LEMMA SendRevIsGood ==
  ASSUME IInv, NEW p \in Sides, NEW r, Store(r, signed[p], signed[Peer(p)], revealed[p]),
         r.out_phase = "rev", NEW at \in {"rev", "rev2"}
  PROVE  DriveGood(p, SendRev(p, r, FALSE, at))
<1> DEFINE n == LastRevoked(r.ch)
           d == SendRev(p, r, FALSE, at)
<1>1. r.ch.cur.n \in 0 .. MaxNumber /\ r.ch.cur.n >= 1 /\ r.ch.cur.n - 1 \in revealed[p]
  BY EndpointFields DEF Store, ChanState
<1>2. n \in 0 .. MaxNumber /\ n \in revealed[p]
  BY <1>1, ChannelAssumption DEF LastRevoked
<1>3. d.rc = r /\ d.call = Wait(at, Request("REV", p, Numbered(n)))
  BY DEF SendRev, Drove
<1>4. revealed[p] \cup {n} = revealed[p]
  BY <1>2
<1> HIDE DEF n, d
<1>5. DriveGood(p, d)
  BY <1>2, <1>3, <1>4, RevIsGood
<1> QED
  BY <1>5, Zenon DEF d

\* The peer has signed our proposal next: the current state is revoked.
LEMMA AdvanceIsGood ==
  ASSUME IInv, NEW p \in Sides, NEW r, Store(r, signed[p], signed[Peer(p)], revealed[p]),
         NEW next \in ChanState, next \in signed[p] \cap signed[Peer(p)], ValidateNext(r.ch, next),
         r.out_phase # "rev", r.out_phase = "upd" => r.out_state = next
  PROVE  DriveGood(p, Advance(p, [r EXCEPT !.ch = ReceiveCommitSig(@, next)]))
<1> DEFINE x == [r EXCEPT !.ch = ReceiveCommitSig(@, next)]
           y == [x EXCEPT !.ch = RevokeAndAdvance(@), !.out_phase = "rev"]
           d == Advance(p, x)
           n == r.ch.cur.n
<1>1. r \in Endpoints /\ r.ch.pending = None /\ next.n = n + 1
  BY Zenon DEF Store, ValidateNext, HasPending
<1>2. n \in 0 .. MaxNumber
  BY <1>1, EndpointFields DEF ChanState
<1>a. /\ x \in Endpoints /\ x.ch.pending = next /\ x.ch.cur = r.ch.cur
      /\ x.ch.remote_hashes = r.ch.remote_hashes /\ x.ch.remote_secrets = r.ch.remote_secrets
      /\ x.ch.history = r.ch.history /\ x.ch.abandoned = r.ch.abandoned
  BY <1>1 DEF Endpoints, ReceiveCommitSig
<1> HIDE DEF x
<1>b. /\ y.ch.cur = next /\ y.ch.pending = None
      /\ y.ch.remote_hashes = x.ch.remote_hashes /\ y.ch.remote_secrets = x.ch.remote_secrets
      /\ y.ch.history = x.ch.history \cup {x.ch.cur} /\ y.ch.abandoned = x.ch.abandoned
      /\ y.out_phase = "rev"
  BY <1>a, Zenon DEF Endpoints, RevokeAndAdvance
<1>3. /\ y.ch.cur = next /\ y.ch.pending = None
      /\ y.ch.remote_hashes = r.ch.remote_hashes /\ y.ch.remote_secrets = r.ch.remote_secrets
      /\ y.ch.history = r.ch.history \cup {r.ch.cur} /\ y.ch.abandoned = r.ch.abandoned
      /\ y.out_phase = "rev"
  BY <1>a, <1>b, Zenon
<1>4. y \in Endpoints
  BY <1>a, Zenon DEF Endpoints, RevokeAndAdvance
<1>5. d.rc = y /\ d.save = TRUE /\ d.call = Wait("rev", Request("REV", p, Numbered(LastRevoked(y.ch))))
  BY Zenon DEF Advance, SendRev, Drove
<1> HIDE DEF x, y, d
<1>6. LastRevoked(y.ch) = n
  BY <1>1, <1>2, <1>3, SMTT(30) DEF LastRevoked
<1>7. Store(y, signed[p], signed[Peer(p)], revealed[p] \cup {n})
  BY <1>1, <1>3, <1>4, AdvanceKeepsStore, Zenon
<1> HIDE DEF n
<1>8. DriveGood(p, d)
  BY <1>2, <1>3, <1>5, <1>6, <1>7, RevIsGood, Zenon
<1> QED
  BY <1>8, Zenon DEF d, x

LEMMA FinishIsGood ==
  ASSUME IInv, NEW p \in Sides, rc[p].out_phase = "rev", NEW n \in revealed[Peer(p)]
  PROVE  DriveGood(p, Finish(rc[p], n))
<1> DEFINE r == rc[p]
           x == [r EXCEPT !.ch = ReceiveRevoke(@, n)]
           y == ClearOutbox(x)
<1>1. Store(r, signed[p], signed[Peer(p)], revealed[p])
  BY DEF IInv
<1>2. n \in Nat /\ n < r.ch.cur.n
  BY Sides2, RevealedBehind
<1>3. CASE ~CanReceiveRevoke(r.ch, n)
  BY <1>1, <1>3, StopIsGood, Zenon DEF Finish
<1>4. CASE CanReceiveRevoke(r.ch, n)
  <2>1. Store(x, signed[p], signed[Peer(p)], revealed[p])
    BY <1>1, <1>2, <1>4, ReceiveRevokeKeepsStore
  <2>2. x.out_phase = "rev"
    BY <1>1, Zenon DEF Store, Endpoints
  <2> HIDE DEF x
  <2>3. Store(y, signed[p], signed[Peer(p)], revealed[p])
    <3>1. y.ch = x.ch /\ y.out_phase = "none" /\ y \in Endpoints
      BY <2>1, Zenon DEF Store, Endpoints, ClearOutbox
    <3>2. \A s : Known(x, s) => Known(y, s)
      BY <2>2, <3>1 DEF Known
    <3> HIDE DEF y
    <3> QED
      BY <2>1, <3>1, <3>2 DEF Store
  <2>4. Finish(r, n) = Stop(y)
    BY <1>4 DEF Finish, x
  <2> QED
    BY <2>3, <2>4, StopIsGood
<1> QED
  BY <1>3, <1>4

\* The outbox of a node that has proposed, or that resumes a proposal.
LEMMA DriveUpdIsGood ==
  ASSUME IInv, NEW p \in Sides, NEW r, NEW s \in ChanState, NEW d,
         Store(r, signed[p] \cup {s}, signed[Peer(p)], revealed[p]), r.out_phase = "upd", r.out_state = s,
         d.rc = Drive(p, r).rc, d.call = Drive(p, r).call, d.save \/ s \in signed[p]
  PROVE  DriveGood(p, d)
<1> DEFINE free == [r EXCEPT !.ch = DropPending(@)]
<1>1. ~HasPending(r.ch) /\ s.n = r.ch.cur.n + 1 /\ s # None
  BY NoneIsNoState DEF Store
<1>2. Drive(p, r) = DriveUpd(p, r)
  BY <1>1 DEF Drive
<1>3. DriveUpd(p, r) = SendUpd(p, free, s, "upd")
  BY <1>1 DEF DriveUpd, HasPending
<1>4. d.rc = free /\ d.call = Wait("upd", Request("UPD", p, s))
  BY <1>2, <1>3 DEF SendUpd, Drove
<1>5. /\ Store(free, signed[p] \cup {s}, signed[Peer(p)], revealed[p])
      /\ free.out_phase = "upd" /\ free.out_state = s
  BY DropPendingKeepsStore
<1> HIDE DEF free
<1> QED
  BY <1>4, <1>5, UpdIsGood

LEMMA PayKeepsIInv ==
  ASSUME IInv, NEW p \in Sides, NEW amount, Pay(p, amount)
  PROVE  IInv'
<1> DEFINE cur == rc[p].ch.cur
           next == [n |-> cur.n + 1, bal_a |-> cur.bal_a + (IF p = "a" THEN -amount ELSE amount)]
           r == [rc[p] EXCEPT !.out_phase = "upd", !.out_state = next]
           d == [Drive(p, r) EXCEPT !.save = TRUE]
<1>1. /\ cur.n < budget.number /\ rc[p].out_phase = "none" /\ ValidateNext(rc[p].ch, next)
      /\ Run(p, d) /\ UNCHANGED late /\ UNCHANGED budget
  BY Zenon DEF Pay, Propose, Use
<1>2. Store(rc[p], signed[p], signed[Peer(p)], revealed[p]) /\ rc[p] \in Endpoints
  BY Zenon DEF IInv, Store
<1>3. cur.n \in Nat /\ budget.number \in 1 .. MaxNumber
  BY <1>2, EndpointFields, RemoteChannelAssumption, Zenon DEF IInv, TypeOK
<1>4. next \in ChanState
  <2>1. next.bal_a \in 0 .. Capacity
    BY <1>1, ChannelAssumption DEF ValidateNext
  <2>2. next.n \in 0 .. MaxNumber
    BY <1>1, <1>3, ChannelAssumption
  <2>3. next = [n |-> next.n, bal_a |-> next.bal_a]
    OBVIOUS
  <2> HIDE DEF next
  <2> QED
    BY <2>1, <2>2, <2>3 DEF ChanState
<1>5. next.n = cur.n + 1 /\ ~HasPending(rc[p].ch)
  BY <1>1 DEF ValidateNext
<1> HIDE DEF next
<1>6. r.ch = rc[p].ch /\ r.out_phase = "upd" /\ r.out_state = next /\ r \in Endpoints
  BY <1>2, <1>4, Zenon DEF Endpoints
<1> HIDE DEF r
<1>7. Store(r, signed[p] \cup {next}, signed[Peer(p)], revealed[p])
  <2>1. \A s \in signed[p] \cup {next} : s.n <= cur.n + 1 /\ Known(r, s)
    <3> TAKE s \in signed[p] \cup {next}
    <3>1. CASE s \in signed[p]
      BY <1>1, <1>2, <1>6, <3>1 DEF Store, Known
    <3>2. CASE s = next
      BY <1>3, <1>5, <1>6, <3>2, SMTT(30) DEF Known
    <3> QED
      BY <3>1, <3>2
  <2> QED
    BY <1>1, <1>2, <1>4, <1>5, <1>6, <2>1 DEF Store
<1>8. d.rc = Drive(p, r).rc /\ d.call = Drive(p, r).call /\ d.save
  BY DriveIsRecord, Zenon
<1> HIDE DEF d
<1>9. DriveGood(p, d)
  BY <1>4, <1>6, <1>7, <1>8, DriveUpdIsGood
<1> QED
  BY <1>1, <1>9, RunKeepsIInv

LEMMA ResumeKeepsIInv ==
  ASSUME IInv, NEW p \in Sides, Resume(p)
  PROVE  IInv'
<1> DEFINE r == rc[p]
<1>1. /\ r.out_phase # "none" /\ Run(p, Drive(p, r)) /\ UNCHANGED late /\ UNCHANGED budget
  BY Zenon DEF Resume, UseNothing
<1>2. Store(r, signed[p], signed[Peer(p)], revealed[p]) /\ r \in Endpoints
  BY Zenon DEF IInv, Store
<1>3. r.out_phase \in {"upd", "rev"}
  BY <1>1, <1>2, EndpointFields
<1>4. CASE r.out_phase = "upd"
  <2>1. r.out_state \in signed[p] /\ r.out_state \in ChanState /\ signed[p] \cup {r.out_state} = signed[p]
    BY <1>2, <1>4, Zenon DEF Store
  <2>2. DriveGood(p, Drive(p, r))
    BY <1>2, <1>4, <2>1, DriveUpdIsGood
  <2> QED
    BY <1>1, <2>2, RunKeepsIInv, Zenon
<1>5. CASE r.out_phase = "rev" /\ r.out_state # None
  <2>1. Drive(p, r) = SendRev(p, r, FALSE, "rev")
    BY <1>5, Zenon DEF Drive
  <2>2. DriveGood(p, Drive(p, r))
    BY <1>2, <1>5, <2>1, SendRevIsGood, Zenon
  <2> QED
    BY <1>1, <2>2, RunKeepsIInv
<1>6. CASE r.out_phase = "rev" /\ r.out_state = None
  <2> DEFINE x == [r EXCEPT !.out_phase = "none"]
  <2>1. Drive(p, r) = Drove(x, FALSE, Idle)
    BY <1>6 DEF Drive
  <2>2. x.ch = r.ch /\ x.out_phase = "none" /\ x \in Endpoints
    BY <1>2 DEF Endpoints
  <2> HIDE DEF x
  <2>3. \A s : Known(r, s) => Known(x, s)
    BY <1>6, <2>2 DEF Known
  <2>4. Store(x, signed[p], signed[Peer(p)], revealed[p])
    BY <1>2, <2>2, <2>3, Zenon DEF Store
  <2>5. Drive(p, r).rc = x /\ Drive(p, r).call = Idle
    BY <2>1 DEF Drove
  <2>6. DriveGood(p, Drive(p, r))
    BY <2>4, <2>5, IdleFacts, QuietIsGood, Zenon
  <2> QED
    BY <1>1, <2>6, RunKeepsIInv
<1> QED
  BY <1>3, <1>4, <1>5, <1>6

LEMMA UpdAnsweredIsGood ==
  ASSUME IInv, NEW p \in Sides, call[p]["drive"].at = "upd"
  PROVE  DriveGood(p, UpdAnswered(p, rc[p], call[p]["drive"]))
<1> DEFINE r == rc[p]
           c == call[p]["drive"]
           next == c.msg.st
<1>1. Store(r, signed[p], signed[Peer(p)], revealed[p])
  BY Zenon DEF IInv
<1>2. /\ c.msg.op = "UPD" /\ r.out_phase # "rev" /\ (r.out_phase = "upd" => r.out_state = next)
  BY Zenon DEF IInv, DriveOK
<1>3. /\ next \in signed[p] /\ (c.resp.tag = "ok" => next \in signed[Peer(p)])
  BY <1>2, Zenon DEF IInv, CallOK, Truthful, Calls
<1>4. next \in ChanState /\ next.n \in 0 .. MaxNumber
  BY <1>1, <1>3, Zenon DEF Store, ChanState
<1>5. CASE c.resp.tag = "ok" /\ ValidateNext(r.ch, next)
  <2>1. UpdAnswered(p, r, c) = Advance(p, [r EXCEPT !.ch = ReceiveCommitSig(@, next)])
    BY <1>5 DEF UpdAnswered
  <2> HIDE DEF c, r, next
  <2>2. DriveGood(p, Advance(p, [r EXCEPT !.ch = ReceiveCommitSig(@, next)]))
    BY <1>1, <1>2, <1>3, <1>4, <1>5, AdvanceIsGood
  <2> QED
    BY <2>1, <2>2 DEF c, r
<1>6. CASE c.resp.tag = "ok" /\ ~ValidateNext(r.ch, next)
  BY <1>1, <1>6, StopIsGood, Zenon DEF UpdAnswered
<1>7. CASE c.resp.tag = "conflict" /\ p = "a"
  <2> DEFINE m == Request("ABORT", p, Numbered(next.n))
  <2>1. m \in Requests /\ m.op = "ABORT" /\ m.from = p
    BY <1>4, NumberedFacts, RequestFacts
  <2>2. UpdAnswered(p, r, c).rc = r /\ UpdAnswered(p, r, c).call = Wait("abort", m)
    BY <1>7 DEF UpdAnswered, Drove
  <2> HIDE DEF m
  <2>3. /\ Wait("abort", m) \in Waiting /\ Wait("abort", m).at = "abort" /\ Wait("abort", m).msg = m
        /\ Wait("abort", m).resp.tag # "ok"
    BY <2>1, WaitFacts
  <2> QED
    BY <1>1, <2>1, <2>2, <2>3, QuietIsGood, Zenon
<1>8. CASE c.resp.tag = "conflict" /\ p # "a"
  <2>1. Store(AbandonOut(r), signed[p], signed[Peer(p)], revealed[p])
    BY <1>1, AbandonOutKeepsStore
  <2> QED
    BY <1>8, <2>1, StopIsGood DEF UpdAnswered
<1>9. CASE c.resp.tag \notin {"ok", "conflict"}
  BY <1>1, <1>9, StopIsGood, Zenon DEF UpdAnswered
<1> QED
  BY <1>5, <1>6, <1>7, <1>8, <1>9

LEMMA RevAnsweredIsGood ==
  ASSUME IInv, NEW p \in Sides, call[p]["drive"].at \in {"rev", "rev2"}
  PROVE  DriveGood(p, RevAnswered(p, rc[p], call[p]["drive"]))
<1> DEFINE r == rc[p]
           c == call[p]["drive"]
<1>1. Store(r, signed[p], signed[Peer(p)], revealed[p])
  BY DEF IInv
<1>2. c.msg.op = "REV" /\ r.out_phase = "rev" /\ (c.resp.tag = "ok" => c.resp.n \in revealed[Peer(p)])
  BY Zenon DEF IInv, DriveOK, CallOK, Calls
<1>3. CASE c.resp.tag = "ok"
  BY <1>2, <1>3, FinishIsGood DEF RevAnswered
<1>4. CASE c.resp.tag = "nopending" /\ c.at = "rev"
  <2> DEFINE d == RevAnswered(p, r, c)
             s == r.ch.cur
  <2>1. d.rc = r /\ d.call = Wait("reupd", Request("UPD", p, s))
    BY <1>4, Zenon DEF RevAnswered, SendUpd, Drove
  <2>2. s \in signed[p] /\ s \in ChanState
    BY <1>1 DEF Store
  <2>3. signed[p] \cup {s} = signed[p]
    BY <2>2, Zenon
  <2> HIDE DEF d, s
  <2>4. DriveGood(p, d)
    BY <1>1, <1>2, <2>1, <2>2, <2>3, UpdIsGood, Zenon
  <2> QED
    BY <2>4 DEF d
<1>5. CASE c.resp.tag # "ok" /\ ~(c.resp.tag = "nopending" /\ c.at = "rev")
  <2>1. RevAnswered(p, r, c) = Stop(r)
    BY <1>5, Zenon DEF RevAnswered
  <2> QED
    BY <1>1, <2>1, StopIsGood
<1> QED
  BY <1>3, <1>4, <1>5

LEMMA DriveContinuesKeepsIInv ==
  ASSUME IInv, NEW p \in Sides, DriveContinues(p)
  PROVE  IInv'
<1> DEFINE r == rc[p]
           c == call[p]["drive"]
           d == DriveOn(p, r, c)
<1>1. c.at # "idle" /\ Run(p, d) /\ UNCHANGED late /\ UNCHANGED budget
  BY DEF DriveContinues, Busy, UseNothing
<1>2. Store(r, signed[p], signed[Peer(p)], revealed[p])
  BY Zenon DEF IInv
<1>3. c.at \in {"upd", "abort", "rev", "rev2", "reupd"}
  BY <1>1, CallIsTyped, Zenon DEF Waiting, Calls, IInv, DriveOK
<1>4. CASE c.at = "upd"
  <2>1. d = UpdAnswered(p, r, c)
    BY <1>4, Zenon DEF DriveOn
  <2> QED
    BY <1>1, <1>4, <2>1, UpdAnsweredIsGood, RunKeepsIInv, Zenon
<1>5. CASE c.at = "abort"
  <2>1. d = Stop(r)
    BY <1>5, Zenon DEF DriveOn
  <2> QED
    BY <1>1, <1>2, <2>1, StopIsGood, RunKeepsIInv, Zenon
<1>6. CASE c.at \in {"rev", "rev2"}
  <2>1. d = RevAnswered(p, r, c)
    BY <1>6, Zenon DEF DriveOn
  <2> QED
    BY <1>1, <1>6, <2>1, RevAnsweredIsGood, RunKeepsIInv, Zenon
<1>7. CASE c.at = "reupd"
  <2>1. d = ReUpdAnswered(p, r, c) /\ r.out_phase = "rev"
    BY <1>7 DEF DriveOn, IInv, DriveOK
  <2>2. DriveGood(p, SendRev(p, r, FALSE, "rev2")) /\ DriveGood(p, Stop(r))
    BY <1>2, <2>1, SendRevIsGood, StopIsGood, Zenon
  <2>3. d = SendRev(p, r, FALSE, "rev2") \/ d = Stop(r)
    BY <2>1, Zenon DEF ReUpdAnswered
  <2> QED
    BY <1>1, <2>2, <2>3, RunKeepsIInv, Zenon
<1> QED
  BY <1>3, <1>4, <1>5, <1>6, <1>7, Zenon

---------------------------------------------------------------------------
(* The theorems.                                                           *)

LEMMA InitIInv == Init => IInv
<1> SUFFICES ASSUME Init PROVE IInv
  OBVIOUS
<1>1. State0 \in ChanState /\ State0 # None /\ State0.n = 0
  BY ChannelAssumption, RemoteChannelAssumption DEF State0, ChanState, None
<1>2. Opened \in Endpoints
  BY <1>1, ChannelAssumption DEF Opened, OpenedChannel, Endpoints
<1>3. /\ Opened.ch.cur = State0 /\ Opened.ch.pending = None /\ Opened.out_phase = "none"
      /\ Opened.ch.remote_secrets = {}
  BY DEF Opened, OpenedChannel
<1> HIDE DEF State0, Opened
<1>4. Store(Opened, {State0}, {State0}, {})
  BY <1>1, <1>2, <1>3 DEF Store, HasPending, Known
<1>5. \A p \in Sides : /\ rc[p] = Opened /\ disk[p] = Opened /\ signed[p] = {State0}
                       /\ signed[Peer(p)] = {State0} /\ revealed[p] = {}
                       /\ \A t \in Calls : call[p][t] = Idle
  BY Sides2, Zenon DEF Init, AllIdle
<1>6. TypeOK
  BY <1>1, <1>2, <1>5, IdleFacts, Zenon DEF Init, TypeOK, AllIdle
<1>7. \A p \in Sides : DriveOK(p) /\ \A t \in Calls : CallOK(p, t)
  BY <1>5, IdleFacts DEF DriveOK, CallOK, Calls
<1> QED
  BY <1>4, <1>5, <1>6, <1>7, Zenon DEF IInv, Init

LEMMA NextIInv == IInv /\ [Next]_vars => IInv'
<1> SUFFICES ASSUME IInv, [Next]_vars PROVE IInv'
  OBVIOUS
<1>1. ASSUME NEW p \in Sides, NodeStep(p) PROVE IInv'
  BY <1>1, ResumeKeepsIInv, DriveContinuesKeepsIInv, TickSyncKeepsIInv, SyncContinuesKeepsIInv,
     RollbackContinuesKeepsIInv, RollbackProposalKeepsIInv, RollbackPendingKeepsIInv DEF NodeStep
<1>2. ASSUME NEW p \in Sides, Crash(p) PROVE IInv'
  BY <1>2, CrashKeepsIInv
<1>3. ASSUME NEW p \in Proposers, NEW amount \in budget.amounts, Pay(p, amount) PROVE IInv'
  BY <1>3, PayKeepsIInv, RemoteChannelAssumption
<1>4. ASSUME NEW p \in Sides, NEW t \in Calls, Network(p, t) PROVE IInv'
  BY <1>4, DeliverKeepsIInv, DeliverTwiceKeepsIInv, LoseKeepsIInv DEF Network
<1>5. ASSUME NEW m \in late, DeliverLate(m) PROVE IInv'
  BY <1>5, DeliverLateKeepsIInv
<1>6. CASE UNCHANGED vars
  BY <1>6, ZenonT(30) DEF vars, IInv, TypeOK, DriveOK, CallOK, Truthful
<1> QED
  BY <1>1, <1>2, <1>3, <1>4, <1>5, <1>6 DEF Next

\* Every reachable state satisfies the inductive invariant.
THEOREM ChannelInvariant == Spec => []IInv
BY InitIInv, NextIInv, PTL DEF Spec

\* The memory and the channel file of a node, the requests it waits for and the
\* records of what it gave away keep their types, whatever the bounds.
THEOREM ChannelTypeCorrect == Spec => []TypeOK
<1>1. IInv => TypeOK
  BY DEF IInv
<1> QED
  BY <1>1, ChannelInvariant, PTL

\* A revoked state can be punished, from memory and from the file: every state a node
\* has signed is current, pending, proposed, in the history or abandoned, and only
\* the last two can bear a number that the peer has revoked.
THEOREM Punishable == Spec => []RevokedIsPunishable
<1>1. IInv => RevokedIsPunishable
  <2> SUFFICES ASSUME IInv, NEW p \in Sides, NEW s \in signed[p], NEW r \in {rc[p], disk[p]},
                      s.n \in r.ch.remote_secrets
               PROVE  CanPunish(r.ch, s)
    BY DEF RevokedIsPunishable
  <2>1. Store(r, signed[p], signed[Peer(p)], revealed[p])
    BY Zenon DEF IInv
  <2>2. Known(r, s) /\ s.n < r.ch.cur.n /\ s.n \in r.ch.remote_hashes /\ r.ch.cur.n \in Nat
    BY <2>1, EndpointFields, Zenon DEF Store
  <2>3. s \in ChanState /\ s # None
    BY <2>1, NoneIsNoState, Zenon DEF Store
  <2>4. s \in r.ch.history \cup r.ch.abandoned
    BY <2>1, <2>2, <2>3 DEF Known, Store, HasPending
  <2> QED
    BY <2>2, <2>4 DEF CanPunish
<1> QED
  BY <1>1, ChannelInvariant, PTL

\* A unilateral close is safe at any moment, before and after a restart: the current
\* state, in memory and in the file, is signed by the peer, and its secret is kept.
THEOREM SafeClose == Spec => []ForceCloseIsSafe
<1>1. IInv => ForceCloseIsSafe
  BY Zenon DEF IInv, Store, ForceCloseIsSafe
<1> QED
  BY <1>1, ChannelInvariant, PTL
=============================================================================
