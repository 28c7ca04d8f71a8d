-------------------------- MODULE ChannelAgreement --------------------------
(***************************************************************************)
(* Proofs that the two nodes of a channel agree and finish what they began *)
(* (NodesAgreeInOrder and DriveKeepsOutbox of RemoteChannel): the          *)
(* invariant AInv, on top of the inductive invariant IInv of               *)
(* ChannelProofs; the cases of handle_channel_message; the steps that move *)
(* neither node's channel; the steps in which a request is handled or      *)
(* rchan_drive goes on; the theorems.                                      *)
(***************************************************************************)
EXTENDS ChannelProofs

\* The file is behind the memory by a dropped pending state at most.
FileIsCurrent(p) ==
    /\ disk[p].ch.cur = rc[p].ch.cur
    /\ rc[p].ch.pending \in {None, disk[p].ch.pending}

Accepted(p) == call[p]["drive"].at = "upd" /\ call[p]["drive"].resp.tag = "ok"

\* The requests of rchan_drive are about the current state; no other call proposes or
\* revokes anything.
DriveIsCurrent(p) ==
    LET c == call[p]["drive"]
        cur == rc[p].ch.cur
    IN  /\ c.at = "upd" => c.msg.st.n = cur.n + 1
        /\ c.at = "abort" => c.msg.op = "ABORT"
        /\ c.at = "reupd" => c.msg.st = cur
        /\ c.at \in {"rev", "rev2"} => c.msg.st.n = cur.n - 1 /\ (c.resp.tag = "ok" => c.resp.n = cur.n - 1)
        /\ \A t \in Calls : t # "drive" /\ call[p][t].at # "idle" => call[p][t].msg.op \notin {"UPD", "REV"}

\* The peer of a node that is ahead can only follow it; the peer of a node whose
\* proposal it has signed waits for the revocation.
Follows(p) ==
    LET q == Peer(p)
    IN  /\ rc[p].ch.cur.n = rc[q].ch.cur.n + 1 => disk[q].ch.pending \in {None, rc[p].ch.cur}
        /\ rc[p].ch.cur.n = rc[q].ch.cur.n => rc[p].ch.cur = rc[q].ch.cur
        /\ Accepted(p) => /\ rc[q].ch.cur.n = rc[p].ch.cur.n
                          /\ disk[q].ch.pending \in {None, call[p]["drive"].msg.st}
                          /\ ~Accepted(q)

\* One copy of a channel knows what to resume.
Resumable(r) ==
    /\ r.out_phase = "rev" => r.out_state # None
    /\ AwaitingRemoteRevoke(r.ch) => r.out_phase = "rev"

Resumes(p) ==
    /\ Resumable(rc[p]) /\ Resumable(disk[p])
    /\ call[p]["drive"].at = "upd" => rc[p].out_phase = "upd"
    /\ call[p]["rollback"] = Idle

Used == [proposals : Nat, rollbacks : Nat, faults : Nat, late : Nat, crashes : Nat]
AllFollow == \A p \in Sides : Follows(p)

AllResume == \A p \in Sides : Resumes(p)

AInv ==
    /\ used \in Used
    /\ used.late = 0 => late = {}
    /\ \A p \in Sides : FileIsCurrent(p) /\ DriveIsCurrent(p)
    /\ used.late = 0 => AllFollow
    /\ used.late = 0 /\ used.rollbacks = 0 => AllResume

---------------------------------------------------------------------------
(* What the operations on one copy of a channel leave alone.               *)

\* The current state stays, and the pending state is kept or dropped.
Quiet(r, new) == new.ch.cur = r.ch.cur /\ new.ch.pending \in {None, r.ch.pending}

\* State numbers: a number is not its successor, and no two are each other's.
LEMMA NotOneMore == \A a \in Nat : a # a + 1
OBVIOUS

LEMMA OneMore ==
  \A a : \A b \in Nat : a = b + 1 => a # b /\ b # a + 1 /\ a - 1 = b
OBVIOUS

LEMMA ResumableStays ==
  ASSUME NEW r, NEW new, new.ch.cur = r.ch.cur, r.ch.remote_hashes \subseteq new.ch.remote_hashes,
         PhaseKept(r, new), Resumable(r)
  PROVE  Resumable(new)
BY DEF Resumable, PhaseKept, AwaitingRemoteRevoke

LEMMA DropFields ==
  ASSUME NEW r \in Endpoints
  PROVE  LET d == [r EXCEPT !.ch = DropPending(@)]
         IN  /\ d.ch.cur = r.ch.cur /\ d.ch.pending = None /\ d.ch.remote_hashes = r.ch.remote_hashes
             /\ d.out_phase = r.out_phase /\ d.out_state = r.out_state
             /\ Quiet(r, d) /\ PhaseKept(r, d) /\ (Resumable(r) => Resumable(d))
<1> DEFINE d == [r EXCEPT !.ch = DropPending(@)]
<1>1. /\ d.ch.cur = r.ch.cur /\ d.ch.pending = None /\ d.ch.remote_hashes = r.ch.remote_hashes
      /\ d.out_phase = r.out_phase /\ d.out_state = r.out_state
  BY Zenon DEF Endpoints, DropPending
<1> HIDE DEF d
<1>2. Quiet(r, d) /\ PhaseKept(r, d)
  BY <1>1 DEF Quiet, PhaseKept
<1>3. Resumable(r) => Resumable(d)
  BY <1>1, <1>2, ResumableStays
<1> QED
  BY <1>1, <1>2, <1>3 DEF d

LEMMA AbandonFields ==
  ASSUME NEW r \in Endpoints
  PROVE  LET d == AbandonOut(r)
         IN  /\ d.ch.cur = r.ch.cur /\ d.ch.pending = r.ch.pending /\ d.ch.remote_hashes = r.ch.remote_hashes
             /\ Quiet(r, d) /\ PhaseKept(r, d) /\ (Resumable(r) => Resumable(d))
<1> DEFINE d == AbandonOut(r)
<1>1. /\ d.ch.cur = r.ch.cur /\ d.ch.pending = r.ch.pending /\ d.ch.remote_hashes = r.ch.remote_hashes
      /\ d = r \/ (r.out_phase = "upd" /\ d.out_phase = "none")
  BY DEF Endpoints, AbandonOut, ClearOutbox, NoteSignedAbandoned
<1> HIDE DEF d
<1>2. Quiet(r, d) /\ PhaseKept(r, d)
  BY <1>1 DEF Quiet, PhaseKept
<1>3. Resumable(r) => Resumable(d)
  BY <1>1, <1>2, ResumableStays
<1> QED
  BY <1>1, <1>2, <1>3 DEF d

\* AbandonOut after DropPending, as rollback and a winning proposal of the peer do.
LEMMA FreedFields ==
  ASSUME NEW r, NEW own, NEW peer, NEW given, Store(r, own, peer, given)
  PROVE  LET d == AbandonOut([r EXCEPT !.ch = DropPending(@)])
         IN  /\ d \in Endpoints /\ d.ch.cur = r.ch.cur /\ d.ch.pending = None
             /\ d.ch.remote_hashes = r.ch.remote_hashes
             /\ Quiet(r, d) /\ (Resumable(r) => Resumable(d))
<1> DEFINE free == [r EXCEPT !.ch = DropPending(@)]
           d == AbandonOut(free)
<1>1. Store(free, own, peer, given)
  BY DropPendingKeepsStore
<1>2. Store(d, own, peer, given)
  <2> HIDE DEF free
  <2> QED
    BY <1>1, AbandonOutKeepsStore
<1>3. r \in Endpoints /\ free \in Endpoints /\ d \in Endpoints
  BY <1>1, <1>2 DEF Store
<1>4. /\ free.ch.cur = r.ch.cur /\ free.ch.pending = None /\ free.ch.remote_hashes = r.ch.remote_hashes
      /\ (Resumable(r) => Resumable(free))
  BY <1>3, DropFields
<1> HIDE DEF free
<1>5. /\ d.ch.cur = free.ch.cur /\ d.ch.pending = free.ch.pending
      /\ d.ch.remote_hashes = free.ch.remote_hashes /\ (Resumable(free) => Resumable(d))
  BY <1>3, AbandonFields
<1> HIDE DEF d
<1> QED
  BY <1>3, <1>4, <1>5 DEF Quiet, d, free

---------------------------------------------------------------------------
(* handle_channel_message: a request is answered without moving the        *)
(* channel, or a proposal is accepted, or a revocation lets it advance.    *)

Stays(q, m, h) ==
    /\ Quiet(rc[q], h.rc) /\ (Resumable(rc[q]) => Resumable(h.rc))
    /\ m.op = "UPD" /\ h.reply.tag = "ok" => ~Busy(q) /\ rc[q].ch.pending = m.st
    /\ m.op = "REV" /\ h.reply.tag = "ok" => h.reply.n = m.st.n

Accepts(q, m, h) ==
    /\ m.op = "UPD" /\ ~Busy(q)
    /\ h.rc.ch.cur = rc[q].ch.cur /\ h.rc.ch.pending = m.st /\ m.st.n = rc[q].ch.cur.n + 1
    /\ h.save /\ (Resumable(rc[q]) => Resumable(h.rc))

Advances(q, m, h) ==
    /\ m.op = "REV" /\ ~Busy(q) /\ HasPending(rc[q].ch)
    /\ h.rc.ch.cur = rc[q].ch.pending /\ h.rc.ch.pending = None
    /\ m.st.n + 2 \in h.rc.ch.remote_hashes /\ h.rc.out_phase = rc[q].out_phase
    /\ h.save /\ h.reply.n = rc[q].ch.cur.n

LEMMA RejectStays ==
  ASSUME NEW q, NEW m, NEW r, Quiet(rc[q], r), Resumable(rc[q]) => Resumable(r),
         NEW tag \in {"error", "conflict", "nopending"}
  PROVE  Stays(q, m, Reject(r, tag))
<1>1. Reject(r, tag).rc = r /\ Reject(r, tag).reply.tag = tag
  BY DEF Reject, Handled, Error, Refused
<1> QED
  BY <1>1 DEF Stays

LEMMA UpdCases ==
  ASSUME IInv, NEW q \in Sides, NEW m \in Requests, m.op = "UPD", ~Busy(q)
  PROVE  LET h == HandleUpd(q, rc[q], m.st) IN Stays(q, m, h) \/ Accepts(q, m, h)
<1> DEFINE r == rc[q]
           h == HandleUpd(q, r, m.st)
           free == [r EXCEPT !.ch = DropPending(@)]
           gone == AbandonOut(free)
<1>1. Store(r, signed[q], signed[Peer(q)], revealed[q]) /\ r \in Endpoints
  BY DEF IInv, Store
<1>2. Quiet(r, r) /\ Quiet(r, free) /\ (Resumable(r) => Resumable(free))
  BY <1>1, DropFields DEF Quiet
<1>3. /\ gone \in Endpoints /\ gone.ch.cur = r.ch.cur /\ gone.ch.pending = None
      /\ gone.ch.remote_hashes = r.ch.remote_hashes
      /\ Quiet(r, gone) /\ (Resumable(r) => Resumable(gone))
  BY <1>1, FreedFields
<1> HIDE DEF gone
<1>4. \/ h = Handled(r, FALSE, Ok(m.st.n, "none")) /\ r.ch.pending = m.st
      \/ h = Reject(r, "conflict") \/ h = Reject(free, "error") \/ h = Reject(free, "conflict")
      \/ h = AcceptUpd(q, gone, m.st)
  BY Zenon DEF HandleUpd, gone
<1> HIDE DEF free
<1>5. CASE h = Handled(r, FALSE, Ok(m.st.n, "none")) /\ r.ch.pending = m.st
  <2>1. h.rc = r
    BY <1>5 DEF Handled
  <2> QED
    BY <1>2, <1>5, <2>1, Zenon DEF Stays
<1>6. CASE h = Reject(r, "conflict") \/ h = Reject(free, "error") \/ h = Reject(free, "conflict")
  BY <1>2, <1>6, RejectStays
<1>7. CASE h = AcceptUpd(q, gone, m.st)
  <2> DEFINE new == [gone EXCEPT !.ch = ReceiveCommitSig(@, m.st)]
  <2>1. CASE h = Reject(gone, "error")
    BY <1>3, <2>1, RejectStays
  <2>2. CASE ValidateNext(gone.ch, m.st) /\ h = Handled(new, TRUE, Ok(m.st.n, "none"))
    <3>1. /\ new.ch.cur = gone.ch.cur /\ new.ch.pending = m.st
          /\ new.ch.remote_hashes = gone.ch.remote_hashes
          /\ new.out_phase = gone.out_phase /\ new.out_state = gone.out_state
      BY <1>3 DEF Endpoints, ReceiveCommitSig
    <3> HIDE DEF new
    <3>2. Resumable(gone) => Resumable(new)
      BY <3>1 DEF Resumable, AwaitingRemoteRevoke
    <3>3. h.rc = new /\ h.save
      BY <2>2 DEF Handled
    <3>4. m.st.n = r.ch.cur.n + 1
      BY <1>3, <2>2 DEF ValidateNext
    <3> QED
      BY <1>3, <3>1, <3>2, <3>3, <3>4 DEF Accepts
  <2> QED
    BY <1>7, <2>1, <2>2, Zenon DEF AcceptUpd
<1> QED
  BY <1>4, <1>5, <1>6, <1>7, Zenon

LEMMA RevCases ==
  ASSUME IInv, NEW q \in Sides, NEW m \in Requests, m.op = "REV", ~Busy(q), m.st.n \in Nat
  PROVE  LET h == HandleRev(rc[q], m.st.n) IN Stays(q, m, h) \/ Advances(q, m, h)
<1> DEFINE r == rc[q]
           n == m.st.n
           h == HandleRev(r, n)
<1>1. Store(r, signed[q], signed[Peer(q)], revealed[q]) /\ r \in Endpoints /\ r.ch.cur.n \in Nat
  BY EndpointFields DEF IInv, Store
<1>2. Quiet(r, r)
  BY DEF Quiet
<1>3. \/ h = Handled(r, FALSE, Ok(LastRevoked(r.ch), "none")) /\ n + 1 = r.ch.cur.n
      \/ h = Reject(r, "nopending") \/ h = Reject(r, "error")
      \/ h = RevReplied(r, n) /\ HasPending(r.ch)
  BY Zenon DEF HandleRev, RevRepeated
<1>4. CASE h = Handled(r, FALSE, Ok(LastRevoked(r.ch), "none")) /\ n + 1 = r.ch.cur.n
  <2>1. h.rc = r /\ h.reply.n = LastRevoked(r.ch)
    BY <1>4 DEF Handled, Ok
  <2>2. LastRevoked(r.ch) = n
    BY <1>1, <1>4 DEF LastRevoked
  <2> HIDE DEF h
  <2> QED
    BY <1>2, <2>1, <2>2 DEF Stays, h
<1>5. CASE h = Reject(r, "nopending") \/ h = Reject(r, "error")
  BY <1>2, <1>5, RejectStays
<1>6. CASE h = RevReplied(r, n) /\ HasPending(r.ch)
  <2> DEFINE c == RevokeAndAdvance(ReceiveRevoke(r.ch, n))
  <2>1. /\ h.rc.ch = c /\ h.rc.out_phase = r.out_phase
    BY <1>1, <1>6 DEF RevReplied, Handled, Endpoints
  <2>2. h.save /\ h.reply.n = r.ch.cur.n
    BY <1>6 DEF RevReplied, Handled, Ok
  <2>3. c.cur = r.ch.pending /\ c.pending = None /\ c.remote_hashes = r.ch.remote_hashes \cup {n + 2}
    BY <1>1 DEF RevokeAndAdvance, ReceiveRevoke, Endpoints
  <2> HIDE DEF c
  <2> HIDE DEF h
  <2> QED
    BY <1>6, <2>1, <2>2, <2>3 DEF Advances, h
<1> HIDE DEF h
<1> QED
  BY <1>3, <1>4, <1>5, <1>6, Zenon

LEMMA HandlerCases ==
  ASSUME IInv, NEW q \in Sides, NEW m \in Requests
  PROVE  LET h == HandleChannelMessage(q, m)
         IN  Stays(q, m, h) \/ Accepts(q, m, h) \/ Advances(q, m, h)
<1> DEFINE r == rc[q]
           h == HandleChannelMessage(q, m)
<1>1. r \in Endpoints /\ Quiet(r, r) /\ m.st.n \in Nat /\ m.op \in {"UPD", "REV", "ABORT", "SYNC"}
  BY DEF IInv, TypeOK, Quiet, Requests, ChanState
<1>2. CASE Busy(q)
  <2>1. h = Reject(r, "error")
    BY <1>2 DEF HandleChannelMessage
  <2> QED
    BY <1>1, <2>1, RejectStays
<1>3. CASE ~Busy(q) /\ m.op = "UPD"
  <2>1. h = HandleUpd(q, r, m.st)
    BY <1>3 DEF HandleChannelMessage
  <2> QED
    BY <1>3, <2>1, UpdCases
<1>4. CASE ~Busy(q) /\ m.op = "REV"
  <2>1. h = HandleRev(r, m.st.n)
    BY <1>4 DEF HandleChannelMessage
  <2> QED
    BY <1>1, <1>4, <2>1, RevCases
<1>5. CASE ~Busy(q) /\ m.op = "SYNC"
  <2>1. h.rc = r
    BY <1>5 DEF HandleChannelMessage, HandleSync, Handled
  <2> QED
    BY <1>1, <1>5, <2>1 DEF Stays
<1>6. CASE ~Busy(q) /\ m.op = "ABORT"
  <2> DEFINE free == [r EXCEPT !.ch = DropPending(@)]
  <2>1. h.rc = r \/ h.rc = free
    BY <1>6 DEF HandleChannelMessage, HandleAbort, Handled
  <2>2. Quiet(r, free) /\ (Resumable(r) => Resumable(free))
    BY <1>1, DropFields
  <2> HIDE DEF h, free
  <2> QED
    BY <1>1, <1>6, <2>1, <2>2 DEF Stays, h
<1> QED
  BY <1>1, <1>2, <1>3, <1>4, <1>5, <1>6

---------------------------------------------------------------------------
(* Steps that move neither node's channel.                                 *)

NodeQuiet(p) ==
    /\ rc'[p].ch.cur = rc[p].ch.cur /\ disk'[p].ch.cur = rc[p].ch.cur
    /\ rc'[p].ch.pending \in {None, disk'[p].ch.pending}
    /\ disk'[p].ch.pending \in {None, disk[p].ch.pending}

LEMMA QuietNode ==
  ASSUME NEW p, FileIsCurrent(p), Quiet(rc[p], rc'[p]), disk'[p] \in {rc'[p], disk[p]}
  PROVE  NodeQuiet(p)
BY DEF FileIsCurrent, Quiet, NodeQuiet

LEMMA FileStays == ASSUME NEW p, NodeQuiet(p) PROVE FileIsCurrent(p)'
BY Zenon DEF FileIsCurrent, NodeQuiet

\* Nothing is accepted that was not accepted before.
LEMMA FollowsStays ==
  ASSUME \A p \in Sides : NodeQuiet(p) /\ Follows(p), NEW p \in Sides,
         \A x \in Sides : Accepted(x)' => Accepted(x) /\ call'[x]["drive"].msg = call[x]["drive"].msg
  PROVE  Follows(p)'
<1> DEFINE q == Peer(p)
<1>1. q \in Sides
  BY Sides2
<1>2. NodeQuiet(p) /\ NodeQuiet(q) /\ Follows(p)
  BY <1>1
<1>3. Accepted(p)' => Accepted(p) /\ call'[p]["drive"].msg = call[p]["drive"].msg
  OBVIOUS
<1>4. Accepted(q)' => Accepted(q)
  BY <1>1
<1> HIDE DEF q
<1> QED
  BY <1>2, <1>3, <1>4, Zenon DEF NodeQuiet, Follows, q

\* The calls of node p stay, but for answers, while its channel stays.
LEMMA DriveCurrentStays ==
  ASSUME NEW p, DriveIsCurrent(p), rc'[p].ch.cur = rc[p].ch.cur,
         \A t \in Calls : \/ call'[p][t].at = "idle"
                          \/ call'[p][t].at = call[p][t].at /\ call'[p][t].msg = call[p][t].msg,
         LET c == call'[p]["drive"]
         IN  c.at \in {"rev", "rev2"} /\ c.resp.tag = "ok" =>
                c.resp.n = rc[p].ch.cur.n - 1
  PROVE  DriveIsCurrent(p)'
<1>1. "drive" \in Calls
  BY DEF Calls
<1> QED
  BY <1>1 DEF DriveIsCurrent

\* The bounds only grow.
UsedGrows ==
    /\ used' \in Used
    /\ used'.late = 0 => used.late = 0
    /\ used'.rollbacks = 0 => used.rollbacks = 0

LEMMA UseGrows ==
  ASSUME AInv, NEW what \in {"proposals", "rollbacks", "faults", "late", "crashes"}, Use(what)
  PROVE  /\ UsedGrows
         /\ what = "late" => used'.late # 0
         /\ what = "rollbacks" => used'.rollbacks # 0
<1>1. used \in Used
  BY DEF AInv
<1>2. CASE what = "proposals"
  BY <1>1, <1>2 DEF Used, Use, UsedGrows
<1>3. CASE what = "rollbacks"
  BY <1>1, <1>3 DEF Used, Use, UsedGrows
<1>4. CASE what = "faults"
  BY <1>1, <1>4 DEF Used, Use, UsedGrows
<1>5. CASE what = "late"
  BY <1>1, <1>5 DEF Used, Use, UsedGrows
<1>6. CASE what = "crashes"
  BY <1>1, <1>6 DEF Used, Use, UsedGrows
<1> QED
  BY <1>2, <1>3, <1>4, <1>5, <1>6

LEMMA UseNothingGrows == ASSUME AInv, UseNothing PROVE UsedGrows
BY DEF AInv, UseNothing, UsedGrows

\* A step that moves neither channel and accepts nothing keeps AInv, if the outboxes
\* stay resumable.
LEMMA QuietStep ==
  ASSUME AInv, UsedGrows, used'.late = 0 => late' \subseteq late,
         \A x \in Sides : NodeQuiet(x) /\ DriveIsCurrent(x)',
         \A x \in Sides : Accepted(x)' => Accepted(x) /\ call'[x]["drive"].msg = call[x]["drive"].msg,
         used'.late = 0 /\ used'.rollbacks = 0 /\ AllResume => AllResume'
  PROVE  AInv'
<1>1. \A x \in Sides : FileIsCurrent(x)'
  BY FileStays
<1>2. used'.late = 0 => AllFollow'
  BY FollowsStays DEF AInv, UsedGrows, AllFollow
<1>3. used'.late = 0 /\ used'.rollbacks = 0 => AllResume'
  BY DEF AInv, UsedGrows
<1>4. used'.late = 0 => late' = {}
  BY DEF AInv, UsedGrows
<1> QED
  BY <1>1, <1>2, <1>3, <1>4 DEF AInv, UsedGrows

LEMMA NothingMoves ==
  ASSUME AInv, UNCHANGED <<rc, disk>>
  PROVE  \A x \in Sides : NodeQuiet(x)
BY DEF AInv, FileIsCurrent, NodeQuiet

LEMMA AnswerFields ==
  ASSUME IInv, NEW p \in Sides, NEW t \in Calls, NEW reply, SetAnswer(p, t, reply)
  PROVE  /\ \A x \in Sides, u \in Calls :
               call'[x][u].at = call[x][u].at /\ call'[x][u].msg = call[x][u].msg
         /\ \A x \in Sides, u \in Calls : x # p \/ u # t => call'[x][u] = call[x][u]
         /\ call'[p][t].resp = reply
<1>1. call \in [Sides -> [Calls -> Waiting]]
  BY DEF IInv, TypeOK
<1>2. call'[p][t] = [call[p][t] EXCEPT !.resp = reply]
  BY <1>1 DEF SetAnswer
<1>3. \A x \in Sides, u \in Calls : x # p \/ u # t => call'[x][u] = call[x][u]
  BY <1>1 DEF SetAnswer
<1>4. call[p][t] \in Waiting
  BY <1>1
<1>5. call'[p][t].at = call[p][t].at /\ call'[p][t].msg = call[p][t].msg /\ call'[p][t].resp = reply
  BY <1>2, <1>4 DEF Waiting
<1> QED
  BY <1>3, <1>5

LEMMA LoseKeepsAInv ==
  ASSUME IInv, AInv, NEW p \in Sides, NEW t \in Calls, Lose(p, t) \/ GiveUp(p, t)
  PROVE  AInv'
<1>1. /\ call[p][t].at # "idle" /\ SetAnswer(p, t, Refused) /\ UNCHANGED <<rc, disk>>
      /\ (Use("faults") /\ late' = late) \/ Use("late")
  BY DEF Lose, GiveUp, Unhandled, SetAnswer
<1>2. UsedGrows /\ (used'.late = 0 => late' \subseteq late)
  BY <1>1, UseGrows
<1>3. \A x \in Sides : NodeQuiet(x)
  BY <1>1, NothingMoves
<1>4. /\ \A x \in Sides, u \in Calls :
            call'[x][u].at = call[x][u].at /\ call'[x][u].msg = call[x][u].msg
      /\ \A x \in Sides, u \in Calls : x # p \/ u # t => call'[x][u] = call[x][u]
      /\ call'[p][t].resp = Refused
  BY <1>1, AnswerFields
<1>5. "drive" \in Calls /\ "rollback" \in Calls /\ Refused.tag # "ok"
  BY DEF Calls, Refused
<1>6. \A x \in Sides : call'[x]["drive"].resp.tag = "ok" => call'[x]["drive"] = call[x]["drive"]
  BY <1>4, <1>5
<1>7. \A x \in Sides : DriveIsCurrent(x)'
  <2> TAKE x \in Sides
  <2>1. DriveIsCurrent(x) /\ rc'[x].ch.cur = rc[x].ch.cur
    BY <1>1, Zenon DEF AInv
  <2>2. LET c == call'[x]["drive"]
        IN  c.at \in {"rev", "rev2"} /\ c.resp.tag = "ok" => c.resp.n = rc[x].ch.cur.n - 1
    BY <1>6, <2>1 DEF DriveIsCurrent
  <2> QED
    BY <1>4, <2>1, <2>2, DriveCurrentStays
<1>8. \A x \in Sides : Accepted(x)' => Accepted(x) /\ call'[x]["drive"].msg = call[x]["drive"].msg
  BY <1>6 DEF Accepted
<1>9. ASSUME NEW x \in Sides, \A y \in Sides : Resumes(y) PROVE Resumes(x)'
  <2>1. call'[x]["rollback"] = call[x]["rollback"]
    <3>1. call[p]["rollback"].at = "idle"
      BY <1>9, IdleFacts DEF Resumes
    <3>2. t # "rollback"
      BY <1>1, <3>1
    <3> QED
      BY <1>4, <1>5, <3>2
  <2> QED
    BY <1>1, <1>4, <1>5, <1>9, <2>1, Zenon DEF Resumes
<1> QED
  BY <1>2, <1>3, <1>7, <1>8, <1>9, QuietStep DEF AllResume

\* A call other than rchan_drive's is set, and no proposal is given up by it but in a
\* rollback.
LEMMA OtherCallKeepsAInv ==
  ASSUME IInv, AInv, UsedGrows, late' \subseteq late, \A x \in Sides : NodeQuiet(x),
         NEW p \in Sides, NEW t \in Calls, t # "drive", NEW c \in Waiting, SetCall(p, t, c),
         c.at # "idle" => c.msg.op \notin {"UPD", "REV"},
         used'.late = 0 /\ used'.rollbacks = 0 =>
            /\ t # "rollback" \/ c = Idle
            /\ \A x \in Sides : /\ Resumable(rc[x]) => Resumable(rc'[x])
                                /\ Resumable(disk[x]) /\ Resumable(rc'[x]) => Resumable(disk'[x])
                                /\ rc'[x].out_phase = rc[x].out_phase
  PROVE  AInv'
<1>1. /\ call'[p][t] = c
      /\ \A x \in Sides, u \in Calls : x # p \/ u # t => call'[x][u] = call[x][u]
  BY CallChanges
<1>2. "drive" \in Calls /\ "rollback" \in Calls
  BY DEF Calls
<1>3. \A x \in Sides : call'[x]["drive"] = call[x]["drive"]
  BY <1>1, <1>2, Zenon
<1>4. \A x \in Sides : DriveIsCurrent(x)'
  <2> TAKE x \in Sides
  <2>1. DriveIsCurrent(x) /\ rc'[x].ch.cur = rc[x].ch.cur
    BY DEF AInv, NodeQuiet
  <2>2. \A u \in Calls : u # "drive" /\ call'[x][u].at # "idle" => call'[x][u].msg.op \notin {"UPD", "REV"}
    <3> TAKE u \in Calls
    <3>1. CASE x = p /\ u = t
      BY <1>1, <3>1, Zenon
    <3>2. CASE x # p \/ u # t
      BY <1>1, <2>1, <3>2 DEF DriveIsCurrent
    <3> QED
      BY <3>1, <3>2
  <2> QED
    BY <1>3, <2>1, <2>2 DEF DriveIsCurrent
<1>5. \A x \in Sides : Accepted(x)' => Accepted(x) /\ call'[x]["drive"].msg = call[x]["drive"].msg
  BY <1>3 DEF Accepted
<1>6. ASSUME used'.late = 0, used'.rollbacks = 0, NEW x \in Sides, \A y \in Sides : Resumes(y) PROVE Resumes(x)'
  <2>1. call'[x]["rollback"] = Idle
    <3>1. CASE x = p /\ t = "rollback"
      BY <1>1, <1>6, <3>1
    <3>2. CASE x # p \/ t # "rollback"
      BY <1>1, <1>2, <1>6, <3>2 DEF Resumes
    <3> QED
      BY <3>1, <3>2
  <2> QED
    BY <1>3, <1>6, <2>1 DEF Resumes
<1> QED
  BY <1>4, <1>5, <1>6, QuietStep DEF AllResume

LEMMA TickSyncKeepsAInv ==
  ASSUME IInv, AInv, NEW p \in Sides, TickSync(p)
  PROVE  AInv'
<1> DEFINE c == Wait("sync", Request("SYNC", p, Numbered(0)))
<1>1. SetCall(p, "sync", c) /\ UNCHANGED <<rc, disk, late>> /\ UseNothing
  BY DEF TickSync
<1>2. Numbered(0) \in ChanState
  BY NumberedFacts, ChannelAssumption
<1>3. c \in Waiting /\ c.msg.op = "SYNC"
  BY <1>2, RequestFacts, WaitFacts
<1>4. "sync" \in Calls
  BY DEF Calls
<1>5. UsedGrows /\ \A x \in Sides : NodeQuiet(x)
  BY <1>1, UseNothingGrows, NothingMoves
<1>6. \A x \in Sides : rc'[x] = rc[x] /\ disk'[x] = disk[x]
  BY <1>1
<1> HIDE DEF c
<1> QED
  BY <1>1, <1>3, <1>4, <1>5, <1>6, OtherCallKeepsAInv

\* A node saves a copy that is as before but for what was dropped.
LEMMA RememberQuiet ==
  ASSUME IInv, AInv, NEW p \in Sides, NEW r, Remember(p, r), Quiet(rc[p], r)
  PROVE  /\ \A x \in Sides : NodeQuiet(x)
         /\ rc'[p] = r /\ disk'[p] = r
         /\ \A x \in Sides : x # p => rc'[x] = rc[x] /\ disk'[x] = disk[x]
<1>1. /\ rc'[p] = r /\ disk'[p] = r
      /\ \A x \in Sides : x # p => rc'[x] = rc[x] /\ disk'[x] = disk[x]
  BY DEF Remember, IInv, TypeOK
<1>2. \A x \in Sides : Quiet(rc[x], rc'[x]) /\ disk'[x] \in {rc'[x], disk[x]}
  BY <1>1 DEF Quiet
<1>3. \A x \in Sides : NodeQuiet(x)
  BY <1>2, QuietNode DEF AInv
<1> QED
  BY <1>1, <1>3

LEMMA SyncContinuesKeepsAInv ==
  ASSUME IInv, AInv, NEW p \in Sides, SyncContinues(p)
  PROVE  AInv'
<1> DEFINE r == [rc[p] EXCEPT !.ch = DropPending(@)]
<1>1. /\ SetCall(p, "sync", Idle) /\ late' = late /\ UseNothing
      /\ Remember(p, r) \/ UNCHANGED <<rc, disk>>
  BY DEF SyncContinues
<1>2. Quiet(rc[p], r) /\ r.out_phase = rc[p].out_phase /\ (Resumable(rc[p]) => Resumable(r))
  BY DropFields, Zenon DEF IInv, TypeOK
<1>3. "sync" \in Calls
  BY DEF Calls
<1> HIDE DEF r
<1>4. \A x \in Sides : NodeQuiet(x)
  BY <1>1, <1>2, RememberQuiet, NothingMoves
<1>5. \A x \in Sides : /\ Resumable(rc[x]) => Resumable(rc'[x])
                       /\ Resumable(disk[x]) /\ Resumable(rc'[x]) => Resumable(disk'[x])
                       /\ rc'[x].out_phase = rc[x].out_phase
  <2>1. CASE Remember(p, r)
    <3>1. /\ rc'[p] = r /\ disk'[p] = r
          /\ \A x \in Sides : x # p => rc'[x] = rc[x] /\ disk'[x] = disk[x]
      BY <1>2, <2>1, RememberQuiet
    <3> QED
      BY <1>2, <3>1
  <2>2. CASE UNCHANGED <<rc, disk>>
    BY <2>2
  <2> QED
    BY <1>1, <2>1, <2>2
<1> QED
  BY <1>1, <1>3, <1>4, <1>5, IdleFacts, UseNothingGrows, OtherCallKeepsAInv

LEMMA RolledBackIsQuiet ==
  ASSUME IInv, NEW p \in Sides
  PROVE  Quiet(rc[p], RolledBack(rc[p]))
<1> DEFINE gone == AbandonOut(rc[p])
<1>1. Store(gone, signed[p], signed[Peer(p)], revealed[p]) /\ rc[p] \in Endpoints
  BY AbandonOutKeepsStore, Zenon DEF IInv, TypeOK
<1>2. gone \in Endpoints /\ Quiet(rc[p], gone)
  BY <1>1, AbandonFields DEF Store
<1>3. RolledBack(rc[p]) = [gone EXCEPT !.ch = DropPending(@)]
  BY DEF RolledBack
<1> HIDE DEF gone
<1>4. Quiet(gone, RolledBack(rc[p]))
  BY <1>2, <1>3, DropFields
<1> QED
  BY <1>2, <1>4 DEF Quiet

LEMMA RollbackProposalKeepsAInv ==
  ASSUME IInv, AInv, NEW p \in Sides, RollbackProposal(p)
  PROVE  AInv'
<1> DEFINE n == rc[p].out_state.n
           c == Wait("abort", Request("ABORT", p, Numbered(n)))
<1>1. SetCall(p, "rollback", c) /\ UNCHANGED <<rc, disk, late>> /\ Use("rollbacks")
  BY DEF RollbackProposal
<1>2. n \in 0 .. MaxNumber
  <2>1. rc[p].out_state \in signed[p] /\ signed[p] \subseteq ChanState
    BY Zenon DEF RollbackProposal, IInv, Store
  <2> QED
    BY <2>1, Zenon DEF ChanState
<1> HIDE DEF n
<1>3. c \in Waiting /\ c.msg.op = "ABORT"
  BY <1>2, NumberedFacts, RequestFacts, WaitFacts
<1>4. "rollback" \in Calls
  BY DEF Calls
<1>5. UsedGrows /\ used'.rollbacks # 0 /\ \A x \in Sides : NodeQuiet(x)
  BY <1>1, UseGrows, NothingMoves
<1> HIDE DEF c
<1> QED
  BY <1>1, <1>3, <1>4, <1>5, OtherCallKeepsAInv

LEMMA RollbackContinuesKeepsAInv ==
  ASSUME IInv, AInv, NEW p \in Sides, RollbackContinues(p)
  PROVE  AInv'
<1>1. /\ SetCall(p, "rollback", Idle) /\ late' = late /\ UseNothing
      /\ Remember(p, RolledBack(rc[p])) /\ call[p]["rollback"].resp # NoReply
  BY DEF RollbackContinues
<1>2. \A x \in Sides : NodeQuiet(x)
  BY <1>1, RolledBackIsQuiet, RememberQuiet
<1>3. UsedGrows
  BY <1>1, UseNothingGrows
<1>4. ~(used'.late = 0 /\ used'.rollbacks = 0)
  <2>1. Idle.resp = NoReply
    BY DEF Idle
  <2> QED
    BY <1>1, <1>3, <2>1 DEF UsedGrows, AInv, AllResume, Resumes
<1>5. "rollback" \in Calls
  BY DEF Calls
<1> QED
  BY <1>1, <1>2, <1>3, <1>4, <1>5, IdleFacts, OtherCallKeepsAInv

LEMMA RollbackPendingKeepsAInv ==
  ASSUME IInv, AInv, NEW p \in Sides, RollbackPending(p)
  PROVE  AInv'
<1>1. /\ Remember(p, RolledBack(rc[p])) /\ UNCHANGED <<call, late>> /\ Use("rollbacks")
  BY DEF RollbackPending
<1>2. \A x \in Sides : NodeQuiet(x)
  BY <1>1, RolledBackIsQuiet, RememberQuiet
<1>3. UsedGrows /\ used'.rollbacks # 0
  BY <1>1, UseGrows, Zenon
<1>4. \A x \in Sides : DriveIsCurrent(x)'
  BY <1>1, <1>2 DEF DriveIsCurrent, NodeQuiet, AInv
<1>5. \A x \in Sides : Accepted(x)' => Accepted(x) /\ call'[x]["drive"].msg = call[x]["drive"].msg
  BY <1>1 DEF Accepted
<1> QED
  BY <1>1, <1>2, <1>3, <1>4, <1>5, QuietStep

LEMMA CrashKeepsAInv ==
  ASSUME IInv, AInv, NEW p \in Sides, Crash(p)
  PROVE  AInv'
<1>1. /\ rc' = [rc EXCEPT ![p] = disk[p]] /\ call' = [call EXCEPT ![p] = AllIdle]
      /\ UNCHANGED <<disk, late>> /\ Use("crashes")
  BY DEF Crash
<1>2. /\ rc'[p] = disk[p] /\ \A x \in Sides : x # p => rc'[x] = rc[x] /\ call'[x] = call[x]
      /\ \A t \in Calls : call'[p][t] = Idle
  BY <1>1 DEF IInv, TypeOK, AllIdle
<1>3. \A x \in Sides : NodeQuiet(x)
  BY <1>1, <1>2 DEF AInv, FileIsCurrent, NodeQuiet
<1>4. UsedGrows
  BY <1>1, UseGrows
<1>5. "drive" \in Calls /\ "rollback" \in Calls
  BY DEF Calls
<1>6. \A x \in Sides : DriveIsCurrent(x)'
  <2> TAKE x \in Sides
  <2>1. CASE x = p
    BY <1>2, <1>5, <2>1, IdleFacts, Zenon DEF DriveIsCurrent
  <2>2. CASE x # p
    BY <1>2, <2>2, Zenon DEF DriveIsCurrent, AInv
  <2> QED
    BY <2>1, <2>2
<1>7. \A x \in Sides : Accepted(x)' => Accepted(x) /\ call'[x]["drive"].msg = call[x]["drive"].msg
  BY <1>2, <1>5, IdleFacts DEF Accepted
<1>8. ASSUME NEW x \in Sides, \A y \in Sides : Resumes(y) PROVE Resumes(x)'
  <2>1. CASE x = p
    BY <1>1, <1>2, <1>5, <1>8, <2>1, IdleFacts, Zenon DEF Resumes
  <2>2. CASE x # p
    BY <1>1, <1>2, <1>8, <2>2, Zenon DEF Resumes
  <2> QED
    BY <2>1, <2>2
<1> QED
  BY <1>1, <1>3, <1>4, <1>6, <1>7, <1>8, QuietStep DEF AllResume

---------------------------------------------------------------------------
(* Steps in which a request is handled.                                    *)

\* What a handled request m, sent by p, changes at its receiver q.
Handles(p, q, m, h) ==
    /\ q = Peer(p) /\ m.from = p
    /\ Stays(q, m, h) \/ Accepts(q, m, h) \/ Advances(q, m, h)
    /\ rc'[q] = h.rc /\ rc'[p] = rc[p] /\ disk'[p] = disk[p]
    /\ disk'[q] \in {h.rc, disk[q]} /\ (h.save => disk'[q] = h.rc)
    /\ Busy(q) => h.rc = rc[q]

LEMMA RunHandlerHandles ==
  ASSUME IInv, NEW m \in Requests, Truthful(m), RunHandler(m, HandleChannelMessage(Peer(m.from), m))
  PROVE  Handles(m.from, Peer(m.from), m, HandleChannelMessage(Peer(m.from), m))
<1> DEFINE p == m.from
           q == Peer(p)
           h == HandleChannelMessage(q, m)
<1>1. p \in Sides /\ q \in Sides /\ q # p
  BY Sides2 DEF Requests
<1>2. Stays(q, m, h) \/ Accepts(q, m, h) \/ Advances(q, m, h)
  BY <1>1, HandlerCases
<1>3. Busy(q) => h.rc = rc[q]
  BY Zenon DEF HandleChannelMessage, Reject, Handled
<1>4. rc' = [rc EXCEPT ![q] = h.rc] /\ disk' = IF h.save THEN [disk EXCEPT ![q] = h.rc] ELSE disk
  BY Zenon DEF RunHandler
<1> HIDE DEF h
<1>5. /\ rc'[q] = h.rc /\ rc'[p] = rc[p] /\ disk'[p] = disk[p]
      /\ disk'[q] \in {h.rc, disk[q]} /\ (h.save => disk'[q] = h.rc)
  BY <1>1, <1>4 DEF IInv, TypeOK
<1> QED
  BY <1>2, <1>3, <1>5 DEF Handles, h

LEMMA HandledFiles ==
  ASSUME AInv, NEW p \in Sides, NEW q \in Sides, NEW m, NEW h, Handles(p, q, m, h)
  PROVE  \A x \in Sides : FileIsCurrent(x)'
<1>1. \A x \in Sides : x = p \/ x = q
  BY Sides2 DEF Handles, Sides
<1>2. FileIsCurrent(p)'
  BY DEF Handles, AInv, FileIsCurrent
<1>3. FileIsCurrent(q)'
  <2>1. FileIsCurrent(q)
    BY Zenon DEF AInv
  <2>2. CASE Stays(q, m, h)
    BY <2>1, <2>2, Zenon DEF Handles, Stays, Quiet, FileIsCurrent
  <2>3. CASE Accepts(q, m, h)
    BY <2>3, Zenon DEF Handles, Accepts, FileIsCurrent
  <2>4. CASE Advances(q, m, h)
    BY <2>4 DEF Handles, Advances, FileIsCurrent
  <2> QED
    BY <2>2, <2>3, <2>4 DEF Handles
<1> QED
  BY <1>1, <1>2, <1>3

\* The receiver's own requests stay current: it moves only while it has none.
LEMMA ReceiverDrive ==
  ASSUME AInv, NEW p \in Sides, NEW q \in Sides, NEW m, NEW h, Handles(p, q, m, h),
         \A t \in Calls : call'[q][t] = call[q][t]
  PROVE  DriveIsCurrent(q)'
<1>1. "drive" \in Calls
  BY Zenon DEF Calls
<1>2. DriveIsCurrent(q) /\ call'[q]["drive"] = call[q]["drive"]
  BY <1>1, Zenon DEF AInv
<1>3. CASE Busy(q)
  <2>1. rc'[q] = rc[q]
    BY <1>3, Zenon DEF Handles
  <2> QED
    BY <1>2, <2>1, Zenon DEF DriveIsCurrent
<1>4. CASE ~Busy(q)
  <2>1. call'[q]["drive"].at = "idle"
    BY <1>2, <1>4, Zenon DEF Busy
  <2> QED
    BY <1>2, <2>1 DEF DriveIsCurrent
<1> QED
  BY <1>3, <1>4, Zenon

\* A revocation that lets the receiver advance is that of the state it is at.
LEMMA AdvanceNumbers ==
  ASSUME IInv, NEW p \in Sides, rc[p].out_phase = "rev", HasPending(rc[Peer(p)].ch)
  PROVE  /\ rc[p].ch.cur.n = rc[Peer(p)].ch.cur.n + 1
         /\ rc[p].ch.cur.n \in Nat /\ rc[Peer(p)].ch.cur.n \in Nat
<1> DEFINE q == Peer(p)
<1>1. q \in Sides /\ Peer(q) = p
  BY Sides2, Zenon
<1>2. Store(rc[p], signed[p], signed[q], revealed[p]) /\ Store(rc[q], signed[q], signed[p], revealed[q])
  BY <1>1, Zenon DEF IInv
<1>3. rc[p].ch.cur.n \in Nat /\ rc[q].ch.cur.n \in Nat
  BY <1>2, EndpointFields, Zenon DEF Store
<1> HIDE DEF q
<1>4. /\ rc[q].ch.pending \in signed[p] /\ rc[q].ch.pending.n = rc[q].ch.cur.n + 1
      /\ rc[q].ch.pending.n <= rc[p].ch.cur.n
  BY <1>2, Zenon DEF Store, q
<1>5. rc[p].ch.cur \in signed[q] /\ rc[p].ch.cur.n <= rc[q].ch.cur.n + 1
  BY <1>2, Zenon DEF Store
<1> QED
  BY <1>3, <1>4, <1>5 DEF q

\* The request of p that is handled waits in its call t; the answer is set or lost.
Answered(p, t, h) ==
    /\ \A x \in Sides, u \in Calls : call'[x][u].at = call[x][u].at /\ call'[x][u].msg = call[x][u].msg
    /\ \A x \in Sides, u \in Calls : x # p \/ u # t => call'[x][u] = call[x][u]
    /\ call[p][t].at # "idle" /\ call[p][t].resp.tag # "ok"
    /\ call'[p][t].resp.tag = "ok" => call'[p][t].resp = h.reply

\* Only rchan_drive proposes and revokes.
LEMMA HandledDrive ==
  ASSUME IInv, AInv, NEW p \in Sides, NEW t \in Calls, call[p][t].at # "idle",
         call[p][t].msg.op \in {"UPD", "REV"}
  PROVE  /\ t = "drive"
         /\ call[p][t].msg.op = "UPD" => call[p][t].at \in {"upd", "reupd"}
         /\ call[p][t].msg.op = "REV" => call[p][t].at \in {"rev", "rev2"} /\ rc[p].out_phase = "rev"
<1>1. DriveIsCurrent(p) /\ DriveOK(p)
  BY Zenon DEF AInv, IInv
<1>2. t = "drive"
  BY <1>1 DEF DriveIsCurrent
<1>3. call[p]["drive"].at \in {"upd", "abort", "rev", "rev2", "reupd", "sync"}
  BY <1>2, CallIsTyped, Zenon DEF Waiting
<1> QED
  BY <1>1, <1>2, <1>3, Zenon DEF DriveIsCurrent, DriveOK

\* The sender's requests stay current: its own channel does not move, and the answer
\* to a revocation is for the state before its current one.
LEMMA SenderDrive ==
  ASSUME IInv, AInv, NEW p \in Sides, NEW t \in Calls, NEW h,
         Handles(p, Peer(p), call[p][t].msg, h), Answered(p, t, h)
  PROVE  DriveIsCurrent(p)'
<1> DEFINE q == Peer(p)
           m == call[p][t].msg
           c == call'[p]["drive"]
<1>1. "drive" \in Calls
  BY DEF Calls
<1>2. DriveIsCurrent(p) /\ rc'[p].ch.cur = rc[p].ch.cur
  BY DEF AInv, Handles
<1>3. c.at = call[p]["drive"].at /\ c.msg = call[p]["drive"].msg
  BY <1>1 DEF Answered
<1>4. c.at \in {"rev", "rev2"} /\ c.resp.tag = "ok" => c.resp.n = rc[p].ch.cur.n - 1
  <2> SUFFICES ASSUME c.at \in {"rev", "rev2"}, c.resp.tag = "ok" PROVE c.resp.n = rc[p].ch.cur.n - 1
    OBVIOUS
  <2>1. CASE t # "drive"
    BY <1>1, <1>2, <2>1, Zenon DEF Answered, DriveIsCurrent
  <2>2. CASE t = "drive"
    <3>1. m.op = "REV" /\ rc[p].out_phase = "rev" /\ m.st.n = rc[p].ch.cur.n - 1
      BY <1>2, <1>3, <2>2, Zenon DEF DriveIsCurrent, IInv, DriveOK
    <3>2. c.resp = h.reply /\ h.reply.tag = "ok"
      BY <2>2, Zenon DEF Answered
    <3>3. CASE Stays(q, m, h)
      BY <3>1, <3>2, <3>3, Zenon DEF Stays
    <3>4. CASE Accepts(q, m, h)
      BY <3>1, <3>4, Zenon DEF Accepts
    <3>5. CASE Advances(q, m, h)
      <4>1. HasPending(rc[q].ch) /\ h.reply.n = rc[q].ch.cur.n
        BY <3>5, Zenon DEF Advances
      <4>2. rc[p].ch.cur.n = rc[q].ch.cur.n + 1 /\ rc[p].ch.cur.n \in Nat /\ rc[q].ch.cur.n \in Nat
        BY <3>1, <4>1, AdvanceNumbers, Zenon
      <4> QED
        BY <3>2, <4>1, <4>2
    <3> QED
      BY <3>3, <3>4, <3>5, Zenon DEF Handles
  <2> QED
    BY <2>1, <2>2
<1> HIDE DEF c
<1>5. \A u \in Calls : call'[p][u].at = call[p][u].at /\ call'[p][u].msg = call[p][u].msg
  BY DEF Answered
<1> QED
  BY <1>2, <1>4, <1>5, DriveCurrentStays DEF c

---------------------------------------------------------------------------
(* A handled request keeps the nodes in step and their outboxes resumable. *)

LEMMA StaysFollows ==
  ASSUME IInv, AInv, NEW p \in Sides, NEW t \in Calls, NEW h,
         Handles(p, Peer(p), call[p][t].msg, h), Answered(p, t, h),
         Stays(Peer(p), call[p][t].msg, h), AllFollow
  PROVE  AllFollow'
<1> DEFINE q == Peer(p)
           m == call[p][t].msg
<1>1. q \in Sides /\ q # p /\ Peer(q) = p /\ \A x \in Sides : x = p \/ x = q
  BY Sides2 DEF Sides
<1>2. "drive" \in Calls /\ Follows(p) /\ Follows(q)
  BY <1>1 DEF Calls, AllFollow
<1>3. \A x \in Sides : NodeQuiet(x)
  <2>1. Quiet(rc[q], rc'[q]) /\ disk'[q] \in {rc'[q], disk[q]}
    BY Zenon DEF Handles, Stays
  <2>2. Quiet(rc[p], rc'[p]) /\ disk'[p] \in {rc'[p], disk[p]}
    BY Zenon DEF Handles, Quiet
  <2>3. NodeQuiet(q) /\ NodeQuiet(p)
    BY <1>1, <2>1, <2>2, QuietNode, Zenon DEF AInv
  <2> QED
    BY <1>1, <2>3, Zenon
<1>4. Accepted(q)' => Accepted(q) /\ call'[q]["drive"].msg = call[q]["drive"].msg
  BY <1>1, <1>2, Zenon DEF Answered, Accepted
<1>5. CASE Accepted(p)' => Accepted(p)
  <2>1. call'[p]["drive"].msg = call[p]["drive"].msg
    BY <1>2, Zenon DEF Answered
  <2>2. \A x \in Sides : Accepted(x)' => Accepted(x) /\ call'[x]["drive"].msg = call[x]["drive"].msg
    BY <1>1, <1>4, <1>5, <2>1, Zenon
  <2> QED
    BY <1>3, <2>2, FollowsStays, Zenon DEF AllFollow
<1>6. CASE Accepted(p)' /\ ~Accepted(p)
  <2>1. t = "drive" /\ call[p]["drive"].at = "upd" /\ h.reply.tag = "ok"
    BY <1>2, <1>6, Zenon DEF Answered, Accepted
  <2>2. m.op = "UPD" /\ m.st.n = rc[p].ch.cur.n + 1
    BY <2>1, Zenon DEF AInv, DriveIsCurrent, IInv, DriveOK
  <2>3. ~Busy(q) /\ rc[q].ch.pending = m.st
    BY <2>1, <2>2, Zenon DEF Stays
  <2>4. m.st # None
    BY RequestIsTyped, Zenon
  <2>5. rc[q].ch.pending.n = rc[q].ch.cur.n + 1 /\ rc[q].ch.cur.n \in Nat /\ rc[p].ch.cur.n \in Nat
    BY <1>1, <2>3, <2>4, MemoryFacts, Zenon DEF Store, HasPending
  <2>6. rc[q].ch.cur.n = rc[p].ch.cur.n
    BY <2>2, <2>3, <2>5
  <2>7. disk[q].ch.pending = m.st
    BY <1>1, <2>3, <2>4, Zenon DEF AInv, FileIsCurrent
  <2>8. ~Accepted(q)'
    BY <1>1, <1>4, <2>3, Zenon DEF Accepted, Busy
  <2>9. call'[p]["drive"].msg = m /\ rc[p].ch.cur = rc[q].ch.cur
    BY <1>2, <2>1, <2>6, Zenon DEF Answered, Follows
  <2>10. /\ rc'[p].ch.cur = rc[p].ch.cur /\ rc'[q].ch.cur = rc[p].ch.cur
         /\ disk'[q].ch.pending \in {None, m.st} /\ rc[p].ch.cur.n \in Nat
    BY <1>1, <1>3, <2>5, <2>7, <2>9, Zenon DEF NodeQuiet
  <2>a. rc'[p].ch.cur = rc'[q].ch.cur /\ rc'[p].ch.cur.n \in Nat
    BY <2>10, Zenon
  <2>b. /\ rc'[p].ch.cur.n = rc'[q].ch.cur.n
        /\ rc'[p].ch.cur.n # rc'[q].ch.cur.n + 1 /\ rc'[q].ch.cur.n # rc'[p].ch.cur.n + 1
    BY <2>a, NotOneMore, Zenon
  <2> HIDE DEF m, q
  <2>11. Follows(p)'
    BY <2>8, <2>9, <2>10, <2>a, <2>b, Zenon DEF Follows, q
  <2>12. Follows(q)'
    BY <1>1, <2>8, <2>a, <2>b, Zenon DEF Follows
  <2> QED
    BY <1>1, <2>11, <2>12, Zenon DEF AllFollow
<1> QED
  BY <1>5, <1>6

LEMMA AcceptsFollows ==
  ASSUME IInv, AInv, NEW p \in Sides, NEW t \in Calls, NEW h,
         Handles(p, Peer(p), call[p][t].msg, h), Answered(p, t, h),
         Accepts(Peer(p), call[p][t].msg, h), AllFollow
  PROVE  AllFollow'
<1> DEFINE q == Peer(p)
           m == call[p][t].msg
<1>1. q \in Sides /\ q # p /\ Peer(q) = p /\ \A x \in Sides : x = p \/ x = q
  BY Sides2 DEF Sides
<1>2. "drive" \in Calls /\ Follows(p) /\ Follows(q)
  BY <1>1 DEF Calls, AllFollow
<1>3. m.op = "UPD" /\ ~Busy(q) /\ m.st.n = rc[q].ch.cur.n + 1
  BY Zenon DEF Accepts
<1>4. t = "drive" /\ call[p]["drive"].at \in {"upd", "reupd"}
  BY <1>3, HandledDrive, Zenon DEF Answered
<1>5. /\ rc'[q].ch.cur = rc[q].ch.cur /\ rc'[p].ch.cur = rc[p].ch.cur
      /\ disk'[q].ch.pending = m.st /\ disk'[p] = disk[p]
  BY Zenon DEF Accepts, Handles
<1>6. ~Accepted(q)'
  BY <1>1, <1>2, <1>3, <1>4, Zenon DEF Answered, Accepted, Busy
<1>7. call'[p]["drive"].msg = m /\ call'[p]["drive"].at = call[p]["drive"].at
  BY <1>2, <1>4, Zenon DEF Answered
<1>8. rc[p].ch.cur.n \in Nat /\ rc[q].ch.cur.n \in Nat
  BY <1>1, MemoryFacts, Zenon
<1>9. CASE call[p]["drive"].at = "upd"
  <2>1. m.st.n = rc[p].ch.cur.n + 1
    BY <1>4, <1>9, Zenon DEF AInv, DriveIsCurrent
  <2>2. rc[q].ch.cur.n = rc[p].ch.cur.n
    BY <1>3, <1>8, <2>1
  <2>3. rc[p].ch.cur = rc[q].ch.cur
    BY <1>2, <2>2, Zenon DEF Follows
  <2> HIDE DEF m, q
  <2>a. rc'[p].ch.cur = rc'[q].ch.cur /\ rc'[p].ch.cur.n \in Nat
    BY <1>5, <1>8, <2>3, Zenon
  <2>b. /\ rc'[p].ch.cur.n = rc'[q].ch.cur.n
        /\ rc'[p].ch.cur.n # rc'[q].ch.cur.n + 1 /\ rc'[q].ch.cur.n # rc'[p].ch.cur.n + 1
    BY <2>a, NotOneMore, Zenon
  <2>4. Follows(p)'
    BY <1>5, <1>6, <1>7, <2>a, <2>b, Zenon DEF Follows, q
  <2>5. Follows(q)'
    BY <1>1, <1>6, <2>a, <2>b, Zenon DEF Follows
  <2> QED
    BY <1>1, <2>4, <2>5, Zenon DEF AllFollow
<1>10. CASE call[p]["drive"].at = "reupd"
  <2>1. m.st = rc[p].ch.cur
    BY <1>4, <1>10, Zenon DEF AInv, DriveIsCurrent
  <2>2. ~Accepted(p)'
    BY <1>7, <1>10, Zenon DEF Accepted
  <2> HIDE DEF m, q
  <2>a. /\ rc'[p].ch.cur.n = rc'[q].ch.cur.n + 1 /\ disk'[q].ch.pending = rc'[p].ch.cur
        /\ rc'[p].ch.cur.n \in Nat /\ rc'[q].ch.cur.n \in Nat
    BY <1>3, <1>5, <1>8, <2>1, Zenon
  <2>b. rc'[p].ch.cur.n # rc'[q].ch.cur.n /\ rc'[q].ch.cur.n # rc'[p].ch.cur.n + 1
    BY <2>a, OneMore, Zenon
  <2>3. Follows(p)'
    BY <2>2, <2>a, <2>b, Zenon DEF Follows, q
  <2>4. Follows(q)'
    BY <1>1, <1>6, <2>b, Zenon DEF Follows
  <2> QED
    BY <1>1, <2>3, <2>4, Zenon DEF AllFollow
<1> QED
  BY <1>4, <1>9, <1>10, Zenon

LEMMA AdvancesFollows ==
  ASSUME IInv, AInv, NEW p \in Sides, NEW t \in Calls, NEW h,
         Handles(p, Peer(p), call[p][t].msg, h), Answered(p, t, h),
         Advances(Peer(p), call[p][t].msg, h), AllFollow
  PROVE  AllFollow'
<1> DEFINE q == Peer(p)
           m == call[p][t].msg
<1>1. q \in Sides /\ q # p /\ Peer(q) = p /\ \A x \in Sides : x = p \/ x = q
  BY Sides2 DEF Sides
<1>2. "drive" \in Calls /\ Follows(p)
  BY Zenon DEF Calls, AllFollow
<1>3. m.op = "REV" /\ ~Busy(q) /\ HasPending(rc[q].ch)
  BY Zenon DEF Advances
<1>4. t = "drive" /\ call[p]["drive"].at \in {"rev", "rev2"} /\ rc[p].out_phase = "rev"
  <2>1. call[p][t].at # "idle" /\ call[p][t].msg.op \in {"UPD", "REV"}
    BY <1>3, Zenon DEF Answered
  <2>2. t = "drive" /\ call[p][t].at \in {"rev", "rev2"} /\ rc[p].out_phase = "rev"
    BY <1>3, <2>1, HandledDrive, Zenon
  <2> QED
    BY <2>2, Zenon
<1>5. rc[p].ch.cur.n = rc[q].ch.cur.n + 1 /\ rc[p].ch.cur.n \in Nat
  BY <1>3, <1>4, AdvanceNumbers, Zenon
<1>6. rc[q].ch.pending = rc[p].ch.cur
  <2>1. disk[q].ch.pending \in {None, rc[p].ch.cur}
    BY <1>2, <1>5, Zenon DEF Follows
  <2>2. rc[q].ch.pending = disk[q].ch.pending /\ rc[q].ch.pending # None
    BY <1>1, <1>3, Zenon DEF AInv, FileIsCurrent, HasPending
  <2> QED
    BY <2>1, <2>2, Zenon
<1>7. rc'[q].ch.cur = rc[p].ch.cur /\ rc'[p].ch.cur = rc[p].ch.cur
  BY <1>6, Zenon DEF Advances, Handles
<1>8. ~Accepted(q)' /\ ~Accepted(p)'
  BY <1>1, <1>2, <1>3, <1>4, Zenon DEF Answered, Accepted, Busy
<1> HIDE DEF m, q
<1>a. rc'[p].ch.cur = rc'[q].ch.cur /\ rc'[p].ch.cur.n \in Nat
  BY <1>5, <1>7, Zenon
<1>b. /\ rc'[p].ch.cur.n = rc'[q].ch.cur.n
      /\ rc'[p].ch.cur.n # rc'[q].ch.cur.n + 1 /\ rc'[q].ch.cur.n # rc'[p].ch.cur.n + 1
  BY <1>a, NotOneMore, Zenon
<1>9. Follows(p)'
  BY <1>8, <1>a, <1>b, Zenon DEF Follows, q
<1>10. Follows(q)'
  BY <1>1, <1>8, <1>a, <1>b, Zenon DEF Follows
<1> QED
  BY <1>1, <1>9, <1>10, Zenon DEF AllFollow

LEMMA HandledResumes ==
  ASSUME IInv, AInv, NEW p \in Sides, NEW t \in Calls, NEW h,
         Handles(p, Peer(p), call[p][t].msg, h), Answered(p, t, h), AllResume
  PROVE  AllResume'
<1> DEFINE q == Peer(p)
           m == call[p][t].msg
<1>1. q \in Sides /\ q # p /\ Peer(q) = p /\ \A x \in Sides : x = p \/ x = q
  BY Sides2 DEF Sides
<1>2. "drive" \in Calls /\ "rollback" \in Calls /\ Resumes(p) /\ Resumes(q)
  BY <1>1, Zenon DEF Calls, AllResume
<1>3. call'[p]["rollback"] = Idle /\ call'[q]["rollback"] = Idle
  <2>1. call[p]["rollback"].at = "idle"
    BY <1>2, IdleFacts, Zenon DEF Resumes
  <2>2. t # "rollback"
    BY <2>1, Zenon DEF Answered
  <2> QED
    BY <1>1, <1>2, <2>2, Zenon DEF Answered, Resumes
<1>4. Resumable(h.rc)
  <2>1. Resumable(rc[q])
    BY <1>2, Zenon DEF Resumes
  <2>2. CASE Stays(q, m, h)
    BY <2>1, <2>2, Zenon DEF Stays
  <2>3. CASE Accepts(q, m, h)
    BY <2>1, <2>3, Zenon DEF Accepts
  <2>4. CASE Advances(q, m, h)
    <3>1. m.op = "REV" /\ HasPending(rc[q].ch)
      BY <2>4, Zenon DEF Advances
    <3>2. t = "drive" /\ call[p]["drive"].at \in {"rev", "rev2"} /\ rc[p].out_phase = "rev"
      BY <3>1, HandledDrive DEF Answered
    <3>3. m.st.n = rc[p].ch.cur.n - 1
      BY <3>2, Zenon DEF AInv, DriveIsCurrent
    <3>4. rc[p].ch.cur.n = rc[q].ch.cur.n + 1 /\ rc[q].ch.cur.n \in Nat
      BY <3>1, <3>2, AdvanceNumbers, Zenon
    <3>5. rc[q].ch.pending.n = rc[q].ch.cur.n + 1 /\ rc[q].out_phase = "none"
      BY <1>1, <3>1, MemoryFacts, Zenon DEF Store
    <3>6. h.rc.ch.cur.n + 1 = m.st.n + 2 /\ m.st.n + 2 \in h.rc.ch.remote_hashes /\ h.rc.out_phase = "none"
      BY <2>4, <3>3, <3>4, <3>5 DEF Advances
    <3> QED
      BY <3>6, Zenon DEF Resumable, AwaitingRemoteRevoke
  <2> QED
    BY <2>2, <2>3, <2>4, Zenon DEF Handles
<1>5. Resumes(p)'
  BY <1>2, <1>3, Zenon DEF Handles, Answered, Resumes
<1>6. Resumes(q)'
  <2>1. Resumable(rc'[q]) /\ Resumable(disk'[q])
    BY <1>2, <1>4, Zenon DEF Handles, Resumes
  <2>2. call'[q]["drive"] = call[q]["drive"]
    BY <1>1, <1>2, Zenon DEF Answered
  <2>3. call[q]["drive"].at = "upd" => rc'[q].out_phase = "upd"
    BY <1>2 DEF Handles, Busy, Resumes
  <2> QED
    BY <1>3, <2>1, <2>2, <2>3, Zenon DEF Resumes
<1> QED
  BY <1>1, <1>5, <1>6 DEF AllResume

\* A request that is handled while its sender waits keeps AInv.
LEMMA HandledKeepsAInv ==
  ASSUME IInv, AInv, UsedGrows, UNCHANGED late, NEW p \in Sides, NEW t \in Calls, NEW h,
         Handles(p, Peer(p), call[p][t].msg, h), Answered(p, t, h)
  PROVE  AInv'
<1> DEFINE q == Peer(p)
           m == call[p][t].msg
<1>1. q \in Sides /\ q # p /\ Peer(q) = p /\ \A x \in Sides : x = p \/ x = q
  BY Sides2 DEF Sides
<1>2. \A x \in Sides : FileIsCurrent(x)'
  BY <1>1, HandledFiles
<1>3. \A x \in Sides : DriveIsCurrent(x)'
  <2>1. DriveIsCurrent(p)'
    BY SenderDrive, Zenon
  <2>2. \A u \in Calls : call'[q][u] = call[q][u]
    BY <1>1, Zenon DEF Answered
  <2>3. DriveIsCurrent(q)'
    BY <1>1, <2>2, ReceiverDrive, Zenon
  <2> QED
    BY <1>1, <2>1, <2>3
<1>4. ASSUME AllFollow PROVE AllFollow'
  <2>1. Stays(q, m, h) \/ Accepts(q, m, h) \/ Advances(q, m, h)
    BY Zenon DEF Handles
  <2> QED
    BY <1>4, <2>1, StaysFollows, AcceptsFollows, AdvancesFollows, Zenon
<1>5. ASSUME AllResume PROVE AllResume'
  BY <1>5, HandledResumes, Zenon
<1> QED
  BY <1>2, <1>3, <1>4, <1>5 DEF AInv, UsedGrows

LEMMA DeliverKeepsAInv ==
  ASSUME IInv, AInv, NEW p \in Sides, NEW t \in Calls, Deliver(p, t) \/ DeliverTwice(p, t)
  PROVE  AInv'
<1> DEFINE m == call[p][t].msg
           h == HandleChannelMessage(Peer(p), m)
<1>1. call[p][t].at # "idle" /\ call[p][t].resp = NoReply /\ m \in Requests /\ m.from = p /\ Truthful(m)
  <2>1. call[p][t].at # "idle" /\ call[p][t].resp = NoReply
    BY Zenon DEF Deliver, DeliverTwice, Unhandled
  <2>2. CallOK(p, t)
    BY DEF IInv
  <2> QED
    BY <2>1, <2>2, CallIsTyped, Zenon DEF CallOK
<1>2. RunHandler(m, HandleChannelMessage(Peer(m.from), m)) /\ UNCHANGED late
  BY <1>1 DEF Deliver, DeliverTwice
<1>3. UNCHANGED call \/ SetAnswer(p, t, h.reply)
  BY DEF Deliver, DeliverTwice, SetAnswer
<1>4. UsedGrows
  BY UseGrows, UseNothingGrows, Zenon DEF Deliver, DeliverTwice
<1> HIDE DEF m
<1>5. Handles(p, Peer(p), m, h)
  BY <1>1, <1>2, RunHandlerHandles
<1> HIDE DEF h
<1>6. Answered(p, t, h)
  <2>1. call[p][t].resp.tag # "ok"
    BY <1>1, Zenon DEF NoReply, Error, Refused
  <2>2. CASE UNCHANGED call
    BY <1>1, <2>1, <2>2, Zenon DEF Answered
  <2>3. CASE SetAnswer(p, t, h.reply)
    BY <1>1, <2>1, <2>3, AnswerFields DEF Answered
  <2> QED
    BY <1>3, <2>2, <2>3
<1> QED
  BY <1>2, <1>4, <1>5, <1>6, HandledKeepsAInv, Zenon DEF m

LEMMA DeliverLateKeepsAInv ==
  ASSUME IInv, AInv, NEW m \in late, DeliverLate(m)
  PROVE  AInv'
<1> DEFINE p == m.from
           q == Peer(p)
           h == HandleChannelMessage(q, m)
<1>1. m \in Requests /\ Truthful(m)
  BY DEF IInv, TypeOK
<1>2. RunHandler(m, HandleChannelMessage(Peer(m.from), m)) /\ UNCHANGED call /\ UseNothing
  BY DEF DeliverLate
<1>3. UsedGrows /\ used'.late # 0
  BY <1>2, UseNothingGrows DEF AInv, UsedGrows
<1>4. p \in Sides /\ q \in Sides /\ \A x \in Sides : x = p \/ x = q
  BY <1>1, Sides2 DEF Requests, Sides
<1>5. Handles(p, q, m, h)
  BY <1>1, <1>2, RunHandlerHandles
<1> HIDE DEF h
<1>6. \A x \in Sides : FileIsCurrent(x)'
  BY <1>4, <1>5, HandledFiles
<1>7. \A x \in Sides : DriveIsCurrent(x)'
  <2>1. DriveIsCurrent(q)'
    BY <1>2, <1>4, <1>5, ReceiverDrive, Zenon
  <2>2. DriveIsCurrent(p) /\ rc'[p] = rc[p]
    BY <1>4, <1>5, Zenon DEF AInv, Handles
  <2>3. DriveIsCurrent(p)'
    BY <1>2, <2>2, Zenon DEF DriveIsCurrent
  <2> QED
    BY <1>4, <2>1, <2>3, Zenon
<1> QED
  BY <1>3, <1>6, <1>7 DEF AInv, UsedGrows

---------------------------------------------------------------------------
(* rchan_drive: a stretch of it leaves the channel where it is, or         *)
(* advances to the proposal that the peer has accepted.                    *)

DriveStaysPut(p, d) ==
    LET cur == rc[p].ch.cur
    IN  /\ Quiet(rc[p], d.rc) /\ (Resumes(p) => Resumable(d.rc))
        /\ d.call \in Waiting /\ d.call.resp.tag # "ok"
        /\ d.call.at = "upd" => d.call.msg.st.n = cur.n + 1 /\ d.rc.out_phase = "upd"
        /\ d.call.at = "abort" => d.call.msg.op = "ABORT"
        /\ d.call.at = "reupd" => d.call.msg.st = cur
        /\ d.call.at \in {"rev", "rev2"} => d.call.msg.st.n = cur.n - 1

DriveAdvances(p, d) ==
    /\ Accepted(p)
    /\ d.rc.ch.cur = call[p]["drive"].msg.st /\ d.rc.ch.pending = None /\ d.save
    /\ d.rc.out_phase = "rev" /\ (rc[p].out_phase = "upd" => d.rc.out_state # None)
    /\ d.call \in Waiting /\ d.call.at = "rev" /\ d.call.resp.tag # "ok" /\ d.call.msg.st.n = rc[p].ch.cur.n

LEMMA RunFields ==
  ASSUME IInv, NEW p \in Sides, NEW d, Run(p, d), d.call \in Waiting
  PROVE  /\ rc'[p] = d.rc /\ disk'[p] = (IF d.save THEN d.rc ELSE disk[p]) /\ call'[p]["drive"] = d.call
         /\ \A x \in Sides : x # p => rc'[x] = rc[x] /\ disk'[x] = disk[x]
         /\ \A x \in Sides, u \in Calls : x # p \/ u # "drive" => call'[x][u] = call[x][u]
<1>1. /\ rc' = [rc EXCEPT ![p] = d.rc]
      /\ disk' = IF d.save THEN [disk EXCEPT ![p] = d.rc] ELSE disk
      /\ SetCall(p, "drive", d.call)
  BY DEF Run, SetCall
<1>2. rc'[p] = d.rc /\ \A x \in Sides : x # p => rc'[x] = rc[x]
  BY <1>1 DEF IInv, TypeOK
<1>3. disk'[p] = (IF d.save THEN d.rc ELSE disk[p]) /\ \A x \in Sides : x # p => disk'[x] = disk[x]
  BY <1>1 DEF IInv, TypeOK
<1>4. "drive" \in Calls
  BY Zenon DEF Calls
<1> QED
  BY <1>1, <1>2, <1>3, <1>4, CallChanges, Zenon

\* The calls of the node other than rchan_drive propose nothing, as before.
LEMMA OthersStayCurrent ==
  ASSUME AInv, NEW p \in Sides,
         \A x \in Sides, u \in Calls : x # p \/ u # "drive" => call'[x][u] = call[x][u],
         \A x \in Sides : x # p => rc'[x] = rc[x]
  PROVE  /\ \A x \in Sides : x # p => DriveIsCurrent(x)'
         /\ \A t \in Calls : t # "drive" /\ call'[p][t].at # "idle" =>
               call'[p][t].msg.op \notin {"UPD", "REV"}
<1>1. "drive" \in Calls
  BY DEF Calls
<1>2. \A x \in Sides : DriveIsCurrent(x)
  BY Zenon DEF AInv
<1>3. ASSUME NEW x \in Sides, x # p PROVE DriveIsCurrent(x)'
  <2>1. \A u \in Calls : call'[x][u] = call[x][u]
    BY <1>3
  <2>2. call'[x]["drive"] = call[x]["drive"] /\ rc'[x] = rc[x]
    BY <1>1, <1>3, <2>1, Zenon
  <2> QED
    BY <1>2, <2>1, <2>2 DEF DriveIsCurrent
<1>4. ASSUME NEW t \in Calls, t # "drive", call'[p][t].at # "idle"
      PROVE  call'[p][t].msg.op \notin {"UPD", "REV"}
  <2>1. call'[p][t] = call[p][t]
    BY <1>4, Zenon
  <2> QED
    BY <1>2, <1>4, <2>1 DEF DriveIsCurrent
<1> QED
  BY <1>3, <1>4

LEMMA StayingPutKeepsAInv ==
  ASSUME IInv, AInv, UsedGrows, UNCHANGED late, NEW p \in Sides, NEW d, Run(p, d), DriveStaysPut(p, d)
  PROVE  AInv'
<1>1. d.call \in Waiting /\ Quiet(rc[p], d.rc) /\ d.call.resp.tag # "ok"
  BY Zenon DEF DriveStaysPut
<1>2. /\ rc'[p] = d.rc /\ disk'[p] = (IF d.save THEN d.rc ELSE disk[p]) /\ call'[p]["drive"] = d.call
      /\ \A x \in Sides : x # p => rc'[x] = rc[x] /\ disk'[x] = disk[x]
      /\ \A x \in Sides, u \in Calls : x # p \/ u # "drive" => call'[x][u] = call[x][u]
  BY <1>1, RunFields, Zenon
<1>3. "drive" \in Calls /\ "rollback" \in Calls
  BY Zenon DEF Calls
<1>4. \A x \in Sides : NodeQuiet(x)
  <2> TAKE x \in Sides
  <2>1. FileIsCurrent(x)
    BY DEF AInv
  <2>2. Quiet(rc[x], rc'[x]) /\ disk'[x] \in {rc'[x], disk[x]}
    BY <1>1, <1>2 DEF Quiet
  <2> QED
    BY <2>1, <2>2, QuietNode
<1>5. \A x \in Sides : DriveIsCurrent(x)'
  <2>1. /\ \A x \in Sides : x # p => DriveIsCurrent(x)'
        /\ \A t \in Calls : t # "drive" /\ call'[p][t].at # "idle" =>
              call'[p][t].msg.op \notin {"UPD", "REV"}
    BY <1>2, OthersStayCurrent, Zenon
  <2>2. rc'[p].ch.cur = rc[p].ch.cur
    BY <1>1, <1>2, Zenon DEF Quiet
  <2>3. DriveIsCurrent(p)'
    BY <1>1, <1>2, <2>1, <2>2, Zenon DEF DriveIsCurrent, DriveStaysPut
  <2> QED
    BY <2>1, <2>3, Zenon
<1>6. \A x \in Sides : Accepted(x)' => Accepted(x) /\ call'[x]["drive"].msg = call[x]["drive"].msg
  BY <1>1, <1>2, <1>3, Zenon DEF Accepted
<1>7. ASSUME NEW x \in Sides, AllResume PROVE Resumes(x)'
  <2> \A y \in Sides : Resumes(y)
    BY <1>7, Zenon DEF AllResume
  <2>1. CASE x = p
    <3>1. Resumable(d.rc) /\ (d.call.at = "upd" => d.rc.out_phase = "upd")
      BY <1>7, Zenon DEF DriveStaysPut
    <3>2. call'[p]["rollback"] = Idle
      BY <1>2, <1>3, <1>7, Zenon DEF Resumes
    <3>3. Resumable(disk'[p])
      BY <1>2, <1>7, <3>1, Zenon DEF Resumes
    <3> QED
      BY <1>2, <2>1, <3>1, <3>2, <3>3, Zenon DEF Resumes
  <2>2. CASE x # p
    BY <1>2, <1>3, <1>7, <2>2, Zenon DEF Resumes
  <2> QED
    BY <2>1, <2>2
<1> QED
  BY <1>4, <1>5, <1>6, <1>7, QuietStep, Zenon DEF AllResume

LEMMA AdvancingKeepsAInv ==
  ASSUME IInv, AInv, UsedGrows, UNCHANGED late, NEW p \in Sides, NEW d, Run(p, d), DriveAdvances(p, d)
  PROVE  AInv'
<1> DEFINE q == Peer(p)
           next == call[p]["drive"].msg.st
<1>1. q \in Sides /\ q # p /\ Peer(q) = p /\ \A x \in Sides : x = p \/ x = q
  BY Sides2, Zenon DEF Sides
<1>2. /\ d.rc.ch.cur = next /\ d.rc.ch.pending = None /\ d.save /\ d.rc.out_phase = "rev"
      /\ d.call \in Waiting /\ d.call.at = "rev" /\ d.call.resp.tag # "ok" /\ d.call.msg.st.n = rc[p].ch.cur.n
  BY Zenon DEF DriveAdvances
<1>3. /\ rc'[p] = d.rc /\ disk'[p] = d.rc /\ call'[p]["drive"] = d.call
      /\ rc'[q] = rc[q] /\ disk'[q] = disk[q]
      /\ \A x \in Sides : x # p => rc'[x] = rc[x] /\ disk'[x] = disk[x]
      /\ \A x \in Sides, u \in Calls : x # p \/ u # "drive" => call'[x][u] = call[x][u]
  BY <1>1, <1>2, RunFields
<1>4. "drive" \in Calls /\ "rollback" \in Calls
  BY DEF Calls
<1>5. rc[p].ch.cur.n \in Nat /\ next.n = rc[p].ch.cur.n + 1
  BY MemoryFacts, Zenon DEF AInv, DriveIsCurrent, DriveAdvances, Accepted
<1> HIDE DEF next, q
<1>6. \A x \in Sides : FileIsCurrent(x)'
  <2>1. FileIsCurrent(q)'
    BY <1>1, <1>3, Zenon DEF AInv, FileIsCurrent
  <2>2. FileIsCurrent(p)'
    BY <1>2, <1>3, Zenon DEF FileIsCurrent
  <2> QED
    BY <1>1, <2>1, <2>2, Zenon
<1>7. \A x \in Sides : DriveIsCurrent(x)'
  <2>1. /\ \A x \in Sides : x # p => DriveIsCurrent(x)'
        /\ \A t \in Calls : t # "drive" /\ call'[p][t].at # "idle" =>
              call'[p][t].msg.op \notin {"UPD", "REV"}
    BY <1>3, OthersStayCurrent, Zenon
  <2>2. d.call.resp.tag # "ok"
    BY Zenon DEF DriveAdvances
  <2>3. rc'[p].ch.cur.n - 1 = d.call.msg.st.n
    <3>1. rc'[p].ch.cur.n = d.call.msg.st.n + 1 /\ d.call.msg.st.n \in Nat
      BY <1>2, <1>3, <1>5, Zenon
    <3> QED
      BY <3>1, OneMore, Zenon
  <2>4. DriveIsCurrent(p)'
    BY <1>2, <1>3, <2>1, <2>2, <2>3, Zenon DEF DriveIsCurrent
  <2> QED
    BY <2>1, <2>4
<1>8. ASSUME AllFollow PROVE AllFollow'
  <2>1. rc[q].ch.cur.n = rc[p].ch.cur.n /\ disk[q].ch.pending \in {None, next} /\ ~Accepted(q)
    <3>1. Accepted(p) /\ Follows(p)
      BY <1>8, Zenon DEF DriveAdvances, AllFollow
    <3> QED
      BY <3>1, Zenon DEF Follows, next, q
  <2>2. ~Accepted(p)' /\ ~Accepted(q)'
    BY <1>1, <1>2, <1>3, <1>4, <2>1, Zenon DEF Accepted
  <2>3. /\ rc'[p].ch.cur = next /\ rc'[p].ch.cur.n = rc'[q].ch.cur.n + 1
        /\ disk'[q].ch.pending \in {None, rc'[p].ch.cur} /\ rc'[q].ch.cur.n \in Nat
    BY <1>2, <1>3, <1>5, <2>1, Zenon
  <2>a. rc'[p].ch.cur.n # rc'[q].ch.cur.n /\ rc'[q].ch.cur.n # rc'[p].ch.cur.n + 1
    BY <2>3, OneMore, Zenon
  <2>4. Follows(p)'
    BY <2>2, <2>3, <2>a, Zenon DEF Follows, q
  <2>5. Follows(q)'
    BY <1>1, <2>2, <2>a, Zenon DEF Follows
  <2> QED
    BY <1>1, <2>4, <2>5, Zenon DEF AllFollow
<1>9. ASSUME AllResume PROVE AllResume'
  <2> Resumes(p) /\ Resumes(q)
    BY <1>1, <1>9, Zenon DEF AllResume
  <2>1. d.rc.out_state # None
    BY Zenon DEF DriveAdvances, Accepted, Resumes
  <2>2. Resumable(d.rc)
    BY <1>2, <2>1, Zenon DEF Resumable
  <2>3. Resumes(p)'
    BY <1>2, <1>3, <1>4, <2>2, Zenon DEF Resumes
  <2>4. Resumes(q)'
    BY <1>1, <1>3, <1>4, Zenon DEF Resumes
  <2> QED
    BY <1>1, <2>3, <2>4, Zenon DEF AllResume
<1> QED
  BY <1>6, <1>7, <1>8, <1>9, Zenon DEF AInv, UsedGrows

\* A proposal is sent, or sent again.
LEMMA DriveUpdStaysPut ==
  ASSUME IInv, NEW p \in Sides, NEW r \in Endpoints, NEW s \in ChanState, NEW d,
         r.ch = rc[p].ch, r.out_phase = "upd", r.out_state = s, rc[p].out_phase # "rev",
         ~HasPending(r.ch), s.n = r.ch.cur.n + 1,
         d.rc = Drive(p, r).rc, d.call = Drive(p, r).call
  PROVE  DriveStaysPut(p, d)
<1> DEFINE free == [r EXCEPT !.ch = DropPending(@)]
<1>0. r.out_state # None /\ r.ch.pending # r.out_state
  BY NoneIsNoState DEF HasPending
<1>1. Drive(p, r) = DriveUpd(p, r)
  BY <1>0, Zenon DEF Drive
<1>2. DriveUpd(p, r) = SendUpd(p, free, s, "upd")
  BY <1>0 DEF DriveUpd
<1>3. d.rc = free /\ d.call = Wait("upd", Request("UPD", p, s))
  BY <1>1, <1>2 DEF SendUpd, Drove
<1>4. /\ free.ch.cur = r.ch.cur /\ free.ch.pending = None /\ free.ch.remote_hashes = r.ch.remote_hashes
      /\ free.out_phase = "upd"
  BY DropFields, Zenon
<1> HIDE DEF free
<1>5. /\ d.call \in Waiting /\ d.call.at = "upd" /\ d.call.resp.tag # "ok" /\ d.call.msg.st = s
  BY <1>3, RequestFacts, WaitFacts
<1>6. Quiet(rc[p], d.rc)
  BY <1>3, <1>4, Zenon DEF Quiet
<1>7. Resumes(p) => Resumable(d.rc)
  BY <1>3, <1>4, Zenon DEF Resumes, Resumable, AwaitingRemoteRevoke
<1> QED
  BY <1>3, <1>4, <1>5, <1>6, <1>7, Zenon DEF DriveStaysPut

\* rchan_drive returns.
LEMMA StopStaysPut ==
  ASSUME NEW p, NEW r, Quiet(rc[p], r), Resumes(p) => Resumable(r)
  PROVE  DriveStaysPut(p, Stop(r))
<1>1. Stop(r).rc = r /\ Stop(r).call = Idle
  BY DEF Stop, Drove
<1> QED
  BY <1>1, IdleFacts DEF DriveStaysPut

\* A revocation is sent again.
LEMMA SendRevStaysPut ==
  ASSUME IInv, NEW p \in Sides, rc[p].out_phase = "rev", NEW at \in {"rev", "rev2"}
  PROVE  DriveStaysPut(p, SendRev(p, rc[p], FALSE, at))
<1> DEFINE n == LastRevoked(rc[p].ch)
           d == SendRev(p, rc[p], FALSE, at)
<1>1. rc[p].ch.cur.n \in 0 .. MaxNumber /\ rc[p].ch.cur.n >= 1
  BY MemoryFacts DEF Store
<1>2. n = rc[p].ch.cur.n - 1 /\ n \in 0 .. MaxNumber
  BY <1>1, ChannelAssumption DEF LastRevoked
<1>3. d.rc = rc[p] /\ d.call = Wait(at, Request("REV", p, Numbered(n)))
  BY DEF SendRev, Drove
<1> HIDE DEF n, d
<1>4. Numbered(n) \in ChanState /\ Numbered(n).n = n
  BY <1>2, NumberedFacts, Zenon
<1>5. d.call \in Waiting /\ d.call.at = at /\ d.call.resp.tag # "ok" /\ d.call.msg.st.n = n
  BY <1>3, <1>4, RequestFacts, WaitFacts
<1>6. Quiet(rc[p], d.rc) /\ (Resumes(p) => Resumable(d.rc))
  BY <1>3, Zenon DEF Quiet, Resumes
<1>7. DriveStaysPut(p, d)
  BY <1>2, <1>5, <1>6, Zenon DEF DriveStaysPut
<1> QED
  BY <1>7, Zenon DEF d

LEMMA PayKeepsAInv ==
  ASSUME IInv, AInv, NEW p \in Sides, NEW amount, Pay(p, amount)
  PROVE  AInv'
<1> DEFINE cur == rc[p].ch.cur
           next == [n |-> cur.n + 1, bal_a |-> cur.bal_a + (IF p = "a" THEN -amount ELSE amount)]
           r == [rc[p] EXCEPT !.out_phase = "upd", !.out_state = next]
           d == [Drive(p, r) EXCEPT !.save = TRUE]
<1>1. /\ cur.n < budget.number /\ rc[p].out_phase = "none" /\ ValidateNext(rc[p].ch, next)
      /\ Run(p, d) /\ UNCHANGED late /\ Use("proposals")
  BY Zenon DEF Pay, Propose
<1>2. rc[p] \in Endpoints /\ cur.n \in Nat /\ budget.number \in 1 .. MaxNumber
  BY EndpointFields, RemoteChannelAssumption DEF IInv, TypeOK
<1>3. next \in ChanState /\ next.n = cur.n + 1 /\ ~HasPending(rc[p].ch)
  <2>1. next.bal_a \in 0 .. Capacity
    BY <1>1, ChannelAssumption DEF ValidateNext
  <2>2. next.n \in 0 .. MaxNumber /\ next.n = cur.n + 1 /\ ~HasPending(rc[p].ch)
    BY <1>1, <1>2, ChannelAssumption DEF ValidateNext
  <2>3. next = [n |-> next.n, bal_a |-> next.bal_a]
    OBVIOUS
  <2> HIDE DEF next
  <2> QED
    BY <2>1, <2>2, <2>3 DEF ChanState
<1> HIDE DEF next
<1>4. r.ch = rc[p].ch /\ r.out_phase = "upd" /\ r.out_state = next /\ r \in Endpoints
  BY <1>2, <1>3, Zenon DEF Endpoints
<1> HIDE DEF r
<1>5. d.rc = Drive(p, r).rc /\ d.call = Drive(p, r).call
  BY DriveIsRecord
<1> HIDE DEF d
<1>6. DriveStaysPut(p, d)
  BY <1>1, <1>3, <1>4, <1>5, DriveUpdStaysPut
<1> QED
  BY <1>1, <1>6, UseGrows, StayingPutKeepsAInv

LEMMA ResumeKeepsAInv ==
  ASSUME IInv, AInv, NEW p \in Sides, Resume(p)
  PROVE  AInv'
<1> DEFINE r == rc[p]
           d == Drive(p, r)
<1>1. /\ r.out_phase # "none" /\ Run(p, d) /\ UNCHANGED late /\ UsedGrows
  BY UseNothingGrows, Zenon DEF Resume
<1>2. Store(r, signed[p], signed[Peer(p)], revealed[p]) /\ r \in Endpoints
  BY MemoryFacts, Zenon
<1>3. r.out_phase \in {"upd", "rev"}
  BY <1>1, <1>2, EndpointFields, Zenon
<1>4. CASE r.out_phase = "upd"
  <2>1. r.out_state \in ChanState /\ r.out_state.n = r.ch.cur.n + 1 /\ ~HasPending(r.ch)
    BY <1>2, <1>4, Zenon DEF Store
  <2>2. DriveStaysPut(p, d)
    BY <1>2, <1>4, <2>1, DriveUpdStaysPut
  <2> QED
    BY <1>1, <2>2, StayingPutKeepsAInv, Zenon
<1>5. CASE r.out_phase = "rev" /\ r.out_state # None
  <2>1. d = SendRev(p, r, FALSE, "rev")
    BY <1>5 DEF Drive
  <2>2. DriveStaysPut(p, d)
    BY <1>5, <2>1, SendRevStaysPut, Zenon
  <2> QED
    BY <1>1, <2>2, StayingPutKeepsAInv
<1>6. CASE r.out_phase = "rev" /\ r.out_state = None
  <2> DEFINE x == [r EXCEPT !.out_phase = "none"]
  <2>1. d.rc = x /\ d.call = Idle
    BY <1>6 DEF Drive, Drove
  <2>2. x.ch = r.ch
    BY <1>2 DEF Endpoints
  <2>3. ~Resumes(p)
    BY <1>6, Zenon DEF Resumes, Resumable
  <2> HIDE DEF x, d
  <2>4. DriveStaysPut(p, d)
    BY <2>1, <2>2, <2>3, IdleFacts DEF DriveStaysPut, Quiet
  <2> QED
    BY <1>1, <2>4, StayingPutKeepsAInv
<1> QED
  BY <1>3, <1>4, <1>5, <1>6, Zenon

LEMMA AdvanceFields ==
  ASSUME IInv, AInv, NEW p \in Sides, Accepted(p), ValidateNext(rc[p].ch, call[p]["drive"].msg.st)
  PROVE  DriveAdvances(p, Advance(p, [rc[p] EXCEPT !.ch = ReceiveCommitSig(@, call[p]["drive"].msg.st)]))
<1> DEFINE r == rc[p]
           next == call[p]["drive"].msg.st
           x == [r EXCEPT !.ch = ReceiveCommitSig(@, next)]
           y == [x EXCEPT !.ch = RevokeAndAdvance(@), !.out_phase = "rev"]
           d == Advance(p, x)
           n == r.ch.cur.n
<1>1. r \in Endpoints /\ n \in 0 .. MaxNumber
  BY EndpointFields, Zenon DEF IInv, TypeOK, ChanState
<1>2. next.n = n + 1
  BY DEF ValidateNext
<1>3. y.ch.cur = next /\ y.ch.pending = None /\ y.out_phase = "rev" /\ y.out_state = r.out_state
  BY <1>1, Zenon DEF Endpoints, ReceiveCommitSig, RevokeAndAdvance
<1>4. d.rc = y /\ d.save = TRUE /\ d.call = Wait("rev", Request("REV", p, Numbered(LastRevoked(y.ch))))
  BY DEF Advance, SendRev, Drove
<1> HIDE DEF x, y, d
<1>5. LastRevoked(y.ch) = n
  BY <1>1, <1>2, <1>3 DEF LastRevoked
<1>6. Numbered(n) \in ChanState /\ Numbered(n).n = n
  BY <1>1, NumberedFacts, Zenon
<1>7. d.call \in Waiting /\ d.call.at = "rev" /\ d.call.resp.tag # "ok" /\ d.call.msg.st.n = n
  <2> DEFINE m == Request("REV", p, Numbered(n))
  <2>1. m \in Requests /\ m.st = Numbered(n)
    BY <1>6, RequestFacts
  <2> HIDE DEF m
  <2>2. /\ Wait("rev", m) \in Waiting /\ Wait("rev", m).at = "rev" /\ Wait("rev", m).msg = m
        /\ Wait("rev", m).resp.tag # "ok"
    BY <2>1, WaitFacts
  <2>3. d.call = Wait("rev", m)
    BY <1>4, <1>5, Zenon DEF m
  <2> QED
    BY <1>6, <2>1, <2>2, <2>3, Zenon
<1>8. r.out_phase = "upd" => r.out_state # None
  BY MemoryFacts, NoneIsNoState, Zenon DEF Store
<1>9. DriveAdvances(p, d)
  BY <1>3, <1>4, <1>7, <1>8, Zenon DEF DriveAdvances
<1> QED
  BY <1>9, Zenon DEF d, x

LEMMA UpdAnsweredCases ==
  ASSUME IInv, AInv, NEW p \in Sides, call[p]["drive"].at = "upd"
  PROVE  LET d == UpdAnswered(p, rc[p], call[p]["drive"]) IN DriveStaysPut(p, d) \/ DriveAdvances(p, d)
<1> DEFINE r == rc[p]
           c == call[p]["drive"]
           d == UpdAnswered(p, r, c)
<1>1. r \in Endpoints /\ Quiet(r, r) /\ (Resumes(p) => Resumable(r))
  BY DEF IInv, TypeOK, Quiet, Resumes
<1>2. CASE c.resp.tag = "ok" /\ ValidateNext(r.ch, c.msg.st)
  <2>1. d = Advance(p, [r EXCEPT !.ch = ReceiveCommitSig(@, c.msg.st)])
    BY <1>2 DEF UpdAnswered
  <2>2. Accepted(p)
    BY <1>2, Zenon DEF Accepted
  <2> QED
    BY <1>2, <2>1, <2>2, AdvanceFields
<1>3. CASE d = Stop(r)
  BY <1>1, <1>3, StopStaysPut, Zenon
<1>4. CASE d = Stop(AbandonOut(r))
  <2>1. Quiet(r, AbandonOut(r)) /\ (Resumable(r) => Resumable(AbandonOut(r)))
    BY <1>1, AbandonFields, Zenon
  <2> QED
    BY <1>1, <1>4, <2>1, StopStaysPut, Zenon
<1>5. CASE d = Drove(r, FALSE, Wait("abort", Request("ABORT", p, Numbered(c.msg.st.n))))
  <2> DEFINE m == Request("ABORT", p, Numbered(c.msg.st.n))
  <2>1. c.msg.st.n \in 0 .. MaxNumber
    BY RequestIsTyped, Zenon DEF Calls
  <2>2. m \in Requests /\ m.op = "ABORT"
    BY <2>1, NumberedFacts, RequestFacts
  <2>3. d.rc = r /\ d.call = Wait("abort", m)
    BY <1>5 DEF Drove
  <2> HIDE DEF m, d
  <2>4. d.call \in Waiting /\ d.call.at = "abort" /\ d.call.msg = m /\ d.call.resp.tag # "ok"
    BY <2>2, <2>3, WaitFacts
  <2>5. DriveStaysPut(p, d)
    BY <1>1, <2>2, <2>3, <2>4 DEF DriveStaysPut
  <2> QED
    BY <2>5, Zenon DEF d
<1>6. \/ c.resp.tag = "ok" /\ ValidateNext(r.ch, c.msg.st)
      \/ d = Stop(r) \/ d = Stop(AbandonOut(r))
      \/ d = Drove(r, FALSE, Wait("abort", Request("ABORT", p, Numbered(c.msg.st.n))))
  BY Zenon DEF UpdAnswered
<1> HIDE DEF d
<1> QED
  BY <1>2, <1>3, <1>4, <1>5, <1>6, Zenon DEF d

\* The answer reveals the state before the current one, so the channel awaits nothing more.
LEMMA FinishStaysPut ==
  ASSUME IInv, NEW p \in Sides
  PROVE  DriveStaysPut(p, Finish(rc[p], rc[p].ch.cur.n - 1))
<1> DEFINE r == rc[p]
           n == r.ch.cur.n - 1
           y == ClearOutbox([r EXCEPT !.ch = ReceiveRevoke(@, n)])
<1>1. r \in Endpoints /\ r.ch.cur.n \in Nat
  BY EndpointFields DEF IInv, TypeOK
<1>2. Quiet(r, r) /\ (Resumes(p) => Resumable(r))
  BY DEF Quiet, Resumes
<1>3. /\ y.ch.cur = r.ch.cur /\ y.ch.pending = r.ch.pending /\ y.out_phase = "none"
      /\ y.ch.remote_hashes = r.ch.remote_hashes \cup {n + 2}
  BY <1>1, Zenon DEF Endpoints, ClearOutbox, ReceiveRevoke
<1>4. Finish(r, n) = Stop(y) \/ Finish(r, n) = Stop(r)
  BY DEF Finish
<1> HIDE DEF y
<1>5. n + 2 = y.ch.cur.n + 1
  BY <1>1, <1>3
<1>6. Quiet(r, y) /\ Resumable(y)
  BY <1>3, <1>5 DEF Quiet, Resumable, AwaitingRemoteRevoke
<1> QED
  BY <1>2, <1>4, <1>6, StopStaysPut, Zenon

LEMMA RevAnsweredStaysPut ==
  ASSUME IInv, AInv, NEW p \in Sides, call[p]["drive"].at \in {"rev", "rev2"}
  PROVE  DriveStaysPut(p, RevAnswered(p, rc[p], call[p]["drive"]))
<1> DEFINE r == rc[p]
           c == call[p]["drive"]
           d == RevAnswered(p, r, c)
<1>1. r \in Endpoints /\ r.ch.cur \in ChanState /\ Quiet(r, r) /\ (Resumes(p) => Resumable(r))
  BY EndpointFields DEF IInv, TypeOK, Quiet, Resumes
<1>2. CASE c.resp.tag = "ok"
  <2>1. c.resp.n = r.ch.cur.n - 1
    BY <1>2, Zenon DEF AInv, DriveIsCurrent
  <2> QED
    BY <1>2, <2>1, FinishStaysPut, Zenon DEF RevAnswered
<1>3. CASE d = Stop(r)
  BY <1>1, <1>3, StopStaysPut, Zenon
<1>4. CASE d = SendUpd(p, r, r.ch.cur, "reupd")
  <2>1. d.rc = r /\ d.call = Wait("reupd", Request("UPD", p, r.ch.cur))
    BY <1>4 DEF SendUpd, Drove
  <2> HIDE DEF d
  <2>2. d.call \in Waiting /\ d.call.at = "reupd" /\ d.call.msg.st = r.ch.cur /\ d.call.resp.tag # "ok"
    BY <1>1, <2>1, RequestFacts, WaitFacts
  <2>3. DriveStaysPut(p, d)
    BY <1>1, <2>1, <2>2, Zenon DEF DriveStaysPut
  <2> QED
    BY <2>3, Zenon DEF d
<1>5. c.resp.tag = "ok" \/ d = Stop(r) \/ d = SendUpd(p, r, r.ch.cur, "reupd")
  BY Zenon DEF RevAnswered
<1> QED
  BY <1>2, <1>3, <1>4, <1>5, Zenon

LEMMA DriveContinuesKeepsAInv ==
  ASSUME IInv, AInv, NEW p \in Sides, DriveContinues(p)
  PROVE  AInv'
<1> DEFINE r == rc[p]
           c == call[p]["drive"]
           d == DriveOn(p, r, c)
<1>1. c.at # "idle" /\ Run(p, d) /\ UNCHANGED late /\ UsedGrows
  BY UseNothingGrows, Zenon DEF DriveContinues, Busy
<1>2. c.at \in {"upd", "abort", "rev", "rev2", "reupd"}
  <2>1. DriveOK(p)
    BY Zenon DEF IInv
  <2>2. c \in Waiting
    BY CallIsTyped, Zenon DEF Calls
  <2> QED
    BY <1>1, <2>1, <2>2, Zenon DEF Waiting, DriveOK
<1>3. DriveStaysPut(p, Stop(r))
  BY StopStaysPut DEF Quiet, Resumes
<1>4. DriveStaysPut(p, d) \/ DriveAdvances(p, d)
  <2>1. CASE c.at = "upd"
    BY <2>1, UpdAnsweredCases DEF DriveOn
  <2>2. CASE c.at = "abort"
    BY <1>3, <2>2 DEF DriveOn
  <2>3. CASE c.at \in {"rev", "rev2"}
    BY <2>3, RevAnsweredStaysPut DEF DriveOn
  <2>4. CASE c.at = "reupd"
    <3>1. r.out_phase = "rev"
      BY <2>4 DEF IInv, DriveOK
    <3>2. d = SendRev(p, r, FALSE, "rev2") \/ d = Stop(r)
      BY <2>4, Zenon DEF DriveOn, ReUpdAnswered
    <3>3. DriveStaysPut(p, SendRev(p, r, FALSE, "rev2"))
      BY <3>1, SendRevStaysPut, Zenon
    <3> QED
      BY <1>3, <3>2, <3>3, Zenon
  <2> QED
    BY <1>2, <2>1, <2>2, <2>3, <2>4, Zenon
<1> HIDE DEF d
<1> QED
  BY <1>1, <1>4, StayingPutKeepsAInv, AdvancingKeepsAInv, Zenon

---------------------------------------------------------------------------
(* The theorems.                                                           *)

LEMMA InitAInv == Init => AInv
<1> SUFFICES ASSUME Init PROVE AInv
  OBVIOUS
<1>1. \A p \in Sides : /\ rc[p] = Opened /\ disk[p] = Opened /\ rc[Peer(p)] = Opened /\ disk[Peer(p)] = Opened
                       /\ \A t \in Calls : call[p][t] = Idle
  BY Sides2 DEF Init, AllIdle
<1>2. /\ Opened.ch.cur = State0 /\ Opened.ch.pending = None /\ Opened.out_phase = "none"
      /\ Opened.ch.remote_hashes = {0, 1}
  BY DEF Opened, OpenedChannel
<1>3. State0.n = 0
  BY DEF State0
<1>4. used \in Used /\ late = {}
  BY DEF Init, Used
<1> HIDE DEF Opened, State0
<1>5. "drive" \in Calls /\ "rollback" \in Calls
  BY Zenon DEF Calls
<1>6. \A p \in Sides : FileIsCurrent(p)
  BY <1>1, <1>2, Zenon DEF FileIsCurrent
<1>7. \A p \in Sides : DriveIsCurrent(p) /\ ~Accepted(p)
  BY <1>1, <1>5, IdleFacts, Zenon DEF DriveIsCurrent, Accepted
<1>8. AllFollow
  BY <1>1, <1>2, <1>3, <1>7, Zenon DEF Follows, AllFollow
<1>9. Resumable(Opened)
  BY <1>2, <1>3 DEF Resumable, AwaitingRemoteRevoke
<1>10. AllResume
  BY <1>1, <1>5, <1>9, IdleFacts, Zenon DEF Resumes, AllResume
<1> QED
  BY <1>4, <1>6, <1>7, <1>8, <1>10 DEF AInv

LEMMA NextAInv == IInv /\ AInv /\ [Next]_vars => AInv'
<1> SUFFICES ASSUME IInv, AInv, [Next]_vars PROVE AInv'
  OBVIOUS
<1>1. ASSUME NEW p \in Sides, NodeStep(p) PROVE AInv'
  BY <1>1, ResumeKeepsAInv, DriveContinuesKeepsAInv, TickSyncKeepsAInv, SyncContinuesKeepsAInv,
     RollbackContinuesKeepsAInv, RollbackProposalKeepsAInv, RollbackPendingKeepsAInv, Zenon DEF NodeStep
<1>2. ASSUME NEW p \in Sides, Crash(p) PROVE AInv'
  BY <1>2, CrashKeepsAInv
<1>3. ASSUME NEW p \in Proposers, NEW amount \in budget.amounts, Pay(p, amount) PROVE AInv'
  BY <1>3, PayKeepsAInv, RemoteChannelAssumption
<1>4. ASSUME NEW p \in Sides, NEW t \in Calls, Network(p, t) PROVE AInv'
  BY <1>4, DeliverKeepsAInv, LoseKeepsAInv DEF Network
<1>5. ASSUME NEW m \in late, DeliverLate(m) PROVE AInv'
  BY <1>5, DeliverLateKeepsAInv
<1>6. CASE UNCHANGED vars
  BY <1>6, Zenon DEF vars, AInv, FileIsCurrent, DriveIsCurrent, AllFollow, Follows, Accepted, AllResume, Resumes
<1> QED
  BY <1>1, <1>2, <1>3, <1>4, <1>5, <1>6, Zenon DEF Next

\* Every reachable state satisfies both invariants.
THEOREM AgreementInvariant == Spec => [](IInv /\ AInv)
<1>1. Init => IInv /\ AInv
  BY InitIInv, InitAInv
<1>2. IInv /\ AInv /\ [Next]_vars => (IInv /\ AInv)'
  BY NextIInv, NextAInv
<1> QED
  BY <1>1, <1>2, PTL DEF Spec

\* The two nodes never hold different states under one number and neither is more than
\* one ahead, unless a request is handled after its sender gave up: the peer of a node
\* that accepted a proposal can only be waiting for the revocation of that proposal.
THEOREM Agreement == Spec => []NodesAgreeInOrder
<1>1. IInv /\ AInv => NodesAgreeInOrder
  <2> SUFFICES ASSUME IInv, AInv, used.late = 0 PROVE NodesAgree
    BY DEF NodesAgreeInOrder
  <2> DEFINE a == rc["a"].ch.cur
             b == rc["b"].ch.cur
  <2>1. "a" \in Sides /\ "b" \in Sides /\ Peer("a") = "b" /\ Peer("b") = "a"
    BY DEF Sides, Peer
  <2>2. a.n \in Nat /\ b.n \in Nat
    BY <2>1, MemoryFacts, Zenon
  <2>3. /\ Store(rc["a"], signed["a"], signed["b"], revealed["a"])
        /\ Store(rc["b"], signed["b"], signed["a"], revealed["b"])
    BY <2>1, MemoryFacts, Zenon
  <2>4. a \in signed["b"] /\ b \in signed["a"]
    BY <2>3, Zenon DEF Store
  <2>5. a.n <= b.n + 1 /\ b.n <= a.n + 1
    BY <2>3, <2>4, Zenon DEF Store
  <2>6. a.n = b.n => a = b
    BY <2>1, Zenon DEF AInv, AllFollow, Follows
  <2> HIDE DEF a, b
  <2>7. a.n - b.n \in -1 .. 1
    BY <2>2, <2>5
  <2> QED
    BY <2>6, <2>7 DEF NodesAgree, a, b
<1> QED
  BY <1>1, AgreementInvariant, PTL

\* A node that has revoked a state and lacks the peer's revocation has an outbox that
\* rchan_drive can resume, unless a request was handled late or somebody rolled back.
THEOREM OutboxKept == Spec => []DriveKeepsOutbox
<1>1. AInv => DriveKeepsOutbox
  BY DEF AInv, AllResume, Resumes, Resumable, DriveKeepsOutbox, UnfinishedIsResumed
<1> QED
  BY <1>1, AgreementInvariant, PTL
=============================================================================
