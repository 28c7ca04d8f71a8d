--------------------------- MODULE RemoteChannel ---------------------------
(* Payment channels between two nodes, src/src/rpc_rchannel.cpp: the two   *)
(* nodes of one channel, the requests between them and their channel files. *)
(*                                                                         *)
(* A node changes a channel under its state lock, and drops the lock only  *)
(* inside request_peer, while it waits for the answer.  One step is        *)
(* therefore the code between two such waits.  Three calls of a node may   *)
(* wait at the same time: rchan_drive (one at a time, guarded by rc.busy), *)
(* the SYNC probe of rchan_tick, and the rollback of rchan_recover.        *)
(*                                                                         *)
(* The network loses requests and answers.  A request whose caller gave up *)
(* may still be waiting for the state lock of the receiver: it is handled  *)
(* late, and its answer goes nowhere.  A request sent on a stale pooled    *)
(* connection is sent a second time, so it may be handled twice.  A crash  *)
(* replaces a node's memory by its channel file.                           *)
EXTENDS Channel

CONSTANTS Start,         \* side a's balance in state 0
          Proposers,     \* the sides whose operator pays
          Budgets        \* bounds: each behaviour picks one of these records,
                         \* the highest state number, the amounts paid, and how
                         \* many proposals, operator rollbacks, lost or repeated
                         \* requests, requests handled late and crashes it has

ASSUME RemoteChannelAssumption ==
    /\ Start \in Fee .. Capacity
    /\ Proposers \subseteq Sides
    /\ \A b \in Budgets : b.number \in 1 .. MaxNumber /\ b.amounts \subseteq Nat \ {0}

VARIABLES rc,        \* rchannels_: the node's memory of the channel; an empty
                     \* out_phase is written "none"
          disk,      \* the channel file, as rchan_save last wrote it
          call,      \* the calls of a node that wait in request_peer
          late,      \* requests whose caller has given up, not handled yet
          signed,    \* history: the states a node has signed for its peer
          revealed,  \* history: the numbers whose secret a node has sent
          budget,    \* the bounds of this behaviour
          used       \* history: how much of each bound is used up

vars == <<rc, disk, call, late, signed, revealed, budget, used>>

Calls == {"drive", "sync", "rollback"}

Requests == [op : {"UPD", "REV", "ABORT", "SYNC"}, from : Sides,
             st : ChanState]

Refused == [tag |-> "error", n |-> 0, phase |-> "none"]

Ok(n, phase) == [tag |-> "ok", n |-> n, phase |-> phase]

Error(text) == [Refused EXCEPT !.tag = text]

NoReply == Error("none")

Request(op, p, s) == [op |-> op, from |-> p, st |-> s]

Numbered(n) == [n |-> n, bal_a |-> 0]

Idle == [at |-> "idle", msg |-> Request("SYNC", "a", Numbered(0)), resp |-> NoReply]

Wait(at, msg) == [at |-> at, msg |-> msg, resp |-> NoReply]

Busy(p) == call[p]["drive"].at # "idle"

(***************************************************************************)
(* The outbox                                                              *)
(***************************************************************************)

ClearOutbox(r) == [r EXCEPT !.out_phase = "none", !.out_state = None]

\* Mutant: the proposal the peer may hold signed is forgotten.
AbandonOutForgotten(r) == IF r.out_phase = "upd" THEN ClearOutbox(r) ELSE r

\* rchan_abandon_out gives up a proposal that was never revoked.
AbandonOut(r) ==
    IF r.out_phase = "upd"
    THEN ClearOutbox([r EXCEPT !.ch = NoteSignedAbandoned(@, r.out_state)])
    ELSE r

(***************************************************************************)
(* handle_channel_message at node q: what the handler leaves in memory,    *)
(* whether it writes the channel file, and its answer                      *)
(***************************************************************************)

Handled(r, save, reply) == [rc |-> r, save |-> save, reply |-> reply]

Reject(r, text) == Handled(r, FALSE, Error(text))

\* UPD after an earlier pending state, if any, has been dealt with.
AcceptUpd(q, r, next) ==
    IF /\ AcceptsPayment(q, r.ch, next)
       /\ ValidateNext(r.ch, next)
    THEN Handled([r EXCEPT !.ch = ReceiveCommitSig(@, next)], TRUE, Ok(next.n, "none"))
    ELSE Reject(r, "error")

\* Mutant: a repeated UPD is recognised by its number.
HandleUpdByNumber(q, r, next) ==
    IF r.ch.pending.n = next.n
    THEN Handled(r, FALSE, Ok(next.n, "none"))
    ELSE IF HasPending(r.ch) /\ q = "a"
    THEN Reject(r, "conflict")
    ELSE LET free == [r EXCEPT !.ch = DropPending(@)]
         IN  CASE r.out_phase = "rev" -> Reject(free, "error")
               [] r.out_phase = "upd" /\ q = "a" -> Reject(free, "conflict")
               [] OTHER -> AcceptUpd(q, AbandonOut(free), next)

\* Conflicting proposals for the same number: side a's proposal wins.
HandleUpd(q, r, next) ==
    IF r.ch.pending = next
    THEN Handled(r, FALSE, Ok(next.n, "none"))
    ELSE IF HasPending(r.ch) /\ q = "a"
    THEN Reject(r, "conflict")
    ELSE LET free == [r EXCEPT !.ch = DropPending(@)]
         IN  CASE r.out_phase = "rev" -> Reject(free, "error")
               [] r.out_phase = "upd" /\ q = "a" -> Reject(free, "conflict")
               [] OTHER -> AcceptUpd(q, AbandonOut(free), next)

\* REV for the pending state: the peer's revocation is taken, ours answers it.
RevReplied(r, n) ==
    Handled([r EXCEPT !.ch = RevokeAndAdvance(ReceiveRevoke(@, n))], TRUE, Ok(r.ch.cur.n, "none"))

\* Mutant: a repeated REV is not answered.
RevNotRepeated(r, n) == Reject(r, "nopending")

\* REV without a pending state: the answer to an earlier REV may be lost.
RevRepeated(r, n) ==
    IF n + 1 = r.ch.cur.n /\ n \in r.ch.remote_secrets
    THEN Handled(r, FALSE, Ok(LastRevoked(r.ch), "none"))
    ELSE Reject(r, "nopending")

HandleRev(r, n) ==
    CASE ~HasPending(r.ch) -> RevRepeated(r, n)
      [] HasPending(r.ch) /\ CanReceiveRevoke(r.ch, n) -> RevReplied(r, n)
      [] OTHER -> Reject(r, "error")

HandleAbort(r, n) ==
    IF HasPending(r.ch) /\ r.ch.pending.n = n
    THEN Handled([r EXCEPT !.ch = DropPending(@)], TRUE, Ok(r.ch.cur.n, "none"))
    ELSE Handled(r, FALSE, Ok(r.ch.cur.n, "none"))

HandleSync(r) == Handled(r, FALSE, Ok(r.ch.cur.n, r.out_phase))

HandleChannelMessage(q, m) ==
    IF Busy(q) THEN Reject(rc[q], "error")
    ELSE CASE m.op = "SYNC"   -> HandleSync(rc[q])
           [] m.op = "UPD"    -> HandleUpd(q, rc[q], m.st)
           [] m.op = "REV"    -> HandleRev(rc[q], m.st.n)
           [] m.op = "ABORT"  -> HandleAbort(rc[q], m.st.n)

\* The handler runs at the receiver of m.  A positive answer to UPD carries
\* the receiver's signature, a positive answer to REV its secret.
RunHandler(m, h) ==
    LET q == Peer(m.from)
        sig == IF m.op = "UPD" /\ h.reply.tag = "ok" THEN {m.st} ELSE {}
        secret == IF m.op = "REV" /\ h.reply.tag = "ok" THEN {h.reply.n} ELSE {}
    IN  /\ rc' = [rc EXCEPT ![q] = h.rc]
        /\ disk' = IF h.save THEN [disk EXCEPT ![q] = h.rc] ELSE disk
        /\ signed' = [signed EXCEPT ![q] = @ \cup sig]
        /\ revealed' = [revealed EXCEPT ![q] = @ \cup secret]

(***************************************************************************)
(* rchan_drive: what a stretch of it leaves in memory, whether it writes   *)
(* the file, and the request it waits for next                             *)
(***************************************************************************)

Drove(r, save, next) == [rc |-> r, save |-> save, call |-> next]

\* rchan_drive saves and returns.
Stop(r) == Drove(r, TRUE, Idle)

SendRev(p, r, save, at) ==
    Drove(r, save, Wait(at, Request("REV", p, Numbered(LastRevoked(r.ch)))))

\* Mutant: the revocation is sent before the file is written.
AdvanceUnsaved(p, r) ==
    SendRev(p, [r EXCEPT !.ch = RevokeAndAdvance(@), !.out_phase = "rev"], FALSE, "rev")

\* Our proposal is signed by the peer: revoke the current state, save, REV.
Advance(p, r) ==
    SendRev(p, [r EXCEPT !.ch = RevokeAndAdvance(@), !.out_phase = "rev"], TRUE, "rev")

SendUpd(p, r, s, at) == Drove(r, FALSE, Wait(at, Request("UPD", p, s)))

DriveUpd(p, r) ==
    LET x == r.out_state
        free == [r EXCEPT !.ch = DropPending(@)]
    IN  CASE x.n # r.ch.cur.n + 1 -> Stop(AbandonOut(r))
          [] x.n = r.ch.cur.n + 1 /\ r.ch.pending = x -> Advance(p, r)
          [] OTHER -> IF HasPending(r.ch) /\ p = "b"
                      THEN Stop(AbandonOut(r))
                      ELSE SendUpd(p, free, x, "upd")

\* From the start of rchan_drive to its first wait.
Drive(p, r) ==
    CASE r.out_state = None -> Drove([r EXCEPT !.out_phase = "none"], FALSE, Idle)
      [] r.out_state # None /\ r.out_phase = "upd" -> DriveUpd(p, r)
      [] OTHER -> SendRev(p, r, FALSE, "rev")

UpdAnswered(p, r, c) ==
    CASE c.resp.tag = "ok" ->
           IF ValidateNext(r.ch, c.msg.st)
           THEN Advance(p, [r EXCEPT !.ch = ReceiveCommitSig(@, c.msg.st)])
           ELSE Stop(r)
      [] c.resp.tag = "conflict" ->
           IF p = "a"
           THEN Drove(r, FALSE, Wait("abort", Request("ABORT", p, Numbered(c.msg.st.n))))
           ELSE Stop(AbandonOut(r))
      [] OTHER -> Stop(r)

\* Mutant: the outbox is cleared without the peer's revocation.
FinishUnanswered(r, n) == Stop(ClearOutbox(r))

Finish(r, n) ==
    IF CanReceiveRevoke(r.ch, n)
    THEN Stop(ClearOutbox([r EXCEPT !.ch = ReceiveRevoke(@, n)]))
    ELSE Stop(r)

RevAnswered(p, r, c) ==
    CASE c.resp.tag = "ok" -> Finish(r, c.resp.n)
      [] c.resp.tag = "nopending" /\ c.at = "rev" -> SendUpd(p, r, r.ch.cur, "reupd")
      [] OTHER -> Stop(r)

ReUpdAnswered(p, r, c) ==
    IF c.resp.tag = "ok" THEN SendRev(p, r, FALSE, "rev2") ELSE Stop(r)

DriveOn(p, r, c) ==
    CASE c.at = "upd" -> UpdAnswered(p, r, c)
      [] c.at = "abort" -> Stop(r)
      [] c.at \in {"rev", "rev2"} -> RevAnswered(p, r, c)
      [] c.at = "reupd" -> ReUpdAnswered(p, r, c)

\* A request UPD carries the sender's signature, a request REV its secret.
Run(p, d) ==
    LET sent(op) == IF d.call.at # "idle" /\ d.call.msg.op = op THEN {d.call.msg.st} ELSE {}
    IN  /\ rc' = [rc EXCEPT ![p] = d.rc]
        /\ disk' = IF d.save THEN [disk EXCEPT ![p] = d.rc] ELSE disk
        /\ call' = [call EXCEPT ![p]["drive"] = d.call]
        /\ signed' = [signed EXCEPT ![p] = @ \cup sent("UPD")]
        /\ revealed' = [revealed EXCEPT ![p] = @ \cup {s.n : s \in sent("REV")}]

(***************************************************************************)
(* Steps of a node                                                         *)
(***************************************************************************)

Use(what) ==
    /\ used[what] < budget[what]
    /\ used' = [used EXCEPT ![what] = @ + 1]
    /\ UNCHANGED budget

UseNothing == UNCHANGED <<budget, used>>

\* rchan_propose saves the outbox and calls rchan_drive.
Propose(p, next) ==
    LET r == [rc[p] EXCEPT !.out_phase = "upd", !.out_state = next]
    IN  /\ rc[p].out_phase = "none"
        /\ ValidateNext(rc[p].ch, next)
        /\ Run(p, [Drive(p, r) EXCEPT !.save = TRUE])

Pay(p, amount) ==
    LET cur == rc[p].ch.cur
        moved == IF p = "a" THEN -amount ELSE amount
    IN  /\ cur.n < budget.number
        /\ ~Busy(p)
        /\ Balance(p, cur) >= amount + (IF p = "a" THEN Fee ELSE 0)
        /\ Propose(p, [n |-> cur.n + 1, bal_a |-> cur.bal_a + moved])
        /\ Use("proposals")
        /\ UNCHANGED late

\* rchan_tick resumes an interrupted proposal, rchan_recover retries it.
Resume(p) ==
    /\ ~Busy(p)
    /\ rc[p].out_phase # "none"
    /\ Run(p, Drive(p, rc[p]))
    /\ UNCHANGED late /\ UseNothing

DriveContinues(p) ==
    LET c == call[p]["drive"]
    IN  /\ Busy(p)
        /\ c.resp # NoReply
        /\ Run(p, DriveOn(p, rc[p], c))
        /\ UNCHANGED late /\ UseNothing

SetCall(p, t, c) == call' = [call EXCEPT ![p][t] = c]

\* rchan_tick probes the peer about a pending state that has grown old.
TickSync(p) ==
    /\ call[p]["sync"] = Idle
    /\ HasPending(rc[p].ch)
    /\ rc[p].out_phase = "none"
    /\ SetCall(p, "sync", Wait("sync", Request("SYNC", p, Numbered(0))))
    /\ UNCHANGED <<rc, disk, late, signed, revealed>> /\ UseNothing

Remember(p, r) ==
    /\ rc' = [rc EXCEPT ![p] = r]
    /\ disk' = [disk EXCEPT ![p] = r]

\* The proposer has no outbox and is still at our number: it gave up.
SyncDrops(p, resp) ==
    /\ resp.tag = "ok"
    /\ resp.n = rc[p].ch.cur.n
    /\ resp.phase = "none"

SyncContinues(p) ==
    LET resp == call[p]["sync"].resp
    IN  /\ resp # NoReply
        /\ IF SyncDrops(p, resp)
           THEN Remember(p, [rc[p] EXCEPT !.ch = DropPending(@)])
           ELSE UNCHANGED <<rc, disk>>
        /\ SetCall(p, "sync", Idle)
        /\ UNCHANGED <<late, signed, revealed>> /\ UseNothing

RolledBack(r) ==
    LET gone == AbandonOut(r) IN [gone EXCEPT !.ch = DropPending(@)]

\* rchan_recover rollback of a proposal: ABORT is sent first, best effort.
RollbackProposal(p) ==
    /\ ~Busy(p)
    /\ call[p]["rollback"] = Idle
    /\ rc[p].out_phase = "upd"
    /\ SetCall(p, "rollback", Wait("abort", Request("ABORT", p, Numbered(rc[p].out_state.n))))
    /\ Use("rollbacks")
    /\ UNCHANGED <<rc, disk, late, signed, revealed>>

\* rchan_recover rollback with no proposal: drops a pending state of the peer.
RollbackPending(p) ==
    /\ ~Busy(p)
    /\ rc[p].out_phase = "none"
    /\ Remember(p, RolledBack(rc[p]))
    /\ Use("rollbacks")
    /\ UNCHANGED <<call, late, signed, revealed>>

RollbackContinues(p) ==
    /\ call[p]["rollback"].resp # NoReply
    /\ Remember(p, RolledBack(rc[p]))
    /\ SetCall(p, "rollback", Idle)
    /\ UNCHANGED <<late, signed, revealed>> /\ UseNothing

(***************************************************************************)
(* The network and crashes                                                 *)
(***************************************************************************)

Unhandled(p, t) == call[p][t].at # "idle" /\ call[p][t].resp = NoReply

Deliver(p, t) ==
    LET m == call[p][t].msg
        h == HandleChannelMessage(Peer(p), m)
    IN  /\ Unhandled(p, t)
        /\ RunHandler(m, h)
        /\ call' = [call EXCEPT ![p][t].resp = h.reply]
        /\ UNCHANGED late /\ UseNothing

\* Handled, but the answer is lost with the pooled connection: sent again.
DeliverTwice(p, t) ==
    LET m == call[p][t].msg
    IN  /\ Unhandled(p, t)
        /\ RunHandler(m, HandleChannelMessage(Peer(p), m))
        /\ Use("faults")
        /\ UNCHANGED <<call, late>>

\* The caller gets no answer: the request or its answer is lost.
Lose(p, t) ==
    /\ call[p][t].at # "idle"
    /\ call[p][t].resp # Refused
    /\ call' = [call EXCEPT ![p][t].resp = Refused]
    /\ Use("faults")
    /\ UNCHANGED <<rc, disk, late, signed, revealed>>

\* The caller gives up on a request that the peer has yet to handle.
GiveUp(p, t) ==
    /\ Unhandled(p, t)
    /\ call' = [call EXCEPT ![p][t].resp = Refused]
    /\ late' = late \cup {call[p][t].msg}
    /\ Use("late")
    /\ UNCHANGED <<rc, disk, signed, revealed>>

DeliverLate(m) ==
    /\ RunHandler(m, HandleChannelMessage(Peer(m.from), m))
    /\ late' = late \ {m}
    /\ UNCHANGED call /\ UseNothing

AllIdle == [t \in Calls |-> Idle]

\* The node restarts from its channel file (rchan_load).
Crash(p) ==
    /\ rc' = [rc EXCEPT ![p] = disk[p]]
    /\ call' = [call EXCEPT ![p] = AllIdle]
    /\ Use("crashes")
    /\ UNCHANGED <<disk, late, signed, revealed>>

(***************************************************************************)
(* The specification                                                       *)
(***************************************************************************)

State0 == [n |-> 0, bal_a |-> Start]

Opened == [ch |-> OpenedChannel(State0), out_phase |-> "none", out_state |-> None]

Init ==
    /\ rc = [p \in Sides |-> Opened]
    /\ disk = rc
    /\ call = [p \in Sides |-> AllIdle]
    /\ late = {}
    /\ signed = [p \in Sides |-> {State0}]
    /\ revealed = [p \in Sides |-> {}]
    /\ budget \in Budgets
    /\ used = [proposals |-> 0, rollbacks |-> 0, faults |-> 0, late |-> 0, crashes |-> 0]

NodeStep(p) ==
    \/ Resume(p)
    \/ DriveContinues(p)
    \/ TickSync(p)
    \/ SyncContinues(p)
    \/ RollbackContinues(p)
    \/ RollbackProposal(p)
    \/ RollbackPending(p)

Network(p, t) ==
    \/ Deliver(p, t)
    \/ DeliverTwice(p, t)
    \/ Lose(p, t)
    \/ GiveUp(p, t)

Next ==
    \/ \E p \in Sides : NodeStep(p) \/ Crash(p)
    \/ \E p \in Proposers, amount \in budget.amounts : Pay(p, amount)
    \/ \E p \in Sides, t \in Calls : Network(p, t)
    \/ \E m \in late : DeliverLate(m)

Spec == Init /\ [][Next]_vars

\* The main loop keeps calling rchan_tick, threads that wait for the state
\* lock get it, and the peer answers requests.
Fairness ==
    \A p \in Sides :
        /\ WF_vars(Resume(p))
        /\ WF_vars(DriveContinues(p))
        /\ WF_vars(TickSync(p))
        /\ WF_vars(SyncContinues(p))
        /\ WF_vars(RollbackContinues(p))
        /\ \A t \in Calls : WF_vars(Deliver(p, t))

FairSpec == Spec /\ Fairness

(***************************************************************************)
(* Properties                                                              *)
(***************************************************************************)

Endpoints ==
    [ch : [cur : ChanState, pending : ChanState \cup {None},
           remote_hashes : SUBSET (0 .. MaxNumber + 1),
           remote_secrets : SUBSET (0 .. MaxNumber - 1),
           history : SUBSET ChanState, abandoned : SUBSET ChanState],
     out_phase : {"none", "upd", "rev"}, out_state : ChanState \cup {None}]

Replies ==
    [tag : {"ok", "error", "none", "conflict", "nopending"}, n : Nat, phase : {"none", "upd", "rev"}]

Waiting ==
    [at : {"idle", "upd", "abort", "rev", "rev2", "reupd", "sync"}, msg : Requests, resp : Replies]

\* Type invariant: what the memory, the channel file, the calls and the messages of
\* a node hold.
TypeOK ==
    /\ rc \in [Sides -> Endpoints] /\ disk \in [Sides -> Endpoints]
    /\ call \in [Sides -> [Calls -> Waiting]]
    /\ late \subseteq Requests
    /\ signed \in [Sides -> SUBSET ChanState] /\ revealed \in [Sides -> SUBSET (0 .. MaxNumber)]
    /\ budget \in Budgets

\* Once the peer has revoked a number, every state with that number which
\* the node ever signed for it can be punished (penalty_for): whatever was
\* proposed, dropped, rolled back or lost in between, the node's memory and
\* its channel file still know the state.
RevokedIsPunishable ==
    \A p \in Sides : \A s \in signed[p] : \A store \in {rc[p], disk[p]} :
        s.n \in store.ch.remote_secrets => CanPunish(store.ch, s)

\* A unilateral close is always possible and safe: the commitment that
\* signed_local_commitment would broadcast, before or after a restart, is
\* signed by the peer, and the node has not given away its secret.
ForceCloseIsSafe ==
    \A p \in Sides : \A store \in {rc[p], disk[p]} :
        /\ store.ch.cur \in signed[Peer(p)]
        /\ \A n \in revealed[p] : n < store.ch.cur.n

\* The two nodes never hold different states under one number, and neither
\* is more than one state ahead, although each may propose at any time.
NodesAgree ==
    LET a == rc["a"].ch.cur
        b == rc["b"].ch.cur
    IN  /\ a.n - b.n \in -1 .. 1
        /\ a.n = b.n => a = b

\* NodesAgree as long as no request is handled after its sender gave up:
\* proposals of both sides, lost and repeated requests, rollbacks and crashes
\* never split the channel.
NodesAgreeInOrder == used.late = 0 => NodesAgree

\* rpc_server.hpp on the outbox: "Update this node proposed and has not
\* finished (persisted, resumed by rchan_tick)".  A node that has revoked a
\* state and not received the peer's revocation has an outbox in phase rev
\* which rchan_drive can resume.
UnfinishedIsResumed ==
    \A p \in Sides : AwaitingRemoteRevoke(rc[p].ch) =>
        rc[p].out_phase = "rev" /\ rc[p].out_state # None

\* UnfinishedIsResumed as long as nothing is handled late and nobody rolls
\* back: lost and repeated requests and crashes never orphan a revoked state.
DriveKeepsOutbox == used.late = 0 /\ used.rollbacks = 0 => UnfinishedIsResumed

Settled ==
    \A p \in Sides :
        /\ rc[p].out_phase = "none"
        /\ ~HasPending(rc[p].ch)
        /\ rc[p].ch.cur = rc["a"].ch.cur

\* Interrupted updates are resumed until they finish: once requests are no
\* longer lost and nobody proposes, both nodes reach the same state with no
\* outbox and nothing pending (rchan_tick, parts 1 and 2).
EventuallySettled == <>[]Settled
=============================================================================
