----------------------------- MODULE Forwarding -----------------------------
(***************************************************************************)
(* Multi-hop payments over remote channels (rpc_rchannel.cpp): an HTLC     *)
(* that a peer adds is answered or forwarded by queued actions, and its    *)
(* settlement travels back over the links from outgoing to incoming HTLCs. *)
(*                                                                         *)
(* A channel state is its number and its HTLCs, which keep their place and *)
(* carry their fate (open, settled, failed), so that balances follow from  *)
(* them.  RemoteChannel has the update protocol message by message; here   *)
(* an UPD or REV exchange is one step: answered, or its request or answer  *)
(* lost.  Amounts, fees, expiries and onions are abstracted to the route   *)
(* and to a forward that may be refused for want of funds or time.         *)
(***************************************************************************)
EXTENDS Integers, Sequences, SequencesExt, FiniteSets

CONSTANTS Nodes, Chans,
          SideA, SideB,     \* per channel, its two nodes
          Payments, Route,  \* per payment, the channels from payer to payee
          Payer, Invoiced,  \* the payments whose payee has an invoice
          MaxFaults,        \* lost requests or answers
          MaxQueue          \* actions queued when a tick begins

VARIABLES ep,               \* per node and channel: RemoteChannel
          node,             \* per node: queue, links, payments
          faults

fwdVars == <<ep, node, faults>>

Ends(c) == {SideA[c], SideB[c]}
Other(n, c) == IF n = SideA[c] THEN SideB[c] ELSE SideA[c]
At == {x \in Nodes \X Chans : x[1] \in Ends(x[2])}

NoState == [n |-> -1, htlcs |-> <<>>]
Effect(kind, hid, pay) == [kind |-> kind, hid |-> hid, pay |-> pay]
NoEffect == Effect("none", 0, "none")
NoSource == [chan |-> "none", hid |-> 0]
\* A queued proposal; src is the incoming HTLC of a forward.
Action(kind, chan, hid, pay, src) == [kind |-> kind, chan |-> chan, hid |-> hid, pay |-> pay, src |-> src]
NoAction == Action("none", "none", 0, "none", NoSource)

Htlc(by, pay, src) == [by |-> by, pay |-> pay, fate |-> "open", src |-> src]

NextHop(n, c, pay) ==
    LET i == CHOOSE j \in DOMAIN Route[pay] : Route[pay][j] = c
    IN  IF i = Len(Route[pay]) THEN "final" ELSE Route[pay][i + 1]

---------------------------------------------------------------------------
Push(m, a) == [m EXCEPT !.queue = Append(@, a)]

ClearOut(e) == [e EXCEPT !.phase = "none", !.out = NoState, !.kind = NoEffect, !.action = NoAction]

\* rchan_abandon_out: the action goes back to the queue, an own payment fails.
Abandoned(e, m) ==
    IF e.phase # "upd" THEN [e |-> e, m |-> m]
    ELSE [e |-> ClearOut(e),
          m |-> IF e.action # NoAction THEN Push(m, e.action)
                ELSE IF e.kind.kind = "ADD" THEN [m EXCEPT !.payments[e.kind.pay] = "failed"] ELSE m]

\* rchan_apply_effect on node n, once the peer's update on c is revoked in.
AppliedAdd(n, c, m, f) ==
    LET hop == NextHop(n, c, f.pay)
        replayed == <<f.pay, n>> \in m.seen
        Fail == Action("FAIL", c, f.hid, f.pay, NoSource)
        onion == [m EXCEPT !.seen = @ \union (IF Len(Route[f.pay]) > 1 THEN {<<f.pay, n>>} ELSE {})]
    IN  CASE replayed -> Push(m, Fail)
          [] ~replayed /\ hop = "final" ->
                Push(onion, IF f.pay \in Invoiced THEN Action("SETTLE", c, f.hid, f.pay, NoSource) ELSE Fail)
          [] ~replayed /\ hop # "final" ->
                Push(onion, Action("FWD", hop, 0, f.pay, [chan |-> c, hid |-> f.hid]))

\* Mutant: links are looked up by the number of the HTLC alone.
AppliedRemovalById(n, c, m, f) ==
    LET here == {l \in m.links : l.hid = f.hid}
        to == (CHOOSE l \in here : TRUE).src
    IN  IF here # {}
        THEN Push([m EXCEPT !.links = @ \ here], Action(f.kind, to.chan, to.hid, f.pay, NoSource))
        ELSE [m EXCEPT !.payments[f.pay] =
                 IF @ = "none" THEN @ ELSE IF f.kind = "SETTLE" THEN "settled" ELSE "failed"]

AppliedRemoval(n, c, m, f) ==
    LET here == {l \in m.links : l.chan = c /\ l.hid = f.hid}
        to == (CHOOSE l \in here : TRUE).src
    IN  IF here # {}
        THEN Push([m EXCEPT !.links = @ \ here], Action(f.kind, to.chan, to.hid, f.pay, NoSource))
        ELSE [m EXCEPT !.payments[f.pay] =
                 IF @ = "none" THEN @ ELSE IF f.kind = "SETTLE" THEN "settled" ELSE "failed"]

Applied(n, c, m, f) ==
    IF f = NoEffect THEN m
    ELSE IF f.kind = "ADD" THEN AppliedAdd(n, c, m, f) ELSE AppliedRemoval(n, c, m, f)

---------------------------------------------------------------------------
\* handle_channel_message, UPD: the answer, the endpoint and the node after it.
HandleUpd(n, c, x, f) ==
    LET e0 == ep[<<n, c>>]  m0 == node[n]
        isA == n = SideA[c]
        Answer(ok, why, e, m) == [ok |-> ok, why |-> why, e |-> e, m |-> m]
        e1 == [e0 EXCEPT !.pending = NoState, !.effect = NoEffect]
        ab == Abandoned(e1, m0)
    IN  CASE e0.busy -> Answer(FALSE, "busy", e0, m0)
          [] ~e0.busy /\ e0.pending = x -> Answer(TRUE, "again", e0, m0)
          [] ~e0.busy /\ e0.pending # x /\ isA /\ (e0.pending # NoState \/ e0.phase = "upd") ->
                Answer(FALSE, "conflict", e0, m0)
          [] ~e0.busy /\ e0.pending # x /\ ~(isA /\ (e0.pending # NoState \/ e0.phase = "upd")) ->
                IF e0.phase = "rev" THEN Answer(FALSE, "revoking", e1, m0)
                ELSE IF x.n # e0.cur.n + 1 \/ e0.awaiting THEN Answer(FALSE, "number", ab.e, ab.m)
                ELSE Answer(TRUE, "new", [ab.e EXCEPT !.pending = x, !.effect = f], ab.m)

\* REV: the pending state becomes current and its effect is applied; a REV that
\* comes again is answered again.
HandleRev(n, c, e0, m0, revoked) ==
    LET Answer(ok, why, e, m) == [ok |-> ok, why |-> why, e |-> e, m |-> m]
    IN  CASE e0.busy -> Answer(FALSE, "busy", e0, m0)
          [] ~e0.busy /\ e0.pending = NoState ->
                IF revoked + 1 = e0.cur.n THEN Answer(TRUE, "again", e0, m0)
                ELSE Answer(FALSE, "no pending", e0, m0)
          [] ~e0.busy /\ e0.pending # NoState ->
                Answer(TRUE, "new", [e0 EXCEPT !.cur = e0.pending, !.pending = NoState, !.effect = NoEffect],
                       Applied(n, c, m0, e0.effect))

---------------------------------------------------------------------------
Fresh == [cur |-> [n |-> 0, htlcs |-> <<>>], pending |-> NoState, effect |-> NoEffect, phase |-> "none",
          out |-> NoState, kind |-> NoEffect, action |-> NoAction, awaiting |-> FALSE, busy |-> FALSE]

NewNode ==
    [queue |-> <<>>, ticking |-> FALSE, running |-> <<>>, driving |-> "none", links |-> {},
     payments |-> [p \in Payments |-> "none"], seen |-> {}]

FwdInit ==
    /\ ep = [x \in At |-> Fresh] /\ node = [n \in Nodes |-> NewNode]
    /\ faults = 0

\* rchan_propose up to the drive: the outbox is on disk.
Proposed(e, x, f, a) ==
    [e EXCEPT !.phase = "upd", !.out = x, !.kind = f, !.action = a, !.busy = TRUE]

CanPropose(e) == e.phase = "none" /\ e.pending = NoState /\ ~e.awaiting /\ ~e.busy

\* rchan_htlc_pay, once per payment.  While another update of the channel is in flight
\* rchan_propose does nothing, and the payment stays pending; while one of the peer's
\* is pending, it fails.
HtlcPay(pay) ==
    LET n == Payer[pay]  c == Route[pay][1]  e == ep[<<n, c>>]
        x == [n |-> e.cur.n + 1, htlcs |-> Append(e.cur.htlcs, Htlc(n, pay, NoSource))]
        refused == e.phase = "none" /\ ~CanPropose(e)
    IN  /\ node[n].payments[pay] = "none"
        /\ node' = [node EXCEPT ![n].payments[pay] = IF refused THEN "failed" ELSE "pending"]
        /\ ep' = IF CanPropose(e)
                 THEN [ep EXCEPT ![<<n, c>>] = Proposed(e, x, Effect("ADD", Len(x.htlcs), pay), NoAction)]
                 ELSE ep
        /\ UNCHANGED faults

\* rchan_tick takes the queue into a local variable and goes through it.
BeginTick(n) ==
    /\ ~node[n].ticking /\ Len(node[n].queue) \in 1..MaxQueue
    /\ node' = [node EXCEPT ![n] = [@ EXCEPT !.ticking = TRUE, !.running = node[n].queue, !.queue = <<>>]]
    /\ UNCHANGED <<ep, faults>>

\* rchan_run_action for a settlement: nothing is done for an HTLC that is gone.
Removal(n, a) ==
    LET e == ep[<<n, a.chan>>]
        there == a.hid \in DOMAIN e.cur.htlcs
        h == e.cur.htlcs[a.hid]
        fate == IF a.kind = "SETTLE" THEN "settled" ELSE "failed"
    IN  IF there /\ h.fate = "open" /\ h.by # n
        THEN [e |-> Proposed(e, [n |-> e.cur.n + 1, htlcs |-> [e.cur.htlcs EXCEPT ![a.hid].fate = fate]],
                             Effect(a.kind, a.hid, a.pay), a),
              driving |-> a.chan]
        ELSE [e |-> e, driving |-> "none"]

RunAction(n, funded) ==
    LET m == [node[n] EXCEPT !.running = Tail(@)]
        a == Head(node[n].running)
        e == ep[<<n, a.chan>>]
        hid == Len(e.cur.htlcs) + 1
        x == [n |-> e.cur.n + 1, htlcs |-> Append(e.cur.htlcs, Htlc(n, a.pay, a.src))]
    IN  /\ node[n].ticking /\ node[n].driving = "none" /\ node[n].running # <<>>
        /\ \/ /\ ~CanPropose(e)
              /\ node' = [node EXCEPT ![n] = Push(m, a)] /\ UNCHANGED ep
           \/ /\ CanPropose(e) /\ a.kind = "FWD" /\ ~funded
              /\ node' = [node EXCEPT ![n] = Push(m, Action("FAIL", a.src.chan, a.src.hid, a.pay, NoSource))]
              /\ UNCHANGED ep
           \/ /\ CanPropose(e) /\ a.kind = "FWD" /\ funded
              /\ node' = [node EXCEPT ![n] = [m EXCEPT !.driving = a.chan,
                             !.links = {l \in @ : <<l.chan, l.hid>> # <<a.chan, hid>>} \union
                                       {[chan |-> a.chan, hid |-> hid, src |-> a.src]}]]
              /\ ep' = [ep EXCEPT ![<<n, a.chan>>] = Proposed(e, x, Effect("ADD", hid, a.pay), a)]
           \/ /\ CanPropose(e) /\ a.kind # "FWD"
              /\ node' = [node EXCEPT ![n] = [m EXCEPT !.driving = Removal(n, a).driving]]
              /\ ep' = [ep EXCEPT ![<<n, a.chan>>] = Removal(n, a).e]
        /\ a.kind # "FWD" => funded
        /\ UNCHANGED faults

EndTick(n) ==
    /\ node[n].ticking /\ node[n].driving = "none" /\ node[n].running = <<>>
    /\ node' = [node EXCEPT ![n].ticking = FALSE]
    /\ UNCHANGED <<ep, faults>>

\* rchan_tick and rchan_recover retry: an unfinished update is driven again.
Resume(n, c) ==
    LET e == ep[<<n, c>>]
    IN  /\ e.phase # "none" /\ ~e.busy
        /\ ep' = [ep EXCEPT ![<<n, c>>].busy = TRUE]
        /\ UNCHANGED <<node, faults>>

---------------------------------------------------------------------------
\* A drive ends: the channel is free, and the tick that waited for it goes on.
Freed(e) == [e EXCEPT !.busy = FALSE]
Returned(m, c) == [m EXCEPT !.driving = IF @ = c THEN "none" ELSE @]

\* Mutant: rchan_htlc_pay reports a failure whenever the drive is not finished.
ReportedAlways(c, e0, e, m) ==
    IF e0.kind.kind = "ADD" /\ e0.action = NoAction
    THEN [m EXCEPT !.payments[e0.kind.pay] = "failed"] ELSE m

\* Mutant: a forward that did not go out is queued again here as well.
ReportedRetrying(c, e0, e, m) ==
    CASE e.phase = "none" /\ e0.kind.kind = "ADD" /\ e0.action = NoAction ->
            [m EXCEPT !.payments[e0.kind.pay] = "failed"]
      [] e.phase = "none" /\ e0.action.kind = "FWD" /\ m.driving = c -> Push(m, e0.action)
      [] OTHER -> m

\* rchan_htlc_pay and rchan_run_action, after a drive that did not finish: with the
\* outbox empty, an own payment has failed, and a forward is failed back.
Reported(c, e0, e, m) ==
    LET src == e0.action.src
    IN  CASE e.phase = "none" /\ e0.kind.kind = "ADD" /\ e0.action = NoAction ->
                [m EXCEPT !.payments[e0.kind.pay] = "failed"]
          [] e.phase = "none" /\ e0.action.kind = "FWD" /\ m.driving = c ->
                Push([m EXCEPT !.links = {l \in @ : <<l.chan, l.hid>> # <<c, e0.kind.hid>>}],
                     Action("FAIL", src.chan, src.hid, e0.kind.pay, NoSource))
          [] OTHER -> m

Outcome(how) ==
    /\ how # "answered" => faults < MaxFaults
    /\ faults' = IF how = "answered" THEN faults ELSE faults + 1

\* Node n and its peer on c move together.
Both(n, c, e, m, e2, m2) ==
    LET p == Other(n, c)
    IN  /\ ep' = [ep EXCEPT ![<<n, c>>] = e, ![<<p, c>>] = e2]
        /\ node' = [node EXCEPT ![n] = m, ![p] = m2]

\* rchan_drive before it asks: the peer's update has won, or is a stale one.
DriveOvertaken(n, c) ==
    LET e == ep[<<n, c>>]
        ab == Abandoned(e, node[n])
        lost == e.out.n # e.cur.n + 1 \/ (e.pending # NoState /\ n # SideA[c])
    IN  /\ e.busy /\ e.phase = "upd" /\ (lost \/ e.pending # NoState)
        /\ IF lost
           THEN /\ ep' = [ep EXCEPT ![<<n, c>>] = Freed(ab.e)]
                /\ node' = [node EXCEPT ![n] = Returned(ab.m, c)]
           ELSE /\ ep' = [ep EXCEPT ![<<n, c>>] = [e EXCEPT !.pending = NoState, !.effect = NoEffect]]
                /\ UNCHANGED node
        /\ UNCHANGED faults

\* UPD: signed by the peer, the proposed state becomes current and the old one is
\* revoked; refused or unanswered, it is tried again later.
DriveUpd(n, c, how) ==
    LET e == ep[<<n, c>>]  p == Other(n, c)
        r == HandleUpd(p, c, e.out, e.kind)
        e2 == IF how = "lost" THEN ep[<<p, c>>] ELSE r.e
        m2 == IF how = "lost" THEN node[p] ELSE r.m
        ab == Abandoned(e, node[n])
    IN  /\ e.busy /\ e.phase = "upd" /\ e.pending = NoState /\ e.out.n = e.cur.n + 1
        /\ Outcome(how)
        /\ CASE how = "answered" /\ r.ok ->
                  Both(n, c, [e EXCEPT !.cur = e.out, !.awaiting = TRUE, !.phase = "rev"], node[n], e2, m2)
             [] how = "answered" /\ ~r.ok /\ r.why = "conflict" ->
                  Both(n, c, Freed(ab.e), Returned(Reported(c, e, ab.e, ab.m), c), e2, m2)
             [] how # "answered" \/ (~r.ok /\ r.why # "conflict") ->
                  Both(n, c, Freed(e), Returned(Reported(c, e, e, node[n]), c), e2, m2)

\* REV, after another UPD when the peer has dropped the first.
DriveRev(n, c, how) ==
    LET e == ep[<<n, c>>]  p == Other(n, c)
        first == HandleRev(p, c, ep[<<p, c>>], node[p], e.cur.n - 1)
        upd == HandleUpd(p, c, e.cur, e.kind)
        r == IF first.why # "no pending" THEN first
             ELSE IF ~upd.ok THEN upd ELSE HandleRev(p, c, upd.e, upd.m, e.cur.n - 1)
        e2 == IF how = "lost" THEN ep[<<p, c>>] ELSE r.e
        m2 == IF how = "lost" THEN node[p] ELSE r.m
    IN  /\ e.busy /\ e.phase = "rev"
        /\ Outcome(how)
        /\ IF how = "answered" /\ r.ok
           THEN Both(n, c, Freed(ClearOut([e EXCEPT !.awaiting = FALSE])), Returned(node[n], c), e2, m2)
           ELSE Both(n, c, Freed(e), Returned(node[n], c), e2, m2)

\* rchan_tick, step 2: a pending state whose proposer gave it up is dropped.
SyncDrop(n, c) ==
    LET e == ep[<<n, c>>]  other == ep[<<Other(n, c), c>>]
    IN  /\ e.pending # NoState /\ e.phase = "none"
        /\ ~other.busy /\ other.phase = "none" /\ other.cur.n = e.cur.n
        /\ ep' = [ep EXCEPT ![<<n, c>>] = [e EXCEPT !.pending = NoState, !.effect = NoEffect]]
        /\ UNCHANGED <<node, faults>>

Drive(n, c) ==
    \/ DriveOvertaken(n, c)
    \/ \E how \in {"answered", "lost", "unanswered"} : DriveUpd(n, c, how) \/ DriveRev(n, c, how)

FwdNext ==
    \/ \E pay \in Payments : HtlcPay(pay)
    \/ \E n \in Nodes : BeginTick(n) \/ EndTick(n) \/ \E funded \in BOOLEAN : RunAction(n, funded)
    \/ \E x \in At : Resume(x[1], x[2]) \/ Drive(x[1], x[2]) \/ SyncDrop(x[1], x[2])

FwdSpec == FwdInit /\ [][FwdNext]_fwdVars

---------------------------------------------------------------------------
\* What node n still means to propose.
Todo(n) ==
    ToSet(node[n].queue) \union ToSet(node[n].running) \union {ep[x].action : x \in {y \in At : y[1] = n}}

Fate(n, src) == ep[<<n, src.chan>>].cur.htlcs[src.hid].fate
Claims(n, src, kind) == \E a \in Todo(n) : a.kind = kind /\ a.chan = src.chan /\ a.hid = src.hid

\* The HTLCs that node n offered on c to forward another.
Forwards(n, c) == {i \in DOMAIN ep[<<n, c>>].cur.htlcs :
                      LET h == ep[<<n, c>>].cur.htlcs[i] IN h.by = n /\ h.src # NoSource}

\* A forwarder that has paid downstream is paid upstream, or still means to claim:
\* the bookkeeping of forwarded HTLCs ("out_chan:htlc" -> "in_chan:htlc") follows
\* every settlement back, whatever updates crossed on the way.
ClaimIsKept ==
    \A x \in At : \A i \in Forwards(x[1], x[2]) :
       LET h == ep[x].cur.htlcs[i]
       IN  (h.fate = "settled" /\ ep[x].effect = NoEffect) =>
              Fate(x[1], h.src) = "settled" \/ Claims(x[1], h.src, "SETTLE")

\* The link leads every settlement back to its own HTLC: what is settled downstream
\* is claimed upstream, unless the forwarder itself failed the upstream HTLC.
SettlementTravelsBack ==
    \A x \in At : \A i \in Forwards(x[1], x[2]) :
       LET h == ep[x].cur.htlcs[i]
       IN  (h.fate = "settled" /\ ep[x].effect = NoEffect) =>
              \/ Fate(x[1], h.src) \in {"settled", "failed"}
              \/ Claims(x[1], h.src, "SETTLE") \/ Claims(x[1], h.src, "FAIL")

\* One incoming HTLC is forwarded by at most one that is not failed.
ForwardedOnce ==
    \A x, y \in At : \A i \in Forwards(x[1], x[2]), j \in Forwards(y[1], y[2]) :
       LET h == ep[x].cur.htlcs[i]  g == ep[y].cur.htlcs[j]
       IN  (x[1] = y[1] /\ h.src = g.src /\ h.fate # "failed" /\ g.fate # "failed") => <<x, i>> = <<y, j>>

\* What the payer's node reports is what happened: a payment reported failed has no
\* HTLC that can still pay, one reported settled has paid.
StatusIsTrue ==
    \A pay \in Payments :
       LET mine == ep[<<Payer[pay], Route[pay][1]>>]
           Fates == {mine.cur.htlcs[i].fate : i \in {j \in DOMAIN mine.cur.htlcs : mine.cur.htlcs[j].pay = pay}}
       IN  CASE node[Payer[pay]].payments[pay] = "settled" -> "settled" \in Fates
             [] node[Payer[pay]].payments[pay] = "failed" -> Fates \subseteq {"failed"}
             [] OTHER -> TRUE
=============================================================================
