------------------------------- MODULE PmRelay -------------------------------
(***************************************************************************)
(* The relay of private messages (pm_relay.cpp): every node stores sealed  *)
(* envelopes until they expire and pushes them to its peers, as it does    *)
(* the deletions (PMDEL) that recipients make and the key packages of the  *)
(* directory.  All of it is kept in memory.                                *)
(*                                                                         *)
(* An envelope is its id and its size, a key package its owner and dates;  *)
(* sealing is left out, and only the recipient can make the token of a     *)
(* deletion.  Nodes share one clock, and a peer has one name.              *)
(***************************************************************************)
EXTENDS Integers, Sequences, SequencesExt, FiniteSets, FiniteSetsExt

CONSTANTS Relays, Peers,            \* per relay, the peers it pushes to
          Ids, Author, Home,        \* per message, the nodes of its sender and recipient
          Size, Ttl, kMaxMessages, kMaxStoreBytes,
          Packages, Owner, Created, Expires,    \* packages for one index of the directory
          MaxTime, MaxFaults

VARIABLES relay,        \* per node: the fields of PmRelay, and the push under way
          expire_at,    \* per message sent
          now, faults,
          got           \* who received which message from whom

pmVars == <<relay, expire_at, now, faults, got>>

None == "none"
NoPush == [to |-> None, lines |-> <<>>]
Empty == [envs |-> {}, tombstones |-> {}, delivered |-> {}, pkg |-> None, bytes |-> 0, push |-> NoPush]

PmInit ==
    /\ relay = [n \in Relays |-> Empty] /\ expire_at = [m \in {} |-> 0]
    /\ now = 0 /\ faults = 0 /\ got = {}

Bytes(ids) == MapThenSumSet(LAMBDA m : Size[m], ids)

---------------------------------------------------------------------------
\* Mutant: the bytes of expired messages are not given back.
purge_lockedKeepingBytes(r) ==
    [r EXCEPT !.envs = {m \in @ : expire_at[m] > now}, !.tombstones = {m \in @ : expire_at[m] > now}]

\* What was delivered is forgotten with the message; a delivered package always is.
purge_locked(r) ==
    LET old == {m \in r.envs : expire_at[m] <= now}
        tombs == {m \in r.tombstones : expire_at[m] > now}
    IN  [r EXCEPT !.pkg = IF @ # None /\ Expires[@] <= now THEN None ELSE @,
                  !.envs = @ \ old, !.bytes = @ - Bytes(old), !.tombstones = tombs,
                  !.delivered = {d \in @ : d[2] # "k" /\ d[3] \in (r.envs \ old) \union tombs}]

\* What a call did: whether it succeeded, and the relay after it.
Result(ok, r) == [ok |-> ok, r |-> r]

Full(r, m) == Cardinality(r.envs) >= kMaxMessages \/ r.bytes + Size[m] > kMaxStoreBytes

store_locked(r0, m) ==
    LET r == purge_locked(r0)
    IN  IF m \in r.envs \union r.tombstones THEN Result(TRUE, r)
        ELSE IF expire_at[m] <= now \/ Full(r, m) THEN Result(FALSE, r)
        ELSE Result(TRUE, [r EXCEPT !.envs = @ \union {m}, !.bytes = @ + Size[m]])

\* The sender is never sent its own message back.
accept_wire(r, peer, m) ==
    LET s == store_locked(r, m)
    IN  IF m \in r.envs \union r.tombstones THEN Result(TRUE, r)
        ELSE IF s.ok THEN Result(TRUE, [s.r EXCEPT !.delivered = @ \union {<<peer, "m", m>>}]) ELSE s

Erased(r, m) ==
    [r EXCEPT !.tombstones = @ \union {m}, !.envs = @ \ {m}, !.bytes = @ - Size[m]]

\* A deletion of an unknown message is answered and not kept.
accept_delete(r, peer, m) ==
    IF m \in r.tombstones \/ m \notin r.envs THEN Result(TRUE, r)
    ELSE Result(TRUE, [Erased(r, m) EXCEPT !.delivered = @ \union {<<peer, "d", m>>}])

\* Mutant: a newer package replaces whatever is listed.
put_package_lockedOfAnyone(r, p) ==
    IF Created[p] > now \/ Expires[p] <= now THEN Result(FALSE, r)
    ELSE IF r.pkg # None /\ Created[p] <= Created[r.pkg] THEN Result(TRUE, r)
    ELSE Result(TRUE, [r EXCEPT !.pkg = p])

put_package_locked(r, p) ==
    LET live == r.pkg # None /\ Expires[r.pkg] > now
    IN  IF Created[p] > now \/ Expires[p] <= now \/ (live /\ Owner[r.pkg] # Owner[p]) THEN Result(FALSE, r)
        ELSE IF live /\ Created[p] <= Created[r.pkg] THEN Result(TRUE, r)
        ELSE Result(TRUE, [r EXCEPT !.pkg = p])

accept_package(r, peer, p) ==
    LET s == put_package_locked(r, p)
    IN  IF s.ok THEN Result(TRUE, [s.r EXCEPT !.delivered = @ \union {<<peer, "k", p>>}]) ELSE s

Accepted(r, peer, line) ==
    CASE line[1] = "m" -> accept_wire(r, peer, line[2])
      [] line[1] = "d" -> accept_delete(r, peer, line[2])
      [] line[1] = "k" -> accept_package(r, peer, line[2])

\* Mutant: a line counts as delivered once it was sent.
mark_deliveredUnanswered(r, peer, line, answered) ==
    [r EXCEPT !.delivered = @ \union {<<peer, line[1], line[2]>>}]

mark_delivered(r, peer, line, answered) ==
    IF answered THEN [r EXCEPT !.delivered = @ \union {<<peer, line[1], line[2]>>}] ELSE r

\* Deletions first, then messages, then packages.
undelivered_for(r, peer) ==
    LET Lines(kind, ids) == SetToSeq({<<kind, i>> : i \in {j \in ids : <<peer, kind, j>> \notin r.delivered}})
    IN  Lines("d", r.tombstones) \o Lines("m", r.envs) \o Lines("k", {r.pkg} \ {None})

---------------------------------------------------------------------------
\* send_impl on the author's node
send(m) ==
    /\ m \notin DOMAIN expire_at
    /\ expire_at' = [i \in DOMAIN expire_at \union {m} |-> IF i = m THEN now + Ttl ELSE expire_at[i]]
    /\ LET r == purge_locked(relay[Author[m]])
       IN  relay' = [relay EXCEPT ![Author[m]] =
              IF Full(r, m) THEN r ELSE [r EXCEPT !.envs = @ \union {m}, !.bytes = @ + Size[m]]]
    /\ UNCHANGED <<now, faults, got>>

\* The recipient deletes a message it has read; the call does not purge.
remove(m) ==
    /\ m \in relay[Home[m]].envs
    /\ relay' = [relay EXCEPT ![Home[m]] = Erased(@, m)]
    /\ UNCHANGED <<expire_at, now, faults, got>>

publish_package(n, p) ==
    LET s == put_package_locked(relay[n], p)
    IN  /\ relay' = [relay EXCEPT ![n] = s.r] /\ UNCHANGED <<expire_at, now, faults, got>>

\* relay_private_messages takes the lines for one peer ...
BeginPush(n, p) ==
    LET r == purge_locked(relay[n])
    IN  /\ relay[n].push.lines = <<>>
        /\ relay' = [relay EXCEPT ![n] = [r EXCEPT !.push = [to |-> p, lines |-> undelivered_for(r, p)]]]
        /\ UNCHANGED <<expire_at, now, faults, got>>

\* ... and sends them one by one, though the store may change meanwhile; a peer's
\* rate limit ends the round.
PushLine(n, how) ==
    LET p == relay[n].push.to  line == Head(relay[n].push.lines)
        a == Accepted(relay[p], n, line)
        rest == IF how = "limited" THEN NoPush
                ELSE [relay[n].push EXCEPT !.lines = Tail(@)]
        fresh == line[1] = "m" /\ line[2] \in a.r.envs /\ line[2] \notin relay[p].envs
    IN  /\ relay[n].push.lines # <<>>
        /\ how # "answered" => faults < MaxFaults
        /\ faults' = IF how = "answered" THEN faults ELSE faults + 1
        /\ relay' = [relay EXCEPT
              ![n] = [mark_delivered(@, p, line, how = "answered" /\ a.ok) EXCEPT !.push = rest],
              ![p] = IF how \in {"answered", "unanswered"} THEN a.r ELSE @]
        /\ got' = IF fresh /\ how \in {"answered", "unanswered"} THEN got \union {<<p, n, line[2]>>} ELSE got
        /\ UNCHANGED <<expire_at, now>>

Tick ==
    /\ now < MaxTime /\ now' = now + 1 /\ UNCHANGED <<relay, expire_at, faults, got>>

PmNext ==
    \/ \E m \in Ids : send(m) \/ remove(m)
    \/ \E n \in Relays : \/ \E p \in Packages : publish_package(n, p)
                         \/ \E p \in Peers[n] : BeginPush(n, p)
                         \/ \E how \in {"answered", "lost", "unanswered", "limited"} : PushLine(n, how)
    \/ Tick

PmSpec == PmInit /\ [][PmNext]_pmVars

---------------------------------------------------------------------------
\* A deletion follows its message: where one of two nodes passed the message to the
\* other and one has deleted it while the other still holds it, the deletion is
\* still to be sent between them, whatever was lost, sent twice or overtaken.
DeletionIsChased ==
    \A g \in got : \A x \in {<<g[1], g[2]>>, <<g[2], g[1]>>} :
       g[3] \in relay[x[1]].tombstones /\ g[3] \in relay[x[2]].envs =>
          <<x[2], "d", g[3]>> \notin relay[x[1]].delivered

\* The byte count that bounds the store is what the stored messages take, through
\* deletions, expiry and duplicates.
StoreIsAccounted ==
    \A n \in Relays : /\ relay[n].bytes = Bytes(relay[n].envs) /\ relay[n].bytes <= kMaxStoreBytes
                       /\ Cardinality(relay[n].envs) <= kMaxMessages

\* "First identity to claim a live index keeps it": a listed package gives way to
\* another owner's only after it has expired.
IndexStep ==
    \A n \in Relays : LET old == relay[n].pkg  new == relay'[n].pkg
                      IN  old # None /\ new # None /\ Owner[old] # Owner[new] => Expires[old] <= now
==============================================================================
