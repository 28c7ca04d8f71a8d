-------------------------- MODULE PrivateMessaging --------------------------
(***************************************************************************)
(* PrivateMessagingEngine (private_messaging.cpp) and the pm_* commands:   *)
(* envelopes with a time to live, and records of the destroyed ones.  The  *)
(* id of a message hashes its sender, recipient, reference, anchor, second *)
(* of creation and the number of envelopes at that moment: here it is the  *)
(* tuple of those that vary.  engine.now is the system clock.              *)
(***************************************************************************)
EXTENDS SideEngine, TLC

CONSTANTS
    People,
    Ttls,        \* ttl_sec arguments, 0 and one beyond MaxTtl included
    MaxTtl,      \* 31536000: a year
    MaxTime      \* bound: the clock of a behaviour

None == [id \in {} |-> 0]

Envelope(sender, recipient, now, ttl) ==
    [sender |-> sender, recipient |-> recipient, expire_at |-> now + ttl]

send_ttl(e, sender, recipient, ttl) ==
    LET id == <<sender, recipient, e.now, Cardinality(DOMAIN e.envelopes)>>
    IN  IF ttl = 0 \/ ttl > MaxTtl THEN Refuse(e)
        ELSE Accept([e EXCEPT !.envelopes = (id :> Envelope(sender, recipient, e.now, ttl)) @@ @])

Without(f, S) == [x \in DOMAIN f \ S |-> f[x]]

Expired(e) == {id \in DOMAIN e.envelopes : e.envelopes[id].expire_at <= e.now}

purge_expired(e) ==
    [e EXCEPT !.destroyed = [id \in Expired(e) |-> [at |-> e.now, reason |-> "ttl_expired"]] @@ @,
              !.envelopes = Without(@, Expired(e))]

\* fetch purges first, whether or not it then finds the message.
fetch(e, id, requester) ==
    LET f == purge_expired(e)
    IN  IF \/ id \notin DOMAIN f.envelopes
           \/ (id \in DOMAIN f.envelopes
                 /\ requester \notin {f.envelopes[id].sender, f.envelopes[id].recipient})
        THEN Refuse(f)
        ELSE Read(f)

\* inbox and status purge, then read.
inbox(e) == Read(purge_expired(e))

\* Mutant: the record of a destroyed message is not kept.
destroyUnrecorded(e, id, requester) ==
    IF \/ id \notin DOMAIN e.envelopes
       \/ (id \in DOMAIN e.envelopes
             /\ requester \notin {e.envelopes[id].sender, e.envelopes[id].recipient})
    THEN Refuse(e)
    ELSE Accept([e EXCEPT !.envelopes = Without(@, {id})])

\* destroy does not purge: an expired message can still be destroyed by hand.
destroy(e, id, requester) ==
    IF \/ id \notin DOMAIN e.envelopes
       \/ (id \in DOMAIN e.envelopes
             /\ requester \notin {e.envelopes[id].sender, e.envelopes[id].recipient})
    THEN Refuse(e)
    ELSE Accept([e EXCEPT !.destroyed = (id :> [at |-> e.now, reason |-> "manual"]) @@ @,
                          !.envelopes = Without(@, {id})])

---------------------------------------------------------------------------
dump_state(e) ==
    [M |-> {<<id, e.envelopes[id]>> : id \in DOMAIN e.envelopes},
     D |-> {<<id, e.destroyed[id]>> : id \in DOMAIN e.destroyed}]

Entries(lines) == [id \in {l[1] : l \in lines} |-> (CHOOSE l \in lines : l[1] = id)[2]]

\* The messages that expired while the node was down are purged at once.
load_state(file, now) ==
    purge_expired([envelopes |-> Entries(file.M), destroyed |-> Entries(file.D), now |-> now])

---------------------------------------------------------------------------
(* The commands.  history is the set of messages ever accepted and still   *)
(* on record.  The clock advances between commands and while the node is   *)
(* down.                                                                   *)

Ids(e) == DOMAIN e.envelopes \union DOMAIN e.destroyed

Known(result) == history \union Ids(result.engine)

PmSendTtl(sender, recipient, ttl) ==
    LET r == send_ttl(engine, sender, recipient, ttl) IN Command(r, Known(r))

PmInbox == Command(inbox(engine), history)

PmFetch(id, requester) == Command(fetch(engine, id, requester), history)

PmDestroy(id, requester) == Command(destroy(engine, id, requester), history)

PmPurge == Command(Accept(purge_expired(engine)), history)

Tick ==
    /\ engine.now < MaxTime
    /\ engine' = [engine EXCEPT !.now = @ + 1]
    /\ UNCHANGED <<saved, history, answer, unsaved, given>>

MessagingInit ==
    LET none == [envelopes |-> None, destroyed |-> None, now |-> 1]
    IN  SideInit(none, dump_state(none), {})

MessagingNext ==
    \/ \E s, r \in People, t \in Ttls : PmSendTtl(s, r, t)
    \/ PmInbox
    \/ \E id \in Ids(engine), p \in People : PmFetch(id, p) \/ PmDestroy(id, p)
    \/ PmPurge
    \/ Tick
    \/ Persist(dump_state(engine))
    \/ Restart(load_state(saved.file, engine.now))

MessagingSpec == MessagingInit /\ [][MessagingNext]_sideVars

---------------------------------------------------------------------------
\* A message that was accepted and written never vanishes without a record: it
\* is active or it is listed as destroyed, with its reason.
AcceptedIsAccountedFor == history \subseteq Ids(engine)

=============================================================================
