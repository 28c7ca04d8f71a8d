---------------------------- MODULE PouwStorage -----------------------------
(***************************************************************************)
(* PoUWStorageEngine (pouw_storage.cpp) and the pouw_storage_* commands:   *)
(* deals, one commitment per worker and deal, challenges, and proofs that  *)
(* a challenge accepts once.  The ids hash the number of deals or          *)
(* challenges so far: here they are that number.  random_seed only matters *)
(* by its parity, which the hash decides, and a proof by whether it is     *)
(* canonical and by the parity of its first nibble.                        *)
(***************************************************************************)
EXTENDS SideEngine

CONSTANTS
    Workers,
    ChunkCounts,   \* chunk_count arguments, 0 included
    Heights        \* heights the commands name

Proofs == {"even", "odd", "malformed"}

Deal(chunks, start, end) ==
    [chunk_count |-> chunks, start_height |-> start, end_height |-> end, status |-> "active"]

create_deal(e, chunks, start, end) ==
    IF chunks = 0 \/ end <= start THEN Refuse(e)
    ELSE Accept([e EXCEPT !.deals = Append(@, Deal(chunks, start, end)),
                          !.commitments = Append(@, <<>>)])

Committed(e, deal) == {e.commitments[deal][i].worker_addr : i \in DOMAIN e.commitments[deal]}

\* Mutant: a worker may commit to a deal again.
register_commitmentAgain(e, deal, worker, collateral) ==
    IF deal \notin DOMAIN e.deals \/ collateral = 0 THEN Refuse(e)
    ELSE Accept([e EXCEPT !.commitments[deal] =
           Append(@, [worker_addr |-> worker, collateral |-> collateral,
                      proofs_pass |-> 0, proofs_fail |-> 0])])

register_commitment(e, deal, worker, collateral) ==
    IF \/ deal \notin DOMAIN e.deals \/ collateral = 0
       \/ worker \in Committed(e, deal)
    THEN Refuse(e)
    ELSE Accept([e EXCEPT !.commitments[deal] =
           Append(@, [worker_addr |-> worker, collateral |-> collateral,
                      proofs_pass |-> 0, proofs_fail |-> 0])])

\* parity: of the random seed the hash gives this challenge.
issue_challenge(e, deal, worker, height, parity) ==
    IF deal \notin DOMAIN e.deals \/ (deal \in DOMAIN e.deals /\ worker \notin Committed(e, deal))
    THEN Refuse(e)
    ELSE Accept([e EXCEPT !.challenges =
           Append(@, [deal |-> deal, worker_addr |-> worker, random_seed |-> parity,
                      due_height |-> height + 64, verdict |-> "pending"])])

\* The deterministic rule: canonical hex whose first nibble has the seed's parity.
Verdict(ch, proof) == IF proof = ch.random_seed THEN "pass" ELSE "fail"

\* The first commitment of the worker counts the verdict.
Counted(vec, worker, verdict) ==
    [i \in DOMAIN vec |->
        IF vec[i].worker_addr = worker /\ \A j \in 1..(i - 1) : vec[j].worker_addr # worker
        THEN IF verdict = "pass" THEN [vec[i] EXCEPT !.proofs_pass = @ + 1]
                                 ELSE [vec[i] EXCEPT !.proofs_fail = @ + 1]
        ELSE vec[i]]

\* Mutant: a challenge takes a second proof.
submit_proofTwice(e, id, worker, proof) ==
    LET ch == e.challenges[id]
        verdict == Verdict(ch, proof)
    IN  IF id \notin DOMAIN e.challenges \/ ch.worker_addr # worker THEN Refuse(e)
        ELSE Accept([e EXCEPT !.challenges[id].verdict = verdict,
                              !.commitments[ch.deal] = Counted(@, worker, verdict)])

\* A proof is taken whenever the challenge is pending: due_height is not looked at.
submit_proof(e, id, worker, proof) ==
    LET ch == e.challenges[id]
        verdict == Verdict(ch, proof)
    IN  IF \/ id \notin DOMAIN e.challenges
           \/ ch.worker_addr # worker \/ ch.verdict # "pending"
        THEN Refuse(e)
        ELSE Accept([e EXCEPT !.challenges[id].verdict = verdict,
                              !.commitments[ch.deal] = Counted(@, worker, verdict)])

---------------------------------------------------------------------------
(* The counts the two status commands report.                              *)

Challenged(e, deal, verdict) ==
    Cardinality({i \in DOMAIN e.challenges :
                   e.challenges[i].deal = deal /\ e.challenges[i].verdict = verdict})

deal_status(e, deal) ==
    [commitments |-> Len(e.commitments[deal]),
     pending |-> Challenged(e, deal, "pending"),
     pass |-> Challenged(e, deal, "pass"),
     fail |-> Challenged(e, deal, "fail")]

OfWorker(e, worker) ==
    {<<d, i>> \in (DOMAIN e.deals) \X (1..(Len(e.deals) * Cardinality(Workers))) :
       i \in DOMAIN e.commitments[d] /\ e.commitments[d][i].worker_addr = worker}

worker_status(e, worker) ==
    LET own == OfWorker(e, worker)
        Total(f) == FoldSet(LAMBDA c, sum : sum + e.commitments[c[1]][c[2]][f], 0, own)
    IN  [deals |-> Cardinality(own), proofs_pass |-> Total("proofs_pass"),
         proofs_fail |-> Total("proofs_fail")]

---------------------------------------------------------------------------
(* The file: lines D, C and H, the commitments of a deal in their order.   *)

dump_state(e) ==
    [D |-> e.deals, C |-> e.commitments, H |-> e.challenges]

load_state(file) ==
    [deals |-> file.D, commitments |-> file.C, challenges |-> file.H]

---------------------------------------------------------------------------
StorageCreateDeal(chunks, start, end) == Command(create_deal(engine, chunks, start, end), history)

StorageCommit(deal, worker, collateral) ==
    Command(register_commitment(engine, deal, worker, collateral), history)

StorageChallenge(deal, worker, height, parity) ==
    Command(issue_challenge(engine, deal, worker, height, parity), history)

StorageSubmitProof(id, worker, proof) == Command(submit_proof(engine, id, worker, proof), history)

StorageInit ==
    LET none == [deals |-> <<>>, commitments |-> <<>>, challenges |-> <<>>]
    IN  SideInit(none, dump_state(none), <<>>)

StorageNext ==
    \/ \E n \in ChunkCounts, s, t \in Heights : StorageCreateDeal(n, s, t)
    \/ \E d \in 1..(Len(engine.deals) + 1), w \in Workers :
          \/ \E c \in {0, 1} : StorageCommit(d, w, c)
          \/ \E h \in Heights, p \in {"even", "odd"} : StorageChallenge(d, w, h, p)
    \/ \E i \in 1..(Len(engine.challenges) + 1), w \in Workers, p \in Proofs :
          StorageSubmitProof(i, w, p)
    \/ Persist(dump_state(engine))
    \/ Restart(load_state(saved.file))

StorageSpec == StorageInit /\ [][StorageNext]_sideVars

---------------------------------------------------------------------------
\* A worker has at most one commitment per deal, and only committed workers are
\* challenged: the loops that stop at a worker's first commitment miss nothing.
OneCommitmentPerWorker ==
    /\ \A d \in DOMAIN engine.deals :
          Cardinality(Committed(engine, d)) = Len(engine.commitments[d])
    /\ \A i \in DOMAIN engine.challenges :
          engine.challenges[i].worker_addr \in Committed(engine, engine.challenges[i].deal)

\* The two reports agree: the proofs that worker_status counts for the workers
\* are the verdicts that deal_status counts for the deals, each challenge once,
\* through restarts and deaths between answer and write.
ReportsAgree ==
    LET Sum(S, F(_)) == FoldSet(LAMBDA x, sum : sum + F(x), 0, S)
        deals == DOMAIN engine.deals
    IN  /\ Sum(Workers, LAMBDA w : worker_status(engine, w).proofs_pass)
             = Sum(deals, LAMBDA d : deal_status(engine, d).pass)
        /\ Sum(Workers, LAMBDA w : worker_status(engine, w).proofs_fail)
             = Sum(deals, LAMBDA d : deal_status(engine, d).fail)

=============================================================================
