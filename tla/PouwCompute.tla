---------------------------- MODULE PouwCompute -----------------------------
(***************************************************************************)
(* PoUWComputeEngine (pouw_compute.cpp) and the pouw_compute_* commands: a *)
(* job is assigned to one worker, who submits results; validators vote.    *)
(* Results and votes are accepted at any time and may be repeated, so the  *)
(* status moves both ways.  The id of a job hashes the number of jobs so   *)
(* far: here it is that number.                                            *)
(***************************************************************************)
EXTENDS SideEngine, TLC

CONSTANTS
    Workers, Validators,
    Budgets          \* reward_budget arguments, 0 included

Nobody == "nobody"

Job == [status |-> "open", assigned_worker |-> Nobody, result_hash |-> 0]

submit_job(e, latency, budget) ==
    IF latency = 0 \/ budget = 0 THEN Refuse(e)
    ELSE Accept([e EXCEPT !.jobs = Append(@, Job)])

\* Mutant: a job that is no longer open is assigned again.
assign_jobAgain(e, id, worker, collateral) ==
    IF id \notin DOMAIN e.jobs \/ collateral = 0 THEN Refuse(e)
    ELSE Accept([e EXCEPT !.assignments = (id :> worker) @@ @,
                          !.jobs[id].assigned_worker = worker,
                          !.jobs[id].status = "assigned"])

assign_job(e, id, worker, collateral) ==
    IF id \notin DOMAIN e.jobs \/ collateral = 0 \/ e.jobs[id].status # "open" THEN Refuse(e)
    ELSE Accept([e EXCEPT !.assignments = (id :> worker) @@ @,
                          !.jobs[id].assigned_worker = worker,
                          !.jobs[id].status = "assigned"])

submit_result(e, id, worker, hash) ==
    IF id \notin DOMAIN e.jobs \/ id \notin DOMAIN e.assignments
       \/ (id \in DOMAIN e.assignments /\ e.assignments[id] # worker)
    THEN Refuse(e)
    ELSE Accept([e EXCEPT !.results = (id :> [worker_addr |-> worker, hash |-> hash]) @@ @,
                          !.jobs[id].result_hash = hash,
                          !.jobs[id].status = "result_submitted"])

Votes(votes, verdict) == Cardinality({v \in DOMAIN votes : votes[v] = verdict})

\* Two votes decide; on a tie a job is rejected, and one that had been decided
\* keeps its status when a changed vote leaves neither side with two.
Decided(votes, status) ==
    LET pass == Votes(votes, "pass")
        fail == Votes(votes, "fail")
    IN  CASE pass >= 2 /\ pass > fail -> "validated"
          [] fail >= 2 /\ fail >= pass -> "rejected"
          [] OTHER -> status

submit_validation(e, id, validator, verdict) ==
    LET votes == (validator :> verdict) @@
                   (IF id \in DOMAIN e.validations THEN e.validations[id] ELSE [v \in {} |-> ""])
    IN  IF id \notin DOMAIN e.jobs \/ verdict \notin {"pass", "fail"} THEN Refuse(e)
        ELSE Accept([e EXCEPT !.validations = (id :> votes) @@ @,
                              !.jobs[id].status = Decided(votes, @)])

\* What worker_status counts for a worker.
worker_status(e, worker) ==
    LET own == {id \in DOMAIN e.assignments : e.assignments[id] = worker}
        In(status) == Cardinality({id \in own : e.jobs[id].status = status})
    IN  [assigned |-> Cardinality(own), submitted |-> Cardinality(own \cap DOMAIN e.results),
         validated |-> In("validated"), rejected |-> In("rejected")]

---------------------------------------------------------------------------
(* The file: lines J, A, R and V.                                          *)

dump_state(e) ==
    [J |-> e.jobs, A |-> {<<id, e.assignments[id]>> : id \in DOMAIN e.assignments},
     R |-> {<<id, e.results[id]>> : id \in DOMAIN e.results},
     V |-> UNION {{<<id, v, e.validations[id][v]>> : v \in DOMAIN e.validations[id]}
                    : id \in DOMAIN e.validations}]

Entries(lines) == [id \in {l[1] : l \in lines} |-> (CHOOSE l \in lines : l[1] = id)[2]]

load_state(file) ==
    [jobs |-> file.J, assignments |-> Entries(file.A), results |-> Entries(file.R),
     validations |-> [id \in {l[1] : l \in file.V} |->
        LET own == {l \in file.V : l[1] = id}
        IN  [v \in {l[2] : l \in own} |-> (CHOOSE l \in own : l[2] = v)[3]]]]

---------------------------------------------------------------------------
ComputeSubmitJob(latency, budget) == Command(submit_job(engine, latency, budget), history)

ComputeAssignJob(id, worker, collateral) ==
    Command(assign_job(engine, id, worker, collateral), history)

ComputeSubmitResult(id, worker, hash) == Command(submit_result(engine, id, worker, hash), history)

ComputeValidate(id, validator, verdict) ==
    Command(submit_validation(engine, id, validator, verdict), history)

ComputeInit ==
    LET none == [jobs |-> <<>>, assignments |-> Entries({}), results |-> Entries({}),
                 validations |-> Entries({})]
    IN  SideInit(none, dump_state(none), <<>>)

ComputeNext ==
    \/ \E l \in {0, 1}, b \in Budgets : ComputeSubmitJob(l, b)
    \/ \E id \in 1..(Len(engine.jobs) + 1) :
          \/ \E w \in Workers, c \in {0, 1} : ComputeAssignJob(id, w, c)
          \/ \E w \in Workers, h \in {1, 2} : ComputeSubmitResult(id, w, h)
          \/ \E v \in Validators, d \in {"pass", "fail", "other"} : ComputeValidate(id, v, d)
    \/ Persist(dump_state(engine))
    \/ Restart(load_state(saved.file))

ComputeSpec == ComputeInit /\ [][ComputeNext]_sideVars

---------------------------------------------------------------------------
\* A job has one worker for good: the assignment, the job's own field and the
\* author of its result agree in every order of assignments, results and votes,
\* and after every restart; the totals of worker_status therefore count each
\* job for one worker only.
OneWorkerPerJob ==
    /\ \A id \in DOMAIN engine.jobs :
          engine.jobs[id].assigned_worker =
             IF id \in DOMAIN engine.assignments THEN engine.assignments[id] ELSE Nobody
    /\ \A id \in DOMAIN engine.results :
          /\ engine.results[id].worker_addr = engine.jobs[id].assigned_worker
          /\ engine.results[id].hash = engine.jobs[id].result_hash
    /\ \A w \in Workers :
          LET s == worker_status(engine, w)
          IN  s.submitted <= s.assigned /\ s.validated + s.rejected <= s.assigned

=============================================================================
