---------------------------- MODULE FastPipeline ----------------------------
(***************************************************************************)
(* The typed stages of ADDITION_FAST_V1 (fast_path.cpp), which exist for   *)
(* research and refuse to boot: one machine per batch takes five kinds of  *)
(* message in order.  Messages arrive late, twice, out of order, for       *)
(* another batch or network, or with a body or digest that validation      *)
(* refuses.  history lists the kinds applied.                              *)
(***************************************************************************)
EXTENDS SideEngine

CONSTANTS Batches      \* batch ids, 0 included

Kinds == <<"ingest_batch", "schedule_ticket", "execution_receipt", "verify_ack", "commit_seal">>

\* fast_pipeline_stage_order; the stage a kind leads to is the one after it.
Stages == <<"idle", "ingested", "scheduled", "executed", "verified", "committed">>

StageNumber(stage) == CHOOSE i \in DOMAIN Stages : Stages[i] = stage

fast_pipeline_stage_after(kind) == Stages[1 + CHOOSE i \in DOMAIN Kinds : Kinds[i] = kind]

\* The kind that leaves a stage; there is none after the last.
fast_pipeline_next_kind(stage) ==
    IF stage = "committed" THEN "none" ELSE Kinds[StageNumber(stage)]

\* What is wrong with a message: nothing, another network, an empty body, a body
\* with a forbidden claim, a digest that is no hex or is another message's.
Faults == {"none", "network", "empty", "claim", "not_hex", "digest"}

fast_pipeline_validate_message(msg) == msg.batch_id # 0 /\ msg.fault = "none"

\* Mutant: any later kind is taken, not only the next.
applySkipping(e, msg) ==
    IF \/ e.batch_id = 0 \/ msg.batch_id # e.batch_id
       \/ ~fast_pipeline_validate_message(msg) \/ e.stage = "committed"
       \/ StageNumber(fast_pipeline_stage_after(msg.kind)) <= StageNumber(e.stage)
    THEN Refuse(e)
    ELSE Accept([e EXCEPT !.stage = fast_pipeline_stage_after(msg.kind)])

apply(e, msg) ==
    IF \/ e.batch_id = 0 \/ msg.batch_id # e.batch_id
       \/ ~fast_pipeline_validate_message(msg)
       \/ msg.kind # fast_pipeline_next_kind(e.stage)
    THEN Refuse(e)
    ELSE Accept([e EXCEPT !.stage = fast_pipeline_stage_after(msg.kind)])

Apply(msg) == Command(apply(engine, msg), Append(history, msg.kind))

PipelineInit ==
    \E b \in Batches :
       LET machine == [batch_id |-> b, stage |-> "idle"] IN SideInit(machine, machine, <<>>)

PipelineNext ==
    \E i \in DOMAIN Kinds, b \in Batches, f \in Faults :
       Apply([kind |-> Kinds[i], batch_id |-> b, fault |-> f])

PipelineSpec == PipelineInit /\ [][PipelineNext]_sideVars

---------------------------------------------------------------------------
\* The stage of a batch is the result of all the kinds before it, each applied
\* once and in order, however the messages arrive; batch 0 never leaves idle.
StagesInOrder ==
    /\ history = SubSeq(Kinds, 1, StageNumber(engine.stage) - 1)
    /\ engine.batch_id = 0 => engine.stage = "idle"

=============================================================================
