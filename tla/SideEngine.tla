----------------------------- MODULE SideEngine -----------------------------
(***************************************************************************)
(* What the engines beside the chain have in common (additiond.cpp,        *)
(* rpc_server.cpp, state_store.cpp): an engine is changed by one RPC       *)
(* command at a time under the state lock; after a command answered        *)
(* without error its thread writes a dump of the engine to the engine's    *)
(* file; a start loads the file.  Other commands may run, and the process  *)
(* may die, between the answer and the write.  Here the file is replaced   *)
(* in one step: SideState models the writing itself.                       *)
(*                                                                         *)
(* The modules of the engines extend this one and share its variables.     *)
(***************************************************************************)
EXTENDS Integers, Sequences, FiniteSets, SequencesExt

CONSTANT MaxCommands   \* bound: commands of one behaviour

VARIABLES
    engine,    \* the members of the engine
    saved,     \* its file and what had happened when the file was written
    history,   \* what the engine has granted so far (for the properties only)
    answer,    \* of the last command: "ok", "read" (nothing to write) or "error"
    unsaved,   \* a command was answered ok and the file not yet written since
    given      \* commands given so far

sideVars == <<engine, saved, history, answer, unsaved, given>>

Refuse(e) == [answer |-> "error", engine |-> e]
Accept(e) == [answer |-> "ok", engine |-> e]
Read(e) == [answer |-> "read", engine |-> e]

SideInit(empty, dumped, nothing) ==
    /\ engine = empty
    /\ history = nothing
    /\ saved = [file |-> dumped, history |-> nothing]
    /\ answer = "ok"
    /\ unsaved = FALSE
    /\ given = 0

\* handle_command: the arm of one command, under the lock from its first line
\* to its answer.  granted is what the properties remember of it.
Command(result, granted) ==
    /\ given < MaxCommands
    /\ given' = given + 1
    /\ engine' = result.engine
    /\ answer' = result.answer
    /\ history' = IF result.answer = "ok" THEN granted ELSE history
    /\ unsaved' = (unsaved \/ result.answer = "ok")
    /\ UNCHANGED saved

\* persist_side_after: nothing is written after an error or a read.
Persist(dumped) ==
    /\ unsaved
    /\ unsaved' = FALSE
    /\ saved' = [file |-> dumped, history |-> history]
    /\ UNCHANGED <<engine, history, answer, given>>

\* The process dies and is started again: load_all reads the file.
Restart(loaded) ==
    /\ engine' = loaded
    /\ history' = saved.history
    /\ answer' = "ok"
    /\ unsaved' = FALSE
    /\ UNCHANGED <<saved, given>>

=============================================================================
