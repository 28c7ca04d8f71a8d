----------------------------- MODULE SideState ------------------------------
(***************************************************************************)
(* How the side state reaches the disk (state_store.cpp, additiond_main    *)
(* .cpp).  A connection's thread handles a write under the state lock,     *)
(* then, the lock released, dumps and writes the engines' files in a fixed *)
(* order, and only then sends the answer.  write_text fills path.tmp and   *)
(* renames it over path; when the rename fails it removes path and renames *)
(* again.  The process may die between any two steps; the next start loads *)
(* the files in their order.  Quitting joins the threads and saves all.    *)
(*                                                                         *)
(* An engine's state is the number of writes it holds; damaged tells that  *)
(* its dump does not read back (load_state refuses it).  A file is Missing,*)
(* Empty (just truncated) or a dump.                                       *)
(***************************************************************************)
EXTENDS Naturals, Sequences, FiniteSets

CONSTANTS
    EngineOrder,  \* the engines in the order of save_side_state and load_all
    Setups,       \* what a behaviour may have: the connection threads, and the engines
                  \* in which some write gives a dump that does not read back
    MaxWrites,    \* bound: writes of a behaviour
    MaxStarts     \* bound: starts of the process

VARIABLES
    setup,        \* the threads and damaging engines of this behaviour
    mem,          \* per engine, its state in memory
    path, tmp,    \* per engine, its file and the file path.tmp
    thread,       \* per thread, what it is doing
    answered,     \* per engine, the latest write whose answer was sent
    boot,         \* "up", "crashed" or "quit"
    starts        \* starts of the process so far

stateVars == <<setup, mem, path, tmp, thread, answered, boot, starts>>

Engines == {EngineOrder[i] : i \in DOMAIN EngineOrder}

\* There are engines to save, in some order, and finitely many connections.
ASSUME SideStateAssumption ==
    /\ EngineOrder \in Seq(Engines) /\ EngineOrder # <<>>
    /\ \A s \in Setups : IsFiniteSet(s.threads)

Missing == [kind |-> "missing", writes |-> 0, damaged |-> FALSE]
Empty == [kind |-> "empty", writes |-> 0, damaged |-> FALSE]
Dump(state) == [kind |-> "dump", writes |-> state.writes, damaged |-> state.damaged]

Fresh == [writes |-> 0, damaged |-> FALSE]

Idle == [pc |-> "idle", file |-> 1, text |-> Missing, at |-> "tmp",
         engine |-> EngineOrder[1], write |-> 0]

File(t) == EngineOrder[thread[t].file]

Go(t, pc) == thread' = [thread EXCEPT ![t].pc = pc]

FilesInit ==
    /\ setup \in Setups
    /\ mem = [e \in Engines |-> Fresh]
    /\ path = [e \in Engines |-> Missing]
    /\ tmp = path
    /\ thread = [t \in setup.threads |-> Idle]
    /\ answered = [e \in Engines |-> 0]
    /\ boot = "up"
    /\ starts = 1

\* save_all is running: the connections' threads are gone.
Quitting == \E t \in setup.threads : thread[t].pc # "idle" /\ thread[t].write = 0

\* handle_command: the whole command, under the lock.
Handle(t, e, damaged) ==
    /\ boot = "up" /\ thread[t].pc = "idle" /\ ~Quitting
    /\ mem[e].writes < MaxWrites
    /\ mem' = [mem EXCEPT ![e] = [writes |-> @.writes + 1, damaged |-> @.damaged \/ damaged]]
    /\ thread' = [thread EXCEPT ![t] = [Idle EXCEPT !.pc = "dump", !.engine = e,
                                                    !.write = mem[e].writes + 1]]
    /\ UNCHANGED <<setup, path, tmp, answered, boot, starts>>

\* save_side_state asks the engine for its dump, without the lock.
DumpState(t) ==
    /\ thread[t].pc = "dump"
    /\ thread' = [thread EXCEPT ![t].pc = "open", ![t].text = Dump(mem[File(t)])]
    /\ UNCHANGED <<setup, mem, path, tmp, answered, boot, starts>>

\* Opening path.tmp truncates the file of that name, whoever else has it open.
OpenTmp(t) ==
    /\ thread[t].pc = "open"
    /\ tmp' = [tmp EXCEPT ![File(t)] = Empty]
    /\ thread' = [thread EXCEPT ![t].pc = "write", ![t].at = "tmp"]
    /\ UNCHANGED <<setup, mem, path, answered, boot, starts>>

\* The text goes to the file that was opened, whatever its name is by now.
WriteTmp(t) ==
    /\ thread[t].pc = "write"
    /\ Go(t, "rename")
    /\ CASE thread[t].at = "tmp"  -> tmp' = [tmp EXCEPT ![File(t)] = thread[t].text] /\ UNCHANGED path
         [] thread[t].at = "path" -> path' = [path EXCEPT ![File(t)] = thread[t].text] /\ UNCHANGED tmp
         [] OTHER                 -> UNCHANGED <<path, tmp>>
    /\ UNCHANGED <<setup, mem, answered, boot, starts>>

\* Where the files that the others are writing are after e was renamed over path.
Moved(e) ==
    [u \in setup.threads |->
       IF thread[u].pc = "write" /\ File(u) = e
       THEN [thread[u] EXCEPT !.at = IF @ = "tmp" THEN "path" ELSE "gone"]
       ELSE thread[u]]

\* Mutant: the thread answers after the first file.
AfterFileAnswering(th) == [th EXCEPT !.pc = "answer"]

\* The next file, or the answer after the last one.
AfterFile(th) ==
    IF th.file < Len(EngineOrder) THEN [th EXCEPT !.pc = "dump", !.file = @ + 1]
    ELSE [th EXCEPT !.pc = "answer"]

Rename(t) ==
    /\ thread[t].pc \in {"rename", "again"}
    /\ tmp[File(t)] # Missing
    /\ path' = [path EXCEPT ![File(t)] = tmp[File(t)]]
    /\ tmp' = [tmp EXCEPT ![File(t)] = Missing]
    /\ thread' = [Moved(File(t)) EXCEPT ![t] = AfterFile(thread[t])]
    /\ UNCHANGED <<setup, mem, answered, boot, starts>>

\* There is no path.tmp (another thread renamed it): path is removed.
RenameFails(t) ==
    /\ thread[t].pc = "rename" /\ tmp[File(t)] = Missing
    /\ path' = [path EXCEPT ![File(t)] = Missing]
    /\ thread' = [[u \in setup.threads |->
                     IF thread[u].pc = "write" /\ File(u) = File(t) /\ thread[u].at = "path"
                     THEN [thread[u] EXCEPT !.at = "gone"] ELSE thread[u]] EXCEPT ![t].pc = "again"]
    /\ UNCHANGED <<setup, mem, tmp, answered, boot, starts>>

\* The second rename fails too: the files after this one are not written, a
\* warning is logged, and the command is answered all the same.
GiveUp(t) ==
    /\ thread[t].pc = "again" /\ tmp[File(t)] = Missing
    /\ Go(t, "answer")
    /\ UNCHANGED <<setup, mem, path, tmp, answered, boot, starts>>

Larger(a, b) == IF a > b THEN a ELSE b

SendAnswer(t) ==
    /\ thread[t].pc = "answer" /\ boot = "up"
    /\ IF thread[t].write = 0
       THEN boot' = "quit" /\ UNCHANGED answered
       ELSE answered' = [answered EXCEPT ![thread[t].engine] = Larger(@, thread[t].write)]
              /\ UNCHANGED boot
    /\ thread' = [thread EXCEPT ![t] = Idle]
    /\ UNCHANGED <<setup, mem, path, tmp, starts>>

\* quit: the servers are stopped and their threads joined, then save_all writes
\* the same files once more; the process ends.
Quit ==
    /\ boot = "up" /\ \A t \in setup.threads : thread[t].pc = "idle"
    /\ \E t \in setup.threads : thread' = [thread EXCEPT ![t] = [Idle EXCEPT !.pc = "dump"]]
    /\ UNCHANGED <<setup, mem, path, tmp, answered, boot, starts>>

Die ==
    /\ boot = "up" /\ starts < MaxStarts
    /\ boot' = "crashed"
    /\ thread' = [t \in setup.threads |-> Idle]
    /\ UNCHANGED <<setup, mem, path, tmp, answered, starts>>

\* load_all: a file that is not there or empty leaves its engine as constructed;
\* one that does not read back leaves it and every later engine empty, and the
\* node runs on with a warning.
Stops(files, i) == \E j \in 1..i : files[EngineOrder[j]].damaged

\* Mutant: the temporary file, if there is one, is loaded in place of the file.
LoadedFromTmp(files) ==
    [e \in Engines |-> IF tmp[e] # Missing THEN [writes |-> tmp[e].writes, damaged |-> FALSE]
                       ELSE [writes |-> files[e].writes, damaged |-> FALSE]]

Loaded(files) ==
    [e \in Engines |->
        LET i == CHOOSE i \in DOMAIN EngineOrder : EngineOrder[i] = e
        IN  IF Stops(files, i) THEN Fresh ELSE [writes |-> files[e].writes, damaged |-> FALSE]]

Start ==
    /\ boot # "up" /\ starts < MaxStarts
    /\ boot' = "up"
    /\ starts' = starts + 1
    /\ mem' = Loaded(path)
    /\ UNCHANGED <<setup, path, tmp, thread, answered>>

ThreadStep(t) ==
    \/ \E e \in Engines : Handle(t, e, FALSE) \/ (e \in setup.damaging /\ Handle(t, e, TRUE))
    \/ DumpState(t) \/ OpenTmp(t) \/ WriteTmp(t)
    \/ Rename(t) \/ RenameFails(t) \/ GiveUp(t)
    \/ SendAnswer(t)

FilesNext == (\E t \in setup.threads : ThreadStep(t)) \/ Quit \/ Die \/ Start

SideSpec == FilesInit /\ [][FilesNext]_stateVars

---------------------------------------------------------------------------
(* Properties.                                                             *)

Alone == Cardinality(setup.threads) = 1 /\ setup.damaging = {}

\* Persistent state is "flushed after each successful write"
\* (docs/FINAL_COMMANDS.md): an answered write is on disk, whenever the process
\* dies, also in the middle of writing a later one.  ImplementsDurableStore has it
\* for one connection; with two it fails.
AnsweredIsDurable == \A e \in Engines : path[e].writes >= answered[e]

\* A clean shutdown leaves every engine's last state on disk, also after the
\* threads of concurrent connections removed or overwrote each other's files.
QuitSavesAll == boot = "quit" => \A e \in Engines : path[e] = Dump(mem[e])

\* The detailed steps of one connection implement DurableStore: the file is the
\* disk, and while the process is down memory is what the next start will load.
Durable == INSTANCE DurableStore WITH
    memory <- [e \in Engines |->
                 IF ~Alone THEN 0 ELSE IF boot = "up" THEN mem[e].writes ELSE path[e].writes],
    disk <- [e \in Engines |-> IF Alone THEN path[e].writes ELSE 0],
    acked <- [e \in Engines |-> IF Alone THEN answered[e] ELSE 0]

ImplementsDurableStore == Durable!StoreSpec

=============================================================================
