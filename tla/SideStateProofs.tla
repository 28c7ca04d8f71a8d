-------------------------- MODULE SideStateProofs ---------------------------
(***************************************************************************)
(* For every list of engines, every set of connections and any number of   *)
(* writes and starts: a clean shutdown leaves every engine's state on      *)
(* disk, and the files of a node with one connection implement             *)
(* DurableStore.  Both rest on one fact about a thread that writes while   *)
(* no other does (Saving): the file it is about to put in place, and those *)
(* it has put there, hold what is in memory.                               *)
(***************************************************************************)
EXTENDS SideState, FiniteSetTheorems, TLAPS

States == [writes : Nat, damaged : BOOLEAN]

Files == [kind : {"missing", "empty", "dump"}, writes : Nat, damaged : BOOLEAN]

Steps == {"idle", "dump", "open", "write", "rename", "again", "answer"}

Threads == [pc : Steps, file : 1 .. Len(EngineOrder), text : Files, at : {"tmp", "path", "gone"},
            engine : Engines, write : Nat]

FilesTyped ==
  /\ setup \in Setups
  /\ mem \in [Engines -> States]
  /\ path \in [Engines -> Files] /\ tmp \in [Engines -> Files]
  /\ thread \in [setup.threads -> Threads]
  /\ answered \in [Engines -> Nat]
  /\ boot \in {"up", "crashed", "quit"}

\* The thread t writes and no other thread does: it is quitting, or there is no
\* other connection.
Lone(t) == thread[t].pc # "idle" /\ (thread[t].write = 0 \/ setup.threads = {t})

\* Whether the i-th file holds the state in memory.
Saved(i) == path[EngineOrder[i]] = Dump(mem[EngineOrder[i]])

\* How far such a thread is: what it dumped is still the engine's state, path.tmp
\* is the file it filled, and the files before it are saved.
Saving(t) ==
  /\ thread[t].pc # "again"
  /\ thread[t].pc \in {"open", "write", "rename"} => thread[t].text = Dump(mem[File(t)])
  /\ thread[t].pc = "write" => thread[t].at = "tmp"
  /\ thread[t].pc = "rename" => tmp[File(t)] = thread[t].text
  /\ \A i \in 1 .. Len(EngineOrder) : i < thread[t].file \/ thread[t].pc = "answer" => Saved(i)

\* One thread quits, alone, and a process that is not up has no thread at work.
QuitsAlone ==
  /\ \A t \in setup.threads :
       thread[t].pc # "idle" /\ thread[t].write = 0 =>
         \A u \in setup.threads \ {t} : thread[u].pc = "idle"
  /\ boot # "up" => \A t \in setup.threads : thread[t].pc = "idle"

\* With one connection and no write that damages a dump, what was answered is on
\* disk, what is on disk was in memory, and the write being answered is the last.
Behind ==
  /\ \A e \in Engines : /\ mem[e].damaged = FALSE /\ path[e].damaged = FALSE
                        /\ answered[e] <= path[e].writes /\ path[e].writes <= mem[e].writes
  /\ \A t \in setup.threads :
       thread[t].pc # "idle" /\ thread[t].write # 0 => thread[t].write = mem[thread[t].engine].writes

FilesInv ==
  /\ FilesTyped
  /\ QuitsAlone
  /\ \A t \in setup.threads : Lone(t) => Saving(t)
  /\ QuitSavesAll
  /\ Alone => Behind


-----------------------------------------------------------------------------
\* The engines are those of the list, and an idle thread is a thread.
LEMMA OrderFacts ==
  /\ Len(EngineOrder) \in Nat \ {0}
  /\ \A i \in 1 .. Len(EngineOrder) : EngineOrder[i] \in Engines
  /\ \A e \in Engines : \E i \in 1 .. Len(EngineOrder) : EngineOrder[i] = e
  /\ Idle \in Threads
<1>1. Len(EngineOrder) \in Nat \ {0} /\ DOMAIN EngineOrder = 1 .. Len(EngineOrder)
  BY SideStateAssumption
<1>2. /\ \A i \in 1 .. Len(EngineOrder) : EngineOrder[i] \in Engines
      /\ \A e \in Engines : \E i \in 1 .. Len(EngineOrder) : EngineOrder[i] = e
  BY <1>1 DEF Engines
<1>3. Idle \in Threads
  BY <1>1, <1>2 DEF Idle, Threads, Missing, Files, Steps
<1> QED
  BY <1>1, <1>2, <1>3

\* The fields of a thread at work.
LEMMA ThreadFacts ==
  ASSUME FilesTyped, NEW t \in setup.threads
  PROVE  /\ thread[t] \in Threads
         /\ thread[t].pc \in Steps /\ thread[t].file \in 1 .. Len(EngineOrder)
         /\ thread[t].text \in Files /\ thread[t].at \in {"tmp", "path", "gone"}
         /\ thread[t].engine \in Engines /\ thread[t].write \in Nat
         /\ File(t) \in Engines
BY OrderFacts DEF FilesTyped, Threads, File

\* A dump is a file, and differs from a file that is not there.
LEMMA DumpFacts ==
  ASSUME FilesTyped, NEW e \in Engines
  PROVE  /\ Dump(mem[e]) \in Files /\ Dump(mem[e]) # Missing
         /\ Dump(mem[e]).writes = mem[e].writes /\ Dump(mem[e]).damaged = mem[e].damaged
         /\ mem[e].writes \in Nat /\ mem[e].damaged \in BOOLEAN
         /\ path[e] \in Files /\ tmp[e] \in Files
<1>1. mem[e].writes \in Nat /\ mem[e].damaged \in BOOLEAN /\ path[e] \in Files /\ tmp[e] \in Files
  BY DEF FilesTyped, States
<1>2. Dump(mem[e]) \in Files
  BY <1>1 DEF Dump, Files
<1>3. Dump(mem[e]).kind = "dump" /\ Missing.kind = "missing"
  BY DEF Dump, Missing
<1>4. Dump(mem[e]).writes = mem[e].writes /\ Dump(mem[e]).damaged = mem[e].damaged
  BY DEF Dump
<1> QED
  BY <1>1, <1>2, <1>3, <1>4

\* A node with one connection has one thread.
LEMMA AloneFacts ==
  ASSUME FilesTyped, Alone, NEW t \in setup.threads
  PROVE  setup.threads = {t}
<1>1. IsFiniteSet(setup.threads) /\ Cardinality(setup.threads) = 1
  BY SideStateAssumption DEF FilesTyped, Alone
<1>2. PICK x : setup.threads = {x}
  BY <1>1, FS_Singleton
<1> QED
  BY <1>2

\* A step of a thread that is dumping or writing: no thread starts or ends, and
\* the engines, the answers and the process are as before.
Works(t) ==
  /\ thread[t].pc # "idle" /\ thread'[t].pc # "idle"
  /\ setup' = setup /\ boot' = boot /\ answered' = answered /\ mem' = mem
  /\ \A u \in setup.threads : thread'[u].write = thread[u].write /\ thread'[u].engine = thread[u].engine
  /\ \A u \in setup.threads \ {t} : thread'[u].pc = thread[u].pc

\* What such a step has to show: its types, that it goes on saving when it is the
\* only one, and that on a node with one connection it writes the engine's state.
LEMMA WorkKeepsInv ==
  ASSUME FilesInv, NEW t \in setup.threads, Works(t), FilesTyped',
         Lone(t) => Saving(t)',
         Alone => \A e \in Engines : path'[e] = path[e] \/ path'[e] = Dump(mem[e])
  PROVE  FilesInv'
<1>1. \A u \in setup.threads \ {t} : ~(thread[u].pc # "idle" /\ thread[u].write = 0)
  BY DEF FilesInv, QuitsAlone, Works
<1>2. boot = "up"
  BY DEF FilesInv, QuitsAlone, Works
<1>3. QuitsAlone'
  <2>1. ASSUME NEW w \in setup.threads, thread'[w].pc # "idle", thread'[w].write = 0
        PROVE  \A u \in setup.threads \ {w} : thread'[u].pc = "idle"
    <3>1. w = t
      BY <1>1, <2>1 DEF Works
    <3> QED
      BY <2>1, <3>1 DEF FilesInv, QuitsAlone, Works
  <2> QED
    BY <1>2, <2>1 DEF QuitsAlone, Works
<1>4. ASSUME NEW u \in setup.threads, Lone(u)' PROVE Saving(u)'
  <2>1. u = t
    BY <1>1, <1>4 DEF Works, Lone
  <2> QED
    BY <1>4, <2>1 DEF Works, Lone
<1>5. QuitSavesAll'
  BY <1>2 DEF Works, QuitSavesAll
<1>6. Alone' => Behind'
  <2> SUFFICES ASSUME Alone' PROVE Behind'
    OBVIOUS
  <2>1. Alone /\ Behind
    BY DEF Alone, Works, FilesInv
  <2>2. ASSUME NEW e \in Engines
        PROVE  /\ mem'[e].damaged = FALSE /\ path'[e].damaged = FALSE
               /\ answered'[e] <= path'[e].writes /\ path'[e].writes <= mem'[e].writes
    <3>1. /\ mem[e].damaged = FALSE /\ path[e].damaged = FALSE
          /\ answered[e] <= path[e].writes /\ path[e].writes <= mem[e].writes
      BY <2>1 DEF Behind
    <3>2. answered[e] \in Nat /\ path[e].writes \in Nat
      BY DEF FilesInv, FilesTyped, Files
    <3>3. mem' = mem /\ answered' = answered
      BY DEF Works
    <3>4. CASE path'[e] = path[e]
      BY <3>1, <3>3, <3>4
    <3>5. CASE path'[e] = Dump(mem[e])
      BY <3>1, <3>2, <3>3, <3>5, DumpFacts DEF FilesInv
    <3> QED
      BY <2>1, <3>4, <3>5
  <2>3. ASSUME NEW u \in setup.threads, thread'[u].pc # "idle", thread'[u].write # 0
        PROVE  thread'[u].write = mem'[thread'[u].engine].writes
    <3>1. thread[u].pc # "idle"
      BY <2>3 DEF Works
    <3> QED
      BY <2>1, <2>3, <3>1 DEF Behind, Works
  <2> QED
    BY <2>2, <2>3 DEF Behind, Works
<1> QED
  BY <1>3, <1>4, <1>5, <1>6 DEF FilesInv, Works


-----------------------------------------------------------------------------
\* The steps of a thread that change its own record only.
LEMMA DumpStateKeepsInv ==
  ASSUME FilesInv, NEW t \in setup.threads, DumpState(t)
  PROVE  FilesInv'
<1>1. FilesTyped
  BY DEF FilesInv
<1>2. /\ thread[t].pc = "dump"
      /\ thread' = [thread EXCEPT ![t] = [@ EXCEPT !.pc = "open", !.text = Dump(mem[File(t)])]]
      /\ UNCHANGED <<setup, mem, path, tmp, answered, boot>>
  BY <1>1, ThreadFacts DEF DumpState, FilesTyped, Threads
<1> DEFINE x == [thread[t] EXCEPT !.pc = "open", !.text = Dump(mem[File(t)])]
<1>3. x \in Threads
  BY <1>1, ThreadFacts, DumpFacts DEF Threads, Steps
<1>4. /\ x.pc = "open" /\ x.text = Dump(mem[File(t)]) /\ x.file = thread[t].file
      /\ x.write = thread[t].write /\ x.engine = thread[t].engine
  BY <1>1, ThreadFacts DEF Threads
<1> HIDE DEF x
<1>5. thread' = [thread EXCEPT ![t] = x]
  BY <1>2 DEF x
<1>6. FilesTyped'
  BY <1>1, <1>2, <1>3, <1>5 DEF FilesTyped
<1>7. Works(t)
  BY <1>1, <1>2, <1>4, <1>5 DEF Works, FilesTyped
<1>8. Lone(t) => Saving(t)'
  <2>1. thread'[t] = x
    BY <1>1, <1>5 DEF FilesTyped
  <2>2. File(t)' = File(t)
    BY <1>4, <2>1 DEF File
  <2> QED
    BY <1>2, <1>4, <2>1, <2>2 DEF FilesInv, Saving, Saved
<1> QED
  BY <1>2, <1>6, <1>7, <1>8, WorkKeepsInv


LEMMA OpenTmpKeepsInv ==
  ASSUME FilesInv, NEW t \in setup.threads, OpenTmp(t)
  PROVE  FilesInv'
<1>1. FilesTyped
  BY DEF FilesInv
<1> DEFINE x == [thread[t] EXCEPT !.pc = "write", !.at = "tmp"]
<1>2. /\ thread[t].pc = "open"
      /\ tmp' = [tmp EXCEPT ![File(t)] = Empty]
      /\ thread' = [thread EXCEPT ![t] = x]
      /\ UNCHANGED <<setup, mem, path, answered, boot>>
  BY <1>1, ThreadFacts DEF OpenTmp, FilesTyped, Threads
<1>3. x \in Threads
  BY <1>1, ThreadFacts DEF Threads, Steps
<1>4. /\ x.pc = "write" /\ x.at = "tmp" /\ x.text = thread[t].text /\ x.file = thread[t].file
      /\ x.write = thread[t].write /\ x.engine = thread[t].engine
  BY <1>1, ThreadFacts DEF Threads
<1> HIDE DEF x
<1>5. FilesTyped'
  <2>1. Empty \in Files
    BY DEF Empty, Files
  <2> QED
    BY <1>1, <1>2, <1>3, <2>1 DEF FilesTyped
<1>6. Works(t)
  BY <1>1, <1>2, <1>4 DEF Works, FilesTyped
<1>7. Lone(t) => Saving(t)'
  <2>1. thread'[t] = x
    BY <1>1, <1>2 DEF FilesTyped
  <2>2. File(t)' = File(t)
    BY <1>4, <2>1 DEF File
  <2> QED
    BY <1>2, <1>4, <2>1, <2>2 DEF FilesInv, Saving, Saved
<1> QED
  BY <1>2, <1>5, <1>6, <1>7, WorkKeepsInv

LEMMA WriteTmpKeepsInv ==
  ASSUME FilesInv, NEW t \in setup.threads, WriteTmp(t)
  PROVE  FilesInv'
<1>1. FilesTyped
  BY DEF FilesInv
<1> DEFINE x == [thread[t] EXCEPT !.pc = "rename"]
           f == File(t)
<1>2. /\ thread[t].pc = "write"
      /\ thread' = [thread EXCEPT ![t] = x]
      /\ UNCHANGED <<setup, mem, answered, boot>>
  BY <1>1, ThreadFacts DEF WriteTmp, Go, FilesTyped, Threads
<1>3. x \in Threads
  BY <1>1, ThreadFacts DEF Threads, Steps
<1>4. /\ x.pc = "rename" /\ x.text = thread[t].text /\ x.file = thread[t].file
      /\ x.write = thread[t].write /\ x.engine = thread[t].engine
  BY <1>1, ThreadFacts DEF Threads
<1> HIDE DEF x
<1>5. /\ thread[t].at = "tmp" => tmp' = [tmp EXCEPT ![f] = thread[t].text] /\ path' = path
      /\ thread[t].at = "path" => path' = [path EXCEPT ![f] = thread[t].text] /\ tmp' = tmp
      /\ thread[t].at = "gone" => path' = path /\ tmp' = tmp
  BY DEF WriteTmp
<1>6. FilesTyped'
  <2>1. thread[t].text \in Files /\ f \in Engines /\ thread[t].at \in {"tmp", "path", "gone"}
    BY <1>1, ThreadFacts
  <2> HIDE DEF f
  <2>2. path' \in [Engines -> Files] /\ tmp' \in [Engines -> Files]
    BY <1>1, <1>5, <2>1 DEF FilesTyped
  <2> QED
    BY <1>1, <1>2, <1>3, <2>2 DEF FilesTyped
<1>7. Works(t)
  BY <1>1, <1>2, <1>4 DEF Works, FilesTyped
<1>8. Lone(t) => Saving(t)' /\ path' = path
  <2> SUFFICES ASSUME Lone(t) PROVE Saving(t)' /\ path' = path
    OBVIOUS
  <2>1. thread'[t] = x /\ f \in Engines
    BY <1>1, <1>2, ThreadFacts DEF FilesTyped
  <2>2. File(t)' = f
    BY <1>4, <2>1 DEF File
  <2>3. Saving(t)
    BY DEF FilesInv
  <2>4. tmp' = [tmp EXCEPT ![f] = thread[t].text] /\ path' = path /\ thread[t].text = Dump(mem[f])
    BY <1>2, <1>5, <2>3 DEF Saving
  <2>5. tmp'[f] = thread[t].text
    BY <1>1, <2>1, <2>4 DEF FilesTyped
  <2> HIDE DEF f
  <2> QED
    BY <1>2, <1>4, <2>1, <2>2, <2>3, <2>4, <2>5 DEF Saving, Saved
<1>9. Alone => Lone(t)
  BY <1>1, <1>2, AloneFacts DEF Lone
<1> QED
  BY <1>6, <1>7, <1>8, <1>9, WorkKeepsInv

LEMMA GiveUpKeepsInv ==
  ASSUME FilesInv, NEW t \in setup.threads, GiveUp(t)
  PROVE  FilesInv'
<1>1. FilesTyped
  BY DEF FilesInv
<1> DEFINE x == [thread[t] EXCEPT !.pc = "answer"]
<1>2. /\ thread[t].pc = "again"
      /\ thread' = [thread EXCEPT ![t] = x]
      /\ UNCHANGED <<setup, mem, path, tmp, answered, boot>>
  BY <1>1, ThreadFacts DEF GiveUp, Go, FilesTyped, Threads
<1>3. x \in Threads
  BY <1>1, ThreadFacts DEF Threads, Steps
<1>4. x.pc = "answer" /\ x.write = thread[t].write /\ x.engine = thread[t].engine
  BY <1>1, ThreadFacts DEF Threads
<1> HIDE DEF x
<1>5. FilesTyped'
  BY <1>1, <1>2, <1>3 DEF FilesTyped
<1>6. Works(t)
  BY <1>1, <1>2, <1>4 DEF Works, FilesTyped
<1>7. ~Lone(t)
  BY <1>2 DEF FilesInv, Saving
<1> QED
  BY <1>2, <1>5, <1>6, <1>7, WorkKeepsInv


\* The renames also change where the files are that other threads have open.
LEMMA RenameKeepsInv ==
  ASSUME FilesInv, NEW t \in setup.threads, Rename(t)
  PROVE  FilesInv'
<1>1. FilesTyped
  BY DEF FilesInv
<1> DEFINE f == File(t)
           x == AfterFile(thread[t])
           others == Moved(f)
<1>2. /\ thread[t].pc \in {"rename", "again"} /\ tmp[f] # Missing
      /\ path' = [path EXCEPT ![f] = tmp[f]] /\ tmp' = [tmp EXCEPT ![f] = Missing]
      /\ thread' = [others EXCEPT ![t] = x]
      /\ UNCHANGED <<setup, mem, answered, boot>>
  BY DEF Rename
<1>3. /\ x \in Threads /\ x.pc \in {"dump", "answer"}
      /\ x.write = thread[t].write /\ x.engine = thread[t].engine
      /\ \A i \in 1 .. Len(EngineOrder) : i < x.file \/ x.pc = "answer" => i <= thread[t].file
  <2>1. thread[t] \in Threads /\ thread[t].file \in 1 .. Len(EngineOrder) /\ Len(EngineOrder) \in Nat
    BY <1>1, ThreadFacts, OrderFacts
  <2>2. CASE thread[t].file < Len(EngineOrder)
    <3>1. x = [thread[t] EXCEPT !.pc = "dump", !.file = @ + 1]
      BY <2>2 DEF AfterFile
    <3>2. thread[t].file + 1 \in 1 .. Len(EngineOrder)
      BY <2>1, <2>2
    <3>3. /\ x \in Threads /\ x.pc = "dump" /\ x.file = thread[t].file + 1
          /\ x.write = thread[t].write /\ x.engine = thread[t].engine
      BY <2>1, <3>1, <3>2 DEF Threads, Steps
    <3> QED
      BY <2>1, <3>3
  <2>3. CASE ~(thread[t].file < Len(EngineOrder))
    <3>1. x = [thread[t] EXCEPT !.pc = "answer"]
      BY <2>3 DEF AfterFile
    <3> QED
      BY <2>1, <2>3, <3>1 DEF Threads, Steps
  <2> QED
    BY <2>2, <2>3
<1>4. /\ others \in [setup.threads -> Threads]
      /\ \A u \in setup.threads : /\ others[u].pc = thread[u].pc /\ others[u].write = thread[u].write
                                  /\ others[u].engine = thread[u].engine
  <2>1. ASSUME NEW u \in setup.threads
        PROVE  /\ others[u] \in Threads
               /\ others[u].pc = thread[u].pc /\ others[u].write = thread[u].write
               /\ others[u].engine = thread[u].engine
    <3>1. thread[u] \in Threads
      BY <1>1, ThreadFacts
    <3>2. \/ others[u] = thread[u]
          \/ others[u] = [thread[u] EXCEPT !.at = "path"]
          \/ others[u] = [thread[u] EXCEPT !.at = "gone"]
      BY <3>1 DEF Moved, Threads
    <3> HIDE DEF others
    <3> QED
      BY <3>1, <3>2 DEF Threads
  <2>2. others = [u \in setup.threads |-> others[u]]
    BY DEF Moved
  <2> HIDE DEF others
  <2> QED
    BY <2>1, <2>2
<1> HIDE DEF x, others
<1>5. /\ f \in Engines /\ tmp[f] \in Files /\ Missing \in Files
  BY <1>1, ThreadFacts, DumpFacts DEF Missing, Files
<1>6. FilesTyped'
  <2>1. path' \in [Engines -> Files] /\ tmp' \in [Engines -> Files]
    BY <1>1, <1>2, <1>5 DEF FilesTyped
  <2>2. thread' \in [setup.threads -> Threads]
    BY <1>2, <1>3, <1>4
  <2> QED
    BY <1>1, <1>2, <2>1, <2>2 DEF FilesTyped
<1>7. thread'[t] = x /\ \A u \in setup.threads \ {t} : thread'[u] = others[u]
  BY <1>2, <1>4
<1>8. Works(t)
  BY <1>2, <1>3, <1>4, <1>7 DEF Works
<1>9. ASSUME Lone(t)
      PROVE  Saving(t)' /\ \A e \in Engines : path'[e] = path[e] \/ path'[e] = Dump(mem[e])
  <2>1. Saving(t)
    BY <1>9 DEF FilesInv
  <2>2. tmp[f] = Dump(mem[f])
    BY <1>2, <2>1 DEF Saving
  <2>3. path'[f] = Dump(mem[f]) /\ \A e \in Engines \ {f} : path'[e] = path[e]
    BY <1>1, <1>2, <1>5, <2>2 DEF FilesTyped
  <2>4. ASSUME NEW i \in 1 .. Len(EngineOrder), i < x.file \/ x.pc = "answer" PROVE Saved(i)'
    <3>1. EngineOrder[i] \in Engines /\ i <= thread[t].file /\ thread[t].file \in Nat
      BY <1>1, <1>3, <2>4, OrderFacts, ThreadFacts
    <3>2. CASE EngineOrder[i] = f
      BY <1>2, <2>3, <3>2 DEF Saved
    <3>3. CASE EngineOrder[i] # f
      <4>1. i < thread[t].file
        BY <3>1, <3>3 DEF File
      <4> QED
        BY <1>2, <2>1, <2>3, <3>1, <3>3, <4>1 DEF Saving, Saved
    <3> QED
      BY <3>2, <3>3
  <2>5. Saving(t)'
    BY <1>3, <1>7, <2>4 DEF Saving
  <2> QED
    BY <2>3, <2>5
<1>10. Alone => Lone(t)
  BY <1>1, <1>2, AloneFacts DEF Lone
<1> QED
  BY <1>6, <1>8, <1>9, <1>10, WorkKeepsInv

\* A rename fails only when another thread took path.tmp, so never for a thread
\* that writes alone.
LEMMA RenameFailsKeepsInv ==
  ASSUME FilesInv, NEW t \in setup.threads, RenameFails(t)
  PROVE  FilesInv'
<1>1. FilesTyped
  BY DEF FilesInv
<1> DEFINE f == File(t)
           others == [u \in setup.threads |->
                        IF thread[u].pc = "write" /\ File(u) = f /\ thread[u].at = "path"
                        THEN [thread[u] EXCEPT !.at = "gone"] ELSE thread[u]]
<1>2. /\ thread[t].pc = "rename" /\ tmp[f] = Missing
      /\ path' = [path EXCEPT ![f] = Missing]
      /\ thread' = [others EXCEPT ![t].pc = "again"]
      /\ UNCHANGED <<setup, mem, tmp, answered, boot>>
  BY DEF RenameFails
<1>3. /\ others \in [setup.threads -> Threads]
      /\ \A u \in setup.threads : /\ others[u].pc = thread[u].pc /\ others[u].write = thread[u].write
                                  /\ others[u].engine = thread[u].engine
  <2>1. ASSUME NEW u \in setup.threads
        PROVE  /\ others[u] \in Threads
               /\ others[u].pc = thread[u].pc /\ others[u].write = thread[u].write
               /\ others[u].engine = thread[u].engine
    <3>1. thread[u] \in Threads
      BY <1>1, ThreadFacts
    <3>2. others[u] = thread[u] \/ others[u] = [thread[u] EXCEPT !.at = "gone"]
      OBVIOUS
    <3> HIDE DEF others
    <3> QED
      BY <3>1, <3>2 DEF Threads
  <2> QED
    BY <2>1
<1> HIDE DEF others
<1> DEFINE x == [others[t] EXCEPT !.pc = "again"]
<1>4. /\ x \in Threads /\ x.pc = "again"
      /\ x.write = thread[t].write /\ x.engine = thread[t].engine
  BY <1>3 DEF Threads, Steps
<1>5. thread' = [others EXCEPT ![t] = x]
  BY <1>2, <1>3 DEF Threads
<1> HIDE DEF x
<1>6. thread'[t] = x /\ \A u \in setup.threads \ {t} : thread'[u] = others[u]
  BY <1>3, <1>5
<1>7. FilesTyped'
  <2>1. f \in Engines /\ Missing \in Files
    BY <1>1, ThreadFacts DEF Missing, Files
  <2>2. path' \in [Engines -> Files]
    BY <1>1, <1>2, <2>1 DEF FilesTyped
  <2>3. thread' \in [setup.threads -> Threads]
    BY <1>3, <1>4, <1>5
  <2> QED
    BY <1>1, <1>2, <2>2, <2>3 DEF FilesTyped
<1>8. Works(t)
  BY <1>2, <1>3, <1>4, <1>6 DEF Works
<1>9. ~Lone(t)
  <2>1. ASSUME Saving(t) PROVE FALSE
    BY <1>1, <1>2, <2>1, ThreadFacts, DumpFacts DEF Saving
  <2> QED
    BY <2>1 DEF FilesInv
<1>10. Alone => Lone(t)
  BY <1>1, <1>2, AloneFacts DEF Lone
<1> QED
  BY <1>7, <1>8, <1>9, <1>10, WorkKeepsInv


-----------------------------------------------------------------------------
\* A write is handled by an idle thread while nobody quits; the process is up.
LEMMA HandleKeepsInv ==
  ASSUME FilesInv, NEW t \in setup.threads, NEW e \in Engines, NEW d \in BOOLEAN,
         Handle(t, e, d), Alone => d = FALSE
  PROVE  FilesInv'
<1>1. FilesTyped
  BY DEF FilesInv
<1> DEFINE x == [Idle EXCEPT !.pc = "dump", !.engine = e, !.write = mem[e].writes + 1]
           m == [writes |-> mem[e].writes + 1, damaged |-> mem[e].damaged \/ d]
<1>2. /\ boot = "up" /\ thread[t].pc = "idle" /\ ~Quitting
      /\ mem' = [mem EXCEPT ![e] = m]
      /\ thread' = [thread EXCEPT ![t] = x]
      /\ UNCHANGED <<setup, path, tmp, answered, boot>>
  BY <1>1 DEF Handle, FilesTyped
<1>3. mem[e].writes \in Nat /\ mem[e].damaged \in BOOLEAN
  BY <1>1, DumpFacts
<1>4. m \in States /\ m.writes = mem[e].writes + 1 /\ m.damaged = (mem[e].damaged \/ d)
  BY <1>3 DEF States
<1>5. x \in Threads /\ x.pc = "dump" /\ x.file = 1 /\ x.engine = e /\ x.write = mem[e].writes + 1
  <2>1. Idle \in Threads /\ Idle.file = 1
    BY OrderFacts DEF Idle
  <2>2. mem[e].writes + 1 \in Nat
    BY <1>3
  <2> QED
    BY <2>1, <2>2 DEF Threads, Steps
<1> HIDE DEF x, m
<1>6. FilesTyped'
  BY <1>1, <1>2, <1>4, <1>5 DEF FilesTyped
<1>7. thread'[t] = x /\ \A u \in setup.threads \ {t} : thread'[u] = thread[u]
  BY <1>1, <1>2 DEF FilesTyped
<1>8. \A u \in setup.threads : ~(thread[u].pc # "idle" /\ thread[u].write = 0)
  BY <1>2 DEF Quitting
<1>9. QuitsAlone' /\ QuitSavesAll'
  BY <1>2, <1>3, <1>5, <1>7, <1>8 DEF QuitsAlone, QuitSavesAll
<1>10. ASSUME NEW u \in setup.threads, Lone(u)' PROVE Saving(u)'
  <2>1. u = t
    BY <1>2, <1>7, <1>8, <1>10 DEF Lone
  <2>2. Len(EngineOrder) \in Nat
    BY OrderFacts
  <2> QED
    BY <1>5, <1>7, <2>1, <2>2 DEF Saving
<1>11. ASSUME Alone' PROVE Behind'
  <2>1. Alone /\ Behind /\ setup.threads = {t}
    BY <1>1, <1>2, <1>11, AloneFacts DEF Alone, FilesInv
  <2>2. mem'[e] = m /\ \A c \in Engines \ {e} : mem'[c] = mem[c]
    BY <1>1, <1>2 DEF FilesTyped
  <2>3. m.damaged = FALSE
    BY <1>4, <2>1 DEF Behind
  <2>4. ASSUME NEW c \in Engines
        PROVE  /\ mem'[c].damaged = FALSE /\ path'[c].damaged = FALSE
               /\ answered'[c] <= path'[c].writes /\ path'[c].writes <= mem'[c].writes
    <3>1. path[c].writes \in Nat /\ path' = path /\ answered' = answered
      BY <1>1, <1>2 DEF FilesTyped, Files
    <3>2. /\ mem[c].damaged = FALSE /\ path[c].damaged = FALSE
          /\ answered[c] <= path[c].writes /\ path[c].writes <= mem[c].writes
      BY <2>1 DEF Behind
    <3>3. CASE c = e
      BY <1>3, <1>4, <2>2, <2>3, <3>1, <3>2, <3>3
    <3>4. CASE c # e
      BY <2>2, <3>1, <3>2, <3>4
    <3> QED
      BY <3>3, <3>4
  <2>5. thread'[t].write = mem'[thread'[t].engine].writes
    BY <1>4, <1>5, <1>7, <2>2
  <2> QED
    BY <1>2, <2>1, <2>4, <2>5 DEF Behind
<1> QED
  BY <1>2, <1>6, <1>9, <1>10, <1>11 DEF FilesInv

\* A thread that wrote alone and is about to answer has saved every engine.
LEMMA AnswerIsSaved ==
  ASSUME FilesInv, NEW t \in setup.threads, Lone(t), thread[t].pc = "answer"
  PROVE  \A e \in Engines : path[e] = Dump(mem[e])
<1>1. Saving(t)
  BY DEF FilesInv
<1> QED
  BY <1>1, OrderFacts DEF Saving, Saved

LEMMA SendAnswerKeepsInv ==
  ASSUME FilesInv, NEW t \in setup.threads, SendAnswer(t)
  PROVE  FilesInv'
<1>1. FilesTyped
  BY DEF FilesInv
<1>2. /\ boot = "up" /\ thread[t].pc = "answer"
      /\ thread' = [thread EXCEPT ![t] = Idle]
      /\ UNCHANGED <<setup, mem, path, tmp>>
      /\ \/ thread[t].write = 0 /\ boot' = "quit" /\ answered' = answered
         \/ /\ thread[t].write # 0 /\ boot' = boot
            /\ answered' = [answered EXCEPT ![thread[t].engine] = Larger(@, thread[t].write)]
  BY DEF SendAnswer
<1>3. Idle \in Threads /\ Idle.pc = "idle"
  BY OrderFacts DEF Idle
<1>4. FilesTyped'
  <2>1. thread[t].engine \in Engines /\ thread[t].write \in Nat
    BY <1>1, ThreadFacts
  <2>2. answered' \in [Engines -> Nat]
    BY <1>1, <1>2, <2>1 DEF FilesTyped, Larger
  <2> QED
    BY <1>1, <1>2, <1>3, <2>2 DEF FilesTyped
<1>5. thread'[t] = Idle /\ \A u \in setup.threads \ {t} : thread'[u] = thread[u]
  BY <1>1, <1>2 DEF FilesTyped
<1>6. \A u \in setup.threads \ {t} : ~(thread[u].pc # "idle" /\ thread[u].write = 0)
  BY <1>2 DEF FilesInv, QuitsAlone
<1>7. thread[t].write = 0 => \A u \in setup.threads \ {t} : thread[u].pc = "idle"
  BY <1>2 DEF FilesInv, QuitsAlone
<1>8. QuitsAlone'
  BY <1>2, <1>3, <1>5, <1>6, <1>7 DEF QuitsAlone
<1>9. \A u \in setup.threads : ~Lone(u)'
  BY <1>2, <1>3, <1>5, <1>6 DEF Lone
<1>10. QuitSavesAll'
  <2>1. CASE thread[t].write = 0
    <3>1. \A e \in Engines : path[e] = Dump(mem[e])
      BY <1>2, <2>1, AnswerIsSaved DEF Lone
    <3> QED
      BY <1>2, <3>1 DEF QuitSavesAll
  <2>2. CASE thread[t].write # 0
    BY <1>2, <2>2 DEF QuitSavesAll
  <2> QED
    BY <2>1, <2>2
<1>11. ASSUME Alone' PROVE Behind'
  <2>1. Alone /\ Behind /\ setup.threads = {t}
    BY <1>1, <1>2, <1>11, AloneFacts DEF Alone, FilesInv
  <2>2. \A e \in Engines : path[e] = Dump(mem[e])
    BY <1>2, <2>1, AnswerIsSaved DEF Lone
  <2>3. ASSUME NEW e \in Engines PROVE answered'[e] <= path[e].writes
    <3>1. answered[e] \in Nat /\ thread[t].write \in Nat /\ answered[e] <= path[e].writes
      BY <1>1, <2>1, ThreadFacts DEF FilesTyped, Behind
    <3>2. thread[t].write # 0 => thread[t].write = mem[thread[t].engine].writes
      BY <1>2, <2>1 DEF Behind
    <3>3. path[e].writes = mem[e].writes
      BY <1>1, <2>2, DumpFacts
    <3> QED
      BY <1>1, <1>2, <3>1, <3>2, <3>3 DEF FilesTyped, Larger
  <2> QED
    BY <1>2, <1>3, <1>5, <2>1, <2>3 DEF Behind
<1> QED
  BY <1>2, <1>4, <1>8, <1>9, <1>10, <1>11 DEF FilesInv


\* Quitting starts when every thread is idle.
LEMMA QuitKeepsInv ==
  ASSUME FilesInv, Quit
  PROVE  FilesInv'
<1>1. FilesTyped
  BY DEF FilesInv
<1> DEFINE x == [Idle EXCEPT !.pc = "dump"]
<1>2. /\ boot = "up" /\ \A u \in setup.threads : thread[u].pc = "idle"
      /\ UNCHANGED <<setup, mem, path, tmp, answered, boot>>
  BY DEF Quit
<1>3. PICK t \in setup.threads : thread' = [thread EXCEPT ![t] = x]
  BY DEF Quit
<1>4. x \in Threads /\ x.pc = "dump" /\ x.file = 1 /\ x.write = 0
  BY OrderFacts DEF Threads, Idle, Steps
<1> HIDE DEF x
<1>5. FilesTyped'
  BY <1>1, <1>2, <1>3, <1>4 DEF FilesTyped
<1>6. thread'[t] = x /\ \A u \in setup.threads \ {t} : thread'[u] = thread[u]
  BY <1>1, <1>3 DEF FilesTyped
<1>7. QuitsAlone' /\ QuitSavesAll'
  BY <1>2, <1>6 DEF QuitsAlone, QuitSavesAll
<1>8. ASSUME NEW u \in setup.threads, Lone(u)' PROVE Saving(u)'
  <2>1. u = t
    BY <1>2, <1>6, <1>8 DEF Lone
  <2>2. Len(EngineOrder) \in Nat
    BY OrderFacts
  <2> QED
    BY <1>4, <1>6, <2>1, <2>2 DEF Saving
<1>9. ASSUME Alone' PROVE Behind'
  <2>1. Behind
    BY <1>2, <1>9 DEF Alone, FilesInv
  <2> QED
    BY <1>2, <1>4, <1>6, <2>1 DEF Behind
<1> QED
  BY <1>2, <1>5, <1>7, <1>8, <1>9 DEF FilesInv

\* A crash ends the threads and leaves the files as they are.
LEMMA DieKeepsInv ==
  ASSUME FilesInv, Die
  PROVE  FilesInv'
<1>1. FilesTyped
  BY DEF FilesInv
<1>2. /\ boot' = "crashed" /\ thread' = [t \in setup.threads |-> Idle]
      /\ UNCHANGED <<setup, mem, path, tmp, answered>>
  BY DEF Die
<1>3. Idle \in Threads /\ Idle.pc = "idle"
  BY OrderFacts DEF Idle
<1>4. FilesTyped'
  BY <1>1, <1>2, <1>3 DEF FilesTyped
<1>5. \A t \in setup.threads : thread'[t].pc = "idle"
  BY <1>2, <1>3
<1>6. QuitsAlone' /\ QuitSavesAll'
  BY <1>2, <1>5 DEF QuitsAlone, QuitSavesAll
<1>7. \A t \in setup.threads : ~Lone(t)'
  BY <1>5 DEF Lone
<1>8. ASSUME Alone' PROVE Behind'
  <2>1. Behind
    BY <1>2, <1>8 DEF Alone, FilesInv
  <2> QED
    BY <1>2, <1>5, <2>1 DEF Behind
<1> QED
  BY <1>2, <1>4, <1>6, <1>7, <1>8 DEF FilesInv

\* What load_all gives: states that read back, and with no damaged file the one
\* every file holds.
LEMMA LoadedFacts ==
  ASSUME FilesTyped
  PROVE  /\ Loaded(path) \in [Engines -> States]
         /\ (\A e \in Engines : path[e].damaged = FALSE) =>
              \A e \in Engines : Loaded(path)[e] = [writes |-> path[e].writes, damaged |-> FALSE]
<1> DEFINE Index(e) == CHOOSE i \in DOMAIN EngineOrder : EngineOrder[i] = e
<1>1. ASSUME NEW e \in Engines
      PROVE  Loaded(path)[e] = IF Stops(path, Index(e)) THEN Fresh
                               ELSE [writes |-> path[e].writes, damaged |-> FALSE]
  BY <1>1 DEF Loaded
<1>2. ASSUME NEW e \in Engines PROVE Index(e) \in 1 .. Len(EngineOrder)
  <2>1. DOMAIN EngineOrder = 1 .. Len(EngineOrder)
    BY SideStateAssumption
  <2> QED
    BY <1>2, <2>1, OrderFacts
<1> HIDE DEF Index
<1>3. \A e \in Engines : Loaded(path)[e] \in States
  <2>1. Fresh \in States
    BY DEF Fresh, States
  <2>2. \A e \in Engines : [writes |-> path[e].writes, damaged |-> FALSE] \in States
    BY DEF FilesTyped, Files, States
  <2> QED
    BY <1>1, <2>1, <2>2
<1>4. Loaded(path) = [e \in Engines |-> Loaded(path)[e]]
  BY DEF Loaded
<1>5. ASSUME \A e \in Engines : path[e].damaged = FALSE, NEW e \in Engines
      PROVE  Loaded(path)[e] = [writes |-> path[e].writes, damaged |-> FALSE]
  <2>1. ~Stops(path, Index(e))
    BY <1>2, <1>5, OrderFacts DEF Stops
  <2> QED
    BY <1>1, <2>1
<1>6. Loaded(path) \in [Engines -> States]
  BY <1>3, <1>4
<1> QED
  BY <1>5, <1>6

\* A start loads the files; no thread is at work.
LEMMA StartKeepsInv ==
  ASSUME FilesInv, Start
  PROVE  FilesInv'
<1>1. FilesTyped
  BY DEF FilesInv
<1>2. /\ boot # "up" /\ boot' = "up" /\ mem' = Loaded(path)
      /\ UNCHANGED <<setup, path, tmp, thread, answered>>
  BY DEF Start
<1>3. FilesTyped'
  BY <1>1, <1>2, LoadedFacts DEF FilesTyped
<1>4. \A t \in setup.threads : thread[t].pc = "idle"
  BY <1>2 DEF FilesInv, QuitsAlone
<1>5. QuitsAlone' /\ QuitSavesAll'
  BY <1>2, <1>4 DEF QuitsAlone, QuitSavesAll
<1>6. \A t \in setup.threads : ~Lone(t)'
  BY <1>2, <1>4 DEF Lone
<1>7. ASSUME Alone' PROVE Behind'
  <2>1. Behind
    BY <1>2, <1>7 DEF Alone, FilesInv
  <2>2. \A e \in Engines : path[e].damaged = FALSE
    BY <2>1 DEF Behind
  <2>3. ASSUME NEW e \in Engines
        PROVE  /\ mem'[e].damaged = FALSE /\ path'[e].damaged = FALSE
               /\ answered'[e] <= path'[e].writes /\ path'[e].writes <= mem'[e].writes
    <3>1. mem'[e] = [writes |-> path[e].writes, damaged |-> FALSE]
      BY <1>1, <1>2, <2>2, LoadedFacts
    <3>2. mem'[e].damaged = FALSE /\ mem'[e].writes = path[e].writes /\ path[e].writes \in Nat
      BY <1>1, <3>1 DEF FilesTyped, Files
    <3> QED
      BY <1>2, <2>1, <3>2 DEF Behind
  <2> QED
    BY <1>2, <1>4, <2>3 DEF Behind
<1> QED
  BY <1>2, <1>3, <1>5, <1>6, <1>7 DEF FilesInv


-----------------------------------------------------------------------------
LEMMA InitInv ==
  ASSUME FilesInit
  PROVE  FilesInv
<1>1. FilesTyped
  <2>1. Fresh \in States /\ Missing \in Files /\ Idle \in Threads
    BY OrderFacts DEF Fresh, States, Missing, Files
  <2> QED
    BY <2>1 DEF FilesInit, FilesTyped
<1>2. \A t \in setup.threads : thread[t].pc = "idle"
  BY DEF FilesInit, Idle
<1>3. boot = "up"
  BY DEF FilesInit
<1>4. Behind
  <2>1. \A e \in Engines : /\ mem[e].damaged = FALSE /\ path[e].damaged = FALSE
                           /\ mem[e].writes = 0 /\ path[e].writes = 0 /\ answered[e] = 0
    BY DEF FilesInit, Fresh, Missing
  <2> QED
    BY <1>2, <2>1 DEF Behind
<1> QED
  BY <1>1, <1>2, <1>3, <1>4 DEF FilesInv, QuitsAlone, Lone, QuitSavesAll

LEMMA NextInv ==
  ASSUME FilesInv, [FilesNext]_stateVars
  PROVE  FilesInv'
<1>1. ASSUME NEW t \in setup.threads, ThreadStep(t) PROVE FilesInv'
  <2>1. ASSUME NEW e \in Engines, Handle(t, e, FALSE) PROVE FilesInv'
    BY <2>1, HandleKeepsInv
  <2>2. ASSUME NEW e \in Engines, e \in setup.damaging, Handle(t, e, TRUE) PROVE FilesInv'
    <3>1. ~Alone
      BY <2>2 DEF Alone
    <3> QED
      BY <2>2, <3>1, HandleKeepsInv
  <2> QED
    BY <1>1, <2>1, <2>2, DumpStateKeepsInv, OpenTmpKeepsInv, WriteTmpKeepsInv, RenameKeepsInv,
       RenameFailsKeepsInv, GiveUpKeepsInv, SendAnswerKeepsInv DEF ThreadStep
<1>2. CASE UNCHANGED stateVars
  BY <1>2, Zenon DEF stateVars, FilesInv, FilesTyped, QuitsAlone, Lone, Saving, Saved, File,
     QuitSavesAll, Alone, Behind
<1> QED
  BY <1>1, <1>2, QuitKeepsInv, DieKeepsInv, StartKeepsInv DEF FilesNext

\* The invariant the results rest on.
THEOREM FilesInvariant == SideSpec => []FilesInv
<1>1. FilesInit => FilesInv
  BY InitInv
<1>2. FilesInv /\ [FilesNext]_stateVars => FilesInv'
  BY NextInv
<1> QED
  BY <1>1, <1>2, PTL DEF SideSpec

\* After a clean shutdown every file holds its engine's state, for any number of
\* connections and whatever their threads did to each other's files before.
THEOREM ShutdownSaves == SideSpec => []QuitSavesAll
<1>1. FilesInv => QuitSavesAll
  BY DEF FilesInv
<1> QED
  BY <1>1, FilesInvariant, PTL


-----------------------------------------------------------------------------
(* The refinement of DurableStore: its variables as Durable sets them.     *)

MemoryBar ==
  [e \in Engines |-> IF ~Alone THEN 0 ELSE IF boot = "up" THEN mem[e].writes ELSE path[e].writes]

DiskBar == [e \in Engines |-> IF Alone THEN path[e].writes ELSE 0]

AckedBar == [e \in Engines |-> IF Alone THEN answered[e] ELSE 0]

\* A step of DurableStore or a stutter, in these terms.
StoreStep ==
  \/ MemoryBar' = MemoryBar /\ DiskBar' = DiskBar /\ AckedBar' = AckedBar
  \/ \E e \in Engines : /\ MemoryBar' = [MemoryBar EXCEPT ![e] = @ + 1]
                        /\ DiskBar' = DiskBar /\ AckedBar' = AckedBar
  \/ \E e \in Engines : /\ DiskBar' = [DiskBar EXCEPT ![e] = MemoryBar[e]]
                        /\ MemoryBar' = MemoryBar /\ AckedBar' = AckedBar
  \/ \E e \in Engines : /\ DiskBar[e] = MemoryBar[e]
                        /\ AckedBar' = [AckedBar EXCEPT ![e] = MemoryBar[e]]
                        /\ MemoryBar' = MemoryBar /\ DiskBar' = DiskBar
  \/ MemoryBar' = DiskBar /\ DiskBar' = DiskBar /\ AckedBar' = AckedBar

LEMMA StoreStepIsStoreNext ==
  ASSUME StoreStep
  PROVE  [Durable!StoreNext]_(Durable!storeVars)
BY DEF StoreStep, MemoryBar, DiskBar, AckedBar, Durable!StoreNext, Durable!storeVars,
       Durable!Write, Durable!Flush, Durable!Acknowledge, Durable!Crash

\* With several connections the abstract variables never move.
LEMMA NotAloneStutters ==
  ASSUME ~Alone, setup' = setup
  PROVE  StoreStep
BY DEF StoreStep, MemoryBar, DiskBar, AckedBar, Alone

\* A step that changes neither the memory nor the files nor the answers.
LEMMA QuietStutters ==
  ASSUME UNCHANGED <<setup, mem, path, answered, boot>>
  PROVE  StoreStep
BY DEF StoreStep, MemoryBar, DiskBar, AckedBar, Alone


\* Handling a write is Write.
LEMMA HandleRefines ==
  ASSUME FilesInv, Alone, NEW t \in setup.threads, NEW e \in Engines,
         NEW d \in BOOLEAN, Handle(t, e, d)
  PROVE  StoreStep
<1>1. /\ boot = "up" /\ boot' = boot /\ setup' = setup /\ path' = path /\ answered' = answered
      /\ mem' = [mem EXCEPT ![e] = [writes |-> mem[e].writes + 1, damaged |-> mem[e].damaged \/ d]]
  BY DEF Handle, FilesInv, FilesTyped
<1>2. mem'[e].writes = mem[e].writes + 1 /\ \A c \in Engines \ {e} : mem'[c] = mem[c]
  BY <1>1 DEF FilesInv, FilesTyped
<1>3. MemoryBar' = [MemoryBar EXCEPT ![e] = @ + 1]
  <2>1. MemoryBar = [c \in Engines |-> mem[c].writes]
    BY <1>1 DEF MemoryBar
  <2>2. MemoryBar' = [c \in Engines |-> mem'[c].writes]
    BY <1>1 DEF MemoryBar, Alone
  <2>3. \A c \in Engines : mem'[c].writes = IF c = e THEN mem[e].writes + 1 ELSE mem[c].writes
    BY <1>2
  <2> QED
    BY <2>1, <2>2, <2>3
<1>4. DiskBar' = DiskBar /\ AckedBar' = AckedBar
  BY <1>1 DEF DiskBar, AckedBar, Alone
<1> QED
  BY <1>3, <1>4 DEF StoreStep

\* Filling path.tmp is a stutter: the only thread has not renamed it.
LEMMA WriteTmpRefines ==
  ASSUME FilesInv, Alone, NEW t \in setup.threads, WriteTmp(t)
  PROVE  StoreStep
<1>1. thread[t].pc = "write" /\ UNCHANGED <<setup, mem, answered, boot>>
  BY DEF WriteTmp
<1>2. Saving(t)
  BY <1>1, AloneFacts DEF FilesInv, Lone
<1>3. path' = path
  BY <1>1, <1>2 DEF WriteTmp, Saving
<1> QED
  BY <1>1, <1>3, QuietStutters

\* The rename is Flush.
LEMMA RenameRefines ==
  ASSUME FilesInv, Alone, NEW t \in setup.threads, Rename(t)
  PROVE  StoreStep
<1> DEFINE f == File(t)
<1>1. /\ thread[t].pc \in {"rename", "again"} /\ path' = [path EXCEPT ![f] = tmp[f]]
      /\ UNCHANGED <<setup, mem, answered, boot>>
  BY DEF Rename
<1>2. f \in Engines /\ FilesTyped
  BY ThreadFacts DEF FilesInv
<1>3. Saving(t)
  BY <1>1, AloneFacts DEF FilesInv, Lone
<1>4. tmp[f] = Dump(mem[f])
  BY <1>1, <1>3 DEF Saving
<1>5. boot = "up"
  BY <1>1 DEF FilesInv, QuitsAlone
<1>6. path'[f].writes = mem[f].writes /\ \A e \in Engines \ {f} : path'[e] = path[e]
  BY <1>1, <1>2, <1>4, DumpFacts DEF FilesTyped
<1> HIDE DEF f
<1>7. DiskBar' = [DiskBar EXCEPT ![f] = MemoryBar[f]]
  <2>1. DiskBar = [c \in Engines |-> path[c].writes] /\ MemoryBar[f] = mem[f].writes
    BY <1>2, <1>5 DEF DiskBar, MemoryBar
  <2>2. DiskBar' = [c \in Engines |-> path'[c].writes]
    BY <1>1 DEF DiskBar, Alone
  <2>3. \A c \in Engines : path'[c].writes = IF c = f THEN mem[f].writes ELSE path[c].writes
    BY <1>6
  <2> QED
    BY <2>1, <2>2, <2>3
<1>8. MemoryBar' = MemoryBar /\ AckedBar' = AckedBar
  BY <1>1, <1>5 DEF MemoryBar, AckedBar, Alone
<1> QED
  BY <1>2, <1>7, <1>8 DEF StoreStep

\* Answering a write is Acknowledge; the end of a shutdown, after which memory is
\* what the files hold, is Crash.
LEMMA SendAnswerRefines ==
  ASSUME FilesInv, Alone, NEW t \in setup.threads, SendAnswer(t)
  PROVE  StoreStep
<1>1. /\ boot = "up" /\ thread[t].pc = "answer"
      /\ UNCHANGED <<setup, mem, path>>
  BY DEF SendAnswer
<1>2. FilesTyped /\ Behind
  BY DEF FilesInv
<1>3. DiskBar' = DiskBar
  BY <1>1 DEF DiskBar, Alone
<1>4. CASE thread[t].write = 0
  <2>1. boot' = "quit" /\ answered' = answered
    BY <1>4 DEF SendAnswer
  <2>2. MemoryBar' = DiskBar /\ AckedBar' = AckedBar
    BY <1>1, <2>1 DEF MemoryBar, DiskBar, AckedBar, Alone
  <2> QED
    BY <1>3, <2>2 DEF StoreStep
<1>5. CASE thread[t].write # 0
  <2> DEFINE e == thread[t].engine
  <2>1. boot' = boot /\ answered' = [answered EXCEPT ![e] = Larger(@, thread[t].write)]
    BY <1>5 DEF SendAnswer
  <2>2. /\ e \in Engines /\ thread[t].write = mem[e].writes /\ answered[e] <= path[e].writes
        /\ thread[t].write \in Nat /\ answered[e] \in Nat
    BY <1>1, <1>2, <1>5, ThreadFacts DEF Behind, FilesTyped
  <2>3. path[e].writes = mem[e].writes
    <3>1. path[e] = Dump(mem[e])
      BY <1>1, <1>2, <2>2, AnswerIsSaved, AloneFacts DEF Lone
    <3> QED
      BY <1>2, <2>2, <3>1, DumpFacts
  <2>4. answered' = [answered EXCEPT ![e] = mem[e].writes]
    <3>1. Larger(answered[e], thread[t].write) = thread[t].write
      BY <2>2, <2>3 DEF Larger
    <3> HIDE DEF e
    <3> QED
      BY <2>1, <2>2, <3>1
  <2> HIDE DEF e
  <2>5. AckedBar' = [AckedBar EXCEPT ![e] = MemoryBar[e]]
    BY <1>1, <1>2, <2>2, <2>4 DEF AckedBar, MemoryBar, Alone, FilesTyped
  <2>6. MemoryBar' = MemoryBar
    BY <1>1, <2>1 DEF MemoryBar, Alone
  <2>7. DiskBar[e] = MemoryBar[e]
    BY <1>1, <2>2, <2>3 DEF DiskBar, MemoryBar
  <2> QED
    BY <1>3, <2>2, <2>5, <2>6, <2>7 DEF StoreStep
<1> QED
  BY <1>4, <1>5

\* Dying is Crash, and the next start brings back what the files held.
LEMMA DieRefines ==
  ASSUME Alone, Die
  PROVE  StoreStep
<1>1. boot' = "crashed" /\ UNCHANGED <<setup, mem, path, answered>>
  BY DEF Die
<1>2. MemoryBar' = DiskBar /\ DiskBar' = DiskBar /\ AckedBar' = AckedBar
  BY <1>1 DEF MemoryBar, DiskBar, AckedBar, Alone
<1> QED
  BY <1>2 DEF StoreStep

LEMMA StartRefines ==
  ASSUME FilesInv, Alone, Start
  PROVE  StoreStep
<1>1. /\ boot # "up" /\ boot' = "up" /\ mem' = Loaded(path)
      /\ UNCHANGED <<setup, path, answered>>
  BY DEF Start
<1>2. \A e \in Engines : path[e].damaged = FALSE
  BY DEF FilesInv, Behind
<1>3. \A e \in Engines : Loaded(path)[e] = [writes |-> path[e].writes, damaged |-> FALSE]
  BY <1>2, LoadedFacts DEF FilesInv
<1>4. \A e \in Engines : mem'[e].writes = path[e].writes
  <2>1. ASSUME NEW e \in Engines PROVE mem'[e].writes = path[e].writes
    <3>1. mem'[e] = [writes |-> path[e].writes, damaged |-> FALSE]
      BY <1>1, <1>3
    <3> QED
      BY <3>1
  <2> QED
    BY <2>1
<1>5. MemoryBar' = MemoryBar /\ DiskBar' = DiskBar /\ AckedBar' = AckedBar
  BY <1>1, <1>4 DEF MemoryBar, DiskBar, AckedBar, Alone
<1> QED
  BY <1>5 DEF StoreStep


LEMMA NextRefines ==
  ASSUME FilesInv, [FilesNext]_stateVars
  PROVE  StoreStep
<1>1. CASE UNCHANGED stateVars
  BY <1>1, QuietStutters DEF stateVars
<1>2. CASE FilesNext /\ ~Alone
  <2>1. setup' = setup
    BY <1>2 DEF FilesNext, ThreadStep, Handle, DumpState, OpenTmp, WriteTmp, Rename, RenameFails,
                GiveUp, SendAnswer, Quit, Die, Start
  <2> QED
    BY <1>2, <2>1, NotAloneStutters
<1>3. CASE FilesNext /\ Alone
  <2>1. ASSUME NEW t \in setup.threads, ThreadStep(t) PROVE StoreStep
    <3>1. CASE DumpState(t) \/ OpenTmp(t) \/ GiveUp(t)
      BY <3>1, QuietStutters DEF DumpState, OpenTmp, GiveUp
    <3>2. ~RenameFails(t)
      <4> SUFFICES ASSUME RenameFails(t) PROVE FALSE
        OBVIOUS
      <4>1. thread[t].pc = "rename" /\ tmp[File(t)] = Missing
        BY DEF RenameFails
      <4>2. Saving(t)
        BY <1>3, <4>1, AloneFacts DEF FilesInv, Lone
      <4> QED
        BY <4>1, <4>2, ThreadFacts, DumpFacts DEF Saving, FilesInv
    <3> QED
      BY <1>3, <2>1, <3>1, <3>2, HandleRefines, WriteTmpRefines, RenameRefines, SendAnswerRefines
      DEF ThreadStep
  <2>2. CASE Quit
    BY <2>2, QuietStutters DEF Quit
  <2> QED
    BY <1>3, <2>1, <2>2, DieRefines, StartRefines DEF FilesNext
<1> QED
  BY <1>1, <1>2, <1>3

\* The files of a node with one connection implement DurableStore, through any
\* crash between two steps of a save and any restart: an answered write is on
\* disk, and a start brings back a state that was in memory.
THEOREM FilesAreDurable == SideSpec => ImplementsDurableStore
<1>1. FilesInit => Durable!StoreInit
  <2> SUFFICES ASSUME FilesInit PROVE Durable!StoreInit
    OBVIOUS
  <2>1. \A e \in Engines : mem[e].writes = 0 /\ path[e].writes = 0 /\ answered[e] = 0
    BY DEF FilesInit, Fresh, Missing
  <2> QED
    BY <2>1 DEF Durable!StoreInit
<1>2. FilesInv /\ [FilesNext]_stateVars => [Durable!StoreNext]_(Durable!storeVars)
  BY NextRefines, StoreStepIsStoreNext
<1> QED
  BY <1>1, <1>2, FilesInvariant, PTL DEF SideSpec, ImplementsDurableStore, Durable!StoreSpec
=============================================================================
