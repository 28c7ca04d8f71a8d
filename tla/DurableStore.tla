---------------------------- MODULE DurableStore ----------------------------
(***************************************************************************)
(* What the operator's guide promises of the side state: "flushed after    *)
(* each successful write and again on shutdown".  A store keeps for every  *)
(* engine a state in memory and one on disk, here the number of writes     *)
(* they hold.  A write is acknowledged once the disk holds it; the disk    *)
(* changes in one step; a crash loses what only memory held.               *)
(***************************************************************************)
EXTENDS Naturals

CONSTANT Engines

VARIABLES
    memory,    \* writes in memory, per engine
    disk,      \* writes on disk, per engine
    acked      \* writes acknowledged to clients, per engine

storeVars == <<memory, disk, acked>>

StoreInit == memory = [e \in Engines |-> 0] /\ disk = memory /\ acked = memory

Write(e) == memory' = [memory EXCEPT ![e] = @ + 1] /\ UNCHANGED <<disk, acked>>

Flush(e) == disk' = [disk EXCEPT ![e] = memory[e]] /\ UNCHANGED <<memory, acked>>

Acknowledge(e) ==
    /\ disk[e] = memory[e]
    /\ acked' = [acked EXCEPT ![e] = memory[e]]
    /\ UNCHANGED <<memory, disk>>

Crash == memory' = disk /\ UNCHANGED <<disk, acked>>

StoreNext == (\E e \in Engines : Write(e) \/ Flush(e) \/ Acknowledge(e)) \/ Crash

StoreSpec == StoreInit /\ [][StoreNext]_storeVars

=============================================================================
