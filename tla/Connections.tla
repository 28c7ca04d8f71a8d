----------------------------- MODULE Connections -----------------------------
(***************************************************************************)
(* The socket server behind the RPC and P2P ports (rpc_network_server.cpp):*)
(* a worker thread accepts connections under a total and a per-address     *)
(* cap, one thread serves each, a few of them may buffer large lines, and  *)
(* stop() joins them all.                                                  *)
(*                                                                         *)
(* Requests, answers and timeouts are left out: a client's thread may end  *)
(* its loop at any moment.  The critical sections of clients_mu_ are one   *)
(* step each; the atomic counter of large slots is read and exchanged in   *)
(* separate steps.                                                         *)
(***************************************************************************)
EXTENDS Integers, FiniteSets, Functions

CONSTANTS Clients, Addr,            \* per connection, the address it comes from
          kMaxInboundConnections, Cap,      \* per address
          kMaxLargeSlots

None == "none"
Addresses == Range(Addr)

ASSUME ConnAssumption ==
    /\ IsFiniteSet(Clients) /\ None \notin Clients /\ DOMAIN Addr = Clients
    /\ kMaxInboundConnections \in Nat /\ kMaxLargeSlots \in Nat /\ Cap \in [Addresses -> Nat]

VARIABLES running,      \* running_
          worker,       \* "none", "binding", "accepting", "admitted", "ended"
          fresh,        \* the connection the worker has admitted
          thread,       \* per connection: what its thread does
          cur,          \* per thread, the local copy of large_slots_
          active, per_ip, large_slots, client_threads,
          stopping      \* "no", "worker", "clients", "returned"

connVars == <<running, worker, fresh, thread, cur, active, per_ip, large_slots, client_threads, stopping>>

ConnInit ==
    /\ running = FALSE /\ worker = "none" /\ fresh = None /\ stopping = "no"
    /\ thread = [c \in Clients |-> "none"] /\ cur = [c \in Clients |-> 0]
    /\ active = 0 /\ per_ip = [a \in Addresses |-> 0] /\ large_slots = 0 /\ client_threads = {}

---------------------------------------------------------------------------
start ==
    /\ ~running /\ worker = "none"
    /\ running' = TRUE /\ worker' = "binding"
    /\ UNCHANGED <<fresh, thread, cur, active, per_ip, large_slots, client_threads, stopping>>

\* run_loop listens, or ends at once when the address is taken or stop() was faster.
Bind(ok) ==
    /\ worker = "binding"
    /\ worker' = (IF ok /\ running THEN "accepting" ELSE "ended")
    /\ running' = (IF ok THEN running ELSE FALSE)
    /\ UNCHANGED <<fresh, thread, cur, active, per_ip, large_slots, client_threads, stopping>>

\* A connection over a cap is closed, and the loop looks at running_ again.
Drop == worker' = (IF running THEN "accepting" ELSE "ended") /\ UNCHANGED <<fresh, active, per_ip>>

\* Mutant: the total is checked and the address is not.
admitAnyAddress(c) ==
    IF active >= kMaxInboundConnections THEN Drop
    ELSE /\ fresh' = c /\ worker' = "admitted" /\ active' = active + 1
         /\ per_ip' = [per_ip EXCEPT ![Addr[c]] = @ + 1]

admit(c) ==
    IF active >= kMaxInboundConnections \/ per_ip[Addr[c]] >= Cap[Addr[c]]
    THEN Drop
    ELSE /\ fresh' = c /\ worker' = "admitted" /\ active' = active + 1
         /\ per_ip' = [per_ip EXCEPT ![Addr[c]] = @ + 1]

\* accept() returns a connection; the loop looked at running_ before it waited.
Accept(c) ==
    /\ worker = "accepting" /\ thread[c] = "none"
    /\ admit(c)
    /\ UNCHANGED <<running, thread, cur, large_slots, client_threads, stopping>>

\* reap_finished_locked, and the thread of the new connection.
Spawn ==
    /\ worker = "admitted"
    /\ client_threads' = {c \in client_threads : thread[c] # "done"} \union {fresh}
    /\ thread' = [thread EXCEPT ![fresh] = "load"]
    /\ worker' = (IF running THEN "accepting" ELSE "ended") /\ fresh' = None
    /\ UNCHANGED <<running, cur, active, per_ip, large_slots, stopping>>

\* accept() fails: the loop ends when the server no longer runs.
AcceptFails ==
    /\ worker = "accepting" /\ ~running
    /\ worker' = "ended"
    /\ UNCHANGED <<running, fresh, thread, cur, active, per_ip, large_slots, client_threads, stopping>>

---------------------------------------------------------------------------
\* serve_client: a large slot is looked for ...
LoadSlots(c) ==
    /\ thread[c] = "load"
    /\ cur' = [cur EXCEPT ![c] = large_slots]
    /\ thread' = [thread EXCEPT ![c] = "exchange"]
    /\ UNCHANGED <<running, worker, fresh, active, per_ip, large_slots, client_threads, stopping>>

\* Mutant: the counter is stored without a comparison.
ExchangeBlindly(c) ==
    IF cur[c] >= kMaxLargeSlots
    THEN thread' = [thread EXCEPT ![c] = "small"] /\ UNCHANGED <<cur, large_slots>>
    ELSE /\ thread' = [thread EXCEPT ![c] = "large"]
         /\ large_slots' = cur[c] + 1 /\ UNCHANGED cur

\* ... by compare and exchange, which reads again when it fails.
Exchange(c) ==
    IF cur[c] >= kMaxLargeSlots
    THEN thread' = [thread EXCEPT ![c] = "small"] /\ UNCHANGED <<cur, large_slots>>
    ELSE IF large_slots = cur[c]
    THEN /\ thread' = [thread EXCEPT ![c] = "large"]
         /\ large_slots' = cur[c] + 1 /\ UNCHANGED cur
    ELSE cur' = [cur EXCEPT ![c] = large_slots] /\ UNCHANGED <<thread, large_slots>>

TakeSlot(c) ==
    /\ thread[c] = "exchange"
    /\ Exchange(c)
    /\ UNCHANGED <<running, worker, fresh, active, per_ip, client_threads, stopping>>

\* The connection is closed, and SlotGuard gives the slot back.
CloseClient(c) ==
    /\ thread[c] \in {"small", "large"}
    /\ large_slots' = (IF thread[c] = "large" THEN large_slots - 1 ELSE large_slots)
    /\ thread' = [thread EXCEPT ![c] = "served"]
    /\ UNCHANGED <<running, worker, fresh, cur, active, per_ip, client_threads, stopping>>

release(c) ==
    /\ thread[c] = "served"
    /\ per_ip' = [per_ip EXCEPT ![Addr[c]] = @ - 1]
    /\ active' = (IF active > 0 THEN active - 1 ELSE 0)
    /\ thread' = [thread EXCEPT ![c] = "released"]
    /\ UNCHANGED <<running, worker, fresh, cur, large_slots, client_threads, stopping>>

\* done->store(true), the last thing a thread does
Done(c) ==
    /\ thread[c] = "released"
    /\ thread' = [thread EXCEPT ![c] = "done"]
    /\ UNCHANGED <<running, worker, fresh, cur, active, per_ip, large_slots, client_threads, stopping>>

\* A joined thread's connection is over; its descriptor may serve another.
Reuse(c) ==
    /\ thread[c] = "done" /\ c \notin client_threads
    /\ thread' = [thread EXCEPT ![c] = "none"]
    /\ UNCHANGED <<running, worker, fresh, cur, active, per_ip, large_slots, client_threads, stopping>>

---------------------------------------------------------------------------
\* stop() does nothing when the server does not run; else it ends the loop ...
stop ==
    /\ stopping = "no" /\ worker # "none"
    /\ running' = FALSE
    /\ stopping' = (IF running THEN "worker" ELSE "returned")
    /\ UNCHANGED <<worker, fresh, thread, cur, active, per_ip, large_slots, client_threads>>

\* Mutant: the client threads are joined without waiting for the worker.
JoinWorkerNot == stopping = "worker" /\ stopping' = "clients"

\* ... joins the worker ...
JoinWorker == stopping = "worker" /\ worker = "ended" /\ stopping' = "clients"

StopWaits ==
    /\ JoinWorker
    /\ UNCHANGED <<running, worker, fresh, thread, cur, active, per_ip, large_slots, client_threads>>

\* ... and then the client threads.
join_client_threads ==
    /\ stopping = "clients" /\ \A c \in client_threads : thread[c] = "done"
    /\ client_threads' = {} /\ stopping' = "returned"
    /\ UNCHANGED <<running, worker, fresh, thread, cur, active, per_ip, large_slots>>

ConnNext ==
    \/ start \/ Spawn \/ AcceptFails \/ stop \/ StopWaits \/ join_client_threads
    \/ \E ok \in BOOLEAN : Bind(ok)
    \/ \E c \in Clients : \/ Accept(c) \/ LoadSlots(c) \/ TakeSlot(c) \/ CloseClient(c)
                          \/ release(c) \/ Done(c) \/ Reuse(c)

ConnSpec == ConnInit /\ [][ConnNext]_connVars

---------------------------------------------------------------------------
Busy == {c \in Clients : thread[c] \notin {"none", "released", "done"}}

CapsHold ==
    /\ Cardinality(Busy) <= kMaxInboundConnections
    /\ \A a \in Addresses : Cardinality({c \in Busy : Addr[c] = a}) <= Cap[a]

LargeSlotsHold == Cardinality({c \in Clients : thread[c] = "large"}) <= kMaxLargeSlots

QuietAfterStop ==
    stopping = "returned" => \A c \in Clients : thread[c] \in {"none", "done"} /\ fresh # c

\* The caps hold for the threads that really serve, not only in the counters: in
\* all and from each address, however connections come and go; "only
\* kMaxLargeSlots connections at once may buffer a full 4 MiB line", while threads
\* race for the counter; and once stop() has returned no connection is being
\* served, so what the handler refers to may be destroyed.
ConnectionsAreBounded == CapsHold /\ LargeSlotsHold /\ QuietAfterStop
==============================================================================
