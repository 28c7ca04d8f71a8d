------------------------------ MODULE PowSearch ------------------------------
(***************************************************************************)
(* search_block_pow (miner.cpp): threads try the nonces tid, tid + n,      *)
(* tid + 2n ... until one of them wins the compare-and-swap on found, the  *)
(* deadline passes, a stop is requested or the nonces run out.  The        *)
(* winner's two stores are steps of their own; the caller joins all        *)
(* threads before it reads them.  Whether a nonce meets the target is      *)
(* drawn at the start: golden is the set of those that do.                 *)
(***************************************************************************)
EXTENDS Naturals, FiniteSets

CONSTANTS MaxThreads,   \* hardware_concurrency
          MaxNonce      \* numeric_limits<uint64_t>::max()

ASSUME PowAssumption == MaxNonce \in Nat /\ MaxThreads \in 1..MaxNonce

VARIABLES threads, golden, pc, nonce, found, winning_nonce, winning_hash,
          deadline_hit, stopped, late, stop_, out

powVars == <<threads, golden, pc, nonce, found, winning_nonce, winning_hash,
             deadline_hit, stopped, late, stop_, out>>

Pending == [found |-> FALSE, nonce |-> 0, hash |-> 0, error |-> "none"]

\* resolve_mine_threads, and a header hash is named by the nonce it is of.
PowInit ==
    /\ threads \in 1..MaxThreads
    /\ golden \in SUBSET (0..MaxNonce)
    /\ pc = [t \in 0..threads - 1 |-> "check"]
    /\ nonce = [t \in 0..threads - 1 |-> t]
    /\ found = FALSE /\ winning_nonce = 0 /\ winning_hash = 0
    /\ deadline_hit = FALSE /\ stopped = FALSE /\ late = FALSE /\ stop_ = FALSE
    /\ out = Pending

Go(t, label) == pc' = [pc EXCEPT ![t] = label]

\* The loop's condition and the two early exits.
Check(t) ==
    /\ pc[t] = "check"
    /\ IF nonce[t] >= MaxNonce \/ found
       THEN Go(t, "done") /\ UNCHANGED <<stopped, deadline_hit>>
       ELSE IF stop_
       THEN Go(t, "done") /\ stopped' = TRUE /\ UNCHANGED deadline_hit
       ELSE IF late
       THEN Go(t, "done") /\ deadline_hit' = TRUE /\ UNCHANGED stopped
       ELSE Go(t, "hash") /\ UNCHANGED <<stopped, deadline_hit>>
    /\ UNCHANGED <<threads, golden, nonce, found, winning_nonce, winning_hash, late, stop_, out>>

\* nonce += step on a 64-bit unsigned integer
Wrap(n) == n % (MaxNonce + 1)

\* Mutant: the next nonce is one further on.
HashStridingTooFar(t) ==
    /\ pc[t] = "hash"
    /\ IF nonce[t] \in golden
       THEN Go(t, "swap") /\ UNCHANGED nonce
       ELSE Go(t, "check") /\ nonce' = [nonce EXCEPT ![t] = Wrap(@ + threads + 1)]
    /\ UNCHANGED <<threads, golden, found, winning_nonce, winning_hash, deadline_hit, stopped, late, stop_, out>>

Hash(t) ==
    /\ pc[t] = "hash"
    /\ IF nonce[t] \in golden
       THEN Go(t, "swap") /\ UNCHANGED nonce
       ELSE Go(t, "check") /\ nonce' = [nonce EXCEPT ![t] = Wrap(@ + threads)]
    /\ UNCHANGED <<threads, golden, found, winning_nonce, winning_hash, deadline_hit, stopped, late, stop_, out>>

\* Mutant: found is stored without looking whether another thread was first.
SwapBlindly(t) ==
    /\ pc[t] = "swap"
    /\ found' = TRUE
    /\ Go(t, "store")
    /\ UNCHANGED <<threads, golden, nonce, winning_nonce, winning_hash, deadline_hit, stopped, late, stop_, out>>

Swap(t) ==
    /\ pc[t] = "swap"
    /\ found' = TRUE
    /\ Go(t, IF found THEN "done" ELSE "store")
    /\ UNCHANGED <<threads, golden, nonce, winning_nonce, winning_hash, deadline_hit, stopped, late, stop_, out>>

StoreNonce(t) ==
    /\ pc[t] = "store"
    /\ winning_nonce' = nonce[t]
    /\ Go(t, "store_hash")
    /\ UNCHANGED <<threads, golden, nonce, found, winning_hash, deadline_hit, stopped, late, stop_, out>>

StoreHash(t) ==
    /\ pc[t] = "store_hash"
    /\ winning_hash' = nonce[t]
    /\ Go(t, "done")
    /\ UNCHANGED <<threads, golden, nonce, found, winning_nonce, deadline_hit, stopped, late, stop_, out>>

\* After the joins: what mine_block makes of the result.
Join ==
    /\ out = Pending /\ \A t \in DOMAIN pc : pc[t] = "done"
    /\ out' = [found |-> found, nonce |-> winning_nonce, hash |-> winning_hash,
               error |-> CASE found -> "ok" [] ~found /\ stopped -> "stopped"
                           [] ~found /\ ~stopped /\ deadline_hit -> "deadline" [] OTHER -> "exhausted"]
    /\ UNCHANGED <<threads, golden, pc, nonce, found, winning_nonce, winning_hash, deadline_hit, stopped, late, stop_>>

Deadline ==
    /\ ~late /\ late' = TRUE
    /\ UNCHANGED <<threads, golden, pc, nonce, found, winning_nonce, winning_hash, deadline_hit, stopped, stop_, out>>

RequestStop ==
    /\ ~stop_ /\ stop_' = TRUE
    /\ UNCHANGED <<threads, golden, pc, nonce, found, winning_nonce, winning_hash, deadline_hit, stopped, late, out>>

PowNext ==
    \/ \E t \in DOMAIN pc : Check(t) \/ Hash(t) \/ Swap(t) \/ StoreNonce(t) \/ StoreHash(t)
    \/ Join \/ Deadline \/ RequestStop

PowSpec == PowInit /\ [][PowNext]_powVars

---------------------------------------------------------------------------
WinnerIsWhole == out.found => out.nonce \in golden /\ out.hash = out.nonce

ExhaustedMeansNone == out.error = "exhausted" => golden \subseteq {MaxNonce}

\* The nonce and the hash search_block_pow returns belong together and meet the
\* target, though several threads may find one at the same moment; and a search
\* that ends without a stop or the deadline has tried every nonce: the threads'
\* strides leave none out, also when a nonce wraps around.
SearchResultIsTrue == WinnerIsWhole /\ ExhaustedMeansNone
=============================================================================
