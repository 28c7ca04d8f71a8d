---------------------------- MODULE ThreadProofs ----------------------------
(***************************************************************************)
(* Proofs about the threads of a node, for any number of them: those that  *)
(* search for a nonce (PowSearch) and those that serve connections         *)
(* (Connections).                                                          *)
(***************************************************************************)
EXTENDS PowSearch, Connections, FiniteSetTheorems, TLAPS

---------------------------------------------------------------------------
(* The search for a nonce.                                                 *)

Workers == 0..threads - 1

Labels == {"check", "hash", "swap", "store", "store_hash", "done"}

PowTypeOK ==
    /\ threads \in Nat \ {0} /\ golden \subseteq 0..MaxNonce
    /\ pc \in [Workers -> Labels] /\ nonce \in [Workers -> 0..MaxNonce]
    /\ found \in BOOLEAN /\ deadline_hit \in BOOLEAN /\ stopped \in BOOLEAN

\* The thread that won the compare-and-swap, and how much of its result is stored.
Winner(t) ==
    /\ nonce[t] \in golden
    /\ \/ pc[t] = "store"
       \/ pc[t] = "store_hash" /\ winning_nonce = nonce[t]
       \/ pc[t] = "done" /\ winning_nonce = nonce[t] /\ winning_hash = nonce[t]

Storing(t) == pc[t] \in {"store", "store_hash"}

\* Only the winner stores, and until there is one nobody does.
OneWinner ==
    /\ found => \E t \in Workers : Winner(t) /\ \A u \in Workers \ {t} : ~Storing(u)
    /\ ~found => \A t \in Workers : ~Storing(t)

\* The golden nonces of a thread's residue class are ahead of it, or it has been
\* through them all and its nonce has wrapped around.
ClassTried(t) ==
    \/ \A g \in golden : g % threads = t => g = MaxNonce
    \/ nonce[t] % threads = t /\ \A g \in golden : g % threads = t => g >= nonce[t]

PowInv ==
    /\ PowTypeOK
    /\ OneWinner
    /\ \A t \in Workers :
         /\ pc[t] = "swap" => nonce[t] \in golden
         /\ ~found => ClassTried(t)
         /\ pc[t] = "done" => found \/ stopped \/ deadline_hit \/ nonce[t] >= MaxNonce
    /\ SearchResultIsTrue

\* A remainder is determined by its range.
LEMMA ModUnique ==
  ASSUME NEW n \in Nat \ {0}, NEW k \in Nat, NEW m \in Nat, m < n
  PROVE  (n * k + m) % n = m
<1> DEFINE x == n * k + m
           d == x \div n
           r == x % n
<1>0. x \in Nat
  OBVIOUS
<1>1. d \in Int /\ r \in Int /\ x = n * d + r /\ 0 <= r /\ r < n
  <2> HIDE DEF x
  <2> QED
    BY <1>0
<1>2. n * d + r = n * k + m
  BY <1>1
<1> HIDE DEF x, d, r
<1>3. ~(k < d)
  <2> SUFFICES ASSUME k < d PROVE FALSE
    OBVIOUS
  <2>1. n * (k + 1) <= n * d
    BY <1>1
  <2>2. n * (k + 1) = n * k + n
    OBVIOUS
  <2> QED
    BY <1>1, <1>2, <2>1, <2>2
<1>4. ~(d < k)
  <2> SUFFICES ASSUME d < k PROVE FALSE
    OBVIOUS
  <2>1. n * (d + 1) <= n * k
    BY <1>1
  <2>2. n * (d + 1) = n * d + n
    BY <1>1
  <2> QED
    BY <1>1, <1>2, <2>1, <2>2
<1>5. d = k
  BY <1>1, <1>3, <1>4
<1>6. r = m
  BY <1>1, <1>2, <1>5
<1> QED
  BY <1>6 DEF r, x

\* Two numbers of one residue class are at least the modulus apart.
LEMMA NextOfClass ==
  ASSUME NEW n \in Nat \ {0}, NEW a \in Nat
  PROVE  /\ (a + n) % n = a % n
         /\ \A b \in Nat : a % n = b % n /\ a < b => a + n <= b
<1> DEFINE p == a \div n
           m == a % n
<1>1. p \in Nat /\ m \in Nat /\ a = n * p + m /\ m < n
  OBVIOUS
<1>2. (a + n) % n = a % n
  <2> HIDE DEF p, m
  <2>1. n * (p + 1) + m = a + n
    BY <1>1
  <2>2. (n * (p + 1) + m) % n = m
    BY <1>1, ModUnique
  <2> QED
    BY <2>1, <2>2 DEF m
<1>3. ASSUME NEW b \in Nat, a % n = b % n, a < b PROVE a + n <= b
  <2> DEFINE q == b \div n
  <2>1. q \in Int /\ b = n * q + m
    BY <1>3
  <2> HIDE DEF p, q, m
  <2>2. p < q
    BY <1>1, <1>3, <2>1
  <2>3. n * (p + 1) <= n * q
    BY <1>1, <2>1, <2>2
  <2>4. n * (p + 1) = n * p + n
    BY <1>1
  <2> QED
    BY <1>1, <2>1, <2>3, <2>4
<1> QED
  BY <1>2, <1>3

LEMMA PowInitInv == PowInit => PowInv
<1> SUFFICES ASSUME PowInit PROVE PowInv
  OBVIOUS
<1>1. /\ threads \in Nat \ {0} /\ golden \subseteq 0..MaxNonce
      /\ pc = [t \in Workers |-> "check"] /\ nonce = [t \in Workers |-> t]
      /\ found = FALSE /\ deadline_hit = FALSE /\ stopped = FALSE /\ out = Pending
  BY PowAssumption DEF PowInit, Workers
<1>2. threads - 1 <= MaxNonce
  BY PowAssumption DEF PowInit
<1>3. PowTypeOK
  <2>1. \A t \in Workers : t \in 0..MaxNonce
    BY <1>1, <1>2, PowAssumption DEF Workers
  <2>2. pc \in [Workers -> Labels] /\ nonce \in [Workers -> 0..MaxNonce]
    BY <1>1, <2>1 DEF Labels
  <2> QED
    BY <1>1, <2>2 DEF PowTypeOK
<1>4. OneWinner
  BY <1>1 DEF OneWinner, Storing
<1>5. ASSUME NEW t \in Workers PROVE ClassTried(t)
  <2>1. t \in Nat /\ t < threads /\ threads \in Nat \ {0} /\ nonce[t] = t
    BY <1>1, <1>5 DEF Workers
  <2>2. t % threads = t
    <3>1. (threads * 0 + t) % threads = t
      BY <2>1, ModUnique
    <3>2. threads * 0 + t = t
      BY <2>1
    <3> QED
      BY <3>1, <3>2
  <2>3. ASSUME NEW g \in golden, g % threads = t PROVE g >= t
    <3>1. g \in Nat
      BY <1>1, <2>3, PowAssumption
    <3> QED
      BY <2>1, <2>3, <3>1
  <2> QED
    BY <2>1, <2>2, <2>3 DEF ClassTried
<1>6. SearchResultIsTrue
  BY <1>1 DEF SearchResultIsTrue, WinnerIsWhole, ExhaustedMeansNone, Pending
<1> QED
  BY <1>1, <1>3, <1>4, <1>5, <1>6 DEF PowInv

LEMMA PowNextInv == PowInv /\ [PowNext]_powVars => PowInv'
<1> SUFFICES ASSUME PowInv, [PowNext]_powVars PROVE PowInv'
  OBVIOUS
<1>0. /\ PowTypeOK /\ OneWinner /\ SearchResultIsTrue
      /\ \A t \in Workers : /\ pc[t] = "swap" => nonce[t] \in golden
                            /\ ~found => ClassTried(t)
                            /\ pc[t] = "done" => found \/ stopped \/ deadline_hit \/ nonce[t] >= MaxNonce
      /\ DOMAIN pc = Workers
  BY DEF PowInv, PowTypeOK
<1>t. /\ threads \in Nat \ {0} /\ golden \subseteq 0..MaxNonce /\ MaxNonce \in Nat
      /\ pc \in [Workers -> Labels] /\ nonce \in [Workers -> 0..MaxNonce]
      /\ found \in BOOLEAN /\ deadline_hit \in BOOLEAN /\ stopped \in BOOLEAN
  BY <1>0, PowAssumption DEF PowTypeOK
\* What a step of the thread t has to show.
<1>s. ASSUME NEW t \in Workers, NEW label \in Labels, Go(t, label),
             threads' = threads, golden' = golden, out' = out, nonce' \in [Workers -> 0..MaxNonce],
             \A u \in Workers \ {t} : nonce'[u] = nonce[u],
             found' \in BOOLEAN, deadline_hit' \in BOOLEAN, stopped' \in BOOLEAN,
             found => found', stopped => stopped', deadline_hit => deadline_hit',
             OneWinner',
             label = "swap" => nonce'[t] \in golden,
             ~found' => ClassTried(t)',
             label = "done" => found' \/ stopped' \/ deadline_hit' \/ nonce'[t] >= MaxNonce
      PROVE  PowInv'
  <2>1. Workers' = Workers
    BY <1>s DEF Workers
  <2>2. pc' \in [Workers -> Labels] /\ pc'[t] = label /\ \A u \in Workers \ {t} : pc'[u] = pc[u]
    BY <1>t, <1>s DEF Go
  <2>3. PowTypeOK'
    BY <1>t, <1>s, <2>1, <2>2 DEF PowTypeOK
  <2>4. SearchResultIsTrue'
    BY <1>0, <1>s DEF SearchResultIsTrue, WinnerIsWhole, ExhaustedMeansNone
  <2>5. ASSUME NEW u \in Workers \ {t}
        PROVE  /\ pc'[u] = "swap" => nonce'[u] \in golden'
               /\ ~found' => ClassTried(u)'
               /\ pc'[u] = "done" => found' \/ stopped' \/ deadline_hit' \/ nonce'[u] >= MaxNonce
    BY <1>0, <1>s, <2>2, <2>5 DEF ClassTried
  <2>6. ASSUME NEW u \in Workers
        PROVE  /\ pc'[u] = "swap" => nonce'[u] \in golden'
               /\ ~found' => ClassTried(u)'
               /\ pc'[u] = "done" => found' \/ stopped' \/ deadline_hit' \/ nonce'[u] >= MaxNonce
    BY <1>s, <2>2, <2>5
  <2> QED
    BY <1>s, <2>1, <2>3, <2>4, <2>6 DEF PowInv
\* A step that neither stores nor decides the race.
<1>w. ASSUME NEW t \in Workers, NEW label \in Labels, Go(t, label),
             threads' = threads, golden' = golden, found' = found,
             winning_nonce' = winning_nonce, winning_hash' = winning_hash,
             \A u \in Workers \ {t} : nonce'[u] = nonce[u],
             pc[t] \in {"check", "hash", "swap"}, label \in {"check", "hash", "swap", "done"}
      PROVE  OneWinner'
  <2>1. Workers' = Workers
    BY <1>w DEF Workers
  <2>2. pc'[t] = label /\ \A u \in Workers \ {t} : pc'[u] = pc[u]
    BY <1>t, <1>w DEF Go
  <2>3. \A u \in Workers : Storing(u)' => Storing(u)
    BY <1>w, <2>2 DEF Storing
  <2>4. \A u \in Workers : Winner(u) => Winner(u)'
    BY <1>w, <2>2 DEF Winner
  <2>5. CASE found
    <3>1. PICK u \in Workers : Winner(u) /\ \A v \in Workers \ {u} : ~Storing(v)
      BY <1>0, <2>5 DEF OneWinner
    <3> QED
      BY <1>w, <2>1, <2>3, <2>4, <2>5, <3>1 DEF OneWinner
  <2>6. CASE ~found
    BY <1>0, <1>w, <2>1, <2>3, <2>6 DEF OneWinner
  <2> QED
    BY <2>5, <2>6
<1>1. ASSUME NEW t \in Workers, Check(t) PROVE PowInv'
  <2>1. PICK label \in {"done", "hash"} :
          /\ Go(t, label)
          /\ label = "done" => found \/ stopped' \/ deadline_hit' \/ nonce[t] >= MaxNonce
          /\ stopped' = stopped \/ stopped' = TRUE
          /\ deadline_hit' = deadline_hit \/ deadline_hit' = TRUE
    BY <1>1 DEF Check
  <2>2. /\ pc[t] = "check" /\ label \in Labels
        /\ threads' = threads /\ golden' = golden /\ nonce' = nonce /\ found' = found /\ out' = out
        /\ winning_nonce' = winning_nonce /\ winning_hash' = winning_hash
    BY <1>1 DEF Check, Labels
  <2>3. OneWinner'
    BY <1>1, <1>w, <2>1, <2>2
  <2>4. ~found' => ClassTried(t)'
    BY <1>0, <1>1, <2>2 DEF ClassTried
  <2>5. /\ found' \in BOOLEAN /\ (found => found')
        /\ stopped' \in BOOLEAN /\ (stopped => stopped')
        /\ deadline_hit' \in BOOLEAN /\ (deadline_hit => deadline_hit')
    <3>1. found' \in BOOLEAN /\ (found => found')
      BY <1>t, <2>2, Zenon
    <3>2. stopped' \in BOOLEAN /\ (stopped => stopped')
      <4>1. stopped \in BOOLEAN
        BY <1>t
      <4>2. CASE stopped' = stopped
        BY <4>1, <4>2, Zenon
      <4>3. CASE stopped' = TRUE
        BY <4>3, Zenon
      <4> QED
        BY <2>1, <4>2, <4>3, Zenon
    <3>3. deadline_hit' \in BOOLEAN /\ (deadline_hit => deadline_hit')
      <4>1. deadline_hit \in BOOLEAN
        BY <1>t
      <4>2. CASE deadline_hit' = deadline_hit
        BY <4>1, <4>2, Zenon
      <4>3. CASE deadline_hit' = TRUE
        BY <4>3, Zenon
      <4> QED
        BY <2>1, <4>2, <4>3, Zenon
    <3> QED
      BY <3>1, <3>2, <3>3, Zenon
  <2>6. label = "done" => found' \/ stopped' \/ deadline_hit' \/ nonce'[t] >= MaxNonce
    BY <2>1, <2>2, Zenon
  <2>7. nonce' \in [Workers -> 0..MaxNonce] /\ label # "swap"
    BY <1>t, <2>1, <2>2
  <2>8. \A u \in Workers \ {t} : nonce'[u] = nonce[u]
    BY <2>2, Zenon
  <2> QED
    BY <1>1, <1>s, <2>1, <2>2, <2>3, <2>4, <2>5, <2>6, <2>7, <2>8, Zenon
<1>2. ASSUME NEW t \in Workers, Hash(t) PROVE PowInv'
  <2>0. /\ pc[t] = "hash" /\ threads' = threads /\ golden' = golden /\ found' = found /\ out' = out
        /\ winning_nonce' = winning_nonce /\ winning_hash' = winning_hash
        /\ stopped' = stopped /\ deadline_hit' = deadline_hit
    BY <1>2 DEF Hash
  <2>1. CASE nonce[t] \in golden
    <3>1. Go(t, "swap") /\ nonce' = nonce /\ "swap" \in Labels
      BY <1>2, <2>1 DEF Hash, Labels
    <3>2. OneWinner'
      BY <1>2, <1>w, <2>0, <3>1
    <3>3. ~found' => ClassTried(t)'
      BY <1>0, <1>2, <2>0, <3>1 DEF ClassTried
    <3> QED
      BY <1>2, <1>s, <1>t, <2>0, <2>1, <3>1, <3>2, <3>3
  <2>2. CASE nonce[t] \notin golden
    <3> DEFINE a == nonce[t]
               b == Wrap(a + threads)
    <3>1. Go(t, "check") /\ nonce' = [nonce EXCEPT ![t] = b] /\ "check" \in Labels
      BY <1>2, <2>2 DEF Hash, Labels
    <3>2. a \in Nat /\ a <= MaxNonce
      BY <1>2, <1>t
    <3>3. b \in 0..MaxNonce /\ (a + threads <= MaxNonce => b = a + threads)
      <4>1. a + threads \in Nat /\ MaxNonce + 1 \in Nat \ {0}
        BY <1>t, <3>2
      <4>2. b \in 0..MaxNonce
        BY <1>t, <4>1 DEF Wrap
      <4>3. ASSUME a + threads <= MaxNonce PROVE b = a + threads
        <5>1. ((MaxNonce + 1) * 0 + (a + threads)) % (MaxNonce + 1) = a + threads
          BY <1>t, <4>1, <4>3, ModUnique
        <5>2. (MaxNonce + 1) * 0 + (a + threads) = a + threads
          BY <4>1
        <5> QED
          BY <5>1, <5>2 DEF Wrap
      <4> QED
        BY <4>2, <4>3
    <3> HIDE DEF b
    <3>4. /\ nonce' \in [Workers -> 0..MaxNonce] /\ nonce'[t] = b
          /\ \A u \in Workers \ {t} : nonce'[u] = nonce[u]
      BY <1>2, <1>t, <3>1, <3>3
    <3>5. OneWinner'
      BY <1>2, <1>w, <2>0, <3>1, <3>4
    <3>6. ASSUME ~found PROVE ClassTried(t)'
      <4>1. CASE \A g \in golden : g % threads = t => g = MaxNonce
        BY <2>0, <4>1 DEF ClassTried
      <4>2. CASE a % threads = t /\ \A g \in golden : g % threads = t => g >= a
        <5>1. \A g \in golden : g % threads = t => g >= a + threads
          <6> SUFFICES ASSUME NEW g \in golden, g % threads = t PROVE g >= a + threads
            OBVIOUS
          <6>1. g \in Nat /\ g >= a /\ g # a
            BY <1>t, <2>2, <4>2
          <6>2. a < g /\ a % threads = g % threads
            BY <3>2, <4>2, <6>1
          <6>3. a + threads <= g
            BY <1>t, <3>2, <6>1, <6>2, NextOfClass
          <6> QED
            BY <1>t, <3>2, <6>1, <6>3
        <5>2. CASE a + threads <= MaxNonce
          <6>1. b = a + threads /\ b % threads = t
            BY <1>t, <3>2, <3>3, <4>2, <5>2, NextOfClass
          <6> QED
            BY <2>0, <3>4, <5>1, <6>1 DEF ClassTried
        <5>3. CASE ~(a + threads <= MaxNonce)
          <6>1. \A g \in golden : g % threads # t
            BY <1>t, <3>2, <5>1, <5>3
          <6> QED
            BY <2>0, <6>1 DEF ClassTried
        <5> QED
          BY <5>2, <5>3
      <4> QED
        BY <1>0, <1>2, <3>6, <4>1, <4>2 DEF ClassTried
    <3> QED
      BY <1>2, <1>s, <1>t, <2>0, <3>1, <3>4, <3>5, <3>6
  <2> QED
    BY <2>1, <2>2
<1>3. ASSUME NEW t \in Workers, Swap(t) PROVE PowInv'
  <2>0. /\ pc[t] = "swap" /\ found' = TRUE /\ Go(t, IF found THEN "done" ELSE "store")
        /\ threads' = threads /\ golden' = golden /\ nonce' = nonce /\ out' = out
        /\ winning_nonce' = winning_nonce /\ winning_hash' = winning_hash
        /\ stopped' = stopped /\ deadline_hit' = deadline_hit
    BY <1>3 DEF Swap
  <2>1. (IF found THEN "done" ELSE "store") \in Labels
    BY DEF Labels
  <2>2. OneWinner'
    <3>1. CASE found
      BY <1>3, <1>w, <2>0, <2>1, <3>1
    <3>2. CASE ~found
      <4>1. Workers' = Workers
        BY <2>0 DEF Workers
      <4>2. pc'[t] = "store" /\ \A u \in Workers \ {t} : pc'[u] = pc[u]
        BY <1>3, <1>t, <2>0, <3>2 DEF Go
      <4>3. Winner(t)'
        BY <1>0, <1>3, <2>0, <4>2 DEF Winner
      <4>4. \A u \in Workers \ {t} : ~Storing(u)'
        BY <1>0, <3>2, <4>2 DEF OneWinner, Storing
      <4> QED
        BY <1>3, <2>0, <4>1, <4>3, <4>4 DEF OneWinner
    <3> QED
      BY <3>1, <3>2
  <2> QED
    BY <1>3, <1>s, <1>t, <2>0, <2>1, <2>2
<1>4. ASSUME NEW t \in Workers, StoreNonce(t) \/ StoreHash(t) PROVE PowInv'
  <2>0. PICK label \in {"store_hash", "done"} :
          /\ Go(t, label)
          /\ \/ /\ pc[t] = "store" /\ label = "store_hash"
                /\ winning_nonce' = nonce[t] /\ winning_hash' = winning_hash
             \/ /\ pc[t] = "store_hash" /\ label = "done"
                /\ winning_nonce' = winning_nonce /\ winning_hash' = nonce[t]
    BY <1>4 DEF StoreNonce, StoreHash
  <2>1. /\ threads' = threads /\ golden' = golden /\ nonce' = nonce /\ out' = out
        /\ found' = found /\ stopped' = stopped /\ deadline_hit' = deadline_hit
        /\ label \in Labels /\ label # "swap"
    BY <1>4 DEF StoreNonce, StoreHash, Labels
  <2>2. found /\ Winner(t) /\ \A u \in Workers \ {t} : ~Storing(u)
    BY <1>0, <1>4, <1>t, <2>0 DEF OneWinner, Storing
  <2>3. pc'[t] = label /\ \A u \in Workers \ {t} : pc'[u] = pc[u]
    BY <1>4, <1>t, <2>0 DEF Go
  <2>4. Winner(t)'
    BY <2>0, <2>1, <2>2, <2>3 DEF Winner
  <2>5. OneWinner'
    BY <1>4, <2>1, <2>2, <2>3, <2>4 DEF OneWinner, Storing, Workers
  <2> QED
    BY <1>4, <1>s, <1>t, <2>0, <2>1, <2>2, <2>5
\* Steps of the caller and of the world leave the threads alone.
<1>f. ASSUME UNCHANGED <<threads, golden, pc, nonce, found, winning_nonce, winning_hash, deadline_hit, stopped>>,
             SearchResultIsTrue'
      PROVE  PowInv'
  BY <1>0, <1>f DEF PowInv, PowTypeOK, Workers, OneWinner, Winner, Storing, ClassTried
<1>5. CASE Join
  <2>1. /\ \A t \in Workers : pc[t] = "done"
        /\ UNCHANGED <<threads, golden, pc, nonce, found, winning_nonce, winning_hash, deadline_hit, stopped>>
        /\ out' = [found |-> found, nonce |-> winning_nonce, hash |-> winning_hash, error |-> out'.error]
        /\ out'.error = "exhausted" => ~found /\ ~stopped /\ ~deadline_hit
    <3>1. \A t \in Workers : pc[t] = "done"
      BY <1>0, <1>5 DEF Join
    <3>2. UNCHANGED <<threads, golden, pc, nonce, found, winning_nonce, winning_hash, deadline_hit, stopped>>
      BY <1>5 DEF Join
    <3>3. out' = [found |-> found, nonce |-> winning_nonce, hash |-> winning_hash,
                  error |-> CASE found -> "ok" [] ~found /\ stopped -> "stopped"
                              [] ~found /\ ~stopped /\ deadline_hit -> "deadline" [] OTHER -> "exhausted"]
      BY <1>5 DEF Join
    <3> QED
      BY <1>t, <3>1, <3>2, <3>3
  <2>2. WinnerIsWhole'
    <3> SUFFICES ASSUME found PROVE out'.nonce \in golden /\ out'.hash = out'.nonce
      BY <2>1 DEF WinnerIsWhole
    <3>1. PICK t \in Workers : Winner(t)
      BY <1>0 DEF OneWinner
    <3>2. winning_nonce = nonce[t] /\ winning_hash = nonce[t] /\ nonce[t] \in golden
      BY <2>1, <3>1 DEF Winner
    <3>3. out'.nonce = winning_nonce /\ out'.hash = winning_hash
      BY <2>1
    <3> QED
      BY <3>2, <3>3
  <2>3. ExhaustedMeansNone'
    <3> SUFFICES ASSUME out'.error = "exhausted", NEW g \in golden PROVE g = MaxNonce
      BY <2>1 DEF ExhaustedMeansNone
    <3> DEFINE t == g % threads
    <3>1. g \in Nat /\ g <= MaxNonce
      BY <1>t
    <3>2. t \in Workers
      BY <1>t, <3>1 DEF Workers
    <3>3. nonce[t] >= MaxNonce /\ ClassTried(t) /\ nonce[t] \in Nat
      BY <1>0, <1>t, <2>1, <3>2
    <3>4. g = MaxNonce \/ g >= nonce[t]
      BY <3>3 DEF ClassTried
    <3> HIDE DEF t
    <3> QED
      BY <1>t, <3>1, <3>3, <3>4
  <2> QED
    BY <1>f, <2>1, <2>2, <2>3 DEF SearchResultIsTrue
<1>6. CASE Deadline \/ RequestStop \/ UNCHANGED powVars
  <2>1. /\ UNCHANGED <<threads, golden, pc, nonce, found, winning_nonce, winning_hash, deadline_hit, stopped>>
        /\ out' = out
    BY <1>6 DEF Deadline, RequestStop, powVars
  <2>2. SearchResultIsTrue'
    BY <1>0, <2>1 DEF SearchResultIsTrue, WinnerIsWhole, ExhaustedMeansNone
  <2> QED
    BY <1>f, <2>1, <2>2
<1> QED
  BY <1>0, <1>1, <1>2, <1>3, <1>4, <1>5, <1>6 DEF PowNext

\* Of the threads that find a nonce at the same moment one wins and its nonce and
\* hash are returned together; a search that gives up by itself has tried every
\* nonce: for any number of threads and any width of the nonce.
THEOREM SearchIsSound == PowSpec => []SearchResultIsTrue
<1>1. PowInv => SearchResultIsTrue
  BY DEF PowInv
<1> QED
  BY <1>1, PowInitInv, PowNextInv, PTL DEF PowSpec

---------------------------------------------------------------------------
(* The threads that serve connections.                                     *)

Serving == {"load", "exchange", "small", "large", "served"}

ConnTypeOK ==
    /\ running \in BOOLEAN
    /\ worker \in {"none", "binding", "accepting", "admitted", "ended"}
    /\ stopping \in {"no", "worker", "clients", "returned"}
    /\ thread \in [Clients -> Serving \cup {"none", "released", "done"}]
    /\ cur \in [Clients -> Nat]
    /\ client_threads \subseteq Clients

\* The connections that count: those a thread serves and the one the worker has
\* admitted and not yet given a thread.
Occupied == {c \in Clients : thread[c] \in Serving \/ c = fresh}

From(a) == {c \in Occupied : Addr[c] = a}

Large == {c \in Clients : thread[c] = "large"}

\* The counters are exact and within their caps.
CountInv ==
    /\ active = Cardinality(Occupied) /\ active <= kMaxInboundConnections
    /\ per_ip \in [Addresses -> Nat]
    /\ \A a \in Addresses : per_ip[a] = Cardinality(From(a)) /\ per_ip[a] <= Cap[a]
    /\ large_slots = Cardinality(Large) /\ large_slots <= kMaxLargeSlots

AllNone == \A c \in Clients : thread[c] = "none"

\* What the worker and stop() know of the threads.
ServerInv ==
    /\ worker = "admitted" => fresh \in Clients /\ thread[fresh] = "none"
    /\ worker # "admitted" => fresh = None
    /\ worker = "ended" => ~running
    /\ worker \in {"none", "binding"} => AllNone
    /\ \A c \in Clients : thread[c] \in {"none", "done"} \/ c \in client_threads
    /\ stopping = "no" /\ ~running => worker \in {"none", "ended"} /\ AllNone
    /\ stopping # "no" => ~running /\ worker # "none"
    /\ stopping \in {"clients", "returned"} => worker = "ended"
    /\ stopping = "returned" => \A c \in Clients : thread[c] \in {"none", "done"}

ConnInv == ConnTypeOK /\ CountInv /\ ServerInv

\* The counters follow the sets, member by member.
LEMMA CountOne ==
  ASSUME NEW S, IsFiniteSet(S), NEW c
  PROVE  /\ Cardinality(S) \in Nat
         /\ c \notin S => Cardinality(S \cup {c}) = Cardinality(S) + 1
         /\ c \in S => Cardinality(S \ {c}) = Cardinality(S) - 1 /\ Cardinality(S) > 0
<1>1. Cardinality(S) \in Nat
  BY FS_CardinalityType
<1>2. c \notin S => Cardinality(S \cup {c}) = Cardinality(S) + 1
  BY FS_AddElement
<1>3. ASSUME c \in S PROVE Cardinality(S \ {c}) = Cardinality(S) - 1 /\ Cardinality(S) > 0
  <2>1. IsFiniteSet(S \ {c}) /\ Cardinality(S \ {c}) = Cardinality(S) - 1
    BY <1>3, FS_RemoveElement
  <2>2. Cardinality(S \ {c}) \in Nat
    BY <2>1, FS_CardinalityType
  <2> QED
    BY <1>1, <2>1, <2>2
<1> QED
  BY <1>1, <1>2, <1>3

LEMMA SetsAreFinite ==
  /\ IsFiniteSet(Occupied) /\ IsFiniteSet(Large)
  /\ \A a : IsFiniteSet(From(a))
<1>1. Occupied \subseteq Clients /\ Large \subseteq Clients /\ \A a : From(a) \subseteq Clients
  BY DEF Occupied, Large, From
<1> QED
  BY <1>1, ConnAssumption, FS_Subset

LEMMA ConnInitInv == ConnInit => ConnInv
<1> SUFFICES ASSUME ConnInit PROVE ConnInv
  OBVIOUS
<1>1. /\ Occupied = {} /\ Large = {} /\ \A a : From(a) = {}
  BY ConnAssumption DEF ConnInit, Occupied, Large, From, Serving, None
<1>2. Cardinality({}) = 0
  BY FS_EmptySet
<1>3. CountInv
  BY <1>1, <1>2, ConnAssumption DEF CountInv, ConnInit
<1>4. ConnTypeOK
  BY DEF ConnInit, ConnTypeOK
<1>5. ServerInv
  BY DEF ConnInit, ServerInv, AllNone
<1> QED
  BY <1>3, <1>4, <1>5 DEF ConnInv

\* Neither the connections that count nor those with a large buffer change.
LEMMA SameCounts ==
  ASSUME CountInv, Occupied' = Occupied, Large' = Large,
         active' = active, per_ip' = per_ip, large_slots' = large_slots
  PROVE  CountInv'
  BY DEF CountInv, From

\* The connection c joins or leaves those that count.
LEMMA CountMoves ==
  ASSUME CountInv, NEW c \in Clients, Large' = Large, large_slots' = large_slots,
         \/ /\ c \notin Occupied /\ Occupied' = Occupied \cup {c}
            /\ active < kMaxInboundConnections /\ per_ip[Addr[c]] < Cap[Addr[c]]
            /\ active' = active + 1 /\ per_ip' = [per_ip EXCEPT ![Addr[c]] = @ + 1]
         \/ /\ c \in Occupied /\ Occupied' = Occupied \ {c}
            /\ active' = IF active > 0 THEN active - 1 ELSE 0
            /\ per_ip' = [per_ip EXCEPT ![Addr[c]] = @ - 1]
  PROVE  CountInv'
<1> DEFINE b == Addr[c]
<1>1. b \in Addresses /\ Cap \in [Addresses -> Nat] /\ kMaxInboundConnections \in Nat
  BY ConnAssumption DEF Addresses, Range
<1>2. /\ active = Cardinality(Occupied) /\ active <= kMaxInboundConnections
      /\ per_ip \in [Addresses -> Nat]
      /\ \A a \in Addresses : per_ip[a] = Cardinality(From(a)) /\ per_ip[a] <= Cap[a]
      /\ large_slots' = Cardinality(Large') /\ large_slots' <= kMaxLargeSlots
  BY DEF CountInv
<1>3. IsFiniteSet(Occupied) /\ IsFiniteSet(From(b)) /\ active \in Nat
  BY <1>2, SetsAreFinite, CountOne
<1>4. \A a \in Addresses \ {b} : From(a)' = From(a)
  BY DEF From
<1>5. CASE /\ c \notin Occupied /\ Occupied' = Occupied \cup {c}
           /\ active < kMaxInboundConnections /\ per_ip[b] < Cap[b]
           /\ active' = active + 1 /\ per_ip' = [per_ip EXCEPT ![b] = @ + 1]
  <2>1. c \notin From(b) /\ From(b)' = From(b) \cup {c}
    BY <1>5 DEF From
  <2>2. /\ Cardinality(Occupied') = active + 1 /\ Cardinality(From(b)') = per_ip[b] + 1
    BY <1>1, <1>2, <1>3, <1>5, <2>1, CountOne
  <2>3. /\ active' = Cardinality(Occupied') /\ active' <= kMaxInboundConnections
    BY <1>1, <1>3, <1>5, <2>2
  <2>4. /\ per_ip' \in [Addresses -> Nat] /\ per_ip'[b] = per_ip[b] + 1
        /\ \A a \in Addresses \ {b} : per_ip'[a] = per_ip[a]
    BY <1>1, <1>2, <1>5
  <2>5. per_ip'[b] <= Cap[b]
    BY <1>1, <1>2, <1>5, <2>4
  <2>6. \A a \in Addresses : per_ip'[a] = Cardinality(From(a)') /\ per_ip'[a] <= Cap[a]
    BY <1>2, <1>4, <2>2, <2>4, <2>5
  <2> QED
    BY <1>2, <2>3, <2>4, <2>6 DEF CountInv
<1>6. CASE /\ c \in Occupied /\ Occupied' = Occupied \ {c}
           /\ active' = (IF active > 0 THEN active - 1 ELSE 0)
           /\ per_ip' = [per_ip EXCEPT ![b] = @ - 1]
  <2>1. c \in From(b) /\ From(b)' = From(b) \ {c}
    BY <1>6 DEF From
  <2>2. /\ active > 0 /\ Cardinality(Occupied') = active - 1
        /\ per_ip[b] > 0 /\ Cardinality(From(b)') = per_ip[b] - 1
    <3>1. Cardinality(Occupied \ {c}) = Cardinality(Occupied) - 1 /\ Cardinality(Occupied) > 0
      BY <1>3, <1>6, CountOne
    <3>2. Cardinality(From(b) \ {c}) = Cardinality(From(b)) - 1 /\ Cardinality(From(b)) > 0
      BY <1>3, <2>1, CountOne
    <3>3. per_ip[b] = Cardinality(From(b))
      BY <1>1, <1>2
    <3> QED
      BY <1>2, <1>6, <2>1, <3>1, <3>2, <3>3
  <2>3. /\ active' = Cardinality(Occupied') /\ active' <= kMaxInboundConnections
    BY <1>1, <1>2, <1>3, <1>6, <2>2
  <2>4. /\ per_ip' \in [Addresses -> Nat] /\ per_ip'[b] = per_ip[b] - 1
        /\ \A a \in Addresses \ {b} : per_ip'[a] = per_ip[a]
    BY <1>1, <1>2, <1>6, <2>2
  <2>5. per_ip'[b] <= Cap[b]
    BY <1>1, <1>2, <2>4
  <2>6. \A a \in Addresses : per_ip'[a] = Cardinality(From(a)') /\ per_ip'[a] <= Cap[a]
    BY <1>2, <1>4, <2>2, <2>4, <2>5
  <2> QED
    BY <1>2, <2>3, <2>4, <2>6 DEF CountInv
<1> QED
  BY <1>5, <1>6

\* The thread of c takes or gives back a large slot.
LEMMA SlotMoves ==
  ASSUME CountInv, NEW c \in Clients, Occupied' = Occupied, active' = active, per_ip' = per_ip,
         \/ /\ c \notin Large /\ Large' = Large \cup {c}
            /\ large_slots < kMaxLargeSlots /\ large_slots' = large_slots + 1
         \/ c \in Large /\ Large' = Large \ {c} /\ large_slots' = large_slots - 1
  PROVE  CountInv'
<1>1. large_slots = Cardinality(Large) /\ large_slots <= kMaxLargeSlots /\ kMaxLargeSlots \in Nat
  BY ConnAssumption DEF CountInv
<1>2. /\ large_slots \in Nat
      /\ c \notin Large => Cardinality(Large \cup {c}) = large_slots + 1
      /\ c \in Large => Cardinality(Large \ {c}) = large_slots - 1
  BY <1>1, SetsAreFinite, CountOne
<1>3. large_slots' = Cardinality(Large') /\ large_slots' <= kMaxLargeSlots
  <2>1. CASE /\ c \notin Large /\ Large' = Large \cup {c}
             /\ large_slots < kMaxLargeSlots /\ large_slots' = large_slots + 1
    <3>1. Cardinality(Large') = large_slots + 1
      BY <1>2, <2>1, Zenon
    <3> QED
      BY <1>1, <1>2, <2>1, <3>1
  <2>2. CASE c \in Large /\ Large' = Large \ {c} /\ large_slots' = large_slots - 1
    <3>1. Cardinality(Large') = large_slots - 1
      BY <1>2, <2>2, Zenon
    <3> QED
      BY <1>1, <1>2, <2>2, <3>1
  <2> QED
    BY <2>1, <2>2
<1> QED
  BY <1>3 DEF CountInv, From

\* A step of the thread of c alone, between two labels that may follow each other.
LEMMA ThreadMoves ==
  ASSUME ConnInv, NEW c \in Clients, NEW label \in Serving \cup {"none", "released", "done"},
         thread' = [thread EXCEPT ![c] = label], cur' \in [Clients -> Nat],
         thread[c] = "none" => label = "none",
         label \in {"none", "done"} \/ c \in client_threads,
         thread[c] \in {"none", "done"} => label \in {"none", "done"},
         UNCHANGED <<running, worker, fresh, client_threads, stopping>>
  PROVE  ConnTypeOK' /\ ServerInv'
<1>0. ConnTypeOK /\ ServerInv
  BY DEF ConnInv
<1>1. /\ thread' \in [Clients -> Serving \cup {"none", "released", "done"}]
      /\ thread'[c] = label /\ \A d \in Clients \ {c} : thread'[d] = thread[d]
  BY <1>0 DEF ConnTypeOK
<1>2. ConnTypeOK'
  BY <1>0, <1>1 DEF ConnTypeOK
<1>3. /\ AllNone => AllNone'
      /\ worker = "admitted" => fresh \in Clients /\ thread'[fresh] = "none"
      /\ \A d \in Clients : thread'[d] \in {"none", "done"} \/ d \in client_threads
      /\ stopping = "returned" => \A d \in Clients : thread'[d] \in {"none", "done"}
  BY <1>0, <1>1 DEF ServerInv, AllNone
<1>4. ServerInv'
  BY <1>0, <1>3 DEF ServerInv
<1> QED
  BY <1>2, <1>4

\* The worker or stop() moves, and no thread does.
LEMMA ServerMoves ==
  ASSUME ConnInv, UNCHANGED <<thread, cur, active, per_ip, large_slots>>, fresh' = fresh,
         client_threads' \in {client_threads, {}}, running' \in BOOLEAN,
         worker' \in {"none", "binding", "accepting", "admitted", "ended"},
         stopping' \in {"no", "worker", "clients", "returned"},
         ServerInv'
  PROVE  ConnInv'
<1>1. ConnTypeOK /\ CountInv
  BY DEF ConnInv
<1>2. ConnTypeOK'
  BY <1>1 DEF ConnTypeOK
<1>3. Occupied' = Occupied /\ Large' = Large
  BY DEF Occupied, Large
<1>4. CountInv'
  BY <1>1, <1>3, SameCounts
<1> QED
  BY <1>2, <1>4 DEF ConnInv

LEMMA ConnNextInv == ConnInv /\ [ConnNext]_connVars => ConnInv'
<1> SUFFICES ASSUME ConnInv, [ConnNext]_connVars PROVE ConnInv'
  OBVIOUS
<1>0. ConnTypeOK /\ CountInv /\ ServerInv /\ None \notin Clients
  BY ConnAssumption DEF ConnInv
<1>t. /\ thread \in [Clients -> Serving \cup {"none", "released", "done"}]
      /\ cur \in [Clients -> Nat] /\ client_threads \subseteq Clients /\ running \in BOOLEAN
      /\ worker \in {"none", "binding", "accepting", "admitted", "ended"}
      /\ stopping \in {"no", "worker", "clients", "returned"}
  BY <1>0 DEF ConnTypeOK
<1>n. large_slots \in Nat /\ kMaxLargeSlots \in Nat /\ active \in Nat
  BY <1>0, SetsAreFinite, CountOne, ConnAssumption DEF CountInv
<1>1. CASE start
  <2>1. /\ UNCHANGED <<fresh, thread, cur, active, per_ip, large_slots, client_threads, stopping>>
        /\ ~running /\ worker = "none" /\ running' = TRUE /\ worker' = "binding"
    BY <1>1 DEF start
  <2>2. ServerInv'
    BY <1>0, <2>1 DEF ServerInv, AllNone
  <2> QED
    BY <1>t, <2>1, <2>2, ServerMoves
<1>2. ASSUME NEW ok \in BOOLEAN, Bind(ok) PROVE ConnInv'
  <2>1. /\ UNCHANGED <<fresh, thread, cur, active, per_ip, large_slots, client_threads, stopping>>
        /\ worker = "binding"
        /\ \/ worker' = "accepting" /\ running = TRUE /\ running' = TRUE
           \/ worker' = "ended" /\ running' = FALSE
    <3>1. /\ UNCHANGED <<fresh, thread, cur, active, per_ip, large_slots, client_threads, stopping>>
          /\ worker = "binding"
          /\ worker' = IF ok /\ running THEN "accepting" ELSE "ended"
          /\ running' = IF ok THEN running ELSE FALSE
      BY <1>2 DEF Bind
    <3>2. CASE ok = TRUE /\ running = TRUE
      BY <3>1, <3>2
    <3>3. CASE ok = TRUE /\ running = FALSE
      BY <3>1, <3>3
    <3>4. CASE ok = FALSE
      BY <3>1, <3>4
    <3> QED
      BY <1>2, <1>t, <3>2, <3>3, <3>4
  <2>2. ServerInv'
    BY <1>0, <2>1 DEF ServerInv, AllNone
  <2> QED
    BY <1>t, <2>1, <2>2, ServerMoves
<1>3. CASE AcceptFails
  <2>1. /\ UNCHANGED <<running, fresh, thread, cur, active, per_ip, large_slots, client_threads, stopping>>
        /\ worker = "accepting" /\ ~running /\ worker' = "ended"
    BY <1>3 DEF AcceptFails
  <2>2. ServerInv'
    BY <1>0, <2>1 DEF ServerInv, AllNone
  <2> QED
    BY <1>t, <2>1, <2>2, ServerMoves
<1>4. CASE stop
  <2>1. /\ UNCHANGED <<worker, fresh, thread, cur, active, per_ip, large_slots, client_threads>>
        /\ stopping = "no" /\ worker # "none" /\ running' = FALSE
        /\ \/ running = TRUE /\ stopping' = "worker"
           \/ running = FALSE /\ stopping' = "returned"
    BY <1>4, <1>t DEF stop
  <2>2. ServerInv'
    BY <1>0, <2>1 DEF ServerInv, AllNone
  <2> QED
    BY <1>t, <2>1, <2>2, ServerMoves
<1>5. CASE StopWaits
  <2>1. /\ UNCHANGED <<running, worker, fresh, thread, cur, active, per_ip, large_slots, client_threads>>
        /\ stopping = "worker" /\ worker = "ended" /\ stopping' = "clients"
    BY <1>5 DEF StopWaits, JoinWorker
  <2>2. ServerInv'
    BY <1>0, <2>1 DEF ServerInv, AllNone
  <2> QED
    BY <1>t, <2>1, <2>2, ServerMoves
<1>6. CASE join_client_threads
  <2>1. /\ UNCHANGED <<running, worker, fresh, thread, cur, active, per_ip, large_slots>>
        /\ stopping = "clients" /\ \A c \in client_threads : thread[c] = "done"
        /\ client_threads' = {} /\ stopping' = "returned"
    BY <1>6 DEF join_client_threads
  <2>2. \A c \in Clients : thread[c] \in {"none", "done"}
    BY <1>0, <2>1 DEF ServerInv
  <2>3. ServerInv'
    BY <1>0, <2>1, <2>2 DEF ServerInv, AllNone
  <2> QED
    BY <1>t, <2>1, <2>3, ServerMoves
<1>7. ASSUME NEW c \in Clients, Accept(c) PROVE ConnInv'
  <2>1. /\ worker = "accepting" /\ thread[c] = "none" /\ admit(c)
        /\ UNCHANGED <<running, thread, cur, large_slots, client_threads, stopping>>
    BY <1>7 DEF Accept
  <2>2. CASE Drop
    <3>1. /\ UNCHANGED <<fresh, active, per_ip>>
          /\ \/ worker' = "accepting" /\ running = TRUE
             \/ worker' = "ended" /\ running = FALSE
      BY <1>t, <2>2 DEF Drop
    <3>2. ServerInv'
      BY <1>0, <2>1, <3>1 DEF ServerInv, AllNone
    <3> QED
      BY <1>t, <2>1, <3>1, <3>2, ServerMoves
  <2>3. CASE ~Drop
    <3>1. /\ ~(active >= kMaxInboundConnections) /\ ~(per_ip[Addr[c]] >= Cap[Addr[c]])
          /\ fresh' = c /\ worker' = "admitted" /\ active' = active + 1
          /\ per_ip' = [per_ip EXCEPT ![Addr[c]] = @ + 1]
      BY <2>1, <2>3 DEF admit
    <3>2. fresh = None
      BY <1>0, <2>1 DEF ServerInv
    <3>3. c \notin Occupied /\ Occupied' = Occupied \cup {c} /\ Large' = Large
      BY <1>0, <1>7, <2>1, <3>1, <3>2 DEF Occupied, Large, Serving
    <3>4. /\ active < kMaxInboundConnections /\ per_ip[Addr[c]] < Cap[Addr[c]]
      <4>1. Addr[c] \in Addresses
        BY <1>7, ConnAssumption DEF Addresses, Range
      <4>2. per_ip[Addr[c]] \in Nat /\ Cap[Addr[c]] \in Nat /\ kMaxInboundConnections \in Nat
        BY <1>0, <4>1, ConnAssumption DEF CountInv
      <4> QED
        BY <1>n, <3>1, <4>2
    <3>5. CountInv'
      BY <1>0, <1>7, <2>1, <3>1, <3>3, <3>4, CountMoves
    <3>6. ConnTypeOK'
      BY <1>0, <2>1, <3>1 DEF ConnTypeOK
    <3>7. ServerInv'
      BY <1>0, <1>7, <2>1, <3>1 DEF ServerInv, AllNone
    <3> QED
      BY <3>5, <3>6, <3>7 DEF ConnInv
  <2> QED
    BY <2>2, <2>3
<1>8. CASE Spawn
  <2>1. /\ worker = "admitted" /\ fresh' = None
        /\ client_threads' = {c \in client_threads : thread[c] # "done"} \cup {fresh}
        /\ thread' = [thread EXCEPT ![fresh] = "load"]
        /\ \/ worker' = "accepting" /\ running = TRUE
           \/ worker' = "ended" /\ running = FALSE
        /\ UNCHANGED <<running, cur, active, per_ip, large_slots, stopping>>
    BY <1>8, <1>t DEF Spawn
  <2>2. fresh \in Clients /\ thread[fresh] = "none" /\ "load" \in Serving
    BY <1>0, <2>1 DEF ServerInv, Serving
  <2>3. /\ thread' \in [Clients -> Serving \cup {"none", "released", "done"}]
        /\ thread'[fresh] = "load" /\ \A d \in Clients \ {fresh} : thread'[d] = thread[d]
    BY <1>t, <2>1, <2>2
  <2>4. Occupied' = Occupied /\ Large' = Large
    BY <1>0, <2>1, <2>2, <2>3 DEF Occupied, Large
  <2>5. CountInv'
    BY <1>0, <2>1, <2>4, SameCounts
  <2>6. ConnTypeOK'
    BY <1>0, <2>1, <2>2, <2>3 DEF ConnTypeOK
  <2>7. /\ stopping \notin {"clients", "returned"}
        /\ ~(stopping = "no" /\ ~running)
    BY <1>0, <2>1 DEF ServerInv
  <2>8. \A c \in Clients : thread'[c] \in {"none", "done"} \/ c \in client_threads'
    BY <1>0, <2>1, <2>3 DEF ServerInv
  <2>9. ServerInv'
    BY <1>0, <2>1, <2>7, <2>8 DEF ServerInv
  <2> QED
    BY <2>5, <2>6, <2>9 DEF ConnInv
<1>9. ASSUME NEW c \in Clients, LoadSlots(c) PROVE ConnInv'
  <2>1. /\ thread[c] = "load" /\ cur' = [cur EXCEPT ![c] = large_slots]
        /\ thread' = [thread EXCEPT ![c] = "exchange"]
        /\ UNCHANGED <<running, worker, fresh, active, per_ip, large_slots, client_threads, stopping>>
        /\ "exchange" \in Serving /\ "load" \in Serving
    BY <1>9 DEF LoadSlots, Serving
  <2>2. cur' \in [Clients -> Nat]
    BY <1>n, <1>t, <2>1
  <2>3. c \in client_threads
    BY <1>0, <1>9, <2>1 DEF ServerInv
  <2>4. ConnTypeOK' /\ ServerInv'
    BY <1>9, <2>1, <2>2, <2>3, ThreadMoves
  <2>5. Occupied' = Occupied /\ Large' = Large
    BY <1>t, <1>9, <2>1 DEF Occupied, Large
  <2>6. CountInv'
    BY <1>0, <2>1, <2>5, SameCounts
  <2> QED
    BY <2>4, <2>6 DEF ConnInv
<1>10. ASSUME NEW c \in Clients, TakeSlot(c) PROVE ConnInv'
  <2>1. /\ thread[c] = "exchange" /\ Exchange(c)
        /\ UNCHANGED <<running, worker, fresh, active, per_ip, client_threads, stopping>>
        /\ {"exchange", "small", "large"} \subseteq Serving
    BY <1>10 DEF TakeSlot, Serving
  <2>2. c \in client_threads /\ cur[c] \in Nat
    BY <1>0, <1>10, <1>t, <2>1 DEF ServerInv
  <2>3. CASE cur[c] >= kMaxLargeSlots
    <3>1. thread' = [thread EXCEPT ![c] = "small"] /\ cur' = cur /\ large_slots' = large_slots
      BY <2>1, <2>3 DEF Exchange
    <3>2. ConnTypeOK' /\ ServerInv'
      BY <1>10, <1>t, <2>1, <2>2, <3>1, ThreadMoves
    <3>3. Occupied' = Occupied /\ Large' = Large
      BY <1>t, <1>10, <2>1, <3>1 DEF Occupied, Large
    <3>4. CountInv'
      BY <1>0, <2>1, <3>1, <3>3, SameCounts
    <3> QED
      BY <3>2, <3>4 DEF ConnInv
  <2>4. CASE ~(cur[c] >= kMaxLargeSlots) /\ large_slots = cur[c]
    <3>1. /\ thread' = [thread EXCEPT ![c] = "large"] /\ cur' = cur /\ large_slots' = large_slots + 1
          /\ large_slots < kMaxLargeSlots
      BY <1>n, <2>1, <2>2, <2>4 DEF Exchange
    <3>2. ConnTypeOK' /\ ServerInv'
      BY <1>10, <1>t, <2>1, <2>2, <3>1, ThreadMoves
    <3>3. Occupied' = Occupied /\ c \notin Large /\ Large' = Large \cup {c}
      BY <1>t, <1>10, <2>1, <3>1 DEF Occupied, Large
    <3>4. CountInv'
      BY <1>0, <1>10, <2>1, <3>1, <3>3, SlotMoves
    <3> QED
      BY <3>2, <3>4 DEF ConnInv
  <2>5. CASE ~(cur[c] >= kMaxLargeSlots) /\ large_slots # cur[c]
    <3>1. cur' = [cur EXCEPT ![c] = large_slots] /\ thread' = thread /\ large_slots' = large_slots
      BY <2>1, <2>5 DEF Exchange
    <3>2. cur' \in [Clients -> Nat]
      BY <1>n, <1>t, <3>1
    <3>3. thread' = [thread EXCEPT ![c] = "exchange"]
      BY <1>t, <1>10, <2>1, <3>1
    <3>4. ConnTypeOK' /\ ServerInv'
      BY <1>10, <2>1, <2>2, <3>2, <3>3, ThreadMoves
    <3>5. Occupied' = Occupied /\ Large' = Large
      BY <2>1, <3>1 DEF Occupied, Large
    <3>6. CountInv'
      BY <1>0, <2>1, <3>1, <3>5, SameCounts
    <3> QED
      BY <3>4, <3>6 DEF ConnInv
  <2> QED
    BY <2>3, <2>4, <2>5
<1>11. ASSUME NEW c \in Clients, CloseClient(c) PROVE ConnInv'
  <2>1. /\ thread[c] \in {"small", "large"} /\ thread' = [thread EXCEPT ![c] = "served"]
        /\ large_slots' = (IF thread[c] = "large" THEN large_slots - 1 ELSE large_slots)
        /\ UNCHANGED <<running, worker, fresh, cur, active, per_ip, client_threads, stopping>>
        /\ {"small", "large", "served"} \subseteq Serving
    BY <1>11 DEF CloseClient, Serving
  <2>2. c \in client_threads
    BY <1>0, <1>11, <2>1 DEF ServerInv
  <2>3. ConnTypeOK' /\ ServerInv'
    BY <1>11, <1>t, <2>1, <2>2, ThreadMoves
  <2>4. Occupied' = Occupied
    BY <1>t, <1>11, <2>1 DEF Occupied
  <2>5. CountInv'
    <3>1. CASE thread[c] = "large"
      <4>1. c \in Large /\ Large' = Large \ {c} /\ large_slots' = large_slots - 1
        BY <1>t, <1>11, <2>1, <3>1 DEF Large
      <4> QED
        BY <1>0, <1>11, <2>1, <2>4, <4>1, SlotMoves
    <3>2. CASE thread[c] # "large"
      <4>1. Large' = Large /\ large_slots' = large_slots
        BY <1>t, <1>11, <2>1, <3>2 DEF Large
      <4> QED
        BY <1>0, <2>1, <2>4, <4>1, SameCounts
    <3> QED
      BY <3>1, <3>2
  <2> QED
    BY <2>3, <2>5 DEF ConnInv
<1>12. ASSUME NEW c \in Clients, release(c) PROVE ConnInv'
  <2>1. /\ thread[c] = "served" /\ thread' = [thread EXCEPT ![c] = "released"]
        /\ per_ip' = [per_ip EXCEPT ![Addr[c]] = @ - 1]
        /\ active' = (IF active > 0 THEN active - 1 ELSE 0)
        /\ UNCHANGED <<running, worker, fresh, cur, large_slots, client_threads, stopping>>
        /\ "served" \in Serving /\ "released" \notin Serving
    BY <1>12 DEF release, Serving
  <2>2. c \in client_threads /\ c # fresh
    BY <1>0, <1>12, <2>1 DEF ServerInv
  <2>3. ConnTypeOK' /\ ServerInv'
    BY <1>12, <1>t, <2>1, <2>2, ThreadMoves
  <2>4. c \in Occupied /\ Occupied' = Occupied \ {c} /\ Large' = Large
    BY <1>t, <1>12, <2>1, <2>2 DEF Occupied, Large
  <2>5. CountInv'
    BY <1>0, <1>12, <2>1, <2>4, CountMoves
  <2> QED
    BY <2>3, <2>5 DEF ConnInv
<1>13. ASSUME NEW c \in Clients, Done(c) \/ Reuse(c) PROVE ConnInv'
  <2>1. PICK label \in {"none", "done"} :
          /\ thread[c] \in {"released", "done"} /\ thread' = [thread EXCEPT ![c] = label]
          /\ UNCHANGED <<running, worker, fresh, cur, active, per_ip, large_slots, client_threads, stopping>>
    BY <1>13 DEF Done, Reuse
  <2>2. ConnTypeOK' /\ ServerInv'
    BY <1>13, <1>t, <2>1, ThreadMoves
  <2>3. Occupied' = Occupied /\ Large' = Large
    BY <1>t, <1>13, <2>1 DEF Occupied, Large, Serving
  <2>4. CountInv'
    BY <1>0, <2>1, <2>3, SameCounts
  <2> QED
    BY <2>2, <2>4 DEF ConnInv
<1>14. CASE UNCHANGED connVars
  <2>1. UNCHANGED <<running, worker, fresh, thread, cur, active, per_ip, large_slots, client_threads, stopping>>
    BY <1>14 DEF connVars
  <2>2. ServerInv'
    BY <1>0, <2>1 DEF ServerInv, AllNone
  <2> QED
    BY <1>t, <2>1, <2>2, ServerMoves
<1> QED
  BY <1>1, <1>2, <1>3, <1>4, <1>5, <1>6, <1>7, <1>8, <1>9, <1>10, <1>11, <1>12, <1>13, <1>14 DEF ConnNext

\* However many connections come and go, no more than the caps allow are served in
\* all, from one address and with a large buffer, and none once stop() has returned.
THEOREM CapsAreKept == ConnSpec => []ConnectionsAreBounded
<1>1. ConnInv => ConnectionsAreBounded
  <2> SUFFICES ASSUME ConnInv PROVE ConnectionsAreBounded
    OBVIOUS
  <2>0. ConnTypeOK /\ CountInv /\ ServerInv
    BY DEF ConnInv
  <2>1. Busy \subseteq Occupied
    BY <2>0 DEF Busy, Occupied, ConnTypeOK
  <2>2. Cardinality(Busy) <= kMaxInboundConnections
    <3>1. Cardinality(Busy) <= Cardinality(Occupied) /\ Cardinality(Busy) \in Nat
      BY <2>1, SetsAreFinite, FS_Subset, FS_CardinalityType
    <3>2. Cardinality(Occupied) \in Nat /\ Cardinality(Occupied) <= kMaxInboundConnections
      BY <2>0, SetsAreFinite, FS_CardinalityType DEF CountInv
    <3> QED
      BY <3>1, <3>2, ConnAssumption
  <2>3. ASSUME NEW a \in Addresses
        PROVE  Cardinality({c \in Busy : Addr[c] = a}) <= Cap[a]
    <3> DEFINE B == {c \in Busy : Addr[c] = a}
    <3>1. B \subseteq From(a)
      BY <2>1 DEF From
    <3> HIDE DEF B
    <3>2. Cardinality(B) <= Cardinality(From(a)) /\ Cardinality(B) \in Nat
      BY <3>1, SetsAreFinite, FS_Subset, FS_CardinalityType
    <3>3. Cardinality(From(a)) \in Nat /\ Cardinality(From(a)) <= Cap[a] /\ Cap[a] \in Nat
      BY <2>0, SetsAreFinite, FS_CardinalityType, ConnAssumption DEF CountInv
    <3>4. Cardinality(B) <= Cap[a]
      BY <3>2, <3>3
    <3> QED
      BY <3>4 DEF B
  <2>4. LargeSlotsHold
    BY <2>0 DEF CountInv, LargeSlotsHold, Large
  <2>5. QuietAfterStop
    BY <2>0, ConnAssumption DEF ServerInv, QuietAfterStop
  <2> QED
    BY <2>2, <2>3, <2>4, <2>5 DEF ConnectionsAreBounded, CapsHold
<1> QED
  BY <1>1, ConnInitInv, ConnNextInv, PTL DEF ConnSpec
=============================================================================
