---------------------------- MODULE LedgerReplay ----------------------------
(***************************************************************************)
(* The state of Ledger is the one its blocks determine, and what was       *)
(* committed loads again, for every choice of addresses, transactions,     *)
(* blocks and parameters.                                                  *)
(*                                                                         *)
(* Between calls the ledger is Replay of its own blocks; inside add_block  *)
(* it is the snapshot after the steps taken so far.  Every chain that is   *)
(* held or saved passed add_block's checks at each of its blocks, in the   *)
(* states that Replay goes through, and load_chain meets the same states.  *)
(***************************************************************************)
EXTENDS LedgerProofs, SumFacts

\* apply_transaction succeeds at each of the first n steps of b that is one.
BlockApplies(l, b, n) ==
  \A i \in 1..n :
    i <= NumTxs(b) =>
      Applies(AfterSteps(l, b, i - 1), TxAt(b, Height(l) + 1, i), Height(l) + 1)

\* add_block accepts b on top of l.
Accepts(l, b) == BlockValid(l, b, Height(l) + 1) /\ BlockApplies(l, b, BlockSteps(b))

ValidChain(blocks) == \A k \in DOMAIN blocks : Accepts(AfterBlocks(blocks, k - 1), blocks[k])

\* A ledger between blocks.
SettledState(l) ==
  /\ Restore(l) = l
  /\ l = Replay(l.blocks)
  /\ ValidChain(l.blocks)
  /\ l.work = WorkOf(l.blocks)

\* A ledger to which add_block has applied b up to position n, starting from s.
StateAt(l, s, b, n) ==
  IF n = 0 THEN SettledState(l)
  ELSE /\ SettledState(s)
       /\ l = AfterSteps(s, b, n - 1)
       /\ BlockValid(s, b, Height(s) + 1)
       /\ BlockApplies(s, b, n - 1)

\* load_chain has replayed the first blocks of the saved chain, is at work on
\* the next one when pos > 0, and has the rest to do.
LoadInv ==
  call = "load" =>
    LET done == Height(led) + (IF pos > 0 THEN 1 ELSE 0)
    IN  /\ Len(disk) = done + Len(todo)
        /\ \A i \in DOMAIN led.blocks : led.blocks[i] = disk[i]
        /\ pos > 0 => blk = disk[done]
        /\ \A i \in DOMAIN todo : todo[i] = disk[done + i]

ReplayInv ==
  /\ StateAt(led, snap, blk, pos)
  /\ SettledState(old)
  /\ ValidChain(disk)
  /\ call # "failed"
  /\ call = "down" => led = Genesis /\ pos = 0
  /\ LoadInv
  /\ call \in {"idle", "add", "replace"} => WorkOf(disk) <= ChainWork

-----------------------------------------------------------------------------
(* The two recursions of Replay have solutions, and obey their equations.  *)

StepsFrom(f, l, b, n) ==
  f = [i \in 0..n |-> IF i = 0 THEN l ELSE BlockStep(f[i - 1], b, Height(l) + 1, i)]

LEMMA StepsFromAt ==
  ASSUME NEW f, NEW l, NEW b, NEW n \in Nat, StepsFrom(f, l, b, n), NEW i \in 0..n
  PROVE  /\ i = 0 => f[i] = l
         /\ i # 0 => f[i] = BlockStep(f[i - 1], b, Height(l) + 1, i)
<1>1. f = [j \in 0..n |-> IF j = 0 THEN l ELSE BlockStep(f[j - 1], b, Height(l) + 1, j)]
  BY DEF StepsFrom
<1>2. f[i] = IF i = 0 THEN l ELSE BlockStep(f[i - 1], b, Height(l) + 1, i)
  BY <1>1, Zenon
<1> QED
  BY <1>2, Zenon

\* Two solutions agree as far as both go.
LEMMA StepsUnique ==
  ASSUME NEW l, NEW b, NEW n \in Nat, NEW m \in Nat, NEW f, NEW g,
         StepsFrom(f, l, b, n), StepsFrom(g, l, b, m), NEW k \in 0..n, k \in 0..m
  PROVE  f[k] = g[k]
<1> DEFINE S == {j \in Nat : j \in 0..n /\ j \in 0..m => f[j] = g[j]}
<1>1. 0 \in S
  <2>1. 0 \in 0..n /\ 0 \in 0..m
    OBVIOUS
  <2>2. f[0] = l /\ g[0] = l
    BY <2>1, StepsFromAt
  <2> QED
    BY <2>2
<1>2. ASSUME NEW j \in Nat, j \in S
      PROVE  j + 1 \in S
  <2> SUFFICES ASSUME j + 1 \in 0..n, j + 1 \in 0..m
               PROVE  f[j + 1] = g[j + 1]
    OBVIOUS
  <2>1. j \in 0..n /\ j \in 0..m /\ j + 1 # 0 /\ (j + 1) - 1 = j
    OBVIOUS
  <2>2. f[j] = g[j]
    BY <1>2, <2>1
  <2>3. /\ f[j + 1] = BlockStep(f[(j + 1) - 1], b, Height(l) + 1, j + 1)
        /\ g[j + 1] = BlockStep(g[(j + 1) - 1], b, Height(l) + 1, j + 1)
    BY <2>1, StepsFromAt
  <2> QED
    BY <2>1, <2>2, <2>3
<1>3. Nat \subseteq S
  <2> HIDE DEF S
  <2> QED
    BY <1>1, <1>2, NatInd
<1>4. k \in S
  BY <1>3
<1> QED
  BY <1>4

LEMMA StepsExist ==
  ASSUME NEW l, NEW b, NEW n \in Nat
  PROVE  \E f : StepsFrom(f, l, b, n)
<1> DEFINE S == {j \in Nat : \E f : StepsFrom(f, l, b, j)}
<1>1. 0 \in S
  <2> DEFINE f == [i \in 0..0 |-> l]
  <2>1. StepsFrom(f, l, b, 0)
    BY DEF StepsFrom
  <2> QED
    BY <2>1
<1>2. ASSUME NEW j \in Nat, j \in S
      PROVE  j + 1 \in S
  <2>1. PICK f : StepsFrom(f, l, b, j)
    BY <1>2
  <2> DEFINE g == [i \in 0..(j + 1) |->
                     IF i \in 0..j THEN f[i] ELSE BlockStep(f[j], b, Height(l) + 1, i)]
             e(i) == IF i = 0 THEN l ELSE BlockStep(g[i - 1], b, Height(l) + 1, i)
  <2>2. ASSUME NEW i \in 0..(j + 1)
        PROVE  g[i] = e(i)
    <3>1. CASE i = 0
      <4>1. 0 \in 0..j /\ 0 \in 0..(j + 1)
        OBVIOUS
      <4>2. g[0] = f[0] /\ f[0] = l
        BY <2>1, <4>1, StepsFromAt
      <4> QED
        BY <3>1, <4>2
    <3>2. CASE i \in 1..j
      <4>1. i \in 0..j /\ i - 1 \in 0..j /\ i - 1 \in 0..(j + 1) /\ i # 0
        BY <3>2
      <4>2. g[i] = f[i] /\ g[i - 1] = f[i - 1]
        BY <4>1
      <4>3. f[i] = BlockStep(f[i - 1], b, Height(l) + 1, i)
        BY <2>1, <4>1, StepsFromAt
      <4> QED
        BY <4>1, <4>2, <4>3
    <3>3. CASE i = j + 1
      <4>1. i \notin 0..j /\ i - 1 = j /\ j \in 0..j /\ j \in 0..(j + 1) /\ i # 0
        BY <3>3
      <4>2. g[i] = BlockStep(f[j], b, Height(l) + 1, i)
        BY <4>1
      <4>3. g[j] = f[j]
        BY <4>1
      <4> QED
        BY <4>1, <4>2, <4>3
    <3> QED
      BY <3>1, <3>2, <3>3
  <2>3. g = [i \in 0..(j + 1) |-> e(i)]
    <3>1. g = [i \in 0..(j + 1) |-> g[i]]
      OBVIOUS
    <3> HIDE DEF g
    <3> QED
      BY <2>2, <3>1
  <2>4. StepsFrom(g, l, b, j + 1)
    BY <2>3 DEF StepsFrom
  <2> QED
    BY <2>4
<1>3. Nat \subseteq S
  <2> HIDE DEF S
  <2> QED
    BY <1>1, <1>2, NatInd
<1> QED
  BY <1>3

\* AfterSteps from step to step.
LEMMA AfterStepsRec ==
  ASSUME NEW l, NEW b, NEW n \in Nat
  PROVE  /\ AfterSteps(l, b, 0) = l
         /\ AfterSteps(l, b, n + 1) = BlockStep(AfterSteps(l, b, n), b, Height(l) + 1, n + 1)
<1> DEFINE F(k) == CHOOSE f : StepsFrom(f, l, b, k)
<1>1. \A k \in Nat : StepsFrom(F(k), l, b, k)
  BY StepsExist, Zenon
<1>2. \A k \in Nat : AfterSteps(l, b, k) = F(k)[k]
  BY Zenon DEF AfterSteps, StepsFrom
<1> HIDE DEF F
<1>3. n + 1 \in Nat /\ 0 \in 0..0 /\ n + 1 \in 0..(n + 1) /\ n \in 0..(n + 1) /\ n \in 0..n
      /\ n + 1 # 0 /\ (n + 1) - 1 = n
  OBVIOUS
<1>4. F(0)[0] = l
  BY <1>1, <1>3, StepsFromAt
<1>5. F(n + 1)[n + 1] = BlockStep(F(n + 1)[n], b, Height(l) + 1, n + 1)
  <2>1. F(n + 1)[n + 1] = BlockStep(F(n + 1)[(n + 1) - 1], b, Height(l) + 1, n + 1)
    BY <1>1, <1>3, StepsFromAt
  <2> QED
    BY <1>3, <2>1
<1>6. F(n + 1)[n] = F(n)[n]
  BY <1>1, <1>3, StepsUnique
<1> QED
  BY <1>2, <1>3, <1>4, <1>5, <1>6

BlocksFrom(f, c, n) ==
  f = [i \in 0..n |-> IF i = 0 THEN Genesis ELSE ReplayBlock(f[i - 1], c[i])]

LEMMA BlocksFromAt ==
  ASSUME NEW f, NEW c, NEW n \in Nat, BlocksFrom(f, c, n), NEW i \in 0..n
  PROVE  /\ i = 0 => f[i] = Genesis
         /\ i # 0 => f[i] = ReplayBlock(f[i - 1], c[i])
<1>1. f = [j \in 0..n |-> IF j = 0 THEN Genesis ELSE ReplayBlock(f[j - 1], c[j])]
  BY DEF BlocksFrom
<1>2. f[i] = IF i = 0 THEN Genesis ELSE ReplayBlock(f[i - 1], c[i])
  BY <1>1, Zenon
<1> QED
  BY <1>2, Zenon

\* Two solutions agree as far as both go.
LEMMA BlocksUnique ==
  ASSUME NEW c, NEW n \in Nat, NEW m \in Nat, NEW f, NEW g,
         BlocksFrom(f, c, n), BlocksFrom(g, c, m), NEW k \in 0..n, k \in 0..m
  PROVE  f[k] = g[k]
<1> DEFINE S == {j \in Nat : j \in 0..n /\ j \in 0..m => f[j] = g[j]}
<1>1. 0 \in S
  <2>1. 0 \in 0..n /\ 0 \in 0..m
    OBVIOUS
  <2>2. f[0] = Genesis /\ g[0] = Genesis
    BY <2>1, BlocksFromAt
  <2> QED
    BY <2>2
<1>2. ASSUME NEW j \in Nat, j \in S
      PROVE  j + 1 \in S
  <2> SUFFICES ASSUME j + 1 \in 0..n, j + 1 \in 0..m
               PROVE  f[j + 1] = g[j + 1]
    OBVIOUS
  <2>1. j \in 0..n /\ j \in 0..m /\ j + 1 # 0 /\ (j + 1) - 1 = j
    OBVIOUS
  <2>2. f[j] = g[j]
    BY <1>2, <2>1
  <2>3. /\ f[j + 1] = ReplayBlock(f[(j + 1) - 1], c[j + 1])
        /\ g[j + 1] = ReplayBlock(g[(j + 1) - 1], c[j + 1])
    BY <2>1, BlocksFromAt
  <2> QED
    BY <2>1, <2>2, <2>3
<1>3. Nat \subseteq S
  <2> HIDE DEF S
  <2> QED
    BY <1>1, <1>2, NatInd
<1>4. k \in S
  BY <1>3
<1> QED
  BY <1>4

LEMMA BlocksExist ==
  ASSUME NEW c, NEW n \in Nat
  PROVE  \E f : BlocksFrom(f, c, n)
<1> DEFINE S == {j \in Nat : \E f : BlocksFrom(f, c, j)}
<1>1. 0 \in S
  <2> DEFINE f == [i \in 0..0 |-> Genesis]
  <2>1. BlocksFrom(f, c, 0)
    BY DEF BlocksFrom
  <2> QED
    BY <2>1
<1>2. ASSUME NEW j \in Nat, j \in S
      PROVE  j + 1 \in S
  <2>1. PICK f : BlocksFrom(f, c, j)
    BY <1>2
  <2> DEFINE g == [i \in 0..(j + 1) |->
                     IF i \in 0..j THEN f[i] ELSE ReplayBlock(f[j], c[i])]
             e(i) == IF i = 0 THEN Genesis ELSE ReplayBlock(g[i - 1], c[i])
  <2>2. ASSUME NEW i \in 0..(j + 1)
        PROVE  g[i] = e(i)
    <3>1. CASE i = 0
      <4>1. 0 \in 0..j /\ 0 \in 0..(j + 1)
        OBVIOUS
      <4>2. g[0] = f[0] /\ f[0] = Genesis
        BY <2>1, <4>1, BlocksFromAt
      <4> QED
        BY <3>1, <4>2
    <3>2. CASE i \in 1..j
      <4>1. i \in 0..j /\ i - 1 \in 0..j /\ i - 1 \in 0..(j + 1) /\ i # 0
        BY <3>2
      <4>2. g[i] = f[i] /\ g[i - 1] = f[i - 1]
        BY <4>1
      <4>3. f[i] = ReplayBlock(f[i - 1], c[i])
        BY <2>1, <4>1, BlocksFromAt
      <4> QED
        BY <4>1, <4>2, <4>3
    <3>3. CASE i = j + 1
      <4>1. i \notin 0..j /\ i - 1 = j /\ j \in 0..j /\ j \in 0..(j + 1) /\ i # 0
        BY <3>3
      <4>2. g[i] = ReplayBlock(f[j], c[i])
        BY <4>1
      <4>3. g[j] = f[j]
        BY <4>1
      <4> QED
        BY <4>1, <4>2, <4>3
    <3> QED
      BY <3>1, <3>2, <3>3
  <2>3. g = [i \in 0..(j + 1) |-> e(i)]
    <3>1. g = [i \in 0..(j + 1) |-> g[i]]
      OBVIOUS
    <3> HIDE DEF g
    <3> QED
      BY <2>2, <3>1
  <2>4. BlocksFrom(g, c, j + 1)
    BY <2>3 DEF BlocksFrom
  <2> QED
    BY <2>4
<1>3. Nat \subseteq S
  <2> HIDE DEF S
  <2> QED
    BY <1>1, <1>2, NatInd
<1> QED
  BY <1>3

\* AfterBlocks from block to block.
LEMMA AfterBlocksRec ==
  ASSUME NEW c, NEW n \in Nat
  PROVE  /\ AfterBlocks(c, 0) = Genesis
         /\ AfterBlocks(c, n + 1) = ReplayBlock(AfterBlocks(c, n), c[n + 1])
<1> DEFINE F(k) == CHOOSE f : BlocksFrom(f, c, k)
<1>1. \A k \in Nat : BlocksFrom(F(k), c, k)
  BY BlocksExist, Zenon
<1>2. \A k \in Nat : AfterBlocks(c, k) = F(k)[k]
  BY Zenon DEF AfterBlocks, BlocksFrom
<1> HIDE DEF F
<1>3. n + 1 \in Nat /\ 0 \in 0..0 /\ n + 1 \in 0..(n + 1) /\ n \in 0..(n + 1) /\ n \in 0..n
      /\ n + 1 # 0 /\ (n + 1) - 1 = n
  OBVIOUS
<1>4. F(0)[0] = Genesis
  BY <1>1, <1>3, BlocksFromAt
<1>5. F(n + 1)[n + 1] = ReplayBlock(F(n + 1)[n], c[n + 1])
  <2>1. F(n + 1)[n + 1] = ReplayBlock(F(n + 1)[(n + 1) - 1], c[n + 1])
    BY <1>1, <1>3, BlocksFromAt
  <2> QED
    BY <1>3, <2>1
<1>6. F(n + 1)[n] = F(n)[n]
  BY <1>1, <1>3, BlocksUnique
<1> QED
  BY <1>2, <1>3, <1>4, <1>5, <1>6

\* The state after n blocks depends on those blocks only.
LEMMA AfterSameBlocks ==
  ASSUME NEW c, NEW d, NEW n \in Nat, \A i \in 1..n : c[i] = d[i]
  PROVE  AfterBlocks(c, n) = AfterBlocks(d, n)
<1> DEFINE S == {j \in Nat : j <= n => AfterBlocks(c, j) = AfterBlocks(d, j)}
<1>1. 0 \in S
  BY AfterBlocksRec
<1>2. ASSUME NEW j \in Nat, j \in S
      PROVE  j + 1 \in S
  <2>1. /\ AfterBlocks(c, j + 1) = ReplayBlock(AfterBlocks(c, j), c[j + 1])
        /\ AfterBlocks(d, j + 1) = ReplayBlock(AfterBlocks(d, j), d[j + 1])
    BY AfterBlocksRec
  <2>2. j + 1 <= n => j <= n /\ c[j + 1] = d[j + 1]
    OBVIOUS
  <2> QED
    BY <1>2, <2>1, <2>2
<1>3. Nat \subseteq S
  <2> HIDE DEF S
  <2> QED
    BY <1>1, <1>2, NatInd
<1> QED
  BY <1>3

-----------------------------------------------------------------------------
(* StateAt through the steps of add_block.                                 *)

\* The work of a chain, and of one with a block more.
LEMMA WorkAppend ==
  ASSUME NEW s \in Seq(Blocks), NEW b \in Blocks
  PROVE  WorkOf(s) \in Nat /\ WorkOf(Append(s, b)) = WorkOf(s) + b.work
<1> DEFINE W(c) == [i \in DOMAIN c |-> c[i].work]
           D == DOMAIN s
           n == Len(s) + 1
           t == Append(s, b)
<1>1. \A c \in Blocks : c.work \in Nat
  BY BlocksAssumption
<1>2. IsFiniteSet(D)
  <2>1. D = 1..Len(s) /\ Len(s) \in Nat
    OBVIOUS
  <2> QED
    BY <2>1, FinRange
<1>3. \A i \in D : s[i] \in Blocks
  OBVIOUS
<1>4. /\ DOMAIN t = D \cup {n} /\ n \notin D /\ t[n] = b
      /\ \A g \in D : t[g] = s[g]
  BY AppendFacts
<1>5. NatOn(W(s), D)
  BY <1>1, <1>3 DEF NatOn
<1>6. /\ \A i \in D : W(t)[i] = W(s)[i]
      /\ W(t)[n] = b.work
  <2> HIDE DEF t, n
  <2> QED
    BY <1>4
<1>7. WorkOf(s) = SumFunctionOnSet(W(s), D) /\ WorkOf(t) = SumFunctionOnSet(W(t), D \cup {n})
  BY <1>4, Zenon DEF WorkOf
<1> HIDE DEF W, D, n, t
<1>8. NatOn(W(t), D) /\ W(t)[n] \in Nat
  BY <1>1, <1>5, <1>6 DEF NatOn
<1>9. SumFunctionOnSet(W(t), D) = SumFunctionOnSet(W(s), D)
  BY <1>2, <1>5, <1>6, <1>8, SumEqual
<1>10. SumFunctionOnSet(W(t), D \cup {n}) = W(t)[n] + SumFunctionOnSet(W(t), D)
  BY <1>2, <1>4, <1>8, SumAdd
<1>11. SumFunctionOnSet(W(s), D) \in Nat
  BY <1>2, <1>5, SumType
<1>12. b.work \in Nat
  BY <1>1
<1> QED
  BY <1>6, <1>7, <1>9, <1>10, <1>11, <1>12 DEF t

\* A block that the saved state accepts turns it into a settled one.
LEMMA SealReplays ==
  ASSUME NEW s, SettledState(s), s.blocks \in Seq(Blocks), NEW b \in Blocks, Accepts(s, b),
         NEW x, x = AfterSteps(s, b, BlockSteps(b)), x.blocks = s.blocks, x.work = s.work
  PROVE  SettledState(SealBlock(x, b))
<1> DEFINE m == SealBlock(x, b)
           c == Append(s.blocks, b)
           n == Len(s.blocks)
<1>1. m.blocks = c /\ m.work = s.work + b.work /\ Restore(m) = m
  BY DEF SealBlock, Restore
<1>2. n \in Nat /\ DOMAIN s.blocks = 1..n
  OBVIOUS
<1>3. /\ DOMAIN c = DOMAIN s.blocks \cup {n + 1} /\ c[n + 1] = b /\ Len(c) = n + 1
      /\ \A g \in DOMAIN s.blocks : c[g] = s.blocks[g]
  BY AppendFacts
<1>4. m.work = WorkOf(c)
  BY <1>1, WorkAppend DEF SettledState
<1>5. m = ReplayBlock(s, b)
  BY DEF ReplayBlock
<1>6. s = AfterBlocks(s.blocks, n)
  BY DEF SettledState, Replay
<1> HIDE DEF m, c, n
<1>7. \A k \in 0..n : AfterBlocks(c, k) = AfterBlocks(s.blocks, k)
  <2> SUFFICES ASSUME NEW k \in 0..n
               PROVE  AfterBlocks(c, k) = AfterBlocks(s.blocks, k)
    OBVIOUS
  <2>1. k \in Nat /\ \A i \in 1..k : c[i] = s.blocks[i]
    BY <1>2, <1>3
  <2> QED
    BY <2>1, AfterSameBlocks
<1>8. AfterBlocks(c, n) = s
  BY <1>2, <1>6, <1>7
<1>9. m = Replay(c)
  <2>1. AfterBlocks(c, n + 1) = ReplayBlock(AfterBlocks(c, n), c[n + 1])
    BY <1>2, AfterBlocksRec
  <2> QED
    BY <1>3, <1>5, <1>8, <2>1 DEF Replay
<1>10. ValidChain(c)
  <2> SUFFICES ASSUME NEW k \in DOMAIN c
               PROVE  Accepts(AfterBlocks(c, k - 1), c[k])
    BY DEF ValidChain
  <2>1. CASE k \in DOMAIN s.blocks
    <3>1. k - 1 \in 0..n
      BY <1>2, <2>1
    <3>2. AfterBlocks(c, k - 1) = AfterBlocks(s.blocks, k - 1) /\ c[k] = s.blocks[k]
      BY <1>3, <1>7, <2>1, <3>1
    <3> QED
      BY <2>1, <3>2 DEF SettledState, ValidChain
  <2>2. CASE k = n + 1
    <3>1. k - 1 = n
      BY <1>2, <2>2
    <3> QED
      BY <1>3, <1>8, <2>2, <3>1
  <2> QED
    BY <1>3, <2>1, <2>2
<1>11. SettledState(m)
  BY <1>1, <1>4, <1>9, <1>10 DEF SettledState
<1> QED
  BY <1>11 DEF m

\* The steps of a block are counted.
LEMMA BlockStepsCounted ==
  ASSUME NEW b \in Blocks
  PROVE  /\ NumTxs(b) \in Nat /\ Len(b.slashes) \in Nat /\ NumTxs(b) <= BlockSteps(b)
         /\ BlockSteps(b) = NumTxs(b) + Len(b.slashes)
<1>1. b.txs \in Seq(Txs) /\ b.slashes \in Seq(Outpoint)
  BY BlocksAssumption
<1>2. Len(b.txs) \in Nat /\ Len(b.slashes) \in Nat
  BY <1>1
<1>3. NumTxs(b) \in Nat
  BY <1>2 DEF NumTxs
<1>4. BlockSteps(b) = NumTxs(b) + Len(b.slashes)
  BY DEF BlockSteps
<1> QED
  BY <1>2, <1>3, <1>4

\* One more step of add_block: a transaction that applies, or a slash.
LEMMA StepReplays ==
  ASSUME NEW s, NEW b \in Blocks, NEW n \in Nat \ {0}, NEW l, StateAt(l, s, b, n),
         l.blocks = s.blocks,
         n <= NumTxs(b) => Applies(l, TxAt(b, Height(l) + 1, n), Height(l) + 1)
  PROVE  StateAt(BlockStep(l, b, Height(l) + 1, n), s, b, n + 1)
<1>1. /\ SettledState(s) /\ l = AfterSteps(s, b, n - 1) /\ BlockValid(s, b, Height(s) + 1)
      /\ BlockApplies(s, b, n - 1)
  BY DEF StateAt
<1>2. Height(l) = Height(s)
  BY DEF Height
<1>3. n - 1 \in Nat /\ (n - 1) + 1 = n /\ (n + 1) - 1 = n /\ n + 1 # 0
  OBVIOUS
<1>4. AfterSteps(s, b, n) = BlockStep(l, b, Height(l) + 1, n)
  <2>1. AfterSteps(s, b, (n - 1) + 1)
          = BlockStep(AfterSteps(s, b, n - 1), b, Height(s) + 1, (n - 1) + 1)
    BY <1>3, AfterStepsRec
  <2> QED
    BY <1>1, <1>2, <1>3, <2>1
<1>5. BlockApplies(s, b, n)
  <2> SUFFICES ASSUME NEW i \in 1..n, i <= NumTxs(b)
               PROVE  Applies(AfterSteps(s, b, i - 1), TxAt(b, Height(s) + 1, i), Height(s) + 1)
    BY DEF BlockApplies
  <2>1. CASE i = n
    BY <1>1, <1>2, <2>1
  <2>2. CASE i # n
    <3>1. i \in 1..(n - 1)
      BY <2>2
    <3> QED
      BY <1>1, <3>1 DEF BlockApplies
  <2> QED
    BY <2>1, <2>2
<1> QED
  BY <1>1, <1>3, <1>4, <1>5 DEF StateAt

\* add_block begins.
LEMMA EnterReplays ==
  ASSUME NEW l, SettledState(l), NEW b, BlockValid(l, b, Height(l) + 1)
  PROVE  StateAt(l, l, b, 1)
<1>1. AfterSteps(l, b, 0) = l
  BY AfterStepsRec
<1>2. BlockApplies(l, b, 0)
  BY DEF BlockApplies
<1> QED
  BY <1>1, <1>2 DEF StateAt

\* The saved chain goes on with a block that its replay so far accepts.
LEMMA LoadAccepts ==
  ASSUME NEW s, SettledState(s), s.blocks \in Seq(Blocks), NEW d \in Seq(Blocks), ValidChain(d),
         \A i \in DOMAIN s.blocks : s.blocks[i] = d[i], Height(s) + 1 \in DOMAIN d
  PROVE  Accepts(s, d[Height(s) + 1])
<1> DEFINE n == Len(s.blocks)
<1>1. n \in Nat /\ DOMAIN s.blocks = 1..n /\ Height(s) = n
  BY DEF Height
<1>2. s = AfterBlocks(s.blocks, n)
  BY DEF SettledState, Replay
<1> HIDE DEF n
<1>3. AfterBlocks(s.blocks, n) = AfterBlocks(d, n)
  BY <1>1, AfterSameBlocks
<1>4. (n + 1) - 1 = n
  BY <1>1
<1>5. Accepts(AfterBlocks(d, (n + 1) - 1), d[n + 1])
  BY <1>1 DEF ValidChain
<1> QED
  BY <1>1, <1>2, <1>3, <1>4, <1>5

LEMMA GenesisSettled == SettledState(Genesis) /\ Genesis.blocks = <<>> /\ Height(Genesis) = 0
<1>1. Genesis.blocks = <<>> /\ Genesis.work = 0 /\ Height(Genesis) = 0
  BY DEF Genesis, Height
<1>2. Restore(Genesis) = Genesis
  BY DEF Genesis, Restore
<1>3. Replay(<<>>) = Genesis
  BY AfterBlocksRec DEF Replay
<1>4. ValidChain(<<>>)
  BY DEF ValidChain
<1>5. WorkOf(<<>>) = 0
  <2>1. DOMAIN <<>> = {}
    OBVIOUS
  <2> QED
    BY <2>1, SumEmpty DEF WorkOf
<1> QED
  BY <1>1, <1>2, <1>3, <1>4, <1>5 DEF SettledState

-----------------------------------------------------------------------------
(* The invariant.                                                          *)

StatesInv == StateAt(led, snap, blk, pos) /\ SettledState(old) /\ ValidChain(disk)

CallsInv == /\ call # "failed"
            /\ call = "down" => led = Genesis /\ pos = 0
            /\ LoadInv

WorkInv == call \in {"idle", "add", "replace"} => WorkOf(disk) <= ChainWork

LEMMA ReplayInvParts == ReplayInv <=> StatesInv /\ CallsInv /\ WorkInv
  BY Zenon DEF ReplayInv, StatesInv, CallsInv, WorkInv

\* What the type invariant says of a state, and StateAt of it.
LEMMA StateFacts ==
  ASSUME Inv, StatesInv
  PROVE  /\ led.blocks \in Seq(Blocks) /\ snap.blocks \in Seq(Blocks) /\ old.blocks \in Seq(Blocks)
         /\ disk \in Seq(Blocks) /\ todo \in Seq(Blocks)
         /\ Height(led) \in Nat /\ Applying = Height(led) + 1 /\ pos \in Nat
         /\ pos > 0 => /\ blk \in Blocks /\ led.blocks = snap.blocks /\ led.work = snap.work
                       /\ Height(snap) = Height(led) /\ SettledState(snap)
         /\ pos = 0 => SettledState(led)
<1>1. led.blocks \in Seq(Blocks) /\ snap.blocks \in Seq(Blocks) /\ old.blocks \in Seq(Blocks)
  BY DEF Inv, TypeOK, LedgerTypeOK
<1>2. disk \in Seq(Blocks) /\ todo \in Seq(Blocks) /\ pos \in Nat
  BY DEF Inv, TypeOK
<1>3. Height(led) \in Nat /\ Applying = Height(led) + 1
  BY <1>1 DEF Height, Applying
<1>4. pos > 0 => blk \in Blocks /\ led.blocks = snap.blocks /\ led.work = snap.work
  BY DEF Inv, ApplyingInv
<1>5. pos > 0 => Height(snap) = Height(led)
  BY <1>4 DEF Height
<1>6. (pos > 0 => SettledState(snap)) /\ (pos = 0 => SettledState(led))
  BY <1>2 DEF StatesInv, StateAt
<1> QED
  BY <1>1, <1>2, <1>3, <1>4, <1>5, <1>6

\* What a restore brings back.
LEMMA RestoreIsSame ==
  ASSUME NEW l, SettledState(l)
  PROVE  Restore(l) = l
  BY DEF SettledState

\* The last step of add_block leaves a settled state.
LEMMA FinishSettles ==
  ASSUME Inv, StatesInv, FinishAddBlock
  PROVE  /\ pos > 0 /\ blk \in Blocks /\ SettledState(led')
         /\ led'.blocks = Append(led.blocks, blk) /\ led'.work = led.work + blk.work
<1>1. pos > 0 /\ SlashIndex = Len(blk.slashes) + 1 /\ led' = SealBlock(led, blk)
  BY DEF FinishAddBlock
<1>2. /\ blk \in Blocks /\ SettledState(snap) /\ led.blocks = snap.blocks /\ led.work = snap.work
      /\ snap.blocks \in Seq(Blocks) /\ pos \in Nat
  BY <1>1, StateFacts
<1>3. /\ NumTxs(blk) \in Nat /\ Len(blk.slashes) \in Nat
      /\ BlockSteps(blk) = NumTxs(blk) + Len(blk.slashes)
  BY <1>2, BlockStepsCounted
<1>4. pos - 1 = BlockSteps(blk)
  BY <1>1, <1>2, <1>3 DEF SlashIndex
<1>5. /\ led = AfterSteps(snap, blk, pos - 1) /\ BlockValid(snap, blk, Height(snap) + 1)
      /\ BlockApplies(snap, blk, pos - 1)
  BY <1>1, <1>2 DEF StatesInv, StateAt
<1>6. Accepts(snap, blk) /\ led = AfterSteps(snap, blk, BlockSteps(blk))
  BY <1>4, <1>5 DEF Accepts
<1>7. SettledState(SealBlock(led, blk))
  BY <1>2, <1>6, SealReplays
<1> QED
  BY <1>1, <1>2, <1>7 DEF SealBlock

\* A transaction or a slash inside add_block.
LEMMA InsideStep ==
  ASSUME Inv, StatesInv, ApplyTx \/ SlashTicket
  PROVE  /\ pos > 0 /\ pos' = pos + 1 /\ pos' > 0
         /\ led' = BlockStep(led, blk, Height(led) + 1, pos)
         /\ led'.blocks = led.blocks /\ led'.work = led.work
         /\ pos <= NumTxs(blk) => Applies(led, TxAt(blk, Height(led) + 1, pos), Height(led) + 1)
         /\ UNCHANGED <<call, blk, snap, old, todo, disk, crashes>>
<1>0. pos \in Nat /\ Applying = Height(led) + 1 /\ (pos > 0 => blk \in Blocks)
  BY StateFacts
<1>1. CASE ApplyTx
  <2>1. /\ pos \in 1..NumTxs(blk)
        /\ Applies(led, TxAt(blk, Applying, pos), Applying)
        /\ led' = ApplyTransaction(led, TxAt(blk, Applying, pos), Applying)
        /\ pos' = pos + 1
        /\ UNCHANGED <<call, blk, snap, old, todo, disk, crashes>>
    BY <1>1 DEF ApplyTx
  <2>2. NumTxs(blk) \in Nat
    <3>1. blk \in Blocks \cup {NoBlock}
      BY DEF Inv, TypeOK
    <3> QED
      BY <3>1, TxsAreCounted
  <2>3. pos > 0 /\ pos <= NumTxs(blk) /\ pos' > 0
    BY <1>0, <2>1, <2>2
  <2>4. led' = BlockStep(led, blk, Height(led) + 1, pos)
    BY <1>0, <2>1, <2>3 DEF BlockStep
  <2>5. led'.blocks = led.blocks /\ led'.work = led.work
    BY <2>1, ApplyFrame
  <2> QED
    BY <1>0, <2>1, <2>3, <2>4, <2>5
<1>2. CASE SlashTicket
  <2>1. /\ pos > 0 /\ SlashIndex \in DOMAIN blk.slashes
        /\ led' = ApplySlash(led, blk.slashes[SlashIndex])
        /\ pos' = pos + 1
        /\ UNCHANGED <<call, blk, snap, old, todo, disk, crashes>>
    BY <1>2 DEF SlashTicket
  <2>2. NumTxs(blk) \in Nat /\ Len(blk.slashes) \in Nat /\ blk.slashes \in Seq(Outpoint)
    BY <1>0, <2>1, BlockStepsCounted, BlocksAssumption
  <2>3. SlashIndex \in 1..Len(blk.slashes)
    BY <2>1, <2>2
  <2>4. SlashIndex = pos - NumTxs(blk) /\ ~(pos <= NumTxs(blk)) /\ pos' > 0
    BY <1>0, <2>1, <2>2, <2>3 DEF SlashIndex
  <2>5. led' = BlockStep(led, blk, Height(led) + 1, pos)
    BY <2>1, <2>4 DEF BlockStep
  <2>6. led'.blocks = led.blocks /\ led'.work = led.work
    BY <2>1 DEF ApplySlash
  <2> QED
    BY <2>1, <2>4, <2>5, <2>6
<1> QED
  BY <1>1, <1>2

LEMMA InitReplay == Init => ReplayInv
<1> SUFFICES ASSUME Init PROVE ReplayInv
  OBVIOUS
<1>1. StateAt(Genesis, Genesis, NoBlock, 0) /\ SettledState(Genesis)
  BY GenesisSettled DEF StateAt
<1>2. ValidChain(<<>>) /\ WorkOf(<<>>) = Genesis.work /\ Genesis.work = 0
  BY GenesisSettled DEF SettledState, Genesis
<1> QED
  BY <1>1, <1>2 DEF Init, ReplayInv, LoadInv, ChainWork

\* A step that ends outside add_block.
LEMMA RestKeepsStates ==
  ASSUME pos' = 0, SettledState(led'), SettledState(old'), ValidChain(disk')
  PROVE  StatesInv'
<1>1. StateAt(led', snap', blk', 0)
  BY DEF StateAt
<1> QED
  BY <1>1 DEF StatesInv

\* add_block begins, whoever calls it.
LEMMA EnterKeepsStates ==
  ASSUME Inv, StatesInv, NEW b, EnterAddBlock(b)
  PROVE  StatesInv'
<1>1. /\ pos = 0 /\ BlockValid(led, b, Applying) /\ led' = led /\ blk' = b /\ pos' = 1
      /\ snap' = led /\ old' = old /\ disk' = disk
  BY DEF EnterAddBlock
<1>2. SettledState(led) /\ Applying = Height(led) + 1
  BY <1>1, StateFacts
<1>3. StateAt(led, led, b, 1)
  BY <1>1, <1>2, EnterReplays
<1> QED
  BY <1>1, <1>3 DEF StatesInv

LEMMA NextStates == Inv /\ Inv' /\ ReplayInv /\ [Next]_vars => StatesInv'
<1> SUFFICES ASSUME Inv, Inv', ReplayInv, [Next]_vars PROVE StatesInv'
  OBVIOUS
<1>0. StatesInv
  BY ReplayInvParts
<1>s. /\ SettledState(old) /\ ValidChain(disk) /\ SettledState(Genesis)
      /\ pos > 0 => SettledState(snap)
      /\ pos = 0 => SettledState(led)
  BY <1>0, StateFacts, GenesisSettled DEF StatesInv
<1>r. Restore(old) = old /\ (pos > 0 => Restore(snap) = snap)
  BY <1>s, RestoreIsSame
<1>1. ASSUME NEW b \in Blocks, AddBlock(b) \/ ReplayCandidateBlock(b) PROVE StatesInv'
  BY <1>0, <1>1, EnterKeepsStates DEF AddBlock, ReplayCandidateBlock
<1>2. ASSUME NEW b \in Blocks, CandidateInvalid(b) PROVE StatesInv'
  <2>1. pos' = 0 /\ led' = Restore(old) /\ old' = Genesis /\ disk' = disk
    BY <1>2 DEF CandidateInvalid, RestoreOldChain
  <2> QED
    BY <1>r, <1>s, <2>1, RestKeepsStates
<1>3. CASE ApplyTx \/ SlashTicket
  <2>1. /\ pos > 0 /\ pos' = pos + 1
        /\ led' = BlockStep(led, blk, Height(led) + 1, pos)
        /\ pos <= NumTxs(blk) => Applies(led, TxAt(blk, Height(led) + 1, pos), Height(led) + 1)
        /\ blk' = blk /\ snap' = snap /\ old' = old /\ disk' = disk
    BY <1>0, <1>3, InsideStep
  <2>2. pos \in Nat \ {0} /\ blk \in Blocks /\ led.blocks = snap.blocks
    BY <1>0, <2>1, StateFacts
  <2>3. StateAt(BlockStep(led, blk, Height(led) + 1, pos), snap, blk, pos + 1)
    BY <1>0, <2>1, <2>2, StepReplays DEF StatesInv
  <2> QED
    BY <1>s, <2>1, <2>3 DEF StatesInv
<1>4. CASE RollBackBlock
  <2>1. /\ pos' = 0 /\ led' \in {Restore(old), Restore(snap)} /\ old' = Genesis /\ disk' = disk
        /\ pos \in 1..NumTxs(blk)
    BY <1>4 DEF RollBackBlock
  <2>2. pos > 0
    <3>1. blk \in Blocks \cup {NoBlock}
      BY DEF Inv, TypeOK
    <3>2. NumTxs(blk) \in Nat
      BY <3>1, TxsAreCounted
    <3> QED
      BY <2>1, <3>2
  <2>3. SettledState(led')
    BY <1>r, <1>s, <2>1, <2>2
  <2> QED
    BY <1>s, <2>1, <2>3, RestKeepsStates
<1>5. CASE FinishAddBlock
  <2>1. SettledState(led')
    BY <1>0, <1>5, FinishSettles
  <2>2. pos' = 0 /\ old' = old /\ disk' \in {led'.blocks, disk}
    BY <1>5 DEF FinishAddBlock, NotifyCommit
  <2>3. ValidChain(disk')
    BY <1>s, <2>1, <2>2 DEF SettledState
  <2> QED
    BY <1>s, <2>1, <2>2, <2>3, RestKeepsStates
<1>6. CASE StartReplace
  <2>1. pos = 0 /\ pos' = 0 /\ led' = Genesis /\ old' = led /\ disk' = disk
    BY <1>6 DEF StartReplace, Reset, Inv, CallInv
  <2> QED
    BY <1>s, <2>1, RestKeepsStates
<1>7. CASE FinishReplace
  <2>1. /\ pos = 0 /\ pos' = 0 /\ led' \in {led, Restore(old)} /\ old' = Genesis
        /\ disk' \in {led.blocks, disk}
    BY <1>7 DEF FinishReplace, RestoreOldChain, NotifyCommit
  <2>2. SettledState(led') /\ ValidChain(disk')
    BY <1>r, <1>s, <2>1 DEF SettledState
  <2> QED
    BY <1>s, <2>1, <2>2, RestKeepsStates
<1>8. CASE Crash
  BY <1>8, <1>s, RestKeepsStates DEF Crash
<1>9. CASE LoadBlock
  <2>1. EnterAddBlock(Head(todo)) \/ UNCHANGED <<led, blk, pos, snap, old, disk>>
    BY <1>9 DEF LoadBlock
  <2>2. CASE EnterAddBlock(Head(todo))
    BY <1>0, <2>2, EnterKeepsStates
  <2>3. CASE UNCHANGED <<led, blk, pos, snap, old, disk>>
    BY <1>0, <2>3 DEF StatesInv
  <2> QED
    BY <2>1, <2>2, <2>3
<1>10. CASE Restart \/ FinishLoad \/ UNCHANGED vars
  <2>1. UNCHANGED <<led, blk, pos, snap, old, disk>>
    BY <1>10 DEF Restart, FinishLoad, vars
  <2> QED
    BY <1>0, <2>1 DEF StatesInv
<1> QED
  BY <1>1, <1>2, <1>3, <1>4, <1>5, <1>6, <1>7, <1>8, <1>9, <1>10 DEF Next, Bounded

-----------------------------------------------------------------------------
\* load_chain never meets a block that add_block refuses, at the checks or at
\* a transaction.
LEMMA LoadNeverFails ==
  ASSUME Inv, ReplayInv, call = "load"
  PROVE  /\ pos = 0 /\ todo # <<>> => BlockValid(led, Head(todo), Applying)
         /\ pos \in 1..NumTxs(blk) => Applies(led, TxAt(blk, Applying, pos), Applying)
<1>0. StatesInv /\ LoadInv
  BY ReplayInvParts DEF CallsInv
<1>f. /\ led.blocks \in Seq(Blocks) /\ snap.blocks \in Seq(Blocks)
      /\ disk \in Seq(Blocks) /\ todo \in Seq(Blocks) /\ ValidChain(disk)
      /\ Height(led) \in Nat /\ Applying = Height(led) + 1 /\ pos \in Nat
  BY <1>0, StateFacts DEF StatesInv
<1>1. ASSUME pos = 0, todo # <<>>
      PROVE  BlockValid(led, Head(todo), Applying)
  <2>1. /\ Len(disk) = Height(led) + Len(todo)
        /\ \A i \in DOMAIN led.blocks : led.blocks[i] = disk[i]
        /\ \A i \in DOMAIN todo : todo[i] = disk[Height(led) + i]
    BY <1>0, <1>1, <1>f DEF LoadInv
  <2>2. 1 \in DOMAIN todo /\ Len(todo) \in Nat /\ Len(todo) >= 1 /\ Head(todo) = todo[1]
    BY <1>1, <1>f
  <2>3. Height(led) + 1 \in DOMAIN disk
    BY <1>f, <2>1, <2>2
  <2>4. SettledState(led)
    BY <1>0, <1>1, StateFacts
  <2>5. Accepts(led, disk[Height(led) + 1])
    BY <1>f, <2>1, <2>3, <2>4, LoadAccepts
  <2> QED
    BY <1>f, <2>1, <2>2, <2>5 DEF Accepts
<1>2. ASSUME pos \in 1..NumTxs(blk)
      PROVE  Applies(led, TxAt(blk, Applying, pos), Applying)
  <2>1. NumTxs(blk) \in Nat
    <3>1. blk \in Blocks \cup {NoBlock}
      BY DEF Inv, TypeOK
    <3> QED
      BY <3>1, TxsAreCounted
  <2>2. pos > 0 /\ pos <= NumTxs(blk)
    BY <1>2, <2>1
  <2>3. /\ blk \in Blocks /\ snap.blocks = led.blocks /\ Height(snap) = Height(led)
        /\ SettledState(snap)
    BY <1>0, <2>2, StateFacts
  <2>4. /\ Len(disk) = Height(led) + 1 + Len(todo)
        /\ \A i \in DOMAIN led.blocks : led.blocks[i] = disk[i]
        /\ blk = disk[Height(led) + 1]
    BY <1>0, <1>f, <2>2 DEF LoadInv
  <2>5. Height(led) + 1 \in DOMAIN disk
    <3>1. Len(todo) \in Nat
      BY <1>f
    <3> QED
      BY <1>f, <2>4, <3>1
  <2>6. Accepts(snap, blk)
    BY <1>f, <2>3, <2>4, <2>5, LoadAccepts
  <2>7. NumTxs(blk) <= BlockSteps(blk) /\ BlockSteps(blk) \in Nat
    BY <2>3, BlockStepsCounted
  <2>8. pos \in 1..BlockSteps(blk)
    BY <1>f, <2>1, <2>2, <2>7
  <2>9. Applies(AfterSteps(snap, blk, pos - 1), TxAt(blk, Height(snap) + 1, pos), Height(snap) + 1)
    BY <2>2, <2>6, <2>8 DEF Accepts, BlockApplies
  <2>10. led = AfterSteps(snap, blk, pos - 1)
    BY <1>0, <2>2, <1>f DEF StatesInv, StateAt
  <2> QED
    BY <1>f, <2>3, <2>9, <2>10
<1> QED
  BY <1>1, <1>2

LEMMA NextCalls == Inv /\ Inv' /\ ReplayInv /\ [Next]_vars => CallsInv'
<1> SUFFICES ASSUME Inv, Inv', ReplayInv, [Next]_vars PROVE CallsInv'
  OBVIOUS
<1>0. StatesInv /\ CallsInv /\ LoadInv
  BY ReplayInvParts DEF CallsInv
<1>f. /\ led.blocks \in Seq(Blocks) /\ disk \in Seq(Blocks) /\ todo \in Seq(Blocks)
      /\ Height(led) \in Nat /\ pos \in Nat /\ Applying = Height(led) + 1
      /\ Height(led) = Len(led.blocks)
  BY <1>0, StateFacts DEF Height
<1>t. ASSUME call' \in {"idle", "add", "replace"} PROVE CallsInv'
  BY <1>t DEF CallsInv, LoadInv
<1>1. ASSUME NEW b \in Blocks, AddBlock(b) \/ ReplayCandidateBlock(b) \/ CandidateInvalid(b)
      PROVE  CallsInv'
  BY <1>1, <1>t DEF AddBlock, ReplayCandidateBlock, CandidateInvalid
<1>2. CASE ApplyTx \/ SlashTicket
  <2>1. /\ pos > 0 /\ pos' > 0 /\ led'.blocks = led.blocks
        /\ call' = call /\ blk' = blk /\ todo' = todo /\ disk' = disk
    BY <1>0, <1>2, InsideStep
  <2>2. call # "down" /\ call # "failed"
    BY <1>0, <2>1 DEF CallsInv
  <2>3. LoadInv'
    BY <1>0, <2>1 DEF LoadInv, Height
  <2> QED
    BY <2>1, <2>2, <2>3 DEF CallsInv
<1>3. CASE RollBackBlock
  <2>1. /\ pos \in 1..NumTxs(blk) /\ ~Applies(led, TxAt(blk, Applying, pos), Applying)
        /\ call' = IF call = "load" THEN "failed" ELSE "idle"
    BY <1>3 DEF RollBackBlock
  <2>2. call # "load"
    BY <2>1, LoadNeverFails
  <2> QED
    BY <1>t, <2>1, <2>2
<1>4. CASE FinishAddBlock
  <2>1. /\ pos > 0 /\ blk \in Blocks /\ led'.blocks = Append(led.blocks, blk)
    BY <1>0, <1>4, FinishSettles
  <2>2. /\ call' = IF call = "add" THEN "idle" ELSE call
        /\ pos' = 0 /\ todo' = todo /\ (call # "add" => disk' = disk)
    BY <1>4 DEF FinishAddBlock, SealsWithCommit
  <2>3. call # "down" /\ call # "failed"
    BY <1>0, <2>1 DEF CallsInv
  <2>4. ASSUME call = "load" PROVE LoadInv'
    <3>1. /\ Len(disk) = Height(led) + 1 + Len(todo)
          /\ \A i \in DOMAIN led.blocks : led.blocks[i] = disk[i]
          /\ blk = disk[Height(led) + 1]
          /\ \A i \in DOMAIN todo : todo[i] = disk[Height(led) + 1 + i]
      BY <1>0, <1>f, <2>1, <2>4 DEF LoadInv
    <3>2. /\ DOMAIN led'.blocks = DOMAIN led.blocks \cup {Height(led) + 1}
          /\ Height(led') = Height(led) + 1
          /\ led'.blocks[Height(led) + 1] = blk
          /\ \A i \in DOMAIN led.blocks : led'.blocks[i] = led.blocks[i]
      BY <1>f, <2>1, AppendFacts DEF Height
    <3>3. \A i \in DOMAIN led'.blocks : led'.blocks[i] = disk[i]
      BY <3>1, <3>2
    <3>4. /\ Len(disk) = Height(led') + Len(todo)
          /\ \A i \in DOMAIN todo : todo[i] = disk[Height(led') + i]
      BY <3>1, <3>2
    <3>5. pos' = 0 /\ todo' = todo /\ disk' = disk /\ Height(led') + 0 = Height(led')
      BY <1>f, <2>2, <2>4, <3>2
    <3> QED
      BY <3>3, <3>4, <3>5 DEF LoadInv
  <2>5. CASE call = "load"
    BY <2>2, <2>4, <2>5 DEF CallsInv
  <2>6. CASE call # "load"
    <3>1. call' \in {"idle", "replace"}
      BY <2>2, <2>3, <2>6 DEF Inv, TypeOK
    <3> QED
      BY <1>t, <3>1
  <2> QED
    BY <2>5, <2>6
<1>5. CASE StartReplace \/ FinishReplace \/ FinishLoad
  BY <1>5, <1>t DEF StartReplace, FinishReplace, FinishLoad
<1>6. CASE Crash
  BY <1>6 DEF Crash, CallsInv, LoadInv
<1>7. CASE Restart
  <2>1. /\ call' = "load" /\ todo' = disk /\ disk' = disk /\ led' = Genesis /\ pos' = 0
        /\ Height(Genesis) = 0 /\ Genesis.blocks = <<>>
    BY <1>0, <1>7, GenesisSettled DEF Restart, CallsInv
  <2>2. LoadInv'
    BY <1>f, <2>1 DEF LoadInv
  <2> QED
    BY <2>1, <2>2 DEF CallsInv
<1>8. CASE LoadBlock
  <2>1. call = "load" /\ pos = 0 /\ todo # <<>> /\ BlockValid(led, Head(todo), Applying)
    BY <1>8, LoadNeverFails DEF LoadBlock
  <2>2. /\ led' = led /\ blk' = Head(todo) /\ pos' = 1 /\ todo' = Tail(todo)
        /\ disk' = disk /\ call' = "load"
    BY <1>8, <2>1 DEF LoadBlock, EnterAddBlock
  <2>3. /\ Len(disk) = Height(led) + Len(todo)
        /\ \A i \in DOMAIN led.blocks : led.blocks[i] = disk[i]
        /\ \A i \in DOMAIN todo : todo[i] = disk[Height(led) + i]
    BY <1>0, <1>f, <2>1 DEF LoadInv
  <2>4. /\ 1 \in DOMAIN todo /\ Head(todo) = todo[1] /\ Len(todo) = 1 + Len(Tail(todo))
        /\ \A i \in DOMAIN Tail(todo) :
             i \in Nat /\ i + 1 \in DOMAIN todo /\ Tail(todo)[i] = todo[i + 1]
        /\ Len(Tail(todo)) \in Nat
    BY <1>f, <2>1
  <2>5. /\ Len(disk) = Height(led) + 1 + Len(Tail(todo))
        /\ Head(todo) = disk[Height(led) + 1]
        /\ \A i \in DOMAIN Tail(todo) : Tail(todo)[i] = disk[Height(led) + 1 + i]
    <3> DEFINE rest == Tail(todo)
               first == Head(todo)
               h == Height(led)
    <3>1. /\ h \in Nat /\ 1 \in DOMAIN todo /\ first = todo[1]
          /\ Len(todo) = 1 + Len(rest) /\ Len(rest) \in Nat
          /\ \A i \in DOMAIN rest : i \in Nat /\ i + 1 \in DOMAIN todo /\ rest[i] = todo[i + 1]
          /\ Len(disk) = h + Len(todo) /\ \A i \in DOMAIN todo : todo[i] = disk[h + i]
      BY <1>f, <2>3, <2>4
    <3> HIDE DEF rest, first, h
    <3>2. Len(disk) = h + 1 + Len(rest)
      BY <3>1
    <3>3. first = disk[h + 1]
      BY <3>1, Zenon
    <3>4. ASSUME NEW i \in DOMAIN rest PROVE rest[i] = disk[h + 1 + i]
      <4>1. rest[i] = disk[h + (i + 1)] /\ i \in Nat
        BY <3>1, Zenon
      <4>2. h + (i + 1) = h + 1 + i
        BY <3>1, <4>1
      <4> QED
        BY <4>1, <4>2, Zenon
    <3> QED
      BY <3>2, <3>3, <3>4, Zenon DEF rest, first, h
  <2>6. LoadInv'
    BY <2>2, <2>3, <2>5 DEF LoadInv
  <2> QED
    BY <2>2, <2>6 DEF CallsInv
<1>9. CASE UNCHANGED vars
  BY <1>0, <1>9 DEF vars, CallsInv, LoadInv
<1> QED
  BY <1>1, <1>2, <1>3, <1>4, <1>5, <1>6, <1>7, <1>8, <1>9 DEF Next, Bounded

-----------------------------------------------------------------------------
LEMMA WorkType ==
  ASSUME NEW s \in Seq(Blocks)
  PROVE  WorkOf(s) \in Nat
<1> DEFINE W == [i \in DOMAIN s |-> s[i].work]
<1>1. NatOn(W, DOMAIN s)
  <2>1. \A b \in Blocks : b.work \in Nat
    BY BlocksAssumption
  <2>2. \A i \in DOMAIN s : s[i] \in Blocks
    OBVIOUS
  <2> QED
    BY <2>1, <2>2 DEF NatOn
<1>2. IsFiniteSet(DOMAIN s)
  <2>1. DOMAIN s = 1..Len(s) /\ Len(s) \in Nat
    OBVIOUS
  <2> QED
    BY <2>1, FinRange
<1>3. WorkOf(s) = SumFunctionOnSet(W, DOMAIN s)
  BY Zenon DEF WorkOf
<1> HIDE DEF W
<1> QED
  BY <1>1, <1>2, <1>3, SumType

\* load_chain has replayed every saved block: the ledger holds the saved chain.
LEMMA LoadedWork ==
  ASSUME Inv, ReplayInv, FinishLoad
  PROVE  pos = 0 /\ led.work = WorkOf(disk)
<1>0. StatesInv /\ LoadInv /\ call = "load" /\ pos = 0 /\ todo = <<>>
  BY ReplayInvParts DEF CallsInv, FinishLoad
<1>1. led.blocks \in Seq(Blocks) /\ disk \in Seq(Blocks) /\ SettledState(led) /\ Height(led) \in Nat
  BY <1>0, StateFacts
<1>2. Len(disk) = Len(led.blocks) /\ \A i \in DOMAIN led.blocks : led.blocks[i] = disk[i]
  BY <1>0, <1>1 DEF LoadInv, Height
<1>3. led.blocks = disk
  BY <1>1, <1>2
<1> QED
  BY <1>0, <1>1, <1>3 DEF SettledState

\* What a step does to the saved chain and to the work of the chain the node
\* answers with.
LEMMA NextWork ==
  ASSUME Inv, Inv', ReplayInv, StatesInv', [Next]_vars
  PROVE  WorkInv' /\ WorkOf(disk) <= WorkOf(disk')
<1>0. StatesInv /\ WorkInv /\ CallsInv
  BY ReplayInvParts
<1>f. /\ led.blocks \in Seq(Blocks) /\ disk \in Seq(Blocks) /\ disk' \in Seq(Blocks)
      /\ led.work \in Nat /\ snap.work \in Nat /\ old.work \in Nat
      /\ call \in {"idle", "add", "replace", "load", "down", "failed"}
  BY DEF Inv, TypeOK, LedgerTypeOK
<1>w. WorkOf(disk) \in Nat /\ WorkOf(disk') \in Nat
  BY <1>f, WorkType
<1>c. /\ call = "add" => pos > 0
      /\ call \in {"idle", "down", "failed"} => pos = 0
      /\ pos > 0 => led.work = snap.work
  BY <1>0, StateFacts DEF Inv, CallInv
<1>r. Restore(old).work = old.work /\ Restore(snap).work = snap.work
  BY RestoreKeepsLedgerInv DEF Inv
<1>s. ASSUME disk' = disk, ChainWork' = ChainWork,
             call' \in {"idle", "add", "replace"} => call \in {"idle", "add", "replace"}
      PROVE  WorkInv' /\ WorkOf(disk) <= WorkOf(disk')
  BY <1>0, <1>s, <1>w DEF WorkInv
<1>1. ASSUME NEW b \in Blocks, AddBlock(b) \/ ReplayCandidateBlock(b)
      PROVE  WorkInv' /\ WorkOf(disk) <= WorkOf(disk')
  <2>1. disk' = disk /\ ChainWork' = ChainWork /\ call \in {"idle", "add", "replace"}
    BY <1>1 DEF AddBlock, ReplayCandidateBlock, EnterAddBlock, ChainWork
  <2> QED
    BY <1>s, <2>1
<1>2. ASSUME NEW b \in Blocks, CandidateInvalid(b)
      PROVE  WorkInv' /\ WorkOf(disk) <= WorkOf(disk')
  <2>1. disk' = disk /\ ChainWork' = ChainWork /\ call \in {"idle", "add", "replace"}
    BY <1>2, <1>r DEF CandidateInvalid, RestoreOldChain, ChainWork
  <2> QED
    BY <1>s, <2>1
<1>3. CASE ApplyTx \/ SlashTicket
  <2>1. /\ disk' = disk /\ call' = call /\ pos > 0 /\ pos' > 0 /\ snap' = snap /\ old' = old
    BY <1>0, <1>3, InsideStep
  <2>2. ChainWork' = ChainWork
    BY <2>1 DEF ChainWork
  <2> QED
    BY <1>s, <2>1, <2>2
<1>4. CASE RollBackBlock
  <2>1. /\ pos \in 1..NumTxs(blk) /\ ~Applies(led, TxAt(blk, Applying, pos), Applying)
        /\ led' = IF call = "replace" THEN Restore(old) ELSE Restore(snap)
        /\ call' = IF call = "load" THEN "failed" ELSE "idle"
        /\ pos' = 0 /\ disk' = disk
    BY <1>4 DEF RollBackBlock
  <2>2. call # "load" /\ pos # 0
    <3>1. blk \in Blocks \cup {NoBlock}
      BY DEF Inv, TypeOK
    <3>2. NumTxs(blk) \in Nat
      BY <3>1, TxsAreCounted
    <3> QED
      BY <2>1, <3>2, LoadNeverFails
  <2>3. call \in {"add", "replace"} /\ call' = "idle" /\ (call = "add" => pos > 0)
    BY <1>c, <1>f, <2>1, <2>2
  <2>4. ChainWork' = ChainWork
    BY <1>r, <2>1, <2>3 DEF ChainWork
  <2> QED
    BY <1>s, <2>1, <2>3, <2>4
<1>5. CASE FinishAddBlock
  <2>1. /\ pos > 0 /\ blk \in Blocks /\ SettledState(led')
        /\ led'.blocks = Append(led.blocks, blk) /\ led'.work = led.work + blk.work
    BY <1>0, <1>5, FinishSettles
  <2>2. /\ disk' = disk \/ (call = "add" /\ disk' = led'.blocks)
        /\ call' = IF call = "add" THEN "idle" ELSE call
        /\ pos' = 0 /\ old' = old
    BY <1>5 DEF FinishAddBlock, SealsWithCommit, NotifyCommit
  <2>3. blk.work \in Nat /\ led'.work = WorkOf(led'.blocks)
    BY <2>1, BlocksAssumption DEF SettledState
  <2>4. CASE call = "add"
    <3>1. ChainWork = led.work /\ ChainWork' = led'.work /\ WorkOf(disk) <= ChainWork
      BY <1>0, <1>c, <2>1, <2>2, <2>4 DEF WorkInv, ChainWork
    <3>2. WorkOf(disk) <= led'.work /\ led'.work \in Nat
      BY <1>f, <1>w, <2>1, <2>3, <3>1
    <3>3. WorkOf(disk') \in {WorkOf(disk), led'.work}
      BY <2>2, <2>3
    <3> QED
      BY <1>w, <3>1, <3>2, <3>3 DEF WorkInv
  <2>5. CASE call = "replace"
    BY <1>s, <2>2, <2>5 DEF ChainWork
  <2>6. CASE call = "load"
    BY <1>w, <2>2, <2>6 DEF WorkInv
  <2> QED
    BY <1>c, <1>f, <2>1, <2>4, <2>5, <2>6
<1>6. CASE StartReplace
  <2>1. disk' = disk /\ call = "idle" /\ call' = "replace" /\ old' = led
    BY <1>6 DEF StartReplace
  <2>2. ChainWork' = ChainWork
    BY <1>c, <2>1 DEF ChainWork
  <2> QED
    BY <1>s, <2>1, <2>2
<1>7. CASE FinishReplace
  <2>1. call = "replace" /\ pos = 0 /\ call' = "idle" /\ pos' = 0
    BY <1>7 DEF FinishReplace
  <2>2. ChainWork = old.work /\ ChainWork' = led'.work /\ WorkOf(disk) <= old.work
    BY <1>0, <2>1 DEF ChainWork, WorkInv
  <2>3. CASE Heavier
    <3>1. led' = led /\ disk' \in {led.blocks, disk} /\ led.work > old.work
      BY <1>7, <2>3 DEF FinishReplace, NotifyCommit, Heavier
    <3>2. led.work = WorkOf(led.blocks)
      BY <1>0, <2>1, StateFacts DEF SettledState
    <3>3. WorkOf(disk') \in {led.work, WorkOf(disk)}
      BY <3>1, <3>2
    <3> QED
      BY <1>f, <1>w, <2>2, <3>1, <3>3 DEF WorkInv
  <2>4. CASE ~Heavier
    <3>1. led' = Restore(old) /\ disk' = disk
      BY <1>7, <2>4 DEF FinishReplace, RestoreOldChain
    <3> QED
      BY <1>r, <1>s, <2>1, <2>2, <3>1
  <2> QED
    BY <2>3, <2>4
<1>8. CASE Crash \/ Restart
  <2>1. disk' = disk /\ call' \in {"down", "load"}
    BY <1>8 DEF Crash, Restart
  <2> QED
    BY <1>w, <2>1 DEF WorkInv
<1>9. CASE LoadBlock
  <2>1. disk' = disk /\ call' \in {"load", "failed"}
    BY <1>9 DEF LoadBlock, EnterAddBlock
  <2> QED
    BY <1>w, <2>1 DEF WorkInv
<1>10. CASE FinishLoad
  <2>1. pos = 0 /\ led.work = WorkOf(disk)
    BY <1>10, LoadedWork
  <2>2. disk' = disk /\ call' = "idle" /\ led' = led /\ pos' = pos
    BY <1>10 DEF FinishLoad
  <2>3. ChainWork' = led.work
    BY <2>1, <2>2 DEF ChainWork
  <2> QED
    BY <1>w, <2>1, <2>2, <2>3 DEF WorkInv
<1>11. CASE UNCHANGED vars
  BY <1>s, <1>11 DEF vars, ChainWork
<1> QED
  BY <1>1, <1>2, <1>3, <1>4, <1>5, <1>6, <1>7, <1>8, <1>9, <1>10, <1>11 DEF Next, Bounded

LEMMA NextReplay == Inv /\ Inv' /\ ReplayInv /\ [Next]_vars => ReplayInv'
<1> SUFFICES ASSUME Inv, Inv', ReplayInv, [Next]_vars PROVE ReplayInv'
  OBVIOUS
<1>1. StatesInv'
  BY NextStates
<1>2. CallsInv'
  BY NextCalls
<1>3. WorkInv'
  BY <1>1, NextWork
<1> QED
  BY <1>1, <1>2, <1>3, Zenon DEF ReplayInv, StatesInv, CallsInv, WorkInv

LEMMA ReplayInvariance == Spec => []ReplayInv
  BY Invariance, InitReplay, NextReplay, PTL DEF Spec

-----------------------------------------------------------------------------
\* Between calls the ledger is what replaying its blocks from genesis gives,
\* member by member: no rollback, rejected candidate or reload leaves a trace.
THEOREM StateReplays == Spec => []StateIsReplayOfBlocks
<1>1. Inv /\ ReplayInv => StateIsReplayOfBlocks
  <2> SUFFICES ASSUME Inv, ReplayInv, call = "idle" PROVE led = Replay(led.blocks)
    BY DEF StateIsReplayOfBlocks
  <2>1. pos = 0
    BY DEF Inv, CallInv
  <2>2. SettledState(led)
    BY <2>1, ReplayInvParts, StateFacts
  <2> QED
    BY <2>2 DEF SettledState
<1> QED
  BY <1>1, Invariance, ReplayInvariance, PTL

\* load_chain accepts every chain that notify_commit can have left in the data
\* directory, whenever the process died.
THEOREM CommittedLoads == Spec => []CommittedChainLoads
<1>1. ReplayInv => CommittedChainLoads
  BY DEF ReplayInv, CommittedChainLoads
<1> QED
  BY <1>1, ReplayInvariance, PTL

\* The saved chain gives way only to one with at least as much work.
THEOREM SavedWork == Spec => SavedWorkNeverDecreases
<1>1. Inv /\ Inv' /\ ReplayInv /\ [Next]_vars => [WorkOf(disk') >= WorkOf(disk)]_vars
  <2> SUFFICES ASSUME Inv, Inv', ReplayInv, [Next]_vars PROVE WorkOf(disk') >= WorkOf(disk)
    OBVIOUS
  <2>1. StatesInv'
    BY NextStates
  <2>2. WorkOf(disk) <= WorkOf(disk')
    BY <2>1, NextWork
  <2>3. WorkOf(disk) \in Nat /\ WorkOf(disk') \in Nat
    <3>1. disk \in Seq(Blocks) /\ disk' \in Seq(Blocks)
      BY DEF Inv, TypeOK
    <3> QED
      BY <3>1, WorkType
  <2> QED
    BY <2>2, <2>3
<1> QED
  BY <1>1, Invariance, ReplayInvariance, PTL DEF Spec, SavedWorkNeverDecreases
=============================================================================
