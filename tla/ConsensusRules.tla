--------------------------- MODULE ConsensusRules ---------------------------
(***************************************************************************)
(* The pure consensus arithmetic of src/consensus_rules.cpp: the subsidy   *)
(* schedule with its hard cap, the closed form for the total emission, and *)
(* the LWMA difficulty retarget.  Nothing here has state; Ledger uses the  *)
(* subsidy rules, EmissionSchedule and MCRetarget compare the operators    *)
(* with reference definitions.  Amounts are mathematical integers: every   *)
(* product of the code is taken in 128 bits.                               *)
(***************************************************************************)
EXTENDS Integers, Sequences, FiniteSetsExt

\* Halvings after which a reward has been shifted out completely.  The code
\* has 64, the width of its rewards; rewards here are below 2^30 (mainnet pays
\* 4), for which shifting by 30 or by 64 both give 0.
MaxHalvings == 30

\* The only fact about exponentiation the proofs need.
ASSUME PowersOfTwo == \A n \in 0..MaxHalvings : 2^n \in Nat \ {0}

MinOf(a, b) == IF a < b THEN a ELSE b

MaxOf(a, b) == IF a > b THEN a ELSE b

\* std::clamp on unsigned values; the bounds are swapped when given reversed.
ClampU64(v, a, b) ==
  LET lo == MinOf(a, b)
      hi == MaxOf(a, b)
  IN  IF v < lo THEN lo ELSE IF v > hi THEN hi ELSE v

(***************************************************************************)
(* Subsidy.                                                                *)
(***************************************************************************)

ScheduledBlockSubsidyNoFloor(height, reward, interval, floor) ==
  IF interval = 0 THEN reward
  ELSE LET halvings == height \div interval
       IN  IF halvings >= MaxHalvings THEN 0 ELSE reward \div 2^halvings

ScheduledBlockSubsidy(height, reward, interval, floor) ==
  IF interval = 0 THEN reward
  ELSE LET halvings == height \div interval
           r == IF halvings >= MaxHalvings THEN 0 ELSE reward \div 2^halvings
       IN  MaxOf(r, MinOf(floor, reward))

\* Mutant: the cap is not applied to the scheduled subsidy.
MaxMintableUncapped(height, emitted, supply, reward, interval, floor) ==
  ScheduledBlockSubsidy(height, reward, interval, floor)

MaxMintableSubsidy(height, emitted, supply, reward, interval, floor) ==
  MinOf(ScheduledBlockSubsidy(height, reward, interval, floor),
        IF supply > emitted THEN supply - emitted ELSE 0)

(***************************************************************************)
(* scheduled_total_emission walks the eras and stops in the one that       *)
(* reaches the cap.  A floor era never ends, so only finitely many eras    *)
(* precede it; EraTotal[e] is `total` when the loop reaches era e.         *)
(***************************************************************************)

EraReward(e, reward, floor) == MaxOf(reward \div 2^e, MinOf(floor, reward))

EraFirst(e, interval) == IF e = 0 THEN 1 ELSE e * interval

FloorEra(e, reward, floor) ==
  /\ MinOf(floor, reward) > 0
  /\ reward \div 2^e <= MinOf(floor, reward)

EraBlocksFromGenesis(e, interval) == interval

\* Blocks of an era that is not the floor era.
EraBlocks(e, interval) == (e + 1) * interval - EraFirst(e, interval)

\* Coins emitted by the eras before e, while none of them reaches the cap.
EraTotal(e, reward, interval, floor) ==
  LET total[k \in 0..e] ==
        IF k = 0 THEN 0
        ELSE total[k - 1] + EraReward(k - 1, reward, floor) * EraBlocks(k - 1, interval)
  IN  total[e]

\* The era in which the loop returns max_supply, if there is one.
ReachesCap(e, supply, reward, interval, floor) ==
  /\ EraReward(e, reward, floor) > 0
  /\ \/ FloorEra(e, reward, floor)
     \/ EraTotal(e + 1, reward, interval, floor) >= supply

CapEras(supply, reward, interval, floor) ==
  {e \in 0..(MaxHalvings - 1) : ReachesCap(e, supply, reward, interval, floor)}

ScheduledTotalEmission(supply, reward, interval, floor) ==
  IF interval = 0 THEN 0
  ELSE IF CapEras(supply, reward, interval, floor) # {} THEN supply
  ELSE EraTotal(MaxHalvings, reward, interval, floor)

\* *cap_height: the height whose block reaches max_supply, 0 when none does.
CapHeight(supply, reward, interval, floor) ==
  LET eras == CapEras(supply, reward, interval, floor)
      e    == Min(eras)
      r    == EraReward(e, reward, floor)
      need == supply - EraTotal(e, reward, interval, floor)
  IN  IF interval = 0 \/ eras = {} THEN 0
      ELSE EraFirst(e, interval) + (need + r - 1) \div r - 1

(***************************************************************************)
(* LWMA retarget: ts and tg are the timestamps and targets of consecutive  *)
(* blocks, oldest first, the tip last.                                     *)
(***************************************************************************)

\* kLwmaMaxSolvetimeMultiple
MaxSolvetimeMultiple == 6

SolvetimeUnclamped(ts, j, T) == IF ts[j + 1] > ts[j] THEN ts[j + 1] - ts[j] ELSE 0

Solvetime(ts, j, T) ==
  MinOf(IF ts[j + 1] > ts[j] THEN ts[j + 1] - ts[j] ELSE 0, MaxSolvetimeMultiple * T)

LwmaWeighted(ts, T) ==
  LET n == Len(ts) - 1
      k == (n * (n + 1)) \div 2
  IN  MaxOf(MapThenSumSet(LAMBDA j : Solvetime(ts, j, T) * j, 1..n), (k * T) \div 10)

\* Mutant: the move is not limited to [prev/2, 2*prev].
LwmaNextTargetUnlimited(ts, tg, T, lo, hi, fallback) ==
  IF Len(ts) < 2 \/ T = 0 THEN ClampU64(fallback, lo, hi)
  ELSE LET n   == Len(ts) - 1
           k   == (n * (n + 1)) \div 2
           avg == MapThenSumSet(LAMBDA j : tg[j + 1], 1..n) \div n
       IN  ClampU64(MaxOf(1, (avg * LwmaWeighted(ts, T)) \div (k * T)), lo, hi)

LwmaNextTarget(ts, tg, T, lo, hi, fallback) ==
  IF Len(ts) < 2 \/ T = 0 THEN ClampU64(fallback, lo, hi)
  ELSE LET n    == Len(ts) - 1
           k    == (n * (n + 1)) \div 2
           avg  == MapThenSumSet(LAMBDA j : tg[j + 1], 1..n) \div n
           raw  == (avg * LwmaWeighted(ts, T)) \div (k * T)
           prev == tg[Len(tg)]
           step == MinOf(MaxOf(raw, prev \div 2), prev * 2)
       IN  ClampU64(MaxOf(1, step), lo, hi)
=============================================================================
