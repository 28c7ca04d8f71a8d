------------------------------ MODULE Retarget ------------------------------
(***************************************************************************)
(* Difficulty retargeting along one branch of the chain: the header fields *)
(* timestamp and difficulty_target of every block, and difficulty_target_, *)
(* the target the next header must carry (Chain::add_block recomputes it   *)
(* after every block).  Below the fork height the legacy windowed rule     *)
(* applies, from it on LWMA.  A higher target is easier.                   *)
(***************************************************************************)
EXTENDS ConsensusRules

CONSTANTS
  BlockTime,        \* target_block_time_sec
  LwmaWindow,       \* lwma_window
  RetargetWindow,   \* retarget_window of the legacy rule
  ForkHeight,       \* difficulty_fork_height
  MinTarget, MaxTarget, LegacyMinTarget, InitialTarget,
  MaxU64,           \* largest value of the unsigned type, scaled down
  Solvetimes,       \* seconds a block may take
  LastBlock         \* bound: blocks mined

VARIABLES ts, tg, target

vars == <<ts, tg, target>>

\* Positions are 1-based: genesis is block 1 and blocks_[i] is position i + 1.
TipHeight == Len(ts) - 1

ClampDifficultyTarget(t) == ClampU64(t, MinTarget, MaxTarget)

LegacyMin ==
  IF LegacyMinTarget # 0 THEN MaxOf(LegacyMinTarget, MinTarget) ELSE MinTarget

ClampLegacyUnbounded(t) == MaxOf(t, LegacyMin)

ClampLegacy(t) == MinOf(MaxOf(t, LegacyMin), MaxTarget)

\* compute_legacy_difficulty_target; s and d are the timestamps and the target
\* in force once the new block is in place.  Genesis is never the oldest bound.
LegacyTarget(s, d) ==
  LET size     == Len(s)
      atWindow == /\ RetargetWindow # 0
                  /\ size >= RetargetWindow + 1
                  /\ (size - 1) % RetargetWindow = 0
      oldest   == MaxOf(1, size - 1 - RetargetWindow)
      observed == IF s[size] > s[oldest + 1] THEN s[size] - s[oldest + 1] ELSE 1
      expected == RetargetWindow * BlockTime
      capped   == MinOf(MaxOf(observed, MaxOf(1, expected \div 4)), expected * 4)
  IN  ClampLegacy(
        IF ~atWindow \/ oldest >= size - 1 \/ expected = 0 THEN d
        ELSE IF d > MaxU64 \div capped THEN MaxTarget
        ELSE (d * capped) \div expected)

WindowFirstWithGenesis(size) ==
  LET window == MaxOf(2, LwmaWindow)
  IN  size - MinOf(size, window + 1) + 1

\* The entries of blocks_ LWMA reads: the last window + 1, never genesis.
WindowFirst(size) ==
  LET window == MaxOf(2, LwmaWindow)
  IN  MaxOf(1, size - MinOf(size, window + 1)) + 1

ComputeNextDifficultyTarget(s, g, d) ==
  IF Len(s) < ForkHeight THEN LegacyTarget(s, d)
  ELSE IF Len(s) < 3 THEN ClampDifficultyTarget(InitialTarget)
  ELSE LET first == WindowFirst(Len(s))
       IN  LwmaNextTarget(SubSeq(s, first, Len(s)), SubSeq(g, first, Len(g)),
                          BlockTime, MinTarget, MaxTarget, d)

Init ==
  /\ ts = <<0>>
  /\ tg = <<InitialTarget>>
  /\ target = InitialTarget

\* A header is accepted when its time does not run backwards and it carries
\* the required target; the required target of the next one follows.
AddHeader(solvetime) ==
  /\ TipHeight < LastBlock
  /\ ts' = Append(ts, ts[Len(ts)] + solvetime)
  /\ tg' = Append(tg, target)
  /\ target' = ComputeNextDifficultyTarget(ts', tg', target)

Bounded == TipHeight = LastBlock /\ UNCHANGED vars

Next == (\E s \in Solvetimes : AddHeader(s)) \/ Bounded

Spec == Init /\ [][Next]_vars

-----------------------------------------------------------------------------
\* Whether the target in force was computed by LWMA over mined blocks only.
ByLwma == Len(ts) >= ForkHeight /\ Len(ts) >= 3

\* The last LwmaWindow mined blocks: solvetimes and targets LWMA averages.
WindowLow == MaxOf(2, Len(ts) - LwmaWindow)

WindowSolvetimes == {ts[i + 1] - ts[i] : i \in WindowLow..(Len(ts) - 1)}

WindowTargets == {tg[i] : i \in (WindowLow + 1)..Len(ts)}

\* validate_block_header rejects any target outside the configured range, so a
\* required target outside it would halt the chain.
TargetWithinBounds ==
  MinTarget <= target /\ target <= MaxTarget

\* consensus_rules.hpp: "The per-block move is limited to [prev/2, prev*2]".
MoveLimited ==
  ByLwma => tg[Len(tg)] \div 2 <= target /\ target <= 2 * tg[Len(tg)]

\* A window of blocks that all took the target time at one difficulty leaves
\* that difficulty alone: genesis' frozen timestamp never enters the window.
SteadyWindowKeepsTarget ==
  ByLwma /\ WindowSolvetimes = {BlockTime} /\ Cardinality(WindowTargets) = 1
    => {target} = WindowTargets

\* LWMA never moves the wrong way: a window of blocks that were all at most
\* (at least) on time does not ease (harden) an unchanged target.
RespondsInTheRightDirection ==
  ByLwma /\ Cardinality(WindowTargets) = 1 =>
    /\ (\A s \in WindowSolvetimes : s <= BlockTime) => \A t \in WindowTargets : target <= t
    /\ (\A s \in WindowSolvetimes : s >= BlockTime) => \A t \in WindowTargets : target >= t
=============================================================================
