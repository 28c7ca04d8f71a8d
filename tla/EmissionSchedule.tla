-------------------------- MODULE EmissionSchedule --------------------------
(***************************************************************************)
(* A chain whose every block mints all it may: the per-block rule          *)
(* (max_mintable_subsidy, used by Chain::max_mintable_at) run block by     *)
(* block next to the closed form scheduled_total_emission, which config    *)
(* validation trusts to say that a mainnet schedule lands on the cap.      *)
(***************************************************************************)
EXTENDS ConsensusRules

CONSTANTS Supplies, Rewards, Intervals, Floors,   \* the schedules compared
          LastHeight                               \* bound: blocks mined

VARIABLES cfg, height, emitted

vars == <<cfg, height, emitted>>

MintableAt(h) ==
  MaxMintableSubsidy(h, emitted, cfg.supply, cfg.reward, cfg.interval, cfg.floor)

Init ==
  /\ cfg \in [supply : Supplies, reward : Rewards, interval : Intervals, floor : Floors]
  /\ height = 0      \* genesis mints nothing
  /\ emitted = 0

MineBlock ==
  /\ height < LastHeight
  /\ height' = height + 1
  /\ emitted' = emitted + MintableAt(height + 1)
  /\ UNCHANGED cfg

\* The bound is reached: the run ends here, the chain would go on.
Bounded == height = LastHeight /\ UNCHANGED vars

Next == MineBlock \/ Bounded

Spec == Init /\ [][Next]_vars

-----------------------------------------------------------------------------
Cap == CapHeight(cfg.supply, cfg.reward, cfg.interval, cfg.floor)

Total == ScheduledTotalEmission(cfg.supply, cfg.reward, cfg.interval, cfg.floor)

\* Mining every block to the full reaches max_supply exactly in the block at
\* scheduled_total_emission's cap_height, neither earlier nor later, and never
\* when the closed form says that no block does.
CapReachedAtCapHeight ==
  height > 0 => (emitted = cfg.supply <=> Cap # 0 /\ height >= Cap)

\* Emission never passes the closed form's total, and it is that total exactly
\* once the schedule has run out (the subsidy never rises again from 0).
EmissionMeetsClosedForm ==
  /\ emitted <= Total
  /\ ScheduledBlockSubsidy(height + 1, cfg.reward, cfg.interval, cfg.floor) = 0
       => emitted = Total
=============================================================================
