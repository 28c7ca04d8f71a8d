----------------------------- MODULE TicketDraw -----------------------------
(***************************************************************************)
(* select_tickets (src/staking.cpp) round by round over every pool of a    *)
(* few tickets, and the reward its winners share.  Ledger uses the same    *)
(* operators to validate blocks.                                           *)
(***************************************************************************)
EXTENDS Staking

CONSTANTS
  NumTickets, \* tickets are numbered in the order of their ids
  Amounts,    \* coins a ticket may lock
  MaxDraw,    \* bound: draws are 0..MaxDraw
  Count,      \* stake_votes_per_block
  Pots, Bps   \* block pots and reward shares tried

Order == [i \in 1..NumTickets |-> i]

VARIABLES amount, chosen, round, pot, bps

vars == <<amount, chosen, round, pot, bps>>

Init ==
  /\ \E pool \in SUBSET Range(Order) : amount \in [pool -> Amounts]
  /\ chosen = <<>>
  /\ round = 0
  /\ pot \in Pots /\ bps \in Bps

Draw(r) ==
  /\ round < Count
  /\ round' = round + 1
  /\ chosen' = DrawNext(Order, amount, chosen, r)
  /\ UNCHANGED <<amount, pot, bps>>

Done == round = Count /\ UNCHANGED vars

Next == (\E r \in 0..MaxDraw : Draw(r)) \/ Done

Spec == Init /\ [][Next]_vars

-----------------------------------------------------------------------------
\* staking.hpp: the draw is "without replacement".  A ticket drawn twice would
\* hold two seats, and a seat left empty while a ticket is undrawn could make
\* the quorum unreachable.
SeatsGoToDistinctTickets ==
  /\ IsInjective(chosen)
  /\ Range(chosen) \subseteq DOMAIN amount
  /\ Len(chosen) = Min({round, Cardinality(DOMAIN amount)})

\* staking.hpp: the draw is "stake-weighted".  Of the draws below the stake
\* still in the pool, exactly amount[t] fall to the undrawn ticket t.
ChanceIsStake ==
  LET rest  == DOMAIN amount \ Range(chosen)
      total == StakeOf(amount, rest)
  IN  \A t \in rest :
        amount[t] = Cardinality({r \in 0..(total - 1) :
                                   DrawNext(Order, amount, chosen, r)[Len(chosen) + 1] = t})

\* The votes' rewards never exceed the pot, whatever share is configured: the
\* miner's part of the coinbase is never negative.
RewardsWithinPot ==
  Len(chosen) * StakeRewardPerVote(pot, bps, Len(chosen)) <= pot
=============================================================================
