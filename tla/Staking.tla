------------------------------ MODULE Staking -------------------------------
(***************************************************************************)
(* The pure staking rules of src/staking.cpp: the stake-weighted selection *)
(* of the tickets that vote on a block, and the split of the staker share  *)
(* of a block's pot.                                                       *)
(***************************************************************************)
EXTENDS Integers, Sequences, FiniteSetsExt, Functions

-----------------------------------------------------------------------------
\* Coins of the tickets in ids; amount is a function from tickets to coins.
StakeOf(amount, ids) == MapThenSumSet(LAMBDA t : amount[t], ids)

\* Mutant: the running total is compared with <=, off by one.
TicketAtOffByOne(order, amount, ids, r) ==
  LET upTo(i) == StakeOf(amount, {order[k] : k \in 1..i} \cap ids)
      first   == Min({i \in DOMAIN order : order[i] \in ids /\ r <= upTo(i)})
  IN  order[first]

\* order lists all tickets by id (std::sort); the draw r falls to the first
\* ticket of ids whose running total exceeds it.
TicketAt(order, amount, ids, r) ==
  LET upTo(i) == StakeOf(amount, {order[k] : k \in 1..i} \cap ids)
      first   == Min({i \in DOMAIN order : order[i] \in ids /\ r < upTo(i)})
  IN  order[first]

\* Mutant: a chosen ticket stays in the pool.
DrawNextWithReplacement(order, amount, chosen, r) ==
  LET total == StakeOf(amount, DOMAIN amount)
  IN  IF DOMAIN amount = {} \/ total = 0 THEN chosen
      ELSE Append(chosen, TicketAt(order, amount, DOMAIN amount, r % total))

\* One round of select_tickets: draw among the tickets not chosen yet.
DrawNext(order, amount, chosen, r) ==
  LET rest  == DOMAIN amount \ Range(chosen)
      total == StakeOf(amount, rest)
  IN  IF rest = {} \/ total = 0 THEN chosen
      ELSE Append(chosen, TicketAt(order, amount, rest, r % total))

\* draws[k] is the 128-bit number the seed yields in round k; count rounds.
SelectTickets(order, amount, draws, count) ==
  LET chosen[k \in 0..count] ==
        IF k = 0 THEN <<>> ELSE DrawNext(order, amount, chosen[k - 1], draws[k])
  IN  chosen[count]

-----------------------------------------------------------------------------
\* 100 % in basis points.
FullBps == 10000

\* Mutant: basis points above 100 % are not capped.
StakeRewardPoolUncapped(pot, bps) == (pot * bps) \div FullBps

StakeRewardPool(pot, bps) ==
  (pot * (IF bps < FullBps THEN bps ELSE FullBps)) \div FullBps

StakeRewardPerVote(pot, bps, votes) ==
  IF votes = 0 THEN 0 ELSE StakeRewardPool(pot, bps) \div votes
=============================================================================
