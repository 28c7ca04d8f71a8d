----------------------------- MODULE TokenEngine -----------------------------
(***************************************************************************)
(* The token ledger and the swap pools of additiond (token_engine.cpp) and *)
(* the RPC commands that drive them (rpc_server.cpp).  Commands run one at *)
(* a time under the node's state lock, so every command is one action; the *)
(* engine operation it calls is an operator from the engine's state to the *)
(* answer and the new state, and undoes by hand what it had done before an *)
(* error, as the code does.  Quantities are unsigned words: U64Max stands  *)
(* for 2^64-1, FeeDenom for the 10000 basis points of a whole.             *)
(*                                                                         *)
(* A balances map is a total function: an entry the code creates with the  *)
(* value 0 by looking it up is the same as no entry.  Names, decimals and  *)
(* metadata, which no operation reads back, are left out.                  *)
(***************************************************************************)
EXTENDS Integers, FiniteSets, Sequences, SequencesExt, FiniteSetsExt

CONSTANTS
    Symbols,     \* token symbols: integers, so that ordered_pair can order them
    Wallets,     \* owner strings
    U64Max,      \* the largest std::uint64_t
    FeeDenom,    \* basis points in a whole
    MaxFeeBps,   \* the cap set_policy puts on the two fees together
    HopPenalty,  \* kHopPenaltyBps of best_route_exact_in
    Sessions     \* what the operators of the node do: see TokensInit

VARIABLES
    session,     \* the bounds of this behaviour: which commands, with which inputs
    tokens,      \* tokens_: from the symbols created to their records
    pools,       \* pools_: from ordered pairs of symbols to pools
    nfts,        \* nfts_: from the assets minted to their owners
    answer,      \* how the last command was answered: "ok", "error" or "hang"
    commands     \* how many commands were given

tokenVars == <<session, tokens, pools, nfts, answer, commands>>

NoWallet == "-"

Wrap(n) == n % (U64Max + 1)
Exceeds(n, added) == n > U64Max - added   \* the code's overflow guard

---------------------------------------------------------------------------
(* The records of the engine and the results of its operations.            *)

Token(owner, burnable, max, total, balances) ==
    [owner |-> owner, burnable |-> burnable, treasury |-> NoWallet,
     transfer_fee |-> 0, burn_fee |-> 0, paused |-> FALSE,
     max_tx |-> 0, max_wallet |-> 0, max_supply |-> max, total_supply |-> total,
     balances |-> balances, blacklist |-> {}, fee_exempt |-> {}]

Pool(fee) ==
    [reserve |-> <<0, 0>>, fee |-> fee, lp_total |-> 0, lp |-> [w \in Wallets |-> 0]]

\* ordered_pair and pool_key: the pools are filed under the ordered pair.
pool_key(a, b) == IF a < b THEN <<a, b>> ELSE <<b, a>>

Side(key, sym) == IF sym = key[1] THEN 1 ELSE 2

State == [tokens |-> tokens, pools |-> pools]

Refused(e) == [answer |-> "error", out |-> 0, tokens |-> e.tokens, pools |-> e.pools]

\* The engine after an operation that gave token sym the record t.
WithToken(e, sym, t, ans) ==
    [answer |-> ans, out |-> 0, tokens |-> (sym :> t) @@ e.tokens, pools |-> e.pools]

---------------------------------------------------------------------------
(* Tokens.                                                                 *)

create_token_ex(e, sym, owner, max, minted, burnable, dev, alloc) ==
    LET own == [w \in Wallets |-> IF w = owner THEN minted ELSE 0]
        bal == IF alloc > 0 THEN [own EXCEPT ![dev] = @ + alloc] ELSE own
    IN  IF \/ max = 0 \/ alloc > max
           \/ alloc > 0 /\ dev = NoWallet
           \/ Exceeds(minted, alloc) \/ minted + alloc > max
           \/ sym \in DOMAIN e.tokens
        THEN Refused(e)
        ELSE WithToken(e, sym, Token(owner, burnable, max, minted + alloc, bal), "ok")

mint(e, sym, caller, to, amount) ==
    LET t == e.tokens[sym] IN
    IF \/ sym \notin DOMAIN e.tokens \/ caller # t.owner \/ amount = 0
       \/ Exceeds(t.total_supply, amount) \/ t.total_supply + amount > t.max_supply
       \/ Exceeds(t.balances[to], amount)
    THEN Refused(e)
    ELSE WithToken(e, sym, [t EXCEPT !.total_supply = @ + amount,
                                     !.balances[to] = @ + amount], "ok")

\* Mutant: the undo of a transfer refused by the recipient's limit forgets
\* to take the received amount back.
transferKeepingCredit(e, sym, from, to, amount) ==
    LET t == e.tokens[sym]
        refused == \/ sym \notin DOMAIN e.tokens \/ amount = 0 \/ t.paused
                   \/ t.balances[from] < amount
    IN  IF refused THEN Refused(e)
        ELSE LET moved == [[t.balances EXCEPT ![from] = @ - amount] EXCEPT ![to] = @ + amount]
             IN  IF t.max_wallet > 0 /\ moved[to] > t.max_wallet
                 THEN WithToken(e, sym, [t EXCEPT !.balances = [moved EXCEPT ![from] = @ + amount]], "error")
                 ELSE WithToken(e, sym, [t EXCEPT !.balances = moved], "ok")

\* Mutant: the burn fee leaves the supply but not the recipient's amount.
transferBurningTwice(e, sym, from, to, amount) ==
    LET t == e.tokens[sym]
        burnt == (amount * t.burn_fee) \div FeeDenom
    IN  IF sym \notin DOMAIN e.tokens \/ amount = 0 \/ t.paused \/ t.balances[from] < amount
        THEN Refused(e)
        ELSE WithToken(e, sym,
               [t EXCEPT !.balances = [[@ EXCEPT ![from] = @ - amount] EXCEPT ![to] = @ + amount],
                         !.total_supply = @ - burnt], "ok")

\* transfer: fees are rounded down and waived for exempt wallets; the wallet
\* limit and the treasury's overflow are found after the balances moved and
\* undone, the supply's shortage after the treasury was paid and not undone.
transfer(e, sym, from, to, amount) ==
    LET t == e.tokens[sym]
        exempt == {from, to} \cap t.fee_exempt # {}
        Fee(bps) == IF exempt THEN 0 ELSE Wrap(amount * bps) \div FeeDenom
        fee == Fee(t.transfer_fee)
        burnt == Fee(t.burn_fee)
        received == amount - fee - burnt
        debited == [t.balances EXCEPT ![from] = @ - amount]
        credited == [debited EXCEPT ![to] = @ + received]
        undone == [[credited EXCEPT ![from] = @ + amount] EXCEPT ![to] = @ - received]
        pays == fee > 0 /\ t.treasury # NoWallet
        paid == IF pays THEN [credited EXCEPT ![t.treasury] = @ + fee] ELSE credited
    IN  IF \/ sym \notin DOMAIN e.tokens \/ amount = 0 \/ t.paused
           \/ {from, to} \cap t.blacklist # {}
           \/ t.max_tx > 0 /\ amount > t.max_tx
           \/ Wrap(fee + burnt) > amount
           \/ t.balances[from] < amount
           \/ Exceeds(debited[to], received)
        THEN Refused(e)
        ELSE IF \/ t.max_wallet > 0 /\ credited[to] > t.max_wallet
                \/ pays /\ Exceeds(credited[t.treasury], fee)
             THEN WithToken(e, sym, [t EXCEPT !.balances = undone], "error")
        ELSE IF t.total_supply < burnt
             THEN WithToken(e, sym, [t EXCEPT !.balances = paid], "error")
        ELSE WithToken(e, sym, [t EXCEPT !.balances = paid, !.total_supply = @ - burnt], "ok")

burn(e, sym, from, amount) ==
    LET t == e.tokens[sym] IN
    IF \/ sym \notin DOMAIN e.tokens \/ ~t.burnable \/ amount = 0 \/ t.balances[from] < amount
    THEN Refused(e)
    ELSE WithToken(e, sym, [t EXCEPT !.balances[from] = @ - amount,
                                     !.total_supply = @ - amount], "ok")

\* The four owner commands: refused to anyone but the owner.
ByOwner(e, sym, caller, t) ==
    IF sym \notin DOMAIN e.tokens \/ caller # e.tokens[sym].owner
    THEN Refused(e) ELSE WithToken(e, sym, t, "ok")

\* The sum of the two fees is a word and may wrap before it meets the cap.
set_policy(e, sym, caller, treasury, fee, burnFee, paused) ==
    IF Wrap(fee + burnFee) > MaxFeeBps THEN Refused(e)
    ELSE ByOwner(e, sym, caller,
           [e.tokens[sym] EXCEPT !.treasury = treasury, !.transfer_fee = fee,
                                 !.burn_fee = burnFee, !.paused = paused])

set_blacklist(e, sym, caller, wallet, blocked) ==
    ByOwner(e, sym, caller,
      [e.tokens[sym] EXCEPT !.blacklist = IF blocked THEN @ \union {wallet} ELSE @ \ {wallet}])

set_fee_exempt(e, sym, caller, wallet, exempt) ==
    ByOwner(e, sym, caller,
      [e.tokens[sym] EXCEPT !.fee_exempt = IF exempt THEN @ \union {wallet} ELSE @ \ {wallet}])

set_limits(e, sym, caller, maxTx, maxWallet) ==
    ByOwner(e, sym, caller, [e.tokens[sym] EXCEPT !.max_tx = maxTx, !.max_wallet = maxWallet])

---------------------------------------------------------------------------
(* Pools.                                                                  *)

create_pool(e, a, b, fee) ==
    IF \/ a = b \/ {a, b} \ DOMAIN e.tokens # {} \/ fee >= FeeDenom
       \/ pool_key(a, b) \in DOMAIN e.pools
    THEN Refused(e)
    ELSE [answer |-> "ok", out |-> 0, tokens |-> e.tokens,
          pools |-> (pool_key(a, b) :> Pool(fee)) @@ e.pools]

Never == -1

\* Newton's iteration halves its value until it is near the root and then
\* settles or alternates: bound enough for the words of the instances checked.
NewtonSteps == 40

\* isqrt_u64: Newton's iteration from x until two values in a row agree, then
\* a correction to the floor of the root.  The iteration may alternate between
\* two values for ever, or reach a division by zero: Never.
isqrt_u64(x) ==
    LET r[k \in 0..NewtonSteps] ==
          IF k = 0 THEN x
          ELSE LET last == r[k - 1]
               IN  IF last = 0 THEN 0 ELSE Wrap(last + x \div last) \div 2
        settles == \E k \in 1..NewtonSteps : r[k] # 0 /\ r[k] = r[k - 1]
    IN  IF x = 0 THEN 0
        ELSE IF settles THEN CHOOSE n \in 0..x : n * n <= x /\ (n + 1) * (n + 1) > x
        ELSE Never

\* The pool after the provider's balances of its two tokens changed by d.
Settle(e, key, provider, d, pool, ans) ==
    [answer |-> ans, out |-> 0,
     tokens |-> [s \in DOMAIN e.tokens |->
                   IF s \in {key[1], key[2]}
                   THEN [e.tokens[s] EXCEPT !.balances[provider] = @ + d[Side(key, s)]]
                   ELSE e.tokens[s]],
     pools |-> (key :> pool) @@ e.pools]

\* Mutant: shares are rounded up.
MintedSharesRoundedUp(p, add) ==
    IF p.lp_total = 0 THEN 1 + Max({n \in 0..add[1] * add[2] : n * n <= add[1] * add[2]})
    ELSE 1 + Min({(add[i] * p.lp_total) \div p.reserve[i] : i \in {1, 2}})

\* The shares a deposit earns: the root of the product for the first one, the
\* smaller proportion afterwards, and then only in the pool's ratio; 0 refuses.
MintedShares(p, add) ==
    IF p.lp_total = 0
    THEN IF add[1] > U64Max \div add[2] THEN 0 ELSE isqrt_u64(add[1] * add[2])
    ELSE IF \/ p.reserve[1] = 0 \/ p.reserve[2] = 0
            \/ add[1] > U64Max \div p.reserve[2] \/ p.reserve[1] > U64Max \div add[2]
            \/ add[1] * p.reserve[2] # add[2] * p.reserve[1]
         THEN 0
         ELSE Min({Wrap(add[i] * p.lp_total) \div p.reserve[i] : i \in {1, 2}})

add_liquidity(e, a, b, provider, amountA, amountB) ==
    LET key == pool_key(a, b)
        p == e.pools[key]
        add == IF a = key[1] THEN <<amountA, amountB>> ELSE <<amountB, amountA>>
        shares == MintedShares(p, add)
    IN  IF \/ amountA = 0 \/ amountB = 0 \/ key \notin DOMAIN e.pools
           \/ \E i \in {1, 2} : e.tokens[key[i]].balances[provider] < add[i]
           \/ shares = 0
        THEN Refused(e)
        ELSE IF shares = Never THEN [Refused(e) EXCEPT !.answer = "hang"]
        ELSE IF \/ \E i \in {1, 2} : Exceeds(p.reserve[i], add[i])
                \/ Exceeds(p.lp_total, shares) \/ Exceeds(p.lp[provider], shares)
             THEN Refused(e)
        ELSE Settle(e, key, provider, [i \in {1, 2} |-> 0 - add[i]],
               [p EXCEPT !.reserve = [i \in {1, 2} |-> @[i] + add[i]],
                         !.lp_total = @ + shares, !.lp[provider] = @ + shares], "ok")

\* Mutant: the share of the reserves is rounded up.
SharePaidRoundedUp(p, lp) ==
    [i \in {1, 2} |-> Min({p.reserve[i], (p.reserve[i] * lp) \div p.lp_total + 1})]

\* What a share of lp is paid: the product is a word and may wrap.
SharePaid(p, lp) == [i \in {1, 2} |-> Wrap(p.reserve[i] * lp) \div p.lp_total]

remove_liquidity(e, a, b, provider, lp) ==
    LET key == pool_key(a, b)
        p == e.pools[key]
        take == SharePaid(p, lp)
        removed == [p EXCEPT !.lp[provider] = @ - lp, !.lp_total = @ - lp,
                             !.reserve = [i \in {1, 2} |-> @[i] - take[i]]]
        undone == [removed EXCEPT !.lp[provider] = @ + lp, !.lp_total = @ + lp,
                                  !.reserve = [i \in {1, 2} |-> @[i] + take[i]]]
    IN  IF \/ lp = 0 \/ key \notin DOMAIN e.pools
           \/ p.lp[provider] < lp \/ p.lp_total = 0
           \/ take[1] = 0 \/ take[2] = 0
        THEN Refused(e)
        ELSE IF \E i \in {1, 2} : Exceeds(e.tokens[key[i]].balances[provider], take[i])
             THEN Settle(e, key, provider, <<0, 0>>, undone, "error")
        ELSE Settle(e, key, provider, take, removed, "ok")

\* The constant-product price of amount coming in on side i; 0 when a product
\* or the sum would not fit a word.
Quote(p, i, amount) ==
    LET withFee == amount * (FeeDenom - p.fee)
        base == p.reserve[i] * FeeDenom
    IN  IF \/ amount > U64Max \div (FeeDenom - p.fee)
           \/ withFee > U64Max \div p.reserve[3 - i]
           \/ p.reserve[i] > U64Max \div FeeDenom
           \/ Exceeds(base, withFee)
        THEN 0 ELSE (withFee * p.reserve[3 - i]) \div (base + withFee)

\* The amount paid for amount of in, 0 for every error.
quote_exact_in(e, in, out, amount) ==
    LET key == pool_key(in, out)
        p == e.pools[key]
        i == Side(key, in)
        paid == Quote(p, i, amount)
    IN  IF \/ amount = 0 \/ in = out \/ key \notin DOMAIN e.pools
           \/ p.reserve[1] = 0 \/ p.reserve[2] = 0 \/ paid >= p.reserve[3 - i]
        THEN 0 ELSE paid

swap_exact_in(e, in, out, trader, amount, minOut) ==
    LET key == pool_key(in, out)
        p == e.pools[key]
        i == Side(key, in)
        paid == quote_exact_in(e, in, out, amount)
    IN  IF \/ paid = 0 \/ paid < minOut
           \/ e.tokens[in].balances[trader] < amount
           \/ p.reserve[3 - i] <= paid
           \/ Exceeds(e.tokens[out].balances[trader], paid)
           \/ Exceeds(p.reserve[i], amount)
        THEN Refused(e)
        ELSE [Settle(e, key, trader, [j \in {1, 2} |-> IF j = i THEN 0 - amount ELSE paid],
                     [p EXCEPT !.reserve = [j \in {1, 2} |-> IF j = i THEN @[j] + amount
                                                             ELSE @[j] - paid]], "ok")
              EXCEPT !.out = paid]

Hops(route) == [i \in 1..(Len(route) - 1) |-> <<route[i], route[i + 1]>>]

quote_route_exact_in(e, route, amount) ==
    IF Len(route) < 2 THEN 0
    ELSE FoldLeft(LAMBDA running, hop : quote_exact_in(e, hop[1], hop[2], running),
                  amount, Hops(route))

\* A failing hop puts the snapshots of pools_ and tokens_ back.
RouteUndone(e, done) == Refused(e)

\* swap_route_exact_in: the whole route is quoted first, then swapped hop by hop.
swap_route_exact_in(e, route, trader, amount, minOut) ==
    LET last == Len(route) - 1
        Hop(done, i) ==
            IF done.answer # "ok" THEN done
            ELSE LET next == swap_exact_in(done, route[i], route[i + 1], trader, done.out,
                                           IF i = last THEN minOut ELSE 1)
                 IN  IF next.answer = "ok" THEN next ELSE RouteUndone(e, done)
        start == [answer |-> "ok", out |-> amount, tokens |-> e.tokens, pools |-> e.pools]
        quoted == quote_route_exact_in(e, route, amount)
    IN  IF quoted = 0 \/ quoted < minOut \/ e.tokens[route[1]].balances[trader] < amount
        THEN Refused(e)
        ELSE FoldLeft(Hop, start, [i \in 1..last |-> i])

\* Mutant: the search forgets the symbols it has used.
RoutesRevisiting(e, in, out, amount, maxHops) ==
    {r \in UNION {[1..n -> DOMAIN e.tokens] : n \in 2..(maxHops + 1)} :
       r[1] = in /\ r[Len(r)] = out /\ quote_route_exact_in(e, r, amount) > 0}

\* The routes the search of best_route_exact_in reaches: no symbol twice, the
\* wanted symbol only at the end, every hop with a price.
Routes(e, in, out, amount, maxHops) ==
    LET hops == IF maxHops < 1 THEN 1 ELSE IF maxHops > 4 THEN 4 ELSE maxHops
    IN  {r \in UNION {[1..n -> DOMAIN e.tokens] : n \in 2..(hops + 1)} :
           /\ r[1] = in /\ r[Len(r)] = out
           /\ Cardinality(Range(r)) = Len(r)
           /\ quote_route_exact_in(e, r, amount) > 0}

\* How a route is ranked: its output less a penalty for every hop after the
\* first, then the output, then the shallowest reserve it enters.
Rank(e, r, amount) ==
    LET q == quote_route_exact_in(e, r, amount)
        penalty == Min({FeeDenom - 1, HopPenalty * (Len(r) - 2)})
    IN  <<Wrap(q * (FeeDenom - penalty)) \div FeeDenom, q,
          Min({LET key == pool_key(r[i], r[i + 1])
               IN  e.pools[key].reserve[Side(key, r[i])] : i \in 1..(Len(r) - 1)})>>

Better(x, y) == \/ x[1] > y[1]
                \/ x[1] = y[1] /\ x[2] > y[2]
                \/ x[1] = y[1] /\ x[2] = y[2] /\ x[3] > y[3]

\* best_route_exact_in: any of the best routes, for ties fall to the first one
\* in the order of an unordered_map.
best_routes(e, in, out, amount, maxHops) ==
    LET rs == Routes(e, in, out, amount, maxHops)
    IN  IF in = out \/ amount = 0 THEN {}
        ELSE {r \in rs : \A s \in rs : ~Better(Rank(e, s, amount), Rank(e, r, amount))}

---------------------------------------------------------------------------
(* Persistence: one line for a token, each balance, listed wallet, pool    *)
(* and liquidity share.                                                    *)

\* Mutant: the balances of a paused token are not written.
dump_stateSkippingPaused(e) ==
    UNION {{<<"T", s, [e.tokens[s] EXCEPT !.balances = {}, !.blacklist = {}, !.fee_exempt = {}]>>}
             : s \in DOMAIN e.tokens}
    \union UNION {{<<"B", s, w, e.tokens[s].balances[w]>> : w \in Wallets}
             : s \in {q \in DOMAIN e.tokens : ~e.tokens[q].paused}}
    \union UNION {{<<"X", s, w>> : w \in e.tokens[s].blacklist} : s \in DOMAIN e.tokens}
    \union UNION {{<<"E", s, w>> : w \in e.tokens[s].fee_exempt} : s \in DOMAIN e.tokens}
    \union {<<"P", k, [e.pools[k] EXCEPT !.lp = {}]>> : k \in DOMAIN e.pools}
    \union UNION {{<<"L", k, w, e.pools[k].lp[w]>> : w \in Wallets} : k \in DOMAIN e.pools}

dump_state(e) ==
    UNION {{<<"T", s, [e.tokens[s] EXCEPT !.balances = {}, !.blacklist = {}, !.fee_exempt = {}]>>}
             : s \in DOMAIN e.tokens}
    \union UNION {{<<"B", s, w, e.tokens[s].balances[w]>> : w \in Wallets} : s \in DOMAIN e.tokens}
    \union UNION {{<<"X", s, w>> : w \in e.tokens[s].blacklist} : s \in DOMAIN e.tokens}
    \union UNION {{<<"E", s, w>> : w \in e.tokens[s].fee_exempt} : s \in DOMAIN e.tokens}
    \union {<<"P", k, [e.pools[k] EXCEPT !.lp = {}]>> : k \in DOMAIN e.pools}
    \union UNION {{<<"L", k, w, e.pools[k].lp[w]>> : w \in Wallets} : k \in DOMAIN e.pools}

\* The value a line with these fields gives, the default when there is none.
FieldOr(lines, tag, key, w, default) ==
    LET found == {l \in lines : l[1] = tag /\ l[2] = key /\ l[3] = w}
    IN  IF found = {} THEN default ELSE (CHOOSE l \in found : TRUE)[4]

load_state(lines) ==
    LET Of(tag) == {l \in lines : l[1] = tag}
        Listed(tag, s) == {l[3] : l \in {x \in Of(tag) : x[2] = s}}
        Head3(tag, k) == (CHOOSE l \in Of(tag) : l[2] = k)[3]
    IN  [tokens |-> [s \in {l[2] : l \in Of("T")} |->
                       [Head3("T", s) EXCEPT
                          !.balances = [w \in Wallets |-> FieldOr(lines, "B", s, w, 0)],
                          !.blacklist = Listed("X", s), !.fee_exempt = Listed("E", s)]],
         pools |-> [k \in {l[2] : l \in Of("P")} |->
                       [Head3("P", k) EXCEPT
                          !.lp = [w \in Wallets |-> FieldOr(lines, "L", k, w, 0)]]]]

---------------------------------------------------------------------------
(* The RPC commands.  A command is given while the node still answers.     *)

Give(op) ==
    /\ op \in session.ops
    /\ answer # "hang"
    /\ commands < session.length
    /\ commands' = commands + 1
    /\ UNCHANGED session

Answer(op, result) ==
    /\ Give(op)
    /\ answer' = result.answer
    /\ tokens' = result.tokens
    /\ pools' = result.pools
    /\ UNCHANGED nfts

TokenCreate(sym, owner, max, minted) ==
    Answer("token_create", create_token_ex(State, sym, owner, max, minted, FALSE, NoWallet, 0))

TokenCreateEx(sym, owner, max, minted, burnable, dev, alloc) ==
    Answer("token_create_ex", create_token_ex(State, sym, owner, max, minted, burnable, dev, alloc))

TokenMint(sym, caller, to, amount) == Answer("token_mint", mint(State, sym, caller, to, amount))

TokenTransfer(sym, from, to, amount) ==
    Answer("token_transfer", transfer(State, sym, from, to, amount))

\* The signature covers all the arguments, and its key must own the address.
TokenTransferSigned(sym, from, to, amount, signer) ==
    Answer("token_transfer_signed",
           IF signer = from THEN transfer(State, sym, from, to, amount) ELSE Refused(State))

\* The node signs for a wallet it stores: the sender is the wallet's address.
TokenTransferWallet(wallet, sym, to, amount) ==
    Answer("token_transfer_wallet", transfer(State, sym, wallet, to, amount))

TokenBurn(sym, from, amount) == Answer("token_burn", burn(State, sym, from, amount))

TokenSetPolicy(sym, caller, treasury, fee, burnFee, paused) ==
    Answer("token_set_policy", set_policy(State, sym, caller, treasury, fee, burnFee, paused))

TokenBlacklist(sym, caller, wallet, blocked) ==
    Answer("token_blacklist", set_blacklist(State, sym, caller, wallet, blocked))

TokenFeeExempt(sym, caller, wallet, exempt) ==
    Answer("token_fee_exempt", set_fee_exempt(State, sym, caller, wallet, exempt))

TokenSetLimits(sym, caller, maxTx, maxWallet) ==
    Answer("token_set_limits", set_limits(State, sym, caller, maxTx, maxWallet))

SwapPoolCreate(a, b, fee) == Answer("swap_pool_create", create_pool(State, a, b, fee))

SwapAddLiquidity(a, b, provider, amountA, amountB) ==
    Answer("add_liquidity", add_liquidity(State, a, b, provider, amountA, amountB))

SwapRemoveLiquidity(a, b, provider, lp) ==
    Answer("swap_remove_liquidity", remove_liquidity(State, a, b, provider, lp))

SwapExactIn(in, out, trader, amount, minOut) ==
    Answer("swap_exact_in", swap_exact_in(State, in, out, trader, amount, minOut))

SwapExactInWallet(wallet, in, out, amount, minOut) ==
    Answer("swap_exact_in_wallet", swap_exact_in(State, in, out, wallet, amount, minOut))

SwapRouteExactIn(route, trader, amount, minOut) ==
    Answer("swap_route_exact_in", swap_route_exact_in(State, route, trader, amount, minOut))

\* The best route is searched, quoted against minOut and swapped in one command.
BestRouteSwap(in, out, trader, amount, minOut, maxHops, r) ==
    IF quote_route_exact_in(State, r, amount) < minOut THEN Refused(State)
    ELSE swap_route_exact_in(State, r, trader, amount, minOut)

\* late: the deadline is over when the command is handled.
SwapBestRouteExactIn(in, out, trader, amount, minOut, late, maxHops) ==
    LET best == best_routes(State, in, out, amount, maxHops)
    IN  IF late \/ best = {} THEN Answer("swap_best_route_exact_in", Refused(State))
        ELSE \E r \in best : Answer("swap_best_route_exact_in",
                               BestRouteSwap(in, out, trader, amount, minOut, maxHops, r))

SwapBestRouteSigned(in, out, trader, amount, minOut, late, maxHops, signer) ==
    LET best == best_routes(State, in, out, amount, maxHops)
    IN  IF late \/ signer # trader \/ best = {}
        THEN Answer("swap_best_route_exact_in_signed", Refused(State))
        ELSE \E r \in best : Answer("swap_best_route_exact_in_signed",
                               BestRouteSwap(in, out, trader, amount, minOut, maxHops, r))

NftMint(asset, owner) ==
    /\ Give("nft_mint")
    /\ answer' = IF asset \in DOMAIN nfts THEN "error" ELSE "ok"
    /\ nfts' = nfts @@ (asset :> owner)
    /\ UNCHANGED <<tokens, pools>>

NftTransfer(asset, from, to) ==
    /\ Give("nft_transfer")
    /\ IF asset \in DOMAIN nfts /\ nfts[asset] = from
       THEN answer' = "ok" /\ nfts' = [nfts EXCEPT ![asset] = to]
       ELSE answer' = "error" /\ UNCHANGED nfts
    /\ UNCHANGED <<tokens, pools>>

---------------------------------------------------------------------------
Nothing == [tokens |-> [s \in {} |-> 0], pools |-> [k \in {} |-> 0]]

\* A session starts with some tokens created by one owner (none, for a node
\* started for the first time) and gives a bounded number of commands.
TokensInit ==
    /\ session \in Sessions
    /\ tokens = [s \in session.created |->
                   create_token_ex(Nothing, s, session.owner, session.supply, session.minted,
                                   TRUE, NoWallet, 0).tokens[s]]
    /\ pools = Nothing.pools
    /\ nfts = [a \in {} |-> NoWallet]
    /\ answer = "ok"
    /\ commands = 0

TokenCommand ==
    \E s \in session.symbols, w, v \in Wallets, n \in session.amounts :
       \/ \E m \in session.amounts : TokenCreate(s, w, m, n)
       \/ \E m \in session.amounts, d \in {v, NoWallet}, a \in session.amounts :
             TokenCreateEx(s, w, m, n, TRUE, d, a)
       \/ \E c \in Wallets : TokenMint(s, c, v, n)
       \/ TokenTransfer(s, w, v, n)
       \/ \E c \in Wallets : TokenTransferSigned(s, w, v, n, c)
       \/ TokenTransferWallet(w, s, v, n)
       \/ TokenBurn(s, w, n)

TokenPolicyCommand ==
    \E s \in session.symbols, w, v \in Wallets :
       \/ \E t \in {v, NoWallet}, f, b \in session.fees, p \in BOOLEAN :
             TokenSetPolicy(s, w, t, f, b, p)
       \/ \E on \in BOOLEAN : TokenBlacklist(s, w, v, on)
       \/ \E on \in BOOLEAN : TokenFeeExempt(s, w, v, on)
       \/ \E m, n \in session.limits : TokenSetLimits(s, w, m, n)

SwapCommand ==
    \E a, b \in session.symbols, w \in Wallets :
       \/ \E f \in session.fees : SwapPoolCreate(a, b, f)
       \/ \E m, n \in session.deposits : SwapAddLiquidity(a, b, w, m, n)
       \/ \E n \in session.deposits : SwapRemoveLiquidity(a, b, w, n)
       \/ \E n \in session.amounts, least \in session.limits :
             \/ SwapExactIn(a, b, w, n, least)
             \/ SwapExactInWallet(w, a, b, n, least)
             \/ \E r \in session.routes : SwapRouteExactIn(<<a, b>> \o r, w, n, least)
             \/ \E late \in BOOLEAN : SwapBestRouteExactIn(a, b, w, n, least, late, 3)
             \/ \E v \in Wallets, late \in BOOLEAN :
                   SwapBestRouteSigned(a, b, w, n, least, late, 3, v)

NftCommand ==
    \E asset \in session.symbols, w, v \in Wallets : NftMint(asset, w) \/ NftTransfer(asset, w, v)

TokensNext == TokenCommand \/ TokenPolicyCommand \/ SwapCommand \/ NftCommand

TokensSpec == TokensInit /\ [][TokensNext]_tokenVars

---------------------------------------------------------------------------
(* Properties.                                                             *)

Held(s) == MapThenSumSet(LAMBDA w : tokens[s].balances[w], Wallets)
Pooled(s) == MapThenSumSet(LAMBDA k : pools[k].reserve[Side(k, s)],
                           {k \in DOMAIN pools : s \in {k[1], k[2]}})

\* No sequence of transfers, fees, deposits, withdrawals and swaps makes units
\* of a token: what the wallets and the pools hold together never exceeds the
\* recorded supply, which never exceeds the cap set at creation.
SupplyBacked ==
    \A s \in DOMAIN tokens :
       Held(s) + Pooled(s) <= tokens[s].total_supply /\ tokens[s].total_supply <= tokens[s].max_supply

\* The shares of a pool's providers add up to the pool's total, and a pool
\* with shares outstanding is never drained on either side by swaps or by the
\* withdrawals of the other providers.
SharesBacked ==
    \A k \in DOMAIN pools :
       /\ MapThenSumSet(LAMBDA w : pools[k].lp[w], Wallets) = pools[k].lp_total
       /\ pools[k].lp_total > 0 => pools[k].reserve[1] > 0 /\ pools[k].reserve[2] > 0

\* No command of anyone lowers the worth of a liquidity share: the product of
\* the reserves per square of the shares outstanding never falls, for a swap,
\* a deposit or another provider's withdrawal, however they round or wrap.
ShareValueStep ==
    \A k \in DOMAIN pools :
       pools[k].lp_total > 0 /\ pools'[k].lp_total > 0 =>
         pools'[k].reserve[1] * pools'[k].reserve[2] * pools[k].lp_total * pools[k].lp_total
           >= pools[k].reserve[1] * pools[k].reserve[2] * pools'[k].lp_total * pools'[k].lp_total

\* A command answered with an error has changed nothing: the undo written out
\* in transfer, remove_liquidity and swap_route_exact_in is complete.
RefusedStep == answer' = "error" => UNCHANGED <<tokens, pools, nfts>>

\* The quote the best-route commands check against the least output is the
\* amount the swap then pays: the search never uses a pool twice, so its hops
\* do not move each other's price.
BestRouteIsExecutable ==
    \A a, b \in session.symbols, w \in Wallets, n \in session.amounts :
       \A r \in best_routes(State, a, b, n, 3) :
          LET done == swap_route_exact_in(State, r, w, n, quote_route_exact_in(State, r, n))
          IN  \/ tokens[a].balances[w] < n
              \/ done.answer = "ok" /\ done.out = quote_route_exact_in(State, r, n)

\* A restart restores the ledger: what dump_state writes, load_state reads back
\* to the same tokens, balances, lists and pools.
DumpRoundTrips == load_state(dump_state(State)) = State

\* add_liquidity "moves provider balances into pool reserves" (docs/TOKENS.md):
\* whatever the amounts, the command returns.
CommandsReturn == answer # "hang"

=============================================================================
