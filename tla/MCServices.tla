----------------------------- MODULE MCServices -----------------------------
(***************************************************************************)
(* The rules that are pure computation, the engines beside the chain and   *)
(* their files, checked side by side: a behaviour picks one part and       *)
(* leaves the variables of the others alone.                               *)
(***************************************************************************)
EXTENDS Integers, Sequences, FiniteSets, SideState

CONSTANTS
    Parts,       \* the parts a run is about
    Sessions,    \* what the token commands do
    Forms        \* the forms of sealed amounts

VARIABLES
    part,
    session, tokens, pools, nfts, commands,             \* of TokenEngine
    engine, saved, history, unsaved, given,             \* of the side engines
    answer,                                             \* of both
    cfg, height, emitted,                               \* of EmissionSchedule
    ts, tg, target,                                     \* of Retarget
    amount, chosen, round, pot, bps                     \* of TicketDraw

T == INSTANCE TokenEngine WITH
       Symbols <- {1, 2, 3}, Wallets <- {"a", "b"}, U64Max <- 16383, FeeDenom <- 10,
       MaxFeeBps <- 4, HopPenalty <- 1

B == INSTANCE Bridge WITH
       Chains <- {"btc"}, Users <- {"u", "v"}, Keys <- {"k1", "k2"}, Amounts <- {0, 2, 3},
       U64Max <- 5, MaxCommands <- 6,
       Attestations <- {[op |-> "mint", chain |-> "btc", user |-> "u", amount |-> 2,
                         key |-> "k1", sig |-> 1],
                        [op |-> "release", chain |-> "btc", user |-> "u", amount |-> 2,
                         key |-> "k2", sig |-> 1]}

C == INSTANCE Contracts WITH
       Owners <- {"o"}, Codes <- {"c1", "c2"}, KvKeys <- {"x", "y"}, Values <- {-3, 2},
       I64Max <- 3, MaxCommands <- 4

S == INSTANCE PouwStorage WITH
       Workers <- {"w1", "w2"}, ChunkCounts <- {0, 2}, Heights <- {1, 2}, MaxCommands <- 5

J == INSTANCE PouwCompute WITH
       Workers <- {"w1", "w2"}, Validators <- {"v1", "v2", "v3"}, Budgets <- {0, 1},
       MaxCommands <- 5

\* Two owners; one owner who opens and spends a note again.
P == INSTANCE PrivacyPool WITH
       Owners <- {"o", "p"}, NoteAmounts <- {0, 1, 2}, Trapdoors <- {<<"given">>}, MaxCommands <- 3

Q == INSTANCE PrivacyPool WITH
       Owners <- {"o"}, NoteAmounts <- {0, 1, 2}, Trapdoors <- {<<"given">>}, MaxCommands <- 4

M == INSTANCE PrivateMessaging WITH
       People <- {"p", "q"}, Ttls <- {0, 1, 2, 4}, MaxTtl <- 3, MaxTime <- 3, MaxCommands <- 3

F == INSTANCE FastPipeline WITH Batches <- {0, 1, 2}, MaxCommands <- 6

E == INSTANCE EmissionSchedule WITH
       Supplies <- {5, 12, 23, 40}, Rewards <- {1, 4, 5}, Intervals <- {1, 2, 3},
       Floors <- {0, 1, 2, 6}, LastHeight <- 45

R == INSTANCE Retarget WITH
       BlockTime <- 2, LwmaWindow <- 3, RetargetWindow <- 2, ForkHeight <- 4,
       MinTarget <- 5, MaxTarget <- 28, LegacyMinTarget <- 8, InitialTarget <- 8,
       MaxU64 <- 127, Solvetimes <- {0, 1, 2, 15, 40}, LastBlock <- 7

W == INSTANCE TicketDraw WITH
       NumTickets <- 3, Amounts <- {1, 2, 4}, MaxDraw <- 11, Count <- 3,
       Pots <- {0, 1, 7, 10}, Bps <- {0, 3000, 10000, 15000}

tokenState == <<session, tokens, pools, nfts, commands>>

sideState == <<engine, saved, history, unsaved, given>>

emission == <<cfg, height, emitted>>

headers == <<ts, tg, target>>

draw == <<amount, chosen, round, pot, bps>>

ruleState == <<emission, headers, draw>>

vars == <<part, answer, tokenState, sideState, stateVars, ruleState>>

NoTokens ==
    session = "none" /\ tokens = <<>> /\ pools = <<>> /\ nfts = <<>> /\ commands = 0

NoEngine == engine = "none" /\ saved = "none" /\ history = <<>> /\ unsaved = FALSE /\ given = 0

\* The files of a node on which nothing happens.
NoFiles == FilesInit /\ setup = [threads |-> {1}, damaging |-> {}]

NoRule ==
    /\ part # "emission" => cfg = "none" /\ height = 0 /\ emitted = 0
    /\ part # "retarget" => ts = <<>> /\ tg = <<>> /\ target = 0
    /\ part # "draw" => amount = <<>> /\ chosen = <<>> /\ round = 0 /\ pot = 0 /\ bps = 0

Rules == {"emission", "retarget", "draw"}

Init ==
    /\ part \in Parts
    /\ NoRule
    /\ CASE part = "emission" -> E!Init
         [] part = "retarget" -> R!Init
         [] part = "draw" -> W!Init
         [] OTHER -> TRUE
    /\ IF part = "tokens" THEN T!TokensInit /\ NoEngine
       ELSE /\ NoTokens
            /\ CASE part = "bridge"    -> B!BridgeInit
                 [] part = "contracts" -> C!ContractsInit
                 [] part = "storage"   -> S!StorageInit
                 [] part = "compute"   -> J!ComputeInit
                 [] part = "privacy"   -> P!PrivacyInit
                 [] part = "notes"     -> Q!PrivacyInit
                 [] part = "messages"  -> M!MessagingInit
                 [] part = "pipeline"  -> F!PipelineInit
                 [] part \in {"files"} \union Rules -> NoEngine /\ answer = "ok"
    /\ IF part = "files" THEN FilesInit ELSE NoFiles

Engine ==
    \/ part = "bridge" /\ B!BridgeNext
    \/ part = "contracts" /\ C!ContractsNext
    \/ part = "storage" /\ S!StorageNext
    \/ part = "compute" /\ J!ComputeNext
    \/ part = "privacy" /\ P!PrivacyNext
    \/ part = "notes" /\ Q!PrivacyNext
    \/ part = "messages" /\ M!MessagingNext
    \/ part = "pipeline" /\ F!PipelineNext

Rule ==
    \/ part = "emission" /\ E!Next /\ UNCHANGED <<headers, draw>>
    \/ part = "retarget" /\ R!Next /\ UNCHANGED <<emission, draw>>
    \/ part = "draw" /\ W!Next /\ UNCHANGED <<emission, headers>>

Next ==
    /\ UNCHANGED part
    /\ \/ part = "tokens" /\ T!TokensNext /\ UNCHANGED <<sideState, stateVars, ruleState>>
       \/ Engine /\ UNCHANGED <<tokenState, stateVars, ruleState>>
       \/ part = "files" /\ FilesNext /\ UNCHANGED <<answer, tokenState, sideState, ruleState>>
       \/ Rule /\ UNCHANGED <<answer, tokenState, sideState, stateVars>>

Spec == Init /\ [][Next]_vars

---------------------------------------------------------------------------
(* Instances.                                                              *)

Session(ops, symbols, created, minted, amounts, deposits, fees, limits, routes, length) ==
    [ops |-> ops, symbols |-> symbols, created |-> created, owner |-> "a", supply |-> 200,
     minted |-> minted, amounts |-> amounts, deposits |-> deposits, fees |-> fees,
     limits |-> limits, routes |-> routes, length |-> length]

\* Creation; policy; ownership; one pool; three pools and routes through them.
AllSessions ==
    {Session({"token_create_ex", "token_create"}, {1}, {}, 0, {0, 10, 20, 16383},
             {}, {}, {}, {}, 2),
     Session({"token_transfer", "token_set_policy", "token_fee_exempt", "token_set_limits",
              "token_burn"}, {1}, {1}, 20, {10}, {}, {0, 2, 16383}, {0, 12}, {}, 4),
     Session({"token_transfer", "token_mint", "token_transfer_signed", "token_transfer_wallet",
              "token_blacklist", "nft_mint", "nft_transfer"}, {1}, {1}, 20, {0, 10},
             {}, {}, {}, {}, 4),
     Session({"swap_pool_create", "add_liquidity", "swap_remove_liquidity", "swap_exact_in",
              "token_transfer"}, {1, 2}, {1, 2}, 130, {4}, {2, 4, 64}, {1}, {0}, {}, 6),
     Session({"swap_pool_create", "add_liquidity", "swap_route_exact_in",
              "swap_best_route_exact_in", "swap_best_route_exact_in_signed",
              "swap_exact_in_wallet"}, {1, 2, 3}, {1, 2, 3}, 130, {30}, {40}, {0}, {0, 4},
             {<<>>, <<3>>, <<3, 1, 2>>}, 7)}

\* A first deposit of one unit against three.
FirstDeposits ==
    {Session({"swap_pool_create", "add_liquidity"}, {1, 2}, {1, 2}, 100, {}, {1, 3}, {0}, {}, {}, 3)}

\* Two of the engines save_side_state writes, in its order.
TwoEngines == <<"tokens", "bridge">>

\* One connection; one connection and a damaging write; two connections.
AllSetups ==
    {[threads |-> {1}, damaging |-> {}], [threads |-> {1}, damaging |-> {"tokens"}],
     [threads |-> {1, 2}, damaging |-> {}]}

---------------------------------------------------------------------------
(* The properties of the parts, each for the behaviours of its part.       *)

\* Wallets and pools hold no more than a token's supply, nor that its cap; shares add
\* up, and a pool with shares outstanding is never drained (token_engine.cpp).
ClaimsAreBacked == part = "tokens" => T!SupplyBacked /\ T!SharesBacked

\* No command lowers the worth of a liquidity share, and a spend of a note, refused or
\* not, keeps the worth of the privacy pool.
ValueIsConserved ==
    [][/\ part = "tokens" => T!ShareValueStep
       /\ part = "privacy" => P!SpendStep
       /\ part = "notes" => Q!SpendStep]_vars

\* A refused token or bridge command changes nothing, however late it was refused.
RefusedChangesNothing ==
    [][(part = "tokens" => T!RefusedStep) /\ (part = "bridge" => B!RefusalStep)]_vars

\* An attestation is honoured and a note is spent at most once, through refusals,
\* deaths and restarts; for notes as long as the pool's file loads.
HonouredOnce ==
    /\ part = "bridge" => B!AttestationHonouredOnce
    /\ part = "privacy" => P!NoteSpentOnce
    /\ part = "notes" => Q!NoteSpentOnce

\* An engine holds what its answered commands amount to, through deaths and restarts:
\* contracts their calls, the pipeline its stages, messages active or on record as
\* destroyed; and tokens.dat reads back to what it was written from.
NothingForgotten ==
    /\ part = "contracts" => C!CallsAddUp
    /\ part = "messages" => M!AcceptedIsAccountedFor
    /\ part = "pipeline" => F!StagesInOrder
    /\ part = "tokens" => T!DumpRoundTrips

\* The records of useful work agree with one another: commitments, challenges and the
\* two reports of a deal; assignment, worker and result of a job.
RecordsAgree ==
    /\ part = "storage" => S!OneCommitmentPerWorker /\ S!ReportsAgree
    /\ part = "compute" => J!OneWorkerPerJob

\* Every token command returns.
CommandsReturn == part = "tokens" => T!CommandsReturn

\* What is computed ahead is what happens: scheduled_total_emission and cap_height
\* what mining block by block emits, a draw's chances the stake, its rewards within
\* the pot, and the quote of the best route what the swap pays.
ForecastsComeTrue ==
    /\ part = "emission" => E!CapReachedAtCapHeight /\ E!EmissionMeetsClosedForm
    /\ part = "draw" => W!SeatsGoToDistinctTickets /\ W!ChanceIsStake /\ W!RewardsWithinPot
    /\ part = "tokens" => T!BestRouteIsExecutable

\* The required target stays in the configured range, moves by at most a factor of
\* two, never the wrong way, and not at all while blocks are on time.
RetargetIsStable ==
    part = "retarget" => /\ R!TargetWithinBounds /\ R!MoveLimited
                         /\ R!SteadyWindowKeepsTarget /\ R!RespondsInTheRightDirection
=============================================================================
