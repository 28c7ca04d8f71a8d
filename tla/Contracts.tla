----------------------------- MODULE Contracts ------------------------------
(***************************************************************************)
(* ContractEngine (contract_engine.cpp) and the contract_* commands: a     *)
(* contract is an owner, a code and a map from keys to signed words.  Its  *)
(* id is a hash of owner and code, here the pair.  The methods that only   *)
(* read another engine (token_balance, swap_quote, zk_privacy_status) and  *)
(* the removed zk_mint and zk_spend, which always refuse, change nothing;  *)
(* well stands for a key and a value they accept.                          *)
(***************************************************************************)
EXTENDS SideEngine, TLC

CONSTANTS
    Owners, Codes,
    KvKeys,
    Values,      \* std::int64_t arguments of set and add
    I64Max       \* the largest std::int64_t

Ids == Owners \X Codes

\* A signed word: the sum that add stores overflows to the other end.
Word(n) == ((n + I64Max + 1) % (2 * (I64Max + 1))) - (I64Max + 1)

Contract(owner, code, kv) == [owner |-> owner, code |-> code, kv |-> kv]

NoKeys == [k \in {} |-> 0]

\* Deploying the same code for the same owner again replaces the contract.
deploy(e, owner, code) == Accept((<<owner, code>> :> Contract(owner, code, NoKeys)) @@ e)

Value(kv, key) == IF key \in DOMAIN kv THEN kv[key] ELSE 0

call(e, id, method, key, value, well) ==
    LET Store(n) == Accept([e EXCEPT ![id].kv = (key :> n) @@ @])
    IN  CASE id \notin DOMAIN e -> Refuse(e)
          [] id \in DOMAIN e /\ method = "set" -> Store(value)
          [] id \in DOMAIN e /\ method = "add" -> Store(Word(Value(e[id].kv, key) + value))
          [] id \in DOMAIN e /\ method = "get" -> Accept(e)
          [] id \in DOMAIN e /\ method \in {"token_balance", "swap_quote", "zk_privacy_status"} ->
                IF well THEN Accept(e) ELSE Refuse(e)
          [] OTHER -> Refuse(e)

Methods == {"set", "add", "get", "token_balance", "swap_quote", "zk_privacy_status",
            "zk_mint", "zk_spend"}

---------------------------------------------------------------------------
(* The file: a line C for every contract, followed by its lines K.         *)

dump_state(e) ==
    [C |-> {<<id, e[id].owner, e[id].code>> : id \in DOMAIN e},
     K |-> UNION {{<<id, k, e[id].kv[k]>> : k \in DOMAIN e[id].kv} : id \in DOMAIN e}]

Line(lines, id) == CHOOSE l \in lines : l[1] = id

\* Mutant: the line of a contract is read after those of its keys and resets it.
load_stateContractLast(file) ==
    [id \in {l[1] : l \in file.C} |->
        Contract(Line(file.C, id)[2], Line(file.C, id)[3], NoKeys)]

load_state(file) ==
    [id \in {l[1] : l \in file.C} |->
        LET own == {l \in file.K : l[1] = id}
        IN  Contract(Line(file.C, id)[2], Line(file.C, id)[3],
                     [k \in {l[2] : l \in own} |-> (CHOOSE l \in own : l[2] = k)[3]])]

---------------------------------------------------------------------------
(* The commands.  history is what a caller who keeps account believes the  *)
(* keys hold: the last set plus the adds answered since.                   *)

ContractDeploy(owner, code) ==
    Command(deploy(engine, owner, code), (<<owner, code>> :> [k \in KvKeys |-> 0]) @@ history)

ContractCall(id, method, key, value, well) ==
    Command(call(engine, id, method, key, value, well),
            CASE method = "set" -> [history EXCEPT ![id][key] = value]
              [] method = "add" -> [history EXCEPT ![id][key] = @ + value]
              [] OTHER -> history)

ContractsInit ==
    LET none == [id \in {} |-> Contract("", "", NoKeys)] IN SideInit(none, dump_state(none), none)

ContractsNext ==
    \/ \E o \in Owners, c \in Codes : ContractDeploy(o, c)
    \/ \E id \in Ids, m \in Methods, k \in KvKeys, v \in Values, w \in BOOLEAN :
          ContractCall(id, m, k, v, w)
    \/ Persist(dump_state(engine))
    \/ Restart(load_state(saved.file))

ContractsSpec == ContractsInit /\ [][ContractsNext]_sideVars

---------------------------------------------------------------------------
\* Through calls on several contracts, deaths and restarts every key holds what
\* its contract's answered calls amount to, modulo 2^64: no call is lost, none
\* is applied to another contract, and no restart mixes old and new keys.
CallsAddUp ==
    /\ DOMAIN engine = DOMAIN history
    /\ \A id \in DOMAIN engine, k \in KvKeys : Value(engine[id].kv, k) = Word(history[id][k])

=============================================================================
