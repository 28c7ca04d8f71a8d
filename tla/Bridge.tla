------------------------------- MODULE Bridge -------------------------------
(***************************************************************************)
(* BridgeEngine (bridge.cpp) and the bridge_* commands: per foreign chain  *)
(* a locked pool, wrapped balances, and the attestations already honoured. *)
(* An attestation is the signature of an attestor key over an operation,   *)
(* a chain, a user and an amount; its fields are what the signature        *)
(* covers, sig tells two signatures over the same message apart.           *)
(***************************************************************************)
EXTENDS SideEngine

CONSTANTS
    Chains, Users,
    Keys,           \* attestor keys
    Amounts,        \* amounts the commands name, 0 included
    U64Max,         \* the largest std::uint64_t
    Attestations    \* the signatures the attestors have issued

NoKey == "none"

\* ChainState, and the empty one that register_chain emplaces.
ChainState(locked, key, wrapped, receipts, used) ==
    [locked_pool |-> locked, attestor_pubkey |-> key, wrapped_balances |-> wrapped,
     receipts |-> receipts, used_attestations |-> used]

Registered == ChainState(0, NoKey, [u \in Users |-> 0], <<>>, {})

register_chain(e, chain) ==
    Accept(e @@ [c \in {chain} |-> Registered])

set_attestor_key(e, chain, key) ==
    IF chain \notin DOMAIN e THEN Refuse(e) ELSE Accept([e EXCEPT ![chain].attestor_pubkey = key])

lock(e, chain, user, amount) ==
    IF \/ amount = 0 \/ chain \notin DOMAIN e
       \/ e[chain].locked_pool > U64Max - amount
    THEN Refuse(e)
    ELSE Accept([e EXCEPT ![chain].locked_pool = @ + amount,
                          ![chain].receipts = Append(@, <<chain, user, amount>>)])

mint_wrapped(e, chain, user, amount) ==
    IF \/ chain \notin DOMAIN e \/ amount = 0
       \/ e[chain].locked_pool < amount
       \/ e[chain].wrapped_balances[user] > U64Max - amount
    THEN Refuse(e)
    ELSE Accept([e EXCEPT ![chain].wrapped_balances[user] = @ + amount])

burn_wrapped(e, chain, user, amount) ==
    IF chain \notin DOMAIN e \/ amount = 0 \/ e[chain].wrapped_balances[user] < amount
    THEN Refuse(e)
    ELSE Accept([e EXCEPT ![chain].wrapped_balances[user] = @ - amount])

release(e, chain, user, amount) ==
    IF \/ chain \notin DOMAIN e \/ amount = 0
       \/ e[chain].locked_pool < amount \/ e[chain].wrapped_balances[user] < amount
    THEN Refuse(e)
    ELSE Accept([e EXCEPT ![chain].wrapped_balances[user] = @ - amount,
                          ![chain].locked_pool = @ - amount])

\* verify_message_signature_hybrid: the key signed exactly this message.
verify_message_signature_hybrid(key, op, chain, user, amount, a) ==
    a.key = key /\ a.op = op /\ a.chain = chain /\ a.user = user /\ a.amount = amount

\* Mutant: a refused operation keeps the attestation in the used set.
AttestedKeepingId(e, op, chain, user, amount, a) ==
    LET used == [e EXCEPT ![chain].used_attestations = @ \union {a}]
        done == IF op = "mint" THEN mint_wrapped(used, chain, user, amount)
                               ELSE release(used, chain, user, amount)
    IN  IF \/ chain \notin DOMAIN e
           \/ ~verify_message_signature_hybrid(e[chain].attestor_pubkey, op, chain, user, amount, a)
           \/ a \in e[chain].used_attestations
        THEN Refuse(e)
        ELSE done

\* mint_wrapped_attested and release_attested: the attestation is entered in
\* the used set before the operation and taken out when the operation fails.
Attested(e, op, chain, user, amount, a) ==
    LET used == [e EXCEPT ![chain].used_attestations = @ \union {a}]
        done == IF op = "mint" THEN mint_wrapped(used, chain, user, amount)
                               ELSE release(used, chain, user, amount)
    IN  IF \/ chain \notin DOMAIN e \/ e[chain].attestor_pubkey = NoKey
           \/ ~verify_message_signature_hybrid(e[chain].attestor_pubkey, op, chain, user, amount, a)
           \/ a \in e[chain].used_attestations
        THEN Refuse(e)
        ELSE IF done.answer = "ok" THEN done
             ELSE Refuse([done.engine EXCEPT ![chain].used_attestations = @ \ {a}])

mint_wrapped_attested(e, chain, user, amount, a) == Attested(e, "mint", chain, user, amount, a)

release_attested(e, chain, user, amount, a) == Attested(e, "release", chain, user, amount, a)

---------------------------------------------------------------------------
(* The file: one line per pool, key, attestation, balance and receipt.     *)

\* Mutant: the lines of the attestations are not written.
dump_stateWithoutAttestations(e) ==
    [c \in DOMAIN e |-> [C |-> e[c].locked_pool, A |-> e[c].attestor_pubkey, Y |-> {},
                         W |-> e[c].wrapped_balances, R |-> e[c].receipts]]

dump_state(e) ==
    [c \in DOMAIN e |-> [C |-> e[c].locked_pool, A |-> e[c].attestor_pubkey,
                         Y |-> e[c].used_attestations,
                         W |-> e[c].wrapped_balances, R |-> e[c].receipts]]

load_state(file) ==
    [c \in DOMAIN file |-> ChainState(file[c].C, file[c].A, file[c].W, file[c].R, file[c].Y)]

---------------------------------------------------------------------------
(* The commands.  history lists the attestations that were honoured.       *)

BridgeRegister(chain) == Command(register_chain(engine, chain), history)

\* signed: the command carries an admin's signature over its payload.
BridgeSetAttestor(chain, key, signed) ==
    Command(IF signed THEN set_attestor_key(engine, chain, key) ELSE Refuse(engine), history)

BridgeLock(chain, user, amount) == Command(lock(engine, chain, user, amount), history)

BridgeMint(chain, user, amount) == Command(mint_wrapped(engine, chain, user, amount), history)

BridgeMintAttested(chain, user, amount, a) ==
    Command(mint_wrapped_attested(engine, chain, user, amount, a), Append(history, a))

BridgeBurn(chain, user, amount) == Command(burn_wrapped(engine, chain, user, amount), history)

BridgeRelease(chain, user, amount) == Command(release(engine, chain, user, amount), history)

BridgeReleaseAttested(chain, user, amount, a) ==
    Command(release_attested(engine, chain, user, amount, a), Append(history, a))

BridgeInit == SideInit([c \in {} |-> Registered], dump_state([c \in {} |-> Registered]), <<>>)

BridgeNext ==
    \/ \E c \in Chains : BridgeRegister(c)
    \/ \E c \in Chains, k \in Keys, s \in BOOLEAN : BridgeSetAttestor(c, k, s)
    \/ \E c \in Chains, u \in Users, n \in Amounts :
          \/ BridgeLock(c, u, n)
          \/ BridgeMint(c, u, n)
          \/ BridgeBurn(c, u, n)
          \/ BridgeRelease(c, u, n)
          \/ \E a \in Attestations : BridgeMintAttested(c, u, n, a) \/ BridgeReleaseAttested(c, u, n, a)
    \/ Persist(dump_state(engine))
    \/ Restart(load_state(saved.file))

BridgeSpec == BridgeInit /\ [][BridgeNext]_sideVars

---------------------------------------------------------------------------
\* An attestation is honoured at most once in the life of the bridge, through
\* refused attempts, a change of the attestor's key, deaths of the process
\* between an answer and its write, and restarts.
AttestationHonouredOnce ==
    \A i, j \in DOMAIN history : history[i] = history[j] => i = j

\* A refused bridge command leaves pools, balances and the used attestations as
\* they were: an attestation refused for want of collateral stays good.
RefusalStep == given' # given /\ answer' = "error" => engine' = engine

=============================================================================
