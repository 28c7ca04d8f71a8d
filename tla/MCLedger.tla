------------------------------ MODULE MCLedger ------------------------------
(***************************************************************************)
(* Small instances of Ledger.  Miner m mines, locks a coinbase as stake or *)
(* pays a; the lock is unlocked, and the unlocked coins spent; a pays a    *)
(* script, and the script is spent.  `lock` and `pay` spend one output.    *)
(***************************************************************************)
EXTENDS Ledger

CONSTANTS Coinbases, Bodies, VoteLists, SlashLists, Works, DrawLists

MCAddress == {"m", "a", "p", "stake"}

MCName == {"c", "v", "w", "d", "e", "x", "lock", "pay", "again", "unlock", "early", "fund", "script", "relock"}

Tx(name, ins, outs, fee, signer, nonce, key) ==
  [id |-> <<name, 0>>, ins |-> ins, outs |-> outs, fee |-> fee,
   signer |-> signer, nonce |-> nonce, key |-> key]

Out(owner, amount) == [owner |-> owner, amount |-> amount]

\* The first output of a transaction, of the coinbase c at a height.
First(name) == <<<<name, 0>>, 1>>

CoinOf(h) == <<<<"c", h>>, 1>>

Lock   == Tx("lock", {CoinOf(1)}, <<Out("stake", 3)>>, 1, "m", 1, TRUE)
Pay    == Tx("pay", {CoinOf(1)}, <<Out("a", 3), Out("m", 1)>>, 0, "m", 1, TRUE)
\* Spends another coin under a nonce already used.
Again  == Tx("again", {CoinOf(2)}, <<Out("a", 4)>>, 0, "m", 1, FALSE)
Unlock == Tx("unlock", {First("lock")}, <<Out("m", 3)>>, 0, "m", 2, FALSE)
Early  == Tx("early", {First("unlock")}, <<Out("a", 3)>>, 0, "m", 3, FALSE)
Fund   == Tx("fund", {First("pay")}, <<Out("p", 3)>>, 0, "a", 7, TRUE)
Script == Tx("script", {First("fund")}, <<Out("m", 2)>>, 0, "", 0, FALSE)
\* A script spend that locks stake.
Relock == Tx("relock", {First("fund")}, <<Out("stake", 3)>>, 0, "", 0, FALSE)

MCTxs == {Lock, Pay, Again, Unlock, Early, Fund, Script, Relock}

\* Coinbases by name: plain reward, reward with a vote paid (v), with fee and
\* vote (w), the clipped last reward (d), none (e), too much (x).
CoinbaseOuts ==
  [c |-> <<Out("m", 4)>>, v |-> <<Out("m", 3), Out("m", 1)>>,
   w |-> <<Out("m", 5)>>, d |-> <<Out("m", 2)>>, e |-> <<>>, x |-> <<Out("m", 6)>>]

MCBlocks ==
  {[coinbase |-> c, outs |-> CoinbaseOuts[c], txs |-> t, votes |-> v, slashes |-> s,
    work |-> w, draws |-> d] :
      c \in Coinbases, t \in Bodies, v \in VoteLists, s \in SlashLists, w \in Works, d \in DrawLists}

Vote(t, yes) == [ticket |-> t, approve |-> yes]

MCTicketOrder == <<First("lock"), First("relock")>>

ZeroDraw == <<0>>

StakingCoinbases == {"c", "v", "w", "e", "x"}

\* Bodies of the replacement runs: one transaction, or two that interact.
ReorgBodies == {<<>>, <<Lock>>, <<Again>>, <<Unlock>>, <<Lock, Unlock>>}

\* Heavy blocks are empty, only empty blocks claim too much, and evidence comes
\* with the clipped reward, alone or with the unlock it races.
ReorgBlocks ==
  {b \in MCBlocks : /\ b.work > 1 => b.coinbase = "c" /\ b.txs = <<>>
                    /\ b.coinbase = "x" => b.txs = <<>>
                    /\ b.coinbase = "d" => b.txs \in {<<>>, <<Unlock>>}
                    /\ b.coinbase # "d" => b.slashes = <<>>}

ReorgCoinbases == {"c", "d", "x"}

StakingBodies == {<<>>, <<Lock>>, <<Pay>>, <<Again>>, <<Unlock>>, <<Early>>,
                  <<Lock, Unlock>>, <<Unlock, Early>>, <<Pay, Fund>>, <<Script>>}

ScriptStakeBodies == {<<>>, <<Pay>>, <<Fund>>, <<Relock>>}

NoVotes == {<<>>}

LockVotes == {<<>>, <<Vote(First("lock"), TRUE)>>, <<Vote(First("lock"), FALSE)>>}

NoSlashes == {<<>>}

LockSlashes == {<<>>, <<First("lock")>>}

OneDraw == {<<0>>}
=============================================================================
