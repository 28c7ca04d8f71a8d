---------------------------- MODULE PrivacyPool -----------------------------
(***************************************************************************)
(* PrivacyPool (privacy.cpp) and the privacy_* commands: notes opened by a *)
(* commitment and a nullifier that hash an amount and a trapdoor, spent    *)
(* once.  An opening is the pair of amount and trapdoor, from which both   *)
(* hashes follow; the trapdoors the pool draws at random never repeat.     *)
(*                                                                         *)
(* The amount of a note is stored sealed: the hexadecimal digits, without  *)
(* leading zeros, of the amount masked by a hash.  The hash decides how    *)
(* many digits there are and what the first one is; form records it:       *)
(* "even", "number" (odd, beginning with decimal digits) or "letter" (odd, *)
(* beginning with one of a to f).                                          *)
(***************************************************************************)
EXTENDS SideEngine, TLC

CONSTANTS
    Owners,
    NoteAmounts,   \* amounts the commands name, 0 included
    Trapdoors,     \* trapdoors that clients have drawn
    Forms          \* the forms a sealed amount may take

Nobody == "nobody"
Garbled == 0
NoDraw == <<"none">>

PrivateNote(owner, opening, form) ==
    [owner |-> owner, amount |-> opening.amount, opening |-> opening,
     form |-> form, spent |-> FALSE]

OpeningNote(amount, trapdoor) == [amount |-> amount, trapdoor |-> trapdoor]

verify_opening(amount, opening) == opening.amount = amount

\* used and burnt are used_nullifiers_ and spent_commitments_.  The note's id
\* hashes owner, amount and commitment.
mint_open(e, owner, amount, opening, form) ==
    IF \/ amount = 0 \/ ~verify_opening(amount, opening)
       \/ opening \in e.used \/ opening \in e.burnt
       \/ \E id \in DOMAIN e.notes : e.notes[id].opening = opening
    THEN Refuse(e)
    ELSE Accept([e EXCEPT !.notes = (<<owner, opening>> :> PrivateNote(owner, opening, form)) @@ @])

MintedId(owner, opening) == <<owner, opening>>

\* Mutant: the recipient's note stays when there is no randomness for the change.
spend_openKeepingMinted(e, owner, id, recipient, amount, trapdoor, draws, forms) ==
    LET note == e.notes[id]
        paid == OpeningNote(amount, draws[1])
        first == mint_open(e, recipient, amount, paid, forms[1])
        change == OpeningNote(note.amount - amount, draws[2])
        second == mint_open(first.engine, owner, note.amount - amount, change, forms[2])
        full == IF note.amount > amount THEN second.engine ELSE first.engine
    IN  IF \/ amount = 0 \/ id \notin DOMAIN e.notes \/ note.spent \/ note.owner # owner
           \/ note.amount < amount \/ ~verify_opening(note.amount, OpeningNote(note.opening.amount, trapdoor))
           \/ trapdoor # note.opening.trapdoor \/ note.opening \in e.used \/ draws[1] = NoDraw
        THEN Refuse(e)
        ELSE IF note.amount > amount /\ draws[2] = NoDraw THEN Refuse(first.engine)
        ELSE Accept([full EXCEPT !.notes[id].spent = TRUE, !.used = @ \union {note.opening},
                                 !.burnt = @ \union {note.opening}])

\* spend_open: draws are the two random trapdoors, NoDraw where the system has
\* no randomness.  The recipient's note is minted first and erased again when
\* the change cannot be; the spent note is marked last.
spend_open(e, owner, id, recipient, amount, trapdoor, draws, forms) ==
    LET note == e.notes[id]
        paid == OpeningNote(amount, draws[1])
        first == mint_open(e, recipient, amount, paid, forms[1])
        change == OpeningNote(note.amount - amount, draws[2])
        second == mint_open(first.engine, owner, note.amount - amount, change, forms[2])
        minted == IF note.amount > amount THEN second ELSE first
        erased == [x \in DOMAIN first.engine.notes \ {MintedId(recipient, paid)} |->
                     first.engine.notes[x]]
    IN  IF \/ amount = 0 \/ id \notin DOMAIN e.notes
           \/ note.spent \/ note.owner # owner \/ note.amount < amount
           \/ ~verify_opening(note.amount, note.opening) \/ trapdoor # note.opening.trapdoor
           \/ note.opening \in e.used
           \/ draws[1] = NoDraw \/ first.answer = "error"
        THEN Refuse(e)
        ELSE IF (note.amount > amount /\ draws[2] = NoDraw) \/ minted.answer = "error"
        THEN Refuse([first.engine EXCEPT !.notes = erased])
        ELSE Accept([minted.engine EXCEPT !.notes[id].spent = TRUE,
                                          !.used = @ \union {note.opening},
                                          !.burnt = @ \union {note.opening}])

---------------------------------------------------------------------------
(* The file: lines N, then U, then S.  A sealed amount of an odd number of *)
(* digits is taken for a plain amount of an older version: the owner tag   *)
(* is hashed again and the amount read as a decimal number, which either   *)
(* yields another amount or fails; a failure ends the load with the notes  *)
(* read so far, in no particular order, and no U or S line.                *)

dump_state(e) ==
    [N |-> {<<id, e.notes[id]>> : id \in DOMAIN e.notes}, U |-> e.used, S |-> e.burnt]

Migrated(note) == [note EXCEPT !.owner = Nobody, !.amount = Garbled]

LoadedNotes(lines) ==
    [id \in {l[1] : l \in lines} |->
        LET note == (CHOOSE l \in lines : l[1] = id)[2]
        IN  IF note.form = "even" THEN note ELSE Migrated(note)]

SpentIn(lines) == {l[2].opening : l \in {l \in lines : l[2].spent /\ l[2].form = "even"}}

\* Mutant: the lines of the used nullifiers and spent commitments are skipped,
\* and so is the flag of the note.
load_statesForgettingSpends(file) ==
    {[notes |-> [id \in DOMAIN LoadedNotes(file.N) |->
                   [LoadedNotes(file.N)[id] EXCEPT !.spent = FALSE]],
      used |-> {}, burnt |-> {}]}

\* The engines a load may leave behind.
load_states(file) ==
    LET good == {l \in file.N : l[2].form # "letter"}
    IN  IF good = file.N
        THEN {[notes |-> LoadedNotes(file.N), used |-> file.U,
               burnt |-> file.S \union SpentIn(file.N)]}
        ELSE {[notes |-> LoadedNotes(part), used |-> {}, burnt |-> SpentIn(part)]
                : part \in SUBSET good}

---------------------------------------------------------------------------
(* The commands.  history lists the notes that were spent.                 *)

PrivacyMintOpen(owner, amount, opening, form) ==
    Command(mint_open(engine, owner, amount, opening, form), history)

PrivacySpendOpen(owner, id, recipient, amount, trapdoor, draws, forms) ==
    Command(spend_open(engine, owner, id, recipient, amount, trapdoor, draws, forms),
            Append(history, id))

PrivacyInit ==
    LET none == [notes |-> [id \in {} |-> 0], used |-> {}, burnt |-> {}]
    IN  SideInit(none, dump_state(none), <<>>)

Draws == {<<NoDraw, NoDraw>>, <<<<"drawn", given, 1>>, NoDraw>>,
          <<<<"drawn", given, 1>>, <<"drawn", given, 2>>>>}

PrivacyNext ==
    \/ \E o \in Owners, n, m \in NoteAmounts, t \in Trapdoors, f \in Forms :
          PrivacyMintOpen(o, n, OpeningNote(m, t), f)
    \/ \E id \in DOMAIN engine.notes, o, r \in Owners, n \in NoteAmounts, d \in Draws, f, g \in Forms :
          \E t \in {engine.notes[id].opening.trapdoor, <<"wrong">>} :
             PrivacySpendOpen(o, id, r, n, t, d, <<f, g>>)
    \/ Persist(dump_state(engine))
    \/ \E loaded \in load_states(saved.file) : Restart(loaded)

PrivacySpec == PrivacyInit /\ [][PrivacyNext]_sideVars

---------------------------------------------------------------------------
\* A note is spent at most once, through refused spends, deaths between answer
\* and write, restarts, and a second mint of its own opening.  So as long as the
\* file loads: no note has the form "letter", at which load_state gives up.
NoteSpentOnce == \A i, j \in DOMAIN history : history[i] = history[j] => i = j

Unspent(e) == {id \in DOMAIN e.notes : ~e.notes[id].spent}
Worth(e) == FoldSet(LAMBDA id, sum : sum + e.notes[id].amount, 0, Unspent(e))

\* A spend neither makes nor loses value: with and without change, the unspent
\* notes are worth the same before and after; and a refused one, the spend that
\* runs out of randomness half-way included, leaves the pool as it was.
SpendStep ==
    given' # given =>
       /\ Len(history') > Len(history) => Worth(engine') = Worth(engine)
       /\ answer' = "error" => engine' = engine

\* Side-state is "flushed after each successful write and on shutdown"
\* (docs/ARCHITECTURE.md): a note that was written is there, with its owner and
\* its amount, after the next start.
NotesSurviveRestart == load_states(dump_state(engine)) = {engine}

=============================================================================
