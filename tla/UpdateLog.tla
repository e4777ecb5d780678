---------------------------- MODULE UpdateLog -----------------------------
(***************************************************************************)
(* The chain of one document in the SQLite engine and the history beside   *)
(* it: packages/data/src/store/log.ts (appendUpdate, applyHistorySchema,   *)
(* retireDocument, createSqliteDurablePort) and the discard of bun.ts.     *)
(*                                                                         *)
(* Two files: a batch is one transaction of the live file, and each fold   *)
(* commits a transaction of the history file on its own before the live    *)
(* one commits.  An update is opaque; what a row's bytes carry is a set of *)
(* updates, since a baseline is the replay of the rows it replaces.        *)
(***************************************************************************)
EXTENDS Naturals, FiniteSets, Sequences

CONSTANTS
    Update,         \* updates authored here or received, some of them twice
    Threshold       \* SNAPSHOT_FOLD_THRESHOLD

ASSUME UpdateAssumption == IsFiniteSet(Update)
ASSUME ThresholdAssumption == Threshold \in Nat \ {0, 1}

NoRow == {}         \* history holds no row at a position

VARIABLES
    chain,          \* committed rows of _updates, in seq order from 1
    working,        \* those rows inside the open transaction
    open,           \* whether a transaction is open
    history,        \* rows of _history by seq
    batch,          \* history: the updates of the open transaction
    committed       \* history: every update this live file ever committed

logVars == <<chain, working, open, history, batch, committed>>

Rows == {chain[i] : i \in DOMAIN chain}
Carried(sequence) == UNION {sequence[i] : i \in DOMAIN sequence}

LogInit ==
    /\ chain = <<>> /\ working = <<>> /\ open = FALSE
    /\ history = [seq \in 1 .. Threshold |-> NoRow]
    /\ batch = {} /\ committed = {}

\* commit() opens the transaction of one batch.
Begin ==
    /\ ~open
    /\ open' = TRUE /\ working' = chain /\ batch' = {}
    /\ UNCHANGED <<chain, history, committed>>

\* INSERT OR IGNORE: a position that is taken keeps what it has.
Copied(superseded) ==
    [seq \in DOMAIN history |->
        IF history[seq] = NoRow /\ seq \in DOMAIN superseded
        THEN superseded[seq] ELSE history[seq]]

\* Mistaken: the baseline is made of the rows read before the last one was put.
StaleBaseline(superseded) == <<Carried(SubSeq(superseded, 1, Len(superseded) - 1))>>

Baseline(superseded) == <<Carried(superseded)>>

\* appendUpdate(): the row, and the fold when the chain has grown long enough.
AppendUpdate(update) ==
    /\ open
    /\ LET longer == working \o <<{update}>>
       IN  IF Len(longer) < Threshold
           THEN working' = longer /\ UNCHANGED history
           ELSE working' = Baseline(longer) /\ history' = Copied(longer)
    /\ batch' = batch \cup {update}
    /\ UNCHANGED <<chain, open, committed>>

\* The live transaction commits.
Commit ==
    /\ open
    /\ open' = FALSE /\ chain' = working /\ working' = <<>>
    /\ committed' = committed \cup batch /\ batch' = {}
    /\ UNCHANGED history

\* It is refused, or the process dies: the history file keeps what it copied.
Abort ==
    /\ open
    /\ open' = FALSE /\ working' = <<>> /\ batch' = {}
    /\ UNCHANGED <<chain, history, committed>>

\* discard(): the live file is deleted, the history file is left.
Discard ==
    /\ ~open
    /\ chain' = <<>> /\ committed' = {}
    /\ UNCHANGED <<working, open, history, batch>>

LogNext ==
    \/ Begin \/ Commit \/ Abort \/ Discard
    \/ \E update \in Update : AppendUpdate(update)

LogSpec == LogInit /\ [][LogNext]_logVars

------------------------------------------------------------------------
(* Properties. *)

\* The type of the state, with what log.ts:22-28 says of it: the file oscillates rather
\* than growing, so a chain at rest is shorter than the threshold.
LogTypeOK ==
    /\ Len(chain) < Threshold /\ Len(working) < Threshold
    /\ chain \in Seq(SUBSET Update) /\ working \in Seq(SUBSET Update)
    /\ open \in BOOLEAN /\ (~open => working = <<>>)
    /\ history \in [1 .. Threshold -> SUBSET Update]
    /\ batch \subseteq Update /\ committed \subseteq Update

\* A fold loses nothing a replay would show: what was ever committed is carried by
\* the chain that is now committed.
ReplayIsComplete == committed \subseteq Carried(chain)

\* log.ts:301-308 collapse would destroy what it supersedes, so it copies the rows
\* it is about to delete, "which duplicates an entry rather than losing one": every
\* update that was committed is still a row of its own, in the chain or the history.
SupersededIsKept ==
    \A update \in committed :
        {update} \in Rows \/ \E seq \in DOMAIN history : history[seq] = {update}
===========================================================================
