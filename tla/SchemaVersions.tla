----------------------------- MODULE SchemaVersions -----------------------------
(***************************************************************************)
(* The constructors of ActionStore, TaskStore, WakeIntentStore and         *)
(* BudgetStore over one SQLite file: each creates or upgrades what it      *)
(* needs, in one transaction, and three of them share user_version.        *)
(*                                                                         *)
(* The stores may be constructed in any order and by several processes at  *)
(* once, over a file of any earlier version of the library or of a later   *)
(* one; any statement may fail and any process may die on the way.         *)
(* BEGIN IMMEDIATE makes one constructor at a time the writer of the file; *)
(* its statements change a draft that only COMMIT makes visible.           *)
(*                                                                         *)
(* Operators named Faulty... are variants with a plausible bug; no action  *)
(* uses them.                                                              *)
(***************************************************************************)
EXTENDS Integers, Sequences

CONSTANTS
    Openers,    \* the threads or processes that construct a store
    Files,      \* the files they may find
    NoOne       \* no writer

Metadata == {"metadata_content_type", "metadata"}

(* What each constructor executes between its version check and the update   *)
(* of user_version: a table, a column, an index or a trigger at a time.      *)

ActionScript == <<"actions">>

TaskScript == <<"tasks", "metadata_content_type", "metadata">>

WakeScript == <<"wake_intents", "due_index", "insert_trigger",
                "transition_trigger", "delete_trigger">>

BudgetScript == <<"budget_consumptions", "time_index">>

Script == [action |-> ActionScript, task |-> TaskScript,
           wake |-> WakeScript, budget |-> BudgetScript]

Stores == DOMAIN Script

\* What the operations of the store need to find in the file.
Needed(store) == {Script[store][i] : i \in DOMAIN Script[store]}

Parts == UNION {Needed(store) : store \in Stores}

\* The version this library supports, and that of a later one.
Supported == 4
Later == 5

\* A file holds what a store needs completely or not at all, except for the
\* tasks table of version 2, which has no metadata columns.
File ==
    {f \in [version : 0 .. Later, parts : SUBSET Parts] :
        /\ \A store \in {"wake", "budget"} :
               Needed(store) \cap f.parts \in {{}, Needed(store)}
        /\ Needed("task") \cap f.parts \in {{}, {"tasks"}, Needed("task")}}

ASSUME FilesAssumption == Files \subseteq File
ASSUME NoOneAssumption == NoOne \notin Openers

VARIABLES
    file,       \* the committed content of the database file
    draft,      \* what the writer's transaction has made of it
    writer,     \* who holds the write lock
    openers     \* where each opener is, with which store

vars == <<file, draft, writer, openers>>

Closed == [at |-> "closed"]

Opener ==
    {Closed}
    \cup [at : {"waiting", "open"}, store : Stores]
    \cup [at : {"building"}, store : Stores, step : 1 .. 6]
-----------------------------------------------------------------------------
FaultyVersionAfter(store, version) ==
    CASE store = "action" -> IF version = 0 THEN 1 ELSE version
      [] store = "task" -> 3
      [] store = "wake" -> IF version < 4 THEN 4 ELSE version
      [] store = "budget" -> version

\* PRAGMA user_version at the end of the script.
VersionAfter(store, version) ==
    CASE store = "action" -> IF version = 0 THEN 1 ELSE version
      [] store = "task" -> IF version < 3 THEN 3 ELSE version
      [] store = "wake" -> IF version < 4 THEN 4 ELSE version
      [] store = "budget" -> version

\* BudgetStore does not look at the version.
Refuses(store) == store # "budget" /\ draft.version > Supported

FaultySkips(part) == part \in draft.parts \/ (part \in Metadata /\ draft.version >= 3)

\* CREATE ... IF NOT EXISTS, and has_column() before ALTER TABLE.
Skips(part) == part \in draft.parts

\* A tasks table that is created has its metadata columns from the start.
Adds(part) == IF part = "tasks" THEN Needed("task") ELSE {part}
-----------------------------------------------------------------------------
Init ==
    /\ file \in Files
    /\ draft = file
    /\ writer = NoOne
    /\ openers = [o \in Openers |-> Closed]

Open(o, store) ==
    /\ openers[o] = Closed
    /\ openers' = [openers EXCEPT ![o] = [at |-> "waiting", store |-> store]]
    /\ UNCHANGED <<file, draft, writer>>

BeginImmediate(o) ==
    /\ openers[o].at = "waiting"
    /\ writer = NoOne
    /\ writer' = o
    /\ draft' = file
    /\ openers' = [openers EXCEPT ![o] = [at |-> "building", store |-> @.store, step |-> 1]]
    /\ UNCHANGED file

\* One statement of the script; the first one follows the version check.
Execute(o) ==
    LET script == Script[openers[o].store]
        step == openers[o].step
    IN
    /\ openers[o].at = "building"
    /\ step \in DOMAIN script
    /\ ~Refuses(openers[o].store)
    /\ draft' = IF Skips(script[step]) THEN draft
                ELSE [draft EXCEPT !.parts = @ \cup Adds(script[step])]
    /\ openers' = [openers EXCEPT ![o].step = @ + 1]
    /\ UNCHANGED <<file, writer>>

FaultyScriptDone(o) == openers[o].step > 1

\* All the statements have run.
ScriptDone(o) == openers[o].step > Len(Script[openers[o].store])

\* user_version and COMMIT.
Commit(o) ==
    /\ openers[o].at = "building"
    /\ ScriptDone(o)
    /\ file' = [draft EXCEPT !.version = VersionAfter(openers[o].store, @)]
    /\ draft' = file'
    /\ writer' = NoOne
    /\ openers' = [openers EXCEPT ![o] = [at |-> "open", store |-> @.store]]

\* A refused version, an error, a lock not granted in time or the death of
\* the process: the transaction is rolled back and nothing is open.
Fail(o) ==
    /\ openers[o].at \in {"waiting", "building"}
    /\ openers' = [openers EXCEPT ![o] = Closed]
    /\ IF writer = o THEN writer' = NoOne /\ draft' = file
       ELSE UNCHANGED <<writer, draft>>
    /\ UNCHANGED file

Close(o) ==
    /\ openers[o].at = "open"
    /\ openers' = [openers EXCEPT ![o] = Closed]
    /\ UNCHANGED <<file, draft, writer>>

Next ==
    \E o \in Openers :
        \/ \E store \in Stores : Open(o, store)
        \/ BeginImmediate(o)
        \/ Execute(o)
        \/ Commit(o)
        \/ Fail(o)
        \/ Close(o)

Spec == Init /\ [][Next]_vars
-----------------------------------------------------------------------------
\* Types.  In particular no failure leaves the file half migrated, and one
\* constructor at a time writes.
TypeOK ==
    /\ file \in File
    /\ draft \in [version : 0 .. Later, parts : SUBSET Parts]
    /\ writer \in Openers \cup {NoOne}
    /\ openers \in [Openers -> Opener]
    /\ \A o \in Openers : openers[o].at = "building" <=> writer = o

\* "safe both when ActionStore created a fresh version-1 database before
\* TaskStore and when an existing production v2 tasks table is being
\* upgraded": an open store finds all it needs, in whatever order the stores
\* raised the shared version, and while others migrate the file.
OpenIsUsable ==
    \A o \in Openers :
        openers[o].at = "open" => Needed(openers[o].store) \subseteq file.parts

\* Migrations are additive: the version never falls and nothing is dropped;
\* in the file of a later library only the budget's own table may be added.
MigrationsAreAdditive ==
    [][/\ file.version <= file'.version
       /\ file.parts \subseteq file'.parts
       /\ file.version > Supported =>
              /\ file'.version = file.version
              /\ file'.parts \subseteq file.parts \cup Needed("budget")]_file
=============================================================================
