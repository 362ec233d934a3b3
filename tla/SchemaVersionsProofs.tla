-------------------------- MODULE SchemaVersionsProofs --------------------------
(* Theorems about SchemaVersions for any number of openers and for every file *)
(* of File that they may find, and not only those of the instance for TLC.    *)
EXTENDS SchemaVersions, TLAPS

\* What the transaction of a constructor has done so far: it has the version
\* and the content of the file, all that its statements so far are for,
\* nothing else, and no statement has run unless the version was accepted.
Progress(o) ==
    LET store == openers[o].store
        step == openers[o].step
    IN
    /\ step \in 1 .. Len(Script[store]) + 1
    /\ draft.version = file.version
    /\ file.parts \subseteq draft.parts
    /\ draft.parts \subseteq file.parts \cup Needed(store)
    /\ \A i \in 1 .. Len(Script[store]) : i < step => Script[store][i] \in draft.parts
    /\ step > 1 => ~Refuses(store)

\* The inductive invariant.  TypeOK alone does not say that what is committed
\* is a complete schema, and OpenIsUsable not that it stays in the file.
IInv ==
    /\ TypeOK
    /\ \A o \in Openers : openers[o].at = "building" => Progress(o)
    /\ OpenIsUsable
-----------------------------------------------------------------------------
(* The scripts. *)

\* What each script is for, and how long it is.
LEMMA Scripts ==
    /\ Stores = {"action", "task", "wake", "budget"}
    /\ Needed("action") = {"actions"}
    /\ Needed("task") = {"tasks"} \cup Metadata
    /\ Needed("wake") = {"wake_intents", "due_index", "insert_trigger",
                         "transition_trigger", "delete_trigger"}
    /\ Needed("budget") = {"budget_consumptions", "time_index"}
    /\ \A store \in Stores :
        /\ Len(Script[store]) \in 1 .. 5
        /\ DOMAIN Script[store] = 1 .. Len(Script[store])
<1>1. Stores = {"action", "task", "wake", "budget"}
  BY DEF Stores, Script
<1>2. /\ Script["action"] = ActionScript /\ Script["task"] = TaskScript
      /\ Script["wake"] = WakeScript /\ Script["budget"] = BudgetScript
  BY DEF Script
<1>3. /\ Len(ActionScript) = 1 /\ DOMAIN ActionScript = 1 .. 1
      /\ Len(TaskScript) = 3 /\ DOMAIN TaskScript = 1 .. 3
      /\ Len(WakeScript) = 5 /\ DOMAIN WakeScript = 1 .. 5
      /\ Len(BudgetScript) = 2 /\ DOMAIN BudgetScript = 1 .. 2
  BY DEF ActionScript, TaskScript, WakeScript, BudgetScript
<1>4. Needed("action") = {"actions"}
  BY <1>2, <1>3 DEF Needed, ActionScript
<1>5. Needed("task") = {"tasks"} \cup Metadata
  BY <1>2, <1>3 DEF Needed, TaskScript, Metadata
<1>6. Needed("wake") = {"wake_intents", "due_index", "insert_trigger",
                         "transition_trigger", "delete_trigger"}
  BY <1>2, <1>3 DEF Needed, WakeScript
<1>7. Needed("budget") = {"budget_consumptions", "time_index"}
  BY <1>2, <1>3 DEF Needed, BudgetScript
<1> QED
  BY <1>1, <1>2, <1>3, <1>4, <1>5, <1>6, <1>7

\* No two stores need the same table, column, index or trigger.
LEMMA NeededDisjoint ==
    ASSUME NEW s \in Stores, NEW t \in Stores, s # t
    PROVE  Needed(s) \cap Needed(t) = {}
BY Scripts DEF Metadata

\* A statement adds only what its own store needs.
LEMMA AddsNeeded ==
    ASSUME NEW store \in Stores, NEW i \in 1 .. Len(Script[store])
    PROVE  /\ Script[store][i] \in Needed(store)
           /\ Script[store][i] \in Adds(Script[store][i])
           /\ Adds(Script[store][i]) \subseteq Needed(store)
<1>1. Script[store][i] \in Needed(store)
  BY Scripts DEF Needed
<1>2. "tasks" \in Needed("task")
  BY Scripts
<1>3. Script[store][i] = "tasks" => store = "task"
  BY <1>1, Scripts DEF Metadata
<1> QED
  BY <1>1, <1>2, <1>3 DEF Adds

\* The version a constructor leaves is a version, and never a lower one; that
\* of a later library is left alone.
LEMMA VersionNeverFalls ==
    ASSUME NEW store \in Stores, NEW version \in 0 .. Later
    PROVE  /\ VersionAfter(store, version) \in 0 .. Later
           /\ version <= VersionAfter(store, version)
           /\ version > Supported => VersionAfter(store, version) = version
BY Scripts DEF VersionAfter, Later, Supported

\* A file that gains all that one store needs, and nothing else, is again one
\* in which each store finds everything or nothing.
LEMMA CompletedIsFile ==
    ASSUME NEW f \in File, NEW store \in Stores, NEW version \in 0 .. Later,
           NEW parts \in SUBSET Parts,
           Needed(store) \subseteq parts, f.parts \subseteq parts,
           parts \subseteq f.parts \cup Needed(store)
    PROVE  [version |-> version, parts |-> parts] \in File
<1> DEFINE g == [version |-> version, parts |-> parts]
<1>1. ASSUME NEW t \in Stores
      PROVE  Needed(t) \cap parts \in {Needed(t), Needed(t) \cap f.parts}
  <2>1. CASE t = store
    BY <2>1
  <2>2. CASE t # store
    BY <2>2, NeededDisjoint
  <2> QED
    BY <2>1, <2>2
<1>2. {"wake", "budget", "task"} \subseteq Stores
  BY Scripts
<1>3. /\ \A t \in {"wake", "budget"} : Needed(t) \cap f.parts \in {{}, Needed(t)}
      /\ Needed("task") \cap f.parts \in {{}, {"tasks"}, Needed("task")}
  BY DEF File
<1>4. /\ \A t \in {"wake", "budget"} : Needed(t) \cap parts \in {{}, Needed(t)}
      /\ Needed("task") \cap parts \in {{}, {"tasks"}, Needed("task")}
  BY <1>1, <1>2, <1>3
<1>5. g \in [version : 0 .. Later, parts : SUBSET Parts] /\ g.parts = parts
  OBVIOUS
<1> QED
  BY <1>4, <1>5 DEF File
-----------------------------------------------------------------------------
(* The steps. *)

\* The places of an opener and what each of them holds.
LEMMA Places ==
    /\ Closed \in Opener /\ Closed.at = "closed"
    /\ \A store \in Stores :
        /\ [at |-> "waiting", store |-> store] \in Opener
        /\ [at |-> "open", store |-> store] \in Opener
        /\ \A step \in 1 .. 6 :
               [at |-> "building", store |-> store, step |-> step] \in Opener
    /\ \A x \in Opener :
        /\ x.at \in {"waiting", "open", "building"} => x.store \in Stores
        /\ x.at = "building" =>
               /\ x.step \in 1 .. 6
               /\ x = [at |-> "building", store |-> x.store, step |-> x.step]
<1>1. Closed \in Opener /\ Closed.at = "closed"
  BY DEF Opener, Closed
<1>2. ASSUME NEW store \in Stores
      PROVE  /\ [at |-> "waiting", store |-> store] \in Opener
             /\ [at |-> "open", store |-> store] \in Opener
             /\ \A step \in 1 .. 6 :
                    [at |-> "building", store |-> store, step |-> step] \in Opener
  BY DEF Opener
<1>3. ASSUME NEW x \in Opener
      PROVE  /\ x.at \in {"waiting", "open", "building"} => x.store \in Stores
             /\ x.at = "building" =>
                    /\ x.step \in 1 .. 6
                    /\ x = [at |-> "building", store |-> x.store, step |-> x.step]
  <2>1. CASE x = Closed
    BY <2>1, <1>1
  <2>2. CASE x \in [at : {"waiting", "open"}, store : Stores]
    BY <2>2
  <2>3. CASE x \in [at : {"building"}, store : Stores, step : 1 .. 6]
    BY <2>3
  <2> QED
    BY <2>1, <2>2, <2>3 DEF Opener
<1> QED
  BY <1>1, <1>2, <1>3

\* Between BEGIN and COMMIT nobody else reaches the file or the draft.
LEMMA OneBuilder ==
    ASSUME TypeOK, NEW o \in Openers, NEW p \in Openers,
           openers[o].at = "building", openers[p].at = "building"
    PROVE  o = p
BY DEF TypeOK

\* A transaction begins with the content of the file.
LEMMA BeginKeepsIInv ==
    ASSUME IInv, NEW o \in Openers, BeginImmediate(o)
    PROVE  IInv'
<1> DEFINE store == openers[o].store
           x == [at |-> "building", store |-> store, step |-> 1]
<1>1. store \in Stores /\ x \in Opener
  <2>1. openers[o] \in Opener /\ openers[o].at = "waiting"
    BY DEF BeginImmediate, IInv, TypeOK
  <2>2. store \in Stores
    BY <2>1, Places
  <2>3. 1 \in 1 .. 6
    OBVIOUS
  <2> QED
    BY <2>2, <2>3, Places
<1>2. /\ openers' = [openers EXCEPT ![o] = x]
      /\ openers'[o] = x
      /\ \A p \in Openers \ {o} : openers'[p] = openers[p]
  BY DEF BeginImmediate, IInv, TypeOK
<1>3. \A p \in Openers \ {o} : openers[p].at # "building"
  BY NoOneAssumption DEF BeginImmediate, IInv, TypeOK
<1>4. TypeOK'
  <2>1. file' \in File /\ draft' \in [version : 0 .. Later, parts : SUBSET Parts]
    BY DEF BeginImmediate, IInv, TypeOK, File
  <2>2. writer' = o /\ openers' \in [Openers -> Opener]
    BY <1>1, <1>2 DEF BeginImmediate, IInv, TypeOK
  <2>3. \A p \in Openers : openers'[p].at = "building" <=> writer' = p
    BY <1>2, <1>3, <2>2
  <2> QED
    BY <2>1, <2>2, <2>3 DEF TypeOK
<1>5. Progress(o)'
  <2>1. Len(Script[store]) \in 1 .. 5
    BY <1>1, Scripts
  <2>2. file' = file /\ draft' = file /\ openers'[o].store = store /\ openers'[o].step = 1
    BY <1>2 DEF BeginImmediate
  <2> QED
    BY <2>1, <2>2 DEF Progress
<1>6. OpenIsUsable'
  BY <1>2 DEF BeginImmediate, IInv, OpenIsUsable
<1> QED
  BY <1>2, <1>3, <1>4, <1>5, <1>6 DEF IInv

\* A statement adds its part, or finds it there.
LEMMA ExecuteKeepsIInv ==
    ASSUME IInv, NEW o \in Openers, Execute(o)
    PROVE  IInv'
<1> DEFINE store == openers[o].store
           step == openers[o].step
           part == Script[store][step]
           x == [at |-> "building", store |-> store, step |-> step + 1]
<1>1. /\ openers[o].at = "building" /\ store \in Stores
      /\ openers[o] = [at |-> "building", store |-> store, step |-> step]
      /\ Progress(o)
  BY Places DEF Execute, IInv, TypeOK
<1>2. Len(Script[store]) \in 1 .. 5 /\ step \in 1 .. Len(Script[store])
  BY <1>1, Scripts DEF Execute
<1>3. x \in Opener
  <2>1. \A n \in 1 .. 5 : \A k \in 1 .. n : k + 1 \in 1 .. 6
    OBVIOUS
  <2>2. step + 1 \in 1 .. 6
    BY <1>2, <2>1
  <2> QED
    BY <1>1, <2>2, Places
<1>4. /\ openers' = [openers EXCEPT ![o] = x]
      /\ openers'[o] = x
      /\ \A p \in Openers \ {o} : openers'[p] = openers[p]
  <2>1. openers' = [openers EXCEPT ![o].step = step + 1]
    BY DEF Execute
  <2>2. [openers[o] EXCEPT !.step = step + 1] = x
    BY <1>1
  <2>3. openers' = [openers EXCEPT ![o] = x]
    BY <2>1, <2>2
  <2> QED
    BY <2>3 DEF IInv, TypeOK
<1>5. /\ part \in Needed(store) /\ part \in Adds(part)
      /\ Adds(part) \subseteq Needed(store)
  BY <1>1, <1>2, AddsNeeded
<1>6. /\ draft' \in [version : 0 .. Later, parts : SUBSET Parts]
      /\ draft'.version = draft.version
      /\ draft.parts \subseteq draft'.parts
      /\ draft'.parts \subseteq draft.parts \cup Needed(store)
      /\ part \in draft'.parts
  <2>1. Needed(store) \subseteq Parts
    BY <1>1 DEF Parts
  <2>2. CASE Skips(part)
    <3>1. draft' = draft
      BY <2>2 DEF Execute
    <3> QED
      BY <2>2, <3>1 DEF Skips, IInv, TypeOK
  <2>3. CASE ~Skips(part)
    <3>1. draft' = [draft EXCEPT !.parts = @ \cup Adds(part)]
      BY <2>3 DEF Execute
    <3>2. draft \in [version : 0 .. Later, parts : SUBSET Parts]
      BY DEF IInv, TypeOK
    <3> QED
      BY <1>5, <2>1, <3>1, <3>2
  <2> QED
    BY <2>2, <2>3
<1>7. file' = file /\ writer' = writer /\ ~Refuses(store)
  BY DEF Execute
<1>8. \A p \in Openers : openers[p].at = "building" => p = o
  BY <1>1, OneBuilder DEF IInv
<1>9. TypeOK'
  <2>1. openers' \in [Openers -> Opener]
    BY <1>3, <1>4 DEF IInv, TypeOK
  <2>2. \A p \in Openers : openers'[p].at = "building" <=> writer' = p
    BY <1>1, <1>4, <1>7 DEF IInv, TypeOK
  <2> QED
    BY <1>6, <1>7, <2>1, <2>2 DEF IInv, TypeOK
<1>10. Progress(o)'
  <2>1. openers'[o].store = store /\ openers'[o].step = step + 1
    BY <1>4
  <2>2. \A i \in 1 .. Len(Script[store]) : i < step + 1 => i < step \/ i = step
    BY <1>2
  <2>3. \A i \in 1 .. Len(Script[store]) : i < step => Script[store][i] \in draft.parts
    BY <1>1 DEF Progress
  <2>4. \A i \in 1 .. Len(Script[store]) : i < step + 1 => Script[store][i] \in draft'.parts
    BY <1>6, <2>2, <2>3
  <2>5. ~Refuses(store)'
    BY <1>6, <1>7, <2>1 DEF Refuses
  <2>6. step + 1 \in 1 .. Len(Script[store]) + 1
    BY <1>2
  <2>7. /\ draft'.version = file'.version
        /\ file'.parts \subseteq draft'.parts
        /\ draft'.parts \subseteq file'.parts \cup Needed(store)
    BY <1>1, <1>6, <1>7 DEF Progress
  <2> QED
    BY <2>1, <2>4, <2>5, <2>6, <2>7 DEF Progress
<1>11. OpenIsUsable'
  BY <1>4, <1>7 DEF IInv, OpenIsUsable
<1>12. \A p \in Openers : openers'[p].at = "building" => p = o
  BY <1>4, <1>8
<1> QED
  BY <1>9, <1>10, <1>11, <1>12 DEF IInv

\* What is committed is a complete schema, and nothing an open store needs is
\* dropped.
LEMMA CommitKeepsIInv ==
    ASSUME IInv, NEW o \in Openers, Commit(o)
    PROVE  /\ IInv'
           /\ file.version <= file'.version
           /\ file.parts \subseteq file'.parts
           /\ file.version > Supported =>
                  /\ file'.version = file.version
                  /\ file'.parts \subseteq file.parts \cup Needed("budget")
<1> DEFINE store == openers[o].store
           x == [at |-> "open", store |-> store]
           version == VersionAfter(store, draft.version)
<1>1. openers[o].at = "building" /\ store \in Stores /\ Progress(o)
  <2>1. openers[o] \in Opener /\ openers[o].at = "building"
    BY DEF Commit, IInv, TypeOK
  <2> QED
    BY <2>1, Places DEF IInv
<1>2. /\ openers' = [openers EXCEPT ![o] = x]
      /\ openers'[o] = x
      /\ \A p \in Openers \ {o} : openers'[p] = openers[p]
  BY DEF Commit, IInv, TypeOK
<1>3. Needed(store) \subseteq draft.parts
  <2>1. Len(Script[store]) \in 1 .. 5 /\ DOMAIN Script[store] = 1 .. Len(Script[store])
    BY <1>1, Scripts
  <2>2. \A i \in 1 .. Len(Script[store]) : Script[store][i] \in draft.parts
    <3>1. \A i \in 1 .. Len(Script[store]) : i < openers[o].step
      <4>1. openers[o].step \in 1 .. Len(Script[store]) + 1
        BY <1>1 DEF Progress
      <4>2. openers[o].step > Len(Script[store])
        BY DEF Commit, ScriptDone
      <4> QED
        BY <2>1, <4>1, <4>2
    <3> QED
      BY <1>1, <3>1 DEF Progress
  <2> QED
    BY <2>1, <2>2 DEF Needed
<1>4. /\ draft.version = file.version
      /\ file.parts \subseteq draft.parts
      /\ draft.parts \subseteq file.parts \cup Needed(store)
      /\ ~Refuses(store)
  <2>1. openers[o].step > 1
    <3>1. Len(Script[store]) \in 1 .. 5 /\ openers[o].step \in 1 .. Len(Script[store]) + 1
      BY <1>1, Scripts DEF Progress
    <3>2. openers[o].step > Len(Script[store])
      BY DEF Commit, ScriptDone
    <3>3. \A n \in 1 .. 5 : \A k \in 1 .. n + 1 : k > n => k > 1
      OBVIOUS
    <3> QED
      BY <3>1, <3>2, <3>3
  <2> QED
    BY <1>1, <2>1 DEF Progress
<1>5. /\ draft \in [version : 0 .. Later, parts : SUBSET Parts]
      /\ draft.version \in 0 .. Later /\ file \in File
  BY DEF IInv, TypeOK
<1>6. /\ file' = [version |-> version, parts |-> draft.parts]
      /\ draft' = file' /\ writer' = NoOne
  BY <1>5 DEF Commit
<1>7. /\ version \in 0 .. Later
      /\ draft.version <= version
      /\ draft.version > Supported => version = draft.version
  BY <1>1, <1>5, VersionNeverFalls
<1>8. file' \in File
  <2>1. draft.parts \in SUBSET Parts
    BY <1>5
  <2> QED
    BY <1>1, <1>3, <1>4, <1>5, <1>6, <1>7, <2>1, CompletedIsFile
<1>9. \A p \in Openers : openers'[p].at # "building"
  BY <1>1, <1>2, OneBuilder DEF IInv
<1>10. TypeOK'
  <2>1. openers' \in [Openers -> Opener]
    BY <1>1, <1>2, Places DEF IInv, TypeOK
  <2>2. draft' \in [version : 0 .. Later, parts : SUBSET Parts]
    BY <1>6, <1>8 DEF File
  <2>3. \A p \in Openers : openers'[p].at = "building" <=> writer' = p
    BY <1>6, <1>9, NoOneAssumption
  <2> QED
    BY <1>6, <1>8, <2>1, <2>2, <2>3 DEF TypeOK
<1>11. file.parts \subseteq file'.parts /\ Needed(store) \subseteq file'.parts
  BY <1>3, <1>4, <1>6
<1>12. OpenIsUsable'
  <2>1. ASSUME NEW p \in Openers, openers'[p].at = "open"
        PROVE  Needed(openers'[p].store) \subseteq file'.parts
    <3>1. CASE p = o
      BY <1>2, <1>11, <3>1
    <3>2. CASE p # o
      BY <1>2, <1>11, <2>1, <3>2 DEF IInv, OpenIsUsable
    <3> QED
      BY <3>1, <3>2
  <2>2. \A y : Needed(y)' = Needed(y)
    BY DEF Needed
  <2> QED
    BY <2>1, <2>2 DEF OpenIsUsable
<1>13. file.version <= file'.version
  BY <1>4, <1>6, <1>7
<1>14. file.version > Supported =>
          /\ file'.version = file.version
          /\ file'.parts \subseteq file.parts \cup Needed("budget")
  BY <1>4, <1>6, <1>7 DEF Refuses
<1> QED
  BY <1>9, <1>10, <1>11, <1>12, <1>13, <1>14 DEF IInv

\* The other steps leave the file alone.
LEMMA QuietStepKeepsIInv ==
    ASSUME IInv, NEW o \in Openers,
           \/ \E store \in Stores : Open(o, store)
           \/ Fail(o) \/ Close(o)
    PROVE  IInv' /\ UNCHANGED file
<1>1. PICK x \in Opener :
          /\ x.at \in {"closed", "waiting"}
          /\ openers' = [openers EXCEPT ![o] = x]
          /\ file' = file
          /\ \/ writer' = writer /\ draft' = draft /\ openers[o].at # "building"
             \/ writer' = NoOne /\ draft' = file /\ openers[o].at = "building"
  <2>1. ASSUME NEW store \in Stores, Open(o, store)
        PROVE  /\ [at |-> "waiting", store |-> store] \in Opener
               /\ openers' = [openers EXCEPT ![o] = [at |-> "waiting", store |-> store]]
               /\ UNCHANGED <<file, draft, writer>> /\ openers[o].at # "building"
    BY <2>1, Places DEF Open
  <2>2. ASSUME Close(o)
        PROVE  /\ openers' = [openers EXCEPT ![o] = Closed]
               /\ UNCHANGED <<file, draft, writer>> /\ openers[o].at # "building"
    BY <2>2 DEF Close
  <2>3. ASSUME Fail(o)
        PROVE  /\ openers' = [openers EXCEPT ![o] = Closed]
               /\ file' = file
               /\ \/ writer' = writer /\ draft' = draft /\ openers[o].at # "building"
                  \/ writer' = NoOne /\ draft' = file /\ openers[o].at = "building"
    BY <2>3 DEF Fail, IInv, TypeOK
  <2> QED
    BY <2>1, <2>2, <2>3, Places
<1>2. /\ openers'[o] = x
      /\ \A p \in Openers \ {o} : openers'[p] = openers[p]
  BY <1>1 DEF IInv, TypeOK
<1>3. TypeOK'
  <2>1. openers' \in [Openers -> Opener]
    BY <1>1 DEF IInv, TypeOK
  <2>2. /\ file' \in File
        /\ draft' \in [version : 0 .. Later, parts : SUBSET Parts]
        /\ writer' \in Openers \cup {NoOne}
    BY <1>1 DEF IInv, TypeOK, File
  <2>3. \A p \in Openers : openers'[p].at = "building" <=> writer' = p
    BY <1>1, <1>2, NoOneAssumption DEF IInv, TypeOK
  <2> QED
    BY <2>1, <2>2, <2>3 DEF TypeOK
<1>4. ASSUME NEW p \in Openers, openers'[p].at = "building"
      PROVE  Progress(p)'
  <2>1. p # o /\ openers'[p] = openers[p] /\ openers[p].at = "building"
    BY <1>1, <1>2, <1>4
  <2>2. draft' = draft
    BY <1>1, <2>1, OneBuilder DEF IInv
  <2> QED
    BY <1>1, <2>1, <2>2 DEF IInv, Progress, Refuses
<1>5. OpenIsUsable'
  BY <1>1, <1>2 DEF IInv, OpenIsUsable
<1> QED
  BY <1>1, <1>3, <1>4, <1>5 DEF IInv

\* The invariant is inductive, and only a commit changes the file.
LEMMA NextKeepsIInv ==
    ASSUME IInv, [Next]_vars
    PROVE  /\ IInv'
           /\ file' # file => \E o \in Openers : Commit(o)
<1>1. CASE UNCHANGED vars
  BY <1>1 DEF vars, IInv, TypeOK, Progress, Refuses, OpenIsUsable
<1>2. ASSUME NEW o \in Openers,
             \/ \E store \in Stores : Open(o, store)
             \/ Fail(o) \/ Close(o)
      PROVE  IInv' /\ file' = file
  BY <1>2, QuietStepKeepsIInv
<1>3. ASSUME NEW o \in Openers, BeginImmediate(o)
      PROVE  IInv' /\ file' = file
  BY <1>3, BeginKeepsIInv DEF BeginImmediate
<1>4. ASSUME NEW o \in Openers, Execute(o)
      PROVE  IInv' /\ file' = file
  BY <1>4, ExecuteKeepsIInv DEF Execute
<1>5. ASSUME NEW o \in Openers, Commit(o)
      PROVE  IInv'
  BY <1>5, CommitKeepsIInv
<1> QED
  BY <1>1, <1>2, <1>3, <1>4, <1>5 DEF Next, vars

\* The file that is found has an earlier or a later version: all openers are
\* closed, and no store has anything to ask of it yet.
LEMMA IInvIsInvariant == Spec => []IInv
<1>1. Init => IInv
  <2> SUFFICES ASSUME Init PROVE IInv
    OBVIOUS
  <2>1. \A o \in Openers : openers[o] = Closed /\ openers[o].at = "closed"
    BY Places DEF Init
  <2>2. TypeOK
    <3>1. file \in File /\ draft \in [version : 0 .. Later, parts : SUBSET Parts]
      BY FilesAssumption DEF Init, File
    <3>2. writer = NoOne /\ openers \in [Openers -> Opener]
      BY Places DEF Init
    <3> QED
      BY <2>1, <3>1, <3>2, NoOneAssumption DEF TypeOK
  <2> QED
    BY <2>1, <2>2 DEF IInv, OpenIsUsable
<1>2. IInv /\ [Next]_vars => IInv'
  BY NextKeepsIInv
<1> QED
  BY <1>1, <1>2, PTL DEF Spec
-----------------------------------------------------------------------------
\* Types.  The committed file is always a complete schema: what a constructor
\* leaves half done is in no file.
THEOREM TypeCorrect == Spec => []TypeOK
BY IInvIsInvariant, PTL DEF IInv

\* Every open store finds all it needs, whatever file was found and in
\* whatever order any number of constructors migrated it.
THEOREM OpenAlwaysUsable == Spec => []OpenIsUsable
BY IInvIsInvariant, PTL DEF IInv

\* No constructor lowers the version or drops anything, and in the file of a
\* later library only the budget's table is added.
THEOREM AlwaysAdditive == Spec => MigrationsAreAdditive
<1> DEFINE Additive ==
        /\ file.version <= file'.version
        /\ file.parts \subseteq file'.parts
        /\ file.version > Supported =>
               /\ file'.version = file.version
               /\ file'.parts \subseteq file.parts \cup Needed("budget")
<1>1. IInv /\ [Next]_vars => [Additive]_file
  <2> SUFFICES ASSUME IInv, [Next]_vars, file' # file PROVE Additive
    OBVIOUS
  <2>1. PICK o \in Openers : Commit(o)
    BY NextKeepsIInv
  <2> QED
    BY <2>1, CommitKeepsIInv
<1> QED
  BY <1>1, IInvIsInvariant, PTL DEF Spec, MigrationsAreAdditive
=============================================================================
