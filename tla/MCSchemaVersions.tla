---------------------------- MODULE MCSchemaVersions ----------------------------
(* An instance of SchemaVersions for TLC: files of every version.              *)
EXTENDS SchemaVersions, TLC

CONSTANTS o1, o2

MCOpeners == {o1, o2}

MCFiles ==
    { [version |-> 0, parts |-> {}],
      [version |-> 1, parts |-> {"actions"}],
      [version |-> 2, parts |-> {"tasks"}],
      [version |-> 2, parts |-> {"actions", "tasks"}],
      [version |-> 3, parts |-> {"actions"} \cup Needed("task")],
      [version |-> 4, parts |-> Needed("wake")],
      [version |-> Later, parts |-> {"actions"} \cup Needed("task")] }

\* Openers are only ever compared for equality.
MCSymmetry == Permutations(MCOpeners)
=============================================================================
