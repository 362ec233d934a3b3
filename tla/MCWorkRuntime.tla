----------------------------- MODULE MCWorkRuntime -----------------------------
(* Instance of WorkRuntime for TLC: two tasks, two keys; each task may be    *)
(* submitted under its own key or under the other one's, with one or two     *)
(* attempts, and with a definition that valid_definition refuses.            *)
EXTENDS WorkRuntime

CONSTANTS t1, t2, k1, k2

MCTaskIds == {t1, t2}
MCKeys == {k1, k2}

Def(id, key, attempts, runtime, formed) ==
    [id |-> id, key |-> key, well_formed |-> formed,
     max_attempts |-> attempts, max_runtime |-> runtime]

MCDefinitions ==
    { Def(t1, k1, 2, 1, TRUE),
      Def(t2, k2, 1, 2, TRUE),
      Def(t2, k1, 1, 1, TRUE),
      Def(t1, k1, 0, 1, TRUE),
      Def(t1, k1, 1, 0, TRUE),
      Def(t2, k2, 1, 1, FALSE) }
=============================================================================
