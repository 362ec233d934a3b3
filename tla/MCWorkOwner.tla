------------------------------ MODULE MCWorkOwner ------------------------------
(* Instance of WorkOwner for TLC: two workers, one of which accepts both      *)
(* kinds, an older task with two attempts and younger ones with one.          *)
EXTENDS WorkOwner

CONSTANTS t1, t2, k1, k2, w1, w2

MCTaskIds == {t1, t2}
MCKeys == {k1, k2}
MCWorkers == {w1, w2}

MCDefinitions ==
    { [id |-> t1, key |-> k1, well_formed |-> TRUE, max_attempts |-> 2, max_runtime |-> 1],
      [id |-> t2, key |-> k2, well_formed |-> TRUE, max_attempts |-> 1, max_runtime |-> 1] }

MCKindOf == [id \in MCTaskIds |-> IF id = t1 THEN "a" ELSE "b"]
MCAccepts == [w \in MCWorkers |-> IF w = w1 THEN {"a"} ELSE {"a", "b"}]

\* Horizon is the sum of the runtimes of all attempts.
ASSUME HorizonAssumption ==
    LET attempts == [id \in TaskIds |-> IF id = t1 THEN 2 ELSE 1]
        runtime == [id \in TaskIds |-> 1]
    IN  RoomForAll(attempts, runtime,
                   [left \in [TaskIds -> 0 .. 2] |->
                       MapThenSumSet(LAMBDA id : left[id] * runtime[id], TaskIds)])
=============================================================================
