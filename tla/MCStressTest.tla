---------------------------- MODULE MCStressTest ----------------------------
(* Instances of StressTest for TLC. *)
EXTENDS StressTest, TLC

CONSTANTS t0, t1, idle, m1

Mutexes1 == {m1}

\* T0 and T1 of main(), both of priority 32
Tasks01 == {idle, t0, t1}
Id01 == t0 :> 0 @@ t1 :> 1
Priority01 == [t \in {t0, t1} |-> 32]
=============================================================================
