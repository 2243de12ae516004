--------------------------- MODULE MCKernelTiming ---------------------------
(* Instances of KernelTiming for TLC. *)
EXTENDS KernelTiming, TLC

CONSTANTS t1, t2, t3, idle

Tasks2 == {idle, t1, t2}
Tasks3 == {idle, t1, t2, t3}
Symmetry3 == Permutations({t1, t2, t3})

\* wake_time is read only while its task is BLOCKED.
View ==
  <<ready, state, prio_bucket,
    [t \in Task |-> IF state[t] = "BLOCKED" THEN wake_time[t] ELSE UINT32_MAX],
    block_reason, time_slice_counter, registry, current_tcb, tick, pendsv, isr, phase, pc,
    req, elapsed, passed>>
=============================================================================
