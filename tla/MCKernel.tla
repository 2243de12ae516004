------------------------------- MODULE MCKernel -------------------------------
(* Instances of Kernel for TLC. *)
EXTENDS Kernel, TLC

CONSTANTS t1, t2, t3, idle

Tasks2 == {idle, t1, t2}
Tasks3 == {idle, t1, t2, t3}
Symmetry == Permutations({t1, t2, t3})

(***************************************************************************)
(* States that differ only in values no later step reads are one state:    *)
(* wake_time is read only while BLOCKED, a call's tick count only until    *)
(* rtos_block_current has used it.                                         *)
(***************************************************************************)
View ==
  <<ready, state, prio_bucket,
    [t \in Task |-> IF state[t] = "BLOCKED" THEN wake_time[t] ELSE UINT32_MAX],
    block_reason, time_slice_counter, registry, current_tcb, tick, pendsv, isr, phase, pc,
    [t \in Task |-> IF pc[t] \in {"enter", "block"} THEN req[t].ticks ELSE 0]>>
=============================================================================
