---------------------------- MODULE MCTaskMemory ----------------------------
(* TaskMemory for TLC. *)
EXTENDS TaskMemory

\* What old headers, requests, TCBs and canaries left behind makes no difference:
\* size and asked are read only at a block of theirs, stack_base at a TCB, and a
\* canary only of a task, which Build writes anew.
Built == IF job.at = "add" THEN ready \cup {job.tcb} ELSE ready
View ==
  <<free_list, walk, held, [b \in Blocks |-> size[b]], [b \in held |-> asked[b]],
    idle_tcb, registry, ready, [t \in Built |-> stack_base[t]],
    {t \in Built : Base(t) \in canary}, app, job, halted, overrun>>
=============================================================================
