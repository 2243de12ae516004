------------------------------ MODULE ReadyRing ------------------------------
(***************************************************************************)
(* The ready rings of src/core/scheduler.c, one circular list per priority *)
(* bucket, at the level of the C pointers: ready_head[] and                *)
(* TCB::next_ready.  Every operation takes a ring state                    *)
(*   [head : bucket -> Task or NULL, next : Task -> Task or NULL,          *)
(*    stuck : BOOLEAN]                                                     *)
(* and returns the next one.  Nothing here assumes that the rings are well *)
(* formed: a loop that would never leave a damaged ring (or would follow a *)
(* NULL link) sets stuck, after which the CPU makes no further step.       *)
(***************************************************************************)
EXTENDS Integers

CONSTANTS Task,   \* the TCB addresses, the idle task's included
          NULL    \* the null pointer

ASSUME NullIsNoTask == NULL \notin Task

(***************************************************************************)
(* The nodes a C loop visits that starts at h and follows next until it    *)
(* reaches stop: the least set that holds h and is closed under next.      *)
(***************************************************************************)
Walk(next, h, stop) ==
  {x \in Task : \A S \in SUBSET Task :
                  (h \in S /\ \A y \in S \ {stop} : next[y] \in Task => next[y] \in S)
                    => x \in S}

\* Where "while (tail->next_ready != head)" ends; empty if it never does.
Tails(next, h) == {x \in Walk(next, h, NULL) : next[x] = h}

Stuck(rq) == [rq EXCEPT !.stuck = TRUE]

-----------------------------------------------------------------------------
(* _ring_insert: the new task goes between the tail and the head.          *)

\* Mutant: the new node becomes the head, as a stack would have it.
RingInsertAtHead(rq, b, t) ==
  LET h == rq.head[b]
      tails == Tails(rq.next, h)
  IN  IF h = NULL
      THEN [rq EXCEPT !.head = [@ EXCEPT ![b] = t], !.next = [@ EXCEPT ![t] = t]]
      ELSE [rq EXCEPT !.head = [@ EXCEPT ![b] = t],
                      !.next = [@ EXCEPT ![CHOOSE x \in tails : TRUE] = t, ![t] = h]]

RingInsert(rq, b, t) ==
  LET h == rq.head[b]
      tails == Tails(rq.next, h)
  IN  IF h = NULL
      THEN [rq EXCEPT !.head = [@ EXCEPT ![b] = t], !.next = [@ EXCEPT ![t] = t]]
      ELSE IF tails = {}
      THEN Stuck(rq)
      ELSE [rq EXCEPT !.next = [@ EXCEPT ![CHOOSE x \in tails : TRUE] = t, ![t] = h]]

-----------------------------------------------------------------------------
(* scheduler_remove_task: look for the task from the head of bucket b,     *)
(* then unlink it; nothing happens when it is not in that ring.            *)

Unlink(rq, b, t, preds) ==
  LET h == rq.head[b]
      n == rq.next[t]
  IN  IF n = t
      THEN [rq EXCEPT !.head = [@ EXCEPT ![b] = NULL], !.next = [@ EXCEPT ![t] = NULL]]
      ELSE IF preds = {}
      THEN Stuck(rq)
      ELSE [rq EXCEPT !.head = [@ EXCEPT ![b] = IF t = h THEN n ELSE h],
                      !.next = [@ EXCEPT ![CHOOSE x \in preds : TRUE] = n, ![t] = NULL]]

\* Mutant: when the head leaves, ready_head still points at it.
RingRemoveKeepsHead(rq, b, t) ==
  LET h == rq.head[b]
      seen == Walk(rq.next, h, t)
  IN  IF h = NULL \/ t \notin seen
      THEN rq
      ELSE LET u == Unlink(rq, b, t, IF t = h THEN Tails(rq.next, h)
                                     ELSE {x \in seen \ {t} : rq.next[x] = t})
           IN  IF u.head[b] = NULL THEN u ELSE [u EXCEPT !.head = rq.head]

RingRemove(rq, b, t) ==
  LET h == rq.head[b]
      seen == Walk(rq.next, h, t)
      tails == Tails(rq.next, h)
  IN  IF h = NULL
      THEN rq
      ELSE IF t \notin seen
      THEN IF tails = {} THEN Stuck(rq) ELSE rq
      ELSE Unlink(rq, b, t, IF t = h THEN tails
                            ELSE {x \in seen \ {t} : rq.next[x] = t})

-----------------------------------------------------------------------------
(***************************************************************************)
(* What a ring should be.  R is the ring of bucket b when the head is in   *)
(* R (or R is empty and the head NULL), next is a bijection of R, and no   *)
(* part of R is closed under next but R itself: one cycle through all of R *)
(***************************************************************************)
Cycle(next, R) ==
  /\ \A x \in R : next[x] \in R
  /\ \A x, y \in R : next[x] = next[y] => x = y
  /\ \A S \in SUBSET R : S # {} /\ (\A x \in S : next[x] \in S) => S = R

IsRing(rq, b, R) ==
  /\ IF R = {} THEN rq.head[b] = NULL ELSE rq.head[b] \in R
  /\ Cycle(rq.next, R)
=============================================================================
