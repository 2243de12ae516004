---------------------------- MODULE KernelProofs ----------------------------
(***************************************************************************)
(* The list operations of ReadyRing keep rings well formed, and the safety *)
(* invariants of Kernel hold, for every set of tasks and every             *)
(* configuration.  Inv is the inductive invariant: what TLC checks, and    *)
(* three facts that make it inductive.  MostUrgentRuns is added to it      *)
(* later, since the modules that extend Kernel keep Inv without it.  The   *)
(* last part is about timeouts, for these modules and KernelTimingProofs.  *)
(***************************************************************************)
EXTENDS Kernel, WellFoundedInduction, TLAPS

-----------------------------------------------------------------------------
(* Sequences and natural numbers *)

LEMMA LenOfSeq ==
  ASSUME NEW S, NEW s \in Seq(S)
  PROVE  Len(s) \in Nat /\ s \in [1 .. Len(s) -> S]
OBVIOUS

LEMMA EntryOfSeq ==
  ASSUME NEW S, NEW s \in Seq(S), NEW i \in 1 .. Len(s)
  PROVE  s[i] \in S
OBVIOUS

LEMMA NonEmptySeq ==
  ASSUME NEW S, NEW s \in Seq(S), s # <<>>
  PROVE  Len(s) \in Nat \ {0}
OBVIOUS

LEMMA AppendSeq ==
  ASSUME NEW S, NEW s \in Seq(S), NEW e \in S
  PROVE  /\ Append(s, e) \in Seq(S) /\ Append(s, e) # <<>> /\ Len(Append(s, e)) = Len(s) + 1
         /\ \A i \in 1 .. Len(s) : Append(s, e)[i] = s[i]
         /\ Append(s, e)[Len(s) + 1] = e
OBVIOUS

LEMMA TailSeq ==
  ASSUME NEW S, NEW s \in Seq(S), s # <<>>
  PROVE  /\ Head(s) = s[1] /\ Head(s) \in S /\ Tail(s) \in Seq(S) /\ Len(Tail(s)) = Len(s) - 1
         /\ \A i \in 1 .. Len(Tail(s)) : Tail(s)[i] = s[i + 1]
OBVIOUS

LEMMA FunctionIsSeq ==
  ASSUME NEW S, NEW n \in Nat, NEW f \in [1 .. n -> S]
  PROVE  f \in Seq(S) /\ Len(f) = n
OBVIOUS

-----------------------------------------------------------------------------
(* What the list operations of scheduler.c do to a well-formed ring, for any *)
(* number of tasks.                                                          *)

Links == [Task -> Task \cup {NULL}]

\* Every element of a cycle is the successor of some element.
LEMMA CyclePred ==
  ASSUME NEW next, NEW R \in SUBSET Task, Cycle(next, R), NEW t \in R
  PROVE  \E x \in R : next[x] = t
<1>1. CASE R \ {t} = {}
  BY <1>1 DEF Cycle
<1>2. CASE R \ {t} # {}
  <2>1. SUFFICES ASSUME \A x \in R : next[x] # t PROVE FALSE
    OBVIOUS
  <2>2. \A x \in R \ {t} : next[x] \in R \ {t}
    BY <2>1 DEF Cycle
  <2>3. R \ {t} = R
    BY <1>2, <2>2, Zenon DEF Cycle
  <2> QED BY <2>3
<1> QED BY <1>1, <1>2

\* A walk that starts inside a ring stays inside it.
LEMMA WalkInside ==
  ASSUME NEW next, NEW R \in SUBSET Task, Cycle(next, R), NEW h \in R, NEW stop
  PROVE  Walk(next, h, stop) \subseteq R
BY DEF Walk, Cycle

\* A walk that is not stopped visits the whole ring.
LEMMA WalkAll ==
  ASSUME NEW next, NEW R \in SUBSET Task, Cycle(next, R), NEW h \in R,
         NEW stop, stop \notin R
  PROVE  Walk(next, h, stop) = R
<1>1. Walk(next, h, stop) \subseteq R
  BY WalkInside
<1>2. ASSUME NEW S \in SUBSET Task, h \in S,
             \A y \in S \ {stop} : next[y] \in Task => next[y] \in S
      PROVE  R \subseteq S
  <2>1. \A y \in S \cap R : next[y] \in S \cap R
    BY <1>2 DEF Cycle
  <2>2. S \cap R # {}
    BY <1>2
  <2>3. S \cap R \in SUBSET R
    OBVIOUS
  <2>4. S \cap R = R
    BY <2>1, <2>2, <2>3, Zenon DEF Cycle
  <2> QED BY <2>4
<1>3. R \subseteq Walk(next, h, stop)
  BY <1>2 DEF Walk
<1> QED BY <1>1, <1>3

\* The search of scheduler_remove_task finds a task of the ring, and what it
\* has in prev is the predecessor.
LEMMA WalkFinds ==
  ASSUME NEW next, NEW R \in SUBSET Task, Cycle(next, R), NEW h \in R, NEW t \in R
  PROVE  /\ t \in Walk(next, h, t)
         /\ \A x \in R : next[x] = t /\ h # t => x \in Walk(next, h, t)
<1>1. ASSUME NEW S \in SUBSET Task, h \in S,
             \A y \in S \ {t} : next[y] \in Task => next[y] \in S
      PROVE  t \in S
  <2>1. SUFFICES ASSUME t \notin S PROVE FALSE
    OBVIOUS
  <2>2. \A y \in S \cap R : next[y] \in S \cap R
    BY <1>1, <2>1 DEF Cycle
  <2>3. S \cap R # {} /\ S \cap R \in SUBSET R
    BY <1>1
  <2>4. S \cap R = R
    BY <2>2, <2>3, Zenon DEF Cycle
  <2> QED BY <2>1, <2>4
<1>2. ASSUME NEW x \in R, next[x] = t, h # t, NEW S \in SUBSET Task, h \in S,
             \A y \in S \ {t} : next[y] \in Task => next[y] \in S
      PROVE  x \in S
  <2> DEFINE P == (S \cap R) \ {t}
  <2>1. SUFFICES ASSUME x \notin S PROVE FALSE
    OBVIOUS
  <2>2. ASSUME NEW y \in P PROVE next[y] \in P
    <3>1. next[y] \in R /\ next[y] \in S
      BY <1>2 DEF Cycle
    <3>2. y \in R /\ y # x
      BY <2>1
    <3>3. next[y] # t
      BY <1>2, <3>2 DEF Cycle
    <3> QED BY <3>1, <3>3
  <2>3. P # {} /\ P \in SUBSET R
    BY <1>2
  <2> HIDE DEF P
  <2>4. P = R
    BY <2>2, <2>3 DEF Cycle
  <2> QED BY <2>4 DEF P
<1>3. t \in Walk(next, h, t)
  BY <1>1 DEF Walk
<1>4. ASSUME NEW x \in R, next[x] = t, h # t PROVE x \in Walk(next, h, t)
  BY <1>2, <1>4 DEF Walk
<1> QED BY <1>3, <1>4

\* The tail loop ends, at the one predecessor of the head.
LEMMA TailFound ==
  ASSUME NEW next, NEW R \in SUBSET Task, Cycle(next, R), NEW h \in R
  PROVE  /\ Tails(next, h) # {}
         /\ (CHOOSE x \in Tails(next, h) : TRUE) \in R
         /\ next[CHOOSE x \in Tails(next, h) : TRUE] = h
<1>1. NULL \notin R
  BY NullIsNoTask
<1>2. Walk(next, h, NULL) = R
  BY <1>1, WalkAll
<1>3. PICK x \in R : next[x] = h
  BY CyclePred
<1>4. Tails(next, h) = {y \in R : next[y] = h}
  BY <1>2 DEF Tails
<1>5. (CHOOSE y \in Tails(next, h) : TRUE) \in Tails(next, h)
  BY <1>3, <1>4
<1> QED BY <1>3, <1>4, <1>5

-----------------------------------------------------------------------------
(* Rings as sets of links *)

\* Only the links of R decide whether R is a cycle.
LEMMA CycleFrame ==
  ASSUME NEW next, NEW next2, NEW R \in SUBSET Task, Cycle(next, R),
         \A x \in R : next2[x] = next[x]
  PROVE  Cycle(next2, R)
BY DEF Cycle

\* A task linked to itself is a ring.
LEMMA CycleOne ==
  ASSUME NEW next, NEW t, next[t] = t PROVE Cycle(next, {t})
BY DEF Cycle

\* Linking t between the tail p and its successor h makes the ring one longer.
LEMMA CycleInsert ==
  ASSUME NEW next \in Links, NEW R \in SUBSET Task, Cycle(next, R),
         NEW p \in R, NEW t \in Task \ R
  PROVE  Cycle([next EXCEPT ![p] = t, ![t] = next[p]], R \cup {t})
<1> DEFINE new == [next EXCEPT ![p] = t, ![t] = next[p]]
           Q == R \cup {t}
<1>1. /\ new[p] = t /\ new[t] = next[p]
      /\ \A x \in R \ {p} : new[x] = next[x]
  BY DEF Links
<1> HIDE DEF new
<1>2. \A x \in Q : new[x] \in Q
  BY <1>1 DEF Cycle
<1>3. \A x, y \in Q : new[x] = new[y] => x = y
  BY <1>1 DEF Cycle
<1>4. ASSUME NEW S \in SUBSET Q, S # {}, \A x \in S : new[x] \in S
      PROVE  S = Q
  <2> DEFINE P == S \ {t}
  <2>1. \A x \in P : next[x] \in P
    <3> SUFFICES ASSUME NEW x \in P PROVE next[x] \in P
      OBVIOUS
    <3>1. x \in R /\ next[x] \in R /\ new[x] \in S
      BY <1>4 DEF Cycle
    <3>2. CASE x = p
      BY <1>1, <1>4, <3>1, <3>2
    <3>3. CASE x # p
      BY <1>1, <3>1, <3>3
    <3> QED BY <3>2, <3>3
  <2>2. P # {}
    BY <1>1, <1>4 DEF Cycle
  <2>3. P \in SUBSET R
    OBVIOUS
  <2> HIDE DEF P
  <2>4. P = R
    BY <2>1, <2>2, <2>3 DEF Cycle
  <2>5. p \in S
    BY <2>4 DEF P
  <2>6. t \in S
    BY <1>1, <1>4, <2>5
  <2> QED BY <2>4, <2>6 DEF P
<1>5. Cycle(new, Q)
  BY <1>2, <1>3, <1>4 DEF Cycle
<1> QED BY <1>5 DEF new

\* Linking the predecessor p of t to the successor of t takes t out.
LEMMA CycleRemove ==
  ASSUME NEW next \in Links, NEW R \in SUBSET Task, Cycle(next, R),
         NEW p \in R, NEW t \in R, next[p] = t, next[t] # t
  PROVE  Cycle([next EXCEPT ![p] = next[t], ![t] = NULL], R \ {t})
<1> DEFINE new == [next EXCEPT ![p] = next[t], ![t] = NULL]
           Q == R \ {t}
<1>0. p # t
  OBVIOUS
<1>1. /\ new[p] = next[t]
      /\ \A x \in Q \ {p} : new[x] = next[x]
  BY <1>0 DEF Links
<1> HIDE DEF new
<1>2. \A x \in Q : new[x] \in Q
  BY <1>1 DEF Cycle
<1>3. \A x, y \in Q : new[x] = new[y] => x = y
  BY <1>1 DEF Cycle
<1>4. ASSUME NEW S \in SUBSET Q, S # {}, \A x \in S : new[x] \in S
      PROVE  S = Q
  <2>1. CASE p \in S
    <3> DEFINE P == S \cup {t}
    <3>1. \A x \in P : next[x] \in P
      BY <1>1, <1>4, <2>1
    <3>2. P # {} /\ P \in SUBSET R
      OBVIOUS
    <3> HIDE DEF P
    <3>3. P = R
      BY <3>1, <3>2 DEF Cycle
    <3> QED BY <3>3 DEF P
  <2>2. CASE p \notin S
    <3>1. \A x \in S : next[x] \in S
      BY <1>1, <1>4, <2>2
    <3>2. S \in SUBSET R
      OBVIOUS
    <3>3. S = R
      BY <1>4, <3>1, <3>2 DEF Cycle
    <3> QED BY <3>3
  <2> QED BY <2>1, <2>2
<1>5. Cycle(new, Q)
  BY <1>2, <1>3, <1>4 DEF Cycle
<1> QED BY <1>5 DEF new

-----------------------------------------------------------------------------
(* The operations on a state of several rings.  f gives the set that each  *)
(* bucket's ring should hold.                                              *)

RingState(B) == [head : [B -> Task \cup {NULL}], next : Links, stuck : BOOLEAN]

Rings(rq, B, f) ==
  /\ \A b \in B : f[b] \in SUBSET Task /\ IsRing(rq, b, f[b])
  /\ \A b, c \in B : b # c => f[b] \cap f[c] = {}

\* From rq to rq2 only bucket b and the links of its own tasks change; Q is
\* what its ring holds afterwards.
ChangesRing(rq, rq2, B, b, f, g, Q) ==
  /\ Q \in SUBSET Task
  /\ IsRing(rq2, b, Q)
  /\ \A c \in B \ {b} : Q \cap f[c] = {} /\ rq2.head[c] = rq.head[c]
  /\ \A x \in Task \ (Q \cup f[b]) : rq2.next[x] = rq.next[x]
  /\ \A c \in B : g[c] = IF c = b THEN Q ELSE f[c]

\* Such a change leaves the rings of the other buckets alone.
LEMMA RingsFrame ==
  ASSUME NEW B, NEW rq, NEW f, Rings(rq, B, f), NEW b \in B, NEW rq2, NEW g, NEW Q,
         ChangesRing(rq, rq2, B, b, f, g, Q)
  PROVE  Rings(rq2, B, g)
<1> USE DEF ChangesRing
<1>1. ASSUME NEW c \in B, c # b PROVE IsRing(rq2, c, f[c])
  <2>1. f[c] \in SUBSET Task /\ IsRing(rq, c, f[c]) /\ f[b] \cap f[c] = {}
    BY <1>1 DEF Rings
  <2>2. \A x \in f[c] : rq2.next[x] = rq.next[x]
    BY <1>1, <2>1, Zenon
  <2>3. Cycle(rq2.next, f[c])
    BY <2>1, <2>2, CycleFrame DEF IsRing
  <2> QED BY <1>1, <2>1, <2>3 DEF IsRing
<1>2. \A c \in B : g[c] \in SUBSET Task /\ IsRing(rq2, c, g[c])
  BY <1>1 DEF Rings
<1>3. \A c, d \in B : c # d => g[c] \cap g[d] = {}
  BY DEF Rings
<1> QED BY <1>2, <1>3 DEF Rings

\* t, which is in no set of f, is added to that of bucket b; and is taken out.
Gains(B, f, g, b, t) ==
  /\ \A c \in B : t \notin f[c]
  /\ \A c \in B : g[c] = IF c = b THEN f[c] \cup {t} ELSE f[c]
Loses(B, f, g, b, t) == \A c \in B : g[c] = IF c = b THEN f[c] \ {t} ELSE f[c]

\* _ring_insert adds a task that is in no ring to the ring of its bucket.
LEMMA InsertRings ==
  ASSUME NEW B, NEW rq \in RingState(B), NEW f, Rings(rq, B, f), NEW b \in B,
         NEW t \in Task, NEW g, Gains(B, f, g, b, t)
  PROVE  /\ RingInsert(rq, b, t) \in RingState(B)
         /\ RingInsert(rq, b, t).stuck = rq.stuck
         /\ Rings(RingInsert(rq, b, t), B, g)
<1> DEFINE R == f[b]
           h == rq.head[b]
           new == RingInsert(rq, b, t)
<1> USE DEF Gains
<1>1. /\ R \in SUBSET Task /\ IsRing(rq, b, R) /\ t \notin R
      /\ rq.next \in Links /\ h \in Task \cup {NULL} /\ t # NULL
  BY NullIsNoTask DEF Rings, RingState
<1>2. CASE R = {}
  <2>1. h = NULL
    BY <1>1, <1>2 DEF IsRing
  <2>2. new = [rq EXCEPT !.head = [@ EXCEPT ![b] = t], !.next = [@ EXCEPT ![t] = t]]
    BY <2>1 DEF RingInsert
  <2> HIDE DEF new, h
  <2>3. /\ new \in RingState(B) /\ new.stuck = rq.stuck
        /\ new.head[b] = t /\ new.next[t] = t
        /\ \A c \in B \ {b} : new.head[c] = rq.head[c]
        /\ \A x \in Task \ {t} : new.next[x] = rq.next[x]
    BY <2>2, Zenon DEF RingState, Links
  <2>4. IsRing(new, b, {t})
    BY <2>3 DEF IsRing, Cycle
  <2>5. Rings(new, B, g)
    <3>1. ChangesRing(rq, new, B, b, f, g, {t})
      BY <1>2, <2>3, <2>4, Zenon DEF ChangesRing
    <3> QED BY <3>1, RingsFrame
  <2> QED BY <2>3, <2>5 DEF new
<1>3. CASE R # {}
  <2> DEFINE p == CHOOSE x \in Tails(rq.next, h) : TRUE
  <2>1. h \in R /\ h # NULL /\ Cycle(rq.next, R)
    BY <1>1, <1>3, NullIsNoTask DEF IsRing
  <2>2. Tails(rq.next, h) # {} /\ p \in R /\ rq.next[p] = h
    BY <1>1, <2>1, TailFound
  <2>3. new = [rq EXCEPT !.next = [@ EXCEPT ![p] = t, ![t] = h]]
    BY <2>1, <2>2 DEF RingInsert
  <2> HIDE DEF new, h, p, R
  <2>4. Cycle([rq.next EXCEPT ![p] = t, ![t] = h], R \cup {t})
    BY <1>1, <2>1, <2>2, CycleInsert
  <2>5. /\ new \in RingState(B) /\ new.stuck = rq.stuck /\ new.head = rq.head
        /\ new.next = [rq.next EXCEPT ![p] = t, ![t] = h]
    BY <1>1, <2>1, <2>3 DEF RingState, Links
  <2>6. \A x \in Task \ (R \cup {t}) : new.next[x] = rq.next[x]
    BY <1>1, <2>2, <2>5 DEF Links
  <2>7. IsRing(new, b, R \cup {t})
    BY <2>1, <2>4, <2>5 DEF IsRing, h
  <2>8. Rings(new, B, g)
    <3>1. R \cup {t} \in SUBSET Task
      BY <1>1
    <3>2. \A c \in B \ {b} : (R \cup {t}) \cap f[c] = {} /\ new.head[c] = rq.head[c]
      BY <2>5 DEF Rings, R
    <3>3. \A x \in Task \ ((R \cup {t}) \cup f[b]) : new.next[x] = rq.next[x]
      BY <2>6, Zenon DEF R
    <3>4. \A c \in B : g[c] = IF c = b THEN R \cup {t} ELSE f[c]
      BY Zenon DEF R
    <3>5. ChangesRing(rq, new, B, b, f, g, R \cup {t})
      BY <2>7, <3>1, <3>2, <3>3, <3>4, Zenon DEF ChangesRing
    <3> QED BY <3>5, RingsFrame
  <2> QED BY <2>5, <2>8 DEF new
<1> QED BY <1>2, <1>3

\* The nodes scheduler_remove_task may link past t: prev, or the tail for a head.
Preds(next, h, t) ==
  IF t = h THEN Tails(next, h) ELSE {x \in Walk(next, h, t) \ {t} : next[x] = t}

\* scheduler_remove_task on a task of the ring: the predecessor it uses, found
\* by the search or by the tail loop, is the right one.
LEMMA UnlinkPred ==
  ASSUME NEW next, NEW R \in SUBSET Task, Cycle(next, R), NEW h \in R, NEW t \in R, next[t] # t
  PROVE  /\ Preds(next, h, t) # {}
         /\ (CHOOSE x \in Preds(next, h, t) : TRUE) \in R
         /\ next[CHOOSE x \in Preds(next, h, t) : TRUE] = t
<1>1. CASE t = h
  BY <1>1, TailFound DEF Preds
<1>2. CASE t # h
  <2> DEFINE preds == Preds(next, h, t)
  <2>1. PICK x \in R : next[x] = t
    BY CyclePred
  <2>2. x \in preds
    BY <1>2, <2>1, WalkFinds DEF Preds
  <2>3. (CHOOSE y \in preds : TRUE) \in preds
    BY <2>2
  <2>4. \A y \in preds : y \in R /\ next[y] = t
    BY <1>2, WalkInside DEF Preds
  <2> QED BY <2>2, <2>3, <2>4
<1> QED BY <1>1, <1>2

\* scheduler_remove_task takes a task out of the ring of bucket b, and does
\* nothing when the task is not in it.
LEMMA RemoveRings ==
  ASSUME NEW B, NEW rq \in RingState(B), NEW f, Rings(rq, B, f), NEW b \in B,
         NEW t \in Task, NEW g, Loses(B, f, g, b, t)
  PROVE  /\ RingRemove(rq, b, t) \in RingState(B)
         /\ RingRemove(rq, b, t).stuck = rq.stuck
         /\ Rings(RingRemove(rq, b, t), B, g)
<1> DEFINE R == f[b]
           h == rq.head[b]
           n == rq.next[t]
           new == RingRemove(rq, b, t)
           preds == Preds(rq.next, h, t)
           p == CHOOSE x \in preds : TRUE
<1> USE DEF Loses
<1>1. /\ R \in SUBSET Task /\ IsRing(rq, b, R) /\ Cycle(rq.next, R)
      /\ rq.next \in Links /\ h \in Task \cup {NULL} /\ t # NULL
      /\ \A c \in B \ {b} : R \cap f[c] = {}
  BY NullIsNoTask DEF Rings, RingState, IsRing
<1>2. CASE t \notin R
  <2>1. new = rq
    <3>1. CASE R = {}
      BY <1>1, <3>1 DEF RingRemove, IsRing
    <3>2. CASE R # {}
      <4>1. h \in R
        BY <1>1, <3>2 DEF IsRing
      <4>2. Tails(rq.next, h) # {} /\ Walk(rq.next, h, t) \subseteq R
        BY <1>1, <4>1, TailFound, WalkInside
      <4>3. h # NULL
        BY <1>1, <4>1, NullIsNoTask
      <4> QED BY <1>2, <4>2, <4>3 DEF RingRemove
    <3> QED BY <3>1, <3>2
  <2>2. ChangesRing(rq, rq, B, b, f, g, R)
    BY <1>1, <1>2, Zenon DEF ChangesRing
  <2>3. Rings(rq, B, g)
    BY <2>2, RingsFrame
  <2> QED BY <2>1, <2>3
<1>3. CASE t \in R
  <2>1. h \in R /\ h # NULL
    BY <1>1, <1>3, NullIsNoTask DEF IsRing
  <2>2. new = Unlink(rq, b, t, preds)
    <3>1. t \in Walk(rq.next, h, t)
      BY <1>1, <1>3, <2>1, WalkFinds
    <3> QED BY <2>1, <3>1 DEF RingRemove, Preds
  <2>3. CASE n = t
    <3>1. R = {t}
      <4>1. {t} \in SUBSET R /\ {t} # {} /\ \A x \in {t} : rq.next[x] \in {t}
        BY <1>3, <2>3
      <4> QED BY <1>1, <4>1, Zenon DEF Cycle
    <3>2. new = [rq EXCEPT !.head = [@ EXCEPT ![b] = NULL], !.next = [@ EXCEPT ![t] = NULL]]
      BY <2>2, <2>3 DEF Unlink
    <3> HIDE DEF new, n, h, preds, p
    <3>3. /\ new \in RingState(B) /\ new.stuck = rq.stuck /\ new.head[b] = NULL
          /\ \A c \in B \ {b} : new.head[c] = rq.head[c]
          /\ \A x \in Task \ {t} : new.next[x] = rq.next[x]
      BY <3>2, Zenon DEF RingState, Links
    <3>4. ChangesRing(rq, new, B, b, f, g, {})
      BY <3>1, <3>3, Zenon DEF ChangesRing, IsRing, Cycle
    <3>5. Rings(new, B, g)
      BY <3>4, RingsFrame
    <3> QED BY <3>3, <3>5 DEF new
  <2>4. CASE n # t
    <3>1. preds # {} /\ p \in R /\ rq.next[p] = t
      BY <1>1, <1>3, <2>1, <2>4, UnlinkPred
    <3>2. n \in R
      BY <1>1, <1>3 DEF Cycle
    <3>3. new = [rq EXCEPT !.head = [@ EXCEPT ![b] = IF t = h THEN n ELSE h],
                           !.next = [@ EXCEPT ![p] = n, ![t] = NULL]]
      BY <2>2, <2>4, <3>1 DEF Unlink
    <3> HIDE DEF preds, p, new
    <3>4. Cycle([rq.next EXCEPT ![p] = n, ![t] = NULL], R \ {t})
      BY <1>1, <1>3, <2>4, <3>1, CycleRemove
    <3> HIDE DEF n, h, R
    <3>5. /\ new \in RingState(B) /\ new.stuck = rq.stuck
          /\ new.next = [rq.next EXCEPT ![p] = n, ![t] = NULL]
          /\ new.head = [rq.head EXCEPT ![b] = IF t = h THEN n ELSE h]
      BY <1>1, <2>1, <3>2, <3>3, Zenon DEF RingState, Links
    <3>6. IsRing(new, b, R \ {t})
      <4>1. new.head[b] \in R \ {t}
        BY <2>1, <2>4, <3>2, <3>5 DEF RingState
      <4> QED BY <3>4, <3>5, <4>1 DEF IsRing
    <3>7. \A x \in Task \ R : new.next[x] = rq.next[x]
      BY <1>1, <1>3, <3>1, <3>5 DEF Links
    <3>8. \A c \in B \ {b} : new.head[c] = rq.head[c]
      BY <3>5 DEF RingState
    <3>9. ChangesRing(rq, new, B, b, f, g, R \ {t})
      BY <1>1, <3>6, <3>7, <3>8, Zenon DEF ChangesRing, R
    <3>10. Rings(new, B, g)
      BY <3>9, RingsFrame
    <3> QED BY <3>5, <3>10 DEF new
  <2> QED BY <2>3, <2>4
<1> QED BY <1>2, <1>3

\* scheduler_get_next moves the head of a non-empty ring on by one.
LEMMA RotateRings ==
  ASSUME NEW B, NEW rq \in RingState(B), NEW f, Rings(rq, B, f), NEW b \in B,
         rq.head[b] # NULL,
         NEW new, new = [rq EXCEPT !.head = [@ EXCEPT ![b] = rq.next[rq.head[b]]]]
  PROVE  /\ rq.head[b] \in f[b]
         /\ new \in RingState(B)
         /\ new.stuck = rq.stuck
         /\ Rings(new, B, f)
<1>1. /\ f[b] \in SUBSET Task /\ IsRing(rq, b, f[b])
      /\ \A c \in B \ {b} : f[b] \cap f[c] = {}
  BY DEF Rings
<1>2. rq.head[b] \in f[b] /\ rq.next[rq.head[b]] \in f[b]
  BY <1>1 DEF IsRing, Cycle
<1>3. /\ new \in RingState(B) /\ new.stuck = rq.stuck /\ new.next = rq.next
      /\ new.head[b] = rq.next[rq.head[b]]
      /\ \A c \in B \ {b} : new.head[c] = rq.head[c]
  BY <1>1, <1>2 DEF RingState
<1>4. ChangesRing(rq, new, B, b, f, f, f[b])
  BY <1>1, <1>2, <1>3 DEF ChangesRing, IsRing
<1>5. Rings(new, B, f)
  BY <1>4, RingsFrame
<1> QED BY <1>2, <1>3, <1>5

-----------------------------------------------------------------------------
(* The invariant of the kernel *)

\* The idle task never leaves its ring, so scheduler_get_next finds a task.
IdleRunnable == state[Idle] \in Runnable

\* Only the task that current_tcb names is RUNNING.
LoneRunner ==
  /\ \A t \in Task : state[t] = "RUNNING" => t = current_tcb
  /\ phase = "multi" => current_tcb \in Task

\* The task that has the CPU for good is RUNNING.
RunnerRuns == Settled => state[current_tcb] = "RUNNING"

Inv == TypeOK /\ ReadyRingsExact /\ RegistryExact /\ RunnerRuns /\ IdleRunnable /\ LoneRunner

ReadySets == [b \in Bucket |-> RunnableIn(b)]

-----------------------------------------------------------------------------
(* Lemmas on operators *)

\* ReadyRingsExact in the terms of the ring lemmas.
LEMMA RingsOfReady ==
  ASSUME TypeOK, ReadyRingsExact
  PROVE  ready \in RingState(Bucket) /\ Rings(ready, Bucket, ReadySets)
<1>1. ready \in RingState(Bucket)
  BY DEF TypeOK, RingState, Links
<1>2. \A b \in Bucket : ReadySets[b] \in SUBSET Task /\ IsRing(ready, b, ReadySets[b])
  BY Zenon DEF ReadyRingsExact, ReadySets, RunnableIn
<1>3. \A b, c \in Bucket : b # c => ReadySets[b] \cap ReadySets[c] = {}
  BY DEF ReadySets, RunnableIn
<1> QED BY <1>1, <1>2, <1>3 DEF Rings

LEMMA ReadyOfRings ==
  ASSUME ready'.stuck = ready.stuck, ~ready.stuck, Rings(ready', Bucket, ReadySets')
  PROVE  ReadyRingsExact'
BY DEF Rings, ReadyRingsExact, ReadySets

\* A set of naturals that is not empty has a least member.
LEMMA LeastNat ==
  ASSUME NEW S \in SUBSET Nat, S # {}
  PROVE  \E b \in S : \A c \in S : b <= c
<1>1. PICK b \in S : \A c \in S : ~ (<<c, b>> \in OpToRel(<, Nat))
  BY NatLessThanWellFounded, WFMin, Zenon
<1>2. \A x, y \in Nat : x < y => <<x, y>> \in OpToRel(<, Nat)
  BY DEF OpToRel
<1>3. \A c \in S : ~(c < b)
  BY <1>1, <1>2, Zenon
<1>4. \A c \in S : b <= c
  BY <1>3
<1> QED BY <1>4

\* The loop of scheduler_get_next finds the first non-empty bucket.
LEMMA TopBucketFound ==
  ASSUME TypeOK, NonEmpty # {}
  PROVE  TopBucket \in NonEmpty /\ \A c \in NonEmpty : TopBucket <= c
<1>1. NonEmpty \in SUBSET Nat
  BY KernelAssumption DEF NonEmpty, Bucket
<1>2. \E b \in NonEmpty : \A c \in NonEmpty : b <= c
  BY <1>1, LeastNat, Zenon
<1> QED BY <1>2, Zenon DEF TopBucket

LEMMA PrioBucketType == ASSUME NEW p \in 0 .. 255 PROVE PrioBucket(p) \in Bucket
BY KernelAssumption DEF PrioBucket, Bucket

\* _registry_remove drops one task and keeps the others, each once.
LEMMA RegistryRemoveIsExact ==
  ASSUME NEW T, NEW s \in Seq(T), NEW t \in Members(s),
         \A i, j \in 1 .. Len(s) : s[i] = s[j] => i = j
  PROVE  /\ RegistryRemove(s, t) \in Seq(T)
         /\ Members(RegistryRemove(s, t)) = Members(s) \ {t}
         /\ \A i, j \in 1 .. Len(RegistryRemove(s, t)) :
              RegistryRemove(s, t)[i] = RegistryRemove(s, t)[j] => i = j
<1> DEFINE k == CHOOSE i \in 1 .. Len(s) : s[i] = t
           r == RegistryRemove(s, t)
<1>1. k \in 1 .. Len(s) /\ s[k] = t
  BY DEF Members
<1>2. r = [j \in 1 .. Len(s) - 1 |-> IF j < k THEN s[j] ELSE s[j + 1]]
  BY DEF RegistryRemove
<1> HIDE DEF k, r
<1>3. Len(s) \in Nat /\ \A i \in 1 .. Len(s) : s[i] \in T
  BY LenOfSeq
<1>4. r \in [1 .. Len(s) - 1 -> T]
  BY <1>1, <1>2, <1>3
<1>5. Len(s) - 1 \in Nat
  BY <1>1, <1>3
<1>6. r \in Seq(T) /\ Len(r) = Len(s) - 1
  BY <1>2, <1>4, <1>5, FunctionIsSeq
<1>7. \A i \in 1 .. Len(r) : r[i] = IF i < k THEN s[i] ELSE s[i + 1]
  BY <1>2, <1>6, Zenon
<1>8. Members(r) \subseteq Members(s) \ {t}
  <2> SUFFICES ASSUME NEW i \in 1 .. Len(r) PROVE r[i] \in Members(s) \ {t}
    BY DEF Members
  <2>1. \E j \in 1 .. Len(s) : j # k /\ r[i] = s[j]
    BY <1>1, <1>3, <1>6, <1>7
  <2> QED BY <1>1, <2>1 DEF Members
<1>9. Members(s) \ {t} \subseteq Members(r)
  <2> SUFFICES ASSUME NEW j \in 1 .. Len(s), s[j] # t PROVE s[j] \in Members(r)
    BY DEF Members
  <2>1. j # k
    BY <1>1
  <2>2. \E i \in 1 .. Len(r) : r[i] = s[j]
    <3>1. CASE j < k
      BY <1>1, <1>3, <1>6, <1>7, <3>1
    <3>2. CASE j > k
      <4>1. j - 1 \in 1 .. Len(r) /\ ~(j - 1 < k) /\ (j - 1) + 1 = j
        BY <1>1, <1>3, <1>6, <3>2
      <4> QED BY <1>7, <4>1
    <3> QED BY <1>1, <1>3, <2>1, <3>1, <3>2
  <2> QED BY <2>2 DEF Members
<1>10. \A i, j \in 1 .. Len(r) : r[i] = r[j] => i = j
  BY <1>1, <1>3, <1>6, <1>7
<1> QED BY <1>6, <1>8, <1>9, <1>10 DEF r

-----------------------------------------------------------------------------
(* Inv is inductive *)

LEMMA InitInv == Init => Inv
<1> SUFFICES ASSUME Init PROVE Inv
  OBVIOUS
<1> USE KernelAssumption, NullIsNoTask DEF Init
<1>1. registry \in Seq(Task) /\ Len(registry) = 1 /\ registry[1] = Idle
  OBVIOUS
<1>2. TypeOK
  <2>1. /\ ready \in [head : [Bucket -> Task \cup {NULL}], next : [Task -> Task \cup {NULL}],
                      stuck : BOOLEAN]
        /\ prio_bucket \in [Task -> Bucket]
    BY DEF Bucket
  <2>2. wake_time \in [Task -> 0 .. UINT32_MAX] /\ tick \in 0 .. UINT32_MAX
    BY DEF UINT32_MAX
  <2>3. req \in [Task -> [reason : Reason, ticks : Ticks \cup {0}]]
    BY DEF Reason, NoReq
  <2>4. time_slice_counter \in [Task -> 0 .. RTOS_TIME_SLICE_TICKS - 1]
    OBVIOUS
  <2>5. isr \in 0 .. Len(registry) + 1
    BY <1>1
  <2>6. /\ state \in [Task -> {"UNUSED", "READY", "RUNNING", "BLOCKED", "TERMINATED"}]
        /\ block_reason \in [Task -> Reason]
        /\ pc \in [Task -> Place]
        /\ current_tcb \in Task \cup {NULL} /\ pendsv \in BOOLEAN
        /\ phase \in {"boot", "armed", "multi"}
    BY Zenon DEF Reason, Place
  <2> QED BY ONLY <1>1, <2>1, <2>2, <2>3, <2>4, <2>5, <2>6 DEF TypeOK
<1>3. ReadyRingsExact /\ RegistryExact
  <2>1. ASSUME NEW b \in Bucket PROVE IsRing(ready, b, RunnableIn(b))
    <3>1. CASE b = RTOS_NUM_PRIORITIES - 1
      <4>1. RunnableIn(b) = {Idle}
        BY <3>1, Zenon DEF RunnableIn, Runnable
      <4>2. ready.head[b] = Idle /\ ready.next[Idle] = Idle
        BY <2>1, <3>1
      <4>3. Cycle(ready.next, {Idle})
        BY <4>2, CycleOne
      <4> QED BY <4>1, <4>2, <4>3 DEF IsRing
    <3>2. CASE b # RTOS_NUM_PRIORITIES - 1
      <4>1. RunnableIn(b) = {}
        BY <3>2, Zenon DEF RunnableIn, Runnable
      <4>2. ready.head[b] = NULL
        BY <2>1, <3>2
      <4> QED BY <4>1, <4>2, Zenon DEF IsRing, Cycle
    <3> QED BY <3>1, <3>2
  <2>2. Members(registry) = {Idle}
    BY <1>1 DEF Members
  <2>3. {t \in Task : state[t] \in Live} = {Idle}
    BY Zenon DEF Live
  <2>4. \A i, j \in 1 .. Len(registry) : registry[i] = registry[j] => i = j
    BY <1>1
  <2> QED BY <2>1, <2>2, <2>3, <2>4, Zenon DEF ReadyRingsExact, RegistryExact
<1>4. RunnerRuns /\ IdleRunnable /\ LoneRunner
  BY DEF RunnerRuns, Settled, IdleRunnable, LoneRunner, Runnable
<1> QED BY <1>2, <1>3, <1>4 DEF Inv

\* Steps that leave rings, states, buckets, registry and current_tcb alone keep
\* all of Inv but TypeOK and RunnerRuns.
LEMMA QuietStep ==
  ASSUME Inv, UNCHANGED <<ready, state, prio_bucket, registry, current_tcb>>,
         phase' = "multi" => phase = "multi"
  PROVE  ReadyRingsExact' /\ RegistryExact' /\ IdleRunnable' /\ LoneRunner'
<1>1. ReadyRingsExact'
  BY SMTT(20), ZenonT(30) DEF Inv, ReadyRingsExact, IsRing, RunnableIn
<1>2. RegistryExact'
  BY DEF Inv, RegistryExact
<1>3. IdleRunnable' /\ LoneRunner'
  BY DEF Inv, IdleRunnable, LoneRunner
<1> QED BY <1>1, <1>2, <1>3

\* Steps that neither add to the registry nor take from it, and after which the
\* same tasks are live.
LEMMA RegistryKept ==
  ASSUME RegistryExact, registry' = registry,
         \A x \in Task : state'[x] \in Live <=> state[x] \in Live
  PROVE  RegistryExact'
<1>1. {x \in Task : state'[x] \in Live} = {x \in Task : state[x] \in Live}
  OBVIOUS
<1>2. Members(registry') = Members(registry)
  OBVIOUS
<1> QED BY <1>1, <1>2 DEF RegistryExact

LEMMA TaskCreateInv ==
  ASSUME Inv, NEW t \in User, NEW p \in Priority, TaskCreate(t, p)
  PROVE  Inv'
<1> DEFINE b == PrioBucket(p)
<1> USE DEF TaskCreate, cpuVars, taskVars
<1>1. t \in Task /\ t # Idle /\ state[t] = "UNUSED" /\ phase = "boot" /\ TypeOK
  BY DEF User, Inv
<1>2. b \in Bucket
  BY KernelAssumption, PrioBucketType, Zenon
<1> HIDE DEF b
<1>3. /\ state' = [state EXCEPT ![t] = "READY"] /\ prio_bucket' = [prio_bucket EXCEPT ![t] = b]
      /\ state \in [Task -> {"UNUSED", "READY", "RUNNING", "BLOCKED", "TERMINATED"}]
      /\ prio_bucket \in [Task -> Bucket] /\ registry \in Seq(Task)
  BY <1>1 DEF TypeOK, b
<1>4. Gains(Bucket, ReadySets, ReadySets', b, t)
  BY <1>1, <1>2, <1>3 DEF Gains, ReadySets, RunnableIn, Runnable
<1>5. ready \in RingState(Bucket) /\ Rings(ready, Bucket, ReadySets) /\ ready' = RingInsert(ready, b, t)
  BY <1>1, RingsOfReady DEF Inv, b
<1>6. /\ ready' \in RingState(Bucket) /\ ready'.stuck = ready.stuck
      /\ Rings(ready', Bucket, ReadySets')
  BY <1>1, <1>2, <1>4, <1>5, InsertRings
<1>7. ReadyRingsExact'
  BY <1>6, ReadyOfRings DEF Inv, ReadyRingsExact
<1>8. /\ registry' \in Seq(Task) /\ Len(registry') = Len(registry) + 1
      /\ \A i \in 1 .. Len(registry) : registry'[i] = registry[i]
      /\ registry'[Len(registry) + 1] = t
  BY <1>1, <1>3, AppendSeq
<1>9. TypeOK'
  <2>1. ready' \in [head : [Bucket -> Task \cup {NULL}], next : [Task -> Task \cup {NULL}],
                    stuck : BOOLEAN]
    BY <1>6, Zenon DEF RingState, Links
  <2>2. state' \in [Task -> {"UNUSED", "READY", "RUNNING", "BLOCKED", "TERMINATED"}]
        /\ prio_bucket' \in [Task -> Bucket]
    BY ONLY <1>2, <1>3
  <2>3. isr' \in 0 .. Len(registry') + 1
    <3>1. isr' = isr /\ isr \in 0 .. Len(registry) + 1
      BY <1>1, Zenon DEF TypeOK
    <3>2. Len(registry) \in Nat
      BY <1>3, LenOfSeq
    <3> QED BY ONLY <1>8, <3>1, <3>2
  <2> QED BY <1>1, <1>8, <2>1, <2>2, <2>3, Zenon DEF TypeOK
<1>10. RegistryExact'
  <2>1. Len(registry) \in Nat
    BY <1>3, LenOfSeq
  <2>2. Members(registry)' = Members(registry) \cup {t}
    BY <1>8, <2>1 DEF Members
  <2>3. t \notin Members(registry)
    BY <1>1 DEF Inv, RegistryExact, Live
  <2>4. \A i, j \in 1 .. Len(registry') : registry'[i] = registry'[j] => i = j
    BY <1>8, <2>1, <2>3 DEF Inv, RegistryExact, Members
  <2>5. {x \in Task : state'[x] \in Live} = {x \in Task : state[x] \in Live} \cup {t}
    BY <1>1, <1>3 DEF Live
  <2> QED BY <2>2, <2>4, <2>5 DEF Inv, RegistryExact
<1>11. RunnerRuns' /\ IdleRunnable' /\ LoneRunner'
  BY <1>1, <1>3 DEF Inv, RunnerRuns, Settled, IdleRunnable, LoneRunner, Runnable
<1> QED BY <1>7, <1>9, <1>10, <1>11 DEF Inv

\* scheduler_get_next from a state that satisfies Inv: the task it selects.
LEMMA GetNext ==
  ASSUME Inv, scheduler_get_next, prio_bucket' = prio_bucket
  PROVE  /\ ready' \in RingState(Bucket) /\ ReadyRingsExact'
         /\ current_tcb' \in Task /\ state[current_tcb'] \in Runnable
         /\ \A t \in Task : state'[t] = IF t = current_tcb' THEN "RUNNING"
                                        ELSE IF state[t] = "RUNNING" THEN "READY" ELSE state[t]
         /\ state' \in [Task -> {"UNUSED", "READY", "RUNNING", "BLOCKED", "TERMINATED"}]
         /\ time_slice_counter' = [time_slice_counter EXCEPT ![current_tcb'] = 0]
         /\ \A t \in Task : state[t] \in Runnable => prio_bucket[current_tcb'] <= prio_bucket[t]
<1> DEFINE sel == ready.head[TopBucket]
<1>1. /\ TypeOK /\ ready \in RingState(Bucket) /\ Rings(ready, Bucket, ReadySets)
      /\ state \in [Task -> {"UNUSED", "READY", "RUNNING", "BLOCKED", "TERMINATED"}]
      /\ prio_bucket \in [Task -> Bucket] /\ Idle \in Task
  BY RingsOfReady, KernelAssumption DEF Inv, TypeOK
<1>2. \A t \in Task : state[t] \in Runnable => prio_bucket[t] \in NonEmpty
  <2> SUFFICES ASSUME NEW t \in Task, state[t] \in Runnable PROVE ready.head[prio_bucket[t]] # NULL
    BY <1>1 DEF NonEmpty
  <2>1. prio_bucket[t] \in Bucket /\ t \in RunnableIn(prio_bucket[t])
    BY <1>1 DEF RunnableIn
  <2>2. RunnableIn(prio_bucket[t]) \subseteq Task
    BY DEF RunnableIn
  <2> QED BY <2>1, <2>2, NullIsNoTask DEF Inv, ReadyRingsExact, IsRing
<1>3. NonEmpty # {}
  BY <1>1, <1>2 DEF Inv, IdleRunnable
<1>4. /\ TopBucket \in Bucket /\ ready.head[TopBucket] # NULL
      /\ \A c \in NonEmpty : TopBucket <= c
  BY <1>1, <1>3, TopBucketFound DEF NonEmpty
<1>5. /\ Dispatch(sel)
      /\ ready' = [ready EXCEPT !.head = [@ EXCEPT ![TopBucket] = ready.next[ready.head[TopBucket]]]]
  BY <1>3 DEF scheduler_get_next
<1>6. /\ sel \in ReadySets[TopBucket] /\ ready' \in RingState(Bucket)
      /\ ready'.stuck = ready.stuck /\ Rings(ready', Bucket, ReadySets)
  BY <1>1, <1>4, <1>5, RotateRings
<1>7. sel \in Task /\ state[sel] \in Runnable /\ prio_bucket[sel] = TopBucket
  BY <1>4, <1>6 DEF ReadySets, RunnableIn
<1> HIDE DEF sel
<1>8. /\ \A t \in Task : state'[t] = IF t = sel THEN "RUNNING"
                                  ELSE IF state[t] = "RUNNING" THEN "READY" ELSE state[t]
      /\ state' \in [Task -> {"UNUSED", "READY", "RUNNING", "BLOCKED", "TERMINATED"}]
  <2>1. /\ Preempted \in [Task -> {"UNUSED", "READY", "RUNNING", "BLOCKED", "TERMINATED"}]
        /\ \A t \in Task : Preempted[t] = IF state[t] = "RUNNING" THEN "READY" ELSE state[t]
    BY <1>1, NullIsNoTask, Zenon DEF Preempted, Inv, LoneRunner
  <2> QED BY <1>5, <1>7, <2>1 DEF Dispatch
<1>9. ReadySets' = ReadySets
  BY <1>7, <1>8 DEF ReadySets, RunnableIn, Runnable
<1>10. ReadyRingsExact'
  BY <1>6, <1>9, ReadyOfRings DEF Inv, ReadyRingsExact
<1> QED BY <1>2, <1>4, <1>5, <1>6, <1>7, <1>8, <1>10 DEF Dispatch

LEMMA DispatchInv ==
  ASSUME Inv, SVC_Handler \/ PendSV_Handler
  PROVE  Inv'
<1> USE DEF taskVars
<1>1. /\ scheduler_get_next /\ TypeOK /\ phase' \in {"armed", "multi"} /\ isr = 0
      /\ pendsv' = FALSE
      /\ UNCHANGED <<prio_bucket, wake_time, block_reason, registry, tick, isr, pc, req>>
  BY DEF SVC_Handler, PendSV_Handler, Inv, TypeOK
<1> DEFINE sel == current_tcb'
<1>2. /\ ready' \in RingState(Bucket) /\ ReadyRingsExact'
      /\ sel \in Task /\ state[sel] \in Runnable
      /\ \A t \in Task : state'[t] = IF t = sel THEN "RUNNING"
                                  ELSE IF state[t] = "RUNNING" THEN "READY" ELSE state[t]
      /\ state' \in [Task -> {"UNUSED", "READY", "RUNNING", "BLOCKED", "TERMINATED"}]
      /\ time_slice_counter' = [time_slice_counter EXCEPT ![sel] = 0]
      /\ \A t \in Task : state[t] \in Runnable => prio_bucket[sel] <= prio_bucket[t]
  BY <1>1, GetNext
<1> HIDE DEF sel
<1>3. TypeOK'
  <2>1. 0 \in 0 .. RTOS_TIME_SLICE_TICKS - 1
    BY KernelAssumption
  <2>2. time_slice_counter' \in [Task -> 0 .. RTOS_TIME_SLICE_TICKS - 1]
    BY <1>1, <1>2, <2>1 DEF TypeOK
  <2> QED BY <1>1, <1>2, <2>2, Zenon DEF TypeOK, RingState, Links, sel
<1>4. RegistryExact'
  <2>1. \A x \in Task : state'[x] \in Live <=> state[x] \in Live
    BY <1>2 DEF Live, Runnable
  <2> QED BY <1>1, <2>1, RegistryKept DEF Inv
<1>5. RunnerRuns' /\ IdleRunnable' /\ LoneRunner'
  BY <1>1, <1>2, KernelAssumption
  DEF Inv, RunnerRuns, Settled, IdleRunnable, LoneRunner, Runnable, sel
<1> QED BY <1>2, <1>3, <1>4, <1>5 DEF Inv

\* One iteration of rtos_wake_delayed that makes a sleeper READY, for whatever
\* reason it sleeps.
LEMMA WakeInv ==
  ASSUME Inv, isr \in 1 .. Len(registry), Due(Scanned), isr' = isr + 1,
         block_reason' = [block_reason EXCEPT ![Scanned] = "NONE"],
         state' = [state EXCEPT ![Scanned] = "READY"],
         ready' = RingInsert(ready, prio_bucket[Scanned], Scanned),
         UNCHANGED <<prio_bucket, wake_time, time_slice_counter, registry, tick,
                     current_tcb, pendsv, phase, pc, req>>
  PROVE  Inv'
<1> DEFINE t == registry[isr]
           b == prio_bucket[t]
<1> USE DEF Scanned, Due
<1>1. /\ TypeOK /\ t \in Task /\ t # Idle /\ state[t] = "BLOCKED" /\ isr \in 1 .. Len(registry)
      /\ b \in Bucket
  BY EntryOfSeq, SMTT(20) DEF Inv, TypeOK
<1>2. /\ state' = [state EXCEPT ![t] = "READY"] /\ prio_bucket' = prio_bucket
      /\ ready' = RingInsert(ready, b, t) /\ isr' = isr + 1
      /\ block_reason' = [block_reason EXCEPT ![t] = "NONE"]
      /\ UNCHANGED <<wake_time, time_slice_counter, registry, tick, current_tcb, pendsv,
                     phase, pc, req>>
  BY Zenon
<1> HIDE DEF t, b, Scanned, Due
<1>3. /\ state \in [Task -> {"UNUSED", "READY", "RUNNING", "BLOCKED", "TERMINATED"}]
      /\ prio_bucket \in [Task -> Bucket] /\ prio_bucket[t] = b
  BY <1>1 DEF TypeOK, b
<1>4. Gains(Bucket, ReadySets, ReadySets', b, t)
  BY <1>1, <1>2, <1>3 DEF Gains, ReadySets, RunnableIn, Runnable
<1>5. ready \in RingState(Bucket) /\ Rings(ready, Bucket, ReadySets)
  BY <1>1, RingsOfReady DEF Inv
<1>6. /\ ready' \in RingState(Bucket) /\ ready'.stuck = ready.stuck
      /\ Rings(ready', Bucket, ReadySets')
  BY <1>1, <1>2, <1>4, <1>5, InsertRings
<1>7. ReadyRingsExact'
  BY <1>6, ReadyOfRings DEF Inv, ReadyRingsExact
<1>8. isr' \in 0 .. Len(registry') + 1
  BY <1>1, <1>2, LenOfSeq DEF TypeOK
<1>9. TypeOK'
  <2>1. block_reason' \in [Task -> Reason]
    BY <1>1, <1>2, Zenon DEF Reason, TypeOK
  <2>2. state' \in [Task -> {"UNUSED", "READY", "RUNNING", "BLOCKED", "TERMINATED"}]
    BY <1>2, <1>3, Zenon
  <2> QED BY ONLY SMTT(20), ZenonT(30), <1>1, <1>2, <1>6, <1>8, <2>1, <2>2 DEF TypeOK, RingState, Links
<1>10. RegistryExact'
  <2>1. \A x \in Task : state'[x] \in Live <=> state[x] \in Live
    BY <1>1, <1>2, <1>3 DEF Live
  <2> QED BY <1>2, <2>1, RegistryKept DEF Inv
<1>11. isr' # 0
  BY <1>1, <1>2
<1>12. RunnerRuns' /\ IdleRunnable' /\ LoneRunner'
  BY <1>1, <1>2, <1>3, <1>11 DEF Inv, RunnerRuns, Settled, IdleRunnable, LoneRunner, Runnable
<1> QED BY <1>7, <1>9, <1>10, <1>12 DEF Inv

LEMMA WakeDelayInv ==
  ASSUME Inv, WakeDelay
  PROVE  Inv'
BY WakeInv DEF WakeDelay, taskVars

\* Taking t out of its ring and out of the runnable states at once, as
\* rtos_block_current and task_delete do in their critical sections.
LEMMA LeaveReady ==
  ASSUME Inv, NEW t \in Task, NEW s \in {"BLOCKED", "TERMINATED"},
         ready' = RingRemove(ready, prio_bucket[t], t),
         state' = [state EXCEPT ![t] = s], prio_bucket' = prio_bucket
  PROVE  ready' \in RingState(Bucket) /\ ReadyRingsExact'
<1> DEFINE b == prio_bucket[t]
<1>1. /\ b \in Bucket /\ prio_bucket \in [Task -> Bucket]
      /\ state \in [Task -> {"UNUSED", "READY", "RUNNING", "BLOCKED", "TERMINATED"}]
  BY DEF Inv, TypeOK
<1> HIDE DEF b
<1>2. Loses(Bucket, ReadySets, ReadySets', b, t)
  BY <1>1 DEF Loses, ReadySets, RunnableIn, Runnable, b
<1>3. ready \in RingState(Bucket) /\ Rings(ready, Bucket, ReadySets)
  BY RingsOfReady DEF Inv
<1>4. ready' = RingRemove(ready, b, t)
  BY DEF b
<1>5. /\ ready' \in RingState(Bucket) /\ ready'.stuck = ready.stuck
      /\ Rings(ready', Bucket, ReadySets')
  BY SMTT(20), ZenonT(30), <1>1, <1>2, <1>3, <1>4, RemoveRings
<1> QED BY <1>5, ReadyOfRings DEF Inv, ReadyRingsExact

LEMMA BlockCommitInv ==
  ASSUME Inv, NEW c \in User, BlockCommit(c)
  PROVE  Inv'
<1> USE DEF BlockCommit, cpuVars, Executing
<1>1. c \in Task /\ c # Idle /\ TypeOK /\ current_tcb = c
  BY DEF User, Inv
<1>2. ready' \in RingState(Bucket) /\ ReadyRingsExact'
  BY <1>1, LeaveReady, Zenon
<1>3. WakeTime(req[c].ticks) \in 0 .. UINT32_MAX
  <2>1. req[c].ticks \in Ticks \cup {0}
    BY <1>1 DEF TypeOK
  <2>2. tick \in Nat
    BY <1>1, KernelAssumption DEF TypeOK, UINT32_MAX
  <2>3. req[c].ticks \in Nat
    <3>1. Ticks \cup {0} \subseteq Nat
      BY KernelAssumption
    <3> HIDE DEF BlockCommit
    <3> QED BY <2>1, <3>1
  <2> QED BY <2>2, <2>3, KernelAssumption DEF WakeTime, UINT32_MAX
<1>4. TypeOK'
  <2>1. wake_time' \in [Task -> 0 .. UINT32_MAX]
    BY SMTT(20), ZenonT(30), <1>1, <1>3 DEF TypeOK
  <2> QED BY <1>1, <1>2, <2>1 DEF Place, TypeOK, RingState, Links
<1>5. state[c] \in Live
  <2>1. state[c] = "RUNNING"
    <3>1. Settled
      BY <1>1 DEF Settled
    <3> QED BY <1>1, <3>1 DEF Inv, RunnerRuns
  <2> QED BY <2>1 DEF Live
<1>6. RegistryExact'
  <2>1. \A x \in Task : state'[x] \in Live <=> state[x] \in Live
    BY <1>1, <1>5 DEF Live, TypeOK
  <2> QED BY <2>1, RegistryKept DEF Inv
<1>7. RunnerRuns' /\ IdleRunnable' /\ LoneRunner'
  <2>1. /\ pc' = [pc EXCEPT ![c] = "mark"] /\ pc \in [Task -> Place] /\ c \in Task
        /\ state' = [state EXCEPT ![c] = "BLOCKED"] /\ current_tcb' = c
        /\ state \in [Task -> {"UNUSED", "READY", "RUNNING", "BLOCKED", "TERMINATED"}]
    BY <1>1, Zenon DEF TypeOK
  <2>2. /\ pc'[c] = "mark" /\ state'[c] = "BLOCKED" /\ \A x \in Task \ {c} : state'[x] = state[x]
    BY ONLY <2>1
  <2>3. RunnerRuns'
    BY ONLY <2>1, <2>2 DEF RunnerRuns, Settled
  <2>4. IdleRunnable'
    BY <1>1, <2>2, KernelAssumption, Zenon DEF Inv, IdleRunnable
  <2>5. LoneRunner'
    BY <1>1, <2>1, <2>2 DEF Inv, LoneRunner
  <2> QED BY <2>3, <2>4, <2>5
<1> QED BY <1>2, <1>4, <1>6, <1>7, Zenon DEF Inv

LEMMA TaskDeleteInv ==
  ASSUME Inv, NEW c \in User, NEW t \in User, TaskDelete(c, t)
  PROVE  Inv'
<1>1. /\ c \in Task /\ t \in Task /\ t # Idle /\ t # c /\ TypeOK /\ current_tcb = c
      /\ isr = 0 /\ t \in Members(registry) /\ registry \in Seq(Task)
  BY SMTT(20), ZenonT(30) DEF User, Inv, TypeOK, TaskDelete, InApp, Executing
<1>0. /\ registry' = RegistryRemove(registry, t) /\ state' = [state EXCEPT ![t] = "TERMINATED"]
      /\ pc' = [pc EXCEPT ![t] = "app"] /\ req' = [req EXCEPT ![t] = NoReq]
      /\ block_reason' \in {block_reason, [block_reason EXCEPT ![t] = "NONE"]}
      /\ UNCHANGED <<prio_bucket, wake_time, time_slice_counter, tick, current_tcb, pendsv, isr, phase>>
  BY Zenon DEF TaskDelete, cpuVars
<1>2. ready' \in RingState(Bucket) /\ ReadyRingsExact'
  BY <1>1, LeaveReady, Zenon DEF TaskDelete
<1>3. /\ registry' \in Seq(Task)
      /\ Members(registry') = Members(registry) \ {t}
      /\ \A i, j \in 1 .. Len(registry') : registry'[i] = registry'[j] => i = j
  <2>1. \A i, j \in 1 .. Len(registry) : registry[i] = registry[j] => i = j
    BY Zenon DEF Inv, RegistryExact
  <2> DEFINE r == RegistryRemove(registry, t)
  <2>2. /\ r \in Seq(Task) /\ Members(r) = Members(registry) \ {t}
        /\ \A i, j \in 1 .. Len(r) : r[i] = r[j] => i = j
    BY <1>1, <2>1, RegistryRemoveIsExact
  <2> HIDE DEF r
  <2>3. registry' = r
    BY <1>0 DEF r
  <2> QED BY <2>2, <2>3
<1>4. TypeOK'
  <2>1. isr' \in 0 .. Len(registry') + 1
    <3>1. Len(registry') \in Nat
      BY <1>3, LenOfSeq
    <3>2. isr' = 0
      BY <1>0, <1>1
    <3> QED BY ONLY SMTT(20), ZenonT(30), <3>1, <3>2
  <2>2. req' \in [Task -> [reason : Reason, ticks : Ticks \cup {0}]]
    BY <1>0, <1>1 DEF Reason, TypeOK, NoReq
  <2>3. /\ block_reason' \in [Task -> Reason] /\ pc' \in [Task -> Place]
        /\ state' \in [Task -> {"UNUSED", "READY", "RUNNING", "BLOCKED", "TERMINATED"}]
    BY SMTT(20), ZenonT(30), <1>0, <1>1 DEF Reason, Place, TypeOK
  <2>4. /\ prio_bucket' \in [Task -> Bucket] /\ wake_time' \in [Task -> 0 .. UINT32_MAX]
        /\ time_slice_counter' \in [Task -> 0 .. RTOS_TIME_SLICE_TICKS - 1]
        /\ current_tcb' \in Task \cup {NULL} /\ tick' \in 0 .. UINT32_MAX /\ pendsv' \in BOOLEAN
        /\ phase' \in {"boot", "armed", "multi"}
    BY <1>0, <1>1, Zenon DEF TypeOK
  <2>5. ready' \in [head : [Bucket -> Task \cup {NULL}], next : [Task -> Task \cup {NULL}],
                    stuck : BOOLEAN]
    BY <1>2, Zenon DEF RingState, Links
  <2> QED BY <1>3, <2>1, <2>2, <2>3, <2>4, <2>5, Zenon DEF TypeOK
<1>5. RegistryExact'
  <2>1. {x \in Task : state'[x] \in Live} = {x \in Task : state[x] \in Live} \ {t}
    BY SMTT(20), ZenonT(30), <1>0, <1>1 DEF TypeOK, Live
  <2> QED BY <1>3, <2>1 DEF Inv, RegistryExact
<1>6. RunnerRuns' /\ IdleRunnable' /\ LoneRunner'
  <2>1. \A x \in Task \ {t} : state'[x] = state[x]
    BY <1>0, Zenon DEF Inv, TypeOK
  <2>2. state'[t] = "TERMINATED"
    BY <1>0, <1>1, Zenon DEF TypeOK
  <2>3. RunnerRuns'
    BY <1>0, <1>1, <2>1 DEF Inv, RunnerRuns, Settled
  <2>4. IdleRunnable'
    BY <1>1, <2>1, KernelAssumption DEF Inv, IdleRunnable
  <2>5. LoneRunner'
    BY <1>0, <1>1, <2>1, <2>2 DEF Inv, LoneRunner
  <2> QED BY <2>3, <2>4, <2>5
<1> QED BY <1>2, <1>4, <1>5, <1>6 DEF Inv

\* The steps that QuietStep speaks of.
LEMMA QuietActionInv ==
  ASSUME Inv,
         \/ RtosStart \/ rtos_tick_increment \/ WakeSkip \/ SysTickReturn
         \/ \E c \in User : \/ TaskYield(c) \/ BlockStore(c) \/ BlockMark(c) \/ DelayReturn(c)
                            \/ \E n \in Ticks : TaskDelay(c, n)
         \/ UNCHANGED vars
  PROVE  Inv'
<1> USE DEF taskVars, cpuVars, tcbVars
<1>0. TypeOK
  BY DEF Inv
<1>1. CASE RtosStart
  <2>1. TypeOK' /\ RunnerRuns'
    BY <1>0, <1>1 DEF TypeOK, RtosStart, RunnerRuns, Settled
  <2> QED BY <1>1, <2>1, QuietStep DEF RtosStart, Inv
<1>2. CASE rtos_tick_increment
  <2>1. (tick + 1) % TickMod \in 0 .. UINT32_MAX
    BY <1>0, KernelAssumption DEF TypeOK, UINT32_MAX
  <2>2. 1 \in 0 .. Len(registry) + 1
    BY <1>0, LenOfSeq DEF TypeOK
  <2>3. TypeOK' /\ RunnerRuns'
    BY <1>0, <1>2, <2>1, <2>2 DEF TypeOK, rtos_tick_increment, RunnerRuns, Settled
  <2> QED BY <1>2, <2>3, QuietStep DEF rtos_tick_increment, Inv
<1>3. CASE WakeSkip
  <2>1. isr' \in 0 .. Len(registry) + 1 /\ isr' # 0
    BY <1>0, <1>3, LenOfSeq DEF TypeOK, WakeSkip
  <2>2. TypeOK' /\ RunnerRuns'
    <3>1. TypeOK'
      BY <1>0, <1>3, <2>1, Zenon DEF TypeOK, WakeSkip
    <3>2. RunnerRuns'
      BY ONLY <2>1 DEF RunnerRuns, Settled
    <3> QED BY <3>1, <3>2
  <2> QED BY <1>3, <2>2, QuietStep DEF WakeSkip, Inv
<1>4. CASE SysTickReturn
  <2>1. SliceTick \in [Task -> 0 .. RTOS_TIME_SLICE_TICKS - 1]
    BY <1>0, KernelAssumption, SMTT(30) DEF TypeOK, SliceTick
  <2>2. 0 \in 0 .. Len(registry) + 1
    BY <1>0, LenOfSeq DEF TypeOK
  <2>3. TypeOK' /\ RunnerRuns'
    BY <1>0, <1>4, <2>1, <2>2 DEF TypeOK, SysTickReturn, RunnerRuns, Settled
  <2> QED BY <1>4, <2>3, QuietStep DEF SysTickReturn, Inv
<1>5. ASSUME NEW c \in User, TaskYield(c) \/ BlockMark(c) PROVE Inv'
  <2>1. /\ pendsv' = TRUE /\ pc' \in [Task -> Place]
        /\ UNCHANGED <<ready, tcbVars, registry, tick, current_tcb, isr, phase, req>>
    BY <1>0, <1>5, Zenon DEF Place, TypeOK, TaskYield, BlockMark
  <2>2. TypeOK' /\ RunnerRuns'
    BY <1>0, <2>1 DEF TypeOK, RunnerRuns, Settled
  <2> QED BY <2>1, <2>2, QuietStep DEF Inv
<1>6. ASSUME NEW c \in User,
             BlockStore(c) \/ DelayReturn(c) \/ \E n \in Ticks : TaskDelay(c, n)
      PROVE  Inv'
  <2>1. c \in Task /\ req[c].reason \in Reason
    BY <1>0 DEF User, TypeOK
  <2>2. /\ pc[c] \in {"app", "enter", "spin"} /\ current_tcb = c
        /\ pc' \in [Task -> Place]
        /\ block_reason' \in [Task -> Reason]
        /\ UNCHANGED <<ready, state, prio_bucket, wake_time, time_slice_counter, registry, tick,
                       current_tcb, pendsv, isr, phase>>
    BY <1>0, <1>6, <2>1, Zenon DEF Place, TypeOK, BlockStore, DelayReturn, TaskDelay, Executing, InApp
  <2>3. req' \in [Task -> [reason : Reason, ticks : Ticks \cup {0}]]
    <3>1. req \in [Task -> [reason : Reason, ticks : Ticks \cup {0}]]
      BY <1>0 DEF TypeOK
    <3>2. CASE BlockStore(c) \/ DelayReturn(c)
      <4>1. req' = req \/ req' = [req EXCEPT ![c] = NoReq]
        BY <3>2, Zenon DEF BlockStore, DelayReturn
      <4>2. NoReq \in [reason : Reason, ticks : Ticks \cup {0}]
        BY DEF NoReq, Reason
      <4> QED BY <3>1, <4>1, <4>2, Zenon
    <3>3. ASSUME NEW n \in Ticks, TaskDelay(c, n)
          PROVE  req' \in [Task -> [reason : Reason, ticks : Ticks \cup {0}]]
      BY <3>1, <3>3, Zenon DEF Reason, TaskDelay
    <3> QED BY <1>6, <3>2, <3>3
  <2>4. TypeOK'
    BY SMTT(20), ZenonT(30), <1>0, <2>2, <2>3 DEF TypeOK
  <2>5. RunnerRuns'
    BY <2>2, Zenon DEF Inv, RunnerRuns, Settled
  <2> QED BY <2>2, <2>4, <2>5, QuietStep DEF Inv
<1>7. CASE UNCHANGED vars
  <2>1. TypeOK' /\ RunnerRuns'
    BY <1>0, <1>7, Zenon DEF vars, TypeOK, Inv, RunnerRuns, Settled
  <2> QED BY SMTT(20), ZenonT(30), <1>7, <2>1, QuietStep DEF vars, Inv
<1> QED BY <1>1, <1>2, <1>3, <1>4, <1>5, <1>6, <1>7

LEMMA NextInv == Inv /\ [Next]_vars => Inv'
<1> SUFFICES ASSUME Inv, [Next]_vars PROVE Inv'
  OBVIOUS
<1>1. CASE Boot
  BY <1>1, TaskCreateInv, DispatchInv, QuietActionInv DEF Boot
<1>2. CASE SysTick_Handler
  BY <1>2, WakeDelayInv, QuietActionInv DEF SysTick_Handler
<1>3. CASE PendSV_Handler
  BY <1>3, DispatchInv
<1>4. ASSUME NEW c \in User, TaskStep(c) PROVE Inv'
  BY <1>4, BlockCommitInv, TaskDeleteInv, QuietActionInv DEF TaskStep, Block
<1>5. CASE UNCHANGED vars
  BY <1>5, QuietActionInv
<1> QED BY <1>1, <1>2, <1>3, <1>4, <1>5 DEF Next

\* The inductive invariant holds in every reachable state.
THEOREM Invariance == Spec => []Inv
<1> QED BY InitInv, NextInv, PTL DEF Spec

\* Type correctness of the kernel's state, for every configuration.
THEOREM TypeCorrect == Spec => []TypeOK
<1>1. Inv => TypeOK
  BY DEF Inv
<1> QED BY <1>1, Invariance, PTL

\* scheduler.c keeps every ready ring one cycle through exactly the runnable tasks
\* of its bucket, whatever tasks delay, wake, yield, and are deleted.
THEOREM RingsAlwaysExact == Spec => []ReadyRingsExact
<1>1. Inv => ReadyRingsExact
  BY DEF Inv
<1> QED BY <1>1, Invariance, PTL

\* task_registry holds every live task exactly once.
THEOREM RegistryAlwaysExact == Spec => []RegistryExact
<1>1. Inv => RegistryExact
  BY DEF Inv
<1> QED BY <1>1, Invariance, PTL

-----------------------------------------------------------------------------
(* Preemption *)

\* A step after which the running task is the same, no bucket has changed, and no
\* task has become runnable, keeps it the most urgent one.
LEMMA UrgentKept ==
  ASSUME Inv', MostUrgentRuns, Settled' => Settled, current_tcb' = current_tcb,
         prio_bucket' = prio_bucket, \A t \in Task : state'[t] \in Runnable => state[t] \in Runnable
  PROVE  MostUrgentRuns'
<1>1. SUFFICES ASSUME Settled' PROVE MostUrgentRuns'
  BY DEF MostUrgentRuns
<1>2. \A t \in Task : state'[t] = "RUNNING" <=> t = current_tcb'
  BY <1>1 DEF Inv, RunnerRuns, LoneRunner
<1> QED BY <1>1, <1>2 DEF MostUrgentRuns

LEMMA DispatchUrgent ==
  ASSUME Inv, SVC_Handler \/ PendSV_Handler
  PROVE  MostUrgentRuns'
<1>1. scheduler_get_next /\ prio_bucket' = prio_bucket
  BY DEF SVC_Handler, PendSV_Handler
<1> QED BY <1>1, GetNext DEF MostUrgentRuns, Runnable

LEMMA NextUrgent == Inv /\ MostUrgentRuns /\ [Next]_vars => MostUrgentRuns'
<1> SUFFICES ASSUME Inv, MostUrgentRuns, [Next]_vars PROVE MostUrgentRuns'
  OBVIOUS
<1>0. Inv' /\ TypeOK
  BY NextInv DEF Inv
<1> USE DEF tcbVars, taskVars, cpuVars, Settled
<1>1. CASE Boot \/ PendSV_Handler
  <2>1. CASE (\E t \in User, p \in Priority : TaskCreate(t, p)) \/ RtosStart
    BY <2>1 DEF MostUrgentRuns, TaskCreate, RtosStart
  <2> QED BY <1>1, <2>1, DispatchUrgent DEF Boot
<1>2. CASE SysTick_Handler
  <2>1. ~Settled'
    BY <1>0, <1>2 DEF SysTick_Handler, rtos_tick_increment, WakeSkip, WakeDelay, SysTickReturn
  <2> QED BY <2>1 DEF MostUrgentRuns
<1>3. ASSUME NEW c \in User, TaskStep(c) PROVE MostUrgentRuns'
  <2>1. CASE TaskYield(c) \/ BlockMark(c) \/ BlockCommit(c)
    <3>1. ~Settled'
      <4>1. TaskYield(c) \/ BlockMark(c) => pendsv'
        BY Zenon DEF TaskYield, BlockMark
      <4>2. ASSUME BlockCommit(c) PROVE pc'[current_tcb'] = "mark"
        <5>1. /\ current_tcb' = c /\ pc' = [pc EXCEPT ![c] = "mark"] /\ c \in Task
              /\ pc \in [Task -> Place]
          BY <1>0, <4>2, Zenon DEF BlockCommit, Executing, User, TypeOK
        <5> QED BY ONLY <5>1
      <4> QED BY <2>1, <4>1, <4>2
    <3> QED BY <3>1 DEF MostUrgentRuns
  <2>2. CASE BlockStore(c) \/ DelayReturn(c) \/ \E n \in Ticks : TaskDelay(c, n)
    <3>1. UNCHANGED <<state, prio_bucket, current_tcb>>
      BY <2>2, Zenon DEF BlockStore, DelayReturn, TaskDelay, cpuVars
    <3>2. Settled' => Settled
      BY <2>2 DEF BlockStore, DelayReturn, TaskDelay, Executing, InApp, Settled, cpuVars
    <3>3. \A t \in Task : state'[t] \in Runnable => state[t] \in Runnable
      BY <3>1, Zenon
    <3> QED BY <1>0, <3>1, <3>2, <3>3, UrgentKept, Zenon
  <2>3. ASSUME NEW t \in User, TaskDelete(c, t) PROVE MostUrgentRuns'
    <3>1. \A x \in Task : state'[x] \in Runnable => state[x] \in Runnable
      BY SMTT(20), ZenonT(30), <1>0, <2>3 DEF TaskDelete, Runnable, TypeOK
    <3> QED BY <1>0, <2>3, <3>1, UrgentKept DEF TaskDelete, Executing, InApp
  <2> QED BY SMTT(20), ZenonT(30), <1>3, <2>1, <2>2, <2>3 DEF TaskStep, Block
<1>4. CASE UNCHANGED vars
  BY <1>4, Zenon DEF vars, MostUrgentRuns
<1> QED BY <1>1, <1>2, <1>3, <1>4 DEF Next

\* Fixed-priority preemption: with nothing pended, the CPU runs the one RUNNING
\* task, and no runnable task is in a more urgent bucket.
THEOREM PreemptionCorrect == Spec => []MostUrgentRuns
<1>1. Init => MostUrgentRuns
  BY Zenon DEF Init, MostUrgentRuns, Settled
<1> QED BY <1>1, Invariance, NextUrgent, PTL DEF Spec

-----------------------------------------------------------------------------
(* Sleepers are woken in time *)

\* No sum of the counter and a delay reaches UINT32_MAX.
NoWrap == MaxTick < TickMod /\ \A n \in Ticks : MaxTick + n < UINT32_MAX

\* The loop of rtos_wake_delayed has not yet come to t.
Ahead(t) == isr # 0 /\ \E j \in isr .. Len(registry) : registry[j] = t

Sleeping(t) == state[t] = "BLOCKED" /\ wake_time[t] # UINT32_MAX

\* A sleeper is in time, or SysTick is on its way to it.
OnTime ==
  /\ tick <= MaxTick
  /\ \A t \in Task : Sleeping(t) => tick < wake_time[t] \/ Ahead(t)

\* Every BLOCKED task has a reason some branch of rtos_wake_delayed handles.
BlockedForReason == \A t \in Task : state[t] = "BLOCKED" => block_reason[t] # "NONE"

LEMMA InitOnTime == Init => OnTime
<1> SUFFICES ASSUME Init PROVE OnTime
  OBVIOUS
<1>1. \A t \in Task : state[t] \in {"READY", "UNUSED"}
  BY Zenon DEF Init
<1>2. tick <= MaxTick
  <2>1. tick = 0
    BY Zenon DEF Init
  <2> QED BY <2>1, KernelAssumption
<1>3. \A t \in Task : ~Sleeping(t)
  BY ONLY <1>1 DEF Sleeping
<1> QED BY <1>2, <1>3, Zenon DEF OnTime

\* wake_time = rtos_get_tick() + timeout_ticks, where that does not wrap.
LEMMA WakeTimeNoWrap ==
  ASSUME NoWrap, TypeOK, tick <= MaxTick, NEW n \in Ticks
  PROVE  WakeTime(n) = tick + n /\ tick < WakeTime(n) /\ n \in Nat /\ n > 0
<1>1. n \in Nat /\ n > 0
  BY KernelAssumption
<1>2. /\ tick \in Nat /\ TickMod \in Nat /\ MaxTick \in Nat /\ MaxTick + n < TickMod - 1
  BY KernelAssumption DEF NoWrap, TypeOK, UINT32_MAX
<1>3. (tick + n) % TickMod = tick + n
  BY <1>1, <1>2
<1> QED BY <1>1, <1>2, <1>3 DEF WakeTime

LEMMA TickNoWrap ==
  ASSUME NoWrap, TypeOK, tick < MaxTick
  PROVE  (tick + 1) % TickMod = tick + 1
<1>1. tick \in Nat /\ TickMod \in Nat /\ MaxTick \in Nat /\ MaxTick < TickMod
  BY KernelAssumption DEF NoWrap, TypeOK, UINT32_MAX
<1> QED BY <1>1

\* Steps that move neither the counter nor SysTick and put nobody to sleep.
LEMMA QuietOnTime ==
  ASSUME OnTime, UNCHANGED <<wake_time, tick, isr>>, isr = 0 \/ UNCHANGED registry,
         \A t \in Task : state'[t] = "BLOCKED" => state[t] = "BLOCKED"
  PROVE  OnTime'
<1>1. \A t \in Task : Sleeping(t)' => Sleeping(t)
  BY DEF Sleeping
<1>2. \A t \in Task : Ahead(t) => Ahead(t)'
  BY DEF Ahead
<1> QED BY <1>1, <1>2, Zenon DEF OnTime

\* An iteration of rtos_wake_delayed: the task it looks at was not due, or is woken.
LEMMA ScanOnTime ==
  ASSUME Inv, OnTime, BlockedForReason,
         isr \in 1 .. Len(registry), isr' = isr + 1, UNCHANGED <<wake_time, tick, registry>>,
         \/ ~Due(Scanned) \/ block_reason[Scanned] = "NONE"
         \/ state'[Scanned] # "BLOCKED",
         \A t \in Task : state'[t] = "BLOCKED" => state[t] = "BLOCKED"
  PROVE  OnTime'
<1>1. /\ registry \in Seq(Task) /\ Len(registry) \in Nat /\ isr \in Nat /\ tick \in Nat
      /\ \A t \in Task : wake_time[t] \in Nat
  <2>1. registry \in Seq(Task) /\ isr \in Nat
    BY DEF Inv, TypeOK
  <2>2. tick \in Nat /\ \A t \in Task : wake_time[t] \in Nat
    BY KernelAssumption DEF Inv, TypeOK, UINT32_MAX
  <2> QED BY <2>1, <2>2, LenOfSeq
<1>2. ASSUME NEW t \in Task, Sleeping(t)', ~(tick < wake_time[t])
      PROVE  Ahead(t)'
  <2>1. Sleeping(t) /\ state'[t] = "BLOCKED"
    BY <1>2 DEF Sleeping
  <2>2. Ahead(t)
    BY <1>2, <2>1 DEF OnTime
  <2>3. PICK j \in isr .. Len(registry) : registry[j] = t
    BY <2>2 DEF Ahead
  <2>4. t # Idle
    BY <2>1 DEF Inv, IdleRunnable, Sleeping, Runnable
  <2>5. Due(t) /\ block_reason[t] # "NONE"
    <3>1. tick >= wake_time[t]
      BY <1>1, <1>2
    <3> QED BY <2>1, <2>4, <3>1 DEF Due, Sleeping, BlockedForReason
  <2>6. j # isr
    BY <2>1, <2>3, <2>5 DEF Scanned
  <2>7. j \in isr' .. Len(registry') /\ registry'[j] = t /\ isr' # 0
    BY <1>1, <2>3, <2>6
  <2> QED BY <2>7 DEF Ahead
<1> QED BY <1>2, Zenon DEF OnTime

\* A SysTick begins: the loop is ahead of everybody.
LEMMA TickOnTime ==
  ASSUME NoWrap, Inv, OnTime, rtos_tick_increment
  PROVE  OnTime'
<1>1. /\ tick < MaxTick /\ tick' = (tick + 1) % TickMod /\ isr' = 1
      /\ UNCHANGED <<state, wake_time, registry>>
  BY DEF rtos_tick_increment, tcbVars
<1>2. tick' <= MaxTick
  <2>1. tick' = tick + 1
    BY <1>1, TickNoWrap DEF Inv
  <2>2. tick \in Nat /\ MaxTick \in Nat
    BY KernelAssumption DEF Inv, TypeOK, UINT32_MAX
  <2> QED BY <1>1, <2>1, <2>2
<1>3. ASSUME NEW t \in Task, Sleeping(t)' PROVE Ahead(t)'
  <2>1. t \in Members(registry)
    BY <1>1, <1>3 DEF Inv, RegistryExact, Sleeping, Live
  <2>2. PICK j \in 1 .. Len(registry) : registry[j] = t
    BY <2>1 DEF Members
  <2> QED BY <1>1, <2>2 DEF Ahead
<1> QED BY <1>2, <1>3, Zenon DEF OnTime

\* rtos_block_current puts its caller to sleep until later, or for good.
LEMMA CommitOnTime ==
  ASSUME NoWrap, Inv, OnTime, NEW c \in User, BlockCommit(c)
  PROVE  OnTime'
<1>1. /\ c \in Task /\ wake_time' = [wake_time EXCEPT ![c] = WakeTime(req[c].ticks)]
      /\ state' = [state EXCEPT ![c] = "BLOCKED"] /\ UNCHANGED <<registry, tick, isr>>
  BY Zenon DEF BlockCommit, cpuVars, User
<1>2. /\ state \in [Task -> {"UNUSED", "READY", "RUNNING", "BLOCKED", "TERMINATED"}]
      /\ wake_time \in [Task -> 0 .. UINT32_MAX] /\ req[c].ticks \in Ticks \cup {0}
  BY <1>1 DEF Inv, TypeOK
<1>3. /\ wake_time'[c] = WakeTime(req[c].ticks)
      /\ \A t \in Task \ {c} : wake_time'[t] = wake_time[t] /\ state'[t] = state[t]
  BY ONLY <1>1, <1>2
<1>4. wake_time'[c] # UINT32_MAX => tick < wake_time'[c]
  <2>1. CASE req[c].ticks = 0
    BY <1>3, <2>1 DEF WakeTime
  <2>2. CASE req[c].ticks \in Ticks
    BY <1>3, <2>2, WakeTimeNoWrap DEF Inv, OnTime
  <2> QED BY <1>2, <2>1, <2>2
<1>5. ASSUME NEW t \in Task, Sleeping(t)' PROVE tick' < wake_time'[t] \/ Ahead(t)'
  <2>1. CASE t = c
    BY <1>1, <1>4, <1>5, <2>1 DEF Sleeping
  <2>2. CASE t # c
    <3>1. Sleeping(t) /\ wake_time'[t] = wake_time[t]
      BY <1>3, <1>5, <2>2 DEF Sleeping
    <3>2. Ahead(t) => Ahead(t)'
      BY <1>1 DEF Ahead
    <3> QED BY <1>1, <3>1, <3>2, Zenon DEF OnTime
  <2> QED BY <2>1, <2>2
<1> QED BY <1>1, <1>5, Zenon DEF OnTime

LEMMA StepOnTime ==
  ASSUME NoWrap, Inv, OnTime, BlockedForReason,
         \/ Boot \/ SysTick_Handler \/ PendSV_Handler \/ (\E c \in User : TaskStep(c))
         \/ UNCHANGED vars
  PROVE  OnTime'
<1> USE DEF cpuVars, taskVars, tcbVars
<1>0. /\ state \in [Task -> {"UNUSED", "READY", "RUNNING", "BLOCKED", "TERMINATED"}]
      /\ registry \in Seq(Task)
  BY DEF Inv, TypeOK
<1>1. CASE RtosStart
  BY <1>1, QuietOnTime DEF RtosStart
<1>2. CASE SVC_Handler \/ PendSV_Handler
  <2>1. scheduler_get_next /\ UNCHANGED <<prio_bucket, wake_time, registry, tick, isr>>
    BY <1>2, Zenon DEF SVC_Handler, PendSV_Handler
  <2>2. \A t \in Task : state'[t] = "BLOCKED" => state[t] = "BLOCKED"
    BY <2>1, GetNext
  <2> QED BY <2>1, <2>2, QuietOnTime, Zenon
<1>3. ASSUME NEW t \in User, NEW p \in Priority, TaskCreate(t, p) PROVE OnTime'
  <2>1. /\ t \in Task /\ phase = "boot" /\ registry' = Append(registry, t)
        /\ state' = [state EXCEPT ![t] = "READY"] /\ UNCHANGED <<wake_time, tick, isr>>
    BY <1>3, Zenon DEF TaskCreate, User
  <2>2. \A u \in Task : state'[u] = "BLOCKED" => state[u] = "BLOCKED"
    BY ONLY <1>0, <2>1
  <2>3. isr \in Nat /\ Len(registry) \in Nat
    BY <1>0, LenOfSeq DEF Inv, TypeOK
  <2>4. Len(registry') = Len(registry) + 1 /\ \A j \in 1 .. Len(registry) : registry'[j] = registry[j]
    BY <1>0, <2>1, AppendSeq
  <2>5. \A u \in Task : Ahead(u) => Ahead(u)'
    BY <2>1, <2>3, <2>4 DEF Ahead
  <2>6. \A u \in Task : Sleeping(u)' => Sleeping(u)
    BY <2>1, <2>2 DEF Sleeping
  <2> QED BY <2>1, <2>5, <2>6, Zenon DEF OnTime
<1>4. CASE WakeSkip
  BY <1>4, ScanOnTime DEF WakeSkip
<1>5. CASE WakeDelay
  <2>1. /\ isr \in 1 .. Len(registry) /\ isr' = isr + 1
        /\ state' = [state EXCEPT ![Scanned] = "READY"]
        /\ UNCHANGED <<wake_time, registry, tick>>
    BY <1>5, Zenon DEF WakeDelay
  <2>2. Scanned \in Task
    BY <1>0, <2>1, EntryOfSeq DEF Scanned
  <2>3. /\ state'[Scanned] # "BLOCKED"
        /\ \A t \in Task : state'[t] = "BLOCKED" => state[t] = "BLOCKED"
    BY ONLY <1>0, <2>1, <2>2
  <2> QED BY <2>1, <2>3, ScanOnTime, Zenon
<1>6. CASE SysTickReturn
  <2>1. isr = Len(registry) + 1 /\ isr' = 0 /\ UNCHANGED <<state, wake_time, registry, tick>>
    BY <1>6, Zenon DEF SysTickReturn
  <2>2. \A t \in Task : ~Ahead(t)
    BY <1>0, <2>1, LenOfSeq DEF Ahead
  <2> QED BY <2>1, <2>2, Zenon DEF OnTime, Sleeping
<1>7. ASSUME NEW c \in User, TaskStep(c) PROVE OnTime'
  <2>1. CASE TaskYield(c) \/ BlockStore(c) \/ BlockMark(c) \/ DelayReturn(c)
             \/ \E n \in Ticks : TaskDelay(c, n)
    <3>1. UNCHANGED <<state, wake_time, registry, tick, isr>>
      BY <2>1, Zenon DEF TaskYield, BlockStore, BlockMark, DelayReturn, TaskDelay
    <3> QED BY <3>1, QuietOnTime, Zenon
  <2>2. CASE BlockCommit(c)
    BY <2>2, CommitOnTime
  <2>3. ASSUME NEW t \in User, TaskDelete(c, t) PROVE OnTime'
    <3>1. /\ isr = 0 /\ state' = [state EXCEPT ![t] = "TERMINATED"]
          /\ UNCHANGED <<wake_time, tick, isr>>
      BY <2>3, Zenon DEF TaskDelete, InApp, Executing
    <3>2. \A u \in Task : state'[u] = "BLOCKED" => state[u] = "BLOCKED"
      BY ONLY <1>0, <3>1
    <3> QED BY <3>1, <3>2, QuietOnTime, Zenon
  <2> QED BY <1>7, <2>1, <2>2, <2>3, Zenon DEF TaskStep, Block
<1>8. CASE UNCHANGED vars
  BY <1>8, QuietOnTime DEF vars
<1> QED
  BY <1>1, <1>2, <1>3, <1>4, <1>5, <1>6, <1>7, <1>8, TickOnTime, Zenon DEF Boot, SysTick_Handler

LEMMA OnTimeSuffices == OnTime => NoOverdueSleeper
BY DEF OnTime, Sleeping, Ahead, NoOverdueSleeper
=============================================================================
