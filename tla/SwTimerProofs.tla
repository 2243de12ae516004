----------------------------- MODULE SwTimerProofs -----------------------------
(***************************************************************************)
(* Where timers are started and stopped in main() and in callbacks only,   *)
(* and the tick counter does not wrap, timer_list stays exact and sorted,  *)
(* every timer fires on time and sw_timer_stop takes effect: for any       *)
(* number of timers and any delays.                                        *)
(***************************************************************************)
EXTENDS SwTimer, TLAPS

Orderly == Calls \subseteq {"boot", "callback"}
NoWrap == \A d \in Delay : MaxTick + d < TickMod

-----------------------------------------------------------------------------
(* Linked lists *)

\* R holds what a walk along n meets once it has met a member of R.
Onward(n, R) == \A t \in R \ {NULL} : n[t] \in R

\* The walk from h along n meets the members of S, each from one place, and ends.
Chain(h, n, S) ==
  /\ h \in S \cup {NULL} /\ Onward(n, S \cup {NULL})
  /\ \A t \in S : n[t] # h
  /\ \A s, t \in S : n[s] = n[t] => s = t
  /\ \A R \in SUBSET (S \cup {NULL}) : h \in R /\ Onward(n, R) => S \cup {NULL} \subseteq R

Sorted(n, e, S) == \A t \in S : n[t] # NULL => e[t] <= e[n[t]]

-----------------------------------------------------------------------------
(* The inductive invariant *)

\* The timers a list operation has not linked yet, or has unlinked already.
Away(t) == \/ t = due
           \/ \E c \in Context : t = op[c].t /\ op[c].kind \in {"insert", "attach", "clear"}

Linked == {t \in Timer : active[t] /\ ~Away(t)}

\* One list operation at a time: main() is done when SysTick is on, callbacks run in it.
OneAtATime ==
  /\ on => op["task"] = NoOp
  /\ isr = "none" => op["isr"] = NoOp
  /\ isr # "none" => on

\* The local variables of a list operation.
OpOK(c) ==
  LET o == op[c] IN
  /\ IF o.kind = "none" THEN o = NoOp ELSE o.t \in Timer /\ o.t # due
  /\ o.kind \in {"insert", "attach", "clear"} => active[o.t]
  /\ o.kind \in {"insert", "attach", "stop"} =>
       IF o.prev = NULL THEN o.curr = timer_list ELSE o.prev \in Linked /\ next[o.prev] = o.curr
  /\ o.kind \in {"insert", "attach"} /\ o.prev # NULL => expiry_tick[o.prev] <= expiry_tick[o.t]
  /\ o.kind = "attach" =>
       next[o.t] = o.curr /\ (o.curr # NULL => expiry_tick[o.t] <= expiry_tick[o.curr])
  /\ o.kind = "stop" =>
       \A R \in SUBSET (Linked \cup {NULL}) :
         o.curr \in R /\ Onward(next, R) /\ o.t \in Linked => o.t \in R

\* An armed timer expires when its time is over, and none is overdue outside SysTick.
OnTime ==
  /\ \A t \in Timer : active[t] /\ t # due => expiry_tick[t] = tick + left[t]
  /\ due # NULL => active[due] /\ left[due] = 0
  /\ isr = "none" => \A t \in Timer : active[t] => left[t] > 0

TInv ==
  /\ TypeOK /\ left \in [Timer -> Nat] /\ tick <= MaxTick
  /\ OneAtATime /\ (\A c \in Context : OpOK(c))
  /\ Chain(timer_list, next, Linked) /\ Sorted(next, expiry_tick, Linked)
  /\ OnTime

-----------------------------------------------------------------------------
(* Lemmas on lists *)

\* Only the links of the members count.
LEMMA ChainKept ==
  ASSUME NEW h, NEW n, NEW m, NEW S, Chain(h, n, S), \A t \in S : m[t] = n[t], NULL \notin S
  PROVE  Chain(h, m, S)
<1>1. \A R \in SUBSET (S \cup {NULL}) : Onward(m, R) <=> Onward(n, R)
  BY DEF Onward
<1>2. Onward(m, S \cup {NULL}) /\ \A t \in S : m[t] # h
  BY <1>1 DEF Chain
<1>3. \A s, t \in S : m[s] = m[t] => s = t
  BY DEF Chain
<1> QED BY <1>1, <1>2, <1>3 DEF Chain

\* No member of a list is its own successor.
LEMMA ChainNoLoop ==
  ASSUME NEW h, NEW n, NEW S, Chain(h, n, S), NULL \notin S, NEW t \in S
  PROVE  n[t] # t
<1> SUFFICES ASSUME n[t] = t PROVE FALSE
  OBVIOUS
<1> DEFINE R == (S \cup {NULL}) \ {t}
<1>1. h \in R /\ R \in SUBSET (S \cup {NULL})
  BY DEF Chain
<1>2. Onward(n, R)
  BY DEF Chain, Onward
<1>3. S \cup {NULL} \subseteq R
  BY <1>1, <1>2, Zenon DEF Chain
<1> QED BY <1>3

\* x is put before the first member.
LEMMA ChainHead ==
  ASSUME NEW h, NEW n, NEW S, Chain(h, n, S), NULL \notin S, NEW x, x \notin S, x # NULL, n[x] = h
  PROVE  Chain(x, n, S \cup {x})
<1>1. x \in (S \cup {x}) \cup {NULL} /\ Onward(n, (S \cup {x}) \cup {NULL})
  BY DEF Chain, Onward
<1>2. \A t \in S \cup {x} : n[t] # x
  BY DEF Chain, Onward
<1>3. \A s, t \in S \cup {x} : n[s] = n[t] => s = t
  BY DEF Chain
<1>4. ASSUME NEW R \in SUBSET ((S \cup {x}) \cup {NULL}), x \in R, Onward(n, R)
      PROVE  (S \cup {x}) \cup {NULL} \subseteq R
  <2> DEFINE Q == R \ {x}
  <2>1. Q \in SUBSET (S \cup {NULL})
    OBVIOUS
  <2>2. h \in Q
    BY <1>4 DEF Onward, Chain
  <2>3. Onward(n, Q)
    BY <1>4 DEF Onward, Chain
  <2>4. S \cup {NULL} \subseteq Q
    BY <2>1, <2>2, <2>3, Zenon DEF Chain
  <2> QED BY <1>4, <2>4
<1> QED BY <1>1, <1>2, <1>3, <1>4, Zenon DEF Chain

\* x is put after the member p.
LEMMA ChainInsert ==
  ASSUME NEW h, NEW n, NEW m, NEW S, Chain(h, n, S), NULL \notin S,
         NEW x, x \notin S, x # NULL, NEW p \in S,
         m[p] = x, m[x] = n[p], \A t \in S \ {p} : m[t] = n[t]
  PROVE  Chain(h, m, S \cup {x})
<1>1. h \in (S \cup {x}) \cup {NULL} /\ Onward(m, (S \cup {x}) \cup {NULL})
  BY DEF Chain, Onward
<1>2. \A t \in S \cup {x} : m[t] # h
  BY DEF Chain, Onward
<1>3. \A s, t \in S \cup {x} : m[s] = m[t] => s = t
  <2>1. \A t \in S : n[t] # x
    BY DEF Chain, Onward
  <2>2. \A t \in S \ {p} : m[t] # x /\ m[t] # n[p]
    BY <2>1 DEF Chain
  <2>3. n[p] # x
    BY <2>1
  <2> QED BY <2>2, <2>3 DEF Chain
<1>4. ASSUME NEW R \in SUBSET ((S \cup {x}) \cup {NULL}), h \in R, Onward(m, R)
      PROVE  (S \cup {x}) \cup {NULL} \subseteq R
  <2> DEFINE Q == R \ {x}
  <2>1. Q \in SUBSET (S \cup {NULL}) /\ h \in Q
    BY <1>4 DEF Chain
  <2>2. Onward(n, Q)
    <3>1. SUFFICES ASSUME NEW t \in Q \ {NULL} PROVE n[t] \in R /\ n[t] # x
      BY DEF Onward
    <3>2. t \in S /\ n[t] # x
      BY <2>1 DEF Chain, Onward
    <3>3. m[t] \in R
      BY <1>4 DEF Onward
    <3>4. CASE t = p
      BY <1>4, <3>2, <3>3, <3>4 DEF Onward
    <3> QED BY <3>2, <3>3, <3>4
  <2>3. S \cup {NULL} \subseteq Q
    BY <2>1, <2>2, Zenon DEF Chain
  <2>4. p \in R /\ p # NULL
    BY <2>3
  <2>5. x \in R
    BY <1>4, <2>4 DEF Onward
  <2> QED BY <2>3, <2>5
<1> QED BY <1>1, <1>2, <1>3, <1>4, Zenon DEF Chain

\* The first member is taken off.
LEMMA ChainPop ==
  ASSUME NEW h, NEW n, NEW S, Chain(h, n, S), NULL \notin S, h \in S
  PROVE  Chain(n[h], n, S \ {h})
<1>1. n[h] \in (S \ {h}) \cup {NULL} /\ Onward(n, (S \ {h}) \cup {NULL})
  BY DEF Chain, Onward
<1>2. \A t \in S \ {h} : n[t] # n[h]
  BY DEF Chain
<1>3. \A s, t \in S \ {h} : n[s] = n[t] => s = t
  BY DEF Chain
<1>4. ASSUME NEW R \in SUBSET ((S \ {h}) \cup {NULL}), n[h] \in R, Onward(n, R)
      PROVE  (S \ {h}) \cup {NULL} \subseteq R
  <2> DEFINE Q == R \cup {h}
  <2>1. Q \in SUBSET (S \cup {NULL}) /\ h \in Q /\ Onward(n, Q)
    BY <1>4 DEF Onward
  <2>2. S \cup {NULL} \subseteq Q
    BY <2>1, Zenon DEF Chain
  <2> QED BY <2>2
<1> QED BY <1>1, <1>2, <1>3, <1>4, Zenon DEF Chain

\* The successor x of the member p is taken off.
LEMMA ChainRemove ==
  ASSUME NEW h, NEW n, NEW m, NEW S, Chain(h, n, S), NULL \notin S, NEW x \in S, NEW p \in S,
         n[p] = x, m[p] = n[x], \A t \in S \ {p} : m[t] = n[t]
  PROVE  Chain(h, m, S \ {x})
<1>0. x # p /\ n[x] # x /\ h # x
  BY ChainNoLoop DEF Chain
<1>1. h \in (S \ {x}) \cup {NULL} /\ Onward(m, (S \ {x}) \cup {NULL})
  BY <1>0 DEF Chain, Onward
<1>2. \A t \in S \ {x} : m[t] # h
  BY <1>0 DEF Chain
<1>3. \A s, t \in S \ {x} : m[s] = m[t] => s = t
  BY <1>0 DEF Chain
<1>4. ASSUME NEW R \in SUBSET ((S \ {x}) \cup {NULL}), h \in R, Onward(m, R)
      PROVE  (S \ {x}) \cup {NULL} \subseteq R
  <2>1. R \in SUBSET (S \cup {NULL})
    OBVIOUS
  <2>2. p \in R
    <3>1. SUFFICES ASSUME p \notin R PROVE FALSE
      OBVIOUS
    <3>2. Onward(n, R)
      BY <1>4, <3>1 DEF Onward
    <3> QED BY <1>4, <2>1, <3>1, <3>2 DEF Chain
  <2> DEFINE Q == R \cup {x}
  <2>3. Q \in SUBSET (S \cup {NULL}) /\ h \in Q
    BY <1>4
  <2>4. Onward(n, Q)
    <3>1. m[p] \in R
      BY <1>4, <2>2 DEF Onward
    <3> QED BY <1>4, <3>1 DEF Onward
  <2>5. S \cup {NULL} \subseteq Q
    BY <2>3, <2>4, Zenon DEF Chain
  <2> QED BY <2>5
<1> QED BY <1>1, <1>2, <1>3, <1>4, Zenon DEF Chain

\* Where the first member is later than k, all are.
LEMMA ChainLater ==
  ASSUME NEW h, NEW n, NEW S, Chain(h, n, S), NULL \notin S, NEW e, Sorted(n, e, S),
         \A t \in S : e[t] \in Int, NEW k \in Int, h # NULL => e[h] > k
  PROVE  \A t \in S : e[t] > k
<1> DEFINE R == {t \in S : e[t] > k} \cup {NULL}
<1>1. R \in SUBSET (S \cup {NULL}) /\ h \in R
  BY DEF Chain
<1>2. Onward(n, R)
  <2>1. SUFFICES ASSUME NEW t \in S, e[t] > k PROVE n[t] \in R
    BY DEF Onward
  <2>2. n[t] \in S \cup {NULL}
    BY DEF Chain, Onward
  <2>3. CASE n[t] \in S
    BY <2>1, <2>3 DEF Sorted
  <2> QED BY <2>2, <2>3
<1>3. S \cup {NULL} \subseteq R
  BY <1>1, <1>2, Zenon DEF Chain
<1> QED BY <1>3

-----------------------------------------------------------------------------
(* Steps of list operations *)

Ops == [kind : {"none", "insert", "attach", "stop", "clear"},
        t : Timer \cup {NULL}, prev : Timer \cup {NULL}, curr : Timer \cup {NULL}]

Unlinking == {"insert", "attach", "clear"}

\* The context c calls, or its list operation goes on.
Acts(c) == MayCall(c) \/ (MayStep(c) /\ op[c].kind # "none")

LEMMA Contexts == "task" \in Context /\ "isr" \in Context /\ \A c \in Context : c = "task" \/ c = "isr"
BY DEF Context

LEMMA NullNoTimer == NULL \notin Timer /\ NULL \notin Linked /\ Linked \subseteq Timer
BY CallsAssumption DEF Linked

LEMMA NoOpFacts ==
  /\ NoOp \in Ops /\ NoOp.kind = "none"
  /\ \A k \in {"insert", "stop"}, t \in Timer : timer_list \in Timer \cup {NULL} =>
       /\ Begin(k, t) \in Ops /\ Begin(k, t).kind = k /\ Begin(k, t).t = t
       /\ Begin(k, t).prev = NULL /\ Begin(k, t).curr = timer_list
BY DEF NoOp, Ops, Begin

LEMMA OpTypes ==
  ASSUME TInv
  PROVE  /\ op \in [Context -> Ops]
         /\ \A c \in Context : /\ op[c] \in Ops /\ op[c].kind # "none" => op[c].t \in Timer
                               /\ op[c].kind = "none" <=> op[c] = NoOp
<1>1. op \in [Context -> Ops]
  BY DEF TInv, TypeOK, Ops
<1>2. ASSUME NEW c \in Context
      PROVE  /\ op[c] \in Ops /\ op[c].kind # "none" => op[c].t \in Timer
             /\ op[c].kind = "none" <=> op[c] = NoOp
  <2>1. OpOK(c)
    BY DEF TInv
  <2> QED BY <1>1, <2>1, NoOpFacts DEF OpOK
<1> QED BY <1>1, <1>2

\* While c acts, the other context does nothing.
LEMMA ActsAlone ==
  ASSUME TInv, Orderly, NEW c \in Context, Acts(c)
  PROVE  /\ \A d \in Context \ {c} : op[d] = NoOp
         /\ c = "task" => isr = "none" /\ ~on
         /\ c = "isr" => isr # "none"
<1>1. CASE c = "task"
  <2>1. isr = "none" /\ ~on
    <3>1. CASE MayCall(c)
      BY <1>1, <3>1 DEF MayCall, Orderly
    <3>2. CASE MayStep(c) /\ op[c].kind # "none"
      BY <1>1, <3>2, NoOpFacts DEF MayStep, TInv, OneAtATime
    <3> QED BY <3>1, <3>2 DEF Acts
  <2> QED BY <1>1, <2>1, Contexts DEF TInv, OneAtATime
<1>2. CASE c = "isr"
  <2>1. isr # "none"
    BY <1>2 DEF Acts, MayCall, MayStep
  <2> QED BY <1>2, <2>1, Contexts DEF TInv, OneAtATime
<1> QED BY <1>1, <1>2, Contexts

LEMMA AwayStep ==
  ASSUME TInv, Orderly, NEW c \in Context, Acts(c), \A d \in Context \ {c} : op'[d] = op[d]
  PROVE  /\ \A t \in Timer : Away(t) <=> t = due \/ (t = op[c].t /\ op[c].kind \in Unlinking)
         /\ \A t \in Timer : Away(t)' <=> t = due' \/ (t = op'[c].t /\ op'[c].kind \in Unlinking)
<1>1. \A d \in Context \ {c} : op[d].kind \notin Unlinking /\ op'[d].kind \notin Unlinking
  BY ActsAlone, NoOpFacts DEF Unlinking
<1> QED BY <1>1 DEF Away, Unlinking

\* The fields of the timers that are not links.
TimersOK ==
  /\ expiry_tick \in [Timer -> 0 .. TickMod - 1] /\ period_ticks \in [Timer -> Delay \cup {0}]
  /\ active \in [Timer -> BOOLEAN] /\ left \in [Timer -> Nat]
  /\ \A t \in Timer : \E d \in Delay : left[t] \in 0 .. d
  /\ OnTime

LEMMA TimersKept ==
  ASSUME TInv, UNCHANGED timerVars, UNCHANGED <<tick, isr, due>>
  PROVE  TimersOK'
<1>1. OnTime'
  BY DEF TInv, OnTime, timerVars
<1>2. (\A t \in Timer : \E d \in Delay : left[t] \in 0 .. d)'
  BY DEF TInv, TypeOK, timerVars
<1> QED BY <1>1, <1>2 DEF TInv, TypeOK, TimersOK, timerVars

\* What has to be shown of a step of a list operation.
LEMMA ActsStep ==
  ASSUME TInv, Orderly, NEW c \in Context, Acts(c), \A d \in Context \ {c} : op'[d] = op[d],
         op' \in [Context -> Ops], UNCHANGED <<tick, on, isr, due>>, OpOK(c)', TimersOK',
         timer_list' \in Timer \cup {NULL}, next' \in [Timer -> Timer \cup {NULL}],
         Chain(timer_list', next', Linked'), Sorted(next', expiry_tick', Linked')
  PROVE  TInv'
<1>1. TypeOK' /\ left' \in [Timer -> Nat] /\ tick' <= MaxTick /\ OnTime'
  <2>1. (\A t \in Timer : \E d \in Delay : left[t] \in 0 .. d)'
    BY DEF TimersOK
  <2> QED BY <2>1 DEF TInv, TypeOK, Ops, TimersOK
<1>2. OneAtATime'
  BY ActsAlone, Contexts DEF TInv, OneAtATime
<1>3. \A d \in Context : OpOK(d)'
  <2>1. SUFFICES ASSUME NEW d \in Context \ {c} PROVE OpOK(d)'
    OBVIOUS
  <2>2. op'[d] = NoOp
    BY ActsAlone
  <2> QED BY <2>2, NoOpFacts DEF OpOK
<1> QED BY <1>1, <1>2, <1>3 DEF TInv

\* A walk of the list is at a member, or at its end.
LEMMA WalkAt ==
  ASSUME TInv, NEW c \in Context, op[c].kind \in {"insert", "attach", "stop"}
  PROVE  op[c].curr \in Linked \cup {NULL}
<1>1. OpOK(c) /\ Chain(timer_list, next, Linked)
  BY DEF TInv
<1>2. timer_list \in Linked \cup {NULL} /\ \A t \in Linked : next[t] \in Linked \cup {NULL}
  BY <1>1, NullNoTimer DEF Chain, Onward
<1> QED BY <1>1, <1>2 DEF OpOK

\* A sum below the modulus does not wrap.
LEMMA NoWrapSum ==
  ASSUME NEW m \in Nat \ {0}, NEW a \in 0 .. m - 1
  PROVE  a % m = a
BY Z3

LEMMA Armed ==
  ASSUME TInv, NoWrap, NEW d \in Delay
  PROVE  (tick + d) % TickMod = tick + d /\ tick + d \in 0 .. TickMod - 1 /\ d \in Nat /\ d > 0
<1>1. tick + d \in 0 .. TickMod - 1 /\ TickMod \in Nat \ {0} /\ d \in Nat /\ d > 0
  BY CallsAssumption DEF TInv, TypeOK, NoWrap
<1> QED BY <1>1, NoWrapSum, Zenon

\* sw_timer_start_once, sw_timer_start_periodic, up to the call of _insert_sorted.
LEMMA StartTimerT ==
  ASSUME TInv, Orderly, NoWrap, NEW c \in Context, NEW t \in Timer, NEW d \in Delay,
         NEW p \in {0, d}, StartTimer(c, t, d, p)
  PROVE  TInv'
<1>0. /\ Acts(c) /\ op' = [op EXCEPT ![c] = Begin("insert", t)]
      /\ op \in [Context -> Ops] /\ timer_list \in Timer \cup {NULL}
      /\ UNCHANGED <<timer_list, tick, on, isr, due>> /\ op[c].kind = "none"
  BY OpTypes, NoOpFacts DEF StartTimer, Acts, MayCall, TInv, TypeOK
<1>1. /\ op'[c] = Begin("insert", t) /\ op' \in [Context -> Ops]
      /\ \A x \in Context \ {c} : op'[x] = op[x]
      /\ op'[c].kind = "insert" /\ op'[c].t = t /\ op'[c].prev = NULL /\ op'[c].curr = timer_list
  BY <1>0, NoOpFacts
<1>2. ~active[t] /\ t # due
  <2>1. ~active[t]
    BY DEF StartTimer, Startable, Orderly
  <2> QED BY <2>1, NullNoTimer DEF TInv, OnTime
<1>3. /\ active' = [active EXCEPT ![t] = TRUE] /\ left' = [left EXCEPT ![t] = d]
      /\ expiry_tick' = [expiry_tick EXCEPT ![t] = tick + d]
      /\ period_ticks' = [period_ticks EXCEPT ![t] = p] /\ next' = [next EXCEPT ![t] = NULL]
  BY Armed, Zenon DEF StartTimer
<1>4. Linked' = Linked /\ t \notin Linked
  <2>1. \A x \in Timer : (active'[x] /\ ~Away(x)') <=> (active[x] /\ ~Away(x))
    BY <1>0, <1>1, <1>2, <1>3, AwayStep DEF TInv, TypeOK, Unlinking
  <2> QED BY <1>2, <2>1 DEF Linked
<1>5. Chain(timer_list', next', Linked')
  <2>1. \A x \in Linked : next'[x] = next[x]
    BY <1>3, <1>4 DEF TInv, TypeOK
  <2> QED BY <1>0, <1>4, <2>1, ChainKept, NullNoTimer, Zenon DEF TInv
<1>6. Sorted(next', expiry_tick', Linked')
  <2>1. \A x \in Linked : next'[x] = next[x] /\ next[x] # t /\ next[x] \in Linked \cup {NULL}
    BY <1>3, <1>4, NullNoTimer DEF TInv, TypeOK, Chain, Onward
  <2>2. \A x \in Linked : expiry_tick'[x] = expiry_tick[x]
    BY <1>3, <1>4 DEF TInv, TypeOK
  <2> QED BY <1>4, <2>1, <2>2 DEF TInv, Sorted
<1>7. TimersOK'
  <2>1. OnTime'
    BY <1>0, <1>2, <1>3, Armed DEF TInv, OnTime, TypeOK
  <2>2. (\A x \in Timer : \E y \in Delay : left[x] \in 0 .. y)'
    <3>1. SUFFICES ASSUME NEW x \in Timer PROVE \E y \in Delay : left'[x] \in 0 .. y
      OBVIOUS
    <3>2. CASE x = t
      BY <1>3, <3>2, Armed DEF TInv
    <3>3. CASE x # t
      BY <1>3, <3>3 DEF TInv, TypeOK
    <3> QED BY <3>2, <3>3
  <2>3. expiry_tick' \in [Timer -> 0 .. TickMod - 1] /\ left' \in [Timer -> Nat]
    BY <1>3, Armed DEF TInv, TypeOK
  <2>4. period_ticks' \in [Timer -> Delay \cup {0}] /\ active' \in [Timer -> BOOLEAN]
    BY <1>3 DEF TInv, TypeOK
  <2> QED BY <2>1, <2>2, <2>3, <2>4 DEF TimersOK
<1>8. next' \in [Timer -> Timer \cup {NULL}]
  BY <1>3 DEF TInv, TypeOK
<1>9. OpOK(c)'
  <2>1. active'[t] /\ timer_list' = timer_list /\ due' = due
    BY <1>0, <1>3, Zenon DEF TInv, TypeOK
  <2> QED BY ONLY <1>1, <1>2, <2>1, t \in Timer DEF OpOK
<1> QED BY <1>0, <1>1, <1>5, <1>6, <1>7, <1>8, <1>9, ActsStep

\* _insert_sorted looks for the place.
LEMMA InsertWalkT ==
  ASSUME TInv, Orderly, NEW c \in Context, InsertWalk(c)
  PROVE  TInv'
<1> DEFINE o == op[c]
           q == op'[c]
<1>0. /\ Acts(c) /\ o.kind = "insert" /\ o \in Ops /\ OpOK(c) /\ op \in [Context -> Ops]
      /\ o.curr # NULL /\ expiry_tick[o.curr] <= expiry_tick[o.t] /\ o.curr \in Linked
      /\ UNCHANGED <<timer_list, next, timerVars, tick, on, isr, due>>
      /\ UNCHANGED <<expiry_tick, active>>
  BY OpTypes, WalkAt DEF InsertWalk, Acts, Goes, TInv, timerVars
<1>1. next[o.curr] \in Timer \cup {NULL} /\ o.curr \in Timer
  BY <1>0, NullNoTimer DEF TInv, TypeOK
<1>2. /\ q.kind = "insert" /\ q.t = o.t /\ q.prev = o.curr /\ q.curr = next[o.curr]
      /\ op' \in [Context -> Ops] /\ \A d \in Context \ {c} : op'[d] = op[d]
  BY <1>0, <1>1, Zenon DEF InsertWalk, Ops
<1>3. Linked' = Linked
  BY <1>0, <1>2, AwayStep DEF Linked, Unlinking
<1>4. OpOK(c)'
  BY <1>0, <1>2, <1>3 DEF OpOK
<1>5. TimersOK'
  BY <1>0, TimersKept
<1> QED BY <1>0, <1>2, <1>3, <1>4, <1>5, ActsStep DEF TInv, TypeOK

\* _insert_sorted has found the place and stores t->next.
LEMMA InsertLinkT ==
  ASSUME TInv, Orderly, NEW c \in Context, InsertLink(c)
  PROVE  TInv'
<1> DEFINE o == op[c]
           q == op'[c]
<1>0. /\ Acts(c) /\ o.kind = "insert" /\ o \in Ops /\ OpOK(c) /\ op \in [Context -> Ops]
      /\ o.t \in Timer /\ o.curr \in Linked \cup {NULL}
      /\ UNCHANGED <<timer_list, timerVars, tick, on, isr, due>>
      /\ UNCHANGED <<expiry_tick, active>>
  BY OpTypes, WalkAt DEF InsertLink, Acts, TInv, timerVars
<1>1. /\ q.kind = "attach" /\ q.t = o.t /\ q.prev = o.prev /\ q.curr = o.curr
      /\ op' \in [Context -> Ops] /\ \A d \in Context \ {c} : op'[d] = op[d]
  BY <1>0 DEF InsertLink, Ops
<1>2. next' = [next EXCEPT ![o.t] = o.curr]
  BY <1>0, Zenon DEF InsertLink, OpOK
<1>3. Linked' = Linked /\ o.t \notin Linked
  BY <1>0, <1>1, AwayStep DEF Linked, Unlinking
<1>4. o.curr # NULL => expiry_tick[o.t] <= expiry_tick[o.curr]
  <2>1. o.curr # NULL => expiry_tick[o.t] \in Int /\ expiry_tick[o.curr] \in Int
    BY <1>0, NullNoTimer DEF TInv, TypeOK
  <2> QED BY <2>1 DEF InsertLink, Goes
<1>5. \A x \in Linked : next'[x] = next[x]
  BY <1>2, <1>3 DEF TInv, TypeOK
<1>6. next' \in [Timer -> Timer \cup {NULL}] /\ next'[o.t] = o.curr
  BY <1>0, <1>2, NullNoTimer DEF TInv, TypeOK
<1>7. OpOK(c)'
  BY <1>0, <1>1, <1>3, <1>4, <1>5, <1>6 DEF OpOK
<1>8. Chain(timer_list', next', Linked') /\ Sorted(next', expiry_tick', Linked')
  <2>1. Chain(timer_list', next', Linked')
    BY <1>0, <1>3, <1>5, ChainKept, NullNoTimer, Zenon DEF TInv
  <2>2. Sorted(next', expiry_tick', Linked')
    BY <1>0, <1>3, <1>5 DEF TInv, Sorted
  <2> QED BY <2>1, <2>2
<1>9. TimersOK'
  BY <1>0, TimersKept
<1> QED BY <1>0, <1>1, <1>6, <1>7, <1>8, <1>9, ActsStep DEF TInv, TypeOK

\* _insert_sorted makes the timer a member of the list.
LEMMA InsertAttachT ==
  ASSUME TInv, Orderly, NEW c \in Context, InsertAttach(c)
  PROVE  TInv'
<1> DEFINE o == op[c]
<1>0. /\ Acts(c) /\ o.kind = "attach" /\ o \in Ops /\ OpOK(c) /\ op \in [Context -> Ops]
      /\ o.t \in Timer /\ o.t # due /\ active[o.t] /\ o.curr \in Linked \cup {NULL}
      /\ next[o.t] = o.curr /\ (o.curr # NULL => expiry_tick[o.t] <= expiry_tick[o.curr])
      /\ UNCHANGED <<timerVars, tick, on, isr, due>> /\ UNCHANGED <<expiry_tick, active>>
      /\ Chain(timer_list, next, Linked) /\ Sorted(next, expiry_tick, Linked)
      /\ next \in [Timer -> Timer \cup {NULL}]
  BY OpTypes, WalkAt, Zenon DEF InsertAttach, Acts, TInv, TypeOK, timerVars, OpOK
<1>1. /\ op'[c] = NoOp /\ op'[c].kind = "none"
      /\ op' \in [Context -> Ops] /\ \A d \in Context \ {c} : op'[d] = op[d]
  <2>1. op' = [op EXCEPT ![c] = NoOp] /\ op \in [Context -> Ops]
    BY <1>0, Zenon DEF InsertAttach
  <2>2. NoOp \in Ops /\ NoOp.kind = "none" /\ c \in Context
    BY NoOpFacts
  <2> QED BY ONLY <2>1, <2>2
<1>2. Linked' = Linked \cup {o.t} /\ o.t \notin Linked /\ o.t # NULL
  <2>1. \A x \in Timer : (active'[x] /\ ~Away(x)') <=> (active[x] /\ ~Away(x)) \/ x = o.t
    BY <1>0, <1>1, AwayStep DEF Unlinking
  <2>2. Away(o.t)
    BY <1>0, <1>1, AwayStep DEF Unlinking
  <2> QED BY <1>0, <2>1, <2>2, NullNoTimer DEF Linked
<1>3. OpOK(c)'
  BY <1>1 DEF OpOK
<1>4. TimersOK'
  BY <1>0, TimersKept
<1>5. CASE o.prev = NULL
  <2>1. timer_list' = o.t /\ next' = next /\ o.curr = timer_list
    BY <1>0, <1>5 DEF InsertAttach, OpOK
  <2>2. Chain(timer_list', next', Linked')
    BY <1>0, <1>2, <2>1, ChainHead, NullNoTimer
  <2>3. Sorted(next', expiry_tick', Linked')
    BY <1>0, <1>2, <2>1, SMTT(20) DEF Sorted
  <2> QED BY <1>0, <1>1, <1>3, <1>4, <2>1, <2>2, <2>3, ActsStep
<1>6. CASE o.prev # NULL
  <2>1. /\ timer_list' = timer_list /\ next' = [next EXCEPT ![o.prev] = o.t] /\ o.prev \in Linked
        /\ next[o.prev] = o.curr /\ expiry_tick[o.prev] <= expiry_tick[o.t]
    BY <1>0, <1>6 DEF InsertAttach, OpOK
  <2>2. /\ next'[o.prev] = o.t /\ next'[o.t] = next[o.prev]
        /\ \A x \in Linked \ {o.prev} : next'[x] = next[x]
        /\ next' \in [Timer -> Timer \cup {NULL}]
    BY <1>0, <1>2, <2>1, NullNoTimer, Zenon
  <2>3. Chain(timer_list', next', Linked')
    <3>1. /\ Chain(timer_list, next, Linked) /\ NULL \notin Linked /\ o.t \notin Linked
          /\ o.t # NULL /\ o.prev \in Linked /\ next'[o.prev] = o.t /\ next'[o.t] = next[o.prev]
          /\ \A x \in Linked \ {o.prev} : next'[x] = next[x]
      BY <1>0, <1>2, <2>1, <2>2, NullNoTimer
    <3>2. Chain(timer_list, next', Linked \cup {o.t})
      BY ONLY <3>1, ChainInsert
    <3> QED BY <1>2, <2>1, <3>2, SMTT(20)
  <2>4. Sorted(next', expiry_tick', Linked')
    <3>1. SUFFICES ASSUME NEW x \in Linked', next'[x] # NULL
                   PROVE  expiry_tick'[x] <= expiry_tick'[next'[x]]
      BY DEF Sorted
    <3>2. expiry_tick' = expiry_tick /\ x \in Linked \cup {o.t}
      BY <1>0, <1>2
    <3>3. CASE x = o.t
      BY <1>0, <2>1, <2>2, <3>1, <3>2, <3>3, Zenon
    <3>4. CASE x = o.prev
      BY <2>1, <2>2, <3>2, <3>4, Zenon
    <3>5. CASE x # o.t /\ x # o.prev
      BY <1>0, <2>2, <3>1, <3>2, <3>5, Zenon DEF Sorted
    <3> QED BY <3>3, <3>4, <3>5, Zenon
  <2>5. timer_list \in Timer \cup {NULL}
    BY DEF TInv, TypeOK
  <2> QED BY <1>0, <1>1, <1>3, <1>4, <2>1, <2>2, <2>3, <2>4, <2>5, ActsStep, Zenon
<1> QED BY <1>5, <1>6, SMTT(20)

-----------------------------------------------------------------------------
(* sw_timer_stop *)

LEMMA StopTimerT ==
  ASSUME TInv, Orderly, NEW c \in Context, NEW t \in Timer, StopTimer(c, t)
  PROVE  TInv'
<1>0. /\ Acts(c) /\ op' = [op EXCEPT ![c] = Begin("stop", t)] /\ t # due
      /\ op \in [Context -> Ops] /\ timer_list \in Timer \cup {NULL} /\ op[c].kind = "none"
      /\ UNCHANGED <<timer_list, next, timerVars, tick, on, isr, due>>
      /\ UNCHANGED <<expiry_tick, active>>
  BY OpTypes, NoOpFacts DEF StopTimer, Acts, MayCall, TInv, TypeOK, timerVars, Orderly
<1>1. /\ op' \in [Context -> Ops] /\ \A x \in Context \ {c} : op'[x] = op[x]
      /\ op'[c].kind = "stop" /\ op'[c].t = t /\ op'[c].prev = NULL /\ op'[c].curr = timer_list
  BY <1>0, NoOpFacts
<1>2. Linked' = Linked
  BY <1>0, <1>1, AwayStep DEF Linked, Unlinking
<1>3. OpOK(c)'
  <2>1. \A R \in SUBSET (Linked \cup {NULL}) :
          timer_list \in R /\ Onward(next, R) /\ t \in Linked => t \in R
    BY DEF TInv, Chain
  <2> QED BY <1>0, <1>1, <1>2, <2>1 DEF OpOK
<1>4. TimersOK'
  BY <1>0, TimersKept
<1> QED BY <1>0, <1>1, <1>2, <1>3, <1>4, ActsStep DEF TInv, TypeOK

\* The walk passes a timer that is not the one to stop: that one is still ahead.
LEMMA StopWalkT ==
  ASSUME TInv, Orderly, NEW c \in Context, StopWalk(c)
  PROVE  TInv'
<1> DEFINE o == op[c]
           q == op'[c]
<1>0. /\ Acts(c) /\ o.kind = "stop" /\ o \in Ops /\ OpOK(c) /\ op \in [Context -> Ops]
      /\ o.curr # NULL /\ o.curr # o.t /\ o.curr \in Linked
      /\ UNCHANGED <<timer_list, next, timerVars, tick, on, isr, due>>
      /\ UNCHANGED <<expiry_tick, active>>
  BY OpTypes, WalkAt DEF StopWalk, Acts, TInv, timerVars
<1>1. next[o.curr] \in Timer \cup {NULL} /\ o.curr \in Timer
  BY <1>0, NullNoTimer DEF TInv, TypeOK
<1>2. /\ q.kind = "stop" /\ q.t = o.t /\ q.prev = o.curr /\ q.curr = next[o.curr]
      /\ op' \in [Context -> Ops] /\ \A d \in Context \ {c} : op'[d] = op[d]
  BY <1>0, <1>1, Zenon DEF StopWalk, Ops
<1>3. Linked' = Linked
  BY <1>0, <1>2, AwayStep DEF Linked, Unlinking
<1>4. ASSUME NEW R \in SUBSET (Linked \cup {NULL}), next[o.curr] \in R, Onward(next, R), o.t \in Linked
      PROVE  o.t \in R
  <2> DEFINE Q == R \cup {o.curr}
  <2>1. Q \in SUBSET (Linked \cup {NULL}) /\ o.curr \in Q /\ Onward(next, Q)
    BY <1>0, <1>4 DEF Onward
  <2>2. o.t \in Q
    BY <1>0, <1>4, <2>1, Zenon DEF OpOK
  <2> QED BY <1>0, <2>2
<1>5. OpOK(c)'
  BY <1>0, <1>2, <1>3, <1>4, Zenon DEF OpOK
<1>6. TimersOK'
  BY <1>0, TimersKept, Zenon
<1> QED BY <1>0, <1>2, <1>3, <1>5, <1>6, ActsStep DEF TInv, TypeOK

\* At the end of the list the timer was not met: it is not active.
LEMMA StopMissT ==
  ASSUME TInv, Orderly, NEW c \in Context, StopMiss(c)
  PROVE  TInv' /\ ~active'[op[c].t]
<1> DEFINE o == op[c]
<1>0. /\ Acts(c) /\ o.kind = "stop" /\ OpOK(c) /\ op \in [Context -> Ops] /\ o.curr = NULL
      /\ o.t \in Timer /\ o.t # due
      /\ UNCHANGED <<timer_list, next, timerVars, tick, on, isr, due>>
      /\ UNCHANGED <<expiry_tick, active>>
  BY OpTypes, Zenon DEF StopMiss, Acts, TInv, timerVars, OpOK
<1>1. /\ op'[c] = NoOp /\ op'[c].kind = "none"
      /\ op' \in [Context -> Ops] /\ \A d \in Context \ {c} : op'[d] = op[d]
  BY <1>0, NoOpFacts, Zenon DEF StopMiss
<1>2. Linked' = Linked
  BY <1>0, <1>1, AwayStep DEF Linked, Unlinking
<1>3. OpOK(c)'
  BY <1>1 DEF OpOK
<1>4. TimersOK'
  BY <1>0, TimersKept
<1>5. o.t \notin Linked
  <2>1. {NULL} \in SUBSET (Linked \cup {NULL}) /\ o.curr \in {NULL} /\ Onward(next, {NULL})
    BY <1>0 DEF Onward
  <2>2. o.t \in Linked => o.t \in {NULL}
    BY <1>0, <2>1, Zenon DEF OpOK
  <2> QED BY <2>2, NullNoTimer
<1>6. ~active'[o.t]
  <2>1. ~Away(o.t)
    BY <1>0, <1>1, AwayStep DEF Unlinking
  <2> QED BY <1>0, <1>5, <2>1 DEF Linked
<1>7. TInv'
  BY <1>0, <1>1, <1>2, <1>3, <1>4, ActsStep DEF TInv, TypeOK
<1> QED BY <1>6, <1>7, SMTT(20)

LEMMA StopUnlinkT ==
  ASSUME TInv, Orderly, NEW c \in Context, StopUnlink(c)
  PROVE  TInv'
<1> DEFINE o == op[c]
           q == op'[c]
<1>0. /\ Acts(c) /\ o.kind = "stop" /\ o \in Ops /\ OpOK(c) /\ op \in [Context -> Ops]
      /\ o.t \in Timer /\ o.t # due /\ o.curr = o.t /\ o.t \in Linked
      /\ UNCHANGED <<timerVars, tick, on, isr, due>> /\ UNCHANGED <<expiry_tick, active>>
      /\ Chain(timer_list, next, Linked) /\ Sorted(next, expiry_tick, Linked)
      /\ next \in [Timer -> Timer \cup {NULL}] /\ timer_list \in Timer \cup {NULL}
  <2>1. /\ Acts(c) /\ o.kind = "stop" /\ o.curr = o.t
        /\ UNCHANGED <<timerVars, tick, on, isr, due>>
    <3>1. MayStep(c) /\ o.kind = "stop" /\ o.curr = o.t /\ UNCHANGED <<timerVars, tick, on, isr, due>>
      BY Zenon DEF StopUnlink
    <3> QED BY <3>1 DEF Acts
  <2>2. o \in Ops /\ op \in [Context -> Ops] /\ o.t \in Timer
    BY <2>1, OpTypes
  <2>3. OpOK(c) /\ Chain(timer_list, next, Linked) /\ Sorted(next, expiry_tick, Linked)
    BY DEF TInv
  <2>4. o.t # due
    BY <2>1, <2>3 DEF OpOK
  <2>5. o.t \in Linked
    BY <2>1, <2>2, WalkAt, NullNoTimer
  <2>6. /\ next \in [Timer -> Timer \cup {NULL}] /\ timer_list \in Timer \cup {NULL}
    BY DEF TInv, TypeOK
  <2>7. UNCHANGED <<expiry_tick, active>>
    BY <2>1 DEF timerVars
  <2> QED BY <2>1, <2>2, <2>3, <2>4, <2>5, <2>6, <2>7
<1>1. /\ q.kind = "clear" /\ q.t = o.t
      /\ op' \in [Context -> Ops] /\ \A d \in Context \ {c} : op'[d] = op[d]
  BY <1>0, SMTT(20) DEF StopUnlink, Ops
<1>2. Linked' = Linked \ {o.t} /\ active[o.t]
  <2>1. \A x \in Timer : (Away(x) <=> x = due) /\ (Away(x)' <=> x = due \/ x = o.t)
    BY <1>0, <1>1, AwayStep DEF Unlinking
  <2>2. active' = active
    BY <1>0
  <2> QED BY <1>0, <2>1, <2>2 DEF Linked
<1>3. OpOK(c)'
  BY <1>0, <1>1, <1>2, Zenon DEF OpOK
<1>4. TimersOK'
  BY <1>0, TimersKept, Zenon
<1>5. CASE o.prev = NULL
  <2>1. timer_list' = next[o.t] /\ next' = next /\ o.t = timer_list
    BY <1>0, <1>5 DEF StopUnlink, OpOK
  <2>2. Chain(timer_list', next', Linked')
    <3>1. Chain(timer_list, next, Linked) /\ NULL \notin Linked /\ timer_list \in Linked
      BY <1>0, <2>1, NullNoTimer, Zenon
    <3>2. Chain(next[timer_list], next, Linked \ {timer_list})
      BY ONLY <3>1, ChainPop
    <3> QED BY <1>2, <2>1, <3>2, Zenon
  <2>3. Sorted(next', expiry_tick', Linked')
    BY <1>0, <1>2, <2>1, Zenon DEF Sorted
  <2> QED BY <1>0, <1>1, <1>3, <1>4, <2>1, <2>2, <2>3, ActsStep
<1>6. CASE o.prev # NULL
  <2>1. /\ timer_list' = timer_list /\ next' = [next EXCEPT ![o.prev] = next[o.t]]
        /\ o.prev \in Linked /\ next[o.prev] = o.t
    BY <1>0, <1>6, SMTT(20) DEF StopUnlink, OpOK
  <2>2. /\ next'[o.prev] = next[o.t] /\ \A x \in Linked \ {o.prev} : next'[x] = next[x]
        /\ next' \in [Timer -> Timer \cup {NULL}]
    BY <1>0, <2>1, NullNoTimer, Zenon
  <2>3. Chain(timer_list', next', Linked')
    <3>1. /\ Chain(timer_list, next, Linked) /\ NULL \notin Linked /\ o.t \in Linked
          /\ o.prev \in Linked /\ next[o.prev] = o.t /\ next'[o.prev] = next[o.t]
          /\ \A x \in Linked \ {o.prev} : next'[x] = next[x]
      BY <1>0, <2>1, <2>2, NullNoTimer
    <3>2. Chain(timer_list, next', Linked \ {o.t})
      BY ONLY <3>1, ChainRemove
    <3> QED BY <1>2, <2>1, <3>2
  <2>4. Sorted(next', expiry_tick', Linked')
    <3>1. \A x \in Linked \ {o.t, o.prev} : next'[x] = next[x]
      BY <2>2
    <3>2. next[o.t] # NULL => expiry_tick[o.prev] <= expiry_tick[next[o.t]]
      <4>1. next[o.t] # NULL => next[o.t] \in Linked
        BY <1>0, NullNoTimer DEF Chain, Onward
      <4>2. \A x \in Linked : expiry_tick[x] \in Int
        BY NullNoTimer, SMTT(20) DEF TInv, TypeOK
      <4>3. expiry_tick[o.prev] <= expiry_tick[o.t]
        BY <1>0, <2>1, NullNoTimer DEF Sorted
      <4>4. next[o.t] # NULL => expiry_tick[o.t] <= expiry_tick[next[o.t]]
        BY <1>0 DEF Sorted
      <4>5. o.prev \in Linked /\ o.t \in Linked
        BY <1>0, <2>1
      <4> HIDE DEF o
      <4> QED BY ONLY <4>1, <4>2, <4>3, <4>4, <4>5
    <3> QED BY <1>0, <1>2, <2>2, <3>1, <3>2 DEF Sorted
  <2> QED BY <1>0, <1>1, <1>3, <1>4, <2>1, <2>2, <2>3, <2>4, ActsStep, Zenon
<1> QED BY <1>5, <1>6

LEMMA StopClearT ==
  ASSUME TInv, Orderly, NEW c \in Context, StopClear(c)
  PROVE  TInv' /\ ~active'[op[c].t]
<1> DEFINE o == op[c]
<1>0. /\ Acts(c) /\ o.kind = "clear" /\ OpOK(c) /\ op \in [Context -> Ops]
      /\ o.t \in Timer /\ o.t # due
      /\ next' = [next EXCEPT ![o.t] = NULL] /\ active' = [active EXCEPT ![o.t] = FALSE]
      /\ UNCHANGED <<timer_list, expiry_tick, period_ticks, left, tick, on, isr, due>>
  BY OpTypes, Zenon DEF StopClear, Acts, TInv, OpOK
<1>1. /\ op'[c] = NoOp /\ op'[c].kind = "none"
      /\ op' \in [Context -> Ops] /\ \A d \in Context \ {c} : op'[d] = op[d]
  BY <1>0, NoOpFacts DEF StopClear
<1>2. /\ ~active'[o.t] /\ next' \in [Timer -> Timer \cup {NULL}] /\ active' \in [Timer -> BOOLEAN]
      /\ \A x \in Timer \ {o.t} : active'[x] = active[x] /\ next'[x] = next[x]
  BY <1>0, Zenon DEF TInv, TypeOK
<1>3. Linked' = Linked /\ o.t \notin Linked
  <2>1. \A x \in Timer : (active'[x] /\ ~Away(x)') <=> (active[x] /\ ~Away(x))
    <3>1. /\ \A x \in Timer : Away(x) <=> x = due \/ (x = o.t /\ o.kind \in Unlinking)
          /\ \A x \in Timer : Away(x)' <=> x = due' \/ (x = op'[c].t /\ op'[c].kind \in Unlinking)
      BY <1>0, <1>1, AwayStep
    <3>2. o.kind \in Unlinking /\ op'[c].kind \notin Unlinking /\ due' = due
      BY <1>0, <1>1 DEF Unlinking
    <3> QED BY ONLY <1>2, <3>1, <3>2
  <2>2. Away(o.t)
    BY <1>0, <1>1, AwayStep DEF Unlinking
  <2> QED BY <2>1, <2>2 DEF Linked
<1>4. \A x \in Linked : next'[x] = next[x]
  BY <1>2, <1>3, NullNoTimer
<1>5. Chain(timer_list', next', Linked')
  BY <1>0, <1>3, <1>4, ChainKept, NullNoTimer, Zenon DEF TInv
<1>6. Sorted(next', expiry_tick', Linked')
  BY <1>0, <1>3, <1>4 DEF TInv, Sorted
<1>7. TimersOK'
  <2>1. OnTime'
    BY <1>0, <1>2 DEF TInv, OnTime, TypeOK
  <2>2. (\A x \in Timer : \E y \in Delay : left[x] \in 0 .. y)'
    BY <1>0 DEF TInv, TypeOK
  <2> QED BY <1>0, <1>2, <2>1, <2>2 DEF TInv, TypeOK, TimersOK
<1>8. OpOK(c)' /\ timer_list' \in Timer \cup {NULL}
  <2>1. OpOK(c)'
    BY ONLY <1>1 DEF OpOK
  <2>2. timer_list' \in Timer \cup {NULL}
    BY <1>0, Zenon DEF TInv, TypeOK
  <2> QED BY <2>1, <2>2
<1>9. TInv'
  BY <1>0, <1>1, <1>2, <1>5, <1>6, <1>7, <1>8, ActsStep, Zenon
<1> QED BY <1>2, <1>9, SMTT(20)

-----------------------------------------------------------------------------
(* SysTick *)

\* The steps that leave the list and its timers alone.
LEMMA SameList ==
  ASSUME TInv, UNCHANGED <<timer_list, next, expiry_tick, active, due, op>>
  PROVE  /\ \A c \in Context : OpOK(c)'
         /\ Chain(timer_list', next', Linked') /\ Sorted(next', expiry_tick', Linked')
<1>1. Linked' = Linked
  BY DEF Linked, Away
<1>2. ASSUME NEW c \in Context PROVE OpOK(c)'
  <2>1. OpOK(c)
    BY DEF TInv
  <2> QED BY <1>1, <2>1 DEF OpOK
<1> QED BY <1>1, <1>2 DEF TInv

LEMMA SysTickOnT ==
  ASSUME TInv, SysTickOn \/ UNCHANGED vars
  PROVE  TInv'
<1>1. /\ UNCHANGED <<timer_list, next, expiry_tick, period_ticks, active, left, tick, isr, due, op>>
      /\ on' \in BOOLEAN /\ (on' => op["task"] = NoOp) /\ (on => on')
  <2>1. CASE SysTickOn
    BY <2>1 DEF SysTickOn, timerVars
  <2>2. CASE UNCHANGED vars
    BY <2>2, Zenon DEF vars, TInv, TypeOK, OneAtATime
  <2> QED BY <2>1, <2>2
<1>2. TypeOK' /\ left' \in [Timer -> Nat] /\ tick' <= MaxTick
  BY <1>1 DEF TInv, TypeOK
<1>3. OneAtATime' /\ OnTime'
  BY <1>1 DEF TInv, OneAtATime, OnTime
<1> QED BY <1>1, <1>2, <1>3, SameList DEF TInv

\* Between two calls and two ticks every operation is over.
LEMMA Idles ==
  ASSUME TInv, (isr = "none" /\ on) \/ (isr # "none" /\ op["isr"] = NoOp)
  PROVE  /\ \A c \in Context : op[c] = NoOp
         /\ \A t \in Timer : Away(t) <=> t = due
<1>1. \A c \in Context : op[c] = NoOp
  BY Contexts DEF TInv, OneAtATime
<1> QED BY <1>1, NoOpFacts DEF Away

LEMMA TickBeginT ==
  ASSUME TInv, NoWrap, TickBegin
  PROVE  TInv'
<1>0. /\ on /\ isr = "none" /\ tick < MaxTick /\ isr' = "loop" /\ due = NULL
      /\ left' = [t \in Timer |-> IF left[t] > 0 THEN left[t] - 1 ELSE 0]
      /\ UNCHANGED <<timer_list, next, expiry_tick, period_ticks, active, on, due, op>>
  BY DEF TickBegin, TInv, TypeOK
<1>1. tick' = tick + 1 /\ tick' \in 0 .. TickMod - 1 /\ tick' <= MaxTick
  <2>1. PICK d \in Delay : d \in Nat \ {0} /\ MaxTick + d < TickMod
    BY CallsAssumption, Zenon DEF NoWrap
  <2>2. tick + 1 \in 0 .. TickMod - 1 /\ tick + 1 <= MaxTick /\ TickMod \in Nat \ {0}
    BY <1>0, <2>1, CallsAssumption DEF TInv, TypeOK
  <2>3. (tick + 1) % TickMod = tick + 1
    BY <2>2, NoWrapSum, Zenon
  <2> QED BY <2>2, <2>3 DEF TickBegin
<1>2. left' \in [Timer -> Nat]
  BY <1>0 DEF TInv
<1>3. ASSUME NEW t \in Timer PROVE \E d \in Delay : left'[t] \in 0 .. d
  <2>1. PICK d \in Delay : left[t] \in 0 .. d
    BY DEF TInv, TypeOK
  <2>2. d \in Nat
    BY CallsAssumption
  <2> QED BY <1>0, <2>1, <2>2
<1>4. TypeOK'
  BY <1>0, <1>1, <1>3 DEF TInv, TypeOK
<1>5. OneAtATime'
  <2>1. op'["task"] = NoOp /\ op'["isr"] = NoOp
    <3>1. \A c \in Context : op[c] = NoOp
      BY <1>0, Idles, Zenon
    <3> QED BY <1>0, <3>1, Contexts
  <2>2. on'
    BY <1>0, Zenon
  <2> QED BY <2>1, <2>2, Zenon DEF OneAtATime
<1>6. OnTime'
  <2>1. ASSUME NEW t \in Timer, active'[t] PROVE expiry_tick'[t] = tick' + left'[t]
    <3>1. /\ expiry_tick[t] = tick + left[t] /\ left[t] > 0 /\ left[t] \in Nat
          /\ tick \in Int /\ expiry_tick'[t] = expiry_tick[t]
      BY <1>0, <2>1, NullNoTimer DEF TInv, TypeOK, OnTime
    <3>2. left'[t] = left[t] - 1
      BY <1>0, <3>1
    <3> QED BY <1>1, <3>1, <3>2
  <2> QED BY <1>0, <2>1 DEF OnTime
<1> QED BY <1>0, <1>1, <1>2, <1>4, <1>5, <1>6, SameList DEF TInv

\* The loop ends when the head is not due: then no timer of the list is.
LEMMA TickReturnT ==
  ASSUME TInv, TickReturn
  PROVE  TInv'
<1>0. /\ isr = "loop" /\ op["isr"] = NoOp /\ ~HeadDue /\ isr' = "none" /\ due = NULL
      /\ UNCHANGED <<timer_list, next, expiry_tick, period_ticks, active, left, tick, on, due, op>>
  BY DEF TickReturn, timerVars, TInv, TypeOK
<1>1. TypeOK' /\ left' \in [Timer -> Nat] /\ tick' <= MaxTick
  BY <1>0 DEF TInv, TypeOK
<1>2. OneAtATime'
  BY <1>0 DEF TInv, OneAtATime
<1>3. \A t \in Timer : active[t] => t \in Linked
  BY <1>0, Idles, NullNoTimer DEF Linked
<1>4. timer_list # NULL => expiry_tick[timer_list] > tick
  <2>1. timer_list # NULL => timer_list \in Linked /\ timer_list \in Timer
    BY NullNoTimer DEF TInv, Chain
  <2>2. timer_list # NULL => active[timer_list] /\ expiry_tick[timer_list] \in Int /\ tick \in Int
    BY <2>1 DEF Linked, TInv, TypeOK
  <2> QED BY <1>0, <2>2 DEF HeadDue
<1>5. \A t \in Linked : expiry_tick[t] > tick
  <2>1. (\A t \in Linked : expiry_tick[t] \in Int) /\ tick \in Int
    BY NullNoTimer DEF TInv, TypeOK
  <2>2. /\ Chain(timer_list, next, Linked) /\ NULL \notin Linked
        /\ Sorted(next, expiry_tick, Linked)
    BY NullNoTimer DEF TInv
  <2> QED BY ONLY <1>4, <2>1, <2>2, ChainLater
<1>6. OnTime'
  <2>1. ASSUME NEW t \in Timer, active[t]
        PROVE  expiry_tick[t] = tick + left[t] /\ left[t] > 0
    <3>1. expiry_tick[t] = tick + left[t] /\ left[t] \in Nat /\ tick \in Int
      BY <1>0, <2>1, NullNoTimer DEF TInv, TypeOK, OnTime
    <3>2. expiry_tick[t] > tick
      BY <1>3, <1>5, <2>1
    <3> QED BY <3>1, <3>2
  <2> QED BY <1>0, <2>1 DEF OnTime
<1> QED BY <1>0, <1>1, <1>2, <1>6, SameList DEF TInv

\* The head is due now, not late: its time is over.
LEMMA ExpireT ==
  ASSUME TInv, Expire
  PROVE  TInv'
<1> DEFINE h == timer_list
<1>0. /\ isr = "loop" /\ op["isr"] = NoOp /\ isr' = "callback" /\ due = NULL /\ due' = h
      /\ h # NULL /\ active[h] /\ expiry_tick[h] <= tick
      /\ timer_list' = next[h] /\ next' = [next EXCEPT ![h] = NULL]
      /\ UNCHANGED <<expiry_tick, period_ticks, active, left, tick, on, op>>
  BY DEF Expire, HeadDue, timerVars, TInv, TypeOK
<1>1. h \in Linked /\ h \in Timer
  BY <1>0, NullNoTimer DEF TInv, Chain
<1>2. /\ next' \in [Timer -> Timer \cup {NULL}] /\ timer_list' \in Timer \cup {NULL}
      /\ \A x \in Linked \ {h} : next'[x] = next[x]
  BY <1>0, <1>1, NullNoTimer DEF TInv, TypeOK
<1>3. TypeOK' /\ left' \in [Timer -> Nat] /\ tick' <= MaxTick
  BY <1>0, <1>1, <1>2, NullNoTimer DEF TInv, TypeOK
<1>4. OneAtATime'
  BY <1>0 DEF TInv, OneAtATime
<1>5. \A c \in Context : op[c] = NoOp /\ OpOK(c)'
  <2>1. \A c \in Context : op'[c] = NoOp /\ op[c] = NoOp
    BY <1>0, Idles
  <2> QED BY <2>1, NoOpFacts DEF OpOK
<1>6. Linked' = Linked \ {h}
  <2>1. \A t \in Timer : Away(t)' <=> t = h
    BY <1>0, <1>5, NoOpFacts DEF Away
  <2>2. \A t \in Timer : ~Away(t)
    BY <1>0, Idles, NullNoTimer
  <2> QED BY <1>0, <2>1, <2>2 DEF Linked
<1>7. Chain(timer_list', next', Linked')
  <2>1. Chain(next[h], next, Linked \ {h}) /\ NULL \notin Linked \ {h}
    BY <1>1, ChainPop, NullNoTimer DEF TInv
  <2>2. Chain(next[h], next', Linked \ {h})
    BY ONLY <1>2, <2>1, ChainKept
  <2> QED BY <1>0, <1>6, <2>2
<1>8. Sorted(next', expiry_tick', Linked')
  BY <1>0, <1>2, <1>6 DEF TInv, Sorted
<1>9. OnTime'
  <2>1. left[h] = 0
    BY <1>0, <1>1, NullNoTimer DEF TInv, TypeOK, OnTime
  <2> QED BY <1>0, <2>1, NullNoTimer DEF TInv, OnTime
<1> QED BY <1>3, <1>4, <1>5, <1>7, <1>8, <1>9 DEF TInv

\* The callback has returned: a periodic timer is armed again, a one-shot is over.
LEMMA CallbackReturnT ==
  ASSUME TInv, NoWrap, CallbackReturn
  PROVE  TInv'
<1>0. /\ isr = "callback" /\ op["isr"] = NoOp /\ isr' = "loop" /\ due' = NULL
      /\ due \in Timer /\ due # NULL /\ active[due] /\ due \notin Linked
      /\ UNCHANGED <<timer_list, period_ticks, tick, on>>
      /\ timer_list \in Timer \cup {NULL} /\ op \in [Context -> Ops]
      /\ next \in [Timer -> Timer \cup {NULL}]
  BY OpTypes, NullNoTimer DEF CallbackReturn, TInv, TypeOK, OnTime, Linked, Away
<1>1. /\ \A c \in Context : op[c] = NoOp
      /\ \A t \in Timer : Away(t) <=> t = due
  BY <1>0, Idles, SMTT(20)
<1>2. /\ \A x \in Linked : next[x] \in Linked \cup {NULL} /\ next[x] # due
      /\ Chain(timer_list, next, Linked) /\ Sorted(next, expiry_tick, Linked)
  <2>1. Chain(timer_list, next, Linked) /\ Sorted(next, expiry_tick, Linked)
    BY DEF TInv
  <2>2. \A x \in Linked : next[x] \in Linked \cup {NULL}
    BY <2>1, NullNoTimer, Zenon DEF Chain, Onward
  <2> QED BY <1>0, <2>1, <2>2
<1>3. CASE period_ticks[due] # 0
  <2> DEFINE d == period_ticks[due]
  <2>0. d \in Delay
    BY <1>0, <1>3 DEF TInv, TypeOK
  <2>1. /\ expiry_tick' = [expiry_tick EXCEPT ![due] = tick + d]
        /\ left' = [left EXCEPT ![due] = d] /\ next' = [next EXCEPT ![due] = NULL]
        /\ op' = [op EXCEPT !["isr"] = Begin("insert", due)] /\ active' = active
    BY <1>3, <2>0, Armed DEF CallbackReturn
  <2> HIDE DEF d
  <2>2. /\ op' \in [Context -> Ops] /\ op'["task"] = NoOp /\ op'["isr"].kind = "insert"
        /\ op'["isr"].t = due /\ op'["isr"].prev = NULL /\ op'["isr"].curr = timer_list
    <3>1. op'["isr"] = Begin("insert", due) /\ op'["task"] = NoOp
      BY <1>0, <1>1, <2>1, Contexts
    <3>2. /\ Begin("insert", due) \in Ops /\ Begin("insert", due).kind = "insert"
          /\ Begin("insert", due).t = due /\ Begin("insert", due).prev = NULL
          /\ Begin("insert", due).curr = timer_list
      BY <1>0, NoOpFacts
    <3>3. op' \in [Context -> Ops]
      BY <1>0, <2>1, <3>2, Zenon
    <3> QED BY <3>1, <3>2, <3>3, Zenon
  <2>3. Linked' = Linked
    <3>1. \A t \in Timer : Away(t)' <=> t = due
      BY <1>0, <2>2, Contexts, NoOpFacts, NullNoTimer DEF Away
    <3> QED BY <1>1, <2>1, <3>1 DEF Linked
  <2>4. /\ next' \in [Timer -> Timer \cup {NULL}] /\ \A x \in Linked : next'[x] = next[x]
        /\ \A x \in Linked : expiry_tick'[x] = expiry_tick[x]
    BY <1>0, <2>1, NullNoTimer DEF TInv, TypeOK
  <2>5. expiry_tick' \in [Timer -> 0 .. TickMod - 1] /\ left' \in [Timer -> Nat]
    BY <1>0, <2>0, <2>1, Armed DEF TInv, TypeOK
  <2>6. ASSUME NEW x \in Timer PROVE \E y \in Delay : left'[x] \in 0 .. y
    <3>1. CASE x = due
      BY <2>0, <2>1, <3>1, Armed DEF TInv
    <3>2. CASE x # due
      BY <2>1, <3>2 DEF TInv, TypeOK
    <3> QED BY <3>1, <3>2
  <2>7. TypeOK' /\ tick' <= MaxTick
    BY <1>0, <2>1, <2>2, <2>4, <2>5, <2>6 DEF TInv, TypeOK, Ops
  <2>8. OneAtATime'
    BY <1>0, <2>2, Zenon DEF TInv, OneAtATime
  <2>9. \A c \in Context : OpOK(c)'
    <3>1. OpOK("task")'
      BY <2>2, NoOpFacts DEF OpOK
    <3>2. OpOK("isr")'
      BY <1>0, <2>1, <2>2 DEF OpOK
    <3> QED BY <3>1, <3>2, Contexts
  <2>10. Chain(timer_list', next', Linked')
    BY <1>0, <1>2, <2>3, <2>4, ChainKept, NullNoTimer, Zenon
  <2>11. Sorted(next', expiry_tick', Linked')
    BY <1>2, <2>3, <2>4 DEF Sorted
  <2>12. OnTime'
    <3>1. ASSUME NEW t \in Timer, active'[t] PROVE expiry_tick'[t] = tick' + left'[t]
      <4>1. CASE t = due
        BY <1>0, <2>1, <4>1 DEF TInv, TypeOK
      <4>2. CASE t # due
        BY <1>0, <2>1, <3>1, <4>2 DEF TInv, TypeOK, OnTime
      <4> QED BY <4>1, <4>2
    <3> QED BY <1>0, <3>1 DEF OnTime
  <2> QED BY <2>5, <2>7, <2>8, <2>9, <2>10, <2>11, <2>12 DEF TInv
<1>4. CASE period_ticks[due] = 0
  <2>1. /\ active' = [active EXCEPT ![due] = FALSE]
        /\ UNCHANGED <<expiry_tick, left, next, op>>
    BY <1>4 DEF CallbackReturn
  <2>2. Linked' = Linked
    <3>1. \A t \in Timer : ~Away(t)'
      BY <1>0, <1>1, <2>1, NoOpFacts, NullNoTimer DEF Away
    <3>2. \A t \in Timer : (active'[t] /\ ~Away(t)') <=> (active[t] /\ ~Away(t))
      BY <1>1, <2>1, <3>1 DEF TInv, TypeOK
    <3> QED BY <3>2 DEF Linked
  <2>3. TypeOK' /\ left' \in [Timer -> Nat] /\ tick' <= MaxTick
    BY <1>0, <2>1 DEF TInv, TypeOK
  <2>4. OneAtATime'
    BY <1>0, <2>1, Zenon DEF TInv, OneAtATime
  <2>5. \A c \in Context : OpOK(c)'
    BY <1>1, <2>1, NoOpFacts DEF OpOK
  <2>6. OnTime'
    <3>1. ASSUME NEW t \in Timer, active'[t] PROVE expiry_tick'[t] = tick' + left'[t]
      BY <1>0, <2>1, <3>1 DEF TInv, TypeOK, OnTime
    <3> QED BY <1>0, <3>1 DEF OnTime
  <2> QED BY <1>0, <1>2, <2>1, <2>2, <2>3, <2>4, <2>5, <2>6 DEF TInv
<1> QED BY <1>3, <1>4, SMTT(20)

-----------------------------------------------------------------------------
(* Theorems *)

LEMMA TInit == Init => TInv
<1> SUFFICES ASSUME Init PROVE TInv
  OBVIOUS
<1>1. PICK d : d \in Delay /\ d \in Nat \ {0}
  BY CallsAssumption, Zenon
<1>2. 0 \in 0 .. TickMod - 1 /\ 0 \in 0 .. d /\ 0 <= MaxTick
  BY <1>1, CallsAssumption
<1>3. op \in [Context -> Ops] /\ \A c \in Context : op[c] = NoOp
  BY NoOpFacts DEF Init
<1>4. \A t \in Timer : \E x \in Delay : left[t] \in 0 .. x
  BY <1>1, <1>2 DEF Init
<1>5. TypeOK /\ left \in [Timer -> Nat] /\ tick <= MaxTick
  BY <1>2, <1>3, <1>4, Zenon DEF Init, TypeOK, Ops
<1>6. OneAtATime /\ OnTime
  BY <1>3, Contexts DEF Init, OneAtATime, OnTime
<1>7. \A c \in Context : OpOK(c)
  BY <1>3, NoOpFacts DEF OpOK
<1>8. Linked = {} /\ timer_list = NULL
  BY DEF Init, Linked
<1>9. Chain(timer_list, next, Linked) /\ Sorted(next, expiry_tick, Linked)
  BY <1>8 DEF Chain, Onward, Sorted
<1> QED BY <1>5, <1>6, <1>7, <1>9 DEF TInv

LEMMA TNext ==
  ASSUME TInv, Orderly, NoWrap, [Next]_vars
  PROVE  TInv'
<1>1. CASE SysTickOn \/ TickBegin \/ Expire \/ CallbackReturn \/ TickReturn \/ UNCHANGED vars
  BY <1>1, SysTickOnT, TickBeginT, ExpireT, CallbackReturnT, TickReturnT, SMTT(20)
<1>2. ASSUME NEW c \in Context,
             \/ \E t \in Timer, d \in Delay : StartTimer(c, t, d, 0) \/ StartTimer(c, t, d, d)
             \/ \E t \in Timer : StopTimer(c, t)
             \/ InsertWalk(c) \/ InsertLink(c) \/ InsertAttach(c)
             \/ StopWalk(c) \/ StopMiss(c) \/ StopUnlink(c) \/ StopClear(c)
      PROVE  TInv'
  <2>1. ASSUME NEW t \in Timer, NEW d \in Delay, StartTimer(c, t, d, 0) \/ StartTimer(c, t, d, d)
        PROVE  TInv'
    BY <2>1, StartTimerT
  <2> QED BY <1>2, <2>1, StopTimerT, InsertWalkT, InsertLinkT, InsertAttachT, StopWalkT, StopMissT,
             StopUnlinkT, StopClearT, Zenon
<1> QED BY <1>1, <1>2 DEF Next

\* sw_timer.c keeps TInv: a list that is exact, sorted and ends, and timers that are
\* neither early nor late, through every start, stop, tick and callback.
THEOREM SwTimerInvariance ==
  ASSUME Orderly, NoWrap
  PROVE  Spec => []TInv
<1>1. Init => TInv
  BY TInit
<1>2. TInv /\ [Next]_vars => TInv'
  BY TNext
<1> QED BY <1>1, <1>2, PTL DEF Spec

\* The pointers of timer_list and the fields of the timers keep their types: a timer
\* is being processed exactly while its callback runs.
THEOREM SwTimerTypesKept ==
  ASSUME Orderly, NoWrap
  PROVE  Spec => []TypeOK
<1>1. TInv => TypeOK
  BY DEF TInv
<1> QED BY <1>1, SwTimerInvariance, PTL

\* What Met stands for: the members of the list and its end.
LEMMA MetIs ==
  ASSUME NEW S \in SUBSET Timer, Chain(timer_list, next, S)
  PROVE  Met = S \cup {NULL}
<1> DEFINE Closed(R) == timer_list \in R /\ \A t \in R \ {NULL} : next[t] \in R
           Least(Q) == Closed(Q) /\ \A R \in SUBSET Q : Closed(R) => R = Q
<1>1. S \cup {NULL} \in SUBSET (Timer \cup {NULL}) /\ Least(S \cup {NULL})
  BY DEF Chain, Onward
<1>2. ASSUME NEW Q \in SUBSET (Timer \cup {NULL}), Least(Q)
      PROVE  Q = S \cup {NULL}
  <2> DEFINE R == Q \cap (S \cup {NULL})
  <2>1. R \in SUBSET (S \cup {NULL}) /\ R \in SUBSET Q
    OBVIOUS
  <2>2. timer_list \in R /\ Onward(next, R)
    BY <1>2 DEF Chain, Onward
  <2>3. S \cup {NULL} \subseteq R
    BY <2>1, <2>2, Zenon DEF Chain
  <2>4. Closed(R)
    BY <2>2 DEF Onward
  <2>5. R = Q
    BY <1>2, <2>1, <2>4, Zenon
  <2> QED BY <2>3, <2>5
<1> QED BY <1>1, <1>2 DEF Met

\* Whenever no list operation and no callback is under way, timer_list ends, is
\* sorted by expiry and holds exactly the active timers.
THEOREM TimerListStaysExact ==
  ASSUME Orderly, NoWrap
  PROVE  Spec => []TimerListExact
<1>1. TInv => TimerListExact
  <2> SUFFICES ASSUME TInv, Quiet, due = NULL
               PROVE  /\ Met = {t \in Timer : active[t]} \cup {NULL}
                      /\ \A t \in Met \ {NULL} :
                           next[t] # NULL => expiry_tick[t] <= expiry_tick[next[t]]
    BY DEF TimerListExact
  <2>1. \A t \in Timer : ~Away(t)
    BY NoOpFacts, NullNoTimer DEF Quiet, Away
  <2>2. Linked = {t \in Timer : active[t]}
    BY <2>1 DEF Linked
  <2>3. Met = Linked \cup {NULL}
    BY MetIs, NullNoTimer DEF TInv
  <2>4. \A t \in Linked : next[t] # NULL => expiry_tick[t] <= expiry_tick[next[t]]
    BY DEF TInv, Sorted
  <2> QED BY <2>2, <2>3, <2>4
<1> QED BY <1>1, SwTimerInvariance, PTL

\* A callback runs at the tick its timer was armed for, neither early nor late, and
\* after a tick is processed none is owed.
THEOREM TimersFireOnTime ==
  ASSUME Orderly, NoWrap
  PROVE  Spec => []FiresOnTime
<1>1. TInv => FiresOnTime
  <2> SUFFICES ASSUME TInv PROVE FiresOnTime
    OBVIOUS
  <2>1. isr = "callback" => left[due] = 0
    BY SMTT(20) DEF TInv, TypeOK, OnTime
  <2>2. isr = "none" => \A t \in Timer : active[t] => left[t] > 0
    BY Zenon DEF TInv, OnTime
  <2> QED BY <2>1, <2>2 DEF FiresOnTime
<1> QED BY <1>1, SwTimerInvariance, PTL

\* When sw_timer_stop returns the timer is not active: it was taken off the list, or
\* the walk has shown that it was not in it.
THEOREM StopsTakeEffect ==
  ASSUME Orderly, NoWrap
  PROVE  Spec => StopTakesEffect
<1> DEFINE Effect == \A c \in Context : op[c].kind \in {"stop", "clear"} /\ op'[c] = NoOp
                                         => ~active'[op[c].t]
<1>1. TInv /\ [Next]_vars => [Effect]_vars
  <2> SUFFICES ASSUME TInv, Next, NEW x \in Context, op[x].kind \in {"stop", "clear"}, op'[x] = NoOp
               PROVE  ~active'[op[x].t]
    OBVIOUS
  <2>0. op \in [Context -> Ops] /\ op'[x] # op[x]
    BY OpTypes, NoOpFacts
  <2>1. CASE SysTickOn \/ TickBegin \/ Expire \/ TickReturn
    BY <2>0, <2>1 DEF SysTickOn, TickBegin, Expire, TickReturn
  <2>2. CASE CallbackReturn
    <3>1. op["isr"] = NoOp /\ (op' = op \/ op' = [op EXCEPT !["isr"] = Begin("insert", due)])
      BY <2>2, Zenon DEF CallbackReturn
    <3>2. x # "isr"
      BY <3>1, NoOpFacts
    <3>3. op'[x] = op[x]
      BY ONLY <2>0, <3>1, <3>2, x \in Context
    <3> QED BY <2>0, <3>3
  <2>3. ASSUME NEW c \in Context, NEW t \in Timer, NEW d \in Delay, NEW p, StartTimer(c, t, d, p)
        PROVE  FALSE
    BY <2>0, <2>3, NoOpFacts DEF StartTimer, MayCall
  <2>4. ASSUME NEW c \in Context, NEW t \in Timer, StopTimer(c, t)
        PROVE  FALSE
    BY <2>0, <2>4, NoOpFacts DEF StopTimer, MayCall
  <2>5. ASSUME NEW c \in Context, InsertWalk(c) \/ InsertLink(c) \/ InsertAttach(c)
        PROVE  FALSE
    BY <2>0, <2>5 DEF InsertWalk, InsertLink, InsertAttach
  <2>6. ASSUME NEW c \in Context, StopWalk(c) \/ StopUnlink(c)
        PROVE  FALSE
    <3>1. x = c
      BY <2>0, <2>6 DEF StopWalk, StopUnlink
    <3>2. op'[x].kind \in {"stop", "clear"}
      BY <2>0, <2>6, <3>1, Zenon DEF StopWalk, StopUnlink, Ops
    <3> QED BY <3>2, NoOpFacts
  <2>7. ASSUME NEW c \in Context, StopMiss(c) \/ StopClear(c)
        PROVE  ~active'[op[x].t]
    <3>1. x = c
      BY <2>0, <2>7 DEF StopMiss, StopClear
    <3> QED BY <2>7, <3>1, StopMissT, StopClearT
  <2> QED BY <2>1, <2>2, <2>3, <2>4, <2>5, <2>6, <2>7, Zenon DEF Next
<1> QED BY <1>1, SwTimerInvariance, PTL DEF Spec, StopTakesEffect
=============================================================================
