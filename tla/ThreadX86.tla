----------------------------- MODULE ThreadX86 ------------------------------
(***************************************************************************)
(* thread_x86 (arch/x86/libs/thread_x86): the threads of the one CPU and   *)
(* the ready list, a ring of tcbs whose pointer pready is the thread that  *)
(* runs.  The functions disable the interrupts, so each is one step; the   *)
(* timer interrupt comes between any two of them.                          *)
(*                                                                         *)
(* The ring is a sequence that starts at pready.  A thread is not in it    *)
(* while it waits for a point in time (waiting_tcbs, which is shown to be  *)
(* a TimerQueue) or until it is made ready (by a receptor).                *)
(*                                                                         *)
(* Slices are left out: the timer may interrupt at any time, and does      *)
(* sooner or later.  Handles are used as Receptor uses them, by whom the   *)
(* thread they name waits for: nobody makes a thread ready that waits for  *)
(* a point in time or that is gone.                                        *)
(***************************************************************************)
EXTENDS Naturals, FiniteSets, Sequences, SequencesExt

CONSTANTS
  Tcbs,      \* the tcbs of ac_thread_init
  Idle, Main,\* pidle_tcb, pmain_tcb
  MaxTime    \* bound: the time goes up to MaxTime

Times == 0 .. MaxTime

ThreadAssumption ==
  {Idle, Main} \subseteq Tcbs /\ Idle # Main /\ MaxTime \in Nat

VARIABLES
  ready,     \* the ready list from pready on
  id,        \* per tcb: its thread_id, EMPTY, ZOMBIE or LIVE for all others
  stack,     \* per tcb: its stack is allocated (for Idle and Main: is there)
  waiting,   \* the tcbs in waiting_tcbs
  deadline,  \* per tcb: its waiting_deadline
  now,       \* the time stamp counter
  blocked    \* history: the threads that made themselves not ready

timerVars == <<waiting, deadline>>
vars == <<ready, id, stack, timerVars, now, blocked>>

Timer == INSTANCE TimerQueue

pready == Head(ready)
Running(t) == pready = t /\ id[t] = "LIVE"

\* ac_thread_early_init
Init ==
  /\ ready = <<Main, Idle>>
  /\ id = [t \in Tcbs |-> IF t \in {Idle, Main} THEN "LIVE" ELSE "EMPTY"]
  /\ stack = [t \in Tcbs |-> t \in {Idle, Main}]
  /\ waiting = {}
  /\ deadline = [t \in Tcbs |-> 0]
  /\ now = 0
  /\ blocked = {}

-----------------------------------------------------------------------------
(* The scheduler: thread_scheduler_intr_disabled                           *)

\* The ring q turned so that it starts at its i-th tcb.
Turn(q, i) == SubSeq(q, i, Len(q)) \o SubSeq(q, 1, i - 1)

IsSkipped(t) == id[t] = "ZOMBIE"

\* next_tcb: the ring turned to the first tcb after its head that is no zombie.
NextTcb(q) ==
  LET r == Turn(q, 2)
      i == CHOOSE i \in 1 .. Len(r) :
             ~IsSkipped(r[i]) /\ \A j \in 1 .. i - 1 : IsSkipped(r[j])
  IN Turn(r, i)

\* Idle is skipped unless it is the only thread.
SkipIdle(q) == IF Head(q) = Idle THEN NextTcb(q) ELSE q

\* Mutant of IsExpired: one tick early.
IsExpiredEarly(d) == now + 1 >= d
\* Mutant of IsExpired: a tick that is missed is missed for good.
IsExpiredExactly(d) == now = d
IsExpired(d) == now >= d

\* timer_scheduler_intr_disabled: of the tcbs in w, which wait until due, one that
\* is due first runs next if its time has come, before the one chosen, which is q's
\* head.
Dispatch(q, w, due) ==
  LET first == {t \in w : IsExpired(due[t]) /\ \A u \in w : due[t] <= due[u]}
  IN IF first = {} THEN ready' = q /\ waiting' = w
     ELSE \E t \in first : ready' = <<t>> \o q /\ waiting' = w \ {t}

\* pready gives the CPU away, by ac_thread_yield or by the timer's interrupt.
Reschedule ==
  /\ Dispatch(SkipIdle(NextTcb(ready)), waiting, deadline)
  /\ UNCHANGED <<id, stack, deadline, now, blocked>>

-----------------------------------------------------------------------------
(* What the running thread does to itself                                  *)

\* The ready list without pready; what follows it is the next to run.
Rest == Tail(ready)

\* thread_make_not_ready, as a receptor's wait calls it.
MakeNotReady(t) ==
  /\ Running(t) /\ t # Idle
  /\ blocked' = blocked \cup {t}
  /\ Dispatch(SkipIdle(Rest), waiting, deadline)
  /\ UNCHANGED <<id, stack, deadline, now>>

\* ac_thread_wait_ns, ac_thread_wait_ticks: the tcb is in waiting_tcbs when the
\* scheduler is called; if its time has come by then it may be the next to run.
WaitUntil(t, d) ==
  /\ Running(t) /\ t # Idle
  /\ d >= now /\ now < MaxTime
  /\ deadline' = [deadline EXCEPT ![t] = d]
  /\ Dispatch(SkipIdle(Rest), waiting \cup {t}, deadline')
  /\ UNCHANGED <<id, stack, now, blocked>>

\* entry_trampoline, when the thread's entry returned; it yields then, which is
\* the next Reschedule.  Main and Idle never return.
Exit(t) ==
  /\ Running(t) /\ t \notin {Idle, Main}
  /\ id' = [id EXCEPT ![t] = "ZOMBIE"]
  /\ UNCHANGED <<ready, stack, timerVars, now, blocked>>

-----------------------------------------------------------------------------
(* What the running thread, or an interrupt, does to others                *)

\* add_tcb_after pready
AddAfter(t) == ready' = <<pready, t>> \o Tail(ready)

\* get_tcb: the empty tcb is initialized.
GetTcb(t) == id[t] = "EMPTY" /\ id' = [id EXCEPT ![t] = "LIVE"]

\* ac_thread_create, when there are a tcb and a stack for it; else it fails and
\* changes nothing.
Create(t) ==
  /\ id[pready] = "LIVE" /\ pready # Idle
  /\ GetTcb(t)
  /\ stack' = [stack EXCEPT ![t] = TRUE]
  /\ AddAfter(t)
  /\ UNCHANGED <<timerVars, now, blocked>>

\* thread_make_ready does nothing to a tcb that is in the ready list.
MakeReady(t) ==
  /\ t \in blocked
  /\ blocked' = blocked \ {t}
  /\ AddAfter(t)
  /\ UNCHANGED <<id, stack, timerVars, now>>

\* Mutant of Without: zombies are freed and stay in the ring.
WithoutNot(q, gone) == q
Without(q, gone) ==
  LET kept == {i \in DOMAIN q : q[i] \notin gone}
      at == CHOOSE at \in [1 .. Cardinality(kept) -> kept] :
              \A i, j \in 1 .. Cardinality(kept) : i < j => at[i] < at[j]
  IN [i \in 1 .. Cardinality(kept) |-> q[at[i]]]

\* remove_zombies, which idle calls again and again and others may call.
RemoveZombies ==
  /\ id[pready] = "LIVE"
  /\ LET zombies == {t \in ToSet(ready) : id[t] = "ZOMBIE"}
     IN /\ zombies # {}
        /\ ready' = Without(ready, zombies)
        /\ id' = [t \in Tcbs |-> IF t \in zombies THEN "EMPTY" ELSE id[t]]
        /\ stack' = [t \in Tcbs |-> stack[t] /\ t \notin zombies]
  /\ UNCHANGED <<timerVars, now, blocked>>

Tick ==
  /\ now < MaxTime
  /\ now' = now + 1
  /\ UNCHANGED <<ready, id, stack, timerVars, blocked>>

-----------------------------------------------------------------------------
Next ==
  \/ Reschedule \/ RemoveZombies \/ Tick
  \/ \E t \in Tcbs : \/ MakeNotReady(t) \/ Exit(t) \/ Create(t) \/ MakeReady(t)
                     \/ \E d \in Times : WaitUntil(t, d)

Spec == Init /\ [][Next]_vars

\* The timer is set anew whenever a thread is given the CPU, so it interrupts a
\* thread only if that does not give the CPU away before; and time goes on.
Fairness == WF_vars(Tick) /\ \A t \in Tcbs : WF_vars(pready = t /\ Reschedule)

FairSpec == Spec /\ Fairness

-----------------------------------------------------------------------------
\* The types of the variables; the ready list has no tcb twice.
TypeOK ==
  /\ ready \in Seq(Tcbs) /\ ready # <<>>
  /\ \A i, j \in DOMAIN ready : ready[i] = ready[j] => i = j
  /\ id \in [Tcbs -> {"EMPTY", "LIVE", "ZOMBIE"}]
  /\ stack \in [Tcbs -> BOOLEAN]
  /\ Timer!TypeOK
  /\ now \in Times
  /\ blocked \subseteq Tcbs

\* No thread is lost and none runs on freed memory: a live thread is at one place,
\* the ready list, waiting_tcbs or with the one it waits for; a zombie stays in
\* the ready list until it is freed; what is in the list has its stack; and Idle
\* is always there, as next_tcb assumes.
OnePlace ==
  /\ \A t \in Tcbs :
       LET isReady == t \in ToSet(ready)
       IN /\ id[t] = "LIVE" => /\ isReady \/ t \in waiting \cup blocked
                               /\ ~(isReady /\ t \in waiting \cup blocked)
                               /\ t \notin waiting \cap blocked
          /\ id[t] = "ZOMBIE" => isReady /\ t \notin waiting \cup blocked
          /\ id[t] = "EMPTY" => ~isReady /\ t \notin waiting \cup blocked
          /\ stack[t] <=> id[t] # "EMPTY"
  /\ Idle \in ToSet(ready)

\* The variables have their types, and every thread its place.
ThreadsAccounted == TypeOK /\ OnePlace

\* A thread that waits is not woken early, and of two the one due first is.
WokenInTime ==
  [][\A t \in waiting \ waiting' :
       now >= deadline[t] /\ \A u \in waiting : deadline[t] <= deadline[u]]_vars

\* Round robin: a thread that is ready is given the CPU again, unless for ever
\* others are made ready, are created, or wait for points in time: all those may be
\* put in front of it.  Idle is not given the CPU while others are ready.
ReadyRuns ==
  <>[][~\E t \in Tcbs : MakeReady(t) \/ Create(t) \/ \E d \in Times : WaitUntil(t, d)]_vars =>
    \A t \in Tcbs \ {Idle} : t \in ToSet(ready) /\ id[t] = "LIVE" ~> pready = t

\* A thread that waits for a point in time is given the CPU when it came.
WaiterRuns == \A t \in Tcbs : t \in waiting ~> pready = t

\* Both: no thread is forgotten.
ThreadsRun == ReadyRuns /\ WaiterRuns
=============================================================================
