------------------------------ MODULE Receptor ------------------------------
(***************************************************************************)
(* AcReceptor on the x86 (arch/x86/libs/ac_receptor_impl): a pool of       *)
(* receptors, on each of which one thread waits and others signal.         *)
(*                                                                         *)
(* A receptor is one word, thdl: NO_ONE, SIGNALED or the handle of the     *)
(* thread that waits.  Interrupts stay enabled, so a thread is preempted   *)
(* between any two accesses to it; each access is an action here.  The     *)
(* scheduler (thread_x86) is the set of ready threads: make_not_ready      *)
(* takes the caller out of it, make_ready puts a thread in and does        *)
(* nothing to one that is in it already.                                   *)
(*                                                                         *)
(* As in "the typical case" of the source's comment, the thread that got a *)
(* receptor is the one that waits on it and returns it.  Signalers may     *)
(* hold on to a receptor that was returned, or even was got again.         *)
(***************************************************************************)
EXTENDS Naturals, FiniteSets

CONSTANTS
  Waiters,          \* the threads that get, wait and return
  Signalers,        \* the threads that signal
  MaxReceptors,     \* the size of the pool (max_receptors)
  NO_ONE, SIGNALED, \* RECEPTOR_NO_ONE_WAITING, RECEPTOR_SIGNALED
  NULL

Receptors == 0 .. MaxReceptors - 1
Threads == Waiters \cup Signalers

ASSUME ReceptorAssumption ==
  /\ MaxReceptors \in Nat \ {0}
  /\ Waiters \cap Signalers = {}
  /\ {NO_ONE, SIGNALED, NULL} \cap Threads = {}
  /\ NO_ONE # SIGNALED
  /\ NULL \notin Receptors

VARIABLES
  state,  \* per receptor: UNUSED, INITIALIZING, ACTIVE or DEINITIALIZING
  thdl,   \* per receptor: NO_ONE, SIGNALED or the thread that waits
  ready,  \* the threads in the scheduler's ready list
  pc,     \* per thread: where it is in a call, or "idle"
  rec,    \* per thread: the receptor of its call
  held,   \* per waiter: the receptors it got and did not return
  exp,    \* per signaler: its variable expected
  seen,   \* per signaler: its variable thdl
  given,  \* the receptors AcReceptor_get ever returned
  saw     \* per signaler, history: the waiter when the signal began, see below

poolVars == <<state, held, given>>
signalVars == <<exp, seen, saw>>
vars == <<poolVars, thdl, ready, pc, rec, signalVars>>

\* AcReceptor_init; the thdl of a receptor never used is not read.
Init ==
  /\ state = [r \in Receptors |-> "UNUSED"]
  /\ thdl = [r \in Receptors |-> NO_ONE]
  /\ ready = Threads
  /\ pc = [t \in Threads |-> "idle"]
  /\ rec = [t \in Threads |-> NULL]
  /\ held = [t \in Waiters |-> {}]
  /\ exp = [s \in Signalers |-> NO_ONE]
  /\ seen = [s \in Signalers |-> NO_ONE]
  /\ given = {}
  /\ saw = [s \in Signalers |-> "none"]

Goto(t, p) == pc' = [pc EXCEPT ![t] = p]
At(t, p) == t \in ready /\ pc[t] = p

\* The history saw: what a signal met when it began, as long as that is so.
\* "asleep": the waiter sleeps and no other signal of the receptor is under way;
\* "outside": the receptor is active and its waiter is not in a wait on it.
InWait(t, r) == rec[t] = r /\ pc[t] \in {"wait", "sleep", "resume", "wait2", "failed"}
Asleep(t, r) == rec[t] = r /\ pc[t] = "resume" /\ t \notin ready
Forget(r, what) ==
  saw' = [s \in Signalers |-> IF rec[s] = r /\ saw[s] = what THEN "none" ELSE saw[s]]

-----------------------------------------------------------------------------
(* AcReceptor_get and AcReceptor_ret                                       *)

GetStart(t) ==
  /\ At(t, "idle")
  /\ Goto(t, "get")
  /\ rec' = [rec EXCEPT ![t] = 0]
  /\ UNCHANGED <<poolVars, thdl, ready, signalVars>>

\* Mutant of Unused: only the final state counts as taken.
UnusedUnlessActive(r) == state[r] # "ACTIVE"
Unused(r) == state[r] = "UNUSED"

IsLast(r) == r = MaxReceptors - 1

\* The compare and exchange at the receptor the loop is at; it is the thread's,
\* or the loop goes on, or ends with AC_NULL.
GetCas(t) ==
  /\ At(t, "get")
  /\ Unused(rec[t])
  /\ state' = [state EXCEPT ![rec[t]] = "INITIALIZING"]
  /\ Goto(t, "clear")
  /\ UNCHANGED <<held, given, thdl, ready, rec, signalVars>>

GetNext(t) ==
  /\ At(t, "get")
  /\ ~Unused(rec[t])
  /\ IF IsLast(rec[t])
       THEN Goto(t, "idle") /\ rec' = [rec EXCEPT ![t] = NULL]
       ELSE rec' = [rec EXCEPT ![t] = @ + 1] /\ UNCHANGED pc
  /\ UNCHANGED <<poolVars, thdl, ready, signalVars>>

GetClear(t) ==
  /\ At(t, "clear")
  /\ thdl' = [thdl EXCEPT ![rec[t]] = NO_ONE]
  /\ Goto(t, "activate")
  /\ UNCHANGED <<poolVars, ready, rec, signalVars>>

GetActivate(t) ==
  /\ At(t, "activate")
  /\ state' = [state EXCEPT ![rec[t]] = "ACTIVE"]
  /\ held' = [held EXCEPT ![t] = @ \cup {rec[t]}]
  /\ given' = given \cup {rec[t]}
  /\ Goto(t, "idle")
  /\ rec' = [rec EXCEPT ![t] = NULL]
  /\ UNCHANGED <<thdl, ready, signalVars>>

\* The receptor's get is over when its owner returns it, so the loop that
\* yields while it is INITIALIZING ends at once.
RetCas(t, r) ==
  /\ At(t, "idle")
  /\ r \in held[t]
  /\ state[r] = "ACTIVE"
  /\ state' = [state EXCEPT ![r] = "DEINITIALIZING"]
  /\ rec' = [rec EXCEPT ![t] = r]
  /\ Goto(t, "ret")
  /\ Forget(r, "outside")
  /\ UNCHANGED <<held, given, thdl, ready, exp, seen>>

RetClear(t) ==
  /\ At(t, "ret")
  /\ thdl' = [thdl EXCEPT ![rec[t]] = NO_ONE]
  /\ Goto(t, "free")
  /\ UNCHANGED <<poolVars, ready, rec, signalVars>>

RetFree(t) ==
  /\ At(t, "free")
  /\ state' = [state EXCEPT ![rec[t]] = "UNUSED"]
  /\ held' = [held EXCEPT ![t] = @ \ {rec[t]}]
  /\ Goto(t, "idle")
  /\ rec' = [rec EXCEPT ![t] = NULL]
  /\ UNCHANGED <<given, thdl, ready, signalVars>>

-----------------------------------------------------------------------------
(* AcReceptor_wait                                                         *)

WaitStart(t, r) ==
  /\ At(t, "idle")
  /\ r \in held[t]
  /\ rec' = [rec EXCEPT ![t] = r]
  /\ Goto(t, "wait")
  /\ Forget(r, "outside")
  /\ UNCHANGED <<poolVars, thdl, ready, exp, seen>>

\* Case 1: it is not signaled and no one waits, so t will.
WaitCas(t) ==
  /\ At(t, "wait")
  /\ IF thdl[rec[t]] = NO_ONE
       THEN thdl' = [thdl EXCEPT ![rec[t]] = t] /\ Goto(t, "sleep")
       ELSE Goto(t, "wait2") /\ UNCHANGED thdl
  /\ UNCHANGED <<poolVars, ready, rec, signalVars>>

\* thread_make_not_ready
WaitSleep(t) ==
  /\ At(t, "sleep")
  /\ ready' = ready \ {t}
  /\ Goto(t, "resume")
  /\ UNCHANGED <<poolVars, thdl, rec, signalVars>>

\* Mutant of NoLongerWaiting: the handle stays.
NoLongerWaitingNot(r) == UNCHANGED thdl
NoLongerWaiting(r) == thdl' = [thdl EXCEPT ![r] = NO_ONE]

WaitResume(t) ==
  /\ At(t, "resume")
  /\ NoLongerWaiting(rec[t])
  /\ Goto(t, "idle")
  /\ rec' = [rec EXCEPT ![t] = NULL]
  /\ UNCHANGED <<poolVars, ready, signalVars>>

\* Case 2: it is signaled already.  Or case 3: someone else waits, "a programmer
\* error".
WaitCas2(t) ==
  /\ At(t, "wait2")
  /\ IF thdl[rec[t]] = SIGNALED
       THEN /\ thdl' = [thdl EXCEPT ![rec[t]] = NO_ONE]
            /\ Goto(t, "idle")
            /\ rec' = [rec EXCEPT ![t] = NULL]
       ELSE Goto(t, "failed") /\ UNCHANGED <<thdl, rec>>
  /\ UNCHANGED <<poolVars, ready, signalVars>>

-----------------------------------------------------------------------------
(* AcReceptor_signal; AcReceptor_signal_yield_if_waiting does the same and *)
(* yields, which the interleaving of the threads includes.                 *)

Signaling(s, r) == pc[s] # "idle" /\ rec[s] = r

\* Mutant of FirstExpected: expected is what the signal before left in it.
FirstExpectedOld(s) == exp[s]
FirstExpected(s) == NO_ONE

SignalStart(s, r) ==
  /\ At(s, "idle")
  /\ rec' = [rec EXCEPT ![s] = r]
  /\ exp' = [exp EXCEPT ![s] = FirstExpected(s)]
  /\ Goto(s, "cas")
  /\ saw' = [saw EXCEPT ![s] =
       IF \E t \in Waiters : /\ Asleep(t, r)
                             /\ thdl[r] = t
                             /\ \A o \in Signalers : ~Signaling(o, r) THEN "asleep"
       ELSE IF state[r] = "ACTIVE" /\ \A t \in Waiters : ~InWait(t, r) THEN "outside"
       ELSE "none"]
  /\ UNCHANGED <<poolVars, thdl, ready, seen>>

\* The loop's compare and exchange: a failed one leaves what it found in expected.
SignalCas(s) ==
  /\ At(s, "cas")
  /\ IF thdl[rec[s]] = exp[s]
       THEN /\ thdl' = [thdl EXCEPT ![rec[s]] = SIGNALED]
            /\ Goto(s, "idle")
            /\ UNCHANGED exp
       ELSE /\ exp' = [exp EXCEPT ![s] = thdl[rec[s]]]
            /\ Goto(s, "load")
            /\ UNCHANGED thdl
  /\ UNCHANGED <<poolVars, ready, rec, seen, saw>>

AfterLoad(h) == CASE h = NO_ONE -> "cas" [] h = SIGNALED -> "idle" [] OTHER -> "wake"

SignalLoad(s) ==
  /\ At(s, "load")
  /\ seen' = [seen EXCEPT ![s] = thdl[rec[s]]]
  /\ Goto(s, AfterLoad(thdl[rec[s]]))
  /\ UNCHANGED <<poolVars, thdl, ready, rec, exp, saw>>

\* thread_make_ready: the thread that was loaded, whatever it does by now.
SignalWake(s) ==
  /\ At(s, "wake")
  /\ ready' = ready \cup {seen[s]}
  /\ Goto(s, "idle")
  /\ saw' = [o \in Signalers |->
       IF saw[o] = "asleep" /\ Asleep(seen[s], rec[o]) THEN "none" ELSE saw[o]]
  /\ UNCHANGED <<poolVars, thdl, rec, exp, seen>>

-----------------------------------------------------------------------------
WaiterStep(t) ==
  \/ GetStart(t) \/ GetCas(t) \/ GetNext(t) \/ GetClear(t) \/ GetActivate(t)
  \/ \E r \in held[t] : RetCas(t, r) \/ WaitStart(t, r)
  \/ RetClear(t) \/ RetFree(t)
  \/ WaitCas(t) \/ WaitSleep(t) \/ WaitResume(t) \/ WaitCas2(t)

SignalerStep(s) ==
  \/ \E r \in given : SignalStart(s, r)
  \/ SignalCas(s) \/ SignalLoad(s) \/ SignalWake(s)

Next == \/ \E t \in Waiters : WaiterStep(t)
        \/ \E s \in Signalers : SignalerStep(s)

Spec == Init /\ [][Next]_vars

-----------------------------------------------------------------------------
WaiterPlaces == {"idle", "get", "clear", "activate", "ret", "free", "wait", "sleep",
                 "resume", "wait2", "failed"}
SignalerPlaces == {"idle", "cas", "load", "wake"}

\* The types of the variables; only waiters sleep.
TypeOK ==
  /\ state \in [Receptors -> {"UNUSED", "INITIALIZING", "ACTIVE", "DEINITIALIZING"}]
  /\ thdl \in [Receptors -> {NO_ONE, SIGNALED} \cup Waiters]
  /\ ready \subseteq Threads /\ Signalers \subseteq ready
  /\ pc \in [Threads -> WaiterPlaces \cup SignalerPlaces]
  /\ \A t \in Waiters : pc[t] \in WaiterPlaces
  /\ \A s \in Signalers : pc[s] \in SignalerPlaces
  /\ rec \in [Threads -> Receptors \cup {NULL}]
  /\ \A t \in Threads : pc[t] # "idle" => rec[t] # NULL
  /\ held \in [Waiters -> SUBSET Receptors]
  /\ exp \in [Signalers -> {NO_ONE, SIGNALED} \cup Waiters]
  /\ seen \in [Signalers -> {NO_ONE, SIGNALED} \cup Waiters]
  /\ \A s \in Signalers : pc[s] = "wake" => seen[s] \in Waiters
  /\ given \subseteq Receptors
  /\ saw \in [Signalers -> {"none", "asleep", "outside"}]

\* The receptors thread t has for itself: it got them or is about to.
Has(t) == held[t] \cup (IF pc[t] \in {"clear", "activate"} THEN {rec[t]} ELSE {})

\* AcReceptor_get gives a receptor to one thread, until it is returned, however
\* gets and returns interleave.
OneHolder ==
  /\ \A t, u \in Waiters : t # u => Has(t) \cap Has(u) = {}
  /\ \A t \in Waiters : \A r \in Has(t) : state[r] # "UNUSED"

\* AcReceptor_wait never finds someone else waiting (its case 3) when each thread
\* waits on its own receptors only: no signal, late or stale, and no wake-up
\* meant for another receptor leaves a handle behind.
WaitNeverFails == \A t \in Waiters : pc[t] # "failed"

\* "If the receptor has already been signaled AcReceptor_wait will return
\* immediately": a signal that was done while the receptor's thread was not in
\* a wait is there when it waits next.
SignalIsKept ==
  \A s \in Signalers : pc[s] = "idle" /\ saw[s] = "outside" => thdl[rec[s]] = SIGNALED

\* A signal that begins while the thread sleeps, when no other signal of that
\* receptor is under way, does not return before the thread is ready.
SignalWakes == \A s \in Signalers : ~(pc[s] = "idle" /\ saw[s] = "asleep")

\* As the comment of AcReceptor_wait has it, no thread sleeps on a receptor that
\* is signaled: such a thread would not be found by any later signal.
SignaledNotAsleep ==
  \A t \in Waiters : \A r \in Receptors : Asleep(t, r) => thdl[r] # SIGNALED

=============================================================================
