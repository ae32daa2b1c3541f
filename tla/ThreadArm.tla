----------------------------- MODULE ThreadArm -----------------------------
(***************************************************************************)
(* Threads on ARM (ac_thread of arm1176jzf-s): a ring of tcbs that the     *)
(* scheduler walks, on one processor that the periodic timer takes away at *)
(* any instruction.  Threads create threads, each with a stack and a tcb   *)
(* of the pool, and end as zombies, which the scheduler skips.             *)
(*                                                                         *)
(* The pool's tcbs are 1 .. MaxThreads.  Interrupts are disabled in        *)
(* add_after and in the scheduler: those are one step each.  Waiting is    *)
(* not implemented.                                                        *)
(*                                                                         *)
(* remove_zombies is not here: only idle calls it, and ReadyRing shows     *)
(* that idle never runs.                                                   *)
(***************************************************************************)
EXTENDS Integers, FiniteSets

CONSTANTS MaxThreads,   \* pthreads->max_count
          Stacks        \* how many stacks ac_malloc has room for

Slots == 1 .. MaxThreads
Main == MaxThreads + 1      \* main_tcb
Idle == MaxThreads + 2      \* idle_tcb
Tcbs == Slots \cup {Main, Idle}
Nil == 0

ThreadArmAssumption == MaxThreads \in Nat /\ Stacks \in Nat

VARIABLES
  tid,      \* thread_id: "empty", "starting", "zombie", or "id" for a number
  pnext,    \* pnext_tcb
  pready,   \* the tcb that runs
  framed,   \* sp points to a frame (its own, or the first one)
  pstack,   \* pstack is a stack
  at,       \* where each thread is
  got,      \* the index get_tcb is at, then the tcb it got
  heap      \* stacks that are free

tavars == <<tid, pnext, pready, framed, pstack, at, got, heap>>

Assign(f, t, v) == [f EXCEPT ![t] = v]

\* ac_thread_early_init and ac_thread_init.  The frame of idle is built, but its
\* address is not kept.
Init ==
  /\ tid = [t \in Tcbs |-> IF t \in Slots THEN "empty" ELSE "id"]
  /\ pnext = [t \in Tcbs |-> IF t = Main THEN Idle ELSE IF t = Idle THEN Main ELSE Nil]
  /\ pready = Main
  /\ framed = [t \in Tcbs |-> FALSE]
  /\ pstack = [t \in Tcbs |-> t = Idle]
  /\ at = [t \in Tcbs |-> IF t = Main THEN "run" ELSE "new"]
  /\ got = [t \in Tcbs |-> Nil]
  /\ heap = Stacks

-----------------------------------------------------------------------------
(* thread_create, by the thread t that runs.                               *)

Step(t, from, to) == pready = t /\ at[t] = from /\ at' = Assign(at, t, to)

Malloc(t) ==
  /\ Step(t, "run", "get")
  /\ heap > 0
  /\ heap' = heap - 1
  /\ got' = Assign(got, t, 1)
  /\ UNCHANGED <<tid, pnext, pready, framed, pstack>>

\* Mutant of Claimed: the tcb is taken by the later store only.
ClaimedNot(id) == id

\* What the compare and exchange of get_tcb stores.
Claimed(id) == "starting"

Claim(t) ==
  /\ Step(t, "get", "init")
  /\ got[t] <= MaxThreads
  /\ tid[got[t]] = "empty"
  /\ tid' = Assign(tid, got[t], Claimed("empty"))
  /\ UNCHANGED <<pnext, pready, framed, pstack, got, heap>>

\* The weak compare and exchange fails, with or without reason.
Skip(t) ==
  /\ Step(t, "get", "get")
  /\ got[t] <= MaxThreads
  /\ got' = Assign(got, t, got[t] + 1)
  /\ UNCHANGED <<tid, pnext, pready, framed, pstack, heap>>

\* No tcb: the stack is freed.
NoTcb(t) ==
  /\ Step(t, "get", "run")
  /\ got[t] > MaxThreads
  /\ heap' = heap + 1
  /\ got' = Assign(got, t, Nil)
  /\ UNCHANGED <<tid, pnext, pready, framed, pstack>>

TcbInit(t) ==
  /\ Step(t, "init", "frame")
  /\ pstack' = Assign(pstack, got[t], FALSE)
  /\ tid' = Assign(tid, got[t], "id")
  /\ UNCHANGED <<pnext, pready, framed, got, heap>>

InitStackFrame(t) ==
  /\ Step(t, "frame", "add")
  /\ pstack' = Assign(pstack, got[t], TRUE)
  /\ framed' = Assign(framed, got[t], TRUE)
  /\ UNCHANGED <<tid, pnext, pready, got, heap>>

\* Mutant of After: the two stores in the other order.
AfterSwapped(cur, new) == [pnext EXCEPT ![cur] = new, ![new] = new]

After(cur, new) == [pnext EXCEPT ![new] = pnext[cur], ![cur] = new]

\* add_after(pready, ptcb): pready is t, which runs.
AddAfter(t) ==
  /\ Step(t, "add", "run")
  /\ pnext' = After(t, got[t])
  /\ got' = Assign(got, t, Nil)
  /\ UNCHANGED <<tid, pready, framed, pstack, heap>>

-----------------------------------------------------------------------------
(* The rest of a thread's life, and the scheduler.                         *)

\* entry_trampoline calls the entry.
Start(t) ==
  /\ Step(t, "new", "run")
  /\ UNCHANGED <<tid, pnext, pready, framed, pstack, got, heap>>

\* The entry returned.
BecomeZombie(t) ==
  /\ t \in Slots
  /\ Step(t, "run", "ended")
  /\ tid' = Assign(tid, t, "zombie")
  /\ UNCHANGED <<pnext, pready, framed, pstack, got, heap>>

\* next_tcb of t returns u: the tcb that is no zombie of those it comes to, which are
\* those in every set that has the next of t and of each zombie in it.
NextTcb(t, u) ==
  /\ tid[u] # "zombie"
  /\ \A S \in SUBSET Tcbs :
       pnext[t] \in S /\ (\A v \in S : tid[v] = "zombie" => pnext[v] \in S) => u \in S

\* ac_thread_yield, the timer's interrupt, or the end of entry_trampoline.  Idle is
\* skipped once.
Reschedule ==
  /\ framed' = Assign(framed, pready, TRUE)
  /\ pready' \in Tcbs
  /\ \/ NextTcb(pready, pready') /\ pready' # Idle
     \/ NextTcb(pready, Idle) /\ NextTcb(Idle, pready')
  /\ UNCHANGED <<tid, pnext, pstack, at, got, heap>>

Thread(t) ==
  \/ Malloc(t) \/ Claim(t) \/ Skip(t) \/ NoTcb(t) \/ TcbInit(t) \/ InitStackFrame(t)
  \/ AddAfter(t) \/ Start(t) \/ BecomeZombie(t)

Next == Reschedule \/ \E t \in Tcbs : Thread(t)

(* The timer interrupts the thread that runs again and again, and a thread *)
(* that has the processor in each of its turns takes its steps.            *)
Fairness ==
  /\ WF_tavars(Reschedule)
  /\ \A t \in Tcbs : SF_tavars(Thread(t))

Spec == Init /\ [][Next]_tavars /\ Fairness

-----------------------------------------------------------------------------
(* Properties                                                              *)

\* The tcbs that the links lead to, from t: those in every set that has t and that no
\* link leaves.
Closed(S) == \A u \in S : pnext[u] # Nil => pnext[u] \in S
From(t) == {u \in Tcbs : \A S \in SUBSET Tcbs : t \in S /\ Closed(S) => u \in S}

\* However threads are added and end while others run, every tcb that was added is
\* on the ring, from whichever tcb one starts, and the scheduler never gives the
\* processor to a tcb that has no frame (idle's is lost) or to one that ended.  As
\* next_tcb assumes, its loop ends.
ReadyRing ==
  /\ \A t \in From(pready) : From(t) = {u \in Tcbs : pnext[u] # Nil}
  /\ {Main, Idle} \subseteq From(pready)
  /\ pready # Idle
  /\ \A t \in From(pready) : \E u \in Tcbs : NextTcb(t, u)
  /\ \A t \in From(pready) \ {Idle, pready} : framed[t]
  /\ tid[pready] = "zombie" => at[pready] = "ended"

\* No tcb and no stack is lost or used twice by threads that create threads at once:
\* a tcb that is not empty is on the ring or held by one creator, and every stack is
\* free, a creator's, or a tcb's.
CreateAccounts ==
  LET holders == {t \in Tcbs : at[t] \in {"init", "frame", "add"}}
      ungiven == {t \in Tcbs : at[t] \in {"get", "init", "frame"}}
  IN /\ \A t, u \in holders : got[t] = got[u] => t = u
     /\ \A s \in Slots :
          IF pnext[s] = Nil THEN (tid[s] # "empty") = (\E t \in holders : got[t] = s)
          ELSE tid[s] \in {"id", "zombie"} /\ \A t \in holders : got[t] # s
     /\ heap + Cardinality(ungiven) + Cardinality({s \in Slots : pstack[s]}) = Stacks

\* A thread that was created runs.
CreatedRuns == \A s \in Slots : (pnext[s] # Nil) ~> (at[s] # "new")

\* "the thread is considered dead and will not be rescheduled and its stack is
\* reclamined", ac_thread.c of ac_thread_create: it is not, for idle never runs.
DeadIsReclaimed == \A s \in Slots : (tid[s] = "zombie") ~> ~pstack[s]

\* Both: every tcb is on the ring, with one creator, or empty.
TcbsAccounted == ReadyRing /\ CreateAccounts
=============================================================================
