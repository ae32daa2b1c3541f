---------------------------- MODULE ThreadPosix ----------------------------
(***************************************************************************)
(* Threads on Posix (ac_thread of platform/Posix): an array of tcbs that   *)
(* ac_thread_create takes with a compare and exchange for a thread of the  *)
(* C library's, and that the thread gives back when its entry returns.     *)
(*                                                                         *)
(* External: pthread_create, which may fail, and which stores the new      *)
(* thread's id before the thread runs; the threads, which run at any time. *)
(***************************************************************************)
EXTENDS Integers, Sequences, FiniteSets

CONSTANTS MaxThreads,   \* of ac_thread_init
          Creators,     \* the threads that create others
          MaxCalls      \* bound: calls of ac_thread_create

Slots == 0 .. MaxThreads    \* one more, for main
NoEntry == 0

VARIABLES
  tid,      \* thread_id: "empty", "not_empty" or "id"
  entry,    \* the entry of each tcb: the number of the call that passed it
  cpc,      \* where a creator is
  call,     \* its call's number, the index it is at, and its error
  calls,    \* calls so far
  pths,     \* the threads created: [slot, call, ran, at, retried]
  results,  \* the status each call returned
  stopped   \* an assertion failed: the process ends

tpvars == <<tid, entry, cpc, call, calls, pths, results, stopped>>

\* ac_thread_init.
Init ==
  /\ tid = [s \in Slots |-> IF s = 0 THEN "id" ELSE "empty"]
  /\ entry = [s \in Slots |-> NoEntry]
  /\ cpc = [c \in Creators |-> "idle"]
  /\ call = [c \in Creators |-> [n |-> 0, i |-> 0, error |-> FALSE]]
  /\ calls = 0
  /\ pths = <<>>
  /\ results = <<>>
  /\ stopped = FALSE

-----------------------------------------------------------------------------
(* ac_thread_create.                                                       *)

Step(c, from, to) == ~stopped /\ cpc[c] = from /\ cpc' = [cpc EXCEPT ![c] = to]

Create(c) ==
  /\ Step(c, "idle", "find")
  /\ calls < MaxCalls
  /\ calls' = calls + 1
  /\ call' = [call EXCEPT ![c] = [n |-> calls + 1, i |-> 0, error |-> FALSE]]
  /\ UNCHANGED <<tid, entry, pths, results, stopped>>

\* pthread_attr_setstacksize refuses the size.
BadStackSize(c) ==
  /\ Step(c, "idle", "idle")
  /\ calls < MaxCalls
  /\ calls' = calls + 1
  /\ results' = Append(results, [call |-> calls + 1, status |-> 1])
  /\ UNCHANGED <<tid, entry, call, pths, stopped>>

\* Mutant of Free: the id is not looked at.
FreeAny(s) == s # 0

Free(s) == tid[s] = "empty"

Claim(c) ==
  /\ Step(c, "find", "create")
  /\ call[c].i \in Slots
  /\ Free(call[c].i)
  /\ tid' = [tid EXCEPT ![call[c].i] = "not_empty"]
  /\ entry' = [entry EXCEPT ![call[c].i] = call[c].n]
  /\ UNCHANGED <<call, calls, pths, results, stopped>>

\* The weak compare and exchange fails, with or without reason.
Skip(c) ==
  /\ Step(c, "find", "find")
  /\ call[c].i \in Slots
  /\ call' = [call EXCEPT ![c].i = @ + 1]
  /\ UNCHANGED <<tid, entry, calls, pths, results, stopped>>

NoSlot(c) ==
  /\ Step(c, "find", "idle")
  /\ call[c].i \notin Slots
  /\ results' = Append(results, [call |-> call[c].n, status |-> 1])
  /\ UNCHANGED <<tid, entry, call, calls, pths, stopped>>

PthreadCreate(c) ==
  /\ Step(c, "create", "assert")
  /\ tid' = [tid EXCEPT ![call[c].i] = "id"]
  /\ pths' = Append(pths, [slot |-> call[c].i, call |-> call[c].n, ran |-> NoEntry,
                           at |-> "new", retried |-> call[c].error])
  /\ UNCHANGED <<entry, call, calls, results, stopped>>

\* It fails, and what it stored, if anything, is not defined.
PthreadFails(c) ==
  /\ Step(c, "create", "assert")
  /\ \E id \in {"not_empty", "id"} : tid' = [tid EXCEPT ![call[c].i] = id]
  /\ call' = [call EXCEPT ![c].error = TRUE]
  /\ UNCHANGED <<entry, calls, pths, results, stopped>>

\* The two assertions: the slot has the id of a thread.
Assert(c) ==
  /\ Step(c, "assert", "decide")
  /\ stopped' = (tid[call[c].i] # "id")
  /\ UNCHANGED <<tid, entry, call, calls, pths, results>>

Decides(c) == ~call[c].error

\* An error, of this try or of one before, marks the slot as empty again.
Decide(c) ==
  /\ \/ /\ Step(c, "decide", "idle")
        /\ Decides(c)
        /\ results' = Append(results, [call |-> call[c].n, status |-> 0])
        /\ UNCHANGED <<tid, call>>
     \/ /\ Step(c, "decide", "find")
        /\ ~Decides(c)
        /\ tid' = [tid EXCEPT ![call[c].i] = "empty"]
        /\ call' = [call EXCEPT ![c].i = @ + 1]
        /\ UNCHANGED results
  /\ UNCHANGED <<entry, calls, pths, stopped>>

-----------------------------------------------------------------------------
(* entry_trampoline.                                                       *)

Thread(k, from, to) ==
  /\ ~stopped
  /\ k \in DOMAIN pths /\ pths[k].at = from
  /\ UNCHANGED <<cpc, call, calls, results, stopped>>

Invoke(k) ==
  /\ Thread(k, "new", "run")
  /\ pths' = [pths EXCEPT ![k].at = "run", ![k].ran = entry[pths[k].slot]]
  /\ UNCHANGED <<tid, entry>>

Return(k) ==
  /\ Thread(k, "run", "ended")
  /\ pths' = [pths EXCEPT ![k].at = "ended"]
  /\ tid' = [tid EXCEPT ![pths[k].slot] = "empty"]
  /\ UNCHANGED entry

Creator(c) ==
  \/ Create(c) \/ BadStackSize(c) \/ Claim(c) \/ Skip(c) \/ NoSlot(c) \/ PthreadCreate(c)
  \/ PthreadFails(c) \/ Assert(c) \/ Decide(c)

Next ==
  \/ \E c \in Creators : Creator(c)
  \/ \E k \in 1 .. MaxCalls * MaxThreads : Invoke(k) \/ Return(k)

Spec == Init /\ [][Next]_tpvars

-----------------------------------------------------------------------------
(* Properties                                                              *)

\* However creators, threads that end, and failures overlap: a thread runs the entry
\* its creator passed, no two threads that have not ended are in one tcb, a thread's
\* tcb is taken until it ends, a call that returns 0 made a thread, and one that
\* returns an error made none.  What ac_thread_create does after pthread_create
\* failed is left out: error stays set, and a thread that is made then loses its tcb.
ThreadsHaveTcbs ==
  (\A k \in DOMAIN pths : ~pths[k].retried) =>
    /\ \A k \in DOMAIN pths : pths[k].ran \in {NoEntry, pths[k].call}
    /\ \A k, m \in DOMAIN pths :
         pths[k].slot = pths[m].slot /\ pths[k].at # "ended" /\ pths[m].at # "ended" => k = m
    /\ \A k \in DOMAIN pths : pths[k].at # "ended" => tid[pths[k].slot] = "id"
    /\ \A n \in DOMAIN results :
         (results[n].status = 0) = (\E k \in DOMAIN pths : pths[k].call = results[n].call)

\* "ac_assert(*pthread_id != AC_THREAD_ID_EMPTY)", of ac_thread_create: fails if the
\* thread's entry has returned by then.
AssertHolds == ~stopped
=============================================================================
