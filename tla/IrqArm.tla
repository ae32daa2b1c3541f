------------------------------- MODULE IrqArm -------------------------------
(***************************************************************************)
(* Interrupts on ARM (ac_exceptions.c, ac_exception_irq_wrapper.S, the     *)
(* timers of ac_timer and of ac_thread's _timer.c): a table of handlers    *)
(* that threads register in while interrupts walk it, and timers whose     *)
(* interrupt is identified and cleared with interrupts disabled and then   *)
(* handled with them enabled, so that handlers nest.                       *)
(*                                                                         *)
(* A thread that is interrupted walks the table on its own stack; the      *)
(* scheduler may run another thread before it goes on.  The boot           *)
(* registered and started timer 0.                                         *)
(*                                                                         *)
(* External: the SP804's raw interrupt status, the PL190's enable bits.    *)
(***************************************************************************)
EXTENDS Integers, Sequences, FiniteSets

CONSTANTS Threads,
          Programs,   \* a set of: the timers that each thread registers and starts
          OneShots,   \* those of them that are started as one shot timers
          Slots,      \* MAX_HANDLERS
          MaxNest     \* bound: the walks of the table on one stack

IrqAssumption == Programs \subseteq [Threads -> Seq(Nat)] /\ Slots \in Nat \ {0}

Timers == {0} \cup UNION {UNION {{f[p][i] : i \in DOMAIN f[p]} : p \in Threads} : f \in Programs}
None == -1

VARIABLES
  table,    \* irq_handlers
  count,    \* irq_handler_count
  todo,     \* the timers a thread still registers
  rpc,      \* where its registration is
  at,       \* its local i, and the count it read
  ok,       \* the timers whose registration returned 0
  timer,    \* what a timer does: "off", "periodic", "one_shot"
  ris,      \* the timers whose raw interrupt status is set
  source,   \* the timers whose irq_param's source is AC_TRUE
  walks,    \* of each thread: the walks of the table it is in, the last one first
  raced     \* history: two registrations overlapped, or a weak exchange failed

iavars == <<table, count, todo, rpc, at, ok, timer, ris, source, walks, raced>>

Entry(avail, t, iacs, handler) ==
  [available |-> avail, param |-> t, iacs |-> iacs, handler |-> handler]

\* ac_exception_init, and the boot's ac_start_periodic_timer.
Init ==
  /\ table = [i \in 0 .. Slots - 1 |-> IF i = 0 THEN Entry(FALSE, 0, TRUE, TRUE)
                                                ELSE Entry(TRUE, None, FALSE, FALSE)]
  /\ count = 1
  /\ todo \in Programs
  /\ rpc = [p \in Threads |-> "idle"]
  /\ at = [p \in Threads |-> [i |-> 0, read |-> 0]]
  /\ ok = {0}
  /\ timer = [t \in Timers |-> IF t = 0 THEN "periodic" ELSE "off"]
  /\ ris = {}
  /\ source = {}
  /\ walks = [p \in Threads |-> <<>>]
  /\ raced = FALSE

-----------------------------------------------------------------------------
(* ac_exception_irq_register, then ac_timer_periodic or ac_timer_one_shot. *)

Hardware == UNCHANGED <<timer, ris, source, walks>>
Step(p, from, to) ==
  /\ walks[p] = <<>>
  /\ rpc[p] = from
  /\ rpc' = [rpc EXCEPT ![p] = to]

Register(p) ==
  /\ Step(p, "idle", "claim")
  /\ todo[p] # <<>>
  /\ at' = [at EXCEPT ![p].i = count]
  /\ raced' = (raced \/ \E q \in Threads \ {p} : rpc[q] \notin {"idle", "start"})
  /\ UNCHANGED <<table, count, todo, ok>> /\ Hardware

Claim(p) ==
  /\ Step(p, "claim", "param")
  /\ at[p].i < Slots
  /\ table[at[p].i].available
  /\ table' = [table EXCEPT ![at[p].i].available = FALSE]
  /\ UNCHANGED <<raced, count, todo, at, ok>> /\ Hardware

\* The weak compare and exchange fails, with or without reason, or the table is full:
\* the status is 1.
ClaimFails(p) ==
  /\ \/ /\ Step(p, "claim", "claim")
        /\ at[p].i < Slots
        /\ at' = [at EXCEPT ![p].i = @ + 1]
        /\ raced' = TRUE
        /\ UNCHANGED todo
     \/ /\ Step(p, "claim", "idle")
        /\ at[p].i = Slots
        /\ todo' = [todo EXCEPT ![p] = Tail(@)]
        /\ UNCHANGED <<at, raced>>
  /\ UNCHANGED <<table, count, ok>> /\ Hardware

\* Param and iacs, before the handler.
FirstStored(e, t) == [e EXCEPT !.param = t, !.iacs = TRUE]

StoreParam(p) ==
  /\ Step(p, "param", "handler")
  /\ table' = [table EXCEPT ![at[p].i] = FirstStored(@, Head(todo[p]))]
  /\ UNCHANGED <<raced, count, todo, at, ok>> /\ Hardware

StoreHandler(p) ==
  /\ Step(p, "handler", "count")
  /\ table' = [table EXCEPT ![at[p].i] = Entry(FALSE, Head(todo[p]), TRUE, TRUE)]
  /\ at' = [at EXCEPT ![p].read = count]
  /\ UNCHANGED <<raced, count, todo, ok>> /\ Hardware

\* Mutant of Counted: the index that was found, not the one after it.
CountedLess(read) == read

Counted(read) == read + 1

\* irq_handler_count += 1, of the count that was read.
Count(p) ==
  /\ Step(p, "count", "start")
  /\ count' = Counted(at[p].read)
  /\ ok' = ok \cup {Head(todo[p])}
  /\ UNCHANGED <<raced, table, todo, at>> /\ Hardware

\* ac_timer_periodic and ac_timer_one_shot disable the timer, route and enable its
\* interrupt, and enable it.
StartTimer(p) ==
  /\ Step(p, "start", "idle")
  /\ timer' = [timer EXCEPT ![Head(todo[p])] =
                 IF Head(todo[p]) \in OneShots THEN "one_shot" ELSE "periodic"]
  /\ todo' = [todo EXCEPT ![p] = Tail(@)]
  /\ UNCHANGED <<raced, table, count, at, ok, ris, source, walks>>

-----------------------------------------------------------------------------
(* Interrupts.                                                             *)

Registrars == UNCHANGED <<table, count, todo, rpc, at, ok, raced>>

Expire(t) ==
  /\ timer[t] # "off" /\ t \notin ris
  /\ ris' = ris \cup {t}
  /\ timer' = [timer EXCEPT ![t] = IF @ = "one_shot" THEN "off" ELSE @]
  /\ UNCHANGED <<source, walks>> /\ Registrars

\* Mutant of Called: the last handler is left out.
CalledLess(i) == i < count - 1 /\ table[i].handler

\* The loops' condition and the test of the handler.
Called(i) == i < count /\ table[i].handler

\* ac_exception_irq_wrapper: ac_exception_irq_identify_and_clear_source, with
\* interrupts disabled, calls every iacs, which clears its timer's interrupt.
Irq(p) ==
  /\ ris # {}
  /\ Len(walks[p]) < MaxNest
  /\ LET mine == {t \in ris : \E i \in DOMAIN table : Called(i) /\ table[i].param = t}
     IN ris' = ris \ mine /\ source' = source \cup mine
  /\ walks' = [walks EXCEPT ![p] = <<0>> \o @]
  /\ UNCHANGED timer /\ Registrars

\* One turn of ac_exception_irq_handler: a handler takes its source.
Handle(p) ==
  /\ walks[p] # <<>>
  /\ LET i == Head(walks[p])
     IN /\ i < count
        /\ source' = IF Called(i) THEN source \ {table[i].param} ELSE source
        /\ walks' = [walks EXCEPT ![p] = <<i + 1>> \o Tail(@)]
  /\ UNCHANGED <<timer, ris>> /\ Registrars

\* ac_reschedule, and the return to what was interrupted.
Return(p) ==
  /\ walks[p] # <<>> /\ Head(walks[p]) >= count
  /\ walks' = [walks EXCEPT ![p] = Tail(@)]
  /\ UNCHANGED <<timer, ris, source>> /\ Registrars

-----------------------------------------------------------------------------

Program(p) ==
  \/ Register(p) \/ Claim(p) \/ ClaimFails(p) \/ StoreParam(p) \/ StoreHandler(p)
  \/ Count(p) \/ StartTimer(p)

Next ==
  \/ \E p \in Threads : Program(p) \/ Irq(p) \/ Handle(p) \/ Return(p)
  \/ \E t \in Timers : Expire(t)

\* An interrupt is taken, and a thread that is interrupted gets to its end.
Fairness ==
  /\ WF_iavars(\E p \in Threads : Irq(p))
  /\ \A p \in Threads : WF_iavars(Handle(p) \/ Return(p))

Spec == Init /\ [][Next]_iavars /\ Fairness

-----------------------------------------------------------------------------
(* Properties                                                              *)

\* Nothing is called that is not complete, however registrations overlap with each
\* other and with interrupts; and a handler whose registration returned 0 ("return 0
\* if OK") is called by the interrupt, with its parameter, unless registrations did
\* overlap or a weak exchange failed: then its entry may be past the count.
RegisteredIsCalled ==
  /\ \A i \in DOMAIN table : Called(i) => table[i].iacs /\ table[i].param # None
  /\ raced \/ \A t \in ok : \E i \in DOMAIN table : Called(i) /\ table[i].param = t

\* The same, of every registration.
AllRegisteredCalled == \A t \in ok : \E i \in DOMAIN table : Called(i) /\ table[i].param = t

\* Every expiration is cleared and handled, or the interrupt would come back for ever:
\* no timer is started before its handler is called, and walks of the table that nest
\* or are suspended do not lose a source.
Serviced ==
  \A t \in Timers : /\ (t \in ris) ~> (t \notin ris \/ raced)
                    /\ (t \in source) ~> (t \notin source \/ raced)
=============================================================================
