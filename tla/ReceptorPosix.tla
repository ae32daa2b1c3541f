--------------------------- MODULE ReceptorPosix ---------------------------
(***************************************************************************)
(* Receptors on Posix (ac_receptor_impl of platform/Posix): an array of    *)
(* semaphores, each with a state that the threads which get and return     *)
(* receptors change with compare and exchange.  A thread that got a        *)
(* receptor waits on it and then returns it; others signal it meanwhile,   *)
(* as the users do: a signal to a receptor that was returned is the race   *)
(* that the source's caution is about.                                     *)
(*                                                                         *)
(* External: the semaphores of the C library.                              *)
(***************************************************************************)
EXTENDS Integers, FiniteSets

CONSTANTS Receptors,    \* 0 .. max_count - 1
          Users,
          MaxPosts      \* bound: signals for one use of a receptor

None == -1

VARIABLES
  rstate,   \* "unused", "initializing", "active" or "deinitializing"
  sem,      \* the semaphore's value, None while there is none
  upc,      \* where a thread is
  ui,       \* the index AcReceptor_get is at, then the receptor it got
  posts     \* history: the signals since a thread got its receptor, and its waits

rpvars == <<rstate, sem, upc, ui, posts>>

Init ==
  /\ rstate = [r \in Receptors |-> "unused"]
  /\ sem = [r \in Receptors |-> None]
  /\ upc = [t \in Users |-> "idle"]
  /\ ui = [t \in Users |-> 0]
  /\ posts = [t \in Users |-> [made |-> 0, waits |-> 0]]

Step(t, from, to) == upc[t] = from /\ upc' = [upc EXCEPT ![t] = to]
SetState(r, s) == rstate' = [rstate EXCEPT ![r] = s]
Holders == {t \in Users : upc[t] \in {"held", "waiting"}}

-----------------------------------------------------------------------------

Get(t) ==
  /\ Step(t, "idle", "find")
  /\ ui' = [ui EXCEPT ![t] = 0]
  /\ UNCHANGED <<rstate, sem, posts>>

\* Mutant of Unused: a receptor that is being initialized passes, too.
UnusedOrInit(r) == rstate[r] \in {"unused", "initializing"}

Unused(r) == rstate[r] = "unused"

Claim(t) ==
  /\ Step(t, "find", "init")
  /\ ui[t] \in Receptors /\ Unused(ui[t])
  /\ SetState(ui[t], "initializing")
  /\ UNCHANGED <<sem, ui, posts>>

\* The weak compare and exchange fails, with or without reason; after the last one
\* there is no receptor.
Skip(t) ==
  /\ \/ /\ Step(t, "find", "find")
        /\ ui[t] \in Receptors
        /\ ui' = [ui EXCEPT ![t] = @ + 1]
     \/ /\ Step(t, "find", "idle")
        /\ ui[t] \notin Receptors
        /\ UNCHANGED ui
  /\ UNCHANGED <<rstate, sem, posts>>

SemInit(t) ==
  /\ Step(t, "init", "activate")
  /\ sem' = [sem EXCEPT ![ui[t]] = 0]
  /\ UNCHANGED <<rstate, ui, posts>>

Activate(t) ==
  /\ Step(t, "activate", "held")
  /\ SetState(ui[t], "active")
  /\ posts' = [posts EXCEPT ![t] = [made |-> 0, waits |-> 0]]
  /\ UNCHANGED <<sem, ui>>

-----------------------------------------------------------------------------

Posted(n) == n + 1

\* AcReceptor_signal and AcReceptor_signal_yield_if_waiting, of t's receptor.
Signal(t) ==
  /\ t \in Holders
  /\ posts[t].made < MaxPosts
  /\ sem' = [sem EXCEPT ![ui[t]] = Posted(@)]
  /\ posts' = [posts EXCEPT ![t].made = @ + 1]
  /\ UNCHANGED <<rstate, upc, ui>>

Wait(t) ==
  /\ Step(t, "held", "waiting")
  /\ posts[t].waits < MaxPosts
  /\ UNCHANGED <<rstate, sem, ui, posts>>

Wake(t) ==
  /\ Step(t, "waiting", "held")
  /\ sem[ui[t]] > 0
  /\ sem' = [sem EXCEPT ![ui[t]] = @ - 1]
  /\ posts' = [posts EXCEPT ![t].waits = @ + 1]
  /\ UNCHANGED <<rstate, ui>>

\* AcReceptor_ret, of a thread that is done with its receptor.
Ret(t) ==
  /\ Step(t, "held", "destroy")
  /\ rstate[ui[t]] = "active"
  /\ SetState(ui[t], "deinitializing")
  /\ UNCHANGED <<sem, ui, posts>>

\* Its weak compare and exchange fails: the receptor stays active, of nobody.
RetFails(t) ==
  /\ Step(t, "held", "idle")
  /\ UNCHANGED <<rstate, sem, ui, posts>>

Destroy(t) ==
  /\ Step(t, "destroy", "unuse")
  /\ sem' = [sem EXCEPT ![ui[t]] = None]
  /\ UNCHANGED <<rstate, ui, posts>>

Unuse(t) ==
  /\ Step(t, "unuse", "idle")
  /\ SetState(ui[t], "unused")
  /\ UNCHANGED <<sem, ui, posts>>

-----------------------------------------------------------------------------

User(t) ==
  \/ Get(t) \/ Claim(t) \/ Skip(t) \/ SemInit(t) \/ Activate(t) \/ Wait(t) \/ Wake(t)
  \/ Ret(t) \/ RetFails(t) \/ Destroy(t) \/ Unuse(t)

Next == \E t \in Users : User(t) \/ Signal(t)

Spec == Init /\ [][Next]_rpvars /\ \A t \in Users : WF_rpvars(Wake(t))

-----------------------------------------------------------------------------
(* Properties                                                              *)

\* However threads get and return receptors at once, each one in use is one thread's,
\* with a semaphore of its own, which holds exactly the signals that were made and
\* not yet waited for: none is lost, and a wait returns for a signal of this use only.
SignalsAreKept ==
  LET users == {t \in Users : upc[t] \notin {"idle", "find"}}
  IN /\ \A t, u \in users : ui[t] = ui[u] => t = u
     /\ \A t \in Holders : /\ rstate[ui[t]] = "active"
                           /\ sem[ui[t]] = posts[t].made - posts[t].waits
=============================================================================
