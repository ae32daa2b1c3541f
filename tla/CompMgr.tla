------------------------------ MODULE CompMgr -------------------------------
(***************************************************************************)
(* AcCompMgr (libs/ac_comp_mgr): threads that each dispatch messages to    *)
(* the components in some of the manager's slots.                          *)
(*                                                                         *)
(* The client, one thread, initialises the manager, adds and removes       *)
(* components and deinitialises it; senders send; the dispatch threads     *)
(* run all the time.  AcDispatcher is the set of the components that are   *)
(* registered with it (Dispatcher has the detail; that an add may fail     *)
(* while the thread dispatches is what that module finds), a receptor is   *)
(* signaled or not (its contract: Receptor has the detail), a component's  *)
(* queue is a sequence.                                                    *)
(*                                                                         *)
(* What the client guarantees: a component is not used while it is         *)
(* removed, which the code leaves open ("TODO: Race"), a component is      *)
(* added once, and the deinit is the last call.                            *)
(***************************************************************************)
EXTENDS Naturals, Sequences, FiniteSets

CONSTANTS
  Comps, Senders,
  MaxDtps,     \* max_component_threads
  MaxComps,    \* max_components_per_thread
  MaxSends,    \* bound: how many messages are sent
  NULL

Dtps == 0 .. MaxDtps - 1
Slots == 0 .. MaxDtps * MaxComps - 1

ASSUME CompMgrAssumption ==
  /\ MaxDtps \in Nat \ {0} /\ MaxComps \in Nat \ {0}
  /\ MaxSends \in Nat
  /\ NULL \notin Comps \cup Dtps \cup Slots /\ \A S \in SUBSET Comps : S # NULL

VARIABLES
  slot,      \* mgr->comps; dtps[i].comps[j] points to slot i * MaxComps + j
  nextDtp,   \* mgr->next_dtps
  ci,        \* per component: its AcCompInfo's dtp and comp_idx
  disp,      \* per dtp: the components registered with d, NULL if d is
  queue,     \* per component: the messages in its dc
  signaled,  \* the receptors that are signaled, as <<dtp, name>>
  started,   \* the dtps whose thread_started is set
  stop,      \* the dtps whose stop_processing_msgs is set
  pc,        \* per dtp: where its thread is, "none" before it is created
  todo, res, \* per dtp: what AcDispatcher_dispatch has yet to visit, its result
  j,         \* per dtp: the slot its thread cleans up
  mpc,       \* where the client is
  at, try,   \* the client's dtp and its slot, or its turn
  arg,       \* the component of the client's call
  made,      \* how many dtps AcCompMgr_init went through
  used,      \* the components that were added and, as it seems, not removed
  old,       \* the components that were ever added
  sending,   \* per sender: the component whose thread it has yet to signal
  sends      \* the messages sent, for MaxSends

mgrVars == <<slot, nextDtp, ci>>
threadVars == <<pc, todo, res, j>>
clientVars == <<mpc, at, try, arg, made, used, old>>
vars == <<mgrVars, disp, queue, signaled, started, stop, threadVars, clientVars,
          sending, sends>>

SlotOf(i, k) == i * MaxComps + k

Init ==
  /\ slot = [k \in Slots |-> NULL] /\ nextDtp = 0
  /\ ci = [c \in Comps |-> [dtp |-> NULL, idx |-> 0]]
  /\ disp = [i \in Dtps |-> NULL]
  /\ queue = [c \in Comps |-> <<>>]
  /\ signaled = {} /\ started = {} /\ stop = {}
  /\ pc = [i \in Dtps |-> "none"]
  /\ todo = [i \in Dtps |-> {}] /\ res = [i \in Dtps |-> FALSE]
  /\ j = [i \in Dtps |-> 0]
  /\ mpc = "new" /\ at = 0 /\ try = <<0, 0>> /\ arg = NULL
  /\ made = 0 /\ used = {} /\ old = {}
  /\ sending = [s \in Senders |-> NULL] /\ sends = 0

Registered(c) == {i \in Dtps : disp[i] # NULL /\ c \in disp[i]}

-----------------------------------------------------------------------------
(* dispatch_thread                                                         *)

Goto(i, p) == pc' = [pc EXCEPT ![i] = p]

\* It has its dispatcher and its receptor and signals that it is ready; or it
\* got no dispatcher, and is done.
ThreadStart(i) ==
  /\ pc[i] = "start"
  /\ \/ /\ disp' = [disp EXCEPT ![i] = {}]
        /\ stop' = stop \ {i}
        /\ signaled' = signaled \cup {<<i, "ready">>}
        /\ Goto(i, "loop")
     \/ Goto(i, "done") /\ UNCHANGED <<disp, stop, signaled>>
  /\ UNCHANGED <<mgrVars, queue, started, todo, res, j, clientVars, sending, sends>>

ThreadLoop(i) ==
  /\ pc[i] = "loop"
  /\ IF i \in stop
       THEN Goto(i, "cleanup") /\ j' = [j EXCEPT ![i] = 0] /\ UNCHANGED <<todo, res>>
       ELSE /\ Goto(i, "dispatch")
            /\ todo' = [todo EXCEPT ![i] = disp[i]]
            /\ res' = [res EXCEPT ![i] = FALSE]
            /\ UNCHANGED j
  /\ UNCHANGED <<mgrVars, disp, queue, signaled, started, stop, clientVars, sending, sends>>

\* AcDispatcher_dispatch at one component: all its messages are handled, and the
\* result says whether there were any; the last component's is what is returned.
ThreadVisit(i, c) ==
  /\ pc[i] = "dispatch"
  /\ c \in todo[i]
  /\ todo' = [todo EXCEPT ![i] = @ \ {c}]
  /\ res' = [res EXCEPT ![i] = queue[c] # <<>>]
  /\ queue' = [queue EXCEPT ![c] = <<>>]
  /\ UNCHANGED <<mgrVars, disp, signaled, started, stop, pc, j, clientVars, sending, sends>>

ThreadDispatched(i) ==
  /\ pc[i] = "dispatch"
  /\ todo[i] = {}
  /\ Goto(i, IF res[i] THEN "loop" ELSE "wait")
  /\ UNCHANGED <<mgrVars, disp, queue, signaled, started, stop, todo, res, j, clientVars,
                 sending, sends>>

\* AcReceptor_wait: the signal that ends it is consumed.
ThreadWait(i) ==
  /\ pc[i] = "wait"
  /\ <<i, "waiting">> \in signaled
  /\ signaled' = signaled \ {<<i, "waiting">>}
  /\ Goto(i, "loop")
  /\ UNCHANGED <<mgrVars, disp, queue, started, stop, todo, res, j, clientVars, sending, sends>>

\* The component's messages are handled and it is told DEINIT.
RmvFrom(i, c) ==
  /\ disp' = [disp EXCEPT ![i] = IF @ = NULL THEN NULL ELSE @ \ {c}]
  /\ queue' = IF i \in Registered(c) THEN [queue EXCEPT ![c] = <<>>] ELSE queue
  /\ todo' = [todo EXCEPT ![i] = @ \ {c}]

EmptySlot(k) == slot' = [slot EXCEPT ![k] = NULL]

\* The cleanup takes the component out of one slot and removes it from the
\* dispatcher it knows of; a component whose add failed knows of none.
ThreadCleanup(i) ==
  /\ pc[i] = "cleanup"
  /\ j[i] < MaxComps
  /\ j' = [j EXCEPT ![i] = @ + 1]
  /\ LET c == slot[SlotOf(i, j[i])] IN
       IF c = NULL THEN UNCHANGED <<slot, disp, queue, pc, todo>>
       ELSE /\ EmptySlot(SlotOf(i, j[i]))
            /\ IF ci[c].dtp = NULL
                 THEN Goto(i, "crash") /\ UNCHANGED <<disp, queue, todo>>
                 ELSE RmvFrom(ci[c].dtp, c) /\ UNCHANGED pc
  /\ UNCHANGED <<nextDtp, ci, signaled, started, stop, res, clientVars, sending, sends>>

\* AcReceptor_ret(waiting) and AcDispatcher_ret(d), then the signal of done.
ThreadRet(i) ==
  /\ pc[i] = "cleanup"
  /\ j[i] = MaxComps
  /\ disp' = [disp EXCEPT ![i] = NULL]
  /\ queue' = [c \in Comps |-> IF c \in disp[i] THEN <<>> ELSE queue[c]]
  /\ Goto(i, "done")
  /\ UNCHANGED <<mgrVars, signaled, started, stop, todo, res, j, clientVars, sending, sends>>

ThreadDone(i) ==
  /\ pc[i] = "done"
  /\ signaled' = signaled \cup {<<i, "done">>}
  /\ Goto(i, "end")
  /\ UNCHANGED <<mgrVars, disp, queue, started, stop, todo, res, j, clientVars, sending, sends>>

ThreadStep(i) ==
  \/ ThreadStart(i) \/ ThreadLoop(i) \/ (\E c \in Comps : ThreadVisit(i, c))
  \/ ThreadDispatched(i) \/ ThreadWait(i) \/ ThreadCleanup(i) \/ ThreadRet(i)
  \/ ThreadDone(i)

-----------------------------------------------------------------------------
(* AcCompMgr_init and AcCompMgr_deinit                                     *)

systemVars == <<mgrVars, disp, queue, threadVars, sending, sends>>

\* The parameters are good and the memory is there, or all is taken back.
InitAlloc ==
  /\ mpc = "new"
  /\ mpc' \in {"create", "deinit"}
  /\ UNCHANGED <<systemVars, signaled, started, stop, at, try, arg, made, used, old>>

\* The next dtp gets its receptors and its thread; or there is no memory, or no
\* thread.
InitCreate ==
  /\ mpc = "create"
  /\ \/ /\ made' = made + 1
        /\ started' = started \cup {at}
        /\ Goto(at, "start")
        /\ mpc' = "ready" /\ UNCHANGED at
     \/ made' \in {made, made + 1} /\ mpc' = "deinit" /\ at' = 0 /\ UNCHANGED <<started, pc>>
  /\ UNCHANGED <<mgrVars, disp, queue, todo, res, j, sending, sends, signaled, stop, try,
                 arg, used, old>>

InitReady ==
  /\ mpc = "ready"
  /\ <<at, "ready">> \in signaled
  /\ signaled' = signaled \ {<<at, "ready">>}
  /\ IF at = MaxDtps - 1 THEN mpc' = "idle" /\ at' = 0
                         ELSE mpc' = "create" /\ at' = at + 1
  /\ UNCHANGED <<systemVars, started, stop, try, arg, made, used, old>>

DeinitStart ==
  /\ mpc = "idle"
  /\ \A s \in Senders : sending[s] = NULL
  /\ mpc' = "deinit" /\ at' = 0
  /\ UNCHANGED <<systemVars, signaled, started, stop, try, arg, made, used, old>>

\* Mutant of StopsAt: the thread is kicked before it is told to stop.
StopsAtKick == "kick"
StopsAt == "deinit"

\* The two steps that stop a thread, in this order.
StopOrKick ==
  IF mpc = StopsAt THEN stop' = stop \cup {at} /\ UNCHANGED signaled
                   ELSE signaled' = signaled \cup {<<at, "waiting">>} /\ UNCHANGED stop

\* A dtp the init did not come to has no receptors: they are returned all the
\* same, through AC_NULL.
DeinitStop ==
  /\ mpc = "deinit"
  /\ IF at \in started
       THEN StopOrKick /\ mpc' = "kick"
       ELSE mpc' = (IF at < made THEN "free" ELSE "crash") /\ UNCHANGED <<signaled, stop>>
  /\ UNCHANGED <<systemVars, started, at, try, arg, made, used, old>>

DeinitKick ==
  /\ mpc = "kick"
  /\ StopOrKick
  /\ mpc' = "wait"
  /\ UNCHANGED <<systemVars, started, at, try, arg, made, used, old>>

\* Mutant of IsDone: the client does not wait for the thread.
IsDoneAtOnce(i) == TRUE
IsDone(i) == <<i, "done">> \in signaled

DeinitWait ==
  /\ mpc = "wait"
  /\ IsDone(at)
  /\ signaled' = signaled \ {<<at, "done">>}
  /\ started' = started \ {at}
  /\ mpc' = "free"
  /\ UNCHANGED <<systemVars, stop, at, try, arg, made, used, old>>

\* The dtp's comps are freed and its receptors returned; after the last one the
\* slots and the dtps are freed too.
DeinitFree ==
  /\ mpc = "free"
  /\ IF at = MaxDtps - 1 THEN mpc' = "down" /\ UNCHANGED at
                         ELSE mpc' = "deinit" /\ at' = at + 1
  /\ UNCHANGED <<systemVars, signaled, started, stop, try, arg, made, used, old>>

-----------------------------------------------------------------------------
(* AcCompMgr_add_comp, AcCompMgr_rmv_comp and AcCompMgr_send_msg           *)

\* The turn of the outer loop and its first slot; next_dtps goes up.
Turn(t) == at' = nextDtp /\ nextDtp' = (nextDtp + 1) % MaxDtps /\ try' = <<t, 0>>

AddStart(c) ==
  /\ mpc = "idle"
  /\ c \notin old
  /\ old' = old \cup {c}
  /\ arg' = c
  /\ mpc' = "add"
  /\ Turn(1)
  /\ UNCHANGED <<slot, ci, disp, queue, threadVars, sending, sends, signaled, started, stop,
                 made, used>>

\* What follows a slot that was not free, or whose dispatcher had no room: the
\* next slot, the first slot of the next thread, or the call fails.
AddNext ==
  IF try[2] < MaxComps - 1
    THEN try' = <<try[1], try[2] + 1>> /\ mpc' = "add" /\ UNCHANGED <<at, arg, nextDtp>>
  ELSE IF try[1] < MaxDtps
    THEN Turn(try[1] + 1) /\ mpc' = "add" /\ UNCHANGED arg
    ELSE mpc' = "idle" /\ arg' = NULL /\ try' = <<0, 0>> /\ at' = 0 /\ UNCHANGED nextDtp

IsFree(k) == slot[k] = NULL

AddSlot ==
  /\ mpc = "add"
  /\ IF IsFree(SlotOf(at, try[2]))
       THEN /\ slot' = [slot EXCEPT ![SlotOf(at, try[2])] = arg]
            /\ mpc' = "register"
            /\ UNCHANGED <<at, try, arg, nextDtp>>
       ELSE AddNext /\ UNCHANGED slot
  /\ UNCHANGED <<ci, disp, queue, threadVars, sending, sends, signaled, started, stop, made,
                 used, old>>

\* AcDispatcher_add_comp: INIT is in the queue; nobody is signaled.  It may fail
\* when the thread is at an empty slot of the dispatcher.
AddRegister ==
  /\ mpc = "register"
  /\ \/ /\ Cardinality(disp[at]) < MaxComps
        /\ disp' = [disp EXCEPT ![at] = @ \cup {arg}]
        /\ queue' = [queue EXCEPT ![arg] = <<"init">>]
        /\ todo' \in {todo, [todo EXCEPT ![at] = IF pc[at] = "dispatch" THEN @ \cup {arg} ELSE @]}
        /\ mpc' = "info"
        /\ UNCHANGED <<at, try, arg, nextDtp>>
     \/ /\ Cardinality(disp[at]) = MaxComps \/ pc[at] = "dispatch"
        /\ AddNext
        /\ UNCHANGED <<disp, queue, todo>>
  /\ UNCHANGED <<slot, ci, pc, res, j, sending, sends, signaled, started, stop, made, used, old>>

\* comp_idx is the one the init left in the dtp: that of its last slot.
CompIdx(i) == SlotOf(i, MaxComps - 1)

AddInfo ==
  /\ mpc = "info"
  /\ ci' = [ci EXCEPT ![arg] = [dtp |-> at, idx |-> CompIdx(at)]]
  /\ used' = used \cup {arg}
  /\ mpc' = "idle" /\ arg' = NULL /\ try' = <<0, 0>> /\ at' = 0
  /\ UNCHANGED <<slot, nextDtp, disp, queue, threadVars, sending, sends, signaled, started,
                 stop, made, old>>

\* The exchange empties the slot or the call returns; AC_STATUS_OK either way.
RmvSlot(c) ==
  /\ mpc = "idle"
  /\ c \in used
  /\ \A s \in Senders : sending[s] # c
  /\ used' = used \ {c}
  /\ IF slot[ci[c].idx] = c
       THEN EmptySlot(ci[c].idx) /\ mpc' = "rmv" /\ arg' = c
       ELSE UNCHANGED <<slot, mpc, arg>>
  /\ UNCHANGED <<nextDtp, ci, disp, queue, threadVars, sending, sends, signaled, started, stop,
                 at, try, made, old>>

RmvRegistered ==
  /\ mpc = "rmv"
  /\ RmvFrom(ci[arg].dtp, arg)
  /\ ci' = [ci EXCEPT ![arg] = [dtp |-> NULL, idx |-> 0]]
  /\ mpc' = "idle" /\ arg' = NULL
  /\ UNCHANGED <<slot, nextDtp, pc, res, j, sending, sends, signaled, started, stop, at, try,
                 made, used, old>>

SendQueue(s, c) ==
  /\ sending[s] = NULL
  /\ c \in used
  /\ mpc \in {"idle", "add", "register", "info", "rmv"}
  /\ sends < MaxSends
  /\ sends' = sends + 1
  /\ queue' = [queue EXCEPT ![c] = Append(@, "user")]
  /\ sending' = [sending EXCEPT ![s] = c]
  /\ UNCHANGED <<mgrVars, disp, threadVars, signaled, started, stop, clientVars>>

\* Mutant of Signal: the message's thread is not signaled.
SignalNot(i) == UNCHANGED signaled
Signal(i) == signaled' = signaled \cup {<<i, "waiting">>}

SendSignal(s) ==
  /\ sending[s] # NULL
  /\ Signal(ci[sending[s]].dtp)
  /\ sending' = [sending EXCEPT ![s] = NULL]
  /\ UNCHANGED <<mgrVars, disp, queue, threadVars, sends, started, stop, clientVars>>

-----------------------------------------------------------------------------
\* The client goes on inside a call; what it calls next is its own decision.
ClientStep ==
  \/ InitAlloc \/ InitCreate \/ InitReady
  \/ DeinitStop \/ DeinitKick \/ DeinitWait \/ DeinitFree
  \/ AddSlot \/ AddRegister \/ AddInfo \/ RmvRegistered

Next ==
  \/ ClientStep \/ DeinitStart
  \/ \E c \in Comps : AddStart(c) \/ RmvSlot(c)
  \/ \E s \in Senders : SendSignal(s) \/ \E c \in Comps : SendQueue(s, c)
  \/ \E i \in Dtps : ThreadStep(i)

Spec == Init /\ [][Next]_vars

\* The scheduler gives every thread that is ready the CPU again and again.
Fairness ==
  /\ WF_vars(ClientStep)
  /\ \A s \in Senders : WF_vars(SendSignal(s))
  /\ \A i \in Dtps : WF_vars(ThreadStep(i))

FairSpec == Spec /\ Fairness

-----------------------------------------------------------------------------
ThreadPlaces == {"none", "start", "loop", "dispatch", "wait", "cleanup", "done", "end", "crash"}
ClientPlaces == {"new", "create", "ready", "idle", "add", "register", "info", "rmv",
                 "deinit", "kick", "wait", "free", "down", "crash"}

\* The types of the variables.
TypeOK ==
  /\ slot \in [Slots -> Comps \cup {NULL}] /\ nextDtp \in Dtps
  /\ ci \in [Comps -> [dtp : Dtps \cup {NULL}, idx : Slots]]
  /\ \A i \in Dtps : disp[i] = NULL \/ (disp[i] \subseteq Comps /\ Cardinality(disp[i]) <= MaxComps)
  /\ signaled \subseteq Dtps \X {"ready", "waiting", "done"}
  /\ started \subseteq Dtps /\ stop \subseteq Dtps
  /\ pc \in [Dtps -> ThreadPlaces]
  /\ todo \in [Dtps -> SUBSET Comps] /\ res \in [Dtps -> BOOLEAN] /\ j \in [Dtps -> 0 .. MaxComps]
  /\ mpc \in ClientPlaces /\ at \in Dtps /\ arg \in Comps \cup {NULL}
  /\ made \in 0 .. MaxDtps /\ used \subseteq Comps /\ old \subseteq Comps
  /\ sending \in [Senders -> Comps \cup {NULL}] /\ sends \in 0 .. MaxSends

\* The manager and its dispatchers agree: a registered component is in a slot of
\* the dtp it is registered with, unless the client just removes it, and it is
\* registered with no other.
RegisteredHasSlot ==
  \A c \in Comps : \A i \in Registered(c) :
    /\ (mpc = "rmv" /\ arg = c) \/ \E k \in 0 .. MaxComps - 1 : slot[SlotOf(i, k)] = c
    /\ Registered(c) = {i}

\* AcCompMgr_deinit frees what a thread uses only after the thread signaled that
\* it is done, and no component is left registered behind.
FreedAfterEnd ==
  \A i \in Dtps : (mpc = "free" /\ i <= at) \/ mpc = "down" =>
    pc[i] \in {"none", "end"} /\ disp[i] = NULL

\* All of it: the variables have their types, the manager and its dispatchers agree,
\* and what is in use is not freed.
MgrConsistent == TypeOK /\ RegisteredHasSlot /\ FreedAfterEnd

\* A message that was sent is handled though the dispatch thread decides to wait
\* on the result of the last component only, and waits after it looked; unless a
\* thread goes through AC_NULL.
MsgsHandled ==
  \A c \in Comps : Len(queue[c]) > 0 /\ queue[c][Len(queue[c])] = "user" ~>
    queue[c] = <<>> \/ \E i \in Dtps : pc[i] = "crash"

\* AcCompMgr_init and _deinit return: no thread misses that it is to stop.  They
\* do not when a thread that got no dispatcher ends without the signal that it
\* is ready, or when a thread or the client goes through AC_NULL.
CallsReturn ==
  mpc # "idle" ~> \/ mpc \in {"idle", "down", "crash"}
                  \/ \E i \in Dtps : pc[i] = "crash" \/ (mpc = "ready" /\ i = at /\ pc[i] = "end")

\* "Returns AC_STATUS_OK if successful and AcComp.ci deinitialized": a component
\* that was removed is not registered any more.
RemovedIsGone ==
  \A c \in Comps : c \in old \ used /\ mpc = "idle" => Registered(c) = {}
=============================================================================
