----------------------------- MODULE Dispatcher -----------------------------
(***************************************************************************)
(* AcDispatcher (libs/ac_dispatcher): the array of slots from which a      *)
(* dispatch thread hands messages to components, while other threads add   *)
(* and remove components.                                                  *)
(*                                                                         *)
(* There is no lock.  A slot holds a dc (an AcDispatchableComp: a          *)
(* component with its queue), EMPTY, or PROCESSING while a dispatch has    *)
(* the dc out of the slot.  A remove that finds PROCESSING leaves EMPTY    *)
(* behind and the dispatch, which finds it when it puts the dc back,       *)
(* finishes the removal.                                                   *)
(*                                                                         *)
(* A dc's queue is the queue that LinkList is proved to implement.  The    *)
(* two messages a dc has of its own are always there when they are needed: *)
(* its pool is not modelled.                                               *)
(*                                                                         *)
(* What the callers guarantee: a component is added once and added or      *)
(* removed by one thread at a time, removals do not overlap, messages are  *)
(* sent before the removal starts, and AcDispatcher_ret is the last call.  *)
(***************************************************************************)
EXTENDS Naturals, Sequences, FiniteSets

CONSTANTS
  Comps,        \* the components (AcComp)
  Dcs,          \* the addresses ac_malloc has for dcs
  Dispatchers,  \* the threads that dispatch
  Clients,      \* the threads that only add and remove
  MaxCount,     \* the number of slots (max_count)
  MaxSends,     \* bound: how many messages are sent
  WeakFails,    \* a weak compare and exchange fails for no reason (ARM)
  EMPTY, PROCESSING, NULL

Threads == Dispatchers \cup Clients
Slots == 0 .. MaxCount - 1

ASSUME DispatcherAssumption ==
  /\ MaxCount \in Nat \ {0} /\ MaxSends \in Nat
  /\ {EMPTY, PROCESSING, NULL} \cap (Dcs \cup Comps) = {}
  /\ EMPTY # PROCESSING
  /\ (Slots \cup Comps) \cap Threads = {}
  /\ WeakFails \in BOOLEAN

VARIABLES
  slot,    \* d->dcs
  queue,   \* per dc: the messages in its q, "init" or "user"
  dcComp,  \* per dc: its comp
  life,    \* per dc: "free" or "live" memory
  told,    \* per dc, history: what its component's process_msg was given
  pc, op,  \* per thread: where it is, and in which call
  idx,     \* per thread: its i
  dc,      \* per thread: its q, dc or cur_dc
  comp,    \* per thread: its argument comp
  inst,    \* per component: the dcs add_comp returned and rmv_comp did not remove
  open,    \* AcDispatcher_ret was not called
  sends    \* the messages sent, for MaxSends

dcVars == <<queue, dcComp, life, told>>
threadVars == <<pc, op, idx, dc, comp>>
vars == <<slot, dcVars, threadVars, inst, open, sends>>

\* AcDispatcher_get
Init ==
  /\ slot = [i \in Slots |-> EMPTY]
  /\ queue = [d \in Dcs |-> <<>>]
  /\ dcComp = [d \in Dcs |-> NULL]
  /\ life = [d \in Dcs |-> "free"]
  /\ told = [d \in Dcs |-> <<>>]
  /\ pc = [t \in Threads |-> "idle"]
  /\ op = [t \in Threads |-> "none"]
  /\ idx = [t \in Threads |-> 0]
  /\ dc = [t \in Threads |-> NULL]
  /\ comp = [t \in Threads |-> NULL]
  /\ inst = [c \in Comps |-> {}]
  /\ open = TRUE
  /\ sends = 0

-----------------------------------------------------------------------------
(* Control shared by the calls: each goes over the slots.                  *)

\* What a call does first at each slot.
FirstAt(o) == CASE o = "dispatch" -> "xchg"
                [] o = "add"      -> "cas"
                [] o = "rmv"      -> "load"
                [] o = "ret"      -> "take"

Goto(t, p) == pc' = [pc EXCEPT ![t] = p]

\* Thread t enters call o with dc d and component c.
Call(t, o, d, c) ==
  /\ pc[t] = "idle"
  /\ pc' = [pc EXCEPT ![t] = FirstAt(o)]
  /\ op' = [op EXCEPT ![t] = o]
  /\ idx' = [idx EXCEPT ![t] = 0]
  /\ dc' = [dc EXCEPT ![t] = d]
  /\ comp' = [comp EXCEPT ![t] = c]

Return(t) ==
  /\ pc' = [pc EXCEPT ![t] = "idle"]
  /\ op' = [op EXCEPT ![t] = "none"]
  /\ idx' = [idx EXCEPT ![t] = 0]
  /\ dc' = [dc EXCEPT ![t] = NULL]
  /\ comp' = [comp EXCEPT ![t] = NULL]

IsLastSlot(i) == i = MaxCount - 1

\* The end of a turn of the loop over the slots.
NextSlot(t) ==
  /\ IF IsLastSlot(idx[t])
       THEN Goto(t, "end") /\ UNCHANGED idx
       ELSE Goto(t, FirstAt(op[t])) /\ idx' = [idx EXCEPT ![t] = @ + 1]
  /\ dc' = IF op[t] = "add" THEN dc ELSE [dc EXCEPT ![t] = NULL]
  /\ UNCHANGED <<op, comp>>

-----------------------------------------------------------------------------
(* process_msgs and ret_dc, called by dispatch and by rmv_dc               *)

\* AcMpscLinkList_rmv: the component is given the oldest message, or there is
\* none and process_msgs returns.
RmvMsg(t) ==
  /\ pc[t] = "rmv"
  /\ IF queue[dc[t]] = <<>>
       THEN /\ Goto(t, IF op[t] = "dispatch" THEN "restore" ELSE "deinit")
            /\ UNCHANGED <<queue, told>>
       ELSE /\ Goto(t, "handle")
            /\ queue' = [queue EXCEPT ![dc[t]] = Tail(@)]
            /\ told' = [told EXCEPT ![dc[t]] = Append(@, Head(queue[dc[t]]))]
  /\ UNCHANGED <<slot, dcComp, life, op, idx, dc, comp, inst, open, sends>>

\* process_msg returns.
HandleDone(t) ==
  /\ pc[t] = "handle"
  /\ Goto(t, "rmv")
  /\ UNCHANGED <<slot, dcVars, op, idx, dc, comp, inst, open, sends>>

\* Mutant of TellDeinit: the component is not told.
TellDeinitNot(d) == UNCHANGED told
TellDeinit(d) == told' = [told EXCEPT ![d] = Append(@, "deinit")]

\* ret_dc, not aborting: process_msg of the DEINIT message has been running and
\* returns, and the dc is freed.  The call that led here goes on.
RetDc(t) ==
  /\ pc[t] = "deinit"
  /\ TellDeinit(dc[t])
  /\ life' = [life EXCEPT ![dc[t]] = "free"]
  /\ IF op[t] = "rmv"
       THEN Return(t) /\ inst' = [inst EXCEPT ![comp[t]] = {}]
       ELSE NextSlot(t) /\ UNCHANGED inst
  /\ UNCHANGED <<slot, queue, dcComp, open, sends>>

-----------------------------------------------------------------------------
(* AcDispatcher_dispatch                                                   *)

DispatchStart(t) ==
  /\ open
  /\ t \in Dispatchers
  /\ Call(t, "dispatch", NULL, NULL)
  /\ UNCHANGED <<slot, dcVars, inst, open, sends>>

\* Mutant of TakeOut: the slot is only read.
TakeOutNot(i) == UNCHANGED slot
TakeOut(i) == slot' = [slot EXCEPT ![i] = PROCESSING]

\* The exchange with PROCESSING.
DispatchXchg(t) ==
  /\ pc[t] = "xchg"
  /\ TakeOut(idx[t])
  /\ LET q == slot[idx[t]]
     IN \/ /\ q = EMPTY
           /\ Goto(t, "store")
           /\ UNCHANGED <<idx, dc, op, comp>>
        \/ /\ q = PROCESSING
           /\ NextSlot(t)
        \/ /\ q \in Dcs
           /\ Goto(t, "rmv")
           /\ dc' = [dc EXCEPT ![t] = q]
           /\ UNCHANGED <<idx, op, comp>>
  /\ UNCHANGED <<dcVars, inst, open, sends>>

\* Mutant of PutEmpty: an empty slot stays PROCESSING.
PutEmptyNot(i) == UNCHANGED slot
PutEmpty(i) == slot' = [slot EXCEPT ![i] = EMPTY]

\* The slot was empty: EMPTY is stored again, whatever is there by now.
DispatchStore(t) ==
  /\ pc[t] = "store"
  /\ PutEmpty(idx[t])
  /\ NextSlot(t)
  /\ UNCHANGED <<dcVars, inst, open, sends>>

\* Mutants of StillProcessing: it compares with what was in the slot; it puts
\* the dc back also when it was removed.
StillProcessingOld(t) == slot[idx[t]] = dc[t]
StillProcessingAny(t) == TRUE
StillProcessing(t) == slot[idx[t]] = PROCESSING

\* The compare and exchange that puts the dc back in its slot.
DispatchRestore(t) ==
  /\ pc[t] = "restore"
  /\ StillProcessing(t)
  /\ slot' = [slot EXCEPT ![idx[t]] = dc[t]]
  /\ NextSlot(t)
  /\ UNCHANGED <<dcVars, inst, open, sends>>

\* It fails, the dc was removed: ret_dc.
DispatchRemoved(t) ==
  /\ pc[t] = "restore"
  /\ ~StillProcessing(t) \/ WeakFails
  /\ Goto(t, "deinit")
  /\ UNCHANGED <<slot, dcVars, op, idx, dc, comp, inst, open, sends>>

DispatchEnd(t) ==
  /\ pc[t] = "end" /\ op[t] = "dispatch"
  /\ Return(t)
  /\ UNCHANGED <<slot, dcVars, inst, open, sends>>

-----------------------------------------------------------------------------
(* AcDispatcher_add_comp and AcDispatcher_send_msg                         *)

\* No thread is adding or removing c.
Unused(c) == \A t \in Threads : comp[t] # c

\* get_dc; when there is no memory left, add_comp returns at once.
AddStart(t, c, d) ==
  /\ open
  /\ Unused(c)
  /\ inst[c] = {}
  /\ life[d] = "free"
  /\ life' = [life EXCEPT ![d] = "live"]
  /\ queue' = [queue EXCEPT ![d] = <<>>]
  /\ dcComp' = [dcComp EXCEPT ![d] = c]
  /\ told' = [told EXCEPT ![d] = <<>>]
  /\ Call(t, "add", d, c)
  /\ UNCHANGED <<slot, inst, open, sends>>

\* The compare and exchange that puts the dc in an empty slot.
AddCas(t) ==
  /\ pc[t] = "cas"
  /\ slot[idx[t]] = EMPTY
  /\ slot' = [slot EXCEPT ![idx[t]] = dc[t]]
  /\ Goto(t, "init")
  /\ UNCHANGED <<dcVars, op, idx, dc, comp, inst, open, sends>>

AddCasFails(t) ==
  /\ pc[t] = "cas"
  /\ slot[idx[t]] # EMPTY \/ WeakFails
  /\ NextSlot(t)
  /\ UNCHANGED <<slot, dcVars, inst, open, sends>>

SendInit(d) == queue' = [queue EXCEPT ![d] = Append(@, "init")]

\* The INIT message is sent and the dc returned.
AddInit(t) ==
  /\ pc[t] = "init"
  /\ SendInit(dc[t])
  /\ inst' = [inst EXCEPT ![comp[t]] = @ \cup {dc[t]}]
  /\ Return(t)
  /\ UNCHANGED <<slot, dcComp, life, told, open, sends>>

\* No slot: ret_dc, aborting, and AC_NULL is returned.
AddFull(t) ==
  /\ pc[t] = "end" /\ op[t] = "add"
  /\ life' = [life EXCEPT ![dc[t]] = "free"]
  /\ Return(t)
  /\ UNCHANGED <<slot, queue, dcComp, told, inst, open, sends>>

\* Some thread, a handler included, sends d a message.
SendMsg(c, d) ==
  /\ open
  /\ d \in inst[c]
  /\ Unused(c)
  /\ sends < MaxSends
  /\ sends' = sends + 1
  /\ queue' = [queue EXCEPT ![d] = Append(@, "user")]
  /\ UNCHANGED <<slot, dcComp, life, told, threadVars, inst, open>>

-----------------------------------------------------------------------------
(* AcDispatcher_rmv_comp, AcDispatcher_ret and rmv_dc                      *)

RmvStart(t, c) ==
  /\ open
  /\ Unused(c)
  /\ \A u \in Threads : op[u] # "rmv"
  /\ Call(t, "rmv", NULL, c)
  /\ UNCHANGED <<slot, dcVars, inst, open, sends>>

WaitFor(t) == UNCHANGED threadVars

\* The load of a slot, again and again while it is PROCESSING.
RmvLoad(t) ==
  /\ pc[t] = "load"
  /\ LET cur == slot[idx[t]]
     IN \/ cur = EMPTY /\ NextSlot(t)
        \/ cur = PROCESSING /\ WaitFor(t)
        \/ /\ cur \in Dcs
           /\ Goto(t, "cmp")
           /\ dc' = [dc EXCEPT ![t] = cur]
           /\ UNCHANGED <<op, idx, comp>>
  /\ UNCHANGED <<slot, dcVars, inst, open, sends>>

\* comp == cur_dc->comp, where cur_dc may be out of its slot by now.
RmvCompare(t) ==
  /\ pc[t] = "cmp"
  /\ IF dcComp[dc[t]] = comp[t]
       THEN /\ Goto(t, "take")
            /\ dc' = [dc EXCEPT ![t] = NULL]
            /\ UNCHANGED <<op, idx, comp>>
       ELSE NextSlot(t)
  /\ UNCHANGED <<slot, dcVars, inst, open, sends>>

\* Mutant of AfterTake: the messages in the queue are forgotten.
AfterTakeNoMsgs(d) == "deinit"
AfterTake(d) == "rmv"

\* Mutant of MakeEmpty: the slot is only read.
MakeEmptyNot(i) == UNCHANGED slot
MakeEmpty(i) == slot' = [slot EXCEPT ![i] = EMPTY]

\* rmv_dc: the exchange with EMPTY.  A dc that was in the slot is removed here,
\* one in processing by the dispatch when it restores it; rmv_comp succeeds.
RmvTake(t) ==
  /\ pc[t] = "take"
  /\ MakeEmpty(idx[t])
  /\ LET d == slot[idx[t]]
     IN IF d \in Dcs
          THEN /\ Goto(t, AfterTake(d))
               /\ dc' = [dc EXCEPT ![t] = d]
               /\ UNCHANGED <<op, idx, comp, inst>>
          ELSE IF op[t] = "rmv"
                 THEN Return(t) /\ inst' = [inst EXCEPT ![comp[t]] = {}]
                 ELSE NextSlot(t) /\ UNCHANGED inst
  /\ UNCHANGED <<dcVars, open, sends>>

\* The component is in no slot: AC_STATUS_ERR.
RmvNotFound(t) ==
  /\ pc[t] = "end" /\ op[t] = "rmv"
  /\ Return(t)
  /\ UNCHANGED <<slot, dcVars, inst, open, sends>>

\* A dispatch thread that stopped calls AcDispatcher_ret when nobody uses d.
RetStart(t) ==
  /\ open
  /\ t \in Dispatchers
  /\ \A u \in Threads : pc[u] = "idle"
  /\ open' = FALSE
  /\ inst' = [c \in Comps |-> {}]
  /\ Call(t, "ret", NULL, NULL)
  /\ UNCHANGED <<slot, dcVars, sends>>

\* The array of slots is freed.
RetEnd(t) ==
  /\ pc[t] = "end" /\ op[t] = "ret"
  /\ Return(t)
  /\ UNCHANGED <<slot, dcVars, inst, open, sends>>

-----------------------------------------------------------------------------

\* The steps of a call in progress.
Step(t) ==
  \/ RmvMsg(t) \/ HandleDone(t) \/ RetDc(t)
  \/ DispatchXchg(t) \/ DispatchStore(t) \/ DispatchRestore(t)
  \/ DispatchRemoved(t) \/ DispatchEnd(t)
  \/ AddCas(t) \/ AddCasFails(t) \/ AddInit(t) \/ AddFull(t)
  \/ RmvLoad(t) \/ RmvCompare(t) \/ RmvTake(t) \/ RmvNotFound(t)
  \/ RetEnd(t)

Next ==
  \/ \E t \in Threads :
       \/ Step(t)
       \/ DispatchStart(t)
       \/ \E c \in Comps, d \in Dcs : AddStart(t, c, d)
       \/ \E c \in Comps : RmvStart(t, c)
       \/ RetStart(t)
  \/ \E c \in Comps, d \in Dcs : SendMsg(c, d)

Spec == Init /\ [][Next]_vars

(* A call in progress goes on: threads are preempted but not stopped, and  *)
(* handlers return.  The loop on a slot that is PROCESSING sees it at      *)
(* another moment of the dispatch sooner or later ("not nice but will      *)
(* eventually succeed"), hence strong fairness.                            *)
FairSpec ==
  /\ Spec
  /\ \A t \in Threads : WF_vars(Step(t)) /\ SF_vars(RmvLoad(t))

-----------------------------------------------------------------------------
(* Properties                                                              *)

TypeOK ==
  /\ slot \in [Slots -> Dcs \cup {EMPTY, PROCESSING}]
  /\ queue \in [Dcs -> Seq({"init", "user"})]
  /\ dcComp \in [Dcs -> Comps \cup {NULL}]
  /\ life \in [Dcs -> {"free", "live"}]
  /\ told \in [Dcs -> Seq({"init", "user", "deinit"})]
  /\ pc \in [Threads -> {"idle", "xchg", "store", "rmv", "handle", "restore",
                         "deinit", "cas", "init", "load", "cmp", "take", "end"}]
  /\ op \in [Threads -> {"none", "dispatch", "add", "rmv", "ret"}]
  /\ idx \in [Threads -> Slots]
  /\ dc \in [Threads -> Dcs \cup {NULL}]
  /\ comp \in [Threads -> Comps \cup {NULL}]
  /\ inst \in [Comps -> SUBSET Dcs]
  /\ open \in BOOLEAN
  /\ sends \in 0 .. MaxSends

\* Thread t has d for itself: it is not in a slot, or not yet.
Holds(t, d) ==
  /\ dc[t] = d
  /\ \/ pc[t] \in {"rmv", "handle", "restore", "deinit", "cas"}
     \/ pc[t] = "end" /\ op[t] = "add"

\* A dc that is allocated is in one slot or with one thread: whatever races, it
\* is neither leaked nor freed twice, its queue has one consumer and no two
\* threads run its component.
OneOwner ==
  \A d \in Dcs :
    Cardinality({i \in Slots : slot[i] = d} \cup {t \in Threads : Holds(t, d)})
      = IF life[d] = "live" THEN 1 ELSE 0

\* The variables have their types, and every dc its owner.
DcsAccounted == TypeOK /\ OneOwner

\* Memory of a dc is used only while it is allocated, also by rmv_comp, which
\* looks at the component of a dc that it does not own.
NoUseAfterFree ==
  /\ \A t \in Threads : pc[t] \in {"cmp", "init"} => life[dc[t]] = "live"
  /\ \A c \in Comps : Unused(c) => \A d \in inst[c] : life[d] = "live"

\* A component gets INIT first, DEINIT last and each once, however its removal
\* is split between the remover and the dispatch; and rmv_comp finds one that was
\* added, also when it is out of its slot for processing.
Lifecycle ==
  /\ \A d \in Dcs :
       /\ \A i \in 1 .. Len(told[d]) :
            /\ told[d][i] = "init" <=> i = 1
            /\ told[d][i] = "deinit" => i = Len(told[d])
       /\ life[d] = "free" /\ told[d] # <<>> => told[d][Len(told[d])] = "deinit"
  /\ \A t \in Threads : pc[t] = "end" /\ op[t] = "rmv" => inst[comp[t]] = {}

\* A component is told DEINIT when its queue is empty: no message that was sent
\* is dropped ("set to DC_EMPTY so no more messages will be added").
MsgsAllHandled ==
  \A t \in Threads : pc[t] = "deinit" => queue[dc[t]] = <<>>

\* Only components that are removed end: a dispatch deinitialises one only
\* because "the only possibility is that ... rmv_dc was invoked".
OnlyRemovedEnd ==
  \A t \in Threads :
    pc[t] = "deinit" =>
      \A c \in Comps : dc[t] \in inst[c] => \E u \in Threads : op[u] = "rmv" /\ comp[u] = c

\* rmv_comp returns although the dispatch is in and out of the slots; and a dc whose
\* component was removed is freed, by whoever the race left it to.
RemovedIsFreed ==
  /\ \A t \in Threads : op[t] = "rmv" ~> op[t] = "none"
  /\ \A d \in Dcs :
       (life[d] = "live" /\ (\A c \in Comps : d \notin inst[c])) ~>
         (life[d] = "free" \/ \E c \in Comps : d \in inst[c])
=============================================================================
