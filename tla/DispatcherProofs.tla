-------------------------- MODULE DispatcherProofs --------------------------
(***************************************************************************)
(* The safety of AcDispatcher for any number of components, dcs, slots,    *)
(* clients and messages, with one dispatch thread, which is what           *)
(* ac_comp_mgr gives a dispatcher, and an exchange that fails only for a   *)
(* reason (x86).  A second dispatch thread would make a slot EMPTY under a *)
(* dc, and a weak exchange ends a component that nobody removed.           *)
(*                                                                         *)
(* Owners says who has a dc.  It holds because a slot that a dispatch is   *)
(* about to make EMPTY has no dc in it (Stores), which a remover could     *)
(* break: hence Finds, that what a remover is about to take is the dc of   *)
(* its component, in the slot or in process.  Installed, Adds and Ahead    *)
(* follow a dc from add_comp to rmv_comp; Emptied and History follow its   *)
(* messages.                                                               *)
(***************************************************************************)
EXTENDS Dispatcher, FiniteSetTheorems, TLAPS

\* The assumption: one thread dispatches.
OneDispatcher == \A t, u \in Dispatchers : t = u

\* Which call a thread is in goes by where it is, and so does what its locals hold; one
\* thread removes at a time, and no two threads have the same component.
Control ==
  /\ \A t \in Threads :
       /\ op[t] = "none" <=> pc[t] = "idle"
       /\ pc[t] \in {"xchg", "store", "restore"} => op[t] = "dispatch"
       /\ pc[t] \in {"rmv", "handle", "deinit"} => op[t] \in {"dispatch", "rmv", "ret"}
       /\ pc[t] \in {"cas", "init"} => op[t] = "add"
       /\ pc[t] \in {"load", "cmp"} => op[t] = "rmv"
       /\ pc[t] = "take" => op[t] \in {"rmv", "ret"}
       /\ pc[t] \in {"rmv", "handle", "restore", "deinit", "cmp"} => dc[t] \in Dcs
       /\ op[t] = "add" => dc[t] \in Dcs
       /\ op[t] \in {"add", "rmv"} <=> comp[t] \in Comps
       /\ op[t] = "dispatch" => t \in Dispatchers
       /\ op[t] = "ret" => ~open
       /\ ~open => op[t] \in {"none", "ret"}
  /\ \A t, u \in Threads : op[t] = "rmv" /\ op[u] = "rmv" => t = u
  /\ \A t, u \in Threads : comp[t] = comp[u] /\ comp[t] \in Comps => t = u

\* AcDispatcher_get establishes the types and the control.
LEMMA InitTypeOK == Init => TypeOK /\ Control
BY DispatcherAssumption DEF Init, TypeOK, Control, Slots

\* Where the end of a turn of a loop leads.
LEMMA NextSlotGoes ==
  ASSUME TypeOK, NEW t \in Threads, op[t] # "none", NextSlot(t)
  PROVE  /\ pc' \in [Threads -> {"idle", "xchg", "store", "rmv", "handle", "restore",
                         "deinit", "cas", "init", "load", "cmp", "take", "end"}]
         /\ idx' \in [Threads -> Slots]
         /\ dc' \in [Threads -> Dcs \cup {NULL}]
         /\ \A u \in Threads \ {t} : pc'[u] = pc[u] /\ idx'[u] = idx[u] /\ dc'[u] = dc[u]
         /\ UNCHANGED <<op, comp>>
         /\ dc'[t] = IF op[t] = "add" THEN dc[t] ELSE NULL
         /\ \/ /\ pc'[t] = "end"
               /\ idx[t] = MaxCount - 1
            \/ /\ idx'[t] = idx[t] + 1
               /\ \/ op[t] = "dispatch" /\ pc'[t] = "xchg"
                  \/ op[t] = "add" /\ pc'[t] = "cas"
                  \/ op[t] = "rmv" /\ pc'[t] = "load"
                  \/ op[t] = "ret" /\ pc'[t] = "take"
<1>1. FirstAt(op[t]) \in {"xchg", "cas", "load", "take"}
  BY DEF TypeOK, FirstAt
<1>2. dc' = IF op[t] = "add" THEN dc ELSE [dc EXCEPT ![t] = NULL]
  BY DEF NextSlot
<1>3. dc' \in [Threads -> Dcs \cup {NULL}]
  BY <1>2 DEF TypeOK
<1>4. CASE IsLastSlot(idx[t])
  <2>1. pc' = [pc EXCEPT ![t] = "end"] /\ UNCHANGED idx
    BY <1>4 DEF NextSlot, Goto
  <2>2. QED
    BY <1>2, <1>3, <1>4, <2>1 DEF TypeOK, IsLastSlot, NextSlot
<1>5. CASE ~IsLastSlot(idx[t])
  <2>1. pc' = [pc EXCEPT ![t] = FirstAt(op[t])] /\ idx' = [idx EXCEPT ![t] = @ + 1]
    BY <1>5 DEF NextSlot, Goto
  <2>2. idx[t] + 1 \in Slots
    BY <1>5, DispatcherAssumption DEF TypeOK, IsLastSlot, Slots
  <2>3. \/ op[t] = "dispatch" /\ pc'[t] = "xchg"
        \/ op[t] = "add" /\ pc'[t] = "cas"
        \/ op[t] = "rmv" /\ pc'[t] = "load"
        \/ op[t] = "ret" /\ pc'[t] = "take"
    BY <2>1 DEF TypeOK, FirstAt
  <2>4. QED
    BY <1>1, <1>2, <1>3, <2>1, <2>2, <2>3 DEF TypeOK, NextSlot
<1>6. QED
  BY <1>4, <1>5

\* Where a return leads.
LEMMA ReturnGoes ==
  ASSUME TypeOK, NEW t \in Threads, Return(t)
  PROVE  /\ pc' \in [Threads -> {"idle", "xchg", "store", "rmv", "handle", "restore",
                         "deinit", "cas", "init", "load", "cmp", "take", "end"}]
         /\ op' \in [Threads -> {"none", "dispatch", "add", "rmv", "ret"}]
         /\ idx' \in [Threads -> Slots]
         /\ dc' \in [Threads -> Dcs \cup {NULL}]
         /\ comp' \in [Threads -> Comps \cup {NULL}]
         /\ \A u \in Threads \ {t} : /\ pc'[u] = pc[u] /\ idx'[u] = idx[u] /\ dc'[u] = dc[u]
                                     /\ op'[u] = op[u] /\ comp'[u] = comp[u]
         /\ pc'[t] = "idle" /\ op'[t] = "none" /\ dc'[t] = NULL /\ comp'[t] = NULL
<1>1. 0 \in Slots
  BY DispatcherAssumption DEF Slots
<1>2. QED
  BY <1>1 DEF Return, TypeOK

\* Every step keeps the types.
LEMMA NextTypeOK ==
  ASSUME TypeOK, Control, [Next]_vars
  PROVE  TypeOK'
<1> USE DEF dcVars, threadVars
<1>1. ASSUME NEW t \in Threads, RmvMsg(t) PROVE TypeOK'
  <2>1. dc[t] \in Dcs
    BY <1>1 DEF RmvMsg, Control
  <2>2. CASE queue[dc[t]] = <<>>
    BY <1>1, <2>2 DEF RmvMsg, Goto, TypeOK
  <2>3. CASE queue[dc[t]] # <<>>
    <3>1. /\ Tail(queue[dc[t]]) \in Seq({"init", "user"})
          /\ Append(told[dc[t]], Head(queue[dc[t]])) \in Seq({"init", "user", "deinit"})
      BY <2>1, <2>3 DEF TypeOK
    <3>2. QED
      BY <1>1, <2>1, <2>3, <3>1 DEF RmvMsg, Goto, TypeOK
  <2>4. QED
    BY <2>2, <2>3
<1>2. ASSUME NEW t \in Threads, HandleDone(t) PROVE TypeOK'
  BY <1>2, DispatcherAssumption DEF HandleDone, Goto, TypeOK, Control, Slots
<1>3. ASSUME NEW t \in Threads, RetDc(t) PROVE TypeOK'
  <2>1. dc[t] \in Dcs /\ op[t] # "none"
    BY <1>3 DEF RetDc, Control
  <2>2. told' \in [Dcs -> Seq({"init", "user", "deinit"})]
    BY <1>3, <2>1 DEF RetDc, TellDeinit, TypeOK
  <2>3. life' \in [Dcs -> {"free", "live"}]
    BY <1>3, <2>1 DEF RetDc, TypeOK
  <2>4. CASE op[t] = "rmv"
    <3>1. inst' \in [Comps -> SUBSET Dcs]
      BY <1>3, <2>4 DEF RetDc, TypeOK, Control
    <3>2. QED
      BY <1>3, <2>2, <2>3, <2>4, <3>1, ReturnGoes DEF RetDc, TypeOK
  <2>5. CASE op[t] # "rmv"
    BY <1>3, <2>1, <2>2, <2>3, <2>5, NextSlotGoes DEF RetDc, TypeOK
  <2>6. QED
    BY <2>4, <2>5
<1>4. ASSUME NEW t \in Threads, DispatchXchg(t) PROVE TypeOK'
  <2>1. CASE NextSlot(t)
    BY <1>4, <2>1, NextSlotGoes DEF DispatchXchg, TakeOut, TypeOK, Control
  <2>2. CASE ~NextSlot(t)
    BY <1>4, <2>2 DEF DispatchXchg, TakeOut, Goto, TypeOK
  <2>3. QED
    BY <2>1, <2>2
<1>5. ASSUME NEW t \in Threads, DispatchStore(t) PROVE TypeOK'
  BY <1>5, NextSlotGoes DEF DispatchStore, PutEmpty, TypeOK, Control
<1>6. ASSUME NEW t \in Threads, DispatchRestore(t) PROVE TypeOK'
  BY <1>6, NextSlotGoes DEF DispatchRestore, TypeOK, Control
<1>7. ASSUME NEW t \in Threads, DispatchRemoved(t) PROVE TypeOK'
  BY <1>7, DispatcherAssumption DEF DispatchRemoved, StillProcessing, Goto, TypeOK,
     Control, Slots
<1>8. ASSUME NEW t \in Threads, DispatchEnd(t) PROVE TypeOK'
  BY <1>8, DispatcherAssumption DEF DispatchEnd, Return, TypeOK, Control, Slots
<1>9. ASSUME NEW t \in Threads, AddCas(t) PROVE TypeOK'
  BY <1>9, DispatcherAssumption DEF AddCas, Goto, TypeOK, Control, Slots
<1>10. ASSUME NEW t \in Threads, AddCasFails(t) PROVE TypeOK'
  BY <1>10, NextSlotGoes DEF AddCasFails, TypeOK, Control
<1>11. ASSUME NEW t \in Threads, AddInit(t) PROVE TypeOK'
  BY <1>11, DispatcherAssumption DEF AddInit, SendInit, Return, TypeOK, Control, Slots
<1>12. ASSUME NEW t \in Threads, AddFull(t) PROVE TypeOK'
  BY <1>12, DispatcherAssumption DEF AddFull, Return, TypeOK, Control, Slots
<1>13. ASSUME NEW t \in Threads, RmvLoad(t) PROVE TypeOK'
  <2>1. CASE NextSlot(t)
    BY <1>13, <2>1, NextSlotGoes DEF RmvLoad, TypeOK, Control
  <2>2. CASE ~NextSlot(t)
    BY <1>13, <2>2 DEF RmvLoad, WaitFor, Goto, TypeOK
  <2>3. QED
    BY <2>1, <2>2
<1>14. ASSUME NEW t \in Threads, RmvCompare(t) PROVE TypeOK'
  <2>1. CASE NextSlot(t)
    BY <1>14, <2>1, NextSlotGoes DEF RmvCompare, TypeOK, Control
  <2>2. CASE ~NextSlot(t)
    BY <1>14, <2>2 DEF RmvCompare, Goto, TypeOK
  <2>3. QED
    BY <2>1, <2>2
<1>15. ASSUME NEW t \in Threads, RmvTake(t) PROVE TypeOK'
  <2>1. op[t] # "none" /\ slot' \in [Slots -> Dcs \cup {EMPTY, PROCESSING}]
    BY <1>15 DEF RmvTake, MakeEmpty, TypeOK, Control
  <2>2. CASE slot[idx[t]] \in Dcs
    BY <1>15, <2>1, <2>2 DEF RmvTake, AfterTake, Goto, TypeOK
  <2>3. CASE slot[idx[t]] \notin Dcs /\ op[t] = "rmv"
    <3>1. inst' \in [Comps -> SUBSET Dcs]
      BY <1>15, <2>3 DEF RmvTake, TypeOK
    <3>2. QED
      BY <1>15, <2>1, <2>3, <3>1, ReturnGoes DEF RmvTake, TypeOK
  <2>4. CASE slot[idx[t]] \notin Dcs /\ op[t] # "rmv"
    BY <1>15, <2>1, <2>4, NextSlotGoes DEF RmvTake, TypeOK
  <2>5. QED
    BY <2>2, <2>3, <2>4
<1>16. ASSUME NEW t \in Threads, RmvNotFound(t) PROVE TypeOK'
  BY <1>16, DispatcherAssumption DEF RmvNotFound, Return, TypeOK, Control, Slots
<1>17. ASSUME NEW t \in Threads, RetEnd(t) PROVE TypeOK'
  BY <1>17, DispatcherAssumption DEF RetEnd, Return, TypeOK, Control, Slots
<1>18. ASSUME NEW t \in Threads, DispatchStart(t) PROVE TypeOK'
  BY <1>18, DispatcherAssumption DEF DispatchStart, Call, FirstAt, TypeOK, Control, Slots
<1>19. ASSUME NEW t \in Threads, NEW c \in Comps, NEW d \in Dcs, AddStart(t, c, d)
      PROVE  TypeOK'
  BY <1>19, DispatcherAssumption DEF AddStart, Call, FirstAt, TypeOK, Control, Slots
<1>20. ASSUME NEW t \in Threads, NEW c \in Comps, RmvStart(t, c) PROVE TypeOK'
  BY <1>20, DispatcherAssumption DEF RmvStart, Call, FirstAt, TypeOK, Control, Slots
<1>21. ASSUME NEW t \in Threads, RetStart(t) PROVE TypeOK'
  <2>1. inst' \in [Comps -> SUBSET Dcs]
    BY <1>21 DEF RetStart
  <2>2. 0 \in Slots
    BY DispatcherAssumption DEF Slots
  <2>3. QED
    BY <1>21, <2>1, <2>2 DEF RetStart, Call, FirstAt, TypeOK
<1>22. ASSUME NEW c \in Comps, NEW d \in Dcs, SendMsg(c, d) PROVE TypeOK'
  BY <1>22, DispatcherAssumption DEF SendMsg, TypeOK, Control, Slots
<1>23. CASE UNCHANGED vars
  BY <1>23 DEF vars, TypeOK, Control, Slots
<1>24. QED
  BY <1>1, <1>2, <1>3, <1>4, <1>5, <1>6, <1>7, <1>8, <1>9, <1>10, <1>11, <1>12, <1>13,
     <1>14, <1>15, <1>16, <1>17, <1>18, <1>19, <1>20, <1>21, <1>22, <1>23 DEF Next, Step

\* Every step keeps the control.
LEMMA NextControl ==
  ASSUME TypeOK, Control, [Next]_vars
  PROVE  Control'
<1> USE DEF dcVars, threadVars
<1>1. ASSUME NEW t \in Threads, RmvMsg(t) PROVE Control'
  BY <1>1, DispatcherAssumption DEF RmvMsg, Goto, TypeOK, Control, Unused
<1>2. ASSUME NEW t \in Threads, HandleDone(t) PROVE Control'
  BY <1>2, DispatcherAssumption DEF HandleDone, Goto, TypeOK, Control, Unused
<1>3. ASSUME NEW t \in Threads, RetDc(t) PROVE Control'
  <2>1. op[t] \in {"dispatch", "rmv", "ret"}
    BY <1>3 DEF RetDc, Control
  <2>2. CASE op[t] = "rmv"
    BY <1>3, <2>2, ReturnGoes, DispatcherAssumption DEF RetDc, Control
  <2>3. CASE op[t] # "rmv"
    BY <1>3, <2>1, <2>3, NextSlotGoes, DispatcherAssumption DEF RetDc, TypeOK, Control
  <2>4. QED
    BY <2>2, <2>3
<1>4. ASSUME NEW t \in Threads, DispatchXchg(t) PROVE Control'
  <2>1. CASE NextSlot(t)
    BY <1>4, <2>1, NextSlotGoes, DispatcherAssumption DEF Control, DispatchXchg,
       TakeOut, TypeOK
  <2>2. CASE ~NextSlot(t)
    BY <1>4, <2>2 DEF Control, DispatchXchg, TakeOut, Goto, TypeOK
  <2>3. QED
    BY <2>1, <2>2
<1>5. ASSUME NEW t \in Threads, DispatchStore(t) PROVE Control'
  BY <1>5, NextSlotGoes, DispatcherAssumption DEF DispatchStore, Control
<1>6. ASSUME NEW t \in Threads, DispatchRestore(t) PROVE Control'
  BY <1>6, NextSlotGoes, DispatcherAssumption DEF DispatchRestore, Control
<1>7. ASSUME NEW t \in Threads, DispatchRemoved(t) PROVE Control'
  BY <1>7, DispatcherAssumption DEF DispatchRemoved, StillProcessing, Goto, TypeOK,
     Control, Unused
<1>8. ASSUME NEW t \in Threads, DispatchEnd(t) PROVE Control'
  BY <1>8, DispatcherAssumption DEF DispatchEnd, Return, TypeOK, Control, Unused
<1>9. ASSUME NEW t \in Threads, AddCas(t) PROVE Control'
  BY <1>9, DispatcherAssumption DEF AddCas, Goto, TypeOK, Control, Unused
<1>10. ASSUME NEW t \in Threads, AddCasFails(t) PROVE Control'
  BY <1>10, NextSlotGoes, DispatcherAssumption DEF AddCasFails, Control
<1>11. ASSUME NEW t \in Threads, AddInit(t) PROVE Control'
  BY <1>11, DispatcherAssumption DEF AddInit, SendInit, Return, TypeOK, Control, Unused
<1>12. ASSUME NEW t \in Threads, AddFull(t) PROVE Control'
  BY <1>12, DispatcherAssumption DEF AddFull, Return, TypeOK, Control, Unused
<1>13. ASSUME NEW t \in Threads, RmvLoad(t) PROVE Control'
  <2>1. CASE NextSlot(t)
    BY <1>13, <2>1, NextSlotGoes, DispatcherAssumption DEF Control, RmvLoad, TypeOK
  <2>2. CASE ~NextSlot(t)
    BY <1>13, <2>2 DEF Control, RmvLoad, WaitFor, Goto, TypeOK
  <2>3. QED
    BY <2>1, <2>2
<1>14. ASSUME NEW t \in Threads, RmvCompare(t) PROVE Control'
  <2>1. CASE NextSlot(t)
    BY <1>14, <2>1, NextSlotGoes, DispatcherAssumption DEF RmvCompare, TypeOK, Control
  <2>2. CASE ~NextSlot(t)
    BY <1>14, <2>2, DispatcherAssumption DEF RmvCompare, Goto, TypeOK, Control
  <2>3. QED
    BY <2>1, <2>2
<1>15. ASSUME NEW t \in Threads, RmvTake(t) PROVE Control'
  <2>1. CASE slot[idx[t]] \in Dcs
    BY <1>15, <2>1, DispatcherAssumption DEF RmvTake, AfterTake, Goto, TypeOK, Control
  <2>2. CASE slot[idx[t]] \notin Dcs /\ op[t] = "rmv"
    BY <1>15, <2>2, ReturnGoes, DispatcherAssumption DEF RmvTake, Control
  <2>3. CASE slot[idx[t]] \notin Dcs /\ op[t] # "rmv"
    BY <1>15, <2>3, NextSlotGoes, DispatcherAssumption DEF RmvTake, Control
  <2>4. QED
    BY <2>1, <2>2, <2>3
<1>16. ASSUME NEW t \in Threads, RmvNotFound(t) PROVE Control'
  BY <1>16, DispatcherAssumption DEF RmvNotFound, Return, TypeOK, Control, Unused
<1>17. ASSUME NEW t \in Threads, RetEnd(t) PROVE Control'
  BY <1>17, DispatcherAssumption DEF RetEnd, Return, TypeOK, Control, Unused
<1>18. ASSUME NEW t \in Threads, DispatchStart(t) PROVE Control'
  BY <1>18, DispatcherAssumption DEF DispatchStart, Call, FirstAt, TypeOK, Control, Unused
<1>19. ASSUME NEW t \in Threads, NEW c \in Comps, NEW d \in Dcs, AddStart(t, c, d)
      PROVE  Control'
  BY <1>19, DispatcherAssumption DEF AddStart, Call, FirstAt, TypeOK, Control, Unused
<1>20. ASSUME NEW t \in Threads, NEW c \in Comps, RmvStart(t, c) PROVE Control'
  BY <1>20, DispatcherAssumption DEF RmvStart, Call, FirstAt, TypeOK, Control, Unused
<1>21. ASSUME NEW t \in Threads, RetStart(t) PROVE Control'
  BY <1>21, DispatcherAssumption DEF RetStart, Call, FirstAt, TypeOK, Control, Unused
<1>22. ASSUME NEW c \in Comps, NEW d \in Dcs, SendMsg(c, d) PROVE Control'
  BY <1>22, DispatcherAssumption DEF SendMsg, TypeOK, Control, Unused
<1>23. CASE UNCHANGED vars
  BY <1>23 DEF vars, TypeOK, Control, Unused
<1>24. QED
  BY <1>1, <1>2, <1>3, <1>4, <1>5, <1>6, <1>7, <1>8, <1>9, <1>10, <1>11, <1>12, <1>13,
     <1>14, <1>15, <1>16, <1>17, <1>18, <1>19, <1>20, <1>21, <1>22, <1>23 DEF Next, Step

\* A dc that is allocated is in one slot or with one thread, and no other is.
Owners ==
  /\ \A i, j \in Slots : slot[i] = slot[j] /\ slot[i] \in Dcs => i = j
  /\ \A t, u \in Threads : \A d \in Dcs : Holds(t, d) /\ Holds(u, d) => t = u
  /\ \A i \in Slots, t \in Threads : slot[i] \in Dcs => ~Holds(t, slot[i])
  /\ \A d \in Dcs : life[d] = "live" <=>
       \/ \E i \in Slots : slot[i] = d
       \/ \E t \in Threads : Holds(t, d)

\* Thread t has a dc out of its slot for processing.
InProcess(t) == op[t] = "dispatch" /\ pc[t] \in {"rmv", "handle", "restore"}

\* Slot i is dc d's: d is in it, or out of it for processing and not removed.
InPlaceAt(d, i) ==
  \/ slot[i] = d
  \/ slot[i] = PROCESSING /\ \E t \in Threads : InProcess(t) /\ idx[t] = i /\ dc[t] = d

InPlace(d) == \E i \in Slots : InPlaceAt(d, i)

\* Thread t removes dc d, which it took from its slot, for component c.
Takes(t, c, d) ==
  op[t] = "rmv" /\ comp[t] = c /\ dc[t] = d /\ pc[t] \in {"rmv", "handle", "deinit"}

\* The slot that a dispatch is about to make EMPTY is PROCESSING.
Stores == \A t \in Threads : pc[t] = "store" => slot[idx[t]] = PROCESSING

\* What a remover compares, and what it is about to take, is in place.
Finds ==
  \A t \in Threads :
    /\ pc[t] = "cmp" => InPlaceAt(dc[t], idx[t])
    /\ pc[t] = "take" /\ op[t] = "rmv" =>
         \E d \in Dcs : InPlaceAt(d, idx[t]) /\ dcComp[d] = comp[t]

\* A dc that is being added is its component's, and in place when its slot was found.
Adds ==
  \A t \in Threads :
    /\ pc[t] = "init" => InPlace(dc[t])
    /\ op[t] = "add" => dcComp[dc[t]] = comp[t]

\* A dc that add_comp returned is in place until it is taken by a remover.
Installed ==
  \A c \in Comps : \A d \in inst[c] :
    /\ open
    /\ dcComp[d] = c
    /\ InPlace(d) \/ \E t \in Threads : Takes(t, c, d)

\* A remover has not passed what it looks for.
Ahead ==
  \A t \in Threads : op[t] = "rmv" =>
    /\ pc[t] \in {"load", "cmp"} =>
         \A d \in inst[comp[t]] : \E k \in Slots : k >= idx[t] /\ InPlaceAt(d, k)
    /\ pc[t] = "end" => inst[comp[t]] = {}

\* Remover u found dc t's place, and will take it from there.
RemovesFrom(u, t) ==
  /\ op[u] = "rmv" /\ comp[u] = dcComp[dc[t]]
  /\ (pc[u] = "cmp" /\ dc[u] = dc[t]) \/ (pc[u] = "take" /\ idx[u] = idx[t])

\* The queue of a dc is empty when nothing can be sent to it any more: when it is
\* told DEINIT, and when it was or will be removed while a dispatch is to restore it.
Emptied ==
  \A t \in Threads :
    /\ pc[t] = "deinit" => queue[dc[t]] = <<>>
    /\ pc[t] = "restore" =>
         /\ slot[idx[t]] # PROCESSING => queue[dc[t]] = <<>>
         /\ (\E u \in Threads : RemovesFrom(u, t)) => queue[dc[t]] = <<>>

\* dc d is being added: INIT is not sent yet.
Fresh(d) == \E t \in Threads : op[t] = "add" /\ dc[t] = d

\* Sequences of messages: INIT is the first and only the first; all are the users';
\* DEINIT is at n and only there.
Starts(s) == s # <<>> /\ \A i \in 1 .. Len(s) : s[i] = "init" <=> i = 1
AllUser(s) == \A i \in 1 .. Len(s) : s[i] = "user"
EndsAt(s, n) == \A i \in 1 .. Len(s) : s[i] = "deinit" <=> i = n

\* What a dc was told and what is in its queue, taken together, is INIT and then users'
\* messages: the INIT is still in the queue, or it was told.
Waiting(d) == told[d] = <<>> /\ Starts(queue[d])
Running(d) == Starts(told[d]) /\ EndsAt(told[d], 0) /\ AllUser(queue[d])
\* A dc that is free was told nothing, or DEINIT at the end.
Ended(d) == told[d] = <<>> \/ (Starts(told[d]) /\ EndsAt(told[d], Len(told[d])))

HistoryOf(d) ==
  /\ Fresh(d) => told[d] = <<>> /\ queue[d] = <<>>
  /\ life[d] = "live" /\ ~Fresh(d) => Waiting(d) \/ Running(d)
  /\ life[d] = "free" => Ended(d)

History == \A d \in Dcs : HistoryOf(d)

\* A step of thread t.
Acts(t) ==
  \/ Step(t) \/ DispatchStart(t) \/ RetStart(t)
  \/ \E c \in Comps : RmvStart(t, c) \/ \E d \in Dcs : AddStart(t, c, d)

\* A step of one thread leaves the others where they are.
LEMMA OthersStay ==
  ASSUME TypeOK, Control, NEW t \in Threads, Acts(t)
  PROVE  /\ \A u \in Threads \ {t} : /\ pc'[u] = pc[u] /\ idx'[u] = idx[u] /\ dc'[u] = dc[u]
                                     /\ op'[u] = op[u] /\ comp'[u] = comp[u]
         /\ \A u \in Threads \ {t}, d \in Dcs : Holds(u, d)' <=> Holds(u, d)
         /\ \A u \in Threads \ {t} : InProcess(u)' <=> InProcess(u)
<1> USE DEF threadVars, dcVars
<1>1. CASE Return(t)
  BY <1>1, ReturnGoes DEF Holds, InProcess
<1>2. CASE op[t] # "none" /\ NextSlot(t)
  BY <1>2, NextSlotGoes DEF Holds, InProcess
<1>3. CASE \E p : Goto(t, p) /\ UNCHANGED <<op, comp, idx>> /\ dc' = [dc EXCEPT ![t] = dc'[t]]
  BY <1>3 DEF Goto, TypeOK, Holds, InProcess
<1>4. CASE \E o, d, c : Call(t, o, d, c)
  BY <1>4 DEF Call, TypeOK, Holds, InProcess
<1>5. CASE UNCHANGED threadVars
  BY <1>5 DEF Holds, InProcess
<1>6. \/ Return(t)
      \/ op[t] # "none" /\ NextSlot(t)
      \/ \E p : Goto(t, p) /\ UNCHANGED <<op, comp, idx>> /\ dc' = [dc EXCEPT ![t] = dc'[t]]
      \/ \E o, d, c : Call(t, o, d, c)
      \/ UNCHANGED threadVars
  <2>1. CASE RmvMsg(t) \/ HandleDone(t) \/ DispatchRemoved(t) \/ AddCas(t)
    <3>1. \E p : Goto(t, p) /\ UNCHANGED <<op, comp, idx, dc>>
      BY <2>1 DEF RmvMsg, HandleDone, DispatchRemoved, AddCas
    <3>2. dc' = dc => dc' = [dc EXCEPT ![t] = dc'[t]]
      BY DEF TypeOK
    <3>3. QED
      BY <3>1, <3>2
  <2>2. CASE RetDc(t) \/ DispatchStore(t) \/ DispatchRestore(t) \/ DispatchEnd(t)
    BY <2>2 DEF RetDc, DispatchStore, DispatchRestore, DispatchEnd, Control
  <2>3. CASE AddCasFails(t) \/ AddInit(t) \/ AddFull(t) \/ RmvNotFound(t) \/ RetEnd(t)
    BY <2>3 DEF AddCasFails, AddInit, AddFull, RmvNotFound, RetEnd, Control
  <2>4. CASE DispatchXchg(t)
    <3>1. op[t] # "none" /\ (dc' = dc => dc' = [dc EXCEPT ![t] = dc'[t]])
      BY <2>4 DEF DispatchXchg, Control, TypeOK
    <3>2. CASE slot[idx[t]] \in Dcs
      BY <2>4, <3>1, <3>2 DEF DispatchXchg, TypeOK
    <3>3. QED
      BY <2>4, <3>1, <3>2 DEF DispatchXchg
  <2>5. CASE RmvLoad(t)
    <3>1. op[t] # "none"
      BY <2>5 DEF RmvLoad, Control
    <3>2. QED
      BY <2>5, <3>1 DEF RmvLoad, WaitFor, TypeOK
  <2>6. CASE RmvCompare(t)
    <3>1. op[t] # "none"
      BY <2>6 DEF RmvCompare, Control
    <3>2. QED
      BY <2>6, <3>1 DEF RmvCompare, TypeOK
  <2>7. CASE RmvTake(t)
    <3>1. op[t] # "none"
      BY <2>7 DEF RmvTake, Control
    <3>2. QED
      BY <2>7, <3>1 DEF RmvTake, TypeOK
  <2>8. CASE DispatchStart(t) \/ RetStart(t) \/ \E c \in Comps : RmvStart(t, c)
    BY <2>8 DEF DispatchStart, RetStart, RmvStart
  <2>9. CASE \E c \in Comps, d \in Dcs : AddStart(t, c, d)
    BY <2>9 DEF AddStart
  <2>10. QED
    BY <2>1, <2>2, <2>3, <2>4, <2>5, <2>6, <2>7, <2>8, <2>9 DEF Acts, Step
<1>7. QED
  BY <1>1, <1>2, <1>3, <1>4, <1>5, <1>6

\* Steps that take no dc, put none and free none keep the owners.
LEMMA OwnersStay ==
  ASSUME Owners,
         \A u \in Threads, d \in Dcs : Holds(u, d)' <=> Holds(u, d),
         UNCHANGED life,
         \A i \in Slots : slot'[i] = slot[i] \/ (slot'[i] \notin Dcs /\ slot[i] \notin Dcs)
  PROVE  Owners'
BY DEF Owners

\* A thread takes a dc from a slot.
LEMMA OwnersTaken ==
  ASSUME TypeOK, Owners, NEW t \in Threads, NEW i \in Slots,
         \A u \in Threads \ {t}, d \in Dcs : Holds(u, d)' <=> Holds(u, d),
         \A d \in Dcs : ~Holds(t, d),
         slot[i] \in Dcs,
         \A d \in Dcs : Holds(t, d)' <=> d = slot[i],
         UNCHANGED life,
         slot'[i] \notin Dcs, \A j \in Slots \ {i} : slot'[j] = slot[j]
  PROVE  Owners'
BY DEF Owners

\* A thread puts a dc in a slot.
LEMMA OwnersPut ==
  ASSUME TypeOK, Owners, NEW t \in Threads, NEW i \in Slots, NEW e \in Dcs,
         \A u \in Threads \ {t}, d \in Dcs : Holds(u, d)' <=> Holds(u, d),
         \A d \in Dcs : Holds(t, d) <=> d = e,
         slot[i] \notin Dcs,
         \A d \in Dcs : ~Holds(t, d)',
         UNCHANGED life,
         slot'[i] = e, \A j \in Slots \ {i} : slot'[j] = slot[j]
  PROVE  Owners'
BY DEF Owners

\* A thread frees the dc that it holds.
LEMMA OwnersFree ==
  ASSUME TypeOK, Owners, NEW t \in Threads, NEW e \in Dcs,
         \A u \in Threads \ {t}, d \in Dcs : Holds(u, d)' <=> Holds(u, d),
         \A d \in Dcs : Holds(t, d) <=> d = e,
         \A d \in Dcs : ~Holds(t, d)',
         UNCHANGED slot,
         life'[e] = "free", \A d \in Dcs \ {e} : life'[d] = life[d]
  PROVE  Owners'
<1>1. \A i \in Slots : slot[i] # e
  BY DEF Owners
<1>2. \A u \in Threads : ~Holds(u, e)'
  BY DEF Owners
<1>3. ASSUME NEW d \in Dcs
      PROVE  life'[d] = "live" <=> \/ \E i \in Slots : slot'[i] = d
                                  \/ \E u \in Threads : Holds(u, d)'
  BY <1>1, <1>2 DEF Owners
<1>4. QED
  BY <1>3 DEF Owners

\* A thread is given the memory of a dc.
LEMMA OwnersNew ==
  ASSUME TypeOK, Owners, NEW t \in Threads, NEW e \in Dcs,
         \A u \in Threads \ {t}, d \in Dcs : Holds(u, d)' <=> Holds(u, d),
         \A d \in Dcs : ~Holds(t, d),
         \A d \in Dcs : Holds(t, d)' <=> d = e,
         UNCHANGED slot,
         life[e] = "free",
         life'[e] = "live", \A d \in Dcs \ {e} : life'[d] = life[d]
  PROVE  Owners'
<1>1. \A i \in Slots : slot[i] # e
  BY DEF Owners
<1>2. \A u \in Threads : ~Holds(u, e)
  BY DEF Owners
<1>3. ASSUME NEW d \in Dcs
      PROVE  life'[d] = "live" <=> \/ \E i \in Slots : slot'[i] = d
                                  \/ \E u \in Threads : Holds(u, d)'
  BY <1>1, <1>2 DEF Owners
<1>4. QED
  BY <1>1, <1>2, <1>3 DEF Owners

\* Every step keeps the owners.
LEMMA NextOwners ==
  ASSUME TypeOK, Control, Owners, Stores, ~WeakFails, [Next]_vars
  PROVE  Owners'
<1> USE DEF dcVars, threadVars
<1>0. ASSUME NEW t \in Threads, Acts(t)
      PROVE  \A u \in Threads \ {t}, d \in Dcs : Holds(u, d)' <=> Holds(u, d)
  BY <1>0, OthersStay
<1>1. ASSUME NEW t \in Threads, RmvMsg(t) PROVE Owners'
  <2>1. \A d \in Dcs : Holds(t, d)' <=> Holds(t, d)
    BY <1>1, DispatcherAssumption DEF RmvMsg, Goto, TypeOK, Control, Holds
  <2>2. UNCHANGED <<slot, life>>
    BY <1>1 DEF RmvMsg
  <2>3. \A u \in Threads, d \in Dcs : Holds(u, d)' <=> Holds(u, d)
    BY <1>1, <1>0, <2>1 DEF Acts, Step
  <2>4. QED
    BY <2>2, <2>3, OwnersStay
<1>2. ASSUME NEW t \in Threads, HandleDone(t) PROVE Owners'
  <2>1. \A d \in Dcs : Holds(t, d)' <=> Holds(t, d)
    BY <1>2, DispatcherAssumption DEF HandleDone, Goto, TypeOK, Control, Holds
  <2>2. UNCHANGED <<slot, life>>
    BY <1>2 DEF HandleDone
  <2>3. \A u \in Threads, d \in Dcs : Holds(u, d)' <=> Holds(u, d)
    BY <1>2, <1>0, <2>1 DEF Acts, Step
  <2>4. QED
    BY <2>2, <2>3, OwnersStay
<1>3. ASSUME NEW t \in Threads, RetDc(t) PROVE Owners'
  <2>1. dc[t] \in Dcs /\ \A d \in Dcs : Holds(t, d) <=> d = dc[t]
    BY <1>3 DEF RetDc, Control, Holds
  <2>2. \A d \in Dcs : ~Holds(t, d)'
    <3>1. CASE op[t] = "rmv"
      BY <1>3, <3>1, ReturnGoes, DispatcherAssumption DEF RetDc, Holds
    <3>2. CASE op[t] # "rmv"
      BY <1>3, <3>2, NextSlotGoes, DispatcherAssumption DEF RetDc, Control, Holds
    <3>3. QED
      BY <3>1, <3>2
  <2>3. UNCHANGED slot /\ life'[dc[t]] = "free" /\ \A d \in Dcs \ {dc[t]} : life'[d] = life[d]
    BY <1>3, <2>1 DEF RetDc, TypeOK
  <2>4. QED
    BY <1>3, <1>0, <2>1, <2>2, <2>3, OwnersFree DEF Acts, Step
<1>4. ASSUME NEW t \in Threads, DispatchXchg(t) PROVE Owners'
  <2>1. idx[t] \in Slots /\ \A d \in Dcs : ~Holds(t, d)
    BY <1>4 DEF DispatchXchg, TypeOK, Control, Holds
  <2>2. slot'[idx[t]] \notin Dcs /\ \A j \in Slots \ {idx[t]} : slot'[j] = slot[j]
    BY <1>4, <2>1, DispatcherAssumption DEF DispatchXchg, TakeOut, TypeOK
  <2>3. CASE slot[idx[t]] \in Dcs
    <3>1. \A d \in Dcs : Holds(t, d)' <=> d = slot[idx[t]]
      BY <1>4, <2>3, DispatcherAssumption DEF DispatchXchg, Goto, TypeOK, Holds
    <3>2. UNCHANGED life
      BY <1>4 DEF DispatchXchg
    <3>3. QED
      BY <1>4, <1>0, <2>1, <2>2, <2>3, <3>1, <3>2, OwnersTaken DEF Acts, Step
  <2>4. CASE slot[idx[t]] \notin Dcs
    <3>1. \A d \in Dcs : ~Holds(t, d)'
      <4>1. CASE NextSlot(t)
        BY <1>4, <4>1, NextSlotGoes, DispatcherAssumption DEF DispatchXchg, Control, Holds
      <4>2. CASE ~NextSlot(t)
        BY <1>4, <2>4, <4>2, DispatcherAssumption DEF DispatchXchg, Goto, TypeOK, Holds
      <4>3. QED
        BY <4>1, <4>2
    <3>2. UNCHANGED life
      BY <1>4 DEF DispatchXchg
    <3>3. \A u \in Threads, d \in Dcs : Holds(u, d)' <=> Holds(u, d)
      BY <1>4, <1>0, <2>1, <3>1 DEF Acts, Step
    <3>4. \A i \in Slots : slot'[i] = slot[i] \/ (slot'[i] \notin Dcs /\ slot[i] \notin Dcs)
      BY <2>2, <2>4
    <3>5. QED
      BY <3>2, <3>3, <3>4, OwnersStay
  <2>5. QED
    BY <2>3, <2>4
<1>5. ASSUME NEW t \in Threads, DispatchStore(t) PROVE Owners'
  <2>1. idx[t] \in Slots /\ \A d \in Dcs : ~Holds(t, d)
    BY <1>5 DEF DispatchStore, TypeOK, Control, Holds
  <2>2. /\ slot[idx[t]] \notin Dcs /\ slot'[idx[t]] \notin Dcs
        /\ \A j \in Slots \ {idx[t]} : slot'[j] = slot[j]
        /\ UNCHANGED life
    BY <1>5, <2>1, DispatcherAssumption DEF DispatchStore, PutEmpty, Stores, TypeOK
  <2>3. \A d \in Dcs : ~Holds(t, d)'
    BY <1>5, NextSlotGoes, DispatcherAssumption DEF DispatchStore, Control, Holds
  <2>4. \A u \in Threads, d \in Dcs : Holds(u, d)' <=> Holds(u, d)
    BY <1>5, <1>0, <2>1, <2>3 DEF Acts, Step
  <2>5. QED
    BY <2>2, <2>3, <2>4, OwnersStay
<1>6. ASSUME NEW t \in Threads, DispatchRestore(t) PROVE Owners'
  <2>1. /\ idx[t] \in Slots /\ dc[t] \in Dcs
        /\ \A d \in Dcs : Holds(t, d) <=> d = dc[t]
    BY <1>6 DEF DispatchRestore, TypeOK, Control, Holds
  <2>2. /\ slot[idx[t]] \notin Dcs /\ slot'[idx[t]] = dc[t]
        /\ \A j \in Slots \ {idx[t]} : slot'[j] = slot[j]
        /\ UNCHANGED life
    BY <1>6, <2>1, DispatcherAssumption DEF DispatchRestore, StillProcessing, TypeOK
  <2>3. \A d \in Dcs : ~Holds(t, d)'
    BY <1>6, NextSlotGoes, DispatcherAssumption DEF DispatchRestore, Control, Holds
  <2>4. QED
    BY <1>6, <1>0, <2>1, <2>2, <2>3, OwnersPut DEF Acts, Step
<1>7. ASSUME NEW t \in Threads, DispatchRemoved(t) PROVE Owners'
  <2>1. \A d \in Dcs : Holds(t, d)' <=> Holds(t, d)
    BY <1>7, DispatcherAssumption DEF DispatchRemoved, Goto, TypeOK, Control, Holds
  <2>2. UNCHANGED <<slot, life>>
    BY <1>7 DEF DispatchRemoved
  <2>3. \A u \in Threads, d \in Dcs : Holds(u, d)' <=> Holds(u, d)
    BY <1>7, <1>0, <2>1 DEF Acts, Step
  <2>4. QED
    BY <2>2, <2>3, OwnersStay
<1>8. ASSUME NEW t \in Threads, DispatchEnd(t) PROVE Owners'
  <2>1. \A d \in Dcs : Holds(t, d)' <=> Holds(t, d)
    BY <1>8, DispatcherAssumption DEF DispatchEnd, Return, TypeOK, Control, Holds
  <2>2. UNCHANGED <<slot, life>>
    BY <1>8 DEF DispatchEnd
  <2>3. \A u \in Threads, d \in Dcs : Holds(u, d)' <=> Holds(u, d)
    BY <1>8, <1>0, <2>1 DEF Acts, Step
  <2>4. QED
    BY <2>2, <2>3, OwnersStay
<1>9. ASSUME NEW t \in Threads, AddCas(t) PROVE Owners'
  <2>1. /\ idx[t] \in Slots /\ dc[t] \in Dcs
        /\ \A d \in Dcs : Holds(t, d) <=> d = dc[t]
    BY <1>9 DEF AddCas, TypeOK, Control, Holds
  <2>2. /\ slot[idx[t]] \notin Dcs /\ slot'[idx[t]] = dc[t]
        /\ \A j \in Slots \ {idx[t]} : slot'[j] = slot[j]
        /\ UNCHANGED life
    BY <1>9, <2>1, DispatcherAssumption DEF AddCas, TypeOK
  <2>3. \A d \in Dcs : ~Holds(t, d)'
    BY <1>9, DispatcherAssumption DEF AddCas, Goto, TypeOK, Holds
  <2>4. QED
    BY <1>9, <1>0, <2>1, <2>2, <2>3, OwnersPut DEF Acts, Step
<1>10. ASSUME NEW t \in Threads, AddCasFails(t) PROVE Owners'
  <2>1. \A d \in Dcs : Holds(t, d)' <=> Holds(t, d)
    BY <1>10, NextSlotGoes, DispatcherAssumption DEF AddCasFails, TypeOK, Control, Holds
  <2>2. UNCHANGED <<slot, life>>
    BY <1>10 DEF AddCasFails
  <2>3. \A u \in Threads, d \in Dcs : Holds(u, d)' <=> Holds(u, d)
    BY <1>10, <1>0, <2>1 DEF Acts, Step
  <2>4. QED
    BY <2>2, <2>3, OwnersStay
<1>11. ASSUME NEW t \in Threads, AddInit(t) PROVE Owners'
  <2>1. \A d \in Dcs : Holds(t, d)' <=> Holds(t, d)
    BY <1>11, DispatcherAssumption DEF AddInit, Return, TypeOK, Control, Holds
  <2>2. UNCHANGED <<slot, life>>
    BY <1>11 DEF AddInit
  <2>3. \A u \in Threads, d \in Dcs : Holds(u, d)' <=> Holds(u, d)
    BY <1>11, <1>0, <2>1 DEF Acts, Step
  <2>4. QED
    BY <2>2, <2>3, OwnersStay
<1>12. ASSUME NEW t \in Threads, AddFull(t) PROVE Owners'
  <2>1. dc[t] \in Dcs /\ \A d \in Dcs : Holds(t, d) <=> d = dc[t]
    BY <1>12 DEF AddFull, Control, Holds
  <2>2. \A d \in Dcs : ~Holds(t, d)'
    BY <1>12, ReturnGoes, DispatcherAssumption DEF AddFull, Holds
  <2>3. UNCHANGED slot /\ life'[dc[t]] = "free" /\ \A d \in Dcs \ {dc[t]} : life'[d] = life[d]
    BY <1>12, <2>1 DEF AddFull, TypeOK
  <2>4. QED
    BY <1>12, <1>0, <2>1, <2>2, <2>3, OwnersFree DEF Acts, Step
<1>13. ASSUME NEW t \in Threads, RmvLoad(t) PROVE Owners'
  <2>1. \A d \in Dcs : ~Holds(t, d)
    BY <1>13 DEF RmvLoad, Control, Holds
  <2>2. \A d \in Dcs : ~Holds(t, d)'
    <3>1. CASE NextSlot(t)
      BY <1>13, <3>1, NextSlotGoes, DispatcherAssumption DEF RmvLoad, Control, Holds
    <3>2. CASE ~NextSlot(t)
      BY <1>13, <3>2, DispatcherAssumption DEF RmvLoad, WaitFor, Goto, Control, TypeOK,
         Holds
    <3>3. QED
      BY <3>1, <3>2
  <2>3. UNCHANGED <<slot, life>>
    BY <1>13 DEF RmvLoad
  <2>4. \A u \in Threads, d \in Dcs : Holds(u, d)' <=> Holds(u, d)
    BY <1>13, <1>0, <2>1, <2>2 DEF Acts, Step
  <2>5. QED
    BY <2>2, <2>3, <2>4, OwnersStay
<1>14. ASSUME NEW t \in Threads, RmvCompare(t) PROVE Owners'
  <2>1. \A d \in Dcs : ~Holds(t, d)
    BY <1>14 DEF RmvCompare, Control, Holds
  <2>2. \A d \in Dcs : ~Holds(t, d)'
    <3>1. CASE NextSlot(t)
      BY <1>14, <3>1, NextSlotGoes, DispatcherAssumption DEF RmvCompare, Control, Holds
    <3>2. CASE ~NextSlot(t)
      BY <1>14, <3>2, DispatcherAssumption DEF RmvCompare, Goto, TypeOK, Holds
    <3>3. QED
      BY <3>1, <3>2
  <2>3. UNCHANGED <<slot, life>>
    BY <1>14 DEF RmvCompare
  <2>4. \A u \in Threads, d \in Dcs : Holds(u, d)' <=> Holds(u, d)
    BY <1>14, <1>0, <2>1, <2>2 DEF Acts, Step
  <2>5. QED
    BY <2>2, <2>3, <2>4, OwnersStay
<1>15. ASSUME NEW t \in Threads, RmvTake(t) PROVE Owners'
  <2>1. idx[t] \in Slots /\ \A d \in Dcs : ~Holds(t, d)
    BY <1>15 DEF RmvTake, TypeOK, Control, Holds
  <2>2. /\ slot'[idx[t]] \notin Dcs /\ \A j \in Slots \ {idx[t]} : slot'[j] = slot[j]
        /\ UNCHANGED life
    BY <1>15, <2>1, DispatcherAssumption DEF RmvTake, MakeEmpty, TypeOK
  <2>3. CASE slot[idx[t]] \in Dcs
    <3>1. \A d \in Dcs : Holds(t, d)' <=> d = slot[idx[t]]
      BY <1>15, <2>3 DEF RmvTake, AfterTake, Goto, TypeOK, Holds
    <3>2. QED
      BY <1>15, <1>0, <2>1, <2>2, <2>3, <3>1, OwnersTaken DEF Acts, Step
  <2>4. CASE slot[idx[t]] \notin Dcs
    <3>1. \A d \in Dcs : ~Holds(t, d)'
      <4>1. CASE op[t] = "rmv"
        BY <1>15, <2>4, <4>1, ReturnGoes, DispatcherAssumption DEF RmvTake, Holds
      <4>2. CASE op[t] # "rmv"
        BY <1>15, <2>4, <4>2, NextSlotGoes, DispatcherAssumption DEF RmvTake, Control, Holds
      <4>3. QED
        BY <4>1, <4>2
    <3>2. \A u \in Threads, d \in Dcs : Holds(u, d)' <=> Holds(u, d)
      BY <1>15, <1>0, <2>1, <3>1 DEF Acts, Step
    <3>3. \A i \in Slots : slot'[i] = slot[i] \/ (slot'[i] \notin Dcs /\ slot[i] \notin Dcs)
      BY <2>2, <2>4
    <3>4. QED
      BY <2>2, <3>2, <3>3, OwnersStay
  <2>5. QED
    BY <2>3, <2>4
<1>16. ASSUME NEW t \in Threads, RmvNotFound(t) PROVE Owners'
  <2>1. \A d \in Dcs : Holds(t, d)' <=> Holds(t, d)
    BY <1>16, DispatcherAssumption DEF RmvNotFound, Return, TypeOK, Control, Holds
  <2>2. UNCHANGED <<slot, life>>
    BY <1>16 DEF RmvNotFound
  <2>3. \A u \in Threads, d \in Dcs : Holds(u, d)' <=> Holds(u, d)
    BY <1>16, <1>0, <2>1 DEF Acts, Step
  <2>4. QED
    BY <2>2, <2>3, OwnersStay
<1>17. ASSUME NEW t \in Threads, RetEnd(t) PROVE Owners'
  <2>1. \A d \in Dcs : Holds(t, d)' <=> Holds(t, d)
    BY <1>17, DispatcherAssumption DEF RetEnd, Return, TypeOK, Control, Holds
  <2>2. UNCHANGED <<slot, life>>
    BY <1>17 DEF RetEnd
  <2>3. \A u \in Threads, d \in Dcs : Holds(u, d)' <=> Holds(u, d)
    BY <1>17, <1>0, <2>1 DEF Acts, Step
  <2>4. QED
    BY <2>2, <2>3, OwnersStay
<1>18. ASSUME NEW t \in Threads, DispatchStart(t) PROVE Owners'
  <2>1. \A d \in Dcs : Holds(t, d)' <=> Holds(t, d)
    BY <1>18, DispatcherAssumption DEF DispatchStart, Call, FirstAt, TypeOK, Control, Holds
  <2>2. UNCHANGED <<slot, life>>
    BY <1>18 DEF DispatchStart
  <2>3. \A u \in Threads, d \in Dcs : Holds(u, d)' <=> Holds(u, d)
    BY <1>18, <1>0, <2>1 DEF Acts, Step
  <2>4. QED
    BY <2>2, <2>3, OwnersStay
<1>19. ASSUME NEW t \in Threads, NEW c \in Comps, NEW d \in Dcs, AddStart(t, c, d)
      PROVE  Owners'
  <2>1. \A e \in Dcs : ~Holds(t, e)
    BY <1>19 DEF AddStart, Call, Control, Holds
  <2>2. \A e \in Dcs : Holds(t, e)' <=> e = d
    BY <1>19 DEF AddStart, Call, FirstAt, TypeOK, Holds
  <2>3. /\ UNCHANGED slot /\ life[d] = "free"
        /\ life'[d] = "live" /\ \A e \in Dcs \ {d} : life'[e] = life[e]
    BY <1>19 DEF AddStart, TypeOK
  <2>4. QED
    BY <1>19, <1>0, <2>1, <2>2, <2>3, OwnersNew DEF Acts
<1>20. ASSUME NEW t \in Threads, NEW c \in Comps, RmvStart(t, c) PROVE Owners'
  <2>1. \A d \in Dcs : Holds(t, d)' <=> Holds(t, d)
    BY <1>20, DispatcherAssumption DEF RmvStart, Call, FirstAt, TypeOK, Control, Holds
  <2>2. UNCHANGED <<slot, life>>
    BY <1>20 DEF RmvStart
  <2>3. \A u \in Threads, d \in Dcs : Holds(u, d)' <=> Holds(u, d)
    BY <1>20, <1>0, <2>1 DEF Acts, Step
  <2>4. QED
    BY <2>2, <2>3, OwnersStay
<1>21. ASSUME NEW t \in Threads, RetStart(t) PROVE Owners'
  <2>1. \A d \in Dcs : Holds(t, d)' <=> Holds(t, d)
    BY <1>21, DispatcherAssumption DEF RetStart, Call, FirstAt, TypeOK, Control, Holds
  <2>2. UNCHANGED <<slot, life>>
    BY <1>21 DEF RetStart
  <2>3. \A u \in Threads, d \in Dcs : Holds(u, d)' <=> Holds(u, d)
    BY <1>21, <1>0, <2>1 DEF Acts, Step
  <2>4. QED
    BY <2>2, <2>3, OwnersStay
<1>22. ASSUME NEW c \in Comps, NEW d \in Dcs, SendMsg(c, d) PROVE Owners'
  BY <1>22 DEF SendMsg, Owners, Holds
<1>23. CASE UNCHANGED vars
  BY <1>23 DEF vars, Owners, Holds
<1>24. QED
  BY <1>1, <1>2, <1>3, <1>4, <1>5, <1>6, <1>7, <1>8, <1>9, <1>10, <1>11, <1>12, <1>13,
     <1>14, <1>15, <1>16, <1>17, <1>18, <1>19, <1>20, <1>21, <1>22, <1>23 DEF Next, Step

\* One thread at most is in AcDispatcher_dispatch.
LEMMA OneDispatch ==
  ASSUME OneDispatcher, Control, NEW t \in Threads, NEW u \in Threads,
         op[t] = "dispatch", op[u] = "dispatch"
  PROVE  t = u
BY DEF Control, OneDispatcher

\* A slot is one dc's.
LEMMA OnePlace ==
  ASSUME OneDispatcher, Control, NEW i \in Slots, NEW d \in Dcs, NEW e \in Dcs,
         InPlaceAt(d, i), InPlaceAt(e, i)
  PROVE  d = e
BY OneDispatch, DispatcherAssumption DEF InPlaceAt, InProcess

\* A dc that is in place is allocated.
LEMMA PlacedIsLive ==
  ASSUME Owners, NEW d \in Dcs, InPlace(d)
  PROVE  life[d] = "live"
BY DEF Owners, InPlace, InPlaceAt, InProcess, Holds

\* A dc that a thread holds, but not for processing, is in no place.
LEMMA HeldIsNotPlaced ==
  ASSUME Owners, NEW t \in Threads, NEW d \in Dcs, Holds(t, d), ~InProcess(t)
  PROVE  ~InPlace(d)
<1>1. \A i \in Slots : slot[i] # d
  BY DEF Owners
<1>2. \A u \in Threads : InProcess(u) /\ dc[u] = d => u = t
  BY DEF Owners, InProcess, Holds
<1>3. QED
  BY <1>1, <1>2 DEF InPlace, InPlaceAt

\* The component of a dc that is allocated does not change.
LEMMA CompStays ==
  ASSUME TypeOK, [Next]_vars, NEW d \in Dcs, life[d] = "live"
  PROVE  dcComp'[d] = dcComp[d]
<1>1. CASE \E t \in Threads, c \in Comps, e \in Dcs : AddStart(t, c, e)
  BY <1>1 DEF AddStart, TypeOK
<1>2. CASE UNCHANGED dcComp
  BY <1>2
<1>3. QED
  BY <1>1, <1>2 DEF Next, Step, RmvMsg, HandleDone, RetDc, DispatchXchg, DispatchStore,
    DispatchRestore, DispatchRemoved, DispatchEnd, AddCas, AddCasFails, AddInit, AddFull,
    RmvLoad, RmvCompare, RmvTake, RmvNotFound, RetEnd, DispatchStart, RmvStart, RetStart,
    SendMsg, vars, dcVars

\* The steps that write a slot.
LEMMA SlotMoves ==
  ASSUME [Next]_vars
  PROVE  \/ UNCHANGED slot
         \/ \E t \in Threads : \/ DispatchXchg(t) \/ DispatchStore(t) \/ DispatchRestore(t)
                               \/ AddCas(t) \/ RmvTake(t)
BY DEF Next, Step, RmvMsg, HandleDone, RetDc, 
    DispatchRemoved, DispatchEnd, AddCasFails, AddInit, AddFull,
    RmvLoad, RmvCompare, RmvNotFound, RetEnd, DispatchStart, AddStart, RmvStart, RetStart,
    SendMsg, vars

\* A dc that is in a slot stays in place unless it is taken by a remover.
LEMMA InSlotStays ==
  ASSUME OneDispatcher, TypeOK, Control, Stores, [Next]_vars,
         NEW i \in Slots, NEW d \in Dcs, slot[i] = d,
         \A t \in Threads : RmvTake(t) => idx[t] # i
  PROVE  InPlaceAt(d, i)'
<1>1. ASSUME NEW t \in Threads, DispatchXchg(t)
      PROVE  InPlaceAt(d, i)'
  <2>1. CASE idx[t] = i
    <3>1. slot'[i] = PROCESSING
      BY <1>1, <2>1 DEF DispatchXchg, TakeOut, TypeOK
    <3>2. op'[t] = "dispatch" /\ pc'[t] = "rmv" /\ idx'[t] = i /\ dc'[t] = d
      BY <1>1, <2>1, DispatcherAssumption DEF DispatchXchg, Goto, TypeOK, Control
    <3>3. QED
      BY <3>1, <3>2 DEF InPlaceAt, InProcess
  <2>2. CASE idx[t] # i
    BY <1>1, <2>2 DEF DispatchXchg, TakeOut, TypeOK, InPlaceAt
  <2>3. QED
    BY <2>1, <2>2
<1>2. ASSUME NEW t \in Threads, DispatchStore(t) PROVE InPlaceAt(d, i)'
  BY <1>2, DispatcherAssumption DEF DispatchStore, PutEmpty, Stores, TypeOK, InPlaceAt
<1>3. ASSUME NEW t \in Threads, DispatchRestore(t) PROVE InPlaceAt(d, i)'
  BY <1>3, DispatcherAssumption DEF DispatchRestore, StillProcessing, TypeOK, InPlaceAt
<1>4. ASSUME NEW t \in Threads, AddCas(t) PROVE InPlaceAt(d, i)'
  BY <1>4, DispatcherAssumption DEF AddCas, TypeOK, InPlaceAt
<1>5. ASSUME NEW t \in Threads, RmvTake(t) PROVE InPlaceAt(d, i)'
  BY <1>5 DEF RmvTake, MakeEmpty, TypeOK, InPlaceAt
<1>6. CASE UNCHANGED slot
  BY <1>6 DEF InPlaceAt
<1>7. QED
  BY <1>1, <1>2, <1>3, <1>4, <1>5, <1>6, SlotMoves

\* So does one that is in process: the dispatch puts it back.
LEMMA InProcessStays ==
  ASSUME OneDispatcher, ~WeakFails, TypeOK, Control, [Next]_vars,
         NEW i \in Slots, NEW d \in Dcs, NEW u \in Threads,
         slot[i] = PROCESSING, InProcess(u), idx[u] = i, dc[u] = d,
         \A t \in Threads : RmvTake(t) => idx[t] # i
  PROVE  InPlaceAt(d, i)'
<1>1. CASE \E t \in Threads \ {u} : Acts(t)
  <2>1. InProcess(u)' /\ idx'[u] = i /\ dc'[u] = d
    BY <1>1, OthersStay
  <2>2. PICK t \in Threads \ {u} : Acts(t)
    BY <1>1
  <2>3. op[t] # "dispatch"
    BY OneDispatch DEF InProcess
  <2>4. slot'[i] = PROCESSING
    <3>1. CASE UNCHANGED slot
      BY <3>1
    <3>2. CASE AddCas(t)
      BY <3>2, DispatcherAssumption DEF AddCas, TypeOK
    <3>3. CASE RmvTake(t)
      BY <3>3 DEF RmvTake, MakeEmpty, TypeOK
    <3>4. ~DispatchXchg(t) /\ ~DispatchStore(t) /\ ~DispatchRestore(t)
      BY <2>3 DEF DispatchXchg, DispatchStore, DispatchRestore, Control
    <3>5. QED
      BY <2>2, <3>1, <3>2, <3>3, <3>4 DEF Acts, Step, RmvMsg, HandleDone, RetDc,
        DispatchRemoved, DispatchEnd, AddCasFails, AddInit, AddFull,
        RmvLoad, RmvCompare, RmvNotFound, RetEnd, DispatchStart, AddStart, RmvStart, RetStart
  <2>5. QED
    BY <2>1, <2>4 DEF InPlaceAt
<1>2. CASE Acts(u)
  <2>1. RmvMsg(u) \/ HandleDone(u) \/ DispatchRestore(u) \/ DispatchRemoved(u)
    BY <1>2 DEF Acts, Step, InProcess, RetDc, DispatchXchg, DispatchStore,
      DispatchEnd, AddCas, AddCasFails, AddInit, AddFull, RmvLoad, RmvCompare, RmvTake,
      RmvNotFound, RetEnd, DispatchStart, AddStart, RmvStart, RetStart, Call
  <2>2. CASE RmvMsg(u) \/ HandleDone(u)
    BY <2>2 DEF RmvMsg, HandleDone, Goto, TypeOK, InPlaceAt, InProcess
  <2>3. CASE DispatchRestore(u)
    BY <2>3 DEF DispatchRestore, TypeOK, InPlaceAt
  <2>4. ~DispatchRemoved(u)
    BY DEF DispatchRemoved, StillProcessing
  <2>5. QED
    BY <2>1, <2>2, <2>3, <2>4
<1>3. CASE UNCHANGED <<slot, threadVars>>
  BY <1>3 DEF InPlaceAt, InProcess, threadVars
<1>4. QED
  BY <1>1, <1>2, <1>3 DEF Next, Acts, SendMsg, vars

\* A dc stays in place unless a remover takes it.
LEMMA PlaceStays ==
  ASSUME OneDispatcher, ~WeakFails, TypeOK, Control, Stores, [Next]_vars,
         NEW i \in Slots, NEW d \in Dcs, InPlaceAt(d, i),
         \A t \in Threads : RmvTake(t) => idx[t] # i
  PROVE  InPlaceAt(d, i)'
BY InSlotStays, InProcessStays DEF InPlaceAt

\* Thread t stays where it is.
Same(t) == /\ pc'[t] = pc[t] /\ op'[t] = op[t] /\ idx'[t] = idx[t]
           /\ dc'[t] = dc[t] /\ comp'[t] = comp[t]

\* A remover passes over a slot that is empty or another component's.
PassesOver(t) ==
  /\ comp'[t] = comp[t]
  /\ \/ RmvLoad(t) /\ slot[idx[t]] = EMPTY
     \/ RmvCompare(t) /\ dcComp[dc[t]] # comp[t]

\* How thread t gets where it does.
Arrives(t) ==
  /\ pc'[t] = "store" => DispatchXchg(t) /\ idx'[t] = idx[t]
  /\ pc'[t] = "cmp" => RmvLoad(t) /\ slot[idx[t]] = dc'[t] /\ idx'[t] = idx[t] /\ comp'[t] = comp[t]
  /\ pc'[t] = "take" /\ op'[t] = "rmv" =>
       RmvCompare(t) /\ dcComp[dc[t]] = comp[t] /\ idx'[t] = idx[t] /\ comp'[t] = comp[t]
  /\ pc'[t] = "init" => AddCas(t) /\ idx'[t] = idx[t] /\ dc'[t] = dc[t]
  /\ op'[t] = "add" => \/ op[t] = "add" /\ dc'[t] = dc[t] /\ comp'[t] = comp[t]
                       \/ \E c \in Comps, d \in Dcs :
                            AddStart(t, c, d) /\ dc'[t] = d /\ comp'[t] = c
  /\ pc'[t] = "restore" => RmvMsg(t) /\ queue[dc[t]] = <<>> /\ dc'[t] = dc[t]
  /\ pc'[t] = "deinit" =>
       dc'[t] = dc[t] /\ ((RmvMsg(t) /\ queue[dc[t]] = <<>>) \/ DispatchRemoved(t))
  /\ pc'[t] = "load" => \/ PassesOver(t) /\ idx'[t] = idx[t] + 1
                        \/ \E c \in Comps : RmvStart(t, c) /\ idx'[t] = 0 /\ comp'[t] = c
  /\ pc'[t] = "end" /\ op'[t] = "rmv" => PassesOver(t) /\ idx[t] = MaxCount - 1

\* A thread that acts stays where it is or arrives as Arrives says.
LEMMA WhereFrom ==
  ASSUME TypeOK, Control, NEW t \in Threads, Acts(t)
  PROVE  Arrives(t) \/ Same(t)
<1> USE DEF dcVars, threadVars
<1>1. ASSUME RmvMsg(t) PROVE Arrives(t) \/ Same(t)
  BY <1>1, DispatcherAssumption DEF RmvMsg, Goto, Arrives, PassesOver, TypeOK, Control
<1>2. ASSUME HandleDone(t) PROVE Arrives(t) \/ Same(t)
  BY <1>2, DispatcherAssumption DEF HandleDone, Goto, Arrives, PassesOver, TypeOK, Control
<1>3. ASSUME RetDc(t) PROVE Arrives(t) \/ Same(t)
  <2>1. CASE op[t] = "rmv"
    BY <1>3, <2>1, ReturnGoes DEF RetDc, Arrives
  <2>2. CASE op[t] # "rmv"
    BY <1>3, <2>2, NextSlotGoes DEF RetDc, Control, Arrives
  <2>3. QED
    BY <2>1, <2>2
<1>4. ASSUME DispatchXchg(t) PROVE Arrives(t) \/ Same(t)
  <2>1. CASE NextSlot(t)
    BY <1>4, <2>1, NextSlotGoes DEF DispatchXchg, Control, Arrives
  <2>2. CASE ~NextSlot(t)
    BY <1>4, <2>2 DEF DispatchXchg, Goto, TypeOK, Control, Arrives
  <2>3. QED
    BY <2>1, <2>2
<1>5. ASSUME DispatchStore(t) PROVE Arrives(t) \/ Same(t)
  BY <1>5, NextSlotGoes, ReturnGoes DEF DispatchStore, Arrives, TypeOK, Control
<1>6. ASSUME DispatchRestore(t) PROVE Arrives(t) \/ Same(t)
  BY <1>6, NextSlotGoes, ReturnGoes DEF DispatchRestore, Arrives, TypeOK, Control
<1>7. ASSUME DispatchRemoved(t) PROVE Arrives(t) \/ Same(t)
  BY <1>7, DispatcherAssumption DEF DispatchRemoved, StillProcessing, Goto, Arrives,
     PassesOver, TypeOK, Control
<1>8. ASSUME DispatchEnd(t) PROVE Arrives(t) \/ Same(t)
  BY <1>8, DispatcherAssumption DEF DispatchEnd, Return, Arrives, PassesOver, TypeOK,
     Control
<1>9. ASSUME AddCas(t) PROVE Arrives(t) \/ Same(t)
  BY <1>9, DispatcherAssumption DEF AddCas, Goto, Arrives, PassesOver, TypeOK, Control
<1>10. ASSUME AddCasFails(t) PROVE Arrives(t) \/ Same(t)
  BY <1>10, NextSlotGoes, ReturnGoes DEF AddCasFails, Arrives, TypeOK, Control
<1>11. ASSUME AddInit(t) PROVE Arrives(t) \/ Same(t)
  BY <1>11, DispatcherAssumption DEF AddInit, SendInit, Return, Arrives, PassesOver,
     TypeOK, Control
<1>12. ASSUME AddFull(t) PROVE Arrives(t) \/ Same(t)
  BY <1>12, DispatcherAssumption DEF AddFull, Return, Arrives, PassesOver, TypeOK, Control
<1>13. ASSUME RmvLoad(t) PROVE Arrives(t) \/ Same(t)
  <2>1. CASE slot[idx[t]] = EMPTY
    BY <1>13, <2>1, NextSlotGoes, DispatcherAssumption DEF RmvLoad, Control, Arrives,
       PassesOver
  <2>2. CASE slot[idx[t]] = PROCESSING
    <3>1. Same(t)
      BY <1>13, <2>2, DispatcherAssumption DEF RmvLoad, WaitFor, Same
    <3>2. QED
      BY <1>13, <3>1 DEF RmvLoad, Arrives, Same
  <2>3. CASE slot[idx[t]] \in Dcs
    BY <1>13, <2>3, DispatcherAssumption DEF RmvLoad, Goto, TypeOK, Control, Arrives
  <2>4. QED
    BY <1>13, <2>1, <2>2, <2>3 DEF RmvLoad
<1>14. ASSUME RmvCompare(t) PROVE Arrives(t) \/ Same(t)
  <2>1. CASE dcComp[dc[t]] = comp[t]
    BY <1>14, <2>1 DEF RmvCompare, Goto, TypeOK, Control, Arrives
  <2>2. CASE dcComp[dc[t]] # comp[t]
    BY <1>14, <2>2, NextSlotGoes DEF RmvCompare, Control, Arrives, PassesOver
  <2>3. QED
    BY <2>1, <2>2
<1>15. ASSUME RmvTake(t) PROVE Arrives(t) \/ Same(t)
  <2>1. CASE slot[idx[t]] \in Dcs
    BY <1>15, <2>1 DEF RmvTake, AfterTake, Goto, TypeOK, Control, Arrives
  <2>2. CASE slot[idx[t]] \notin Dcs /\ op[t] = "rmv"
    BY <1>15, <2>2, ReturnGoes DEF RmvTake, Arrives
  <2>3. CASE slot[idx[t]] \notin Dcs /\ op[t] # "rmv"
    BY <1>15, <2>3, NextSlotGoes DEF RmvTake, Control, Arrives
  <2>4. QED
    BY <2>1, <2>2, <2>3
<1>16. ASSUME RmvNotFound(t) PROVE Arrives(t) \/ Same(t)
  BY <1>16, DispatcherAssumption DEF RmvNotFound, Return, Arrives, PassesOver, TypeOK,
     Control
<1>17. ASSUME RetEnd(t) PROVE Arrives(t) \/ Same(t)
  BY <1>17, DispatcherAssumption DEF RetEnd, Return, Arrives, PassesOver, TypeOK, Control
<1>18. ASSUME DispatchStart(t) PROVE Arrives(t) \/ Same(t)
  BY <1>18, DispatcherAssumption DEF DispatchStart, Call, FirstAt, Arrives, PassesOver,
     TypeOK, Control
<1>19. ASSUME NEW c \in Comps, NEW d \in Dcs, AddStart(t, c, d) PROVE Arrives(t) \/ Same(t)
  BY <1>19, DispatcherAssumption DEF AddStart, Call, FirstAt, Arrives, PassesOver,
     TypeOK, Control
<1>20. ASSUME NEW c \in Comps, RmvStart(t, c) PROVE Arrives(t) \/ Same(t)
  BY <1>20, DispatcherAssumption DEF RmvStart, Call, FirstAt, Arrives, PassesOver,
     TypeOK, Control
<1>21. ASSUME RetStart(t) PROVE Arrives(t) \/ Same(t)
  BY <1>21, DispatcherAssumption DEF RetStart, Call, FirstAt, Arrives, PassesOver,
     TypeOK, Control
<1>22. QED
  BY <1>1, <1>2, <1>3, <1>4, <1>5, <1>6, <1>7, <1>8, <1>9, <1>10, <1>11, <1>12, <1>13,
     <1>14, <1>15, <1>16, <1>17, <1>18, <1>19, <1>20, <1>21 DEF Acts, Step

\* So does every thread in every step.
LEMMA Stays ==
  ASSUME TypeOK, Control, [Next]_vars, NEW t \in Threads
  PROVE  Same(t) \/ (Acts(t) /\ Arrives(t))
<1>1. CASE Acts(t)
  BY <1>1, WhereFrom
<1>2. CASE \E u \in Threads \ {t} : Acts(u)
  BY <1>2, OthersStay DEF Same
<1>3. CASE UNCHANGED threadVars
  BY <1>3 DEF Same, threadVars
<1>4. QED
  BY <1>1, <1>2, <1>3 DEF Next, Acts, SendMsg, vars

\* A dc is installed by the end of add_comp and by nothing else.
LEMMA InstMoves ==
  ASSUME TypeOK, Control, [Next]_vars, NEW c \in Comps, NEW d \in inst'[c]
  PROVE  \/ d \in inst[c]
         \/ \E t \in Threads : AddInit(t) /\ comp[t] = c /\ d = dc[t]
<1>1. CASE UNCHANGED inst
  BY <1>1
<1>2. ASSUME NEW t \in Threads, AddInit(t)
      PROVE  d \in inst[c] \/ (comp[t] = c /\ d = dc[t])
  BY <1>2 DEF AddInit, TypeOK, Control
<1>3. ASSUME NEW t \in Threads, RetDc(t) \/ RmvTake(t) \/ RetStart(t)
      PROVE  d \in inst[c]
  BY <1>3 DEF RetDc, RmvTake, RetStart, TypeOK
<1>4. QED
  BY <1>1, <1>2, <1>3 DEF Next, Step, RmvMsg, HandleDone, DispatchXchg, DispatchStore,
    DispatchRestore, DispatchRemoved, DispatchEnd, AddCas, AddCasFails, AddFull,
    RmvLoad, RmvCompare, RmvNotFound, RetEnd, DispatchStart, AddStart, RmvStart,
    SendMsg, vars

\* Every step keeps Stores: no remover takes from the slot that a dispatch found empty.
LEMMA NextStores ==
  ASSUME OneDispatcher, TypeOK, Control, Stores, Finds, [Next]_vars
  PROVE  Stores'
<1>1. SUFFICES ASSUME NEW t \in Threads, pc'[t] = "store"
               PROVE  slot'[idx'[t]] = PROCESSING
  BY DEF Stores
<1>2. CASE Acts(t) /\ Arrives(t)
  BY <1>1, <1>2 DEF Arrives, DispatchXchg, TakeOut, TypeOK
<1>3. CASE Same(t)
  <2>1. /\ pc[t] = "store" /\ idx[t] = idx'[t] /\ idx[t] \in Slots
        /\ slot[idx[t]] = PROCESSING /\ op[t] = "dispatch" /\ open
    BY <1>1, <1>3 DEF Same, Stores, Control, TypeOK
  <2>2. ASSUME NEW u \in Threads, DispatchXchg(u) \/ DispatchStore(u) \/ DispatchRestore(u)
        PROVE  FALSE
    <3>1. op[u] = "dispatch"
      BY <2>2 DEF DispatchXchg, DispatchStore, DispatchRestore, Control
    <3>2. u = t
      BY <2>1, <3>1, OneDispatch
    <3>3. DispatchStore(t)
      BY <2>1, <2>2, <3>2 DEF DispatchXchg, DispatchRestore
    <3>4. pc'[t] # "store"
      BY <2>1, <3>3, NextSlotGoes DEF DispatchStore
    <3>5. QED
      BY <1>1, <3>4
  <2>3. ASSUME NEW u \in Threads, AddCas(u) PROVE slot'[idx[t]] = PROCESSING
    BY <2>1, <2>3, DispatcherAssumption DEF AddCas, TypeOK
  <2>4. ASSUME NEW u \in Threads, RmvTake(u) PROVE slot'[idx[t]] = PROCESSING
    <3>1. idx[u] # idx[t]
      <4>1. pc[u] = "take" /\ op[u] = "rmv"
        BY <2>1, <2>4 DEF RmvTake, Control
      <4>2. PICK d \in Dcs : InPlaceAt(d, idx[u])
        BY <4>1 DEF Finds
      <4>3. idx[u] = idx[t] => \E v \in Threads : InProcess(v)
        BY <2>1, <4>2, DispatcherAssumption DEF InPlaceAt
      <4>4. \A v \in Threads : ~InProcess(v)
        BY <2>1, OneDispatch DEF InProcess
      <4>5. QED
        BY <4>3, <4>4
    <3>2. QED
      BY <2>1, <2>4, <3>1 DEF RmvTake, MakeEmpty, TypeOK
  <2>5. QED
    BY <2>1, <2>2, <2>3, <2>4, SlotMoves
<1>4. QED
  BY <1>2, <1>3, Stays

\* Nobody takes while a remover is still looking.
LEMMA NoTake ==
  ASSUME Control, NEW t \in Threads, op[t] = "rmv", pc[t] # "take"
  PROVE  \A u \in Threads : ~RmvTake(u)
BY DEF Control, RmvTake

\* A remover takes only its component's dc.
LEMMA TakesItsOwn ==
  ASSUME OneDispatcher, Control, Finds, open,
         NEW u \in Threads, RmvTake(u), idx[u] \in Slots, NEW d \in Dcs, InPlaceAt(d, idx[u])
  PROVE  op[u] = "rmv" /\ dcComp[d] = comp[u]
<1>1. pc[u] = "take" /\ op[u] = "rmv"
  BY DEF RmvTake, Control
<1>2. PICK e \in Dcs : InPlaceAt(e, idx[u]) /\ dcComp[e] = comp[u]
  BY <1>1 DEF Finds
<1>3. d = e
  BY <1>2, OnePlace
<1>4. QED
  BY <1>1, <1>2, <1>3

\* Every step keeps Finds.
LEMMA NextFinds ==
  ASSUME OneDispatcher, ~WeakFails, TypeOK, Control, Owners, Stores, Finds, [Next]_vars
  PROVE  Finds'
<1>1. SUFFICES ASSUME NEW t \in Threads
               PROVE  /\ pc'[t] = "cmp" => InPlaceAt(dc[t], idx[t])'
                      /\ pc'[t] = "take" /\ op'[t] = "rmv" =>
                           \E d \in Dcs : InPlaceAt(d, idx[t])' /\ dcComp'[d] = comp'[t]
  BY DEF Finds
<1>2. ASSUME NEW d \in Dcs, NEW i \in Slots, InPlaceAt(d, i), op[t] = "rmv",
             pc[t] # "take" \/ ~RmvTake(t)
      PROVE  InPlaceAt(d, i)' /\ dcComp'[d] = dcComp[d]
  <2>1. \A u \in Threads : ~RmvTake(u)
    <3>1. ASSUME NEW u \in Threads, RmvTake(u) PROVE u = t
      BY <1>2, <3>1 DEF RmvTake, Control
    <3>2. QED
      BY <1>2, <3>1, NoTake
  <2>2. InPlaceAt(d, i)'
    BY <1>2, <2>1, PlaceStays
  <2>3. InPlace(d)
    BY <1>2 DEF InPlace
  <2>4. QED
    BY <2>2, <2>3, PlacedIsLive, CompStays
<1>3. ASSUME pc'[t] = "cmp"
      PROVE  InPlaceAt(dc[t], idx[t])'
  <2>1. CASE Same(t)
    <3>1. pc[t] = "cmp" /\ op[t] = "rmv" /\ dc[t] \in Dcs /\ idx[t] \in Slots
      BY <1>3, <2>1 DEF Same, Control, TypeOK
    <3>2. InPlaceAt(dc[t], idx[t])
      BY <3>1 DEF Finds
    <3>3. \A d \in Dcs, i \in Slots : InPlaceAt(d, i) => InPlaceAt(d, i)'
      BY <1>2, <3>1
    <3>4. \A d, i : d = dc'[t] /\ i = idx'[t] => (InPlaceAt(d, i)' <=> InPlaceAt(dc[t], idx[t])')
      BY DEF InPlaceAt
    <3>5. QED
      BY <2>1, <3>1, <3>2, <3>3, <3>4 DEF Same
  <2>2. CASE Arrives(t)
    <3>1. slot'[idx'[t]] = dc'[t]
      BY <1>3, <2>2 DEF Arrives, RmvLoad
    <3>2. QED
      BY <3>1 DEF InPlaceAt
  <2>3. QED
    BY <2>1, <2>2, Stays
<1>4. ASSUME pc'[t] = "take", op'[t] = "rmv"
      PROVE  \E d \in Dcs : InPlaceAt(d, idx[t])' /\ dcComp'[d] = comp'[t]
  <2>1. \E d \in Dcs : InPlaceAt(d, idx'[t]) /\ dcComp[d] = comp'[t]
    <3>1. CASE Same(t)
      BY <1>4, <3>1 DEF Same, Finds
    <3>2. CASE Arrives(t)
      BY <1>4, <3>2 DEF Arrives, RmvCompare, Finds, Control
    <3>3. QED
      BY <3>1, <3>2, Stays
  <2>2. op[t] = "rmv" /\ ~RmvTake(t) /\ idx'[t] \in Slots
    <3>1. RmvTake(t) /\ op[t] = "rmv" => pc'[t] # "take"
      <4>1. CASE slot[idx[t]] \in Dcs
        BY <4>1 DEF RmvTake, AfterTake, Goto, TypeOK
      <4>2. CASE slot[idx[t]] \notin Dcs
        BY <4>2, ReturnGoes DEF RmvTake
      <4>3. QED
        BY <4>1, <4>2
    <3>2. op[t] = "rmv"
      BY <1>4, Stays DEF Same, Arrives, RmvCompare, Control
    <3>3. idx'[t] = idx[t]
      BY <1>4, Stays DEF Same, Arrives
    <3>4. QED
      BY <1>4, <3>1, <3>2, <3>3 DEF TypeOK
  <2>3. PICK d \in Dcs : InPlaceAt(d, idx'[t]) /\ dcComp[d] = comp'[t]
    BY <2>1
  <2>4. \A i \in Slots : InPlaceAt(d, i) => InPlaceAt(d, i)' /\ dcComp'[d] = dcComp[d]
    BY <1>2, <2>2
  <2>5. \A i : i = idx'[t] => (InPlaceAt(d, i)' <=> InPlaceAt(d, idx[t])')
    BY DEF InPlaceAt
  <2>6. QED
    BY <2>2, <2>3, <2>4, <2>5
<1>5. QED
  BY <1>3, <1>4

\* The dc that is being added is allocated.
LEMMA AdderIsLive ==
  ASSUME TypeOK, Control, Owners, Adds, NEW t \in Threads, op[t] = "add"
  PROVE  dc[t] \in Dcs /\ life[dc[t]] = "live"
<1>1. dc[t] \in Dcs /\ pc[t] \in {"cas", "init", "end"}
  BY DEF TypeOK, Control
<1>2. pc[t] # "init" => Holds(t, dc[t])
  BY <1>1 DEF Holds
<1>3. QED
  BY <1>1, <1>2, PlacedIsLive DEF Adds, Owners

\* Every step keeps Adds: only the remover of its component could take the dc away.
LEMMA NextAdds ==
  ASSUME OneDispatcher, ~WeakFails, TypeOK, Control, Owners, Stores, Finds, Adds, [Next]_vars
  PROVE  Adds'
<1>1. SUFFICES ASSUME NEW t \in Threads
               PROVE  /\ pc'[t] = "init" => InPlace(dc[t])'
                      /\ op'[t] = "add" => dcComp'[dc'[t]] = comp'[t]
  BY DEF Adds
<1>2. ASSUME pc'[t] = "init"
      PROVE  InPlace(dc[t])'
  <2>1. CASE Same(t)
    <3>1. /\ pc[t] = "init" /\ op[t] = "add" /\ dc[t] \in Dcs /\ dc'[t] = dc[t]
          /\ dcComp[dc[t]] = comp[t] /\ comp[t] \in Comps /\ open
      BY <1>2, <2>1 DEF Same, Control, Adds
    <3>2. PICK i \in Slots : InPlaceAt(dc[t], i)
      BY <3>1 DEF Adds, InPlace
    <3>3. ASSUME NEW u \in Threads, RmvTake(u), idx[u] = i
          PROVE  FALSE
      <4>1. op[u] = "rmv" /\ comp[u] = comp[t]
        BY <3>1, <3>2, <3>3, TakesItsOwn
      <4>2. QED
        BY <3>1, <4>1 DEF Control
    <3>4. \A d : d = dc[t] => InPlaceAt(d, i)'
      BY <3>1, <3>2, <3>3, PlaceStays
    <3>5. QED
      BY <3>1, <3>4 DEF InPlace, InPlaceAt
  <2>2. CASE Arrives(t)
    <3>1. slot'[idx'[t]] = dc'[t] /\ idx'[t] \in Slots
      BY <1>2, <2>2 DEF Arrives, AddCas, TypeOK
    <3>2. QED
      BY <3>1 DEF InPlace, InPlaceAt
  <2>3. QED
    BY <2>1, <2>2, Stays
<1>3. ASSUME op'[t] = "add"
      PROVE  dcComp'[dc'[t]] = comp'[t]
  <2>1. CASE op[t] = "add" /\ dc'[t] = dc[t] /\ comp'[t] = comp[t]
    BY <2>1, AdderIsLive, CompStays DEF Adds
  <2>2. CASE \E c \in Comps, d \in Dcs : AddStart(t, c, d) /\ dc'[t] = d /\ comp'[t] = c
    BY <2>2 DEF AddStart, TypeOK
  <2>3. QED
    BY <1>3, <2>1, <2>2, Stays DEF Same, Arrives
<1>4. QED
  BY <1>2, <1>3

\* A dc that is installed is allocated.
LEMMA InstalledIsLive ==
  ASSUME TypeOK, Owners, Installed, NEW c \in Comps, NEW d \in inst[c]
  PROVE  d \in Dcs /\ life[d] = "live"
<1>1. d \in Dcs
  BY DEF TypeOK
<1>2. CASE InPlace(d)
  BY <1>1, <1>2, PlacedIsLive
<1>3. ASSUME NEW t \in Threads, Takes(t, c, d)
      PROVE  life[d] = "live"
  BY <1>1, <1>3 DEF Takes, Holds, Owners
<1>4. QED
  BY <1>1, <1>2, <1>3 DEF Installed

\* Every step keeps Installed.
LEMMA NextInstalled ==
  ASSUME OneDispatcher, ~WeakFails, TypeOK, Control, Owners, Stores, Finds, Adds, Installed,
         [Next]_vars
  PROVE  Installed'
<1>1. SUFFICES ASSUME NEW c \in Comps, NEW d \in inst'[c]
               PROVE  open' /\ dcComp'[d] = c /\ (InPlace(d)' \/ \E t \in Threads : Takes(t, c, d)')
  BY DEF Installed
<1>2. ASSUME NEW t \in Threads, AddInit(t), comp[t] = c, d = dc[t]
      PROVE  open' /\ dcComp'[d] = c /\ InPlace(d)'
  <2>1. op[t] = "add" /\ pc[t] = "init" /\ open /\ d \in Dcs
    BY <1>2 DEF AddInit, Control
  <2>2. dcComp'[d] = c
    BY <1>2, <2>1, AdderIsLive, CompStays DEF Adds
  <2>3. PICK i \in Slots : InPlaceAt(d, i)
    BY <1>2, <2>1 DEF Adds, InPlace
  <2>4. \A u \in Threads : ~RmvTake(u)
    <3>1. ASSUME NEW u \in Threads, RmvTake(u) PROVE FALSE
      <4>1. u # t
        BY <2>1, <3>1 DEF RmvTake
      <4>2. pc'[t] = "init"
        BY <2>1, <3>1, <4>1, OthersStay DEF Acts, Step
      <4>3. QED
        BY <1>2, <4>2, ReturnGoes DEF AddInit
    <3>2. QED
      BY <3>1
  <2>5. InPlaceAt(d, i)'
    BY <2>1, <2>3, <2>4, PlaceStays
  <2>6. QED
    BY <1>2, <2>1, <2>2, <2>5 DEF AddInit, InPlace
<1>3. ASSUME d \in inst[c]
      PROVE  open' /\ dcComp'[d] = c /\ (InPlace(d)' \/ \E t \in Threads : Takes(t, c, d)')
  <2>1. d \in Dcs /\ life[d] = "live" /\ open /\ dcComp[d] = c
    BY <1>3, InstalledIsLive DEF Installed
  <2>2. dcComp'[d] = c
    BY <2>1, CompStays
  <2>3. open'
    <3>1. CASE UNCHANGED open
      BY <2>1, <3>1
    <3>2. ASSUME NEW t \in Threads, RetStart(t) PROVE FALSE
      BY <1>1, <3>2 DEF RetStart
    <3>3. QED
      BY <3>1, <3>2 DEF Next, Step, RmvMsg, HandleDone, RetDc, DispatchXchg, DispatchStore,
        DispatchRestore, DispatchRemoved, DispatchEnd, AddCas, AddCasFails, AddInit, AddFull,
        RmvLoad, RmvCompare, RmvTake, RmvNotFound, RetEnd, DispatchStart, AddStart, RmvStart,
        SendMsg, vars
  <2>4. ASSUME NEW i \in Slots, InPlaceAt(d, i)
        PROVE  InPlace(d)' \/ \E t \in Threads : Takes(t, c, d)'
    <3>1. CASE \A t \in Threads : RmvTake(t) => idx[t] # i
      <4>1. InPlaceAt(d, i)'
        BY <2>1, <2>4, <3>1, PlaceStays
      <4>2. QED
        BY <4>1 DEF InPlace
    <3>2. ASSUME NEW t \in Threads, RmvTake(t), idx[t] = i
          PROVE  Takes(t, c, d)'
      <4>1. op[t] = "rmv" /\ comp[t] = c
        BY <2>1, <2>4, <3>2, TakesItsOwn
      <4>2. slot[i] \in Dcs
        <5>1. CASE slot[i] \notin Dcs
          BY <1>1, <3>2, <4>1, <5>1 DEF RmvTake, TypeOK
        <5>2. QED
          BY <5>1
      <4>3. slot[i] = d
        BY <2>4, <4>2, DispatcherAssumption DEF InPlaceAt
      <4>4. QED
        BY <3>2, <4>1, <4>2, <4>3 DEF RmvTake, AfterTake, Goto, TypeOK, Takes
    <3>3. QED
      BY <3>1, <3>2
  <2>5. ASSUME NEW t \in Threads, Takes(t, c, d)
        PROVE  Takes(t, c, d)'
    <3>1. CASE Acts(t)
      <4>1. RmvMsg(t) \/ HandleDone(t) \/ RetDc(t)
        BY <2>5, <3>1 DEF Takes, Acts, Step, DispatchXchg, DispatchStore, DispatchRestore,
          DispatchRemoved, DispatchEnd, AddCas, AddCasFails, AddInit, AddFull, RmvLoad,
          RmvCompare, RmvTake, RmvNotFound, RetEnd, DispatchStart, AddStart, RmvStart,
          RetStart, Call
      <4>2. ~RetDc(t)
        BY <1>1, <2>5 DEF RetDc, Takes, TypeOK
      <4>3. CASE RmvMsg(t)
        BY <2>5, <4>3 DEF RmvMsg, Goto, Takes, TypeOK
      <4>4. CASE HandleDone(t)
        BY <2>5, <4>4 DEF HandleDone, Goto, Takes, TypeOK
      <4>5. QED
        BY <4>1, <4>2, <4>3, <4>4
    <3>2. CASE Same(t)
      BY <2>5, <3>2 DEF Same, Takes
    <3>3. QED
      BY <3>1, <3>2, Stays
  <2>6. QED
    BY <1>3, <2>2, <2>3, <2>4, <2>5 DEF Installed, InPlace
<1>4. QED
  BY <1>2, <1>3, InstMoves

\* Every step keeps Ahead.
LEMMA NextAhead ==
  ASSUME OneDispatcher, ~WeakFails, TypeOK, Control, Owners, Stores, Finds, Adds, Installed,
         Ahead, [Next]_vars
  PROVE  Ahead'
<1>1. SUFFICES ASSUME NEW t \in Threads, op'[t] = "rmv"
               PROVE  /\ pc'[t] \in {"load", "cmp"} =>
                           \A d \in inst'[comp'[t]] :
                             \E k \in Slots : k >= idx'[t] /\ InPlaceAt(d, k)'
                      /\ pc'[t] = "end" => inst'[comp'[t]] = {}
  BY DEF Ahead
<1>2. \A u \in Threads : op[u] = "rmv" /\ pc[u] # "take" =>
        \A d \in Dcs, i \in Slots : InPlaceAt(d, i) => InPlaceAt(d, i)'
  BY NoTake, PlaceStays
<1>3. ASSUME PassesOver(t), NEW d \in inst[comp[t]]
      PROVE  /\ op[t] = "rmv" /\ pc[t] # "take" /\ d \in Dcs
             /\ \E k \in Slots : k > idx[t] /\ InPlaceAt(d, k)
  <2>1. /\ op[t] = "rmv" /\ pc[t] \in {"load", "cmp"} /\ comp[t] \in Comps
        /\ d \in Dcs /\ idx[t] \in Slots
    BY <1>3 DEF PassesOver, RmvLoad, RmvCompare, Control, TypeOK
  <2>2. PICK k \in Slots : k >= idx[t] /\ InPlaceAt(d, k)
    BY <2>1 DEF Ahead
  <2>3. k # idx[t]
    <3>1. CASE RmvLoad(t) /\ slot[idx[t]] = EMPTY
      BY <2>1, <2>2, <3>1, DispatcherAssumption DEF InPlaceAt
    <3>2. CASE RmvCompare(t) /\ dcComp[dc[t]] # comp[t]
      <4>1. InPlaceAt(dc[t], idx[t]) /\ dc[t] \in Dcs
        BY <3>2 DEF RmvCompare, Finds, Control
      <4>2. dcComp[d] = comp[t]
        BY <2>1 DEF Installed
      <4>3. QED
        BY <2>1, <2>2, <3>2, <4>1, <4>2, OnePlace
    <3>3. QED
      BY <1>3, <3>1, <3>2 DEF PassesOver
  <2>4. QED
    BY <2>1, <2>2, <2>3 DEF Slots
<1>4. ASSUME Same(t)
      PROVE  /\ pc'[t] \in {"load", "cmp"} =>
                  \A d \in inst'[comp'[t]] :
                    \E k \in Slots : k >= idx'[t] /\ InPlaceAt(d, k)'
             /\ pc'[t] = "end" => inst'[comp'[t]] = {}
  <2>1. op[t] = "rmv" /\ comp[t] \in Comps
    BY <1>1, <1>4 DEF Same, Control
  <2>2. \A d \in inst'[comp[t]] : d \in inst[comp[t]] /\ d \in Dcs
    <3>1. ASSUME NEW u \in Threads, AddInit(u), comp[u] = comp[t]
          PROVE  FALSE
      BY <2>1, <3>1 DEF AddInit, Control
    <3>2. QED
      BY <2>1, <3>1, InstMoves DEF TypeOK
  <2>3. QED
    BY <1>2, <1>4, <2>1, <2>2 DEF Ahead, Same
<1>5. ASSUME Acts(t), Arrives(t), pc'[t] \in {"load", "cmp", "end"}
      PROVE  /\ UNCHANGED inst
             /\ comp'[t] \in Comps
             /\ \A d \in inst[comp'[t]] : d \in Dcs
  BY <1>1, <1>5 DEF Arrives, PassesOver, RmvLoad, RmvCompare, RmvStart, Control, TypeOK
<1>6. ASSUME Acts(t), Arrives(t), pc'[t] = "cmp", NEW d \in inst'[comp'[t]]
      PROVE  \E k \in Slots : k >= idx'[t] /\ InPlaceAt(d, k)'
  <2>1. op[t] = "rmv" /\ pc[t] = "load" /\ idx'[t] = idx[t] /\ comp'[t] = comp[t]
    BY <1>6 DEF Arrives, RmvLoad, Control
  <2>2. QED
    BY <1>2, <1>5, <1>6, <2>1 DEF Ahead
<1>7. ASSUME Acts(t), Arrives(t), pc'[t] = "load", NEW d \in inst'[comp'[t]]
      PROVE  \E k \in Slots : k >= idx'[t] /\ InPlaceAt(d, k)'
  <2>1. CASE PassesOver(t) /\ idx'[t] = idx[t] + 1
    <3>1. PICK k \in Slots : k > idx[t] /\ InPlaceAt(d, k)
      BY <1>3, <1>5, <1>7, <2>1 DEF PassesOver
    <3>2. op[t] = "rmv" /\ pc[t] # "take" /\ d \in Dcs
      BY <1>3, <1>5, <1>7, <2>1 DEF PassesOver
    <3>3. InPlaceAt(d, k)'
      BY <1>2, <3>1, <3>2
    <3>4. k >= idx'[t]
      BY <2>1, <3>1 DEF Slots, TypeOK
    <3>5. QED
      BY <3>3, <3>4
  <2>2. ASSUME NEW c \in Comps, RmvStart(t, c), idx'[t] = 0, comp'[t] = c
        PROVE  \E k \in Slots : k >= idx'[t] /\ InPlaceAt(d, k)'
    <3>1. d \in inst[c] /\ d \in Dcs
      BY <1>5, <1>7, <2>2
    <3>2. \A u \in Threads : ~Takes(u, c, d)
      BY <2>2 DEF RmvStart, Unused, Takes
    <3>3. PICK k \in Slots : InPlaceAt(d, k)
      BY <3>1, <3>2 DEF Installed, InPlace
    <3>4. \A u \in Threads : ~RmvTake(u)
      <4>1. open /\ \A u \in Threads : op[u] # "rmv"
        BY <2>2 DEF RmvStart
      <4>2. QED
        BY <4>1 DEF RmvTake, Control
    <3>5. InPlaceAt(d, k)'
      BY <3>1, <3>3, <3>4, PlaceStays
    <3>6. QED
      BY <2>2, <3>5 DEF Slots
  <2>3. QED
    BY <1>7, <2>1, <2>2 DEF Arrives
<1>8. ASSUME Acts(t), Arrives(t), pc'[t] = "end"
      PROVE  inst'[comp'[t]] = {}
  <2>1. PassesOver(t) /\ idx[t] = MaxCount - 1
    BY <1>1, <1>8 DEF Arrives
  <2>2. SUFFICES ASSUME NEW d \in inst[comp[t]] PROVE FALSE
    BY <1>5, <1>8, <2>1 DEF PassesOver
  <2>3. PICK k \in Slots : k > idx[t]
    BY <1>3, <2>1
  <2>4. QED
    BY <2>1, <2>3, DispatcherAssumption DEF Slots
<1>9. QED
  BY <1>4, <1>6, <1>7, <1>8, Stays

\* The slot of a dc that is in process and in place is PROCESSING.
LEMMA PlacedInProcess ==
  ASSUME OneDispatcher, Control, Owners, NEW t \in Threads, NEW d \in Dcs,
         InProcess(t), dc[t] = d, InPlace(d)
  PROVE  slot[idx[t]] = PROCESSING
<1>1. Holds(t, d)
  BY DEF InProcess, Holds
<1>2. \A i \in Slots : slot[i] # d
  BY <1>1 DEF Owners
<1>3. QED
  BY <1>2, OneDispatch DEF InPlace, InPlaceAt, InProcess

\* A message is sent to a dc that is in place, and whose component nobody removes.
LEMMA SentTo ==
  ASSUME TypeOK, Control, Adds, Installed, [Next]_vars,
         NEW d \in Dcs, queue[d] = <<>>, queue'[d] # <<>>
  PROVE  /\ InPlace(d)
         /\ UNCHANGED slot
         /\ \A u \in Threads : op[u] = "rmv" => comp[u] # dcComp[d]
<1>1. ASSUME NEW t \in Threads, AddInit(t)
      PROVE  /\ InPlace(d)
             /\ UNCHANGED slot
             /\ \A u \in Threads : op[u] = "rmv" => comp[u] # dcComp[d]
  <2>1. d = dc[t] /\ pc[t] = "init" /\ op[t] = "add" /\ comp[t] \in Comps
    BY <1>1 DEF AddInit, SendInit, TypeOK, Control
  <2>2. InPlace(d) /\ dcComp[d] = comp[t]
    BY <2>1 DEF Adds
  <2>3. QED
    BY <1>1, <2>1, <2>2 DEF AddInit, Control
<1>2. ASSUME NEW c \in Comps, NEW e \in Dcs, SendMsg(c, e)
      PROVE  /\ InPlace(d)
             /\ UNCHANGED slot
             /\ \A u \in Threads : op[u] = "rmv" => comp[u] # dcComp[d]
  <2>1. d = e /\ d \in inst[c]
    BY <1>2 DEF SendMsg, TypeOK
  <2>2. dcComp[d] = c /\ \A u \in Threads : comp[u] # c
    BY <1>2, <2>1 DEF SendMsg, Unused, Installed
  <2>3. InPlace(d)
    BY <2>1, <2>2 DEF Installed, Takes
  <2>4. QED
    BY <1>2, <2>2, <2>3 DEF SendMsg
<1>3. ASSUME NEW t \in Threads, RmvMsg(t)
      PROVE  FALSE
  BY <1>3 DEF RmvMsg, TypeOK
<1>4. ASSUME NEW t \in Threads, NEW c \in Comps, NEW e \in Dcs, AddStart(t, c, e)
      PROVE  FALSE
  BY <1>4 DEF AddStart, TypeOK
<1>5. CASE UNCHANGED queue
  BY <1>5
<1>6. QED
  BY <1>1, <1>2, <1>3, <1>4, <1>5 DEF Next, Step, HandleDone, RetDc, DispatchXchg,
     DispatchStore,
    DispatchRestore, DispatchRemoved, DispatchEnd, AddCas, AddCasFails, AddFull,
    RmvLoad, RmvCompare, RmvTake, RmvNotFound, RetEnd, DispatchStart, RmvStart, RetStart,
    vars, dcVars

\* Every step keeps Emptied.
LEMMA NextEmptied ==
  ASSUME OneDispatcher, ~WeakFails, TypeOK, Control, Owners, Finds, Adds, Installed, Emptied,
         [Next]_vars
  PROVE  Emptied'
<1>1. SUFFICES ASSUME NEW t \in Threads
      PROVE  /\ pc'[t] = "deinit" => queue'[dc'[t]] = <<>>
             /\ pc'[t] = "restore" =>
                  /\ slot'[idx'[t]] # PROCESSING => queue'[dc'[t]] = <<>>
                  /\ \A u \in Threads :
                       /\ op'[u] = "rmv" /\ comp'[u] = dcComp'[dc'[t]]
                       /\ (pc'[u] = "cmp" /\ dc'[u] = dc'[t])
                            \/ (pc'[u] = "take" /\ idx'[u] = idx'[t])
                       => queue'[dc'[t]] = <<>>
  BY DEF Emptied, RemovesFrom
<1>2. ASSUME pc'[t] = "deinit"
      PROVE  queue'[dc'[t]] = <<>>
  <2>1. CASE Same(t)
    <3>1. pc[t] = "deinit" /\ dc[t] \in Dcs /\ queue[dc[t]] = <<>> /\ dc'[t] = dc[t]
      BY <1>2, <2>1 DEF Same, Control, Emptied
    <3>2. ~InPlace(dc[t])
      BY <3>1, HeldIsNotPlaced DEF Holds, InProcess
    <3>3. QED
      BY <3>1, <3>2, SentTo
  <2>2. CASE Arrives(t)
    <3>1. dc'[t] = dc[t]
      BY <1>2, <2>2 DEF Arrives
    <3>2. CASE RmvMsg(t) /\ queue[dc[t]] = <<>>
      BY <3>1, <3>2 DEF RmvMsg
    <3>3. CASE DispatchRemoved(t)
      <4>1. pc[t] = "restore" /\ slot[idx[t]] # PROCESSING /\ UNCHANGED queue
        BY <3>3 DEF DispatchRemoved, StillProcessing, dcVars
      <4>2. QED
        BY <3>1, <4>1 DEF Emptied
    <3>4. QED
      BY <1>2, <2>2, <3>2, <3>3 DEF Arrives
  <2>3. QED
    BY <2>1, <2>2, Stays
<1>3. ASSUME pc'[t] = "restore", ~Same(t)
      PROVE  queue'[dc'[t]] = <<>>
  BY <1>3, Stays DEF Arrives, RmvMsg
<1>4. ASSUME pc'[t] = "restore", Same(t)
      PROVE  /\ pc[t] = "restore" /\ op[t] = "dispatch" /\ open
             /\ dc[t] \in Dcs /\ idx[t] \in Slots /\ dc'[t] = dc[t] /\ idx'[t] = idx[t]
             /\ InProcess(t) /\ Holds(t, dc[t])
             /\ dcComp'[dc[t]] = dcComp[dc[t]]
  <2>1. /\ pc[t] = "restore" /\ op[t] = "dispatch" /\ open
        /\ dc[t] \in Dcs /\ idx[t] \in Slots /\ dc'[t] = dc[t] /\ idx'[t] = idx[t]
    BY <1>4 DEF Same, Control, TypeOK
  <2>2. InProcess(t) /\ Holds(t, dc[t])
    BY <2>1 DEF InProcess, Holds
  <2>3. life[dc[t]] = "live"
    BY <2>1, <2>2 DEF Owners
  <2>4. QED
    BY <2>1, <2>2, <2>3, CompStays
<1>5. ASSUME pc'[t] = "restore", Same(t), slot'[idx'[t]] # PROCESSING
      PROVE  queue'[dc'[t]] = <<>>
  <2>1. CASE slot[idx[t]] # PROCESSING
    <3>1. queue[dc[t]] = <<>>
      BY <1>4, <1>5, <2>1 DEF Emptied
    <3>2. ~InPlace(dc[t])
      BY <1>4, <1>5, <2>1, PlacedInProcess
    <3>3. QED
      BY <1>4, <1>5, <3>1, <3>2, SentTo
  <2>2. CASE slot[idx[t]] = PROCESSING
    <3>1. PICK u \in Threads : \/ DispatchXchg(u) \/ DispatchStore(u) \/ DispatchRestore(u)
                               \/ AddCas(u) \/ RmvTake(u)
      BY <1>4, <1>5, <2>2, SlotMoves
    <3>2. CASE DispatchXchg(u) \/ DispatchStore(u) \/ DispatchRestore(u)
      <4>1. op[u] = "dispatch"
        BY <3>2 DEF DispatchXchg, DispatchStore, DispatchRestore, Control
      <4>2. u = t
        BY <1>4, <1>5, <4>1, OneDispatch
      <4>3. DispatchRestore(t)
        BY <1>4, <1>5, <3>2, <4>2 DEF DispatchXchg, DispatchStore
      <4>4. pc'[t] # "restore"
        BY <1>4, <1>5, <4>3, NextSlotGoes DEF DispatchRestore
      <4>5. QED
        BY <1>5, <4>4
    <3>3. CASE AddCas(u)
      BY <1>4, <1>5, <2>2, <3>3, DispatcherAssumption DEF AddCas, TypeOK
    <3>4. CASE RmvTake(u)
      <4>1. idx[u] = idx[t]
        BY <1>4, <1>5, <2>2, <3>4 DEF RmvTake, MakeEmpty, TypeOK
      <4>2. InPlaceAt(dc[t], idx[u])
        BY <1>4, <1>5, <2>2, <4>1 DEF InPlaceAt
      <4>3. op[u] = "rmv" /\ dcComp[dc[t]] = comp[u]
        BY <1>4, <1>5, <3>4, <4>1, <4>2, TakesItsOwn
      <4>4. pc[u] = "take" /\ UNCHANGED queue
        BY <3>4 DEF RmvTake, dcVars
      <4>5. QED
        BY <1>4, <1>5, <4>1, <4>3, <4>4 DEF Emptied, RemovesFrom
    <3>5. QED
      BY <3>1, <3>2, <3>3, <3>4
  <2>3. QED
    BY <2>1, <2>2
<1>6. ASSUME pc'[t] = "restore", Same(t), NEW u \in Threads,
             op'[u] = "rmv", comp'[u] = dcComp'[dc'[t]],
             (pc'[u] = "cmp" /\ dc'[u] = dc'[t]) \/ (pc'[u] = "take" /\ idx'[u] = idx'[t])
      PROVE  queue'[dc'[t]] = <<>>
  <2>1. CASE Same(u)
    <3>1. op[u] = "rmv" /\ comp[u] = dcComp[dc[t]] /\ queue[dc[t]] = <<>>
      BY <1>4, <1>6, <2>1 DEF Same, Emptied, RemovesFrom
    <3>2. QED
      BY <1>4, <1>6, <3>1, SentTo
  <2>2. CASE Arrives(u) /\ pc'[u] = "cmp"
    <3>1. slot[idx[u]] = dc[t] /\ idx[u] \in Slots
      BY <1>4, <1>6, <2>2 DEF Arrives, TypeOK
    <3>2. QED
      BY <1>4, <1>6, <3>1 DEF Owners
  <2>3. CASE Arrives(u) /\ pc'[u] = "take"
    <3>1. /\ RmvCompare(u) /\ idx[u] = idx[t] /\ comp[u] = dcComp[dc[t]]
          /\ pc[u] = "cmp" /\ op[u] = "rmv" /\ dc[u] \in Dcs /\ UNCHANGED queue
      BY <1>4, <1>6, <2>3 DEF Arrives, RmvCompare, Control, dcVars
    <3>2. CASE slot[idx[t]] # PROCESSING
      BY <1>4, <1>6, <3>1, <3>2 DEF Emptied
    <3>3. CASE slot[idx[t]] = PROCESSING
      <4>1. InPlaceAt(dc[t], idx[t])
        BY <1>4, <1>6, <3>3 DEF InPlaceAt
      <4>2. InPlaceAt(dc[u], idx[t])
        BY <3>1 DEF Finds
      <4>3. dc[u] = dc[t]
        BY <1>4, <1>6, <3>1, <4>1, <4>2, OnePlace
      <4>4. QED
        BY <1>4, <1>6, <3>1, <4>3 DEF Emptied, RemovesFrom
    <3>4. QED
      BY <3>2, <3>3
  <2>4. QED
    BY <1>6, <2>1, <2>2, <2>3, Stays
<1>7. QED
  BY <1>2, <1>3, <1>5, <1>6

\* INIT is the first message of an empty queue.
LEMMA StartedByInit ==
  ASSUME NEW s \in Seq({"init", "user"}), s = <<>>
  PROVE  Starts(Append(s, "init"))
BY DEF Starts

\* A user's message at the end of a queue.
LEMMA SentUser ==
  ASSUME NEW s \in Seq({"init", "user"})
  PROVE  /\ Starts(s) => Starts(Append(s, "user"))
         /\ AllUser(s) => AllUser(Append(s, "user"))
BY DEF Starts, AllUser

\* The first message of a queue that starts is INIT, the rest are users'.
LEMMA TookInit ==
  ASSUME NEW s \in Seq({"init", "user"}), Starts(s)
  PROVE  Head(s) = "init" /\ AllUser(Tail(s))
<1>1. s # <<>> /\ Len(s) \in Nat /\ Len(s) > 0
  BY DEF Starts
<1>2. Tail(s) \in Seq({"init", "user"}) /\ Len(Tail(s)) = Len(s) - 1
  BY <1>1
<1>3. ASSUME NEW i \in 1 .. Len(Tail(s)) PROVE Tail(s)[i] = "user"
  <2>1. i + 1 \in 1 .. Len(s) /\ i + 1 # 1 /\ Tail(s)[i] = s[i + 1]
    BY <1>1, <1>2
  <2>2. QED
    BY <2>1 DEF Starts
<1>4. QED
  BY <1>1, <1>3 DEF Starts, AllUser

\* The first message of a queue of users' messages is one, and so is the rest.
LEMMA TookUser ==
  ASSUME NEW s \in Seq({"init", "user"}), AllUser(s), s # <<>>
  PROVE  Head(s) = "user" /\ AllUser(Tail(s))
<1>1. Len(s) \in Nat /\ Len(s) > 0
  OBVIOUS
<1>2. Tail(s) \in Seq({"init", "user"}) /\ Len(Tail(s)) = Len(s) - 1
  OBVIOUS
<1>3. ASSUME NEW i \in 1 .. Len(Tail(s)) PROVE Tail(s)[i] = "user"
  <2>1. i + 1 \in 1 .. Len(s) /\ Tail(s)[i] = s[i + 1]
    BY <1>1, <1>2
  <2>2. QED
    BY <2>1 DEF AllUser
<1>4. QED
  BY <1>1, <1>3 DEF AllUser

\* INIT is the first that a component is told.
LEMMA ToldInit ==
  ASSUME NEW s \in Seq({"init", "user", "deinit"}), s = <<>>
  PROVE  Starts(Append(s, "init")) /\ EndsAt(Append(s, "init"), 0)
BY DEF Starts, EndsAt

\* A user's message is told after INIT.
LEMMA ToldUser ==
  ASSUME NEW s \in Seq({"init", "user", "deinit"}), Starts(s), EndsAt(s, 0)
  PROVE  Starts(Append(s, "user")) /\ EndsAt(Append(s, "user"), 0)
BY DEF Starts, EndsAt

\* DEINIT is told at the end.
LEMMA ToldDeinit ==
  ASSUME NEW s \in Seq({"init", "user", "deinit"}), Starts(s), EndsAt(s, 0)
  PROVE  LET r == Append(s, "deinit") IN Starts(r) /\ EndsAt(r, Len(r))
BY DEF Starts, EndsAt

\* A dc is added by one thread.
LEMMA AddsApart ==
  ASSUME Control, Adds, NEW t \in Threads, NEW u \in Threads,
         op[t] = "add", op[u] = "add", dc[t] = dc[u]
  PROVE  t = u
BY DEF Control, Adds

\* A dc that is told DEINIT is allocated and not being added.
LEMMA EndingIsNotFresh ==
  ASSUME TypeOK, Control, Owners, Adds, NEW t \in Threads, pc[t] = "deinit"
  PROVE  dc[t] \in Dcs /\ ~Fresh(dc[t]) /\ life[dc[t]] = "live"
<1>1. dc[t] \in Dcs /\ Holds(t, dc[t]) /\ op[t] # "add" /\ ~InProcess(t)
  BY DEF Control, Holds, InProcess
<1>2. ~InPlace(dc[t])
  BY <1>1, HeldIsNotPlaced
<1>3. ASSUME NEW u \in Threads, op[u] = "add", dc[u] = dc[t]
      PROVE  FALSE
  <2>1. pc[u] \in {"cas", "init", "end"}
    BY <1>3 DEF TypeOK, Control
  <2>2. pc[u] # "init"
    BY <1>2, <1>3 DEF Adds
  <2>3. Holds(u, dc[t])
    BY <1>3, <2>1, <2>2 DEF Holds
  <2>4. QED
    BY <1>1, <1>3, <2>3 DEF Owners
<1>4. QED
  BY <1>1, <1>3 DEF Fresh, Owners

\* A dc that is being added is allocated.
LEMMA FreshIsLive ==
  ASSUME TypeOK, Control, Owners, Adds, NEW d \in Dcs, Fresh(d)
  PROVE  life[d] = "live"
BY AdderIsLive DEF Fresh

\* A dc is fresh from the start of add_comp to its end.
LEMMA FreshMoves ==
  ASSUME TypeOK, Control, [Next]_vars, NEW d \in Dcs
  PROVE  /\ Fresh(d)' /\ ~Fresh(d) => \E t \in Threads, c \in Comps : AddStart(t, c, d)
         /\ Fresh(d) /\ ~Fresh(d)' =>
              \E t \in Threads : dc[t] = d /\ (AddInit(t) \/ AddFull(t))
<1>1. ASSUME NEW t \in Threads, op'[t] = "add", dc'[t] = d, ~Fresh(d)
      PROVE  \E c \in Comps : AddStart(t, c, d)
  BY <1>1, Stays DEF Same, Arrives, Fresh
<1>2. ASSUME NEW t \in Threads, op[t] = "add", dc[t] = d, ~Fresh(d)'
      PROVE  AddInit(t) \/ AddFull(t)
  <2>1. ~Same(t) /\ Acts(t)
    BY <1>2, Stays DEF Same, Fresh
  <2>2. ~AddCas(t)
    BY <1>2 DEF AddCas, Goto, Fresh
  <2>3. ~AddCasFails(t)
    BY <1>2, NextSlotGoes DEF AddCasFails, Fresh
  <2>4. QED
    BY <1>2, <2>1, <2>2, <2>3 DEF Acts, Step, RmvMsg, HandleDone, RetDc, DispatchXchg,
      DispatchStore, DispatchRestore, DispatchRemoved, DispatchEnd, RmvLoad, RmvCompare,
      RmvTake, RmvNotFound, RetEnd, DispatchStart, AddStart, RmvStart, RetStart, Call, Control
<1>3. QED
  BY <1>1, <1>2 DEF Fresh

\* The history of a dc that nothing happens to stays as it is.
LEMMA HistoryStays ==
  ASSUME NEW d \in Dcs, HistoryOf(d), Fresh(d)' <=> Fresh(d),
         told'[d] = told[d], queue'[d] = queue[d], life'[d] = life[d]
  PROVE  HistoryOf(d)'
BY DEF HistoryOf, Waiting, Running, Ended

\* Every step keeps the history.
LEMMA NextHistory ==
  ASSUME OneDispatcher, TypeOK, Control, Owners, Adds, Installed, Emptied, History, [Next]_vars
  PROVE  History'
<1> USE DEF dcVars
<1>1. SUFFICES ASSUME NEW d \in Dcs PROVE HistoryOf(d)'
  BY DEF History
<1>2. HistoryOf(d)
  BY DEF History
<1>3. ASSUME NEW t \in Threads, RmvMsg(t)
      PROVE  HistoryOf(d)'
  <2>1. Fresh(d)' <=> Fresh(d)
    BY <1>3 DEF RmvMsg, Fresh
  <2>2. CASE d # dc[t] \/ queue[d] = <<>>
    <3>1. told'[d] = told[d] /\ queue'[d] = queue[d] /\ life'[d] = life[d]
      BY <1>3, <2>2 DEF RmvMsg, TypeOK
    <3>2. QED
      BY <1>2, <2>1, <3>1, HistoryStays
  <2>3. CASE d = dc[t] /\ queue[d] # <<>>
    <3>1. /\ told'[d] = Append(told[d], Head(queue[d])) /\ queue'[d] = Tail(queue[d])
          /\ life'[d] = life[d]
      BY <1>3, <2>3 DEF RmvMsg, TypeOK
    <3>2. ~Fresh(d)
      BY <1>2, <2>3 DEF HistoryOf
    <3>3. life[d] = "live"
      BY <1>3, <2>3 DEF RmvMsg, Owners, Holds
    <3>4. queue[d] \in Seq({"init", "user"}) /\ told[d] \in Seq({"init", "user", "deinit"})
      BY DEF TypeOK
    <3>5. CASE Waiting(d)
      <4>1. Head(queue[d]) = "init" /\ AllUser(queue'[d])
        BY <3>1, <3>4, <3>5, TookInit DEF Waiting
      <4>2. Starts(told'[d]) /\ EndsAt(told'[d], 0)
        BY <3>1, <3>4, <3>5, <4>1, ToldInit DEF Waiting
      <4>3. Running(d)'
        BY <4>1, <4>2 DEF Running, Starts, EndsAt, AllUser
      <4>4. QED
        BY <2>1, <3>1, <3>2, <3>3, <4>3 DEF HistoryOf
    <3>6. CASE Running(d)
      <4>1. Head(queue[d]) = "user" /\ AllUser(queue'[d])
        BY <2>3, <3>1, <3>4, <3>6, TookUser DEF Running
      <4>2. Starts(told'[d]) /\ EndsAt(told'[d], 0)
        BY <3>1, <3>4, <3>6, <4>1, ToldUser DEF Running
      <4>3. Running(d)'
        BY <4>1, <4>2 DEF Running, Starts, EndsAt, AllUser
      <4>4. QED
        BY <2>1, <3>1, <3>2, <3>3, <4>3 DEF HistoryOf
    <3>7. QED
      BY <1>2, <3>2, <3>3, <3>5, <3>6 DEF HistoryOf
  <2>4. QED
    BY <2>2, <2>3
<1>4. ASSUME NEW t \in Threads, RetDc(t)
      PROVE  HistoryOf(d)'
  <2>1. pc[t] = "deinit" /\ dc[t] \in Dcs /\ ~Fresh(dc[t]) /\ life[dc[t]] = "live"
    BY <1>4, EndingIsNotFresh DEF RetDc
  <2>2. \A e \in Dcs : Fresh(e)' <=> Fresh(e)
    <3>1. ~AddInit(t) /\ ~AddFull(t)
      BY <2>1 DEF AddInit, AddFull
    <3>2. ASSUME NEW e \in Dcs, NEW u \in Threads, NEW c \in Comps, AddStart(u, c, e)
          PROVE  FALSE
      BY ZenonT(60), <1>4, <3>2 DEF AddStart, RetDc, TypeOK
    <3>3. ASSUME NEW u \in Threads, AddInit(u) \/ AddFull(u)
          PROVE  FALSE
      <4>1. u # t /\ Acts(u)
        BY <3>1, <3>3 DEF Acts, Step
      <4>2. pc'[t] = "deinit"
        BY <2>1, <4>1, OthersStay
      <4>3. Same(t) \/ Arrives(t)
        BY Stays
      <4>4. pc'[t] # "deinit"
        BY <1>4, <2>1, ReturnGoes, NextSlotGoes DEF RetDc, Control
      <4>5. QED
        BY <4>2, <4>4
    <3>4. QED
      BY <3>2, <3>3, FreshMoves
  <2>3. CASE d # dc[t]
    <3>1. told'[d] = told[d] /\ queue'[d] = queue[d] /\ life'[d] = life[d]
      BY <1>4, <2>1, <2>3 DEF RetDc, TellDeinit, TypeOK
    <3>2. QED
      BY <1>2, <2>2, <3>1, HistoryStays
  <2>4. CASE d = dc[t]
    <3>1. told'[d] = Append(told[d], "deinit") /\ life'[d] = "free"
      BY <1>4, <2>4 DEF RetDc, TellDeinit, TypeOK
    <3>2. queue[d] = <<>>
      BY <2>1, <2>4 DEF Emptied
    <3>3. Running(d)
      BY <1>2, <2>1, <2>4, <3>2 DEF HistoryOf, Waiting, Starts
    <3>4. told[d] \in Seq({"init", "user", "deinit"})
      BY DEF TypeOK
    <3>5. Starts(told'[d]) /\ EndsAt(told'[d], Len(told'[d]))
      BY <3>1, <3>3, <3>4, ToldDeinit DEF Running
    <3>6. Ended(d)'
      BY <3>5 DEF Ended, Starts, EndsAt
    <3>7. QED
      BY <2>1, <2>2, <2>4, <3>1, <3>6 DEF HistoryOf
  <2>5. QED
    BY <2>3, <2>4
<1>5. ASSUME NEW t \in Threads, NEW c \in Comps, NEW e \in Dcs, AddStart(t, c, e)
      PROVE  HistoryOf(d)'
  <2>1. CASE d = e
    <3>1. told'[d] = <<>> /\ queue'[d] = <<>> /\ life'[d] = "live"
      BY <1>5, <2>1 DEF AddStart, TypeOK
    <3>2. Fresh(d)'
      BY <1>5, <2>1 DEF AddStart, Call, TypeOK, Fresh
    <3>3. QED
      BY <3>1, <3>2 DEF HistoryOf
  <2>2. CASE d # e
    <3>1. told'[d] = told[d] /\ queue'[d] = queue[d] /\ life'[d] = life[d]
      BY <1>5, <2>2 DEF AddStart, TypeOK
    <3>2. Fresh(d)' <=> Fresh(d)
      BY <1>5, <2>2 DEF AddStart, Call, TypeOK, Control, Fresh
    <3>3. QED
      BY <1>2, <3>1, <3>2, HistoryStays
  <2>3. QED
    BY <2>1, <2>2
<1>6. ASSUME NEW t \in Threads, AddInit(t)
      PROVE  HistoryOf(d)'
  <2>1. op[t] = "add" /\ op'[t] = "none" /\ \A u \in Threads \ {t} : op'[u] = op[u] /\ dc'[u] = dc[u]
    BY <1>6, ReturnGoes DEF AddInit, Control
  <2>2. CASE d = dc[t]
    <3>1. Fresh(d)
      BY <2>1, <2>2 DEF Fresh
    <3>2. ~Fresh(d)'
      BY <2>1, <2>2, AddsApart DEF Fresh
    <3>3. told'[d] = <<>> /\ queue'[d] = Append(queue[d], "init") /\ queue[d] = <<>>
      BY <1>2, <1>6, <2>2, <3>1 DEF AddInit, SendInit, TypeOK, HistoryOf
    <3>4. queue[d] \in Seq({"init", "user"})
      BY DEF TypeOK
    <3>5. Starts(queue'[d])
      BY <3>3, <3>4, StartedByInit
    <3>6. Waiting(d)'
      BY <3>3, <3>5 DEF Waiting, Starts
    <3>7. life'[d] = "live"
      BY <1>6, <3>1, FreshIsLive DEF AddInit
    <3>8. QED
      BY <3>2, <3>6, <3>7 DEF HistoryOf
  <2>3. CASE d # dc[t]
    <3>1. told'[d] = told[d] /\ queue'[d] = queue[d] /\ life'[d] = life[d]
      BY <1>6, <2>3 DEF AddInit, SendInit, TypeOK
    <3>2. Fresh(d)' <=> Fresh(d)
      BY <2>1, <2>3 DEF Fresh
    <3>3. QED
      BY <1>2, <3>1, <3>2, HistoryStays
  <2>4. QED
    BY <2>2, <2>3
<1>7. ASSUME NEW t \in Threads, AddFull(t)
      PROVE  HistoryOf(d)'
  <2>1. op[t] = "add" /\ op'[t] = "none" /\ \A u \in Threads \ {t} : op'[u] = op[u] /\ dc'[u] = dc[u]
    BY <1>7, ReturnGoes DEF AddFull
  <2>2. CASE d = dc[t]
    <3>1. Fresh(d)
      BY <2>1, <2>2 DEF Fresh
    <3>2. ~Fresh(d)'
      BY <2>1, <2>2, AddsApart DEF Fresh
    <3>3. told'[d] = <<>> /\ life'[d] = "free"
      BY <1>2, <1>7, <2>2, <3>1 DEF AddFull, TypeOK, HistoryOf
    <3>4. QED
      BY <3>2, <3>3 DEF HistoryOf, Ended
  <2>3. CASE d # dc[t]
    <3>1. told'[d] = told[d] /\ queue'[d] = queue[d] /\ life'[d] = life[d]
      BY <1>7, <2>3 DEF AddFull, TypeOK
    <3>2. Fresh(d)' <=> Fresh(d)
      BY <2>1, <2>3 DEF Fresh
    <3>3. QED
      BY <1>2, <3>1, <3>2, HistoryStays
  <2>4. QED
    BY <2>2, <2>3
<1>8. ASSUME NEW c \in Comps, NEW e \in Dcs, SendMsg(c, e)
      PROVE  HistoryOf(d)'
  <2>1. Fresh(d)' <=> Fresh(d)
    BY <1>8 DEF SendMsg, threadVars, Fresh
  <2>2. CASE d = e
    <3>1. d \in inst[c] /\ dcComp[d] = c /\ life[d] = "live"
      BY <1>8, <2>2, InstalledIsLive DEF SendMsg, Installed
    <3>2. ~Fresh(d)
      BY <1>8, <3>1 DEF SendMsg, Unused, Fresh, Adds
    <3>3. told'[d] = told[d] /\ queue'[d] = Append(queue[d], "user") /\ life'[d] = life[d]
      BY <1>8, <2>2 DEF SendMsg, TypeOK
    <3>4. queue[d] \in Seq({"init", "user"})
      BY DEF TypeOK
    <3>5. Waiting(d) => Waiting(d)'
      BY <3>3, <3>4, SentUser DEF Waiting, Starts
    <3>6. Running(d) => Running(d)'
      BY <3>3, <3>4, SentUser DEF Running, Starts, EndsAt, AllUser
    <3>7. QED
      BY <1>2, <2>1, <3>1, <3>2, <3>3, <3>5, <3>6 DEF HistoryOf
  <2>3. CASE d # e
    <3>1. told'[d] = told[d] /\ queue'[d] = queue[d] /\ life'[d] = life[d]
      BY <1>8, <2>3 DEF SendMsg, TypeOK
    <3>2. QED
      BY <1>2, <2>1, <3>1, HistoryStays
  <2>4. QED
    BY <2>2, <2>3
<1>9. CASE /\ UNCHANGED <<queue, told, life>>
           /\ \A t \in Threads : ~AddInit(t) /\ ~AddFull(t)
           /\ \A t \in Threads, c \in Comps : ~AddStart(t, c, d)
  BY <1>2, <1>9, FreshMoves, HistoryStays
<1>10. QED
  BY <1>3, <1>4, <1>5, <1>6, <1>7, <1>8, <1>9 DEF Next, Step, HandleDone, DispatchXchg,
    DispatchStore, DispatchRestore, DispatchRemoved, DispatchEnd, AddCas, AddCasFails,
    RmvLoad, RmvCompare, RmvTake, RmvNotFound, RetEnd, DispatchStart, RmvStart, RetStart, vars

\* The inductive invariant.
IInv ==
  /\ TypeOK /\ Control /\ Owners /\ Stores /\ Finds /\ Adds
  /\ Installed /\ Ahead /\ Emptied /\ History

\* AcDispatcher_get establishes it.
LEMMA InitIInv == Init => IInv
<1>1. SUFFICES ASSUME Init PROVE IInv
  OBVIOUS
<1>2. TypeOK /\ Control
  BY <1>1, InitTypeOK
<1>3. Owners
  BY <1>1, DispatcherAssumption DEF Init, Owners, Holds
<1>4. Stores /\ Finds /\ Adds /\ Installed /\ Ahead /\ Emptied
  BY <1>1 DEF Init, Stores, Finds, Adds, Installed, Ahead, Emptied
<1>5. History
  BY <1>1 DEF Init, History, HistoryOf, Fresh, Ended
<1>6. QED
  BY <1>2, <1>3, <1>4, <1>5 DEF IInv

\* Every step keeps it.
LEMMA NextIInv == ASSUME OneDispatcher, ~WeakFails, IInv, [Next]_vars PROVE IInv'
BY NextTypeOK, NextControl, NextOwners, NextStores, NextFinds, NextAdds, NextInstalled,
   NextAhead, NextEmptied, NextHistory DEF IInv

\* Owners is OneOwner, counted.
LEMMA OwnersAreOne == ASSUME TypeOK, Owners PROVE OneOwner
<1>1. SUFFICES ASSUME NEW d \in Dcs
               PROVE  Cardinality({i \in Slots : slot[i] = d} \cup {t \in Threads : Holds(t, d)})
                        = IF life[d] = "live" THEN 1 ELSE 0
  BY DEF OneOwner
<1> DEFINE O == {i \in Slots : slot[i] = d} \cup {t \in Threads : Holds(t, d)}
<1>2. CASE life[d] = "live"
  <2>1. PICK o : o \in O
    BY <1>2 DEF Owners
  <2>2. \A p \in O : p = o
    BY <2>1 DEF Owners
  <2>3. O = {o}
    BY <2>1, <2>2
  <2>4. QED
    BY <1>2, <2>3, FS_Singleton
<1>3. CASE life[d] # "live"
  <2>1. O = {}
    BY <1>3 DEF Owners
  <2>2. QED
    BY <1>3, <2>1, FS_EmptySet
<1>4. QED
  BY <1>2, <1>3

\* What is looked at without being owned is in place, so it is allocated.
LEMMA IInvNoUseAfterFree == ASSUME IInv PROVE NoUseAfterFree
<1>1. ASSUME NEW t \in Threads, pc[t] = "cmp"
      PROVE  life[dc[t]] = "live"
  <2>1. dc[t] \in Dcs /\ idx[t] \in Slots /\ InPlaceAt(dc[t], idx[t])
    BY <1>1 DEF IInv, TypeOK, Control, Finds
  <2>2. QED
    BY <2>1, PlacedIsLive DEF IInv, InPlace
<1>2. ASSUME NEW t \in Threads, pc[t] = "init"
      PROVE  life[dc[t]] = "live"
  BY <1>2, AdderIsLive DEF IInv, Control
<1>3. QED
  BY <1>1, <1>2, InstalledIsLive DEF IInv, NoUseAfterFree

\* A dc that is told DEINIT is in no place, so if it is installed its remover has it.
LEMMA IInvOnlyRemovedEnd == ASSUME OneDispatcher, IInv PROVE OnlyRemovedEnd
<1>1. SUFFICES ASSUME NEW t \in Threads, pc[t] = "deinit", NEW c \in Comps, dc[t] \in inst[c]
               PROVE  \E u \in Threads : op[u] = "rmv" /\ comp[u] = c
  BY DEF OnlyRemovedEnd
<1>2. ~InPlace(dc[t])
  BY <1>1, HeldIsNotPlaced DEF IInv, Control, Holds, InProcess
<1>3. QED
  BY <1>1, <1>2 DEF IInv, Installed, Takes

\* INIT first and DEINIT last, from the histories; found, from Ahead.
LEMMA IInvLifecycle == ASSUME IInv PROVE Lifecycle
<1>1. ASSUME NEW d \in Dcs
      PROVE  /\ \A i \in 1 .. Len(told[d]) :
                  /\ told[d][i] = "init" <=> i = 1
                  /\ told[d][i] = "deinit" => i = Len(told[d])
             /\ life[d] = "free" /\ told[d] # <<>> => told[d][Len(told[d])] = "deinit"
  <2>1. HistoryOf(d) /\ life[d] \in {"live", "free"} /\ Len(told[d]) \in Nat
        /\ (told[d] # <<>> => Len(told[d]) >= 1)
    BY DEF IInv, History, TypeOK
  <2>2. CASE told[d] = <<>>
    BY <2>2
  <2>3. CASE Running(d) /\ life[d] = "live"
    BY <2>1, <2>3 DEF Running, Starts, EndsAt
  <2>4. CASE Ended(d) /\ told[d] # <<>>
    BY <2>1, <2>4 DEF Ended, Starts, EndsAt
  <2>5. QED
    BY <2>1, <2>2, <2>3, <2>4 DEF HistoryOf, Waiting
<1>2. ASSUME NEW t \in Threads, pc[t] = "end", op[t] = "rmv"
      PROVE  inst[comp[t]] = {}
  BY <1>2 DEF IInv, Ahead
<1>3. QED
  BY <1>1, <1>2 DEF Lifecycle

\* Every dc that is allocated has one owner, a slot or a thread, and no other has any:
\* none is leaked, freed twice or run by two threads.
THEOREM DcsAreAccounted == ASSUME OneDispatcher, ~WeakFails PROVE Spec => []DcsAccounted
<1>1. IInv => DcsAccounted
  BY OwnersAreOne DEF IInv, DcsAccounted
<1>2. QED
  BY <1>1, InitIInv, NextIInv, PTL DEF Spec

\* rmv_comp's look at the component of a dc that it does not own, add_comp's send of
\* INIT and every user's send are to memory that is allocated.
THEOREM NothingUsedAfterFree == ASSUME OneDispatcher, ~WeakFails PROVE Spec => []NoUseAfterFree
BY InitIInv, NextIInv, IInvNoUseAfterFree, PTL DEF Spec

\* A component that nobody removes is not told DEINIT.
THEOREM OnlyTheRemovedEnd == ASSUME OneDispatcher, ~WeakFails PROVE Spec => []OnlyRemovedEnd
BY InitIInv, NextIInv, IInvOnlyRemovedEnd, PTL DEF Spec

\* A component is told DEINIT when its queue is empty: no message that was sent is lost.
THEOREM AllMsgsAreHandled == ASSUME OneDispatcher, ~WeakFails PROVE Spec => []MsgsAllHandled
<1>1. IInv => MsgsAllHandled
  BY DEF IInv, Emptied, MsgsAllHandled
<1>2. QED
  BY <1>1, InitIInv, NextIInv, PTL DEF Spec

\* A component is told INIT first and once, DEINIT last and once; and rmv_comp finds
\* every component that was added.
THEOREM LifecycleKept == ASSUME OneDispatcher, ~WeakFails PROVE Spec => []Lifecycle
BY InitIInv, NextIInv, IInvLifecycle, PTL DEF Spec
=============================================================================
