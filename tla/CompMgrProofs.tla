--------------------------- MODULE CompMgrProofs ----------------------------
(***************************************************************************)
(* The manager and its dispatchers agree, and nothing is freed under a     *)
(* thread, for any number of dispatch threads, slots, components, senders  *)
(* and messages.                                                           *)
(*                                                                         *)
(* Two things make it so: while the client works no thread stops (Threads, *)
(* Client), so a slot is only emptied by the client's own call; and a      *)
(* component that is registered knows where (Known), so that the cleanup,  *)
(* which comes to it by its slot, removes it from that dispatcher.         *)
(***************************************************************************)
EXTENDS CompMgr, FiniteSetTheorems, TLAPS

\* Where the client may add and remove, and where it deinitialises.
Working == {"idle", "add", "register", "info", "rmv"}
Ending == {"deinit", "kick", "wait", "free", "down", "crash"}
Indices == 0 .. MaxComps - 1

Shapes ==
  /\ disp \in [Dtps -> (SUBSET Comps) \cup {NULL}]
  /\ \A i \in Dtps :
       disp[i] # NULL => IsFiniteSet(disp[i]) /\ Cardinality(disp[i]) <= MaxComps
  /\ try \in Nat \X Indices

\* What a thread has by where it is, and what it has signaled.
Threads ==
  \A i \in Dtps :
    /\ disp[i] # NULL => pc[i] \in {"loop", "dispatch", "wait", "cleanup", "crash"}
    /\ pc[i] \in {"loop", "dispatch", "wait", "cleanup"} => disp[i] # NULL
    /\ <<i, "done">> \in signaled => pc[i] = "end"
    /\ <<i, "ready">> \in signaled => disp[i] # NULL \/ mpc \in Ending
    /\ i \notin started => pc[i] \in {"none", "end"}
    /\ pc[i] = "cleanup" \/ i \in stop => mpc \in Ending

\* How far the init and the deinit got.
Client ==
  /\ \A i \in Dtps :
       /\ mpc \in Working \/ (mpc \in {"create", "ready"} /\ i < at) => disp[i] # NULL
       /\ mpc = "new" \/ (mpc = "create" /\ i >= at) \/ (mpc = "ready" /\ i > at) => pc[i] = "none"
       /\ mpc \in {"deinit", "kick", "wait", "free"} /\ i < at => i \notin started
  /\ mpc = "free" => at \notin started
  /\ mpc = "down" => started = {}
  /\ mpc = "new" => made = 0 /\ at = 0
  /\ mpc = "create" => made = at
  /\ mpc = "ready" => made = at + 1

\* The component of the client's call.
Calls ==
  /\ mpc \in {"add", "register", "info", "rmv"} => arg \in Comps
  /\ mpc \in {"add", "register", "info"} => arg \in old
  /\ mpc \in {"add", "register"} => Registered(arg) = {}
  /\ mpc = "register" => slot[SlotOf(at, try[2])] = arg
  /\ mpc = "info" => Registered(arg) = {at}
  /\ mpc = "rmv" => arg \notin used /\ \A s \in Senders : sending[s] # arg

\* A component that is used or registered knows its dtp.
Known ==
  /\ \A c \in Comps : Registered(c) # {} => c \in old
  /\ \A c \in Comps : c \in used \/ (mpc = "rmv" /\ c = arg) => ci[c].dtp \in Dtps
  /\ \A s \in Senders : sending[s] # NULL => ci[sending[s]].dtp \in Dtps
  /\ \A c \in Comps, i \in Dtps :
       i \in Registered(c) => ci[c].dtp = i \/ (mpc = "info" /\ arg = c /\ at = i)

IInv == TypeOK /\ Shapes /\ Threads /\ Client /\ Calls /\ Known /\ RegisteredHasSlot

-----------------------------------------------------------------------------
\* The slots of a dtp are slots.
LEMMA SlotsAreSlots == \A i \in Dtps, k \in Indices : SlotOf(i, k) \in Slots
<1> SUFFICES ASSUME NEW i \in Dtps, NEW k \in Indices PROVE SlotOf(i, k) \in Slots
  OBVIOUS
<1>1. MaxDtps \in Nat /\ MaxComps \in Nat /\ i \in Nat /\ k \in Nat /\ i + 1 <= MaxDtps /\ k <= MaxComps - 1
  BY CompMgrAssumption DEF CompMgrAssumption, Dtps, Indices
<1>2. PICK m \in Nat : MaxDtps = i + 1 + m
  <2>1. MaxDtps - (i + 1) \in Nat
    BY <1>1
  <2> QED
    BY <1>1, <2>1
<1>3. MaxDtps * MaxComps = i * MaxComps + MaxComps + m * MaxComps
  BY <1>1, <1>2
<1>4. i * MaxComps \in Nat /\ m * MaxComps \in Nat
  BY <1>1, <1>2
<1> QED
  BY <1>1, <1>3, <1>4 DEF SlotOf, Slots

\* A turn of the add goes to a dtp.
LEMMA TurnTurns ==
  ASSUME TypeOK, NEW t \in Nat, Turn(t)
  PROVE  at' \in Dtps /\ nextDtp' \in Dtps /\ try' \in Nat \X Indices
<1>1. MaxDtps \in Nat \ {0} /\ MaxComps \in Nat \ {0} /\ nextDtp \in Nat
  BY CompMgrAssumption DEF CompMgrAssumption, TypeOK, Dtps
<1>2. (nextDtp + 1) % MaxDtps \in 0 .. MaxDtps - 1
  BY <1>1
<1> QED
  BY <1>1, <1>2 DEF Turn, TypeOK, Dtps, Indices

\* Where the add goes on, or that it gives up.
LEMMA AddNextGoesOn ==
  ASSUME TypeOK, Shapes, AddNext
  PROVE  /\ at' \in Dtps /\ nextDtp' \in Dtps /\ try' \in Nat \X Indices
         /\ (mpc' = "add" /\ arg' = arg) \/ (mpc' = "idle" /\ arg' = NULL)
<1>1. MaxDtps \in Nat \ {0} /\ MaxComps \in Nat \ {0} /\ try[1] \in Nat /\ try[2] \in Indices
  BY CompMgrAssumption DEF CompMgrAssumption, Shapes
<1>2. CASE try[2] < MaxComps - 1
  <2>1. try' = <<try[1], try[2] + 1>> /\ mpc' = "add" /\ UNCHANGED <<at, arg, nextDtp>>
    BY <1>2 DEF AddNext
  <2>2. try[2] + 1 \in Indices
    BY <1>1, <1>2 DEF Indices
  <2> QED
    BY <1>1, <2>1, <2>2 DEF TypeOK
<1>3. CASE ~(try[2] < MaxComps - 1) /\ try[1] < MaxDtps
  <2>1. try[1] + 1 \in Nat /\ Turn(try[1] + 1) /\ mpc' = "add" /\ arg' = arg
    BY <1>1, <1>3 DEF AddNext
  <2> QED
    BY <2>1, TurnTurns
<1>4. CASE ~(try[2] < MaxComps - 1) /\ ~(try[1] < MaxDtps)
  BY <1>1, <1>4 DEF AddNext, TypeOK, Indices, Dtps
<1> QED
  BY <1>2, <1>3, <1>4

\* What is removed from a dispatcher leaves it, and nothing else does.
LEMMA RmvFromRemoves ==
  ASSUME IInv, NEW i \in Dtps, NEW c \in Comps, RmvFrom(i, c)
  PROVE  /\ disp' \in [Dtps -> (SUBSET Comps) \cup {NULL}]
         /\ \A k \in Dtps : disp'[k] # NULL => IsFiniteSet(disp'[k]) /\ Cardinality(disp'[k]) <= MaxComps
         /\ \A k \in Dtps : (disp'[k] = NULL) <=> (disp[k] = NULL)
         /\ todo' \in [Dtps -> SUBSET Comps]
         /\ Registered(c)' = Registered(c) \ {i}
         /\ \A d \in Comps \ {c} : Registered(d)' = Registered(d)
<1> USE CompMgrAssumption DEF IInv, CompMgrAssumption
<1>1. disp \in [Dtps -> (SUBSET Comps) \cup {NULL}] /\ todo \in [Dtps -> SUBSET Comps]
  BY DEF Shapes, TypeOK
<1>2. disp' = [disp EXCEPT ![i] = IF disp[i] = NULL THEN NULL ELSE disp[i] \ {c}]
  BY <1>1 DEF RmvFrom
<1>3. todo' = [todo EXCEPT ![i] = todo[i] \ {c}]
  BY <1>1 DEF RmvFrom
<1>4. Shapes /\ \A S \in SUBSET Comps : S # NULL
  OBVIOUS
<1>5. \A k \in Dtps : disp'[k] = disp[k] \/ (k = i /\ disp[i] # NULL /\ disp'[i] = disp[i] \ {c})
  BY <1>1, <1>2
<1>6. ASSUME disp[i] # NULL
      PROVE  IsFiniteSet(disp[i] \ {c}) /\ Cardinality(disp[i] \ {c}) <= MaxComps
  <2>1. IsFiniteSet(disp[i]) /\ Cardinality(disp[i]) <= MaxComps /\ Cardinality(disp[i]) \in Nat
    BY <1>6, FS_CardinalityType DEF Shapes
  <2>2. disp[i] \ {c} \in SUBSET disp[i]
    OBVIOUS
  <2>3. /\ IsFiniteSet(disp[i] \ {c}) /\ Cardinality(disp[i] \ {c}) <= Cardinality(disp[i])
        /\ Cardinality(disp[i] \ {c}) \in Nat
    BY <2>1, <2>2, FS_Subset, FS_CardinalityType
  <2> QED
    BY <2>1, <2>3
<1>7. \A k \in Dtps : disp'[k] # NULL => IsFiniteSet(disp'[k]) /\ Cardinality(disp'[k]) <= MaxComps
  BY <1>4, <1>5, <1>6 DEF Shapes
<1>8. \A k \in Dtps : (disp'[k] = NULL) <=> (disp[k] = NULL)
  BY <1>1, <1>4, <1>5
<1>9. disp' \in [Dtps -> (SUBSET Comps) \cup {NULL}]
  BY <1>1, <1>2
<1>10. todo' \in [Dtps -> SUBSET Comps]
  BY <1>1, <1>3
<1>11. Registered(c)' = Registered(c) \ {i}
  BY <1>1, <1>4, <1>5, <1>2 DEF Registered
<1>12. \A d \in Comps \ {c} : Registered(d)' = Registered(d)
  BY <1>1, <1>4, <1>5 DEF Registered
<1> QED
  BY <1>7, <1>8, <1>9, <1>10, <1>11, <1>12

\* The thread has a dispatcher, or it is done.
LEMMA ThreadStartKeeps == ASSUME IInv, NEW i \in Dtps, ThreadStart(i) PROVE IInv'
<1> USE CompMgrAssumption DEF IInv, CompMgrAssumption, mgrVars, threadVars, clientVars, systemVars
<1>1. Shapes'
  <2>1. disp' = [disp EXCEPT ![i] = {}] \/ disp' = disp
    BY DEF ThreadStart
  <2>2. Cardinality({}) <= MaxComps /\ IsFiniteSet({})
    BY FS_EmptySet
  <2> QED
    BY <2>1, <2>2 DEF ThreadStart, Shapes
<1>2. TypeOK'
  BY <1>1 DEF ThreadStart, TypeOK, Shapes, Threads, Client, ThreadPlaces, ClientPlaces, Goto
<1>3. Threads'
  <2>1. pc[i] = "start" /\ disp[i] = NULL /\ i \in started
    BY DEF ThreadStart, Threads
  <2>2. CASE Goto(i, "done") /\ UNCHANGED <<disp, stop, signaled>>
    BY ZenonT(30), <2>1, <2>2 DEF ThreadStart, Threads, TypeOK, Goto
  <2>3. CASE /\ disp' = [disp EXCEPT ![i] = {}] /\ stop' = stop \ {i}
             /\ signaled' = signaled \cup {<<i, "ready">>} /\ Goto(i, "loop")
    <3>1. disp'[i] = {} /\ pc'[i] = "loop" /\ disp'[i] # NULL /\ <<i, "done">> \notin signaled'
      BY ZenonT(30), <2>1, <2>3 DEF Shapes, TypeOK, Goto, Threads
    <3>2. \A k \in Dtps \ {i} : disp'[k] = disp[k] /\ pc'[k] = pc[k]
      BY <2>3 DEF Shapes, TypeOK, Goto
    <3>3. \A k \in Dtps \ {i} : \A w \in {"ready", "done"} : <<k, w>> \in signaled' => <<k, w>> \in signaled
      BY <2>3
    <3>4. i \notin stop' /\ stop' \subseteq stop /\ UNCHANGED <<started, mpc>>
      BY <2>3 DEF ThreadStart
    <3> QED
      BY <2>1, <3>1, <3>2, <3>3, <3>4 DEF Threads
  <2> QED
    BY <2>2, <2>3 DEF ThreadStart
<1>4. Client'
  <2>1. pc[i] = "start" /\ UNCHANGED <<mpc, at, made, started>>
    BY DEF ThreadStart
  <2>2. \A k \in Dtps : disp[k] # NULL => disp'[k] # NULL
    BY DEF ThreadStart, Shapes
  <2>3. \A k \in Dtps : pc[k] = "none" => pc'[k] = "none"
    BY <2>1 DEF ThreadStart, TypeOK, Goto
  <2> QED
    BY <2>1, <2>2, <2>3 DEF Client
<1>5. Calls'
  BY DEF ThreadStart, Calls, TypeOK, Shapes, Threads, Client, Working, Ending, Known, Registered,
     Goto
<1>6. Known'
  BY DEF ThreadStart, Known, TypeOK, Shapes, Threads, Client, Working, Ending, Calls, Registered,
     Goto
<1>7. RegisteredHasSlot'
  BY DEF ThreadStart, RegisteredHasSlot, TypeOK, Shapes, Threads, Client, Working, Ending, Calls,
     Known, Registered, Goto
<1> QED
  BY <1>1, <1>2, <1>3, <1>4, <1>5, <1>6, <1>7

\* It stops only when it is told to, which is when the client deinitialises.
LEMMA ThreadLoopKeeps == ASSUME IInv, NEW i \in Dtps, ThreadLoop(i) PROVE IInv'
<1> USE CompMgrAssumption DEF IInv, CompMgrAssumption, mgrVars, threadVars, clientVars, systemVars
<1>1. Shapes'
  BY DEF ThreadLoop, Shapes, Goto
<1>2. TypeOK'
  <2>1. disp[i] # NULL
    BY DEF ThreadLoop, Threads
  <2>2. todo' \in [Dtps -> SUBSET Comps]
    BY <2>1 DEF ThreadLoop, Shapes, TypeOK
  <2>3. pc' \in [Dtps -> ThreadPlaces] /\ j' \in [Dtps -> 0 .. MaxComps]
    BY DEF ThreadLoop, TypeOK, Goto, ThreadPlaces
  <2> QED
    BY <2>2, <2>3 DEF ThreadLoop, TypeOK
<1>3. Threads'
  <2>1. pc[i] = "loop" /\ disp[i] # NULL /\ i \in started
    BY DEF ThreadLoop, Threads
  <2>2. /\ pc'[i] = IF i \in stop THEN "cleanup" ELSE "dispatch"
        /\ \A k \in Dtps \ {i} : pc'[k] = pc[k]
    BY DEF ThreadLoop, TypeOK, Goto
  <2> QED
    BY <2>1, <2>2 DEF ThreadLoop, Threads
<1>4. Client'
  BY DEF ThreadLoop, Client, TypeOK, Shapes, Threads, Working, Ending, Dtps, Goto
<1>5. Calls'
  BY DEF ThreadLoop, Calls, TypeOK, Shapes, Threads, Client, Working, Ending, Known, Registered,
     Goto
<1>6. Known'
  BY DEF ThreadLoop, Known, TypeOK, Shapes, Threads, Client, Working, Ending, Calls, Registered,
     Goto
<1>7. RegisteredHasSlot'
  BY DEF ThreadLoop, RegisteredHasSlot, TypeOK, Shapes, Threads, Client, Working, Ending, Calls,
     Known, Registered, Goto
<1> QED
  BY <1>1, <1>2, <1>3, <1>4, <1>5, <1>6, <1>7

\* A visit empties a queue; where components are does not change.
LEMMA ThreadVisitKeeps == ASSUME IInv, NEW i \in Dtps, NEW c \in Comps, ThreadVisit(i, c) PROVE IInv'
<1> USE CompMgrAssumption DEF IInv, CompMgrAssumption, mgrVars, threadVars, clientVars, systemVars
<1>1. Shapes'
  BY DEF ThreadVisit, Shapes
<1>2. TypeOK'
  BY <1>1 DEF ThreadVisit, TypeOK, Shapes, Threads, Client, ThreadPlaces, ClientPlaces
<1>3. Threads'
  BY DEF ThreadVisit, Threads, TypeOK, Shapes, Client, Working, Ending
<1>4. Client'
  BY DEF ThreadVisit, Client, TypeOK, Shapes, Threads, Working, Ending, Dtps
<1>5. Calls'
  BY DEF ThreadVisit, Calls, TypeOK, Shapes, Threads, Client, Working, Ending, Known, Registered
<1>6. Known'
  BY DEF ThreadVisit, Known, TypeOK, Shapes, Threads, Client, Working, Ending, Calls, Registered
<1>7. RegisteredHasSlot'
  BY DEF ThreadVisit, RegisteredHasSlot, TypeOK, Shapes, Threads, Client, Working, Ending, Calls,
     Known, Registered
<1> QED
  BY <1>1, <1>2, <1>3, <1>4, <1>5, <1>6, <1>7

LEMMA ThreadDispatchedKeeps == ASSUME IInv, NEW i \in Dtps, ThreadDispatched(i) PROVE IInv'
<1> USE CompMgrAssumption DEF IInv, CompMgrAssumption, mgrVars, threadVars, clientVars, systemVars
<1>1. Shapes'
  BY DEF ThreadDispatched, Shapes, Goto
<1>2. TypeOK'
  BY <1>1 DEF ThreadDispatched, TypeOK, Shapes, Threads, Client, ThreadPlaces, ClientPlaces, Goto
<1>3. Threads'
  BY ZenonT(30) DEF ThreadDispatched, Threads, TypeOK, Shapes, Client, Working, Ending, Goto
<1>4. Client'
  BY DEF ThreadDispatched, Client, TypeOK, Shapes, Threads, Working, Ending, Dtps, Goto
<1>5. Calls'
  BY DEF ThreadDispatched, Calls, TypeOK, Shapes, Threads, Client, Working, Ending, Known,
     Registered, Goto
<1>6. Known'
  BY DEF ThreadDispatched, Known, TypeOK, Shapes, Threads, Client, Working, Ending, Calls,
     Registered, Goto
<1>7. RegisteredHasSlot'
  BY DEF ThreadDispatched, RegisteredHasSlot, TypeOK, Shapes, Threads, Client, Working, Ending,
     Calls, Known, Registered, Goto
<1> QED
  BY <1>1, <1>2, <1>3, <1>4, <1>5, <1>6, <1>7

LEMMA ThreadWaitKeeps == ASSUME IInv, NEW i \in Dtps, ThreadWait(i) PROVE IInv'
<1> USE CompMgrAssumption DEF IInv, CompMgrAssumption, mgrVars, threadVars, clientVars, systemVars
<1>1. Shapes'
  BY DEF ThreadWait, Shapes, Goto
<1>2. TypeOK'
  BY <1>1 DEF ThreadWait, TypeOK, Shapes, Threads, Client, ThreadPlaces, ClientPlaces, Goto
<1>3. Threads'
  BY ZenonT(60) DEF ThreadWait, Threads, TypeOK, Shapes, Client, Working, Ending, Goto
<1>4. Client'
  BY DEF ThreadWait, Client, TypeOK, Shapes, Threads, Working, Ending, Dtps, Goto
<1>5. Calls'
  BY DEF ThreadWait, Calls, TypeOK, Shapes, Threads, Client, Working, Ending, Known, Registered,
     Goto
<1>6. Known'
  BY DEF ThreadWait, Known, TypeOK, Shapes, Threads, Client, Working, Ending, Calls, Registered,
     Goto
<1>7. RegisteredHasSlot'
  BY DEF ThreadWait, RegisteredHasSlot, TypeOK, Shapes, Threads, Client, Working, Ending, Calls,
     Known, Registered, Goto
<1> QED
  BY <1>1, <1>2, <1>3, <1>4, <1>5, <1>6, <1>7

\* The cleanup of a slot: nothing is there, or a component that is in no
\* dispatcher, or one that is removed from the only one it is in.
LEMMA CleanupCases ==
  ASSUME IInv, NEW i \in Dtps, ThreadCleanup(i), NEW c, c = slot[SlotOf(i, j[i])]
  PROVE  /\ mpc \in Ending
         /\ disp' \in [Dtps -> (SUBSET Comps) \cup {NULL}]
         /\ \A k \in Dtps : disp'[k] # NULL => IsFiniteSet(disp'[k]) /\ Cardinality(disp'[k]) <= MaxComps
         /\ \A k \in Dtps : (disp'[k] = NULL) <=> (disp[k] = NULL)
         /\ todo' \in [Dtps -> SUBSET Comps]
         /\ pc' = pc \/ pc' = [pc EXCEPT ![i] = "crash"]
         /\ \A d \in Comps : Registered(d)' = Registered(d) \/ Registered(d)' = {}
         /\ slot' = slot \/ (Registered(c)' = {} /\ slot' = [slot EXCEPT ![SlotOf(i, j[i])] = NULL])
<1> USE CompMgrAssumption DEF IInv, CompMgrAssumption
<1>1. mpc \in Ending
  BY DEF ThreadCleanup, Threads
<1>2. j[i] \in Indices
  BY DEF ThreadCleanup, TypeOK, Indices
<1>3. c \in Comps \cup {NULL}
  BY <1>2, SlotsAreSlots DEF TypeOK
<1>4. CASE c = NULL
  BY <1>1, <1>4 DEF ThreadCleanup, Shapes, TypeOK, Registered
<1>5. CASE c # NULL /\ ci[c].dtp = NULL
  <2>1. /\ UNCHANGED <<disp, todo>> /\ pc' = [pc EXCEPT ![i] = "crash"]
        /\ slot' = [slot EXCEPT ![SlotOf(i, j[i])] = NULL]
    BY <1>5 DEF ThreadCleanup, Goto, EmptySlot
  <2>2. Registered(c) = {}
    BY <1>1, <1>3, <1>5 DEF Known, Ending, Registered
  <2>3. \A d : Registered(d)' = Registered(d)
    BY <2>1 DEF Registered
  <2> QED
    BY <1>1, <2>1, <2>2, <2>3 DEF Shapes, TypeOK
<1>6. CASE c # NULL /\ ci[c].dtp # NULL
  <2>1. ci[c].dtp \in Dtps /\ c \in Comps
    BY <1>3, <1>6 DEF TypeOK
  <2>2. /\ RmvFrom(ci[c].dtp, c) /\ pc' = pc
        /\ slot' = [slot EXCEPT ![SlotOf(i, j[i])] = NULL]
    BY <1>6 DEF ThreadCleanup, EmptySlot
  <2>3. Registered(c) \subseteq {ci[c].dtp}
    BY <1>1, <2>1 DEF Known, Ending, Registered
  <2>4. Registered(c)' = Registered(c) \ {ci[c].dtp}
    BY <2>1, <2>2, RmvFromRemoves
  <2>5. Registered(c)' = {}
    BY <2>3, <2>4
  <2> QED
    BY <1>1, <2>1, <2>2, <2>5, RmvFromRemoves
<1> QED
  BY <1>4, <1>5, <1>6

LEMMA ThreadCleanupKeeps == ASSUME IInv, NEW i \in Dtps, ThreadCleanup(i) PROVE IInv'
<1> USE CompMgrAssumption DEF IInv, CompMgrAssumption, mgrVars, threadVars, clientVars, systemVars
<1>0. PICK c : c = slot[SlotOf(i, j[i])]
  OBVIOUS
<1>a. /\ mpc \in Ending
      /\ \A k \in Dtps : (disp'[k] = NULL) <=> (disp[k] = NULL)
      /\ pc' = pc \/ pc' = [pc EXCEPT ![i] = "crash"]
      /\ \A d \in Comps : Registered(d)' = Registered(d) \/ Registered(d)' = {}
      /\ slot' = slot \/ (Registered(c)' = {} /\ slot' = [slot EXCEPT ![SlotOf(i, j[i])] = NULL])
  BY <1>0, CleanupCases
<1>b. /\ pc[i] = "cleanup" /\ j[i] < MaxComps /\ j' = [j EXCEPT ![i] = @ + 1]
      /\ UNCHANGED <<nextDtp, ci, signaled, started, stop, res, clientVars, sending, sends>>
  BY DEF ThreadCleanup
<1>1. Shapes'
  BY <1>0, <1>b, CleanupCases DEF Shapes
<1>2. TypeOK'
  <2>1. todo' \in [Dtps -> SUBSET Comps]
    BY <1>0, CleanupCases
  <2>2. slot' \in [Slots -> Comps \cup {NULL}] /\ pc' \in [Dtps -> ThreadPlaces]
    BY <1>a DEF TypeOK, ThreadPlaces
  <2>3. j' \in [Dtps -> 0 .. MaxComps]
    BY <1>b DEF TypeOK
  <2> QED
    BY <1>1, <1>b, <2>1, <2>2, <2>3 DEF TypeOK, Shapes
<1>3. Threads'
  <2>1. \A k \in Dtps : pc'[k] = pc[k] \/ (k = i /\ pc'[k] = "crash")
    BY <1>a DEF TypeOK
  <2> QED
    BY <1>a, <1>b, <2>1 DEF Threads
<1>4. Client'
  <2>1. \A k \in Dtps : k \in started \/ k # i
    BY <1>b DEF Threads
  <2> QED
    BY <1>a, <1>b, <2>1 DEF Client, Ending, Working
<1>5. Calls'
  BY <1>a, <1>b DEF Calls, Ending
<1>6. Known'
  BY <1>a, <1>b DEF Known, Ending
<1>7. RegisteredHasSlot'
  <2> SUFFICES ASSUME NEW d \in Comps, NEW k \in Registered(d)'
               PROVE  /\ \E x \in Indices : slot'[SlotOf(k, x)] = d
                      /\ Registered(d)' = {k}
    BY DEF RegisteredHasSlot, Indices
  <2>1. Registered(d)' = Registered(d) /\ k \in Registered(d) /\ k \in Dtps
    BY <1>a DEF Registered
  <2>2. PICK x \in Indices : slot[SlotOf(k, x)] = d
    BY <1>a, <2>1 DEF RegisteredHasSlot, Ending, Indices
  <2>3. SlotOf(k, x) \in Slots
    BY <2>1, SlotsAreSlots
  <2>4. slot'[SlotOf(k, x)] = d
    BY <1>0, <1>a, <2>1, <2>2, <2>3 DEF TypeOK
  <2> QED
    BY <1>a, <2>1, <2>4 DEF RegisteredHasSlot
<1> QED
  BY <1>1, <1>2, <1>3, <1>4, <1>5, <1>6, <1>7

\* The dispatcher goes with what is in it; the client waits for that.
LEMMA ThreadRetKeeps == ASSUME IInv, NEW i \in Dtps, ThreadRet(i) PROVE IInv'
<1> USE CompMgrAssumption DEF IInv, CompMgrAssumption, mgrVars, threadVars, clientVars, systemVars
<1>1. Shapes'
  BY DEF ThreadRet, Shapes, Goto
<1>2. TypeOK'
  BY <1>1 DEF ThreadRet, TypeOK, Shapes, Threads, Client, ThreadPlaces, ClientPlaces, Goto
<1>3. Threads'
  BY ZenonT(30) DEF ThreadRet, Threads, TypeOK, Shapes, Client, Working, Ending, Goto
<1>4. Client'
  BY DEF ThreadRet, Client, TypeOK, Shapes, Threads, Working, Ending, Dtps, Goto
<1>5. Calls'
  BY DEF ThreadRet, Calls, TypeOK, Shapes, Threads, Client, Working, Ending, Known, Registered, Goto
<1>6. Known'
  BY DEF ThreadRet, Known, TypeOK, Shapes, Threads, Client, Working, Ending, Calls, Registered, Goto
<1>7. RegisteredHasSlot'
  BY DEF ThreadRet, RegisteredHasSlot, TypeOK, Shapes, Threads, Client, Working, Ending, Calls,
     Known, Registered, Goto
<1> QED
  BY <1>1, <1>2, <1>3, <1>4, <1>5, <1>6, <1>7

LEMMA ThreadDoneKeeps == ASSUME IInv, NEW i \in Dtps, ThreadDone(i) PROVE IInv'
<1> USE CompMgrAssumption DEF IInv, CompMgrAssumption, mgrVars, threadVars, clientVars, systemVars
<1>1. Shapes'
  BY DEF ThreadDone, Shapes, Goto
<1>2. TypeOK'
  BY <1>1 DEF ThreadDone, TypeOK, Shapes, Threads, Client, ThreadPlaces, ClientPlaces, Goto
<1>3. Threads'
  BY DEF ThreadDone, Threads, TypeOK, Shapes, Client, Working, Ending, Goto
<1>4. Client'
  BY DEF ThreadDone, Client, TypeOK, Shapes, Threads, Working, Ending, Dtps, Goto
<1>5. Calls'
  BY DEF ThreadDone, Calls, TypeOK, Shapes, Threads, Client, Working, Ending, Known, Registered,
     Goto
<1>6. Known'
  BY DEF ThreadDone, Known, TypeOK, Shapes, Threads, Client, Working, Ending, Calls, Registered,
     Goto
<1>7. RegisteredHasSlot'
  BY DEF ThreadDone, RegisteredHasSlot, TypeOK, Shapes, Threads, Client, Working, Ending, Calls,
     Known, Registered, Goto
<1> QED
  BY <1>1, <1>2, <1>3, <1>4, <1>5, <1>6, <1>7

-----------------------------------------------------------------------------
(* AcCompMgr_init and AcCompMgr_deinit.                                    *)

LEMMA InitAllocKeeps == ASSUME IInv, InitAlloc PROVE IInv'
<1> USE CompMgrAssumption DEF IInv, CompMgrAssumption, mgrVars, threadVars, clientVars, systemVars
<1>1. Shapes'
  BY DEF InitAlloc, Shapes
<1>2. TypeOK'
  BY <1>1 DEF InitAlloc, TypeOK, Shapes, Threads, Client, ThreadPlaces, ClientPlaces
<1>3. Threads'
  BY DEF InitAlloc, Threads, TypeOK, Shapes, Client, Working, Ending
<1>4. Client'
  BY DEF InitAlloc, Client, TypeOK, Shapes, Threads, Working, Ending, Dtps
<1>5. Calls'
  BY DEF InitAlloc, Calls, TypeOK, Shapes, Threads, Client, Working, Ending, Known, Registered
<1>6. Known'
  BY DEF InitAlloc, Known, TypeOK, Shapes, Threads, Client, Working, Ending, Calls, Registered
<1>7. RegisteredHasSlot'
  BY DEF InitAlloc, RegisteredHasSlot, TypeOK, Shapes, Threads, Client, Working, Ending, Calls,
     Known, Registered
<1> QED
  BY <1>1, <1>2, <1>3, <1>4, <1>5, <1>6, <1>7

\* A thread is created once, so nothing is signaled in its name.
LEMMA InitCreateKeeps == ASSUME IInv, InitCreate PROVE IInv'
<1> USE CompMgrAssumption DEF IInv, CompMgrAssumption, mgrVars, threadVars, clientVars, systemVars
<1>1. Shapes'
  BY DEF InitCreate, Shapes, Goto
<1>2. TypeOK'
  <2>1. made' \in 0 .. MaxDtps /\ at' \in Dtps
    BY DEF InitCreate, Client, TypeOK, Dtps
  <2>2. pc' \in [Dtps -> ThreadPlaces] /\ started' \subseteq Dtps /\ mpc' \in ClientPlaces
    BY DEF InitCreate, TypeOK, Goto, ThreadPlaces, ClientPlaces
  <2> QED
    BY <1>1, <2>1, <2>2 DEF InitCreate, TypeOK, Shapes
<1>3. Threads'
  <2>1. at \in Dtps /\ pc[at] = "none" /\ disp[at] = NULL /\ <<at, "done">> \notin signaled
    <3>1. at \in Dtps /\ at >= at /\ mpc = "create"
      BY DEF InitCreate, TypeOK, Dtps
    <3>2. pc[at] = "none"
      BY <3>1 DEF Client
    <3> QED
      BY <3>1, <3>2 DEF Threads
  <2>2. CASE started' = started \cup {at} /\ Goto(at, "start") /\ mpc' = "ready"
    <3>1. pc'[at] = "start" /\ \A k \in Dtps \ {at} : pc'[k] = pc[k]
      BY <2>1, <2>2 DEF TypeOK, Goto
    <3> QED
      BY <2>1, <2>2, <3>1 DEF InitCreate, Threads, Ending
  <2>3. CASE mpc' = "deinit" /\ UNCHANGED <<started, pc>>
    BY <2>3 DEF InitCreate, Threads, Ending
  <2> QED
    BY <2>2, <2>3 DEF InitCreate
<1>4. Client'
  BY DEF InitCreate, Client, TypeOK, Shapes, Threads, Working, Ending, Dtps, Goto
<1>5. Calls'
  BY DEF InitCreate, Calls, TypeOK, Shapes, Threads, Client, Working, Ending, Known, Registered,
     Goto
<1>6. Known'
  BY DEF InitCreate, Known, TypeOK, Shapes, Threads, Client, Working, Ending, Calls, Registered,
     Goto
<1>7. RegisteredHasSlot'
  BY DEF InitCreate, RegisteredHasSlot, TypeOK, Shapes, Threads, Client, Working, Ending, Calls,
     Known, Registered, Goto
<1> QED
  BY <1>1, <1>2, <1>3, <1>4, <1>5, <1>6, <1>7

\* The thread that signaled has a dispatcher.
LEMMA InitReadyKeeps == ASSUME IInv, InitReady PROVE IInv'
<1> USE CompMgrAssumption DEF IInv, CompMgrAssumption, mgrVars, threadVars, clientVars, systemVars
<1>1. Shapes'
  BY DEF InitReady, Shapes
<1>2. TypeOK'
  <2>1. at' \in Dtps
    BY DEF InitReady, TypeOK, Dtps
  <2> QED
    BY <1>1, <2>1 DEF InitReady, TypeOK, Shapes, ClientPlaces
<1>3. Threads'
  BY DEF InitReady, Threads, TypeOK, Shapes, Client, Working, Ending
<1>4. Client'
  <2>1. at \in Dtps /\ disp[at] # NULL /\ mpc = "ready" /\ UNCHANGED <<disp, pc, started, made>>
    BY DEF InitReady, TypeOK, Threads, Ending
  <2>2. \A k \in Dtps : (k <= at => disp[k] # NULL) /\ (k > at => pc[k] = "none")
    BY <2>1 DEF Client, Dtps
  <2>3. CASE at = MaxDtps - 1 /\ mpc' = "idle"
    BY <2>1, <2>2, <2>3 DEF Client, Dtps, Working
  <2>4. CASE mpc' = "create" /\ at' = at + 1
    BY <2>1, <2>2, <2>4 DEF Client, Dtps, Working
  <2> QED
    BY <2>3, <2>4 DEF InitReady
<1>5. Calls'
  BY DEF InitReady, Calls, TypeOK, Shapes, Threads, Client, Working, Ending, Known, Registered
<1>6. Known'
  BY DEF InitReady, Known, TypeOK, Shapes, Threads, Client, Working, Ending, Calls, Registered
<1>7. RegisteredHasSlot'
  BY DEF InitReady, RegisteredHasSlot, TypeOK, Shapes, Threads, Client, Working, Ending, Calls,
     Known, Registered
<1> QED
  BY <1>1, <1>2, <1>3, <1>4, <1>5, <1>6, <1>7

LEMMA DeinitStartKeeps == ASSUME IInv, DeinitStart PROVE IInv'
<1> USE CompMgrAssumption DEF IInv, CompMgrAssumption, mgrVars, threadVars, clientVars, systemVars
<1>1. Shapes'
  BY DEF DeinitStart, Shapes, Dtps
<1>2. TypeOK'
  BY <1>1 DEF DeinitStart, TypeOK, Shapes, Threads, Client, ThreadPlaces, ClientPlaces, Dtps
<1>3. Threads'
  BY DEF DeinitStart, Threads, TypeOK, Shapes, Client, Working, Ending, Dtps
<1>4. Client'
  BY DEF DeinitStart, Client, TypeOK, Shapes, Threads, Working, Ending, Dtps, Dtps
<1>5. Calls'
  BY DEF DeinitStart, Calls, TypeOK, Shapes, Threads, Client, Working, Ending, Known, Registered,
     Dtps
<1>6. Known'
  BY DEF DeinitStart, Known, TypeOK, Shapes, Threads, Client, Working, Ending, Calls, Registered,
     Dtps
<1>7. RegisteredHasSlot'
  BY DEF DeinitStart, RegisteredHasSlot, TypeOK, Shapes, Threads, Client, Working, Ending, Calls,
     Known, Registered, Dtps
<1> QED
  BY <1>1, <1>2, <1>3, <1>4, <1>5, <1>6, <1>7

LEMMA DeinitStopKeeps == ASSUME IInv, DeinitStop PROVE IInv'
<1> USE CompMgrAssumption DEF IInv, CompMgrAssumption, mgrVars, threadVars, clientVars, systemVars
<1>1. Shapes'
  BY DEF DeinitStop, Shapes, StopOrKick, StopsAt
<1>2. TypeOK'
  BY <1>1 DEF DeinitStop, TypeOK, Shapes, Threads, Client, ThreadPlaces, ClientPlaces,
     StopOrKick, StopsAt
<1>3. Threads'
  BY DEF DeinitStop, Threads, TypeOK, Shapes, Client, Working, Ending, StopOrKick, StopsAt
<1>4. Client'
  BY DEF DeinitStop, Client, TypeOK, Shapes, Threads, Working, Ending, Dtps, StopOrKick, StopsAt
<1>5. Calls'
  BY DEF DeinitStop, Calls, TypeOK, Shapes, Threads, Client, Working, Ending, Known, Registered,
     StopOrKick, StopsAt
<1>6. Known'
  BY DEF DeinitStop, Known, TypeOK, Shapes, Threads, Client, Working, Ending, Calls, Registered,
     StopOrKick, StopsAt
<1>7. RegisteredHasSlot'
  BY DEF DeinitStop, RegisteredHasSlot, TypeOK, Shapes, Threads, Client, Working, Ending, Calls,
     Known, Registered, StopOrKick, StopsAt
<1> QED
  BY <1>1, <1>2, <1>3, <1>4, <1>5, <1>6, <1>7

LEMMA DeinitKickKeeps == ASSUME IInv, DeinitKick PROVE IInv'
<1> USE CompMgrAssumption DEF IInv, CompMgrAssumption, mgrVars, threadVars, clientVars, systemVars
<1>1. Shapes'
  BY DEF DeinitKick, Shapes, StopOrKick, StopsAt
<1>2. TypeOK'
  BY <1>1 DEF DeinitKick, TypeOK, Shapes, Threads, Client, ThreadPlaces, ClientPlaces,
     StopOrKick, StopsAt
<1>3. Threads'
  <2>1. signaled' = signaled \cup {<<at, "waiting">>} /\ stop' = stop
    BY DEF DeinitKick, StopOrKick, StopsAt
  <2>2. \A k \in Dtps, w \in {"ready", "done"} : <<k, w>> \in signaled' => <<k, w>> \in signaled
    BY <2>1
  <2> QED
    BY <2>1, <2>2 DEF DeinitKick, Threads, Ending
<1>4. Client'
  BY DEF DeinitKick, Client, TypeOK, Shapes, Threads, Working, Ending, Dtps, StopOrKick, StopsAt
<1>5. Calls'
  BY DEF DeinitKick, Calls, TypeOK, Shapes, Threads, Client, Working, Ending, Known, Registered,
     StopOrKick, StopsAt
<1>6. Known'
  BY DEF DeinitKick, Known, TypeOK, Shapes, Threads, Client, Working, Ending, Calls, Registered,
     StopOrKick, StopsAt
<1>7. RegisteredHasSlot'
  BY DEF DeinitKick, RegisteredHasSlot, TypeOK, Shapes, Threads, Client, Working, Ending, Calls,
     Known, Registered, StopOrKick, StopsAt
<1> QED
  BY <1>1, <1>2, <1>3, <1>4, <1>5, <1>6, <1>7

\* A thread that signaled that it is done has ended.
LEMMA DeinitWaitKeeps == ASSUME IInv, DeinitWait PROVE IInv'
<1> USE CompMgrAssumption DEF IInv, CompMgrAssumption, mgrVars, threadVars, clientVars, systemVars
<1>1. Shapes'
  BY DEF DeinitWait, Shapes, IsDone
<1>2. TypeOK'
  BY <1>1 DEF DeinitWait, TypeOK, Shapes, Threads, Client, ThreadPlaces, ClientPlaces, IsDone
<1>3. Threads'
  BY DEF DeinitWait, Threads, TypeOK, Shapes, Client, Working, Ending, IsDone
<1>4. Client'
  BY DEF DeinitWait, Client, TypeOK, Shapes, Threads, Working, Ending, Dtps, IsDone
<1>5. Calls'
  BY DEF DeinitWait, Calls, TypeOK, Shapes, Threads, Client, Working, Ending, Known, Registered,
     IsDone
<1>6. Known'
  BY DEF DeinitWait, Known, TypeOK, Shapes, Threads, Client, Working, Ending, Calls, Registered,
     IsDone
<1>7. RegisteredHasSlot'
  BY DEF DeinitWait, RegisteredHasSlot, TypeOK, Shapes, Threads, Client, Working, Ending, Calls,
     Known, Registered, IsDone
<1> QED
  BY <1>1, <1>2, <1>3, <1>4, <1>5, <1>6, <1>7

LEMMA DeinitFreeKeeps == ASSUME IInv, DeinitFree PROVE IInv'
<1> USE CompMgrAssumption DEF IInv, CompMgrAssumption, mgrVars, threadVars, clientVars, systemVars
<1>1. Shapes'
  BY DEF DeinitFree, Shapes, Dtps
<1>2. TypeOK'
  BY SMTT(30), <1>1 DEF DeinitFree, TypeOK, Shapes, Threads, Client, ThreadPlaces, ClientPlaces, Dtps
<1>3. Threads'
  BY DEF DeinitFree, Threads, TypeOK, Shapes, Client, Working, Ending, Dtps
<1>4. Client'
  BY DEF DeinitFree, Client, TypeOK, Shapes, Threads, Working, Ending, Dtps, Dtps
<1>5. Calls'
  BY DEF DeinitFree, Calls, TypeOK, Shapes, Threads, Client, Working, Ending, Known, Registered,
     Dtps
<1>6. Known'
  BY DEF DeinitFree, Known, TypeOK, Shapes, Threads, Client, Working, Ending, Calls, Registered,
     Dtps
<1>7. RegisteredHasSlot'
  BY DEF DeinitFree, RegisteredHasSlot, TypeOK, Shapes, Threads, Client, Working, Ending, Calls,
     Known, Registered, Dtps
<1> QED
  BY <1>1, <1>2, <1>3, <1>4, <1>5, <1>6, <1>7

-----------------------------------------------------------------------------
(* AcCompMgr_add_comp, AcCompMgr_rmv_comp and AcCompMgr_send_msg.          *)

LEMMA AddStartKeeps == ASSUME IInv, NEW c \in Comps, AddStart(c) PROVE IInv'
<1> USE CompMgrAssumption DEF IInv, CompMgrAssumption, mgrVars, threadVars, clientVars, systemVars
<1>a. at' \in Dtps /\ nextDtp' \in Dtps /\ try' \in Nat \X Indices
  BY TurnTurns DEF AddStart
<1>1. Shapes'
  BY <1>a DEF AddStart, Shapes
<1>2. TypeOK'
  BY <1>a, <1>1 DEF AddStart, TypeOK, Shapes, Threads, Client, ThreadPlaces, ClientPlaces
<1>3. Threads'
  BY <1>a DEF AddStart, Threads, TypeOK, Shapes, Client, Working, Ending
<1>4. Client'
  BY <1>a DEF AddStart, Client, TypeOK, Shapes, Threads, Working, Ending, Dtps
<1>5. Calls'
  BY <1>a DEF AddStart, Calls, TypeOK, Shapes, Threads, Client, Working, Ending, Known, Registered
<1>6. Known'
  BY <1>a DEF AddStart, Known, TypeOK, Shapes, Threads, Client, Working, Ending, Calls, Registered
<1>7. RegisteredHasSlot'
  BY <1>a DEF AddStart, RegisteredHasSlot, TypeOK, Shapes, Threads, Client, Working, Ending,
     Calls, Known, Registered
<1> QED
  BY <1>1, <1>2, <1>3, <1>4, <1>5, <1>6, <1>7

\* Only a slot that is empty is taken.
LEMMA AddSlotKeeps == ASSUME IInv, AddSlot PROVE IInv'
<1> USE CompMgrAssumption DEF IInv, CompMgrAssumption, mgrVars, threadVars, clientVars, systemVars
<1>a. try[2] \in Indices /\ at \in Dtps /\ SlotOf(at, try[2]) \in Slots
  BY SlotsAreSlots DEF Shapes, TypeOK
<1>b. at' \in Dtps /\ nextDtp' \in Dtps /\ try' \in Nat \X Indices
  BY AddNextGoesOn DEF AddSlot, Shapes, TypeOK
<1>c. (mpc' \in {"add", "register"} /\ arg' = arg) \/ (mpc' = "idle" /\ arg' = NULL)
  BY AddNextGoesOn DEF AddSlot
<1>d. slot' = slot \/ (slot[SlotOf(at, try[2])] = NULL /\ slot' = [slot EXCEPT ![SlotOf(at, try[2])] = arg])
  BY DEF AddSlot, IsFree
<1>1. Shapes'
  BY <1>a, <1>b, <1>c, <1>d DEF AddSlot, Shapes, IsFree
<1>2. TypeOK'
  BY <1>a, <1>b, <1>c, <1>d, <1>1 DEF AddSlot, TypeOK, Shapes, Threads, Client, ThreadPlaces,
     ClientPlaces, IsFree
<1>3. Threads'
  BY <1>a, <1>b, <1>c, <1>d DEF AddSlot, Threads, TypeOK, Shapes, Client, Working, Ending, IsFree
<1>4. Client'
  BY <1>a, <1>b, <1>c, <1>d DEF AddSlot, Client, TypeOK, Shapes, Threads, Working, Ending, Dtps,
     IsFree
<1>5. Calls'
  <2>1. mpc = "add" /\ arg \in Comps /\ arg \in old /\ Registered(arg) = {}
    BY DEF AddSlot, Calls
  <2>2. UNCHANGED <<disp, old>>
    BY DEF AddSlot
  <2>3. mpc' = "register" => UNCHANGED <<at, try>> /\ slot'[SlotOf(at, try[2])] = arg
    BY <1>a, <1>c, AddNextGoesOn DEF AddSlot, TypeOK
  <2> QED
    BY <1>c, <2>1, <2>2, <2>3 DEF Calls, Registered
<1>6. Known'
  BY <1>a, <1>b, <1>c, <1>d DEF AddSlot, Known, TypeOK, Shapes, Threads, Client, Working, Ending,
     Calls, Registered, IsFree
<1>7. RegisteredHasSlot'
  <2>1. \A k \in Slots : slot[k] # NULL => slot'[k] = slot[k]
    BY <1>d DEF TypeOK
  <2>2. mpc = "add" /\ disp' = disp
    BY DEF AddSlot
  <2> SUFFICES ASSUME NEW d \in Comps, NEW k \in Registered(d)
               PROVE  /\ \E x \in Indices : slot'[SlotOf(k, x)] = d
                      /\ Registered(d) = {k}
    BY <2>2 DEF RegisteredHasSlot, Indices, Registered
  <2>3. PICK x \in Indices : slot[SlotOf(k, x)] = d
    BY <2>2 DEF RegisteredHasSlot, Indices
  <2>4. SlotOf(k, x) \in Slots /\ d # NULL
    BY SlotsAreSlots DEF Registered
  <2> QED
    BY <2>1, <2>2, <2>3, <2>4 DEF RegisteredHasSlot
<1> QED
  BY <1>1, <1>2, <1>3, <1>4, <1>5, <1>6, <1>7

\* What the add registers is registered nowhere else, and has its slot.
LEMMA AddRegisterKeeps == ASSUME IInv, AddRegister PROVE IInv'
<1> USE CompMgrAssumption DEF IInv, CompMgrAssumption, mgrVars, threadVars, clientVars, systemVars
<1>a. at \in Dtps /\ arg \in Comps /\ disp[at] # NULL /\ mpc = "register"
  BY DEF AddRegister, TypeOK, Calls, Client, Working
<1>0. PICK c \in Comps : c = arg
  BY <1>a
<1>b. UNCHANGED <<slot, ci, pc, res, j, sending, sends, signaled, started, stop, made, used, old>>
  BY DEF AddRegister
<1>c. CASE AddNext /\ UNCHANGED <<disp, queue, todo>>
  <2>1. /\ at' \in Dtps /\ nextDtp' \in Dtps /\ try' \in Nat \X Indices
        /\ (mpc' = "add" /\ arg' = arg) \/ (mpc' = "idle" /\ arg' = NULL)
    BY <1>c, AddNextGoesOn
  <2>2. Shapes'
    BY <1>b, <1>c, <2>1 DEF Shapes
  <2>3. TypeOK'
    BY <1>b, <1>c, <2>1, <2>2 DEF TypeOK, Shapes, ClientPlaces
  <2>4. Threads'
    BY <1>a, <1>b, <1>c, <2>1 DEF Threads, Ending
  <2>5. Client'
    BY <1>a, <1>b, <1>c, <2>1 DEF Client, Working, Ending
  <2>6. Calls'
    BY <1>a, <1>b, <1>c, <2>1 DEF Calls, Registered
  <2>7. Known'
    BY <1>a, <1>b, <1>c, <2>1 DEF Known, Registered
  <2>8. RegisteredHasSlot'
    BY <1>a, <1>b, <1>c, <2>1 DEF RegisteredHasSlot, Registered
  <2> QED
    BY <2>2, <2>3, <2>4, <2>5, <2>6, <2>7, <2>8
<1>d. CASE /\ Cardinality(disp[at]) < MaxComps /\ disp' = [disp EXCEPT ![at] = @ \cup {arg}]
           /\ todo' \in {todo, [todo EXCEPT ![at] = IF pc[at] = "dispatch" THEN @ \cup {arg} ELSE @]}
           /\ mpc' = "info" /\ UNCHANGED <<at, try, arg, nextDtp>>
  <2>1. disp'[at] = disp[at] \cup {arg} /\ \A k \in Dtps \ {at} : disp'[k] = disp[k]
    BY <1>a, <1>d DEF Shapes
  <2>2. \A k \in Dtps : (disp'[k] = NULL) <=> (disp[k] = NULL)
    BY <1>a, <2>1 DEF Shapes
  <2>3. IsFiniteSet(disp'[at]) /\ Cardinality(disp'[at]) <= MaxComps
    <3>1. IsFiniteSet(disp[at]) /\ Cardinality(disp[at]) \in Nat
      BY <1>a, FS_CardinalityType DEF Shapes
    <3> QED
      BY <1>d, <2>1, <3>1, FS_AddElement
  <2>4. Registered(c)' = {at}
    BY <1>0, <1>a, <2>1, <2>2 DEF Calls, Registered
  <2>5. \A d \in Comps \ {c} : Registered(d)' = Registered(d)
    BY <1>0, <1>a, <2>1, <2>2 DEF Registered
  <2>6. Shapes'
    BY <1>a, <1>b, <1>d, <2>3, <2>1 DEF Shapes
  <2>7. TypeOK'
    <3>1. todo' \in [Dtps -> SUBSET Comps]
      BY <1>a, <1>d DEF TypeOK
    <3> QED
      BY <1>a, <1>b, <1>d, <2>6, <3>1 DEF TypeOK, Shapes, ClientPlaces
  <2>8. Threads'
    BY <1>a, <1>b, <1>d, <2>2 DEF Threads, Ending
  <2>9. Client'
    BY <1>a, <1>b, <1>d, <2>2 DEF Client, Working, Ending
  <2>10. Calls'
    BY <1>0, <1>a, <1>b, <1>d, <2>4 DEF Calls
  <2>11. Known'
    BY <1>0, <1>a, <1>b, <1>d, <2>4, <2>5 DEF Known, Calls
  <2>12. RegisteredHasSlot'
    <3>1. slot'[SlotOf(at, try[2])] = arg /\ try[2] \in 0 .. MaxComps - 1
      BY <1>a, <1>b DEF Calls, Shapes, Indices
    <3>2. \A d \in Comps \ {c} : \A i \in Registered(d)' :
            /\ \E k \in 0 .. MaxComps - 1 : slot'[SlotOf(i, k)] = d
            /\ Registered(d)' = {i}
      BY <1>0, <1>a, <1>b, <2>5 DEF RegisteredHasSlot
    <3> QED
      BY <1>0, <1>d, <2>4, <3>1, <3>2 DEF RegisteredHasSlot
  <2> QED
    BY <2>6, <2>7, <2>8, <2>9, <2>10, <2>11, <2>12
<1> QED
  BY <1>c, <1>d DEF AddRegister

\* The component is told where it is.
LEMMA AddInfoKeeps == ASSUME IInv, AddInfo PROVE IInv'
<1> USE CompMgrAssumption DEF IInv, CompMgrAssumption, mgrVars, threadVars, clientVars, systemVars
<1>1. Shapes'
  BY DEF AddInfo, Shapes, Indices
<1>2. TypeOK'
  <2>1. MaxComps - 1 \in Indices /\ 0 \in Dtps
    BY DEF Indices, Dtps
  <2>2. CompIdx(at) \in Slots
    BY <2>1, SlotsAreSlots DEF CompIdx, TypeOK
  <2>3. [dtp |-> at, idx |-> CompIdx(at)] \in [dtp : Dtps \cup {NULL}, idx : Slots]
    BY <2>2 DEF TypeOK
  <2>4. ci' \in [Comps -> [dtp : Dtps \cup {NULL}, idx : Slots]]
    BY <2>3 DEF AddInfo, TypeOK
  <2>5. used' \subseteq Comps
    BY DEF AddInfo, Calls, TypeOK
  <2> QED
    BY <1>1, <2>1, <2>4, <2>5 DEF AddInfo, TypeOK, Shapes, ClientPlaces
<1>3. Threads'
  BY DEF AddInfo, Threads, TypeOK, Shapes, Client, Working, Ending, CompIdx
<1>4. Client'
  BY DEF AddInfo, Client, TypeOK, Shapes, Threads, Working, Ending, Dtps, CompIdx
<1>5. Calls'
  BY DEF AddInfo, Calls, TypeOK, Shapes, Threads, Client, Working, Ending, Known, Registered,
     CompIdx
<1>6. Known'
  BY DEF AddInfo, Known, TypeOK, Shapes, Threads, Client, Working, Ending, Calls, Registered,
     CompIdx
<1>7. RegisteredHasSlot'
  BY DEF AddInfo, RegisteredHasSlot, TypeOK, Shapes, Threads, Client, Working, Ending, Calls,
     Known, Registered, CompIdx
<1> QED
  BY <1>1, <1>2, <1>3, <1>4, <1>5, <1>6, <1>7

\* The slot that is emptied is the component's.
LEMMA RmvSlotKeeps == ASSUME IInv, NEW c \in Comps, RmvSlot(c) PROVE IInv'
<1> USE CompMgrAssumption DEF IInv, CompMgrAssumption, mgrVars, threadVars, clientVars, systemVars
<1>1. Shapes'
  BY DEF RmvSlot, Shapes, EmptySlot
<1>2. TypeOK'
  BY <1>1 DEF RmvSlot, TypeOK, Shapes, Threads, Client, ThreadPlaces, ClientPlaces, EmptySlot
<1>3. Threads'
  BY DEF RmvSlot, Threads, TypeOK, Shapes, Client, Working, Ending, EmptySlot
<1>4. Client'
  BY DEF RmvSlot, Client, TypeOK, Shapes, Threads, Working, Ending, Dtps, EmptySlot
<1>5. Calls'
  BY DEF RmvSlot, Calls, TypeOK, Shapes, Threads, Client, Working, Ending, Known, Registered,
     EmptySlot
<1>6. Known'
  BY DEF RmvSlot, Known, TypeOK, Shapes, Threads, Client, Working, Ending, Calls, Registered,
     EmptySlot
<1>7. RegisteredHasSlot'
  <2>1. mpc = "idle" /\ disp' = disp /\ ci[c].idx \in Slots
    BY DEF RmvSlot, TypeOK
  <2>2. CASE UNCHANGED <<slot, mpc, arg>>
    BY <2>1, <2>2 DEF RegisteredHasSlot, Registered
  <2>3. CASE slot[ci[c].idx] = c /\ slot' = [slot EXCEPT ![ci[c].idx] = NULL] /\ mpc' = "rmv" /\ arg' = c
    <3>1. \A k \in Slots : slot[k] # c => slot'[k] = slot[k]
      BY <2>1, <2>3 DEF TypeOK
    <3>2. ASSUME NEW d \in Comps \ {c}, NEW k \in Registered(d)
          PROVE  \E x \in Indices : slot'[SlotOf(k, x)] = d
      <4>1. PICK x \in Indices : slot[SlotOf(k, x)] = d
        BY <2>1 DEF RegisteredHasSlot, Indices
      <4> QED
        BY <3>1, <4>1, SlotsAreSlots DEF Registered
    <3> QED
      BY <2>1, <2>3, <3>2 DEF RegisteredHasSlot, Registered, Indices
  <2> QED
    BY <2>2, <2>3 DEF RmvSlot, EmptySlot
<1> QED
  BY <1>1, <1>2, <1>3, <1>4, <1>5, <1>6, <1>7

\* The component leaves the only dispatcher it is in.
LEMMA RmvRegisteredKeeps == ASSUME IInv, RmvRegistered PROVE IInv'
<1> USE CompMgrAssumption DEF IInv, CompMgrAssumption, mgrVars, threadVars, clientVars, systemVars
<1>a. arg \in Comps /\ ci[arg].dtp \in Dtps /\ mpc = "rmv"
  BY DEF RmvRegistered, Calls, Known
<1>0. PICK c \in Comps : c = arg
  BY <1>a
<1>b. /\ disp' \in [Dtps -> (SUBSET Comps) \cup {NULL}]
      /\ \A k \in Dtps : disp'[k] # NULL => IsFiniteSet(disp'[k]) /\ Cardinality(disp'[k]) <= MaxComps
      /\ \A k \in Dtps : (disp'[k] = NULL) <=> (disp[k] = NULL)
      /\ todo' \in [Dtps -> SUBSET Comps]
      /\ Registered(c)' = Registered(c) \ {ci[c].dtp}
      /\ \A d \in Comps \ {c} : Registered(d)' = Registered(d)
  BY <1>0, <1>a, RmvFromRemoves DEF RmvRegistered
<1>c. Registered(c)' = {}
  BY <1>0, <1>a, <1>b DEF Known, Registered
<1>d. /\ ci' = [ci EXCEPT ![arg] = [dtp |-> NULL, idx |-> 0]] /\ mpc' = "idle" /\ arg' = NULL
      /\ UNCHANGED <<slot, nextDtp, pc, res, j, sending, sends, signaled, started, stop, at, try,
                     made, used, old>>
  BY DEF RmvRegistered
<1>1. Shapes'
  BY <1>b, <1>d DEF Shapes
<1>2. TypeOK'
  <2>1. 0 \in Slots
    <3>1. 0 \in Dtps /\ 0 \in Indices
      BY DEF Dtps, Indices
    <3>2. SlotOf(0, 0) = 0
      BY DEF SlotOf
    <3> QED
      BY <3>1, <3>2, SlotsAreSlots
  <2>2. ci' \in [Comps -> [dtp : Dtps \cup {NULL}, idx : Slots]]
    BY <1>d, <2>1 DEF TypeOK
  <2> QED
    BY <1>1, <1>b, <1>d, <2>2 DEF TypeOK, Shapes, ClientPlaces
<1>3. Threads'
  BY <1>a, <1>b, <1>d DEF Threads, Ending
<1>4. Client'
  BY <1>a, <1>b, <1>d DEF Client, Working, Ending
<1>5. Calls'
  BY <1>d DEF Calls
<1>6. Known'
  <2>1. \A d \in Comps \ {c} : ci'[d] = ci[d]
    BY <1>0, <1>d DEF TypeOK
  <2>2. c \notin used /\ \A s \in Senders : sending[s] # c
    BY <1>0, <1>a DEF Calls
  <2>3. \A s \in Senders : sending[s] # NULL => sending[s] \in Comps
    BY DEF TypeOK
  <2> QED
    BY <1>0, <1>a, <1>b, <1>c, <1>d, <2>1, <2>2, <2>3 DEF Known
<1>7. RegisteredHasSlot'
  <2>1. \A d \in Comps \ {c} : \A i \in Registered(d)' :
          /\ \E k \in 0 .. MaxComps - 1 : slot'[SlotOf(i, k)] = d
          /\ Registered(d)' = {i}
    BY <1>0, <1>a, <1>b, <1>d DEF RegisteredHasSlot
  <2> QED
    BY <1>c, <2>1 DEF RegisteredHasSlot
<1> QED
  BY <1>1, <1>2, <1>3, <1>4, <1>5, <1>6, <1>7

LEMMA SendQueueKeeps == ASSUME IInv, NEW s \in Senders, NEW c \in Comps, SendQueue(s, c) PROVE IInv'
<1> USE CompMgrAssumption DEF IInv, CompMgrAssumption, mgrVars, threadVars, clientVars, systemVars
<1>1. Shapes'
  BY DEF SendQueue, Shapes
<1>2. TypeOK'
  BY <1>1 DEF SendQueue, TypeOK, Shapes, Threads, Client, ThreadPlaces, ClientPlaces
<1>3. Threads'
  BY DEF SendQueue, Threads, TypeOK, Shapes, Client, Working, Ending
<1>4. Client'
  BY DEF SendQueue, Client, TypeOK, Shapes, Threads, Working, Ending, Dtps
<1>5. Calls'
  BY DEF SendQueue, Calls, TypeOK, Shapes, Threads, Client, Working, Ending, Known, Registered
<1>6. Known'
  BY DEF SendQueue, Known, TypeOK, Shapes, Threads, Client, Working, Ending, Calls, Registered
<1>7. RegisteredHasSlot'
  BY DEF SendQueue, RegisteredHasSlot, TypeOK, Shapes, Threads, Client, Working, Ending, Calls,
     Known, Registered
<1> QED
  BY <1>1, <1>2, <1>3, <1>4, <1>5, <1>6, <1>7

\* The component that was sent to has a dtp.
LEMMA SendSignalKeeps == ASSUME IInv, NEW s \in Senders, SendSignal(s) PROVE IInv'
<1> USE CompMgrAssumption DEF IInv, CompMgrAssumption, mgrVars, threadVars, clientVars, systemVars
<1>1. Shapes'
  BY DEF SendSignal, Shapes, Signal
<1>2. TypeOK'
  <2>1. ci[sending[s]].dtp \in Dtps
    BY DEF SendSignal, Known
  <2>2. signaled' \subseteq Dtps \X {"ready", "waiting", "done"}
    BY <2>1 DEF SendSignal, Signal, TypeOK
  <2> QED
    BY <1>1, <2>2 DEF SendSignal, TypeOK, Shapes
<1>3. Threads'
  BY DEF SendSignal, Threads, TypeOK, Shapes, Client, Working, Ending, Signal
<1>4. Client'
  BY DEF SendSignal, Client, TypeOK, Shapes, Threads, Working, Ending, Dtps, Signal
<1>5. Calls'
  BY DEF SendSignal, Calls, TypeOK, Shapes, Threads, Client, Working, Ending, Known, Registered,
     Signal
<1>6. Known'
  BY DEF SendSignal, Known, TypeOK, Shapes, Threads, Client, Working, Ending, Calls, Registered,
     Signal
<1>7. RegisteredHasSlot'
  BY DEF SendSignal, RegisteredHasSlot, TypeOK, Shapes, Threads, Client, Working, Ending, Calls,
     Known, Registered, Signal
<1> QED
  BY <1>1, <1>2, <1>3, <1>4, <1>5, <1>6, <1>7

-----------------------------------------------------------------------------
LEMMA InitIInv == Init => IInv
<1> SUFFICES ASSUME Init PROVE IInv
  OBVIOUS
<1> USE CompMgrAssumption DEF CompMgrAssumption
<1>1. 0 \in Dtps /\ 0 \in Indices /\ 0 \in Slots
  <2>1. 0 \in Dtps /\ 0 \in Indices
    BY DEF Dtps, Indices
  <2>2. SlotOf(0, 0) = 0
    BY DEF SlotOf
  <2> QED
    BY <2>1, <2>2, SlotsAreSlots
<1>2. \A c \in Comps : Registered(c) = {}
  BY DEF Init, Registered
<1>3. TypeOK
  BY <1>1 DEF Init, TypeOK, ThreadPlaces, ClientPlaces
<1>4. Shapes
  BY <1>1 DEF Init, Shapes
<1>5. Threads
  BY DEF Init, Threads
<1>6. Client
  BY DEF Init, Client, Working
<1>7. Calls /\ Known /\ RegisteredHasSlot
  BY <1>2 DEF Init, Calls, Known, RegisteredHasSlot
<1> QED
  BY <1>3, <1>4, <1>5, <1>6, <1>7 DEF IInv

LEMMA NextIInv == IInv /\ [Next]_vars => IInv'
<1> SUFFICES ASSUME IInv, [Next]_vars PROVE IInv'
  OBVIOUS
<1>1. CASE ClientStep
  BY <1>1, InitAllocKeeps, InitCreateKeeps, InitReadyKeeps, DeinitStopKeeps, DeinitKickKeeps,
     DeinitWaitKeeps, DeinitFreeKeeps, AddSlotKeeps, AddRegisterKeeps, AddInfoKeeps,
     RmvRegisteredKeeps
  DEF ClientStep
<1>2. CASE DeinitStart
  BY <1>2, DeinitStartKeeps
<1>3. CASE \E c \in Comps : AddStart(c) \/ RmvSlot(c)
  BY <1>3, AddStartKeeps, RmvSlotKeeps
<1>4. CASE \E s \in Senders : SendSignal(s) \/ \E c \in Comps : SendQueue(s, c)
  BY <1>4, SendSignalKeeps, SendQueueKeeps
<1>5. CASE \E i \in Dtps : ThreadStep(i)
  <2>1. PICK i \in Dtps : ThreadStep(i)
    BY <1>5
  <2> QED
    BY <2>1, ThreadStartKeeps, ThreadLoopKeeps, ThreadVisitKeeps, ThreadDispatchedKeeps,
       ThreadWaitKeeps, ThreadCleanupKeeps, ThreadRetKeeps, ThreadDoneKeeps
    DEF ThreadStep
<1>6. CASE UNCHANGED vars
  <2>1. \A c : Registered(c)' = Registered(c)
    BY <1>6 DEF vars, Registered
  <2> QED
    BY <1>6, <2>1 DEF IInv, vars, mgrVars, threadVars, clientVars, TypeOK, Shapes, Threads, Client,
       Calls, Known, RegisteredHasSlot
<1> QED
  BY <1>1, <1>2, <1>3, <1>4, <1>5, <1>6 DEF Next

LEMMA SpecIInv == Spec => []IInv
BY InitIInv, NextIInv, PTL DEF Spec

\* The manager and its dispatchers agree about where a component is, and
\* AcCompMgr_deinit frees what a thread uses only after that thread has ended.
THEOREM ManagerIsConsistent == Spec => []MgrConsistent
<1>1. IInv => MgrConsistent
  <2> SUFFICES ASSUME IInv PROVE MgrConsistent
    OBVIOUS
  <2>1. TypeOK /\ RegisteredHasSlot
    BY DEF IInv
  <2>2. ASSUME NEW i \in Dtps, (mpc = "free" /\ i <= at) \/ mpc = "down"
        PROVE  i \notin started
    BY <2>1, <2>2 DEF IInv, TypeOK, Client, Dtps
  <2>3. FreedAfterEnd
    BY <2>2 DEF IInv, Threads, FreedAfterEnd
  <2> QED
    BY <2>1, <2>3 DEF MgrConsistent
<1> QED
  BY <1>1, SpecIInv, PTL
=============================================================================
