--------------------------- MODULE ReceptorProofs ---------------------------
(***************************************************************************)
(* The safety of AcReceptor on the x86 for any number of receptors,        *)
(* waiters and signalers: the conjunction IInv, at the end, is inductive.  *)
(*                                                                         *)
(* Its parts build on each other.  Ownership: a receptor is one waiter's,  *)
(* and what that does in a call agrees with the receptor's state.  So      *)
(* Handles and Waits: only its waiter's handle is ever in a receptor, and  *)
(* a waiter whose first exchange failed finds SIGNALED.  Outside and       *)
(* Sleeps follow a signal from its first step to its return: what the      *)
(* other threads do cannot undo what it relies on.                         *)
(***************************************************************************)
EXTENDS Receptor, TLAPS

-----------------------------------------------------------------------------
(* Types                                                                   *)

\* The conjuncts of TypeOK about where the threads are and what with.
PcTypeOK ==
  /\ pc \in [Threads -> WaiterPlaces \cup SignalerPlaces]
  /\ \A t \in Waiters : pc[t] \in WaiterPlaces
  /\ \A s \in Signalers : pc[s] \in SignalerPlaces
  /\ rec \in [Threads -> Receptors \cup {NULL}]
  /\ \A t \in Threads : pc[t] # "idle" => rec[t] # NULL
  /\ \A s \in Signalers : pc[s] = "wake" => seen[s] \in Waiters

\* A waiter goes to another place with receptor r, or to none if it is idle.
LEMMA WaiterGoes ==
  ASSUME PcTypeOK, NEW t \in Waiters, NEW p \in WaiterPlaces, NEW r \in Receptors \cup {NULL},
         pc' = [pc EXCEPT ![t] = p], rec' = [rec EXCEPT ![t] = r],
         r = NULL => p = "idle", UNCHANGED seen
  PROVE  PcTypeOK'
BY ReceptorAssumption DEF PcTypeOK, Threads, WaiterPlaces, SignalerPlaces

\* A waiter goes on in the call it is in, with the same receptor.
LEMMA WaiterGoesOn ==
  ASSUME PcTypeOK, NEW t \in Waiters, NEW p \in WaiterPlaces, pc[t] # "idle",
         pc' = [pc EXCEPT ![t] = p], rec' = rec, UNCHANGED seen
  PROVE  PcTypeOK'
BY ReceptorAssumption DEF PcTypeOK, Threads, WaiterPlaces, SignalerPlaces

\* A signaler goes on in its signal; the thread it will make ready is a waiter.
LEMMA SignalerGoesOn ==
  ASSUME PcTypeOK, NEW s \in Signalers, NEW p \in SignalerPlaces, pc[s] # "idle",
         pc' = [pc EXCEPT ![s] = p], rec' = rec,
         p = "wake" => seen'[s] \in Waiters,
         \A o \in Signalers \ {s} : seen'[o] = seen[o]
  PROVE  PcTypeOK'
BY ReceptorAssumption DEF PcTypeOK, Threads, WaiterPlaces, SignalerPlaces

\* AcReceptor_init leaves the variables with their types.
LEMMA TypeOKInit == Init => TypeOK
BY ReceptorAssumption DEF Init, TypeOK, Threads, Receptors, WaiterPlaces, SignalerPlaces

\* Every access of get, ret, wait and signal keeps the types.
LEMMA TypeOKNext ==
  ASSUME TypeOK, [Next]_vars
  PROVE  TypeOK'
<1> USE ReceptorAssumption
<1> USE DEF TypeOK, Threads, Receptors, WaiterPlaces, SignalerPlaces, Goto, At,
          poolVars, signalVars, Forget
<1>1. ASSUME NEW t \in Waiters, GetStart(t)
      PROVE  TypeOK'
  BY <1>1 DEF GetStart
<1>2. ASSUME NEW t \in Waiters, GetCas(t)
      PROVE  TypeOK'
  BY <1>2 DEF GetCas
<1>3. ASSUME NEW t \in Waiters, GetNext(t)
      PROVE  TypeOK'
  <2>1. rec[t] \in Receptors
    BY <1>3 DEF GetNext
  <2>2. CASE IsLast(rec[t])
    <3>1. /\ pc' = [pc EXCEPT ![t] = "idle"] /\ rec' = [rec EXCEPT ![t] = NULL]
          /\ UNCHANGED <<poolVars, thdl, ready, signalVars>>
      BY <1>3, <2>2 DEF GetNext
    <3>2. PcTypeOK'
      BY <3>1, WaiterGoes DEF PcTypeOK
    <3>3. QED
      BY <3>1, <3>2 DEF PcTypeOK
  <2>3. CASE ~IsLast(rec[t])
    <3>1. rec[t] + 1 \in Receptors
      BY <2>1, <2>3 DEF IsLast
    <3>2. rec' = [rec EXCEPT ![t] = rec[t] + 1] /\ pc' = pc
      BY <1>3, <2>3 DEF GetNext
    <3>5. UNCHANGED <<poolVars, thdl, ready, signalVars>>
      BY <1>3 DEF GetNext
    <3>3. rec[t] + 1 # NULL
      BY <3>1
    <3>4. PcTypeOK'
      <4>1. rec' \in [Threads -> Receptors \cup {NULL}]
        BY <3>1, <3>2
      <4>2. \A u \in Threads : pc'[u] # "idle" => rec'[u] # NULL
        BY <3>2, <3>3
      <4>3. QED
        BY <3>2, <3>5, <4>1, <4>2 DEF PcTypeOK
    <3>6. QED
      BY <3>4, <3>5 DEF PcTypeOK
  <2>4. QED
    BY <2>2, <2>3
<1>4. ASSUME NEW t \in Waiters, GetClear(t)
      PROVE  TypeOK'
  BY <1>4 DEF GetClear
<1>5. ASSUME NEW t \in Waiters, GetActivate(t)
      PROVE  TypeOK'
  <2>1. rec[t] \in Receptors
    BY <1>5 DEF GetActivate
  <2>2. state' \in [Receptors -> {"UNUSED", "INITIALIZING", "ACTIVE", "DEINITIALIZING"}]
    BY <1>5 DEF GetActivate
  <2>3. held' \in [Waiters -> SUBSET Receptors] /\ given' \subseteq Receptors
    <3>1. held[t] \cup {rec[t]} \in SUBSET Receptors
      BY <2>1
    <3>2. held' = [held EXCEPT ![t] = held[t] \cup {rec[t]}] /\ given' = given \cup {rec[t]}
      BY <1>5 DEF GetActivate
    <3>3. QED
      BY <2>1, <3>1, <3>2
  <2>4. /\ pc' = [pc EXCEPT ![t] = "idle"]
        /\ rec' = [rec EXCEPT ![t] = NULL]
        /\ UNCHANGED <<thdl, ready, signalVars>>
    BY <1>5 DEF GetActivate
  <2>5. QED
    BY <2>2, <2>3, <2>4
<1>6. ASSUME NEW t \in Waiters, NEW r \in held[t], RetCas(t, r)
      PROVE  TypeOK'
  BY <1>6 DEF RetCas
<1>7. ASSUME NEW t \in Waiters, NEW r \in held[t], WaitStart(t, r)
      PROVE  TypeOK'
  BY <1>7 DEF WaitStart
<1>8. ASSUME NEW t \in Waiters, RetClear(t)
      PROVE  TypeOK'
  BY <1>8 DEF RetClear
<1>9. ASSUME NEW t \in Waiters, RetFree(t)
      PROVE  TypeOK'
  BY <1>9 DEF RetFree
<1>10. ASSUME NEW t \in Waiters, WaitCas(t)
      PROVE  TypeOK'
  BY SMTT(30), <1>10 DEF WaitCas
<1>11. ASSUME NEW t \in Waiters, WaitSleep(t)
      PROVE  TypeOK'
  BY <1>11 DEF WaitSleep
<1>12. ASSUME NEW t \in Waiters, WaitResume(t)
      PROVE  TypeOK'
  BY <1>12 DEF WaitResume, NoLongerWaiting
<1>13. ASSUME NEW t \in Waiters, WaitCas2(t)
      PROVE  TypeOK'
  <2>1. PcTypeOK'
    <3>1. CASE thdl[rec[t]] = SIGNALED
      <4>1. pc' = [pc EXCEPT ![t] = "idle"] /\ rec' = [rec EXCEPT ![t] = NULL] /\ UNCHANGED seen
        BY <1>13, <3>1 DEF WaitCas2
      <4>2. PcTypeOK
        BY DEF PcTypeOK
      <4>3. QED
        BY <4>1, <4>2, WaiterGoes
    <3>2. CASE thdl[rec[t]] # SIGNALED
      <4>1. /\ pc[t] # "idle" /\ UNCHANGED <<rec, seen>>
            /\ pc' = [pc EXCEPT ![t] = "failed"]
        BY <1>13, <3>2 DEF WaitCas2
      <4>2. PcTypeOK
        BY DEF PcTypeOK
      <4>3. QED
        BY <4>1, <4>2, WaiterGoesOn
    <3>3. QED
      BY <3>1, <3>2
  <2>2. thdl' \in [Receptors -> {NO_ONE, SIGNALED} \cup Waiters]
    BY <1>13 DEF WaitCas2
  <2>3. UNCHANGED <<poolVars, ready, signalVars>>
    BY <1>13 DEF WaitCas2
  <2>4. QED
    BY <2>1, <2>2, <2>3 DEF PcTypeOK
<1>14. ASSUME NEW s \in Signalers, NEW r \in given, SignalStart(s, r)
      PROVE  TypeOK'
  BY <1>14 DEF SignalStart, FirstExpected
<1>15. ASSUME NEW s \in Signalers, SignalCas(s)
      PROVE  TypeOK'
  <2>1. rec[s] \in Receptors
    BY <1>15 DEF SignalCas
  <2>2. PcTypeOK'
    <3>1. PICK p \in {"idle", "load"} : pc' = [pc EXCEPT ![s] = p]
      BY <1>15 DEF SignalCas
    <3>2. pc[s] # "idle" /\ UNCHANGED <<rec, seen>>
      BY <1>15 DEF SignalCas
    <3>3. PcTypeOK
      BY DEF PcTypeOK
    <3>4. QED
      BY <3>1, <3>2, <3>3, SignalerGoesOn
  <2>3. thdl' \in [Receptors -> {NO_ONE, SIGNALED} \cup Waiters]
    <3>1. thdl' = [thdl EXCEPT ![rec[s]] = SIGNALED] \/ thdl' = thdl
      BY <1>15 DEF SignalCas
    <3>2. QED
      BY <3>1
  <2>4. exp' \in [Signalers -> {NO_ONE, SIGNALED} \cup Waiters]
    <3>1. exp' = [exp EXCEPT ![s] = thdl[rec[s]]] \/ exp' = exp
      BY <1>15 DEF SignalCas
    <3>2. thdl[rec[s]] \in {NO_ONE, SIGNALED} \cup Waiters
      BY <2>1
    <3>3. QED
      BY <3>1, <3>2
  <2>5. UNCHANGED <<poolVars, ready, seen, saw>>
    BY <1>15 DEF SignalCas
  <2>6. QED
    BY <2>2, <2>3, <2>4, <2>5 DEF PcTypeOK
<1>16. ASSUME NEW s \in Signalers, SignalLoad(s)
      PROVE  TypeOK'
  BY <1>16 DEF SignalLoad, AfterLoad
<1>17. ASSUME NEW s \in Signalers, SignalWake(s)
      PROVE  TypeOK'
  BY <1>17 DEF SignalWake, Asleep
<1>18. CASE UNCHANGED vars
  BY <1>18 DEF vars
<1>19. QED
  BY <1>1, <1>2, <1>3, <1>4, <1>5, <1>6, <1>7, <1>8, <1>9, <1>10, <1>11, <1>12, <1>13,
     <1>14, <1>15, <1>16, <1>17, <1>18 DEF Next, WaiterStep, SignalerStep

-----------------------------------------------------------------------------
(* Ownership: a receptor is one waiter's                                   *)

\* What a waiter is doing agrees with the state of the receptor it does it to.
Places ==
  \A t \in Waiters :
    /\ pc[t] \in {"clear", "activate"} => state[rec[t]] = "INITIALIZING"
    /\ pc[t] \in {"ret", "free"} => rec[t] \in held[t] /\ state[rec[t]] = "DEINITIALIZING"
    /\ pc[t] \in {"wait", "sleep", "resume", "wait2"} => rec[t] \in held[t]
    /\ \A r \in held[t] : state[r] = "ACTIVE" \/ (pc[t] \in {"ret", "free"} /\ rec[t] = r)

Ownership == OneHolder /\ Places

\* AcReceptor_wait does not come to its case 3: a thread at its second compare
\* and exchange finds the receptor signaled.
Waits ==
  \A t \in Waiters : pc[t] # "failed" /\ (pc[t] = "wait2" => thdl[rec[t]] = SIGNALED)

\* A step that leaves the pool and the waiters alone.
LEMMA OwnershipFrame ==
  ASSUME Ownership, UNCHANGED <<state, held>>,
         \A t \in Waiters : pc'[t] = pc[t] /\ rec'[t] = rec[t]
  PROVE  Ownership'
<1>1. \A t \in Waiters : Has(t)' = Has(t)
  BY DEF Has
<1>2. OneHolder'
  BY <1>1 DEF Ownership, OneHolder
<1>3. Places'
  BY DEF Ownership, Places
<1>4. QED
  BY <1>2, <1>3 DEF Ownership

\* A step by which one waiter moves outside of get and ret.
LEMMA OwnershipMoves ==
  ASSUME TypeOK, Ownership, NEW t \in Waiters, UNCHANGED <<state, held>>,
         NEW p \in {"idle", "get", "wait", "sleep", "resume", "wait2"},
         pc[t] \notin {"clear", "activate", "ret", "free"},
         pc' = [pc EXCEPT ![t] = p],
         \A u \in Waiters \ {t} : rec'[u] = rec[u],
         p \in {"wait", "sleep", "resume", "wait2"} => rec'[t] \in held[t]
  PROVE  Ownership'
<1>1. \A u \in Waiters : Has(u)' = Has(u)
  BY DEF Has, TypeOK, Threads
<1>2. OneHolder'
  BY <1>1 DEF Ownership, OneHolder
<1>3. Places'
  BY DEF Ownership, Places, TypeOK, Threads
<1>4. QED
  BY <1>2, <1>3 DEF Ownership

\* The compare and exchange of AcReceptor_get, and the order of the stores in get
\* and ret, keep the receptors apart.
LEMMA OwnershipNext ==
  ASSUME TypeOK, Ownership, Waits, [Next]_vars
  PROVE  Ownership'
<1> USE ReceptorAssumption DEF Goto, At, poolVars, signalVars
<1>1. ASSUME NEW t \in Waiters, GetStart(t)
      PROVE  Ownership'
  BY <1>1, OwnershipMoves DEF GetStart, TypeOK, Threads
<1>2. ASSUME NEW t \in Waiters, GetCas(t)
      PROVE  Ownership'
  <2>1. Has(t)' = Has(t) \cup {rec[t]} /\ \A u \in Waiters \ {t} : Has(u)' = Has(u)
    BY <1>2 DEF GetCas, Has, TypeOK, Threads
  <2>2. rec[t] \in Receptors /\ \A u \in Waiters : rec[t] \notin Has(u)
    BY <1>2 DEF GetCas, Unused, Ownership, OneHolder, TypeOK, Threads
  <2>3. \A u \in Waiters : Has(u) \subseteq Receptors
    BY DEF Has, TypeOK, Threads, Places, Ownership
  <2>4. \A r \in Receptors : state'[r] = IF r = rec[t] THEN "INITIALIZING" ELSE state[r]
    BY <1>2, <2>2 DEF GetCas, TypeOK
  <2>5. OneHolder'
    BY <2>1, <2>2, <2>3, <2>4 DEF Ownership, OneHolder
  <2>6. Places'
    BY <1>2, <2>2, <2>4 DEF GetCas, Ownership, Places, Has, TypeOK, Threads
  <2>7. QED
    BY <2>5, <2>6 DEF Ownership
<1>3. ASSUME NEW t \in Waiters, GetNext(t)
      PROVE  Ownership'
  <2>1. pc' = [pc EXCEPT ![t] = "idle"] \/ pc' = [pc EXCEPT ![t] = "get"]
    BY <1>3 DEF GetNext, TypeOK, Threads
  <2>2. \A u \in Waiters \ {t} : rec'[u] = rec[u]
    BY <1>3 DEF GetNext, TypeOK, Threads
  <2>3. QED
    BY <1>3, <2>1, <2>2, OwnershipMoves DEF GetNext
<1>4. ASSUME NEW t \in Waiters, GetClear(t)
      PROVE  Ownership'
  <2>1. \A u \in Waiters : Has(u)' = Has(u)
    BY <1>4 DEF GetClear, Has, TypeOK, Threads
  <2>2. OneHolder'
    BY <1>4, <2>1 DEF GetClear, Ownership, OneHolder
  <2>3. Places'
    BY <1>4 DEF GetClear, Ownership, Places, TypeOK, Threads
  <2>4. QED
    BY <2>2, <2>3 DEF Ownership
<1>5. ASSUME NEW t \in Waiters, GetActivate(t)
      PROVE  Ownership'
  <2>1. \A u \in Waiters : Has(u)' = Has(u)
    BY <1>5 DEF GetActivate, Has, TypeOK, Threads
  <2>2. rec[t] \in Has(t) /\ rec[t] \in Receptors
    BY <1>5 DEF GetActivate, Has, TypeOK, Threads
  <2>3. OneHolder'
    BY <1>5, <2>1 DEF GetActivate, Ownership, OneHolder, TypeOK
  <2>4. \A u \in Waiters \ {t} : rec[t] \notin Has(u)
    BY <2>2 DEF Ownership, OneHolder
  <2>5. Places'
    BY <1>5, <2>2, <2>4 DEF GetActivate, Ownership, Places, Has, TypeOK, Threads
  <2>6. QED
    BY <2>3, <2>5 DEF Ownership
<1>6. ASSUME NEW t \in Waiters, NEW r \in held[t], RetCas(t, r)
      PROVE  Ownership'
  <2>1. \A u \in Waiters : Has(u)' = Has(u)
    BY <1>6 DEF RetCas, Has, TypeOK, Threads
  <2>2. r \in Has(t) /\ r \in Receptors
    BY <1>6 DEF RetCas, Has, TypeOK, Threads
  <2>3. OneHolder'
    BY <1>6, <2>1 DEF RetCas, Ownership, OneHolder, TypeOK
  <2>4. \A u \in Waiters \ {t} : r \notin Has(u)
    BY <2>2 DEF Ownership, OneHolder
  <2>5. Places'
    BY <1>6, <2>2, <2>4 DEF RetCas, Ownership, Places, Has, TypeOK, Threads
  <2>6. QED
    BY <2>3, <2>5 DEF Ownership
<1>7. ASSUME NEW t \in Waiters, NEW r \in held[t], WaitStart(t, r)
      PROVE  Ownership'
  BY <1>7, OwnershipMoves DEF WaitStart, TypeOK, Threads
<1>8. ASSUME NEW t \in Waiters, RetClear(t)
      PROVE  Ownership'
  <2>1. \A u \in Waiters : Has(u)' = Has(u)
    BY <1>8 DEF RetClear, Has, TypeOK, Threads
  <2>2. OneHolder'
    BY <1>8, <2>1 DEF RetClear, Ownership, OneHolder
  <2>3. Places'
    BY <1>8 DEF RetClear, Ownership, Places, TypeOK, Threads
  <2>4. QED
    BY <2>2, <2>3 DEF Ownership
<1>9. ASSUME NEW t \in Waiters, RetFree(t)
      PROVE  Ownership'
  <2>1. Has(t)' = Has(t) \ {rec[t]} /\ \A u \in Waiters \ {t} : Has(u)' = Has(u)
    BY <1>9 DEF RetFree, Has, TypeOK, Threads
  <2>2. rec[t] \in held[t] /\ rec[t] \in Has(t) /\ rec[t] \in Receptors
    BY <1>9 DEF RetFree, Ownership, Places, Has, TypeOK, Threads
  <2>3. \A u \in Waiters \ {t} : rec[t] \notin Has(u)
    BY <2>2 DEF Ownership, OneHolder
  <2>4. OneHolder'
    BY <1>9, <2>1, <2>3 DEF RetFree, Ownership, OneHolder, TypeOK
  <2>5. Places'
    BY <1>9, <2>2, <2>3 DEF RetFree, Ownership, Places, Has, TypeOK, Threads
  <2>6. QED
    BY <2>4, <2>5 DEF Ownership
<1>10. ASSUME NEW t \in Waiters, WaitCas(t)
      PROVE  Ownership'
  <2>1. rec[t] \in held[t]
    BY <1>10 DEF WaitCas, Ownership, Places
  <2>2. pc' = [pc EXCEPT ![t] = "sleep"] \/ pc' = [pc EXCEPT ![t] = "wait2"]
    BY <1>10 DEF WaitCas
  <2>3. QED
    BY <1>10, <2>1, <2>2, OwnershipMoves DEF WaitCas
<1>11. ASSUME NEW t \in Waiters, WaitSleep(t)
      PROVE  Ownership'
  <2>1. rec[t] \in held[t]
    BY <1>11 DEF WaitSleep, Ownership, Places
  <2>2. QED
    BY <1>11, <2>1, OwnershipMoves DEF WaitSleep
<1>12. ASSUME NEW t \in Waiters, WaitResume(t)
      PROVE  Ownership'
  BY <1>12, OwnershipMoves DEF WaitResume, TypeOK, Threads
<1>13. ASSUME NEW t \in Waiters, WaitCas2(t)
      PROVE  Ownership'
  <2>1. pc' = [pc EXCEPT ![t] = "idle"] /\ rec' = [rec EXCEPT ![t] = NULL]
    BY <1>13 DEF WaitCas2, Waits
  <2>2. QED
    BY <1>13, <2>1, OwnershipMoves DEF WaitCas2, TypeOK, Threads
<1>14. ASSUME NEW s \in Signalers, NEW r \in given, SignalStart(s, r)
      PROVE  Ownership'
  BY <1>14, OwnershipFrame DEF SignalStart, TypeOK, Threads
<1>15. ASSUME NEW s \in Signalers, SignalCas(s)
      PROVE  Ownership'
  <2>1. \A t \in Waiters : pc'[t] = pc[t]
    BY <1>15 DEF SignalCas, TypeOK, Threads
  <2>2. QED
    BY <1>15, <2>1, OwnershipFrame DEF SignalCas
<1>16. ASSUME NEW s \in Signalers, SignalLoad(s)
      PROVE  Ownership'
  BY <1>16, OwnershipFrame DEF SignalLoad, TypeOK, Threads
<1>17. ASSUME NEW s \in Signalers, SignalWake(s)
      PROVE  Ownership'
  BY <1>17, OwnershipFrame DEF SignalWake, TypeOK, Threads
<1>18. CASE UNCHANGED vars
  BY <1>18, OwnershipFrame DEF vars
<1>19. QED
  BY <1>1, <1>2, <1>3, <1>4, <1>5, <1>6, <1>7, <1>8, <1>9, <1>10, <1>11, <1>12, <1>13,
     <1>14, <1>15, <1>16, <1>17, <1>18 DEF Next, WaiterStep, SignalerStep

-----------------------------------------------------------------------------
(* Handles, and Waits again: the word of a receptor                        *)

\* A handle in a receptor is that of the thread that waits on it.
Handles ==
  \A r \in Receptors, t \in Waiters :
    thdl[r] = t => pc[t] \in {"sleep", "resume"} /\ rec[t] = r

\* The places where a waiter uses its receptor as its own.
Busy(t) == pc[t] \in {"clear", "activate", "ret", "free", "wait", "sleep", "resume", "wait2"}

\* Two waiters at such places are so with two receptors.
LEMMA Apart ==
  ASSUME TypeOK, Ownership, NEW t \in Waiters, Busy(t)
  PROVE  rec[t] \in Receptors /\ \A u \in Waiters \ {t} : Busy(u) => rec[u] # rec[t]
<1>1. \A u \in Waiters : Busy(u) => rec[u] \in Has(u)
  BY DEF Busy, Has, Ownership, Places
<1>2. rec[t] \in Receptors
  BY ReceptorAssumption DEF Busy, TypeOK, Threads
<1>3. QED
  BY <1>1, <1>2 DEF Ownership, OneHolder

\* A step of waiter t that leaves all other waiters alone, and all receptors but its
\* own, to which it writes x.
LEMMA HandlesMoves ==
  ASSUME TypeOK, Ownership, Handles, Waits, NEW t \in Waiters, Busy(t),
         NEW p \in WaiterPlaces \ {"sleep", "resume", "wait2", "failed"},
         pc' = [pc EXCEPT ![t] = p], thdl' = [thdl EXCEPT ![rec[t]] = NO_ONE],
         \A u \in Waiters \ {t} : rec'[u] = rec[u]
  PROVE  Handles' /\ Waits'
<1>1. rec[t] \in Receptors /\ \A u \in Waiters \ {t} : Busy(u) => rec[u] # rec[t]
  BY Apart
<1>2. \A u \in Waiters \ {t} : pc'[u] = pc[u]
  BY DEF TypeOK, Threads
<1>3. pc'[t] = p
  BY DEF TypeOK, Threads
<1>4. \A r \in Receptors : thdl'[r] = IF r = rec[t] THEN NO_ONE ELSE thdl[r]
  BY DEF TypeOK
<1>5. Handles'
  <2>1. ASSUME NEW r \in Receptors, NEW u \in Waiters, thdl'[r] = u
        PROVE  pc'[u] \in {"sleep", "resume"} /\ rec'[u] = r
    <3>1. r # rec[t] /\ thdl[r] = u
      BY <1>4, <2>1, ReceptorAssumption DEF Threads
    <3>2. u # t
      BY <3>1 DEF Handles
    <3>3. QED
      BY <1>2, <3>1, <3>2 DEF Handles
  <2>2. QED
    BY <2>1 DEF Handles
<1>6. Waits'
  <2>1. ASSUME NEW u \in Waiters, pc'[u] = "wait2"
        PROVE  thdl'[rec'[u]] = SIGNALED
    <3>1. u # t /\ pc[u] = "wait2"
      BY <1>2, <1>3, <2>1
    <3>2. Busy(u) /\ rec[u] # rec[t] /\ rec'[u] = rec[u]
      BY <1>1, <3>1 DEF Busy
    <3>3. rec[u] \in Receptors
      BY <3>2, Apart
    <3>4. QED
      BY <1>4, <3>1, <3>2, <3>3 DEF Waits
  <2>2. QED
    BY <1>2, <1>3, <2>1 DEF Waits, WaiterPlaces
<1>7. QED
  BY <1>5, <1>6

\* A step after which every waiter that waits is where it was, and every receptor
\* as it was or signaled.
LEMMA HandlesFrame ==
  ASSUME TypeOK, Handles, Waits,
         \A t \in Waiters :
           /\ pc[t] \in {"sleep", "resume"} => pc'[t] \in {"sleep", "resume"} /\ rec'[t] = rec[t]
           /\ pc'[t] # "failed"
           /\ pc'[t] = "wait2" => pc[t] = "wait2" /\ rec'[t] = rec[t],
         \A r \in Receptors : thdl'[r] \in {thdl[r], SIGNALED}
  PROVE  Handles' /\ Waits'
<1>1. Handles'
  BY ReceptorAssumption DEF Handles, Threads
<1>2. Waits'
  BY ReceptorAssumption DEF Waits, TypeOK, Threads
<1>3. QED
  BY <1>1, <1>2

\* Get, ret, wait and signal leave no handle behind.
LEMMA HandlesNext ==
  ASSUME TypeOK, Ownership, Handles, Waits, [Next]_vars
  PROVE  Handles' /\ Waits'
<1> USE DEF Goto, At, poolVars, signalVars
<1>1. ASSUME NEW t \in Waiters, GetStart(t)
      PROVE  Handles' /\ Waits'
  BY <1>1, HandlesFrame DEF GetStart, Waits, TypeOK, Threads
<1>2. ASSUME NEW t \in Waiters, GetCas(t)
      PROVE  Handles' /\ Waits'
  BY <1>2, HandlesFrame DEF GetCas, Waits, TypeOK, Threads
<1>3. ASSUME NEW t \in Waiters, GetNext(t)
      PROVE  Handles' /\ Waits'
  BY <1>3, HandlesFrame DEF GetNext, Waits, TypeOK, Threads
<1>4. ASSUME NEW t \in Waiters, GetClear(t)
      PROVE  Handles' /\ Waits'
  BY <1>4, HandlesMoves DEF GetClear, Busy, WaiterPlaces
<1>5. ASSUME NEW t \in Waiters, GetActivate(t)
      PROVE  Handles' /\ Waits'
  BY <1>5, HandlesFrame DEF GetActivate, Waits, TypeOK, Threads
<1>6. ASSUME NEW t \in Waiters, NEW r \in held[t], RetCas(t, r)
      PROVE  Handles' /\ Waits'
  BY <1>6, HandlesFrame DEF RetCas, Waits, TypeOK, Threads
<1>7. ASSUME NEW t \in Waiters, NEW r \in held[t], WaitStart(t, r)
      PROVE  Handles' /\ Waits'
  BY <1>7, HandlesFrame DEF WaitStart, Waits, TypeOK, Threads
<1>8. ASSUME NEW t \in Waiters, RetClear(t)
      PROVE  Handles' /\ Waits'
  BY <1>8, HandlesMoves DEF RetClear, Busy, WaiterPlaces
<1>9. ASSUME NEW t \in Waiters, RetFree(t)
      PROVE  Handles' /\ Waits'
  BY <1>9, HandlesFrame DEF RetFree, Waits, TypeOK, Threads
<1>10. ASSUME NEW t \in Waiters, WaitCas(t)
       PROVE  Handles' /\ Waits'
  <2>1. Busy(t) /\ rec[t] \in Receptors
    BY <1>10, Apart DEF WaitCas, Busy
  <2>2. \A u \in Waiters \ {t} : Busy(u) => rec[u] # rec[t]
    BY <2>1, Apart
  <2>3. CASE thdl[rec[t]] = NO_ONE
    <3>1. thdl' = [thdl EXCEPT ![rec[t]] = t] /\ pc' = [pc EXCEPT ![t] = "sleep"] /\ rec' = rec
      BY <1>10, <2>3 DEF WaitCas
    <3>2. Handles'
      BY <2>1, <3>1 DEF Handles, TypeOK, Threads
    <3>3. \A u \in Waiters : pc'[u] = "wait2" => u # t /\ pc[u] = "wait2"
      BY <3>1 DEF TypeOK, Threads
    <3>4. Waits'
      <4>1. \A u \in Waiters : pc'[u] # "failed"
        BY <3>1 DEF Waits, TypeOK, Threads
      <4>2. ASSUME NEW u \in Waiters, pc'[u] = "wait2"
            PROVE  thdl'[rec'[u]] = SIGNALED
        <5>1. rec[u] # rec[t] /\ thdl[rec[u]] = SIGNALED
          BY <2>2, <3>3, <4>2 DEF Busy, Waits
        <5>2. Busy(u)
          BY <3>3, <4>2 DEF Busy
        <5>3. rec[u] \in Receptors
          BY <5>2, Apart
        <5>4. QED
          BY <3>1, <5>1, <5>3 DEF TypeOK
      <4>3. QED
        BY <4>1, <4>2 DEF Waits
    <3>5. QED
      BY <3>2, <3>4
  <2>4. CASE thdl[rec[t]] # NO_ONE
    <3>1. thdl' = thdl /\ pc' = [pc EXCEPT ![t] = "wait2"] /\ rec' = rec /\ pc[t] = "wait"
      BY <1>10, <2>4 DEF WaitCas
    <3>2. Handles'
      BY <3>1 DEF Handles, TypeOK, Threads
    <3>3. thdl[rec[t]] = SIGNALED
      <4>1. \A u \in Waiters : thdl[rec[t]] # u
        BY <2>1, <2>2, <3>1 DEF Handles, Busy
      <4>2. QED
        BY <2>1, <2>4, <4>1 DEF TypeOK
    <3>4. Waits'
      BY <3>1, <3>3 DEF Waits, TypeOK, Threads
    <3>5. QED
      BY <3>2, <3>4
  <2>5. QED
    BY <2>3, <2>4
<1>11. ASSUME NEW t \in Waiters, WaitSleep(t)
       PROVE  Handles' /\ Waits'
  BY <1>11, HandlesFrame DEF WaitSleep, Waits, TypeOK, Threads
<1>12. ASSUME NEW t \in Waiters, WaitResume(t)
       PROVE  Handles' /\ Waits'
  BY <1>12, HandlesMoves DEF WaitResume, NoLongerWaiting, Busy, WaiterPlaces, TypeOK, Threads
<1>13. ASSUME NEW t \in Waiters, WaitCas2(t)
       PROVE  Handles' /\ Waits'
  <2>1. /\ pc' = [pc EXCEPT ![t] = "idle"] /\ rec' = [rec EXCEPT ![t] = NULL]
        /\ thdl' = [thdl EXCEPT ![rec[t]] = NO_ONE]
    BY <1>13 DEF WaitCas2, Waits
  <2>2. QED
    BY <1>13, <2>1, HandlesMoves DEF WaitCas2, Busy, WaiterPlaces, TypeOK, Threads
<1>14. ASSUME NEW s \in Signalers, NEW r \in given, SignalStart(s, r)
       PROVE  Handles' /\ Waits'
  BY <1>14, ReceptorAssumption, HandlesFrame DEF SignalStart, Waits, TypeOK, Threads
<1>15. ASSUME NEW s \in Signalers, SignalCas(s)
       PROVE  Handles' /\ Waits'
  <2>1. \A t \in Waiters : pc'[t] = pc[t]
    BY <1>15, ReceptorAssumption DEF SignalCas, TypeOK, Threads
  <2>2. \A r \in Receptors : thdl'[r] \in {thdl[r], SIGNALED}
    BY <1>15 DEF SignalCas, TypeOK
  <2>3. QED
    BY <1>15, <2>1, <2>2, HandlesFrame DEF SignalCas, Waits
<1>16. ASSUME NEW s \in Signalers, SignalLoad(s)
       PROVE  Handles' /\ Waits'
  BY <1>16, ReceptorAssumption, HandlesFrame DEF SignalLoad, Waits, TypeOK, Threads
<1>17. ASSUME NEW s \in Signalers, SignalWake(s)
       PROVE  Handles' /\ Waits'
  BY <1>17, ReceptorAssumption, HandlesFrame DEF SignalWake, Waits, TypeOK, Threads
<1>18. CASE UNCHANGED vars
  BY <1>18, HandlesFrame DEF vars, Waits
<1>19. QED
  BY <1>1, <1>2, <1>3, <1>4, <1>5, <1>6, <1>7, <1>8, <1>9, <1>10, <1>11, <1>12, <1>13,
     <1>14, <1>15, <1>16, <1>17, <1>18 DEF Next, WaiterStep, SignalerStep

-----------------------------------------------------------------------------
(* Outside: a signal to a thread that is not in a wait                     *)

\* A signal that began while the receptor's thread was outside a wait on it, and
\* it still is: the signal's compare and exchange has not failed, or the receptor
\* is signaled.
Outside ==
  \A s \in Signalers :
    saw[s] = "outside" =>
      /\ rec[s] \in Receptors /\ state[rec[s]] = "ACTIVE"
      /\ \A t \in Waiters : ~InWait(t, rec[s])
      /\ pc[s] = "cas" => exp[s] = NO_ONE
      /\ pc[s] \in {"load", "idle"} => thdl[rec[s]] = SIGNALED
      /\ pc[s] # "wake"

\* A waiter's step that begins no wait and ends no possession, as seen by the
\* signals: the receptor it writes to is not active or it is in a wait on it.
LEMMA OutsideFrame ==
  ASSUME TypeOK, Outside, Ownership, UNCHANGED <<exp>>,
         \A s \in Signalers : pc'[s] = pc[s] /\ rec'[s] = rec[s],
         \A s \in Signalers : saw'[s] = "outside" =>
           /\ saw[s] = "outside"
           /\ state'[rec[s]] = state[rec[s]]
           /\ thdl'[rec[s]] = thdl[rec[s]]
           /\ \A t \in Waiters : InWait(t, rec[s])' => InWait(t, rec[s])
  PROVE  Outside'
BY DEF Outside, InWait

\* No wait, no return and no other signal undoes one that met no wait.
LEMMA OutsideNext ==
  ASSUME TypeOK, Ownership, Handles, Waits, Outside, [Next]_vars
  PROVE  Outside'
<1> USE ReceptorAssumption DEF Goto, At, poolVars, signalVars
<1>0. \A s \in Signalers : saw[s] = "outside" => rec[s] \in Receptors
  BY DEF Outside
<1>1. ASSUME NEW t \in Waiters, GetStart(t)
      PROVE  Outside'
  BY <1>1, OutsideFrame DEF GetStart, InWait, TypeOK, Threads
<1>2. ASSUME NEW t \in Waiters, GetCas(t)
      PROVE  Outside'
  <2>1. \A s \in Signalers : saw[s] = "outside" => rec[s] # rec[t]
    BY <1>2 DEF GetCas, Unused, Outside
  <2>2. rec[t] \in Receptors
    BY <1>2 DEF GetCas, TypeOK, Threads
  <2>3. \A r \in Receptors : r # rec[t] => state'[r] = state[r]
    BY <1>2, <2>2 DEF GetCas, TypeOK
  <2>4. \A u \in Waiters, r \in Receptors : InWait(u, r)' => InWait(u, r)
    BY <1>2 DEF GetCas, InWait, TypeOK, Threads
  <2>5. QED
    BY <1>0, <1>2, <2>1, <2>3, <2>4, OutsideFrame DEF GetCas, TypeOK, Threads
<1>3. ASSUME NEW t \in Waiters, GetNext(t)
      PROVE  Outside'
  <2>1. \A s \in Signalers : pc'[s] = pc[s] /\ rec'[s] = rec[s]
    BY <1>3 DEF GetNext, TypeOK, Threads
  <2>2. \A u \in Waiters, r \in Receptors : InWait(u, r)' => InWait(u, r)
    BY <1>3 DEF GetNext, InWait, TypeOK, Threads
  <2>3. QED
    BY <1>0, <1>3, <2>1, <2>2, OutsideFrame DEF GetNext
<1>4. ASSUME NEW t \in Waiters, GetClear(t)
      PROVE  Outside'
  <2>1. \A s \in Signalers : saw[s] = "outside" => rec[s] # rec[t]
    BY <1>4 DEF GetClear, Ownership, Places, Outside
  <2>2. \A r \in Receptors : r # rec[t] => thdl'[r] = thdl[r]
    BY <1>4 DEF GetClear, TypeOK
  <2>3. \A u \in Waiters, r \in Receptors : InWait(u, r)' => InWait(u, r)
    BY <1>4 DEF GetClear, InWait, TypeOK, Threads
  <2>4. QED
    BY <1>0, <1>4, <2>1, <2>2, <2>3, OutsideFrame DEF GetClear, TypeOK, Threads
<1>5. ASSUME NEW t \in Waiters, GetActivate(t)
      PROVE  Outside'
  <2>1. \A s \in Signalers : saw[s] = "outside" => rec[s] # rec[t]
    BY <1>5 DEF GetActivate, Ownership, Places, Outside
  <2>2. \A r \in Receptors : r # rec[t] => state'[r] = state[r]
    BY <1>5 DEF GetActivate, TypeOK
  <2>3. \A u \in Waiters, r \in Receptors : InWait(u, r)' => InWait(u, r)
    BY <1>5 DEF GetActivate, InWait, TypeOK, Threads
  <2>4. QED
    BY <1>0, <1>5, <2>1, <2>2, <2>3, OutsideFrame DEF GetActivate, TypeOK, Threads
<1>6. ASSUME NEW t \in Waiters, NEW r \in held[t], RetCas(t, r)
      PROVE  Outside'
  <2>1. \A s \in Signalers : saw'[s] = "outside" => saw[s] = "outside" /\ rec[s] # r
    BY <1>6 DEF RetCas, Forget
  <2>2. r \in Receptors /\ \A q \in Receptors : q # r => state'[q] = state[q]
    BY <1>6 DEF RetCas, TypeOK
  <2>3. \A u \in Waiters, q \in Receptors : InWait(u, q)' => InWait(u, q)
    BY <1>6 DEF RetCas, InWait, TypeOK, Threads
  <2>4. QED
    BY <1>0, <1>6, <2>1, <2>2, <2>3, OutsideFrame DEF RetCas, TypeOK, Threads
<1>7. ASSUME NEW t \in Waiters, NEW r \in held[t], WaitStart(t, r)
      PROVE  Outside'
  <2>1. \A s \in Signalers : saw'[s] = "outside" => saw[s] = "outside" /\ rec[s] # r
    BY <1>7 DEF WaitStart, Forget
  <2>2. \A u \in Waiters, q \in Receptors : q # r => (InWait(u, q)' => InWait(u, q))
    BY <1>7 DEF WaitStart, InWait, TypeOK, Threads
  <2>3. QED
    BY <1>0, <1>7, <2>1, <2>2, OutsideFrame DEF WaitStart, TypeOK, Threads
<1>8. ASSUME NEW t \in Waiters, RetClear(t)
      PROVE  Outside'
  <2>1. \A s \in Signalers : saw[s] = "outside" => rec[s] # rec[t]
    BY <1>8 DEF RetClear, Ownership, Places, Outside
  <2>2. \A r \in Receptors : r # rec[t] => thdl'[r] = thdl[r]
    BY <1>8 DEF RetClear, TypeOK
  <2>3. \A u \in Waiters, r \in Receptors : InWait(u, r)' => InWait(u, r)
    BY <1>8 DEF RetClear, InWait, TypeOK, Threads
  <2>4. QED
    BY <1>0, <1>8, <2>1, <2>2, <2>3, OutsideFrame DEF RetClear, TypeOK, Threads
<1>9. ASSUME NEW t \in Waiters, RetFree(t)
      PROVE  Outside'
  <2>1. \A s \in Signalers : saw[s] = "outside" => rec[s] # rec[t]
    BY <1>9 DEF RetFree, Ownership, Places, Outside
  <2>2. \A r \in Receptors : r # rec[t] => state'[r] = state[r]
    BY <1>9 DEF RetFree, TypeOK
  <2>3. \A u \in Waiters, r \in Receptors : InWait(u, r)' => InWait(u, r)
    BY <1>9 DEF RetFree, InWait, TypeOK, Threads
  <2>4. QED
    BY <1>0, <1>9, <2>1, <2>2, <2>3, OutsideFrame DEF RetFree, TypeOK, Threads
<1>10. ASSUME NEW t \in Waiters, WaitCas(t)
       PROVE  Outside'
  <2>1. \A s \in Signalers : saw[s] = "outside" => rec[s] # rec[t]
    BY <1>10 DEF WaitCas, InWait, Outside
  <2>2. \A r \in Receptors : r # rec[t] => thdl'[r] = thdl[r]
    BY <1>10 DEF WaitCas, TypeOK
  <2>3. \A u \in Waiters, r \in Receptors : InWait(u, r)' => InWait(u, r)
    BY <1>10 DEF WaitCas, InWait, TypeOK, Threads
  <2>4. \A s \in Signalers : pc'[s] = pc[s]
    BY <1>10 DEF WaitCas, TypeOK, Threads
  <2>5. QED
    BY <1>0, <1>10, <2>1, <2>2, <2>3, <2>4, OutsideFrame DEF WaitCas
<1>11. ASSUME NEW t \in Waiters, WaitSleep(t)
       PROVE  Outside'
  <2>1. \A u \in Waiters, r \in Receptors : InWait(u, r)' => InWait(u, r)
    BY <1>11 DEF WaitSleep, InWait, TypeOK, Threads
  <2>2. QED
    BY <1>0, <1>11, <2>1, OutsideFrame DEF WaitSleep, TypeOK, Threads
<1>12. ASSUME NEW t \in Waiters, WaitResume(t)
       PROVE  Outside'
  <2>1. \A s \in Signalers : saw[s] = "outside" => rec[s] # rec[t]
    BY <1>12 DEF WaitResume, InWait, Outside
  <2>2. \A r \in Receptors : r # rec[t] => thdl'[r] = thdl[r]
    BY <1>12 DEF WaitResume, NoLongerWaiting, TypeOK
  <2>3. \A u \in Waiters, r \in Receptors : InWait(u, r)' => InWait(u, r)
    BY <1>12 DEF WaitResume, InWait, TypeOK, Threads
  <2>4. QED
    BY <1>0, <1>12, <2>1, <2>2, <2>3, OutsideFrame DEF WaitResume, TypeOK, Threads
<1>13. ASSUME NEW t \in Waiters, WaitCas2(t)
       PROVE  Outside'
  <2>1. \A s \in Signalers : saw[s] = "outside" => rec[s] # rec[t]
    BY <1>13 DEF WaitCas2, InWait, Outside
  <2>2. /\ pc' = [pc EXCEPT ![t] = "idle"] /\ rec' = [rec EXCEPT ![t] = NULL]
        /\ thdl' = [thdl EXCEPT ![rec[t]] = NO_ONE]
    BY <1>13 DEF WaitCas2, Waits
  <2>3. \A r \in Receptors : r # rec[t] => thdl'[r] = thdl[r]
    BY <2>2 DEF TypeOK
  <2>4. \A u \in Waiters, r \in Receptors : InWait(u, r)' => InWait(u, r)
    BY <2>2 DEF InWait, TypeOK, Threads
  <2>5. \A s \in Signalers : pc'[s] = pc[s] /\ rec'[s] = rec[s]
    BY <2>2 DEF TypeOK, Threads
  <2>6. QED
    BY <1>0, <1>13, <2>1, <2>3, <2>4, <2>5, OutsideFrame DEF WaitCas2
<1>14. ASSUME NEW s \in Signalers, NEW r \in given, SignalStart(s, r)
       PROVE  Outside'
  <2>1. \A u \in Waiters : pc'[u] = pc[u] /\ rec'[u] = rec[u]
    BY <1>14 DEF SignalStart, TypeOK, Threads
  <2>2. \A q \in Receptors, u \in Waiters : InWait(u, q)' = InWait(u, q)
    BY <2>1 DEF InWait
  <2>3. r \in Receptors /\ pc'[s] = "cas" /\ rec'[s] = r /\ exp'[s] = NO_ONE
    BY <1>14 DEF SignalStart, FirstExpected, TypeOK, Threads
  <2>4. saw'[s] = "outside" => state[r] = "ACTIVE" /\ \A u \in Waiters : ~InWait(u, r)
    BY <1>14 DEF SignalStart, TypeOK
  <2>5. \A o \in Signalers \ {s} :
          pc'[o] = pc[o] /\ rec'[o] = rec[o] /\ exp'[o] = exp[o] /\ saw'[o] = saw[o]
    BY <1>14 DEF SignalStart, TypeOK, Threads
  <2>6. UNCHANGED <<state, thdl>>
    BY <1>14 DEF SignalStart
  <2>7. QED
    BY <2>2, <2>3, <2>4, <2>5, <2>6 DEF Outside
<1>15. ASSUME NEW s \in Signalers, SignalCas(s)
       PROVE  Outside'
  <2>1. rec[s] \in Receptors /\ pc[s] = "cas" /\ UNCHANGED <<state, rec, saw>>
    BY <1>15 DEF SignalCas, TypeOK, Threads
  <2>2. \A q \in Receptors, u \in Waiters : InWait(u, q)' = InWait(u, q)
    BY <1>15 DEF SignalCas, InWait, TypeOK, Threads
  <2>3. \A o \in Signalers \ {s} : pc'[o] = pc[o] /\ exp'[o] = exp[o]
    BY <1>15 DEF SignalCas, TypeOK, Threads
  <2>4. \A q \in Receptors : thdl'[q] \in {thdl[q], SIGNALED}
    BY <1>15 DEF SignalCas, TypeOK
  <2>5. pc'[s] \in {"idle", "load"}
    BY <1>15 DEF SignalCas, TypeOK, Threads
  <2>6. saw[s] = "outside" => thdl'[rec[s]] = SIGNALED
    <3>1. SUFFICES ASSUME saw[s] = "outside" PROVE thdl'[rec[s]] = SIGNALED
      OBVIOUS
    <3>2. exp[s] = NO_ONE /\ \A u \in Waiters : thdl[rec[s]] # u
      BY <2>1, <3>1 DEF Outside, Handles, InWait
    <3>3. CASE thdl[rec[s]] = NO_ONE
      BY <1>15, <2>1, <3>2, <3>3 DEF SignalCas, TypeOK
    <3>4. CASE thdl[rec[s]] = SIGNALED
      BY <2>1, <2>4, <3>4
    <3>5. QED
      BY <2>1, <3>2, <3>3, <3>4 DEF TypeOK
  <2>7. QED
    BY <2>1, <2>2, <2>3, <2>4, <2>5, <2>6 DEF Outside
<1>16. ASSUME NEW s \in Signalers, SignalLoad(s)
       PROVE  Outside'
  <2>1. UNCHANGED <<state, thdl, rec, exp, saw>> /\ pc[s] = "load"
    BY <1>16 DEF SignalLoad
  <2>2. pc' = [pc EXCEPT ![s] = AfterLoad(thdl[rec[s]])]
    BY <1>16 DEF SignalLoad
  <2>3. \A q \in Receptors, u \in Waiters : InWait(u, q)' = InWait(u, q)
    BY <2>1, <2>2 DEF InWait, TypeOK, Threads
  <2>4. saw[s] = "outside" => pc'[s] = "idle"
    BY <2>1, <2>2 DEF Outside, AfterLoad, TypeOK, Threads
  <2>5. \A o \in Signalers \ {s} : pc'[o] = pc[o]
    BY <2>2 DEF TypeOK, Threads
  <2>6. QED
    BY <2>1, <2>3, <2>4, <2>5 DEF Outside
<1>17. ASSUME NEW s \in Signalers, SignalWake(s)
       PROVE  Outside'
  <2>1. UNCHANGED <<state, thdl, rec, exp>> /\ pc[s] = "wake"
    BY <1>17 DEF SignalWake
  <2>2. pc' = [pc EXCEPT ![s] = "idle"] /\ \A o \in Signalers : saw'[o] \in {"none", saw[o]}
    BY <1>17 DEF SignalWake
  <2>3. \A q \in Receptors, u \in Waiters : InWait(u, q)' = InWait(u, q)
    BY <2>1, <2>2 DEF InWait, TypeOK, Threads
  <2>4. saw[s] # "outside"
    BY <2>1 DEF Outside
  <2>5. \A o \in Signalers \ {s} : pc'[o] = pc[o]
    BY <2>2 DEF TypeOK, Threads
  <2>6. QED
    BY <2>1, <2>2, <2>3, <2>4, <2>5 DEF Outside
<1>18. CASE UNCHANGED vars
  BY <1>18, OutsideFrame DEF vars, InWait
<1>19. QED
  BY <1>1, <1>2, <1>3, <1>4, <1>5, <1>6, <1>7, <1>8, <1>9, <1>10, <1>11, <1>12, <1>13,
     <1>14, <1>15, <1>16, <1>17, <1>18 DEF Next, WaiterStep, SignalerStep

-----------------------------------------------------------------------------
(* Sleeps: a signal to a thread that sleeps                                *)

\* The thread t sleeps on r and can be found there.
SleepsOn(t, r) == Asleep(t, r) /\ thdl[r] = t

\* A signal that began while a thread slept is not over as long as that sleeps:
\* neither it nor a later signal of the receptor takes the thread's handle away,
\* and the one that loaded the handle is about to wake the thread.
Sleeps ==
  \A s \in Signalers :
    saw[s] = "asleep" =>
      /\ pc[s] # "idle" /\ rec[s] \in Receptors
      /\ \E t \in Waiters :
           /\ SleepsOn(t, rec[s])
           /\ \A o \in Signalers :
                rec[o] = rec[s] => /\ pc[o] = "cas" => exp[o] = NO_ONE
                                   /\ pc[o] = "wake" => seen[o] = t

\* A step that leaves the signals and the sleepers alone.
LEMMA SleepsFrame ==
  ASSUME Sleeps, UNCHANGED <<exp, seen>>,
         \A s \in Signalers : pc'[s] = pc[s] /\ rec'[s] = rec[s],
         \A s \in Signalers : saw'[s] = "asleep" => saw[s] = "asleep",
         \A t \in Waiters, r \in Receptors : SleepsOn(t, r) => SleepsOn(t, r)'
  PROVE  Sleeps'
BY DEF Sleeps

\* A step of a waiter is one: it is ready, and only its own place, receptor and the
\* handle in that change, with no other thread made ready.
LEMMA SleepsWaiter ==
  ASSUME TypeOK, Ownership, Sleeps, NEW w \in Waiters, w \in ready, UNCHANGED <<exp, seen>>,
         ready' = ready \/ ready' = ready \ {w},
         \A t \in Threads \ {w} : pc'[t] = pc[t] /\ rec'[t] = rec[t],
         \A r \in Receptors : thdl'[r] = thdl[r] \/ (Busy(w) /\ r = rec[w]),
         \A s \in Signalers : saw'[s] = "asleep" => saw[s] = "asleep"
  PROVE  Sleeps'
<1>1. ASSUME NEW t \in Waiters, NEW r \in Receptors, SleepsOn(t, r)
      PROVE  SleepsOn(t, r)'
  <2>1. t # w /\ t \notin ready /\ pc[t] = "resume" /\ rec[t] = r /\ thdl[r] = t
    BY <1>1 DEF SleepsOn, Asleep
  <2>2. pc'[t] = "resume" /\ rec'[t] = r /\ t \notin ready'
    BY <2>1 DEF Threads
  <2>3. Busy(w) => rec[w] # r
    BY <2>1, Apart DEF Busy
  <2>4. thdl'[r] = t
    BY <2>1, <2>3
  <2>5. QED
    BY <2>2, <2>4 DEF SleepsOn, Asleep
<1>2. \A s \in Signalers : pc'[s] = pc[s] /\ rec'[s] = rec[s]
  BY ReceptorAssumption DEF Threads
<1>3. QED
  BY <1>1, <1>2, SleepsFrame

\* Nothing but the wake-up ends the sleep of a thread that a signal met.
LEMMA SleepsNext ==
  ASSUME TypeOK, Ownership, Handles, Waits, Sleeps, [Next]_vars
  PROVE  Sleeps'
<1> USE ReceptorAssumption DEF Goto, At, poolVars, signalVars
<1>1. ASSUME NEW t \in Waiters, GetStart(t)
      PROVE  Sleeps'
  BY <1>1, SleepsWaiter DEF GetStart, TypeOK, Threads
<1>2. ASSUME NEW t \in Waiters, GetCas(t)
      PROVE  Sleeps'
  BY <1>2, SleepsWaiter DEF GetCas, TypeOK, Threads
<1>3. ASSUME NEW t \in Waiters, GetNext(t)
      PROVE  Sleeps'
  BY <1>3, SleepsWaiter DEF GetNext, TypeOK, Threads
<1>4. ASSUME NEW t \in Waiters, GetClear(t)
      PROVE  Sleeps'
  BY <1>4, SleepsWaiter DEF GetClear, Busy, TypeOK, Threads
<1>5. ASSUME NEW t \in Waiters, GetActivate(t)
      PROVE  Sleeps'
  BY <1>5, SleepsWaiter DEF GetActivate, TypeOK, Threads
<1>6. ASSUME NEW t \in Waiters, NEW r \in held[t], RetCas(t, r)
      PROVE  Sleeps'
  BY <1>6, SleepsWaiter DEF RetCas, Forget, TypeOK, Threads
<1>7. ASSUME NEW t \in Waiters, NEW r \in held[t], WaitStart(t, r)
      PROVE  Sleeps'
  BY <1>7, SleepsWaiter DEF WaitStart, Forget, TypeOK, Threads
<1>8. ASSUME NEW t \in Waiters, RetClear(t)
      PROVE  Sleeps'
  BY <1>8, SleepsWaiter DEF RetClear, Busy, TypeOK, Threads
<1>9. ASSUME NEW t \in Waiters, RetFree(t)
      PROVE  Sleeps'
  BY <1>9, SleepsWaiter DEF RetFree, TypeOK, Threads
<1>10. ASSUME NEW t \in Waiters, WaitCas(t)
       PROVE  Sleeps'
  <2>1. \A r \in Receptors : thdl'[r] = thdl[r] \/ r = rec[t]
    BY <1>10 DEF WaitCas, TypeOK
  <2>2. \A u \in Threads \ {t} : pc'[u] = pc[u]
    BY <1>10 DEF WaitCas, TypeOK
  <2>3. QED
    BY <1>10, <2>1, <2>2, SleepsWaiter DEF WaitCas, Busy
<1>11. ASSUME NEW t \in Waiters, WaitSleep(t)
       PROVE  Sleeps'
  BY <1>11, SleepsWaiter DEF WaitSleep, TypeOK, Threads
<1>12. ASSUME NEW t \in Waiters, WaitResume(t)
       PROVE  Sleeps'
  BY <1>12, SleepsWaiter DEF WaitResume, NoLongerWaiting, Busy, TypeOK, Threads
<1>13. ASSUME NEW t \in Waiters, WaitCas2(t)
       PROVE  Sleeps'
  <2>1. /\ pc' = [pc EXCEPT ![t] = "idle"] /\ rec' = [rec EXCEPT ![t] = NULL]
        /\ thdl' = [thdl EXCEPT ![rec[t]] = NO_ONE]
    BY <1>13 DEF WaitCas2, Waits
  <2>2. QED
    BY <1>13, <2>1, SleepsWaiter DEF WaitCas2, Busy, TypeOK, Threads
<1>14. ASSUME NEW s \in Signalers, NEW r \in given, SignalStart(s, r)
       PROVE  Sleeps'
  <2>1. \A t \in Waiters, q \in Receptors : SleepsOn(t, q)' = SleepsOn(t, q)
    BY <1>14 DEF SignalStart, SleepsOn, Asleep, TypeOK, Threads
  <2>2. r \in Receptors /\ pc'[s] = "cas" /\ rec'[s] = r /\ exp'[s] = NO_ONE
    BY <1>14 DEF SignalStart, FirstExpected, TypeOK, Threads
  <2>3. \A o \in Signalers \ {s} :
          /\ pc'[o] = pc[o] /\ rec'[o] = rec[o] /\ saw'[o] = saw[o]
          /\ exp'[o] = exp[o] /\ seen'[o] = seen[o]
    BY <1>14 DEF SignalStart, TypeOK, Threads
  <2>4. saw'[s] = "asleep" =>
          /\ \E t \in Waiters : SleepsOn(t, r)
          /\ \A o \in Signalers : rec[o] = r => pc[o] = "idle"
    BY <1>14 DEF SignalStart, SleepsOn, Signaling, TypeOK
  <2>5. QED
    BY <2>1, <2>2, <2>3, <2>4 DEF Sleeps
<1>15. ASSUME NEW s \in Signalers, SignalCas(s)
       PROVE  Sleeps'
  <2>1. rec[s] \in Receptors /\ pc[s] = "cas" /\ UNCHANGED <<rec, saw, seen, ready>>
    BY <1>15 DEF SignalCas, TypeOK, Threads
  <2>2. \A o \in Signalers \ {s} : pc'[o] = pc[o] /\ exp'[o] = exp[o]
    BY <1>15 DEF SignalCas, TypeOK, Threads
  <2>3. \A t \in Waiters : pc'[t] = pc[t]
    BY <1>15 DEF SignalCas, TypeOK, Threads
  <2>4. ASSUME NEW o \in Signalers, saw[o] = "asleep", NEW t \in Waiters,
               SleepsOn(t, rec[o]), rec[o] \in Receptors,
               \A q \in Signalers :
                 rec[q] = rec[o] => /\ pc[q] = "cas" => exp[q] = NO_ONE
                                    /\ pc[q] = "wake" => seen[q] = t
        PROVE  /\ pc'[s] \in {"idle", "load"}
               /\ rec[o] = rec[s] => pc'[s] = "load"
               /\ SleepsOn(t, rec[o])'
    <3>1. pc'[s] \in {"idle", "load"}
      BY <1>15 DEF SignalCas, TypeOK, Threads
    <3>2. rec[o] = rec[s] => thdl[rec[s]] # exp[s]
      BY <2>1, <2>4 DEF SleepsOn, Threads
    <3>3. rec[o] = rec[s] => pc'[s] = "load"
      BY <1>15, <3>2 DEF SignalCas, TypeOK, Threads
    <3>4. thdl'[rec[o]] = thdl[rec[o]]
      BY <1>15, <2>4, <3>2 DEF SignalCas, TypeOK
    <3>5. QED
      BY <2>1, <2>3, <2>4, <3>1, <3>3, <3>4 DEF SleepsOn, Asleep
  <2>5. QED
    <3>1. SUFFICES ASSUME NEW o \in Signalers, saw[o] = "asleep"
                   PROVE  /\ pc'[o] # "idle" /\ rec[o] \in Receptors
                          /\ \E t \in Waiters :
                               /\ SleepsOn(t, rec[o])'
                               /\ \A q \in Signalers :
                                    rec[q] = rec[o] => /\ pc'[q] = "cas" => exp'[q] = NO_ONE
                                                       /\ pc'[q] = "wake" => seen[q] = t
      BY <2>1 DEF Sleeps
    <3>2. PICK t \in Waiters :
            /\ SleepsOn(t, rec[o])
            /\ \A q \in Signalers :
                 rec[q] = rec[o] => /\ pc[q] = "cas" => exp[q] = NO_ONE
                                    /\ pc[q] = "wake" => seen[q] = t
      BY <3>1 DEF Sleeps
    <3>3. pc[o] # "idle" /\ rec[o] \in Receptors
      BY <3>1 DEF Sleeps
    <3>4. /\ pc'[s] \in {"idle", "load"} /\ (rec[o] = rec[s] => pc'[s] = "load")
          /\ SleepsOn(t, rec[o])'
      BY <2>4, <3>1, <3>2, <3>3
    <3>5. QED
      BY <2>2, <3>2, <3>3, <3>4
<1>16. ASSUME NEW s \in Signalers, SignalLoad(s)
       PROVE  Sleeps'
  <2>1. UNCHANGED <<thdl, rec, exp, saw, ready>> /\ pc[s] = "load" /\ rec[s] \in Receptors
    BY <1>16 DEF SignalLoad, TypeOK, Threads
  <2>2. pc' = [pc EXCEPT ![s] = AfterLoad(thdl[rec[s]])] /\ seen'[s] = thdl[rec[s]]
    BY <1>16 DEF SignalLoad, TypeOK
  <2>3. \A o \in Signalers \ {s} : pc'[o] = pc[o] /\ seen'[o] = seen[o]
    BY <1>16 DEF SignalLoad, TypeOK, Threads
  <2>4. \A t \in Waiters, q \in Receptors : SleepsOn(t, q)' = SleepsOn(t, q)
    BY <2>1, <2>2 DEF SleepsOn, Asleep, TypeOK, Threads
  <2>5. \A t \in Waiters : SleepsOn(t, rec[s]) => pc'[s] = "wake" /\ seen'[s] = t
    BY <2>1, <2>2 DEF SleepsOn, AfterLoad, TypeOK, Threads
  <2>6. QED
    <3>1. SUFFICES ASSUME NEW o \in Signalers, saw[o] = "asleep"
                   PROVE  /\ pc'[o] # "idle" /\ rec[o] \in Receptors
                          /\ \E t \in Waiters :
                               /\ SleepsOn(t, rec[o])'
                               /\ \A q \in Signalers :
                                    rec[q] = rec[o] => /\ pc'[q] = "cas" => exp[q] = NO_ONE
                                                       /\ pc'[q] = "wake" => seen'[q] = t
      BY <2>1 DEF Sleeps
    <3>2. PICK t \in Waiters :
            /\ SleepsOn(t, rec[o])
            /\ \A q \in Signalers :
                 rec[q] = rec[o] => /\ pc[q] = "cas" => exp[q] = NO_ONE
                                    /\ pc[q] = "wake" => seen[q] = t
      BY <3>1 DEF Sleeps
    <3>3. pc[o] # "idle" /\ rec[o] \in Receptors
      BY <3>1 DEF Sleeps
    <3>4. rec[s] = rec[o] => pc'[s] = "wake" /\ seen'[s] = t
      BY <2>5, <3>2
    <3>5. SleepsOn(t, rec[o])'
      BY <2>1, <2>4, <3>2, <3>3
    <3>6. ASSUME NEW q \in Signalers, rec[q] = rec[o]
          PROVE  /\ pc'[q] = "cas" => exp[q] = NO_ONE
                 /\ pc'[q] = "wake" => seen'[q] = t
      <4>1. CASE q = s
        BY <3>4, <3>6, <4>1
      <4>2. CASE q # s
        BY <2>3, <3>2, <3>6, <4>2
      <4>3. QED
        BY <4>1, <4>2
    <3>7. pc'[o] # "idle"
      <4>1. CASE o = s
        BY <3>4, <4>1
      <4>2. CASE o # s
        BY <2>3, <3>3, <4>2
      <4>3. QED
        BY <4>1, <4>2
    <3>8. QED
      BY <3>3, <3>5, <3>6, <3>7
<1>17. ASSUME NEW s \in Signalers, SignalWake(s)
       PROVE  Sleeps'
  <2>1. UNCHANGED <<thdl, rec, exp, seen>> /\ pc[s] = "wake" /\ ready' = ready \cup {seen[s]}
    BY <1>17 DEF SignalWake
  <2>2. pc' = [pc EXCEPT ![s] = "idle"]
    BY <1>17 DEF SignalWake
  <2>3. \A o \in Signalers :
          saw'[o] = "asleep" => saw[o] = "asleep" /\ ~Asleep(seen[s], rec[o])
    BY <1>17 DEF SignalWake
  <2>4. \A o \in Signalers \ {s} : pc'[o] = pc[o]
    BY <2>2 DEF TypeOK, Threads
  <2>5. \A t \in Waiters, q \in Receptors :
          t # seen[s] /\ SleepsOn(t, q) => SleepsOn(t, q)'
    BY <2>1, <2>2 DEF SleepsOn, Asleep, TypeOK, Threads
  <2>6. QED
    <3>1. SUFFICES ASSUME NEW o \in Signalers, saw'[o] = "asleep"
                   PROVE  /\ pc'[o] # "idle" /\ rec[o] \in Receptors
                          /\ \E t \in Waiters :
                               /\ SleepsOn(t, rec[o])'
                               /\ \A q \in Signalers :
                                    rec[q] = rec[o] => /\ pc'[q] = "cas" => exp[q] = NO_ONE
                                                       /\ pc'[q] = "wake" => seen[q] = t
      BY <2>1 DEF Sleeps
    <3>2. saw[o] = "asleep" /\ ~Asleep(seen[s], rec[o])
      BY <2>3, <3>1
    <3>3. PICK t \in Waiters :
            /\ SleepsOn(t, rec[o])
            /\ \A q \in Signalers :
                 rec[q] = rec[o] => /\ pc[q] = "cas" => exp[q] = NO_ONE
                                    /\ pc[q] = "wake" => seen[q] = t
      BY <3>2 DEF Sleeps
    <3>4. pc[o] # "idle" /\ rec[o] \in Receptors
      BY <3>2 DEF Sleeps
    <3>5. t # seen[s]
      BY <3>2, <3>3 DEF SleepsOn
    <3>6. rec[s] # rec[o]
      BY <2>1, <3>3, <3>5
    <3>7. SleepsOn(t, rec[o])'
      BY <2>1, <2>5, <3>3, <3>4, <3>5
    <3>8. ASSUME NEW q \in Signalers, rec[q] = rec[o]
          PROVE  /\ pc'[q] = "cas" => exp[q] = NO_ONE
                 /\ pc'[q] = "wake" => seen[q] = t
      BY <2>4, <3>3, <3>6, <3>8
    <3>9. pc'[o] # "idle"
      BY <2>4, <3>4, <3>6
    <3>10. QED
      BY <3>4, <3>7, <3>8, <3>9
<1>18. CASE UNCHANGED vars
  BY <1>18, SleepsFrame DEF vars, SleepsOn, Asleep
<1>19. QED
  BY <1>1, <1>2, <1>3, <1>4, <1>5, <1>6, <1>7, <1>8, <1>9, <1>10, <1>11, <1>12, <1>13,
     <1>14, <1>15, <1>16, <1>17, <1>18 DEF Next, WaiterStep, SignalerStep


-----------------------------------------------------------------------------
(* The theorems                                                            *)

\* The inductive invariant.
IInv == TypeOK /\ Ownership /\ Handles /\ Waits /\ Outside /\ Sleeps

\* What the receptors keep to: the inductive invariant always holds, for any number
\* of receptors, waiters and signalers (AcReceptor_get, _ret, _wait and _signal).
THEOREM ReceptorSafe == Spec => []IInv
<1>1. Init => IInv
  <2>1. ASSUME Init PROVE IInv
    <3>1. TypeOK
      BY <2>1, TypeOKInit
    <3>2. \A t \in Waiters : held[t] = {} /\ pc[t] = "idle"
      BY <2>1 DEF Init, Threads
    <3>3. Ownership /\ Waits
      BY <3>2 DEF Ownership, OneHolder, Places, Has, Waits
    <3>4. Handles
      BY <2>1, ReceptorAssumption DEF Init, Handles, Threads
    <3>5. Outside /\ Sleeps
      BY <2>1 DEF Init, Outside, Sleeps
    <3>6. QED
      BY <3>1, <3>3, <3>4, <3>5 DEF IInv
  <2>2. QED
    BY <2>1
<1>2. IInv /\ [Next]_vars => IInv'
  BY TypeOKNext, OwnershipNext, HandlesNext, OutsideNext, SleepsNext DEF IInv
<1>3. QED
  BY <1>1, <1>2, PTL DEF Spec

\* The variables have their types, and only waiters sleep.
THEOREM TypesKept == Spec => []TypeOK
<1>1. IInv => TypeOK
  BY DEF IInv
<1>2. QED
  BY <1>1, ReceptorSafe, PTL

\* AcReceptor_get gives a receptor to one thread until it is returned.
THEOREM ReceptorsHaveOneHolder == Spec => []OneHolder
<1>1. IInv => OneHolder
  BY DEF IInv, Ownership
<1>2. QED
  BY <1>1, ReceptorSafe, PTL

\* AcReceptor_wait never fails when each thread waits on its own receptors.
THEOREM WaitsNeverFail == Spec => []WaitNeverFails
<1>1. IInv => WaitNeverFails
  BY DEF IInv, Waits, WaitNeverFails
<1>2. QED
  BY <1>1, ReceptorSafe, PTL

\* A signal that AcReceptor_signal finished while its thread was not in a wait is
\* there when the thread waits next.
THEOREM SignalsAreKept == Spec => []SignalIsKept
<1>1. IInv => SignalIsKept
  BY DEF IInv, Outside, SignalIsKept
<1>2. QED
  BY <1>1, ReceptorSafe, PTL

\* A signal that met a sleeping thread does not return before that is ready.
THEOREM SignalsWake == Spec => []SignalWakes
<1>1. IInv => SignalWakes
  BY DEF IInv, Sleeps, SignalWakes
<1>2. QED
  BY <1>1, ReceptorSafe, PTL
=============================================================================
