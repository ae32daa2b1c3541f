-------------------------- MODULE LivePartsProofs ---------------------------
(***************************************************************************)
(* Proofs about the parts of MCLiveParts, one section for each: what TLC   *)
(* checks of a part there for the constants of its configuration is proved *)
(* here for all constants that satisfy the part's assumption.  The parts   *)
(* do not interact, and each theorem is about the behaviours of one part:  *)
(* Ready!Spec, Intr!Spec, Irq!Spec, Buff!Spec, Arm!Spec, Keyb!Spec and, of *)
(* the part that MCLiveParts extends, Spec.                                *)
(***************************************************************************)
EXTENDS MCLiveParts, FiniteSetTheorems, SequenceTheorems, WellFoundedInduction, TLAPS

-----------------------------------------------------------------------------
(* Threads of Posix, for any number of creators, calls and slots.  A tcb is *)
(* taken by a creator, from its compare and exchange until the thread is made *)
(* or its failure is noted, and then by the thread until it ends: Tcbs says that *)
(* these never overlap.  Calls says what a call that is not over has made so far, *)
(* from which the status it returns follows.  A thread that is made by a call *)
(* which failed before is no part of this: once there is one, nothing more is *)
(* claimed.                                                                *)

Pths == [slot : Slots, call : Nat, ran : Nat, at : {"new", "run", "ended"}, retried : BOOLEAN]

TypeOK ==
  /\ tid \in [Slots -> {"empty", "not_empty", "id"}]
  /\ entry \in [Slots -> Nat]
  /\ cpc \in [Creators -> {"idle", "find", "create", "assert", "decide"}]
  /\ call \in [Creators -> [n : Nat, i : Nat, error : BOOLEAN]]
  /\ calls \in Nat
  /\ pths \in Seq(Pths)
  /\ results \in Seq([call : Nat, status : Nat])

\* The index of a call that has claimed a slot is that slot's.
InSlots ==
  \A c \in Creators : cpc[c] \in {"create", "assert", "decide"} => call[c].i \in Slots

NoRetry == \A k \in DOMAIN pths : ~pths[k].retried

\* Thread k has not ended.
Lives(k) == pths[k].at # "ended"

\* Creator c has claimed the slot of its index, and made no thread there yet.
Claims(c) ==
  \/ cpc[c] = "create"
  \/ cpc[c] \in {"assert", "decide"} /\ call[c].error

\* A slot that is taken is a creator's or a thread's, and holds the entry of the
\* thread that is to run there.
Tcbs ==
  /\ \A c \in Creators : Claims(c) => tid[call[c].i] # "empty"
  /\ \A c, d \in Creators : Claims(c) /\ Claims(d) /\ call[c].i = call[d].i => c = d
  /\ \A c \in Creators, k \in DOMAIN pths :
       Claims(c) /\ Lives(k) => pths[k].slot # call[c].i
  /\ \A k, m \in DOMAIN pths :
       pths[k].slot = pths[m].slot /\ Lives(k) /\ Lives(m) => k = m
  /\ \A c \in Creators : cpc[c] = "create" => entry[call[c].i] = call[c].n
  /\ \A k \in DOMAIN pths :
       /\ Lives(k) => tid[pths[k].slot] = "id" /\ entry[pths[k].slot] = pths[k].call
       /\ pths[k].ran \in {NoEntry, pths[k].call}

\* The call numbered n made a thread.
Made(n) == \E k \in DOMAIN pths : pths[k].call = n

\* A call that is not over has a number of its own and no result; it has made a
\* thread when it is past pthread_create without an error.
Calls ==
  /\ \A k \in DOMAIN pths : pths[k].call <= calls
  /\ \A j \in DOMAIN results : results[j].call <= calls
  /\ \A c \in Creators : cpc[c] # "idle" =>
       /\ call[c].n <= calls
       /\ \A d \in Creators : cpc[d] # "idle" /\ call[c].n = call[d].n => c = d
       /\ \A j \in DOMAIN results : results[j].call # call[c].n
       /\ Made(call[c].n) <=> cpc[c] \in {"assert", "decide"} /\ ~call[c].error
  /\ \A j \in DOMAIN results : (results[j].status = 0) <=> Made(results[j].call)

IInv == TypeOK /\ InSlots /\ (NoRetry => Tcbs /\ Calls)

-----------------------------------------------------------------------------

\* ac_thread_init establishes the invariant.
LEMMA InitIInv == ASSUME MaxThreads \in Nat PROVE Init => IInv
BY DEF Init, IInv, TypeOK, InSlots, NoRetry, Tcbs, Calls, Claims, Lives, Made, Slots, NoEntry,
   Pths

\* What Append does to a sequence.
LEMMA Appended ==
  ASSUME NEW S, NEW s \in Seq(S), NEW e \in S
  PROVE  /\ Append(s, e) \in Seq(S)
         /\ DOMAIN Append(s, e) = DOMAIN s \cup {Len(s) + 1}
         /\ Len(s) + 1 \notin DOMAIN s
         /\ \A i \in DOMAIN s : Append(s, e)[i] = s[i]
         /\ Append(s, e)[Len(s) + 1] = e
OBVIOUS

\* What an assignment to a field of an element does to a sequence.
LEMMA Changed ==
  ASSUME NEW S, NEW s \in Seq(S), NEW i \in DOMAIN s, NEW e \in S
  PROVE  /\ [s EXCEPT ![i] = e] \in Seq(S)
         /\ DOMAIN [s EXCEPT ![i] = e] = DOMAIN s
         /\ \A j \in DOMAIN s \ {i} : [s EXCEPT ![i] = e][j] = s[j]
         /\ [s EXCEPT ![i] = e][i] = e
OBVIOUS

\* A call's record stays one.
LEMMA CallRecord ==
  ASSUME NEW r \in [n : Nat, i : Nat, error : BOOLEAN]
  PROVE  /\ [r EXCEPT !.i = @ + 1] \in [n : Nat, i : Nat, error : BOOLEAN]
         /\ [r EXCEPT !.error = TRUE] \in [n : Nat, i : Nat, error : BOOLEAN]
<1>1. [r EXCEPT !.i = @ + 1] \in [n : Nat, i : Nat, error : BOOLEAN]
  OBVIOUS
<1>2. [r EXCEPT !.error = TRUE] \in [n : Nat, i : Nat, error : BOOLEAN]
  OBVIOUS
<1>3. QED
  BY <1>1, <1>2

-----------------------------------------------------------------------------
(* The types                                                               *)

\* Every step leaves the variables with their types.
LEMMA NextTypeOK ==
  ASSUME TypeOK, InSlots, [Next]_tpvars
  PROVE  TypeOK'
<1> USE DEF TypeOK, Step
<1>1. ASSUME NEW c \in Creators, Create(c)
      PROVE  TypeOK'
  BY <1>1 DEF Create
<1>2. ASSUME NEW c \in Creators, BadStackSize(c)
      PROVE  TypeOK'
  <2>1. [call |-> calls + 1, status |-> 1] \in [call : Nat, status : Nat]
    OBVIOUS
  <2>2. results' \in Seq([call : Nat, status : Nat])
    BY <1>2, <2>1, Appended DEF BadStackSize
  <2>3. QED
    BY <1>2, <2>2 DEF BadStackSize
<1>3. ASSUME NEW c \in Creators, Claim(c)
      PROVE  TypeOK'
  <2>1. call[c].n \in Nat
    OBVIOUS
  <2>2. QED
    BY <1>3, <2>1 DEF Claim
<1>4. ASSUME NEW c \in Creators, Skip(c)
      PROVE  TypeOK'
  <2>1. [call[c] EXCEPT !.i = @ + 1] \in [n : Nat, i : Nat, error : BOOLEAN]
    <3>1. call[c] \in [n : Nat, i : Nat, error : BOOLEAN]
      OBVIOUS
    <3>2. QED
      BY <3>1, CallRecord
  <2>2. QED
    BY <1>4, <2>1 DEF Skip
<1>5. ASSUME NEW c \in Creators, NoSlot(c)
      PROVE  TypeOK'
  <2>1. [call |-> call[c].n, status |-> 1] \in [call : Nat, status : Nat]
    OBVIOUS
  <2>2. results' \in Seq([call : Nat, status : Nat])
    BY <1>5, <2>1, Appended DEF NoSlot
  <2>3. QED
    BY <1>5, <2>2 DEF NoSlot
<1>6. ASSUME NEW c \in Creators, PthreadCreate(c)
      PROVE  TypeOK'
  <2> DEFINE new == [slot |-> call[c].i, call |-> call[c].n, ran |-> NoEntry,
                     at |-> "new", retried |-> call[c].error]
  <2>1. new \in Pths
    BY <1>6 DEF PthreadCreate, Pths, NoEntry, InSlots
  <2>2. pths' \in Seq(Pths)
    <3> HIDE DEF new
    <3>1. pths' = Append(pths, new)
      BY <1>6 DEF PthreadCreate, new
    <3>2. QED
      BY <2>1, <3>1, Appended
  <2>3. QED
    BY <1>6, <2>2 DEF PthreadCreate, InSlots
<1>7. ASSUME NEW c \in Creators, PthreadFails(c)
      PROVE  TypeOK'
  <2>1. [call[c] EXCEPT !.error = TRUE] \in [n : Nat, i : Nat, error : BOOLEAN]
    <3>1. call[c] \in [n : Nat, i : Nat, error : BOOLEAN]
      OBVIOUS
    <3>2. QED
      BY <3>1, CallRecord
  <2>2. QED
    BY <1>7, <2>1 DEF PthreadFails
<1>8. ASSUME NEW c \in Creators, Assert(c)
      PROVE  TypeOK'
  BY <1>8 DEF Assert
<1>9. ASSUME NEW c \in Creators, Decide(c)
      PROVE  TypeOK'
  <2>1. CASE Decides(c)
    <3>1. [call |-> call[c].n, status |-> 0] \in [call : Nat, status : Nat]
      OBVIOUS
    <3>2. /\ results' = Append(results, [call |-> call[c].n, status |-> 0])
          /\ cpc' = [cpc EXCEPT ![c] = "idle"]
          /\ UNCHANGED <<tid, call, entry, calls, pths>>
      BY <1>9, <2>1 DEF Decide
    <3>3. results' \in Seq([call : Nat, status : Nat])
      BY <3>1, <3>2, Appended
    <3>4. QED
      BY <3>2, <3>3
  <2>2. CASE ~Decides(c)
    <3>1. [call[c] EXCEPT !.i = @ + 1] \in [n : Nat, i : Nat, error : BOOLEAN]
      <4>1. call[c] \in [n : Nat, i : Nat, error : BOOLEAN]
        OBVIOUS
      <4>2. QED
        BY <4>1, CallRecord
    <3>2. /\ call' = [call EXCEPT ![c].i = @ + 1]
          /\ cpc' = [cpc EXCEPT ![c] = "find"]
          /\ tid' = [tid EXCEPT ![call[c].i] = "empty"]
          /\ UNCHANGED <<results, entry, calls, pths>>
      BY <1>9, <2>2 DEF Decide
    <3>3. QED
      BY <3>1, <3>2
  <2>3. QED
    BY <2>1, <2>2
<1>10. ASSUME NEW k, Invoke(k)
       PROVE  TypeOK'
  <2>1. k \in DOMAIN pths
    BY <1>10 DEF Invoke, Thread
  <2>2. pths[k] \in Pths
    BY <2>1
  <2>7. pths[k].slot \in Slots /\ entry[pths[k].slot] \in Nat
    BY <2>2 DEF Pths
  <2> DEFINE new == [pths[k] EXCEPT !.at = "run", !.ran = entry[pths[k].slot]]
  <2>3. new \in Pths
    BY <2>2, <2>7 DEF Pths
  <2>4. pths' = [pths EXCEPT ![k] = new]
    BY <1>10 DEF Invoke
  <2>5. pths' \in Seq(Pths)
    BY <2>1, <2>3, <2>4, Changed
  <2>6. QED
    BY <1>10, <2>5 DEF Invoke, Thread
<1>11. ASSUME NEW k, Return(k)
       PROVE  TypeOK'
  <2>1. k \in DOMAIN pths
    BY <1>11 DEF Return, Thread
  <2>2. pths[k] \in Pths
    BY <2>1
  <2> DEFINE new == [pths[k] EXCEPT !.at = "ended"]
  <2>3. new \in Pths
    BY <2>2 DEF Pths
  <2>4. pths' = [pths EXCEPT ![k] = new]
    BY <1>11, <2>1 DEF Return
  <2>5. pths' \in Seq(Pths)
    BY <2>1, <2>3, <2>4, Changed
  <2>6. pths[k].slot \in Slots
    BY <2>2 DEF Pths
  <2>7. QED
    BY <1>11, <2>5, <2>6 DEF Return, Thread
<1>12. CASE UNCHANGED tpvars
  BY <1>12 DEF tpvars
<1>13. QED
  BY <1>1, <1>2, <1>3, <1>4, <1>5, <1>6, <1>7, <1>8, <1>9, <1>10, <1>11, <1>12
  DEF Next, Creator

\* An index is that of a claimed slot as long as the call needs it.
LEMMA NextInSlots ==
  ASSUME TypeOK, InSlots, [Next]_tpvars
  PROVE  InSlots'
<1> USE DEF TypeOK, InSlots, Step
<1>1. ASSUME NEW c \in Creators, Create(c) \/ BadStackSize(c) \/ Claim(c) \/ Skip(c) \/ NoSlot(c)
      PROVE  InSlots'
  BY <1>1 DEF Create, BadStackSize, Claim, Skip, NoSlot
<1>2. ASSUME NEW c \in Creators, PthreadCreate(c) \/ Assert(c)
      PROVE  InSlots'
  BY <1>2 DEF PthreadCreate, Assert
<1>6. ASSUME NEW c \in Creators, PthreadFails(c)
      PROVE  InSlots'
  <2>1. \A d \in Creators : call'[d].i = call[d].i
    BY <1>6 DEF PthreadFails
  <2>2. QED
    BY <1>6, <2>1 DEF PthreadFails
<1>3. ASSUME NEW c \in Creators, Decide(c)
      PROVE  InSlots'
  <2>1. CASE Decides(c)
    BY <1>3, <2>1 DEF Decide
  <2>2. CASE ~Decides(c)
    BY <1>3, <2>2 DEF Decide
  <2>3. QED
    BY <2>1, <2>2
<1>4. ASSUME NEW k, Invoke(k) \/ Return(k)
      PROVE  InSlots'
  BY <1>4 DEF Invoke, Return, Thread
<1>5. CASE UNCHANGED tpvars
  BY <1>5 DEF tpvars
<1>7. QED
  BY <1>1, <1>2, <1>3, <1>4, <1>5, <1>6 DEF Next, Creator

-----------------------------------------------------------------------------
(* The tcbs and the calls                                                  *)

\* What the types say of a thread.
LEMMA ThreadRecord ==
  ASSUME TypeOK
  PROVE  \A k \in DOMAIN pths : pths[k].slot \in Slots /\ pths[k].call \in Nat
<1>1. TAKE k \in DOMAIN pths
<1>2. pths[k] \in Pths
  BY DEF TypeOK
<1>3. QED
  BY <1>2 DEF Pths

\* A thread's own steps change where it is, and what it ran, and nothing else of
\* the threads.
LEMMA ThreadGoesOn ==
  ASSUME TypeOK, NEW k, Invoke(k) \/ Return(k)
  PROVE  /\ k \in DOMAIN pths
         /\ DOMAIN pths' = DOMAIN pths
         /\ \A j \in DOMAIN pths \ {k} : pths'[j] = pths[j]
         /\ pths'[k].slot = pths[k].slot
         /\ pths'[k].call = pths[k].call
         /\ pths'[k].retried = pths[k].retried
<1>1. k \in DOMAIN pths
  BY DEF Invoke, Return, Thread
<1>2. pths[k] \in Pths
  BY <1>1 DEF TypeOK
<1>3. CASE Invoke(k)
  <2> DEFINE new == [pths[k] EXCEPT !.at = "run", !.ran = entry[pths[k].slot]]
  <2>1. pths' = [pths EXCEPT ![k] = new]
    BY <1>3 DEF Invoke
  <2>2. new.slot = pths[k].slot /\ new.call = pths[k].call /\ new.retried = pths[k].retried
    BY <1>2 DEF Pths
  <2> HIDE DEF new
  <2>3. QED
    BY <1>1, <2>1, <2>2 DEF TypeOK
<1>4. CASE Return(k)
  <2> DEFINE new == [pths[k] EXCEPT !.at = "ended"]
  <2>1. pths' = [pths EXCEPT ![k] = new]
    BY <1>4 DEF Return
  <2>2. new.slot = pths[k].slot /\ new.call = pths[k].call /\ new.retried = pths[k].retried
    BY <1>2 DEF Pths
  <2> HIDE DEF new
  <2>3. QED
    BY <1>1, <2>1, <2>2 DEF TypeOK
<1>5. QED
  BY <1>3, <1>4

\* A thread that was made by a call which failed before stays one.
LEMMA NoRetryBefore ==
  ASSUME TypeOK, InSlots, NoRetry', [Next]_tpvars
  PROVE  NoRetry
<1>1. CASE UNCHANGED pths
  BY <1>1 DEF NoRetry
<1>2. ASSUME NEW c \in Creators, PthreadCreate(c)
      PROVE  NoRetry
  <2> DEFINE new == [slot |-> call[c].i, call |-> call[c].n, ran |-> NoEntry,
                     at |-> "new", retried |-> call[c].error]
  <2>1. pths' = Append(pths, new)
    BY <1>2 DEF PthreadCreate
  <2>2. DOMAIN pths \subseteq DOMAIN pths' /\ \A k \in DOMAIN pths : pths'[k] = pths[k]
    BY <2>1 DEF TypeOK
  <2>3. QED
    BY <2>2 DEF NoRetry
<1>3. ASSUME NEW k, Invoke(k) \/ Return(k)
      PROVE  NoRetry
  BY <1>3, ThreadGoesOn DEF NoRetry
<1>4. QED
  BY <1>1, <1>2, <1>3
  DEF Next, Creator, tpvars, Create, BadStackSize, Claim, Skip, NoSlot, PthreadFails, Assert,
  Decide

\* Steps that claim nothing, free nothing and make nothing leave the tcbs apart.
LEMMA TcbsStay ==
  ASSUME Tcbs, UNCHANGED <<tid, entry, pths>>,
         \A c \in Creators : Claims(c)' => Claims(c) /\ call'[c].i = call[c].i,
         \A c \in Creators : cpc'[c] = "create" => cpc[c] = "create" /\ call'[c] = call[c]
  PROVE  Tcbs'
BY DEF Tcbs, Lives

\* No step lets two of a tcb's users overlap, unless a call that failed goes on.
LEMMA NextTcbs ==
  ASSUME TypeOK, InSlots, NoRetry', Tcbs, [Next]_tpvars
  PROVE  Tcbs'
<1> USE DEF Step
<1>1. ASSUME NEW c \in Creators, Create(c) \/ BadStackSize(c) \/ Skip(c) \/ NoSlot(c) \/ Assert(c)
      PROVE  Tcbs'
  <2>1. UNCHANGED <<tid, entry, pths>>
    BY <1>1 DEF Create, BadStackSize, Skip, NoSlot, Assert
  <2>2. \A d \in Creators : Claims(d)' => Claims(d) /\ call'[d].i = call[d].i
    BY <1>1 DEF Create, BadStackSize, Skip, NoSlot, Assert, Claims, TypeOK
  <2>3. \A d \in Creators : cpc'[d] = "create" => cpc[d] = "create" /\ call'[d] = call[d]
    BY <1>1 DEF Create, BadStackSize, Skip, NoSlot, Assert, TypeOK
  <2>4. QED
    BY <2>1, <2>2, <2>3, TcbsStay
<1>2. ASSUME NEW c \in Creators, Claim(c)
      PROVE  Tcbs'
  <2>1. \A d \in Creators : Claims(d) => call[d].i # call[c].i /\ d # c
    BY <1>2 DEF Claim, Free, Tcbs, Claims
  <2>2. \A k \in DOMAIN pths : Lives(k) => pths[k].slot # call[c].i
    BY <1>2 DEF Claim, Free, Tcbs
  <2>3. /\ tid' = [tid EXCEPT ![call[c].i] = "not_empty"]
        /\ entry' = [entry EXCEPT ![call[c].i] = call[c].n]
        /\ cpc' = [cpc EXCEPT ![c] = "create"]
        /\ call[c].i \in Slots
        /\ UNCHANGED <<call, pths>>
    BY <1>2 DEF Claim
  <2>4. \A d \in Creators : Claims(d)' => d = c \/ Claims(d)
    BY <2>3 DEF Claims, TypeOK
  <2>5. \A k \in DOMAIN pths : pths[k].slot \in Slots
    BY ThreadRecord
  <2>6. \A d \in Creators : Claims(d)' => tid'[call'[d].i] # "empty"
    BY <2>1, <2>3, <2>4 DEF Tcbs, TypeOK, InSlots, Claims
  <2>7. \A d, e \in Creators : Claims(d)' /\ Claims(e)' /\ call'[d].i = call'[e].i => d = e
    BY <2>1, <2>3, <2>4 DEF Tcbs
  <2>8. \A d \in Creators, k \in DOMAIN pths :
          Claims(d)' /\ Lives(k) => pths[k].slot # call[d].i
    BY <2>2, <2>4 DEF Tcbs
  <2>9. \A d \in Creators : cpc'[d] = "create" => entry'[call[d].i] = call[d].n
    <3>1. \A d \in Creators : cpc'[d] = "create" => d = c \/ cpc[d] = "create"
      BY <2>3 DEF TypeOK
    <3>2. \A d \in Creators : cpc[d] = "create" => call[d].i # call[c].i /\ call[d].i \in Slots
      BY <2>1 DEF Claims, InSlots
    <3>3. QED
      BY <2>3, <3>1, <3>2 DEF Tcbs, TypeOK
  <2>10. \A k \in DOMAIN pths :
           Lives(k) => tid'[pths[k].slot] = "id" /\ entry'[pths[k].slot] = pths[k].call
    BY <2>2, <2>3, <2>5 DEF Tcbs, TypeOK
  <2>11. \A k \in DOMAIN pths : Lives(k)' <=> Lives(k)
    BY <2>3 DEF Lives
  <2>12. QED
    BY <2>3, <2>6, <2>7, <2>8, <2>9, <2>10, <2>11 DEF Tcbs
<1>3. ASSUME NEW c \in Creators, PthreadCreate(c)
      PROVE  Tcbs'
  <2> DEFINE new == [slot |-> call[c].i, call |-> call[c].n, ran |-> NoEntry,
                     at |-> "new", retried |-> call[c].error]
             last == Len(pths) + 1
  <2>1. /\ DOMAIN pths' = DOMAIN pths \cup {last} /\ last \notin DOMAIN pths
        /\ \A k \in DOMAIN pths : pths'[k] = pths[k]
        /\ pths'[last] = new
    <3>1. pths' = Append(pths, new)
      BY <1>3 DEF PthreadCreate
    <3>2. QED
      BY <3>1 DEF TypeOK
  <2>2. ~call[c].error
    BY <2>1 DEF NoRetry
  <2>3. Claims(c) /\ call[c].i \in Slots
    BY <1>3 DEF PthreadCreate, Claims, InSlots
  <2>4. /\ tid' = [tid EXCEPT ![call[c].i] = "id"]
        /\ cpc' = [cpc EXCEPT ![c] = "assert"]
        /\ UNCHANGED <<call, entry>>
    BY <1>3 DEF PthreadCreate
  <2>5. \A d \in Creators : Claims(d)' => d # c /\ Claims(d) /\ call[d].i # call[c].i
    BY <2>2, <2>3, <2>4 DEF Claims, TypeOK, Tcbs
  <2>6. \A k \in DOMAIN pths : Lives(k) => pths[k].slot # call[c].i
    BY <2>3 DEF Tcbs
  <2>7. \A k \in DOMAIN pths : pths[k].slot \in Slots
    BY ThreadRecord
  <2>8. \A k \in DOMAIN pths : Lives(k)' <=> Lives(k)
    BY <2>1 DEF Lives
  <2>9. entry[call[c].i] = call[c].n
    BY <1>3 DEF PthreadCreate, Tcbs
  <2>10. /\ new.slot = call[c].i /\ new.call = call[c].n /\ new.ran = NoEntry
    OBVIOUS
  <2> HIDE DEF new, last
  <2>11. \A d \in Creators : Claims(d)' => tid'[call'[d].i] # "empty"
    BY <2>4, <2>5 DEF Tcbs, InSlots, TypeOK, Claims
  <2>12. \A d, e \in Creators : Claims(d)' /\ Claims(e)' /\ call'[d].i = call'[e].i => d = e
    BY <2>4, <2>5 DEF Tcbs
  <2>13. \A d \in Creators, k \in DOMAIN pths' :
           Claims(d)' /\ Lives(k)' => pths'[k].slot # call'[d].i
    BY <2>1, <2>4, <2>5, <2>8, <2>10 DEF Tcbs
  <2>14. \A k, m \in DOMAIN pths' :
           pths'[k].slot = pths'[m].slot /\ Lives(k)' /\ Lives(m)' => k = m
    BY <2>1, <2>6, <2>8, <2>10 DEF Tcbs
  <2>15. \A d \in Creators : cpc'[d] = "create" => entry'[call'[d].i] = call'[d].n
    BY <2>4 DEF Tcbs, TypeOK
  <2>16. \A k \in DOMAIN pths' :
           /\ Lives(k)' => tid'[pths'[k].slot] = "id" /\ entry'[pths'[k].slot] = pths'[k].call
           /\ pths'[k].ran \in {NoEntry, pths'[k].call}
    BY <2>1, <2>3, <2>4, <2>7, <2>8, <2>9, <2>10 DEF Tcbs, TypeOK
  <2>17. QED
    BY <2>11, <2>12, <2>13, <2>14, <2>15, <2>16 DEF Tcbs
<1>4. ASSUME NEW c \in Creators, PthreadFails(c)
      PROVE  Tcbs'
  <2>1. PICK v \in {"not_empty", "id"} : tid' = [tid EXCEPT ![call[c].i] = v]
    BY <1>4 DEF PthreadFails
  <2>2. Claims(c) /\ call[c].i \in Slots
    BY <1>4 DEF PthreadFails, Claims, InSlots
  <2>3. /\ cpc' = [cpc EXCEPT ![c] = "assert"]
        /\ UNCHANGED <<entry, pths>>
        /\ \A d \in Creators : call'[d].i = call[d].i /\ call'[d].n = call[d].n
        /\ \A d \in Creators \ {c} : call'[d] = call[d]
    BY <1>4 DEF PthreadFails, TypeOK
  <2>4. \A d \in Creators : Claims(d)' => Claims(d)
    BY <2>2, <2>3 DEF Claims, TypeOK
  <2>5. \A k \in DOMAIN pths : pths[k].slot \in Slots
    BY ThreadRecord
  <2>6. QED
    BY <2>1, <2>2, <2>3, <2>4, <2>5 DEF Tcbs, TypeOK, Lives
<1>5. ASSUME NEW c \in Creators, Decide(c)
      PROVE  Tcbs'
  <2>1. CASE Decides(c)
    <3>1. UNCHANGED <<tid, entry, pths, call>> /\ cpc' = [cpc EXCEPT ![c] = "idle"]
      BY <1>5, <2>1 DEF Decide
    <3>2. \A d \in Creators : Claims(d)' => Claims(d)
      BY <3>1 DEF Claims, TypeOK
    <3>3. QED
      BY <3>1, <3>2, TcbsStay DEF TypeOK
  <2>2. CASE ~Decides(c)
    <3>1. /\ cpc[c] = "decide" /\ cpc' = [cpc EXCEPT ![c] = "find"]
          /\ tid' = [tid EXCEPT ![call[c].i] = "empty"]
          /\ \A d \in Creators \ {c} : call'[d] = call[d]
          /\ UNCHANGED <<entry, pths>>
      BY <1>5, <2>2 DEF Decide, TypeOK
    <3>2. Claims(c) /\ call[c].i \in Slots
      BY <2>2, <3>1 DEF Claims, Decides, InSlots
    <3>3. \A d \in Creators : Claims(d)' => d # c /\ Claims(d) /\ call[d].i # call[c].i
      BY <3>1, <3>2 DEF Claims, TypeOK, Tcbs
    <3>4. \A d \in Creators : cpc'[d] = "create" => d # c /\ cpc[d] = "create"
      BY <3>1 DEF TypeOK
    <3>5. \A k \in DOMAIN pths : Lives(k) => pths[k].slot # call[c].i
      BY <3>2 DEF Tcbs
    <3>6. \A k \in DOMAIN pths : pths[k].slot \in Slots
      BY ThreadRecord
    <3>7. \A d \in Creators : Claims(d) => call[d].i \in Slots
      BY DEF Claims, InSlots
    <3>8. QED
      BY <3>1, <3>2, <3>3, <3>4, <3>5, <3>6, <3>7 DEF Tcbs, TypeOK, Lives
  <2>3. QED
    BY <2>1, <2>2
<1>6. ASSUME NEW k, Invoke(k) \/ Return(k)
      PROVE  Tcbs'
  <2>1. UNCHANGED <<call, entry, cpc>> /\ Lives(k)
    BY <1>6 DEF Invoke, Return, Thread, Lives
  <2>2. \A j \in DOMAIN pths : Lives(j)' => Lives(j)
    BY <1>6, <2>1, ThreadGoesOn DEF Lives
  <2>3. \A j \in DOMAIN pths : pths'[j].slot = pths[j].slot /\ pths'[j].call = pths[j].call
    BY <1>6, ThreadGoesOn
  <2>4. \A c \in Creators : Claims(c)' <=> Claims(c)
    BY <2>1 DEF Claims
  <2>5. \A j \in DOMAIN pths : pths[j].slot \in Slots
    BY ThreadRecord
  <2>6. \A j \in DOMAIN pths : pths'[j].ran \in {NoEntry, pths[j].call}
    <3>1. CASE Invoke(k)
      <4>1. pths' = [pths EXCEPT ![k].at = "run", ![k].ran = entry[pths[k].slot]]
        BY <3>1 DEF Invoke
      <4>2. k \in DOMAIN pths /\ pths[k] \in Pths
        BY <1>6, ThreadGoesOn DEF TypeOK
      <4>3. pths'[k].ran = entry[pths[k].slot]
        BY <4>1, <4>2 DEF TypeOK, Pths
      <4>4. QED
        BY <1>6, <2>1, <4>2, <4>3, ThreadGoesOn DEF Tcbs
    <3>2. CASE Return(k)
      <4>1. pths' = [pths EXCEPT ![k].at = "ended"]
        BY <3>2 DEF Return
      <4>2. k \in DOMAIN pths /\ pths[k] \in Pths
        BY <1>6, ThreadGoesOn DEF TypeOK
      <4>3. pths'[k].ran = pths[k].ran
        BY <4>1, <4>2 DEF TypeOK, Pths
      <4>4. QED
        BY <1>6, <4>2, <4>3, ThreadGoesOn DEF Tcbs
    <3>3. QED
      BY <1>6, <3>1, <3>2
  <2>7. \A c \in Creators : Claims(c) => call[c].i # pths[k].slot
    BY <1>6, <2>1, ThreadGoesOn DEF Tcbs
  <2>8. \A j \in DOMAIN pths : Lives(j)' => tid'[pths[j].slot] = tid[pths[j].slot]
    <3>1. CASE Invoke(k)
      BY <3>1 DEF Invoke
    <3>2. CASE Return(k)
      <4>1. pths' = [pths EXCEPT ![k].at = "ended"] /\ tid' = [tid EXCEPT ![pths[k].slot] = "empty"]
        BY <3>2 DEF Return
      <4>2. k \in DOMAIN pths /\ pths[k] \in Pths
        BY <1>6, ThreadGoesOn DEF TypeOK
      <4>3. ~Lives(k)'
        BY <4>1, <4>2 DEF TypeOK, Pths, Lives
      <4>4. \A j \in DOMAIN pths : Lives(j)' => pths[j].slot # pths[k].slot
        BY <2>1, <2>2, <4>2, <4>3 DEF Tcbs
      <4>5. QED
        BY <2>5, <4>1, <4>4 DEF TypeOK
    <3>3. QED
      BY <1>6, <3>1, <3>2
  <2>9. \A c \in Creators : Claims(c) => tid'[call[c].i] = tid[call[c].i]
    BY <1>6, <2>5, <2>7, ThreadGoesOn DEF Invoke, Return, TypeOK, Claims, InSlots
  <2>10. DOMAIN pths' = DOMAIN pths
    BY <1>6, ThreadGoesOn
  <2>11. QED
    BY <2>1, <2>2, <2>3, <2>4, <2>6, <2>8, <2>9, <2>10 DEF Tcbs
<1>7. CASE UNCHANGED tpvars
  BY <1>7 DEF tpvars, Tcbs, Claims, Lives
<1>8. QED
  BY <1>1, <1>2, <1>3, <1>4, <1>5, <1>6, <1>7 DEF Next, Creator

\* Call c is past pthread_create, and that made its thread.
HasMade(c) == cpc[c] \in {"assert", "decide"} /\ ~call[c].error

\* What Calls says of a call in progress.
CallOK(c) ==
  cpc[c] # "idle" =>
    /\ call[c].n <= calls
    /\ \A d \in Creators : cpc[d] # "idle" /\ call[c].n = call[d].n => c = d
    /\ \A j \in DOMAIN results : results[j].call # call[c].n
    /\ Made(call[c].n) <=> HasMade(c)

\* The steps of a call that neither make a thread nor return.
LEMMA CallsStay ==
  ASSUME Calls, UNCHANGED <<calls, pths, results>>,
         \A c \in Creators : cpc'[c] # "idle" => cpc[c] # "idle" /\ call'[c].n = call[c].n,
         \A c \in Creators : cpc'[c] # "idle" => (HasMade(c)' <=> HasMade(c))
  PROVE  Calls'
<1>1. \A n : Made(n)' <=> Made(n)
  BY DEF Made
<1>2. \A c \in Creators : CallOK(c)'
  BY <1>1 DEF Calls, CallOK, HasMade
<1>3. QED
  BY <1>1, <1>2 DEF Calls, CallOK, HasMade

\* A call that returns leaves its status, which is 0 if it made its thread.
LEMMA CallReturns ==
  ASSUME TypeOK, Calls, NEW c \in Creators, cpc[c] # "idle", NEW st \in {0, 1},
         (st = 0) <=> HasMade(c),
         cpc' = [cpc EXCEPT ![c] = "idle"], UNCHANGED <<calls, pths, call>>,
         results' = Append(results, [call |-> call[c].n, status |-> st])
  PROVE  Calls'
<1> DEFINE new == [call |-> call[c].n, status |-> st]
           last == Len(results) + 1
<1>1. /\ DOMAIN results' = DOMAIN results \cup {last}
      /\ \A j \in DOMAIN results : results'[j] = results[j]
      /\ results'[last] = new
  <2>1. results \in Seq([call : Nat, status : Nat])
    BY DEF TypeOK
  <2>2. call[c].n \in Nat /\ st \in Nat
    BY DEF TypeOK
  <2>3. new \in [call : Nat, status : Nat]
    BY <2>2
  <2>4. results' = Append(results, new)
    OBVIOUS
  <2> HIDE DEF new
  <2>5. QED
    BY <2>1, <2>3, <2>4, Appended
<1>2. new.call = call[c].n /\ new.status = st
  OBVIOUS
<1> HIDE DEF new, last
<1>3. \A n : Made(n)' <=> Made(n)
  BY DEF Made
<1>4. \A d \in Creators : cpc'[d] # "idle" => d # c /\ cpc'[d] = cpc[d]
  BY DEF TypeOK
<1>5. \A d \in Creators : CallOK(d)'
  BY <1>1, <1>2, <1>3, <1>4 DEF Calls, CallOK, HasMade
<1>6. \A j \in DOMAIN results' : (results'[j].status = 0) <=> Made(results'[j].call)
  BY <1>1, <1>2 DEF Calls, HasMade
<1>7. \A j \in DOMAIN results' : results'[j].call <= calls
  BY <1>1, <1>2 DEF Calls
<1>8. QED
  BY <1>3, <1>5, <1>6, <1>7 DEF Calls, CallOK, HasMade

\* An element of a sequence is of the sequence's set.
LEMMA ElementOf ==
  ASSUME NEW R, NEW s \in Seq(R), NEW j \in DOMAIN s
  PROVE  s[j] \in R
  OBVIOUS

\* Every step keeps the numbers, the threads and the results of the calls consistent.
LEMMA NextCalls ==
  ASSUME TypeOK, InSlots, NoRetry', Calls, [Next]_tpvars
  PROVE  Calls'
<1> USE DEF Step
<1>0. /\ calls \in Nat
      /\ \A c \in Creators : call[c].n \in Nat
      /\ \A j \in DOMAIN results : results[j].call \in Nat
  <2>1. ASSUME NEW j \in DOMAIN results
        PROVE  results[j].call \in Nat
    <3>1. results \in Seq([call : Nat, status : Nat])
      BY DEF TypeOK
    <3>2. results[j] \in [call : Nat, status : Nat]
      BY <3>1, ElementOf
    <3>3. QED
      BY <3>2
  <2>2. QED
    BY <2>1 DEF TypeOK
<1>1. ASSUME NEW c \in Creators, Create(c)
      PROVE  Calls'
  <2>1. /\ cpc' = [cpc EXCEPT ![c] = "find"]
        /\ calls' = calls + 1
        /\ call'[c].n = calls + 1
        /\ \A d \in Creators \ {c} : call'[d] = call[d]
        /\ UNCHANGED <<pths, results>>
    BY <1>1 DEF Create, TypeOK
  <2>2. \A n : Made(n)' <=> Made(n)
    BY <2>1 DEF Made
  <2>3. ~Made(calls + 1)
    BY <1>0, ThreadRecord DEF Made, Calls
  <2>4. ~HasMade(c)' /\ cpc'[c] = "find"
    BY <2>1 DEF HasMade, TypeOK
  <2>5. \A d \in Creators \ {c} : cpc'[d] = cpc[d] /\ (HasMade(d)' <=> HasMade(d))
    BY <2>1 DEF HasMade, TypeOK
  <2>6. CallOK(c)'
    BY <1>0, <2>1, <2>2, <2>3, <2>4, <2>5 DEF CallOK, Calls
  <2>7. ASSUME NEW d \in Creators \ {c} PROVE CallOK(d)'
    BY <1>0, <2>1, <2>2, <2>5 DEF CallOK, Calls, HasMade
  <2>8. /\ \A k \in DOMAIN pths : pths[k].call <= calls'
        /\ \A j \in DOMAIN results : results[j].call <= calls'
    BY <1>0, <2>1, ThreadRecord DEF Calls
  <2>9. QED
    BY <2>1, <2>2, <2>6, <2>7, <2>8 DEF Calls, CallOK, HasMade
<1>2. ASSUME NEW c \in Creators, BadStackSize(c)
      PROVE  Calls'
  <2> DEFINE new == [call |-> calls + 1, status |-> 1]
             last == Len(results) + 1
  <2>1. /\ cpc' = cpc /\ calls' = calls + 1
        /\ results' = Append(results, new)
        /\ UNCHANGED <<pths, call>>
    BY <1>2 DEF BadStackSize, TypeOK
  <2>2. /\ DOMAIN results' = DOMAIN results \cup {last}
        /\ \A j \in DOMAIN results : results'[j] = results[j]
        /\ results'[last] = new
    BY <2>1 DEF TypeOK
  <2>3. new.call = calls + 1 /\ new.status = 1
    OBVIOUS
  <2> HIDE DEF new, last
  <2>4. \A n : Made(n)' <=> Made(n)
    BY <2>1 DEF Made
  <2>5. ~Made(calls + 1)
    BY <1>0, ThreadRecord DEF Made, Calls
  <2>6. \A d \in Creators : CallOK(d)'
    BY <1>0, <2>1, <2>2, <2>3, <2>4 DEF CallOK, Calls, HasMade
  <2>7. \A j \in DOMAIN results' : (results'[j].status = 0) <=> Made(results'[j].call)
    BY <2>2, <2>3, <2>5 DEF Calls
  <2>8. /\ \A k \in DOMAIN pths : pths[k].call <= calls'
        /\ \A j \in DOMAIN results' : results'[j].call <= calls'
    BY <1>0, <2>1, <2>2, <2>3, ThreadRecord DEF Calls
  <2>9. QED
    BY <2>1, <2>4, <2>6, <2>7, <2>8 DEF Calls, CallOK, HasMade
<1>3. ASSUME NEW c \in Creators, Claim(c) \/ Assert(c)
      PROVE  Calls'
  BY <1>3, CallsStay DEF Claim, Assert, HasMade, TypeOK
<1>4. ASSUME NEW c \in Creators, Skip(c) \/ PthreadFails(c)
      PROVE  Calls'
  <2>1. /\ UNCHANGED <<calls, pths, results>>
        /\ \A d \in Creators : call'[d].n = call[d].n
        /\ \A d \in Creators \ {c} : call'[d] = call[d]
    <3>1. CASE Skip(c)
      BY <3>1 DEF Skip, TypeOK
    <3>2. CASE PthreadFails(c)
      BY <3>2 DEF PthreadFails, TypeOK
    <3>3. QED
      BY <1>4, <3>1, <3>2
  <2>2. \A d \in Creators : cpc'[d] # "idle" => cpc[d] # "idle"
    BY <1>4 DEF Skip, PthreadFails, TypeOK
  <2>3. \A d \in Creators : HasMade(d)' <=> HasMade(d)
    BY <1>4, <2>1 DEF Skip, PthreadFails, TypeOK, HasMade
  <2>4. QED
    BY <2>1, <2>2, <2>3, CallsStay
<1>5. ASSUME NEW c \in Creators, NoSlot(c)
      PROVE  Calls'
  <2>1. /\ cpc[c] = "find" /\ cpc' = [cpc EXCEPT ![c] = "idle"]
        /\ UNCHANGED <<calls, pths, call>>
        /\ results' = Append(results, [call |-> call[c].n, status |-> 1])
    BY <1>5 DEF NoSlot
  <2>2. cpc[c] # "idle" /\ ~HasMade(c)
    BY <2>1 DEF HasMade
  <2>3. 1 \in {0, 1} /\ 1 # 0
    OBVIOUS
  <2>4. QED
    BY <2>1, <2>2, <2>3, CallReturns
<1>6. ASSUME NEW c \in Creators, PthreadCreate(c)
      PROVE  Calls'
  <2> DEFINE new == [slot |-> call[c].i, call |-> call[c].n, ran |-> NoEntry,
                     at |-> "new", retried |-> call[c].error]
             last == Len(pths) + 1
  <2>1. /\ DOMAIN pths' = DOMAIN pths \cup {last} /\ last \notin DOMAIN pths
        /\ \A k \in DOMAIN pths : pths'[k] = pths[k]
        /\ pths'[last] = new
    <3>1. pths' = Append(pths, new)
      BY <1>6 DEF PthreadCreate
    <3>2. QED
      BY <3>1 DEF TypeOK
  <2>2. ~call[c].error
    BY <2>1 DEF NoRetry
  <2>3. new.call = call[c].n
    OBVIOUS
  <2> HIDE DEF new, last
  <2>4. /\ cpc[c] = "create" /\ cpc' = [cpc EXCEPT ![c] = "assert"]
        /\ UNCHANGED <<calls, call, results>>
    BY <1>6 DEF PthreadCreate
  <2>5. \A n : Made(n)' <=> Made(n) \/ n = call[c].n
    BY <2>1, <2>3 DEF Made
  <2>6. HasMade(c)' /\ \A d \in Creators \ {c} : HasMade(d)' <=> HasMade(d)
    BY <2>2, <2>4 DEF HasMade, TypeOK
  <2>7. \A d \in Creators \ {c} : cpc'[d] = cpc[d] /\ (cpc[d] # "idle" => call[d].n # call[c].n)
    BY <2>4 DEF Calls, TypeOK
  <2>8. \A d \in Creators : CallOK(d)'
    BY <2>4, <2>5, <2>6, <2>7 DEF CallOK, Calls, HasMade
  <2>9. \A j \in DOMAIN results : (results[j].status = 0) <=> Made(results[j].call)'
    BY <2>4, <2>5 DEF Calls
  <2>10. \A k \in DOMAIN pths' : pths'[k].call <= calls
    BY <2>1, <2>3, <2>4 DEF Calls
  <2>11. \A j \in DOMAIN results : results[j].call <= calls
    BY DEF Calls
  <2>12. QED
    BY <2>4, <2>8, <2>9, <2>10, <2>11 DEF Calls, CallOK, HasMade
<1>7. ASSUME NEW c \in Creators, Decide(c)
      PROVE  Calls'
  <2>1. CASE Decides(c)
    <3>1. /\ cpc[c] = "decide" /\ cpc' = [cpc EXCEPT ![c] = "idle"]
          /\ UNCHANGED <<calls, pths, call>>
          /\ results' = Append(results, [call |-> call[c].n, status |-> 0])
      BY <1>7, <2>1 DEF Decide
    <3>2. HasMade(c)
      BY <2>1, <3>1 DEF HasMade, Decides
    <3>3. QED
      BY <3>1, <3>2, CallReturns
  <2>2. CASE ~Decides(c)
    <3>1. /\ cpc[c] = "decide" /\ cpc' = [cpc EXCEPT ![c] = "find"]
          /\ UNCHANGED <<calls, pths, results>>
          /\ \A d \in Creators : call'[d].n = call[d].n
          /\ \A d \in Creators \ {c} : call'[d] = call[d]
      <4>1. /\ cpc[c] = "decide" /\ cpc' = [cpc EXCEPT ![c] = "find"]
            /\ UNCHANGED <<calls, pths, results>>
            /\ call' = [call EXCEPT ![c].i = @ + 1]
        BY <1>7, <2>2 DEF Decide
      <4>2. \A d \in Creators : call'[d].n = call[d].n
        BY <4>1 DEF TypeOK
      <4>3. \A d \in Creators \ {c} : call'[d] = call[d]
        BY <4>1 DEF TypeOK
      <4>4. QED
        BY <4>1, <4>2, <4>3
    <3>2. \A d \in Creators : cpc'[d] # "idle" => cpc[d] # "idle"
      BY <3>1 DEF TypeOK
    <3>3. \A d \in Creators : HasMade(d)' <=> HasMade(d)
      BY <2>2, <3>1 DEF HasMade, Decides, TypeOK
    <3>4. QED
      BY <3>1, <3>2, <3>3, CallsStay
  <2>3. QED
    BY <2>1, <2>2
<1>8. ASSUME NEW k, Invoke(k) \/ Return(k)
      PROVE  Calls'
  <2>1. UNCHANGED <<cpc, call, calls, results>>
    BY <1>8 DEF Invoke, Return, Thread
  <2>2. DOMAIN pths' = DOMAIN pths /\ \A j \in DOMAIN pths : pths'[j].call = pths[j].call
    BY <1>8, ThreadGoesOn
  <2>3. \A n : Made(n)' <=> Made(n)
    BY <2>2 DEF Made
  <2>4. QED
    BY <2>1, <2>2, <2>3 DEF Calls
<1>9. CASE UNCHANGED tpvars
  BY <1>9 DEF tpvars, Calls, Made
<1>10. QED
  BY <1>1, <1>2, <1>3, <1>4, <1>5, <1>6, <1>7, <1>8, <1>9 DEF Next, Creator

-----------------------------------------------------------------------------

\* Every step keeps the invariant.
LEMMA NextIInv == ASSUME IInv, [Next]_tpvars PROVE IInv'
BY NextTypeOK, NextInSlots, NoRetryBefore, NextTcbs, NextCalls DEF IInv

\* Threads that have not ended have a tcb of their own, which stays taken, and run
\* the entry that their creator passed; and a status of 0 means that there is one:
\* for any number of creators, calls, threads and slots.
THEOREM ThreadsKeepTheirTcbs == ASSUME MaxThreads \in Nat PROVE Spec => []ThreadsHaveTcbs
<1>1. IInv => ThreadsHaveTcbs
  BY DEF IInv, NoRetry, Tcbs, Calls, Made, Lives, ThreadsHaveTcbs
<1>2. QED
  BY <1>1, InitIInv, NextIInv, PTL DEF Spec

-----------------------------------------------------------------------------
(* The x86's ready list and its sleeping threads, for any number of tcbs.  The *)
(* list is a ring that Idle and Main are always in (Ring); what next_tcb and *)
(* remove_zombies leave of it follows from what Turn and Without return, and *)
(* that from the least place of a tcb that is not skipped.                 *)

\* A set of numbers that is not empty has a least one.
LEMMA LeastOf ==
  ASSUME NEW N, N \subseteq Nat, N # {}
  PROVE  \E n \in N : \A m \in N : n <= m
<1> DEFINE Less == {ss \in Nat \X Nat : ss[1] < ss[2]}
<1>1. IsWellFoundedOn(Less, Nat)
  BY NatLessThanWellFounded DEF OpToRel
<1>2. PICK n \in N : \A m \in N : <<m, n>> \notin Less
  BY <1>1, WFMin
<1>3. ASSUME NEW m \in N PROVE n <= m
  <2>1. n \in Nat /\ m \in Nat
    OBVIOUS
  <2>2. ~(m < n)
    BY <1>2, <2>1
  <2> QED BY <2>1, <2>2
<1> QED BY <1>3

\* The numbers of a finite set, in their order.
Enumerated(K, n) ==
  \E e \in [1 .. Cardinality(K) -> K] : \A i, j \in 1 .. Cardinality(K) : i < j => e[i] < e[j]

LEMMA Enumerate ==
  ASSUME NEW n \in Nat, NEW K \in SUBSET (1 .. n)
  PROVE  IsFiniteSet(K) /\ Enumerated(K, n)
<1> DEFINE Bad == {m \in Nat : \E L \in SUBSET (1 .. m) : ~Enumerated(L, m)}
<1>0. \A m \in Nat : \A L \in SUBSET (1 .. m) : IsFiniteSet(L) /\ Cardinality(L) \in Nat
  <2> SUFFICES ASSUME NEW m \in Nat, NEW L \in SUBSET (1 .. m)
               PROVE  IsFiniteSet(L) /\ Cardinality(L) \in Nat
    OBVIOUS
  <2>1. IsFiniteSet(1 .. m)
    BY FS_Interval
  <2>2. IsFiniteSet(L)
    BY <2>1, FS_Subset
  <2> QED BY <2>2, FS_CardinalityType
<1>1. Bad = {}
  <2> SUFFICES ASSUME Bad # {} PROVE FALSE
    OBVIOUS
  <2>1. PICK m \in Bad : \A k \in Bad : m <= k
    BY LeastOf
  <2>2. PICK L \in SUBSET (1 .. m) : ~Enumerated(L, m)
    BY <2>1
  <2>3. CASE m \notin L
    <3>1. m # 0 => L \in SUBSET (1 .. m - 1) /\ m - 1 \in Nat
      BY <2>1, <2>3
    <3>2. m # 0 => Enumerated(L, m - 1)
      BY <2>1, <3>1
    <3>3. m = 0 => L = {}
      BY <2>1
    <3>4. L = {} => Cardinality(L) = 0
      BY FS_EmptySet
    <3>5. L = {} => Enumerated(L, m)
      <4> SUFFICES ASSUME L = {} PROVE Enumerated(L, m)
        OBVIOUS
      <4>1. 1 .. Cardinality(L) = {}
        BY <3>4
      <4>2. [i \in {} |-> 0] \in [1 .. Cardinality(L) -> L]
        BY <4>1
      <4> QED BY <4>1, <4>2 DEF Enumerated
    <3> QED BY <2>2, <3>2, <3>3, <3>5 DEF Enumerated
  <2>4. CASE m \in L
    <3> DEFINE P == L \ {m}
               c == Cardinality(P)
    <3>1. m # 0 /\ P \in SUBSET (1 .. m - 1) /\ m - 1 \in Nat
      BY <2>1, <2>4
    <3>2. Enumerated(P, m - 1)
      BY <2>1, <3>1
    <3>3. PICK e \in [1 .. c -> P] : \A i, j \in 1 .. c : i < j => e[i] < e[j]
      BY <3>2 DEF Enumerated
    <3>4. c \in Nat /\ Cardinality(L) = c + 1
      <4>1. IsFiniteSet(P)
        BY <1>0, <3>1
      <4>2. L = P \cup {m} /\ m \notin P
        BY <2>4
      <4> QED BY <4>1, <4>2, FS_AddElement, FS_CardinalityType
    <3> DEFINE f == [i \in 1 .. c + 1 |-> IF i = c + 1 THEN m ELSE e[i]]
    <3> HIDE DEF c
    <3>5. \A i \in 1 .. c : i \in 1 .. c + 1 /\ f[i] = e[i] /\ e[i] \in P
      BY <3>3, <3>4
    <3>6. f[c + 1] = m
      BY <3>4
    <3>7. f \in [1 .. c + 1 -> L]
      BY <3>3, <3>4, <2>4
    <3>8. \A i, j \in 1 .. c + 1 : i < j => f[i] < f[j]
      <4> SUFFICES ASSUME NEW i \in 1 .. c + 1, NEW j \in 1 .. c + 1, i < j
                   PROVE  f[i] < f[j]
        OBVIOUS
      <4>1. i \in 1 .. c
        BY <3>4
      <4>2. CASE j = c + 1
        <5>1. f[i] \in 1 .. m - 1
          BY <4>1, <3>1, <3>5
        <5> QED BY <4>2, <5>1, <3>1, <3>6
      <4>3. CASE j # c + 1
        <5>1. j \in 1 .. c
          BY <3>4, <4>3
        <5> QED BY <4>1, <5>1, <3>3, <3>5
      <4> QED BY <4>2, <4>3
    <3> HIDE DEF f
    <3> QED BY <2>2, <3>4, <3>7, <3>8 DEF Enumerated
  <2> QED BY <2>3, <2>4
<1> QED BY <1>0, <1>1
-----------------------------------------------------------------------------
(* Rings                                                                   *)

\* A ready list: a sequence of tcbs, not empty, that has no tcb twice.
Ring(q) ==
  /\ q \in Seq(ReadyTcbs) /\ q # <<>>
  /\ \A i, j \in DOMAIN q : q[i] = q[j] => i = j

LEMMA RingIs ==
  ASSUME NEW q, Ring(q)
  PROVE  /\ Len(q) \in Nat \ {0} /\ DOMAIN q = 1 .. Len(q)
         /\ Head(q) = q[1] /\ Head(q) \in Ready!ToSet(q)
         /\ Ready!ToSet(q) \subseteq ReadyTcbs
  BY DEF Ring, Ready!ToSet

\* A ring that is turned is a ring of the same tcbs.
LEMMA TurnKeeps ==
  ASSUME NEW q, Ring(q), NEW i \in 1 .. Len(q) + 1
  PROVE  /\ Ring(Ready!Turn(q, i)) /\ Ready!ToSet(Ready!Turn(q, i)) = Ready!ToSet(q)
         /\ Len(Ready!Turn(q, i)) = Len(q)
<1> DEFINE n == Len(q)
           r == Ready!Turn(q, i)
           a == SubSeq(q, i, n)
           b == SubSeq(q, 1, i - 1)
<1>1. n \in Nat \ {0} /\ DOMAIN q = 1 .. n /\ q \in Seq(ReadyTcbs)
  BY RingIs DEF Ring
<1>2. PICK k \in 0 .. n : k = n - i + 1
  BY <1>1
<1>3. a \in Seq(ReadyTcbs) /\ Len(a) = k /\ \A j \in 1 .. k : a[j] = q[i + j - 1]
  BY <1>1, <1>2
<1>4. b \in Seq(ReadyTcbs) /\ Len(b) = i - 1 /\ \A j \in 1 .. i - 1 : b[j] = q[j]
  BY <1>1
<1>5. r = a \o b
  BY DEF Ready!Turn
<1> HIDE DEF a, b, r, n
<1> DEFINE From(j) == IF j <= k THEN i + j - 1 ELSE j - k
<1>6. r \in Seq(ReadyTcbs) /\ Len(r) = n
  <2>1. r \in Seq(ReadyTcbs) /\ Len(r) = Len(a) + Len(b)
    <3>1. a \in Seq(ReadyTcbs) /\ b \in Seq(ReadyTcbs)
      BY <1>3, <1>4
    <3> QED BY <1>5, <3>1
  <2>2. k + (i - 1) = n
    BY <1>1, <1>2
  <2> QED BY <1>3, <1>4, <2>1, <2>2
<1>7. DOMAIN r = 1 .. n /\ r # <<>>
  BY <1>1, <1>6
<1>8. i \in Nat
  BY <1>1
<1>9. \A j \in 1 .. n : From(j) \in 1 .. n /\ r[j] = q[From(j)]
  <2> SUFFICES ASSUME NEW j \in 1 .. n PROVE From(j) \in 1 .. n /\ r[j] = q[From(j)]
    OBVIOUS
  <2>1. CASE j <= k
    <3>1. r[j] = a[j] /\ j \in 1 .. k
      BY <1>1, <1>2, <1>3, <1>4, <1>5, <2>1
    <3> QED BY <1>1, <1>2, <1>3, <1>8, <2>1, <3>1
  <2>2. CASE j > k
    <3>1. j - k \in 1 .. i - 1 /\ j \in 1 .. k + (i - 1) /\ ~(j <= k) /\ k \in Nat
      BY <1>1, <1>2, <1>8, <2>2
    <3>2. r[j] = b[j - k]
      BY <1>3, <1>4, <1>5, <3>1
    <3> QED BY <1>1, <1>2, <1>4, <1>8, <2>2, <3>1, <3>2
  <2> QED BY <1>2, <2>1, <2>2
<1>10. \A j, l \in 1 .. n : From(j) = From(l) => j = l
  BY <1>1, <1>2, <1>8
<1>11. \A j \in 1 .. n : \E l \in 1 .. n : From(l) = j
  <2> SUFFICES ASSUME NEW j \in 1 .. n PROVE \E l \in 1 .. n : From(l) = j
    OBVIOUS
  <2>1. CASE j >= i
    <3>1. j - i + 1 \in 1 .. n /\ From(j - i + 1) = j
      BY <1>1, <1>2, <1>8, <2>1
    <3> QED BY <3>1
  <2>2. CASE j < i
    <3>1. j + k \in 1 .. n /\ From(j + k) = j
      BY <1>1, <1>2, <1>8, <2>2
    <3> QED BY <3>1
  <2> QED BY <1>8, <2>1, <2>2
<1> HIDE DEF From
<1>12. Ring(r)
  BY <1>1, <1>6, <1>7, <1>9, <1>10 DEF Ring
<1>13. Ready!ToSet(r) = Ready!ToSet(q)
  <2>1. \A j \in 1 .. n : \E l \in 1 .. n : r[l] = q[j]
    BY <1>9, <1>11
  <2>2. \A j \in 1 .. n : \E l \in 1 .. n : r[j] = q[l]
    BY <1>9
  <2>3. Ready!ToSet(r) = {r[j] : j \in 1 .. n}
    BY <1>7 DEF Ready!ToSet
  <2>4. Ready!ToSet(q) = {q[j] : j \in 1 .. n}
    BY <1>1 DEF Ready!ToSet
  <2> QED BY <2>1, <2>2, <2>3, <2>4
<1> QED BY <1>6, <1>12, <1>13 DEF r, n

\* next_tcb: Idle is no zombie, so there is a next one, and the ring keeps its tcbs.
LEMMA NextKeeps ==
  ASSUME NEW q, Ring(q), IdleTcb \in Ready!ToSet(q), id[IdleTcb] # "ZOMBIE"
  PROVE  Ring(Ready!NextTcb(q)) /\ Ready!ToSet(Ready!NextTcb(q)) = Ready!ToSet(q)
<1> DEFINE r == Ready!Turn(q, 2)
           Found(i) == ~Ready!IsSkipped(r[i]) /\ \A j \in 1 .. i - 1 : Ready!IsSkipped(r[j])
<1>1. Len(q) \in Nat \ {0}
  BY RingIs
<1>2. Ring(r) /\ Ready!ToSet(r) = Ready!ToSet(q) /\ Len(r) = Len(q)
  BY <1>1, TurnKeeps
<1>3. DOMAIN r = 1 .. Len(r) /\ Len(r) \in Nat
  BY <1>2, RingIs
<1>4. \E i \in 1 .. Len(r) : Found(i)
  <2> DEFINE Live == {i \in 1 .. Len(r) : ~Ready!IsSkipped(r[i])}
  <2> HIDE DEF r
  <2>1. Live # {} /\ Live \subseteq Nat
    <3>1. PICK i \in 1 .. Len(r) : r[i] = IdleTcb
      BY <1>2, <1>3 DEF Ready!ToSet
    <3>2. ~Ready!IsSkipped(r[i])
      BY <3>1 DEF Ready!IsSkipped
    <3> QED BY <1>3, <3>1, <3>2
  <2>2. PICK i \in Live : \A j \in Live : i <= j
    BY <2>1, LeastOf
  <2>3. \A j \in 1 .. i - 1 : j \in 1 .. Len(r) /\ ~(i <= j)
    BY <1>3, <2>2
  <2> QED BY <2>2, <2>3
<1> DEFINE i == CHOOSE i \in 1 .. Len(r) : Found(i)
<1>5. i \in 1 .. Len(r)
  <2> HIDE DEF Found
  <2> QED BY <1>4
<1>6. Ready!NextTcb(q) = Ready!Turn(r, i)
  BY DEF Ready!NextTcb
<1> HIDE DEF r, i
<1>7. i \in 1 .. Len(r) + 1
  BY <1>3, <1>5
<1> QED BY <1>2, <1>6, <1>7, TurnKeeps

LEMMA SkipKeeps ==
  ASSUME NEW q, Ring(q), IdleTcb \in Ready!ToSet(q), id[IdleTcb] # "ZOMBIE"
  PROVE  Ring(Ready!SkipIdle(q)) /\ Ready!ToSet(Ready!SkipIdle(q)) = Ready!ToSet(q)
  BY NextKeeps DEF Ready!SkipIdle

\* A tcb that is put in front, or behind the first.
LEMMA FrontIs ==
  ASSUME NEW q, Ring(q), NEW t \in ReadyTcbs, t \notin Ready!ToSet(q)
  PROVE  Ring(<<t>> \o q) /\ Ready!ToSet(<<t>> \o q) = Ready!ToSet(q) \cup {t}
<1> DEFINE r == <<t>> \o q
<1>1. Len(q) \in Nat \ {0} /\ DOMAIN q = 1 .. Len(q) /\ q \in Seq(ReadyTcbs)
  BY RingIs DEF Ring
<1>2. r \in Seq(ReadyTcbs) /\ r # <<>> /\ DOMAIN r = 1 .. Len(q) + 1
  BY <1>1
<1>3. r[1] = t /\ \A i \in 2 .. Len(q) + 1 : r[i] = q[i - 1]
  BY <1>1
<1>4. \A i \in DOMAIN q : i + 1 \in 2 .. Len(q) + 1 /\ r[i + 1] = q[i]
  BY <1>1, <1>3
<1> HIDE DEF r
<1>5. \A i, j \in DOMAIN r : r[i] = r[j] => i = j
  <2> SUFFICES ASSUME NEW i \in DOMAIN r, NEW j \in DOMAIN r, r[i] = r[j] PROVE i = j
    OBVIOUS
  <2>1. \A l \in DOMAIN r : l # 1 => l - 1 \in DOMAIN q /\ r[l] = q[l - 1] /\ l \in Nat
    BY <1>1, <1>2, <1>3
  <2>2. \A l \in DOMAIN r : l # 1 => r[l] # t
    BY <2>1 DEF Ready!ToSet
  <2>3. CASE i # 1 /\ j # 1
    <3>1. q[i - 1] = q[j - 1]
      BY <2>1, <2>3
    <3>2. i - 1 = j - 1
      BY <2>1, <2>3, <3>1 DEF Ring
    <3> QED BY <2>1, <2>3, <3>2
  <2> QED BY <1>3, <2>2, <2>3
<1>6. Ready!ToSet(r) = Ready!ToSet(q) \cup {t}
  <2>1. \A l \in DOMAIN r : l = 1 \/ (l - 1 \in DOMAIN q /\ r[l] = q[l - 1])
    BY <1>1, <1>2, <1>3
  <2>2. \A l \in DOMAIN q : l + 1 \in DOMAIN r
    BY <1>1, <1>2
  <2>3. 1 \in DOMAIN r
    BY <1>1, <1>2
  <2> QED BY <1>3, <1>4, <2>1, <2>2, <2>3 DEF Ready!ToSet
<1> QED BY <1>2, <1>5, <1>6 DEF r, Ring

\* The rest of a ring that holds another tcb than its first.
LEMMA RestIs ==
  ASSUME NEW q, Ring(q), NEW t \in Ready!ToSet(q), t # Head(q)
  PROVE  Ring(Tail(q)) /\ Ready!ToSet(Tail(q)) = Ready!ToSet(q) \ {Head(q)}
<1> DEFINE r == Tail(q)
<1>1. Len(q) \in Nat \ {0} /\ DOMAIN q = 1 .. Len(q) /\ q \in Seq(ReadyTcbs) /\ Head(q) = q[1]
  BY RingIs DEF Ring
<1>2. r \in Seq(ReadyTcbs) /\ DOMAIN r = 1 .. Len(q) - 1 /\ \A i \in DOMAIN r : r[i] = q[i + 1]
  BY <1>1
<1>3. \A i \in DOMAIN q : i # 1 => i - 1 \in DOMAIN r /\ r[i - 1] = q[i]
  BY <1>1, <1>2
<1>4. \A i \in DOMAIN r : i + 1 \in DOMAIN q /\ i + 1 # 1 /\ r[i] = q[i + 1]
  BY <1>1, <1>2
<1>5. \A i \in DOMAIN q : q[i] = q[1] => i = 1
  BY <1>1 DEF Ring
<1> HIDE DEF r
<1>6. \A i, j \in DOMAIN r : r[i] = r[j] => i = j
  <2> SUFFICES ASSUME NEW i \in DOMAIN r, NEW j \in DOMAIN r, r[i] = r[j] PROVE i = j
    OBVIOUS
  <2>1. i + 1 = j + 1
    BY <1>4 DEF Ring
  <2> QED BY <1>2, <2>1
<1>7. Ready!ToSet(r) = Ready!ToSet(q) \ {q[1]}
  BY <1>1, <1>3, <1>4, <1>5 DEF Ready!ToSet
<1>8. r # <<>>
  <2>1. DOMAIN r # {}
    BY <1>1, <1>7 DEF Ready!ToSet
  <2> QED BY <1>1, <1>2, <2>1
<1> QED BY <1>1, <1>2, <1>6, <1>7, <1>8 DEF r, Ring

\* What is put behind the first of the ready list.
LEMMA AfterIs ==
  ASSUME NEW q, Ring(q), NEW t \in ReadyTcbs, t \notin Ready!ToSet(q)
  PROVE  /\ Ring(<<Head(q), t>> \o Tail(q))
         /\ Ready!ToSet(<<Head(q), t>> \o Tail(q)) = Ready!ToSet(q) \cup {t}
<1> DEFINE r == <<Head(q), t>> \o Tail(q)
           p == <<t>> \o q
<1>1. Len(q) \in Nat \ {0} /\ DOMAIN q = 1 .. Len(q) /\ q \in Seq(ReadyTcbs) /\ Head(q) = q[1]
  BY RingIs DEF Ring
<1>2. Ring(p) /\ Ready!ToSet(p) = Ready!ToSet(q) \cup {t}
  BY FrontIs
<1>3. DOMAIN p = 1 .. Len(q) + 1 /\ p[1] = t /\ p[2] = q[1]
      /\ \A i \in 3 .. Len(q) + 1 : p[i] = q[i - 1]
  BY <1>1
<1>4. r \in Seq(ReadyTcbs) /\ DOMAIN r = 1 .. Len(q) + 1 /\ r[1] = q[1] /\ r[2] = t
      /\ \A i \in 3 .. Len(q) + 1 : r[i] = q[i - 1]
  BY <1>1
<1> DEFINE Swap(i) == IF i = 1 THEN 2 ELSE IF i = 2 THEN 1 ELSE i
<1> HIDE DEF r, p
<1>5. \A i \in DOMAIN r : Swap(i) \in DOMAIN p /\ r[i] = p[Swap(i)] /\ Swap(Swap(i)) = i
  BY <1>1, <1>3, <1>4
<1>6. \A i, j \in DOMAIN r : Swap(i) = Swap(j) => i = j
  BY <1>1, <1>4
<1>7. DOMAIN r = DOMAIN p /\ r # <<>>
  BY <1>1, <1>3, <1>4
<1> HIDE DEF Swap
<1>8. Ready!ToSet(r) = Ready!ToSet(p)
  BY <1>5, <1>7 DEF Ready!ToSet
<1>9. Ring(r)
  BY <1>2, <1>4, <1>5, <1>6, <1>7 DEF Ring
<1> QED BY <1>2, <1>8, <1>9 DEF r

\* FiniteSets is instantiated with the ready list: its Cardinality is the one theorems are
\* about.
LEMMA ReadyCardinality == ASSUME NEW S PROVE Ready!Cardinality(S) = Cardinality(S)
  BY DEF Ready!Cardinality, Cardinality

\* Without: the ring of the tcbs that stay.
LEMMA WithoutIs ==
  ASSUME NEW q, Ring(q), NEW gone, Ready!ToSet(q) \ gone # {}
  PROVE  Ring(Ready!Without(q, gone)) /\ Ready!ToSet(Ready!Without(q, gone)) = Ready!ToSet(q) \ gone
<1> DEFINE kept == {i \in DOMAIN q : q[i] \notin gone}
           c == Ready!Cardinality(kept)
           places == CHOOSE at1 \in [1 .. c -> kept] :
                       \A i, j \in 1 .. c : i < j => at1[i] < at1[j]
           r == Ready!Without(q, gone)
<1>1. Len(q) \in Nat \ {0} /\ DOMAIN q = 1 .. Len(q) /\ q \in Seq(ReadyTcbs)
  BY RingIs DEF Ring
<1>2. IsFiniteSet(kept) /\ Enumerated(kept, Len(q)) /\ kept \in SUBSET (1 .. Len(q))
  <2>1. kept \in SUBSET (1 .. Len(q))
    BY <1>1
  <2> HIDE DEF kept
  <2> QED BY <1>1, <2>1, Enumerate
<1>3. places \in [1 .. c -> kept] /\ \A i, j \in 1 .. c : i < j => places[i] < places[j]
  <2> HIDE DEF kept
  <2> QED BY <1>2, ReadyCardinality DEF Enumerated
<1>4. r = [i \in 1 .. c |-> q[places[i]]]
  BY DEF Ready!Without
<1> HIDE DEF places, c, r
<1>5. c \in Nat /\ c = Cardinality(kept)
  BY <1>2, FS_CardinalityType, ReadyCardinality DEF c
<1>6. \A i, j \in 1 .. c : places[i] = places[j] => i = j
  BY <1>1, <1>2, <1>3, <1>5
<1>7. \A i \in kept : \E j \in 1 .. c : places[j] = i
  <2>1. places \in Injection(1 .. c, kept)
    BY <1>3, <1>6 DEF Injection, IsInjective
  <2>2. Cardinality(1 .. c) = c
    BY <1>5, FS_Interval
  <2> HIDE DEF kept
  <2>3. places \in Surjection(1 .. c, kept)
    BY <1>2, <1>5, <2>1, <2>2, FS_Injection
  <2> QED BY <2>3 DEF Surjection
<1>8. r \in Seq(ReadyTcbs) /\ DOMAIN r = 1 .. c
  <2>1. \A i \in 1 .. c : q[places[i]] \in ReadyTcbs
    BY <1>1, <1>2, <1>3
  <2> QED BY <1>4, <1>5, <2>1
<1>9. \A i \in 1 .. c : r[i] = q[places[i]] /\ places[i] \in DOMAIN q /\ q[places[i]] \notin gone
  BY <1>3, <1>4
<1>10. Ready!ToSet(r) = Ready!ToSet(q) \ gone
  BY <1>7, <1>8, <1>9 DEF Ready!ToSet
<1>11. r # <<>>
  <2>1. DOMAIN r # {}
    BY <1>10 DEF Ready!ToSet
  <2> QED BY <2>1
<1>12. \A i, j \in DOMAIN r : r[i] = r[j] => i = j
  BY <1>6, <1>8, <1>9 DEF Ring
<1> QED BY <1>8, <1>10, <1>11, <1>12 DEF r, Ring

-----------------------------------------------------------------------------
(* The invariant                                                           *)

\* Idle and Main are never gone: they do not exit, and only zombies are freed.
ReadyIInv == Ready!TypeOK /\ Ready!OnePlace /\ id[IdleTcb] = "LIVE" /\ id[MainTcb] = "LIVE"

\* What OnePlace says of one tcb, by the sets it may be in.
PlaceOf(t, isReady, isWaiting, isBlocked, i, s) ==
  /\ i = "LIVE" => \/ isReady /\ ~isWaiting /\ ~isBlocked
                   \/ ~isReady /\ isWaiting /\ ~isBlocked
                   \/ ~isReady /\ ~isWaiting /\ isBlocked
  /\ i = "ZOMBIE" => isReady /\ ~isWaiting /\ ~isBlocked
  /\ i = "EMPTY" => ~isReady /\ ~isWaiting /\ ~isBlocked
  /\ s <=> i # "EMPTY"

LEMMA OnePlaceIs ==
  Ready!OnePlace <=>
    /\ \A t \in ReadyTcbs : PlaceOf(t, t \in Ready!ToSet(ready), t \in waiting, t \in blocked,
         id[t], stack[t])
    /\ IdleTcb \in Ready!ToSet(ready)
  BY Zenon DEF Ready!OnePlace, PlaceOf

LEMMA NextOnePlaceIs ==
  Ready!OnePlace' <=>
    /\ \A t \in ReadyTcbs : PlaceOf(t, t \in Ready!ToSet(ready'), t \in waiting', t \in blocked',
         id'[t], stack'[t])
    /\ IdleTcb \in Ready!ToSet(ready')
  BY Zenon DEF Ready!OnePlace, PlaceOf

\* Dispatch moves at most one tcb from w to the ready list.
LEMMA DispatchKeeps ==
  ASSUME NEW q, Ring(q), NEW w \in SUBSET ReadyTcbs, Ready!ToSet(q) \cap w = {}, NEW due,
         Ready!Dispatch(q, w, due)
  PROVE  /\ Ring(ready') /\ waiting' \in SUBSET w
         /\ Ready!ToSet(ready') = Ready!ToSet(q) \cup (w \ waiting')
<1>1. CASE ready' = q /\ waiting' = w
  BY <1>1
<1>2. CASE \E t \in w : ready' = <<t>> \o q /\ waiting' = w \ {t}
  <2>1. PICK t \in w : ready' = <<t>> \o q /\ waiting' = w \ {t}
    BY <1>2
  <2>2. t \in ReadyTcbs /\ t \notin Ready!ToSet(q)
    OBVIOUS
  <2>3. Ring(ready') /\ Ready!ToSet(ready') = Ready!ToSet(q) \cup {t}
    BY <2>1, <2>2, FrontIs
  <2> QED BY <2>1, <2>3
<1> QED BY <1>1, <1>2 DEF Ready!Dispatch

\* What no step changes: the ready list is a ring, and Idle is in it.
LEMMA ReadyRing ==
  ASSUME ReadyIInv
  PROVE  /\ Ring(ready) /\ IdleTcb \in Ready!ToSet(ready) /\ IdleTcb \notin waiting \cup blocked
         /\ Ready!pready \in Ready!ToSet(ready) /\ Ready!ToSet(ready) \subseteq ReadyTcbs
<1>1. Ring(ready) /\ IdleTcb \in Ready!ToSet(ready)
  BY DEF ReadyIInv, Ready!TypeOK, Ready!OnePlace, Ring
<1> QED BY <1>1, RingIs, OnePlaceIs DEF ReadyIInv, PlaceOf, Ready!pready

\* The state after a step has its types.
LEMMA TypeNext ==
  ASSUME Ring(ready'), id' \in [ReadyTcbs -> {"EMPTY", "LIVE", "ZOMBIE"}],
         stack' \in [ReadyTcbs -> BOOLEAN], waiting' \in SUBSET ReadyTcbs,
         deadline' \in [ReadyTcbs -> Ready!Times], now' \in Ready!Times, blocked' \in SUBSET ReadyTcbs
  PROVE  Ready!TypeOK'
  BY DEF Ready!TypeOK, Ring, Ready!Timer!TypeOK

LEMMA ReadyInitIInv ==
  ASSUME Ready!ThreadAssumption, Ready!Init
  PROVE  ReadyIInv
<1>1. ready = <<MainTcb, IdleTcb>> /\ MainTcb \in ReadyTcbs /\ IdleTcb \in ReadyTcbs /\ MainTcb # IdleTcb
  BY DEF Ready!ThreadAssumption, Ready!Init
<1>2. ready \in Seq(ReadyTcbs) /\ DOMAIN ready = {1, 2} /\ ready[1] = MainTcb /\ ready[2] = IdleTcb
  BY <1>1
<1>3. Ready!ToSet(ready) = {MainTcb, IdleTcb}
  BY <1>2 DEF Ready!ToSet
<1>4. Ready!TypeOK
  <2>1. 0 \in Ready!Times
    BY DEF Ready!ThreadAssumption, Ready!Times
  <2> QED BY <1>1, <1>2, <2>1 DEF Ready!Init, Ready!TypeOK, Ready!Timer!TypeOK
<1>5. Ready!OnePlace
  BY <1>1, <1>3, OnePlaceIs DEF Ready!Init, PlaceOf
<1> QED BY <1>1, <1>4, <1>5 DEF ReadyIInv, Ready!Init

LEMMA RescheduleKeeps ==
  ASSUME ReadyIInv, Ready!Reschedule
  PROVE  ReadyIInv'
<1> DEFINE q == Ready!SkipIdle(Ready!NextTcb(ready))
<1>1. Ring(q) /\ Ready!ToSet(q) = Ready!ToSet(ready)
  BY ReadyRing, NextKeeps, SkipKeeps DEF ReadyIInv
<1>2. waiting \in SUBSET ReadyTcbs /\ Ready!ToSet(q) \cap waiting = {}
  BY <1>1, ReadyRing, OnePlaceIs DEF ReadyIInv, Ready!TypeOK, Ready!Timer!TypeOK, PlaceOf
<1>3. Ready!Dispatch(q, waiting, deadline) /\ UNCHANGED <<id, stack, deadline, now, blocked>>
  BY DEF Ready!Reschedule
<1> HIDE DEF q
<1>4. Ring(ready') /\ waiting' \in SUBSET waiting
      /\ Ready!ToSet(ready') = Ready!ToSet(ready) \cup (waiting \ waiting')
  BY <1>1, <1>2, <1>3, DispatchKeeps
<1>5. Ready!TypeOK'
  BY <1>2, <1>3, <1>4, TypeNext DEF ReadyIInv, Ready!TypeOK, Ready!Timer!TypeOK
<1>6. Ready!OnePlace'
  BY <1>3, <1>4, ReadyRing, OnePlaceIs, NextOnePlaceIs DEF ReadyIInv, PlaceOf
<1> QED BY <1>3, <1>5, <1>6 DEF ReadyIInv

LEMMA MakeNotReadyKeeps ==
  ASSUME ReadyIInv, NEW t \in ReadyTcbs, Ready!MakeNotReady(t)
  PROVE  ReadyIInv'
<1> DEFINE q == Ready!SkipIdle(Ready!Rest)
<1>1. t = Ready!pready /\ t # IdleTcb /\ id[t] = "LIVE" /\ blocked' = blocked \cup {t}
      /\ Ready!Dispatch(q, waiting, deadline) /\ UNCHANGED <<id, stack, deadline, now>>
  BY DEF Ready!MakeNotReady, Ready!Running
<1>2. Ring(Ready!Rest) /\ Ready!ToSet(Ready!Rest) = Ready!ToSet(ready) \ {t}
  BY <1>1, ReadyRing, RestIs DEF Ready!Rest, Ready!pready
<1>3. Ring(q) /\ Ready!ToSet(q) = Ready!ToSet(ready) \ {t}
  BY <1>1, <1>2, ReadyRing, SkipKeeps DEF ReadyIInv
<1> HIDE DEF q
<1>4. waiting \in SUBSET ReadyTcbs /\ Ready!ToSet(q) \cap waiting = {}
  BY <1>3, ReadyRing, OnePlaceIs DEF ReadyIInv, Ready!TypeOK, Ready!Timer!TypeOK, PlaceOf
<1>5. Ring(ready') /\ waiting' \in SUBSET waiting
      /\ Ready!ToSet(ready') = (Ready!ToSet(ready) \ {t}) \cup (waiting \ waiting')
  BY <1>1, <1>3, <1>4, DispatchKeeps
<1>6. Ready!TypeOK'
  BY <1>1, <1>4, <1>5, TypeNext DEF ReadyIInv, Ready!TypeOK, Ready!Timer!TypeOK
<1>7. Ready!OnePlace'
  BY <1>1, <1>5, ReadyRing, OnePlaceIs, NextOnePlaceIs DEF ReadyIInv, PlaceOf
<1> QED BY <1>1, <1>6, <1>7 DEF ReadyIInv

LEMMA WaitUntilKeeps ==
  ASSUME ReadyIInv, NEW t \in ReadyTcbs, NEW d \in Ready!Times, Ready!WaitUntil(t, d)
  PROVE  ReadyIInv'
<1> DEFINE q == Ready!SkipIdle(Ready!Rest)
           w == waiting \cup {t}
<1>1. t = Ready!pready /\ t # IdleTcb /\ id[t] = "LIVE" /\ deadline' = [deadline EXCEPT ![t] = d]
      /\ Ready!Dispatch(q, w, deadline') /\ UNCHANGED <<id, stack, now, blocked>>
  BY DEF Ready!WaitUntil, Ready!Running
<1>2. Ring(Ready!Rest) /\ Ready!ToSet(Ready!Rest) = Ready!ToSet(ready) \ {t}
  BY <1>1, ReadyRing, RestIs DEF Ready!Rest, Ready!pready
<1>3. Ring(q) /\ Ready!ToSet(q) = Ready!ToSet(ready) \ {t}
  BY <1>1, <1>2, ReadyRing, SkipKeeps DEF ReadyIInv
<1> HIDE DEF q
<1>4. w \in SUBSET ReadyTcbs /\ Ready!ToSet(q) \cap w = {}
  BY <1>3, ReadyRing, OnePlaceIs DEF ReadyIInv, Ready!TypeOK, Ready!Timer!TypeOK, PlaceOf
<1>5. Ring(ready') /\ waiting' \in SUBSET w
      /\ Ready!ToSet(ready') = (Ready!ToSet(ready) \ {t}) \cup (w \ waiting')
  BY <1>1, <1>3, <1>4, DispatchKeeps
<1>6. Ready!TypeOK'
  <2>1. deadline' \in [ReadyTcbs -> Ready!Times]
    BY <1>1 DEF ReadyIInv, Ready!TypeOK, Ready!Timer!TypeOK
  <2> QED BY <1>1, <1>4, <1>5, <2>1, TypeNext DEF ReadyIInv, Ready!TypeOK
<1>7. Ready!OnePlace'
  BY <1>1, <1>5, ReadyRing, OnePlaceIs, NextOnePlaceIs DEF ReadyIInv, PlaceOf
<1> QED BY <1>1, <1>6, <1>7 DEF ReadyIInv

LEMMA ExitKeeps ==
  ASSUME Ready!ThreadAssumption, ReadyIInv, NEW t \in ReadyTcbs, Ready!Exit(t)
  PROVE  ReadyIInv'
<1>1. t = Ready!pready /\ t \notin {IdleTcb, MainTcb} /\ id[t] = "LIVE" /\ id' = [id EXCEPT ![t] = "ZOMBIE"]
      /\ UNCHANGED <<ready, stack, waiting, deadline, now, blocked>>
  BY DEF Ready!Exit, Ready!Running, Ready!timerVars
<1>2. id' \in [ReadyTcbs -> {"EMPTY", "LIVE", "ZOMBIE"}]
      /\ id'[t] = "ZOMBIE" /\ \A u \in ReadyTcbs \ {t} : id'[u] = id[u]
  BY <1>1 DEF ReadyIInv, Ready!TypeOK
<1>3. Ready!TypeOK'
  BY <1>1, <1>2, ReadyRing, TypeNext DEF ReadyIInv, Ready!TypeOK, Ready!Timer!TypeOK
<1>4. Ready!OnePlace'
  BY <1>1, <1>2, ReadyRing, OnePlaceIs, NextOnePlaceIs DEF ReadyIInv, PlaceOf
<1> QED BY <1>1, <1>2, <1>3, <1>4 DEF ReadyIInv, Ready!ThreadAssumption

LEMMA CreateKeeps ==
  ASSUME Ready!ThreadAssumption, ReadyIInv, NEW t \in ReadyTcbs, Ready!Create(t)
  PROVE  ReadyIInv'
<1>1. id[t] = "EMPTY" /\ id' = [id EXCEPT ![t] = "LIVE"] /\ stack' = [stack EXCEPT ![t] = TRUE]
      /\ ready' = <<Head(ready), t>> \o Tail(ready)
      /\ UNCHANGED <<waiting, deadline, now, blocked>>
  BY DEF Ready!Create, Ready!GetTcb, Ready!AddAfter, Ready!pready, Ready!timerVars
<1>2. t \notin Ready!ToSet(ready) \cup waiting \cup blocked
  BY <1>1, OnePlaceIs DEF ReadyIInv, PlaceOf
<1>3. Ring(ready') /\ Ready!ToSet(ready') = Ready!ToSet(ready) \cup {t}
  BY <1>1, <1>2, ReadyRing, AfterIs
<1>4. /\ id' \in [ReadyTcbs -> {"EMPTY", "LIVE", "ZOMBIE"}] /\ stack' \in [ReadyTcbs -> BOOLEAN]
      /\ id'[t] = "LIVE" /\ stack'[t] = TRUE
      /\ \A u \in ReadyTcbs \ {t} : id'[u] = id[u] /\ stack'[u] = stack[u]
  BY <1>1 DEF ReadyIInv, Ready!TypeOK
<1>5. Ready!TypeOK'
  BY <1>1, <1>3, <1>4, TypeNext DEF ReadyIInv, Ready!TypeOK, Ready!Timer!TypeOK
<1>6. Ready!OnePlace'
  BY <1>1, <1>2, <1>3, <1>4, OnePlaceIs, NextOnePlaceIs DEF ReadyIInv, PlaceOf
<1> QED BY <1>1, <1>4, <1>5, <1>6 DEF ReadyIInv, Ready!ThreadAssumption

LEMMA MakeReadyKeeps ==
  ASSUME ReadyIInv, NEW t \in ReadyTcbs, Ready!MakeReady(t)
  PROVE  ReadyIInv'
<1>1. t \in blocked /\ blocked' = blocked \ {t}
      /\ ready' = <<Head(ready), t>> \o Tail(ready)
      /\ UNCHANGED <<id, stack, waiting, deadline, now>>
  BY DEF Ready!MakeReady, Ready!AddAfter, Ready!pready, Ready!timerVars
<1>2. t \notin Ready!ToSet(ready) \cup waiting /\ id[t] = "LIVE"
  BY <1>1, OnePlaceIs DEF ReadyIInv, Ready!TypeOK, PlaceOf
<1>3. Ring(ready') /\ Ready!ToSet(ready') = Ready!ToSet(ready) \cup {t}
  BY <1>1, <1>2, ReadyRing, AfterIs
<1>5. Ready!TypeOK'
  BY <1>1, <1>3, TypeNext DEF ReadyIInv, Ready!TypeOK, Ready!Timer!TypeOK
<1>6. Ready!OnePlace'
  BY <1>1, <1>2, <1>3, OnePlaceIs, NextOnePlaceIs DEF ReadyIInv, PlaceOf
<1> QED BY <1>1, <1>5, <1>6 DEF ReadyIInv

LEMMA RemoveZombiesKeeps ==
  ASSUME Ready!ThreadAssumption, ReadyIInv, Ready!RemoveZombies
  PROVE  ReadyIInv'
<1> DEFINE z == {t \in Ready!ToSet(ready) : id[t] = "ZOMBIE"}
<1>1. ready' = Ready!Without(ready, z)
      /\ id' = [t \in ReadyTcbs |-> IF t \in z THEN "EMPTY" ELSE id[t]]
      /\ stack' = [t \in ReadyTcbs |-> stack[t] /\ t \notin z]
      /\ UNCHANGED <<waiting, deadline, now, blocked>>
  BY DEF Ready!RemoveZombies, Ready!timerVars
<1>2. IdleTcb \in Ready!ToSet(ready) \ z /\ MainTcb \notin z
  BY ReadyRing DEF ReadyIInv
<1>3. \A t \in ReadyTcbs : id[t] = "ZOMBIE" <=> t \in z
  BY OnePlaceIs DEF ReadyIInv, PlaceOf
<1> HIDE DEF z
<1>4. Ring(ready') /\ Ready!ToSet(ready') = Ready!ToSet(ready) \ z
  BY <1>1, <1>2, ReadyRing, WithoutIs
<1>5. id' \in [ReadyTcbs -> {"EMPTY", "LIVE", "ZOMBIE"}]
  BY <1>1 DEF ReadyIInv, Ready!TypeOK
<1>6. stack' \in [ReadyTcbs -> BOOLEAN]
  BY <1>1, Zenon
<1>7. Ready!TypeOK'
  BY <1>1, <1>4, <1>5, <1>6, TypeNext DEF ReadyIInv, Ready!TypeOK, Ready!Timer!TypeOK
<1>8. \A t \in ReadyTcbs : id'[t] = IF t \in z THEN "EMPTY" ELSE id[t]
  BY <1>1
<1>9. \A t \in ReadyTcbs : stack'[t] <=> stack[t] /\ t \notin z
  BY <1>1
<1>10. Ready!OnePlace'
  BY <1>1, <1>2, <1>3, <1>4, <1>8, <1>9, OnePlaceIs, NextOnePlaceIs DEF ReadyIInv, PlaceOf
<1> QED BY <1>2, <1>7, <1>8, <1>10 DEF ReadyIInv, Ready!ThreadAssumption

LEMMA TickKeeps ==
  ASSUME Ready!ThreadAssumption, ReadyIInv, Ready!Tick
  PROVE  ReadyIInv'
<1>1. UNCHANGED <<ready, id, stack, waiting, deadline, blocked>> /\ now' = now + 1 /\ now < MaxTime
  BY DEF Ready!Tick, Ready!timerVars
<1>2. now' \in Ready!Times
  BY <1>1 DEF ReadyIInv, Ready!TypeOK, Ready!Times, Ready!ThreadAssumption
<1>3. Ready!TypeOK'
  BY <1>1, <1>2, ReadyRing, TypeNext DEF ReadyIInv, Ready!TypeOK, Ready!Timer!TypeOK
<1>4. Ready!OnePlace'
  BY <1>1, OnePlaceIs, NextOnePlaceIs DEF ReadyIInv, PlaceOf
<1> QED BY <1>1, <1>3, <1>4 DEF ReadyIInv

LEMMA StutterKeeps ==
  ASSUME ReadyIInv, UNCHANGED Ready!vars
  PROVE  ReadyIInv'
<1>1. UNCHANGED <<ready, id, stack, waiting, deadline, now, blocked>>
  BY DEF Ready!vars, Ready!timerVars
<1>2. Ready!TypeOK'
  BY <1>1, ReadyRing, TypeNext DEF ReadyIInv, Ready!TypeOK, Ready!Timer!TypeOK
<1>3. Ready!OnePlace'
  BY <1>1, OnePlaceIs, NextOnePlaceIs DEF ReadyIInv, PlaceOf
<1> QED BY <1>1, <1>2, <1>3 DEF ReadyIInv

\* A thread is in one place, whatever the number of threads and of tcbs is.
THEOREM ThreadsAreAccounted ==
  ASSUME Ready!ThreadAssumption
  PROVE  Ready!Spec => []ThreadsAccounted
<1>1. Ready!Init => ReadyIInv
  BY ReadyInitIInv
<1>2. ReadyIInv /\ [Ready!Next]_(Ready!vars) => ReadyIInv'
  BY RescheduleKeeps, MakeNotReadyKeeps, WaitUntilKeeps, ExitKeeps, CreateKeeps, MakeReadyKeeps,
     RemoveZombiesKeeps, TickKeeps, StutterKeeps DEF Ready!Next
<1>3. ReadyIInv => ThreadsAccounted
  BY DEF ThreadsAccounted, ReadyIInv, Ready!ThreadsAccounted
<1> QED BY <1>1, <1>2, <1>3, PTL DEF Ready!Spec

\* The tcb that leaves w has the first point in time of those in w, and it is past.
LEMMA DispatchInTime ==
  ASSUME NEW q, NEW w, NEW due, Ready!Dispatch(q, w, due), NEW t \in w, t \notin waiting'
  PROVE  now >= due[t] /\ \A u \in w : due[t] <= due[u]
<1>1. PICK f \in {f \in w : Ready!IsExpired(due[f]) /\ \A u \in w : due[f] <= due[u]} :
        waiting' = w \ {f}
  BY DEF Ready!Dispatch
<1>2. t = f
  BY <1>1
<1> QED BY <1>1, <1>2 DEF Ready!IsExpired

LEMMA StepInTime ==
  ASSUME ReadyIInv, [Ready!Next]_(Ready!vars), NEW t \in waiting, t \notin waiting'
  PROVE  now >= deadline[t] /\ \A u \in waiting : deadline[t] <= deadline[u]
<1>1. ASSUME NEW q, Ready!Dispatch(q, waiting, deadline)
      PROVE  now >= deadline[t] /\ \A u \in waiting : deadline[t] <= deadline[u]
  BY <1>1, DispatchInTime
<1>2. CASE Ready!Reschedule
  BY <1>1, <1>2 DEF Ready!Reschedule
<1>3. ASSUME NEW p \in ReadyTcbs, Ready!MakeNotReady(p)
      PROVE  now >= deadline[t] /\ \A u \in waiting : deadline[t] <= deadline[u]
  BY <1>1, <1>3 DEF Ready!MakeNotReady
<1>4. ASSUME NEW p \in ReadyTcbs, NEW d \in Ready!Times, Ready!WaitUntil(p, d)
      PROVE  now >= deadline[t] /\ \A u \in waiting : deadline[t] <= deadline[u]
  <2>1. p = Ready!pready /\ deadline' = [deadline EXCEPT ![p] = d]
        /\ Ready!Dispatch(Ready!SkipIdle(Ready!Rest), waiting \cup {p}, deadline')
    BY <1>4 DEF Ready!WaitUntil, Ready!Running
  <2>2. p \notin waiting /\ waiting \subseteq ReadyTcbs /\ deadline \in [ReadyTcbs -> Ready!Times]
    BY <2>1, ReadyRing, OnePlaceIs DEF ReadyIInv, Ready!TypeOK, Ready!Timer!TypeOK, PlaceOf
  <2>3. \A u \in waiting : deadline'[u] = deadline[u]
    BY <2>1, <2>2
  <2>4. now >= deadline'[t] /\ \A u \in waiting \cup {p} : deadline'[t] <= deadline'[u]
    <3> DEFINE q == Ready!SkipIdle(Ready!Rest)
               w == waiting \cup {p}
               due == deadline'
    <3>1. Ready!Dispatch(q, w, due) /\ t \in w
      BY <2>1
    <3> HIDE DEF q, w, due
    <3>2. now >= due[t] /\ \A u \in w : due[t] <= due[u]
      BY <3>1, DispatchInTime
    <3> QED BY <3>2 DEF w, due
  <2> QED BY <2>3, <2>4
<1>5. Ready!Next \/ UNCHANGED Ready!vars
  OBVIOUS
<1>6. waiting' # waiting
  OBVIOUS
<1> QED BY <1>2, <1>3, <1>4, <1>5, <1>6
      DEF Ready!Next, Ready!RemoveZombies, Ready!Tick, Ready!Exit, Ready!Create,
      Ready!MakeReady, Ready!timerVars, Ready!vars

\* Nobody is woken early, and nobody before another that is due earlier.
THEOREM ThreadsWokenInTime ==
  ASSUME Ready!ThreadAssumption
  PROVE  Ready!Spec => WokenInTime
<1>1. Ready!Init => ReadyIInv
  BY ReadyInitIInv
<1>2. ReadyIInv /\ [Ready!Next]_(Ready!vars) => ReadyIInv'
  BY RescheduleKeeps, MakeNotReadyKeeps, WaitUntilKeeps, ExitKeeps, CreateKeeps, MakeReadyKeeps,
     RemoveZombiesKeeps, TickKeeps, StutterKeeps DEF Ready!Next
<1>3. ReadyIInv /\ [Ready!Next]_(Ready!vars) =>
        [\A t \in waiting \ waiting' :
           now >= deadline[t] /\ \A u \in waiting : deadline[t] <= deadline[u]]_(Ready!vars)
  BY StepInTime
<1> QED BY <1>1, <1>2, <1>3, PTL DEF Ready!Spec, WokenInTime, Ready!WokenInTime

-----------------------------------------------------------------------------
(* What the interrupts of x86 leave in service, and what resets the machine, *)
(* for any vectors that keep their undefined handler and any number of events. *)
(* Places says what the boot and the driver have done by the time they are *)
(* somewhere: so whenever interrupts are enabled there is a gate for whatever may *)
(* be requested.  Service ties what is in service to the handler that runs. *)

\* Where the boot is over, and interrupts may be enabled.
Driver == {"route", "clear", "fill", "enable", "running"}
Booted == {"ioapic", "keyboard", "sti"} \cup Driver
AllGates == [p : BOOLEAN, ih : {"none", "undefined", "exception", "spurious", "timer_reschedule",
                               "reschedule", "keyboard"}]
Frames == [vec : Intr!Vectors, from : {"apic", "stray", "pic", "int"}, iflag : BOOLEAN]

IntrTypeOK ==
  /\ ipc \in {"idt", "apic", "thread"} \cup Booted
  /\ idt \in [Intr!Vectors -> AllGates]
  /\ frames = <<>> \/ \E f \in Frames : frames = <<f>>
  /\ iflag \in BOOLEAN /\ reset \in BOOLEAN
  /\ isr \subseteq Intr!Vectors
  /\ pic \in [base : {8, 32}, masked : BOOLEAN]
  /\ redir \in [vec : {0} \cup Intr!Vectors, mask : BOOLEAN]
  /\ kbd \in [on : BOOLEAN, keys : Int]

\* What the boot and the driver have done, and so what may be requested.
Places ==
  /\ iflag => ipc \in Driver
  /\ \A i \in DOMAIN frames : frames[i].iflag => ipc \in Driver
  /\ irr \subseteq OtherVecs \cup {Intr!KeyVec, Intr!TimerVec}
  /\ redir.mask \/ redir.vec \in OtherVecs \cup {Intr!KeyVec}
  /\ ipc \notin Driver => redir.mask \/ redir.vec \in OtherVecs
  /\ ipc # "running" => Intr!KeyVec \notin irr
  /\ ipc \in {"sti"} \cup (Driver \ {"running"}) => ~kbd.on
  /\ lvt \in {0, Intr!TimerVec}

\* The gates: each vector has its handler, and only the exceptions' resets.
Gates ==
  ~reset =>
    /\ ipc # "idt" => /\ \A v \in Intr!Exceptions : idt[v] = Intr!Gate("exception")
                      /\ \A v \in OtherVecs : idt[v] = Intr!Gate("undefined")
    /\ ipc \in {"thread"} \cup Booted => pic.masked /\ idt[Intr!Spurious] = Intr!Gate("spurious")
    /\ ipc \in Booted => idt[Intr!TimerVec] = Intr!Gate("timer_reschedule")
    /\ ipc \in {"enable", "running"} => idt[Intr!KeyVec] = Intr!Gate("keyboard")

\* What is in service is what the handler that runs was entered for.
Service ==
  /\ frames = <<>> => isr = {}
  /\ \A i \in DOMAIN frames :
       LET f == frames[i]
       IN \/ f.from = "apic" /\ isr = {f.vec} /\ ipc \in Driver
             /\ (f.vec \in OtherVecs \cup {Intr!TimerVec} \/ (f.vec = Intr!KeyVec /\ ipc = "running"))
          \/ f.from = "int" /\ isr = {} /\ f.vec \in Intr!Exceptions \cup OtherVecs /\ ipc \in Booted
          \/ f.from = "stray" /\ isr = {} /\ f.vec = Intr!Spurious /\ ipc \in Driver

\* A reset is the boot's, or an exception's.
Resets ==
  reset => \/ frames = <<>> /\ ipc \in {"thread", "ioapic"}
           \/ frames # <<>> /\ frames[1].vec \in Intr!Exceptions

IntrIInv == IntrTypeOK /\ Places /\ Gates /\ Service /\ Resets

-----------------------------------------------------------------------------

\* The vectors are told apart.
LEMMA Distinct ==
  ASSUME Intr!InterruptsAssumption
  PROVE  /\ Intr!KeyVec \notin Intr!Exceptions /\ Intr!TimerVec \notin Intr!Exceptions
         /\ Intr!Spurious \notin Intr!Exceptions
         /\ Intr!KeyVec # Intr!TimerVec /\ Intr!KeyVec # Intr!Spurious /\ Intr!TimerVec # Intr!Spurious
         /\ Intr!ReschedVec \notin Intr!Exceptions \cup {Intr!KeyVec, Intr!TimerVec, Intr!Spurious}
         /\ OtherVecs \cap (Intr!Exceptions
              \cup {Intr!KeyVec, Intr!TimerVec, Intr!ReschedVec, Intr!Spurious}) = {}
         /\ Intr!Vectors \subseteq Int
         /\ Intr!Exceptions \cup OtherVecs
              \cup {Intr!KeyVec, Intr!TimerVec, Intr!Spurious, Intr!ReschedVec} \subseteq Intr!Vectors
BY DEF Intr!InterruptsAssumption, Intr!Exceptions, Intr!KeyVec, Intr!TimerVec, Intr!Spurious,
   Intr!ReschedVec, Intr!PicVec, Intr!Vectors

\* What is written to the IDT is a gate.
LEMMA GatesAre ==
  /\ Intr!NoGate \in AllGates
  /\ \A h \in {"undefined", "exception", "spurious", "timer_reschedule", "reschedule",
               "keyboard"} : Intr!Gate(h) \in AllGates
BY DEF Intr!NoGate, Intr!Gate, AllGates

\* The handler that runs is that of the first frame, and there is no other one.
LEMMA OneFrame ==
  ASSUME IntrTypeOK, frames # <<>>
  PROVE  DOMAIN frames = {1} /\ frames[1] \in Frames
BY DEF IntrTypeOK

LEMMA IntrInitIInv == ASSUME Intr!InterruptsAssumption PROVE Intr!Init => IntrIInv
<1>. SUFFICES ASSUME Intr!Init PROVE IntrIInv
  OBVIOUS
<1>1. IntrTypeOK
  <2>1. redir \in [vec : {0} \cup Intr!Vectors, mask : BOOLEAN]
    <3>1. CASE redir = [vec |-> 0, mask |-> TRUE]
      BY <3>1
    <3>2. ASSUME NEW v \in OtherVecs, redir = [vec |-> v, mask |-> FALSE]
          PROVE  redir \in [vec : {0} \cup Intr!Vectors, mask : BOOLEAN]
      <4>1. v \in Intr!Vectors
        BY Distinct
      <4>2. QED
        BY <3>2, <4>1
    <3>3. QED
      BY <3>1, <3>2 DEF Intr!Init
  <2>2. idt \in [Intr!Vectors -> AllGates]
    BY GatesAre DEF Intr!Init
  <2>3. pic \in [base : {8, 32}, masked : BOOLEAN] /\ kbd \in [on : BOOLEAN, keys : Int]
    BY DEF Intr!Init
  <2>4. QED
    BY <2>1, <2>2, <2>3 DEF Intr!Init, IntrTypeOK
<1>2. Places
  BY Distinct DEF Intr!Init, Places, Driver
<1>3. Gates /\ Service /\ Resets
  BY DEF Intr!Init, Gates, Service, Resets, Booted, Driver
<1>4. QED
  BY <1>1, <1>2, <1>3 DEF IntrIInv

-----------------------------------------------------------------------------
(* The boot and the driver.                                                *)

\* The gates are filled.
LEMMA InitIdtKeeps == ASSUME Intr!InterruptsAssumption, IntrIInv, Intr!InitIdt PROVE IntrIInv'
<1>. USE Distinct DEF IntrIInv
<1>1. IntrTypeOK'
  BY GatesAre DEF IntrTypeOK, Intr!Boot, Intr!InThread, Booted, Driver, Intr!InitIdt,
     Intr!Handlers0, Intr!AllUndefined
<1>2. Places'
  BY DEF IntrTypeOK, Places, Intr!Boot, Intr!InThread, Booted, Driver, Intr!Gate,
     Intr!InitIdt, Intr!Handlers0, Intr!AllUndefined
<1>3. Gates'
  BY DEF IntrTypeOK, Places, Gates, Intr!Boot, Intr!InThread, Booted, Driver, Intr!Gate,
     Intr!InitIdt, Intr!Handlers0, Intr!AllUndefined
<1>4. Service'
  BY DEF IntrTypeOK, Places, Gates, Service, Intr!Boot, Intr!InThread, Booted, Driver,
     Intr!Gate, Intr!InitIdt, Intr!Handlers0, Intr!AllUndefined
<1>5. Resets'
  BY DEF IntrTypeOK, Places, Gates, Service, Resets, Intr!Boot, Intr!InThread, Booted, Driver,
     Intr!Gate, Intr!InitIdt, Intr!Handlers0, Intr!AllUndefined
<1>6. QED
  BY <1>1, <1>2, <1>3, <1>4, <1>5

\* The PIC is masked, or the machine is reset.
LEMMA InitApicKeeps == ASSUME Intr!InterruptsAssumption, IntrIInv, Intr!InitApic PROVE IntrIInv'
<1>. USE Distinct DEF IntrIInv
<1>1. IntrTypeOK'
  <2>1. idt' \in [Intr!Vectors -> AllGates]
    BY GatesAre DEF IntrTypeOK, Intr!InitApic
  <2>2. pic' \in [base : {8, 32}, masked : BOOLEAN]
    <3>1. Intr!DisabledPic \in [base : {8, 32}, masked : BOOLEAN]
      BY DEF Intr!DisabledPic
    <3>2. QED
      BY <3>1 DEF IntrTypeOK, Intr!InitApic
  <2>3. QED
    BY <2>1, <2>2 DEF IntrTypeOK, Intr!InitApic, Intr!Boot, Intr!InThread, Booted
<1>2. Places'
  BY DEF IntrTypeOK, Places, Intr!Boot, Intr!InThread, Booted, Driver, Intr!Gate,
     Intr!InitApic, Intr!DisabledPic
<1>3. Gates'
  <2>1. reset' \/ pic'.masked
    BY DEF Intr!InitApic, Intr!DisabledPic
  <2>2. reset' \/ idt' = [idt EXCEPT ![Intr!Spurious] = Intr!Gate("spurious")]
    BY DEF Intr!InitApic
  <2>3. ~reset /\ ipc = "apic" /\ ipc' = "thread"
    BY DEF Intr!InitApic, Intr!Boot, Intr!InThread
  <2>4. QED
    BY <2>1, <2>2, <2>3 DEF IntrTypeOK, Gates, Booted, Driver
<1>4. Service'
  BY DEF IntrTypeOK, Places, Gates, Service, Intr!Boot, Intr!InThread, Booted, Driver,
     Intr!Gate, Intr!InitApic, Intr!DisabledPic
<1>5. Resets'
  BY DEF IntrTypeOK, Places, Gates, Service, Resets, Intr!Boot, Intr!InThread, Booted, Driver,
     Intr!Gate, Intr!InitApic, Intr!DisabledPic
<1>6. QED
  BY <1>1, <1>2, <1>3, <1>4, <1>5

\* The timer has its gate, or the machine is reset.
LEMMA InitThreadKeeps == ASSUME Intr!InterruptsAssumption, IntrIInv, Intr!InitThread PROVE IntrIInv'
<1>. USE Distinct DEF IntrIInv
<1>1. IntrTypeOK'
  <2>1. idt' \in [Intr!Vectors -> AllGates]
    BY GatesAre DEF IntrTypeOK, Intr!InitThread
  <2>2. QED
    BY <2>1 DEF IntrTypeOK, Intr!InitThread, Intr!Boot, Intr!InThread, Booted
<1>2. Places'
  BY DEF IntrTypeOK, Places, Intr!Boot, Intr!InThread, Booted, Driver, Intr!Gate,
     Intr!InitThread
<1>3. Gates'
  <2> SUFFICES ASSUME ~reset' PROVE Gates'
    BY DEF Gates
  <2>1. ipc = "thread" /\ ipc' = "ioapic" /\ ~reset /\ pic' = pic
    BY DEF Intr!InitThread, Intr!Boot, Intr!InThread
  <2>2. idt' = [idt EXCEPT ![Intr!ReschedVec] = Intr!Gate("reschedule"),
         ![Intr!TimerVec] = Intr!Gate("timer_reschedule")]
    BY DEF Intr!InitThread
  <2>3. idt \in [Intr!Vectors -> AllGates]
    BY DEF IntrTypeOK
  <2>4. /\ \A v \in Intr!Exceptions : idt[v] = Intr!Gate("exception")
        /\ \A v \in OtherVecs : idt[v] = Intr!Gate("undefined")
        /\ pic.masked /\ idt[Intr!Spurious] = Intr!Gate("spurious")
    BY <2>1 DEF Gates
  <2>5. idt'[Intr!TimerVec] = Intr!Gate("timer_reschedule")
    BY <2>2, <2>3
  <2>6. \A v \in Intr!Exceptions \cup OtherVecs \cup {Intr!Spurious} : idt'[v] = idt[v]
    BY <2>2, <2>3
  <2>7. QED
    BY <2>1, <2>4, <2>5, <2>6 DEF Gates, Booted, Driver
<1>4. Service'
  BY DEF IntrTypeOK, Places, Gates, Service, Intr!Boot, Intr!InThread, Booted, Driver,
     Intr!Gate, Intr!InitThread
<1>5. Resets'
  BY DEF IntrTypeOK, Places, Gates, Service, Resets, Intr!Boot, Intr!InThread, Booted, Driver,
     Intr!Gate, Intr!InitThread
<1>6. QED
  BY <1>1, <1>2, <1>3, <1>4, <1>5

\* The redirection entries are masked.
LEMMA InitIoapicKeeps == ASSUME Intr!InterruptsAssumption, IntrIInv, Intr!InitIoapic PROVE IntrIInv'
<1>. USE Distinct DEF IntrIInv
<1>1. IntrTypeOK'
  BY GatesAre DEF IntrTypeOK, Intr!Boot, Intr!InThread, Booted, Driver, Intr!InitIoapic,
     Intr!MaskedEntry
<1>2. Places'
  BY DEF IntrTypeOK, Places, Intr!Boot, Intr!InThread, Booted, Driver, Intr!Gate,
     Intr!InitIoapic, Intr!MaskedEntry
<1>3. Gates'
  BY DEF IntrTypeOK, Places, Gates, Intr!Boot, Intr!InThread, Booted, Driver, Intr!Gate,
     Intr!InitIoapic, Intr!MaskedEntry
<1>4. Service'
  BY DEF IntrTypeOK, Places, Gates, Service, Intr!Boot, Intr!InThread, Booted, Driver,
     Intr!Gate, Intr!InitIoapic, Intr!MaskedEntry
<1>5. Resets'
  BY DEF IntrTypeOK, Places, Gates, Service, Resets, Intr!Boot, Intr!InThread, Booted, Driver,
     Intr!Gate, Intr!InitIoapic, Intr!MaskedEntry
<1>6. QED
  BY <1>1, <1>2, <1>3, <1>4, <1>5

\* The device is disabled.
LEMMA InitKeyboardKeeps == ASSUME Intr!InterruptsAssumption, IntrIInv, Intr!InitKeyboard PROVE IntrIInv'
<1>. USE Distinct DEF IntrIInv
<1>1. IntrTypeOK'
  BY GatesAre DEF IntrTypeOK, Intr!Boot, Intr!InThread, Booted, Driver, Intr!InitKeyboard
<1>2. Places'
  BY DEF IntrTypeOK, Places, Intr!Boot, Intr!InThread, Booted, Driver, Intr!Gate,
     Intr!InitKeyboard
<1>3. Gates'
  BY DEF IntrTypeOK, Places, Gates, Intr!Boot, Intr!InThread, Booted, Driver, Intr!Gate,
     Intr!InitKeyboard
<1>4. Service'
  BY DEF IntrTypeOK, Places, Gates, Service, Intr!Boot, Intr!InThread, Booted, Driver,
     Intr!Gate, Intr!InitKeyboard
<1>5. Resets'
  BY DEF IntrTypeOK, Places, Gates, Service, Resets, Intr!Boot, Intr!InThread, Booted, Driver,
     Intr!Gate, Intr!InitKeyboard
<1>6. QED
  BY <1>1, <1>2, <1>3, <1>4, <1>5

\* Interrupts are enabled, when the gates are there.
LEMMA StiKeeps == ASSUME Intr!InterruptsAssumption, IntrIInv, Intr!Sti PROVE IntrIInv'
<1>. USE Distinct DEF IntrIInv
<1>1. IntrTypeOK'
  BY GatesAre DEF IntrTypeOK, Intr!Boot, Intr!InThread, Booted, Driver, Intr!Sti
<1>2. Places'
  BY DEF IntrTypeOK, Places, Intr!Boot, Intr!InThread, Booted, Driver, Intr!Gate, Intr!Sti
<1>3. Gates'
  BY DEF IntrTypeOK, Places, Gates, Intr!Boot, Intr!InThread, Booted, Driver, Intr!Gate,
     Intr!Sti
<1>4. Service'
  BY DEF IntrTypeOK, Places, Gates, Service, Intr!Boot, Intr!InThread, Booted, Driver,
     Intr!Gate, Intr!Sti
<1>5. Resets'
  BY DEF IntrTypeOK, Places, Gates, Service, Resets, Intr!Boot, Intr!InThread, Booted, Driver,
     Intr!Gate, Intr!Sti
<1>6. QED
  BY <1>1, <1>2, <1>3, <1>4, <1>5

\* The keyboard's interrupt is routed.
LEMMA RouteKeeps == ASSUME Intr!InterruptsAssumption, IntrIInv, Intr!Route PROVE IntrIInv'
<1>. USE Distinct DEF IntrIInv
<1>1. IntrTypeOK'
  BY GatesAre DEF IntrTypeOK, Intr!Boot, Intr!InThread, Booted, Driver, Intr!Route
<1>2. Places'
  BY DEF IntrTypeOK, Places, Intr!Boot, Intr!InThread, Booted, Driver, Intr!Gate, Intr!Route
<1>3. Gates'
  BY DEF IntrTypeOK, Places, Gates, Intr!Boot, Intr!InThread, Booted, Driver, Intr!Gate,
     Intr!Route
<1>4. Service'
  BY DEF IntrTypeOK, Places, Gates, Service, Intr!Boot, Intr!InThread, Booted, Driver,
     Intr!Gate, Intr!Route
<1>5. Resets'
  BY DEF IntrTypeOK, Places, Gates, Service, Resets, Intr!Boot, Intr!InThread, Booted, Driver,
     Intr!Gate, Intr!Route
<1>6. QED
  BY <1>1, <1>2, <1>3, <1>4, <1>5

\* Its gate is taken away while the device is disabled.
LEMMA ClearGateKeeps == ASSUME Intr!InterruptsAssumption, IntrIInv, Intr!ClearGate PROVE IntrIInv'
<1>. USE Distinct DEF IntrIInv
<1>1. IntrTypeOK'
  BY GatesAre DEF IntrTypeOK, Intr!Boot, Intr!InThread, Booted, Driver, Intr!ClearGate
<1>2. Places'
  BY DEF IntrTypeOK, Places, Intr!Boot, Intr!InThread, Booted, Driver, Intr!Gate,
     Intr!ClearGate, Intr!NoGate
<1>3. Gates'
  BY DEF IntrTypeOK, Places, Gates, Intr!Boot, Intr!InThread, Booted, Driver, Intr!Gate,
     Intr!ClearGate, Intr!NoGate
<1>4. Service'
  BY DEF IntrTypeOK, Places, Gates, Service, Intr!Boot, Intr!InThread, Booted, Driver,
     Intr!Gate, Intr!ClearGate, Intr!NoGate
<1>5. Resets'
  BY DEF IntrTypeOK, Places, Gates, Service, Resets, Intr!Boot, Intr!InThread, Booted, Driver,
     Intr!Gate, Intr!ClearGate, Intr!NoGate
<1>6. QED
  BY <1>1, <1>2, <1>3, <1>4, <1>5

\* Its gate is there again.
LEMMA FillGateKeeps == ASSUME Intr!InterruptsAssumption, IntrIInv, Intr!FillGate PROVE IntrIInv'
<1>. USE Distinct DEF IntrIInv
<1>1. IntrTypeOK'
  BY GatesAre DEF IntrTypeOK, Intr!Boot, Intr!InThread, Booted, Driver, Intr!FillGate
<1>2. Places'
  BY DEF IntrTypeOK, Places, Intr!Boot, Intr!InThread, Booted, Driver, Intr!Gate, Intr!FillGate
<1>3. Gates'
  BY DEF IntrTypeOK, Places, Gates, Intr!Boot, Intr!InThread, Booted, Driver, Intr!Gate,
     Intr!FillGate
<1>4. Service'
  BY DEF IntrTypeOK, Places, Gates, Service, Intr!Boot, Intr!InThread, Booted, Driver,
     Intr!Gate, Intr!FillGate
<1>5. Resets'
  BY DEF IntrTypeOK, Places, Gates, Service, Resets, Intr!Boot, Intr!InThread, Booted, Driver,
     Intr!Gate, Intr!FillGate
<1>6. QED
  BY <1>1, <1>2, <1>3, <1>4, <1>5

\* And only then it may interrupt.
LEMMA EnableDeviceKeeps == ASSUME Intr!InterruptsAssumption, IntrIInv, Intr!EnableDevice PROVE IntrIInv'
<1>. USE Distinct DEF IntrIInv
<1>1. IntrTypeOK'
  BY GatesAre DEF IntrTypeOK, Intr!Boot, Intr!InThread, Booted, Driver, Intr!EnableDevice
<1>2. Places'
  BY DEF IntrTypeOK, Places, Intr!Boot, Intr!InThread, Booted, Driver, Intr!Gate,
     Intr!EnableDevice
<1>3. Gates'
  BY DEF IntrTypeOK, Places, Gates, Intr!Boot, Intr!InThread, Booted, Driver, Intr!Gate,
     Intr!EnableDevice
<1>4. Service'
  BY DEF IntrTypeOK, Places, Gates, Service, Intr!Boot, Intr!InThread, Booted, Driver,
     Intr!Gate, Intr!EnableDevice
<1>5. Resets'
  BY DEF IntrTypeOK, Places, Gates, Service, Resets, Intr!Boot, Intr!InThread, Booted, Driver,
     Intr!Gate, Intr!EnableDevice
<1>6. QED
  BY <1>1, <1>2, <1>3, <1>4, <1>5

-----------------------------------------------------------------------------
(* The hardware.                                                           *)

\* A key is pressed.
LEMMA PressKeeps == ASSUME Intr!InterruptsAssumption, IntrIInv, Intr!Press PROVE IntrIInv'
<1>. USE Distinct DEF IntrIInv
<1>1. IntrTypeOK'
  BY GatesAre DEF IntrTypeOK, Intr!Boot, Intr!InThread, Booted, Driver, Intr!Press, Intr!Event
<1>2. Places'
  BY DEF IntrTypeOK, Places, Intr!Boot, Intr!InThread, Booted, Driver, Intr!Gate, Intr!Press,
     Intr!Event
<1>3. Gates'
  BY DEF IntrTypeOK, Places, Gates, Intr!Boot, Intr!InThread, Booted, Driver, Intr!Gate,
     Intr!Press, Intr!Event
<1>4. Service'
  BY DEF IntrTypeOK, Places, Gates, Service, Intr!Boot, Intr!InThread, Booted, Driver,
     Intr!Gate, Intr!Press, Intr!Event
<1>5. Resets'
  BY DEF IntrTypeOK, Places, Gates, Service, Resets, Intr!Boot, Intr!InThread, Booted, Driver,
     Intr!Gate, Intr!Press, Intr!Event
<1>6. QED
  BY <1>1, <1>2, <1>3, <1>4, <1>5

\* The IOAPIC requests the vector of the entry.
LEMMA ForwardKeeps == ASSUME Intr!InterruptsAssumption, IntrIInv, Intr!Forward PROVE IntrIInv'
<1>. USE Distinct DEF IntrIInv
<1>1. IntrTypeOK'
  BY GatesAre DEF IntrTypeOK, Intr!Boot, Intr!InThread, Booted, Driver, Intr!Forward,
     Intr!Forwards
<1>2. Places'
  BY DEF IntrTypeOK, Places, Intr!Boot, Intr!InThread, Booted, Driver, Intr!Gate,
     Intr!Forward, Intr!Forwards
<1>3. Gates'
  BY DEF IntrTypeOK, Places, Gates, Intr!Boot, Intr!InThread, Booted, Driver, Intr!Gate,
     Intr!Forward, Intr!Forwards
<1>4. Service'
  BY DEF IntrTypeOK, Places, Gates, Service, Intr!Boot, Intr!InThread, Booted, Driver,
     Intr!Gate, Intr!Forward, Intr!Forwards
<1>5. Resets'
  BY DEF IntrTypeOK, Places, Gates, Service, Resets, Intr!Boot, Intr!InThread, Booted, Driver,
     Intr!Gate, Intr!Forward, Intr!Forwards
<1>6. QED
  BY <1>1, <1>2, <1>3, <1>4, <1>5

\* The timer requests its vector.
LEMMA TimerExpiresKeeps == ASSUME Intr!InterruptsAssumption, IntrIInv, Intr!TimerExpires PROVE IntrIInv'
<1>. USE Distinct DEF IntrIInv
<1>1. IntrTypeOK'
  BY GatesAre DEF IntrTypeOK, Intr!Boot, Intr!InThread, Booted, Driver, Intr!TimerExpires
<1>2. Places'
  BY DEF IntrTypeOK, Places, Intr!Boot, Intr!InThread, Booted, Driver, Intr!Gate,
     Intr!TimerExpires
<1>3. Gates'
  BY DEF IntrTypeOK, Places, Gates, Intr!Boot, Intr!InThread, Booted, Driver, Intr!Gate,
     Intr!TimerExpires
<1>4. Service'
  BY DEF IntrTypeOK, Places, Gates, Service, Intr!Boot, Intr!InThread, Booted, Driver,
     Intr!Gate, Intr!TimerExpires
<1>5. Resets'
  BY DEF IntrTypeOK, Places, Gates, Service, Resets, Intr!Boot, Intr!InThread, Booted, Driver,
     Intr!Gate, Intr!TimerExpires
<1>6. QED
  BY <1>1, <1>2, <1>3, <1>4, <1>5

\* A thread disables or enables interrupts.
LEMMA ToggleKeeps ==
  ASSUME Intr!InterruptsAssumption, IntrIInv, NEW on \in BOOLEAN, Intr!Toggle(on)
  PROVE  IntrIInv'
<1>. USE Distinct DEF IntrIInv
<1>1. IntrTypeOK'
  BY GatesAre DEF IntrTypeOK, Intr!Boot, Intr!InThread, Booted, Driver, Intr!Toggle
<1>2. Places'
  BY DEF IntrTypeOK, Places, Intr!Boot, Intr!InThread, Booted, Driver, Intr!Gate, Intr!Toggle
<1>3. Gates'
  BY DEF IntrTypeOK, Places, Gates, Intr!Boot, Intr!InThread, Booted, Driver, Intr!Gate,
     Intr!Toggle
<1>4. Service'
  BY DEF IntrTypeOK, Places, Gates, Service, Intr!Boot, Intr!InThread, Booted, Driver,
     Intr!Gate, Intr!Toggle
<1>5. Resets'
  BY DEF IntrTypeOK, Places, Gates, Service, Resets, Intr!Boot, Intr!InThread, Booted, Driver,
     Intr!Gate, Intr!Toggle
<1>6. QED
  BY <1>1, <1>2, <1>3, <1>4, <1>5

\* A stray interrupt: it is the APIC's, as the PIC is masked.
LEMMA StrayKeeps == ASSUME Intr!InterruptsAssumption, IntrIInv, Intr!Stray PROVE IntrIInv'
<1>. USE Distinct DEF IntrIInv
<1>1. IntrTypeOK' /\ reset' = FALSE /\ frames # frames'
  <2>1. pic.masked /\ idt[Intr!Spurious] = Intr!Gate("spurious")
    BY DEF Places, Gates, Intr!Stray, Intr!InThread, Booted
  <2>2. Intr!Enter(Intr!Spurious, "stray")
    BY <2>1 DEF Intr!Stray
  <2>3. frames' = <<[vec |-> Intr!Spurious, from |-> "stray", iflag |-> iflag]>>
    BY <2>2 DEF Intr!Enter
  <2>4. [vec |-> Intr!Spurious, from |-> "stray", iflag |-> iflag] \in Frames
    BY DEF Frames, IntrTypeOK
  <2>5. iflag' = FALSE /\ reset' = FALSE
    <3>1. idt[Intr!Spurious].p
      BY <2>1 DEF Intr!Gate
    <3>2. QED
      BY <2>2, <3>1 DEF Intr!Enter
  <2>6. QED
    BY <2>3, <2>4, <2>5 DEF IntrTypeOK, Intr!Stray, Intr!InThread
<1>2. Places'
  BY DEF IntrTypeOK, Places, Intr!Boot, Intr!InThread, Booted, Driver, Intr!Gate, Intr!Stray,
     Intr!Event, Intr!Enter, Frames
<1>3. Gates'
  BY DEF IntrTypeOK, Places, Gates, Intr!Boot, Intr!InThread, Booted, Driver, Intr!Gate,
     Intr!Stray, Intr!Event, Intr!Enter, Frames
<1>4. Service'
  BY DEF IntrTypeOK, Places, Gates, Service, Intr!Boot, Intr!InThread, Booted, Driver,
     Intr!Gate, Intr!Stray, Intr!Event, Intr!Enter, Frames
<1>5. Resets'
  BY <1>1 DEF Resets
<1>6. QED
  BY <1>1, <1>2, <1>3, <1>4, <1>5

\* The vector that is delivered has a gate, and is the only one in service.
LEMMA DeliverKeeps ==
  ASSUME Intr!InterruptsAssumption, IntrIInv, NEW v \in Intr!Vectors, Intr!Deliver(v)
  PROVE  IntrIInv'
<1>. USE Distinct DEF IntrIInv
<1>1. IntrTypeOK'
  BY GatesAre DEF IntrTypeOK, Intr!Boot, Intr!InThread, Booted, Driver, Intr!Deliver,
     Intr!Enter, Frames
<1>2. Places'
  BY DEF IntrTypeOK, Places, Intr!Boot, Intr!InThread, Booted, Driver, Intr!Gate,
     Intr!Deliver, Intr!Enter, Frames
<1>3. Gates'
  BY DEF IntrTypeOK, Places, Gates, Intr!Boot, Intr!InThread, Booted, Driver, Intr!Gate,
     Intr!Deliver, Intr!Enter, Frames
<1>4. Service'
  BY DEF IntrTypeOK, Places, Gates, Service, Intr!Boot, Intr!InThread, Booted, Driver,
     Intr!Gate, Intr!Deliver, Intr!Enter, Frames
<1>5. Resets'
  BY SMTT(30) DEF IntrTypeOK, Places, Gates, Service, Resets, Intr!Boot, Intr!InThread,
     Booted, Driver, Intr!Gate, Intr!Deliver, Intr!Enter, Frames
<1>6. QED
  BY <1>1, <1>2, <1>3, <1>4, <1>5

\* An exception or a software interrupt has a gate, and nothing is in service.
LEMMA SoftIntKeeps ==
  ASSUME Intr!InterruptsAssumption, IntrIInv, NEW v \in Intr!Vectors, Intr!SoftInt(v)
  PROVE  IntrIInv'
<1>. USE Distinct DEF IntrIInv
<1>1. IntrTypeOK'
  <2>1. iflag \in BOOLEAN /\ [vec |-> v, from |-> "int", iflag |-> iflag] \in Frames
    BY DEF IntrTypeOK, Frames
  <2>2. frames' = <<[vec |-> v, from |-> "int", iflag |-> iflag]>>
    BY DEF Intr!SoftInt, Intr!Enter
  <2>3. \E f \in Frames : frames' = <<f>>
    BY <2>1, <2>2
  <2>4. reset' \in BOOLEAN /\ iflag' \in BOOLEAN
    BY DEF Intr!SoftInt, Intr!Enter
  <2>5. QED
    BY <2>3, <2>4 DEF IntrTypeOK, Intr!SoftInt
<1>2. Places'
  BY DEF IntrTypeOK, Places, Intr!Boot, Intr!InThread, Booted, Driver, Intr!Gate,
     Intr!SoftInt, Intr!Event, Intr!Enter, Frames
<1>3. Gates'
  BY DEF IntrTypeOK, Places, Gates, Intr!Boot, Intr!InThread, Booted, Driver, Intr!Gate,
     Intr!SoftInt, Intr!Event, Intr!Enter, Frames
<1>4. Service'
  BY DEF IntrTypeOK, Places, Gates, Service, Intr!Boot, Intr!InThread, Booted, Driver,
     Intr!Gate, Intr!SoftInt, Intr!Event, Intr!Enter, Frames
<1>5. Resets'
  BY DEF IntrTypeOK, Places, Gates, Service, Resets, Intr!Boot, Intr!InThread, Booted, Driver,
     Intr!Gate, Intr!SoftInt, Intr!Event, Intr!Enter, Frames
<1>6. QED
  BY <1>1, <1>2, <1>3, <1>4, <1>5

-----------------------------------------------------------------------------
(* The handlers.                                                           *)

\* The end of interrupt ends what the handler was entered for.
LEMMA EoiEnds ==
  ASSUME Intr!InterruptsAssumption, IntrIInv, frames # <<>>, Intr!Eoi
  PROVE  isr' = {}
<1>1. isr = {} \/ isr = {frames[1].vec}
  BY OneFrame DEF IntrIInv, Service
<1>2. CASE isr = {}
  BY <1>2 DEF Intr!Eoi
<1>3. CASE isr = {frames[1].vec}
  <2>1. (CHOOSE w \in isr : \A u \in isr : u <= w) = frames[1].vec
    <3>1. frames[1].vec \in Int
      BY OneFrame, Distinct DEF IntrIInv, Frames
    <3>2. QED
      BY <1>3, <3>1
  <2>2. QED
    BY <1>3, <2>1 DEF Intr!Eoi
<1>4. QED
  BY <1>1, <1>2, <1>3

\* A return from a handler, whatever else it changes of the device and the counters.
LEMMA IretKeeps ==
  ASSUME Intr!InterruptsAssumption, IntrIInv, ~reset, frames # <<>>, Intr!Iret, isr' = {},
         UNCHANGED <<ipc, idt, irr, lvt, pic, redir, reset>>,
         kbd' \in [on : BOOLEAN, keys : Int], kbd'.on = kbd.on
  PROVE  IntrIInv'
<1>. USE OneFrame DEF IntrIInv, Intr!Iret
<1>1. IntrTypeOK'
  BY DEF IntrTypeOK, Frames
<1>2. Places'
  BY DEF IntrTypeOK, Places, Driver
<1>3. Gates'
  BY DEF Gates, Booted, Driver
<1>4. Service' /\ Resets'
  BY DEF Service, Resets
<1>5. QED
  BY <1>1, <1>2, <1>3, <1>4

\* The handler of an exception resets: its frame stays.
LEMMA IntrKeeps ==
  ASSUME IntrIInv, NEW vecs \in SUBSET Intr!Exceptions, Intr!Intr(vecs)
  PROVE  IntrIInv'
<1>. USE DEF IntrIInv, Intr!Intr, Intr!Handles
<1>1. IntrTypeOK'
  BY DEF IntrTypeOK
<1>2. Places'
  BY DEF Places, Driver
<1>3. Gates' /\ Service' /\ Resets'
  BY DEF Gates, Service, Resets, Driver, Booted
<1>4. QED
  BY <1>1, <1>2, <1>3

\* No handler but an exception's leaves anything in service.
LEMMA HandlerKeeps == ASSUME Intr!InterruptsAssumption, IntrIInv, Intr!Handler PROVE IntrIInv'
<1>1. kbd \in [on : BOOLEAN, keys : Int]
  BY DEF IntrIInv, IntrTypeOK
<1>2. CASE Intr!Undefined
  BY <1>1, <1>2, EoiEnds, IretKeeps DEF Intr!Undefined, Intr!Handles
<1>3. CASE Intr!Exception
  BY <1>3, IntrKeeps DEF Intr!Exception
<1>4. CASE Intr!ErrorException
  BY <1>4, IntrKeeps DEF Intr!ErrorException, Intr!WithErrorCode, Intr!Exceptions
<1>5. CASE Intr!SpuriousIsr
  <2>1. frames[1].from # "apic"
    <3>1. frames[1].from = "apic" => idt[frames[1].vec].ih # "spurious"
      BY <1>5, Distinct, OneFrame DEF Intr!SpuriousIsr, Intr!Handles, IntrIInv, Service,
         Gates, Intr!Gate, Booted, Driver
    <3>2. QED
      BY <1>5, <3>1 DEF Intr!SpuriousIsr, Intr!Handles
  <2>2. isr = {}
    BY <1>5, <2>1, OneFrame DEF Intr!SpuriousIsr, Intr!Handles, IntrIInv, Service
  <2>3. QED
    BY <1>1, <1>5, <2>2, IretKeeps DEF Intr!SpuriousIsr, Intr!Handles
<1>6. CASE Intr!TimerReschedule
  BY <1>1, <1>6, EoiEnds, IretKeeps DEF Intr!TimerReschedule, Intr!Handles
<1>7. CASE Intr!KeyboardIsr
  <2>1. kbd' = [on |-> kbd.on, keys |-> IF kbd.keys > 0 THEN kbd.keys - 1 ELSE 0]
    BY <1>1, <1>7 DEF Intr!KeyboardIsr
  <2>2. kbd' \in [on : BOOLEAN, keys : Int] /\ kbd'.on = kbd.on
    BY <1>1, <2>1
  <2>3. QED
    BY <1>7, <2>2, EoiEnds, IretKeeps DEF Intr!KeyboardIsr, Intr!Handles
<1>8. QED
  BY <1>2, <1>3, <1>4, <1>5, <1>6, <1>7 DEF Intr!Handler

-----------------------------------------------------------------------------

LEMMA IntrNextIInv ==
  ASSUME Intr!InterruptsAssumption
  PROVE  IntrIInv /\ [Intr!Next]_(Intr!ivars) => IntrIInv'
<1>. SUFFICES ASSUME IntrIInv, [Intr!Next]_(Intr!ivars) PROVE IntrIInv'
  OBVIOUS
<1>1. CASE Intr!Program
  BY <1>1, InitIdtKeeps, InitApicKeeps, InitThreadKeeps, InitIoapicKeeps, InitKeyboardKeeps,
     StiKeeps, RouteKeeps, ClearGateKeeps, FillGateKeeps, EnableDeviceKeeps DEF Intr!Program
<1>2. CASE Intr!Handler
  BY <1>2, HandlerKeeps
<1>3. CASE Intr!Press \/ Intr!Forward \/ Intr!TimerExpires \/ Intr!Stray
  BY <1>3, PressKeeps, ForwardKeeps, TimerExpiresKeeps, StrayKeeps
<1>4. ASSUME NEW v \in Intr!Vectors, Intr!Deliver(v) \/ Intr!SoftInt(v) PROVE IntrIInv'
  BY <1>4, DeliverKeeps, SoftIntKeeps
<1>5. ASSUME NEW on \in BOOLEAN, Intr!Toggle(on) PROVE IntrIInv'
  BY <1>5, ToggleKeeps
<1>6. CASE UNCHANGED Intr!ivars
  BY <1>6 DEF Intr!ivars, IntrIInv, IntrTypeOK, Places, Gates, Service, Resets
<1>7. QED
  BY <1>1, <1>2, <1>3, <1>4, <1>5, <1>6 DEF Intr!Next

\* Outside of a handler nothing is in service, so that no EOI is missing; and only the
\* boot and the exceptions reset the machine, no device's or stray interrupt.
THEOREM NothingStaysInService ==
  ASSUME Intr!InterruptsAssumption
  PROVE  Intr!Spec => []HandledOrReset
<1>1. IntrIInv => HandledOrReset
  BY OneFrame DEF HandledOrReset, IntrIInv, Service, Resets, Intr!HandledOrReset
<1>2. QED
  BY <1>1, IntrInitIInv, IntrNextIInv, PTL DEF Intr!Spec

-----------------------------------------------------------------------------
(* The table of the ARM's interrupt handlers, for any threads and programs. *)
(* As long as registrations do not race, one thread registers, in the entry at *)
(* the count (OneRegisters), and so the count covers what is registered.   *)

Entries == [available : BOOLEAN, param : Int, iacs : BOOLEAN, handler : BOOLEAN]

IrqTypeOK ==
  /\ table \in [0 .. IrqSlots - 1 -> Entries]
  /\ hcount \in Nat
  /\ todo \in [IrqThreads -> Seq(Nat)]
  /\ rpc \in [IrqThreads -> {"idle", "claim", "param", "handler", "count", "start"}]
  /\ hat \in [IrqThreads -> [i : Nat, read : Nat]]
  /\ ok \subseteq Nat
  /\ raced \in BOOLEAN

\* A thread registers what is next in its todo; an entry that has a handler is complete.
Complete ==
  /\ \A p \in IrqThreads : rpc[p] # "idle" => todo[p] # <<>>
  /\ \A i \in DOMAIN table : table[i].handler => table[i].iacs /\ table[i].param # Irq!None

\* Registering, and not only about to start its timer.
InTable(p) == rpc[p] \in {"claim", "param", "handler", "count"}

\* As long as registrations do not race: one thread registers, in the entry at the count,
\* and what it read of the count is the count.
OneRegisters ==
  /\ \A p, q \in IrqThreads : InTable(p) /\ InTable(q) => p = q
  /\ \A p \in IrqThreads :
       /\ InTable(p) => hat[p].i = hcount
       /\ rpc[p] \in {"param", "handler", "count"} => hcount < IrqSlots
       /\ rpc[p] = "count" =>
            /\ hat[p].read = hcount
            /\ table[hcount].handler /\ table[hcount].param = Head(todo[p])

AllCalled == \A t \in ok : \E i \in DOMAIN table : Irq!Called(i) /\ table[i].param = t

IrqIInv == IrqTypeOK /\ Complete /\ (raced \/ (OneRegisters /\ AllCalled))

LEMMA IrqInitIInv ==
  ASSUME Irq!IrqAssumption, Irq!Init
  PROVE  IrqIInv
<1>1. IrqTypeOK
  <2>1. Irq!Entry(FALSE, 0, TRUE, TRUE) \in Entries /\ Irq!Entry(TRUE, Irq!None, FALSE, FALSE) \in Entries
    BY DEF Irq!Entry, Entries, Irq!None
  <2>2. table \in [0 .. IrqSlots - 1 -> Entries]
    BY <2>1 DEF Irq!Init
  <2>3. todo \in [IrqThreads -> Seq(Nat)]
    BY DEF Irq!IrqAssumption, Irq!Init
  <2>4. hat \in [IrqThreads -> [i : Nat, read : Nat]]
    BY DEF Irq!Init
  <2>5. rpc \in [IrqThreads -> {"idle", "claim", "param", "handler", "count", "start"}]
    BY DEF Irq!Init
  <2>6. hcount = 1 /\ ok = {0} /\ raced = FALSE
    BY DEF Irq!Init
  <2>7. hcount \in Nat /\ ok \subseteq Nat
    BY <2>6
  <2>8. raced \in BOOLEAN
    BY <2>6, Zenon
  <2> QED BY <2>2, <2>3, <2>4, <2>5, <2>7, <2>8, Zenon DEF IrqTypeOK
<1>2. Complete
  BY DEF Irq!IrqAssumption, Irq!Init, Complete, Irq!Entry, Irq!None
<1>3. OneRegisters
  BY DEF Irq!Init, OneRegisters, InTable
<1>4. AllCalled
  <2>1. 0 \in DOMAIN table /\ table[0] = Irq!Entry(FALSE, 0, TRUE, TRUE) /\ ok = {0} /\ hcount = 1
    <3>1. 0 \in 0 .. IrqSlots - 1
      BY DEF Irq!IrqAssumption
    <3> QED BY <3>1 DEF Irq!Init
  <2>2. Irq!Called(0) /\ table[0].param = 0
    BY <2>1 DEF Irq!Called, Irq!Entry
  <2> QED BY <2>1, <2>2 DEF AllCalled
<1> QED BY <1>1, <1>2, <1>3, <1>4 DEF IrqIInv

\* What a step of a registration changes of rpc.
LEMMA StepIs ==
  ASSUME IrqTypeOK, NEW p \in IrqThreads, NEW from, NEW to, Irq!Step(p, from, to),
         to \in {"idle", "claim", "param", "handler", "count", "start"}
  PROVE  /\ rpc' \in [IrqThreads -> {"idle", "claim", "param", "handler", "count", "start"}]
         /\ rpc[p] = from /\ rpc'[p] = to
         /\ \A q \in IrqThreads \ {p} : rpc'[q] = rpc[q]
  BY DEF IrqTypeOK, Irq!Step

LEMMA RegisterKeeps ==
  ASSUME Irq!IrqAssumption, IrqIInv, NEW p \in IrqThreads, Irq!Register(p)
  PROVE  IrqIInv'
<1>1. /\ rpc' \in [IrqThreads -> {"idle", "claim", "param", "handler", "count", "start"}]
      /\ rpc[p] = "idle" /\ rpc'[p] = "claim" /\ \A q \in IrqThreads \ {p} : rpc'[q] = rpc[q]
  BY StepIs DEF Irq!Register, IrqIInv
<1>2. /\ todo[p] # <<>> /\ hat' = [hat EXCEPT ![p].i = hcount]
      /\ raced' = (raced \/ \E q \in IrqThreads \ {p} : rpc[q] \notin {"idle", "start"})
      /\ UNCHANGED <<table, hcount, todo, ok>>
  BY DEF Irq!Register
<1>3. /\ hat' \in [IrqThreads -> [i : Nat, read : Nat]]
      /\ hat'[p].i = hcount /\ \A q \in IrqThreads \ {p} : hat'[q] = hat[q]
  BY <1>2 DEF IrqIInv, IrqTypeOK
<1>4. raced' \in BOOLEAN
  BY <1>2, Zenon DEF IrqIInv, IrqTypeOK
<1>5. IrqTypeOK'
  BY <1>1, <1>2, <1>3, <1>4 DEF IrqIInv, IrqTypeOK
<1>6. Complete'
  BY <1>1, <1>2 DEF IrqIInv, Complete
<1>7. ~raced' => OneRegisters'
  <2> SUFFICES ASSUME ~raced' PROVE OneRegisters'
    OBVIOUS
  <2>1. ~raced /\ \A q \in IrqThreads \ {p} : ~InTable(q) /\ ~InTable(q)'
    BY <1>1, <1>2 DEF InTable
  <2>2. \A q, r \in IrqThreads : InTable(q)' /\ InTable(r)' => q = r
    BY <2>1
  <2> QED BY <1>1, <1>2, <1>3, <2>1, <2>2 DEF IrqIInv, OneRegisters, InTable
<1>8. ~raced' => AllCalled'
  BY <1>2 DEF IrqIInv, AllCalled, Irq!Called
<1> QED BY <1>4, <1>5, <1>6, <1>7, <1>8 DEF IrqIInv

LEMMA ClaimKeeps ==
  ASSUME Irq!IrqAssumption, IrqIInv, NEW p \in IrqThreads, Irq!Claim(p)
  PROVE  IrqIInv'
<1>1. /\ rpc' \in [IrqThreads -> {"idle", "claim", "param", "handler", "count", "start"}]
      /\ rpc[p] = "claim" /\ rpc'[p] = "param" /\ \A q \in IrqThreads \ {p} : rpc'[q] = rpc[q]
  BY StepIs DEF Irq!Claim, IrqIInv
<1>2. /\ hat[p].i < IrqSlots /\ table' = [table EXCEPT ![hat[p].i].available = FALSE]
      /\ UNCHANGED <<raced, hcount, todo, hat, ok>>
  BY DEF Irq!Claim
<1>3. /\ table' \in [0 .. IrqSlots - 1 -> Entries]
      /\ \A i \in DOMAIN table : /\ table'[i].handler = table[i].handler
                                 /\ table'[i].iacs = table[i].iacs
                                 /\ table'[i].param = table[i].param
  BY <1>2 DEF IrqIInv, IrqTypeOK, Entries
<1>4. DOMAIN table = 0 .. IrqSlots - 1 /\ DOMAIN table' = 0 .. IrqSlots - 1
  BY <1>3 DEF IrqIInv, IrqTypeOK
<1>5. IrqTypeOK'
  BY <1>1, <1>2, <1>3 DEF IrqIInv, IrqTypeOK
<1>6. Complete'
  BY <1>1, <1>2, <1>3, <1>4 DEF IrqIInv, Complete
<1>7. ~raced' => OneRegisters'
  <2> SUFFICES ASSUME ~raced PROVE OneRegisters'
    BY <1>2
  <2>1. \A q \in IrqThreads : InTable(q)' <=> InTable(q)
    BY <1>1 DEF InTable
  <2>2. \A q \in IrqThreads \ {p} : ~InTable(q) /\ ~InTable(q)'
    BY <2>1, <1>1 DEF IrqIInv, OneRegisters, InTable
  <2> QED BY <1>1, <1>2, <2>1, <2>2 DEF IrqIInv, OneRegisters, InTable
<1>8. ~raced' => AllCalled'
  BY <1>2, <1>3, <1>4 DEF IrqIInv, AllCalled, Irq!Called
<1> QED BY <1>2, <1>5, <1>6, <1>7, <1>8 DEF IrqIInv

LEMMA ClaimFailsKeeps ==
  ASSUME Irq!IrqAssumption, IrqIInv, NEW p \in IrqThreads, Irq!ClaimFails(p)
  PROVE  IrqIInv'
<1>1. CASE Irq!Step(p, "claim", "claim") /\ hat' = [hat EXCEPT ![p].i = @ + 1] /\ raced' = TRUE
           /\ UNCHANGED <<todo, table, hcount, ok>>
  <2>1. /\ rpc' \in [IrqThreads -> {"idle", "claim", "param", "handler", "count", "start"}]
        /\ rpc[p] = "claim" /\ rpc'[p] = "claim" /\ \A q \in IrqThreads \ {p} : rpc'[q] = rpc[q]
    BY <1>1, StepIs DEF IrqIInv
  <2>2. hat' \in [IrqThreads -> [i : Nat, read : Nat]]
    <3>1. hat[p] \in [i : Nat, read : Nat]
      BY DEF IrqIInv, IrqTypeOK
    <3>2. [hat[p] EXCEPT !.i = @ + 1] \in [i : Nat, read : Nat]
      BY <3>1
    <3> QED BY <1>1, <3>1, <3>2 DEF IrqIInv, IrqTypeOK
  <2>3. IrqTypeOK'
    BY <1>1, <2>1, <2>2 DEF IrqIInv, IrqTypeOK
  <2>4. Complete'
    BY <1>1, <2>1 DEF IrqIInv, Complete
  <2> QED BY <1>1, <2>3, <2>4 DEF IrqIInv
<1>2. CASE Irq!Step(p, "claim", "idle") /\ todo' = [todo EXCEPT ![p] = Tail(@)]
           /\ UNCHANGED <<hat, raced, table, hcount, ok>>
  <2>1. /\ rpc' \in [IrqThreads -> {"idle", "claim", "param", "handler", "count", "start"}]
        /\ rpc[p] = "claim" /\ rpc'[p] = "idle" /\ \A q \in IrqThreads \ {p} : rpc'[q] = rpc[q]
    BY <1>2, StepIs DEF IrqIInv
  <2>2. todo' \in [IrqThreads -> Seq(Nat)] /\ \A q \in IrqThreads \ {p} : todo'[q] = todo[q]
    BY <1>2, <2>1 DEF IrqIInv, IrqTypeOK, Complete
  <2>3. IrqTypeOK'
    BY <1>2, <2>1, <2>2 DEF IrqIInv, IrqTypeOK
  <2>4. Complete'
    BY <1>2, <2>1, <2>2 DEF IrqIInv, Complete
  <2>5. ~raced' => OneRegisters'
    <3> SUFFICES ASSUME ~raced PROVE OneRegisters'
      BY <1>2
    <3>1. \A q \in IrqThreads : ~InTable(q)'
      BY <2>1 DEF IrqIInv, OneRegisters, InTable
    <3> QED BY <3>1 DEF OneRegisters, InTable
  <2>6. ~raced' => AllCalled'
    BY <1>2 DEF IrqIInv, AllCalled, Irq!Called
  <2> QED BY <1>2, <2>3, <2>4, <2>5, <2>6 DEF IrqIInv
<1> QED BY <1>1, <1>2 DEF Irq!ClaimFails

LEMMA StoreParamKeeps ==
  ASSUME Irq!IrqAssumption, IrqIInv, NEW p \in IrqThreads, Irq!StoreParam(p)
  PROVE  IrqIInv'
<1>1. /\ rpc' \in [IrqThreads -> {"idle", "claim", "param", "handler", "count", "start"}]
      /\ rpc[p] = "param" /\ rpc'[p] = "handler" /\ \A q \in IrqThreads \ {p} : rpc'[q] = rpc[q]
  BY StepIs DEF Irq!StoreParam, IrqIInv
<1>2. /\ table' = [table EXCEPT ![hat[p].i] = Irq!FirstStored(@, Head(todo[p]))]
      /\ UNCHANGED <<raced, hcount, todo, hat, ok>>
  BY DEF Irq!StoreParam
<1>3. Head(todo[p]) \in Nat
  BY <1>1 DEF IrqIInv, IrqTypeOK, Complete
<1>4. /\ table' \in [0 .. IrqSlots - 1 -> Entries]
      /\ \A i \in DOMAIN table : /\ table'[i].handler = table[i].handler
                                 /\ i # hat[p].i => table'[i] = table[i]
                                 /\ i = hat[p].i => table'[i].iacs /\ table'[i].param # Irq!None
  <2> DEFINE e == Irq!FirstStored(table[hat[p].i], Head(todo[p]))
  <2>1. hat[p].i \in DOMAIN table => /\ e \in Entries /\ e.handler = table[hat[p].i].handler
                                     /\ e.iacs /\ e.param # Irq!None
    <3> SUFFICES ASSUME hat[p].i \in DOMAIN table
                 PROVE  e \in Entries /\ e.handler = table[hat[p].i].handler /\ e.iacs /\ e.param # Irq!None
      OBVIOUS
    <3> DEFINE r == table[hat[p].i]
               u == Head(todo[p])
    <3>1. r \in Entries
      BY DEF IrqIInv, IrqTypeOK
    <3>2. e = [r EXCEPT !.param = u, !.iacs = TRUE] /\ u \in Nat
      BY <1>3 DEF Irq!FirstStored
    <3> HIDE DEF r, u, e
    <3>3. e \in Entries
      <4>1. u \in Int
        BY <3>2
      <4> QED BY <3>1, <3>2, <4>1 DEF Entries
    <3>4. e.handler = r.handler /\ e.iacs = TRUE /\ e.param = u
      BY <3>1, <3>2 DEF Entries
    <3> QED BY <3>2, <3>3, <3>4 DEF r, Irq!None
  <2>2. table' = [table EXCEPT ![hat[p].i] = e]
    BY <1>2
  <2> HIDE DEF e
  <2> QED BY <2>1, <2>2 DEF IrqIInv, IrqTypeOK
<1>5. DOMAIN table = 0 .. IrqSlots - 1 /\ DOMAIN table' = 0 .. IrqSlots - 1
  BY <1>4 DEF IrqIInv, IrqTypeOK
<1>6. IrqTypeOK'
  BY <1>1, <1>2, <1>4 DEF IrqIInv, IrqTypeOK
<1>7. Complete'
  BY <1>1, <1>2, <1>4, <1>5 DEF IrqIInv, Complete
<1>8. ~raced' => OneRegisters'
  <2> SUFFICES ASSUME ~raced PROVE OneRegisters'
    BY <1>2
  <2>1. \A q \in IrqThreads : InTable(q)' <=> InTable(q)
    BY <1>1 DEF InTable
  <2>2. \A q \in IrqThreads \ {p} : ~InTable(q) /\ ~InTable(q)'
    BY <2>1, <1>1 DEF IrqIInv, OneRegisters, InTable
  <2> QED BY <1>1, <1>2, <2>1, <2>2 DEF IrqIInv, OneRegisters, InTable
<1>9. ~raced' => AllCalled'
  <2> SUFFICES ASSUME ~raced PROVE AllCalled'
    BY <1>2
  <2>1. hat[p].i = hcount
    BY <1>1 DEF IrqIInv, OneRegisters, InTable
  <2>2. \A i \in DOMAIN table : i < hcount => table'[i] = table[i]
    BY <1>4, <1>5, <2>1 DEF IrqIInv, IrqTypeOK
  <2> QED BY <1>2, <1>5, <2>2 DEF IrqIInv, AllCalled, Irq!Called
<1> QED BY <1>2, <1>6, <1>7, <1>8, <1>9 DEF IrqIInv

LEMMA StoreHandlerKeeps ==
  ASSUME Irq!IrqAssumption, IrqIInv, NEW p \in IrqThreads, Irq!StoreHandler(p)
  PROVE  IrqIInv'
<1>1. /\ rpc' \in [IrqThreads -> {"idle", "claim", "param", "handler", "count", "start"}]
      /\ rpc[p] = "handler" /\ rpc'[p] = "count" /\ \A q \in IrqThreads \ {p} : rpc'[q] = rpc[q]
  BY StepIs DEF Irq!StoreHandler, IrqIInv
<1>2. /\ table' = [table EXCEPT ![hat[p].i] = Irq!Entry(FALSE, Head(todo[p]), TRUE, TRUE)]
      /\ hat' = [hat EXCEPT ![p].read = hcount]
      /\ UNCHANGED <<raced, hcount, todo, ok>>
  BY DEF Irq!StoreHandler
<1>3. Head(todo[p]) \in Nat
  BY <1>1 DEF IrqIInv, IrqTypeOK, Complete
<1>4. /\ table' \in [0 .. IrqSlots - 1 -> Entries]
      /\ \A i \in DOMAIN table : /\ i # hat[p].i => table'[i] = table[i]
                                 /\ i = hat[p].i => /\ table'[i].iacs /\ table'[i].param # Irq!None
                                                    /\ table'[i].handler
                                                    /\ table'[i].param = Head(todo[p])
  <2> DEFINE e == Irq!Entry(FALSE, Head(todo[p]), TRUE, TRUE)
  <2>1. /\ e \in Entries /\ e.handler /\ e.iacs
        /\ e.param # Irq!None /\ e.param = Head(todo[p])
    BY <1>3 DEF Entries, Irq!Entry, Irq!None
  <2>2. table' = [table EXCEPT ![hat[p].i] = e]
    BY <1>2
  <2> HIDE DEF e
  <2> QED BY <2>1, <2>2 DEF IrqIInv, IrqTypeOK
<1>5. DOMAIN table = 0 .. IrqSlots - 1 /\ DOMAIN table' = 0 .. IrqSlots - 1
  BY <1>4 DEF IrqIInv, IrqTypeOK
<1>6. /\ hat' \in [IrqThreads -> [i : Nat, read : Nat]] /\ hat'[p].read = hcount
      /\ hat'[p].i = hat[p].i /\ \A q \in IrqThreads \ {p} : hat'[q] = hat[q]
  BY <1>2 DEF IrqIInv, IrqTypeOK
<1>7. IrqTypeOK'
  BY <1>1, <1>2, <1>4, <1>6 DEF IrqIInv, IrqTypeOK
<1>8. Complete'
  BY <1>1, <1>2, <1>4, <1>5 DEF IrqIInv, Complete
<1>9. ~raced' => OneRegisters'
  <2> SUFFICES ASSUME ~raced PROVE OneRegisters'
    BY <1>2
  <2>1. \A q \in IrqThreads : InTable(q)' <=> InTable(q)
    BY <1>1 DEF InTable
  <2>2. \A q \in IrqThreads \ {p} : ~InTable(q) /\ ~InTable(q)'
    BY <2>1, <1>1 DEF IrqIInv, OneRegisters, InTable
  <2>3. hat[p].i = hcount /\ hcount < IrqSlots /\ hcount \in DOMAIN table
    BY <1>1, <1>5 DEF IrqIInv, OneRegisters, InTable, IrqTypeOK, Irq!IrqAssumption
  <2>4. table'[hcount].handler /\ table'[hcount].param = Head(todo[p])
    BY <1>4, <2>3
  <2>5. \A q \in IrqThreads : rpc'[q] \in {"param", "handler", "count"} => q = p
    BY <2>2 DEF InTable
  <2>6. \A q, r \in IrqThreads : InTable(q)' /\ InTable(r)' => q = r
    BY <2>2
  <2>7. InTable(p)' => hat'[p].i = hcount'
    BY <1>2, <1>6, <2>3
  <2>8. \A q \in IrqThreads : InTable(q)' => q = p
    BY <2>2
  <2> QED BY <1>1, <1>2, <1>6, <2>3, <2>4, <2>5, <2>6, <2>7, <2>8 DEF OneRegisters
<1>10. ~raced' => AllCalled'
  <2> SUFFICES ASSUME ~raced PROVE AllCalled'
    BY <1>2
  <2>1. hat[p].i = hcount
    BY <1>1 DEF IrqIInv, OneRegisters, InTable
  <2>2. \A i \in DOMAIN table : i < hcount => table'[i] = table[i]
    BY <1>4, <1>5, <2>1 DEF IrqIInv, IrqTypeOK
  <2> QED BY <1>2, <1>5, <2>2 DEF IrqIInv, AllCalled, Irq!Called
<1> QED BY <1>2, <1>7, <1>8, <1>9, <1>10 DEF IrqIInv

LEMMA CountKeeps ==
  ASSUME Irq!IrqAssumption, IrqIInv, NEW p \in IrqThreads, Irq!Count(p)
  PROVE  IrqIInv'
<1>1. /\ rpc' \in [IrqThreads -> {"idle", "claim", "param", "handler", "count", "start"}]
      /\ rpc[p] = "count" /\ rpc'[p] = "start" /\ \A q \in IrqThreads \ {p} : rpc'[q] = rpc[q]
  BY StepIs DEF Irq!Count, IrqIInv
<1>2. /\ hcount' = hat[p].read + 1 /\ ok' = ok \cup {Head(todo[p])}
      /\ UNCHANGED <<raced, table, todo, hat>>
  BY DEF Irq!Count, Irq!Counted
<1>3. Head(todo[p]) \in Nat
  BY <1>1 DEF IrqIInv, IrqTypeOK, Complete
<1>4. hcount' \in Nat
  BY <1>2 DEF IrqIInv, IrqTypeOK
<1>5. IrqTypeOK'
  BY <1>1, <1>2, <1>3, <1>4 DEF IrqIInv, IrqTypeOK
<1>6. Complete'
  BY <1>1, <1>2 DEF IrqIInv, Complete
<1>7. ~raced' => OneRegisters'
  <2> SUFFICES ASSUME ~raced PROVE OneRegisters'
    BY <1>2
  <2>1. \A q \in IrqThreads : ~InTable(q)'
    BY <1>1 DEF IrqIInv, OneRegisters, InTable
  <2> QED BY <2>1 DEF OneRegisters, InTable
<1>8. ~raced' => AllCalled'
  <2> SUFFICES ASSUME ~raced PROVE AllCalled'
    BY <1>2
  <2>1. /\ hcount' = hcount + 1 /\ hcount \in DOMAIN table /\ hcount \in Nat
        /\ table[hcount].handler /\ table[hcount].param = Head(todo[p])
    <3>1. hat[p].read = hcount /\ hcount < IrqSlots /\ hcount \in Nat
          /\ table[hcount].handler /\ table[hcount].param = Head(todo[p])
      BY <1>1 DEF IrqIInv, IrqTypeOK, OneRegisters
    <3>2. hcount \in 0 .. IrqSlots - 1
      BY <3>1 DEF Irq!IrqAssumption
    <3> QED BY <1>2, <3>1, <3>2 DEF IrqIInv, IrqTypeOK
  <2>2. \A i \in DOMAIN table : Irq!Called(i) => Irq!Called(i)'
    BY <1>2, <2>1 DEF Irq!Called, IrqIInv, IrqTypeOK
  <2>4. \E i \in DOMAIN table' : Irq!Called(i)' /\ table'[i].param = Head(todo[p])
    <3> DEFINE c == hcount
    <3>1. c < hcount' /\ table'[c].handler /\ table'[c].param = Head(todo[p]) /\ c \in DOMAIN table'
      BY <1>2, <2>1
    <3> HIDE DEF c
    <3> QED BY <3>1 DEF Irq!Called
  <2> QED BY <1>2, <2>2, <2>4 DEF IrqIInv, AllCalled
<1> QED BY <1>2, <1>5, <1>6, <1>7, <1>8 DEF IrqIInv

LEMMA StartTimerKeeps ==
  ASSUME Irq!IrqAssumption, IrqIInv, NEW p \in IrqThreads, Irq!StartTimer(p)
  PROVE  IrqIInv'
<1>1. /\ rpc' \in [IrqThreads -> {"idle", "claim", "param", "handler", "count", "start"}]
      /\ rpc[p] = "start" /\ rpc'[p] = "idle" /\ \A q \in IrqThreads \ {p} : rpc'[q] = rpc[q]
  BY StepIs DEF Irq!StartTimer, IrqIInv
<1>2. todo' = [todo EXCEPT ![p] = Tail(@)] /\ UNCHANGED <<raced, table, hcount, hat, ok>>
  BY DEF Irq!StartTimer
<1>3. todo' \in [IrqThreads -> Seq(Nat)] /\ \A q \in IrqThreads \ {p} : todo'[q] = todo[q]
  BY <1>1, <1>2 DEF IrqIInv, IrqTypeOK, Complete
<1>4. IrqTypeOK'
  BY <1>1, <1>2, <1>3 DEF IrqIInv, IrqTypeOK
<1>5. Complete'
  BY <1>1, <1>2, <1>3 DEF IrqIInv, Complete
<1>6. ~raced' => OneRegisters'
  <2>1. \A q \in IrqThreads : InTable(q)' <=> InTable(q)
    BY <1>1 DEF InTable
  <2>2. \A q \in IrqThreads : InTable(q) => todo'[q] = todo[q]
    BY <1>1, <1>3 DEF InTable
  <2> QED BY <1>1, <1>2, <2>1, <2>2 DEF IrqIInv, OneRegisters, InTable
<1>7. ~raced' => AllCalled'
  BY <1>2 DEF IrqIInv, AllCalled, Irq!Called
<1> QED BY <1>2, <1>4, <1>5, <1>6, <1>7 DEF IrqIInv

LEMMA OthersKeep ==
  ASSUME IrqIInv, Irq!Registrars
  PROVE  IrqIInv'
<1>1. IrqTypeOK'
  BY DEF IrqIInv, IrqTypeOK, Irq!Registrars
<1>2. Complete'
  BY DEF IrqIInv, Complete, Irq!Registrars
<1>3. ~raced' => OneRegisters'
  BY DEF IrqIInv, OneRegisters, InTable, Irq!Registrars
<1>4. ~raced' => AllCalled'
  BY DEF IrqIInv, AllCalled, Irq!Called, Irq!Registrars
<1> QED BY <1>1, <1>2, <1>3, <1>4 DEF IrqIInv, Irq!Registrars

\* What is called is complete, and every handler whose registration returned 0 is called,
\* with its parameter, unless registrations raced.
THEOREM RegisteredAreCalled ==
  ASSUME Irq!IrqAssumption
  PROVE  Irq!Spec => []RegisteredIsCalled
<1>1. Irq!Init => IrqIInv
  BY IrqInitIInv
<1>2. IrqIInv /\ [Irq!Next]_(Irq!iavars) => IrqIInv'
  <2> SUFFICES ASSUME IrqIInv, [Irq!Next]_(Irq!iavars) PROVE IrqIInv'
    OBVIOUS
  <2>1. ASSUME NEW p \in IrqThreads, Irq!Program(p) PROVE IrqIInv'
    BY <2>1, RegisterKeeps, ClaimKeeps, ClaimFailsKeeps, StoreParamKeeps, StoreHandlerKeeps,
       CountKeeps, StartTimerKeeps DEF Irq!Program
  <2>2. ASSUME NEW p \in IrqThreads, Irq!Irq(p) \/ Irq!Handle(p) \/ Irq!Return(p) PROVE IrqIInv'
    BY <2>2, OthersKeep DEF Irq!Irq, Irq!Handle, Irq!Return
  <2>3. ASSUME NEW t \in Irq!Timers, Irq!Expire(t) PROVE IrqIInv'
    BY <2>3, OthersKeep DEF Irq!Expire
  <2>4. CASE UNCHANGED Irq!iavars
    BY <2>4, OthersKeep DEF Irq!iavars, Irq!Registrars
  <2> QED BY <2>1, <2>2, <2>3, <2>4 DEF Irq!Next
<1>3. IrqIInv => RegisteredIsCalled
  BY DEF RegisteredIsCalled, IrqIInv, Complete, AllCalled, Irq!RegisteredIsCalled, Irq!Called
<1> QED BY <1>1, <1>2, <1>3, PTL DEF Irq!Spec

-----------------------------------------------------------------------------
(* The ring buffer: what RingBuffProofs proves of it, for the instance that TLC *)
(* checks.                                                                 *)

Ring1 == INSTANCE RingBuffProofs WITH cpc <- bcpc

\* RingBuffProofs' names and the instance's stand for the same formulas.
LEMMA SameBuffer ==
  /\ Buff!SizeAssumption <=> Ring1!SizeAssumption
  /\ Buff!Init <=> Ring1!Init
  /\ Buff!Next <=> Ring1!Next
<1>1. Buff!SizeAssumption <=> Ring1!SizeAssumption
  BY DEF Buff!SizeAssumption, Ring1!SizeAssumption, Buff!IsPowerOfTwo, Ring1!IsPowerOfTwo
<1>2. Buff!Init <=> Ring1!Init
  BY DEF Buff!Init, Ring1!Init, Buff!Cells, Ring1!Cells, Buff!Word, Ring1!Word, Buff!Cell,
     Ring1!Cell
<1>3. Buff!Next <=> Ring1!Next
  BY DEF Buff!Next, Ring1!Next, Buff!Add, Ring1!Add, Buff!Rmv, Ring1!Rmv, Buff!AddNull,
     Ring1!AddNull, Buff!AddStart, Ring1!AddStart, Buff!AddLoad, Ring1!AddLoad, Buff!Turn,
     Ring1!Turn, Buff!AddSeq, Ring1!AddSeq, Buff!AddIdxIs, Ring1!AddIdxIs, Buff!AddCas,
     Ring1!AddCas, Buff!AddCasFails, Ring1!AddCasFails, Buff!AddStore, Ring1!AddStore,
     Buff!AddPublish, Ring1!AddPublish, Buff!NotReady, Ring1!NotReady, Buff!RmvSeq,
     Ring1!RmvSeq, Buff!RmvRead, Ring1!RmvRead, Buff!NextTurn, Ring1!NextTurn, Buff!RmvFree,
     Ring1!RmvFree, Buff!Deinit, Ring1!Deinit, Buff!Word, Ring1!Word, Buff!Cell, Ring1!Cell,
     Buff!Signed, Ring1!Signed, Buff!Dif, Ring1!Dif, Buff!bufVars, Ring1!bufVars,
     Buff!prodVars, Ring1!prodVars, Buff!consVars, Ring1!consVars
<1> QED BY <1>1, <1>2, <1>3

\* The ring buffer is a bounded queue: two adds never write the same cell, nor one the cell
\* that is being read, and items leave once, in the order of their reservations, also where
\* the indices wrap.
THEOREM BufferIsBoundedQueue ==
  ASSUME Buff!SizeAssumption, Size > 1
  PROVE  Buff!Spec => ImplementsBoundedQueue
<1>1. Ring1!TwoCells
  BY SameBuffer DEF Ring1!TwoCells
<1>2. Ring1!Spec => Ring1!ImplementsBoundedQueue
  BY <1>1, Ring1!RingBuffIsBoundedQueue
<1>3. Ring1!TypeOK /\ Ring1!CellsNotShared => Buff!TypeOK /\ Buff!CellsNotShared
  BY DEF Ring1!TypeOK, Buff!TypeOK, Ring1!CellsNotShared, Buff!CellsNotShared, Ring1!Cells,
     Buff!Cells, Ring1!Words, Buff!Words, Ring1!Cell, Buff!Cell
<1>4. Ring1!Abstract!Init <=> Buff!Abstract!Init
  BY DEF Ring1!Abstract!Init, Buff!Abstract!Init
<1>5. [Ring1!Abstract!Next]_(Ring1!Abstract!vars) <=> [Buff!Abstract!Next]_(Buff!Abstract!vars)
  BY DEF Ring1!Abstract!Next, Buff!Abstract!Next, Ring1!Abstract!vars, Buff!Abstract!vars,
     Ring1!Abstract!Reserve, Buff!Abstract!Reserve, Ring1!Abstract!AddNull,
     Buff!Abstract!AddNull, Ring1!Abstract!Publish, Buff!Abstract!Publish,
     Ring1!Abstract!AddFull, Buff!Abstract!AddFull, Ring1!Abstract!Removable,
     Buff!Abstract!Removable, Ring1!Abstract!Rmv, Buff!Abstract!Rmv, Ring1!Abstract!RmvNone,
     Buff!Abstract!RmvNone, Ring1!Abstract!Deinit, Buff!Abstract!Deinit
<1>6. [Buff!Next]_(Buff!vars) => [Ring1!Next]_(Ring1!vars)
  BY SameBuffer DEF Buff!vars, Ring1!vars, Buff!bufVars, Ring1!bufVars, Buff!prodVars,
     Ring1!prodVars, Buff!consVars, Ring1!consVars
<1> QED
  BY SameBuffer, <1>2, <1>3, <1>4, <1>5, <1>6, PTL
  DEF Buff!Spec, Ring1!Spec, ImplementsBoundedQueue, Buff!ImplementsBoundedQueue,
      Ring1!ImplementsBoundedQueue, Buff!Abstract!Spec, Ring1!Abstract!Spec

-----------------------------------------------------------------------------
(* The ring of the ARM's threads, for any number of tcbs and stacks.  That it *)
(* is one ring is said without counting: a set of its tcbs that no link leaves *)
(* is empty or all of it (OneRing).  ArmCreators says what a thread that     *)
(* creates another has in hand, by where it is.                            *)

OnRing == {u \in Arm!Tcbs : pnext[u] # Arm!Nil}

\* The ring of the links p, on the tcbs R.
OneRing(R, p) ==
  /\ \A u \in R : p[u] \in R
  /\ \A S \in SUBSET R : S # {} /\ (\A u \in S : p[u] \in S) => S = R

Holders == {t \in Arm!Tcbs : at[t] \in {"init", "frame", "add"}}
Ungiven == {t \in Arm!Tcbs : at[t] \in {"get", "init", "frame"}}
Stacked == {s \in Arm!Slots : pstack[s]}

ArmTypeOK ==
  /\ atid \in [Arm!Tcbs -> {"empty", "starting", "zombie", "id"}]
  /\ pnext \in [Arm!Tcbs -> Arm!Tcbs \cup {Arm!Nil}]
  /\ pready \in Arm!Tcbs
  /\ framed \in [Arm!Tcbs -> BOOLEAN]
  /\ pstack \in [Arm!Tcbs -> BOOLEAN]
  /\ at \in [Arm!Tcbs -> {"new", "run", "get", "init", "frame", "add", "ended"}]
  /\ got \in [Arm!Tcbs -> Nat]
  /\ heap \in Nat

\* The threads of the program's start are on the ring, and never zombies.
Ringed ==
  /\ OneRing(OnRing, pnext)
  /\ {Arm!Main, Arm!Idle, pready} \subseteq OnRing
  /\ atid[Arm!Main] = "id" /\ atid[Arm!Idle] = "id"
  /\ pready # Arm!Idle
  /\ \A u \in OnRing \ {Arm!Idle, pready} : framed[u]
  /\ atid[pready] = "zombie" => at[pready] = "ended"

\* The tcb that a creator has: nobody else has it, and it gets its stack, its
\* frame and its place on the ring in this order.
ArmCreators ==
  /\ \A t \in Arm!Tcbs : at[t] = "get" => got[t] \in 1 .. ArmThreads + 1
  /\ \A t \in Holders :
       /\ got[t] \in Arm!Slots
       /\ at[t] \in {"init", "frame"} => ~pstack[got[t]]
       /\ at[t] \in {"frame", "add"} => atid[got[t]] = "id"
       /\ at[t] = "add" => framed[got[t]]
  /\ \A t, u \in Holders : got[t] = got[u] => t = u

\* A tcb is empty, a creator's or on the ring, and an empty one has no stack.
SlotsAre ==
  \A s \in Arm!Slots :
    /\ pnext[s] = Arm!Nil => ((atid[s] # "empty") <=> (\E t \in Holders : got[t] = s))
    /\ pnext[s] # Arm!Nil => atid[s] \in {"id", "zombie"} /\ \A t \in Holders : got[t] # s
    /\ atid[s] = "empty" => ~pstack[s]

StacksAre == heap + Cardinality(Ungiven) + Cardinality(Stacked) = ArmStacks

ArmInv == ArmTypeOK /\ Ringed /\ ArmCreators /\ SlotsAre /\ StacksAre

-----------------------------------------------------------------------------
LEMMA TcbsAre ==
  ASSUME Arm!ThreadArmAssumption
  PROVE  /\ Arm!Slots \subseteq Arm!Tcbs /\ Arm!Main \in Arm!Tcbs /\ Arm!Idle \in Arm!Tcbs
              /\ Arm!Nil \notin Arm!Tcbs
         /\ Arm!Main \notin Arm!Slots /\ Arm!Idle \notin Arm!Slots /\ Arm!Main # Arm!Idle
         /\ IsFiniteSet(Arm!Tcbs) /\ IsFiniteSet(Arm!Slots)
<1>1. ArmThreads \in Nat
  BY DEF Arm!ThreadArmAssumption
<1>2. Arm!Tcbs = 1 .. ArmThreads + 2
  BY <1>1 DEF Arm!Tcbs, Arm!Slots, Arm!Main, Arm!Idle
<1>3. IsFiniteSet(Arm!Tcbs) /\ IsFiniteSet(Arm!Slots)
  BY <1>1, <1>2, FS_Interval DEF Arm!Slots
<1> QED BY <1>1, <1>3 DEF Arm!Tcbs, Arm!Slots, Arm!Main, Arm!Idle, Arm!Nil

LEMMA InitArmInv == ASSUME Arm!ThreadArmAssumption, Arm!Init PROVE ArmInv
<1>1. ArmTypeOK
  BY TcbsAre DEF Arm!Init, ArmTypeOK, Arm!ThreadArmAssumption, Arm!Nil
<1>2. OnRing = {Arm!Main, Arm!Idle}
  BY TcbsAre DEF Arm!Init, OnRing
<1>3. pnext[Arm!Main] = Arm!Idle /\ pnext[Arm!Idle] = Arm!Main
  BY TcbsAre DEF Arm!Init
<1>4. OneRing(OnRing, pnext)
  <2>1. ASSUME NEW S \in SUBSET {Arm!Main, Arm!Idle}, S # {}, \A u \in S : pnext[u] \in S
        PROVE  S = {Arm!Main, Arm!Idle}
    <3>1. Arm!Main \in S <=> Arm!Idle \in S
      BY <1>3, <2>1
    <3> QED BY <2>1, <3>1
  <2> QED BY <1>2, <1>3, <2>1 DEF OneRing
<1>5. Ringed
  BY <1>2, <1>4, TcbsAre DEF Arm!Init, Ringed
<1>6. Holders = {} /\ Ungiven = {}
  BY TcbsAre DEF Arm!Init, Holders, Ungiven
<1>7. ArmCreators
  BY <1>6, TcbsAre DEF Arm!Init, ArmCreators
<1>8. SlotsAre
  BY <1>6, TcbsAre DEF Arm!Init, SlotsAre
<1>9. Stacked = {}
  BY TcbsAre DEF Arm!Init, Stacked
<1>10. StacksAre
  BY <1>6, <1>9, FS_EmptySet DEF Arm!Init, StacksAre, Arm!ThreadArmAssumption
<1> QED BY <1>1, <1>5, <1>7, <1>8, <1>10 DEF ArmInv

\* What keeps the ring where no link changes.
LEMMA RingStays ==
  ASSUME Arm!ThreadArmAssumption, Ringed, pnext' = pnext, pready' = pready,
         atid'[Arm!Main] = atid[Arm!Main], atid'[Arm!Idle] = atid[Arm!Idle],
         \A u \in Arm!Tcbs : framed[u] => framed'[u],
         atid'[pready] = "zombie" => at'[pready] = "ended"
  PROVE  Ringed'
<1>1. OnRing' = OnRing /\ OnRing \subseteq Arm!Tcbs
  BY DEF OnRing
<1> QED BY <1>1 DEF Ringed

\* The counts of the stacks that were given and not given.
LEMMA CountsAre ==
  ASSUME Arm!ThreadArmAssumption, ArmTypeOK
  PROVE  /\ IsFiniteSet(Ungiven) /\ Cardinality(Ungiven) \in Nat
         /\ IsFiniteSet(Stacked) /\ Cardinality(Stacked) \in Nat
<1>1. Ungiven \subseteq Arm!Tcbs /\ Stacked \subseteq Arm!Slots
  BY DEF Ungiven, Stacked
<1> QED BY <1>1, TcbsAre, FS_Subset, FS_CardinalityType

LEMMA UngivenMore ==
  ASSUME Arm!ThreadArmAssumption, ArmTypeOK, NEW t \in Arm!Tcbs, t \notin Ungiven,
         Ungiven' = Ungiven \cup {t}
  PROVE  Cardinality(Ungiven') = Cardinality(Ungiven) + 1
BY CountsAre, FS_AddElement

LEMMA UngivenLess ==
  ASSUME Arm!ThreadArmAssumption, ArmTypeOK, NEW t \in Ungiven, Ungiven' = Ungiven \ {t}
  PROVE  Cardinality(Ungiven') = Cardinality(Ungiven) - 1
BY CountsAre, FS_RemoveElement

\* The thread that takes a step is the one that runs.
LEMMA ArmStepIs ==
  ASSUME Arm!ThreadArmAssumption, ArmInv, NEW t \in Arm!Tcbs, NEW from, NEW to, Arm!Step(t, from, to)
  PROVE  /\ pready = t /\ at[t] = from /\ at' = [at EXCEPT ![t] = to]
         /\ at'[t] = to /\ \A u \in Arm!Tcbs : u # t => at'[u] = at[u]
         /\ to \in {"new", "run", "get", "init", "frame", "add", "ended"} =>
              at' \in [Arm!Tcbs -> {"new", "run", "get", "init", "frame", "add", "ended"}]
BY DEF Arm!Step, Arm!Assign, ArmInv, ArmTypeOK

-----------------------------------------------------------------------------
(* The steps of a creator                                                  *)

LEMMA MallocStep ==
  ASSUME Arm!ThreadArmAssumption, ArmInv, NEW t \in Arm!Tcbs, Arm!Malloc(t)
  PROVE  ArmInv'
<1>1. /\ pready = t /\ at[t] = "run" /\ at'[t] = "get" /\ \A u \in Arm!Tcbs : u # t => at'[u] = at[u]
      /\ at' \in [Arm!Tcbs -> {"new", "run", "get", "init", "frame", "add", "ended"}]
  BY ArmStepIs DEF Arm!Malloc
<1>2. /\ UNCHANGED <<atid, pnext, pready, framed, pstack>>
      /\ heap > 0 /\ heap' = heap - 1
      /\ got \in [Arm!Tcbs -> Nat] /\ got' = [got EXCEPT ![t] = 1]
  BY DEF Arm!Malloc, Arm!Assign, ArmInv, ArmTypeOK
<1>3. ArmThreads \in Nat
  BY DEF Arm!ThreadArmAssumption
<1>4. ArmTypeOK'
  BY <1>1, <1>2 DEF ArmInv, ArmTypeOK
<1>5. Ringed'
  BY <1>1, <1>2, RingStays DEF ArmInv, Ringed
<1>6. Holders' = Holders /\ t \notin Holders /\ t \notin Ungiven /\ Ungiven' = Ungiven
       \cup {t} /\ Holders \subseteq Arm!Tcbs
  BY <1>1 DEF Holders, Ungiven
<1>7. \A u \in Holders : got'[u] = got[u] /\ at'[u] = at[u]
  BY <1>1, <1>2, <1>6
<1>8. ArmCreators'
  <2>1. \A u \in Arm!Tcbs : at'[u] = "get" => got'[u] \in 1 .. ArmThreads + 1
    BY <1>1, <1>2, <1>3 DEF ArmInv, ArmCreators
  <2> QED BY <1>2, <1>6, <1>7, <2>1 DEF ArmInv, ArmCreators
<1>9. SlotsAre'
  BY <1>2, <1>6, <1>7 DEF ArmInv, SlotsAre
<1>10. Cardinality(Ungiven') = Cardinality(Ungiven) + 1 /\ Stacked' = Stacked
  BY <1>2, <1>6, UngivenMore DEF ArmInv, Stacked
<1>11. StacksAre'
  BY <1>2, <1>10, CountsAre DEF ArmInv, ArmTypeOK, StacksAre
<1> QED BY <1>4, <1>5, <1>8, <1>9, <1>11 DEF ArmInv

LEMMA ClaimStep ==
  ASSUME Arm!ThreadArmAssumption, ArmInv, NEW t \in Arm!Tcbs, Arm!Claim(t)
  PROVE  ArmInv'
<1> DEFINE g == got[t]
<1>1. /\ pready = t /\ at[t] = "get" /\ at'[t] = "init" /\ \A u \in Arm!Tcbs : u # t => at'[u] = at[u]
      /\ at' \in [Arm!Tcbs -> {"new", "run", "get", "init", "frame", "add", "ended"}]
  BY ArmStepIs DEF Arm!Claim
<1>2. /\ UNCHANGED <<pnext, pready, framed, pstack, got, heap>>
      /\ g <= ArmThreads /\ atid[g] = "empty" /\ atid' = [atid EXCEPT ![g] = "starting"]
  BY DEF Arm!Claim, Arm!Assign, Arm!Claimed
<1>3. g \in Arm!Slots /\ g \in Arm!Tcbs /\ g # Arm!Main /\ g # Arm!Idle
  <2>1. g \in 1 .. ArmThreads + 1
    BY <1>1 DEF ArmInv, ArmCreators
  <2>2. g \in Arm!Slots
    BY <1>2, <2>1 DEF Arm!Slots, Arm!ThreadArmAssumption
  <2> QED BY <2>2, TcbsAre
<1>4. atid \in [Arm!Tcbs -> {"empty", "starting", "zombie", "id"}] /\ atid'[g] = "starting"
      /\ \A u \in Arm!Tcbs : u # g => atid'[u] = atid[u]
  BY <1>2, <1>3 DEF ArmInv, ArmTypeOK
<1>5. ArmTypeOK'
  BY <1>1, <1>2, <1>4 DEF ArmInv, ArmTypeOK
<1>6. Ringed'
  BY <1>1, <1>2, <1>3, <1>4, TcbsAre, RingStays DEF ArmInv, Ringed
<1>7. Holders' = Holders \cup {t} /\ t \notin Holders /\ Ungiven' = Ungiven /\ Holders \subseteq Arm!Tcbs
  BY <1>1 DEF Holders, Ungiven
<1>8. pnext[g] = Arm!Nil /\ ~pstack[g] /\ \A u \in Holders : got[u] # g
  BY <1>2, <1>3 DEF ArmInv, SlotsAre
<1>9. ArmCreators'
  <2>1. \A u \in Arm!Tcbs : at'[u] = "get" => got'[u] \in 1 .. ArmThreads + 1
    BY <1>1, <1>2 DEF ArmInv, ArmCreators
  <2>2. ASSUME NEW u \in Holders'
        PROVE  /\ got'[u] \in Arm!Slots
               /\ at'[u] \in {"init", "frame"} => ~pstack'[got'[u]]
               /\ at'[u] \in {"frame", "add"} => atid'[got'[u]] = "id"
               /\ at'[u] = "add" => framed'[got'[u]]
    <3>1. CASE u = t
      BY <1>1, <1>2, <1>3, <1>8, <3>1
    <3>2. CASE u \in Holders /\ u # t
      <4>1. got[u] \in Arm!Slots /\ got[u] # g /\ got[u] \in Arm!Tcbs /\ at'[u] = at[u]
        BY <1>1, <1>7, <1>8, <3>2, TcbsAre DEF ArmInv, ArmCreators
      <4> QED BY <1>2, <1>4, <3>2, <4>1 DEF ArmInv, ArmCreators
    <3> QED BY <1>7, <3>1, <3>2
  <2>3. \A u, v \in Holders' : got'[u] = got'[v] => u = v
    BY <1>2, <1>7, <1>8 DEF ArmInv, ArmCreators
  <2> QED BY <2>1, <2>2, <2>3 DEF ArmCreators
<1>10. SlotsAre'
  <2> SUFFICES ASSUME NEW s \in Arm!Slots
               PROVE  /\ pnext'[s] = Arm!Nil => ((atid'[s] # "empty") <=> (\E u \in Holders' : got'[u] = s))
                      /\ pnext'[s] # Arm!Nil => atid'[s] \in {"id", "zombie"}
                           /\ \A u \in Holders' : got'[u] # s
                      /\ atid'[s] = "empty" => ~pstack'[s]
    BY DEF SlotsAre
  <2>1. CASE s = g
    BY <1>2, <1>4, <1>7, <1>8, <2>1
  <2>2. CASE s # g
    <3>1. atid'[s] = atid[s]
      BY <1>4, <2>2, TcbsAre
    <3> QED BY <1>2, <1>7, <2>2, <3>1 DEF ArmInv, SlotsAre
  <2> QED BY <2>1, <2>2
<1>11. StacksAre'
  BY <1>2, <1>7 DEF ArmInv, StacksAre, Stacked
<1> QED BY <1>5, <1>6, <1>9, <1>10, <1>11 DEF ArmInv

LEMMA SkipStep ==
  ASSUME Arm!ThreadArmAssumption, ArmInv, NEW t \in Arm!Tcbs, Arm!Skip(t)
  PROVE  ArmInv'
<1>1. /\ pready = t /\ at[t] = "get" /\ at' = [at EXCEPT ![t] = "get"]
  BY ArmStepIs DEF Arm!Skip
<1>2. /\ UNCHANGED <<atid, pnext, pready, framed, pstack, heap>>
      /\ got[t] <= ArmThreads /\ got' = [got EXCEPT ![t] = got[t] + 1]
  BY DEF Arm!Skip, Arm!Assign
<1>3. at' = at /\ ArmThreads \in Nat /\ got \in [Arm!Tcbs -> Nat]
  BY <1>1 DEF ArmInv, ArmTypeOK, Arm!ThreadArmAssumption
<1>4. ArmTypeOK'
  BY <1>2, <1>3 DEF ArmInv, ArmTypeOK
<1>5. Ringed'
  BY <1>2, <1>3, RingStays DEF ArmInv, Ringed
<1>6. Holders' = Holders /\ t \notin Holders /\ Ungiven' = Ungiven /\ Stacked' = Stacked
  BY <1>1, <1>2, <1>3 DEF Holders, Ungiven, Stacked
<1>7. \A u \in Holders : got'[u] = got[u]
  BY <1>2, <1>3, <1>6 DEF Holders
<1>8. ArmCreators'
  <2>1. \A u \in Arm!Tcbs : at'[u] = "get" => got'[u] \in 1 .. ArmThreads + 1
    BY <1>2, <1>3 DEF ArmInv, ArmCreators
  <2> QED BY <1>2, <1>3, <1>6, <1>7, <2>1 DEF ArmInv, ArmCreators
<1>9. SlotsAre'
  BY <1>2, <1>6, <1>7 DEF ArmInv, SlotsAre
<1>10. StacksAre'
  BY <1>2, <1>6 DEF ArmInv, StacksAre
<1> QED BY <1>4, <1>5, <1>8, <1>9, <1>10 DEF ArmInv

LEMMA NoTcbStep ==
  ASSUME Arm!ThreadArmAssumption, ArmInv, NEW t \in Arm!Tcbs, Arm!NoTcb(t)
  PROVE  ArmInv'
<1>1. /\ pready = t /\ at[t] = "get" /\ at'[t] = "run" /\ \A u \in Arm!Tcbs : u # t => at'[u] = at[u]
      /\ at' \in [Arm!Tcbs -> {"new", "run", "get", "init", "frame", "add", "ended"}]
  BY ArmStepIs DEF Arm!NoTcb
<1>2. /\ UNCHANGED <<atid, pnext, pready, framed, pstack>>
      /\ heap' = heap + 1
      /\ got \in [Arm!Tcbs -> Nat] /\ got' = [got EXCEPT ![t] = Arm!Nil]
  BY DEF Arm!NoTcb, Arm!Assign, ArmInv, ArmTypeOK
<1>3. ArmTypeOK'
  BY <1>1, <1>2 DEF ArmInv, ArmTypeOK, Arm!Nil
<1>4. Ringed'
  BY <1>1, <1>2, RingStays DEF ArmInv, Ringed
<1>5. Holders' = Holders /\ t \notin Holders /\ t \in Ungiven /\ Ungiven' = Ungiven \ {t}
       /\ Holders \subseteq Arm!Tcbs
  BY <1>1 DEF Holders, Ungiven
<1>6. \A u \in Holders : got'[u] = got[u] /\ at'[u] = at[u]
  BY <1>1, <1>2, <1>5
<1>7. ArmCreators'
  <2>1. \A u \in Arm!Tcbs : at'[u] = "get" => got'[u] \in 1 .. ArmThreads + 1
    BY <1>1, <1>2 DEF ArmInv, ArmCreators
  <2> QED BY <1>2, <1>5, <1>6, <2>1 DEF ArmInv, ArmCreators
<1>8. SlotsAre'
  BY <1>2, <1>5, <1>6 DEF ArmInv, SlotsAre
<1>9. Cardinality(Ungiven') = Cardinality(Ungiven) - 1 /\ Stacked' = Stacked
  BY <1>2, <1>5, UngivenLess DEF ArmInv, Stacked
<1>10. StacksAre'
  BY <1>2, <1>9, CountsAre DEF ArmInv, ArmTypeOK, StacksAre
<1> QED BY <1>3, <1>4, <1>7, <1>8, <1>10 DEF ArmInv

LEMMA TcbInitStep ==
  ASSUME Arm!ThreadArmAssumption, ArmInv, NEW t \in Arm!Tcbs, Arm!TcbInit(t)
  PROVE  ArmInv'
<1> DEFINE g == got[t]
<1>1. /\ pready = t /\ at[t] = "init" /\ at'[t] = "frame" /\ \A u \in Arm!Tcbs : u # t => at'[u] = at[u]
      /\ at' \in [Arm!Tcbs -> {"new", "run", "get", "init", "frame", "add", "ended"}]
  BY ArmStepIs DEF Arm!TcbInit
<1>2. /\ UNCHANGED <<pnext, pready, framed, got, heap>>
      /\ pstack' = [pstack EXCEPT ![g] = FALSE] /\ atid' = [atid EXCEPT ![g] = "id"]
  BY DEF Arm!TcbInit, Arm!Assign
<1>3. Holders' = Holders /\ t \in Holders /\ Ungiven' = Ungiven /\ Holders \subseteq Arm!Tcbs
  BY <1>1 DEF Holders, Ungiven
<1>4. g \in Arm!Slots /\ ~pstack[g] /\ g \in Arm!Tcbs /\ g # Arm!Main /\ g # Arm!Idle
  BY <1>1, <1>3, TcbsAre DEF ArmInv, ArmCreators
<1>5. pstack \in [Arm!Tcbs -> BOOLEAN] /\ pstack' = pstack
  <2>1. pstack \in [Arm!Tcbs -> BOOLEAN]
    BY DEF ArmInv, ArmTypeOK
  <2> QED BY <1>2, <1>4, <2>1
<1>6. atid \in [Arm!Tcbs -> {"empty", "starting", "zombie", "id"}] /\ atid'[g] = "id"
      /\ \A u \in Arm!Tcbs : u # g => atid'[u] = atid[u]
  BY <1>2, <1>4 DEF ArmInv, ArmTypeOK
<1>7. pnext[g] = Arm!Nil /\ atid[g] # "empty"
  BY <1>3, <1>4 DEF ArmInv, SlotsAre
<1>8. ArmTypeOK'
  BY <1>1, <1>2, <1>5, <1>6 DEF ArmInv, ArmTypeOK
<1>9. Ringed'
  <2>1. pready \in OnRing /\ g \notin OnRing
    BY <1>7 DEF ArmInv, Ringed, OnRing
  <2> QED BY <1>1, <1>2, <1>4, <1>6, <2>1, TcbsAre, RingStays DEF ArmInv, Ringed
<1>10. ArmCreators'
  <2>1. \A u \in Arm!Tcbs : at'[u] = "get" => got'[u] \in 1 .. ArmThreads + 1
    BY <1>1, <1>2 DEF ArmInv, ArmCreators
  <2>2. ASSUME NEW u \in Holders
        PROVE  /\ got'[u] \in Arm!Slots
               /\ at'[u] \in {"init", "frame"} => ~pstack'[got'[u]]
               /\ at'[u] \in {"frame", "add"} => atid'[got'[u]] = "id"
               /\ at'[u] = "add" => framed'[got'[u]]
    <3>1. CASE u = t
      BY <1>1, <1>2, <1>4, <1>5, <1>6, <3>1
    <3>2. CASE u # t
      <4>1. got[u] \in Arm!Slots /\ got[u] # g /\ got[u] \in Arm!Tcbs /\ at'[u] = at[u]
        BY <1>1, <1>3, <3>2, TcbsAre DEF ArmInv, ArmCreators
      <4> QED BY <1>2, <1>5, <1>6, <4>1 DEF ArmInv, ArmCreators
    <3> QED BY <3>1, <3>2
  <2>3. \A u, v \in Holders' : got'[u] = got'[v] => u = v
    BY <1>2, <1>3 DEF ArmInv, ArmCreators
  <2> QED BY <1>3, <2>1, <2>2, <2>3 DEF ArmCreators
<1>11. SlotsAre'
  <2> SUFFICES ASSUME NEW s \in Arm!Slots
               PROVE  /\ pnext'[s] = Arm!Nil => ((atid'[s] # "empty") <=> (\E u \in Holders' : got'[u] = s))
                      /\ pnext'[s] # Arm!Nil => atid'[s] \in {"id", "zombie"}
                           /\ \A u \in Holders' : got'[u] # s
                      /\ atid'[s] = "empty" => ~pstack'[s]
    BY DEF SlotsAre
  <2>1. CASE s = g
    BY <1>2, <1>3, <1>6, <1>7, <2>1
  <2>2. CASE s # g
    <3>1. atid'[s] = atid[s]
      BY <1>6, <2>2, TcbsAre
    <3> QED BY <1>2, <1>3, <1>5, <3>1 DEF ArmInv, SlotsAre
  <2> QED BY <2>1, <2>2
<1>12. StacksAre'
  BY <1>2, <1>3, <1>5 DEF ArmInv, StacksAre, Stacked
<1> QED BY <1>8, <1>9, <1>10, <1>11, <1>12 DEF ArmInv

LEMMA InitStackFrameStep ==
  ASSUME Arm!ThreadArmAssumption, ArmInv, NEW t \in Arm!Tcbs, Arm!InitStackFrame(t)
  PROVE  ArmInv'
<1> DEFINE g == got[t]
<1>1. /\ pready = t /\ at[t] = "frame" /\ at'[t] = "add" /\ \A u \in Arm!Tcbs : u # t => at'[u] = at[u]
      /\ at' \in [Arm!Tcbs -> {"new", "run", "get", "init", "frame", "add", "ended"}]
  BY ArmStepIs DEF Arm!InitStackFrame
<1>2. /\ UNCHANGED <<atid, pnext, pready, got, heap>>
      /\ pstack' = [pstack EXCEPT ![g] = TRUE] /\ framed' = [framed EXCEPT ![g] = TRUE]
  BY DEF Arm!InitStackFrame, Arm!Assign
<1>3. Holders' = Holders /\ t \in Holders /\ t \in Ungiven /\ Ungiven' = Ungiven \ {t}
       /\ Holders \subseteq Arm!Tcbs
  BY <1>1 DEF Holders, Ungiven
<1>4. g \in Arm!Slots /\ ~pstack[g] /\ atid[g] = "id" /\ g \in Arm!Tcbs
  BY <1>1, <1>3, TcbsAre DEF ArmInv, ArmCreators
<1>5. /\ pstack \in [Arm!Tcbs -> BOOLEAN] /\ pstack'[g] /\ pstack' \in [Arm!Tcbs -> BOOLEAN]
      /\ \A u \in Arm!Tcbs : u # g => pstack'[u] = pstack[u]
  <2>1. pstack \in [Arm!Tcbs -> BOOLEAN]
    BY DEF ArmInv, ArmTypeOK
  <2> QED BY <1>2, <1>4, <2>1
<1>6. /\ framed' \in [Arm!Tcbs -> BOOLEAN] /\ framed'[g]
      /\ \A u \in Arm!Tcbs : (framed[u] => framed'[u]) /\ (u # g => framed'[u] = framed[u])
  <2>1. framed \in [Arm!Tcbs -> BOOLEAN]
    BY DEF ArmInv, ArmTypeOK
  <2> QED BY <1>2, <1>4, <2>1
<1>7. ArmTypeOK'
  BY <1>1, <1>2, <1>5, <1>6 DEF ArmInv, ArmTypeOK
<1>8. Ringed'
  <2>1. atid'[pready] = "zombie" => at'[pready] = "ended"
    BY <1>1, <1>2 DEF ArmInv, Ringed
  <2> QED BY <1>2, <1>6, <2>1, RingStays DEF ArmInv
<1>9. ArmCreators'
  <2>1. \A u \in Arm!Tcbs : at'[u] = "get" => got'[u] \in 1 .. ArmThreads + 1
    BY <1>1, <1>2 DEF ArmInv, ArmCreators
  <2>2. ASSUME NEW u \in Holders
        PROVE  /\ got'[u] \in Arm!Slots
               /\ at'[u] \in {"init", "frame"} => ~pstack'[got'[u]]
               /\ at'[u] \in {"frame", "add"} => atid'[got'[u]] = "id"
               /\ at'[u] = "add" => framed'[got'[u]]
    <3>1. CASE u = t
      BY <1>1, <1>2, <1>4, <1>6, <3>1
    <3>2. CASE u # t
      <4>1. got[u] \in Arm!Slots /\ got[u] # g /\ got[u] \in Arm!Tcbs /\ at'[u] = at[u]
        BY <1>1, <1>3, <3>2, TcbsAre DEF ArmInv, ArmCreators
      <4> QED BY <1>2, <1>5, <1>6, <4>1 DEF ArmInv, ArmCreators
    <3> QED BY <3>1, <3>2
  <2>3. \A u, v \in Holders' : got'[u] = got'[v] => u = v
    BY <1>2, <1>3 DEF ArmInv, ArmCreators
  <2> QED BY <1>3, <2>1, <2>2, <2>3 DEF ArmCreators
<1>10. SlotsAre'
  <2> SUFFICES ASSUME NEW s \in Arm!Slots
               PROVE  /\ pnext'[s] = Arm!Nil => ((atid'[s] # "empty") <=> (\E u \in Holders' : got'[u] = s))
                      /\ pnext'[s] # Arm!Nil => atid'[s] \in {"id", "zombie"}
                           /\ \A u \in Holders' : got'[u] # s
                      /\ atid'[s] = "empty" => ~pstack'[s]
    BY DEF SlotsAre
  <2>1. atid'[s] = "empty" => ~pstack'[s]
    <3>1. atid[s] = "empty" => s # g /\ ~pstack[s]
      BY <1>4 DEF ArmInv, SlotsAre
    <3> QED BY <1>2, <1>5, <3>1, TcbsAre
  <2> QED BY <1>2, <1>3, <2>1 DEF ArmInv, SlotsAre
<1>11. Stacked' = Stacked \cup {g} /\ g \notin Stacked
  BY <1>4, <1>5, TcbsAre DEF Stacked
<1>12. Cardinality(Stacked') = Cardinality(Stacked) + 1
  BY <1>11, CountsAre, FS_AddElement DEF ArmInv
<1>13. Cardinality(Ungiven') = Cardinality(Ungiven) - 1
  BY <1>3, UngivenLess DEF ArmInv
<1>14. StacksAre'
  BY <1>2, <1>12, <1>13, CountsAre DEF ArmInv, ArmTypeOK, StacksAre
<1> QED BY <1>7, <1>8, <1>9, <1>10, <1>14 DEF ArmInv

\* A tcb that is linked in after another one of the ring is on the ring.
LEMMA Inserted ==
  ASSUME NEW R, NEW p, NEW q, NEW t \in R, NEW g, g \notin R, OneRing(R, p),
         \A u \in R \ {t} : q[u] = p[u], q[t] = g, q[g] = p[t]
  PROVE  OneRing(R \cup {g}, q)
<1>1. \A u \in R \cup {g} : q[u] \in R \cup {g}
  BY DEF OneRing
<1>2. ASSUME NEW S \in SUBSET (R \cup {g}), S # {}, \A u \in S : q[u] \in S
      PROVE  S = R \cup {g}
  <2>1. CASE g \in S
    <3>1. S \ {g} \in SUBSET R /\ S \ {g} # {}
      BY <1>2, <2>1 DEF OneRing
    <3>2. \A u \in S \ {g} : p[u] \in S \ {g}
      BY <1>2, <2>1, <3>1 DEF OneRing
    <3>3. S \ {g} = R
      BY <3>1, <3>2 DEF OneRing
    <3> QED BY <2>1, <3>3
  <2>2. CASE g \notin S
    <3>1. S \in SUBSET R /\ t \notin S
      BY <1>2, <2>2
    <3>2. \A u \in S : p[u] \in S
      BY <1>2, <3>1
    <3>3. S = R
      BY <1>2, <3>1, <3>2 DEF OneRing
    <3> QED BY <3>1, <3>3
  <2> QED BY <2>1, <2>2
<1> QED BY <1>1, <1>2 DEF OneRing

LEMMA AddAfterStep ==
  ASSUME Arm!ThreadArmAssumption, ArmInv, NEW t \in Arm!Tcbs, Arm!AddAfter(t)
  PROVE  ArmInv'
<1> DEFINE g == got[t]
<1>1. /\ pready = t /\ at[t] = "add" /\ at'[t] = "run" /\ \A u \in Arm!Tcbs : u # t => at'[u] = at[u]
      /\ at' \in [Arm!Tcbs -> {"new", "run", "get", "init", "frame", "add", "ended"}]
  BY ArmStepIs DEF Arm!AddAfter
<1>2. /\ UNCHANGED <<atid, pready, framed, pstack, heap>>
      /\ pnext' = [pnext EXCEPT ![g] = pnext[t], ![t] = g]
      /\ got \in [Arm!Tcbs -> Nat] /\ got' = [got EXCEPT ![t] = Arm!Nil]
  BY DEF Arm!AddAfter, Arm!After, Arm!Assign, ArmInv, ArmTypeOK
<1>3. Holders' = Holders \ {t} /\ t \in Holders /\ Ungiven' = Ungiven /\ Holders \subseteq Arm!Tcbs
  BY <1>1 DEF Holders, Ungiven
<1>4. g \in Arm!Slots /\ atid[g] = "id" /\ framed[g] /\ g \in Arm!Tcbs
  BY <1>1, <1>3, TcbsAre DEF ArmInv, ArmCreators
<1>5. pnext[g] = Arm!Nil /\ t \in OnRing /\ pnext[t] # Arm!Nil
  <2>1. pnext[g] = Arm!Nil
    BY <1>3, <1>4 DEF ArmInv, SlotsAre
  <2> QED BY <1>1, <2>1 DEF ArmInv, Ringed, OnRing
<1>6. /\ pnext' \in [Arm!Tcbs -> Arm!Tcbs \cup {Arm!Nil}] /\ pnext'[t] = g /\ pnext'[g] = pnext[t]
      /\ \A u \in Arm!Tcbs : u # t /\ u # g => pnext'[u] = pnext[u]
  <2>1. pnext \in [Arm!Tcbs -> Arm!Tcbs \cup {Arm!Nil}] /\ t # g
    BY <1>5 DEF ArmInv, ArmTypeOK
  <2> QED BY <1>2, <1>4, <2>1
<1>7. OnRing' = OnRing \cup {g} /\ g \notin OnRing /\ OnRing \subseteq Arm!Tcbs
  BY <1>4, <1>5, <1>6, TcbsAre DEF OnRing
<1>8. OneRing(OnRing', pnext')
  <2>1. OneRing(OnRing, pnext) /\ \A u \in OnRing \ {t} : pnext'[u] = pnext[u]
    BY <1>6, <1>7 DEF ArmInv, Ringed
  <2> QED BY <1>5, <1>6, <1>7, <2>1, Inserted
<1>9. ArmTypeOK'
  BY <1>1, <1>2, <1>6 DEF ArmInv, ArmTypeOK, Arm!Nil
<1>10. Ringed'
  <2>1. \A u \in OnRing' \ {Arm!Idle, pready'} : framed'[u]
    BY <1>2, <1>4, <1>7 DEF ArmInv, Ringed
  <2>2. atid'[pready'] # "zombie"
    BY <1>1, <1>2 DEF ArmInv, Ringed
  <2> QED BY <1>2, <1>7, <1>8, <2>1, <2>2 DEF ArmInv, Ringed
<1>11. \A u \in Holders' : u # t /\ got'[u] = got[u] /\ at'[u] = at[u] /\ got[u] # g
  BY <1>1, <1>2, <1>3 DEF ArmInv, ArmCreators
<1>12. ArmCreators'
  <2>1. \A u \in Arm!Tcbs : at'[u] = "get" => got'[u] \in 1 .. ArmThreads + 1
    BY <1>1, <1>2 DEF ArmInv, ArmCreators
  <2> QED BY <1>2, <1>3, <1>11, <2>1 DEF ArmInv, ArmCreators
<1>13. SlotsAre'
  <2> SUFFICES ASSUME NEW s \in Arm!Slots
               PROVE  /\ pnext'[s] = Arm!Nil => ((atid'[s] # "empty") <=> (\E u \in Holders' : got'[u] = s))
                      /\ pnext'[s] # Arm!Nil => atid'[s] \in {"id", "zombie"}
                           /\ \A u \in Holders' : got'[u] # s
                      /\ atid'[s] = "empty" => ~pstack'[s]
    BY DEF SlotsAre
  <2>1. CASE s = g
    BY <1>2, <1>4, <1>5, <1>6, <1>11, <2>1
  <2>2. CASE s # g
    <3>1. (pnext'[s] = Arm!Nil) <=> (pnext[s] = Arm!Nil)
      BY <1>4, <1>5, <1>6, <2>2, TcbsAre
    <3>2. (\E u \in Holders' : got'[u] = s) <=> (\E u \in Holders : got[u] = s)
      BY <1>3, <1>11, <2>2
    <3> QED BY <1>2, <1>3, <1>11, <3>1, <3>2 DEF ArmInv, SlotsAre
  <2> QED BY <2>1, <2>2
<1>14. StacksAre'
  BY <1>2, <1>3 DEF ArmInv, StacksAre, Stacked
<1> QED BY <1>9, <1>10, <1>12, <1>13, <1>14 DEF ArmInv

-----------------------------------------------------------------------------
(* The rest of a thread's life, and the scheduler                          *)

LEMMA StartStep ==
  ASSUME Arm!ThreadArmAssumption, ArmInv, NEW t \in Arm!Tcbs, Arm!Start(t)
  PROVE  ArmInv'
<1>1. /\ pready = t /\ at[t] = "new" /\ at'[t] = "run" /\ \A u \in Arm!Tcbs : u # t => at'[u] = at[u]
      /\ at' \in [Arm!Tcbs -> {"new", "run", "get", "init", "frame", "add", "ended"}]
  BY ArmStepIs DEF Arm!Start
<1>2. UNCHANGED <<atid, pnext, pready, framed, pstack, got, heap>>
  BY DEF Arm!Start
<1>3. ArmTypeOK'
  BY <1>1, <1>2 DEF ArmInv, ArmTypeOK
<1>4. Ringed'
  <2>1. atid'[pready] # "zombie"
    BY <1>1, <1>2 DEF ArmInv, Ringed
  <2> QED BY <1>2, <2>1, RingStays DEF ArmInv
<1>5. Holders' = Holders /\ Ungiven' = Ungiven /\ Stacked' = Stacked /\ t \notin Holders
       /\ Holders \subseteq Arm!Tcbs
  BY <1>1, <1>2 DEF Holders, Ungiven, Stacked
<1>6. ArmCreators'
  <2>1. \A u \in Arm!Tcbs : at'[u] = "get" => got'[u] \in 1 .. ArmThreads + 1
    BY <1>1, <1>2 DEF ArmInv, ArmCreators
  <2>2. \A u \in Holders : at'[u] = at[u]
    BY <1>1, <1>5
  <2> QED BY <1>2, <1>5, <2>1, <2>2 DEF ArmInv, ArmCreators
<1>7. SlotsAre'
  BY <1>2, <1>5 DEF ArmInv, SlotsAre
<1>8. StacksAre'
  BY <1>2, <1>5 DEF ArmInv, StacksAre
<1> QED BY <1>3, <1>4, <1>6, <1>7, <1>8 DEF ArmInv

LEMMA BecomeZombieStep ==
  ASSUME Arm!ThreadArmAssumption, ArmInv, NEW t \in Arm!Tcbs, Arm!BecomeZombie(t)
  PROVE  ArmInv'
<1>1. /\ pready = t /\ at[t] = "run" /\ at'[t] = "ended" /\ \A u \in Arm!Tcbs : u # t => at'[u] = at[u]
      /\ at' \in [Arm!Tcbs -> {"new", "run", "get", "init", "frame", "add", "ended"}]
  BY ArmStepIs DEF Arm!BecomeZombie
<1>2. /\ t \in Arm!Slots
      /\ UNCHANGED <<pnext, pready, framed, pstack, got, heap>>
      /\ atid' \in [Arm!Tcbs -> {"empty", "starting", "zombie", "id"}] /\ atid'[t] = "zombie"
      /\ \A u \in Arm!Tcbs : u # t => atid'[u] = atid[u]
  BY DEF Arm!BecomeZombie, Arm!Assign, ArmInv, ArmTypeOK
<1>3. ArmTypeOK'
  BY <1>1, <1>2 DEF ArmInv, ArmTypeOK
<1>4. t \in OnRing /\ pnext[t] # Arm!Nil
  BY <1>1 DEF ArmInv, Ringed, OnRing
<1>5. Ringed'
  BY <1>1, <1>2, TcbsAre, RingStays DEF ArmInv
<1>6. Holders' = Holders /\ Ungiven' = Ungiven /\ Stacked' = Stacked /\ t \notin Holders
       /\ Holders \subseteq Arm!Tcbs
  BY <1>1, <1>2 DEF Holders, Ungiven, Stacked
<1>7. \A u \in Holders : at'[u] = at[u] /\ got[u] \in Arm!Slots /\ got[u] # t
       /\ atid'[got[u]] = atid[got[u]]
  <2>1. \A u \in Holders : got[u] # t
    BY <1>2, <1>4 DEF ArmInv, SlotsAre
  <2>2. \A u \in Holders : got[u] \in Arm!Slots
    BY DEF ArmInv, ArmCreators
  <2> QED BY <1>1, <1>2, <1>6, <2>1, <2>2, TcbsAre
<1>8. ArmCreators'
  <2>1. \A u \in Arm!Tcbs : at'[u] = "get" => got'[u] \in 1 .. ArmThreads + 1
    BY <1>1, <1>2 DEF ArmInv, ArmCreators
  <2> QED BY <1>2, <1>6, <1>7, <2>1 DEF ArmInv, ArmCreators
<1>9. SlotsAre'
  <2> SUFFICES ASSUME NEW s \in Arm!Slots
               PROVE  /\ pnext'[s] = Arm!Nil => ((atid'[s] # "empty") <=> (\E u \in Holders' : got'[u] = s))
                      /\ pnext'[s] # Arm!Nil => atid'[s] \in {"id", "zombie"}
                           /\ \A u \in Holders' : got'[u] # s
                      /\ atid'[s] = "empty" => ~pstack'[s]
    BY DEF SlotsAre
  <2>1. CASE s = t
    BY <1>2, <1>4, <1>6, <1>7, <2>1
  <2>2. CASE s # t
    <3>1. atid'[s] = atid[s]
      BY <1>2, <2>2, TcbsAre
    <3> QED BY <1>2, <1>6, <3>1 DEF ArmInv, SlotsAre
  <2> QED BY <2>1, <2>2
<1>10. StacksAre'
  BY <1>2, <1>6 DEF ArmInv, StacksAre
<1> QED BY <1>3, <1>5, <1>8, <1>9, <1>10 DEF ArmInv

\* u is the first tcb after t that is not a zombie, and Z are those on the way.
Follows(t, u) ==
  /\ atid[u] # "zombie"
  /\ \E Z \in SUBSET {v \in Arm!Tcbs : atid[v] = "zombie"} :
       pnext[t] \in Z \cup {u} /\ \A v \in Z : pnext[v] \in Z \cup {u}

\* From a tcb of the ring, the scheduler finds one that is no zombie, for the program's
\* own thread is on the ring; and from idle it finds another one.
LEMMA NextTcbIs ==
  ASSUME Arm!ThreadArmAssumption, ArmInv, NEW t \in OnRing
  PROVE  /\ \E u \in Arm!Tcbs : Arm!NextTcb(t, u)
         /\ \A u \in Arm!Tcbs : Arm!NextTcb(t, u) => u \in OnRing /\ atid[u] # "zombie"
         /\ t = Arm!Idle => ~Arm!NextTcb(t, Arm!Idle)
<1> DEFINE Zombies == {v \in Arm!Tcbs : atid[v] = "zombie"}
           Lost == {v \in OnRing : ~\E u \in Arm!Tcbs : Follows(v, u)}
<1>1. /\ OnRing \subseteq Arm!Tcbs /\ \A v \in OnRing : pnext[v] \in OnRing
      /\ \A S \in SUBSET OnRing : S # {} /\ (\A u \in S : pnext[u] \in S) => S = OnRing
      /\ Arm!Main \in OnRing /\ Arm!Main \notin Zombies /\ Arm!Idle \in OnRing /\ Arm!Main # Arm!Idle
  BY TcbsAre DEF ArmInv, Ringed, OneRing, OnRing
<1>2. ASSUME NEW v \in Lost PROVE pnext[v] \in Lost /\ pnext[v] \in Zombies
  <2>1. v \in OnRing /\ pnext[v] \in OnRing /\ pnext[v] \in Arm!Tcbs
    BY <1>1
  <2>2. pnext[v] \in Zombies
    <3>1. SUFFICES ASSUME atid[pnext[v]] # "zombie" PROVE Follows(v, pnext[v])
      BY <2>1
    <3>2. pnext[v] \in {} \cup {pnext[v]} /\ {} \in SUBSET {w \in Arm!Tcbs : atid[w] = "zombie"}
      OBVIOUS
    <3> QED BY <3>1, <3>2 DEF Follows
  <2>3. ASSUME NEW u \in Arm!Tcbs, Follows(pnext[v], u) PROVE Follows(v, u)
    <3>1. PICK Z \in SUBSET Zombies : pnext[pnext[v]] \in Z \cup {u} /\ \A w \in Z : pnext[w] \in Z \cup {u}
      BY <2>3 DEF Follows
    <3> DEFINE Y == Z \cup {pnext[v]}
    <3>2. Y \in SUBSET Zombies /\ pnext[v] \in Y \cup {u} /\ \A w \in Y : pnext[w] \in Y \cup {u}
      BY <2>2, <3>1
    <3> QED BY <2>3, <3>2 DEF Follows
  <2> QED BY <2>1, <2>2, <2>3
<1>3. Lost = {}
  <2>1. SUFFICES ASSUME Lost # {} PROVE FALSE
    OBVIOUS
  <2>2. Lost = OnRing
    <3>1. Lost \in SUBSET OnRing /\ \A v \in Lost : pnext[v] \in Lost
      BY <1>2
    <3> HIDE DEF Lost
    <3> QED BY <1>1, <2>1, <3>1
  <2>3. \A v \in OnRing : pnext[v] \in Zombies
    BY <1>2, <2>2
  <2> DEFINE S == OnRing \cap Zombies
  <2>4. S # {} /\ \A v \in S : pnext[v] \in S
    BY <1>1, <2>3
  <2>5. S \in SUBSET OnRing
    OBVIOUS
  <2> HIDE DEF S
  <2>6. S = OnRing
    BY <1>1, <2>4, <2>5
  <2> QED BY <1>1, <2>6 DEF S
<1>4. PICK u \in Arm!Tcbs : Follows(t, u)
  BY <1>3
<1>5. PICK Z \in SUBSET Zombies : pnext[t] \in Z \cup {u} /\ \A v \in Z : pnext[v] \in Z \cup {u}
  BY <1>4 DEF Follows
<1>6. atid[u] # "zombie"
  BY <1>4 DEF Follows
<1>7. Arm!NextTcb(t, u)
  <2> SUFFICES ASSUME NEW S \in SUBSET Arm!Tcbs, pnext[t] \in S,
         \A v \in S : atid[v] = "zombie" => pnext[v] \in S,
                      u \notin S
               PROVE  FALSE
    BY <1>6 DEF Arm!NextTcb
  <2> DEFINE R == OnRing \cap S \cap Z
  <2>1. R # {} /\ \A v \in R : pnext[v] \in R
    BY <1>1, <1>5
  <2>2. R \in SUBSET OnRing
    OBVIOUS
  <2> HIDE DEF R
  <2>3. R = OnRing
    BY <1>1, <2>1, <2>2
  <2> QED BY <1>1, <1>5, <2>3 DEF R
<1>8. ASSUME NEW w \in Arm!Tcbs, Arm!NextTcb(t, w) PROVE w = u
  <2> DEFINE S == Z \cup {u}
  <2>1. S \in SUBSET Arm!Tcbs /\ pnext[t] \in S /\ \A v \in S : atid[v] = "zombie" => pnext[v] \in S
    BY <1>5, <1>6
  <2>2. w \in S /\ w \notin Z
    BY <1>8, <2>1 DEF Arm!NextTcb
  <2> QED BY <2>2
<1>9. u \in OnRing
  <2>1. OnRing \in SUBSET Arm!Tcbs /\ pnext[t] \in OnRing
         /\ \A v \in OnRing : atid[v] = "zombie" => pnext[v] \in OnRing
    BY <1>1
  <2> QED BY <1>7, <2>1 DEF Arm!NextTcb
<1>10. ASSUME t = Arm!Idle, u = Arm!Idle PROVE FALSE
  <2> DEFINE S == OnRing \cap (Z \cup {Arm!Idle})
  <2>1. S # {} /\ \A v \in S : pnext[v] \in S
    BY <1>1, <1>5, <1>10
  <2>2. S \in SUBSET OnRing
    OBVIOUS
  <2> HIDE DEF S
  <2>3. S = OnRing
    BY <1>1, <2>1, <2>2
  <2> QED BY <1>1, <1>5, <2>3 DEF S
<1> QED BY <1>1, <1>6, <1>7, <1>8, <1>9, <1>10

LEMMA RescheduleStep ==
  ASSUME Arm!ThreadArmAssumption, ArmInv, Arm!Reschedule
  PROVE  ArmInv'
<1>1. pready \in OnRing /\ Arm!Idle \in OnRing
  BY DEF ArmInv, Ringed
<1>2. /\ pready' \in Arm!Tcbs
      /\ (Arm!NextTcb(pready, pready') /\ pready' # Arm!Idle) \/ Arm!NextTcb(Arm!Idle, pready')
  BY DEF Arm!Reschedule
<1>3. pready' \in OnRing /\ pready' # Arm!Idle /\ atid[pready'] # "zombie"
  BY <1>1, <1>2, NextTcbIs
<1>4. /\ UNCHANGED <<atid, pnext, pstack, at, got, heap>>
      /\ framed' \in [Arm!Tcbs -> BOOLEAN] /\ framed'[pready] /\ \A u \in Arm!Tcbs : framed[u] => framed'[u]
  BY DEF Arm!Reschedule, Arm!Assign, ArmInv, ArmTypeOK
<1>5. OnRing' = OnRing /\ OnRing \subseteq Arm!Tcbs /\ Holders' = Holders
       /\ Ungiven' = Ungiven /\ Stacked' = Stacked
  BY <1>4 DEF OnRing, Holders, Ungiven, Stacked
<1>6. ArmTypeOK'
  BY <1>3, <1>4, <1>5 DEF ArmInv, ArmTypeOK
<1>7. Ringed'
  <2>1. \A u \in OnRing' \ {Arm!Idle, pready'} : framed'[u]
    BY <1>4, <1>5 DEF ArmInv, Ringed
  <2> QED BY <1>3, <1>4, <1>5, <2>1 DEF ArmInv, Ringed
<1>8. ArmCreators'
  <2>1. /\ \A u \in Holders : got[u] \in Arm!Slots /\ (at[u] = "add" => framed[got[u]])
        /\ Arm!Slots \subseteq Arm!Tcbs
    BY TcbsAre DEF ArmInv, ArmCreators
  <2>2. \A u \in Holders : at[u] = "add" => framed'[got[u]]
    BY <1>4, <2>1
  <2> QED BY <1>4, <1>5, <2>2 DEF ArmInv, ArmCreators
<1>9. SlotsAre'
  BY <1>4, <1>5 DEF ArmInv, SlotsAre
<1>10. StacksAre'
  BY <1>4, <1>5 DEF ArmInv, StacksAre
<1> QED BY <1>6, <1>7, <1>8, <1>9, <1>10 DEF ArmInv

LEMMA NextArmInv ==
  ASSUME Arm!ThreadArmAssumption, ArmInv, [Arm!Next]_(Arm!tavars)
  PROVE  ArmInv'
<1>1. CASE Arm!Reschedule
  BY <1>1, RescheduleStep
<1>2. ASSUME NEW t \in Arm!Tcbs, Arm!Thread(t) PROVE ArmInv'
  BY <1>2, MallocStep, ClaimStep, SkipStep, NoTcbStep, TcbInitStep, InitStackFrameStep,
     AddAfterStep, StartStep, BecomeZombieStep DEF Arm!Thread
<1>3. CASE UNCHANGED Arm!tavars
  BY <1>3 DEF Arm!tavars, ArmInv, ArmTypeOK, Ringed, OnRing, ArmCreators, SlotsAre, StacksAre,
     Holders, Ungiven, Stacked
<1> QED BY <1>1, <1>2, <1>3 DEF Arm!Next

-----------------------------------------------------------------------------
(* What the invariant says                                                 *)

LEMMA ArmInvIsReadyRing ==
  ASSUME Arm!ThreadArmAssumption, ArmInv
  PROVE  Arm!ReadyRing
<1>1. /\ OnRing \subseteq Arm!Tcbs /\ OneRing(OnRing, pnext)
           /\ {Arm!Main, Arm!Idle, pready} \subseteq OnRing
  BY DEF ArmInv, Ringed, OnRing
<1>2. ASSUME NEW t \in OnRing PROVE Arm!From(t) = OnRing
  <2>1. \A u \in Arm!From(t) : u \in OnRing
    <3>1. t \in OnRing /\ Arm!Closed(OnRing) /\ OnRing \in SUBSET Arm!Tcbs
      BY <1>1 DEF Arm!Closed, OneRing
    <3> QED BY <3>1 DEF Arm!From
  <2>2. ASSUME NEW u \in OnRing, NEW S \in SUBSET Arm!Tcbs, t \in S, Arm!Closed(S) PROVE u \in S
    <3>1. \A v \in S \cap OnRing : pnext[v] \in S \cap OnRing
      BY <1>1, <2>2 DEF Arm!Closed, OneRing, OnRing
    <3>2. S \cap OnRing = OnRing
      BY <1>1, <1>2, <2>2, <3>1 DEF OneRing
    <3> QED BY <3>2
  <2>3. \A u \in OnRing : u \in Arm!From(t)
    BY <1>1, <2>2 DEF Arm!From
  <2> QED BY <2>1, <2>3
<1>3. Arm!From(pready) = OnRing
  BY <1>1, <1>2
<1>4. /\ pready # Arm!Idle
      /\ atid[pready] = "zombie" => at[pready] = "ended"
      /\ \A u \in OnRing \ {Arm!Idle, pready} : framed[u]
  BY DEF ArmInv, Ringed
<1>5. \A t \in Arm!From(pready) : Arm!From(t) = {u \in Arm!Tcbs : pnext[u] # Arm!Nil}
  BY <1>2, <1>3 DEF OnRing
<1>6. {Arm!Main, Arm!Idle} \subseteq Arm!From(pready)
  BY <1>1, <1>3
<1>7. \A t \in Arm!From(pready) \ {Arm!Idle, pready} : framed[t]
  BY <1>3, <1>4
<1>8. \A t \in Arm!From(pready) : \E u \in Arm!Tcbs : Arm!NextTcb(t, u)
  BY <1>3, NextTcbIs
<1> QED BY <1>4, <1>5, <1>6, <1>7, <1>8 DEF Arm!ReadyRing

\* FiniteSets is instantiated with the threads.
LEMMA ArmCardinality == ASSUME NEW S PROVE Arm!Cardinality(S) = Cardinality(S)
  BY DEF Arm!Cardinality, Cardinality

LEMMA ArmInvIsCreateAccounts ==
  ASSUME Arm!ThreadArmAssumption, ArmInv
  PROVE  Arm!CreateAccounts
<1>1. \A t, u \in Holders : got[t] = got[u] => t = u
  BY DEF ArmInv, ArmCreators
<1>2. \A s \in Arm!Slots :
        IF pnext[s] = Arm!Nil THEN (atid[s] # "empty") = (\E t \in Holders : got[t] = s)
        ELSE atid[s] \in {"id", "zombie"} /\ \A t \in Holders : got[t] # s
  BY DEF ArmInv, SlotsAre
<1>3. heap + Arm!Cardinality(Ungiven) + Arm!Cardinality(Stacked) = ArmStacks
  BY ArmCardinality DEF ArmInv, StacksAre
<1> QED BY <1>1, <1>2, <1>3 DEF Arm!CreateAccounts, Holders, Ungiven, Stacked

\* However threads are created, end and are interrupted, every tcb that was added stays on
\* one ring, the scheduler finds a tcb that has a frame and has not ended, and no tcb and no
\* stack is lost or used twice: a stack is free, a creator's or a tcb's, and a tcb is empty,
\* one creator's or on the ring.
THEOREM TcbsAreAccounted ==
  ASSUME Arm!ThreadArmAssumption
  PROVE  Arm!Spec => []TcbsAccounted
<1>1. Arm!Init => ArmInv
  BY InitArmInv
<1>2. ArmInv /\ [Arm!Next]_(Arm!tavars) => ArmInv'
  BY NextArmInv
<1>3. ArmInv => TcbsAccounted
  BY ArmInvIsReadyRing, ArmInvIsCreateAccounts DEF TcbsAccounted, Arm!TcbsAccounted
<1> QED BY <1>1, <1>2, <1>3, PTL DEF Arm!Spec

-----------------------------------------------------------------------------
(* What the keyboard's initialization finds, for any setups with one device *)
(* at most.  Until the devices are reset all answers are the controller's, *)
(* and Early gives them with the configuration, place by place.  Then the  *)
(* program reads what the one device sent, in the order it was sent:       *)
(* Pending, of which a part is in the output buffer.  Resetting and Typing *)
(* say what is pending at each place where the device is a keyboard that   *)
(* answered its reset (and what may be, where it answers late); anything   *)
(* else never sends a byte that starts an identity (Vague).                *)

Devices == {"kbd", "mouse"}

\* One device at most.
OneDevice == \A d \in Setups : \A b, c \in Keyb!Channels : d[b] \in Devices /\ d[c] \in Devices => b = c

\* The channel of the device, if there is one.
Talker == IF dev[2] \in Devices THEN 2 ELSE 1

Kbd == dev[Talker] = "kbd"
Ports == {c \in Keyb!Channels : dev[c] # "no port"}
Pending == out \o flight[Talker]
NoTypes == type = [c \in Keyb!Channels |-> -1]

\* What a channel's type is in the end.
Typed ==
  \A c \in Keyb!Channels :
    type[c] \in IF dev[c] # "kbd" THEN {-1} ELSE IF slow THEN {131, -1, 255} ELSE {131}

KeybTypeOK ==
  /\ dev \in Setups
  /\ slow \in BOOLEAN
  /\ kcall \in [ch : Int, cmd : Int, res : Int]
  /\ config \in Int
  /\ out \in Seq(Int)
  /\ flight \in [Keyb!Channels -> Seq(Int)]
  /\ enabled \subseteq Keyb!Channels /\ isReset \subseteq Keyb!Channels
  /\ type \in [Keyb!Channels -> Int]

Silent == \A c \in Keyb!Channels : flight[c] = <<>>

\* The configuration once the second channel, if there is one, is disabled.
OneOn == IF 2 \in Ports THEN 36 ELSE 4

Early ==
  /\ kpc = "disable" => config = 71 /\ out \in {<<>>, <<28>>} /\ kcall.ch = 0 /\ kcall.cmd = 0
       /\ tested = {}
  /\ kpc = "flush" => config = 119 /\ out \in {<<>>, <<28>>} /\ kcall.ch = 0 /\ kcall.cmd = 0 /\ tested = {}
  /\ (kpc = "wr_config" /\ kcall.ch = 0) => config = 119 /\ out = <<>> /\ kcall.cmd = 0 /\ tested = {}
  /\ (kpc = "wr_config_rd" /\ kcall.ch = 0) => config = 119 /\ out = <<119>> /\ kcall.cmd = 0 /\ tested = {}
  /\ kpc = "dual" => config = 4 /\ out = <<>>
  /\ kpc = "dual_rd" => config = 4 /\ out = IF 2 \in Ports THEN <<4>> ELSE <<36>>
  /\ kpc = "test1" => config = OneOn /\ out = <<>> /\ tested = Ports \ {1}
  /\ kpc = "test1_rd" => config = OneOn /\ out = <<0>> /\ tested = Ports \ {1}
  /\ kpc = "test2" => config = OneOn /\ out = <<>> /\ tested = Keyb!Channels /\ Ports = Keyb!Channels
  /\ kpc = "test2_rd" => config = OneOn /\ out = <<0>> /\ tested = Keyb!Channels /\ Ports = Keyb!Channels
  /\ kpc = "en1" => config = OneOn /\ out = <<>> /\ tested = Ports
  /\ kpc = "en1_rd" => config = OneOn /\ out = <<36>> /\ tested = Ports
  /\ kpc = "en2" => config = 36 /\ out = <<>> /\ tested = Keyb!Channels /\ Ports = Keyb!Channels
  /\ kpc = "en2_rd" => config = 4 /\ out = <<4>> /\ tested = Keyb!Channels /\ Ports = Keyb!Channels

InEarly ==
  \/ kpc \in {"disable", "flush", "dual", "dual_rd", "test1", "test1_rd", "test2", "test2_rd",
              "en1", "en1_rd", "en2", "en2_rd"}
  \/ (kpc \in {"wr_config", "wr_config_rd"} /\ kcall.ch = 0)

InCall == kpc \in {"send", "resp", "returned"}
InReset == kpc \in {"reset", "reset_rd"} \/ (InCall /\ kcall.cmd = 255)
InType ==
  \/ kpc \in {"type", "ident1", "ident2", "last_flush"}
  \/ (InCall /\ kcall.cmd \in {245, 242, 244})
InUse ==
  \/ kpc \in {"ready", "intr_on", "intr_off"}
  \/ (kpc \in {"wr_config", "wr_config_rd"} /\ kcall.ch = 1)

\* No byte that is pending starts an identity, or will.
Vague ==
  /\ NoTypes
  /\ \A i \in DOMAIN Pending : Pending[i] \in {250, 170, 0}
  /\ (kpc = "returned" /\ kcall.cmd = 242) => kcall.res \in {250, -1}
  /\ kpc # "ident2"
  /\ (InType /\ (InCall \/ kpc = "ident1")) => kcall.ch \in isReset

\* The keyboard's answer to its reset: it was read in time, or not.
Answered ==
  \/ isReset = {Talker} /\ Pending = <<170>>
  \/ slow /\ Talker \notin isReset /\ Pending \in {<<250, 170>>, <<170>>}

NotReset == isReset = {} /\ Pending = <<>>

Resetting ==
  /\ NoTypes
  /\ kpc \in {"reset", "send"} => IF kcall.ch <= Talker THEN NotReset ELSE Answered
  /\ kpc = "resp" => IF kcall.ch < Talker THEN NotReset
                     ELSE IF kcall.ch = Talker THEN isReset = {} /\ Pending = <<250, 170>> ELSE Answered
  /\ kpc = "returned" =>
       IF kcall.ch < Talker THEN NotReset /\ kcall.res = -1
       ELSE IF kcall.ch = Talker
       THEN /\ isReset = {}
            /\ \/ kcall.res = 250 /\ Pending = <<170>>
               \/ kcall.res = -1 /\ slow /\ Pending = <<250, 170>>
       ELSE \/ kcall.res = -1 /\ Answered
            \/ kcall.res = 170 /\ Pending = <<>>
            \/ kcall.res = 250 /\ slow /\ Talker \notin isReset /\ Pending = <<170>>
  /\ kpc = "reset_rd" => Pending = <<>>

Typing ==
  /\ isReset = {Talker}
  /\ (InCall \/ kpc \in {"ident1", "ident2"}) => kcall.ch = Talker
  /\ kpc = "type" => IF kcall.ch <= Talker THEN NoTypes /\ Pending = <<170>> ELSE Typed
  /\ (InCall /\ kcall.cmd = 245) =>
       /\ NoTypes
       /\ kpc = "send" => Pending = <<170>>
       /\ kpc = "resp" => Pending \in {<<170, 250>>, <<250>>}
       /\ kpc = "returned" => (kcall.res = 250 /\ Pending = <<>>) \/ (kcall.res = -1 /\ slow)
  /\ (InCall /\ kcall.cmd = 242) =>
       /\ NoTypes
       /\ kpc = "send" => Pending = <<>>
       /\ kpc = "resp" => Pending = <<250, 171, 131>>
       /\ kpc = "returned" => (kcall.res = 250 /\ Pending = <<171, 131>>) \/ (kcall.res = -1 /\ slow)
  /\ kpc = "ident1" => NoTypes /\ Pending = <<171, 131>>
  /\ kpc = "ident2" => NoTypes /\ Pending = <<131>>
  /\ (InCall /\ kcall.cmd = 244) => Typed
  /\ kpc = "last_flush" => Typed

\* Only the device sends, and it is asked on a channel there is.
Asking ==
  /\ config = 4 /\ enabled = Ports
  /\ \A c \in Keyb!Channels \ {Talker} : flight[c] = <<>>
  /\ (InCall \/ kpc \in {"reset_rd", "ident1", "ident2"}) => kcall.ch \in Keyb!Channels
  /\ kpc \in {"reset", "type"} => kcall.ch \in 1 .. 3

KeybInv ==
  /\ KeybTypeOK
  /\ InEarly \/ InReset \/ InType \/ InUse
  /\ InEarly =>
       /\ Silent /\ NoTypes /\ isReset = {} /\ Early
       /\ enabled = IF kpc \in {"en2", "en2_rd"} THEN {1} ELSE {}
       /\ kpc \in {"test2", "test2_rd", "en1", "en1_rd", "en2", "en2_rd"} => kcall.ch = 1
  /\ InReset => Asking /\ (IF Kbd THEN Resetting ELSE Vague)
  /\ InType => Asking /\ (IF Kbd /\ Talker \in isReset THEN Typing ELSE (Vague /\ (Kbd => slow)))
  /\ InUse => enabled = Ports /\ Typed

-----------------------------------------------------------------------------
\* The bits of the configuration bytes that occur.
LEMMA Bits ==
  /\ Keyb!With(Keyb!With(71, Keyb!Clock(1)), Keyb!Clock(2)) = 119 /\ Keyb!With(119, Keyb!Clock(2)) = 119
  /\ Keyb!Merge(119, 0) = 4
  /\ Keyb!Less(4, Keyb!Clock(2)) = 4 /\ Keyb!Less(4, Keyb!Clock(1)) = 4
       /\ Keyb!Less(36, Keyb!Clock(1)) = 36 /\ Keyb!Less(36, Keyb!Clock(2)) = 4
  /\ Keyb!With(4, Keyb!Clock(2)) = 36 /\ Keyb!With(36, Keyb!Clock(2)) = 36
  /\ ~Keyb!Bit(4, Keyb!Clock(1)) /\ ~Keyb!Bit(4, Keyb!Clock(2))
       /\ ~Keyb!Bit(36, Keyb!Clock(1)) /\ Keyb!Bit(36, Keyb!Clock(2))
BY DEF Keyb!With, Keyb!Less, Keyb!Bit, Keyb!Clock, Keyb!Merge

\* The configuration and what is read of it stay numbers.
LEMMA BitTypes ==
  ASSUME NEW b \in Int, NEW c \in Keyb!Channels
  PROVE  Keyb!With(b, Keyb!Clock(c)) \in Int /\ Keyb!Less(b, Keyb!Clock(c)) \in Int /\ Keyb!Shown(b) \in Int
         /\ Keyb!With(b, Keyb!Intr(c)) \in Int /\ Keyb!Less(b, Keyb!Intr(c)) \in Int
BY DEF Keyb!With, Keyb!Less, Keyb!Clock, Keyb!Intr, Keyb!Shown, Keyb!Channels

LEMMA MergeType == ASSUME NEW b, NEW c PROVE Keyb!Merge(b, c) \in Int
BY DEF Keyb!Merge

\* The first of two sequences is read first.
LEMMA TailConcat ==
  ASSUME NEW R, NEW s \in Seq(R), NEW t \in Seq(R), s # <<>>
  PROVE  Tail(s \o t) = Tail(s) \o t /\ (s \o t)[1] = Head(s) /\ s \o t # <<>>
<1>1. Len(s) \in Nat /\ Len(t) \in Nat /\ Len(s) > 0
  OBVIOUS
<1>2. s \o t \in Seq(R) /\ Len(s \o t) = Len(s) + Len(t) /\ s \o t # <<>>
  BY <1>1
<1>3. Tail(s) \in Seq(R) /\ Len(Tail(s)) = Len(s) - 1 /\ \A i \in 1 .. Len(s) - 1 : Tail(s)[i] = s[i + 1]
  BY <1>1
<1>4. Tail(s \o t) \in Seq(R) /\ Len(Tail(s \o t)) = Len(s) + Len(t) - 1
      /\ \A i \in 1 .. Len(s) + Len(t) - 1 : Tail(s \o t)[i] = (s \o t)[i + 1]
  BY <1>1, <1>2
<1>5. Tail(s) \o t \in Seq(R) /\ Len(Tail(s) \o t) = Len(s) + Len(t) - 1
  BY <1>1, <1>3
<1>6. ASSUME NEW i \in 1 .. Len(s) + Len(t) - 1 PROVE Tail(s \o t)[i] = (Tail(s) \o t)[i]
  <2>1. CASE i <= Len(s) - 1
    BY <1>1, <1>3, <1>4, <2>1
  <2>2. CASE ~(i <= Len(s) - 1)
    BY <1>1, <1>3, <1>4, <2>2
  <2> QED BY <2>1, <2>2
<1>7. Tail(s \o t) = Tail(s) \o t
  BY <1>4, <1>5, <1>6
<1>8. (s \o t)[1] = s[1] /\ Head(s) = s[1]
  BY <1>1
<1> QED BY <1>2, <1>7, <1>8

\* What is pending is empty when both of its parts are.
LEMMA Pendings ==
  ASSUME KeybTypeOK
  PROVE  /\ Talker \in Keyb!Channels /\ flight[Talker] \in Seq(Int) /\ Pending \in Seq(Int)
         /\ (Pending = <<>> <=> out = <<>> /\ flight[Talker] = <<>>)
BY DEF KeybTypeOK, Talker, Pending, Keyb!Channels

\* What is left of the answers.
LEMMA Tails ==
  /\ \A b : Tail(<<b>>) = <<>> /\ Head(<<b>>) = b /\ <<b>> # <<>>
  /\ \A a, b : Tail(<<a, b>>) = <<b>> /\ Head(<<a, b>>) = a /\ <<a, b>> # <<>>
  /\ \A a, b, c : Tail(<<a, b, c>>) = <<b, c>> /\ Head(<<a, b, c>>) = a /\ <<a, b, c>> # <<>>
OBVIOUS

\* A read takes the first byte that is pending, or none.
LEMMA Reading ==
  ASSUME KeybTypeOK, Asking, Keyb!ReadyOrLate, out' = Keyb!Rest, UNCHANGED <<dev, flight>>
  PROVE  \/ /\ out # <<>> /\ Pending # <<>> /\ Keyb!Byte = Pending[1] /\ Pending' = Tail(Pending)
         \/ /\ out = <<>> /\ Keyb!Byte = -1 /\ Pending' = Pending /\ (Pending = <<>> \/ slow)
<1>1. Talker' = Talker /\ Pending' = out' \o flight[Talker]
  BY DEF Talker, Pending
<1>2. flight[Talker] \in Seq(Int) /\ out \in Seq(Int)
  BY Pendings DEF KeybTypeOK
<1>3. CASE out = <<>>
  <2>1. Keyb!Byte = -1 /\ out' = out
    BY <1>3 DEF Keyb!Byte, Keyb!Rest
  <2>2. slow \/ \A c \in Keyb!Channels : flight[c] = <<>>
    BY <1>3 DEF Keyb!ReadyOrLate, Keyb!Ready
  <2> QED BY <1>1, <1>3, <2>1, <2>2, Pendings DEF Pending
<1>4. CASE out # <<>>
  <2>1. Keyb!Byte = Head(out) /\ out' = Tail(out)
    BY <1>4 DEF Keyb!Byte, Keyb!Rest
  <2> QED BY SMTT(30), <1>1, <1>2, <1>4, <2>1, TailConcat DEF Pending
<1> QED BY <1>3, <1>4

\* What arrives was pending.
LEMMA Arriving ==
  ASSUME KeybTypeOK, NEW c \in Keyb!Channels, Keyb!Arrive(c), Asking
  PROVE  Pending' = Pending /\ c = Talker
<1>1. c = Talker
  BY DEF Asking, Keyb!Arrive
<1>2. /\ flight[c] \in Seq(Int) /\ flight[c] # <<>> /\ out \in Seq(Int)
      /\ out' = Append(out, Head(flight[c])) /\ flight'[c] = Tail(flight[c]) /\ Talker' = Talker
  BY <1>1, Pendings DEF Keyb!Arrive, KeybTypeOK, Talker
<1>3. ASSUME NEW f \in Seq(Int), NEW o \in Seq(Int), f # <<>>
      PROVE  Append(o, Head(f)) \o Tail(f) = o \o f
  <2>1. Append(o, Head(f)) = o \o <<Head(f)>> /\ f = <<Head(f)>> \o Tail(f)
    BY <1>3
  <2>2. Head(f) \in Int /\ Tail(f) \in Seq(Int) /\ <<Head(f)>> \in Seq(Int)
    BY <1>3
  <2> QED BY <2>1, <2>2, ConcatAssociative
<1> QED BY <1>1, <1>2, <1>3 DEF Pending

\* All that a device answers.
LEMMA Answers ==
  ASSUME NEW d, NEW cmd
  PROVE  Keyb!Answer(d, cmd) \in {<<>>, <<250, 170>>, <<250, 171, 131>>, <<250, 170, 0>>, <<250,
    0>>, <<250>>}
<1>1. CASE d \in {"none", "no port"}
  BY <1>1 DEF Keyb!Answer
<1>2. CASE d = "kbd" /\ cmd \in {255, 242}
  BY <1>2 DEF Keyb!Answer
<1>3. CASE d = "mouse" /\ cmd \in {255, 242}
  BY <1>3 DEF Keyb!Answer
<1>4. CASE d \notin {"none", "no port"} /\ (d \notin {"kbd", "mouse"} \/ cmd \notin {255, 242})
  BY <1>4 DEF Keyb!Answer
<1> QED BY <1>1, <1>2, <1>3, <1>4

\* What the one device is asked, it sends after what is pending.
LEMMA Sending ==
  ASSUME Keyb!KeyboardAssumption, KeybTypeOK, Asking, OneDevice, Keyb!Send
  PROVE  /\ flight' \in [Keyb!Channels -> Seq(Int)]
         /\ \A c \in Keyb!Channels \ {Talker} : flight'[c] = <<>>
         /\ Pending' = IF kcall.ch = Talker THEN Pending \o Keyb!Answer(dev[Talker], kcall.cmd) ELSE Pending
<1>1. kcall.ch \in Keyb!Channels /\ ~Keyb!Bit(config, Keyb!Clock(kcall.ch))
  BY Bits DEF Asking, Keyb!Send, Keyb!At, InCall, Keyb!Channels
<1>2. PICK f, a, c : f = flight /\ a = Keyb!Answer(dev[kcall.ch], kcall.cmd) /\ c = kcall.ch
  OBVIOUS
<1>3. c \in Keyb!Channels /\ f \in [Keyb!Channels -> Seq(Int)] /\ out \in Seq(Int)
  BY <1>1, <1>2 DEF KeybTypeOK
<1>4. flight' = [f EXCEPT ![c] = f[c] \o a]
  BY <1>1, <1>2 DEF Keyb!Send
<1>5. a \in Seq(Int)
  <2>1. /\ <<>> \in Seq(Int) /\ <<250, 170>> \in Seq(Int) /\ <<250, 171, 131>> \in Seq(Int)
        /\ <<250, 170, 0>> \in Seq(Int) /\ <<250, 0>> \in Seq(Int) /\ <<250>> \in Seq(Int)
    OBVIOUS
  <2>2. a \in {<<>>, <<250, 170>>, <<250, 171, 131>>, <<250, 170, 0>>, <<250, 0>>, <<250>>}
    BY <1>2, Answers
  <2> QED BY ZenonT(60), <2>1, <2>2
<1>6. flight' \in [Keyb!Channels -> Seq(Int)] /\ flight'[c] = f[c] \o a
      /\ \A b \in Keyb!Channels \ {c} : flight'[b] = f[b]
  BY <1>3, <1>4, <1>5
<1>7. Talker' = Talker /\ out' = out /\ Talker \in Keyb!Channels
  BY Pendings DEF Talker, Keyb!Send, Keyb!At
<1>8. CASE c = Talker
  <2>1. Pending' = out \o (f[c] \o a)
    BY <1>6, <1>7, <1>8 DEF Pending
  <2>2. out \o (f[c] \o a) = (out \o f[c]) \o a
    <3>1. f[c] \in Seq(Int)
      BY <1>3
    <3> QED BY SMTT(30), <1>3, <1>5, <3>1, ConcatAssociative
  <2>3. Pending' = Pending \o a
    BY <1>2, <1>8, <2>1, <2>2 DEF Pending
  <2> QED BY <1>2, <1>6, <1>8, <2>3 DEF Asking
<1>9. CASE c # Talker
  <2>1. dev[c] \notin Devices
    BY <1>3, <1>9, Pendings DEF OneDevice, KeybTypeOK, Talker, Devices, Keyb!Channels
  <2>2. dev[c] \in {"none", "no port"}
    <3>1. dev \in [Keyb!Channels -> {"none", "no port", "kbd", "mouse"}]
      BY DEF Keyb!KeyboardAssumption, KeybTypeOK
    <3> QED BY <1>3, <2>1, <3>1 DEF Devices
  <2>3. a = <<>>
    BY <1>2, <2>2 DEF Keyb!Answer
  <2>4. f[c] = <<>>
    BY <1>2, <1>3, <1>9 DEF Asking
  <2>5. flight'[c] = <<>> /\ flight'[Talker] = f[Talker]
    BY <1>6, <1>7, <1>9, <2>3, <2>4
  <2>6. Pending' = Pending
    BY <1>2, <1>7, <2>5 DEF Pending
  <2>7. \A b \in Keyb!Channels \ {Talker} : flight'[b] = <<>>
    BY <1>2, <1>6, <1>7, <2>5 DEF Asking
  <2> QED BY <1>2, <1>6, <1>9, <2>6, <2>7
<1> QED BY <1>8, <1>9

-----------------------------------------------------------------------------
(* The types.                                                              *)

LEMMA ByteType == ASSUME KeybTypeOK PROVE Keyb!Byte \in Int /\ Keyb!Rest \in Seq(Int)
BY DEF KeybTypeOK, Keyb!Byte, Keyb!Rest

LEMMA RestType ==
  ASSUME KeybTypeOK, Keyb!Ready
  PROVE  Keyb!Rest \in Seq(Int) /\ Head(out) \in Int
BY DEF KeybTypeOK, Keyb!Rest, Keyb!Ready

LEMMA InitTypeOK == ASSUME Keyb!KeyboardAssumption, Keyb!Init PROVE KeybTypeOK
<1>1. out \in Seq(Int) /\ flight \in [Keyb!Channels -> Seq(Int)]
  <2>1. <<>> \in Seq(Int) /\ <<28>> \in Seq(Int)
    OBVIOUS
  <2>2. flight = [c \in Keyb!Channels |-> <<>>] /\ out \in {<<>>, <<28>>}
    BY DEF Keyb!Init
  <2> QED BY <2>1, <2>2
<1>2. kcall \in [ch : Int, cmd : Int, res : Int] /\ type \in [Keyb!Channels -> Int]
  BY DEF Keyb!Init
<1> QED BY <1>1, <1>2 DEF Keyb!Init, KeybTypeOK

LEMMA EarlyTypeOK ==
  ASSUME KeybTypeOK, NEW c \in Keyb!Channels,
         Keyb!Disable \/ Keyb!Flush \/ Keyb!WrConfigAsk \/ Keyb!WrConfig \/ Keyb!HasDual
         \/ Keyb!TestAsk(c) \/ Keyb!TestRead(c) \/ Keyb!Enable(c)
  PROVE  KeybTypeOK'
<1>0. Keyb!Rest \in Seq(Int) /\ 1 \in Keyb!Channels /\ 2 \in Keyb!Channels
  BY ByteType DEF Keyb!Channels
<1>1. CASE Keyb!Disable
  <2>1. config' \in Int
    BY <1>0, <1>1, BitTypes DEF Keyb!Disable, KeybTypeOK
  <2> QED BY <1>1, <2>1 DEF Keyb!Disable, KeybTypeOK, Keyb!At, Keyb!resVars
<1>2. CASE Keyb!Flush
  BY <1>0, <1>2 DEF Keyb!Flush, Keyb!Flushed, KeybTypeOK, Keyb!At, Keyb!resVars
<1>3. CASE Keyb!WrConfigAsk
  <2>1. Keyb!Shown(config) \in Int /\ out \in Seq(Int)
    BY <1>0, BitTypes DEF KeybTypeOK
  <2>2. out' \in Seq(Int)
    BY <1>3, <2>1 DEF Keyb!WrConfigAsk
  <2> QED BY <1>3, <2>2 DEF Keyb!WrConfigAsk, KeybTypeOK, Keyb!At, Keyb!resVars
<1>4. CASE Keyb!WrConfig
  BY <1>0, <1>4, MergeType DEF Keyb!WrConfig, KeybTypeOK, Keyb!At, Keyb!resVars
<1>5. ASSUME NEW b \in Keyb!Channels, NEW x, NEW y, Keyb!EnableAsk(b, x, y)
      PROVE  KeybTypeOK'
  <2>1. config' \in Int
    BY <1>5, BitTypes DEF Keyb!EnableAsk, KeybTypeOK
  <2>2. Keyb!Shown(Keyb!Less(config, Keyb!Clock(b))) \in Int /\ out \in Seq(Int)
    BY <1>5, BitTypes DEF KeybTypeOK
  <2>3. out' \in Seq(Int)
    BY <1>5, <2>2 DEF Keyb!EnableAsk
  <2> QED BY <1>5, <2>1, <2>3 DEF Keyb!EnableAsk, KeybTypeOK, Keyb!At, Keyb!resVars
<1>6. CASE Keyb!HasDual
  <2>1. CASE Keyb!EnableAsk(2, "dual", "dual_rd")
    BY <1>0, <1>5, <2>1
  <2>2. CASE Keyb!EnableRead(2, "dual_rd") /\ Keyb!HasDual
    <3>1. config' \in Int
      BY <1>0, <1>6, <2>2, BitTypes DEF Keyb!HasDual, Keyb!EnableRead, Keyb!EnableAsk,
         Keyb!At, KeybTypeOK
    <3> QED BY <1>0, <2>2, <3>1 DEF Keyb!HasDual, Keyb!EnableRead, Keyb!EnableAsk, Keyb!At,
               KeybTypeOK, Keyb!resVars
  <2> QED BY <1>6, <2>1, <2>2 DEF Keyb!HasDual
<1>7. CASE Keyb!TestAsk(c)
  <2>1. out' \in Seq(Int)
    BY <1>7 DEF Keyb!TestAsk, KeybTypeOK
  <2> QED BY <1>7, <2>1 DEF Keyb!TestAsk, KeybTypeOK, Keyb!At, Keyb!resVars
<1>8. CASE Keyb!TestRead(c)
  <2>1. kcall' \in [ch : Int, cmd : Int, res : Int]
    BY <1>8 DEF Keyb!TestRead, KeybTypeOK
  <2> QED BY <1>0, <1>8, <2>1 DEF Keyb!TestRead, KeybTypeOK, Keyb!At
<1>9. CASE Keyb!Enable(c)
  <2>1. PICK x, y : Keyb!EnableAsk(c, x, y) \/ (Keyb!EnableRead(c, y) /\ Keyb!Enable(c))
    BY <1>9 DEF Keyb!Enable
  <2>2. CASE Keyb!EnableRead(c, y) /\ ~Keyb!EnableAsk(c, x, y) /\ Keyb!Enable(c)
    <3>1. CASE \E v, w : Keyb!EnableAsk(c, v, w)
      BY <1>5, <3>1
    <3>2. CASE ~\E v, w : Keyb!EnableAsk(c, v, w)
      BY <1>0, <1>9, <3>2 DEF Keyb!Enable, Keyb!EnableRead, Keyb!At, KeybTypeOK
    <3> QED BY <3>1, <3>2
  <2> QED BY <1>5, <2>1, <2>2
<1> QED BY <1>1, <1>2, <1>3, <1>4, <1>6, <1>7, <1>8, <1>9

LEMMA LateTypeOK ==
  ASSUME Keyb!KeyboardAssumption, OneDevice, KeybTypeOK, InReset \/ InType => Asking,
         InReset \/ InType,
         Keyb!Send \/ Keyb!Respond \/ Keyb!Reset \/ Keyb!ResetDone \/ Keyb!Type
             \/ Keyb!Identify \/ Keyb!LastFlush
  PROVE  KeybTypeOK'
<1>0. Keyb!Rest \in Seq(Int) /\ Keyb!Byte \in Int /\ 1 \in Keyb!Channels /\ 2 \in Keyb!Channels
  BY ByteType DEF Keyb!Channels
<1>1. CASE Keyb!Send
  <2>1. flight' \in [Keyb!Channels -> Seq(Int)]
    BY <1>1, Sending
  <2> QED BY <1>1, <2>1 DEF Keyb!Send, KeybTypeOK, Keyb!At, Keyb!resVars
<1>2. CASE Keyb!Respond
  <2>1. kcall' \in [ch : Int, cmd : Int, res : Int]
    BY <1>0, <1>2 DEF Keyb!Respond, KeybTypeOK
  <2> QED BY <1>0, <1>2, <2>1 DEF Keyb!Respond, KeybTypeOK, Keyb!At, Keyb!resVars
<1>3. CASE Keyb!Reset
  <2>1. kcall' \in [ch : Int, cmd : Int, res : Int]
    BY <1>3 DEF Keyb!Reset, KeybTypeOK, Keyb!Call, Keyb!NextIn
  <2> QED BY <1>3, <2>1 DEF Keyb!Reset, KeybTypeOK, Keyb!At, Keyb!resVars, Keyb!ctlVars
<1>4. CASE Keyb!ResetDone
  <2>1. kcall' \in [ch : Int, cmd : Int, res : Int]
    BY <1>4 DEF Keyb!ResetDone, KeybTypeOK
  <2>2. kcall.ch \in Keyb!Channels
    BY <1>4 DEF Keyb!ResetDone, Keyb!At, Asking, InCall
  <2>3. out' \in Seq(Int) /\ isReset' \subseteq Keyb!Channels
    BY <1>0, <1>4, <2>2 DEF Keyb!ResetDone, KeybTypeOK
  <2> QED BY <1>4, <2>1, <2>3 DEF Keyb!ResetDone, KeybTypeOK, Keyb!At
<1>5. CASE Keyb!Type
  <2>1. kcall' \in [ch : Int, cmd : Int, res : Int]
    BY <1>5 DEF Keyb!Type, KeybTypeOK, Keyb!Call, Keyb!NextIn
  <2> QED BY <1>5, <2>1 DEF Keyb!Type, KeybTypeOK, Keyb!At, Keyb!resVars, Keyb!ctlVars
<1>6. CASE Keyb!Identify
  <2>1. kcall' \in [ch : Int, cmd : Int, res : Int]
    BY <1>6 DEF Keyb!Identify, KeybTypeOK, Keyb!Call, Keyb!NextType, Keyb!ctlVars
  <2>2. kcall.ch \in Keyb!Channels /\ kcall.res \in Int /\ Keyb!Byte % 256 \in Int
    BY <1>0, <1>6 DEF Keyb!Identify, Keyb!At, Asking, InCall, KeybTypeOK
  <2>3. type' \in [Keyb!Channels -> Int]
    <3>1. PICK t : type' = type \/ (type' = [type EXCEPT ![kcall.ch] = t] /\ t \in Int)
      BY <1>6, <2>2 DEF Keyb!Identify, Keyb!SetType, Keyb!resVars
    <3>2. type \in [Keyb!Channels -> Int]
      BY DEF KeybTypeOK
    <3> QED BY <3>1, <3>2
  <2>4. out' \in Seq(Int) /\ UNCHANGED <<dev, slow, config, flight, enabled, isReset>>
    BY <1>0, <1>6 DEF Keyb!Identify, Keyb!At, Keyb!ctlVars, Keyb!resVars, KeybTypeOK
  <2> QED BY <2>1, <2>3, <2>4 DEF KeybTypeOK
<1>7. CASE Keyb!LastFlush
  BY <1>0, <1>7 DEF Keyb!LastFlush, KeybTypeOK, Keyb!At, Keyb!resVars
<1> QED BY <1>1, <1>2, <1>3, <1>4, <1>5, <1>6, <1>7

LEMMA UseTypeOK ==
  ASSUME KeybTypeOK, NEW c \in Keyb!Channels, NEW on \in BOOLEAN,
         Keyb!Rd \/ Keyb!IntrAsk(on) \/ Keyb!IntrSet(on) \/ Keyb!Press(c) \/ Keyb!Arrive(c)
  PROVE  KeybTypeOK'
<1>0. Keyb!Rest \in Seq(Int)
  BY ByteType
<1>1. CASE Keyb!Rd
  BY <1>0, <1>1 DEF Keyb!Rd, KeybTypeOK, Keyb!At, Keyb!resVars
<1>2. CASE Keyb!IntrAsk(on)
  <2>1. Keyb!Shown(config) \in Int /\ out \in Seq(Int)
    BY BitTypes DEF KeybTypeOK
  <2>2. out' \in Seq(Int)
    BY <1>2, <2>1 DEF Keyb!IntrAsk
  <2> QED BY <1>2, <2>2 DEF Keyb!IntrAsk, KeybTypeOK, Keyb!At, Keyb!resVars
<1>3. CASE Keyb!IntrSet(on)
  <2> DEFINE Put(b, d) == IF d \notin enabled THEN b
                          ELSE IF on THEN Keyb!With(b, Keyb!Intr(d)) ELSE Keyb!Less(b, Keyb!Intr(d))
  <2>1. ASSUME NEW b \in Int, NEW d \in Keyb!Channels PROVE Put(b, d) \in Int
    BY BitTypes
  <2>2. Head(out) \in Int
    BY <1>3, RestType DEF Keyb!IntrSet
  <2>3. PICK v : v = Put(Put(Head(out), 1), 2)
    OBVIOUS
  <2>4. v \in Int
    BY <2>1, <2>2, <2>3 DEF Keyb!Channels
  <2>5. kcall' = [kcall EXCEPT !.ch = 1, !.cmd = v]
    BY <1>3, <2>3 DEF Keyb!IntrSet
  <2>6. kcall' \in [ch : Int, cmd : Int, res : Int]
    <3>1. PICK r \in [ch : Int, cmd : Int, res : Int] : r = kcall
      BY DEF KeybTypeOK
    <3> HIDE DEF Put
    <3>2. PICK q : q = [r EXCEPT !.ch = 1]
      OBVIOUS
    <3>3. q \in [ch : Int, cmd : Int, res : Int]
      BY <3>2
    <3>4. kcall' = [q EXCEPT !.cmd = v]
      BY <2>5, <3>1, <3>2
    <3> QED BY <2>4, <3>3, <3>4
  <2> QED BY <1>0, <1>3, <2>6 DEF Keyb!IntrSet, KeybTypeOK, Keyb!At, Keyb!resVars
<1>4. CASE Keyb!Press(c)
  <2>1. flight' \in [Keyb!Channels -> Seq(Int)]
    BY <1>4 DEF Keyb!Press, KeybTypeOK
  <2> QED BY <1>4, <2>1 DEF Keyb!Press, KeybTypeOK, Keyb!At, Keyb!resVars
<1>5. CASE Keyb!Arrive(c)
  <2>1. flight[c] \in Seq(Int) /\ flight[c] # <<>> /\ out \in Seq(Int)
    BY <1>5 DEF Keyb!Arrive, KeybTypeOK
  <2>2. Tail(flight[c]) \in Seq(Int) /\ Append(out, Head(flight[c])) \in Seq(Int)
    BY <2>1
  <2>3. flight' \in [Keyb!Channels -> Seq(Int)] /\ out' \in Seq(Int)
    BY <1>5, <2>2 DEF Keyb!Arrive, KeybTypeOK
  <2> QED BY <1>5, <2>3 DEF Keyb!Arrive, KeybTypeOK, Keyb!resVars
<1> QED BY <1>1, <1>2, <1>3, <1>4, <1>5

-----------------------------------------------------------------------------
(* The steps until the devices are reset.                                  *)

\* There is a port at the first channel, and at the second or not.
LEMMA SecondPort ==
  ASSUME Keyb!KeyboardAssumption, KeybTypeOK
  PROVE  /\ Ports = (IF 2 \in Ports THEN Keyb!Channels ELSE {1}) /\ 1 \in Ports
         /\ 2 \in Ports <=> dev[2] # "no port"
BY DEF Ports, Keyb!KeyboardAssumption, KeybTypeOK, Keyb!Channels

LEMMA ShownIs ==
  ASSUME Keyb!KeyboardAssumption, KeybTypeOK
  PROVE  Keyb!Shown(119) = 119 /\ Keyb!Shown(36) = 36 /\ Keyb!Shown(4) = (IF 2 \in Ports THEN 4 ELSE 36)
BY Bits, SecondPort DEF Keyb!Shown

LEMMA InitKeybInv == ASSUME Keyb!KeyboardAssumption, Keyb!Init PROVE KeybInv
<1>1. KeybTypeOK
  BY InitTypeOK
<1>2. Silent /\ NoTypes /\ isReset = {} /\ Early /\ enabled = {}
  BY DEF Keyb!Init, Silent, NoTypes, Early, Keyb!Channels
<1> QED BY <1>1, <1>2 DEF Keyb!Init, KeybInv, InEarly, InReset, InType, InUse, InCall

\* What is left to show of a step that stays in the first phase.
LEMMA EarlyStays ==
  ASSUME KeybInv, KeybTypeOK', InEarly', UNCHANGED <<flight, type, isReset>>, Early', InEarly,
         enabled' = IF kpc' \in {"en2", "en2_rd"} THEN {1} ELSE {},
         kpc' \in {"test2", "test2_rd", "en1", "en1_rd", "en2", "en2_rd"} => kcall'.ch = 1
  PROVE  KeybInv'
<1>1. Silent' /\ NoTypes' /\ isReset' = {}
  BY DEF KeybInv, Silent, NoTypes
<1>2. ~InReset' /\ ~InType' /\ ~InUse'
  BY DEF InEarly, InReset, InType, InUse, InCall
<1> QED BY <1>1, <1>2 DEF KeybInv

\* What is left to show of the step that ends it.
LEMMA ResetStarts ==
  ASSUME KeybInv, KeybTypeOK', InEarly, UNCHANGED <<flight, type, isReset, dev>>,
         kpc' = "reset", out' = <<>>, config' = 4, enabled' = Ports, kcall'.ch = 1
  PROVE  KeybInv'
<1>1. Silent' /\ NoTypes' /\ isReset' = {}
  BY DEF KeybInv, Silent, NoTypes
<1>2. ~InEarly' /\ InReset' /\ ~InType' /\ ~InUse' /\ ~InCall'
  BY DEF InEarly, InReset, InType, InUse, InCall
<1>3. Talker' \in Keyb!Channels /\ Pending' = <<>>
  BY <1>1 DEF Silent, Pending, Talker, Keyb!Channels
<1>4. Asking'
  <2>1. config' = 4 /\ kcall'.ch \in 1 .. 3
    OBVIOUS
  <2>4. enabled' = Ports'
    BY DEF Ports
  <2>2. \A c \in Keyb!Channels : flight'[c] = <<>>
    BY <1>1 DEF Silent
  <2>3. ~(InCall' \/ kpc' \in {"reset_rd", "ident1", "ident2"})
    BY <1>2
  <2> QED BY <2>1, <2>2, <2>3, <2>4 DEF Asking
<1>5. Resetting'
  BY <1>1, <1>2, <1>3 DEF Resetting, NotReset, Keyb!Channels, InCall
<1>6. Vague'
  BY <1>1, <1>2, <1>3 DEF Vague
<1> QED BY <1>2, <1>4, <1>5, <1>6 DEF KeybInv

LEMMA EarlySteps ==
  ASSUME Keyb!KeyboardAssumption, KeybInv, InEarly, NEW c \in Keyb!Channels,
         Keyb!Disable \/ Keyb!Flush \/ Keyb!WrConfigAsk \/ Keyb!WrConfig \/ Keyb!HasDual
         \/ Keyb!TestAsk(c) \/ Keyb!TestRead(c) \/ Keyb!Enable(c)
  PROVE  KeybInv'
<1>0. KeybTypeOK /\ KeybTypeOK' /\ Early /\ enabled = (IF kpc \in {"en2", "en2_rd"} THEN {1} ELSE {})
  BY EarlyTypeOK DEF KeybInv
<1>1. CASE Keyb!Disable
  <2>1. config' = 119 /\ kpc' = "flush" /\ UNCHANGED <<kcall, out, flight, tested, enabled, type, isReset>>
        /\ kpc = "disable"
    BY <1>0, <1>1, Bits DEF Keyb!Disable, Early, Keyb!resVars, Keyb!Go, Keyb!At
  <2>2. Early' /\ InEarly'
    BY <1>0, <2>1 DEF Early, InEarly
  <2> QED BY <1>0, <2>1, <2>2, EarlyStays
<1>2. CASE Keyb!Flush
  <2>1. kpc' = "wr_config" /\ UNCHANGED <<kcall, config, flight, tested, enabled, type, isReset>>
        /\ kpc = "flush" /\ out \in {<<>>, <<28>>}
    BY <1>0, <1>2 DEF Keyb!Flush, Early, Keyb!resVars, Keyb!Go, Keyb!At
  <2>2. out' = <<>>
    BY <1>2, <2>1, Tails DEF Keyb!Flush, Keyb!Flushed, Keyb!Rest
  <2>3. Early' /\ InEarly'
    BY <1>0, <2>1, <2>2 DEF Early, InEarly
  <2> QED BY <1>0, <2>1, <2>3, EarlyStays
<1>3. CASE Keyb!WrConfigAsk
  <2>1. kpc' = "wr_config_rd" /\ UNCHANGED <<kcall, config, flight, tested, enabled, type, isReset>>
        /\ kpc = "wr_config" /\ kcall.ch = 0
    BY <1>0, <1>3 DEF Keyb!WrConfigAsk, Early, Keyb!resVars, Keyb!Go, Keyb!At, InEarly
  <2>2. out' = <<119>>
    BY <1>0, <1>3, <2>1, ShownIs DEF Keyb!WrConfigAsk, Early
  <2>3. Early' /\ InEarly'
    BY <1>0, <2>1, <2>2 DEF Early, InEarly
  <2> QED BY <1>0, <2>1, <2>3, EarlyStays
<1>4. CASE Keyb!WrConfig
  <2>1. kpc' = "dual" /\ UNCHANGED <<kcall, flight, tested, enabled, type, isReset>>
        /\ kpc = "wr_config_rd" /\ kcall.ch = 0 /\ out = <<119>> /\ kcall.cmd = 0
    BY <1>0, <1>4 DEF Keyb!WrConfig, Early, Keyb!resVars, Keyb!Go, Keyb!At, InEarly
  <2>2. out' = <<>> /\ config' = 4
    BY <1>4, <2>1, Bits DEF Keyb!WrConfig, Keyb!Rest
  <2>3. Early' /\ InEarly'
    BY <1>0, <2>1, <2>2 DEF Early, InEarly
  <2> QED BY <1>0, <2>1, <2>3, EarlyStays
<1>5. CASE Keyb!HasDual
  <2>1. CASE Keyb!EnableAsk(2, "dual", "dual_rd")
    <3>1. kpc' = "dual_rd" /\ UNCHANGED <<kcall, flight, tested, enabled, type, isReset, dev>>
          /\ kpc = "dual" /\ config = 4 /\ out = <<>>
      BY <1>0, <2>1 DEF Keyb!EnableAsk, Early, Keyb!resVars, Keyb!Go, Keyb!At
    <3>2. config' = 4 /\ out' = IF 2 \in Ports THEN <<4>> ELSE <<36>>
      BY <1>0, <2>1, <3>1, Bits, ShownIs DEF Keyb!EnableAsk
    <3>3. Early' /\ InEarly'
      BY <1>0, <3>1, <3>2 DEF Early, InEarly, Ports
    <3> QED BY <1>0, <3>1, <3>3, EarlyStays
  <2>2. CASE kpc = "dual_rd"
    <3>1. kpc' = "test1" /\ UNCHANGED <<kcall, flight, enabled, type, isReset, dev>>
          /\ config = 4 /\ out = (IF 2 \in Ports THEN <<4>> ELSE <<36>>) /\ out' = Keyb!Rest
      BY <1>0, <1>5, <2>2 DEF Keyb!HasDual, Keyb!EnableRead, Keyb!EnableAsk, Early, Keyb!Go,
         Keyb!At
    <3>2. Keyb!IsEnabled(2) <=> 2 \in Ports
      BY <3>1, Bits DEF Keyb!IsEnabled
    <3>3. out' = <<>>
      BY <3>1, Tails DEF Keyb!Rest
    <3>4. /\ tested' = IF Keyb!IsEnabled(2) THEN {2} ELSE {}
          /\ config' = IF Keyb!IsEnabled(2) THEN Keyb!With(config, Keyb!Clock(2)) ELSE config
      BY <1>5, <2>2 DEF Keyb!HasDual, Keyb!EnableAsk, Keyb!At
    <3>5. tested' = Ports \ {1} /\ config' = OneOn
      BY ZenonT(60), <1>0, <3>1, <3>2, <3>4, Bits, SecondPort DEF OneOn, Keyb!Channels
    <3>6. Early' /\ InEarly'
      BY <1>0, <3>1, <3>3, <3>5 DEF Early, InEarly, Ports, OneOn
    <3> QED BY <1>0, <2>2, <3>1, <3>6, EarlyStays
  <2> QED BY <1>5, <2>1, <2>2 DEF Keyb!HasDual, Keyb!EnableRead, Keyb!At
<1>6. CASE Keyb!TestAsk(c)
  <2>0. UNCHANGED <<kcall, config, flight, tested, enabled, type, isReset, dev>> /\ out' = Append(out, 0)
        /\ \/ c = 1 /\ kpc = "test1" /\ kpc' = "test1_rd"
           \/ c = 2 /\ kpc = "test2" /\ kpc' = "test2_rd"
    BY <1>6 DEF Keyb!TestAsk, Keyb!resVars, Keyb!Go, Keyb!At, Keyb!Channels
  <2>1. out' = <<0>>
    <3>1. out = <<>>
      BY <1>0, <2>0 DEF Early
    <3> QED BY <2>0, <3>1
  <2>2. Early' /\ InEarly'
    BY <1>0, <2>0, <2>1 DEF Early, InEarly, Ports, OneOn
  <2>3. kpc' = "test2_rd" => kcall'.ch = 1
    BY <2>0 DEF KeybInv
  <2> QED BY <1>0, <2>0, <2>2, <2>3, EarlyStays
<1>7. CASE Keyb!TestRead(c)
  <2>0. UNCHANGED <<config, flight, enabled, type, isReset, dev>> /\ out' = Keyb!Rest
        /\ ((c = 1 /\ kpc = "test1_rd") \/ (c = 2 /\ kpc = "test2_rd"))
    BY <1>7 DEF Keyb!TestRead, Keyb!At, Keyb!Channels
  <2>1. out = <<0>> /\ out' = <<>> /\ Head(out) = 0
    BY <1>0, <2>0, Tails DEF Early, Keyb!Rest
  <2>2. tested' = tested \cup {c} /\ kcall'.ch = 1
    BY <1>0, <1>7, <2>1 DEF Keyb!TestRead, KeybTypeOK
  <2>3. CASE c = 1
    <3>0. tested = Ports \ {1} /\ config = OneOn
      BY <1>0, <2>0, <2>3 DEF Early
    <3>1. tested' = Ports
      BY <1>0, <2>2, <2>3, <3>0, SecondPort
    <3>2. kpc' = IF 2 \in Ports THEN "test2" ELSE "en1"
      <4>1. kpc' = IF 2 \in tested THEN "test2"
                   ELSE IF 1 \in tested' THEN "en1" ELSE IF 2 \in tested' THEN "en2" ELSE "reset"
        BY <1>7, <2>3 DEF Keyb!TestRead, Keyb!Go
      <4>2. 2 \in tested <=> 2 \in Ports
        BY <3>0
      <4>3. 1 \in tested'
        BY <1>0, <3>1, SecondPort
      <4> QED BY <4>1, <4>2, <4>3
    <3>3. Ports' = Ports
      BY <2>0 DEF Ports
    <3>4. Early' /\ InEarly'
      BY <1>0, <2>0, <2>1, <3>0, <3>1, <3>2, <3>3, SecondPort DEF Early, InEarly, OneOn,
         Keyb!Channels
    <3> QED BY <1>0, <2>0, <2>2, <3>2, <3>4, EarlyStays
  <2>4. CASE c = 2
    <3>1. tested' = Ports /\ Ports = Keyb!Channels /\ config = OneOn
      BY <1>0, <2>0, <2>2, <2>4 DEF Early, Keyb!Channels
    <3>2. kpc' = "en1"
      BY <1>7, <2>4, <3>1 DEF Keyb!TestRead, Keyb!Go, Keyb!Channels
    <3>3. Early' /\ InEarly'
      BY <1>0, <2>0, <2>1, <3>1, <3>2 DEF Early, InEarly, Ports, OneOn
    <3> QED BY <1>0, <2>0, <2>2, <3>2, <3>3, EarlyStays
  <2> QED BY <2>3, <2>4 DEF Keyb!Channels
<1>8. CASE Keyb!Enable(c)
  <2>1. CASE kpc = "en1"
    <3>1. kpc' = "en1_rd" /\ UNCHANGED <<kcall, flight, tested, enabled, type, isReset, dev>>
           /\ config = OneOn
          /\ tested = Ports /\ out = <<>> /\ Keyb!EnableAsk(1, "en1", "en1_rd")
      BY <1>0, <1>8, <2>1 DEF Keyb!Enable, Keyb!EnableAsk, Keyb!EnableRead, Early,
         Keyb!resVars, Keyb!Go, Keyb!At, Keyb!Channels
    <3>2. config' = OneOn /\ out' = <<36>>
      BY <1>0, <3>1, Bits, ShownIs DEF Keyb!EnableAsk, OneOn
    <3>3. Early' /\ InEarly'
      BY <1>0, <3>1, <3>2 DEF Early, InEarly, Ports, OneOn
    <3>4. kcall'.ch = 1
      BY <2>1, <3>1 DEF KeybInv
    <3> QED BY <1>0, <2>1, <3>1, <3>3, <3>4, EarlyStays
  <2>2. CASE kpc = "en2"
    <3>1. kpc' = "en2_rd" /\ UNCHANGED <<kcall, flight, tested, enabled, type, isReset, dev>> /\ config = 36
          /\ tested = Keyb!Channels /\ Ports = Keyb!Channels /\ out = <<>>
               /\ Keyb!EnableAsk(2, "en2", "en2_rd")
      BY <1>0, <1>8, <2>2 DEF Keyb!Enable, Keyb!EnableAsk, Keyb!EnableRead, Early,
         Keyb!resVars, Keyb!Go, Keyb!At, Keyb!Channels
    <3>2. config' = 4 /\ out' = <<4>>
      BY <1>0, <3>1, Bits, ShownIs DEF Keyb!EnableAsk, Keyb!Channels
    <3>3. Early' /\ InEarly'
      BY <1>0, <3>1, <3>2 DEF Early, InEarly, Ports
    <3>4. kcall'.ch = 1
      BY <2>2, <3>1 DEF KeybInv
    <3> QED BY <1>0, <2>2, <3>1, <3>3, <3>4, EarlyStays
  <2>3. CASE kpc = "en1_rd"
    <3>0. UNCHANGED <<kcall, flight, config, tested, type, isReset, dev>> /\ out' = Keyb!Rest
      BY <1>8, <2>3 DEF Keyb!Enable, Keyb!EnableAsk, Keyb!EnableRead, Keyb!At, Keyb!Channels
    <3>1. config = OneOn /\ kcall.ch = 1 /\ tested = Ports /\ out = <<36>> /\ enabled = {}
          /\ out' = <<>> /\ Head(out) = 36
      BY <1>0, <2>3, <3>0, Tails DEF Early, KeybInv, Keyb!Rest
    <3>2. Keyb!IsEnabled(1)
      BY <3>1, Bits DEF Keyb!IsEnabled
    <3>3. enabled' = {1} /\ kpc' = IF 2 \in Ports THEN "en2" ELSE "reset"
      BY <1>8, <2>3, <3>1, <3>2 DEF Keyb!Enable, Keyb!EnableAsk, Keyb!EnableRead, Keyb!At,
         Keyb!Channels, Keyb!Go
    <3>4. CASE 2 \in Ports
      <4>1. Early' /\ InEarly'
        BY <1>0, <3>0, <3>1, <3>3, <3>4, SecondPort DEF Early, InEarly, Ports, OneOn
      <4> QED BY <1>0, <3>0, <3>1, <3>3, <3>4, <4>1, EarlyStays
    <3>5. CASE 2 \notin Ports
      BY <1>0, <3>0, <3>1, <3>3, <3>5, SecondPort, ResetStarts DEF OneOn
    <3> QED BY <3>4, <3>5
  <2>4. CASE kpc = "en2_rd"
    <3>0. UNCHANGED <<kcall, flight, config, tested, type, isReset, dev>> /\ out' = Keyb!Rest
      BY <1>8, <2>4 DEF Keyb!Enable, Keyb!EnableAsk, Keyb!EnableRead, Keyb!At, Keyb!Channels
    <3>1. config = 4 /\ kcall.ch = 1 /\ Ports = Keyb!Channels /\ out = <<4>> /\ enabled = {1}
          /\ out' = <<>> /\ Head(out) = 4
      BY <1>0, <2>4, <3>0, Tails DEF Early, KeybInv, Keyb!Rest
    <3>2. Keyb!IsEnabled(2)
      BY <3>1, Bits DEF Keyb!IsEnabled
    <3>3. enabled' = Ports /\ kpc' = "reset"
      BY <1>8, <2>4, <3>1, <3>2 DEF Keyb!Enable, Keyb!EnableAsk, Keyb!EnableRead, Keyb!At,
         Keyb!Channels, Keyb!Go
    <3> QED BY <1>0, <3>0, <3>1, <3>3, ResetStarts
  <2> QED BY <1>8, <2>1, <2>2, <2>3, <2>4 DEF Keyb!Enable, Keyb!EnableAsk, Keyb!EnableRead,
             Keyb!At, Keyb!Channels
<1> QED BY <1>1, <1>2, <1>3, <1>4, <1>5, <1>6, <1>7, <1>8

-----------------------------------------------------------------------------
(* The steps of the operations, after the initialization.                  *)

LEMMA UseSteps ==
  ASSUME Keyb!KeyboardAssumption, KeybInv, InUse, NEW c \in Keyb!Channels, NEW on \in BOOLEAN,
         Keyb!Rd \/ Keyb!IntrAsk(on) \/ Keyb!IntrSet(on) \/ Keyb!Press(c) \/ Keyb!Arrive(c)
             \/ Keyb!WrConfigAsk \/ Keyb!WrConfig
  PROVE  KeybInv'
<1>1. KeybTypeOK /\ enabled = Ports /\ Typed
  BY DEF KeybInv
<1>2. KeybTypeOK'
  BY <1>1, EarlyTypeOK, UseTypeOK
<1>3. UNCHANGED <<dev, slow, enabled, type>>
  BY DEF Keyb!Rd, Keyb!IntrAsk, Keyb!IntrSet, Keyb!Press, Keyb!Arrive, Keyb!WrConfigAsk,
     Keyb!WrConfig, Keyb!At, Keyb!resVars
<1>4. InUse'
  <2>1. CASE Keyb!Rd \/ Keyb!Press(c) \/ Keyb!Arrive(c) \/ Keyb!IntrAsk(on)
    BY <2>1 DEF Keyb!Rd, Keyb!IntrAsk, Keyb!Press, Keyb!Arrive, Keyb!At, InUse, Keyb!Go
  <2>2. CASE Keyb!IntrSet(on)
    BY <1>1, <2>2 DEF Keyb!IntrSet, InUse, Keyb!Go, KeybTypeOK
  <2>3. CASE Keyb!WrConfigAsk
    BY <2>3 DEF Keyb!WrConfigAsk, Keyb!At, Keyb!Go, InUse
  <2>4. CASE Keyb!WrConfig
    <3>1. kcall.ch = 1
      BY <2>4 DEF Keyb!WrConfig, Keyb!At, InUse
    <3> QED BY <2>4, <3>1 DEF Keyb!WrConfig, Keyb!At, Keyb!Go, InUse
  <2> QED BY <2>1, <2>2, <2>3, <2>4
<1>5. enabled' = Ports' /\ Typed'
  BY <1>1, <1>3 DEF Ports, Typed
<1>6. ~InEarly' /\ ~InReset' /\ ~InType'
  BY <1>4 DEF InUse, InEarly, InReset, InType, InCall
<1> QED BY <1>2, <1>4, <1>5, <1>6 DEF KeybInv

-----------------------------------------------------------------------------
(* The steps that reset and identify the devices.                          *)

LEMMA TalkerIs ==
  ASSUME Keyb!KeyboardAssumption, KeybTypeOK, Kbd
  PROVE  Talker \in Ports /\ Talker \in Keyb!Channels
BY DEF Ports, Kbd, Talker, Keyb!Channels

\* What is left to show of a step into the phase that resets, or the one that identifies.
LEMMA ResetPhase ==
  ASSUME KeybTypeOK', InReset', Asking', UNCHANGED dev, Kbd => Resetting', ~Kbd => Vague'
  PROVE  KeybInv'
<1>1. ~InEarly' /\ ~InType' /\ ~InUse'
  BY DEF InUse, InEarly, InReset, InType, InCall
<1>2. Kbd' <=> Kbd
  BY DEF Kbd, Talker
<1> QED BY <1>1, <1>2 DEF KeybInv

LEMMA TypePhase ==
  ASSUME KeybTypeOK', InType', Asking', UNCHANGED <<dev, slow>>,
         Kbd /\ Talker \in isReset' => Typing',
         ~(Kbd /\ Talker \in isReset') => Vague' /\ (Kbd => slow)
  PROVE  KeybInv'
<1>1. ~InEarly' /\ ~InReset' /\ ~InUse'
  BY DEF InUse, InEarly, InReset, InType, InCall
<1>2. (Kbd' <=> Kbd) /\ Talker' = Talker
  BY DEF Kbd, Talker
<1> QED BY <1>1, <1>2 DEF KeybInv

\* The bytes of anything but a keyboard's identity.
Plain == {250, 170, 0}

\* Where no identity is pending, none is read.
LEMMA VagueReading ==
  ASSUME KeybTypeOK, Asking, Vague, Keyb!ReadyOrLate, out' = Keyb!Rest, UNCHANGED <<dev, flight>>
  PROVE  Keyb!Byte \in Plain \cup {-1} /\ \A i \in DOMAIN Pending' : Pending'[i] \in Plain
<1>1. PICK p \in Seq(Int) : p = Pending
  BY Pendings
<1>2. \A i \in DOMAIN p : p[i] \in Plain
  BY <1>1 DEF Vague, Plain
<1>3. CASE p # <<>> /\ Keyb!Byte = p[1] /\ Pending' = Tail(p)
  <2>1. 1 \in DOMAIN p
    BY <1>1, <1>3
  <2>2. \A i \in DOMAIN Tail(p) : i + 1 \in DOMAIN p /\ Tail(p)[i] = p[i + 1]
    BY <1>1, <1>3
  <2> QED BY <1>2, <1>3, <2>1, <2>2
<1>4. CASE Keyb!Byte = -1 /\ Pending' = p
  BY <1>2, <1>4
<1> QED BY <1>1, <1>3, <1>4, Reading

\* And none is sent, other than by a keyboard.
LEMMA VagueSending ==
  ASSUME Keyb!KeyboardAssumption, KeybTypeOK, Asking, OneDevice, Keyb!Send, Vague,
         kcall.ch = Talker => ~Kbd
  PROVE  \A i \in DOMAIN Pending' : Pending'[i] \in Plain
<1>1. PICK p \in Seq(Int) : p = Pending
  BY Pendings
<1>2. \A i \in DOMAIN p : p[i] \in Plain
  BY <1>1 DEF Vague, Plain
<1>3. CASE kcall.ch # Talker
  BY <1>1, <1>2, <1>3, Sending
<1>4. CASE kcall.ch = Talker
  <2>1. PICK a : a = Keyb!Answer(dev[Talker], kcall.cmd)
    OBVIOUS
  <2>2. a \in {<<>>, <<250, 170, 0>>, <<250, 0>>, <<250>>}
    BY ZenonT(60), <1>4, <2>1 DEF Keyb!Answer, Kbd
  <2>3. a \in Seq(Plain)
    <3>1. <<>> \in Seq(Plain) /\ <<250, 170, 0>> \in Seq(Plain) /\ <<250, 0>> \in Seq(Plain)
          /\ <<250>> \in Seq(Plain)
      BY DEF Plain
    <3> QED BY <2>2, <3>1
  <2>4. p \in Seq(Plain)
    BY <1>1, <1>2
  <2>5. p \o a \in Seq(Plain)
    BY <2>3, <2>4
  <2>6. Pending' = p \o a
    BY <1>1, <1>4, <2>1, Sending
  <2> QED BY <2>5, <2>6
<1> QED BY <1>3, <1>4

LEMMA LateFacts ==
  ASSUME Keyb!KeyboardAssumption, KeybInv, InReset \/ InType
  PROVE  /\ KeybTypeOK /\ Asking /\ ~InEarly /\ ~InUse /\ ~(InReset /\ InType)
         /\ InReset => IF Kbd THEN Resetting ELSE Vague
         /\ InType => IF Kbd /\ Talker \in isReset THEN Typing ELSE (Vague /\ (Kbd => slow))
BY DEF KeybInv, InReset, InType, InEarly, InUse, InCall

LEMMA ArriveStep ==
  ASSUME Keyb!KeyboardAssumption, KeybInv, InReset \/ InType, NEW c \in Keyb!Channels, Keyb!Arrive(c)
  PROVE  KeybInv'
<1>1. KeybTypeOK /\ Asking
  BY LateFacts
<1>2. Pending' = Pending /\ c = Talker
  BY <1>1, Arriving
<1>3. KeybTypeOK'
  BY <1>1, UseTypeOK
<1>4. UNCHANGED <<kpc, kcall, dev, slow, config, enabled, type, isReset>>
      /\ \A b \in Keyb!Channels \ {c} : flight'[b] = flight[b]
  BY <1>1 DEF Keyb!Arrive, Keyb!resVars, KeybTypeOK
<1>5. Asking'
  BY <1>1, <1>2, <1>4 DEF Asking, InCall, Ports, Talker
<1>6. /\ (InReset' <=> InReset) /\ (InType' <=> InType) /\ Talker' = Talker
      /\ (Vague' <=> Vague) /\ (Resetting' <=> Resetting) /\ (Typing' <=> Typing)
  <2>1. (InReset' <=> InReset) /\ (InType' <=> InType) /\ (InCall' <=> InCall) /\ Talker' = Talker
    BY <1>4 DEF InReset, InType, InCall, Talker
  <2>2. (NoTypes' <=> NoTypes) /\ (Typed' <=> Typed)
    BY <1>4 DEF NoTypes, Typed
  <2>3. (Answered' <=> Answered) /\ (NotReset' <=> NotReset)
    BY <1>2, <1>4, <2>1 DEF Answered, NotReset
  <2>4. Vague' <=> Vague
    BY <1>2, <1>4, <2>1, <2>2 DEF Vague
  <2>5. Resetting' <=> Resetting
    BY <1>2, <1>4, <2>1, <2>2, <2>3 DEF Resetting
  <2>6. Typing' <=> Typing
    BY <1>2, <1>4, <2>1, <2>2 DEF Typing
  <2> QED BY <2>1, <2>4, <2>5, <2>6
<1>7. CASE InReset
  BY <1>3, <1>4, <1>5, <1>6, <1>7, LateFacts, ResetPhase
<1>8. CASE InType
  BY <1>3, <1>4, <1>5, <1>6, <1>8, LateFacts, TypePhase
<1> QED BY <1>7, <1>8

LEMMA AskingStays ==
  ASSUME Asking, UNCHANGED <<dev, config, enabled, flight>>,
         (InCall \/ kpc \in {"reset_rd", "ident1", "ident2"})' => kcall'.ch \in Keyb!Channels,
         kpc' \in {"reset", "type"} => kcall'.ch \in 1 .. 3
  PROVE  Asking'
BY DEF Asking, Ports, Talker

LEMMA SendStep ==
  ASSUME Keyb!KeyboardAssumption, OneDevice, KeybInv, InReset \/ InType, Keyb!Send
  PROVE  KeybInv'
<1>1. KeybTypeOK /\ Asking
  BY LateFacts
<1>2. KeybTypeOK'
  BY <1>1, LateTypeOK
<1>3. UNCHANGED <<kcall, dev, slow, config, enabled, type, isReset>> /\ kpc = "send" /\ kpc' = "resp"
  BY DEF Keyb!Send, Keyb!At, Keyb!resVars, Keyb!Go
<1>4. Talker' = Talker /\ (InReset' <=> InReset) /\ (InType' <=> InType) /\ InCall /\ InCall'
      /\ (NoTypes' <=> NoTypes) /\ (Typed' <=> Typed)
  BY <1>3 DEF Talker, InReset, InType, InCall, NoTypes, Typed
<1>5. Asking'
  <2>1. \A b \in Keyb!Channels \ {Talker} : flight'[b] = <<>>
    BY <1>1, Sending
  <2> QED BY <1>1, <1>3, <1>4, <2>1 DEF Asking, Ports
<1>6. ASSUME Vague, kcall.ch = Talker => ~Kbd PROVE Vague'
  <2>1. \A i \in DOMAIN Pending' : Pending'[i] \in {250, 170, 0}
    BY <1>1, <1>6, VagueSending DEF Plain
  <2>2. InType' => kcall'.ch \in isReset'
    BY <1>3, <1>4, <1>6 DEF Vague
  <2> QED BY <1>3, <1>4, <1>6, <2>1, <2>2 DEF Vague
<1>7. CASE InReset
  <2>1. kcall.cmd = 255
    BY <1>3, <1>7 DEF InReset
  <2>2. CASE Kbd
    <3>1. Resetting
      BY <1>7, <2>2, LateFacts
    <3>2. Pending' = IF kcall.ch = Talker THEN Pending \o <<250, 170>> ELSE Pending
      BY <1>1, <2>1, <2>2, Sending DEF Keyb!Answer, Kbd
    <3>3. kcall.ch \in Int /\ Talker \in Int
      BY <1>1, <1>4, Pendings DEF Asking, Keyb!Channels
    <3>4. NoTypes /\ (IF kcall.ch <= Talker THEN NotReset ELSE Answered)
      BY <1>3, <3>1 DEF Resetting
    <3>5. CASE kcall.ch < Talker
      <4>1. NotReset'
        BY <1>3, <3>2, <3>3, <3>4, <3>5 DEF NotReset
      <4> QED BY <1>2, <1>3, <1>4, <1>5, <1>7, <2>2, <3>3, <3>4, <3>5, <4>1, ResetPhase
                 DEF Resetting
    <3>6. CASE kcall.ch = Talker
      <4>1. isReset' = {} /\ Pending' = <<250, 170>>
        BY <1>3, <3>2, <3>3, <3>4, <3>6 DEF NotReset
      <4> QED BY <1>2, <1>3, <1>4, <1>5, <1>7, <2>2, <3>3, <3>4, <3>6, <4>1, ResetPhase
                 DEF Resetting
    <3>7. CASE kcall.ch > Talker
      <4>1. Answered'
        BY <1>3, <1>4, <3>2, <3>3, <3>4, <3>7 DEF Answered
      <4> QED BY <1>2, <1>3, <1>4, <1>5, <1>7, <2>2, <3>3, <3>4, <3>7, <4>1, ResetPhase
                 DEF Resetting
    <3> QED BY <3>3, <3>5, <3>6, <3>7
  <2>3. CASE ~Kbd
    BY <1>2, <1>3, <1>4, <1>5, <1>6, <1>7, <2>3, LateFacts, ResetPhase
  <2> QED BY <2>2, <2>3
<1>8. CASE InType
  <2>1. CASE Kbd /\ Talker \in isReset
    <3>1. Typing /\ kcall.ch = Talker
      BY <1>4, <1>8, <2>1, LateFacts DEF Typing
    <3>2. Pending' = Pending \o Keyb!Answer("kbd", kcall.cmd)
      BY <1>1, <2>1, <3>1, Sending DEF Kbd
    <3>3. CASE kcall.cmd = 245
      <4>1. Keyb!Answer("kbd", kcall.cmd) = <<250>> /\ Pending = <<170>> /\ NoTypes
        BY <1>3, <1>4, <3>1, <3>3 DEF Keyb!Answer, Typing
      <4>2. Pending' = <<170, 250>>
        <5>1. PICK s, t : s = <<170>> \o <<250>> /\ t = <<170, 250>>
          OBVIOUS
        <5>2. s \in Seq(Int) /\ Len(s) = 2 /\ s[1] = 170 /\ s[2] = 250
          BY <5>1
        <5>3. t \in Seq(Int) /\ Len(t) = 2 /\ t[1] = 170 /\ t[2] = 250
          BY <5>1
        <5>4. \A i \in 1 .. 2 : s[i] = t[i]
          BY <5>2, <5>3
        <5>5. s = t
          BY SMTT(30), <5>2, <5>3, <5>4
        <5> QED BY <3>2, <4>1, <5>1, <5>5
      <4>3. Typing'
        BY <1>3, <1>4, <3>1, <3>3, <4>1, <4>2 DEF Typing
      <4> QED BY <1>2, <1>3, <1>4, <1>5, <1>8, <2>1, <4>3, TypePhase
    <3>4. CASE kcall.cmd = 242
      <4>1. Keyb!Answer("kbd", kcall.cmd) = <<250, 171, 131>> /\ Pending = <<>> /\ NoTypes
        BY <1>3, <1>4, <3>1, <3>4 DEF Keyb!Answer, Typing
      <4>2. Pending' = <<250, 171, 131>>
        BY <3>2, <4>1
      <4>3. Typing'
        BY <1>3, <1>4, <3>1, <3>4, <4>1, <4>2 DEF Typing
      <4> QED BY <1>2, <1>3, <1>4, <1>5, <1>8, <2>1, <4>3, TypePhase
    <3>5. CASE kcall.cmd = 244
      <4>1. Typing'
        BY <1>3, <1>4, <3>1, <3>5 DEF Typing
      <4> QED BY <1>2, <1>3, <1>4, <1>5, <1>8, <2>1, <4>1, TypePhase
    <3> QED BY <1>3, <1>8, <3>3, <3>4, <3>5 DEF InType
  <2>2. CASE ~(Kbd /\ Talker \in isReset)
    <3>1. Vague /\ (Kbd => slow)
      BY <1>8, <2>2, LateFacts
    <3>2. kcall.ch \in isReset
      BY <1>4, <1>8, <3>1 DEF Vague
    <3>3. Vague'
      BY <1>6, <2>2, <3>1, <3>2
    <3> QED BY <1>2, <1>3, <1>4, <1>5, <1>8, <2>2, <3>1, <3>3, TypePhase
  <2> QED BY <2>1, <2>2
<1> QED BY <1>7, <1>8

LEMMA RespondStep ==
  ASSUME Keyb!KeyboardAssumption, OneDevice, KeybInv, InReset \/ InType, Keyb!Respond
  PROVE  KeybInv'
<1>1. KeybTypeOK /\ Asking
  BY LateFacts
<1>2. KeybTypeOK'
  BY <1>1, LateTypeOK
<1>3. UNCHANGED <<dev, slow, config, enabled, type, isReset, flight>> /\ kpc = "resp"
       /\ out' = Keyb!Rest /\ Keyb!ReadyOrLate
  BY DEF Keyb!Respond, Keyb!At, Keyb!resVars, Keyb!Go
<1>4. /\ kcall'.ch = kcall.ch /\ kcall'.cmd = kcall.cmd
      /\ \/ kpc' = "send" /\ Keyb!Byte \in Keyb!Resend
         \/ kpc' = "resp" /\ Keyb!Byte \in Keyb!Skipped(kcall.cmd)
         \/ kpc' = "returned" /\ kcall'.res = Keyb!Byte /\ Keyb!Byte \notin Keyb!Resend
           \cup Keyb!Skipped(kcall.cmd)
  BY <1>1, <1>3 DEF Keyb!Respond, Keyb!Go, KeybTypeOK
<1>5. Talker' = Talker /\ (InReset' <=> InReset) /\ (InType' <=> InType) /\ InCall /\ InCall'
      /\ (NoTypes' <=> NoTypes) /\ (Typed' <=> Typed)
  BY <1>3, <1>4 DEF Talker, InReset, InType, InCall, NoTypes, Typed
<1>6. Asking'
  BY <1>1, <1>3, <1>4, <1>5, AskingStays DEF Asking
<1>7. PICK p \in Seq(Int) : p = Pending
  BY <1>1, Pendings
<1>8. \/ p # <<>> /\ Keyb!Byte = p[1] /\ Pending' = Tail(p)
      \/ Keyb!Byte = -1 /\ Pending' = p /\ (p = <<>> \/ slow)
  BY <1>1, <1>3, <1>7, Reading
<1>9. ASSUME Vague PROVE Vague'
  <2>1. Keyb!Byte \in {250, 170, 0, -1} /\ \A i \in DOMAIN Pending' : Pending'[i] \in {250, 170, 0}
    BY <1>1, <1>3, <1>9, VagueReading DEF Plain
  <2>2. InType' => kcall'.ch \in isReset'
    BY <1>3, <1>4, <1>5, <1>9 DEF Vague
  <2>3. kpc' = "returned" /\ kcall'.cmd = 242 => kcall'.res \in {250, -1}
    BY <1>4, <2>1 DEF Keyb!Resend, Keyb!Skipped
  <2> QED BY <1>3, <1>4, <1>5, <1>9, <2>1, <2>2, <2>3 DEF Vague
<1>10. Tail(<<170>>) = <<>> /\ Tail(<<250, 170>>) = <<170>> /\ Tail(<<170, 250>>) = <<250>>
       /\ Tail(<<250>>) = <<>>
       /\ Tail(<<250, 171, 131>>) = <<171, 131>>
  BY Tails
<1>11. CASE InReset /\ Kbd
  <2>1. kcall.cmd = 255 /\ Keyb!Skipped(255) = {} /\ Resetting
    BY <1>3, <1>11, LateFacts DEF InReset, Keyb!Skipped
  <2>2. kcall.ch \in Int /\ Talker \in Int
    BY <1>1, <1>5, Pendings DEF Asking, Keyb!Channels
  <2>3. NoTypes /\ IF kcall.ch < Talker THEN NotReset
                   ELSE IF kcall.ch = Talker THEN isReset = {} /\ p = <<250, 170>> ELSE Answered
    BY <1>3, <1>7, <2>1 DEF Resetting
  <2>4. ASSUME kpc' = "returned",
               IF kcall.ch < Talker THEN NotReset' /\ kcall'.res = -1
               ELSE IF kcall.ch = Talker
               THEN /\ isReset' = {}
                    /\ \/ kcall'.res = 250 /\ Pending' = << 170 >>
                       \/ kcall'.res = -1 /\ slow /\ Pending' = <<250, 170>>
               ELSE \/ kcall'.res = -1 /\ Answered'
                    \/ kcall'.res = 170 /\ Pending' = <<>>
                    \/ kcall'.res = 250 /\ slow /\ Talker \notin isReset /\ Pending' = << 170 >>
        PROVE  KeybInv'
    <3>1. Resetting'
      BY <1>3, <1>4, <1>5, <2>3, <2>4 DEF Resetting
    <3> QED BY <1>2, <1>3, <1>5, <1>6, <1>11, <3>1, ResetPhase
  <2>5. CASE kcall.ch < Talker
    <3>1. p = <<>> /\ Keyb!Byte = -1 /\ kpc' = "returned" /\ kcall'.res = -1
      BY <1>4, <1>7, <1>8, <2>1, <2>3, <2>5 DEF NotReset, Keyb!Resend
    <3>2. NotReset'
      BY <1>3, <1>8, <2>3, <2>5, <3>1 DEF NotReset
    <3> QED BY <2>4, <2>5, <3>1, <3>2
  <2>6. CASE kcall.ch = Talker
    <3>1. p = <<250, 170>> /\ isReset' = {}
      BY <1>3, <2>2, <2>3, <2>6
    <3>2. CASE Keyb!Byte = p[1] /\ Pending' = Tail(p)
      <4>1. Keyb!Byte = 250 /\ Pending' = <<170>> /\ kpc' = "returned" /\ kcall'.res = 250
        BY <1>4, <1>10, <2>1, <3>1, <3>2 DEF Keyb!Resend
      <4> QED BY <2>2, <2>4, <2>6, <3>1, <4>1
    <3>3. CASE Keyb!Byte = -1
      <4>1. Pending' = <<250, 170>> /\ slow /\ kpc' = "returned" /\ kcall'.res = -1
        BY <1>4, <1>8, <2>1, <3>1, <3>3 DEF Keyb!Resend
      <4> QED BY <2>2, <2>4, <2>6, <3>1, <4>1
    <3> QED BY <1>8, <3>2, <3>3
  <2>7. CASE kcall.ch > Talker
    <3>1. Answered
      BY <2>2, <2>3, <2>7
    <3>2. p = <<170>> \/ (p = <<250, 170>> /\ slow /\ Talker \notin isReset)
      BY <1>7, <3>1 DEF Answered
    <3>3. CASE Keyb!Byte = -1
      <4>1. Pending' = p /\ kpc' = "returned" /\ kcall'.res = -1
        BY <1>4, <1>8, <2>1, <3>2, <3>3 DEF Keyb!Resend
      <4>2. Answered'
        BY <1>3, <1>5, <1>7, <3>1, <4>1 DEF Answered
      <4> QED BY <2>2, <2>4, <2>7, <4>1, <4>2
    <3>4. CASE p = <<170>> /\ Keyb!Byte = p[1] /\ Pending' = Tail(p)
      <4>1. Pending' = <<>> /\ kpc' = "returned" /\ kcall'.res = 170
        BY <1>4, <1>10, <2>1, <3>4 DEF Keyb!Resend
      <4> QED BY <2>2, <2>4, <2>7, <4>1
    <3>5. CASE p = <<250, 170>> /\ Keyb!Byte = p[1] /\ Pending' = Tail(p)
      <4>1. Pending' = <<170>> /\ kpc' = "returned" /\ kcall'.res = 250
        BY <1>4, <1>10, <2>1, <3>5 DEF Keyb!Resend
      <4> QED BY <2>2, <2>4, <2>7, <3>2, <3>5, <4>1
    <3> QED BY <1>8, <3>2, <3>3, <3>4, <3>5
  <2> QED BY <2>2, <2>5, <2>6, <2>7
<1>12. CASE InReset /\ ~Kbd
  BY <1>2, <1>3, <1>5, <1>6, <1>9, <1>12, LateFacts, ResetPhase
<1>13. CASE InType /\ Kbd /\ Talker \in isReset
  <2>1. Typing /\ kcall.ch = Talker
    BY <1>5, <1>13, LateFacts DEF Typing
  <2>2. CASE kcall.cmd = 245
    <3>1. NoTypes /\ p \in {<<170, 250>>, <<250>>} /\ Keyb!Skipped(245) = {170, 252, 253}
      BY <1>3, <1>5, <1>7, <2>1, <2>2 DEF Typing, Keyb!Skipped
    <3>2. \/ kpc' = "resp" /\ Pending' = <<250>>
          \/ kpc' = "returned" /\ kcall'.res = 250 /\ Pending' = <<>>
          \/ kpc' = "returned" /\ kcall'.res = -1 /\ slow
      <4>1. CASE p = <<170, 250>> /\ Keyb!Byte = p[1] /\ Pending' = Tail(p)
        BY <1>4, <1>10, <2>2, <3>1, <4>1 DEF Keyb!Resend
      <4>2. CASE p = <<250>> /\ Keyb!Byte = p[1] /\ Pending' = Tail(p)
        BY <1>4, <1>10, <2>2, <3>1, <4>2 DEF Keyb!Resend
      <4>3. CASE Keyb!Byte = -1
        BY <1>4, <1>8, <2>2, <3>1, <4>3 DEF Keyb!Resend
      <4> QED BY <1>8, <3>1, <4>1, <4>2, <4>3
    <3>3. Typing'
      BY <1>3, <1>4, <1>5, <2>1, <2>2, <3>1, <3>2 DEF Typing
    <3> QED BY <1>2, <1>3, <1>5, <1>6, <1>13, <3>3, TypePhase
  <2>3. CASE kcall.cmd = 242
    <3>1. NoTypes /\ p = <<250, 171, 131>> /\ Keyb!Skipped(242) = {170, 252, 253}
      BY <1>3, <1>5, <1>7, <2>1, <2>3 DEF Typing, Keyb!Skipped
    <3>2. \/ kpc' = "returned" /\ kcall'.res = 250 /\ Pending' = <<171, 131>>
          \/ kpc' = "returned" /\ kcall'.res = -1 /\ slow
      <4>1. CASE Keyb!Byte = p[1] /\ Pending' = Tail(p)
        BY <1>4, <1>10, <2>3, <3>1, <4>1 DEF Keyb!Resend
      <4>2. CASE Keyb!Byte = -1
        BY <1>4, <1>8, <2>3, <3>1, <4>2 DEF Keyb!Resend
      <4> QED BY <1>8, <3>1, <4>1, <4>2
    <3>3. Typing'
      BY <1>3, <1>4, <1>5, <2>1, <2>3, <3>1, <3>2 DEF Typing
    <3> QED BY <1>2, <1>3, <1>5, <1>6, <1>13, <3>3, TypePhase
  <2>4. CASE kcall.cmd = 244
    <3>1. Typing'
      BY <1>3, <1>4, <1>5, <2>1, <2>4 DEF Typing
    <3> QED BY <1>2, <1>3, <1>5, <1>6, <1>13, <3>1, TypePhase
  <2> QED BY <1>3, <1>13, <2>2, <2>3, <2>4 DEF InType
<1>14. CASE InType /\ ~(Kbd /\ Talker \in isReset)
  <2>1. Vague /\ (Kbd => slow)
    BY <1>14, LateFacts
  <2> QED BY <1>2, <1>3, <1>5, <1>6, <1>9, <1>14, <2>1, TypePhase
<1> QED BY <1>11, <1>12, <1>13, <1>14

LEMMA ResetStep ==
  ASSUME Keyb!KeyboardAssumption, OneDevice, KeybInv, InReset, Keyb!Reset
  PROVE  KeybInv'
<1>1. KeybTypeOK /\ Asking
  BY LateFacts
<1>2. KeybTypeOK'
  BY <1>1, LateTypeOK
<1>3. PICK c : c = Keyb!NextIn(enabled, kcall.ch)
  OBVIOUS
<1>4. UNCHANGED <<dev, slow, config, enabled, type, isReset, flight, out>> /\ kpc = "reset"
  BY DEF Keyb!Reset, Keyb!At, Keyb!resVars, Keyb!ctlVars
<1>5. Talker' = Talker /\ (NoTypes' <=> NoTypes) /\ (Typed' <=> Typed) /\ Pending' = Pending
      /\ (Answered' <=> Answered) /\ (NotReset' <=> NotReset)
  BY <1>4 DEF Talker, NoTypes, Typed, Pending, Answered, NotReset
<1>6. kcall.ch \in 1 .. 3 /\ ~InCall /\ Talker \in Keyb!Channels /\ enabled = Ports
  BY <1>1, <1>4, Pendings DEF Asking, InCall
<1>7. /\ c \in {1, 2, 3} /\ c >= kcall.ch
      /\ c # 3 => c \in enabled
      /\ c = 3 => \A b \in Keyb!Channels : b \in enabled => b < kcall.ch
      /\ \A b \in Keyb!Channels : b \in enabled /\ b >= kcall.ch => c <= b
  BY <1>3, <1>6 DEF Keyb!NextIn, Keyb!Channels
<1>8. CASE c = 3
  <2>1. kpc' = "type" /\ kcall'.ch = 1 /\ InType' /\ ~InCall'
    BY <1>1, <1>3, <1>8 DEF Keyb!Reset, Keyb!Go, KeybTypeOK, InType, InCall
  <2>2. Asking'
    BY <1>1, <1>4, <2>1, AskingStays
  <2>3. CASE Kbd
    <3>1. Talker < kcall.ch
      BY <1>1, <1>6, <1>7, <1>8, <2>3, TalkerIs
    <3>2. Answered /\ NoTypes
      BY <1>4, <1>6, <2>3, <3>1, LateFacts DEF Resetting, Keyb!Channels
    <3>3. CASE isReset = {Talker} /\ Pending = <<170>>
      <4>1. Typing'
        BY <1>4, <1>5, <1>6, <2>1, <3>2, <3>3 DEF Typing, Keyb!Channels
      <4> QED BY <1>2, <1>4, <1>5, <2>1, <2>2, <2>3, <3>3, <4>1, TypePhase
    <3>4. CASE slow /\ Talker \notin isReset /\ Pending \in {<<250, 170>>, <<170>>}
      <4>1. \A i \in DOMAIN Pending : Pending[i] \in {250, 170, 0}
        BY <3>4
      <4>2. Vague'
        BY <1>5, <2>1, <3>2, <4>1 DEF Vague
      <4> QED BY <1>2, <1>4, <1>5, <2>1, <2>2, <2>3, <3>4, <4>2, TypePhase
    <3> QED BY <3>2, <3>3, <3>4 DEF Answered
  <2>4. CASE ~Kbd
    <3>1. Vague
      BY <2>4, LateFacts
    <3>2. Vague'
      BY <1>5, <2>1, <3>1 DEF Vague
    <3> QED BY <1>2, <1>4, <1>5, <2>1, <2>2, <2>4, <3>2, TypePhase
  <2> QED BY <2>3, <2>4
<1>9. CASE c # 3
  <2>1. kpc' = "send" /\ kcall'.ch = c /\ kcall'.cmd = 255 /\ InReset' /\ InCall' /\ ~InType'
    BY <1>3, <1>9 DEF Keyb!Reset, Keyb!Call, Keyb!Go, InReset, InCall, InType
  <2>2. Asking'
    BY <1>1, <1>4, <1>7, <1>9, <2>1, AskingStays DEF Keyb!Channels
  <2>3. CASE Kbd
    <3>1. IF c <= Talker THEN NotReset ELSE Answered
      <4>1. Resetting
        BY <2>3, LateFacts
      <4>2. Talker \in enabled /\ Talker >= kcall.ch => c <= Talker
        BY <1>6, <1>7
      <4>3. Talker \in enabled
        BY <1>1, <1>6, <2>3, TalkerIs
      <4> QED BY <1>4, <1>6, <1>7, <4>1, <4>2, <4>3 DEF Resetting, Keyb!Channels
    <3>2. NoTypes
      BY <2>3, LateFacts DEF Resetting
    <3>3. Resetting'
      BY <1>5, <2>1, <3>1, <3>2 DEF Resetting
    <3> QED BY <1>2, <1>4, <2>1, <2>2, <2>3, <3>3, ResetPhase
  <2>4. CASE ~Kbd
    <3>1. Vague
      BY <2>4, LateFacts
    <3>2. Vague'
      BY <1>5, <2>1, <3>1 DEF Vague
    <3> QED BY <1>2, <1>4, <2>1, <2>2, <2>4, <3>2, ResetPhase
  <2> QED BY <2>3, <2>4
<1> QED BY <1>8, <1>9

LEMMA ResetDoneStep ==
  ASSUME Keyb!KeyboardAssumption, OneDevice, KeybInv, InReset, Keyb!ResetDone
  PROVE  KeybInv'
<1>1. KeybTypeOK /\ Asking
  BY LateFacts
<1>2. KeybTypeOK'
  BY <1>1, LateTypeOK
<1>3. UNCHANGED <<dev, slow, config, enabled, type, flight>>
      /\ kcall.cmd = 255 /\ kpc \in {"returned", "reset_rd"} /\ kcall.ch \in Keyb!Channels
  BY <1>1 DEF Keyb!ResetDone, Keyb!At, Asking, InCall
<1>4. Talker' = Talker /\ (NoTypes' <=> NoTypes) /\ Talker \in Keyb!Channels
  BY <1>1, <1>3, Pendings DEF Talker, NoTypes
<1>5. CASE kpc' = "reset_rd"
  <2>1. UNCHANGED <<out, isReset, kcall>> /\ kpc = "returned" /\ kcall.res = 170
    BY <1>5 DEF Keyb!ResetDone, Keyb!At, Keyb!AckFollows, Keyb!Go
  <2>2. InReset' /\ ~InType' /\ ~InCall' /\ Pending' = Pending
    BY <1>3, <1>4, <1>5, <2>1 DEF InReset, InType, InCall, Pending
  <2>3. Asking'
    BY <1>1, <1>3, <1>5, <2>1, AskingStays
  <2>4. CASE Kbd
    <3>1. Resetting
      BY <2>4, LateFacts
    <3>2. NoTypes /\ Pending = <<>>
      BY <2>1, <3>1 DEF Resetting
    <3>3. Resetting'
      BY <1>4, <1>5, <2>2, <3>2 DEF Resetting
    <3> QED BY <1>2, <1>3, <2>2, <2>3, <2>4, <3>3, ResetPhase
  <2>5. CASE ~Kbd
    <3>1. Vague'
      BY <1>4, <1>5, <2>2, <2>5, LateFacts DEF Vague
    <3> QED BY <1>2, <1>3, <2>2, <2>3, <2>5, <3>1, ResetPhase
  <2> QED BY <2>4, <2>5
<1>6. CASE kpc' # "reset_rd"
  <2>1. kpc' = "reset" /\ kcall'.ch = kcall.ch + 1
        /\ \/ kpc = "returned" /\ out' = out
              /\ isReset' = IF kcall.res = 250 THEN isReset \cup {kcall.ch} ELSE isReset
           \/ kpc = "reset_rd" /\ Keyb!Ready /\ out' = Keyb!Rest
    BY <1>1, <1>6 DEF Keyb!ResetDone, Keyb!At, Keyb!Go, KeybTypeOK
  <2>2. InReset' /\ ~InType' /\ ~InCall'
    BY <2>1 DEF InReset, InType, InCall
  <2>3. Asking'
    BY <1>1, <1>3, <2>1, <2>2, AskingStays DEF Keyb!Channels
  <2>4. CASE Kbd
    <3>1. Resetting
      BY <2>4, LateFacts
    <3>2. kpc = "returned"
      <4>1. kpc = "reset_rd" => Pending = <<>>
        BY <3>1 DEF Resetting
      <4> QED BY <1>1, <2>1, <4>1, Pendings DEF Keyb!Ready
    <3>3. Pending' = Pending /\ isReset' = IF kcall.res = 250 THEN isReset \cup {kcall.ch} ELSE isReset
      BY <1>3, <1>4, <2>1, <3>2 DEF Pending
    <3>4. kcall.ch \in Int /\ Talker \in Int /\ kcall.res # 170
      BY <1>3, <1>4, <1>6, <3>2 DEF Keyb!ResetDone, Keyb!At, Keyb!AckFollows, Keyb!Go,
         Keyb!Channels
    <3>5. NoTypes'
      BY <1>4, <3>1 DEF Resetting
    <3>6. CASE kcall.ch < Talker
      <4>1. NotReset'
        BY <3>1, <3>2, <3>3, <3>6 DEF Resetting, NotReset
      <4> QED BY <1>2, <1>3, <1>4, <2>1, <2>2, <2>3, <2>4, <3>4, <3>5, <3>6, <4>1, ResetPhase
              DEF Resetting
    <3>7. CASE kcall.ch >= Talker
      <4>1. Answered'
        <5>1. CASE kcall.ch = Talker
          BY <1>3, <1>4, <3>1, <3>2, <3>3, <3>4, <5>1 DEF Resetting, Answered
        <5>2. CASE kcall.ch > Talker
          BY <1>3, <1>4, <3>1, <3>2, <3>3, <3>4, <5>2 DEF Resetting, Answered
        <5> QED BY <3>4, <3>7, <5>1, <5>2
      <4> QED BY <1>2, <1>3, <1>4, <2>1, <2>2, <2>3, <2>4, <3>4, <3>5, <3>7, <4>1, ResetPhase
              DEF Resetting
    <3> QED BY <3>4, <3>6, <3>7
  <2>5. CASE ~Kbd
    <3>1. Vague
      BY <2>5, LateFacts
    <3>2. \A i \in DOMAIN Pending' : Pending'[i] \in {250, 170, 0}
      <4>1. CASE out' = out
        BY <1>3, <1>4, <3>1, <4>1 DEF Vague, Pending
      <4>2. CASE Keyb!Ready /\ out' = Keyb!Rest
        BY <1>1, <1>3, <3>1, <4>2, VagueReading DEF Keyb!ReadyOrLate, Plain
      <4> QED BY <2>1, <4>1, <4>2
    <3>3. Vague'
      BY <1>4, <2>1, <2>2, <3>1, <3>2 DEF Vague
    <3> QED BY <1>2, <1>3, <2>2, <2>3, <2>5, <3>3, ResetPhase
  <2> QED BY <2>4, <2>5
<1> QED BY <1>5, <1>6

LEMMA TypeStep ==
  ASSUME Keyb!KeyboardAssumption, OneDevice, KeybInv, InType, Keyb!Type
  PROVE  KeybInv'
<1>1. KeybTypeOK /\ Asking
  BY LateFacts
<1>2. KeybTypeOK'
  BY <1>1, LateTypeOK
<1>3. PICK c : c = Keyb!NextIn(isReset, kcall.ch)
  OBVIOUS
<1>4. UNCHANGED <<dev, slow, config, enabled, type, isReset, flight, out>> /\ kpc = "type"
  BY DEF Keyb!Type, Keyb!At, Keyb!resVars, Keyb!ctlVars
<1>5. Talker' = Talker /\ (NoTypes' <=> NoTypes) /\ (Typed' <=> Typed) /\ Pending' = Pending
  BY <1>4 DEF Talker, NoTypes, Typed, Pending
<1>6. kcall.ch \in 1 .. 3 /\ ~InCall /\ Talker \in Keyb!Channels
  BY <1>1, <1>4, Pendings DEF Asking, InCall
<1>7. \/ c = 3 /\ kpc' = "last_flush" /\ kcall' = kcall
      \/ c \in Keyb!Channels /\ c \in isReset /\ kpc' = "send" /\ kcall'.ch = c /\ kcall'.cmd = 245
  BY <1>3, <1>6 DEF Keyb!Type, Keyb!Go, Keyb!Call, Keyb!NextIn, Keyb!Channels
<1>8. InType' /\ ~InReset' /\ (InCall' <=> kpc' = "send")
  BY <1>7 DEF InType, InReset, InCall
<1>9. Asking'
  BY <1>1, <1>4, <1>7, <1>8, AskingStays
<1>10. CASE Kbd /\ Talker \in isReset
  <2>1. Typing
    BY <1>10, LateFacts
  <2>2. isReset = {Talker} /\ (IF kcall.ch <= Talker THEN NoTypes /\ Pending = <<170>> ELSE Typed)
    BY <1>4, <2>1 DEF Typing
  <2>3. c = IF kcall.ch <= Talker THEN Talker ELSE 3
    BY <1>3, <1>6, <2>2 DEF Keyb!NextIn, Keyb!Channels
  <2>4. CASE kcall.ch <= Talker
    <3>1. kpc' = "send" /\ kcall'.ch = Talker /\ kcall'.cmd = 245 /\ NoTypes /\ Pending = <<170>>
      BY <1>6, <1>7, <2>2, <2>3, <2>4 DEF Keyb!Channels
    <3>2. Typing'
      BY <1>4, <1>5, <1>8, <2>2, <3>1 DEF Typing
    <3> QED BY <1>2, <1>4, <1>5, <1>8, <1>9, <1>10, <3>2, TypePhase
  <2>5. CASE ~(kcall.ch <= Talker)
    <3>1. kpc' = "last_flush" /\ Typed
      BY <1>7, <2>2, <2>3, <2>5 DEF Keyb!Channels
    <3>2. Typing'
      BY <1>4, <1>5, <1>8, <2>2, <3>1 DEF Typing
    <3> QED BY <1>2, <1>4, <1>5, <1>8, <1>9, <1>10, <3>2, TypePhase
  <2> QED BY <2>4, <2>5
<1>11. CASE ~(Kbd /\ Talker \in isReset)
  <2>1. Vague /\ (Kbd => slow)
    BY <1>11, LateFacts
  <2>2. Vague'
    BY <1>4, <1>5, <1>7, <1>8, <2>1 DEF Vague
  <2> QED BY <1>2, <1>4, <1>5, <1>8, <1>9, <1>11, <2>1, <2>2, TypePhase
<1> QED BY <1>10, <1>11

\* A type of the one keyboard's channel that Typed allows.
LEMMA TypedIs ==
  ASSUME Keyb!KeyboardAssumption, OneDevice, KeybTypeOK, NoTypes, Kbd, UNCHANGED <<dev, slow>>,
         NEW t, t = 131 \/ (slow /\ t \in {-1, 255}),
         type' = [type EXCEPT ![Talker] = t]
  PROVE  Typed'
<1>1. Talker \in Keyb!Channels /\ type = [c \in Keyb!Channels |-> -1]
  BY Pendings DEF NoTypes
<1>2. type'[Talker] = t /\ \A c \in Keyb!Channels \ {Talker} : type'[c] = -1
  BY <1>1
<1>3. \A c \in Keyb!Channels : dev[c] = "kbd" <=> c = Talker
  BY DEF OneDevice, KeybTypeOK, Kbd, Talker, Keyb!Channels, Devices
<1> QED BY <1>2, <1>3 DEF Typed

LEMMA IdentifyStep ==
  ASSUME Keyb!KeyboardAssumption, OneDevice, KeybInv, InType, Keyb!Identify
  PROVE  KeybInv'
<1>1. KeybTypeOK /\ Asking
  BY LateFacts
<1>2. KeybTypeOK'
  BY <1>1, LateTypeOK
<1>3. UNCHANGED <<dev, slow, config, enabled, isReset, flight>>
      /\ (kpc = "returned" \/ (kpc \in {"ident1", "ident2"} /\ out' = Keyb!Rest /\ Keyb!ReadyOrLate))
      /\ (kpc = "returned" => out' = out)
  BY DEF Keyb!Identify, Keyb!At, Keyb!ctlVars, Keyb!resVars
<1>4. kcall.ch \in Keyb!Channels /\ Talker \in Keyb!Channels /\ Talker' = Talker
      /\ (kpc = "returned" => Pending' = Pending)
  BY <1>1, <1>3, Pendings DEF Asking, InCall, Talker, Pending
<1>5. \/ /\ kpc = "returned" /\ kcall.cmd = 245 /\ kcall.res = 250
         /\ kpc' = "send" /\ kcall'.ch = kcall.ch /\ kcall'.cmd = 242 /\ type' = type
      \/ /\ kpc = "returned" /\ kcall.cmd = 245 /\ kcall.res # 250
         /\ kpc' = "type" /\ kcall'.ch = kcall.ch + 1 /\ type' = [type EXCEPT ![kcall.ch] = -1]
      \/ /\ kpc = "returned" /\ kcall.cmd = 242 /\ kcall.res = 250
         /\ kpc' = "ident1" /\ kcall' = kcall /\ type' = type
      \/ /\ kpc = "returned" /\ kcall.cmd = 242 /\ kcall.res # 250
         /\ kpc' = "send" /\ kcall'.ch = kcall.ch /\ kcall'.cmd = 244
              /\ type' = [type EXCEPT ![kcall.ch] = kcall.res]
      \/ /\ kpc = "ident1" /\ Keyb!Byte = 171
         /\ kpc' = "ident2" /\ kcall' = kcall /\ type' = type
      \/ /\ kpc = "ident1" /\ Keyb!Byte # 171
         /\ kpc' = "send" /\ kcall'.ch = kcall.ch /\ kcall'.cmd = 244
              /\ type' = [type EXCEPT ![kcall.ch] = -1]
      \/ /\ kpc = "ident2"
         /\ kpc' = "send" /\ kcall'.ch = kcall.ch /\ kcall'.cmd = 244
              /\ type' = [type EXCEPT ![kcall.ch] = Keyb!Byte % 256]
      \/ /\ kpc = "returned" /\ kcall.cmd = 244
         /\ kpc' = "type" /\ kcall'.ch = kcall.ch + 1 /\ type' = type
  BY <1>1 DEF Keyb!Identify, Keyb!At, Keyb!Go, Keyb!Call, Keyb!SetType, Keyb!NextType,
     Keyb!resVars, KeybTypeOK
<1>6. InType' /\ ~InReset' /\ (InCall' <=> kpc' = "send")
  BY <1>5 DEF InType, InReset, InCall
<1>7. Asking'
  BY <1>1, <1>3, <1>4, <1>5, <1>6, AskingStays DEF Keyb!Channels
<1>8. CASE Kbd /\ Talker \in isReset
  <2>1. Typing /\ kcall.ch = Talker /\ isReset = {Talker}
    <3>1. Typing
      BY <1>8, LateFacts
    <3> QED BY <1>3, <3>1 DEF Typing, InCall
  <2>2. kcall.ch \in Int /\ Talker \in Int
    BY <1>4 DEF Keyb!Channels
  <2>3. ASSUME kpc' \in {"send", "type"}, kpc' = "send" => kcall'.cmd = 244 /\ kcall'.ch = Talker,
               kpc' = "type" => kcall'.ch = Talker + 1, Typed'
        PROVE  KeybInv'
    <3>1. Typing'
      BY <1>3, <1>4, <1>6, <2>1, <2>2, <2>3 DEF Typing
    <3> QED BY <1>2, <1>3, <1>4, <1>6, <1>7, <1>8, <3>1, TypePhase
  <2>4. CASE kpc = "returned" /\ kcall.cmd = 245
    <3>1. NoTypes /\ ((kcall.res = 250 /\ Pending = <<>>) \/ (kcall.res = -1 /\ slow))
      BY <2>1, <2>4 DEF Typing, InCall
    <3>2. CASE kcall.res = 250
      <4>1. kpc' = "send" /\ kcall'.ch = Talker /\ kcall'.cmd = 242 /\ NoTypes' /\ Pending' = <<>>
        BY <1>4, <1>5, <2>1, <2>4, <3>1, <3>2 DEF NoTypes
      <4>2. Typing'
        BY <1>3, <1>4, <1>6, <2>1, <4>1 DEF Typing
      <4> QED BY <1>2, <1>3, <1>4, <1>6, <1>7, <1>8, <4>2, TypePhase
    <3>3. CASE kcall.res # 250
      <4>1. kpc' = "type" /\ kcall'.ch = Talker + 1 /\ type' = [type EXCEPT ![Talker] = -1]
        BY <1>5, <2>1, <2>4, <3>3
      <4>2. Typed'
        <5>1. slow
          BY <3>1, <3>3
        <5>2. PICK t : t = -1
          OBVIOUS
        <5>3. type' = [type EXCEPT ![Talker] = t]
          BY <4>1, <5>2
        <5> QED BY <1>1, <1>3, <1>8, <3>1, <5>1, <5>2, <5>3, TypedIs
      <4> QED BY <2>3, <4>1, <4>2
    <3> QED BY <3>2, <3>3
  <2>5. CASE kpc = "returned" /\ kcall.cmd = 242
    <3>1. NoTypes /\ ((kcall.res = 250 /\ Pending = <<171, 131>>) \/ (kcall.res = -1 /\ slow))
      BY <2>1, <2>5 DEF Typing, InCall
    <3>2. CASE kcall.res = 250
      <4>1. kpc' = "ident1" /\ kcall'.ch = Talker /\ NoTypes' /\ Pending' = <<171, 131>>
        BY <1>4, <1>5, <2>1, <2>5, <3>1, <3>2 DEF NoTypes
      <4>2. Typing'
        BY <1>3, <1>4, <1>6, <2>1, <4>1 DEF Typing
      <4> QED BY <1>2, <1>3, <1>4, <1>6, <1>7, <1>8, <4>2, TypePhase
    <3>3. CASE kcall.res # 250
      <4>1. kpc' = "send" /\ kcall'.ch = Talker /\ kcall'.cmd = 244 /\ type' = [type EXCEPT ![Talker] = -1]
        BY <1>5, <2>1, <2>5, <3>1, <3>3
      <4>2. Typed'
        <5>1. slow
          BY <3>1, <3>3
        <5>2. PICK t : t = -1
          OBVIOUS
        <5>3. type' = [type EXCEPT ![Talker] = t]
          BY <4>1, <5>2
        <5> QED BY <1>1, <1>3, <1>8, <3>1, <5>1, <5>2, <5>3, TypedIs
      <4> QED BY <2>3, <4>1, <4>2
    <3> QED BY <3>2, <3>3
  <2>6. CASE kpc = "ident1"
    <3>1. NoTypes /\ Pending = <<171, 131>>
      BY <2>1, <2>6 DEF Typing
    <3>2. (Keyb!Byte = 171 /\ Pending' = <<131>>) \/ (Keyb!Byte = -1 /\ slow)
      BY <1>1, <1>3, <2>6, <3>1, Reading, Tails
    <3>3. CASE Keyb!Byte = 171
      <4>1. kpc' = "ident2" /\ kcall'.ch = Talker /\ NoTypes' /\ Pending' = <<131>>
        BY <1>5, <2>1, <2>6, <3>1, <3>2, <3>3 DEF NoTypes
      <4>2. Typing'
        BY <1>3, <1>4, <1>6, <2>1, <4>1 DEF Typing
      <4> QED BY <1>2, <1>3, <1>4, <1>6, <1>7, <1>8, <4>2, TypePhase
    <3>4. CASE Keyb!Byte # 171
      <4>1. kpc' = "send" /\ kcall'.ch = Talker /\ kcall'.cmd = 244 /\ type' = [type EXCEPT ![Talker] = -1]
        BY <1>5, <2>1, <2>6, <3>1, <3>4
      <4>2. Typed'
        <5>1. slow
          BY <3>2, <3>4
        <5>2. PICK t : t = -1
          OBVIOUS
        <5>3. type' = [type EXCEPT ![Talker] = t]
          BY <4>1, <5>2
        <5> QED BY <1>1, <1>3, <1>8, <3>1, <5>1, <5>2, <5>3, TypedIs
      <4> QED BY <2>3, <4>1, <4>2
    <3> QED BY <3>3, <3>4
  <2>7. CASE kpc = "ident2"
    <3>1. NoTypes /\ Pending = <<131>>
      BY <2>1, <2>7 DEF Typing
    <3>2. Keyb!Byte = 131 \/ (Keyb!Byte = -1 /\ slow)
      BY <1>1, <1>3, <2>7, <3>1, Reading, Tails
    <3>3. 131 % 256 = 131 /\ \A i \in Int : i = -1 => i % 256 = 255
      OBVIOUS
    <3>4. kpc' = "send" /\ kcall'.ch = Talker /\ kcall'.cmd = 244
           /\ type' = [type EXCEPT ![Talker] = Keyb!Byte % 256]
      BY <1>5, <2>1, <2>7
    <3>5. PICK t : t = Keyb!Byte % 256
      OBVIOUS
    <3>6. t = 131 \/ (slow /\ t \in {-1, 255})
      BY <1>1, <3>2, <3>3, <3>5, ByteType
    <3>7. type' = [type EXCEPT ![Talker] = t]
      BY <3>4, <3>5
    <3>8. Typed'
      BY <1>1, <1>3, <1>8, <3>1, <3>6, <3>7, TypedIs
    <3> QED BY <2>3, <3>4, <3>8
  <2>8. CASE kpc = "returned" /\ kcall.cmd = 244
    <3>1. Typed /\ kpc' = "type" /\ kcall'.ch = Talker + 1 /\ type' = type
      BY <1>5, <2>1, <2>8 DEF Typing, InCall
    <3>2. Typed'
      BY <1>3, <3>1 DEF Typed
    <3> QED BY <2>3, <3>1, <3>2
  <2> QED BY <1>5, <2>4, <2>5, <2>6, <2>7, <2>8
<1>9. CASE ~(Kbd /\ Talker \in isReset)
  <2>1. Vague /\ (Kbd => slow)
    BY <1>9, LateFacts
  <2>2. kpc # "ident2" /\ kcall.ch \in isReset
    BY <1>3, <2>1 DEF Vague, InCall
  <2>3. kpc = "ident1" => Keyb!Byte # 171 /\ \A i \in DOMAIN Pending' : Pending'[i] \in {250, 170, 0}
    BY <1>1, <1>3, <2>1, VagueReading DEF Plain
  <2>4. \A i \in DOMAIN Pending' : Pending'[i] \in {250, 170, 0}
    BY <1>3, <1>4, <2>1, <2>2, <2>3 DEF Vague
  <2>5. kpc = "returned" /\ kcall.cmd = 242 => kcall.res \in {250, -1}
    BY <2>1 DEF Vague
  <2>6. type' = type \/ type' = [type EXCEPT ![kcall.ch] = -1]
    BY <1>5, <2>2, <2>3, <2>5
  <2>7. NoTypes'
    BY <1>4, <2>1, <2>6 DEF Vague, NoTypes
  <2>8. kpc' # "ident2" /\ (kpc' \in {"send", "ident1"} => kcall'.ch = kcall.ch) /\ kpc' # "returned"
    BY <1>5, <2>2, <2>3
  <2>9. Vague'
    BY <1>3, <1>6, <2>2, <2>4, <2>7, <2>8 DEF Vague
  <2> QED BY <1>2, <1>3, <1>4, <1>6, <1>7, <1>9, <2>1, <2>9, TypePhase
<1> QED BY <1>8, <1>9

LEMMA LastFlushStep ==
  ASSUME Keyb!KeyboardAssumption, OneDevice, KeybInv, InType, Keyb!LastFlush
  PROVE  KeybInv'
<1>1. KeybTypeOK /\ Asking
  BY LateFacts
<1>2. KeybTypeOK'
  BY <1>1, LateTypeOK
<1>3. UNCHANGED <<kcall, dev, slow, config, enabled, type, isReset, flight>>
      /\ kpc = "last_flush" /\ kpc' \in {"last_flush", "ready"} /\ out' = Keyb!Rest /\ Keyb!ReadyOrLate
  BY DEF Keyb!LastFlush, Keyb!At, Keyb!resVars, Keyb!Go
<1>4. Talker' = Talker /\ (NoTypes' <=> NoTypes) /\ (Typed' <=> Typed) /\ ~InCall /\ ~InCall'
  BY <1>3 DEF Talker, NoTypes, Typed, InCall
<1>5. Asking'
  BY <1>1, <1>3, <1>4, AskingStays
<1>6. Typed
  <2>1. CASE Kbd /\ Talker \in isReset
    BY <1>3, <2>1, LateFacts DEF Typing
  <2>2. CASE ~(Kbd /\ Talker \in isReset)
    <3>1. NoTypes /\ (Kbd => slow)
      BY <2>2, LateFacts DEF Vague
    <3>2. \A c \in Keyb!Channels : dev[c] = "kbd" => Kbd
      BY <1>1 DEF OneDevice, KeybTypeOK, Kbd, Talker, Keyb!Channels, Devices
    <3>3. \A c \in Keyb!Channels : type[c] = -1
      BY <3>1 DEF NoTypes
    <3> QED BY <3>1, <3>2, <3>3 DEF Typed
  <2> QED BY <2>1, <2>2
<1>7. CASE kpc' = "ready"
  <2>1. InUse' /\ ~InEarly' /\ ~InReset' /\ ~InType'
    BY <1>7 DEF InUse, InEarly, InReset, InType, InCall
  <2>2. enabled' = Ports'
    BY <1>5 DEF Asking
  <2> QED BY <1>2, <1>4, <1>6, <2>1, <2>2 DEF KeybInv
<1>8. CASE kpc' = "last_flush"
  <2>1. InType'
    BY <1>8 DEF InType
  <2>2. CASE Kbd /\ Talker \in isReset
    <3>1. isReset = {Talker}
      BY <2>2, LateFacts DEF Typing
    <3>2. Typing'
      BY <1>3, <1>4, <1>6, <1>8, <3>1 DEF Typing
    <3> QED BY <1>2, <1>3, <1>4, <1>5, <2>1, <2>2, <3>2, TypePhase
  <2>3. CASE ~(Kbd /\ Talker \in isReset)
    <3>1. Vague /\ (Kbd => slow)
      BY <2>3, LateFacts
    <3>2. \A i \in DOMAIN Pending' : Pending'[i] \in {250, 170, 0}
      BY <1>1, <1>3, <3>1, VagueReading DEF Plain
    <3>3. Vague'
      BY <1>4, <1>8, <3>1, <3>2 DEF Vague
    <3> QED BY <1>2, <1>3, <1>4, <1>5, <2>1, <2>3, <3>1, <3>3, TypePhase
  <2> QED BY <2>2, <2>3
<1> QED BY <1>3, <1>7, <1>8

LEMMA NextKeybInv ==
  ASSUME Keyb!KeyboardAssumption, OneDevice, KeybInv, [Keyb!Next]_(Keyb!kvars)
  PROVE  KeybInv'
<1>1. KeybTypeOK /\ (InEarly \/ InReset \/ InType \/ InUse)
  BY DEF KeybInv
<1>2. ASSUME NEW c \in Keyb!Channels,
             Keyb!Disable \/ Keyb!Flush \/ Keyb!WrConfigAsk \/ Keyb!WrConfig \/ Keyb!HasDual
             \/ Keyb!TestAsk(c) \/ Keyb!TestRead(c) \/ Keyb!Enable(c)
      PROVE  KeybInv'
  <2>1. CASE InEarly
    BY <1>2, <2>1, EarlySteps
  <2>2. CASE InUse
    <3>1. Keyb!WrConfigAsk \/ Keyb!WrConfig
      BY <1>2, <2>2 DEF InUse, Keyb!Disable, Keyb!Flush, Keyb!HasDual, Keyb!TestAsk,
         Keyb!TestRead, Keyb!Enable, Keyb!EnableAsk, Keyb!EnableRead, Keyb!At
    <3> QED BY <2>2, <3>1, UseSteps
  <2>3. CASE InReset \/ InType
    BY <1>2, <2>3 DEF InReset, InType, InCall, Keyb!Disable, Keyb!Flush, Keyb!WrConfigAsk,
       Keyb!WrConfig, Keyb!HasDual, Keyb!TestAsk,
       Keyb!TestRead, Keyb!Enable, Keyb!EnableAsk, Keyb!EnableRead, Keyb!At
  <2> QED BY <1>1, <2>1, <2>2, <2>3
<1>3. ASSUME Keyb!Send \/ Keyb!Respond PROVE KeybInv'
  <2>1. InReset \/ InType
    BY <1>1, <1>3 DEF Keyb!Send, Keyb!Respond, Keyb!At, InEarly, InUse
  <2> QED BY <1>3, <2>1, SendStep, RespondStep
<1>4. ASSUME Keyb!Reset \/ Keyb!ResetDone PROVE KeybInv'
  <2>1. InReset
    BY <1>4 DEF Keyb!Reset, Keyb!ResetDone, Keyb!At, InReset, InCall
  <2> QED BY <1>4, <2>1, ResetStep, ResetDoneStep
<1>5. ASSUME Keyb!Type \/ Keyb!Identify \/ Keyb!LastFlush PROVE KeybInv'
  <2>1. InType
    BY <1>5 DEF Keyb!Type, Keyb!Identify, Keyb!LastFlush, Keyb!At, InType, InCall
  <2> QED BY <1>5, <2>1, TypeStep, IdentifyStep, LastFlushStep
<1>6. ASSUME NEW c \in Keyb!Channels, Keyb!Arrive(c) PROVE KeybInv'
  <2>1. CASE InEarly
    BY <1>6, <2>1 DEF Keyb!Arrive, KeybInv, Silent
  <2>2. CASE InReset \/ InType
    BY <1>6, <2>2, ArriveStep
  <2>3. CASE InUse
    BY <1>6, <2>3, UseSteps
  <2> QED BY <1>1, <2>1, <2>2, <2>3
<1>7. ASSUME NEW c \in Keyb!Channels, NEW on \in BOOLEAN,
             Keyb!Rd \/ Keyb!IntrAsk(on) \/ Keyb!IntrSet(on) \/ Keyb!Press(c)
      PROVE  KeybInv'
  <2>1. InUse
    BY <1>7 DEF Keyb!Rd, Keyb!IntrAsk, Keyb!IntrSet, Keyb!Press, Keyb!At, InUse
  <2> QED BY <1>7, <2>1, UseSteps
<1>8. CASE UNCHANGED Keyb!kvars
  <2>1. UNCHANGED <<kpc, kcall, dev, slow, config, out, flight, tested, enabled, type, isReset>>
    BY <1>8 DEF Keyb!kvars, Keyb!ctlVars, Keyb!resVars
  <2>2. /\ KeybTypeOK' /\ (Early' <=> Early) /\ (Silent' <=> Silent) /\ (NoTypes' <=> NoTypes)
             /\ (Typed' <=> Typed)
        /\ Ports' = Ports /\ Talker' = Talker /\ (Kbd' <=> Kbd) /\ Pending' = Pending
    BY <1>1, <2>1 DEF KeybTypeOK, Early, Silent, NoTypes, Typed, Ports, Talker, Kbd, Pending,
       OneOn
  <2>3. /\ (InEarly' <=> InEarly) /\ (InReset' <=> InReset) /\ (InType' <=> InType) /\ (InUse' <=> InUse)
        /\ (InCall' <=> InCall)
    BY <2>1 DEF InEarly, InReset, InType, InUse, InCall
  <2>4. (Answered' <=> Answered) /\ (NotReset' <=> NotReset) /\ (Asking' <=> Asking)
    BY <2>1, <2>2, <2>3 DEF Answered, NotReset, Asking
  <2>5. Vague' <=> Vague
    BY <2>1, <2>2, <2>3 DEF Vague
  <2>6. Resetting' <=> Resetting
    BY <2>1, <2>2, <2>4 DEF Resetting
  <2>7. Typing' <=> Typing
    BY <2>1, <2>2, <2>3 DEF Typing
  <2> QED BY <2>1, <2>2, <2>3, <2>4, <2>5, <2>6, <2>7 DEF KeybInv
<1>9. 1 \in Keyb!Channels /\ TRUE \in BOOLEAN
  BY DEF Keyb!Channels
<1> QED BY <1>2, <1>3, <1>4, <1>5, <1>6, <1>7, <1>8, <1>9 DEF Keyb!Next, Keyb!Program

LEMMA KeybInvIdentifies == ASSUME KeybInv PROVE Keyb!Identified
<1> SUFFICES ASSUME kpc = "ready" PROVE Keyb!Identified
  BY DEF Keyb!Identified
<1>1. enabled = Ports /\ Typed
  BY DEF KeybInv, InUse
<1> QED BY <1>1 DEF Keyb!Identified, Ports, Typed

\* Where one device at most is attached, the initialization enables the channels that have
\* a port and finds a keyboard, and nothing else, to be one: no byte of another answer is
\* taken for an identity, however late the device answers and whatever is asked of it then.
THEOREM DevicesAreIdentified ==
  ASSUME Keyb!KeyboardAssumption, OneDevice
  PROVE  Keyb!Spec => []Identified
<1>1. Keyb!Init => KeybInv
  BY InitKeybInv
<1>2. KeybInv /\ [Keyb!Next]_(Keyb!kvars) => KeybInv'
  BY NextKeybInv
<1>3. KeybInv => Identified
  BY KeybInvIdentifies DEF Identified
<1> QED BY <1>1, <1>2, <1>3, PTL DEF Keyb!Spec
=============================================================================
