-------------------------- MODULE SafePartsProofs ---------------------------
(***************************************************************************)
(* Proofs about the parts of MCSafeParts, one section for each: what TLC   *)
(* checks of a part there for the constants of its configuration is proved *)
(* here for all constants that satisfy the part's assumption.  The parts   *)
(* do not interact, and each theorem is about the behaviours of one part:  *)
(* Pool!Spec, Mem!Spec, Context!Spec, Link!Spec, Waiting!Spec, Tables!Spec *)
(* and, of the part that MCSafeParts extends, Spec.                        *)
(***************************************************************************)
EXTENDS MCSafeParts, FiniteSetTheorems, WellFoundedInduction, TLAPS

-----------------------------------------------------------------------------
(* Receptors of Posix, for any number of receptors and threads, and any number *)
(* of signals.  What makes SignalsAreKept inductive is that each place of a *)
(* thread agrees with the state that its compare and exchanges left in its *)
(* receptor: so nobody else can claim it, and only its own get and ret touch *)
(* its semaphore's life.                                                   *)

Places == {"idle", "find", "init", "activate", "held", "waiting", "destroy", "unuse"}

TypeOK ==
  /\ rstate \in [Receptors -> {"unused", "initializing", "active", "deinitializing"}]
  /\ sem \in [Receptors -> Int]
  /\ upc \in [Users -> Places]
  /\ ui \in [Users -> Nat]
  /\ posts \in [Users -> [made : Nat, waits : Nat]]

\* Thread t has claimed the receptor of its index.
Uses(t) == upc[t] \notin {"idle", "find"}

OneUser ==
  /\ \A t \in Users : Uses(t) => ui[t] \in Receptors
  /\ \A t, u \in Users : Uses(t) /\ Uses(u) /\ ui[t] = ui[u] => t = u

\* The state of the receptor that a thread uses, and its semaphore's value.
StateAgrees ==
  \A t \in Users :
    /\ upc[t] \in {"init", "activate"} => rstate[ui[t]] = "initializing"
    /\ upc[t] \in {"held", "waiting"} => rstate[ui[t]] = "active"
    /\ upc[t] \in {"destroy", "unuse"} => rstate[ui[t]] = "deinitializing"

CountAgrees ==
  \A t \in Users :
    /\ upc[t] = "activate" => sem[ui[t]] = 0
    /\ t \in Holders => sem[ui[t]] = posts[t].made - posts[t].waits

IInv == TypeOK /\ OneUser /\ StateAgrees /\ CountAgrees

-----------------------------------------------------------------------------

\* A thread that uses receptor r is the only one of whom any part of IInv that
\* reads r's state or semaphore speaks.
LEMMA OnlyUser ==
  ASSUME OneUser, NEW t \in Users, Uses(t), NEW u \in Users, Uses(u), u # t
  PROVE  ui[u] # ui[t]
BY DEF OneUser

\* AcReceptor_init establishes the invariant.
LEMMA InitIInv == Init => IInv
BY DEF Init, IInv, TypeOK, OneUser, StateAgrees, CountAgrees, Uses, Holders, Places, None

\* Every step of get, ret, wait and signal leaves the variables with their types.
LEMMA NextTypeOK ==
  ASSUME TypeOK, OneUser, [Next]_rpvars
  PROVE  TypeOK'
<1> USE DEF TypeOK, Places, Step, SetState
<1>1. ASSUME NEW t \in Users, Get(t) \/ Claim(t)
      PROVE  TypeOK'
  BY SMTT(30), <1>1 DEF Get, Claim
<1>2. ASSUME NEW t \in Users, Skip(t)
      PROVE  TypeOK'
  BY <1>2 DEF Skip
<1>3. ASSUME NEW t \in Users, SemInit(t) \/ Activate(t)
      PROVE  TypeOK'
  BY SMTT(30), <1>3 DEF SemInit, Activate
<1>4. ASSUME NEW t \in Users, Signal(t)
      PROVE  TypeOK'
  <2>1. ui[t] \in Receptors
    BY <1>4 DEF Signal, Holders, OneUser, Uses
  <2>2. [posts[t] EXCEPT !.made = @ + 1] \in [made : Nat, waits : Nat]
    OBVIOUS
  <2>3. QED
    BY <1>4, <2>1, <2>2 DEF Signal, Posted
<1>5. ASSUME NEW t \in Users, Wait(t)
      PROVE  TypeOK'
  BY <1>5 DEF Wait
<1>6. ASSUME NEW t \in Users, Wake(t)
      PROVE  TypeOK'
  <2>1. ui[t] \in Receptors
    BY <1>6 DEF Wake, OneUser, Uses
  <2>2. [posts[t] EXCEPT !.waits = @ + 1] \in [made : Nat, waits : Nat]
    OBVIOUS
  <2>3. QED
    BY <1>6, <2>1, <2>2 DEF Wake
<1>7. ASSUME NEW t \in Users, Ret(t) \/ RetFails(t)
      PROVE  TypeOK'
  BY <1>7 DEF Ret, RetFails
<1>8. ASSUME NEW t \in Users, Destroy(t) \/ Unuse(t)
      PROVE  TypeOK'
  BY <1>8 DEF Destroy, Unuse, None
<1>9. CASE UNCHANGED rpvars
  BY <1>9 DEF rpvars
<1>10. QED
  BY <1>1, <1>2, <1>3, <1>4, <1>5, <1>6, <1>7, <1>8, <1>9 DEF Next, User

\* Only a claim gives a thread a receptor, and it finds the receptor unused; the
\* other steps change the state and the semaphore of the thread's own only.
LEMMA NextIInv == ASSUME IInv, [Next]_rpvars PROVE IInv'
<1> USE DEF IInv, TypeOK, Places, Step, SetState
<1>0. TypeOK'
  BY NextTypeOK
<1>1. ASSUME NEW t \in Users, Get(t) \/ Skip(t)
      PROVE  IInv'
  <2>1. \A u \in Users : Uses(u)' => Uses(u) /\ ui'[u] = ui[u] /\ upc'[u] = upc[u]
    BY <1>1 DEF Get, Skip, Uses
  <2>2. UNCHANGED <<rstate, sem, posts>>
    BY <1>1 DEF Get, Skip
  <2>3. OneUser'
    BY <2>1 DEF OneUser
  <2>4. StateAgrees' /\ CountAgrees'
    BY <2>1, <2>2 DEF StateAgrees, CountAgrees, Uses, Holders
  <2>5. QED
    BY <1>0, <2>3, <2>4
<1>2. ASSUME NEW t \in Users, Claim(t)
      PROVE  IInv'
  <2>1. \A u \in Users : Uses(u) => ui[u] # ui[t] /\ u # t
    BY <1>2 DEF Claim, Unused, Uses, OneUser, StateAgrees
  <2>2. OneUser'
    BY <1>2, <2>1 DEF Claim, OneUser, Uses
  <2>3. StateAgrees' /\ CountAgrees'
    BY <1>2, <2>1 DEF Claim, StateAgrees, CountAgrees, Uses, Holders
  <2>4. QED
    BY <1>0, <2>2, <2>3
<1>3. ASSUME NEW t \in Users, SemInit(t)
      PROVE  IInv'
  <2>1. Uses(t) /\ ui[t] \in Receptors
    BY <1>3 DEF SemInit, Uses, OneUser, Holders
  <2>2. \A u \in Users : Uses(u) /\ u # t => ui[u] # ui[t]
    BY <2>1, OnlyUser
  <2>3. OneUser'
    BY <1>3, <2>1 DEF SemInit, OneUser, Uses
  <2>4. StateAgrees' /\ CountAgrees'
    BY <1>3, <2>1, <2>2 DEF SemInit, StateAgrees, CountAgrees, Uses, Holders
  <2>5. QED
    BY <1>0, <2>3, <2>4
<1>4. ASSUME NEW t \in Users, Activate(t)
      PROVE  IInv'
  <2>1. Uses(t) /\ ui[t] \in Receptors
    BY <1>4 DEF Activate, Uses, OneUser, Holders
  <2>2. \A u \in Users : Uses(u) /\ u # t => ui[u] # ui[t]
    BY <2>1, OnlyUser
  <2>3. OneUser'
    BY <1>4, <2>1 DEF Activate, OneUser, Uses
  <2>4. StateAgrees' /\ CountAgrees'
    BY <1>4, <2>1, <2>2 DEF Activate, StateAgrees, CountAgrees, Uses, Holders
  <2>5. QED
    BY <1>0, <2>3, <2>4
<1>5. ASSUME NEW t \in Users, Signal(t)
      PROVE  IInv'
  <2>1. Uses(t) /\ ui[t] \in Receptors
    BY <1>5 DEF Signal, Uses, OneUser, Holders
  <2>2. \A u \in Users : Uses(u) /\ u # t => ui[u] # ui[t]
    BY <2>1, OnlyUser
  <2>3. OneUser'
    BY <1>5, <2>1 DEF Signal, OneUser, Uses
  <2>4. StateAgrees' /\ CountAgrees'
    BY <1>5, <2>1, <2>2 DEF Signal, Posted, StateAgrees, CountAgrees, Uses, Holders
  <2>5. QED
    BY <1>0, <2>3, <2>4
<1>6. ASSUME NEW t \in Users, Wait(t)
      PROVE  IInv'
  <2>1. Uses(t) /\ ui[t] \in Receptors
    BY <1>6 DEF Wait, Uses, OneUser, Holders
  <2>2. \A u \in Users : Uses(u) /\ u # t => ui[u] # ui[t]
    BY <2>1, OnlyUser
  <2>3. OneUser'
    BY <1>6, <2>1 DEF Wait, OneUser, Uses
  <2>4. StateAgrees' /\ CountAgrees'
    BY <1>6, <2>1, <2>2 DEF Wait, StateAgrees, CountAgrees, Uses, Holders
  <2>5. QED
    BY <1>0, <2>3, <2>4
<1>7. ASSUME NEW t \in Users, Wake(t)
      PROVE  IInv'
  <2>1. Uses(t) /\ ui[t] \in Receptors
    BY <1>7 DEF Wake, Uses, OneUser, Holders
  <2>2. \A u \in Users : Uses(u) /\ u # t => ui[u] # ui[t]
    BY <2>1, OnlyUser
  <2>3. OneUser'
    BY <1>7, <2>1 DEF Wake, OneUser, Uses
  <2>4. StateAgrees' /\ CountAgrees'
    BY <1>7, <2>1, <2>2 DEF Wake, StateAgrees, CountAgrees, Uses, Holders
  <2>5. QED
    BY <1>0, <2>3, <2>4
<1>8. ASSUME NEW t \in Users, Ret(t)
      PROVE  IInv'
  <2>1. Uses(t) /\ ui[t] \in Receptors
    BY <1>8 DEF Ret, Uses, OneUser, Holders
  <2>2. \A u \in Users : Uses(u) /\ u # t => ui[u] # ui[t]
    BY <2>1, OnlyUser
  <2>3. OneUser'
    BY <1>8, <2>1 DEF Ret, OneUser, Uses
  <2>4. StateAgrees' /\ CountAgrees'
    BY <1>8, <2>1, <2>2 DEF Ret, StateAgrees, CountAgrees, Uses, Holders
  <2>5. QED
    BY <1>0, <2>3, <2>4
<1>9. ASSUME NEW t \in Users, RetFails(t)
      PROVE  IInv'
  <2>1. Uses(t) /\ ui[t] \in Receptors
    BY <1>9 DEF RetFails, Uses, OneUser, Holders
  <2>2. \A u \in Users : Uses(u) /\ u # t => ui[u] # ui[t]
    BY <2>1, OnlyUser
  <2>3. OneUser'
    BY <1>9, <2>1 DEF RetFails, OneUser, Uses
  <2>4. StateAgrees' /\ CountAgrees'
    BY <1>9, <2>1, <2>2 DEF RetFails, StateAgrees, CountAgrees, Uses, Holders
  <2>5. QED
    BY <1>0, <2>3, <2>4
<1>10. ASSUME NEW t \in Users, Destroy(t)
      PROVE  IInv'
  <2>1. Uses(t) /\ ui[t] \in Receptors
    BY <1>10 DEF Destroy, Uses, OneUser, Holders
  <2>2. \A u \in Users : Uses(u) /\ u # t => ui[u] # ui[t]
    BY <2>1, OnlyUser
  <2>3. OneUser'
    BY <1>10, <2>1 DEF Destroy, OneUser, Uses
  <2>4. StateAgrees' /\ CountAgrees'
    BY <1>10, <2>1, <2>2 DEF Destroy, StateAgrees, CountAgrees, Uses, Holders
  <2>5. QED
    BY <1>0, <2>3, <2>4
<1>11. ASSUME NEW t \in Users, Unuse(t)
      PROVE  IInv'
  <2>1. Uses(t) /\ ui[t] \in Receptors
    BY <1>11 DEF Unuse, Uses, OneUser, Holders
  <2>2. \A u \in Users : Uses(u) /\ u # t => ui[u] # ui[t]
    BY <2>1, OnlyUser
  <2>3. OneUser'
    BY <1>11, <2>1 DEF Unuse, OneUser, Uses
  <2>4. StateAgrees' /\ CountAgrees'
    BY <1>11, <2>1, <2>2 DEF Unuse, StateAgrees, CountAgrees, Uses, Holders
  <2>5. QED
    BY <1>0, <2>3, <2>4
<1>12. CASE UNCHANGED rpvars
  BY <1>0, <1>12 DEF rpvars, OneUser, StateAgrees, CountAgrees, Uses, Holders
<1>13. QED
  BY <1>1, <1>2, <1>3, <1>4, <1>5, <1>6, <1>7, <1>8, <1>9, <1>10, <1>11, <1>12
  DEF Next, User

\* However threads get and return receptors at once, each receptor in use is one
\* thread's, and its semaphore holds the signals made and not yet waited for: for
\* any number of receptors, threads and signals.
THEOREM SignalsKept == Spec => []SignalsAreKept
<1>1. IInv => SignalsAreKept
  BY DEF IInv, OneUser, StateAgrees, CountAgrees, SignalsAreKept, Uses, Holders
<1>2. QED
  BY <1>1, InitIInv, NextIInv, PTL DEF Spec

-----------------------------------------------------------------------------
(* Message pools, for any pools, lists and counts of messages, and any number *)
(* of initialisations.  Placed says that a message in use is in one place; *)
(* Blocks, which memory is allocated; NodesApart, that no node is linked with *)
(* twice, and that those in use are in memory that is allocated.           *)

In(s) == {s[i] : i \in 1 .. Len(s)}
Once(s) == \A i, j \in 1 .. Len(s) : s[i] = s[j] => i = j

\* What a message or a list is linked with is never in the memory of messages.
NodeBlocks == {Pool!NextPtrsRaw(p, g) : p \in Pools, g \in 1 .. MaxInits}
  \cup {Pool!ListBlock(l) : l \in Lists}

PoolTypeOK ==
  /\ gen \in [Pools -> 0 .. MaxInits] /\ open \subseteq Pools \cup Lists
  /\ \A p \in Pools : p \in open => gen[p] >= 1
  /\ free \in [Pools -> Seq(Pool!AllMsgs)] /\ queue \in [Lists -> Seq(Pool!AllMsgs)]
       /\ held \subseteq Pool!AllMsgs
  /\ DOMAIN node = Pool!AllMsgs /\ DOMAIN stub = Lists

\* The messages of the pools that are open; those of an earlier initialisation are gone.
InUse(m) == m.pool \in open /\ m.g = gen[m.pool]

Blocks ==
  /\ \A p \in Pools, g \in 1 .. MaxInits :
       /\ Pool!MsgsRaw(p, g) \in alive <=> p \in open /\ g = gen[p]
       /\ Pool!NextPtrsRaw(p, g) \in alive <=> g <= gen[p]
  /\ \A l \in Lists : Pool!ListBlock(l) \in alive <=> l \in open \/ l \notin HeapLists

\* A message in use is held, in the ring buffer of its pool or in one list, and once.
Placed ==
  /\ \A m \in held : InUse(m)
  /\ \A p \in Pools : /\ Once(free[p])
                      /\ \A m \in In(free[p]) : m.pool = p /\ InUse(m) /\ m \notin held
  /\ \A l \in Lists : /\ Once(queue[l])
                      /\ \A m \in In(queue[l]) : InUse(m) /\ m \notin held /\ m \notin In(free[m.pool])
  /\ \A l, k \in Lists : \A m \in In(queue[l]) : m \in In(queue[k]) => l = k
  /\ \A m \in Pool!AllMsgs : InUse(m) => \/ m \in held \/ m \in In(free[m.pool])
                                         \/ \E l \in Lists : m \in In(queue[l])

\* The nodes of the messages and of the lists in use are all different, and allocated.
NodesApart ==
  /\ \A m \in Pool!AllMsgs : InUse(m) => node[m][1] \in NodeBlocks \cap alive
  /\ \A l \in Lists : l \in open => stub[l][1] \in NodeBlocks \cap alive
  /\ \A m, n \in Pool!AllMsgs : InUse(m) /\ InUse(n) /\ node[m] = node[n] => m = n
  /\ \A l, k \in Lists : l \in open /\ k \in open /\ stub[l] = stub[k] => l = k
  /\ \A m \in Pool!AllMsgs, l \in Lists : InUse(m) /\ l \in open => node[m] # stub[l]

PoolInv == PoolTypeOK /\ Blocks /\ Placed

-----------------------------------------------------------------------------

LEMMA AppendIn ==
  ASSUME NEW T, NEW s \in Seq(T), NEW m \in T
  PROVE  /\ Append(s, m) \in Seq(T) /\ In(Append(s, m)) = In(s) \cup {m}
         /\ Once(s) /\ m \notin In(s) => Once(Append(s, m))
<1>1. /\ Append(s, m) \in Seq(T) /\ Len(Append(s, m)) = Len(s) + 1 /\ Len(s) \in Nat
      /\ \A i \in 1 .. Len(s) : Append(s, m)[i] = s[i]
      /\ Append(s, m)[Len(s) + 1] = m
  OBVIOUS
<1>2. \A i \in 1 .. Len(s) + 1 : i \in 1 .. Len(s) \/ i = Len(s) + 1
  BY <1>1
<1>3. \A i \in 1 .. Len(s) : i \in 1 .. Len(s) + 1
  BY <1>1
<1>4. Len(s) + 1 \in 1 .. Len(s) + 1
  BY <1>1
<1>5. In(Append(s, m)) = In(s) \cup {m}
  BY <1>1, <1>2, <1>3, <1>4 DEF In
<1>6. ASSUME Once(s), m \notin In(s), NEW i \in 1 .. Len(s) + 1, NEW j \in 1 .. Len(s) + 1,
             Append(s, m)[i] = Append(s, m)[j]
      PROVE  i = j
  <2>1. \A n \in 1 .. Len(s) : s[n] # m
    BY <1>6 DEF In
  <2> QED BY <1>1, <1>2, <1>6, <2>1 DEF Once
<1> QED BY <1>1, <1>5, <1>6 DEF Once

LEMMA TailIn ==
  ASSUME NEW T, NEW s \in Seq(T), s # <<>>, Once(s)
  PROVE  /\ Head(s) \in In(s) /\ Head(s) \in T /\ Tail(s) \in Seq(T)
         /\ In(Tail(s)) = In(s) \ {Head(s)} /\ Once(Tail(s))
<1>1. /\ Len(s) \in Nat /\ Len(s) >= 1 /\ Tail(s) \in Seq(T) /\ Len(Tail(s)) = Len(s) - 1
      /\ Head(s) = s[1] /\ s[1] \in T
      /\ \A i \in 1 .. Len(s) - 1 : Tail(s)[i] = s[i + 1]
  OBVIOUS
<1>2. \A i \in 1 .. Len(s) - 1 : i + 1 \in 1 .. Len(s) /\ i + 1 # 1
  BY <1>1
<1>3. \A j \in 1 .. Len(s) : j = 1 \/ (j - 1 \in 1 .. Len(s) - 1 /\ (j - 1) + 1 = j)
  BY <1>1
<1>4. 1 \in 1 .. Len(s)
  BY <1>1
<1>5. \A i \in 1 .. Len(s) : i # 1 => s[i] # s[1]
  BY <1>4 DEF Once
<1>6. In(Tail(s)) = In(s) \ {s[1]}
  <2>1. ASSUME NEW i \in 1 .. Len(s) - 1 PROVE Tail(s)[i] \in In(s) \ {s[1]}
    BY <1>1, <1>2, <1>5, <2>1 DEF In
  <2>2. ASSUME NEW j \in 1 .. Len(s), s[j] # s[1] PROVE \E i \in 1 .. Len(s) - 1 : Tail(s)[i] = s[j]
    BY <1>1, <1>3, <2>2
  <2> QED BY SMTT(30), <1>1, <2>1, <2>2 DEF In
<1>7. Once(Tail(s))
  <2> SUFFICES ASSUME NEW i \in 1 .. Len(s) - 1, NEW j \in 1 .. Len(s) - 1, s[i + 1] = s[j + 1]
               PROVE  i = j
    BY <1>1 DEF Once
  <2>1. i + 1 = j + 1
    BY <1>2 DEF Once
  <2> QED BY <2>1
<1> QED BY <1>1, <1>4, <1>6, <1>7 DEF In

\* FiniteSets is instantiated with the pool: its Cardinality is the one theorems are about.
LEMMA PoolCardinality == ASSUME NEW S PROVE Pool!Cardinality(S) = Cardinality(S)
  BY DEF Pool!Cardinality, Cardinality

LEMMA TimesIn ==
  ASSUME NEW T, NEW s \in Seq(T), Once(s), NEW m
  PROVE  Pool!Times(m, s) = IF m \in In(s) THEN 1 ELSE 0
<1>1. DOMAIN s = 1 .. Len(s)
  OBVIOUS
<1>2. CASE m \in In(s)
  <2>1. PICK i \in 1 .. Len(s) : s[i] = m
    BY <1>2 DEF In
  <2>2. {j \in DOMAIN s : s[j] = m} = {i}
    BY <1>1, <2>1 DEF Once
  <2> QED BY <1>2, <2>2, FS_Singleton, PoolCardinality DEF Pool!Times
<1>3. CASE m \notin In(s)
  <2>1. {j \in DOMAIN s : s[j] = m} = {}
    BY <1>1, <1>3 DEF In
  <2> QED BY <1>3, <2>1, FS_EmptySet, PoolCardinality DEF Pool!Times
<1> QED BY <1>2, <1>3

LEMMA MsgsType ==
  ASSUME Pool!PoolAssumption
  PROVE  /\ \A m \in Pool!AllMsgs : m.pool \in Pools /\ m.g \in 1 .. MaxInits /\ m.i \in 1 .. Count
         /\ \A p \in Pools, g \in 1 .. MaxInits : \A m : m \in Pool!MsgsOf(p, g)
              <=> m \in Pool!AllMsgs /\ m.pool = p /\ m.g = g
         /\ \A p \in Pools, g \in 1 .. MaxInits, i \in 1 .. Count :
              [pool |-> p, g |-> g, i |-> i] \in Pool!MsgsOf(p, g)
         /\ \A m, n \in Pool!AllMsgs : m.pool = n.pool /\ m.g = n.g /\ m.i = n.i => m = n
<1>1. \A p \in Pools, g \in 1 .. MaxInits : \A m \in Pool!MsgsOf(p, g) : m.pool = p /\ m.g = g
       /\ m.i \in 1 .. Count
  BY DEF Pool!MsgsOf
<1>2. \A m \in Pool!AllMsgs : \E p \in Pools, g \in 1 .. MaxInits : m \in Pool!MsgsOf(p, g)
  BY DEF Pool!AllMsgs
<1>3. \A p \in Pools, g \in 1 .. MaxInits : Pool!MsgsOf(p, g) \subseteq Pool!AllMsgs
  BY DEF Pool!AllMsgs
<1>4. \A p \in Pools, g \in 1 .. MaxInits, i \in 1 .. Count :
        [pool |-> p, g |-> g, i |-> i] \in Pool!MsgsOf(p, g)
  BY DEF Pool!MsgsOf
<1>5. \A p \in Pools, g \in 1 .. MaxInits : \A m, n \in Pool!MsgsOf(p, g) : m.i = n.i => m = n
  BY DEF Pool!MsgsOf
<1> QED BY <1>1, <1>2, <1>3, <1>4, <1>5

LEMMA BlocksDiffer ==
  \A p, q, g, h :
    /\ Pool!MsgsRaw(p, g) # Pool!NextPtrsRaw(q, h) /\ Pool!MsgsRaw(p, g) # Pool!ListBlock(q)
    /\ Pool!NextPtrsRaw(p, g) # Pool!ListBlock(q)
    /\ Pool!MsgsRaw(p, g) = Pool!MsgsRaw(q, h) => p = q /\ g = h
    /\ Pool!NextPtrsRaw(p, g) = Pool!NextPtrsRaw(q, h) => p = q /\ g = h
    /\ Pool!ListBlock(p) = Pool!ListBlock(q) => p = q
BY DEF Pool!MsgsRaw, Pool!NextPtrsRaw, Pool!ListBlock

-----------------------------------------------------------------------------
LEMMA PoolInitInv == ASSUME Pool!PoolAssumption, Pool!Init PROVE PoolInv
<1>1. PoolTypeOK
  BY DEF Pool!Init, PoolTypeOK, Pool!PoolAssumption
<1>2. Blocks
  <2>1. \A p, g : Pool!MsgsRaw(p, g) \notin alive /\ Pool!NextPtrsRaw(p, g) \notin alive
    BY ZenonT(60), BlocksDiffer DEF Pool!Init
  <2>2. \A p \in Pools : p \notin open /\ gen[p] = 0
    BY DEF Pool!Init, Pool!PoolAssumption
  <2>3. \A l \in Lists : Pool!ListBlock(l) \in alive /\ l \in open
    BY DEF Pool!Init
  <2> QED BY <2>1, <2>2, <2>3 DEF Blocks
<1>3. Placed
  <2>1. In(<<>>) = {} /\ Once(<<>>)
    BY DEF In, Once
  <2>2. \A m \in Pool!AllMsgs : ~InUse(m)
    BY MsgsType DEF Pool!Init, InUse, Pool!PoolAssumption
  <2> QED BY <2>1, <2>2 DEF Pool!Init, Placed
<1> QED BY <1>1, <1>2, <1>3 DEF PoolInv

LEMMA PoolInitStep ==
  ASSUME Pool!PoolAssumption, PoolInv, NEW p \in Pools, Pool!PoolInit(p)
  PROVE  /\ PoolInv' /\ p \notin open /\ p \notin Lists /\ gen[p] + 1 \in 1 .. MaxInits
         /\ Pool!NextPtrsRaw(p, gen[p] + 1) \notin alive /\ Pool!NextPtrsRaw(p, gen[p] + 1) \in alive'
         /\ \A m \in Pool!AllMsgs : InUse(m)' <=> InUse(m) \/ m \in Pool!MsgsOf(p, gen[p] + 1)
         /\ \A m \in Pool!MsgsOf(p, gen[p] + 1) : ~InUse(m)
<1> DEFINE g == gen[p] + 1
           fresh == [i \in 1 .. Count |-> [pool |-> p, g |-> g, i |-> i]]
<1>1. /\ g \in 1 .. MaxInits /\ gen[p] \in 0 .. MaxInits /\ Count \in Nat /\ p \notin open /\ p \notin Lists
      /\ gen' = [gen EXCEPT ![p] = g] /\ free' = [free EXCEPT ![p] = fresh] /\ open' = open \cup {p}
      /\ alive' = alive \cup {Pool!MsgsRaw(p, g), Pool!NextPtrsRaw(p, g)} /\ UNCHANGED <<held, queue, stub>>
  BY DEF PoolInv, PoolTypeOK, Pool!PoolInit, Pool!PoolAssumption
<1>2. /\ gen'[p] = g /\ free'[p] = fresh
      /\ \A q \in Pools : q # p => gen'[q] = gen[q] /\ free'[q] = free[q]
      /\ gen \in [Pools -> 0 .. MaxInits]
  BY <1>1 DEF PoolInv, PoolTypeOK
<1>3. fresh \in Seq(Pool!AllMsgs) /\ In(fresh) = Pool!MsgsOf(p, g) /\ Once(fresh)
  <2>1. \A i \in 1 .. Count : [pool |-> p, g |-> g, i |-> i] \in Pool!MsgsOf(p, g)
         /\ Pool!MsgsOf(p, g) \subseteq Pool!AllMsgs
    BY <1>1, MsgsType
  <2>2. fresh \in Seq(Pool!AllMsgs) /\ Len(fresh) = Count
         /\ \A i \in 1 .. Count : fresh[i] = [pool |-> p, g |-> g, i |-> i]
    <3> HIDE DEF g
    <3>1. fresh \in [1 .. Count -> Pool!AllMsgs]
      BY <2>1
    <3> QED BY <1>1, <3>1
  <2>3. Pool!MsgsOf(p, g) = {[pool |-> p, g |-> g, i |-> i] : i \in 1 .. Count}
    <3>1. ASSUME NEW m \in Pool!MsgsOf(p, g)
          PROVE  m.i \in 1 .. Count /\ m = [pool |-> p, g |-> g, i |-> m.i]
      <4>1. m \in Pool!AllMsgs /\ m.pool = p /\ m.g = g /\ m.i \in 1 .. Count
        BY <1>1, MsgsType
      <4>2. [pool |-> p, g |-> g, i |-> m.i] \in Pool!AllMsgs
        BY <2>1, <4>1
      <4> QED BY <4>1, <4>2, MsgsType
    <3> QED BY <2>1, <3>1
  <2> HIDE DEF fresh, g
  <2> QED BY <2>2, <2>3 DEF In, Once
<1> HIDE DEF fresh, g
<1>4. PoolTypeOK'
  <2>1. gen' \in [Pools -> 0 .. MaxInits] /\ gen'[p] >= 1
    BY <1>1, <1>2
  <2>2. free' \in [Pools -> Seq(Pool!AllMsgs)]
    BY <1>1, <1>3 DEF PoolInv, PoolTypeOK
  <2>3. DOMAIN node' = Pool!AllMsgs
    BY DEF Pool!PoolInit
  <2>4. open' \subseteq Pools \cup Lists /\ \A q \in Pools : q \in open' => gen'[q] >= 1
    BY <1>1, <1>2, <2>1 DEF PoolInv, PoolTypeOK
  <2> QED BY <1>1, <2>1, <2>2, <2>3, <2>4 DEF PoolInv, PoolTypeOK
<1>5. Blocks'
  <2>1. ASSUME NEW q \in Pools, NEW h \in 1 .. MaxInits
        PROVE  /\ Pool!MsgsRaw(q, h) \in alive' <=> q \in open' /\ h = gen'[q]
               /\ Pool!NextPtrsRaw(q, h) \in alive' <=> h <= gen'[q]
    <3>1. /\ Pool!MsgsRaw(q, h) \in alive <=> q \in open /\ h = gen[q]
          /\ Pool!NextPtrsRaw(q, h) \in alive <=> h <= gen[q]
      BY DEF PoolInv, Blocks
    <3>2. Pool!MsgsRaw(q, h) \in alive' <=> Pool!MsgsRaw(q, h) \in alive \/ (q = p /\ h = g)
      BY <1>1, BlocksDiffer
    <3>3. Pool!NextPtrsRaw(q, h) \in alive' <=> Pool!NextPtrsRaw(q, h) \in alive \/ (q = p /\ h = g)
      BY <1>1, BlocksDiffer
    <3>4. CASE q # p
      BY <1>1, <1>2, <3>1, <3>2, <3>3, <3>4
    <3>5. CASE q = p
      <4>1. h <= g <=> h <= gen[p] \/ h = g
        BY <1>1 DEF g
      <4> QED BY <1>1, <1>2, <3>1, <3>2, <3>3, <3>5, <4>1
    <3> QED BY <3>4, <3>5
  <2>2. ASSUME NEW l \in Lists PROVE Pool!ListBlock(l) \in alive' <=> l \in open' \/ l \notin HeapLists
    BY <1>1, BlocksDiffer DEF PoolInv, Blocks
  <2> QED BY <2>1, <2>2 DEF Blocks
<1>6. \A m \in Pool!AllMsgs : InUse(m)' <=> InUse(m) \/ m \in Pool!MsgsOf(p, g)
  <2> SUFFICES ASSUME NEW m \in Pool!AllMsgs PROVE InUse(m)' <=> InUse(m) \/ m \in Pool!MsgsOf(p, g)
    OBVIOUS
  <2>1. m \in Pool!MsgsOf(p, g) <=> m.pool = p /\ m.g = g
    BY <1>1, MsgsType
  <2>2. m.pool \in Pools
    BY MsgsType
  <2> QED BY <1>1, <1>2, <2>1, <2>2 DEF InUse
<1>7. \A m \in Pool!MsgsOf(p, g) : m \in Pool!AllMsgs /\ m.pool = p /\ ~InUse(m)
  BY <1>1, MsgsType DEF InUse
<1>8. Placed'
  <2>0. /\ \A q \in Pools : \A m \in In(free[q]) : m \in Pool!AllMsgs
        /\ \A l \in Lists : \A m \in In(queue[l]) : m \in Pool!AllMsgs
        /\ held \subseteq Pool!AllMsgs
    <3>1. \A s \in Seq(Pool!AllMsgs) : In(s) \subseteq Pool!AllMsgs
      BY DEF In
    <3> QED BY <3>1 DEF PoolInv, PoolTypeOK
  <2>1. \A m \in held : InUse(m)'
    BY <1>6, <2>0 DEF PoolInv, Placed
  <2>2. ASSUME NEW q \in Pools
        PROVE  Once(free'[q]) /\ \A m \in In(free'[q]) : m.pool = q /\ InUse(m)' /\ m \notin held
    <3>1. CASE q = p
      BY <1>2, <1>3, <1>6, <1>7, <2>0, <3>1 DEF PoolInv, Placed
    <3>2. CASE q # p
      BY <1>2, <1>6, <2>0, <3>2 DEF PoolInv, Placed
    <3> QED BY <3>1, <3>2
  <2>3. ASSUME NEW l \in Lists, NEW m \in In(queue[l])
        PROVE  InUse(m)' /\ m \notin held /\ m \notin In(free'[m.pool])
    <3>1. InUse(m) /\ m \notin held /\ m \notin In(free[m.pool]) /\ m \in Pool!AllMsgs
      BY <2>0 DEF PoolInv, Placed
    <3>2. m.pool # p
      BY <1>1, <3>1 DEF InUse
    <3>3. m.pool \in Pools
      BY <3>1, MsgsType
    <3> QED BY <1>2, <1>6, <3>1, <3>2, <3>3
  <2>4. ASSUME NEW m \in Pool!AllMsgs, InUse(m)'
        PROVE  m \in held \/ m \in In(free'[m.pool]) \/ \E l \in Lists : m \in In(queue[l])
    <3>1. CASE InUse(m)
      <4>1. m.pool # p /\ m.pool \in Pools
        BY <1>1, <3>1, MsgsType DEF InUse
      <4> QED BY <1>2, <3>1, <4>1 DEF PoolInv, Placed
    <3>2. CASE m \in Pool!MsgsOf(p, g)
      BY <1>2, <1>3, <1>7, <3>2
    <3> QED BY <1>6, <2>4, <3>1, <3>2
  <2> QED BY <1>1, <2>1, <2>2, <2>3, <2>4 DEF PoolInv, Placed
<1>9. Pool!NextPtrsRaw(p, g) \notin alive /\ Pool!NextPtrsRaw(p, g) \in alive'
  <2>1. ~(g <= gen[p])
    BY <1>1 DEF g
  <2> QED BY <1>1, <2>1 DEF PoolInv, Blocks
<1> QED BY <1>1, <1>4, <1>5, <1>6, <1>7, <1>8, <1>9 DEF PoolInv, g

\* A message that moves: what is held, in the ring buffers and in the lists after it.
LEMMA PlaceTypes ==
  ASSUME Pool!PoolAssumption, PoolInv
  PROVE  /\ \A p \in Pools : free[p] \in Seq(Pool!AllMsgs) /\ In(free[p]) \subseteq Pool!AllMsgs
         /\ \A l \in Lists : queue[l] \in Seq(Pool!AllMsgs) /\ In(queue[l]) \subseteq Pool!AllMsgs
         /\ held \subseteq Pool!AllMsgs /\ \A m \in Pool!AllMsgs : m.pool \in Pools
<1>1. \A s \in Seq(Pool!AllMsgs) : In(s) \subseteq Pool!AllMsgs
  BY DEF In
<1> QED BY <1>1, MsgsType DEF PoolInv, PoolTypeOK

OthersPlaced(m) ==
  \A n \in Pool!AllMsgs \ {m} : /\ n \in held' <=> n \in held
                                /\ \A p \in Pools : n \in In(free'[p]) <=> n \in In(free[p])
                                /\ \A l \in Lists : n \in In(queue'[l]) <=> n \in In(queue[l])

OncePlaced(m) ==
  /\ \A p \in Pools : Once(free'[p]) /\ (m \in In(free'[p]) => m.pool = p /\ m \notin held')
  /\ \A l \in Lists : /\ Once(queue'[l])
                      /\ m \in In(queue'[l]) => m \notin held' /\ m \notin In(free'[m.pool])
  /\ \A l, k \in Lists : m \in In(queue'[l]) /\ m \in In(queue'[k]) => l = k
  /\ m \in held' \/ m \in In(free'[m.pool]) \/ \E l \in Lists : m \in In(queue'[l])

LEMMA PlacedMove ==
  ASSUME Pool!PoolAssumption, PoolInv, PoolTypeOK', gen' = gen, open' = open,
         NEW m \in Pool!AllMsgs, InUse(m),
         OthersPlaced(m), OncePlaced(m)
  PROVE  Placed'
<1>1. \A n : InUse(n)' <=> InUse(n)
  BY DEF InUse
<1>2. /\ \A p \in Pools : In(free'[p]) \subseteq Pool!AllMsgs
      /\ \A l \in Lists : In(queue'[l]) \subseteq Pool!AllMsgs
      /\ held' \subseteq Pool!AllMsgs
  <2>1. \A s \in Seq(Pool!AllMsgs) : In(s) \subseteq Pool!AllMsgs
    BY DEF In
  <2> QED BY <2>1 DEF PoolTypeOK
<1>3. \A n \in Pool!AllMsgs : n.pool \in Pools
  BY PlaceTypes
<1>4. \A n \in held' : InUse(n)'
  BY <1>1, <1>2 DEF PoolInv, Placed, OthersPlaced, OncePlaced
<1>5. ASSUME NEW p \in Pools, NEW n \in In(free'[p]) PROVE n.pool = p /\ InUse(n)' /\ n \notin held'
  BY <1>1, <1>2 DEF PoolInv, Placed, OthersPlaced, OncePlaced
<1>6. ASSUME NEW l \in Lists, NEW n \in In(queue'[l])
      PROVE  InUse(n)' /\ n \notin held' /\ n \notin In(free'[n.pool])
  BY <1>1, <1>2, <1>3 DEF PoolInv, Placed, OthersPlaced, OncePlaced
<1>7. ASSUME NEW l \in Lists, NEW k \in Lists, NEW n \in In(queue'[l]), n \in In(queue'[k]) PROVE l = k
  BY <1>2, <1>7 DEF PoolInv, Placed, OthersPlaced, OncePlaced
<1>8. ASSUME NEW n \in Pool!AllMsgs, InUse(n)'
      PROVE  n \in held' \/ n \in In(free'[n.pool]) \/ \E l \in Lists : n \in In(queue'[l])
  BY <1>1, <1>3, <1>8 DEF PoolInv, Placed, OthersPlaced, OncePlaced
<1>9. \A p \in Pools : Once(free'[p])
  BY DEF OncePlaced
<1>10. \A l \in Lists : Once(queue'[l])
  BY DEF OncePlaced
<1> QED BY <1>4, <1>5, <1>6, <1>7, <1>8, <1>9, <1>10 DEF Placed

LEMMA GetStep ==
  ASSUME Pool!PoolAssumption, PoolInv, NEW p \in Pools, Pool!Get(p)
  PROVE  PoolInv'
<1> DEFINE m == Head(free[p])
<1>1. /\ free[p] \in Seq(Pool!AllMsgs) /\ free[p] # <<>> /\ Once(free[p])
      /\ held' = held \cup {m} /\ free' = [free EXCEPT ![p] = Tail(free[p])]
      /\ UNCHANGED <<gen, open, alive, queue, node, stub>>
  BY PlaceTypes DEF Pool!Get, PoolInv, Placed
<1>2. /\ m \in In(free[p]) /\ m \in Pool!AllMsgs /\ Tail(free[p]) \in Seq(Pool!AllMsgs)
      /\ In(Tail(free[p])) = In(free[p]) \ {m} /\ Once(Tail(free[p]))
  BY <1>1, TailIn
<1>3. \A q \in Pools : free'[q] = IF q = p THEN Tail(free[p]) ELSE free[q]
  BY <1>1 DEF PoolInv, PoolTypeOK
<1> HIDE DEF m
<1>4. PoolTypeOK' /\ Blocks' /\ \A n : InUse(n)' <=> InUse(n)
  BY <1>1, <1>2 DEF PoolInv, PoolTypeOK, Blocks, InUse
<1>5. m.pool = p /\ InUse(m) /\ m \notin held /\ \A l \in Lists : m \notin In(queue[l])
  BY <1>2 DEF PoolInv, Placed
<1>6. Placed'
  <2>1. OthersPlaced(m)
    BY <1>1, <1>2, <1>3, <1>5 DEF OthersPlaced
  <2>2. \A q \in Pools : Once(free'[q]) /\ (m \in In(free'[q]) => m.pool = q /\ m \notin held')
    BY <1>1, <1>2, <1>3, <1>5 DEF PoolInv, Placed
  <2>3. \A k \in Lists :
          Once(queue'[k]) /\ (m \in In(queue'[k]) => m \notin held' /\ m \notin In(free'[m.pool]))
    BY <1>1, <1>2, <1>3, <1>5 DEF PoolInv, Placed
  <2>4. \A j, k \in Lists : m \in In(queue'[j]) /\ m \in In(queue'[k]) => j = k
    BY <1>1, <1>2, <1>3, <1>5 DEF PoolInv, Placed
  <2>5. m \in held' \/ m \in In(free'[m.pool]) \/ \E k \in Lists : m \in In(queue'[k])
    BY <1>1, <1>2, <1>3, <1>5
  <2>6. gen' = gen /\ open' = open /\ PoolTypeOK' /\ m \in Pool!AllMsgs /\ InUse(m)
    BY <1>1, <1>2, <1>4, <1>5
  <2>7. OncePlaced(m)
    BY <2>2, <2>3, <2>4, <2>5 DEF OncePlaced
  <2> QED BY <2>1, <2>6, <2>7, PlacedMove
<1> QED BY <1>4, <1>6 DEF PoolInv

LEMMA RetStep ==
  ASSUME Pool!PoolAssumption, PoolInv, NEW m \in held, Pool!Ret(m)
  PROVE  PoolInv'
<1> DEFINE p == m.pool
<1>1. /\ m \in Pool!AllMsgs /\ p \in Pools /\ free[p] \in Seq(Pool!AllMsgs) /\ Once(free[p])
      /\ m \notin In(free[p]) /\ \A l \in Lists : m \notin In(queue[l])
      /\ InUse(m)
  BY PlaceTypes DEF PoolInv, Placed
<1>2. held' = held \ {m} /\ free' = [free EXCEPT ![p] = Append(free[p], m)]
      /\ UNCHANGED <<gen, open, alive, queue, node, stub>>
  BY DEF Pool!Ret, Pool!HomeOf
<1>3. Append(free[p], m) \in Seq(Pool!AllMsgs) /\ In(Append(free[p], m)) = In(free[p]) \cup {m}
      /\ Once(Append(free[p], m))
  BY <1>1, AppendIn
<1>4. \A q \in Pools : free'[q] = IF q = p THEN Append(free[p], m) ELSE free[q]
  BY <1>2 DEF PoolInv, PoolTypeOK
<1>5. PoolTypeOK' /\ Blocks' /\ \A n : InUse(n)' <=> InUse(n)
  BY <1>1, <1>2, <1>3 DEF PoolInv, PoolTypeOK, Blocks, InUse
<1>6. Placed'
  <2>1. OthersPlaced(m)
    BY <1>1, <1>2, <1>3, <1>4 DEF OthersPlaced
  <2>2. \A q \in Pools : Once(free'[q]) /\ (m \in In(free'[q]) => m.pool = q /\ m \notin held')
    BY <1>1, <1>2, <1>3, <1>4 DEF PoolInv, Placed
  <2>3. \A k \in Lists :
          Once(queue'[k]) /\ (m \in In(queue'[k]) => m \notin held' /\ m \notin In(free'[m.pool]))
    BY <1>1, <1>2, <1>3, <1>4 DEF PoolInv, Placed
  <2>4. \A j, k \in Lists : m \in In(queue'[j]) /\ m \in In(queue'[k]) => j = k
    BY <1>1, <1>2, <1>3, <1>4 DEF PoolInv, Placed
  <2>5. m \in held' \/ m \in In(free'[m.pool]) \/ \E k \in Lists : m \in In(queue'[k])
    BY <1>1, <1>2, <1>3, <1>4
  <2>6. gen' = gen /\ open' = open /\ PoolTypeOK' /\ m \in Pool!AllMsgs /\ InUse(m)
    BY <1>1, <1>2, <1>5
  <2>7. OncePlaced(m)
    BY <2>2, <2>3, <2>4, <2>5 DEF OncePlaced
  <2> QED BY <2>1, <2>6, <2>7, PlacedMove
<1> QED BY <1>5, <1>6 DEF PoolInv

LEMMA AddStep ==
  ASSUME Pool!PoolAssumption, PoolInv, NEW m \in held, NEW l \in Lists, Pool!Add(l, m)
  PROVE  PoolInv'
<1>1. /\ m \in Pool!AllMsgs /\ m.pool \in Pools /\ queue[l] \in Seq(Pool!AllMsgs) /\ Once(queue[l])
      /\ m \notin In(free[m.pool]) /\ \A k \in Lists : m \notin In(queue[k])
      /\ InUse(m)
  BY PlaceTypes DEF PoolInv, Placed
<1>2. held' = held \ {m} /\ queue' = [queue EXCEPT ![l] = Append(queue[l], m)]
      /\ UNCHANGED <<gen, open, alive, free, node, stub>>
  BY DEF Pool!Add
<1>3. Append(queue[l], m) \in Seq(Pool!AllMsgs) /\ In(Append(queue[l], m)) = In(queue[l]) \cup {m}
      /\ Once(Append(queue[l], m))
  BY <1>1, AppendIn
<1>4. \A k \in Lists : queue'[k] = IF k = l THEN Append(queue[l], m) ELSE queue[k]
  BY <1>2 DEF PoolInv, PoolTypeOK
<1>5. PoolTypeOK' /\ Blocks' /\ \A n : InUse(n)' <=> InUse(n)
  BY <1>1, <1>2, <1>3 DEF PoolInv, PoolTypeOK, Blocks, InUse
<1>6. Placed'
  <2>1. OthersPlaced(m)
    BY <1>1, <1>2, <1>3, <1>4 DEF OthersPlaced
  <2>2. \A q \in Pools : Once(free'[q]) /\ (m \in In(free'[q]) => m.pool = q /\ m \notin held')
    BY <1>1, <1>2, <1>3, <1>4 DEF PoolInv, Placed
  <2>3. \A k \in Lists :
          Once(queue'[k]) /\ (m \in In(queue'[k]) => m \notin held' /\ m \notin In(free'[m.pool]))
    BY <1>1, <1>2, <1>3, <1>4 DEF PoolInv, Placed
  <2>4. \A j, k \in Lists : m \in In(queue'[j]) /\ m \in In(queue'[k]) => j = k
    BY <1>1, <1>2, <1>3, <1>4 DEF PoolInv, Placed
  <2>5. m \in held' \/ m \in In(free'[m.pool]) \/ \E k \in Lists : m \in In(queue'[k])
    BY <1>1, <1>2, <1>3, <1>4
  <2>6. gen' = gen /\ open' = open /\ PoolTypeOK' /\ m \in Pool!AllMsgs /\ InUse(m)
    BY <1>1, <1>2, <1>5
  <2>7. OncePlaced(m)
    BY <2>2, <2>3, <2>4, <2>5 DEF OncePlaced
  <2> QED BY <2>1, <2>6, <2>7, PlacedMove
<1> QED BY <1>5, <1>6 DEF PoolInv

LEMMA RmvStep ==
  ASSUME Pool!PoolAssumption, PoolInv, NEW l \in Lists, Pool!Rmv(l)
  PROVE  PoolInv'
<1> DEFINE m == Head(queue[l])
<1>1. /\ queue[l] \in Seq(Pool!AllMsgs) /\ queue[l] # <<>> /\ Once(queue[l])
      /\ held' = held \cup {m} /\ queue' = [queue EXCEPT ![l] = Tail(queue[l])]
      /\ node' = [node EXCEPT ![m] = stub[l]] /\ stub' = [stub EXCEPT ![l] = node[m]]
      /\ UNCHANGED <<gen, open, alive, free>>
  BY PlaceTypes DEF Pool!Rmv, PoolInv, Placed
<1>2. /\ m \in In(queue[l]) /\ m \in Pool!AllMsgs /\ Tail(queue[l]) \in Seq(Pool!AllMsgs)
      /\ In(Tail(queue[l])) = In(queue[l]) \ {m} /\ Once(Tail(queue[l]))
  BY <1>1, TailIn
<1>3. \A k \in Lists : queue'[k] = IF k = l THEN Tail(queue[l]) ELSE queue[k]
  BY <1>1 DEF PoolInv, PoolTypeOK
<1> HIDE DEF m
<1>4. PoolTypeOK' /\ Blocks' /\ \A n : InUse(n)' <=> InUse(n)
  BY <1>1, <1>2 DEF PoolInv, PoolTypeOK, Blocks, InUse
<1>5. InUse(m) /\ m \notin held /\ m \notin In(free[m.pool]) /\ \A k \in Lists : m \in In(queue[k]) => k = l
  BY <1>2 DEF PoolInv, Placed
<1>6. Placed'
  <2>1. OthersPlaced(m)
    BY <1>1, <1>2, <1>3, <1>5 DEF OthersPlaced
  <2>2. \A q \in Pools : Once(free'[q]) /\ (m \in In(free'[q]) => m.pool = q /\ m \notin held')
    BY <1>1, <1>2, <1>3, <1>5 DEF PoolInv, Placed
  <2>3. \A k \in Lists :
          Once(queue'[k]) /\ (m \in In(queue'[k]) => m \notin held' /\ m \notin In(free'[m.pool]))
    BY <1>1, <1>2, <1>3, <1>5 DEF PoolInv, Placed
  <2>4. \A j, k \in Lists : m \in In(queue'[j]) /\ m \in In(queue'[k]) => j = k
    BY <1>1, <1>2, <1>3, <1>5 DEF PoolInv, Placed
  <2>5. m \in held' \/ m \in In(free'[m.pool]) \/ \E k \in Lists : m \in In(queue'[k])
    BY <1>1, <1>2, <1>3, <1>5
  <2>6. gen' = gen /\ open' = open /\ PoolTypeOK' /\ m \in Pool!AllMsgs /\ InUse(m)
    BY <1>1, <1>2, <1>4, <1>5
  <2>7. OncePlaced(m)
    BY <2>2, <2>3, <2>4, <2>5 DEF OncePlaced
  <2> QED BY <2>1, <2>6, <2>7, PlacedMove
<1> QED BY <1>4, <1>6 DEF PoolInv

LEMMA ListDeinitStep ==
  ASSUME Pool!PoolAssumption, PoolInv, NEW l \in Lists, Pool!ListDeinit(l)
  PROVE  PoolInv' /\ (\A m \in Pool!AllMsgs : InUse(m)' <=> InUse(m))
<1>1. /\ open' = open \ {l} /\ queue[l] = <<>> /\ l \in open
      /\ alive' = IF l \in HeapLists THEN alive \ {Pool!ListBlock(l)} ELSE alive
      /\ UNCHANGED <<gen, free, held, queue, node, stub>>
  BY DEF Pool!ListDeinit
<1>2. \A p \in Pools : p \in open' <=> p \in open
  BY <1>1 DEF Pool!PoolAssumption
<1>3. \A m \in Pool!AllMsgs : InUse(m)' <=> InUse(m)
  BY <1>1, <1>2, PlaceTypes DEF InUse
<1>4. Blocks'
  <2>1. ASSUME NEW q \in Pools, NEW h \in 1 .. MaxInits
        PROVE  /\ Pool!MsgsRaw(q, h) \in alive' <=> Pool!MsgsRaw(q, h) \in alive
               /\ Pool!NextPtrsRaw(q, h) \in alive' <=> Pool!NextPtrsRaw(q, h) \in alive
    BY <1>1, BlocksDiffer
  <2>2. ASSUME NEW k \in Lists PROVE Pool!ListBlock(k) \in alive' <=> k \in open' \/ k \notin HeapLists
    BY <1>1, BlocksDiffer DEF PoolInv, Blocks
  <2> QED BY <1>1, <1>2, <2>1, <2>2 DEF PoolInv, Blocks
<1>5. PoolTypeOK'
  BY <1>1, <1>2 DEF PoolInv, PoolTypeOK
<1>6. Placed'
  BY <1>1, <1>3, PlaceTypes DEF PoolInv, Placed
<1> QED BY <1>3, <1>4, <1>5, <1>6 DEF PoolInv

LEMMA PoolDeinitStep ==
  ASSUME Pool!PoolAssumption, PoolInv, NEW p \in Pools, Pool!PoolDeinit(p)
  PROVE  PoolInv' /\ \A m \in Pool!AllMsgs : InUse(m)' <=> InUse(m) /\ m.pool # p
<1>1. /\ open' = open \ {p} /\ p \in open /\ p \notin Lists
      /\ alive' = alive \ {Pool!MsgsRaw(p, gen[p])} /\ free' = [free EXCEPT ![p] = <<>>]
      /\ UNCHANGED <<gen, held, queue, node, stub>>
  BY DEF Pool!PoolDeinit, Pool!Freed, Pool!PoolAssumption
<1>2. \A m \in Pool!AllMsgs : InUse(m)' <=> InUse(m) /\ m.pool # p
  BY <1>1 DEF InUse
<1>3. gen[p] \in 1 .. MaxInits
  BY <1>1 DEF PoolInv, PoolTypeOK, Pool!PoolAssumption
<1>4. \A m \in Pool!AllMsgs : InUse(m) /\ m.pool = p =>
        m \notin held /\ \A l \in Lists : m \notin In(queue[l])
  <2> SUFFICES ASSUME NEW m \in Pool!AllMsgs, InUse(m), m.pool = p
               PROVE  m \notin held /\ \A l \in Lists : m \notin In(queue[l])
    OBVIOUS
  <2>1. m \in Pool!MsgsOf(p, gen[p])
    BY <1>3, MsgsType DEF InUse
  <2>2. \A l \in Lists : DOMAIN queue[l] = 1 .. Len(queue[l])
    BY PlaceTypes
  <2> QED BY <2>1, <2>2 DEF Pool!PoolDeinit, In
<1>5. PoolTypeOK'
  <2>1. <<>> \in Seq(Pool!AllMsgs)
    OBVIOUS
  <2> QED BY <1>1, <2>1 DEF PoolInv, PoolTypeOK
<1>6. Blocks'
  <2>1. ASSUME NEW q \in Pools, NEW h \in 1 .. MaxInits
        PROVE  /\ Pool!MsgsRaw(q, h) \in alive' <=> Pool!MsgsRaw(q, h) \in alive /\ ~(q = p /\ h = gen[p])
               /\ Pool!NextPtrsRaw(q, h) \in alive' <=> Pool!NextPtrsRaw(q, h) \in alive
    BY <1>1, BlocksDiffer
  <2>2. \A k \in Lists : (Pool!ListBlock(k) \in alive' <=> Pool!ListBlock(k) \in alive)
         /\ (k \in open' <=> k \in open)
    BY <1>1, BlocksDiffer
  <2> QED BY <1>1, <2>1, <2>2 DEF PoolInv, Blocks
<1>7. Placed'
  <2>1. \A q \in Pools : free'[q] = IF q = p THEN <<>> ELSE free[q]
    BY <1>1 DEF PoolInv, PoolTypeOK
  <2>2. In(<<>>) = {} /\ Once(<<>>)
    BY DEF In, Once
  <2>3. \A m \in held : m \in Pool!AllMsgs /\ m.pool # p
    BY <1>4, PlaceTypes DEF PoolInv, Placed
  <2>4. \A l \in Lists : \A m \in In(queue[l]) : m \in Pool!AllMsgs /\ m.pool # p
    BY <1>4, PlaceTypes DEF PoolInv, Placed
  <2> QED BY <1>1, <1>2, <2>1, <2>2, <2>3, <2>4, PlaceTypes DEF PoolInv, Placed
<1> QED BY <1>2, <1>5, <1>6, <1>7 DEF PoolInv

LEMMA PoolNextInv == ASSUME Pool!PoolAssumption, PoolInv, [Pool!Next]_(Pool!mpvars) PROVE PoolInv'
<1>1. CASE UNCHANGED Pool!mpvars
  BY <1>1 DEF Pool!mpvars, PoolInv, PoolTypeOK, Blocks, Placed, InUse
<1>2. ASSUME NEW p \in Pools, Pool!PoolInit(p) PROVE PoolInv'
  BY <1>2, PoolInitStep
<1>3. ASSUME NEW p \in Pools, Pool!Get(p) PROVE PoolInv'
  BY <1>3, GetStep
<1>4. ASSUME NEW p \in Pools, Pool!PoolDeinit(p) PROVE PoolInv'
  BY <1>4, PoolDeinitStep
<1>5. ASSUME NEW m \in held, Pool!Ret(m) PROVE PoolInv'
  BY <1>5, RetStep
<1>6. ASSUME NEW m \in held, NEW l \in Lists, Pool!Add(l, m) PROVE PoolInv'
  BY <1>6, AddStep
<1>7. ASSUME NEW l \in Lists, Pool!Rmv(l) PROVE PoolInv'
  BY <1>7, RmvStep
<1>8. ASSUME NEW l \in Lists, Pool!ListDeinit(l) PROVE PoolInv'
  BY <1>8, ListDeinitStep
<1> QED BY <1>1, <1>2, <1>3, <1>4, <1>5, <1>6, <1>7, <1>8 DEF Pool!Next

\* The ring buffer of a pool never holds more than its messages: two of them would be one.
LEMMA FreeFits ==
  ASSUME Pool!PoolAssumption, PoolInv, NEW p \in Pools
  PROVE  Len(free[p]) <= Count
<1> SUFFICES ASSUME Len(free[p]) > Count PROVE FALSE
  BY PlaceTypes DEF Pool!PoolAssumption
<1> DEFINE n == Len(free[p])
           f == [j \in 1 .. n |-> free[p][j].i]
<1>1. free[p] \in Seq(Pool!AllMsgs) /\ n \in Nat /\ Count \in Nat
  BY PlaceTypes DEF Pool!PoolAssumption
<1>2. \A j \in 1 .. n : free[p][j] \in Pool!AllMsgs /\ free[p][j] \in In(free[p])
  BY <1>1 DEF In
<1>3. f \in [1 .. n -> 1 .. Count]
  BY <1>2, MsgsType
<1>4. IsFiniteSet(1 .. n) /\ IsFiniteSet(1 .. Count) /\ Cardinality(1 .. n) = n
       /\ Cardinality(1 .. Count) = Count
  <2> SUFFICES ASSUME NEW k \in Nat PROVE IsFiniteSet(1 .. k) /\ Cardinality(1 .. k) = k
    BY <1>1
  <2>1. IsFiniteSet(1 .. k) /\ Cardinality(1 .. k) = IF 1 > k THEN 0 ELSE k - 1 + 1
    BY FS_Interval
  <2> QED BY <2>1
<1>5. Cardinality(1 .. Count) < Cardinality(1 .. n)
  BY <1>1, <1>4
<1> HIDE DEF n, f
<1>6. PICK i \in 1 .. n, j \in 1 .. n : i # j /\ f[i] = f[j]
  BY <1>3, <1>4, <1>5, FS_PigeonHole
<1>7. /\ free[p][i].i = free[p][j].i /\ free[p][i].pool = p /\ free[p][j].pool = p
      /\ InUse(free[p][i]) /\ InUse(free[p][j])
  BY <1>2, <1>6 DEF f, PoolInv, Placed
<1>8. free[p][i] = free[p][j]
  BY <1>2, <1>7, MsgsType DEF InUse
<1> QED BY <1>6, <1>8 DEF PoolInv, Placed, Once, n

LEMMA ExistsInUse ==
  ASSUME Pool!PoolAssumption, PoolInv, NEW m \in Pool!AllMsgs
  PROVE  Pool!Exists(m) <=> InUse(m)
BY MsgsType DEF PoolInv, Blocks, Pool!Exists, InUse

LEMMA PoolInvAccounted == ASSUME Pool!PoolAssumption, PoolInv PROVE Pool!MsgsAccounted
<1>1. /\ \A p \in Pools, m \in Pool!AllMsgs : Pool!Times(m, free[p]) = IF m \in In(free[p]) THEN 1 ELSE 0
      /\ \A l \in Lists, m \in Pool!AllMsgs : Pool!Times(m, queue[l]) = IF m \in In(queue[l]) THEN 1 ELSE 0
  BY PlaceTypes, TimesIn DEF PoolInv, Placed
<1>2. ASSUME NEW m \in Pool!AllMsgs, Pool!Exists(m)
      PROVE  LET home == Pool!Times(m, free[m.pool])
                 inLists == {l \in Lists : Pool!Times(m, queue[l]) > 0}
             IN (IF m \in held THEN 1 ELSE 0) + home + Cardinality(inLists) = 1
  <2> DEFINE inLists == {l \in Lists : Pool!Times(m, queue[l]) > 0}
  <2>1. InUse(m) /\ m.pool \in Pools
    BY <1>2, ExistsInUse, MsgsType
  <2>2. inLists = {l \in Lists : m \in In(queue[l])}
    BY <1>1
  <2>3. Pool!Times(m, free[m.pool]) = IF m \in In(free[m.pool]) THEN 1 ELSE 0
    BY <1>1, <2>1
  <2> HIDE DEF inLists
  <2>4. CASE \E l \in Lists : m \in In(queue[l])
    <3>1. PICK l \in Lists : m \in In(queue[l])
      BY <2>4
    <3>2. inLists = {l}
      BY <2>2, <3>1 DEF PoolInv, Placed
    <3>3. m \notin held /\ m \notin In(free[m.pool])
      BY <3>1 DEF PoolInv, Placed
    <3>4. Cardinality(inLists) = 1
      BY <3>2, FS_Singleton
    <3> QED BY <2>3, <3>3, <3>4 DEF inLists
  <2>5. CASE ~\E l \in Lists : m \in In(queue[l])
    <3>1. inLists = {}
      BY <2>2, <2>5
    <3>2. Cardinality(inLists) = 0
      BY <3>1, FS_EmptySet
    <3>3. m \in held <=> m \notin In(free[m.pool])
      BY <2>1, <2>5 DEF PoolInv, Placed
    <3> QED BY <2>3, <3>2, <3>3 DEF inLists
  <2> QED BY <2>4, <2>5
<1>3. \A l \in Lists : \A m \in Pool!AllMsgs : Pool!Times(m, queue[l]) \in 0 .. 1
  BY <1>1
<1> QED BY <1>2, <1>3, FreeFits, PoolCardinality DEF Pool!MsgsAccounted

-----------------------------------------------------------------------------

LEMMA NodesInit == ASSUME Pool!PoolAssumption, Pool!Init PROVE NodesApart
<1>1. \A m \in Pool!AllMsgs : ~InUse(m)
  BY MsgsType DEF Pool!Init, InUse, Pool!PoolAssumption
<1>2. \A l \in Lists : stub[l] = <<Pool!ListBlock(l), 0>> /\ stub[l][1] = Pool!ListBlock(l)
       /\ Pool!ListBlock(l) \in NodeBlocks \cap alive
  BY DEF Pool!Init, NodeBlocks
<1>3. \A l, k \in Lists : stub[l] = stub[k] => l = k
  <2> SUFFICES ASSUME NEW l \in Lists, NEW k \in Lists, stub[l] = stub[k] PROVE l = k
    OBVIOUS
  <2>1. Pool!ListBlock(l) = Pool!ListBlock(k)
    BY <1>2
  <2> QED BY <2>1, BlocksDiffer
<1> QED BY <1>1, <1>2, <1>3 DEF NodesApart

LEMMA NodesNext ==
  ASSUME Pool!PoolAssumption, HeapLists = {}, PoolInv, NodesApart, [Pool!Next]_(Pool!mpvars)
  PROVE  NodesApart'
<1>0. PoolInv' /\ DOMAIN node = Pool!AllMsgs /\ DOMAIN stub = Lists
  BY PoolNextInv DEF PoolInv, PoolTypeOK
<1>1. ASSUME UNCHANGED <<gen, open, alive, node, stub>> PROVE NodesApart'
  BY <1>1 DEF NodesApart, InUse
<1>2. ASSUME NEW p \in Pools, Pool!PoolInit(p) PROVE NodesApart'
  <2> DEFINE g == gen[p] + 1
  <2>1. /\ p \notin open /\ p \notin Lists /\ g \in 1 .. MaxInits
        /\ Pool!NextPtrsRaw(p, g) \notin alive /\ Pool!NextPtrsRaw(p, g) \in alive'
        /\ \A m \in Pool!AllMsgs : InUse(m)' <=> InUse(m) \/ m \in Pool!MsgsOf(p, g)
        /\ \A m \in Pool!MsgsOf(p, g) : ~InUse(m)
    BY <1>2, PoolInitStep
  <2>2. /\ \A m \in Pool!AllMsgs :
             node'[m] = IF m \in Pool!MsgsOf(p, g) THEN <<Pool!NextPtrsRaw(p, g), m.i>> ELSE node[m]
        /\ open' = open \cup {p} /\ stub' = stub /\ alive \subseteq alive'
    BY <1>2 DEF Pool!PoolInit
  <2>3. Pool!NextPtrsRaw(p, g) \in NodeBlocks
    BY <2>1 DEF NodeBlocks
  <2>4. \A m, n \in Pool!MsgsOf(p, g) : m.i = n.i => m = n
    BY <2>1, MsgsType
  <2> HIDE DEF g
  <2>5. \A m \in Pool!MsgsOf(p, g) \cap Pool!AllMsgs :
          node'[m] = <<Pool!NextPtrsRaw(p, g), m.i>> /\ node'[m][1] = Pool!NextPtrsRaw(p, g)
    <3>1. \A b, i : <<b, i>>[1] = b
      OBVIOUS
    <3> QED BY ZenonT(60), <2>2, <3>1
  <2>6. \A m \in Pool!AllMsgs : InUse(m) => node'[m] = node[m] /\ node[m][1] # Pool!NextPtrsRaw(p, g)
    BY <2>1, <2>2 DEF NodesApart
  <2>7. \A l \in Lists : l \in open' => l \in open /\ stub[l][1] # Pool!NextPtrsRaw(p, g)
    BY <2>1, <2>2 DEF NodesApart
  <2>8. \A m \in Pool!AllMsgs : InUse(m)' => node'[m][1] \in NodeBlocks \cap alive'
    BY <2>1, <2>2, <2>3, <2>5, <2>6 DEF NodesApart
  <2>9. ASSUME NEW m \in Pool!AllMsgs, NEW n \in Pool!AllMsgs, InUse(m)', InUse(n)', node'[m] = node'[n]
        PROVE  m = n
    <3>1. CASE InUse(m) /\ InUse(n)
      BY <2>6, <2>9, <3>1 DEF NodesApart
    <3>2. CASE m \in Pool!MsgsOf(p, g) /\ n \in Pool!MsgsOf(p, g)
      BY <2>4, <2>5, <2>9, <3>2
    <3>3. CASE InUse(m) /\ n \in Pool!MsgsOf(p, g)
      BY <2>5, <2>6, <2>9, <3>3
    <3>4. CASE m \in Pool!MsgsOf(p, g) /\ InUse(n)
      BY <2>5, <2>6, <2>9, <3>4
    <3> QED BY <2>1, <2>9, <3>1, <3>2, <3>3, <3>4
  <2>10. ASSUME NEW m \in Pool!AllMsgs, NEW l \in Lists, InUse(m)', l \in open' PROVE node'[m] # stub'[l]
    BY <2>1, <2>2, <2>5, <2>6, <2>7, <2>10 DEF NodesApart
  <2> QED BY <2>2, <2>7, <2>8, <2>9, <2>10 DEF NodesApart
<1>3. ASSUME NEW p \in Pools, Pool!PoolDeinit(p) PROVE NodesApart'
  <2>1. /\ \A m \in Pool!AllMsgs : InUse(m)' => InUse(m)
        /\ open' \subseteq open /\ node' = node /\ stub' = stub
        /\ alive' = alive \ {Pool!MsgsRaw(p, gen[p])}
    BY <1>3, PoolDeinitStep DEF Pool!PoolDeinit, Pool!Freed
  <2>2. NodeBlocks \cap alive' = NodeBlocks \cap alive
    BY <2>1, BlocksDiffer DEF NodeBlocks
  <2> QED BY <2>1, <2>2 DEF NodesApart
<1>4. ASSUME NEW l \in Lists, Pool!Rmv(l) PROVE NodesApart'
  <2> DEFINE m == Head(queue[l])
  <2>1. /\ queue[l] \in Seq(Pool!AllMsgs) /\ queue[l] # <<>> /\ Once(queue[l])
    BY <1>4, PlaceTypes DEF PoolInv, Placed, Pool!Rmv
  <2>2. m \in Pool!AllMsgs /\ InUse(m)
    BY <2>1, TailIn DEF PoolInv, Placed
  <2>3. /\ l \in open /\ node' = [node EXCEPT ![m] = stub[l]] /\ stub' = [stub EXCEPT ![l] = node[m]]
        /\ UNCHANGED <<gen, open, alive>>
    BY <1>4 DEF Pool!Rmv
  <2> HIDE DEF m
  <2>4. /\ \A n \in Pool!AllMsgs : node'[n] = IF n = m THEN stub[l] ELSE node[n]
        /\ \A k \in Lists : stub'[k] = IF k = l THEN node[m] ELSE stub[k]
        /\ \A n : InUse(n)' <=> InUse(n)
    BY <1>0, <2>2, <2>3 DEF InUse
  <2> QED BY <2>2, <2>3, <2>4 DEF NodesApart
<1>5. ASSUME NEW l \in Lists, Pool!ListDeinit(l) PROVE NodesApart'
  <2>1. \A m \in Pool!AllMsgs : InUse(m)' <=> InUse(m)
    BY <1>5, ListDeinitStep
  <2>2. open' \subseteq open /\ UNCHANGED <<alive, node, stub>>
    BY <1>5 DEF Pool!ListDeinit
  <2> QED BY <2>1, <2>2 DEF NodesApart
<1>6. CASE UNCHANGED Pool!mpvars
  BY <1>1, <1>6 DEF Pool!mpvars
<1>7. ASSUME NEW p \in Pools, Pool!Get(p) PROVE NodesApart'
  BY <1>1, <1>7 DEF Pool!Get
<1>8. ASSUME NEW m \in held, Pool!Ret(m) \/ \E l \in Lists : Pool!Add(l, m) PROVE NodesApart'
  BY <1>1, <1>8 DEF Pool!Ret, Pool!Add
<1> QED BY <1>2, <1>3, <1>4, <1>5, <1>6, <1>7, <1>8 DEF Pool!Next

LEMMA NodesApartAlive == ASSUME Pool!PoolAssumption, PoolInv, NodesApart PROVE Pool!NodesAlive
BY ExistsInUse DEF NodesApart, Pool!NodesAlive

\* No message is lost or doubled: each message of an open pool is held, in the ring buffer
\* of its pool or in one list, once, also where a list's own memory was freed.
THEOREM MessagesAccounted == ASSUME Pool!PoolAssumption PROVE Pool!Spec => []Pool!MsgsAccounted
<1>1. Pool!Init => PoolInv
  BY PoolInitInv
<1>2. PoolInv /\ [Pool!Next]_(Pool!mpvars) => PoolInv'
  BY PoolNextInv
<1>3. PoolInv => Pool!MsgsAccounted
  BY PoolInvAccounted
<1> QED BY <1>1, <1>2, <1>3, PTL DEF Pool!Spec

\* And where no list is in memory that is freed (HeapLists: then its stub would be), the
\* nodes that messages and lists are linked with are in allocated memory, whatever is
\* opened, closed, passed on and returned, in whatever order.
THEOREM PoolsConsistent ==
  ASSUME Pool!PoolAssumption, HeapLists = {}
  PROVE  Pool!Spec => []PoolConsistent
<1>1. Pool!Init => PoolInv /\ NodesApart
  BY PoolInitInv, NodesInit
<1>2. PoolInv /\ NodesApart /\ [Pool!Next]_(Pool!mpvars) => (PoolInv /\ NodesApart)'
  BY PoolNextInv, NodesNext
<1>3. PoolInv /\ NodesApart => PoolConsistent
  BY PoolInvAccounted, NodesApartAlive DEF PoolConsistent, Pool!PoolConsistent
<1> QED BY <1>1, <1>2, <1>3, PTL DEF Pool!Spec

-----------------------------------------------------------------------------
(* The memory manager, for any alignment, word and array of chunks.  What makes *)
(* AllocatedApart inductive is Under, that an answer to come is below the index, *)
(* and Below, that what was given is too: so what is given next is new.    *)

LEMMA ModUnique ==
  ASSUME NEW a \in Int, NEW n \in Nat \ {0}, NEW q \in Int, NEW b \in 0 .. n - 1,
         a = q * n + b
  PROVE  a % n = b
<1>1. a % n \in 0 .. n - 1 /\ a \div n \in Int /\ a = n * (a \div n) + (a % n)
  OBVIOUS
<1>2. q - (a \div n) \in Int /\ n * (q - (a \div n)) = (a % n) - b
  BY <1>1
<1>3. q - (a \div n) = 0
  <2>1. CASE q - (a \div n) >= 1
    <3>1. n * (q - (a \div n)) >= n
      BY <1>2, <2>1
    <3> QED BY <1>1, <1>2, <3>1
  <2>2. CASE q - (a \div n) <= -1
    <3>1. n * (q - (a \div n)) <= -n
      BY <1>2, <2>2
    <3> QED BY <1>1, <1>2, <3>1
  <2> QED BY <2>1, <2>2, <1>2
<1> QED BY <1>1, <1>2, <1>3

\* A multiple of n more makes no difference.
LEMMA ModAdd ==
  ASSUME NEW a \in Int, NEW n \in Nat \ {0}, NEW q \in Int
  PROVE  (a + n * q) % n = a % n
<1>1. a % n \in 0 .. n - 1 /\ a \div n \in Int /\ a = n * (a \div n) + (a % n)
  OBVIOUS
<1>2. q + (a \div n) \in Int /\ a + n * q \in Int
      /\ a + n * q = (q + (a \div n)) * n + (a % n)
  <2>1. n * q \in Int /\ (a \div n) * n = n * (a \div n) /\ q * n = n * q
    BY <1>1
  <2>2. (q + (a \div n)) * n = q * n + (a \div n) * n
    BY <1>1
  <2> QED BY <1>1, <2>1, <2>2
<1> QED BY <1>1, <1>2, ModUnique

\* Multiples of n.
LEMMA MultipleAdd ==
  ASSUME NEW n \in Nat \ {0}, NEW a \in Int, NEW b \in Int, a % n = 0, b % n = 0
  PROVE  (a + b) % n = 0
<1>1. PICK q \in Int : q = b \div n
  OBVIOUS
<1>2. b = n * q
  BY <1>1
<1> QED BY <1>2, ModAdd

LEMMA MultipleBelow ==
  ASSUME NEW n \in Nat \ {0}, NEW a \in Nat
  PROVE  /\ a - (a % n) \in 0 .. a /\ (a - (a % n)) % n = 0
         /\ a % n \in 0 .. n - 1
<1>1. a % n \in 0 .. n - 1 /\ a \div n \in Int /\ a = n * (a \div n) + (a % n)
  OBVIOUS
<1>2. a \div n \in Nat
  <2> SUFFICES ASSUME a \div n <= -1 PROVE FALSE
    BY <1>1
  <2>1. n * (a \div n) <= -n
    BY <1>1
  <2> QED BY <1>1, <2>1
<1>3. PICK q \in Nat : q = a \div n
  BY <1>2
<1>4. a - (a % n) = n * q /\ n * q \in Nat
  BY <1>1, <1>3
<1>5. (n * q) % n = 0
  BY <1>3, ModUnique
<1> QED BY <1>1, <1>4, <1>5

\* What RoundUp gives: a multiple that holds n bytes, or 0 when the sum wrapped.
LEMMA RoundUpIs ==
  ASSUME Mem!MemAssumption, NEW n \in 0 .. MemWord - 1
  PROVE  /\ Mem!RoundUp(n) \in 0 .. MemWord - 1 /\ Mem!RoundUp(n) % Align = 0
         /\ Mem!RoundUp(n) >= n \/ Mem!RoundUp(n) = 0
<1>0. Align \in Nat \ {0} /\ MemWord \in Nat \ {0}
  BY DEF Mem!MemAssumption
<1> DEFINE s == n + Align - 1
<1>1. s \in Nat
  BY <1>0
<1>2. PICK m \in 0 .. MemWord - 1 : m = s % MemWord
  BY <1>0, <1>1
<1>3. Mem!RoundUp(n) = m - (m % Align)
  BY <1>2 DEF Mem!RoundUp
<1>4. m - (m % Align) \in 0 .. m /\ (m - (m % Align)) % Align = 0 /\ m % Align \in 0 .. Align - 1
  BY <1>0, <1>2, MultipleBelow
<1>5. CASE s < MemWord
  <2>1. m = s
    <3>1. s = 0 * MemWord + s /\ s \in 0 .. MemWord - 1
      BY <1>0, <1>1, <1>5
    <3>2. s % MemWord = s
      BY <1>0, <1>1, <3>1, ModUnique
    <3> QED BY <1>2, <3>2
  <2> QED BY <1>0, <1>2, <1>3, <1>4, <2>1
<1>6. CASE s >= MemWord /\ Align <= MemWord
  <2>1. m = s - MemWord
    <3>1. s = 1 * MemWord + (s - MemWord) /\ s - MemWord \in 0 .. MemWord - 1
      BY <1>0, <1>1, <1>6
    <3>2. s % MemWord = s - MemWord
      BY <1>0, <1>1, <3>1, ModUnique
    <3> QED BY <1>2, <3>2
  <2>2. m % Align = m
    <3>1. m = 0 * Align + m /\ m \in 0 .. Align - 1
      BY <1>0, <2>1
    <3> QED BY <1>0, <3>1, ModUnique
  <2> QED BY <1>0, <1>2, <1>3, <1>4, <2>2
<1>7. Align <= MemWord
  <2> SUFFICES ASSUME Align > MemWord PROVE FALSE
    BY <1>0
  <2>1. MemWord = 0 * Align + MemWord /\ MemWord \in 0 .. Align - 1
    BY <1>0
  <2>2. MemWord % Align = MemWord
    BY <1>0, <2>1, ModUnique
  <2> QED BY <1>0, <2>2 DEF Mem!MemAssumption
<1> QED BY <1>1, <1>0, <1>2, <1>3, <1>4, <1>5, <1>6, <1>7

-----------------------------------------------------------------------------
(* The invariant                                                           *)

\* One thread allocates at a time.
OneThread == \A t, u \in MemThreads : t = u

MemTypeOK ==
  /\ idx \in Nat /\ idx <= MaxIdx /\ idx % Align = 0
  /\ mpc \in [MemThreads -> {"idle", "load", "limit", "expect", "exchange", "store"}]
  /\ msize \in [MemThreads -> Int \X Int]
  /\ cur \in [MemThreads -> Int]
  /\ seen \in [MemThreads -> Int]
  /\ got \subseteq MemThreads \X Nat \X Nat

\* What an allocation that is under way knows.
Under(t) ==
  /\ mpc[t] # "idle" => \E n \in 0 .. MemWord - 1 : msize[t] = <<n, Mem!RoundUp(n)>>
  /\ mpc[t] \in {"limit", "expect", "exchange", "store"} => cur[t] = idx
  /\ mpc[t] \in {"expect", "exchange", "store"} => Mem!Next0(t) < MaxIdx /\ Mem!Next0(t) > cur[t]
  /\ mpc[t] \in {"exchange", "store"} => seen[t] = idx

\* What was allocated is below the index.
Below ==
  \A a \in got : a[2] % Align = 0 /\ a[2] + a[3] <= idx

Apart ==
  \A a, b \in got : a # b => a[2] + a[3] <= b[2] \/ b[2] + b[3] <= a[2]

MemIInv == MemTypeOK /\ (\A t \in MemThreads : Under(t)) /\ Below /\ Apart

LEMMA MemInitIInv ==
  ASSUME Mem!MemAssumption, Mem!Init
  PROVE  MemIInv
<1>1. 0 % Align = 0
  <2>1. 0 = 0 * Align + 0 /\ 0 \in 0 .. Align - 1 /\ Align \in Nat \ {0}
    BY DEF Mem!MemAssumption
  <2> QED BY <2>1, ModUnique
<1>2. MemTypeOK
  BY <1>1 DEF Mem!Init, MemTypeOK, Mem!MemAssumption, Mem!Null
<1>3. (\A t \in MemThreads : Under(t)) /\ Below /\ Apart
  BY DEF Mem!Init, Under, Below, Apart
<1> QED BY <1>2, <1>3 DEF MemIInv

\* The index after an allocation: the sum, that did not wrap, of multiples of Align.
LEMMA NextIs ==
  ASSUME Mem!MemAssumption, MemIInv, NEW t \in MemThreads, cur[t] = idx,
         NEW n \in 0 .. MemWord - 1, msize[t] = <<n, Mem!RoundUp(n)>>,
         Mem!Next0(t) < MaxIdx, Mem!Next0(t) > cur[t]
  PROVE  /\ Mem!Next0(t) \in Nat /\ Mem!Next0(t) <= MaxIdx /\ Mem!Next0(t) % Align = 0
         /\ idx + n <= Mem!Next0(t)
<1>0. Align \in Nat \ {0} /\ MemWord \in Nat \ {0} /\ MaxIdx \in Nat /\ MaxIdx < MemWord
  BY DEF Mem!MemAssumption
<1>1. idx \in Nat /\ idx <= MaxIdx /\ idx % Align = 0
  BY DEF MemIInv, MemTypeOK
<1>2. PICK m \in 0 .. MemWord - 1 : m = Mem!RoundUp(n) /\ m % Align = 0 /\ (m >= n \/ m = 0)
  BY RoundUpIs
<1>3. Mem!Next0(t) = (idx + m) % MemWord
  BY <1>2 DEF Mem!Next0
<1>4. idx + m < MemWord
  <2> SUFFICES ASSUME idx + m >= MemWord PROVE FALSE
    BY <1>0, <1>1, <1>2
  <2>1. idx + m = 1 * MemWord + (idx + m - MemWord) /\ idx + m - MemWord \in 0 .. MemWord - 1
    BY <1>0, <1>1, <1>2
  <2>2. (idx + m) % MemWord = idx + m - MemWord
    BY <1>0, <1>1, <1>2, <2>1, ModUnique
  <2> QED BY <1>0, <1>1, <1>2, <1>3, <2>2
<1>5. Mem!Next0(t) = idx + m
  <2>1. PICK b \in 0 .. MemWord - 1 : b = idx + m
    BY <1>0, <1>1, <1>2, <1>4
  <2>2. b \in Int /\ 0 \in Int /\ b = 0 * MemWord + b
    BY <1>0, <2>1
  <2>3. b % MemWord = b
    BY <1>0, <2>2, ModUnique
  <2> QED BY <1>3, <2>1, <2>3
<1>6. (idx + m) % Align = 0
  BY <1>0, <1>1, <1>2, MultipleAdd
<1> QED BY <1>0, <1>1, <1>2, <1>5, <1>6

LEMMA MallocKeeps ==
  ASSUME Mem!MemAssumption, OneThread, MemIInv, NEW t \in MemThreads, NEW n \in 0 .. MemWord - 1,
         Mem!Malloc(t, n)
  PROVE  MemIInv'
<1>1. CASE n = 0
  <2>1. cur' = [cur EXCEPT ![t] = Mem!Null] /\ mpc[t] = "idle" /\ UNCHANGED <<mpc, msize, idx, seen, got>>
    BY <1>1 DEF Mem!Malloc
  <2>2. MemTypeOK'
    BY <2>1 DEF MemIInv, MemTypeOK, Mem!Null
  <2>3. Under(t)'
    BY <2>1 DEF Under
  <2>4. Below' /\ Apart'
    BY <2>1 DEF MemIInv, Below, Apart
  <2> QED BY <2>2, <2>3, <2>4 DEF MemIInv, OneThread
<1>2. CASE n # 0
  <2>1. /\ msize' = [msize EXCEPT ![t] = <<n, Mem!RoundUp(n)>>] /\ mpc' = [mpc EXCEPT ![t] = "load"]
        /\ UNCHANGED <<cur, idx, seen, got>>
    BY <1>2 DEF Mem!Malloc
  <2>2. MemTypeOK'
    <3>1. Mem!RoundUp(n) \in Int
      BY RoundUpIs
    <3> QED BY <2>1, <3>1 DEF MemIInv, MemTypeOK
  <2>3. Under(t)'
    BY <2>1 DEF MemIInv, MemTypeOK, Under
  <2>4. Below' /\ Apart'
    BY <2>1 DEF MemIInv, Below, Apart
  <2> QED BY <2>2, <2>3, <2>4 DEF MemIInv, OneThread
<1> QED BY <1>1, <1>2

LEMMA LoadKeeps ==
  ASSUME Mem!MemAssumption, OneThread, MemIInv, NEW t \in MemThreads, Mem!Load(t)
  PROVE  MemIInv'
<1>1. /\ mpc[t] = "load" /\ cur' = [cur EXCEPT ![t] = idx] /\ mpc' = [mpc EXCEPT ![t] = "limit"]
      /\ UNCHANGED <<idx, msize, seen, got>>
  BY DEF Mem!Load
<1>2. MemTypeOK'
  BY <1>1 DEF MemIInv, MemTypeOK
<1>3. Under(t)'
  BY <1>1 DEF MemIInv, MemTypeOK, Under
<1>4. Below' /\ Apart'
  BY <1>1 DEF MemIInv, Below, Apart
<1> QED BY <1>2, <1>3, <1>4 DEF MemIInv, OneThread

LEMMA LimitKeeps ==
  ASSUME Mem!MemAssumption, OneThread, MemIInv, NEW t \in MemThreads, Mem!Limit(t)
  PROVE  MemIInv'
<1>0. Below' /\ Apart'
  BY DEF Mem!Limit, MemIInv, Below, Apart
<1>1. CASE Mem!Next0(t) >= MaxIdx \/ Mem!Next0(t) <= cur[t]
  <2>1. /\ mpc' = [mpc EXCEPT ![t] = "idle"] /\ cur' = [cur EXCEPT ![t] = Mem!Null]
        /\ UNCHANGED <<idx, msize, seen, got>>
    BY <1>1 DEF Mem!Limit
  <2>2. MemTypeOK'
    BY <2>1 DEF MemIInv, MemTypeOK, Mem!Null
  <2>3. Under(t)'
    BY <2>1 DEF MemIInv, MemTypeOK, Under
  <2> QED BY <1>0, <2>2, <2>3 DEF MemIInv, OneThread
<1>2. CASE ~(Mem!Next0(t) >= MaxIdx \/ Mem!Next0(t) <= cur[t])
  <2>1. /\ mpc[t] = "limit" /\ mpc' = [mpc EXCEPT ![t] = "expect"]
        /\ UNCHANGED <<cur, idx, msize, seen, got>>
    BY <1>2 DEF Mem!Limit
  <2>2. MemTypeOK'
    BY <2>1 DEF MemIInv, MemTypeOK
  <2>3. Mem!Next0(t)' = Mem!Next0(t) /\ Mem!Next0(t) < MaxIdx /\ Mem!Next0(t) > cur[t]
    <3>1. Mem!Next0(t)' = Mem!Next0(t)
      BY <2>1 DEF Mem!Next0
    <3>2. cur[t] \in Nat /\ cur[t] = idx /\ \E n \in 0 .. MemWord - 1 : msize[t] = <<n, Mem!RoundUp(n)>>
      BY <2>1 DEF MemIInv, MemTypeOK, Under
    <3>3. Mem!Next0(t) \in Int
      BY <3>2, RoundUpIs DEF Mem!Next0, Mem!MemAssumption
    <3> QED BY <1>2, <3>1, <3>2, <3>3 DEF Mem!MemAssumption
  <2>4. Under(t)'
    BY <2>1, <2>3 DEF MemIInv, MemTypeOK, Under
  <2> QED BY <1>0, <2>2, <2>4 DEF MemIInv, OneThread
<1> QED BY <1>1, <1>2

LEMMA ExpectKeeps ==
  ASSUME Mem!MemAssumption, OneThread, MemIInv, NEW t \in MemThreads, Mem!Expect(t)
  PROVE  MemIInv'
<1>1. /\ mpc[t] = "expect" /\ seen' = [seen EXCEPT ![t] = idx]
      /\ mpc' = [mpc EXCEPT ![t] = "exchange"] /\ UNCHANGED <<idx, msize, cur, got>>
  BY DEF Mem!Expect
<1>2. MemTypeOK'
  BY <1>1 DEF MemIInv, MemTypeOK
<1>3. Under(t)'
  BY <1>1 DEF MemIInv, MemTypeOK, Under, Mem!Next0
<1>4. Below' /\ Apart'
  BY <1>1 DEF MemIInv, Below, Apart
<1> QED BY <1>2, <1>3, <1>4 DEF MemIInv, OneThread

LEMMA ExchangeKeeps ==
  ASSUME Mem!MemAssumption, OneThread, MemIInv, NEW t \in MemThreads, Mem!Exchange(t)
  PROVE  MemIInv'
<1>1. mpc[t] = "exchange" /\ UNCHANGED <<msize, cur>>
  BY DEF Mem!Exchange
<1>2. cur[t] = idx /\ Mem!Next0(t) < MaxIdx /\ Mem!Next0(t) > cur[t] /\ seen[t] = idx
  BY <1>1 DEF MemIInv, Under
<1>3. PICK n \in 0 .. MemWord - 1 : msize[t] = <<n, Mem!RoundUp(n)>>
  BY <1>1 DEF MemIInv, Under
<1>4. CASE /\ idx' = Mem!Next0(t) /\ got' = got \cup {<<t, cur[t], msize[t][1]>>}
           /\ mpc' = [mpc EXCEPT ![t] = "idle"] /\ UNCHANGED seen
  <2>1. /\ idx' \in Nat /\ idx' <= MaxIdx /\ idx' % Align = 0
        /\ idx + n <= idx' /\ idx \in Nat /\ idx % Align = 0
    BY <1>2, <1>3, <1>4, NextIs DEF MemIInv, MemTypeOK
  <2>2. got' = got \cup {<<t, idx, n>>}
    BY <1>2, <1>3, <1>4
  <2>3. MemTypeOK'
    BY <1>1, <1>4, <2>1, <2>2 DEF MemIInv, MemTypeOK
  <2>4. Under(t)'
    BY <1>4 DEF MemIInv, MemTypeOK, Under
  <2>5. \A a \in got : a[2] \in Nat /\ a[3] \in Nat /\ a[2] + a[3] <= idx /\ a[2] % Align = 0
    BY DEF MemIInv, MemTypeOK, Below
  <2>6. Below'
    BY <2>1, <2>2, <2>5 DEF Below
  <2>7. Apart'
    BY <2>1, <2>2, <2>5 DEF MemIInv, Apart
  <2> QED BY <2>3, <2>4, <2>6, <2>7 DEF MemIInv, OneThread
<1>5. CASE /\ seen' = [seen EXCEPT ![t] = idx] /\ mpc' = [mpc EXCEPT ![t] = "store"]
           /\ UNCHANGED <<idx, got>>
  <2>1. MemTypeOK'
    BY <1>1, <1>5 DEF MemIInv, MemTypeOK
  <2>2. Under(t)'
    BY <1>1, <1>2, <1>5 DEF MemIInv, MemTypeOK, Under, Mem!Next0
  <2>3. Below' /\ Apart'
    BY <1>5 DEF MemIInv, Below, Apart
  <2> QED BY <2>1, <2>2, <2>3 DEF MemIInv, OneThread
<1> QED BY <1>4, <1>5 DEF Mem!Exchange

LEMMA StoreKeeps ==
  ASSUME Mem!MemAssumption, OneThread, MemIInv, NEW t \in MemThreads, Mem!Store(t)
  PROVE  MemIInv'
<1>1. /\ mpc[t] = "store" /\ idx' = seen[t] /\ mpc' = [mpc EXCEPT ![t] = "load"]
      /\ UNCHANGED <<msize, cur, seen, got>>
  BY DEF Mem!Store
<1>2. idx' = idx
  BY <1>1 DEF MemIInv, Under
<1>3. MemTypeOK'
  BY <1>1, <1>2 DEF MemIInv, MemTypeOK
<1>4. Under(t)'
  BY <1>1, <1>2 DEF MemIInv, MemTypeOK, Under
<1>5. Below' /\ Apart'
  BY <1>1, <1>2 DEF MemIInv, Below, Apart
<1> QED BY <1>3, <1>4, <1>5 DEF MemIInv, OneThread

LEMMA MemStutterKeeps ==
  ASSUME MemIInv, UNCHANGED Mem!mmvars
  PROVE  MemIInv'
<1>1. MemTypeOK'
  BY DEF MemIInv, MemTypeOK, Mem!mmvars
<1>2. \A t \in MemThreads : Under(t)'
  BY DEF MemIInv, Under, Mem!Next0, Mem!mmvars
<1>3. Below' /\ Apart'
  BY DEF MemIInv, Below, Apart, Mem!mmvars
<1> QED BY <1>1, <1>2, <1>3 DEF MemIInv

\* No two calls of ac_malloc return memory in common, and what they return is aligned and
\* in the array, also where the sum or the product of a size wraps.
THEOREM AllocationsAreApart ==
  ASSUME Mem!MemAssumption, OneThread
  PROVE  Mem!Spec => []AllocatedApart
<1>1. Mem!Init => MemIInv
  BY MemInitIInv
<1>2. MemIInv /\ [Mem!Next]_(Mem!mmvars) => MemIInv'
  <2> SUFFICES ASSUME MemIInv, [Mem!Next]_(Mem!mmvars) PROVE MemIInv'
    OBVIOUS
  <2>1. \A c \in Counts, n \in Sizes : (c * n) % MemWord \in 0 .. MemWord - 1 /\ n \in 0 .. MemWord - 1
    <3> SUFFICES ASSUME NEW c \in Counts, NEW n \in Sizes
                 PROVE  (c * n) % MemWord \in 0 .. MemWord - 1 /\ n \in 0 .. MemWord - 1
      OBVIOUS
    <3>1. c \in Nat /\ n \in Nat /\ n \in 0 .. MemWord - 1 /\ MemWord \in Nat \ {0}
      BY DEF Mem!MemAssumption
    <3>2. c * n \in Nat
      BY <3>1
    <3> QED BY <3>1, <3>2
  <2>2. ASSUME NEW t \in MemThreads, NEW n \in Sizes, Mem!Malloc(t, n) PROVE MemIInv'
    BY <2>2, MallocKeeps DEF Mem!MemAssumption
  <2>3. ASSUME NEW t \in MemThreads, NEW n \in Sizes, NEW c \in Counts, Mem!Calloc(t, c, n) PROVE MemIInv'
    BY <2>1, <2>3, MallocKeeps DEF Mem!Calloc
  <2>4. ASSUME NEW t \in MemThreads,
               Mem!Load(t) \/ Mem!Limit(t) \/ Mem!Expect(t) \/ Mem!Exchange(t) \/ Mem!Store(t)
        PROVE  MemIInv'
    BY <2>4, LoadKeeps, LimitKeeps, ExpectKeeps, ExchangeKeeps, StoreKeeps
  <2>5. CASE UNCHANGED Mem!mmvars
    BY <2>5, MemStutterKeeps
  <2> QED BY <2>2, <2>3, <2>4, <2>5 DEF Mem!Next
<1>3. MemIInv => AllocatedApart
  <2> SUFFICES ASSUME MemIInv PROVE AllocatedApart
    OBVIOUS
  <2>1. \A a \in got : a[2] \in Nat /\ a[3] \in Nat
    BY DEF MemIInv, MemTypeOK
  <2>2. idx \in Nat /\ idx <= MaxIdx
    BY DEF MemIInv, MemTypeOK
  <2>3. \A a \in got : a[2] % Align = 0 /\ a[2] + a[3] <= MaxIdx
    BY <2>1, <2>2 DEF MemIInv, Below, Mem!MemAssumption
  <2> QED BY <2>3 DEF MemIInv, Apart, AllocatedApart, Mem!AllocatedApart
<1> QED BY <1>1, <1>2, <1>3, PTL DEF Mem!Spec

-----------------------------------------------------------------------------
(* The switch of contexts on x86, for any threads.  What a thread needs to go *)
(* on is on its stack while it does not run: OthersAre says so of the threads *)
(* that wait, OnIs of the one that runs, wherever it is on its way.        *)

\* Where a thread may be interrupted, to be resumed there; what is in registers and on
\* stacks.
Points == {"run", "yield", "frame", "save", "cli"}
Words ==
  (Context!Threads \X Nat \X Context!Regs) \cup Context!Threads \cup Nat \cup BOOLEAN
    \cup Points \cup {"ss", "cs", "pad"}

Views == [n : Nat, known : SUBSET Context!Regs, flag : BOOLEAN, depth : Nat]

\* Where a register is among the ones that are popped.
PopIndex(r) == CHOOSE i \in 1 .. 15 : Context!Popped[i] = r

\* The registers that were pushed up to the k-th word of the stack s.
SavedRegs(s, k) == [r \in Context!Regs |-> s[k - PopIndex(r) + 1]]

\* The values that thread t's code, whose view is v, expects in its registers.
Finds(v, t, g) == \A r \in v.known : g[r] = <<t, v.n, r>>

\* The frame that thread_yield pushed on the stack s: it returns to the thread's code.
Pushes(v, s) == s[v.depth + 2] = v.depth /\ s[v.depth + 3] = v.flag /\ s[v.depth + 5] = "run"

\* Thread t, which goes on at r with the registers g, the flag f and the stack s, comes
\* to its code with what its view v tells.
Good(v, t, r, g, f, s) ==
  /\ r = "run" => Finds(v, t, g) /\ f = v.flag /\ Len(s) = v.depth
  /\ r \in {"yield", "frame", "save"} =>
       Finds(v, t, g) /\ f = v.flag /\ v.known \cap Context!Scratch = {}
  /\ r = "yield" => Len(s) = v.depth + 1 /\ s[v.depth + 1] = "run"
  /\ r = "frame" => Len(s) = v.depth /\ g["rcx"] = "run"
  /\ r = "save" => Len(s) = v.depth + 5 /\ Pushes(v, s)
  /\ r = "cli" => /\ Len(s) >= v.depth + 20 /\ Pushes(v, s) /\ g["rbp"] = v.depth + 20
                  /\ Finds(v, t, SavedRegs(s, v.depth + 20))

\* The iret frame that ends at the k-th word of the stack s, for the registers g.
Returns(v, t, g, s, k) ==
  /\ k \in Nat /\ 5 <= k /\ k <= Len(s)
  /\ s[k - 3] \in Nat /\ s[k - 3] <= k - 5 /\ s[k - 2] \in BOOLEAN /\ s[k] \in Points
  /\ Good(v, t, s[k], g, s[k - 2], SubSeq(s, 1, s[k - 3]))

\* A thread is resumed with the stack s up to its k-th word.
Resumable(v, t, s, k) ==
  /\ k \in Nat /\ 20 <= k /\ k <= Len(s)
  /\ Returns(v, t, SavedRegs(s, k), s, k - 15)

ContextTypeOK ==
  /\ regs \in [Context!Regs -> Words]
  /\ rip \in Points \cup {"isr", "schedule", "switch", "restore"}
  /\ flag \in BOOLEAN
  /\ on \in Context!Threads /\ pready \in Context!Threads
  /\ stack \in [Context!Threads -> Seq(Words)]
  /\ sp \in [Context!Threads -> Nat]
  /\ view \in [Context!Threads -> Views]

\* The thread that runs, and its way to the one that is to run.
OnIs ==
  /\ rip \in Points => pready = on /\ Good(view[on], on, rip, regs, flag, stack[on])
  /\ rip \notin Points => flag = FALSE
  /\ rip = "isr" => pready = on /\ Returns(view[on], on, regs, stack[on], Len(stack[on]))
  /\ rip = "schedule" => pready = on /\ Resumable(view[on], on, stack[on], regs["rbp"])
  /\ rip = "switch" => /\ regs["rax"] = pready /\ sp[pready] # 0
                       /\ Resumable(view[on], on, stack[on], sp[on])
  /\ rip = "restore" => pready = on /\ Resumable(view[on], on, stack[on], Len(stack[on]))

\* The threads that do not run: they can be resumed, or did not start yet.
OthersAre ==
  \A t \in Context!Threads \ {on} :
    IF sp[t] # 0 THEN Resumable(view[t], t, stack[t], sp[t])
    ELSE view[t].n = 0 /\ view[t].flag = TRUE /\ view[t].depth = 0

ContextIInv == ContextTypeOK /\ OnIs /\ OthersAre

-----------------------------------------------------------------------------
(* Registers and stacks                                                    *)

LEMMA RegsAre ==
  /\ Context!Regs = {"rbp", "r15", "r14", "r13", "r12", "r11", "r10", "r9", "r8",
                     "rdi", "rsi", "rbx", "rcx", "rdx", "rax"}
  /\ DOMAIN Context!Pushed = 1 .. 15 /\ Len(Context!Pushed) = 15 /\ Len(Context!Popped) = 15
  /\ \A i \in 1 .. 15 : Context!Pushed[i] \in Context!Regs
<1>1. DOMAIN Context!Pushed = 1 .. 15 /\ Len(Context!Pushed) = 15 /\ Len(Context!Popped) = 15
  BY DEF Context!Pushed, Context!Popped
<1>2. Context!Regs = {Context!Pushed[i] : i \in 1 .. 15}
  BY <1>1 DEF Context!Regs, Context!ToSet
<1>3. 1 .. 15 = {1, 2, 3, 4, 5, 6, 7, 8, 9, 10, 11, 12, 13, 14, 15}
  OBVIOUS
<1>4. Context!Regs =
        {Context!Pushed[1], Context!Pushed[2], Context!Pushed[3], Context!Pushed[4],
         Context!Pushed[5], Context!Pushed[6], Context!Pushed[7], Context!Pushed[8],
         Context!Pushed[9], Context!Pushed[10], Context!Pushed[11], Context!Pushed[12],
         Context!Pushed[13], Context!Pushed[14], Context!Pushed[15]}
  BY <1>2, <1>3
<1> QED BY <1>1, <1>2, <1>4 DEF Context!Pushed

\* The registers are popped in the opposite order.
LEMMA PopIs ==
  ASSUME NEW r \in Context!Regs
  PROVE  PopIndex(r) \in 1 .. 15 /\ Context!Popped[PopIndex(r)] = r /\ Context!Pushed[16 - PopIndex(r)] = r
<1>1. \E i \in 1 .. 15 : Context!Popped[i] = r
  <2>1. PICK j \in 1 .. 15 : Context!Pushed[j] = r
    BY RegsAre DEF Context!Regs, Context!ToSet
  <2>2. Context!Popped[16 - j] = Context!Pushed[j] /\ 16 - j \in 1 .. 15
    BY DEF Context!Pushed, Context!Popped
  <2> QED BY <2>1, <2>2
<1>2. PopIndex(r) \in 1 .. 15 /\ Context!Popped[PopIndex(r)] = r
  BY <1>1 DEF PopIndex
<1>3. PICK i \in 1 .. 15 : i = PopIndex(r)
  BY <1>2
<1>4. Context!Pushed[16 - i] = Context!Popped[i]
  BY DEF Context!Pushed, Context!Popped
<1> QED BY <1>2, <1>3, <1>4

\* What was pushed is what is popped.
LEMMA SavedIs ==
  ASSUME NEW g \in [Context!Regs -> Words], NEW s \in Seq(Words), NEW k \in Nat, 15 <= k, k <= Len(s),
         \A j \in 1 .. 15 : s[k - 15 + j] = g[Context!Pushed[j]]
  PROVE  SavedRegs(s, k) = g
<1>1. \A r \in Context!Regs : s[k - PopIndex(r) + 1] = g[r]
  <2> SUFFICES ASSUME NEW r \in Context!Regs PROVE s[k - PopIndex(r) + 1] = g[r]
    OBVIOUS
  <2>1. PICK i \in 1 .. 15 : i = PopIndex(r) /\ Context!Pushed[16 - i] = r
    BY PopIs
  <2>2. 16 - i \in 1 .. 15 /\ k - 15 + (16 - i) = k - i + 1
    OBVIOUS
  <2>3. s[k - 15 + (16 - i)] = g[r]
    BY <2>1, <2>2
  <2> QED BY <2>1, <2>2, <2>3
<1> QED BY <1>1 DEF SavedRegs

\* Stacks that agree up to the k-th word hold the same registers there.
LEMMA SavedAgree ==
  ASSUME NEW s, NEW u, NEW k \in Nat, 15 <= k, \A i \in 1 .. k : s[i] = u[i]
  PROVE  SavedRegs(s, k) = SavedRegs(u, k)
<1>1. \A r \in Context!Regs : s[k - PopIndex(r) + 1] = u[k - PopIndex(r) + 1]
  <2> SUFFICES ASSUME NEW r \in Context!Regs PROVE s[k - PopIndex(r) + 1] = u[k - PopIndex(r) + 1]
    OBVIOUS
  <2>1. PICK i \in 1 .. 15 : i = PopIndex(r)
    BY PopIs
  <2>2. k - i + 1 \in 1 .. k
    OBVIOUS
  <2> QED BY <2>1, <2>2
<1> QED BY <1>1 DEF SavedRegs

LEMMA PrefixAgree ==
  ASSUME NEW s \in Seq(Words), NEW u \in Seq(Words), NEW d \in Nat, d <= Len(s), d <= Len(u),
         \A i \in 1 .. d : s[i] = u[i]
  PROVE  SubSeq(s, 1, d) = SubSeq(u, 1, d)
<1>1. SubSeq(s, 1, d) \in Seq(Words) /\ Len(SubSeq(s, 1, d)) = d
      /\ \A i \in 1 .. d : SubSeq(s, 1, d)[i] = s[i]
  OBVIOUS
<1>2. SubSeq(u, 1, d) \in Seq(Words) /\ Len(SubSeq(u, 1, d)) = d
      /\ \A i \in 1 .. d : SubSeq(u, 1, d)[i] = u[i]
  OBVIOUS
<1> HIDE DEF Words
<1> QED BY <1>1, <1>2

\* A frame is the same on stacks that agree up to its end.
LEMMA ReturnsAgree ==
  ASSUME NEW v, NEW t, NEW g, NEW s \in Seq(Words), NEW u \in Seq(Words), NEW k,
         Returns(v, t, g, s, k), k <= Len(u), \A i \in 1 .. k : s[i] = u[i]
  PROVE  Returns(v, t, g, u, k)
<1>1. k \in Nat /\ 5 <= k /\ k <= Len(s) /\ s[k - 3] \in Nat /\ s[k - 3] <= k - 5
  BY DEF Returns
<1>2. s[k - 3] = u[k - 3] /\ s[k - 2] = u[k - 2] /\ s[k] = u[k]
  BY <1>1
<1>3. PICK d \in Nat : d = s[k - 3] /\ d <= k - 5
  BY <1>1
<1>4. SubSeq(s, 1, d) = SubSeq(u, 1, d)
  BY <1>1, <1>3, PrefixAgree
<1> QED BY <1>1, <1>2, <1>3, <1>4 DEF Returns

LEMMA ResumableAgree ==
  ASSUME NEW v, NEW t, NEW s \in Seq(Words), NEW u \in Seq(Words), NEW k,
         Resumable(v, t, s, k), k <= Len(u), \A i \in 1 .. k : s[i] = u[i]
  PROVE  Resumable(v, t, u, k)
<1>1. k \in Nat /\ 20 <= k
  BY DEF Resumable
<1>2. SavedRegs(s, k) = SavedRegs(u, k)
  BY <1>1, SavedAgree
<1>3. Returns(v, t, SavedRegs(u, k), u, k - 15)
  BY <1>1, <1>2, ReturnsAgree DEF Resumable
<1> QED BY <1>1, <1>3 DEF Resumable

\* A frame and, on top of it, the registers: the thread can be resumed.
LEMMA SaveResumes ==
  ASSUME NEW v, NEW t, NEW g \in [Context!Regs -> Words], NEW s \in Seq(Words), NEW u \in Seq(Words),
         NEW k, Returns(v, t, g, s, k), k + 15 <= Len(u), \A i \in 1 .. k : s[i] = u[i],
         \A j \in 1 .. 15 : u[k + j] = g[Context!Pushed[j]]
  PROVE  Resumable(v, t, u, k + 15)
<1>1. k \in Nat /\ 5 <= k
  BY DEF Returns
<1>2. PICK m \in Nat : m = k + 15 /\ m - 15 = k
  BY <1>1
<1>3. SavedRegs(u, m) = g
  <2>1. 15 <= m /\ m <= Len(u)
    BY <1>1, <1>2
  <2>2. \A j \in 1 .. 15 : u[m - 15 + j] = g[Context!Pushed[j]]
    BY <1>2
  <2> QED BY <2>1, <2>2, SavedIs
<1>4. Returns(v, t, g, u, k)
  <2>1. k <= Len(u)
    BY <1>1
  <2> QED BY <2>1, ReturnsAgree
<1> QED BY <1>1, <1>2, <1>3, <1>4 DEF Resumable

LEMMA OnTop ==
  ASSUME NEW s \in Seq(Words), NEW a \in Seq(Words)
  PROVE  /\ s \o a \in Seq(Words) /\ Len(s \o a) = Len(s) + Len(a)
         /\ \A i \in 1 .. Len(s) : (s \o a)[i] = s[i]
         /\ \A j \in 1 .. Len(a) : (s \o a)[Len(s) + j] = a[j]
<1> HIDE DEF Words
<1> QED OBVIOUS

LEMMA WordsAre ==
  /\ Nat \subseteq Words /\ BOOLEAN \subseteq Words /\ Context!Threads \subseteq Words
  /\ "ss" \in Words /\ "cs" \in Words /\ "pad" \in Words
  /\ \A r \in Points : r \in Words
  /\ \A t \in Context!Threads, n \in Nat, r \in Context!Regs : <<t, n, r>> \in Words
  BY DEF Words, Points

LEMMA PaddingIs ==
  ASSUME NEW n \in 0 .. 1
  PROVE  Context!Padding(n) \in Seq(Words) /\ Len(Context!Padding(n)) = n
<1>1. \A i \in 1 .. n : "pad" \in Words
  BY WordsAre
<1> HIDE DEF Words
<1> QED BY <1>1 DEF Context!Padding

LEMMA FiveWords ==
  ASSUME NEW a \in Words, NEW b \in Words, NEW c \in Words, NEW d \in Words, NEW e \in Words
  PROVE  <<a, b, c, d, e>> \in Seq(Words) /\ Len(<<a, b, c, d, e>>) = 5
<1> HIDE DEF Words
<1> QED OBVIOUS

\* The five words of an iret frame.
LEMMA IretIs ==
  ASSUME NEW d \in Nat, flag \in BOOLEAN, NEW r \in Words
  PROVE  /\ Context!IretFrame(d, r) \in Seq(Words) /\ Len(Context!IretFrame(d, r)) = 5
         /\ Context!IretFrame(d, r)[2] = d /\ Context!IretFrame(d, r)[3] = flag
              /\ Context!IretFrame(d, r)[5] = r
<1>1. d \in Words /\ flag \in Words /\ "ss" \in Words /\ "cs" \in Words
  BY WordsAre
<1> HIDE DEF Words
<1> QED BY <1>1 DEF Context!IretFrame

\* The registers that Save pushes.
LEMMA SavedWords ==
  ASSUME NEW g \in [Context!Regs -> Words], NEW w,
         w = [i \in DOMAIN Context!Pushed |-> g[Context!Pushed[i]]]
  PROVE  w \in Seq(Words) /\ Len(w) = 15 /\ \A j \in 1 .. 15 : w[j] = g[Context!Pushed[j]]
<1>1. DOMAIN w = 1 .. 15 /\ \A j \in 1 .. 15 : w[j] = g[Context!Pushed[j]] /\ g[Context!Pushed[j]] \in Words
  BY RegsAre
<1>2. w = [i \in 1 .. 15 |-> g[Context!Pushed[i]]]
  BY RegsAre
<1> HIDE DEF Words
<1> QED BY <1>1, <1>2

-----------------------------------------------------------------------------
(* The steps                                                               *)

\* The other threads are as they were.
Rest == \A t \in Context!Threads \ {on} : view'[t] = view[t] /\ stack'[t] = stack[t] /\ sp'[t] = sp[t]

LEMMA RestStay ==
  ASSUME OthersAre, on' = on, Rest
  PROVE  OthersAre'
  BY DEF OthersAre, Rest

LEMMA ContextInitIInv ==
  ASSUME Context!ContextAssumption, Context!Init
  PROVE  ContextIInv
<1>1. Main \in Context!Threads
  BY DEF Context!Threads
<1>2. /\ DOMAIN regs = Context!Regs /\ \A r \in Context!Regs : regs[r] = <<Main, 0, r>>
      /\ regs \in [Context!Regs -> Words]
  <2>1. \A r \in Context!Regs : <<Main, 0, r>> \in Words
    BY <1>1, WordsAre
  <2>2. regs = [r \in Context!Regs |-> <<Main, 0, r>>]
    BY DEF Context!Init, Context!Computed
  <2> HIDE DEF Words
  <2> QED BY <2>1, <2>2
<1>3. \A t \in Context!Threads : stack[t] = <<>> /\ Len(stack[t]) = 0 /\ sp[t] = 0
  BY DEF Context!Init
<1>4. \A t \in Context!Threads : /\ view[t] = [n |-> 0, known |-> Context!Regs, flag |-> TRUE, depth |-> 0]
                                 /\ view[t] \in Views
  BY DEF Context!Init, Views
<1>5. ContextTypeOK
  <2>1. rip = "run" /\ flag = TRUE /\ on = Main /\ pready = Main
    BY DEF Context!Init
  <2>2. stack \in [Context!Threads -> Seq(Words)]
    BY DEF Context!Init
  <2>3. sp \in [Context!Threads -> Nat] /\ view \in [Context!Threads -> Views]
    BY <1>3, <1>4 DEF Context!Init
  <2> QED BY <1>1, <1>2, <2>1, <2>2, <2>3, Zenon DEF ContextTypeOK, Points
<1>6. OnIs
  <2>1. Finds(view[Main], Main, regs)
    BY <1>1, <1>2, <1>4 DEF Finds
  <2> QED BY <1>1, <1>3, <1>4, <2>1 DEF Context!Init, OnIs, Good, Points
<1>7. OthersAre
  BY <1>3, <1>4 DEF OthersAre
<1> QED BY <1>5, <1>6, <1>7 DEF ContextIInv

LEMMA ComputeKeeps ==
  ASSUME ContextIInv, NEW f \in BOOLEAN, Context!Compute(f)
  PROVE  ContextIInv'
<1> DEFINE n == view[on].n + 1
<1>1. /\ rip = "run" /\ regs' = Context!Computed(on, n) /\ flag' = f
      /\ UNCHANGED <<rip, on, stack, sp, pready>>
  BY DEF Context!Compute
<1>2. on \in Context!Threads /\ view[on] \in Views /\ n \in Nat
  BY DEF ContextIInv, ContextTypeOK, Views
<1>3. /\ view'[on] = [view[on] EXCEPT !.n = n, !.known = Context!Regs, !.flag = f]
      /\ \A t \in Context!Threads \ {on} : view'[t] = view[t]
      /\ DOMAIN view' = Context!Threads
      /\ view' = [t \in Context!Threads |-> view'[t]]
  BY <1>2 DEF Context!Compute, ContextIInv, ContextTypeOK
<1>4. /\ view'[on].n = n /\ view'[on].known = Context!Regs /\ view'[on].flag = f
      /\ view'[on].depth = view[on].depth
      /\ view'[on] \in Views
  BY <1>2, <1>3 DEF Views
<1>5. regs' \in [Context!Regs -> Words] /\ \A r \in Context!Regs : regs'[r] = <<on, n, r>>
  <2>1. \A r \in Context!Regs : <<on, n, r>> \in Words
    BY <1>2, WordsAre
  <2> HIDE DEF Words, n
  <2> QED BY <1>1, <2>1 DEF Context!Computed
<1> HIDE DEF n
<1>6. ContextTypeOK'
  <2>1. view' \in [Context!Threads -> Views]
    BY <1>3, <1>4 DEF ContextIInv, ContextTypeOK
  <2> QED BY <1>1, <1>5, <2>1 DEF ContextIInv, ContextTypeOK
<1>7. Good(view'[on], on, "run", regs', f, stack[on])
  <2>1. Len(stack[on]) = view[on].depth
    BY <1>1 DEF ContextIInv, OnIs, Good, Points
  <2>2. Finds(view'[on], on, regs')
    BY <1>4, <1>5 DEF Finds
  <2> QED BY <1>4, <2>1, <2>2 DEF Good
<1>8. OnIs'
  BY <1>1, <1>7 DEF ContextIInv, OnIs, Points
<1>9. OthersAre'
  BY <1>1, <1>3, RestStay DEF ContextIInv, Rest
<1> QED BY <1>6, <1>8, <1>9 DEF ContextIInv

LEMMA InitStackFrameKeeps ==
  ASSUME ContextIInv, NEW t \in Others, Context!InitStackFrame(t)
  PROVE  ContextIInv'
<1> DEFINE w == [i \in DOMAIN Context!Pushed |-> <<t, 0, Context!Pushed[i]>>]
           g == [r \in Context!Regs |-> <<t, 0, r>>]
           h == <<"ss", 0, TRUE, "cs", "run">>
           s == h \o w
<1>0. t \in Context!Threads
  BY DEF Context!Threads
<1>1. /\ rip = "run" /\ sp[t] = 0 /\ t # on
      /\ UNCHANGED <<regs, rip, flag, on, pready>>
  BY DEF Context!InitStackFrame
<1>2. stack' = [stack EXCEPT ![t] = s]
  BY DEF Context!InitStackFrame
<1>3. g \in [Context!Regs -> Words]
  <2>1. \A r \in Context!Regs : <<t, 0, r>> \in Words
    BY <1>0, WordsAre
  <2> HIDE DEF Words
  <2> QED BY <2>1
<1>4. w \in Seq(Words) /\ Len(w) = 15 /\ \A j \in 1 .. 15 : w[j] = g[Context!Pushed[j]]
  <2>1. w = [i \in DOMAIN Context!Pushed |-> g[Context!Pushed[i]]]
    BY RegsAre
  <2> HIDE DEF w, g
  <2> QED BY <1>3, <2>1, SavedWords
<1>5. h \in Seq(Words) /\ Len(h) = 5
  <2>1. "ss" \in Words /\ "cs" \in Words /\ "run" \in Words /\ 0 \in Words /\ TRUE \in Words
    BY WordsAre DEF Points
  <2> HIDE DEF Words
  <2> QED BY <2>1, FiveWords, Zenon
<1>6. h[2] = 0 /\ h[3] = TRUE /\ h[5] = "run"
  OBVIOUS
<1> HIDE DEF w, h
<1>7. /\ s \in Seq(Words) /\ Len(s) = 20 /\ s[2] = 0 /\ s[3] = TRUE /\ s[5] = "run"
      /\ \A j \in 1 .. 15 : s[5 + j] = g[Context!Pushed[j]]
  <2>1. /\ s \in Seq(Words) /\ Len(s) = Len(h) + Len(w)
        /\ \A i \in 1 .. Len(h) : s[i] = h[i]
        /\ \A j \in 1 .. Len(w) : s[Len(h) + j] = w[j]
    BY <1>4, <1>5, OnTop
  <2> HIDE DEF s
  <2> QED BY <1>4, <1>5, <1>6, <2>1
<1> HIDE DEF s, g
<1>8. /\ stack' \in [Context!Threads -> Seq(Words)] /\ stack'[t] = s
      /\ \A u \in Context!Threads \ {t} : stack'[u] = stack[u]
  BY <1>0, <1>2, <1>7 DEF ContextIInv, ContextTypeOK
<1>9. /\ sp' \in [Context!Threads -> Nat] /\ sp'[t] = 20
      /\ \A u \in Context!Threads \ {t} : sp'[u] = sp[u]
  <2>1. sp' = [sp EXCEPT ![t] = Len(stack'[t])]
    BY DEF Context!InitStackFrame
  <2>2. Len(stack'[t]) = 20
    BY <1>7, <1>8
  <2> QED BY <1>0, <2>1, <2>2 DEF ContextIInv, ContextTypeOK
<1>10. view[t] \in Views /\ view[t].n = 0 /\ view[t].flag = TRUE /\ view[t].depth = 0
  BY <1>0, <1>1 DEF ContextIInv, ContextTypeOK, OthersAre
<1>11. /\ view' \in [Context!Threads -> Views]
       /\ view'[t].n = 0 /\ view'[t].flag = TRUE /\ view'[t].depth = 0
       /\ view'[t].known = {"rdi"}
       /\ \A u \in Context!Threads \ {t} : view'[u] = view[u]
  <2>1. {"rdi"} \subseteq Context!Regs
    BY RegsAre
  <2>2. [view[t] EXCEPT !.known = {"rdi"}] \in Views
    BY <1>10, <2>1 DEF Views
  <2>3. view' = [view EXCEPT ![t] = [view[t] EXCEPT !.known = {"rdi"}]]
    BY DEF Context!InitStackFrame
  <2> QED BY <1>0, <1>10, <2>2, <2>3 DEF ContextIInv, ContextTypeOK, Views
<1>12. ContextTypeOK'
  BY <1>1, <1>8, <1>9, <1>11 DEF ContextIInv, ContextTypeOK
<1>13. OnIs'
  <2>1. on \in Context!Threads \ {t}
    BY <1>1 DEF ContextIInv, ContextTypeOK
  <2> QED BY <1>1, <1>8, <1>9, <1>11, <2>1 DEF ContextIInv, OnIs, Points
<1>14. Resumable(view'[t], t, stack'[t], 20)
  <2> DEFINE v == view'[t]
  <2>1. Good(v, t, "run", g, TRUE, SubSeq(s, 1, 0))
    <3>1. Len(SubSeq(s, 1, 0)) = 0
      BY <1>7
    <3>2. Finds(v, t, g)
      BY <1>11, RegsAre DEF Finds, g
    <3> QED BY <1>11, <3>1, <3>2 DEF Good
  <2>2. Returns(v, t, g, s, 5)
    <3> DEFINE f == s[3]
    <3>1. f \in BOOLEAN /\ s[2] = 0 /\ s[5] = "run" /\ Len(s) = 20
      BY <1>7
    <3>2. Good(v, t, "run", g, f, SubSeq(s, 1, 0))
      BY <1>7, <2>1, Zenon
    <3>3. Good(v, t, s[5], g, f, SubSeq(s, 1, s[2]))
      BY <3>1, <3>2, Zenon
    <3>4. 5 - 3 = 2 /\ 5 - 2 = 3 /\ 5 - 5 = 0
      OBVIOUS
    <3> HIDE DEF v
    <3> QED BY <3>1, <3>3, <3>4 DEF Returns, Points
  <2> HIDE DEF v
  <2>3. Resumable(v, t, s, 20)
    <3>1. PICK k \in Nat : k = 5
      OBVIOUS
    <3>2. k + 15 = 20 /\ k + 15 <= Len(s)
      BY <1>7, <3>1
    <3>3. Resumable(v, t, s, k + 15)
      BY <1>3, <1>7, <2>2, <3>1, <3>2, SaveResumes
    <3> QED BY <3>2, <3>3
  <2> QED BY <1>8, <2>3 DEF v
<1>15. OthersAre'
  BY SMTT(30), <1>1, <1>8, <1>9, <1>11, <1>14 DEF ContextIInv, OthersAre
<1> QED BY <1>12, <1>13, <1>15 DEF ContextIInv

\* The stack of the thread that runs changes, and no other.
LEMMA StackOn ==
  ASSUME ContextTypeOK, NEW s \in Seq(Words), stack' = [stack EXCEPT ![on] = s]
  PROVE  /\ stack' \in [Context!Threads -> Seq(Words)] /\ stack'[on] = s
         /\ \A t \in Context!Threads \ {on} : stack'[t] = stack[t]
         /\ stack[on] \in Seq(Words) /\ on \in Context!Threads
  BY DEF ContextTypeOK

\* A register changes.
LEMMA RegIs ==
  ASSUME ContextTypeOK, NEW r \in Context!Regs, NEW w \in Words, NEW g, g = [regs EXCEPT ![r] = w]
  PROVE  g \in [Context!Regs -> Words] /\ g[r] = w /\ \A q \in Context!Regs \ {r} : g[q] = regs[q]
  BY DEF ContextTypeOK

LEMMA ViewIs ==
  ASSUME ContextTypeOK
  PROVE  /\ view[on] \in Views /\ view[on].known \subseteq Context!Regs
         /\ view[on].depth \in Nat /\ view[on].flag \in BOOLEAN
  BY DEF ContextTypeOK, Views

LEMMA YieldKeeps ==
  ASSUME ContextIInv, Context!Yield
  PROVE  ContextIInv'
<1> DEFINE s == stack[on]
           u == Append(s, "run")
           v == view[on]
           x == view'[on]
<1>1. rip = "run" /\ rip' = "yield" /\ UNCHANGED <<regs, flag, on, sp, pready>>
  BY DEF Context!Yield
<1>2. ContextTypeOK /\ Good(v, on, "run", regs, flag, s) /\ pready = on
  BY <1>1 DEF ContextIInv, OnIs, Points
<1>3. s \in Seq(Words) /\ Len(s) = v.depth /\ v \in Views
  BY <1>2, ViewIs DEF ContextTypeOK, Good
<1>4. u \in Seq(Words) /\ Len(u) = v.depth + 1 /\ u[v.depth + 1] = "run"
  <2>1. "run" \in Words
    BY DEF Words, Points
  <2> HIDE DEF Words, s
  <2> QED BY <1>3, <2>1
<1>5. /\ stack' \in [Context!Threads -> Seq(Words)] /\ stack'[on] = u
      /\ \A t \in Context!Threads \ {on} : stack'[t] = stack[t]
  <2>1. stack' = [stack EXCEPT ![on] = u]
    BY DEF Context!Yield
  <2> HIDE DEF u
  <2> QED BY <1>2, <1>4, <2>1, StackOn
<1>6. /\ view' \in [Context!Threads -> Views] /\ \A t \in Context!Threads \ {on} : view'[t] = view[t]
      /\ x.n = v.n /\ x.flag = v.flag /\ x.depth = v.depth /\ x.known = v.known \ Context!Scratch
  <2>1. view' = [view EXCEPT ![on] = [v EXCEPT !.known = v.known \ Context!Scratch]]
    BY DEF Context!Yield
  <2>2. [v EXCEPT !.known = v.known \ Context!Scratch] \in Views
    BY <1>3 DEF Views
  <2> QED BY <1>2, <1>3, <2>1, <2>2 DEF ContextTypeOK, Views
<1>7. ContextTypeOK'
  BY <1>1, <1>2, <1>5, <1>6 DEF ContextTypeOK, Points
<1>8. Good(x, on, "yield", regs, flag, u)
  BY <1>2, <1>4, <1>6 DEF Good, Finds
<1> HIDE DEF s, u, v, x
<1>9. OnIs'
  BY <1>1, <1>2, <1>5, <1>8 DEF OnIs, Points, x
<1>10. OthersAre'
  BY <1>1, <1>5, <1>6, RestStay DEF ContextIInv, Rest
<1> QED BY <1>7, <1>9, <1>10 DEF ContextIInv

LEMMA PopAddressKeeps ==
  ASSUME ContextIInv, Context!PopAddress
  PROVE  ContextIInv'
<1> DEFINE s == stack[on]
           u == Context!Drop(s, 1)
           v == view[on]
<1>1. rip = "yield" /\ rip' = "frame" /\ UNCHANGED <<flag, on, sp, pready, view>>
  BY DEF Context!PopAddress
<1>2. ContextTypeOK /\ Good(v, on, "yield", regs, flag, s) /\ pready = on
  BY <1>1 DEF ContextIInv, OnIs, Points
<1>3. /\ s \in Seq(Words) /\ v.depth \in Nat /\ Len(s) = v.depth + 1 /\ s[v.depth + 1] = "run"
      /\ Finds(v, on, regs) /\ flag = v.flag /\ v.known \cap Context!Scratch = {}
           /\ v.known \subseteq Context!Regs
  BY <1>2, ViewIs DEF ContextTypeOK, Good
<1>4. u \in Seq(Words) /\ Len(u) = v.depth
  <2> HIDE DEF Words, s, v
  <2> QED BY <1>3 DEF Context!Drop
<1>5. /\ stack' \in [Context!Threads -> Seq(Words)] /\ stack'[on] = u
      /\ \A t \in Context!Threads \ {on} : stack'[t] = stack[t]
  <2>1. stack' = [stack EXCEPT ![on] = u]
    BY DEF Context!PopAddress
  <2> HIDE DEF u
  <2> QED BY <1>2, <1>4, <2>1, StackOn
<1>6. regs' \in [Context!Regs -> Words] /\ regs'["rcx"] = "run"
      /\ \A q \in Context!Regs \ {"rcx"} : regs'[q] = regs[q]
  <2>1. regs' = [regs EXCEPT !["rcx"] = "run"]
    <3>1. Len(s) - 1 + 1 = v.depth + 1
      BY <1>3
    <3>2. Context!Top(s, 1) = "run"
      BY <1>3, <3>1 DEF Context!Top
    <3>3. regs' = [regs EXCEPT !["rcx"] = Context!Top(s, 1)]
      BY DEF Context!PopAddress
    <3> QED BY <3>2, <3>3
  <2>2. "run" \in Words /\ "rcx" \in Context!Regs
    BY RegsAre DEF Words, Points
  <2>3. PICK w \in Words : w = "run"
    BY <2>2
  <2>4. PICK r \in Context!Regs : r = "rcx"
    BY <2>2
  <2>5. ContextTypeOK /\ regs' = [regs EXCEPT ![r] = w]
    BY <1>2, <2>1, <2>3, <2>4
  <2>6. regs' \in [Context!Regs -> Words] /\ regs'[r] = w
         /\ \A q \in Context!Regs \ {r} : regs'[q] = regs[q]
    <3>1. regs \in [Context!Regs -> Words]
      BY <2>5 DEF ContextTypeOK
    <3> QED BY <2>5, <3>1
  <2> QED BY <2>3, <2>4, <2>6
<1>7. ContextTypeOK'
  BY <1>1, <1>2, <1>5, <1>6 DEF ContextTypeOK, Points
<1>8. Good(v, on, "frame", regs', flag, u)
  <2>1. Finds(v, on, regs')
    BY <1>3, <1>6 DEF Finds, Context!Scratch
  <2> QED BY <1>3, <1>4, <1>6, <2>1 DEF Good
<1> HIDE DEF s, u
<1>9. OnIs'
  BY <1>1, <1>2, <1>5, <1>8 DEF OnIs, Points
<1>10. OthersAre'
  BY <1>1, <1>5, RestStay DEF ContextIInv, Rest
<1> QED BY <1>7, <1>9, <1>10 DEF ContextIInv

LEMMA PushFrameKeeps ==
  ASSUME ContextIInv, Context!PushFrame
  PROVE  ContextIInv'
<1> DEFINE s == stack[on]
           f == Context!IretFrame(Len(s), "run")
           u == s \o f
           v == view[on]
<1>1. rip = "frame" /\ rip' = "save" /\ UNCHANGED <<flag, on, sp, pready, view>>
  BY DEF Context!PushFrame
<1>2. ContextTypeOK /\ Good(v, on, "frame", regs, flag, s) /\ pready = on
  BY <1>1 DEF ContextIInv, OnIs, Points
<1>3. /\ s \in Seq(Words) /\ v.depth \in Nat /\ Len(s) = v.depth /\ regs["rcx"] = "run"
      /\ Finds(v, on, regs) /\ flag = v.flag /\ v.known \cap Context!Scratch = {}
           /\ v.known \subseteq Context!Regs
  BY <1>2, ViewIs DEF ContextTypeOK, Good
<1>4. f \in Seq(Words) /\ Len(f) = 5 /\ f[2] = v.depth /\ f[3] = flag /\ f[5] = "run"
  <2>1. "run" \in Words /\ flag \in BOOLEAN
    BY <1>2 DEF Words, Points, ContextTypeOK
  <2>2. PICK d \in Nat : d = Len(s) /\ d = v.depth
    BY <1>3
  <2>3. /\ Context!IretFrame(d, "run") \in Seq(Words) /\ Len(Context!IretFrame(d, "run")) = 5
        /\ Context!IretFrame(d, "run")[2] = d /\ Context!IretFrame(d, "run")[3] = flag
        /\ Context!IretFrame(d, "run")[5] = "run"
    BY <2>1, IretIs, Zenon
  <2> QED BY <2>2, <2>3
<1>5. /\ u \in Seq(Words) /\ Len(u) = v.depth + 5
      /\ u[v.depth + 2] = v.depth /\ u[v.depth + 3] = flag /\ u[v.depth + 5] = "run"
  <2>1. /\ u \in Seq(Words) /\ Len(u) = Len(s) + Len(f)
        /\ \A j \in 1 .. Len(f) : u[Len(s) + j] = f[j]
    BY <1>3, <1>4, OnTop
  <2> HIDE DEF Words, s, v, f, u
  <2> QED BY <1>3, <1>4, <2>1
<1>6. /\ stack' \in [Context!Threads -> Seq(Words)] /\ stack'[on] = u
      /\ \A t \in Context!Threads \ {on} : stack'[t] = stack[t]
  <2>1. stack' = [stack EXCEPT ![on] = u]
    BY <1>3 DEF Context!PushFrame
  <2> HIDE DEF u
  <2> QED BY <1>2, <1>5, <2>1, StackOn
<1>7. regs' \in [Context!Regs -> Words] /\ \A q \in Context!Regs \ Context!Scratch : regs'[q] = regs[q]
  <2>1. regs' = [regs EXCEPT !["rdx"] = Len(stack[on]), !["rax"] = "cs"]
    BY DEF Context!PushFrame
  <2>2. Len(stack[on]) \in Words /\ "cs" \in Words
    BY <1>3 DEF Words
  <2> HIDE DEF Words
  <2> QED BY <1>2, <2>1, <2>2 DEF ContextTypeOK, Context!Scratch
<1>8. ContextTypeOK'
  BY <1>1, <1>2, <1>6, <1>7 DEF ContextTypeOK, Points
<1>9. Good(v, on, "save", regs', flag, u)
  <2>1. Finds(v, on, regs')
    BY <1>3, <1>7 DEF Finds
  <2>2. Pushes(v, u)
    BY <1>3, <1>5 DEF Pushes
  <2> QED BY <1>3, <1>5, <2>1, <2>2 DEF Good
<1> HIDE DEF s, u
<1>10. OnIs'
  BY <1>1, <1>2, <1>6, <1>9 DEF OnIs, Points
<1>11. OthersAre'
  BY <1>1, <1>6, RestStay DEF ContextIInv, Rest
<1> QED BY <1>8, <1>10, <1>11 DEF ContextIInv

\* What Save does to the stack and the registers.
LEMMA SaveIs ==
  ASSUME ContextIInv, NEW pad \in 0 .. 1, Context!Save(pad)
  PROVE  /\ stack' \in [Context!Threads -> Seq(Words)] /\ stack[on] \in Seq(Words)
         /\ \A t \in Context!Threads \ {on} : stack'[t] = stack[t]
         /\ Len(stack'[on]) >= Len(stack[on]) + 15
         /\ \A i \in 1 .. Len(stack[on]) : stack'[on][i] = stack[on][i]
         /\ \A j \in 1 .. 15 : stack'[on][Len(stack[on]) + j] = regs[Context!Pushed[j]]
         /\ regs' \in [Context!Regs -> Words] /\ regs'["rbp"] = Len(stack[on]) + 15
<1> DEFINE s == stack[on]
           w == [i \in DOMAIN Context!Pushed |-> regs[Context!Pushed[i]]]
           p == Context!Padding(pad)
           u == (s \o w) \o p
<1>1. ContextTypeOK /\ s \in Seq(Words) /\ regs \in [Context!Regs -> Words]
  BY DEF ContextIInv, ContextTypeOK
<1>2. w \in Seq(Words) /\ Len(w) = 15 /\ \A j \in 1 .. 15 : w[j] = regs[Context!Pushed[j]]
  <2> HIDE DEF w
  <2> QED BY <1>1, SavedWords DEF w
<1>3. p \in Seq(Words) /\ Len(p) = pad
  BY PaddingIs
<1>4. stack' = [stack EXCEPT ![on] = u]
  BY DEF Context!Save
<1> HIDE DEF w, p
<1>5. /\ s \o w \in Seq(Words) /\ Len(s \o w) = Len(s) + 15
      /\ \A i \in 1 .. Len(s) : (s \o w)[i] = s[i]
      /\ \A j \in 1 .. 15 : (s \o w)[Len(s) + j] = regs[Context!Pushed[j]]
  <2>1. /\ s \o w \in Seq(Words) /\ Len(s \o w) = Len(s) + Len(w)
        /\ \A i \in 1 .. Len(s) : (s \o w)[i] = s[i]
        /\ \A j \in 1 .. Len(w) : (s \o w)[Len(s) + j] = w[j]
    BY <1>1, <1>2, OnTop
  <2> DEFINE c == s \o w
  <2> HIDE DEF c
  <2> QED BY <1>2, <2>1 DEF c
<1> DEFINE a == s \o w
<1>6. /\ a \o p \in Seq(Words) /\ Len(a \o p) = Len(a) + pad
      /\ \A i \in 1 .. Len(a) : (a \o p)[i] = a[i]
  <2> HIDE DEF a
  <2> QED BY <1>3, <1>5, OnTop DEF a
<1>7. /\ u \in Seq(Words) /\ Len(u) >= Len(s) + 15
      /\ \A i \in 1 .. Len(s) : u[i] = s[i]
      /\ \A j \in 1 .. 15 : u[Len(s) + j] = regs[Context!Pushed[j]]
  <2>1. u = a \o p /\ Len(s) \in Nat
    BY <1>1
  <2>2. /\ a \in Seq(Words) /\ Len(a) = Len(s) + 15
        /\ \A i \in 1 .. Len(s) : a[i] = s[i]
        /\ \A j \in 1 .. 15 : a[Len(s) + j] = regs[Context!Pushed[j]]
    BY <1>5
  <2>3. /\ u \in Seq(Words) /\ Len(u) = Len(a) + pad
        /\ \A i \in 1 .. Len(a) : u[i] = a[i]
    BY <1>6, <2>1
  <2>4. PICK n \in Nat : n = Len(s)
    BY <2>1
  <2> HIDE DEF a, u, s
  <2>5. Len(a) = n + 15 /\ Len(u) = n + 15 + pad
    BY <2>2, <2>3, <2>4
  <2>6. ASSUME NEW i \in 1 .. Len(s) PROVE u[i] = s[i]
    <3>1. i \in 1 .. Len(a)
      BY <2>4, <2>5
    <3> QED BY <2>2, <2>3, <3>1
  <2>7. ASSUME NEW j \in 1 .. 15 PROVE u[Len(s) + j] = regs[Context!Pushed[j]]
    <3>1. Len(s) + j \in 1 .. Len(a)
      BY <2>4, <2>5
    <3> QED BY <2>2, <2>3, <3>1
  <2>8. u \in Seq(Words) /\ Len(u) >= Len(s) + 15
    BY <2>3, <2>4, <2>5
  <2> QED BY <2>6, <2>7, <2>8
<1> HIDE DEF u
<1>8. stack' \in [Context!Threads -> Seq(Words)] /\ stack'[on] = u
      /\ \A t \in Context!Threads \ {on} : stack'[t] = stack[t]
  BY <1>1, <1>4, <1>7, StackOn
<1>9. regs' \in [Context!Regs -> Words] /\ regs'["rbp"] = Len(s) + 15
  <2>1. PICK n \in Nat : n = Len(s) + 15
    BY <1>1
  <2>2. regs' = [regs EXCEPT !["rbp"] = n]
    BY <2>1, RegsAre DEF Context!Save
  <2>3. n \in Words /\ "rbp" \in Context!Regs
    BY RegsAre DEF Words
  <2> QED BY <1>1, <2>1, <2>2, <2>3, RegIs
<1> QED BY <1>1, <1>7, <1>8, <1>9

LEMMA SaveKeeps ==
  ASSUME ContextIInv, NEW pad \in 0 .. 1, Context!Save(pad)
  PROVE  ContextIInv'
<1> DEFINE s == stack[on]
           u == stack'[on]
           v == view[on]
<1>1. rip \in {"save", "isr"} /\ UNCHANGED <<flag, on, sp, pready, view>>
      /\ rip' = IF rip = "save" THEN "cli" ELSE "schedule"
  BY DEF Context!Save
<1>2. /\ stack' \in [Context!Threads -> Seq(Words)] /\ s \in Seq(Words) /\ u \in Seq(Words)
      /\ \A t \in Context!Threads \ {on} : stack'[t] = stack[t]
      /\ Len(u) >= Len(s) + 15
      /\ \A i \in 1 .. Len(s) : u[i] = s[i]
      /\ \A j \in 1 .. 15 : u[Len(s) + j] = regs[Context!Pushed[j]]
      /\ regs' \in [Context!Regs -> Words] /\ regs'["rbp"] = Len(s) + 15
      /\ on \in Context!Threads /\ regs \in [Context!Regs -> Words]
  BY SaveIs DEF ContextIInv, ContextTypeOK
<1>3. ContextTypeOK'
  BY <1>1, <1>2 DEF ContextIInv, ContextTypeOK, Points
<1>4. OthersAre'
  BY <1>1, <1>2, RestStay DEF ContextIInv, Rest
<1>5. CASE rip = "save"
  <2>1. Good(v, on, "save", regs, flag, s) /\ pready = on
    BY <1>5 DEF ContextIInv, OnIs, Points
  <2>2. PICK d \in Nat : d = v.depth
    BY ViewIs DEF ContextIInv
  <2>3. /\ Finds(v, on, regs) /\ Len(s) = d + 5
        /\ s[d + 2] = d /\ s[d + 3] = v.flag /\ s[d + 5] = "run"
    BY <2>1, <2>2 DEF Good, Pushes
  <2> HIDE DEF s, u, v
  <2>10. d + 2 \in 1 .. Len(s) /\ d + 3 \in 1 .. Len(s) /\ d + 5 \in 1 .. Len(s)
    BY <2>3
  <2>4. u[d + 2] = d /\ u[d + 3] = v.flag /\ u[d + 5] = "run"
    BY <1>2, <2>3, <2>10
  <2>5. SavedRegs(u, d + 20) = regs
    <3>1. PICK b \in Nat, k \in Nat : b = Len(s) /\ k = d + 20 /\ k - 15 = b
      BY <2>3
    <3>2. Len(u) \in Nat /\ Len(u) >= b + 15
      BY <1>2, <3>1
    <3>3. 15 <= k /\ k <= Len(u)
      BY ONLY <3>1, <3>2
    <3>4. \A j \in 1 .. 15 : u[b + j] = regs[Context!Pushed[j]]
      BY <1>2, <3>1
    <3>5. \A j \in 1 .. 15 : u[k - 15 + j] = regs[Context!Pushed[j]]
      BY ONLY <3>1, <3>4
    <3>6. SavedRegs(u, k) = regs
      BY <1>2, <3>3, <3>5, SavedIs
    <3> QED BY <3>1, <3>6
  <2>6. Len(u) >= d + 20 /\ regs'["rbp"] = d + 20
    BY <1>2, <2>3
  <2>7. Good(v, on, "cli", regs', flag, u)
    BY <2>2, <2>3, <2>4, <2>5, <2>6 DEF Good, Pushes
  <2>8. rip' = "cli" /\ on' = on
    BY <1>1, <1>5
  <2>9. OnIs'
    BY <1>1, <2>1, <2>7, <2>8 DEF OnIs, Points, u, v
  <2> QED BY <1>3, <1>4, <2>9 DEF ContextIInv
<1>6. CASE rip = "isr"
  <2>1. Returns(v, on, regs, s, Len(s)) /\ pready = on /\ flag = FALSE
    BY <1>6 DEF ContextIInv, OnIs, Points
  <2> HIDE DEF s, u, v
  <2>2. Resumable(v, on, u, Len(s) + 15)
    <3>1. PICK k \in Nat : k = Len(s)
      BY <2>1 DEF Returns
    <3>2. Resumable(v, on, u, k + 15)
      BY <1>2, <2>1, <3>1, SaveResumes
    <3> QED BY <3>1, <3>2
  <2>3. Resumable(v, on, u, regs'["rbp"])
    BY <1>2, <2>2
  <2>4. rip' = "schedule" /\ on' = on
    BY <1>1, <1>6
  <2>5. OnIs'
    BY <1>1, <2>1, <2>3, <2>4 DEF OnIs, Points, u, v
  <2> QED BY <1>3, <1>4, <2>5 DEF ContextIInv
<1> QED BY <1>1, <1>5, <1>6

LEMMA CliKeeps ==
  ASSUME ContextIInv, Context!Cli
  PROVE  ContextIInv'
<1> DEFINE s == stack[on]
           v == view[on]
<1>1. rip = "cli" /\ rip' = "schedule" /\ flag' = FALSE
      /\ UNCHANGED <<regs, on, stack, sp, pready, view>>
  BY DEF Context!Cli
<1>2. ContextTypeOK /\ Good(v, on, "cli", regs, flag, s) /\ pready = on
  BY <1>1 DEF ContextIInv, OnIs, Points
<1>3. /\ s \in Seq(Words) /\ v.flag \in BOOLEAN
  BY <1>2, ViewIs DEF ContextTypeOK
<1>4. PICK d \in Nat : d = v.depth
  BY <1>2, ViewIs
<1>5. /\ Len(s) >= d + 20 /\ s[d + 2] = d /\ s[d + 3] = v.flag /\ s[d + 5] = "run"
      /\ regs["rbp"] = d + 20 /\ Finds(v, on, SavedRegs(s, d + 20))
  BY <1>2, <1>4 DEF Good, Pushes
<1> DEFINE g == SavedRegs(s, d + 20)
<1>6. Good(v, on, "run", g, v.flag, SubSeq(s, 1, d))
  <2>1. Len(SubSeq(s, 1, d)) = d
    BY <1>3, <1>5
  <2> QED BY <1>4, <1>5, <2>1 DEF Good
<1> HIDE DEF s, v
<1>7. Resumable(v, on, s, d + 20)
  <2>1. PICK k \in Nat : k = d + 5
    OBVIOUS
  <2>2. k - 3 = d + 2 /\ k - 2 = d + 3 /\ k - 5 = d
    BY <2>1
  <2>3. Good(v, on, s[k], g, s[k - 2], SubSeq(s, 1, s[k - 3]))
    BY <1>5, <1>6, <2>1, <2>2
  <2> HIDE DEF g
  <2>4. Returns(v, on, g, s, k)
    BY <1>3, <1>5, <2>1, <2>2, <2>3 DEF Returns, Points
  <2>5. k = (d + 20) - 15
    BY <2>1
  <2> QED BY <1>5, <2>4, <2>5 DEF Resumable, g
<1>8. OnIs'
  BY <1>1, <1>2, <1>5, <1>7 DEF OnIs, Points, s, v
<1>9. ContextTypeOK'
  BY <1>1, <1>2 DEF ContextTypeOK
<1>10. OthersAre'
  BY <1>1, RestStay DEF ContextIInv, Rest
<1> QED BY <1>8, <1>9, <1>10 DEF ContextIInv

LEMMA ScheduleKeeps ==
  ASSUME ContextIInv, NEW t \in Context!Threads, Context!Schedule(t)
  PROVE  ContextIInv'
<1> DEFINE k == regs["rbp"]
<1>1. /\ rip = "schedule" /\ rip' = "switch" /\ pready' = t /\ sp'[t] # 0
      /\ sp' = [sp EXCEPT ![pready] = k]
      /\ regs' = [regs EXCEPT !["rax"] = t]
      /\ UNCHANGED <<flag, on, stack, view>>
  BY DEF Context!Schedule
<1>2. pready = on /\ Resumable(view[on], on, stack[on], k) /\ flag = FALSE
  BY <1>1 DEF ContextIInv, OnIs, Points
<1>3. k \in Nat /\ k # 0
  BY <1>2 DEF Resumable
<1> HIDE DEF k
<1>4. sp' \in [Context!Threads -> Nat] /\ sp'[on] = k /\ \A u \in Context!Threads \ {on} : sp'[u] = sp[u]
  BY <1>1, <1>2, <1>3 DEF ContextIInv, ContextTypeOK
<1>5. regs' \in [Context!Regs -> Words] /\ regs'["rax"] = t
  <2>1. t \in Words /\ "rax" \in Context!Regs
    BY RegsAre DEF Words
  <2>2. regs \in [Context!Regs -> Words]
    BY DEF ContextIInv, ContextTypeOK
  <2> HIDE DEF Words
  <2> QED BY <1>1, <2>1, <2>2
<1>6. ContextTypeOK'
  BY <1>1, <1>4, <1>5 DEF ContextIInv, ContextTypeOK
<1>7. OnIs'
  BY <1>1, <1>2, <1>4, <1>5 DEF OnIs, Points
<1>8. OthersAre'
  BY <1>1, <1>4, RestStay DEF ContextIInv, Rest
<1> QED BY <1>6, <1>7, <1>8 DEF ContextIInv

LEMMA SwitchKeeps ==
  ASSUME ContextIInv, Context!Switch
  PROVE  ContextIInv'
<1> DEFINE t == regs["rax"]
           s == stack[t]
           k == sp[t]
           u == SubSeq(s, 1, k)
<1>1. /\ rip = "switch" /\ rip' = "restore" /\ on' = t
      /\ stack' = [stack EXCEPT ![t] = u]
      /\ UNCHANGED <<regs, flag, sp, pready, view>>
  BY DEF Context!Switch
<1>2. t = pready /\ k # 0 /\ flag = FALSE /\ t \in Context!Threads
      /\ Resumable(view[on], on, stack[on], sp[on])
  BY <1>1 DEF ContextIInv, ContextTypeOK, OnIs, Points
<1>3. \A x \in Context!Threads : sp[x] # 0 => Resumable(view[x], x, stack[x], sp[x])
  BY <1>2 DEF ContextIInv, OthersAre
<1>4. sp[on] # 0
  BY <1>2 DEF Resumable
<1> HIDE DEF t
<1>5. Resumable(view[t], t, s, k) /\ s \in Seq(Words)
  BY <1>2, <1>3 DEF ContextIInv, ContextTypeOK
<1>6. k \in Nat /\ 20 <= k /\ k <= Len(s)
  BY <1>5 DEF Resumable
<1>7. u \in Seq(Words) /\ Len(u) = k /\ \A i \in 1 .. k : u[i] = s[i]
  <2> HIDE DEF Words, s, k
  <2> QED BY <1>5, <1>6
<1> HIDE DEF u
<1>8. Resumable(view[t], t, u, Len(u))
  <2>1. \A i \in 1 .. k : s[i] = u[i]
    BY <1>7
  <2>2. Resumable(view[t], t, u, k)
    BY <1>5, <1>6, <1>7, <2>1, ResumableAgree
  <2> QED BY <1>7, <2>2
<1>9. /\ stack' \in [Context!Threads -> Seq(Words)] /\ stack'[t] = u
      /\ \A x \in Context!Threads \ {t} : stack'[x] = stack[x]
  BY <1>1, <1>2, <1>7 DEF ContextIInv, ContextTypeOK
<1>10. ContextTypeOK'
  BY <1>1, <1>2, <1>9 DEF ContextIInv, ContextTypeOK, Points
<1>11. OnIs'
  BY <1>1, <1>2, <1>8, <1>9 DEF OnIs, Points
<1>12. OthersAre'
  <2> SUFFICES ASSUME NEW x \in Context!Threads \ {t}
               PROVE  IF sp[x] # 0 THEN Resumable(view[x], x, stack[x], sp[x])
                      ELSE view[x].n = 0 /\ view[x].flag = TRUE /\ view[x].depth = 0
    BY <1>1, <1>9 DEF OthersAre
  <2> QED BY <1>3, <1>4 DEF ContextIInv, OthersAre
<1> QED BY <1>10, <1>11, <1>12 DEF ContextIInv

LEMMA RestoreKeeps ==
  ASSUME ContextIInv, Context!Restore
  PROVE  ContextIInv'
<1> DEFINE s == stack[on]
           k == Len(s)
           b == SubSeq(s, 1, k - 15)
           f == SubSeq(b, k - 19, k - 15)
           v == view[on]
           g == SavedRegs(s, k)
<1>1. rip = "restore" /\ UNCHANGED <<on, sp, pready, view>>
  BY DEF Context!Restore
<1>2. ContextTypeOK /\ Resumable(v, on, s, k) /\ pready = on /\ s \in Seq(Words)
  BY <1>1 DEF ContextIInv, OnIs, Points, ContextTypeOK
<1>3. k \in Nat /\ 20 <= k /\ Returns(v, on, g, s, k - 15)
  BY <1>2 DEF Resumable
<1>4. PICK m \in Nat : m = k - 15
  BY <1>3
<1>5. /\ s[m - 3] \in Nat /\ s[m - 3] <= m - 5 /\ s[m - 2] \in BOOLEAN /\ s[m] \in Points
      /\ Good(v, on, s[m], g, s[m - 2], SubSeq(s, 1, s[m - 3]))
  BY <1>3, <1>4 DEF Returns
<1>6. /\ b \in Seq(Words) /\ Len(b) = m /\ \A i \in 1 .. m : b[i] = s[i]
  <2> HIDE DEF Words, s, k
  <2> QED BY <1>2, <1>3, <1>4 DEF k
<1>7. f[2] = s[m - 3] /\ f[3] = s[m - 2] /\ f[5] = s[m]
  <2>1. k - 19 = m - 4 /\ k - 15 = m
    BY <1>3, <1>4
  <2> HIDE DEF Words, s, k, b
  <2>2. f[2] = b[m - 4 + 1] /\ f[3] = b[m - 4 + 2] /\ f[5] = b[m - 4 + 4]
    BY <1>3, <1>4, <1>6, <2>1
  <2>3. m - 4 + 1 = m - 3 /\ m - 4 + 2 = m - 2 /\ m - 4 + 4 = m
        /\ m - 3 \in 1 .. m /\ m - 2 \in 1 .. m /\ m \in 1 .. m
    BY <1>3, <1>4
  <2> QED BY <1>6, <2>2, <2>3
<1>8. regs' = g
  <2>1. regs' = [r \in Context!Regs |-> Context!Top(s, PopIndex(r))]
    BY RegsAre DEF Context!Restore, PopIndex
  <2> QED BY <2>1 DEF SavedRegs, Context!Top
<1>9. rip' = f[5] /\ flag' = f[3] /\ stack' = [stack EXCEPT ![on] = SubSeq(s, 1, f[2])]
  <2>1. Context!Drop(s, Len(Context!Popped)) = b /\ Len(s) - Len(Context!Popped) - 4 = k - 19
         /\ Len(s) - Len(Context!Popped) = k - 15
    BY <1>3, RegsAre DEF Context!Drop
  <2>2. f = SubSeq(Context!Drop(s, Len(Context!Popped)), Len(s) - Len(Context!Popped) - 4,
         Len(s) - Len(Context!Popped))
    BY <2>1
  <2> HIDE DEF f
  <2> QED BY <2>2 DEF Context!Restore
<1> DEFINE d == s[m - 3]
           u == SubSeq(s, 1, d)
<1> HIDE DEF f, b
<1>10. rip' = s[m] /\ flag' = s[m - 2] /\ stack' = [stack EXCEPT ![on] = u]
  BY <1>7, <1>9
<1>11. u \in Seq(Words)
  <2>1. d \in Nat /\ d <= Len(s)
    BY <1>3, <1>4, <1>5
  <2> HIDE DEF Words, s, d
  <2> QED BY <1>2, <2>1
<1>12. regs' \in [Context!Regs -> Words]
  <2> SUFFICES ASSUME NEW r \in Context!Regs PROVE s[k - PopIndex(r) + 1] \in Words
    BY <1>8 DEF SavedRegs
  <2>1. PICK i \in 1 .. 15 : i = PopIndex(r)
    BY PopIs
  <2>2. PICK n \in Nat : n = k /\ 20 <= n
    BY <1>3
  <2>3. n - i + 1 \in 1 .. n
    BY <2>2
  <2>4. k - i + 1 \in 1 .. k
    BY <2>2, <2>3
  <2> HIDE DEF Words
  <2> QED BY <1>2, <2>1, <2>4
<1> HIDE DEF u
<1>13. stack' \in [Context!Threads -> Seq(Words)] /\ stack'[on] = u
       /\ \A t \in Context!Threads \ {on} : stack'[t] = stack[t]
  BY <1>2, <1>10, <1>11, StackOn
<1>14. ContextTypeOK'
  BY <1>1, <1>2, <1>5, <1>10, <1>12, <1>13 DEF ContextTypeOK
<1>15. Good(v, on, rip', regs', flag', stack'[on])
  BY <1>5, <1>8, <1>10, <1>13 DEF u
<1>16. OnIs'
  <2>1. rip' \in Points
    BY <1>5, <1>10
  <2> QED BY <1>1, <1>2, <1>15, <2>1 DEF OnIs, Points
<1>17. OthersAre'
  BY <1>1, <1>13, RestStay DEF ContextIInv, Rest
<1> QED BY <1>14, <1>16, <1>17 DEF ContextIInv

LEMMA InterruptKeeps ==
  ASSUME ContextIInv, NEW pad \in 0 .. 1, Context!Interrupt(pad)
  PROVE  ContextIInv'
<1> DEFINE s == stack[on]
           p == Context!Padding(pad)
           f == Context!IretFrame(Len(s), rip)
           a == s \o p
           u == a \o f
           v == view[on]
<1>1. /\ flag = TRUE /\ rip' = "isr" /\ flag' = FALSE
      /\ stack' = [stack EXCEPT ![on] = u]
      /\ UNCHANGED <<regs, on, sp, pready, view>>
  BY DEF Context!Interrupt, ContextIInv, ContextTypeOK
<1>2. rip \in Points /\ pready = on /\ Good(v, on, rip, regs, flag, s)
  BY <1>1 DEF ContextIInv, OnIs
<1>3. ContextTypeOK /\ s \in Seq(Words)
  BY DEF ContextIInv, ContextTypeOK
<1>4. p \in Seq(Words) /\ Len(p) = pad
  BY PaddingIs
<1>5. PICK n \in Nat : n = Len(s)
  BY <1>3
<1>6. f \in Seq(Words) /\ Len(f) = 5 /\ f[2] = n /\ f[3] = flag /\ f[5] = rip
  <2>1. rip \in Words /\ flag \in BOOLEAN
    BY <1>2, <1>3, WordsAre DEF ContextTypeOK
  <2>2. /\ Context!IretFrame(n, rip) \in Seq(Words) /\ Len(Context!IretFrame(n, rip)) = 5
        /\ Context!IretFrame(n, rip)[2] = n /\ Context!IretFrame(n, rip)[3] = flag
        /\ Context!IretFrame(n, rip)[5] = rip
    BY <2>1, IretIs, Zenon
  <2> QED BY <1>5, <2>2
<1> HIDE DEF p, f
<1>7. a \in Seq(Words) /\ Len(a) = n + pad /\ \A i \in 1 .. n : a[i] = s[i]
  <2>1. /\ a \in Seq(Words) /\ Len(a) = Len(s) + Len(p)
        /\ \A i \in 1 .. Len(s) : a[i] = s[i]
    BY <1>3, <1>4, OnTop
  <2> HIDE DEF a
  <2> QED BY <1>4, <1>5, <2>1
<1> HIDE DEF a
<1>8. PICK k \in Nat : k = n + pad + 5
  OBVIOUS
<1>9. /\ u \in Seq(Words) /\ Len(u) = k /\ \A i \in 1 .. n : u[i] = s[i]
      /\ u[k - 3] = n /\ u[k - 2] = flag /\ u[k] = rip
  <2>1. /\ u \in Seq(Words) /\ Len(u) = Len(a) + Len(f)
        /\ \A i \in 1 .. Len(a) : u[i] = a[i]
        /\ \A j \in 1 .. Len(f) : u[Len(a) + j] = f[j]
    BY <1>6, <1>7, OnTop
  <2> HIDE DEF u
  <2>2. k - 3 = Len(a) + 2 /\ k - 2 = Len(a) + 3 /\ k = Len(a) + 5
    BY <1>7, <1>8
  <2>3. u[k - 3] = n /\ u[k - 2] = flag /\ u[k] = rip
    BY <1>6, <2>1, <2>2
  <2>4. \A i \in 1 .. n : i \in 1 .. Len(a)
    BY <1>7
  <2>5. Len(u) = k
    BY <1>6, <2>1, <2>2
  <2> QED BY <1>7, <2>1, <2>3, <2>4, <2>5
<1> HIDE DEF u
<1>10. SubSeq(u, 1, n) = s
  <2>1. SubSeq(u, 1, n) = SubSeq(s, 1, n)
    <3>1. n <= Len(s) /\ n <= Len(u)
      BY <1>5, <1>8, <1>9
    <3> QED BY <1>3, <1>9, <3>1, PrefixAgree
  <2>2. SubSeq(s, 1, n) = s
    <3> HIDE DEF Words, s
    <3> QED BY <1>3, <1>5
  <2> QED BY <2>1, <2>2
<1> HIDE DEF s, v
<1>11. Returns(v, on, regs, u, k)
  <2>1. Good(v, on, u[k], regs, u[k - 2], SubSeq(u, 1, u[k - 3]))
    BY <1>2, <1>9, <1>10
  <2>2. u[k - 2] \in BOOLEAN
    BY <1>9, <1>3 DEF ContextTypeOK
  <2>3. n <= k - 5 /\ 5 <= k
    BY <1>8
  <2> QED BY <1>2, <1>9, <2>1, <2>2, <2>3 DEF Returns
<1>12. stack' \in [Context!Threads -> Seq(Words)] /\ stack'[on] = u
       /\ \A t \in Context!Threads \ {on} : stack'[t] = stack[t]
  BY <1>1, <1>3, <1>9, StackOn
<1>13. ContextTypeOK'
  BY <1>1, <1>3, <1>12 DEF ContextTypeOK
<1>14. OnIs'
  BY <1>1, <1>2, <1>9, <1>11, <1>12 DEF OnIs, Points, v
<1>15. OthersAre'
  BY <1>1, <1>12, RestStay DEF ContextIInv, Rest
<1> QED BY <1>13, <1>14, <1>15 DEF ContextIInv

LEMMA ContextStutterKeeps ==
  ASSUME ContextIInv, UNCHANGED Context!cvars
  PROVE  ContextIInv'
<1>1. UNCHANGED <<regs, rip, flag, on, stack, sp, pready, view>>
  BY DEF Context!cvars
<1>2. ContextTypeOK'
  BY <1>1 DEF ContextIInv, ContextTypeOK
<1>3. OnIs'
  BY <1>1 DEF ContextIInv, OnIs
<1>4. OthersAre'
  BY <1>1, RestStay DEF ContextIInv, Rest
<1> QED BY <1>2, <1>3, <1>4 DEF ContextIInv

\* A thread goes on with the registers, the flag and the stack it had, wherever the
\* interrupts and the yields that came in between were.
THEOREM ContextsAreKept ==
  ASSUME Context!ContextAssumption
  PROVE  Context!Spec => []ContextKept
<1>1. Context!Init => ContextIInv
  BY ContextInitIInv
<1>2. ContextIInv /\ [Context!Next]_(Context!cvars) => ContextIInv'
  BY ComputeKeeps, InitStackFrameKeeps, YieldKeeps, PopAddressKeeps, PushFrameKeeps, SaveKeeps,
     CliKeeps, ScheduleKeeps, SwitchKeeps, RestoreKeeps, InterruptKeeps,
       ContextStutterKeeps DEF Context!Next
<1>3. ContextIInv => ContextKept
  BY DEF ContextKept, ContextIInv, OnIs, Good, Finds, Points, Context!ContextKept
<1> QED BY <1>1, <1>2, <1>3, PTL DEF Context!Spec

-----------------------------------------------------------------------------
(* The link component, for any number of interfaces, descriptors, files and *)
(* messages.  Files says that no two descriptors stand for one file, so that a *)
(* close ends it; Asked, how far AC_INIT_CMD got with its questions; Own, that *)
(* only the reader of the socket that is open may run on an open socket.   *)

\* Where the component has a socket.
Opened == {"index", "mac", "ip", "create", "ready"}

LinkTypeOK ==
  /\ files \in [Fds -> Nat] /\ opened \in 0 .. MaxFiles
  /\ this \in [fd : Fds \cup {Link!None}, idx : Int, ifindex : Int, mac : Int, ip : Int]
  /\ msgs \in [got : Nat, returned : Nat]
  /\ reader \in [Link!Readers -> {"none", "call", "in", "ended"}]
  /\ from \in [Link!Readers -> SUBSET Nat]

Files ==
  /\ \A d \in Fds : files[d] <= opened
  /\ \A d, e \in Fds : files[d] = files[e] /\ files[d] # Link!None => d = e
  /\ lpc \in Opened => this.fd \in Fds /\ files[this.fd] # Link!None

\* What the three questions were answered with.
Asked ==
  /\ lpc \in Opened \ {"index"} => this.ifindex = this.idx
  /\ lpc \in {"ip", "create", "ready"} => this.mac = this.idx
  /\ lpc \in {"create", "ready"} => this.ip = this.idx
  /\ lpc = "ready" => reader[files[this.fd]] # "none"
  /\ lpc \in Opened \ {"ready"} => msgs.got = msgs.returned + 1

Own ==
  \A r \in Link!Readers : reader[r] # "none" =>
    /\ this.fd \in Fds
    /\ r \in closed \/ (lpc = "ready" /\ files[this.fd] = r)

LinkIInv == LinkTypeOK /\ Files /\ Asked /\ Own /\ Link!FramesAreOne /\ Link!ReadsOwnSocket

-----------------------------------------------------------------------------
\* The lowest free descriptor is a free one.
LEMMA LowestIsFree ==
  ASSUME Link!InetLinkAssumption, Link!FreeFds # {}
  PROVE  Link!Lowest(Link!FreeFds) \in Fds /\ files[Link!Lowest(Link!FreeFds)] = Link!None
<1>1. Link!FreeFds \in SUBSET Nat
  BY DEF Link!FreeFds, Link!InetLinkAssumption
<1>2. \E d \in Link!FreeFds : \A e \in Link!FreeFds : d <= e
  <2>1. IsWellFoundedOn({ss \in Nat \X Nat : ss[1] < ss[2]}, Nat)
    BY NatLessThanWellFounded DEF OpToRel
  <2>2. PICK d \in Link!FreeFds :
          \A e \in Link!FreeFds : <<e, d>> \notin {ss \in Nat \X Nat : ss[1] < ss[2]}
    BY <1>1, <2>1, WFMin
  <2>3. ASSUME NEW e \in Link!FreeFds PROVE d <= e
    <3>1. d \in Nat /\ e \in Nat
      BY <1>1
    <3>2. ~(e < d)
      BY <2>2, <3>1
    <3> QED
      BY <3>1, <3>2
  <2> QED
    BY <2>3
<1>3. Link!Lowest(Link!FreeFds) \in Link!FreeFds
  BY <1>2 DEF Link!Lowest
<1> QED
  BY <1>3 DEF Link!FreeFds

\* A file that is opened is a new one.
LEMMA OpenFileIsNew ==
  ASSUME Link!InetLinkAssumption, LinkIInv, Link!FreeFds # {}, NEW d \in Fds,
         d = Link!Lowest(Link!FreeFds), Link!OpenFile(d)
  PROVE  /\ files[d] = Link!None /\ files' = [files EXCEPT ![d] = opened + 1]
         /\ files' \in [Fds -> Nat] /\ opened' \in 0 .. MaxFiles /\ opened' = opened + 1
         /\ files'[d] = opened + 1 /\ \A e \in Fds \ {d} : files'[e] = files[e]
         /\ \A e \in Fds : files'[e] <= opened'
         /\ \A e, f \in Fds : files'[e] = files'[f] /\ files'[e] # Link!None => e = f
<1>1. files[d] = Link!None
  BY LowestIsFree
<1>2. /\ files' = [files EXCEPT ![d] = opened + 1] /\ opened' = opened + 1 /\ opened < MaxFiles
      /\ opened \in Nat /\ MaxFiles \in Nat
  BY DEF Link!OpenFile, LinkIInv, LinkTypeOK, Link!InetLinkAssumption
<1>3. files \in [Fds -> Nat] /\ \A e \in Fds : files[e] <= opened
  BY DEF LinkIInv, LinkTypeOK, Files
<1>4. /\ files' \in [Fds -> Nat] /\ files'[d] = opened + 1
      /\ \A e \in Fds \ {d} : files'[e] = files[e]
  BY <1>2, <1>3
<1>5. \A e \in Fds : files'[e] <= opened'
  BY <1>2, <1>3, <1>4
<1>6. \A e, f \in Fds : files'[e] = files'[f] /\ files'[e] # Link!None => e = f
  <2>1. \A e \in Fds \ {d} : files'[e] # files'[d]
    BY <1>2, <1>3, <1>4
  <2> QED
    BY <1>4, <2>1 DEF LinkIInv, Files
<1> QED
  BY <1>1, <1>2, <1>4, <1>5, <1>6

\* The socket is a new file, and whoever read before reads no open one.
LEMMA InitCmdKeeps == ASSUME Link!InetLinkAssumption, LinkIInv, Link!InitCmd PROVE LinkIInv'
<1> USE DEF LinkIInv, Link!InetLinkAssumption, Link!None, Opened
<1>1. /\ lpc = "added" /\ msgs' = [msgs EXCEPT !.got = @ + 1]
      /\ UNCHANGED <<up, changes, closed, frames, reader, from>>
  BY DEF Link!InitCmd, Link!Handler, Link!Got, Link!Reading
<1>2. msgs' \in [got : Nat, returned : Nat] /\ msgs'.got = msgs'.returned + 1
  <2>1. msgs.got = msgs.returned /\ msgs \in [got : Nat, returned : Nat]
    BY <1>1 DEF Link!FramesAreOne, LinkTypeOK
  <2> QED
    BY <1>1, <2>1
<1>3. \A r \in Link!Readers : reader[r] # "none" => r \in closed /\ this.fd \in Fds
  BY <1>1 DEF Own
<1>4. CASE lpc' = "stopped" /\ UNCHANGED <<files, opened, this>>
  <2>1. LinkTypeOK' /\ Files'
    BY <1>1, <1>2, <1>4 DEF LinkTypeOK, Files
  <2>2. Asked' /\ Own'
    BY <1>1, <1>3, <1>4 DEF Asked, Own
  <2>3. Link!FramesAreOne' /\ Link!ReadsOwnSocket'
    BY <1>1, <1>4 DEF Link!FramesAreOne, Link!ReadsOwnSocket
  <2> QED
    BY <2>1, <2>2, <2>3
<1>5. CASE /\ Link!FreeFds # {} /\ Link!OpenFile(Link!Lowest(Link!FreeFds)) /\ lpc' = "index"
           /\ this' = [this EXCEPT !.fd = Link!Lowest(Link!FreeFds), !.idx = 0]
  <2>1. PICK d \in Fds : d = Link!Lowest(Link!FreeFds)
    BY <1>5, LowestIsFree
  <2>2. /\ files' \in [Fds -> Nat] /\ opened' \in 0 .. MaxFiles /\ files'[d] = opened + 1
        /\ \A e \in Fds : files'[e] <= opened'
        /\ \A e, f \in Fds : files'[e] = files'[f] /\ files'[e] # Link!None => e = f
    BY <1>5, <2>1, OpenFileIsNew
  <2>3. this \in [fd : Fds \cup {Link!None}, idx : Int, ifindex : Int, mac : Int, ip : Int]
    BY DEF LinkTypeOK
  <2>4. this' \in [fd : Fds \cup {Link!None}, idx : Int, ifindex : Int, mac : Int, ip : Int] /\ this'.fd = d
    <3>1. this' = [this EXCEPT !.fd = d, !.idx = 0]
      BY <1>5, <2>1
    <3>2. this' = [fd |-> d, idx |-> 0, ifindex |-> this.ifindex, mac |-> this.mac, ip |-> this.ip]
      BY ONLY <2>3, <3>1
    <3>3. this.ifindex \in Int /\ this.mac \in Int /\ this.ip \in Int
      BY <2>3
    <3> QED
      BY <3>2, <3>3
  <2>5. LinkTypeOK'
    BY <1>1, <1>2, <2>2, <2>4 DEF LinkTypeOK
  <2>6. files'[d] # Link!None
    BY <2>2 DEF LinkTypeOK
  <2>7. Files'
    BY <2>2, <2>4, <2>6 DEF Files
  <2>8. Asked' /\ Own'
    BY <1>1, <1>2, <1>3, <1>5, <2>4 DEF Asked, Own
  <2>9. Link!FramesAreOne' /\ Link!ReadsOwnSocket'
    BY <1>1, <1>5 DEF Link!FramesAreOne, Link!ReadsOwnSocket
  <2> QED
    BY <2>5, <2>7, <2>8, <2>9
<1> QED
  BY <1>4, <1>5 DEF Link!InitCmd, Link!Handler

LEMMA GetIfindexKeeps == ASSUME Link!InetLinkAssumption, LinkIInv, Link!GetIfindex PROVE LinkIInv'
<1> USE DEF LinkIInv, Link!InetLinkAssumption, Link!None, Opened
<1>1. LinkTypeOK'
  BY DEF Link!GetIfindex, LinkTypeOK, Files, Link!Handler, Link!Reading
<1>2. Files'
  BY DEF Link!GetIfindex, Files, LinkTypeOK, Asked, Link!Handler, Link!Reading
<1>3. Asked'
  BY DEF Link!GetIfindex, Asked, LinkTypeOK, Files, Link!Handler, Link!Reading
<1>4. Own'
  BY DEF Link!GetIfindex, Own, LinkTypeOK, Files, Asked, Link!Handler, Link!Reading
<1>5. Link!FramesAreOne'
  BY DEF Link!GetIfindex, Link!FramesAreOne, LinkTypeOK, Files, Asked, Own, Link!Handler,
     Link!Reading
<1>6. Link!ReadsOwnSocket'
  BY DEF Link!GetIfindex, Link!ReadsOwnSocket, LinkTypeOK, Files, Asked, Own, Link!Handler,
     Link!Reading
<1> QED
  BY <1>1, <1>2, <1>3, <1>4, <1>5, <1>6

LEMMA GetMacKeeps == ASSUME Link!InetLinkAssumption, LinkIInv, Link!GetMac PROVE LinkIInv'
<1> USE DEF LinkIInv, Link!InetLinkAssumption, Link!None, Opened
<1>1. LinkTypeOK'
  BY DEF Link!GetMac, LinkTypeOK, Files, Link!Handler, Link!Reading, Link!NameToAsk
<1>2. Files'
  BY DEF Link!GetMac, Files, LinkTypeOK, Asked, Link!Handler, Link!Reading, Link!NameToAsk
<1>3. Asked'
  BY DEF Link!GetMac, Asked, LinkTypeOK, Files, Link!Handler, Link!Reading, Link!NameToAsk
<1>4. Own'
  BY DEF Link!GetMac, Own, LinkTypeOK, Files, Asked, Link!Handler, Link!Reading, Link!NameToAsk
<1>5. Link!FramesAreOne'
  BY DEF Link!GetMac, Link!FramesAreOne, LinkTypeOK, Files, Asked, Own, Link!Handler,
     Link!Reading, Link!NameToAsk
<1>6. Link!ReadsOwnSocket'
  BY DEF Link!GetMac, Link!ReadsOwnSocket, LinkTypeOK, Files, Asked, Own, Link!Handler,
     Link!Reading, Link!NameToAsk
<1> QED
  BY <1>1, <1>2, <1>3, <1>4, <1>5, <1>6

LEMMA GetIpKeeps == ASSUME Link!InetLinkAssumption, LinkIInv, Link!GetIp PROVE LinkIInv'
<1> USE DEF LinkIInv, Link!InetLinkAssumption, Link!None, Opened
<1>1. LinkTypeOK'
  BY DEF Link!GetIp, LinkTypeOK, Files, Link!Handler, Link!Reading
<1>2. Files'
  BY DEF Link!GetIp, Files, LinkTypeOK, Asked, Link!Handler, Link!Reading
<1>3. Asked'
  BY DEF Link!GetIp, Asked, LinkTypeOK, Files, Link!Handler, Link!Reading
<1>4. Own'
  BY DEF Link!GetIp, Own, LinkTypeOK, Files, Asked, Link!Handler, Link!Reading
<1>5. Link!FramesAreOne'
  BY DEF Link!GetIp, Link!FramesAreOne, LinkTypeOK, Files, Asked, Own, Link!Handler,
     Link!Reading
<1>6. Link!ReadsOwnSocket'
  BY DEF Link!GetIp, Link!ReadsOwnSocket, LinkTypeOK, Files, Asked, Own, Link!Handler,
     Link!Reading
<1> QED
  BY <1>1, <1>2, <1>3, <1>4, <1>5, <1>6

\* The reader is that of the socket that is open.
LEMMA CreateReaderKeeps == ASSUME Link!InetLinkAssumption, LinkIInv, Link!CreateReader PROVE LinkIInv'
<1> USE DEF LinkIInv, Link!InetLinkAssumption, Link!None, Opened
<1>1. LinkTypeOK'
  <2>1. msgs' \in [got : Nat, returned : Nat]
    BY DEF Link!CreateReader, Link!Returned, LinkTypeOK
  <2>2. reader' \in [Link!Readers -> {"none", "call", "in", "ended"}]
    BY DEF Link!CreateReader, LinkTypeOK
  <2> QED
    BY <2>1, <2>2 DEF Link!CreateReader, LinkTypeOK
<1>2. Files'
  BY DEF Link!CreateReader, Files, LinkTypeOK, Asked, Link!Handler, Link!Reading,
     Link!Returned, Link!Readers
<1>3. Asked'
  BY DEF Link!CreateReader, Asked, LinkTypeOK, Files, Link!Handler, Link!Reading,
     Link!Returned, Link!Readers
<1>4. Own'
  BY DEF Link!CreateReader, Own, LinkTypeOK, Files, Asked, Link!Handler, Link!Reading,
     Link!Returned, Link!Readers
<1>5. Link!FramesAreOne'
  BY DEF Link!CreateReader, Link!FramesAreOne, LinkTypeOK, Files, Asked, Own, Link!Handler,
     Link!Reading, Link!Returned, Link!Readers
<1>6. Link!ReadsOwnSocket'
  BY DEF Link!CreateReader, Link!ReadsOwnSocket, LinkTypeOK, Files, Asked, Own, Link!Handler,
     Link!Reading, Link!Returned, Link!Readers
<1> QED
  BY <1>1, <1>2, <1>3, <1>4, <1>5, <1>6

LEMMA SendArpCmdKeeps == ASSUME Link!InetLinkAssumption, LinkIInv, Link!SendArpCmd PROVE LinkIInv'
<1> USE DEF LinkIInv, Link!InetLinkAssumption, Link!None, Opened
<1>1. LinkTypeOK'
  BY DEF Link!SendArpCmd, LinkTypeOK, Files, Link!Handler, Link!Reading
<1>2. Files'
  BY DEF Link!SendArpCmd, Files, LinkTypeOK, Asked, Link!Handler, Link!Reading
<1>3. Asked'
  BY DEF Link!SendArpCmd, Asked, LinkTypeOK, Files, Link!Handler, Link!Reading
<1>4. Own'
  BY DEF Link!SendArpCmd, Own, LinkTypeOK, Files, Asked, Link!Handler, Link!Reading
<1>5. Link!FramesAreOne'
  BY DEF Link!SendArpCmd, Link!FramesAreOne, LinkTypeOK, Files, Asked, Own, Link!Handler,
     Link!Reading
<1>6. Link!ReadsOwnSocket'
  BY DEF Link!SendArpCmd, Link!ReadsOwnSocket, LinkTypeOK, Files, Asked, Own, Link!Handler,
     Link!Reading
<1> QED
  BY <1>1, <1>2, <1>3, <1>4, <1>5, <1>6

LEMMA OtherCmdKeeps == ASSUME Link!InetLinkAssumption, LinkIInv, Link!OtherCmd PROVE LinkIInv'
<1> USE DEF LinkIInv, Link!InetLinkAssumption, Link!None, Opened
<1>1. LinkTypeOK'
  BY DEF Link!OtherCmd, LinkTypeOK, Files, Link!Handler, Link!Reading
<1>2. Files'
  BY DEF Link!OtherCmd, Files, LinkTypeOK, Asked, Link!Handler, Link!Reading
<1>3. Asked'
  BY DEF Link!OtherCmd, Asked, LinkTypeOK, Files, Link!Handler, Link!Reading
<1>4. Own'
  BY DEF Link!OtherCmd, Own, LinkTypeOK, Files, Asked, Link!Handler, Link!Reading
<1>5. Link!FramesAreOne'
  BY DEF Link!OtherCmd, Link!FramesAreOne, LinkTypeOK, Files, Asked, Own, Link!Handler,
     Link!Reading
<1>6. Link!ReadsOwnSocket'
  BY DEF Link!OtherCmd, Link!ReadsOwnSocket, LinkTypeOK, Files, Asked, Own, Link!Handler,
     Link!Reading
<1> QED
  BY <1>1, <1>2, <1>3, <1>4, <1>5, <1>6

\* The close ends the file: no other descriptor stands for it.
LEMMA DeinitCmdKeeps == ASSUME Link!InetLinkAssumption, LinkIInv, Link!DeinitCmd PROVE LinkIInv'
<1> USE DEF LinkIInv, Link!InetLinkAssumption, Link!None, Opened
<1>1. LinkTypeOK'
  BY DEF Link!DeinitCmd, LinkTypeOK, Files, Link!Handler, Link!Reading, Link!Closed
<1>2. Files'
  BY DEF Link!DeinitCmd, Files, LinkTypeOK, Asked, Link!Handler, Link!Reading, Link!Closed
<1>3. Asked'
  BY DEF Link!DeinitCmd, Asked, LinkTypeOK, Files, Link!Handler, Link!Reading, Link!Closed
<1>4. Own'
  <2>1. this.fd \in Fds /\ files[this.fd] # Link!None /\ lpc = "ready"
    BY DEF Link!DeinitCmd, Link!Handler, Files
  <2>2. files' = [files EXCEPT ![this.fd] = Link!None] /\ files \in [Fds -> Nat]
    BY DEF Link!DeinitCmd, Link!Closed, LinkTypeOK
  <2>3. files[this.fd] \notin {files'[d] : d \in Fds}
    BY <2>1, <2>2 DEF Files
  <2>4. files[this.fd] \in closed' /\ closed \subseteq closed'
    BY <2>1, <2>3 DEF Link!DeinitCmd
  <2> QED
    BY <2>4 DEF Link!DeinitCmd, Link!Reading, Own
<1>5. Link!FramesAreOne'
  BY DEF Link!DeinitCmd, Link!FramesAreOne, LinkTypeOK, Files, Asked, Own, Link!Handler,
     Link!Reading, Link!Closed
<1>6. Link!ReadsOwnSocket'
  BY DEF Link!DeinitCmd, Link!ReadsOwnSocket, LinkTypeOK, Files, Asked, Own, Link!Handler,
     Link!Reading, Link!Closed
<1> QED
  BY <1>1, <1>2, <1>3, <1>4, <1>5, <1>6

LEMMA AddAgainKeeps == ASSUME Link!InetLinkAssumption, LinkIInv, Link!AddAgain PROVE LinkIInv'
<1> USE DEF LinkIInv, Link!InetLinkAssumption, Link!None, Opened
<1>1. LinkTypeOK'
  BY DEF Link!AddAgain, LinkTypeOK, Files, Link!Handler, Link!Reading
<1>2. Files'
  BY DEF Link!AddAgain, Files, LinkTypeOK, Asked, Link!Handler, Link!Reading
<1>3. Asked'
  BY DEF Link!AddAgain, Asked, LinkTypeOK, Files, Link!Handler, Link!Reading
<1>4. Own'
  BY DEF Link!AddAgain, Own, LinkTypeOK, Files, Asked, Link!Handler, Link!Reading
<1>5. Link!FramesAreOne'
  BY DEF Link!AddAgain, Link!FramesAreOne, LinkTypeOK, Files, Asked, Own, Link!Handler,
     Link!Reading
<1>6. Link!ReadsOwnSocket'
  BY DEF Link!AddAgain, Link!ReadsOwnSocket, LinkTypeOK, Files, Asked, Own, Link!Handler,
     Link!Reading
<1> QED
  BY <1>1, <1>2, <1>3, <1>4, <1>5, <1>6

\* A reader whose socket is open finds it at its number.
LEMMA RecvmsgKeeps ==
  ASSUME Link!InetLinkAssumption, LinkIInv, NEW r \in Link!Readers, Link!Recvmsg(r)
  PROVE  LinkIInv'
<1> USE DEF LinkIInv, Link!InetLinkAssumption, Link!None, Opened
<1>1. LinkTypeOK'
  <2>1. reader' \in [Link!Readers -> {"none", "call", "in", "ended"}]
    BY DEF Link!Recvmsg, LinkTypeOK
  <2>2. from' \in [Link!Readers -> SUBSET Nat]
    <3>1. files[this.fd] \in Nat
      BY DEF Link!Recvmsg, LinkTypeOK, Own
    <3>2. from' = [from EXCEPT ![r] = from'[r]]
      BY DEF Link!Recvmsg, LinkTypeOK
    <3> QED
      BY <3>1, <3>2 DEF Link!Recvmsg, LinkTypeOK
  <2> QED
    BY <2>1, <2>2 DEF Link!Recvmsg, Link!HandlerVars, LinkTypeOK
<1>2. Files'
  BY DEF Link!Recvmsg, Files, LinkTypeOK, Asked, Link!Handler, Link!Reading, Link!HandlerVars
<1>3. Asked'
  BY DEF Link!Recvmsg, Asked, LinkTypeOK, Files, Link!Handler, Link!Reading, Link!HandlerVars
<1>4. Own'
  BY DEF Link!Recvmsg, Own, LinkTypeOK, Files, Asked, Link!Handler, Link!Reading,
     Link!HandlerVars
<1>5. Link!FramesAreOne'
  BY DEF Link!Recvmsg, Link!FramesAreOne, LinkTypeOK, Files, Asked, Own, Link!Handler,
     Link!Reading, Link!HandlerVars
<1>6. Link!ReadsOwnSocket'
  BY DEF Link!Recvmsg, Link!ReadsOwnSocket, LinkTypeOK, Files, Asked, Own, Link!Handler,
     Link!Reading, Link!HandlerVars
<1> QED
  BY <1>1, <1>2, <1>3, <1>4, <1>5, <1>6

LEMMA RecvReturnsKeeps ==
  ASSUME Link!InetLinkAssumption, LinkIInv, NEW r \in Link!Readers, Link!RecvReturns(r)
  PROVE  LinkIInv'
<1> USE DEF LinkIInv, Link!InetLinkAssumption, Link!None, Opened
<1>1. LinkTypeOK'
  BY DEF Link!RecvReturns, LinkTypeOK, Files, Link!Handler, Link!Reading, Link!HandlerVars
<1>2. Files'
  BY DEF Link!RecvReturns, Files, LinkTypeOK, Asked, Link!Handler, Link!Reading,
     Link!HandlerVars
<1>3. Asked'
  BY DEF Link!RecvReturns, Asked, LinkTypeOK, Files, Link!Handler, Link!Reading,
     Link!HandlerVars
<1>4. Own'
  BY DEF Link!RecvReturns, Own, LinkTypeOK, Files, Asked, Link!Handler, Link!Reading,
     Link!HandlerVars
<1>5. Link!FramesAreOne'
  BY DEF Link!RecvReturns, Link!FramesAreOne, LinkTypeOK, Files, Asked, Own, Link!Handler,
     Link!Reading, Link!HandlerVars
<1>6. Link!ReadsOwnSocket'
  BY DEF Link!RecvReturns, Link!ReadsOwnSocket, LinkTypeOK, Files, Asked, Own, Link!Handler,
     Link!Reading, Link!HandlerVars
<1> QED
  BY <1>1, <1>2, <1>3, <1>4, <1>5, <1>6

LEMMA InterfaceChangesKeeps ==
  ASSUME Link!InetLinkAssumption, LinkIInv, NEW i \in Link!Interfaces, Link!InterfaceChanges(i)
  PROVE  LinkIInv'
<1> USE DEF LinkIInv, Link!InetLinkAssumption, Link!None, Opened
<1>1. LinkTypeOK'
  BY DEF Link!InterfaceChanges, LinkTypeOK, Files, Link!Handler, Link!Reading, Link!HandlerVars
<1>2. Files'
  BY DEF Link!InterfaceChanges, Files, LinkTypeOK, Asked, Link!Handler, Link!Reading,
     Link!HandlerVars
<1>3. Asked'
  BY DEF Link!InterfaceChanges, Asked, LinkTypeOK, Files, Link!Handler, Link!Reading,
     Link!HandlerVars
<1>4. Own'
  BY DEF Link!InterfaceChanges, Own, LinkTypeOK, Files, Asked, Link!Handler, Link!Reading,
     Link!HandlerVars
<1>5. Link!FramesAreOne'
  BY DEF Link!InterfaceChanges, Link!FramesAreOne, LinkTypeOK, Files, Asked, Own,
     Link!Handler, Link!Reading, Link!HandlerVars
<1>6. Link!ReadsOwnSocket'
  BY DEF Link!InterfaceChanges, Link!ReadsOwnSocket, LinkTypeOK, Files, Asked, Own,
     Link!Handler, Link!Reading, Link!HandlerVars
<1> QED
  BY <1>1, <1>2, <1>3, <1>4, <1>5, <1>6

\* Somebody else's file gets a number that the component does not use.
LEMMA OthersOpenKeeps == ASSUME Link!InetLinkAssumption, LinkIInv, Link!OthersOpen PROVE LinkIInv'
<1> USE DEF LinkIInv, Link!InetLinkAssumption, Link!None, Opened
<1>a. UNCHANGED <<lpc, up, changes, closed, this, msgs, reader, from, frames>>
  BY DEF Link!OthersOpen
<1>b. PICK d \in Fds :
        /\ files[d] = Link!None /\ files' \in [Fds -> Nat] /\ opened' \in 0 .. MaxFiles
        /\ files'[d] = opened + 1 /\ \A e \in Fds \ {d} : files'[e] = files[e]
        /\ \A e \in Fds : files'[e] <= opened'
        /\ \A e, f \in Fds : files'[e] = files'[f] /\ files'[e] # Link!None => e = f
  <2>1. PICK d \in Fds : d = Link!Lowest(Link!FreeFds)
    BY LowestIsFree DEF Link!OthersOpen
  <2> QED
    BY <2>1, OpenFileIsNew DEF Link!OthersOpen
<1>c. lpc \in Opened => this.fd \in Fds /\ files'[this.fd] = files[this.fd]
  BY <1>b DEF Files
<1>1. LinkTypeOK'
  BY <1>a, <1>b DEF LinkTypeOK
<1>2. Files'
  BY <1>a, <1>b, <1>c DEF Files
<1>3. Asked'
  BY <1>a, <1>c DEF Asked
<1>4. Own'
  BY <1>a, <1>c DEF Own
<1>5. Link!FramesAreOne'
  BY <1>a DEF Link!FramesAreOne
<1>6. Link!ReadsOwnSocket'
  BY <1>a DEF Link!ReadsOwnSocket
<1> QED
  BY <1>1, <1>2, <1>3, <1>4, <1>5, <1>6

-----------------------------------------------------------------------------
LEMMA LinkInitIInv == ASSUME Link!InetLinkAssumption PROVE Link!Init => LinkIInv
<1> SUFFICES ASSUME Link!Init PROVE LinkIInv
  OBVIOUS
<1>1. LinkTypeOK
  BY DEF Link!Init, LinkTypeOK, Link!None, Link!InetLinkAssumption
<1> QED
  BY <1>1 DEF Link!Init, LinkIInv, Files, Asked, Own, Link!FramesAreOne, Link!ReadsOwnSocket,
     Opened, Link!None

LEMMA LinkNextIInv ==
  ASSUME Link!InetLinkAssumption
  PROVE  LinkIInv /\ [Link!Next]_(Link!ilvars) => LinkIInv'
<1> SUFFICES ASSUME LinkIInv, [Link!Next]_(Link!ilvars) PROVE LinkIInv'
  OBVIOUS
<1>1. CASE Link!InitCmd \/ Link!GetIfindex \/ Link!GetMac \/ Link!GetIp \/ Link!CreateReader
  BY <1>1, InitCmdKeeps, GetIfindexKeeps, GetMacKeeps, GetIpKeeps, CreateReaderKeeps
<1>2. CASE Link!SendArpCmd \/ Link!OtherCmd \/ Link!DeinitCmd \/ Link!AddAgain
  BY <1>2, SendArpCmdKeeps, OtherCmdKeeps, DeinitCmdKeeps, AddAgainKeeps
<1>3. CASE \E r \in Link!Readers : Link!Recvmsg(r) \/ Link!RecvReturns(r)
  BY <1>3, RecvmsgKeeps, RecvReturnsKeeps
<1>4. CASE (\E i \in Link!Interfaces : Link!InterfaceChanges(i)) \/ Link!OthersOpen
  BY <1>4, InterfaceChangesKeeps, OthersOpenKeeps
<1>5. CASE UNCHANGED Link!ilvars
  BY <1>5 DEF Link!ilvars, LinkIInv, LinkTypeOK, Files, Asked, Own, Link!FramesAreOne,
     Link!ReadsOwnSocket
<1> QED
  BY <1>1, <1>2, <1>3, <1>4, <1>5 DEF Link!Next

\* What the component sends is of one socket and one interface, and a reader reads
\* from no other socket before its own is closed, whatever happens to interfaces and
\* descriptors in between.
THEOREM SocketsAreKeptApart ==
  ASSUME Link!InetLinkAssumption
  PROVE  Link!Spec => []SocketsKeptApart
<1>1. LinkIInv => SocketsKeptApart
  BY DEF SocketsKeptApart, LinkIInv, Link!SocketsKeptApart
<1>2. Link!InetLinkAssumption => (Link!Init => LinkIInv)
  BY LinkInitIInv
<1>3. Link!InetLinkAssumption => (LinkIInv /\ [Link!Next]_(Link!ilvars) => LinkIInv')
  BY LinkNextIInv
<1> QED
  BY <1>1, <1>2, <1>3, PTL DEF Link!Spec

-----------------------------------------------------------------------------
(* The tcbs that wait, for any tcbs and deadlines.  IsHeap is what the     *)
(* loops of add and remove rely on and restore; the lemmas about ways are  *)
(* about both loops: a way is the slots that a loop comes to, whose ranks  *)
(* fall from each to the next.  The array is not left as long as it has    *)
(* room for all tcbs, which the code does not see to (waiting_over).       *)

\* The slots that a loop comes to from slot i.
IsWay(W, n, i, to) ==
  /\ W \subseteq 1 .. n /\ i \in W
  /\ \A j \in W : to[j] # 0 => to[j] \in W
  /\ \A S \in SUBSET W : i \in S /\ (\A j \in S : to[j] # 0 => to[j] \in S) => S = W

\* Ranks of the slots, which fall along to.
Falls(r, n, to) ==
  /\ r \in [1 .. n -> 0 .. n]
  /\ \A j, k \in 1 .. n : r[j] = r[k] => j = k
  /\ \A j \in 1 .. n : to[j] # 0 => r[to[j]] < r[j]

LEMMA ReachedIsWay ==
  ASSUME NEW n \in Nat, NEW i \in 1 .. n, NEW to \in [1 .. n -> 0 .. n]
  PROVE  IsWay(Waiting!Reached(n, i, to), n, i, to)
<1> DEFINE W == Waiting!Reached(n, i, to)
<1>1. W \subseteq 1 .. n /\ i \in W
  BY DEF Waiting!Reached
<1>2. ASSUME NEW j \in W, to[j] # 0 PROVE to[j] \in W
  <2>1. to[j] \in 1 .. n
    BY <1>1, <1>2
  <2>2. ASSUME NEW S \in SUBSET (1 .. n), i \in S, \A l \in S : to[l] # 0 => to[l] \in S PROVE to[j] \in S
    BY <1>2, <2>2 DEF Waiting!Reached
  <2> QED BY <2>1, <2>2 DEF Waiting!Reached
<1>3. ASSUME NEW S \in SUBSET W, i \in S, \A j \in S : to[j] # 0 => to[j] \in S PROVE S = W
  <2>1. S \in SUBSET (1 .. n)
    BY <1>1
  <2>2. \A k \in W : k \in S
    BY <1>3, <2>1 DEF Waiting!Reached
  <2> QED BY <2>2
<1> HIDE DEF W
<1>4. IsWay(W, n, i, to)
  BY <1>1, <1>2, <1>3 DEF IsWay
<1> QED BY <1>4 DEF W

LEMMA LeastNumber ==
  ASSUME NEW N \in SUBSET Nat, N # {}
  PROVE  \E n \in N : \A m \in N : n <= m
<1> DEFINE Less == OpToRel(<, Nat)
<1>1. IsWellFoundedOn(Less, Nat)
  BY NatLessThanWellFounded
<1>2. PICK n \in N : \A m \in N : <<m, n>> \notin Less
  BY <1>1, WFMin
<1>3. ASSUME NEW m \in N PROVE n <= m
  <2>1. n \in Nat /\ m \in Nat
    OBVIOUS
  <2>2. ~(m < n)
    BY <1>2, <2>1 DEF OpToRel
  <2> QED BY <2>1, <2>2
<1> QED BY <1>3

\* A slot of a loop is where it began, or was come to from another.
LEMMA WayFrom ==
  ASSUME NEW n, NEW i, NEW to, NEW W, IsWay(W, n, i, to), NEW k \in W, k # i
  PROVE  \E j \in W : to[j] = k
<1> SUFFICES ASSUME \A j \in W : to[j] # k PROVE FALSE
  OBVIOUS
<1>1. \A j \in W \ {k} : to[j] # 0 => to[j] \in W \ {k}
  BY DEF IsWay
<1>2. W \ {k} = W
  BY <1>1 DEF IsWay
<1> QED BY <1>2

\* The slot a loop began at has the highest rank, and is not come to again.
LEMMA WayBegins ==
  ASSUME NEW n \in Nat, NEW i, NEW to \in [1 .. n -> 0 .. n], NEW W, IsWay(W, n, i, to),
         NEW r, Falls(r, n, to)
  PROVE  (\A k \in W : r[k] <= r[i]) /\ (\A k \in W : to[k] # i)
<1>0. W \subseteq 1 .. n /\ i \in W /\ \A k \in 1 .. n : r[k] \in 0 .. n
  BY DEF IsWay, Falls
<1>1. \A k \in W : r[k] <= r[i]
  <2> DEFINE S == {k \in W : r[k] <= r[i]}
  <2>1. ASSUME NEW j \in S, to[j] # 0 PROVE to[j] \in S
    <3>1. to[j] \in W /\ r[to[j]] < r[j] /\ r[j] <= r[i]
      BY <1>0, <2>1 DEF IsWay, Falls
    <3>2. r[to[j]] \in Int /\ r[j] \in Int /\ r[i] \in Int
      BY <1>0, <3>1
    <3> QED BY <3>1, <3>2
  <2>2. i \in S
    BY <1>0
  <2>3. S = W
    BY <2>1, <2>2 DEF IsWay
  <2> QED BY <2>3
<1>2. \A k \in W : to[k] # i
  <2> SUFFICES ASSUME NEW k \in W, to[k] = i PROVE FALSE
    OBVIOUS
  <2>1. k \in 1 .. n /\ i \in 1 .. n /\ i # 0
    BY <1>0
  <2>3. r[i] < r[k]
    BY <2>1 DEF Falls
  <2>2. r[i] \in Int /\ r[k] \in Int
    BY <1>0
  <2> QED BY <1>1, <2>2, <2>3
<1> QED BY <1>1, <1>2

\* A way leaves no slot out: of two of its slots the next of the higher one is not lower
\* than the lower one.
LEMMA WayIsChain ==
  ASSUME NEW n \in Nat, NEW i, NEW to \in [1 .. n -> 0 .. n], NEW W, IsWay(W, n, i, to),
         NEW r, Falls(r, n, to)
  PROVE  \A a, b \in W : r[a] < r[b] => to[b] # 0 /\ r[a] <= r[to[b]]
<1> DEFINE Gap(a, b) == r[a] < r[b] /\ ~(to[b] # 0 /\ r[a] <= r[to[b]])
           Bad == {b \in W : \E a \in W : Gap(a, b)}
<1>0. W \subseteq 1 .. n /\ i \in W /\ \A k \in 1 .. n : r[k] \in 0 .. n
  BY DEF IsWay, Falls
<1>01. ASSUME NEW k \in W PROVE k \in 1 .. n /\ r[k] \in Int /\ r[k] >= 0 /\ r[k] <= n
  BY <1>0
<1> SUFFICES ASSUME Bad # {} PROVE FALSE
  OBVIOUS
<1> DEFINE D == {n - r[b] : b \in Bad}
<1>1. D \in SUBSET Nat /\ D # {}
  <2>1. \A b \in Bad : n - r[b] \in Nat
    BY <1>01
  <2> QED BY <2>1
<1>2. PICK d \in D : \A e \in D : d <= e
  BY <1>1, LeastNumber
<1>3. PICK b \in Bad : d = n - r[b]
  BY <1>2
<1>4. \A c \in Bad : r[c] <= r[b]
  <2> SUFFICES ASSUME NEW c \in Bad PROVE r[c] <= r[b]
    OBVIOUS
  <2>1. d <= n - r[c] /\ r[c] \in Int /\ r[b] \in Int
    BY <1>01, <1>2
  <2> QED BY <1>3, <2>1
<1> DEFINE S == {y \in W : ~Gap(y, b)}
<1>5. b \in W /\ b \in 1 .. n /\ r[b] \in Int
  BY <1>0
<1>6. i \in S
  <2>1. r[b] <= r[i] /\ r[i] \in Int
    BY <1>0, <1>01, <1>5, WayBegins
  <2> QED BY SMTT(30), <1>0, <1>5, <2>1
<1>7. ASSUME NEW y \in S, to[y] # 0 PROVE to[y] \in S
  <2> DEFINE z == to[y]
  <2>1. y \in W /\ z \in W /\ r[z] < r[y] /\ r[z] \in Int /\ r[y] \in Int
    <3>1. y \in W /\ z \in W
      BY <1>7 DEF IsWay
    <3>2. y \in 1 .. n
      BY <1>01, <3>1
    <3>3. r[z] < r[y]
      BY <1>7, <3>2 DEF Falls
    <3> QED BY <1>01, <3>1, <3>3
  <2>2. CASE r[y] > r[b]
    <3>1. y \notin Bad
      <4> SUFFICES ASSUME y \in Bad PROVE FALSE
        OBVIOUS
      <4>1. r[y] <= r[b]
        BY <1>4
      <4> QED BY <1>5, <2>1, <2>2, <4>1
    <3>2. ~Gap(b, y)
      BY <1>5, <2>1, <3>1
    <3>3. r[b] <= r[z]
      BY <1>5, <2>1, <2>2, <3>2
    <3> QED BY <1>5, <2>1, <3>3
  <2>3. CASE r[y] = r[b]
    <3>1. y = b
      BY <1>0, <1>5, <2>1, <2>3 DEF Falls
    <3> QED BY <1>7, <2>1, <3>1
  <2>4. CASE r[y] < r[b]
    <3>1. to[b] # 0 /\ r[y] <= r[to[b]]
      BY <1>7, <2>4
    <3>2. to[b] \in W
      BY <1>5, <3>1 DEF IsWay
    <3>3. r[to[b]] \in Int
      BY <1>01, <3>2
    <3> QED BY <1>5, <2>1, <3>1, <3>3
  <2> QED BY <1>5, <2>1, <2>2, <2>3, <2>4
<1>8. S = W
  BY <1>6, <1>7 DEF IsWay
<1>9. PICK a \in W : Gap(a, b)
  OBVIOUS
<1> QED BY <1>8, <1>9

-----------------------------------------------------------------------------
(* What a loop does with the tcbs.  h[i] is not among them: the slot that is *)
(* new, or the root that is taken away.                                    *)

\* The n slots of g have t and what h has but in slot i, each tcb once.
Same(g, h, n, i, t) ==
  /\ g \in [1 .. n -> Tcbs]
  /\ \A j, k \in 1 .. n : g[j] = g[k] => j = k
  /\ \A k \in 1 .. n : g[k] = t \/ \E j \in 1 .. n : j # i /\ g[k] = h[j]
  /\ \A j \in 1 .. n : j # i => \E k \in 1 .. n : g[k] = h[j]
  /\ \E k \in 1 .. n : g[k] = t

LEMMA SiftKeeps ==
  ASSUME NEW n \in Nat, NEW i \in 1 .. n, NEW to \in [1 .. n -> 0 .. n], NEW r, Falls(r, n, to),
         NEW h, NEW t \in Tcbs,
         \A k \in 1 .. n : k # i => h[k] \in Tcbs /\ h[k] # t,
         \A j, k \in 1 .. n : j # i /\ k # i /\ h[j] = h[k] => j = k,
         NEW g, g = Waiting!Sift(h, n, i, t, to)
  PROVE  Same(g, h, n, i, t)
<1> DEFINE W == Waiting!Reached(n, i, to)
<1>1. IsWay(W, n, i, to)
  BY ReachedIsWay
<1>2. g = [k \in 1 .. n |-> IF k \notin W THEN h[k] ELSE IF to[k] = 0 THEN t ELSE h[to[k]]]
  BY DEF Waiting!Sift
<1> HIDE DEF W
<1>3. W \subseteq 1 .. n /\ i \in W /\ \A k \in W : to[k] # 0 => to[k] \in W
  BY <1>1 DEF IsWay
<1>4. /\ \A k \in W : to[k] # i
      /\ \A k \in W : k # i => \E j \in W : to[j] = k
  <2>1. \A k \in W : to[k] # i
    BY <1>1, WayBegins
  <2>2. ASSUME NEW k \in W, k # i PROVE \E j \in W : to[j] = k
    BY <1>1, <2>2, WayFrom
  <2> QED BY <2>1, <2>2
<1>5. \A a, b \in W : r[a] < r[b] => to[b] # 0 /\ r[a] <= r[to[b]]
  BY <1>1, WayIsChain
<1>6. \A k \in 1 .. n : r[k] \in Int
  BY DEF Falls
<1>7. ASSUME NEW j \in W, NEW k \in W, to[j] = to[k] PROVE j = k
  <2>1. j \in 1 .. n /\ k \in 1 .. n
    BY <1>3
  <2>2. ASSUME NEW a \in W, NEW b \in W, to[a] = to[b] PROVE ~(r[a] < r[b])
    <3> SUFFICES ASSUME r[a] < r[b] PROVE FALSE
      OBVIOUS
    <3>1. to[b] # 0 /\ r[a] <= r[to[b]]
      BY <1>5
    <3>2. a \in 1 .. n /\ to[a] \in 1 .. n
      BY <1>3, <2>2, <3>1
    <3>3. r[to[a]] < r[a]
      BY <2>2, <3>1, <3>2 DEF Falls
    <3>4. r[a] \in Int /\ r[to[a]] \in Int
      BY <1>6, <3>2
    <3> QED BY <2>2, <3>1, <3>3, <3>4
  <2>3. ~(r[j] < r[k]) /\ ~(r[k] < r[j])
    BY <1>7, <2>2
  <2>4. r[j] = r[k]
    BY <1>6, <2>1, <2>3
  <2> QED BY <2>1, <2>4 DEF Falls
<1>8. ASSUME NEW k \in 1 .. n
      PROVE  /\ k \notin W => g[k] = h[k] /\ k # i
             /\ k \in W /\ to[k] = 0 => g[k] = t
             /\ k \in W /\ to[k] # 0 => g[k] = h[to[k]] /\ to[k] \in 1 .. n /\ to[k] # i /\ to[k] \in W
  BY <1>2, <1>3, <1>4
<1>9. g \in [1 .. n -> Tcbs]
  <2>1. \A k \in 1 .. n : g[k] \in Tcbs
    BY <1>8
  <2> QED BY <1>2, <2>1
<1>10. ASSUME NEW j \in 1 .. n, NEW k \in 1 .. n, g[j] = g[k] PROVE j = k
  <2>1. CASE j \notin W /\ k \notin W
    BY <1>8, <1>10, <2>1
  <2>2. CASE j \in W /\ k \in W
    <3>1. to[j] = 0 /\ to[k] = 0 => to[j] = to[k]
      OBVIOUS
    <3>2. to[j] # 0 /\ to[k] # 0 => to[j] = to[k]
      BY <1>8, <1>10, <2>2
    <3>3. ~(to[j] = 0 /\ to[k] # 0) /\ ~(to[j] # 0 /\ to[k] = 0)
      BY <1>8, <1>10, <2>2
    <3> QED BY <1>7, <2>2, <3>1, <3>2, <3>3
  <2>3. CASE j \in W /\ k \notin W
    BY <1>8, <1>10, <2>3
  <2>4. CASE j \notin W /\ k \in W
    BY <1>8, <1>10, <2>4
  <2> QED BY <2>1, <2>2, <2>3, <2>4
<1>11. ASSUME NEW k \in 1 .. n PROVE g[k] = t \/ \E j \in 1 .. n : j # i /\ g[k] = h[j]
  BY <1>8
<1>12. ASSUME NEW k \in (1 .. n) \ {i} PROVE \E j \in 1 .. n : g[j] = h[k]
  <2>1. CASE k \notin W
    BY <1>8, <2>1
  <2>2. CASE k \in W
    <3>1. PICK j \in W : to[j] = k
      BY <1>4, <2>2
    <3>2. j \in 1 .. n /\ to[j] # 0
      BY <1>3, <3>1
    <3> QED BY <1>8, <3>1, <3>2
  <2> QED BY <2>1, <2>2
<1>13. \E k \in 1 .. n : g[k] = t
  <2> DEFINE R == {r[k] : k \in W}
  <2>1. R \in SUBSET Nat /\ R # {}
    <3>1. \A k \in W : r[k] \in Nat
      BY <1>3 DEF Falls
    <3> QED BY <1>3, <3>1
  <2>2. PICK m \in R : \A l \in R : m <= l
    BY <2>1, LeastNumber
  <2>3. PICK k \in W : m = r[k]
    BY <2>2
  <2>4. to[k] = 0
    <3> SUFFICES ASSUME to[k] # 0 PROVE FALSE
      OBVIOUS
    <3>1. to[k] \in W /\ k \in 1 .. n
      BY <1>3
    <3>2. r[to[k]] < r[k]
      BY <3>1 DEF Falls
    <3>3. m <= r[to[k]]
      BY <2>2, <3>1
    <3>4. r[to[k]] \in Int /\ r[k] \in Int
      BY <1>3, <1>6, <3>1
    <3> QED BY <2>3, <3>2, <3>3, <3>4
  <2> QED BY <1>3, <1>8, <2>4
<1> QED BY <1>9, <1>10, <1>11, <1>12, <1>13 DEF Same

-----------------------------------------------------------------------------
(* The heap                                                                *)

\* No tcb in the first n slots of h is due before the one in its parent.
IsHeap(h, n, due) == \A k \in 2 .. n : due[h[Waiting!Parent(k)]] <= due[h[k]]

LEMMA ParentIs ==
  ASSUME NEW k \in Nat, k > 1
  PROVE  Waiting!Parent(k) \in Nat /\ 1 <= Waiting!Parent(k) /\ Waiting!Parent(k) < k
    /\ (k = 2 * Waiting!Parent(k) \/ k = 2 * Waiting!Parent(k) + 1)
<1>1. k \div 2 \in Int /\ (k = 2 * (k \div 2) \/ k = 2 * (k \div 2) + 1)
  OBVIOUS
<1> QED BY <1>1 DEF Waiting!Parent

LEMMA ChildIs ==
  ASSUME NEW k \in Nat
  PROVE  Waiting!Parent(2 * k) = k /\ Waiting!Parent(2 * k + 1) = k
BY DEF Waiting!Parent

LEMMA RootIsFirst ==
  ASSUME NEW n \in Nat \ {0}, NEW h, NEW due,
         \A k \in 1 .. n : due[h[k]] \in Int, IsHeap(h, n, due)
  PROVE  \A k \in 1 .. n : due[h[1]] <= due[h[k]]
<1> DEFINE B == {k \in 1 .. n : ~(due[h[1]] <= due[h[k]])}
<1> SUFFICES ASSUME B # {} PROVE FALSE
  OBVIOUS
<1>0. B \in SUBSET Nat
  OBVIOUS
<1>1. PICK b \in B : \A k \in B : b <= k
  BY <1>0, LeastNumber
<1>2. b \in 2 .. n
  <2>1. 1 \in 1 .. n
    OBVIOUS
  <2>2. 1 \notin B
    BY <2>1
  <2> QED BY <2>2
<1> DEFINE p == Waiting!Parent(b)
<1>3. p \in 1 .. n /\ p < b
  BY <1>2, ParentIs
<1>4. p \notin B
  BY <1>1, <1>3
<1>5. due[h[p]] <= due[h[b]]
  BY <1>2 DEF IsHeap
<1> QED BY <1>3, <1>4, <1>5

LEMMA UpIs ==
  ASSUME NEW n \in Nat \ {0}, NEW h, NEW t, NEW due
  PROVE  /\ Waiting!Up(h, n, t, due) \in [1 .. n -> 0 .. n]
         /\ Falls([k \in 1 .. n |-> k], n, Waiting!Up(h, n, t, due))
<1> DEFINE to == Waiting!Up(h, n, t, due)
           r == [k \in 1 .. n |-> k]
<1>1. ASSUME NEW k \in 1 .. n PROVE to[k] \in 0 .. n /\ (to[k] # 0 => to[k] < k /\ to[k] \in 1 .. n)
  <2>1. k > 1 => Waiting!Parent(k) \in 1 .. n /\ Waiting!Parent(k) < k
    BY ParentIs
  <2> QED BY <2>1 DEF Waiting!Up
<1>2. to \in [1 .. n -> 0 .. n]
  BY <1>1 DEF Waiting!Up
<1> HIDE DEF to
<1>3. \A k \in 1 .. n : r[k] = k
  OBVIOUS
<1> HIDE DEF r
<1>4. r \in [1 .. n -> 0 .. n]
  BY DEF r
<1>5. Falls(r, n, to)
  BY <1>1, <1>3, <1>4 DEF Falls
<1> QED BY <1>2, <1>5 DEF to, r

LEMMA SmallerChildIs ==
  ASSUME NEW n \in Nat, NEW k \in 1 .. n, NEW h, NEW due,
         \A j \in 2 .. n : due[h[j]] \in Int, 2 * k <= n,
         NEW c, c = Waiting!SmallerChild(h, n, k, due)
  PROVE  /\ c \in 2 .. n /\ k < c /\ Waiting!Parent(c) = k
         /\ \A j \in 2 .. n : Waiting!Parent(j) = k => due[h[c]] <= due[h[j]]
<1>1. c \in 2 .. n /\ k < c /\ Waiting!Parent(c) = k
  BY ChildIs DEF Waiting!SmallerChild
<1>2. ASSUME NEW j \in 2 .. n, Waiting!Parent(j) = k PROVE due[h[c]] <= due[h[j]]
  <2>1. j = 2 * k \/ j = 2 * k + 1
    BY <1>2, ParentIs
  <2>2. due[h[2 * k]] \in Int /\ (2 * k + 1 <= n => due[h[2 * k + 1]] \in Int)
    OBVIOUS
  <2> QED BY <2>1, <2>2 DEF Waiting!SmallerChild
<1> QED BY <1>1, <1>2

LEMMA DownIs ==
  ASSUME NEW n \in Nat, NEW h, NEW t, NEW due, \A j \in 2 .. n : due[h[j]] \in Int
  PROVE  /\ Waiting!Down(h, n, t, due) \in [1 .. n -> 0 .. n]
         /\ Falls([k \in 1 .. n |-> n - k], n, Waiting!Down(h, n, t, due))
<1> DEFINE to == Waiting!Down(h, n, t, due)
           r == [k \in 1 .. n |-> n - k]
<1>1. ASSUME NEW k \in 1 .. n PROVE to[k] \in 0 .. n /\ (to[k] # 0 => k < to[k] /\ to[k] \in 1 .. n)
  <2>1. 2 * k <= n => Waiting!SmallerChild(h, n, k, due) \in 2 .. n
         /\ k < Waiting!SmallerChild(h, n, k, due)
    BY SmallerChildIs
  <2> QED BY <2>1 DEF Waiting!Down
<1>2. to \in [1 .. n -> 0 .. n]
  BY <1>1 DEF Waiting!Down
<1> HIDE DEF to
<1>3. \A k \in 1 .. n : r[k] = n - k
  OBVIOUS
<1> HIDE DEF r
<1>4. r \in [1 .. n -> 0 .. n]
  BY DEF r
<1>5. Falls(r, n, to)
  BY <1>1, <1>3, <1>4 DEF Falls
<1> QED BY <1>2, <1>5 DEF to, r

LEMMA SiftUpKeeps ==
  ASSUME NEW m \in Nat, NEW h, NEW t \in Tcbs, NEW due, NEW n, n = m + 1,
         \A k \in 1 .. m : h[k] \in Tcbs /\ h[k] # t,
         \A u \in Tcbs : due[u] \in Int,
         \A j, k \in 1 .. m : h[j] = h[k] => j = k,
         IsHeap(h, m, due),
         NEW g, g = Waiting!Sift(h, n, n, t, Waiting!Up(h, n, t, due))
  PROVE  Same(g, h, n, n, t) /\ IsHeap(g, n, due)
<1> DEFINE to == Waiting!Up(h, n, t, due)
           r == [k \in 1 .. n |-> k]
           W == Waiting!Reached(n, n, to)
<1>0. n \in Nat \ {0} /\ (1 .. n) \ {n} = 1 .. m /\ 1 .. m \subseteq 1 .. n /\ n \in 1 .. n
  OBVIOUS
<1>1. to \in [1 .. n -> 0 .. n] /\ Falls(r, n, to) /\ \A k \in 1 .. n : r[k] = k
  BY <1>0, UpIs
<1>2. \A k \in 1 .. n : to[k] = IF k > 1 /\ due[t] < due[h[Waiting!Parent(k)]] THEN Waiting!Parent(k) ELSE 0
  BY DEF Waiting!Up, Waiting!Passes
<1>3. g = [k \in 1 .. n |-> IF k \notin W THEN h[k] ELSE IF to[k] = 0 THEN t ELSE h[to[k]]]
  BY DEF Waiting!Sift
<1>4. IsWay(W, n, n, to)
  BY <1>0, <1>1, ReachedIsWay
<1> HIDE DEF to, r, W
<1>5. W \subseteq 1 .. n /\ n \in W /\ \A k \in W : to[k] # 0 => to[k] \in W
  BY <1>4 DEF IsWay
<1>6. \A k \in W : k # n => \E j \in W : to[j] = k
  BY <1>4, WayFrom
<1>7. \A a, b \in W : r[a] < r[b] => to[b] # 0 /\ r[a] <= r[to[b]]
  BY <1>0, <1>1, <1>4, WayIsChain
<1>8. ASSUME NEW a \in W, NEW b \in W, a < b PROVE to[b] # 0 /\ a <= to[b]
  <2>1. a \in 1 .. n /\ b \in 1 .. n
    BY <1>5
  <2>2. to[b] # 0 /\ r[a] <= r[to[b]]
    BY <1>1, <1>7, <1>8, <2>1
  <2> QED BY <1>1, <1>5, <2>1, <2>2
<1>9. ASSUME NEW k \in 2 .. n PROVE due[g[Waiting!Parent(k)]] <= due[g[k]]
  <2> DEFINE p == Waiting!Parent(k)
  <2>1. p \in 1 .. m /\ p < k /\ p \in 1 .. n
    BY <1>0, ParentIs
  <2>2. due[t] \in Int /\ \A j \in 1 .. m : due[h[j]] \in Int
    OBVIOUS
  <2>3. \A j \in 2 .. m : due[h[Waiting!Parent(j)]] <= due[h[j]]
    BY DEF IsHeap
  \* What has come to the parent was not due after what was there.
  <2>4. ASSUME p \in W PROVE due[g[p]] <= due[h[p]] /\ due[g[p]] \in Int
    <3>1. PICK j \in W : to[j] = p
      BY <1>0, <1>6, <2>1, <2>4
    <3>2. j \in 1 .. n /\ due[t] < due[h[p]]
      BY <1>2, <1>5, <2>1, <3>1
    <3>3. to[p] = 0 => g[p] = t
      BY <1>3, <2>1, <2>4
    <3>4. to[p] # 0 => g[p] = h[to[p]] /\ to[p] = Waiting!Parent(p) /\ p > 1
      BY <1>2, <1>3, <2>1, <2>4
    <3>5. p > 1 => due[h[Waiting!Parent(p)]] <= due[h[p]] /\ Waiting!Parent(p) \in 1 .. m
      BY <2>1, <2>3, ParentIs
    <3> QED BY <2>1, <2>2, <3>2, <3>3, <3>4, <3>5
  <2>5. p \notin W => g[p] = h[p]
    BY <1>3, <2>1
  <2>6. CASE k \notin W
    <3>1. g[k] = h[k] /\ k \in 2 .. m
      BY <1>0, <1>3, <1>5, <2>6
    <3>2. due[h[p]] <= due[h[k]]
      BY <2>3, <3>1
    <3> QED BY <2>1, <2>2, <2>4, <2>5, <3>1, <3>2
  <2>7. CASE k \in W /\ to[k] # 0
    <3>1. to[k] = p /\ g[k] = h[p] /\ p \in W
      BY <1>2, <1>3, <1>5, <2>7
    <3> QED BY <2>4, <3>1
  <2>8. CASE k \in W /\ to[k] = 0
    <3>1. g[k] = t
      BY <1>3, <2>8
    <3>2. p \notin W
      BY <1>8, <2>1, <2>8
    <3>3. ~(due[t] < due[h[p]])
      BY <1>2, <2>1, <2>8
    <3> QED BY <2>1, <2>2, <2>5, <3>1, <3>2, <3>3
  <2> QED BY <2>6, <2>7, <2>8
<1>10. \A k \in 1 .. n : k # n => h[k] \in Tcbs /\ h[k] # t
  BY <1>0
<1>11. \A j, k \in 1 .. n : j # n /\ k # n /\ h[j] = h[k] => j = k
  BY <1>0
<1>12. g = Waiting!Sift(h, n, n, t, to)
  BY DEF to
<1>13. Same(g, h, n, n, t)
  <2>1. n \in Nat /\ t \in Tcbs
    OBVIOUS
  <2> QED BY ONLY <1>0, <1>1, <1>10, <1>11, <1>12, <2>1, SiftKeeps
<1> QED BY <1>0, <1>9, <1>13 DEF IsHeap

\* h has n + 1 slots, the last of which is the tcb that takes the root's place.
LEMMA SiftDownKeeps ==
  ASSUME NEW n \in Nat \ {0}, NEW h, NEW t \in Tcbs, NEW due,
         \A k \in 1 .. n : h[k] \in Tcbs /\ h[k] # t,
         \A u \in Tcbs : due[u] \in Int,
         \A j, k \in 1 .. n : h[j] = h[k] => j = k,
         IsHeap(h, n, due),
         NEW g, g = Waiting!Sift(h, n, 1, t, Waiting!Down(h, n, t, due))
  PROVE  Same(g, h, n, 1, t) /\ IsHeap(g, n, due)
<1> DEFINE to == Waiting!Down(h, n, t, due)
           r == [k \in 1 .. n |-> n - k]
           W == Waiting!Reached(n, 1, to)
<1>0. (1 .. n) \ {1} = 2 .. n /\ 1 \in 1 .. n /\ 2 .. n \subseteq 1 .. n
  OBVIOUS
<1>01. due[t] \in Int /\ \A k \in 1 .. n : due[h[k]] \in Int
  OBVIOUS
<1>1. to \in [1 .. n -> 0 .. n] /\ Falls(r, n, to)
  BY <1>0, <1>01, DownIs
<1>2. \A k \in 1 .. n : to[k] = IF 2 * k <= n /\ due[t] > due[h[Waiting!SmallerChild(h, n, k, due)]]
                                THEN Waiting!SmallerChild(h, n, k, due) ELSE 0
  BY DEF Waiting!Down
<1>3. g = [k \in 1 .. n |-> IF k \notin W THEN h[k] ELSE IF to[k] = 0 THEN t ELSE h[to[k]]]
  BY DEF Waiting!Sift
<1>4. IsWay(W, n, 1, to)
  BY <1>0, <1>1, ReachedIsWay
<1> HIDE DEF to, r, W
<1>5. W \subseteq 1 .. n /\ 1 \in W /\ \A k \in W : to[k] # 0 => to[k] \in W
  BY <1>4 DEF IsWay
<1>6. \A k \in W : k # 1 => \E j \in W : to[j] = k
  BY <1>4, WayFrom
\* The next of a slot is its child that is due first, and due before t.
<1>7. ASSUME NEW k \in 1 .. n, to[k] # 0
      PROVE  /\ to[k] \in 2 .. n /\ Waiting!Parent(to[k]) = k /\ due[h[to[k]]] < due[t]
             /\ \A j \in 2 .. n : Waiting!Parent(j) = k => due[h[to[k]]] <= due[h[j]]
  <2>1. 2 * k <= n /\ to[k] = Waiting!SmallerChild(h, n, k, due) /\ due[t] > due[h[to[k]]]
    BY <1>2, <1>7
  <2>2. \A j \in 2 .. n : due[h[j]] \in Int
    BY <1>0, <1>01
  <2>3. /\ to[k] \in 2 .. n /\ Waiting!Parent(to[k]) = k
        /\ \A j \in 2 .. n : Waiting!Parent(j) = k => due[h[to[k]]] <= due[h[j]]
    BY <2>1, <2>2, SmallerChildIs
  <2>4. due[h[to[k]]] < due[t]
    BY <1>0, <1>01, <2>1, <2>3
  <2> QED BY <2>3, <2>4
\* Where the loop ends, t is not due after a child.
<1>8. ASSUME NEW k \in 1 .. n, to[k] = 0, NEW j \in 2 .. n, Waiting!Parent(j) = k PROVE due[t] <= due[h[j]]
  <2> DEFINE c == Waiting!SmallerChild(h, n, k, due)
  <2>1. 2 * k <= n
    BY <1>8, ParentIs
  <2>2. \A l \in 2 .. n : due[h[l]] \in Int
    BY <1>0, <1>01
  <2>3. c \in 2 .. n /\ due[h[c]] <= due[h[j]] /\ k < c
    BY <1>8, <2>1, <2>2, SmallerChildIs
  <2> HIDE DEF c
  <2>4. ~(due[t] > due[h[c]])
    BY <1>2, <1>8, <2>1, <2>3 DEF c
  <2> QED BY <1>01, <2>2, <2>3, <2>4
<1>9. ASSUME NEW k \in 2 .. n PROVE due[g[Waiting!Parent(k)]] <= due[g[k]]
  <2> DEFINE p == Waiting!Parent(k)
  <2>1. p \in 1 .. n /\ p < k /\ k \in 1 .. n
    BY ParentIs
  <2>2. \A j \in 2 .. n : due[h[Waiting!Parent(j)]] <= due[h[j]]
    BY DEF IsHeap
  <2>3. k \in W => p \in W /\ to[p] = k
    <3> SUFFICES ASSUME k \in W PROVE p \in W /\ to[p] = k
      OBVIOUS
    <3>1. PICK j \in W : to[j] = k
      BY <1>6
    <3>2. j \in 1 .. n /\ to[j] # 0
      BY <1>5, <3>1
    <3> QED BY <1>7, <3>1, <3>2
  <2>4. CASE p \notin W
    <3>1. g[p] = h[p] /\ g[k] = h[k]
      BY <1>3, <2>1, <2>3, <2>4
    <3> QED BY <2>2, <3>1
  <2>5. CASE p \in W /\ to[p] = k
    <3>1. k \in W /\ g[p] = h[k]
      BY <1>3, <1>5, <2>1, <2>5
    <3>2. to[k] = 0 => g[k] = t /\ due[h[k]] < due[t]
      BY <1>3, <1>7, <2>1, <2>5, <3>1
    <3>3. to[k] # 0 => g[k] = h[to[k]] /\ to[k] \in 2 .. n /\ Waiting!Parent(to[k]) = k
      BY <1>3, <1>7, <2>1, <3>1
    <3> QED BY <1>01, <2>1, <2>2, <3>1, <3>2, <3>3
  <2>6. CASE p \in W /\ to[p] # k /\ to[p] # 0
    <3>1. g[p] = h[to[p]] /\ g[k] = h[k]
      BY <1>3, <2>1, <2>3, <2>6
    <3>2. due[h[to[p]]] <= due[h[k]]
      BY <1>7, <2>1, <2>6
    <3> QED BY <3>1, <3>2
  <2>7. CASE p \in W /\ to[p] = 0
    <3>1. g[p] = t /\ g[k] = h[k]
      BY <1>3, <2>1, <2>3, <2>7
    <3> QED BY <1>8, <2>1, <2>7, <3>1
  <2> QED BY <2>4, <2>5, <2>6, <2>7
<1>10. \A k \in 1 .. n : k # 1 => h[k] \in Tcbs /\ h[k] # t
  OBVIOUS
<1>11. \A j, k \in 1 .. n : j # 1 /\ k # 1 /\ h[j] = h[k] => j = k
  OBVIOUS
<1>12. g = Waiting!Sift(h, n, 1, t, to)
  BY DEF to
<1>13. Same(g, h, n, 1, t)
  <2>1. n \in Nat /\ t \in Tcbs
    OBVIOUS
  <2> QED BY ONLY <1>0, <1>1, <1>10, <1>11, <1>12, <2>1, SiftKeeps
<1> QED BY <1>0, <1>9, <1>13 DEF IsHeap

-----------------------------------------------------------------------------
(* The invariant and the refinement                                        *)

\* What the comment at line 30 asks of the caller of waiting_tcbs_init.
EnoughSlots == IsFiniteSet(Tcbs) /\ Cardinality(Tcbs) <= InitMax

WInv == Waiting!TypeOK /\ IsHeap(heap, Len(heap), deadline) /\ size = InitMax + 1

LEMMA InitWInv == ASSUME Waiting!WaitingTcbsAssumption, Waiting!Init PROVE WInv
<1>1. heap = <<>> /\ heap \in Seq(Tcbs) /\ Len(heap) = 0
  BY DEF Waiting!Init
<1>2. IsHeap(heap, Len(heap), deadline) /\ \A i, j \in 1 .. Len(heap) : heap[i] = heap[j] => i = j
  BY <1>1 DEF IsHeap
<1>3. deadline \in [Tcbs -> Waiting!Times] /\ max \in Nat /\ size \in Nat /\ size = InitMax + 1
  BY DEF Waiting!Init, Waiting!WaitingTcbsAssumption, Waiting!ArraySize, Waiting!Times
<1> QED BY <1>1, <1>2, <1>3 DEF WInv, Waiting!TypeOK

\* The tcbs that wait.
Waiters == {heap[i] : i \in 1 .. Len(heap)}

LEMMA WaitingAddStep ==
  ASSUME Waiting!WaitingTcbsAssumption, WInv, NEW t \in Tcbs, NEW d \in Waiting!Times, Waiting!Add(t, d)
  PROVE  WInv' /\ Waiting!Abstract!Add(t, d)
<1> DEFINE m == Len(heap)
           n == m + 1
<1>1. m \in Nat /\ heap \in Seq(Tcbs) /\ n \in Nat /\ 1 .. n = (1 .. m) \cup {n}
  BY DEF WInv, Waiting!TypeOK
<1>2. \A k \in 1 .. m : heap[k] \in Tcbs /\ heap[k] # t
  BY <1>1 DEF Waiting!Add
<1>3. deadline \in [Tcbs -> Waiting!Times] /\ deadline' = [deadline EXCEPT ![t] = d]
  BY DEF WInv, Waiting!TypeOK, Waiting!Add
<1>4. deadline' \in [Tcbs -> Waiting!Times] /\ \A u \in Tcbs : deadline'[u] \in Int
  BY <1>3 DEF Waiting!Times, Waiting!WaitingTcbsAssumption
<1>5. IsHeap(heap, m, deadline')
  <2> SUFFICES ASSUME NEW k \in 2 .. m PROVE deadline'[heap[Waiting!Parent(k)]] <= deadline'[heap[k]]
    BY DEF IsHeap
  <2>1. Waiting!Parent(k) \in 1 .. m /\ k \in 1 .. m
    BY <1>1, ParentIs
  <2>2. deadline[heap[Waiting!Parent(k)]] <= deadline[heap[k]]
    BY DEF WInv, IsHeap
  <2>3. deadline'[heap[Waiting!Parent(k)]] = deadline[heap[Waiting!Parent(k)]]
         /\ deadline'[heap[k]] = deadline[heap[k]]
    BY <1>2, <1>3, <2>1
  <2> QED BY <2>2, <2>3
<1>6. \A j, k \in 1 .. m : heap[j] = heap[k] => j = k
  BY DEF WInv, Waiting!TypeOK
<1>7. heap' = Waiting!Sift(heap, n, n, t, Waiting!Up(heap, n, t, deadline'))
  BY DEF Waiting!Add, Waiting!SiftUp
<1> HIDE DEF m, n
<1>8. Same(heap', heap, n, n, t) /\ IsHeap(heap', n, deadline')
  <2>1. n = m + 1
    BY DEF n
  <2> QED BY ONLY <1>1, <1>2, <1>4, <1>5, <1>6, <1>7, <2>1, SiftUpKeeps, t \in Tcbs
<1>9. heap' \in Seq(Tcbs) /\ Len(heap') = n
  BY <1>1, <1>8 DEF Same
<1>10. max' \in Nat /\ size' \in Nat /\ size' = InitMax + 1
  BY DEF WInv, Waiting!TypeOK, Waiting!Add
<1>11. \A i, j \in 1 .. Len(heap') : heap'[i] = heap'[j] => i = j
  BY <1>8, <1>9 DEF Same
<1>12. WInv'
  BY <1>4, <1>8, <1>9, <1>10, <1>11 DEF WInv, Waiting!TypeOK
<1>13. Waiters' = Waiters \cup {t}
  <2>1. ASSUME NEW k \in 1 .. n PROVE heap'[k] \in Waiters \cup {t}
    <3>1. heap'[k] = t \/ \E j \in 1 .. n : j # n /\ heap'[k] = heap[j]
      BY <1>8 DEF Same
    <3> QED BY <1>1, <3>1 DEF Waiters, m
  <2>2. ASSUME NEW j \in 1 .. m PROVE \E k \in 1 .. n : heap'[k] = heap[j]
    <3>1. j \in 1 .. n /\ j # n
      BY <1>1 DEF n
    <3> QED BY <1>8, <3>1 DEF Same
  <2>3. \E k \in 1 .. n : heap'[k] = t
    BY <1>8 DEF Same
  <2>4. \A x \in Waiters' : x \in Waiters \cup {t}
    BY <1>9, <2>1 DEF Waiters
  <2>5. \A x \in Waiters : x \in Waiters'
    BY <1>9, <2>2 DEF Waiters, m
  <2>6. t \in Waiters'
    BY <1>9, <2>3 DEF Waiters
  <2> QED BY <2>4, <2>5, <2>6
<1>14. t \notin Waiters
  BY <1>2 DEF Waiters, m
<1> QED BY <1>3, <1>12, <1>13, <1>14 DEF Waiting!Abstract!Add, Waiters

LEMMA RemoveStep ==
  ASSUME Waiting!WaitingTcbsAssumption, WInv, Waiting!Remove
  PROVE  WInv' /\ \E u \in Tcbs : Waiting!Abstract!Remove(u)
<1> DEFINE m == Len(heap)
           n == m - 1
           t == heap[m]
<1>1. m \in Nat /\ heap \in Seq(Tcbs) /\ m >= 1
  BY DEF WInv, Waiting!TypeOK, Waiting!Remove
<1>2. n \in Nat /\ t \in Tcbs /\ 1 \in 1 .. m /\ heap[1] \in Tcbs /\ 1 .. m = (1 .. n)
       \cup {m} /\ m \notin 1 .. n
  BY <1>1
<1>3. deadline' = deadline /\ deadline \in [Tcbs -> Waiting!Times] /\ \A u \in Tcbs : deadline[u] \in Int
  BY DEF WInv, Waiting!TypeOK, Waiting!Remove, Waiting!Times, Waiting!WaitingTcbsAssumption
<1>4. \A j, k \in 1 .. m : heap[j] = heap[k] => j = k
  BY DEF WInv, Waiting!TypeOK
<1>5. heap' = Waiting!Sift(heap, n, 1, t, Waiting!Down(heap, n, t, deadline))
  BY DEF Waiting!Remove, Waiting!SiftDown
<1>6. max' \in Nat /\ size' \in Nat /\ size' = InitMax + 1
  BY DEF WInv, Waiting!TypeOK, Waiting!Remove
<1>7. \A k \in 1 .. m : heap[k] \in Tcbs
  BY <1>1
<1>8. \A k \in 1 .. m : deadline[heap[1]] <= deadline[heap[k]]
  <2>1. \A k \in 1 .. m : deadline[heap[k]] \in Int
    BY <1>3, <1>7
  <2>2. IsHeap(heap, m, deadline) /\ m \in Nat \ {0}
    BY <1>1 DEF WInv
  <2> QED BY <2>1, <2>2, RootIsFirst
<1>9. WInv' /\ Waiters' = Waiters \ {heap[1]}
  <2>1. CASE n = 0
    <3>1. heap' \in Seq(Tcbs) /\ Len(heap') = 0
      <4> HIDE DEF n, t
      <4>1. \A k \in 1 .. n : FALSE
        BY <2>1
      <4>2. heap' \in [1 .. n -> Tcbs]
        BY <1>5, <4>1 DEF Waiting!Sift
      <4> QED BY <2>1, <4>2
    <3>2. IsHeap(heap', Len(heap'), deadline') /\ \A i, j \in 1 .. Len(heap') : heap'[i] = heap'[j] => i = j
      BY <3>1 DEF IsHeap
    <3>3. Waiters' = {} /\ Waiters = {heap[1]}
      <4> HIDE DEF m
      <4>1. m = 1 /\ 1 .. m = {1} /\ 1 .. Len(heap') = {}
        BY <1>1, <2>1, <3>1
      <4>2. Waiters = {heap[i] : i \in {1}}
        BY <4>1 DEF Waiters, m
      <4>3. Waiters' = {heap'[i] : i \in {}}
        BY <4>1 DEF Waiters
      <4> QED BY <4>2, <4>3
    <3> QED BY <1>3, <1>6, <3>1, <3>2, <3>3 DEF WInv, Waiting!TypeOK
  <2>2. CASE n # 0
    <3>1. \A k \in 1 .. n : heap[k] \in Tcbs /\ heap[k] # t
      BY <1>1, <1>2, <1>4, <1>7
    <3>2. IsHeap(heap, n, deadline)
      BY <1>1 DEF WInv, IsHeap
    <3>3. \A j, k \in 1 .. n : heap[j] = heap[k] => j = k
      BY <1>2, <1>4
    <3> HIDE DEF m, n, t
    <3>4. n \in Nat \ {0} /\ t \in Tcbs
      BY <1>2, <2>2
    <3>5. Same(heap', heap, n, 1, t) /\ IsHeap(heap', n, deadline)
      BY ONLY <1>3, <1>5, <3>1, <3>2, <3>3, <3>4, SiftDownKeeps
    <3>6. heap' \in Seq(Tcbs) /\ Len(heap') = n
      BY <3>4, <3>5 DEF Same
    <3>7. \A i, j \in 1 .. Len(heap') : heap'[i] = heap'[j] => i = j
      BY <3>5, <3>6 DEF Same
    <3>8. WInv'
      BY <1>3, <1>6, <3>5, <3>6, <3>7 DEF WInv, Waiting!TypeOK
    <3>9. 1 \in 1 .. n /\ 1 # m /\ m \in 1 .. m
      BY <1>2, <3>4
    <3>10. ASSUME NEW k \in 1 .. n PROVE \E j \in 1 .. m : j # 1 /\ heap'[k] = heap[j]
      <4>1. heap'[k] = t \/ \E j \in 1 .. n : j # 1 /\ heap'[k] = heap[j]
        BY <3>5 DEF Same
      <4>2. t = heap[m]
        BY DEF t
      <4> QED BY <1>2, <3>9, <4>1, <4>2
    <3>11. ASSUME NEW j \in 1 .. m, j # 1 PROVE \E k \in 1 .. n : heap'[k] = heap[j]
      <4>1. CASE j = m
        BY <3>5, <4>1 DEF Same, t
      <4>2. CASE j \in 1 .. n
        BY <3>5, <3>11, <4>2 DEF Same
      <4> QED BY <1>2, <4>1, <4>2
    <3>12. \A x \in Waiters' : x \in Waiters /\ x # heap[1]
      <4> SUFFICES ASSUME NEW k \in 1 .. n PROVE heap'[k] \in Waiters /\ heap'[k] # heap[1]
        BY <3>6 DEF Waiters
      <4>1. PICK j \in 1 .. m : j # 1 /\ heap'[k] = heap[j]
        BY <3>10
      <4> QED BY <1>2, <1>4, <4>1 DEF Waiters, m
    <3>13. \A x \in Waiters \ {heap[1]} : x \in Waiters'
      <4> SUFFICES ASSUME NEW j \in 1 .. m, heap[j] # heap[1] PROVE heap[j] \in Waiters'
        BY DEF Waiters, m
      <4> QED BY <3>6, <3>11 DEF Waiters
    <3> QED BY <3>8, <3>12, <3>13
  <2> QED BY <2>1, <2>2
<1>10. heap[1] \in Waiters /\ \A u \in Waiters : deadline[heap[1]] <= deadline[u]
  BY <1>2, <1>8 DEF Waiters
<1>11. PICK u \in Tcbs : u = heap[1]
  BY <1>2
<1>12. Waiting!Abstract!Remove(u)
  BY <1>3, <1>9, <1>10, <1>11 DEF Waiting!Abstract!Remove, Waiting!Abstract!IsDueFirst, Waiters
<1> QED BY <1>9, <1>12

LEMMA NextStep ==
  ASSUME Waiting!WaitingTcbsAssumption, WInv, [Waiting!Next]_(Waiting!vars)
  PROVE  WInv' /\ [Waiting!Abstract!Next]_<<Waiters, deadline>>
<1>1. ASSUME NEW t \in Tcbs, NEW d \in Waiting!Times, Waiting!Add(t, d) PROVE WInv' /\ Waiting!Abstract!Next
  BY <1>1, WaitingAddStep DEF Waiting!Abstract!Next
<1>2. ASSUME Waiting!Remove PROVE WInv' /\ Waiting!Abstract!Next
  BY <1>2, RemoveStep DEF Waiting!Abstract!Next
<1>3. ASSUME NEW n \in UpdateMaxes, Waiting!UpdateMax(n)
      PROVE  WInv' /\ Waiters' = Waiters /\ deadline' = deadline
  BY <1>3 DEF Waiting!UpdateMax, WInv, Waiting!TypeOK, Waiters, Waiting!WaitingTcbsAssumption
<1>4. ASSUME UNCHANGED Waiting!vars PROVE WInv' /\ Waiters' = Waiters /\ deadline' = deadline
  BY <1>4 DEF Waiting!vars, WInv, Waiting!TypeOK, Waiters
<1> QED BY <1>1, <1>2, <1>3, <1>4 DEF Waiting!Next

LEMMA RoomForAll == ASSUME Waiting!WaitingTcbsAssumption, EnoughSlots, WInv PROVE Waiting!InBounds
<1> DEFINE n == Len(heap)
<1>1. n \in Nat /\ heap \in [1 .. n -> Tcbs] /\ InitMax \in Nat /\ size = InitMax + 1
  BY DEF WInv, Waiting!TypeOK, Waiting!WaitingTcbsAssumption
<1>2. \A i, j \in 1 .. n : heap[i] = heap[j] => i = j
  BY DEF WInv, Waiting!TypeOK
<1>3. IsFiniteSet(1 .. n) /\ Cardinality(1 .. n) = n
  BY <1>1, FS_Interval
<1>4. heap \in Injection(1 .. n, Tcbs)
  BY <1>1, <1>2 DEF Injection, IsInjective
<1>5. n <= Cardinality(Tcbs)
  BY <1>3, <1>4, FS_Injection DEF EnoughSlots
<1>6. Cardinality(Tcbs) \in Nat
  BY FS_CardinalityType DEF EnoughSlots
<1> QED BY <1>1, <1>5, <1>6 DEF Waiting!InBounds, EnoughSlots

\* waiting_tcbs keeps every tcb that waits, and the one that it shows and removes is due
\* first, for any tcbs, deadlines and calls; the array is not left as long as it was made
\* for all tcbs.
THEOREM HeapIsTimerQueue ==
  ASSUME Waiting!WaitingTcbsAssumption, EnoughSlots
  PROVE  Waiting!Spec => ImplementsTimerQueue
<1>1. Waiting!Init => WInv /\ Waiting!Abstract!Init
  <2> SUFFICES ASSUME Waiting!Init PROVE WInv /\ Waiting!Abstract!Init
    OBVIOUS
  <2>1. WInv
    BY InitWInv
  <2>2. Waiters = {}
    BY DEF Waiting!Init, Waiters
  <2> QED BY <2>1, <2>2 DEF Waiting!Abstract!Init, Waiters, WInv, Waiting!TypeOK
<1>2. WInv /\ [Waiting!Next]_(Waiting!vars) => WInv' /\ [Waiting!Abstract!Next]_<<Waiters, deadline>>
  BY NextStep
<1>3. WInv => Waiting!TypeOK /\ Waiting!InBounds
  BY RoomForAll DEF WInv
<1>4. QED
  BY <1>1, <1>2, <1>3, PTL DEF Waiting!Spec, ImplementsTimerQueue,
     Waiting!ImplementsTimerQueue, Waiting!Abstract!Spec, Waiters

-----------------------------------------------------------------------------
(* The arrays of tcbs, for any calls of ac_thread_init.  Counted is what   *)
(* total_threads, which grows by too much, still says of the tcbs there    *)
(* are; a create fails when all of them are in use.                        *)

Arrays == [max_count : Nat, used : Nat, kept : Nat]

TablesTypeOK ==
  /\ arrays \in Seq(Arrays) /\ arrays # <<>>
  /\ \A a \in DOMAIN arrays : arrays[a].used <= arrays[a].max_count
  /\ total \in Nat
  /\ most = total
  /\ inits \in Seq(Nat)
  /\ failed \in BOOLEAN

Counted ==
  /\ IsFiniteSet(Tables!AllTcbs)
  /\ Cardinality(Tables!AllTcbs) <= total
  /\ inits = <<>> => Cardinality(Tables!AllTcbs) = 2 * Tables!SystemThreads
       /\ total = 2 * Tables!SystemThreads
  /\ inits # <<>> => Cardinality(Tables!AllTcbs) >= inits[1] + Tables!SystemThreads

AllInUse == failed => \A a \in DOMAIN arrays : Tables!IsFull(arrays[a])

TablesInv == TablesTypeOK /\ Counted /\ AllInUse

-----------------------------------------------------------------------------
\* The tcbs of one array.
LEMMA OneArray ==
  ASSUME NEW a, NEW n \in Nat
  PROVE  IsFiniteSet({a} \X (1 .. n)) /\ Cardinality({a} \X (1 .. n)) = n
<1>1. IsFiniteSet({a}) /\ Cardinality({a}) = 1
  BY FS_Singleton
<1>2. IsFiniteSet(1 .. n) /\ Cardinality(1 .. n) = n
  BY FS_Interval
<1>3. IsFiniteSet({a} \X (1 .. n)) /\ Cardinality({a} \X (1 .. n)) = Cardinality({a}) * Cardinality(1 .. n)
  BY <1>1, <1>2, FS_Product
<1>4. 1 * n = n
  OBVIOUS
<1> QED BY <1>1, <1>2, <1>3, <1>4

LEMMA DisjointUnion ==
  ASSUME NEW S, NEW T, IsFiniteSet(S), IsFiniteSet(T), S \cap T = {}
  PROVE  IsFiniteSet(S \cup T) /\ Cardinality(S \cup T) = Cardinality(S) + Cardinality(T)
<1>1. Cardinality(S) \in Nat /\ Cardinality(T) \in Nat /\ Cardinality({}) = 0
  BY FS_CardinalityType, FS_EmptySet
<1>2. IsFiniteSet(S \cup T) /\ Cardinality(S
       \cup T) = Cardinality(S) + Cardinality(T) - Cardinality(S \cap T)
  BY FS_Union
<1>3. Cardinality(S \cap T) = 0
  BY <1>1
<1> QED BY <1>1, <1>2, <1>3

\* What an array is, and where.
LEMMA ArrayIs ==
  ASSUME TablesInv
  PROVE  /\ DOMAIN arrays = 1 .. Len(arrays) /\ Len(arrays) \in Nat /\ Len(arrays) > 0
         /\ \A a \in DOMAIN arrays : /\ arrays[a] \in Arrays
                                   /\ arrays[a].max_count \in Nat /\ arrays[a].used \in Nat
                                   /\ arrays[a].kept \in Nat /\ arrays[a].used <= arrays[a].max_count
<1>1. DOMAIN arrays = 1 .. Len(arrays) /\ Len(arrays) \in Nat /\ Len(arrays) > 0
  BY DEF TablesInv, TablesTypeOK
<1>2. \A a \in DOMAIN arrays : arrays[a] \in Arrays
  BY <1>1 DEF TablesInv, TablesTypeOK
<1>3. \A r \in Arrays : r.max_count \in Nat /\ r.used \in Nat /\ r.kept \in Nat
  BY DEF Arrays
<1> QED BY <1>1, <1>2, <1>3 DEF TablesInv, TablesTypeOK

LEMMA InAllTcbs ==
  ASSUME NEW x
  PROVE  x \in Tables!AllTcbs <=> \E a \in DOMAIN arrays : x \in {a} \X (1 .. arrays[a].max_count)
BY DEF Tables!AllTcbs

LEMMA InitTablesInv == ASSUME Tables!ThreadInitAssumption, Tables!Init PROVE TablesInv
<1>1. /\ arrays = <<[max_count |-> 4, used |-> 2, kept |-> 2]>> /\ total = 4 /\ most = 4
      /\ inits = <<>> /\ failed = FALSE
  BY DEF Tables!Init, Tables!Array, Tables!SystemThreads
<1>2. TablesTypeOK
  <2>1. [max_count |-> 4, used |-> 2, kept |-> 2] \in Arrays
    BY DEF Arrays
  <2>2. arrays \in Seq(Arrays) /\ arrays # <<>> /\ DOMAIN arrays = {1}
    BY <1>1, <2>1
  <2>3. \A a \in DOMAIN arrays : arrays[a].used <= arrays[a].max_count
    BY <1>1, <2>2
  <2>4. total \in Nat /\ most = total
    BY <1>1
  <2>5. inits \in Seq(Nat)
    BY <1>1
  <2>6. failed \in BOOLEAN
    BY <1>1
  <2> QED BY <2>2, <2>3, <2>4, <2>5, <2>6 DEF TablesTypeOK
<1>3. \A x : x \in Tables!AllTcbs <=> x \in {1} \X (1 .. 4)
  BY <1>1, InAllTcbs
<1>4. Tables!AllTcbs = {1} \X (1 .. 4)
  BY <1>3
<1>5. IsFiniteSet(Tables!AllTcbs) /\ Cardinality(Tables!AllTcbs) = 4
  BY <1>4, OneArray
<1>6. Counted
  BY <1>1, <1>5 DEF Counted, Tables!SystemThreads
<1>7. AllInUse
  BY <1>1 DEF AllInUse
<1> QED BY <1>2, <1>6, <1>7 DEF TablesInv

\* The tcbs stay where every array keeps its size.
LEMMA TcbsStay ==
  ASSUME TablesInv, DOMAIN arrays' = DOMAIN arrays,
         \A a \in DOMAIN arrays : arrays'[a].max_count = arrays[a].max_count,
         UNCHANGED <<total, inits>>
  PROVE  Counted'
<1>1. Tables!AllTcbs' = Tables!AllTcbs
  BY DEF Tables!AllTcbs
<1> QED BY <1>1 DEF TablesInv, Counted

\* The new array comes first, and the first one end.
LEMMA LinkedIs ==
  ASSUME NEW R, NEW ring \in Seq(R), ring # <<>>, NEW new \in R
  PROVE  /\ Tables!Linked(ring, new) \in Seq(R) /\ Tables!Linked(ring, new) # <<>>
         /\ DOMAIN Tables!Linked(ring, new) = 1 .. Len(ring) + 1
         /\ Tables!Linked(ring, new)[1] = new
         /\ Tables!Linked(ring, new)[Len(ring) + 1] = ring[1]
         /\ \A a \in 2 .. Len(ring) : Tables!Linked(ring, new)[a] = ring[a]
<1> DEFINE mid == <<new>> \o Tail(ring)
<1>1. Len(ring) \in Nat /\ Len(ring) > 0 /\ ring[1] \in R /\ Head(ring) = ring[1]
  OBVIOUS
<1>2. Tail(ring) \in Seq(R) /\ Len(Tail(ring)) = Len(ring) - 1
      /\ \A a \in 1 .. Len(ring) - 1 : Tail(ring)[a] = ring[a + 1]
  BY <1>1
<1>3. mid \in Seq(R) /\ Len(mid) = Len(ring) /\ mid[1] = new
      /\ \A a \in 2 .. Len(ring) : mid[a] = Tail(ring)[a - 1]
  BY <1>1, <1>2
<1>4. \A a \in 2 .. Len(ring) : mid[a] = ring[a]
  BY <1>1, <1>2, <1>3
<1> HIDE DEF mid
<1>5. PICK end : end = ring[1]
  OBVIOUS
<1>6. /\ mid \o <<end>> \in Seq(R) /\ Len(mid \o <<end>>) = Len(ring) + 1
      /\ (mid \o <<end>>)[Len(ring) + 1] = end
      /\ \A a \in 1 .. Len(ring) : (mid \o <<end>>)[a] = mid[a]
  BY <1>1, <1>3, <1>5
<1>7. Tables!Linked(ring, new) = mid \o <<end>>
  BY <1>1, <1>5 DEF Tables!Linked, mid
<1> QED BY <1>1, <1>3, <1>4, <1>5, <1>6, <1>7

LEMMA AcThreadInitStep ==
  ASSUME Tables!ThreadInitAssumption, TablesInv, NEW n \in Asks, Tables!AcThreadInit(n)
  PROVE  TablesInv'
<1> DEFINE wanted == n + Tables!SystemThreads
<1>1. n \in Nat /\ wanted \in Nat /\ Tables!SystemThreads = 2
  BY DEF Tables!ThreadInitAssumption, Tables!SystemThreads
<1>2. inits' = Append(inits, n) /\ failed' = FALSE
  BY DEF Tables!AcThreadInit
<1>3. inits' \in Seq(Nat) /\ inits' # <<>> /\ (inits = <<>> => inits'[1] = n)
      /\ (inits # <<>> => inits'[1] = inits[1] /\ inits[1] \in Nat)
  BY <1>1, <1>2 DEF TablesInv, TablesTypeOK
<1>4. AllInUse'
  BY <1>2 DEF AllInUse
<1>5. CASE ~(wanted > total)
  <2>1. UNCHANGED <<arrays, total, most>>
    BY <1>5 DEF Tables!AcThreadInit
  <2>2. TablesTypeOK'
    BY <1>2, <1>3, <2>1 DEF TablesInv, TablesTypeOK
  <2>3. Counted'
    <3>1. Tables!AllTcbs' = Tables!AllTcbs
      BY <2>1 DEF Tables!AllTcbs
    <3>2. inits = <<>> => Cardinality(Tables!AllTcbs) >= n + Tables!SystemThreads
      BY <1>1, <1>5, FS_CardinalityType DEF TablesInv, Counted, TablesTypeOK
    <3> QED BY <1>3, <2>1, <3>1, <3>2 DEF TablesInv, Counted
  <2> QED BY <1>4, <2>2, <2>3 DEF TablesInv
<1>6. CASE wanted > total
  <2>1. PICK m \in Nat : m = wanted - total
    BY <1>1, <1>6 DEF TablesInv, TablesTypeOK
  <2> DEFINE new == [max_count |-> m, used |-> 0, kept |-> 0]
  <2>2. arrays' = Tables!Linked(arrays, new) /\ total' = total + wanted /\ most' = total'
    BY <1>6, <2>1 DEF Tables!AcThreadInit, Tables!Missing, Tables!Array
  <2>3. PICK L \in Nat : L = Len(arrays) /\ L > 0 /\ DOMAIN arrays = 1 .. L
    BY DEF TablesInv, TablesTypeOK
  <2>4. /\ arrays' \in Seq(Arrays) /\ arrays' # <<>> /\ DOMAIN arrays' = 1 .. L + 1
        /\ arrays'[1] = new /\ arrays'[L + 1] = arrays[1]
        /\ \A a \in 2 .. L : arrays'[a] = arrays[a]
    <3>1. new \in Arrays
      BY DEF Arrays
    <3>2. arrays \in Seq(Arrays) /\ arrays # <<>>
      BY DEF TablesInv, TablesTypeOK
    <3>3. PICK a \in Seq(Arrays), e \in Arrays : a = arrays /\ e = new
      BY <3>1, <3>2
    <3>4. a # <<>>
      BY <3>2, <3>3
    <3>5. /\ Tables!Linked(a, e) \in Seq(Arrays) /\ Tables!Linked(a, e) # <<>>
          /\ DOMAIN Tables!Linked(a, e) = 1 .. Len(a) + 1
          /\ Tables!Linked(a, e)[1] = e
          /\ Tables!Linked(a, e)[Len(a) + 1] = a[1]
          /\ \A i \in 2 .. Len(a) : Tables!Linked(a, e)[i] = a[i]
      BY <3>4, LinkedIs
    <3>6. Tables!Linked(a, e) = arrays' /\ Len(a) = L
      BY <2>2, <2>3, <3>3
    <3> QED BY <3>3, <3>5, <3>6
  <2>5. PICK k \in Nat : k = arrays[1].max_count
    BY <2>3, ArrayIs
  <2>13. /\ arrays'[1].max_count = m /\ arrays'[1].used = 0
         /\ arrays'[L + 1].max_count = k /\ arrays'[L + 1].used = arrays[1].used
         /\ \A a \in 2 .. L : arrays'[a].max_count = arrays[a].max_count /\ arrays'[a].used = arrays[a].used
    BY <2>4, <2>5
  <2>6. TablesTypeOK'
    <3>1. \A a \in DOMAIN arrays' : arrays'[a].used <= arrays'[a].max_count
      <4> SUFFICES ASSUME NEW a \in 1 .. L + 1 PROVE arrays'[a].used <= arrays'[a].max_count
        BY <2>4
      <4>1. CASE a = 1
        BY <2>13, <4>1
      <4>2. CASE a = L + 1
        BY <2>3, <2>5, <2>13, <4>2, ArrayIs
      <4>3. CASE a \in 2 .. L
        BY <2>3, <2>13, <4>3, ArrayIs
      <4> QED BY <2>3, <4>1, <4>2, <4>3
    <3>2. total' \in Nat
      BY <1>1, <2>2 DEF TablesInv, TablesTypeOK
    <3> QED BY <1>2, <1>3, <2>2, <2>4, <3>1, <3>2 DEF TablesInv, TablesTypeOK
  <2> DEFINE Stay == Tables!AllTcbs \ ({1} \X (1 .. k))
  <2>7. Tables!AllTcbs' = (Stay \cup ({1} \X (1 .. m))) \cup ({L + 1} \X (1 .. k))
    <3>1. ASSUME NEW x, x \in Tables!AllTcbs'
          PROVE  x \in Stay \/ x \in {1} \X (1 .. m) \/ x \in {L + 1} \X (1 .. k)
      <4>1. PICK a \in 1 .. L + 1 : x \in {a} \X (1 .. arrays'[a].max_count)
        BY <2>4, <3>1 DEF Tables!AllTcbs
      <4>2. CASE a \in 2 .. L
        <5>1. x \in Tables!AllTcbs
          <6>1. a \in DOMAIN arrays /\ x \in {a} \X (1 .. arrays[a].max_count)
            BY <2>3, <2>13, <4>1, <4>2
          <6> QED BY <6>1 DEF Tables!AllTcbs
        <5>2. x \notin {1} \X (1 .. k)
          BY <4>1, <4>2
        <5> QED BY <5>1, <5>2
      <4>3. CASE a = 1
        BY <2>13, <4>1, <4>3
      <4>4. CASE a = L + 1
        BY <2>13, <4>1, <4>4
      <4> QED BY <2>3, <4>2, <4>3, <4>4
    <3>2. ASSUME NEW x, x \in Stay PROVE x \in Tables!AllTcbs'
      <4>1. PICK a \in 1 .. L : x \in {a} \X (1 .. arrays[a].max_count)
        BY <2>3, <3>2 DEF Tables!AllTcbs
      <4>2. a # 1
        BY <2>5, <3>2, <4>1
      <4>3. a \in DOMAIN arrays' /\ x \in {a} \X (1 .. arrays'[a].max_count)
        <5>1. a \in 2 .. L /\ a \in 1 .. L + 1
          BY <2>3, <4>2
        <5> QED BY <2>4, <2>13, <4>1, <5>1
      <4> QED BY <4>3 DEF Tables!AllTcbs
    <3>3. ASSUME NEW x, x \in {1} \X (1 .. m) PROVE x \in Tables!AllTcbs'
      <4>1. 1 \in DOMAIN arrays' /\ x \in {1} \X (1 .. arrays'[1].max_count)
        BY <2>3, <2>4, <2>13, <3>3
      <4> QED BY <4>1 DEF Tables!AllTcbs
    <3>4. ASSUME NEW x, x \in {L + 1} \X (1 .. k) PROVE x \in Tables!AllTcbs'
      <4>1. L + 1 \in DOMAIN arrays' /\ x \in {L + 1} \X (1 .. arrays'[L + 1].max_count)
        BY <2>3, <2>4, <2>13, <3>4
      <4> QED BY <4>1 DEF Tables!AllTcbs
    <3> QED BY <3>1, <3>2, <3>3, <3>4
  <2>8. PICK c \in Nat : c = Cardinality(Tables!AllTcbs) /\ IsFiniteSet(Tables!AllTcbs)
    BY FS_CardinalityType DEF TablesInv, Counted
  <2>9. IsFiniteSet(Stay) /\ Cardinality(Stay) = c - k
    <3>1. {1} \X (1 .. k) \subseteq Tables!AllTcbs
      <4>1. 1 \in DOMAIN arrays
        BY <2>3
      <4> QED BY <2>5, <4>1 DEF Tables!AllTcbs
    <3>2. Tables!AllTcbs \cap ({1} \X (1 .. k)) = {1} \X (1 .. k)
      BY <3>1
    <3>3. Cardinality({1} \X (1 .. k)) = k
      BY OneArray
    <3>4. IsFiniteSet(Stay)
           /\ Cardinality(Stay) =
                Cardinality(Tables!AllTcbs) - Cardinality(Tables!AllTcbs \cap ({1} \X (1 .. k)))
      BY <2>8, FS_Difference
    <3> QED BY <2>8, <3>2, <3>3, <3>4
  <2>10. IsFiniteSet(Stay \cup ({1} \X (1 .. m))) /\ Cardinality(Stay \cup ({1} \X (1 .. m))) = (c - k) + m
    <3>1. Stay \cap ({1} \X (1 .. m)) = {}
      <4> SUFFICES ASSUME NEW x, x \in Stay, x \in {1} \X (1 .. m) PROVE FALSE
        OBVIOUS
      <4>1. PICK a \in 1 .. L : x \in {a} \X (1 .. arrays[a].max_count)
        BY <2>3 DEF Tables!AllTcbs
      <4>2. a = 1
        BY <4>1
      <4> QED BY <2>5, <4>1, <4>2
    <3>2. IsFiniteSet({1} \X (1 .. m)) /\ Cardinality({1} \X (1 .. m)) = m
      BY OneArray
    <3> HIDE DEF Stay
    <3>3. PICK T : T = {1} \X (1 .. m)
      OBVIOUS
    <3>4. IsFiniteSet(Stay \cup T) /\ Cardinality(Stay \cup T) = Cardinality(Stay) + Cardinality(T)
      BY <2>9, <3>1, <3>2, <3>3, DisjointUnion
    <3> QED BY <2>9, <3>2, <3>3, <3>4
  <2>11. IsFiniteSet(Tables!AllTcbs') /\ Cardinality(Tables!AllTcbs') = c + m
    <3>1. (Stay \cup ({1} \X (1 .. m))) \cap ({L + 1} \X (1 .. k)) = {}
      <4> SUFFICES ASSUME NEW x, x \in Stay \/ x \in {1} \X (1 .. m), x \in {L + 1} \X (1 .. k) PROVE FALSE
        OBVIOUS
      <4>1. CASE x \in {1} \X (1 .. m)
        BY <2>3, <4>1
      <4>2. CASE x \in Stay
        <5>1. PICK a \in 1 .. L : x \in {a} \X (1 .. arrays[a].max_count)
          BY <2>3, <4>2 DEF Tables!AllTcbs
        <5> QED BY <2>3, <5>1
      <4> QED BY <4>1, <4>2
    <3>2. IsFiniteSet({L + 1} \X (1 .. k)) /\ Cardinality({L + 1} \X (1 .. k)) = k
      BY OneArray
    <3>3. PICK S, T : S = Stay \cup ({1} \X (1 .. m)) /\ T = {L + 1} \X (1 .. k)
      OBVIOUS
    <3> HIDE DEF Stay
    <3>4. IsFiniteSet(S \cup T) /\ Cardinality(S \cup T) = Cardinality(S) + Cardinality(T)
      BY <2>10, <3>1, <3>2, <3>3, DisjointUnion
    <3>5. Cardinality(S) = (c - k) + m /\ Cardinality(T) = k /\ Tables!AllTcbs' = S \cup T
      BY <2>7, <2>10, <3>2, <3>3
    <3>6. ((c - k) + m) + k = c + m
      BY ONLY c \in Nat, k \in Nat, m \in Nat
    <3> QED BY <3>4, <3>5, <3>6
  <2>12. Counted'
    <3>1. total \in Nat /\ c <= total
      BY <2>8 DEF TablesInv, TablesTypeOK, Counted
    <3>2. Cardinality(Tables!AllTcbs') <= total'
      BY <1>1, <2>1, <2>2, <2>11, <3>1
    <3>3. inits'[1] + Tables!SystemThreads <= Cardinality(Tables!AllTcbs')
      <4>1. CASE inits = <<>>
        BY <1>1, <1>3, <2>1, <2>8, <2>11, <3>1, <4>1 DEF TablesInv, Counted
      <4>2. CASE inits # <<>>
        BY <1>1, <1>3, <2>1, <2>8, <2>11, <3>1, <4>2 DEF TablesInv, Counted
      <4> QED BY <4>1, <4>2
    <3>4. inits'[1] \in Nat
      BY <1>1, <1>3
    <3>5. Cardinality(Tables!AllTcbs') >= inits'[1] + Tables!SystemThreads
      BY <1>1, <2>11, <3>3, <3>4
    <3> QED BY <1>3, <2>11, <3>2, <3>5 DEF Counted
  <2> QED BY <1>4, <2>6, <2>12 DEF TablesInv
<1> QED BY <1>5, <1>6

\* get_tcb finds a tcb unless there is none.
LEMMA FirstNotFull ==
  ASSUME TablesInv
  PROVE  LET a == Tables!SelectInSeq(arrays, LAMBDA x : ~Tables!IsFull(x))
         IN \/ a = 0 /\ \A b \in DOMAIN arrays : Tables!IsFull(arrays[b])
            \/ a \in DOMAIN arrays /\ ~Tables!IsFull(arrays[a])
<1> DEFINE I == {i \in 1 .. Len(arrays) : ~Tables!IsFull(arrays[i])}
<1>1. DOMAIN arrays = 1 .. Len(arrays) /\ Len(arrays) \in Nat
  BY DEF TablesInv, TablesTypeOK
<1>2. Tables!SelectInSeq(arrays, LAMBDA x : ~Tables!IsFull(x)) = IF I # {} THEN Tables!Min(I) ELSE 0
  BY DEF Tables!SelectInSeq
<1>3. ASSUME I # {} PROVE Tables!Min(I) \in I
  <2>1. \E i \in I : \A j \in I : i <= j
    <3>1. I \in SUBSET Nat
      BY <1>1
    <3> HIDE DEF I
    <3> QED BY <1>3, <3>1, LeastNumber
  <2> QED BY <2>1 DEF Tables!Min
<1> QED BY <1>1, <1>2, <1>3

LEMMA GetTcbStep ==
  ASSUME TablesInv, Tables!GetTcb
  PROVE  TablesInv'
<1> DEFINE b == Tables!SelectInSeq(arrays, LAMBDA x : ~Tables!IsFull(x))
<1>1. /\ arrays' = IF b = 0 THEN arrays ELSE [arrays EXCEPT ![b].used = @ + 1]
      /\ failed' = (b = 0) /\ UNCHANGED <<total, most, inits>>
  BY DEF Tables!GetTcb
<1>2. \/ b = 0 /\ \A i \in DOMAIN arrays : Tables!IsFull(arrays[i])
      \/ b \in DOMAIN arrays /\ ~Tables!IsFull(arrays[b])
  BY FirstNotFull
<1>3. arrays \in Seq(Arrays) /\ DOMAIN arrays = 1 .. Len(arrays) /\ Len(arrays) \in Nat
  BY DEF TablesInv, TablesTypeOK
<1> HIDE DEF b
<1>4. CASE b = 0
  <2>1. arrays' = arrays /\ failed' = TRUE
    BY <1>1, <1>4
  <2>2. \A i \in DOMAIN arrays : Tables!IsFull(arrays[i])
    BY <1>2, <1>3, <1>4
  <2>3. AllInUse'
    BY <2>1, <2>2 DEF AllInUse, Tables!IsFull
  <2>4. Counted'
    BY <1>1, <2>1, TcbsStay
  <2> QED BY <1>1, <2>1, <2>3, <2>4 DEF TablesInv, TablesTypeOK
<1>5. CASE b # 0
  <2>1. b \in DOMAIN arrays /\ ~Tables!IsFull(arrays[b])
    BY <1>2, <1>5
  <2>2. arrays[b] \in Arrays /\ arrays[b].used <= arrays[b].max_count
    BY <2>1, ArrayIs
  <2>3. arrays[b].used + 1 <= arrays[b].max_count
    BY <2>1, <2>2, ArrayIs DEF Tables!IsFull
  <2>4. arrays' = [arrays EXCEPT ![b] = [arrays[b] EXCEPT !.used = arrays[b].used + 1]]
    BY <1>1, <1>5
  <2>5. /\ arrays' \in Seq(Arrays) /\ DOMAIN arrays' = DOMAIN arrays /\ arrays' # <<>>
        /\ arrays'[b].used = arrays[b].used + 1 /\ arrays'[b].max_count = arrays[b].max_count
        /\ \A i \in DOMAIN arrays : i # b => arrays'[i] = arrays[i]
    <3>1. [arrays[b] EXCEPT !.used = arrays[b].used + 1] \in Arrays
      BY <2>2 DEF Arrays
    <3>2. arrays' \in Seq(Arrays) /\ DOMAIN arrays' = DOMAIN arrays
      BY <1>3, <2>1, <2>4, <3>1
    <3>3. arrays' # <<>>
      BY <1>3, <2>1, <3>2
    <3> QED BY <1>3, <2>1, <2>2, <2>4, <3>2, <3>3 DEF Arrays
  <2>6. \A i \in DOMAIN arrays' : arrays'[i].used <= arrays'[i].max_count
    BY <2>3, <2>5, ArrayIs
  <2>7. \A i \in DOMAIN arrays : arrays'[i].max_count = arrays[i].max_count
    BY <2>5
  <2>8. Counted'
    BY <1>1, <2>5, <2>7, TcbsStay
  <2>9. failed' = FALSE
    BY <1>1, <1>5
  <2> QED BY <1>1, <2>5, <2>6, <2>8, <2>9 DEF TablesInv, TablesTypeOK, AllInUse
<1> QED BY <1>4, <1>5

LEMMA FreeStep ==
  ASSUME TablesInv, NEW b \in DOMAIN arrays, Tables!Free(b)
  PROVE  TablesInv'
<1>1. /\ arrays[b].used > arrays[b].kept
      /\ arrays' = [arrays EXCEPT ![b] = [arrays[b] EXCEPT !.used = arrays[b].used - 1]]
      /\ failed' = FALSE /\ UNCHANGED <<total, most, inits>>
  BY DEF Tables!Free
<1>2. arrays \in Seq(Arrays) /\ DOMAIN arrays = 1 .. Len(arrays) /\ Len(arrays) \in Nat
  BY DEF TablesInv, TablesTypeOK
<1>3. /\ arrays[b] \in Arrays /\ arrays[b].used <= arrays[b].max_count
      /\ arrays[b].used \in Nat /\ arrays[b].kept \in Nat
  BY ArrayIs
<1>4. /\ arrays' \in Seq(Arrays) /\ DOMAIN arrays' = DOMAIN arrays /\ arrays' # <<>>
      /\ arrays'[b].used = arrays[b].used - 1 /\ arrays'[b].max_count = arrays[b].max_count
      /\ \A i \in DOMAIN arrays : i # b => arrays'[i] = arrays[i]
  <2>1. [arrays[b] EXCEPT !.used = arrays[b].used - 1] \in Arrays
    BY <1>1, <1>3 DEF Arrays
  <2>2. arrays' \in Seq(Arrays) /\ DOMAIN arrays' = DOMAIN arrays
    BY <1>1, <1>2, <2>1
  <2>3. arrays' # <<>>
    BY <1>2, <2>2
  <2> QED BY <1>1, <1>2, <1>3, <2>2, <2>3 DEF Arrays
<1>5. \A i \in DOMAIN arrays' : arrays'[i].used <= arrays'[i].max_count
  <2>1. arrays[b].used - 1 <= arrays[b].max_count
    BY <1>3, ArrayIs
  <2> QED BY <1>4, <2>1, ArrayIs
<1>6. \A i \in DOMAIN arrays : arrays'[i].max_count = arrays[i].max_count
  BY <1>4
<1>7. Counted'
  BY <1>1, <1>4, <1>6, TcbsStay
<1> QED BY <1>1, <1>4, <1>5, <1>7 DEF TablesInv, TablesTypeOK, AllInUse

LEMMA NextTablesInv ==
  ASSUME Tables!ThreadInitAssumption, TablesInv, [Tables!Next]_(Tables!tivars)
  PROVE  TablesInv'
<1>1. ASSUME NEW n \in Asks, Tables!AcThreadInit(n) PROVE TablesInv'
  BY <1>1, AcThreadInitStep
<1>2. CASE Tables!GetTcb
  BY <1>2, GetTcbStep
<1>3. ASSUME NEW b \in DOMAIN arrays, Tables!Free(b) PROVE TablesInv'
  BY <1>3, FreeStep
<1>4. CASE UNCHANGED Tables!tivars
  BY <1>4 DEF Tables!tivars, TablesInv, TablesTypeOK, Counted, AllInUse, Tables!AllTcbs,
     Tables!IsFull
<1> QED BY <1>1, <1>2, <1>3, <1>4 DEF Tables!Next

\* FiniteSets is instantiated with the arrays.
LEMMA TablesCardinality == ASSUME NEW S PROVE Tables!Cardinality(S) = Cardinality(S)
  BY DEF Tables!Cardinality, Cardinality

LEMMA TablesInvIsTcbsSuffice == ASSUME TablesInv PROVE Tables!TcbsSuffice
<1>1. ASSUME failed PROVE Tables!UsedTcbs = Tables!AllTcbs
  <2>1. \A a \in DOMAIN arrays : arrays[a].used = arrays[a].max_count
    BY <1>1 DEF TablesInv, AllInUse, Tables!IsFull
  <2> QED BY <2>1 DEF Tables!UsedTcbs, Tables!AllTcbs
<1>2. Cardinality(Tables!AllTcbs) \in Nat /\ Cardinality(Tables!AllTcbs) <= most
  BY FS_CardinalityType DEF TablesInv, Counted, TablesTypeOK
<1>3. inits # <<>> => inits[1] \in Nat /\ Cardinality(Tables!AllTcbs) >= inits[1] + Tables!SystemThreads
  BY DEF TablesInv, Counted, TablesTypeOK
<1>4. inits # <<>> => Cardinality(Tables!AllTcbs) - Tables!SystemThreads >= inits[1]
  BY <1>2, <1>3 DEF Tables!SystemThreads
<1> QED BY <1>1, <1>2, <1>4, TablesCardinality DEF Tables!TcbsSuffice

\* Whatever ac_thread_init is called with, and however threads are made and end: a create
\* fails only while as many threads exist as the first call asked for, and the deadlines'
\* array was made for as many tcbs as there are.
THEOREM TcbsAreEnough ==
  ASSUME Tables!ThreadInitAssumption
  PROVE  Tables!Spec => []TcbsSuffice
<1>1. Tables!Init => TablesInv
  BY InitTablesInv
<1>2. TablesInv /\ [Tables!Next]_(Tables!tivars) => TablesInv'
  BY NextTablesInv
<1>3. TablesInv => TcbsSuffice
  BY TablesInvIsTcbsSuffice DEF TcbsSuffice
<1> QED BY <1>1, <1>2, <1>3, PTL DEF Tables!Spec
=============================================================================
