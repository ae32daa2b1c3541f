-------------------------- MODULE DataPartsProofs --------------------------
(***************************************************************************)
(* The proofs about the parts of MCSafeParts whose properties are about    *)
(* data: page tables, the conversions of time, and formats.                *)
(***************************************************************************)
EXTENDS MCSafeParts, SequenceTheorems, WellFoundedInduction, TLAPS

-----------------------------------------------------------------------------
(* Division.                                                               *)

LEMMA DivIs ==
  ASSUME NEW n \in Nat, NEW d \in Nat, d > 0
  PROVE  /\ n \div d \in Nat /\ n % d \in 0 .. d - 1
         /\ n = d * (n \div d) + (n % d)
OBVIOUS

LEMMA DivUnique ==
  ASSUME NEW n \in Nat, NEW d \in Nat, d > 0, NEW q \in Nat, NEW r \in Nat, r < d, n = d * q + r
  PROVE  n \div d = q /\ n % d = r
<1> DEFINE p == n \div d
           s == n % d
<1>1. p \in Nat /\ s \in 0 .. d - 1 /\ n = d * p + s
  BY DivIs
<1> HIDE DEF p, s
<1>2. CASE p > q
  <2>1. PICK k \in Nat : p = q + 1 + k
    BY <1>1, <1>2
  <2>2. d * p = d * q + d + d * k
    BY <1>1, <2>1
  <2>3. d * k \in Nat
    BY <2>1
  <2> QED BY <1>1, <2>2, <2>3
<1>3. CASE q > p
  <2>1. PICK k \in Nat : q = p + 1 + k
    BY <1>1, <1>3
  <2>2. d * q = d * p + d + d * k
    BY <1>1, <2>1
  <2>3. d * k \in Nat
    BY <2>1
  <2> QED BY <1>1, <2>2, <2>3
<1>4. CASE p = q
  BY <1>1, <1>4 DEF p, s
<1> QED BY <1>1, <1>2, <1>3, <1>4

LEMMA DivDiv ==
  ASSUME NEW n \in Nat, NEW d \in Nat, NEW e \in Nat, d > 0, e > 0
  PROVE  (n \div d) \div e = n \div (e * d)
<1>1. PICK q \in Nat, r \in Nat : q = n \div d /\ r < d /\ n = d * q + r
  <2>1. n \div d \in Nat /\ n % d \in 0 .. d - 1 /\ n = d * (n \div d) + (n % d)
    BY DivIs
  <2> QED BY <2>1
<1>2. PICK p \in Nat, s \in Nat : p = q \div e /\ s < e /\ q = e * p + s
  <2>1. q \div e \in Nat /\ q % e \in 0 .. e - 1 /\ q = e * (q \div e) + (q % e)
    BY <1>1, DivIs
  <2> QED BY <2>1
<1>3. n = (e * d) * p + (d * s + r)
  BY <1>1, <1>2
<1>4. d * s + r \in Nat /\ d * s + r < e * d
  <2>1. PICK k \in Nat : e = s + 1 + k
    BY <1>2
  <2>2. e * d = d * s + d + d * k /\ d * k \in Nat /\ d * s \in Nat
    BY <1>2, <2>1
  <2> QED BY <1>1, <2>2
<1>5. e * d \in Nat /\ e * d > 0
  OBVIOUS
<1> QED BY <1>1, <1>2, <1>3, <1>4, <1>5, DivUnique

-----------------------------------------------------------------------------
(* The number of an address's page of level l, and the part of it that one *)
(* table of that level spans.                                              *)

Levels == 1 .. 4
Num(a, l) == a \div Paging!Size(l)

\* The first address past all that may be mapped.
Limit == (Fan - 1) * Paging!Size(4)

LEMMA PagingSizes ==
  ASSUME Paging!PageTableAssumption, NEW l \in Levels
  PROVE  /\ Paging!Size(l) \in Nat /\ Paging!Size(l) > 0 /\ Paging!Size(1) = 1
         /\ l < 4 => Paging!Size(l + 1) = Fan * Paging!Size(l)
<1>1. Fan \in Nat /\ Fan > 1
  BY DEF Paging!PageTableAssumption
<1>2. Fan * Fan \in Nat /\ Fan * Fan > 0
  BY <1>1
<1>3. Fan * Fan * Fan \in Nat /\ Fan * Fan * Fan > 0 /\ Fan * Fan * Fan = Fan * (Fan * Fan)
  BY <1>1, <1>2
<1>4. Paging!Size(1) = 1 /\ Paging!Size(2) = Fan /\ Paging!Size(3) = Fan * Fan
       /\ Paging!Size(4) = Fan * Fan * Fan
  BY DEF Paging!Size
<1>5. l = 1 \/ l = 2 \/ l = 3 \/ l = 4
  BY DEF Levels
<1> QED BY <1>1, <1>2, <1>3, <1>4, <1>5

LEMMA Numbers ==
  ASSUME Paging!PageTableAssumption, NEW l \in Levels, NEW a \in Nat
  PROVE  /\ Num(a, l) \in Nat /\ Num(a, l) \div Fan \in Nat /\ Paging!Idx(a, l) \in 0 .. Fan - 1
         /\ Num(a, l) = Fan * (Num(a, l) \div Fan) + Paging!Idx(a, l)
         /\ l < 4 => Num(a, l) \div Fan = Num(a, l + 1)
<1>1. Paging!Size(l) \in Nat /\ Paging!Size(l) > 0 /\ (l < 4 => Paging!Size(l + 1) = Fan * Paging!Size(l))
  BY PagingSizes
<1>2. Fan \in Nat /\ Fan > 0
  BY DEF Paging!PageTableAssumption
<1>3. Num(a, l) \in Nat
  BY <1>1, DivIs DEF Num
<1>4. Num(a, l) \div Fan \in Nat /\ Num(a, l) % Fan \in 0 .. Fan - 1
      /\ Num(a, l) = Fan * (Num(a, l) \div Fan) + (Num(a, l) % Fan)
  BY <1>2, <1>3, DivIs
<1>5. Paging!Idx(a, l) = Num(a, l) % Fan
  BY DEF Paging!Idx, Num
<1>6. l < 4 => Num(a, l) \div Fan = Num(a, l + 1)
  BY <1>1, <1>2, DivDiv DEF Num
<1> QED BY <1>3, <1>4, <1>5, <1>6

\* The top table spans all that may be mapped without its last entry.
LEMMA TopSpans ==
  ASSUME Paging!PageTableAssumption, NEW a \in Nat, a < Limit
  PROVE  Num(a, 4) \div Fan = 0 /\ Paging!Idx(a, 4) # Fan - 1
<1>1. Paging!Size(4) \in Nat /\ Paging!Size(4) > 0 /\ 4 \in Levels
  BY PagingSizes DEF Levels
<1>2. Fan \in Nat /\ Fan > 1
  BY DEF Paging!PageTableAssumption
<1>3. PICK n \in Nat, r \in Nat : n = Num(a, 4) /\ r < Paging!Size(4) /\ a = Paging!Size(4) * n + r
  <2>1. a \div Paging!Size(4) \in Nat /\ a % Paging!Size(4) \in 0 .. Paging!Size(4) - 1
        /\ a = Paging!Size(4) * (a \div Paging!Size(4)) + (a % Paging!Size(4))
    BY <1>1, DivIs
  <2> QED BY <1>1, <2>1 DEF Num
<1>4. n < Fan - 1
  <2> SUFFICES ASSUME n >= Fan - 1 PROVE FALSE
    BY <1>2, <1>3
  <2>1. PICK k \in Nat : n = (Fan - 1) + k
    <3>1. n - (Fan - 1) \in Nat /\ n = (Fan - 1) + (n - (Fan - 1))
      BY <1>2, <1>3
    <3> QED BY <3>1
  <2>2. Paging!Size(4) * n = (Fan - 1) * Paging!Size(4) + Paging!Size(4) * k /\ Paging!Size(4) * k \in Nat
    BY <1>1, <1>2, <2>1
  <2> QED BY <1>1, <1>2, <1>3, <2>2 DEF Limit
<1>5. n \div Fan = 0 /\ n % Fan = n
  <2>1. n = Fan * 0 + n
    BY <1>2, <1>3
  <2> QED BY <1>2, <1>3, <1>4, <2>1, DivUnique
<1> QED BY <1>2, <1>3, <1>4, <1>5 DEF Paging!Idx, Num

\* The addresses of the page that begins at a.
LEMMA PageOf ==
  ASSUME Paging!PageTableAssumption, NEW l \in Levels, NEW a \in Nat, a % Paging!Size(l) = 0, NEW b \in Nat
  PROVE  /\ a = Num(a, l) * Paging!Size(l)
         /\ Num(b, l) = Num(a, l) <=> b \in a .. a + Paging!Size(l) - 1
         /\ Num(b, l) = Num(a, l) => a + (b % Paging!Size(l)) = b
<1>1. PICK s \in Nat : s = Paging!Size(l) /\ s > 0
  BY PagingSizes
<1>2. PICK n \in Nat : n = Num(a, l) /\ a = s * n
  <2>1. PICK n \in Nat : n = a \div s
    BY <1>1, DivIs
  <2>2. a = s * n + (a % s)
    BY <1>1, <2>1, DivIs
  <2>3. s * n \in Nat /\ a % s = 0
    BY <1>1, <2>1
  <2> QED BY <1>1, <2>1, <2>2, <2>3 DEF Num
<1>3. PICK m \in Nat, r \in Nat : m = Num(b, l) /\ r = b % s /\ r < s /\ b = s * m + r
  <2>1. b \div s \in Nat /\ b % s \in 0 .. s - 1 /\ b = s * (b \div s) + (b % s)
    BY <1>1, DivIs
  <2> QED BY <1>1, <2>1 DEF Num
<1>4. ASSUME b \in a .. a + s - 1 PROVE m = n
  <2>1. PICK k \in Nat : k = b - a
    BY <1>1, <1>4
  <2>2. b = s * n + k /\ k < s
    BY <1>1, <1>2, <1>4, <2>1
  <2>3. b \div s = n
    BY <1>1, <1>2, <2>2, DivUnique
  <2> QED BY <1>1, <1>3, <2>3 DEF Num
<1>5. ASSUME m = n PROVE b = a + r
  BY <1>2, <1>3, <1>5
<1>6. a = n * s
  BY <1>1, <1>2
<1>7. m = n <=> b \in a .. a + s - 1
  BY <1>1, <1>3, <1>4, <1>5
<1> QED BY <1>1, <1>2, <1>3, <1>5, <1>6, <1>7

-----------------------------------------------------------------------------
(* The invariant.  The tables taken so far are a tree below the first one: *)
(* there are a level and a span (the number of the page of the level above *)
(* that it stands for) for each, lv and px.  An entry points to the table  *)
(* of its part of the span, every table but the top one is pointed at, and *)
(* the pages are what was asked for without what remains of the call       *)
(* (Rest).  No table is without a mapped address in its span, except those *)
(* the call in progress has taken on its way (Used): so a large page never *)
(* finds a table in its place.                                             *)

MayMap ==
  {r \in [lin : Nat, phy : Nat, len : Nat, caching : 0 .. 8, aligned : BOOLEAN] :
     r.phy = r.lin /\ r.lin + r.len <= Limit}
PagingPlaces == {"boot", "entry", "check", "loop", "walk", "idle"}

PagingTypeOK ==
  /\ mem \in [Paging!Tables -> [0 .. Fan - 1 -> [p : BOOLEAN, l : 0 .. 3, phy : Nat, c : 0 .. 7]]]
  /\ top \in 0 .. Pages
  /\ cr3 \in {0, 1} /\ base \in {0, 1}
  /\ mode \in [pg : {TRUE}, pae : {TRUE}, lme : {TRUE}, pcide : BOOLEAN]
  /\ pc \in PagingPlaces
  /\ req \in MayMap
  /\ todo \in Seq([region : MayMap, type : Nat])
  /\ walk \in [tab : 0 .. Pages, l : 0 .. 4, target : 0 .. 3]
  /\ maps \subseteq MayMap

PagingIn(r, a) == a \in r.lin .. r.lin + r.len - 1
Mapping == pc \in {"loop", "walk"}
InRest(a) == Mapping /\ PagingIn(req, a)
Done(a) == (\E r \in maps : PagingIn(r, a)) /\ ~InRest(a)

IsPage(e) == e.p /\ e.l > 0
IsPointer(e) == e.p /\ e.l = 0
Itself(t, i) == t = 1 /\ i = Fan - 1

\* Where base and CR3 are in step with the tables taken.
Bases ==
  /\ pc \in {"boot", "entry", "check"} => (base = 0 <=> top = 0)
  /\ Mapping => base = 1
  /\ base = 1 \/ cr3 = 1 => top > 0
  /\ cr3 = 1 => todo = <<>>
  /\ pc \in {"boot", "entry"} => cr3 = 0
  /\ pc = "boot" => todo = <<>> /\ top = 0
  /\ top = 0 => maps = {}

\* The regions, those of the rest of a memory map included, are apart.
Regular ==
  /\ \A r, s \in maps : Paging!Overlaps(r, s) => r = s
  /\ \A i, j \in 1 .. Len(todo) :
       i # j /\ todo[i].type = 1 /\ todo[j].type = 1 => ~Paging!Overlaps(todo[i].region, todo[j].region)
  /\ \A j \in 1 .. Len(todo), s \in maps :
       todo[j].type = 1 /\ (pc = "entry" \/ j > 1) => ~Paging!Overlaps(todo[j].region, s)
  /\ pc = "check" => \A s \in maps : ~Paging!Overlaps(req, s)
  /\ pc = "check" /\ todo # <<>> => req = todo[1].region /\ todo[1].type = 1

\* What remains of the call, and the page that was chosen.
PagingRest ==
  /\ Mapping => \E r \in maps : /\ r.lin <= req.lin /\ req.lin + req.len = r.lin + r.len
                                /\ r.caching = req.caching
  /\ pc = "walk" => /\ walk.target \in 1 .. 3 /\ walk.l \in walk.target .. 4
                    /\ Paging!Fits(req, walk.target)

Spans(lv, px) == lv \in [Paging!Tables -> Levels] /\ px \in [Paging!Tables -> Nat]

TopIs(lv, px) == top > 0 => lv[1] = 4 /\ px[1] = 0 /\ mem[1][Fan - 1] = Paging!Pointer(1)

PointsDown(lv, px) ==
  \A t \in 1 .. top, i \in 0 .. Fan - 1 : IsPointer(mem[t][i]) /\ ~Itself(t, i) =>
    /\ mem[t][i].phy \in 2 .. top
    /\ lv[mem[t][i].phy] = lv[t] - 1
    /\ px[mem[t][i].phy] = Fan * px[t] + i

PointedAt(lv, px) ==
  \A c \in 2 .. top : \E t \in 1 .. top, i \in 0 .. Fan - 1 :
    /\ mem[t][i] = Paging!Pointer(c) /\ ~Itself(t, i)
    /\ lv[t] = lv[c] + 1
    /\ px[c] = Fan * px[t] + i

\* Entry e of level l maps page n, in one of the regions, as that asks.
PageMaps(e, l, n) ==
  /\ e.l = l /\ e.phy % Paging!Size(l) = 0 /\ Num(e.phy, l) = n
  /\ \E r \in maps : /\ r.lin <= e.phy /\ e.phy + Paging!Size(l) <= r.lin + r.len
                     /\ e.c = r.caching - 1
  /\ \A a \in e.phy .. e.phy + Paging!Size(l) - 1 : ~InRest(a)

PagesLie(lv, px) ==
  \A t \in 1 .. top, i \in 0 .. Fan - 1 : IsPage(mem[t][i]) => PageMaps(mem[t][i], lv[t], Fan * px[t] + i)

AllMapped(lv, px) ==
  \A a \in Nat : Done(a) =>
    \E t \in 1 .. top, i \in 0 .. Fan - 1 : IsPage(mem[t][i]) /\ Num(a, lv[t]) = Fan * px[t] + i

OnWay(l, n) == pc = "walk" /\ walk.l <= l /\ Num(req.lin, l) \div Fan = n

Used(lv, px) ==
  \A c \in 2 .. top : \/ \E a \in Nat : Done(a) /\ Num(a, lv[c]) \div Fan = px[c]
                      \/ OnWay(lv[c], px[c])

WalkAt(lv, px) ==
  pc = "walk" => /\ walk.tab \in 1 .. top /\ lv[walk.tab] = walk.l
                 /\ px[walk.tab] = Num(req.lin, walk.l) \div Fan

Tree(lv, px) ==
  /\ TopIs(lv, px) /\ PointsDown(lv, px) /\ PointedAt(lv, px) /\ PagesLie(lv, px)
  /\ AllMapped(lv, px) /\ Used(lv, px) /\ WalkAt(lv, px)

Inv == PagingTypeOK /\ Bases /\ Regular /\ PagingRest /\ \E lv, px : Spans(lv, px) /\ Tree(lv, px)

Ended == pc = "reset" /\ (top = Pages \/ req.caching = 0 \/ ~req.aligned)

PagingIInv == Ended \/ Inv

-----------------------------------------------------------------------------
LEMMA FanIs == ASSUME Paging!PageTableAssumption PROVE Fan \in Nat /\ Fan > 1 /\ Pages \in Nat
BY DEF Paging!PageTableAssumption

\* An address is in the span of a table and at an entry's place just in case its
\* page's number says so.
LEMMA InSpan ==
  ASSUME Paging!PageTableAssumption, NEW l \in Levels, NEW a \in Nat, NEW n \in Nat, NEW i \in 0 .. Fan - 1
  PROVE  Num(a, l) = Fan * n + i <=> Num(a, l) \div Fan = n /\ Paging!Idx(a, l) = i
<1>1. Fan \in Nat /\ Fan > 1
  BY FanIs
<1>2. PICK m \in Nat : m = Num(a, l)
  BY Numbers
<1>3. Paging!Idx(a, l) = m % Fan
  BY <1>2 DEF Paging!Idx, Num
<1>4. ASSUME m = Fan * n + i PROVE m \div Fan = n /\ m % Fan = i
  BY <1>1, <1>2, <1>4, DivUnique
<1>5. ASSUME m \div Fan = n, m % Fan = i PROVE m = Fan * n + i
  <2>1. m = Fan * (m \div Fan) + (m % Fan)
    BY <1>1, DivIs
  <2> QED BY <1>5, <2>1
<1> QED BY <1>2, <1>3, <1>4, <1>5

LEMMA RegionFacts ==
  ASSUME Paging!PageTableAssumption, NEW r \in MayMap
  PROVE  /\ r.lin \in Nat /\ r.len \in Nat /\ r.phy = r.lin /\ r.caching \in 0 .. 8
         /\ \A a : PagingIn(r, a) => a \in Nat /\ a < Limit
<1>1. r.lin \in Nat /\ r.len \in Nat /\ r.phy = r.lin /\ r.caching \in 0 .. 8 /\ r.lin + r.len <= Limit
  BY DEF MayMap
<1>2. Limit \in Int
  <2>1. Paging!Size(4) \in Nat
    BY PagingSizes DEF Levels
  <2>2. PICK s \in Nat : s = Paging!Size(4)
    BY <2>1
  <2>3. (Fan - 1) * s \in Int
    BY <2>2, FanIs
  <2> QED BY <2>2, <2>3 DEF Limit
<1>3. ASSUME NEW a, PagingIn(r, a) PROVE a \in Nat /\ a < Limit
  BY <1>1, <1>2, <1>3 DEF PagingIn
<1> QED BY <1>1, <1>3

LEMMA Given ==
  ASSUME Paging!PageTableAssumption
  PROVE  Regions \subseteq MayMap /\ Maps \subseteq Seq([region : MayMap, type : Nat])
BY DEF Paging!PageTableAssumption, MayMap, Limit

\* A step that leaves the tables and what remains alone, from outside of a walk.
LEMMA QuietStep ==
  ASSUME Paging!PageTableAssumption, NEW lv, NEW px, Tree(lv, px), UNCHANGED <<mem, top, maps>>,
         \A a \in Nat : InRest(a)' <=> InRest(a), pc # "walk", PagingTypeOK,
         pc' # "walk" \/ WalkAt(lv, px)'
  PROVE  Tree(lv, px)'
<1>1. \A a \in Nat : Done(a)' <=> Done(a)
  BY DEF Done
<1>2. TopIs(lv, px)'
  BY DEF Tree, TopIs
<1>3. PointsDown(lv, px)'
  BY DEF Tree, PointsDown
<1>4. PointedAt(lv, px)'
  BY DEF Tree, PointedAt
<1>5. PagesLie(lv, px)'
  <2> SUFFICES ASSUME NEW t \in 1 .. top, NEW i \in 0 .. Fan - 1, IsPage(mem[t][i])
               PROVE  PageMaps(mem[t][i], lv[t], Fan * px[t] + i)'
    BY DEF PagesLie
  <2>1. PageMaps(mem[t][i], lv[t], Fan * px[t] + i)
    BY DEF Tree, PagesLie
  <2>2. mem[t][i].phy \in Nat
    <3>1. t \in Paging!Tables
      BY FanIs DEF PagingTypeOK, Paging!Tables
    <3> QED BY <3>1 DEF PagingTypeOK
  <2>3. \A a \in mem[t][i].phy .. mem[t][i].phy + Paging!Size(lv[t]) - 1 : a \in Nat
    BY <2>2
  <2> QED BY <2>1, <2>3 DEF PageMaps
<1>6. AllMapped(lv, px)'
  BY <1>1 DEF Tree, AllMapped
<1>7. Used(lv, px)'
  BY <1>1 DEF Tree, Used, OnWay
<1>8. WalkAt(lv, px)'
  BY DEF WalkAt
<1> QED BY <1>2, <1>3, <1>4, <1>5, <1>6, <1>7, <1>8 DEF Tree

LEMMA InitInv == ASSUME Paging!PageTableAssumption, Paging!Init PROVE Inv
<1> USE FanIs DEF Paging!Init, Paging!Null
<1>1. PagingTypeOK
  <2>1. Limit \in Nat
    <3>1. PICK s \in Nat : s = Paging!Size(4)
      BY PagingSizes DEF Levels
    <3>2. PICK f \in Nat : f = Fan - 1
      OBVIOUS
    <3>3. f * s \in Nat
      BY <3>1, <3>2
    <3> QED BY <3>1, <3>2, <3>3 DEF Limit
  <2>2. Paging!NoRegion \in MayMap
    BY <2>1 DEF MayMap, Paging!NoRegion
  <2>3. mem \in [Paging!Tables -> [0 .. Fan - 1 -> [p : BOOLEAN, l : 0 .. 3, phy : Nat, c : 0 .. 7]]]
    BY DEF Paging!NoEntry, Paging!Tables
  <2>4. todo \in Seq([region : MayMap, type : Nat]) /\ maps \subseteq MayMap
    OBVIOUS
  <2>5. walk \in [tab : 0 .. Pages, l : 0 .. 4, target : 0 .. 3]
    OBVIOUS
  <2>6. top \in 0 .. Pages
    OBVIOUS
  <2>7. mode \in [pg : {TRUE}, pae : {TRUE}, lme : {TRUE}, pcide : BOOLEAN]
    BY Zenon
  <2> QED BY <2>2, <2>3, <2>4, <2>5, <2>6, <2>7 DEF PagingTypeOK, PagingPlaces
<1>2. Bases /\ Regular /\ PagingRest
  BY DEF Bases, Regular, PagingRest, Mapping, Paging!Fits, Paging!NoRegion
<1>3. PICK lv, px : lv = [t \in Paging!Tables |-> 4] /\ px = [t \in Paging!Tables |-> 0]
  OBVIOUS
<1>4. Spans(lv, px)
  BY <1>3 DEF Spans, Levels
<1>5. Tree(lv, px)
  <2>1. \A n : n \notin 1 .. top /\ n \notin 2 .. top
    OBVIOUS
  <2> QED BY <2>1 DEF Tree, TopIs, PointsDown, PointedAt, PagesLie, AllMapped, Used, WalkAt,
             Done
<1> QED BY <1>1, <1>2, <1>4, <1>5 DEF Inv

-----------------------------------------------------------------------------
(* The callers' steps, which leave the tables alone.                       *)

LEMMA InitEarlyKeeps ==
  ASSUME Paging!PageTableAssumption, Inv, NEW r \in Regions, Paging!InitEarly(r)
  PROVE  Inv'
<1> USE DEF Paging!InitEarly, Paging!Null
<1>1. PagingTypeOK /\ Bases /\ Regular /\ PagingRest /\ top = 0
  BY DEF Inv, Bases
<1>2. PagingTypeOK'
  <2>1. <<>> \in Seq([region : MayMap, type : Nat]) /\ r \in MayMap
    BY Given
  <2> QED BY <1>1, <2>1 DEF PagingTypeOK, PagingPlaces
<1>3. Bases'
  BY <1>1 DEF Bases, Mapping
<1>4. Regular' /\ PagingRest'
  BY <1>1 DEF Regular, PagingRest, Bases, Mapping
<1>5. PICK lv, px : Spans(lv, px) /\ Tree(lv, px)
  BY DEF Inv
<1>6. Spans(lv, px)' /\ Tree(lv, px)'
  <2>1. \A a \in Nat : InRest(a)' <=> InRest(a)
    BY DEF InRest, Mapping
  <2> QED BY <1>1, <1>5, <2>1, QuietStep DEF Spans
<1> QED BY <1>2, <1>3, <1>4, <1>6 DEF Inv

LEMMA InitMapKeeps ==
  ASSUME Paging!PageTableAssumption, Inv, NEW m \in Maps, Paging!InitMap(m)
  PROVE  Inv'
<1> USE DEF Paging!InitMap, Paging!Null
<1>1. PagingTypeOK /\ Bases /\ Regular /\ PagingRest /\ top = 0 /\ maps = {}
  BY DEF Inv, Bases
<1>2. PagingTypeOK'
  BY <1>1, Given DEF PagingTypeOK, PagingPlaces
<1>3. Bases'
  BY <1>1 DEF Bases, Mapping
<1>4. Regular'
  <2>1. m \in Seq([region : MayMap, type : Nat]) /\ DOMAIN m = 1 .. Len(m)
    <3>1. m \in Seq([region : MayMap, type : Nat])
      BY Given
    <3> QED BY <3>1, LenProperties
  <2>2. \A i, j \in 1 .. Len(m) :
          i # j /\ m[i].type = 1 /\ m[j].type = 1 => ~Paging!Overlaps(m[i].region, m[j].region)
    BY <2>1 DEF Paging!PageTableAssumption
  <2> QED BY <1>1, <2>2 DEF Regular, Paging!Overlaps
<1>5. PagingRest'
  BY <1>1 DEF PagingRest, Mapping
<1>6. PICK lv, px : Spans(lv, px) /\ Tree(lv, px)
  BY DEF Inv
<1>7. Spans(lv, px)' /\ Tree(lv, px)'
  <2>1. \A a \in Nat : InRest(a)' <=> InRest(a)
    BY DEF InRest, Mapping
  <2> QED BY <1>1, <1>6, <2>1, QuietStep DEF Spans
<1> QED BY <1>2, <1>3, <1>4, <1>5, <1>7 DEF Inv

\* What is left of a memory map without its first entry.
LEMMA TailFacts ==
  ASSUME NEW S, NEW s \in Seq(S), s # <<>>
  PROVE  /\ Tail(s) \in Seq(S) /\ Len(s) \in Nat /\ Len(s) > 0 /\ Len(Tail(s)) = Len(s) - 1
         /\ Head(s) = s[1] /\ s[1] \in S
         /\ \A i \in 1 .. Len(Tail(s)) : Tail(s)[i] = s[i + 1] /\ i + 1 \in 2 .. Len(s)
BY HeadTailProperties

LEMMA TailRegular ==
  ASSUME PagingTypeOK, Regular, todo # <<>>, todo' = Tail(todo), UNCHANGED maps,
         pc' # "check"
  PROVE  Regular'
<1> DEFINE s == Tail(todo)
<1>1. todo \in Seq([region : MayMap, type : Nat])
  BY DEF PagingTypeOK
<1>2. /\ Len(todo) \in Nat /\ Len(s) = Len(todo) - 1
      /\ \A i \in 1 .. Len(s) : s[i] = todo[i + 1] /\ i + 1 \in 2 .. Len(todo)
  BY <1>1, TailFacts
<1> HIDE DEF s
<1>3. todo' = s
  BY DEF s
<1>4. \A i, j \in 1 .. Len(s) :
        i # j /\ s[i].type = 1 /\ s[j].type = 1 => ~Paging!Overlaps(s[i].region, s[j].region)
  <2> SUFFICES ASSUME NEW i \in 1 .. Len(s), NEW j \in 1 .. Len(s), i # j,
                      s[i].type = 1, s[j].type = 1
               PROVE  ~Paging!Overlaps(s[i].region, s[j].region)
    OBVIOUS
  <2>1. i + 1 \in 1 .. Len(todo) /\ j + 1 \in 1 .. Len(todo) /\ i + 1 # j + 1
    BY <1>2
  <2> QED BY <1>2, <2>1 DEF Regular
<1>5. \A j \in 1 .. Len(s), r \in maps : s[j].type = 1 => ~Paging!Overlaps(s[j].region, r)
  <2> SUFFICES ASSUME NEW j \in 1 .. Len(s), NEW r \in maps, s[j].type = 1
               PROVE  ~Paging!Overlaps(s[j].region, r)
    OBVIOUS
  <2>1. j + 1 \in 1 .. Len(todo) /\ j + 1 > 1
    BY <1>2
  <2> QED BY <1>2, <2>1 DEF Regular
<1> QED BY <1>3, <1>4, <1>5 DEF Regular, Paging!Overlaps

LEMMA EntryKeeps ==
  ASSUME Paging!PageTableAssumption, Inv, Paging!Entry
  PROVE  Inv'
<1> USE DEF Paging!Entry, Paging!Null
<1>1. PagingTypeOK /\ Bases /\ Regular /\ PagingRest /\ cr3 = 0
  BY DEF Inv, Bases
<1>2. PICK lv, px : Spans(lv, px) /\ Tree(lv, px)
  BY DEF Inv
<1>3. ASSUME pc' # "walk", ~Mapping' PROVE Spans(lv, px)' /\ Tree(lv, px)'
  <2>1. \A a \in Nat : InRest(a)' <=> InRest(a)
    BY <1>3 DEF InRest, Mapping
  <2> QED BY <1>1, <1>2, <1>3, <2>1, QuietStep DEF Spans
<1>4. todo \in Seq([region : MayMap, type : Nat])
  BY <1>1 DEF PagingTypeOK
<1>5. pc' # "walk" /\ ~Mapping' /\ PagingRest'
  BY DEF Mapping, PagingRest
<1>6. Spans(lv, px)' /\ Tree(lv, px)'
  BY <1>3, <1>5
<1>7. CASE todo = <<>> /\ cr3' = base /\ pc' = "idle" /\ UNCHANGED <<req, todo>>
  <2>1. PagingTypeOK'
    BY <1>1, <1>7 DEF PagingTypeOK, PagingPlaces
  <2>2. Bases'
    BY <1>1, <1>7 DEF Bases, Mapping
  <2>3. Regular'
    BY <1>1, <1>7 DEF Regular, Paging!Overlaps
  <2> QED BY <1>5, <1>6, <2>1, <2>2, <2>3 DEF Inv
<1>8. CASE /\ todo # <<>> /\ Head(todo).type = 1
           /\ req' = Head(todo).region /\ pc' = "check"
           /\ UNCHANGED <<cr3, todo>>
  <2>1. Head(todo) = todo[1] /\ todo[1] \in [region : MayMap, type : Nat] /\ 1 \in 1 .. Len(todo)
    <3>1. Head(todo) = todo[1] /\ todo[1] \in [region : MayMap, type : Nat]
      BY <1>4, <1>8, TailFacts
    <3>2. Len(todo) \in Nat /\ Len(todo) > 0
      BY <1>4, <1>8, TailFacts
    <3> QED BY <3>1, <3>2
  <2>2. PagingTypeOK'
    BY <1>1, <1>8, <2>1 DEF PagingTypeOK, PagingPlaces
  <2>3. Bases'
    BY <1>1, <1>8 DEF Bases, Mapping
  <2>4. \A r \in maps : ~Paging!Overlaps(req', r)
    BY <1>1, <1>8, <2>1 DEF Regular
  <2>5. Regular'
    BY <1>1, <1>8, <2>1, <2>4 DEF Regular, Paging!Overlaps
  <2> QED BY <1>5, <1>6, <2>2, <2>3, <2>5 DEF Inv
<1>9. CASE todo # <<>> /\ Head(todo).type # 1 /\ todo' = Tail(todo) /\ UNCHANGED <<cr3, pc, req>>
  <2>1. Tail(todo) \in Seq([region : MayMap, type : Nat])
    BY <1>4, <1>9, TailFacts
  <2>2. PagingTypeOK'
    BY <1>1, <1>9, <2>1 DEF PagingTypeOK, PagingPlaces
  <2>3. Bases'
    BY <1>1, <1>9 DEF Bases, Mapping
  <2>4. Regular'
    BY <1>1, <1>9, TailRegular
  <2> QED BY <1>5, <1>6, <2>2, <2>3, <2>4 DEF Inv
<1> QED BY <1>7, <1>8, <1>9

LEMMA MapKeeps ==
  ASSUME Paging!PageTableAssumption, Inv, NEW r \in Regions, Paging!Map(r)
  PROVE  Inv'
<1> USE DEF Paging!Map, Paging!Null
<1>1. PagingTypeOK /\ Bases /\ Regular /\ PagingRest /\ cr3 = 1 /\ top > 0 /\ todo = <<>>
  BY DEF Inv, Bases, PagingTypeOK
<1>2. base' = 1
  <2>1. Paging!PageMode(mode) \in {"nrml_64bit", "pcide_64bit"}
    BY <1>1 DEF Paging!PageMode, PagingTypeOK
  <2> QED BY <1>1, <2>1 DEF Paging!PageTableLinearAddr
<1>3. PagingTypeOK'
  BY <1>1, <1>2, Given DEF PagingTypeOK, PagingPlaces
<1>4. Bases'
  BY <1>1, <1>2 DEF Bases, Mapping
<1>5. Regular' /\ PagingRest'
  BY <1>1 DEF Regular, PagingRest, Mapping, Paging!Overlaps
<1>6. PICK lv, px : Spans(lv, px) /\ Tree(lv, px)
  BY DEF Inv
<1>7. Spans(lv, px)' /\ Tree(lv, px)'
  <2>1. \A a \in Nat : InRest(a)' <=> InRest(a)
    BY DEF InRest, Mapping
  <2> QED BY <1>1, <1>6, <2>1, QuietStep DEF Spans
<1> QED BY <1>3, <1>4, <1>5, <1>7 DEF Inv

-----------------------------------------------------------------------------
(* The steps of page_table_map_lin_to_phy.                                 *)

LEMMA ReturnKeeps ==
  ASSUME Paging!PageTableAssumption, Inv, pc = "check" \/ (pc = "loop" /\ req.len < 1),
         NEW b \in {0, 1}, Paging!Return(b),
         UNCHANGED <<mem, top, maps, mode, req, walk>>,
         b = 1 => base = 1, b = 0 => pc = "check" /\ ~req.aligned
  PROVE  PagingIInv'
<1> USE DEF Paging!Null
<1>1. PagingTypeOK /\ Bases /\ Regular /\ PagingRest
  BY DEF Inv
<1>2. PICK lv, px : Spans(lv, px) /\ Tree(lv, px)
  BY DEF Inv
<1>3. \A a \in Nat : ~InRest(a)
  <2>1. req.lin \in Nat /\ req.len \in Nat
    BY <1>1, RegionFacts DEF PagingTypeOK
  <2> QED BY <2>1 DEF InRest, Mapping, PagingIn
<1>4. ASSUME pc' \in {"idle", "entry"} PROVE Spans(lv, px)' /\ Tree(lv, px)' /\ PagingRest' /\ ~Mapping'
  <2>1. \A a \in Nat : InRest(a)' <=> InRest(a)
    BY <1>3, <1>4 DEF InRest, Mapping
  <2>2. Tree(lv, px)'
    BY <1>1, <1>2, <1>4, <2>1, QuietStep
  <2> QED BY <1>2, <1>4, <2>2 DEF Spans, PagingRest, Mapping
<1>5. CASE cr3 # 0 /\ pc' = "idle" /\ UNCHANGED <<cr3, todo>>
  <2>1. PagingTypeOK'
    BY <1>1, <1>5 DEF PagingTypeOK, PagingPlaces, Paging!Return
  <2>2. Bases' /\ Regular'
    BY <1>1, <1>4, <1>5 DEF Bases, Regular, Paging!Overlaps, Paging!Return, PagingTypeOK
  <2> QED BY <1>4, <1>5, <2>1, <2>2 DEF PagingIInv, Inv
<1>6. CASE cr3 = 0 /\ todo # <<>> /\ b = 0 /\ pc' = "reset"
  BY <1>6 DEF PagingIInv, Ended, Bases
<1>7. CASE cr3 = 0 /\ todo # <<>> /\ b = 1 /\ pc' = "entry" /\ todo' = Tail(todo) /\ UNCHANGED cr3
  <2>1. Tail(todo) \in Seq([region : MayMap, type : Nat])
    BY <1>1, <1>7, TailFacts DEF PagingTypeOK
  <2>2. PagingTypeOK'
    BY <1>1, <1>7, <2>1 DEF PagingTypeOK, PagingPlaces, Paging!Return
  <2>3. Regular'
    BY <1>1, <1>7, TailRegular
  <2>4. Bases'
    BY <1>1, <1>4, <1>7 DEF Bases, Paging!Return, PagingTypeOK
  <2> QED BY <1>4, <1>7, <2>2, <2>3, <2>4 DEF PagingIInv, Inv
<1>8. CASE cr3 = 0 /\ todo = <<>> /\ pc' = "idle" /\ cr3' = b /\ UNCHANGED todo
  <2>1. PagingTypeOK'
    BY <1>1, <1>8 DEF PagingTypeOK, PagingPlaces, Paging!Return
  <2>2. Bases' /\ Regular'
    BY <1>1, <1>4, <1>8 DEF Bases, Regular, Paging!Overlaps, Paging!Return, PagingTypeOK
  <2> QED BY <1>4, <1>8, <2>1, <2>2 DEF PagingIInv, Inv
<1> QED BY <1>5, <1>6, <1>7, <1>8 DEF Paging!Return

\* A region that none of those asked for overlaps is asked for.
LEMMA AskRegular ==
  ASSUME PagingTypeOK, Regular, pc = "check", maps' = maps \cup {req} \/ maps' = {req}, pc' = "loop",
         UNCHANGED <<req, todo>>
  PROVE  Regular'
<1>1. maps' \subseteq maps \cup {req}
  OBVIOUS
<1>2. \A r, s \in maps' : Paging!Overlaps(r, s) => r = s
  BY <1>1 DEF Regular, Paging!Overlaps
<1>3. Len(todo) \in Nat /\ (todo = <<>> => Len(todo) = 0)
  BY LenProperties DEF PagingTypeOK
<1>4. \A j \in 1 .. Len(todo), r \in maps' :
        todo[j].type = 1 /\ j > 1 => ~Paging!Overlaps(todo[j].region, r)
  <2> SUFFICES ASSUME NEW j \in 1 .. Len(todo), todo[j].type = 1, j > 1
               PROVE  ~Paging!Overlaps(todo[j].region, req)
    BY <1>1 DEF Regular
  <2>1. 1 \in 1 .. Len(todo) /\ todo # <<>>
    BY <1>3
  <2>2. ~Paging!Overlaps(todo[1].region, todo[j].region) /\ req = todo[1].region
    BY <2>1 DEF Regular
  <2> QED BY <2>2 DEF Paging!Overlaps
<1> QED BY <1>2, <1>4 DEF Regular, Paging!Overlaps

LEMMA CheckMore ==
  ASSUME Paging!PageTableAssumption, Inv, pc = "check", base = 1, pc' = "loop", maps' = maps \cup {req},
         UNCHANGED <<mem, top, cr3, mode, req, todo, base, walk>>
  PROVE  Inv'
<1>1. PagingTypeOK /\ Bases /\ Regular /\ PagingRest
  BY DEF Inv
<1>2. PICK lv, px : Spans(lv, px) /\ Tree(lv, px)
  BY DEF Inv
<1>3. PagingTypeOK'
  BY <1>1 DEF PagingTypeOK, PagingPlaces
<1>4. Bases'
  BY <1>1 DEF Bases, Mapping
<1>5. Regular'
  BY <1>1, AskRegular
<1>6. PagingRest'
  <2>1. req.lin <= req.lin
    BY <1>1, RegionFacts DEF PagingTypeOK
  <2> QED BY <2>1 DEF PagingRest
<1>7. \A r \in maps, a \in Nat : PagingIn(r, a) => ~PagingIn(req, a)
  BY <1>1 DEF Regular, Paging!Overlaps, PagingIn
<1>8. \A a : InRest(a)' <=> PagingIn(req, a)
  BY DEF InRest, Mapping, PagingIn
<1>9. \A a \in Nat : Done(a)' <=> Done(a)
  <2>1. \A a : ~InRest(a)
    BY DEF InRest, Mapping
  <2>2. \A a : Done(a)' <=> (\E r \in maps \cup {req} : PagingIn(r, a)) /\ ~PagingIn(req, a)
    BY <1>8 DEF Done, PagingIn
  <2> QED BY <1>7, <2>1, <2>2 DEF Done
<1>10. TopIs(lv, px)' /\ PointsDown(lv, px)' /\ PointedAt(lv, px)'
  BY <1>2 DEF Tree, TopIs, PointsDown, PointedAt
<1>11. PagesLie(lv, px)'
  <2> SUFFICES ASSUME NEW t \in 1 .. top, NEW i \in 0 .. Fan - 1, IsPage(mem[t][i])
               PROVE  PageMaps(mem[t][i], lv[t], Fan * px[t] + i)'
    BY DEF PagesLie
  <2>1. PageMaps(mem[t][i], lv[t], Fan * px[t] + i)
    BY <1>2 DEF Tree, PagesLie
  <2> DEFINE e == mem[t][i]
             n == Paging!Size(lv[t])
  <2>2. e.phy \in Nat
    <3>1. t \in Paging!Tables
      BY <1>1, FanIs DEF PagingTypeOK, Paging!Tables
    <3> QED BY <1>1, <3>1 DEF PagingTypeOK
  <2>3. n \in Nat
    <3>1. t \in Paging!Tables
      BY <1>1, FanIs DEF PagingTypeOK, Paging!Tables
    <3> QED BY <1>2, <3>1, PagingSizes DEF Spans
  <2>4. PICK r \in maps : r.lin <= e.phy /\ e.phy + n <= r.lin + r.len /\ e.c = r.caching - 1
    BY <2>1 DEF PageMaps
  <2>5. r.lin \in Nat /\ r.len \in Nat
    BY <1>1, RegionFacts DEF PagingTypeOK
  <2>6. \A a \in e.phy .. e.phy + n - 1 : a \in Nat /\ PagingIn(r, a)
    BY <2>2, <2>3, <2>4, <2>5 DEF PagingIn
  <2>7. \A a \in e.phy .. e.phy + n - 1 : ~InRest(a)'
    BY <1>7, <1>8, <2>6
  <2> QED BY <2>1, <2>4, <2>7 DEF PageMaps
<1>12. AllMapped(lv, px)'
  BY <1>2, <1>9 DEF Tree, AllMapped
<1>13. Used(lv, px)'
  BY <1>2, <1>9 DEF Tree, Used, OnWay
<1>14. WalkAt(lv, px)'
  BY DEF WalkAt
<1> QED BY <1>2, <1>3, <1>4, <1>5, <1>6, <1>10, <1>11, <1>12, <1>13, <1>14 DEF Inv, Tree, Spans

LEMMA CheckFirst ==
  ASSUME Paging!PageTableAssumption, Inv, pc = "check", base = 0, Paging!CanAlloc, pc' = "loop",
         maps' = {req},
         mem' = [Paging!Alloc(mem) EXCEPT ![top + 1][Fan - 1] = Paging!Pointer(top + 1)], top' = top + 1,
         base' = top + 1, UNCHANGED <<cr3, mode, req, todo, walk>>
  PROVE  Inv'
<1>1. PagingTypeOK /\ Bases /\ Regular /\ PagingRest /\ top = 0
  BY DEF Inv, Bases
<1>2. 1 \in Paging!Tables /\ Fan - 1 \in 0 .. Fan - 1 /\ Fan \in Nat /\ Pages \in Nat
  BY <1>1, FanIs DEF Paging!CanAlloc, Paging!Tables
<1> DEFINE E == [p : BOOLEAN, l : 0 .. 3, phy : Nat, c : 0 .. 7]
<1>3. mem \in [Paging!Tables -> [0 .. Fan - 1 -> E]]
  BY <1>1 DEF PagingTypeOK
<1>4. mem'[1] = [i \in 0 .. Fan - 1 |-> IF i = Fan - 1 THEN Paging!Pointer(1) ELSE Paging!NoEntry]
  <2>1. PICK z : z = [i \in 0 .. Fan - 1 |-> Paging!NoEntry]
    OBVIOUS
  <2>2. Paging!Alloc(mem) = [mem EXCEPT ![1] = z] /\ Paging!Alloc(mem)[1] = z
    BY <1>1, <1>2, <1>3, <2>1 DEF Paging!Alloc
  <2>3. mem'[1] = [z EXCEPT ![Fan - 1] = Paging!Pointer(1)]
    BY <1>1, <1>2, <1>3, <2>2
  <2> QED BY <1>2, <2>1, <2>3
<1>5. mem' \in [Paging!Tables -> [0 .. Fan - 1 -> E]]
  <2>1. Paging!Pointer(1) \in E /\ Paging!NoEntry \in E
    BY DEF Paging!Pointer, Paging!NoEntry
  <2>2. mem'[1] \in [0 .. Fan - 1 -> E]
    BY <1>4, <2>1
  <2>3. DOMAIN mem' = Paging!Tables /\ mem' = [t \in Paging!Tables |-> mem'[t]]
    BY <1>3 DEF Paging!Alloc
  <2>4. \A t \in Paging!Tables \ {1} : mem'[t] = mem[t]
    BY <1>1, <1>3 DEF Paging!Alloc
  <2> QED BY <1>3, <2>2, <2>3, <2>4
<1>6. PagingTypeOK'
  <2>1. top' \in 0 .. Pages /\ base' \in {0, 1} /\ maps' \subseteq MayMap
    BY <1>1, <1>2 DEF PagingTypeOK, Paging!CanAlloc
  <2> QED BY <1>1, <1>5, <2>1 DEF PagingTypeOK, PagingPlaces
<1>7. Bases'
  BY <1>1 DEF Bases, Mapping
<1>8. Regular'
  BY <1>1, AskRegular
<1>9. PagingRest'
  <2>1. req.lin <= req.lin
    BY <1>1, RegionFacts DEF PagingTypeOK
  <2> QED BY <2>1 DEF PagingRest
<1>10. PICK lv, px : lv = [t \in Paging!Tables |-> 4] /\ px = [t \in Paging!Tables |-> 0]
  OBVIOUS
<1>11. Spans(lv, px)' /\ lv[1] = 4 /\ px[1] = 0
  BY <1>2, <1>10 DEF Spans, Levels
<1>12. top' = 1 /\ \A n : n \in 1 .. top' <=> n = 1
  BY <1>1
<1>13. \A n : n \notin 2 .. top'
  BY <1>1
<1>14. \A a : ~Done(a)'
  BY DEF Done, InRest, Mapping, PagingIn
<1>15. \A i \in 0 .. Fan - 1 : ~IsPage(mem'[1][i]) /\ (IsPointer(mem'[1][i]) => Itself(1, i))
  BY <1>2, <1>4 DEF IsPage, IsPointer, Paging!Pointer, Paging!NoEntry, Itself
<1>16. TopIs(lv, px)'
  BY <1>2, <1>4, <1>11 DEF TopIs, Paging!Pointer
<1>17. PointsDown(lv, px)' /\ PagesLie(lv, px)'
  BY <1>12, <1>15 DEF PointsDown, PagesLie, IsPointer, IsPage
<1>18. PointedAt(lv, px)' /\ Used(lv, px)'
  BY <1>13 DEF PointedAt, Used
<1>19. AllMapped(lv, px)' /\ WalkAt(lv, px)'
  BY <1>14 DEF AllMapped, WalkAt
<1> QED BY <1>6, <1>7, <1>8, <1>9, <1>11, <1>16, <1>17, <1>18, <1>19 DEF Inv, Tree

LEMMA CheckKeeps ==
  ASSUME Paging!PageTableAssumption, Inv, Paging!Check
  PROVE  PagingIInv'
<1> USE DEF Paging!Null
<1>1. CASE ~req.aligned /\ Paging!Return(Paging!Null) /\ UNCHANGED <<mem, top, maps>>
  BY <1>1, ReturnKeeps DEF Paging!Check
<1>2. CASE base # Paging!Null /\ pc' = "loop" /\ maps' = maps \cup {req}
           /\ UNCHANGED <<mem, top, cr3, base, todo>>
  <2>1. base = 1
    BY <1>2 DEF Inv, PagingTypeOK
  <2> QED BY <1>2, <2>1, CheckMore DEF Paging!Check, PagingIInv
<1>3. CASE ~Paging!CanAlloc /\ pc' = "reset" /\ UNCHANGED <<mem, top, cr3, base, maps, todo>>
  <2>1. top = Pages
    BY <1>3, FanIs DEF Paging!CanAlloc, Inv, PagingTypeOK
  <2> QED BY <1>3, <2>1 DEF PagingIInv, Ended
<1>4. CASE /\ base = Paging!Null /\ Paging!CanAlloc
           /\ mem' = [Paging!Alloc(mem) EXCEPT ![top + 1][Fan - 1] = Paging!Pointer(top + 1)]
           /\ top' = top + 1 /\ base' = top + 1 /\ maps' = {req} /\ pc' = "loop"
           /\ UNCHANGED <<cr3, todo>>
  BY <1>4, CheckFirst DEF Paging!Check, PagingIInv
<1> QED BY <1>1, <1>2, <1>3, <1>4 DEF Paging!Check

\* There is a page that fits, as one of 4K does.
LEMMA TargetFits ==
  ASSUME Paging!PageTableAssumption, NEW r \in MayMap, r.len >= 1
  PROVE  Paging!Target(r) \in 1 .. 3 /\ Paging!Fits(r, Paging!Target(r))
<1>1. Paging!Fits(r, 1)
  <2>1. r.lin \in Nat /\ r.phy \in Nat /\ r.len \in Nat
    BY RegionFacts
  <2>2. Paging!Size(1) = 1
    BY DEF Paging!Size
  <2> QED BY <2>1, <2>2 DEF Paging!Fits
<1>2. \E l \in 1 .. 3 : Paging!Fits(r, l) /\ \A k \in 1 .. 3 : Paging!Fits(r, k) => k <= l
  <2>1. CASE Paging!Fits(r, 3)
    BY <2>1
  <2>2. CASE ~Paging!Fits(r, 3) /\ Paging!Fits(r, 2)
    BY <2>2
  <2>3. CASE ~Paging!Fits(r, 3) /\ ~Paging!Fits(r, 2)
    BY <1>1, <2>3
  <2> QED BY <2>1, <2>2, <2>3
<1> QED BY <1>2 DEF Paging!Target

LEMMA LoopKeeps ==
  ASSUME Paging!PageTableAssumption, Inv, Paging!Loop
  PROVE  PagingIInv'
<1> USE DEF Paging!Null
<1>1. PagingTypeOK /\ Bases /\ Regular /\ PagingRest /\ base = 1 /\ top > 0
  BY DEF Inv, Paging!Loop, Bases, Mapping
<1>2. req \in MayMap /\ req.lin \in Nat /\ req.len \in Nat
  BY <1>1, RegionFacts DEF PagingTypeOK
<1>3. CASE req.len < 1
  <2>1. pc = "loop" /\ Paging!Return(1) /\ UNCHANGED <<mem, top, maps, mode, req, walk>>
    BY <1>1, <1>3 DEF Paging!Loop, Paging!Return
  <2> QED BY <1>1, <1>3, <2>1, ReturnKeeps
<1>4. CASE req.len >= 1
  <2>1. /\ pc' = "walk" /\ walk' = [tab |-> 1, l |-> 4, target |-> Paging!Target(req)]
        /\ UNCHANGED <<mem, top, cr3, mode, req, todo, base, maps>>
    BY <1>1, <1>2, <1>4 DEF Paging!Loop
  <2>2. Paging!Target(req) \in 1 .. 3 /\ Paging!Fits(req, Paging!Target(req))
    BY <1>2, <1>4, TargetFits
  <2>3. PagingTypeOK'
    <3>1. 1 \in 0 .. Pages
      BY <1>1, FanIs DEF PagingTypeOK
    <3>2. walk' \in [tab : 0 .. Pages, l : 0 .. 4, target : 0 .. 3]
      BY <2>1, <2>2, <3>1
    <3> QED BY <1>1, <2>1, <3>2 DEF PagingTypeOK, PagingPlaces
  <2>4. Bases' /\ Regular'
    BY <1>1, <2>1 DEF Bases, Regular, Mapping, Paging!Loop, Paging!Overlaps
  <2>5. PagingRest'
    BY <1>1, <2>1, <2>2 DEF PagingRest, Mapping, Paging!Fits, Paging!Loop
  <2>6. PICK lv, px : Spans(lv, px) /\ Tree(lv, px)
    BY DEF Inv
  <2>7. WalkAt(lv, px)'
    <3>1. req.lin < Limit
      BY <1>2, <1>4, RegionFacts DEF PagingIn
    <3>2. Num(req.lin, 4) \div Fan = 0
      BY <1>2, <3>1, TopSpans
    <3>3. lv[1] = 4 /\ px[1] = 0 /\ 1 \in 1 .. top
      BY <1>1, <2>6 DEF Tree, TopIs, PagingTypeOK
    <3> QED BY <2>1, <3>2, <3>3 DEF WalkAt, Num, Paging!Size
  <2>8. \A a \in Nat : InRest(a)' <=> InRest(a)
    BY <2>1 DEF InRest, Mapping, Paging!Loop, PagingIn
  <2>9. Tree(lv, px)'
    BY <1>1, <2>1, <2>6, <2>7, <2>8, QuietStep DEF Paging!Loop
  <2> QED BY <2>3, <2>4, <2>5, <2>6, <2>9 DEF PagingIInv, Inv, Spans
<1> QED BY <1>2, <1>3, <1>4

-----------------------------------------------------------------------------
(* The walk.                                                               *)

\* Where the walk is.
LEMMA WalkFacts ==
  ASSUME Paging!PageTableAssumption, PagingTypeOK, Bases, PagingRest, NEW lv, NEW px,
         Spans(lv, px), Tree(lv, px),
         pc = "walk"
  PROVE  /\ req.lin \in Nat /\ req.len \in Nat /\ req.len >= 1 /\ InRest(req.lin)
         /\ walk.tab \in 1 .. top /\ walk.tab \in Paging!Tables
         /\ walk.l \in Levels /\ walk.l = lv[walk.tab] /\ walk.l >= walk.target /\ walk.target \in 1 .. 3
         /\ Paging!Idx(req.lin, walk.l) \in 0 .. Fan - 1
         /\ px[walk.tab] \in Nat /\ px[walk.tab] = Num(req.lin, walk.l) \div Fan
         /\ Num(req.lin, walk.l) = Fan * px[walk.tab] + Paging!Idx(req.lin, walk.l)
         /\ ~Itself(walk.tab, Paging!Idx(req.lin, walk.l))
<1>1. req \in MayMap /\ req.lin \in Nat /\ req.len \in Nat
  BY RegionFacts DEF PagingTypeOK
<1>2. walk.tab \in 1 .. top /\ walk.l = lv[walk.tab] /\ px[walk.tab] = Num(req.lin, walk.l) \div Fan
  BY DEF Tree, WalkAt
<1>3. walk.tab \in Paging!Tables
  BY <1>2, FanIs DEF PagingTypeOK, Paging!Tables
<1>4. walk.l \in Levels /\ px[walk.tab] \in Nat
  BY <1>2, <1>3 DEF Spans
<1>5. walk.target \in 1 .. 3 /\ walk.l >= walk.target /\ Paging!Fits(req, walk.target)
  BY <1>4 DEF PagingRest, Levels
<1>6. req.len >= 1
  <2>1. Paging!Size(walk.target) \in Nat /\ Paging!Size(walk.target) > 0
    BY <1>5, PagingSizes DEF Levels
  <2> QED BY <1>1, <1>5, <2>1 DEF Paging!Fits
<1>7. PagingIn(req, req.lin) /\ InRest(req.lin)
  BY <1>1, <1>6 DEF PagingIn, InRest, Mapping
<1>8. /\ Paging!Idx(req.lin, walk.l) \in 0 .. Fan - 1
      /\ Num(req.lin, walk.l) = Fan * px[walk.tab] + Paging!Idx(req.lin, walk.l)
  BY <1>1, <1>2, <1>4, Numbers
<1>9. ~Itself(walk.tab, Paging!Idx(req.lin, walk.l))
  <2> SUFFICES ASSUME walk.tab = 1 PROVE Paging!Idx(req.lin, walk.l) # Fan - 1
    BY DEF Itself
  <2>1. walk.l = 4
    <3>1. top > 0
      BY DEF Bases, Mapping
    <3> QED BY <1>2, <3>1 DEF Tree, TopIs
  <2>2. req.lin < Limit
    BY <1>1, <1>7, RegionFacts
  <2> QED BY <1>1, <2>1, <2>2, TopSpans
<1> QED BY <1>1, <1>2, <1>3, <1>4, <1>5, <1>6, <1>7, <1>8, <1>9

\* On its way the walk never meets a page: its address is not mapped.
LEMMA NoPageOnWay ==
  ASSUME Paging!PageTableAssumption, PagingTypeOK, Bases, PagingRest, NEW lv, NEW px,
         Spans(lv, px), Tree(lv, px),
         pc = "walk"
  PROVE  ~IsPage(mem[walk.tab][Paging!Idx(req.lin, walk.l)])
<1> DEFINE i == Paging!Idx(req.lin, walk.l)
           e == mem[walk.tab][i]
<1>1. /\ walk.tab \in 1 .. top /\ walk.tab \in Paging!Tables /\ i \in 0 .. Fan - 1 /\ walk.l \in Levels
      /\ walk.l = lv[walk.tab] /\ Num(req.lin, walk.l) = Fan * px[walk.tab] + i
      /\ InRest(req.lin) /\ req.lin \in Nat
  BY WalkFacts
<1> SUFFICES ASSUME IsPage(e) PROVE FALSE
  OBVIOUS
<1>2. PageMaps(e, walk.l, Num(req.lin, walk.l))
  BY <1>1 DEF Tree, PagesLie
<1>3. e.phy \in Nat
  <2>1. mem[walk.tab] \in [0 .. Fan - 1 -> [p : BOOLEAN, l : 0 .. 3, phy : Nat, c : 0 .. 7]]
    BY <1>1 DEF PagingTypeOK
  <2> QED BY <1>1, <2>1
<1>4. req.lin \in e.phy .. e.phy + Paging!Size(walk.l) - 1
  BY <1>1, <1>2, <1>3, PageOf DEF PageMaps
<1> QED BY <1>1, <1>2, <1>4 DEF PageMaps

\* What is said about the call alone does not depend on how far the walk is.
LEMMA WalkStays ==
  ASSUME PagingTypeOK, Bases, Regular, pc = "walk", pc' = "walk", UNCHANGED <<cr3, req, todo, base, maps>>,
         top' >= top, top \in Nat, top' \in Nat
  PROVE  Bases' /\ Regular'
<1>1. top > 0
  BY DEF Bases, Mapping
<1>2. Bases'
  BY <1>1 DEF Bases, Mapping
<1>3. Regular'
  BY DEF Regular, Paging!Overlaps
<1> QED BY <1>2, <1>3

LEMMA DescendDown ==
  ASSUME Paging!PageTableAssumption, Inv, pc = "walk", walk.l > walk.target,
         LET e == mem[walk.tab][Paging!Idx(req.lin, walk.l)]
         IN IsPointer(e) /\ walk' = [walk EXCEPT !.tab = e.phy, !.l = @ - 1],
         UNCHANGED <<mem, top, pc, cr3, mode, req, todo, base, maps>>
  PROVE  Inv'
<1>1. PagingTypeOK /\ Bases /\ Regular /\ PagingRest
  BY DEF Inv
<1>2. PICK lv, px : Spans(lv, px) /\ Tree(lv, px)
  BY DEF Inv
<1> DEFINE i == Paging!Idx(req.lin, walk.l)
           e == mem[walk.tab][i]
<1>3. /\ walk.tab \in 1 .. top /\ i \in 0 .. Fan - 1 /\ walk.l \in Levels /\ req.lin \in Nat
      /\ walk.l = lv[walk.tab] /\ Num(req.lin, walk.l) = Fan * px[walk.tab] + i
      /\ ~Itself(walk.tab, i) /\ walk.target \in 1 .. 3
  BY <1>1, <1>2, WalkFacts
<1>4. e.phy \in 2 .. top /\ lv[e.phy] = walk.l - 1 /\ px[e.phy] = Num(req.lin, walk.l)
  BY <1>2, <1>3 DEF Tree, PointsDown
<1>5. walk \in [tab : 0 .. Pages, l : 0 .. 4, target : 0 .. 3] /\ top \in 0 .. Pages
  BY <1>1 DEF PagingTypeOK
<1>6. walk'.tab = e.phy /\ walk'.l = walk.l - 1 /\ walk'.target = walk.target
  BY <1>5
<1>7. walk.l - 1 \in Levels /\ walk.l - 1 + 1 = walk.l /\ walk.l - 1 < 4
  BY <1>3 DEF Levels
<1>8. PagingTypeOK'
  <2>1. walk' \in [tab : 0 .. Pages, l : 0 .. 4, target : 0 .. 3]
    <3>1. e.phy \in 0 .. Pages /\ walk.l - 1 \in 0 .. 4
      BY <1>4, <1>5, <1>7, FanIs DEF Levels
    <3> QED BY <1>5, <3>1
  <2> QED BY <1>1, <2>1 DEF PagingTypeOK
<1>9. Bases' /\ Regular'
  BY <1>1, <1>5, WalkStays
<1>10. PagingRest'
  BY <1>1, <1>3, <1>6, <1>7 DEF PagingRest, Mapping, Paging!Fits, Levels
<1>11. WalkAt(lv, px)'
  <2>1. px[e.phy] = Num(req.lin, walk.l - 1) \div Fan
    BY <1>3, <1>4, <1>7, Numbers
  <2>2. e.phy \in 1 .. top
    BY <1>4
  <2> QED BY <1>4, <1>6, <2>1, <2>2 DEF WalkAt, Num, Paging!Size
<1>12. \A a : (InRest(a)' <=> InRest(a)) /\ (Done(a)' <=> Done(a))
  BY DEF InRest, Mapping, PagingIn, Done
<1>13. TopIs(lv, px)' /\ PointsDown(lv, px)' /\ PointedAt(lv, px)'
  BY <1>2 DEF Tree, TopIs, PointsDown, PointedAt
<1>14. PagesLie(lv, px)'
  BY <1>2, <1>12 DEF Tree, PagesLie, PageMaps
<1>15. AllMapped(lv, px)'
  BY <1>2, <1>12 DEF Tree, AllMapped
<1>16. Used(lv, px)'
  <2> SUFFICES ASSUME NEW c \in 2 .. top, OnWay(lv[c], px[c]) PROVE OnWay(lv[c], px[c])'
    BY <1>2, <1>12 DEF Tree, Used
  <2>1. lv[c] \in Levels
    BY <1>2, <1>5, FanIs DEF Spans, Paging!Tables
  <2> QED BY <1>3, <1>6, <2>1 DEF OnWay, Levels
<1> QED BY <1>2, <1>8, <1>9, <1>10, <1>11, <1>13, <1>14, <1>15, <1>16 DEF Inv, Tree, Spans

\* The step takes a new table, c, for entry i of table t, which was not present.
Takes(t, i, c) ==
  /\ t \in 1 .. top /\ i \in 0 .. Fan - 1 /\ c = top + 1 /\ Paging!CanAlloc /\ ~mem[t][i].p
  /\ mem' = [Paging!Alloc(mem) EXCEPT ![t][i] = Paging!Pointer(c)]
TakenAs(t, i, c) ==
  /\ mem' \in [Paging!Tables -> [0 .. Fan - 1 -> [p : BOOLEAN, l : 0 .. 3, phy : Nat, c : 0 .. 7]]]
  /\ mem'[t][i] = Paging!Pointer(c)
  /\ \A j \in 0 .. Fan - 1 : ~mem'[c][j].p
  /\ \A u \in 1 .. top, j \in 0 .. Fan - 1 : ~(u = t /\ j = i) => mem'[u][j] = mem[u][j]
  /\ c \in Paging!Tables /\ c \notin 1 .. top /\ c \in Nat

LEMMA Taken ==
  ASSUME Paging!PageTableAssumption, PagingTypeOK, NEW t, NEW i, NEW c, Takes(t, i, c)
  PROVE  TakenAs(t, i, c)
<1> USE DEF Takes
<1> DEFINE E == [p : BOOLEAN, l : 0 .. 3, phy : Nat, c : 0 .. 7]
<1>1. top \in Nat /\ Pages \in Nat /\ mem \in [Paging!Tables -> [0 .. Fan - 1 -> E]]
  BY FanIs DEF PagingTypeOK
<1>2. c \in Paging!Tables /\ c \notin 1 .. top /\ c \in Nat /\ t \in Paging!Tables
       /\ \A u \in 1 .. top : u \in Paging!Tables /\ u # c
  BY <1>1 DEF Paging!CanAlloc, Paging!Tables, PagingTypeOK
<1>3. PICK z : z = [j \in 0 .. Fan - 1 |-> Paging!NoEntry]
  OBVIOUS
<1>4. PICK m : m = Paging!Alloc(mem)
  OBVIOUS
<1>5. m = [mem EXCEPT ![c] = z]
  BY <1>3, <1>4 DEF Paging!Alloc
<1>6. mem' = [m EXCEPT ![t] = [m[t] EXCEPT ![i] = Paging!Pointer(c)]]
  BY <1>1, <1>2, <1>4, <1>5
<1>7. m[t] = mem[t] /\ m[c] = z /\ DOMAIN m = Paging!Tables
  BY <1>1, <1>2, <1>5
<1>8. /\ mem'[t] = [mem[t] EXCEPT ![i] = Paging!Pointer(c)] /\ mem'[c] = z
      /\ \A u \in Paging!Tables : u # t /\ u # c => mem'[u] = mem[u]
      /\ mem' = [u \in Paging!Tables |-> mem'[u]]
  BY <1>1, <1>2, <1>5, <1>6, <1>7
<1>9. Paging!Pointer(c) \in E /\ Paging!NoEntry \in E /\ ~Paging!NoEntry.p
  BY <1>2 DEF Paging!Pointer, Paging!NoEntry
<1>10. mem[t] \in [0 .. Fan - 1 -> E]
  BY <1>1, <1>2
<1>11. mem'[t] \in [0 .. Fan - 1 -> E] /\ z \in [0 .. Fan - 1 -> E]
  <2>1. PICK f : f = mem[t]
    OBVIOUS
  <2>2. PICK x : x = Paging!Pointer(c)
    OBVIOUS
  <2>3. f \in [0 .. Fan - 1 -> E] /\ x \in E
    BY <1>9, <1>10, <2>1, <2>2
  <2> HIDE DEF E
  <2>4. [f EXCEPT ![i] = x] \in [0 .. Fan - 1 -> E]
    BY <2>3
  <2>5. z \in [0 .. Fan - 1 -> E]
    BY <1>3, <1>9
  <2> QED BY <1>8, <2>1, <2>2, <2>4, <2>5
<1>12. mem' \in [Paging!Tables -> [0 .. Fan - 1 -> E]]
  <2> SUFFICES ASSUME NEW u \in Paging!Tables PROVE mem'[u] \in [0 .. Fan - 1 -> E]
    BY <1>8
  <2> QED BY <1>1, <1>8, <1>11
<1>13. mem'[t][i] = Paging!Pointer(c) /\ \A j \in 0 .. Fan - 1 : j # i => mem'[t][j] = mem[t][j]
  <2>1. PICK f : f = mem[t]
    OBVIOUS
  <2>2. PICK x : x = Paging!Pointer(c)
    OBVIOUS
  <2> HIDE DEF E
  <2>3. f \in [0 .. Fan - 1 -> E]
    BY <1>10, <2>1
  <2>4. PICK g : g = [f EXCEPT ![i] = x]
    OBVIOUS
  <2>5. g[i] = x /\ \A j \in 0 .. Fan - 1 : j # i => g[j] = f[j]
    BY <2>3, <2>4
  <2>6. mem'[t] = g
    BY <1>8, <2>1, <2>2, <2>4
  <2> QED BY <2>1, <2>2, <2>5, <2>6
<1>14. \A j \in 0 .. Fan - 1 : ~mem'[c][j].p
  BY <1>3, <1>8, <1>9
<1> QED BY <1>2, <1>8, <1>12, <1>13, <1>14 DEF TakenAs

LEMMA DescendTake ==
  ASSUME Paging!PageTableAssumption, Inv, pc = "walk", walk.l > walk.target, Paging!CanAlloc,
         ~mem[walk.tab][Paging!Idx(req.lin, walk.l)].p,
         mem' = [Paging!Alloc(mem) EXCEPT
                 ![walk.tab][Paging!Idx(req.lin, walk.l)] = Paging!Pointer(top + 1)],
         top' = top + 1, walk' = [walk EXCEPT !.tab = top + 1, !.l = @ - 1],
         UNCHANGED <<pc, cr3, mode, req, todo, base, maps>>
  PROVE  Inv'
<1>1. PagingTypeOK /\ Bases /\ Regular /\ PagingRest
  BY DEF Inv
<1>2. PICK lv, px : Spans(lv, px) /\ Tree(lv, px)
  BY DEF Inv
<1>3. PICK t, i, l, c : t = walk.tab /\ i = Paging!Idx(req.lin, walk.l) /\ l = walk.l /\ c = top + 1
  OBVIOUS
<1>4. /\ t \in 1 .. top /\ i \in 0 .. Fan - 1 /\ l \in Levels /\ req.lin \in Nat
      /\ l = lv[t] /\ Num(req.lin, l) = Fan * px[t] + i
      /\ ~Itself(t, i) /\ walk.target \in 1 .. 3 /\ l > walk.target
  BY <1>1, <1>2, <1>3, WalkFacts
<1>5. top \in Nat /\ Fan \in Nat /\ Pages \in Nat
  BY <1>1, FanIs DEF PagingTypeOK
<1>6. l - 1 \in Levels /\ l - 1 < 4 /\ l - 1 + 1 = l
  BY <1>4 DEF Levels
<1>7. PICK n \in Nat : n = Num(req.lin, l)
  BY <1>4, Numbers
<1>8. /\ mem' \in [Paging!Tables -> [0 .. Fan - 1 -> [p : BOOLEAN, l : 0 .. 3, phy : Nat, c : 0 .. 7]]]
      /\ mem'[t][i] = Paging!Pointer(c)
      /\ \A j \in 0 .. Fan - 1 : ~mem'[c][j].p
      /\ \A u \in 1 .. top, j \in 0 .. Fan - 1 : ~(u = t /\ j = i) => mem'[u][j] = mem[u][j]
      /\ c \in Paging!Tables /\ c \notin 1 .. top /\ c \in Nat
  <2>1. Takes(t, i, c)
    BY <1>3, <1>4 DEF Takes
  <2>2. TakenAs(t, i, c)
    BY <1>1, <2>1, Taken
  <2> QED BY <2>2 DEF TakenAs
<1>9. walk \in [tab : 0 .. Pages, l : 0 .. 4, target : 0 .. 3]
  BY <1>1 DEF PagingTypeOK
<1>10. walk'.tab = c /\ walk'.l = l - 1 /\ walk'.target = walk.target
  BY <1>3, <1>9
<1>11. PagingTypeOK'
  <2>1. walk' \in [tab : 0 .. Pages, l : 0 .. 4, target : 0 .. 3]
    <3>1. c \in 0 .. Pages /\ l - 1 \in 0 .. 4
      BY <1>5, <1>6, <1>8 DEF Levels, Paging!Tables
    <3> QED BY <1>3, <1>9, <3>1
  <2>2. top' \in 0 .. Pages
    BY <1>3, <1>5, <1>8 DEF Paging!Tables
  <2> QED BY <1>1, <1>8, <2>1, <2>2 DEF PagingTypeOK
<1>12. Bases' /\ Regular'
  BY <1>1, <1>5, WalkStays
<1>13. PagingRest'
  BY <1>1, <1>4, <1>6, <1>10 DEF PagingRest, Mapping, Paging!Fits, Levels
<1>14. PICK lw, pw : lw = [lv EXCEPT ![c] = l - 1] /\ pw = [px EXCEPT ![c] = n]
  OBVIOUS
<1>15. /\ Spans(lw, pw)' /\ lw[c] = l - 1 /\ pw[c] = n
       /\ \A u \in 1 .. top : lw[u] = lv[u] /\ pw[u] = px[u]
  <2>1. \A u \in 1 .. top : u \in Paging!Tables /\ u # c
    BY <1>5, <1>8 DEF Paging!Tables, Paging!CanAlloc
  <2> QED BY <1>2, <1>6, <1>8, <1>14, <2>1 DEF Spans
<1>16. \A u : u \in 1 .. top' <=> u \in 1 .. top \/ u = c
  BY <1>3, <1>5
<1>17. \A u : u \in 2 .. top' <=> u \in 2 .. top \/ u = c
  BY <1>3, <1>4, <1>5
<1>18. top > 0 /\ 1 \in 1 .. top /\ t \in 1 .. top'
  BY <1>4, <1>5, <1>16
<1>19. \A a : (InRest(a)' <=> InRest(a)) /\ (Done(a)' <=> Done(a))
  BY DEF InRest, Mapping, PagingIn, Done
<1>20. TopIs(lw, pw)'
  <2>1. ~(1 = t /\ Fan - 1 = i)
    BY <1>4 DEF Itself
  <2>2. Fan - 1 \in 0 .. Fan - 1
    BY FanIs
  <2>3. mem'[1][Fan - 1] = mem[1][Fan - 1]
    BY <1>8, <1>18, <2>1, <2>2
  <2>4. lv[1] = 4 /\ px[1] = 0 /\ mem[1][Fan - 1] = Paging!Pointer(1)
    BY <1>2, <1>18 DEF Tree, TopIs
  <2> QED BY <1>15, <1>18, <2>3, <2>4 DEF TopIs, Paging!Pointer
<1>21. PointsDown(lw, pw)'
  <2> SUFFICES ASSUME NEW u \in 1 .. top', NEW j \in 0 .. Fan - 1, IsPointer(mem'[u][j]), ~Itself(u, j)
               PROVE  /\ mem'[u][j].phy \in 2 .. top' /\ lw[mem'[u][j].phy] = lw[u] - 1
                      /\ pw[mem'[u][j].phy] = Fan * pw[u] + j
    BY DEF PointsDown, IsPointer, Itself
  <2>1. CASE u = c
    BY <1>8, <2>1 DEF IsPointer
  <2>2. CASE u = t /\ j = i
    BY <1>4, <1>7, <1>8, <1>15, <1>17, <2>2 DEF Paging!Pointer
  <2>3. CASE u # c /\ ~(u = t /\ j = i)
    <3>1. u \in 1 .. top /\ mem'[u][j] = mem[u][j]
      BY <1>8, <1>16, <2>3
    <3>2. /\ mem[u][j].phy \in 2 .. top /\ lv[mem[u][j].phy] = lv[u] - 1
          /\ px[mem[u][j].phy] = Fan * px[u] + j
      BY <1>2, <3>1 DEF Tree, PointsDown
    <3>3. mem[u][j].phy \in 1 .. top
      BY <3>2
    <3> QED BY <1>15, <1>17, <3>1, <3>2, <3>3
  <2> QED BY <2>1, <2>2, <2>3
<1>22. PointedAt(lw, pw)'
  <2> SUFFICES ASSUME NEW d \in 2 .. top'
               PROVE  \E u \in 1 .. top', j \in 0 .. Fan - 1 :
                        /\ mem'[u][j] = Paging!Pointer(d) /\ ~Itself(u, j)
                        /\ lw[u] = lw[d] + 1 /\ pw[d] = Fan * pw[u] + j
    BY DEF PointedAt, Itself, Paging!Pointer
  <2>1. CASE d = c
    <3>1. lw[t] = lw[c] + 1 /\ pw[c] = Fan * pw[t] + i
      BY <1>4, <1>6, <1>7, <1>15
    <3> QED BY <1>4, <1>8, <1>18, <2>1, <3>1
  <2>2. CASE d # c
    <3>1. d \in 2 .. top /\ d \in 1 .. top
      BY <1>17, <2>2
    <3>2. PICK u \in 1 .. top, j \in 0 .. Fan - 1 :
            mem[u][j] = Paging!Pointer(d) /\ ~Itself(u, j) /\ lv[u] = lv[d] + 1 /\ px[d] = Fan * px[u] + j
      BY <1>2, <3>1 DEF Tree, PointedAt
    <3>3. ~(u = t /\ j = i)
      BY <1>3, <3>2 DEF Paging!Pointer
    <3>4. mem'[u][j] = Paging!Pointer(d) /\ u \in 1 .. top'
      BY <1>8, <1>16, <3>2, <3>3
    <3> QED BY <1>15, <3>1, <3>2, <3>4
  <2> QED BY <2>1, <2>2
<1>23. PagesLie(lw, pw)'
  <2> SUFFICES ASSUME NEW u \in 1 .. top', NEW j \in 0 .. Fan - 1, IsPage(mem'[u][j])
               PROVE  PageMaps(mem[u][j], lw[u], Fan * pw[u] + j) /\ mem'[u][j] = mem[u][j]
    BY <1>19 DEF PagesLie, PageMaps, IsPage
  <2>1. u # c /\ ~(u = t /\ j = i)
    BY <1>8 DEF IsPage, Paging!Pointer
  <2>2. u \in 1 .. top /\ mem'[u][j] = mem[u][j]
    BY <1>8, <1>16, <2>1
  <2> QED BY <1>2, <1>15, <2>2 DEF Tree, PagesLie
<1>24. AllMapped(lw, pw)'
  <2> SUFFICES ASSUME NEW a \in Nat, Done(a)
               PROVE  \E u \in 1 .. top', j \in 0 .. Fan - 1 :
                        IsPage(mem'[u][j]) /\ Num(a, lw[u]) = Fan * pw[u] + j
    BY <1>19 DEF AllMapped, IsPage, Num, Paging!Size
  <2>1. PICK u \in 1 .. top, j \in 0 .. Fan - 1 : IsPage(mem[u][j]) /\ Num(a, lv[u]) = Fan * px[u] + j
    BY <1>2 DEF Tree, AllMapped
  <2>2. ~(u = t /\ j = i)
    BY <1>3, <2>1 DEF IsPage
  <2>3. mem'[u][j] = mem[u][j] /\ u \in 1 .. top'
    BY <1>8, <1>16, <2>2
  <2> QED BY <1>15, <2>1, <2>3
<1>25. Num(req.lin, l - 1) \div Fan = n
  BY <1>4, <1>6, <1>7, Numbers
<1>26. Used(lw, pw)'
  <2> SUFFICES ASSUME NEW d \in 2 .. top'
               PROVE  \/ \E a \in Nat : Done(a) /\ Num(a, lw[d]) \div Fan = pw[d]
                      \/ OnWay(lw[d], pw[d])'
    BY <1>19 DEF Used, Num, Paging!Size
  <2>1. CASE d = c
    <3>1. OnWay(l - 1, n)'
      BY <1>6, <1>10, <1>25 DEF OnWay, Num, Paging!Size, Levels
    <3> QED BY <1>15, <2>1, <3>1
  <2>2. CASE d # c
    <3>1. d \in 2 .. top /\ lw[d] = lv[d] /\ pw[d] = px[d]
      BY <1>15, <1>17, <2>2
    <3>2. CASE \E a \in Nat : Done(a) /\ Num(a, lv[d]) \div Fan = px[d]
      BY <3>1, <3>2
    <3>3. CASE OnWay(lv[d], px[d])
      <4>1. lv[d] \in Levels
        BY <1>2, <1>5, <1>8, <3>1 DEF Spans, Paging!Tables, PagingTypeOK
      <4>2. OnWay(lv[d], px[d])'
        BY <1>3, <1>4, <1>10, <3>3, <4>1 DEF OnWay, Num, Paging!Size, Levels
      <4> QED BY <3>1, <4>2
    <3> QED BY <1>2, <3>1, <3>2, <3>3 DEF Tree, Used
  <2> QED BY <2>1, <2>2
<1>27. WalkAt(lw, pw)'
  BY <1>10, <1>15, <1>16, <1>25 DEF WalkAt, Num, Paging!Size
<1> QED BY <1>11, <1>12, <1>13, <1>15, <1>20, <1>21, <1>22, <1>23, <1>24, <1>26, <1>27
           DEF Inv, Tree

LEMMA DescendKeeps ==
  ASSUME Paging!PageTableAssumption, Inv, Paging!Descend
  PROVE  PagingIInv'
<1> DEFINE e == mem[walk.tab][Paging!Idx(req.lin, walk.l)]
<1>1. /\ pc = "walk" /\ walk.l > walk.target
      /\ UNCHANGED <<cr3, mode, req, todo, base, maps>>
  BY DEF Paging!Descend
<1>2. PagingTypeOK /\ Bases /\ PagingRest
  BY DEF Inv
<1>3. CASE e.p /\ e.l = 0 /\ walk' = [walk EXCEPT !.tab = e.phy, !.l = @ - 1]
           /\ UNCHANGED <<mem, top, pc>>
  BY <1>1, <1>3, DescendDown DEF PagingIInv, IsPointer
<1>4. CASE e.p /\ e.l > 0
  <2>1. PICK lv, px : Spans(lv, px) /\ Tree(lv, px)
    BY DEF Inv
  <2> QED BY <1>1, <1>2, <1>4, <2>1, NoPageOnWay DEF IsPage
<1>5. CASE /\ ~e.p /\ Paging!CanAlloc
           /\ mem' = [Paging!Alloc(mem) EXCEPT
                 ![walk.tab][Paging!Idx(req.lin, walk.l)] = Paging!Pointer(top + 1)]
           /\ top' = top + 1 /\ walk' = [walk EXCEPT !.tab = top + 1, !.l = @ - 1]
           /\ UNCHANGED pc
  BY <1>1, <1>5, DescendTake DEF PagingIInv
<1>6. CASE ~e.p /\ ~Paging!CanAlloc /\ pc' = "reset" /\ UNCHANGED <<mem, top, walk>>
  <2>1. top = Pages
    BY <1>2, <1>6, FanIs DEF Paging!CanAlloc, PagingTypeOK
  <2> QED BY <1>6, <2>1 DEF PagingIInv, Ended
<1> QED BY <1>3, <1>4, <1>5, <1>6 DEF Paging!Descend

\* Where the page goes there is no table either: it would have an address that is
\* mapped or be on the way.
LEMMA PlaceFree ==
  ASSUME Paging!PageTableAssumption, PagingTypeOK, Bases, PagingRest, NEW lv, NEW px,
         Spans(lv, px), Tree(lv, px),
         pc = "walk", walk.l = walk.target
  PROVE  ~mem[walk.tab][Paging!Idx(req.lin, walk.l)].p
<1>1. PICK t, i, l : t = walk.tab /\ i = Paging!Idx(req.lin, walk.l) /\ l = walk.l
  OBVIOUS
<1>2. /\ t \in 1 .. top /\ t \in Paging!Tables /\ i \in 0 .. Fan - 1 /\ l \in Levels /\ req.lin \in Nat
      /\ l = lv[t] /\ Num(req.lin, l) = Fan * px[t] + i /\ req.len \in Nat
      /\ ~Itself(t, i)
  BY <1>1, WalkFacts
<1>3. PICK e : e = mem[t][i]
  OBVIOUS
<1>4. e.l \in 0 .. 3 /\ ~IsPage(e)
  <2>1. mem[t] \in [0 .. Fan - 1 -> [p : BOOLEAN, l : 0 .. 3, phy : Nat, c : 0 .. 7]]
    BY <1>2 DEF PagingTypeOK
  <2>2. mem[t][i] \in [p : BOOLEAN, l : 0 .. 3, phy : Nat, c : 0 .. 7]
    BY <1>2, <2>1
  <2>3. ~IsPage(mem[t][i])
    BY <1>1, NoPageOnWay
  <2> QED BY <1>3, <2>2, <2>3
<1> SUFFICES ASSUME IsPointer(e) PROVE FALSE
  BY <1>1, <1>3, <1>4 DEF IsPointer, IsPage
<1>5. PICK d : d = e.phy
  OBVIOUS
<1>6. d \in 2 .. top /\ lv[d] = l - 1 /\ px[d] = Num(req.lin, l)
  BY <1>2, <1>3, <1>5 DEF Tree, PointsDown
<1>7. l - 1 \in Levels /\ l - 1 < 4 /\ l - 1 + 1 = l
  <2>1. d \in Paging!Tables
    BY <1>6, FanIs DEF PagingTypeOK, Paging!Tables
  <2>2. lv[d] \in Levels
    BY <2>1 DEF Spans
  <2> QED BY <1>2, <1>6, <2>2 DEF Levels
<1>8. ~OnWay(lv[d], px[d])
  BY <1>1, <1>2, <1>6 DEF OnWay, Levels
<1>9. PICK a \in Nat : Done(a) /\ Num(a, l - 1) \div Fan = Num(req.lin, l)
  BY <1>6, <1>8 DEF Tree, Used
<1>10. Num(a, l) = Num(req.lin, l)
  BY <1>7, <1>9, Numbers
<1>11. req.lin % Paging!Size(l) = 0 /\ req.len >= Paging!Size(l) /\ Paging!Size(l) \in Nat
  BY <1>1, <1>2, PagingSizes DEF PagingRest, Paging!Fits
<1>12. a \in req.lin .. req.lin + Paging!Size(l) - 1
  BY <1>2, <1>10, <1>11, PageOf
<1>13. InRest(a)
  <2>1. PICK s \in Nat : s = Paging!Size(l)
    BY <1>11
  <2> QED BY <1>2, <1>11, <1>12, <2>1 DEF InRest, Mapping, PagingIn
<1> QED BY <1>9, <1>13 DEF Done

\* The table after entry i of table t is set to e.
Sets(t, i, e) ==
  /\ t \in Paging!Tables /\ i \in 0 .. Fan - 1 /\ e \in [p : BOOLEAN, l : 0 .. 3, phy : Nat, c : 0 .. 7]
  /\ mem' = [mem EXCEPT ![t][i] = e]
SetAs(t, i, e) ==
  /\ mem' \in [Paging!Tables -> [0 .. Fan - 1 -> [p : BOOLEAN, l : 0 .. 3, phy : Nat, c : 0 .. 7]]]
  /\ mem'[t][i] = e
  /\ \A u \in Paging!Tables, j \in 0 .. Fan - 1 : ~(u = t /\ j = i) => mem'[u][j] = mem[u][j]

LEMMA EntrySet ==
  ASSUME PagingTypeOK, NEW t, NEW i, NEW e, Sets(t, i, e)
  PROVE  SetAs(t, i, e)
<1> USE DEF Sets
<1>1. PICK E : E = [p : BOOLEAN, l : 0 .. 3, phy : Nat, c : 0 .. 7]
  OBVIOUS
<1>2. mem \in [Paging!Tables -> [0 .. Fan - 1 -> E]] /\ e \in E
  BY <1>1 DEF PagingTypeOK
<1>3. PICK f : f = mem[t]
  OBVIOUS
<1>4. PICK g : g = [f EXCEPT ![i] = e]
  OBVIOUS
<1>5. f \in [0 .. Fan - 1 -> E]
  BY <1>2, <1>3
<1>6. g \in [0 .. Fan - 1 -> E] /\ g[i] = e /\ \A j \in 0 .. Fan - 1 : j # i => g[j] = f[j]
  BY <1>2, <1>4, <1>5
<1>7. mem' = [mem EXCEPT ![t] = g]
  BY <1>3, <1>4
<1>8. mem' \in [Paging!Tables -> [0 .. Fan - 1 -> E]] /\ mem'[t] = g
       /\ \A u \in Paging!Tables : u # t => mem'[u] = mem[u]
  BY <1>2, <1>6, <1>7
<1> QED BY <1>1, <1>3, <1>6, <1>8 DEF SetAs

LEMMA PlaceWrites ==
  ASSUME Paging!PageTableAssumption, Inv, pc = "walk", walk.l = walk.target, Paging!CachingOk(req.caching),
         ~mem[walk.tab][Paging!Idx(req.lin, walk.l)].p,
         mem' = [mem EXCEPT ![walk.tab][Paging!Idx(req.lin, walk.l)] =
                   [p |-> TRUE, l |-> walk.l, phy |-> req.lin, c |-> Paging!CachingBits(req.caching)]],
         LET n == Paging!Size(walk.l)
         IN req' = [req EXCEPT !.lin = @ + n, !.phy = @ + n, !.len = @ - n],
         pc' = "loop", UNCHANGED <<top, cr3, mode, todo, base, walk, maps>>
  PROVE  Inv'
<1>1. PagingTypeOK /\ Bases /\ Regular /\ PagingRest
  BY DEF Inv
<1>2. PICK lv, px : Spans(lv, px) /\ Tree(lv, px)
  BY DEF Inv
<1>3. PICK t, i, l, e : /\ t = walk.tab /\ i = Paging!Idx(req.lin, walk.l) /\ l = walk.l
                        /\ e = [p |-> TRUE, l |-> walk.l, phy |-> req.lin,
                             c |-> Paging!CachingBits(req.caching)]
  OBVIOUS
<1>4. /\ t \in 1 .. top /\ t \in Paging!Tables /\ i \in 0 .. Fan - 1 /\ l \in 1 .. 3 /\ l \in Levels
      /\ l = lv[t] /\ Num(req.lin, l) = Fan * px[t] + i
      /\ ~Itself(t, i)
  BY <1>1, <1>2, <1>3, WalkFacts
<1>5. PICK s \in Nat : s = Paging!Size(l) /\ s > 0
  BY <1>4, PagingSizes
<1>6. req \in MayMap /\ req.lin \in Nat /\ req.len \in Nat /\ req.phy = req.lin /\ req.caching \in 1 .. 8
  BY <1>1, RegionFacts DEF PagingTypeOK, Paging!CachingOk
<1>7. PICK x \in Nat, y \in Nat : x = req.lin /\ y = req.len
  BY <1>6
<1>8. x % s = 0 /\ y >= s
  BY <1>1, <1>3, <1>5, <1>7 DEF PagingRest, Paging!Fits
<1>9. PICK n \in Nat : n = Num(x, l)
  BY <1>4, Numbers
<1>10. \A a \in Nat : (Num(a, l) = n <=> a \in x .. x + s - 1)
  BY <1>4, <1>5, <1>8, <1>9, PageOf
<1>11. /\ req'.lin = x + s /\ req'.phy = x + s /\ req'.len = y - s
       /\ req'.caching = req.caching /\ req'.aligned = req.aligned
       /\ req' \in [lin : Nat, phy : Nat, len : Nat, caching : 0 .. 8, aligned : BOOLEAN]
  <2>1. req \in [lin : Nat, phy : Nat, len : Nat, caching : 0 .. 8, aligned : BOOLEAN]
    BY <1>6 DEF MayMap
  <2>2. req' = [req EXCEPT !.lin = x + s, !.phy = x + s, !.len = y - s]
    BY <1>3, <1>5, <1>6, <1>7
  <2>3. x + s \in Nat /\ y - s \in Nat
    BY <1>8
  <2> QED BY <2>1, <2>2, <2>3
<1>12. \A a \in Nat : (InRest(a) <=> a \in x .. x + y - 1) /\ (InRest(a)' <=> a \in x + s .. x + y - 1)
  <2>1. \A a : InRest(a) <=> PagingIn(req, a)
    BY DEF InRest, Mapping
  <2>2. \A a : InRest(a)' <=> a \in (x + s) .. (x + s) + (y - s) - 1
    BY <1>11 DEF InRest, Mapping, PagingIn
  <2> QED BY <1>7, <1>8, <2>1, <2>2 DEF PagingIn
<1>13. PICK r \in maps : r.lin <= x /\ x + y = r.lin + r.len /\ r.caching = req.caching
  BY <1>1, <1>7 DEF PagingRest, Mapping
<1>14. r.lin \in Nat /\ r.len \in Nat
  BY <1>1, RegionFacts DEF PagingTypeOK
<1>15. \A a \in Nat : Done(a)' <=> Done(a) \/ Num(a, l) = n
  <2> SUFFICES ASSUME NEW a \in Nat PROVE Done(a)' <=> Done(a) \/ a \in x .. x + s - 1
    BY <1>10
  <2>1. a \in x .. x + s - 1 => PagingIn(r, a)
    BY <1>8, <1>13, <1>14 DEF PagingIn
  <2>2. InRest(a) <=> InRest(a)' \/ a \in x .. x + s - 1
    BY <1>8, <1>12
  <2>3. ~(InRest(a)' /\ a \in x .. x + s - 1)
    BY <1>12
  <2>4. Done(a)' <=> (\E q \in maps : PagingIn(q, a)) /\ ~InRest(a)'
    BY DEF Done, PagingIn
  <2> QED BY <2>1, <2>2, <2>3, <2>4 DEF Done
<1>16. /\ e \in [p : BOOLEAN, l : 0 .. 3, phy : Nat, c : 0 .. 7]
       /\ e.p /\ e.l = l /\ e.phy = x /\ e.c = r.caching - 1
  <2>1. Paging!CachingBits(req.caching) = req.caching - 1 /\ req.caching - 1 \in 0 .. 7
    BY <1>6 DEF Paging!CachingBits
  <2> QED BY <1>3, <1>4, <1>6, <1>7, <1>13, <2>1
<1>17. /\ mem' \in [Paging!Tables -> [0 .. Fan - 1 -> [p : BOOLEAN, l : 0 .. 3, phy : Nat, c : 0 .. 7]]]
       /\ mem'[t][i] = e
       /\ \A u \in Paging!Tables, j \in 0 .. Fan - 1 : ~(u = t /\ j = i) => mem'[u][j] = mem[u][j]
  <2>1. Sets(t, i, e)
    BY <1>3, <1>4, <1>16 DEF Sets
  <2>2. SetAs(t, i, e)
    BY <1>1, <2>1, EntrySet
  <2> QED BY <2>2 DEF SetAs
<1>18. \A u \in 1 .. top : u \in Paging!Tables
  BY <1>1, FanIs DEF PagingTypeOK, Paging!Tables
<1>19. PagingTypeOK'
  <2>1. x + y <= Limit /\ (x + s) + (y - s) = x + y
    BY <1>6, <1>7 DEF MayMap
  <2>2. req'.lin + req'.len <= Limit
    BY <1>11, <2>1
  <2>3. req' \in MayMap
    BY <1>11, <2>2 DEF MayMap
  <2> QED BY <1>1, <1>17, <2>3 DEF PagingTypeOK, PagingPlaces
<1>20. Bases'
  BY <1>1 DEF Bases, Mapping
<1>21. Regular'
  BY <1>1 DEF Regular, Paging!Overlaps
<1>22. PagingRest'
  <2>1. r.lin <= x + s /\ (x + s) + (y - s) = r.lin + r.len
    BY <1>13, <1>14
  <2> QED BY <1>11, <1>13, <2>1 DEF PagingRest
<1>23. TopIs(lv, px)'
  <2>1. ~(1 = t /\ Fan - 1 = i) /\ Fan - 1 \in 0 .. Fan - 1 /\ 1 \in Paging!Tables
    <3>1. 1 \in 1 .. top
      BY <1>1, <1>4, FanIs DEF PagingTypeOK
    <3> QED BY <1>4, <1>18, <3>1, FanIs DEF Itself
  <2> QED BY <1>2, <1>17, <2>1 DEF Tree, TopIs, Paging!Pointer
<1>24. PointsDown(lv, px)'
  <2> SUFFICES ASSUME NEW u \in 1 .. top, NEW j \in 0 .. Fan - 1, IsPointer(mem'[u][j])
               PROVE  mem'[u][j] = mem[u][j]
    BY <1>2 DEF Tree, PointsDown, IsPointer, Itself
  <2> QED BY <1>4, <1>16, <1>17, <1>18 DEF IsPointer
<1>25. PointedAt(lv, px)'
  <2> SUFFICES ASSUME NEW d, NEW u \in 1 .. top, NEW j \in 0 .. Fan - 1, mem[u][j] = Paging!Pointer(d)
               PROVE  mem'[u][j] = mem[u][j]
    BY <1>2 DEF Tree, PointedAt, Itself, Paging!Pointer
  <2>1. ~(u = t /\ j = i)
    BY <1>3 DEF Paging!Pointer
  <2> QED BY <1>17, <1>18, <2>1
<1>26. PagesLie(lv, px)'
  <2> SUFFICES ASSUME NEW u \in 1 .. top, NEW j \in 0 .. Fan - 1, NEW f, f = mem'[u][j], IsPage(f)
               PROVE  PageMaps(f, lv[u], Fan * px[u] + j)'
    BY DEF PagesLie, IsPage, PageMaps, Num, Paging!Size
  <2>1. CASE u = t /\ j = i
    <3>1. Num(x, l) = Fan * px[t] + i /\ x % Paging!Size(l) = 0
      BY <1>4, <1>5, <1>7, <1>8
    <3>2. r.lin <= x /\ x + s <= r.lin + r.len
      BY <1>8, <1>13, <1>14
    <3>3. \A a \in x .. x + s - 1 : ~InRest(a)'
      BY <1>12
    <3>4. PageMaps(e, l, Fan * px[t] + i)'
      BY <1>5, <1>16, <3>1, <3>2, <3>3 DEF PageMaps, Num, Paging!Size
    <3> QED BY <1>4, <1>17, <2>1, <3>4 DEF PageMaps, Num, Paging!Size
  <2>2. CASE ~(u = t /\ j = i)
    <3>1. mem'[u][j] = mem[u][j]
      BY <1>17, <1>18, <2>2
    <3>2. f = mem[u][j] /\ f.phy \in Nat
      <4>1. mem[u] \in [0 .. Fan - 1 -> [p : BOOLEAN, l : 0 .. 3, phy : Nat, c : 0 .. 7]]
        BY <1>1, <1>18 DEF PagingTypeOK
      <4>2. mem[u][j] \in [p : BOOLEAN, l : 0 .. 3, phy : Nat, c : 0 .. 7]
        BY <4>1
      <4> QED BY <3>1, <4>2
    <3>3. PageMaps(f, lv[u], Fan * px[u] + j)
      BY <1>2, <3>1, <3>2 DEF Tree, PagesLie, IsPage
    <3>4. \A a \in Nat : ~InRest(a) => ~InRest(a)'
      BY <1>12
    <3>5. \A a \in f.phy .. f.phy + Paging!Size(lv[u]) - 1 : a \in Nat
      BY <3>2
    <3>6. PageMaps(f, lv[u], Fan * px[u] + j)'
      BY <3>3, <3>4, <3>5 DEF PageMaps, Num, Paging!Size
    <3> QED BY <3>6
  <2> QED BY <2>1, <2>2
<1>27. AllMapped(lv, px)'
  <2> SUFFICES ASSUME NEW a \in Nat, Done(a)'
               PROVE  \E u \in 1 .. top, j \in 0 .. Fan - 1 :
                        IsPage(mem'[u][j]) /\ Num(a, lv[u]) = Fan * px[u] + j
    BY DEF AllMapped, IsPage, Num, Paging!Size
  <2>1. CASE Num(a, l) = n
    <3>1. IsPage(mem'[t][i])
      BY <1>4, <1>16, <1>17 DEF IsPage
    <3>2. Num(a, lv[t]) = Fan * px[t] + i
      BY <1>4, <1>7, <1>9, <2>1
    <3> QED BY <1>4, <3>1, <3>2
  <2>2. CASE Done(a)
    <3>1. PICK u \in 1 .. top, j \in 0 .. Fan - 1 : IsPage(mem[u][j]) /\ Num(a, lv[u]) = Fan * px[u] + j
      BY <1>2, <2>2 DEF Tree, AllMapped
    <3>2. ~(u = t /\ j = i)
      BY <1>3, <3>1 DEF IsPage
    <3>3. mem'[u][j] = mem[u][j]
      BY <1>17, <1>18, <3>2
    <3> QED BY <3>1, <3>3
  <2> QED BY <1>15, <2>1, <2>2
<1>28. Used(lv, px)'
  <2> SUFFICES ASSUME NEW d \in 2 .. top
               PROVE  \E a \in Nat : Done(a)' /\ Num(a, lv[d]) \div Fan = px[d]
    BY DEF Used, Num, Paging!Size
  <2>1. CASE \E a \in Nat : Done(a) /\ Num(a, lv[d]) \div Fan = px[d]
    BY <1>15, <2>1
  <2>2. CASE OnWay(lv[d], px[d])
    <3>1. Num(x, lv[d]) \div Fan = px[d]
      BY <1>7, <2>2 DEF OnWay
    <3>2. Done(x)'
      BY <1>9, <1>15
    <3> QED BY <3>1, <3>2
  <2> QED BY <1>2, <2>1, <2>2 DEF Tree, Used
<1>29. WalkAt(lv, px)'
  BY DEF WalkAt
<1> QED BY <1>2, <1>19, <1>20, <1>21, <1>22, <1>23, <1>24, <1>25, <1>26, <1>27, <1>28, <1>29
     DEF Inv, Tree, Spans

LEMMA PlaceKeeps ==
  ASSUME Paging!PageTableAssumption, Inv, Paging!Place
  PROVE  PagingIInv'
<1>1. PagingTypeOK /\ Bases /\ PagingRest
  BY DEF Inv
<1>2. PICK lv, px : Spans(lv, px) /\ Tree(lv, px)
  BY DEF Inv
<1>3. pc = "walk" /\ walk.l = walk.target /\ UNCHANGED <<top, cr3, mode, todo, base, walk, maps>>
  BY DEF Paging!Place
<1>4. ~mem[walk.tab][Paging!Idx(req.lin, walk.l)].p
  BY <1>1, <1>2, <1>3, PlaceFree
<1>5. CASE ~Paging!CachingOk(req.caching)
  <2>1. req.caching = 0
    BY <1>1, <1>5, RegionFacts DEF PagingTypeOK, Paging!CachingOk
  <2> QED BY <1>3, <1>5, <2>1 DEF Paging!Place, PagingIInv, Ended
<1>6. CASE Paging!CachingOk(req.caching)
  BY <1>3, <1>4, <1>6, PlaceWrites DEF Paging!Place, Paging!LinearToPhysical, PagingIInv
<1> QED BY <1>5, <1>6

\* After a reset there is no step.
LEMMA PagingNextIInv ==
  ASSUME Paging!PageTableAssumption, PagingIInv, [Paging!Next]_(Paging!pvars)
  PROVE  PagingIInv'
<1>1. CASE UNCHANGED Paging!pvars
  <2> USE <1>1 DEF Paging!pvars
  <2>1. Ended' <=> Ended
    BY DEF Ended
  <2>2. (PagingTypeOK' <=> PagingTypeOK) /\ (Bases' <=> Bases) /\ (Regular' <=> Regular)
         /\ (PagingRest' <=> PagingRest)
    <3>1. PagingTypeOK' <=> PagingTypeOK
      BY DEF PagingTypeOK
    <3>2. Bases' <=> Bases
      BY DEF Bases, Mapping
    <3>3. Regular' <=> Regular
      BY DEF Regular, Paging!Overlaps
    <3>4. PagingRest' <=> PagingRest
      BY DEF PagingRest, Mapping, Paging!Fits
    <3> QED BY <3>1, <3>2, <3>3, <3>4
  <2>3. ASSUME NEW lv, NEW px, Spans(lv, px), Tree(lv, px) PROVE Spans(lv, px)' /\ Tree(lv, px)'
    <3>1. \A a : (InRest(a)' <=> InRest(a)) /\ (Done(a)' <=> Done(a))
      BY DEF InRest, Mapping, PagingIn, Done
    <3>2. TopIs(lv, px)' /\ PointsDown(lv, px)' /\ PointedAt(lv, px)' /\ WalkAt(lv, px)'
      BY <2>3 DEF Tree, TopIs, PointsDown, PointedAt, WalkAt
    <3>3. PagesLie(lv, px)'
      BY <2>3, <3>1 DEF Tree, PagesLie, PageMaps
    <3>4. AllMapped(lv, px)' /\ Used(lv, px)'
      BY <2>3, <3>1 DEF Tree, AllMapped, Used, OnWay
    <3> QED BY <2>3, <3>2, <3>3, <3>4 DEF Tree, Spans
  <2> QED BY <2>1, <2>2, <2>3 DEF PagingIInv, Inv
<1>2. CASE Ended /\ Paging!Next
  BY <1>2 DEF Ended, Paging!Next, Paging!InitEarly, Paging!InitMap, Paging!Entry, Paging!Map,
     Paging!Check, Paging!Loop, Paging!Descend, Paging!Place
<1>3. CASE Inv /\ Paging!Next
  <2>1. ASSUME NEW r \in Regions, Paging!InitEarly(r) PROVE PagingIInv'
    BY <1>3, <2>1, InitEarlyKeeps DEF PagingIInv
  <2>2. ASSUME NEW r \in Regions, Paging!Map(r) PROVE PagingIInv'
    BY <1>3, <2>2, MapKeeps DEF PagingIInv
  <2>3. ASSUME NEW m \in Maps, Paging!InitMap(m) PROVE PagingIInv'
    BY <1>3, <2>3, InitMapKeeps DEF PagingIInv
  <2>4. CASE Paging!Entry
    BY <1>3, <2>4, EntryKeeps DEF PagingIInv
  <2>5. CASE Paging!Check
    BY <1>3, <2>5, CheckKeeps
  <2>6. CASE Paging!Loop
    BY <1>3, <2>6, LoopKeeps
  <2>7. CASE Paging!Descend
    BY <1>3, <2>7, DescendKeeps
  <2>8. CASE Paging!Place
    BY <1>3, <2>8, PlaceKeeps
  <2> QED BY <1>3, <2>1, <2>2, <2>3, <2>4, <2>5, <2>6, <2>7, <2>8 DEF Paging!Next
<1> QED BY <1>1, <1>2, <1>3 DEF PagingIInv

-----------------------------------------------------------------------------
(* The translation of an address.                                          *)

\* Entry e is where the walk of address a comes before it takes the index of level l:
\* it points to the table of that level for a, if there is one, and is the page of a
\* if that is of a level above.
Reaches(lv, px, e, a, l) ==
  /\ \A t \in 1 .. top : lv[t] = l /\ Num(a, l) \div Fan = px[t] => e = Paging!Pointer(t)
  /\ \A t \in 1 .. top, i \in 0 .. Fan - 1 :
       lv[t] > l /\ IsPage(mem[t][i]) /\ Num(a, lv[t]) = Fan * px[t] + i => e = mem[t][i]
  /\ \/ \E t \in 1 .. top : e = Paging!Pointer(t) /\ lv[t] = l /\ Num(a, l) \div Fan = px[t]
     \/ IsPage(e) /\ e.phy \in Nat /\ \E k \in Levels : PageMaps(e, k, Num(a, k))
     \/ ~e.p

LEMMA StepDown ==
  ASSUME Paging!PageTableAssumption, PagingTypeOK, NEW lv, NEW px, Spans(lv, px), Tree(lv, px),
         NEW a \in Nat, a < Limit, NEW l \in Levels, NEW e, Reaches(lv, px, e, a, l)
  PROVE  Reaches(lv, px, Paging!Below(e, a, l), a, l - 1)
<1>1. Fan \in Nat /\ \A t \in 1 .. top : t \in Paging!Tables /\ lv[t] \in Levels /\ px[t] \in Nat
  <2>1. Fan \in Nat /\ \A t \in 1 .. top : t \in Paging!Tables
    BY FanIs DEF PagingTypeOK, Paging!Tables
  <2>2. lv \in [Paging!Tables -> Levels] /\ px \in [Paging!Tables -> Nat]
    BY DEF Spans
  <2> QED BY <2>1, <2>2
<1>2. /\ Paging!Idx(a, l) \in 0 .. Fan - 1 /\ Num(a, l) \in Nat
      /\ Num(a, l) = Fan * (Num(a, l) \div Fan) + Paging!Idx(a, l)
  BY Numbers
<1>3. PICK d : d = Paging!Below(e, a, l)
  OBVIOUS
<1>4. \A t \in 1 .. top : e = Paging!Pointer(t) => d = mem[t][Paging!Idx(a, l)]
  BY <1>3 DEF Paging!Below, Paging!Pointer
<1>5. \A t \in 1 .. top, i \in 0 .. Fan - 1 :
        lv[t] = l /\ Num(a, l) = Fan * px[t] + i => d = mem[t][i]
  <2> SUFFICES ASSUME NEW t \in 1 .. top, NEW i \in 0 .. Fan - 1, lv[t] = l, Num(a, l) = Fan * px[t] + i
               PROVE  d = mem[t][i]
    OBVIOUS
  <2>1. Num(a, l) \div Fan = px[t] /\ Paging!Idx(a, l) = i
    BY <1>1, InSpan
  <2> QED BY <1>4, <2>1 DEF Reaches
<1>6. ASSUME NEW c \in 1 .. top, lv[c] = l - 1, Num(a, l - 1) \div Fan = px[c]
      PROVE  d = Paging!Pointer(c)
  <2>1. l - 1 \in Levels /\ l - 1 < 4 /\ l - 1 + 1 = l
    BY <1>1, <1>6 DEF Levels
  <2>2. c \in 2 .. top
    <3>1. lv[1] = 4
      BY <1>6 DEF Tree, TopIs, PagingTypeOK
    <3> QED BY <1>6, <2>1, <3>1
  <2>3. PICK t \in 1 .. top, i \in 0 .. Fan - 1 :
          mem[t][i] = Paging!Pointer(c) /\ lv[t] = lv[c] + 1 /\ px[c] = Fan * px[t] + i
    BY <2>2 DEF Tree, PointedAt
  <2>4. Num(a, l - 1) \div Fan = Num(a, l)
    BY <2>1, Numbers
  <2>5. lv[t] = l
    BY <1>6, <2>1, <2>3
  <2> QED BY <1>5, <1>6, <2>3, <2>4, <2>5
<1>7. ASSUME NEW t \in 1 .. top, NEW i \in 0 .. Fan - 1, lv[t] > l - 1, IsPage(mem[t][i]),
             Num(a, lv[t]) = Fan * px[t] + i
      PROVE  d = mem[t][i]
  <2>1. CASE lv[t] = l
    BY <1>5, <1>7, <2>1
  <2>2. CASE lv[t] # l
    <3>1. lv[t] > l
      BY <1>1, <1>7, <2>2 DEF Levels
    <3>2. e = mem[t][i]
      BY <1>7, <3>1 DEF Reaches
    <3> QED BY <1>3, <1>7, <3>2 DEF Paging!Below, IsPage
  <2> QED BY <2>1, <2>2
<1>8. \/ \E t \in 1 .. top : d = Paging!Pointer(t) /\ lv[t] = l - 1 /\ Num(a, l - 1) \div Fan = px[t]
      \/ IsPage(d) /\ d.phy \in Nat /\ \E k \in Levels : PageMaps(d, k, Num(a, k))
      \/ ~d.p
  <2>1. ASSUME NEW t \in 1 .. top, e = Paging!Pointer(t), lv[t] = l, Num(a, l) \div Fan = px[t]
        PROVE  \/ \E u \in 1 .. top :
                    d = Paging!Pointer(u) /\ lv[u] = l - 1 /\ Num(a, l - 1) \div Fan = px[u]
               \/ IsPage(d) /\ d.phy \in Nat /\ \E k \in Levels : PageMaps(d, k, Num(a, k))
               \/ ~d.p
    <3>1. PICK i \in 0 .. Fan - 1 : i = Paging!Idx(a, l)
      BY <1>2
    <3>2. d = mem[t][i] /\ Num(a, l) = Fan * px[t] + i
      BY <1>2, <1>4, <2>1, <3>1
    <3>3. d \in [p : BOOLEAN, l : 0 .. 3, phy : Nat, c : 0 .. 7]
      <4>1. mem[t] \in [0 .. Fan - 1 -> [p : BOOLEAN, l : 0 .. 3, phy : Nat, c : 0 .. 7]]
        BY <1>1 DEF PagingTypeOK
      <4> QED BY <3>2, <4>1
    <3>4. CASE IsPage(d)
      <4>1. PageMaps(d, l, Num(a, l))
        BY <2>1, <3>2, <3>4 DEF Tree, PagesLie
      <4> QED BY <3>3, <3>4, <4>1
    <3>5. CASE IsPointer(d)
      <4>1. ~Itself(t, i)
        <5> SUFFICES ASSUME t = 1 PROVE i # Fan - 1
          BY DEF Itself
        <5>1. top > 0
          BY DEF PagingTypeOK
        <5>2. l = 4
          BY <2>1, <5>1 DEF Tree, TopIs
        <5> QED BY <3>1, <5>2, TopSpans
      <4>2. PICK u : u = d.phy
        OBVIOUS
      <4>3. u \in 2 .. top /\ lv[u] = l - 1 /\ px[u] = Num(a, l)
        BY <2>1, <3>2, <3>5, <4>1, <4>2 DEF Tree, PointsDown
      <4>4. u \in 1 .. top
        BY <4>3
      <4>5. l - 1 \in Levels /\ l - 1 < 4 /\ l - 1 + 1 = l
        BY <1>1, <4>3, <4>4 DEF Levels
      <4>6. Num(a, l - 1) \div Fan = px[u]
        BY <4>3, <4>5, Numbers
      <4>7. d = Paging!Pointer(u)
        <5>1. \E v \in 1 .. top : d = Paging!Pointer(v)
          BY <1>6, <4>3, <4>4, <4>6
        <5> QED BY <4>2, <5>1 DEF Paging!Pointer
      <4> QED BY <4>3, <4>4, <4>6, <4>7
    <3> QED BY <3>3, <3>4, <3>5 DEF IsPage, IsPointer
  <2>2. CASE IsPage(e) /\ e.phy \in Nat /\ \E k \in Levels : PageMaps(e, k, Num(a, k))
    <3>1. d = e
      BY <1>3, <2>2 DEF Paging!Below, IsPage
    <3> QED BY <2>2, <3>1
  <2>3. CASE ~e.p
    <3>1. d = e
      BY <1>3, <2>3 DEF Paging!Below
    <3> QED BY <2>3, <3>1
  <2> QED BY <2>1, <2>2, <2>3 DEF Reaches
<1>9. Reaches(lv, px, d, a, l - 1)
  BY <1>6, <1>7, <1>8 DEF Reaches
<1> QED BY <1>3, <1>9

\* The walk ends at the page of the address, if it is mapped, or at an entry that is
\* not present.
LEMMA WalkEnds ==
  ASSUME Paging!PageTableAssumption, PagingTypeOK, NEW lv, NEW px, Spans(lv, px), Tree(lv, px), top > 0,
         NEW a \in Nat, a < Limit
  PROVE  /\ Paging!Walk(1, a).p => Paging!Walk(1, a).phy \in Nat
              /\ \E k \in Levels : PageMaps(Paging!Walk(1, a), k, Num(a, k))
         /\ Done(a) => Paging!Walk(1, a).p
<1>1. \A t \in 1 .. top : t \in Paging!Tables /\ lv[t] \in Levels
  BY FanIs DEF PagingTypeOK, Paging!Tables, Spans
<1>2. 1 \in 1 .. top /\ lv[1] = 4 /\ px[1] = 0
  BY DEF Tree, TopIs, PagingTypeOK
<1>3. \A t \in 1 .. top : lv[t] = 4 => t = 1
  <2> SUFFICES ASSUME NEW t \in 2 .. top PROVE lv[t] # 4
    BY DEF PagingTypeOK
  <2>1. PICK u \in 1 .. top : lv[u] = lv[t] + 1
    BY DEF Tree, PointedAt
  <2> QED BY <1>1, <2>1 DEF Levels
<1>4. Reaches(lv, px, Paging!Pointer(1), a, 4)
  <2>1. Num(a, 4) \div Fan = 0
    BY TopSpans
  <2>2. \A t \in 1 .. top : ~(lv[t] > 4)
    BY <1>1 DEF Levels
  <2> QED BY <1>2, <1>3, <2>1, <2>2 DEF Reaches
<1>5. 1 \in Levels /\ 2 \in Levels /\ 3 \in Levels /\ 4 \in Levels
  BY DEF Levels
<1>6. PICK e3 : e3 = Paging!Below(Paging!Pointer(1), a, 4)
  OBVIOUS
<1>7. Reaches(lv, px, e3, a, 3)
  <2>1. Reaches(lv, px, e3, a, 4 - 1)
    BY <1>4, <1>5, <1>6, StepDown
  <2> QED BY <2>1
<1>8. PICK e2 : e2 = Paging!Below(e3, a, 3)
  OBVIOUS
<1>9. Reaches(lv, px, e2, a, 2)
  <2>1. Reaches(lv, px, e2, a, 3 - 1)
    BY <1>5, <1>7, <1>8, StepDown
  <2> QED BY <2>1
<1>10. PICK e1 : e1 = Paging!Below(e2, a, 2)
  OBVIOUS
<1>11. Reaches(lv, px, e1, a, 1)
  <2>1. Reaches(lv, px, e1, a, 2 - 1)
    BY <1>5, <1>9, <1>10, StepDown
  <2> QED BY <2>1
<1>12. PICK e0 : e0 = Paging!Below(e1, a, 1)
  OBVIOUS
<1>13. Reaches(lv, px, e0, a, 0)
  <2>1. Reaches(lv, px, e0, a, 1 - 1)
    BY <1>5, <1>11, <1>12, StepDown
  <2> QED BY <2>1
<1>14. Paging!Walk(1, a) = e0
  BY <1>6, <1>8, <1>10, <1>12 DEF Paging!Walk
<1>15. e0.p => e0.phy \in Nat /\ \E k \in Levels : PageMaps(e0, k, Num(a, k))
  BY <1>1, <1>13 DEF Reaches, Levels
<1>16. Done(a) => e0.p
  <2> SUFFICES ASSUME Done(a) PROVE e0.p
    OBVIOUS
  <2>1. PICK t \in 1 .. top, i \in 0 .. Fan - 1 : IsPage(mem[t][i]) /\ Num(a, lv[t]) = Fan * px[t] + i
    BY DEF Tree, AllMapped
  <2>2. lv[t] > 0
    BY <1>1 DEF Levels
  <2>3. e0 = mem[t][i]
    BY <1>13, <2>1, <2>2 DEF Reaches
  <2> QED BY <2>1, <2>3 DEF IsPage
<1> QED BY <1>14, <1>15, <1>16

LEMMA InvMaps == ASSUME Paging!PageTableAssumption, PagingIInv PROVE Paging!MapsWhatIsAsked
<1>1. CASE Ended
  BY <1>1 DEF Ended, Paging!MapsWhatIsAsked
<1>2. CASE Inv
  <2>1. PagingTypeOK /\ Bases /\ Regular
    BY <1>2 DEF Inv
  <2>2. PICK lv, px : Spans(lv, px) /\ Tree(lv, px)
    BY <1>2 DEF Inv
  <2>3. pc # "reset" /\ pc # "corrupt"
    BY <2>1 DEF PagingTypeOK, PagingPlaces
  <2>4. ASSUME pc = "idle", cr3 # Paging!Null, NEW a \in 0 .. (Fan - 1) * Paging!Size(4) - 1,
               NEW e, e = Paging!Walk(cr3, a)
        PROVE  /\ e.p <=> \E r \in maps : PagingIn(r, a)
               /\ \A r \in maps : PagingIn(r, a) => /\ e.phy + (a % Paging!Size(e.l)) = r.phy + (a - r.lin)
                                                    /\ e.c = r.caching - 1
    <3>1. cr3 = 1 /\ top > 0
      BY <2>1, <2>4 DEF PagingTypeOK, Bases, Paging!Null
    <3>2. a \in Nat /\ a < Limit
      <4>1. PICK s \in Nat : s = Paging!Size(4)
        BY PagingSizes DEF Levels
      <4>2. PICK f \in Nat : f = Fan - 1
        BY FanIs
      <4>3. f * s \in Nat
        BY <4>1, <4>2
      <4> QED BY <2>4, <4>1, <4>2, <4>3 DEF Limit
    <3>3. Done(a) <=> \E r \in maps : PagingIn(r, a)
      BY <2>4 DEF Done, InRest, Mapping
    <3>4. /\ e.p => e.phy \in Nat /\ \E k \in Levels : PageMaps(e, k, Num(a, k))
          /\ Done(a) => e.p
      BY <2>1, <2>2, <2>4, <3>1, <3>2, WalkEnds
    <3>5. ASSUME e.p
          PROVE  \E r \in maps : /\ PagingIn(r, a) /\ e.c = r.caching - 1
                                 /\ e.phy + (a % Paging!Size(e.l)) = a
      <4>1. PICK k \in Levels : PageMaps(e, k, Num(a, k))
        BY <3>4, <3>5
      <4>2. PICK r \in maps : r.lin <= e.phy /\ e.phy + Paging!Size(k) <= r.lin + r.len
             /\ e.c = r.caching - 1
        BY <4>1 DEF PageMaps
      <4>3. r.lin \in Nat /\ r.len \in Nat
        BY <2>1, RegionFacts DEF PagingTypeOK
      <4>4. e.phy \in Nat
        BY <3>4, <3>5
      <4>5. a \in e.phy .. e.phy + Paging!Size(k) - 1 /\ e.phy + (a % Paging!Size(k)) = a
        BY <3>2, <4>1, <4>4, PageOf DEF PageMaps
      <4>6. PagingIn(r, a)
        <5>1. PICK s \in Nat : s = Paging!Size(k)
          BY PagingSizes
        <5> QED BY <3>2, <4>2, <4>3, <4>4, <4>5, <5>1 DEF PagingIn
      <4> QED BY <4>1, <4>2, <4>5, <4>6 DEF PageMaps
    <3>6. \A r, q \in maps : PagingIn(r, a) /\ PagingIn(q, a) => r = q
      BY <2>1 DEF Regular, Paging!Overlaps, PagingIn
    <3>7. ASSUME NEW r \in maps, PagingIn(r, a)
          PROVE  e.phy + (a % Paging!Size(e.l)) = r.phy + (a - r.lin) /\ e.c = r.caching - 1
      <4>1. e.phy + (a % Paging!Size(e.l)) = a /\ e.c = r.caching - 1
        BY <3>3, <3>4, <3>5, <3>6, <3>7
      <4>2. r.lin \in Nat /\ r.phy = r.lin
        BY <2>1, RegionFacts DEF PagingTypeOK
      <4>3. r.phy + (a - r.lin) = a
        BY <3>2, <4>2
      <4> QED BY <4>1, <4>3
    <3> QED BY <3>3, <3>4, <3>5, <3>7
  <2>5. ASSUME cr3 # Paging!Null PROVE mem[cr3][Fan - 1] = Paging!Pointer(cr3)
    <3>1. cr3 = 1 /\ top > 0
      BY <2>1, <2>5 DEF PagingTypeOK, Bases, Paging!Null
    <3> QED BY <2>2, <3>1 DEF Tree, TopIs
  <2>6. ASSUME pc = "idle", cr3 # Paging!Null, NEW a \in 0 .. (Fan - 1) * Paging!Size(4) - 1
        PROVE  LET e == Paging!Walk(cr3, a)
                   R == {r \in maps : a \in r.lin .. r.lin + r.len - 1}
               IN /\ e.p <=> R # {}
                  /\ \A r \in R : /\ e.phy + (a % Paging!Size(e.l)) = r.phy + (a - r.lin)
                                  /\ e.c = r.caching - 1
    <3>1. PICK e : e = Paging!Walk(cr3, a)
      OBVIOUS
    <3>2. PICK R : R = {r \in maps : a \in r.lin .. r.lin + r.len - 1}
      OBVIOUS
    <3>3. \A r : r \in R <=> r \in maps /\ PagingIn(r, a)
      BY <3>2 DEF PagingIn
    <3> QED BY <2>4, <2>6, <3>1, <3>2, <3>3
  <2> QED BY <2>3, <2>5, <2>6 DEF Paging!MapsWhatIsAsked
<1> QED BY <1>1, <1>2 DEF PagingIInv

\* When no call is in progress, an address is mapped if and only if it is in a
\* region that was asked for, and then as that asked.
THEOREM AddressesAreMapped ==
  ASSUME Paging!PageTableAssumption
  PROVE  Paging!Spec => []MapsWhatIsAsked
<1>1. Paging!Init => PagingIInv
  BY InitInv DEF PagingIInv
<1>2. PagingIInv /\ [Paging!Next]_(Paging!pvars) => PagingIInv'
  BY PagingNextIInv
<1>3. PagingIInv => MapsWhatIsAsked
  BY InvMaps DEF MapsWhatIsAsked
<1> QED BY <1>1, <1>2, <1>3, PTL DEF Paging!Spec

-----------------------------------------------------------------------------
(* Recursion on numbers.                                                   *)

\* A set of numbers that has 0, and with a number the next one, has them all.
LEMMA EveryNumber ==
  ASSUME NEW T, 0 \in T, \A n \in Nat : n \in T => n + 1 \in T
  PROVE  \A n \in Nat : n \in T
<1> DEFINE F == {n \in Nat : n \notin T}
<1> SUFFICES ASSUME F # {} PROVE FALSE
  OBVIOUS
<1>1. IsWellFoundedOn({ss \in Nat \X Nat : ss[1] < ss[2]}, Nat)
  BY NatLessThanWellFounded DEF OpToRel
<1>2. PICK d \in F : \A e \in F : <<e, d>> \notin {ss \in Nat \X Nat : ss[1] < ss[2]}
  BY <1>1, WFMin
<1>3. d \in Nat /\ d \notin T /\ d # 0
  OBVIOUS
<1>4. d - 1 \in Nat /\ d - 1 + 1 = d
  BY <1>3
<1>5. d - 1 \in F
  BY <1>3, <1>4
<1>6. PICK e \in F : e = d - 1
  BY <1>5
<1>7. <<e, d>> \in {ss \in Nat \X Nat : ss[1] < ss[2]}
  BY <1>3, <1>6
<1> QED BY <1>2, <1>7

\* A function that is defined by its first value and a step exists.
Steps(n, S) == [(1 .. n) \X S -> S]
Follows(n, S, x, step, f) == f \in [0 .. n -> S] /\ f[0] = x
  /\ \A i \in 1 .. n : f[i] = step[<<i, f[i - 1]>>]

LEMMA Recursion ==
  ASSUME NEW n \in Nat, NEW S, NEW x \in S, NEW step \in Steps(n, S)
  PROVE  \E f : Follows(n, S, x, step, f)
<1> USE DEF Steps
<1> DEFINE Is(k, f) == f[0] = x /\ \A i \in 1 .. k : f[i] = step[<<i, f[i - 1]>>]
           T == {k \in Nat : k <= n => \E f \in [0 .. k -> S] : Is(k, f)}
<1>1. 0 \in T
  <2>1. PICK f : f = [i \in 0 .. 0 |-> x]
    OBVIOUS
  <2>2. f \in [0 .. 0 -> S] /\ f[0] = x
    BY <2>1
  <2> QED BY <2>2
<1>2. ASSUME NEW k \in Nat, k \in T PROVE k + 1 \in T
  <2> SUFFICES ASSUME k + 1 <= n PROVE \E f \in [0 .. k + 1 -> S] : Is(k + 1, f)
    OBVIOUS
  <2>1. PICK f \in [0 .. k -> S] : Is(k, f)
    BY <1>2
  <2>2. PICK y : y = step[<<k + 1, f[k]>>]
    OBVIOUS
  <2>3. y \in S
    <3>1. <<k + 1, f[k]>> \in (1 .. n) \X S
      OBVIOUS
    <3> QED BY <2>2, <3>1
  <2>4. PICK g : g = [i \in 0 .. k + 1 |-> IF i = k + 1 THEN y ELSE f[i]]
    OBVIOUS
  <2>5. g \in [0 .. k + 1 -> S] /\ g[k + 1] = y /\ \A i \in 0 .. k : g[i] = f[i]
    BY <2>3, <2>4
  <2>6. ASSUME NEW i \in 1 .. k + 1 PROVE g[i] = step[<<i, g[i - 1]>>]
    <3>1. CASE i = k + 1
      <4>1. i - 1 = k /\ g[k] = f[k]
        BY <2>5, <3>1
      <4> QED BY <2>2, <2>5, <3>1, <4>1
    <3>2. CASE i # k + 1
      <4>1. i \in 1 .. k /\ i \in 0 .. k /\ i - 1 \in 0 .. k
        BY <3>2
      <4>2. f[i] = step[<<i, f[i - 1]>>]
        BY <2>1, <4>1
      <4> QED BY <2>5, <4>1, <4>2
    <3> QED BY <3>1, <3>2
  <2>7. Is(k + 1, g)
    BY <2>1, <2>5, <2>6
  <2> QED BY <2>5, <2>7
<1> HIDE DEF T
<1>3. n \in T
  BY <1>1, <1>2, EveryNumber
<1> QED BY <1>3 DEF T, Follows


\* Functions that begin alike and go on alike are the same.
GoAlike(n, f, g) == f[0] = g[0] /\ \A i \in 1 .. n : f[i - 1] = g[i - 1] => f[i] = g[i]

LEMMA SameSteps ==
  ASSUME NEW n \in Nat, NEW f, NEW g, GoAlike(n, f, g)
  PROVE  \A i \in 0 .. n : f[i] = g[i]
<1> DEFINE T == {k \in Nat : k <= n => f[k] = g[k]}
<1>1. 0 \in T
  BY DEF GoAlike
<1>2. ASSUME NEW k \in Nat, k \in T PROVE k + 1 \in T
  <2> SUFFICES ASSUME k + 1 <= n PROVE f[k + 1] = g[k + 1]
    OBVIOUS
  <2>1. k + 1 \in 1 .. n /\ k + 1 - 1 = k /\ f[k] = g[k]
    BY <1>2
  <2> QED BY <2>1 DEF GoAlike
<1> HIDE DEF T
<1>3. \A k \in Nat : k \in T
  BY <1>1, <1>2, EveryNumber
<1> QED BY <1>3 DEF T

-----------------------------------------------------------------------------
(* Powers of ten.                                                          *)

LEMMA PowersOfTen ==
  ASSUME NEW p \in Nat
  PROVE  \E f \in [0 .. p -> Nat] :
           f[0] = 1 /\ (\A i \in 1 .. p : f[i] = f[i - 1] * 10) /\ Time!Pow10(p) = f[p]
<1> DEFINE E(f) == [i \in 0 .. p |-> IF i = 0 THEN 1 ELSE f[i - 1] * 10]
<1>1. PICK step : step = [s \in (1 .. p) \X Nat |-> s[2] * 10]
  OBVIOUS
<1>2. step \in Steps(p, Nat)
  BY <1>1 DEF Steps
<1>3. PICK g \in [0 .. p -> Nat] : g[0] = 1 /\ \A i \in 1 .. p : g[i] = step[<<i, g[i - 1]>>]
  <2>1. PICK x \in Nat : x = 1
    OBVIOUS
  <2>2. \E f : Follows(p, Nat, x, step, f)
    BY <1>2, Recursion
  <2> QED BY <2>1, <2>2 DEF Follows
<1>4. g = E(g)
  <2>1. ASSUME NEW i \in 0 .. p PROVE g[i] = IF i = 0 THEN 1 ELSE g[i - 1] * 10
    <3>1. CASE i = 0
      BY <1>3, <3>1
    <3>2. CASE i # 0
      <4>1. i \in 1 .. p /\ i - 1 \in 0 .. p
        BY <3>2
      <4> QED BY <1>1, <1>3, <4>1, <3>2
    <3> QED BY <3>1, <3>2
  <2> QED BY <2>1
<1>5. PICK f : f = CHOOSE x : x = E(x)
  OBVIOUS
<1>6. f = E(f)
  BY <1>4, <1>5
<1>7. Time!Pow10(p) = f[p]
  BY <1>5 DEF Time!Pow10
<1>8. GoAlike(p, f, g)
  BY <1>4, <1>6 DEF GoAlike
<1>9. f = g
  <2>1. \A i \in 0 .. p : f[i] = g[i]
    BY <1>8, SameSteps
  <2> QED BY <1>4, <1>6, <2>1
<1>10. f[0] = 1 /\ \A i \in 1 .. p : f[i] = f[i - 1] * 10
  BY <1>6
<1> QED BY <1>7, <1>9, <1>10

\* They grow.
LEMMA PowersGrow ==
  ASSUME NEW p \in Nat, NEW f \in [0 .. p -> Nat], f[0] = 1, \A i \in 1 .. p : f[i] = f[i - 1] * 10
  PROVE  \A i \in 0 .. p : f[i] > 0 /\ f[i] <= f[p]
<1>1. \A i \in 0 .. p : f[i] > 0
  <2> DEFINE T == {k \in Nat : k <= p => f[k] > 0}
  <2>1. 0 \in T
    OBVIOUS
  <2>2. ASSUME NEW k \in Nat, k \in T PROVE k + 1 \in T
    <3> SUFFICES ASSUME k + 1 <= p PROVE f[k + 1] > 0
      OBVIOUS
    <3>1. k + 1 \in 1 .. p /\ k + 1 - 1 = k /\ f[k] > 0 /\ f[k] \in Nat
      BY <2>2
    <3> QED BY <3>1
  <2> HIDE DEF T
  <2>3. \A k \in Nat : k \in T
    BY <2>1, <2>2, EveryNumber
  <2> QED BY <2>3 DEF T
<1>2. ASSUME NEW i \in 0 .. p PROVE f[i] <= f[p]
  <2> DEFINE T == {k \in Nat : i + k <= p => f[i] <= f[i + k]}
  <2>1. 0 \in T
    OBVIOUS
  <2>2. ASSUME NEW k \in Nat, k \in T PROVE k + 1 \in T
    <3> SUFFICES ASSUME i + (k + 1) <= p PROVE f[i] <= f[i + (k + 1)]
      OBVIOUS
    <3>1. i + (k + 1) \in 1 .. p /\ i + (k + 1) - 1 = i + k /\ f[i] <= f[i + k] /\ i + k \in 0 .. p
      BY <2>2
    <3>2. f[i + (k + 1)] = f[i + k] * 10
      BY <3>1
    <3>3. f[i] \in Nat /\ f[i + k] \in Nat
      BY <3>1
    <3> QED BY <3>1, <3>2, <3>3
  <2> HIDE DEF T
  <2>3. \A k \in Nat : k \in T
    BY <2>1, <2>2, EveryNumber
  <2>4. PICK k \in Nat : i + k = p
    <3>1. p - i \in Nat /\ i + (p - i) = p
      OBVIOUS
    <3> QED BY <3>1
  <2>5. k \in T
    BY <2>3
  <2> QED BY <2>4, <2>5 DEF T
<1> QED BY <1>1, <1>2

-----------------------------------------------------------------------------
(* Rounding.                                                               *)

\* What is called rounding up is rounding to the nearest.
LEMMA RoundsToNearest ==
  ASSUME NEW x \in Nat, NEW y \in Nat, y > 0, TimeWord \in Nat, x + (x % y) < TimeWord
  PROVE  \E d \in Nat : /\ Time!DivRoundUp(x, y) = d
                        /\ 2 * (d * y - x) <= y /\ 2 * (x - d * y) <= y
                        /\ d = x \div y \/ (d = (x \div y) + 1 /\ x % y > 0)
<1>1. PICK q \in Nat, r \in Nat : q = x \div y /\ r = x % y /\ r < y /\ x = q * y + r
  <2>1. x \div y \in Nat /\ x % y \in 0 .. y - 1 /\ x = (x \div y) * y + (x % y)
    BY DivIs
  <2> QED BY <2>1
<1>2. PICK m \in Nat : m = x + r /\ m < TimeWord
  BY <1>1
<1>3. m % TimeWord = m
  BY <1>2
<1>4. Time!DivRoundUp(x, y) = m \div y
  BY <1>1, <1>2, <1>3 DEF Time!DivRoundUp
<1>5. CASE 2 * r < y
  <2>1. m = q * y + 2 * r
    BY <1>1, <1>2
  <2>2. m \div y = q
    BY <1>5, <2>1, DivUnique
  <2>3. PICK z \in Nat : z = q * y
    BY <1>1
  <2>4. 2 * (z - x) <= y /\ 2 * (x - z) <= y
    BY <1>1, <1>5, <2>3
  <2> QED BY <1>1, <1>4, <2>2, <2>3, <2>4
<1>6. CASE 2 * r >= y
  <2>1. PICK k \in Nat : k = 2 * r - y
    <3>1. 2 * r - y \in Nat
      BY <1>6
    <3> QED BY <3>1
  <2>2. (q + 1) * y = q * y + y
    BY <1>1
  <2>3. m = (q + 1) * y + k /\ k < y
    BY <1>1, <1>2, <2>1, <2>2
  <2>4. m \div y = q + 1
    BY <2>3, DivUnique
  <2>5. PICK z \in Nat : z = q * y
    BY <1>1
  <2>6. 2 * ((z + y) - x) <= y /\ 2 * (x - (z + y)) <= y /\ r > 0
    BY <1>1, <1>6, <2>5
  <2>7. q + 1 \in Nat /\ (q + 1) * y = z + y
    BY <2>2, <2>5
  <2> QED BY <1>1, <1>4, <2>4, <2>6, <2>7
<1> QED BY <1>5, <1>6

-----------------------------------------------------------------------------
(* The printed numbers.                                                    *)

LEMMA TimeGiven ==
  ASSUME Time!TimeConvAssumption
  PROVE  /\ TimeWord \in Nat /\ TimeWord > 0 /\ SecInNs \in Nat /\ SecInNs > 0
         /\ Freqs \subseteq Nat \ {0} /\ Ticks \subseteq Nat /\ Precisions \subseteq Nat
         /\ SecsPer \in Seq(Nat \ {0}) /\ SecsPer # <<>>
BY DEF Time!TimeConvAssumption

\* What is added for rounding is half a unit of the last digit, if that is a tick.
LEMMA RoundedIs ==
  ASSUME Time!TimeConvAssumption, Time!NoOverflow, freq \in Freqs, NEW n \in Ticks, NEW p \in Precisions,
         NEW P, P = Time!Pow10(p)
  PROVE  /\ P \in Nat /\ P > 0
         /\ 2 * P > freq => Time!Rounded(n, p) = n
         /\ 2 * P <= freq => \E d \in Nat : /\ Time!Rounded(n, p) = n + d
                                            /\ 2 * (d * (2 * P) - freq) <= 2 * P
                                            /\ 2 * (freq - d * (2 * P)) <= 2 * P
<1>1. p \in Nat /\ n \in Nat /\ freq \in Nat /\ freq > 0 /\ TimeWord \in Nat
       /\ SecInNs \in Nat /\ SecInNs > 0
  BY TimeGiven
<1>2. PICK f \in [0 .. p -> Nat] :
        f[0] = 1 /\ (\A i \in 1 .. p : f[i] = f[i - 1] * 10) /\ P = f[p]
  BY <1>1, PowersOfTen
<1>3. \A i \in 0 .. p : f[i] > 0 /\ f[i] <= f[p]
  BY <1>1, <1>2, PowersGrow
<1>4. P \in Nat /\ P > 0 /\ 2 * P < TimeWord
  <2>1. 2 * P < TimeWord
    BY DEF Time!NoOverflow
  <2>2. p \in 0 .. p
    BY <1>1
  <2> QED BY <1>2, <1>3, <2>1, <2>2
<1> DEFINE E(ups) == [i \in 0 .. p |-> IF i = 0 THEN 2 ELSE (ups[i - 1] * 10) % TimeWord]
<1>5. PICK g : g = [i \in 0 .. p |-> 2 * f[i]]
  OBVIOUS
<1>6. g = E(g)
  <2>1. ASSUME NEW i \in 0 .. p PROVE g[i] = IF i = 0 THEN 2 ELSE (g[i - 1] * 10) % TimeWord
    <3>1. CASE i = 0
      BY <1>2, <1>5, <3>1
    <3>2. CASE i # 0
      <4>1. i \in 1 .. p /\ i - 1 \in 0 .. p
        BY <1>1, <3>2
      <4>2. PICK x \in Nat : x = f[i - 1]
        BY <4>1
      <4>3. f[i] = x * 10 /\ f[i] <= P
        BY <1>2, <1>3, <4>1, <4>2
      <4>4. g[i - 1] * 10 = 2 * (x * 10) /\ g[i] = 2 * (x * 10)
        BY <1>5, <4>1, <4>2, <4>3
      <4>5. 2 * (x * 10) \in Nat /\ 2 * (x * 10) < TimeWord
        BY <1>4, <1>1, <4>3
      <4>6. (2 * (x * 10)) % TimeWord = 2 * (x * 10)
        BY <1>1, <4>5
      <4> QED BY <3>2, <4>4, <4>6
    <3> QED BY <3>1, <3>2
  <2> QED BY <1>5, <2>1
<1>7. PICK ups : ups = CHOOSE x : x = E(x)
  OBVIOUS
<1>8. ups = E(ups)
  BY <1>6, <1>7
<1>9. GoAlike(p, ups, g)
  <2>1. 0 \in 0 .. p /\ \A i \in 1 .. p : i \in 0 .. p /\ i # 0
    BY <1>1
  <2> QED BY <1>6, <1>8, <2>1 DEF GoAlike
<1>10. \A i \in 0 .. p : ups[i] = g[i]
  <2>1. p \in Nat
    BY <1>1
  <2> QED BY <1>9, <2>1, SameSteps
<1>11. ups[p] = 2 * P
  BY <1>1, <1>2, <1>5, <1>10
<1>12. Time!Rounded(n, p) = (n + IF ups[p] <= freq THEN Time!DivRoundUp(freq, ups[p]) ELSE 0) % TimeWord
  <2>1. Time!Up(p) = ups[p]
    BY <1>7 DEF Time!Up
  <2> QED BY <2>1 DEF Time!Rounded
<1>13. n + freq < TimeWord /\ freq + freq < TimeWord
  <2>1. n + freq < TimeWord /\ 2 * SecInNs * freq < TimeWord
    BY DEF Time!NoOverflow
  <2>2. PICK k \in Nat : SecInNs = 1 + k
    <3>1. SecInNs - 1 \in Nat /\ SecInNs = 1 + (SecInNs - 1)
      BY <1>1
    <3> QED BY <3>1
  <2>3. 2 * SecInNs * freq = 2 * freq + 2 * (k * freq) /\ k * freq \in Nat
    BY <1>1, <2>2
  <2> QED BY <1>1, <2>1, <2>3
<1>14. ASSUME 2 * P > freq PROVE Time!Rounded(n, p) = n
  <2>1. Time!Rounded(n, p) = (n + 0) % TimeWord
    BY <1>1, <1>4, <1>11, <1>12, <1>14
  <2> QED BY <1>1, <1>13, <2>1
<1>15. ASSUME 2 * P <= freq
       PROVE  \E d \in Nat : /\ Time!Rounded(n, p) = n + d
                             /\ 2 * (d * (2 * P) - freq) <= 2 * P
                             /\ 2 * (freq - d * (2 * P)) <= 2 * P
  <2>1. PICK y \in Nat : y = 2 * P /\ y > 0 /\ y <= freq
    BY <1>4, <1>15
  <2>2. freq % y \in 0 .. y - 1
    BY <1>1, <2>1
  <2>3. freq + (freq % y) < TimeWord
    BY <1>1, <1>13, <2>1, <2>2
  <2>4. PICK d \in Nat : /\ Time!DivRoundUp(freq, y) = d
                         /\ 2 * (d * y - freq) <= y /\ 2 * (freq - d * y) <= y
    BY <1>1, <2>1, <2>3, RoundsToNearest
  <2>5. d <= freq
    <3> SUFFICES ASSUME d > freq PROVE FALSE
      BY <1>1
    <3>1. PICK k \in Nat : d = freq + 1 + k
      <4>1. d - freq - 1 \in Nat /\ d = freq + 1 + (d - freq - 1)
        BY <1>1
      <4> QED BY <4>1
    <3>2. PICK j \in Nat : y = 2 + j
      <4>1. y - 2 \in Nat /\ y = 2 + (y - 2)
        BY <1>4, <2>1
      <4> QED BY <4>1
    <3>3. PICK q \in Nat : q = freq /\ q > 0
      BY <1>1
    <3>4. PICK a \in Nat, b \in Nat : a = q * j /\ b = k * y
      OBVIOUS
    <3>5. d * y = q * y + y + k * y
      BY <3>1, <3>3
    <3>6. q * y = 2 * q + q * j
      BY <3>2
    <3>7. d * y = 2 * q + a + y + b
      BY <3>4, <3>5, <3>6
    <3>8. 2 * (d * y - q) <= y
      BY <2>4, <3>3
    <3> QED BY <2>1, <3>3, <3>7, <3>8
  <2>6. Time!Rounded(n, p) = (n + d) % TimeWord
    BY <1>11, <1>12, <2>1, <2>4
  <2>7. (n + d) % TimeWord = n + d
    BY <1>1, <1>13, <2>5
  <2> QED BY <2>1, <2>4, <2>6, <2>7
<1> QED BY <1>4, <1>14, <1>15

\* What is left of the rest after each digit.
LeftBy(p, rest, d, left) ==
  /\ left[0] = rest /\ \A i \in 0 .. p : left[i] < freq
  /\ \A i \in 1 .. p : left[i - 1] * 10 = d[i] * freq + left[i]

\* The digits are those of the rest, times ten as often as there are digits.
LEMMA SubSecIs ==
  ASSUME Time!TimeConvAssumption, freq \in Freqs, NEW p \in Nat, NEW rest \in 0 .. freq - 1,
         NEW d, d = Time!SubSec(rest, p)
  PROVE  /\ d \in [1 .. p -> Nat]
         /\ \E left \in [0 .. p -> Nat] : LeftBy(p, rest, d, left)
<1>1. freq \in Nat /\ freq > 0 /\ rest \in Nat
  BY TimeGiven
<1> DEFINE S == 0 .. freq - 1
           Next1(x) == (x * 10) - ((x * 10) \div freq) * freq
           E(left) == [i \in 0 .. p |-> IF i = 0 THEN rest
                                        ELSE (left[i - 1] * 10) - ((left[i - 1] * 10) \div freq) * freq]
<1>2. ASSUME NEW x \in S
      PROVE  (x * 10) \div freq \in Nat /\ Next1(x) \in S /\ x * 10 = ((x * 10) \div freq) * freq + Next1(x)
  <2>1. PICK y \in Nat : y = x * 10
    BY <1>1
  <2>2. PICK q \in Nat, r \in Nat : q = y \div freq /\ r < freq /\ y = q * freq + r
    <3>1. PICK k \in Nat : k = freq /\ k > 0
      BY <1>1
    <3>2. y \div k \in Nat /\ y % k \in 0 .. k - 1 /\ y = (y \div k) * k + (y % k)
      BY <3>1, DivIs
    <3> QED BY <3>1, <3>2
  <2>3. q * freq \in Nat
    BY <1>1
  <2>4. y - q * freq = r
    BY <2>2, <2>3
  <2> QED BY <1>1, <2>1, <2>2, <2>4
<1>3. PICK step : step = [s \in (1 .. p) \X S |-> Next1(s[2])]
  OBVIOUS
<1>4. step \in Steps(p, S)
  BY <1>2, <1>3 DEF Steps
<1>5. PICK g : Follows(p, S, rest, step, g)
  BY <1>4, Recursion
<1>6. /\ g \in [0 .. p -> S] /\ g[0] = rest
      /\ \A i \in 1 .. p : g[i] = Next1(g[i - 1])
  <2>1. \A i \in 1 .. p : i - 1 \in 0 .. p
    OBVIOUS
  <2>2. g \in [0 .. p -> S] /\ g[0] = rest /\ \A i \in 1 .. p : g[i] = step[<<i, g[i - 1]>>]
    BY <1>5 DEF Follows
  <2> HIDE DEF Next1, S
  <2> QED BY <1>3, <2>1, <2>2
<1>7. g = E(g)
  <2>1. ASSUME NEW i \in 0 .. p
        PROVE  g[i] = IF i = 0 THEN rest ELSE (g[i - 1] * 10) - ((g[i - 1] * 10) \div freq) * freq
    BY <1>6
  <2> QED BY <1>6, <2>1
<1>8. PICK left : left = CHOOSE x : x = E(x)
  OBVIOUS
<1>9. left = E(left)
  BY <1>7, <1>8
<1>10. GoAlike(p, left, g)
  BY <1>7, <1>9 DEF GoAlike
<1>11. left = g
  <2>1. \A i \in 0 .. p : left[i] = g[i]
    BY <1>10, SameSteps
  <2> QED BY <1>7, <1>9, <2>1
<1>12. d = [i \in 1 .. p |-> (left[i - 1] * 10) \div freq]
  <2>1. Time!SubSecLeft(rest, p) = left
    BY <1>8 DEF Time!SubSecLeft
  <2> QED BY <2>1 DEF Time!SubSec
<1>13. ASSUME NEW i \in 1 .. p
       PROVE  d[i] \in Nat /\ left[i - 1] * 10 = d[i] * freq + left[i]
  <2>1. i - 1 \in 0 .. p
    OBVIOUS
  <2>2. PICK x \in S : x = left[i - 1]
    BY <1>6, <1>11, <2>1
  <2>3. left[i] = Next1(x) /\ d[i] = (x * 10) \div freq
    BY <1>6, <1>11, <1>12, <2>2
  <2> QED BY <1>2, <2>2, <2>3
<1>14. d \in [1 .. p -> Nat]
  BY <1>12, <1>13
<1>15. left \in [0 .. p -> Nat] /\ \A i \in 0 .. p : left[i] < freq
  BY <1>1, <1>6, <1>11
<1> QED BY <1>6, <1>11, <1>13, <1>14, <1>15 DEF LeftBy

LEMMA LenIs ==
  ASSUME NEW S, NEW n \in Nat, NEW s \in [1 .. n -> S]
  PROVE  s \in Seq(S) /\ Len(s) = n
<1>1. s \in Seq(S)
  BY SeqDef
<1>2. Len(s) \in Nat /\ DOMAIN s = 1 .. Len(s)
  BY <1>1, LenProperties
<1>3. 1 .. n = 1 .. Len(s)
  BY <1>2
<1> QED BY <1>1, <1>2, <1>3

LEMMA NumberIs ==
  ASSUME NEW p \in Nat, NEW whole \in Nat, NEW d \in [1 .. p -> Nat]
  PROVE  \E v \in [0 .. p -> Nat] : /\ v[0] = whole /\ Time!Number(whole, d) = v[p]
                                    /\ \A i \in 1 .. p : v[i] = v[i - 1] * 10 + d[i]
<1>1. Len(d) = p
  BY LenIs
<1> DEFINE E(v) == [i \in 0 .. Len(d) |-> IF i = 0 THEN whole ELSE v[i - 1] * 10 + d[i]]
<1>2. PICK step : step = [s \in (1 .. p) \X Nat |-> s[2] * 10 + d[s[1]]]
  OBVIOUS
<1>3. step \in Steps(p, Nat)
  BY <1>2 DEF Steps
<1>4. PICK g : Follows(p, Nat, whole, step, g)
  BY <1>3, Recursion
<1>5. /\ g \in [0 .. p -> Nat] /\ g[0] = whole
      /\ \A i \in 1 .. p : g[i] = g[i - 1] * 10 + d[i]
  <2>1. \A i \in 1 .. p : i - 1 \in 0 .. p
    OBVIOUS
  <2>2. g \in [0 .. p -> Nat] /\ g[0] = whole /\ \A i \in 1 .. p : g[i] = step[<<i, g[i - 1]>>]
    BY <1>4 DEF Follows
  <2> QED BY <1>2, <2>1, <2>2
<1>6. g = E(g)
  <2>1. ASSUME NEW i \in 0 .. p PROVE g[i] = IF i = 0 THEN whole ELSE g[i - 1] * 10 + d[i]
    BY <1>5
  <2> QED BY <1>1, <1>5, <2>1
<1>7. PICK h : h = CHOOSE x : x = E(x)
  OBVIOUS
<1>8. h = E(h)
  BY <1>6, <1>7
<1>9. h[0] = g[0] /\ \A i \in 1 .. p : h[i - 1] = g[i - 1] => h[i] = g[i]
  <2>1. 0 \in 0 .. Len(d) /\ \A i \in 1 .. p : i \in 0 .. Len(d) /\ i # 0
    BY <1>1
  <2> QED BY <1>6, <1>8, <2>1
<1>10. h = g
  <2>1. GoAlike(p, h, g)
    BY <1>9 DEF GoAlike
  <2>2. \A i \in 0 .. p : h[i] = g[i]
    BY <2>1, SameSteps
  <2> QED BY <1>1, <1>6, <1>8, <2>2
<1>11. Time!Number(whole, d) = h[p]
  BY <1>1, <1>7 DEF Time!Number
<1> QED BY <1>5, <1>10, <1>11

\* Together, what is printed of t ticks is t without what is less than a last digit.
LEMMA NumberOfTicks ==
  ASSUME Time!TimeConvAssumption, freq \in Freqs, NEW p \in Nat, NEW t \in Nat,
         NEW v, v = Time!Number(t \div freq, Time!SubSec(t % freq, p))
  PROVE  v \in Nat /\ \E r \in 0 .. freq - 1 : v * freq + r = t * Time!Pow10(p)
<1>1. freq \in Nat /\ freq > 0
  BY TimeGiven
<1>2. PICK w \in Nat, rest \in 0 .. freq - 1 : w = t \div freq /\ rest = t % freq /\ t = w * freq + rest
  <2>1. t \div freq \in Nat /\ t % freq \in 0 .. freq - 1 /\ t = (t \div freq) * freq + (t % freq)
    BY <1>1, DivIs
  <2> QED BY <2>1
<1>3. PICK d : d = Time!SubSec(rest, p)
  OBVIOUS
<1>4. d \in [1 .. p -> Nat]
  BY <1>3, SubSecIs
<1>5. PICK left \in [0 .. p -> Nat] :
        /\ left[0] = rest /\ \A i \in 0 .. p : left[i] < freq
        /\ \A i \in 1 .. p : left[i - 1] * 10 = d[i] * freq + left[i]
  <2>1. PICK left \in [0 .. p -> Nat] : LeftBy(p, rest, d, left)
    BY <1>3, SubSecIs
  <2> QED BY <2>1 DEF LeftBy
<1>6. PICK u \in [0 .. p -> Nat] : /\ u[0] = w /\ Time!Number(w, d) = u[p]
                                   /\ \A i \in 1 .. p : u[i] = u[i - 1] * 10 + d[i]
  BY <1>4, NumberIs
<1>7. PICK f \in [0 .. p -> Nat] : f[0] = 1 /\ (\A i \in 1 .. p : f[i] = f[i - 1] * 10)
       /\ Time!Pow10(p) = f[p]
  BY PowersOfTen
<1> DEFINE T == {k \in Nat : k <= p => u[k] * freq + left[k] = t * f[k]}
<1>8. 0 \in T
  <2>1. u[0] * freq + left[0] = t * f[0]
    BY <1>1, <1>2, <1>5, <1>6, <1>7
  <2> QED BY <2>1
<1>9. ASSUME NEW k \in Nat, k \in T PROVE k + 1 \in T
  <2> SUFFICES ASSUME k + 1 <= p PROVE u[k + 1] * freq + left[k + 1] = t * f[k + 1]
    OBVIOUS
  <2>1. k + 1 \in 1 .. p /\ k + 1 - 1 = k /\ k \in 0 .. p /\ k + 1 \in 0 .. p
    OBVIOUS
  <2>2. PICK a \in Nat, b \in Nat, c \in Nat, e \in Nat, h \in Nat :
          a = u[k] /\ b = left[k] /\ c = f[k] /\ e = d[k + 1] /\ h = left[k + 1]
    BY <1>4, <2>1
  <2>3. a * freq + b = t * c
    BY <1>9, <2>1, <2>2
  <2>4. u[k + 1] = a * 10 + e /\ b * 10 = e * freq + h /\ f[k + 1] = c * 10
    BY <1>5, <1>6, <1>7, <2>1, <2>2
  <2>5. (a * 10 + e) * freq + h = 10 * (a * freq + b)
    BY <1>1, <2>4
  <2>6. t * (c * 10) = 10 * (t * c)
    OBVIOUS
  <2> QED BY <2>2, <2>3, <2>4, <2>5, <2>6
<1> HIDE DEF T
<1>10. p \in T
  BY <1>8, <1>9, EveryNumber
<1>11. u[p] * freq + left[p] = t * f[p] /\ left[p] \in 0 .. freq - 1 /\ u[p] \in Nat
  BY <1>1, <1>5, <1>10 DEF T
<1> QED BY <1>2, <1>3, <1>6, <1>7, <1>11

\* A rounded time that is printed is the nearest number with its digits.
LEMMA NearestIsPrinted ==
  ASSUME Time!TimeConvAssumption, Time!NoOverflow, freq \in Freqs, NEW n \in Ticks, NEW p \in Precisions,
         NEW t, t = Time!Rounded(n, p), NEW v, v = Time!Number(t \div freq, Time!SubSec(t % freq, p))
  PROVE  t \in Nat /\ v \in Nat /\ Time!IsNearest(v, n, p)
<1>1. p \in Nat /\ n \in Nat /\ freq \in Nat /\ freq > 0
  BY TimeGiven
<1>2. PICK P : P = Time!Pow10(p)
  OBVIOUS
<1>3. /\ P \in Nat /\ P > 0
      /\ 2 * P > freq => t = n
      /\ 2 * P <= freq => \E d \in Nat : /\ t = n + d
                                         /\ 2 * (d * (2 * P) - freq) <= 2 * P
                                         /\ 2 * (freq - d * (2 * P)) <= 2 * P
  BY <1>2, RoundedIs
<1>4. t \in Nat
  BY <1>1, <1>3
<1>5. v \in Nat /\ \E r \in 0 .. freq - 1 : v * freq + r = t * P
  BY <1>1, <1>2, <1>4, NumberOfTicks
<1>6. PICK r \in 0 .. freq - 1, a \in Nat, m \in Nat : a = v * freq /\ m = n * P /\ a + r = t * P
  <2>1. PICK r \in 0 .. freq - 1 : v * freq + r = t * P
    BY <1>5
  <2>2. v * freq \in Nat /\ n * P \in Nat
    BY <1>1, <1>3, <1>5
  <2> QED BY <2>1, <2>2
<1>7. CASE 2 * P > freq
  <2>1. a + r = m
    BY <1>3, <1>6, <1>7
  <2>2. a - m \in (1 - freq) .. 0
    BY <1>1, <1>6, <2>1
  <2> QED BY <1>2, <1>4, <1>5, <1>6, <1>7, <2>2 DEF Time!IsNearest
<1>8. CASE 2 * P <= freq
  <2>1. PICK d \in Nat : /\ t = n + d
                         /\ 2 * (d * (2 * P) - freq) <= 2 * P
                         /\ 2 * (freq - d * (2 * P)) <= 2 * P
    BY <1>3, <1>8
  <2>2. PICK e \in Nat : e = d * P
    BY <1>3
  <2>3. d * (2 * P) = 2 * e
    BY <1>3, <2>2
  <2>4. a + r = m + e
    <3>1. (n + d) * P = n * P + d * P
      BY <1>1, <1>3
    <3> QED BY <1>6, <2>1, <2>2, <3>1
  <2>5. 2 * (a - m) <= freq + P /\ 2 * (m - a) <= freq + P
    BY <1>1, <1>3, <1>6, <2>1, <2>3, <2>4
  <2>6. 2 * Time!Abs(a - m) <= freq + P
    BY <1>6, <2>5 DEF Time!Abs
  <2> QED BY <1>1, <1>2, <1>3, <1>4, <1>5, <1>6, <1>8, <2>6 DEF Time!IsNearest
<1> QED BY <1>1, <1>3, <1>7, <1>8

-----------------------------------------------------------------------------
(* The units of a duration.                                                *)

\* What is left after each unit, of the seconds that are split.
SplitBy(secs, units, left) ==
  /\ left[0] = secs
  /\ \A i \in 1 .. Len(SecsPer) : left[i - 1] = units[i] * SecsPer[i] + left[i] /\ left[i] < SecsPer[i]
  /\ left[Len(SecsPer)] = units[Len(SecsPer) + 1]

LEMMA SplitIs ==
  ASSUME Time!TimeConvAssumption, NEW secs \in Nat, NEW units, units = Time!Split(secs)
  PROVE  /\ units \in [1 .. Len(SecsPer) + 1 -> Nat]
         /\ \E left \in [0 .. Len(SecsPer) -> Nat] : SplitBy(secs, units, left)
<1>1. PICK L \in Nat : L = Len(SecsPer) /\ SecsPer \in [1 .. L -> Nat \ {0}]
  BY TimeGiven, LenProperties, ElementOfSeq
<1> DEFINE E(left) == [i \in 0 .. L |-> IF i = 0 THEN secs ELSE left[i - 1] % SecsPer[i]]
<1>2. PICK step : step = [s \in (1 .. L) \X Nat |-> s[2] % SecsPer[s[1]]]
  OBVIOUS
<1>3. ASSUME NEW i \in 1 .. L, NEW x \in Nat
      PROVE  /\ x % SecsPer[i] \in Nat /\ x % SecsPer[i] < SecsPer[i] /\ x \div SecsPer[i] \in Nat
             /\ x = (x \div SecsPer[i]) * SecsPer[i] + (x % SecsPer[i])
  <2>1. PICK k \in Nat : k = SecsPer[i] /\ k > 0
    BY <1>1
  <2>2. x \div k \in Nat /\ x % k \in 0 .. k - 1 /\ x = k * (x \div k) + (x % k)
    BY <2>1, DivIs
  <2>3. k * (x \div k) = (x \div k) * k
    BY <2>2
  <2> QED BY <2>1, <2>2, <2>3
<1>4. step \in Steps(L, Nat)
  BY <1>2, <1>3 DEF Steps
<1>5. PICK g : Follows(L, Nat, secs, step, g)
  BY <1>4, Recursion
<1>6. g \in [0 .. L -> Nat] /\ g[0] = secs /\ \A i \in 1 .. L : g[i] = g[i - 1] % SecsPer[i]
  <2>1. \A i \in 1 .. L : i - 1 \in 0 .. L
    OBVIOUS
  <2>2. g \in [0 .. L -> Nat] /\ g[0] = secs /\ \A i \in 1 .. L : g[i] = step[<<i, g[i - 1]>>]
    BY <1>5 DEF Follows
  <2> QED BY <1>2, <2>1, <2>2
<1>7. g = E(g)
  <2>1. ASSUME NEW i \in 0 .. L PROVE g[i] = IF i = 0 THEN secs ELSE g[i - 1] % SecsPer[i]
    BY <1>6
  <2> QED BY <1>6, <2>1
<1>8. PICK h : h = CHOOSE x : x = E(x)
  OBVIOUS
<1>9. h = E(h)
  BY <1>7, <1>8
<1>10. GoAlike(L, h, g)
  <2>1. 0 \in 0 .. L /\ \A i \in 1 .. L : i \in 0 .. L /\ i # 0
    OBVIOUS
  <2> QED BY <1>7, <1>9, <2>1 DEF GoAlike
<1>11. h = g
  <2>1. \A i \in 0 .. L : h[i] = g[i]
    BY <1>10, SameSteps
  <2> QED BY <1>7, <1>9, <2>1
<1>12. Time!SecsLeft(secs) = g
  BY <1>1, <1>8, <1>11 DEF Time!SecsLeft
<1>13. units = [i \in 1 .. L + 1 |-> IF i > L THEN g[i - 1] ELSE g[i - 1] \div SecsPer[i]]
  BY <1>1, <1>12 DEF Time!Split
<1>14. ASSUME NEW i \in 1 .. L
       PROVE  g[i - 1] = units[i] * SecsPer[i] + g[i] /\ g[i] < SecsPer[i] /\ units[i] \in Nat
  <2>1. PICK x \in Nat : x = g[i - 1]
    <3>1. i - 1 \in 0 .. L
      OBVIOUS
    <3> QED BY <1>6, <3>1
  <2>2. i \in 1 .. L + 1 /\ ~(i > L)
    OBVIOUS
  <2>3. units[i] = x \div SecsPer[i]
    BY <1>13, <2>1, <2>2
  <2>4. g[i] = x % SecsPer[i]
    BY <1>6, <2>1
  <2> QED BY <1>3, <2>1, <2>3, <2>4
<1>15. units[L + 1] = g[L] /\ g[L] \in Nat
  <2>1. L + 1 \in 1 .. L + 1 /\ L + 1 > L /\ L + 1 - 1 = L /\ L \in 0 .. L
    OBVIOUS
  <2> QED BY <1>6, <1>13, <2>1
<1>16. units \in [1 .. L + 1 -> Nat]
  <2>1. ASSUME NEW i \in 1 .. L + 1 PROVE units[i] \in Nat
    <3>1. CASE i = L + 1
      BY <1>15, <3>1
    <3>2. CASE i # L + 1
      <4>1. i \in 1 .. L
        BY <3>2
      <4> QED BY <1>14, <4>1
    <3> QED BY <3>1, <3>2
  <2> QED BY <1>13, <2>1
<1>17. SplitBy(secs, units, g)
  BY <1>1, <1>6, <1>14, <1>15 DEF SplitBy
<1> QED BY <1>1, <1>6, <1>16, <1>17

\* The first unit that is printed is one of them, and no unit before it counts.
LEMMA PrintedIs ==
  ASSUME NEW m \in Nat, m > 0, NEW units \in [1 .. m -> Nat], NEW leading0 \in BOOLEAN,
         NEW first, first = Time!Printed(units, leading0)
  PROVE  first \in 1 .. m /\ \A i \in 1 .. first - 1 : units[i] = 0
<1>1. Len(units) = m
  BY LenIs
<1> DEFINE P == {i \in 1 .. m : leading0 \/ units[i] # 0 \/ i = m}
<1>2. first = CHOOSE i \in P : \A j \in P : i <= j
  BY <1>1 DEF Time!Printed
<1>3. \E i \in P : \A j \in P : i <= j
  <2>1. m \in P /\ P \subseteq Nat
    OBVIOUS
  <2>2. IsWellFoundedOn({ss \in Nat \X Nat : ss[1] < ss[2]}, Nat)
    BY NatLessThanWellFounded DEF OpToRel
  <2>3. PICK i \in P : \A j \in P : <<j, i>> \notin {ss \in Nat \X Nat : ss[1] < ss[2]}
    BY <2>1, <2>2, WFMin
  <2>4. ASSUME NEW j \in P PROVE i <= j
    <3>1. ~(j < i) \/ <<j, i>> \in {ss \in Nat \X Nat : ss[1] < ss[2]}
      OBVIOUS
    <3> QED BY <2>3, <3>1
  <2> QED BY <2>4
<1>4. first \in P /\ \A j \in P : first <= j
  <2> HIDE DEF P
  <2> QED BY <1>2, <1>3
<1>5. ASSUME NEW i \in 1 .. first - 1 PROVE units[i] = 0
  <2>1. i \in 1 .. m /\ i < first
    BY <1>4
  <2> QED BY <1>4, <2>1
<1> QED BY <1>4, <1>5

\* Of the units that are printed, the seconds are those that were split.
LEMMA TotalIs ==
  ASSUME Time!TimeConvAssumption, NEW secs \in Nat, NEW units, units = Time!Split(secs),
         NEW first \in 1 .. Len(SecsPer) + 1, \A i \in 1 .. first - 1 : units[i] = 0
  PROVE  Time!Total(first, units) = secs
<1>1. PICK L \in Nat : L = Len(SecsPer) /\ SecsPer \in [1 .. L -> Nat \ {0}] /\ L + 1 \in Nat
  BY TimeGiven, LenProperties, ElementOfSeq
<1>2. units \in [1 .. L + 1 -> Nat]
  BY <1>1, SplitIs
<1>3. PICK left \in [0 .. L -> Nat] :
        /\ left[0] = secs
        /\ \A i \in 1 .. L : left[i - 1] = units[i] * SecsPer[i] + left[i] /\ left[i] < SecsPer[i]
        /\ left[L] = units[L + 1]
  <2>1. PICK left \in [0 .. L -> Nat] : SplitBy(secs, units, left)
    BY <1>1, SplitIs
  <2> QED BY <1>1, <2>1 DEF SplitBy
<1>4. Len(units) = L + 1
  BY <1>1, <1>2, LenIs
<1>5. PICK c : c = [i \in 1 .. L + 1 |-> IF i > L THEN 1 ELSE SecsPer[i]]
  OBVIOUS
<1>6. /\ c \in [1 .. L + 1 -> Nat] /\ c[L + 1] = 1
      /\ \A i \in 1 .. L : i \in 1 .. L + 1 /\ c[i] = SecsPer[i]
  <2>1. ASSUME NEW i \in 1 .. L + 1 PROVE c[i] \in Nat /\ (i <= L => c[i] = SecsPer[i])
    <3>1. CASE i > L
      BY <1>5, <3>1
    <3>2. CASE ~(i > L)
      <4>1. i \in 1 .. L
        BY <3>2
      <4> QED BY <1>1, <1>5, <3>2, <4>1
    <3> QED BY <3>1, <3>2
  <2>2. L + 1 \in 1 .. L + 1 /\ L + 1 > L /\ \A i \in 1 .. L : i \in 1 .. L + 1 /\ i <= L
    OBVIOUS
  <2> QED BY <1>5, <2>1, <2>2
<1> DEFINE E(s) == [i \in 0 .. Len(units) |->
                      IF i < first THEN 0
                      ELSE s[i - 1] + units[i] * (IF i > Len(SecsPer) THEN 1 ELSE SecsPer[i])]
<1>7. PICK step :
        step = [s \in (1 .. L + 1) \X Nat |-> IF s[1] < first THEN 0 ELSE s[2] + units[s[1]] * c[s[1]]]
  OBVIOUS
<1>8. step \in Steps(L + 1, Nat)
  <2>1. ASSUME NEW i \in 1 .. L + 1, NEW x \in Nat
        PROVE  (IF i < first THEN 0 ELSE x + units[i] * c[i]) \in Nat
    <3>1. PICK a \in Nat, b \in Nat : a = units[i] /\ b = c[i]
      BY <1>2, <1>6
    <3>2. x + a * b \in Nat
      OBVIOUS
    <3> QED BY <3>1, <3>2
  <2> QED BY <1>7, <2>1 DEF Steps
<1>9. PICK g : Follows(L + 1, Nat, 0, step, g)
  <2>1. PICK z \in Nat : z = 0
    OBVIOUS
  <2>2. \E g : Follows(L + 1, Nat, z, step, g)
    BY <1>1, <1>8, Recursion
  <2> QED BY <2>1, <2>2
<1>10. /\ g \in [0 .. L + 1 -> Nat] /\ g[0] = 0
       /\ \A i \in 1 .. L + 1 : g[i] = IF i < first THEN 0 ELSE g[i - 1] + units[i] * c[i]
  <2>1. \A i \in 1 .. L + 1 : i - 1 \in 0 .. L + 1
    OBVIOUS
  <2>2. /\ g \in [0 .. L + 1 -> Nat] /\ g[0] = 0
        /\ \A i \in 1 .. L + 1 : g[i] = step[<<i, g[i - 1]>>]
    BY <1>9 DEF Follows
  <2> QED BY <1>7, <2>1, <2>2
<1>11. g = E(g)
  <2>1. ASSUME NEW i \in 0 .. L + 1
        PROVE  g[i] = IF i < first THEN 0
                      ELSE g[i - 1] + units[i] * (IF i > Len(SecsPer) THEN 1 ELSE SecsPer[i])
    <3>1. CASE i = 0
      BY <1>10, <3>1
    <3>2. CASE i # 0
      <4>1. i \in 1 .. L + 1
        BY <3>2
      <4>2. c[i] = IF i > Len(SecsPer) THEN 1 ELSE SecsPer[i]
        BY <1>1, <1>5, <4>1
      <4> QED BY <1>10, <4>1, <4>2
    <3> QED BY <3>1, <3>2
  <2> QED BY <1>4, <1>10, <2>1
<1>12. PICK h : h = CHOOSE x : x = E(x)
  OBVIOUS
<1>13. h = E(h)
  BY <1>11, <1>12
<1>14. GoAlike(L + 1, h, g)
  <2>1. \A i \in 0 .. L + 1 : i \in 0 .. Len(units)
    BY <1>4
  <2>2. 0 \in 0 .. L + 1 /\ \A i \in 1 .. L + 1 : i \in 0 .. L + 1
    OBVIOUS
  <2>3. h[0] = g[0]
    BY <1>10, <1>13, <2>1, <2>2
  <2>4. ASSUME NEW i \in 1 .. L + 1, h[i - 1] = g[i - 1] PROVE h[i] = g[i]
    <3>1. i \in 0 .. Len(units) /\ i # 0
      BY <2>1, <2>2
    <3>2. PICK k : k = units[i] * (IF i > Len(SecsPer) THEN 1 ELSE SecsPer[i])
      OBVIOUS
    <3>3. h[i] = IF i < first THEN 0 ELSE h[i - 1] + k
      BY <1>13, <3>1, <3>2
    <3>4. g[i] = IF i < first THEN 0 ELSE g[i - 1] + k
      BY <1>11, <3>1, <3>2
    <3> QED BY <2>4, <3>3, <3>4
  <2> QED BY <2>3, <2>4 DEF GoAlike
<1>15. h[L + 1] = g[L + 1]
  <2>1. \A i \in 0 .. L + 1 : h[i] = g[i]
    BY <1>1, <1>14, SameSteps
  <2> QED BY <2>1
<1>16. Time!Total(first, units) = g[L + 1]
  BY <1>4, <1>12, <1>15 DEF Time!Total
<1> DEFINE T == {k \in Nat : k <= L => g[k] + left[k] = secs}
<1>17. 0 \in T
  BY <1>3, <1>10
<1>18. ASSUME NEW k \in Nat, k \in T PROVE k + 1 \in T
  <2> SUFFICES ASSUME k + 1 <= L PROVE g[k + 1] + left[k + 1] = secs
    OBVIOUS
  <2>1. /\ k + 1 \in 1 .. L + 1 /\ k + 1 \in 1 .. L /\ k + 1 - 1 = k /\ k \in 0 .. L + 1
        /\ g[k] + left[k] = secs
    BY <1>18
  <2>2. PICK a \in Nat, x \in Nat, y \in Nat : a = units[k + 1] * SecsPer[k + 1] /\ x = g[k]
         /\ y = left[k + 1]
    <3>1. PICK u \in Nat, w \in Nat : u = units[k + 1] /\ w = SecsPer[k + 1]
      BY <1>1, <1>2, <2>1
    <3>2. u * w \in Nat
      OBVIOUS
    <3> QED BY <1>3, <1>10, <2>1, <3>1, <3>2
  <2>3. left[k] = a + y
    BY <1>3, <2>1, <2>2
  <2>4. CASE k + 1 < first
    <3>1. k + 1 \in 1 .. first - 1
      BY <2>4
    <3>2. units[k + 1] = 0
      BY <3>1
    <3>3. a = 0
      <4>1. PICK w \in Nat : w = SecsPer[k + 1]
        BY <1>1, <2>1
      <4> QED BY <2>2, <3>2, <4>1
    <3>4. g[k + 1] = 0 /\ x = 0
      <4>1. k = 0 \/ k \in 1 .. L + 1
        BY <2>1
      <4>2. k < first
        BY <2>4
      <4> QED BY <1>10, <2>1, <2>2, <2>4, <4>1, <4>2
    <3> QED BY <2>1, <2>2, <2>3, <3>3, <3>4
  <2>5. CASE ~(k + 1 < first)
    <3>1. g[k + 1] = g[k + 1 - 1] + units[k + 1] * c[k + 1]
      BY <1>10, <2>1, <2>5
    <3>2. c[k + 1] = SecsPer[k + 1]
      BY <1>6, <2>1
    <3>3. g[k + 1] = x + a
      BY <2>1, <2>2, <3>1, <3>2
    <3>4. x + (a + y) = secs
      BY <2>1, <2>2, <2>3
    <3> QED BY <2>2, <3>3, <3>4
  <2> QED BY <2>4, <2>5
<1> HIDE DEF T
<1>19. L \in T
  BY <1>17, <1>18, EveryNumber
<1>20. g[L] + left[L] = secs
  BY <1>19 DEF T
<1>21. g[L + 1] = secs
  <2>1. L + 1 \in 1 .. L + 1 /\ L + 1 - 1 = L /\ ~(L + 1 < first) /\ L \in 0 .. L + 1 /\ L \in 0 .. L
    BY <1>1
  <2>2. PICK x \in Nat, y \in Nat : x = g[L] /\ y = left[L]
    BY <1>3, <1>10, <2>1
  <2>3. g[L + 1] = x + y * 1
    BY <1>3, <1>6, <1>10, <2>1, <2>2
  <2> QED BY <1>20, <2>2, <2>3
<1> QED BY <1>16, <1>21

\* No unit is as long as the one before it.
LEMMA UnitsAreSplit ==
  ASSUME Time!TimeConvAssumption, NEW secs \in Nat, NEW units, units = Time!Split(secs)
  PROVE  /\ \A i \in 2 .. Len(SecsPer) : units[i] * SecsPer[i] < SecsPer[i - 1]
         /\ units[Len(units)] < SecsPer[Len(SecsPer)]
<1>1. PICK L \in Nat : L = Len(SecsPer) /\ SecsPer \in [1 .. L -> Nat \ {0}] /\ L \in 1 .. L
  <2>1. Len(SecsPer) \in Nat /\ SecsPer \in [1 .. Len(SecsPer) -> Nat \ {0}] /\ SecsPer # <<>>
    BY TimeGiven, LenProperties, ElementOfSeq
  <2>2. Len(SecsPer) # 0
    BY <2>1, TimeGiven, EmptySeq
  <2>3. PICK L \in Nat : L = Len(SecsPer)
    BY <2>1
  <2>4. L # 0 /\ SecsPer \in [1 .. L -> Nat \ {0}]
    BY <2>1, <2>2, <2>3
  <2>5. L \in 1 .. L
    BY <2>4
  <2> QED BY <2>3, <2>4, <2>5
<1>2. units \in [1 .. L + 1 -> Nat]
  BY <1>1, SplitIs
<1>3. Len(units) = L + 1
  <2>1. L + 1 \in Nat
    OBVIOUS
  <2> QED BY <1>2, <2>1, LenIs
<1>4. PICK left \in [0 .. L -> Nat] :
        /\ \A i \in 1 .. L : left[i - 1] = units[i] * SecsPer[i] + left[i] /\ left[i] < SecsPer[i]
        /\ left[L] = units[L + 1]
  <2>1. PICK left \in [0 .. L -> Nat] : SplitBy(secs, units, left)
    BY <1>1, SplitIs
  <2> QED BY <1>1, <2>1 DEF SplitBy
<1>5. ASSUME NEW i \in 2 .. L PROVE units[i] * SecsPer[i] < SecsPer[i - 1]
  <2>1. i \in 1 .. L /\ i - 1 \in 1 .. L /\ i \in 0 .. L /\ i - 1 \in 0 .. L
    OBVIOUS
  <2>2. PICK a \in Nat : a = units[i] * SecsPer[i]
    <3>1. PICK u \in Nat, w \in Nat : u = units[i] /\ w = SecsPer[i]
      BY <1>1, <1>2, <2>1
    <3>2. u * w \in Nat
      OBVIOUS
    <3> QED BY <3>1, <3>2
  <2>3. left[i - 1] = a + left[i] /\ left[i] \in Nat /\ left[i - 1] < SecsPer[i - 1]
         /\ SecsPer[i - 1] \in Nat
    BY <1>1, <1>4, <2>1, <2>2
  <2> QED BY <2>2, <2>3
<1> QED BY <1>1, <1>3, <1>4, <1>5

-----------------------------------------------------------------------------
(* Ticks and nanoseconds.                                                  *)

\* What is converted in two parts is the nearest.
LEMMA ConvertedIs ==
  ASSUME Time!TimeConvAssumption, NEW n \in Nat, NEW S \in Nat, NEW f \in Nat, S > 0, f > 0,
         2 * S * f < TimeWord, (n \div S) * f + f < TimeWord,
         NEW a, a = ((n \div S) * f + Time!DivRoundUp((n % S) * f, S)) % TimeWord
  PROVE  2 * Time!Abs(a * S - n * f) <= S
<1>1. TimeWord \in Nat
  BY TimeGiven
<1>2. PICK w \in Nat, r \in Nat : w = n \div S /\ r = n % S /\ r < S /\ n = w * S + r
  <2>1. n \div S \in Nat /\ n % S \in 0 .. S - 1 /\ n = (n \div S) * S + (n % S)
    BY DivIs
  <2> QED BY <2>1
<1>3. PICK x \in Nat, y \in Nat, z \in Nat : x = r * f /\ y = S * f /\ z = w * f
  OBVIOUS
<1>4. x < y /\ S <= y
  <2>1. PICK k \in Nat : S = r + 1 + k
    <3>1. S - r - 1 \in Nat /\ S = r + 1 + (S - r - 1)
      BY <1>2
    <3> QED BY <3>1
  <2>2. PICK j \in Nat : f = 1 + j
    <3>1. f - 1 \in Nat /\ f = 1 + (f - 1)
      OBVIOUS
    <3> QED BY <3>1
  <2>3. y = x + f + k * f /\ k * f \in Nat
    BY <1>3, <2>1
  <2>4. y = S + S * j /\ S * j \in Nat
    BY <1>3, <2>2
  <2> QED BY <2>3, <2>4
<1>5. 2 * y < TimeWord /\ z + f < TimeWord
  BY <1>2, <1>3
<1>6. x % S \in 0 .. S - 1
  BY DivIs
<1>7. x + (x % S) < TimeWord
  BY <1>1, <1>4, <1>5, <1>6
<1>8. PICK d \in Nat : /\ Time!DivRoundUp(x, S) = d
                       /\ 2 * (d * S - x) <= S /\ 2 * (x - d * S) <= S
                       /\ d = x \div S \/ (d = (x \div S) + 1 /\ x % S > 0)
  BY <1>1, <1>7, RoundsToNearest
<1>9. d <= f
  <2>1. PICK q \in Nat, m \in Nat : q = x \div S /\ x = q * S + m
    <3>1. x \div S \in Nat /\ x % S \in 0 .. S - 1 /\ x = (x \div S) * S + (x % S)
      BY DivIs
    <3> QED BY <3>1
  <2>2. q < f
    <3> SUFFICES ASSUME q >= f PROVE FALSE
      OBVIOUS
    <3>1. PICK k \in Nat : q = f + k
      <4>1. q - f \in Nat /\ q = f + (q - f)
        OBVIOUS
      <4> QED BY <4>1
    <3>2. q * S = y + k * S /\ k * S \in Nat
      BY <1>3, <3>1
    <3> QED BY <1>4, <2>1, <3>2
  <2> QED BY <1>8, <2>1, <2>2
<1>10. a = (z + d) % TimeWord
  BY <1>2, <1>3, <1>8
<1>11. (z + d) % TimeWord = z + d
  BY <1>1, <1>5, <1>9
<1>12. PICK e \in Nat : e = d * S
  OBVIOUS
<1>13. a * S - n * f = e - x
  <2>1. PICK c \in Nat : c = z * S
    OBVIOUS
  <2>2. a * S = c + e
    BY <1>10, <1>11, <1>12, <2>1
  <2>3. n * f = c + x
    BY <1>2, <1>3, <2>1
  <2> QED BY <2>1, <2>2, <2>3
<1>14. 2 * (e - x) <= S /\ 2 * (x - e) <= S
  BY <1>8, <1>12
<1> QED BY <1>12, <1>13, <1>14 DEF Time!Abs

-----------------------------------------------------------------------------
(* The invariant.                                                          *)

TimeInv == freq \in {0} \cup Freqs /\ (freq = 0 => asked.op = "none") /\ Time!TimeIsNearest

\* The conversions of ticks and nanoseconds, and the seconds and durations that are
\* printed, are the nearest there are, if no result is too long for a word: whatever
\* the frequency, the units and the precision.
THEOREM TimesAreNearest ==
  ASSUME Time!TimeConvAssumption, Time!NoOverflow
  PROVE  Time!Spec => []TimeIsNearest
<1>1. Time!Init => TimeInv
  BY DEF Time!Init, TimeInv, Time!TimeIsNearest
<1>2. TimeInv /\ [Time!Next]_(Time!tcvars) => TimeInv'
  <2> SUFFICES ASSUME TimeInv, [Time!Next]_(Time!tcvars) PROVE TimeInv'
    OBVIOUS
  <2> USE DEF Time!Call
  <2>1. ASSUME NEW f \in Freqs, Time!Calibrate(f) PROVE TimeInv'
    <3>1. freq' \in Freqs /\ asked'.op = "none"
      BY <2>1 DEF Time!Calibrate
    <3> QED BY <3>1, TimeGiven DEF TimeInv, Time!TimeIsNearest
  <2>2. ASSUME NEW n \in Ticks, Time!NanosToTicks(n) PROVE TimeInv'
    <3>1. freq' = freq /\ freq \in Freqs /\ asked' = [op |-> "nanos_to_ticks", v |-> n, p |-> 0]
      BY <2>2 DEF Time!NanosToTicks, TimeInv
    <3>2. PICK a : a = ((n \div SecInNs) * freq + Time!DivRoundUp((n % SecInNs) * freq, SecInNs)) % TimeWord
      OBVIOUS
    <3>3. 2 * Time!Abs(a * SecInNs - n * freq) <= SecInNs
      <4>1. PICK f \in Freqs : f = freq
        BY <3>1
      <4>2. n \in Nat /\ f \in Nat /\ f > 0 /\ SecInNs \in Nat /\ SecInNs > 0
        BY TimeGiven
      <4>3. 2 * SecInNs * f < TimeWord /\ (n \div SecInNs) * f + f < TimeWord
        BY DEF Time!NoOverflow
      <4> QED BY <3>2, <4>1, <4>2, <4>3, ConvertedIs
    <3>4. answer'[1] = a
      BY <2>2, <3>2 DEF Time!NanosToTicks
    <3> QED BY <3>1, <3>3, <3>4, TimeGiven DEF TimeInv, Time!TimeIsNearest
  <2>3. ASSUME NEW n \in Ticks, Time!TicksToNanos(n) PROVE TimeInv'
    <3>1. freq' = freq /\ freq \in Freqs /\ asked' = [op |-> "ticks_to_nanos", v |-> n, p |-> 0]
      BY <2>3 DEF Time!TicksToNanos, TimeInv
    <3>2. PICK a : a = ((n \div freq) * SecInNs + Time!DivRoundUp((n % freq) * SecInNs, freq)) % TimeWord
      OBVIOUS
    <3>3. 2 * Time!Abs(a * freq - n * SecInNs) <= freq
      <4>1. PICK f \in Freqs : f = freq
        BY <3>1
      <4>2. n \in Nat /\ f \in Nat /\ f > 0 /\ SecInNs \in Nat /\ SecInNs > 0 /\ TimeWord \in Nat
        BY TimeGiven
      <4>3. 2 * f * SecInNs < TimeWord /\ (n \div f) * SecInNs + SecInNs < TimeWord
        <5>1. 2 * SecInNs * f < TimeWord /\ (n \div f) * SecInNs + SecInNs < TimeWord
          BY DEF Time!NoOverflow
        <5>2. 2 * SecInNs * f = 2 * f * SecInNs
          BY <4>2
        <5> QED BY <5>1, <5>2
      <4> QED BY <3>2, <4>1, <4>2, <4>3, ConvertedIs
    <3>4. answer'[1] = a
      BY <2>3, <3>2 DEF Time!TicksToNanos
    <3> QED BY <3>1, <3>3, <3>4, TimeGiven DEF TimeInv, Time!TimeIsNearest
  <2>4. ASSUME NEW n \in Ticks, NEW p \in Precisions, Time!Seconds(n, p) PROVE TimeInv'
    <3>1. freq' = freq /\ freq \in Freqs /\ asked' = [op |-> "seconds", v |-> n, p |-> p]
      BY <2>4 DEF Time!Seconds, TimeInv
    <3>2. PICK t : t = Time!Rounded(n, p)
      OBVIOUS
    <3>3. PICK v : v = Time!Number(t \div freq, Time!SubSec(t % freq, p))
      OBVIOUS
    <3>4. Time!IsNearest(v, n, p)
      BY <3>1, <3>2, <3>3, NearestIsPrinted
    <3>5. v = Time!Number(answer'[1], answer'[2])
      BY <2>4, <3>2, <3>3 DEF Time!Seconds
    <3>6. Time!IsNearest(v, n, p)'
      BY <3>1, <3>4 DEF Time!IsNearest
    <3> QED BY <3>1, <3>5, <3>6, TimeGiven DEF TimeInv, Time!TimeIsNearest
  <2>5. ASSUME NEW n \in Ticks, NEW p \in Precisions, NEW leading0 \in BOOLEAN,
               Time!Duration(n, p, leading0)
        PROVE  TimeInv'
    <3>1. freq' = freq /\ freq \in Freqs /\ asked' = [op |-> "duration", v |-> n, p |-> p]
      BY <2>5 DEF Time!Duration, TimeInv
    <3>2. PICK t : t = Time!Rounded(n, p)
      OBVIOUS
    <3>3. PICK secs, digits : secs = t \div freq /\ digits = Time!SubSec(t % freq, p)
      OBVIOUS
    <3>4. PICK v : v = Time!Number(secs, digits)
      OBVIOUS
    <3>5. Time!IsNearest(v, n, p) /\ t \in Nat
      BY <3>1, <3>2, <3>3, <3>4, NearestIsPrinted
    <3>6. secs \in Nat
      <4>1. PICK f \in Nat : f = freq /\ f > 0
        BY <3>1, TimeGiven
      <4> QED BY <3>3, <3>5, <4>1, DivIs
    <3>7. PICK units : units = Time!Split(secs)
      OBVIOUS
    <3>8. PICK first : first = Time!Printed(units, leading0)
      OBVIOUS
    <3>9. answer' = <<first, units, digits>>
      BY <2>5, <3>2, <3>3, <3>7, <3>8 DEF Time!Duration
    <3>10. units \in [1 .. Len(SecsPer) + 1 -> Nat]
      BY <3>6, <3>7, SplitIs
    <3>11. first \in 1 .. Len(SecsPer) + 1 /\ \A i \in 1 .. first - 1 : units[i] = 0
      <4>1. PICK m \in Nat : m = Len(SecsPer) + 1 /\ m > 0
        BY TimeGiven, LenProperties
      <4> QED BY <3>8, <3>10, <4>1, PrintedIs
    <3>12. Time!Total(first, units) = secs
      BY <3>6, <3>7, <3>11, TotalIs
    <3>13. /\ \A i \in 2 .. Len(SecsPer) : units[i] * SecsPer[i] < SecsPer[i - 1]
           /\ units[Len(units)] < SecsPer[Len(SecsPer)]
      BY <3>6, <3>7, UnitsAreSplit
    <3>14. Time!IsNearest(v, n, p)'
      BY <3>1, <3>5 DEF Time!IsNearest
    <3>15. v = Time!Number(Time!Total(answer'[1], answer'[2]), answer'[3])
      BY <3>4, <3>9, <3>12
    <3> QED BY <3>1, <3>9, <3>13, <3>14, <3>15, TimeGiven DEF TimeInv, Time!TimeIsNearest
  <2>6. CASE UNCHANGED Time!tcvars
    BY <2>6 DEF TimeInv, Time!TimeIsNearest, Time!tcvars, Time!IsNearest
  <2> QED BY <2>1, <2>2, <2>3, <2>4, <2>5, <2>6 DEF Time!Next
<1>3. TimeInv => TimeIsNearest
  BY DEF TimeInv, TimeIsNearest
<1> QED BY <1>1, <1>2, <1>3, PTL DEF Time!Spec

-----------------------------------------------------------------------------
(* Digits.                                                                 *)

LEMMA PfGiven ==
  ASSUME Out!PrintfAssumption
  PROVE  /\ OutWord \in Nat /\ OutWord > 0 /\ ResultLen \in Nat /\ ResultLen > 1
         /\ Out!Left(OutWord - 1, 2)[ResultLen - 1] = 0
BY DEF Out!PrintfAssumption

\* What is left of v when it was divided so often.
Divides(v, radix, left) ==
  /\ left \in [0 .. ResultLen -> Nat] /\ left[0] = v
  /\ \A i \in 1 .. ResultLen : left[i] = left[i - 1] \div radix

LEMMA LeftIs ==
  ASSUME Out!PrintfAssumption, NEW v \in Nat, NEW radix \in Nat, radix > 1
  PROVE  Divides(v, radix, Out!Left(v, radix))
<1> DEFINE E(left) == [i \in 0 .. ResultLen |-> IF i = 0 THEN v ELSE left[i - 1] \div radix]
<1>1. ResultLen \in Nat
  BY PfGiven
<1>2. \A x \in Nat : x \div radix \in Nat
  BY DivIs
<1>3. PICK step : step = [s \in (1 .. ResultLen) \X Nat |-> s[2] \div radix]
  OBVIOUS
<1>4. step \in Steps(ResultLen, Nat)
  BY <1>2, <1>3 DEF Steps
<1>5. PICK g : Follows(ResultLen, Nat, v, step, g)
  BY <1>1, <1>4, Recursion
<1>6. g \in [0 .. ResultLen -> Nat] /\ g[0] = v /\ \A i \in 1 .. ResultLen : g[i] = g[i - 1] \div radix
  <2>1. \A i \in 1 .. ResultLen : i - 1 \in 0 .. ResultLen
    BY <1>1
  <2>2. g \in [0 .. ResultLen -> Nat] /\ g[0] = v /\ \A i \in 1 .. ResultLen : g[i] = step[<<i, g[i - 1]>>]
    BY <1>5 DEF Follows
  <2> QED BY <1>3, <2>1, <2>2
<1>7. g = E(g)
  <2>1. ASSUME NEW i \in 0 .. ResultLen PROVE g[i] = IF i = 0 THEN v ELSE g[i - 1] \div radix
    BY <1>1, <1>6
  <2> QED BY <1>6, <2>1
<1>8. PICK h : h = CHOOSE x : x = E(x)
  OBVIOUS
<1>9. h = E(h)
  BY <1>7, <1>8
<1>10. GoAlike(ResultLen, h, g)
  <2>1. 0 \in 0 .. ResultLen /\ \A i \in 1 .. ResultLen : i \in 0 .. ResultLen /\ i # 0
    BY <1>1
  <2> QED BY <1>7, <1>9, <2>1 DEF GoAlike
<1>11. h = g
  <2>1. \A i \in 0 .. ResultLen : h[i] = g[i]
    BY <1>1, <1>10, SameSteps
  <2> QED BY <1>7, <1>9, <2>1
<1>12. Out!Left(v, radix) = h
  BY <1>8 DEF Out!Left
<1> QED BY <1>6, <1>11, <1>12 DEF Divides

LEMMA DivMono ==
  ASSUME NEW x \in Nat, NEW y \in Nat, x <= y, NEW r \in Nat, r > 1
  PROVE  x \div r <= y \div 2
<1>1. PICK q \in Nat, s \in Nat : q = x \div r /\ x = r * q + s
  <2>1. x \div r \in Nat /\ x % r \in 0 .. r - 1 /\ x = r * (x \div r) + (x % r)
    BY DivIs
  <2> QED BY <2>1
<1>2. PICK p \in Nat, t \in Nat : p = y \div 2 /\ y = 2 * p + t /\ t < 2
  OBVIOUS
<1>3. PICK k \in Nat : r = 2 + k
  <2>1. r - 2 \in Nat /\ r = 2 + (r - 2)
    OBVIOUS
  <2> QED BY <2>1
<1>4. r * q = 2 * q + k * q /\ k * q \in Nat
  BY <1>3
<1> QED BY <1>1, <1>2, <1>4

\* Of a value that fits in a word nothing is left after ResultLen - 1 digits.
LEMMA NothingLeft ==
  ASSUME Out!PrintfAssumption, NEW v \in Nat, v < OutWord, NEW radix \in Nat, radix > 1
  PROVE  Out!Left(v, radix)[ResultLen - 1] = 0
<1>1. OutWord - 1 \in Nat /\ ResultLen \in Nat /\ ResultLen > 1
       /\ Out!Left(OutWord - 1, 2)[ResultLen - 1] = 0
  BY PfGiven
<1>2. PICK f : f = Out!Left(v, radix)
  OBVIOUS
<1>3. PICK g : g = Out!Left(OutWord - 1, 2)
  OBVIOUS
<1>4. Divides(v, radix, f)
  BY <1>2, LeftIs
<1>5. Divides(OutWord - 1, 2, g)
  BY <1>1, <1>3, LeftIs
<1> DEFINE T == {k \in Nat : k <= ResultLen => f[k] <= g[k]}
<1>6. 0 \in T
  <2>1. f[0] = v /\ g[0] = OutWord - 1 /\ v <= OutWord - 1
    BY <1>4, <1>5, PfGiven DEF Divides
  <2> QED BY <1>1, <2>1
<1>7. ASSUME NEW k \in Nat, k \in T PROVE k + 1 \in T
  <2> SUFFICES ASSUME k + 1 <= ResultLen PROVE f[k + 1] <= g[k + 1]
    OBVIOUS
  <2>1. k + 1 \in 1 .. ResultLen /\ k + 1 - 1 = k /\ k \in 0 .. ResultLen /\ f[k] <= g[k]
    BY <1>1, <1>7
  <2>2. PICK x \in Nat, y \in Nat : x = f[k] /\ y = g[k]
    BY <1>4, <1>5, <2>1 DEF Divides
  <2>3. f[k + 1] = x \div radix /\ g[k + 1] = y \div 2
    BY <1>4, <1>5, <2>1, <2>2 DEF Divides
  <2> QED BY <2>1, <2>2, <2>3, DivMono
<1> HIDE DEF T
<1>8. \A k \in Nat : k \in T
  BY <1>6, <1>7, EveryNumber
<1>9. ResultLen - 1 \in Nat /\ ResultLen - 1 <= ResultLen /\ ResultLen - 1 \in 0 .. ResultLen
  BY <1>1
<1>10. f[ResultLen - 1] <= 0 /\ f[ResultLen - 1] \in Nat
  BY <1>1, <1>3, <1>4, <1>8, <1>9 DEF T, Divides
<1> QED BY <1>2, <1>10

\* The digits of v are as many as it has, and there is room for a sign.
DigitsBy(v, radix, m, d, left) ==
  /\ m \in 1 .. ResultLen - 1 /\ d \in [1 .. m -> 0 .. radix - 1]
  /\ left \in [0 .. m -> Nat] /\ left[0] = v /\ left[m] = 0
  /\ \A i \in 1 .. m : left[i - 1] = left[i] * radix + d[i]
  /\ m = 1 \/ d[m] # 0

LEMMA DigitsAre ==
  ASSUME Out!PrintfAssumption, NEW v \in Nat, v < OutWord, NEW radix \in Nat, radix > 1,
         NEW d, d = Out!RevDigits(v, radix)
  PROVE  \E m, left : DigitsBy(v, radix, m, d, left)
<1>1. ResultLen \in Nat /\ ResultLen > 1
  BY PfGiven
<1>2. PICK f : f = Out!Left(v, radix)
  OBVIOUS
<1>3. Divides(v, radix, f) /\ f[ResultLen - 1] = 0
  BY <1>2, LeftIs, NothingLeft
<1> DEFINE L == {i \in 1 .. ResultLen : f[i] = 0 \/ i = ResultLen}
<1>4. PICK n : n = CHOOSE x \in L : \A i \in L : x <= i
  OBVIOUS
<1>5. d = [i \in 1 .. n |-> f[i - 1] % radix]
  BY <1>2, <1>4 DEF Out!RevDigits
<1>6. ResultLen - 1 \in L
  BY <1>1, <1>3
<1>7. \E i \in L : \A j \in L : i <= j
  <2>1. L \subseteq Nat
    BY <1>1
  <2>2. IsWellFoundedOn({ss \in Nat \X Nat : ss[1] < ss[2]}, Nat)
    BY NatLessThanWellFounded DEF OpToRel
  <2> HIDE DEF L
  <2>3. PICK i \in L : \A j \in L : <<j, i>> \notin {ss \in Nat \X Nat : ss[1] < ss[2]}
    BY <1>6, <2>1, <2>2, WFMin
  <2>4. ASSUME NEW j \in L PROVE i <= j
    <3>1. ~(j < i) \/ <<j, i>> \in {ss \in Nat \X Nat : ss[1] < ss[2]}
      BY <2>1
    <3> QED BY <2>1, <2>3, <3>1
  <2> QED BY <2>4
<1>8. n \in L /\ \A i \in L : n <= i
  <2> HIDE DEF L
  <2> QED BY <1>4, <1>7
<1>9. n \in 1 .. ResultLen - 1 /\ f[n] = 0 /\ \A i \in 1 .. n - 1 : f[i] # 0
  BY <1>1, <1>6, <1>8
<1>10. PICK left : left = [i \in 0 .. n |-> f[i]]
  OBVIOUS
<1>11. left \in [0 .. n -> Nat] /\ left[0] = v /\ left[n] = 0
  BY <1>1, <1>3, <1>9, <1>10 DEF Divides
<1>12. ASSUME NEW i \in 1 .. n
       PROVE  d[i] \in 0 .. radix - 1 /\ left[i - 1] = left[i] * radix + d[i]
  <2>1. i \in 1 .. ResultLen /\ i \in 0 .. n /\ i - 1 \in 0 .. n /\ i - 1 \in 0 .. ResultLen
    BY <1>1, <1>9
  <2>2. PICK x \in Nat : x = f[i - 1]
    BY <1>3, <2>1 DEF Divides
  <2>3. left[i - 1] = x /\ left[i] = x \div radix /\ d[i] = x % radix
    BY <1>3, <1>5, <1>10, <2>1, <2>2 DEF Divides
  <2>4. x \div radix \in Nat /\ x % radix \in 0 .. radix - 1 /\ x = radix * (x \div radix) + (x % radix)
    BY DivIs
  <2>5. radix * (x \div radix) = (x \div radix) * radix
    BY <2>4
  <2> QED BY <2>3, <2>4, <2>5
<1>13. d \in [1 .. n -> 0 .. radix - 1]
  BY <1>5, <1>12
<1>14. n = 1 \/ d[n] # 0
  <2> SUFFICES ASSUME n # 1 PROVE d[n] # 0
    OBVIOUS
  <2>1. n - 1 \in 1 .. n - 1 /\ n \in 1 .. n /\ n - 1 \in 0 .. n
    BY <1>1, <1>9
  <2>2. left[n - 1] = left[n] * radix + d[n] /\ left[n] = 0
    BY <1>11, <1>12, <2>1
  <2>3. left[n - 1] # 0
    BY <1>9, <1>10, <2>1
  <2>4. d[n] \in Nat
    BY <1>12, <2>1
  <2> QED BY <2>2, <2>3, <2>4
<1>15. DigitsBy(v, radix, n, d, left)
  BY <1>9, <1>11, <1>12, <1>13, <1>14 DEF DigitsBy
<1> QED BY <1>15

-----------------------------------------------------------------------------
(* The text of a number.                                                   *)

\* c so many times, none if that is negative.
Many(n) == IF n > 0 THEN n ELSE 0
AllOf(c, k, s) == s \in Seq(Int) /\ Len(s) = k /\ \A j \in 1 .. k : s[j] = c

LEMMA RepIs ==
  ASSUME NEW c \in Int, NEW n \in Int, NEW k, k = Many(n)
  PROVE  k \in Nat /\ Out!Rep(c, n) = Out!Rep(c, k) /\ AllOf(c, k, Out!Rep(c, n))
<1>1. k \in Nat
  BY DEF Many
<1>2. PICK s : s = [i \in 1 .. k |-> c]
  OBVIOUS
<1>3. Out!Rep(c, n) = s
  BY <1>2 DEF Out!Rep, Many
<1>4. Out!Rep(c, k) = s
  <2>1. (IF k > 0 THEN k ELSE 0) = k
    BY <1>1
  <2> QED BY <1>2, <2>1 DEF Out!Rep
<1>5. s \in Seq(Int) /\ Len(s) = k
  BY <1>1, <1>2, LenIs
<1> QED BY <1>1, <1>2, <1>3, <1>4, <1>5 DEF AllOf

\* A text and another one behind it.
Joins(s, t, n, k, y) ==
  /\ n \in Nat /\ k \in Nat /\ y \in Seq(Int) /\ Len(y) = n + k
  /\ \A j \in 1 .. n + k : y[j] = IF j <= n THEN s[j] ELSE t[j - n]

LEMMA JoinIs ==
  ASSUME NEW s \in Seq(Int), NEW t \in Seq(Int), NEW n, n = Len(s), NEW k, k = Len(t), NEW y, y = s \o t
  PROVE  Joins(s, t, n, k, y)
<1>1. n \in Nat /\ k \in Nat
  BY LenProperties
<1>2. /\ s \o t \in Seq(Int) /\ Len(s \o t) = Len(s) + Len(t)
      /\ \A j \in 1 .. Len(s) + Len(t) : (s \o t)[j] = IF j <= Len(s) THEN s[j] ELSE t[j - Len(s)]
  BY ConcatProperties
<1> QED BY <1>1, <1>2 DEF Joins

\* The zeros and the digits, the first one first.
Digits(d, m, z) == [j \in 1 .. z + m |-> IF j <= z THEN 0 ELSE d[m + z + 1 - j]]

\* The place i of the j-th character from behind, which is the l-th behind the sign.
Behind(m, z, e, N, j, i, l) ==
  /\ i \in 1 .. N
  /\ j <= e => e = 1 /\ j = 1 /\ i = m + z + 1 /\ i - (m + z) = 1 /\ ~(i <= m + z)
  /\ ~(j <= e) => /\ l \in 1 .. z + m /\ i = m + z + 1 - l /\ i \in 1 .. m + z
                  /\ l <= z => ~(i <= m) /\ i - m \in 1 .. z
                  /\ ~(l <= z) => i <= m

LEMMA BackPlace ==
  ASSUME NEW m \in Nat, NEW z \in Nat, NEW e \in {0, 1}, NEW N \in Nat, N = m + z + e,
         NEW j \in 1 .. N, NEW i, i = (N - j) + 1, NEW l, l = j - e
  PROVE  Behind(m, z, e, N, j, i, l)
BY DEF Behind

\* Backwards, result is the sign, the zeros and the digits.
ReversedAs(r, sg, ds, m, z) ==
  /\ ds \in Seq(Int) /\ Len(ds) = z + m
  /\ r \in Seq(Int) /\ Len(r) = m + z + Len(sg) /\ Out!Reverse(r) = sg \o ds

LEMMA ResultIs ==
  ASSUME NEW m \in Nat, NEW d \in [1 .. m -> Int], NEW n \in Int, NEW z, z = Many(n),
         NEW sg \in Seq(Int), Len(sg) <= 1, NEW r, r = d \o Out!Rep(0, n) \o sg,
         NEW ds, ds = Digits(d, m, z)
  PROVE  ReversedAs(r, sg, ds, m, z)
<1>1. PICK e \in Nat : e = Len(sg) /\ (e = 0 \/ e = 1)
  <2>1. Len(sg) \in Nat
    BY LenProperties
  <2> QED BY <2>1
<1>2. d \in Seq(Int) /\ Len(d) = m
  BY LenIs
<1>3. PICK zs : zs = Out!Rep(0, n)
  OBVIOUS
<1>4. z \in Nat /\ zs \in Seq(Int) /\ Len(zs) = z /\ \A j \in 1 .. z : zs[j] = 0
  <2>1. z \in Nat /\ AllOf(0, z, Out!Rep(0, n))
    BY RepIs
  <2> QED BY <1>3, <2>1 DEF AllOf
<1>5. PICK y : y = d \o zs
  OBVIOUS
<1>12. /\ y \in Seq(Int) /\ Len(y) = m + z
       /\ \A j \in 1 .. m + z : y[j] = IF j <= m THEN d[j] ELSE zs[j - m]
  <2>1. Joins(d, zs, m, z, y)
    BY <1>2, <1>4, <1>5, JoinIs
  <2> QED BY <2>1 DEF Joins
<1>13. /\ r \in Seq(Int) /\ Len(r) = m + z + e
       /\ \A j \in 1 .. m + z + e : r[j] = IF j <= m + z THEN y[j] ELSE sg[j - (m + z)]
  <2>1. r = y \o sg
    BY <1>3, <1>5
  <2>2. PICK l : l = m + z
    OBVIOUS
  <2>3. Joins(y, sg, l, e, r)
    BY <1>1, <1>12, <2>1, <2>2, JoinIs
  <2> QED BY <2>2, <2>3 DEF Joins
<1>6. ds \in Seq(Int) /\ Len(ds) = z + m
  <2>1. ASSUME NEW j \in 1 .. z + m PROVE (IF j <= z THEN 0 ELSE d[m + z + 1 - j]) \in Int
    <3>1. CASE j <= z
      BY <3>1
    <3>2. CASE ~(j <= z)
      <4>1. m + z + 1 - j \in 1 .. m
        BY <1>4, <3>2
      <4> QED BY <3>2, <4>1
    <3> QED BY <3>1, <3>2
  <2>2. ds \in [1 .. z + m -> Int]
    BY <2>1 DEF Digits
  <2>3. z + m \in Nat
    BY <1>4
  <2> QED BY <2>2, <2>3, LenIs
<1>7. PICK q : q = sg \o ds
  OBVIOUS
<1>14. PICK l1 \in Nat : l1 = z + m
  BY <1>4
<1>15. /\ q \in Seq(Int) /\ Len(q) = e + l1
       /\ \A j \in 1 .. e + l1 : q[j] = IF j <= e THEN sg[j] ELSE ds[j - e]
  <2>1. Joins(sg, ds, e, l1, q)
    BY <1>1, <1>6, <1>7, <1>14, JoinIs
  <2> QED BY <2>1 DEF Joins
<1>8. PICK N \in Nat : N = m + z + e /\ N = e + l1
  BY <1>4, <1>14
<1>16. z \in Nat
  BY <1>4
<1>17. e \in {0, 1}
  BY <1>1
<1>9. ASSUME NEW j \in 1 .. N PROVE r[(N - j) + 1] = q[j]
  <2>1. PICK i : i = (N - j) + 1
    OBVIOUS
  <2>2. PICK l : l = j - e
    OBVIOUS
  <2>3. /\ i \in 1 .. N
        /\ j <= e => e = 1 /\ j = 1 /\ i = m + z + 1 /\ i - (m + z) = 1 /\ ~(i <= m + z)
        /\ ~(j <= e) => /\ l \in 1 .. z + m /\ i = m + z + 1 - l /\ i \in 1 .. m + z
                        /\ l <= z => ~(i <= m) /\ i - m \in 1 .. z
                        /\ ~(l <= z) => i <= m
    <3>1. Behind(m, z, e, N, j, i, l)
      BY <1>8, <1>16, <1>17, <2>1, <2>2, BackPlace
    <3> QED BY <3>1 DEF Behind
  <2>4. i \in 1 .. m + z + e /\ j \in 1 .. e + l1
    BY <1>8, <2>3
  <2>5. CASE j <= e
    <3>1. r[i] = sg[1]
      BY <1>13, <2>3, <2>4, <2>5
    <3>2. q[j] = sg[1]
      BY <1>15, <2>3, <2>4, <2>5
    <3> QED BY <2>1, <3>1, <3>2
  <2>6. CASE ~(j <= e)
    <3>1. q[j] = ds[l]
      BY <1>15, <2>2, <2>4, <2>6
    <3>2. r[i] = y[i]
      BY <1>13, <2>3, <2>4, <2>6
    <3>3. y[i] = IF i <= m THEN d[i] ELSE zs[i - m]
      BY <1>12, <2>3, <2>6
    <3>4. ds[l] = IF l <= z THEN 0 ELSE d[i]
      BY <2>3, <2>6 DEF Digits
    <3>5. CASE l <= z
      BY <1>4, <2>1, <2>3, <2>6, <3>1, <3>2, <3>3, <3>4, <3>5
    <3>6. CASE ~(l <= z)
      BY <2>1, <2>3, <2>6, <3>1, <3>2, <3>3, <3>4, <3>6
    <3> QED BY <3>5, <3>6
  <2> QED BY <2>5, <2>6
<1>10. Out!Reverse(r) = [j \in 1 .. N |-> q[j]]
  <2>1. Len(r) = N
    BY <1>8, <1>13
  <2> QED BY <1>9, <2>1 DEF Out!Reverse
<1>11. q = [j \in 1 .. N |-> q[j]]
  <2>1. q \in [1 .. Len(q) -> Int]
    BY <1>15, ElementOfSeq
  <2>2. Len(q) = N
    BY <1>8, <1>15
  <2> QED BY <2>1, <2>2
<1> QED BY <1>1, <1>6, <1>7, <1>10, <1>11, <1>13 DEF ReversedAs

\* The digits say the value.
LEMMA ValueIs ==
  ASSUME NEW v \in Nat, NEW radix \in Nat, NEW m, NEW d, NEW left,
         DigitsBy(v, radix, m, d, left), ResultLen \in Nat,
         NEW z \in Nat, NEW ds, ds = Digits(d, m, z)
  PROVE  Out!Value(ds, radix) = v
<1>1. /\ m \in Nat /\ m > 0 /\ d \in [1 .. m -> 0 .. radix - 1]
      /\ left \in [0 .. m -> Nat] /\ left[0] = v /\ left[m] = 0
      /\ \A i \in 1 .. m : left[i - 1] = left[i] * radix + d[i]
  <2>1. m \in 1 .. ResultLen - 1
    BY DEF DigitsBy
  <2>2. m \in Nat /\ m > 0
    BY <2>1
  <2> QED BY <2>2 DEF DigitsBy
<1>2. PICK n \in Nat : n = z + m
  BY <1>1
<1>3. ASSUME NEW j \in 1 .. n PROVE ds[j] \in Nat /\ ds[j] = IF j <= z THEN 0 ELSE d[m + z + 1 - j]
  <2>1. ds[j] = IF j <= z THEN 0 ELSE d[m + z + 1 - j]
    BY <1>2 DEF Digits
  <2>2. CASE j <= z
    BY <2>1, <2>2
  <2>3. CASE ~(j <= z)
    <3>1. m + z + 1 - j \in 1 .. m
      BY <1>1, <1>2, <2>3
    <3> QED BY <1>1, <2>1, <2>3, <3>1
  <2> QED BY <2>2, <2>3
<1>4. ds \in [1 .. n -> Nat]
  <2>1. ds = [j \in 1 .. n |-> ds[j]]
    BY <1>2 DEF Digits
  <2> QED BY <1>3, <2>1
<1>5. Len(ds) = n
  BY <1>4, LenIs
<1> DEFINE E(f) == [i \in 0 .. Len(ds) |-> IF i = 0 THEN 0 ELSE f[i - 1] * radix + ds[i]]
<1>6. PICK step : step = [s \in (1 .. n) \X Nat |-> s[2] * radix + ds[s[1]]]
  OBVIOUS
<1>7. step \in Steps(n, Nat)
  <2>1. ASSUME NEW x \in Nat, NEW i \in 1 .. n PROVE x * radix + ds[i] \in Nat
    <3>1. x * radix \in Nat /\ ds[i] \in Nat
      BY <1>4
    <3> QED BY <3>1
  <2> QED BY <1>6, <2>1 DEF Steps
<1>8. PICK g : Follows(n, Nat, 0, step, g)
  <2>1. PICK o \in Nat : o = 0
    OBVIOUS
  <2>2. \E g : Follows(n, Nat, o, step, g)
    BY <1>7, Recursion
  <2> QED BY <2>1, <2>2
<1>9. g \in [0 .. n -> Nat] /\ g[0] = 0 /\ \A i \in 1 .. n : g[i] = g[i - 1] * radix + ds[i]
  <2>1. \A i \in 1 .. n : i - 1 \in 0 .. n
    OBVIOUS
  <2>2. g \in [0 .. n -> Nat] /\ g[0] = 0 /\ \A i \in 1 .. n : g[i] = step[<<i, g[i - 1]>>]
    BY <1>8 DEF Follows
  <2> QED BY <1>6, <2>1, <2>2
<1>10. g = E(g)
  <2>1. ASSUME NEW i \in 0 .. n PROVE g[i] = IF i = 0 THEN 0 ELSE g[i - 1] * radix + ds[i]
    BY <1>9
  <2> QED BY <1>5, <1>9, <2>1
<1>11. PICK h : h = CHOOSE x : x = E(x)
  OBVIOUS
<1>12. h = E(h)
  BY <1>10, <1>11
<1>13. GoAlike(n, h, g)
  <2>1. 0 \in 0 .. Len(ds) /\ \A i \in 1 .. n : i \in 0 .. Len(ds) /\ i # 0
    BY <1>5
  <2>2. h[0] = g[0]
    BY <1>9, <1>12, <2>1
  <2>3. ASSUME NEW i \in 1 .. n, h[i - 1] = g[i - 1] PROVE h[i] = g[i]
    <3>1. h[i] = h[i - 1] * radix + ds[i]
      BY <1>12, <2>1
    <3> QED BY <1>9, <2>3, <3>1
  <2> QED BY <2>2, <2>3 DEF GoAlike
<1>14. Out!Value(ds, radix) = g[n]
  <2>1. \A i \in 0 .. n : h[i] = g[i]
    BY <1>13, SameSteps
  <2>2. Out!Value(ds, radix) = h[n]
    BY <1>5, <1>11 DEF Out!Value
  <2> QED BY <2>1, <2>2
<1> DEFINE T == {k \in Nat : k <= z => g[k] = 0}
           U == {k \in Nat : k <= m => g[z + k] = left[m - k]}
<1>15. 0 \in T
  BY <1>9
<1>16. ASSUME NEW k \in Nat, k \in T PROVE k + 1 \in T
  <2> SUFFICES ASSUME k + 1 <= z PROVE g[k + 1] = 0
    OBVIOUS
  <2>1. k + 1 \in 1 .. n /\ k + 1 - 1 = k /\ g[k] = 0
    BY <1>1, <1>2, <1>16
  <2>2. ds[k + 1] = 0
    BY <1>3, <2>1
  <2>3. g[k + 1] = 0 * radix + 0
    BY <1>9, <2>1, <2>2
  <2> QED BY <2>3
<1>17. z \in T
  <2> HIDE DEF T
  <2> QED BY <1>15, <1>16, EveryNumber
<1>18. 0 \in U
  BY <1>1, <1>17
<1>19. ASSUME NEW k \in Nat, k \in U PROVE k + 1 \in U
  <2> SUFFICES ASSUME k + 1 <= m PROVE g[z + (k + 1)] = left[m - (k + 1)]
    OBVIOUS
  <2>1. PICK j \in 1 .. n : j = z + (k + 1) /\ j - 1 = z + k /\ ~(j <= z)
    <3>1. z + (k + 1) \in 1 .. n
      BY <1>1, <1>2
    <3> QED BY <3>1
  <2>2. PICK i \in 1 .. m : i = m - k /\ i - 1 = m - (k + 1) /\ i = m + z + 1 - j
    <3>1. m - k \in 1 .. m
      BY <1>1
    <3> QED BY <1>1, <2>1, <3>1
  <2>3. g[j - 1] = left[i]
    BY <1>1, <1>19, <2>1, <2>2
  <2>4. ds[j] = d[i]
    BY <1>3, <2>1, <2>2
  <2>5. g[j] = left[i] * radix + d[i]
    BY <1>9, <2>3, <2>4
  <2> QED BY <1>1, <2>1, <2>2, <2>5
<1>20. m \in U
  <2> HIDE DEF U
  <2> QED BY <1>1, <1>18, <1>19, EveryNumber
<1>21. g[n] = left[0]
  BY <1>1, <1>2, <1>20
<1> QED BY <1>1, <1>14, <1>21

LEMMA TextsJoin ==
  ASSUME NEW s \in Seq(Int), NEW t \in Seq(Int), NEW u \in Seq(Int)
  PROVE  s \o (t \o u) = (s \o t) \o u
BY ConcatAssociative

AreDigits(ds, n, radix) == ds \in Seq(Int) /\ Len(ds) = n /\ \A j \in 1 .. n : ds[j] \in 0 .. radix - 1
Spaced(t, left, sg, ds, k) ==
  t = IF left THEN (sg \o ds) \o Out!Rep(Out!Space, k)
      ELSE Out!Rep(Out!Space, k) \o (sg \o ds)

\* A sign and digits with spaces at one side show the value of the digits.
LEMMA ShownIs ==
  ASSUME NEW k \in Nat, NEW left \in BOOLEAN, NEW sg \in Seq(Int), NEW n \in Nat, n > 0, NEW radix \in Nat,
         NEW ds, AreDigits(ds, n, radix),
         NEW t, Spaced(t, left, sg, ds, k),
         NEW zeros, ~zeros => n = 1 \/ ds[1] # 0
  PROVE  /\ t \in Seq(Int) /\ Len(t) = k + (n + Len(sg))
         /\ Out!Shows(t, k, left, sg, Out!Value(ds, radix), radix, zeros)
<1>17. ds \in Seq(Int) /\ Len(ds) = n /\ \A j \in 1 .. n : ds[j] \in 0 .. radix - 1
  BY DEF AreDigits
<1>18. ds \in Seq(Int) /\ Len(ds) = n
  BY <1>17
<1>1. PICK e \in Nat : e = Len(sg)
  BY LenProperties
<1>2. PICK pads : pads = Out!Rep(Out!Space, k)
  OBVIOUS
<1>3. pads \in Seq(Int) /\ Len(pads) = k
  <2>1. Out!Space \in Int /\ k \in Int /\ k = Many(k)
    BY DEF Out!Space, Many
  <2>2. AllOf(Out!Space, k, Out!Rep(Out!Space, k))
    BY <2>1, RepIs
  <2> QED BY <1>2, <2>2 DEF AllOf
<1>4. PICK q : q = sg \o ds
  OBVIOUS
<1>5. PICK en \in Nat : en = e + n
  OBVIOUS
<1>6. q \in Seq(Int) /\ Len(q) = en /\ \A j \in 1 .. en : q[j] = IF j <= e THEN sg[j] ELSE ds[j - e]
  <2>1. Joins(sg, ds, e, n, q)
    BY <1>1, <1>4, <1>18, JoinIs
  <2> QED BY <1>5, <2>1 DEF Joins
<1>7. t = IF left THEN q \o pads ELSE pads \o q
  BY <1>2, <1>4 DEF Spaced
<1>8. PICK at \in Nat : at = (IF left THEN 0 ELSE k) + e
  OBVIOUS
<1>9. t \in Seq(Int) /\ Len(t) = k + en /\ \A j \in 1 .. n : t[at + j] = ds[j]
  <2>1. ASSUME NEW j \in 1 .. n PROVE e + j \in 1 .. en /\ q[e + j] = ds[j]
    <3>1. e + j \in 1 .. en /\ ~(e + j <= e) /\ (e + j) - e = j
      BY <1>5
    <3> QED BY <1>6, <3>1
  <2>2. CASE left
    <3>1. Joins(q, pads, en, k, t)
      BY <1>3, <1>6, <1>7, <2>2, JoinIs
    <3>2. t \in Seq(Int) /\ Len(t) = k + en
           /\ \A j \in 1 .. en + k : t[j] = IF j <= en THEN q[j] ELSE pads[j - en]
      <4>1. en + k = k + en
        OBVIOUS
      <4> QED BY <3>1, <4>1 DEF Joins
    <3>3. ASSUME NEW j \in 1 .. n PROVE t[at + j] = ds[j]
      <4>1. at + j = e + j /\ e + j \in 1 .. en + k /\ e + j <= en
        BY <1>5, <1>8, <2>2
      <4> QED BY <2>1, <3>2, <4>1
    <3> QED BY <3>2, <3>3
  <2>3. CASE ~left
    <3>1. Joins(pads, q, k, en, t)
      BY <1>3, <1>6, <1>7, <2>3, JoinIs
    <3>2. t \in Seq(Int) /\ Len(t) = k + en
           /\ \A j \in 1 .. k + en : t[j] = IF j <= k THEN pads[j] ELSE q[j - k]
      BY <3>1 DEF Joins
    <3>3. ASSUME NEW j \in 1 .. n PROVE t[at + j] = ds[j]
      <4>1. at + j \in 1 .. k + en /\ ~(at + j <= k) /\ (at + j) - k = e + j
        BY <1>5, <1>8, <2>3
      <4> QED BY <2>1, <3>2, <4>1
    <3> QED BY <3>2, <3>3
  <2> QED BY <2>2, <2>3
<1>10. Len(t) - k - Len(sg) = n
  BY <1>1, <1>5, <1>9
<1>11. PICK ds2 : ds2 = [j \in 1 .. Len(t) - k - Len(sg) |-> t[at + j]]
  OBVIOUS
<1>12. ds2 = ds
  <2>1. ds2 = [j \in 1 .. n |-> t[at + j]]
    BY <1>10, <1>11
  <2>2. ds \in [1 .. n -> Int]
    BY <1>18, ElementOfSeq
  <2> QED BY <1>9, <2>1, <2>2
<1>13. t = IF left THEN sg \o ds \o pads ELSE pads \o sg \o ds
  <2>1. pads \o (sg \o ds) = (pads \o sg) \o ds
    BY <1>3, <1>18, TextsJoin
  <2> QED BY <1>4, <1>7, <2>1
<1>14. DOMAIN ds = 1 .. n
  BY <1>18, ElementOfSeq
<1>15. Out!Shows(t, k, left, sg, Out!Value(ds, radix), radix, zeros)
  <2>1. ds = [j \in 1 .. Len(t) - k - Len(sg) |-> t[(IF left THEN 0 ELSE k) + Len(sg) + j]]
    BY <1>1, <1>8, <1>11, <1>12
  <2> DEFINE S(x) == /\ Len(t) - k - Len(sg) > 0
                     /\ t = IF left THEN sg \o x \o Out!Rep(Out!Space, k)
                             ELSE Out!Rep(Out!Space, k) \o sg \o x
                     /\ \A j \in DOMAIN x : x[j] \in 0 .. radix - 1
                     /\ Out!Value(x, radix) = Out!Value(ds, radix)
                     /\ ~zeros => Len(x) = 1 \/ x[1] # 0
  <2>2. S(ds)
    BY <1>2, <1>10, <1>13, <1>14, <1>17
  <2>3. S([j \in 1 .. Len(t) - k - Len(sg) |-> t[(IF left THEN 0 ELSE k) + Len(sg) + j]])
    <3> HIDE DEF S
    <3> QED BY <2>1, <2>2
  <2> QED BY <2>3 DEF Out!Shows
<1>16. Len(t) = k + (n + Len(sg))
  BY <1>1, <1>5, <1>9
<1> QED BY <1>9, <1>15, <1>16

\* The zeros and the spaces fill the width, never both.
Fills(m, e, width, zero, z, k) ==
  /\ z \in Nat /\ k \in Nat /\ width <= k + (m + z + e)
  /\ k > 0 => ~zero /\ k + (m + z + e) = width
  /\ z > 0 => zero /\ k + (m + z + e) = width /\ k = 0

LEMMA FillsIs ==
  ASSUME NEW m \in Nat, NEW e \in {0, 1}, NEW width \in Nat, NEW zero \in BOOLEAN,
         NEW pad, pad = IF zero THEN width - m - e ELSE 0, NEW z, z = Many(pad),
         NEW k, k = Many(width - (m + z + e))
  PROVE  Fills(m, e, width, zero, z, k)
<1>1. z \in Nat /\ k \in Nat
  BY DEF Many
<1>2. CASE zero
  BY <1>1, <1>2 DEF Many, Fills
<1>3. CASE ~zero
  BY <1>1, <1>3 DEF Many, Fills
<1> QED BY <1>2, <1>3

Signs(w) == IF w.sign = 0 THEN <<>> ELSE <<w.sign>>

\* What is written of a value: m digits, z zeros and k spaces.
Writes(w, v, radix, m, z, k) ==
  LET e == Len(Signs(w))
      t == Out!UVal(w, v, radix)
  IN /\ m \in 1 .. ResultLen - 1 /\ e \in {0, 1} /\ Fills(m, e, w.width, w.zero, z, k)
     /\ Len(Out!Result(w, v, radix)) = m + z + e
     /\ t \in Seq(Int) /\ Len(t) = k + (m + z + e)
     /\ Out!Shows(t, k, w.left, Signs(w), v, radix, w.zero /\ Len(t) = w.width)

LEMMA UValIs ==
  ASSUME Out!PrintfAssumption, NEW v \in Nat, v < OutWord, NEW radix \in Nat, radix > 1,
         NEW w, w.sign \in Int, w.left \in BOOLEAN, w.zero \in BOOLEAN, w.width \in Nat
  PROVE  \E m, z, k : Writes(w, v, radix, m, z, k)
<1>1. ResultLen \in Nat
  BY PfGiven
<1>2. PICK d : d = Out!RevDigits(v, radix)
  OBVIOUS
<1>3. PICK m, left : DigitsBy(v, radix, m, d, left)
  BY <1>2, DigitsAre
<1>4. m \in 1 .. ResultLen - 1 /\ m \in Nat /\ m > 0 /\ d \in [1 .. m -> 0 .. radix - 1]
       /\ (m = 1 \/ d[m] # 0)
  <2>1. m \in 1 .. ResultLen - 1
    BY <1>3 DEF DigitsBy
  <2>2. m \in Nat /\ m > 0
    BY <1>1, <2>1
  <2> QED BY <1>3, <2>1, <2>2 DEF DigitsBy
<1>5. PICK sg : sg = Signs(w)
  OBVIOUS
<1>6. PICK e \in {0, 1} : e = Len(sg) /\ sg \in Seq(Int) /\ e = IF w.sign = 0 THEN 0 ELSE 1
  <2>1. CASE w.sign = 0
    <3>1. sg = <<>> /\ Len(sg) = 0 /\ sg \in Seq(Int)
      BY <1>5, <2>1 DEF Signs
    <3> QED BY <2>1, <3>1
  <2>2. CASE w.sign # 0
    <3>1. sg = <<w.sign>> /\ Len(sg) = 1 /\ sg \in Seq(Int)
      BY <1>5, <2>2 DEF Signs
    <3> QED BY <2>2, <3>1
  <2> QED BY <2>1, <2>2
<1>7. PICK width \in Nat : width = w.width
  OBVIOUS
<1>8. PICK zero \in BOOLEAN : zero = w.zero
  OBVIOUS
<1>9. PICK pad : pad = Out!Pad0(w, m)
  OBVIOUS
<1>10. pad = (IF zero THEN width - m - e ELSE 0) /\ pad \in Int
  BY <1>4, <1>6, <1>7, <1>8, <1>9 DEF Out!Pad0
<1>11. PICK z : z = Many(pad)
  OBVIOUS
<1>12. PICK k : k = Many(width - (m + z + e))
  OBVIOUS
<1>13. Fills(m, e, width, zero, z, k)
  BY <1>4, <1>6, <1>10, <1>11, <1>12, FillsIs
<1>14. z \in Nat /\ k \in Nat
  BY <1>13 DEF Fills
<1>15. d \in [1 .. m -> Int] /\ Len(d) = m
  BY <1>4, LenIs
<1>16. PICK r : r = Out!Result(w, v, radix)
  OBVIOUS
<1>17. r = d \o Out!Rep(0, pad) \o sg
  BY <1>2, <1>5, <1>9, <1>15, <1>16 DEF Out!Result, Signs
<1>18. PICK ds : ds = Digits(d, m, z)
  OBVIOUS
<1>19. /\ ds \in Seq(Int) /\ Len(ds) = z + m
       /\ r \in Seq(Int) /\ Len(r) = m + z + e /\ Out!Reverse(r) = sg \o ds
  <2>1. Len(sg) <= 1
    BY <1>6
  <2>2. ReversedAs(r, sg, ds, m, z)
    BY <1>4, <1>6, <1>10, <1>11, <1>15, <1>17, <1>18, <2>1, ResultIs
  <2> QED BY <1>6, <2>2 DEF ReversedAs
<1>20. Out!Rep(Out!Space, width - Len(r)) = Out!Rep(Out!Space, k)
  <2>1. Out!Space \in Int
    BY DEF Out!Space
  <2>2. PICK x \in Int : x = width - (m + z + e)
    <3>1. m \in Nat /\ e \in Nat
      BY <1>4, <1>6
    <3>2. width - (m + z + e) \in Int
      BY <1>14, <3>1
    <3> QED BY <3>2
  <2>3. Out!Rep(Out!Space, x) = Out!Rep(Out!Space, k)
    BY <1>12, <2>1, <2>2, RepIs
  <2> QED BY <1>19, <2>2, <2>3
<1>21. PICK t : t = Out!UVal(w, v, radix)
  OBVIOUS
<1>22. Spaced(t, w.left, sg, ds, k)
  BY <1>7, <1>16, <1>19, <1>20, <1>21 DEF Out!UVal, Spaced
<1>23. Out!Value(ds, radix) = v
  BY <1>1, <1>3, <1>14, <1>18, ValueIs
<1>24. PICK n \in Nat : n = z + m /\ n > 0
  BY <1>4, <1>14
<1>25. \A j \in 1 .. n : ds[j] \in 0 .. radix - 1
  <2>1. ASSUME NEW j \in 1 .. n PROVE ds[j] \in 0 .. radix - 1
    <3>1. ds[j] = IF j <= z THEN 0 ELSE d[m + z + 1 - j]
      BY <1>18, <1>24 DEF Digits
    <3>2. CASE j <= z
      BY <3>1, <3>2
    <3>3. CASE ~(j <= z)
      <4>1. m + z + 1 - j \in 1 .. m
        BY <1>4, <1>14, <1>24, <3>3
      <4> QED BY <1>4, <3>1, <3>3, <4>1
    <3> QED BY <3>2, <3>3
  <2> QED BY <2>1
<1>26. z = 0 => n = 1 \/ ds[1] # 0
  <2> SUFFICES ASSUME z = 0 PROVE m = 1 \/ ds[1] # 0
    BY <1>4, <1>24
  <2>1. 1 \in 1 .. z + m /\ ~(1 <= z) /\ m + z + 1 - 1 = m
    BY <1>4
  <2>2. ds[1] = d[m]
    BY <1>18, <2>1 DEF Digits
  <2> QED BY <1>4, <2>2
<1>27. PICK zeros : zeros = (w.zero /\ k + (m + z + e) = w.width)
  OBVIOUS
<1>28. ~zeros => n = 1 \/ ds[1] # 0
  <2>1. z > 0 => zeros
    BY <1>7, <1>8, <1>13, <1>27 DEF Fills
  <2> QED BY <1>14, <1>26, <2>1
<1>29. t \in Seq(Int) /\ Len(t) = k + (n + Len(sg)) /\ Out!Shows(t, k, w.left, sg, v, radix, zeros)
  <2>1. AreDigits(ds, n, radix)
    BY <1>19, <1>24, <1>25 DEF AreDigits
  <2>2. PICK lj \in BOOLEAN : lj = w.left
    OBVIOUS
  <2>3. Spaced(t, lj, sg, ds, k)
    BY <1>22, <2>2
  <2>4. k \in Nat /\ sg \in Seq(Int) /\ n \in Nat /\ n > 0
    BY <1>6, <1>14, <1>24
  <2>5. t \in Seq(Int) /\ Len(t) = k + (n + Len(sg))
         /\ Out!Shows(t, k, lj, sg, Out!Value(ds, radix), radix, zeros)
    BY <1>28, <2>1, <2>3, <2>4, ShownIs
  <2> QED BY <1>23, <2>2, <2>5
<1>30. Len(t) = k + (m + z + e)
  <2>1. m \in Nat /\ e \in Nat /\ Len(sg) = e
    BY <1>4, <1>6
  <2>2. k + (n + e) = k + (m + z + e)
    BY <1>14, <1>24, <2>1
  <2> QED BY <1>29, <2>1, <2>2
<1>31. Writes(w, v, radix, m, z, k)
  BY <1>4, <1>5, <1>6, <1>7, <1>8, <1>13, <1>16, <1>19, <1>21, <1>27, <1>29, <1>30 DEF Writes
<1> QED BY <1>31

Writers == [max : Nat, sign : {0, Out!Plus, Out!Minus}, left : BOOLEAN, zero : BOOLEAN, width : Nat]

\* The writer as the flags and the width of item i leave it.
FlagsOf(w, i) ==
  /\ w \in Writers /\ w.sign = (IF i.plus THEN Out!Plus ELSE 0)
  /\ w.left = i.left /\ w.zero = i.zero /\ w.width = i.width

\* The writer of a number says what its item does.
WriterOk(w, i) ==
  /\ w \in Writers /\ w.left = i.left /\ w.zero = (i.zero \/ i.conv = "p")
  /\ w.width = IF i.conv = "p" /\ i.width = 0 THEN Len(Out!RevDigits(OutWord - 1, 16)) ELSE i.width
  /\ w.zero => w.width <= ResultLen
  /\ Signs(w) = IF i.arg < 0 THEN <<Out!Minus>> ELSE IF i.plus THEN <<Out!Plus>> ELSE <<>>

LEMMA ItemIs ==
  ASSUME Out!PrintfAssumption, NEW i \in Items
  PROVE  /\ i.plus \in BOOLEAN /\ i.left \in BOOLEAN /\ i.zero \in BOOLEAN
         /\ i.width \in Nat /\ i.arg \in Int
         /\ i.conv \in Out!Numbers =>
              /\ i.arg < OutWord /\ (i.conv = "d" => -i.arg < OutWord) /\ (i.conv # "d" => i.arg >= 0)
              /\ i.zero \/ i.conv = "p" => i.width <= ResultLen
BY DEF Out!PrintfAssumption, Out!Signed

LEMMA WriterIs ==
  ASSUME Out!PrintfAssumption, NEW i \in Items, i.conv \in Out!Numbers, NEW u, FlagsOf(u, i),
         NEW w, w = Out!WriterFor(u, i.conv, i.arg)
  PROVE  WriterOk(w, i) /\ w.max = u.max
<1>1. /\ i.plus \in BOOLEAN /\ i.left \in BOOLEAN /\ i.zero \in BOOLEAN /\ i.width \in Nat /\ i.arg \in Int
      /\ i.conv # "d" => i.arg >= 0
      /\ i.zero \/ i.conv = "p" => i.width <= ResultLen
  BY ItemIs
<1>2. u \in Writers
  BY DEF FlagsOf
<1>3. CASE i.conv = "d" /\ i.arg < 0
  <2>1. w = [u EXCEPT !.sign = Out!Minus]
    BY <1>3 DEF Out!WriterFor, Out!Signed
  <2>2. w \in Writers /\ w.sign = Out!Minus /\ w.left = u.left /\ w.zero = u.zero
         /\ w.width = u.width /\ w.max = u.max
    BY <1>2, <2>1 DEF Writers
  <2>3. Signs(w) = <<Out!Minus>>
    BY <2>2 DEF Signs, Out!Minus
  <2> QED BY <1>1, <1>3, <2>2, <2>3 DEF WriterOk, FlagsOf
<1>4. CASE i.conv = "p"
  <2>1. w = [u EXCEPT !.zero = TRUE, !.width = IF @ = 0 THEN Len(Out!RevDigits(OutWord - 1, 16)) ELSE @]
    BY <1>4 DEF Out!WriterFor, Out!Signed
  <2>2. Len(Out!RevDigits(OutWord - 1, 16)) \in 1 .. ResultLen - 1 /\ ResultLen \in Nat
    <3>1. OutWord - 1 \in Nat /\ OutWord - 1 < OutWord /\ ResultLen \in Nat
      BY PfGiven
    <3>2. PICK d : d = Out!RevDigits(OutWord - 1, 16)
      OBVIOUS
    <3>3. PICK m, left : DigitsBy(OutWord - 1, 16, m, d, left)
      BY <3>1, <3>2, DigitsAre
    <3>4. m \in 1 .. ResultLen - 1 /\ d \in [1 .. m -> 0 .. 15]
      BY <3>3 DEF DigitsBy
    <3>5. m \in Nat
      BY <3>1, <3>4
    <3> QED BY <3>1, <3>2, <3>4, <3>5, LenIs
  <2>3. PICK l \in Nat : l = Len(Out!RevDigits(OutWord - 1, 16)) /\ l <= ResultLen
    BY <2>2
  <2>4. /\ w \in Writers /\ w.sign = u.sign /\ w.left = u.left /\ w.zero = TRUE /\ w.max = u.max
        /\ w.width = IF u.width = 0 THEN l ELSE u.width
    BY <1>2, <2>1, <2>3 DEF Writers
  <2>5. Signs(w) = IF i.plus THEN <<Out!Plus>> ELSE <<>>
    BY <1>1, <2>4 DEF Signs, FlagsOf, Out!Plus
  <2>6. w.left = i.left /\ w.zero = (i.zero \/ i.conv = "p")
    BY <1>4, <2>4 DEF FlagsOf
  <2>7. u.width = i.width /\ i.width \in Nat
    BY <1>1 DEF FlagsOf
  <2>8. w.width = (IF i.width = 0 THEN l ELSE i.width)
    BY <2>4, <2>7
  <2>9. w.width <= ResultLen
    <3>1. i.width <= ResultLen
      BY <1>1, <1>4
    <3> QED BY <2>3, <2>8, <3>1
  <2>10. w.width = IF i.conv = "p" /\ i.width = 0 THEN Len(Out!RevDigits(OutWord - 1, 16)) ELSE i.width
    BY <1>4, <2>3, <2>8
  <2>11. Signs(w) = IF i.arg < 0 THEN <<Out!Minus>> ELSE IF i.plus THEN <<Out!Plus>> ELSE <<>>
    <3>1. ~(i.arg < 0)
      BY <1>1, <1>4
    <3> QED BY <2>5, <3>1
  <2>12. WriterOk(w, i)
    BY <2>4, <2>6, <2>9, <2>10, <2>11 DEF WriterOk
  <2> QED BY <2>4, <2>12
<1>5. CASE ~(i.conv = "d" /\ i.arg < 0) /\ i.conv # "p"
  <2>1. w = u
    BY <1>5 DEF Out!WriterFor, Out!Signed
  <2>2. ~(i.arg < 0)
    BY <1>1, <1>5
  <2>3. Signs(w) = IF i.plus THEN <<Out!Plus>> ELSE <<>>
    BY <1>1, <2>1 DEF Signs, FlagsOf, Out!Plus
  <2> QED BY <1>1, <1>2, <1>5, <2>1, <2>2, <2>3 DEF WriterOk, FlagsOf
<1> QED BY <1>3, <1>4, <1>5

LEMMA NumberIsWellWritten ==
  ASSUME Out!PrintfAssumption, NEW i \in Items, i.conv \in Out!Numbers, NEW w, WriterOk(w, i),
         NEW v, v = Out!Magnitude(i.conv, i.arg), NEW radix, radix = Out!Radix[i.conv],
         NEW t, t = Out!UVal(w, v, radix), NEW n, n = Len(Out!Result(w, v, radix))
  PROVE  t \in Seq(Int) /\ Out!WellWritten(i, t, n)
<1>1. /\ i.arg \in Int /\ i.arg < OutWord /\ (i.conv = "d" => -i.arg < OutWord)
           /\ (i.conv # "d" => i.arg >= 0)
      /\ i.zero \in BOOLEAN
  BY ItemIs
<1>2. OutWord \in Nat /\ OutWord > 0 /\ ResultLen \in Nat /\ ResultLen > 1
  BY PfGiven
<1>3. v = (IF i.arg < 0 THEN -i.arg ELSE i.arg) /\ v \in Nat /\ v < OutWord
  <2>1. CASE i.arg < 0
    BY <1>1, <2>1 DEF Out!Magnitude, Out!Signed
  <2>2. CASE ~(i.arg < 0)
    <3>1. PICK a \in Nat : a = i.arg /\ a < OutWord
      BY <1>1, <2>2
    <3>2. a % OutWord = a
      BY <1>2, <3>1
    <3>3. v = a
      BY <3>1, <3>2, <2>2 DEF Out!Magnitude
    <3> QED BY <2>2, <3>1, <3>3
  <2> QED BY <2>1, <2>2
<1>4. radix \in Nat /\ radix > 1
  BY DEF Out!Numbers, Out!Radix
<1>5. w \in Writers
  BY DEF WriterOk
<1>6. w.sign \in Int /\ w.left \in BOOLEAN /\ w.zero \in BOOLEAN /\ w.width \in Nat
  BY <1>5 DEF Writers, Out!Plus, Out!Minus
<1>7. PICK m, z, k : Writes(w, v, radix, m, z, k)
  BY <1>3, <1>4, <1>6, UValIs
<1>8. PICK e \in {0, 1} : e = Len(Signs(w))
  BY <1>7 DEF Writes
<1>9. /\ m \in 1 .. ResultLen - 1 /\ Fills(m, e, w.width, w.zero, z, k)
      /\ n = m + z + e /\ t \in Seq(Int) /\ Len(t) = k + (m + z + e)
      /\ Out!Shows(t, k, w.left, Signs(w), v, radix, w.zero /\ Len(t) = w.width)
  BY <1>7, <1>8 DEF Writes
<1>10. m \in Nat /\ z \in Nat /\ k \in Nat /\ e \in Nat /\ m <= ResultLen - 1 /\ e <= 1
  BY <1>2, <1>9 DEF Fills
<1>11. PICK width \in Nat : width = w.width
  BY <1>6
<1>12. PICK zero \in BOOLEAN : zero = w.zero
  BY <1>6
<1>13. /\ width <= k + (m + z + e)
       /\ k > 0 => ~zero /\ k + (m + z + e) = width
       /\ z > 0 => zero /\ k + (m + z + e) = width /\ k = 0
  BY <1>9, <1>11, <1>12 DEF Fills
<1>14. Len(t) >= width
  BY <1>9, <1>10, <1>13
<1>15. k \in 0 .. Len(t)
  BY <1>9, <1>10
<1>16. n <= ResultLen
  <2>1. zero => width <= ResultLen
    BY <1>11, <1>12 DEF WriterOk
  <2>2. CASE z > 0
    BY <1>2, <1>9, <1>10, <1>13, <2>1, <2>2
  <2>3. CASE z = 0
    BY <1>2, <1>9, <1>10, <2>3
  <2> QED BY <1>10, <2>2, <2>3
<1>17. k > 0 => ~zero /\ Len(t) = width
  BY <1>9, <1>13
<1> DEFINE sign == IF i.arg < 0 THEN <<Out!Minus>> ELSE IF i.plus THEN <<Out!Plus>> ELSE <<>>
           val == IF i.arg < 0 THEN -i.arg ELSE i.arg
           width1 == IF i.conv = "p" /\ i.width = 0 THEN Len(Out!RevDigits(OutWord - 1, 16)) ELSE i.width
           zero1 == i.zero \/ i.conv = "p"
<1>18. w.left = i.left /\ Signs(w) = sign /\ v = val /\ width = width1 /\ zero = zero1
  BY <1>3, <1>11, <1>12 DEF WriterOk
<1>19. Out!Shows(t, k, i.left, sign, val, Out!Radix[i.conv], zero1 /\ Len(t) = width1)
  <2> HIDE DEF sign, val, width1, zero1
  <2> QED BY <1>9, <1>11, <1>12, <1>18
<1>20. Len(t) >= width1 /\ (k > 0 => ~zero1 /\ Len(t) = width1)
  <2> HIDE DEF sign, val, width1, zero1
  <2> QED BY <1>14, <1>17, <1>18
<1> QED BY <1>9, <1>15, <1>16, <1>19, <1>20 DEF Out!WellWritten

-----------------------------------------------------------------------------
(* The buffer.                                                             *)

\* y holds the beginning of text x, as much of it as there is room for.
Holds(y, x, limit) ==
  /\ y \in Seq(Int) /\ x \in Seq(Int) /\ limit \in Nat /\ limit > 1
  /\ Len(y) = IF Len(x) < limit THEN Len(x) ELSE limit - 1
  /\ \A j \in 1 .. Len(y) : y[j] = x[j]

\* The same when n characters of text z are written.
HoldsOf(y, z, n, limit) ==
  /\ y \in Seq(Int) /\ Len(y) = (IF n < limit THEN n ELSE limit - 1)
  /\ \A j \in 1 .. Len(y) : y[j] = z[j]

PutOne(y, limit, c) == IF Out!Room(y, limit) THEN Append(y, c) ELSE y

LEMMA OneMore ==
  ASSUME NEW z \in Seq(Int), NEW n \in Nat, n < Len(z), NEW limit \in Nat, limit > 1,
         NEW y, HoldsOf(y, z, n, limit)
  PROVE  HoldsOf(PutOne(y, limit, z[n + 1]), z, n + 1, limit)
<1>1. y \in Seq(Int) /\ Len(y) \in Nat /\ Len(z) \in Nat
  BY LenProperties DEF HoldsOf
<1>2. PICK l \in Nat : l = Len(y)
  BY <1>1
<1>3. l = (IF n < limit THEN n ELSE limit - 1) /\ \A j \in 1 .. l : y[j] = z[j]
  BY <1>2 DEF HoldsOf
<1>4. CASE l < limit - 1
  <2>1. l = n /\ n < limit /\ n + 1 < limit
    BY <1>3, <1>4
  <2>2. n + 1 \in 1 .. Len(z)
    BY <1>1
  <2>3. z[n + 1] \in Int
    BY <2>2, ElementOfSeq
  <2>4. PICK u : u = Append(y, z[n + 1])
    OBVIOUS
  <2>5. u \in Seq(Int) /\ Len(u) = n + 1 /\ (\A j \in 1 .. n : u[j] = y[j]) /\ u[n + 1] = z[n + 1]
    <3>1. Len(y) = n
      BY <1>2, <2>1
    <3>2. u \in Seq(Int) /\ Len(u) = Len(y) + 1 /\ (\A j \in 1 .. Len(y) : u[j] = y[j])
      BY <1>1, <2>3, <2>4, AppendProperties
    <3>3. u[Len(y) + 1] = z[n + 1]
      BY <1>1, <2>3, <2>4, AppendProperties
    <3> QED BY <3>1, <3>2, <3>3
  <2>6. \A j \in 1 .. n + 1 : u[j] = z[j]
    <3>1. ASSUME NEW j \in 1 .. n + 1 PROVE u[j] = z[j]
      <4>1. j = n + 1 \/ j \in 1 .. n
        OBVIOUS
      <4> QED BY <1>3, <2>1, <2>5, <4>1
    <3> QED BY <3>1
  <2>7. PutOne(y, limit, z[n + 1]) = u
    BY <1>2, <1>4, <2>4 DEF PutOne, Out!Room
  <2> QED BY <2>1, <2>5, <2>6, <2>7 DEF HoldsOf
<1>5. CASE ~(l < limit - 1)
  <2>1. l = limit - 1 /\ ~(n + 1 < limit)
    BY <1>3, <1>5
  <2>2. PutOne(y, limit, z[n + 1]) = y
    BY <1>2, <1>5 DEF PutOne, Out!Room
  <2> QED BY <1>1, <1>2, <1>3, <2>1, <2>2 DEF HoldsOf
<1> QED BY <1>4, <1>5

LEMMA WrittenIs ==
  ASSUME NEW y, NEW x, NEW limit, Holds(y, x, limit), NEW s \in Seq(Int)
  PROVE  Holds(Out!Written(y, limit, s), x \o s, limit)
<1> DEFINE E(f) == [i \in 0 .. Len(s) |-> IF i = 0 THEN y
                                          ELSE IF Out!Room(f[i - 1], limit) THEN Append(f[i - 1], s[i])
                                          ELSE f[i - 1]]
<1>1. y \in Seq(Int) /\ x \in Seq(Int) /\ limit \in Nat /\ limit > 1
  BY DEF Holds
<1>2. PICK n \in Nat : n = Len(s)
  BY LenProperties
<1>3. PICK l \in Nat : l = Len(x)
  BY <1>1, LenProperties
<1>4. PICK step : step = [p \in (1 .. n) \X Seq(Int) |-> PutOne(p[2], limit, s[p[1]])]
  OBVIOUS
<1>5. step \in Steps(n, Seq(Int))
  <2>1. ASSUME NEW i \in 1 .. n, NEW u \in Seq(Int) PROVE PutOne(u, limit, s[i]) \in Seq(Int)
    <3>1. s[i] \in Int
      BY <1>2, ElementOfSeq
    <3> QED BY <3>1, AppendProperties DEF PutOne
  <2> QED BY <1>4, <2>1 DEF Steps
<1>6. PICK g : Follows(n, Seq(Int), y, step, g)
  BY <1>1, <1>5, Recursion
<1>7. g \in [0 .. n -> Seq(Int)] /\ g[0] = y /\ \A i \in 1 .. n : g[i] = PutOne(g[i - 1], limit, s[i])
  <2>1. \A i \in 1 .. n : i - 1 \in 0 .. n
    BY <1>2
  <2>2. g \in [0 .. n -> Seq(Int)] /\ g[0] = y /\ \A i \in 1 .. n : g[i] = step[<<i, g[i - 1]>>]
    BY <1>6 DEF Follows
  <2> QED BY <1>4, <2>1, <2>2
<1>8. g = E(g)
  <2>1. ASSUME NEW i \in 0 .. n
        PROVE  g[i] = IF i = 0 THEN y
                      ELSE IF Out!Room(g[i - 1], limit) THEN Append(g[i - 1], s[i]) ELSE g[i - 1]
    <3>1. CASE i = 0
      BY <1>7, <3>1
    <3>2. CASE i # 0
      <4>1. i \in 1 .. n
        BY <3>2
      <4>2. g[i] = PutOne(g[i - 1], limit, s[i])
        BY <1>7, <4>1
      <4> QED BY <3>2, <4>2 DEF PutOne
    <3> QED BY <3>1, <3>2
  <2> QED BY <1>2, <1>7, <2>1
<1>9. PICK h : h = CHOOSE f : f = E(f)
  OBVIOUS
<1>10. h = E(h)
  BY <1>8, <1>9
<1>11. GoAlike(n, h, g)
  <2>1. h[0] = y
    <3>1. 0 \in 0 .. Len(s)
      BY <1>2
    <3> QED BY <1>10, <3>1
  <2>2. ASSUME NEW i \in 1 .. n PROVE h[i] = PutOne(h[i - 1], limit, s[i])
    <3>1. i \in 0 .. Len(s) /\ i # 0
      BY <1>2
    <3> QED BY <1>10, <3>1 DEF PutOne
  <2>3. ASSUME NEW i \in 1 .. n, h[i - 1] = g[i - 1] PROVE h[i] = g[i]
    <3>1. g[i] = PutOne(g[i - 1], limit, s[i])
      BY <1>7
    <3> QED BY <2>2, <2>3, <3>1
  <2> QED BY <1>7, <2>1, <2>3 DEF GoAlike
<1>12. h[n] = g[n]
  <2>1. \A i \in 0 .. n : h[i] = g[i]
    BY <1>11, SameSteps
  <2> QED BY <2>1
<1>13. Out!Written(y, limit, s) = g[n]
  BY <1>2, <1>9, <1>12 DEF Out!Written
<1>14. PICK z : z = x \o s
  OBVIOUS
<1>15. /\ z \in Seq(Int) /\ Len(z) = l + n
       /\ \A j \in 1 .. l + n : z[j] = IF j <= l THEN x[j] ELSE s[j - l]
  <2>1. Joins(x, s, l, n, z)
    BY <1>1, <1>2, <1>3, <1>14, JoinIs
  <2> QED BY <2>1 DEF Joins
<1> DEFINE T == {k \in Nat : k <= n => HoldsOf(g[k], z, l + k, limit)}
<1>16. 0 \in T
  <2>1. \A j \in 1 .. Len(y) : y[j] = z[j]
    <3>1. ASSUME NEW j \in 1 .. Len(y) PROVE y[j] = z[j]
      <4>1. Len(y) <= l /\ j \in 1 .. l + n /\ j <= l
        BY <1>1, <1>3 DEF Holds
      <4> QED BY <1>15, <4>1 DEF Holds
    <3> QED BY <3>1
  <2>2. HoldsOf(y, z, l, limit)
    BY <1>1, <1>3, <2>1 DEF Holds, HoldsOf
  <2> QED BY <1>7, <2>2
<1>17. ASSUME NEW k \in Nat, k \in T PROVE k + 1 \in T
  <2> SUFFICES ASSUME k + 1 <= n PROVE HoldsOf(g[k + 1], z, l + (k + 1), limit)
    OBVIOUS
  <2>1. HoldsOf(g[k], z, l + k, limit)
    BY <1>17
  <2>2. k + 1 \in 1 .. n /\ k + 1 - 1 = k /\ l + k \in Nat /\ l + k < Len(z) /\ l + k + 1 = l + (k + 1)
    BY <1>15
  <2>3. z[l + k + 1] = s[k + 1]
    <3>1. l + k + 1 \in 1 .. l + n /\ ~(l + k + 1 <= l) /\ (l + k + 1) - l = k + 1
      OBVIOUS
    <3> QED BY <1>15, <3>1
  <2>4. g[k + 1] = PutOne(g[k], limit, z[l + k + 1])
    BY <1>7, <2>2, <2>3
  <2>5. HoldsOf(PutOne(g[k], limit, z[l + k + 1]), z, l + k + 1, limit)
    BY <1>1, <1>15, <2>1, <2>2, OneMore
  <2> QED BY <2>2, <2>4, <2>5
<1> HIDE DEF T
<1>18. n \in T
  BY <1>16, <1>17, EveryNumber
<1>19. HoldsOf(g[n], z, l + n, limit)
  BY <1>18 DEF T
<1> QED BY <1>1, <1>13, <1>14, <1>15, <1>19 DEF Holds, HoldsOf

-----------------------------------------------------------------------------
(* The formatter and the table.                                            *)

\* What is true of the formatter: the flags are those of the item, and the buffer
\* holds what it has room for.
FormatInv ==
  /\ fmt \in Seq(Items) /\ wr \in Writers
  /\ fpc = "convert" => fmt # <<>> /\ FlagsOf(wr, Head(fmt))
  /\ fpc # "idle" => wr.max > 1
  /\ IF wr.max > 1 THEN Holds(out, text, wr.max) ELSE out = <<>> /\ text = <<>>
  /\ Out!NumberIsWritten

\* And of the table: a place is reserved for one, and the count is past it.
TableInv ==
  /\ tsCount \in Nat /\ ts \in [1 .. TsMax -> Procs \cup {"none"}]
  /\ reg \in [Procs -> [at : {"no", "fill", "full", "ok", "error"}, idx : Nat]]
  /\ \A c \in Procs :
       /\ reg[c].at = "no" => reg[c].idx = 0
       /\ reg[c].at \in {"fill", "ok"} => reg[c].idx \in 1 .. TsMax /\ reg[c].idx <= tsCount
       /\ reg[c].at \in {"full", "error"} => reg[c].idx > TsMax
       /\ reg[c].at = "full" => tsCount >= TsMax
       /\ reg[c].at = "error" => tsCount >= TsMax
       /\ reg[c].at = "ok" => ts[reg[c].idx] = c
  /\ \A c, e \in Procs : reg[c].at \in {"fill", "ok"} /\ reg[c].idx = reg[e].idx => c = e

FormatterVars == <<fmt, wr, out, fpc, last, text>>
TableVars == <<ts, tsCount, reg>>

LEMMA WriteKeeps ==
  ASSUME NEW limit, Holds(out, text, limit), wr.max = limit, NEW s \in Seq(Int), Out!Write(s)
  PROVE  Holds(out', text', limit)
BY WrittenIs DEF Out!Write

LEMMA LettersAre ==
  ASSUME NEW n \in Int
  PROVE  Out!Rep(Out!Letter, n) \in Seq(Int)
<1>1. Out!Letter \in Int
  BY DEF Out!Letter
<1>2. PICK k : k = Many(n)
  OBVIOUS
<1>3. AllOf(Out!Letter, k, Out!Rep(Out!Letter, n))
  BY <1>1, <1>2, RepIs
<1> QED BY <1>3 DEF AllOf

\* A step that writes without a number, and goes on to the next item.
LEMMA WritesOn ==
  ASSUME FormatInv, fpc # "idle", NEW s \in Seq(Int), Out!Write(s),
         fmt' \in Seq(Items), fpc' = "next", wr' = wr, last' = last
  PROVE  FormatInv'
<1>1. Holds(out, text, wr.max) /\ wr.max > 1
  BY DEF FormatInv
<1>2. Holds(out', text', wr.max)
  BY <1>1, WriteKeeps
<1>3. Out!NumberIsWritten'
  BY DEF FormatInv, Out!NumberIsWritten
<1> QED BY <1>1, <1>2, <1>3 DEF FormatInv

LEMMA FormatSteps ==
  ASSUME Out!PrintfAssumption, FormatInv, TableInv,
         \/ \E f \in Out!BoundedSeq(Items, MaxItems), limit \in MaxLens : Out!Begin(f, limit)
         \/ Out!NextItem \/ Out!Number \/ Out!Chars \/ Out!Ends \/ Out!Other
  PROVE  FormatInv' /\ UNCHANGED TableVars
<1> USE DEF TableVars
<1>1. ASSUME NEW f \in Out!BoundedSeq(Items, MaxItems), NEW limit \in MaxLens, Out!Begin(f, limit)
      PROVE  FormatInv' /\ UNCHANGED TableVars
  <2>1. f \in Seq(Items)
    <3>1. PICK m \in 0 .. MaxItems : f \in [1 .. m -> Items]
      BY DEF Out!BoundedSeq, Out!SeqOf
    <3>2. m \in Nat
      BY DEF Out!PrintfAssumption
    <3> QED BY <3>1, <3>2, LenIs
  <2>2. limit \in Nat /\ limit > 1
    BY <1>1 DEF Out!PrintfAssumption, Out!Begin
  <2>3. wr' \in Writers /\ wr'.max = limit
    BY <1>1, <2>2 DEF Out!Begin, Out!NoFlags, Writers
  <2>4. <<>> \in Seq(Int) /\ Len(<<>>) = 0
    BY EmptySeq
  <2>5. Holds(<<>>, <<>>, limit)
    BY <2>2, <2>4 DEF Holds
  <2>6. Out!NumberIsWritten'
    BY <1>1 DEF Out!Begin, Out!NumberIsWritten
  <2> QED BY <1>1, <2>1, <2>2, <2>3, <2>5, <2>6 DEF Out!Begin, FormatInv
<1>2. ASSUME Out!NextItem PROVE FormatInv' /\ UNCHANGED TableVars
  <2>1. CASE fmt = <<>>
    <3>1. Out!NumberIsWritten'
      BY <1>2 DEF FormatInv, Out!NextItem, Out!NumberIsWritten
    <3> QED BY <1>2, <2>1, <3>1 DEF Out!NextItem, FormatInv
  <2>2. CASE fmt # <<>> /\ Head(fmt).conv = "literal"
    <3>1. <<Out!Letter>> \in Seq(Int)
      BY DEF Out!Letter
    <3>2. Tail(fmt) \in Seq(Items)
      BY <2>2, HeadTailProperties DEF FormatInv
    <3>3. Out!Write(<<Out!Letter>>) /\ fpc # "idle" /\ fmt' = Tail(fmt) /\ fpc' = "next"
           /\ wr' = wr /\ last' = last
      BY <1>2, <2>2 DEF Out!NextItem
    <3>4. FormatInv'
      BY <3>1, <3>2, <3>3, WritesOn
    <3> QED BY <1>2, <3>4 DEF Out!NextItem
  <2>3. CASE fmt # <<>> /\ Head(fmt).conv # "literal"
    <3>1. PICK i \in Items : i = Head(fmt)
      BY <2>3, HeadTailProperties DEF FormatInv
    <3>2. i.plus \in BOOLEAN /\ i.left \in BOOLEAN /\ i.zero \in BOOLEAN /\ i.width \in Nat
      BY ItemIs
    <3>3. /\ wr' = [max |-> wr.max, sign |-> IF i.plus THEN Out!Plus ELSE 0, left |-> i.left,
                    zero |-> i.zero, width |-> i.width]
          /\ fpc' = "convert" /\ fmt' = fmt /\ out' = out /\ text' = text /\ last' = last /\ fpc # "idle"
      BY <1>2, <2>3, <3>1 DEF Out!NextItem
    <3>4. wr.max \in Nat /\ wr.max > 1
      BY <3>3 DEF FormatInv, Writers
    <3>5. wr' \in Writers /\ wr'.max = wr.max
      BY <3>2, <3>3, <3>4 DEF Writers
    <3>6. FlagsOf(wr', i)
      BY <3>3, <3>5 DEF FlagsOf
    <3>7. Out!NumberIsWritten'
      BY <3>3 DEF FormatInv, Out!NumberIsWritten
    <3>8. FormatInv'
      BY <2>3, <3>1, <3>3, <3>4, <3>5, <3>6, <3>7 DEF FormatInv
    <3> QED BY <1>2, <3>8 DEF Out!NextItem
  <2> QED BY <2>1, <2>2, <2>3
<1>3. ASSUME fpc = "convert"
      PROVE  /\ fpc # "idle" /\ fmt # <<>> /\ Head(fmt) \in Items /\ Tail(fmt) \in Seq(Items)
             /\ Head(fmt).arg \in Int /\ FlagsOf(wr, Head(fmt))
  <2>1. fmt \in Seq(Items) /\ fmt # <<>> /\ FlagsOf(wr, Head(fmt))
    BY <1>3 DEF FormatInv
  <2>2. Head(fmt) \in Items /\ Tail(fmt) \in Seq(Items)
    BY <2>1, HeadTailProperties
  <2>3. Head(fmt).arg \in Int
    BY <2>2, ItemIs
  <2> QED BY <1>3, <2>1, <2>2, <2>3
<1>4. ASSUME Out!Number PROVE FormatInv' /\ UNCHANGED TableVars
  <2>1. fpc = "convert" /\ fmt' = Tail(fmt) /\ fpc' = "next" /\ UNCHANGED TableVars
    BY <1>4 DEF Out!Number, Out!Converting, Out!ToNext
  <2>2. PICK i \in Items : i = Head(fmt) /\ FlagsOf(wr, i)
    BY <1>3, <2>1
  <2>3. i.conv \in Out!Numbers
    BY <1>4, <2>2 DEF Out!Number, Out!Converting
  <2>4. PICK w : w = Out!WriterFor(wr, i.conv, i.arg)
    OBVIOUS
  <2>5. WriterOk(w, i) /\ w.max = wr.max
    BY <2>2, <2>3, <2>4, WriterIs
  <2>6. PICK v : v = Out!Magnitude(i.conv, i.arg)
    OBVIOUS
  <2>7. PICK radix : radix = Out!Radix[i.conv]
    OBVIOUS
  <2>8. PICK t : t = Out!UVal(w, v, radix)
    OBVIOUS
  <2>9. PICK n : n = Len(Out!Result(w, v, radix))
    OBVIOUS
  <2>10. t \in Seq(Int) /\ Out!WellWritten(i, t, n)
    BY <2>3, <2>5, <2>6, <2>7, <2>8, <2>9, NumberIsWellWritten
  <2>11. Out!Write(t) /\ last' = <<[item |-> i, text |-> t, result |-> n]>> /\ wr' = w
    BY <1>4, <2>2, <2>4, <2>6, <2>7, <2>8, <2>9 DEF Out!Number
  <2>12. Holds(out, text, wr.max) /\ wr.max > 1
    BY <2>1 DEF FormatInv
  <2>13. Holds(out', text', wr.max)
    BY <2>10, <2>11, <2>12, WriteKeeps
  <2>14. Out!NumberIsWritten'
    <3>1. last'[1].item = i /\ last'[1].text = t /\ last'[1].result = n
      BY <2>11
    <3> QED BY <2>10, <3>1 DEF Out!NumberIsWritten, Out!WellWritten
  <2>15. w \in Writers
    BY <2>5 DEF WriterOk
  <2>16. FormatInv'
    BY <1>3, <2>1, <2>5, <2>11, <2>12, <2>13, <2>14, <2>15 DEF FormatInv
  <2> QED BY <2>1, <2>16
<1>5. ASSUME Out!Chars PROVE FormatInv' /\ UNCHANGED TableVars
  <2>1. fpc = "convert" /\ fmt' = Tail(fmt) /\ fpc' = "next" /\ wr' = wr /\ last' = last
         /\ UNCHANGED TableVars
    BY <1>5 DEF Out!Chars, Out!Converting, Out!ToNext
  <2>2. PICK s : s = CASE Head(fmt).conv = "%" -> <<Out!Percent>> [] Head(fmt).conv = "c" -> <<Out!Letter>>
                       [] OTHER -> Out!Rep(Out!Letter, Head(fmt).arg)
    OBVIOUS
  <2>3. Out!Write(s)
    BY <1>5, <2>2 DEF Out!Chars
  <2>4. s \in Seq(Int)
    <3>1. <<Out!Percent>> \in Seq(Int) /\ <<Out!Letter>> \in Seq(Int)
      BY DEF Out!Percent, Out!Letter
    <3>2. Out!Rep(Out!Letter, Head(fmt).arg) \in Seq(Int)
      BY <1>3, <2>1, LettersAre
    <3> QED BY <2>2, <3>1, <3>2
  <2>5. FormatInv'
    BY <1>3, <2>1, <2>3, <2>4, WritesOn
  <2> QED BY <2>1, <2>5
<1>6. ASSUME Out!Ends PROVE FormatInv' /\ UNCHANGED TableVars
  <2>1. fpc = "convert" /\ fmt' = <<>> /\ fpc' = "next" /\ wr' = wr /\ last' = last /\ UNCHANGED TableVars
    BY <1>6 DEF Out!Ends, Out!Converting
  <2>2. PICK s : s = IF Head(fmt).conv = "end" THEN <<>> ELSE <<Out!Brace, Out!Letter, Out!Letter>>
    OBVIOUS
  <2>3. Out!Write(s)
    BY <1>6, <2>2 DEF Out!Ends
  <2>4. s \in Seq(Int) /\ <<>> \in Seq(Items)
    BY <2>2 DEF Out!Brace, Out!Letter
  <2>5. FormatInv'
    BY <1>3, <2>1, <2>3, <2>4, WritesOn
  <2> QED BY <2>1, <2>5
<1>7. ASSUME Out!Other PROVE FormatInv' /\ UNCHANGED TableVars
  <2>1. fpc = "convert" /\ fmt' = Tail(fmt) /\ fpc' = "next" /\ wr' = wr /\ last' = last
         /\ UNCHANGED TableVars
    BY <1>7 DEF Out!Other, Out!Converting, Out!ToNext
  <2>2. PICK s : s = IF Out!Registered(Head(fmt).conv) THEN Out!Rep(Out!Letter, Head(fmt).arg)
                   ELSE <<Out!Percent, Out!Brace>>
    OBVIOUS
  <2>3. Out!Write(s)
    BY <1>7, <2>2 DEF Out!Other
  <2>4. s \in Seq(Int)
    <3>1. <<Out!Percent, Out!Brace>> \in Seq(Int)
      BY DEF Out!Percent, Out!Brace
    <3>2. Out!Rep(Out!Letter, Head(fmt).arg) \in Seq(Int)
      BY <1>3, <2>1, LettersAre
    <3> QED BY <2>2, <3>1, <3>2
  <2>5. FormatInv'
    BY <1>3, <2>1, <2>3, <2>4, WritesOn
  <2> QED BY <2>1, <2>5
<1> QED BY <1>1, <1>2, <1>4, <1>5, <1>6, <1>7

\* What is true of one registration.
RegOk(r, c, tab, count) ==
  /\ r \in [at : {"no", "fill", "full", "ok", "error"}, idx : Nat]
  /\ r.at = "no" => r.idx = 0
  /\ r.at \in {"fill", "ok"} => r.idx \in 1 .. TsMax /\ r.idx <= count
  /\ r.at \in {"full", "error"} => r.idx > TsMax
  /\ r.at = "full" => count >= TsMax
  /\ r.at = "error" => count >= TsMax
  /\ r.at = "ok" => tab[r.idx] = c

PlacesApart(r, s) == ~(r.at \in {"fill", "ok"} /\ r.idx = s.idx)

LEMMA TableParts ==
  TableInv <=>
    /\ tsCount \in Nat /\ ts \in [1 .. TsMax -> Procs \cup {"none"}]
    /\ reg \in [Procs -> [at : {"no", "fill", "full", "ok", "error"}, idx : Nat]]
    /\ \A c \in Procs : RegOk(reg[c], c, ts, tsCount)
    /\ \A c, e \in Procs : c # e => PlacesApart(reg[c], reg[e])
BY DEF TableInv, RegOk, PlacesApart

LEMMA TableSteps ==
  ASSUME Out!PrintfAssumption, TableInv, NEW c \in Procs, Out!Reserve(c) \/ Out!Fill(c) \/ Out!Full(c)
  PROVE  TableInv' /\ UNCHANGED FormatterVars
<1> USE DEF FormatterVars
<1>1. TsMax \in Nat /\ "none" \notin Procs
  BY DEF Out!PrintfAssumption
<1>2. /\ tsCount \in Nat /\ ts \in [1 .. TsMax -> Procs \cup {"none"}]
      /\ reg \in [Procs -> [at : {"no", "fill", "full", "ok", "error"}, idx : Nat]]
      /\ \A e \in Procs : RegOk(reg[e], e, ts, tsCount)
      /\ \A e, f \in Procs : e # f => PlacesApart(reg[e], reg[f])
  BY TableParts
<1>3. RegOk(reg[c], c, ts, tsCount)
  BY <1>2
<1>4. CASE Out!Reserve(c)
  <2>1. PICK n \in Nat : n = tsCount
    BY <1>2
  <2>2. PICK r : r = [at |-> IF n < TsMax THEN "fill" ELSE "full", idx |-> n + 1]
    OBVIOUS
  <2>3. tsCount' = n + 1 /\ reg' = [reg EXCEPT ![c] = r] /\ ts' = ts /\ UNCHANGED FormatterVars
    BY <1>4, <2>1, <2>2 DEF Out!Reserve, Out!RegVars
  <2>4. r \in [at : {"no", "fill", "full", "ok", "error"}, idx : Nat]
    BY <2>2
  <2>5. RegOk(r, c, ts, n + 1)
    BY <1>1, <2>2, <2>4 DEF RegOk
  <2>6. reg'[c] = r /\ \A e \in Procs : e # c => reg'[e] = reg[e]
    BY <1>2, <2>3
  <2>7. ASSUME NEW e \in Procs PROVE RegOk(reg'[e], e, ts, n + 1)
    <3>1. CASE e # c
      <4>1. RegOk(reg[e], e, ts, n)
        BY <1>2, <2>1
      <4> QED BY <1>1, <2>6, <3>1, <4>1 DEF RegOk
    <3> QED BY <2>5, <2>6, <3>1
  <2>8. ASSUME NEW e \in Procs, e # c PROVE PlacesApart(reg[e], r) /\ PlacesApart(r, reg[e])
    <3>1. RegOk(reg[e], e, ts, n)
      BY <1>2, <2>1
    <3> QED BY <1>1, <2>2, <3>1 DEF RegOk, PlacesApart
  <2>9. ASSUME NEW e \in Procs, NEW f \in Procs, e # f PROVE PlacesApart(reg'[e], reg'[f])
    <3>1. CASE e # c /\ f # c
      BY <1>2, <2>6, <2>9, <3>1
    <3>2. CASE e = c
      BY <2>6, <2>8, <2>9, <3>2
    <3>3. CASE f = c
      BY <2>6, <2>8, <2>9, <3>3
    <3> QED BY <3>1, <3>2, <3>3
  <2>10. n + 1 \in Nat /\ reg' \in [Procs -> [at : {"no", "fill", "full", "ok", "error"}, idx : Nat]]
    BY <1>2, <2>3, <2>4
  <2> QED BY <1>2, <2>3, <2>7, <2>9, <2>10 DEF TableInv, RegOk, PlacesApart
<1>5. CASE Out!Fill(c)
  <2>1. PICK i \in 1 .. TsMax : i = reg[c].idx /\ i <= tsCount
    BY <1>3, <1>5 DEF Out!Fill, RegOk
  <2>2. PICK r : r = [at |-> "ok", idx |-> i]
    OBVIOUS
  <2>3. /\ ts' = [ts EXCEPT ![i] = c] /\ reg' = [reg EXCEPT ![c] = r]
        /\ tsCount' = tsCount /\ UNCHANGED FormatterVars
    <3>1. reg' = [reg EXCEPT ![c].at = "ok"]
           /\ reg[c] \in [at : {"no", "fill", "full", "ok", "error"}, idx : Nat]
      BY <1>2, <1>5 DEF Out!Fill
    <3>2. [reg[c] EXCEPT !.at = "ok"] = r
      BY <2>1, <2>2, <3>1
    <3>3. reg' = [reg EXCEPT ![c] = r]
      BY <3>1, <3>2
    <3> QED BY <1>5, <2>1, <3>3 DEF Out!Fill, Out!RegVars
  <2>4. ts' \in [1 .. TsMax -> Procs \cup {"none"}] /\ ts'[i] = c
         /\ \A j \in 1 .. TsMax : j # i => ts'[j] = ts[j]
    BY <1>2, <2>3
  <2>5. r \in [at : {"no", "fill", "full", "ok", "error"}, idx : Nat]
    BY <1>1, <2>2
  <2>6. reg'[c] = r /\ \A e \in Procs : e # c => reg'[e] = reg[e]
    BY <1>2, <2>3
  <2>7. RegOk(r, c, ts', tsCount)
    BY <2>1, <2>2, <2>4, <2>5 DEF RegOk
  <2>8. ASSUME NEW e \in Procs, e # c PROVE PlacesApart(reg[e], reg[c]) /\ PlacesApart(reg[c], reg[e])
    BY <1>2, <2>8
  <2>9. reg[c].at = "fill" /\ reg[c].idx = i /\ r.at = "ok" /\ r.idx = i
    BY <1>5, <2>1, <2>2 DEF Out!Fill
  <2>10. ASSUME NEW e \in Procs, e # c PROVE PlacesApart(reg[e], r) /\ PlacesApart(r, reg[e])
    BY <2>8, <2>9, <2>10 DEF PlacesApart
  <2>11. ASSUME NEW e \in Procs PROVE RegOk(reg'[e], e, ts', tsCount)
    <3>1. CASE e # c
      <4>1. RegOk(reg[e], e, ts, tsCount) /\ reg'[e] = reg[e]
        BY <1>2, <2>6, <3>1
      <4>2. reg[e].idx # i
        \/ reg[e].at # "ok"
        BY <2>8, <2>9, <3>1 DEF PlacesApart
      <4>3. reg[e].at = "ok" => ts'[reg[e].idx] = e
        BY <2>4, <4>1, <4>2 DEF RegOk
      <4> QED BY <4>1, <4>3 DEF RegOk
    <3> QED BY <2>6, <2>7, <3>1
  <2>12. ASSUME NEW e \in Procs, NEW f \in Procs, e # f PROVE PlacesApart(reg'[e], reg'[f])
    <3>1. CASE e # c /\ f # c
      BY <1>2, <2>6, <2>12, <3>1
    <3>2. CASE e = c
      BY <2>6, <2>10, <2>12, <3>2
    <3>3. CASE f = c
      BY <2>6, <2>10, <2>12, <3>3
    <3> QED BY <3>1, <3>2, <3>3
  <2>13. reg' \in [Procs -> [at : {"no", "fill", "full", "ok", "error"}, idx : Nat]]
    BY <1>2, <2>3, <2>5
  <2> QED BY <1>2, <2>3, <2>4, <2>11, <2>12, <2>13 DEF TableInv, RegOk, PlacesApart
<1>6. CASE Out!Full(c)
  <2>1. reg[c].at = "full" /\ tsCount >= TsMax /\ reg[c].idx > TsMax
    BY <1>3, <1>6 DEF Out!Full, RegOk
  <2>2. PICK i \in Nat : i = reg[c].idx
    BY <1>2
  <2>3. PICK r : r = [at |-> "error", idx |-> i]
    OBVIOUS
  <2>4. tsCount' = TsMax /\ reg' = [reg EXCEPT ![c] = r] /\ ts' = ts /\ UNCHANGED FormatterVars
    <3>1. reg' = [reg EXCEPT ![c].at = "error"]
          /\ reg[c] \in [at : {"no", "fill", "full", "ok", "error"}, idx : Nat]
      BY <1>2, <1>6 DEF Out!Full
    <3>2. [reg[c] EXCEPT !.at = "error"] = r
      BY <2>2, <2>3, <3>1
    <3>3. reg' = [reg EXCEPT ![c] = r]
      BY <3>1, <3>2
    <3> QED BY <1>6, <3>3 DEF Out!Full, Out!RegVars
  <2>5. r \in [at : {"no", "fill", "full", "ok", "error"}, idx : Nat]
    BY <2>3
  <2>6. reg'[c] = r /\ \A e \in Procs : e # c => reg'[e] = reg[e]
    BY <1>2, <2>4
  <2>7. RegOk(r, c, ts, TsMax)
    BY <1>1, <2>1, <2>2, <2>3, <2>5 DEF RegOk
  <2>8. ASSUME NEW e \in Procs PROVE RegOk(reg'[e], e, ts, TsMax)
    <3>1. CASE e # c
      <4>1. RegOk(reg[e], e, ts, tsCount) /\ reg'[e] = reg[e]
        BY <1>2, <2>6, <3>1
      <4> QED BY <1>1, <1>2, <2>1, <4>1 DEF RegOk
    <3> QED BY <2>6, <2>7, <3>1
  <2>9. ASSUME NEW e \in Procs, e # c PROVE PlacesApart(reg[e], r) /\ PlacesApart(r, reg[e])
    <3>1. RegOk(reg[e], e, ts, tsCount)
      BY <1>2
    <3> QED BY <1>1, <2>1, <2>2, <2>3, <3>1 DEF RegOk, PlacesApart
  <2>10. ASSUME NEW e \in Procs, NEW f \in Procs, e # f PROVE PlacesApart(reg'[e], reg'[f])
    <3>1. CASE e # c /\ f # c
      BY <1>2, <2>6, <2>10, <3>1
    <3>2. CASE e = c
      BY <2>6, <2>9, <2>10, <3>2
    <3>3. CASE f = c
      BY <2>6, <2>9, <2>10, <3>3
    <3> QED BY <3>1, <3>2, <3>3
  <2>11. reg' \in [Procs -> [at : {"no", "fill", "full", "ok", "error"}, idx : Nat]]
    BY <1>2, <2>4, <2>5
  <2> QED BY <1>1, <1>2, <2>4, <2>8, <2>10, <2>11 DEF TableInv, RegOk, PlacesApart
<1> QED BY <1>4, <1>5, <1>6

\* What is written is what was asked for.
LEMMA InvShows ==
  ASSUME FormatInv, TableInv
  PROVE  Out!WrittenAsAsked
<1>1. /\ out = SubSeq(text, 1, Len(out))
      /\ fpc # "idle" => Len(out) = IF Len(text) < wr.max THEN Len(text) ELSE wr.max - 1
  <2>1. CASE wr.max > 1
    <3>1. Holds(out, text, wr.max)
      BY <2>1 DEF FormatInv
    <3>2. out \in Seq(Int) /\ text \in Seq(Int) /\ Len(out) \in Nat /\ Len(text) \in Nat /\ wr.max \in Nat
      BY <3>1, LenProperties DEF Holds
    <3>3. PICK n \in Nat : n = Len(out)
      BY <3>2
    <3>4. n <= Len(text) /\ \A j \in 1 .. n : out[j] = text[j]
      BY <3>1, <3>2, <3>3 DEF Holds
    <3>5. \A j \in 1 .. n : text[j] \in Int
      <4>1. ASSUME NEW j \in 1 .. n PROVE text[j] \in Int
        <5>1. j \in 1 .. Len(text)
          BY <3>2, <3>4
        <5> QED BY <3>2, <5>1, ElementOfSeq
      <4> QED BY <4>1
    <3>6. PICK s : s = SubSeq(text, 1, n)
      OBVIOUS
    <3>7. s \in Seq(Int) /\ Len(s) = n /\ \A j \in 1 .. n : s[j] = text[j]
      <4>1. /\ s \in Seq(Int) /\ Len(s) = (IF 1 <= n THEN n - 1 + 1 ELSE 0)
            /\ \A j \in 1 .. n - 1 + 1 : s[j] = text[1 + j - 1]
        BY <3>5, <3>6, SubSeqProperties
      <4>2. Len(s) = n
        BY <4>1
      <4>3. ASSUME NEW j \in 1 .. n PROVE s[j] = text[j]
        <5>1. j \in 1 .. n - 1 + 1 /\ 1 + j - 1 = j
          OBVIOUS
        <5> QED BY <4>1, <5>1
      <4> QED BY <4>1, <4>2, <4>3
    <3>8. out = s
      BY <3>2, <3>3, <3>4, <3>7, SeqEqual
    <3>9. Len(out) = IF Len(text) < wr.max THEN Len(text) ELSE wr.max - 1
      BY <3>1 DEF Holds
    <3> QED BY <3>3, <3>6, <3>8, <3>9
  <2>2. CASE ~(wr.max > 1)
    <3>1. out = <<>> /\ text = <<>> /\ fpc = "idle"
      BY <2>2 DEF FormatInv
    <3>2. <<>> = SubSeq(<<>>, 1, Len(<<>>))
      OBVIOUS
    <3> QED BY <3>1, <3>2
  <2> QED BY <2>1, <2>2
<1>2. ASSUME NEW c \in Procs, reg[c].at = "ok" PROVE Out!Registered(c)
  BY <1>2 DEF TableInv, Out!Registered
<1>3. Out!BufferAndTable
  BY <1>1, <1>2 DEF Out!BufferAndTable, TableInv
<1> QED BY <1>3 DEF Out!WrittenAsAsked, FormatInv

\* A number is written as its format says, whatever its size, flags and width, and within
\* result; the buffer holds the beginning of the text, whatever their lengths; and a
\* processor that was registered is found, whoever else registers at the time.
THEOREM FormatsAreWritten ==
  ASSUME Out!PrintfAssumption
  PROVE  Out!Spec => []WrittenAsAsked
<1>1. Out!Init => FormatInv /\ TableInv
  <2> SUFFICES ASSUME Out!Init PROVE FormatInv /\ TableInv
    OBVIOUS
  <2>1. wr \in Writers /\ wr.max = 0 /\ <<>> \in Seq(Items)
    BY DEF Out!Init, Out!NoFlags, Writers
  <2>2. FormatInv
    BY <2>1 DEF Out!Init, FormatInv, Out!NumberIsWritten
  <2>3. TableInv
    BY DEF Out!Init, TableInv
  <2> QED BY <2>2, <2>3
<1>2. FormatInv /\ TableInv /\ [Out!Next]_(Out!pfvars) => (FormatInv /\ TableInv)'
  <2> SUFFICES ASSUME FormatInv, TableInv, [Out!Next]_(Out!pfvars) PROVE FormatInv' /\ TableInv'
    OBVIOUS
  <2>1. CASE \/ \E f \in Out!BoundedSeq(Items, MaxItems), limit \in MaxLens : Out!Begin(f, limit)
             \/ Out!NextItem \/ Out!Number \/ Out!Chars \/ Out!Ends \/ Out!Other
    <3>1. FormatInv' /\ UNCHANGED TableVars
      BY <2>1, FormatSteps
    <3> QED BY <3>1 DEF TableInv, TableVars
  <2>2. CASE \E c \in Procs : Out!Reserve(c) \/ Out!Fill(c) \/ Out!Full(c)
    <3>1. TableInv' /\ UNCHANGED FormatterVars
      BY <2>2, TableSteps
    <3> QED BY <3>1 DEF FormatInv, FormatterVars, Out!NumberIsWritten
  <2>3. CASE UNCHANGED Out!pfvars
    BY <2>3 DEF Out!pfvars, FormatInv, TableInv, Out!NumberIsWritten
  <2> QED BY <2>1, <2>2, <2>3 DEF Out!Next
<1>3. FormatInv /\ TableInv => WrittenAsAsked
  BY InvShows DEF WrittenAsAsked
<1> QED BY <1>1, <1>2, <1>3, PTL DEF Out!Spec
=============================================================================
