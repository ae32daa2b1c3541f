---------------------------- MODULE RingBuffProofs ----------------------------
(***************************************************************************)
(* The ring buffer is a bounded queue, for any size that is a power of two *)
(* and more than one, any number of producers and items, and any index a   *)
(* run starts at: across the wrap of the indices, too.                     *)
(*                                                                         *)
(* The proof counts the indices without a wrap: a and r are what add_idx   *)
(* and rmv_idx would be, k[p] what pos is for producer p.  The numbers of  *)
(* the cells are then those of the Size indices from r on, each index's    *)
(* own or, once its item is published, one more.                           *)
(***************************************************************************)
EXTENDS RingBuff, FiniteSetTheorems, TLAPS

\* With one cell, a full one has the number of a free one.
TwoCells == SizeAssumption /\ Size > 1

-----------------------------------------------------------------------------
(* The inductive invariant.                                                *)

\* The producers that have not reserved an index yet, and those that have.
Before == {p \in Producers : pc[p] \in {"load", "seq", "cas"}}
Writing == {"store", "publish"}

\* The a-th index is added next, the r-th removed; fewer than MaxAdds were added.
Indices(s, a, r) ==
  /\ s <= r /\ r <= a /\ a <= r + Size
  /\ IsFiniteSet(Before) /\ a - s + Cardinality(Before) <= adds
  /\ addIdx = Word(a) /\ rmvIdx = Word(r)
  /\ Len(entries) = a - r

\* The item of index i, that of a producer that is writing it until it is ready.
EntryOf(i, r) == entries[i - r + 1]

FreeCells(a, r) == \A i \in a .. r + Size - 1 : seq[Cell(i)] = Word(i)

FullCells(a, r, k) ==
  \A i \in r .. a - 1 :
    LET e == EntryOf(i, r)
    IN /\ e.ready => seq[Cell(i)] = Word(i + 1) /\ cellMem[Cell(i)] = e.mem
       /\ ~e.ready => seq[Cell(i)] = Word(i) /\ pc[e.by] \in Writing /\ k[e.by] = i

\* A producer's pos was add_idx once; what is free for it stays so until it is used.
Adder(p, s, a, r, k) ==
  /\ pc[p] \in {"seq", "cas"} => k[p] \in s .. a
  /\ pc[p] \notin {"idle", "load"} => pos[p] = Word(k[p])
  /\ pc[p] # "idle" => mem[p] \in Mems
  /\ pc[p] = "cas" => k[p] < r + Size
  /\ pc[p] \in Writing =>
       /\ k[p] \in r .. a - 1
       /\ EntryOf(k[p], r) = [mem |-> mem[p], by |-> p, ready |-> FALSE]
  /\ pc[p] = "publish" => cellMem[Cell(k[p])] = mem[p]

Adding(s, a, r, k) == \A p \in Producers : Adder(p, s, a, r, k)

Removing ==
  /\ cpc # "idle" => entries # <<>> /\ entries[1].ready
  /\ cpc = "free" => cmem = entries[1].mem

Counted(s, a, r, k) ==
  Indices(s, a, r) /\ FreeCells(a, r) /\ FullCells(a, r, k) /\ Adding(s, a, r, k) /\ Removing

\* After AcMpscRingBuff_deinit nobody uses the buffer.
Quiet == cpc = "idle" /\ \A p \in Producers : pc[p] = "idle"

IInv ==
  /\ TypeOK
  /\ IF live THEN \E s \in Starts : \E a \in s .. s + MaxAdds : \E r \in s .. a :
                    \E k \in [Producers -> s .. s + MaxAdds] : Counted(s, a, r, k)
             ELSE Quiet

-----------------------------------------------------------------------------
(* Words, their differences, and the cells of indices.                     *)

LEMMA ModUnique ==
  ASSUME NEW a \in Int, NEW n \in Nat \ {0}, NEW q \in Int, NEW b \in 0 .. n - 1,
         a = q * n + b
  PROVE  a % n = b
<1>1. a % n \in 0 .. n - 1 /\ a \div n \in Int /\ a = n * (a \div n) + (a % n)
  OBVIOUS
<1>2. q - (a \div n) \in Int /\ n * (q - (a \div n)) = (a % n) - b
  BY <1>1
<1>3. q - (a \div n) = 0
  <2>1. CASE q - (a \div n) >= 1
    <3>1. n * (q - (a \div n)) >= n
      BY <1>2, <2>1
    <3> QED BY <1>1, <1>2, <3>1
  <2>2. CASE q - (a \div n) <= -1
    <3>1. n * (q - (a \div n)) <= -n
      BY <1>2, <2>2
    <3> QED BY <1>1, <1>2, <3>1
  <2> QED BY <2>1, <2>2, <1>2
<1> QED BY <1>1, <1>2, <1>3

\* A multiple of n more makes no difference.
LEMMA ModAdd ==
  ASSUME NEW a \in Int, NEW n \in Nat \ {0}, NEW q \in Int
  PROVE  (a + n * q) % n = a % n
<1>1. a % n \in 0 .. n - 1 /\ a \div n \in Int /\ a = n * (a \div n) + (a % n)
  OBVIOUS
<1>2. q + (a \div n) \in Int /\ a + n * q \in Int
      /\ a + n * q = (q + (a \div n)) * n + (a % n)
  <2>1. n * q \in Int /\ (a \div n) * n = n * (a \div n) /\ q * n = n * q
    BY <1>1
  <2>2. (q + (a \div n)) * n = q * n + (a \div n) * n
    BY <1>1
  <2> QED BY <1>1, <2>1, <2>2
<1> QED BY <1>1, <1>2, ModUnique

\* Numbers that agree modulo n and are closer than n are equal.
LEMMA ModInjective ==
  ASSUME NEW a \in Int, NEW b \in Int, NEW n \in Nat \ {0},
         a - b < n, b - a < n, a % n = b % n
  PROVE  a = b
<1> DEFINE d == (a \div n) - (b \div n)
<1>1. a % n \in 0 .. n - 1 /\ a \div n \in Int /\ a = n * (a \div n) + (a % n)
  OBVIOUS
<1>2. b % n \in 0 .. n - 1 /\ b \div n \in Int /\ b = n * (b \div n) + (b % n)
  OBVIOUS
<1>3. d \in Int /\ a - b = n * d
  BY <1>1, <1>2
<1>4. d < 1
  <2> SUFFICES ASSUME d >= 1 PROVE FALSE
    BY <1>3
  <2>1. n * d >= n
    BY <1>3
  <2> QED BY <1>3, <2>1
<1>5. d > -1
  <2> SUFFICES ASSUME d <= -1 PROVE FALSE
    BY <1>3
  <2>1. n * d <= -n
    BY <1>3
  <2> QED BY <1>3, <2>1
<1>6. d = 0
  BY <1>3, <1>4, <1>5
<1> QED BY <1>3, <1>6

LEMMA MultipleLess ==
  ASSUME NEW a \in Int, NEW n \in Nat \ {0}
  PROVE  \E m \in Int : a % n = a + n * m
<1>1. a % n \in 0 .. n - 1 /\ a \div n \in Int /\ a = n * (a \div n) + (a % n)
  OBVIOUS
<1>2. -(a \div n) \in Int /\ n * (-(a \div n)) = -(n * (a \div n)) /\ n * (a \div n) \in Int
  BY <1>1
<1>3. a % n = a + n * (-(a \div n))
  BY <1>1, <1>2
<1> QED BY <1>2, <1>3

LEMMA WordType ==
  ASSUME SizeAssumption, NEW i \in Int
  PROVE  Word(i) \in Words /\ Cell(i) \in Cells /\ Word(i) \in Int
BY DEF SizeAssumption, Word, Words, Cell, Cells

LEMMA WordInjective ==
  ASSUME SizeAssumption, NEW i \in Int, NEW j \in Int,
         i - j <= MaxAdds + Size, j - i <= MaxAdds + Size, Word(i) = Word(j)
  PROVE  i = j
<1>1. i - j < WordSize /\ j - i < WordSize
  BY DEF SizeAssumption
<1> QED BY <1>1, ModInjective DEF Word, SizeAssumption

LEMMA CellInjective ==
  ASSUME SizeAssumption, NEW i \in Int, NEW j \in Int,
         i - j < Size, j - i < Size, Cell(i) = Cell(j)
  PROVE  i = j
BY ModInjective DEF Cell, SizeAssumption

LEMMA WordAdd ==
  ASSUME SizeAssumption, NEW i \in Int, NEW j \in Int
  PROVE  Word(Word(i) + j) = Word(i + j)
<1>1. PICK m \in Int : i % WordSize = i + WordSize * m
  BY MultipleLess DEF SizeAssumption
<1> DEFINE b == i + j
<1>2. b \in Int /\ (i % WordSize) + j = b + WordSize * m
  BY <1>1 DEF SizeAssumption
<1>3. (b + WordSize * m) % WordSize = b % WordSize
  <2> HIDE DEF b
  <2> QED BY <1>2, ModAdd DEF SizeAssumption
<1> QED BY <1>2, <1>3 DEF Word

\* pos & mask is the cell of the index without a wrap.
LEMMA CellOfWord ==
  ASSUME SizeAssumption, NEW i \in Int
  PROVE  Cell(Word(i)) = Cell(i)
<1>1. PICK m \in Int : i % WordSize = i + WordSize * m
  BY MultipleLess DEF SizeAssumption
<1>2. PICK n \in Int : WordSize = Size * n
  BY DEF SizeAssumption
<1>3. PICK k \in Int : k = n * m /\ (Size * n) * m = Size * k
  BY <1>1, <1>2 DEF SizeAssumption
<1>4. i % WordSize = i + Size * k
  BY <1>1, <1>2, <1>3
<1>5. (i + Size * k) % Size = i % Size
  BY ModAdd DEF SizeAssumption
<1> QED BY <1>4, <1>5 DEF Word, Cell

\* A difference of two words is that of the indices, if those are close.
LEMMA DifIsDifference ==
  ASSUME SizeAssumption, NEW i \in Int, NEW j \in Int, NEW u \in Int, NEW v \in Int,
         Word(u) = Word(i), Word(v) = Word(j),
         i - j <= MaxAdds + Size, j - i <= MaxAdds + Size
  PROVE  Dif(u, v) = i - j
<1>1. Word(u - v) = Word(i - j)
  <2>1. Word(u + (-v)) = Word(i + (-v))
    <3>1. -v \in Int
      OBVIOUS
    <3>2. Word(Word(u) + (-v)) = Word(u + (-v))
      BY <3>1, WordAdd
    <3>3. Word(Word(i) + (-v)) = Word(i + (-v))
      BY <3>1, WordAdd
    <3> QED BY <3>2, <3>3
  <2>2. v + (i - v - j) = i - j /\ j + (i - v - j) = i - v
    OBVIOUS
  <2>3. Word(v + (i - v - j)) = Word(j + (i - v - j))
    <3>1. i - v - j \in Int
      OBVIOUS
    <3>2. Word(Word(v) + (i - v - j)) = Word(v + (i - v - j))
      BY <3>1, WordAdd
    <3>3. Word(Word(j) + (i - v - j)) = Word(j + (i - v - j))
      BY <3>1, WordAdd
    <3> QED BY <3>2, <3>3
  <2>4. u + (-v) = u - v /\ i + (-v) = i - v
    OBVIOUS
  <2> QED BY <2>1, <2>2, <2>3, <2>4
<1>2. CASE i >= j
  <2>1. (i - j) % WordSize = i - j
    BY <1>2 DEF SizeAssumption
  <2> QED BY <1>1, <2>1 DEF Dif, Signed, Word, SizeAssumption
<1>3. CASE i < j
  <2>1. (i - j) % WordSize = i - j + WordSize
    <3>1. i - j = (-1) * WordSize + (i - j + WordSize) /\ i - j + WordSize \in 0 .. WordSize - 1
      BY <1>3 DEF SizeAssumption
    <3> QED BY <3>1, ModUnique DEF SizeAssumption
  <2>2. ~(i - j + WordSize < WordSize \div 2)
    BY DEF SizeAssumption
  <2> QED BY <1>1, <2>1, <2>2 DEF Dif, Signed, Word, SizeAssumption
<1> QED BY <1>2, <1>3

\* Of Size indices in a row, one has the cell of j; it is j or Size away from it.
LEMMA IndexOfCell ==
  ASSUME SizeAssumption, NEW r \in Int, NEW j \in Int
  PROVE  \E i \in r .. r + Size - 1 :
           Cell(i) = Cell(j) /\ (i = j \/ i - j >= Size \/ j - i >= Size)
<1>0. PICK b \in Int : b = j - r
  OBVIOUS
<1>1. PICK m \in Int : b % Size = b + Size * m
  BY MultipleLess DEF SizeAssumption
<1> DEFINE i == j + Size * m
<1>2. i \in r .. r + Size - 1
  BY <1>0, <1>1 DEF SizeAssumption
<1>3. Cell(i) = Cell(j)
  BY ModAdd DEF SizeAssumption, Cell
<1>4. i = j \/ i - j >= Size \/ j - i >= Size
  BY <1>2, <1>3, CellInjective DEF SizeAssumption
<1> QED BY <1>2, <1>3, <1>4

-----------------------------------------------------------------------------
(* The steps.  s, a, r and k are as in the invariant; Size is more than 1. *)

LEMMA InitIInv == ASSUME TwoCells, Init PROVE IInv
<1> DEFINE k == [p \in Producers |-> addIdx]
<1>1. addIdx \in Starts /\ addIdx \in 0 .. WordSize - 1 /\ addIdx \in Int
  BY DEF Init, TwoCells, SizeAssumption
<1>2. Before = {}
  BY DEF Init, Before
<1>3. IsFiniteSet(Before) /\ Cardinality(Before) = 0
  BY <1>2, FS_EmptySet
<1>4. Word(addIdx) = addIdx
  BY <1>1 DEF Word, TwoCells, SizeAssumption
<1>5. Indices(addIdx, addIdx, addIdx)
  BY <1>1, <1>3, <1>4 DEF Indices, Init, TwoCells, SizeAssumption
<1>6. FreeCells(addIdx, addIdx)
  <2> SUFFICES ASSUME NEW i \in addIdx .. addIdx + Size - 1 PROVE seq[Cell(i)] = Word(i)
    BY DEF FreeCells
  <2>1. i \in Int /\ Cell(i) \in Cells /\ Cell(i) \in Int
    BY <1>1, WordType DEF TwoCells, Cells
  <2>2. seq[Cell(i)] = Word(addIdx + Cell(Cell(i) - addIdx))
    BY <2>1 DEF Init
  <2>3. Cell(Cell(i) - addIdx) = i - addIdx
    <3>1. PICK m \in Int : i % Size = i + Size * m
      BY <2>1, MultipleLess DEF TwoCells, SizeAssumption
    <3>2. PICK d \in Int : d = i - addIdx
      BY <1>1, <2>1
    <3>3. Cell(i) - addIdx = d + Size * m
      BY <1>1, <2>1, <3>1, <3>2 DEF Cell, TwoCells, SizeAssumption
    <3>4. (d + Size * m) % Size = d % Size
      BY <3>1, <3>2, ModAdd DEF TwoCells, SizeAssumption
    <3>5. d % Size = d
      BY <1>1, <3>2 DEF TwoCells, SizeAssumption
    <3> QED BY <3>2, <3>3, <3>4, <3>5 DEF Cell
  <2> QED BY <1>1, <2>1, <2>2, <2>3
<1>7. FullCells(addIdx, addIdx, k) /\ Adding(addIdx, addIdx, addIdx, k) /\ Removing
  BY <1>1 DEF FullCells, Adding, Adder, Removing, Init, Writing
<1>8. TypeOK
  <2>1. seq \in [Cells -> Words]
    <3> SUFFICES ASSUME NEW c \in Cells PROVE Word(addIdx + Cell(c - addIdx)) \in Words
      BY DEF Init
    <3>1. c \in Int /\ Cell(c - addIdx) \in Int
      BY <1>1, WordType DEF Cells, TwoCells
    <3> QED BY <1>1, <3>1, WordType DEF TwoCells
  <2>2. addIdx \in Words /\ rmvIdx \in Words
    BY <1>1 DEF Words, Init
  <2>3. entries \in Seq([mem : Mems, by : Producers, ready : BOOLEAN])
    BY DEF Init
  <2>4. adds \in 0 .. MaxAdds
    BY DEF Init, TwoCells, SizeAssumption
  <2> QED BY <2>1, <2>2, <2>3, <2>4 DEF TypeOK, Init
<1>9. k \in [Producers -> addIdx .. addIdx + MaxAdds] /\ addIdx \in addIdx .. addIdx + MaxAdds
      /\ addIdx \in addIdx .. addIdx
  BY <1>1 DEF TwoCells, SizeAssumption
<1>10. Counted(addIdx, addIdx, addIdx, k)
  BY <1>5, <1>6, <1>7 DEF Counted
<1> HIDE DEF k
<1> QED BY <1>1, <1>8, <1>9, <1>10 DEF IInv, Init

LEMMA SeqElement ==
  ASSUME NEW T, NEW q \in Seq(T), NEW j \in 1 .. Len(q)
  PROVE  j \in DOMAIN q /\ q[j] \in T
OBVIOUS

\* What the ranges in the invariant say.
LEMMA CountedTypes ==
  ASSUME TwoCells, TypeOK, NEW s \in Starts, NEW a \in s .. s + MaxAdds, NEW r \in s .. a,
         NEW k \in [Producers -> s .. s + MaxAdds], Counted(s, a, r, k)
  PROVE  /\ s \in Int /\ a \in Int /\ r \in Int /\ \A p \in Producers : k[p] \in Int
         /\ \A i \in r .. a - 1 : /\ i - r + 1 \in DOMAIN entries
                                  /\ EntryOf(i, r) = entries[i - r + 1]
                                  /\ EntryOf(i, r) \in [mem : Mems, by : Producers, ready : BOOLEAN]
         /\ entries # <<>> => r < a /\ EntryOf(r, r) = entries[1]
         /\ Len(entries) = a - r /\ a - r <= Size /\ Size \in Nat /\ MaxAdds \in Nat
<1>1. s \in Int /\ a \in Int /\ r \in Int
  BY DEF TwoCells, SizeAssumption
<1>2. Len(entries) = a - r /\ a - r <= Size
  BY <1>1 DEF Counted, Indices, TwoCells, SizeAssumption
<1>3. entries \in Seq([mem : Mems, by : Producers, ready : BOOLEAN])
  BY DEF TypeOK
<1>4. \A p \in Producers : k[p] \in Int
  BY <1>1
<1>5. ASSUME NEW i \in r .. a - 1
      PROVE  /\ i - r + 1 \in DOMAIN entries /\ EntryOf(i, r) = entries[i - r + 1]
             /\ EntryOf(i, r) \in [mem : Mems, by : Producers, ready : BOOLEAN]
  <2>1. i - r + 1 \in 1 .. Len(entries)
    BY <1>1, <1>2
  <2>2. entries[i - r + 1] \in [mem : Mems, by : Producers, ready : BOOLEAN]
        /\ i - r + 1 \in DOMAIN entries
    BY <2>1, <1>3, SeqElement
  <2> QED BY <2>2 DEF EntryOf
<1>6. entries # <<>> => r < a /\ EntryOf(r, r) = entries[1]
  <2>1. r - r + 1 = 1
    BY <1>1
  <2> QED BY <1>1, <1>2, <1>3, <2>1 DEF EntryOf
<1>7. Size \in Nat /\ MaxAdds \in Nat
  BY DEF TwoCells, SizeAssumption
<1> QED BY <1>1, <1>2, <1>4, <1>5, <1>6, <1>7

\* Before does not grow but by an add that is counted.
LEMMA BeforeShrinks ==
  ASSUME IsFiniteSet(Before), Before' \subseteq Before
  PROVE  IsFiniteSet(Before') /\ Cardinality(Before') <= Cardinality(Before)
         /\ Cardinality(Before) \in Nat /\ Cardinality(Before') \in Nat
BY FS_Subset, FS_CardinalityType

\* A step of producer p that leaves the indices, the cells and the items alone:
\* what has to be shown is p's own part, and that adds still bounds the indices.
BuffKept == UNCHANGED <<addIdx, rmvIdx, seq, cellMem, live, entries>>

OthersKept(p, k, kp) ==
  /\ \A q \in Producers \ {p} :
       pc'[q] = pc[q] /\ mem'[q] = mem[q] /\ pos'[q] = pos[q] /\ kp[q] = k[q]
  /\ UNCHANGED consVars

LEMMA LocalStep ==
  ASSUME TwoCells, TypeOK, NEW s \in Starts, NEW a \in s .. s + MaxAdds, NEW r \in s .. a,
         NEW k \in [Producers -> s .. s + MaxAdds], Counted(s, a, r, k),
         NEW kp \in [Producers -> s .. s + MaxAdds],
         NEW p \in Producers, BuffKept, OthersKept(p, k, kp), pc[p] \notin Writing,
         Adder(p, s, a, r, kp)', IsFiniteSet(Before'),
         a - s + Cardinality(Before') <= adds'
  PROVE  Counted(s, a, r, kp)'
<1>1. Indices(s, a, r)'
  BY DEF Counted, Indices, BuffKept
<1>2. FreeCells(a, r)' /\ Removing'
  BY DEF Counted, FreeCells, Removing, BuffKept, OthersKept, consVars
<1>3. FullCells(a, r, kp)'
  <2> SUFFICES ASSUME NEW i \in r .. a - 1
               PROVE  LET e == EntryOf(i, r)
                      IN /\ e.ready => seq[Cell(i)] = Word(i + 1) /\ cellMem[Cell(i)] = e.mem
                         /\ ~e.ready => seq[Cell(i)] = Word(i) /\ pc'[e.by] \in Writing /\ kp[e.by] = i
    BY DEF FullCells, EntryOf, BuffKept
  <2> DEFINE e == EntryOf(i, r)
  <2>1. e.by \in Producers
    BY CountedTypes
  <2>2. /\ e.ready => seq[Cell(i)] = Word(i + 1) /\ cellMem[Cell(i)] = e.mem
        /\ ~e.ready => seq[Cell(i)] = Word(i) /\ pc[e.by] \in Writing /\ k[e.by] = i
    BY DEF Counted, FullCells
  <2>3. ~e.ready => pc'[e.by] = pc[e.by] /\ kp[e.by] = k[e.by]
    BY <2>1, <2>2 DEF OthersKept
  <2> QED BY <2>2, <2>3
<1>4. Adding(s, a, r, kp)'
  <2> SUFFICES ASSUME NEW q \in Producers, q # p PROVE Adder(q, s, a, r, kp)'
    BY DEF Adding
  <2>1. Adder(q, s, a, r, k)
    BY DEF Counted, Adding
  <2> QED BY <2>1 DEF Adder, OthersKept, BuffKept, EntryOf
<1> QED BY <1>1, <1>2, <1>3, <1>4 DEF Counted

LEMMA StartStep ==
  ASSUME TwoCells, TypeOK, NEW s \in Starts, NEW a \in s .. s + MaxAdds, NEW r \in s .. a,
         NEW k \in [Producers -> s .. s + MaxAdds], Counted(s, a, r, k),
         NEW p \in Producers, NEW m \in Mems, AddStart(p, m)
  PROVE  Counted(s, a, r, k)'
<1>1. s \in Int /\ a \in Int /\ r \in Int /\ adds \in Int
  BY CountedTypes DEF TypeOK
<1>2. Before' = Before \cup {p} /\ p \notin Before
  BY DEF Before, AddStart, TypeOK
<1>3. IsFiniteSet(Before') /\ Cardinality(Before') = Cardinality(Before) + 1
      /\ Cardinality(Before) \in Nat
  BY <1>2, FS_AddElement, FS_CardinalityType DEF Counted, Indices
<1>4. a - s + Cardinality(Before') <= adds'
  BY <1>1, <1>3 DEF Counted, Indices, AddStart
<1>5. pc[p] = "idle" /\ pc'[p] = "load" /\ mem'[p] = m
  BY DEF AddStart, TypeOK
<1>6. Adder(p, s, a, r, k)'
  BY <1>5 DEF Adder, Writing
<1>7. BuffKept /\ OthersKept(p, k, k)
  BY DEF BuffKept, OthersKept, AddStart, bufVars, consVars, TypeOK
<1> QED BY <1>3, <1>4, <1>5, <1>6, <1>7, LocalStep DEF Writing

LEMMA LoadStep ==
  ASSUME TwoCells, TypeOK, NEW s \in Starts, NEW a \in s .. s + MaxAdds, NEW r \in s .. a,
         NEW k \in [Producers -> s .. s + MaxAdds], Counted(s, a, r, k),
         NEW p \in Producers, AddLoad(p) \/ AddCasFails(p)
  PROVE  Counted(s, a, r, [k EXCEPT ![p] = a])'
<1> DEFINE kp == [k EXCEPT ![p] = a]
<1>1. s \in Int /\ a \in Int /\ r \in Int /\ adds \in Int
  BY CountedTypes DEF TypeOK
<1>2. Before' \subseteq Before /\ adds' = adds
  BY DEF Before, AddLoad, AddCasFails, TypeOK
<1>3. IsFiniteSet(Before') /\ a - s + Cardinality(Before') <= adds'
  BY <1>1, <1>2, BeforeShrinks DEF Counted, Indices
<1>4. pc[p] \in {"load", "cas"} /\ pc'[p] = "seq" /\ mem'[p] = mem[p] /\ pos'[p] = addIdx
  BY DEF AddLoad, AddCasFails, TypeOK
<1>5. kp[p] = a /\ kp \in [Producers -> s .. s + MaxAdds]
  OBVIOUS
<1>6. Adder(p, s, a, r, kp)'
  <2>1. Adder(p, s, a, r, k) /\ addIdx = Word(a) /\ s <= a
    BY <1>1 DEF Counted, Adding, Indices
  <2> HIDE DEF kp
  <2> QED BY <1>1, <1>4, <1>5, <2>1 DEF Adder, Writing
<1>7. BuffKept /\ OthersKept(p, k, kp)
  BY DEF BuffKept, OthersKept, AddLoad, AddCasFails, bufVars, consVars, TypeOK
<1> HIDE DEF kp
<1>8. Counted(s, a, r, kp)'
  BY <1>3, <1>4, <1>5, <1>6, <1>7, LocalStep DEF Writing
<1> QED BY <1>8 DEF kp

\* The number of the cell of a producer's index, and what its difference says.
LEMMA SeqOfCell ==
  ASSUME TwoCells, TypeOK, NEW s \in Starts, NEW a \in s .. s + MaxAdds, NEW r \in s .. a,
         NEW k \in [Producers -> s .. s + MaxAdds], Counted(s, a, r, k),
         NEW p \in Producers, pc[p] = "seq"
  PROVE  LET d == Dif(seq[Cell(pos[p])], pos[p])
         IN /\ d \in Int
            /\ d = 0 => k[p] < r + Size
            /\ d < 0 => a = r + Size
<1>1. /\ s \in Int /\ a \in Int /\ r \in Int /\ k[p] \in Int
      /\ a - r <= Size /\ Size \in Nat /\ MaxAdds \in Nat /\ SizeAssumption /\ Size > 1
  BY CountedTypes DEF TwoCells
<1>2. k[p] \in s .. a /\ pos[p] = Word(k[p])
  BY DEF Counted, Adding, Adder
<1>3. PICK i \in r .. r + Size - 1 :
        Cell(i) = Cell(k[p]) /\ (i = k[p] \/ i - k[p] >= Size \/ k[p] - i >= Size)
  BY <1>1, IndexOfCell
<1>4. i \in Int
  BY <1>1
<1>5. PICK v \in Int : v \in {i, i + 1} /\ seq[Cell(i)] = Word(v)
  <2>1. CASE i \in a .. r + Size - 1
    BY <1>4, <2>1 DEF Counted, FreeCells
  <2>2. CASE i \in r .. a - 1
    BY <1>4, <2>2 DEF Counted, FullCells
  <2> QED BY <1>1, <1>3, <2>1, <2>2
<1>6. Cell(pos[p]) = Cell(i) /\ pos[p] \in Int /\ Word(pos[p]) = Word(k[p])
  <2>1. Word(Word(k[p]) + 0) = Word(k[p] + 0)
    BY <1>1, WordAdd
  <2> QED BY <1>1, <1>2, <1>3, <2>1, CellOfWord, WordType
<1>7. Word(v) \in Int /\ Word(Word(v)) = Word(v)
  <2>1. Word(Word(v) + 0) = Word(v + 0)
    BY <1>1, WordAdd
  <2> QED BY <1>1, <2>1, WordType
<1>8. Dif(seq[Cell(pos[p])], pos[p]) = v - k[p]
  <2>1. v - k[p] <= MaxAdds + Size /\ k[p] - v <= MaxAdds + Size
    BY <1>1, <1>2, <1>3, <1>4, <1>5
  <2>2. seq[Cell(pos[p])] = Word(v)
    BY <1>5, <1>6
  <2> QED BY <1>1, <1>5, <1>6, <1>7, <2>1, <2>2, DifIsDifference
<1>9. v - k[p] = 0 => k[p] < r + Size
  BY <1>1, <1>3, <1>4, <1>5
<1>10. v - k[p] < 0 => a = r + Size
  BY <1>1, <1>2, <1>3, <1>4, <1>5
<1> QED BY <1>1, <1>5, <1>8, <1>9, <1>10

LEMMA SeqStep ==
  ASSUME TwoCells, TypeOK, NEW s \in Starts, NEW a \in s .. s + MaxAdds, NEW r \in s .. a,
         NEW k \in [Producers -> s .. s + MaxAdds], Counted(s, a, r, k),
         NEW p \in Producers, AddSeq(p)
  PROVE  Counted(s, a, r, k)'
<1> DEFINE d == Dif(seq[Cell(pos[p])], pos[p])
<1>1. s \in Int /\ a \in Int /\ r \in Int /\ adds \in Int
  BY CountedTypes DEF TypeOK
<1>2. Before' \subseteq Before /\ adds' = adds
  BY DEF Before, AddSeq, TypeOK
<1>3. IsFiniteSet(Before') /\ a - s + Cardinality(Before') <= adds'
  BY <1>1, <1>2, BeforeShrinks DEF Counted, Indices
<1>4. /\ pc[p] = "seq" /\ pc'[p] = Turn(d)
      /\ Turn(d) # "idle" => mem'[p] = mem[p]
      /\ Turn(d) = "cas" => pos'[p] = pos[p]
  BY DEF AddSeq, TypeOK
<1>5. Turn(d) \in {"cas", "idle", "load"} /\ (Turn(d) = "cas" => d = 0)
  BY DEF Turn
<1>6. d = 0 => k[p] < r + Size
  BY <1>4, SeqOfCell
<1>7. Adder(p, s, a, r, k)'
  <2>1. Adder(p, s, a, r, k)
    BY DEF Counted, Adding
  <2> HIDE DEF d
  <2> QED BY <1>4, <1>5, <1>6, <2>1 DEF Adder, Writing
<1>8. BuffKept /\ OthersKept(p, k, k)
  BY DEF BuffKept, OthersKept, AddSeq, bufVars, consVars, TypeOK
<1> QED BY <1>3, <1>4, <1>7, <1>8, LocalStep DEF Writing

\* The cell of a producer that is writing is that of its own index.
LEMMA OwnCell ==
  ASSUME TwoCells, TypeOK, NEW s \in Starts, NEW a \in s .. s + MaxAdds, NEW r \in s .. a,
         NEW k \in [Producers -> s .. s + MaxAdds], Counted(s, a, r, k),
         NEW p \in Producers, pc[p] \in Writing
  PROVE  /\ k[p] \in r .. a - 1 /\ EntryOf(k[p], r) = [mem |-> mem[p], by |-> p, ready |-> FALSE]
         /\ Cell(pos[p]) = Cell(k[p]) /\ Cell(k[p]) \in Cells /\ mem[p] \in Mems
         /\ pos[p] \in Int /\ Word(pos[p] + 1) = Word(k[p] + 1)
         /\ \A i \in r .. r + Size - 1 : i # k[p] => Cell(i) \in Cells /\ Cell(i) # Cell(k[p])
<1>1. SizeAssumption /\ r \in Int /\ a \in Int /\ Size \in Nat /\ a - r <= Size /\ k[p] \in Int
  BY CountedTypes DEF TwoCells
<1>2. /\ k[p] \in r .. a - 1 /\ pos[p] = Word(k[p]) /\ mem[p] \in Mems
      /\ EntryOf(k[p], r) = [mem |-> mem[p], by |-> p, ready |-> FALSE]
  BY DEF Counted, Adding, Adder, Writing
<1>3. Cell(pos[p]) = Cell(k[p]) /\ Cell(k[p]) \in Cells /\ pos[p] \in Int
      /\ Word(pos[p] + 1) = Word(k[p] + 1)
  BY <1>1, <1>2, CellOfWord, WordType, WordAdd
<1>4. ASSUME NEW i \in r .. r + Size - 1, i # k[p]
      PROVE  Cell(i) \in Cells /\ Cell(i) # Cell(k[p])
  <2>1. i \in Int /\ i - k[p] < Size /\ k[p] - i < Size
    BY <1>1, <1>2
  <2> QED BY <1>1, <1>4, <2>1, CellInjective, WordType
<1> QED BY <1>2, <1>3, <1>4

LEMMA CasStep ==
  ASSUME TwoCells, TypeOK, NEW s \in Starts, NEW a \in s .. s + MaxAdds, NEW r \in s .. a,
         NEW k \in [Producers -> s .. s + MaxAdds], Counted(s, a, r, k),
         NEW p \in Producers, AddCas(p)
  PROVE  a + 1 \in s .. s + MaxAdds /\ a < r + Size /\ Counted(s, a + 1, r, k)'
<1> DEFINE e0 == [mem |-> mem[p], by |-> p, ready |-> FALSE]
<1>1. /\ s \in Int /\ a \in Int /\ r \in Int /\ adds \in Int /\ k[p] \in Int
      /\ Size \in Nat /\ MaxAdds \in Nat /\ SizeAssumption /\ a - r <= Size /\ s <= r /\ r <= a
      /\ Len(entries) = a - r /\ adds <= MaxAdds
  BY CountedTypes DEF TypeOK, TwoCells
<1>2. k[p] \in s .. a /\ pos[p] = Word(k[p]) /\ mem[p] \in Mems /\ k[p] < r + Size /\ pc[p] = "cas"
  BY DEF Counted, Adding, Adder, AddCas
<1>3. k[p] = a
  <2>1. Word(k[p]) = Word(a)
    BY <1>2 DEF AddCas, AddIdxIs, Counted, Indices
  <2>2. k[p] - a <= MaxAdds + Size /\ a - k[p] <= MaxAdds + Size
    <3>1. k[p] >= s /\ k[p] <= a /\ a <= s + MaxAdds
      BY <1>1, <1>2
    <3> QED BY <1>1, <3>1
  <2> QED BY <1>1, <2>1, <2>2, WordInjective
<1>4. /\ Before' = Before \ {p} /\ p \in Before /\ IsFiniteSet(Before')
      /\ Cardinality(Before') = Cardinality(Before) - 1
      /\ Cardinality(Before) \in Nat /\ Cardinality(Before') \in Nat
  <2>1. Before' = Before \ {p} /\ p \in Before
    BY DEF Before, AddCas, TypeOK
  <2>2. IsFiniteSet(Before)
    BY DEF Counted, Indices
  <2> QED BY <2>1, <2>2, FS_RemoveElement, FS_CardinalityType
<1>5. a - s + Cardinality(Before) <= adds /\ adds' = adds
  BY DEF Counted, Indices, AddCas
<1>6. a + 1 \in s .. s + MaxAdds /\ a + 1 - s + Cardinality(Before') <= adds'
  <2>1. PICK b, n \in Nat : b = Cardinality(Before) /\ n = Cardinality(Before')
    BY <1>4
  <2>2. n = b - 1 /\ a - s + b <= adds
    BY <1>4, <1>5, <2>1
  <2>3. n >= 0 /\ a + 1 - s + n <= adds
    BY <1>1, <2>1, <2>2
  <2>4. a + 1 <= s + MaxAdds /\ s <= a + 1
    BY <1>1, <2>1, <2>3
  <2> QED BY <1>1, <1>5, <2>1, <2>3, <2>4
<1>7. /\ entries' = Append(entries, e0) /\ Len(entries') = a + 1 - r
      /\ \A i \in r .. a - 1 : EntryOf(i, r)' = EntryOf(i, r)
      /\ EntryOf(a, r)' = e0
  <2>1. entries \in Seq([mem : Mems, by : Producers, ready : BOOLEAN])
    BY DEF TypeOK
  <2>2. entries' = Append(entries, e0)
    BY DEF AddCas
  <2> HIDE DEF e0
  <2>3. Len(entries') = a + 1 - r
    BY <1>1, <2>1, <2>2
  <2>4. ASSUME NEW i \in r .. a - 1 PROVE EntryOf(i, r)' = EntryOf(i, r)
    <3>1. i - r + 1 \in 1 .. Len(entries)
      BY <1>1
    <3>2. entries'[i - r + 1] = entries[i - r + 1]
      BY <3>1, <2>1, <2>2
    <3> QED BY <3>2 DEF EntryOf
  <2>5. EntryOf(a, r)' = e0
    <3>1. a - r + 1 = Len(entries) + 1
      BY <1>1
    <3>2. entries'[Len(entries) + 1] = e0
      BY <2>1, <2>2
    <3> QED BY <3>1, <3>2 DEF EntryOf
  <2> QED BY <2>2, <2>3, <2>4, <2>5
<1>8. /\ UNCHANGED <<rmvIdx, seq, cellMem, mem, pos, cpc, cmem>> /\ addIdx' = Word(a + 1)
      /\ pc'[p] = "store" /\ \A q \in Producers \ {p} : pc'[q] = pc[q]
  <2>1. addIdx' = Word(Word(k[p]) + 1)
    BY <1>2 DEF AddCas
  <2> QED BY <1>1, <1>3, <2>1, WordAdd DEF AddCas, consVars, TypeOK
<1> HIDE DEF e0
<1>9. Indices(s, a + 1, r)'
  <2>1. r <= a + 1 /\ a + 1 <= r + Size
    BY <1>1, <1>2, <1>3
  <2> QED BY <1>1, <1>4, <1>6, <1>7, <1>8, <2>1 DEF Indices, Counted
<1>10. FreeCells(a + 1, r)'
  <2> SUFFICES ASSUME NEW i \in a + 1 .. r + Size - 1 PROVE seq'[Cell(i)] = Word(i)
    BY DEF FreeCells
  <2>1. i \in a .. r + Size - 1
    BY <1>1
  <2> QED BY <1>8, <2>1 DEF Counted, FreeCells
<1>11. FullCells(a + 1, r, k)'
  <2> SUFFICES ASSUME NEW i \in r .. a
               PROVE  LET e == EntryOf(i, r)'
                      IN /\ e.ready => seq'[Cell(i)] = Word(i + 1) /\ cellMem'[Cell(i)] = e.mem
                         /\ ~e.ready => seq'[Cell(i)] = Word(i) /\ pc'[e.by] \in Writing /\ k[e.by] = i
    <3>1. a + 1 - 1 = a
      BY <1>1
    <3> QED BY <3>1 DEF FullCells
  <2>1. CASE i \in r .. a - 1
    <3> DEFINE e == EntryOf(i, r)
    <3>1. e.by \in Producers
      BY <2>1, CountedTypes
    <3>2. /\ e.ready => seq[Cell(i)] = Word(i + 1) /\ cellMem[Cell(i)] = e.mem
          /\ ~e.ready => seq[Cell(i)] = Word(i) /\ pc[e.by] \in Writing /\ k[e.by] = i
      BY <2>1 DEF Counted, FullCells
    <3>3. ~e.ready => pc'[e.by] = pc[e.by]
      BY <1>2, <1>8, <3>1, <3>2 DEF Writing
    <3>4. EntryOf(i, r)' = e
      BY <1>7, <2>1
    <3> HIDE DEF e
    <3> QED BY <1>8, <3>2, <3>3, <3>4
  <2>2. CASE i = a
    <3>1. a \in a .. r + Size - 1
      <4>1. a < r + Size
        BY <1>2, <1>3
      <4> QED BY <1>1, <4>1
    <3>2. seq[Cell(a)] = Word(a)
      BY <3>1 DEF Counted, FreeCells
    <3>3. EntryOf(a, r)'.ready = FALSE /\ EntryOf(a, r)'.by = p
      BY <1>7 DEF e0
    <3> QED BY <1>3, <1>8, <2>2, <3>2, <3>3 DEF Writing
  <2> QED BY <1>1, <2>1, <2>2
<1>12. Adding(s, a + 1, r, k)'
  <2> SUFFICES ASSUME NEW q \in Producers PROVE Adder(q, s, a + 1, r, k)'
    BY DEF Adding
  <2>0. Adder(q, s, a, r, k)
    BY DEF Counted, Adding
  <2>1. CASE q = p
    <3>1. a \in r .. a + 1 - 1
      BY <1>1
    <3> QED BY <1>2, <1>3, <1>7, <1>8, <2>1, <3>1 DEF Adder, Writing, e0
  <2>2. CASE q # p
    <3>1. pc'[q] \in {"seq", "cas"} => k[q] \in s .. a + 1
      BY <1>1, <1>8, <2>0, <2>2 DEF Adder
    <3>2. pc'[q] \in Writing => k[q] \in r .. a + 1 - 1 /\ EntryOf(k[q], r)' = EntryOf(k[q], r)
      <4> SUFFICES ASSUME pc'[q] \in Writing
                   PROVE  k[q] \in r .. a + 1 - 1 /\ EntryOf(k[q], r)' = EntryOf(k[q], r)
        OBVIOUS
      <4>1. k[q] \in r .. a - 1
        BY <1>8, <2>0, <2>2 DEF Adder
      <4>2. k[q] \in r .. a + 1 - 1
        BY <1>1, <4>1
      <4> QED BY <1>7, <4>1, <4>2
    <3> QED BY <1>8, <2>0, <2>2, <3>1, <3>2 DEF Adder
  <2> QED BY <2>1, <2>2
<1>13. Removing'
  <2> SUFFICES ASSUME cpc # "idle"
               PROVE  entries' # <<>> /\ entries'[1] = entries[1]
    BY <1>8 DEF Removing, Counted
  <2>1. entries # <<>>
    BY DEF Counted, Removing
  <2>2. entries \in Seq([mem : Mems, by : Producers, ready : BOOLEAN])
    BY DEF TypeOK
  <2> QED BY <1>7, <2>1, <2>2
<1> QED BY <1>1, <1>2, <1>3, <1>6, <1>9, <1>10, <1>11, <1>12, <1>13 DEF Counted

LEMMA StoreStep ==
  ASSUME TwoCells, TypeOK, NEW s \in Starts, NEW a \in s .. s + MaxAdds, NEW r \in s .. a,
         NEW k \in [Producers -> s .. s + MaxAdds], Counted(s, a, r, k),
         NEW p \in Producers, AddStore(p)
  PROVE  Counted(s, a, r, k)'
<1>1. /\ s \in Int /\ a \in Int /\ r \in Int /\ adds \in Int /\ Size \in Nat /\ a - r <= Size
  BY CountedTypes DEF TypeOK
<1>2. /\ pc[p] = "store" /\ pc'[p] = "publish" /\ \A q \in Producers \ {p} : pc'[q] = pc[q]
      /\ UNCHANGED <<addIdx, rmvIdx, seq, live, mem, pos, res, consVars, adds, entries>>
  BY DEF AddStore, TypeOK
<1>3. /\ k[p] \in r .. a - 1 /\ EntryOf(k[p], r) = [mem |-> mem[p], by |-> p, ready |-> FALSE]
      /\ Cell(pos[p]) = Cell(k[p]) /\ Cell(k[p]) \in Cells
      /\ \A i \in r .. r + Size - 1 : i # k[p] => Cell(i) \in Cells /\ Cell(i) # Cell(k[p])
  <2>1. pc[p] \in Writing
    BY <1>2 DEF Writing
  <2> QED BY <2>1, OwnCell
<1>4. /\ cellMem'[Cell(k[p])] = mem[p]
      /\ \A c \in Cells : c # Cell(k[p]) => cellMem'[c] = cellMem[c]
  BY <1>3 DEF AddStore, TypeOK
<1>5. Indices(s, a, r)'
  <2>1. Before' = Before
    BY <1>2 DEF Before
  <2> QED BY <1>2, <2>1 DEF Counted, Indices
<1>6. FreeCells(a, r)' /\ Removing'
  BY <1>2 DEF Counted, FreeCells, Removing, consVars
<1>7. \A i \in r .. a - 1 : i # k[p] => cellMem'[Cell(i)] = cellMem[Cell(i)]
  <2>1. \A i \in r .. a - 1 : i \in r .. r + Size - 1
    BY <1>1
  <2> QED BY <1>3, <1>4, <2>1
<1>8. FullCells(a, r, k)'
  <2> SUFFICES ASSUME NEW i \in r .. a - 1
               PROVE  LET e == EntryOf(i, r)
                      IN /\ e.ready => seq'[Cell(i)] = Word(i + 1) /\ cellMem'[Cell(i)] = e.mem
                         /\ ~e.ready => seq'[Cell(i)] = Word(i) /\ pc'[e.by] \in Writing /\ k[e.by] = i
    BY <1>2 DEF FullCells, EntryOf
  <2> DEFINE e == EntryOf(i, r)
  <2>1. e.by \in Producers
    BY CountedTypes
  <2>2. /\ e.ready => seq[Cell(i)] = Word(i + 1) /\ cellMem[Cell(i)] = e.mem
        /\ ~e.ready => seq[Cell(i)] = Word(i) /\ pc[e.by] \in Writing /\ k[e.by] = i
    BY DEF Counted, FullCells
  <2>3. e.ready => i # k[p]
    BY <1>3
  <2>4. ~e.ready => pc'[e.by] \in Writing
    BY <1>2, <2>1, <2>2 DEF Writing
  <2> HIDE DEF e
  <2>5. e.ready => cellMem'[Cell(i)] = cellMem[Cell(i)]
    BY <1>7, <2>3
  <2>6. /\ e.ready => seq'[Cell(i)] = Word(i + 1) /\ cellMem'[Cell(i)] = e.mem
        /\ ~e.ready => seq'[Cell(i)] = Word(i) /\ pc'[e.by] \in Writing /\ k[e.by] = i
    BY <1>2, <2>2, <2>4, <2>5
  <2> QED BY <2>6 DEF e
<1>9. Adding(s, a, r, k)'
  <2> SUFFICES ASSUME NEW q \in Producers PROVE Adder(q, s, a, r, k)'
    BY DEF Adding
  <2>0. Adder(q, s, a, r, k)
    BY DEF Counted, Adding
  <2>1. CASE q = p
    BY <1>2, <1>4, <2>0, <2>1 DEF Adder, Writing, EntryOf
  <2>2. CASE q # p
    <3>1. ASSUME pc[q] = "publish" PROVE cellMem'[Cell(k[q])] = cellMem[Cell(k[q])]
      <4>1. k[q] \in r .. a - 1 /\ EntryOf(k[q], r).by = q
        BY <2>0, <3>1 DEF Adder, Writing
      <4>2. k[q] # k[p]
        BY <1>3, <2>2, <4>1
      <4> QED BY <1>7, <4>1, <4>2
    <3> QED BY <1>2, <2>0, <2>2, <3>1 DEF Adder, Writing, EntryOf
  <2> QED BY <2>1, <2>2
<1> QED BY <1>5, <1>6, <1>8, <1>9 DEF Counted

\* Publishing makes the item of the producer's own index ready, and no other.
LEMMA PublishEntry ==
  ASSUME TwoCells, TypeOK, NEW s \in Starts, NEW a \in s .. s + MaxAdds, NEW r \in s .. a,
         NEW k \in [Producers -> s .. s + MaxAdds], Counted(s, a, r, k),
         NEW p \in Producers, AddPublish(p)
  PROVE  /\ k[p] - r + 1 \in 1 .. Len(entries)
         /\ entries[k[p] - r + 1] = [mem |-> mem[p], by |-> p, ready |-> FALSE]
         /\ entries' = [entries EXCEPT ![k[p] - r + 1].ready = TRUE]
<1> DEFINE T == [mem : Mems, by : Producers, ready : BOOLEAN]
           j == k[p] - r + 1
<1>1. /\ a \in Int /\ r \in Int /\ entries \in Seq(T) /\ Len(entries) = a - r
      /\ DOMAIN entries = 1 .. Len(entries)
  BY CountedTypes DEF TypeOK
<1>2. k[p] \in r .. a - 1 /\ EntryOf(k[p], r) = [mem |-> mem[p], by |-> p, ready |-> FALSE]
  BY OwnCell DEF AddPublish, Writing
<1>3. j \in 1 .. Len(entries) /\ entries[j] = [mem |-> mem[p], by |-> p, ready |-> FALSE]
  BY <1>1, <1>2 DEF EntryOf
<1>4. ASSUME NEW n \in 1 .. Len(entries), n # j
      PROVE  (IF entries[n].by = p THEN [entries[n] EXCEPT !.ready = TRUE] ELSE entries[n]) = entries[n]
  <2>1. n \in Int /\ n + r - 1 \in r .. a - 1 /\ (n + r - 1) - r + 1 = n /\ n + r - 1 # k[p]
    BY <1>1, <1>2, <1>4
  <2>2. EntryOf(n + r - 1, r) = entries[n] /\ entries[n] \in T
    BY <2>1, <1>1, SeqElement DEF EntryOf
  <2>3. ~entries[n].ready => k[entries[n].by] = n + r - 1
    BY <2>1, <2>2 DEF Counted, FullCells
  <2>4. entries[n].by = p => entries[n].ready
    BY <2>1, <2>3
  <2>5. entries[n].ready => [entries[n] EXCEPT !.ready = TRUE] = entries[n]
    BY <2>2
  <2> QED BY <2>4, <2>5
<1>5. entries' = [i \in DOMAIN entries |->
                   IF entries[i].by = p THEN [entries[i] EXCEPT !.ready = TRUE]
                                        ELSE entries[i]]
  BY DEF AddPublish
<1> HIDE DEF T, j
<1>6. entries' = [entries EXCEPT ![j].ready = TRUE]
  <2>1. entries \in [1 .. Len(entries) -> T]
    BY <1>1
  <2>2. entries[j].by = p
    BY <1>3
  <2> QED BY <1>1, <1>3, <1>4, <1>5, <2>1, <2>2
<1> QED BY <1>3, <1>6 DEF j

LEMMA PublishStep ==
  ASSUME TwoCells, TypeOK, NEW s \in Starts, NEW a \in s .. s + MaxAdds, NEW r \in s .. a,
         NEW k \in [Producers -> s .. s + MaxAdds], Counted(s, a, r, k),
         NEW p \in Producers, AddPublish(p)
  PROVE  Counted(s, a, r, k)'
<1>1. /\ s \in Int /\ a \in Int /\ r \in Int /\ adds \in Int /\ Size \in Nat /\ a - r <= Size
      /\ Len(entries) = a - r
  BY CountedTypes DEF TypeOK
<1>2. /\ pc[p] = "publish" /\ pc'[p] = "idle"
      /\ \A q \in Producers \ {p} : pc'[q] = pc[q] /\ mem'[q] = mem[q] /\ pos'[q] = pos[q]
      /\ UNCHANGED <<addIdx, rmvIdx, cellMem, live, consVars, adds>>
  BY DEF AddPublish, TypeOK
<1>3. /\ k[p] \in r .. a - 1 /\ EntryOf(k[p], r) = [mem |-> mem[p], by |-> p, ready |-> FALSE]
      /\ Cell(pos[p]) = Cell(k[p]) /\ Cell(k[p]) \in Cells /\ Word(pos[p] + 1) = Word(k[p] + 1)
      /\ \A i \in r .. r + Size - 1 : i # k[p] => Cell(i) \in Cells /\ Cell(i) # Cell(k[p])
  <2>1. pc[p] \in Writing
    BY <1>2 DEF Writing
  <2> QED BY <2>1, OwnCell
<1>4. /\ seq'[Cell(k[p])] = Word(k[p] + 1)
      /\ \A c \in Cells : c # Cell(k[p]) => seq'[c] = seq[c]
  BY <1>3 DEF AddPublish, TypeOK
<1>5. /\ Len(entries') = Len(entries)
      /\ EntryOf(k[p], r)'.mem = mem[p] /\ EntryOf(k[p], r)'.ready
      /\ \A i \in r .. a - 1 : i # k[p] => EntryOf(i, r)' = EntryOf(i, r)
  <2> DEFINE j == k[p] - r + 1
             T == [mem : Mems, by : Producers, ready : BOOLEAN]
  <2>1. /\ j \in 1 .. Len(entries) /\ entries[j] = [mem |-> mem[p], by |-> p, ready |-> FALSE]
        /\ entries' = [entries EXCEPT ![j].ready = TRUE]
    BY PublishEntry
  <2>6. entries \in Seq(T) /\ entries \in [1 .. Len(entries) -> T]
    <3>1. entries \in Seq(T)
      BY DEF TypeOK
    <3> HIDE DEF T
    <3> QED BY <3>1
  <2>2. EntryOf(k[p], r)' = entries'[j]
    BY DEF EntryOf
  <2>3. \A i \in r .. a - 1 : i # k[p] => i - r + 1 # j /\ i - r + 1 \in 1 .. Len(entries)
    BY <1>1, <1>3
  <2> HIDE DEF j, T
  <2>4. Len(entries') = Len(entries) /\ entries'[j].mem = mem[p] /\ entries'[j].ready
    <3>1. entries'[j] = [entries[j] EXCEPT !.ready = TRUE]
      BY <2>1, <2>6
    <3>2. Len(entries') = Len(entries)
      BY <2>1, <2>6
    <3> QED BY <2>1, <3>1, <3>2
  <2>5. \A n \in 1 .. Len(entries) : n # j => entries'[n] = entries[n]
    BY <2>1, <2>6
  <2> QED BY <2>2, <2>3, <2>4, <2>5 DEF EntryOf
<1>6. Indices(s, a, r)'
  <2>1. Before' = Before
    BY <1>2 DEF Before
  <2> QED BY <1>2, <1>5, <2>1 DEF Counted, Indices
<1>7. FreeCells(a, r)'
  <2> SUFFICES ASSUME NEW i \in a .. r + Size - 1 PROVE seq'[Cell(i)] = Word(i)
    BY DEF FreeCells
  <2>1. i \in r .. r + Size - 1 /\ i # k[p]
    BY <1>1, <1>3
  <2> QED BY <1>3, <1>4, <2>1 DEF Counted, FreeCells
<1>8. Removing'
  <2> SUFFICES ASSUME cpc # "idle"
               PROVE  entries' # <<>> /\ entries'[1] = entries[1]
    BY <1>2 DEF Removing, Counted, consVars
  <2>1. entries # <<>> /\ entries[1].ready
    BY DEF Counted, Removing
  <2>2. r < a /\ EntryOf(r, r) = entries[1] /\ EntryOf(r, r)' = entries'[1]
    <3>1. r - r + 1 = 1
      BY <1>1
    <3> QED BY <2>1, <3>1, CountedTypes DEF EntryOf
  <2>3. r # k[p] /\ r \in r .. a - 1
    BY <1>1, <1>3, <2>1, <2>2
  <2>4. entries' # <<>>
    BY <1>1, <1>5, <2>2
  <2> QED BY <1>5, <2>2, <2>3, <2>4
<1>9. FullCells(a, r, k)'
  <2> SUFFICES ASSUME NEW i \in r .. a - 1
               PROVE  LET e == EntryOf(i, r)'
                      IN /\ e.ready => seq'[Cell(i)] = Word(i + 1) /\ cellMem'[Cell(i)] = e.mem
                         /\ ~e.ready => seq'[Cell(i)] = Word(i) /\ pc'[e.by] \in Writing /\ k[e.by] = i
    BY DEF FullCells
  <2>1. CASE i # k[p]
    <3> DEFINE e == EntryOf(i, r)
    <3>1. e.by \in Producers
      BY CountedTypes
    <3>2. /\ e.ready => seq[Cell(i)] = Word(i + 1) /\ cellMem[Cell(i)] = e.mem
          /\ ~e.ready => seq[Cell(i)] = Word(i) /\ pc[e.by] \in Writing /\ k[e.by] = i
      BY DEF Counted, FullCells
    <3>3. ~e.ready => e.by # p
      BY <2>1, <3>2
    <3>4. EntryOf(i, r)' = e
      BY <1>5, <2>1
    <3>5. seq'[Cell(i)] = seq[Cell(i)]
      <4>1. i \in r .. r + Size - 1
        BY <1>1
      <4> QED BY <1>3, <1>4, <2>1, <4>1
    <3> HIDE DEF e
    <3> QED BY <1>2, <3>1, <3>2, <3>3, <3>4, <3>5
  <2>2. CASE i = k[p]
    <3>1. cellMem[Cell(k[p])] = mem[p]
      BY <1>2 DEF Counted, Adding, Adder
    <3> QED BY <1>2, <1>4, <1>5, <2>2, <3>1
  <2> QED BY <2>1, <2>2
<1>10. Adding(s, a, r, k)'
  <2> SUFFICES ASSUME NEW q \in Producers PROVE Adder(q, s, a, r, k)'
    BY DEF Adding
  <2>0. Adder(q, s, a, r, k)
    BY DEF Counted, Adding
  <2>1. CASE q = p
    BY <1>2, <2>1 DEF Adder, Writing
  <2>2. CASE q # p
    <3>1. ASSUME pc[q] \in Writing PROVE EntryOf(k[q], r)' = EntryOf(k[q], r)
      <4>1. k[q] \in r .. a - 1 /\ EntryOf(k[q], r).by = q
        BY <2>0, <3>1 DEF Adder
      <4>2. k[q] # k[p]
        BY <1>3, <2>2, <4>1
      <4> QED BY <1>5, <4>1, <4>2
    <3> QED BY <1>2, <2>0, <2>2, <3>1 DEF Adder
  <2> QED BY <2>1, <2>2
<1> QED BY <1>6, <1>7, <1>8, <1>9, <1>10 DEF Counted

\* The consumer finds the oldest cell not ready when its item is missing or not published.
LEMMA NotReadyIsNone ==
  ASSUME TwoCells, TypeOK, NEW s \in Starts, NEW a \in s .. s + MaxAdds, NEW r \in s .. a,
         NEW k \in [Producers -> s .. s + MaxAdds], Counted(s, a, r, k)
  PROVE  NotReady(seq[Cell(rmvIdx)]) <=> ~(entries # <<>> /\ entries[1].ready)
<1>1. /\ r \in Int /\ a \in Int /\ SizeAssumption /\ Size \in Nat /\ Size > 1 /\ MaxAdds \in Nat
      /\ Len(entries) = a - r /\ r <= a /\ (entries # <<>> => r < a /\ EntryOf(r, r) = entries[1])
  BY CountedTypes DEF TwoCells
<1>2. rmvIdx = Word(r) /\ Cell(rmvIdx) = Cell(r) /\ rmvIdx \in Int
  BY <1>1, CellOfWord, WordType DEF Counted, Indices
<1>3. Word(rmvIdx + 1) = Word(r + 1)
  BY <1>1, <1>2, WordAdd
<1>4. ASSUME NEW v \in {r, r + 1}, seq[Cell(r)] = Word(v)
      PROVE  NotReady(seq[Cell(rmvIdx)]) <=> v = r
  <2>1. v \in Int /\ r + 1 \in Int /\ rmvIdx + 1 \in Int
        /\ v - (r + 1) <= MaxAdds + Size /\ (r + 1) - v <= MaxAdds + Size
    BY <1>1, <1>2
  <2>2. Word(Word(v)) = Word(v) /\ Word(v) \in Int
    <3>1. Word(Word(v) + 0) = Word(v + 0)
      BY <1>1, <2>1, WordAdd
    <3> QED BY <1>1, <2>1, <3>1, WordType
  <2>3. Dif(Word(v), rmvIdx + 1) = v - (r + 1)
    BY <1>1, <1>3, <2>1, <2>2, DifIsDifference
  <2>4. v - (r + 1) < 0 <=> v = r
    BY <1>1
  <2> QED BY <1>2, <1>4, <2>3, <2>4 DEF NotReady
<1>5. CASE entries # <<>>
  <2>1. r < a /\ r \in r .. a - 1 /\ EntryOf(r, r) = entries[1]
    BY <1>1, <1>5
  <2>2. entries[1].ready => seq[Cell(r)] = Word(r + 1)
    BY <2>1 DEF Counted, FullCells
  <2>3. ~entries[1].ready => seq[Cell(r)] = Word(r)
    BY <2>1 DEF Counted, FullCells
  <2>4. r + 1 # r
    BY <1>1
  <2> QED BY <1>4, <1>5, <2>2, <2>3, <2>4
<1>6. CASE entries = <<>>
  <2>1. r \in a .. r + Size - 1
    BY <1>1, <1>6
  <2>2. seq[Cell(r)] = Word(r)
    BY <2>1 DEF Counted, FreeCells
  <2> QED BY <1>4, <1>6, <2>2
<1> QED BY <1>5, <1>6

\* A step of the consumer that leaves the cells and the items alone.
LEMMA ConsumerStep ==
  ASSUME TwoCells, TypeOK, NEW s \in Starts, NEW a \in s .. s + MaxAdds, NEW r \in s .. a,
         NEW k \in [Producers -> s .. s + MaxAdds], Counted(s, a, r, k),
         RmvSeq \/ RmvRead
  PROVE  Counted(s, a, r, k)'
<1>1. UNCHANGED <<bufVars, prodVars, adds, entries>>
  BY DEF RmvSeq, RmvRead
<1>2. /\ Indices(s, a, r)' /\ FreeCells(a, r)' /\ FullCells(a, r, k)' /\ Adding(s, a, r, k)'
  BY <1>1 DEF Counted, Indices, Before, FreeCells, FullCells, Adding, Adder, EntryOf, bufVars, prodVars
<1>3. Removing'
  <2>1. CASE RmvSeq
    BY <2>1, NotReadyIsNone DEF Counted, Removing, RmvSeq
  <2>2. CASE RmvRead
    <3>1. entries # <<>> /\ entries[1].ready
      BY <2>2 DEF Counted, Removing, RmvRead
    <3>2. r \in r .. a - 1 /\ EntryOf(r, r) = entries[1] /\ SizeAssumption /\ r \in Int
      <4>1. r < a /\ EntryOf(r, r) = entries[1] /\ r \in Int /\ a \in Int
        BY <3>1, CountedTypes
      <4> QED BY <4>1 DEF TwoCells
    <3>3. cellMem[Cell(r)] = entries[1].mem
      BY <3>1, <3>2 DEF Counted, FullCells
    <3>4. Cell(rmvIdx) = Cell(r)
      BY <3>2, CellOfWord DEF Counted, Indices
    <3> QED BY <1>1, <2>2, <3>1, <3>3, <3>4 DEF Removing, RmvRead
  <2> QED BY <2>1, <2>2
<1> QED BY <1>2, <1>3 DEF Counted

LEMMA FreeStep ==
  ASSUME TwoCells, TypeOK, NEW s \in Starts, NEW a \in s .. s + MaxAdds, NEW r \in s .. a,
         NEW k \in [Producers -> s .. s + MaxAdds], Counted(s, a, r, k),
         RmvFree
  PROVE  r + 1 \in s .. a /\ Counted(s, a, r + 1, k)'
<1> DEFINE T == [mem : Mems, by : Producers, ready : BOOLEAN]
<1>1. /\ s \in Int /\ a \in Int /\ r \in Int /\ s <= r /\ r <= a /\ SizeAssumption /\ Size \in Nat /\ Size > 1
      /\ a - r <= Size /\ Len(entries) = a - r /\ entries \in Seq(T)
  BY CountedTypes DEF TypeOK, TwoCells
<1>2. /\ cpc' = "idle" /\ entries' = Tail(entries) /\ cpc = "free"
      /\ UNCHANGED <<addIdx, cellMem, live, pc, mem, pos, res, adds>>
  BY DEF RmvFree, prodVars
<1>3. entries # <<>> /\ entries[1].ready
  BY <1>2 DEF Counted, Removing
<1>4. r < a /\ EntryOf(r, r) = entries[1]
  BY <1>3, CountedTypes
<1>5. rmvIdx = Word(r) /\ Cell(rmvIdx) = Cell(r) /\ Cell(r) \in Cells /\ rmvIdx' = Word(r + 1)
  <2>1. rmvIdx = Word(r) /\ Word(Word(r) + 1) = Word(r + 1)
    BY <1>1, WordAdd DEF Counted, Indices
  <2> QED BY <1>1, <2>1, CellOfWord, WordType DEF RmvFree
<1>6. NextTurn = Word(r + Size)
  BY <1>1, <1>5, WordAdd DEF NextTurn
<1>7. /\ seq'[Cell(r)] = Word(r + Size)
      /\ \A i \in r + 1 .. r + Size - 1 : seq'[Cell(i)] = seq[Cell(i)]
  <2>1. seq' = [seq EXCEPT ![Cell(r)] = Word(r + Size)] /\ seq \in [Cells -> Words]
    BY <1>5, <1>6 DEF RmvFree, TypeOK
  <2>2. ASSUME NEW i \in r + 1 .. r + Size - 1 PROVE Cell(i) \in Cells /\ Cell(i) # Cell(r)
    <3>1. i \in Int /\ i - r < Size /\ r - i < Size /\ i # r
      BY <1>1
    <3> QED BY <1>1, <3>1, CellInjective, WordType
  <2> QED BY <1>5, <2>1, <2>2
<1>8. Cell(r + Size) = Cell(r)
  <2>1. PICK n \in Int : n = 1
    OBVIOUS
  <2>2. (r + Size * n) % Size = r % Size
    BY <1>1, ModAdd DEF SizeAssumption
  <2>3. r + Size * n = r + Size
    BY <1>1, <2>1
  <2> QED BY <2>2, <2>3 DEF Cell
<1>9. /\ Len(entries') = a - (r + 1)
      /\ \A i \in r + 1 .. a - 1 : EntryOf(i, r + 1)' = EntryOf(i, r)
  <2>1. Len(entries') = Len(entries) - 1 /\ \A n \in 1 .. Len(entries) - 1 : entries'[n] = entries[n + 1]
    <3> HIDE DEF T
    <3> QED BY <1>1, <1>2, <1>3
  <2>2. ASSUME NEW i \in r + 1 .. a - 1 PROVE EntryOf(i, r + 1)' = EntryOf(i, r)
    <3>1. PICK n \in 1 .. Len(entries) - 1 : n = i - (r + 1) + 1 /\ n + 1 = i - r + 1
      BY <1>1
    <3>2. entries'[n] = entries[n + 1]
      BY <2>1, <3>1
    <3> QED BY <3>1, <3>2 DEF EntryOf
  <2> QED BY <1>1, <2>1, <2>2
<1>10. Indices(s, a, r + 1)'
  <2>1. Before' = Before
    BY <1>2 DEF Before
  <2>2. s <= r + 1 /\ r + 1 <= a /\ a <= r + 1 + Size
    BY <1>1, <1>4
  <2> QED BY <1>2, <1>5, <1>9, <2>1, <2>2 DEF Counted, Indices
<1>11. FreeCells(a, r + 1)'
  <2> SUFFICES ASSUME NEW i \in a .. r + 1 + Size - 1 PROVE seq'[Cell(i)] = Word(i)
    BY DEF FreeCells
  <2>1. CASE i = r + Size
    BY <1>7, <1>8, <2>1
  <2>2. CASE i # r + Size
    <3>1. i \in a .. r + Size - 1 /\ i \in r + 1 .. r + Size - 1
      BY <1>1, <1>4, <2>2
    <3> QED BY <1>7, <3>1 DEF Counted, FreeCells
  <2> QED BY <2>1, <2>2
<1>12. FullCells(a, r + 1, k)'
  <2> SUFFICES ASSUME NEW i \in r + 1 .. a - 1
               PROVE  LET e == EntryOf(i, r + 1)'
                      IN /\ e.ready => seq'[Cell(i)] = Word(i + 1) /\ cellMem'[Cell(i)] = e.mem
                         /\ ~e.ready => seq'[Cell(i)] = Word(i) /\ pc'[e.by] \in Writing /\ k[e.by] = i
    BY DEF FullCells
  <2> DEFINE e == EntryOf(i, r)
  <2>1. i \in r .. a - 1 /\ i \in r + 1 .. r + Size - 1
    BY <1>1
  <2>2. /\ e.ready => seq[Cell(i)] = Word(i + 1) /\ cellMem[Cell(i)] = e.mem
        /\ ~e.ready => seq[Cell(i)] = Word(i) /\ pc[e.by] \in Writing /\ k[e.by] = i
    BY <2>1 DEF Counted, FullCells
  <2>3. seq'[Cell(i)] = seq[Cell(i)] /\ EntryOf(i, r + 1)' = e
    BY <1>7, <1>9, <2>1
  <2> HIDE DEF e
  <2> QED BY <1>2, <2>2, <2>3
<1>13. Adding(s, a, r + 1, k)'
  <2> SUFFICES ASSUME NEW p \in Producers PROVE Adder(p, s, a, r + 1, k)'
    BY DEF Adding
  <2>1. Adder(p, s, a, r, k)
    BY DEF Counted, Adding
  <2>2. ASSUME pc[p] \in Writing
        PROVE  k[p] \in r + 1 .. a - 1 /\ EntryOf(k[p], r + 1)' = EntryOf(k[p], r)
    <3>1. k[p] \in r .. a - 1 /\ EntryOf(k[p], r).ready = FALSE
      BY <2>1, <2>2 DEF Adder
    <3>2. k[p] # r
      BY <1>3, <1>4, <3>1
    <3> QED BY <1>1, <1>9, <3>1, <3>2
  <2>3. ASSUME pc[p] = "cas" PROVE k[p] < r + 1 + Size
    <3>1. k[p] < r + Size /\ k[p] \in Int
      BY <1>1, <2>1, <2>3 DEF Adder
    <3> QED BY <1>1, <3>1
  <2> QED BY <1>2, <2>1, <2>2, <2>3 DEF Adder
<1>14. Removing' /\ r + 1 \in s .. a
  BY <1>1, <1>2, <1>4 DEF Removing
<1> QED BY <1>10, <1>11, <1>12, <1>13, <1>14 DEF Counted

-----------------------------------------------------------------------------
(* The invariant is inductive.                                             *)

LEMMA TypeStep ==
  ASSUME TwoCells, TypeOK, NEW s \in Starts, NEW a \in s .. s + MaxAdds, NEW r \in s .. a,
         NEW k \in [Producers -> s .. s + MaxAdds], Counted(s, a, r, k), Next
  PROVE  TypeOK'
<1> DEFINE T == [mem : Mems, by : Producers, ready : BOOLEAN]
<1>1. /\ \A p \in Producers : pc[p] # "idle" => mem[p] \in Mems
      /\ \A p \in Producers : pc[p] \in {"cas", "store", "publish"} => pos[p] \in Int
      /\ rmvIdx \in Int /\ SizeAssumption /\ entries \in Seq(T)
  <2>1. \A p \in Producers : Adder(p, s, a, r, k)
    BY DEF Counted, Adding
  <2>2. \A p \in Producers : pc[p] \in {"cas", "store", "publish"} => pos[p] \in Int
    <3>1. \A p \in Producers : k[p] \in Int
      BY CountedTypes
    <3> QED BY <2>1, <3>1, WordType DEF Adder, TwoCells
  <2>3. \A p \in Producers : pc[p] # "idle" => mem[p] \in Mems
    BY <2>1 DEF Adder
  <2> QED BY <2>2, <2>3 DEF TypeOK, Words, TwoCells
<1>2. ASSUME NEW i \in Int PROVE Cell(i) \in Cells /\ Word(i) \in Words
  BY <1>1, WordType
<1>3. CASE \E p \in Producers : AddNull(p)
  BY <1>3 DEF AddNull, TypeOK, bufVars, consVars
<1>4. CASE \E p \in Producers, m \in Mems : AddStart(p, m)
  BY <1>1, <1>4 DEF AddStart, TypeOK, bufVars, consVars, SizeAssumption
<1>5. CASE \E p \in Producers : AddLoad(p) \/ AddCasFails(p)
  BY ZenonT(60), <1>5 DEF AddLoad, AddCasFails, TypeOK, bufVars, consVars
<1>6. CASE \E p \in Producers : AddSeq(p)
  <2>1. PICK p \in Producers : AddSeq(p)
    BY <1>6
  <2> DEFINE d == Dif(seq[Cell(pos[p])], pos[p])
  <2>2. Turn(d) \in {"cas", "idle", "load"}
    BY DEF Turn
  <2>3. pc' = [pc EXCEPT ![p] = Turn(d)]
        /\ (res' = res \/ res' = [res EXCEPT ![p] = FALSE])
        /\ (mem' = mem \/ mem' = [mem EXCEPT ![p] = NULL])
        /\ (pos' = pos \/ pos' = [pos EXCEPT ![p] = NULL])
        /\ UNCHANGED <<bufVars, consVars, adds, entries>>
    BY <2>1 DEF AddSeq
  <2> HIDE DEF d
  <2> QED BY <2>2, <2>3 DEF TypeOK, bufVars, consVars
<1>7. CASE \E p \in Producers : AddCas(p)
  <2>1. PICK p \in Producers : AddCas(p)
    BY <1>7
  <2>2. addIdx' \in Words /\ entries' \in Seq(T)
    <3>1. pc[p] = "cas" /\ addIdx' = Word(pos[p] + 1)
          /\ entries' = Append(entries, [mem |-> mem[p], by |-> p, ready |-> FALSE])
      BY <2>1 DEF AddCas
    <3>2. [mem |-> mem[p], by |-> p, ready |-> FALSE] \in T
      BY <1>1, <3>1
    <3>3. entries' \in Seq(T)
      <4> HIDE DEF T
      <4> QED BY <1>1, <3>1, <3>2
    <3> QED BY <1>1, <1>2, <3>1, <3>3
  <2> QED BY <2>1, <2>2 DEF AddCas, TypeOK, consVars
<1>8. CASE \E p \in Producers : AddStore(p)
  <2>1. PICK p \in Producers : AddStore(p)
    BY <1>8
  <2> QED BY <2>1 DEF AddStore, TypeOK, consVars
<1>9. CASE \E p \in Producers : AddPublish(p)
  <2>1. PICK p \in Producers : AddPublish(p)
    BY <1>9
  <2>2. seq' \in [Cells -> Words]
    BY <1>1, <1>2, <2>1 DEF AddPublish, TypeOK
  <2>3. entries' \in Seq(T)
    <3>1. entries \in [1 .. Len(entries) -> T] /\ DOMAIN entries = 1 .. Len(entries)
      <4> HIDE DEF T
      <4> QED BY <1>1
    <3>2. entries' \in [1 .. Len(entries) -> T]
      <4>1. \A i \in 1 .. Len(entries) : [entries[i] EXCEPT !.ready = TRUE] \in T
        BY <3>1
      <4>2. entries' = [i \in DOMAIN entries |->
                         IF entries[i].by = p THEN [entries[i] EXCEPT !.ready = TRUE]
                                              ELSE entries[i]]
        BY <2>1 DEF AddPublish
      <4> HIDE DEF T
      <4> QED BY <3>1, <4>1, <4>2
    <3> HIDE DEF T
    <3> QED BY <1>1, <3>2
  <2> QED BY <2>1, <2>2, <2>3 DEF AddPublish, TypeOK, consVars
<1>10. CASE RmvSeq \/ RmvRead
  <2>1. cellMem[Cell(rmvIdx)] \in Mems \cup {NULL}
    BY <1>1, <1>2 DEF TypeOK
  <2> QED BY <1>10, <2>1 DEF RmvSeq, RmvRead, TypeOK, bufVars, prodVars
<1>11. CASE RmvFree
  <2>1. seq' \in [Cells -> Words] /\ rmvIdx' \in Words
    <3>1. rmvIdx + Size \in Int /\ rmvIdx + 1 \in Int
      BY <1>1 DEF SizeAssumption
    <3> QED BY <1>2, <1>11, <3>1 DEF RmvFree, TypeOK, NextTurn
  <2>2. entries' \in Seq(T)
    <3>1. entries # <<>> /\ entries' = Tail(entries)
      BY <1>11 DEF RmvFree, Counted, Removing
    <3> HIDE DEF T
    <3> QED BY <1>1, <3>1
  <2> QED BY <1>11, <2>1, <2>2 DEF RmvFree, TypeOK, prodVars
<1>12. CASE Deinit
  <2>1. 0 \in Words
    BY <1>1 DEF Words, SizeAssumption
  <2> QED BY <1>12, <2>1 DEF Deinit, TypeOK, prodVars, consVars
<1> QED BY <1>3, <1>4, <1>5, <1>6, <1>7, <1>8, <1>9, <1>10, <1>11, <1>12 DEF Next, Add, Rmv

\* A step of a live buffer counts on, or it is the deinit.
LEMMA CountedStep ==
  ASSUME TwoCells, TypeOK, NEW s \in Starts, NEW a \in s .. s + MaxAdds, NEW r \in s .. a,
         NEW k \in [Producers -> s .. s + MaxAdds], Counted(s, a, r, k), Next, ~Deinit
  PROVE  \E an \in s .. s + MaxAdds : \E rn \in s .. an : \E kn \in [Producers -> s .. s + MaxAdds] :
           Counted(s, an, rn, kn)'
<1>0. s \in Int /\ a \in Int /\ r \in Int
  BY CountedTypes
<1>1. ASSUME NEW p \in Producers, AddNull(p) PROVE Counted(s, a, r, k)'
  BY <1>1 DEF AddNull, Counted, Indices, FreeCells, FullCells, Adding, Adder, Removing, Before, EntryOf,
     bufVars, consVars
<1>2. ASSUME NEW p \in Producers, NEW m \in Mems, AddStart(p, m) PROVE Counted(s, a, r, k)'
  BY <1>2, StartStep
<1>3. ASSUME NEW p \in Producers, AddLoad(p) \/ AddCasFails(p)
      PROVE  Counted(s, a, r, [k EXCEPT ![p] = a])' /\ [k EXCEPT ![p] = a] \in [Producers -> s .. s + MaxAdds]
  BY <1>3, LoadStep
<1>4. ASSUME NEW p \in Producers, AddSeq(p) PROVE Counted(s, a, r, k)'
  BY <1>4, SeqStep
<1>5. ASSUME NEW p \in Producers, AddCas(p)
      PROVE  a + 1 \in s .. s + MaxAdds /\ r \in s .. a + 1 /\ Counted(s, a + 1, r, k)'
  <2>1. a + 1 \in s .. s + MaxAdds /\ Counted(s, a + 1, r, k)'
    BY <1>5, CasStep
  <2> QED BY <1>0, <2>1
<1>6. ASSUME NEW p \in Producers, AddStore(p) PROVE Counted(s, a, r, k)'
  BY <1>6, StoreStep
<1>7. ASSUME NEW p \in Producers, AddPublish(p) PROVE Counted(s, a, r, k)'
  BY <1>7, PublishStep
<1>8. ASSUME RmvSeq \/ RmvRead PROVE Counted(s, a, r, k)'
  BY <1>8, ConsumerStep
<1>9. ASSUME RmvFree PROVE r + 1 \in s .. a /\ Counted(s, a, r + 1, k)'
  BY <1>9, FreeStep
<1> QED BY <1>1, <1>2, <1>3, <1>4, <1>5, <1>6, <1>7, <1>8, <1>9 DEF Next, Add, Rmv

LEMMA NextIInv == ASSUME TwoCells, IInv, [Next]_vars PROVE IInv'
<1>1. CASE UNCHANGED vars
  <2> USE <1>1 DEF vars, bufVars, prodVars, consVars
  <2>1. (TypeOK <=> TypeOK') /\ (Quiet <=> Quiet') /\ live' = live
    BY DEF TypeOK, Quiet
  <2>2. ASSUME NEW s, NEW a, NEW r, NEW k, Counted(s, a, r, k) PROVE Counted(s, a, r, k)'
    BY <2>2 DEF Counted, Indices, FreeCells, FullCells, Adding, Adder, Removing, Before, EntryOf
  <2> QED BY <2>1, <2>2 DEF IInv
<1>2. CASE Next /\ live
  <2>1. PICK s \in Starts : \E a \in s .. s + MaxAdds : \E r \in s .. a :
               \E k \in [Producers -> s .. s + MaxAdds] : Counted(s, a, r, k)
    BY <1>2 DEF IInv
  <2>0. PICK a \in s .. s + MaxAdds : \E r \in s .. a :
               \E k \in [Producers -> s .. s + MaxAdds] : Counted(s, a, r, k)
    BY <2>1
  <2>2. PICK r \in s .. a, k \in [Producers -> s .. s + MaxAdds] : Counted(s, a, r, k)
    BY <2>0
  <2>3. TypeOK'
    BY <1>2, <2>2, TypeStep DEF IInv
  <2>4. CASE Deinit
    BY <2>3, <2>4 DEF Deinit, IInv, Quiet, prodVars, consVars
  <2>5. CASE ~Deinit
    <3>1. live'
      BY <1>2, <2>5 DEF Next, Add, Rmv, AddNull, AddStart, AddLoad, AddSeq, AddCas, AddCasFails, AddStore,
         AddPublish, RmvSeq, RmvRead, RmvFree, bufVars
    <3>2. TypeOK
      BY DEF IInv
    <3>3. \E an \in s .. s + MaxAdds : \E rn \in s .. an : \E kn \in [Producers -> s .. s + MaxAdds] :
             Counted(s, an, rn, kn)'
      BY <1>2, <2>2, <2>5, <3>2, CountedStep
    <3> QED BY <2>3, <3>1, <3>3 DEF IInv
  <2> QED BY <2>4, <2>5
<1>3. CASE Next /\ ~live
  BY <1>3 DEF IInv, Quiet, Next, Add, Rmv, AddNull, AddStart, AddLoad, AddSeq, AddCas, AddCasFails, AddStore,
     AddPublish, RmvSeq, RmvRead, RmvFree, Deinit
<1> QED BY <1>1, <1>2, <1>3

-----------------------------------------------------------------------------
(* What the invariant shows.                                               *)

LEMMA IInvShared == ASSUME TwoCells, IInv PROVE CellsNotShared
<1> DEFINE writing == {p \in Producers : pc[p] \in {"store", "publish"}}
<1>1. CASE ~live
  BY <1>1 DEF IInv, Quiet, CellsNotShared
<1>2. CASE live
  <2>0. TypeOK
    BY DEF IInv
  <2>1. PICK s \in Starts : \E a \in s .. s + MaxAdds : \E r \in s .. a :
               \E k \in [Producers -> s .. s + MaxAdds] : Counted(s, a, r, k)
    BY <1>2 DEF IInv
  <2>2. PICK a \in s .. s + MaxAdds : \E r \in s .. a :
               \E k \in [Producers -> s .. s + MaxAdds] : Counted(s, a, r, k)
    BY <2>1
  <2>3. PICK r \in s .. a, k \in [Producers -> s .. s + MaxAdds] : Counted(s, a, r, k)
    BY <2>2
  <2>4. /\ r \in Int /\ a \in Int /\ Size \in Nat /\ Size > 1 /\ a - r <= Size /\ SizeAssumption
        /\ (entries # <<>> => r < a /\ EntryOf(r, r) = entries[1])
    BY <2>0, <2>3, CountedTypes DEF TwoCells
  <2>5. ASSUME NEW p \in writing
        PROVE  /\ k[p] \in r .. a - 1 /\ EntryOf(k[p], r).by = p /\ ~EntryOf(k[p], r).ready
               /\ Cell(pos[p]) = Cell(k[p])
               /\ \A i \in r .. r + Size - 1 : i # k[p] => Cell(i) # Cell(k[p])
    <3>1. p \in Producers /\ pc[p] \in Writing
      BY DEF Writing
    <3>2. /\ k[p] \in r .. a - 1 /\ EntryOf(k[p], r) = [mem |-> mem[p], by |-> p, ready |-> FALSE]
          /\ Cell(pos[p]) = Cell(k[p])
          /\ \A i \in r .. r + Size - 1 : i # k[p] => Cell(i) \in Cells /\ Cell(i) # Cell(k[p])
      <4> HIDE DEF writing
      <4> QED BY <2>0, <2>3, <3>1, OwnCell
    <3> QED BY <3>2
  <2>6. ASSUME NEW p \in writing, NEW q \in writing, Cell(pos[p]) = Cell(pos[q]) PROVE p = q
    <3>1. Cell(k[q]) = Cell(k[p]) /\ k[q] \in r .. r + Size - 1
      BY <2>4, <2>5, <2>6
    <3>2. k[q] = k[p]
      BY <2>5, <3>1
    <3> QED BY <2>5, <3>2
  <2>7. ASSUME cpc # "idle", NEW p \in writing PROVE Cell(pos[p]) # Cell(rmvIdx)
    <3>1. entries # <<>> /\ entries[1].ready /\ rmvIdx = Word(r)
      BY <2>3, <2>7 DEF Counted, Removing, Indices
    <3>2. k[p] # r
      BY <2>4, <2>5, <3>1
    <3>3. r \in r .. r + Size - 1 /\ Cell(rmvIdx) = Cell(r)
      BY <2>4, <3>1, CellOfWord
    <3> QED BY <2>5, <3>2, <3>3
  <2> QED BY <2>6, <2>7 DEF CellsNotShared
<1> QED BY <1>1, <1>2

LEMMA InitAbstract == ASSUME Init PROVE Abstract!Init
BY DEF Init, Abstract!Init

\* A reservation, by a producer without an unfinished add, while there is room.
LEMMA CasReserves ==
  ASSUME TwoCells, TypeOK, live, NEW s \in Starts, NEW a \in s .. s + MaxAdds, NEW r \in s .. a,
         NEW k \in [Producers -> s .. s + MaxAdds], Counted(s, a, r, k), NEW p \in Producers, AddCas(p)
  PROVE  mem[p] \in Mems /\ Abstract!Reserve(p, mem[p])
<1>1. /\ Len(entries) = a - r /\ r \in Int /\ a \in Int /\ Size \in Nat
  BY CountedTypes
<1>2. a < r + Size
  BY CasStep
<1>3. mem[p] \in Mems /\ pc[p] = "cas"
  BY DEF AddCas, Counted, Adding, Adder
<1>4. ASSUME NEW n \in 1 .. Len(entries), entries[n].by = p PROVE entries[n].ready
  <2>1. n + r - 1 \in r .. a - 1 /\ (n + r - 1) - r + 1 = n
    BY <1>1
  <2>2. EntryOf(n + r - 1, r) = entries[n]
    BY <2>1 DEF EntryOf
  <2>3. ~entries[n].ready => pc[entries[n].by] \in Writing
    BY <2>1, <2>2 DEF Counted, FullCells
  <2> QED BY <1>3, <1>4, <2>3 DEF Writing
<1>5. Len(entries) < Size
  BY <1>1, <1>2
<1> QED BY <1>3, <1>4, <1>5 DEF Abstract!Reserve, AddCas, consVars

\* Every step is one of the bounded queue's, or changes nothing that shows.
LEMMA StepAbstract ==
  ASSUME TwoCells, TypeOK, live, NEW s \in Starts, NEW a \in s .. s + MaxAdds, NEW r \in s .. a,
         NEW k \in [Producers -> s .. s + MaxAdds], Counted(s, a, r, k), Next
  PROVE  [Abstract!Next]_(Abstract!vars)
<1>1. ASSUME NEW p \in Producers, AddNull(p) PROVE Abstract!Next
  BY <1>1 DEF AddNull, Abstract!Next, Abstract!AddNull, bufVars, consVars
<1>2. ASSUME NEW p \in Producers,
             (\E m \in Mems : AddStart(p, m)) \/ AddLoad(p) \/ AddCasFails(p) \/ AddStore(p)
      PROVE  UNCHANGED Abstract!vars
  BY <1>2 DEF AddStart, AddLoad, AddCasFails, AddStore, Abstract!vars, bufVars, consVars
<1>3. ASSUME NEW p \in Producers, AddSeq(p) PROVE [Abstract!Next]_(Abstract!vars)
  <2> DEFINE d == Dif(seq[Cell(pos[p])], pos[p])
  <2>1. UNCHANGED <<entries, ret, live>> /\ res' = IF Turn(d) = "idle" THEN [res EXCEPT ![p] = FALSE] ELSE res
    BY <1>3 DEF AddSeq, bufVars, consVars
  <2>2. Turn(d) = "idle" => d < 0
    <3> HIDE DEF d
    <3> QED BY DEF Turn
  <2>3. d < 0 => a = r + Size
    BY <1>3, SeqOfCell DEF AddSeq
  <2>4. Len(entries) = a - r /\ a \in Int /\ r \in Int /\ Size \in Nat
    BY CountedTypes
  <2> HIDE DEF d
  <2>5. Turn(d) = "idle" => Abstract!AddFull(p)
    BY <2>1, <2>2, <2>3, <2>4 DEF Abstract!AddFull
  <2> QED BY <2>1, <2>5 DEF Abstract!Next, Abstract!vars
<1>4. ASSUME NEW p \in Producers, AddCas(p) PROVE Abstract!Next
  BY <1>4, CasReserves DEF Abstract!Next
<1>5. ASSUME NEW p \in Producers, AddPublish(p) PROVE Abstract!Next
  <2>1. PICK j \in 1 .. Len(entries) :
          /\ entries[j] = [mem |-> mem[p], by |-> p, ready |-> FALSE]
          /\ entries' = [entries EXCEPT ![j].ready = TRUE]
    BY <1>5, PublishEntry
  <2>2. res' = [res EXCEPT ![p] = TRUE] /\ UNCHANGED <<ret, live>>
    BY <1>5 DEF AddPublish, consVars
  <2>3. entries[j].by = p /\ ~entries[j].ready
    BY <2>1
  <2>4. Abstract!Publish(p)
    BY <2>1, <2>2, <2>3 DEF Abstract!Publish
  <2> QED BY <2>4 DEF Abstract!Next
<1>6. ASSUME RmvSeq PROVE [Abstract!Next]_(Abstract!vars)
  <2>1. NotReady(seq[Cell(rmvIdx)]) <=> ~Abstract!Removable
    BY NotReadyIsNone DEF Abstract!Removable
  <2>2. CASE NotReady(seq[Cell(rmvIdx)])
    BY <1>6, <2>1, <2>2 DEF RmvSeq, Abstract!Next, Abstract!RmvNone, bufVars, prodVars
  <2>3. CASE ~NotReady(seq[Cell(rmvIdx)])
    BY <1>6, <2>3 DEF RmvSeq, Abstract!vars, bufVars, prodVars
  <2> QED BY <2>2, <2>3
<1>7. ASSUME RmvRead PROVE UNCHANGED Abstract!vars
  BY <1>7 DEF RmvRead, Abstract!vars, bufVars, prodVars
<1>8. ASSUME RmvFree PROVE Abstract!Next
  BY <1>8 DEF RmvFree, Counted, Removing, Abstract!Next, Abstract!Rmv, Abstract!Removable, prodVars
<1>9. ASSUME Deinit PROVE Abstract!Next
  BY <1>9 DEF Deinit, Abstract!Next, Abstract!Deinit, prodVars, consVars
<1> QED BY <1>1, <1>2, <1>3, <1>4, <1>5, <1>6, <1>7, <1>8, <1>9 DEF Next, Add, Rmv

LEMMA NextAbstract == ASSUME TwoCells, IInv, [Next]_vars PROVE [Abstract!Next]_(Abstract!vars)
<1>1. CASE UNCHANGED vars
  BY <1>1 DEF vars, bufVars, prodVars, consVars, Abstract!vars
<1>2. CASE Next /\ live
  <2>1. PICK s \in Starts : \E a \in s .. s + MaxAdds : \E r \in s .. a :
               \E k \in [Producers -> s .. s + MaxAdds] : Counted(s, a, r, k)
    BY <1>2 DEF IInv
  <2>2. PICK a \in s .. s + MaxAdds : \E r \in s .. a :
               \E k \in [Producers -> s .. s + MaxAdds] : Counted(s, a, r, k)
    BY <2>1
  <2>3. PICK r \in s .. a, k \in [Producers -> s .. s + MaxAdds] : Counted(s, a, r, k)
    BY <2>2
  <2>4. TypeOK
    BY DEF IInv
  <2> QED BY <1>2, <2>3, <2>4, StepAbstract
<1>3. CASE Next /\ ~live
  BY <1>3 DEF IInv, Quiet, Next, Add, Rmv, AddNull, AddStart, AddLoad, AddSeq, AddCas, AddCasFails, AddStore,
     AddPublish, RmvSeq, RmvRead, RmvFree, Deinit
<1> QED BY <1>1, <1>2, <1>3

-----------------------------------------------------------------------------
(* The theorems.                                                           *)

\* The cells' owners are counted right: the invariant holds in every state.
THEOREM RingBuffInvariant == ASSUME TwoCells PROVE Spec => []IInv
<1>1. Init => IInv
  BY InitIInv
<1>2. IInv /\ [Next]_vars => IInv'
  BY NextIInv
<1> QED BY <1>1, <1>2, PTL DEF Spec

\* Two adds never write the same cell, nor one the cell that is being read, and every
\* add and remove is one of a first in first out queue of Size items (ac_mpsc_ring_buff.h),
\* also where the indices wrap.
THEOREM RingBuffIsBoundedQueue == ASSUME TwoCells PROVE Spec => ImplementsBoundedQueue
<1>1. Init => Abstract!Init
  BY InitAbstract
<1>2. IInv /\ [Next]_vars => [Abstract!Next]_(Abstract!vars)
  BY NextAbstract
<1>3. IInv => TypeOK /\ CellsNotShared
  BY IInvShared DEF IInv
<1> QED BY <1>1, <1>2, <1>3, RingBuffInvariant, PTL DEF Spec, ImplementsBoundedQueue, Abstract!Spec
=============================================================================
