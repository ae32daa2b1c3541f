------------------------------ MODULE RingBuff ------------------------------
(***************************************************************************)
(* AcMpscRingBuff (libs/ac_mpsc_ring_buff): the bounded queue in which an  *)
(* AcMsgPool keeps its free messages.  Any thread adds, one removes.       *)
(*                                                                         *)
(* Each cell has a sequence number that tells whose turn it is: a cell     *)
(* whose number is an add index is free for that add, one more and it is   *)
(* full for that remove.  Indices and sequence numbers are AcU32s that     *)
(* wrap: they are counted modulo WordSize, and a run starts at any index   *)
(* from which the interesting ones wrap.                                   *)
(*                                                                         *)
(* The counters count and processed are for debugging and not modelled.    *)
(***************************************************************************)
EXTENDS Integers, Sequences, FiniteSets

CONSTANTS
  Mems,       \* the items
  Producers,  \* the threads that add
  Size,       \* the number of cells
  WordSize,   \* 2^32 in the code
  Starts,     \* the indices a run starts at
  MaxAdds,    \* bound: how many adds a run makes
  NULL        \* AC_NULL

\* AcMpscRingBuff_init refuses a size that is not a power of two.
IsPowerOfTwo(n) == \E k \in 0 .. n : n = 2 ^ k

\* No add is overtaken by half a WordSize of others while it runs: an index
\* that compares equal is the same index, and a difference has its sign.
SizeAssumption ==
  /\ Size \in Nat \ {0} /\ WordSize \in Nat \ {0} /\ MaxAdds \in Nat
  /\ IsPowerOfTwo(Size) /\ IsPowerOfTwo(WordSize) /\ WordSize % Size = 0
  /\ MaxAdds + Size < WordSize \div 2
  /\ Starts \subseteq 0 .. WordSize - 1
  /\ NULL \notin Mems

Cells == 0 .. Size - 1
Words == 0 .. WordSize - 1

VARIABLES
  addIdx, rmvIdx,  \* add_idx and rmv_idx
  seq, cellMem,    \* per cell: the members of RingBuffCell
  live,            \* the buffer is allocated
  pc,              \* per producer: where it is in AcMpscRingBuff_add_mem
  mem, pos,        \* per producer: its argument and its local pos
  res,             \* per producer: what its last add returned
  cpc,             \* where the consumer is in AcMpscRingBuff_rmv_mem
  cmem,            \* the consumer's local mem
  ret,             \* what its last rmv returned
  adds,            \* the adds started, for MaxAdds
  entries          \* history: the items reserved and not removed

bufVars == <<addIdx, rmvIdx, seq, cellMem, live>>
prodVars == <<pc, mem, pos, res>>
consVars == <<cpc, cmem, ret>>
vars == <<bufVars, prodVars, consVars, adds, entries>>

\* Unsigned arithmetic, the cell of an index (pos & mask), and the ac_s32 the
\* difference of two words is stored in.
Word(n) == n % WordSize
Cell(i) == i % Size
Signed(w) == IF w < WordSize \div 2 THEN w ELSE w - WordSize
Dif(a, b) == Signed(Word(a - b))

\* AcMpscRingBuff_init, or the state after as many adds as removes.
Init ==
  /\ addIdx \in Starts
  /\ rmvIdx = addIdx
  /\ seq = [c \in Cells |-> Word(addIdx + Cell(c - addIdx))]
  /\ cellMem = [c \in Cells |-> NULL]
  /\ live = TRUE
  /\ pc = [p \in Producers |-> "idle"]
  /\ mem = [p \in Producers |-> NULL]
  /\ pos = [p \in Producers |-> NULL]
  /\ res = [p \in Producers |-> NULL]
  /\ cpc = "idle"
  /\ cmem = NULL
  /\ ret = NULL
  /\ adds = 0
  /\ entries = <<>>

-----------------------------------------------------------------------------
(* AcMpscRingBuff_add_mem                                                  *)

\* Adding AC_NULL does nothing and succeeds.
AddNull(p) ==
  /\ pc[p] = "idle"
  /\ live
  /\ res' = [res EXCEPT ![p] = TRUE]
  /\ UNCHANGED <<bufVars, pc, mem, pos, consVars, adds, entries>>

AddStart(p, m) ==
  /\ pc[p] = "idle"
  /\ live
  /\ adds < MaxAdds
  /\ adds' = adds + 1
  /\ mem' = [mem EXCEPT ![p] = m]
  /\ pc' = [pc EXCEPT ![p] = "load"]
  /\ UNCHANGED <<bufVars, pos, res, consVars, entries>>

\* pos = rb->add_idx
AddLoad(p) ==
  /\ pc[p] = "load"
  /\ pos' = [pos EXCEPT ![p] = addIdx]
  /\ pc' = [pc EXCEPT ![p] = "seq"]
  /\ UNCHANGED <<bufVars, mem, res, consVars, adds, entries>>

\* Mutant of Turn: an add waits for the consumer to empty its cell.
TurnWaits(d) == IF d = 0 THEN "cas" ELSE "load"

\* What the difference between the cell's number and pos says: the cell is
\* free, it is full, or another add took it and pos is stale.
Turn(d) == IF d = 0 THEN "cas" ELSE IF d < 0 THEN "idle" ELSE "load"

\* The load of the cell's number.  A full cell ends the add with AC_FALSE.
AddSeq(p) ==
  /\ pc[p] = "seq"
  /\ LET turn == Turn(Dif(seq[Cell(pos[p])], pos[p]))
         full == turn = "idle"
     IN /\ pc' = [pc EXCEPT ![p] = turn]
        /\ res' = IF full THEN [res EXCEPT ![p] = FALSE] ELSE res
        /\ mem' = IF full THEN [mem EXCEPT ![p] = NULL] ELSE mem
        /\ pos' = IF turn = "cas" THEN pos ELSE [pos EXCEPT ![p] = NULL]
  /\ UNCHANGED <<bufVars, consVars, adds, entries>>

AddIdxIs(i) == addIdx = i

\* The compare and exchange that reserves index pos.
AddCas(p) ==
  /\ pc[p] = "cas"
  /\ AddIdxIs(pos[p])
  /\ addIdx' = Word(pos[p] + 1)
  /\ entries' = Append(entries, [mem |-> mem[p], by |-> p, ready |-> FALSE])
  /\ pc' = [pc EXCEPT ![p] = "store"]
  /\ UNCHANGED <<rmvIdx, seq, cellMem, live, mem, pos, res, consVars, adds>>

\* It fails when another add was faster, and, being weak, for no reason too;
\* pos is then what add_idx was.
AddCasFails(p) ==
  /\ pc[p] = "cas"
  /\ pos' = [pos EXCEPT ![p] = addIdx]
  /\ pc' = [pc EXCEPT ![p] = "seq"]
  /\ UNCHANGED <<bufVars, mem, res, consVars, adds, entries>>

\* cell->mem = mem
AddStore(p) ==
  /\ pc[p] = "store"
  /\ cellMem' = [cellMem EXCEPT ![Cell(pos[p])] = mem[p]]
  /\ pc' = [pc EXCEPT ![p] = "publish"]
  /\ UNCHANGED <<addIdx, rmvIdx, seq, live, mem, pos, res, consVars, adds, entries>>

\* The store of the cell's number that lets the consumer have it.
AddPublish(p) ==
  /\ pc[p] = "publish"
  /\ seq' = [seq EXCEPT ![Cell(pos[p])] = Word(pos[p] + 1)]
  /\ entries' = [i \in DOMAIN entries |->
                   IF entries[i].by = p THEN [entries[i] EXCEPT !.ready = TRUE]
                                        ELSE entries[i]]
  /\ res' = [res EXCEPT ![p] = TRUE]
  /\ pc' = [pc EXCEPT ![p] = "idle"]
  /\ mem' = [mem EXCEPT ![p] = NULL]
  /\ pos' = [pos EXCEPT ![p] = NULL]
  /\ UNCHANGED <<addIdx, rmvIdx, cellMem, live, consVars, adds>>

-----------------------------------------------------------------------------
(* AcMpscRingBuff_rmv_mem                                                  *)

NotReady(s) == Dif(s, rmvIdx + 1) < 0

\* The load of the oldest cell's number: AC_NULL when it is not full yet.
RmvSeq ==
  /\ cpc = "idle"
  /\ live
  /\ IF NotReady(seq[Cell(rmvIdx)])
       THEN ret' = NULL /\ UNCHANGED cpc
       ELSE cpc' = "read" /\ UNCHANGED ret
  /\ UNCHANGED <<bufVars, prodVars, cmem, adds, entries>>

\* mem = cell->mem
RmvRead ==
  /\ cpc = "read"
  /\ cmem' = cellMem[Cell(rmvIdx)]
  /\ cpc' = "free"
  /\ UNCHANGED <<bufVars, prodVars, ret, adds, entries>>

\* Mutant of NextTurn: the cell is freed for the index just removed.
NextTurnNow == Word(rmvIdx)
NextTurn == Word(rmvIdx + Size)

\* The cell is handed to the add one lap ahead; rmv_idx is the consumer's own.
RmvFree ==
  /\ cpc = "free"
  /\ seq' = [seq EXCEPT ![Cell(rmvIdx)] = NextTurn]
  /\ rmvIdx' = Word(rmvIdx + 1)
  /\ ret' = cmem
  /\ entries' = Tail(entries)
  /\ cpc' = "idle"
  /\ cmem' = NULL
  /\ UNCHANGED <<addIdx, cellMem, live, prodVars, adds>>

-----------------------------------------------------------------------------

\* AcMpscRingBuff_deinit, "assumes the ring buffer is EMPTY"; nobody is using it.
Deinit ==
  /\ live
  /\ entries = <<>>
  /\ cpc = "idle"
  /\ \A p \in Producers : pc[p] = "idle"
  /\ live' = FALSE
  /\ addIdx' = 0
  /\ rmvIdx' = 0
  /\ UNCHANGED <<seq, cellMem, prodVars, consVars, adds, entries>>

Add(p) ==
  AddLoad(p) \/ AddSeq(p) \/ AddCas(p) \/ AddStore(p) \/ AddPublish(p)

Rmv == RmvSeq \/ RmvRead \/ RmvFree

Next ==
  \/ \E p \in Producers :
       \/ AddNull(p)
       \/ \E m \in Mems : AddStart(p, m)
       \/ Add(p)
       \/ AddCasFails(p)
  \/ Rmv
  \/ Deinit

Spec == Init /\ [][Next]_vars

(* A thread in the middle of an add is scheduled again, and its weak       *)
(* compare and exchange does not fail for no reason for ever.              *)
FairAdd(p) == WF_vars(Add(p) \/ AddCasFails(p)) /\ SF_vars(AddCas(p))

(* The owner of a message pool removes again and again.                    *)
FairRmv == WF_vars(Rmv)

-----------------------------------------------------------------------------
(* Properties                                                              *)

TypeOK ==
  /\ addIdx \in Words /\ rmvIdx \in Words
  /\ seq \in [Cells -> Words]
  /\ cellMem \in [Cells -> Mems \cup {NULL}]
  /\ live \in BOOLEAN
  /\ pc \in [Producers -> {"idle", "load", "seq", "cas", "store", "publish"}]
  /\ mem \in [Producers -> Mems \cup {NULL}]
  /\ pos \in [Producers -> Words \cup {NULL}]
  /\ res \in [Producers -> BOOLEAN \cup {NULL}]
  /\ cpc \in {"idle", "read", "free"}
  /\ cmem \in Mems \cup {NULL}
  /\ ret \in Mems \cup {NULL}
  /\ adds \in 0 .. MaxAdds
  /\ entries \in Seq([mem : Mems, by : Producers, ready : BOOLEAN])

\* Cells have one owner: two adds never write the same cell, and none writes
\* the cell the consumer is reading.
CellsNotShared ==
  LET writing == {p \in Producers : pc[p] \in {"store", "publish"}}
  IN  /\ \A p, q \in writing : Cell(pos[p]) = Cell(pos[q]) => p = q
      /\ cpc # "idle" => \A p \in writing : Cell(pos[p]) # Cell(rmvIdx)

\* The buffer implements the bounded queue: items leave once, in the order of
\* their reservations; AC_FALSE means full and AC_NULL means that the oldest
\* item is missing or its add unfinished, also across the wrap of indices.
Abstract == INSTANCE BoundedQueue

ImplementsBoundedQueue == Abstract!Spec /\ [](TypeOK /\ CellsNotShared)

\* An add returns whatever the other threads do, stop anywhere included ("never
\* blocks"): it is only started again by adds that succeed.  And every item reserved
\* leaves the buffer if the consumer keeps removing and adds that reserved a cell are
\* not stopped before they publish it.
AddReturns ==
  /\ \A p \in Producers : FairAdd(p) => (pc[p] # "idle" ~> pc[p] = "idle")
  /\ (FairRmv /\ \A p \in Producers : FairAdd(p)) => (Len(entries) > 0 ~> Len(entries) = 0)
=============================================================================
