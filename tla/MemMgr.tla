------------------------------- MODULE MemMgr -------------------------------
(***************************************************************************)
(* The memory manager of the platforms without a libc                      *)
(* (platform/generic/libs/ac_memmgr): an index into one array that only    *)
(* grows.  ac_malloc reads the index and then replaces it with a compare   *)
(* and exchange -- whose expected value is the index itself.               *)
(***************************************************************************)
EXTENDS Integers

CONSTANTS
  Threads,
  Align,     \* MEM_ALIGN
  MaxIdx,    \* MAX_IDX
  Word,      \* 2^64: sizes wrap
  Sizes,     \* the sizes asked for, some of them close to Word
  Counts     \* the counts ac_calloc is called with

MemAssumption ==
  /\ Align \in Nat \ {0} /\ MaxIdx \in Nat /\ Word \in Nat
  /\ MaxIdx < Word /\ Word % Align = 0
  /\ Sizes \subseteq 0 .. Word - 1 /\ Counts \subseteq Nat

VARIABLES
  idx,    \* the index
  mpc,    \* per thread: where it is in ac_malloc
  size,   \* per thread: the rounded size
  cur,    \* per thread: cur_idx, and then what ac_malloc returned
  seen,   \* per thread: the expected value, as the exchange read it
  got     \* the memory returned: per call, <<thread, first, length>>

mmvars == <<idx, mpc, size, cur, seen, got>>

Null == -1

\* Mutant of RoundUp: down to a multiple of Align.
RoundDown(n) == n - (n % Align)

\* (size + MEM_ALIGN - 1) & ~(MEM_ALIGN - 1)
RoundUp(n) == LET m == (n + Align - 1) % Word IN m - (m % Align)

Init ==
  /\ idx = 0
  /\ mpc = [t \in Threads |-> "idle"]
  /\ size = [t \in Threads |-> <<0, 0>>]
  /\ cur = [t \in Threads |-> Null]
  /\ seen = [t \in Threads |-> 0]
  /\ got = {}

Malloc(t, n) ==
  /\ mpc[t] = "idle"
  /\ IF n = 0
     THEN cur' = [cur EXCEPT ![t] = Null] /\ UNCHANGED <<mpc, size>>
     ELSE /\ size' = [size EXCEPT ![t] = <<n, RoundUp(n)>>]
          /\ mpc' = [mpc EXCEPT ![t] = "load"]
          /\ UNCHANGED cur
  /\ UNCHANGED <<idx, seen, got>>

\* ac_calloc allocates the product, which may wrap, and clears what it is given.
Calloc(t, count, n) == Malloc(t, (count * n) % Word)

Next0(t) == (cur[t] + size[t][2]) % Word   \* next_idx

Load(t) ==
  /\ mpc[t] = "load"
  /\ cur' = [cur EXCEPT ![t] = idx]
  /\ mpc' = [mpc EXCEPT ![t] = "limit"]
  /\ UNCHANGED <<idx, size, seen, got>>

\* No more memory, or the sum wrapped.
Limit(t) ==
  /\ mpc[t] = "limit"
  /\ IF Next0(t) >= MaxIdx \/ Next0(t) <= cur[t]
     THEN mpc' = [mpc EXCEPT ![t] = "idle"] /\ cur' = [cur EXCEPT ![t] = Null]
     ELSE mpc' = [mpc EXCEPT ![t] = "expect"] /\ UNCHANGED cur
  /\ UNCHANGED <<idx, size, seen, got>>

\* __atomic_compare_exchange_n(&idx, &idx, next_idx, ...): the expected value is
\* read from idx, and then idx is compared with it; weak, so that it may fail.
Expect(t) ==
  /\ mpc[t] = "expect"
  /\ seen' = [seen EXCEPT ![t] = idx]
  /\ mpc' = [mpc EXCEPT ![t] = "exchange"]
  /\ UNCHANGED <<idx, size, cur, got>>

Exchange(t) ==
  /\ mpc[t] = "exchange"
  /\ \/ /\ idx = seen[t]
        /\ idx' = Next0(t)
        /\ got' = got \cup {<<t, cur[t], size[t][1]>>}
        /\ mpc' = [mpc EXCEPT ![t] = "idle"]
        /\ UNCHANGED seen
     \/ /\ seen' = [seen EXCEPT ![t] = idx]
        /\ mpc' = [mpc EXCEPT ![t] = "store"]
        /\ UNCHANGED <<idx, got>>
  /\ UNCHANGED <<size, cur>>

\* A failed exchange stores what it found as the expected value: in idx.
Store(t) ==
  /\ mpc[t] = "store"
  /\ idx' = seen[t]
  /\ mpc' = [mpc EXCEPT ![t] = "load"]
  /\ UNCHANGED <<size, cur, seen, got>>

Next == \E t \in Threads :
  \/ \E n \in Sizes : Malloc(t, n) \/ \E c \in Counts : Calloc(t, c, n)
  \/ Load(t) \/ Limit(t) \/ Expect(t) \/ Exchange(t) \/ Store(t)

Spec == Init /\ [][Next]_mmvars

-----------------------------------------------------------------------------
(* Properties                                                              *)

\* What ac_malloc returns is memory of the array that nobody else was given,
\* aligned, whatever the size asked for: near Word the sums wrap.
AllocatedApart ==
  \A a, b \in got :
    /\ a[2] % Align = 0 /\ a[2] + a[3] <= MaxIdx
    /\ a # b => a[2] + a[3] <= b[2] \/ b[2] + b[3] <= a[2]
=============================================================================
