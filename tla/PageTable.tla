----------------------------- MODULE PageTable ------------------------------
(***************************************************************************)
(* Paging on x86_64: the stack of pages for tables, the early page tables  *)
(* (linear = physical) or those of a multiboot2 memory map, and            *)
(* page_table_map_lin_to_phy, which drivers call to map their registers.   *)
(* One action is the check of a call, the choice of the next page's size,  *)
(* one level of the walk to its table, or the writing of its entry.        *)
(*                                                                         *)
(* Addresses and lengths are in 4K pages, and a table has Fan entries for  *)
(* 512.  External: Walk, the processor's translation.                      *)
(***************************************************************************)
EXTENDS Integers, Sequences, FiniteSets

CONSTANTS
  Fan,       \* entries of a table
  Pages,     \* phylin_4k_pages
  Regions,   \* what may be mapped: [lin, phy, len, caching, aligned]
  Maps,      \* memory maps, with some RAM: sequences of regions with their type
  MaxCalls   \* bound: calls of page_table_map_lin_to_phy by drivers

Overlaps(r, s) == \E a \in r.lin .. r.lin + r.len - 1 : a \in s.lin .. s.lin + s.len - 1

\* The index of an address in a table of level l, and the size of that level's page.
Size(l) == <<1, Fan, Fan * Fan, Fan * Fan * Fan>>[l]
Idx(a, l) == (a \div Size(l)) % Fan

\* A table's last entry is not for a region, as all callers map addresses far below;
\* they map linear = physical, and a memory map lists no RAM twice.
PageTableAssumption ==
  LET MayMap == {r \in [lin : Nat, phy : Nat, len : Nat, caching : 0 .. 8, aligned : BOOLEAN] :
                   r.phy = r.lin /\ r.lin + r.len <= (Fan - 1) * Size(4)}
  IN /\ Fan \in Nat /\ Fan > 1 /\ Pages \in Nat /\ MaxCalls \in Nat
     /\ Regions \subseteq MayMap
     /\ Maps \subseteq Seq([region : MayMap, type : Nat])
     /\ \A m \in Maps : \A i, j \in DOMAIN m :
          i # j /\ m[i].type = 1 /\ m[j].type = 1 => ~Overlaps(m[i].region, m[j].region)

Null == 0
Tables == 1 .. Pages

VARIABLES
  mem,      \* the tables: [p, l, phy, c], l being the level of a page's entry,
            \* 0 in the entry that points to a table, c the caching bits
  top,      \* pages taken from phylin_4k_stack
  cr3,      \* the table in use
  regs,     \* the bits that determine the page mode
  pc,       \* where the program is
  req,      \* the rest of the region being mapped
  todo,     \* the rest of the memory map, from the region being mapped on
  base,     \* page_table_base
  walk,     \* the table reached, its level, and the level of the page
  asked,    \* what was mapped in base
  calls

pvars == <<mem, top, cr3, regs, pc, req, todo, base, walk, asked, calls>>

NoEntry == [p |-> FALSE, l |-> 0, phy |-> 0, c |-> 0]
NoRegion == [lin |-> 0, phy |-> 0, len |-> 0, caching |-> 0, aligned |-> TRUE]

\* get_page_mode, from CR0.PG, CR4.PAE, EFER.LME and CR4.PCIDE.
PageMode(r) ==
  CASE ~r.pg -> "unknown"
    [] r.pg /\ ~r.pae /\ ~r.lme -> "nrml_32bit"
    [] r.pg /\ r.pae /\ ~r.lme -> "pae_32bit"
    [] r.pg /\ r.pae /\ r.lme -> IF r.pcide THEN "pcide_64bit" ELSE "nrml_64bit"
    [] OTHER -> "unknown"

\* get_page_table_linear_addr: the base in CR3, which has its low bits as offset in
\* PAE mode only.
PageTableLinearAddr ==
  IF PageMode(regs) \in {"nrml_32bit", "nrml_64bit", "pcide_64bit", "pae_32bit"}
  THEN cr3 ELSE Null

\* For the moment linear == physical.
LinearToPhysical(a) == a

Init ==
  /\ mem = [t \in Tables |-> [i \in 0 .. Fan - 1 |-> NoEntry]]
  /\ top = 0
  /\ cr3 = Null    \* the boot loader's
  /\ regs \in [pg : {TRUE}, pae : {TRUE}, lme : {TRUE}, pcide : BOOLEAN]
  /\ pc = "boot"
  /\ req = NoRegion
  /\ todo = <<>>
  /\ base = Null
  /\ walk = [tab |-> Null, l |-> 0, target |-> 0]
  /\ asked = {}
  /\ calls = 0

-----------------------------------------------------------------------------
(* The callers.                                                            *)

\* init_early_page_tables, and init_page_tables with a map.
InitEarly(r) ==
  /\ pc = "boot"
  /\ r.aligned /\ r.caching = 1
  /\ req' = r
  /\ base' = Null
  /\ todo' = <<>>
  /\ pc' = "check"
  /\ UNCHANGED <<mem, top, cr3, regs, walk, asked, calls>>

InitMap(m) ==
  /\ pc = "boot"
  /\ todo' = m
  /\ base' = Null
  /\ pc' = "entry"
  /\ UNCHANGED <<mem, top, cr3, regs, req, walk, asked, calls>>

\* The next entry of the map, RAM (type 1) or not, or its end: CR3 is set.
Entry ==
  /\ pc = "entry"
  /\ \/ todo = <<>> /\ cr3' = base /\ pc' = "idle" /\ UNCHANGED <<req, todo>>
     \/ /\ todo # <<>> /\ Head(todo).type = 1
        /\ req' = Head(todo).region /\ pc' = "check"
        /\ UNCHANGED <<cr3, todo>>
     \/ todo # <<>> /\ Head(todo).type # 1 /\ todo' = Tail(todo) /\ UNCHANGED <<cr3, pc, req>>
  /\ UNCHANGED <<mem, top, regs, base, walk, asked, calls>>

\* The APIC's and the IOAPIC's registers, in no mapped region.
Map(r) ==
  /\ pc = "idle" /\ cr3 # Null /\ calls < MaxCalls
  /\ \A s \in asked : ~Overlaps(r, s)
  /\ calls' = calls + 1
  /\ base' = PageTableLinearAddr
  /\ req' = r
  /\ pc' = "check"
  /\ UNCHANGED <<mem, top, cr3, regs, todo, walk, asked>>

\* What page_table_map_lin_to_phy returns b to: a driver ignores it, init_page_tables
\* resets at AC_NULL, init_early_page_tables sets CR3 to it.
Return(b) ==
  /\ base' = b
  /\ \/ /\ cr3 # Null
        /\ pc' = "idle"
        /\ UNCHANGED <<cr3, todo>>
     \/ /\ cr3 = Null /\ todo # <<>>
        /\ pc' = IF b = Null THEN "reset" ELSE "entry"
        /\ todo' = Tail(todo)
        /\ UNCHANGED cr3
     \/ /\ cr3 = Null /\ todo = <<>>
        /\ pc' = "idle"
        /\ cr3' = b
        /\ UNCHANGED todo

-----------------------------------------------------------------------------
(* page_table_map_lin_to_phy.                                              *)

\* calloc_phylin_4k_page and alloc_pde: the next page, cleared, or a reset.
CanAlloc == top < Pages
Alloc(m) == [m EXCEPT ![top + 1] = [i \in 0 .. Fan - 1 |-> NoEntry]]
Pointer(t) == [p |-> TRUE, l |-> 0, phy |-> t, c |-> 0]

Check ==
  /\ pc = "check"
  /\ IF ~req.aligned THEN Return(Null) /\ UNCHANGED <<mem, top, asked>>
     ELSE IF base # Null
          THEN /\ pc' = "loop"
               /\ asked' = asked \cup {req}
               /\ UNCHANGED <<mem, top, cr3, base, todo>>
     ELSE IF ~CanAlloc THEN pc' = "reset" /\ UNCHANGED <<mem, top, cr3, base, asked, todo>>
     ELSE /\ mem' = [Alloc(mem) EXCEPT ![top + 1][Fan - 1] = Pointer(top + 1)]
          /\ top' = top + 1
          /\ base' = top + 1
          /\ asked' = {req}
          /\ pc' = "loop"
          /\ UNCHANGED <<cr3, todo>>
  /\ UNCHANGED <<regs, req, walk, calls>>

Fits(r, l) == r.lin % Size(l) = 0 /\ r.phy % Size(l) = 0 /\ r.len >= Size(l)

\* Mutant of Target: the length is not looked at.
TargetLong(r) == CHOOSE l \in 1 .. 3 : /\ r.lin % Size(l) = 0
                                       /\ l < 3 => r.lin % Size(l + 1) # 0

\* The largest page that fits: 1G, 2M or 4K.
Target(r) == CHOOSE l \in 1 .. 3 : Fits(r, l) /\ \A k \in 1 .. 3 : Fits(r, k) => k <= l

Loop ==
  /\ pc = "loop"
  /\ IF req.len < 1
     THEN Return(base) /\ UNCHANGED walk
     ELSE /\ walk' = [tab |-> base, l |-> 4, target |-> Target(req)]
          /\ pc' = "walk"
          /\ UNCHANGED <<cr3, base, todo>>
  /\ UNCHANGED <<mem, top, regs, req, asked, calls>>

\* get_or_alloc_pde, one level down.  An entry that maps a page is taken for one that
\* points to a table ("corrupt").
Descend ==
  /\ pc = "walk" /\ walk.l > walk.target
  /\ LET i == Idx(req.lin, walk.l)
         e == mem[walk.tab][i]
         Down(t) == walk' = [walk EXCEPT !.tab = t, !.l = @ - 1]
     IN \/ e.p /\ e.l = 0 /\ Down(e.phy) /\ UNCHANGED <<mem, top, pc>>
        \/ e.p /\ e.l > 0 /\ pc' = "corrupt" /\ UNCHANGED <<mem, top, walk>>
        \/ /\ ~e.p /\ CanAlloc
           /\ mem' = [Alloc(mem) EXCEPT ![walk.tab][i] = Pointer(top + 1)]
           /\ top' = top + 1
           /\ Down(top + 1)
           /\ UNCHANGED pc
        \/ ~e.p /\ ~CanAlloc /\ pc' = "reset" /\ UNCHANGED <<mem, top, walk>>
  /\ UNCHANGED <<cr3, regs, req, todo, base, asked, calls>>

\* get_caching_bits of the modes 1 to 8: pat, pcd and pwt as a number.
CachingOk(c) == c \in 1 .. 8
CachingBits(c) == (c - 1) % 8

\* The entry, unless it is present ("ABORTING") or the mode has no bits.
Place ==
  /\ pc = "walk" /\ walk.l = walk.target
  /\ LET i == Idx(req.lin, walk.l)
         n == Size(walk.l)
     IN IF mem[walk.tab][i].p \/ ~CachingOk(req.caching)
        THEN pc' = "reset" /\ UNCHANGED <<mem, req>>
        ELSE /\ mem' = [mem EXCEPT ![walk.tab][i] =
                          [p |-> TRUE, l |-> walk.l, phy |-> LinearToPhysical(req.lin),
                           c |-> CachingBits(req.caching)]]
             /\ req' = [req EXCEPT !.lin = @ + n, !.phy = @ + n, !.len = @ - n]
             /\ pc' = "loop"
  /\ UNCHANGED <<top, cr3, regs, todo, base, walk, asked, calls>>

-----------------------------------------------------------------------------

Next ==
  \/ \E r \in Regions : InitEarly(r) \/ Map(r)
  \/ \E m \in Maps : InitMap(m)
  \/ Entry \/ Check \/ Loop \/ Descend \/ Place

Spec == Init /\ [][Next]_pvars

-----------------------------------------------------------------------------
(* Properties                                                              *)

\* The entry for an address in the table that e points to; e where it is a page or not
\* present.  And the entry it ends at, from table b.
Below(e, a, l) == IF e.p /\ e.l = 0 THEN mem[e.phy][Idx(a, l)] ELSE e
Walk(b, a) == Below(Below(Below(Below(Pointer(b), a, 4), a, 3), a, 2), a, 1)

\* When no call is in progress, an address is mapped if and only if it is in a
\* region that was asked for, and then to the physical address and with the
\* caching of that region, whatever sizes of pages the call chose; the last entry
\* of the table is the table itself.  A call on regions of their own ends in a
\* reset only for want of pages or of a caching mode, and never takes a page for
\* a table.
MapsWhatIsAsked ==
  /\ pc = "idle" /\ cr3 # Null =>
       /\ mem[cr3][Fan - 1] = Pointer(cr3)
       /\ \A a \in 0 .. (Fan - 1) * Size(4) - 1 :
            LET e == Walk(cr3, a)
                R == {r \in asked : a \in r.lin .. r.lin + r.len - 1}
            IN /\ e.p <=> R # {}
               /\ \A r \in R : /\ e.phy + (a % Size(e.l)) = r.phy + (a - r.lin)
                               /\ e.c = r.caching - 1
  /\ pc = "reset" => top = Pages \/ req.caching = 0 \/ ~req.aligned
  /\ pc # "corrupt"
=============================================================================
