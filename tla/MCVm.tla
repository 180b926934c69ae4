-------------------------------- MODULE MCVm --------------------------------
(* A small instance of Vm: a user address space of two page tables with     *)
(* two pages each, pages of two units.                                      *)
EXTENDS Vm, FiniteSets

Ph(load, memsz, filesz) ==
    [whole |-> TRUE, load |-> load, vaddr |-> 0, memsz |-> memsz,
     filesz |-> filesz, avail |-> filesz]
At(vaddr, memsz, filesz) == [Ph(TRUE, memsz, filesz) EXCEPT !.vaddr = vaddr]
Prog(phs) == [hdr |-> TRUE, phs |-> phs, args |-> 1]

\* A program with a header to skip and a page of code.
Good == Prog(<<Ph(FALSE, 0, 0), Ph(TRUE, 2, 1)>>)

\* What exec() refuses.
NoElf    == [Good EXCEPT !.hdr = FALSE]
CutData  == Prog(<<[Ph(TRUE, 3, 3) EXCEPT !.avail = 2]>>)
TooMuch  == Prog(<<Ph(TRUE, 1, 2)>>)
TooLarge == Prog(<<Ph(TRUE, 8, 1)>>)
NoRoom   == Prog(<<Ph(TRUE, 3, 0)>>)
NoSize   == Prog(<<Ph(TRUE, 0, 0)>>)
BigArgs  == [Prog(<<Ph(TRUE, 2, 0)>>) EXCEPT !.args = 3]
HugeArgs == [Prog(<<Ph(TRUE, 2, 0)>>) EXCEPT !.args = 7]

\* What no linker makes: a segment that is not aligned, and two whose end
\* wraps, where there is no page table and past the end of the directory.
Unaligned == Prog(<<At(1, 1, 1)>>)
NoTable   == Prog(<<At(4, 61, 1)>>)
PastEnd   == Prog(<<At(62, 4, 1)>>)

MCPrograms == {Good, NoElf, CutData, TooMuch, TooLarge, NoRoom, NoSize, BigArgs,
               HugeArgs, Unaligned, NoTable, PastEnd}
MCDeltas == {-3, 3}

\* exec() fails half way, and before it has a directory.
MCFailing == {NoElf, TooLarge}

(* Which block the allocator hands out is of no interest, nor what a free   *)
(* block holds: states that differ in the names of blocks only are one.     *)
(* That is sound as long as every block has one holder, so the view tells   *)
(* the states where it has not from all others.  It leaves out which        *)
(* program exec() has given up when it takes its memory down, what follows  *)
(* a panic, which is nothing, and what follows a wild pointer, of which the *)
(* properties say nothing.                                                  *)

TableView(t) == <<t \in BootTables,
                  [j \in Ptes |-> IF pgt[t][j].pa = NULL THEN NoPte
                                  ELSE [pa |-> data[pgt[t][j].pa], ap |-> pgt[t][j].ap]]>>
DirView(d) == <<d \in BootTables,
                [i \in Pdes |-> IF pgd[d][i] = NULL THEN <<NULL, NULL>> ELSE TableView(pgd[d][i])]>>

\* Where a cached translation leads.
TlbView(e) == <<e[1], e[2] \in free,
                {<<p, i>> \in Procs \X Pages : state[p] = "USED" /\ <<i, e[2]>> \in Entries(pgdir[p])}>>

View ==
    IF wild THEN << >>
    ELSE IF panic # "" THEN <<panic, NeverShared, SizesAgree>>
    ELSE LET held == Holdings IN
         <<Cardinality(held), Cardinality({h[3] : h \in held}),
           Cardinality(free), Cardinality(boot),
           [p \in Procs |-> IF state[p] \in {"USED", "ZOMBIE"} THEN DirView(pgdir[p]) ELSE NULL],
           [p \in Procs |-> IF nd[p] # NULL THEN DirView(nd[p]) ELSE NULL],
           [p \in Procs |-> IF pc[p] = "dealloc" THEN ip[p] # NULL ELSE ip[p]],
           state, sz, cur, ttbr \in free \cup boot, ttbr = pgdir[cur], {TlbView(e) : e \in tlb},
           pc, ret, kid, k>>
=============================================================================
