--------------------------------- MODULE Vm ---------------------------------
(***************************************************************************)
(* User address spaces, vm.c, and the system calls that build and take     *)
(* them down: exec() (exec.c), growproc(), fork(), exit() and wait()       *)
(* (proc.c).  Page directories, page tables, pages and kernel stacks are   *)
(* blocks of the memory allocator; an address counts units of which        *)
(* PTE_SZ make a page.                                                     *)
(*                                                                         *)
(* A loop of the code takes one step per page.  There is one CPU and the   *)
(* kernel is not preempted: another process goes on only where the code    *)
(* may sleep, which in these calls is in ilock() and readi() of exec().    *)
(***************************************************************************)
EXTENDS Integers, Sequences

CONSTANTS Procs, InitProc,
          Blocks,     \* blocks of memory
          BootTables, \* those below INIT_KERNMAP, kept for page tables
          NULL,
          PTE_SZ,     \* units of a page
          NUM_PTE,    \* entries of a page table
          NUM_UPDE,   \* entries of a page directory
          WORD,       \* the modulus of uint
          Zero, Text, Mark, \* contents of pages: fresh, from a file, stored
          Programs,   \* the files exec() is called with
          Deltas,     \* the arguments of sbrk()
          Touched     \* the pages user programs store to

ASSUME VmAssumption ==
    /\ InitProc \in Procs /\ NULL \notin Blocks /\ NULL \notin Procs
    /\ NULL \notin Programs
    /\ BootTables \subseteq Blocks
    /\ \E b, c \in BootTables : b # c
    /\ \E b, c \in Blocks \ BootTables : b # c
    /\ PTE_SZ \in Nat \ {0} /\ NUM_PTE \in Nat \ {0} /\ NUM_UPDE \in Nat \ {0}
    /\ WORD \in Nat /\ WORD > 2 * NUM_UPDE * NUM_PTE * PTE_SZ
    /\ Deltas \subseteq Int /\ \A n \in Deltas : -WORD <= 2 * n /\ 2 * n < WORD

\* Addresses and sizes in a program header are words; a file is so much
\* shorter than WORD that offsets into it do not wrap.
ASSUME ProgramsAssumption ==
    Programs \subseteq
        [hdr : BOOLEAN, args : Nat,
         phs : Seq([whole : BOOLEAN, load : BOOLEAN, vaddr : 0 .. WORD - 1,
                    memsz : 0 .. WORD - 1, filesz : 0 .. WORD - 1,
                    avail : 0 .. WORD - PTE_SZ])]

VARIABLES
    \* the allocator and the memory it hands out
    free,     \* blocks the buddy allocator has
    boot,     \* kpt_mem.freelist
    pgd,      \* per block, as a page directory: the page table per entry
    pgt,      \* per block, as a page table: frame and access per entry
    data,     \* per block, as a page: its contents
    \* the process table
    state, kstack, pgdir, sz,
    \* the processor
    cur,      \* the process whose code or system call is running
    ttbr,     \* the page directory the MMU uses
    tlb,      \* the translations it may have cached: <<page, frame>>
    panic,    \* the message of panic(), or ""
    wild,     \* the kernel has gone through an uninitialised pointer, or
              \* one past the end of a directory
    \* the system call each process is in
    pc, ret,  \* the loop it is in, and where that loop returns to
    nd,       \* a page directory that is not, or no longer, its pgdir
    kid,      \* the slot fork() fills
    ip,       \* the file exec() has locked
    k         \* the local variables of the loops

memory == <<free, boot, pgd, pgt, data>>
table  == <<state, kstack, pgdir, sz>>
mmu    == <<cur, ttbr, tlb>>
locals == <<pc, ret, nd, kid, ip, k>>
vars   == <<memory, table, mmu, panic, wild, locals>>

PDE_SZ   == NUM_PTE * PTE_SZ
UADDR_SZ == NUM_UPDE * PDE_SZ
Pdes == 0 .. NUM_UPDE - 1
Ptes == 0 .. NUM_PTE - 1
Values == {Zero, Text, Mark}
Pages == 0 .. NUM_UPDE * NUM_PTE - 1

align_up(n, al) == ((n + al - 1) \div al) * al
PDE_IDX(a) == a \div PDE_SZ
PTE_IDX(a) == (a \div PTE_SZ) % NUM_PTE

AP_KO == FALSE      \* the user has no access
AP_KU == TRUE
NoPte == [pa |-> NULL, ap |-> AP_KO]
NoTables == [i \in Pdes |-> NULL]
NoPages  == [j \in Ptes |-> NoPte]
NoLocals == [a |-> 0, lim |-> 0, old |-> 0, sz |-> 0, seg |-> 0, args |-> 0]

Pick(S) == CHOOSE b \in S : TRUE

\* walkpgdir() without alloc: the page table of an address, or NULL, and
\* the entry in it.
Table(d, a) == pgd[d][PDE_IDX(a)]
Pte(d, a) == IF Table(d, a) = NULL THEN NoPte ELSE pgt[Table(d, a)][PTE_IDX(a)]

\* What the MMU finds in page directory d for the user.
Entries(d) == {<<i, Pte(d, i * PTE_SZ).pa>> :
                 i \in {j \in Pages : Pte(d, j * PTE_SZ).ap = AP_KU}}

\* inituvm(): table t is the only one of directory d, page m the only one of t.
OneTable(d, t) ==
    [b \in Blocks |-> IF b = d THEN [NoTables EXCEPT ![0] = t] ELSE NoTables]
OnePage(t, m) ==
    [b \in Blocks |-> IF b = t THEN [NoPages EXCEPT ![0] = [pa |-> m, ap |-> AP_KU]]
                      ELSE NoPages]

\* kpt_freerange() at boot, then userinit(): allocproc(), kpt_alloc() and
\* inituvm().
Init ==
    \E d \in {Pick(BootTables)}, s \in {Pick(Blocks \ BootTables)} :
    \E t \in {Pick(BootTables \ {d})}, m \in {Pick((Blocks \ BootTables) \ {s})} :
        /\ free = Blocks \ (BootTables \cup {s, m})
        /\ boot = BootTables \ {d, t}
        /\ pgd = OneTable(d, t) /\ pgt = OnePage(t, m)
        /\ data = [b \in Blocks |-> IF b = m THEN Text ELSE Zero]
        /\ state = [p \in Procs |-> IF p = InitProc THEN "USED" ELSE "UNUSED"]
        /\ kstack = [p \in Procs |-> IF p = InitProc THEN s ELSE NULL]
        /\ pgdir = [p \in Procs |-> IF p = InitProc THEN d ELSE NULL]
        /\ sz = [p \in Procs |-> IF p = InitProc THEN PTE_SZ ELSE 0]
        /\ cur = InitProc /\ ttbr = d /\ tlb = {}
        /\ panic = "" /\ wild = FALSE
        /\ pc = [p \in Procs |-> "user"] /\ ret = [p \in Procs |-> ""]
        /\ nd = [p \in Procs |-> NULL] /\ kid = [p \in Procs |-> NULL]
        /\ ip = [p \in Procs |-> NULL]
        /\ k = [p \in Procs |-> NoLocals]

-----------------------------------------------------------------------------
(* Control: where a process is, and how it goes on. *)

Runs(p, l) == panic = "" /\ cur = p /\ state[p] = "USED" /\ pc[p] = l

Goto(p, l, r, loc) ==
    /\ pc' = [pc EXCEPT ![p] = l]
    /\ ret' = [ret EXCEPT ![p] = r]
    /\ k' = [k EXCEPT ![p] = loc]

Return(p) == Goto(p, "user", "", NoLocals)

Panic(msg) == panic' = msg

\* switchuvm()
Switchuvm(d) == ttbr' = d /\ tlb' = {}

\* freevm() starts with deallocuvm(pgdir, UADDR_SZ, 0).
Freevm(p) == Goto(p, "dealloc", "free", [NoLocals EXCEPT !.lim = UADDR_SZ])

\* allocuvm() up to its loop, for a caller that goes on at r and that fails
\* by Fail.
Allocuvm(p, old, new, r, Fail) ==
    IF new >= UADDR_SZ THEN Fail
    ELSE Goto(p, "alloc", r, [k[p] EXCEPT !.a = align_up(old, PTE_SZ), !.old = old,
                                          !.lim = IF new < old THEN old ELSE new])

-----------------------------------------------------------------------------
(* vm.c *)

\* Where kpt_alloc() takes a block from when the allocator has fr.
KptFrom(fr) == IF boot # {} THEN boot ELSE fr

\* mappages() of one page: enter frame b at address a of directory d, with a
\* new page table from kpt_alloc() when there is none.
MapPage(d, a, b, access) ==
    \/ /\ Table(d, a) # NULL
       /\ panic' = IF Pte(d, a).pa # NULL THEN "remap" ELSE panic
       /\ pgt' = [pgt EXCEPT ![Table(d, a)][PTE_IDX(a)] = [pa |-> b, ap |-> access]]
       /\ free' = free \ {b}
       /\ UNCHANGED <<pgd, boot>>
    \/ /\ Table(d, a) = NULL
       /\ KptFrom(free \ {b}) # {}
       /\ \E t \in {Pick(KptFrom(free \ {b}))} :
            /\ pgd' = [pgd EXCEPT ![d][PDE_IDX(a)] = t]
            /\ pgt' = [pgt EXCEPT ![t] =
                         [NoPages EXCEPT ![PTE_IDX(a)] = [pa |-> b, ap |-> access]]]
            /\ free' = free \ {b, t}
            /\ boot' = boot \ {t}
       /\ UNCHANGED panic
    \/ /\ Table(d, a) = NULL
       /\ KptFrom(free \ {b}) = {}
       /\ Panic("oom: kpt_alloc")
       /\ free' = free \ {b}
       /\ UNCHANGED <<pgd, pgt, boot>>

\* The directory the loops of process p work on.
Dir(p) == IF nd[p] # NULL THEN nd[p] ELSE pgdir[p]

\* Mutant: the page is not cleared.
AllocPageNoMemset(p) ==
    /\ Runs(p, "alloc") /\ k[p].a < k[p].lim /\ free # {}
    /\ \E b \in {Pick(free)} : MapPage(Dir(p), k[p].a, b, AP_KU)
    /\ k' = [k EXCEPT ![p].a = @ + PTE_SZ]
    /\ UNCHANGED <<data, table, mmu, wild, pc, ret, nd, kid, ip>>

\* One round of allocuvm(): a zeroed page.
AllocPage(p) ==
    /\ Runs(p, "alloc") /\ k[p].a < k[p].lim /\ free # {}
    /\ \E b \in {Pick(free)} :
         /\ MapPage(Dir(p), k[p].a, b, AP_KU)
         /\ data' = [data EXCEPT ![b] = Zero]
    /\ k' = [k EXCEPT ![p].a = @ + PTE_SZ]
    /\ UNCHANGED <<table, mmu, wild, pc, ret, nd, kid, ip>>

\* Mutant: the pages allocated so far stay mapped.
AllocFailsKeeps(p) ==
    /\ Runs(p, "alloc") /\ k[p].a < k[p].lim /\ free = {}
    /\ Goto(p, "dealloc", IF ret[p] = "grow" THEN "grow" ELSE "bad",
            [k[p] EXCEPT !.a = k[p].lim])
    /\ UNCHANGED <<memory, table, mmu, panic, wild, nd, kid, ip>>

\* allocuvm() finds no memory: deallocuvm(pgdir, newsz, oldsz).
AllocFails(p) ==
    /\ Runs(p, "alloc") /\ k[p].a < k[p].lim /\ free = {}
    /\ Goto(p, "dealloc", IF ret[p] = "grow" THEN "grow" ELSE "bad",
            [k[p] EXCEPT !.a = align_up(k[p].old, PTE_SZ)])
    /\ UNCHANGED <<memory, table, mmu, panic, wild, nd, kid, ip>>

\* kfree() of the blocks of S, which panics when one of them is free already,
\* unless it has been merged with its buddy.
Kfree(S) ==
    /\ free' = free \cup S
    /\ panic' \in {panic} \cup (IF S \cap free = {} THEN {} ELSE {"kfree: double free"})

\* Mutant: the entry of a freed page stays.
DeallocPageKeepsPte(p) ==
    /\ Runs(p, "dealloc") /\ k[p].a < k[p].lim
    /\ \E d \in {Dir(p)}, a \in {k[p].a} :
         /\ k' = [k EXCEPT ![p].a =
                    (IF Table(d, a) = NULL THEN align_up(a, PDE_SZ) ELSE a) + PTE_SZ]
         /\ Kfree({Pte(d, a).pa} \ {NULL})
    /\ UNCHANGED <<boot, pgd, pgt, data, table, mmu, wild, pc, ret, nd, kid, ip>>

\* One round of deallocuvm().
DeallocPage(p) ==
    /\ Runs(p, "dealloc") /\ k[p].a < k[p].lim
    /\ \E d \in {Dir(p)}, a \in {k[p].a} :
         /\ k' = [k EXCEPT ![p].a =
                    (IF Table(d, a) = NULL THEN align_up(a, PDE_SZ) ELSE a) + PTE_SZ]
         /\ IF Pte(d, a).pa = NULL THEN UNCHANGED <<free, pgt, panic>>
            ELSE /\ Kfree({Pte(d, a).pa})
                 /\ pgt' = [pgt EXCEPT ![Table(d, a)][PTE_IDX(a)] = NoPte]
    /\ UNCHANGED <<boot, pgd, data, table, mmu, wild, pc, ret, nd, kid, ip>>

\* deallocuvm() returns inside exec(): freevm() of the new directory.
DeallocBad(p) ==
    /\ Runs(p, "dealloc") /\ k[p].a >= k[p].lim /\ ret[p] = "bad"
    /\ Freevm(p)
    /\ UNCHANGED <<memory, table, mmu, panic, wild, nd, kid, ip>>

\* Mutant: fork() forgets the kernel stack of the child it could not make.
FreeTablesKeepsStack(p) ==
    /\ Runs(p, "dealloc") /\ k[p].a >= k[p].lim /\ ret[p] = "free"
    /\ \E freed \in {{nd[p]} \cup {pgd[nd[p]][i] : i \in {j \in Pdes : pgd[nd[p]][j] # NULL}}} :
         /\ boot' = boot \cup (freed \cap BootTables)
         /\ Kfree(freed \ BootTables)
    /\ nd' = [nd EXCEPT ![p] = NULL]
    /\ ip' = [ip EXCEPT ![p] = NULL]
    /\ kid' = [kid EXCEPT ![p] = NULL]
    /\ state' = [q \in Procs |-> IF q = kid[p] THEN "UNUSED" ELSE state[q]]
    /\ Return(p)
    /\ UNCHANGED <<pgd, pgt, data, kstack, pgdir, sz, mmu, wild>>

\* The rest of freevm(): kpt_free() of the page tables and the directory;
\* then what its caller still gives back: exec() its file, fork() the slot
\* and the kernel stack of the child.
FreeTables(p) ==
    /\ Runs(p, "dealloc") /\ k[p].a >= k[p].lim /\ ret[p] = "free"
    /\ \E freed \in {{nd[p]} \cup {pgd[nd[p]][i] : i \in {j \in Pdes : pgd[nd[p]][j] # NULL}}} :
       \E stack \in {IF kid[p] # NULL THEN {kstack[kid[p]]} ELSE {}} :
         /\ boot' = boot \cup (freed \cap BootTables)
         /\ Kfree((freed \ BootTables) \cup stack)
    /\ nd' = [nd EXCEPT ![p] = NULL]
    /\ ip' = [ip EXCEPT ![p] = NULL]
    /\ kid' = [kid EXCEPT ![p] = NULL]
    /\ state' = [q \in Procs |-> IF q = kid[p] THEN "UNUSED" ELSE state[q]]
    /\ kstack' = [q \in Procs |-> IF q = kid[p] THEN NULL ELSE kstack[q]]
    /\ Return(p)
    /\ UNCHANGED <<pgd, pgt, data, pgdir, sz, mmu, wild>>
-----------------------------------------------------------------------------
(* growproc(), called by sys_sbrk(). *)

SysSbrk(p, n) ==
    /\ Runs(p, "user")
    /\ UNCHANGED <<memory, table, cur, panic, wild, nd, kid, ip>>
    /\ \/ /\ n > 0
          /\ Allocuvm(p, sz[p], sz[p] + n, "grow", Return(p))
          /\ UNCHANGED <<ttbr, tlb>>
       \/ /\ n < 0 /\ (sz[p] + n) % WORD < sz[p]
          /\ Goto(p, "dealloc", "shrink",
                  [NoLocals EXCEPT !.a = align_up(sz[p] + n, PTE_SZ),
                                   !.lim = sz[p], !.sz = sz[p] + n])
          /\ UNCHANGED <<ttbr, tlb>>
       \/ /\ n = 0 \/ (n < 0 /\ (sz[p] + n) % WORD >= sz[p])
          /\ Return(p)
          /\ Switchuvm(pgdir[p])

\* Mutant: growproc() does not call switchuvm().
ResizeNoFlush(p, n) == sz' = [sz EXCEPT ![p] = n] /\ UNCHANGED <<ttbr, tlb>>

\* The new size, and the new translations.
Resize(p, n) ==
    /\ sz' = [sz EXCEPT ![p] = n]
    /\ Switchuvm(pgdir[p])

SbrkGrown(p) ==
    /\ Runs(p, "alloc") /\ k[p].a >= k[p].lim /\ ret[p] = "grow"
    /\ Resize(p, k[p].lim)
    /\ Return(p)
    /\ UNCHANGED <<memory, state, kstack, pgdir, cur, panic, wild, nd, kid, ip>>

\* Down to size 0 looks like a failure to growproc(): the pages are gone and
\* nothing else is done.
SbrkShrunk(p) ==
    /\ Runs(p, "dealloc") /\ k[p].a >= k[p].lim /\ ret[p] = "shrink"
    /\ IF k[p].sz = 0 THEN UNCHANGED <<sz, ttbr, tlb>> ELSE Resize(p, k[p].sz)
    /\ Return(p)
    /\ UNCHANGED <<memory, state, kstack, pgdir, cur, panic, wild, nd, kid, ip>>

SbrkFails(p) ==
    /\ Runs(p, "dealloc") /\ k[p].a >= k[p].lim /\ ret[p] = "grow"
    /\ Return(p)
    /\ UNCHANGED <<memory, table, mmu, panic, wild, nd, kid, ip>>

-----------------------------------------------------------------------------
(* fork(): allocproc() and copyuvm(). *)

SysFork(p) ==
    /\ Runs(p, "user") /\ free # {}
    /\ \E q \in {r \in Procs : state[r] = "UNUSED"}, s \in {Pick(free)} :
         /\ state' = [state EXCEPT ![q] = "EMBRYO"]
         /\ kstack' = [kstack EXCEPT ![q] = s]
         /\ kid' = [kid EXCEPT ![p] = q]
         /\ \/ /\ KptFrom(free \ {s}) # {}
               /\ \E d \in {Pick(KptFrom(free \ {s}))} :
                    /\ nd' = [nd EXCEPT ![p] = d]
                    /\ pgd' = [pgd EXCEPT ![d] = NoTables]
                    /\ free' = free \ {s, d}
                    /\ boot' = boot \ {d}
               /\ Goto(p, "copy", "", NoLocals)
               /\ UNCHANGED panic
            \/ /\ KptFrom(free \ {s}) = {}
               /\ Panic("oom: kpt_alloc")
               /\ free' = free \ {s}
               /\ UNCHANGED <<boot, pgd, nd, pc, ret, k>>
    /\ UNCHANGED <<pgt, data, pgdir, sz, mmu, wild, ip>>

\* One round of copyuvm().
CopyPage(p) ==
    /\ Runs(p, "copy") /\ k[p].a < sz[p]
    /\ \E from \in {Pte(pgdir[p], k[p].a)} :
         \/ /\ from.pa = NULL
            /\ Panic(IF Table(pgdir[p], k[p].a) = NULL THEN "copyuvm: pte should exist"
                     ELSE "copyuvm: page not present")
            /\ UNCHANGED <<memory, pc, ret, k>>
         \/ /\ from.pa # NULL /\ free = {}
            /\ Freevm(p)
            /\ UNCHANGED <<memory, panic>>
         \/ /\ from.pa # NULL /\ free # {}
            /\ \E b \in {Pick(free)} :
                 /\ MapPage(nd[p], k[p].a, b, from.ap)
                 /\ data' = [data EXCEPT ![b] = data[from.pa]]
            /\ k' = [k EXCEPT ![p].a = @ + PTE_SZ]
            /\ UNCHANGED <<pc, ret>>
    /\ UNCHANGED <<table, mmu, wild, nd, kid, ip>>

Forked(p) ==
    /\ Runs(p, "copy") /\ k[p].a >= sz[p]
    /\ pgdir' = [pgdir EXCEPT ![kid[p]] = nd[p]]
    /\ sz' = [sz EXCEPT ![kid[p]] = sz[p]]
    /\ state' = [state EXCEPT ![kid[p]] = "USED"]
    /\ nd' = [nd EXCEPT ![p] = NULL]
    /\ kid' = [kid EXCEPT ![p] = NULL]
    /\ Return(p)
    /\ UNCHANGED <<memory, kstack, mmu, panic, wild, ip>>

\* exit(); the process keeps its memory until it is waited for.
SysExit(p) ==
    /\ Runs(p, "user") /\ p # InitProc
    /\ state' = [state EXCEPT ![p] = "ZOMBIE"]
    /\ UNCHANGED <<memory, kstack, pgdir, sz, mmu, panic, wild, locals>>

\* wait() finds the zombie q: free_page(kstack) and freevm(pgdir).  Nothing
\* else runs before freevm() returns, so the slot is UNUSED from here on.
SysWait(p, q) ==
    /\ Runs(p, "user") /\ state[q] = "ZOMBIE"
    /\ Kfree({kstack[q]})
    /\ kstack' = [kstack EXCEPT ![q] = NULL]
    /\ state' = [state EXCEPT ![q] = "UNUSED"]
    /\ nd' = [nd EXCEPT ![p] = pgdir[q]]
    /\ Freevm(p)
    /\ UNCHANGED <<boot, pgd, pgt, data, pgdir, sz, mmu, wild, kid, ip>>
-----------------------------------------------------------------------------
(* exec().  A program is [hdr, phs, args]: whether its header is an ELF     *)
(* header, its program headers and the size of its arguments on the stack.  *)
(* A program header is [whole, load, vaddr, memsz, filesz, avail]: whether  *)
(* the file holds all of it, and how much of the segment the file holds.    *)

\* namei() and ilock(): one process at a time has the file.
SysExec(p, f) ==
    /\ Runs(p, "user") /\ \A q \in Procs : ip[q] # f
    /\ ip' = [ip EXCEPT ![p] = f]
    /\ Goto(p, "header", "", NoLocals)
    /\ UNCHANGED <<memory, table, mmu, panic, wild, nd, kid>>

\* A bad header jumps to bad before pgdir has a value: freevm() runs over
\* whatever the word on the stack was, unless that is 0.  Here it is any
\* block; what it leads to is taken for page tables and pages and freed.
ExecHeader(p) ==
    /\ Runs(p, "header")
    /\ UNCHANGED <<pgt, data, table, mmu, kid>>
    /\ \/ /\ ~ip[p].hdr
          /\ ip' = [ip EXCEPT ![p] = NULL]
          /\ Return(p)
          /\ UNCHANGED <<free, boot, pgd, panic, wild, nd>>
       \/ /\ ~ip[p].hdr
          /\ \E d \in Blocks : nd' = [nd EXCEPT ![p] = d]
          /\ wild' = TRUE
          /\ Freevm(p)
          /\ UNCHANGED <<free, boot, pgd, panic, ip>>
       \/ /\ ip[p].hdr /\ KptFrom(free) = {}
          /\ Panic("oom: kpt_alloc")
          /\ UNCHANGED <<free, boot, pgd, wild, nd, pc, ret, k, ip>>
       \/ /\ ip[p].hdr /\ KptFrom(free) # {}
          /\ \E d \in {Pick(KptFrom(free))} :
               /\ nd' = [nd EXCEPT ![p] = d]
               /\ pgd' = [pgd EXCEPT ![d] = NoTables]
               /\ free' = free \ {d}
               /\ boot' = boot \ {d}
          /\ Goto(p, "phdr", "", [NoLocals EXCEPT !.seg = 1])
          /\ UNCHANGED <<panic, wild, ip>>

\* The next program header.  The end of a segment is a sum of two words.
ExecPhdr(p) ==
    /\ Runs(p, "phdr") /\ k[p].seg <= Len(ip[p].phs)
    /\ \E ph \in {ip[p].phs[k[p].seg]} :
         \/ /\ ~ph.whole \/ (ph.load /\ ph.memsz < ph.filesz)
            /\ Freevm(p)
         \/ /\ ph.whole /\ ~ph.load
            /\ Goto(p, "phdr", "", [k[p] EXCEPT !.seg = @ + 1])
         \/ /\ ph.whole /\ ph.load /\ ph.memsz >= ph.filesz
            /\ Allocuvm(p, k[p].sz, (ph.vaddr + ph.memsz) % WORD, "segment", Freevm(p))
    /\ UNCHANGED <<memory, table, mmu, panic, wild, nd, kid, ip>>

\* allocuvm() returns the new size of the image; 0 is its failure.
ExecAllocated(p) ==
    /\ Runs(p, "alloc") /\ k[p].a >= k[p].lim /\ ret[p] = "segment"
    /\ IF k[p].lim = 0 THEN Freevm(p)
       ELSE Goto(p, "load", "", [k[p] EXCEPT !.sz = k[p].lim, !.a = 0])
    /\ UNCHANGED <<memory, table, mmu, panic, wild, nd, kid, ip>>

\* readi() got less than the page at offset i of the segment, or all of it.
LoadNext(p, ph, i) ==
    IF ph.avail < (IF ph.filesz - i < PTE_SZ THEN ph.filesz ELSE i + PTE_SZ)
    THEN Freevm(p)
    ELSE Goto(p, "load", "", [k[p] EXCEPT !.a = @ + PTE_SZ])

\* loaduvm(): the alignment, or a round of readi() of a page, or its return.
\* The sum of a program header may have wrapped: then the segment has
\* addresses without a page table, without a page, which makes the frame
\* physical page 0, or past the end of the directory, where any word is taken
\* for an entry.
ExecLoad(p) ==
    /\ Runs(p, "load")
    /\ UNCHANGED <<free, boot, pgd, pgt, table, mmu, nd, kid, ip>>
    /\ \E ph \in {ip[p].phs[k[p].seg]}, d \in {nd[p]}, i \in {k[p].a} :
       \E a \in {(ph.vaddr + i) % WORD} :
         \/ /\ ph.vaddr % PTE_SZ # 0
            /\ Panic("loaduvm: addr must be page aligned")
            /\ UNCHANGED <<data, wild, pc, ret, k>>
         \/ /\ ph.vaddr % PTE_SZ = 0 /\ i >= ph.filesz
            /\ Goto(p, "phdr", "", [k[p] EXCEPT !.seg = @ + 1])
            /\ UNCHANGED <<data, panic, wild>>
         \/ /\ ph.vaddr % PTE_SZ = 0 /\ i < ph.filesz
            /\ a < UADDR_SZ => Table(d, a) = NULL
            /\ Panic("loaduvm: address should exist")
            /\ wild' = IF a >= UADDR_SZ THEN TRUE ELSE wild
            /\ UNCHANGED <<data, pc, ret, k>>
         \/ /\ ph.vaddr % PTE_SZ = 0 /\ i < ph.filesz
            /\ a < UADDR_SZ => Table(d, a) # NULL /\ Pte(d, a).pa = NULL
            /\ wild' = TRUE
            /\ \E b \in Blocks : data' = [data EXCEPT ![b] = Text]
            /\ LoadNext(p, ph, i)
            /\ UNCHANGED panic
         \/ /\ ph.vaddr % PTE_SZ = 0 /\ i < ph.filesz
            /\ a < UADDR_SZ /\ Pte(d, a).pa # NULL
            /\ data' = [data EXCEPT ![Pte(d, a).pa] = Text]
            /\ LoadNext(p, ph, i)
            /\ UNCHANGED <<panic, wild>>

\* No program header is left: iunlockput() and the two pages of the stack.
ExecStack(p) ==
    /\ Runs(p, "phdr") /\ k[p].seg > Len(ip[p].phs)
    /\ ip' = [ip EXCEPT ![p] = NULL]
    /\ \E top \in {align_up(k[p].sz, PTE_SZ)} :
         IF top + 2 * PTE_SZ >= UADDR_SZ THEN Freevm(p)
         ELSE Goto(p, "alloc", "stack",
                   [NoLocals EXCEPT !.a = top, !.old = top, !.args = ip[p].args,
                                    !.lim = top + 2 * PTE_SZ])
    /\ UNCHANGED <<memory, table, mmu, panic, wild, nd, kid>>

\* The addresses below top that the arguments cover, and their pages.
ArgPages(top, size) == {(a \div PTE_SZ) * PTE_SZ : a \in top - size .. top - 1}

\* clearpteu() of the guard page and copyout() of the arguments, which stops
\* at the first page that the user may not access.  Arguments that are larger
\* than the new image reach the guard page too, but the address where one of
\* them starts may have wrapped, and is then looked up past the directory.
ExecArgs(p) ==
    /\ Runs(p, "alloc") /\ k[p].a >= k[p].lim /\ ret[p] = "stack"
    /\ UNCHANGED <<free, boot, pgd, state, kstack, cur, kid, ip>>
    /\ \E d \in {nd[p]}, top \in {k[p].lim} :
       \E guard \in {top - 2 * PTE_SZ} :
         /\ panic' = IF Table(d, guard) = NULL THEN "clearpteu" ELSE panic
         /\ pgt' = [b \in Blocks |->
                      IF b = Table(d, guard) THEN [pgt[b] EXCEPT ![PTE_IDX(guard)].ap = AP_KO]
                      ELSE pgt[b]]
         /\ \/ /\ k[p].args > top
               /\ wild' \in {wild, TRUE}
               /\ Freevm(p)
               /\ UNCHANGED <<data, pgdir, sz, ttbr, tlb, nd>>
            \/ /\ k[p].args <= top
               /\ \E a \in ArgPages(top, k[p].args) : a = guard \/ Pte(d, a).ap # AP_KU
               /\ Freevm(p)
               /\ UNCHANGED <<data, pgdir, sz, ttbr, tlb, wild, nd>>
            \/ /\ k[p].args <= top
               /\ \A a \in ArgPages(top, k[p].args) : a # guard /\ Pte(d, a).ap = AP_KU
               /\ data' = [b \in Blocks |-> IF b = Pte(d, top - 1).pa THEN Text ELSE data[b]]
               /\ pgdir' = [pgdir EXCEPT ![p] = d]
               /\ sz' = [sz EXCEPT ![p] = top]
               /\ Switchuvm(d)
               /\ nd' = [nd EXCEPT ![p] = pgdir[p]]
               /\ Freevm(p)
               /\ UNCHANGED wild

-----------------------------------------------------------------------------
(* The processor. *)

\* The user program stores v in page i, through the TLB, which may have
\* cached every translation of the directory in use.
Store(p, i, v) ==
    /\ Runs(p, "user")
    /\ \E hit \in {{e \in tlb : e[1] = i}} :
       \E e \in IF hit # {} THEN hit ELSE {f \in Entries(ttbr) : f[1] = i} :
         data' = [data EXCEPT ![e[2]] = v]
    /\ tlb' = tlb \cup {e \in Entries(ttbr) : \A f \in tlb : f[1] # e[1]}
    /\ UNCHANGED <<free, boot, pgd, pgt, table, cur, ttbr, panic, wild, locals>>

\* The running process sleeps or has exited; scheduler() goes to another.
Switch(q) ==
    /\ panic = "" /\ cur # q /\ state[q] = "USED"
    /\ pc[cur] \in {"user", "header", "phdr", "load"}
    /\ cur' = q
    /\ Switchuvm(pgdir[q])
    /\ UNCHANGED <<memory, table, panic, wild, locals>>

\* panic() never returns.
Halted == panic # "" /\ UNCHANGED vars

Next ==
    \/ \E p \in Procs :
         \/ AllocPage(p) \/ AllocFails(p)
         \/ DeallocPage(p) \/ DeallocBad(p) \/ FreeTables(p)
         \/ SbrkGrown(p) \/ SbrkShrunk(p) \/ SbrkFails(p)
         \/ SysFork(p) \/ CopyPage(p) \/ Forked(p)
         \/ SysExit(p)
         \/ ExecHeader(p) \/ ExecPhdr(p) \/ ExecAllocated(p) \/ ExecLoad(p)
         \/ ExecStack(p) \/ ExecArgs(p)
         \/ Switch(p)
         \/ \E n \in Deltas : SysSbrk(p, n)
         \/ \E q \in Procs : SysWait(p, q)
         \/ \E f \in Programs : SysExec(p, f)
         \/ \E i \in Touched : Store(p, i, Mark)
    \/ Halted

Spec == Init /\ [][Next]_vars
-----------------------------------------------------------------------------
(* Properties. *)

\* The directories in use: those of processes, and those under way.
Dirs == {pgdir[p] : p \in {q \in Procs : state[q] \in {"USED", "ZOMBIE"}}}
        \cup ({nd[p] : p \in Procs} \ {NULL})
Tables == {pgd[d][i] : d \in Dirs, i \in Pdes} \ {NULL}

\* Everything that holds a block, with the block it holds.
Holdings ==
    {<<"free", b, b>> : b \in free} \cup {<<"boot", b, b>> : b \in boot}
    \cup {<<"kstack", p, kstack[p]>> : p \in {q \in Procs : state[q] # "UNUSED"}}
    \cup {<<"pgdir", p, pgdir[p]>> : p \in {q \in Procs : state[q] \in {"USED", "ZOMBIE"}}}
    \cup {<<"nd", p, nd[p]>> : p \in {q \in Procs : nd[q] # NULL}}
    \cup {<<"table", x, pgd[x[1]][x[2]]>> :
             x \in {y \in Dirs \X Pdes : pgd[y[1]][y[2]] # NULL}}
    \cup {<<"page", x, pgt[x[1]][x[2]].pa>> :
             x \in {y \in Tables \X Ptes : pgt[y[1]][y[2]].pa # NULL}}

(* What follows holds until the kernel goes through a wild pointer.  There  *)
(* are three ways to that: exec() of a file that is no ELF file frees the   *)
(* directory an uninitialised pointer leads to, and exec() of a program     *)
(* whose vaddr + memsz wraps, or of arguments larger than its image, looks  *)
(* an address up past the end of the new directory.                         *)

\* No block of memory is used twice: the frames, page tables, directories and
\* kernel stacks of all processes, the address space exec() or fork() is
\* building and the free lists are disjoint, on every error path but those.
NeverShared == ~wild => \A g, h \in Holdings : g[3] = h[3] => g = h

\* No block is lost: when exec(), fork() or sbrk() fails half way, or freevm()
\* walks a directory with few tables, everything is given back.
NeverLeaked == ~wild /\ panic = "" => Blocks \subseteq {h[3] : h \in Holdings}

\* sbrk(-sz) took all pages of p and kept its size.
Gutted(p) == state[p] = "USED" /\ sz[p] > 0 /\ Pte(pgdir[p], 0).pa = NULL

\* The sums of the program headers of f fit into a word.
Linked(f) ==
    \A i \in DOMAIN f.phs : f.phs[i].load => f.phs[i].vaddr + f.phs[i].memsz < WORD

\* Sizes, tables and pages agree: no page is mapped twice, none below sz is
\* missing and none is freed twice, so that of the panics of vm.c and of
\* kfree() a program with aligned segments whose ends do not wrap reaches two
\* only, kpt_alloc() without memory and copyuvm() of a process that gave back
\* all of its memory.
SizesAgree ==
    ~wild =>
        /\ panic \notin {"remap", "clearpteu", "copyuvm: pte should exist",
                         "kfree: double free"}
        /\ panic = "loaduvm: address should exist" => ~Linked(ip[cur])
        /\ panic = "copyuvm: page not present" => Gutted(cur)

\* kfree() is never called for a block that is free.  exec() breaks this: the
\* word that freevm() takes for the new directory may be the one of an exec()
\* that failed before, or the directory of the process itself.
NeverFreedTwice == panic # "kfree: double free"

\* The MMU never works with a directory that was freed, and a program never
\* runs with the directory, or a cached translation, of another image: exec()
\* switches before it frees the old one, sbrk() flushes what it unmapped.
MmuFresh ==
    ~wild /\ panic = "" =>
        /\ ttbr \notin free \cup boot
        /\ state[cur] = "USED" /\ pc[cur] = "user" /\ ~Gutted(cur) =>
             ttbr = pgdir[cur] /\ tlb \subseteq Entries(ttbr)

\* The memory exec() builds from program f: segments, guard page and stack.
Loads(f) == {i \in DOMAIN f.phs : f.phs[i].load}
Ends(f) == {(f.phs[i].vaddr + f.phs[i].memsz) % WORD : i \in Loads(f)}
Image(f) ==
    LET top == CHOOSE n \in Ends(f) : \A m \in Ends(f) : m <= n
        n == align_up(top, PTE_SZ) \div PTE_SZ
        Loaded(a) == \E i \in Loads(f) : /\ f.phs[i].vaddr <= a
                                          /\ a < f.phs[i].vaddr + f.phs[i].filesz
    IN  [i \in 1 .. n + 2 |->
           [val  |-> IF i = n + 2 \/ Loaded((i - 1) * PTE_SZ) THEN Text ELSE Zero,
            user |-> i # n + 1]]

Images == {<<[val |-> Text, user |-> TRUE]>>}
          \cup {Image(f) : f \in {g \in Programs : g.hdr /\ Ends(g) # {}
                                     /\ \A n \in Ends(g) : n < UADDR_SZ}}

\* The memory of process p, as its page tables have it.
MemoryOf(p) ==
    LET size == IF pc[p] = "dealloc" /\ ret[p] = "shrink" THEN k[p].sz ELSE sz[p]
    IN  IF wild \/ state[p] # "USED" \/ Gutted(p) THEN << >>
        ELSE [i \in 1 .. align_up(size, PTE_SZ) \div PTE_SZ |->
                [val  |-> data[Pte(pgdir[p], (i - 1) * PTE_SZ).pa],
                 user |-> Pte(pgdir[p], (i - 1) * PTE_SZ).ap]]

mem == [p \in Procs |-> MemoryOf(p)]
Abs == INSTANCE VmAbs

\* To its program every process has a memory of its own: a store is seen by
\* nobody else, fork() copies all of it, exec() replaces all of it or nothing,
\* whatever other processes do between its reads of the file.  Only a process
\* that gave back all of its memory may still write through the TLB, and
\* nothing is said of what a wild pointer does.
PrivateMemory ==
    Abs!Init /\ [][Abs!Next \/ wild' \/ \E p \in Procs : Gutted(p)]_<<mem, cur>>
=============================================================================
