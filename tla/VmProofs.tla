------------------------------- MODULE VmProofs -------------------------------
(***************************************************************************)
(* Proof that no block of memory is used twice while exec() does not go    *)
(* through a wild pointer, for every number of                             *)
(* processes and blocks, every layout of the address space, every set of   *)
(* programs and every argument of sbrk().  The inductive invariant says it *)
(* of the five uses a block can have, one by one, and where in which       *)
(* system call a process may be with which directory.  First what the      *)
(* changes to the page tables do to it, then the steps of the system       *)
(* calls, one lemma each.                                                  *)
(***************************************************************************)
EXTENDS Vm, TLAPS

USE Zenon

(* Arithmetic of addresses. *)

LEMMA Product == ASSUME NEW m \in Nat \ {0}, NEW n \in Nat \ {0}
                 PROVE  m * n \in Nat \ {0}
<1>1. \A x, y \in Nat : x * y \in Nat
  BY SMT
<1>2. (m - 1) * n \in Nat
  BY <1>1, SMT
<1>3. m * n = (m - 1) * n + n
  BY SMT
<1> QED BY <1>2, <1>3, SMT

LEMMA Sizes == PDE_SZ \in Nat \ {0} /\ UADDR_SZ \in Nat
<1>1. PDE_SZ \in Nat \ {0}
  BY Product, VmAssumption DEF PDE_SZ
<1>2. NUM_UPDE * PDE_SZ \in Nat \ {0}
  <2> HIDE DEF PDE_SZ
  <2> QED BY <1>1, Product, VmAssumption
<1> QED BY <1>1, <1>2 DEF UADDR_SZ

LEMMA Bounded == ASSUME NEW a \in 0 .. UADDR_SZ PROVE a \in Nat /\ a <= UADDR_SZ
  BY Sizes, SMT

LEMMA Ordered ==
    ASSUME NEW a \in Nat, NEW b \in Nat
    PROVE  /\ a < b => a <= b
           /\ a >= b => b <= a
           /\ a > 0 /\ a <= b => b > 0
           /\ a # 0 => a > 0
           /\ ~(a < 0)
           /\ a # 0 /\ a <= b => a \in 1 .. b
  BY SMT

LEMMA Chained ==
    ASSUME NEW a \in Nat, NEW b \in Nat, NEW c \in Nat, a <= b
    PROVE  (b <= c => a <= c) /\ (b < c => a < c)
  BY SMT

LEMMA Quotient ==
    ASSUME NEW a \in Nat, NEW n \in Nat \ {0}
    PROVE  a \div n \in Nat /\ a % n \in 0 .. n - 1 /\ a = n * (a \div n) + (a % n)
<1> DEFINE q == a \div n
           m == a % n
<1>1. q \in Int /\ m \in 0 .. n - 1 /\ a = n * q + m
  BY SMT
<1> HIDE DEF q, m
<1>2. q \in Nat
  <2>1. SUFFICES ASSUME q <= -1 PROVE FALSE
    BY <1>1, SMT
  <2>2. n * q <= -n
    BY <1>1, <2>1, SMT
  <2> QED BY <1>1, <2>2, SMT
<1>3. q \in Nat /\ m \in 0 .. n - 1 /\ a = n * q + m
  BY <1>1, <1>2
<1> QED BY <1>3 DEF q, m

LEMMA Below ==
    ASSUME NEW a \in Nat, NEW n \in Nat \ {0}, NEW m \in Nat, a < m * n
    PROVE  a \div n \in 0 .. m - 1
<1> DEFINE q == a \div n
<1>1. q \in Nat /\ a >= n * q
  BY Quotient, SMT
<1>2. SUFFICES ASSUME q >= m PROVE FALSE
  BY <1>1, SMT
<1> HIDE DEF q
<1>3. n * q >= n * m
  BY <1>1, <1>2, SMT
<1> QED BY <1>1, <1>3, SMT

LEMMA Index ==
    ASSUME NEW a \in Nat, a < UADDR_SZ
    PROVE  PDE_IDX(a) \in Pdes /\ PTE_IDX(a) \in Ptes
<1>1. a \div PDE_SZ \in 0 .. NUM_UPDE - 1
  BY Sizes, Below, VmAssumption DEF UADDR_SZ
<1>2. (a \div PTE_SZ) \in Nat
  BY Quotient, VmAssumption
<1>3. (a \div PTE_SZ) % NUM_PTE \in 0 .. NUM_PTE - 1
  BY <1>2, Quotient, VmAssumption
<1> QED BY <1>1, <1>3 DEF PDE_IDX, PTE_IDX, Pdes, Ptes

LEMMA Aligned ==
    ASSUME NEW n \in Nat, NEW al \in Nat \ {0}
    PROVE  align_up(n, al) \in Nat
<1>1. (n + al - 1) \div al \in Nat
  BY Quotient, SMT
<1>2. \A x, y \in Nat : x * y \in Nat
  BY SMT
<1> QED BY <1>1, <1>2 DEF align_up

\* uint newsz = oldsz + n is below oldsz only if it did not wrap around.
LEMMA Shrinks ==
    ASSUME NEW s \in 0 .. UADDR_SZ, NEW n \in Deltas, n < 0, (s + n) % WORD < s
    PROVE  s + n \in 0 .. UADDR_SZ
<1> DEFINE x == s + n
           q == x \div WORD
           m == x % WORD
<1>1. /\ WORD \in Nat \ {0} /\ WORD > 2 * UADDR_SZ
      /\ n \in Int /\ -WORD <= 2 * n /\ UADDR_SZ \in Nat
  <2>1. 2 * NUM_UPDE * NUM_PTE * PTE_SZ = 2 * UADDR_SZ
    BY VmAssumption, SMT DEF UADDR_SZ, PDE_SZ
  <2> QED BY <2>1, Sizes, VmAssumption, SMT
<1>2. x \in Int /\ q \in Int /\ m \in 0 .. WORD - 1 /\ x = WORD * q + m
  BY <1>1, SMT
<1>3. SUFFICES ASSUME x < 0 PROVE FALSE
  BY <1>1, <1>2, SMT
<1>4. m < s
  OBVIOUS
<1> HIDE DEF q, m
<1>5. q <= -1
  <2>1. q >= 0 => WORD * q >= 0
    BY <1>1, <1>2, SMT
  <2> QED BY <1>1, <1>2, <1>3, <2>1, SMT
<1>6. WORD * q <= -WORD
  BY <1>1, <1>2, <1>5, SMT
<1> QED BY <1>1, <1>2, <1>4, <1>6, SMT

(* The inductive invariant. *)

Places == {"user", "alloc", "dealloc", "copy", "header", "phdr", "load"}
Returns == {"", "grow", "shrink", "segment", "stack", "bad", "free"}
Locals == [a : Nat, lim : 0 .. UADDR_SZ, old : Nat, sz : 0 .. UADDR_SZ,
           seg : Nat, args : Nat]
TypedMemory ==
    /\ free \subseteq Blocks /\ boot \subseteq Blocks
    /\ pgd \in [Blocks -> [Pdes -> Blocks \cup {NULL}]]
    /\ pgt \in [Blocks -> [Ptes -> [pa : Blocks \cup {NULL}, ap : BOOLEAN]]]
TypedTable ==
    /\ state \in [Procs -> {"UNUSED", "EMBRYO", "USED", "ZOMBIE"}]
    /\ kstack \in [Procs -> Blocks \cup {NULL}]
    /\ pgdir \in [Procs -> Blocks \cup {NULL}]
    /\ sz \in [Procs -> 0 .. UADDR_SZ]
TypedLocals ==
    /\ nd \in [Procs -> Blocks \cup {NULL}]
    /\ kid \in [Procs -> Procs \cup {NULL}]
    /\ ip \in [Procs -> Programs \cup {NULL}]
    /\ pc \in [Procs -> Places] /\ ret \in [Procs -> Returns]
    /\ k \in [Procs -> Locals]
Typed == TypedMemory /\ TypedTable /\ TypedLocals

\* At location l with return point r a process is inside exec(), fork() or
\* freevm() and has a directory besides its own; it reads program headers.
Builds(l, r) ==
    \/ l \in {"phdr", "load", "copy"}
    \/ l = "alloc" /\ r # "grow"
    \/ l = "dealloc" /\ r \in {"bad", "free"}
Reads(l, r) == l \in {"phdr", "load"} \/ (l = "alloc" /\ r = "segment")

\* What a process at a location has: its other directory d, the slot c that
\* fork() fills, the file f of exec() and the number of its next header.
Point(l, r, d, c, f, seg) ==
    /\ Builds(l, r) => d # NULL
    /\ l = "copy" => c # NULL
    /\ l = "header" => f # NULL
    /\ Reads(l, r) => f # NULL /\ seg > 0
Points == \A p \in Procs : Point(pc[p], ret[p], nd[p], kid[p], ip[p], k[p].seg)
Used == {p \in Procs : state[p] # "UNUSED"}
Imaged == {p \in Procs : state[p] \in {"USED", "ZOMBIE"}}
Slots ==
    /\ \A p \in Used : kstack[p] # NULL
    /\ \A p \in Imaged : pgdir[p] # NULL
    /\ \A p \in Procs : kid[p] # NULL => state[kid[p]] = "EMBRYO"
    /\ \A p, q \in Procs : kid[p] # NULL /\ kid[p] = kid[q] => p = q
Control == Slots /\ Points

\* The uses of blocks: available, kernel stacks, directories (Dirs), page
\* tables (Tables) and pages.
Avail == free \cup boot
Stacks == {kstack[p] : p \in Used}
Frames == {pgt[t][j].pa : t \in Tables, j \in Ptes} \ {NULL}
Disjoint ==
    /\ Avail \cap Stacks = {} /\ Avail \cap Dirs = {}
    /\ Avail \cap Tables = {} /\ Avail \cap Frames = {}
    /\ Stacks \cap Dirs = {} /\ Stacks \cap Tables = {} /\ Stacks \cap Frames = {}
    /\ Dirs \cap Tables = {} /\ Dirs \cap Frames = {}
    /\ Tables \cap Frames = {}

\* Each use has one user.
Single ==
    /\ free \cap boot = {}
    /\ \A p, q \in Used : kstack[p] = kstack[q] => p = q
    /\ \A p, q \in Imaged : pgdir[p] = pgdir[q] => p = q
    /\ \A p, q \in Procs : nd[p] = nd[q] /\ nd[p] # NULL => p = q
    /\ \A p \in Imaged, q \in Procs : pgdir[p] # nd[q]
    /\ \A d, e \in Dirs : \A i, j \in Pdes :
          pgd[d][i] = pgd[e][j] /\ pgd[d][i] # NULL => d = e /\ i = j
    /\ \A t, u \in Tables : \A i, j \in Ptes :
          pgt[t][i].pa = pgt[u][j].pa /\ pgt[t][i].pa # NULL => t = u /\ i = j
Owned == Disjoint /\ Single
IInv == Typed /\ Control /\ Owned

\* The uses are within the blocks, one by one.
LEMMA Uses ==
    ASSUME Typed, Control
    PROVE  /\ Avail \subseteq Blocks /\ Stacks \subseteq Blocks /\ Dirs \subseteq Blocks
           /\ Tables \subseteq Blocks /\ Frames \subseteq Blocks
           /\ \A d \in Dirs : \A i \in Pdes : pgd[d][i] # NULL => pgd[d][i] \in Tables
           /\ \A t \in Tables : \A j \in Ptes : pgt[t][j].pa # NULL => pgt[t][j].pa \in Frames
           /\ \A p \in Imaged : pgdir[p] \in Dirs
           /\ \A p \in Procs : nd[p] # NULL => nd[p] \in Dirs
<1>1. Avail \subseteq Blocks /\ Stacks \subseteq Blocks
  BY SMT DEF Typed, TypedTable, TypedLocals, TypedMemory, Control, Slots, Avail, Stacks, Used
<1>2. /\ Dirs \subseteq Blocks
      /\ \A p \in Imaged : pgdir[p] \in Dirs
      /\ \A p \in Procs : nd[p] # NULL => nd[p] \in Dirs
  BY SMT DEF Typed, TypedTable, TypedLocals, Control, Slots, Dirs, Imaged
<1>3. /\ Tables \subseteq Blocks
      /\ \A d \in Dirs : \A i \in Pdes : pgd[d][i] # NULL => pgd[d][i] \in Tables
  <2>1. \A b : b \in Tables <=> b # NULL /\ \E d \in Dirs : \E i \in Pdes : b = pgd[d][i]
    BY SMT DEF Tables
  <2>2. \A d \in Dirs : \A i \in Pdes : pgd[d][i] \in Blocks \cup {NULL}
    BY <1>2, SMT DEF Typed, TypedTable, TypedLocals, TypedMemory
  <2> QED BY <2>1, <2>2, SMT
<1>4. /\ Frames \subseteq Blocks
      /\ \A t \in Tables : \A j \in Ptes : pgt[t][j].pa # NULL => pgt[t][j].pa \in Frames
  <2>1. \A b : b \in Frames <=> b # NULL /\ \E t \in Tables : \E j \in Ptes : b = pgt[t][j].pa
    BY SMT DEF Frames
  <2>2. \A t \in Tables : \A j \in Ptes : pgt[t][j].pa \in Blocks \cup {NULL}
    BY <1>3, SMT DEF Typed, TypedTable, TypedLocals, TypedMemory
  <2> QED BY <2>1, <2>2, SMT
<1> QED BY <1>1, <1>2, <1>3, <1>4

LEMMA InDirs ==
    /\ \A b : b \in Dirs <=> \/ \E p \in Imaged : b = pgdir[p]
                             \/ \E p \in Procs : b = nd[p] /\ b # NULL
    /\ \A b : b \in Dirs' <=> \/ \E p \in Imaged' : b = pgdir'[p]
                              \/ \E p \in Procs : b = nd'[p] /\ b # NULL
  BY DEF Dirs, Imaged

LEMMA InTables ==
    /\ \A b : b \in Tables <=> b # NULL /\ \E d \in Dirs : \E i \in Pdes : b = pgd[d][i]
    /\ \A b : b \in Tables' <=> b # NULL /\ \E d \in Dirs' : \E i \in Pdes : b = pgd'[d][i]
  BY SMT DEF Tables

LEMMA InFrames ==
    /\ \A b : b \in Frames <=> b # NULL /\ \E t \in Tables : \E j \in Ptes : b = pgt[t][j].pa
    /\ \A b : b \in Frames' <=> b # NULL /\ \E t \in Tables' : \E j \in Ptes : b = pgt'[t][j].pa
  BY SMT DEF Frames

LEMMA InTablesNow == \A b \in Tables : \E d \in Dirs, i \in Pdes : b = pgd[d][i] /\ b # NULL
  BY InTables, SMT

LEMMA InFramesNow == \A b \in Frames : \E t \in Tables, j \in Ptes : b # NULL /\ b = pgt[t][j].pa
  BY InFrames, SMT

LEMMA SameTables == ASSUME Dirs' = Dirs, pgd' = pgd PROVE Tables' = Tables
  BY SMT DEF Tables

LEMMA SameFrames ==
    ASSUME Tables' = Tables, \A t \in Tables : \A j \in Ptes : pgt'[t][j].pa = pgt[t][j].pa
    PROVE  Frames' = Frames
  BY InFrames, SMT

\* Directories and tables that stay as they are keep their tables and pages.
LEMMA MoreTables ==
    ASSUME Dirs \subseteq Dirs', \A d \in Dirs : pgd'[d] = pgd[d]
    PROVE  Tables \subseteq Tables'
<1>1. ASSUME NEW b \in Tables PROVE b \in Tables'
  <2>1. PICK d \in Dirs : b # NULL /\ \E i \in Pdes : b = pgd[d][i]
    BY InTables
  <2> QED BY <2>1, InTables
<1> QED BY <1>1

LEMMA MoreFrames ==
    ASSUME \A t \in Tables : \A j \in Ptes :
              pgt[t][j].pa # NULL => t \in Tables' /\ pgt'[t][j].pa = pgt[t][j].pa
    PROVE  Frames \subseteq Frames'
<1>1. ASSUME NEW b \in Frames PROVE b \in Frames'
  <2>1. PICK t \in Tables, j \in Ptes : b # NULL /\ b = pgt[t][j].pa
    BY InFramesNow
  <2>2. t \in Tables' /\ pgt'[t][j].pa = b
    BY <2>1
  <2> QED BY <2>1, <2>2, InFrames
<1> QED BY <1>1

\* The block that kpt_alloc() takes besides block s.
LEMMA KptTakes ==
    ASSUME Typed, Single, NEW s \in free, NEW t \in KptFrom(free \ {s})
    PROVE  t \in Avail /\ t # s /\ t \in Blocks /\ t # NULL
<1>1. free \cap boot = {} /\ free \subseteq Blocks /\ boot \subseteq Blocks
  BY DEF Single, Typed, TypedMemory
<1>2. t \in boot \/ t \in free \ {s}
  BY DEF KptFrom
<1> QED BY <1>1, <1>2, VmAssumption DEF Avail

(* The first state. *)

\* Memory as userinit() leaves it: directory d, kernel stack s, table t, page m.
Boots(d, s, t, m) ==
    /\ d \in BootTables /\ s \in Blocks \ BootTables /\ t \in BootTables \ {d}
    /\ m \in (Blocks \ BootTables) \ {s} /\ BootTables \subseteq Blocks /\ NULL \notin Blocks
    /\ free = Blocks \ (BootTables \cup {s, m}) /\ boot = BootTables \ {d, t}
    /\ pgd = OneTable(d, t) /\ pgt = OnePage(t, m)
    /\ state = [p \in Procs |-> IF p = InitProc THEN "USED" ELSE "UNUSED"]
    /\ kstack = [p \in Procs |-> IF p = InitProc THEN s ELSE NULL]
    /\ pgdir = [p \in Procs |-> IF p = InitProc THEN d ELSE NULL]

LEMMA First == ASSUME Init PROVE \E d, s, t, m : Boots(d, s, t, m) /\ ttbr = d
<1> DEFINE d == Pick(BootTables)
           s == Pick(Blocks \ BootTables)
           t == Pick(BootTables \ {d})
           m == Pick((Blocks \ BootTables) \ {s})
<1>1. /\ state = [p \in Procs |-> IF p = InitProc THEN "USED" ELSE "UNUSED"]
      /\ kstack = [p \in Procs |-> IF p = InitProc THEN s ELSE NULL]
      /\ pgdir = [p \in Procs |-> IF p = InitProc THEN d ELSE NULL]
      /\ ttbr = d
  BY DEF Init
<1>2. /\ free = Blocks \ (BootTables \cup {s, m})
      /\ boot = BootTables \ {d, t}
      /\ pgd = OneTable(d, t) /\ pgt = OnePage(t, m)
  BY ZenonT(30) DEF Init
<1>3. /\ d \in BootTables /\ s \in Blocks \ BootTables /\ t \in BootTables \ {d}
      /\ m \in (Blocks \ BootTables) \ {s} /\ BootTables \subseteq Blocks /\ NULL \notin Blocks
  <2>1. ASSUME NEW S, NEW x \in S PROVE Pick(S) \in S
    BY DEF Pick
  <2>2. /\ \E b \in BootTables : TRUE
        /\ \E b \in BootTables \ {d} : TRUE
        /\ \E b \in Blocks \ BootTables : TRUE
        /\ \E b \in (Blocks \ BootTables) \ {s} : TRUE
        /\ BootTables \subseteq Blocks /\ NULL \notin Blocks
    BY VmAssumption, SMT
  <2> QED BY <2>1, <2>2
<1> HIDE DEF d, s, t, m
<1> QED BY <1>1, <1>2, <1>3 DEF Boots

\* What it is used for.
LEMMA FirstUses ==
    ASSUME NEW d, NEW s, NEW t, NEW m, Boots(d, s, t, m), \A p \in Procs : nd[p] = NULL
    PROVE  /\ Used = {InitProc} /\ Imaged = {InitProc} /\ InitProc \in Procs
           /\ 0 \in Pdes /\ 0 \in Ptes
           /\ pgd[d][0] = t /\ \A i \in Pdes \ {0} : pgd[d][i] = NULL
           /\ pgt[t][0].pa = m /\ \A j \in Ptes \ {0} : pgt[t][j].pa = NULL
           /\ Stacks = {s} /\ Dirs = {d} /\ Tables = {t} /\ Frames = {m}
<1>1. Used = {InitProc} /\ Imaged = {InitProc} /\ InitProc \in Procs
  BY VmAssumption DEF Boots, Used, Imaged
<1>2. 0 \in Pdes /\ 0 \in Ptes
  BY VmAssumption, SMT DEF Pdes, Ptes
<1>3. Stacks = {s} /\ Dirs = {d}
  <2>1. kstack[InitProc] = s /\ pgdir[InitProc] = d /\ d # NULL
    BY <1>1 DEF Boots
  <2>2. Stacks = {s}
    BY <1>1, <2>1 DEF Stacks
  <2>3. Dirs = {d}
    BY <1>1, <2>1, InDirs, SMTT(20)
  <2> QED BY <2>2, <2>3
<1>4. /\ pgd[d][0] = t /\ \A i \in Pdes \ {0} : pgd[d][i] = NULL
      /\ pgt[t][0].pa = m /\ \A j \in Ptes \ {0} : pgt[t][j].pa = NULL
  BY <1>2 DEF Boots, OneTable, OnePage, NoTables, NoPages, NoPte
<1>5. t # NULL /\ m # NULL
  BY DEF Boots
<1>6. Tables = {t}
  BY <1>2, <1>3, <1>4, <1>5, SMTT(20) DEF Tables
<1>7. Frames = {m}
  BY <1>2, <1>4, <1>5, <1>6, SMTT(30) DEF Frames
<1> QED BY <1>1, <1>2, <1>3, <1>4, <1>6, <1>7

LEMMA InitOK == ASSUME Init PROVE IInv
<1>1. /\ sz = [p \in Procs |-> IF p = InitProc THEN PTE_SZ ELSE 0]
      /\ pc = [p \in Procs |-> "user"] /\ ret = [p \in Procs |-> ""]
      /\ nd = [p \in Procs |-> NULL] /\ kid = [p \in Procs |-> NULL]
      /\ ip = [p \in Procs |-> NULL]
      /\ k = [p \in Procs |-> NoLocals]
  BY DEF Init
<1>2. PICK d, s, t, m : Boots(d, s, t, m)
  BY First
<1>3. \A p \in Procs : nd[p] = NULL
  BY <1>1
<1>4. PTE_SZ \in 0 .. UADDR_SZ
  <2>1. NUM_PTE * PTE_SZ >= PTE_SZ /\ PDE_SZ \in Nat
    BY VmAssumption, Sizes, SMT DEF PDE_SZ
  <2>2. NUM_UPDE * PDE_SZ >= PDE_SZ
    BY <2>1, VmAssumption, SMT
  <2> QED BY <2>1, <2>2, VmAssumption, Sizes, SMT DEF UADDR_SZ, PDE_SZ
<1>5. TypedMemory
  <2>1. NoPte \in [pa : Blocks \cup {NULL}, ap : BOOLEAN]
    BY DEF NoPte, AP_KO
  <2>2. [pa |-> m, ap |-> AP_KU] \in [pa : Blocks \cup {NULL}, ap : BOOLEAN]
    BY <1>2 DEF Boots, AP_KU
  <2>3. NoTables \in [Pdes -> Blocks \cup {NULL}]
    BY DEF NoTables
  <2>4. NoPages \in [Ptes -> [pa : Blocks \cup {NULL}, ap : BOOLEAN]]
    BY <2>1 DEF NoPages
  <2>5. pgd \in [Blocks -> [Pdes -> Blocks \cup {NULL}]]
    BY <1>2, <2>3 DEF Boots, OneTable
  <2>6. pgt \in [Blocks -> [Ptes -> [pa : Blocks \cup {NULL}, ap : BOOLEAN]]]
    BY <1>2, <2>2, <2>4 DEF Boots, OnePage
  <2> QED BY <1>2, <2>5, <2>6 DEF Boots, TypedMemory
<1>6. TypedTable
  <2>1. 0 \in 0 .. UADDR_SZ
    BY Sizes, SMT
  <2>2. d \in Blocks /\ s \in Blocks
    BY <1>2 DEF Boots
  <2> QED BY <1>1, <1>2, <1>4, <2>1, <2>2 DEF Boots, TypedTable
<1>7. TypedLocals
  <2>1. NoLocals \in Locals
    BY Sizes, VmAssumption, SMT DEF NoLocals, Locals
  <2>2. pc \in [Procs -> Places] /\ ret \in [Procs -> Returns]
    BY <1>1 DEF Places, Returns
  <2>3. k \in [Procs -> Locals]
    BY <1>1, <2>1
  <2> QED BY <1>1, <2>2, <2>3 DEF TypedLocals
<1>8. /\ Used = {InitProc} /\ Imaged = {InitProc} /\ InitProc \in Procs
      /\ 0 \in Pdes /\ 0 \in Ptes
      /\ pgd[d][0] = t /\ \A i \in Pdes \ {0} : pgd[d][i] = NULL
      /\ pgt[t][0].pa = m /\ \A j \in Ptes \ {0} : pgt[t][j].pa = NULL
      /\ Stacks = {s} /\ Dirs = {d} /\ Tables = {t} /\ Frames = {m}
  BY <1>2, <1>3, FirstUses
<1>9. Control
  BY <1>1, <1>2, <1>8 DEF Boots, Control, Slots, Points, Point, Builds, Reads
<1>10. Disjoint
  BY <1>2, <1>8 DEF Boots, Disjoint, Avail
<1>11. Single
  <2>1. free \cap boot = {}
    BY <1>2 DEF Boots
  <2>2. pgdir[InitProc] # NULL /\ t # NULL /\ m # NULL
    BY <1>2, <1>8 DEF Boots
  <2> QED BY <1>3, <1>8, <2>1, <2>2, SMT DEF Single
<1> QED BY <1>5, <1>6, <1>7, <1>9, <1>10, <1>11 DEF IInv, Typed, Owned

(* Hand-overs of directories and stacks. *)

\* fork() hands the directory to the child; exec() swaps the two directories;
\* exit() keeps them: no block changes its use.
ChildTakes(p, q) ==
    /\ Imaged' = Imaged \cup {q} /\ nd[p] # NULL
    /\ pgdir' = [pgdir EXCEPT ![q] = nd[p]]
    /\ nd' = [nd EXCEPT ![p] = NULL]
Swaps(p) ==
    /\ Imaged' = Imaged /\ nd[p] # NULL
    /\ pgdir' = [pgdir EXCEPT ![p] = nd[p]]
    /\ nd' = [nd EXCEPT ![p] = pgdir[p]]
HandsOver ==
    /\ UNCHANGED <<free, boot, pgd, kstack>> /\ Used' = Used
    /\ \A t \in Tables : \A j \in Ptes : pgt'[t][j].pa = pgt[t][j].pa
    /\ \/ Imaged' = Imaged /\ UNCHANGED <<pgdir, nd>>
       \/ \E p \in Procs : \E q \in Procs \ Imaged : ChildTakes(p, q)
       \/ \E p \in Imaged : Swaps(p)

LEMMA HandOverOwned ==
    ASSUME Typed, Control, Owned, Typed', Control', HandsOver
    PROVE  /\ Owned' /\ Avail' = Avail /\ Stacks' = Stacks
           /\ Dirs' = Dirs /\ Tables' = Tables /\ Frames' = Frames
<1>1. Disjoint /\ Single
  BY DEF Owned
<1> DEFINE OneEach ==
             /\ Dirs' = Dirs
             /\ \A p, q \in Imaged' : pgdir'[p] = pgdir'[q] => p = q
             /\ \A p, q \in Procs : nd'[p] = nd'[q] /\ nd'[p] # NULL => p = q
             /\ \A p \in Imaged', q \in Procs : pgdir'[p] # nd'[q]
<1>2. OneEach
  <2>1. CASE Imaged' = Imaged /\ UNCHANGED <<pgdir, nd>>
    <3>1. Dirs' = Dirs
      BY <2>1, InDirs, SMTT(30)
    <3> QED BY <1>1, <2>1, <3>1 DEF Single
  <2>2. ASSUME NEW p \in Procs, NEW q \in Procs \ Imaged, ChildTakes(p, q)
        PROVE  OneEach
    <3>1. /\ \A x \in Procs : pgdir'[x] = IF x = q THEN nd[p] ELSE pgdir[x]
          /\ \A x \in Procs : nd'[x] = IF x = p THEN NULL ELSE nd[x]
          /\ Imaged' = Imaged \cup {q} /\ nd[p] # NULL
      BY <2>2 DEF ChildTakes, Typed, TypedTable, TypedLocals
    <3>2. Imaged \subseteq Procs /\ \A x \in Imaged : pgdir[x] # NULL
      BY DEF Imaged, Control, Slots
    <3>3. Dirs' = Dirs
      <4>1. ASSUME NEW b \in Dirs' PROVE b \in Dirs
        BY <3>1, <3>2, InDirs, SMT
      <4>2. ASSUME NEW b \in Dirs PROVE b \in Dirs'
        BY <3>1, <3>2, InDirs, SMTT(30)
      <4> QED BY <4>1, <4>2, ZenonT(30)
    <3> QED BY <1>1, <3>1, <3>2, <3>3, SMTT(30) DEF Single
  <2>3. ASSUME NEW p \in Imaged, Swaps(p)
        PROVE  OneEach
    <3>1. p \in Procs /\ Imaged \subseteq Procs /\ \A x \in Imaged : pgdir[x] # NULL
      BY DEF Imaged, Control, Slots
    <3>2. /\ \A x \in Procs : pgdir'[x] = IF x = p THEN nd[p] ELSE pgdir[x]
          /\ \A x \in Procs : nd'[x] = IF x = p THEN pgdir[p] ELSE nd[x]
          /\ Imaged' = Imaged /\ nd[p] # NULL
      BY <2>3, <3>1 DEF Swaps, Typed, TypedTable, TypedLocals
    <3>3. Dirs' = Dirs
      <4>1. ASSUME NEW b \in Dirs' PROVE b \in Dirs
        BY <3>1, <3>2, InDirs, SMT
      <4>2. ASSUME NEW b \in Dirs PROVE b \in Dirs'
        BY <3>1, <3>2, InDirs, SMTT(30)
      <4> QED BY <4>1, <4>2, ZenonT(30)
    <3> QED BY <1>1, <3>1, <3>2, <3>3, SMT DEF Single
  <2> HIDE DEF OneEach
  <2> QED BY <2>1, <2>2, <2>3 DEF HandsOver
<1>3. /\ free' = free /\ boot' = boot /\ pgd' = pgd /\ kstack' = kstack /\ Used' = Used
      /\ \A t \in Tables : \A j \in Ptes : pgt'[t][j].pa = pgt[t][j].pa
  BY DEF HandsOver
<1>4. Tables' = Tables
  BY <1>2, <1>3, SameTables
<1>5. Stacks' = Stacks /\ Avail' = Avail
  BY <1>3 DEF Stacks, Avail
<1>6. Frames' = Frames
  BY <1>3, <1>4, SameFrames
<1>7. Disjoint'
  BY <1>1, <1>2, <1>4, <1>5, <1>6 DEF Disjoint
<1>8. Single'
  BY <1>1, <1>2, <1>3, <1>4, SMTT(30) DEF Single
<1> QED BY <1>2, <1>4, <1>5, <1>6, <1>7, <1>8 DEF Owned

(* The steps. *)

\* What the invariant says of the process that runs.
LEMMA Here ==
    ASSUME IInv, NEW p \in Procs, NEW l, Runs(p, l)
    PROVE  /\ Typed /\ Control /\ Owned /\ p \in Imaged
           /\ Point(l, ret[p], nd[p], kid[p], ip[p], k[p].seg)
           /\ k[p] \in Locals /\ ret[p] \in Returns /\ sz[p] \in 0 .. UADDR_SZ
           /\ Dir(p) \in Dirs /\ pgdir[p] \in Dirs /\ (nd[p] # NULL => nd[p] \in Dirs)
<1>1. Typed /\ Control /\ Owned
  BY DEF IInv
<1>2. p \in Imaged /\ pc[p] = l
  BY DEF Runs, Imaged
<1>3. Point(l, ret[p], nd[p], kid[p], ip[p], k[p].seg)
  BY <1>1, <1>2 DEF Control, Points
<1>4. k[p] \in Locals /\ ret[p] \in Returns /\ sz[p] \in 0 .. UADDR_SZ
  BY <1>1 DEF Typed, TypedTable, TypedLocals
<1>5. Dir(p) \in Dirs /\ pgdir[p] \in Dirs /\ (nd[p] # NULL => nd[p] \in Dirs)
  BY <1>1, <1>2, Uses DEF Dir
<1> QED BY <1>1, <1>2, <1>3, <1>4, <1>5

\* An address that a loop goes through is one of the user's.
LEMMA Within ==
    ASSUME NEW loc \in Locals, loc.a < loc.lim
    PROVE  loc.a \in Nat /\ loc.a < UADDR_SZ /\ loc.a + PTE_SZ \in Nat
<1>1. loc.a \in Nat /\ loc.lim \in 0 .. UADDR_SZ
  BY DEF Locals
<1>2. UADDR_SZ \in Nat /\ PTE_SZ \in Nat
  BY Sizes, VmAssumption
<1> QED BY <1>1, <1>2, SMT

\* freevm() gives back directory nd[p] and its tables; fork() also the kernel
\* stack of the child it could not make.
Freed(d) == {d} \cup {pgd[d][i] : i \in {n \in Pdes : pgd[d][n] # NULL}}
Frees(p) ==
    /\ boot' = boot \cup (Freed(nd[p]) \cap BootTables)
    /\ free' = free \cup (Freed(nd[p]) \ BootTables)
                    \cup (IF kid[p] # NULL THEN {kstack[kid[p]]} ELSE {})
    /\ nd' = [nd EXCEPT ![p] = NULL]
    /\ state' = [q \in Procs |-> IF q = kid[p] THEN "UNUSED" ELSE state[q]]
    /\ kstack' = [q \in Procs |-> IF q = kid[p] THEN NULL ELSE kstack[q]]
    /\ UNCHANGED <<pgd, pgt, pgdir>>

\* fork() has a kernel stack s for slot q when kpt_alloc() panics.
TakesStack(q, s) ==
    /\ state' = [state EXCEPT ![q] = "EMBRYO"]
    /\ kstack' = [kstack EXCEPT ![q] = s]
    /\ free' = free \ {s} /\ UNCHANGED <<boot, pgd, pgt, pgdir, nd>>

\* wait() frees the kernel stack of zombie q and takes its directory.
Reaps(p, q) ==
    /\ free' = free \cup {kstack[q]}
    /\ kstack' = [kstack EXCEPT ![q] = NULL]
    /\ state' = [state EXCEPT ![q] = "UNUSED"]
    /\ nd' = [nd EXCEPT ![p] = pgdir[q]]
    /\ UNCHANGED <<boot, pgd, pgt, pgdir>>

\* Where a round of loaduvm() goes on, whichever way it finds its page, and that
\* it takes no wild pointer back.
LEMMA LoadRound ==
  \A p \in Procs : ExecLoad(p) =>
    /\ wild => wild'
    /\ \/ UNCHANGED <<pc, ret, k>>
       \/ Goto(p, "phdr", "", [k[p] EXCEPT !.seg = k[p].seg + 1])
       \/ Freevm(p)
       \/ Goto(p, "load", "", [k[p] EXCEPT !.a = k[p].a + PTE_SZ])
<1> SUFFICES ASSUME NEW p \in Procs, ExecLoad(p)
             PROVE  /\ wild => wild'
                    /\ \/ UNCHANGED <<pc, ret, k>>
                       \/ Goto(p, "phdr", "", [k[p] EXCEPT !.seg = k[p].seg + 1])
                       \/ Freevm(p)
                       \/ Goto(p, "load", "", [k[p] EXCEPT !.a = k[p].a + PTE_SZ])
  OBVIOUS
<1>1. ASSUME NEW ph, NEW i, LoadNext(p, ph, i)
      PROVE  \/ Freevm(p)
             \/ Goto(p, "load", "", [k[p] EXCEPT !.a = k[p].a + PTE_SZ])
  BY <1>1 DEF LoadNext
<1>2. PICK ph \in {ip[p].phs[k[p].seg]}, d \in {nd[p]}, i \in {k[p].a} :
      \E a \in {(ph.vaddr + i) % WORD} :
        \/ /\ ph.vaddr % PTE_SZ # 0
           /\ Panic("loaduvm: addr must be page aligned")
           /\ UNCHANGED <<data, wild, pc, ret, k>>
        \/ /\ ph.vaddr % PTE_SZ = 0 /\ i >= ph.filesz
           /\ Goto(p, "phdr", "", [k[p] EXCEPT !.seg = @ + 1])
           /\ UNCHANGED <<data, panic, wild>>
        \/ /\ ph.vaddr % PTE_SZ = 0 /\ i < ph.filesz
           /\ a < UADDR_SZ => Table(d, a) = NULL
           /\ Panic("loaduvm: address should exist")
           /\ wild' = IF a >= UADDR_SZ THEN TRUE ELSE wild
           /\ UNCHANGED <<data, pc, ret, k>>
        \/ /\ ph.vaddr % PTE_SZ = 0 /\ i < ph.filesz
           /\ a < UADDR_SZ => Table(d, a) # NULL /\ Pte(d, a).pa = NULL
           /\ wild' = TRUE
           /\ \E b \in Blocks : data' = [data EXCEPT ![b] = Text]
           /\ LoadNext(p, ph, i)
           /\ UNCHANGED panic
        \/ /\ ph.vaddr % PTE_SZ = 0 /\ i < ph.filesz
           /\ a < UADDR_SZ /\ Pte(d, a).pa # NULL
           /\ data' = [data EXCEPT ![Pte(d, a).pa] = Text]
           /\ LoadNext(p, ph, i)
           /\ UNCHANGED <<panic, wild>>
  BY DEF ExecLoad
<1>3. \/ UNCHANGED <<wild, pc, ret, k>>
      \/ /\ Goto(p, "phdr", "", [k[p] EXCEPT !.seg = k[p].seg + 1])
         /\ UNCHANGED wild
      \/ UNCHANGED <<pc, ret, k>> /\ (wild' = TRUE \/ UNCHANGED wild)
      \/ LoadNext(p, ph, i) /\ (wild' = TRUE \/ UNCHANGED wild)
  BY <1>2
<1>4. wild => wild'
  BY <1>3
<1> QED BY <1>1, <1>3, <1>4

\* Every step that does not go through a wild pointer keeps the invariant: what
\* the changes to the page tables do to the blocks, how the places of a process
\* follow each other, and the actions.
LEMMA StepOK == IInv /\ [Next]_vars /\ ~wild' => IInv'
<1>1. ASSUME Owned, UNCHANGED <<free, boot, pgd, pgt, state, kstack, pgdir, nd>>
      PROVE  Owned'
  <2> USE <1>1
  <2>1. /\ Used' = Used /\ Imaged' = Imaged /\ Avail' = Avail /\ Stacks' = Stacks
        /\ Dirs' = Dirs
    BY DEF Avail, Stacks, Dirs, Used, Imaged
  <2>2. Tables' = Tables
    BY <2>1, SMT DEF Tables
  <2>3. Frames' = Frames
    BY <2>2, SMT DEF Frames
  <2> QED BY <2>1, <2>2, <2>3, SMT DEF Owned, Disjoint, Single
\* mappages() of a page that was free.
<1>2. ASSUME Typed, Control, Owned,
             NEW d \in Dirs, NEW a \in Nat, a < UADDR_SZ, NEW b \in free,
             NEW access \in BOOLEAN, MapPage(d, a, b, access),
             UNCHANGED <<state, kstack, pgdir, nd>>
      PROVE  TypedMemory' /\ Owned'
  <2> USE <1>2
  <2> DEFINE i == PDE_IDX(a)
             j == PTE_IDX(a)
  <2>1. i \in Pdes /\ j \in Ptes
    BY Index
  <2> HIDE DEF i, j
  <2>2. /\ Stacks' = Stacks /\ Dirs' = Dirs /\ Used' = Used /\ Imaged' = Imaged
        /\ d \in Blocks /\ b \in Blocks /\ NULL \notin Blocks
    BY Uses, VmAssumption, SMT DEF Stacks, Dirs, Used, Imaged, Typed, TypedTable, TypedLocals,
       TypedMemory
  <2>3. TypedMemory /\ Disjoint /\ Single
    BY DEF Typed, TypedTable, TypedLocals, Owned
  <2>4. CASE pgd[d][i] # NULL
    <3> DEFINE t == pgd[d][i]
    <3>1. t \in Tables /\ t \in Blocks
      BY <2>1, <2>4, Uses
    <3> HIDE DEF t
    <3>2. /\ pgt' = [pgt EXCEPT ![t][j] = [pa |-> b, ap |-> access]]
          /\ free' = free \ {b} /\ UNCHANGED <<pgd, boot>>
      BY <2>4 DEF MapPage, Table, t, i, j
    <3>3. TypedMemory'
      BY <2>1, <2>2, <2>3, <3>1, <3>2 DEF TypedMemory
    <3>4. Tables' = Tables
      BY <2>2, <3>2, SameTables
    <3>5. \A u \in Tables : \A n \in Ptes :
             pgt'[u][n].pa = IF u = t /\ n = j THEN b ELSE pgt[u][n].pa
      BY <2>1, <2>3, <3>1, <3>2, Uses DEF TypedMemory
    <3>6. Frames' \subseteq Frames \cup {b}
      BY <3>4, <3>5, SMT DEF Frames
    <3>7. Avail' = Avail \ {b} /\ b \in Avail
      BY <2>3, <3>2, SMT DEF Avail, Single
    <3>8. Disjoint'
      BY <2>2, <2>3, <3>4, <3>6, <3>7 DEF Disjoint
    <3>9. Single'
      <4>1. b \notin Frames
        BY <2>3, <3>7 DEF Disjoint
      <4>2. \A u, v \in Tables : \A m, n \in Ptes :
              pgt'[u][m].pa = pgt'[v][n].pa /\ pgt'[u][m].pa # NULL => u = v /\ m = n
        BY <2>3, <3>5, <4>1, Uses, SMT DEF Single
      <4> QED BY <2>2, <2>3, <3>2, <3>4, <4>2, SMT DEF Single
    <3> QED BY <3>3, <3>8, <3>9 DEF Owned
  <2>5. CASE pgd[d][i] = NULL /\ KptFrom(free \ {b}) # {}
    <3>1. PICK t \in KptFrom(free \ {b}) :
            /\ pgd' = [pgd EXCEPT ![d][i] = t]
            /\ pgt' = [pgt EXCEPT ![t] = [NoPages EXCEPT ![j] = [pa |-> b, ap |-> access]]]
            /\ free' = free \ {b, t} /\ boot' = boot \ {t}
      BY <2>5, ZenonT(30) DEF MapPage, Table, Pick, i, j
    <3>2. t \in Avail /\ t # b /\ t \in Blocks /\ b \in Avail
      BY <2>3, <3>1, KptTakes DEF Avail
    <3>3. t \notin Dirs /\ t \notin Tables /\ t \notin Frames /\ t \notin Stacks
          /\ b \notin Frames /\ b \notin Tables
      BY <2>3, <3>2 DEF Disjoint
    <3>4. TypedMemory'
      BY <2>1, <2>2, <2>3, <3>1, <3>2, ZenonT(30) DEF TypedMemory, NoPages, NoPte, AP_KO
    <3>5. \A e \in Dirs : \A n \in Pdes :
             pgd'[e][n] = IF e = d /\ n = i THEN t ELSE pgd[e][n]
      BY <2>1, <2>2, <2>3, <3>1, Uses DEF TypedMemory
    <3>6. Tables' = Tables \cup {t}
      BY <2>1, <2>2, <2>5, <3>2, <3>5, SMTT(30) DEF Tables
    <3>7. /\ \A u \in Tables : pgt'[u] = pgt[u]
          /\ \A n \in Ptes : pgt'[t][n].pa = IF n = j THEN b ELSE NULL
      BY <2>1, <2>3, <3>1, <3>2, <3>3, Uses DEF TypedMemory, NoPages, NoPte
    <3>8. Frames' = Frames \cup {b}
      BY <2>1, <2>2, <3>6, <3>7, SMT DEF Frames
    <3>9. Avail' = Avail \ {b, t}
      BY <2>3, <3>1, <3>2, SMT DEF Avail, Single
    <3>10. Disjoint'
      BY <2>2, <2>3, <3>2, <3>3, <3>6, <3>8, <3>9, SMTT(30) DEF Disjoint
    <3>11. Single'
      <4>1. \A e, f \in Dirs : \A m, n \in Pdes :
              pgd'[e][m] = pgd'[f][n] /\ pgd'[e][m] # NULL => e = f /\ m = n
        BY <2>3, <3>3, <3>5, Uses, SMTT(30) DEF Single
      <4>2. \A u, v \in Tables' : \A m, n \in Ptes :
              pgt'[u][m].pa = pgt'[v][n].pa /\ pgt'[u][m].pa # NULL => u = v /\ m = n
        BY <2>3, <3>3, <3>6, <3>7, Uses, SMT DEF Single
      <4>3. free' \cap boot' = {}
        BY <2>3, <3>1 DEF Single
      <4> QED BY <2>2, <2>3, <4>1, <4>2, <4>3, SMT DEF Single
    <3> QED BY <3>4, <3>10, <3>11 DEF Owned
  <2>6. CASE pgd[d][i] = NULL /\ KptFrom(free \ {b}) = {}
    <3>1. free' = free \ {b} /\ UNCHANGED <<pgd, pgt, boot>>
      BY <2>6, ZenonT(30) DEF MapPage, Table, i
    <3>2. Tables' = Tables
      BY <2>2, <3>1, SameTables
    <3>3. Frames' = Frames /\ Avail' \subseteq Avail
      BY <3>1, <3>2, SameFrames DEF Avail
    <3>4. Disjoint' /\ Single'
      BY <2>2, <2>3, <3>1, <3>2, <3>3, SMT DEF Disjoint, Single
    <3> QED BY <2>3, <3>1, <3>4 DEF Owned, TypedMemory
  <2> QED BY <2>4, <2>5, <2>6
\* deallocuvm() gives back the page in entry j of table t.
<1>3. ASSUME Typed, Control, Owned,
             NEW t \in Tables, NEW j \in Ptes, NEW b \in Blocks, b = pgt[t][j].pa,
             free' = free \cup {b}, pgt' = [pgt EXCEPT ![t][j] = NoPte],
             UNCHANGED <<boot, pgd, state, kstack, pgdir, nd>>
      PROVE  TypedMemory' /\ Owned'
  <2> USE <1>3
  <2>1. t \in Blocks /\ b \in Frames /\ b # NULL
    BY Uses, VmAssumption
  <2>2. free' = free \cup {b} /\ pgt' = [pgt EXCEPT ![t][j] = NoPte]
    OBVIOUS
  <2>3. TypedMemory /\ Disjoint /\ Single
    BY DEF Typed, TypedTable, TypedLocals, Owned
  <2>4. /\ Stacks' = Stacks /\ Dirs' = Dirs /\ Used' = Used /\ Imaged' = Imaged
    BY DEF Stacks, Dirs, Used, Imaged
  <2>5. Tables' = Tables
    BY <2>4, SameTables
  <2>6. \A u \in Tables : \A n \in Ptes :
           pgt'[u][n].pa = IF u = t /\ n = j THEN NULL ELSE pgt[u][n].pa
    BY <2>1, <2>2, <2>3, Uses, SMT DEF TypedMemory, NoPte
  <2>7. TypedMemory'
    <3>1. NoPte \in [pa : Blocks \cup {NULL}, ap : BOOLEAN]
      BY DEF NoPte, AP_KO
    <3>2. pgt' \in [Blocks -> [Ptes -> [pa : Blocks \cup {NULL}, ap : BOOLEAN]]]
      BY <2>1, <2>2, <2>3, <3>1, SMT DEF TypedMemory
    <3> QED BY <2>1, <2>2, <2>3, <3>2 DEF TypedMemory
  <2>8. Frames' = Frames \ {b}
    <3>1. \A u \in Tables : \A n \in Ptes : (u # t \/ n # j) => pgt[u][n].pa # b
      BY <2>1, <2>3, SMT DEF Single
    <3> QED BY <2>1, <2>5, <2>6, <3>1, SMT DEF Frames
  <2>9. Avail' = Avail \cup {b}
    BY <2>2 DEF Avail
  <2>10. Disjoint'
    BY <2>1, <2>3, <2>4, <2>5, <2>8, <2>9, SMT DEF Disjoint
  <2>11. Single'
    <3>1. free' \cap boot' = {}
      BY <2>1, <2>2, <2>3, SMT DEF Single, Disjoint, Avail
    <3>2. \A u, v \in Tables' : \A m, n \in Ptes :
            pgt'[u][m].pa = pgt'[v][n].pa /\ pgt'[u][m].pa # NULL => u = v /\ m = n
      BY <2>3, <2>5, <2>6, SMT DEF Single
    <3> QED BY <2>3, <2>4, <2>5, <3>1, <3>2, SMT DEF Single
  <2> QED BY <2>7, <2>10, <2>11 DEF Owned
\* exec() starts with an empty directory d.
<1>4. ASSUME Typed, Control, Owned, NEW p \in Procs, NEW d \in Avail,
             nd' = [nd EXCEPT ![p] = d],
             pgd' = [pgd EXCEPT ![d] = NoTables],
             free' = free \ {d}, boot' = boot \ {d},
             UNCHANGED <<pgt, state, kstack, pgdir>>
      PROVE  TypedMemory' /\ Owned'
  <2> USE <1>4
  <2>1. TypedMemory /\ Disjoint /\ Single
    BY DEF Typed, TypedTable, TypedLocals, Owned
  <2>2. /\ d \in Blocks /\ d # NULL /\ d \notin Dirs /\ d \notin Tables /\ d \notin Frames
        /\ d \notin Stacks
    BY <2>1, Uses, VmAssumption DEF Disjoint
  <2>3. TypedMemory'
    BY <2>1, <2>2 DEF TypedMemory, NoTables
  <2>4. /\ nd'[p] = d /\ \A q \in Procs \ {p} : nd'[q] = nd[q]
        /\ Stacks' = Stacks /\ Used' = Used /\ Imaged' = Imaged
    BY DEF Typed, TypedTable, TypedLocals, Stacks, Used, Imaged
  <2>5. Dirs' \subseteq Dirs \cup {d}
    BY <2>2, <2>4 DEF Dirs
  <2>6. /\ \A e \in Dirs : pgd'[e] = pgd[e]
        /\ \A i \in Pdes : pgd'[d][i] = NULL
    BY <2>1, <2>2, Uses DEF TypedMemory, NoTables
  <2>7. Tables' \subseteq Tables
    BY <2>2, <2>5, <2>6, SMT DEF Tables
  <2>8. Frames' \subseteq Frames /\ Avail' = Avail \ {d}
    BY <2>7, SMT DEF Frames, Avail
  <2>9. Disjoint'
    BY <2>1, <2>2, <2>4, <2>5, <2>7, <2>8, SMTT(30) DEF Disjoint
  <2>10. Single'
    <3>1. \A e, f \in Dirs' : \A m, n \in Pdes :
            pgd'[e][m] = pgd'[f][n] /\ pgd'[e][m] # NULL => e = f /\ m = n
      BY <2>1, <2>5, <2>6, SMT DEF Single
    <3>2. \A q, s \in Procs : nd'[q] = nd'[s] /\ nd'[q] # NULL => q = s
      BY <2>1, <2>2, <2>4, Uses, SMT DEF Single
    <3>3. \A q \in Imaged, s \in Procs : pgdir[q] # nd'[s]
      BY <2>1, <2>2, <2>4, Uses, SMT DEF Single
    <3> QED BY <2>1, <2>4, <2>7, <3>1, <3>2, <3>3, SMTT(30) DEF Single
  <2> QED BY <2>3, <2>9, <2>10 DEF Owned
\* fork() has a kernel stack s for slot q and an empty directory d.
<1>5. ASSUME Typed, Control, Owned, NEW p \in Procs, NEW q \in Procs \ Used,
             NEW s \in free, NEW d \in Avail \ {s},
             state' = [state EXCEPT ![q] = "EMBRYO"],
             kstack' = [kstack EXCEPT ![q] = s],
             nd' = [nd EXCEPT ![p] = d],
             pgd' = [pgd EXCEPT ![d] = NoTables],
             free' = free \ {s, d}, boot' = boot \ {d},
             UNCHANGED <<pgt, pgdir>>
      PROVE  TypedMemory' /\ Owned'
  <2> USE <1>5
  <2>1. TypedMemory /\ Disjoint /\ Single
    BY DEF Typed, TypedTable, TypedLocals, Owned
  <2>2. /\ d \in Blocks /\ d # NULL /\ d \notin Dirs /\ d \notin Tables /\ d \notin Frames
        /\ d \notin Stacks /\ s \in Avail
        /\ s \notin Dirs /\ s \notin Tables /\ s \notin Frames /\ s \notin Stacks
    BY <2>1, Uses, VmAssumption DEF Disjoint, Avail
  <2>3. TypedMemory'
    BY <2>1, <2>2 DEF TypedMemory, NoTables
  <2>4. /\ nd'[p] = d /\ \A r \in Procs \ {p} : nd'[r] = nd[r]
        /\ kstack'[q] = s /\ \A r \in Procs \ {q} : kstack'[r] = kstack[r]
        /\ state'[q] = "EMBRYO" /\ \A r \in Procs \ {q} : state'[r] = state[r]
    BY DEF Typed, TypedTable, TypedLocals
  <2>5. Used' = Used \cup {q} /\ Imaged' = Imaged /\ Stacks' \subseteq Stacks \cup {s}
    <3>1. Used' = Used \cup {q} /\ q \notin Used
      BY <2>4 DEF Used
    <3>2. Imaged' = Imaged
      BY <2>4 DEF Used, Imaged
    <3>3. Stacks' \subseteq Stacks \cup {s}
      BY <2>4, <3>1, SMT DEF Stacks, Used
    <3> QED BY <3>1, <3>2, <3>3
  <2>6. Dirs' \subseteq Dirs \cup {d}
    BY <2>2, <2>4, <2>5, SMTT(30) DEF Dirs, Imaged
  <2>7. /\ \A e \in Dirs : pgd'[e] = pgd[e]
        /\ \A i \in Pdes : pgd'[d][i] = NULL
    BY <2>1, <2>2, Uses DEF TypedMemory, NoTables
  <2>8. Tables' \subseteq Tables
    BY <2>2, <2>6, <2>7, SMTT(30) DEF Tables
  <2>9. Frames' \subseteq Frames /\ Avail' \subseteq Avail \ {s, d}
    BY <2>1, <2>8, SMT DEF Frames, Avail, Single
  <2>10. Disjoint'
    BY <2>1, <2>2, <2>5, <2>6, <2>8, <2>9, SMTT(30) DEF Disjoint
  <2>11. Single'
    <3>1. \A e, f \in Dirs' : \A m, n \in Pdes :
            pgd'[e][m] = pgd'[f][n] /\ pgd'[e][m] # NULL => e = f /\ m = n
      BY <2>1, <2>6, <2>7, SMTT(30) DEF Single
    <3>2. \A x, y \in Procs : nd'[x] = nd'[y] /\ nd'[x] # NULL => x = y
      BY <2>1, <2>2, <2>4, Uses, SMTT(30) DEF Single
    <3>3. \A x \in Imaged, y \in Procs : pgdir[x] # nd'[y]
      BY <2>1, <2>2, <2>4, Uses, SMTT(30) DEF Single
    <3>4. \A x, y \in Used' : kstack'[x] = kstack'[y] => x = y
      BY <2>1, <2>2, <2>4, <2>5, SMT DEF Single, Stacks, Used
    <3> QED BY <2>1, <2>5, <2>8, <3>1, <3>2, <3>3, <3>4, SMTT(30) DEF Single
  <2> QED BY <2>3, <2>10, <2>11 DEF Owned
<1>6. ASSUME Typed, Control, Owned, NEW p \in Procs, nd[p] # NULL, Frees(p)
      PROVE  TypedMemory' /\ Owned'
  <2> USE <1>6
  <2> DEFINE d == nd[p]
             freed == Freed(d)
             stack == IF kid[p] # NULL THEN {kstack[kid[p]]} ELSE {}
  <2>1. TypedMemory /\ Disjoint /\ Single
    BY DEF Typed, TypedTable, TypedLocals, Owned
  <2>2. d \in Dirs /\ d \in Blocks /\ d # NULL
    BY Uses
  <2>3. \A b : b \in freed <=> b = d \/ (b # NULL /\ \E i \in Pdes : b = pgd[d][i])
    BY DEF Freed
  <2>4. freed \subseteq Dirs \cup Tables /\ freed \subseteq Blocks
    BY <2>2, <2>3, Uses, SMTT(30)
  <2>5. /\ Used' \subseteq Used /\ Imaged' = Imaged
        /\ \A q \in Used' : kstack'[q] = kstack[q] /\ q # kid[p]
    <3>1. \A q \in Procs : q = kid[p] => state[q] = "EMBRYO"
      BY VmAssumption, SMT DEF Control, Slots
    <3>2. state' = [q \in Procs |-> IF q = kid[p] THEN "UNUSED" ELSE state[q]]
      BY DEF Frees
    <3>3. \A q \in Procs : state'[q] = IF q = kid[p] THEN "UNUSED" ELSE state[q]
      BY <3>2
    <3>4. \A q \in Used' : q \in Procs /\ kstack'[q] = IF q = kid[p] THEN NULL ELSE kstack[q]
      BY DEF Frees, Used
    <3> QED BY <3>1, <3>3, <3>4 DEF Used, Imaged
  <2>6. stack \subseteq Stacks /\ stack \subseteq Blocks
    BY Uses, SMTT(30) DEF Control, Slots, Typed, TypedTable, TypedLocals, Stacks, Used
  <2>7. Stacks' \subseteq Stacks /\ Stacks' \cap stack = {}
    <3>1. \A q \in Used : q = kid[p] \/ kid[p] = NULL \/ kstack[q] # kstack[kid[p]]
      BY <2>1 DEF Single, Control, Slots, Typed, TypedTable, TypedLocals, Used
    <3>2. \A q \in Used' : q \in Used /\ kstack'[q] = kstack[q] /\ q # kid[p]
      BY <2>5
    <3> QED BY <3>1, <3>2, SMTT(30) DEF Stacks
  <2>8. /\ free' = free \cup (freed \ BootTables) \cup stack
        /\ boot' = boot \cup (freed \cap BootTables)
        /\ \A q \in Procs : nd'[q] = IF q = p THEN NULL ELSE nd[q]
        /\ pgd' = pgd /\ pgt' = pgt /\ pgdir' = pgdir
    BY DEF Typed, TypedLocals, Frees
  <2> HIDE DEF stack, freed
  <2>9. TypedMemory'
    BY <2>1, <2>4, <2>6, <2>8 DEF TypedMemory
  <2>10. Dirs' = Dirs \ {d}
    <3>1. \A q \in Imaged : pgdir[q] # d
      BY <2>1 DEF Single
    <3>2. \A q \in Procs \ {p} : nd[q] # d
      BY <2>1, <2>2 DEF Single
    <3>3. \A q \in Imaged : pgdir[q] # NULL
      BY DEF Control, Slots
    <3> QED BY <2>5, <2>8, <3>1, <3>2, <3>3, InDirs, SMTT(30)
  <2>11. Tables' \subseteq Tables /\ Tables' \cap freed = {}
    <3>1. \A b \in Tables' : b # NULL /\ \E e \in Dirs \ {d} : \E i \in Pdes : b = pgd[e][i]
      BY <2>8, <2>10, InTables, SMTT(30)
    <3>2. Tables' \subseteq Tables
      BY <3>1, InTables
    <3>3. \A b \in Tables : b # d
      BY <2>1, <2>2 DEF Disjoint
    <3>4. \A e \in Dirs \ {d} : \A i, n \in Pdes : pgd[e][i] # NULL => pgd[e][i] # pgd[d][n]
      BY <2>1, <2>2, SMT DEF Single
    <3> QED BY <2>3, <3>1, <3>2, <3>3, <3>4, SMTT(30)
  <2>12. Frames' \subseteq Frames
    BY <2>8, <2>11, SMT DEF Frames
  <2>13. Avail' = Avail \cup freed \cup stack
    BY <2>8 DEF Avail
  <2>14. Dirs' \cap freed = {}
    BY <2>1, <2>3, <2>10, Uses, SMT DEF Disjoint
  <2>15. Disjoint'
    BY <2>1, <2>4, <2>6, <2>7, <2>10, <2>11, <2>12, <2>13, <2>14 DEF Disjoint
  <2>16. Single'
    <3>1. free' \cap boot' = {}
      BY <2>1, <2>4, <2>6, <2>8 DEF Single, Disjoint, Avail
    <3>2. \A x, y \in Procs : nd'[x] = nd'[y] /\ nd'[x] # NULL => x = y
      BY <2>1, <2>8, ZenonT(30) DEF Single
    <3>3. \A x \in Imaged, y \in Procs : pgdir[x] # nd'[y]
      BY <2>1, <2>8, SMTT(30) DEF Single, Control, Slots
    <3>4. \A x, y \in Used' : kstack'[x] = kstack'[y] => x = y
      BY <2>1, <2>5, SMTT(30) DEF Single
    <3>5. \A x, y \in Imaged' : pgdir'[x] = pgdir'[y] => x = y
      BY <2>1, <2>5, <2>8, SMTT(30) DEF Single
    <3>6. \A e, f \in Dirs' : \A m, n \in Pdes :
            pgd'[e][m] = pgd'[f][n] /\ pgd'[e][m] # NULL => e = f /\ m = n
      <4>1. \A e, f \in Dirs : \A m, n \in Pdes :
              pgd[e][m] = pgd[f][n] /\ pgd[e][m] # NULL => e = f /\ m = n
        BY <2>1 DEF Single
      <4> QED BY <2>8, <2>10, <4>1, SMTT(30)
    <3>7. \A t, u \in Tables' : \A m, n \in Ptes :
            pgt'[t][m].pa = pgt'[u][n].pa /\ pgt'[t][m].pa # NULL => t = u /\ m = n
      <4>1. \A t, u \in Tables : \A m, n \in Ptes :
              pgt[t][m].pa = pgt[u][n].pa /\ pgt[t][m].pa # NULL => t = u /\ m = n
        BY <2>1 DEF Single
      <4> QED BY <2>8, <2>11, <4>1, SMTT(30)
    <3> QED BY <2>5, <2>8, <3>1, <3>2, <3>3, <3>4, <3>5, <3>6, <3>7, ZenonT(30) DEF Single
  <2> QED BY <2>9, <2>15, <2>16 DEF Owned
<1>7. ASSUME Typed, Control, Owned, NEW q \in Procs \ Used, NEW s \in free,
             TakesStack(q, s)
      PROVE  TypedMemory' /\ Owned'
  <2> USE <1>7
  <2>1. TypedMemory /\ Disjoint /\ Single
    BY DEF Typed, Owned
  <2>2. /\ s \in Avail /\ s \notin Dirs /\ s \notin Tables /\ s \notin Frames /\ s \notin Stacks
    BY <2>1 DEF Disjoint, Avail
  <2>3. /\ kstack'[q] = s /\ \A r \in Procs \ {q} : kstack'[r] = kstack[r]
        /\ state'[q] = "EMBRYO" /\ \A r \in Procs \ {q} : state'[r] = state[r]
        /\ free' = free \ {s} /\ boot' = boot /\ pgd' = pgd /\ pgt' = pgt
        /\ pgdir' = pgdir /\ nd' = nd
    BY DEF Typed, TypedTable, TakesStack
  <2>4. Used' = Used \cup {q} /\ q \notin Used
    BY <2>3 DEF Used
  <2>5. Imaged' = Imaged
    BY <2>3 DEF Used, Imaged
  <2>6. Stacks' \subseteq Stacks \cup {s}
    BY <2>3, <2>4 DEF Stacks, Used
  <2>7. Dirs' = Dirs
    BY <2>3, <2>5, InDirs, SMTT(30)
  <2>8. Tables' = Tables
    BY <2>3, <2>7, SameTables
  <2>9. Frames' = Frames /\ Avail' \subseteq Avail \ {s}
    BY <2>1, <2>3, <2>8, SameFrames DEF Avail, Single
  <2>10. Disjoint'
    BY <2>1, <2>2, <2>6, <2>7, <2>8, <2>9 DEF Disjoint
  <2>11. \A x, y \in Used' : kstack'[x] = kstack'[y] => x = y
    <3>1. \A x, y \in Used : kstack[x] = kstack[y] => x = y
      BY <2>1 DEF Single
    <3>2. \A r \in Used : r \in Procs \ {q}
      BY <2>4 DEF Used
    <3>3. \A r \in Used : kstack[r] # s
      BY <2>2 DEF Stacks
    <3>4. \A r \in Used : kstack'[r] = kstack[r] /\ kstack'[r] # s
      BY <2>3, <3>2, <3>3
    <3>5. kstack'[q] = s
      BY <2>3
    <3> QED BY <2>4, <3>1, <3>4, <3>5, SMTT(20)
  <2>12. Single'
    BY <2>1, <2>3, <2>5, <2>7, <2>8, <2>11, SMTT(30) DEF Single
  <2> QED BY <2>1, <2>3, <2>10, <2>12 DEF Owned, TypedMemory
<1>8. ASSUME Typed, Control, Owned, NEW p \in Procs, NEW q \in Imaged, Reaps(p, q)
      PROVE  TypedMemory' /\ Owned'
  <2> USE <1>8
  <2> DEFINE s == kstack[q]
  <2>1. TypedMemory /\ Disjoint /\ Single /\ q \in Procs /\ q \in Used
    BY DEF Typed, Owned, Imaged, Used
  <2>2. s \in Stacks /\ s \in Blocks /\ s # NULL /\ pgdir[q] # NULL
    BY <2>1, Uses, VmAssumption DEF Stacks, Control, Slots
  <2>3. /\ \A r \in Procs \ {q} : kstack'[r] = kstack[r]
        /\ state'[q] = "UNUSED" /\ \A r \in Procs \ {q} : state'[r] = state[r]
        /\ nd'[p] = pgdir[q] /\ \A r \in Procs \ {p} : nd'[r] = nd[r]
        /\ free' = free \cup {s} /\ boot' = boot /\ pgd' = pgd /\ pgt' = pgt
        /\ pgdir' = pgdir
    BY <2>1 DEF Typed, TypedTable, TypedLocals, Reaps
  <2> HIDE DEF s
  <2>4. Used' = Used \ {q}
    BY <2>1, <2>3, ZenonT(30) DEF Used
  <2>5. Imaged' = Imaged \ {q} /\ Imaged \subseteq Procs
    BY <2>1, <2>3 DEF Imaged
  <2>6. Stacks' \subseteq Stacks \ {s}
    <3>1. \A r \in Used \ {q} : kstack'[r] = kstack[r] /\ kstack[r] # s
      <4>1. \A x, y \in Used : kstack[x] = kstack[y] => x = y
        BY <2>1 DEF Single
      <4>2. \A r \in Used : r \in Procs
        BY DEF Used
      <4> QED BY <2>1, <2>3, <4>1, <4>2, ZenonT(30) DEF s
    <3> QED BY <2>4, <3>1 DEF Stacks
  <2>7. Dirs' \subseteq Dirs
    <3>1. \A x \in Imaged' : pgdir'[x] \in Dirs
      BY <2>3, <2>5, Uses
    <3>2. nd'[p] \in Dirs
      BY <2>3, Uses, ZenonT(30)
    <3>3. ASSUME NEW x \in Procs \ {p}, nd'[x] # NULL PROVE nd'[x] \in Dirs
      BY <2>3, <3>3, Uses
    <3>4. \A x \in Procs : nd'[x] # NULL => nd'[x] \in Dirs
      BY <3>2, <3>3
    <3> QED BY <3>1, <3>4, InDirs
  <2>8. Tables' \subseteq Tables
    BY <2>3, <2>7, InTables, SMTT(30)
  <2>9. Frames' \subseteq Frames /\ Avail' = Avail \cup {s}
    BY <2>3, <2>8, SMTT(30) DEF Frames, Avail
  <2>10. Disjoint'
    BY <2>1, <2>2, <2>6, <2>7, <2>8, <2>9, SMT DEF Disjoint
  <2>11. Single'
    <3>1. \A x, y \in Used' : kstack'[x] = kstack'[y] => x = y
      BY <2>1, <2>3, <2>4, ZenonT(30) DEF Single, Used
    <3>2. \A x, y \in Procs : nd'[x] = nd'[y] /\ nd'[x] # NULL => x = y
      BY <2>1, <2>3, SMTT(20) DEF Single
    <3>3. \A x \in Imaged', y \in Procs : pgdir[x] # nd'[y]
      BY <2>1, <2>3, <2>5, SMTT(30) DEF Single
    <3>4. free' \cap boot' = {}
      BY <2>1, <2>2, <2>3, SMTT(30) DEF Single, Disjoint, Avail
    <3>5. \A x, y \in Imaged' : pgdir'[x] = pgdir'[y] => x = y
      BY <2>1, <2>3, <2>5 DEF Single
    <3>6. \A e, f \in Dirs' : \A m, n \in Pdes :
            pgd'[e][m] = pgd'[f][n] /\ pgd'[e][m] # NULL => e = f /\ m = n
      BY <2>1, <2>3, <2>7, SMTT(20) DEF Single
    <3>7. \A t, u \in Tables' : \A m, n \in Ptes :
            pgt'[t][m].pa = pgt'[u][n].pa /\ pgt'[t][m].pa # NULL => t = u /\ m = n
      BY <2>1, <2>3, <2>8, SMT DEF Single
    <3> QED BY <2>3, <3>1, <3>2, <3>3, <3>4, <3>5, <3>6, <3>7 DEF Single
  <2>12. TypedMemory'
    BY <2>1, <2>2, <2>3 DEF TypedMemory
  <2> QED BY <2>10, <2>11, <2>12 DEF Owned
\* A process goes from one location to another; the others stay.
<1>9. ASSUME Typed, Points, NEW p \in Procs, NEW l \in Places, NEW r \in Returns,
             NEW loc \in Locals, Goto(p, l, r, loc),
             nd' \in [Procs -> Blocks \cup {NULL}], kid' \in [Procs -> Procs \cup {NULL}],
             ip' \in [Procs -> Programs \cup {NULL}],
             \A q \in Procs \ {p} : nd'[q] = nd[q] /\ kid'[q] = kid[q] /\ ip'[q] = ip[q],
             Point(l, r, nd'[p], kid'[p], ip'[p], loc.seg)
      PROVE  TypedLocals' /\ Points'
  <2> USE <1>9
  <2>1. /\ pc'[p] = l /\ ret'[p] = r /\ k'[p] = loc
        /\ \A q \in Procs \ {p} : pc'[q] = pc[q] /\ ret'[q] = ret[q] /\ k'[q] = k[q]
    BY DEF Typed, TypedLocals, Goto
  <2>2. TypedLocals'
    BY DEF Typed, TypedLocals, Goto
  <2>3. ASSUME NEW q \in Procs
        PROVE  Point(pc'[q], ret'[q], nd'[q], kid'[q], ip'[q], k'[q].seg)
    BY <2>1, ZenonT(30) DEF Points
  <2> QED BY <2>2, <2>3, ZenonT(30) DEF Points
\* A step that leaves the blocks and their holders as they are.
<1>10. ASSUME IInv, TypedLocals', Points', sz' \in [Procs -> 0 .. UADDR_SZ],
              UNCHANGED <<free, boot, pgd, pgt, state, kstack, pgdir, nd, kid>>
       PROVE  IInv'
  <2> USE <1>10
  <2>1. Typed'
    BY DEF IInv, Typed, TypedMemory, TypedTable
  <2>2. Slots'
    BY ZenonT(30) DEF IInv, Control, Slots, Used, Imaged
  <2>3. Owned'
    BY <1>1 DEF IInv
  <2> QED BY <2>1, <2>2, <2>3 DEF IInv, Control
\* A step of a loop of process p.
<1>11. ASSUME Typed, Points, NEW p \in Procs, NEW n \in Nat,
              k' = [k EXCEPT ![p].a = n], UNCHANGED <<pc, ret, nd, kid, ip>>
       PROVE  TypedLocals' /\ Points'
  <2> USE <1>11
  <2>1. /\ k' \in [Procs -> Locals] /\ \A q \in Procs : k'[q].seg = k[q].seg
    BY SMT DEF Typed, TypedLocals, Locals
  <2> QED BY <2>1 DEF Typed, TypedLocals, Points
<1>12. /\ NoLocals \in Locals /\ NoLocals.seg = 0
       /\ [NoLocals EXCEPT !.lim = UADDR_SZ] \in Locals
       /\ [NoLocals EXCEPT !.seg = 1] \in Locals
  BY Sizes, SMT DEF NoLocals, Locals
\* The local variables allocuvm() starts with.
<1>13. ASSUME NEW x \in Locals, NEW old \in 0 .. UADDR_SZ, NEW new \in Nat, new < UADDR_SZ
       PROVE  LET y == [x EXCEPT !.a = align_up(old, PTE_SZ), !.old = old,
                                 !.lim = IF new < old THEN old ELSE new]
              IN  y \in Locals /\ y.seg = x.seg
  <2> USE <1>13
  <2> DEFINE lim == IF new < old THEN old ELSE new
             a == align_up(old, PTE_SZ)
  <2>1. old \in Nat /\ lim \in 0 .. UADDR_SZ
    BY Sizes, SMT
  <2>2. a \in Nat
    BY <2>1, Aligned, VmAssumption
  <2> HIDE DEF lim, a
  <2>3. /\ [x EXCEPT !.a = a, !.old = old, !.lim = lim] \in Locals
        /\ [x EXCEPT !.a = a, !.old = old, !.lim = lim].seg = x.seg
    BY <2>1, <2>2 DEF Locals
  <2> QED BY <2>3 DEF lim, a
\* Process p goes to l and may drop its file.
<1>14. ASSUME IInv, NEW p \in Procs, NEW l \in Places, NEW r \in Returns, NEW loc \in Locals,
              Goto(p, l, r, loc), NEW f \in Programs \cup {NULL}, ip' = [ip EXCEPT ![p] = f],
              Point(l, r, nd[p], kid[p], f, loc.seg), sz' \in [Procs -> 0 .. UADDR_SZ],
              UNCHANGED <<free, boot, pgd, pgt, state, kstack, pgdir, nd, kid>>
       PROVE  IInv'
  <2> USE <1>14
  <2>1. /\ ip' \in [Procs -> Programs \cup {NULL}] /\ ip'[p] = f
        /\ \A q \in Procs \ {p} : ip'[q] = ip[q]
    BY DEF IInv, Typed, TypedLocals
  <2>2. /\ nd' \in [Procs -> Blocks \cup {NULL}] /\ kid' \in [Procs -> Procs \cup {NULL}]
        /\ \A q \in Procs : nd'[q] = nd[q] /\ kid'[q] = kid[q]
    BY DEF IInv, Typed, TypedLocals
  <2>3. Point(l, r, nd'[p], kid'[p], ip'[p], loc.seg)
    BY <2>1, <2>2
  <2>4. Typed /\ Points
    BY DEF IInv, Control
  <2>5. TypedLocals' /\ Points'
    BY <2>1, <2>2, <2>3, <2>4, <1>9
  <2> QED BY <2>5, <1>10
<1>15. ASSUME IInv, NEW p \in Procs, NEW l \in Places, NEW r \in Returns, NEW loc \in Locals,
              Goto(p, l, r, loc), UNCHANGED ip,
              Point(l, r, nd[p], kid[p], ip[p], loc.seg), sz' \in [Procs -> 0 .. UADDR_SZ],
              UNCHANGED <<free, boot, pgd, pgt, state, kstack, pgdir, nd, kid>>
       PROVE  IInv'
  <2> USE <1>15
  <2>1. ip' = [ip EXCEPT ![p] = ip[p]] /\ ip[p] \in Programs \cup {NULL}
    BY DEF IInv, Typed, TypedLocals
  <2> QED BY <2>1, <1>14
<1>16. ASSUME IInv, NEW p \in Procs, Freevm(p), nd[p] # NULL,
              \/ UNCHANGED ip
              \/ ip' = [ip EXCEPT ![p] = NULL],
              UNCHANGED <<free, boot, pgd, pgt, state, kstack, pgdir, sz, nd, kid>>
       PROVE  IInv'
  <2> USE <1>16
  <2> DEFINE loc == [NoLocals EXCEPT !.lim = UADDR_SZ]
  <2>1. loc \in Locals /\ Goto(p, "dealloc", "free", loc)
    BY <1>12 DEF Freevm
  <2> HIDE DEF loc
  <2>2. "dealloc" \in Places /\ "free" \in Returns /\ sz' \in [Procs -> 0 .. UADDR_SZ]
    BY DEF Places, Returns, IInv, Typed, TypedTable
  <2>3. \A f : Point("dealloc", "free", nd[p], kid[p], f, loc.seg)
    BY DEF Point, Builds, Reads
  <2>4. CASE UNCHANGED ip
    BY <2>1, <2>2, <2>3, <2>4, <1>15
  <2>5. CASE ip' = [ip EXCEPT ![p] = NULL]
    BY <2>1, <2>2, <2>3, <2>5, <1>14
  <2> QED BY <2>4, <2>5
<1>17. ASSUME IInv, NEW p \in Procs, Return(p), sz' \in [Procs -> 0 .. UADDR_SZ],
              \/ UNCHANGED ip
              \/ ip' = [ip EXCEPT ![p] = NULL],
              UNCHANGED <<free, boot, pgd, pgt, state, kstack, pgdir, nd, kid>>
       PROVE  IInv'
  <2> USE <1>17
  <2>1. NoLocals \in Locals /\ Goto(p, "user", "", NoLocals)
    BY <1>12 DEF Return
  <2>2. "user" \in Places /\ "" \in Returns
    BY DEF Places, Returns
  <2>3. \A f : Point("user", "", nd[p], kid[p], f, NoLocals.seg)
    BY DEF Point, Builds, Reads
  <2>4. CASE UNCHANGED ip
    BY <2>1, <2>2, <2>3, <2>4, <1>15
  <2>5. CASE ip' = [ip EXCEPT ![p] = NULL]
    BY <2>1, <2>2, <2>3, <2>5, <1>14
  <2> QED BY <2>4, <2>5
\* A step of a loop that changes page tables and the free lists.
<1>18. ASSUME IInv, NEW p \in Procs, NEW n \in Nat, k' = [k EXCEPT ![p].a = n],
              TypedMemory', Owned',
              UNCHANGED <<state, kstack, pgdir, sz, pc, ret, nd, kid, ip>>
       PROVE  IInv'
  <2> USE <1>18
  <2>1. TypedLocals' /\ Points'
    BY <1>11 DEF IInv, Control
  <2>2. TypedTable' /\ Slots'
    BY DEF IInv, Typed, TypedTable, Control, Slots, Used, Imaged
  <2> QED BY <2>1, <2>2 DEF IInv, Typed, Control
<1>19. ASSUME IInv, NEW p \in Procs, AllocPage(p) PROVE IInv'
  <2> USE <1>19
  <2>1. Runs(p, "alloc") /\ k[p].a < k[p].lim
    BY DEF AllocPage
  <2>2. PICK b \in free : MapPage(Dir(p), k[p].a, b, AP_KU)
    BY DEF AllocPage, Pick
  <2>3. /\ k' = [k EXCEPT ![p].a = k[p].a + PTE_SZ]
        /\ UNCHANGED <<state, kstack, pgdir, sz, pc, ret, nd, kid, ip>>
    BY DEF AllocPage, table
  <2>4. /\ Typed /\ Control /\ Owned /\ Dir(p) \in Dirs
        /\ k[p].a \in Nat /\ k[p].a < UADDR_SZ /\ k[p].a + PTE_SZ \in Nat
    <3>1. Typed /\ Control /\ Owned /\ Dir(p) \in Dirs /\ k[p] \in Locals
      BY <2>1, Here
    <3> QED BY <2>1, <3>1, Within
  <2>5. TypedMemory' /\ Owned'
    BY <2>2, <2>3, <2>4, <1>2, ZenonT(30) DEF AP_KU
  <2> QED BY <2>3, <2>4, <2>5, <1>18
<1>20. ASSUME IInv, NEW p \in Procs, AllocFails(p) PROVE IInv'
  <2> USE <1>20
  <2> DEFINE r == IF ret[p] = "grow" THEN "grow" ELSE "bad"
             loc == [k[p] EXCEPT !.a = align_up(k[p].old, PTE_SZ)]
  <2>1. Runs(p, "alloc") /\ Goto(p, "dealloc", r, loc)
    BY DEF AllocFails
  <2>2. UNCHANGED <<free, boot, pgd, pgt, state, kstack, pgdir, sz, nd, kid, ip>>
    BY DEF AllocFails, memory, table
  <2>3. loc \in Locals
    <3>1. k[p] \in Locals /\ k[p].old \in Nat
      BY <2>1, Here DEF Locals
    <3>2. align_up(k[p].old, PTE_SZ) \in Nat
      BY <3>1, Aligned, VmAssumption
    <3> QED BY <3>1, <3>2 DEF Locals
  <2>4. "dealloc" \in Places /\ r \in Returns /\ sz' \in [Procs -> 0 .. UADDR_SZ]
    BY <2>2 DEF Places, Returns, IInv, Typed, TypedTable
  <2>5. Point("dealloc", r, nd[p], kid[p], ip[p], loc.seg)
    BY <2>1, Here DEF Point, Builds, Reads
  <2> HIDE DEF r, loc
  <2> QED BY <2>1, <2>2, <2>3, <2>4, <2>5, <1>15
<1>21. ASSUME IInv, NEW p \in Procs, DeallocPage(p) PROVE IInv'
  <2> USE <1>21
  <2> DEFINE d == Dir(p)
             a == k[p].a
             n == (IF Table(d, a) = NULL THEN align_up(a, PDE_SZ) ELSE a) + PTE_SZ
  <2>1. Runs(p, "dealloc") /\ k[p].a < k[p].lim
    BY DEF DeallocPage
  <2>2. /\ k' = [k EXCEPT ![p].a = n]
        /\ \/ UNCHANGED <<free, pgt>>
           \/ /\ Pte(d, a).pa # NULL
              /\ free' = free \cup {Pte(d, a).pa}
              /\ pgt' = [pgt EXCEPT ![Table(d, a)][PTE_IDX(a)] = NoPte]
        /\ UNCHANGED <<boot, pgd, state, kstack, pgdir, sz, pc, ret, nd, kid, ip>>
    BY ZenonT(30) DEF DeallocPage, Kfree, table
  <2>3. /\ Typed /\ Control /\ Owned /\ d \in Dirs
        /\ a \in Nat /\ a < UADDR_SZ /\ a + PTE_SZ \in Nat
    <3>1. Typed /\ Control /\ Owned /\ d \in Dirs /\ k[p] \in Locals
      BY <2>1, Here
    <3> QED BY <2>1, <3>1, Within
  <2>4. n \in Nat
    <3>1. align_up(a, PDE_SZ) \in Nat
      BY <2>3, Aligned, Sizes
    <3>2. PTE_SZ \in Nat
      BY VmAssumption
    <3> QED BY <2>3, <3>1, <3>2, SMT
  <2> HIDE DEF n
  <2>5. CASE UNCHANGED <<free, pgt>>
    <3>1. TypedMemory'
      BY <2>2, <2>3, <2>5 DEF Typed, TypedMemory
    <3>2. Owned'
      BY <2>2, <2>3, <2>5, <1>1
    <3> QED BY <2>2, <2>4, <3>1, <3>2, <1>18
  <2>6. CASE /\ Pte(d, a).pa # NULL
             /\ free' = free \cup {Pte(d, a).pa}
             /\ pgt' = [pgt EXCEPT ![Table(d, a)][PTE_IDX(a)] = NoPte]
    <3>1. PDE_IDX(a) \in Pdes /\ PTE_IDX(a) \in Ptes
      BY <2>3, Index
    <3>2. Table(d, a) # NULL /\ Pte(d, a) = pgt[Table(d, a)][PTE_IDX(a)]
      BY <2>6 DEF Pte, NoPte
    <3>3. Table(d, a) \in Tables
      BY <2>3, <3>1, <3>2, Uses DEF Table
    <3>4. pgt[Table(d, a)][PTE_IDX(a)].pa \in Blocks
      BY <2>3, <2>6, <3>1, <3>2, <3>3, Uses
    <3>5. TypedMemory' /\ Owned'
      BY <2>2, <2>3, <2>6, <3>1, <3>2, <3>3, <3>4, <1>3, ZenonT(30)
    <3> QED BY <2>2, <2>4, <3>5, <1>18, ZenonT(30)
  <2> QED BY <2>2, <2>5, <2>6
<1>22. ASSUME IInv, NEW p \in Procs, DeallocBad(p) PROVE IInv'
  <2> USE <1>22
  <2>1. nd[p] # NULL
    BY Here DEF DeallocBad, Point, Builds
  <2> QED BY <2>1, <1>16 DEF DeallocBad, memory, table
<1>23. ASSUME IInv, NEW p \in Procs, FreeTables(p) PROVE IInv'
  <2> USE <1>23
  <2>1. Runs(p, "dealloc") /\ ret[p] = "free"
    BY DEF FreeTables
  <2>2. Typed /\ Control /\ Owned /\ nd[p] # NULL
    BY <2>1, Here DEF Point, Builds
  <2>3. /\ nd' = [nd EXCEPT ![p] = NULL] /\ ip' = [ip EXCEPT ![p] = NULL]
        /\ kid' = [kid EXCEPT ![p] = NULL]
        /\ state' = [q \in Procs |-> IF q = kid[p] THEN "UNUSED" ELSE state[q]]
        /\ kstack' = [q \in Procs |-> IF q = kid[p] THEN NULL ELSE kstack[q]]
        /\ Goto(p, "user", "", NoLocals)
        /\ UNCHANGED <<pgd, pgt, pgdir, sz>>
    BY DEF FreeTables, Return
  <2>4. TypedMemory' /\ Owned'
    <3> DEFINE stack == IF kid[p] # NULL THEN {kstack[kid[p]]} ELSE {}
    <3>1. /\ boot' = boot \cup (Freed(nd[p]) \cap BootTables)
          /\ free' = free \cup (Freed(nd[p]) \ BootTables) \cup stack
      <4>1. /\ boot' = boot \cup (Freed(nd[p]) \cap BootTables)
            /\ free' = free \cup ((Freed(nd[p]) \ BootTables) \cup stack)
        BY DEF FreeTables, Freed, Kfree
      <4> QED BY <4>1
    <3>2. Frees(p)
      BY <2>3, <3>1 DEF Frees
    <3> QED BY <2>2, <3>2, <1>6
  <2>5. TypedTable'
    BY <2>2, <2>3, ZenonT(30) DEF Typed, TypedTable
  <2>6. /\ nd' \in [Procs -> Blocks \cup {NULL}] /\ kid' \in [Procs -> Procs \cup {NULL}]
        /\ ip' \in [Procs -> Programs \cup {NULL}]
        /\ \A q \in Procs \ {p} : nd'[q] = nd[q] /\ kid'[q] = kid[q] /\ ip'[q] = ip[q]
        /\ kid'[p] = NULL
    BY <2>2, <2>3, ZenonT(30) DEF Typed, TypedLocals
  <2>7. TypedLocals' /\ Points'
    <3>1. "user" \in Places /\ "" \in Returns /\ NoLocals \in Locals
      BY <1>12 DEF Places, Returns
    <3>2. Point("user", "", nd'[p], kid'[p], ip'[p], NoLocals.seg)
      BY DEF Point, Builds, Reads
    <3> QED BY <2>2, <2>3, <2>6, <3>1, <3>2, <1>9 DEF Control
  <2>8. Slots'
    <3>1. \A q \in Procs : /\ state'[q] = IF q = kid[p] THEN "UNUSED" ELSE state[q]
                           /\ kstack'[q] = IF q = kid[p] THEN NULL ELSE kstack[q]
      BY <2>3, ZenonT(30)
    <3>2. \A q \in Used' : kstack'[q] # NULL
      BY <2>2, <3>1 DEF Control, Slots, Used
    <3>3. \A q \in Imaged' : pgdir'[q] # NULL
      BY <2>2, <2>3, <3>1, ZenonT(30) DEF Control, Slots, Imaged
    <3>4. \A q \in Procs : kid'[q] # NULL => state'[kid'[q]] = "EMBRYO"
      BY <2>2, <2>6, <3>1, SMTT(30) DEF Control, Slots, Typed, TypedLocals
    <3>5. \A x, y \in Procs : kid'[x] # NULL /\ kid'[x] = kid'[y] => x = y
      BY <2>2, <2>6, SMT DEF Control, Slots
    <3> QED BY <3>2, <3>3, <3>4, <3>5 DEF Slots
  <2> QED BY <2>4, <2>5, <2>7, <2>8 DEF IInv, Typed, Control
<1>24. ASSUME IInv, NEW p \in Procs, NEW n \in Deltas, SysSbrk(p, n) PROVE IInv'
  <2> USE <1>24
  <2>1. /\ Runs(p, "user")
        /\ UNCHANGED <<free, boot, pgd, pgt, state, kstack, pgdir, sz, nd, kid, ip>>
    BY DEF SysSbrk, memory, table
  <2>2. /\ Typed /\ k[p] \in Locals /\ sz[p] \in 0 .. UADDR_SZ /\ sz' \in [Procs -> 0 .. UADDR_SZ]
        /\ UADDR_SZ \in Nat /\ n \in Int /\ PTE_SZ \in Nat \ {0}
    BY <2>1, Here, Sizes, VmAssumption, ZenonT(30) DEF Typed, TypedTable
  <2>3. CASE Return(p)
    BY <2>1, <2>2, <2>3, <1>17
  <2>4. CASE n > 0 /\ Allocuvm(p, sz[p], sz[p] + n, "grow", Return(p)) /\ sz[p] + n < UADDR_SZ
    <3> DEFINE loc == [k[p] EXCEPT !.a = align_up(sz[p], PTE_SZ), !.old = sz[p],
                                   !.lim = IF sz[p] + n < sz[p] THEN sz[p] ELSE sz[p] + n]
    <3>1. Goto(p, "alloc", "grow", loc)
      BY <2>2, <2>4, SMTT(30) DEF Allocuvm
    <3>2. sz[p] + n \in Nat
      BY <2>2, <2>4, SMTT(30)
    <3>3. loc \in Locals
      BY <2>2, <2>4, <3>2, <1>13
    <3>4. "alloc" \in Places /\ "grow" \in Returns
          /\ Point("alloc", "grow", nd[p], kid[p], ip[p], loc.seg)
      BY DEF Places, Returns, Point, Builds, Reads
    <3> HIDE DEF loc
    <3> QED BY <2>1, <2>2, <3>1, <3>3, <3>4, <1>15
  <2>5. CASE /\ n < 0 /\ (sz[p] + n) % WORD < sz[p]
             /\ Goto(p, "dealloc", "shrink",
                     [NoLocals EXCEPT !.a = align_up(sz[p] + n, PTE_SZ),
                                      !.lim = sz[p], !.sz = sz[p] + n])
    <3> DEFINE loc == [NoLocals EXCEPT !.a = align_up(sz[p] + n, PTE_SZ),
                                       !.lim = sz[p], !.sz = sz[p] + n]
    <3>1. sz[p] + n \in 0 .. UADDR_SZ
      BY <2>2, <2>5, Shrinks
    <3>2. align_up(sz[p] + n, PTE_SZ) \in Nat
      BY <2>2, <3>1, Aligned, SMTT(30)
    <3>3. loc \in Locals
      <4>1. NoLocals \in Locals
        BY <1>12
      <4> QED BY <2>2, <3>1, <3>2, <4>1, ZenonT(30) DEF Locals
    <3>4. /\ "dealloc" \in Places /\ "shrink" \in Returns
          /\ Point("dealloc", "shrink", nd[p], kid[p], ip[p], loc.seg)
      BY DEF Places, Returns, Point, Builds, Reads
    <3>5. Goto(p, "dealloc", "shrink", loc)
      BY <2>5
    <3> HIDE DEF loc
    <3> QED BY <2>1, <2>2, <3>3, <3>4, <3>5, <1>15
  <2> QED BY <2>2, <2>3, <2>4, <2>5, SMT DEF SysSbrk, Allocuvm
<1>25. ASSUME IInv, NEW p \in Procs, SbrkGrown(p) PROVE IInv'
  <2> USE <1>25
  <2>1. /\ Runs(p, "alloc") /\ Return(p) /\ sz' = [sz EXCEPT ![p] = k[p].lim]
        /\ UNCHANGED <<free, boot, pgd, pgt, state, kstack, pgdir, nd, kid, ip>>
    BY DEF SbrkGrown, Resize, memory
  <2>2. k[p] \in Locals /\ sz \in [Procs -> 0 .. UADDR_SZ]
    BY <2>1, Here DEF IInv, Typed, TypedTable
  <2>3. k[p].lim \in 0 .. UADDR_SZ
    BY <2>2 DEF Locals
  <2>4. sz' \in [Procs -> 0 .. UADDR_SZ]
    BY <2>1, <2>2, <2>3
  <2> QED BY <2>1, <2>4, <1>17
<1>26. ASSUME IInv, NEW p \in Procs, SbrkShrunk(p) PROVE IInv'
  <2> USE <1>26
  <2>1. /\ Runs(p, "dealloc") /\ Return(p) /\ (sz' = sz \/ sz' = [sz EXCEPT ![p] = k[p].sz])
        /\ UNCHANGED <<free, boot, pgd, pgt, state, kstack, pgdir, nd, kid, ip>>
    BY DEF SbrkShrunk, Resize, memory
  <2>2. k[p] \in Locals /\ sz \in [Procs -> 0 .. UADDR_SZ]
    BY <2>1, Here DEF IInv, Typed, TypedTable
  <2>3. k[p].sz \in 0 .. UADDR_SZ
    BY <2>2 DEF Locals
  <2>4. sz' \in [Procs -> 0 .. UADDR_SZ]
    BY <2>1, <2>2, <2>3
  <2> QED BY <2>1, <2>4, <1>17
<1>27. ASSUME IInv, NEW p \in Procs, SbrkFails(p) PROVE IInv'
  <2> USE <1>27
  <2>1. /\ Return(p) /\ sz' = sz
        /\ UNCHANGED <<free, boot, pgd, pgt, state, kstack, pgdir, nd, kid, ip>>
    BY DEF SbrkFails, memory, table
  <2>2. sz' \in [Procs -> 0 .. UADDR_SZ]
    BY <2>1 DEF IInv, Typed, TypedTable
  <2> QED BY <2>1, <2>2, <1>17
<1>28. ASSUME IInv, NEW p \in Procs, SysFork(p) PROVE IInv'
  <2> USE <1>28
  <2>1. Runs(p, "user") /\ Typed /\ Control /\ Owned
    BY Here DEF SysFork
  <2>2. PICK q \in {r \in Procs : state[r] = "UNUSED"}, s \in {Pick(free)} :
          /\ state' = [state EXCEPT ![q] = "EMBRYO"]
          /\ kstack' = [kstack EXCEPT ![q] = s]
          /\ kid' = [kid EXCEPT ![p] = q]
          /\ \/ /\ KptFrom(free \ {s}) # {}
                /\ \E d \in {Pick(KptFrom(free \ {s}))} :
                     /\ nd' = [nd EXCEPT ![p] = d]
                     /\ pgd' = [pgd EXCEPT ![d] = NoTables]
                     /\ free' = free \ {s, d}
                     /\ boot' = boot \ {d}
                /\ Goto(p, "copy", "", NoLocals)
             \/ /\ free' = free \ {s}
                /\ UNCHANGED <<boot, pgd, nd, pc, ret, k>>
    BY DEF SysFork
  <2>3. s \in free
    BY <2>2 DEF SysFork, Pick
  <2>4. UNCHANGED <<pgt, pgdir, sz, ip>>
    BY DEF SysFork
  <2>5. /\ q \in Procs \ Used /\ state[q] = "UNUSED" /\ s \in Blocks /\ s # NULL
    BY <2>1, <2>2, <2>3, VmAssumption DEF Used, Typed, TypedMemory
  <2>6. TypedTable'
    BY <2>1, <2>2, <2>4, <2>5 DEF Typed, TypedTable
  <2>7. /\ kid' \in [Procs -> Procs \cup {NULL}] /\ kid'[p] = q
        /\ \A r \in Procs \ {p} : kid'[r] = kid[r] /\ kid[r] # q
        /\ kid[p] # q /\ q # NULL
    BY <2>1, <2>2, <2>5, VmAssumption, ZenonT(30) DEF Typed, TypedLocals, Control, Slots
  <2>8. Slots'
    <3>1. /\ state'[q] = "EMBRYO" /\ \A r \in Procs \ {q} : state'[r] = state[r]
          /\ kstack'[q] = s /\ \A r \in Procs \ {q} : kstack'[r] = kstack[r]
      BY <2>1, <2>2, <2>5 DEF Typed, TypedTable
    <3>2. \A r \in Used' : kstack'[r] # NULL
      BY <2>1, <2>5, <3>1 DEF Control, Slots, Used
    <3>3. \A r \in Imaged' : pgdir'[r] # NULL
      BY <2>1, <2>4, <3>1, ZenonT(30) DEF Control, Slots, Imaged
    <3>4. \A r \in Procs : kid'[r] # NULL => state'[kid'[r]] = "EMBRYO"
      <4>1. ASSUME NEW r \in Procs \ {p}, kid[r] # NULL PROVE state'[kid[r]] = "EMBRYO"
        <5>1. kid[r] \in Procs /\ kid[r] # q /\ state[kid[r]] = "EMBRYO"
          BY <2>1, <2>7, <4>1 DEF Control, Slots, Typed, TypedLocals
        <5> QED BY <3>1, <5>1
      <4>2. ASSUME NEW r \in Procs, kid'[r] # NULL, r # p PROVE state'[kid'[r]] = "EMBRYO"
        <5>1. kid'[r] = kid[r] /\ r \in Procs \ {p}
          BY <2>7, <4>2
        <5> QED BY <4>1, <4>2, <5>1
      <4>3. state'[kid'[p]] = "EMBRYO"
        BY <2>7, <3>1
      <4> QED BY <4>2, <4>3
    <3>5. \A x, y \in Procs : kid'[x] # NULL /\ kid'[x] = kid'[y] => x = y
      <4>1. \A x, y \in Procs : kid[x] # NULL /\ kid[x] = kid[y] => x = y
        BY <2>1 DEF Control, Slots
      <4> QED BY <2>7, <4>1
    <3> QED BY <3>2, <3>3, <3>4, <3>5 DEF Slots
  <2>9. CASE KptFrom(free \ {s}) # {} /\ Goto(p, "copy", "", NoLocals) /\
             \E d \in {Pick(KptFrom(free \ {s}))} :
                     /\ nd' = [nd EXCEPT ![p] = d]
                     /\ pgd' = [pgd EXCEPT ![d] = NoTables]
                     /\ free' = free \ {s, d}
                     /\ boot' = boot \ {d}
    <3>1. PICK d \in {Pick(KptFrom(free \ {s}))} :
                     /\ nd' = [nd EXCEPT ![p] = d]
                     /\ pgd' = [pgd EXCEPT ![d] = NoTables]
                     /\ free' = free \ {s, d}
                     /\ boot' = boot \ {d}
      BY <2>9
    <3>2. d \in Avail \ {s}
      <4>1. d \in KptFrom(free \ {s})
        BY <2>9, <3>1 DEF Pick
      <4> QED BY <2>1, <2>3, <4>1, KptTakes DEF Owned
    <3>3. d \in Blocks /\ d # NULL
      BY <2>1, <3>2, VmAssumption, ZenonT(30) DEF Avail, Typed, TypedMemory
    <3>4. TypedMemory' /\ Owned'
      BY <2>1, <2>2, <2>3, <2>4, <2>5, <3>1, <3>2, <1>5
    <3>5. /\ nd' \in [Procs -> Blocks \cup {NULL}] /\ nd'[p] = d
          /\ ip' \in [Procs -> Programs \cup {NULL}]
          /\ \A r \in Procs \ {p} : nd'[r] = nd[r] /\ ip'[r] = ip[r]
      BY <2>1, <2>4, <3>1, <3>3, ZenonT(30) DEF Typed, TypedLocals
    <3>6. "copy" \in Places /\ "" \in Returns /\ NoLocals \in Locals
      BY <1>12 DEF Places, Returns
    <3>7. Point("copy", "", nd'[p], kid'[p], ip'[p], NoLocals.seg)
      BY <2>7, <3>3, <3>5, ZenonT(30) DEF Point, Builds, Reads
    <3>8. TypedLocals' /\ Points'
      BY <2>1, <2>7, <2>9, <3>5, <3>6, <3>7, <1>9 DEF Control
    <3> QED BY <2>6, <2>8, <3>4, <3>8 DEF IInv, Typed, Control
  <2>10. CASE free' = free \ {s} /\ UNCHANGED <<boot, pgd, nd, pc, ret, k>>
    <3>1. TypedMemory' /\ Owned'
      <4>1. TakesStack(q, s)
        BY <2>2, <2>4, <2>10 DEF TakesStack
      <4> QED BY <2>1, <2>3, <2>5, <4>1, <1>7
    <3>2. TypedLocals'
      BY <2>1, <2>4, <2>7, <2>10 DEF Typed, TypedLocals
    <3>3. Points'
      BY <2>1, <2>4, <2>7, <2>10 DEF Control, Points, Point
    <3> QED BY <2>6, <2>8, <3>1, <3>2, <3>3 DEF IInv, Typed, Control
  <2> QED BY <2>2, <2>9, <2>10
<1>29. ASSUME IInv, NEW p \in Procs, CopyPage(p) PROVE IInv'
  <2> USE <1>29
  <2>1. Runs(p, "copy") /\ k[p].a < sz[p]
    BY DEF CopyPage
  <2>2. /\ Typed /\ Control /\ Owned /\ nd[p] # NULL /\ nd[p] \in Dirs
        /\ k[p].a \in Nat /\ k[p].a < UADDR_SZ /\ k[p].a + PTE_SZ \in Nat
        /\ pgdir[p] \in Dirs
    BY <2>1, Here, VmAssumption, Sizes, SMTT(30) DEF Locals, Point, Builds
  <2>3. UNCHANGED <<state, kstack, pgdir, sz, nd, kid, ip>>
    BY DEF CopyPage, table
  <2> DEFINE from == Pte(pgdir[p], k[p].a)
  <2>4. from.ap \in BOOLEAN
    <3>1. PDE_IDX(k[p].a) \in Pdes /\ PTE_IDX(k[p].a) \in Ptes
      BY <2>2, Index
    <3>2. pgdir[p] \in Blocks
      BY <2>2, Uses
    <3>3. Table(pgdir[p], k[p].a) \in Blocks \cup {NULL}
      BY <2>2, <3>1, <3>2 DEF Table, Typed, TypedMemory
    <3>4. NoPte \in [pa : Blocks \cup {NULL}, ap : BOOLEAN]
      BY DEF NoPte, AP_KO
    <3>5. from \in [pa : Blocks \cup {NULL}, ap : BOOLEAN]
      BY <2>2, <3>1, <3>3, <3>4, ZenonT(30) DEF Pte, Typed, TypedMemory
    <3> QED BY <3>5, ZenonT(30)
  <2>5. \/ UNCHANGED <<memory, pc, ret, k>>
        \/ Freevm(p) /\ UNCHANGED memory
        \/ /\ \E b \in free : MapPage(nd[p], k[p].a, b, from.ap)
           /\ k' = [k EXCEPT ![p].a = k[p].a + PTE_SZ]
           /\ UNCHANGED <<pc, ret>>
    BY DEF CopyPage, Pick
  <2> HIDE DEF from
  <2>6. CASE UNCHANGED <<memory, pc, ret, k>>
    <3>1. TypedLocals' /\ Points' /\ sz' \in [Procs -> 0 .. UADDR_SZ]
      BY <2>2, <2>3, <2>6 DEF Typed, TypedTable, TypedLocals, Control, Points
    <3> QED BY <2>3, <2>6, <3>1, <1>10 DEF memory
  <2>7. CASE Freevm(p) /\ UNCHANGED memory
    BY <2>2, <2>3, <2>7, <1>16, ZenonT(30) DEF memory
  <2>8. CASE /\ \E b \in free : MapPage(nd[p], k[p].a, b, from.ap)
             /\ k' = [k EXCEPT ![p].a = k[p].a + PTE_SZ]
             /\ UNCHANGED <<pc, ret>>
    <3>1. TypedMemory' /\ Owned'
      BY <2>2, <2>3, <2>4, <2>8, <1>2
    <3> QED BY <2>2, <2>3, <2>8, <3>1, <1>18
  <2> QED BY <2>5, <2>6, <2>7, <2>8
<1>30. ASSUME IInv, NEW p \in Procs, Forked(p) PROVE IInv'
  <2> USE <1>30
  <2> DEFINE q == kid[p]
  <2>1. Runs(p, "copy")
    BY DEF Forked
  <2>2. /\ Typed /\ Control /\ Owned /\ nd[p] # NULL /\ q # NULL /\ q \in Procs
        /\ sz[p] \in 0 .. UADDR_SZ /\ state[q] = "EMBRYO" /\ nd[p] \in Blocks
    BY <2>1, Here, ZenonT(30) DEF Point, Builds, Typed, TypedLocals, Control, Slots
  <2>3. /\ pgdir' = [pgdir EXCEPT ![q] = nd[p]]
        /\ sz' = [sz EXCEPT ![q] = sz[p]]
        /\ state' = [state EXCEPT ![q] = "USED"]
        /\ nd' = [nd EXCEPT ![p] = NULL]
        /\ kid' = [kid EXCEPT ![p] = NULL]
        /\ Goto(p, "user", "", NoLocals)
        /\ UNCHANGED <<free, boot, pgd, pgt, kstack, ip>>
    BY DEF Forked, Return, memory
  <2> HIDE DEF q
  <2>4. TypedMemory' /\ TypedTable'
    BY <2>2, <2>3 DEF Typed, TypedTable, TypedMemory
  <2>5. /\ nd' \in [Procs -> Blocks \cup {NULL}] /\ kid' \in [Procs -> Procs \cup {NULL}]
        /\ ip' \in [Procs -> Programs \cup {NULL}] /\ kid'[p] = NULL
        /\ \A r \in Procs \ {p} : nd'[r] = nd[r] /\ kid'[r] = kid[r] /\ ip'[r] = ip[r]
    BY <2>2, <2>3 DEF Typed, TypedLocals
  <2>6. TypedLocals' /\ Points'
    <3>1. "user" \in Places /\ "" \in Returns /\ NoLocals \in Locals
      BY <1>12 DEF Places, Returns
    <3>2. Point("user", "", nd'[p], kid'[p], ip'[p], NoLocals.seg)
      BY DEF Point, Builds, Reads
    <3> QED BY <2>2, <2>3, <2>5, <3>1, <3>2, <1>9 DEF Control
  <2>7. /\ state'[q] = "USED" /\ \A r \in Procs \ {q} : state'[r] = state[r]
        /\ pgdir'[q] = nd[p] /\ \A r \in Procs \ {q} : pgdir'[r] = pgdir[r]
    BY <2>2, <2>3, ZenonT(30) DEF Typed, TypedTable
  <2>8. Used' = Used /\ Imaged' = Imaged \cup {q} /\ q \in Procs \ Imaged
    BY <2>2, <2>7 DEF Used, Imaged
  <2>9. Slots'
    <3>1. \A r \in Used' : kstack'[r] # NULL
      BY <2>2, <2>3, <2>8 DEF Control, Slots
    <3>2. \A r \in Imaged' : pgdir'[r] # NULL
      BY <2>2, <2>7, <2>8, SMTT(20) DEF Control, Slots, Imaged
    <3>3. \A r \in Procs : kid'[r] # NULL => state'[kid'[r]] = "EMBRYO"
      <4>1. ASSUME NEW r \in Procs, kid'[r] # NULL PROVE state'[kid'[r]] = "EMBRYO"
        <5>1. r # p /\ kid'[r] = kid[r] /\ kid[r] \in Procs
          BY <2>2, <2>5, <4>1 DEF Typed, TypedLocals
        <5>2. state[kid[r]] = "EMBRYO" /\ kid[r] # q
          BY <2>2, <4>1, <5>1 DEF Control, Slots, q
        <5> QED BY <2>7, <5>1, <5>2
      <4> QED BY <4>1
    <3>4. \A x, y \in Procs : kid'[x] # NULL /\ kid'[x] = kid'[y] => x = y
      BY <2>2, <2>5, ZenonT(30) DEF Control, Slots
    <3> QED BY <3>1, <3>2, <3>3, <3>4 DEF Slots
  <2>10. Typed' /\ Control'
    BY <2>4, <2>6, <2>9 DEF Typed, Control
  <2>11. Owned'
    <3>1. ChildTakes(p, q)
      BY <2>2, <2>3, <2>8 DEF ChildTakes
    <3>2. HandsOver
      BY <2>3, <2>8, <3>1 DEF HandsOver
    <3> QED BY <2>2, <2>10, <3>2, HandOverOwned, ZenonT(30)
  <2> QED BY <2>10, <2>11 DEF IInv
<1>31. ASSUME IInv, NEW p \in Procs, SysExit(p) PROVE IInv'
  <2> USE <1>31
  <2>1. Runs(p, "user") /\ state[p] = "USED"
    BY DEF SysExit, Runs
  <2>2. Typed /\ Control /\ Owned
    BY DEF IInv
  <2>3. /\ state' = [state EXCEPT ![p] = "ZOMBIE"]
        /\ UNCHANGED <<free, boot, pgd, pgt, kstack, pgdir, sz, pc, ret, nd, kid, ip, k>>
    BY DEF SysExit, memory, locals
  <2>4. Typed'
    BY <2>2, <2>3 DEF Typed, TypedMemory, TypedTable, TypedLocals
  <2>5. state'[p] = "ZOMBIE" /\ \A r \in Procs \ {p} : state'[r] = state[r]
    BY <2>2, <2>3 DEF Typed, TypedTable
  <2>6. Used' = Used /\ Imaged' = Imaged
    BY <2>1, <2>5 DEF Used, Imaged
  <2>7. Points'
    BY <2>2, <2>3, ZenonT(30) DEF Control, Points
  <2>8. \A r \in Procs : kid[r] # NULL => kid[r] # p
    BY <2>1, <2>2, ZenonT(30) DEF Control, Slots
  <2>9. Slots'
    BY <2>2, <2>3, <2>5, <2>6, <2>8, ZenonT(30) DEF Control, Slots, Typed, TypedLocals
  <2>10. Control'
    BY <2>7, <2>9 DEF Control
  <2>11. Owned'
    <3>1. HandsOver
      BY <2>3, <2>6 DEF HandsOver
    <3> QED BY <2>2, <2>4, <2>10, <3>1, HandOverOwned
  <2> QED BY <2>4, <2>10, <2>11 DEF IInv
<1>32. ASSUME IInv, NEW p \in Procs, NEW q \in Procs, SysWait(p, q) PROVE IInv'
  <2> USE <1>32
  <2>1. Runs(p, "user") /\ state[q] = "ZOMBIE"
    BY DEF SysWait
  <2>2. Typed /\ Control /\ Owned /\ q \in Imaged
    BY <2>1 DEF IInv, Imaged
  <2>3. /\ free' = free \cup {kstack[q]}
        /\ kstack' = [kstack EXCEPT ![q] = NULL]
        /\ state' = [state EXCEPT ![q] = "UNUSED"]
        /\ nd' = [nd EXCEPT ![p] = pgdir[q]]
        /\ Goto(p, "dealloc", "free", [NoLocals EXCEPT !.lim = UADDR_SZ])
        /\ UNCHANGED <<boot, pgd, pgt, pgdir, sz, kid, ip>>
    BY DEF SysWait, Freevm, Kfree
  <2>4. TypedMemory' /\ Owned'
    <3>1. Reaps(p, q)
      BY <2>3 DEF Reaps
    <3> QED BY <2>2, <3>1, <1>8
  <2>5. TypedTable'
    BY <2>2, <2>3 DEF Typed, TypedTable
  <2>6. pgdir[q] \in Blocks /\ pgdir[q] # NULL
    BY <2>2 DEF Typed, TypedTable, Control, Slots
  <2>7. /\ nd' \in [Procs -> Blocks \cup {NULL}] /\ kid' \in [Procs -> Procs \cup {NULL}]
        /\ ip' \in [Procs -> Programs \cup {NULL}] /\ nd'[p] = pgdir[q]
        /\ \A r \in Procs \ {p} : nd'[r] = nd[r] /\ kid'[r] = kid[r] /\ ip'[r] = ip[r]
    BY <2>2, <2>3, <2>6 DEF Typed, TypedLocals
  <2>8. TypedLocals' /\ Points'
    <3> DEFINE loc == [NoLocals EXCEPT !.lim = UADDR_SZ]
    <3>1. "dealloc" \in Places /\ "free" \in Returns /\ loc \in Locals
      BY <1>12 DEF Places, Returns
    <3>2. Point("dealloc", "free", nd'[p], kid'[p], ip'[p], loc.seg)
      BY <2>6, <2>7 DEF Point, Builds, Reads
    <3>3. Goto(p, "dealloc", "free", loc)
      BY <2>3
    <3> HIDE DEF loc
    <3> QED BY <2>2, <2>7, <3>1, <3>2, <3>3, <1>9, ZenonT(30) DEF Control
  <2>9. Slots'
    <3>1. /\ state'[q] = "UNUSED" /\ \A r \in Procs \ {q} : state'[r] = state[r]
          /\ \A r \in Procs \ {q} : kstack'[r] = kstack[r]
      BY <2>2, <2>3 DEF Typed, TypedTable
    <3>2. \A r \in Used' : kstack'[r] # NULL
      BY <2>2, <3>1 DEF Control, Slots, Used
    <3>3. \A r \in Imaged' : pgdir'[r] # NULL
      BY <2>2, <2>3, <3>1 DEF Control, Slots, Imaged
    <3>4. \A r \in Procs : kid'[r] # NULL => state'[kid'[r]] = "EMBRYO"
      <4>1. ASSUME NEW r \in Procs, kid[r] # NULL PROVE state'[kid[r]] = "EMBRYO"
        <5>1. kid[r] \in Procs /\ state[kid[r]] = "EMBRYO"
          BY <2>2, <4>1 DEF Control, Slots, Typed, TypedLocals
        <5>2. kid[r] # q
          BY <2>1, <5>1
        <5> QED BY <3>1, <5>1, <5>2
      <4> QED BY <2>3, <4>1
    <3>5. \A x, y \in Procs : kid'[x] # NULL /\ kid'[x] = kid'[y] => x = y
      BY <2>2, <2>3 DEF Control, Slots
    <3> QED BY <3>2, <3>3, <3>4, <3>5 DEF Slots
  <2> QED BY <2>4, <2>5, <2>8, <2>9 DEF IInv, Typed, Control
<1>33. ASSUME IInv, NEW p \in Procs, NEW f \in Programs, SysExec(p, f) PROVE IInv'
  <2> USE <1>33
  <2>1. /\ Goto(p, "header", "", NoLocals) /\ ip' = [ip EXCEPT ![p] = f]
        /\ UNCHANGED <<free, boot, pgd, pgt, state, kstack, pgdir, sz, nd, kid>>
    BY DEF SysExec, memory, table
  <2>2. /\ "header" \in Places /\ "" \in Returns /\ NoLocals \in Locals
        /\ sz' \in [Procs -> 0 .. UADDR_SZ]
    BY <2>1, <1>12 DEF Places, Returns, IInv, Typed, TypedTable
  <2>3. Point("header", "", nd[p], kid[p], f, NoLocals.seg)
    BY VmAssumption DEF Point, Builds, Reads
  <2> QED BY <2>1, <2>2, <2>3, <1>14
<1>34. ASSUME IInv, NEW p \in Procs, ExecHeader(p), ~wild' PROVE IInv'
  <2> USE <1>34
  <2>1. Runs(p, "header") /\ UNCHANGED <<pgt, state, kstack, pgdir, sz, kid>>
    BY DEF ExecHeader, table
  <2>2. Typed /\ Control /\ Owned /\ ip[p] # NULL
    BY <2>1, Here DEF Point
  <2>3. sz' \in [Procs -> 0 .. UADDR_SZ]
    BY <2>1, <2>2 DEF Typed, TypedTable
  <2>4. \/ ip' = [ip EXCEPT ![p] = NULL] /\ Return(p) /\ UNCHANGED <<free, boot, pgd, nd>>
        \/ UNCHANGED <<free, boot, pgd, nd, pc, ret, k, ip>>
        \/ /\ \E d \in Avail : /\ nd' = [nd EXCEPT ![p] = d]
                               /\ pgd' = [pgd EXCEPT ![d] = NoTables]
                               /\ free' = free \ {d}
                               /\ boot' = boot \ {d}
           /\ Goto(p, "phdr", "", [NoLocals EXCEPT !.seg = 1])
           /\ UNCHANGED ip
    <3>1. KptFrom(free) # {} => Pick(KptFrom(free)) \in Avail
      BY DEF KptFrom, Avail, Pick
    <3> QED BY <3>1 DEF ExecHeader
  <2>5. CASE ip' = [ip EXCEPT ![p] = NULL] /\ Return(p) /\ UNCHANGED <<free, boot, pgd, nd>>
    BY <2>1, <2>3, <2>5, <1>17, ZenonT(30)
  <2>6. CASE UNCHANGED <<free, boot, pgd, nd, pc, ret, k, ip>>
    <3>1. TypedLocals' /\ Points'
      BY <2>1, <2>2, <2>6 DEF Typed, TypedLocals, Control, Points
    <3> QED BY <2>1, <2>3, <2>6, <3>1, <1>10
  <2>7. ASSUME NEW d \in Avail, nd' = [nd EXCEPT ![p] = d],
               pgd' = [pgd EXCEPT ![d] = NoTables], free' = free \ {d}, boot' = boot \ {d},
               Goto(p, "phdr", "", [NoLocals EXCEPT !.seg = 1]), UNCHANGED ip
        PROVE  IInv'
    <3> DEFINE loc == [NoLocals EXCEPT !.seg = 1]
    <3>1. TypedMemory' /\ Owned'
      BY <2>1, <2>2, <2>7, <1>4
    <3>2. d \in Blocks /\ d # NULL
      BY <2>2, VmAssumption DEF Avail, Typed, TypedMemory
    <3>3. /\ nd' \in [Procs -> Blocks \cup {NULL}] /\ kid' \in [Procs -> Procs \cup {NULL}]
          /\ ip' \in [Procs -> Programs \cup {NULL}] /\ nd'[p] = d /\ ip'[p] = ip[p]
          /\ \A r \in Procs \ {p} : nd'[r] = nd[r] /\ kid'[r] = kid[r] /\ ip'[r] = ip[r]
      BY <2>1, <2>2, <2>7, <3>2 DEF Typed, TypedLocals
    <3>4. "phdr" \in Places /\ "" \in Returns /\ loc \in Locals /\ Goto(p, "phdr", "", loc)
      BY <2>7, <1>12 DEF Places, Returns
    <3>5. loc.seg = 1
      BY DEF NoLocals
    <3> HIDE DEF loc
    <3>6. Point("phdr", "", nd'[p], kid'[p], ip'[p], loc.seg)
      BY <2>2, <3>2, <3>3, <3>5, SMT DEF Point, Builds, Reads
    <3>7. TypedLocals' /\ Points'
      BY <2>2, <3>3, <3>4, <3>6, <1>9, ZenonT(30) DEF Control
    <3>8. TypedTable' /\ Slots'
      BY <2>1, <2>2 DEF Typed, TypedTable, Control, Slots, Used, Imaged
    <3> QED BY <3>1, <3>7, <3>8 DEF IInv, Typed, Control
  <2> QED BY <2>4, <2>5, <2>6, <2>7
\* The program header that exec() is at.
<1>35. ASSUME NEW f \in Programs, NEW i \in Nat, i > 0, i <= Len(f.phs)
       PROVE  (f.phs[i].vaddr + f.phs[i].memsz) % WORD \in Nat
  <2> USE <1>35
  <2> DEFINE P == [whole : BOOLEAN, load : BOOLEAN, vaddr : 0 .. WORD - 1,
                   memsz : 0 .. WORD - 1, filesz : 0 .. WORD - 1,
                   avail : 0 .. WORD - PTE_SZ]
  <2>1. \A ph \in P : (ph.vaddr + ph.memsz) % WORD \in Nat
    <3>1. WORD \in Nat \ {0}
      <4>1. WORD \in Nat /\ WORD > 2 * NUM_UPDE * NUM_PTE * PTE_SZ
        BY VmAssumption
      <4>2. NUM_UPDE * NUM_PTE \in Nat \ {0}
        BY Product, VmAssumption
      <4>3. (NUM_UPDE * NUM_PTE) * PTE_SZ \in Nat \ {0}
        BY <4>2, Product, VmAssumption
      <4> QED BY <4>1, <4>3, VmAssumption, SMT
    <3>2. \A x, y \in 0 .. WORD - 1 : (x + y) % WORD \in Nat
      BY <3>1, SMT
    <3>3. \A ph \in P : ph.vaddr \in 0 .. WORD - 1 /\ ph.memsz \in 0 .. WORD - 1
      OBVIOUS
    <3> HIDE DEF P
    <3> QED BY <3>2, <3>3
  <2>2. f \in [hdr : BOOLEAN, args : Nat, phs : Seq(P)]
    BY ProgramsAssumption
  <2> HIDE DEF P
  <2>3. f.phs \in Seq(P)
    BY <2>2
  <2>4. f.phs[i] \in P
    BY <2>3, SMT
  <2> QED BY <2>1, <2>4
<1>36. ASSUME IInv, NEW p \in Procs, ExecPhdr(p) PROVE IInv'
  <2> USE <1>36
  <2> DEFINE ph == ip[p].phs[k[p].seg]
             new == (ph.vaddr + ph.memsz) % WORD
  <2>1. /\ Runs(p, "phdr") /\ k[p].seg <= Len(ip[p].phs)
        /\ UNCHANGED <<free, boot, pgd, pgt, state, kstack, pgdir, sz, nd, kid, ip>>
    BY ZenonT(30) DEF ExecPhdr, memory, table
  <2>2. /\ Typed /\ nd[p] # NULL /\ ip[p] # NULL /\ k[p] \in Locals
        /\ k[p].seg \in Nat /\ k[p].seg > 0 /\ k[p].sz \in 0 .. UADDR_SZ
    BY <2>1, Here DEF Point, Builds, Reads, Locals
  <2>3. ip[p] \in Programs /\ sz' \in [Procs -> 0 .. UADDR_SZ]
    BY <2>1, <2>2 DEF Typed, TypedLocals, TypedTable
  <2>4. new \in Nat
    BY <2>1, <2>2, <2>3, <1>35
  <2>5. \/ Freevm(p)
        \/ Goto(p, "phdr", "", [k[p] EXCEPT !.seg = k[p].seg + 1])
        \/ Allocuvm(p, k[p].sz, new, "segment", Freevm(p))
    BY DEF ExecPhdr
  <2> HIDE DEF new
  <2>6. CASE Freevm(p)
    BY <2>1, <2>2, <2>6, <1>16
  <2>7. CASE Goto(p, "phdr", "", [k[p] EXCEPT !.seg = k[p].seg + 1])
    <3> DEFINE loc == [k[p] EXCEPT !.seg = k[p].seg + 1]
    <3>1. loc \in Locals /\ loc.seg > 0
      BY <2>2, SMT DEF Locals
    <3>2. "phdr" \in Places /\ "" \in Returns /\ Goto(p, "phdr", "", loc)
      BY <2>7, ZenonT(30) DEF Places, Returns
    <3> HIDE DEF loc
    <3>3. Point("phdr", "", nd[p], kid[p], ip[p], loc.seg)
      BY <2>2, <3>1 DEF Point, Builds, Reads
    <3> QED BY <2>1, <2>3, <3>1, <3>2, <3>3, <1>15
  <2>8. CASE new < UADDR_SZ /\ Allocuvm(p, k[p].sz, new, "segment", Freevm(p))
    <3> DEFINE loc == [k[p] EXCEPT !.a = align_up(k[p].sz, PTE_SZ), !.old = k[p].sz,
                                   !.lim = IF new < k[p].sz THEN k[p].sz ELSE new]
    <3>1. loc \in Locals /\ loc.seg = k[p].seg
      BY <2>2, <2>4, <2>8, <1>13, ZenonT(30)
    <3>2. "alloc" \in Places /\ "segment" \in Returns /\ Goto(p, "alloc", "segment", loc)
      BY <2>4, <2>8, Sizes, SMT DEF Places, Returns, Allocuvm
    <3> HIDE DEF loc
    <3>3. Point("alloc", "segment", nd[p], kid[p], ip[p], loc.seg)
      BY <2>2, <3>1 DEF Point, Builds, Reads
    <3> QED BY <2>1, <2>3, <3>1, <3>2, <3>3, <1>15
  <2>9. new >= UADDR_SZ \/ new < UADDR_SZ
    BY <2>4, Sizes, SMT
  <2> QED BY <2>5, <2>6, <2>7, <2>8, <2>9 DEF Allocuvm
<1>37. ASSUME IInv, NEW p \in Procs, ExecAllocated(p) PROVE IInv'
  <2> USE <1>37
  <2> DEFINE loc == [k[p] EXCEPT !.sz = k[p].lim, !.a = 0]
  <2>1. /\ Runs(p, "alloc") /\ ret[p] = "segment"
        /\ UNCHANGED <<free, boot, pgd, pgt, state, kstack, pgdir, sz, nd, kid, ip>>
        /\ Freevm(p) \/ Goto(p, "load", "", loc)
    BY DEF ExecAllocated, memory, table
  <2>2. nd[p] # NULL /\ ip[p] # NULL /\ k[p] \in Locals /\ k[p].seg > 0
    BY <2>1, Here DEF Point, Builds, Reads
  <2>3. loc \in Locals /\ loc.seg = k[p].seg
    BY <2>2 DEF Locals
  <2>4. "load" \in Places /\ "" \in Returns /\ sz' \in [Procs -> 0 .. UADDR_SZ]
    BY <2>1 DEF Places, Returns, IInv, Typed, TypedTable
  <2> HIDE DEF loc
  <2>5. Point("load", "", nd[p], kid[p], ip[p], loc.seg)
    BY <2>2, <2>3, ZenonT(30) DEF Point, Builds, Reads
  <2>6. CASE Freevm(p)
    BY <2>1, <2>2, <2>6, <1>16, ZenonT(30)
  <2>7. CASE Goto(p, "load", "", loc)
    BY <2>1, <2>3, <2>4, <2>5, <2>7, <1>15
  <2> QED BY <2>1, <2>6, <2>7
\* Stores, switches, panics and stuttering: the blocks stay where they are.
<1>41. ASSUME IInv, UNCHANGED <<free, boot, pgd, pgt, table, locals>> PROVE IInv'
  <2> USE <1>41
  <2>1. TypedLocals' /\ Points' /\ sz' \in [Procs -> 0 .. UADDR_SZ]
    BY DEF table, locals, IInv, Typed, TypedTable, TypedLocals, Control, Points
  <2> QED BY <2>1, <1>10 DEF table, locals
<1>38. ASSUME IInv, NEW p \in Procs, ExecLoad(p) PROVE IInv'
  <2> USE <1>38
  <2> DEFINE next == [k[p] EXCEPT !.seg = k[p].seg + 1]
             more == [k[p] EXCEPT !.a = k[p].a + PTE_SZ]
  <2>1. /\ Runs(p, "load")
        /\ UNCHANGED <<free, boot, pgd, pgt, state, kstack, pgdir, sz, nd, kid, ip>>
        /\ \/ UNCHANGED <<pc, ret, k>>
           \/ Goto(p, "phdr", "", next) \/ Freevm(p) \/ Goto(p, "load", "", more)
    <3>1. /\ Runs(p, "load")
          /\ UNCHANGED <<free, boot, pgd, pgt, table, nd, kid, ip>>
      BY DEF ExecLoad
    <3> QED BY <3>1, LoadRound DEF table
  <2>2. nd[p] # NULL /\ ip[p] # NULL /\ k[p] \in Locals /\ k[p].seg > 0
    BY <2>1, Here DEF Point, Builds, Reads
  <2>3. next \in Locals /\ next.seg > 0
    BY <2>2, SMT DEF Locals
  <2>4. more \in Locals /\ more.seg > 0
    BY <2>2, VmAssumption, SMT DEF Locals
  <2>5. /\ "load" \in Places /\ "phdr" \in Places /\ "" \in Returns
        /\ sz' \in [Procs -> 0 .. UADDR_SZ]
    BY <2>1 DEF Places, Returns, IInv, Typed, TypedTable
  <2> HIDE DEF next, more
  <2>6. /\ Point("phdr", "", nd[p], kid[p], ip[p], next.seg)
        /\ Point("load", "", nd[p], kid[p], ip[p], more.seg)
    BY <2>2, <2>3, <2>4 DEF Point, Builds, Reads
  <2>7. CASE Goto(p, "phdr", "", next)
    BY <2>1, <2>3, <2>5, <2>6, <2>7, <1>15, ZenonT(30)
  <2>8. CASE Freevm(p)
    BY <2>1, <2>2, <2>8, <1>16
  <2>9. CASE Goto(p, "load", "", more)
    BY <2>1, <2>4, <2>5, <2>6, <2>9, <1>15
  <2>10. CASE UNCHANGED <<pc, ret, k>>
    BY <2>1, <2>10, <1>41 DEF table, locals
  <2> QED BY <2>1, <2>7, <2>8, <2>9, <2>10
<1>39. ASSUME IInv, NEW p \in Procs, ExecStack(p) PROVE IInv'
  <2> USE <1>39
  <2> DEFINE top == align_up(k[p].sz, PTE_SZ)
             loc == [NoLocals EXCEPT !.a = top, !.old = top, !.args = ip[p].args,
                                     !.lim = top + 2 * PTE_SZ]
  <2>1. /\ Runs(p, "phdr") /\ ip' = [ip EXCEPT ![p] = NULL]
        /\ UNCHANGED <<free, boot, pgd, pgt, state, kstack, pgdir, sz, nd, kid>>
        /\ \/ Freevm(p)
           \/ ~(top + 2 * PTE_SZ >= UADDR_SZ) /\ Goto(p, "alloc", "stack", loc)
    BY DEF ExecStack, memory, table
  <2>2. Typed /\ nd[p] # NULL /\ ip[p] # NULL /\ k[p] \in Locals
    BY <2>1, Here DEF Point, Builds, Reads
  <2>3. top \in Nat
    BY <2>2, Aligned, VmAssumption, Sizes, SMT DEF Locals
  <2>4. ip[p].args \in Nat /\ sz' \in [Procs -> 0 .. UADDR_SZ]
    BY <2>1, <2>2, ProgramsAssumption DEF Typed, TypedLocals, TypedTable
  <2>5. CASE Freevm(p)
    BY <2>1, <2>2, <2>5, <1>16
  <2>6. CASE ~(top + 2 * PTE_SZ >= UADDR_SZ) /\ Goto(p, "alloc", "stack", loc)
    <3> HIDE DEF top
    <3>1. top + 2 * PTE_SZ \in 0 .. UADDR_SZ
      BY <2>3, <2>6, VmAssumption, Sizes, SMT
    <3>2. loc \in Locals
      <4>1. NoLocals \in Locals
        BY <1>12
      <4> QED BY <2>3, <2>4, <3>1, <4>1 DEF Locals
    <3>3. "alloc" \in Places /\ "stack" \in Returns /\ NULL \in Programs \cup {NULL}
      BY DEF Places, Returns
    <3>4. Goto(p, "alloc", "stack", loc)
      BY <2>6
    <3> HIDE DEF loc
    <3>5. Point("alloc", "stack", nd[p], kid[p], NULL, loc.seg)
      BY <2>2 DEF Point, Builds, Reads
    <3> QED BY <2>1, <2>4, <3>2, <3>3, <3>4, <3>5, <1>14
  <2> QED BY <2>1, <2>5, <2>6
<1>40. ASSUME IInv, NEW p \in Procs, ExecArgs(p) PROVE IInv'
  <2> USE <1>40
  <2> DEFINE guard == k[p].lim - 2 * PTE_SZ
             t == Table(nd[p], guard)
             loc == [NoLocals EXCEPT !.lim = UADDR_SZ]
  <2>1. /\ Runs(p, "alloc") /\ ret[p] = "stack"
        /\ UNCHANGED <<free, boot, pgd, state, kstack, kid, ip>>
        /\ Goto(p, "dealloc", "free", loc)
        /\ \/ UNCHANGED <<pgdir, sz, nd>>
           \/ /\ pgdir' = [pgdir EXCEPT ![p] = nd[p]]
              /\ sz' = [sz EXCEPT ![p] = k[p].lim]
              /\ nd' = [nd EXCEPT ![p] = pgdir[p]]
    BY DEF ExecArgs, Freevm
  <2>2. pgt' = [b \in Blocks |-> IF b = t THEN [pgt[b] EXCEPT ![PTE_IDX(guard)].ap = AP_KO]
                                 ELSE pgt[b]]
    BY SMT DEF ExecArgs
  <2> HIDE DEF t, guard
  <2>3. /\ Typed /\ Control /\ Owned /\ p \in Imaged /\ nd[p] # NULL /\ nd[p] \in Blocks
        /\ k[p].lim \in 0 .. UADDR_SZ /\ pgdir[p] # NULL /\ pgdir[p] \in Blocks
    BY <2>1, Here, SMT DEF Point, Builds, Locals, Control, Slots, Typed, TypedTable, TypedLocals
  <2>4. /\ pgt' \in [Blocks -> [Ptes -> [pa : Blocks \cup {NULL}, ap : BOOLEAN]]]
        /\ \A u \in Blocks : \A j \in Ptes : pgt'[u][j].pa = pgt[u][j].pa
    <3> DEFINE x == PTE_IDX(guard)
               Entry == [pa : Blocks \cup {NULL}, ap : BOOLEAN]
    <3>1. \A u \in Blocks : pgt[u] \in [Ptes -> Entry]
      BY <2>3, ZenonT(30) DEF Typed, TypedMemory
    <3>2. \A e \in Entry : [e EXCEPT !.ap = AP_KO] \in Entry /\ [e EXCEPT !.ap = AP_KO].pa = e.pa
      BY DEF AP_KO
    <3> HIDE DEF Entry, x
    <3>3. \A f \in [Ptes -> Entry] :
            /\ [f EXCEPT ![x].ap = AP_KO] \in [Ptes -> Entry]
            /\ \A j \in Ptes : [f EXCEPT ![x].ap = AP_KO][j].pa = f[j].pa
      BY <3>2
    <3>4. \A u \in Blocks : pgt'[u] = IF u = t THEN [pgt[u] EXCEPT ![x].ap = AP_KO] ELSE pgt[u]
      BY <2>2 DEF x
    <3>5. pgt' \in [Blocks -> [Ptes -> Entry]]
      BY <2>2, <3>1, <3>3 DEF x
    <3>6. \A u \in Blocks : \A j \in Ptes : pgt'[u][j].pa = pgt[u][j].pa
      BY <3>1, <3>3, <3>4, ZenonT(30)
    <3> QED BY <3>5, <3>6 DEF Entry
  <2>5. TypedMemory'
    BY <2>1, <2>3, <2>4 DEF Typed, TypedMemory
  <2>6. TypedTable'
    BY <2>1, <2>3 DEF Typed, TypedTable
  <2>7. /\ nd' \in [Procs -> Blocks \cup {NULL}] /\ kid' \in [Procs -> Procs \cup {NULL}]
        /\ ip' \in [Procs -> Programs \cup {NULL}] /\ nd'[p] # NULL
        /\ \A r \in Procs \ {p} : nd'[r] = nd[r] /\ kid'[r] = kid[r] /\ ip'[r] = ip[r]
    BY <2>1, <2>3 DEF Typed, TypedLocals
  <2>8. TypedLocals' /\ Points'
    <3>1. "dealloc" \in Places /\ "free" \in Returns /\ loc \in Locals
      BY <1>12 DEF Places, Returns
    <3>2. Goto(p, "dealloc", "free", loc)
      BY <2>1
    <3> HIDE DEF loc
    <3>3. Point("dealloc", "free", nd'[p], kid'[p], ip'[p], loc.seg)
      BY <2>7 DEF Point, Builds, Reads
    <3> QED BY <2>3, <2>7, <3>1, <3>2, <3>3, <1>9, ZenonT(30) DEF Control
  <2>9. Used' = Used /\ Imaged' = Imaged
    BY <2>1 DEF Used, Imaged
  <2>10. Slots'
    <3>1. \A r \in Imaged' : pgdir'[r] # NULL
      BY <2>1, <2>3, <2>9 DEF Control, Slots, Typed, TypedTable, Imaged
    <3> QED BY <2>1, <2>3, <2>9, <3>1 DEF Control, Slots
  <2>11. Typed' /\ Control'
    BY <2>5, <2>6, <2>8, <2>10 DEF Typed, Control
  <2>12. \A u \in Tables : \A j \in Ptes : pgt'[u][j].pa = pgt[u][j].pa
    BY <2>3, <2>4, Uses, ZenonT(30)
  <2>13. Owned'
    <3>1. (Imaged' = Imaged /\ UNCHANGED <<pgdir, nd>>) \/ Swaps(p)
      BY <2>1, <2>3, <2>9 DEF Swaps
    <3>2. HandsOver
      BY <2>1, <2>3, <2>9, <2>12, <3>1 DEF HandsOver
    <3> QED BY <2>3, <2>11, <3>2, HandOverOwned
  <2> QED BY <2>11, <2>13 DEF IInv
<1> SUFFICES ASSUME IInv, [Next]_vars, ~wild' PROVE IInv'
  OBVIOUS
<1>42. ASSUME NEW p \in Procs, AllocPage(p) \/ AllocFails(p) \/ DeallocPage(p)
                              \/ DeallocBad(p) \/ FreeTables(p)
      PROVE  IInv'
  BY <1>42, <1>19, <1>20, <1>21, <1>22, <1>23
<1>43. ASSUME NEW p \in Procs, \/ SbrkGrown(p) \/ SbrkShrunk(p) \/ SbrkFails(p)
                              \/ \E n \in Deltas : SysSbrk(p, n)
      PROVE  IInv'
  BY <1>43, <1>25, <1>26, <1>27, <1>24
<1>44. ASSUME NEW p \in Procs, \/ SysFork(p) \/ CopyPage(p) \/ Forked(p) \/ SysExit(p)
                              \/ \E q \in Procs : SysWait(p, q)
      PROVE  IInv'
  BY <1>44, <1>28, <1>29, <1>30, <1>31, <1>32
<1>45. ASSUME NEW p \in Procs, \/ ExecHeader(p) \/ ExecPhdr(p) \/ ExecAllocated(p)
                              \/ ExecLoad(p) \/ ExecStack(p) \/ ExecArgs(p)
                              \/ \E f \in Programs : SysExec(p, f)
      PROVE  IInv'
  BY <1>45, <1>34, <1>36, <1>37, <1>38, <1>39, <1>40, <1>33
<1>46. ASSUME NEW p \in Procs, Switch(p) \/ \E i \in Touched : Store(p, i, Mark)
      PROVE  IInv'
  BY <1>46, <1>41 DEF Switch, Store, memory
<1>47. CASE Halted \/ UNCHANGED vars
  BY <1>47, <1>41 DEF Halted, vars, memory
<1> QED BY <1>42, <1>43, <1>44, <1>45, <1>46, <1>47 DEF Next

\* Nothing takes a wild pointer back.
LEMMA WildStays == [Next]_vars /\ wild => wild'
<1> SUFFICES ASSUME [Next]_vars, wild PROVE wild'
  OBVIOUS
<1>1. ASSUME NEW p \in Procs, AllocPage(p) \/ AllocFails(p) \/ DeallocPage(p)
                              \/ DeallocBad(p) \/ FreeTables(p)
      PROVE  wild'
  BY <1>1 DEF AllocPage, AllocFails, DeallocPage, DeallocBad, FreeTables
<1>2. ASSUME NEW p \in Procs, \/ SbrkGrown(p) \/ SbrkShrunk(p) \/ SbrkFails(p)
                              \/ \E n \in Deltas : SysSbrk(p, n)
      PROVE  wild'
  BY <1>2 DEF SbrkGrown, SbrkShrunk, SbrkFails, SysSbrk
<1>3. ASSUME NEW p \in Procs, \/ SysFork(p) \/ CopyPage(p) \/ Forked(p) \/ SysExit(p)
                              \/ \E q \in Procs : SysWait(p, q)
      PROVE  wild'
  BY <1>3 DEF SysFork, CopyPage, Forked, SysExit, SysWait
<1>4. ASSUME NEW p \in Procs, \/ ExecHeader(p) \/ ExecPhdr(p) \/ ExecAllocated(p)
                              \/ ExecLoad(p) \/ ExecStack(p) \/ ExecArgs(p)
                              \/ \E f \in Programs : SysExec(p, f)
      PROVE  wild'
  <2>1. CASE ExecHeader(p) \/ ExecPhdr(p) \/ ExecAllocated(p) \/ ExecStack(p)
    BY <2>1 DEF ExecHeader, ExecPhdr, ExecAllocated, ExecStack
  <2>2. CASE ExecLoad(p)
    BY <2>2, LoadRound
  <2>3. CASE ExecArgs(p)
    BY <2>3 DEF ExecArgs
  <2>4. CASE \E f \in Programs : SysExec(p, f)
    BY <2>4 DEF SysExec
  <2> QED BY <1>4, <2>1, <2>2, <2>3, <2>4
<1>5. ASSUME NEW p \in Procs, Switch(p) \/ \E i \in Touched : Store(p, i, Mark)
      PROVE  wild'
  BY <1>5 DEF Switch, Store
<1>6. CASE Halted \/ UNCHANGED vars
  BY <1>6 DEF Halted, vars
<1> QED BY <1>1, <1>2, <1>3, <1>4, <1>5, <1>6 DEF Next

\* For every number of processes, blocks and table entries, every set of
\* programs and all sizes sbrk() is called with: no block of memory is ever
\* used twice by the address spaces, kernel stacks and free lists of vm.c,
\* exec(), fork(), sbrk(), exit() and wait(), on success and on failure, as
\* long as exec() has not gone through a wild pointer: its uninitialised
\* pgdir, or an address past the end of the directory it builds.
THEOREM BlocksNeverShared == Spec => []NeverShared
<1> DEFINE Inv == ~wild => IInv
<1>1. Init => Inv
  BY InitOK
<1>2. Inv /\ [Next]_vars => Inv'
  BY StepOK, WildStays
\* One holding per use.
<1>3. ASSUME Typed, Control, Owned PROVE \A g, h \in Holdings : g[3] = h[3] => g = h
  <2> USE <1>3
  <2>1. ASSUME NEW h \in Holdings
        PROVE  \/ \E b \in free : h = <<"free", b, b>>
               \/ \E b \in boot : h = <<"boot", b, b>>
               \/ \E p \in Used : h = <<"kstack", p, kstack[p]>>
               \/ \E p \in Imaged : h = <<"pgdir", p, pgdir[p]>>
               \/ \E p \in Procs : nd[p] # NULL /\ h = <<"nd", p, nd[p]>>
               \/ \E d \in Dirs, i \in Pdes :
                    pgd[d][i] # NULL /\ h = <<"table", <<d, i>>, pgd[d][i]>>
               \/ \E t \in Tables, j \in Ptes :
                    pgt[t][j].pa # NULL /\ h = <<"page", <<t, j>>, pgt[t][j].pa>>
    BY SMT DEF Holdings, Used, Imaged
  <2>2. SUFFICES ASSUME NEW g \in Holdings, NEW h \in Holdings, g[3] = h[3]
                 PROVE  g = h
    OBVIOUS
  <2>3. /\ Avail \cap Stacks = {} /\ Avail \cap Dirs = {}
        /\ Avail \cap Tables = {} /\ Avail \cap Frames = {}
        /\ Stacks \cap Dirs = {} /\ Stacks \cap Tables = {} /\ Stacks \cap Frames = {}
        /\ Dirs \cap Tables = {} /\ Dirs \cap Frames = {} /\ Tables \cap Frames = {}
    BY DEF Owned, Disjoint
  <2>4. ASSUME NEW x \in Holdings
        PROVE  /\ x[1] \in {"free", "boot"} => x[3] \in Avail
               /\ x[1] = "kstack" => x[3] \in Stacks
               /\ x[1] \in {"pgdir", "nd"} => x[3] \in Dirs
               /\ x[1] = "table" => x[3] \in Tables
               /\ x[1] = "page" => x[3] \in Frames
               /\ x[1] \in {"free", "boot", "kstack", "pgdir", "nd", "table", "page"}
    BY <2>1, Uses, SMT DEF Avail, Stacks
  <2>5. CASE g[1] \in {"free", "boot"}
    <3>1. h[1] \in {"free", "boot"}
      BY <2>2, <2>3, <2>4, <2>5
    <3> QED BY <2>1, <2>2, <2>5, <3>1, SMT DEF Owned, Single
  <2>6. CASE g[1] = "kstack"
    <3>1. h[1] = "kstack"
      BY <2>2, <2>3, <2>4, <2>6
    <3> QED BY <2>1, <2>2, <2>6, <3>1, SMT DEF Owned, Single
  <2>7. CASE g[1] \in {"pgdir", "nd"}
    <3>1. h[1] \in {"pgdir", "nd"}
      BY <2>2, <2>3, <2>4, <2>7
    <3> QED BY <2>1, <2>2, <2>7, <3>1, SMT DEF Owned, Single
  <2>8. CASE g[1] = "table"
    <3>1. h[1] = "table"
      BY <2>2, <2>3, <2>4, <2>8
    <3> QED BY <2>1, <2>2, <2>8, <3>1, SMT DEF Owned, Single
  <2>9. CASE g[1] = "page"
    <3>1. h[1] = "page"
      BY <2>2, <2>3, <2>4, <2>9
    <3> QED BY <2>1, <2>2, <2>9, <3>1, SMT DEF Owned, Single
  <2> QED BY <2>4, <2>5, <2>6, <2>7, <2>8, <2>9
<1>4. Inv => NeverShared
  BY <1>3 DEF IInv, NeverShared
<1> HIDE DEF Inv
<1> QED BY <1>1, <1>2, <1>4, PTL DEF Spec
===============================================================================
