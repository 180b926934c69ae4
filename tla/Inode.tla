------------------------------- MODULE Inode --------------------------------
(***************************************************************************)
(* The contents of inodes, the lower half of fs.c: the bitmap of blocks,   *)
(* bmap() with its direct and indirect addresses, writei() in the chunks   *)
(* filewrite() cuts, itrunc(), and the in-memory copy of an inode beside   *)
(* the one on disk.  A step is one log transaction; the device never       *)
(* blocks, so nothing else runs inside it.  Sizes and offsets count units, *)
(* BSIZE of them to a block.                                               *)
(***************************************************************************)
EXTENDS Naturals, FiniteSets

CONSTANTS NINODES,     \* inodes
          Size,        \* blocks the bitmap covers that mkfs leaves free
          NLOG,        \* the last NLOG of them hold the log
          NDIRECT, NINDIRECT, BSIZE, LOGSIZE

ASSUME InodeAssumption ==
    /\ NINODES \in Nat /\ Size \in Nat /\ NLOG \in 0 .. Size
    /\ NDIRECT \in Nat /\ NINDIRECT \in Nat /\ BSIZE \in Nat \ {0}
    /\ LOGSIZE \in Nat /\ LOGSIZE >= 4

VARIABLES bits,        \* the blocks marked in use in the bitmap
          table,       \* what a block holds when read as an indirect block
          dinode,      \* inodes on disk
          inode,       \* the in-memory copies
          valid,       \* inodes whose copy has I_VALID set
          logged,      \* the blocks logged by the last transaction
          halted       \* a panic() was reached

vars == <<bits, table, dinode, inode, valid, logged, halted>>

Files   == 1 .. NINODES
Blocks  == 1 .. Size
MAXFILE == NDIRECT + NINDIRECT

\* An inode: allocated or not, its size and addrs[], the last one indirect.
Empty(alloc) == [alloc |-> alloc, size |-> 0, addrs |-> [k \in 0 .. NDIRECT |-> 0]]
ZeroTable == [k \in 0 .. NINDIRECT - 1 |-> 0]

\* As made by mkfs, without files.
Init ==
    /\ bits = {}
    /\ table = [b \in Blocks |-> ZeroTable]
    /\ dinode = [i \in Files |-> Empty(FALSE)]
    /\ inode = dinode
    /\ valid = {}
    /\ logged = {}
    /\ halted = FALSE

-----------------------------------------------------------------------------
\* A transaction under way: the inode's addrs, the bitmap, the indirect blocks,
\* what was logged, and whether a panic() was reached.
Start(i) == [addrs |-> inode[i].addrs, bits |-> bits, table |-> table,
             logged |-> {}, ok |-> TRUE]

\* The block balloc() finds first, 0 when there is none.
FirstFree(t) == IF t.bits = Blocks THEN 0
                ELSE CHOOSE b \in Blocks \ t.bits : \A c \in Blocks \ t.bits : b <= c

\* Mutant: the block is not zeroed.
BallocStale(t) ==
    LET b == FirstFree(t) IN
    IF b = 0 THEN [t EXCEPT !.ok = FALSE]
    ELSE [t EXCEPT !.bits = @ \cup {b}, !.logged = @ \cup {<<"bitmap">>, <<"block", b>>}]

\* balloc(): mark the block in use and zero it; panic when the disk is full.
Balloc(t) ==
    LET b == FirstFree(t) IN
    IF b = 0 THEN [t EXCEPT !.ok = FALSE]
    ELSE [t EXCEPT !.bits = @ \cup {b},
                   !.table[b] = ZeroTable,
                   !.logged = @ \cup {<<"bitmap">>, <<"block", b>>}]

\* bmap(): afterwards the inode has a block for its block number bn.
BmapAddr(t, k) ==
    IF t.addrs[k] # 0 THEN t ELSE [Balloc(t) EXCEPT !.addrs[k] = FirstFree(t)]

Bmap(t, bn) ==
    IF bn < NDIRECT THEN BmapAddr(t, bn)
    ELSE LET u   == BmapAddr(t, NDIRECT)
             ind == u.addrs[NDIRECT]
             k   == bn - NDIRECT
         IN  IF ~u.ok \/ u.table[ind][k] # 0 THEN u
             ELSE LET w == Balloc(u) IN
                  IF ~w.ok THEN w
                  ELSE [w EXCEPT !.table[ind][k] = FirstFree(u),
                                 !.logged = @ \cup {<<"block", ind>>}]

\* The address of block bn in addrs a.
Addr(a, tbl, bn) ==
    IF bn < NDIRECT THEN a[bn]
    ELSE IF a[NDIRECT] = 0 THEN 0 ELSE tbl[a[NDIRECT]][bn - NDIRECT]

\* The loop of writei() over the blocks first .. last.
WriteBlocks(i, first, last) ==
    LET w[k \in first .. last + 1] ==
          IF k = first THEN Start(i)
          ELSE LET t == Bmap(w[k - 1], k - 1) IN
               IF ~t.ok THEN t
               ELSE [t EXCEPT !.logged = @ \cup
                                {<<"block", Addr(t.addrs, t.table, k - 1)>>}]
    IN  w[last + 1]

\* Mutant: a write may start past the end.
WriteRangeAny(i, off, n) == off + n <= MAXFILE * BSIZE
\* writei() refuses to start past the end and to exceed MAXFILE blocks.
WriteRange(i, off, n) == off <= inode[i].size /\ off + n <= MAXFILE * BSIZE

\* Mutant: the offset before the loop is compared with the size.
GrowsByStart(i, off, n) == off > inode[i].size
\* Whether writei() enlarges the file and so calls iupdate().
Grows(i, off, n) == off + n > inode[i].size

\* One round of filewrite(): begin_trans(), writei() of n units, commit_trans().
Writei(i, off, n) ==
    /\ ~halted /\ i \in valid
    /\ n > 0 /\ WriteRange(i, off, n)
    /\ LET t  == WriteBlocks(i, off \div BSIZE, (off + n - 1) \div BSIZE)
           ip == [inode[i] EXCEPT !.addrs = t.addrs,
                                  !.size = IF Grows(i, off, n) THEN off + n ELSE @]
       IN  IF ~t.ok
           THEN halted' = TRUE /\ UNCHANGED <<bits, table, dinode, inode, logged>>
           ELSE /\ bits' = t.bits
                /\ table' = t.table
                /\ inode' = [inode EXCEPT ![i] = ip]
                /\ dinode' = IF Grows(i, off, n) THEN [dinode EXCEPT ![i] = ip]
                                                 ELSE dinode
                /\ logged' = t.logged \cup
                                (IF Grows(i, off, n) THEN {<<"inode", i>>} ELSE {})
                /\ UNCHANGED halted
    /\ UNCHANGED valid

\* Mutant: no room is left for the i-node, the indirect and the bitmap blocks.
MaxChunkAll == (LOGSIZE - 1) * BSIZE
\* filewrite()'s max.
MaxChunk == ((LOGSIZE - 1 - 1 - 2) \div 2) * BSIZE

-----------------------------------------------------------------------------
\* ialloc(): the first free inode; panic when there is none.
FreeInodes == {i \in Files : ~dinode[i].alloc}

Ialloc ==
    /\ ~halted
    /\ IF FreeInodes = {}
       THEN halted' = TRUE /\ UNCHANGED <<dinode, logged>>
       ELSE LET i == CHOOSE j \in FreeInodes : \A k \in FreeInodes : j <= k IN
            /\ dinode' = [dinode EXCEPT ![i] = Empty(TRUE)]
            /\ logged' = {<<"inode", i>>}
            /\ UNCHANGED halted
    /\ UNCHANGED <<bits, table, inode, valid>>

\* ilock() reads the inode from the disk.
Ilock(i) ==
    /\ ~halted /\ dinode[i].alloc /\ i \notin valid
    /\ inode' = [inode EXCEPT ![i] = dinode[i]]
    /\ valid' = valid \cup {i}
    /\ UNCHANGED <<bits, table, dinode, logged, halted>>

\* The last iput() of an inode that still has links; the cache slot is reused.
Forget(i) ==
    /\ ~halted /\ i \in valid
    /\ valid' = valid \ {i}
    /\ UNCHANGED <<bits, table, dinode, inode, logged, halted>>

\* The addresses itrunc() finds in an inode: its own, and those in its indirect
\* block.
Direct(ip) == {k \in 0 .. NDIRECT : ip.addrs[k] # 0}
Indirect(ip) ==
    {k \in 0 .. NINDIRECT - 1 : /\ ip.addrs[NDIRECT] # 0
                                /\ table[ip.addrs[NDIRECT]][k] # 0}

\* Mutant: the blocks named by the indirect block are forgotten.
TruncatedDirect(ip) == {ip.addrs[k] : k \in Direct(ip)}
\* The blocks itrunc() gives back to the bitmap.
Truncated(ip) ==
    {ip.addrs[k] : k \in Direct(ip)} \cup
    {table[ip.addrs[NDIRECT]][k] : k \in Indirect(ip)}

\* bfree() panics on a block that is free, or that itrunc() has just freed.
FreesFree(ip) ==
    \/ ~(Truncated(ip) \subseteq bits)
    \/ Cardinality(Truncated(ip)) < Cardinality(Direct(ip)) + Cardinality(Indirect(ip))

\* The last iput() of an inode without links: itrunc(), then type = 0 and
\* iupdate().
FreeInode(i) ==
    /\ ~halted /\ i \in valid
    /\ IF FreesFree(inode[i])
       THEN halted' = TRUE /\ UNCHANGED <<bits, dinode, inode, valid, logged>>
       ELSE /\ bits' = bits \ Truncated(inode[i])
            /\ inode' = [inode EXCEPT ![i] = Empty(FALSE)]
            /\ dinode' = [dinode EXCEPT ![i] = Empty(FALSE)]
            /\ valid' = valid \ {i}
            /\ logged' = {<<"inode", i>>} \cup
                         (IF Truncated(inode[i]) = {} THEN {} ELSE {<<"bitmap">>})
            /\ UNCHANGED halted
    /\ UNCHANGED table

PanicLoop == halted /\ UNCHANGED vars

Next ==
    \/ Ialloc
    \/ \E i \in Files :
          \/ Ilock(i)
          \/ Forget(i)
          \/ FreeInode(i)
          \/ \E off \in 0 .. MAXFILE * BSIZE, n \in 1 .. MaxChunk : Writei(i, off, n)
    \/ PanicLoop

Spec == Init /\ [][Next]_vars

-----------------------------------------------------------------------------
\* Pointers to block b from the inodes on disk.
Pointers(b) ==
    {x \in Files \X (0 .. NDIRECT) : dinode[x[1]].addrs[x[2]] = b} \cup
    {<<y[1], NDIRECT + 1 + y[2]>> : y \in
        {x \in Files \X (0 .. NINDIRECT - 1) :
            /\ dinode[x[1]].addrs[NDIRECT] # 0
            /\ table[dinode[x[1]].addrs[NDIRECT]][x[2]] = b}}

\* The bitmap is exact: after every transaction a block is marked in use if and
\* only if exactly one address of one inode on disk is that block.
BitmapExact ==
    \A b \in Blocks : Cardinality(Pointers(b)) = IF b \in bits THEN 1 ELSE 0

\* A file has a block for each of its units, so that bmap() never allocates in
\* readi(), outside of a transaction, and none past its size.
NoHoles ==
    \A i \in Files : \A bn \in 0 .. MAXFILE - 1 :
        Addr(dinode[i].addrs, table, bn) # 0 <=> bn * BSIZE < dinode[i].size

\* writei() calls iupdate() only when the file grows, and that is enough: the
\* inode on disk is never behind the copy in memory when a transaction ends.
InodeSaved == \A i \in valid : inode[i] = dinode[i]

\* The chunks filewrite() cuts fit the log, at any offset and with every block
\* to be allocated, so "too big a transaction" is not reached.
TransactionFits == Cardinality(logged) <= LOGSIZE - 1

\* Data blocks come before the log, as the layout in fs.h has it.
DataBeforeLog == \A b \in bits : b <= Size - NLOG
=============================================================================
