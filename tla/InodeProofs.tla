----------------------------- MODULE InodeProofs ------------------------------
(***************************************************************************)
(* Proofs about Inode, for every number of inodes and blocks, every size   *)
(* of a block, of addrs[], of an indirect block and of the log: the bitmap *)
(* is exact, files have no holes, the inode on disk is the one in memory,  *)
(* and a transaction fits the log.                                         *)
(***************************************************************************)
EXTENDS Inode, Integers, TLAPS

INSTANCE FiniteSetTheorems

-----------------------------------------------------------------------------
(* Induction and arithmetic. *)

LEMMA Least ==
    ASSUME NEW T \in SUBSET Nat, T # {}
    PROVE  \E x \in T : \A y \in T : x <= y
<1> DEFINE R == {ss \in Nat \X Nat : ss[1] < ss[2]}
<1>1. IsWellFoundedOn(R, Nat)
  BY NatLessThanWellFounded, Zenon DEF OpToRel
<1>2. PICK x \in T : \A y \in T : ~(<<y, x>> \in R)
  BY <1>1, WFMin, Zenon
<1>3. ASSUME NEW y \in T PROVE ~(y < x)
  <2>1. <<y, x>> \in Nat \X Nat /\ <<y, x>>[1] = y /\ <<y, x>>[2] = x
    BY Zenon
  <2> QED BY <1>2, <2>1, Zenon
<1> QED BY <1>3

\* Induction from m up to n.
LEMMA Induct ==
    ASSUME NEW m \in Nat, NEW n \in Nat, m <= n, NEW T \in SUBSET (m .. n), m \in T,
           \A k \in m + 1 .. n : k - 1 \in T => k \in T
    PROVE  T = m .. n
<1> SUFFICES ASSUME (m .. n) \ T # {} PROVE FALSE
  BY Zenon
<1>0. PICK U : U = (m .. n) \ T
  BY Zenon
<1>1. PICK x \in U : \A y \in U : x <= y
  <2>1. U \in SUBSET Nat /\ U # {}
    BY <1>0
  <2> QED BY <2>1, Least, Zenon
<1>2. x \in m + 1 .. n /\ x - 1 \in T
  BY <1>0, <1>1
<1> QED BY <1>0, <1>1, <1>2, Zenon

\* w is a loop from m to n that starts with a and takes s to F[<<k, s>>] in round k.
Loop(m, n, S, a, F, w) ==
    /\ w \in [m .. n -> S] /\ w[m] = a
    /\ \A k \in m + 1 .. n : w[k] = F[<<k, w[k - 1]>>]

LEMMA Recursion ==
    ASSUME NEW m \in Nat, NEW n \in Nat, m <= n, NEW S, NEW a \in S,
           NEW F \in [(m + 1 .. n) \X S -> S]
    PROVE  \E w : Loop(m, n, S, a, F, w)
<1> USE DEF Loop
<1> DEFINE Up(h, w) == Loop(m, h, S, a, F, w)
           T == {h \in m .. n : \E w : Up(h, w)}
<1>1. m \in T
  <2>1. PICK w : w = [k \in m .. m |-> a]
    BY Zenon
  <2>2. w \in [m .. m -> S] /\ w[m] = a
    BY <2>1
  <2>3. Up(m, w)
    BY <2>2
  <2> HIDE DEF Up
  <2> QED BY <2>3
<1>2. ASSUME NEW h \in m + 1 .. n, h - 1 \in T PROVE h \in T
  <2>1. PICK v : Up(h - 1, v)
    BY <1>2, Zenon
  <2> DEFINE w == [k \in m .. h |-> IF k = h THEN F[<<h, v[h - 1]>>] ELSE v[k]]
  <2>2. v[h - 1] \in S /\ F[<<h, v[h - 1]>>] \in S
    <3>1. v[h - 1] \in S
      BY <2>1
    <3>2. <<h, v[h - 1]>> \in (m + 1 .. n) \X S
      BY <3>1, Zenon
    <3> QED BY <3>1, <3>2, Zenon
  <2>3. w \in [m .. h -> S] /\ w[m] = a
    BY <2>1, <2>2
  <2>4. ASSUME NEW k \in m + 1 .. h PROVE w[k] = F[<<k, w[k - 1]>>]
    <3>1. CASE k = h
      <4>1. w[h] = F[<<h, v[h - 1]>>] /\ w[h - 1] = v[h - 1]
        OBVIOUS
      <4> HIDE DEF w
      <4> QED BY <3>1, <4>1, Zenon
    <3>2. CASE k # h
      <4>1. k \in m + 1 .. h - 1 /\ k - 1 \in m .. h /\ k - 1 # h
        BY <3>2
      <4> QED BY <2>1, <3>2, <4>1
    <3> QED BY <3>1, <3>2, Zenon
  <2>5. Up(h, w)
    BY <2>3, <2>4, Zenon
  <2> HIDE DEF Up, w
  <2> QED BY <2>5
<1>3. T = m .. n
  <2> HIDE DEF Up
  <2>1. PICK U : U = T
    BY Zenon
  <2>2. U \in SUBSET (m .. n) /\ m \in U
    BY <1>1, <2>1, Zenon
  <2>3. \A k \in m + 1 .. n : k - 1 \in U => k \in U
    BY <1>2, <2>1, Zenon
  <2> HIDE DEF T
  <2> QED BY <2>1, <2>2, <2>3, Induct, Zenon
<1>4. PICK w : Up(n, w)
  BY <1>3
<1> QED BY <1>4, Zenon

\* The block of an offset.
LEMMA BlockOf ==
    ASSUME NEW off \in Nat
    PROVE  /\ off \div BSIZE \in Nat
           /\ (off \div BSIZE) * BSIZE <= off /\ off < (off \div BSIZE + 1) * BSIZE
<1> DEFINE q == off \div BSIZE
           m == off % BSIZE
<1>1. BSIZE \in Nat \ {0}
  BY InodeAssumption, Zenon
<1>2. q \in Int /\ m \in 0 .. BSIZE - 1 /\ off = BSIZE * q + m
  BY <1>1
<1> HIDE DEF q, m
<1>3. q \in Nat
  BY <1>1, <1>2
<1>4. q * BSIZE <= off /\ off < (q + 1) * BSIZE
  BY <1>1, <1>2
<1> QED BY <1>3, <1>4, Zenon DEF q

\* Blocks are ordered as their first units are.
LEMMA Ordered ==
    ASSUME NEW a \in Nat, NEW b \in Nat
    PROVE  /\ a * BSIZE \in Nat
           /\ a < b => (a + 1) * BSIZE <= b * BSIZE
           /\ a <= b => a * BSIZE <= b * BSIZE
           /\ (a + 1) * BSIZE = a * BSIZE + BSIZE
BY InodeAssumption

-----------------------------------------------------------------------------
(* The addresses of all inodes as one function. *)

Addrs  == [0 .. NDIRECT -> 0 .. Size]
Tables == [Blocks -> [0 .. NINDIRECT - 1 -> 0 .. Size]]
Slots  == 0 .. NDIRECT + NINDIRECT
Places == Files \X Slots

\* The address in slot k: those in addrs[] come first, then the indirect block's.
Val(a, tbl, k) ==
    IF k <= NDIRECT THEN a[k]
    ELSE IF a[NDIRECT] = 0 THEN 0 ELSE tbl[a[NDIRECT]][k - (NDIRECT + 1)]

AddrMap(ads, tbl) == [x \in Places |-> Val(ads[x[1]], tbl, x[2])]

\* Every block in use is in one slot, and every slot has a block in use or none.
Exact(v, bts) ==
    /\ \A x, y \in Places : v[x] # 0 /\ v[x] = v[y] => x = y
    /\ \A x \in Places : v[x] # 0 => v[x] \in bts
    /\ \A b \in bts : \E x \in Places : v[x] = b

LEMMA Numbers ==
    /\ NDIRECT \in Nat /\ NINDIRECT \in Nat /\ Size \in Nat /\ NDIRECT \in 0 .. NDIRECT
    /\ NDIRECT \in Slots /\ 0 \in 0 .. Size /\ MAXFILE \in Nat
    /\ \A k \in 0 .. NDIRECT : k \in Slots
    /\ \A b \in Blocks : b # 0 /\ b \in 0 .. Size
    /\ \A b \in 0 .. Size : b # 0 => b \in Blocks
BY InodeAssumption DEF Slots, Blocks, MAXFILE

LEMMA ValIs ==
    ASSUME NEW a \in Addrs, NEW tbl \in Tables, NEW k \in Slots
    PROVE  Val(a, tbl, k) \in 0 .. Size
<1>1. CASE k <= NDIRECT
  BY <1>1, InodeAssumption DEF Val, Addrs, Slots
<1>2. CASE k > NDIRECT
  <2>1. k - (NDIRECT + 1) \in 0 .. NINDIRECT - 1
    BY <1>2, InodeAssumption DEF Slots
  <2>2. a[NDIRECT] \in 0 .. Size
    BY Numbers, Zenon DEF Addrs
  <2>3. a[NDIRECT] # 0 => tbl[a[NDIRECT]][k - (NDIRECT + 1)] \in 0 .. Size
    BY <2>1, <2>2, Numbers, Zenon DEF Tables
  <2> QED BY <1>2, <2>3, Numbers DEF Val
<1> QED BY <1>1, <1>2, Numbers DEF Slots

LEMMA AddrMapIs ==
    ASSUME NEW ads \in [Files -> Addrs], NEW tbl \in Tables
    PROVE  /\ AddrMap(ads, tbl) \in [Places -> 0 .. Size]
           /\ \A j \in Files, k \in Slots : <<j, k>> \in Places
                 /\ AddrMap(ads, tbl)[<<j, k>>] = Val(ads[j], tbl, k)
<1>1. ASSUME NEW x \in Places PROVE Val(ads[x[1]], tbl, x[2]) \in 0 .. Size
  <2>1. x[1] \in Files /\ x[2] \in Slots
    BY Zenon DEF Places
  <2> QED BY <2>1, ValIs, Zenon
<1> QED BY <1>1, Zenon DEF AddrMap, Places

LEMMA MapIs ==
    ASSUME NEW ads \in [Files -> Addrs], NEW tbl \in Tables, NEW w \in [Places -> 0 .. Size],
           \A j \in Files, k \in Slots : w[<<j, k>>] = Val(ads[j], tbl, k)
    PROVE  AddrMap(ads, tbl) = w
<1>1. ASSUME NEW x \in Places PROVE AddrMap(ads, tbl)[x] = w[x]
  <2>1. PICK j \in Files, k \in Slots : x = <<j, k>>
    BY DEF Places
  <2>2. AddrMap(ads, tbl)[<<j, k>>] = Val(ads[j], tbl, k)
    BY AddrMapIs, Zenon
  <2> QED BY <2>1, <2>2, Zenon
<1>2. AddrMap(ads, tbl) \in [Places -> 0 .. Size]
  BY AddrMapIs, Zenon
<1> QED BY <1>1, <1>2

\* A free block for a slot that has none.
LEMMA ExactMore ==
    ASSUME NEW v \in [Places -> 0 .. Size], NEW bts \in SUBSET Blocks, Exact(v, bts),
           NEW x \in Places, v[x] = 0, NEW b \in Blocks \ bts,
           NEW w, w = [v EXCEPT ![x] = b]
    PROVE  Exact(w, bts \cup {b})
<1>1. w[x] = b /\ \A y \in Places : y # x => w[y] = v[y]
  BY Zenon
<1>2. \A y \in Places : v[y] # 0 => v[y] \in bts /\ v[y] # b
  BY Zenon DEF Exact
<1>3. \A y, z \in Places : w[y] # 0 /\ w[y] = w[z] => y = z
  BY <1>1, <1>2, Numbers DEF Exact
<1>4. \A c \in bts : \E y \in Places : w[y] = c
  <2> SUFFICES ASSUME NEW c \in bts PROVE \E y \in Places : w[y] = c
    BY Zenon
  <2>1. PICK y \in Places : v[y] = c
    BY Zenon DEF Exact
  <2>2. c # 0
    BY Numbers, Zenon
  <2> QED BY <1>1, <2>1, <2>2, Zenon
<1> QED BY <1>1, <1>2, <1>3, <1>4, Zenon DEF Exact

\* A block for addrs[k] of inode i.
DirectMapped(ads, tbl, bts, v, i, k, b, a, adx, tbx) ==
    v[<<i, k>>] = 0 /\ AddrMap(adx, tbx) = [v EXCEPT ![<<i, k>>] = b]

LEMMA DirectMap ==
    ASSUME NEW ads \in [Files -> Addrs], NEW tbl \in Tables, NEW bts \in SUBSET Blocks,
           NEW v, v = AddrMap(ads, tbl), Exact(v, bts), NEW i \in Files,
           NEW k \in 0 .. NDIRECT, ads[i][k] = 0, NEW b \in Blocks \ bts,
           NEW a, a = [ads[i] EXCEPT ![k] = b], NEW adx, adx = [ads EXCEPT ![i] = a],
           NEW tbx, tbx = [tbl EXCEPT ![b] = ZeroTable]
    PROVE  DirectMapped(ads, tbl, bts, v, i, k, b, a, adx, tbx)
<1>1. a \in Addrs
  BY Numbers, Zenon DEF Addrs
<1>2. adx \in [Files -> Addrs]
  BY <1>1, Zenon
<1>3. ZeroTable \in [0 .. NINDIRECT - 1 -> 0 .. Size]
      /\ \A l \in 0 .. NINDIRECT - 1 : ZeroTable[l] = 0
  BY Numbers, Zenon DEF ZeroTable
<1>4. tbx \in Tables
  BY <1>3, Zenon DEF Tables
<1>5. k \in Slots /\ v \in [Places -> 0 .. Size]
  BY Numbers, AddrMapIs, Zenon
<1>6. ASSUME NEW j \in Files, NEW l \in Slots
      PROVE  Val(adx[j], tbx, l) = IF j = i /\ l = k THEN b ELSE v[<<j, l>>]
  <2>1. v[<<j, l>>] = Val(ads[j], tbl, l) /\ v[<<j, NDIRECT>>] = Val(ads[j], tbl, NDIRECT)
        /\ <<j, NDIRECT>> \in Places
    BY AddrMapIs, Numbers
  <2>2. Val(ads[j], tbl, NDIRECT) = ads[j][NDIRECT]
    BY Numbers DEF Val
  <2>3. ads[j][NDIRECT] # b /\ ads[j][NDIRECT] \in 0 .. Size
    <3>1. ads[j][NDIRECT] # 0 => ads[j][NDIRECT] \in bts
      BY <2>1, <2>2, Zenon DEF Exact
    <3> QED BY <3>1, Numbers, Zenon DEF Addrs
  <2>4. CASE l <= NDIRECT
    <3>1. l \in 0 .. NDIRECT
      BY <2>4, Numbers DEF Slots
    <3>2. adx[j][l] = IF j = i /\ l = k THEN b ELSE ads[j][l]
      BY <3>1, Zenon DEF Addrs
    <3> QED BY <2>1, <2>4, <3>2, Zenon DEF Val
  <2>5. CASE l > NDIRECT
    <3>0. l - (NDIRECT + 1) \in 0 .. NINDIRECT - 1 /\ l # k /\ ~(l <= NDIRECT)
      BY <2>5, Numbers DEF Slots
    <3>1. CASE j = i /\ k = NDIRECT
      <4>1. adx[j][NDIRECT] = b /\ tbx[b] = ZeroTable /\ ads[j][NDIRECT] = 0 /\ b # 0
        BY <3>1, Numbers, Zenon DEF Addrs, Tables
      <4>2. Val(adx[j], tbx, l) = 0
        BY <1>3, <3>0, <4>1, Zenon DEF Val
      <4>3. Val(ads[j], tbl, l) = 0
        BY <3>0, <4>1, Zenon DEF Val
      <4> QED BY <2>1, <3>0, <4>2, <4>3, Zenon
    <3>2. CASE ~(j = i /\ k = NDIRECT)
      <4>1. adx[j][NDIRECT] = ads[j][NDIRECT]
        BY <3>2, Numbers, Zenon DEF Addrs
      <4>2. ads[j][NDIRECT] # 0 => tbx[ads[j][NDIRECT]] = tbl[ads[j][NDIRECT]]
        BY <2>3, Numbers, Zenon DEF Tables
      <4> QED BY <2>1, <3>0, <4>1, <4>2, Zenon DEF Val
    <3> QED BY <3>1, <3>2, Zenon
  <2> QED BY <2>4, <2>5, Numbers DEF Slots
<1>7. v[<<i, k>>] = 0
  BY <1>5, AddrMapIs, Numbers DEF Val
<1>8. AddrMap(adx, tbx) = [v EXCEPT ![<<i, k>>] = b]
  <2>1. PICK z : z = [v EXCEPT ![<<i, k>>] = b]
    BY Zenon
  <2>2. z \in [Places -> 0 .. Size]
    <3>1. b \in 0 .. Size
      BY Numbers, Zenon
    <3> QED BY <1>5, <2>1, <3>1, Zenon
  <2>3. ASSUME NEW j \in Files, NEW l \in Slots
        PROVE  z[<<j, l>>] = Val(adx[j], tbx, l)
    <3>1. <<j, l>> \in Places /\ (<<j, l>> = <<i, k>> <=> (j = i /\ l = k))
      BY Zenon DEF Places
    <3>2. z[<<j, l>>] = IF <<j, l>> = <<i, k>> THEN b ELSE v[<<j, l>>]
      BY <1>5, <2>1, <3>1, Zenon
    <3> QED BY <1>6, <3>1, <3>2, Zenon
  <2>4. AddrMap(adx, tbx) = z
    <3>1. PICK ay, ty : ay = adx /\ ty = tbx
      BY Zenon
    <3>2. ay \in [Files -> Addrs] /\ ty \in Tables
      BY <1>2, <1>4, <3>1, Zenon
    <3>3. \A j \in Files, l \in Slots : z[<<j, l>>] = Val(ay[j], ty, l)
      BY <2>3, <3>1, Zenon
    <3>4. AddrMap(ay, ty) = z
      BY <2>2, <3>2, <3>3, MapIs
    <3> QED BY <3>1, <3>4, Zenon
  <2> QED BY <2>1, <2>4, Zenon
<1> QED BY <1>7, <1>8, Zenon DEF DirectMapped

\* A block for entry k of the indirect block of inode i.
NewTable(tbl, b, ind, k) == [[tbl EXCEPT ![b] = ZeroTable] EXCEPT ![ind][k] = b]
EntrySlot(k) == NDIRECT + 1 + k
IndirectMapped(ads, tbl, bts, v, i, k, ind, b, tbx, s) ==
    s \in Slots /\ v[<<i, s>>] = 0 /\ AddrMap(ads, tbx) = [v EXCEPT ![<<i, s>>] = b]

LEMMA IndirectMap ==
    ASSUME NEW ads \in [Files -> Addrs], NEW tbl \in Tables, NEW bts \in SUBSET Blocks,
           NEW v, v = AddrMap(ads, tbl), Exact(v, bts), NEW i \in Files,
           NEW k \in 0 .. NINDIRECT - 1, NEW ind \in Blocks, ads[i][NDIRECT] = ind,
           tbl[ind][k] = 0, NEW b \in Blocks \ bts,
           NEW tbx, tbx = NewTable(tbl, b, ind, k),
           NEW s, s = EntrySlot(k)
    PROVE  IndirectMapped(ads, tbl, bts, v, i, k, ind, b, tbx, s)
<1>1. /\ s \in Slots /\ s > NDIRECT /\ ~(s <= NDIRECT) /\ s - (NDIRECT + 1) = k /\ ind # 0
      /\ v \in [Places -> 0 .. Size]
  BY Numbers, AddrMapIs DEF Slots, EntrySlot
<1>2. ZeroTable \in [0 .. NINDIRECT - 1 -> 0 .. Size]
  BY Numbers, Zenon DEF ZeroTable
<1>3. ind \in bts /\ ind # b
  <2>1. v[<<i, NDIRECT>>] = Val(ads[i], tbl, NDIRECT) /\ <<i, NDIRECT>> \in Places
    BY AddrMapIs, Numbers
  <2>2. v[<<i, NDIRECT>>] = ind
    BY <2>1, Numbers DEF Val
  <2> QED BY <1>1, <2>1, <2>2 DEF Exact
<1>4. tbx \in Tables
  BY <1>2, Numbers, Zenon DEF Tables, NewTable
<1>5. /\ \A c \in Blocks : c # b /\ c # ind => tbx[c] = tbl[c]
      /\ \A l \in 0 .. NINDIRECT - 1 : tbx[ind][l] = IF l = k THEN b ELSE tbl[ind][l]
  BY <1>2, <1>3, Zenon DEF Tables, NewTable
<1>6. ASSUME NEW j \in Files, NEW l \in Slots
      PROVE  Val(ads[j], tbx, l) = IF j = i /\ l = s THEN b ELSE v[<<j, l>>]
  <2>1. v[<<j, l>>] = Val(ads[j], tbl, l) /\ v[<<j, NDIRECT>>] = Val(ads[j], tbl, NDIRECT)
        /\ v[<<i, NDIRECT>>] = Val(ads[i], tbl, NDIRECT)
        /\ <<j, NDIRECT>> \in Places /\ <<i, NDIRECT>> \in Places
    BY AddrMapIs, Numbers
  <2>2. Val(ads[j], tbl, NDIRECT) = ads[j][NDIRECT] /\ Val(ads[i], tbl, NDIRECT) = ind
    BY Numbers DEF Val
  <2>3. /\ ads[j][NDIRECT] # b /\ ads[j][NDIRECT] \in 0 .. Size
        /\ j # i => ads[j][NDIRECT] # ind
    <3>1. ads[j][NDIRECT] # 0 => ads[j][NDIRECT] \in bts
      BY <2>1, <2>2, Zenon DEF Exact
    <3>2. ads[j][NDIRECT] = ind => <<j, NDIRECT>> = <<i, NDIRECT>>
      BY <1>1, <2>1, <2>2 DEF Exact
    <3> QED BY <3>1, <3>2, Numbers, Zenon DEF Addrs
  <2>4. CASE l <= NDIRECT
    BY <1>1, <2>1, <2>4, Zenon DEF Val
  <2>5. CASE l > NDIRECT
    <3>0. l - (NDIRECT + 1) \in 0 .. NINDIRECT - 1 /\ ~(l <= NDIRECT)
          /\ (l - (NDIRECT + 1) = k <=> l = s)
      BY <2>5, Numbers DEF Slots, EntrySlot
    <3>1. CASE j = i
      BY <1>1, <1>5, <2>1, <3>0, <3>1, Zenon DEF Val
    <3>2. CASE j # i
      <4>1. ads[j][NDIRECT] # 0 => tbx[ads[j][NDIRECT]] = tbl[ads[j][NDIRECT]]
        BY <1>5, <2>3, <3>2, Numbers, Zenon
      <4> QED BY <2>1, <3>0, <3>2, <4>1, Zenon DEF Val
    <3> QED BY <3>1, <3>2, Zenon
  <2> QED BY <2>4, <2>5, Numbers DEF Slots
<1>7. v[<<i, s>>] = 0
  <2>1. v[<<i, s>>] = Val(ads[i], tbl, s)
    BY <1>1, AddrMapIs
  <2> QED BY <1>1, <2>1, Zenon DEF Val
<1>8. AddrMap(ads, tbx) = [v EXCEPT ![<<i, s>>] = b]
  <2>1. PICK z : z = [v EXCEPT ![<<i, s>>] = b]
    BY Zenon
  <2>2. z \in [Places -> 0 .. Size]
    <3>1. b \in 0 .. Size
      BY Numbers, Zenon
    <3> QED BY <1>1, <2>1, <3>1, Zenon
  <2>3. ASSUME NEW j \in Files, NEW l \in Slots
        PROVE  z[<<j, l>>] = Val(ads[j], tbx, l)
    <3>1. <<j, l>> \in Places /\ (<<j, l>> = <<i, s>> <=> (j = i /\ l = s))
      BY Zenon DEF Places
    <3>2. z[<<j, l>>] = IF <<j, l>> = <<i, s>> THEN b ELSE v[<<j, l>>]
      BY <1>1, <2>1, <3>1, Zenon
    <3> QED BY <1>6, <3>1, <3>2, Zenon
  <2>4. AddrMap(ads, tbx) = z
    <3>1. PICK ty : ty = tbx
      BY Zenon
    <3>2. ty \in Tables
      BY <1>4, <3>1, Zenon
    <3>3. \A j \in Files, l \in Slots : z[<<j, l>>] = Val(ads[j], ty, l)
      BY <2>3, <3>1, Zenon
    <3>4. AddrMap(ads, ty) = z
      BY <2>2, <3>2, <3>3, MapIs, Zenon
    <3> QED BY <3>1, <3>4, Zenon
  <2> QED BY <2>1, <2>4, Zenon
<1> QED BY <1>1, <1>7, <1>8, Zenon DEF IndirectMapped

-----------------------------------------------------------------------------
(* Transactions. *)

\* What a transaction on inode data logs.
Ids == {<<"bitmap">>} \cup {<<"block", b>> : b \in 0 .. Size}
Trans == [addrs : Addrs, bits : SUBSET Blocks, table : Tables, logged : SUBSET Ids,
          ok : BOOLEAN]
Tx(a, bts, tbl, lg, ok) ==
    [addrs |-> a, bits |-> bts, table |-> tbl, logged |-> lg, ok |-> ok]

LEMMA TxShape ==
    ASSUME NEW a \in Addrs, NEW bts \in SUBSET Blocks, NEW tbl \in Tables,
           NEW lg \in SUBSET Ids, NEW ok \in BOOLEAN, NEW t, t = Tx(a, bts, tbl, lg, ok)
    PROVE  t \in Trans
BY Zenon DEF Tx, Trans

LEMMA TransFields ==
    ASSUME NEW t \in Trans
    PROVE  /\ t.addrs \in Addrs /\ t.bits \in SUBSET Blocks /\ t.table \in Tables
           /\ t.logged \in SUBSET Ids /\ t.ok \in BOOLEAN
           /\ t = Tx(t.addrs, t.bits, t.table, t.logged, t.ok)
BY Zenon DEF Trans, Tx

\* What balloc() does when it finds block b.
Alloc(t, b) ==
    Tx(t.addrs, t.bits \cup {b}, [t.table EXCEPT ![b] = ZeroTable],
       t.logged \cup {<<"bitmap">>, <<"block", b>>}, t.ok)
\* What is left when it finds none.
Full(t) == Tx(t.addrs, t.bits, t.table, t.logged, FALSE)

LEMMA BallocIs ==
    ASSUME NEW t \in Trans, NEW b, b = FirstFree(t)
    PROVE  \/ b = 0 /\ Balloc(t) = Full(t)
           \/ b \in Blocks \ t.bits /\ Balloc(t) = Alloc(t, b)
<1>1. t.bits \in SUBSET Blocks
  BY TransFields, Zenon
<1>2. CASE t.bits = Blocks
  <2>1. b = 0
    BY <1>2, Zenon DEF FirstFree
  <2>2. Balloc(t) = Full(t)
    BY <2>1, Zenon DEF Balloc, Full, Trans, Tx
  <2> QED BY <2>1, <2>2, Zenon
<1>3. CASE t.bits # Blocks
  <2>1. PICK T : T = Blocks \ t.bits
    BY Zenon
  <2>2. T \in SUBSET Nat /\ T # {}
    <3>1. Blocks \in SUBSET Nat
      BY InodeAssumption DEF Blocks
    <3>2. PICK u \in SUBSET Blocks : u = t.bits
      BY <1>1, Zenon
    <3> QED BY <1>3, <2>1, <3>1, <3>2, Zenon
  <2>3. \E c \in T : \A d \in T : c <= d
    BY <2>2, Least, Zenon
  <2>4. b \in Blocks \ t.bits
    BY <1>3, <2>1, <2>3, Zenon DEF FirstFree
  <2>5. b # 0
    BY <2>4, Numbers, Zenon
  <2>6. Balloc(t) = Alloc(t, b)
    BY <2>5, Zenon DEF Balloc, Alloc, Trans, Tx
  <2> QED BY <2>4, <2>6, Zenon
<1> QED BY <1>2, <1>3, Zenon

\* bmap() gives slot k of addrs[] block b.
Gave(t, k, b) ==
    Tx([t.addrs EXCEPT ![k] = b], t.bits \cup {b}, [t.table EXCEPT ![b] = ZeroTable],
       t.logged \cup {<<"bitmap">>, <<"block", b>>}, t.ok)
\* bmap() gives entry k of indirect block ind block b.
GaveEntry(t, ind, k, b) ==
    Tx(t.addrs, t.bits \cup {b}, [[t.table EXCEPT ![b] = ZeroTable] EXCEPT ![ind][k] = b],
       t.logged \cup {<<"bitmap">>, <<"block", b>>, <<"block", ind>>}, t.ok)

LEMMA IdsAre ==
    ASSUME NEW b \in 0 .. Size
    PROVE  <<"bitmap">> \in Ids /\ <<"block", b>> \in Ids
BY Zenon DEF Ids

Given(t, k, b, u) ==
    /\ u \in Trans /\ u.ok = t.ok
    /\ u.addrs = [t.addrs EXCEPT ![k] = b] /\ u.bits = t.bits \cup {b}
    /\ u.table = [t.table EXCEPT ![b] = ZeroTable]
    /\ u.logged = t.logged \cup {<<"bitmap">>, <<"block", b>>}

LEMMA GaveShape ==
    ASSUME NEW t \in Trans, NEW k \in 0 .. NDIRECT, NEW b \in Blocks, NEW u, u = Gave(t, k, b)
    PROVE  Given(t, k, b, u)
<1>1. PICK a, bts, tbl, lg, ok : /\ a = t.addrs /\ bts = t.bits /\ tbl = t.table
                                 /\ lg = t.logged /\ ok = t.ok
  BY Zenon
<1>2. /\ a \in Addrs /\ bts \in SUBSET Blocks /\ tbl \in Tables /\ lg \in SUBSET Ids
      /\ ok \in BOOLEAN
  BY <1>1, TransFields, Zenon
<1>3. PICK ax, bx, tx, lx : /\ ax = [a EXCEPT ![k] = b] /\ bx = bts \cup {b}
                            /\ tx = [tbl EXCEPT ![b] = ZeroTable]
                            /\ lx = lg \cup {<<"bitmap">>, <<"block", b>>}
  BY Zenon
<1>4. ax \in Addrs /\ bx \in SUBSET Blocks
  BY <1>2, <1>3, Numbers, Zenon DEF Addrs
<1>5. tx \in Tables
  <2>1. ZeroTable \in [0 .. NINDIRECT - 1 -> 0 .. Size]
    BY Numbers, Zenon DEF ZeroTable
  <2> QED BY <1>2, <1>3, <2>1, Zenon DEF Tables
<1>6. lx \in SUBSET Ids
  <2>1. <<"bitmap">> \in Ids /\ <<"block", b>> \in Ids
    BY IdsAre, Numbers, Zenon
  <2> QED BY <1>2, <1>3, <2>1, Zenon
<1>7. u = Tx(ax, bx, tx, lx, ok)
  BY <1>1, <1>3, Zenon DEF Gave
<1>8. u \in Trans
  BY <1>2, <1>4, <1>5, <1>6, <1>7, TxShape, Zenon
<1>9. u.addrs = ax /\ u.bits = bx /\ u.table = tx /\ u.logged = lx /\ u.ok = ok
  BY <1>7, SMT DEF Tx
<1> QED BY <1>1, <1>3, <1>8, <1>9, Zenon DEF Given

GivenEntry(t, ind, k, b, u) ==
    /\ u \in Trans /\ u.ok = t.ok
    /\ u.addrs = t.addrs /\ u.bits = t.bits \cup {b}
    /\ u.table = [[t.table EXCEPT ![b] = ZeroTable] EXCEPT ![ind][k] = b]
    /\ u.logged = t.logged \cup {<<"bitmap">>, <<"block", b>>, <<"block", ind>>}

LEMMA GaveEntryShape ==
    ASSUME NEW t \in Trans, NEW ind \in Blocks, NEW k \in 0 .. NINDIRECT - 1, NEW b \in Blocks,
           NEW u, u = GaveEntry(t, ind, k, b)
    PROVE  GivenEntry(t, ind, k, b, u)
<1>1. PICK a, bts, tbl, lg, ok : /\ a = t.addrs /\ bts = t.bits /\ tbl = t.table
                                 /\ lg = t.logged /\ ok = t.ok
  BY Zenon
<1>2. /\ a \in Addrs /\ bts \in SUBSET Blocks /\ tbl \in Tables /\ lg \in SUBSET Ids
      /\ ok \in BOOLEAN
  BY <1>1, TransFields, Zenon
<1>3. PICK bx, tx, lx : /\ bx = bts \cup {b}
                        /\ tx = [[tbl EXCEPT ![b] = ZeroTable] EXCEPT ![ind][k] = b]
                        /\ lx = lg \cup {<<"bitmap">>, <<"block", b>>, <<"block", ind>>}
  BY Zenon
<1>4. bx \in SUBSET Blocks
  BY <1>2, <1>3, Zenon
<1>5. tx \in Tables
  <2>1. ZeroTable \in [0 .. NINDIRECT - 1 -> 0 .. Size]
    BY Numbers, Zenon DEF ZeroTable
  <2>2. PICK ty : ty = [tbl EXCEPT ![b] = ZeroTable]
    BY Zenon
  <2>3. ty \in Tables
    BY <1>2, <2>1, <2>2, Zenon DEF Tables
  <2>4. tx = [ty EXCEPT ![ind][k] = b]
    BY <1>3, <2>2, Zenon
  <2> QED BY <2>3, <2>4, Numbers, Zenon DEF Tables
<1>6. lx \in SUBSET Ids
  <2>1. <<"bitmap">> \in Ids /\ <<"block", b>> \in Ids /\ <<"block", ind>> \in Ids
    BY IdsAre, Numbers, Zenon
  <2> QED BY <1>2, <1>3, <2>1, Zenon
<1>7. u = Tx(a, bx, tx, lx, ok)
  BY <1>1, <1>3, Zenon DEF GaveEntry
<1>8. u \in Trans
  BY <1>2, <1>4, <1>5, <1>6, <1>7, TxShape, Zenon
<1>9. u.addrs = a /\ u.bits = bx /\ u.table = tx /\ u.logged = lx /\ u.ok = ok
  BY <1>7, SMT DEF Tx
<1> QED BY <1>1, <1>3, <1>8, <1>9, Zenon DEF GivenEntry

LEMMA FullShape ==
    ASSUME NEW t \in Trans
    PROVE  Full(t) \in Trans /\ ~Full(t).ok /\ Full(t).addrs = t.addrs
<1>1. PICK ok \in BOOLEAN : ok = FALSE
  BY Zenon
<1>2. PICK u : u = Full(t)
  BY Zenon
<1>3. u = Tx(t.addrs, t.bits, t.table, t.logged, ok)
  BY <1>1, <1>2, Zenon DEF Full
<1>4. u \in Trans
  BY <1>3, TxShape, TransFields, Zenon
<1>5. u.ok = ok /\ u.addrs = t.addrs
  BY <1>3, Zenon DEF Tx
<1> QED BY <1>1, <1>2, <1>4, <1>5, Zenon

LEMMA AllocShape ==
    ASSUME NEW t \in Trans, NEW b \in Blocks, NEW u, u = Alloc(t, b)
    PROVE  /\ u \in Trans /\ u.ok = t.ok
           /\ u.addrs = t.addrs /\ u.bits = t.bits \cup {b}
           /\ u.table = [t.table EXCEPT ![b] = ZeroTable]
           /\ u.logged = t.logged \cup {<<"bitmap">>, <<"block", b>>}
<1>1. PICK a, bts, tbl, lg, ok : /\ a = t.addrs /\ bts = t.bits /\ tbl = t.table
                                 /\ lg = t.logged /\ ok = t.ok
  BY Zenon
<1>2. /\ a \in Addrs /\ bts \in SUBSET Blocks /\ tbl \in Tables /\ lg \in SUBSET Ids
      /\ ok \in BOOLEAN
  BY <1>1, TransFields, Zenon
<1>3. PICK bx, tx, lx : /\ bx = bts \cup {b} /\ tx = [tbl EXCEPT ![b] = ZeroTable]
                        /\ lx = lg \cup {<<"bitmap">>, <<"block", b>>}
  BY Zenon
<1>4. bx \in SUBSET Blocks
  BY <1>2, <1>3, Zenon
<1>5. tx \in Tables
  <2>1. ZeroTable \in [0 .. NINDIRECT - 1 -> 0 .. Size]
    BY Numbers, Zenon DEF ZeroTable
  <2> QED BY <1>2, <1>3, <2>1, Zenon DEF Tables
<1>6. lx \in SUBSET Ids
  <2>1. <<"bitmap">> \in Ids /\ <<"block", b>> \in Ids
    BY IdsAre, Numbers, Zenon
  <2> QED BY <1>2, <1>3, <2>1, Zenon
<1>7. u = Tx(a, bx, tx, lx, ok)
  BY <1>1, <1>3, Zenon DEF Alloc
<1>8. u \in Trans
  BY <1>2, <1>4, <1>5, <1>6, <1>7, TxShape, Zenon
<1>9. u.addrs = a /\ u.bits = bx /\ u.table = tx /\ u.logged = lx /\ u.ok = ok
  BY <1>7, SMT DEF Tx
<1> QED BY <1>1, <1>3, <1>8, <1>9, Zenon

SetAddr(w, k, b) == [w EXCEPT !.addrs[k] = b]
AddrIs(w, k, b, u) ==
    /\ u \in Trans /\ u.ok = w.ok
    /\ u = Tx([w.addrs EXCEPT ![k] = b], w.bits, w.table, w.logged, w.ok)

LEMMA AddrSet ==
    ASSUME NEW w \in Trans, NEW k \in 0 .. NDIRECT, NEW b \in 0 .. Size,
           NEW u, u = SetAddr(w, k, b)
    PROVE  AddrIs(w, k, b, u)
<1>1. PICK a : a = [w.addrs EXCEPT ![k] = b]
  BY Zenon
<1>2. u = Tx(a, w.bits, w.table, w.logged, w.ok)
  BY <1>1, Zenon DEF Trans, Tx, SetAddr
<1>3. a \in Addrs
  <2>1. w.addrs \in Addrs
    BY TransFields, Zenon
  <2> QED BY <1>1, <2>1, Zenon DEF Addrs
<1>4. u \in Trans
  BY <1>2, <1>3, TransFields, TxShape, Zenon
<1>5. u.ok = w.ok
  <2>1. PICK bts, tbl, lg, ok : u = Tx(a, bts, tbl, lg, ok) /\ ok = w.ok
    BY <1>2, Zenon
  <2> QED BY <2>1, SMT DEF Tx
<1> QED BY <1>1, <1>2, <1>4, <1>5, Zenon DEF AddrIs

\* bmap() for a slot of addrs[].
GotAddr(t, k, u) ==
    \/ t.addrs[k] # 0 /\ u = t
    \/ t.addrs[k] = 0 /\ ~u.ok
    \/ t.addrs[k] = 0 /\ \E b \in Blocks \ t.bits : u = Gave(t, k, b)

LEMMA BmapAddrIs ==
    ASSUME NEW t \in Trans, NEW k \in 0 .. NDIRECT, NEW u, u = BmapAddr(t, k)
    PROVE  u \in Trans /\ GotAddr(t, k, u)
<1>1. CASE t.addrs[k] # 0
  <2>1. u = t
    BY <1>1, Zenon DEF BmapAddr
  <2> QED BY <1>1, <2>1, Zenon DEF GotAddr
<1>2. CASE t.addrs[k] = 0
  <2>1. PICK b : b = FirstFree(t)
    BY Zenon
  <2>2. u = SetAddr(Balloc(t), k, b)
    BY <1>2, <2>1, Zenon DEF BmapAddr, SetAddr
  <2>3. CASE b = 0 /\ Balloc(t) = Full(t)
    <3>1. PICK w : w = Full(t)
      BY Zenon
    <3>2. w \in Trans /\ ~w.ok
      BY <3>1, FullShape, Zenon
    <3>3. u = SetAddr(w, k, b)
      BY <2>2, <2>3, <3>1, Zenon
    <3>0. b \in 0 .. Size
      BY <2>3, Numbers, Zenon
    <3>4. AddrIs(w, k, b, u)
      BY <3>0, <3>2, <3>3, AddrSet, Zenon
    <3> QED BY <1>2, <3>2, <3>4, Zenon DEF GotAddr, AddrIs
  <2>4. CASE b \in Blocks \ t.bits /\ Balloc(t) = Alloc(t, b)
    <3>1. PICK w : w = Alloc(t, b)
      BY Zenon
    <3>2. /\ w \in Trans /\ w.addrs = t.addrs /\ w.bits = t.bits \cup {b}
          /\ w.table = [t.table EXCEPT ![b] = ZeroTable] /\ w.ok = t.ok
          /\ w.logged = t.logged \cup {<<"bitmap">>, <<"block", b>>}
      BY <2>4, <3>1, AllocShape
    <3>3. u = SetAddr(w, k, b)
      BY <2>2, <2>4, <3>1, Zenon
    <3>0. b \in 0 .. Size
      BY <2>4, Numbers, Zenon
    <3>4. AddrIs(w, k, b, u)
      BY <3>0, <3>2, <3>3, AddrSet, Zenon
    <3>5. u = Gave(t, k, b)
      BY <3>2, <3>4, Zenon DEF Gave, AddrIs
    <3> QED BY <1>2, <2>4, <3>4, <3>5, Zenon DEF GotAddr, AddrIs
  <2> QED BY <2>1, <2>3, <2>4, BallocIs, Zenon
<1> QED BY <1>1, <1>2, Zenon

LEMMA GotAddrOk ==
    ASSUME NEW t \in Trans, NEW k \in 0 .. NDIRECT, NEW u \in Trans, GotAddr(t, k, u), u.ok
    PROVE  t.ok /\ u.addrs[k] \in Blocks
<1>1. t.addrs \in Addrs
  BY TransFields, Zenon
<1>2. CASE t.addrs[k] # 0 /\ u = t
  <2>1. t.addrs[k] \in 0 .. Size
    BY <1>1, Zenon DEF Addrs
  <2>2. u.addrs[k] \in Blocks
    BY <1>2, <2>1, Numbers, Zenon
  <2> QED BY <1>2, <2>2, Zenon
<1>3. ASSUME NEW b \in Blocks \ t.bits, u = Gave(t, k, b)
      PROVE  t.ok /\ u.addrs[k] \in Blocks
  <2>0. Given(t, k, b, u)
    BY <1>3, GaveShape, Zenon
  <2>1. u.ok = t.ok /\ u.addrs = [t.addrs EXCEPT ![k] = b]
    BY <2>0, Zenon DEF Given
  <2>2. u.addrs[k] = b
    BY <1>1, <2>1, Zenon DEF Addrs
  <2> QED BY <2>1, <2>2, Zenon
<1> QED BY <1>2, <1>3, Zenon DEF GotAddr

\* bmap() for an entry of the indirect block.
GotEntry(t, ind, k, u) ==
    \/ t.table[ind][k] # 0 /\ u = t
    \/ t.table[ind][k] = 0 /\ \E b \in Blocks \ t.bits : u = GaveEntry(t, ind, k, b)

GotBlock(t, bn, u) ==
    \/ bn < NDIRECT /\ GotAddr(t, bn, u)
    \/ bn >= NDIRECT /\ \E m \in Trans : /\ GotAddr(t, NDIRECT, m) /\ m.ok
                                         /\ GotEntry(m, m.addrs[NDIRECT], bn - NDIRECT, u)

EnterBlock(w, ind, k, b) ==
    [w EXCEPT !.table[ind][k] = b, !.logged = w.logged \cup {<<"block", ind>>}]
EnteredIs(w, ind, k, b, u) ==
    u = Tx(w.addrs, w.bits, [w.table EXCEPT ![ind][k] = b],
           w.logged \cup {<<"block", ind>>}, w.ok)

LEMMA Entered ==
    ASSUME NEW w \in Trans, NEW ind, NEW k, NEW b, NEW u, u = EnterBlock(w, ind, k, b)
    PROVE  EnteredIs(w, ind, k, b, u)
BY Zenon DEF EnteredIs, EnterBlock, Trans, Tx

LEMMA BmapIs ==
    ASSUME NEW t \in Trans, NEW bn \in 0 .. MAXFILE - 1, NEW u, u = Bmap(t, bn)
    PROVE  u \in Trans /\ (u.ok => GotBlock(t, bn, u))
<1>1. CASE bn < NDIRECT
  <2>1. u = BmapAddr(t, bn)
    BY <1>1, Zenon DEF Bmap
  <2>2. bn \in 0 .. NDIRECT
    BY <1>1, Numbers
  <2>3. u \in Trans /\ GotAddr(t, bn, u)
    BY <2>1, <2>2, BmapAddrIs, Zenon
  <2> QED BY <1>1, <2>3, Zenon DEF GotBlock
<1>2. CASE ~(bn < NDIRECT)
  <2>1. PICK m : m = BmapAddr(t, NDIRECT)
    BY Zenon
  <2>2. m \in Trans /\ GotAddr(t, NDIRECT, m)
    BY <2>1, BmapAddrIs, Numbers, Zenon
  <2>3. PICK ind, k : ind = m.addrs[NDIRECT] /\ k = bn - NDIRECT
    BY Zenon
  <2>4. u = IF ~m.ok \/ m.table[ind][k] # 0 THEN m
            ELSE IF ~Balloc(m).ok THEN Balloc(m)
            ELSE EnterBlock(Balloc(m), ind, k, FirstFree(m))
    BY <1>2, <2>1, <2>3, Zenon DEF Bmap, EnterBlock
  <2>5. bn >= NDIRECT /\ k \in 0 .. NINDIRECT - 1
    BY <1>2, <2>3, Numbers DEF MAXFILE
  <2>6. CASE ~m.ok
    BY <2>2, <2>4, <2>6, Zenon
  <2>7. CASE m.ok /\ m.table[ind][k] # 0
    <3>1. u = m
      BY <2>4, <2>7, Zenon
    <3>2. GotEntry(m, ind, k, u)
      BY <2>7, <3>1, Zenon DEF GotEntry
    <3> QED BY <2>2, <2>3, <2>5, <2>7, <3>1, <3>2, Zenon DEF GotBlock
  <2>8. CASE m.ok /\ m.table[ind][k] = 0
    <3>0. ind \in Blocks
      BY <2>2, <2>3, <2>8, GotAddrOk, Numbers, Zenon
    <3>1. PICK b : b = FirstFree(m)
      BY Zenon
    <3>2. CASE b = 0 /\ Balloc(m) = Full(m)
      <4>1. u = Full(m)
        BY <2>4, <2>2, <2>8, <3>2, FullShape, Zenon
      <4> QED BY <2>2, <4>1, FullShape, Zenon
    <3>3. CASE b \in Blocks \ m.bits /\ Balloc(m) = Alloc(m, b)
      <4>1. PICK w : w = Alloc(m, b)
        BY Zenon
      <4>2. /\ w \in Trans /\ w.addrs = m.addrs /\ w.bits = m.bits \cup {b}
            /\ w.table = [m.table EXCEPT ![b] = ZeroTable] /\ w.ok = m.ok
            /\ w.logged = m.logged \cup {<<"bitmap">>, <<"block", b>>}
        BY <2>2, <3>3, <4>1, AllocShape
      <4>3. u = EnterBlock(w, ind, k, b)
        BY <2>4, <2>8, <3>1, <3>3, <4>1, <4>2, Zenon
      <4>4. u = Tx(w.addrs, w.bits, [w.table EXCEPT ![ind][k] = b],
                   w.logged \cup {<<"block", ind>>}, w.ok)
        <5>1. EnteredIs(w, ind, k, b, u)
          BY <4>2, <4>3, Entered, Zenon
        <5> QED BY <5>1, Zenon DEF EnteredIs
      <4>5. w.logged \cup {<<"block", ind>>}
              = m.logged \cup {<<"bitmap">>, <<"block", b>>, <<"block", ind>>}
        <5>1. \A l, x, y, z : (l \cup {x, y}) \cup {z} = l \cup {x, y, z}
          BY Zenon
        <5> QED BY <4>2, <5>1, Zenon
      <4>6. u = GaveEntry(m, ind, k, b)
        BY <4>2, <4>4, <4>5, Zenon DEF GaveEntry
      <4>7. u \in Trans
        BY <2>2, <2>5, <3>0, <3>3, <4>6, GaveEntryShape, Zenon DEF GivenEntry
      <4>8. GotEntry(m, ind, k, u)
        BY <2>8, <3>3, <4>6, Zenon DEF GotEntry
      <4> QED BY <2>2, <2>3, <2>5, <2>8, <4>7, <4>8, Zenon DEF GotBlock
    <3> QED BY <2>2, <3>1, <3>2, <3>3, BallocIs, Zenon
  <2> QED BY <2>6, <2>7, <2>8, Zenon
<1> QED BY <1>1, <1>2, Zenon

-----------------------------------------------------------------------------
(* What bmap() does to the addresses. *)

\* The addresses of all inodes while a transaction works on inode i.
MapOf(i, ads, t) == AddrMap([ads EXCEPT ![i] = t.addrs], t.table)
Cons(i, ads, t)  == Exact(MapOf(i, ads, t), t.bits)

LEMMA MapOfIs ==
    ASSUME NEW ads \in [Files -> Addrs], NEW i \in Files, NEW t \in Trans
    PROVE  /\ MapOf(i, ads, t) \in [Places -> 0 .. Size]
           /\ \A k \in Slots : /\ <<i, k>> \in Places
                               /\ MapOf(i, ads, t)[<<i, k>>] = Val(t.addrs, t.table, k)
<1>1. t.addrs \in Addrs /\ t.table \in Tables
  BY TransFields, Zenon
<1>2. PICK ay : ay = [ads EXCEPT ![i] = t.addrs]
  BY Zenon
<1>3. ay \in [Files -> Addrs] /\ ay[i] = t.addrs
  BY <1>1, <1>2, Zenon
<1>4. MapOf(i, ads, t) = AddrMap(ay, t.table)
  BY <1>2, Zenon DEF MapOf
<1> QED BY <1>1, <1>3, <1>4, AddrMapIs

\* Slot s of inode i has got block b.
Gained(i, ads, t, s, b, u) ==
    /\ MapOf(i, ads, t)[<<i, s>>] = 0
    /\ MapOf(i, ads, u) = [MapOf(i, ads, t) EXCEPT ![<<i, s>>] = b]
    /\ Cons(i, ads, u)

LEMMA GaveGood ==
    ASSUME NEW ads \in [Files -> Addrs], NEW i \in Files, NEW t \in Trans, Cons(i, ads, t),
           NEW k \in 0 .. NDIRECT, t.addrs[k] = 0, NEW b \in Blocks \ t.bits,
           NEW u, u = Gave(t, k, b)
    PROVE  Gained(i, ads, t, k, b, u)
<1>1. Given(t, k, b, u)
  BY GaveShape, Zenon
<1>2. PICK at, bt, tb : at = t.addrs /\ bt = t.bits /\ tb = t.table
  BY Zenon
<1>3. PICK au, bu, tu : au = u.addrs /\ bu = u.bits /\ tu = u.table
  BY Zenon
<1>4. at \in Addrs /\ bt \in SUBSET Blocks /\ tb \in Tables /\ b \in Blocks \ bt /\ at[k] = 0
  BY <1>2, TransFields, Zenon
<1>5. au = [at EXCEPT ![k] = b] /\ bu = bt \cup {b} /\ tu = [tb EXCEPT ![b] = ZeroTable]
  BY <1>1, <1>2, <1>3, Zenon DEF Given
<1>6. PICK ay, ax : ay = [ads EXCEPT ![i] = at] /\ ax = [ads EXCEPT ![i] = au]
  BY Zenon
<1>7. ay \in [Files -> Addrs] /\ ay[i] = at
  BY <1>4, <1>6, Zenon
<1>8. ax = [ay EXCEPT ![i] = au]
  BY <1>6, Zenon
<1>9. PICK v, w : v = MapOf(i, ads, t) /\ w = MapOf(i, ads, u)
  BY Zenon
<1>10. v = AddrMap(ay, tb) /\ w = AddrMap(ax, tu) /\ Exact(v, bt)
  BY <1>2, <1>3, <1>6, <1>9, Zenon DEF MapOf, Cons
<1>11. au = [ay[i] EXCEPT ![k] = b] /\ ay[i][k] = 0
  BY <1>4, <1>5, <1>7, Zenon
<1>12. v[<<i, k>>] = 0 /\ AddrMap(ax, tu) = [v EXCEPT ![<<i, k>>] = b]
  <2>1. DirectMapped(ay, tb, bt, v, i, k, b, au, ax, tu)
    BY <1>4, <1>5, <1>7, <1>8, <1>10, <1>11, DirectMap, Zenon
  <2> QED BY <2>1, Zenon DEF DirectMapped
<1>13. v \in [Places -> 0 .. Size] /\ <<i, k>> \in Places
  BY <1>9, MapOfIs, Numbers, Zenon
<1>14. Exact(w, bu)
  BY <1>4, <1>5, <1>10, <1>12, <1>13, ExactMore, Zenon
<1> QED BY <1>3, <1>9, <1>10, <1>12, <1>14, Zenon DEF Gained, Cons

LEMMA GaveEntryGood ==
    ASSUME NEW ads \in [Files -> Addrs], NEW i \in Files, NEW t \in Trans, Cons(i, ads, t),
           NEW ind \in Blocks, t.addrs[NDIRECT] = ind,
           NEW k \in 0 .. NINDIRECT - 1, t.table[ind][k] = 0, NEW b \in Blocks \ t.bits,
           NEW u, u = GaveEntry(t, ind, k, b), NEW s, s = EntrySlot(k)
    PROVE  s \in Slots /\ Gained(i, ads, t, s, b, u)
<1>1. GivenEntry(t, ind, k, b, u)
  BY GaveEntryShape, Zenon
<1>2. PICK at, bt, tb : at = t.addrs /\ bt = t.bits /\ tb = t.table
  BY Zenon
<1>3. PICK bu, tu : bu = u.bits /\ tu = u.table
  BY Zenon
<1>4. /\ at \in Addrs /\ bt \in SUBSET Blocks /\ tb \in Tables /\ b \in Blocks \ bt
      /\ at[NDIRECT] = ind /\ tb[ind][k] = 0
  BY <1>2, TransFields, Zenon
<1>5. /\ u.addrs = at /\ bu = bt \cup {b}
      /\ tu = NewTable(tb, b, ind, k)
  BY <1>1, <1>2, <1>3, Zenon DEF GivenEntry, NewTable
<1>6. PICK ay : ay = [ads EXCEPT ![i] = at]
  BY Zenon
<1>7. ay \in [Files -> Addrs] /\ ay[i][NDIRECT] = ind
  BY <1>4, <1>6, Zenon
<1>9. PICK v, w : v = MapOf(i, ads, t) /\ w = MapOf(i, ads, u)
  BY Zenon
<1>10. v = AddrMap(ay, tb) /\ w = AddrMap(ay, tu) /\ Exact(v, bt)
  BY <1>2, <1>3, <1>5, <1>6, <1>9, Zenon DEF MapOf, Cons
<1>12. s \in Slots /\ v[<<i, s>>] = 0 /\ AddrMap(ay, tu) = [v EXCEPT ![<<i, s>>] = b]
  <2>1. IndirectMapped(ay, tb, bt, v, i, k, ind, b, tu, s)
    BY <1>4, <1>5, <1>7, <1>10, IndirectMap, Zenon
  <2> QED BY <2>1, Zenon DEF IndirectMapped
<1>13. v \in [Places -> 0 .. Size] /\ <<i, s>> \in Places
  BY <1>9, <1>12, MapOfIs, Zenon
<1>14. Exact(w, bu)
  <2>1. w = [v EXCEPT ![<<i, s>>] = b]
    BY <1>10, <1>12, Zenon
  <2>2. Exact(w, bt \cup {b})
    BY <1>4, <1>10, <1>12, <1>13, <2>1, ExactMore, Zenon
  <2> QED BY <1>5, <2>2, Zenon
<1> QED BY <1>3, <1>9, <1>10, <1>12, <1>14, Zenon DEF Gained, Cons

\* What a transaction may have logged besides l: the bitmap, the block in slot s
\* and the indirect block, in the map w of inode i.
LoggedAt(i, w, s, l, lx) ==
    \A y \in lx : \/ y \in l \/ y = <<"bitmap">> \/ y = <<"block", w[<<i, s>>]>>
                  \/ w[<<i, NDIRECT>>] # 0 /\ y = <<"block", w[<<i, NDIRECT>>]>>

\* Slot s of inode i has a block, and no other slot has changed.
Filled(i, ads, t, s, u) ==
    /\ Cons(i, ads, u) /\ MapOf(i, ads, u)[<<i, s>>] # 0
    /\ \A x \in Places : x # <<i, s>> => MapOf(i, ads, u)[x] = MapOf(i, ads, t)[x]
    /\ MapOf(i, ads, t)[<<i, s>>] # 0 => u = t
    /\ LoggedAt(i, MapOf(i, ads, u), s, t.logged, u.logged)

LEMMA GainedFills ==
    ASSUME NEW ads \in [Files -> Addrs], NEW i \in Files, NEW t \in Trans, NEW u \in Trans,
           NEW s \in Slots, NEW b \in Blocks, Gained(i, ads, t, s, b, u),
           \/ u.logged = t.logged \cup {<<"bitmap">>, <<"block", b>>}
           \/ \E ind \in Blocks :
                 /\ MapOf(i, ads, t)[<<i, NDIRECT>>] = ind
                 /\ u.logged = t.logged \cup {<<"bitmap">>, <<"block", b>>, <<"block", ind>>}
    PROVE  Filled(i, ads, t, s, u)
<1>1. PICK v, w : v = MapOf(i, ads, t) /\ w = MapOf(i, ads, u)
  BY Zenon
<1>2. v \in [Places -> 0 .. Size] /\ <<i, s>> \in Places /\ <<i, NDIRECT>> \in Places
  BY <1>1, MapOfIs, Numbers, Zenon
<1>3. w = [v EXCEPT ![<<i, s>>] = b] /\ v[<<i, s>>] = 0 /\ Cons(i, ads, u) /\ b # 0
  BY <1>1, Numbers, Zenon DEF Gained
<1>4. w[<<i, s>>] = b /\ \A x \in Places : x # <<i, s>> => w[x] = v[x]
  BY <1>2, <1>3, Zenon
<1>5. v[<<i, NDIRECT>>] # 0 => w[<<i, NDIRECT>>] = v[<<i, NDIRECT>>]
  BY <1>2, <1>3, <1>4, Zenon
<1>6. LoggedAt(i, w, s, t.logged, u.logged)
  <2>1. CASE u.logged = t.logged \cup {<<"bitmap">>, <<"block", b>>}
    BY <1>4, <2>1, Zenon DEF LoggedAt
  <2>2. ASSUME NEW ind \in Blocks, MapOf(i, ads, t)[<<i, NDIRECT>>] = ind,
               u.logged = t.logged \cup {<<"bitmap">>, <<"block", b>>, <<"block", ind>>}
        PROVE  LoggedAt(i, w, s, t.logged, u.logged)
    <3>1. w[<<i, NDIRECT>>] = ind /\ ind # 0
      BY <1>1, <1>5, <2>2, Numbers, Zenon
    <3> QED BY <1>4, <2>2, <3>1, Zenon DEF LoggedAt
  <2> QED BY <2>1, <2>2, Zenon
<1> QED BY <1>1, <1>3, <1>4, <1>6, Zenon DEF Filled

LEMMA SameFills ==
    ASSUME NEW ads, NEW i, NEW t, Cons(i, ads, t), NEW s, MapOf(i, ads, t)[<<i, s>>] # 0
    PROVE  Filled(i, ads, t, s, t)
BY Zenon DEF Filled, LoggedAt

LEMMA AddrFills ==
    ASSUME NEW ads \in [Files -> Addrs], NEW i \in Files, NEW t \in Trans, Cons(i, ads, t),
           NEW k \in 0 .. NDIRECT, NEW u \in Trans, GotAddr(t, k, u), u.ok
    PROVE  Filled(i, ads, t, k, u)
<1>1. k \in Slots /\ k <= NDIRECT
  BY Numbers
<1>2. MapOf(i, ads, t)[<<i, k>>] = t.addrs[k]
  BY <1>1, MapOfIs, Zenon DEF Val
<1>3. CASE t.addrs[k] # 0 /\ u = t
  <2>1. Filled(i, ads, t, k, t)
    BY <1>2, <1>3, SameFills, Zenon
  <2> QED BY <1>3, <2>1, Zenon
<1>4. ASSUME t.addrs[k] = 0, NEW b \in Blocks \ t.bits, u = Gave(t, k, b)
      PROVE  Filled(i, ads, t, k, u)
  <2>1. Gained(i, ads, t, k, b, u)
    BY <1>4, GaveGood, Zenon
  <2>2. Given(t, k, b, u)
    BY <1>4, GaveShape, Zenon
  <2>3. u.logged = t.logged \cup {<<"bitmap">>, <<"block", b>>}
    BY <2>2, Zenon DEF Given
  <2>4. b \in Blocks
    BY <1>4, Zenon
  <2> QED BY <1>1, <2>1, <2>3, <2>4, GainedFills, Zenon
<1> QED BY <1>3, <1>4, Zenon DEF GotAddr

LEMMA EntryFills ==
    ASSUME NEW ads \in [Files -> Addrs], NEW i \in Files, NEW t \in Trans, Cons(i, ads, t),
           NEW k \in 0 .. NINDIRECT - 1, NEW ind \in Blocks, t.addrs[NDIRECT] = ind,
           NEW u \in Trans, GotEntry(t, ind, k, u), NEW s, s = EntrySlot(k)
    PROVE  Filled(i, ads, t, s, u)
<1>1. s \in Slots /\ ~(s <= NDIRECT) /\ s - (NDIRECT + 1) = k /\ ind # 0
  BY Numbers DEF Slots, EntrySlot
<1>2. /\ MapOf(i, ads, t)[<<i, s>>] = t.table[ind][k]
      /\ MapOf(i, ads, t)[<<i, NDIRECT>>] = ind
  <2>1. /\ MapOf(i, ads, t)[<<i, s>>] = Val(t.addrs, t.table, s)
        /\ MapOf(i, ads, t)[<<i, NDIRECT>>] = Val(t.addrs, t.table, NDIRECT)
    BY <1>1, MapOfIs, Numbers
  <2>2. Val(t.addrs, t.table, s) = t.table[ind][k] /\ Val(t.addrs, t.table, NDIRECT) = ind
    BY <1>1, Numbers DEF Val
  <2> QED BY <2>1, <2>2, Zenon
<1>3. CASE t.table[ind][k] # 0 /\ u = t
  <2>1. Filled(i, ads, t, s, t)
    BY <1>2, <1>3, SameFills, Zenon
  <2> QED BY <1>3, <2>1, Zenon
<1>4. ASSUME t.table[ind][k] = 0, NEW b \in Blocks \ t.bits, u = GaveEntry(t, ind, k, b)
      PROVE  Filled(i, ads, t, s, u)
  <2>1. Gained(i, ads, t, s, b, u)
    BY <1>4, GaveEntryGood, Zenon
  <2>2. GivenEntry(t, ind, k, b, u)
    BY <1>4, GaveEntryShape, Zenon
  <2>3. u.logged = t.logged \cup {<<"bitmap">>, <<"block", b>>, <<"block", ind>>}
    BY <2>2, Zenon DEF GivenEntry
  <2>4. b \in Blocks
    BY <1>4, Zenon
  <2> QED BY <1>1, <1>2, <2>1, <2>3, <2>4, GainedFills, Zenon
<1> QED BY <1>3, <1>4, Zenon DEF GotEntry

\* The slot of block bn.
Slot(bn) == IF bn < NDIRECT THEN bn ELSE bn + 1

\* Block bn of inode i has an address, and no other block of an inode has changed.
Mapped(i, ads, t, s, u) ==
    /\ Cons(i, ads, u) /\ MapOf(i, ads, u)[<<i, s>>] # 0
    /\ \A x \in Places : MapOf(i, ads, t)[x] # 0 => MapOf(i, ads, u)[x] = MapOf(i, ads, t)[x]
    /\ \A x \in Places : x # <<i, s>> /\ x # <<i, NDIRECT>> =>
          MapOf(i, ads, u)[x] = MapOf(i, ads, t)[x]
    /\ MapOf(i, ads, t)[<<i, s>>] # 0 => u = t
    /\ LoggedAt(i, MapOf(i, ads, u), s, t.logged, u.logged)

LEMMA SlotIs ==
    ASSUME NEW bn \in 0 .. MAXFILE - 1
    PROVE  /\ Slot(bn) \in Slots /\ Slot(bn) # NDIRECT
           /\ bn < NDIRECT => Slot(bn) = bn /\ bn \in 0 .. NDIRECT
           /\ bn >= NDIRECT => /\ Slot(bn) = EntrySlot(bn - NDIRECT)
                               /\ bn - NDIRECT \in 0 .. NINDIRECT - 1
           /\ \A c \in 0 .. MAXFILE - 1 : Slot(c) = Slot(bn) => c = bn
BY Numbers DEF Slot, Slots, EntrySlot, MAXFILE

LEMMA BmapGood ==
    ASSUME NEW ads \in [Files -> Addrs], NEW i \in Files, NEW t \in Trans, Cons(i, ads, t),
           NEW bn \in 0 .. MAXFILE - 1, NEW u \in Trans, u.ok, GotBlock(t, bn, u)
    PROVE  t.ok /\ Mapped(i, ads, t, Slot(bn), u)
<1>0. PICK s \in Slots : s = Slot(bn)
  BY SlotIs, Zenon
<1>1. CASE bn < NDIRECT /\ GotAddr(t, bn, u)
  <2>1. s = bn /\ bn \in 0 .. NDIRECT
    BY <1>0, <1>1, SlotIs, Zenon
  <2>2. Filled(i, ads, t, s, u)
    BY <1>1, <2>1, AddrFills, Zenon
  <2>3. t.ok
    BY <1>1, <2>1, GotAddrOk, Zenon
  <2>4. PICK v, w : v = MapOf(i, ads, t) /\ w = MapOf(i, ads, u)
    BY Zenon
  <2>5. /\ \A x \in Places : x # <<i, s>> => w[x] = v[x]
        /\ v[<<i, s>>] # 0 => w = v
    BY <2>2, <2>4, Zenon DEF Filled
  <2>6. \A x \in Places : v[x] # 0 => w[x] = v[x]
    BY <2>5, Zenon
  <2> QED BY <1>0, <2>2, <2>3, <2>4, <2>5, <2>6, Zenon DEF Filled, Mapped
<1>2. ASSUME bn >= NDIRECT, NEW m \in Trans, GotAddr(t, NDIRECT, m), m.ok,
             GotEntry(m, m.addrs[NDIRECT], bn - NDIRECT, u)
      PROVE  t.ok /\ Mapped(i, ads, t, Slot(bn), u)
  <2>1. PICK k \in 0 .. NINDIRECT - 1 : k = bn - NDIRECT /\ s = EntrySlot(k)
    BY <1>0, <1>2, SlotIs, Zenon
  <2>2. NDIRECT \in 0 .. NDIRECT
    BY Numbers, Zenon
  <2>3. Filled(i, ads, t, NDIRECT, m) /\ t.ok
    BY <1>2, <2>2, AddrFills, GotAddrOk, Zenon
  <2>4. PICK ind \in Blocks : ind = m.addrs[NDIRECT]
    BY <1>2, <2>2, GotAddrOk, Zenon
  <2>5. Cons(i, ads, m)
    BY <2>3, Zenon DEF Filled
  <2>6. Filled(i, ads, m, s, u)
    BY <1>2, <2>1, <2>4, <2>5, EntryFills, Zenon
  <2>7. PICK v, h, w : v = MapOf(i, ads, t) /\ h = MapOf(i, ads, m) /\ w = MapOf(i, ads, u)
    BY Zenon
  <2>8. /\ \A x \in Places : x # <<i, s>> => w[x] = h[x]
        /\ h[<<i, s>>] # 0 => u = m
        /\ LoggedAt(i, w, s, m.logged, u.logged) /\ Cons(i, ads, u) /\ w[<<i, s>>] # 0
    BY <2>6, <2>7, Zenon DEF Filled
  <2>9. /\ \A x \in Places : x # <<i, NDIRECT>> => h[x] = v[x]
        /\ v[<<i, NDIRECT>>] # 0 => m = t
        /\ LoggedAt(i, h, NDIRECT, t.logged, m.logged) /\ h[<<i, NDIRECT>>] # 0
    BY <2>3, <2>7, Zenon DEF Filled
  <2>10. <<i, s>> # <<i, NDIRECT>> /\ <<i, s>> \in Places /\ <<i, NDIRECT>> \in Places
    BY <1>0, SlotIs, Numbers, Zenon DEF Places
  <2>11. w[<<i, NDIRECT>>] = h[<<i, NDIRECT>>]
    BY <2>8, <2>10, Zenon
  <2>12. v[<<i, s>>] # 0 => v[<<i, NDIRECT>>] # 0
    <3>1. v[<<i, s>>] = Val(t.addrs, t.table, s)
          /\ v[<<i, NDIRECT>>] = Val(t.addrs, t.table, NDIRECT)
      BY <2>7, MapOfIs, Numbers, Zenon
    <3>2. ~(s <= NDIRECT) /\ NDIRECT <= NDIRECT
      BY <2>1, Numbers DEF EntrySlot
    <3> QED BY <3>1, <3>2, Zenon DEF Val
  <2>13. v[<<i, NDIRECT>>] # 0 => h = v
    BY <2>7, <2>9, Zenon
  <2>14. v[<<i, s>>] # 0 => u = t
    BY <2>8, <2>9, <2>12, <2>13, Zenon
  <2>15. \A x \in Places : v[x] # 0 => w[x] = v[x]
    <3> SUFFICES ASSUME NEW x \in Places, v[x] # 0 PROVE w[x] = v[x]
      BY Zenon
    <3>1. CASE x = <<i, s>>
      BY <2>7, <2>14, <3>1, Zenon
    <3>2. CASE x # <<i, s>>
      BY <2>8, <2>9, <2>13, <3>2, Zenon
    <3> QED BY <3>1, <3>2, Zenon
  <2>16. LoggedAt(i, w, s, t.logged, u.logged)
    BY <2>8, <2>9, <2>11, Zenon DEF LoggedAt
  <2>17. \A x \in Places : x # <<i, s>> /\ x # <<i, NDIRECT>> => w[x] = v[x]
    BY <2>8, <2>9, Zenon
  <2> QED BY <1>0, <2>3, <2>7, <2>8, <2>14, <2>15, <2>16, <2>17, Zenon DEF Mapped
<1> QED BY <1>1, <1>2, Zenon DEF GotBlock

-----------------------------------------------------------------------------
(* The loop of writei(). *)

\* writei() logs the block it has written.
Note(t, bn) ==
    IF ~t.ok THEN t
    ELSE [t EXCEPT !.logged = t.logged \cup {<<"block", Addr(t.addrs, t.table, bn)>>}]
Round(t, bn) == Note(Bmap(t, bn), bn)
WriteBody(t, lo, hi, w) ==
    [k \in lo .. hi + 1 |-> IF k = lo THEN t ELSE Round(w[k - 1], k - 1)]
Writing(t, lo, hi) == CHOOSE w : w = WriteBody(t, lo, hi, w)

LEMMA WriteBlocksIs ==
    ASSUME NEW i, NEW lo, NEW hi
    PROVE  WriteBlocks(i, lo, hi) = Writing(Start(i), lo, hi)[hi + 1]
BY Zenon DEF WriteBlocks, Writing, WriteBody, Round, Note

LEMMA AddrVal ==
    ASSUME NEW a, NEW tbl, NEW bn \in 0 .. MAXFILE - 1
    PROVE  Addr(a, tbl, bn) = Val(a, tbl, Slot(bn))
<1>1. CASE bn < NDIRECT
  <2>1. Slot(bn) = bn /\ bn <= NDIRECT
    BY <1>1, SlotIs, Numbers
  <2> QED BY <1>1, <2>1, Zenon DEF Addr, Val
<1>2. CASE ~(bn < NDIRECT)
  <2>1. ~(Slot(bn) <= NDIRECT) /\ Slot(bn) - (NDIRECT + 1) = bn - NDIRECT
    BY <1>2, Numbers DEF Slot
  <2> QED BY <1>2, <2>1, Zenon DEF Addr, Val
<1> QED BY <1>1, <1>2, Zenon

Noted(t, bn, u) ==
    /\ u \in Trans /\ u.ok = t.ok /\ u.addrs = t.addrs /\ u.bits = t.bits /\ u.table = t.table
    /\ t.ok => u.logged = t.logged \cup {<<"block", Val(t.addrs, t.table, Slot(bn))>>}

LEMMA NoteIs ==
    ASSUME NEW t \in Trans, NEW bn \in 0 .. MAXFILE - 1, NEW u, u = Note(t, bn)
    PROVE  Noted(t, bn, u)
<1>1. CASE ~t.ok
  BY <1>1, Zenon DEF Note, Noted
<1>2. CASE t.ok
  <2>1. PICK a, bts, tbl, lg, ok : /\ a = t.addrs /\ bts = t.bits /\ tbl = t.table
                                   /\ lg = t.logged /\ ok = t.ok
    BY Zenon
  <2>2. /\ a \in Addrs /\ bts \in SUBSET Blocks /\ tbl \in Tables /\ lg \in SUBSET Ids
        /\ ok \in BOOLEAN
    BY <2>1, TransFields, Zenon
  <2>3. PICK c \in 0 .. Size : c = Val(a, tbl, Slot(bn))
    BY <2>2, SlotIs, ValIs, Zenon
  <2>4. PICK lx : lx = lg \cup {<<"block", c>>}
    BY Zenon
  <2>5. lx \in SUBSET Ids
    <3>1. <<"block", c>> \in Ids
      BY IdsAre, Zenon
    <3> QED BY <2>2, <2>4, <3>1, Zenon
  <2>6. c = Addr(t.addrs, t.table, bn)
    BY <2>1, <2>3, AddrVal, Zenon
  <2>7. u = Tx(a, bts, tbl, lx, ok)
    BY <1>2, <2>1, <2>4, <2>6, Zenon DEF Note, Trans, Tx
  <2>8. u \in Trans
    BY <2>2, <2>5, <2>7, TxShape, Zenon
  <2>9. u.addrs = a /\ u.bits = bts /\ u.table = tbl /\ u.logged = lx /\ u.ok = ok
    BY <2>7, SMT DEF Tx
  <2> QED BY <2>1, <2>3, <2>4, <2>8, <2>9, Zenon DEF Noted
<1> QED BY <1>1, <1>2, Zenon

LEMMA RoundShape ==
    ASSUME NEW t \in Trans, NEW bn \in 0 .. MAXFILE - 1
    PROVE  Round(t, bn) \in Trans
<1>1. PICK m : m = Bmap(t, bn)
  BY Zenon
<1>2. m \in Trans
  BY <1>1, BmapIs, Zenon
<1>3. Noted(m, bn, Note(m, bn))
  BY <1>2, NoteIs, Zenon
<1> QED BY <1>1, <1>3, Zenon DEF Noted, Round

\* The states of the loop.
Rounds(t, lo, hi, w) ==
    /\ w \in [lo .. hi + 1 -> Trans] /\ w[lo] = t
    /\ \A k \in lo + 1 .. hi + 1 : w[k] = Round(w[k - 1], k - 1)

LEMMA WritingIs ==
    ASSUME NEW t \in Trans, NEW lo \in Nat, NEW hi \in Nat, lo <= hi, hi < MAXFILE,
           NEW w, w = Writing(t, lo, hi)
    PROVE  Rounds(t, lo, hi, w)
<1>0. PICK n \in Nat : n = hi + 1
  OBVIOUS
<1>1. /\ lo <= n /\ lo \in lo .. n
      /\ \A k \in lo + 1 .. n : k - 1 \in 0 .. MAXFILE - 1 /\ k - 1 \in lo .. n /\ k \in lo .. n
                                /\ k # lo
      /\ \A k \in lo .. n : k # lo => k \in lo + 1 .. n
  BY <1>0, Numbers
<1> DEFINE F == [z \in (lo + 1 .. n) \X Trans |-> Round(z[2], z[1] - 1)]
<1>2. F \in [(lo + 1 .. n) \X Trans -> Trans]
  <2>1. ASSUME NEW z \in (lo + 1 .. n) \X Trans PROVE Round(z[2], z[1] - 1) \in Trans
    <3>1. z[1] \in lo + 1 .. n /\ z[2] \in Trans
      BY Zenon
    <3>2. z[1] - 1 \in 0 .. MAXFILE - 1
      BY <1>1, <3>1, Zenon
    <3> QED BY <3>1, <3>2, RoundShape, Zenon
  <2> QED BY <2>1, Zenon
<1>3. PICK v \in [lo .. n -> Trans] : /\ v[lo] = t
                                      /\ \A k \in lo + 1 .. n : v[k] = F[<<k, v[k - 1]>>]
  <2>1. PICK G : G = F
    BY Zenon
  <2>2. G \in [(lo + 1 .. n) \X Trans -> Trans]
    BY <1>2, <2>1, Zenon
  <2>3. \E v : Loop(lo, n, Trans, t, G, v)
    BY <1>1, <2>2, Recursion, Zenon
  <2> QED BY <2>1, <2>3, Zenon DEF Loop
<1>4. ASSUME NEW k \in lo + 1 .. n PROVE v[k] = Round(v[k - 1], k - 1)
  <2>1. PICK q \in Trans : q = v[k - 1]
    BY <1>1, <1>3, Zenon
  <2>2. v[k] = F[<<k, v[k - 1]>>]
    BY <1>3, Zenon
  <2>3. F[<<k, q>>] = Round(q, k - 1)
    BY Zenon
  <2> QED BY <2>1, <2>2, <2>3, Zenon
<1>5. v = WriteBody(t, lo, hi, v)
  <2>1. ASSUME NEW k \in lo .. n
        PROVE  v[k] = IF k = lo THEN t ELSE Round(v[k - 1], k - 1)
    <3>1. CASE k = lo
      BY <1>3, <3>1, Zenon
    <3>2. CASE k # lo
      <4>1. k \in lo + 1 .. n
        BY <1>1, <3>2, Zenon
      <4> QED BY <1>4, <3>2, <4>1, Zenon
    <3> QED BY <3>1, <3>2, Zenon
  <2>2. v = [k \in lo .. n |-> v[k]]
    BY <1>3, Zenon
  <2> QED BY <1>0, <2>1, <2>2, Zenon DEF WriteBody
<1>6. w = WriteBody(t, lo, hi, w)
  BY <1>5, Zenon DEF Writing
<1>7. /\ w = [k \in lo .. n |-> IF k = lo THEN t ELSE Round(w[k - 1], k - 1)]
      /\ \A k \in lo .. n : w[k] = IF k = lo THEN t ELSE Round(w[k - 1], k - 1)
  BY <1>0, <1>6, Zenon DEF WriteBody
<1>8. w[lo] = t /\ \A k \in lo + 1 .. n : w[k] = Round(w[k - 1], k - 1)
  BY <1>1, <1>7, Zenon
<1>9. \A k \in lo .. n : w[k] \in Trans
  <2>1. PICK U : U = {k \in lo .. n : w[k] \in Trans}
    BY Zenon
  <2>2. U \in SUBSET (lo .. n) /\ lo \in U
    BY <1>1, <1>8, <2>1, Zenon
  <2>3. ASSUME NEW k \in lo + 1 .. n, k - 1 \in U PROVE k \in U
    <3>1. w[k - 1] \in Trans /\ k - 1 \in 0 .. MAXFILE - 1
      BY <1>1, <2>1, <2>3, Zenon
    <3>2. w[k] \in Trans
      BY <1>8, <3>1, RoundShape, Zenon
    <3> QED BY <1>1, <2>1, <3>2, Zenon
  <2>4. U = lo .. n
    BY <1>1, <2>2, <2>3, Induct, Zenon
  <2> QED BY <2>1, <2>4, Zenon
<1>10. w \in [lo .. n -> Trans]
  <2>1. w = [k \in lo .. n |-> w[k]]
    BY <1>7, Zenon
  <2> QED BY <1>9, <2>1, Zenon
<1> QED BY <1>0, <1>8, <1>10, Zenon DEF Rounds

\* Where writei() is after the blocks lo .. k - 1, from transaction t0 with map v0
\* to t with map v.
Wrote(i, lo, k, t0, t, v0, v) ==
    /\ \A x \in Places : v0[x] # 0 => v[x] = v0[x]
    /\ \A j \in Files \ {i}, l \in Slots : v[<<j, l>>] = v0[<<j, l>>]
    /\ \A bn \in 0 .. MAXFILE - 1 :
          v[<<i, Slot(bn)>>] # 0 <=> (v0[<<i, Slot(bn)>>] # 0 \/ bn \in lo .. k - 1)
    /\ (\A bn \in lo .. k - 1 : v0[<<i, Slot(bn)>>] # 0) =>
          t.addrs = t0.addrs /\ t.bits = t0.bits /\ t.table = t0.table
    /\ \A y \in t.logged :
          \/ y = <<"bitmap">>
          \/ v[<<i, NDIRECT>>] # 0 /\ y = <<"block", v[<<i, NDIRECT>>]>>
          \/ \E bn \in lo .. k - 1 : y = <<"block", v[<<i, Slot(bn)>>]>>

Written(i, ads, lo, k, t0, t) ==
    /\ Cons(i, ads, t)
    /\ Wrote(i, lo, k, t0, t, MapOf(i, ads, t0), MapOf(i, ads, t))

\* Nothing is written yet.
LEMMA WrittenNone ==
    ASSUME NEW i, NEW ads, NEW lo \in Nat, NEW t, Cons(i, ads, t), t.logged = {}
    PROVE  Written(i, ads, lo, lo, t, t)
<1>1. lo .. lo - 1 = {}
  OBVIOUS
<1> QED BY <1>1, Zenon DEF Written, Wrote

\* One more block is written.
LEMMA WrittenMore ==
    ASSUME NEW ads \in [Files -> Addrs], NEW i \in Files, NEW lo \in Nat, NEW k \in Nat,
           lo <= k, k < MAXFILE, NEW t0 \in Trans, NEW t \in Trans,
           Written(i, ads, lo, k, t0, t), NEW u, u = Round(t, k), u.ok
    PROVE  t.ok /\ Written(i, ads, lo, k + 1, t0, u)
<1>1. PICK m : m = Bmap(t, k)
  BY Zenon
<1>2. k \in 0 .. MAXFILE - 1
  BY Numbers
<1>3. m \in Trans /\ (m.ok => GotBlock(t, k, m))
  BY <1>1, <1>2, BmapIs, Zenon
<1>4. Noted(m, k, u)
  BY <1>1, <1>2, <1>3, NoteIs, Zenon DEF Round
<1>5. m.ok /\ u \in Trans
  BY <1>4, Zenon DEF Noted
<1>6. Cons(i, ads, t)
  BY Zenon DEF Written
<1>7. t.ok /\ Mapped(i, ads, t, Slot(k), m)
  BY <1>2, <1>3, <1>5, <1>6, BmapGood, Zenon
<1>8. PICK s \in Slots : s = Slot(k)
  BY <1>2, SlotIs, Zenon
<1>9. PICK v0, v, w : v0 = MapOf(i, ads, t0) /\ v = MapOf(i, ads, t) /\ w = MapOf(i, ads, m)
  BY Zenon
<1>10. MapOf(i, ads, u) = w
  BY <1>4, <1>9, Zenon DEF Noted, MapOf
<1>11. Cons(i, ads, u)
  BY <1>4, <1>7, <1>9, <1>10, Zenon DEF Noted, Cons, Mapped
<1>12. /\ w[<<i, s>>] # 0
       /\ \A x \in Places : v[x] # 0 => w[x] = v[x]
       /\ \A x \in Places : x # <<i, s>> /\ x # <<i, NDIRECT>> => w[x] = v[x]
       /\ v[<<i, s>>] # 0 => m = t
       /\ LoggedAt(i, w, s, t.logged, m.logged)
  BY <1>7, <1>8, <1>9, Zenon DEF Mapped
<1>13. /\ \A x \in Places : v0[x] # 0 => v[x] = v0[x]
       /\ \A j \in Files \ {i}, l \in Slots : v[<<j, l>>] = v0[<<j, l>>]
       /\ \A bn \in 0 .. MAXFILE - 1 :
             v[<<i, Slot(bn)>>] # 0 <=> (v0[<<i, Slot(bn)>>] # 0 \/ bn \in lo .. k - 1)
       /\ (\A bn \in lo .. k - 1 : v0[<<i, Slot(bn)>>] # 0) =>
             t.addrs = t0.addrs /\ t.bits = t0.bits /\ t.table = t0.table
       /\ \A y \in t.logged :
             \/ y = <<"bitmap">>
             \/ v[<<i, NDIRECT>>] # 0 /\ y = <<"block", v[<<i, NDIRECT>>]>>
             \/ \E bn \in lo .. k - 1 : y = <<"block", v[<<i, Slot(bn)>>]>>
  BY <1>9, Zenon DEF Written, Wrote
<1>14. \A j \in Files, l \in Slots : <<j, l>> \in Places
  BY Zenon DEF Places
<1>15. \A x \in Places : v0[x] # 0 => w[x] = v0[x]
  BY <1>12, <1>13, Zenon
<1>16. \A j \in Files \ {i}, l \in Slots : w[<<j, l>>] = v0[<<j, l>>]
  <2> SUFFICES ASSUME NEW j \in Files \ {i}, NEW l \in Slots PROVE w[<<j, l>>] = v0[<<j, l>>]
    BY Zenon
  <2>1. <<j, l>> \in Places /\ <<j, l>> # <<i, s>> /\ <<j, l>> # <<i, NDIRECT>>
    BY <1>14, Zenon
  <2> QED BY <1>12, <1>13, <2>1, Zenon
<1>17. /\ \A bn \in lo .. k : bn \in lo .. k - 1 \/ bn = k
       /\ \A bn \in lo .. k - 1 : bn \in lo .. k
       /\ k \in lo .. k /\ (k + 1) - 1 = k
       /\ \A bn \in lo .. k : bn \in 0 .. MAXFILE - 1
  BY Numbers
<1>18. \A bn \in 0 .. MAXFILE - 1 :
          w[<<i, Slot(bn)>>] # 0 <=> (v0[<<i, Slot(bn)>>] # 0 \/ bn \in lo .. k)
  <2> SUFFICES ASSUME NEW bn \in 0 .. MAXFILE - 1
               PROVE  w[<<i, Slot(bn)>>] # 0 <=> (v0[<<i, Slot(bn)>>] # 0 \/ bn \in lo .. k)
    BY Zenon
  <2>1. CASE bn = k
    BY <1>8, <1>12, <1>17, <2>1, Zenon
  <2>2. CASE bn # k
    <3>1. Slot(bn) \in Slots /\ Slot(bn) # s /\ Slot(bn) # NDIRECT
      BY <1>2, <1>8, <2>2, SlotIs, Zenon
    <3>2. PICK l \in Slots : l = Slot(bn)
      BY <3>1, Zenon
    <3>3. <<i, l>> \in Places /\ <<i, l>> # <<i, s>> /\ <<i, l>> # <<i, NDIRECT>>
      BY <1>14, <3>1, <3>2, Zenon
    <3>4. w[<<i, l>>] = v[<<i, l>>]
      BY <1>12, <3>3, Zenon
    <3>5. bn \in lo .. k <=> bn \in lo .. k - 1
      BY <1>17, <2>2, Zenon
    <3> QED BY <1>13, <3>2, <3>4, <3>5, Zenon
  <2> QED BY <2>1, <2>2, Zenon
<1>19. ASSUME \A bn \in lo .. k : v0[<<i, Slot(bn)>>] # 0
       PROVE  u.addrs = t0.addrs /\ u.bits = t0.bits /\ u.table = t0.table
  <2>1. t.addrs = t0.addrs /\ t.bits = t0.bits /\ t.table = t0.table
    BY <1>13, <1>17, <1>19, Zenon
  <2>2. v0[<<i, s>>] # 0 /\ <<i, s>> \in Places
    BY <1>8, <1>14, <1>17, <1>19, Zenon
  <2>3. v[<<i, s>>] # 0
    BY <1>13, <2>2, Zenon
  <2>4. m = t
    BY <1>12, <2>3, Zenon
  <2> QED BY <1>4, <2>1, <2>4, Zenon DEF Noted
<1>20. ASSUME NEW y \in u.logged
       PROVE  \/ y = <<"bitmap">>
              \/ w[<<i, NDIRECT>>] # 0 /\ y = <<"block", w[<<i, NDIRECT>>]>>
              \/ \E bn \in lo .. k : y = <<"block", w[<<i, Slot(bn)>>]>>
  <2>1. w[<<i, s>>] = Val(m.addrs, m.table, s)
    BY <1>3, <1>9, MapOfIs, Zenon
  <2>2. y \in m.logged \/ y = <<"block", w[<<i, s>>]>>
    BY <1>4, <1>5, <1>8, <1>20, <2>1, Zenon DEF Noted
  <2>3. CASE y = <<"block", w[<<i, s>>]>>
    BY <1>8, <1>17, <2>3, Zenon
  <2>4. CASE y \in m.logged /\ y \notin t.logged
    BY <1>8, <1>12, <1>17, <2>4, Zenon DEF LoggedAt
  <2>5. CASE y \in t.logged
    <3>1. CASE y = <<"bitmap">>
      BY <3>1, Zenon
    <3>2. CASE v[<<i, NDIRECT>>] # 0 /\ y = <<"block", v[<<i, NDIRECT>>]>>
      <4>1. <<i, NDIRECT>> \in Places
        BY <1>14, Numbers, Zenon
      <4>2. w[<<i, NDIRECT>>] = v[<<i, NDIRECT>>]
        BY <1>12, <3>2, <4>1, Zenon
      <4> QED BY <3>2, <4>2, Zenon
    <3>3. ASSUME NEW bn \in lo .. k - 1, y = <<"block", v[<<i, Slot(bn)>>]>>
          PROVE  \E c \in lo .. k : y = <<"block", w[<<i, Slot(c)>>]>>
      <4>1. bn \in lo .. k /\ bn \in 0 .. MAXFILE - 1
        BY <1>17, <3>3, Zenon
      <4>2. v[<<i, Slot(bn)>>] # 0 /\ <<i, Slot(bn)>> \in Places
        BY <1>13, <1>14, <3>3, <4>1, SlotIs, Zenon
      <4>3. w[<<i, Slot(bn)>>] = v[<<i, Slot(bn)>>]
        BY <1>12, <4>2, Zenon
      <4> QED BY <3>3, <4>1, <4>3, Zenon
    <3> QED BY <1>13, <2>5, <3>1, <3>2, <3>3, Zenon
  <2> QED BY <2>2, <2>3, <2>4, <2>5, Zenon
<1>21. lo .. (k + 1) - 1 = lo .. k
  BY <1>17, Zenon
<1>22. \A bn \in 0 .. MAXFILE - 1 :
          w[<<i, Slot(bn)>>] # 0 <=> (v0[<<i, Slot(bn)>>] # 0 \/ bn \in lo .. (k + 1) - 1)
  BY <1>18, <1>21, Zenon
<1>23. (\A bn \in lo .. (k + 1) - 1 : v0[<<i, Slot(bn)>>] # 0) =>
          u.addrs = t0.addrs /\ u.bits = t0.bits /\ u.table = t0.table
  BY <1>19, <1>21, Zenon
<1>24. \A y \in u.logged :
          \/ y = <<"bitmap">>
          \/ w[<<i, NDIRECT>>] # 0 /\ y = <<"block", w[<<i, NDIRECT>>]>>
          \/ \E bn \in lo .. (k + 1) - 1 : y = <<"block", w[<<i, Slot(bn)>>]>>
  BY <1>20, <1>21, Zenon
<1>25. Wrote(i, lo, k + 1, t0, u, v0, w)
  BY <1>15, <1>16, <1>22, <1>23, <1>24, Zenon DEF Wrote
<1>26. Written(i, ads, lo, k + 1, t0, u)
  BY <1>9, <1>10, <1>11, <1>25, Zenon DEF Written
<1> QED BY <1>7, <1>26, Zenon

\* No transaction recovers from a panic().
LEMMA RoundOk ==
    ASSUME NEW t \in Trans, NEW k \in Nat, k < MAXFILE, NEW u, u = Round(t, k), u.ok
    PROVE  t.ok
<1>1. PICK m : m = Bmap(t, k)
  BY Zenon
<1>2. k \in 0 .. MAXFILE - 1
  BY Numbers
<1>3. m \in Trans /\ (m.ok => GotBlock(t, k, m))
  BY <1>1, <1>2, BmapIs, Zenon
<1>4. Noted(m, k, u)
  BY <1>1, <1>2, <1>3, NoteIs, Zenon DEF Round
<1>5. m.ok
  BY <1>4, Zenon DEF Noted
<1>6. CASE k < NDIRECT /\ GotAddr(t, k, m)
  <2>1. k \in 0 .. NDIRECT
    BY <1>2, <1>6, SlotIs, Zenon
  <2> QED BY <1>3, <1>5, <1>6, <2>1, GotAddrOk, Zenon
<1>7. ASSUME NEW q \in Trans, GotAddr(t, NDIRECT, q), q.ok PROVE t.ok
  BY <1>7, GotAddrOk, Numbers, Zenon
<1> QED BY <1>3, <1>5, <1>6, <1>7, Zenon DEF GotBlock

\* writei() after its last block.
LEMMA WriteGood ==
    ASSUME NEW ads \in [Files -> Addrs], NEW i \in Files, NEW lo \in Nat, NEW hi \in Nat,
           lo <= hi, hi < MAXFILE, NEW t0 \in Trans, Cons(i, ads, t0), t0.logged = {},
           NEW t, t = Writing(t0, lo, hi)[hi + 1], t.ok
    PROVE  t \in Trans /\ Written(i, ads, lo, hi + 1, t0, t)
<1>1. PICK w : w = Writing(t0, lo, hi)
  BY Zenon
<1>2. Rounds(t0, lo, hi, w)
  BY <1>1, WritingIs, Zenon
<1>3. PICK n \in Nat : n = hi + 1
  OBVIOUS
<1>4. /\ w \in [lo .. n -> Trans] /\ w[lo] = t0
      /\ \A k \in lo + 1 .. n : w[k] = Round(w[k - 1], k - 1)
  BY <1>2, <1>3, Zenon DEF Rounds
<1>5. /\ lo <= n /\ lo \in lo .. n /\ n \in lo .. n
      /\ \A k \in lo + 1 .. n : k - 1 \in Nat /\ lo <= k - 1 /\ k - 1 < MAXFILE
                                /\ k - 1 \in lo .. n /\ k \in lo .. n /\ (k - 1) + 1 = k
  BY <1>3, Numbers
<1>6. PICK U : U = {k \in lo .. n : w[k].ok => Written(i, ads, lo, k, t0, w[k])}
  BY Zenon
<1>7. U \in SUBSET (lo .. n) /\ lo \in U
  <2>1. Written(i, ads, lo, lo, t0, t0)
    BY WrittenNone, Zenon
  <2> QED BY <1>4, <1>5, <1>6, <2>1, Zenon
<1>8. ASSUME NEW k \in lo + 1 .. n, k - 1 \in U PROVE k \in U
  <2>1. PICK h \in Nat : h = k - 1
    BY <1>5, Zenon
  <2>2. lo <= h /\ h < MAXFILE /\ h \in lo .. n /\ k \in lo .. n /\ h + 1 = k
    BY <1>5, <2>1, Zenon
  <2>3. w[h] \in Trans /\ w[k] = Round(w[h], h)
    BY <1>4, <2>1, <2>2, Zenon
  <2>4. w[h].ok => Written(i, ads, lo, h, t0, w[h])
    BY <1>6, <1>8, <2>1, Zenon
  <2>5. ASSUME w[k].ok PROVE Written(i, ads, lo, k, t0, w[k])
    <3>1. PICK q, u : q = w[h] /\ u = w[k]
      BY Zenon
    <3>2. q \in Trans /\ u = Round(q, h) /\ u.ok /\ (q.ok => Written(i, ads, lo, h, t0, q))
      BY <2>3, <2>4, <2>5, <3>1, Zenon
    <3>3. q.ok
      BY <2>2, <3>2, RoundOk, Zenon
    <3>4. Written(i, ads, lo, h + 1, t0, u)
      BY <2>2, <3>2, <3>3, WrittenMore, Zenon
    <3> QED BY <2>2, <3>1, <3>4, Zenon
  <2> QED BY <1>6, <2>2, <2>5, Zenon
<1>9. U = lo .. n
  BY <1>5, <1>7, <1>8, Induct, Zenon
<1>10. t = w[n] /\ t \in Trans
  BY <1>1, <1>3, <1>4, <1>5, Zenon
<1> QED BY <1>3, <1>5, <1>6, <1>9, <1>10, Zenon

-----------------------------------------------------------------------------
(* Where the blocks of a write lie. *)

\* The blocks lo .. hi of a write of n units at off, in a file of size units.
Span(off, n, size, lo, hi) ==
    /\ lo \in Nat /\ hi \in Nat /\ lo <= hi /\ hi < MAXFILE
    /\ \A bn \in Nat : bn \in lo .. hi => bn * BSIZE < off + n
    /\ \A bn \in Nat : bn * BSIZE < off + n => bn * BSIZE < size \/ bn \in lo .. hi

LEMMA SpanIs ==
    ASSUME NEW off \in Nat, NEW n \in Nat \ {0}, NEW size \in Nat, off <= size,
           off + n <= MAXFILE * BSIZE,
           NEW lo, lo = off \div BSIZE, NEW hi, hi = (off + n - 1) \div BSIZE
    PROVE  Span(off, n, size, lo, hi)
<1>1. PICK end \in Nat : end = off + n - 1
  OBVIOUS
<1>2. lo \in Nat /\ lo * BSIZE <= off /\ off < (lo + 1) * BSIZE
  BY BlockOf, Zenon
<1>3. hi \in Nat /\ hi * BSIZE <= end /\ end < (hi + 1) * BSIZE
  BY <1>1, BlockOf, Zenon
<1>4. BSIZE \in Nat \ {0} /\ MAXFILE \in Nat
  BY InodeAssumption, Numbers, Zenon
<1>5. \A a \in Nat : a * BSIZE \in Nat /\ (a + 1) * BSIZE = a * BSIZE + BSIZE
  BY Ordered, Zenon
<1>6. \A a, b \in Nat : a < b => (a + 1) * BSIZE <= b * BSIZE
  BY Ordered, Zenon
<1>7. \A a, b \in Nat : a <= b => a * BSIZE <= b * BSIZE
  BY Ordered, Zenon
<1>8. lo <= hi
  <2> SUFFICES ASSUME hi < lo PROVE FALSE
    BY <1>2, <1>3
  <2>1. (hi + 1) * BSIZE <= lo * BSIZE
    BY <1>2, <1>3, <1>6, Zenon
  <2>2. (hi + 1) * BSIZE \in Nat /\ lo * BSIZE \in Nat
    BY <1>2, <1>3, <1>5
  <2> QED BY <1>1, <1>2, <1>3, <2>1, <2>2
<1>9. hi < MAXFILE
  <2> SUFFICES ASSUME MAXFILE <= hi PROVE FALSE
    BY <1>3, <1>4
  <2>1. MAXFILE * BSIZE <= hi * BSIZE
    BY <1>3, <1>4, <1>7, Zenon
  <2>2. MAXFILE * BSIZE \in Nat /\ hi * BSIZE \in Nat
    BY <1>3, <1>4, <1>5, Zenon
  <2> QED BY <1>1, <1>3, <2>1, <2>2
<1>10. ASSUME NEW bn \in Nat, bn \in lo .. hi PROVE bn * BSIZE < off + n
  <2>1. bn * BSIZE <= hi * BSIZE
    BY <1>3, <1>7, <1>10
  <2>2. bn * BSIZE \in Nat /\ hi * BSIZE \in Nat
    BY <1>3, <1>5, Zenon
  <2> QED BY <1>1, <1>3, <2>1, <2>2
<1>11. ASSUME NEW bn \in Nat, bn * BSIZE < off + n PROVE bn * BSIZE < size \/ bn \in lo .. hi
  <2>1. CASE bn < lo
    <3>1. (bn + 1) * BSIZE <= lo * BSIZE
      BY <1>2, <1>6, <2>1, Zenon
    <3>2. bn * BSIZE \in Nat /\ lo * BSIZE \in Nat /\ (bn + 1) * BSIZE = bn * BSIZE + BSIZE
      BY <1>2, <1>5, Zenon
    <3> QED BY <1>2, <1>4, <3>1, <3>2
  <2>2. CASE bn > hi
    <3>1. (hi + 1) * BSIZE <= bn * BSIZE
      BY <1>3, <1>6, <2>2, Zenon
    <3>2. bn * BSIZE \in Nat /\ (hi + 1) * BSIZE \in Nat
      BY <1>3, <1>5
    <3> QED BY <1>1, <1>3, <1>11, <3>1, <3>2
  <2>3. bn < lo \/ bn > hi \/ bn \in lo .. hi
    BY <1>2, <1>3
  <2> QED BY <2>1, <2>2, <2>3, Zenon
<1> QED BY <1>2, <1>3, <1>8, <1>9, <1>10, <1>11, Zenon DEF Span

\* A chunk of filewrite() lies in few enough blocks for the log.
LEMMA ChunkFits ==
    ASSUME NEW off \in Nat, NEW n \in 1 .. MaxChunk,
           NEW lo, lo = off \div BSIZE, NEW hi, hi = (off + n - 1) \div BSIZE
    PROVE  lo \in Nat /\ hi \in Nat /\ hi - lo + 4 <= LOGSIZE - 1
<1>1. PICK m : m = (LOGSIZE - 4) \div 2
  BY Zenon
<1>2. LOGSIZE \in Nat /\ LOGSIZE - 4 \in Nat /\ BSIZE \in Nat \ {0}
  BY InodeAssumption
<1>3. m \in Nat /\ 2 * m <= LOGSIZE - 4
  BY <1>1, <1>2
<1>4. (LOGSIZE - 1 - 1 - 2) = LOGSIZE - 4
  BY <1>2
<1>5. MaxChunk = m * BSIZE
  BY <1>1, <1>4, Zenon DEF MaxChunk
<1>6. n \in Nat \ {0} /\ n <= m * BSIZE /\ m * BSIZE \in Nat
  BY <1>2, <1>3, <1>5
<1>7. m # 0
  BY <1>2, <1>6
<1>8. PICK end \in Nat : end = off + n - 1
  BY <1>6
<1>9. lo \in Nat /\ lo * BSIZE <= off /\ off < (lo + 1) * BSIZE
  BY BlockOf, Zenon
<1>10. hi \in Nat /\ hi * BSIZE <= end /\ end < (hi + 1) * BSIZE
  BY <1>8, BlockOf, Zenon
<1>11. hi - lo <= m
  <2> SUFFICES ASSUME lo + 1 + m <= hi PROVE FALSE
    BY <1>3, <1>9, <1>10
  <2>1. lo + 1 \in Nat /\ lo + 1 + m \in Nat
    BY <1>3, <1>9
  <2>2. (lo + 1 + m) * BSIZE <= hi * BSIZE
    BY <1>10, <2>1, Ordered, Zenon
  <2>3. (lo + 1 + m) * BSIZE = (lo + 1) * BSIZE + m * BSIZE
    BY <1>2, <1>3, <1>9
  <2>4. (lo + 1) * BSIZE \in Nat /\ hi * BSIZE \in Nat
    BY <1>10, <2>1, Ordered, Zenon
  <2> QED BY <1>6, <1>8, <1>9, <1>10, <2>2, <2>3, <2>4
<1> QED BY <1>2, <1>3, <1>7, <1>9, <1>10, <1>11

\* One element more.
LEMMA AddOne ==
    ASSUME NEW S, IsFiniteSet(S), NEW k \in Int, Cardinality(S) <= k, NEW x
    PROVE  /\ IsFiniteSet(S \cup {x}) /\ Cardinality(S \cup {x}) \in Nat
           /\ Cardinality(S \cup {x}) <= k + 1
<1>1. IsFiniteSet(S \cup {x})
  BY FS_AddElement, Zenon
<1>2. Cardinality(S) \in Nat /\ Cardinality(S \cup {x}) \in Nat
  BY <1>1, FS_CardinalityType, Zenon
<1>3. Cardinality(S \cup {x}) = IF x \in S THEN Cardinality(S) ELSE Cardinality(S) + 1
  BY FS_AddElement, Zenon
<1> QED BY <1>1, <1>2, <1>3

\* No more is logged than the bitmap, the inode, the indirect block and one block
\* for each block of the write.
Covered(S, x, y, z, v, i, lo, hi) ==
    \A e \in S : \/ e \in {x, y, z}
                 \/ \E bn \in lo .. hi : e = <<"block", v[<<i, Slot(bn)>>]>>

LEMMA LoggedFew ==
    ASSUME NEW S, NEW x, NEW y, NEW z, NEW v, NEW i, NEW lo \in Nat, NEW hi \in Nat, lo <= hi,
           Covered(S, x, y, z, v, i, lo, hi)
    PROVE  /\ IsFiniteSet(S) /\ Cardinality(S) \in Nat
           /\ Cardinality(S) <= hi - lo + 4
<1> DEFINE f == [bn \in lo .. hi |-> <<"block", v[<<i, Slot(bn)>>]>>]
           T == {f[bn] : bn \in lo .. hi}
<1>1. IsFiniteSet(lo .. hi) /\ Cardinality(lo .. hi) = hi - lo + 1
  BY FS_Interval
<1>2. f \in Surjection(lo .. hi, T)
  BY Zenon DEF Surjection
<1>3. \A bn \in lo .. hi : f[bn] = <<"block", v[<<i, Slot(bn)>>]>>
  BY Zenon
<1> HIDE DEF f
<1> HIDE DEF T
<1>4. PICK h \in Int : h = hi - lo + 1
  OBVIOUS
<1>5. IsFiniteSet(T) /\ Cardinality(T) <= h
  <2>1. IsFiniteSet(T) /\ Cardinality(T) <= Cardinality(lo .. hi)
    BY <1>1, <1>2, FS_Surjection, Zenon
  <2> QED BY <1>1, <1>4, <2>1, Zenon
<1>6. PICK A : A = T \cup {x}
  BY Zenon
<1>7. PICK k \in Int : k = h + 1 /\ IsFiniteSet(A) /\ Cardinality(A) <= k
  <2>1. IsFiniteSet(A) /\ Cardinality(A) <= h + 1
    BY <1>5, <1>6, AddOne, Zenon
  <2> QED BY <2>1
<1>8. PICK B : B = A \cup {y}
  BY Zenon
<1>9. PICK l \in Int : l = k + 1 /\ IsFiniteSet(B) /\ Cardinality(B) <= l
  <2>1. IsFiniteSet(B) /\ Cardinality(B) <= k + 1
    BY <1>7, <1>8, AddOne, Zenon
  <2> QED BY <2>1
<1>10. PICK C : C = B \cup {z}
  BY Zenon
<1>11. IsFiniteSet(C) /\ Cardinality(C) \in Nat /\ Cardinality(C) <= hi - lo + 4
  <2>1. IsFiniteSet(C) /\ Cardinality(C) \in Nat /\ Cardinality(C) <= l + 1
    BY <1>9, <1>10, AddOne, Zenon
  <2> QED BY <1>4, <1>7, <1>9, <2>1
<1>12. S \in SUBSET C
  <2>1. \A e \in S : e \in {x, y, z} \/ e \in T
    BY <1>3, Zenon DEF T, Covered
  <2> QED BY <1>6, <1>8, <1>10, <2>1, Zenon
<1> QED BY <1>11, <1>12, FS_Subset, FS_CardinalityType

-----------------------------------------------------------------------------
(* The disk between transactions. *)

Ino == [alloc : BOOLEAN, size : Nat, addrs : Addrs]
AddrsOf(dn) == [j \in Files |-> dn[j].addrs]
DiskMap(dn, tbl) == AddrMap(AddrsOf(dn), tbl)

\* The bitmap is exact, files have no holes and nothing past their size, and a free
\* inode is empty.
Filled0(v, dn) ==
    \A i \in Files, bn \in 0 .. MAXFILE - 1 : v[<<i, Slot(bn)>>] # 0 <=> bn * BSIZE < dn[i].size
Sound(dn, tbl, bts) ==
    /\ dn \in [Files -> Ino] /\ tbl \in Tables /\ bts \in SUBSET Blocks
    /\ Exact(DiskMap(dn, tbl), bts)
    /\ Filled0(DiskMap(dn, tbl), dn)
    /\ \A i \in Files : ~dn[i].alloc => dn[i] = Empty(FALSE)

LEMMA InoFields ==
    ASSUME NEW ip \in Ino
    PROVE  /\ ip.alloc \in BOOLEAN /\ ip.size \in Nat /\ ip.addrs \in Addrs
           /\ ip = [alloc |-> ip.alloc, size |-> ip.size, addrs |-> ip.addrs]
BY Zenon DEF Ino

LEMMA EmptyIs ==
    ASSUME NEW a \in BOOLEAN
    PROVE  /\ Empty(a) \in Ino /\ Empty(a).alloc = a /\ Empty(a).size = 0
           /\ \A k \in 0 .. NDIRECT : Empty(a).addrs[k] = 0
BY Numbers, Zenon DEF Empty, Ino, Addrs

LEMMA AddrsOfIs ==
    ASSUME NEW dn \in [Files -> Ino]
    PROVE  AddrsOf(dn) \in [Files -> Addrs] /\ \A j \in Files : AddrsOf(dn)[j] = dn[j].addrs
<1>1. \A j \in Files : dn[j].addrs \in Addrs
  BY InoFields, Zenon
<1> QED BY <1>1, Zenon DEF AddrsOf

LEMMA DiskMapIs ==
    ASSUME NEW dn \in [Files -> Ino], NEW tbl \in Tables
    PROVE  /\ DiskMap(dn, tbl) \in [Places -> 0 .. Size]
           /\ \A j \in Files, k \in Slots :
                 <<j, k>> \in Places /\ DiskMap(dn, tbl)[<<j, k>>] = Val(dn[j].addrs, tbl, k)
<1>1. PICK ads \in [Files -> Addrs] : ads = AddrsOf(dn)
  BY AddrsOfIs, Zenon
<1>2. DiskMap(dn, tbl) = AddrMap(ads, tbl)
  BY <1>1, Zenon DEF DiskMap
<1>3. \A j \in Files : ads[j] = dn[j].addrs
  BY <1>1, AddrsOfIs, Zenon
<1> QED BY <1>2, <1>3, AddrMapIs, Zenon

\* Functions that agree everywhere are equal.
LEMMA Same ==
    ASSUME NEW S, NEW T, NEW f \in [S -> T], NEW g \in [S -> T], \A x \in S : f[x] = g[x]
    PROVE  f = g
OBVIOUS

\* Inode i gets other addresses.
NewIno(dn, i, ip, dx) ==
    /\ dx \in [Files -> Ino] /\ dx[i] = ip /\ \A j \in Files \ {i} : dx[j] = dn[j]
    /\ AddrsOf(dx) = [AddrsOf(dn) EXCEPT ![i] = ip.addrs]
Put(dn, i, ip) == [dn EXCEPT ![i] = ip]

LEMMA AddrsOfNew ==
    ASSUME NEW dn \in [Files -> Ino], NEW i \in Files, NEW ip \in Ino,
           NEW dx, dx = Put(dn, i, ip)
    PROVE  NewIno(dn, i, ip, dx)
<1>1. dx \in [Files -> Ino] /\ dx[i] = ip /\ \A j \in Files \ {i} : dx[j] = dn[j]
  BY Zenon DEF Put
<1>2. PICK a, b : a = AddrsOf(dx) /\ b = [AddrsOf(dn) EXCEPT ![i] = ip.addrs]
  BY Zenon
<1>3. a \in [Files -> Addrs] /\ \A j \in Files : a[j] = dx[j].addrs
  BY <1>1, <1>2, AddrsOfIs, Zenon
<1>4. PICK c \in [Files -> Addrs] : c = AddrsOf(dn) /\ \A j \in Files : c[j] = dn[j].addrs
  BY AddrsOfIs, Zenon
<1>5. PICK d \in Addrs : d = ip.addrs
  BY InoFields, Zenon
<1>6. b = [c EXCEPT ![i] = d]
  BY <1>2, <1>4, <1>5, Zenon
<1>7. b \in [Files -> Addrs] /\ b[i] = d /\ \A j \in Files \ {i} : b[j] = c[j]
  BY <1>6, Zenon
<1>8. ASSUME NEW j \in Files PROVE a[j] = b[j]
  <2>1. CASE j = i
    BY <1>1, <1>3, <1>5, <1>7, <2>1, Zenon
  <2>2. CASE j # i
    <3>1. j \in Files \ {i}
      BY <2>2, Zenon
    <3>2. dx[j] = dn[j] /\ b[j] = c[j]
      BY <1>1, <1>7, <3>1, Zenon
    <3> QED BY <1>3, <1>4, <3>2, Zenon
  <2> QED BY <2>1, <2>2, Zenon
<1>9. a = b
  BY <1>3, <1>7, <1>8, Same
<1> QED BY <1>1, <1>2, <1>9, Zenon DEF NewIno

\* The inode after writei().
WrittenIno(ip, ads, size) == [alloc |-> ip.alloc, size |-> size, addrs |-> ads]

\* A transaction of writei() that starts on a sound disk.
Starts(t0, ip, tbl, bts) ==
    /\ t0 \in Trans /\ t0.addrs = ip.addrs /\ t0.bits = bts /\ t0.table = tbl /\ t0.logged = {}

\* What writei() leaves: a sound disk if it saves the inode, an unchanged one if the
\* file does not grow.
WriteLeaves(dn, tbl, bts, i, off, n, lo, hi, t) ==
    /\ t \in Trans
    /\ off + n > dn[i].size =>
          Sound(Put(dn, i, WrittenIno(dn[i], t.addrs, off + n)), t.table, t.bits)
    /\ ~(off + n > dn[i].size) => t.addrs = dn[i].addrs /\ t.table = tbl /\ t.bits = bts
    /\ \E v : \A e \in t.logged :
          \/ e \in {<<"bitmap">>, <<"block", v[<<i, NDIRECT>>]>>}
          \/ \E bn \in lo .. hi : e = <<"block", v[<<i, Slot(bn)>>]>>

LEMMA WriteSound ==
    ASSUME NEW dn, NEW tbl, NEW bts, Sound(dn, tbl, bts), NEW i \in Files, dn[i].alloc,
           NEW off \in Nat, NEW n \in Nat \ {0}, NEW lo, NEW hi, Span(off, n, dn[i].size, lo, hi),
           NEW t0, Starts(t0, dn[i], tbl, bts), NEW t, t = Writing(t0, lo, hi)[hi + 1], t.ok
    PROVE  WriteLeaves(dn, tbl, bts, i, off, n, lo, hi, t)
<1>1. /\ dn \in [Files -> Ino] /\ tbl \in Tables /\ bts \in SUBSET Blocks
      /\ Exact(DiskMap(dn, tbl), bts) /\ Filled0(DiskMap(dn, tbl), dn)
      /\ \A j \in Files : ~dn[j].alloc => dn[j] = Empty(FALSE)
  BY Zenon DEF Sound
<1>2. /\ lo \in Nat /\ hi \in Nat /\ lo <= hi /\ hi < MAXFILE
      /\ \A bn \in Nat : bn \in lo .. hi => bn * BSIZE < off + n
      /\ \A bn \in Nat : bn * BSIZE < off + n => bn * BSIZE < dn[i].size \/ bn \in lo .. hi
  BY Zenon DEF Span
<1>3. /\ t0 \in Trans /\ t0.addrs = dn[i].addrs /\ t0.bits = bts /\ t0.table = tbl
      /\ t0.logged = {}
  BY Zenon DEF Starts
<1>4. PICK ads \in [Files -> Addrs] : ads = AddrsOf(dn) /\ ads[i] = dn[i].addrs
  BY <1>1, AddrsOfIs, Zenon
<1>5. [ads EXCEPT ![i] = t0.addrs] = ads
  BY <1>3, <1>4, Zenon
<1>6. PICK v0 : v0 = DiskMap(dn, tbl) /\ v0 = MapOf(i, ads, t0)
  BY <1>3, <1>4, <1>5, Zenon DEF DiskMap, MapOf
<1>7. Cons(i, ads, t0)
  BY <1>1, <1>3, <1>6, Zenon DEF Cons
<1>8. t \in Trans /\ Written(i, ads, lo, hi + 1, t0, t)
  BY <1>2, <1>3, <1>7, WriteGood, Zenon
<1>9. PICK v : v = MapOf(i, ads, t)
  BY Zenon
<1>10. Exact(v, t.bits) /\ Wrote(i, lo, hi + 1, t0, t, v0, v)
  BY <1>6, <1>8, <1>9, Zenon DEF Written, Cons
<1>11. lo .. (hi + 1) - 1 = lo .. hi
  BY <1>2
<1>12. /\ \A j \in Files \ {i}, l \in Slots : v[<<j, l>>] = v0[<<j, l>>]
       /\ \A bn \in 0 .. MAXFILE - 1 :
             v[<<i, Slot(bn)>>] # 0 <=> (v0[<<i, Slot(bn)>>] # 0 \/ bn \in lo .. hi)
       /\ (\A bn \in lo .. hi : v0[<<i, Slot(bn)>>] # 0) =>
             t.addrs = t0.addrs /\ t.bits = t0.bits /\ t.table = t0.table
       /\ \A y \in t.logged :
             \/ y = <<"bitmap">>
             \/ v[<<i, NDIRECT>>] # 0 /\ y = <<"block", v[<<i, NDIRECT>>]>>
             \/ \E bn \in lo .. hi : y = <<"block", v[<<i, Slot(bn)>>]>>
  BY <1>10, <1>11, Zenon DEF Wrote
<1>13. \A j \in Files, bn \in 0 .. MAXFILE - 1 :
          v0[<<j, Slot(bn)>>] # 0 <=> bn * BSIZE < dn[j].size
  BY <1>1, <1>6, Zenon DEF Filled0
<1>14. /\ dn[i].size \in Nat /\ t.addrs \in Addrs /\ t.bits \in SUBSET Blocks
       /\ t.table \in Tables /\ dn[i].alloc \in BOOLEAN
  BY <1>1, <1>8, InoFields, TransFields, Zenon
<1>15. \A bn \in 0 .. MAXFILE - 1 : bn \in Nat /\ bn * BSIZE \in Nat
  <2>1. \A bn \in 0 .. MAXFILE - 1 : bn \in Nat
    BY Numbers
  <2> QED BY <2>1, Ordered, Zenon
<1>16. ASSUME off + n > dn[i].size
       PROVE  Sound(Put(dn, i, WrittenIno(dn[i], t.addrs, off + n)), t.table, t.bits)
  <2>1. PICK size \in Nat : size = off + n
    OBVIOUS
  <2>2. PICK ip : ip = WrittenIno(dn[i], t.addrs, size)
    BY Zenon
  <2>3. ip \in Ino /\ ip.addrs = t.addrs /\ ip.size = size /\ ip.alloc = dn[i].alloc
    BY <1>14, <2>2, Zenon DEF WrittenIno, Ino
  <2>4. PICK dx : dx = Put(dn, i, ip)
    BY Zenon
  <2>5. /\ dx \in [Files -> Ino] /\ dx[i] = ip /\ \A j \in Files \ {i} : dx[j] = dn[j]
        /\ AddrsOf(dx) = [ads EXCEPT ![i] = t.addrs]
    <3>1. NewIno(dn, i, ip, dx)
      BY <1>1, <2>3, <2>4, AddrsOfNew, Zenon
    <3> QED BY <1>4, <2>3, <3>1, Zenon DEF NewIno
  <2>6. DiskMap(dx, t.table) = v
    BY <1>9, <2>5, Zenon DEF DiskMap, MapOf
  <2>7. ASSUME NEW j \in Files, NEW bn \in 0 .. MAXFILE - 1
        PROVE  v[<<j, Slot(bn)>>] # 0 <=> bn * BSIZE < dx[j].size
    <3>1. CASE j # i
      <4>1. v[<<j, Slot(bn)>>] = v0[<<j, Slot(bn)>>]
        BY <1>12, <3>1, SlotIs, Zenon
      <4> QED BY <1>13, <2>5, <3>1, <4>1, Zenon
    <3>2. CASE j = i
      <4>1. dx[j].size = size
        BY <2>3, <2>5, <3>2, Zenon
      <4>2. v[<<j, Slot(bn)>>] # 0 <=> (bn * BSIZE < dn[i].size \/ bn \in lo .. hi)
        BY <1>12, <1>13, <3>2, Zenon
      <4>3. bn \in lo .. hi => bn * BSIZE < size
        BY <1>2, <1>15, <2>1, Zenon
      <4>4. bn * BSIZE < size => bn * BSIZE < dn[i].size \/ bn \in lo .. hi
        BY <1>2, <1>15, <2>1, Zenon
      <4>5. bn * BSIZE < dn[i].size => bn * BSIZE < size
        BY <1>14, <1>15, <1>16, <2>1
      <4> QED BY <4>1, <4>2, <4>3, <4>4, <4>5, Zenon
    <3> QED BY <3>1, <3>2, Zenon
  <2>8. \A j \in Files : ~dx[j].alloc => dx[j] = Empty(FALSE)
    BY <1>1, <2>3, <2>5, Zenon
  <2>9. Filled0(v, dx)
    BY <2>7, Zenon DEF Filled0
  <2>10. Sound(dx, t.table, t.bits)
    BY <1>10, <1>14, <2>5, <2>6, <2>8, <2>9, Zenon DEF Sound
  <2> QED BY <2>1, <2>2, <2>4, <2>10, Zenon
<1>17. ASSUME ~(off + n > dn[i].size)
       PROVE  t.addrs = dn[i].addrs /\ t.table = tbl /\ t.bits = bts
  <2>1. ASSUME NEW bn \in lo .. hi PROVE v0[<<i, Slot(bn)>>] # 0
    <3>1. bn \in 0 .. MAXFILE - 1 /\ bn \in Nat
      BY <1>2, Numbers
    <3>2. bn * BSIZE < off + n
      BY <1>2, <3>1, Zenon
    <3>3. bn * BSIZE < dn[i].size
      BY <1>14, <1>15, <1>17, <3>1, <3>2
    <3> QED BY <1>13, <3>1, <3>3, Zenon
  <2> QED BY <1>3, <1>12, <2>1, Zenon
<1>18. \A e \in t.logged :
          \/ e \in {<<"bitmap">>, <<"block", v[<<i, NDIRECT>>]>>}
          \/ \E bn \in lo .. hi : e = <<"block", v[<<i, Slot(bn)>>]>>
  BY <1>12, Zenon
<1> QED BY <1>8, <1>16, <1>17, <1>18, Zenon DEF WriteLeaves

-----------------------------------------------------------------------------
(* ialloc(), and itrunc() with iput(). *)

\* A free inode is taken.
LEMMA AllocSound ==
    ASSUME NEW dn, NEW tbl, NEW bts, Sound(dn, tbl, bts), NEW i \in Files, ~dn[i].alloc,
           NEW dx, dx = Put(dn, i, Empty(TRUE))
    PROVE  Sound(dx, tbl, bts)
<1>1. /\ dn \in [Files -> Ino] /\ tbl \in Tables /\ bts \in SUBSET Blocks
      /\ Exact(DiskMap(dn, tbl), bts) /\ Filled0(DiskMap(dn, tbl), dn)
      /\ \A j \in Files : ~dn[j].alloc => dn[j] = Empty(FALSE)
  BY Zenon DEF Sound
<1>2. PICK ip : ip = Empty(TRUE) /\ ip \in Ino /\ ip.alloc = TRUE /\ ip.size = 0
                /\ ip.addrs = Empty(FALSE).addrs
  BY EmptyIs DEF Empty
<1>3. /\ dx \in [Files -> Ino] /\ dx[i] = ip /\ \A j \in Files \ {i} : dx[j] = dn[j]
      /\ AddrsOf(dx) = [AddrsOf(dn) EXCEPT ![i] = ip.addrs]
  <2>1. NewIno(dn, i, ip, dx)
    BY <1>1, <1>2, AddrsOfNew, Zenon
  <2> QED BY <2>1, Zenon DEF NewIno
<1>4. dn[i] = Empty(FALSE)
  BY <1>1, Zenon
<1>5. PICK ads \in [Files -> Addrs] : ads = AddrsOf(dn) /\ ads[i] = ip.addrs
  BY <1>1, <1>2, <1>4, AddrsOfIs
<1>6. AddrsOf(dx) = AddrsOf(dn)
  <2>1. [ads EXCEPT ![i] = ip.addrs] = ads
    BY <1>5, Zenon
  <2> QED BY <1>3, <1>5, <2>1, Zenon
<1>7. DiskMap(dx, tbl) = DiskMap(dn, tbl)
  BY <1>6, Zenon DEF DiskMap
<1>8. \A j \in Files : dx[j].size = dn[j].size
  <2>1. dn[i].size = 0
    BY <1>4, EmptyIs, Zenon
  <2> QED BY <1>2, <1>3, <2>1, Zenon
<1>9. Filled0(DiskMap(dn, tbl), dx)
  BY <1>1, <1>8, Zenon DEF Filled0
<1>10. \A j \in Files : ~dx[j].alloc => dx[j] = Empty(FALSE)
  BY <1>1, <1>2, <1>3, Zenon
<1> QED BY <1>1, <1>3, <1>7, <1>9, <1>10, Zenon DEF Sound

\* The blocks of inode i.
BlocksOf(v, i) == {v[<<i, k>>] : k \in {s \in Slots : v[<<i, s>>] # 0}}

\* All blocks of inode i are given back.
LEMMA FreeSound ==
    ASSUME NEW dn, NEW tbl, NEW bts, Sound(dn, tbl, bts), NEW i \in Files,
           NEW dx, dx = Put(dn, i, Empty(FALSE)),
           NEW gone, gone = BlocksOf(DiskMap(dn, tbl), i)
    PROVE  Sound(dx, tbl, bts \ gone)
<1>1. /\ dn \in [Files -> Ino] /\ tbl \in Tables /\ bts \in SUBSET Blocks
      /\ Exact(DiskMap(dn, tbl), bts) /\ Filled0(DiskMap(dn, tbl), dn)
      /\ \A j \in Files : ~dn[j].alloc => dn[j] = Empty(FALSE)
  BY Zenon DEF Sound
<1>2. PICK ip : ip = Empty(FALSE) /\ ip \in Ino /\ ip.alloc = FALSE /\ ip.size = 0
                /\ \A k \in 0 .. NDIRECT : ip.addrs[k] = 0
  BY EmptyIs, Zenon
<1>3. dx \in [Files -> Ino] /\ dx[i] = ip /\ \A j \in Files \ {i} : dx[j] = dn[j]
  <2>1. NewIno(dn, i, ip, dx)
    BY <1>1, <1>2, AddrsOfNew, Zenon
  <2> QED BY <2>1, Zenon DEF NewIno
<1>4. PICK v, w : v = DiskMap(dn, tbl) /\ w = DiskMap(dx, tbl)
  BY Zenon
<1>5. /\ \A j \in Files, k \in Slots :
            <<j, k>> \in Places /\ v[<<j, k>>] = Val(dn[j].addrs, tbl, k)
      /\ \A j \in Files, k \in Slots : w[<<j, k>>] = Val(dx[j].addrs, tbl, k)
  BY <1>1, <1>3, <1>4, DiskMapIs, Zenon
<1>6. \A k \in Slots : w[<<i, k>>] = 0
  <2>1. PICK a : a = ip.addrs
    BY Zenon
  <2>2. \A k \in 0 .. NDIRECT : a[k] = 0
    BY <1>2, <2>1, Zenon
  <2>3. \A k \in Slots : Val(a, tbl, k) = 0
    BY <2>2, Numbers DEF Val, Slots
  <2> QED BY <1>3, <1>5, <2>1, <2>3, Zenon
<1>7. ASSUME NEW j \in Files \ {i}, NEW k \in Slots PROVE w[<<j, k>>] = v[<<j, k>>]
  <2>1. dx[j] = dn[j] /\ j \in Files
    BY <1>3, Zenon
  <2> QED BY <1>5, <2>1, Zenon
<1>8. /\ \A x, y \in Places : v[x] # 0 /\ v[x] = v[y] => x = y
      /\ \A x \in Places : v[x] # 0 => v[x] \in bts
      /\ \A b \in bts : \E x \in Places : v[x] = b
  BY <1>1, <1>4, Zenon DEF Exact
<1>9. \A x \in Places : \E j \in Files, k \in Slots : x = <<j, k>>
  BY DEF Places
<1>10. \A x \in Places : w[x] # 0 => w[x] = v[x] /\ \A k \in Slots : x # <<i, k>>
  <2> SUFFICES ASSUME NEW x \in Places, w[x] # 0
               PROVE  w[x] = v[x] /\ \A k \in Slots : x # <<i, k>>
    BY Zenon
  <2>1. PICK j \in Files, k \in Slots : x = <<j, k>>
    BY <1>9, Zenon
  <2>2. j # i
    BY <1>6, <2>1, Zenon
  <2>3. j \in Files \ {i}
    BY <2>2, Zenon
  <2>4. w[x] = v[x]
    BY <1>7, <2>1, <2>3, Zenon
  <2>5. \A l \in Slots : x # <<i, l>>
    BY <2>1, <2>2, Zenon
  <2> QED BY <2>4, <2>5, Zenon
<1>11. \A b : b \in gone <=> \E k \in Slots : v[<<i, k>>] # 0 /\ b = v[<<i, k>>]
  BY <1>4, Zenon DEF BlocksOf
<1>12. \A x, y \in Places : w[x] # 0 /\ w[x] = w[y] => x = y
  BY <1>8, <1>10, Zenon
<1>13. ASSUME NEW x \in Places, w[x] # 0 PROVE w[x] \in bts \ gone
  <2>1. w[x] = v[x] /\ v[x] \in bts /\ v[x] # 0
    BY <1>8, <1>10, <1>13, Zenon
  <2>2. ASSUME NEW k \in Slots, v[<<i, k>>] # 0, v[x] = v[<<i, k>>] PROVE FALSE
    <3>1. <<i, k>> \in Places
      BY <1>5, Zenon
    <3>2. x = <<i, k>>
      BY <1>8, <2>2, <3>1, Zenon
    <3> QED BY <1>10, <1>13, <3>2, Zenon
  <2>3. v[x] \notin gone
    BY <1>11, <2>2, Zenon
  <2> QED BY <2>1, <2>3, Zenon
<1>14. ASSUME NEW b \in bts \ gone PROVE \E x \in Places : w[x] = b
  <2>1. PICK x \in Places : v[x] = b
    BY <1>8, <1>14, Zenon
  <2>2. PICK j \in Files, k \in Slots : x = <<j, k>>
    BY <1>9, Zenon
  <2>3. b # 0 /\ b \notin gone
    BY <1>1, <1>14, Numbers, Zenon
  <2>4. j # i
    BY <1>11, <2>1, <2>2, <2>3, Zenon
  <2>5. j \in Files \ {i}
    BY <2>4, Zenon
  <2>6. w[x] = b
    BY <1>7, <2>1, <2>2, <2>5, Zenon
  <2> QED BY <2>6, Zenon
<1>15. Exact(w, bts \ gone)
  BY <1>12, <1>13, <1>14, Zenon DEF Exact
<1>16. ASSUME NEW j \in Files, NEW bn \in 0 .. MAXFILE - 1
       PROVE  w[<<j, Slot(bn)>>] # 0 <=> bn * BSIZE < dx[j].size
  <2>1. Slot(bn) \in Slots
    BY SlotIs, Zenon
  <2>2. CASE j = i
    <3>1. w[<<j, Slot(bn)>>] = 0 /\ dx[j].size = 0
      BY <1>2, <1>3, <1>6, <2>1, <2>2, Zenon
    <3>2. bn \in Nat
      BY Numbers
    <3>3. bn * BSIZE \in Nat
      BY <3>2, Ordered, Zenon
    <3>4. ~(bn * BSIZE < 0)
      BY <3>3
    <3> QED BY <3>1, <3>4, Zenon
  <2>3. CASE j # i
    <3>1. j \in Files \ {i}
      BY <2>3, Zenon
    <3>2. w[<<j, Slot(bn)>>] = v[<<j, Slot(bn)>>] /\ dx[j] = dn[j]
      BY <1>3, <1>7, <2>1, <3>1, Zenon
    <3>3. v[<<j, Slot(bn)>>] # 0 <=> bn * BSIZE < dn[j].size
      BY <1>1, <1>4, Zenon DEF Filled0
    <3> QED BY <3>2, <3>3, Zenon
  <2> QED BY <2>2, <2>3, Zenon
<1>17. Filled0(w, dx)
  BY <1>16, Zenon DEF Filled0
<1>18. \A j \in Files : ~dx[j].alloc => dx[j] = Empty(FALSE)
  BY <1>1, <1>2, <1>3, Zenon
<1>19. bts \ gone \in SUBSET Blocks
  BY <1>1, Zenon
<1> QED BY <1>1, <1>3, <1>4, <1>15, <1>17, <1>18, <1>19, Zenon DEF Sound

\* What itrunc() gives back are the blocks of the inode.
LEMMA TruncatedIs ==
    ASSUME table \in Tables, NEW dn \in [Files -> Ino], NEW i \in Files
    PROVE  Truncated(dn[i]) = BlocksOf(DiskMap(dn, table), i)
<1>1. PICK v : v = DiskMap(dn, table)
  BY Zenon
<1>2. PICK a \in Addrs : a = dn[i].addrs
  BY InoFields, Zenon
<1>3. \A k \in Slots : v[<<i, k>>] = Val(a, table, k)
  BY <1>1, <1>2, DiskMapIs, Zenon
<1>4. \A k \in 0 .. NDIRECT : k \in Slots /\ Val(a, table, k) = a[k]
  BY Numbers DEF Val
<1>5. \A k \in 0 .. NINDIRECT - 1 :
         /\ EntrySlot(k) \in Slots
         /\ a[NDIRECT] # 0 => Val(a, table, EntrySlot(k)) = table[a[NDIRECT]][k]
  BY Numbers DEF Val, EntrySlot, Slots
<1>6. \A s \in Slots : \/ s \in 0 .. NDIRECT
                       \/ \E k \in 0 .. NINDIRECT - 1 : s = EntrySlot(k)
  <2> SUFFICES ASSUME NEW s \in Slots, s \notin 0 .. NDIRECT
               PROVE  \E k \in 0 .. NINDIRECT - 1 : s = EntrySlot(k)
    BY Zenon
  <2>1. s - (NDIRECT + 1) \in 0 .. NINDIRECT - 1 /\ s = EntrySlot(s - (NDIRECT + 1))
    BY Numbers DEF Slots, EntrySlot
  <2> QED BY <2>1, Zenon
<1>7. \A k \in 0 .. NINDIRECT - 1 : a[NDIRECT] = 0 => Val(a, table, EntrySlot(k)) = 0
  BY Numbers DEF Val, EntrySlot
<1>8. \A b : b \in Truncated(dn[i]) <=>
               \/ \E k \in 0 .. NDIRECT : a[k] # 0 /\ b = a[k]
               \/ \E k \in 0 .. NINDIRECT - 1 :
                     /\ a[NDIRECT] # 0 /\ table[a[NDIRECT]][k] # 0
                     /\ b = table[a[NDIRECT]][k]
  BY <1>2, Zenon DEF Truncated, Direct, Indirect
<1>9. \A b : b \in BlocksOf(v, i) <=> \E k \in Slots : v[<<i, k>>] # 0 /\ b = v[<<i, k>>]
  BY Zenon DEF BlocksOf
<1>10. ASSUME NEW b \in Truncated(dn[i]) PROVE b \in BlocksOf(v, i)
  <2>1. ASSUME NEW k \in 0 .. NDIRECT, a[k] # 0, b = a[k] PROVE b \in BlocksOf(v, i)
    BY <1>3, <1>4, <1>9, <2>1, Zenon
  <2>2. ASSUME NEW k \in 0 .. NINDIRECT - 1, a[NDIRECT] # 0, table[a[NDIRECT]][k] # 0,
               b = table[a[NDIRECT]][k]
        PROVE  b \in BlocksOf(v, i)
    BY <1>3, <1>5, <1>9, <2>2, Zenon
  <2> QED BY <1>8, <1>10, <2>1, <2>2, Zenon
<1>11. ASSUME NEW b \in BlocksOf(v, i) PROVE b \in Truncated(dn[i])
  <2>1. PICK s \in Slots : v[<<i, s>>] # 0 /\ b = v[<<i, s>>]
    BY <1>9, <1>11, Zenon
  <2>2. b = Val(a, table, s) /\ b # 0
    BY <1>3, <2>1, Zenon
  <2>3. CASE s \in 0 .. NDIRECT
    BY <1>4, <1>8, <2>2, <2>3, Zenon
  <2>4. ASSUME NEW k \in 0 .. NINDIRECT - 1, s = EntrySlot(k) PROVE b \in Truncated(dn[i])
    BY <1>5, <1>7, <1>8, <2>2, <2>4, Zenon
  <2> QED BY <1>6, <2>3, <2>4, Zenon
<1>12. Truncated(dn[i]) = BlocksOf(v, i)
  BY <1>10, <1>11, Zenon
<1> QED BY <1>1, <1>12, Zenon

-----------------------------------------------------------------------------
(* The inductive invariant. *)

\* Copies in use are those of allocated inodes and equal them.
Copies(dn, cp, vl) ==
    /\ cp \in [Files -> Ino] /\ vl \in SUBSET Files
    /\ \A i \in vl : cp[i] = dn[i] /\ dn[i].alloc
Fits(lg) == IsFiniteSet(lg) /\ Cardinality(lg) \in Nat /\ Cardinality(lg) <= LOGSIZE - 1

IInv == Sound(dinode, table, bits) /\ Copies(dinode, inode, valid) /\ Fits(logged)

\* A transaction that logs only the inode, or the inode and the bitmap, fits.
LEMMA FewFit ==
    /\ Fits({})
    /\ \A x : Fits({x})
    /\ \A x, y : Fits({x} \cup {y})
<1>1. LOGSIZE \in Nat /\ LOGSIZE >= 4
  BY InodeAssumption, Zenon
<1>2. IsFiniteSet({}) /\ Cardinality({}) = 0
  BY FS_EmptySet, Zenon
<1>3. \A x : IsFiniteSet({x}) /\ Cardinality({x}) = 1
  BY FS_Singleton, Zenon
<1>4. ASSUME NEW x, NEW y
      PROVE  /\ IsFiniteSet({x} \cup {y}) /\ Cardinality({x} \cup {y}) \in Nat
             /\ Cardinality({x} \cup {y}) <= 1 + 1
  <2>1. PICK S : S = {x}
    BY Zenon
  <2>2. IsFiniteSet(S) /\ Cardinality(S) = 1
    BY <1>3, <2>1, Zenon
  <2>3. /\ IsFiniteSet(S \cup {y}) /\ Cardinality(S \cup {y}) \in Nat
        /\ Cardinality(S \cup {y}) <= 1 + 1
    BY <2>2, AddOne
  <2> QED BY <2>1, <2>3, Zenon
<1>5. Fits({})
  BY <1>1, <1>2 DEF Fits
<1>6. ASSUME NEW x PROVE Fits({x})
  <2>1. PICK S : S = {x}
    BY Zenon
  <2>2. IsFiniteSet(S) /\ Cardinality(S) = 1
    BY <1>3, <2>1, Zenon
  <2>3. Fits(S)
    BY <1>1, <2>2 DEF Fits
  <2> QED BY <2>1, <2>3, Zenon
<1>7. ASSUME NEW x, NEW y PROVE Fits({x} \cup {y})
  <2>1. PICK S : S = {x} \cup {y}
    BY Zenon
  <2>2. IsFiniteSet(S) /\ Cardinality(S) \in Nat /\ Cardinality(S) <= 1 + 1
    BY <1>4, <2>1, Zenon
  <2>3. Fits(S)
    BY <1>1, <2>2 DEF Fits
  <2> QED BY <2>1, <2>3, Zenon
<1> QED BY <1>5, <1>6, <1>7, Zenon

\* The disk of mkfs.
LEMMA InitHolds == Init => IInv
<1> SUFFICES ASSUME Init PROVE IInv
  BY Zenon
<1>1. /\ bits = {} /\ table = [b \in Blocks |-> ZeroTable]
      /\ dinode = [i \in Files |-> Empty(FALSE)] /\ inode = dinode /\ valid = {} /\ logged = {}
  BY Zenon DEF Init
<1>2. PICK ip : ip = Empty(FALSE) /\ ip \in Ino /\ ip.alloc = FALSE /\ ip.size = 0
                /\ \A k \in 0 .. NDIRECT : ip.addrs[k] = 0
  BY EmptyIs, Zenon
<1>3. dinode \in [Files -> Ino] /\ \A i \in Files : dinode[i] = ip
  BY <1>1, <1>2, Zenon
<1>4. table \in Tables
  BY <1>1, Numbers, Zenon DEF Tables, ZeroTable
<1>5. PICK v : v = DiskMap(dinode, table)
  BY Zenon
<1>6. \A j \in Files, k \in Slots : v[<<j, k>>] = 0
  <2>1. PICK a : a = ip.addrs
    BY Zenon
  <2>2. \A k \in 0 .. NDIRECT : a[k] = 0
    BY <1>2, <2>1, Zenon
  <2>3. \A k \in Slots : Val(a, table, k) = 0
    BY <2>2, Numbers DEF Val, Slots
  <2>4. \A j \in Files, k \in Slots : v[<<j, k>>] = Val(dinode[j].addrs, table, k)
    BY <1>3, <1>4, <1>5, DiskMapIs, Zenon
  <2> QED BY <1>3, <2>1, <2>3, <2>4, Zenon
<1>7. \A x \in Places : v[x] = 0
  BY <1>6 DEF Places
<1>8. Exact(v, bits)
  BY <1>1, <1>7, Zenon DEF Exact
<1>9. Filled0(v, dinode)
  <2> SUFFICES ASSUME NEW i \in Files, NEW bn \in 0 .. MAXFILE - 1
               PROVE  v[<<i, Slot(bn)>>] # 0 <=> bn * BSIZE < dinode[i].size
    BY Zenon DEF Filled0
  <2>1. v[<<i, Slot(bn)>>] = 0 /\ dinode[i].size = 0
    BY <1>2, <1>3, <1>6, SlotIs, Zenon
  <2>2. bn \in Nat
    BY Numbers
  <2>3. ~(bn * BSIZE < 0)
    BY <2>2, Ordered
  <2> QED BY <2>1, <2>3, Zenon
<1>10. Sound(dinode, table, bits)
  <2>1. bits \in SUBSET Blocks
    BY <1>1, Zenon
  <2> QED BY <1>2, <1>3, <1>4, <1>5, <1>8, <1>9, <2>1, Zenon DEF Sound
<1>11. Copies(dinode, inode, valid)
  BY <1>1, <1>3, Zenon DEF Copies
<1>12. Fits(logged)
  BY <1>1, FewFit, Zenon
<1> QED BY <1>10, <1>11, <1>12, Zenon DEF IInv

\* ialloc().
LEMMA IallocStep == IInv /\ Ialloc => IInv'
<1> SUFFICES ASSUME IInv, Ialloc PROVE IInv'
  BY Zenon
<1>1. Sound(dinode, table, bits) /\ Copies(dinode, inode, valid) /\ Fits(logged)
  BY Zenon DEF IInv
<1>2. bits' = bits /\ table' = table /\ inode' = inode /\ valid' = valid
  BY Zenon DEF Ialloc
<1>3. CASE FreeInodes = {}
  <2>1. dinode' = dinode /\ logged' = logged
    BY <1>3, Zenon DEF Ialloc
  <2> QED BY <1>1, <1>2, <2>1, Zenon DEF IInv
<1>4. CASE FreeInodes # {}
  <2>1. PICK i : i = CHOOSE j \in FreeInodes : \A k \in FreeInodes : j <= k
    BY Zenon
  <2>2. dinode' = [dinode EXCEPT ![i] = Empty(TRUE)] /\ logged' = {<<"inode", i>>}
    BY <1>4, <2>1, Zenon DEF Ialloc
  <2>3. dinode' = Put(dinode, i, Empty(TRUE))
    BY <2>2, Zenon DEF Put
  <2>4. FreeInodes \subseteq 1 .. NINODES /\ NINODES \in Nat
    BY InodeAssumption, Zenon DEF FreeInodes, Files
  <2>5. \E j \in FreeInodes : \A k \in FreeInodes : j <= k
    <3>1. FreeInodes \in SUBSET Nat
      BY <2>4
    <3> QED BY <1>4, <3>1, Least, Zenon
  <2>6. i \in Files /\ ~dinode[i].alloc
    <3>1. i \in FreeInodes
      BY <2>1, <2>5, Zenon
    <3> QED BY <3>1, Zenon DEF FreeInodes
  <2>7. Sound(dinode', table, bits)
    BY <1>1, <2>3, <2>6, AllocSound, Zenon
  <2>8. Copies(dinode', inode, valid)
    <3>1. inode \in [Files -> Ino] /\ valid \in SUBSET Files
      BY <1>1, Zenon DEF Copies
    <3>2. \A j \in valid : inode[j] = dinode[j] /\ dinode[j].alloc
      BY <1>1, Zenon DEF Copies
    <3>3. i \notin valid
      BY <2>6, <3>2, Zenon
    <3>4. dinode \in [Files -> Ino]
      BY <1>1, Zenon DEF Sound
    <3>5. \A j \in valid : dinode'[j] = dinode[j]
      BY <2>2, <3>1, <3>3, <3>4, Zenon
    <3> QED BY <3>1, <3>2, <3>5, Zenon DEF Copies
  <2>9. Fits(logged')
    BY <2>2, FewFit, Zenon
  <2> QED BY <1>2, <2>7, <2>8, <2>9, Zenon DEF IInv
<1> QED BY <1>3, <1>4, Zenon

\* ilock().
LEMMA IlockStep == ASSUME NEW i \in Files PROVE IInv /\ Ilock(i) => IInv'
<1> SUFFICES ASSUME IInv, Ilock(i) PROVE IInv'
  BY Zenon
<1>1. Sound(dinode, table, bits) /\ Copies(dinode, inode, valid) /\ Fits(logged)
  BY Zenon DEF IInv
<1>2. /\ dinode[i].alloc /\ inode' = [inode EXCEPT ![i] = dinode[i]]
      /\ valid' = valid \cup {i}
      /\ bits' = bits /\ table' = table /\ dinode' = dinode /\ logged' = logged
  BY Zenon DEF Ilock
<1>3. dinode \in [Files -> Ino]
  BY <1>1, Zenon DEF Sound
<1>4. /\ inode \in [Files -> Ino] /\ valid \in SUBSET Files
      /\ \A j \in valid : inode[j] = dinode[j] /\ dinode[j].alloc
  BY <1>1, Zenon DEF Copies
<1>5. Copies(dinode, inode', valid')
  <2>1. inode' \in [Files -> Ino] /\ valid' \in SUBSET Files
    BY <1>2, <1>3, <1>4, Zenon
  <2>2. inode'[i] = dinode[i] /\ \A j \in Files \ {i} : inode'[j] = inode[j]
    BY <1>2, <1>4, Zenon
  <2>3. ASSUME NEW j \in valid' PROVE inode'[j] = dinode[j] /\ dinode[j].alloc
    <3>1. CASE j = i
      BY <1>2, <2>2, <3>1, Zenon
    <3>2. CASE j # i
      <4>1. j \in valid /\ j \in Files \ {i}
        BY <1>2, <1>4, <2>3, <3>2, Zenon
      <4> QED BY <1>4, <2>2, <4>1, Zenon
    <3> QED BY <3>1, <3>2, Zenon
  <2> QED BY <2>1, <2>3, Zenon DEF Copies
<1> QED BY <1>1, <1>2, <1>5, Zenon DEF IInv

\* iput() of an inode that keeps its links.
LEMMA ForgetStep == ASSUME NEW i \in Files PROVE IInv /\ Forget(i) => IInv'
<1> SUFFICES ASSUME IInv, Forget(i) PROVE IInv'
  BY Zenon
<1>1. Sound(dinode, table, bits) /\ Copies(dinode, inode, valid) /\ Fits(logged)
  BY Zenon DEF IInv
<1>2. /\ valid' = valid \ {i} /\ inode' = inode
      /\ bits' = bits /\ table' = table /\ dinode' = dinode /\ logged' = logged
  BY Zenon DEF Forget
<1>3. Copies(dinode, inode, valid \ {i})
  BY <1>1, Zenon DEF Copies
<1> QED BY <1>1, <1>2, <1>3, Zenon DEF IInv

\* iput() of an inode without links.
LEMMA FreeInodeStep == ASSUME NEW i \in Files PROVE IInv /\ FreeInode(i) => IInv'
<1> SUFFICES ASSUME IInv, FreeInode(i) PROVE IInv'
  BY Zenon
<1>1. Sound(dinode, table, bits) /\ Copies(dinode, inode, valid) /\ Fits(logged)
  BY Zenon DEF IInv
<1>2. i \in valid /\ table' = table
  BY Zenon DEF FreeInode
<1>3. CASE FreesFree(inode[i])
  <2>1. bits' = bits /\ dinode' = dinode /\ inode' = inode /\ valid' = valid /\ logged' = logged
    BY <1>3, Zenon DEF FreeInode
  <2> QED BY <1>1, <1>2, <2>1, Zenon DEF IInv
<1>4. CASE ~FreesFree(inode[i])
  <2>1. /\ bits' = bits \ Truncated(inode[i])
        /\ inode' = [inode EXCEPT ![i] = Empty(FALSE)]
        /\ dinode' = [dinode EXCEPT ![i] = Empty(FALSE)]
        /\ valid' = valid \ {i}
        /\ logged' = {<<"inode", i>>} \cup
                     (IF Truncated(inode[i]) = {} THEN {} ELSE {<<"bitmap">>})
    BY <1>4, Zenon DEF FreeInode
  <2>2. dinode \in [Files -> Ino] /\ table \in Tables
    BY <1>1, Zenon DEF Sound
  <2>3. /\ inode \in [Files -> Ino] /\ valid \in SUBSET Files
        /\ \A j \in valid : inode[j] = dinode[j] /\ dinode[j].alloc
    BY <1>1, Zenon DEF Copies
  <2>4. PICK gone : gone = BlocksOf(DiskMap(dinode, table), i)
    BY Zenon
  <2>5. bits' = bits \ gone
    BY <1>2, <2>1, <2>2, <2>3, <2>4, TruncatedIs, Zenon
  <2>6. Sound(dinode', table, bits')
    <3>1. dinode' = Put(dinode, i, Empty(FALSE))
      BY <2>1, Zenon DEF Put
    <3>2. Sound(dinode', table, bits \ gone)
      BY <1>1, <2>4, <3>1, FreeSound, Zenon
    <3> QED BY <2>5, <3>2, Zenon
  <2>7. Copies(dinode', inode', valid')
    <3>1. PICK ip \in Ino : ip = Empty(FALSE)
      BY EmptyIs, Zenon
    <3>2. dinode' = [dinode EXCEPT ![i] = ip] /\ inode' = [inode EXCEPT ![i] = ip]
      BY <2>1, <3>1, Zenon
    <3>3. /\ inode' \in [Files -> Ino] /\ valid' \in SUBSET Files
          /\ \A j \in Files \ {i} : inode'[j] = inode[j] /\ dinode'[j] = dinode[j]
      BY <2>1, <2>2, <2>3, <3>2
    <3>4. \A j \in valid' : j \in valid /\ j \in Files \ {i}
      BY <2>1, <2>3, Zenon
    <3>5. \A j \in valid' : inode'[j] = dinode'[j] /\ dinode'[j].alloc
      BY <2>3, <3>3, <3>4, Zenon
    <3> QED BY <3>3, <3>5, Zenon DEF Copies
  <2>8. Fits(logged')
    <3>1. PICK x, y : x = <<"inode", i>> /\ y = <<"bitmap">>
      BY Zenon
    <3>2. logged' = {x} \/ logged' = {x} \cup {y}
      BY <2>1, <3>1, Zenon
    <3> QED BY <3>2, FewFit, Zenon
  <2> QED BY <1>2, <2>6, <2>7, <2>8, Zenon DEF IInv
<1> QED BY <1>3, <1>4, Zenon

\* A round of filewrite().
LEMMA WriteiStep ==
    ASSUME NEW i \in Files, NEW off \in 0 .. MAXFILE * BSIZE, NEW n \in 1 .. MaxChunk
    PROVE  IInv /\ Writei(i, off, n) => IInv'
<1> SUFFICES ASSUME IInv, Writei(i, off, n) PROVE IInv'
  BY Zenon
<1>1. Sound(dinode, table, bits) /\ Copies(dinode, inode, valid) /\ Fits(logged)
  BY Zenon DEF IInv
<1>2. PICK lo, hi : lo = off \div BSIZE /\ hi = (off + n - 1) \div BSIZE
  BY Zenon
<1>3. PICK t : t = WriteBlocks(i, lo, hi)
  BY Zenon
<1>4. PICK ip : ip = [inode[i] EXCEPT !.addrs = t.addrs,
                                      !.size = IF Grows(i, off, n) THEN off + n ELSE @]
  BY Zenon
<1>5. i \in valid /\ WriteRange(i, off, n) /\ valid' = valid
  BY Zenon DEF Writei
<1>6. CASE ~t.ok
  <2>1. bits' = bits /\ table' = table /\ dinode' = dinode /\ inode' = inode /\ logged' = logged
    BY <1>2, <1>3, <1>6, Zenon DEF Writei
  <2> QED BY <1>1, <1>5, <2>1, Zenon DEF IInv
<1>7. CASE t.ok
  <2>1. /\ bits' = t.bits /\ table' = t.table
        /\ inode' = [inode EXCEPT ![i] = ip]
        /\ dinode' = IF Grows(i, off, n) THEN [dinode EXCEPT ![i] = ip] ELSE dinode
        /\ logged' = t.logged \cup (IF Grows(i, off, n) THEN {<<"inode", i>>} ELSE {})
    BY <1>2, <1>3, <1>4, <1>7, Zenon DEF Writei
  <2>2. /\ inode \in [Files -> Ino] /\ valid \in SUBSET Files
        /\ \A j \in valid : inode[j] = dinode[j] /\ dinode[j].alloc
    BY <1>1, Zenon DEF Copies
  <2>3. dinode \in [Files -> Ino] /\ table \in Tables /\ bits \in SUBSET Blocks
    BY <1>1, Zenon DEF Sound
  <2>4. inode[i] = dinode[i] /\ dinode[i].alloc
    BY <1>5, <2>2, Zenon
  <2>5. PICK a \in Addrs, sz \in Nat, al \in BOOLEAN :
           /\ a = dinode[i].addrs /\ sz = dinode[i].size /\ al = dinode[i].alloc
           /\ dinode[i] = [alloc |-> al, size |-> sz, addrs |-> a]
    BY <2>3, InoFields, Zenon
  <2>6. off \in Nat /\ n \in Nat \ {0} /\ off <= sz /\ off + n <= MAXFILE * BSIZE
    <3>1. off <= sz /\ off + n <= MAXFILE * BSIZE
      BY <1>5, <2>4, <2>5, Zenon DEF WriteRange
    <3>2. MAXFILE * BSIZE \in Nat /\ n \in Nat \ {0}
      BY Numbers, Ordered
    <3> QED BY <3>1, <3>2
  <2>7. Span(off, n, sz, lo, hi)
    BY <1>2, <2>6, SpanIs, Zenon
  <2>8. PICK t0 : t0 = Start(i)
    BY Zenon
  <2>9. Starts(t0, dinode[i], table, bits)
    <3>1. t0 = [addrs |-> a, bits |-> bits, table |-> table, logged |-> {}, ok |-> TRUE]
      BY <2>4, <2>5, <2>8, Zenon DEF Start
    <3>2. PICK lg \in SUBSET Ids, ok \in BOOLEAN : lg = {} /\ ok = TRUE
      BY Zenon
    <3>3. t0 = Tx(a, bits, table, lg, ok)
      BY <3>1, <3>2, Zenon DEF Tx
    <3>4. t0 \in Trans
      BY <2>3, <3>3, TxShape, Zenon
    <3>5. t0.addrs = a /\ t0.bits = bits /\ t0.table = table /\ t0.logged = lg
      BY <3>3, Zenon DEF Tx
    <3> QED BY <2>5, <3>2, <3>4, <3>5, Zenon DEF Starts
  <2>10. t = Writing(t0, lo, hi)[hi + 1]
    BY <1>3, <2>8, WriteBlocksIs, Zenon
  <2>11. WriteLeaves(dinode, table, bits, i, off, n, lo, hi, t)
    BY <1>1, <1>7, <2>4, <2>5, <2>6, <2>7, <2>9, <2>10, WriteSound, Zenon
  <2>12. /\ t \in Trans
         /\ off + n > sz =>
               Sound(Put(dinode, i, WrittenIno(dinode[i], t.addrs, off + n)), t.table, t.bits)
         /\ ~(off + n > sz) => t.addrs = a /\ t.table = table /\ t.bits = bits
    BY <2>5, <2>11, Zenon DEF WriteLeaves
  <2>13. Grows(i, off, n) <=> off + n > sz
    BY <2>4, <2>5, Zenon DEF Grows
  <2>14. PICK b \in Addrs : b = t.addrs
    BY <2>12, TransFields, Zenon
  <2>15. Fits(logged')
    <3>1. PICK v : \A e \in t.logged :
                      \/ e \in {<<"bitmap">>, <<"block", v[<<i, NDIRECT>>]>>}
                      \/ \E bn \in lo .. hi : e = <<"block", v[<<i, Slot(bn)>>]>>
      BY <2>11, Zenon DEF WriteLeaves
    <3>2. PICK x, y, z : x = <<"bitmap">> /\ y = <<"block", v[<<i, NDIRECT>>]>>
                            /\ z = <<"inode", i>>
      BY Zenon
    <3>3. Covered(logged', x, y, z, v, i, lo, hi)
      BY <2>1, <3>1, <3>2, Zenon DEF Covered
    <3>4. lo \in Nat /\ hi \in Nat /\ hi - lo + 4 <= LOGSIZE - 1
      BY <1>2, <2>6, ChunkFits, Zenon
    <3>5. lo <= hi
      BY <2>7, Zenon DEF Span
    <3>6. /\ IsFiniteSet(logged') /\ Cardinality(logged') \in Nat
          /\ Cardinality(logged') <= hi - lo + 4
      BY <3>3, <3>4, <3>5, LoggedFew, Zenon
    <3>7. Cardinality(logged') <= LOGSIZE - 1
      BY <3>4, <3>6, InodeAssumption
    <3> QED BY <3>6, <3>7, Zenon DEF Fits
  <2>16. CASE Grows(i, off, n)
    <3>1. PICK size \in Nat : size = off + n
      BY <2>6
    <3>2. ip = [alloc |-> al, size |-> size, addrs |-> b]
      <4>1. PICK jp : jp = inode[i]
        BY Zenon
      <4>2. jp = [alloc |-> al, size |-> sz, addrs |-> a]
        BY <2>4, <2>5, <4>1, Zenon
      <4>3. ip = [jp EXCEPT !.addrs = b, !.size = size]
        BY <1>4, <2>14, <2>16, <3>1, <4>1, Zenon
      <4> QED BY <4>2, <4>3, Zenon
    <3>3. ip \in Ino
      BY <3>2, Zenon DEF Ino
    <3>4. ip = WrittenIno(dinode[i], t.addrs, off + n)
      BY <2>5, <2>14, <3>1, <3>2, Zenon DEF WrittenIno
    <3>5. dinode' = Put(dinode, i, ip) /\ inode' = Put(inode, i, ip)
      BY <2>1, <2>16, Zenon DEF Put
    <3>6. Sound(dinode', table', bits')
      BY <2>1, <2>12, <2>13, <2>16, <3>4, <3>5, Zenon
    <3>7. /\ inode' \in [Files -> Ino] /\ inode'[i] = ip /\ dinode'[i] = ip
          /\ \A j \in Files \ {i} : inode'[j] = inode[j] /\ dinode'[j] = dinode[j]
      BY <2>2, <2>3, <3>3, <3>5, Zenon DEF Put
    <3>8. ip.alloc
      BY <2>4, <2>5, <3>2, Zenon
    <3>9. ASSUME NEW j \in valid PROVE inode'[j] = dinode'[j] /\ dinode'[j].alloc
      <4>1. CASE j = i
        BY <3>7, <3>8, <4>1, Zenon
      <4>2. CASE j # i
        <5>1. j \in Files \ {i}
          BY <2>2, <4>2, Zenon
        <5> QED BY <2>2, <3>7, <5>1, Zenon
      <4> QED BY <4>1, <4>2, Zenon
    <3>10. Copies(dinode', inode', valid')
      BY <1>5, <2>2, <3>7, <3>9, Zenon DEF Copies
    <3> QED BY <2>15, <3>6, <3>10, Zenon DEF IInv
  <2>17. CASE ~Grows(i, off, n)
    <3>1. t.addrs = a /\ t.table = table /\ t.bits = bits
      BY <2>12, <2>13, <2>17, Zenon
    <3>2. ip = inode[i]
      <4>1. PICK jp : jp = inode[i]
        BY Zenon
      <4>2. jp = [alloc |-> al, size |-> sz, addrs |-> a]
        BY <2>4, <2>5, <4>1, Zenon
      <4>3. ip = [jp EXCEPT !.addrs = a, !.size = jp.size]
        BY <1>4, <2>17, <3>1, <4>1, Zenon
      <4>4. jp.size = sz
        BY <4>2, Zenon
      <4>5. ip = [jp EXCEPT !.addrs = a, !.size = sz]
        BY <4>3, <4>4, Zenon
      <4>6. ip = [alloc |-> al, size |-> sz, addrs |-> a]
        BY <4>2, <4>5, Zenon
      <4> QED BY <4>1, <4>2, <4>6, Zenon
    <3>3. inode' = inode
      BY <2>1, <2>2, <3>2, Zenon
    <3>4. dinode' = dinode /\ table' = table /\ bits' = bits
      BY <2>1, <2>17, <3>1, Zenon
    <3> QED BY <1>1, <1>5, <2>15, <3>3, <3>4, Zenon DEF IInv
  <2> QED BY <2>16, <2>17, Zenon
<1> QED BY <1>6, <1>7, Zenon

LEMMA InvKept == IInv /\ [Next]_vars => IInv'
<1> SUFFICES ASSUME IInv, [Next]_vars PROVE IInv'
  BY Zenon
<1>1. CASE Ialloc
  BY <1>1, IallocStep, Zenon
<1>2. ASSUME NEW i \in Files, Ilock(i) PROVE IInv'
  BY <1>2, IlockStep, Zenon
<1>3. ASSUME NEW i \in Files, Forget(i) PROVE IInv'
  BY <1>3, ForgetStep, Zenon
<1>4. ASSUME NEW i \in Files, FreeInode(i) PROVE IInv'
  BY <1>4, FreeInodeStep, Zenon
<1>5. ASSUME NEW i \in Files, NEW off \in 0 .. MAXFILE * BSIZE, NEW n \in 1 .. MaxChunk,
             Writei(i, off, n)
      PROVE  IInv'
  BY <1>5, WriteiStep, Zenon
<1>6. CASE PanicLoop \/ UNCHANGED vars
  <2>1. /\ bits' = bits /\ table' = table /\ dinode' = dinode /\ inode' = inode
        /\ valid' = valid /\ logged' = logged
    BY <1>6, Zenon DEF PanicLoop, vars
  <2> QED BY <2>1, Zenon DEF IInv
<1> QED BY <1>1, <1>2, <1>3, <1>4, <1>5, <1>6, Zenon DEF Next

\* The inductive invariant holds after every transaction.
THEOREM DiskSound == Spec => []IInv
<1>1. Init => IInv
  BY InitHolds, Zenon
<1>2. IInv /\ [Next]_vars => IInv'
  BY InvKept, Zenon
<1> QED BY <1>1, <1>2, PTL DEF Spec

\* The copy of an inode that writei() works on equals the inode on disk after every
\* transaction, although iupdate() is called only when the file grows.
THEOREM CopiesSaved == Spec => []InodeSaved
<1>1. IInv => InodeSaved
  BY Zenon DEF IInv, Copies, InodeSaved
<1> QED BY <1>1, DiskSound, PTL

\* No transaction of filewrite(), ialloc() or iput() is too big for the log.
THEOREM ChunksFitLog == Spec => []TransactionFits
<1>1. IInv => TransactionFits
  BY Zenon DEF IInv, Fits, TransactionFits
<1> QED BY <1>1, DiskSound, PTL

\* bmap() gives a file a block for every unit it has and for no other, so files have
\* no holes.
THEOREM FilesWithoutHoles == Spec => []NoHoles
<1>1. IInv => NoHoles
  <2> SUFFICES ASSUME IInv, NEW i \in Files, NEW bn \in 0 .. MAXFILE - 1
               PROVE  Addr(dinode[i].addrs, table, bn) # 0 <=> bn * BSIZE < dinode[i].size
    BY Zenon DEF NoHoles
  <2>1. dinode \in [Files -> Ino] /\ table \in Tables /\ Filled0(DiskMap(dinode, table), dinode)
    BY Zenon DEF IInv, Sound
  <2>2. Slot(bn) \in Slots
    BY SlotIs, Zenon
  <2>3. DiskMap(dinode, table)[<<i, Slot(bn)>>] = Val(dinode[i].addrs, table, Slot(bn))
    BY <2>1, <2>2, DiskMapIs, Zenon
  <2>4. Addr(dinode[i].addrs, table, bn) = Val(dinode[i].addrs, table, Slot(bn))
    BY AddrVal, Zenon
  <2> QED BY <2>1, <2>3, <2>4, Zenon DEF Filled0
<1> QED BY <1>1, DiskSound, PTL

\* The pointers to a block are the slots that hold it.
LEMMA PointersAre ==
    ASSUME dinode \in [Files -> Ino], table \in Tables, NEW b \in Blocks,
           NEW v, v = DiskMap(dinode, table)
    PROVE  Pointers(b) = {x \in Places : v[x] = b}
<1>1. \A j \in Files, k \in Slots : <<j, k>> \in Places
      /\ v[<<j, k>>] = Val(dinode[j].addrs, table, k)
  BY DiskMapIs, Zenon
<1>2. b # 0
  BY Numbers, Zenon
<1>3. \A x : x \in Pointers(b) <=>
         \/ \E j \in Files, k \in 0 .. NDIRECT : x = <<j, k>> /\ dinode[j].addrs[k] = b
         \/ \E j \in Files, k \in 0 .. NINDIRECT - 1 :
               /\ x = <<j, NDIRECT + 1 + k>> /\ dinode[j].addrs[NDIRECT] # 0
               /\ table[dinode[j].addrs[NDIRECT]][k] = b
  <2> DEFINE A == {x \in Files \X (0 .. NDIRECT) : dinode[x[1]].addrs[x[2]] = b}
             B == {x \in Files \X (0 .. NINDIRECT - 1) :
                     /\ dinode[x[1]].addrs[NDIRECT] # 0
                     /\ table[dinode[x[1]].addrs[NDIRECT]][x[2]] = b}
             C == {<<y[1], NDIRECT + 1 + y[2]>> : y \in B}
  <2>1. Pointers(b) = A \cup C
    BY Zenon DEF Pointers
  <2>2. \A x : x \in A <=> \E j \in Files, k \in 0 .. NDIRECT :
                              x = <<j, k>> /\ dinode[j].addrs[k] = b
    OBVIOUS
  <2>3. \A y : y \in B <=> \E j \in Files, k \in 0 .. NINDIRECT - 1 :
                              /\ y = <<j, k>> /\ dinode[j].addrs[NDIRECT] # 0
                              /\ table[dinode[j].addrs[NDIRECT]][k] = b
    OBVIOUS
  <2>4. \A x : x \in C <=> \E y \in B : x = <<y[1], NDIRECT + 1 + y[2]>>
    BY Zenon
  <2> HIDE DEF A, B, C
  <2>5. \A x : x \in C <=> \E j \in Files, k \in 0 .. NINDIRECT - 1 :
                              /\ x = <<j, NDIRECT + 1 + k>> /\ dinode[j].addrs[NDIRECT] # 0
                              /\ table[dinode[j].addrs[NDIRECT]][k] = b
    <3>1. ASSUME NEW x \in C
          PROVE  \E j \in Files, k \in 0 .. NINDIRECT - 1 :
                    /\ x = <<j, NDIRECT + 1 + k>> /\ dinode[j].addrs[NDIRECT] # 0
                    /\ table[dinode[j].addrs[NDIRECT]][k] = b
      <4>1. PICK y \in B : x = <<y[1], NDIRECT + 1 + y[2]>>
        BY <2>4, <3>1, Zenon
      <4>2. PICK j \in Files, k \in 0 .. NINDIRECT - 1 :
               /\ y = <<j, k>> /\ dinode[j].addrs[NDIRECT] # 0
               /\ table[dinode[j].addrs[NDIRECT]][k] = b
        BY <2>3, <4>1, Zenon
      <4>3. x = <<j, NDIRECT + 1 + k>>
        BY <4>1, <4>2, Zenon
      <4> QED BY <4>2, <4>3, Zenon
    <3>2. ASSUME NEW j \in Files, NEW k \in 0 .. NINDIRECT - 1, dinode[j].addrs[NDIRECT] # 0,
                 table[dinode[j].addrs[NDIRECT]][k] = b
          PROVE  <<j, NDIRECT + 1 + k>> \in C
      <4>1. PICK y : y = <<j, k>>
        BY Zenon
      <4>2. y \in B
        BY <2>3, <3>2, <4>1, Zenon
      <4>3. <<j, NDIRECT + 1 + k>> = <<y[1], NDIRECT + 1 + y[2]>>
        BY <4>1, Zenon
      <4> QED BY <2>4, <4>2, <4>3, Zenon
    <3> QED BY <3>1, <3>2, Zenon
  <2> QED BY <2>1, <2>2, <2>5, Zenon
<1>4. \A j \in Files, k \in 0 .. NDIRECT :
         k \in Slots /\ Val(dinode[j].addrs, table, k) = dinode[j].addrs[k]
  BY Numbers DEF Val
<1>5. \A j \in Files, k \in 0 .. NINDIRECT - 1 :
         /\ NDIRECT + 1 + k \in Slots
         /\ Val(dinode[j].addrs, table, NDIRECT + 1 + k) =
               IF dinode[j].addrs[NDIRECT] = 0 THEN 0
               ELSE table[dinode[j].addrs[NDIRECT]][k]
  BY Numbers DEF Val, Slots
<1>6. ASSUME NEW x \in Pointers(b) PROVE x \in Places /\ v[x] = b
  <2>1. ASSUME NEW j \in Files, NEW k \in 0 .. NDIRECT, x = <<j, k>>, dinode[j].addrs[k] = b
        PROVE  x \in Places /\ v[x] = b
    BY <1>1, <1>4, <2>1, Zenon
  <2>2. ASSUME NEW j \in Files, NEW k \in 0 .. NINDIRECT - 1, x = <<j, NDIRECT + 1 + k>>,
               dinode[j].addrs[NDIRECT] # 0, table[dinode[j].addrs[NDIRECT]][k] = b
        PROVE  x \in Places /\ v[x] = b
    BY <1>1, <1>5, <2>2, Zenon
  <2> QED BY <1>3, <1>6, <2>1, <2>2, Zenon
<1>7. ASSUME NEW x \in Places, v[x] = b PROVE x \in Pointers(b)
  <2>1. PICK j \in Files, s \in Slots : x = <<j, s>>
    BY DEF Places
  <2>2. Val(dinode[j].addrs, table, s) = b
    BY <1>1, <1>7, <2>1, Zenon
  <2>3. CASE s \in 0 .. NDIRECT
    BY <1>3, <1>4, <2>1, <2>2, <2>3, Zenon
  <2>4. CASE s \notin 0 .. NDIRECT
    <3>1. PICK k \in 0 .. NINDIRECT - 1 : s = NDIRECT + 1 + k
      <4>1. s - (NDIRECT + 1) \in 0 .. NINDIRECT - 1 /\ s = NDIRECT + 1 + (s - (NDIRECT + 1))
        BY <2>4, Numbers DEF Slots
      <4> QED BY <4>1, Zenon
    <3>2. dinode[j].addrs[NDIRECT] # 0 /\ table[dinode[j].addrs[NDIRECT]][k] = b
      BY <1>2, <1>5, <2>2, <3>1, Zenon
    <3> QED BY <1>3, <2>1, <3>1, <3>2, Zenon
  <2> QED BY <2>3, <2>4, Zenon
<1> QED BY <1>6, <1>7, Zenon

\* balloc(), bmap() and itrunc() keep the bitmap exact: a block is marked if and only
\* if one address of one inode is that block.
THEOREM BitmapIsExact == Spec => []BitmapExact
<1>1. IInv => BitmapExact
  <2> SUFFICES ASSUME IInv, NEW b \in Blocks
               PROVE  Cardinality(Pointers(b)) = IF b \in bits THEN 1 ELSE 0
    BY Zenon DEF BitmapExact
  <2>1. dinode \in [Files -> Ino] /\ table \in Tables /\ Exact(DiskMap(dinode, table), bits)
    BY Zenon DEF IInv, Sound
  <2>2. PICK v : v = DiskMap(dinode, table)
    BY Zenon
  <2>3. Pointers(b) = {x \in Places : v[x] = b}
    BY <2>1, <2>2, PointersAre, Zenon
  <2>4. /\ \A x, y \in Places : v[x] # 0 /\ v[x] = v[y] => x = y
        /\ \A x \in Places : v[x] # 0 => v[x] \in bits
        /\ \A c \in bits : \E x \in Places : v[x] = c
    BY <2>1, <2>2, Zenon DEF Exact
  <2>5. b # 0
    BY Numbers, Zenon
  <2>6. CASE b \in bits
    <3>1. PICK x \in Places : v[x] = b
      BY <2>4, <2>6, Zenon
    <3>2. \A y \in Places : v[y] = b => y = x
      BY <2>4, <2>5, <3>1, Zenon
    <3>3. Pointers(b) = {x}
      BY <2>3, <3>1, <3>2, Zenon
    <3>4. Cardinality({x}) = 1
      BY FS_Singleton, Zenon
    <3> QED BY <2>6, <3>3, <3>4, Zenon
  <2>7. CASE b \notin bits
    <3>1. Pointers(b) = {}
      BY <2>3, <2>4, <2>5, <2>7, Zenon
    <3>2. Cardinality({}) = 0
      BY FS_EmptySet, Zenon
    <3> QED BY <2>7, <3>1, <3>2, Zenon
  <2> QED BY <2>6, <2>7, Zenon
<1> QED BY <1>1, DiskSound, PTL
=============================================================================
