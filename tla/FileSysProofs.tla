---------------------------- MODULE FileSysProofs -----------------------------
(***************************************************************************)
(* Proofs about FileSys, for every number of processes, inodes, files and  *)
(* descriptors, all names and all paths: references are counted exactly,   *)
(* an inode is free exactly when nothing uses it, and no name is left for  *)
(* a freed inode.                                                          *)
(***************************************************************************)
EXTENDS FileSys, Integers, TLAPS

-----------------------------------------------------------------------------
(* The facts about finite sets and numbers that the proofs use.  They come from   *)
(* the library's theorems, in the last section; the lemmas before it assume them. *)

EmptyLaw ==
    /\ IsFiniteSet({}) /\ Cardinality({}) = 0
    /\ \A S : IsFiniteSet(S) => (Cardinality(S) = 0 <=> S = {})
SingleLaw == \A x : IsFiniteSet({x}) /\ Cardinality({x}) = 1
AddLaw ==
    \A S, x : IsFiniteSet(S) =>
        /\ IsFiniteSet(S \cup {x})
        /\ Cardinality(S \cup {x}) = IF x \in S THEN Cardinality(S) ELSE Cardinality(S) + 1
SubsetLaw ==
    \A S : \A T \in SUBSET S :
        IsFiniteSet(S) => IsFiniteSet(T) /\ Cardinality(T) <= Cardinality(S)
TypeLaw == \A S : IsFiniteSet(S) => Cardinality(S) \in Nat
IntervalLaw == \A a, b \in Int : IsFiniteSet(a .. b)
ProductLaw ==
    \A S, T : IsFiniteSet(S) /\ IsFiniteSet(T) =>
        /\ IsFiniteSet(S \X T)
        /\ Cardinality(S \X T) = Cardinality(S) * Cardinality(T)
UnionLaw ==
    \A S, T : IsFiniteSet(S) /\ IsFiniteSet(T) =>
        /\ IsFiniteSet(S \cup T)
        /\ Cardinality(S \cup T) = Cardinality(S) + Cardinality(T) - Cardinality(S \cap T)
LeastLaw == \A T \in SUBSET Nat : T # {} => \E x \in T : \A y \in T : x <= y

Laws == /\ EmptyLaw /\ SingleLaw /\ AddLaw /\ SubsetLaw /\ TypeLaw /\ IntervalLaw
        /\ ProductLaw /\ UnionLaw /\ LeastLaw

-----------------------------------------------------------------------------
(* Counting and induction. *)

\* A part of a finite set is finite and no larger.
LEMMA Within ==
    ASSUME Laws, NEW S, IsFiniteSet(S), NEW T \in SUBSET S
    PROVE  /\ IsFiniteSet(T) /\ Cardinality(T) \in Nat /\ Cardinality(S) \in Nat
           /\ Cardinality(T) <= Cardinality(S)
BY Zenon DEF Laws, SubsetLaw, TypeLaw

\* A new element counts one more.
LEMMA OneMore ==
    ASSUME Laws, NEW S, IsFiniteSet(S), NEW y, y \notin S
    PROVE  Cardinality(S) \in Nat /\ Cardinality(S \cup {y}) = Cardinality(S) + 1
<1>1. Cardinality(S) \in Nat
  BY Zenon DEF Laws, TypeLaw
<1>2. Cardinality(S \cup {y}) = Cardinality(S) + 1
  BY Zenon DEF Laws, AddLaw
<1> QED BY <1>1, <1>2, Zenon

\* An element taken out counts one less.
LEMMA OneLess ==
    ASSUME Laws, NEW S, IsFiniteSet(S), NEW y \in S
    PROVE  /\ Cardinality(S) \in Nat \ {0}
           /\ Cardinality(S \ {y}) = Cardinality(S) - 1
<1>1. PICK T : T = S \ {y}
  BY Zenon
<1>2. IsFiniteSet(T) /\ y \notin T /\ S = T \cup {y}
  BY <1>1, Within, Zenon
<1>3. Cardinality(T) \in Nat /\ Cardinality(S) = Cardinality(T) + 1
  BY <1>2, OneMore, Zenon
<1> QED BY <1>1, <1>3

\* Only the empty set has no elements to count.
LEMMA NoneThere ==
    ASSUME Laws, NEW S, IsFiniteSet(S), Cardinality(S) = 0
    PROVE  S = {}
BY Zenon DEF Laws, EmptyLaw

\* A set of numbers has a least one.
LEMMA Least ==
    ASSUME Laws, NEW T \in SUBSET Nat, T # {}
    PROVE  \E x \in T : \A y \in T : x <= y
BY Zenon DEF Laws, LeastLaw

\* Induction up to n.
LEMMA Induct ==
    ASSUME Laws, NEW n \in Nat, NEW T \in SUBSET (0 .. n), 0 \in T,
           \A k \in 1 .. n : k - 1 \in T => k \in T
    PROVE  T = 0 .. n
<1> SUFFICES ASSUME (0 .. n) \ T # {} PROVE FALSE
  BY Zenon
<1>0. PICK U : U = (0 .. n) \ T
  BY Zenon
<1>1. PICK x \in U : \A y \in U : x <= y
  <2>1. U \in SUBSET Nat /\ U # {}
    BY <1>0
  <2> QED BY <2>1, Least, Zenon
<1>2. x \in 1 .. n /\ x - 1 \in T
  BY <1>0, <1>1
<1> QED BY <1>0, <1>1, <1>2, Zenon

\* w is a loop of n rounds from a, the k-th of which takes s to F[<<k, s>>].
Loop(n, S, a, F, w) ==
    /\ w \in [0 .. n -> S] /\ w[0] = a
    /\ \A k \in 1 .. n : w[k] = F[<<k, w[k - 1]>>]

LEMMA Recursion ==
    ASSUME Laws, NEW n \in Nat, NEW S, NEW a \in S, NEW F \in [(1 .. n) \X S -> S]
    PROVE  \E w : Loop(n, S, a, F, w)
<1> USE DEF Loop
<1> DEFINE Up(m, w) == Loop(m, S, a, F, w)
           T == {m \in 0 .. n : \E w : Up(m, w)}
<1>1. 0 \in T
  <2>1. PICK w : w = [k \in 0 .. 0 |-> a]
    BY Zenon
  <2>2. w \in [0 .. 0 -> S] /\ w[0] = a
    BY <2>1
  <2>3. Up(0, w)
    BY <2>2
  <2> HIDE DEF Up
  <2> QED BY <2>3
<1>2. ASSUME NEW m \in 1 .. n, m - 1 \in T PROVE m \in T
  <2>1. PICK v : Up(m - 1, v)
    BY <1>2, Zenon
  <2> DEFINE w == [k \in 0 .. m |-> IF k = m THEN F[<<m, v[m - 1]>>] ELSE v[k]]
  <2>2. v[m - 1] \in S /\ F[<<m, v[m - 1]>>] \in S
    <3>1. v[m - 1] \in S
      BY <2>1
    <3>2. <<m, v[m - 1]>> \in (1 .. n) \X S
      BY <3>1, Zenon
    <3> QED BY <3>1, <3>2, Zenon
  <2>3. w \in [0 .. m -> S] /\ w[0] = a
    BY <2>1, <2>2
  <2>4. ASSUME NEW k \in 1 .. m PROVE w[k] = F[<<k, w[k - 1]>>]
    <3>1. CASE k = m
      <4>1. w[m] = F[<<m, v[m - 1]>>] /\ w[m - 1] = v[m - 1]
        OBVIOUS
      <4> HIDE DEF w
      <4> QED BY <3>1, <4>1, Zenon
    <3>2. CASE k # m
      <4>1. k \in 1 .. m - 1 /\ k - 1 \in 0 .. m /\ k - 1 # m
        BY <3>2
      <4> QED BY <2>1, <3>2, <4>1
    <3> QED BY <3>1, <3>2, Zenon
  <2>5. Up(m, w)
    BY <2>3, <2>4, Zenon
  <2> HIDE DEF Up, w
  <2> QED BY <2>5
<1>3. T = 0 .. n
  <2> HIDE DEF Up
  <2>1. PICK U : U = T
    BY Zenon
  <2>2. U \in SUBSET (0 .. n) /\ 0 \in U
    BY <1>1, <2>1, Zenon
  <2>3. \A k \in 1 .. n : k - 1 \in U => k \in U
    BY <1>2, <2>1, Zenon
  <2> HIDE DEF T
  <2> QED BY <2>1, <2>2, <2>3, Induct, Zenon
<1>4. PICK w : Up(n, w)
  BY <1>3
<1> QED BY <1>4, Zenon

-----------------------------------------------------------------------------
(* The record of the inodes. *)

Types   == {"free", "T_DIR", "T_FILE", "T_DEV"}
Entries == [Names \cup {".."} -> 0 .. NINODES]

\* What panic() may say, and "" before it does.
Messages == {"", "ilock: no type", "write outside of trans", "ialloc: no inodes",
             "unlink: nlink < 1", "fileclose"}

\* The shape of the record, also when a system call goes on after a panic().
Rec == [type : [Inodes -> Types], nlink : [Inodes -> Int], entry : [Inodes -> Entries],
        ref : [Inodes -> Int], valid : SUBSET Inodes, panic : Messages]

Mk(type, nlink, entry, ref, valid, panic) ==
    [type |-> type, nlink |-> nlink, entry |-> entry, ref |-> ref, valid |-> valid,
     panic |-> panic]

\* No panic() so far: in the system call, in the system.
Ok(t) == t.panic = ""
Up    == halted = ""
Message(msg) == msg \in Messages \ {""}

LEMMA Shape ==
    ASSUME NEW type \in [Inodes -> Types], NEW nlink \in [Inodes -> Int],
           NEW entry \in [Inodes -> Entries], NEW ref \in [Inodes -> Int],
           NEW valid \in SUBSET Inodes, NEW panic \in Messages,
           NEW v, v = Mk(type, nlink, entry, ref, valid, panic)
    PROVE  v \in Rec
BY Zenon DEF Mk, Rec

LEMMA RecFields ==
    ASSUME NEW t \in Rec
    PROVE  /\ t.type \in [Inodes -> Types] /\ t.nlink \in [Inodes -> Int]
           /\ t.entry \in [Inodes -> Entries] /\ t.ref \in [Inodes -> Int]
           /\ t.valid \in SUBSET Inodes /\ t.panic \in Messages
BY Zenon DEF Rec

LEMMA InodeIs ==
    ASSUME NEW i \in Inodes
    PROVE  i # 0 /\ i \in 0 .. NINODES
BY FileSysAssumption DEF Inodes

\* panic() ends the system call for good.
LEMMA PanicIs ==
    ASSUME NEW t \in Rec, NEW msg, Message(msg), NEW v, v = Panic(t, msg)
    PROVE  v \in Rec /\ ~Ok(v)
<1>1. CASE Ok(t)
  <2>1. v = Mk(t.type, t.nlink, t.entry, t.ref, t.valid, msg)
    BY <1>1, Zenon DEF Panic, Mk, Rec, Ok
  <2>2. v \in Rec
    BY <2>1, Shape, RecFields, Zenon DEF Message
  <2>3. v.panic = msg
    BY <2>1, SMT DEF Mk
  <2> QED BY <2>2, <2>3, Zenon DEF Ok, Message
<1>2. CASE ~Ok(t)
  BY <1>2, Zenon DEF Panic, Ok
<1> QED BY <1>1, <1>2, Zenon

\* What iget() changes.
Got(t, i, v) ==
    /\ v \in Rec
    /\ v.type = t.type /\ v.nlink = t.nlink /\ v.entry = t.entry
    /\ v.valid = t.valid /\ v.panic = t.panic
    /\ v.ref = [t.ref EXCEPT ![i] = t.ref[i] + 1]
LEMMA IgetIs ==
    ASSUME NEW t \in Rec, NEW i \in Inodes, NEW v, v = Iget(t, i)
    PROVE  Got(t, i, v)
<1>1. v = Mk(t.type, t.nlink, t.entry, [t.ref EXCEPT ![i] = t.ref[i] + 1], t.valid, t.panic)
  BY Zenon DEF Rec, Iget, Mk
<1>2. [t.ref EXCEPT ![i] = t.ref[i] + 1] \in [Inodes -> Int]
  BY RecFields
<1>3. v \in Rec
  BY <1>1, <1>2, Shape, RecFields, Zenon
<1> QED BY <1>1, <1>3, SMT DEF Mk, Got

\* iput() frees the inode.
Frees(t, i) == t.ref[i] = 1 /\ i \in t.valid /\ t.nlink[i] = 0

\* What iput() changes.
LEMMA IputIs ==
    ASSUME NEW t \in Rec, NEW i \in Inodes, NEW trans \in BOOLEAN, NEW v, v = Iput(t, i, trans)
    PROVE  /\ v \in Rec
           /\ Ok(v) => /\ Ok(t)
                       /\ v.nlink = t.nlink
                       /\ v.ref = [t.ref EXCEPT ![i] = t.ref[i] - 1]
                       /\ Frees(t, i) =>
                             /\ v.type = [t.type EXCEPT ![i] = "free"]
                             /\ v.entry = [t.entry EXCEPT ![i] = NoEntries]
                             /\ v.valid = t.valid \ {i}
                       /\ ~Frees(t, i) =>
                             /\ v.type = t.type /\ v.entry = t.entry
                             /\ v.valid = IF t.ref[i] = 1 THEN t.valid \ {i} ELSE t.valid
<1>0. /\ [t.ref EXCEPT ![i] = t.ref[i] - 1] \in [Inodes -> Int]
      /\ [t.type EXCEPT ![i] = "free"] \in [Inodes -> Types]
      /\ t.valid \ {i} \in SUBSET Inodes
  BY RecFields DEF Types
<1>1. CASE Frees(t, i) /\ ~trans
  <2>1. PICK msg : msg = "write outside of trans"
    BY Zenon
  <2>2. v = Panic(t, msg) /\ Message(msg)
    BY <2>1, <1>1, Zenon DEF Iput, Frees, Message, Messages
  <2> QED BY <2>2, PanicIs, Zenon
<1>2. CASE Frees(t, i) /\ trans
  <2>1. v = Mk([t.type EXCEPT ![i] = "free"], t.nlink, [t.entry EXCEPT ![i] = NoEntries],
               [t.ref EXCEPT ![i] = 0], t.valid \ {i}, t.panic)
    BY <1>2, Zenon DEF Iput, Frees, Mk, Rec
  <2>2. 0 = t.ref[i] - 1
    BY <1>2 DEF Frees
  <2>3. [t.entry EXCEPT ![i] = NoEntries] \in [Inodes -> Entries]
    <3>1. NoEntries \in Entries
      BY FileSysAssumption DEF NoEntries, Entries
    <3> QED BY <3>1, RecFields, Zenon
  <2>4. v \in Rec
    BY <1>0, <2>1, <2>2, <2>3, Shape, RecFields, Zenon
  <2>5. /\ v.type = [t.type EXCEPT ![i] = "free"] /\ v.nlink = t.nlink
        /\ v.entry = [t.entry EXCEPT ![i] = NoEntries]
        /\ v.ref = [t.ref EXCEPT ![i] = 0] /\ v.valid = t.valid \ {i} /\ v.panic = t.panic
    BY <2>1, SMT DEF Mk
  <2> QED BY <1>2, <2>2, <2>4, <2>5, Zenon DEF Ok
<1>3. CASE ~Frees(t, i)
  <2>1. v = Mk(t.type, t.nlink, t.entry, [t.ref EXCEPT ![i] = t.ref[i] - 1],
               IF t.ref[i] = 1 THEN t.valid \ {i} ELSE t.valid, t.panic)
    BY <1>3, Zenon DEF Iput, Frees, Mk, Rec
  <2>2. (IF t.ref[i] = 1 THEN t.valid \ {i} ELSE t.valid) \in SUBSET Inodes
    BY RecFields, Zenon
  <2>3. v \in Rec
    BY <1>0, <2>1, <2>2, Shape, RecFields, Zenon
  <2>4. /\ v.type = t.type /\ v.nlink = t.nlink /\ v.entry = t.entry
        /\ v.ref = [t.ref EXCEPT ![i] = t.ref[i] - 1] /\ v.panic = t.panic
        /\ v.valid = IF t.ref[i] = 1 THEN t.valid \ {i} ELSE t.valid
    BY <2>1, SMT DEF Mk
  <2> QED BY <1>3, <2>3, <2>4, Zenon DEF Ok
<1> QED BY <1>1, <1>2, <1>3, Zenon

\* The record keeps its shape, and no panic() is taken back.
LEMMA IputShape ==
    ASSUME NEW t \in Rec, NEW i \in Inodes, NEW trans \in BOOLEAN
    PROVE  Iput(t, i, trans) \in Rec /\ (Ok(Iput(t, i, trans)) => Ok(t))
BY IputIs, Zenon

-----------------------------------------------------------------------------
(* The invariant of the inodes, inside of a system call too. *)

\* Where links to an inode come from: the names for it, and in a directory the
\* ".." of each directory named in it.
Sources == Inodes \X (Names \X {"name", "dotdot"})
Links(entry, type, i) ==
    {y \in Sources :
        /\ entry[y[1]][y[2][1]] # 0
        /\ \/ y[2][2] = "name" /\ entry[y[1]][y[2][1]] = i
           \/ y[2][2] = "dotdot" /\ y[1] = i /\ type[entry[y[1]][y[2][1]]] = "T_DIR"}

\* An inode is free when it has neither links nor references, is valid only
\* with a reference and valid without links; u, if not 0, is referenced and not
\* yet locked: it may turn out to be free.
Sane(t, u) ==
    \A i \in Inodes :
        /\ t.nlink[i] \in Nat /\ t.ref[i] \in Nat
        /\ i \in t.valid => t.type[i] # "free" /\ t.ref[i] > 0
        /\ t.type[i] = "free" => t.nlink[i] = 0 /\ (t.ref[i] = 0 \/ i = u)
        /\ t.type[i] # "free" /\ t.nlink[i] = 0 => i \in t.valid
        /\ u = i => t.ref[i] > 0

\* nlink counts all links, and one more for x, if not 0: a name to be entered,
\* or just erased.
Linked(t, x) ==
    \A i \in Inodes :
        t.nlink[i] >= Cardinality(Links(t.entry, t.type, i)) + (IF i = x THEN 1 ELSE 0)

Good(t, u, x) == t \in Rec /\ Ok(t) /\ Sane(t, u) /\ Linked(t, x)

LEMMA LinksFinite ==
    ASSUME Laws, NEW entry, NEW type, NEW i
    PROVE  /\ IsFiniteSet(Links(entry, type, i))
           /\ Cardinality(Links(entry, type, i)) \in Nat
<1>1. IsFiniteSet(Inodes) /\ IsFiniteSet(Names)
  <2>1. 1 \in Int /\ NINODES \in Int
    BY FileSysAssumption
  <2> QED BY <2>1, FileSysAssumption, Zenon DEF Inodes, Laws, IntervalLaw
<1>2. IsFiniteSet({"name", "dotdot"})
  <2>1. IsFiniteSet({"name"}) /\ {"name", "dotdot"} = {"name"} \cup {"dotdot"}
    BY Zenon DEF Laws, SingleLaw
  <2> QED BY <2>1, Zenon DEF Laws, AddLaw
<1>3. IsFiniteSet(Sources)
  <2>1. IsFiniteSet(Names \X {"name", "dotdot"})
    BY <1>1, <1>2, Zenon DEF Laws, ProductLaw
  <2> QED BY <1>1, <2>1, Zenon DEF Sources, Laws, ProductLaw
<1>4. Links(entry, type, i) \in SUBSET Sources
  BY Zenon DEF Links
<1> QED BY <1>3, <1>4, Within, Zenon

\* iget() makes the inode the one to be locked.
LEMMA IgetGood ==
    ASSUME NEW t, NEW x, Good(t, 0, x), NEW i \in Inodes, NEW v, v = Iget(t, i)
    PROVE  Good(v, i, x)
<1>1. t \in Rec /\ Ok(t) /\ Sane(t, 0) /\ Linked(t, x)
  BY Zenon DEF Good
<1>2. /\ v \in Rec
      /\ v.type = t.type /\ v.nlink = t.nlink /\ v.entry = t.entry
      /\ v.valid = t.valid /\ v.panic = t.panic
      /\ v.ref = [t.ref EXCEPT ![i] = t.ref[i] + 1]
  BY <1>1, IgetIs DEF Got
<1>3. Ok(v)
  BY <1>1, <1>2, Zenon DEF Ok
<1>4. Sane(v, i)
  <2>1. t.ref \in [Inodes -> Int]
    BY <1>1, RecFields, Zenon
  <2> SUFFICES ASSUME NEW j \in Inodes
               PROVE  /\ v.nlink[j] \in Nat /\ v.ref[j] \in Nat
                      /\ j \in v.valid => v.type[j] # "free" /\ v.ref[j] > 0
                      /\ v.type[j] = "free" => v.nlink[j] = 0 /\ (v.ref[j] = 0 \/ j = i)
                      /\ v.type[j] # "free" /\ v.nlink[j] = 0 => j \in v.valid
                      /\ i = j => v.ref[j] > 0
    BY Zenon DEF Sane
  <2>2. j # 0 /\ t.ref[j] \in Nat
    BY <1>1 DEF Inodes, Sane
  <2>3. v.ref[j] = IF j = i THEN t.ref[j] + 1 ELSE t.ref[j]
    BY <1>2, <2>1, Zenon
  <2> QED BY <1>1, <1>2, <2>2, <2>3 DEF Sane
<1>5. Linked(v, x)
  BY <1>1, <1>2, Zenon DEF Linked
<1> QED BY <1>2, <1>3, <1>4, <1>5, Zenon DEF Good

\* Erasing entries and freeing directories only takes links away.
LEMMA LinksLess ==
    ASSUME Laws, NEW entry, NEW type, NEW entry2, NEW type2, NEW i,
           \A d \in Inodes, n \in Names : entry2[d][n] # 0 =>
              /\ entry2[d][n] = entry[d][n]
              /\ type2[entry2[d][n]] = "T_DIR" => type[entry2[d][n]] = "T_DIR"
    PROVE  /\ Links(entry2, type2, i) \subseteq Links(entry, type, i)
           /\ Cardinality(Links(entry2, type2, i)) \in Nat
           /\ Cardinality(Links(entry, type, i)) \in Nat
           /\ Cardinality(Links(entry2, type2, i)) <= Cardinality(Links(entry, type, i))
<1>1. ASSUME NEW y \in Links(entry2, type2, i) PROVE y \in Links(entry, type, i)
  <2>1. y \in Sources /\ y[1] \in Inodes /\ y[2][1] \in Names
    BY Zenon DEF Links, Sources
  <2>2. /\ entry2[y[1]][y[2][1]] # 0
        /\ \/ y[2][2] = "name" /\ entry2[y[1]][y[2][1]] = i
           \/ y[2][2] = "dotdot" /\ y[1] = i /\ type2[entry2[y[1]][y[2][1]]] = "T_DIR"
    BY Zenon DEF Links
  <2>3. /\ entry2[y[1]][y[2][1]] = entry[y[1]][y[2][1]]
        /\ type2[entry2[y[1]][y[2][1]]] = "T_DIR" => type[entry2[y[1]][y[2][1]]] = "T_DIR"
    BY <2>1, <2>2, Zenon
  <2> QED BY <2>1, <2>2, <2>3, Zenon DEF Links
<1>2. Links(entry2, type2, i) \in SUBSET Links(entry, type, i)
  BY <1>1, Zenon
<1> QED BY <1>2, LinksFinite, Within, Zenon

\* Outside of B the inodes may be freed, those of B are as they were.
Keeps(t, v, B) ==
    /\ v.nlink = t.nlink
    /\ \A j \in B : /\ v.type[j] = t.type[j] /\ v.entry[j] = t.entry[j]
                    /\ j \in t.valid => j \in v.valid

Referenced(t) == {j \in Inodes : t.ref[j] > 0}

\* iput() frees the inode when the last reference and the last link are gone.
LEMMA IputGood ==
    ASSUME Laws, NEW t, NEW u, NEW x, Good(t, u, x), NEW i \in Inodes, NEW trans \in BOOLEAN,
           t.ref[i] > 0, i = u => t.ref[i] > 1, NEW v, v = Iput(t, i, trans), Ok(v)
    PROVE  /\ Good(v, u, x)
           /\ v.ref = [t.ref EXCEPT ![i] = t.ref[i] - 1]
           /\ Keeps(t, v, Referenced(v))
<1>1. t \in Rec /\ Ok(t) /\ Sane(t, u) /\ Linked(t, x)
  BY Zenon DEF Good
<1>2. /\ v \in Rec /\ v.nlink = t.nlink
      /\ v.ref = [t.ref EXCEPT ![i] = t.ref[i] - 1]
      /\ Frees(t, i) => /\ v.type = [t.type EXCEPT ![i] = "free"]
                        /\ v.entry = [t.entry EXCEPT ![i] = NoEntries]
                        /\ v.valid = t.valid \ {i}
      /\ ~Frees(t, i) => /\ v.type = t.type /\ v.entry = t.entry
                         /\ v.valid = IF t.ref[i] = 1 THEN t.valid \ {i} ELSE t.valid
  BY <1>1, IputIs
<1>3. /\ t.ref \in [Inodes -> Int] /\ t.type \in [Inodes -> Types]
      /\ t.entry \in [Inodes -> Entries]
  BY <1>1, RecFields, Zenon
<1>4. \A j \in Inodes : v.ref[j] = IF j = i THEN t.ref[j] - 1 ELSE t.ref[j]
  BY <1>2, <1>3
<1>5. CASE Frees(t, i)
  <2>1. \A j \in Inodes : /\ v.type[j] = IF j = i THEN "free" ELSE t.type[j]
                          /\ v.entry[j] = IF j = i THEN NoEntries ELSE t.entry[j]
    BY <1>2, <1>3, <1>5, Zenon
  <2>2. t.nlink[i] = 0 /\ t.ref[i] = 1 /\ i # u
    BY <1>5 DEF Frees
  <2>3. Sane(v, u)
    BY <1>1, <1>2, <1>4, <1>5, <2>1, <2>2 DEF Sane
  <2>4. Linked(v, x)
    <3>1. ASSUME NEW d \in Inodes, NEW n \in Names, v.entry[d][n] # 0
          PROVE  /\ v.entry[d][n] = t.entry[d][n]
                 /\ v.type[v.entry[d][n]] = "T_DIR" => t.type[v.entry[d][n]] = "T_DIR"
      <4>1. d # i /\ v.entry[d][n] = t.entry[d][n]
        BY <2>1, <3>1, Zenon DEF NoEntries
      <4>2. v.entry[d][n] \in Inodes
        BY <1>3, <3>1, <4>1, FileSysAssumption DEF Entries, Inodes
      <4> QED BY <2>1, <4>1, <4>2, Zenon
    <3>2. ASSUME NEW j \in Inodes
          PROVE  v.nlink[j] >= Cardinality(Links(v.entry, v.type, j))
                               + (IF j = x THEN 1 ELSE 0)
      <4>1. /\ Cardinality(Links(v.entry, v.type, j)) \in Nat
            /\ Cardinality(Links(t.entry, t.type, j)) \in Nat
            /\ Cardinality(Links(v.entry, v.type, j)) <= Cardinality(Links(t.entry, t.type, j))
        BY <3>1, LinksLess
      <4>2. /\ t.nlink[j] >= Cardinality(Links(t.entry, t.type, j)) + (IF j = x THEN 1 ELSE 0)
            /\ t.nlink[j] \in Nat
        BY <1>1, Zenon DEF Linked, Sane
      <4> QED BY <1>2, <4>1, <4>2
    <3> QED BY <3>2, Zenon DEF Linked
  <2>5. Keeps(t, v, Referenced(v))
    BY <1>2, <1>4, <1>5, <2>1, <2>2 DEF Keeps, Referenced
  <2> QED BY <1>2, <2>3, <2>4, <2>5, Zenon DEF Good
<1>6. CASE ~Frees(t, i)
  <2>1. Sane(v, u)
    <3> SUFFICES ASSUME NEW j \in Inodes
                 PROVE  /\ v.nlink[j] \in Nat /\ v.ref[j] \in Nat
                        /\ j \in v.valid => v.type[j] # "free" /\ v.ref[j] > 0
                        /\ v.type[j] = "free" => v.nlink[j] = 0 /\ (v.ref[j] = 0 \/ j = u)
                        /\ v.type[j] # "free" /\ v.nlink[j] = 0 => j \in v.valid
                        /\ u = j => v.ref[j] > 0
      BY Zenon DEF Sane
    <3>1. CASE j # i
      BY <1>1, <1>2, <1>4, <1>6, <3>1 DEF Sane
    <3>2. CASE j = i
      <4>1. t.ref[i] = 1 => ~(i \in t.valid /\ t.nlink[i] = 0) /\ i # u
        BY <1>6 DEF Frees
      <4> QED BY <1>1, <1>2, <1>4, <1>6, <3>2, <4>1 DEF Sane
    <3> QED BY <3>1, <3>2, Zenon
  <2>2. Linked(v, x)
    BY <1>1, <1>2, <1>6, Zenon DEF Linked
  <2>3. Keeps(t, v, Referenced(v))
    BY <1>1, <1>2, <1>4, <1>6 DEF Keeps, Referenced, Sane
  <2> QED BY <1>2, <2>1, <2>2, <2>3, Zenon DEF Good
<1> QED BY <1>5, <1>6, Zenon

-----------------------------------------------------------------------------
(* Paths and names: the states that a call goes through. *)

AllNames == Names \cup {".", ".."}

\* The state of the loop of namex(), whose caller will own the reference to ip.
Walks == [t : Rec, ip : 0 .. NINODES, trans : BOOLEAN]

\* The references to j but the one of the walk.
Base(r, j) == r.t.ref[j] - (IF j = r.ip THEN 1 ELSE 0)

\* From r to s the walk has handed on its reference, to an inode not yet locked.
Walked(r, s, x) ==
    Ok(s.t) => /\ Ok(r.t) /\ Good(s.t, s.ip, x)
               /\ \A j \in Inodes : Base(s, j) = Base(r, j)
               /\ Keeps(r.t, s.t, {j \in Inodes : Base(r, j) > 0})

\* The loop of namex(): what a walk w of it is.
WalkBody(r, elems, w) ==
    [k \in 0 .. Len(elems) |->
        IF k = 0 THEN r
        ELSE IF w[k - 1].ip = 0 THEN w[k - 1]
        ELSE Step(w[k - 1], elems[k])]

\* A call returned r: one reference more, to r.ip if that is not 0.
Came(t, r, u, x) ==
    Ok(r.t) => /\ Ok(t) /\ Good(r.t, u, x)
               /\ \A j \in Inodes : r.t.ref[j] = t.ref[j] + (IF j = r.ip THEN 1 ELSE 0)
               /\ Keeps(t, r.t, Referenced(t))

\* What create() writes for a new inode.
Dressed(t, dp, name, type, ip, v) ==
    /\ v.panic = t.panic
    /\ v.ref = [t.ref EXCEPT ![ip] = t.ref[ip] + 1]
    /\ v.valid = t.valid \cup {ip}
    /\ \A j \in Inodes :
          /\ v.type[j] = IF j = ip THEN type ELSE t.type[j]
          /\ v.nlink[j] = IF j = ip THEN 1
                          ELSE IF j = dp /\ type = "T_DIR" THEN t.nlink[j] + 1
                          ELSE t.nlink[j]
    /\ \A d \in Inodes, n \in Names :
          v.entry[d][n] = IF d = dp /\ n = name THEN ip ELSE t.entry[d][n]

\* create() traded the reference to the directory dp for one to c.ip.
Made(t, dp, c) ==
    Ok(c.t) => /\ Good(c.t, 0, 0)
               /\ \A j \in Inodes : c.t.ref[j] = t.ref[j] - (IF j = dp THEN 1 ELSE 0)
                                                 + (IF j = c.ip THEN 1 ELSE 0)

\* v is t with the entry of name in dp set to i.
Entered(t, dp, name, i, v) ==
    /\ v \in Rec
    /\ v.type = t.type /\ v.nlink = t.nlink /\ v.valid = t.valid /\ v.ref = t.ref
    /\ v.panic = t.panic
    /\ \A d \in Inodes, n \in Names :
          v.entry[d][n] = IF d = dp /\ n = name THEN i ELSE t.entry[d][n]

\* The references i is left with when one to dp and one to ip are given back.
Left(t, v, dp, ip) ==
    \A j \in Inodes : v.ref[j] = t.ref[j] - (IF j = dp THEN 1 ELSE 0) - (IF j = ip THEN 1 ELSE 0)

\* ... and when one to dp and one to ip have been taken.
Raised(t, v, dp, ip) ==
    \A j \in Inodes : v.ref[j] = t.ref[j] + (IF j = dp THEN 1 ELSE 0) + (IF j = ip THEN 1 ELSE 0)

\* The record with the entry of name in dp erased, and the link count of dp n.
Erase(t, dp, name, n) == [t EXCEPT !.entry[dp][name] = 0, !.nlink[dp] = n]

Erased(t, dp, name, n, v) ==
    /\ v \in Rec
    /\ v.type = t.type /\ v.valid = t.valid /\ v.ref = t.ref /\ v.panic = t.panic
    /\ \A j \in Inodes : v.nlink[j] = IF j = dp THEN n ELSE t.nlink[j]
    /\ \A d \in Inodes, m \in Names :
          v.entry[d][m] = IF d = dp /\ m = name THEN 0 ELSE t.entry[d][m]

\* The link count that dp has when the entry of ip is gone.
Dropped(t, dp, ip) == IF t.type[ip] = "T_DIR" THEN t.nlink[dp] - 1 ELSE t.nlink[dp]

\* The call ends with v: the references are those of t, and one to ip if that is not 0.
Fresh(t, v, ip) ==
    Ok(v) => /\ Good(v, 0, 0)
             /\ \A j \in Inodes : v.ref[j] = t.ref[j] + (IF j = ip THEN 1 ELSE 0)

LEMMA PutBack ==
    ASSUME Laws, NEW t, Good(t, 0, 0), NEW v \in Rec, NEW ip \in Inodes, Fresh(t, v, ip),
           NEW trans \in BOOLEAN, NEW w, w = Iput(v, ip, trans)
    PROVE  w \in Rec /\ Fresh(t, w, 0)
<1>1. w \in Rec /\ (Ok(w) => Ok(v))
  BY IputShape, Zenon
<1>2. ASSUME Ok(w)
      PROVE  /\ Good(w, 0, 0)
             /\ \A j \in Inodes : w.ref[j] = t.ref[j] + (IF j = 0 THEN 1 ELSE 0)
  <2>1. Good(v, 0, 0) /\ \A j \in Inodes : v.ref[j] = t.ref[j] + (IF j = ip THEN 1 ELSE 0)
    BY <1>1, <1>2, Zenon DEF Fresh
  <2>2. \A j \in Inodes : t.ref[j] \in Nat /\ j # 0
    BY InodeIs, Zenon DEF Good, Sane
  <2>3. v.ref[ip] > 0 /\ ip # 0
    BY <2>1, <2>2
  <2>4. Good(w, 0, 0) /\ w.ref = [v.ref EXCEPT ![ip] = v.ref[ip] - 1]
    BY <1>2, <2>1, <2>3, IputGood
  <2>5. ASSUME NEW j \in Inodes
        PROVE  w.ref[j] = t.ref[j] + (IF j = 0 THEN 1 ELSE 0)
    <3>1. v.ref \in [Inodes -> Int] /\ t.ref[j] \in Nat /\ j # 0
      BY <2>2, RecFields, Zenon
    <3>2. w.ref[j] = IF j = ip THEN v.ref[j] - 1 ELSE v.ref[j]
      BY <2>4, <3>1, Zenon
    <3>3. v.ref[j] = t.ref[j] + (IF j = ip THEN 1 ELSE 0)
      BY <2>1, Zenon
    <3> QED BY <3>1, <3>2, <3>3
  <2> QED BY <2>4, <2>5, Zenon
<1> QED BY <1>1, <1>2, Zenon DEF Fresh

-----------------------------------------------------------------------------
(* What the system calls do to the inodes, from any good state. *)

\* namei() and the ilock() after it.
NameiLocked ==
    \A t, p, path, trans, r :
        Good(t, 0, 0) /\ path \in Paths /\ StartOf(p, path) \in Inodes /\ trans \in BOOLEAN
        /\ r = Namei(t, p, path, trans)
        => /\ r.t \in Rec /\ r.ip \in 0 .. NINODES
           /\ r.ip = 0 => Fresh(t, r.t, 0)
           /\ r.ip # 0 => /\ r.ip \in Inodes
                          /\ Ilock(r.t, r.ip) \in Rec
                          /\ Fresh(t, Ilock(r.t, r.ip), r.ip)
                          /\ Ok(Ilock(r.t, r.ip)) =>
                                Ilock(r.t, r.ip).type[r.ip] # "free"

\* nameiparent() that finds no directory.
NoParent ==
    \A t, p, path, trans, r :
        Good(t, 0, 0) /\ path \in Paths /\ StartOf(p, path) \in Inodes /\ trans \in BOOLEAN
        /\ r = Nameiparent(t, p, path, trans) /\ r.ip = 0
        => r.t \in Rec /\ Fresh(t, r.t, 0)

\* create() in the directory that nameiparent() found.
Created ==
    \A t, p, path, trans, r, type, c :
        Good(t, 0, 0) /\ path \in Paths /\ StartOf(p, path) \in Inodes /\ trans \in BOOLEAN
        /\ r = Nameiparent(t, p, path, trans) /\ r.ip # 0
        /\ type \in Types \ {"free"} /\ c = Create(r, LastElem(path), type)
        => c.t \in Rec /\ c.ip \in 0 .. NINODES /\ Fresh(t, c.t, c.ip)

\* sys_link() after it has locked the old name's inode.
LinkFresh ==
    \A t, v, ip, p, new, trans, w, q, x :
        Good(t, 0, 0) /\ v \in Rec /\ ip \in Inodes /\ Fresh(t, v, ip)
        /\ (Ok(v) => v.type[ip] # "free") /\ v.type[ip] # "T_DIR"
        /\ new \in Paths /\ StartOf(p, new) \in Inodes /\ trans \in BOOLEAN
        /\ w = [v EXCEPT !.nlink[ip] = v.nlink[ip] + 1]
        /\ q = Nameiparent(w, p, new, trans) /\ x = LinkTo(q, LastElem(new), ip)
        => x \in Rec /\ Fresh(t, x, 0)

\* sys_unlink() in the directory that nameiparent() found.
UnlinkFresh ==
    \A t, p, path, out, r, trans, ip :
        Good(t, 0, 0) /\ path \in Paths /\ StartOf(p, path) \in Inodes /\ out \in BOOLEAN
        /\ r = Nameiparent(t, p, path, out) /\ r.ip # 0 /\ trans \in BOOLEAN
        /\ ip = Dirlookup(r.t, r.ip, LastElem(path))
        => /\ Fresh(t, Iput(r.t, r.ip, trans), 0)
           /\ LastElem(path) \notin {".", ".."} /\ ip # 0 =>
                 Fresh(t, UnlinkFrom(Ilock(Iget(r.t, ip), ip), r.ip, LastElem(path), ip), 0)

LEMMA NamesKept ==
    ASSUME Laws
    PROVE  NameiLocked /\ NoParent /\ Created /\ LinkFresh /\ UnlinkFresh
\* What ilock() changes.
<1>IlockIs.
    ASSUME NEW t \in Rec, NEW i \in Inodes, NEW v, v = Ilock(t, i)
    PROVE  /\ v \in Rec
           /\ Ok(v) => /\ Ok(t)
                       /\ v.type = t.type /\ v.nlink = t.nlink /\ v.entry = t.entry
                       /\ v.ref = t.ref
                       /\ v.valid = t.valid \cup {i}
                       /\ i \in t.valid \/ t.type[i] # "free"
  <2> USE <1>IlockIs
  <2>1. CASE i \in t.valid
    <3>1. v = t /\ t.valid = t.valid \cup {i}
      BY <2>1, Zenon DEF Ilock
    <3> QED BY <2>1, <3>1, Zenon
  <2>2. CASE i \notin t.valid /\ t.type[i] = "free"
    <3>1. PICK msg : msg = "ilock: no type"
      BY Zenon
    <3>2. v = Panic(t, msg) /\ Message(msg)
      BY <3>1, <2>2, Zenon DEF Ilock, Message, Messages
    <3> QED BY <3>2, PanicIs, Zenon
  <2>3. CASE i \notin t.valid /\ t.type[i] # "free"
    <3>1. v = Mk(t.type, t.nlink, t.entry, t.ref, t.valid \cup {i}, t.panic)
      BY <2>3, Zenon DEF Ilock, Mk, Rec
    <3>2. t.valid \cup {i} \in SUBSET Inodes
      BY RecFields, Zenon
    <3>3. v \in Rec
      BY <3>1, <3>2, Shape, RecFields, Zenon
    <3>4. /\ v.type = t.type /\ v.nlink = t.nlink /\ v.entry = t.entry /\ v.ref = t.ref
          /\ v.valid = t.valid \cup {i} /\ v.panic = t.panic
      BY <3>1, SMT DEF Mk
    <3> QED BY <2>3, <3>3, <3>4, Zenon DEF Ok
  <2> QED BY <2>1, <2>2, <2>3, Zenon

<1>IlockShape.
    ASSUME NEW t \in Rec, NEW i \in Inodes
    PROVE  Ilock(t, i) \in Rec /\ (Ok(Ilock(t, i)) => Ok(t))
  BY <1>IlockShape, <1>IlockIs, Zenon

<1>IgetShape.
    ASSUME NEW t \in Rec, NEW i \in Inodes
    PROVE  Iget(t, i) \in Rec /\ (Ok(Iget(t, i)) => Ok(t))
  BY <1>IgetShape, IgetIs, Zenon DEF Ok, Got

\* ilock() finds the inode allocated, or panics.
<1>IlockGood.
    ASSUME NEW t, NEW i \in Inodes, NEW u \in {0, i}, NEW x, Good(t, u, x), t.ref[i] > 0,
           NEW v, v = Ilock(t, i), Ok(v)
    PROVE  Good(v, 0, x) /\ i \in v.valid /\ v.type[i] # "free"
  <2> USE <1>IlockGood
  <2>1. t \in Rec /\ Ok(t) /\ Sane(t, u) /\ Linked(t, x)
    BY Zenon DEF Good
  <2>2. /\ v \in Rec
        /\ v.type = t.type /\ v.nlink = t.nlink /\ v.entry = t.entry
        /\ v.ref = t.ref
        /\ v.valid = t.valid \cup {i}
        /\ i \in t.valid \/ t.type[i] # "free"
    BY <2>1, <1>IlockIs
  <2>3. t.type[i] # "free"
    BY <2>1, <2>2, Zenon DEF Sane
  <2>4. Sane(v, 0)
    BY <2>1, <2>2, <2>3, RecFields DEF Sane, Inodes
  <2>5. Linked(v, x)
    BY <2>1, <2>2, Zenon DEF Linked
  <2> QED BY <2>2, <2>3, <2>4, <2>5, Zenon DEF Good

(* Paths. *)

<1>DirlookupIs.
    ASSUME NEW t \in Rec, NEW dp \in Inodes, NEW name \in AllNames
    PROVE  Dirlookup(t, dp, name) \in 0 .. NINODES
  <2> USE <1>DirlookupIs
  <2>1. t.entry[dp] \in Entries /\ dp \in 0 .. NINODES
    BY RecFields, FileSysAssumption DEF Inodes
  <2> QED BY <2>1, Zenon DEF Dirlookup, Entries, AllNames

\* One step of the loop hands on the reference, or gives it back.
<1>StepGood.
    ASSUME NEW r \in Walks, r.ip # 0, NEW name \in AllNames, NEW s, s = Step(r, name)
    PROVE  /\ s \in Walks
           /\ Ok(s.t) => Ok(r.t)
           /\ \A x : Good(r.t, r.ip, x) => Walked(r, s, x)
  <2> USE <1>StepGood
  <2>1. PICK t1 : t1 = Ilock(r.t, r.ip)
    BY Zenon
  <2>2. PICK d : d = Dirlookup(t1, r.ip, name)
    BY Zenon
  <2>0. PICK trans \in BOOLEAN : trans = r.trans
    BY Zenon DEF Walks
  <2>3. r.t \in Rec /\ r.ip \in Inodes
    BY FileSysAssumption DEF Walks, Inodes
  <2>4. t1 \in Rec /\ (Ok(t1) => Ok(r.t) /\ t1.ref = r.t.ref)
    BY <2>1, <2>3, <1>IlockIs
  <2>5. d \in 0 .. NINODES
    BY <2>2, <2>3, <2>4, <1>DirlookupIs, Zenon
  <2>6. ASSUME NEW x, Good(r.t, r.ip, x), Ok(t1)
        PROVE  Good(t1, 0, x) /\ Keeps(r.t, t1, Inodes)
    <3>1. r.t.ref[r.ip] > 0
      BY <2>3, <2>6, Zenon DEF Good, Sane
    <3>2. Good(t1, 0, x)
      BY <2>1, <2>3, <2>6, <3>1, <1>IlockGood, Zenon
    <3>3. Keeps(r.t, t1, Inodes)
      BY <2>1, <2>3, <2>6, <1>IlockIs DEF Keeps
    <3> QED BY <3>2, <3>3, Zenon
  <2>7. CASE t1.type[r.ip] = "T_DIR" /\ d # 0
    <3>1. PICK t2 : t2 = Iget(t1, d)
      BY Zenon
    <3>2. PICK t3 : t3 = Iput(t2, r.ip, trans)
      BY Zenon
    <3>3. s = [t |-> t3, ip |-> d, trans |-> trans]
      BY <2>0, <2>1, <2>2, <2>7, <3>1, <3>2, Zenon DEF Step
    <3>4. d \in Inodes
      BY <2>5, <2>7, FileSysAssumption DEF Inodes
    <3>5. /\ t2 \in Rec /\ t2.ref = [t1.ref EXCEPT ![d] = t1.ref[d] + 1] /\ t2.panic = t1.panic
          /\ t2.type = t1.type /\ t2.nlink = t1.nlink /\ t2.entry = t1.entry
          /\ t2.valid = t1.valid
      BY <2>4, <3>1, <3>4, IgetIs DEF Got
    <3>6. t3 \in Rec /\ (Ok(t3) => Ok(t2))
      BY <2>3, <3>2, <3>5, IputShape, Zenon
    <3>7. s \in Walks
      BY <2>3, <2>5, <3>3, <3>6 DEF Walks
    <3>8. s.t = t3 /\ s.ip = d
      BY <3>3
    <3>9. Ok(t3) => Ok(t1) /\ Ok(r.t)
      BY <2>4, <3>5, <3>6, Zenon DEF Ok
    <3>10. ASSUME NEW x, Good(r.t, r.ip, x), Ok(t3) PROVE Walked(r, s, x)
      <4>1. Good(t1, 0, x) /\ Keeps(r.t, t1, Inodes)
        BY <2>6, <3>9, <3>10, Zenon
      <4>2. Good(t2, d, x)
        BY <3>1, <3>4, <4>1, IgetGood, Zenon
      <4>3. t1.ref \in [Inodes -> Int] /\ t1.ref[r.ip] > 0 /\ t1.ref = r.t.ref
        BY <2>3, <2>4, <3>9, <3>10, RecFields, Zenon DEF Good, Sane
      <4>4. t2.ref[r.ip] > 0 /\ (r.ip = d => t2.ref[r.ip] > 1)
        BY <2>3, <3>4, <3>5, <4>3
      <4>5. /\ Good(t3, d, x) /\ t3.ref = [t2.ref EXCEPT ![r.ip] = t2.ref[r.ip] - 1]
            /\ Keeps(t2, t3, Referenced(t3))
        BY <2>3, <3>2, <3>10, <4>2, <4>4, IputGood
      <4>6. ASSUME NEW j \in Inodes PROVE Base(s, j) = Base(r, j)
        BY <2>3, <3>4, <3>5, <3>8, <4>3, <4>5 DEF Base
      <4>7. ASSUME NEW j \in Inodes, Base(r, j) > 0 PROVE j \in Referenced(t3)
        <5>1. t3.ref[j] \in Int
          BY <3>6, RecFields, Zenon
        <5> QED BY <3>8, <4>6, <4>7, <5>1 DEF Base, Referenced
      <4>8. Keeps(r.t, t3, {j \in Inodes : Base(r, j) > 0})
        BY <3>5, <4>1, <4>5, <4>7 DEF Keeps
      <4> QED BY <3>8, <3>9, <3>10, <4>5, <4>6, <4>8, Zenon DEF Walked
    <3> QED BY <3>7, <3>8, <3>9, <3>10, Zenon DEF Walked
  <2>8. CASE ~(t1.type[r.ip] = "T_DIR" /\ d # 0)
    <3>1. PICK t3 : t3 = Iput(t1, r.ip, trans)
      BY Zenon
    <3>2. s = [t |-> t3, ip |-> 0, trans |-> trans]
      BY <2>0, <2>1, <2>2, <2>8, <3>1, Zenon DEF Step
    <3>3. t3 \in Rec /\ (Ok(t3) => Ok(t1))
      BY <2>3, <2>4, <3>1, IputShape, Zenon
    <3>4. s \in Walks /\ s.t = t3 /\ s.ip = 0
      BY <2>3, <3>2, <3>3, FileSysAssumption DEF Walks
    <3>5. ASSUME NEW x, Good(r.t, r.ip, x), Ok(t3) PROVE Walked(r, s, x)
      <4>1. Good(t1, 0, x) /\ Keeps(r.t, t1, Inodes)
        BY <2>6, <3>3, <3>5, Zenon
      <4>2. /\ t1.ref \in [Inodes -> Int] /\ t1.ref[r.ip] > 0 /\ t1.ref = r.t.ref
            /\ r.ip # 0
        BY <2>3, <2>4, <3>3, <3>5, RecFields, Zenon DEF Good, Sane
      <4>3. /\ Good(t3, 0, x) /\ t3.ref = [t1.ref EXCEPT ![r.ip] = t1.ref[r.ip] - 1]
            /\ Keeps(t1, t3, Referenced(t3))
        BY <2>3, <3>1, <3>5, <4>1, <4>2, IputGood
      <4>4. ASSUME NEW j \in Inodes PROVE Base(s, j) = Base(r, j)
        <5>1. j # 0
          BY DEF Inodes
        <5> QED BY <2>3, <3>4, <4>2, <4>3, <5>1 DEF Base
      <4>5. ASSUME NEW j \in Inodes, Base(r, j) > 0 PROVE j \in Referenced(t3)
        <5>1. t3.ref[j] \in Int
          BY <3>3, RecFields, Zenon
        <5>2. j # 0
          BY DEF Inodes
        <5> QED BY <3>4, <4>4, <4>5, <5>1, <5>2 DEF Base, Referenced
      <4>6. Keeps(r.t, t3, {j \in Inodes : Base(r, j) > 0})
        BY <4>1, <4>3, <4>5, Zenon DEF Keeps
      <4> QED BY <2>4, <3>3, <3>4, <3>5, <4>3, <4>4, <4>6, Zenon DEF Walked
    <3> QED BY <2>4, <3>3, <3>4, <3>5, Zenon DEF Walked
  <2> QED BY <2>7, <2>8, Zenon

<1>WalkIs.
    ASSUME NEW r \in Walks, NEW elems \in Seq(AllNames)
    PROVE  \E w : /\ w \in [0 .. Len(elems) -> Walks]
                  /\ w = WalkBody(r, elems, w) /\ Walk(r, elems) = w[Len(elems)]
  <2> USE <1>WalkIs
  <2> DEFINE n == Len(elems)
             F == [z \in (1 .. n) \X Walks |->
                      IF z[2].ip = 0 THEN z[2] ELSE Step(z[2], elems[z[1]])]
  <2>1. n \in Nat
    OBVIOUS
  <2>2. ASSUME NEW k \in 1 .. n, NEW q \in Walks
        PROVE  (IF q.ip = 0 THEN q ELSE Step(q, elems[k])) \in Walks
    <3>1. elems[k] \in AllNames
      OBVIOUS
    <3>2. q.ip # 0 => Step(q, elems[k]) \in Walks
      BY <3>1, <1>StepGood, Zenon
    <3> QED BY <3>2, Zenon
  <2>3. F \in [(1 .. n) \X Walks -> Walks]
    <3>1. ASSUME NEW z \in (1 .. n) \X Walks
          PROVE  (IF z[2].ip = 0 THEN z[2] ELSE Step(z[2], elems[z[1]])) \in Walks
      <4>1. z[1] \in 1 .. n /\ z[2] \in Walks
        BY Zenon
      <4> HIDE DEF n
      <4> QED BY <2>2, <4>1, Zenon
    <3> QED BY <3>1, Zenon
  <2>4. PICK v \in [0 .. n -> Walks] : /\ v[0] = r
                                       /\ \A k \in 1 .. n : v[k] = F[<<k, v[k - 1]>>]
    <3>1. PICK m, G : m = n /\ G = F
      BY Zenon
    <3>2. m \in Nat /\ G \in [(1 .. m) \X Walks -> Walks]
      BY <2>1, <2>3, <3>1, Zenon
    <3>3. \E v : Loop(m, Walks, r, G, v)
      BY <3>2, Recursion, Zenon
    <3> QED BY <3>1, <3>3, Zenon DEF Loop
  <2>5. ASSUME NEW k \in 1 .. n
        PROVE  v[k] = IF v[k - 1].ip = 0 THEN v[k - 1] ELSE Step(v[k - 1], elems[k])
    <3>1. k - 1 \in 0 .. n
      BY <2>1
    <3>2. v[k - 1] \in Walks
      BY <2>4, <3>1, Zenon
    <3>3. v[k] = F[<<k, v[k - 1]>>]
      BY <2>4, Zenon
    <3>4. PICK q \in Walks : q = v[k - 1]
      BY <3>2, Zenon
    <3>5. F[<<k, q>>] = IF q.ip = 0 THEN q ELSE Step(q, elems[k])
      BY Zenon
    <3> QED BY <3>3, <3>4, <3>5, Zenon
  <2>6. v = WalkBody(r, elems, v)
    <3>1. \A k \in 0 .. n : k # 0 => k \in 1 .. n
      BY <2>1
    <3>2. ASSUME NEW k \in 0 .. n
          PROVE  v[k] = IF k = 0 THEN r
                        ELSE IF v[k - 1].ip = 0 THEN v[k - 1]
                        ELSE Step(v[k - 1], elems[k])
      BY <2>4, <2>5, <3>1, Zenon
    <3>3. v = [k \in 0 .. n |-> v[k]]
      BY <2>4, Zenon
    <3> QED BY <3>2, <3>3, Zenon DEF WalkBody
  <2>7. PICK w : w = (CHOOSE z : z = WalkBody(r, elems, z))
    BY Zenon
  <2>8. w = WalkBody(r, elems, w) /\ Walk(r, elems) = w[Len(elems)]
    <3>1. w = WalkBody(r, elems, w)
      BY <2>6, <2>7, Zenon
    <3>2. Walk(r, elems) = w[Len(elems)]
      BY <2>7, Zenon DEF Walk, WalkBody
    <3> QED BY <3>1, <3>2, Zenon
  <2>9. w \in [0 .. n -> Walks]
    <3> DEFINE T == {k \in 0 .. n : w[k] \in Walks}
    <3>1. \A k \in 0 .. n : w[k] = IF k = 0 THEN r
                                   ELSE IF w[k - 1].ip = 0 THEN w[k - 1]
                                   ELSE Step(w[k - 1], elems[k])
      BY <2>8, Zenon DEF WalkBody
    <3>2. 0 \in T
      BY <2>1, <3>1
    <3>3. ASSUME NEW k \in 1 .. n, k - 1 \in T PROVE k \in T
      <4>1. k \in 0 .. n /\ k # 0 /\ w[k - 1] \in Walks
        BY <2>1, <3>3
      <4>2. w[k] \in Walks
        BY <2>2, <3>1, <4>1, Zenon
      <4> QED BY <4>1, <4>2, Zenon
    <3>4. T = 0 .. n
      <4>1. PICK U : U = T
        BY Zenon
      <4>2. U \in SUBSET (0 .. n) /\ 0 \in U /\ \A k \in 1 .. n : k - 1 \in U => k \in U
        BY <3>2, <3>3, <4>1, Zenon
      <4> HIDE DEF T, n
      <4> QED BY <2>1, <4>1, <4>2, Induct, Zenon
    <3>5. \A k \in 0 .. n : w[k] \in Walks
      BY <3>4, Zenon
    <3>6. w = [k \in 0 .. n |-> w[k]]
      BY <2>8, Zenon DEF WalkBody
    <3> HIDE DEF n, T
    <3> QED BY <3>5, <3>6, Zenon
  <2> QED BY <2>8, <2>9, Zenon

\* The whole walk hands on the reference, or gives it back.
<1>WalkGood.
    ASSUME NEW r \in Walks, NEW elems \in Seq(AllNames), NEW x, Good(r.t, r.ip, x),
           NEW s, s = Walk(r, elems)
    PROVE  s \in Walks /\ Walked(r, s, x)
  <2> USE <1>WalkGood
  <2>1. PICK w : /\ w \in [0 .. Len(elems) -> Walks]
                 /\ w = WalkBody(r, elems, w) /\ s = w[Len(elems)]
    BY <1>WalkIs, Zenon
  <2> DEFINE n == Len(elems)
             T == {k \in 0 .. n : Walked(r, w[k], x)}
  <2>2. n \in Nat
    OBVIOUS
  <2>3. \A k \in 0 .. n : w[k] = IF k = 0 THEN r
                                 ELSE IF w[k - 1].ip = 0 THEN w[k - 1]
                                 ELSE Step(w[k - 1], elems[k])
    BY <2>1, Zenon DEF WalkBody
  <2>4. 0 \in T
    <3>1. Walked(r, r, x)
      BY Zenon DEF Walked, Keeps, Good
    <3> QED BY <2>2, <2>3, <3>1
  <2>5. ASSUME NEW k \in 1 .. n, k - 1 \in T PROVE k \in T
    <3>1. k \in 0 .. n /\ k # 0 /\ k - 1 \in 0 .. n /\ elems[k] \in AllNames
      BY <2>2
    <3>2. PICK q \in Walks : q = w[k - 1]
      BY <2>1, <3>1, Zenon
    <3>3. PICK z \in Walks : z = w[k]
      BY <2>1, <3>1, Zenon
    <3>4. Walked(r, q, x)
      BY <2>5, <3>2, Zenon
    <3>5. z = IF q.ip = 0 THEN q ELSE Step(q, elems[k])
      BY <2>3, <3>1, <3>2, <3>3, Zenon
    <3>6. CASE q.ip = 0
      BY <3>1, <3>3, <3>4, <3>5, <3>6, Zenon
    <3>7. CASE q.ip # 0
      <4>1. /\ Ok(z.t) => Ok(q.t)
            /\ Good(q.t, q.ip, x) => Walked(q, z, x)
        BY <3>1, <3>5, <3>7, <1>StepGood, Zenon
      <4>2. ASSUME Ok(z.t) PROVE Walked(r, z, x)
        <5>1. /\ Ok(r.t) /\ Good(q.t, q.ip, x)
              /\ \A j \in Inodes : Base(q, j) = Base(r, j)
              /\ Keeps(r.t, q.t, {j \in Inodes : Base(r, j) > 0})
          BY <3>4, <4>1, <4>2, Zenon DEF Walked
        <5>2. /\ Good(z.t, z.ip, x)
              /\ \A j \in Inodes : Base(z, j) = Base(q, j)
              /\ Keeps(q.t, z.t, {j \in Inodes : Base(q, j) > 0})
          BY <4>1, <4>2, <5>1, Zenon DEF Walked
        <5>3. Keeps(r.t, z.t, {j \in Inodes : Base(r, j) > 0})
          BY <5>1, <5>2, Zenon DEF Keeps
        <5> QED BY <5>1, <5>2, <5>3, Zenon DEF Walked
      <4>3. Walked(r, z, x)
        BY <4>2, Zenon DEF Walked
      <4> QED BY <3>1, <3>3, <4>3, Zenon
    <3> QED BY <3>6, <3>7, Zenon
  <2>6. T = 0 .. n
    <3>1. PICK U : U = T
      BY Zenon
    <3>2. U \in SUBSET (0 .. n) /\ 0 \in U /\ \A k \in 1 .. n : k - 1 \in U => k \in U
      BY <2>4, <2>5, <3>1, Zenon
    <3> HIDE DEF T, n
    <3> QED BY <2>2, <3>1, <3>2, Induct, Zenon
  <2>7. n \in 0 .. n
    BY <2>2
  <2> QED BY <2>1, <2>6, <2>7, Zenon

<1>PathIs.
    ASSUME NEW path \in Paths
    PROVE  path.elems \in Seq(AllNames)
  BY <1>PathIs, FileSysAssumption, Zenon DEF AllNames

<1>WalkFrom.
    ASSUME NEW t, NEW x, Good(t, 0, x), NEW p, NEW path, StartOf(p, path) \in Inodes,
           NEW elems \in Seq(AllNames), NEW trans \in BOOLEAN,
           NEW r, r = Walk(Start(t, p, path, trans), elems)
    PROVE  r \in Walks /\ Came(t, r, r.ip, x)
  <2> USE <1>WalkFrom
  <2>1. PICK i \in Inodes : i = StartOf(p, path)
    BY Zenon
  <2>2. PICK v : v = Iget(t, i)
    BY Zenon
  <2>3. PICK s : s = [t |-> v, ip |-> i, trans |-> trans]
    BY Zenon
  <2>4. r = Walk(s, elems)
    BY <2>1, <2>2, <2>3, Zenon DEF Start
  <2>5. t \in Rec /\ Ok(t)
    BY Zenon DEF Good
  <2>6. /\ v \in Rec /\ v.ref = [t.ref EXCEPT ![i] = t.ref[i] + 1]
        /\ v.type = t.type /\ v.nlink = t.nlink /\ v.entry = t.entry /\ v.valid = t.valid
    <3>1. t \in Rec /\ i \in Inodes /\ v = Iget(t, i)
      BY <2>2, <2>5, Zenon
    <3>2. Got(t, i, v)
      BY <3>1, IgetIs, Zenon
    <3> QED BY <3>2, Zenon DEF Got
  <2>7. Good(v, i, x)
    BY <2>2, IgetGood, Zenon
  <2>8. s \in Walks /\ s.t = v /\ s.ip = i
    <3>1. i \in 0 .. NINODES
      BY FileSysAssumption DEF Inodes
    <3> QED BY <2>3, <2>6, <3>1, Zenon DEF Walks
  <2>9. r \in Walks /\ Walked(s, r, x)
    BY <2>4, <2>7, <2>8, <1>WalkGood, Zenon
  <2>10. \A j \in Inodes : Base(s, j) = t.ref[j]
    BY <2>5, <2>6, <2>8, RecFields DEF Base
  <2>11. ASSUME Ok(r.t) PROVE Came(t, r, r.ip, x)
    <3>1. /\ Good(r.t, r.ip, x) /\ Keeps(v, r.t, {j \in Inodes : Base(s, j) > 0})
          /\ \A j \in Inodes : Base(r, j) = Base(s, j)
      BY <2>8, <2>9, <2>11, Zenon DEF Walked
    <3>2. Keeps(t, r.t, Referenced(t))
      BY <2>6, <2>10, <3>1, Zenon DEF Keeps, Referenced
    <3>3. ASSUME NEW j \in Inodes PROVE r.t.ref[j] = t.ref[j] + (IF j = r.ip THEN 1 ELSE 0)
      <4>1. r.t \in Rec
        BY <3>1, Zenon DEF Good
      <4>2. r.t.ref[j] \in Int /\ t.ref[j] \in Int
        BY <2>5, <4>1, RecFields, Zenon
      <4> QED BY <2>10, <3>1, <4>2 DEF Base
    <3> QED BY <2>5, <3>1, <3>2, <3>3, Zenon DEF Came
  <2> QED BY <2>9, <2>11, Zenon DEF Came

\* namei(): the inode is referenced and not yet locked.
<1>NameiGood.
    ASSUME NEW t, NEW x, Good(t, 0, x), NEW p, NEW path \in Paths,
           StartOf(p, path) \in Inodes, NEW trans \in BOOLEAN,
           NEW r, r = Namei(t, p, path, trans)
    PROVE  r \in Walks /\ Came(t, r, r.ip, x)
  BY <1>NameiGood, <1>PathIs, <1>WalkFrom, Zenon DEF Namei

\* nameiparent() returns a directory that was locked.
<1>ParentGood.
    ASSUME NEW t, NEW x, Good(t, 0, x), NEW r \in Walks, Came(t, r, r.ip, x),
           NEW s, s = Parent(r)
    PROVE  /\ s \in Walks /\ Came(t, s, 0, x)
           /\ Ok(s.t) /\ s.ip # 0 => s.ip \in s.t.valid /\ s.t.type[s.ip] = "T_DIR"
  <2> USE <1>ParentGood
  <2>1. CASE r.ip = 0
    BY <2>1, Zenon DEF Parent
  <2>2. CASE r.ip # 0
    <3>1. PICK i \in Inodes : i = r.ip
      BY <2>2, FileSysAssumption DEF Walks, Inodes
    <3>2. PICK trans \in BOOLEAN : trans = r.trans
      BY Zenon DEF Walks
    <3>3. PICK v : v = Ilock(r.t, i)
      BY Zenon
    <3>4. r.t \in Rec
      BY Zenon DEF Walks
    <3>5. /\ v \in Rec
          /\ Ok(v) => /\ Ok(r.t)
                      /\ v.type = r.t.type /\ v.nlink = r.t.nlink /\ v.entry = r.t.entry
                      /\ v.ref = r.t.ref /\ v.valid = r.t.valid \cup {i}
      BY <3>3, <3>4, <1>IlockIs
    <3>6. ASSUME Ok(v)
          PROVE  /\ Ok(t) /\ Good(v, 0, x) /\ i \in v.valid /\ v.ref[i] > 0
                 /\ \A j \in Inodes : v.ref[j] = t.ref[j] + (IF j = i THEN 1 ELSE 0)
                 /\ Keeps(t, v, Referenced(t))
      <4>1. /\ Ok(t) /\ Good(r.t, i, x) /\ Keeps(t, r.t, Referenced(t))
            /\ \A j \in Inodes : r.t.ref[j] = t.ref[j] + (IF j = i THEN 1 ELSE 0)
        BY <3>1, <3>5, <3>6, Zenon DEF Came
      <4>2. r.t.ref[i] > 0
        BY <4>1, Zenon DEF Good, Sane
      <4>3. Good(v, 0, x) /\ i \in v.valid
        BY <3>3, <3>6, <4>1, <4>2, <1>IlockGood, Zenon
      <4>4. Keeps(t, v, Referenced(t))
        BY <3>5, <3>6, <4>1, Zenon DEF Keeps
      <4> QED BY <3>5, <3>6, <4>1, <4>2, <4>3, <4>4, Zenon
    <3>7. CASE v.type[i] = "T_DIR"
      <4>1. s = [r EXCEPT !.t = v]
        BY <2>2, <3>1, <3>3, <3>7, Zenon DEF Parent
      <4>2. s \in Walks
        BY <3>5, <4>1, Zenon DEF Walks
      <4>3. s.t = v /\ s.ip = i
        BY <3>1, <4>1, Zenon DEF Walks
      <4>4. Came(t, s, 0, x)
        BY <3>6, <4>3, Zenon DEF Came
      <4> QED BY <3>6, <3>7, <4>2, <4>3, <4>4, Zenon
    <3>8. CASE v.type[i] # "T_DIR"
      <4>1. PICK w : w = Iput(v, i, trans)
        BY Zenon
      <4>2. s = [r EXCEPT !.t = w, !.ip = 0]
        BY <2>2, <3>1, <3>2, <3>3, <3>8, <4>1, Zenon DEF Parent
      <4>3. w \in Rec /\ (Ok(w) => Ok(v))
        BY <3>5, <4>1, IputShape, Zenon
      <4>4. s \in Walks /\ s.t = w /\ s.ip = 0
        <5>1. 0 \in 0 .. NINODES
          BY FileSysAssumption
        <5>2. s.t = w /\ s.ip = 0
          BY <4>2, Zenon DEF Walks
        <5>3. s \in Walks
          BY <4>2, <4>3, <5>1, Zenon DEF Walks
        <5> QED BY <5>2, <5>3, Zenon
      <4>5. ASSUME Ok(w) PROVE Came(t, s, 0, x)
        <5>1. /\ Ok(t) /\ Good(v, 0, x) /\ v.ref[i] > 0 /\ Keeps(t, v, Referenced(t))
              /\ \A j \in Inodes : v.ref[j] = t.ref[j] + (IF j = i THEN 1 ELSE 0)
          BY <3>6, <4>3, <4>5, Zenon
        <5>2. i # 0
          BY DEF Inodes
        <5>3. /\ Good(w, 0, x) /\ w.ref = [v.ref EXCEPT ![i] = v.ref[i] - 1]
              /\ Keeps(v, w, Referenced(w))
          BY <4>1, <4>5, <5>1, <5>2, IputGood
        <5>4. t \in Rec /\ t.ref \in [Inodes -> Int] /\ v.ref \in [Inodes -> Int]
          BY <3>5, RecFields, Zenon DEF Good
        <5>5. \A j \in Inodes : w.ref[j] = t.ref[j]
          BY <5>1, <5>3, <5>4
        <5>6. Keeps(t, w, Referenced(t))
          BY <5>1, <5>3, <5>5, Zenon DEF Keeps, Referenced
        <5>7. \A j \in Inodes : w.ref[j] = t.ref[j] + (IF j = 0 THEN 1 ELSE 0)
          BY <5>4, <5>5, InodeIs
        <5> QED BY <4>4, <5>1, <5>3, <5>6, <5>7, Zenon DEF Came
      <4> QED BY <4>4, <4>5, Zenon DEF Came
    <3> QED BY <3>7, <3>8, Zenon
  <2> QED BY <2>1, <2>2, Zenon

<1>NameiparentGood.
    ASSUME NEW t, NEW x, Good(t, 0, x), NEW p, NEW path \in Paths,
           StartOf(p, path) \in Inodes, NEW trans \in BOOLEAN,
           NEW r, r = Nameiparent(t, p, path, trans)
    PROVE  /\ r \in Walks /\ Came(t, r, 0, x)
           /\ Ok(r.t) /\ r.ip # 0 => /\ r.ip \in r.t.valid /\ r.t.type[r.ip] = "T_DIR"
                                     /\ path.elems # << >>
  <2> USE <1>NameiparentGood
  <2>1. CASE path.elems = << >>
    <3>1. r = [t |-> t, ip |-> 0, trans |-> trans]
      BY <2>1, Zenon DEF Nameiparent
    <3>2. t \in Rec /\ Ok(t)
      BY Zenon DEF Good
    <3>3. r.t = t /\ r.ip = 0 /\ r \in Walks
      BY <3>1, <3>2, FileSysAssumption DEF Walks
    <3>4. \A j \in Inodes : t.ref[j] = t.ref[j] + (IF j = 0 THEN 1 ELSE 0)
      <4>1. t.ref \in [Inodes -> Int]
        BY <3>2, RecFields, Zenon
      <4> QED BY <4>1, InodeIs
    <3> QED BY <3>2, <3>3, <3>4, Zenon DEF Came, Keeps
  <2>2. CASE path.elems # << >>
    <3>1. SubSeq(path.elems, 1, Len(path.elems) - 1) \in Seq(AllNames)
      BY <2>2, <1>PathIs
    <3>2. PICK q : q = Walk(Start(t, p, path, trans), SubSeq(path.elems, 1, Len(path.elems) - 1))
      BY Zenon
    <3>3. q \in Walks /\ Came(t, q, q.ip, x)
      BY <3>1, <3>2, <1>WalkFrom, Zenon
    <3>4. r = Parent(q)
      BY <2>2, <3>2, Zenon DEF Nameiparent
    <3> QED BY <2>2, <3>3, <3>4, <1>ParentGood, Zenon
  <2> QED BY <2>1, <2>2, Zenon

(* Entering a name. *)

\* Links may have gained y.
<1>LinksMore.
    ASSUME NEW entry, NEW type, NEW entry2, NEW type2, NEW i, NEW y,
           \A z \in Links(entry2, type2, i) : z \in Links(entry, type, i) \/ z = y
    PROVE  /\ Cardinality(Links(entry2, type2, i)) \in Nat
           /\ Cardinality(Links(entry, type, i)) \in Nat
           /\ Cardinality(Links(entry2, type2, i)) <= Cardinality(Links(entry, type, i)) + 1
  <2> USE <1>LinksMore
  <2>1. PICK S, T : S = Links(entry, type, i) /\ T = Links(entry2, type2, i)
    BY Zenon
  <2>2. IsFiniteSet(S) /\ Cardinality(S) \in Nat /\ Cardinality(T) \in Nat
    BY <2>1, LinksFinite, Zenon
  <2>3. T \subseteq S \cup {y}
    BY <2>1, Zenon
  <2>4. Cardinality(T) <= Cardinality(S) + 1
    <3>1. CASE y \in S
      <4>1. T \in SUBSET S
        BY <2>3, <3>1, Zenon
      <4> QED BY <2>2, <4>1, Within
    <3>2. CASE y \notin S
      <4>1. PICK U : U = S \cup {y}
        BY Zenon
      <4>2. IsFiniteSet(U) /\ T \in SUBSET U
        BY <2>2, <2>3, <4>1, Zenon DEF Laws, AddLaw
      <4>3. Cardinality(U) = Cardinality(S) + 1
        BY <2>2, <3>2, <4>1, OneMore, Zenon
      <4> QED BY <2>2, <4>2, <4>3, Within, Zenon
    <3> QED BY <3>1, <3>2, Zenon
  <2> QED BY <2>1, <2>2, <2>4, Zenon

<1>NewInodeIs.
    ASSUME NEW t \in Rec, NEW dp \in Inodes, NEW ip \in Inodes, NEW name \in Names \cup {".."},
           NEW type \in Types, NEW v, v = NewInode(t, dp, name, type, ip)
    PROVE  /\ v \in Rec /\ (Ok(v) => Ok(t))
           /\ dp # ip => Dressed(t, dp, name, type, ip, v)
  <2> USE <1>NewInodeIs
  <2>1. PICK u : u = Iget(t, ip)
    BY Zenon
  <2>2. PICK nlink : nlink = [t.nlink EXCEPT ![ip] = 1,
                                 ![dp] = t.nlink[dp] + (IF type = "T_DIR" THEN 1 ELSE 0)]
    BY Zenon
  <2>3. PICK entry : entry = [t.entry EXCEPT ![dp][name] = ip,
                                 ![ip][".."] = IF type = "T_DIR" THEN dp ELSE 0]
    BY Zenon
  <2>4. /\ u \in Rec /\ u.ref = [t.ref EXCEPT ![ip] = t.ref[ip] + 1]
        /\ u.type = t.type /\ u.valid = t.valid /\ u.panic = t.panic
    BY <2>1, IgetIs DEF Got
  <2>5. v = [u EXCEPT !.type[ip] = type, !.nlink = nlink, !.entry = entry, !.valid = @ \cup {ip}]
    BY <2>1, <2>2, <2>3, Zenon DEF NewInode
  <2>6. v = Mk([u.type EXCEPT ![ip] = type], nlink, entry, u.ref, u.valid \cup {ip}, u.panic)
    <3> HIDE DEF Ok
    <3> QED BY <2>4, <2>5, Zenon DEF Rec, Mk
  <2>7. nlink \in [Inodes -> Int]
    BY <2>2, RecFields
  <2>8. entry \in [Inodes -> Entries]
    <3>1. PICK e : e = [t.entry EXCEPT ![dp][name] = ip]
      BY Zenon
    <3>2. e \in [Inodes -> Entries]
      BY <3>1, RecFields, InodeIs, Zenon DEF Entries
    <3>3. PICK x \in 0 .. NINODES : x = IF type = "T_DIR" THEN dp ELSE 0
      BY InodeIs, FileSysAssumption
    <3>4. entry = [e EXCEPT ![ip][".."] = x]
      BY <2>3, <3>1, <3>3, Zenon
    <3> QED BY <3>2, <3>4, Zenon DEF Entries
  <2>9. [u.type EXCEPT ![ip] = type] \in [Inodes -> Types] /\ u.valid \cup {ip} \in SUBSET Inodes
    BY <2>4, RecFields, Zenon
  <2>10. v \in Rec
    <3>1. PICK type2, valid : type2 = [u.type EXCEPT ![ip] = type] /\ valid = u.valid \cup {ip}
      BY Zenon
    <3>2. u.ref \in [Inodes -> Int] /\ u.panic \in Messages
      BY <2>4, RecFields, Zenon
    <3>3. v = Mk(type2, nlink, entry, u.ref, valid, u.panic)
      BY <2>6, <3>1, Zenon
    <3> QED BY <2>7, <2>8, <2>9, <3>1, <3>2, <3>3, Shape, Zenon
  <2>11. /\ v.type = [u.type EXCEPT ![ip] = type] /\ v.nlink = nlink /\ v.entry = entry
         /\ v.ref = u.ref /\ v.valid = u.valid \cup {ip} /\ v.panic = u.panic
    BY <2>6, SMT DEF Mk
  <2>12. Ok(v) => Ok(t)
    BY <2>4, <2>11, Zenon DEF Ok
  <2>13. \A j \in Inodes : v.type[j] = IF j = ip THEN type ELSE t.type[j]
    BY <2>4, <2>11, RecFields
  <2>14. ASSUME dp # ip, NEW j \in Inodes
         PROVE  v.nlink[j] = IF j = ip THEN 1
                             ELSE IF j = dp /\ type = "T_DIR" THEN t.nlink[j] + 1
                             ELSE t.nlink[j]
    BY <2>2, <2>11, <2>14, RecFields
  <2>15. ASSUME dp # ip, NEW d \in Inodes, NEW n \in Names
         PROVE  v.entry[d][n] = IF d = dp /\ n = name THEN ip ELSE t.entry[d][n]
    <3>1. t.entry \in [Inodes -> Entries] /\ n # ".."
      BY RecFields, FileSysAssumption, Zenon
    <3> QED BY <2>3, <2>11, <2>15, <3>1 DEF Entries
  <2> QED BY <2>4, <2>10, <2>11, <2>12, <2>13, <2>14, <2>15, Zenon DEF Dressed

\* The new inode has one link, its name, and a new directory is one in dp.
<1>NewInodeGood.
    ASSUME NEW t, Good(t, 0, 0), NEW dp \in Inodes, dp \in t.valid,
           NEW ip \in Inodes, t.type[ip] = "free",
           NEW name \in Names \cup {".."}, t.entry[dp][name] = 0,
           NEW type \in Types \ {"free"}, NEW v, v = NewInode(t, dp, name, type, ip)
    PROVE  Good(v, 0, 0) /\ dp # ip
  <2> USE <1>NewInodeGood
  <2>1. t \in Rec /\ Ok(t) /\ Sane(t, 0) /\ Linked(t, 0)
    BY Zenon DEF Good
  <2>2. dp # ip
    BY <2>1, Zenon DEF Sane
  <2>0. v \in Rec /\ Dressed(t, dp, name, type, ip, v)
    BY <2>1, <2>2, <1>NewInodeIs, Zenon
  <2>3. /\ v \in Rec /\ v.panic = t.panic
        /\ v.ref = [t.ref EXCEPT ![ip] = t.ref[ip] + 1]
        /\ v.valid = t.valid \cup {ip}
    BY <2>0, Zenon DEF Dressed
  <2>4. \A j \in Inodes :
          /\ v.type[j] = IF j = ip THEN type ELSE t.type[j]
          /\ v.nlink[j] = IF j = ip THEN 1
                          ELSE IF j = dp /\ type = "T_DIR" THEN t.nlink[j] + 1
                          ELSE t.nlink[j]
    BY <2>0, Zenon DEF Dressed
  <2>5. \A d \in Inodes, n \in Names :
          v.entry[d][n] = IF d = dp /\ n = name THEN ip ELSE t.entry[d][n]
    BY <2>0, Zenon DEF Dressed
  <2>6. Ok(v)
    BY <2>1, <2>3, Zenon DEF Ok
  <2>7. Sane(v, 0)
    <3>1. t.ref \in [Inodes -> Int]
      BY <2>1, RecFields, Zenon
    <3>2. \A j \in Inodes : v.ref[j] = IF j = ip THEN t.ref[j] + 1 ELSE t.ref[j]
      BY <2>3, <3>1, Zenon
    <3>3. t.ref[ip] \in Nat
      BY <2>1, Zenon DEF Sane
    <3> QED BY <2>1, <2>2, <2>3, <2>4, <3>2, <3>3 DEF Sane
  <2>8. Links(t.entry, t.type, ip) = {}
    <3>1. Cardinality(Links(t.entry, t.type, ip)) \in Nat
      BY LinksFinite, Zenon
    <3>2. t.nlink[ip] = 0 /\ t.nlink[ip] >= Cardinality(Links(t.entry, t.type, ip))
                                            + (IF ip = 0 THEN 1 ELSE 0)
      BY <2>1, Zenon DEF Sane, Linked
    <3>3. Cardinality(Links(t.entry, t.type, ip)) = 0
      BY <3>1, <3>2
    <3> QED BY <3>3, LinksFinite, NoneThere, Zenon
  <2>9. ASSUME NEW d \in Inodes, NEW n \in Names PROVE t.entry[d][n] # ip
    <3>1. <<d, <<n, "name">>>> \in Sources
      BY Zenon DEF Sources
    <3>2. SUFFICES ASSUME t.entry[d][n] = ip PROVE FALSE
      BY Zenon
    <3>3. <<d, <<n, "name">>>> \in Links(t.entry, t.type, ip)
      BY <3>1, <3>2, InodeIs, Zenon DEF Links
    <3> QED BY <2>8, <3>3, Zenon
  <2>10. ASSUME NEW j \in Inodes, NEW z \in Links(v.entry, v.type, j)
         PROVE  \/ z \in Links(t.entry, t.type, j)
                \/ j = ip /\ z = <<dp, <<name, "name">>>>
                \/ j = dp /\ type = "T_DIR" /\ z = <<dp, <<name, "dotdot">>>>
    <3>1. PICK d \in Inodes, n \in Names, k \in {"name", "dotdot"} : z = <<d, <<n, k>>>>
      BY DEF Links, Sources
    <3>2. /\ v.entry[d][n] # 0
          /\ \/ k = "name" /\ v.entry[d][n] = j
             \/ k = "dotdot" /\ d = j /\ v.type[v.entry[d][n]] = "T_DIR"
      BY <3>1, Zenon DEF Links
    <3>3. CASE d = dp /\ n = name
      <4>1. v.entry[d][n] = ip /\ v.type[ip] = type
        BY <2>4, <2>5, <3>3, Zenon
      <4> QED BY <3>1, <3>2, <3>3, <4>1, Zenon
    <3>4. CASE ~(d = dp /\ n = name)
      <4>1. v.entry[d][n] = t.entry[d][n]
        BY <2>5, <3>4, Zenon
      <4>2. t.entry[d][n] \in Inodes /\ t.entry[d][n] # ip
        <5>1. t.entry[d] \in Entries
          BY <2>1, RecFields, Zenon
        <5>2. t.entry[d][n] \in 0 .. NINODES
          BY <5>1, Zenon DEF Entries
        <5> QED BY <2>9, <3>2, <4>1, <5>2, FileSysAssumption DEF Inodes
      <4>3. v.type[t.entry[d][n]] = t.type[t.entry[d][n]]
        BY <2>4, <4>2, Zenon
      <4>4. z \in Sources
        BY <3>1, Zenon DEF Sources
      <4> QED BY <3>1, <3>2, <4>1, <4>3, <4>4, Zenon DEF Links
    <3> QED BY <3>3, <3>4, Zenon
  <2>11. ASSUME NEW j \in Inodes
         PROVE  v.nlink[j] >= Cardinality(Links(v.entry, v.type, j))
    <3>1. /\ t.nlink[j] \in Nat /\ Cardinality(Links(t.entry, t.type, j)) \in Nat
          /\ t.nlink[j] >= Cardinality(Links(t.entry, t.type, j))
      BY <2>1, LinksFinite, InodeIs DEF Sane, Linked
    <3>2. CASE j = ip \/ (j = dp /\ type = "T_DIR")
      <4>1. PICK y : y = IF j = ip THEN <<dp, <<name, "name">>>> ELSE <<dp, <<name, "dotdot">>>>
        BY Zenon
      <4>2. \A z \in Links(v.entry, v.type, j) : z \in Links(t.entry, t.type, j) \/ z = y
        BY <2>2, <2>10, <4>1, Zenon
      <4>3. /\ Cardinality(Links(v.entry, v.type, j)) \in Nat
            /\ Cardinality(Links(v.entry, v.type, j)) <= Cardinality(Links(t.entry, t.type, j)) + 1
        BY <4>2, <1>LinksMore, Zenon
      <4>4. v.nlink[j] = t.nlink[j] + 1
        BY <2>1, <2>4, <3>1, <3>2 DEF Sane
      <4> QED BY <3>1, <4>3, <4>4
    <3>3. CASE ~(j = ip \/ (j = dp /\ type = "T_DIR"))
      <4>1. Links(v.entry, v.type, j) \in SUBSET Links(t.entry, t.type, j)
        BY <2>10, <3>3, Zenon
      <4>2. /\ Cardinality(Links(v.entry, v.type, j)) \in Nat
            /\ Cardinality(Links(v.entry, v.type, j)) <= Cardinality(Links(t.entry, t.type, j))
        BY <4>1, LinksFinite, Within, Zenon
      <4>3. v.nlink[j] = t.nlink[j]
        BY <2>4, <3>3, Zenon
      <4> QED BY <3>1, <4>2, <4>3
    <3> QED BY <3>2, <3>3, Zenon
  <2>12. Linked(v, 0)
    <3> SUFFICES ASSUME NEW j \in Inodes
                 PROVE  v.nlink[j] >= Cardinality(Links(v.entry, v.type, j))
                                      + (IF j = 0 THEN 1 ELSE 0)
      BY Zenon DEF Linked
    <3>1. j # 0 /\ Cardinality(Links(v.entry, v.type, j)) \in Nat
      BY InodeIs, LinksFinite, Zenon
    <3> QED BY <2>11, <3>1
  <2> QED BY <2>2, <2>3, <2>6, <2>7, <2>12, Zenon DEF Good

<1>ExistingGood.
    ASSUME NEW r \in Walks, r.ip \in Inodes, NEW old \in Inodes, NEW type,
           NEW c, c = Existing(r, old, type)
    PROVE  /\ c.t \in Rec /\ c.ip \in 0 .. NINODES
           /\ Ok(c.t) => Ok(r.t)
           /\ Good(r.t, 0, 0) /\ r.t.ref[r.ip] > 0 => Made(r.t, r.ip, c)
  <2> USE <1>ExistingGood
  <2>1. PICK dp \in Inodes, u \in Rec : dp = r.ip /\ u = r.t
    BY Zenon DEF Walks
  <2>2. PICK t1 : t1 = Iget(u, old)
    BY Zenon
  <2>0. PICK trans \in BOOLEAN : trans = TRUE
    BY Zenon
  <2>3. PICK t2 : t2 = Iput(t1, dp, trans)
    BY Zenon
  <2>4. PICK t3 : t3 = Ilock(t2, old)
    BY Zenon
  <2>5. PICK t4 : t4 = Iput(t3, old, trans)
    BY Zenon
  <2>6. t1 \in Rec /\ (Ok(t1) => Ok(u))
    BY <2>2, <1>IgetShape, Zenon
  <2>7. t2 \in Rec /\ (Ok(t2) => Ok(t1))
    BY <2>3, <2>6, IputShape, Zenon
  <2>8. t3 \in Rec /\ (Ok(t3) => Ok(t2))
    BY <2>4, <2>7, <1>IlockShape, Zenon
  <2>9. t4 \in Rec /\ (Ok(t4) => Ok(t3))
    BY <2>5, <2>8, IputShape, Zenon
  <2>10. \/ c = [t |-> t3, ip |-> old]
         \/ c = [t |-> t4, ip |-> 0]
    BY <2>0, <2>1, <2>2, <2>3, <2>4, <2>5, Zenon DEF Existing
  <2>11. ASSUME Good(u, 0, 0), u.ref[dp] > 0, Ok(t3)
         PROVE  /\ Good(t3, 0, 0) /\ t3.ref[old] > 0
                /\ \A j \in Inodes : t3.ref[j] = u.ref[j] - (IF j = dp THEN 1 ELSE 0)
                                                 + (IF j = old THEN 1 ELSE 0)
    <3>1. Good(t1, old, 0)
      BY <2>2, <2>11, IgetGood, Zenon
    <3>2. u.ref \in [Inodes -> Int] /\ t1.ref = [u.ref EXCEPT ![old] = u.ref[old] + 1]
      BY <2>2, IgetIs, RecFields DEF Got
    <3>3. t1.ref[dp] > 0 /\ (dp = old => t1.ref[dp] > 1)
      BY <2>11, <3>2
    <3>4. Good(t2, old, 0) /\ t2.ref = [t1.ref EXCEPT ![dp] = t1.ref[dp] - 1]
      BY <2>3, <2>8, <2>11, <3>1, <3>3, IputGood
    <3>5. t2.ref[old] > 0
      BY <3>4, Zenon DEF Good, Sane
    <3>6. Good(t3, 0, 0)
      BY <2>4, <2>11, <3>4, <3>5, <1>IlockGood, Zenon
    <3>7. t3.ref = t2.ref
      BY <2>4, <2>7, <2>11, <1>IlockIs
    <3>8. \A j \in Inodes : t1.ref[j] = u.ref[j] + (IF j = old THEN 1 ELSE 0)
      BY <3>2
    <3>9. \A j \in Inodes : t2.ref[j] = t1.ref[j] - (IF j = dp THEN 1 ELSE 0)
      BY <2>6, <3>4, RecFields
    <3>10. \A j \in Inodes : t3.ref[j] = u.ref[j] - (IF j = dp THEN 1 ELSE 0)
                                         + (IF j = old THEN 1 ELSE 0)
      BY <3>2, <3>7, <3>8, <3>9
    <3> QED BY <3>5, <3>6, <3>7, <3>10, Zenon
  <2>12. CASE c = [t |-> t3, ip |-> old]
    <3>1. c.t = t3 /\ c.ip = old /\ old \in 0 .. NINODES
      BY <2>12, InodeIs
    <3> QED BY <2>1, <2>6, <2>7, <2>8, <2>11, <3>1, Zenon DEF Made
  <2>13. CASE c = [t |-> t4, ip |-> 0]
    <3>1. c.t = t4 /\ c.ip = 0 /\ 0 \in 0 .. NINODES
      BY <2>13, FileSysAssumption
    <3>2. ASSUME Good(u, 0, 0), u.ref[dp] > 0, Ok(t4) PROVE Made(u, dp, c)
      <4>1. /\ Good(t3, 0, 0) /\ t3.ref[old] > 0
            /\ \A j \in Inodes : t3.ref[j] = u.ref[j] - (IF j = dp THEN 1 ELSE 0)
                                             + (IF j = old THEN 1 ELSE 0)
        BY <2>9, <2>11, <3>2, Zenon
      <4>2. Good(t4, 0, 0) /\ t4.ref = [t3.ref EXCEPT ![old] = t3.ref[old] - 1]
        <5>1. old \in Inodes /\ t4 = Iput(t3, old, trans) /\ Ok(t4) /\ old # 0
          BY <2>5, <3>2, InodeIs, Zenon
        <5>2. Good(t4, 0, 0)
          BY <4>1, <5>1, IputGood, Zenon
        <5>3. t4.ref = [t3.ref EXCEPT ![old] = t3.ref[old] - 1]
          BY <4>1, <5>1, IputGood
        <5> QED BY <5>2, <5>3, Zenon
      <4>3. u.ref \in [Inodes -> Int] /\ t3.ref \in [Inodes -> Int]
        BY <2>8, RecFields, Zenon
      <4>4. \A j \in Inodes : t4.ref[j] = u.ref[j] - (IF j = dp THEN 1 ELSE 0)
                                          + (IF j = 0 THEN 1 ELSE 0)
        <5>1. \A j \in Inodes : t4.ref[j] = t3.ref[j] - (IF j = old THEN 1 ELSE 0)
          BY <4>2, <4>3
        <5> QED BY <4>1, <4>3, <5>1, InodeIs
      <4> QED BY <3>1, <4>2, <4>4, Zenon DEF Made
    <3> QED BY <2>1, <2>6, <2>7, <2>8, <2>9, <3>1, <3>2, Zenon DEF Made
  <2> QED BY <2>10, <2>12, <2>13, Zenon

<1>CreateGood.
    ASSUME NEW r \in Walks, r.ip \in Inodes, NEW name \in AllNames,
           NEW type \in Types \ {"free"}, NEW c, c = Create(r, name, type)
    PROVE  /\ c.t \in Rec /\ c.ip \in 0 .. NINODES
           /\ Ok(c.t) => Ok(r.t)
           /\ Good(r.t, 0, 0) /\ r.ip \in r.t.valid => Made(r.t, r.ip, c)
  <2> USE <1>CreateGood
  <2>1. PICK dp \in Inodes, u \in Rec : dp = r.ip /\ u = r.t
    BY Zenon DEF Walks
  <2>2. PICK old \in 0 .. NINODES : old = Dirlookup(u, dp, name)
    BY <1>DirlookupIs, Zenon
  <2>3. CASE old # 0
    <3>1. old \in Inodes /\ c = Existing(r, old, type)
      <4>1. old \in Inodes
        BY <2>3, FileSysAssumption DEF Inodes
      <4>2. c = Existing(r, old, type)
        BY <2>1, <2>2, <2>3, Zenon DEF Create
      <4> QED BY <4>1, <4>2, Zenon
    <3>2. Good(u, 0, 0) /\ dp \in u.valid => u.ref[dp] > 0
      BY Zenon DEF Good, Sane
    <3> QED BY <2>1, <3>1, <3>2, <1>ExistingGood, Zenon
  <2>4. CASE old = 0 /\ FreeInodes(u) = {}
    <3>1. PICK msg : msg = "ialloc: no inodes"
      BY Zenon
    <3>2. c = [t |-> Panic(u, msg), ip |-> 0] /\ Message(msg)
      BY <2>1, <2>2, <2>4, <3>1, Zenon DEF Create, Message, Messages
    <3>3. Panic(u, msg) \in Rec /\ ~Ok(Panic(u, msg))
      BY <3>2, PanicIs, Zenon
    <3>4. c.t = Panic(u, msg) /\ c.ip = 0 /\ 0 \in 0 .. NINODES
      BY <3>2, FileSysAssumption
    <3> QED BY <3>3, <3>4, Zenon DEF Made
  <2>5. CASE old = 0 /\ FreeInodes(u) # {}
    <3>1. PICK ip : ip = FirstInode(u)
      BY Zenon
    <3>2. ip \in FreeInodes(u)
      <4>1. FreeInodes(u) \in SUBSET Nat
        BY DEF FreeInodes, Inodes
      <4>2. \E i \in FreeInodes(u) : \A j \in FreeInodes(u) : i <= j
        BY <2>5, <4>1, Least, Zenon
      <4> QED BY <3>1, <4>2, Zenon DEF FirstInode
    <3>3. ip \in Inodes /\ u.type[ip] = "free"
      BY <3>2, Zenon DEF FreeInodes
    <3>4. name \in Names \cup {".."} /\ u.entry[dp][name] = 0
      BY <2>2, <2>5, InodeIs, Zenon DEF Dirlookup, AllNames
    <3>5. PICK v : v = NewInode(u, dp, name, type, ip)
      BY Zenon
    <3>0. PICK trans \in BOOLEAN : trans = TRUE
      BY Zenon
    <3>6. PICK w : w = Iput(v, dp, trans)
      BY Zenon
    <3>7. c = [t |-> w, ip |-> ip]
      BY <2>1, <2>2, <2>5, <3>0, <3>1, <3>5, <3>6, Zenon DEF Create
    <3>8. type \in Types /\ dp \in Inodes
      BY Zenon
    <3>9. /\ v \in Rec /\ (Ok(v) => Ok(u))
          /\ dp # ip => Dressed(u, dp, name, type, ip, v)
      BY <3>3, <3>4, <3>5, <3>8, <1>NewInodeIs, Zenon
    <3>10. w \in Rec /\ (Ok(w) => Ok(v))
      BY <3>6, <3>9, IputShape, Zenon
    <3>11. c.t = w /\ c.ip = ip /\ ip \in 0 .. NINODES
      BY <3>3, <3>7, InodeIs
    <3>12. ASSUME Good(u, 0, 0), dp \in u.valid, Ok(w) PROVE Made(u, dp, c)
      <4>1. Good(v, 0, 0) /\ dp # ip
        BY <3>3, <3>4, <3>5, <3>12, <1>NewInodeGood, Zenon
      <4>2. v.ref = [u.ref EXCEPT ![ip] = u.ref[ip] + 1]
        BY <3>9, <4>1, Zenon DEF Dressed
      <4>3. u.ref \in [Inodes -> Int] /\ u.ref[dp] > 0
        BY <3>12, RecFields, Zenon DEF Good, Sane
      <4>4. v.ref[dp] > 0 /\ dp # 0
        BY <3>3, <4>1, <4>2, <4>3, InodeIs, Zenon
      <4>5. Good(w, 0, 0) /\ w.ref = [v.ref EXCEPT ![dp] = v.ref[dp] - 1]
        BY <3>6, <3>12, <4>1, <4>4, IputGood
      <4>6. \A j \in Inodes : w.ref[j] = u.ref[j] - (IF j = dp THEN 1 ELSE 0)
                                         + (IF j = ip THEN 1 ELSE 0)
        <5>1. \A j \in Inodes : v.ref[j] = u.ref[j] + (IF j = ip THEN 1 ELSE 0)
          BY <3>3, <4>2, <4>3
        <5>2. \A j \in Inodes : w.ref[j] = v.ref[j] - (IF j = dp THEN 1 ELSE 0)
          BY <3>9, <4>5, RecFields
        <5> QED BY <4>3, <5>1, <5>2
      <4> QED BY <3>11, <4>5, <4>6, Zenon DEF Made
    <3> QED BY <2>1, <3>9, <3>10, <3>11, <3>12, Zenon DEF Made
  <2> QED BY <2>3, <2>4, <2>5, Zenon

(* sys_link(). *)

\* A link count alone is changed, or an entry.
<1>NlinkIs.
    ASSUME NEW t \in Rec, NEW i \in Inodes, NEW n \in Int, NEW v, v = [t EXCEPT !.nlink[i] = n]
    PROVE  /\ v \in Rec
           /\ v.type = t.type /\ v.entry = t.entry /\ v.valid = t.valid /\ v.ref = t.ref
           /\ v.panic = t.panic
           /\ \A j \in Inodes : v.nlink[j] = IF j = i THEN n ELSE t.nlink[j]
  <2> USE <1>NlinkIs
  <2>1. PICK nlink : nlink = [t.nlink EXCEPT ![i] = n]
    BY Zenon
  <2>2. v = Mk(t.type, nlink, t.entry, t.ref, t.valid, t.panic)
    BY <2>1, Zenon DEF Rec, Mk
  <2>3. nlink \in [Inodes -> Int]
    BY <2>1, RecFields, Zenon
  <2>4. v \in Rec
    BY <2>2, <2>3, Shape, RecFields, Zenon
  <2>6. \A j \in Inodes : nlink[j] = IF j = i THEN n ELSE t.nlink[j]
    BY <2>1, RecFields, Zenon
  <2>5. /\ v.type = t.type /\ v.nlink = nlink /\ v.entry = t.entry /\ v.valid = t.valid
        /\ v.ref = t.ref /\ v.panic = t.panic
    BY <2>2, SMT DEF Mk
  <2> QED BY <2>4, <2>5, <2>6, Zenon

<1>EntryIs.
    ASSUME NEW t \in Rec, NEW dp \in Inodes, NEW name \in Names \cup {".."}, NEW i \in 0 .. NINODES,
           NEW v, v = [t EXCEPT !.entry[dp][name] = i]
    PROVE  Entered(t, dp, name, i, v)
  <2> USE <1>EntryIs
  <2>1. PICK entry : entry = [t.entry EXCEPT ![dp][name] = i]
    BY Zenon
  <2>2. v = Mk(t.type, t.nlink, entry, t.ref, t.valid, t.panic)
    BY <2>1, Zenon DEF Rec, Mk
  <2>0. t.entry \in [Inodes -> Entries]
    BY RecFields, Zenon
  <2>3. entry \in [Inodes -> Entries]
    BY <2>0, <2>1, Zenon DEF Entries
  <2>6. ASSUME NEW d \in Inodes, NEW n \in Names
        PROVE  entry[d][n] = IF d = dp /\ n = name THEN i ELSE t.entry[d][n]
    BY <2>0, <2>1, Zenon DEF Entries
  <2>4. v \in Rec
    BY <2>2, <2>3, Shape, RecFields, Zenon
  <2>5. /\ v.type = t.type /\ v.nlink = t.nlink /\ v.entry = entry /\ v.valid = t.valid
        /\ v.ref = t.ref /\ v.panic = t.panic
    BY <2>2, SMT DEF Mk
  <2> QED BY <2>4, <2>5, <2>6, Zenon DEF Entered

\* The link count raised for a name to come.
<1>RaiseGood.
    ASSUME NEW t, Good(t, 0, 0), NEW ip \in Inodes, t.type[ip] # "free",
           NEW v, v = [t EXCEPT !.nlink[ip] = t.nlink[ip] + 1]
    PROVE  Good(v, 0, ip)
  <2> USE <1>RaiseGood
  <2>1. t \in Rec /\ Ok(t) /\ Sane(t, 0) /\ Linked(t, 0)
    BY Zenon DEF Good
  <2>2. PICK n : n = t.nlink[ip] + 1
    BY Zenon
  <2>3. n \in Int /\ t.nlink[ip] \in Nat /\ v = [t EXCEPT !.nlink[ip] = n]
    BY <2>1, <2>2 DEF Sane
  <2>4. /\ v \in Rec
        /\ v.type = t.type /\ v.entry = t.entry /\ v.valid = t.valid /\ v.ref = t.ref
        /\ v.panic = t.panic
        /\ \A j \in Inodes : v.nlink[j] = IF j = ip THEN n ELSE t.nlink[j]
    BY <2>1, <2>3, <1>NlinkIs
  <2>5. Ok(v)
    BY <2>1, <2>4, Zenon DEF Ok
  <2>6. Sane(v, 0)
    BY <2>1, <2>2, <2>3, <2>4 DEF Sane
  <2>7. Linked(v, ip)
    <3> SUFFICES ASSUME NEW j \in Inodes
                 PROVE  v.nlink[j] >= Cardinality(Links(v.entry, v.type, j))
                                      + (IF j = ip THEN 1 ELSE 0)
      BY Zenon DEF Linked
    <3>1. PICK c \in Nat : c = Cardinality(Links(t.entry, t.type, j))
      BY LinksFinite, Zenon
    <3>2. t.nlink[j] \in Nat /\ t.nlink[j] >= c
      BY <2>1, <3>1, InodeIs DEF Linked, Sane
    <3>3. v.nlink[j] = IF j = ip THEN t.nlink[j] + 1 ELSE t.nlink[j]
      BY <2>2, <2>4, Zenon
    <3> QED BY <2>4, <3>1, <3>2, <3>3
  <2> QED BY <2>4, <2>5, <2>6, <2>7, Zenon DEF Good

\* The link count lowered, for a name that did not come or has gone.
<1>LowerGood.
    ASSUME NEW t, NEW ip \in Inodes, Good(t, 0, ip), ip \in t.valid,
           NEW v, v = [t EXCEPT !.nlink[ip] = t.nlink[ip] - 1]
    PROVE  Good(v, 0, 0) /\ v.ref = t.ref
  <2> USE <1>LowerGood
  <2>1. t \in Rec /\ Ok(t) /\ Sane(t, 0) /\ Linked(t, ip)
    BY Zenon DEF Good
  <2>2. PICK n : n = t.nlink[ip] - 1
    BY Zenon
  <2>3. n \in Int /\ v = [t EXCEPT !.nlink[ip] = n]
    BY <2>1, <2>2 DEF Sane
  <2>4. /\ v \in Rec
        /\ v.type = t.type /\ v.entry = t.entry /\ v.valid = t.valid /\ v.ref = t.ref
        /\ v.panic = t.panic
        /\ \A j \in Inodes : v.nlink[j] = IF j = ip THEN n ELSE t.nlink[j]
    BY <2>1, <2>3, <1>NlinkIs
  <2>5. Ok(v)
    BY <2>1, <2>4, Zenon DEF Ok
  <2>6. ASSUME NEW j \in Inodes
        PROVE  /\ v.nlink[j] \in Nat
               /\ v.nlink[j] >= Cardinality(Links(v.entry, v.type, j)) + (IF j = 0 THEN 1 ELSE 0)
    <3>1. PICK c \in Nat : c = Cardinality(Links(t.entry, t.type, j))
      BY LinksFinite, Zenon
    <3>2. t.nlink[j] \in Nat /\ t.nlink[j] >= c + (IF j = ip THEN 1 ELSE 0)
      BY <2>1, <3>1, Zenon DEF Linked, Sane
    <3>3. v.nlink[j] = IF j = ip THEN t.nlink[j] - 1 ELSE t.nlink[j]
      BY <2>2, <2>4, Zenon
    <3> QED BY <2>4, <3>1, <3>2, <3>3, InodeIs
  <2>7. Sane(v, 0)
    BY <2>1, <2>2, <2>4, <2>6, Zenon DEF Sane
  <2>8. Linked(v, 0)
    BY <2>6, Zenon DEF Linked
  <2> QED BY <2>4, <2>5, <2>7, <2>8, Zenon DEF Good

\* The name entered.
<1>EnterGood.
    ASSUME NEW t, NEW ip \in Inodes, Good(t, 0, ip), NEW dp \in Inodes,
           NEW name \in Names \cup {".."}, t.entry[dp][name] = 0, t.type[ip] # "T_DIR",
           NEW v, v = [t EXCEPT !.entry[dp][name] = ip]
    PROVE  Good(v, 0, 0) /\ v.ref = t.ref
  <2> USE <1>EnterGood
  <2>1. t \in Rec /\ Ok(t) /\ Sane(t, 0) /\ Linked(t, ip) /\ ip \in 0 .. NINODES
    BY InodeIs, Zenon DEF Good
  <2>2. /\ v \in Rec
        /\ v.type = t.type /\ v.nlink = t.nlink /\ v.valid = t.valid /\ v.ref = t.ref
        /\ v.panic = t.panic
        /\ \A d \in Inodes, n \in Names :
              v.entry[d][n] = IF d = dp /\ n = name THEN ip ELSE t.entry[d][n]
    <3>1. Entered(t, dp, name, ip, v)
      BY <2>1, <1>EntryIs, Zenon
    <3> QED BY <3>1, Zenon DEF Entered
  <2>3. Ok(v)
    BY <2>1, <2>2, Zenon DEF Ok
  <2>4. Sane(v, 0)
    BY <2>1, <2>2, Zenon DEF Sane
  <2>5. ASSUME NEW j \in Inodes, NEW z \in Links(v.entry, v.type, j)
        PROVE  \/ z \in Links(t.entry, t.type, j)
               \/ j = ip /\ z = <<dp, <<name, "name">>>>
    <3>1. PICK d \in Inodes, n \in Names, k \in {"name", "dotdot"} : z = <<d, <<n, k>>>>
      BY DEF Links, Sources
    <3>2. /\ v.entry[d][n] # 0
          /\ \/ k = "name" /\ v.entry[d][n] = j
             \/ k = "dotdot" /\ d = j /\ t.type[v.entry[d][n]] = "T_DIR"
      BY <2>2, <3>1, Zenon DEF Links
    <3>3. CASE d = dp /\ n = name
      BY <2>2, <3>1, <3>2, <3>3
    <3>4. CASE ~(d = dp /\ n = name)
      <4>1. v.entry[d][n] = t.entry[d][n]
        BY <2>2, <3>4
      <4>2. z \in Sources
        BY <3>1, Zenon DEF Sources
      <4> QED BY <3>1, <3>2, <4>1, <4>2, Zenon DEF Links
    <3> QED BY <3>3, <3>4, Zenon
  <2>6. Linked(v, 0)
    <3> SUFFICES ASSUME NEW j \in Inodes
                 PROVE  t.nlink[j] >= Cardinality(Links(v.entry, v.type, j))
                                      + (IF j = 0 THEN 1 ELSE 0)
      BY <2>2, Zenon DEF Linked
    <3>1. PICK c \in Nat : c = Cardinality(Links(t.entry, t.type, j))
      BY LinksFinite, Zenon
    <3>2. t.nlink[j] \in Nat /\ t.nlink[j] >= c + (IF j = ip THEN 1 ELSE 0)
      BY <2>1, <3>1, Zenon DEF Linked, Sane
    <3>3. CASE j = ip
      <4>1. \A z \in Links(v.entry, v.type, j) :
               z \in Links(t.entry, t.type, j) \/ z = <<dp, <<name, "name">>>>
        BY <2>5, Zenon
      <4>2. /\ Cardinality(Links(v.entry, v.type, j)) \in Nat
            /\ Cardinality(Links(v.entry, v.type, j)) <= c + 1
        BY <3>1, <4>1, <1>LinksMore, Zenon
      <4> QED BY <3>2, <3>3, <4>2, InodeIs
    <3>4. CASE j # ip
      <4>1. Links(v.entry, v.type, j) \in SUBSET Links(t.entry, t.type, j)
        BY <2>5, <3>4, Zenon
      <4>2. /\ Cardinality(Links(v.entry, v.type, j)) \in Nat
            /\ Cardinality(Links(v.entry, v.type, j)) <= c
        BY <3>1, <4>1, LinksFinite, Within, Zenon
      <4> QED BY <3>2, <3>4, <4>2, InodeIs
    <3> QED BY <3>3, <3>4, Zenon
  <2> QED BY <2>2, <2>3, <2>4, <2>6, Zenon DEF Good

<1>LinkBadGood.
    ASSUME NEW t \in Rec, NEW ip \in Inodes, NEW v, v = LinkBad(t, ip)
    PROVE  /\ v \in Rec /\ (Ok(v) => Ok(t))
           /\ Ok(v) /\ Good(t, 0, ip) /\ t.ref[ip] > 0 => Good(v, 0, 0) /\ Left(t, v, 0, ip)
  <2> USE <1>LinkBadGood
  <2>0. PICK u, w : u = Ilock(t, ip) /\ w = [u EXCEPT !.nlink[ip] = u.nlink[ip] - 1]
    BY Zenon
  <2>1. PICK trans \in BOOLEAN :
           /\ u = Ilock(t, ip) /\ w = [u EXCEPT !.nlink[ip] = u.nlink[ip] - 1] /\ trans = TRUE
    BY <2>0, Zenon
  <2>2. u \in Rec /\ (Ok(u) => Ok(t)) /\ (Ok(u) => u.ref = t.ref)
    BY <2>1, <1>IlockIs
  <2>3. v = Iput(w, ip, trans)
    BY <2>1, Zenon DEF LinkBad
  <2>4. w \in Rec /\ w.panic = u.panic
    <3>1. PICK n \in Int : n = u.nlink[ip] - 1
      BY <2>2, RecFields
    <3>2. w = [u EXCEPT !.nlink[ip] = n]
      BY <2>1, <3>1, Zenon
    <3> QED BY <2>2, <3>2, <1>NlinkIs
  <2>5. Ok(w) => Ok(u)
    BY <2>4, Zenon DEF Ok
  <2>6. v \in Rec /\ (Ok(v) => Ok(w))
    BY <2>3, <2>4, IputShape, Zenon
  <2>7. ASSUME Ok(v), Good(t, 0, ip), t.ref[ip] > 0
        PROVE  Good(v, 0, 0) /\ Left(t, v, 0, ip)
    <3>1. Ok(u)
      BY <2>5, <2>6, <2>7, Zenon
    <3>2. Good(u, 0, ip) /\ ip \in u.valid
      BY <2>1, <2>7, <3>1, <1>IlockGood, Zenon
    <3>3. Good(w, 0, 0) /\ w.ref = u.ref
      BY <2>1, <3>2, <1>LowerGood
    <3>4. w.ref[ip] > 0 /\ ip # 0
      BY <2>2, <2>7, <3>1, <3>3, InodeIs, Zenon
    <3>5. Good(v, 0, 0) /\ v.ref = [w.ref EXCEPT ![ip] = w.ref[ip] - 1]
      BY <2>3, <2>7, <3>3, <3>4, IputGood
    <3>6. ASSUME NEW j \in Inodes
          PROVE  v.ref[j] = t.ref[j] - (IF j = 0 THEN 1 ELSE 0) - (IF j = ip THEN 1 ELSE 0)
      <4>1. w.ref = t.ref /\ t.ref \in [Inodes -> Int] /\ j # 0 /\ t.ref[j] \in Int
        BY <2>2, <3>1, <3>3, RecFields, InodeIs, Zenon
      <4>2. v.ref[j] = IF j = ip THEN t.ref[j] - 1 ELSE t.ref[j]
        BY <3>5, <4>1, Zenon
      <4> QED BY <4>1, <4>2
    <3> QED BY <3>5, <3>6, Zenon DEF Left
  <2> QED BY <2>2, <2>5, <2>6, <2>7, Zenon

\* Two references given back, one after the other.
<1>PutTwo.
    ASSUME NEW t \in Rec, NEW a \in Inodes, NEW b \in Inodes, NEW trans \in BOOLEAN,
           NEW v, v = Iput(Iput(t, a, trans), b, trans)
    PROVE  /\ v \in Rec /\ (Ok(v) => Ok(t))
           /\ Ok(v) /\ Good(t, 0, 0) /\ t.ref[a] > 0 /\ t.ref[b] > (IF a = b THEN 1 ELSE 0)
              => Good(v, 0, 0) /\ Left(t, v, a, b)
  <2> USE <1>PutTwo
  <2>1. PICK w : w = Iput(t, a, trans)
    BY Zenon
  <2>2. w \in Rec /\ (Ok(w) => Ok(t))
    BY <2>1, IputShape, Zenon
  <2>3. v \in Rec /\ (Ok(v) => Ok(w))
    BY <2>1, <2>2, IputShape, Zenon
  <2>4. ASSUME Ok(v), Good(t, 0, 0), t.ref[a] > 0, t.ref[b] > (IF a = b THEN 1 ELSE 0)
        PROVE  Good(v, 0, 0) /\ Left(t, v, a, b)
    <3>1. Ok(w) /\ a # 0 /\ b # 0 /\ t.ref \in [Inodes -> Int] /\ w.ref \in [Inodes -> Int]
      BY <2>2, <2>3, <2>4, InodeIs, RecFields, Zenon
    <3>2. Good(w, 0, 0) /\ w.ref = [t.ref EXCEPT ![a] = t.ref[a] - 1]
      BY <2>1, <2>4, <3>1, IputGood
    <3>3. w.ref[b] > 0
      BY <2>4, <3>1, <3>2
    <3>4. Good(v, 0, 0) /\ v.ref = [w.ref EXCEPT ![b] = w.ref[b] - 1]
      BY <2>1, <2>4, <3>1, <3>2, <3>3, IputGood
    <3>5. ASSUME NEW j \in Inodes
          PROVE  v.ref[j] = t.ref[j] - (IF j = a THEN 1 ELSE 0) - (IF j = b THEN 1 ELSE 0)
      <4>1. t.ref[j] \in Int /\ w.ref[j] \in Int
        BY <3>1, Zenon
      <4>2. w.ref[j] = t.ref[j] - (IF j = a THEN 1 ELSE 0)
        BY <3>1, <3>2, <4>1
      <4>3. v.ref[j] = w.ref[j] - (IF j = b THEN 1 ELSE 0)
        BY <3>1, <3>4, <4>1
      <4> QED BY <4>2, <4>3, Zenon
    <3> QED BY <3>4, <3>5, Zenon DEF Left
  <2> QED BY <2>2, <2>3, <2>4, Zenon

\* The name is entered, or the link count lowered again.
<1>LinkToGood.
    ASSUME NEW q \in Walks, NEW ip \in Inodes, NEW name \in AllNames,
           NEW v, v = LinkTo(q, name, ip)
    PROVE  /\ v \in Rec /\ (Ok(v) => Ok(q.t))
           /\ Ok(v) /\ Good(q.t, 0, ip) /\ q.t.ref[ip] > (IF q.ip = ip THEN 1 ELSE 0)
              /\ (q.ip # 0 => q.t.ref[q.ip] > 0) /\ q.t.type[ip] # "T_DIR"
              => Good(v, 0, 0) /\ Left(q.t, v, q.ip, ip)
  <2> USE <1>LinkToGood
  <2>1. PICK t \in Rec, dp \in 0 .. NINODES, trans \in BOOLEAN :
             t = q.t /\ dp = q.ip /\ trans = TRUE
    BY Zenon DEF Walks
  <2>2. CASE dp = 0
    <3>1. v = LinkBad(t, ip) /\ dp # ip
      BY <2>1, <2>2, InodeIs, Zenon DEF LinkTo
    <3> QED BY <2>1, <2>2, <3>1, <1>LinkBadGood, Zenon
  <2>3. CASE dp # 0
    <3>0. dp \in Inodes
      BY <2>3, FileSysAssumption DEF Inodes
    <3>1. CASE Dirlookup(t, dp, name) # 0
      <4>1. PICK w : w = Iput(t, dp, trans)
        BY Zenon
      <4>2. v = LinkBad(w, ip)
        BY <2>1, <2>3, <3>1, <4>1, Zenon DEF LinkTo
      <4>3. w \in Rec /\ (Ok(w) => Ok(t))
        BY <3>0, <4>1, IputShape, Zenon
      <4>4. v \in Rec /\ (Ok(v) => Ok(w))
        BY <4>2, <4>3, <1>LinkBadGood, Zenon
      <4>5. ASSUME Ok(v), Good(t, 0, ip), t.ref[ip] > (IF dp = ip THEN 1 ELSE 0), t.ref[dp] > 0
            PROVE  Good(v, 0, 0) /\ Left(t, v, dp, ip)
        <5>1. Ok(w) /\ t.ref \in [Inodes -> Int] /\ w.ref \in [Inodes -> Int]
          BY <4>3, <4>4, <4>5, RecFields, Zenon
        <5>2. Good(w, 0, ip) /\ w.ref = [t.ref EXCEPT ![dp] = t.ref[dp] - 1]
          BY <2>3, <3>0, <4>1, <4>5, <5>1, IputGood
        <5>3. w.ref[ip] > 0
          BY <3>0, <4>5, <5>1, <5>2
        <5>4. Good(v, 0, 0) /\ Left(w, v, 0, ip)
          BY <4>2, <4>3, <4>5, <5>2, <5>3, <1>LinkBadGood, Zenon
        <5>5. ASSUME NEW j \in Inodes
              PROVE  v.ref[j] = t.ref[j] - (IF j = dp THEN 1 ELSE 0) - (IF j = ip THEN 1 ELSE 0)
          <6>1. t.ref[j] \in Int /\ w.ref[j] \in Int /\ j # 0
            BY <5>1, InodeIs, Zenon
          <6>2. w.ref[j] = t.ref[j] - (IF j = dp THEN 1 ELSE 0)
            BY <3>0, <5>1, <5>2, <6>1
          <6>3. v.ref[j] = w.ref[j] - (IF j = ip THEN 1 ELSE 0)
            BY <5>4, <6>1 DEF Left
          <6> QED BY <6>2, <6>3, Zenon
        <5> QED BY <5>4, <5>5, Zenon DEF Left
      <4> QED BY <2>1, <2>3, <4>3, <4>4, <4>5, Zenon
    <3>2. CASE Dirlookup(t, dp, name) = 0
      <4>1. PICK w : w = [t EXCEPT !.entry[dp][name] = ip]
        BY Zenon
      <4>2. v = Iput(Iput(w, dp, trans), ip, trans)
        BY <2>1, <2>3, <3>2, <4>1, Zenon DEF LinkTo
      <4>3. name \in Names \cup {".."} /\ t.entry[dp][name] = 0
        BY <2>3, <3>2, Zenon DEF Dirlookup, AllNames
      <4>4. w \in Rec /\ w.panic = t.panic /\ ip \in 0 .. NINODES
        <5>1. ip \in 0 .. NINODES
          BY InodeIs, Zenon
        <5>2. Entered(t, dp, name, ip, w)
          BY <3>0, <4>1, <4>3, <5>1, <1>EntryIs, Zenon
        <5> QED BY <5>1, <5>2, Zenon DEF Entered
      <4>5. Ok(w) => Ok(t)
        BY <4>4, Zenon DEF Ok
      <4>6. v \in Rec /\ (Ok(v) => Ok(w))
        BY <3>0, <4>2, <4>4, <1>PutTwo, Zenon
      <4>7. ASSUME Ok(v), Good(t, 0, ip), t.ref[ip] > (IF dp = ip THEN 1 ELSE 0), t.ref[dp] > 0,
                   t.type[ip] # "T_DIR"
            PROVE  Good(v, 0, 0) /\ Left(t, v, dp, ip)
        <5>1. Good(w, 0, 0) /\ w.ref = t.ref
          BY <3>0, <4>1, <4>3, <4>7, <1>EnterGood
        <5>2. Good(v, 0, 0) /\ Left(w, v, dp, ip)
          BY <3>0, <4>2, <4>4, <4>7, <5>1, <1>PutTwo, Zenon
        <5> QED BY <5>1, <5>2 DEF Left
      <4> QED BY <2>1, <2>3, <4>5, <4>6, <4>7, Zenon
    <3> QED BY <3>1, <3>2, Zenon
  <2> QED BY <2>2, <2>3, Zenon

(* sys_unlink(). *)

\* One element fewer at least, and two.
<1>OneFewer.
    ASSUME NEW S, IsFiniteSet(S), NEW y \in S, NEW T \in SUBSET S, y \notin T
    PROVE  /\ Cardinality(T) \in Nat /\ Cardinality(S) \in Nat
           /\ Cardinality(T) + 1 <= Cardinality(S)
  <2> USE <1>OneFewer
  <2>1. PICK U : U = S \ {y}
    BY Zenon
  <2>2. IsFiniteSet(U) /\ T \in SUBSET U
    BY <2>1, Within, Zenon
  <2>3. Cardinality(T) \in Nat /\ Cardinality(T) <= Cardinality(U)
    BY <2>2, Within, Zenon
  <2>4. Cardinality(S) \in Nat \ {0} /\ Cardinality(U) = Cardinality(S) - 1
    BY <2>1, OneLess, Zenon
  <2> QED BY <2>3, <2>4

<1>TwoFewer.
    ASSUME NEW S, IsFiniteSet(S), NEW y \in S, NEW z \in S, y # z,
           NEW T \in SUBSET S, y \notin T, z \notin T
    PROVE  /\ Cardinality(T) \in Nat /\ Cardinality(S) \in Nat
           /\ Cardinality(T) + 2 <= Cardinality(S)
  <2> USE <1>TwoFewer
  <2>1. PICK U : U = S \ {y}
    BY Zenon
  <2>2. IsFiniteSet(U) /\ T \in SUBSET U /\ z \in U
    BY <2>1, Within, Zenon
  <2>3. Cardinality(T) \in Nat /\ Cardinality(T) + 1 <= Cardinality(U)
    BY <2>2, <1>OneFewer, Zenon
  <2>4. Cardinality(S) \in Nat \ {0} /\ Cardinality(U) = Cardinality(S) - 1
    BY <2>1, OneLess, Zenon
  <2> QED BY <2>3, <2>4

<1>EraseIs.
    ASSUME NEW t \in Rec, NEW dp \in Inodes, NEW name \in Names, NEW n \in Int,
           NEW v, v = Erase(t, dp, name, n)
    PROVE  Erased(t, dp, name, n, v)
  <2> USE <1>EraseIs
  <2>1. PICK entry, nlink : /\ entry = [t.entry EXCEPT ![dp][name] = 0]
                            /\ nlink = [t.nlink EXCEPT ![dp] = n]
    BY Zenon
  <2>2. v = Mk(t.type, nlink, entry, t.ref, t.valid, t.panic)
    BY <2>1, Zenon DEF Rec, Mk, Erase
  <2>0. t.entry \in [Inodes -> Entries] /\ t.nlink \in [Inodes -> Int]
    BY RecFields, Zenon
  <2>3. entry \in [Inodes -> Entries]
    <3>1. 0 \in 0 .. NINODES
      BY FileSysAssumption
    <3> QED BY <2>0, <2>1, <3>1, Zenon DEF Entries
  <2>4. nlink \in [Inodes -> Int] /\ \A j \in Inodes : nlink[j] = IF j = dp THEN n ELSE t.nlink[j]
    BY <2>0, <2>1, Zenon
  <2>5. v \in Rec
    <3>1. nlink \in [Inodes -> Int]
      BY <2>4, Zenon
    <3>2. /\ t.type \in [Inodes -> Types] /\ t.ref \in [Inodes -> Int]
          /\ t.valid \in SUBSET Inodes /\ t.panic \in Messages
      BY RecFields, Zenon
    <3> QED BY <2>2, <2>3, <3>1, <3>2, Shape, Zenon
  <2>6. ASSUME NEW d \in Inodes, NEW m \in Names
        PROVE  entry[d][m] = IF d = dp /\ m = name THEN 0 ELSE t.entry[d][m]
    BY <2>0, <2>1, Zenon DEF Entries
  <2>7. /\ v.type = t.type /\ v.nlink = nlink /\ v.entry = entry /\ v.valid = t.valid
        /\ v.ref = t.ref /\ v.panic = t.panic
    BY <2>2, SMT DEF Mk
  <2> QED BY <2>4, <2>5, <2>6, <2>7, Zenon DEF Erased

\* With the name goes a link to ip, and when ip is a directory a link to dp.
<1>EraseGood.
    ASSUME NEW t, Good(t, 0, 0), NEW dp \in Inodes, NEW ip \in Inodes, NEW name \in Names,
           t.entry[dp][name] = ip, dp \in t.valid,
           NEW v, Erased(t, dp, name, Dropped(t, dp, ip), v)
    PROVE  Good(v, 0, ip) /\ v.ref = t.ref /\ v.valid = t.valid
  <2> USE <1>EraseGood
  <2>1. t \in Rec /\ Ok(t) /\ Sane(t, 0) /\ Linked(t, 0) /\ dp # 0 /\ ip # 0
    BY InodeIs, Zenon DEF Good
  <2>2. /\ v \in Rec
        /\ v.type = t.type /\ v.valid = t.valid /\ v.ref = t.ref /\ v.panic = t.panic
        /\ \A j \in Inodes : v.nlink[j] = IF j = dp THEN Dropped(t, dp, ip) ELSE t.nlink[j]
        /\ \A d \in Inodes, m \in Names :
              v.entry[d][m] = IF d = dp /\ m = name THEN 0 ELSE t.entry[d][m]
    BY Zenon DEF Erased
  <2>3. Ok(v)
    BY <2>1, <2>2, Zenon DEF Ok
  <2>4. PICK y, z : y = <<dp, <<name, "name">>>> /\ z = <<dp, <<name, "dotdot">>>>
    BY Zenon
  <2>5. y \in Sources /\ z \in Sources /\ y # z
    BY <2>4, Zenon DEF Sources
  <2>6. ASSUME NEW j \in Inodes
        PROVE  /\ Links(v.entry, v.type, j) \in SUBSET Links(t.entry, t.type, j)
               /\ y \notin Links(v.entry, v.type, j) /\ z \notin Links(v.entry, v.type, j)
               /\ j = ip => y \in Links(t.entry, t.type, j)
               /\ j = dp /\ t.type[ip] = "T_DIR" => z \in Links(t.entry, t.type, j)
    <3>1. ASSUME NEW x \in Links(v.entry, v.type, j)
          PROVE  x \in Links(t.entry, t.type, j) /\ x # y /\ x # z
      <4>1. PICK d \in Inodes, m \in Names, k \in {"name", "dotdot"} : x = <<d, <<m, k>>>>
        BY DEF Links, Sources
      <4>2. /\ v.entry[d][m] # 0
            /\ \/ k = "name" /\ v.entry[d][m] = j
               \/ k = "dotdot" /\ d = j /\ t.type[v.entry[d][m]] = "T_DIR"
        BY <2>2, <4>1, Zenon DEF Links
      <4>3. ~(d = dp /\ m = name) /\ v.entry[d][m] = t.entry[d][m]
        BY <2>2, <4>2, Zenon
      <4>4. x \in Sources
        BY <4>1, Zenon DEF Sources
      <4>5. x \in Links(t.entry, t.type, j)
        BY <4>1, <4>2, <4>3, <4>4, Zenon DEF Links
      <4> QED BY <2>4, <4>1, <4>3, <4>5, Zenon
    <3>2. j = ip => y \in Links(t.entry, t.type, j)
      BY <2>1, <2>4, <2>5, Zenon DEF Links
    <3>3. j = dp /\ t.type[ip] = "T_DIR" => z \in Links(t.entry, t.type, j)
      BY <2>1, <2>4, <2>5, Zenon DEF Links
    <3> QED BY <3>1, <3>2, <3>3, Zenon
  <2>7. ASSUME NEW j \in Inodes
        PROVE  /\ v.nlink[j] \in Nat
               /\ v.nlink[j] >= Cardinality(Links(v.entry, v.type, j)) + (IF j = ip THEN 1 ELSE 0)
    <3>1. PICK S, T : S = Links(t.entry, t.type, j) /\ T = Links(v.entry, v.type, j)
      BY Zenon
    <3>2. IsFiniteSet(S) /\ T \in SUBSET S /\ y \notin T /\ z \notin T
      BY <2>6, <3>1, LinksFinite, Zenon
    <3>3. PICK a \in Nat, b \in Nat : a = Cardinality(S) /\ b = Cardinality(T)
      BY <3>1, LinksFinite, Zenon
    <3>4. t.nlink[j] \in Nat /\ t.nlink[j] >= a
      BY <2>1, <3>1, <3>3, InodeIs DEF Sane, Linked
    <3>5. v.nlink[j] = IF j = dp /\ t.type[ip] = "T_DIR" THEN t.nlink[j] - 1 ELSE t.nlink[j]
      BY <2>2, Zenon DEF Dropped
    <3>6. CASE j = ip /\ j = dp /\ t.type[ip] = "T_DIR"
      <4>1. y \in S /\ z \in S
        BY <2>6, <3>1, <3>6, Zenon
      <4>2. b + 2 <= a
        BY <2>5, <3>2, <3>3, <4>1, <1>TwoFewer, Zenon
      <4> QED BY <3>1, <3>3, <3>4, <3>5, <3>6, <4>2
    <3>7. CASE j # ip /\ j = dp /\ t.type[ip] = "T_DIR"
      <4>1. z \in S
        BY <2>6, <3>1, <3>7, Zenon
      <4>2. b + 1 <= a
        BY <3>2, <3>3, <4>1, <1>OneFewer, Zenon
      <4> QED BY <3>1, <3>3, <3>4, <3>5, <3>7, <4>2, SMTT(20)
    <3>8. CASE j = ip /\ ~(j = dp /\ t.type[ip] = "T_DIR")
      <4>1. y \in S
        BY <2>6, <3>1, <3>8, Zenon
      <4>2. b + 1 <= a
        BY <3>2, <3>3, <4>1, <1>OneFewer, Zenon
      <4> QED BY <3>1, <3>3, <3>4, <3>5, <3>8, <4>2, SMTT(20)
    <3>9. CASE j # ip /\ ~(j = dp /\ t.type[ip] = "T_DIR")
      <4>1. b <= a
        BY <3>2, <3>3, Within, Zenon
      <4> QED BY <3>1, <3>3, <3>4, <3>5, <3>9, <4>1
    <3> QED BY <3>6, <3>7, <3>8, <3>9, Zenon
  <2>8. Sane(v, 0)
    <3> SUFFICES ASSUME NEW j \in Inodes
                 PROVE  /\ v.nlink[j] \in Nat /\ v.ref[j] \in Nat
                        /\ j \in v.valid => v.type[j] # "free" /\ v.ref[j] > 0
                        /\ v.type[j] = "free" => v.nlink[j] = 0 /\ (v.ref[j] = 0 \/ j = 0)
                        /\ v.type[j] # "free" /\ v.nlink[j] = 0 => j \in v.valid
                        /\ 0 = j => v.ref[j] > 0
      BY Zenon DEF Sane
    <3>1. CASE j = dp
      BY <2>1, <2>2, <2>7, <3>1, Zenon DEF Sane
    <3>2. CASE j # dp
      BY <2>1, <2>2, <3>2, Zenon DEF Sane
    <3> QED BY <3>1, <3>2, Zenon
  <2>9. Linked(v, ip)
    BY <2>7, Zenon DEF Linked
  <2> QED BY <2>2, <2>3, <2>8, <2>9, Zenon DEF Good

<1>UnlinkFromGood.
    ASSUME NEW t \in Rec, NEW dp \in Inodes, NEW ip \in Inodes, NEW name \in Names,
           NEW v, v = UnlinkFrom(t, dp, name, ip)
    PROVE  /\ v \in Rec /\ (Ok(v) => Ok(t))
           /\ Ok(v) /\ Good(t, 0, 0) /\ dp \in t.valid /\ ip \in t.valid
              /\ t.entry[dp][name] = ip /\ t.ref[ip] > (IF dp = ip THEN 1 ELSE 0)
              => Good(v, 0, 0) /\ Left(t, v, dp, ip)
  <2> USE <1>UnlinkFromGood
  <2>1. PICK trans \in BOOLEAN : trans = TRUE
    BY Zenon
  <2>2. CASE t.nlink[ip] < 1
    <3>1. PICK msg : msg = "unlink: nlink < 1"
      BY Zenon
    <3>2. v = Panic(t, msg) /\ Message(msg)
      BY <2>2, <3>1, Zenon DEF UnlinkFrom, Message, Messages
    <3> QED BY <3>2, PanicIs, Zenon
  <2>3. CASE ~(t.nlink[ip] < 1) /\ t.type[ip] = "T_DIR" /\ ~IsDirEmpty(t, ip)
    <3>1. v = Iput(Iput(t, ip, trans), dp, trans)
      BY <2>1, <2>3, Zenon DEF UnlinkFrom
    <3>2. /\ v \in Rec /\ (Ok(v) => Ok(t))
          /\ Ok(v) /\ Good(t, 0, 0) /\ t.ref[ip] > 0 /\ t.ref[dp] > (IF ip = dp THEN 1 ELSE 0)
             => Good(v, 0, 0) /\ Left(t, v, ip, dp)
      BY <3>1, <1>PutTwo, Zenon
    <3>3. ASSUME Good(t, 0, 0), dp \in t.valid, t.ref[ip] > (IF dp = ip THEN 1 ELSE 0)
          PROVE  t.ref[ip] > 0 /\ t.ref[dp] > (IF ip = dp THEN 1 ELSE 0)
      BY <3>3, Zenon DEF Good, Sane
    <3>4. ASSUME Left(t, v, ip, dp)
          PROVE  Left(t, v, dp, ip)
      <4> SUFFICES ASSUME NEW j \in Inodes
                   PROVE  v.ref[j] = t.ref[j] - (IF j = dp THEN 1 ELSE 0)
                                      - (IF j = ip THEN 1 ELSE 0)
        BY Zenon DEF Left
      <4>1. t.ref[j] \in Int
        BY RecFields, Zenon
      <4> QED BY <3>4, <4>1 DEF Left
    <3> QED BY <3>2, <3>3, <3>4, Zenon
  <2>4. CASE ~(t.nlink[ip] < 1) /\ ~(t.type[ip] = "T_DIR" /\ ~IsDirEmpty(t, ip))
    <3>1. PICK n \in Int : n = Dropped(t, dp, ip)
      BY RecFields DEF Dropped
    <3>2. PICK u : u = Erase(t, dp, name, n)
      BY Zenon
    <3>3. PICK w : w = Iput(u, dp, trans)
      BY Zenon
    <3>4. PICK x : x = [w EXCEPT !.nlink[ip] = w.nlink[ip] - 1]
      BY Zenon
    <3>5. v = Iput(x, ip, trans)
      <4>1. u = [t EXCEPT !.entry[dp][name] = 0,
                          !.nlink[dp] = IF t.type[ip] = "T_DIR" THEN t.nlink[dp] - 1
                                        ELSE t.nlink[dp]]
        BY <3>1, <3>2, Zenon DEF Dropped, Erase
      <4>2. x = Unlinked(t, dp, name, ip)
        BY <2>1, <3>3, <3>4, <4>1, Zenon DEF Unlinked
      <4> QED BY <2>1, <2>4, <4>2, Zenon DEF UnlinkFrom
    <3>6. Erased(t, dp, name, n, u)
      BY <3>2, <1>EraseIs, Zenon
    <3>7. u \in Rec /\ (Ok(u) => Ok(t))
      BY <3>6, Zenon DEF Erased, Ok
    <3>8. w \in Rec /\ (Ok(w) => Ok(u))
      BY <3>3, <3>7, IputShape, Zenon
    <3>9. x \in Rec /\ (Ok(x) => Ok(w))
      <4>1. PICK m \in Int : m = w.nlink[ip] - 1
        BY <3>8, RecFields
      <4>2. x = [w EXCEPT !.nlink[ip] = m]
        BY <3>4, <4>1, Zenon
      <4>3. x \in Rec /\ x.panic = w.panic
        BY <3>8, <4>2, <1>NlinkIs
      <4> QED BY <4>3, Zenon DEF Ok
    <3>10. v \in Rec /\ (Ok(v) => Ok(x))
      BY <3>5, <3>9, IputShape, Zenon
    <3>11. ASSUME Ok(v), Good(t, 0, 0), dp \in t.valid, ip \in t.valid,
                  t.entry[dp][name] = ip, t.ref[ip] > (IF dp = ip THEN 1 ELSE 0)
           PROVE  Good(v, 0, 0) /\ Left(t, v, dp, ip)
      <4>1. /\ Ok(w) /\ t.ref \in [Inodes -> Int] /\ w.ref \in [Inodes -> Int]
            /\ dp # 0 /\ ip # 0 /\ t.ref[dp] > 0
        <5>1. t.ref[dp] > 0
          BY <3>11, Zenon DEF Good, Sane
        <5> QED BY <3>8, <3>9, <3>10, <3>11, <5>1, RecFields, InodeIs, Zenon
      <4>2. Good(u, 0, ip) /\ u.ref = t.ref /\ u.valid = t.valid
        BY <3>1, <3>6, <3>11, <1>EraseGood, SMTT(20)
      <4>3. /\ Good(w, 0, ip) /\ w.ref = [u.ref EXCEPT ![dp] = u.ref[dp] - 1]
            /\ Keeps(u, w, Referenced(w))
        BY <3>3, <4>1, <4>2, IputGood
      <4>4. w.ref[ip] > 0
        BY <3>11, <4>1, <4>2, <4>3
      <4>5. ip \in w.valid
        BY <3>11, <4>2, <4>3, <4>4, Zenon DEF Keeps, Referenced
      <4>6. Good(x, 0, 0) /\ x.ref = w.ref
        BY <3>4, <4>3, <4>5, <1>LowerGood, Zenon
      <4>7. Good(v, 0, 0) /\ v.ref = [x.ref EXCEPT ![ip] = x.ref[ip] - 1]
        BY <3>5, <3>11, <4>1, <4>4, <4>6, IputGood, SMTT(20)
      <4>8. ASSUME NEW j \in Inodes
            PROVE  v.ref[j] = t.ref[j] - (IF j = dp THEN 1 ELSE 0) - (IF j = ip THEN 1 ELSE 0)
        <5>1. t.ref[j] \in Int /\ w.ref[j] \in Int
          BY <4>1, Zenon
        <5>2. w.ref[j] = t.ref[j] - (IF j = dp THEN 1 ELSE 0)
          BY <4>1, <4>2, <4>3, <5>1, SMTT(20)
        <5>3. v.ref[j] = w.ref[j] - (IF j = ip THEN 1 ELSE 0)
          BY <4>1, <4>6, <4>7, <5>1
        <5> QED BY <5>2, <5>3, Zenon
      <4> QED BY <4>7, <4>8, Zenon DEF Left
    <3> QED BY <3>7, <3>8, <3>9, <3>10, <3>11, Zenon
  <2> QED BY <2>2, <2>3, <2>4, Zenon

(* A path is walked after a panic() too, in the part of the call that does not count. *)

<1>WalkShape.
    ASSUME NEW r \in Walks, NEW elems \in Seq(AllNames), NEW s, s = Walk(r, elems)
    PROVE  s \in Walks /\ (Ok(s.t) => Ok(r.t))
  <2> USE <1>WalkShape
  <2>1. PICK w : /\ w \in [0 .. Len(elems) -> Walks]
                 /\ w = WalkBody(r, elems, w) /\ s = w[Len(elems)]
    BY <1>WalkIs, Zenon
  <2> DEFINE n == Len(elems)
             T == {k \in 0 .. n : Ok(w[k].t) => Ok(r.t)}
  <2>2. n \in Nat
    OBVIOUS
  <2>3. \A k \in 0 .. n : w[k] = IF k = 0 THEN r
                                 ELSE IF w[k - 1].ip = 0 THEN w[k - 1]
                                 ELSE Step(w[k - 1], elems[k])
    BY <2>1, Zenon DEF WalkBody
  <2>4. 0 \in T
    BY <2>2, <2>3
  <2>5. ASSUME NEW k \in 1 .. n, k - 1 \in T PROVE k \in T
    <3>1. k \in 0 .. n /\ k # 0 /\ k - 1 \in 0 .. n /\ elems[k] \in AllNames
      BY <2>2
    <3>2. PICK q \in Walks : q = w[k - 1]
      BY <2>1, <3>1, Zenon
    <3>3. PICK z \in Walks : z = w[k]
      BY <2>1, <3>1, Zenon
    <3>4. Ok(q.t) => Ok(r.t)
      BY <2>5, <3>2, Zenon
    <3>5. z = IF q.ip = 0 THEN q ELSE Step(q, elems[k])
      BY <2>3, <3>1, <3>2, <3>3, Zenon
    <3>6. Ok(z.t) => Ok(q.t)
      <4>1. CASE q.ip = 0
        BY <3>5, <4>1, Zenon
      <4>2. CASE q.ip # 0
        BY <3>1, <3>5, <4>2, <1>StepGood, Zenon
      <4> QED BY <4>1, <4>2, Zenon
    <3> QED BY <3>1, <3>3, <3>4, <3>6, Zenon
  <2>6. T = 0 .. n
    <3>1. PICK U : U = T
      BY Zenon
    <3>2. U \in SUBSET (0 .. n) /\ 0 \in U /\ \A k \in 1 .. n : k - 1 \in U => k \in U
      BY <2>4, <2>5, <3>1, Zenon
    <3> HIDE DEF T, n
    <3> QED BY <2>2, <3>1, <3>2, Induct, Zenon
  <2>7. n \in 0 .. n /\ s \in Walks
    BY <2>1, <2>2
  <2> QED BY <2>1, <2>6, <2>7, Zenon

<1>ParentShape.
    ASSUME NEW r \in Walks, NEW s, s = Parent(r)
    PROVE  s \in Walks /\ (Ok(s.t) => Ok(r.t))
  <2> USE <1>ParentShape
  <2>1. CASE r.ip = 0
    BY <2>1, Zenon DEF Parent
  <2>2. CASE r.ip # 0
    <3>1. PICK i \in Inodes, trans \in BOOLEAN : i = r.ip /\ trans = r.trans
      BY <2>2, FileSysAssumption DEF Walks, Inodes
    <3>2. PICK v : v = Ilock(r.t, i)
      BY Zenon
    <3>3. r.t \in Rec /\ v \in Rec /\ (Ok(v) => Ok(r.t))
      BY <3>2, <1>IlockShape, Zenon DEF Walks
    <3>4. CASE v.type[i] = "T_DIR"
      <4>1. s = [r EXCEPT !.t = v]
        BY <2>2, <3>1, <3>2, <3>4, Zenon DEF Parent
      <4>2. s \in Walks
        BY <3>3, <4>1, Zenon DEF Walks
      <4>3. s.t = v
        BY <4>1, Zenon DEF Walks
      <4> QED BY <3>3, <4>2, <4>3, Zenon
    <3>5. CASE v.type[i] # "T_DIR"
      <4>1. PICK w : w = Iput(v, i, trans)
        BY Zenon
      <4>2. s = [r EXCEPT !.t = w, !.ip = 0]
        BY <2>2, <3>1, <3>2, <3>5, <4>1, Zenon DEF Parent
      <4>3. w \in Rec /\ (Ok(w) => Ok(v))
        BY <3>3, <4>1, IputShape, Zenon
      <4>4. 0 \in 0 .. NINODES
        BY FileSysAssumption
      <4>5. s.t = w
        BY <4>2, Zenon DEF Walks
      <4>6. s \in Walks
        BY <4>2, <4>3, <4>4, Zenon DEF Walks
      <4> QED BY <3>3, <4>3, <4>5, <4>6, Zenon
    <3> QED BY <3>4, <3>5, Zenon
  <2> QED BY <2>1, <2>2, Zenon

<1>NameiparentShape.
    ASSUME NEW t \in Rec, NEW p, NEW path \in Paths, StartOf(p, path) \in Inodes,
           NEW trans \in BOOLEAN, NEW r, r = Nameiparent(t, p, path, trans)
    PROVE  /\ r \in Walks /\ (Ok(r.t) => Ok(t))
           /\ r.ip # 0 => LastElem(path) \in AllNames
  <2> USE <1>NameiparentShape
  <2>1. CASE path.elems = << >>
    <3>1. r = [t |-> t, ip |-> 0, trans |-> trans]
      BY <2>1, Zenon DEF Nameiparent
    <3>2. r.t = t /\ r.ip = 0 /\ r \in Walks
      BY <3>1, FileSysAssumption DEF Walks
    <3> QED BY <3>2, Zenon
  <2>2. CASE path.elems # << >>
    <3>1. SubSeq(path.elems, 1, Len(path.elems) - 1) \in Seq(AllNames)
          /\ LastElem(path) \in AllNames
      BY <2>2, <1>PathIs DEF LastElem
    <3>2. PICK i \in Inodes : i = StartOf(p, path)
      BY Zenon
    <3>3. PICK v : v = Iget(t, i)
      BY Zenon
    <3>4. PICK s : s = [t |-> v, ip |-> i, trans |-> trans]
      BY Zenon
    <3>5. v \in Rec /\ (Ok(v) => Ok(t))
      BY <3>3, <1>IgetShape, Zenon
    <3>6. s \in Walks /\ s.t = v
      BY <3>4, <3>5, InodeIs, Zenon DEF Walks
    <3>7. PICK q : q = Walk(s, SubSeq(path.elems, 1, Len(path.elems) - 1))
      BY Zenon
    <3>8. q \in Walks /\ (Ok(q.t) => Ok(s.t))
      BY <3>1, <3>6, <3>7, <1>WalkShape, Zenon
    <3>9. r = Parent(q)
      BY <2>2, <3>2, <3>3, <3>4, <3>7, Zenon DEF Nameiparent, Start
    <3>10. r \in Walks /\ (Ok(r.t) => Ok(q.t))
      BY <3>8, <3>9, <1>ParentShape, Zenon
    <3> QED BY <3>1, <3>5, <3>6, <3>8, <3>10, Zenon
  <2> QED BY <2>1, <2>2, Zenon

(* What the system calls leave of the inodes. *)

\* namei() and ilock().
<1>NameiLocked. NameiLocked
  <2> SUFFICES ASSUME NEW t, Good(t, 0, 0), NEW p, NEW path \in Paths, StartOf(p, path) \in Inodes,
                    NEW trans \in BOOLEAN, NEW r, r = Namei(t, p, path, trans)
             PROVE  /\ r.t \in Rec /\ r.ip \in 0 .. NINODES
                    /\ r.ip = 0 => Fresh(t, r.t, 0)
                    /\ r.ip # 0 => /\ r.ip \in Inodes
                                   /\ Ilock(r.t, r.ip) \in Rec
                                   /\ Fresh(t, Ilock(r.t, r.ip), r.ip)
                                   /\ Ok(Ilock(r.t, r.ip)) =>
                                         Ilock(r.t, r.ip).type[r.ip] # "free"
    BY Zenon DEF NameiLocked
  <2>1. r \in Walks /\ Came(t, r, r.ip, 0)
    BY <1>NameiGood, Zenon
  <2>2. PICK u \in Rec, i \in 0 .. NINODES : u = r.t /\ i = r.ip
    BY <2>1, Zenon DEF Walks
  <2>3. Ok(u) => /\ Good(u, i, 0)
                 /\ \A j \in Inodes : u.ref[j] = t.ref[j] + (IF j = i THEN 1 ELSE 0)
    BY <2>1, <2>2, Zenon DEF Came
  <2>4. i = 0 => Fresh(t, u, 0)
    BY <2>3, Zenon DEF Fresh
  <2>5. ASSUME i # 0
        PROVE  /\ i \in Inodes /\ Ilock(u, i) \in Rec /\ Fresh(t, Ilock(u, i), i)
               /\ Ok(Ilock(u, i)) => Ilock(u, i).type[i] # "free"
    <3>1. i \in Inodes
      BY <2>5, FileSysAssumption DEF Inodes
    <3>2. PICK v : v = Ilock(u, i)
      BY Zenon
    <3>3. v \in Rec /\ (Ok(v) => Ok(u)) /\ (Ok(v) => v.ref = u.ref)
      BY <3>1, <3>2, <1>IlockIs
    <3>4. ASSUME Ok(v)
          PROVE  /\ Good(v, 0, 0) /\ v.type[i] # "free"
                 /\ \A j \in Inodes : v.ref[j] = t.ref[j] + (IF j = i THEN 1 ELSE 0)
      <4>1. Good(u, i, 0) /\ \A j \in Inodes : u.ref[j] = t.ref[j] + (IF j = i THEN 1 ELSE 0)
        BY <2>3, <3>3, <3>4, Zenon
      <4>2. u.ref[i] > 0
        BY <3>1, <4>1, Zenon DEF Good, Sane
      <4>3. Good(v, 0, 0) /\ v.type[i] # "free"
        BY <3>1, <3>2, <3>4, <4>1, <4>2, <1>IlockGood, Zenon
      <4> QED BY <3>3, <3>4, <4>1, <4>3, Zenon
    <3>5. Fresh(t, v, i)
      BY <3>4, Zenon DEF Fresh
    <3> QED BY <3>1, <3>2, <3>3, <3>4, <3>5, Zenon
  <2> QED BY <2>2, <2>4, <2>5, Zenon

\* nameiparent() that finds no directory.
<1>NoParent. NoParent
  <2> SUFFICES ASSUME NEW t, Good(t, 0, 0), NEW p, NEW path \in Paths, StartOf(p, path) \in Inodes,
                    NEW trans \in BOOLEAN, NEW r, r = Nameiparent(t, p, path, trans), r.ip = 0
             PROVE  r.t \in Rec /\ Fresh(t, r.t, 0)
    BY Zenon DEF NoParent
  <2>1. r \in Walks /\ Came(t, r, 0, 0)
    BY <1>NameiparentGood, Zenon
  <2>2. \A j \in Inodes : (IF j = r.ip THEN 1 ELSE 0) = (IF j = 0 THEN 1 ELSE 0)
    BY Zenon
  <2> QED BY <2>1, Zenon DEF Came, Fresh, Walks

\* nameiparent() and create().
<1>Created. Created
  <2> SUFFICES ASSUME NEW t, Good(t, 0, 0), NEW p, NEW path \in Paths, StartOf(p, path) \in Inodes,
                    NEW trans \in BOOLEAN, NEW r, r = Nameiparent(t, p, path, trans), r.ip # 0,
                    NEW type \in Types \ {"free"}, NEW c, c = Create(r, LastElem(path), type)
             PROVE  c.t \in Rec /\ c.ip \in 0 .. NINODES /\ Fresh(t, c.t, c.ip)
    BY SMT DEF Created
  <2>1. t \in Rec
    BY Zenon DEF Good
  <2>2. r \in Walks /\ LastElem(path) \in AllNames
    BY <2>1, <1>NameiparentShape, Zenon
  <2>3. r.ip \in Inodes
    BY <2>2, FileSysAssumption DEF Walks, Inodes
  <2>4. /\ Came(t, r, 0, 0)
        /\ Ok(r.t) => r.ip \in r.t.valid
    BY <1>NameiparentGood, Zenon
  <2>5. /\ c.t \in Rec /\ c.ip \in 0 .. NINODES
        /\ Ok(c.t) => Ok(r.t)
        /\ Good(r.t, 0, 0) /\ r.ip \in r.t.valid => Made(r.t, r.ip, c)
    BY <2>2, <2>3, <1>CreateGood, Zenon
  <2>6. ASSUME Ok(c.t)
        PROVE  /\ Good(c.t, 0, 0)
               /\ \A j \in Inodes : c.t.ref[j] = t.ref[j] + (IF j = c.ip THEN 1 ELSE 0)
    <3>1. /\ Good(r.t, 0, 0) /\ r.ip \in r.t.valid
          /\ \A j \in Inodes : r.t.ref[j] = t.ref[j] + (IF j = r.ip THEN 1 ELSE 0)
      BY <2>4, <2>5, <2>6, Zenon DEF Came
    <3>2. /\ Good(c.t, 0, 0)
          /\ \A j \in Inodes : c.t.ref[j] = r.t.ref[j] - (IF j = r.ip THEN 1 ELSE 0)
                                                       + (IF j = c.ip THEN 1 ELSE 0)
      BY <2>5, <2>6, <3>1, Zenon DEF Made
    <3>3. \A j \in Inodes : t.ref[j] \in Int /\ r.t.ref[j] \in Int
      BY <2>1, <2>2, RecFields, Zenon DEF Walks
    <3>4. ASSUME NEW j \in Inodes
          PROVE  c.t.ref[j] = t.ref[j] + (IF j = c.ip THEN 1 ELSE 0)
      <4>1. PICK a \in {0, 1} : a = IF j = r.ip THEN 1 ELSE 0
        BY Zenon
      <4>2. PICK b \in {0, 1} : b = IF j = c.ip THEN 1 ELSE 0
        BY Zenon
      <4>3. r.t.ref[j] = t.ref[j] + a /\ c.t.ref[j] = r.t.ref[j] - a + b
        BY <3>1, <3>2, <4>1, <4>2, Zenon
      <4> QED BY <3>3, <4>2, <4>3
    <3> QED BY <3>2, <3>4, Zenon
  <2> QED BY <2>5, <2>6, Zenon DEF Fresh

\* Two references too many were given back.
<1>LeftFresh.
    ASSUME NEW t \in Rec, NEW u \in Rec, NEW v \in Rec, NEW a, NEW b,
           Raised(t, u, a, b), Good(v, 0, 0), Left(u, v, a, b)
    PROVE  Fresh(t, v, 0)
  <2> USE <1>LeftFresh
  <2> SUFFICES ASSUME NEW j \in Inodes
               PROVE  v.ref[j] = t.ref[j] + (IF j = 0 THEN 1 ELSE 0)
    BY Zenon DEF Fresh
  <2>1. t.ref[j] \in Int /\ u.ref[j] \in Int /\ j # 0
    BY RecFields, InodeIs, Zenon
  <2>2. PICK x \in {0, 1} : x = IF j = a THEN 1 ELSE 0
    BY Zenon
  <2>3. PICK y \in {0, 1} : y = IF j = b THEN 1 ELSE 0
    BY Zenon
  <2>4. u.ref[j] = t.ref[j] + x + y /\ v.ref[j] = u.ref[j] - x - y
    BY <2>2, <2>3, Zenon DEF Left, Raised
  <2> QED BY <2>1, <2>4, SMTT(20)

\* sys_link() from the locked inode on.
<1>LinkFresh. LinkFresh
  <2> SUFFICES ASSUME NEW t, Good(t, 0, 0), NEW v \in Rec, NEW ip \in Inodes, Fresh(t, v, ip),
                    Ok(v) => v.type[ip] # "free", v.type[ip] # "T_DIR",
                    NEW p, NEW new \in Paths, StartOf(p, new) \in Inodes, NEW trans \in BOOLEAN,
                    NEW w, w = [v EXCEPT !.nlink[ip] = v.nlink[ip] + 1],
                    NEW q, q = Nameiparent(w, p, new, trans),
                    NEW x, x = LinkTo(q, LastElem(new), ip)
             PROVE  x \in Rec /\ Fresh(t, x, 0)
    BY SMT DEF LinkFresh
  <2>1. w \in Rec /\ w.panic = v.panic /\ w.ref = v.ref /\ w.type = v.type
    <3>1. PICK n \in Int : n = v.nlink[ip] + 1
      BY RecFields
    <3>2. w = [v EXCEPT !.nlink[ip] = n]
      BY <3>1, Zenon
    <3> QED BY <3>2, <1>NlinkIs
  <2>2. Ok(w) => Ok(v)
    BY <2>1, Zenon DEF Ok
  <2>3. q \in Walks /\ (Ok(q.t) => Ok(w)) /\ (q.ip # 0 => LastElem(new) \in AllNames)
    BY <2>1, <1>NameiparentShape, Zenon
  <2>4. PICK name \in AllNames : x = LinkTo(q, name, ip)
    <3>1. CASE q.ip # 0
      BY <2>3, <3>1, Zenon
    <3>2. CASE q.ip = 0
      <4>1. PICK name \in AllNames : TRUE
        BY Zenon DEF AllNames
      <4>2. x = LinkTo(q, name, ip)
        BY <3>2, Zenon DEF LinkTo
      <4> QED BY <4>2, Zenon
    <3> QED BY <3>1, <3>2, Zenon
  <2>5. /\ x \in Rec /\ (Ok(x) => Ok(q.t))
        /\ Ok(x) /\ Good(q.t, 0, ip) /\ q.t.ref[ip] > (IF q.ip = ip THEN 1 ELSE 0)
           /\ (q.ip # 0 => q.t.ref[q.ip] > 0) /\ q.t.type[ip] # "T_DIR"
           => Good(x, 0, 0) /\ Left(q.t, x, q.ip, ip)
    BY <2>3, <2>4, <1>LinkToGood, Zenon
  <2>6. ASSUME Ok(x) PROVE Fresh(t, x, 0)
    <3>1. Ok(q.t) /\ Ok(w) /\ Ok(v)
      BY <2>2, <2>3, <2>5, <2>6, Zenon
    <3>2. Good(v, 0, 0) /\ \A j \in Inodes : v.ref[j] = t.ref[j] + (IF j = ip THEN 1 ELSE 0)
      BY <3>1, Zenon DEF Fresh
    <3>3. Good(w, 0, ip)
      BY <3>1, <3>2, <1>RaiseGood, Zenon
    <3>4. Came(w, q, 0, ip)
      BY <3>3, <1>NameiparentGood, Zenon
    <3>5. /\ Good(q.t, 0, ip) /\ Keeps(w, q.t, Referenced(w))
          /\ \A j \in Inodes : q.t.ref[j] = v.ref[j] + (IF j = q.ip THEN 1 ELSE 0)
      BY <2>1, <3>1, <3>4, Zenon DEF Came
    <3>6. \A j \in Inodes : t.ref[j] \in Nat /\ v.ref[j] \in Nat
      BY <3>2, Zenon DEF Good, Sane
    <3>7. v.ref[ip] > 0
      BY <3>2, <3>6
    <3>8. q.t.type[ip] # "T_DIR"
      BY <2>1, <3>5, <3>7 DEF Keeps, Referenced
    <3>9. q.t.ref[ip] > (IF q.ip = ip THEN 1 ELSE 0)
      BY <3>5, <3>6, <3>7
    <3>10. q.ip # 0 => q.t.ref[q.ip] > 0
      <4>1. q.ip # 0 => q.ip \in Inodes
        BY <2>3, FileSysAssumption DEF Walks, Inodes
      <4> QED BY <3>5, <3>6, <4>1
    <3>11. Good(x, 0, 0) /\ Left(q.t, x, q.ip, ip)
      BY <2>5, <2>6, <3>5, <3>8, <3>9, <3>10, Zenon
    <3>12. ASSUME NEW j \in Inodes
           PROVE  q.t.ref[j] = t.ref[j] + (IF j = q.ip THEN 1 ELSE 0) + (IF j = ip THEN 1 ELSE 0)
      <4>1. PICK a \in {0, 1} : a = IF j = q.ip THEN 1 ELSE 0
        BY Zenon
      <4>2. PICK b \in {0, 1} : b = IF j = ip THEN 1 ELSE 0
        BY Zenon
      <4>3. q.t.ref[j] = v.ref[j] + a /\ v.ref[j] = t.ref[j] + b
        BY <3>2, <3>5, <4>1, <4>2, Zenon
      <4>4. q.t.ref[j] = t.ref[j] + a + b
        BY <3>6, <4>3
      <4> QED BY <4>1, <4>2, <4>4, Zenon
    <3>13. t \in Rec /\ q.t \in Rec
      BY <2>3, Zenon DEF Good, Walks
    <3>14. Raised(t, q.t, q.ip, ip)
      BY <3>12, Zenon DEF Raised
    <3> QED BY <2>5, <3>11, <3>13, <3>14, <1>LeftFresh, Zenon
  <2>7. Fresh(t, x, 0)
    BY <2>6, Zenon DEF Fresh
  <2> QED BY <2>5, <2>7, Zenon

\* sys_unlink() from nameiparent() on: for "." and "..", for no such name, and for the others.
<1>UnlinkFresh. UnlinkFresh
  <2> SUFFICES ASSUME NEW t, Good(t, 0, 0), NEW p, NEW path \in Paths, StartOf(p, path) \in Inodes,
                    NEW out \in BOOLEAN, NEW r, r = Nameiparent(t, p, path, out), r.ip # 0,
                    NEW trans \in BOOLEAN, NEW ip, ip = Dirlookup(r.t, r.ip, LastElem(path))
             PROVE  /\ Fresh(t, Iput(r.t, r.ip, trans), 0)
                    /\ LastElem(path) \notin {".", ".."} /\ ip # 0 =>
                          Fresh(t, UnlinkFrom(Ilock(Iget(r.t, ip), ip),
                                          r.ip, LastElem(path), ip), 0)
    BY SMT DEF UnlinkFresh
  <2>1. t \in Rec
    BY Zenon DEF Good
  <2>2. PICK name \in AllNames : name = LastElem(path)
    BY <2>1, <1>NameiparentShape, Zenon
  <2>3. r \in Walks /\ Came(t, r, 0, 0) /\ (Ok(r.t) => r.ip \in r.t.valid)
    BY <1>NameiparentGood, Zenon
  <2>4. PICK s \in Rec, dp \in Inodes : s = r.t /\ dp = r.ip
    BY <2>3, FileSysAssumption DEF Walks, Inodes
  <2>5. Ok(s) => /\ Good(s, 0, 0) /\ dp \in s.valid
                 /\ \A j \in Inodes : s.ref[j] = t.ref[j] + (IF j = dp THEN 1 ELSE 0)
    BY <2>3, <2>4, Zenon DEF Came
  <2>6. Fresh(t, Iput(s, dp, trans), 0)
    <3>1. Fresh(t, s, dp)
      BY <2>5, Zenon DEF Fresh
    <3> QED BY <3>1, PutBack, Zenon
  <2>7. ASSUME name \notin {".", ".."}, ip # 0
        PROVE  Fresh(t, UnlinkFrom(Ilock(Iget(s, ip), ip), dp, name, ip), 0)
    <3>1. name \in Names /\ ip \in 0 .. NINODES /\ ip = s.entry[dp][name]
      <4>1. ip \in 0 .. NINODES
        BY <2>2, <2>4, <1>DirlookupIs, Zenon
      <4>2. ip = s.entry[dp][name]
        BY <2>2, <2>4, <2>7, Zenon DEF Dirlookup
      <4> QED BY <2>7, <4>1, <4>2, Zenon DEF AllNames
    <3>2. ip \in Inodes
      BY <2>7, <3>1, FileSysAssumption DEF Inodes
    <3>3. PICK v : v = Iget(s, ip)
      BY Zenon
    <3>4. PICK u : u = Ilock(v, ip)
      BY Zenon
    <3>5. PICK x : x = UnlinkFrom(u, dp, name, ip)
      BY Zenon
    <3>6. /\ v \in Rec /\ (Ok(v) => Ok(s)) /\ v.entry = s.entry /\ v.valid = s.valid
          /\ v.ref = [s.ref EXCEPT ![ip] = s.ref[ip] + 1]
      <4>1. Ok(v) => Ok(s)
        BY <3>2, <3>3, <1>IgetShape, Zenon
      <4> QED BY <3>2, <3>3, <4>1, IgetIs DEF Got
    <3>7. u \in Rec /\ (Ok(u) => Ok(v) /\ u.entry = v.entry /\ u.ref = v.ref
                                 /\ u.valid = v.valid \cup {ip})
      BY <3>2, <3>4, <3>6, <1>IlockIs, SMTT(20)
    <3>8. /\ x \in Rec /\ (Ok(x) => Ok(u))
          /\ Ok(x) /\ Good(u, 0, 0) /\ dp \in u.valid /\ ip \in u.valid
             /\ u.entry[dp][name] = ip /\ u.ref[ip] > (IF dp = ip THEN 1 ELSE 0)
             => Good(x, 0, 0) /\ Left(u, x, dp, ip)
      BY <3>1, <3>2, <3>5, <3>7, <1>UnlinkFromGood, Zenon
    <3>9. ASSUME Ok(x) PROVE Fresh(t, x, 0)
      <4>1. Ok(u) /\ Ok(v) /\ Ok(s)
        BY <3>6, <3>7, <3>8, <3>9, Zenon
      <4>2. /\ Good(s, 0, 0) /\ dp \in s.valid
            /\ \A j \in Inodes : s.ref[j] = t.ref[j] + (IF j = dp THEN 1 ELSE 0)
        BY <2>5, <4>1, Zenon
      <4>3. \A j \in Inodes : t.ref[j] \in Nat /\ s.ref[j] \in Nat
        BY <4>2, Zenon DEF Good, Sane
      <4>4. Good(v, ip, 0)
        BY <3>2, <3>3, <4>2, IgetGood, Zenon
      <4>5. \A j \in Inodes : v.ref[j] = s.ref[j] + (IF j = ip THEN 1 ELSE 0)
        <5>1. s.ref \in [Inodes -> Int]
          BY RecFields, Zenon
        <5> QED BY <3>6, <4>3, <5>1, SMTT(20)
      <4>6. Good(u, 0, 0) /\ dp \in u.valid /\ ip \in u.valid
        <5>1. v.ref[ip] > 0
          BY <3>2, <4>3, <4>5, SMTT(20)
        <5> QED BY <3>2, <3>4, <3>6, <3>7, <4>1, <4>2, <4>4, <5>1, <1>IlockGood, Zenon
      <4>7. \A j \in Inodes : u.ref[j] = t.ref[j] + (IF j = dp THEN 1 ELSE 0)
                                                  + (IF j = ip THEN 1 ELSE 0)
        BY <3>7, <4>1, <4>2, <4>3, <4>5, Zenon
      <4>8. u.ref[ip] > (IF dp = ip THEN 1 ELSE 0)
        BY <3>2, <4>3, <4>7, SMTT(20)
      <4>9. u.entry[dp][name] = ip
        BY <3>1, <3>6, <3>7, <4>1, Zenon
      <4>10. Good(x, 0, 0) /\ Left(u, x, dp, ip)
        BY <3>8, <3>9, <4>6, <4>8, <4>9, Zenon
      <4>11. t \in Rec /\ u \in Rec /\ x \in Rec
        BY <2>1, <3>7, <3>8, Zenon
      <4>12. Raised(t, u, dp, ip)
        BY <4>7, Zenon DEF Raised
      <4> QED BY <4>10, <4>11, <4>12, <1>LeftFresh, Zenon
    <3>10. Fresh(t, x, 0)
      BY <3>9, Zenon DEF Fresh
    <3> QED BY <3>3, <3>4, <3>5, <3>10, Zenon
  <2> QED BY <2>2, <2>4, <2>6, <2>7, Zenon

<1> QED BY <1>NameiLocked, <1>NoParent, <1>Created,
           <1>LinkFresh, <1>UnlinkFresh, Zenon

-----------------------------------------------------------------------------
(* The invariant of the system. *)

\* Two sets that differ at y at most.
LEMMA Flip ==
    ASSUME Laws, NEW S, IsFiniteSet(S), NEW A \in SUBSET S, NEW B \in SUBSET S, NEW y \in S,
           \A x \in S : x # y => (x \in A <=> x \in B)
    PROVE  /\ Cardinality(A) \in Nat /\ Cardinality(B) \in Nat
           /\ Cardinality(B) = Cardinality(A) - (IF y \in A THEN 1 ELSE 0)
                                              + (IF y \in B THEN 1 ELSE 0)
<1>1. PICK C : C = A \ {y}
  BY Zenon
<1>2. IsFiniteSet(A) /\ IsFiniteSet(B) /\ IsFiniteSet(C)
  <2>1. C \in SUBSET S
    BY <1>1, Zenon
  <2> QED BY <2>1, Within, Zenon
<1>3. Cardinality(A) \in Nat /\ Cardinality(B) \in Nat /\ Cardinality(C) \in Nat
  BY <1>2, Zenon DEF Laws, TypeLaw
<1>4. C = B \ {y}
  BY <1>1, Zenon
<1>5. Cardinality(C) = Cardinality(A) - (IF y \in A THEN 1 ELSE 0)
  <2>1. CASE y \in A
    BY <1>1, <1>2, <2>1, OneLess, Zenon
  <2>2. CASE y \notin A
    <3>1. C = A
      BY <1>1, <2>2, Zenon
    <3> QED BY <1>3, <2>2, <3>1
  <2> QED BY <2>1, <2>2, Zenon
<1>6. Cardinality(C) = Cardinality(B) - (IF y \in B THEN 1 ELSE 0)
  <2>1. CASE y \in B
    BY <1>2, <1>4, <2>1, OneLess, Zenon
  <2>2. CASE y \notin B
    <3>1. C = B
      BY <1>4, <2>2, Zenon
    <3> QED BY <1>3, <2>2, <3>1
  <2> QED BY <2>1, <2>2, Zenon
<1> QED BY <1>3, <1>5, <1>6

Files    == 1 .. NFILE
FileRecs == [ref : Int, type : {"FD_NONE", "FD_INODE"}, ip : 0 .. NINODES]

\* A file of the table is unused, or an inode that is referenced.
Table(fl) ==
    /\ fl \in [Files -> FileRecs]
    /\ \A f \in Files : \/ fl[f] = NoFile
                        \/ fl[f].ref > 0 /\ fl[f].type = "FD_INODE" /\ fl[f].ip \in Inodes

\* A process that is not there has no descriptors.
Owned(of, cw) ==
    /\ of \in [Procs -> [Fds -> 0 .. NFILE]] /\ cw \in [Procs -> 0 .. NINODES]
    /\ \A p \in Procs : cw[p] = 0 => \A fd \in Fds : of[p][fd] = 0

Users(cw, i)  == {p \in Procs : cw[p] = i}
Opens(fl, i)  == {f \in Files : fl[f].type = "FD_INODE" /\ fl[f].ip = i}
Descs(of, f)  == {x \in Procs \X Fds : of[x[1]][x[2]] = f}

RefsOf(t, cw, fl) ==
    \A i \in Inodes : t.ref[i] = Cardinality(Users(cw, i)) + Cardinality(Opens(fl, i))
FileRefsOf(fl, of) ==
    \A f \in Files : fl[f].ref = Cardinality(Descs(of, f))

State(t, fl, of, cw) ==
    Good(t, 0, 0) /\ Table(fl) /\ Owned(of, cw) /\ RefsOf(t, cw, fl) /\ FileRefsOf(fl, of)

\* The inductive invariant: until a panic() the state is consistent.
IInv == Up => State(fs, files, ofile, cwd)

LEMMA SetsFinite ==
    ASSUME Laws
    PROVE  IsFiniteSet(Procs) /\ IsFiniteSet(Files) /\ IsFiniteSet(Procs \X Fds)
<1>1. 1 \in Int /\ NFILE \in Int /\ 0 \in Int /\ NOFILE - 1 \in Int
  BY FileSysAssumption
<1>2. IsFiniteSet(Files)
  BY <1>1, Zenon DEF Files, Laws, IntervalLaw
<1>3. IsFiniteSet(Fds)
  BY <1>1, Zenon DEF Fds, Laws, IntervalLaw
<1>4. IsFiniteSet(Procs)
  BY FileSysAssumption, Zenon
<1>5. IsFiniteSet(Procs \X Fds)
  BY <1>3, <1>4, Zenon DEF Laws, ProductLaw
<1> QED BY <1>2, <1>4, <1>5, Zenon

LEMMA CountsAre ==
    ASSUME Laws, NEW cw, NEW fl, NEW of, NEW i
    PROVE  /\ IsFiniteSet(Users(cw, i)) /\ Cardinality(Users(cw, i)) \in Nat
           /\ IsFiniteSet(Opens(fl, i)) /\ Cardinality(Opens(fl, i)) \in Nat
           /\ IsFiniteSet(Descs(of, i)) /\ Cardinality(Descs(of, i)) \in Nat
<1>1. /\ Users(cw, i) \in SUBSET Procs /\ Opens(fl, i) \in SUBSET Files
      /\ Descs(of, i) \in SUBSET (Procs \X Fds)
  BY Zenon DEF Users, Opens, Descs
<1> QED BY <1>1, SetsFinite, Within, Zenon

\* A member counts.
LEMMA Counted ==
    ASSUME Laws, NEW S, IsFiniteSet(S), NEW y \in S
    PROVE  Cardinality(S) \in Nat /\ Cardinality(S) > 0
<1>1. Cardinality(S) \in Nat \ {0}
  BY OneLess, Zenon
<1> QED BY <1>1

\* A process changes its directory.
UsersMoved(cw, cx, i, p, n) ==
    Cardinality(Users(cx, i)) = Cardinality(Users(cw, i)) - (IF cw[p] = i THEN 1 ELSE 0)
                                                          + (IF n = i THEN 1 ELSE 0)
LEMMA UsersMove ==
    ASSUME Laws, NEW cw \in [Procs -> 0 .. NINODES], NEW p \in Procs, NEW n \in 0 .. NINODES,
           NEW cx, cx = [cw EXCEPT ![p] = n], NEW i \in Inodes
    PROVE  UsersMoved(cw, cx, i, p, n)
<1>1. PICK A, B : A = Users(cw, i) /\ B = Users(cx, i)
  BY Zenon
<1>2. /\ A \in SUBSET Procs /\ B \in SUBSET Procs
      /\ \A x \in Procs : x # p => (x \in A <=> x \in B)
      /\ p \in A <=> cw[p] = i
      /\ p \in B <=> n = i
  BY <1>1, Zenon DEF Users
<1>3. Cardinality(B) = Cardinality(A) - (IF p \in A THEN 1 ELSE 0) + (IF p \in B THEN 1 ELSE 0)
  BY <1>2, SetsFinite, Flip
<1> QED BY <1>1, <1>2, <1>3, Zenon DEF UsersMoved

\* A file of the table changes.
OpensMoved(fl, fx, i, f, n) ==
    Cardinality(Opens(fx, i)) = Cardinality(Opens(fl, i))
                - (IF fl[f].type = "FD_INODE" /\ fl[f].ip = i THEN 1 ELSE 0)
                + (IF n.type = "FD_INODE" /\ n.ip = i THEN 1 ELSE 0)
LEMMA OpensMove ==
    ASSUME Laws, NEW fl \in [Files -> FileRecs], NEW f \in Files, NEW n \in FileRecs,
           NEW fx, fx = [fl EXCEPT ![f] = n], NEW i \in Inodes
    PROVE  OpensMoved(fl, fx, i, f, n)
<1>1. PICK A, B : A = Opens(fl, i) /\ B = Opens(fx, i)
  BY Zenon
<1>2. /\ A \in SUBSET Files /\ B \in SUBSET Files
      /\ \A x \in Files : x # f => (x \in A <=> x \in B)
      /\ f \in A <=> fl[f].type = "FD_INODE" /\ fl[f].ip = i
      /\ f \in B <=> n.type = "FD_INODE" /\ n.ip = i
  BY <1>1, Zenon DEF Opens
<1>3. Cardinality(B) = Cardinality(A) - (IF f \in A THEN 1 ELSE 0) + (IF f \in B THEN 1 ELSE 0)
  BY <1>2, SetsFinite, Flip
<1> QED BY <1>1, <1>2, <1>3, Zenon DEF OpensMoved

\* A descriptor changes.
DescsMoved(of, ox, f, p, fd, n) ==
    Cardinality(Descs(ox, f)) = Cardinality(Descs(of, f))
                - (IF of[p][fd] = f THEN 1 ELSE 0) + (IF n = f THEN 1 ELSE 0)
LEMMA DescsMove ==
    ASSUME Laws, NEW of \in [Procs -> [Fds -> 0 .. NFILE]], NEW p \in Procs, NEW fd \in Fds,
           NEW n \in 0 .. NFILE, NEW ox, ox = [of EXCEPT ![p][fd] = n], NEW f \in Files
    PROVE  DescsMoved(of, ox, f, p, fd, n)
<1>0. PICK A, B : A = Descs(of, f) /\ B = Descs(ox, f)
  BY Zenon
<1>1. PICK y : A = Descs(of, f) /\ B = Descs(ox, f) /\ y = <<p, fd>>
  BY <1>0, Zenon
<1>2. A \in SUBSET (Procs \X Fds) /\ B \in SUBSET (Procs \X Fds) /\ y \in Procs \X Fds
  BY <1>1, Zenon DEF Descs
<1>3. ASSUME NEW x \in Procs \X Fds, x # y
      PROVE  x \in A <=> x \in B
  <2>1. PICK q \in Procs, e \in Fds : x = <<q, e>>
    BY SMT
  <2>2. ox[q][e] = of[q][e]
    <3>1. ~(q = p /\ e = fd)
      BY <1>1, <1>3, <2>1, Zenon
    <3> QED BY <3>1, Zenon
  <2> QED BY <1>1, <2>1, <2>2, Zenon DEF Descs
<1>4. /\ y \in A <=> of[p][fd] = f
      /\ y \in B <=> n = f
  <2>1. ox[p][fd] = n
    BY Zenon
  <2> QED BY <1>1, <1>2, <2>1, Zenon DEF Descs
<1>5. Cardinality(B) = Cardinality(A) - (IF y \in A THEN 1 ELSE 0) + (IF y \in B THEN 1 ELSE 0)
  <2>1. PICK S : S = Procs \X Fds
    BY Zenon
  <2>2. /\ IsFiniteSet(S) /\ A \in SUBSET S /\ B \in SUBSET S /\ y \in S
        /\ \A x \in S : x # y => (x \in A <=> x \in B)
    BY <1>2, <1>3, <2>1, SetsFinite, Zenon
  <2> QED BY <2>2, Flip
<1> QED BY <1>1, <1>4, <1>5, Zenon DEF DescsMoved

-----------------------------------------------------------------------------
(* Files, descriptors and directories. *)

\* A call that changes neither files nor directories.
LEMMA StateFresh ==
    ASSUME NEW t, NEW fl, NEW of, NEW cw, State(t, fl, of, cw), NEW v, Fresh(t, v, 0), Ok(v)
    PROVE  State(v, fl, of, cw)
<1>1. Good(v, 0, 0) /\ \A j \in Inodes : v.ref[j] = t.ref[j] + (IF j = 0 THEN 1 ELSE 0)
  BY Zenon DEF Fresh
<1>2. ASSUME NEW j \in Inodes PROVE v.ref[j] = t.ref[j]
  <2>1. t.ref[j] \in Nat /\ j # 0
    BY InodeIs, Zenon DEF State, Good, Sane
  <2> QED BY <1>1, <2>1, SMTT(20)
<1>3. RefsOf(v, cw, fl)
  BY <1>2, Zenon DEF State, RefsOf
<1> QED BY <1>1, <1>3, Zenon DEF State

\* sys_open() gets a file and a descriptor.
LEMMA StateOpen ==
    ASSUME Laws, NEW t, NEW fl, NEW of, NEW cw, State(t, fl, of, cw), NEW ip \in Inodes,
           NEW v, Fresh(t, v, ip), Ok(v), NEW p \in Procs, cw[p] # 0,
           NEW f \in Files, fl[f].ref = 0, NEW fd \in Fds, of[p][fd] = 0,
           NEW fx, fx = [fl EXCEPT ![f] = [ref |-> 1, type |-> "FD_INODE", ip |-> ip]],
           NEW ox, ox = [of EXCEPT ![p][fd] = f]
    PROVE  State(v, fx, ox, cw)
<1>1. PICK n : n = [ref |-> 1, type |-> "FD_INODE", ip |-> ip]
  BY Zenon
<1>2. /\ n \in FileRecs /\ n.ref = 1 /\ n.type = "FD_INODE" /\ n.ip = ip
      /\ fx = [fl EXCEPT ![f] = n]
  BY <1>1, InodeIs DEF FileRecs
<1>3. /\ Good(t, 0, 0) /\ Table(fl) /\ Owned(of, cw) /\ RefsOf(t, cw, fl) /\ FileRefsOf(fl, of)
      /\ fl \in [Files -> FileRecs] /\ of \in [Procs -> [Fds -> 0 .. NFILE]]
  BY Zenon DEF State, Table, Owned
<1>4. fl[f].type # "FD_INODE"
  <2>1. fl[f] = NoFile \/ fl[f].ref > 0
    BY <1>3, Zenon DEF Table
  <2>2. ~(0 > 0) /\ NoFile.type # "FD_INODE"
    BY SMT DEF NoFile
  <2> QED BY <2>1, <2>2, Zenon
<1>5. Good(v, 0, 0) /\ \A j \in Inodes : v.ref[j] = t.ref[j] + (IF j = ip THEN 1 ELSE 0)
  BY Zenon DEF Fresh
<1>6. Table(fx)
  BY <1>2, <1>3 DEF Table
<1>7. Owned(ox, cw)
  <2>1. f \in 0 .. NFILE
    BY DEF Files
  <2>2. ox \in [Procs -> [Fds -> 0 .. NFILE]]
    BY <1>3, <2>1, Zenon
  <2>3. \A q \in Procs : q # p => ox[q] = of[q]
    BY <1>3, Zenon
  <2> QED BY <1>3, <2>2, <2>3, Zenon DEF Owned
<1>8. RefsOf(v, cw, fx)
  <2> SUFFICES ASSUME NEW i \in Inodes
               PROVE  v.ref[i] = Cardinality(Users(cw, i)) + Cardinality(Opens(fx, i))
    BY Zenon DEF RefsOf
  <2>1. PICK a \in Nat, b \in Nat : a = Cardinality(Users(cw, i)) /\ b = Cardinality(Opens(fl, i))
    BY CountsAre, Zenon
  <2>2. Cardinality(Opens(fx, i)) = b + (IF ip = i THEN 1 ELSE 0)
    <3>1. OpensMoved(fl, fx, i, f, n)
      BY <1>2, <1>3, OpensMove, Zenon
    <3> QED BY <1>2, <1>4, <2>1, <3>1 DEF OpensMoved
  <2>3. t.ref[i] = a + b
    BY <1>3, <2>1, Zenon DEF RefsOf
  <2> QED BY <1>5, <2>1, <2>2, <2>3
<1>9. FileRefsOf(fx, ox)
  <2> SUFFICES ASSUME NEW g \in Files
               PROVE  fx[g].ref = Cardinality(Descs(ox, g))
    BY Zenon DEF FileRefsOf
  <2>1. PICK c \in Nat : c = Cardinality(Descs(of, g))
    BY CountsAre, Zenon
  <2>2. g # 0 /\ f \in 0 .. NFILE
    BY DEF Files
  <2>3. Cardinality(Descs(ox, g)) = c + (IF f = g THEN 1 ELSE 0)
    <3>1. DescsMoved(of, ox, g, p, fd, f)
      BY <1>3, <2>2, DescsMove, Zenon
    <3> QED BY <2>1, <2>2, <3>1 DEF DescsMoved
  <2>4. fl[g].ref = c
    BY <1>3, <2>1, Zenon DEF FileRefsOf
  <2>5. CASE g = f
    <3>1. c = 0 /\ fx[g].ref = 1
      BY <1>2, <1>3, <2>4, <2>5, Zenon
    <3> QED BY <2>3, <2>5, <3>1
  <2>6. CASE g # f
    <3>1. fx[g] = fl[g]
      BY <1>2, <1>3, <2>6, Zenon
    <3> QED BY <2>1, <2>3, <2>4, <2>6, <3>1
  <2> QED BY <2>5, <2>6, Zenon
<1> QED BY <1>5, <1>6, <1>7, <1>8, <1>9, Zenon DEF State

\* sys_chdir(): the old directory is given back.
LEMMA StateChdir ==
    ASSUME Laws, NEW t, NEW fl, NEW of, NEW cw, State(t, fl, of, cw), NEW ip \in Inodes,
           NEW v \in Rec, Fresh(t, v, ip), NEW p \in Procs, cw[p] # 0, NEW trans \in BOOLEAN,
           NEW w, w = Iput(v, cw[p], trans), Ok(w), NEW cx, cx = [cw EXCEPT ![p] = ip]
    PROVE  State(w, fl, of, cx)
<1>1. /\ Good(t, 0, 0) /\ Table(fl) /\ Owned(of, cw) /\ RefsOf(t, cw, fl) /\ FileRefsOf(fl, of)
      /\ cw \in [Procs -> 0 .. NINODES]
  BY Zenon DEF State, Owned
<1>2. PICK d \in Inodes : d = cw[p]
  BY <1>1, FileSysAssumption DEF Inodes
<1>3. ip \in 0 .. NINODES /\ ip # 0 /\ d # 0
  BY InodeIs, Zenon
<1>4. Ok(v)
  BY <1>2, IputShape, Zenon
<1>5. Good(v, 0, 0) /\ \A j \in Inodes : v.ref[j] = t.ref[j] + (IF j = ip THEN 1 ELSE 0)
  BY <1>4, Zenon DEF Fresh
<1>6. v.ref[d] > 0
  <2>1. p \in Users(cw, d)
    BY <1>2, Zenon DEF Users
  <2>2. PICK a \in Nat, b \in Nat : a = Cardinality(Users(cw, d)) /\ b = Cardinality(Opens(fl, d))
    BY CountsAre, Zenon
  <2>3. a > 0
    BY <2>1, <2>2, CountsAre, Counted, Zenon
  <2>4. t.ref[d] = a + b
    BY <1>1, <2>2, Zenon DEF RefsOf
  <2> QED BY <1>5, <2>2, <2>3, <2>4
<1>7. Good(w, 0, 0) /\ w.ref = [v.ref EXCEPT ![d] = v.ref[d] - 1]
  BY <1>2, <1>3, <1>5, <1>6, IputGood
<1>8. Owned(of, cx)
  BY <1>1, <1>3, Zenon DEF Owned
<1>9. RefsOf(w, cx, fl)
  <2> SUFFICES ASSUME NEW i \in Inodes
               PROVE  w.ref[i] = Cardinality(Users(cx, i)) + Cardinality(Opens(fl, i))
    BY Zenon DEF RefsOf
  <2>1. PICK a \in Nat, b \in Nat : a = Cardinality(Users(cw, i)) /\ b = Cardinality(Opens(fl, i))
    BY CountsAre, Zenon
  <2>2. Cardinality(Users(cx, i)) = a - (IF d = i THEN 1 ELSE 0) + (IF ip = i THEN 1 ELSE 0)
    <3>1. UsersMoved(cw, cx, i, p, ip)
      BY <1>1, <1>3, UsersMove, Zenon
    <3> QED BY <1>2, <2>1, <3>1, Zenon DEF UsersMoved
  <2>3. t.ref[i] = a + b
    BY <1>1, <2>1, Zenon DEF RefsOf
  <2>4. w.ref[i] = v.ref[i] - (IF d = i THEN 1 ELSE 0)
    <3>1. v.ref \in [Inodes -> Int]
      BY RecFields, Zenon
    <3> QED BY <1>7, <3>1
  <2>5. v.ref[i] = a + b + (IF ip = i THEN 1 ELSE 0)
    BY <1>5, <2>3, Zenon
  <2> QED BY <2>1, <2>2, <2>4, <2>5
<1> QED BY <1>1, <1>7, <1>8, <1>9, Zenon DEF State

\* dup() and fileclose() change one count: n is the file f with c references.
Recount(fl, f, c, n) ==
    n \in FileRecs /\ n.ref = c /\ n.type = fl[f].type /\ n.ip = fl[f].ip

LEMMA RecountIs ==
    ASSUME NEW fl \in [Files -> FileRecs], NEW f \in Files, NEW c \in Int,
           NEW n, n = [fl[f] EXCEPT !.ref = c]
    PROVE  Recount(fl, f, c, n)
<1>1. fl[f] \in FileRecs
  BY Zenon
<1> QED BY <1>1, Zenon DEF Recount, FileRecs

\* A count and a descriptor change together.
LEMMA StateRecount ==
    ASSUME Laws, NEW t, NEW fl, NEW of, NEW cw, State(t, fl, of, cw), NEW p \in Procs, cw[p] # 0,
           NEW fd \in Fds, NEW f \in Files, NEW n, NEW c \in Nat \ {0}, Recount(fl, f, c, n),
           fl[f].ref > 0, NEW m \in {0, f},
           \/ of[p][fd] = f /\ m = 0 /\ c = fl[f].ref - 1
           \/ of[p][fd] = 0 /\ m = f /\ c = fl[f].ref + 1,
           NEW fx, fx = [fl EXCEPT ![f] = n], NEW ox, ox = [of EXCEPT ![p][fd] = m]
    PROVE  State(t, fx, ox, cw)
<1>1. /\ Good(t, 0, 0) /\ Table(fl) /\ Owned(of, cw) /\ RefsOf(t, cw, fl) /\ FileRefsOf(fl, of)
      /\ fl \in [Files -> FileRecs] /\ of \in [Procs -> [Fds -> 0 .. NFILE]]
  BY Zenon DEF State, Table, Owned
<1>2. n \in FileRecs /\ n.ref = c /\ n.type = fl[f].type /\ n.ip = fl[f].ip /\ m \in 0 .. NFILE
  BY FileSysAssumption DEF Recount, Files
<1>3. Table(fx)
  <2>1. fl[f] = NoFile \/ (fl[f].type = "FD_INODE" /\ fl[f].ip \in Inodes)
    BY <1>1, Zenon DEF Table
  <2>2. NoFile.ref = 0 /\ fl[f].ref # 0
    BY SMT DEF NoFile
  <2>3. fl[f].type = "FD_INODE" /\ fl[f].ip \in Inodes
    BY <2>1, <2>2, Zenon
  <2> QED BY <1>1, <1>2, <2>3, SMTT(20) DEF Table
<1>4. Owned(ox, cw)
  <2>1. ox \in [Procs -> [Fds -> 0 .. NFILE]]
    BY <1>1, <1>2, Zenon
  <2>2. \A q \in Procs : q # p => ox[q] = of[q]
    BY <1>1, Zenon
  <2> QED BY <1>1, <2>1, <2>2, Zenon DEF Owned
<1>5. RefsOf(t, cw, fx)
  <2> SUFFICES ASSUME NEW i \in Inodes
               PROVE  t.ref[i] = Cardinality(Users(cw, i)) + Cardinality(Opens(fx, i))
    BY Zenon DEF RefsOf
  <2>1. Opens(fx, i) = Opens(fl, i)
    <3>1. \A g \in Files : fx[g].type = fl[g].type /\ fx[g].ip = fl[g].ip
      BY <1>1, <1>2, Zenon
    <3> QED BY <3>1, Zenon DEF Opens
  <2> QED BY <1>1, <2>1, Zenon DEF RefsOf
<1>6. FileRefsOf(fx, ox)
  <2> SUFFICES ASSUME NEW g \in Files
               PROVE  fx[g].ref = Cardinality(Descs(ox, g))
    BY Zenon DEF FileRefsOf
  <2>1. PICK k \in Nat : k = Cardinality(Descs(of, g))
    BY CountsAre, Zenon
  <2>2. g # 0
    BY DEF Files
  <2>3. Cardinality(Descs(ox, g)) = k - (IF of[p][fd] = g THEN 1 ELSE 0) + (IF m = g THEN 1 ELSE 0)
    <3>1. DescsMoved(of, ox, g, p, fd, m)
      BY <1>1, <1>2, DescsMove, Zenon
    <3> QED BY <2>1, <3>1, Zenon DEF DescsMoved
  <2>4. fl[g].ref = k
    BY <1>1, <2>1, Zenon DEF FileRefsOf
  <2>5. fx[g].ref = IF g = f THEN c ELSE k
    BY <1>1, <1>2, <2>4, Zenon
  <2> QED BY <2>1, <2>2, <2>3, <2>4, <2>5
<1> QED BY <1>1, <1>3, <1>4, <1>5, <1>6, Zenon DEF State

Tabs == [t : Rec, files : [Files -> FileRecs]]

StillOpen(t, fl, f, u, fx) ==
    /\ fl[f].ref > 1 /\ u = t
    /\ \E n : Recount(fl, f, fl[f].ref - 1, n) /\ fx = [fl EXCEPT ![f] = n]
LastClose(t, fl, f, u, fx) ==
    /\ fl[f].ref = 1 /\ fl[f].type = "FD_INODE" /\ fl[f].ip \in Inodes
    /\ fx = [fl EXCEPT ![f] = NoFile]
    /\ \E trans \in BOOLEAN : u = Iput(t, fl[f].ip, trans)

\* fileclose() ends in a panic(), with the file still open, or with its last close.
LEMMA CloseIs ==
    ASSUME NEW s \in Tabs, Table(s.files), NEW f \in Files, NEW v, v = FileClose(s, f)
    PROVE  /\ v \in Tabs /\ Table(v.files) /\ (Ok(v.t) => Ok(s.t))
           /\ Ok(v.t) => \/ StillOpen(s.t, s.files, f, v.t, v.files)
                         \/ LastClose(s.t, s.files, f, v.t, v.files)
<1>1. PICK t \in Rec, fl \in [Files -> FileRecs] : t = s.t /\ fl = s.files
  BY Zenon DEF Tabs
<1>2. fl[f] \in FileRecs /\ fl[f].ref \in Int
  BY Zenon DEF FileRecs
<1>3. CASE fl[f].ref < 1
  <2>1. PICK msg : msg = "fileclose"
    BY Zenon
  <2>2. PICK u : u = Panic(t, msg)
    BY Zenon
  <2>3. v = [s EXCEPT !.t = u]
    BY <1>1, <1>3, <2>1, <2>2, Zenon DEF FileClose
  <2>4. u \in Rec /\ ~Ok(u)
    <3>1. Message(msg)
      BY <2>1, Zenon DEF Message, Messages
    <3> QED BY <2>2, <3>1, PanicIs, Zenon
  <2>5. v.t = u /\ v.files = fl
    BY <1>1, <2>3, Zenon DEF Tabs
  <2>6. v \in Tabs
    BY <2>3, <2>4, Zenon DEF Tabs
  <2> QED BY <1>1, <2>4, <2>5, <2>6, Zenon
<1>4. CASE fl[f].ref > 1
  <2>1. PICK n : n = [fl[f] EXCEPT !.ref = fl[f].ref - 1]
    BY Zenon
  <2>2. PICK fx : fx = [fl EXCEPT ![f] = n]
    BY Zenon
  <2>3. ~(fl[f].ref < 1)
    BY <1>2, <1>4
  <2>4. v = [s EXCEPT !.files = fx]
    BY <1>1, <1>4, <2>1, <2>2, <2>3, Zenon DEF FileClose
  <2>5. fl[f].ref - 1 \in Int /\ Recount(fl, f, fl[f].ref - 1, n)
    <3>1. fl[f].ref - 1 \in Int
      BY <1>2
    <3> QED BY <2>1, <3>1, RecountIs, Zenon
  <2>6. fx \in [Files -> FileRecs] /\ Table(fx)
    <3>1. n \in FileRecs /\ n.ref > 0 /\ n.type = fl[f].type /\ n.ip = fl[f].ip
      BY <1>2, <1>4, <2>5, SMTT(20) DEF Recount
    <3>2. fl[f].type = "FD_INODE" /\ fl[f].ip \in Inodes
      BY <1>1, <1>4 DEF Table, NoFile
    <3> QED BY <1>1, <2>2, <3>1, <3>2, Zenon DEF Table
  <2>7. v.t = t /\ v.files = fx
    BY <1>1, <2>4, Zenon DEF Tabs
  <2>8. v \in Tabs
    BY <2>4, <2>6, Zenon DEF Tabs
  <2>9. StillOpen(t, fl, f, v.t, v.files)
    BY <1>4, <2>2, <2>5, <2>7, Zenon DEF StillOpen
  <2> QED BY <1>1, <2>6, <2>7, <2>8, <2>9, Zenon
<1>5. CASE fl[f].ref = 1
  <2>1. fl[f].type = "FD_INODE" /\ fl[f].ip \in Inodes
    BY <1>1, <1>5 DEF Table, NoFile
  <2>2. PICK ip \in Inodes, trans \in BOOLEAN : ip = fl[f].ip /\ trans = TRUE
    BY <2>1, Zenon
  <2>3. PICK u : u = Iput(t, ip, trans)
    BY Zenon
  <2>4. PICK fx : fx = [fl EXCEPT ![f] = NoFile]
    BY Zenon
  <2>5. v = [files |-> fx, t |-> u]
    <3>1. ~(fl[f].ref < 1) /\ ~(fl[f].ref > 1)
      BY <1>5
    <3> QED BY <1>1, <2>2, <2>3, <2>4, <3>1, Zenon DEF FileClose
  <2>6. u \in Rec /\ (Ok(u) => Ok(t))
    BY <2>3, IputShape, Zenon
  <2>7. fx \in [Files -> FileRecs] /\ Table(fx)
    <3>1. NoFile \in FileRecs
      BY FileSysAssumption DEF NoFile, FileRecs
    <3> QED BY <1>1, <2>4, <3>1, Zenon DEF Table
  <2>8. v.t = u /\ v.files = fx /\ v \in Tabs
    BY <2>5, <2>6, <2>7 DEF Tabs
  <2>9. LastClose(t, fl, f, v.t, v.files)
    BY <1>5, <2>1, <2>2, <2>3, <2>4, <2>8, Zenon DEF LastClose
  <2> QED BY <1>1, <2>6, <2>7, <2>8, <2>9, Zenon
<1> QED BY <1>2, <1>3, <1>4, <1>5

\* fileclose() of a descriptor of p.
LEMMA StateClose ==
    ASSUME Laws, NEW s \in Tabs, NEW of, NEW cw, State(s.t, s.files, of, cw), NEW p \in Procs,
           cw[p] # 0, NEW fd \in Fds, NEW f \in Files, of[p][fd] = f,
           NEW v, v = FileClose(s, f), Ok(v.t), NEW ox, ox = [of EXCEPT ![p][fd] = 0]
    PROVE  State(v.t, v.files, ox, cw)
<1>1. PICK t, fl, u, fx : t = s.t /\ fl = s.files /\ u = v.t /\ fx = v.files
  BY Zenon
<1>2. /\ Good(t, 0, 0) /\ Table(fl) /\ Owned(of, cw) /\ RefsOf(t, cw, fl) /\ FileRefsOf(fl, of)
      /\ fl \in [Files -> FileRecs] /\ of \in [Procs -> [Fds -> 0 .. NFILE]] /\ t \in Rec
      /\ 0 \in 0 .. NFILE
  <2>1. State(t, fl, of, cw)
    BY <1>1, Zenon
  <2>2. 0 \in 0 .. NFILE
    BY FileSysAssumption
  <2> QED BY <2>1, <2>2, Zenon DEF State, Table, Owned, Good
<1>3. StillOpen(t, fl, f, u, fx) \/ LastClose(t, fl, f, u, fx)
  BY <1>1, <1>2, CloseIs, Zenon
<1>4. PICK k \in Nat : k = fl[f].ref
  BY <1>2, CountsAre, Zenon DEF FileRefsOf
<1>5. CASE StillOpen(t, fl, f, u, fx)
  <2>1. PICK n : Recount(fl, f, k - 1, n) /\ fx = [fl EXCEPT ![f] = n]
    BY <1>4, <1>5, Zenon DEF StillOpen
  <2>2. k - 1 \in Nat \ {0} /\ fl[f].ref > 0
    BY <1>4, <1>5 DEF StillOpen
  <2>3. State(t, fl, of, cw)
    BY <1>1, Zenon
  <2>4. PICK m \in {0, f} : m = 0
    BY Zenon
  <2>5. State(t, fx, ox, cw)
    BY <1>4, <2>1, <2>2, <2>3, <2>4, StateRecount, Zenon
  <2> QED BY <1>1, <1>5, <2>5, Zenon DEF StillOpen
<1>6. CASE LastClose(t, fl, f, u, fx)
  <2>0. fl[f].ref = 1 /\ fl[f].type = "FD_INODE"
    BY <1>6, Zenon DEF LastClose
  <2>1. PICK d \in Inodes, trans \in BOOLEAN : d = fl[f].ip /\ u = Iput(t, d, trans)
    BY <1>6, Zenon DEF LastClose
  <2>2. /\ NoFile \in FileRecs /\ NoFile.type # "FD_INODE" /\ NoFile.ref = 0
        /\ fx = [fl EXCEPT ![f] = NoFile]
    BY <1>6, FileSysAssumption DEF NoFile, FileRecs, LastClose
  <2>3. Table(fx)
    BY <1>2, <2>2, Zenon DEF Table
  <2>4. Owned(ox, cw)
    <3>1. ox \in [Procs -> [Fds -> 0 .. NFILE]]
      BY <1>2, Zenon
    <3>2. \A q \in Procs : q # p => ox[q] = of[q]
      BY <1>2, Zenon
    <3> QED BY <1>2, <3>1, <3>2, Zenon DEF Owned
  <2>5. t.ref[d] > 0 /\ d # 0
    <3>1. f \in Opens(fl, d)
      BY <2>0, <2>1, Zenon DEF Opens
    <3>2. PICK a \in Nat, b \in Nat : a = Cardinality(Users(cw, d)) /\ b = Cardinality(Opens(fl, d))
      BY CountsAre, Zenon
    <3>3. b > 0
      BY <3>1, <3>2, CountsAre, Counted, Zenon
    <3>4. t.ref[d] = a + b
      BY <1>2, <3>2, Zenon DEF RefsOf
    <3> QED BY <3>2, <3>3, <3>4, InodeIs
  <2>6. Good(u, 0, 0) /\ u.ref = [t.ref EXCEPT ![d] = t.ref[d] - 1]
    <3>1. Ok(u) /\ Good(t, 0, 0) /\ d # 0 /\ t.ref[d] > 0 /\ u = Iput(t, d, trans)
      BY <1>1, <1>2, <2>1, <2>5, Zenon
    <3> QED BY <3>1, IputGood
  <2>7. RefsOf(u, cw, fx)
    <3> SUFFICES ASSUME NEW i \in Inodes
                 PROVE  u.ref[i] = Cardinality(Users(cw, i)) + Cardinality(Opens(fx, i))
      BY Zenon DEF RefsOf
    <3>1. PICK a \in Nat, b \in Nat : a = Cardinality(Users(cw, i)) /\ b = Cardinality(Opens(fl, i))
      BY CountsAre, Zenon
    <3>2. Cardinality(Opens(fx, i)) = b - (IF d = i THEN 1 ELSE 0)
      <4>1. OpensMoved(fl, fx, i, f, NoFile)
        BY <1>2, <2>2, OpensMove, Zenon
      <4> QED BY <2>0, <2>1, <2>2, <3>1, <4>1 DEF OpensMoved
    <3>3. t.ref[i] = a + b
      BY <1>2, <3>1, Zenon DEF RefsOf
    <3>4. u.ref[i] = t.ref[i] - (IF d = i THEN 1 ELSE 0)
      <4>1. t.ref \in [Inodes -> Int]
        BY <1>2, RecFields, Zenon
      <4> QED BY <2>6, <3>3, <4>1
    <3> QED BY <3>1, <3>2, <3>3, <3>4
  <2>8. FileRefsOf(fx, ox)
    <3> SUFFICES ASSUME NEW g \in Files
                 PROVE  fx[g].ref = Cardinality(Descs(ox, g))
      BY Zenon DEF FileRefsOf
    <3>1. PICK c \in Nat : c = Cardinality(Descs(of, g))
      BY CountsAre, Zenon
    <3>2. g # 0
      BY DEF Files
    <3>3. Cardinality(Descs(ox, g)) = c - (IF f = g THEN 1 ELSE 0)
      <4>1. DescsMoved(of, ox, g, p, fd, 0)
        BY <1>2, DescsMove, Zenon
      <4> QED BY <3>1, <3>2, <4>1 DEF DescsMoved
    <3>4. fl[g].ref = c
      BY <1>2, <3>1, Zenon DEF FileRefsOf
    <3>5. fx[g].ref = IF g = f THEN 0 ELSE c
      BY <1>2, <2>2, <3>4, Zenon
    <3> QED BY <2>0, <3>1, <3>3, <3>4, <3>5
  <2>9. State(u, fx, ox, cw)
    BY <2>3, <2>4, <2>6, <2>7, <2>8, Zenon DEF State
  <2> QED BY <1>1, <2>9, Zenon
<1> QED BY <1>3, <1>5, <1>6, Zenon

\* fork() counts the descriptors of the parent once more.
Inherits(of, ox, f, D) ==
    /\ Cardinality(D) \in Nat
    /\ Cardinality(Descs(ox, f)) = Cardinality(Descs(of, f)) + Cardinality(D)
    /\ Cardinality(Descs(of, f)) = 0 => D = {}
LEMMA DescsFork ==
    ASSUME Laws, NEW of \in [Procs -> [Fds -> 0 .. NFILE]], NEW p \in Procs, NEW q \in Procs,
           \A fd \in Fds : of[q][fd] = 0, NEW ox, ox = [of EXCEPT ![q] = of[p]],
           NEW f \in Files, NEW D, D = {fd \in Fds : of[p][fd] = f}
    PROVE  Inherits(of, ox, f, D)
<1>1. PICK A, B : A = Descs(of, f) /\ B = {q} \X D
  BY Zenon
<1>2. IsFiniteSet(D)
  <2>1. 0 \in Int /\ NOFILE - 1 \in Int
    BY FileSysAssumption
  <2>2. IsFiniteSet(Fds)
    BY <2>1, Zenon DEF Fds, Laws, IntervalLaw
  <2>3. D \in SUBSET Fds
    BY Zenon
  <2> QED BY <2>2, <2>3, Within, Zenon
<1>3. IsFiniteSet(A) /\ Cardinality(A) \in Nat /\ Cardinality(D) \in Nat /\ f # 0
  <2>1. Cardinality(D) \in Nat
    BY <1>2, Zenon DEF Laws, TypeLaw
  <2>2. f # 0
    BY DEF Files
  <2> QED BY <1>1, <2>1, <2>2, CountsAre, Zenon
<1>4. IsFiniteSet(B) /\ Cardinality(B) = Cardinality(D)
  <2>1. PICK Q : Q = {q}
    BY Zenon
  <2>2. IsFiniteSet(Q) /\ Cardinality(Q) = 1
    BY <2>1, Zenon DEF Laws, SingleLaw
  <2>3. IsFiniteSet(B) /\ Cardinality(B) = Cardinality(Q) * Cardinality(D)
    BY <1>1, <1>2, <2>1, <2>2, Zenon DEF Laws, ProductLaw
  <2> QED BY <1>3, <2>2, <2>3
<1>5. A \cap B = {}
  <2> SUFFICES ASSUME NEW x \in A, x \in B PROVE FALSE
    BY Zenon
  <2>1. PICK e \in D : x = <<q, e>>
    BY <1>1
  <2>2. of[q][e] = f
    BY <1>1, <2>1, Zenon DEF Descs
  <2> QED BY <1>3, <2>1, <2>2, Zenon
<1>6. Descs(ox, f) = A \cup B
  <2>1. ASSUME NEW x \in Procs \X Fds PROVE x \in Descs(ox, f) <=> x \in A \cup B
    <3>1. PICK r \in Procs, e \in Fds : x = <<r, e>>
      BY SMT
    <3>2. x \in Descs(ox, f) <=> ox[r][e] = f
      BY <3>1, Zenon DEF Descs
    <3>3. x \in A <=> of[r][e] = f
      BY <1>1, <3>1, Zenon DEF Descs
    <3>4. x \in B <=> r = q /\ of[p][e] = f
      BY <1>1, <3>1, Zenon
    <3>5. ox[r] = IF r = q THEN of[p] ELSE of[r]
      BY Zenon
    <3> QED BY <1>3, <3>2, <3>3, <3>4, <3>5
  <2>2. A \in SUBSET (Procs \X Fds) /\ B \in SUBSET (Procs \X Fds)
        /\ Descs(ox, f) \in SUBSET (Procs \X Fds)
    BY <1>1, Zenon DEF Descs
  <2> QED BY <2>1, <2>2, Zenon
<1>7. Cardinality(A \cup B) = Cardinality(A) + Cardinality(B)
  <2>1. Cardinality(A \cup B) = Cardinality(A) + Cardinality(B) - Cardinality(A \cap B)
    BY <1>3, <1>4, Zenon DEF Laws, UnionLaw
  <2>2. Cardinality(A \cap B) = 0
    BY <1>5, Zenon DEF Laws, EmptyLaw
  <2> QED BY <1>3, <1>4, <2>1, <2>2
<1>8. ASSUME Cardinality(A) = 0 PROVE D = {}
  <2>1. A = {}
    BY <1>3, <1>8, NoneThere, Zenon
  <2> SUFFICES ASSUME NEW e \in D PROVE FALSE
    BY Zenon
  <2>2. <<p, e>> \in Descs(of, f)
    BY Zenon DEF Descs
  <2> QED BY <1>1, <2>1, <2>2, Zenon
<1> QED BY <1>1, <1>3, <1>4, <1>6, <1>7, <1>8, Zenon DEF Inherits

\* fork(): the child has the files and the directory of its parent.
LEMMA StateFork ==
    ASSUME Laws, NEW t, NEW fl, NEW of, NEW cw, State(t, fl, of, cw),
           NEW p \in Procs, NEW q \in Procs,
           cw[p] # 0, cw[q] = 0, NEW fx,
           fx = [f \in Files |-> [fl[f] EXCEPT
                    !.ref = fl[f].ref + Cardinality({fd \in Fds : of[p][fd] = f})]],
           NEW ox, ox = [of EXCEPT ![q] = of[p]], NEW v, v = Iget(t, cw[p]),
           NEW cx, cx = [cw EXCEPT ![q] = cw[p]]
    PROVE  State(v, fx, ox, cx)
<1>1. /\ Good(t, 0, 0) /\ Table(fl) /\ Owned(of, cw) /\ RefsOf(t, cw, fl) /\ FileRefsOf(fl, of)
      /\ fl \in [Files -> FileRecs] /\ of \in [Procs -> [Fds -> 0 .. NFILE]] /\ t \in Rec
      /\ cw \in [Procs -> 0 .. NINODES] /\ \A fd \in Fds : of[q][fd] = 0
  BY Zenon DEF State, Table, Owned, Good
<1>2. PICK d \in Inodes : d = cw[p]
  BY <1>1, FileSysAssumption DEF Inodes
<1>3. d # 0 /\ d \in 0 .. NINODES /\ t.ref \in [Inodes -> Int] /\ p # q
  BY <1>1, InodeIs, RecFields, Zenon
<1>4. t.ref[d] > 0
  <2>1. p \in Users(cw, d)
    BY <1>2, Zenon DEF Users
  <2>2. PICK a \in Nat, b \in Nat : a = Cardinality(Users(cw, d)) /\ b = Cardinality(Opens(fl, d))
    BY CountsAre, Zenon
  <2>3. a > 0
    BY <2>1, <2>2, CountsAre, Counted, Zenon
  <2>4. t.ref[d] = a + b
    BY <1>1, <2>2, Zenon DEF RefsOf
  <2> QED BY <2>2, <2>3, <2>4
<1>5. /\ v \in Rec /\ v.type = t.type /\ v.ref = [t.ref EXCEPT ![d] = t.ref[d] + 1]
  <2>1. t \in Rec /\ v = Iget(t, d)
    BY <1>1, <1>2, Zenon
  <2> QED BY <2>1, IgetIs DEF Got
<1>6. Good(v, 0, 0)
  <2>1. Good(v, d, 0)
    BY <1>1, <1>2, IgetGood, Zenon
  <2>2. v.type[d] # "free"
    BY <1>1, <1>3, <1>4, <1>5 DEF Good, Sane
  <2>3. Sane(v, 0)
    <3>1. Sane(v, d)
      BY <2>1, Zenon DEF Good
    <3>2. \A j \in Inodes : j # 0
      BY InodeIs, Zenon
    <3> QED BY <2>2, <3>1, <3>2, Zenon DEF Sane
  <2> QED BY <2>1, <2>3, Zenon DEF Good
<1>7. ASSUME NEW f \in Files
      PROVE  /\ fx[f] \in FileRecs /\ fx[f].type = fl[f].type /\ fx[f].ip = fl[f].ip
             /\ fx[f].ref = Cardinality(Descs(ox, f))
             /\ fx[f] = NoFile \/ fx[f].ref > 0
             /\ fl[f].ref = 0 => fx[f] = NoFile
  <2>1. PICK D : D = {fd \in Fds : of[p][fd] = f}
    BY Zenon
  <2>0. Inherits(of, ox, f, D)
    BY <1>1, <2>1, DescsFork, Zenon
  <2>2. PICK c \in Nat, k \in Nat : c = Cardinality(D) /\ k = Cardinality(Descs(of, f))
    BY <2>0, CountsAre, Zenon DEF Inherits
  <2>3. Cardinality(Descs(ox, f)) = k + c /\ (k = 0 => D = {})
    BY <2>0, <2>2, Zenon DEF Inherits
  <2>4. fl[f].ref = k
    BY <1>1, <2>2, Zenon DEF FileRefsOf
  <2>5. fx[f] = [fl[f] EXCEPT !.ref = k + c]
    BY <2>1, <2>2, <2>4, Zenon
  <2>6. Recount(fl, f, k + c, fx[f])
    <3>1. PICK n : n = fx[f]
      BY Zenon
    <3>2. PICK m \in Int : m = k + c
      OBVIOUS
    <3>3. n = [fl[f] EXCEPT !.ref = m]
      BY <2>5, <3>1, <3>2, Zenon
    <3>4. Recount(fl, f, m, n)
      BY <1>1, <3>3, RecountIs, Zenon
    <3> QED BY <3>1, <3>2, <3>4, Zenon
  <2>7. (fx[f] = NoFile \/ fx[f].ref > 0) /\ (k = 0 => fx[f] = NoFile)
    <3>1. CASE k = 0
      <4>1. c = 0
        BY <2>2, <2>3, <3>1, Zenon DEF Laws, EmptyLaw
      <4>2. k + c = fl[f].ref /\ fl[f] \in FileRecs
        BY <1>1, <2>4, <3>1, <4>1
      <4>3. fx[f] = fl[f]
        BY <2>5, <4>2, Zenon DEF FileRecs
      <4>4. fl[f] = NoFile
        BY <1>1, <2>4, <3>1 DEF Table
      <4> QED BY <4>3, <4>4, Zenon
    <3>2. CASE k # 0
      BY <2>6, <3>2 DEF Recount
    <3> QED BY <3>1, <3>2, Zenon
  <2> QED BY <2>3, <2>4, <2>6, <2>7, Zenon DEF Recount
<1>8. Table(fx)
  <2>1. fx \in [Files -> FileRecs]
    <3>1. fx = [f \in Files |-> fx[f]]
      BY Zenon
    <3> QED BY <1>7, <3>1, Zenon
  <2>2. ASSUME NEW f \in Files, fx[f] # NoFile
        PROVE  fx[f].ref > 0 /\ fx[f].type = "FD_INODE" /\ fx[f].ip \in Inodes
    <3>1. fx[f].ref > 0 /\ fx[f].type = fl[f].type /\ fx[f].ip = fl[f].ip
      BY <1>7, <2>2, Zenon
    <3>2. fl[f] # NoFile
      <4>1. fl[f].ref # 0
        BY <1>7, <2>2, Zenon
      <4>2. NoFile.ref = 0
        BY Zenon DEF NoFile
      <4> QED BY <4>1, <4>2, Zenon
    <3> QED BY <1>1, <3>1, <3>2, Zenon DEF Table
  <2> QED BY <2>1, <2>2, Zenon DEF Table
<1>9. Owned(ox, cx)
  <2>1. ox \in [Procs -> [Fds -> 0 .. NFILE]] /\ cx \in [Procs -> 0 .. NINODES]
    BY <1>1, Zenon
  <2>2. \A r \in Procs : /\ ox[r] = IF r = q THEN of[p] ELSE of[r]
                         /\ cx[r] = IF r = q THEN d ELSE cw[r]
    BY <1>1, <1>2, Zenon
  <2> QED BY <1>1, <1>3, <2>1, <2>2 DEF Owned
<1>10. RefsOf(v, cx, fx)
  <2> SUFFICES ASSUME NEW i \in Inodes
               PROVE  v.ref[i] = Cardinality(Users(cx, i)) + Cardinality(Opens(fx, i))
    BY Zenon DEF RefsOf
  <2>1. PICK a \in Nat, b \in Nat : a = Cardinality(Users(cw, i)) /\ b = Cardinality(Opens(fl, i))
    BY CountsAre, Zenon
  <2>2. Cardinality(Users(cx, i)) = a + (IF d = i THEN 1 ELSE 0)
    <3>1. UsersMoved(cw, cx, i, q, d)
      BY <1>1, <1>2, <1>3, UsersMove, Zenon
    <3> QED BY <2>1, <3>1, InodeIs DEF UsersMoved
  <2>3. Opens(fx, i) = Opens(fl, i)
    BY <1>7, Zenon DEF Opens
  <2>4. t.ref[i] = a + b
    BY <1>1, <2>1, Zenon DEF RefsOf
  <2>5. v.ref[i] = t.ref[i] + (IF d = i THEN 1 ELSE 0)
    BY <1>3, <1>5, <2>4
  <2> QED BY <2>1, <2>2, <2>3, <2>4, <2>5
<1>11. FileRefsOf(fx, ox)
  BY <1>7, Zenon DEF FileRefsOf
<1> QED BY <1>6, <1>8, <1>9, <1>10, <1>11, Zenon DEF State

\* The loop of exit() over the descriptors d of the process.
Closing == {s \in Tabs : Table(s.files)}
ExitBody(t, fl, d, w) ==
    [k \in 0 .. NOFILE |->
        IF k = 0 THEN [t |-> t, files |-> fl]
        ELSE IF d[k - 1] = 0 THEN w[k - 1]
        ELSE FileClose(w[k - 1], d[k - 1])]
Closings(t, fl, d) == CHOOSE w : w = ExitBody(t, fl, d, w)

LEMMA ExitIs ==
    ASSUME Laws, NEW t \in Rec, NEW fl, Table(fl), NEW d \in [Fds -> 0 .. NFILE],
           NEW w, w = (CHOOSE z : z = ExitBody(t, fl, d, z))
    PROVE  w = ExitBody(t, fl, d, w) /\ w \in [0 .. NOFILE -> Closing]
<1> DEFINE n == NOFILE
           F == [z \in (1 .. n) \X Closing |->
                    IF d[z[1] - 1] = 0 THEN z[2] ELSE FileClose(z[2], d[z[1] - 1])]
<1>1. n \in Nat
  BY FileSysAssumption, Zenon
<1>2. ASSUME NEW k \in 1 .. n, NEW q \in Closing
      PROVE  (IF d[k - 1] = 0 THEN q ELSE FileClose(q, d[k - 1])) \in Closing
  <2>1. PICK f \in 0 .. NFILE : f = d[k - 1]
    <3>1. k - 1 \in Fds
      BY <1>1 DEF Fds
    <3> QED BY <3>1, Zenon
  <2>2. ASSUME f # 0 PROVE FileClose(q, f) \in Closing
    <3>1. f \in Files
      BY <2>2, FileSysAssumption DEF Files
    <3> QED BY <3>1, CloseIs, Zenon DEF Closing
  <2> QED BY <2>1, <2>2, Zenon
<1>3. F \in [(1 .. n) \X Closing -> Closing]
  <2>1. ASSUME NEW z \in (1 .. n) \X Closing
        PROVE  (IF d[z[1] - 1] = 0 THEN z[2] ELSE FileClose(z[2], d[z[1] - 1])) \in Closing
    <3>1. z[1] \in 1 .. n /\ z[2] \in Closing
      BY Zenon
    <3> HIDE DEF n
    <3> QED BY <1>2, <3>1, Zenon
  <2> QED BY <2>1, Zenon
<1>4. PICK a \in Closing : a = [t |-> t, files |-> fl]
  <2>1. fl \in [Files -> FileRecs]
    BY Zenon DEF Table
  <2> QED BY <2>1, Zenon DEF Closing, Tabs
<1>5. PICK v \in [0 .. n -> Closing] : /\ v[0] = a
                                       /\ \A k \in 1 .. n : v[k] = F[<<k, v[k - 1]>>]
  <2>1. PICK m, G : m = n /\ G = F
    BY Zenon
  <2>2. m \in Nat /\ G \in [(1 .. m) \X Closing -> Closing]
    BY <1>1, <1>3, <2>1, Zenon
  <2>3. \E v : Loop(m, Closing, a, G, v)
    BY <2>2, Recursion, Zenon
  <2> QED BY <2>1, <2>3, Zenon DEF Loop
<1>6. ASSUME NEW k \in 1 .. n
      PROVE  v[k] = IF d[k - 1] = 0 THEN v[k - 1] ELSE FileClose(v[k - 1], d[k - 1])
  <2>1. k - 1 \in 0 .. n
    BY <1>1
  <2>2. PICK q \in Closing : q = v[k - 1]
    BY <1>5, <2>1, Zenon
  <2>3. v[k] = F[<<k, v[k - 1]>>]
    BY <1>5, Zenon
  <2>4. F[<<k, q>>] = IF d[k - 1] = 0 THEN q ELSE FileClose(q, d[k - 1])
    BY Zenon
  <2> QED BY <2>2, <2>3, <2>4, Zenon
<1>7. v = ExitBody(t, fl, d, v)
  <2>1. \A k \in 0 .. n : k # 0 => k \in 1 .. n
    BY <1>1
  <2>2. ASSUME NEW k \in 0 .. n
        PROVE  v[k] = IF k = 0 THEN [t |-> t, files |-> fl]
                      ELSE IF d[k - 1] = 0 THEN v[k - 1]
                      ELSE FileClose(v[k - 1], d[k - 1])
    <3>1. CASE k = 0
      BY <1>4, <1>5, <3>1, Zenon
    <3>2. CASE k # 0
      <4>1. k \in 1 .. n
        BY <2>1, <3>2, Zenon
      <4> QED BY <1>6, <3>2, <4>1, Zenon
    <3> QED BY <3>1, <3>2, Zenon
  <2>3. v = [k \in 0 .. n |-> v[k]]
    BY <1>5, Zenon
  <2> QED BY <2>2, <2>3, Zenon DEF ExitBody
<1>8. w = ExitBody(t, fl, d, w)
  BY <1>7, Zenon
<1>9. w \in [0 .. n -> Closing]
  <2> DEFINE T == {k \in 0 .. n : w[k] \in Closing}
  <2>1. \A k \in 0 .. n : w[k] = IF k = 0 THEN [t |-> t, files |-> fl]
                                 ELSE IF d[k - 1] = 0 THEN w[k - 1]
                                 ELSE FileClose(w[k - 1], d[k - 1])
    BY <1>8, Zenon DEF ExitBody
  <2>2. 0 \in T
    <3>1. 0 \in 0 .. n
      BY <1>1
    <3>2. w[0] = [t |-> t, files |-> fl]
      BY <2>1, <3>1, Zenon
    <3> QED BY <1>4, <3>1, <3>2, Zenon
  <2>3. ASSUME NEW k \in 1 .. n, k - 1 \in T PROVE k \in T
    <3>1. k \in 0 .. n /\ k # 0 /\ w[k - 1] \in Closing
      BY <1>1, <2>3
    <3>2. w[k] \in Closing
      BY <1>2, <2>1, <3>1, Zenon
    <3> QED BY <3>1, <3>2, Zenon
  <2>4. T = 0 .. n
    <3>1. PICK U : U = T
      BY Zenon
    <3>2. U \in SUBSET (0 .. n) /\ 0 \in U /\ \A k \in 1 .. n : k - 1 \in U => k \in U
      BY <2>2, <2>3, <3>1, Zenon
    <3> HIDE DEF T, n
    <3> QED BY <1>1, <3>1, <3>2, Induct, Zenon
  <2>5. \A k \in 0 .. n : w[k] \in Closing
    BY <2>4, Zenon
  <2>6. w = [k \in 0 .. n |-> w[k]]
    BY <1>8, Zenon DEF ExitBody
  <2> HIDE DEF n, T
  <2> QED BY <2>5, <2>6, Zenon
<1> QED BY <1>8, <1>9, Zenon

\* The descriptors of p up to k are closed.
Upto(of, p, k) == [of EXCEPT ![p] = [fd \in Fds |-> IF fd < k THEN 0 ELSE of[p][fd]]]

LEMMA UptoStep ==
    ASSUME NEW of \in [Procs -> [Fds -> 0 .. NFILE]], NEW p \in Procs, NEW k \in 1 .. NOFILE
    PROVE  /\ k - 1 \in Fds
           /\ Upto(of, p, k - 1)[p][k - 1] = of[p][k - 1]
           /\ Upto(of, p, k) = [Upto(of, p, k - 1) EXCEPT ![p][k - 1] = 0]
           /\ of[p][k - 1] = 0 => Upto(of, p, k) = Upto(of, p, k - 1)
<1>1. PICK a, b : a = Upto(of, p, k - 1) /\ b = Upto(of, p, k)
  BY Zenon
<1>2. k - 1 \in Fds /\ k - 1 \in Int /\ k \in Int
  BY FileSysAssumption DEF Fds
<1>3. \A fd \in Fds : /\ fd \in Int
                      /\ fd < k <=> fd < k - 1 \/ fd = k - 1
  BY <1>2 DEF Fds
<1>4. /\ a \in [Procs -> [Fds -> 0 .. NFILE]] /\ b \in [Procs -> [Fds -> 0 .. NFILE]]
      /\ \A q \in Procs : q # p => a[q] = of[q] /\ b[q] = of[q]
      /\ \A fd \in Fds : /\ a[p][fd] = IF fd < k - 1 THEN 0 ELSE of[p][fd]
                         /\ b[p][fd] = IF fd < k THEN 0 ELSE of[p][fd]
  BY <1>1, FileSysAssumption DEF Upto
<1>5. a[p][k - 1] = of[p][k - 1]
  BY <1>2, <1>4
<1>6. b = [a EXCEPT ![p][k - 1] = 0]
  <2>1. PICK c : c = [a EXCEPT ![p][k - 1] = 0]
    BY Zenon
  <2>2. \A fd \in Fds : c[p][fd] = IF fd = k - 1 THEN 0 ELSE a[p][fd]
    BY <1>2, <1>4, <2>1, Zenon
  <2>3. \A fd \in Fds : c[p][fd] = b[p][fd]
    BY <1>2, <1>3, <1>4, <2>2, Zenon
  <2>4. c \in [Procs -> [Fds -> 0 .. NFILE]] /\ \A q \in Procs : q # p => c[q] = a[q]
    BY <1>2, <1>4, <2>1, FileSysAssumption
  <2>5. ASSUME NEW q \in Procs PROVE c[q] = b[q]
    <3>1. CASE q = p
      BY <1>4, <2>3, <2>4, <3>1
    <3>2. CASE q # p
      BY <1>4, <2>4, <3>2, Zenon
    <3> QED BY <3>1, <3>2, Zenon
  <2>6. c = b
    BY <1>4, <2>4, <2>5
  <2> QED BY <2>1, <2>6, Zenon
<1>7. ASSUME of[p][k - 1] = 0 PROVE b = a
  <2>1. \A fd \in Fds : b[p][fd] = a[p][fd]
    BY <1>2, <1>3, <1>4, <1>7, Zenon
  <2>2. ASSUME NEW q \in Procs PROVE b[q] = a[q]
    <3>1. CASE q = p
      BY <1>4, <2>1, <3>1
    <3>2. CASE q # p
      BY <1>4, <3>2, Zenon
    <3> QED BY <3>1, <3>2, Zenon
  <2> QED BY <1>4, <2>2
<1> QED BY <1>1, <1>2, <1>5, <1>6, <1>7, Zenon

\* exit() gives the directory back once the descriptors are closed.
LEMMA StateLeave ==
    ASSUME Laws, NEW t, NEW fl, NEW of, NEW cw, State(t, fl, of, cw), NEW p \in Procs, cw[p] # 0,
           \A fd \in Fds : of[p][fd] = 0, NEW trans \in BOOLEAN,
           NEW w, w = Iput(t, cw[p], trans), Ok(w), NEW cx, cx = [cw EXCEPT ![p] = 0]
    PROVE  State(w, fl, of, cx)
<1>1. /\ Good(t, 0, 0) /\ Table(fl) /\ Owned(of, cw) /\ RefsOf(t, cw, fl) /\ FileRefsOf(fl, of)
      /\ cw \in [Procs -> 0 .. NINODES] /\ t \in Rec /\ 0 \in 0 .. NINODES
  BY FileSysAssumption, SMTT(20) DEF State, Owned, Good
<1>2. PICK d \in Inodes : d = cw[p]
  <2>1. \A n \in 0 .. NINODES : n # 0 => n \in Inodes
    BY FileSysAssumption DEF Inodes
  <2>2. cw[p] \in 0 .. NINODES
    BY <1>1, Zenon
  <2> QED BY <2>1, <2>2, Zenon
<1>3. d # 0 /\ t.ref \in [Inodes -> Int]
  BY <1>1, InodeIs, RecFields, Zenon
<1>4. t.ref[d] > 0
  <2>1. p \in Users(cw, d)
    BY <1>2, Zenon DEF Users
  <2>2. PICK a \in Nat, b \in Nat : a = Cardinality(Users(cw, d)) /\ b = Cardinality(Opens(fl, d))
    BY CountsAre, Zenon
  <2>3. a > 0
    BY <2>1, <2>2, CountsAre, Counted, Zenon
  <2>4. t.ref[d] = a + b
    BY <1>1, <2>2, Zenon DEF RefsOf
  <2> QED BY <2>2, <2>3, <2>4
<1>5. Good(w, 0, 0) /\ w.ref = [t.ref EXCEPT ![d] = t.ref[d] - 1]
  <2>1. Good(t, 0, 0) /\ w = Iput(t, d, trans) /\ d # 0
    BY <1>1, <1>2, <1>3, Zenon
  <2> QED BY <1>4, <2>1, IputGood, SMTT(20)
<1>6. Owned(of, cx)
  BY <1>1, Zenon DEF Owned
<1>7. RefsOf(w, cx, fl)
  <2> SUFFICES ASSUME NEW i \in Inodes
               PROVE  w.ref[i] = Cardinality(Users(cx, i)) + Cardinality(Opens(fl, i))
    BY Zenon DEF RefsOf
  <2>1. PICK a \in Nat, b \in Nat : a = Cardinality(Users(cw, i)) /\ b = Cardinality(Opens(fl, i))
    BY CountsAre, Zenon
  <2>2. Cardinality(Users(cx, i)) = a - (IF d = i THEN 1 ELSE 0)
    <3>1. UsersMoved(cw, cx, i, p, 0)
      BY <1>1, UsersMove, Zenon
    <3> QED BY <1>2, <2>1, <3>1, InodeIs DEF UsersMoved
  <2>3. t.ref[i] = a + b
    BY <1>1, <2>1, Zenon DEF RefsOf
  <2>4. w.ref[i] = t.ref[i] - (IF d = i THEN 1 ELSE 0)
    BY <1>3, <1>5, <2>3
  <2> QED BY <2>1, <2>2, <2>3, <2>4
<1> QED BY <1>1, <1>5, <1>6, <1>7, Zenon DEF State

\* exit(): every round of the loop closes one descriptor.
LEMMA StateExit ==
    ASSUME Laws, NEW t, NEW fl, NEW of, NEW cw, State(t, fl, of, cw), NEW p \in Procs, cw[p] # 0,
           NEW c, c = Closings(t, fl, of[p]), NEW trans \in BOOLEAN,
           NEW w, w = Iput(c[NOFILE].t, cw[p], trans), Ok(w),
           NEW ox, ox = [of EXCEPT ![p] = [fd \in Fds |-> 0]],
           NEW cx, cx = [cw EXCEPT ![p] = 0]
    PROVE  State(w, c[NOFILE].files, ox, cx)
<1>1. /\ Good(t, 0, 0) /\ Table(fl) /\ Owned(of, cw) /\ t \in Rec
      /\ of \in [Procs -> [Fds -> 0 .. NFILE]] /\ cw \in [Procs -> 0 .. NINODES]
      /\ of[p] \in [Fds -> 0 .. NFILE]
  BY Zenon DEF State, Owned, Good
<1>2. c = ExitBody(t, fl, of[p], c) /\ c \in [0 .. NOFILE -> Closing]
  BY <1>1, ExitIs, Zenon DEF Closings
<1>3. \A k \in 0 .. NOFILE : c[k] = IF k = 0 THEN [t |-> t, files |-> fl]
                                    ELSE IF of[p][k - 1] = 0 THEN c[k - 1]
                                    ELSE FileClose(c[k - 1], of[p][k - 1])
  BY <1>2, Zenon DEF ExitBody
<1> DEFINE T == {k \in 0 .. NOFILE :
                    Ok(c[k].t) => State(c[k].t, c[k].files, Upto(of, p, k), cw)}
<1>4. 0 \in T
  <2>0. 0 \in 0 .. NOFILE
    BY FileSysAssumption
  <2>1. c[0] = [t |-> t, files |-> fl] /\ 0 \in 0 .. NOFILE
    BY <1>3, <2>0, Zenon
  <2>2. c[0].t = t /\ c[0].files = fl
    BY <2>1
  <2>3. Upto(of, p, 0) = of
    <3>1. \A fd \in Fds : ~(fd < 0)
      BY FileSysAssumption DEF Fds
    <3> QED BY <1>1, <3>1, Zenon DEF Upto
  <2> QED BY <2>1, <2>2, <2>3, Zenon
<1>5. ASSUME NEW k \in 1 .. NOFILE, k - 1 \in T PROVE k \in T
  <2>1. k \in 0 .. NOFILE /\ k # 0 /\ k - 1 \in 0 .. NOFILE
    BY FileSysAssumption
  <2>2. PICK s \in Closing, v \in Closing : s = c[k - 1] /\ v = c[k]
    BY <1>2, <2>1, Zenon
  <2>3. PICK f \in 0 .. NFILE : f = of[p][k - 1]
    BY <1>1, UptoStep, Zenon
  <2>4. v = IF f = 0 THEN s ELSE FileClose(s, f)
    <3>1. c[k] = IF of[p][k - 1] = 0 THEN c[k - 1] ELSE FileClose(c[k - 1], of[p][k - 1])
      BY <1>3, <2>1, Zenon
    <3> QED BY <2>2, <2>3, <3>1, Zenon
  <2>5. PICK oa, ob : oa = Upto(of, p, k - 1) /\ ob = Upto(of, p, k)
    BY Zenon
  <2>6. /\ k - 1 \in Fds /\ oa[p][k - 1] = f
        /\ ob = [oa EXCEPT ![p][k - 1] = 0]
        /\ f = 0 => ob = oa
    BY <1>1, <2>3, <2>5, UptoStep
  <2>7. Ok(s.t) => State(s.t, s.files, oa, cw)
    BY <1>5, <2>2, <2>5, Zenon
  <2>8. ASSUME Ok(v.t) PROVE State(v.t, v.files, ob, cw)
    <3>1. CASE f = 0
      BY <2>4, <2>6, <2>7, <2>8, <3>1, Zenon
    <3>2. CASE f # 0
      <4>1. f \in Files /\ s \in Tabs /\ Table(s.files) /\ v = FileClose(s, f)
        BY <2>4, <3>2, FileSysAssumption DEF Files, Closing
      <4>2. Ok(s.t)
        BY <2>8, <4>1, CloseIs, Zenon
      <4>3. State(s.t, s.files, oa, cw)
        BY <2>7, <4>2, Zenon
      <4> QED BY <2>6, <2>8, <4>1, <4>3, StateClose, Zenon
    <3> QED BY <3>1, <3>2, Zenon
  <2> QED BY <2>1, <2>2, <2>5, <2>8, Zenon
<1>6. NOFILE \in T
  <2>0. PICK n \in Nat : n = NOFILE
    BY FileSysAssumption, Zenon
  <2>1. PICK U : U = T /\ n = NOFILE
    BY <2>0, Zenon
  <2>2. U \in SUBSET (0 .. n) /\ 0 \in U /\ \A k \in 1 .. n : k - 1 \in U => k \in U
    BY <1>4, <1>5, <2>1, Zenon
  <2> HIDE DEF T
  <2>3. U = 0 .. n
    BY <2>2, Induct, Zenon
  <2> QED BY <2>1, <2>3
<1>7. PICK s \in Closing : s = c[NOFILE]
  <2>1. NOFILE \in 0 .. NOFILE
    BY FileSysAssumption
  <2> QED BY <1>2, <2>1, Zenon
<1>8. PICK d \in Inodes : d = cw[p]
  BY <1>1, FileSysAssumption DEF Inodes
<1>9. Ok(s.t)
  <2>1. s.t \in Rec /\ w = Iput(s.t, d, trans)
    BY <1>7, <1>8, Zenon DEF Closing, Tabs
  <2> QED BY <2>1, IputShape, Zenon
<1>10. Upto(of, p, NOFILE) = ox
  <2>1. \A fd \in Fds : fd < NOFILE
    BY FileSysAssumption DEF Fds
  <2> QED BY <1>1, <2>1, Zenon DEF Upto
<1>11. State(s.t, s.files, ox, cw)
  BY <1>6, <1>7, <1>9, <1>10, Zenon
<1>12. \A fd \in Fds : ox[p][fd] = 0
  BY <1>1, Zenon
<1>13. w = Iput(s.t, cw[p], trans)
  BY <1>7, Zenon
<1>14. State(w, s.files, ox, cx)
  <2>1. PICK u, fx : u = s.t /\ fx = s.files
    BY Zenon
  <2>2. State(u, fx, ox, cw) /\ w = Iput(u, cw[p], trans)
    BY <1>11, <1>13, <2>1, Zenon
  <2>3. State(w, fx, ox, cx)
    BY <1>12, <2>2, StateLeave, Zenon
  <2> QED BY <2>1, <2>3, Zenon
<1> QED BY <1>7, <1>14, Zenon

-----------------------------------------------------------------------------
(* The steps of the system. *)

LEMMA ReturnIs ==
    ASSUME NEW t, Return(t), Up'
    PROVE  Ok(t) /\ fs' = t
BY Zenon DEF Return, Ok, Up

\* A process that makes a system call.
LEMMA Running ==
    ASSUME IInv, NEW p \in Procs, Active(p)
    PROVE  /\ State(fs, files, ofile, cwd) /\ Good(fs, 0, 0) /\ cwd[p] # 0
           /\ \A path \in Paths : StartOf(p, path) \in Inodes
<1>1. Up /\ cwd[p] # 0
  BY Zenon DEF Active, Up
<1>2. State(fs, files, ofile, cwd)
  BY <1>1, Zenon DEF IInv
<1>3. cwd[p] \in Inodes /\ ROOTINO \in Inodes
  BY <1>1, <1>2, FileSysAssumption DEF State, Owned, Inodes, ROOTINO
<1> QED BY <1>1, <1>2, <1>3, Zenon DEF StartOf, State

LEMMA InitState ==
    ASSUME Laws
    PROVE  Init => IInv
<1> SUFFICES ASSUME Init PROVE State(fs, files, ofile, cwd)
  BY Zenon DEF IInv
<1>1. PICK type, nlink, entry, ref, valid :
         /\ type  = [i \in Inodes |-> IF i = ROOTINO THEN "T_DIR" ELSE "free"]
         /\ nlink = [i \in Inodes |-> IF i = ROOTINO THEN 1 ELSE 0]
         /\ entry = [i \in Inodes |-> IF i = ROOTINO THEN [NoEntries EXCEPT ![".."] = ROOTINO]
                                      ELSE NoEntries]
         /\ ref   = [i \in Inodes |-> IF i = ROOTINO THEN 1 ELSE 0]
         /\ valid = {}
  BY Zenon
<1>2. PICK none \in Messages : none = ""
  BY Zenon DEF Messages
<1>3. fs = Mk(type, nlink, entry, ref, valid, none)
  BY <1>1, <1>2, Zenon DEF Init, Mk
<1>4. /\ type \in [Inodes -> Types] /\ nlink \in [Inodes -> Int]
      /\ ref \in [Inodes -> Int] /\ valid \in SUBSET Inodes
  BY <1>1 DEF Types
<1>5. entry \in [Inodes -> Entries] /\ \A i \in Inodes, n \in Names : entry[i][n] = 0
  <2>1. ROOTINO \in 0 .. NINODES /\ 0 \in 0 .. NINODES /\ ".." \notin Names
    BY FileSysAssumption DEF ROOTINO
  <2>2. PICK e : e = [NoEntries EXCEPT ![".."] = ROOTINO]
    BY Zenon
  <2>3. /\ NoEntries \in Entries /\ e \in Entries
        /\ \A n \in Names : NoEntries[n] = 0 /\ e[n] = 0
    BY <2>1, <2>2, Zenon DEF NoEntries, Entries
  <2>4. entry = [i \in Inodes |-> IF i = ROOTINO THEN e ELSE NoEntries]
    BY <1>1, <2>2, Zenon
  <2> QED BY <2>3, <2>4, Zenon
<1>6. fs \in Rec
  BY <1>3, <1>4, <1>5, Shape, Zenon
<1>7. /\ fs.type = type /\ fs.nlink = nlink /\ fs.entry = entry /\ fs.ref = ref
      /\ fs.valid = valid /\ fs.panic = none
  BY <1>3, Zenon DEF Mk
<1>8. Ok(fs)
  BY <1>2, <1>7, Zenon DEF Ok
<1>9. Sane(fs, 0)
  BY <1>1, <1>7, InodeIs DEF Sane
<1>10. Linked(fs, 0)
  <2> SUFFICES ASSUME NEW i \in Inodes
               PROVE  fs.nlink[i] >= Cardinality(Links(fs.entry, fs.type, i))
                                     + (IF i = 0 THEN 1 ELSE 0)
    BY Zenon DEF Linked
  <2>1. Links(entry, type, i) = {}
    <3> SUFFICES ASSUME NEW y \in Links(entry, type, i) PROVE FALSE
      BY Zenon
    <3>1. PICK d \in Inodes, n \in Names, k \in {"name", "dotdot"} : y = <<d, <<n, k>>>>
      BY DEF Links, Sources
    <3>2. entry[d][n] # 0
      BY <3>1, Zenon DEF Links
    <3> QED BY <1>5, <3>2, Zenon
  <2>2. Cardinality(Links(entry, type, i)) = 0
    BY <2>1, Zenon DEF Laws, EmptyLaw
  <2>3. i # 0 /\ nlink[i] \in Nat
    BY <1>1, InodeIs, Zenon
  <2> QED BY <1>7, <2>2, <2>3
<1>11. Good(fs, 0, 0)
  BY <1>6, <1>8, <1>9, <1>10, Zenon DEF Good
<1>12. Table(files)
  <2>1. NoFile \in FileRecs
    BY FileSysAssumption DEF NoFile, FileRecs
  <2>2. files = [f \in Files |-> NoFile]
    BY Zenon DEF Init, Files
  <2> QED BY <2>1, <2>2, Zenon DEF Table
<1>13. /\ ofile = [p \in Procs |-> [fd \in Fds |-> 0]]
       /\ cwd = [p \in Procs |-> IF p = InitProc THEN ROOTINO ELSE 0]
  BY Zenon DEF Init
<1>14. Owned(ofile, cwd)
  BY <1>13, FileSysAssumption DEF Owned, ROOTINO
<1>15. RefsOf(fs, cwd, files)
  <2> SUFFICES ASSUME NEW i \in Inodes
               PROVE  fs.ref[i] = Cardinality(Users(cwd, i)) + Cardinality(Opens(files, i))
    BY Zenon DEF RefsOf
  <2>1. Opens(files, i) = {}
    <3>1. files = [f \in Files |-> NoFile]
      BY Zenon DEF Init, Files
    <3> QED BY <3>1, Zenon DEF Opens, NoFile
  <2>2. i # 0
    BY InodeIs, Zenon
  <2>3. Cardinality({}) = 0
    BY Zenon DEF Laws, EmptyLaw
  <2>4. CASE i = ROOTINO
    <3>1. Users(cwd, i) = {InitProc}
      BY <1>13, <2>2, <2>4, FileSysAssumption, Zenon DEF Users
    <3>2. Cardinality(Users(cwd, i)) = 1
      BY <3>1, Zenon DEF Laws, SingleLaw
    <3> QED BY <1>1, <1>7, <2>1, <2>3, <2>4, <3>2
  <2>5. CASE i # ROOTINO
    <3>1. Users(cwd, i) = {}
      BY <1>13, <2>2, <2>5, Zenon DEF Users
    <3> QED BY <1>1, <1>7, <2>1, <2>3, <2>5, <3>1
  <2> QED BY <2>4, <2>5, Zenon
<1>16. FileRefsOf(files, ofile)
  <2> SUFFICES ASSUME NEW f \in Files
               PROVE  files[f].ref = Cardinality(Descs(ofile, f))
    BY Zenon DEF FileRefsOf
  <2>1. Descs(ofile, f) = {}
    BY <1>13 DEF Descs, Files
  <2>2. files[f].ref = 0
    <3>1. files = [g \in Files |-> NoFile]
      BY Zenon DEF Init, Files
    <3> QED BY <3>1, Zenon DEF NoFile
  <2> QED BY <2>1, <2>2, Zenon DEF Laws, EmptyLaw
<1> QED BY <1>11, <1>12, <1>14, <1>15, <1>16, Zenon DEF State

\* The first free file and descriptor.
LEMMA FirstIs ==
    ASSUME Laws, NEW p \in Procs
    PROVE  /\ FreeFiles # {} => FirstFile \in Files /\ files[FirstFile].ref = 0
           /\ FreeFds(p) # {} => FirstFd(p) \in Fds /\ ofile[p][FirstFd(p)] = 0
<1>1. FreeFiles \in SUBSET Nat /\ FreeFds(p) \in SUBSET Nat
  BY FileSysAssumption DEF FreeFiles, FreeFds, Fds
<1>2. FreeFiles # {} => \E x \in FreeFiles : \A y \in FreeFiles : x <= y
  BY <1>1, Least, Zenon
<1>3. FreeFds(p) # {} => \E x \in FreeFds(p) : \A y \in FreeFds(p) : x <= y
  BY <1>1, Least, Zenon
<1>4. FreeFiles # {} => FirstFile \in FreeFiles
  BY <1>2, Zenon DEF FirstFile
<1>5. FreeFds(p) # {} => FirstFd(p) \in FreeFds(p)
  BY <1>3, Zenon DEF FirstFd
<1> QED BY <1>4, <1>5, Zenon DEF FreeFiles, FreeFds, Files

LEMMA OpenFileStep ==
    ASSUME Laws, State(fs, files, ofile, cwd), NEW p \in Procs, cwd[p] # 0, NEW t \in Rec,
           NEW ip \in Inodes, Fresh(fs, t, ip), OpenFile(p, t, ip), UNCHANGED cwd, Up'
    PROVE  State(fs', files', ofile', cwd')
<1>1. Good(fs, 0, 0)
  BY Zenon DEF State
<1>2. CASE FreeFiles = {} \/ FreeFds(p) = {} \/ ~Ok(t)
  <2>1. PICK trans \in BOOLEAN : trans = FALSE
    BY Zenon
  <2>2. PICK w : w = Iput(t, ip, trans)
    BY Zenon
  <2>3. Return(w) /\ files' = files /\ ofile' = ofile
    BY <1>2, <2>1, <2>2, Zenon DEF OpenFile, OpenFail, Ok
  <2>4. Ok(w) /\ fs' = w
    BY <2>3, ReturnIs, Zenon
  <2>5. Fresh(fs, w, 0)
    BY <1>1, <2>2, PutBack, Zenon
  <2>6. State(w, files, ofile, cwd)
    BY <2>4, <2>5, StateFresh, Zenon
  <2> QED BY <2>3, <2>4, <2>6, Zenon
<1>3. CASE ~(FreeFiles = {} \/ FreeFds(p) = {} \/ ~Ok(t))
  <2>1. PICK f \in Files, fd \in Fds :
           f = FirstFile /\ fd = FirstFd(p) /\ files[f].ref = 0 /\ ofile[p][fd] = 0
    BY <1>3, FirstIs, Zenon
  <2>2. /\ Return(t)
        /\ files' = [files EXCEPT ![f] = [ref |-> 1, type |-> "FD_INODE", ip |-> ip]]
        /\ ofile' = [ofile EXCEPT ![p][fd] = f]
    BY <1>3, <2>1, Zenon DEF OpenFile, Ok
  <2>3. Ok(t) /\ fs' = t
    BY <2>2, ReturnIs, Zenon
  <2>4. PICK fx, ox : fx = files' /\ ox = ofile'
    BY Zenon
  <2>5. State(t, fx, ox, cwd)
    BY <2>1, <2>2, <2>3, <2>4, StateOpen, Zenon
  <2> QED BY <2>3, <2>4, <2>5, Zenon
<1> QED BY <1>2, <1>3, Zenon

\* A call that returns with every reference it took given back.
LEMMA CallReturns ==
    ASSUME State(fs, files, ofile, cwd), NEW v, Fresh(fs, v, 0), Return(v),
           files' = files, ofile' = ofile, cwd' = cwd, Up'
    PROVE  State(fs', files', ofile', cwd')
<1>1. Ok(v) /\ fs' = v
  BY ReturnIs, Zenon
<1>2. State(v, files, ofile, cwd)
  BY <1>1, StateFresh, Zenon
<1> QED BY <1>1, <1>2, Zenon

LEMMA OpenStep ==
    ASSUME Laws, IInv, NEW p \in Procs, NEW path \in Paths, NEW omode, SysOpen(p, path, omode), Up'
    PROVE  State(fs', files', ofile', cwd')
<1>1. Active(p) /\ cwd' = cwd
  BY Zenon DEF SysOpen
<1>2. /\ State(fs, files, ofile, cwd) /\ Good(fs, 0, 0) /\ cwd[p] # 0
      /\ StartOf(p, path) \in Inodes
  BY <1>1, Running, Zenon
<1>3. CASE OpenCreate(p, path)
  <2>1. PICK trans \in BOOLEAN : trans = TRUE
    BY Zenon
  <2>2. PICK r : /\ r = Nameiparent(fs, p, path, trans)
                 /\ IF r.ip = 0 THEN Fail(r.t)
                    ELSE \E c \in {Create(r, LastElem(path), "T_FILE")} :
                         IF c.ip = 0 THEN Fail(c.t) ELSE OpenFile(p, c.t, c.ip)
    BY <1>3, <2>1, Zenon DEF OpenCreate
  <2>3. CASE r.ip = 0
    <3>1. Return(r.t) /\ files' = files /\ ofile' = ofile
      BY <2>2, <2>3, Zenon DEF Fail
    <3>2. Fresh(fs, r.t, 0)
      BY <1>2, <2>2, <2>3, NamesKept, Zenon DEF NoParent
    <3> QED BY <1>1, <1>2, <3>1, <3>2, CallReturns, Zenon
  <2>4. CASE r.ip # 0
    <3>1. PICK type \in Types \ {"free"} : type = "T_FILE"
      BY Zenon DEF Types
    <3>2. PICK c : /\ c = Create(r, LastElem(path), type)
                   /\ IF c.ip = 0 THEN Fail(c.t) ELSE OpenFile(p, c.t, c.ip)
      BY <2>2, <2>4, <3>1, Zenon
    <3>3. c.t \in Rec /\ c.ip \in 0 .. NINODES /\ Fresh(fs, c.t, c.ip)
      BY <1>2, <2>2, <2>4, <3>2, NamesKept, Zenon DEF Created
    <3>4. CASE c.ip = 0
      <4>1. Return(c.t) /\ files' = files /\ ofile' = ofile
        BY <3>2, <3>4, Zenon DEF Fail
      <4>2. Fresh(fs, c.t, 0)
        BY <3>3, <3>4, Zenon
      <4> QED BY <1>1, <1>2, <4>1, <4>2, CallReturns, Zenon
    <3>5. CASE c.ip # 0
      <4>1. OpenFile(p, c.t, c.ip)
        BY <3>2, <3>5, Zenon
      <4>2. c.ip \in Inodes
        BY <3>3, <3>5, FileSysAssumption DEF Inodes
      <4> QED BY <1>1, <1>2, <3>3, <4>1, <4>2, OpenFileStep, Zenon
    <3> QED BY <3>4, <3>5, Zenon
  <2> QED BY <2>3, <2>4, Zenon
<1>4. CASE OpenExisting(p, path, omode)
  <2>1. PICK trans \in BOOLEAN : trans = FALSE
    BY Zenon
  <2>2. PICK r : /\ r = Namei(fs, p, path, trans)
                 /\ IF r.ip = 0 THEN Fail(r.t)
                    ELSE \E t \in {Ilock(r.t, r.ip)} :
                         IF t.type[r.ip] = "T_DIR" /\ omode # "O_RDONLY"
                         THEN Fail(Iput(t, r.ip, trans))
                         ELSE OpenFile(p, t, r.ip)
    BY <1>4, <2>1, Zenon DEF OpenExisting
  <2>3. CASE r.ip = 0
    <3>1. Return(r.t) /\ files' = files /\ ofile' = ofile
      BY <2>2, <2>3, Zenon DEF Fail
    <3>2. Fresh(fs, r.t, 0)
      BY <1>2, <2>2, <2>3, NamesKept, Zenon DEF NameiLocked
    <3> QED BY <1>1, <1>2, <3>1, <3>2, CallReturns, Zenon
  <2>4. CASE r.ip # 0
    <3>1. PICK t : /\ t = Ilock(r.t, r.ip)
                   /\ IF t.type[r.ip] = "T_DIR" /\ omode # "O_RDONLY"
                      THEN Fail(Iput(t, r.ip, trans))
                      ELSE OpenFile(p, t, r.ip)
      BY <2>2, <2>4, Zenon
    <3>2. r.ip \in Inodes /\ t \in Rec /\ Fresh(fs, t, r.ip)
      BY <1>2, <2>2, <2>4, <3>1, NamesKept, Zenon DEF NameiLocked
    <3>3. CASE OpenFile(p, t, r.ip)
      BY <1>1, <1>2, <3>2, <3>3, OpenFileStep, Zenon
    <3>4. CASE Fail(Iput(t, r.ip, trans))
      <4>1. PICK w : w = Iput(t, r.ip, trans)
        BY Zenon
      <4>2. Return(w) /\ files' = files /\ ofile' = ofile
        BY <3>4, <4>1, Zenon DEF Fail
      <4>3. Fresh(fs, w, 0)
        BY <1>2, <3>2, <4>1, PutBack, Zenon
      <4> QED BY <1>1, <1>2, <4>2, <4>3, CallReturns, Zenon
    <3> QED BY <3>1, <3>3, <3>4, Zenon
  <2> QED BY <2>3, <2>4, Zenon
<1> QED BY <1>3, <1>4, Zenon DEF SysOpen

LEMMA MknodStep ==
    ASSUME Laws, IInv, NEW p \in Procs, NEW path \in Paths, NEW type \in {"T_DIR", "T_DEV"},
           SysMknod(p, path, type), Up'
    PROVE  State(fs', files', ofile', cwd')
<1>1. Active(p) /\ files' = files /\ ofile' = ofile /\ cwd' = cwd
  BY Zenon DEF SysMknod
<1>2. /\ State(fs, files, ofile, cwd) /\ Good(fs, 0, 0) /\ StartOf(p, path) \in Inodes
  BY <1>1, Running, Zenon
<1>3. PICK trans \in BOOLEAN : trans = TRUE
  BY Zenon
<1>4. PICK r : /\ r = Nameiparent(fs, p, path, trans)
               /\ IF r.ip = 0 THEN Return(r.t)
                  ELSE \E c \in {Create(r, LastElem(path), type)} :
                       Return(IF c.ip = 0 THEN c.t ELSE Iput(c.t, c.ip, trans))
  BY <1>3, Zenon DEF SysMknod
<1>5. CASE r.ip = 0
  <2>1. Fresh(fs, r.t, 0)
    BY <1>2, <1>4, <1>5, NamesKept, Zenon DEF NoParent
  <2>2. Return(r.t)
    BY <1>4, <1>5, Zenon
  <2> QED BY <1>1, <1>2, <2>1, <2>2, CallReturns, Zenon
<1>6. CASE r.ip # 0
  <2>1. type \in Types \ {"free"}
    BY Zenon DEF Types
  <2>2. PICK c : /\ c = Create(r, LastElem(path), type)
                 /\ Return(IF c.ip = 0 THEN c.t ELSE Iput(c.t, c.ip, trans))
    BY <1>4, <1>6, Zenon
  <2>3. c.t \in Rec /\ c.ip \in 0 .. NINODES /\ Fresh(fs, c.t, c.ip)
    BY <1>2, <1>4, <1>6, <2>1, <2>2, NamesKept, Zenon DEF Created
  <2>4. CASE c.ip = 0
    <3>1. Return(c.t)
      BY <2>2, <2>4, Zenon
    <3>2. Fresh(fs, c.t, 0)
      BY <2>3, <2>4, Zenon
    <3> QED BY <1>1, <1>2, <3>1, <3>2, CallReturns, Zenon
  <2>5. CASE c.ip # 0
    <3>1. c.ip \in Inodes
      BY <2>3, <2>5, FileSysAssumption DEF Inodes
    <3>2. PICK w : w = Iput(c.t, c.ip, trans)
      BY Zenon
    <3>3. Return(w)
      BY <2>2, <2>5, <3>2, Zenon
    <3>4. Fresh(fs, w, 0)
      BY <1>2, <2>3, <3>1, <3>2, PutBack, Zenon
    <3> QED BY <1>1, <1>2, <3>3, <3>4, CallReturns, Zenon
  <2> QED BY <2>4, <2>5, Zenon
<1> QED BY <1>5, <1>6, Zenon

LEMMA LinkStep ==
    ASSUME Laws, IInv, NEW p \in Procs, NEW old \in Paths, NEW new \in Paths,
           SysLink(p, old, new), Up'
    PROVE  State(fs', files', ofile', cwd')
<1>1. Active(p) /\ files' = files /\ ofile' = ofile /\ cwd' = cwd
  BY Zenon DEF SysLink
<1>2. /\ State(fs, files, ofile, cwd) /\ Good(fs, 0, 0)
      /\ StartOf(p, old) \in Inodes /\ StartOf(p, new) \in Inodes
  BY <1>1, Running, Zenon
<1>3. PICK out \in BOOLEAN : out = FALSE
  BY Zenon
<1>4. PICK trans \in BOOLEAN : trans = TRUE
  BY Zenon
<1>5. PICK r : /\ r = Namei(fs, p, old, out)
               /\ IF r.ip = 0 THEN Return(r.t)
                  ELSE \E t \in {Ilock(r.t, r.ip)} :
                       IF t.type[r.ip] = "T_DIR" THEN Return(Iput(t, r.ip, trans))
                       ELSE /\ t.nlink[r.ip] < MaxLink
                            /\ \E q \in {Nameiparent([t EXCEPT !.nlink[r.ip] = t.nlink[r.ip] + 1],
                                                     p, new, trans)} :
                                  Return(LinkTo(q, LastElem(new), r.ip))
  BY <1>3, <1>4, Zenon DEF SysLink
<1>6. CASE r.ip = 0
  <2>1. Fresh(fs, r.t, 0)
    BY <1>2, <1>5, <1>6, NamesKept, Zenon DEF NameiLocked
  <2>2. Return(r.t)
    BY <1>5, <1>6, Zenon
  <2> QED BY <1>1, <1>2, <2>1, <2>2, CallReturns, Zenon
<1>7. CASE r.ip # 0
  <2>1. PICK t : /\ t = Ilock(r.t, r.ip)
                 /\ IF t.type[r.ip] = "T_DIR" THEN Return(Iput(t, r.ip, trans))
                    ELSE /\ t.nlink[r.ip] < MaxLink
                         /\ \E q \in {Nameiparent([t EXCEPT !.nlink[r.ip] = t.nlink[r.ip] + 1],
                                                  p, new, trans)} :
                               Return(LinkTo(q, LastElem(new), r.ip))
    BY <1>5, <1>7, Zenon
  <2>2. r.ip \in Inodes /\ t \in Rec /\ Fresh(fs, t, r.ip) /\ (Ok(t) => t.type[r.ip] # "free")
    BY <1>2, <1>5, <1>7, <2>1, NamesKept DEF NameiLocked
  <2>3. CASE t.type[r.ip] = "T_DIR"
    <3>1. PICK w : w = Iput(t, r.ip, trans)
      BY Zenon
    <3>2. Return(w)
      BY <2>1, <2>3, <3>1, Zenon
    <3>3. Fresh(fs, w, 0)
      BY <1>2, <2>2, <3>1, PutBack, Zenon
    <3> QED BY <1>1, <1>2, <3>2, <3>3, CallReturns, Zenon
  <2>4. CASE t.type[r.ip] # "T_DIR"
    <3>1. PICK w : w = [t EXCEPT !.nlink[r.ip] = t.nlink[r.ip] + 1]
      BY Zenon
    <3>2. PICK q : q = Nameiparent(w, p, new, trans) /\ Return(LinkTo(q, LastElem(new), r.ip))
      BY <2>1, <2>4, <3>1, Zenon
    <3>3. PICK x : x = LinkTo(q, LastElem(new), r.ip)
      BY Zenon
    <3>4. Return(x)
      BY <3>2, <3>3, Zenon
    <3>5. Fresh(fs, x, 0)
      BY <1>2, <2>2, <2>4, <3>1, <3>2, <3>3, NamesKept DEF LinkFresh
    <3> QED BY <1>1, <1>2, <3>4, <3>5, CallReturns, Zenon
  <2> QED BY <2>3, <2>4, Zenon
<1> QED BY <1>6, <1>7, Zenon

LEMMA UnlinkStep ==
    ASSUME Laws, IInv, NEW p \in Procs, NEW path \in Paths, SysUnlink(p, path), Up'
    PROVE  State(fs', files', ofile', cwd')
<1>1. Active(p) /\ files' = files /\ ofile' = ofile /\ cwd' = cwd
  BY Zenon DEF SysUnlink
<1>2. /\ State(fs, files, ofile, cwd) /\ Good(fs, 0, 0) /\ StartOf(p, path) \in Inodes
  BY <1>1, Running, Zenon
<1>3. PICK out \in BOOLEAN : out = FALSE
  BY Zenon
<1>4. PICK trans \in BOOLEAN : trans = TRUE
  BY Zenon
<1>5. PICK r : /\ r = Nameiparent(fs, p, path, out)
               /\ IF r.ip = 0 THEN Return(r.t)
                  ELSE \E ip \in {Dirlookup(r.t, r.ip, LastElem(path))} :
                       IF LastElem(path) \in {".", ".."} \/ ip = 0
                       THEN Return(Iput(r.t, r.ip, trans))
                       ELSE \E t \in {Ilock(Iget(r.t, ip), ip)} :
                            Return(UnlinkFrom(t, r.ip, LastElem(path), ip))
  BY <1>3, <1>4, Zenon DEF SysUnlink
<1>6. CASE r.ip = 0
  <2>1. Fresh(fs, r.t, 0)
    BY <1>2, <1>5, <1>6, NamesKept, Zenon DEF NoParent
  <2>2. Return(r.t)
    BY <1>5, <1>6, Zenon
  <2> QED BY <1>1, <1>2, <2>1, <2>2, CallReturns, Zenon
<1>7. CASE r.ip # 0
  <2>1. PICK ip : /\ ip = Dirlookup(r.t, r.ip, LastElem(path))
                  /\ IF LastElem(path) \in {".", ".."} \/ ip = 0
                     THEN Return(Iput(r.t, r.ip, trans))
                     ELSE \E t \in {Ilock(Iget(r.t, ip), ip)} :
                          Return(UnlinkFrom(t, r.ip, LastElem(path), ip))
    BY <1>5, <1>7, Zenon
  <2>2. PICK x : Fresh(fs, x, 0) /\ Return(x)
    <3>1. /\ Fresh(fs, Iput(r.t, r.ip, trans), 0)
          /\ LastElem(path) \notin {".", ".."} /\ ip # 0 =>
                Fresh(fs, UnlinkFrom(Ilock(Iget(r.t, ip), ip), r.ip, LastElem(path), ip), 0)
      BY <1>2, <1>5, <1>7, <2>1, NamesKept, Zenon DEF UnlinkFresh
    <3> QED BY <2>1, <3>1, Zenon
  <2> QED BY <1>1, <1>2, <2>2, CallReturns, Zenon
<1> QED BY <1>6, <1>7, Zenon

LEMMA ChdirStep ==
    ASSUME Laws, IInv, NEW p \in Procs, NEW path \in Paths, SysChdir(p, path), Up'
    PROVE  State(fs', files', ofile', cwd')
<1>1. Active(p) /\ files' = files /\ ofile' = ofile
  BY Zenon DEF SysChdir
<1>2. /\ State(fs, files, ofile, cwd) /\ Good(fs, 0, 0) /\ cwd[p] # 0
      /\ StartOf(p, path) \in Inodes
  BY <1>1, Running, Zenon
<1>3. PICK trans \in BOOLEAN : trans = FALSE
  BY Zenon
<1>4. PICK r : /\ r = Namei(fs, p, path, trans)
               /\ IF r.ip = 0 THEN Return(r.t) /\ cwd' = cwd
                  ELSE \E t \in {Ilock(r.t, r.ip)} :
                       IF t.type[r.ip] # "T_DIR"
                       THEN Return(Iput(t, r.ip, trans)) /\ cwd' = cwd
                       ELSE /\ Return(Iput(t, cwd[p], trans))
                            /\ cwd' = [cwd EXCEPT ![p] = r.ip]
  BY <1>3, Zenon DEF SysChdir
<1>5. CASE r.ip = 0
  <2>1. Fresh(fs, r.t, 0)
    BY <1>2, <1>4, <1>5, NamesKept, Zenon DEF NameiLocked
  <2>2. Return(r.t) /\ cwd' = cwd
    BY <1>4, <1>5, Zenon
  <2> QED BY <1>1, <1>2, <2>1, <2>2, CallReturns, Zenon
<1>6. CASE r.ip # 0
  <2>1. PICK t : /\ t = Ilock(r.t, r.ip)
                 /\ IF t.type[r.ip] # "T_DIR"
                    THEN Return(Iput(t, r.ip, trans)) /\ cwd' = cwd
                    ELSE /\ Return(Iput(t, cwd[p], trans))
                         /\ cwd' = [cwd EXCEPT ![p] = r.ip]
    BY <1>4, <1>6, Zenon
  <2>2. r.ip \in Inodes /\ t \in Rec /\ Fresh(fs, t, r.ip)
    BY <1>2, <1>4, <1>6, <2>1, NamesKept, Zenon DEF NameiLocked
  <2>3. CASE t.type[r.ip] # "T_DIR"
    <3>1. PICK w : w = Iput(t, r.ip, trans)
      BY Zenon
    <3>2. Return(w) /\ cwd' = cwd
      BY <2>1, <2>3, <3>1, Zenon
    <3>3. Fresh(fs, w, 0)
      BY <1>2, <2>2, <3>1, PutBack, Zenon
    <3> QED BY <1>1, <1>2, <3>2, <3>3, CallReturns, Zenon
  <2>4. CASE t.type[r.ip] = "T_DIR"
    <3>1. PICK w : w = Iput(t, cwd[p], trans)
      BY Zenon
    <3>2. Return(w) /\ cwd' = [cwd EXCEPT ![p] = r.ip]
      BY <2>1, <2>4, <3>1, Zenon
    <3>3. Ok(w) /\ fs' = w
      BY <3>2, ReturnIs, Zenon
    <3>4. PICK cx : cx = cwd'
      BY Zenon
    <3>5. cx = [cwd EXCEPT ![p] = r.ip]
      BY <3>2, <3>4, Zenon
    <3>6. State(w, files, ofile, cx)
      BY <1>2, <2>2, <3>1, <3>3, <3>5, StateChdir, Zenon
    <3> QED BY <1>1, <3>3, <3>4, <3>6, Zenon
  <2> QED BY <2>3, <2>4, Zenon
<1> QED BY <1>5, <1>6, Zenon

LEMMA DupStep ==
    ASSUME Laws, IInv, NEW p \in Procs, NEW fd \in Fds, SysDup(p, fd), Up'
    PROVE  State(fs', files', ofile', cwd')
<1>1. Active(p) /\ ofile[p][fd] # 0 /\ FreeFds(p) # {} /\ fs' = fs /\ cwd' = cwd
  BY Zenon DEF SysDup
<1>2. /\ State(fs, files, ofile, cwd) /\ cwd[p] # 0
  BY <1>1, Running, Zenon
<1>3. /\ files \in [Files -> FileRecs] /\ ofile \in [Procs -> [Fds -> 0 .. NFILE]]
      /\ Table(files) /\ FileRefsOf(files, ofile)
  BY <1>2, Zenon DEF State, Table, Owned
<1>4. PICK f \in Files : f = ofile[p][fd]
  <2>1. ofile[p][fd] \in 0 .. NFILE
    BY <1>3, Zenon
  <2>2. \A n \in 0 .. NFILE : n # 0 => n \in Files
    BY FileSysAssumption DEF Files
  <2> QED BY <1>1, <2>1, <2>2, Zenon
<1>5. PICK e \in Fds : e = FirstFd(p) /\ ofile[p][e] = 0
  BY <1>1, FirstIs, Zenon
<1>6. PICK k \in Nat : k = files[f].ref
  BY <1>3, CountsAre, Zenon DEF FileRefsOf
<1>7. k > 0
  <2>1. <<p, fd>> \in Descs(ofile, f)
    BY <1>4, Zenon DEF Descs
  <2>2. IsFiniteSet(Descs(ofile, f)) /\ Cardinality(Descs(ofile, f)) = k
    BY <1>3, <1>6, CountsAre, Zenon DEF FileRefsOf
  <2> QED BY <2>1, <2>2 DEF Laws, EmptyLaw
<1>8. PICK n : n = [files[f] EXCEPT !.ref = k + 1]
  BY Zenon
<1>9. PICK fx, ox : fx = files' /\ ox = ofile'
  BY Zenon
<1>10. fx = [files EXCEPT ![f] = n] /\ ox = [ofile EXCEPT ![p][e] = f]
  <2>1. ox = [ofile EXCEPT ![p][e] = f]
    BY <1>4, <1>5, <1>9, Zenon DEF SysDup
  <2>2. fx = [files EXCEPT ![f] = [files[f] EXCEPT !.ref = files[f].ref + 1]]
    BY <1>3, <1>4, <1>9, Zenon DEF SysDup
  <2> QED BY <1>6, <1>8, <2>1, <2>2, Zenon
<1>11. PICK c \in Nat \ {0} : c = k + 1
  BY <1>6
<1>12. Recount(files, f, c, n)
  BY <1>3, <1>8, <1>11, RecountIs
<1>13. State(fs, fx, ox, cwd)
  BY <1>2, <1>5, <1>6, <1>7, <1>10, <1>11, <1>12, StateRecount, Zenon
<1> QED BY <1>1, <1>9, <1>13, Zenon

LEMMA CloseStep ==
    ASSUME Laws, IInv, NEW p \in Procs, NEW fd \in Fds, SysClose(p, fd), Up'
    PROVE  State(fs', files', ofile', cwd')
<1>1. Active(p) /\ ofile[p][fd] # 0 /\ cwd' = cwd
  BY Zenon DEF SysClose
<1>2. /\ State(fs, files, ofile, cwd) /\ cwd[p] # 0
  BY <1>1, Running, Zenon
<1>3. /\ files \in [Files -> FileRecs] /\ ofile \in [Procs -> [Fds -> 0 .. NFILE]] /\ fs \in Rec
  BY <1>2, Zenon DEF State, Table, Owned, Good
<1>4. PICK f \in Files : f = ofile[p][fd]
  <2>1. ofile[p][fd] \in 0 .. NFILE
    BY <1>3, Zenon
  <2> QED BY <1>1, <2>1, FileSysAssumption DEF Files
<1>5. PICK s : s = [t |-> fs, files |-> files]
  BY Zenon
<1>6. s \in Tabs /\ s.t = fs /\ s.files = files
  BY <1>3, <1>5, Zenon DEF Tabs
<1>7. PICK v : v = FileClose(s, f)
  BY Zenon
<1>8. PICK ox : ox = ofile'
  BY Zenon
<1>9. Return(v.t) /\ files' = v.files /\ ox = [ofile EXCEPT ![p][fd] = 0]
  BY <1>4, <1>5, <1>7, <1>8, Zenon DEF SysClose
<1>10. Ok(v.t) /\ fs' = v.t
  BY <1>9, ReturnIs, Zenon
<1>11. State(s.t, s.files, ofile, cwd)
  BY <1>2, <1>6, Zenon
<1>12. State(v.t, v.files, ox, cwd)
  BY <1>2, <1>4, <1>6, <1>7, <1>9, <1>10, <1>11, StateClose, Zenon
<1> QED BY <1>1, <1>8, <1>9, <1>10, <1>12, Zenon

LEMMA ForkStep ==
    ASSUME Laws, IInv, NEW p \in Procs, NEW q \in Procs, Fork(p, q), Up'
    PROVE  State(fs', files', ofile', cwd')
<1>1. Active(p) /\ cwd[q] = 0
  BY Zenon DEF Fork
<1>2. /\ State(fs, files, ofile, cwd) /\ cwd[p] # 0
  BY <1>1, Running, Zenon
<1>3. PICK v, fx, ox, cx : v = fs' /\ fx = files' /\ ox = ofile' /\ cx = cwd'
  BY Zenon
<1>4. /\ fx = [f \in Files |-> [files[f] EXCEPT
                  !.ref = files[f].ref + Cardinality({fd \in Fds : ofile[p][fd] = f})]]
      /\ ox = [ofile EXCEPT ![q] = ofile[p]]
      /\ v = Iget(fs, cwd[p]) /\ cx = [cwd EXCEPT ![q] = cwd[p]]
  BY <1>3, Zenon DEF Fork, Inherited, Files
<1>5. State(v, fx, ox, cx)
  BY <1>1, <1>2, <1>4, StateFork, Zenon
<1> QED BY <1>3, <1>5, Zenon

LEMMA ExitStep ==
    ASSUME Laws, IInv, NEW p \in Procs, Exit(p), Up'
    PROVE  State(fs', files', ofile', cwd')
<1>1. Active(p)
  BY Zenon DEF Exit
<1>2. /\ State(fs, files, ofile, cwd) /\ cwd[p] # 0
  BY <1>1, Running, Zenon
<1>3. PICK trans \in BOOLEAN : trans = FALSE
  BY Zenon
<1>4. PICK c : c = Closings(fs, files, ofile[p])
  BY Zenon
<1>5. PICK ox, cx : ox = ofile' /\ cx = cwd'
  BY Zenon
<1>6. PICK w : w = Iput(c[NOFILE].t, cwd[p], trans)
  BY Zenon
<1>7. /\ files' = c[NOFILE].files /\ Return(w)
      /\ ox = [ofile EXCEPT ![p] = [fd \in Fds |-> 0]]
      /\ cx = [cwd EXCEPT ![p] = 0]
  BY <1>3, <1>4, <1>5, <1>6, Zenon DEF Exit, ExitBody, Closings
<1>8. Ok(w) /\ fs' = w
  BY <1>7, ReturnIs, Zenon
<1>9. State(w, c[NOFILE].files, ox, cx)
  BY <1>2, <1>4, <1>6, <1>7, <1>8, StateExit, Zenon
<1> QED BY <1>5, <1>7, <1>8, <1>9, Zenon

LEMMA StateKept ==
    ASSUME Laws
    PROVE  IInv /\ [Next]_vars => IInv'
<1> SUFFICES ASSUME IInv, [Next]_vars, Up'
             PROVE  State(fs', files', ofile', cwd')
  BY Zenon DEF IInv
<1>1. CASE Next
  <2>1. CASE PanicLoop
    BY <2>1, Zenon DEF PanicLoop, Up, vars
  <2>2. CASE ~PanicLoop
    <3>1. PICK p \in Procs :
             \/ \E path \in Paths, omode \in {"O_RDONLY", "O_WRONLY", "O_CREATE"} :
                   SysOpen(p, path, omode)
             \/ \E path \in Paths, type \in {"T_DIR", "T_DEV"} : SysMknod(p, path, type)
             \/ \E old, new \in Paths : SysLink(p, old, new)
             \/ \E path \in Paths : SysUnlink(p, path)
             \/ \E path \in Paths : SysChdir(p, path)
             \/ \E fd \in Fds : SysDup(p, fd)
             \/ \E fd \in Fds : SysClose(p, fd)
             \/ \E q \in Procs : Fork(p, q)
             \/ Exit(p)
      BY <1>1, <2>2, Zenon DEF Next
    <3>2. ASSUME NEW path \in Paths, NEW omode, SysOpen(p, path, omode)
          PROVE  State(fs', files', ofile', cwd')
      BY <3>2, OpenStep, Zenon
    <3>3. ASSUME NEW path \in Paths, NEW type \in {"T_DIR", "T_DEV"}, SysMknod(p, path, type)
          PROVE  State(fs', files', ofile', cwd')
      BY <3>3, MknodStep, Zenon
    <3>4. ASSUME NEW old \in Paths, NEW new \in Paths, SysLink(p, old, new)
          PROVE  State(fs', files', ofile', cwd')
      BY <3>4, LinkStep, Zenon
    <3>5. ASSUME NEW path \in Paths, SysUnlink(p, path)
          PROVE  State(fs', files', ofile', cwd')
      BY <3>5, UnlinkStep, Zenon
    <3>6. ASSUME NEW path \in Paths, SysChdir(p, path)
          PROVE  State(fs', files', ofile', cwd')
      BY <3>6, ChdirStep, Zenon
    <3>7. ASSUME NEW fd \in Fds, SysDup(p, fd)
          PROVE  State(fs', files', ofile', cwd')
      BY <3>7, DupStep, Zenon
    <3>8. ASSUME NEW fd \in Fds, SysClose(p, fd)
          PROVE  State(fs', files', ofile', cwd')
      BY <3>8, CloseStep, Zenon
    <3>9. ASSUME NEW q \in Procs, Fork(p, q)
          PROVE  State(fs', files', ofile', cwd')
      BY <3>9, ForkStep, Zenon
    <3>10. ASSUME Exit(p)
           PROVE  State(fs', files', ofile', cwd')
      BY <3>10, ExitStep, Zenon
    <3> QED BY <3>1, <3>2, <3>3, <3>4, <3>5, <3>6, <3>7, <3>8, <3>9, <3>10, Zenon
  <2> QED BY <2>1, <2>2, Zenon
<1>2. CASE UNCHANGED vars
  <2>1. fs' = fs /\ files' = files /\ ofile' = ofile /\ cwd' = cwd /\ halted' = halted
    BY <1>2, Zenon DEF vars
  <2>2. Up
    BY <2>1, Zenon DEF Up
  <2>3. State(fs, files, ofile, cwd)
    BY <2>2, Zenon DEF IInv
  <2> QED BY <2>1, <2>3, Zenon
<1> QED BY <1>1, <1>2, Zenon

-----------------------------------------------------------------------------
(* The facts about finite sets and numbers, from the library. *)

INSTANCE FiniteSetTheorems

\* A set of numbers has a least one.
LEMMA LeastHolds == LeastLaw
<1> SUFFICES ASSUME NEW T \in SUBSET Nat, T # {}
             PROVE  \E x \in T : \A y \in T : x <= y
  BY Zenon DEF LeastLaw
<1> DEFINE R == {ss \in Nat \X Nat : ss[1] < ss[2]}
<1>1. IsWellFoundedOn(R, Nat)
  BY NatLessThanWellFounded, Zenon DEF OpToRel
<1>2. PICK x \in T : \A y \in T : ~(<<y, x>> \in R)
  BY <1>1, WFMin, Zenon
<1>3. ASSUME NEW y \in T PROVE ~(y < x)
  <2>1. <<y, x>> \in Nat \X Nat /\ <<y, x>>[1] = y /\ <<y, x>>[2] = x
    BY Zenon
  <2> QED BY <1>2, <2>1, Zenon
<1> QED BY <1>3

LEMMA LawsHold == Laws
<1>1. EmptyLaw
  BY FS_EmptySet, Zenon DEF EmptyLaw
<1>2. SingleLaw
  BY FS_Singleton, Zenon DEF SingleLaw
<1>3. AddLaw
  BY FS_AddElement, Zenon DEF AddLaw
<1>4. SubsetLaw
  BY FS_Subset, Zenon DEF SubsetLaw
<1>5. TypeLaw
  BY FS_CardinalityType, Zenon DEF TypeLaw
<1>6. IntervalLaw
  BY FS_Interval, Zenon DEF IntervalLaw
<1>7. ProductLaw
  BY FS_Product, Zenon DEF ProductLaw
<1>8. UnionLaw
  BY FS_Union, Zenon DEF UnionLaw
<1> QED BY <1>1, <1>2, <1>3, <1>4, <1>5, <1>6, <1>7, <1>8, LeastHolds, Zenon DEF Laws

-----------------------------------------------------------------------------
\* The state of the file system while no panic() has stopped the kernel.
THEOREM StateHolds == Spec => []IInv
<1>1. Init => IInv
  BY LawsHold, InitState, Zenon
<1>2. IInv /\ [Next]_vars => IInv'
  BY LawsHold, StateKept, Zenon
<1> QED BY <1>1, <1>2, PTL DEF Spec

-----------------------------------------------------------------------------
\* ip->ref counts the open files and the current directories that are the inode,
\* for every tree of directories and every sequence of system calls: idup(),
\* iget() and iput() are paired on every path through namex(), create(),
\* sys_link(), sys_unlink(), sys_open(), sys_chdir(), fork() and exit().
THEOREM ReferencesCounted == Spec => []RefExact
<1>1. IInv => RefExact
  <2> SUFFICES ASSUME IInv, Up
               PROVE  \A i \in Inodes :
                         fs.ref[i] = Cardinality({p \in Procs : cwd[p] = i})
                                   + Cardinality({f \in 1 .. NFILE : files[f].type = "FD_INODE"
                                                                     /\ files[f].ip = i})
    BY Zenon DEF RefExact, Up
  <2>1. RefsOf(fs, cwd, files)
    BY Zenon DEF IInv, State
  <2> QED BY <2>1, Zenon DEF RefsOf, Users, Opens, Files
<1> QED BY <1>1, StateHolds, PTL

\* f->ref counts the descriptors of all processes: filedup() and fileclose() are
\* paired across sys_open(), sys_dup(), sys_close(), fork() and exit().
THEOREM DescriptorsCounted == Spec => []FileRefExact
<1>1. IInv => FileRefExact
  <2> SUFFICES ASSUME IInv, Up
               PROVE  \A f \in 1 .. NFILE :
                         files[f].ref = Cardinality({x \in Procs \X Fds : ofile[x[1]][x[2]] = f})
    BY Zenon DEF FileRefExact, Up
  <2>1. FileRefsOf(files, ofile)
    BY Zenon DEF IInv, State
  <2> QED BY <2>1, Zenon DEF FileRefsOf, Descs, Files
<1> QED BY <1>1, StateHolds, PTL

\* iput() frees an inode exactly when its last link and its last reference are
\* gone: an unlinked file stays while it is open, and none is left behind.
THEOREM InodesFreedWhenUnused == Spec => []FreedWhenUnused
<1>1. IInv => FreedWhenUnused
  <2> SUFFICES ASSUME IInv, Up
               PROVE  \A i \in Inodes :
                         fs.type[i] = "free" <=> (fs.nlink[i] = 0 /\ fs.ref[i] = 0)
    BY Zenon DEF FreedWhenUnused, Up
  <2>1. Sane(fs, 0)
    BY Zenon DEF IInv, State, Good
  <2> QED BY <2>1, InodeIs DEF Sane
<1> QED BY <1>1, StateHolds, PTL

\* A name in a directory is never that of an inode that iput() has freed: a name
\* is a link, nlink is no less than the number of links, and iput() frees an
\* inode without any.
THEOREM NamesNotDangling == Spec => []NoDanglingName
<1>1. IInv => NoDanglingName
  <2> SUFFICES ASSUME IInv, Up
               PROVE  \A d \in Inodes, n \in Names :
                         fs.entry[d][n] # 0 => fs.type[fs.entry[d][n]] # "free"
    BY Zenon DEF NoDanglingName, Up
  <2> SUFFICES ASSUME NEW d \in Inodes, NEW n \in Names, fs.entry[d][n] # 0
               PROVE  fs.type[fs.entry[d][n]] # "free"
    BY Zenon
  <2>1. fs \in Rec /\ Sane(fs, 0) /\ Linked(fs, 0)
    BY Zenon DEF IInv, State, Good
  <2>2. fs.entry \in [Inodes -> Entries] /\ fs.nlink \in [Inodes -> Int] /\ n \in AllNames
    BY <2>1, RecFields, Zenon DEF AllNames
  <2>3. PICK i \in Inodes : i = fs.entry[d][n]
    BY <2>2, FileSysAssumption, SMTT(20) DEF Entries, Inodes
  <2>4. <<d, <<n, "name">>>> \in Links(fs.entry, fs.type, i)
    BY <2>3, Zenon DEF Links, Sources
  <2>5. PICK k \in Nat : k = Cardinality(Links(fs.entry, fs.type, i)) /\ k > 0
    BY <2>4, LawsHold, LinksFinite, SMTT(20) DEF Laws, EmptyLaw, TypeLaw
  <2>6. fs.nlink[i] >= k /\ i # 0
    BY <2>1, <2>2, <2>5, InodeIs, SMTT(20) DEF Linked
  <2>7. fs.nlink[i] # 0
    BY <2>2, <2>5, <2>6
  <2> QED BY <2>1, <2>3, <2>6, <2>7, Zenon DEF Sane
<1> QED BY <1>1, StateHolds, PTL
=============================================================================

