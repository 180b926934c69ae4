------------------------------- MODULE Buddy --------------------------------
(***************************************************************************)
(* The kernel's memory allocator, buddy.c: per order a bitmap of available *)
(* blocks, cut into marks of BITS bits, and a doubly linked list, by mark  *)
(* index, of the marks that have an available block.  Orders are numbered  *)
(* from 0 (MIN_ORD) and a block is its id at its order; kmem.lock makes    *)
(* every operation one step.                                               *)
(***************************************************************************)
EXTENDS Integers, FiniteSets

CONSTANTS MaxOrd,   \* MAX_ORD - MIN_ORD
          Top,      \* blocks of order MaxOrd in the heap
          BITS      \* bits of a mark's bitmap; 32 in the code

ASSUME BuddyAssumption ==
    /\ MaxOrd \in Nat /\ Top \in Nat \ {0}
    /\ BITS \in Nat \ {0} /\ BITS % 2 = 0

VARIABLES orders,   \* per order: head, and per mark its bitmap and its links
          owned,    \* the blocks <<order, id>> handed out by kmalloc()
          unseen,   \* highest-order blocks kmem_init2() has not added yet
          halted    \* a panic() was reached

vars == <<orders, owned, unseen, halted>>

NIL == -1
Orders == 0 .. MaxOrd
Blocks(o) == 0 .. Top * 2^(MaxOrd - o) - 1
Marks(o)  == 0 .. (Top * 2^(MaxOrd - o) - 1) \div BITS

\* available(): is the block's bit set?
Available(ord, b) == b % BITS \in ord.bitmap[b \div BITS]
Buddy(b) == IF b % 2 = 0 THEN b + 1 ELSE b - 1

EmptyOrder(o) == [head   |-> NIL,
                  bitmap |-> [m \in Marks(o) |-> {}],
                  pre    |-> [m \in Marks(o) |-> NIL],
                  next   |-> [m \in Marks(o) |-> NIL]]

\* kmem_init2() before it frees the heap block by block.
Init ==
    /\ orders = [o \in Orders |-> EmptyOrder(o)]
    /\ owned = {}
    /\ unseen = Blocks(MaxOrd)
    /\ halted = FALSE

-----------------------------------------------------------------------------
\* Mutant: the next mark keeps its link back.
UnlinkNoPre(ord, m) ==
    LET p == ord.pre[m]
        n == ord.next[m]
    IN  [ord EXCEPT
           !.head = IF p = NIL /\ @ = m THEN n ELSE @,
           !.pre  = [@ EXCEPT ![m] = NIL],
           !.next = [x \in DOMAIN @ |-> IF x = m THEN NIL
                                        ELSE IF x = p THEN n ELSE @[x]]]

\* Unlink mark m, whose bitmap became empty.
Unlink(ord, m) ==
    LET p == ord.pre[m]
        n == ord.next[m]
    IN  [ord EXCEPT
           !.head = IF p = NIL /\ @ = m THEN n ELSE @,
           !.pre  = [x \in DOMAIN @ |-> IF x = m THEN NIL
                                        ELSE IF x = n THEN p ELSE @[x]],
           !.next = [x \in DOMAIN @ |-> IF x = m THEN NIL
                                        ELSE IF x = p THEN n ELSE @[x]]]

\* unmark_blk(): block b is no longer available.
Unmark(ord, b) ==
    LET m == b \div BITS
        cleared == [ord EXCEPT !.bitmap[m] = @ \ {b % BITS}]
    IN  IF cleared.bitmap[m] = {} THEN Unlink(cleared, m) ELSE cleared

\* mark_blk(): block b becomes available; its mark enters the list at the head.
Mark(ord, b) ==
    LET m == b \div BITS
        set == [ord EXCEPT !.bitmap[m] = @ \cup {b % BITS}]
    IN  IF ord.bitmap[m] # {} THEN set
        ELSE [set EXCEPT
                !.head = m,
                !.pre  = [x \in DOMAIN @ |-> IF x = m THEN NIL
                                             ELSE IF x = ord.head THEN m ELSE @[x]],
                !.next = [@ EXCEPT ![m] = ord.head]]

\* The id at order k of the block of that order that starts where, or contains
\* the place where, block b of the lower order o lies.
Parent(b, o, k) == b \div 2^(k - o)

\* Mutant: buddies are never merged.
MergeOrderNever(ords, o, b) == o

\* _kfree() of block b of order o merges buddies up to this order.
MergeOrder(ords, o, b) ==
    CHOOSE k \in o .. MaxOrd :
        /\ k = MaxOrd \/ ~Available(ords[k], Buddy(Parent(b, o, k)))
        /\ \A i \in o .. k - 1 : Available(ords[i], Buddy(Parent(b, o, i)))

Kfree(ords, o, b) ==
    LET k == MergeOrder(ords, o, b)
    IN  [i \in Orders |->
            CASE i \in o .. k - 1 -> Unmark(ords[i], Buddy(Parent(b, o, i)))
              [] i = k            -> Mark(ords[k], Parent(b, o, k))
              [] OTHER            -> ords[i]]

\* _kfree() panics on a block that is available, at any order it merges through.
DoubleFree(ords, o, b) ==
    \E i \in o .. MergeOrder(ords, o, b) : Available(ords[i], Parent(b, o, i))

-----------------------------------------------------------------------------
\* get_blk(): the lowest available block of the first mark in the list.
FirstBlock(ord) ==
    LET bits == ord.bitmap[ord.head]
    IN  ord.head * BITS + CHOOSE i \in bits : \A j \in bits : i <= j

SourceOrders(o) == {k \in o .. MaxOrd : orders[k].head # NIL}

\* Mutant: the lower half is given back, and handed out.
SplitLowerHalf(o, k, b) ==
    LET s[i \in o .. k] ==
          IF i = k THEN [orders EXCEPT ![k] = Unmark(@, b)]
                   ELSE Kfree(s[i + 1], i, b * 2^(k - i))
    IN  s

\* _kmalloc() of order o takes a block from the lowest order k that has one and
\* gives back the upper half at every order below k.
Split(o, k, b) ==
    LET s[i \in o .. k] ==
          IF i = k THEN [orders EXCEPT ![k] = Unmark(@, b)]
                   ELSE Kfree(s[i + 1], i, b * 2^(k - i) + 1)
    IN  s

Kmalloc(o) ==
    /\ ~halted /\ unseen = {}
    /\ SourceOrders(o) # {}
    /\ LET k == CHOOSE i \in SourceOrders(o) : \A j \in SourceOrders(o) : i <= j
           b == FirstBlock(orders[k])
           s == Split(o, k, b)
       IN  IF \/ orders[k].bitmap[orders[k].head] = {}
              \/ \E i \in o .. k - 1 : DoubleFree(s[i + 1], i, b * 2^(k - i) + 1)
           THEN halted' = TRUE /\ UNCHANGED <<orders, owned>>
           ELSE /\ orders' = s[o]
                /\ owned' = owned \cup {<<o, b * 2^(k - o)>>}
                /\ UNCHANGED halted
    /\ UNCHANGED unseen

\* kmalloc() returns NULL.
KmallocFail(o) ==
    /\ ~halted /\ unseen = {}
    /\ SourceOrders(o) = {}
    /\ UNCHANGED vars

\* The effect of kfree() on the orders, or its panic.
Release(o, b) ==
    IF DoubleFree(orders, o, b)
    THEN halted' = TRUE /\ UNCHANGED orders
    ELSE orders' = Kfree(orders, o, b) /\ UNCHANGED halted

\* kfree() of a block the kernel owns, with the order it was allocated with.
KfreeOwned(o, b) ==
    /\ ~halted /\ unseen = {}
    /\ <<o, b>> \in owned
    /\ Release(o, b)
    /\ owned' = owned \ {<<o, b>>}
    /\ UNCHANGED unseen

\* The loop of kmem_init2(), from low to high addresses.
AddMemory ==
    /\ ~halted
    /\ \E b \in unseen :
          /\ \A c \in unseen : b <= c
          /\ Release(MaxOrd, b)
          /\ unseen' = unseen \ {b}
    /\ UNCHANGED owned

Next ==
    \/ AddMemory
    \/ \E o \in Orders : Kmalloc(o)
    \/ \E o \in Orders : KmallocFail(o)
    \/ \E o \in Orders : \E b \in Blocks(o) : KfreeOwned(o, b)

Spec == Init /\ [][Next]_vars

-----------------------------------------------------------------------------
Free == UNION {{<<o, b>> : b \in {c \in Blocks(o) : Available(orders[o], c)}} :
                 o \in Orders}

\* The smallest blocks that a block <<o, b>> covers.
Units(blk) == blk[2] * 2^blk[1] .. (blk[2] + 1) * 2^blk[1] - 1

\* Free blocks, blocks in use and memory not added yet tile the heap: no byte is
\* handed out twice, none is free and in use, none is lost by a split or a merge.
\* So no check of buddy.c fires on a kernel that frees what it owns: neither
\* "double free" at an order a merge passes through nor "empty mark in the list".
Tiling ==
    LET pieces == Free \cup owned \cup {<<MaxOrd, b>> : b \in unseen}
    IN  ~halted /\ \A u \in Blocks(0) : Cardinality({c \in pieces : u \in Units(c)}) = 1

\* The list of an order threads, without a loop and in both directions, exactly
\* the marks that have an available block, so kmalloc() finds every free block.
ListsThreadFreeMarks ==
    \A o \in Orders :
        LET ord   == orders[o]
            inUse == {m \in Marks(o) : ord.bitmap[m] # {}}
            walk[n \in 0 .. Cardinality(Marks(o))] ==
                IF n = 0 THEN ord.head
                ELSE IF walk[n - 1] = NIL THEN NIL ELSE ord.next[walk[n - 1]]
        IN  /\ inUse = {walk[n] : n \in DOMAIN walk} \ {NIL}
            /\ ord.head # NIL => ord.pre[ord.head] = NIL
            /\ \A m \in inUse : /\ ord.next[m] # NIL => ord.pre[ord.next[m]] = m
                                /\ ord.next[m] # m

\* kmalloc() fails only when the heap has no free block of the size: two free
\* halves of one block never stay apart.
FailsOnlyWhenExhausted ==
    unseen = {} =>
        \A o \in Orders : SourceOrders(o) = {} =>
            \A b \in Blocks(o) : \E c \in owned : Units(<<o, b>>) \cap Units(c) # {}
=============================================================================
