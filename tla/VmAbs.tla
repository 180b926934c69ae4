------------------------------- MODULE VmAbs --------------------------------
(***************************************************************************)
(* What the address spaces promise to user programs: every process has a   *)
(* memory of its own, a sequence of pages, which only its own stores and   *)
(* its own system calls change, while it runs.                             *)
(***************************************************************************)
EXTENDS Naturals, Sequences

CONSTANTS Procs,
          Values,   \* what a page can hold
          Zero,     \* the contents of a fresh page
          Images    \* the memories exec() may build

VARIABLES mem,      \* per process its pages [val, user]; empty when there is none
          cur       \* the process that runs

Memory == Seq([val : Values, user : BOOLEAN])
NoMemory == << >>

Init == mem \in [Procs -> Images \cup {NoMemory}] /\ cur \in Procs

\* A store changes one page that the user may access.
Store(p) ==
    \E i \in DOMAIN mem[p], v \in Values :
        mem[p][i].user /\ mem' = [mem EXCEPT ![p][i].val = v]

\* sbrk() adds zeroed pages at the end or takes pages from it.
Grow(p) ==
    /\ Len(mem'[p]) > Len(mem[p])
    /\ mem' = [mem EXCEPT ![p] =
                 [i \in 1 .. Len(mem'[p]) |->
                    IF i <= Len(mem[p]) THEN mem[p][i]
                    ELSE [val |-> Zero, user |-> TRUE]]]
Shrink(p) ==
    \E n \in 0 .. Len(mem[p]) : mem' = [mem EXCEPT ![p] = SubSeq(@, 1, n)]

\* exec() replaces the memory in one step, or not at all.
Exec(p) == mem[p] # NoMemory /\ \E m \in Images : mem' = [mem EXCEPT ![p] = m]

\* fork() copies the memory in one step, or not at all.
Fork(p) ==
    \E q \in Procs : mem[q] = NoMemory /\ mem' = [mem EXCEPT ![q] = mem[p]]

Exit(p) == mem' = [mem EXCEPT ![p] = NoMemory]

Switch == cur' \in Procs /\ UNCHANGED mem

Next ==
    \/ Switch
    \/ /\ \/ Store(cur) \/ Grow(cur) \/ Shrink(cur)
          \/ Exec(cur) \/ Fork(cur) \/ Exit(cur)
       /\ UNCHANGED cur

Spec == Init /\ [][Next]_<<mem, cur>>
=============================================================================
