----------------------------- MODULE ProcProofs -----------------------------
(***************************************************************************)
(* Proofs about Proc, for every number of slots, pids and every width of   *)
(* the tick counter.                                                       *)
(***************************************************************************)
EXTENDS Proc, TLAPS

\* What the safety invariants need beside themselves to be inductive.
\* A sleeper's chan says what it waits for; free slots are out of the family;
\* pids in the table have been handed out.
SlotInv ==
    /\ \A p \in Slots : state[p] = "SLEEPING" =>
          \/ kpc[p] = "wait" /\ chan[p] = p
          \/ kpc[p] = "sleep" /\ chan[p] = TICKS
    /\ \A p \in Slots : state[p] = "UNUSED" => parent[p] = 0
    /\ \A p \in Slots : pid[p] < nextpid
    /\ \A p \in Slots : state[p] # "UNUSED" => pid[p] >= 1
    /\ pid[initproc] = 1 /\ parent[initproc] = 0
    /\ nextpid >= 2

\* The time a sleeper has slept, as sys_sleep() counts it, is less than it asked
\* for.
NotOverdue ==
    \A p \in Slots : state[p] = "SLEEPING" /\ kpc[p] = "sleep" =>
        chan[p] = TICKS /\ Elapsed(ticks0[p]) < nticks[p] /\ ~killed[p]

IInv == /\ TypeOK
        /\ RunningIsProc
        /\ NoLostWakeup
        /\ NotOverdue
        /\ FamilyTree
        /\ UniquePids
        /\ SlotResources
        /\ SlotInv

USE NPROCAssumption, MaxPidAssumption, TickModAssumption

\* The initial state crafted by userinit() satisfies the invariant.
LEMMA InitIInv == Init => IInv
<1> SUFFICES ASSUME Init PROVE IInv
  OBVIOUS
<1>1. initproc \in Slots
  BY DEF initproc, Slots
<1>2. TypeOK
  <2>1. state \in [Slots -> States] /\ kpc \in [Slots -> Resume]
    BY DEF Init, States, Resume
  <2>2. pid \in [Slots -> Nat] /\ parent \in [Slots -> 0 .. NPROC]
    BY DEF Init
  <2>3. chan \in [Slots -> 0 .. TICKS]
    BY DEF Init, TICKS
  <2>4. /\ killed \in [Slots -> BOOLEAN]
        /\ kstack \in [Slots -> BOOLEAN]
        /\ pgdir \in [Slots -> BOOLEAN]
    BY Zenon DEF Init
  <2>5. /\ ticks0 \in [Slots -> 0 .. TickMod - 1]
        /\ nticks \in [Slots -> 0 .. TickMod - 1]
        /\ ticks \in 0 .. TickMod - 1
        /\ proc \in 0 .. NPROC
        /\ scan \in 0 .. NPROC + 1
        /\ nextpid \in Nat
    BY DEF Init
  <2>6. halted \in BOOLEAN
    BY DEF Init
  <2> QED
    BY <2>1, <2>2, <2>3, <2>4, <2>5, <2>6 DEF TypeOK
<1>3. RunningIsProc /\ NoLostWakeup /\ NotOverdue
  BY DEF Init, RunningIsProc, NoLostWakeup, NotOverdue, Slots
<1>6. SlotResources
  <2>1. \A p \in Slots : state[p] # "UNUSED" <=> p = initproc
    BY DEF Init
  <2>2. \A p \in Slots : (kstack[p] <=> p = initproc) /\ (pgdir[p] <=> p = initproc)
    BY Zenon DEF Init
  <2> QED
    BY <2>1, <2>2, Zenon DEF SlotResources
<1>4. FamilyTree /\ UniquePids
  BY <1>1 DEF Init, FamilyTree, UniquePids
<1>5. SlotInv
  BY <1>1 DEF Init, SlotInv
<1> QED
  BY <1>2, <1>3, <1>4, <1>5, <1>6 DEF IInv

-----------------------------------------------------------------------------
\* No step of the kernel takes a variable of the table out of its type.
LEMMA TypeStep == TypeOK /\ [Next]_vars => TypeOK'
<1> SUFFICES ASSUME TypeOK, [Next]_vars PROVE TypeOK'
  OBVIOUS
<1>1. CASE SchedPick
  <2> PICK p \in Slots : /\ proc' = p
                         /\ state' = [state EXCEPT ![p] = "RUNNING"]
                         /\ scan' = p + 1
    BY <1>1 DEF SchedPick
  <2>1. state' \in [Slots -> States]
    BY DEF TypeOK, States
  <2>2. proc' \in 0 .. NPROC /\ scan' \in 0 .. NPROC + 1
    BY DEF Slots
  <2> QED
    BY <1>1, <2>1, <2>2 DEF SchedPick, TypeOK
<1>2. CASE SchedWrap
  BY <1>2 DEF SchedWrap, slotVars, TypeOK
<1>3. ASSUME NEW p \in Slots, Forkret(p) PROVE TypeOK'
  BY <1>3 DEF Forkret, TypeOK, Resume
<1>4. ASSUME NEW p \in Slots, NEW oom \in {"none", "kstack", "pages", "kpt"},
             Fork(p, oom)
      PROVE  TypeOK'
  <2> PICK np \in Slots : ForkFail(np) \/ ForkPanic(np) \/ ForkOk(p, np)
    BY <1>4 DEF Fork
  <2>0. nextpid' = nextpid + 1 /\ nextpid' \in Nat
    BY <1>4 DEF Fork, TypeOK
  <2>1. CASE ForkFail(np)
    <3>1. pid' \in [Slots -> Nat]
      BY <2>1 DEF ForkFail, TypeOK
    <3> QED
      BY <1>4, <2>0, <2>1, <3>1 DEF Fork, ForkFail, TypeOK
  <2>2. CASE ForkPanic(np)
    BY <1>4, <2>0, <2>2 DEF Fork, ForkPanic, slotVars, TypeOK
  <2>3. CASE ForkOk(p, np)
    <3>1. state' \in [Slots -> States] /\ kpc' \in [Slots -> Resume]
      BY <2>3 DEF ForkOk, TypeOK, States, Resume
    <3>2. pid' \in [Slots -> Nat]
      BY <2>3 DEF ForkOk, TypeOK
    <3>3. parent' \in [Slots -> 0 .. NPROC]
      <4>1. p \in 0 .. NPROC
        BY DEF Slots
      <4> QED
        BY <2>3, <4>1 DEF ForkOk, TypeOK
    <3>4. kstack' \in [Slots -> BOOLEAN] /\ pgdir' \in [Slots -> BOOLEAN]
      BY <2>3 DEF ForkOk, TypeOK
    <3> QED
      BY <1>4, <2>0, <2>3, <3>1, <3>2, <3>3, <3>4 DEF Fork, ForkOk, TypeOK
  <2> QED
    BY <2>1, <2>2, <2>3
<1>5. ASSUME NEW p \in Slots, Exit(p) PROVE TypeOK'
  <2>1. state' \in [Slots -> States]
    BY <1>5 DEF Exit, Woken, States, TypeOK
  <2>2. parent' \in [Slots -> 0 .. NPROC]
    BY <1>5 DEF Exit, initproc, TypeOK
  <2> QED
    BY <1>5, <2>1, <2>2 DEF Exit, TypeOK
<1>6. ASSUME NEW p \in Slots, Wait(p) PROVE TypeOK'
  <2>1. CASE WaitReap(p)
    <3> PICK q \in Slots : /\ state'  = [state EXCEPT ![q] = "UNUSED"]
                           /\ pid'    = [pid EXCEPT ![q] = 0]
                           /\ parent' = [parent EXCEPT ![q] = 0]
                           /\ killed' = [killed EXCEPT ![q] = FALSE]
                           /\ kstack' = [kstack EXCEPT ![q] = FALSE]
                           /\ pgdir'  = [pgdir EXCEPT ![q] = FALSE]
      BY <2>1 DEF WaitReap
    <3>1. state' \in [Slots -> States] /\ pid' \in [Slots -> Nat]
      BY DEF TypeOK, States
    <3>2. parent' \in [Slots -> 0 .. NPROC]
      BY DEF TypeOK
    <3>3. /\ killed' \in [Slots -> BOOLEAN]
          /\ kstack' \in [Slots -> BOOLEAN]
          /\ pgdir' \in [Slots -> BOOLEAN]
      BY DEF TypeOK
    <3>4. chan' \in [Slots -> 0 .. TICKS] /\ kpc' \in [Slots -> Resume]
      BY <2>1 DEF TypeOK, WaitReap, Return, Resume, TICKS
    <3> QED
      BY <1>6, <2>1, <3>1, <3>2, <3>3, <3>4 DEF TypeOK, Wait, WaitReap, Return
  <2>2. CASE WaitFail(p)
    <3>1. chan' \in [Slots -> 0 .. TICKS] /\ kpc' \in [Slots -> Resume]
      BY <2>2 DEF TypeOK, WaitFail, Return, Resume, TICKS
    <3> QED
      BY <1>6, <2>2, <3>1 DEF TypeOK, Wait, WaitFail, Return
  <2>3. CASE WaitBlock(p)
    <3>1. state' \in [Slots -> States] /\ kpc' \in [Slots -> Resume]
      BY <2>3 DEF TypeOK, WaitBlock, SleepOn, States, Resume
    <3>2. p \in 0 .. TICKS
      BY DEF Slots, TICKS
    <3>3. chan' \in [Slots -> 0 .. TICKS]
      BY <2>3, <3>2 DEF TypeOK, WaitBlock, SleepOn
    <3>4. proc' \in 0 .. NPROC
      BY <2>3 DEF WaitBlock, SleepOn
    <3> QED
      BY <1>6, <2>3, <3>1, <3>3, <3>4 DEF TypeOK, Wait, WaitBlock, SleepOn
  <2> QED
    BY <1>6, <2>1, <2>2, <2>3 DEF Wait
<1>7. ASSUME NEW p \in Slots, NEW n \in 0 .. MaxPid, Kill(p, n) PROVE TypeOK'
  <2> PICK q \in Slots :
         /\ killed' = [killed EXCEPT ![q] = TRUE]
         /\ state'  = [state EXCEPT ![q] = IF @ = "SLEEPING" THEN "RUNNABLE" ELSE @]
    BY <1>7 DEF Kill
  <2>1. state' \in [Slots -> States] /\ killed' \in [Slots -> BOOLEAN]
    BY DEF TypeOK, States
  <2> QED
    BY <1>7, <2>1 DEF Kill, TypeOK
<1>8. ASSUME NEW p \in Slots, NEW n \in 0 .. TickMod - 1, SysSleep(p, n)
      PROVE  TypeOK'
  <2> PICK t0 \in 0 .. TickMod - 1 : SleepLoop(p, t0, n)
    BY <1>8 DEF SysSleep, TypeOK
  <2>1. /\ ticks0' \in [Slots -> 0 .. TickMod - 1]
        /\ nticks' \in [Slots -> 0 .. TickMod - 1]
    BY DEF SleepLoop, TypeOK
  <2>2. /\ chan' \in [Slots -> 0 .. TICKS]
        /\ proc' \in 0 .. NPROC
    BY DEF SleepLoop, SleepOn, Return, TypeOK, TICKS
  <2>3. /\ state' \in [Slots -> States]
        /\ kpc' \in [Slots -> Resume]
    BY DEF SleepLoop, SleepOn, Return, TypeOK, States, Resume
  <2> QED
    BY <1>8, <2>1, <2>2, <2>3 DEF SysSleep, TypeOK
<1>9. CASE ExitInit
  BY <1>9 DEF ExitInit, slotVars, TypeOK
<1>10. CASE TimerIrq
  <2>1. state' \in [Slots -> States] /\ ticks' \in 0 .. TickMod - 1
    BY <1>10 DEF TimerIrq, Woken, States, TypeOK
  <2> QED
    BY <1>10, <2>1 DEF TimerIrq, TypeOK
<1>11. CASE PanicLoop \/ UNCHANGED vars
  BY <1>11 DEF PanicLoop, vars, slotVars, TypeOK
<1> QED
  BY <1>1, <1>2, <1>3, <1>4, <1>5, <1>6, <1>7, <1>8, <1>9, <1>10, <1>11
     DEF Next

-----------------------------------------------------------------------------
\* The invariant, action by action.  Elapsed reads ticks, which only the timer
\* changes; the family is changed by fork, exit and wait only.

\* scheduler() picks the only process that may be RUNNING.
LEMMA SchedPickStep == ASSUME IInv, TypeOK', SchedPick PROVE IInv'
<1> PICK p \in Slots : /\ state[p] = "RUNNABLE"
                       /\ proc' = p
                       /\ state' = [state EXCEPT ![p] = "RUNNING"]
  BY DEF SchedPick, FirstOf, RunnableFrom
<1>1. proc = 0 /\ UNCHANGED <<pid, parent, chan, killed, kstack, pgdir, kpc,
                              ticks0, nticks, nextpid, ticks>>
  BY DEF SchedPick
<1>2. 0 \notin Slots
  BY DEF Slots
<1>3. RunningIsProc'
  BY <1>1, <1>2 DEF IInv, TypeOK, RunningIsProc
<1>4. NoLostWakeup'
  BY <1>1 DEF IInv, TypeOK, NoLostWakeup, Children, Zombies
<1>5. NotOverdue'
  BY <1>1 DEF IInv, TypeOK, NotOverdue, Elapsed
<1>6. FamilyTree' /\ UniquePids'
  BY <1>1 DEF IInv, TypeOK, FamilyTree, UniquePids
<1>7. SlotResources'
  BY <1>1 DEF IInv, TypeOK, SlotResources
<1>8. SlotInv'
  BY <1>1 DEF IInv, TypeOK, SlotInv
<1> QED
  BY <1>3, <1>4, <1>5, <1>6, <1>7, <1>8 DEF IInv

\* fork() adds a runnable child to a free slot, or only uses up a pid.
LEMMA ForkStep == ASSUME IInv, TypeOK',
                         NEW p \in Slots,
                         NEW oom \in {"none", "kstack", "pages", "kpt"},
                         Fork(p, oom)
                  PROVE  IInv'
<1> PICK np \in Slots : /\ state[np] = "UNUSED"
                        /\ ForkFail(np) \/ ForkPanic(np) \/ ForkOk(p, np)
  BY DEF Fork, FirstOf, Unused
<1>1. proc = p /\ nextpid' = nextpid + 1 /\ nextpid \in Nat
      /\ UNCHANGED <<ticks0, nticks, proc, ticks>>
  BY DEF Fork, Running, IInv, TypeOK
<1>2. state[p] = "RUNNING" /\ np # p /\ np # initproc /\ parent[np] = 0
  BY <1>1 DEF IInv, RunningIsProc, SlotInv, FamilyTree
<1>a. 0 \notin Slots /\ initproc \in Slots
  BY DEF Slots, initproc
<1>b. pid[p] < nextpid /\ \A q \in Slots : pid[q] \in Nat /\ pid[q] < nextpid
  BY DEF IInv, SlotInv, TypeOK
<1>3. CASE ForkFail(np)
  <2>1. /\ UNCHANGED <<state, parent, chan, killed, kstack, pgdir, kpc>>
        /\ pid' = [pid EXCEPT ![np] = nextpid]
    BY <1>3 DEF ForkFail
  <2>2. RunningIsProc' /\ SlotResources'
    BY <2>1, <1>1 DEF IInv, RunningIsProc, SlotResources
  <2>3. NoLostWakeup' /\ NotOverdue'
    BY <2>1, <1>1 DEF IInv, NoLostWakeup, NotOverdue, Children, Zombies, Elapsed
  <2>4. FamilyTree'
    BY <2>1, <1>2 DEF IInv, TypeOK, FamilyTree
  <2>5. UniquePids'
    BY <2>1, <1>b DEF IInv, TypeOK, UniquePids
  <2>6. SlotInv'
    BY <2>1, <1>1, <1>2, <1>b DEF IInv, TypeOK, SlotInv
  <2> QED
    BY <2>2, <2>3, <2>4, <2>5, <2>6 DEF IInv
<1>4. CASE ForkPanic(np)
  <2>1. UNCHANGED <<state, pid, parent, chan, killed, kstack, pgdir, kpc>>
    BY <1>4 DEF ForkPanic, slotVars
  <2>2. RunningIsProc' /\ SlotResources'
    BY <2>1, <1>1 DEF IInv, RunningIsProc, SlotResources
  <2>3. NoLostWakeup' /\ NotOverdue'
    BY <2>1, <1>1 DEF IInv, NoLostWakeup, NotOverdue, Children, Zombies, Elapsed
  <2>4. FamilyTree' /\ UniquePids'
    BY <2>1 DEF IInv, FamilyTree, UniquePids
  <2>6. SlotInv'
    BY <2>1, <1>1, <1>b DEF IInv, TypeOK, SlotInv
  <2> QED
    BY <2>2, <2>3, <2>4, <2>6 DEF IInv
<1>5. CASE ForkOk(p, np)
  <2>1. /\ state'  = [state EXCEPT ![np] = "RUNNABLE"]
        /\ pid'    = [pid EXCEPT ![np] = nextpid]
        /\ parent' = [parent EXCEPT ![np] = p]
        /\ kpc'    = [kpc EXCEPT ![np] = "forkret"]
        /\ UNCHANGED <<chan, killed>>
    BY <1>5 DEF ForkOk
  <2>2. RunningIsProc'
    BY <2>1, <1>1, <1>2 DEF IInv, TypeOK, RunningIsProc
  <2>3. NoLostWakeup'
    BY <2>1, <1>1, <1>2, <1>a DEF IInv, TypeOK, NoLostWakeup, Children, Zombies
  <2>4. NotOverdue'
    BY <2>1, <1>1, <1>2 DEF IInv, TypeOK, NotOverdue, Elapsed
  <2>5. FamilyTree'
    BY <2>1, <1>2, <1>b DEF IInv, TypeOK, FamilyTree
  <2>6. UniquePids'
    BY <2>1, <1>b DEF IInv, TypeOK, UniquePids
  <2>7. SlotResources'
    <3>1. /\ kstack' = [kstack EXCEPT ![np] = TRUE]
          /\ pgdir'  = [pgdir EXCEPT ![np] = TRUE]
      BY <1>5 DEF ForkOk
    <3> QED
      BY <2>1, <3>1 DEF IInv, TypeOK, SlotResources
  <2>8. SlotInv'
    BY <2>1, <1>1, <1>2, <1>b DEF IInv, TypeOK, SlotInv
  <2> QED
    BY <2>2, <2>3, <2>4, <2>5, <2>6, <2>7, <2>8 DEF IInv
<1> QED
  BY <1>3, <1>4, <1>5

\* exit() wakes everyone for whom the family changes: the parent of the new
\* zombie, and init when it inherits one.
LEMMA ExitStep == ASSUME IInv, TypeOK', NEW p \in Slots, Exit(p) PROVE IInv'
<1> DEFINE cs == {parent[p]} \cup (IF Zombies(p) # {} THEN {initproc} ELSE {})
<1>1. /\ proc = p /\ proc' = 0 /\ p # initproc
      /\ state' = [q \in Slots |-> IF q = p THEN "ZOMBIE" ELSE Woken(q, cs)]
      /\ parent' = [q \in Slots |-> IF parent[q] = p THEN initproc ELSE parent[q]]
      /\ UNCHANGED <<pid, chan, killed, kstack, pgdir, kpc, ticks0, nticks,
                     nextpid, ticks>>
  BY DEF Exit, Running
<1> HIDE DEF cs
<1>2. 0 \notin Slots /\ initproc \in Slots
  BY DEF Slots, initproc
<1>3. /\ \A q \in Slots : q # p /\ state[q] # "SLEEPING" => state'[q] = state[q]
      /\ \A q \in Slots : q # p /\ state[q] = "SLEEPING" =>
            state'[q] = IF chan[q] \in cs THEN "RUNNABLE" ELSE "SLEEPING"
      /\ state'[p] = "ZOMBIE" /\ state[p] = "RUNNING"
      /\ \A q \in Slots : parent'[q] = IF parent[q] = p THEN initproc ELSE parent[q]
  BY <1>1 DEF Woken, IInv, RunningIsProc, TypeOK
<1>4. \A q \in Slots : state[q] = "RUNNING" => q = p
  BY <1>1 DEF IInv, RunningIsProc
<1>5. RunningIsProc'
  BY <1>1, <1>2, <1>3, <1>4 DEF RunningIsProc
<1>6. NoLostWakeup'
  <2> SUFFICES ASSUME NEW r \in Slots, state'[r] = "SLEEPING", kpc'[r] = "wait"
               PROVE  /\ \E q \in Slots : parent'[q] = r
                      /\ \A q \in Slots : parent'[q] = r => state'[q] # "ZOMBIE"
                      /\ ~killed'[r]
    BY DEF NoLostWakeup, Children, Zombies
  <2>1. r # p /\ state[r] = "SLEEPING" /\ kpc[r] = "wait" /\ chan[r] \notin cs
    BY <1>1, <1>3
  <2>2. chan[r] = r
    BY <2>1 DEF IInv, SlotInv
  <2>3. r # parent[p] /\ (Zombies(p) # {} => r # initproc)
    BY <2>1, <2>2 DEF cs
  <2>4. /\ \E q \in Slots : parent[q] = r
        /\ \A q \in Slots : parent[q] = r => state[q] # "ZOMBIE"
        /\ ~killed[r]
    BY <2>1 DEF IInv, NoLostWakeup, Children, Zombies
  <2>5. \E q \in Slots : parent'[q] = r
    BY <2>1, <2>4, <1>3
  <2>6. ASSUME NEW q \in Slots, parent'[q] = r PROVE state'[q] # "ZOMBIE"
    <3>1. CASE parent[q] = r
      BY <3>1, <2>3, <2>4, <1>3
    <3>2. CASE parent[q] = p
      <4>1. r = initproc
        BY <3>2, <2>6, <1>3
      <4>2. state[q] # "ZOMBIE"
        BY <4>1, <2>3, <3>2 DEF Zombies, Children
      <4>3. q # p
        <5>1. parent[p] # p
          BY <1>1, <1>3 DEF IInv, FamilyTree, TypeOK
        <5> QED
          BY <5>1, <3>2
      <4> QED
        BY <4>2, <4>3, <1>3
    <3> QED
      BY <3>1, <3>2, <2>6, <1>3
  <2> QED
    BY <2>4, <2>5, <2>6, <1>1
<1>7. NotOverdue'
  <2> SUFFICES ASSUME NEW r \in Slots, state'[r] = "SLEEPING", kpc'[r] = "sleep"
               PROVE  chan'[r] = TICKS /\ Elapsed(ticks0[r])' < nticks'[r] /\ ~killed'[r]
    BY <1>1 DEF NotOverdue, Elapsed
  <2>1. state[r] = "SLEEPING" /\ kpc[r] = "sleep"
    BY <1>1, <1>3
  <2> QED
    BY <2>1, <1>1 DEF IInv, NotOverdue, Elapsed
<1>8. FamilyTree'
  <2>1. state[initproc] \notin {"UNUSED", "ZOMBIE"} /\ state'[initproc] \notin {"UNUSED", "ZOMBIE"}
    BY <1>1, <1>2, <1>3 DEF IInv, FamilyTree, TypeOK, States
  <2>2. ASSUME NEW q \in Slots, state'[q] # "UNUSED", q # initproc
        PROVE  /\ parent'[q] \in Slots
               /\ state'[parent'[q]] \notin {"UNUSED", "ZOMBIE"}
               /\ pid'[parent'[q]] < pid'[q]
    <3>1. state[q] # "UNUSED"
      BY <2>2, <1>3 DEF IInv, TypeOK, States
    <3>2. /\ parent[q] \in Slots
          /\ state[parent[q]] \notin {"UNUSED", "ZOMBIE"}
          /\ pid[parent[q]] < pid[q]
      BY <3>1, <2>2 DEF IInv, FamilyTree
    <3>3. CASE parent[q] = p
      <4>1. pid[initproc] = 1 /\ pid[p] >= 1 /\ pid[p] \in Nat /\ pid[q] \in Nat
        BY <1>3, <1>2 DEF IInv, SlotInv, TypeOK
      <4> QED
        BY <3>2, <3>3, <4>1, <2>1, <1>1, <1>2, <1>3
    <3>4. CASE parent[q] # p
      BY <3>2, <3>4, <1>1, <1>3 DEF IInv, TypeOK, States
    <3> QED
      BY <3>3, <3>4
  <2> QED
    BY <2>1, <2>2 DEF FamilyTree
<1>9. UniquePids'
  BY <1>1 DEF IInv, UniquePids
<1>10. SlotResources'
  BY <1>1, <1>3 DEF IInv, SlotResources
<1>11. SlotInv'
  <2>1. \A q \in Slots : state'[q] = "UNUSED" <=> state[q] = "UNUSED"
    BY <1>3
  <2>2. \A q \in Slots : parent[q] = 0 => parent'[q] = 0
    BY <1>2, <1>3
  <2>3. \A q \in Slots : state'[q] = "SLEEPING" => state[q] = "SLEEPING"
    BY <1>3
  <2> QED
    BY <2>1, <2>2, <2>3, <1>1, <1>2 DEF IInv, SlotInv
<1> QED
  BY <1>5, <1>6, <1>7, <1>8, <1>9, <1>10, <1>11 DEF IInv

\* wait() frees a zombie child, gives up, or sleeps while it has live children.
LEMMA WaitStep == ASSUME IInv, TypeOK', NEW p \in Slots, Wait(p) PROVE IInv'
<1>1. /\ proc = p /\ state[p] = "RUNNING" /\ p # 0
      /\ UNCHANGED <<ticks0, nticks, nextpid, ticks>>
  BY DEF Wait, Running, IInv, RunningIsProc, Slots
<1>2. 0 \notin Slots /\ initproc \in Slots
  BY DEF Slots, initproc
<1>3. CASE WaitReap(p)
  <2> PICK q \in Slots : /\ parent[q] = p /\ state[q] = "ZOMBIE"
                         /\ state'  = [state EXCEPT ![q] = "UNUSED"]
                         /\ pid'    = [pid EXCEPT ![q] = 0]
                         /\ parent' = [parent EXCEPT ![q] = 0]
                         /\ killed' = [killed EXCEPT ![q] = FALSE]
                         /\ kstack' = [kstack EXCEPT ![q] = FALSE]
                         /\ pgdir'  = [pgdir EXCEPT ![q] = FALSE]
    BY <1>3 DEF WaitReap, FirstOf, Zombies, Children
  <2>1. /\ chan' = [chan EXCEPT ![p] = 0]
        /\ kpc'  = [kpc EXCEPT ![p] = "user"]
        /\ proc' = proc
    BY <1>3 DEF WaitReap, Return
  <2>2. q # p /\ q # initproc
    BY <1>1 DEF IInv, FamilyTree
  <2>3. RunningIsProc'
    BY <2>1, <2>2, <1>1 DEF IInv, TypeOK, RunningIsProc
  <2>4. NoLostWakeup'
    <3> SUFFICES ASSUME NEW r \in Slots, state'[r] = "SLEEPING", kpc'[r] = "wait"
                 PROVE  /\ \E c \in Slots : parent'[c] = r
                        /\ \A c \in Slots : parent'[c] = r => state'[c] # "ZOMBIE"
                        /\ ~killed'[r]
      BY DEF NoLostWakeup, Children, Zombies
    <3>1. r # p /\ r # q /\ state[r] = "SLEEPING" /\ kpc[r] = "wait"
      BY <2>1, <1>1 DEF IInv, TypeOK
    <3>2. /\ \E c \in Slots : parent[c] = r
          /\ \A c \in Slots : parent[c] = r => state[c] # "ZOMBIE"
          /\ ~killed[r]
      BY <3>1 DEF IInv, NoLostWakeup, Children, Zombies
    <3> QED
      BY <3>1, <3>2, <1>2 DEF IInv, TypeOK
  <2>5. NotOverdue'
    BY <2>1, <2>2, <1>1 DEF IInv, TypeOK, NotOverdue, Elapsed
  <2>6. FamilyTree'
    <3>1. state'[initproc] \notin {"UNUSED", "ZOMBIE"}
      BY <2>2, <1>2 DEF IInv, TypeOK, FamilyTree
    <3>2. ASSUME NEW c \in Slots, state'[c] # "UNUSED", c # initproc
          PROVE  /\ parent'[c] \in Slots
                 /\ state'[parent'[c]] \notin {"UNUSED", "ZOMBIE"}
                 /\ pid'[parent'[c]] < pid'[c]
      <4>1. c # q /\ state[c] # "UNUSED"
        BY <3>2 DEF IInv, TypeOK
      <4>2. /\ parent[c] \in Slots
            /\ state[parent[c]] \notin {"UNUSED", "ZOMBIE"}
            /\ pid[parent[c]] < pid[c]
        BY <3>2, <4>1 DEF IInv, FamilyTree
      <4> QED
        BY <4>1, <4>2 DEF IInv, TypeOK
    <3> QED
      BY <3>1, <3>2 DEF FamilyTree
  <2>7. UniquePids'
    BY DEF IInv, TypeOK, UniquePids
  <2>8. SlotResources'
    BY DEF IInv, TypeOK, SlotResources
  <2>9. SlotInv'
    BY <2>1, <2>2, <1>1, <1>2 DEF IInv, TypeOK, SlotInv
  <2> QED
    BY <2>3, <2>4, <2>5, <2>6, <2>7, <2>8, <2>9 DEF IInv
<1>4. CASE WaitFail(p)
  <2>1. /\ chan' = [chan EXCEPT ![p] = 0]
        /\ kpc'  = [kpc EXCEPT ![p] = "user"]
        /\ proc' = proc
        /\ UNCHANGED <<state, pid, parent, killed, kstack, pgdir>>
    BY <1>4 DEF WaitFail, Return
  <2>2. RunningIsProc' /\ SlotResources'
    BY <2>1 DEF IInv, RunningIsProc, SlotResources
  <2>3. NoLostWakeup'
    BY <2>1, <1>1 DEF IInv, TypeOK, NoLostWakeup, Children, Zombies
  <2>4. NotOverdue'
    BY <2>1, <1>1 DEF IInv, TypeOK, NotOverdue, Elapsed
  <2>5. FamilyTree' /\ UniquePids'
    BY <2>1 DEF IInv, FamilyTree, UniquePids
  <2>6. SlotInv'
    BY <2>1, <1>1 DEF IInv, TypeOK, SlotInv
  <2> QED
    BY <2>2, <2>3, <2>4, <2>5, <2>6 DEF IInv
<1>5. CASE WaitBlock(p)
  <2>1. /\ state' = [state EXCEPT ![p] = "SLEEPING"]
        /\ chan' = [chan EXCEPT ![p] = p]
        /\ kpc'  = [kpc EXCEPT ![p] = "wait"]
        /\ proc' = 0
        /\ UNCHANGED <<pid, parent, killed, kstack, pgdir>>
    BY <1>5 DEF WaitBlock, SleepOn
  <2>2. RunningIsProc'
    BY <2>1, <1>1, <1>2 DEF IInv, TypeOK, RunningIsProc
  <2>3. NoLostWakeup'
    <3> SUFFICES ASSUME NEW r \in Slots, state'[r] = "SLEEPING", kpc'[r] = "wait"
                 PROVE  /\ \E c \in Slots : parent'[c] = r
                        /\ \A c \in Slots : parent'[c] = r => state'[c] # "ZOMBIE"
                        /\ ~killed'[r]
      BY DEF NoLostWakeup, Children, Zombies
    <3>1. CASE r = p
      <4>1. /\ \E c \in Slots : parent[c] = p
            /\ \A c \in Slots : parent[c] = p => state[c] # "ZOMBIE"
            /\ ~killed[p]
        BY <1>5 DEF WaitBlock, Children, Zombies
      <4> QED
        BY <3>1, <4>1, <2>1 DEF IInv, TypeOK
    <3>2. CASE r # p
      <4>1. state[r] = "SLEEPING" /\ kpc[r] = "wait"
        BY <3>2, <2>1 DEF IInv, TypeOK
      <4>2. /\ \E c \in Slots : parent[c] = r
            /\ \A c \in Slots : parent[c] = r => state[c] # "ZOMBIE"
            /\ ~killed[r]
        BY <4>1 DEF IInv, NoLostWakeup, Children, Zombies
      <4> QED
        BY <4>2, <2>1 DEF IInv, TypeOK
    <3> QED
      BY <3>1, <3>2
  <2>4. NotOverdue'
    BY <2>1, <1>1 DEF IInv, TypeOK, NotOverdue, Elapsed
  <2>5. FamilyTree' /\ UniquePids'
    BY <2>1, <1>1 DEF IInv, TypeOK, FamilyTree, UniquePids
  <2>6. SlotResources'
    BY <2>1, <1>1 DEF IInv, TypeOK, SlotResources
  <2>7. SlotInv'
    BY <2>1, <1>1 DEF IInv, TypeOK, SlotInv
  <2> QED
    BY <2>2, <2>3, <2>4, <2>5, <2>6, <2>7 DEF IInv
<1> QED
  BY <1>3, <1>4, <1>5 DEF Wait

\* kill() marks its target and wakes it when it sleeps.
LEMMA KillStep == ASSUME IInv, TypeOK', NEW p \in Slots, NEW n \in 0 .. MaxPid,
                         Kill(p, n)
                  PROVE  IInv'
<1> PICK q \in Slots :
       /\ killed' = [killed EXCEPT ![q] = TRUE]
       /\ state'  = [state EXCEPT ![q] = IF @ = "SLEEPING" THEN "RUNNABLE" ELSE @]
  BY DEF Kill
<1>1. UNCHANGED <<pid, parent, chan, kstack, pgdir, kpc, ticks0, nticks, proc,
                  nextpid, ticks>>
  BY DEF Kill
<1>2. \A r \in Slots : /\ state'[r] = "SLEEPING" => state[r] = "SLEEPING" /\ r # q
                       /\ state'[r] # state[r] => /\ state[r] = "SLEEPING"
                                                 /\ state'[r] = "RUNNABLE"
                       /\ r # q => killed'[r] = killed[r]
  BY DEF IInv, TypeOK
<1>3. RunningIsProc'
  BY <1>1, <1>2 DEF IInv, RunningIsProc
<1>4. NoLostWakeup'
  <2> SUFFICES ASSUME NEW r \in Slots, state'[r] = "SLEEPING", kpc'[r] = "wait"
               PROVE  /\ \E c \in Slots : parent'[c] = r
                      /\ \A c \in Slots : parent'[c] = r => state'[c] # "ZOMBIE"
                      /\ ~killed'[r]
    BY DEF NoLostWakeup, Children, Zombies
  <2>1. /\ \E c \in Slots : parent[c] = r
        /\ \A c \in Slots : parent[c] = r => state[c] # "ZOMBIE"
        /\ ~killed[r]
    BY <1>1, <1>2 DEF IInv, NoLostWakeup, Children, Zombies
  <2>2. \A c \in Slots : state[c] # "ZOMBIE" => state'[c] # "ZOMBIE"
    BY <1>2
  <2>3. killed'[r] = killed[r]
    BY <1>2
  <2> QED
    BY <2>1, <2>2, <2>3, <1>1
<1>5. NotOverdue'
  BY <1>1, <1>2 DEF IInv, NotOverdue, Elapsed
<1>6. FamilyTree'
  <2>1. initproc \in Slots
    BY DEF initproc, Slots
  <2>2. ASSUME NEW r \in Slots, state[r] \notin {"UNUSED", "ZOMBIE"}
        PROVE  state'[r] \notin {"UNUSED", "ZOMBIE"}
    <3>1. state'[r] = state[r] \/ state'[r] = "RUNNABLE"
      BY <1>2
    <3> QED
      BY <2>2, <3>1
  <2>3. \A r \in Slots : state'[r] # "UNUSED" => state[r] # "UNUSED"
    BY <1>2
  <2> QED
    BY <2>1, <2>2, <2>3, <1>1 DEF IInv, FamilyTree
<1>7. UniquePids'
  BY <1>1 DEF IInv, UniquePids
<1>8. SlotResources'
  BY <1>1, <1>2 DEF IInv, SlotResources
<1>9. SlotInv'
  BY <1>1, <1>2 DEF IInv, SlotInv
<1> QED
  BY <1>3, <1>4, <1>5, <1>6, <1>7, <1>8, <1>9 DEF IInv

\* sys_sleep() sleeps only after it has looked at the clock and at killed.
LEMMA SysSleepStep == ASSUME IInv, TypeOK', NEW p \in Slots,
                             NEW n \in 0 .. TickMod - 1, SysSleep(p, n)
                      PROVE  IInv'
<1> PICK t0 \in 0 .. TickMod - 1 : SleepLoop(p, t0, n)
  BY DEF SysSleep, IInv, TypeOK
<1>1. /\ proc = p /\ state[p] = "RUNNING"
      /\ UNCHANGED <<pid, parent, killed, kstack, pgdir, nextpid, ticks>>
  BY DEF SysSleep, Running, IInv, RunningIsProc
<1>2. 0 \notin Slots
  BY DEF Slots
<1>3. CASE state' = [state EXCEPT ![p] = "SLEEPING"]
  <2>1. /\ Elapsed(t0) < n /\ ~killed[p]
        /\ chan'   = [chan EXCEPT ![p] = TICKS]
        /\ kpc'    = [kpc EXCEPT ![p] = "sleep"]
        /\ proc'   = 0
        /\ ticks0' = [ticks0 EXCEPT ![p] = t0]
        /\ nticks' = [nticks EXCEPT ![p] = n]
    <3>1. state' # state
      BY <1>1, <1>3 DEF IInv, TypeOK
    <3> QED
      BY <3>1 DEF SleepLoop, SleepOn
  <2>2. RunningIsProc'
    BY <2>1, <1>1, <1>2, <1>3 DEF IInv, TypeOK, RunningIsProc
  <2>3. NoLostWakeup'
    BY <2>1, <1>1, <1>3 DEF IInv, TypeOK, NoLostWakeup, Children, Zombies
  <2>4. NotOverdue'
    <3> SUFFICES ASSUME NEW r \in Slots, state'[r] = "SLEEPING", kpc'[r] = "sleep"
                 PROVE  /\ chan'[r] = TICKS /\ ~killed'[r]
                        /\ (ticks + TickMod - ticks0'[r]) % TickMod < nticks'[r]
      BY <1>1 DEF NotOverdue, Elapsed
    <3>1. CASE r = p
      BY <3>1, <2>1, <1>1 DEF IInv, TypeOK, Elapsed
    <3>2. CASE r # p
      BY <3>2, <2>1, <1>1, <1>3 DEF IInv, TypeOK, NotOverdue, Elapsed
    <3> QED
      BY <3>1, <3>2
  <2>5. FamilyTree' /\ UniquePids'
    BY <1>1, <1>3 DEF IInv, TypeOK, FamilyTree, UniquePids
  <2>6. SlotResources'
    BY <1>1, <1>3 DEF IInv, TypeOK, SlotResources
  <2>7. SlotInv'
    BY <2>1, <1>1, <1>3 DEF IInv, TypeOK, SlotInv
  <2> QED
    BY <2>2, <2>3, <2>4, <2>5, <2>6, <2>7 DEF IInv
<1>4. CASE state' = state
  <2>1. /\ chan'   = [chan EXCEPT ![p] = 0]
        /\ kpc'    = [kpc EXCEPT ![p] = "user"]
        /\ proc'   = proc
        /\ ticks0' = [ticks0 EXCEPT ![p] = 0]
        /\ nticks' = [nticks EXCEPT ![p] = 0]
    <3>1. state' # [state EXCEPT ![p] = "SLEEPING"]
      BY <1>1, <1>4 DEF IInv, TypeOK
    <3> QED
      BY <3>1 DEF SleepLoop, SleepOn, Return
  <2>2. RunningIsProc' /\ SlotResources'
    BY <2>1, <1>1, <1>4 DEF IInv, RunningIsProc, SlotResources
  <2>3. NoLostWakeup'
    BY <2>1, <1>1, <1>4 DEF IInv, TypeOK, NoLostWakeup, Children, Zombies
  <2>4. NotOverdue'
    BY <2>1, <1>1, <1>4 DEF IInv, TypeOK, NotOverdue, Elapsed
  <2>5. FamilyTree' /\ UniquePids'
    BY <1>1, <1>4 DEF IInv, FamilyTree, UniquePids
  <2>6. SlotInv'
    BY <2>1, <1>1, <1>4 DEF IInv, TypeOK, SlotInv
  <2> QED
    BY <2>2, <2>3, <2>4, <2>5, <2>6 DEF IInv
<1> QED
  BY <1>3, <1>4 DEF SleepLoop, SleepOn

\* The tick wakes every sleeper on it, so that none can be found overdue.
LEMMA TimerStep == ASSUME IInv, TypeOK', TimerIrq PROVE IInv'
<1>1. UNCHANGED <<pid, parent, chan, killed, kstack, pgdir, kpc, ticks0, nticks,
                  proc, nextpid>>
  BY DEF TimerIrq
<1>2. \A q \in Slots : state'[q] = Woken(q, {TICKS})
  BY DEF TimerIrq
<1>3. \A q \in Slots :
         /\ state'[q] = "SLEEPING" => state[q] = "SLEEPING" /\ chan[q] # TICKS
         /\ state'[q] # state[q] => state[q] = "SLEEPING" /\ state'[q] = "RUNNABLE"
  BY <1>2 DEF Woken
<1>4. \A q \in Slots : state'[q] = "SLEEPING" => kpc[q] = "wait"
  BY <1>3 DEF IInv, SlotInv
<1>5. RunningIsProc'
  BY <1>1, <1>3 DEF IInv, RunningIsProc
<1>6. NoLostWakeup'
  <2> SUFFICES ASSUME NEW r \in Slots, state'[r] = "SLEEPING", kpc'[r] = "wait"
               PROVE  /\ \E c \in Slots : parent'[c] = r
                      /\ \A c \in Slots : parent'[c] = r => state'[c] # "ZOMBIE"
                      /\ ~killed'[r]
    BY DEF NoLostWakeup, Children, Zombies
  <2>1. /\ \E c \in Slots : parent[c] = r
        /\ \A c \in Slots : parent[c] = r => state[c] # "ZOMBIE"
        /\ ~killed[r]
    BY <1>1, <1>3 DEF IInv, NoLostWakeup, Children, Zombies
  <2> QED
    BY <2>1, <1>1, <1>3
<1>7. NotOverdue'
  BY <1>1, <1>4 DEF NotOverdue
<1>8. FamilyTree'
  <2>1. initproc \in Slots
    BY DEF initproc, Slots
  <2>2. \A r \in Slots : state[r] \notin {"UNUSED", "ZOMBIE"} =>
                          state'[r] \notin {"UNUSED", "ZOMBIE"}
    BY <1>3
  <2>3. \A r \in Slots : state'[r] # "UNUSED" => state[r] # "UNUSED"
    BY <1>3
  <2> QED
    BY <2>1, <2>2, <2>3, <1>1 DEF IInv, FamilyTree
<1>9. UniquePids'
  BY <1>1 DEF IInv, UniquePids
<1>10. SlotResources'
  BY <1>1, <1>3 DEF IInv, SlotResources
<1>11. SlotInv'
  BY <1>1, <1>3 DEF IInv, SlotInv
<1> QED
  BY <1>5, <1>6, <1>7, <1>8, <1>9, <1>10, <1>11 DEF IInv

\* The other steps move a resume point, the scan or the panic flag only.
LEMMA QuietStep ==
    ASSUME IInv, TypeOK',
           UNCHANGED <<state, pid, parent, chan, killed, kstack, pgdir, ticks0,
                       nticks, proc, nextpid, ticks>>,
           \A q \in Slots : state[q] = "SLEEPING" => kpc'[q] = kpc[q]
    PROVE  IInv'
<1>1. RunningIsProc' /\ FamilyTree' /\ UniquePids' /\ SlotResources'
  BY DEF IInv, RunningIsProc, FamilyTree, UniquePids, SlotResources
<1>2. NoLostWakeup' /\ NotOverdue'
  BY DEF IInv, NoLostWakeup, NotOverdue, Children, Zombies, Elapsed
<1>3. SlotInv'
  BY DEF IInv, SlotInv
<1> QED
  BY <1>1, <1>2, <1>3 DEF IInv

LEMMA IInvStep == IInv /\ [Next]_vars => IInv'
<1> SUFFICES ASSUME IInv, [Next]_vars PROVE IInv'
  OBVIOUS
<1>0. TypeOK'
  BY TypeStep DEF IInv
<1>1. CASE SchedPick
  BY <1>0, <1>1, SchedPickStep
<1>2. CASE SchedWrap
  BY <1>0, <1>2, QuietStep DEF SchedWrap, slotVars
<1>3. ASSUME NEW p \in Slots, Forkret(p) PROVE IInv'
  <2>1. proc = p /\ kpc' = [kpc EXCEPT ![p] = "user"]
    BY <1>3 DEF Forkret, Running
  <2>2. \A q \in Slots : state[q] = "SLEEPING" => kpc'[q] = kpc[q]
    BY <2>1 DEF IInv, RunningIsProc, TypeOK
  <2> QED
    BY <1>0, <1>3, <2>2, QuietStep DEF Forkret
<1>4. ASSUME NEW p \in Slots, NEW oom \in {"none", "kstack", "pages", "kpt"},
             Fork(p, oom)
      PROVE  IInv'
  BY <1>0, <1>4, ForkStep
<1>5. ASSUME NEW p \in Slots, Exit(p) PROVE IInv'
  BY <1>0, <1>5, ExitStep
<1>6. ASSUME NEW p \in Slots, Wait(p) PROVE IInv'
  BY <1>0, <1>6, WaitStep
<1>7. ASSUME NEW p \in Slots, NEW n \in 0 .. MaxPid, Kill(p, n) PROVE IInv'
  BY <1>0, <1>7, KillStep
<1>8. ASSUME NEW p \in Slots, NEW n \in 0 .. TickMod - 1, SysSleep(p, n)
      PROVE  IInv'
  BY <1>0, <1>8, SysSleepStep
<1>9. CASE ExitInit
  BY <1>0, <1>9, QuietStep DEF ExitInit, slotVars
<1>10. CASE TimerIrq
  BY <1>0, <1>10, TimerStep
<1>11. CASE PanicLoop \/ UNCHANGED vars
  BY <1>0, <1>11, QuietStep DEF PanicLoop, vars, slotVars
<1> QED
  BY <1>1, <1>2, <1>3, <1>4, <1>5, <1>6, <1>7, <1>8, <1>9, <1>10, <1>11
     DEF Next

-----------------------------------------------------------------------------
\* The inductive invariant holds in every reachable state of the process table.
THEOREM Invariance == Spec => []IInv
  BY InitIInv, IInvStep, PTL DEF Spec

\* The process table never leaves its type, for any size of the table.
THEOREM TypeCorrect == Spec => []TypeOK
<1>1. IInv => TypeOK
  BY DEF IInv
<1> QED
  BY Invariance, <1>1, PTL

\* No process sleeps in wait() while a child of it is a zombie, after its last
\* child is gone, or with a kill it has not seen.
THEOREM WaitNeverMissesWakeup == Spec => []NoLostWakeup
<1>1. IInv => NoLostWakeup
  BY DEF IInv
<1> QED
  BY Invariance, <1>1, PTL

\* A value below twice the modulus wraps around at most once.
LEMMA WrapsOnce ==
    ASSUME NEW x \in 0 .. 2 * TickMod - 1
    PROVE  x % TickMod = IF x < TickMod THEN x ELSE x - TickMod
<1>1. CASE x < TickMod
  BY <1>1
<1>2. CASE ~(x < TickMod)
  <2>1. x = TickMod + (x - TickMod) /\ x - TickMod \in 0 .. TickMod - 1
    BY <1>2
  <2> QED BY <2>1, <1>2
<1> QED BY <1>1, <1>2

\* At the deadline the unsigned difference is the time asked for.
LEMMA AwakeAtDeadline ==
    ASSUME NEW t \in 0 .. TickMod - 1, NEW t0 \in 0 .. TickMod - 1,
           NEW n \in 0 .. TickMod - 1, (t + TickMod - t0) % TickMod < n
    PROVE  t # (t0 + n) % TickMod
<1>1. t + TickMod - t0 \in 0 .. 2 * TickMod - 1 /\ t0 + n \in 0 .. 2 * TickMod - 1
  OBVIOUS
<1>2. (t + TickMod - t0) % TickMod = IF t < t0 THEN t + TickMod - t0 ELSE t - t0
  BY <1>1, WrapsOnce
<1>3. (t0 + n) % TickMod = IF t0 + n < TickMod THEN t0 + n ELSE t0 + n - TickMod
  BY <1>1, WrapsOnce
<1>4. PICK e, d : e = (t + TickMod - t0) % TickMod /\ d = (t0 + n) % TickMod
  OBVIOUS
<1>5. /\ e = IF t < t0 THEN t + TickMod - t0 ELSE t - t0
      /\ d = IF t0 + n < TickMod THEN t0 + n ELSE t0 + n - TickMod
      /\ e < n
  BY <1>2, <1>3, <1>4
<1>6. t # d
  BY <1>5
<1> QED BY <1>4, <1>6

\* No process sleeps in sys_sleep() past its deadline, wrap-around of the tick
\* counter included.
THEOREM SleepNeverOverdue == Spec => []NoOversleep
<1>1. IInv => NoOversleep
  <2> SUFFICES ASSUME IInv, NEW p \in Slots, state[p] = "SLEEPING", kpc[p] = "sleep"
               PROVE  /\ chan[p] = TICKS /\ ~killed[p]
                      /\ ticks # (ticks0[p] + nticks[p]) % TickMod
    BY DEF NoOversleep
  <2>1. chan[p] = TICKS /\ ~killed[p] /\ Elapsed(ticks0[p]) < nticks[p]
    BY DEF IInv, NotOverdue
  <2>2. /\ ticks \in 0 .. TickMod - 1
        /\ ticks0[p] \in 0 .. TickMod - 1 /\ nticks[p] \in 0 .. TickMod - 1
    BY DEF IInv, TypeOK
  <2>3. ticks # (ticks0[p] + nticks[p]) % TickMod
    BY <2>1, <2>2, AwakeAtDeadline DEF Elapsed
  <2> QED BY <2>1, <2>3
<1> QED
  BY Invariance, <1>1, PTL

\* Every process has a live, older parent: no zombie is ever out of reach of a
\* wait(), whatever the order of fork, exit and kill.
THEOREM OrphansAreAdopted == Spec => []FamilyTree
<1>1. IInv => FamilyTree
  BY DEF IInv
<1> QED
  BY Invariance, <1>1, PTL

\* Pids in the table are distinct, and a slot's memory is held exactly while
\* the slot is in use.
THEOREM SlotsAreSound == Spec => [](UniquePids /\ SlotResources /\ RunningIsProc)
<1>1. IInv => UniquePids /\ SlotResources /\ RunningIsProc
  BY DEF IInv
<1> QED
  BY Invariance, <1>1, PTL

\* A zombie stays a zombie until its own parent, running wait(), frees it.
THEOREM ZombiesAreFinal == Spec => ZombieFinal
<1>1. ASSUME IInv, [Next]_vars, NEW z \in Slots, state[z] = "ZOMBIE"
      PROVE  \/ state'[z] = "ZOMBIE"
             \/ state'[z] = "UNUSED" /\ parent[z] = proc /\ proc # 0
  <2>0. state \in [Slots -> States]
    BY <1>1 DEF IInv, TypeOK
  <2>1. CASE SchedPick
    BY <1>1, <2>0, <2>1 DEF SchedPick, FirstOf, RunnableFrom
  <2>2. CASE \E p \in Slots, oom \in {"none", "kstack", "pages", "kpt"} : Fork(p, oom)
    <3> PICK np \in Slots : /\ state[np] = "UNUSED"
                            /\ \/ UNCHANGED state
                               \/ state' = [state EXCEPT ![np] = "RUNNABLE"]
      BY <2>2 DEF Fork, FirstOf, Unused, ForkFail, ForkPanic, ForkOk, slotVars
    <3> QED
      BY <1>1, <2>0
  <2>3. CASE \E p \in Slots : Exit(p)
    BY <1>1, <2>3 DEF Exit, Woken
  <2>4. ASSUME NEW p \in Slots, Wait(p)
        PROVE  \/ state'[z] = "ZOMBIE"
               \/ state'[z] = "UNUSED" /\ parent[z] = proc /\ proc # 0
    <3>1. proc = p /\ p # 0 /\ state[p] = "RUNNING"
      BY <1>1, <2>4 DEF Wait, Running, Slots, IInv, RunningIsProc
    <3>2. CASE WaitReap(p)
      <4> PICK q \in Slots : /\ parent[q] = p
                             /\ state' = [state EXCEPT ![q] = "UNUSED"]
        BY <3>2 DEF WaitReap, FirstOf, Zombies, Children
      <4> QED
        BY <1>1, <2>0, <3>1
    <3>3. CASE WaitFail(p) \/ WaitBlock(p)
      BY <1>1, <2>0, <3>1, <3>3 DEF WaitFail, WaitBlock, SleepOn
    <3> QED
      BY <2>4, <3>2, <3>3 DEF Wait
  <2>5. CASE \E p \in Slots, n \in 0 .. MaxPid : Kill(p, n)
    BY <1>1, <2>0, <2>5 DEF Kill
  <2>6. ASSUME NEW p \in Slots, NEW n \in 0 .. TickMod - 1, SysSleep(p, n)
        PROVE  state'[z] = "ZOMBIE"
    <3>1. state[p] = "RUNNING"
      BY <1>1, <2>6 DEF SysSleep, Running, IInv, RunningIsProc
    <3> QED
      BY <1>1, <2>0, <2>6, <3>1 DEF SysSleep, SleepLoop, SleepOn
  <2>7. CASE TimerIrq
    BY <1>1, <2>7 DEF TimerIrq, Woken
  <2>8. CASE \/ SchedWrap \/ ExitInit \/ PanicLoop \/ UNCHANGED vars
             \/ \E p \in Slots : Forkret(p)
    BY <1>1, <2>8 DEF SchedWrap, ExitInit, PanicLoop, Forkret, vars, slotVars
  <2> QED
    BY <1>1, <2>1, <2>2, <2>3, <2>4, <2>5, <2>6, <2>7, <2>8 DEF Next
<1>2. IInv /\ [Next]_vars =>
        [\A p \in Slots : state[p] = "ZOMBIE" =>
            \/ state'[p] = "ZOMBIE"
            \/ state'[p] = "UNUSED" /\ parent[p] = proc /\ proc # 0]_vars
  BY <1>1
<1> QED
  BY Invariance, <1>2, PTL DEF Spec, ZombieFinal
=============================================================================
