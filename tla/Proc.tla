-------------------------------- MODULE Proc --------------------------------
(***************************************************************************)
(* The process table of proc.c: slots, the scheduler's scan, fork, exit,   *)
(* wait, kill, sleep/wakeup, and the timer tick with sys_sleep.            *)
(*                                                                         *)
(* One CPU, and nothing preempts the kernel: a system call enters with     *)
(* IRQs off (trap_asm.S) and gives the CPU up only inside sleep() or       *)
(* exit().  An action is therefore one stretch of kernel code between two  *)
(* such points; kpc[p] is where slot p resumes when it is scheduled.       *)
(* Interrupts are taken in user mode and in the window that scheduler()    *)
(* opens with sti() before it reacquires ptable.lock.                      *)
(***************************************************************************)
EXTENDS Naturals

CONSTANTS NPROC,     \* slots of ptable.proc
          MaxPid,    \* bound: fork is not tried once nextpid exceeds it
          TickMod    \* ticks is an unsigned counter modulo TickMod

ASSUME NPROCAssumption   == NPROC \in Nat /\ NPROC >= 1
ASSUME MaxPidAssumption  == MaxPid \in Nat /\ MaxPid >= 1
ASSUME TickModAssumption == TickMod \in Nat /\ TickMod >= 2

VARIABLES state,     \* p->state; EMBRYO never outlives fork()
          pid,       \* p->pid, 0 in a slot never used or reaped
          parent,    \* p->parent, a slot or 0
          chan,      \* p->chan: 0, a slot's address, or &ticks
          killed,    \* p->killed
          kstack,    \* the slot owns a kernel stack page
          pgdir,     \* the slot owns an address space
          kpc,       \* where the slot's kernel thread resumes
          ticks0,    \* sys_sleep's local ticks0
          nticks,    \* sys_sleep's argument n
          proc,      \* the running slot, 0 inside scheduler()
          scan,      \* scheduler()'s p; 0: in the sti() window
          nextpid,   \* the next pid to hand out
          ticks,     \* clock ticks since boot
          halted     \* panic() was called

slotVars == <<state, pid, parent, chan, killed, kstack, pgdir, kpc>>
vars == <<slotVars, ticks0, nticks, proc, scan, nextpid, ticks, halted>>

Slots    == 1 .. NPROC
initproc == 1               \* userinit() takes the first slot
TICKS    == NPROC + 1       \* &ticks, as a sleep channel

States == {"UNUSED", "SLEEPING", "RUNNABLE", "RUNNING", "ZOMBIE"}
Resume == {"forkret", "user", "wait", "sleep"}

\* q is the slot a table scan that looks for S stops at.
FirstOf(q, S) == q \in S /\ \A r \in S : q <= r

Children(p) == {q \in Slots : parent[q] = p}
Zombies(p)  == {q \in Children(p) : state[q] = "ZOMBIE"}
Unused      == {q \in Slots : state[q] = "UNUSED"}

\* userinit(): the first process, crafted by hand.
Init ==
    /\ state   = [p \in Slots |-> IF p = initproc THEN "RUNNABLE" ELSE "UNUSED"]
    /\ pid     = [p \in Slots |-> IF p = initproc THEN 1 ELSE 0]
    /\ parent  = [p \in Slots |-> 0]
    /\ chan    = [p \in Slots |-> 0]
    /\ killed  = [p \in Slots |-> FALSE]
    /\ kstack  = [p \in Slots |-> p = initproc]
    /\ pgdir   = [p \in Slots |-> p = initproc]
    /\ kpc     = [p \in Slots |-> "forkret"]
    /\ ticks0  = [p \in Slots |-> 0]
    /\ nticks  = [p \in Slots |-> 0]
    /\ proc    = 0
    /\ scan    = 0
    /\ nextpid = 2
    /\ ticks   = 0
    /\ halted  = FALSE

-----------------------------------------------------------------------------
\* scheduler(): interrupts are open only between two scans of the table.

RunnableFrom == {q \in Slots : state[q] = "RUNNABLE" /\ q >= scan}

\* Mutant: every scan starts over at the first slot.
SchedPickRestarts ==
    /\ ~halted /\ proc = 0
    /\ \E p \in Slots :
          /\ FirstOf(p, RunnableFrom)
          /\ proc'  = p
          /\ state' = [state EXCEPT ![p] = "RUNNING"]
    /\ UNCHANGED <<pid, parent, chan, killed, kstack, pgdir, kpc, ticks0,
                   nticks, scan, nextpid, ticks, halted>>

SchedPick ==
    /\ ~halted /\ proc = 0
    /\ \E p \in Slots :
          /\ FirstOf(p, RunnableFrom)
          /\ proc'  = p
          /\ state' = [state EXCEPT ![p] = "RUNNING"]
          /\ scan'  = p + 1
    /\ UNCHANGED <<pid, parent, chan, killed, kstack, pgdir, kpc, ticks0,
                   nticks, nextpid, ticks, halted>>

SchedWrap ==
    /\ ~halted /\ proc = 0 /\ scan # 0
    /\ RunnableFrom = {}
    /\ scan' = 0
    /\ UNCHANGED <<slotVars, ticks0, nticks, proc, nextpid, ticks, halted>>

\* p runs in the kernel on behalf of the user program, or just entered it.
Running(p, pcs) == ~halted /\ proc = p /\ kpc[p] \in pcs

Forkret(p) ==
    /\ Running(p, {"forkret"})
    /\ kpc' = [kpc EXCEPT ![p] = "user"]
    /\ UNCHANGED <<state, pid, parent, chan, killed, kstack, pgdir, ticks0,
                   nticks, proc, scan, nextpid, ticks, halted>>

\* wakeup1(): the state of q after the sleepers on the channels cs are woken.
Woken(q, cs) ==
    IF state[q] = "SLEEPING" /\ chan[q] \in cs THEN "RUNNABLE" ELSE state[q]

-----------------------------------------------------------------------------
\* fork() and allocproc(); oom is the allocation that fails.

\* Mutant: the kernel stack is not freed when copyuvm() fails.
ForkFailLeaks(np) ==
    /\ pid' = [pid EXCEPT ![np] = nextpid]
    /\ kstack' = [kstack EXCEPT ![np] = TRUE]
    /\ UNCHANGED <<state, parent, chan, killed, pgdir, kpc, halted>>

\* The slot is given back, but keeps the pid that allocproc() stored in it.
ForkFail(np) ==
    /\ pid' = [pid EXCEPT ![np] = nextpid]
    /\ UNCHANGED <<state, parent, chan, killed, kstack, pgdir, kpc, halted>>

ForkOk(p, np) ==
    /\ state'  = [state EXCEPT ![np] = "RUNNABLE"]
    /\ pid'    = [pid EXCEPT ![np] = nextpid]
    /\ parent' = [parent EXCEPT ![np] = p]
    /\ kstack' = [kstack EXCEPT ![np] = TRUE]
    /\ pgdir'  = [pgdir EXCEPT ![np] = TRUE]
    /\ kpc'    = [kpc EXCEPT ![np] = "forkret"]
    /\ UNCHANGED <<chan, killed, halted>>

\* kpt_alloc() panics instead of failing.
ForkPanic(np) ==
    /\ halted' = TRUE
    /\ UNCHANGED slotVars

\* Without an UNUSED slot fork() returns -1 and nothing changes.
Fork(p, oom) ==
    /\ Running(p, {"user"})
    /\ nextpid <= MaxPid
    /\ \E np \in Slots :
          /\ FirstOf(np, Unused)
          /\ \/ oom \in {"kstack", "pages"} /\ ForkFail(np)
             \/ oom = "kpt" /\ ForkPanic(np)
             \/ oom = "none" /\ ForkOk(p, np)
    /\ nextpid' = nextpid + 1
    /\ UNCHANGED <<ticks0, nticks, proc, scan, ticks>>

-----------------------------------------------------------------------------
\* exit(): wake the parent, hand the children to init, become a zombie.
\* Closing the files and the directory of the process belongs to other modules.

\* Mutant: the children keep pointing at the exited process.
ExitKeepsChildren(p) ==
    /\ Running(p, {"user"}) /\ p # initproc
    /\ state' = [q \in Slots |-> IF q = p THEN "ZOMBIE" ELSE Woken(q, {parent[p]})]
    /\ proc' = 0
    /\ UNCHANGED <<pid, parent, chan, killed, kstack, pgdir, kpc, ticks0, nticks,
                   scan, nextpid, ticks, halted>>

\* Mutant: the parent is not woken.
ExitNoParentWakeup(p) ==
    /\ Running(p, {"user"}) /\ p # initproc
    /\ state' = [state EXCEPT ![p] = "ZOMBIE"]
    /\ parent' = [q \in Slots |-> IF parent[q] = p THEN initproc ELSE parent[q]]
    /\ proc' = 0
    /\ UNCHANGED <<pid, chan, killed, kstack, pgdir, kpc, ticks0, nticks, scan,
                   nextpid, ticks, halted>>

\* Mutant: init is not told of the zombies it inherits.
ExitNoInitWakeup(p) ==
    /\ Running(p, {"user"}) /\ p # initproc
    /\ state' = [q \in Slots |-> IF q = p THEN "ZOMBIE" ELSE Woken(q, {parent[p]})]
    /\ parent' = [q \in Slots |-> IF parent[q] = p THEN initproc ELSE parent[q]]
    /\ proc' = 0
    /\ UNCHANGED <<pid, chan, killed, kstack, pgdir, kpc, ticks0, nticks, scan,
                   nextpid, ticks, halted>>

Exit(p) ==
    /\ Running(p, {"user"}) /\ p # initproc
    /\ LET cs == {parent[p]} \cup (IF Zombies(p) # {} THEN {initproc} ELSE {})
       IN  state' = [q \in Slots |-> IF q = p THEN "ZOMBIE" ELSE Woken(q, cs)]
    /\ parent' = [q \in Slots |-> IF parent[q] = p THEN initproc ELSE parent[q]]
    /\ proc' = 0
    /\ UNCHANGED <<pid, chan, killed, kstack, pgdir, kpc, ticks0, nticks, scan,
                   nextpid, ticks, halted>>

ExitInit ==
    /\ Running(initproc, {"user"})
    /\ halted' = TRUE
    /\ UNCHANGED <<slotVars, ticks0, nticks, proc, scan, nextpid, ticks>>

-----------------------------------------------------------------------------
\* sleep(c): the slot blocks and will resume at `at'.
SleepOn(p, c, at) ==
    /\ state' = [state EXCEPT ![p] = "SLEEPING"]
    /\ chan'  = [chan EXCEPT ![p] = c]
    /\ kpc'   = [kpc EXCEPT ![p] = at]
    /\ proc'  = 0

\* The system call returns: back to user mode, the sleep's chan tidied up.
Return(p) ==
    /\ chan' = [chan EXCEPT ![p] = 0]
    /\ kpc'  = [kpc EXCEPT ![p] = "user"]
    /\ proc' = proc

\* wait(), called from user mode or resumed after its sleep(proc).

WaitReap(p) ==
    /\ \E q \in Slots :
          /\ FirstOf(q, Zombies(p))
          /\ state'  = [state EXCEPT ![q] = "UNUSED"]
          /\ pid'    = [pid EXCEPT ![q] = 0]
          /\ parent' = [parent EXCEPT ![q] = 0]
          /\ killed' = [killed EXCEPT ![q] = FALSE]
          /\ kstack' = [kstack EXCEPT ![q] = FALSE]
          /\ pgdir'  = [pgdir EXCEPT ![q] = FALSE]
    /\ Return(p)

WaitFail(p) ==
    /\ Zombies(p) = {}
    /\ Children(p) = {} \/ killed[p]
    /\ Return(p)
    /\ UNCHANGED <<state, pid, parent, killed, kstack, pgdir>>

WaitBlock(p) ==
    /\ Zombies(p) = {} /\ Children(p) # {} /\ ~killed[p]
    /\ SleepOn(p, p, "wait")
    /\ UNCHANGED <<pid, parent, killed, kstack, pgdir>>

Wait(p) ==
    /\ Running(p, {"user", "wait"})
    /\ WaitReap(p) \/ WaitFail(p) \/ WaitBlock(p)
    /\ UNCHANGED <<ticks0, nticks, scan, nextpid, ticks, halted>>

-----------------------------------------------------------------------------
\* Mutant: the target is made runnable whatever its state.
KillWakesAll(p, n) ==
    /\ Running(p, {"user"})
    /\ \E q \in Slots \ {p} :
          /\ FirstOf(q, {r \in Slots : pid[r] = n})
          /\ killed' = [killed EXCEPT ![q] = TRUE]
          /\ state'  = [state EXCEPT ![q] = IF @ = "UNUSED" THEN @ ELSE "RUNNABLE"]
    /\ UNCHANGED <<pid, parent, chan, kstack, pgdir, kpc, ticks0, nticks, proc,
                   scan, nextpid, ticks, halted>>

\* kill(n): the first slot whose pid is n, whatever its state.

Kill(p, n) ==
    /\ Running(p, {"user"})
    /\ \E q \in Slots :
          /\ FirstOf(q, {r \in Slots : pid[r] = n})
          /\ killed' = [killed EXCEPT ![q] = TRUE]
          /\ state'  = [state EXCEPT ![q] = IF @ = "SLEEPING" THEN "RUNNABLE" ELSE @]
    /\ UNCHANGED <<pid, parent, chan, kstack, pgdir, kpc, ticks0, nticks, proc,
                   scan, nextpid, ticks, halted>>

-----------------------------------------------------------------------------
\* sys_sleep(n) and the clock.

\* ticks - t0, in unsigned arithmetic.
Elapsed(t0) == (ticks + TickMod - t0) % TickMod

\* The while loop of sys_sleep, entered with the locals t0 and n.
SleepLoop(p, t0, n) ==
    \/ /\ Elapsed(t0) < n /\ ~killed[p]
       /\ SleepOn(p, TICKS, "sleep")
       /\ ticks0' = [ticks0 EXCEPT ![p] = t0]
       /\ nticks' = [nticks EXCEPT ![p] = n]
    \/ /\ Elapsed(t0) >= n \/ killed[p]
       /\ Return(p)
       /\ ticks0' = [ticks0 EXCEPT ![p] = 0]
       /\ nticks' = [nticks EXCEPT ![p] = 0]
       /\ UNCHANGED state

SysSleep(p, n) ==
    /\ \/ Running(p, {"user"}) /\ SleepLoop(p, ticks, n)
       \/ Running(p, {"sleep"}) /\ n = nticks[p] /\ SleepLoop(p, ticks0[p], n)
    /\ UNCHANGED <<pid, parent, killed, kstack, pgdir, scan, nextpid, ticks,
                   halted>>

\* Interrupts are enabled: user mode, forkret, or the scheduler's window.
IrqOpen ==
    IF proc = 0 THEN scan = 0 ELSE kpc[proc] \in {"user", "forkret"}

\* Mutant: the sleepers are not woken.
TimerIrqNoWakeup ==
    /\ ~halted /\ IrqOpen
    /\ ticks' = (ticks + 1) % TickMod
    /\ UNCHANGED <<slotVars, ticks0, nticks, proc, scan, nextpid, halted>>

\* isr_timer(): one more tick, and the sleepers on it are woken.
TimerIrq ==
    /\ ~halted /\ IrqOpen
    /\ ticks' = (ticks + 1) % TickMod
    /\ state' = [q \in Slots |-> Woken(q, {TICKS})]
    /\ UNCHANGED <<pid, parent, chan, killed, kstack, pgdir, kpc, ticks0,
                   nticks, proc, scan, nextpid, halted>>

\* panic() spins forever with interrupts off.
PanicLoop == halted /\ UNCHANGED vars

-----------------------------------------------------------------------------
Next ==
    \/ SchedPick
    \/ SchedWrap
    \/ \E p \in Slots :
          \/ Forkret(p)
          \/ \E oom \in {"none", "kstack", "pages", "kpt"} : Fork(p, oom)
          \/ Exit(p)
          \/ Wait(p)
          \/ \E n \in 0 .. MaxPid : Kill(p, n)
          \/ \E n \in 0 .. TickMod - 1 : SysSleep(p, n)
    \/ ExitInit
    \/ TimerIrq
    \/ PanicLoop

Spec == Init /\ [][Next]_vars

-----------------------------------------------------------------------------
\* Safety.

\* Every variable of the process table stays in its range.
TypeOK ==
    /\ state   \in [Slots -> States]
    /\ pid     \in [Slots -> Nat]
    /\ parent  \in [Slots -> 0 .. NPROC]
    /\ chan    \in [Slots -> 0 .. TICKS]
    /\ killed  \in [Slots -> BOOLEAN]
    /\ kstack  \in [Slots -> BOOLEAN]
    /\ pgdir   \in [Slots -> BOOLEAN]
    /\ kpc     \in [Slots -> Resume]
    /\ ticks0  \in [Slots -> 0 .. TickMod - 1]
    /\ nticks  \in [Slots -> 0 .. TickMod - 1]
    /\ proc    \in 0 .. NPROC
    /\ scan    \in 0 .. NPROC + 1
    /\ nextpid \in Nat
    /\ ticks   \in 0 .. TickMod - 1
    /\ halted  \in BOOLEAN

\* The slot marked RUNNING is the one `proc' points at: each way into sched()
\* has changed p->state, and nobody else's state is ever set to RUNNING.
RunningIsProc ==
    \A p \in Slots : state[p] = "RUNNING" <=> proc = p

\* A process asleep in wait() still has something to wait for: a child, no
\* child that is already a zombie, and no kill it has not noticed.  exit()
\* must wake the parent, init for the zombies it inherits, and kill() its target.
NoLostWakeup ==
    \A p \in Slots : state[p] = "SLEEPING" /\ kpc[p] = "wait" =>
        Children(p) # {} /\ Zombies(p) = {} /\ ~killed[p]

\* A process asleep in sys_sleep() is not there when its time has come, also
\* when ticks has wrapped around meanwhile, and has no pending kill:
\* isr_timer() wakes every sleeper at every tick, and the loop looks again.
NoOversleep ==
    \A p \in Slots : state[p] = "SLEEPING" /\ kpc[p] = "sleep" =>
        /\ chan[p] = TICKS /\ ~killed[p]
        /\ ticks # (ticks0[p] + nticks[p]) % TickMod

\* Every process but init has a parent that can still call wait() for it, and
\* that is older than it, so that all parent chains end in init: exit() hands
\* the children over before the slot can be reused by wait() and fork().
FamilyTree ==
    /\ state[initproc] \notin {"UNUSED", "ZOMBIE"}
    /\ \A p \in Slots : state[p] # "UNUSED" /\ p # initproc =>
          /\ parent[p] \in Slots
          /\ state[parent[p]] \notin {"UNUSED", "ZOMBIE"}
          /\ pid[parent[p]] < pid[p]

\* No two slots hold the same pid, the stale pids of failed forks included, so
\* that kill(), which takes the first match, cannot hit a namesake.
UniquePids ==
    \A p, q \in Slots : pid[p] # 0 /\ pid[p] = pid[q] => p = q

\* A slot owns a kernel stack and an address space exactly while it is in use:
\* the error paths of fork() and the reaping in wait() leak and double-free nothing.
SlotResources ==
    \A p \in Slots : /\ kstack[p] <=> state[p] # "UNUSED"
                     /\ pgdir[p] <=> state[p] # "UNUSED"

\* A zombie is final: it is never made runnable again (not by kill(), not by a
\* wakeup), and only the process that is its parent at that moment frees it.
ZombieFinal ==
    [][\A p \in Slots : state[p] = "ZOMBIE" =>
          \/ state'[p] = "ZOMBIE"
          \/ state'[p] = "UNUSED" /\ parent[p] = proc /\ proc # 0]_vars

\* kill(pid) is "Kill the process with the given pid": a process that fork()
\* just created, whose pid nobody can have named yet, is not killed.
BornAlive ==
    [][\A p \in Slots :
          state[p] = "UNUSED" /\ state'[p] = "RUNNABLE" => ~killed'[p]]_vars

-----------------------------------------------------------------------------
\* Liveness.  The kernel's own steps are fair: the scheduler loops, and a
\* scheduled kernel thread runs.  Nothing preempts a user program (yield() has
\* no caller), so that it gives the CPU up now and then is assumed of programs.

GivesUpCpu(p) ==
    \/ Exit(p)
    \/ Wait(p) /\ proc' = 0
    \/ \E n \in 0 .. TickMod - 1 : SysSleep(p, n) /\ proc' = 0

KernelStep(p) ==
    \/ Forkret(p)
    \/ kpc[p] = "wait" /\ Wait(p)
    \/ kpc[p] = "sleep" /\ \E n \in 0 .. TickMod - 1 : SysSleep(p, n)

Fairness ==
    /\ WF_vars(SchedPick)
    /\ WF_vars(SchedWrap)
    /\ \A p \in Slots : WF_vars(KernelStep(p)) /\ WF_vars(GivesUpCpu(p))

LiveSpec == Spec /\ Fairness

\* The machine panicked, or init was killed: its wait() and sleep() then return
\* at once, it never exits, and it keeps the CPU for good.
Wedged == halted \/ killed[initproc]

\* The scheduler's scan starves nobody: a runnable process gets the CPU.
RunnableRuns ==
    \A p \in Slots :
        state[p] = "RUNNABLE" ~> (state[p] = "RUNNING" \/ Wedged)

\* A process in wait() that has a zombie child gets out of wait(), whether the
\* child exited while it slept or was inherited from an exiting process.
WaitReturns ==
    \A p \in Slots :
        (kpc[p] = "wait" /\ Zombies(p) # {}) ~> (kpc[p] = "user" \/ Wedged)
=============================================================================
