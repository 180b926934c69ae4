-------------------------------- MODULE Cpu ---------------------------------
(***************************************************************************)
(* The processor as the kernel uses it: the interrupt mask and its nesting *)
(* (arm.c), spin locks (spinlock.c), the banked spsr of the supervisor     *)
(* mode, entry and return of traps (trap_asm.S) and the switch between     *)
(* scheduler() and processes (proc.c, swtch.S).                            *)
(*                                                                         *)
(* A run of statements with interrupts off is one step or a few; where     *)
(* interrupts are open each statement is a step of its own, and an         *)
(* interrupt, from its entry to its return, may come before it.            *)
(***************************************************************************)
EXTENDS Integers, FiniteSets

CONSTANT NPROC

ASSUME CpuAssumption == NPROC \in Nat \ {0}

Procs == 1 .. NPROC
SCHED == 0          \* the context of scheduler()

VARIABLES
    cpu,     \* mode, interrupts off, ncli, intena, locks held, failed check (or "none")
    spsr,    \* spsr_svc
    on,      \* the context that runs
    pc,      \* where each process goes on
    scan,    \* where scheduler() is: 0 before sti(), then the slot it looks at
    pstate,  \* state of each process
    frame,   \* spsr in the trap frame of each process
    saved    \* intena, a local variable of sched()

cpuVars == <<cpu, spsr, on, pc, scan, pstate, frame, saved>>

User == [mode |-> "USR", off |-> FALSE]

-----------------------------------------------------------------------------
(* arm.c and spinlock.c, as functions of the processor's state.  The checks *)
(* of acquire() and release() are compiled out, the others are panics.      *)

Check(c, ok, msg) == IF c.err # "none" \/ ok THEN c.err ELSE msg

pushcli(c) ==
    [c EXCEPT !.off = TRUE,
              !.ncli = @ + 1,
              !.intena = IF c.ncli = 0 THEN ~c.off ELSE @]

\* Mutant: popcli() opens interrupts inside of another section.
popcliEager(c) ==
    [c EXCEPT !.err = Check(c, c.off /\ c.ncli > 0, "popcli"),
              !.ncli = @ - 1,
              !.off = ~c.intena]

popcli(c) ==
    [c EXCEPT !.err = Check(c, c.off /\ c.ncli > 0, "popcli"),
              !.ncli = @ - 1,
              !.off = @ /\ ~(c.ncli = 1 /\ c.intena)]

acquire(c, l) ==
    pushcli([c EXCEPT !.err = Check(c, l \notin c.locked, "acquire"),
                      !.locked = @ \cup {l}])

release(c, l) ==
    popcli([c EXCEPT !.err = Check(c, l \in c.locked, "release"),
                     !.locked = @ \ {l}])

\* The tests at the start of sched(), with p's state changed already.
schedChecks(c) ==
    [c EXCEPT !.err = Check(c, "ptable" \in c.locked /\ c.ncli = 1 /\ c.off, "sched")]

-----------------------------------------------------------------------------
(* Traps. *)

\* The processor after it took a trap.
InTrap == [cpu EXCEPT !.mode = "SVC", !.off = TRUE]

\* SWI: the processor saves cpsr in spsr_svc, trap_swi saves that in the trap
\* frame, and the system call starts at l.
Swi(p, l) ==
    /\ on = p /\ pc[p] = "user" /\ cpu.err = "none"
    /\ spsr' = [mode |-> cpu.mode, off |-> cpu.off]
    /\ frame' = [frame EXCEPT ![p] = [mode |-> cpu.mode, off |-> cpu.off]]
    /\ pc' = [pc EXCEPT ![p] = l]

\* trapret writes spsr back ...
TrapretMsr(p) ==
    /\ on = p /\ pc[p] = "trapret" /\ cpu.err = "none"
    /\ spsr' = frame[p]
    /\ pc' = [pc EXCEPT ![p] = "ldm"]
    /\ UNCHANGED <<cpu, on, scan, pstate, frame, saved>>

\* ... and its last instruction returns to the program and copies spsr to cpsr.
TrapretLdm(p) ==
    /\ on = p /\ pc[p] = "ldm" /\ cpu.err = "none"
    /\ cpu' = [cpu EXCEPT !.mode = spsr.mode, !.off = spsr.off]
    /\ pc' = [pc EXCEPT ![p] = "user"]
    /\ UNCHANGED <<spsr, on, scan, pstate, frame, saved>>

\* An interrupt: trap_irq saves cpsr in its frame and goes to SVC mode, the
\* handler leaves the processor in state c, and trapret returns through
\* spsr_svc, which keeps the interrupted cpsr.
Irq(c) ==
    /\ ~cpu.off /\ cpu.err = "none"
    /\ spsr' = [mode |-> cpu.mode, off |-> cpu.off]
    /\ cpu' = [c EXCEPT !.mode = cpu.mode, !.off = cpu.off]
    /\ UNCHANGED <<on, pc, scan, frame, saved>>

-----------------------------------------------------------------------------
(* The context switch. *)

\* scheduler() takes ptable.lock and closes interrupts ...
SchedAcquire ==
    /\ on = SCHED /\ scan = 0 /\ cpu.err = "none"
    /\ cpu' = acquire(cpu, "ptable")
    /\ scan' = 1
    /\ UNCHANGED <<spsr, on, pc, pstate, frame, saved>>

\* ... switches to the next RUNNABLE process ...
SchedSwitch(p) ==
    /\ on = SCHED /\ scan > 0 /\ cpu.err = "none"
    /\ p >= scan /\ pstate[p] = "RUNNABLE"
    /\ \A q \in scan .. p - 1 : pstate[q] # "RUNNABLE"
    /\ cpu' = popcli(pushcli(cpu))                  \* switchuvm()
    /\ pstate' = [pstate EXCEPT ![p] = "RUNNING"]
    /\ on' = p
    /\ scan' = p + 1
    /\ UNCHANGED <<spsr, pc, frame, saved>>

\* ... and at the end of the table releases the lock and calls sti().
SchedRound ==
    /\ on = SCHED /\ scan > 0 /\ cpu.err = "none"
    /\ \A q \in scan .. NPROC : pstate[q] # "RUNNABLE"
    /\ cpu' = [release(cpu, "ptable") EXCEPT !.off = FALSE]
    /\ scan' = 0
    /\ UNCHANGED <<spsr, on, pc, pstate, frame, saved>>

\* sched() of process p, with the processor in state c; swtch() comes back
\* to l.
Sched(p, l, c) ==
    /\ cpu' = schedChecks(c)
    /\ saved' = [saved EXCEPT ![p] = c.intena]
    /\ pc' = [pc EXCEPT ![p] = l]
    /\ on' = SCHED

\* The processor after swtch() has come back into sched().
Resumed(p) == [cpu EXCEPT !.intena = saved[p]]

\* forkret(), where a new process starts.  The first one also calls initlog(),
\* before anyone else can run; what that does is in Log.
Forkret(p) ==
    /\ on = p /\ pc[p] = "forkret" /\ cpu.err = "none"
    /\ cpu' = release(cpu, "ptable")
    /\ pc' = [pc EXCEPT ![p] = "trapret"]
    /\ UNCHANGED <<spsr, on, scan, pstate, frame, saved>>

\* kmain() has called sti() and enters scheduler(); the processes are new.
CpuInit ==
    /\ cpu = [mode |-> "SVC", off |-> FALSE, ncli |-> 0, intena |-> FALSE,
              locked |-> {}, err |-> "none"]
    /\ spsr = User
    /\ on = SCHED /\ scan = 0
    /\ pc = [p \in Procs |-> "forkret"]
    /\ pstate = [p \in Procs |-> "RUNNABLE"]
    /\ frame = [p \in Procs |-> User]
    /\ saved = [p \in Procs |-> FALSE]

CpuStep ==
    \/ SchedAcquire \/ SchedRound
    \/ \E p \in Procs : SchedSwitch(p) \/ Forkret(p) \/ TrapretMsr(p) \/ TrapretLdm(p)
=============================================================================
