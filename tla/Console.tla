------------------------------ MODULE Console -------------------------------
(***************************************************************************)
(* The console's input, console.c: a ring between the interrupt handler    *)
(* consoleintr(), which edits the last line in it, and consoleread(),      *)
(* which sleeps until a line is complete; on the processor of Cpu.  One    *)
(* interrupt brings one character: several in one are several interrupts   *)
(* with nothing between them.                                              *)
(***************************************************************************)
EXTENDS Cpu, Sequences

CONSTANTS INPUT_BUF,  \* size of the ring; 512
          CMOD,       \* the counters count modulo CMOD; 2^32
          Typed,      \* the characters that come in
          Sizes       \* the sizes of reads

NL == "NL"
CtrlD == "^D"
CtrlU == "^U"
CtrlH == "^H"
CR == "CR"

ASSUME ConsoleAssumption ==
    /\ INPUT_BUF \in Nat \ {0} /\ CMOD \in Nat
    /\ CMOD % INPUT_BUF = 0 /\ CMOD > INPUT_BUF
    /\ Sizes \subseteq Nat \ {0}
    /\ NL \in Typed

VARIABLES buf, r, w, e,   \* input
          want,           \* the argument n of each process' read, 0 without one
          got,            \* what it has copied out
          killed

ring  == <<buf, r, w, e>>
reads == <<want, got>>
vars  == <<cpuVars, ring, reads, killed>>

Init ==
    /\ CpuInit
    /\ buf = [i \in 0 .. INPUT_BUF - 1 |-> NL]
    /\ r = 0 /\ w = 0 /\ e = 0
    /\ want = [p \in Procs |-> 0] /\ got = [p \in Procs |-> << >>]
    /\ killed = [p \in Procs |-> FALSE]

At(i) == buf[i % INPUT_BUF]

\* wakeup(&input.r) and kill(): sleepers become RUNNABLE.
Woken(S) == [p \in Procs |-> IF p \in S /\ pstate[p] = "SLEEPING" THEN "RUNNABLE"
                             ELSE pstate[p]]

-----------------------------------------------------------------------------
(* isr_uart() and consoleintr(). *)

\* Backspace: not past the line's start.
Backspace ==
    /\ e' = IF e # w THEN (e - 1) % CMOD ELSE e
    /\ UNCHANGED <<buf, r, w>>
    /\ \E c \in {acquire(InTrap, "input")} : Irq(release(c, "input"))
    /\ UNCHANGED pstate

\* Kill line: back to the start of the line.
KillLine ==
    /\ \E n \in 0 .. (e - w) % CMOD :
         /\ \A i \in 1 .. n : At(e - i) # NL
         /\ n = (e - w) % CMOD \/ At(e - n - 1) = NL
         /\ e' = (e - n) % CMOD
    /\ UNCHANGED <<buf, r, w>>
    /\ \E c \in {acquire(InTrap, "input")} : Irq(release(c, "input"))
    /\ UNCHANGED pstate

\* Any other character, when there is room.
Store(c) ==
    /\ buf' = [buf EXCEPT ![e % INPUT_BUF] = c]
    /\ e' = (e + 1) % CMOD
    /\ UNCHANGED r

HasRoom == (e - r) % CMOD < INPUT_BUF

\* Mutant: a full ring does not complete the line.
CompletesNotFull(c) == c \in {NL, CtrlD}

\* The character completes the line.
Completes(c) == c \in {NL, CtrlD} \/ (e + 1) % CMOD = (r + INPUT_BUF) % CMOD

Insert(ch) ==
    \E c \in {IF ch = CR THEN NL ELSE ch}, a \in {acquire(InTrap, "input")} :
        \/ /\ HasRoom /\ Completes(c)
           /\ Store(c)
           /\ w' = (e + 1) % CMOD
           /\ pstate' = Woken(Procs)
           /\ \E b \in {acquire(a, "ptable")} :
              \E d \in {release(b, "ptable")} : Irq(release(d, "input"))
        \/ /\ HasRoom /\ ~Completes(c)
           /\ Store(c)
           /\ Irq(release(a, "input"))
           /\ UNCHANGED <<w, pstate>>
        \/ /\ ~HasRoom
           /\ Irq(release(a, "input"))
           /\ UNCHANGED <<ring, pstate>>

IrqUart(ch) ==
    /\ \/ ch = CtrlH /\ Backspace
       \/ ch = CtrlU /\ KillLine
       \/ ch \notin {CtrlH, CtrlU} /\ Insert(ch)
    /\ UNCHANGED <<reads, killed>>

\* isr_timer(); nobody here sleeps on &ticks.
IrqTimer ==
    /\ \E a \in {acquire(InTrap, "tickslock")} :
       \E b \in {acquire(a, "ptable")} :
       \E c \in {release(b, "ptable")} : Irq(release(c, "tickslock"))
    /\ UNCHANGED <<pstate, ring, reads, killed>>

-----------------------------------------------------------------------------
(* consoleread(), a system call. *)

SysRead(p, n) ==
    /\ Swi(p, "read")
    /\ cpu' = acquire(InTrap, "input")
    /\ want' = [want EXCEPT ![p] = n]
    /\ UNCHANGED <<on, scan, pstate, saved, ring, got, killed>>

\* n > 0, and the last character was not a newline.
Wanting(p) == /\ on = p /\ pc[p] = "read" /\ cpu.err = "none"
              /\ Len(got[p]) < want[p]
              /\ got[p] # << >> => got[p][Len(got[p])] # NL

ReadChar(p) ==
    /\ Wanting(p) /\ r # w /\ At(r) # CtrlD
    /\ got' = [got EXCEPT ![p] = Append(@, At(r))]
    /\ r' = (r + 1) % CMOD
    /\ UNCHANGED <<cpuVars, buf, w, e, want, killed>>

\* release(), and the system call returns.
Finish(p) ==
    /\ cpu' = release(cpu, "input")
    /\ pc' = [pc EXCEPT ![p] = "trapret"]
    /\ want' = [want EXCEPT ![p] = 0]
    /\ got' = [got EXCEPT ![p] = << >>]
    /\ UNCHANGED <<spsr, on, scan, pstate, frame, saved, killed>>

\* ^D is put back unless it is the first character of this read.
ReadEof(p) ==
    /\ Wanting(p) /\ r # w /\ At(r) = CtrlD
    /\ r' = IF got[p] = << >> THEN (r + 1) % CMOD ELSE r
    /\ Finish(p)
    /\ UNCHANGED <<buf, w, e>>

ReadDone(p) ==
    /\ on = p /\ pc[p] = "read" /\ cpu.err = "none" /\ ~Wanting(p)
    /\ Finish(p)
    /\ UNCHANGED ring

ReadKilled(p) ==
    /\ Wanting(p) /\ r = w /\ killed[p]
    /\ Finish(p)
    /\ UNCHANGED ring

\* sleep(&input.r, &input.lock)
ReadSleep(p) ==
    /\ Wanting(p) /\ r = w /\ ~killed[p]
    /\ \E c \in {acquire(cpu, "ptable")} : Sched(p, "slept", release(c, "input"))
    /\ pstate' = [pstate EXCEPT ![p] = "SLEEPING"]
    /\ UNCHANGED <<spsr, scan, frame, ring, reads, killed>>

ReadResume(p) ==
    /\ on = p /\ pc[p] = "slept" /\ cpu.err = "none"
    /\ \E c \in {release(Resumed(p), "ptable")} : cpu' = acquire(c, "input")
    /\ pc' = [pc EXCEPT ![p] = "read"]
    /\ UNCHANGED <<spsr, on, scan, pstate, frame, saved, ring, reads, killed>>

\* Mutant: the victim is marked and not woken.
SysKillNoWake(p, q) ==
    /\ Swi(p, "trapret")
    /\ \E c \in {acquire(InTrap, "ptable")} : cpu' = release(c, "ptable")
    /\ killed' = [killed EXCEPT ![q] = TRUE]
    /\ UNCHANGED <<on, scan, pstate, saved, ring, reads>>

\* kill(), the system call of another process.
SysKill(p, q) ==
    /\ Swi(p, "trapret")
    /\ \E c \in {acquire(InTrap, "ptable")} : cpu' = release(c, "ptable")
    /\ killed' = [killed EXCEPT ![q] = TRUE]
    /\ pstate' = Woken({q})
    /\ UNCHANGED <<on, scan, saved, ring, reads>>

-----------------------------------------------------------------------------
Next ==
    \/ CpuStep /\ UNCHANGED <<ring, reads, killed>>
    \/ IrqTimer
    \/ \E ch \in Typed : IrqUart(ch)
    \/ \E p \in Procs :
         \/ \E n \in Sizes : SysRead(p, n)
         \/ ReadChar(p) \/ ReadEof(p) \/ ReadDone(p) \/ ReadKilled(p)
         \/ ReadSleep(p) \/ ReadResume(p)
         \/ \E q \in Procs : SysKill(p, q)

Spec == Init /\ [][Next]_vars
-----------------------------------------------------------------------------
(* Properties. *)

\* The checks that acquire() and release() have only on paper, and those of
\* popcli() and sched(), never fail, whatever interrupt comes wherever
\* interrupts are open; a lock is only held with interrupts off and ncli
\* counts the locks: a handler can never wait for what it interrupted.
LocksSound ==
    /\ cpu.err = "none"
    /\ cpu.locked # {} => cpu.off
    /\ cpu.ncli = Cardinality(cpu.locked)

\* No reader sleeps in consoleread() while there is something to read, or
\* after it was killed: nothing comes between its test of the ring and its
\* sleep.
NoLostWakeup == \A p \in Procs : pstate[p] = "SLEEPING" => r = w /\ ~killed[p]

\* The characters from index i up to index j.
Between(i, j) == [n \in 1 .. (j - i) % CMOD |-> At(i + n - 1)]

Abs == INSTANCE ConsoleAbs
         WITH line <- Between(w, e), ready <- Between(r, w),
              Chars <- Typed, EOF <- CtrlD, Size <- INPUT_BUF

\* Readers get what was typed: each completed line once and in order, at most
\* one line by a read, with backspace and kill-line confined to the last line,
\* a full ring completing it, and ^D ending the read that meets it.
LineQueue == Abs!Spec

\* A program runs in user mode.
UserModeInUser == on # SCHED /\ pc[on] = "user" => cpu.mode = "USR"
=============================================================================
