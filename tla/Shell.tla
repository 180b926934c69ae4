-------------------------------- MODULE Shell --------------------------------
(***************************************************************************)
(* The shell at work (usr/sh.c) under init (usr/init.c): the processes a   *)
(* command line becomes, their descriptors and the pipes between them.     *)
(* What runs at the leaves of a command is cat (usr/cat.c).  The kernel's  *)
(* fork, pipe, wait and exit are here what Proc.tla and Pipe.tla promise.  *)
(* A pipe is named by the line and by the position in the command of the   *)
(* PIPE node that made it.                                                 *)
(*                                                                         *)
(* Calls that change only the caller's own descriptors (close, dup, pipe)  *)
(* do not give up the CPU, so a run of them is one step.                   *)
(***************************************************************************)
EXTENDS ShellParse, FiniteSets, FiniteSetsExt, TLC

CONSTANTS NPROC,      \* process slots; init has slot 0
          First,      \* what may be typed as the first line
          Later,      \* and as a later one
          MaxLines,   \* bound on the lines typed
          MaxChunks,  \* bound on what a program gets from a file or the console
          MaxFaults   \* bound on calls of fork, exec and open that fail

VARIABLES proc, lines, tree, full, faults

vars == <<proc, lines, tree, full, faults>>

Slots == 0 .. NPROC - 1
init == 0
Fds == 0 .. 4

\* What a descriptor stands for.
Closed == << >>
Console == <<"console">>
File(name) == <<"file", name>>
End(e, line, path) == <<e, line, path>>     \* end "r" or "w" of a pipe

Std == [f \in Fds |-> IF f <= 2 THEN Console ELSE Closed]
NoFds == [f \in Fds |-> Closed]
Free == [pc |-> "free", par |-> init, line |-> 0, path |-> << >>, fds |-> NoFds, n |-> 0]

Init ==
    /\ proc = [p \in Slots |-> IF p = init
                               THEN [Free EXCEPT !.pc = "start", !.fds = Std] ELSE Free]
    /\ lines = << >>
    /\ tree = << >>
    /\ full = {}
    /\ faults = MaxFaults

\* init's exit() is a kernel panic.
Halted == proc[init].pc = "zombie"

-----------------------------------------------------------------------------
(* Kernel calls, on the process table pr.                                   *)

FreeSlots(pr) == {p \in Slots : pr[p].pc = "free"}

LowestFree(fds) == Min({f \in Fds : fds[f] = Closed})
Dup(fds, f) == [fds EXCEPT ![LowestFree(fds)] = fds[f]]
Open(fds, obj) == [fds EXCEPT ![LowestFree(fds)] = obj]
Close(fds, fs) == [f \in Fds |-> IF f \in fs THEN Closed ELSE fds[f]]

\* Does some process have obj open?
Held(obj) == \E p \in Slots, f \in Fds : proc[p].fds[f] = obj

\* fork(): the child is a copy of p but for where it runs.
Forked(p, at, path, parentAt) ==
    LET c == Min(FreeSlots(proc))
    IN  [proc EXCEPT ![p].pc = parentAt,
                     ![c] = [proc[p] EXCEPT !.pc = at, !.path = path, !.par = p, !.n = 0]]

\* exit(): descriptors closed, children handed to init.
Exited(p) ==
    [q \in Slots |->
        IF q = p THEN [Free EXCEPT !.pc = "zombie", !.par = proc[p].par]
        ELSE IF proc[q].pc # "free" /\ proc[q].par = p THEN [proc[q] EXCEPT !.par = init]
        ELSE proc[q]]

Exit(p) == proc' = Exited(p) /\ UNCHANGED <<lines, tree, full, faults>>

\* A call that may fail does so, and p exits.
Fails(p) == /\ faults > 0
            /\ faults' = faults - 1
            /\ proc' = Exited(p)
            /\ UNCHANGED <<lines, tree, full>>

\* fork() fails without a slot, and may fail with one; its caller exits.
ForkFails(p) ==
    /\ FreeSlots(proc) = {} \/ faults > 0
    /\ faults' = IF FreeSlots(proc) = {} THEN faults ELSE faults - 1
    /\ proc' = Exited(p)
    /\ UNCHANGED <<lines, tree, full>>

\* fork1() panics, and so exits, when there is no child.
fork1(p, at, path, parentAt) ==
    \/ /\ FreeSlots(proc) # {}
       /\ proc' = Forked(p, at, path, parentAt)
       /\ UNCHANGED <<lines, tree, full, faults>>
    \/ ForkFails(p)

\* wait(): the first dead child in the table is freed; p goes on at at, in the
\* command at path.  Whoever waits here has a child.
Dead(p) == {c \in Slots : proc[c].pc = "zombie" /\ proc[c].par = p}
Reap(p, at, path) ==
    /\ Dead(p) # {}
    /\ proc' = [proc EXCEPT ![p].pc = at, ![p].path = path, ![Min(Dead(p))] = Free]
    /\ UNCHANGED <<lines, tree, full, faults>>

-----------------------------------------------------------------------------
(* init                                                                     *)

\* n of init is the slot of the shell it waits for.
InitForks ==
    /\ proc[init].pc = "start"
    /\ \/ /\ FreeSlots(proc) # {}
          /\ proc' = [Forked(init, "sh", << >>, "wait") EXCEPT
                        ![init].n = Min(FreeSlots(proc))]
          /\ UNCHANGED <<lines, tree, full, faults>>
       \/ ForkFails(init)

InitReaps ==
    /\ proc[init].pc = "wait" /\ Dead(init) # {}
    /\ Reap(init, IF Min(Dead(init)) = proc[init].n THEN "start" ELSE "wait", << >>)

\* init's child becomes the shell, whose main() finds descriptors 0 to 2 open.
ExecSh(p) ==
    /\ proc[p].pc = "sh"
    /\ \/ /\ proc' = [proc EXCEPT ![p].pc = "prompt"]
          /\ UNCHANGED <<lines, tree, full, faults>>
       \/ Fails(p)

-----------------------------------------------------------------------------
(* main() of the shell                                                      *)

\* A line is typed and a child made for it.
ReadLine(p) ==
    /\ proc[p].pc = "prompt"
    /\ Len(lines) < MaxLines
    /\ \E s \in IF lines = << >> THEN First ELSE Later :
          lines' = Append(lines, s)
    /\ proc' = [proc EXCEPT ![p].pc = "fork", ![p].line = Len(lines) + 1]
    /\ UNCHANGED <<tree, full, faults>>

\* getcmd() returns -1 at end of file.
ReadEof(p) ==
    /\ proc[p].pc = "prompt"
    /\ Len(lines) < MaxLines
    /\ lines' = Append(lines, <<"EOF">>)
    /\ proc' = Exited(p)
    /\ UNCHANGED <<tree, full, faults>>

MainFork(p) ==
    /\ proc[p].pc = "fork"
    /\ fork1(p, "parse", << >>, "wait1")

MainWait(p) ==
    /\ proc[p].pc = "wait1"
    /\ Reap(p, "prompt", << >>)

\* parsecmd() of every line that may be typed; @@ makes TLC tabulate it.
Commands == [s \in First \cup Later |-> parsecmd(s)] @@ << >>

\* The child parses the line; on a syntax error it exits.
Parse(p) ==
    /\ proc[p].pc = "parse"
    /\ \E t \in {Commands[lines[proc[p].line]]} :
          /\ tree' = tree @@ (proc[p].line :> t)
          /\ proc' = IF t.ok THEN [proc EXCEPT ![p].pc = "runcmd"] ELSE Exited(p)
    /\ UNCHANGED <<lines, full, faults>>

-----------------------------------------------------------------------------
(* runcmd()                                                                 *)

\* The command at node path of c: 1 is its left or only part, 2 its right one.
RECURSIVE Sub(_, _)
Sub(c, path) ==
    IF path = << >> THEN c
    ELSE Sub(CASE c.type \in {"REDIR", "BACK"} -> c.cmd
               [] Head(path) = 1 -> c.left
               [] OTHER -> c.right, Tail(path))

CmdOf(p) == Sub(tree[proc[p].line].cmd, proc[p].path)
PartOf(p, k) == Append(proc[p].path, k)
At(p, pc, type) == proc[p].pc = pc /\ CmdOf(p).type = type

\* exec() keeps the descriptors.  Without it the process exits.
RunExec(p) ==
    /\ At(p, "runcmd", "EXEC")
    /\ IF CmdOf(p).argv = << >> THEN Exit(p)
       ELSE \/ /\ proc' = [proc EXCEPT ![p].pc = "read"]
               /\ UNCHANGED <<lines, tree, full, faults>>
            \/ Fails(p)

RunRedir(p) ==
    /\ At(p, "runcmd", "REDIR")
    /\ \/ /\ proc' = [proc EXCEPT ![p].fds = Open(Close(@, {CmdOf(p).fd}), File(CmdOf(p).file)),
                                  ![p].path = PartOf(p, 1)]
          /\ UNCHANGED <<lines, tree, full, faults>>
       \/ Fails(p)

RunList(p) ==
    /\ At(p, "runcmd", "LIST")
    /\ fork1(p, "runcmd", PartOf(p, 1), "list")

ListWait(p) ==
    /\ proc[p].pc = "list"
    /\ Reap(p, "runcmd", PartOf(p, 2))

RunBack(p) ==
    /\ At(p, "runcmd", "BACK")
    /\ fork1(p, "runcmd", PartOf(p, 1), "exit")

\* pipe(): p[0] and p[1] are the two lowest free descriptors.
RunPipe(p) ==
    /\ At(p, "runcmd", "PIPE")
    /\ \/ /\ proc' = [proc EXCEPT ![p].pc = "fork1",
                        ![p].fds = Open(Open(@, End("r", proc[p].line, proc[p].path)),
                                        End("w", proc[p].line, proc[p].path))]
          /\ UNCHANGED <<lines, tree, full, faults>>
       \/ Fails(p)

\* Descriptor p[0] or p[1] of the pipe that the PIPE node path made.
P(p, e, path) == CHOOSE f \in Fds : f > 2 /\ proc[p].fds[f] = End(e, proc[p].line, path)
Both(p, path) == {P(p, "r", path), P(p, "w", path)}

PipeFork1(p) == proc[p].pc = "fork1" /\ fork1(p, "left", PartOf(p, 1), "fork2")
PipeFork2(p) == proc[p].pc = "fork2" /\ fork1(p, "right", PartOf(p, 2), "close")

\* Mutant: the child keeps the pipe's own descriptors.
PlumbKeeps(p, e, n) ==
    LET path == SubSeq(proc[p].path, 1, Len(proc[p].path) - 1)
    IN  /\ proc' = [proc EXCEPT ![p].pc = "runcmd",
                      ![p].fds = Dup(Close(@, {n}), P(p, e, path))]
        /\ UNCHANGED <<lines, tree, full, faults>>

\* A child puts its end of the pipe in place of descriptor n.
Plumb(p, e, n) ==
    LET path == SubSeq(proc[p].path, 1, Len(proc[p].path) - 1)
    IN  /\ proc' = [proc EXCEPT ![p].pc = "runcmd",
                      ![p].fds = Close(Dup(Close(@, {n}), P(p, e, path)), Both(p, path))]
        /\ UNCHANGED <<lines, tree, full, faults>>

PlumbLeft(p) == proc[p].pc = "left" /\ Plumb(p, "w", 1)
PlumbRight(p) == proc[p].pc = "right" /\ Plumb(p, "r", 0)

\* Mutant: the parent waits with the write end open.
PipeCloseRead(p) ==
    /\ proc[p].pc = "close"
    /\ proc' = [proc EXCEPT ![p].pc = "pipewait",
                            ![p].fds = Close(@, {P(p, "r", proc[p].path)})]
    /\ UNCHANGED <<lines, tree, full, faults>>

PipeClose(p) ==
    /\ proc[p].pc = "close"
    /\ proc' = [proc EXCEPT ![p].pc = "pipewait", ![p].fds = Close(@, Both(p, proc[p].path))]
    /\ UNCHANGED <<lines, tree, full, faults>>

\* Two calls of wait().
PipeWait(p) ==
    \/ proc[p].pc = "pipewait" /\ Reap(p, "pipewait2", proc[p].path)
    \/ proc[p].pc = "pipewait2" /\ Reap(p, "exit", proc[p].path)

RunExit(p) == proc[p].pc = "exit" /\ Exit(p)

-----------------------------------------------------------------------------
(* cat                                                                      *)

\* With an argument cat reads that file.
Source(p) == IF Len(CmdOf(p).argv) = 1 THEN proc[p].fds[0] ELSE File(CmdOf(p).argv[2])

\* The other end of the pipe.
Peer(obj) == [obj EXCEPT ![1] = IF @ = "r" THEN "w" ELSE "r"]

Goto(p, pc) == proc' = [proc EXCEPT ![p].pc = pc]

\* read() of a pipe sleeps while it is empty and has a writer.
CatReadPipe(p) ==
    /\ proc[p].pc = "read"
    /\ Source(p)[1] = "r"
    /\ \/ /\ Source(p) \in full
          /\ full' = full \ {Source(p)}
          /\ Goto(p, "write")
          /\ UNCHANGED <<lines, tree, faults>>
       \/ Source(p) \notin full /\ ~Held(Peer(Source(p))) /\ Exit(p)

\* read() returns something, or the end of file.
CatGets(p) ==
    \/ /\ proc[p].n < MaxChunks
       /\ proc' = [proc EXCEPT ![p].pc = "write", ![p].n = @ + 1]
       /\ UNCHANGED <<lines, tree, full, faults>>
    \/ Exit(p)

CatReadFile(p) == proc[p].pc = "read" /\ Source(p)[1] = "file" /\ CatGets(p)

\* read() of the console sleeps until a line or ^D is typed.
AtConsole(p) == proc[p].pc = "read" /\ Source(p) = Console
CatReadConsole(p) == AtConsole(p) /\ CatGets(p)

\* write() to a pipe sleeps while it is full and has a reader; cat does not
\* look at what write() returns.
CatWrite(p) ==
    /\ proc[p].pc = "write"
    /\ Goto(p, "read")
    /\ IF proc[p].fds[1][1] = "w"
       THEN \/ ~Held(Peer(proc[p].fds[1])) /\ UNCHANGED full
            \/ /\ Held(Peer(proc[p].fds[1])) /\ Peer(proc[p].fds[1]) \notin full
               /\ full' = full \cup {Peer(proc[p].fds[1])}
       ELSE UNCHANGED full
    /\ UNCHANGED <<lines, tree, faults>>

-----------------------------------------------------------------------------
Step(p) ==
    \/ ExecSh(p) \/ MainFork(p) \/ Parse(p)
    \/ RunExec(p) \/ RunRedir(p) \/ RunList(p) \/ RunBack(p)
    \/ RunPipe(p) \/ PipeFork1(p) \/ PipeFork2(p)
    \/ PlumbLeft(p) \/ PlumbRight(p) \/ PipeClose(p) \/ RunExit(p)
    \/ CatReadPipe(p) \/ CatReadFile(p) \/ CatWrite(p)
    \/ MainWait(p) \/ ListWait(p) \/ PipeWait(p)

InitStep == InitForks \/ InitReaps

\* What waits for somebody to type.
Typed(p) == ReadLine(p) \/ ReadEof(p) \/ CatReadConsole(p)

Next ==
    \/ ~Halted /\ InitStep
    \/ \E p \in Slots : ~Halted /\ (Step(p) \/ Typed(p))

\* The scheduler runs every process that can go on (Proc.tla, RunnableRuns);
\* nothing makes anyone type, at the prompt or to a program.
Spec ==
    /\ Init /\ [][Next]_vars
    /\ WF_vars(~Halted /\ InitStep)
    /\ \A p \in Slots : WF_vars(~Halted /\ Step(p))

-----------------------------------------------------------------------------
(* Properties                                                               *)

\* The parser (parsecmd() and below) accepts exactly the lines of the grammar,
\* and the command it builds has the structure of the line.
ParseExact ==
    [][\A k \in DOMAIN tree' \ DOMAIN tree :
          IF tree'[k].ok THEN Line({tree'[k].cmd}, lines[k]) ELSE ~Line({}, lines[k])]_vars

\* What the program at node path of c should have as descriptors 0 and 1 when
\* the command at node at has io: the innermost redirection counts, a pipe
\* joins its two sides, and everything else is inherited.
RECURSIVE Wiring(_, _, _, _, _)
Wiring(c, line, at, path, io) ==
    IF path = at THEN io
    ELSE LET k == path[Len(at) + 1]
             next == Append(at, k)
             in == IF c.type = "REDIR" /\ c.fd = 0 THEN File(c.file)
                   ELSE IF c.type = "PIPE" /\ k = 2 THEN End("r", line, at) ELSE io[1]
             out == IF c.type = "REDIR" /\ c.fd = 1 THEN File(c.file)
                    ELSE IF c.type = "PIPE" /\ k = 1 THEN End("w", line, at) ELSE io[2]
         IN  Wiring(Sub(c, <<k>>), line, next, path, <<in, out>>)

\* A program starts with the descriptors the command line says, and no others:
\* runcmd()'s close(), dup() and open() meet the right numbers, and no end of
\* a pipe is left open in a process that has no use for it.
Wired ==
    \A p \in Slots : proc[p].pc \in {"read", "write"} =>
        \E io \in {Wiring(tree[proc[p].line].cmd, proc[p].line, << >>, proc[p].path,
                          <<Console, Console>>)} :
            proc[p].fds = [Std EXCEPT ![0] = io[1], ![1] = io[2]]

\* p cannot go on before q does: it is in wait() and q is a child of it, or it
\* is in read() of an empty or write() of a full pipe and q has the other end.
WaitsFor(p, q) ==
    \/ /\ proc[p].pc \in {"wait1", "list", "pipewait", "pipewait2"}
       /\ proc[q].par = p /\ proc[q].pc \notin {"free", "zombie"}
    \/ /\ proc[p].pc = "read" /\ Source(p)[1] = "r" /\ Source(p) \notin full
       /\ \E f \in Fds : proc[q].fds[f] = Peer(Source(p))
    \/ /\ proc[p].pc = "write" /\ Peer(proc[p].fds[1]) \in full
       /\ \E f \in Fds : proc[q].fds[f] = Peer(proc[p].fds[1])

\* The processes of S, and all that wait for them, one for the other.
RECURSIVE Behind(_)
Behind(S) ==
    LET T == S \cup {p \in Slots : \E q \in S : WaitsFor(p, q)}
    IN  IF T = S THEN S ELSE Behind(T)

\* When no more is typed, every command comes to its end and the shell to its
\* prompt, unless a program of the command reads the console; then no process
\* is left but those that wait for this program.  Every reader of a pipe sees
\* its end of file, every wait() in runcmd() and main() gets its child, and
\* init collects the orphans that BACK and a failing fork1() leave behind.
CommandsFinish ==
    <>[](Halted \/ \A p \in (Slots \ {init}) \ Behind({q \in Slots : AtConsole(q)}) :
                      proc[p].pc \in {"free", "prompt"})
=============================================================================
