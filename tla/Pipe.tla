-------------------------------- MODULE Pipe --------------------------------
(***************************************************************************)
(* One pipe of pipe.c, shared by processes that inherit its ends by fork   *)
(* and close them.  An action runs a read, write or close until it returns *)
(* or sleeps: p->lock is held and interrupts are off in between.           *)
(***************************************************************************)
EXTENDS Naturals, Sequences

CONSTANTS Procs,
          Val,        \* bytes
          PIPESIZE,   \* bytes of p->data
          CMOD,       \* nread and nwrite are unsigned counters modulo CMOD
          MaxN        \* bound: the longest read or write

ASSUME PipeAssumption ==
    /\ PIPESIZE \in Nat /\ PIPESIZE >= 1
    /\ CMOD \in Nat /\ CMOD > PIPESIZE /\ CMOD % PIPESIZE = 0
    /\ MaxN \in Nat

VARIABLES data, nread, nwrite, readopen, writeopen,
          alloc,      \* the pipe's memory is allocated
          hasR, hasW, \* processes with a descriptor on the read, write end
          status,     \* where a process is: user mode, or inside the pipe
          left,       \* bytes its call still has to move
          killed,     \* proc->killed
          out         \* the bytes the last read returned

vars == <<data, nread, nwrite, readopen, writeopen, alloc, hasR, hasW, status,
          left, killed, out>>

Index  == 0 .. PIPESIZE - 1
Status == {"user", "rsleep", "rrun", "wsleep", "wrun"}

Count == (nwrite + CMOD - nread) % CMOD
Empty == nread = nwrite
IsFull == nwrite = (nread + PIPESIZE) % CMOD

\* Bytes that can be stored before nwrite = nread + PIPESIZE.
Room == PIPESIZE - Count

Smaller(a, b) == IF a <= b THEN a ELSE b

Init ==
    /\ data \in [Index -> Val]
    /\ nread = 0 /\ nwrite = 0
    /\ readopen = FALSE /\ writeopen = FALSE
    /\ alloc = FALSE
    /\ hasR = {} /\ hasW = {}
    /\ status = [p \in Procs |-> "user"]
    /\ left = [p \in Procs |-> 0]
    /\ killed = {}
    /\ out = <<>>

\* wakeup() of the sleepers in state from, in the status function st.
Wake(st, from, to) == [p \in Procs |-> IF st[p] = from THEN to ELSE st[p]]
WakeReaders(st) == Wake(st, "rsleep", "rrun")
WakeWriters(st) == Wake(st, "wsleep", "wrun")

-----------------------------------------------------------------------------
\* sys_pipe() and pipealloc(), when two files, two descriptors and the memory are
\* to be had; without them nothing changes.
PipeAlloc(p) ==
    /\ ~alloc /\ status[p] = "user"
    /\ alloc' = TRUE
    /\ readopen' = TRUE /\ writeopen' = TRUE
    /\ nread' = 0 /\ nwrite' = 0
    /\ hasR' = {p} /\ hasW' = {p}
    /\ out' = <<>>
    /\ UNCHANGED <<data, status, left, killed>>

\* fork(): a fresh process q inherits p's descriptors.
Inherit(p, q) ==
    /\ status[p] = "user" /\ status[q] = "user"
    /\ q \notin hasR \cup hasW
    /\ p \in hasR \cup hasW
    /\ hasR' = IF p \in hasR THEN hasR \cup {q} ELSE hasR
    /\ hasW' = IF p \in hasW THEN hasW \cup {q} ELSE hasW
    /\ killed' = killed \ {q}
    /\ UNCHANGED <<data, nread, nwrite, readopen, writeopen, alloc, status,
                   left, out>>

\* Mutant: the writers are not woken.
PipeCloseReadSilent ==
    /\ readopen' = FALSE
    /\ alloc' = writeopen
    /\ out' = IF writeopen THEN out ELSE <<>>
    /\ UNCHANGED status

\* Mutant: the readers are not woken.
PipeCloseWriteSilent ==
    /\ writeopen' = FALSE
    /\ alloc' = readopen
    /\ out' = IF readopen THEN out ELSE <<>>
    /\ UNCHANGED status

\* Mutant: the memory is freed with the read end still open.
PipeCloseWriteFrees ==
    /\ writeopen' = FALSE
    /\ status' = WakeReaders(status)
    /\ alloc' = FALSE
    /\ out' = <<>>

\* pipeclose() of one end: clear its flag, wake the other side, and free the
\* memory once both flags are clear.
PipeCloseRead ==
    /\ readopen' = FALSE
    /\ status' = WakeWriters(status)
    /\ alloc' = writeopen
    /\ out' = IF writeopen THEN out ELSE <<>>

PipeCloseWrite ==
    /\ writeopen' = FALSE
    /\ status' = WakeReaders(status)
    /\ alloc' = readopen
    /\ out' = IF readopen THEN out ELSE <<>>

\* fileclose() calls pipeclose() for the last descriptor of an end only.
CloseRead(p) ==
    /\ status[p] = "user" /\ p \in hasR
    /\ hasR' = hasR \ {p}
    /\ IF hasR = {p} THEN PipeCloseRead
                     ELSE UNCHANGED <<readopen, status, alloc, out>>
    /\ UNCHANGED <<data, nread, nwrite, writeopen, hasW, left, killed>>

CloseWrite(p) ==
    /\ status[p] = "user" /\ p \in hasW
    /\ hasW' = hasW \ {p}
    /\ IF hasW = {p} THEN PipeCloseWrite
                     ELSE UNCHANGED <<writeopen, status, alloc, out>>
    /\ UNCHANGED <<data, nread, nwrite, readopen, hasR, left, killed>>

-----------------------------------------------------------------------------
\* The ring after the bytes s are stored from nwrite on.
Stored(s) ==
    [x \in Index |->
        IF \E k \in 1 .. Len(s) : (nwrite + k - 1) % PIPESIZE = x
        THEN s[CHOOSE k \in 1 .. Len(s) : (nwrite + k - 1) % PIPESIZE = x]
        ELSE data[x]]

\* pipewrite() of n more bytes, up to its return or its sleep.
WriteBody(p, n) ==
    \E s \in [1 .. Smaller(n, Room) -> Val] :
        LET m == Len(s) IN
        /\ data' = Stored(s)
        /\ nwrite' = (nwrite + m) % CMOD
        /\ left' = [left EXCEPT ![p] = IF m < n /\ readopen THEN n - m ELSE 0]
        /\ status' =
              CASE m = n             -> [WakeReaders(status) EXCEPT ![p] = "user"]
                [] m < n /\ readopen -> [WakeReaders(status) EXCEPT ![p] = "wsleep"]
                [] OTHER             -> [status EXCEPT ![p] = "user"]
        /\ UNCHANGED <<nread, readopen, writeopen, alloc, hasR, hasW, killed, out>>

PipeWrite(p, n) ==
    \/ status[p] = "user" /\ p \in hasW /\ WriteBody(p, n)
    \/ status[p] = "wrun" /\ n = left[p] /\ WriteBody(p, n)

\* The first n bytes of the pipe, in the order they were written.
Front(n) == [k \in 1 .. n |-> data[(nread + k - 1) % PIPESIZE]]

ReadWait(p, n) ==
    /\ Empty /\ writeopen
    /\ status' = [status EXCEPT ![p] = IF p \in killed THEN "user" ELSE "rsleep"]
    /\ left' = [left EXCEPT ![p] = IF p \in killed THEN 0 ELSE n]
    /\ UNCHANGED <<data, nread, nwrite, readopen, writeopen, alloc, hasR, hasW,
                   killed, out>>

\* Mutant: the copy starts at the front of the ring.
ReadCopyFromZero(p, n) ==
    /\ ~Empty \/ ~writeopen
    /\ out' = [k \in 1 .. Smaller(n, Count) |-> data[k - 1]]
    /\ nread' = (nread + Smaller(n, Count)) % CMOD
    /\ status' = [WakeWriters(status) EXCEPT ![p] = "user"]
    /\ left' = [left EXCEPT ![p] = 0]
    /\ UNCHANGED <<data, nwrite, readopen, writeopen, alloc, hasR, hasW, killed>>

\* The copy loop, once there are bytes or no writers.
ReadCopy(p, n) ==
    /\ ~Empty \/ ~writeopen
    /\ out' = Front(Smaller(n, Count))
    /\ nread' = (nread + Smaller(n, Count)) % CMOD
    /\ status' = [WakeWriters(status) EXCEPT ![p] = "user"]
    /\ left' = [left EXCEPT ![p] = 0]
    /\ UNCHANGED <<data, nwrite, readopen, writeopen, alloc, hasR, hasW, killed>>

\* piperead() of at most n bytes, up to its return or its sleep.
PipeRead(p, n) ==
    /\ \/ status[p] = "user" /\ p \in hasR
       \/ status[p] = "rrun" /\ n = left[p]
    /\ ReadWait(p, n) \/ ReadCopy(p, n)

\* kill(p) marks p and takes it out of any sleep.
Kill(p) ==
    /\ killed' = killed \cup {p}
    /\ status' = [status EXCEPT ![p] = CASE @ = "rsleep" -> "rrun"
                                         [] @ = "wsleep" -> "wrun"
                                         [] OTHER        -> @]
    /\ UNCHANGED <<data, nread, nwrite, readopen, writeopen, alloc, hasR, hasW,
                   left, out>>

Next ==
    \E p \in Procs :
        \/ PipeAlloc(p)
        \/ \E q \in Procs : Inherit(p, q)
        \/ CloseRead(p)
        \/ CloseWrite(p)
        \/ \E n \in 0 .. MaxN : PipeWrite(p, n)
        \/ \E n \in 0 .. MaxN : PipeRead(p, n)
        \/ Kill(p)

Spec == Init /\ [][Next]_vars

-----------------------------------------------------------------------------
\* Every variable of the pipe stays in its range; at most PIPESIZE bytes in it.
TypeOK ==
    /\ data \in [Index -> Val]
    /\ nread \in 0 .. CMOD - 1 /\ nwrite \in 0 .. CMOD - 1
    /\ Count <= PIPESIZE
    /\ readopen \in BOOLEAN /\ writeopen \in BOOLEAN /\ alloc \in BOOLEAN
    /\ hasR \in SUBSET Procs /\ hasW \in SUBSET Procs /\ killed \in SUBSET Procs
    /\ status \in [Procs -> Status]
    /\ left \in [Procs -> 0 .. MaxN]

\* A reader sleeps only on an empty pipe that somebody can still write, a writer
\* only on a full pipe that somebody can still read; a sleeping reader has seen
\* every kill.  So a wakeup that matters is never missed, and readers and
\* writers never all sleep on each other.
NoLostWakeup ==
    \A p \in Procs :
        /\ status[p] = "rsleep" => Empty /\ writeopen /\ p \notin killed
        /\ status[p] = "wsleep" => IsFull /\ readopen

\* Whoever is inside piperead() or pipewrite() still holds its end, and the
\* memory of the pipe is freed exactly when the last descriptor is closed.
NoUseAfterFree ==
    /\ alloc <=> hasR \cup hasW # {}
    /\ readopen <=> hasR # {}
    /\ writeopen <=> hasW # {}
    /\ \A p \in Procs : /\ status[p] \in {"rsleep", "rrun"} => p \in hasR
                        /\ status[p] \in {"wsleep", "wrun"} => p \in hasW

\* The ring buffer is a bounded first-in first-out channel: no byte is lost,
\* duplicated, overwritten or reordered, also when the counters wrap around.
Abs == INSTANCE PipeAbs WITH
          Size <- PIPESIZE,
          queue <- IF alloc THEN Front(Count) ELSE <<>>
IsChannel == Abs!Spec

-----------------------------------------------------------------------------
\* A process inside the pipe is scheduled again once it is runnable.
Fairness == \A p \in Procs :
    WF_vars(\E n \in 0 .. MaxN :
               \/ status[p] = "rrun" /\ PipeRead(p, n)
               \/ status[p] = "wrun" /\ PipeWrite(p, n))

LiveSpec == Spec /\ Fairness

\* When the other end is closed for good, whoever is blocked gets out: a reader
\* sees end of file, a writer an error.
ClosedEndReleases ==
    \A p \in Procs :
        /\ (status[p] \in {"rsleep", "rrun"} /\ ~writeopen) ~> status[p] = "user"
        /\ (status[p] \in {"wsleep", "wrun"} /\ ~readopen) ~> status[p] = "user"
=============================================================================
