-------------------------------- MODULE Log ---------------------------------
(***************************************************************************)
(* The write-ahead log of log.c over the buffer cache and the disk.        *)
(*                                                                         *)
(* Every disk write is an action of its own, so that a crash can fall      *)
(* between any two of them.  A disk write of one sector is atomic.  The    *)
(* cache keeps at most one copy of a home block (Bcache); copies of log    *)
(* sectors are written through at once and are not kept apart from the     *)
(* disk.  Other processes may read blocks, and try to begin a transaction, *)
(* between any two steps of the one that is in a transaction.              *)
(***************************************************************************)
EXTENDS Naturals

CONSTANTS Blocks,    \* the home sectors that transactions write
          Data,      \* contents of a sector
          Procs,     \* processes that use transactions
          LOGSIZE,   \* entries of logheader.sector[]
          NLOG,      \* log.size: sectors of the log on disk, header included
          Sector0,   \* sector 0, what a zeroed entry of sector[] names
          NoBuf,     \* the block is not in the buffer cache
          NoWrite,   \* the transaction has not written the block
          NoProc     \* no process is in a transaction

ASSUME LogAssumption == /\ LOGSIZE \in Nat /\ LOGSIZE >= 1
                        /\ NLOG \in Nat /\ NLOG >= 2
ASSUME NullAssumption == /\ Sector0 \notin Blocks
                         /\ NoBuf \notin Data
                         /\ NoWrite \notin Data
                         /\ NoProc \notin Procs

VARIABLES disk,      \* home sectors
          dlog,      \* the log's data sectors, log.start+1 ...
          hdn,       \* n of the header on disk
          hdsec,     \* sector[] of the header on disk
          cache,     \* the cached copy of a home sector, or NoBuf
          dirty,     \* blocks whose buffer has B_DIRTY set
          lhn,       \* log.lh.n
          lhsec,     \* log.lh.sector[]
          busy,      \* log.busy
          holder,    \* the process that set it
          asleep,    \* processes sleeping on &log
          phase,     \* where initlog() or commit_trans() is
          tail       \* install_trans()'s loop variable

stable == <<disk, dlog, hdn, hdsec>>
vars == <<stable, cache, dirty, lhn, lhsec, busy, holder, asleep, phase, tail>>

Entries == 1 .. LOGSIZE
Slots   == 1 .. NLOG - 1
Phases  == {"boot", "recover", "run", "commit", "panic"}

\* log_write()'s bound on log.lh.n, and so the longest transaction.
Full(n) == n >= LOGSIZE \/ n >= NLOG - 1

\* The file system image: an empty log, nothing cached.
Init ==
    /\ disk \in [Blocks -> Data]
    /\ dlog \in [Slots -> Data]
    /\ hdn = 0
    /\ hdsec = [i \in Entries |-> Sector0]
    /\ cache = [b \in Blocks |-> NoBuf]
    /\ dirty = {}
    /\ lhn = 0
    /\ lhsec = [i \in Entries |-> Sector0]
    /\ busy = FALSE
    /\ holder = NoProc
    /\ asleep = {}
    /\ phase = "boot"
    /\ tail = 1

-----------------------------------------------------------------------------
\* The buffer cache, as transactions and readers see it.

\* bread() of a block that is not cached.
Bread(b) ==
    /\ phase \in {"run", "commit"}
    /\ cache[b] = NoBuf
    /\ cache' = [cache EXCEPT ![b] = disk[b]]
    /\ UNCHANGED <<stable, dirty, lhn, lhsec, busy, holder, asleep, phase, tail>>

\* Mutant: B_DIRTY does not protect a buffer.
RecycleDirty(b) ==
    /\ phase \in {"run", "commit"}
    /\ cache[b] # NoBuf
    /\ cache' = [cache EXCEPT ![b] = NoBuf]
    /\ dirty' = dirty \ {b}
    /\ UNCHANGED <<stable, lhn, lhsec, busy, holder, asleep, phase, tail>>

\* bget() recycles the buffer of a clean block for another sector.
Recycle(b) ==
    /\ phase \in {"run", "commit"}
    /\ cache[b] # NoBuf
    /\ b \notin dirty
    /\ cache' = [cache EXCEPT ![b] = NoBuf]
    /\ UNCHANGED <<stable, dirty, lhn, lhsec, busy, holder, asleep, phase, tail>>

-----------------------------------------------------------------------------
BeginTrans(p) ==
    /\ phase \in {"run", "commit"}
    /\ p # holder /\ p \notin asleep
    /\ \/ /\ ~busy
          /\ busy' = TRUE
          /\ holder' = p
          /\ UNCHANGED asleep
       \/ /\ busy
          /\ asleep' = asleep \cup {p}
          /\ UNCHANGED <<busy, holder>>
    /\ UNCHANGED <<stable, cache, dirty, lhn, lhsec, phase, tail>>

\* The entry log_write() uses for block b: the one it already has, or the next.
EntryOf(b, i) ==
    IF \E j \in 1 .. lhn : lhsec[j] = b
    THEN i \in 1 .. lhn /\ lhsec[i] = b
    ELSE i = lhn + 1

\* The file system changes b's buffer to v and calls log_write().
LogWrite(b, v) ==
    /\ phase = "run" /\ busy
    /\ ~Full(lhn)
    /\ \E i \in Entries :
          /\ EntryOf(b, i)
          /\ lhsec' = [lhsec EXCEPT ![i] = b]
          /\ dlog'  = [dlog EXCEPT ![i] = v]
          /\ lhn'   = IF i = lhn + 1 THEN lhn + 1 ELSE lhn
    /\ cache' = [cache EXCEPT ![b] = v]
    /\ dirty' = dirty \cup {b}
    /\ UNCHANGED <<disk, hdn, hdsec, busy, holder, asleep, phase, tail>>

\* log_write()'s two panics: the log is full, or no transaction is open.
LogWritePanic ==
    /\ phase = "run"
    /\ Full(lhn) \/ ~busy
    /\ phase' = "panic"
    /\ UNCHANGED <<stable, cache, dirty, lhn, lhsec, busy, holder, asleep, tail>>

\* write_head(): the in-memory header (n, sector[]) replaces the one on disk.
WriteHead(n) ==
    /\ hdn'   = n
    /\ hdsec' = [i \in Entries |-> IF i <= n THEN lhsec[i] ELSE hdsec[i]]

\* Mutant: the sleepers are not woken.
EndTransSilent ==
    /\ busy' = FALSE
    /\ holder' = NoProc
    /\ UNCHANGED asleep

\* The end of commit_trans(): the transaction is over, the sleepers wake.
EndTrans ==
    /\ busy' = FALSE
    /\ holder' = NoProc
    /\ asleep' = {}

\* commit_trans() of a transaction that wrote nothing.
CommitEmpty ==
    /\ phase = "run" /\ busy /\ lhn = 0
    /\ EndTrans
    /\ UNCHANGED <<stable, cache, dirty, lhn, lhsec, phase, tail>>

\* commit_trans() up to the header write, "the real commit".
CommitHead ==
    /\ phase = "run" /\ busy /\ lhn > 0
    /\ WriteHead(lhn)
    /\ phase' = "commit"
    /\ tail' = 1
    /\ UNCHANGED <<disk, dlog, cache, dirty, lhn, lhsec, busy, holder, asleep>>

\* One round of install_trans(), in commit_trans() or in recovery.
InstallTrans ==
    /\ phase \in {"commit", "recover"}
    /\ tail <= lhn
    /\ disk'  = [disk EXCEPT ![lhsec[tail]] = dlog[tail]]
    /\ cache' = [cache EXCEPT ![lhsec[tail]] = dlog[tail]]
    /\ dirty' = dirty \ {lhsec[tail]}
    /\ tail'  = tail + 1
    /\ UNCHANGED <<dlog, hdn, hdsec, lhn, lhsec, busy, holder, asleep, phase>>

\* Mutant: recovery erases the log before the last block is home.
EraseLogEarly ==
    /\ phase \in {"commit", "recover"}
    /\ tail > lhn \/ (phase = "recover" /\ tail = lhn)
    /\ lhn' = 0
    /\ WriteHead(0)
    /\ phase' = "run"
    /\ \/ phase = "commit" /\ EndTrans
       \/ phase = "recover" /\ UNCHANGED <<busy, holder, asleep>>
    /\ UNCHANGED <<disk, dlog, cache, dirty, lhsec, tail>>

\* Everything is installed: the log is erased, and the caller finishes.
EraseLog ==
    /\ phase \in {"commit", "recover"}
    /\ tail > lhn
    /\ lhn' = 0
    /\ WriteHead(0)
    /\ phase' = "run"
    /\ \/ phase = "commit" /\ EndTrans
       \/ phase = "recover" /\ UNCHANGED <<busy, holder, asleep>>
    /\ UNCHANGED <<disk, dlog, cache, dirty, lhsec, tail>>

\* initlog(): read_head() copies the first n entries of the header on disk.
ReadHead ==
    /\ phase = "boot"
    /\ lhn' = hdn
    /\ lhsec' = [i \in Entries |-> IF i <= hdn THEN hdsec[i] ELSE lhsec[i]]
    /\ phase' = "recover"
    /\ tail' = 1
    /\ UNCHANGED <<stable, cache, dirty, busy, holder, asleep>>

\* The machine stops and starts again: memory is lost, the disk is not.
Crash ==
    /\ cache' = [b \in Blocks |-> NoBuf]
    /\ dirty' = {}
    /\ lhn' = 0
    /\ lhsec' = [i \in Entries |-> Sector0]
    /\ busy' = FALSE
    /\ holder' = NoProc
    /\ asleep' = {}
    /\ phase' = "boot"
    /\ tail' = 1
    /\ UNCHANGED stable

Next ==
    \/ \E b \in Blocks : Bread(b) \/ Recycle(b)
    \/ \E p \in Procs : BeginTrans(p)
    \/ \E b \in Blocks, v \in Data : LogWrite(b, v)
    \/ LogWritePanic
    \/ CommitEmpty
    \/ CommitHead
    \/ InstallTrans
    \/ EraseLog
    \/ ReadHead
    \/ Crash

Spec == Init /\ [][Next]_vars

-----------------------------------------------------------------------------
\* Whether the first n entries of sec name b, and the copy of b in the log lg.
Logged(sec, n, b) == \E i \in 1 .. n : sec[i] = b
LogCopy(lg, sec, n, b) == lg[CHOOSE i \in 1 .. n : sec[i] = b]

\* What recovery would make of the disk now: the committed store.
Store == [b \in Blocks |->
            IF Logged(hdsec, hdn, b) THEN LogCopy(dlog, hdsec, hdn, b) ELSE disk[b]]

\* The open transaction, and what it has written.
Open == phase = "run" /\ busy
Pend == [b \in Blocks |->
            IF Open /\ Logged(lhsec, lhn, b) THEN LogCopy(dlog, lhsec, lhn, b) ELSE NoWrite]

\* What bread() of b returns.
View(b) == IF cache[b] = NoBuf THEN disk[b] ELSE cache[b]

Abs == INSTANCE LogAbs WITH store <- Store, open <- Open, pend <- Pend

\* Every variable of the log stays in its range; log.lh.n within both bounds.
TypeOK ==
    /\ disk \in [Blocks -> Data]
    /\ dlog \in [Slots -> Data]
    /\ hdn \in 0 .. LOGSIZE /\ hdn <= NLOG - 1
    /\ hdsec \in [Entries -> Blocks \cup {Sector0}]
    /\ cache \in [Blocks -> Data \cup {NoBuf}]
    /\ dirty \in SUBSET Blocks
    /\ lhn \in 0 .. LOGSIZE /\ lhn <= NLOG - 1
    /\ lhsec \in [Entries -> Blocks \cup {Sector0}]
    /\ busy \in BOOLEAN
    /\ holder \in Procs \cup {NoProc}
    /\ asleep \in SUBSET Procs
    /\ phase \in Phases
    /\ tail \in 1 .. LOGSIZE + 1

\* log.c implements atomic transactions: whatever the point of a crash, also one
\* in the middle of commit_trans() or of a recovery, the disk that recovery
\* makes is the one before the transaction or the one after it.
AtomicTransactions == Abs!Spec

\* Reads go through the cache and see the open transaction's own writes, and the
\* committed content of every other block: B_DIRTY pins a logged block's buffer
\* until install_trans() has written it home, so bread() never finds the stale
\* home sector.
ReadsSeeWrites ==
    phase \in {"run", "commit"} =>
        \A b \in Blocks :
            View(b) = IF Pend[b] # NoWrite THEN Pend[b] ELSE Store[b]

\* Only blocks of the transaction in memory are pinned, each by one entry, so
\* that a finished transaction leaves no unrecyclable buffer behind.
PinnedAreLogged ==
    /\ \A b \in dirty : cache[b] # NoBuf /\ Logged(lhsec, lhn, b)
    /\ \A i, j \in 1 .. lhn : lhsec[i] = lhsec[j] => i = j

\* A process sleeps in begin_trans() only while another one is in a transaction
\* whose commit_trans() will wake it.
NoLostWakeup == asleep # {} => busy /\ holder \notin asleep
=============================================================================
