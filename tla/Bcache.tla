------------------------------- MODULE Bcache -------------------------------
(***************************************************************************)
(* The buffer cache, bio.c, over the block device of memide.c.  A process  *)
(* may lose the CPU while it holds B_BUSY buffers; bget() runs under       *)
(* bcache.lock until it returns or sleeps.                                 *)
(***************************************************************************)
EXTENDS Naturals, Sequences, SequencesExt, FiniteSets

CONSTANTS Procs, Sectors, Data,
          Bufs,       \* bcache.buf; NBUF of them
          NoSector,   \* dev = -1, a buffer never used
          NoBuf       \* not sleeping in bget()

ASSUME BcacheAssumption ==
    /\ NoSector \notin Sectors
    /\ NoBuf \notin Bufs
    /\ IsFiniteSet(Bufs)

VARIABLES sector, busy, valid, dirty, data,  \* per buffer
          lru,        \* the list of buffers from bcache.head.next on
          disk,       \* memdisk
          held,       \* the buffers a process got from bread()
          want,       \* the sector a process inside bget() looks for
          chan,       \* the buffer it sleeps on
          last,       \* history: what was last written to a sector
          halted      \* a panic() was reached

bufVars == <<sector, busy, valid, dirty, data, lru, disk>>
vars == <<bufVars, held, want, chan, last, halted>>

Init ==
    /\ sector = [b \in Bufs |-> NoSector]
    /\ busy = {} /\ valid = {} /\ dirty = {}
    /\ data \in {[b \in Bufs |-> d] : d \in Data}
    /\ lru = SetToSeq(Bufs)
    /\ disk \in [Sectors -> Data]
    /\ held = [p \in Procs |-> {}]
    /\ want = [p \in Procs |-> NoSector]
    /\ chan = [p \in Procs |-> NoBuf]
    /\ last = disk
    /\ halted = FALSE

-----------------------------------------------------------------------------
\* Mutant: B_DIRTY does not protect a buffer.
RecyclableDirty == Bufs \ busy

\* The buffers bget() may give to another sector.
Recyclable == Bufs \ (busy \cup dirty)

\* The buffer bget() recycles: the last of the list that is neither B_BUSY nor
\* B_DIRTY.
LeastRecent(b) ==
    \A i, j \in DOMAIN lru : lru[i] = b /\ lru[j] \in Recyclable => j <= i

\* Mutant: B_BUSY is not tested.
BgetHitBusy(p, s, b) ==
    /\ sector[b] = s
    /\ busy' = busy \cup {b}
    /\ valid' = valid \cup {b}
    /\ data' = IF b \in valid THEN data ELSE [data EXCEPT ![b] = disk[s]]
    /\ held' = [held EXCEPT ![p] = @ \cup {b}]
    /\ want' = [want EXCEPT ![p] = NoSector]
    /\ UNCHANGED <<sector, dirty, lru, disk, chan, last, halted>>

\* bget() found the sector: take the buffer and, in bread(), fill it if need be.
BgetHit(p, s, b) ==
    /\ sector[b] = s /\ b \notin busy
    /\ busy' = busy \cup {b}
    /\ valid' = valid \cup {b}
    /\ data' = IF b \in valid THEN data ELSE [data EXCEPT ![b] = disk[s]]
    /\ held' = [held EXCEPT ![p] = @ \cup {b}]
    /\ want' = [want EXCEPT ![p] = NoSector]
    /\ UNCHANGED <<sector, dirty, lru, disk, chan, last, halted>>

\* The buffer is busy: sleep on it; bget() starts over when woken.
BgetSleep(p, s, b) ==
    /\ sector[b] = s /\ b \in busy
    /\ chan' = [chan EXCEPT ![p] = b]
    /\ want' = [want EXCEPT ![p] = s]
    /\ UNCHANGED <<bufVars, held, last, halted>>

\* The sector is not cached: recycle a buffer, and iderw() reads into it; panic
\* when every buffer is busy or pinned.
BgetRecycle(p, s) ==
    /\ \A b \in Bufs : sector[b] # s
    /\ IF Recyclable = {}
       THEN halted' = TRUE /\ UNCHANGED <<sector, busy, valid, data, held, want>>
       ELSE \E b \in Recyclable :
            /\ LeastRecent(b)
            /\ sector' = [sector EXCEPT ![b] = s]
            /\ busy' = busy \cup {b}
            /\ valid' = valid \cup {b}
            /\ data' = [data EXCEPT ![b] = disk[s]]
            /\ held' = [held EXCEPT ![p] = @ \cup {b}]
            /\ want' = [want EXCEPT ![p] = NoSector]
            /\ UNCHANGED halted
    /\ UNCHANGED <<dirty, lru, disk, chan, last>>

\* bread(): a process enters bget() for a sector it does not hold already, or is
\* woken up in it.
Bread(p, s) ==
    /\ chan[p] = NoBuf
    /\ \/ want[p] = s
       \/ /\ want[p] = NoSector
          /\ \A b \in held[p] : sector[b] # s
    /\ \/ \E b \in Bufs : BgetHit(p, s, b) \/ BgetSleep(p, s, b)
       \/ BgetRecycle(p, s)

Idle(p) == want[p] = NoSector

\* The holder changes the contents and calls bwrite().
Bwrite(p, b, d) ==
    /\ Idle(p) /\ b \in held[p]
    /\ data' = [data EXCEPT ![b] = d]
    /\ disk' = [disk EXCEPT ![sector[b]] = d]
    /\ dirty' = dirty \ {b}
    /\ last' = [last EXCEPT ![sector[b]] = d]
    /\ UNCHANGED <<sector, busy, valid, lru, held, want, chan, halted>>

\* The holder changes the contents and log_write() pins the buffer.
LogWrite(p, b, d) ==
    /\ Idle(p) /\ b \in held[p]
    /\ data' = [data EXCEPT ![b] = d]
    /\ dirty' = dirty \cup {b}
    /\ last' = [last EXCEPT ![sector[b]] = d]
    /\ UNCHANGED <<sector, busy, valid, lru, disk, held, want, chan, halted>>

\* Mutant: the waiters are not woken.
BrelseSilent(p, b) ==
    /\ Idle(p) /\ b \in held[p]
    /\ busy' = busy \ {b}
    /\ lru' = <<b>> \o SelectSeq(lru, LAMBDA c : c # b)
    /\ held' = [held EXCEPT ![p] = @ \ {b}]
    /\ UNCHANGED <<sector, valid, dirty, data, disk, want, chan, last, halted>>

\* brelse(): to the front of the list, no longer busy, wake who waits for it.
Brelse(p, b) ==
    /\ Idle(p) /\ b \in held[p]
    /\ busy' = busy \ {b}
    /\ lru' = <<b>> \o SelectSeq(lru, LAMBDA c : c # b)
    /\ chan' = [q \in Procs |-> IF chan[q] = b THEN NoBuf ELSE chan[q]]
    /\ held' = [held EXCEPT ![p] = @ \ {b}]
    /\ UNCHANGED <<sector, valid, dirty, data, disk, want, last, halted>>

Next ==
    /\ ~halted
    /\ \E p \in Procs :
          \/ \E s \in Sectors : Bread(p, s)
          \/ \E b \in Bufs : \/ \E d \in Data : Bwrite(p, b, d) \/ LogWrite(p, b, d)
                             \/ Brelse(p, b)

Spec == Init /\ [][Next]_vars

-----------------------------------------------------------------------------
\* Flags, list and contents have their types; the list holds each buffer once.
TypeOK ==
    /\ sector \in [Bufs -> Sectors \cup {NoSector}]
    /\ busy \subseteq Bufs /\ valid \subseteq Bufs /\ dirty \subseteq Bufs
    /\ data \in [Bufs -> Data] /\ disk \in [Sectors -> Data]
    /\ last \in [Sectors -> Data]
    /\ ToSet(lru) = Bufs /\ Len(lru) = Cardinality(Bufs)
    /\ held \in [Procs -> SUBSET Bufs]
    /\ want \in [Procs -> Sectors \cup {NoSector}]
    /\ chan \in [Procs -> Bufs \cup {NoBuf}]
    /\ halted \in BOOLEAN

\* bio.c's synchronization: a sector is in at most one buffer, a busy buffer has
\* exactly one holder, and a process holds busy buffers only.
ExclusiveBuffers ==
    /\ \A b, c \in Bufs : sector[b] = sector[c] /\ b # c => sector[b] = NoSector
    /\ \A p, q \in Procs : p # q => held[p] \cap held[q] = {}
    /\ busy = UNION {held[p] : p \in Procs}

\* The cache is transparent: what a read of a sector returns, from a buffer or
\* from the disk, is what was last written to it; a buffer the log has not
\* written back is never recycled.
ReadsLastWrite ==
    /\ \A b \in Bufs : sector[b] # NoSector => b \in valid /\ data[b] = last[sector[b]]
    /\ \A s \in Sectors :
          disk[s] = last[s] \/ \E b \in dirty : sector[b] = s

\* A process sleeps in bget() only while the buffer of the sector it looks for is
\* held: brelse() wakes every one that waits.
NoLostWakeup ==
    \A p \in Procs : chan[p] # NoBuf =>
        /\ chan[p] \in busy
        /\ sector[chan[p]] = want[p] /\ want[p] \in Sectors
=============================================================================
