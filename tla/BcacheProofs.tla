---------------------------- MODULE BcacheProofs ----------------------------
(***************************************************************************)
(* Proofs about Bcache for every number of processes, sectors and buffers. *)
(* They need of bget()'s choice only that the recycled buffer is neither   *)
(* busy nor dirty, not which one of these it is.                           *)
(***************************************************************************)
EXTENDS Bcache, TLAPS

\* The part of TypeOK that is about the flags, contents and processes.
Typed ==
    /\ sector \in [Bufs -> Sectors \cup {NoSector}]
    /\ busy \subseteq Bufs /\ dirty \subseteq Bufs
    /\ data \in [Bufs -> Data] /\ disk \in [Sectors -> Data]
    /\ last \in [Sectors -> Data]
    /\ held \in [Procs -> SUBSET Bufs]
    /\ want \in [Procs -> Sectors \cup {NoSector}]
    /\ chan \in [Procs -> Bufs \cup {NoBuf}]

\* A buffer that is held or pinned belongs to a sector.
InUse == \A b \in busy \cup dirty : sector[b] # NoSector

IInv == Typed /\ InUse /\ ExclusiveBuffers /\ ReadsLastWrite /\ NoLostWakeup

LEMMA InitOK == Init => IInv
<1> SUFFICES ASSUME Init PROVE IInv
  OBVIOUS
<1>1. Typed
  BY DEF Init, Typed
<1>2. ExclusiveBuffers
  BY DEF Init, ExclusiveBuffers
<1>3. ReadsLastWrite
  BY DEF Init, ReadsLastWrite
<1>4. InUse /\ NoLostWakeup
  BY DEF Init, InUse, NoLostWakeup
<1> QED BY <1>1, <1>2, <1>3, <1>4 DEF IInv

\* bread() got buffer b, which was neither busy nor, if recycled, dirty.
LEMMA TakeOK ==
    ASSUME IInv, NEW p \in Procs, NEW s \in Sectors, NEW b \in Bufs,
           b \notin busy, chan[p] = NoBuf,
           \/ sector[b] = s /\ UNCHANGED <<sector, data, valid>>
           \/ /\ b \notin dirty
              /\ \A c \in Bufs : sector[c] # s
              /\ sector' = [sector EXCEPT ![b] = s]
              /\ data' = [data EXCEPT ![b] = disk[s]]
              /\ valid' = valid \cup {b},
           busy' = busy \cup {b},
           held' = [held EXCEPT ![p] = @ \cup {b}],
           want' = [want EXCEPT ![p] = NoSector],
           UNCHANGED <<dirty, disk, chan, last>>
    PROVE  IInv'
<1>1. Typed /\ InUse /\ ExclusiveBuffers /\ ReadsLastWrite /\ NoLostWakeup
  BY DEF IInv
<1>2. /\ sector' \in [Bufs -> Sectors \cup {NoSector}]
      /\ data' \in [Bufs -> Data]
      /\ sector'[b] = s
      /\ \A c \in Bufs \ {b} : sector'[c] = sector[c] /\ data'[c] = data[c]
      /\ valid \subseteq valid'
  BY <1>1 DEF Typed
<1>3. /\ held' \in [Procs -> SUBSET Bufs]
      /\ held'[p] = held[p] \cup {b}
      /\ \A q \in Procs \ {p} : held'[q] = held[q]
  BY <1>1 DEF Typed
<1>4. Typed'
  BY <1>1, <1>2, <1>3 DEF Typed
<1>5. InUse'
  BY <1>1, <1>2, BcacheAssumption DEF InUse, Typed
<1>6. ExclusiveBuffers'
  <2>1. ASSUME NEW c \in Bufs, NEW e \in Bufs, sector'[c] = sector'[e], c # e
        PROVE  sector'[c] = NoSector
    <3>1. \A x \in Bufs \ {b} : sector[x] # s
      BY <1>1, BcacheAssumption DEF ExclusiveBuffers
    <3>2. c # b /\ e # b
      BY <1>2, <2>1, <3>1
    <3> QED BY <1>1, <1>2, <2>1, <3>2 DEF ExclusiveBuffers
  <2>2. \A q \in Procs : b \notin held[q]
    BY <1>1 DEF ExclusiveBuffers
  <2>3. ASSUME NEW q \in Procs, NEW r \in Procs, q # r
        PROVE  held'[q] \cap held'[r] = {}
    <3>1. held[q] \cap held[r] = {}
      BY <1>1, <2>3 DEF ExclusiveBuffers
    <3> QED BY <1>3, <2>2, <2>3, <3>1
  <2>4. busy' = UNION {held'[q] : q \in Procs}
    <3>1. busy = UNION {held[q] : q \in Procs}
      BY <1>1 DEF ExclusiveBuffers
    <3> QED BY <1>3, <3>1
  <2> QED BY <2>1, <2>3, <2>4 DEF ExclusiveBuffers
<1>7. ReadsLastWrite'
  <2>1. b \in valid' /\ data'[b] = last[s]
    <3>1. CASE sector[b] = s /\ UNCHANGED <<sector, data, valid>>
      BY <1>1, <3>1, BcacheAssumption DEF ReadsLastWrite
    <3>2. CASE /\ b \notin dirty
               /\ \A c \in Bufs : sector[c] # s
               /\ data' = [data EXCEPT ![b] = disk[s]]
               /\ valid' = valid \cup {b}
      <4>1. disk[s] = last[s]
        BY <1>1, <3>2 DEF ReadsLastWrite, Typed
      <4> QED BY <1>1, <3>2, <4>1 DEF Typed
    <3> QED BY <3>1, <3>2
  <2>2. ASSUME NEW c \in Bufs, sector'[c] # NoSector
        PROVE  c \in valid' /\ data'[c] = last'[sector'[c]]
    BY <1>1, <1>2, <2>1, <2>2 DEF ReadsLastWrite
  <2>3. ASSUME NEW t \in Sectors
        PROVE  disk'[t] = last'[t] \/ \E c \in dirty' : sector'[c] = t
    <3>1. disk[t] = last[t] \/ \E c \in dirty : sector[c] = t
      BY <1>1 DEF ReadsLastWrite
    <3>2. \A c \in dirty : sector'[c] = sector[c]
      BY <1>1, <1>2 DEF Typed
    <3> QED BY <3>1, <3>2
  <2> QED BY <2>2, <2>3 DEF ReadsLastWrite
<1>8. NoLostWakeup'
  <2>1. \A q \in Procs \ {p} : want'[q] = want[q]
    BY <1>1 DEF Typed
  <2> QED BY <1>1, <1>2, <2>1 DEF NoLostWakeup, Typed
<1> QED BY <1>4, <1>5, <1>6, <1>7, <1>8 DEF IInv

LEMMA BreadOK ==
    ASSUME IInv, NEW p \in Procs, NEW s \in Sectors, Bread(p, s)
    PROVE  IInv'
<1>0. chan[p] = NoBuf
  BY DEF Bread
<1>1. ASSUME NEW b \in Bufs, BgetHit(p, s, b) PROVE IInv'
  <2>1. sector[b] # NoSector
    BY <1>1, BcacheAssumption DEF BgetHit
  <2>2. b \in valid
    BY <2>1 DEF IInv, ReadsLastWrite
  <2>3. UNCHANGED <<sector, data, valid>>
    BY <1>1, <2>2 DEF BgetHit
  <2> QED BY <1>0, <1>1, <2>3, TakeOK, Zenon DEF BgetHit
<1>2. ASSUME NEW b \in Bufs, BgetSleep(p, s, b) PROVE IInv'
  <2> USE <1>2 DEF BgetSleep, bufVars
  <2>1. Typed'
    BY DEF IInv, Typed
  <2>2. InUse' /\ ExclusiveBuffers' /\ ReadsLastWrite'
    BY DEF IInv, InUse, ExclusiveBuffers, ReadsLastWrite
  <2>3. /\ chan'[p] = b /\ want'[p] = s
        /\ \A q \in Procs \ {p} : chan'[q] = chan[q] /\ want'[q] = want[q]
    BY DEF IInv, Typed
  <2>4. NoLostWakeup'
    BY <2>3 DEF IInv, NoLostWakeup
  <2> QED BY <2>1, <2>2, <2>4 DEF IInv
<1>3. CASE BgetRecycle(p, s)
  <2>1. CASE Recyclable = {}
    BY <1>3, <2>1 DEF BgetRecycle, IInv, Typed, InUse, ExclusiveBuffers,
                      ReadsLastWrite, NoLostWakeup
  <2>2. CASE Recyclable # {}
    <3>1. PICK b \in Recyclable :
            /\ sector' = [sector EXCEPT ![b] = s]
            /\ busy' = busy \cup {b}
            /\ valid' = valid \cup {b}
            /\ data' = [data EXCEPT ![b] = disk[s]]
            /\ held' = [held EXCEPT ![p] = @ \cup {b}]
            /\ want' = [want EXCEPT ![p] = NoSector]
      BY <1>3, <2>2 DEF BgetRecycle
    <3>2. b \in Bufs /\ b \notin busy /\ b \notin dirty
      BY DEF Recyclable
    <3>3. (\A c \in Bufs : sector[c] # s) /\ UNCHANGED <<dirty, disk, chan, last>>
      BY <1>3 DEF BgetRecycle
    <3> QED BY <1>0, <3>1, <3>2, <3>3, TakeOK, Zenon
  <2> QED BY <2>1, <2>2
<1> QED BY <1>1, <1>2, <1>3 DEF Bread

\* bwrite() and log_write() by the holder.
LEMMA WriteOK ==
    ASSUME IInv, NEW p \in Procs, NEW b \in Bufs, NEW d \in Data,
           Bwrite(p, b, d) \/ LogWrite(p, b, d)
    PROVE  IInv'
<1>1. Typed /\ InUse /\ ExclusiveBuffers /\ ReadsLastWrite /\ NoLostWakeup
  BY DEF IInv
<1>2. /\ UNCHANGED <<sector, busy, valid, held, want, chan>>
      /\ b \in held[p]
      /\ data' = [data EXCEPT ![b] = d]
      /\ last' = [last EXCEPT ![sector[b]] = d]
      /\ \/ disk' = [disk EXCEPT ![sector[b]] = d] /\ dirty' = dirty \ {b}
         \/ disk' = disk /\ dirty' = dirty \cup {b}
  BY DEF Bwrite, LogWrite
<1>3. b \in busy /\ sector[b] \in Sectors
  BY <1>1, <1>2 DEF ExclusiveBuffers, InUse, Typed
<1>4. Typed'
  BY <1>1, <1>2, <1>3 DEF Typed
<1>5. InUse'
  BY <1>1, <1>2, <1>3 DEF InUse
<1>6. ExclusiveBuffers' /\ NoLostWakeup'
  BY <1>1, <1>2 DEF ExclusiveBuffers, NoLostWakeup
<1>7. ReadsLastWrite'
  <2>1. ASSUME NEW c \in Bufs, sector'[c] # NoSector
        PROVE  c \in valid' /\ data'[c] = last'[sector'[c]]
    <3>1. c # b => sector[c] # sector[b]
      BY <1>1, <1>2, <1>3, <2>1, BcacheAssumption DEF ExclusiveBuffers
    <3> QED BY <1>1, <1>2, <1>3, <2>1, <3>1 DEF ReadsLastWrite, Typed
  <2>2. ASSUME NEW t \in Sectors
        PROVE  disk'[t] = last'[t] \/ \E c \in dirty' : sector'[c] = t
    <3>1. CASE t = sector[b]
      BY <1>1, <1>2, <1>3, <3>1 DEF Typed
    <3>2. CASE t # sector[b]
      <4>1. disk'[t] = disk[t] /\ last'[t] = last[t]
        BY <1>1, <1>2, <3>2 DEF Typed
      <4>2. disk[t] = last[t] \/ \E c \in dirty : sector[c] = t
        BY <1>1 DEF ReadsLastWrite
      <4> QED BY <1>2, <3>2, <4>1, <4>2
    <3> QED BY <3>1, <3>2
  <2> QED BY <2>1, <2>2 DEF ReadsLastWrite
<1> QED BY <1>4, <1>5, <1>6, <1>7 DEF IInv

LEMMA BrelseOK ==
    ASSUME IInv, NEW p \in Procs, NEW b \in Bufs, Brelse(p, b)
    PROVE  IInv'
<1>1. Typed /\ InUse /\ ExclusiveBuffers /\ ReadsLastWrite /\ NoLostWakeup
  BY DEF IInv
<1>2. /\ UNCHANGED <<sector, valid, dirty, data, disk, want, last>>
      /\ b \in held[p]
      /\ busy' = busy \ {b}
      /\ held' = [held EXCEPT ![p] = @ \ {b}]
      /\ chan' = [q \in Procs |-> IF chan[q] = b THEN NoBuf ELSE chan[q]]
  BY DEF Brelse
<1>3. /\ held' \in [Procs -> SUBSET Bufs]
      /\ held'[p] = held[p] \ {b}
      /\ \A q \in Procs \ {p} : held'[q] = held[q]
  BY <1>1, <1>2 DEF Typed
<1>4. Typed'
  BY <1>1, <1>2, <1>3 DEF Typed
<1>5. InUse' /\ ReadsLastWrite'
  BY <1>1, <1>2 DEF InUse, ReadsLastWrite
<1>6. ExclusiveBuffers'
  <2>1. \A q \in Procs \ {p} : b \notin held[q]
    BY <1>1, <1>2 DEF ExclusiveBuffers
  <2>2. busy' = UNION {held'[q] : q \in Procs}
    <3>1. busy = UNION {held[q] : q \in Procs}
      BY <1>1 DEF ExclusiveBuffers
    <3> QED BY <1>2, <1>3, <2>1, <3>1
  <2>3. ASSUME NEW q \in Procs, NEW r \in Procs, q # r
        PROVE  held'[q] \cap held'[r] = {}
    <3>1. held[q] \cap held[r] = {}
      BY <1>1, <2>3 DEF ExclusiveBuffers
    <3>2. held'[q] \subseteq held[q] /\ held'[r] \subseteq held[r]
      BY <1>3
    <3> QED BY <3>1, <3>2
  <2> QED BY <1>1, <1>2, <2>2, <2>3 DEF ExclusiveBuffers
<1>7. NoLostWakeup'
  BY <1>1, <1>2 DEF NoLostWakeup
<1> QED BY <1>4, <1>5, <1>6, <1>7 DEF IInv

\* Every step of bio.c preserves the inductive invariant.
THEOREM Invariance == Spec => []IInv
<1>1. ASSUME IInv, [Next]_vars PROVE IInv'
  <2>1. CASE Next
    BY <1>1, <2>1, BreadOK, WriteOK, BrelseOK DEF Next
  <2>2. CASE UNCHANGED vars
    BY <1>1, <2>2 DEF vars, bufVars, IInv, Typed, InUse, ExclusiveBuffers,
                      ReadsLastWrite, NoLostWakeup
  <2> QED BY <1>1, <2>1, <2>2
<1> QED BY <1>1, InitOK, PTL DEF Spec

\* bget() hands a sector's only buffer to one process at a time.
THEOREM BuffersAreExclusive == Spec => []ExclusiveBuffers
<1>1. IInv => ExclusiveBuffers
  BY DEF IInv
<1> QED BY Invariance, <1>1, PTL

\* Recycling, pinning and writing back never show a process stale contents.
THEOREM CacheIsTransparent == Spec => []ReadsLastWrite
<1>1. IInv => ReadsLastWrite
  BY DEF IInv
<1> QED BY Invariance, <1>1, PTL

\* brelse() wakes whoever sleeps in bget() for the buffer.
THEOREM BgetNeverMissesWakeup == Spec => []NoLostWakeup
<1>1. IInv => NoLostWakeup
  BY DEF IInv
<1> QED BY Invariance, <1>1, PTL
=============================================================================
