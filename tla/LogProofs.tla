----------------------------- MODULE LogProofs ------------------------------
(***************************************************************************)
(* log.c implements atomic transactions: proof that Log refines LogAbs,    *)
(* for every set of blocks, contents and processes and every log size.     *)
(***************************************************************************)
EXTENDS Log, TLAPS

\* No block has two entries among the first n, and all of them are home blocks.
Distinct(sec, n) ==
    /\ \A i \in 1 .. n : sec[i] \in Blocks
    /\ \A i, j \in 1 .. n : sec[i] = sec[j] => i = j

\* How the header on disk, the one in memory and the progress of
\* install_trans() go together in each phase.
PhaseInv ==
    /\ Distinct(hdsec, hdn)
    /\ Distinct(lhsec, lhn)
    /\ phase \in {"run", "panic"} => hdn = 0
    /\ phase \in {"commit", "recover"} =>
          /\ hdn = lhn
          /\ \A i \in 1 .. lhn : hdsec[i] = lhsec[i]
          /\ tail <= lhn + 1
          /\ \A i \in 1 .. lhn : i < tail => disk[lhsec[i]] = dlog[i]
    /\ phase = "run" /\ ~busy => lhn = 0
    /\ phase = "boot" => lhn = 0
    /\ phase \in {"boot", "recover"} => ~busy
    /\ phase = "commit" => busy

IInv == TypeOK /\ PhaseInv

USE LogAssumption, NullAssumption

LEMMA InitIInv == Init => IInv
<1> SUFFICES ASSUME Init PROVE IInv
  OBVIOUS
<1>1. TypeOK
  <2>1. /\ disk \in [Blocks -> Data] /\ dlog \in [Slots -> Data]
        /\ hdsec \in [Entries -> Blocks \cup {Sector0}]
        /\ lhsec \in [Entries -> Blocks \cup {Sector0}]
        /\ cache \in [Blocks -> Data \cup {NoBuf}]
    BY DEF Init
  <2>2. /\ hdn \in 0 .. LOGSIZE /\ hdn <= NLOG - 1
        /\ lhn \in 0 .. LOGSIZE /\ lhn <= NLOG - 1
        /\ tail \in 1 .. LOGSIZE + 1
    BY DEF Init
  <2>3. /\ dirty \in SUBSET Blocks /\ busy \in BOOLEAN /\ asleep \in SUBSET Procs
        /\ holder \in Procs \cup {NoProc} /\ phase \in Phases
    BY DEF Init, Phases
  <2> QED
    BY <2>1, <2>2, <2>3 DEF TypeOK
<1>2. PhaseInv
  BY DEF Init, PhaseInv, Distinct
<1> QED
  BY <1>1, <1>2 DEF IInv

-----------------------------------------------------------------------------
\* No step of the log takes a variable out of its type.
LEMMA TypeStep == IInv /\ [Next]_vars => TypeOK'
<1> SUFFICES ASSUME IInv, [Next]_vars PROVE TypeOK'
  OBVIOUS
<1>0. TypeOK
  BY DEF IInv
<1>1. ASSUME NEW b \in Blocks, Bread(b) \/ Recycle(b) PROVE TypeOK'
  <2>1. cache' \in [Blocks -> Data \cup {NoBuf}]
    BY <1>0, <1>1 DEF Bread, Recycle, TypeOK
  <2> QED
    BY <1>0, <1>1, <2>1 DEF Bread, Recycle, TypeOK, stable
<1>2. ASSUME NEW p \in Procs, BeginTrans(p) PROVE TypeOK'
  BY <1>0, <1>2 DEF BeginTrans, TypeOK, stable
<1>3. ASSUME NEW b \in Blocks, NEW v \in Data, LogWrite(b, v) PROVE TypeOK'
  <2> PICK i \in Entries : /\ EntryOf(b, i)
                           /\ lhsec' = [lhsec EXCEPT ![i] = b]
                           /\ dlog'  = [dlog EXCEPT ![i] = v]
                           /\ lhn'   = IF i = lhn + 1 THEN lhn + 1 ELSE lhn
    BY <1>3 DEF LogWrite
  <2>1. lhsec' \in [Entries -> Blocks \cup {Sector0}] /\ dlog' \in [Slots -> Data]
    BY <1>0 DEF TypeOK
  <2>2. lhn' \in 0 .. LOGSIZE /\ lhn' <= NLOG - 1
    BY <1>0, <1>3 DEF TypeOK, LogWrite, Full
  <2>3. cache' \in [Blocks -> Data \cup {NoBuf}] /\ dirty' \in SUBSET Blocks
    BY <1>0, <1>3 DEF TypeOK, LogWrite
  <2> QED
    BY <1>0, <1>3, <2>1, <2>2, <2>3 DEF LogWrite, TypeOK
<1>4. CASE LogWritePanic
  BY <1>0, <1>4 DEF LogWritePanic, TypeOK, stable, Phases
<1>5. CASE CommitEmpty
  BY <1>0, <1>5 DEF CommitEmpty, EndTrans, TypeOK, stable
<1>6. CASE CommitHead
  <2>1. hdsec' \in [Entries -> Blocks \cup {Sector0}]
    BY <1>0, <1>6 DEF CommitHead, WriteHead, TypeOK
  <2>2. /\ hdn' \in 0 .. LOGSIZE /\ hdn' <= NLOG - 1
        /\ tail' \in 1 .. LOGSIZE + 1 /\ phase' \in Phases
    BY <1>0, <1>6 DEF CommitHead, WriteHead, TypeOK, Phases
  <2> QED
    BY <1>0, <1>6, <2>1, <2>2 DEF CommitHead, TypeOK
<1>7. CASE InstallTrans
  <2>1. tail \in Entries /\ tail \in Slots /\ tail' \in 1 .. LOGSIZE + 1
    BY <1>0, <1>7 DEF InstallTrans, TypeOK, Entries, Slots
  <2>2. dlog[tail] \in Data
    BY <1>0, <2>1 DEF TypeOK
  <2>3. disk' \in [Blocks -> Data] /\ cache' \in [Blocks -> Data \cup {NoBuf}]
    BY <1>0, <1>7, <2>2 DEF InstallTrans, TypeOK
  <2> QED
    BY <1>0, <1>7, <2>1, <2>3 DEF InstallTrans, TypeOK
<1>8. CASE EraseLog
  <2>1. hdsec' \in [Entries -> Blocks \cup {Sector0}]
    BY <1>0, <1>8 DEF EraseLog, WriteHead, TypeOK
  <2>2. /\ hdn' \in 0 .. LOGSIZE /\ hdn' <= NLOG - 1
        /\ lhn' \in 0 .. LOGSIZE /\ lhn' <= NLOG - 1 /\ phase' \in Phases
    BY <1>0, <1>8 DEF EraseLog, WriteHead, TypeOK, Phases
  <2>3. busy' \in BOOLEAN /\ holder' \in Procs \cup {NoProc} /\ asleep' \in SUBSET Procs
    BY <1>0, <1>8 DEF EraseLog, EndTrans, TypeOK
  <2> QED
    BY <1>0, <1>8, <2>1, <2>2, <2>3 DEF EraseLog, TypeOK
<1>9. CASE ReadHead
  <2>1. lhsec' \in [Entries -> Blocks \cup {Sector0}]
    BY <1>0, <1>9 DEF ReadHead, TypeOK
  <2>2. tail' \in 1 .. LOGSIZE + 1 /\ phase' \in Phases
    BY <1>9 DEF ReadHead, Phases
  <2> QED
    BY <1>0, <1>9, <2>1, <2>2 DEF ReadHead, TypeOK, stable
<1>10. CASE Crash
  <2>1. /\ lhsec' \in [Entries -> Blocks \cup {Sector0}]
        /\ cache' \in [Blocks -> Data \cup {NoBuf}]
    BY <1>10 DEF Crash
  <2>2. lhn' \in 0 .. LOGSIZE /\ lhn' <= NLOG - 1 /\ tail' \in 1 .. LOGSIZE + 1
    BY <1>10 DEF Crash
  <2>3. phase' \in Phases /\ holder' \in Procs \cup {NoProc} /\ asleep' \in SUBSET Procs
        /\ dirty' \in SUBSET Blocks /\ busy' \in BOOLEAN
    BY <1>10 DEF Crash, Phases
  <2> QED
    BY <1>0, <1>10, <2>1, <2>2, <2>3 DEF Crash, TypeOK, stable
<1>11. CASE UNCHANGED vars
  BY <1>0, <1>11 DEF vars, stable, TypeOK
<1> QED
  BY <1>1, <1>2, <1>3, <1>4, <1>5, <1>6, <1>7, <1>8, <1>9, <1>10, <1>11 DEF Next

-----------------------------------------------------------------------------
\* What EntryOf() finds keeps the entries distinct.
LEMMA AppendDistinct ==
    ASSUME IInv, NEW b \in Blocks, NEW i \in Entries, EntryOf(b, i),
           lhsec' = [lhsec EXCEPT ![i] = b],
           lhn' = IF i = lhn + 1 THEN lhn + 1 ELSE lhn
    PROVE  /\ Distinct(lhsec, lhn)'
           /\ i \in 1 .. lhn' /\ lhsec'[i] = b
           /\ \A j \in 1 .. lhn : j # i => lhsec'[j] = lhsec[j] /\ lhsec[j] # b
           /\ \A j \in 1 .. lhn' : j # i => j \in 1 .. lhn
           /\ i \in 1 .. lhn => lhsec[i] = b
<1>1. lhn \in Nat /\ lhsec \in [Entries -> Blocks \cup {Sector0}]
      /\ 1 .. lhn \subseteq Entries /\ i \in Nat
  BY DEF IInv, TypeOK, Entries
<1>2. Distinct(lhsec, lhn)
  BY DEF IInv, PhaseInv
<1>3. CASE \E j \in 1 .. lhn : lhsec[j] = b
  <2>1. i \in 1 .. lhn /\ lhsec[i] = b
    BY <1>3 DEF EntryOf
  <2>2. lhn' = lhn /\ lhsec' = lhsec
    BY <1>1, <2>1
  <2> QED
    BY <1>1, <1>2, <2>1, <2>2 DEF Distinct
<1>4. CASE ~ \E j \in 1 .. lhn : lhsec[j] = b
  <2>1. i = lhn + 1 /\ lhn' = lhn + 1
    BY <1>4 DEF EntryOf
  <2>2. lhsec'[i] = b /\ \A j \in 1 .. lhn : lhsec'[j] = lhsec[j]
    BY <1>1, <2>1
  <2>3. \A j \in 1 .. lhn' : j # i => j \in 1 .. lhn
    BY <1>1, <2>1
  <2>4. i \in 1 .. lhn' /\ i \notin 1 .. lhn
    BY <1>1, <2>1
  <2>5. Distinct(lhsec, lhn)'
    BY <1>2, <1>4, <2>2, <2>3, <2>4 DEF Distinct
  <2> QED
    BY <1>4, <2>2, <2>3, <2>4, <2>5
<1> QED
  BY <1>3, <1>4

LEMMA PhaseStep == IInv /\ [Next]_vars => PhaseInv'
<1> SUFFICES ASSUME IInv, [Next]_vars PROVE PhaseInv'
  OBVIOUS
<1>0. TypeOK /\ PhaseInv
  BY DEF IInv
<1>1. ASSUME NEW b \in Blocks, Bread(b) \/ Recycle(b) PROVE PhaseInv'
  BY <1>0, <1>1 DEF Bread, Recycle, PhaseInv, Distinct, stable
<1>2. ASSUME NEW p \in Procs, BeginTrans(p) PROVE PhaseInv'
  BY <1>0, <1>2 DEF BeginTrans, PhaseInv, Distinct, stable
<1>3. ASSUME NEW b \in Blocks, NEW v \in Data, LogWrite(b, v) PROVE PhaseInv'
  <2> PICK i \in Entries : /\ EntryOf(b, i)
                           /\ lhsec' = [lhsec EXCEPT ![i] = b]
                           /\ lhn'   = IF i = lhn + 1 THEN lhn + 1 ELSE lhn
    BY <1>3 DEF LogWrite
  <2>1. Distinct(lhsec, lhn)'
    BY AppendDistinct
  <2>2. phase' = "run" /\ phase = "run" /\ busy /\ busy' = busy
        /\ hdn' = hdn /\ hdsec' = hdsec
    BY <1>3 DEF LogWrite
  <2> QED
    BY <1>0, <2>1, <2>2 DEF PhaseInv, Distinct
<1>4. CASE LogWritePanic
  BY <1>0, <1>4 DEF LogWritePanic, PhaseInv, Distinct, stable
<1>5. CASE CommitEmpty
  BY <1>0, <1>5 DEF CommitEmpty, EndTrans, PhaseInv, Distinct, stable
<1>6. CASE CommitHead
  <2>1. 1 .. lhn \subseteq Entries /\ lhn \in Nat
    BY <1>0 DEF TypeOK, Entries
  <2>2. /\ hdn' = lhn /\ lhn' = lhn /\ lhsec' = lhsec /\ tail' = 1
        /\ phase' = "commit" /\ busy' = busy /\ busy
        /\ \A i \in 1 .. lhn : hdsec'[i] = lhsec[i]
    BY <1>6, <2>1 DEF CommitHead, WriteHead
  <2> QED
    BY <1>0, <2>1, <2>2 DEF PhaseInv, Distinct
<1>7. CASE InstallTrans
  <2>1. /\ tail \in 1 .. lhn /\ lhn \in Nat /\ tail' = tail + 1
        /\ UNCHANGED <<dlog, hdn, hdsec, lhn, lhsec, busy, phase>>
        /\ disk' = [disk EXCEPT ![lhsec[tail]] = dlog[tail]]
        /\ phase \in {"commit", "recover"}
    BY <1>0, <1>7 DEF InstallTrans, TypeOK
  <2>2. ASSUME NEW j \in 1 .. lhn, j < tail' PROVE disk'[lhsec[j]] = dlog[j]
    <3>1. disk \in [Blocks -> Data] /\ lhsec[j] \in Blocks /\ lhsec[tail] \in Blocks
      BY <1>0, <2>1 DEF TypeOK, PhaseInv, Distinct
    <3>2. CASE j = tail
      BY <2>1, <3>1, <3>2
    <3>3. CASE j # tail
      <4>1. j < tail /\ lhsec[j] # lhsec[tail]
        BY <1>0, <2>1, <2>2, <3>3 DEF PhaseInv, Distinct
      <4> QED
        BY <1>0, <2>1, <3>1, <4>1 DEF PhaseInv
    <3> QED
      BY <3>2, <3>3
  <2>3. tail' <= lhn + 1
    BY <2>1
  <2> QED
    BY <1>0, <2>1, <2>2, <2>3 DEF PhaseInv, Distinct
<1>8. CASE EraseLog
  BY <1>0, <1>8 DEF EraseLog, WriteHead, EndTrans, PhaseInv, Distinct
<1>9. CASE ReadHead
  <2>1. 1 .. hdn \subseteq Entries /\ hdn \in Nat
    BY <1>0 DEF TypeOK, Entries
  <2>2. /\ lhn' = hdn /\ tail' = 1 /\ phase = "boot" /\ phase' = "recover"
        /\ UNCHANGED <<hdn, hdsec, busy>>
        /\ \A i \in 1 .. hdn : lhsec'[i] = hdsec[i]
    BY <1>9, <2>1 DEF ReadHead, stable
  <2> QED
    BY <1>0, <2>1, <2>2 DEF PhaseInv, Distinct
<1>10. CASE Crash
  BY <1>0, <1>10 DEF Crash, PhaseInv, Distinct, stable
<1>11. CASE UNCHANGED vars
  BY <1>0, <1>11 DEF vars, stable, PhaseInv, Distinct
<1> QED
  BY <1>1, <1>2, <1>3, <1>4, <1>5, <1>6, <1>7, <1>8, <1>9, <1>10, <1>11 DEF Next

\* The inductive invariant holds in every reachable state of the log.
THEOREM Invariance == Spec => []IInv
<1>1. IInv /\ [Next]_vars => IInv'
  BY TypeStep, PhaseStep DEF IInv
<1> QED
  BY InitIInv, <1>1, PTL DEF Spec

\* log.lh.n respects both bounds, and nothing else leaves its range.
THEOREM TypeCorrect == Spec => []TypeOK
<1>1. IInv => TypeOK
  BY DEF IInv
<1> QED
  BY Invariance, <1>1, PTL

-----------------------------------------------------------------------------
\* The copy of the block of entry i is the one in log sector i.
LEMMA CopyOfEntry ==
    ASSUME NEW lg, NEW sec, NEW n \in Nat, Distinct(sec, n), NEW i \in 1 .. n
    PROVE  LogCopy(lg, sec, n, sec[i]) = lg[i]
<1> DEFINE k == CHOOSE j \in 1 .. n : sec[j] = sec[i]
<1>1. k \in 1 .. n /\ sec[k] = sec[i]
  OBVIOUS
<1>2. k = i
  BY <1>1 DEF Distinct
<1> QED
  BY <1>2 DEF LogCopy

\* The committed store, read off the header: log copies first, then the disk.
LEMMA StoreIs ==
    ASSUME IInv
    PROVE  /\ \A i \in 1 .. hdn : Store[hdsec[i]] = dlog[i]
           /\ \A b \in Blocks : ~Logged(hdsec, hdn, b) => Store[b] = disk[b]
<1>1. hdn \in Nat /\ Distinct(hdsec, hdn)
  BY DEF IInv, TypeOK, PhaseInv
<1>2. ASSUME NEW i \in 1 .. hdn PROVE Store[hdsec[i]] = dlog[i]
  <2>1. hdsec[i] \in Blocks /\ Logged(hdsec, hdn, hdsec[i])
    BY <1>1 DEF Distinct, Logged
  <2>2. LogCopy(dlog, hdsec, hdn, hdsec[i]) = dlog[i]
    BY <1>1, CopyOfEntry
  <2> QED
    BY <2>1, <2>2 DEF Store
<1>3. \A b \in Blocks : ~Logged(hdsec, hdn, b) => Store[b] = disk[b]
  BY DEF Store
<1> QED
  BY <1>2, <1>3

\* The open transaction, read off the header in memory.
LEMMA PendIs ==
    ASSUME IInv
    PROVE  /\ Open => \A i \in 1 .. lhn : Pend[lhsec[i]] = dlog[i]
           /\ \A b \in Blocks : ~(Open /\ Logged(lhsec, lhn, b)) => Pend[b] = NoWrite
<1>1. lhn \in Nat /\ Distinct(lhsec, lhn)
  BY DEF IInv, TypeOK, PhaseInv
<1>2. ASSUME NEW i \in 1 .. lhn, Open PROVE Pend[lhsec[i]] = dlog[i]
  <2>1. lhsec[i] \in Blocks /\ Logged(lhsec, lhn, lhsec[i])
    BY <1>1 DEF Distinct, Logged
  <2>2. LogCopy(dlog, lhsec, lhn, lhsec[i]) = dlog[i]
    BY <1>1, CopyOfEntry
  <2> QED
    BY <1>2, <2>1, <2>2 DEF Pend
<1>3. \A b \in Blocks : ~(Open /\ Logged(lhsec, lhn, b)) => Pend[b] = NoWrite
  BY DEF Pend
<1> QED
  BY <1>2, <1>3

-----------------------------------------------------------------------------
\* A step that leaves the disk alone leaves the store alone.
LEMMA SameStore == UNCHANGED stable => Store' = Store
  BY DEF stable, Store, Logged, LogCopy

\* The mapped state outside a transaction has nothing pending.
LEMMA NothingPending == ~Open => Pend = Abs!Nothing
  BY DEF Pend, Abs!Nothing

LEMMA NothingPendingNext == ~Open' => Pend' = Abs!Nothing
  BY DEF Pend, Abs!Nothing

\* Outside a transaction only the store is visible.
LEMMA ClosedStutter == ~Open /\ ~Open' /\ Store' = Store => UNCHANGED Abs!vars
<1> SUFFICES ASSUME ~Open, ~Open', Store' = Store PROVE UNCHANGED Abs!vars
  OBVIOUS
<1>1. Open' = Open
  BY DEF Open
<1>2. Pend' = Pend
  BY NothingPending, NothingPendingNext
<1> QED
  BY <1>1, <1>2 DEF Abs!vars

\* Initially: no transaction, and the store is the disk.
LEMMA InitRefines == Init => Abs!Init
<1> SUFFICES ASSUME Init PROVE Abs!Init
  OBVIOUS
<1>1. Store = disk
  BY DEF Init, Store, Logged
<1>2. ~Open
  BY DEF Init, Open
<1> QED
  BY <1>1, <1>2, NothingPending DEF Init, Abs!Init

\* log_write(b) of v is the abstract write of v to b, absorbed or appended.
LEMMA LogWriteRefines ==
    ASSUME IInv, NEW b \in Blocks, NEW v \in Data, LogWrite(b, v)
    PROVE  Abs!Write(b, v)
<1>0. PICK i \in Entries : /\ EntryOf(b, i)
                           /\ lhsec' = [lhsec EXCEPT ![i] = b]
                           /\ dlog'  = [dlog EXCEPT ![i] = v]
                           /\ lhn'   = IF i = lhn + 1 THEN lhn + 1 ELSE lhn
  BY DEF LogWrite
<1>1. /\ Distinct(lhsec', lhn')
      /\ i \in 1 .. lhn' /\ lhsec'[i] = b
      /\ \A j \in 1 .. lhn : j # i => lhsec'[j] = lhsec[j] /\ lhsec[j] # b
      /\ \A j \in 1 .. lhn' : j # i => j \in 1 .. lhn
      /\ i \in 1 .. lhn => lhsec[i] = b
  BY <1>0, AppendDistinct DEF Distinct
<1>2. Open /\ Open' /\ UNCHANGED <<disk, hdn, hdsec>> /\ hdn = 0
  BY DEF LogWrite, Open, IInv, PhaseInv
<1>3. Store' = Store
  BY <1>2 DEF Store, Logged
<1>4. /\ lhn \in Nat /\ lhn' \in Nat /\ i \in Slots
      /\ \A j \in 1 .. lhn : j \in Slots
      /\ dlog \in [Slots -> Data] /\ ~Full(lhn)
  BY <1>0 DEF IInv, TypeOK, Entries, Slots, LogWrite, EntryOf, Full
<1>5. dlog'[i] = v /\ \A j \in 1 .. lhn : j # i => dlog'[j] = dlog[j]
  BY <1>0, <1>4
<1>6. ASSUME NEW c \in Blocks PROVE Pend'[c] = IF c = b THEN v ELSE Pend[c]
  <2>1. CASE c = b
    <3>1. Logged(lhsec', lhn', b)
      BY <1>1 DEF Logged
    <3>2. LogCopy(dlog', lhsec', lhn', b) = dlog'[i]
      BY <1>1, <1>4, CopyOfEntry
    <3> QED
      BY <2>1, <3>1, <3>2, <1>2, <1>5 DEF Pend
  <2>2. CASE c # b /\ Logged(lhsec, lhn, c)
    <3> PICK j \in 1 .. lhn : lhsec[j] = c
      BY <2>2 DEF Logged
    <3>1. j # i /\ j \in 1 .. lhn' /\ lhsec'[j] = c
      BY <1>0, <1>1, <1>4, <2>2
    <3>2. LogCopy(dlog', lhsec', lhn', lhsec'[j]) = dlog'[j]
      BY <1>1, <1>4, <3>1, CopyOfEntry
    <3>3. Pend'[c] = dlog'[j]
      BY <1>2, <3>1, <3>2 DEF Pend, Logged
    <3>4. Pend[lhsec[j]] = dlog[j]
      BY <1>2, PendIs
    <3> QED
      BY <2>2, <3>1, <3>3, <3>4, <1>5
  <2>3. CASE c # b /\ ~Logged(lhsec, lhn, c)
    <3>1. ~Logged(lhsec', lhn', c)
      BY <1>1, <2>3 DEF Logged
    <3> QED
      BY <2>3, <3>1 DEF Pend
  <2> QED
    BY <2>1, <2>2, <2>3
<1>7. Pend' = [Pend EXCEPT ![b] = v]
  BY <1>6 DEF Pend
<1> QED
  BY <1>2, <1>3, <1>7 DEF Abs!Write

\* The header write of commit_trans() is the abstract commit.
LEMMA CommitHeadRefines == ASSUME IInv, CommitHead PROVE Abs!Commit
<1>1. /\ Open /\ ~Open' /\ hdn = 0 /\ hdn' = lhn /\ lhn \in Nat
      /\ disk' = disk /\ dlog' = dlog
  BY DEF CommitHead, WriteHead, Open, IInv, PhaseInv, TypeOK
<1>2. 1 .. lhn \subseteq Entries
  BY DEF IInv, TypeOK, Entries
<1>3. \A i \in 1 .. lhn : hdsec'[i] = lhsec[i]
  BY <1>2 DEF CommitHead, WriteHead
<1>4. Distinct(lhsec, lhn) /\ Distinct(hdsec', hdn')
  BY <1>1, <1>3 DEF IInv, PhaseInv, Distinct
<1>5. ASSUME NEW c \in Blocks
      PROVE  Store'[c] = IF Pend[c] = NoWrite THEN Store[c] ELSE Pend[c]
  <2>1. CASE Logged(lhsec, lhn, c)
    <3> PICK j \in 1 .. lhn : lhsec[j] = c
      BY <2>1 DEF Logged
    <3>1. LogCopy(dlog', hdsec', hdn', hdsec'[j]) = dlog'[j]
      BY <1>1, <1>4, CopyOfEntry
    <3>2. Store'[c] = dlog[j]
      BY <1>1, <1>3, <3>1 DEF Store, Logged
    <3>3. Pend[lhsec[j]] = dlog[j]
      BY <1>1, PendIs
    <3>4. dlog[j] # NoWrite
      BY DEF IInv, TypeOK, Slots
    <3> QED
      BY <3>2, <3>3, <3>4
  <2>2. CASE ~Logged(lhsec, lhn, c)
    <3>1. Pend[c] = NoWrite
      BY <2>2 DEF Pend
    <3>2. Store'[c] = disk[c]
      BY <1>1, <1>3, <2>2 DEF Store, Logged
    <3>3. Store[c] = disk[c]
      BY <1>1 DEF Store, Logged
    <3> QED
      BY <3>1, <3>2, <3>3
  <2> QED
    BY <2>1, <2>2
<1>6. Store' = [c \in Blocks |-> IF Pend[c] = NoWrite THEN Store[c] ELSE Pend[c]]
  BY <1>5 DEF Store
<1> QED
  BY <1>1, <1>6, NothingPendingNext DEF Abs!Commit

\* install_trans() changes only blocks whose copy in the log still counts.
LEMMA InstallRefines == ASSUME IInv, InstallTrans PROVE UNCHANGED Abs!vars
<1>1. /\ UNCHANGED <<hdn, hdsec, dlog>> /\ ~Open /\ ~Open'
      /\ tail \in 1 .. lhn /\ hdn = lhn /\ hdsec[tail] = lhsec[tail]
      /\ disk' = [disk EXCEPT ![lhsec[tail]] = dlog[tail]]
  BY DEF InstallTrans, Open, IInv, PhaseInv, TypeOK
<1>2. ASSUME NEW c \in Blocks, ~Logged(hdsec, hdn, c) PROVE disk'[c] = disk[c]
  <2>1. c # lhsec[tail]
    BY <1>1, <1>2 DEF Logged
  <2> QED
    BY <1>1, <2>1 DEF IInv, TypeOK
<1>3. Store' = Store
  BY <1>1, <1>2 DEF Store, Logged, LogCopy
<1> QED
  BY <1>1, <1>3, ClosedStutter

\* The log is erased when every block it holds is at home.
LEMMA EraseRefines == ASSUME IInv, EraseLog PROVE Open' \/ UNCHANGED Abs!vars
<1>1. /\ hdn' = 0 /\ disk' = disk /\ ~Open /\ ~Open' /\ tail > lhn
      /\ hdn = lhn /\ lhn \in Nat /\ tail \in Nat
      /\ \A i \in 1 .. lhn : hdsec[i] = lhsec[i]
      /\ \A i \in 1 .. lhn : i < tail => disk[lhsec[i]] = dlog[i]
  BY DEF EraseLog, WriteHead, EndTrans, Open, IInv, PhaseInv, TypeOK
<1>2. Store' = [c \in Blocks |-> disk[c]]
  BY <1>1 DEF Store, Logged
<1>3. ASSUME NEW c \in Blocks PROVE Store[c] = disk[c]
  <2>1. CASE Logged(hdsec, hdn, c)
    <3> PICK j \in 1 .. hdn : hdsec[j] = c
      BY <2>1 DEF Logged
    <3>1. Store[hdsec[j]] = dlog[j]
      BY StoreIs
    <3>2. disk[lhsec[j]] = dlog[j]
      BY <1>1
    <3> QED
      BY <3>1, <3>2, <1>1
  <2> QED
    BY <2>1, StoreIs
<1>4. Store' = Store
  BY <1>2, <1>3 DEF Store
<1> QED
  BY <1>1, <1>4, ClosedStutter

LEMMA StepRefines == IInv /\ [Next]_vars => [Abs!Next]_(Abs!vars)
<1> SUFFICES ASSUME IInv, [Next]_vars PROVE Abs!Next \/ UNCHANGED Abs!vars
  OBVIOUS
<1>1. ASSUME NEW b \in Blocks, Bread(b) \/ Recycle(b) PROVE UNCHANGED Abs!vars
  <2>1. UNCHANGED <<stable, lhn, lhsec, busy, phase>> /\ Store' = Store
    BY <1>1, SameStore DEF Bread, Recycle
  <2> QED
    BY <2>1 DEF Abs!vars, Open, Pend, Logged, LogCopy, stable
<1>2. ASSUME NEW p \in Procs, BeginTrans(p) PROVE Abs!Begin \/ UNCHANGED Abs!vars
  <2>1. UNCHANGED <<stable, lhn, lhsec, phase>> /\ Store' = Store
    BY <1>2, SameStore DEF BeginTrans
  <2>2. CASE busy' = busy
    BY <2>1, <2>2 DEF Abs!vars, Open, Pend, Logged, LogCopy, stable
  <2>3. CASE ~busy /\ busy' = TRUE /\ phase = "run"
    <3>1. ~Open /\ Open' /\ lhn = 0 /\ lhn' = 0
      BY <2>1, <2>3 DEF Open, IInv, PhaseInv
    <3>2. Pend = Abs!Nothing /\ Pend' = Abs!Nothing
      BY <3>1, NothingPending DEF Pend, Logged, Abs!Nothing
    <3> QED
      BY <2>1, <3>1, <3>2 DEF Abs!Begin
  <2>4. CASE ~busy /\ phase = "commit"
    BY <2>4 DEF IInv, PhaseInv
  <2> QED
    BY <1>2, <2>2, <2>3, <2>4 DEF BeginTrans
<1>3. ASSUME NEW b \in Blocks, NEW v \in Data, LogWrite(b, v) PROVE Abs!Next
  BY <1>3, LogWriteRefines DEF Abs!Next
<1>4. CASE LogWritePanic
  <2>1. Store' = Store /\ ~Open'
    BY <1>4, SameStore DEF LogWritePanic, Open
  <2> QED
    BY <2>1, ClosedStutter, NothingPendingNext DEF Abs!Next, Abs!Abort, Open
<1>5. CASE CommitEmpty
  <2>1. Store' = Store /\ Open /\ ~Open' /\ lhn = 0
    BY <1>5, SameStore DEF CommitEmpty, EndTrans, Open
  <2> QED
    BY <2>1, NothingPendingNext DEF Abs!Next, Abs!Abort
<1>6. CASE CommitHead
  BY <1>6, CommitHeadRefines DEF Abs!Next
<1>7. CASE InstallTrans
  BY <1>7, InstallRefines
<1>8. CASE EraseLog
  <2>1. ~Open'
    BY <1>8 DEF EraseLog, EndTrans, Open, IInv, PhaseInv
  <2> QED
    BY <1>8, <2>1, EraseRefines
<1>9. CASE ReadHead
  <2>1. Store' = Store /\ ~Open /\ ~Open'
    BY <1>9, SameStore DEF ReadHead, Open
  <2> QED
    BY <2>1, ClosedStutter
<1>10. CASE Crash
  <2>1. Store' = Store /\ ~Open'
    BY <1>10, SameStore DEF Crash, Open
  <2> QED
    BY <2>1, ClosedStutter, NothingPendingNext DEF Abs!Next, Abs!Abort, Open
<1>11. CASE UNCHANGED vars
  BY <1>11 DEF vars, stable, Abs!vars, Store, Open, Pend, Logged, LogCopy
<1> QED
  BY <1>1, <1>2, <1>3, <1>4, <1>5, <1>6, <1>7, <1>8, <1>9, <1>10, <1>11
     DEF Next, Abs!Next

\* log.c gives the file system atomic transactions whatever the crashes: begin,
\* log_write, commit and recovery implement the abstract store LogAbs.
THEOREM LogIsAtomic == Spec => AtomicTransactions
  BY InitRefines, StepRefines, Invariance, PTL DEF Spec, AtomicTransactions, Abs!Spec
-----------------------------------------------------------------------------
\* A buffer without B_DIRTY is a copy of its home sector; one with B_DIRTY holds
\* the log's copy of a block that install_trans() has not reached, and every such
\* block has one.
CacheInv ==
    /\ \A b \in Blocks : b \notin dirty => cache[b] \in {NoBuf, disk[b]}
    /\ \A b \in dirty : \E i \in 1 .. lhn :
          lhsec[i] = b /\ cache[b] = dlog[i] /\ (phase = "commit" => tail <= i)
    /\ phase = "run" => \A i \in 1 .. lhn : lhsec[i] \in dirty
    /\ phase = "commit" => \A i \in 1 .. lhn : tail <= i => lhsec[i] \in dirty
    /\ phase \in {"boot", "recover"} => dirty = {}

\* log_write() keeps the pinned buffers and the entries of the log together.
LEMMA LogWriteCache ==
    ASSUME IInv, CacheInv, NEW b \in Blocks, NEW v \in Data, LogWrite(b, v)
    PROVE  CacheInv'
<1>0. TypeOK /\ lhn \in Nat
  BY DEF IInv, TypeOK
<1> PICK i \in Entries : /\ EntryOf(b, i)
                         /\ lhsec' = [lhsec EXCEPT ![i] = b]
                         /\ dlog'  = [dlog EXCEPT ![i] = v]
                         /\ lhn'   = IF i = lhn + 1 THEN lhn + 1 ELSE lhn
  BY DEF LogWrite
<1>1. /\ i \in 1 .. lhn' /\ lhsec'[i] = b
      /\ \A j \in 1 .. lhn : j # i => lhsec'[j] = lhsec[j] /\ lhsec[j] # b
      /\ \A j \in 1 .. lhn' : j # i => j \in 1 .. lhn
      /\ i \in 1 .. lhn => lhsec[i] = b
  BY AppendDistinct
<1>2. /\ cache' = [cache EXCEPT ![b] = v] /\ dirty' = dirty \cup {b}
      /\ phase = "run" /\ phase' = "run" /\ disk' = disk
      /\ cache \in [Blocks -> Data \cup {NoBuf}] /\ dirty \subseteq Blocks
  BY <1>0 DEF LogWrite, TypeOK
<1>3. i \in Slots /\ lhn' \in Nat
  BY <1>0 DEF LogWrite, Full, EntryOf, Slots, TypeOK
<1>4. dlog'[i] = v /\ \A j \in 1 .. lhn : j # i => dlog'[j] = dlog[j]
  <2>1. 1 .. lhn \subseteq Slots
    BY <1>0 DEF TypeOK, Slots
  <2> QED
    BY <1>0, <1>3, <2>1 DEF TypeOK
<1>5. \A c \in Blocks : c \notin dirty' => cache'[c] \in {NoBuf, disk'[c]}
  BY <1>2 DEF CacheInv
<1>6. ASSUME NEW c \in dirty'
      PROVE  \E j \in 1 .. lhn' : lhsec'[j] = c /\ cache'[c] = dlog'[j]
  <2>1. CASE c = b
    BY <1>1, <1>2, <1>4, <2>1
  <2>2. CASE c # b
    <3>1. PICK j \in 1 .. lhn : lhsec[j] = c /\ cache[c] = dlog[j]
      BY <1>2, <2>2 DEF CacheInv
    <3>2. j # i /\ j \in 1 .. lhn'
      BY <1>0, <1>1, <2>2, <3>1
    <3> QED
      BY <1>1, <1>2, <1>4, <2>2, <3>1, <3>2
  <2> QED
    BY <2>1, <2>2
<1>7. \A j \in 1 .. lhn' : lhsec'[j] \in dirty'
  BY <1>1, <1>2 DEF CacheInv
<1> QED
  BY <1>2, <1>5, <1>6, <1>7 DEF CacheInv

\* install_trans() brings one block home and lets go of its buffer.
LEMMA InstallCache == ASSUME IInv, CacheInv, InstallTrans PROVE CacheInv'
<1>1. /\ tail \in 1 .. lhn /\ lhn \in Nat /\ tail' = tail + 1
      /\ UNCHANGED <<dlog, lhn, lhsec, phase>>
      /\ disk' = [disk EXCEPT ![lhsec[tail]] = dlog[tail]]
      /\ cache' = [cache EXCEPT ![lhsec[tail]] = dlog[tail]]
      /\ dirty' = dirty \ {lhsec[tail]}
      /\ phase \in {"commit", "recover"}
      /\ disk \in [Blocks -> Data] /\ cache \in [Blocks -> Data \cup {NoBuf}]
  BY DEF IInv, InstallTrans, TypeOK
<1>2. /\ lhsec[tail] \in Blocks
      /\ \A j \in 1 .. lhn : j # tail => lhsec[j] # lhsec[tail]
  BY <1>1 DEF IInv, PhaseInv, Distinct
<1>3. \A c \in Blocks : c \notin dirty' => cache'[c] \in {NoBuf, disk'[c]}
  BY <1>1, <1>2 DEF CacheInv
<1>4. ASSUME NEW c \in dirty'
      PROVE  \E j \in 1 .. lhn' : lhsec'[j] = c /\ cache'[c] = dlog'[j]
                                    /\ (phase' = "commit" => tail' <= j)
  <2>1. c \in dirty /\ c # lhsec[tail]
    BY <1>1
  <2>2. PICK j \in 1 .. lhn : lhsec[j] = c /\ cache[c] = dlog[j]
                                /\ (phase = "commit" => tail <= j)
    BY <2>1 DEF CacheInv
  <2>3. j # tail /\ (phase = "commit" => tail' <= j)
    BY <1>1, <2>1, <2>2
  <2>4. cache'[c] = cache[c]
    BY <1>1, <2>1 DEF IInv, TypeOK
  <2> QED
    BY <1>1, <2>2, <2>3, <2>4
<1>5. phase' = "commit" => \A j \in 1 .. lhn' : tail' <= j => lhsec'[j] \in dirty'
  BY <1>1, <1>2 DEF CacheInv
<1> QED
  BY <1>1, <1>3, <1>4, <1>5 DEF CacheInv

LEMMA CacheStep == IInv /\ CacheInv /\ [Next]_vars => CacheInv'
<1> SUFFICES ASSUME IInv, CacheInv, [Next]_vars PROVE CacheInv'
  OBVIOUS
<1>0. TypeOK /\ PhaseInv
  BY DEF IInv
<1>1. ASSUME NEW b \in Blocks, Bread(b) \/ Recycle(b) PROVE CacheInv'
  <2>1. /\ \/ cache' = [cache EXCEPT ![b] = disk[b]] /\ cache[b] = NoBuf
           \/ cache' = [cache EXCEPT ![b] = NoBuf] /\ b \notin dirty
        /\ UNCHANGED <<disk, dlog, dirty, lhn, lhsec, phase, tail>>
        /\ cache \in [Blocks -> Data \cup {NoBuf}]
    BY <1>0, <1>1 DEF Bread, Recycle, stable, TypeOK
  <2>2. b \notin dirty
    <3>1. ASSUME NEW i \in 1 .. lhn PROVE dlog[i] # NoBuf
      <4>1. i \in Slots
        BY <1>0 DEF TypeOK, Slots
      <4> QED
        BY <1>0, <4>1 DEF TypeOK
    <3> QED
      BY <2>1, <3>1 DEF CacheInv
  <2>3. \A c \in Blocks : c # b => cache'[c] = cache[c]
    BY <2>1
  <2>4. cache'[b] \in {NoBuf, disk[b]}
    BY <2>1
  <2>5. \A c \in dirty : cache'[c] = cache[c]
    BY <1>0, <2>2, <2>3 DEF TypeOK
  <2> QED
    BY <2>1, <2>3, <2>4, <2>5 DEF CacheInv
<1>2. ASSUME NEW p \in Procs, BeginTrans(p) PROVE CacheInv'
  BY <1>2 DEF BeginTrans, CacheInv, stable
<1>3. ASSUME NEW b \in Blocks, NEW v \in Data, LogWrite(b, v) PROVE CacheInv'
  BY <1>3, LogWriteCache
<1>4. CASE LogWritePanic
  BY <1>4 DEF LogWritePanic, CacheInv, stable
<1>5. CASE CommitEmpty
  BY <1>5 DEF CommitEmpty, CacheInv, stable
<1>6. CASE CommitHead
  <2>1. /\ phase = "run" /\ phase' = "commit" /\ tail' = 1 /\ lhn \in Nat
        /\ UNCHANGED <<disk, dlog, cache, dirty, lhn, lhsec>>
    BY <1>0, <1>6 DEF CommitHead, TypeOK
  <2> QED
    BY <2>1 DEF CacheInv
<1>7. CASE InstallTrans
  BY <1>7, InstallCache
<1>8. CASE EraseLog
  <2>1. /\ phase \in {"commit", "recover"} /\ tail > lhn /\ phase' = "run"
        /\ lhn \in Nat /\ tail \in Nat /\ lhn' = 0
        /\ UNCHANGED <<disk, dlog, cache, dirty, lhsec, tail>>
    BY <1>0, <1>8 DEF EraseLog, TypeOK
  <2>2. dirty = {}
    BY <2>1 DEF CacheInv
  <2> QED
    BY <2>1, <2>2 DEF CacheInv
<1>9. CASE ReadHead
  BY <1>9 DEF ReadHead, CacheInv, stable
<1>10. CASE Crash
  BY <1>10 DEF Crash, CacheInv, stable
<1>11. CASE UNCHANGED vars
  BY <1>11 DEF vars, stable, CacheInv
<1> QED
  BY <1>1, <1>2, <1>3, <1>4, <1>5, <1>6, <1>7, <1>8, <1>9, <1>10, <1>11 DEF Next
LEMMA CacheHolds == Spec => []CacheInv
<1>1. Init => CacheInv
  BY DEF Init, CacheInv
<1> QED
  BY <1>1, CacheStep, Invariance, PTL DEF Spec

\* bread() returns the open transaction's writes, and the committed content of
\* every block it has not written, whatever was recycled and read again.
THEOREM CacheShowsTransaction == Spec => []ReadsSeeWrites
<1>1. IInv /\ CacheInv => ReadsSeeWrites
  <2> SUFFICES ASSUME IInv, CacheInv, phase \in {"run", "commit"}, NEW b \in Blocks
               PROVE  View(b) = IF Pend[b] # NoWrite THEN Pend[b] ELSE Store[b]
    BY DEF ReadsSeeWrites
  <2>0. lhn \in Nat /\ tail \in Nat /\ 1 .. lhn \subseteq Slots
        /\ dlog \in [Slots -> Data] /\ dirty \subseteq Blocks
    BY DEF IInv, TypeOK, Slots
  <2>1. ASSUME NEW i \in 1 .. lhn, lhsec[i] = b, b \in dirty PROVE View(b) = dlog[i]
    <3>1. cache[b] = dlog[i]
      BY <2>1 DEF CacheInv, IInv, PhaseInv, Distinct
    <3>2. dlog[i] \in Data
      BY <2>0
    <3> QED
      BY <3>1, <3>2 DEF View
  <2>2. b \notin dirty => View(b) = disk[b]
    BY DEF CacheInv, View
  <2>3. CASE phase = "run"
    <3>1. Store[b] = disk[b]
      <4>1. hdn = 0
        BY <2>3 DEF IInv, PhaseInv
      <4>2. ~Logged(hdsec, hdn, b)
        BY <4>1 DEF Logged
      <4> QED
        BY <4>2, StoreIs
    <3>2. CASE Logged(lhsec, lhn, b)
      <4>1. PICK i \in 1 .. lhn : lhsec[i] = b
        BY <3>2 DEF Logged
      <4>2. Open
        BY <2>0, <2>3, <4>1 DEF IInv, PhaseInv, Open
      <4>3. Pend[b] = dlog[i] /\ dlog[i] # NoWrite
        BY <2>0, <4>1, <4>2, PendIs
      <4>4. b \in dirty
        BY <2>3, <4>1 DEF CacheInv
      <4> QED
        BY <2>1, <4>1, <4>3, <4>4
    <3>3. CASE ~Logged(lhsec, lhn, b)
      <4>1. Pend[b] = NoWrite
        BY <3>3, PendIs
      <4>2. b \notin dirty
        BY <3>3 DEF CacheInv, Logged
      <4> QED
        BY <2>2, <3>1, <4>1, <4>2
    <3> QED
      BY <3>2, <3>3
  <2>4. CASE phase = "commit"
    <3>0. /\ hdn = lhn
          /\ \A i \in 1 .. lhn : hdsec[i] = lhsec[i]
          /\ \A i \in 1 .. lhn : i < tail => disk[lhsec[i]] = dlog[i]
      BY <2>4 DEF IInv, PhaseInv
    <3>1. Pend[b] = NoWrite
      <4>1. ~Open
        BY <2>4 DEF Open
      <4> QED
        BY <4>1, PendIs
    <3>2. CASE Logged(lhsec, lhn, b)
      <4>1. PICK i \in 1 .. lhn : lhsec[i] = b
        BY <3>2 DEF Logged
      <4>2. Store[b] = dlog[i]
        BY <3>0, <4>1, StoreIs
      <4>3. CASE b \in dirty
        BY <2>1, <3>1, <4>1, <4>2, <4>3
      <4>4. CASE b \notin dirty
        <5>1. i < tail
          BY <2>0, <2>4, <4>1, <4>4 DEF CacheInv
        <5> QED
          BY <2>2, <3>0, <3>1, <4>1, <4>2, <4>4, <5>1
      <4> QED
        BY <4>3, <4>4
    <3>3. CASE ~Logged(lhsec, lhn, b)
      <4>1. b \notin dirty
        BY <3>3 DEF CacheInv, Logged
      <4>2. ~Logged(hdsec, hdn, b)
        BY <3>0, <3>3 DEF Logged
      <4> QED
        BY <2>2, <3>1, <4>1, <4>2, StoreIs
    <3> QED
      BY <3>2, <3>3
  <2> QED
    BY <2>3, <2>4
<1> QED
  BY <1>1, Invariance, CacheHolds, PTL

\* commit_trans() and the crash leave no buffer pinned, and log_write() uses one
\* entry per block: every pinned buffer belongs to the transaction in memory.
THEOREM NoStrayPins == Spec => []PinnedAreLogged
<1>1. IInv /\ CacheInv => PinnedAreLogged
  <2> SUFFICES ASSUME IInv, CacheInv PROVE PinnedAreLogged
    OBVIOUS
  <2>1. ASSUME NEW i \in 1 .. lhn PROVE dlog[i] # NoBuf
    <3>1. i \in Slots
      BY DEF IInv, TypeOK, Slots
    <3> QED
      BY <3>1 DEF IInv, TypeOK
  <2>2. ASSUME NEW b \in dirty PROVE cache[b] # NoBuf /\ Logged(lhsec, lhn, b)
    <3>1. PICK i \in 1 .. lhn : lhsec[i] = b /\ cache[b] = dlog[i]
      BY DEF CacheInv
    <3> QED
      BY <2>1, <3>1 DEF Logged
  <2> QED
    BY <2>2 DEF PinnedAreLogged, IInv, PhaseInv, Distinct
<1> QED
  BY <1>1, Invariance, CacheHolds, PTL

\* begin_trans() sleeps only on a transaction of another process, so that the
\* wakeup at the end of commit_trans() is still to come.
THEOREM BeginTransIsWoken == Spec => []NoLostWakeup
<1> DEFINE Awaited == (asleep # {} => busy) /\ holder \notin asleep
<1>1. Init => Awaited
  BY DEF Init
<1>2. IInv /\ Awaited /\ [Next]_vars => Awaited'
  <2> SUFFICES ASSUME IInv, Awaited, [Next]_vars PROVE Awaited'
    OBVIOUS
  <2>1. ASSUME NEW p \in Procs, BeginTrans(p) PROVE Awaited'
    BY <2>1 DEF BeginTrans
  <2>2. ASSUME UNCHANGED <<busy, holder, asleep>> PROVE Awaited'
    BY <2>2
  <2>3. ASSUME asleep' = {} PROVE Awaited'
    BY <2>3
  <2>4. ASSUME NEW b \in Blocks, Bread(b) \/ Recycle(b) PROVE Awaited'
    BY <2>2, <2>4 DEF Bread, Recycle
  <2>5. ASSUME NEW b \in Blocks, NEW v \in Data, LogWrite(b, v) PROVE Awaited'
    BY <2>2, <2>5 DEF LogWrite
  <2>6. CASE LogWritePanic \/ CommitHead \/ InstallTrans \/ ReadHead \/ UNCHANGED vars
    BY <2>2, <2>6 DEF LogWritePanic, CommitHead, InstallTrans, ReadHead, vars
  <2>7. CASE CommitEmpty \/ EraseLog \/ Crash
    BY <2>2, <2>3, <2>7 DEF CommitEmpty, EraseLog, Crash, EndTrans
  <2> QED
    BY <2>1, <2>4, <2>5, <2>6, <2>7 DEF Next
<1>3. Awaited => NoLostWakeup
  BY DEF NoLostWakeup
<1> QED
  BY <1>1, <1>2, <1>3, Invariance, PTL DEF Spec
=============================================================================
