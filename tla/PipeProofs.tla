----------------------------- MODULE PipeProofs -----------------------------
(***************************************************************************)
(* Proofs about Pipe for every number of processes, every buffer size and  *)
(* every width of the counters.                                            *)
(***************************************************************************)
EXTENDS Pipe, SequenceTheorems, TLAPS

IInv == TypeOK /\ NoLostWakeup /\ NoUseAfterFree

\* Reduction modulo C of a sum of two numbers below C.
LEMMA ModTwice ==
    ASSUME NEW C \in Nat, C > 0, NEW x \in Nat, x < 2 * C
    PROVE  x % C = IF x < C THEN x ELSE x - C
<1>1. CASE x < C
  BY <1>1
<1>2. CASE ~(x < C)
  <2>1. x = C + (x - C) /\ x - C \in 0 .. C - 1
    BY <1>2
  <2> QED BY <2>1, <1>2
<1> QED BY <1>1, <1>2

\* The number of bytes between the counters r and w.
CountOf(r, w) == (w + CMOD - r) % CMOD

LEMMA CountRange ==
    ASSUME NEW r \in 0 .. CMOD - 1, NEW w \in 0 .. CMOD - 1
    PROVE  /\ CountOf(r, w) = IF w >= r THEN w - r ELSE w + CMOD - r
           /\ CountOf(r, w) \in 0 .. CMOD - 1
           /\ CountOf(r, w) = 0 <=> r = w
<1>1. w + CMOD - r \in Nat /\ w + CMOD - r < 2 * CMOD /\ CMOD \in Nat /\ CMOD > 0
  BY PipeAssumption
<1>2. CountOf(r, w) = IF w + CMOD - r < CMOD THEN w + CMOD - r ELSE w - r
  BY <1>1, ModTwice DEF CountOf
<1> QED BY <1>1, <1>2

\* The test nwrite == nread + PIPESIZE is exactly "PIPESIZE bytes inside",
\* whatever the counters have wrapped to.
LEMMA FullTest ==
    ASSUME NEW r \in 0 .. CMOD - 1, NEW w \in 0 .. CMOD - 1
    PROVE  CountOf(r, w) = PIPESIZE <=> w = (r + PIPESIZE) % CMOD
<1>1. PIPESIZE \in Nat /\ CMOD \in Nat /\ CMOD > PIPESIZE /\ PIPESIZE > 0
  BY PipeAssumption
<1>2. (r + PIPESIZE) % CMOD = IF r + PIPESIZE < CMOD THEN r + PIPESIZE
                                                     ELSE r + PIPESIZE - CMOD
  BY <1>1, ModTwice
<1>3. PICK f : f = (r + PIPESIZE) % CMOD
  OBVIOUS
<1>4. PICK c : c = CountOf(r, w)
  OBVIOUS
<1>5. c = IF w >= r THEN w - r ELSE w + CMOD - r
  BY <1>4, CountRange
<1>6. f = IF r + PIPESIZE < CMOD THEN r + PIPESIZE ELSE r + PIPESIZE - CMOD
  BY <1>2, <1>3
<1>7. c = PIPESIZE <=> w = f
  BY <1>1, <1>5, <1>6
<1> QED BY <1>3, <1>4, <1>7

\* Storing m bytes that fit adds m to the count, taking m removes m.
LEMMA CountMoves ==
    ASSUME NEW r \in 0 .. CMOD - 1, NEW w \in 0 .. CMOD - 1, NEW m \in Nat
    PROVE  /\ CountOf(r, w) + m <= PIPESIZE =>
                 /\ (w + m) % CMOD \in 0 .. CMOD - 1
                 /\ CountOf(r, (w + m) % CMOD) = CountOf(r, w) + m
           /\ m <= CountOf(r, w) =>
                 /\ (r + m) % CMOD \in 0 .. CMOD - 1
                 /\ CountOf((r + m) % CMOD, w) = CountOf(r, w) - m
<1>0. CMOD \in Nat /\ CMOD > PIPESIZE /\ PIPESIZE \in Nat /\ CMOD > 0
  BY PipeAssumption
<1>1. ASSUME CountOf(r, w) + m <= PIPESIZE
      PROVE  /\ (w + m) % CMOD \in 0 .. CMOD - 1
             /\ CountOf(r, (w + m) % CMOD) = CountOf(r, w) + m
  <2>1. m < CMOD
    BY <1>0, <1>1, CountRange
  <2>2. (w + m) % CMOD = IF w + m < CMOD THEN w + m ELSE w + m - CMOD
    BY <1>0, <2>1, ModTwice
  <2>3. (w + m) % CMOD \in 0 .. CMOD - 1
    BY <1>0, <2>1, <2>2
  <2>4. PICK v : v = (w + m) % CMOD
    OBVIOUS
  <2>5. /\ v \in 0 .. CMOD - 1
        /\ v = IF w + m < CMOD THEN w + m ELSE w + m - CMOD
    BY <2>2, <2>3, <2>4
  <2>6. CountOf(r, v) = IF v >= r THEN v - r ELSE v + CMOD - r
    BY <2>5, CountRange
  <2>7. PICK c : c = CountOf(r, w)
    OBVIOUS
  <2>8. c = IF w >= r THEN w - r ELSE w + CMOD - r
    BY <2>7, CountRange
  <2>9. CountOf(r, v) = c + m
    <3>1. c + m <= PIPESIZE
      BY <1>1, <2>7
    <3> QED BY <1>0, <2>1, <2>5, <2>6, <2>8, <3>1
  <2> QED BY <2>3, <2>4, <2>7, <2>9
<1>2. ASSUME m <= CountOf(r, w)
      PROVE  /\ (r + m) % CMOD \in 0 .. CMOD - 1
             /\ CountOf((r + m) % CMOD, w) = CountOf(r, w) - m
  <2>1. m < CMOD
    BY <1>0, <1>2, CountRange
  <2>2. (r + m) % CMOD = IF r + m < CMOD THEN r + m ELSE r + m - CMOD
    BY <1>0, <2>1, ModTwice
  <2>3. (r + m) % CMOD \in 0 .. CMOD - 1
    BY <1>0, <2>1, <2>2
  <2>4. PICK v : v = (r + m) % CMOD
    OBVIOUS
  <2>5. /\ v \in 0 .. CMOD - 1
        /\ v = IF r + m < CMOD THEN r + m ELSE r + m - CMOD
    BY <2>2, <2>3, <2>4
  <2>6. CountOf(v, w) = IF w >= v THEN w - v ELSE w + CMOD - v
    BY <2>5, CountRange
  <2>7. PICK c : c = CountOf(r, w)
    OBVIOUS
  <2>8. c = IF w >= r THEN w - r ELSE w + CMOD - r
    BY <2>7, CountRange
  <2>9. CountOf(v, w) = c - m
    <3>1. m <= c
      BY <1>2, <2>7
    <3> QED BY <1>0, <2>1, <2>5, <2>6, <2>8, <3>1
  <2> QED BY <2>3, <2>4, <2>7, <2>9
<1> QED BY <1>1, <1>2

\* What the type invariant says of the counters.
LEMMA CountersOK ==
    ASSUME TypeOK
    PROVE  /\ Count = CountOf(nread, nwrite)
           /\ Count \in 0 .. PIPESIZE
           /\ Empty <=> Count = 0
           /\ IsFull <=> Count = PIPESIZE
<1>1. Count = CountOf(nread, nwrite)
  BY DEF Count, CountOf
<1>2. nread \in 0 .. CMOD - 1 /\ nwrite \in 0 .. CMOD - 1 /\ Count <= PIPESIZE
  BY DEF TypeOK
<1>3. CountOf(nread, nwrite) \in 0 .. CMOD - 1
      /\ (CountOf(nread, nwrite) = 0 <=> nread = nwrite)
  BY <1>2, CountRange
<1>4. CountOf(nread, nwrite) = PIPESIZE <=> nwrite = (nread + PIPESIZE) % CMOD
  BY <1>2, FullTest
<1>5. Count \in 0 .. PIPESIZE
  BY <1>1, <1>2, <1>3, PipeAssumption
<1> QED BY <1>1, <1>3, <1>4, <1>5 DEF Empty, IsFull

LEMMA InitOK == Init => IInv
<1> SUFFICES ASSUME Init PROVE IInv
  OBVIOUS
<1>1. 0 \in 0 .. CMOD - 1 /\ PIPESIZE >= 0
  BY PipeAssumption
<1>2. Count = CountOf(0, 0)
  BY DEF Init, Count, CountOf
<1>3. Count = 0
  BY <1>1, <1>2, CountRange
<1>4. TypeOK
  <2>1. left \in [Procs -> 0 .. MaxN]
    BY PipeAssumption DEF Init
  <2>2. status \in [Procs -> Status]
    BY DEF Init, Status
  <2> QED BY <1>1, <1>3, <2>1, <2>2 DEF Init, TypeOK
<1> QED BY <1>4 DEF IInv, Init, NoLostWakeup, NoUseAfterFree

\* pipewrite(): the only step that adds bytes.
LEMMA WriteOK ==
    ASSUME IInv, NEW p \in Procs, NEW n \in 0 .. MaxN, PipeWrite(p, n)
    PROVE  IInv'
<1>1. WriteBody(p, n) /\ status[p] \in {"user", "wrun"} /\ p \in hasW
  BY DEF PipeWrite, IInv, NoUseAfterFree
<1>2. TypeOK /\ NoLostWakeup /\ NoUseAfterFree
  BY DEF IInv
<1>3. Count \in 0 .. PIPESIZE /\ PIPESIZE \in Nat /\ CMOD \in Nat /\ MaxN \in Nat
  BY <1>2, CountersOK, PipeAssumption
<1>4. PICK s \in [1 .. Smaller(n, Room) -> Val] :
        /\ data' = Stored(s)
        /\ nwrite' = (nwrite + Len(s)) % CMOD
        /\ left' = [left EXCEPT ![p] =
                       IF Len(s) < n /\ readopen THEN n - Len(s) ELSE 0]
        /\ status' =
              CASE Len(s) = n -> [WakeReaders(status) EXCEPT ![p] = "user"]
                [] Len(s) < n /\ readopen ->
                      [WakeReaders(status) EXCEPT ![p] = "wsleep"]
                [] OTHER -> [status EXCEPT ![p] = "user"]
        /\ UNCHANGED <<nread, readopen, writeopen, alloc, hasR, hasW, killed, out>>
  BY <1>1 DEF WriteBody
<1>5. PICK m : m = Len(s)
  OBVIOUS
<1>6. m = Smaller(n, Room) /\ m \in Nat /\ m <= n /\ Count + m <= PIPESIZE
      /\ (m < n => Count + m = PIPESIZE)
  BY <1>3, <1>5 DEF Smaller, Room
<1>7. nwrite' \in 0 .. CMOD - 1 /\ Count' = Count + m
  <2>1. nread \in 0 .. CMOD - 1 /\ nwrite \in 0 .. CMOD - 1
    BY <1>2 DEF TypeOK
  <2>2. Count = CountOf(nread, nwrite) /\ Count' = CountOf(nread, nwrite')
    BY <1>4 DEF Count, CountOf
  <2> QED BY <1>4, <1>5, <1>6, <2>1, <2>2, CountMoves
<1>8. data' \in [Index -> Val]
  <2>1. data \in [Index -> Val]
    BY <1>2 DEF TypeOK
  <2>2. \A x \in Index : Stored(s)[x] \in Val
    <3> TAKE x \in Index
    <3>1. CASE \E k \in 1 .. Len(s) : (nwrite + k - 1) % PIPESIZE = x
      <4> DEFINE k0 == CHOOSE k \in 1 .. Len(s) : (nwrite + k - 1) % PIPESIZE = x
      <4>1. k0 \in 1 .. Len(s)
        BY <3>1
      <4>2. Stored(s)[x] = s[k0]
        BY <3>1 DEF Stored
      <4> HIDE DEF k0
      <4>3. s[k0] \in Val
        BY <4>1, <1>5, <1>6
      <4> QED BY <4>2, <4>3
    <3>2. CASE ~ \E k \in 1 .. Len(s) : (nwrite + k - 1) % PIPESIZE = x
      BY <3>2, <2>1 DEF Stored
    <3> QED BY <3>1, <3>2
  <2> QED BY <1>4, <2>2 DEF Stored
<1>9. left' \in [Procs -> 0 .. MaxN]
  <2>1. left \in [Procs -> 0 .. MaxN]
    BY <1>2 DEF TypeOK
  <2>2. PICK l : l = IF m < n /\ readopen THEN n - m ELSE 0
    OBVIOUS
  <2>3. l \in 0 .. MaxN
    BY <1>3, <1>6, <2>2
  <2>4. left' = [left EXCEPT ![p] = l]
    BY <1>4, <1>5, <2>2, Zenon
  <2> QED BY <2>1, <2>3, <2>4
<1>10. /\ status' \in [Procs -> Status]
       /\ \A q \in Procs \ {p} : status'[q] = status[q]
                                 \/ (status[q] = "rsleep" /\ status'[q] = "rrun")
       /\ (m < n /\ readopen) \/ status'[p] = "user"
       /\ status'[p] \in {"user", "wsleep"}
       /\ (readopen \/ m = n) => \A q \in Procs \ {p} : status'[q] # "rsleep"
  <2>1. status \in [Procs -> Status]
    BY <1>2 DEF TypeOK
  <2> DEFINE awake == WakeReaders(status)
  <2>0. /\ awake \in [Procs -> Status]
        /\ \A q \in Procs : awake[q] # "rsleep"
        /\ \A q \in Procs : awake[q] = status[q]
                            \/ (status[q] = "rsleep" /\ awake[q] = "rrun")
    <3>1. awake = [q \in Procs |-> IF status[q] = "rsleep" THEN "rrun"
                                                           ELSE status[q]]
      BY DEF WakeReaders, Wake
    <3> HIDE DEF awake
    <3>2. awake \in [Procs -> Status]
      BY <2>1, <3>1 DEF Status
    <3> QED BY <3>1, <3>2
  <2> HIDE DEF awake
  <2>2. CASE m = n
    <3>1. status' = [awake EXCEPT ![p] = "user"]
      BY <1>4, <1>5, <2>2 DEF awake
    <3> QED BY <3>1, <2>0, <2>2 DEF Status
  <2>3. CASE m < n /\ readopen
    <3>1. m # n
      BY <1>3, <1>6, <2>3
    <3>2. status' = [awake EXCEPT ![p] = "wsleep"]
      BY <1>4, <1>5, <2>3, <3>1 DEF awake
    <3> QED BY <3>2, <2>0, <2>3 DEF Status
  <2>4. CASE m < n /\ ~readopen
    <3>1. m # n
      BY <1>3, <1>6, <2>4
    <3>2. status' = [status EXCEPT ![p] = "user"]
      BY <1>4, <1>5, <2>4, <3>1
    <3>3. status' \in [Procs -> Status] /\ status'[p] = "user"
      BY <2>1, <3>2 DEF Status
    <3>4. \A q \in Procs \ {p} : status'[q] = status[q]
      BY <2>1, <3>2
    <3> QED BY <3>1, <3>3, <3>4, <2>4
  <2> QED BY <1>3, <1>6, <2>2, <2>3, <2>4
<1>11. TypeOK'
  BY <1>2, <1>3, <1>4, <1>6, <1>7, <1>8, <1>9, <1>10 DEF TypeOK
<1>12. NoUseAfterFree'
  BY <1>1, <1>2, <1>4, <1>10 DEF NoUseAfterFree
<1>13. NoLostWakeup'
  <2>1. /\ Empty' <=> Count' = 0
        /\ IsFull' <=> Count' = PIPESIZE
        /\ Empty <=> Count = 0
        /\ IsFull <=> Count = PIPESIZE
    <3>1. (TypeOK => /\ Empty <=> Count = 0
                     /\ IsFull <=> Count = PIPESIZE)
      BY CountersOK
    <3>2. (TypeOK => /\ Empty <=> Count = 0
                     /\ IsFull <=> Count = PIPESIZE)'
      BY CountersOK, PTL
    <3> QED BY <3>1, <3>2, <1>2, <1>11
  <2>2. ASSUME NEW q \in Procs, status'[q] = "wsleep"
        PROVE  IsFull' /\ readopen'
    BY <1>2, <1>3, <1>4, <1>6, <1>7, <1>10, <2>1, <2>2 DEF NoLostWakeup
  <2>3. ASSUME NEW q \in Procs, status'[q] = "rsleep"
        PROVE  Empty' /\ writeopen' /\ q \notin killed'
    <3>1. q # p /\ status[q] = "rsleep" /\ ~readopen
      BY <1>10, <2>3, <1>3, <1>6
    <3> QED BY <3>1, <1>2 DEF NoUseAfterFree
  <2> QED BY <2>2, <2>3 DEF NoLostWakeup
<1> QED BY <1>11, <1>12, <1>13 DEF IInv

\* piperead(): the only step that takes bytes.
LEMMA ReadOK ==
    ASSUME IInv, NEW p \in Procs, NEW n \in 0 .. MaxN, PipeRead(p, n)
    PROVE  IInv'
<1>1. status[p] \in {"user", "rrun"} /\ p \in hasR
  BY DEF PipeRead, IInv, NoUseAfterFree
<1>2. TypeOK /\ NoLostWakeup /\ NoUseAfterFree
  BY DEF IInv
<1>3. /\ Count \in 0 .. PIPESIZE /\ PIPESIZE \in Nat /\ CMOD \in Nat
      /\ MaxN \in Nat /\ PIPESIZE > 0
      /\ Empty <=> Count = 0
      /\ IsFull <=> Count = PIPESIZE
  BY <1>2, CountersOK, PipeAssumption
<1>4. status \in [Procs -> Status] /\ left \in [Procs -> 0 .. MaxN]
  BY <1>2 DEF TypeOK
<1>5. CASE ReadWait(p, n)
  <2> USE <1>5 DEF ReadWait
  <2>1. /\ status' \in [Procs -> Status]
        /\ \A q \in Procs \ {p} : status'[q] = status[q]
        /\ p \in killed => status'[p] = "user"
        /\ p \notin killed => status'[p] = "rsleep"
    BY <1>4 DEF Status
  <2>2. left' \in [Procs -> 0 .. MaxN]
    BY <1>3, <1>4
  <2>3. TypeOK'
    BY <1>2, <2>1, <2>2 DEF TypeOK, Count
  <2>4. NoLostWakeup'
    BY <1>2, <2>1 DEF NoLostWakeup, Empty, IsFull
  <2>5. NoUseAfterFree'
    BY <1>1, <1>2, <2>1 DEF NoUseAfterFree
  <2> QED BY <2>3, <2>4, <2>5 DEF IInv
<1>6. CASE ReadCopy(p, n)
  <2>1. PICK m : m = Smaller(n, Count)
    OBVIOUS
  <2>2. m \in Nat /\ m <= Count
    BY <1>3, <2>1 DEF Smaller
  <2>3. nread' \in 0 .. CMOD - 1 /\ Count' = Count - m
    <3>1. nread \in 0 .. CMOD - 1 /\ nwrite \in 0 .. CMOD - 1
      BY <1>2 DEF TypeOK
    <3>2. Count = CountOf(nread, nwrite) /\ Count' = CountOf(nread', nwrite)
      BY <1>6 DEF Count, CountOf, ReadCopy
    <3>3. nread' = (nread + m) % CMOD
      BY <1>6, <2>1 DEF ReadCopy
    <3> QED BY <2>2, <3>1, <3>2, <3>3, CountMoves
  <2>4. /\ status' \in [Procs -> Status]
        /\ status'[p] = "user"
        /\ \A q \in Procs : status'[q] # "wsleep"
        /\ \A q \in Procs \ {p} :
              status'[q] = status[q] \/ (status[q] = "wsleep" /\ status'[q] = "wrun")
    <3> DEFINE awake == WakeWriters(status)
    <3>1. awake = [q \in Procs |-> IF status[q] = "wsleep" THEN "wrun"
                                                           ELSE status[q]]
      BY DEF WakeWriters, Wake
    <3>2. status' = [awake EXCEPT ![p] = "user"]
      BY <1>6 DEF ReadCopy
    <3> HIDE DEF awake
    <3>3. awake \in [Procs -> Status]
      BY <1>4, <3>1 DEF Status
    <3>4. status' \in [Procs -> Status] /\ status'[p] = "user"
      BY <3>2, <3>3 DEF Status
    <3> QED BY <3>1, <3>2, <3>3, <3>4
  <2>5. left' \in [Procs -> 0 .. MaxN]
    BY <1>3, <1>4, <1>6 DEF ReadCopy
  <2>6. TypeOK'
    BY <1>2, <1>3, <1>6, <2>2, <2>3, <2>4, <2>5 DEF TypeOK, ReadCopy
  <2>7. NoLostWakeup'
    <3>1. ASSUME NEW q \in Procs, status'[q] = "rsleep"
          PROVE  Empty' /\ writeopen' /\ q \notin killed'
      <4>1. q # p /\ status[q] = "rsleep"
        BY <2>4, <3>1
      <4>2. Empty /\ writeopen
        BY <1>2, <4>1 DEF NoLostWakeup
      <4> QED BY <1>6, <4>2 DEF ReadCopy
    <3> QED BY <2>4, <3>1 DEF NoLostWakeup
  <2>8. NoUseAfterFree'
    BY <1>1, <1>2, <1>6, <2>4 DEF NoUseAfterFree, ReadCopy
  <2> QED BY <2>6, <2>7, <2>8 DEF IInv
<1> QED BY <1>5, <1>6 DEF PipeRead

\* Making, inheriting and closing ends, and kill().
LEMMA EndsOK ==
    ASSUME IInv, NEW p \in Procs,
           \/ PipeAlloc(p)
           \/ \E q \in Procs : Inherit(p, q)
           \/ CloseRead(p) \/ CloseWrite(p) \/ Kill(p)
    PROVE  IInv'
<1>1. TypeOK /\ NoLostWakeup /\ NoUseAfterFree
  BY DEF IInv
<1>2. status \in [Procs -> Status]
  BY <1>1 DEF TypeOK
<1>3. CASE PipeAlloc(p)
  <2>1. 0 \in 0 .. CMOD - 1 /\ PIPESIZE >= 0
    BY PipeAssumption
  <2>2. Count' = CountOf(0, 0)
    BY <1>3 DEF PipeAlloc, Count, CountOf
  <2>3. Count' = 0
    BY <2>1, <2>2, CountRange
  <2>4. TypeOK'
    BY <1>1, <1>3, <2>1, <2>3 DEF TypeOK, PipeAlloc
  <2>5. \A q \in Procs : status'[q] = "user"
    BY <1>1, <1>2, <1>3 DEF NoUseAfterFree, PipeAlloc, Status
  <2> QED BY <1>3, <2>4, <2>5 DEF IInv, NoLostWakeup, NoUseAfterFree, PipeAlloc
<1>4. ASSUME NEW q \in Procs, Inherit(p, q) PROVE IInv'
  <2> USE <1>4 DEF Inherit
  <2>1. TypeOK'
    BY <1>1 DEF TypeOK, Count
  <2>2. NoLostWakeup'
    BY <1>1 DEF NoLostWakeup, Empty, IsFull
  <2>3. NoUseAfterFree'
    BY <1>1 DEF NoUseAfterFree
  <2> QED BY <2>1, <2>2, <2>3 DEF IInv
<1>5. CASE CloseRead(p)
  <2>1. CASE hasR = {p}
    <3>1. /\ status' = WakeWriters(status) /\ readopen' = FALSE
          /\ alloc' = writeopen /\ hasR' = {}
      BY <1>5, <2>1 DEF CloseRead, PipeCloseRead
    <3>2. /\ status' \in [Procs -> Status]
          /\ \A q \in Procs : status'[q] # "wsleep"
          /\ \A q \in Procs :
               status'[q] = status[q] \/ (status[q] = "wsleep" /\ status'[q] = "wrun")
      <4>1. status' = [q \in Procs |-> IF status[q] = "wsleep" THEN "wrun"
                                                               ELSE status[q]]
        BY <3>1 DEF WakeWriters, Wake
      <4>2. status' \in [Procs -> Status]
        BY <1>2, <4>1 DEF Status
      <4> QED BY <4>1, <4>2
    <3>3. TypeOK'
      BY <1>1, <1>5, <3>1, <3>2 DEF TypeOK, Count, CloseRead
    <3>4. NoLostWakeup'
      BY <1>1, <1>5, <3>2 DEF NoLostWakeup, Empty, CloseRead
    <3>5. NoUseAfterFree'
      BY <1>1, <1>5, <2>1, <3>1, <3>2 DEF NoUseAfterFree, CloseRead
    <3> QED BY <3>3, <3>4, <3>5 DEF IInv
  <2>2. CASE hasR # {p}
    <3> USE <1>5, <2>2 DEF CloseRead
    <3>1. TypeOK'
      BY <1>1 DEF TypeOK, Count
    <3>2. NoLostWakeup'
      BY <1>1 DEF NoLostWakeup, Empty, IsFull
    <3>3. NoUseAfterFree'
      BY <1>1 DEF NoUseAfterFree
    <3> QED BY <3>1, <3>2, <3>3 DEF IInv
  <2> QED BY <2>1, <2>2
<1>6. CASE CloseWrite(p)
  <2>1. CASE hasW = {p}
    <3>1. /\ status' = WakeReaders(status) /\ writeopen' = FALSE
          /\ alloc' = readopen /\ hasW' = {}
      BY <1>6, <2>1 DEF CloseWrite, PipeCloseWrite
    <3>2. /\ status' \in [Procs -> Status]
          /\ \A q \in Procs : status'[q] # "rsleep"
          /\ \A q \in Procs :
               status'[q] = status[q] \/ (status[q] = "rsleep" /\ status'[q] = "rrun")
      <4>1. status' = [q \in Procs |-> IF status[q] = "rsleep" THEN "rrun"
                                                               ELSE status[q]]
        BY <3>1 DEF WakeReaders, Wake
      <4>2. status' \in [Procs -> Status]
        BY <1>2, <4>1 DEF Status
      <4> QED BY <4>1, <4>2
    <3>3. TypeOK'
      BY <1>1, <1>6, <3>1, <3>2 DEF TypeOK, Count, CloseWrite
    <3>4. NoLostWakeup'
      BY <1>1, <1>6, <3>2 DEF NoLostWakeup, IsFull, CloseWrite
    <3>5. NoUseAfterFree'
      BY <1>1, <1>6, <2>1, <3>1, <3>2 DEF NoUseAfterFree, CloseWrite
    <3> QED BY <3>3, <3>4, <3>5 DEF IInv
  <2>2. CASE hasW # {p}
    <3> USE <1>6, <2>2 DEF CloseWrite
    <3>1. TypeOK'
      BY <1>1 DEF TypeOK, Count
    <3>2. NoLostWakeup'
      BY <1>1 DEF NoLostWakeup, Empty, IsFull
    <3>3. NoUseAfterFree'
      BY <1>1 DEF NoUseAfterFree
    <3> QED BY <3>1, <3>2, <3>3 DEF IInv
  <2> QED BY <2>1, <2>2
<1>7. CASE Kill(p)
  <2> USE <1>7 DEF Kill
  <2>1. /\ status' \in [Procs -> Status]
        /\ \A q \in Procs \ {p} : status'[q] = status[q]
        /\ status'[p] \notin {"rsleep", "wsleep"}
        /\ status'[p] = "rrun" => status[p] \in {"rsleep", "rrun"}
        /\ status'[p] = "wrun" => status[p] \in {"wsleep", "wrun"}
    BY <1>2 DEF Status
  <2>2. TypeOK'
    BY <1>1, <2>1 DEF TypeOK, Count
  <2>3. NoLostWakeup'
    BY <1>1, <2>1 DEF NoLostWakeup, Empty, IsFull
  <2>4. NoUseAfterFree'
    BY <1>1, <2>1 DEF NoUseAfterFree
  <2> QED BY <2>2, <2>3, <2>4 DEF IInv
<1> QED BY <1>3, <1>4, <1>5, <1>6, <1>7

\* Every step of a process on the pipe preserves the inductive invariant.
THEOREM Invariance == Spec => []IInv
<1>1. ASSUME IInv, [Next]_vars PROVE IInv'
  <2>1. CASE Next
    <3>1. PICK p \in Procs :
            \/ PipeAlloc(p)
            \/ \E q \in Procs : Inherit(p, q)
            \/ CloseRead(p)
            \/ CloseWrite(p)
            \/ \E n \in 0 .. MaxN : PipeWrite(p, n)
            \/ \E n \in 0 .. MaxN : PipeRead(p, n)
            \/ Kill(p)
      BY <2>1 DEF Next
    <3>2. CASE \E n \in 0 .. MaxN : PipeWrite(p, n)
      BY <1>1, <3>2, WriteOK
    <3>3. CASE \E n \in 0 .. MaxN : PipeRead(p, n)
      BY <1>1, <3>3, ReadOK
    <3> QED BY <1>1, <3>1, <3>2, <3>3, EndsOK
  <2>2. CASE UNCHANGED vars
    BY <1>1, <2>2 DEF vars, IInv, TypeOK, NoLostWakeup, NoUseAfterFree, Count,
                      Empty, IsFull
  <2> QED BY <1>1, <2>1, <2>2
<1> QED BY <1>1, InitOK, PTL DEF Spec

\* The counters stay in range and the ring never holds more than PIPESIZE bytes.
THEOREM TypeCorrect == Spec => []TypeOK
<1>1. IInv => TypeOK
  BY DEF IInv
<1> QED BY Invariance, <1>1, PTL

\* No reader or writer of a pipe sleeps through the event it waits for.
THEOREM PipeNeverMissesWakeup == Spec => []NoLostWakeup
<1>1. IInv => NoLostWakeup
  BY DEF IInv
<1> QED BY Invariance, <1>1, PTL

\* pipeclose() frees the pipe exactly when nobody can be using it.
THEOREM PipeFreedOnce == Spec => []NoUseAfterFree
<1>1. IInv => NoUseAfterFree
  BY DEF IInv
<1> QED BY Invariance, <1>1, PTL

-----------------------------------------------------------------------------
(* The ring is a first-in first-out channel.  PIPESIZE divides the modulus   *)
(* of the counters, so a counter picks the same slot after it wraps around.  *)

\* The only multiple of N strictly between -N and N.
LEMMA OnlyZero ==
    ASSUME NEW N \in Nat \ {0}, NEW d \in Int, -N < N * d, N * d < N
    PROVE  d = 0
<1>1. d >= 1 => N * d >= N
  OBVIOUS
<1>2. d <= -1 => N * d <= -N
  OBVIOUS
<1> QED BY <1>1, <1>2

LEMMA Quotient ==
    ASSUME NEW a \in Nat, NEW N \in Nat \ {0}
    PROVE  \E q \in Int, m \in 0 .. N - 1 : a % N = m /\ a = N * q + m
<1>1. /\ a \div N \in Int /\ a % N \in 0 .. N - 1
      /\ a = N * (a \div N) + (a % N)
  OBVIOUS
<1> QED BY <1>1, Zenon

LEMMA AddMultiple ==
    ASSUME NEW a \in Nat, NEW c \in Nat, NEW N \in Nat \ {0}, c % N = 0
    PROVE  (a + c) % N = a % N
<1>1. PICK qa \in Int, ma \in 0 .. N - 1 : a % N = ma /\ a = N * qa + ma
  BY Quotient
<1>2. PICK qc \in Int, mc \in 0 .. N - 1 : c % N = mc /\ c = N * qc + mc
  BY Quotient
<1>3. a + c \in Nat
  OBVIOUS
<1>4. PICK q \in Int, m \in 0 .. N - 1 : (a + c) % N = m /\ a + c = N * q + m
  BY <1>3, Quotient
<1> DEFINE d == q - qa - qc
<1>5. d \in Int /\ N * d = N * q - N * qa - N * qc
  OBVIOUS
<1>6. mc = 0
  BY <1>2
<1> HIDE DEF d
<1>7. N * d = ma - m
  BY <1>1, <1>2, <1>4, <1>5, <1>6
<1>8. d = 0
  BY <1>5, <1>7, OnlyZero
<1>9. ma = m
  BY <1>7, <1>8
<1> QED BY <1>1, <1>4, <1>9

LEMMA SlotsDiffer ==
    ASSUME NEW x \in Nat, NEW y \in Nat, NEW N \in Nat \ {0},
           x < y + N, y < x + N, x % N = y % N
    PROVE  x = y
<1>1. PICK qx \in Int, mx \in 0 .. N - 1 : x % N = mx /\ x = N * qx + mx
  BY Quotient
<1>2. PICK qy \in Int, my \in 0 .. N - 1 : y % N = my /\ y = N * qy + my
  BY Quotient
<1>3. mx = my
  BY <1>1, <1>2
<1> DEFINE d == qx - qy
<1>4. d \in Int /\ N * d = N * qx - N * qy
  OBVIOUS
<1> HIDE DEF d
<1>5. N * d = x - y
  BY <1>1, <1>2, <1>3, <1>4
<1>6. d = 0
  BY <1>4, <1>5, OnlyZero
<1> QED BY <1>5, <1>6

\* A counter that wrapped around names the slot it would name without wrapping.
LEMMA Wrapped ==
    ASSUME NEW x \in Nat, x < 2 * CMOD, NEW i \in Nat
    PROVE  ((x % CMOD) + i) % PIPESIZE = (x + i) % PIPESIZE
<1>0. /\ CMOD \in Nat /\ CMOD > 0 /\ PIPESIZE \in Nat \ {0}
      /\ CMOD % PIPESIZE = 0
  BY PipeAssumption
<1>1. x % CMOD = IF x < CMOD THEN x ELSE x - CMOD
  BY <1>0, ModTwice
<1>2. CASE x < CMOD
  <2>1. x % CMOD = x
    BY <1>1, <1>2
  <2> QED BY <2>1
<1>3. CASE ~(x < CMOD)
  <2>1. x % CMOD = x - CMOD
    BY <1>1, <1>3
  <2>2. x - CMOD + i \in Nat /\ (x - CMOD + i) + CMOD = x + i
    BY <1>0, <1>3
  <2>3. ((x - CMOD + i) + CMOD) % PIPESIZE = (x - CMOD + i) % PIPESIZE
    BY <1>0, <2>2, AddMultiple
  <2> QED BY <2>1, <2>2, <2>3
<1> QED BY <1>2, <1>3

\* The slot after the last byte inside is the one nwrite names.
LEMMA WriteSlot ==
    ASSUME TypeOK, NEW i \in Nat
    PROVE  (nwrite + i) % PIPESIZE = (nread + Count + i) % PIPESIZE
<1>1. /\ nread \in 0 .. CMOD - 1 /\ nwrite \in 0 .. CMOD - 1
      /\ CMOD \in Nat /\ CMOD > PIPESIZE /\ PIPESIZE \in Nat /\ CMOD > 0
  BY PipeAssumption DEF TypeOK
<1>2. PICK c : c = Count
  OBVIOUS
<1>3. c = IF nwrite >= nread THEN nwrite - nread ELSE nwrite + CMOD - nread
  BY <1>1, <1>2, CountersOK, CountRange
<1>4. PICK x : x = nread + c
  OBVIOUS
<1>5. x \in Nat /\ x < 2 * CMOD /\ (nwrite = IF x < CMOD THEN x ELSE x - CMOD)
  BY <1>1, <1>3, <1>4
<1>6. x % CMOD = nwrite
  BY <1>1, <1>5, ModTwice
<1>7. ((x % CMOD) + i) % PIPESIZE = (x + i) % PIPESIZE
  BY <1>5, Wrapped
<1> QED BY <1>2, <1>4, <1>6, <1>7, Zenon

\* The bytes in the pipe, oldest first: what Abs is given as its queue.
Queue == IF alloc THEN Front(Count) ELSE <<>>

\* The n bytes from counter r on in the ring d.
Bytes(d, r, n) == [k \in 1 .. n |-> d[(r + k - 1) % PIPESIZE]]

LEMMA BytesAre ==
    ASSUME NEW d \in [Index -> Val], NEW r \in Nat, NEW n \in Nat
    PROVE  /\ Bytes(d, r, n) \in Seq(Val) /\ Len(Bytes(d, r, n)) = n
           /\ \A k \in 1 .. n : Bytes(d, r, n)[k] = d[(r + k - 1) % PIPESIZE]
<1>1. \A k \in 1 .. n : d[(r + k - 1) % PIPESIZE] \in Val
  <2> TAKE k \in 1 .. n
  <2>1. r + k - 1 \in Nat /\ PIPESIZE \in Nat \ {0}
    BY PipeAssumption
  <2>2. (r + k - 1) % PIPESIZE \in 0 .. PIPESIZE - 1
    BY <2>1, Quotient
  <2> QED BY <2>2 DEF Index
<1>2. Bytes(d, r, n) \in [1 .. n -> Val]
  BY <1>1 DEF Bytes
<1>3. Bytes(d, r, n) \in Seq(Val) /\ Len(Bytes(d, r, n)) = n
  BY <1>2
<1> QED BY <1>3 DEF Bytes

\* Bytes stored in free slots: those inside stay, the new ones follow them.
LEMMA StoredIs ==
    ASSUME TypeOK, NEW s \in Seq(Val), Count + Len(s) <= PIPESIZE
    PROVE  /\ \A k \in 1 .. Count :
                 Stored(s)[(nread + k - 1) % PIPESIZE]
                 = data[(nread + k - 1) % PIPESIZE]
           /\ \A j \in 1 .. Len(s) :
                 Stored(s)[(nread + Count + j - 1) % PIPESIZE] = s[j]
<1> DEFINE at(i) == (nread + i - 1) % PIPESIZE
<1>1. /\ PIPESIZE \in Nat \ {0} /\ nread \in Nat /\ nwrite \in Nat
      /\ Count \in 0 .. PIPESIZE /\ Len(s) \in Nat
  BY CountersOK, PipeAssumption DEF TypeOK
<1>2. \A j \in 1 .. Len(s) : (nwrite + j - 1) % PIPESIZE = at(Count + j)
  <2> TAKE j \in 1 .. Len(s)
  <2>1. j - 1 \in Nat
    BY <1>1
  <2>2. (nwrite + (j - 1)) % PIPESIZE = (nread + Count + (j - 1)) % PIPESIZE
    BY <2>1, WriteSlot
  <2>3. nwrite + j - 1 = nwrite + (j - 1)
        /\ nread + (Count + j) - 1 = nread + Count + (j - 1)
    BY <1>1, <2>1
  <2> QED BY <2>2, <2>3, Zenon
<1>3. \A i \in 1 .. PIPESIZE : at(i) \in Index
  <2> TAKE i \in 1 .. PIPESIZE
  <2>1. nread + i - 1 \in Nat
    BY <1>1
  <2> QED BY <1>1, <2>1, Quotient DEF Index
<1>4. \A i, j \in 1 .. PIPESIZE : at(i) = at(j) => i = j
  <2> TAKE i, j \in 1 .. PIPESIZE
  <2>1. /\ nread + i - 1 \in Nat /\ nread + j - 1 \in Nat
        /\ nread + i - 1 < nread + j - 1 + PIPESIZE
        /\ nread + j - 1 < nread + i - 1 + PIPESIZE
    BY <1>1
  <2>2. at(i) = at(j) => nread + i - 1 = nread + j - 1
    BY <1>1, <2>1, SlotsDiffer
  <2> QED BY <1>1, <2>2
<1> HIDE DEF at
<1>5. \A x \in Index :
         Stored(s)[x] = IF \E j \in 1 .. Len(s) : at(Count + j) = x
                        THEN s[CHOOSE j \in 1 .. Len(s) : at(Count + j) = x]
                        ELSE data[x]
  <2> TAKE x \in Index
  <2>1. \A j \in 1 .. Len(s) :
           (nwrite + j - 1) % PIPESIZE = x <=> at(Count + j) = x
    BY <1>2, Zenon
  <2>2. (CHOOSE j \in 1 .. Len(s) : (nwrite + j - 1) % PIPESIZE = x)
        = (CHOOSE j \in 1 .. Len(s) : at(Count + j) = x)
    BY <2>1, Zenon
  <2>3. Stored(s)[x] =
            IF \E j \in 1 .. Len(s) : (nwrite + j - 1) % PIPESIZE = x
            THEN s[CHOOSE j \in 1 .. Len(s) : (nwrite + j - 1) % PIPESIZE = x]
            ELSE data[x]
    BY DEF Stored
  <2> QED BY <2>1, <2>2, <2>3, Zenon
<1>6. ASSUME NEW k \in 1 .. Count
      PROVE  Stored(s)[at(k)] = data[at(k)]
  <2>1. k \in 1 .. PIPESIZE
    BY <1>1
  <2>2. \A j \in 1 .. Len(s) : Count + j \in 1 .. PIPESIZE /\ Count + j # k
    BY <1>1
  <2>3. ~ \E j \in 1 .. Len(s) : at(Count + j) = at(k)
    BY <1>4, <2>1, <2>2, Zenon
  <2> QED BY <1>3, <1>5, <2>1, <2>3, Zenon
<1>7. ASSUME NEW j \in 1 .. Len(s)
      PROVE  Stored(s)[at(Count + j)] = s[j]
  <2>1. \A i \in 1 .. Len(s) : Count + i \in 1 .. PIPESIZE
    BY <1>1
  <2>2. \A i \in 1 .. Len(s) : Count + i = Count + j => i = j
    BY <1>1
  <2>3. \A i \in 1 .. Len(s) : at(Count + i) = at(Count + j) <=> i = j
    BY <1>4, <2>1, <2>2, Zenon
  <2>4. (CHOOSE i \in 1 .. Len(s) : at(Count + i) = at(Count + j)) = j
    BY <2>3, Zenon
  <2> QED BY <1>3, <1>5, <2>1, <2>4, Zenon
<1>8. \A j \in 1 .. Len(s) : at(Count + j) = (nread + Count + j - 1) % PIPESIZE
  <2> TAKE j \in 1 .. Len(s)
  <2>1. nread + (Count + j) - 1 = nread + Count + j - 1
    BY <1>1
  <2> QED BY <2>1, Zenon DEF at
<1>9. \A k \in 1 .. Count : at(k) = (nread + k - 1) % PIPESIZE
  BY Zenon DEF at
<1> QED BY <1>6, <1>7, <1>8, <1>9, Zenon

\* pipewrite() appends what it stored, or stores nothing.
\* The queue before and after a step, in terms of the ring.
LEMMA QueueIs ==
    /\ alloc => Queue = Bytes(data, nread, Count)
    /\ alloc' => Queue' = Bytes(data', nread', Count')
  BY DEF Queue, Front, Bytes

\* pipewrite() appends what it stored, or stores nothing.
LEMMA WriteRefines ==
    ASSUME IInv, NEW p \in Procs, NEW n \in 0 .. MaxN, PipeWrite(p, n)
    PROVE  Abs!Send \/ UNCHANGED <<Queue, out>>
<1>1. WriteBody(p, n) /\ alloc /\ TypeOK
  BY DEF PipeWrite, IInv, NoUseAfterFree
<1>2. /\ data \in [Index -> Val] /\ nread \in 0 .. CMOD - 1
      /\ nwrite \in 0 .. CMOD - 1 /\ CMOD \in Nat /\ nread \in Nat
      /\ Count \in 0 .. PIPESIZE /\ PIPESIZE \in Nat /\ Count \in Nat
  BY <1>1, CountersOK, PipeAssumption DEF TypeOK
<1>3. PICK s \in [1 .. Smaller(n, Room) -> Val] :
        /\ data' = Stored(s)
        /\ nwrite' = (nwrite + Len(s)) % CMOD
        /\ UNCHANGED <<nread, alloc, out>>
  BY <1>1 DEF WriteBody
<1>4. Smaller(n, Room) \in Nat /\ Count + Smaller(n, Room) <= PIPESIZE
  BY <1>2, PipeAssumption DEF Smaller, Room
<1>5. /\ s \in Seq(Val) /\ Len(s) \in Nat /\ Count + Len(s) <= PIPESIZE
      /\ s \in [1 .. Len(s) -> Val]
  BY <1>4
<1>6. Count' = Count + Len(s)
  <2>1. Count = CountOf(nread, nwrite) /\ Count' = CountOf(nread, nwrite')
    BY <1>3 DEF Count, CountOf
  <2> QED BY <1>2, <1>3, <1>5, <2>1, CountMoves
<1>7. PICK q : q = Bytes(data, nread, Count)
  OBVIOUS
<1>8. /\ q \in Seq(Val) /\ Len(q) = Count
      /\ \A k \in 1 .. Count : q[k] = data[(nread + k - 1) % PIPESIZE]
  BY <1>2, <1>7, BytesAre
<1>9. \A k \in 1 .. Count + Len(s) : data'[(nread + k - 1) % PIPESIZE] = (q \o s)[k]
  <2> TAKE k \in 1 .. Count + Len(s)
  <2>1. (q \o s)[k] = IF k <= Count THEN q[k] ELSE s[k - Count]
    BY <1>2, <1>5, <1>8, ConcatProperties
  <2>2. CASE k \in 1 .. Count
    <3>1. Stored(s)[(nread + k - 1) % PIPESIZE] = data[(nread + k - 1) % PIPESIZE]
      BY <1>1, <1>5, <2>2, StoredIs
    <3>2. k <= Count
      BY <1>2, <2>2
    <3> QED BY <1>3, <1>8, <2>1, <2>2, <3>1, <3>2, Zenon
  <2>3. CASE k \notin 1 .. Count
    <3> DEFINE j == k - Count
    <3>1. j \in 1 .. Len(s) /\ ~(k <= Count)
      BY <1>2, <1>5, <2>3
    <3>2. Stored(s)[(nread + Count + j - 1) % PIPESIZE] = s[j]
      <4> HIDE DEF j
      <4> QED BY <1>1, <1>5, <3>1, StoredIs
    <3>3. nread + Count + j - 1 = nread + k - 1
      BY <1>2, <1>5
    <3> QED BY <1>3, <2>1, <3>1, <3>2, <3>3, Zenon
  <2> QED BY <2>2, <2>3
<1>10. Bytes(data', nread', Count') = q \o s
  <2>1. Bytes(data', nread', Count')
        = [k \in 1 .. Count + Len(s) |-> data'[(nread + k - 1) % PIPESIZE]]
    BY <1>3, <1>6 DEF Bytes
  <2>2. q \o s \in Seq(Val) /\ Len(q \o s) = Count + Len(s)
    BY <1>2, <1>5, <1>8, ConcatProperties
  <2>3. q \o s = [k \in 1 .. Count + Len(s) |-> (q \o s)[k]]
    BY <2>2, LenProperties
  <2> QED BY <1>9, <2>1, <2>3, Zenon
<1>11. Queue = q /\ Queue' = Queue \o s /\ UNCHANGED out
  BY <1>1, <1>3, <1>7, <1>10, QueueIs, Zenon
<1>12. CASE Len(s) = 0
  <2>1. s = <<>>
    BY <1>5, <1>12
  <2>2. Queue' = Queue
    BY <1>8, <1>11, <2>1, ConcatEmptySeq
  <2> QED BY <1>11, <2>2
<1>13. CASE Len(s) # 0
  <2>1. Len(s) \in 1 .. PIPESIZE - Len(Queue)
    BY <1>2, <1>5, <1>8, <1>11, <1>13
  <2>2. \E m \in 1 .. PIPESIZE - Len(Queue) : \E t \in [1 .. m -> Val] :
           Queue' = Queue \o t /\ UNCHANGED out
    BY <1>5, <1>11, <2>1, Zenon
  <2> QED BY <2>2, Zenon DEF Abs!Send, Queue
<1> QED BY <1>12, <1>13

\* piperead() takes the oldest bytes, or waits.
LEMMA ReadRefines ==
    ASSUME IInv, TypeOK', NEW p \in Procs, NEW n \in 0 .. MaxN, PipeRead(p, n)
    PROVE  Abs!Receive \/ UNCHANGED <<Queue, out>>
<1>1. alloc /\ TypeOK
  BY DEF PipeRead, IInv, NoUseAfterFree
<1>2. CASE ReadWait(p, n)
  BY <1>2 DEF ReadWait, Queue, Front, Count
<1>3. CASE ReadCopy(p, n)
  <2>1. /\ Count \in 0 .. PIPESIZE /\ PIPESIZE \in Nat /\ Count \in Nat
        /\ nread \in 0 .. CMOD - 1 /\ nread \in Nat /\ nread' \in Nat
        /\ nwrite \in 0 .. CMOD - 1 /\ CMOD \in Nat \ {0} /\ CMOD > PIPESIZE
        /\ data \in [Index -> Val]
    BY <1>1, CountersOK, PipeAssumption DEF TypeOK
  <2>2. PICK m : m = Smaller(n, Count)
    OBVIOUS
  <2>3. m \in Nat /\ m <= Count /\ Count - m \in Nat
    BY <2>1, <2>2 DEF Smaller
  <2>4. /\ out' = Bytes(data, nread, m) /\ nread' = (nread + m) % CMOD
        /\ UNCHANGED <<data, alloc, nwrite>>
    BY <1>3, <2>2 DEF ReadCopy, Front, Bytes
  <2>5. Count' = Count - m
    <3>1. Count = CountOf(nread, nwrite) /\ Count' = CountOf(nread', nwrite)
      BY <2>4 DEF Count, CountOf
    <3> QED BY <2>1, <2>3, <2>4, <3>1, CountMoves
  <2>6. PICK q, c : q = Bytes(data, nread, Count) /\ c = Count
    OBVIOUS
  <2>7. /\ q \in Seq(Val) /\ Len(q) = c /\ c \in Nat /\ m <= c
        /\ \A k \in 1 .. c : q[k] \in Val /\ q[k] = data[(nread + k - 1) % PIPESIZE]
    <3>1. /\ q \in Seq(Val) /\ Len(q) = Count
          /\ \A k \in 1 .. Count : q[k] = data[(nread + k - 1) % PIPESIZE]
      <4>1. data \in [Index -> Val] /\ nread \in Nat /\ Count \in Nat
        BY <2>1
      <4> QED BY <2>6, <4>1, BytesAre
    <3>2. \A k \in 1 .. Count : q[k] \in Val
      BY <3>1, ElementOfSeq
    <3> QED BY <2>1, <2>3, <2>6, <3>1, <3>2, Zenon
  <2>8. out' = SubSeq(q, 1, m)
    <3>1. PICK o : o = Bytes(data, nread, m)
      OBVIOUS
    <3>2. /\ o \in Seq(Val) /\ Len(o) = m
          /\ \A k \in 1 .. m : o[k] = data[(nread + k - 1) % PIPESIZE]
      <4>1. data \in [Index -> Val] /\ nread \in Nat /\ m \in Nat
        BY <2>1, <2>3
      <4> QED BY <3>1, <4>1, BytesAre
    <3>3. \A k \in 1 .. m : k \in 1 .. c
      BY <2>3, <2>7
    <3>4. \A k \in 1 .. m : q[k] \in Val
      BY <2>7, <3>3
    <3>5. /\ SubSeq(q, 1, m) \in Seq(Val) /\ Len(SubSeq(q, 1, m)) = m
          /\ \A k \in 1 .. m : SubSeq(q, 1, m)[k] = q[k]
      BY <2>3, <3>4, SubSeqProperties
    <3>6. \A k \in 1 .. m : o[k] = SubSeq(q, 1, m)[k]
      BY <2>7, <3>2, <3>3, <3>5, Zenon
    <3>7. o = SubSeq(q, 1, m)
      BY <3>2, <3>5, <3>6, SeqEqual
    <3> QED BY <2>4, <3>1, <3>7, Zenon
  <2>9. Bytes(data', nread', Count') = SubSeq(q, m + 1, c)
    <3>1. PICK rest : rest = Bytes(data, nread', Count')
      OBVIOUS
    <3>2. /\ rest \in Seq(Val) /\ Len(rest) = c - m
          /\ \A k \in 1 .. c - m : rest[k] = data[(nread' + k - 1) % PIPESIZE]
      <4>1. data \in [Index -> Val] /\ nread' \in Nat /\ Count' \in Nat
        BY <2>1, <2>3, <2>5
      <4>2. Count' = c - m
        BY <2>5, <2>6
      <4> QED BY <3>1, <4>1, <4>2, BytesAre
    <3>3. \A k \in 1 .. c - m :
             (nread' + k - 1) % PIPESIZE = (nread + (m + k) - 1) % PIPESIZE
      <4> TAKE k \in 1 .. c - m
      <4>1. PICK x : x = nread + m
        OBVIOUS
      <4>2. x \in Nat /\ x < 2 * CMOD /\ k - 1 \in Nat
        BY <2>1, <2>3, <2>6, <4>1
      <4>3. ((x % CMOD) + (k - 1)) % PIPESIZE = (x + (k - 1)) % PIPESIZE
        BY <4>2, Wrapped
      <4>4. nread' = x % CMOD
        BY <2>4, <4>1
      <4>5. /\ nread' + k - 1 = nread' + (k - 1)
            /\ nread + (m + k) - 1 = x + (k - 1)
        BY <2>1, <2>3, <4>1, <4>2
      <4> QED BY <4>3, <4>4, <4>5, Zenon
    <3>4. \A k \in 1 .. c - m : m + k \in 1 .. c
      BY <2>3, <2>7
    <3>5. \A k \in m + 1 .. c : q[k] \in Val
      BY <2>3, <2>7
    <3>6. /\ SubSeq(q, m + 1, c) \in Seq(Val)
          /\ Len(SubSeq(q, m + 1, c)) = c - m
          /\ \A k \in 1 .. c - m : SubSeq(q, m + 1, c)[k] = q[m + k]
      <4>1. m + 1 \in Int /\ c \in Int
        BY <2>3, <2>7
      <4>2. /\ SubSeq(q, m + 1, c) \in Seq(Val)
            /\ Len(SubSeq(q, m + 1, c)) = IF m + 1 <= c THEN c - (m + 1) + 1 ELSE 0
            /\ \A k \in 1 .. c - (m + 1) + 1 :
                  SubSeq(q, m + 1, c)[k] = q[(m + 1) + k - 1]
        BY <3>5, <4>1, SubSeqProperties
      <4>3. c - (m + 1) + 1 = c - m /\ (m + 1 <= c \/ c - m = 0)
        BY <2>3, <2>7
      <4>4. \A k \in 1 .. c - m : (m + 1) + k - 1 = m + k
        BY <2>3, <2>7
      <4> QED BY <4>2, <4>3, <4>4, Zenon
    <3>7. \A k \in 1 .. c - m : rest[k] = SubSeq(q, m + 1, c)[k]
      BY <2>7, <3>2, <3>3, <3>4, <3>6, Zenon
    <3>8. rest = SubSeq(q, m + 1, c)
      BY <3>2, <3>6, <3>7, SeqEqual
    <3> QED BY <2>4, <3>1, <3>8, Zenon
  <2>10. /\ Queue = q /\ out' = SubSeq(Queue, 1, m)
         /\ Queue' = SubSeq(Queue, m + 1, Len(Queue))
    BY <1>1, <2>4, <2>6, <2>7, <2>8, <2>9, QueueIs, Zenon
  <2>11. m \in 0 .. Len(Queue)
    BY <2>3, <2>7, <2>10
  <2> QED BY <2>10, <2>11, Zenon DEF Abs!Receive, Queue
<1> QED BY <1>2, <1>3 DEF PipeRead

\* Making, inheriting and closing ends, and kill(): a pipe begins and ends empty,
\* and nothing else touches its bytes.
LEMMA EndsRefine ==
    ASSUME IInv, NEW p \in Procs,
           \/ PipeAlloc(p)
           \/ \E q \in Procs : Inherit(p, q)
           \/ CloseRead(p) \/ CloseWrite(p) \/ Kill(p)
    PROVE  Abs!Reset \/ UNCHANGED <<Queue, out>>
<1>1. CASE PipeAlloc(p)
  <2>1. Count' = CountOf(0, 0)
    BY <1>1 DEF PipeAlloc, Count, CountOf
  <2>2. Count' = 0
    BY <2>1, CountRange, PipeAssumption
  <2>3. Queue' = <<>> /\ out' = <<>>
    BY <1>1, <2>2 DEF PipeAlloc, Queue, Front
  <2> QED BY <2>3, Zenon DEF Abs!Reset, Queue
<1>2. ASSUME UNCHANGED <<data, nread, nwrite, alloc, out>>
      PROVE  UNCHANGED <<Queue, out>>
  BY <1>2 DEF Queue, Front, Count
<1>3. ASSUME NEW q \in Procs, Inherit(p, q) PROVE UNCHANGED <<Queue, out>>
  BY <1>2, <1>3 DEF Inherit
<1>4. CASE Kill(p)
  BY <1>2, <1>4 DEF Kill
<1>5. CASE CloseRead(p) \/ CloseWrite(p)
  <2>1. alloc /\ UNCHANGED <<data, nread, nwrite>>
    BY <1>5 DEF CloseRead, CloseWrite, IInv, NoUseAfterFree
  <2>2. (~alloc' /\ out' = <<>>) \/ UNCHANGED <<alloc, out>>
    BY <1>5, <2>1 DEF CloseRead, CloseWrite, PipeCloseRead, PipeCloseWrite, IInv,
                      TypeOK
  <2>3. ~alloc' /\ out' = <<>> => Abs!Reset
    BY DEF Abs!Reset
  <2> QED BY <1>2, <2>1, <2>2, <2>3
<1> QED BY <1>1, <1>3, <1>4, <1>5

\* Every pipe is a bounded first-in first-out channel of bytes, whatever the size
\* of the ring, the width of its counters and the number of its users: pipewrite()
\* and piperead() lose, duplicate, overwrite and reorder nothing.
THEOREM PipeIsChannel == Spec => IsChannel
<1>1. Init => Abs!Init
  BY Zenon DEF Init, Abs!Init
<1>2. IInv /\ IInv' /\ [Next]_vars
      => Abs!Send \/ Abs!Receive \/ Abs!Reset \/ UNCHANGED <<Queue, out>>
  <2> SUFFICES ASSUME IInv, IInv', [Next]_vars
               PROVE  Abs!Send \/ Abs!Receive \/ Abs!Reset \/ UNCHANGED <<Queue, out>>
    OBVIOUS
  <2>1. CASE UNCHANGED vars
    BY <2>1 DEF vars, Queue, Front, Count
  <2>2. CASE Next
    <3>1. PICK p \in Procs :
            \/ PipeAlloc(p)
            \/ \E q \in Procs : Inherit(p, q)
            \/ CloseRead(p)
            \/ CloseWrite(p)
            \/ \E n \in 0 .. MaxN : PipeWrite(p, n)
            \/ \E n \in 0 .. MaxN : PipeRead(p, n)
            \/ Kill(p)
      BY <2>2 DEF Next
    <3>2. CASE \E n \in 0 .. MaxN : PipeWrite(p, n)
      BY <3>2, WriteRefines
    <3>3. CASE \E n \in 0 .. MaxN : PipeRead(p, n)
      <4>1. TypeOK'
        BY DEF IInv
      <4> QED BY <3>3, <4>1, ReadRefines
    <3> QED BY <3>1, <3>2, <3>3, EndsRefine
  <2> QED BY <2>1, <2>2
<1>3. IInv /\ IInv' /\ [Next]_vars
      => [Abs!Send \/ Abs!Receive \/ Abs!Reset]_<<Queue, out>>
  BY <1>2, Zenon
<1> QED BY <1>1, <1>3, Invariance, PTL DEF Spec, IsChannel, Abs!Spec, Queue
=============================================================================
