---------------------------- MODULE ConsoleProofs ----------------------------
(***************************************************************************)
(* Proofs about Console and Cpu, for every number of processes and every   *)
(* size of the ring: what the readers get is what was typed, line by line  *)
(* and in order (the line queue of LineQueue.tla), no reader sleeps beside *)
(* something to read, and the nesting of locks and interrupts is sound.    *)
(***************************************************************************)
EXTENDS Console, TLAPS

-----------------------------------------------------------------------------
(* Sequences. *)

LEMMA SeqEqual ==
    ASSUME NEW S, NEW s \in Seq(S), NEW t \in Seq(S), Len(s) = Len(t),
           \A k \in 1 .. Len(s) : s[k] = t[k]
    PROVE  s = t
OBVIOUS

LEMMA ConcatIs ==
    ASSUME NEW S, NEW s \in Seq(S), NEW t \in Seq(S)
    PROVE  /\ s \o t \in Seq(S) /\ Len(s \o t) = Len(s) + Len(t)
           /\ \A k \in 1 .. Len(s) + Len(t) :
                 (s \o t)[k] = IF k <= Len(s) THEN s[k] ELSE t[k - Len(s)]
OBVIOUS

LEMMA HeadTailAre ==
    ASSUME NEW S, NEW s \in Seq(S), s # << >>
    PROVE  /\ Head(s) = s[1] /\ Tail(s) \in Seq(S) /\ Len(Tail(s)) = Len(s) - 1
           /\ \A k \in 1 .. Len(Tail(s)) : Tail(s)[k] = s[k + 1]
OBVIOUS

LEMMA PrefixIs ==
    ASSUME NEW S, NEW s \in Seq(S), NEW m \in 0 .. Len(s)
    PROVE  /\ SubSeq(s, 1, m) \in Seq(S) /\ Len(SubSeq(s, 1, m)) = m
           /\ \A k \in 1 .. m : SubSeq(s, 1, m)[k] = s[k]
OBVIOUS

-----------------------------------------------------------------------------
(* The ring: INPUT_BUF divides the modulus of the counters, so a counter    *)
(* that wrapped around names the slot it would name without wrapping.       *)

\* The only multiple of N strictly between -N and N.
LEMMA OnlyZero ==
    ASSUME NEW N \in Nat \ {0}, NEW d \in Int, -N < N * d, N * d < N
    PROVE  d = 0
<1>1. d >= 1 => N * d >= N
  OBVIOUS
<1>2. d <= -1 => N * d <= -N
  OBVIOUS
<1> QED BY <1>1, <1>2

LEMMA Quotient ==
    ASSUME NEW a \in Int, NEW N \in Nat \ {0}
    PROVE  \E q \in Int, m \in 0 .. N - 1 : a % N = m /\ a = N * q + m
<1>1. /\ a \div N \in Int /\ a % N \in 0 .. N - 1
      /\ a = N * (a \div N) + (a % N)
  OBVIOUS
<1> QED BY <1>1, Zenon

LEMMA Remainder ==
    ASSUME NEW N \in Nat \ {0}, NEW x \in Int, NEW q \in Int, NEW m \in 0 .. N - 1,
           x = N * q + m
    PROVE  x % N = m
<1>1. PICK p \in Int, o \in 0 .. N - 1 : x % N = o /\ x = N * p + o
  BY Quotient
<1> DEFINE d == q - p
<1>2. d \in Int /\ N * d = N * q - N * p
  OBVIOUS
<1> HIDE DEF d
<1>3. N * d = o - m
  BY <1>1, <1>2
<1>4. d = 0
  BY <1>2, <1>3, OnlyZero
<1> QED BY <1>1, <1>3, <1>4

LEMMA SlotsDiffer ==
    ASSUME NEW x \in Int, NEW y \in Int, NEW N \in Nat \ {0},
           x < y + N, y < x + N, x % N = y % N
    PROVE  x = y
<1>1. PICK qx \in Int, mx \in 0 .. N - 1 : x % N = mx /\ x = N * qx + mx
  BY Quotient, Zenon
<1>2. PICK qy \in Int, my \in 0 .. N - 1 : y % N = my /\ y = N * qy + my
  BY Quotient, Zenon
<1>3. mx = my
  BY <1>1, <1>2
<1> DEFINE d == qx - qy
<1>4. d \in Int /\ N * d = N * qx - N * qy
  OBVIOUS
<1> HIDE DEF d
<1>5. N * d = x - y
  BY <1>1, <1>2, <1>3, <1>4
<1>6. d = 0
  BY <1>4, <1>5, OnlyZero
<1> QED BY <1>5, <1>6

\* Reduction of a number one modulus away at most.
LEMMA Near ==
    ASSUME NEW x \in Int, -CMOD <= x, x < 2 * CMOD
    PROVE  x % CMOD = IF x < 0 THEN x + CMOD ELSE IF x < CMOD THEN x ELSE x - CMOD
<1>0. CMOD \in Nat \ {0}
  BY ConsoleAssumption
<1>1. CASE x < 0
  <2>1. x + CMOD \in 0 .. CMOD - 1 /\ x = CMOD * (-1) + (x + CMOD)
    BY <1>0, <1>1
  <2>2. x % CMOD = x + CMOD
    BY <1>0, <2>1, Remainder
  <2> QED BY <1>1, <2>2
<1>2. CASE x >= 0 /\ x < CMOD
  <2>1. x \in 0 .. CMOD - 1 /\ x = CMOD * 0 + x
    BY <1>0, <1>2
  <2>2. x % CMOD = x
    BY <1>0, <2>1, Remainder
  <2> QED BY <1>2, <2>2
<1>3. CASE x >= CMOD
  <2>1. x - CMOD \in 0 .. CMOD - 1 /\ x = CMOD * 1 + (x - CMOD)
    BY <1>0, <1>3
  <2>2. x % CMOD = x - CMOD
    BY <1>0, <2>1, Remainder
  <2> QED BY <1>0, <1>3, <2>2
<1> QED BY <1>1, <1>2, <1>3, <1>0

LEMMA Wrapped ==
    ASSUME NEW x \in Int, NEW k \in Int
    PROVE  ((x % CMOD) + k) % INPUT_BUF = (x + k) % INPUT_BUF
<1>0. CMOD \in Nat \ {0} /\ INPUT_BUF \in Nat \ {0} /\ CMOD % INPUT_BUF = 0
  BY ConsoleAssumption
<1>1. PICK q \in Int, m \in 0 .. CMOD - 1 : x % CMOD = m /\ x = CMOD * q + m
  <2>1. CMOD \in Nat \ {0}
    BY <1>0
  <2> QED BY <2>1, Quotient, Zenon
<1>2. PICK t \in Int, z \in 0 .. INPUT_BUF - 1 : CMOD % INPUT_BUF = z /\ CMOD = INPUT_BUF * t + z
  BY <1>0, Quotient
<1>3. PICK u \in Int, v \in 0 .. INPUT_BUF - 1 : (m + k) % INPUT_BUF = v /\ m + k = INPUT_BUF * u + v
  <2>1. m + k \in Int
    BY <1>0, <1>1
  <2> QED BY <1>0, <2>1, Quotient
<1>4. PICK s \in Int : x + k = INPUT_BUF * s + v
  <2>1. CMOD = INPUT_BUF * t
    BY <1>0, <1>2
  <2>2. CMOD * q = INPUT_BUF * (t * q) /\ t * q \in Int
    BY <1>0, <2>1
  <2>3. PICK tq \in Int : tq = t * q
    BY <2>2
  <2>4. INPUT_BUF * (tq + u) = INPUT_BUF * tq + INPUT_BUF * u
    BY <1>0
  <2>5. x + k = INPUT_BUF * (tq + u) + v
    BY <1>0, <1>1, <1>3, <2>2, <2>3, <2>4
  <2> QED BY <2>5
<1>5. (x + k) % INPUT_BUF = v
  <2>1. x + k \in Int
    OBVIOUS
  <2> QED BY <1>0, <1>4, <2>1, Remainder, Zenon
<1> QED BY <1>1, <1>3, <1>5

Counter == 0 .. CMOD - 1
Dist(i, j) == (j - i) % CMOD

\* The distance between two counters, and what moving one of them does to it.
LEMMA Distances ==
    ASSUME NEW i \in Counter, NEW j \in Counter
    PROVE  /\ Dist(i, j) \in 0 .. CMOD - 1
           /\ Dist(i, j) = IF j >= i THEN j - i ELSE j - i + CMOD
           /\ Dist(i, j) = 0 <=> i = j
<1>1. j - i \in Int /\ -CMOD <= j - i /\ j - i < 2 * CMOD /\ CMOD \in Nat \ {0}
  BY ConsoleAssumption DEF Counter
<1>2. Dist(i, j) = IF j - i < 0 THEN j - i + CMOD ELSE IF j - i < CMOD THEN j - i ELSE j - i - CMOD
  BY <1>1, Near DEF Dist
<1> QED BY <1>1, <1>2 DEF Counter

LEMMA Forward ==
    ASSUME NEW i \in Counter, NEW j \in Counter, NEW n \in Nat, Dist(i, j) + n < CMOD
    PROVE  (j + n) % CMOD \in Counter /\ Dist(i, (j + n) % CMOD) = Dist(i, j) + n
<1>0. CMOD \in Nat \ {0}
  BY ConsoleAssumption
<1>1. PICK d : d = Dist(i, j)
  OBVIOUS
<1>2. d \in 0 .. CMOD - 1 /\ d = IF j >= i THEN j - i ELSE j - i + CMOD
  BY <1>1, Distances
<1>3. d + n < CMOD
  BY <1>1
<1>4. j + n \in Int /\ -CMOD <= j + n /\ j + n < 2 * CMOD
  BY <1>0, <1>2, <1>3 DEF Counter
<1>5. PICK k : k = (j + n) % CMOD
  OBVIOUS
<1>6. k = IF j + n < CMOD THEN j + n ELSE j + n - CMOD
  BY <1>0, <1>4, <1>5, Near DEF Counter
<1>7. k \in Counter
  BY <1>0, <1>4, <1>6 DEF Counter
<1>8. Dist(i, k) = IF k >= i THEN k - i ELSE k - i + CMOD
  BY <1>7, Distances
<1>9. Dist(i, k) = d + n
  BY <1>0, <1>2, <1>3, <1>6, <1>8 DEF Counter
<1> QED BY <1>1, <1>5, <1>7, <1>9

LEMMA Backward ==
    ASSUME NEW i \in Counter, NEW j \in Counter, NEW n \in Nat, n <= Dist(i, j)
    PROVE  /\ (j - n) % CMOD \in Counter /\ Dist(i, (j - n) % CMOD) = Dist(i, j) - n
           /\ (i + n) % CMOD \in Counter /\ Dist((i + n) % CMOD, j) = Dist(i, j) - n
<1>0. CMOD \in Nat \ {0}
  BY ConsoleAssumption
<1>1. PICK d : d = Dist(i, j)
  OBVIOUS
<1>2. d \in 0 .. CMOD - 1 /\ d = IF j >= i THEN j - i ELSE j - i + CMOD
  BY <1>1, Distances
<1>3. n <= d
  BY <1>1
<1>4. /\ j - n \in Int /\ -CMOD <= j - n /\ j - n < 2 * CMOD
      /\ i + n \in Int /\ -CMOD <= i + n /\ i + n < 2 * CMOD
  BY <1>0, <1>2, <1>3 DEF Counter
<1>5. PICK k, l : k = (j - n) % CMOD /\ l = (i + n) % CMOD
  OBVIOUS
<1>6. /\ k = IF j - n < 0 THEN j - n + CMOD ELSE j - n
      /\ l = IF i + n < CMOD THEN i + n ELSE i + n - CMOD
  <2>1. k = IF j - n < 0 THEN j - n + CMOD ELSE IF j - n < CMOD THEN j - n ELSE j - n - CMOD
    BY <1>4, <1>5, Near DEF Counter
  <2>2. PICK x : x = i + n
    OBVIOUS
  <2>3. x \in Int /\ -CMOD <= x /\ x < 2 * CMOD /\ l = x % CMOD
    BY <1>4, <1>5, <2>2
  <2>4. l = IF x < 0 THEN x + CMOD ELSE IF x < CMOD THEN x ELSE x - CMOD
    BY <2>3, Near
  <2> QED BY <1>0, <1>4, <2>1, <2>2, <2>4 DEF Counter
<1>7. k \in Counter /\ l \in Counter
  BY <1>0, <1>2, <1>3, <1>4, <1>6 DEF Counter
<1>8. /\ Dist(i, k) = IF k >= i THEN k - i ELSE k - i + CMOD
      /\ Dist(l, j) = IF j >= l THEN j - l ELSE j - l + CMOD
  BY <1>7, Distances
<1>9. Dist(i, k) = d - n
  BY <1>0, <1>2, <1>3, <1>6, <1>7, <1>8 DEF Counter
<1>10. Dist(l, j) = d - n
  BY <1>0, <1>2, <1>3, <1>6, <1>7, <1>8 DEF Counter
<1> QED BY <1>1, <1>5, <1>7, <1>9, <1>10

\* From i to k by way of j.
LEMMA Sum ==
    ASSUME NEW i \in Counter, NEW j \in Counter, NEW k \in Counter,
           Dist(i, j) + Dist(j, k) < CMOD
    PROVE  Dist(i, k) = Dist(i, j) + Dist(j, k)
<1>1. PICK a, b, c : a = Dist(i, j) /\ b = Dist(j, k) /\ c = Dist(i, k)
  OBVIOUS
<1>2. /\ a = IF j >= i THEN j - i ELSE j - i + CMOD
      /\ b = IF k >= j THEN k - j ELSE k - j + CMOD
      /\ c = IF k >= i THEN k - i ELSE k - i + CMOD
  BY <1>1, Distances
<1>3. c = a + b
  BY <1>1, <1>2, ConsoleAssumption DEF Counter
<1> QED BY <1>1, <1>3

-----------------------------------------------------------------------------
(* Pieces of the ring. *)

Slots == 0 .. INPUT_BUF - 1

\* The n characters from counter i on in the ring b.
Piece(b, i, n) == [k \in 1 .. n |-> b[(i + k - 1) % INPUT_BUF]]

LEMMA PieceIs ==
    ASSUME NEW b \in [Slots -> Typed], NEW i \in Int, NEW n \in Nat
    PROVE  /\ Piece(b, i, n) \in Seq(Typed) /\ Len(Piece(b, i, n)) = n
           /\ \A k \in 1 .. n : /\ Piece(b, i, n)[k] = b[(i + k - 1) % INPUT_BUF]
                                /\ Piece(b, i, n)[k] \in Typed
<1>1. ASSUME NEW k \in 1 .. n PROVE b[(i + k - 1) % INPUT_BUF] \in Typed
  <2>1. i + k - 1 \in Int /\ INPUT_BUF \in Nat \ {0}
    BY ConsoleAssumption
  <2>2. (i + k - 1) % INPUT_BUF \in 0 .. INPUT_BUF - 1
    BY <2>1, Quotient
  <2> QED BY <2>2 DEF Slots
<1>2. Piece(b, i, n) \in [1 .. n -> Typed]
  BY <1>1 DEF Piece
<1>3. Piece(b, i, n) \in Seq(Typed) /\ Len(Piece(b, i, n)) = n
  BY <1>2
<1> QED BY <1>1, <1>3 DEF Piece

LEMMA PiecePrefix ==
    ASSUME NEW b \in [Slots -> Typed], NEW i \in Int, NEW n \in Nat, NEW m \in 0 .. n
    PROVE  Piece(b, i, m) = SubSeq(Piece(b, i, n), 1, m)
<1>1. PICK s, t : s = Piece(b, i, m) /\ t = Piece(b, i, n)
  OBVIOUS
<1>2. m \in Nat /\ \A k \in 1 .. m : k \in 1 .. n
  OBVIOUS
<1>3. /\ s \in Seq(Typed) /\ Len(s) = m
      /\ \A k \in 1 .. m : s[k] = b[(i + k - 1) % INPUT_BUF]
  BY <1>1, <1>2, PieceIs
<1>4. t \in Seq(Typed) /\ Len(t) = n
  BY <1>1, PieceIs
<1>5. \A k \in 1 .. n : t[k] = b[(i + k - 1) % INPUT_BUF]
  BY <1>1, PieceIs
<1>6. /\ SubSeq(t, 1, m) \in Seq(Typed) /\ Len(SubSeq(t, 1, m)) = m
      /\ \A k \in 1 .. m : SubSeq(t, 1, m)[k] = t[k]
  BY <1>4, PrefixIs
<1>7. \A k \in 1 .. m : s[k] = SubSeq(t, 1, m)[k]
  BY <1>2, <1>3, <1>5, <1>6, Zenon
<1>8. s = SubSeq(t, 1, m)
  BY <1>3, <1>6, <1>7, SeqEqual
<1> QED BY <1>1, <1>8

LEMMA PieceSplit ==
    ASSUME NEW b \in [Slots -> Typed], NEW i \in Int, NEW m \in Nat, NEW n \in Nat
    PROVE  Piece(b, i, m + n) = Piece(b, i, m) \o Piece(b, (i + m) % CMOD, n)
<1>1. PICK s, t, u, j : /\ j = (i + m) % CMOD /\ s = Piece(b, i, m)
                        /\ t = Piece(b, j, n) /\ u = Piece(b, i, m + n)
  OBVIOUS
<1>2. j \in Int /\ m + n \in Nat
  <2>1. i + m \in Int /\ CMOD \in Nat \ {0}
    BY ConsoleAssumption
  <2>2. (i + m) % CMOD \in 0 .. CMOD - 1
    BY <2>1, Quotient
  <2> QED BY <1>1, <2>1, <2>2
<1>3. /\ s \in Seq(Typed) /\ Len(s) = m
      /\ \A k \in 1 .. m : s[k] = b[(i + k - 1) % INPUT_BUF]
  BY <1>1, PieceIs
<1>4. /\ t \in Seq(Typed) /\ Len(t) = n
      /\ \A k \in 1 .. n : t[k] = b[(j + k - 1) % INPUT_BUF]
  BY <1>1, <1>2, PieceIs, Zenon
<1>5. /\ u \in Seq(Typed) /\ Len(u) = m + n
      /\ \A k \in 1 .. m + n : u[k] = b[(i + k - 1) % INPUT_BUF]
  BY <1>1, <1>2, PieceIs
<1>6. /\ s \o t \in Seq(Typed) /\ Len(s \o t) = m + n
      /\ \A k \in 1 .. m + n : (s \o t)[k] = IF k <= m THEN s[k] ELSE t[k - m]
  BY <1>3, <1>4, ConcatIs, Zenon
<1>7. ASSUME NEW k \in 1 .. m + n PROVE u[k] = (s \o t)[k]
  <2>1. CASE k <= m
    <3>1. k \in 1 .. m
      BY <2>1
    <3> QED BY <1>3, <1>5, <1>6, <2>1, <3>1, Zenon
  <2>2. CASE ~(k <= m)
    <3>1. PICK l : l = k - m
      OBVIOUS
    <3>2. l \in 1 .. n /\ l - 1 \in Int /\ i + m \in Int
      BY <2>2, <3>1
    <3>3. (((i + m) % CMOD) + (l - 1)) % INPUT_BUF = (i + m + (l - 1)) % INPUT_BUF
      BY <3>2, Wrapped
    <3>4. j + l - 1 = j + (l - 1) /\ i + k - 1 = i + m + (l - 1)
      BY <1>2, <3>1, <3>2
    <3>5. t[l] = b[(i + k - 1) % INPUT_BUF]
      BY <1>1, <1>4, <3>2, <3>3, <3>4, Zenon
    <3> QED BY <1>5, <1>6, <2>2, <3>1, <3>5, Zenon
  <2> QED BY <2>1, <2>2, Zenon
<1>8. u = s \o t
  BY <1>5, <1>6, <1>7, SeqEqual
<1> QED BY <1>1, <1>8

\* Ring d is ring b with character c stored n slots after i.
Stores(b, i, n, c, d) == d = [b EXCEPT ![(i + n) % INPUT_BUF] = c]

LEMMA PieceStore ==
    ASSUME NEW b \in [Slots -> Typed], NEW i \in Int, NEW n \in Nat, n < INPUT_BUF,
           NEW c \in Typed, NEW d, Stores(b, i, n, c, d)
    PROVE  /\ d \in [Slots -> Typed]
           /\ \A m \in 0 .. n : Piece(d, i, m) = Piece(b, i, m)
           /\ Piece(d, i, n + 1) = Append(Piece(b, i, n), c)
<1>0. INPUT_BUF \in Nat \ {0} /\ i + n \in Int /\ n + 1 \in Nat
  BY ConsoleAssumption
<1>1. PICK x : x = (i + n) % INPUT_BUF
  OBVIOUS
<1>2. x \in Slots
  <2>1. (i + n) % INPUT_BUF \in 0 .. INPUT_BUF - 1
    BY <1>0, Quotient
  <2> QED BY <1>1, <2>1 DEF Slots
<1>3. d \in [Slots -> Typed] /\ d[x] = c /\ \A y \in Slots \ {x} : d[y] = b[y]
  <2>1. d = [b EXCEPT ![x] = c]
    BY <1>1, Zenon DEF Stores
  <2> QED BY <1>2, <2>1
<1>4. ASSUME NEW k \in 1 .. n PROVE (i + k - 1) % INPUT_BUF \in Slots \ {x}
  <2>1. /\ i + k - 1 \in Int /\ i + k - 1 < i + n + INPUT_BUF
        /\ i + n < i + k - 1 + INPUT_BUF /\ i + k - 1 # i + n
    BY <1>0
  <2>2. (i + k - 1) % INPUT_BUF # (i + n) % INPUT_BUF
    BY <1>0, <2>1, SlotsDiffer, Zenon
  <2>3. (i + k - 1) % INPUT_BUF \in 0 .. INPUT_BUF - 1
    BY <1>0, <2>1, Quotient
  <2> QED BY <1>1, <2>2, <2>3 DEF Slots
<1>5. \A k \in 1 .. n : d[(i + k - 1) % INPUT_BUF] = b[(i + k - 1) % INPUT_BUF]
  BY <1>3, <1>4, Zenon
<1>6. ASSUME NEW m \in 0 .. n PROVE Piece(d, i, m) = Piece(b, i, m)
  <2>1. \A k \in 1 .. m : k \in 1 .. n
    OBVIOUS
  <2> QED BY <1>5, <2>1, Zenon DEF Piece
<1>7. Piece(d, i, n + 1) = Append(Piece(b, i, n), c)
  <2>1. PICK s, t : s = Piece(d, i, n + 1) /\ t = Piece(b, i, n)
    OBVIOUS
  <2>2. /\ s \in Seq(Typed) /\ Len(s) = n + 1
        /\ \A k \in 1 .. n + 1 : s[k] = d[(i + k - 1) % INPUT_BUF]
    BY <1>0, <1>3, <2>1, PieceIs
  <2>3. /\ t \in Seq(Typed) /\ Len(t) = n
        /\ \A k \in 1 .. n : t[k] = b[(i + k - 1) % INPUT_BUF]
    BY <2>1, PieceIs
  <2>4. /\ Append(t, c) \in Seq(Typed) /\ Len(Append(t, c)) = n + 1
        /\ Append(t, c)[n + 1] = c /\ \A k \in 1 .. n : Append(t, c)[k] = t[k]
    BY <2>3
  <2>5. i + (n + 1) - 1 = i + n /\ n + 1 \in 1 .. n + 1
    BY <1>0
  <2>6. s[n + 1] = c
    BY <1>1, <1>3, <2>2, <2>5, Zenon
  <2>7. \A k \in 1 .. n : k \in 1 .. n + 1
    OBVIOUS
  <2>8. \A k \in 1 .. n : s[k] = Append(t, c)[k]
    BY <1>5, <2>2, <2>3, <2>4, <2>7, Zenon
  <2>9. \A k \in 1 .. n + 1 : k \in 1 .. n \/ k = n + 1
    OBVIOUS
  <2>10. \A k \in 1 .. n + 1 : s[k] = Append(t, c)[k]
    BY <2>4, <2>6, <2>8, <2>9, Zenon
  <2>11. s = Append(t, c)
    BY <2>2, <2>4, <2>10, SeqEqual
  <2> QED BY <2>1, <2>11
<1> QED BY <1>3, <1>6, <1>7

\* The oldest character, and the rest.
LEMMA PieceHead ==
    ASSUME NEW b \in [Slots -> Typed], NEW i \in Int, NEW n \in Nat \ {0}
    PROVE  /\ Piece(b, i, n) # << >> /\ Head(Piece(b, i, n)) = b[i % INPUT_BUF]
           /\ Tail(Piece(b, i, n)) = Piece(b, (i + 1) % CMOD, n - 1)
           /\ b[i % INPUT_BUF] \in Typed
<1>1. PICK s, t : s = Piece(b, i, n) /\ t = Piece(b, (i + 1) % CMOD, n - 1)
  OBVIOUS
<1>2. /\ s \in Seq(Typed) /\ Len(s) = n
      /\ \A k \in 1 .. n : s[k] = b[(i + k - 1) % INPUT_BUF] /\ s[k] \in Typed
  BY <1>1, PieceIs
<1>3. s # << >> /\ Head(s) = b[i % INPUT_BUF] /\ b[i % INPUT_BUF] \in Typed
  <2>1. s # << >> /\ Head(s) = s[1] /\ 1 \in 1 .. n
    BY <1>2
  <2>2. i + 1 - 1 = i
    OBVIOUS
  <2>3. s[1] = b[i % INPUT_BUF] /\ s[1] \in Typed
    BY <1>2, <2>1, <2>2, Zenon
  <2> QED BY <2>1, <2>3
<1>4. Tail(s) = t
  <2>1. PICK h : h = Piece(b, i, 1)
    OBVIOUS
  <2>2. h \in Seq(Typed) /\ Len(h) = 1
    <3>1. 1 \in Nat
      OBVIOUS
    <3> QED BY <2>1, <3>1, PieceIs
  <2>3. 1 \in Nat /\ n - 1 \in Nat /\ 1 + (n - 1) = n
    OBVIOUS
  <2>4. Piece(b, i, 1 + (n - 1)) = Piece(b, i, 1) \o Piece(b, (i + 1) % CMOD, n - 1)
    BY <2>3, PieceSplit, Zenon
  <2>5. s = h \o t
    BY <1>1, <2>1, <2>3, <2>4, Zenon
  <2>6. t \in Seq(Typed)
    <3>1. i + 1 \in Int /\ CMOD \in Nat \ {0}
      BY ConsoleAssumption
    <3>2. (i + 1) % CMOD \in Int
      BY <3>1, Quotient
    <3> QED BY <1>1, <2>3, <3>2, PieceIs
  <2>7. /\ Tail(s) \in Seq(Typed) /\ Len(Tail(s)) = n - 1
        /\ \A k \in 1 .. n - 1 : Tail(s)[k] = s[k + 1]
    BY <1>2, <1>3, HeadTailAre
  <2>8. Len(s) = Len(h) + Len(t) /\ \A k \in 1 .. n :
           s[k] = IF k <= 1 THEN h[k] ELSE t[k - 1]
    <3>1. /\ Len(h \o t) = Len(h) + Len(t)
          /\ \A k \in 1 .. Len(h) + Len(t) :
                (h \o t)[k] = IF k <= Len(h) THEN h[k] ELSE t[k - Len(h)]
      BY <2>2, <2>6, ConcatIs, Zenon
    <3> QED BY <1>2, <2>2, <2>5, <3>1, Zenon
  <2>9. Len(t) = n - 1
    BY <1>2, <2>2, <2>6, <2>8
  <2>10. ASSUME NEW k \in 1 .. n - 1 PROVE Tail(s)[k] = t[k]
    <3>1. k + 1 \in 1 .. n /\ ~(k + 1 <= 1) /\ (k + 1) - 1 = k
      OBVIOUS
    <3> QED BY <2>7, <2>8, <3>1, Zenon
  <2> QED BY <2>6, <2>7, <2>9, <2>10, SeqEqual
<1> QED BY <1>1, <1>3, <1>4

-----------------------------------------------------------------------------
(* The lock operations on the processor's state. *)

Locks == {"input", "ptable", "tickslock"}
Cpus == [mode : {"USR", "SVC"}, off : BOOLEAN, ncli : Int, intena : BOOLEAN,
         locked : SUBSET Locks,
         err : {"none", "acquire", "release", "popcli", "sched"}]

LEMMA AcquireFree ==
    ASSUME NEW c \in Cpus, c.err = "none", NEW l \in Locks, l \notin c.locked
    PROVE  /\ acquire(c, l) \in Cpus
           /\ acquire(c, l).err = "none" /\ acquire(c, l).locked = c.locked \cup {l}
           /\ acquire(c, l).ncli = c.ncli + 1 /\ acquire(c, l).off
<1> DEFINE b == [c EXCEPT !.err = Check(c, l \notin c.locked, "acquire"), !.locked = c.locked \cup {l}]
           i == IF b.ncli = 0 THEN ~b.off ELSE b.intena
<1>1. /\ b \in Cpus /\ b.err = "none" /\ b.locked = c.locked \cup {l} /\ b.ncli = c.ncli
  BY Zenon DEF Cpus, Check
<1>2. acquire(c, l) = [b EXCEPT !.off = TRUE, !.ncli = b.ncli + 1, !.intena = i]
  BY DEF acquire, pushcli
<1>3. b.off \in BOOLEAN /\ b.intena \in BOOLEAN
  BY <1>1 DEF Cpus
<1>4. i \in BOOLEAN
  BY <1>3, Zenon
<1> HIDE DEF b, i
<1>5. b.ncli + 1 \in Int
  BY <1>1 DEF Cpus
<1> DEFINE yes == TRUE
<1>6. yes \in BOOLEAN /\ acquire(c, l) = [b EXCEPT !.off = yes, !.ncli = b.ncli + 1, !.intena = i]
  BY <1>2
<1> HIDE DEF yes
<1>7. /\ acquire(c, l) \in Cpus /\ acquire(c, l).err = b.err /\ acquire(c, l).locked = b.locked
      /\ acquire(c, l).off = yes /\ acquire(c, l).ncli = b.ncli + 1
  BY <1>1, <1>4, <1>5, <1>6, Zenon DEF Cpus
<1> QED BY <1>1, <1>7 DEF yes

LEMMA ReleaseHeld ==
    ASSUME NEW c \in Cpus, c.err = "none", NEW l \in c.locked, c.off, c.ncli > 0
    PROVE  /\ release(c, l) \in Cpus
           /\ release(c, l).err = "none" /\ release(c, l).locked = c.locked \ {l}
           /\ release(c, l).ncli = c.ncli - 1
           /\ c.ncli > 1 => release(c, l).off
<1> DEFINE b == [c EXCEPT !.err = Check(c, l \in c.locked, "release"), !.locked = c.locked \ {l}]
           f == b.off /\ ~(b.ncli = 1 /\ b.intena)
<1>1. b \in Cpus /\ b.err = "none" /\ b.locked = c.locked \ {l} /\ b.ncli = c.ncli /\ b.off
  BY Zenon DEF Cpus, Check
<1>2. release(c, l) = [b EXCEPT !.err = Check(b, b.off /\ b.ncli > 0, "popcli"),
                                !.ncli = b.ncli - 1, !.off = f]
  BY DEF release, popcli
<1>3. Check(b, b.off /\ b.ncli > 0, "popcli") = "none"
  BY <1>1 DEF Check
<1>4. f \in BOOLEAN
  OBVIOUS
<1>5. c.ncli > 1 => ~(b.ncli = 1)
  BY <1>1
<1>6. c.ncli > 1 => f = TRUE
  BY <1>1, <1>5, Zenon
<1> HIDE DEF f
<1> DEFINE err == Check(b, b.off /\ b.ncli > 0, "popcli")
<1>7. b.ncli - 1 \in Int
  BY <1>1 DEF Cpus
<1>8. release(c, l) = [b EXCEPT !.err = err, !.ncli = b.ncli - 1, !.off = f] /\ err = b.err
  BY <1>1, <1>2, <1>3
<1> HIDE DEF b, err
<1>9. /\ release(c, l) \in Cpus /\ release(c, l).err = b.err /\ release(c, l).locked = b.locked
      /\ release(c, l).off = f /\ release(c, l).ncli = b.ncli - 1
  BY <1>1, <1>4, <1>7, <1>8, Zenon DEF Cpus
<1> QED BY <1>1, <1>6, <1>9

-----------------------------------------------------------------------------
(* The inductive invariant: the locks held are a function of the control    *)
(* state.                                                                   *)

\* The processor holds lock L, or none, at depth one or zero.
Holds(L) == /\ cpu.locked = L /\ cpu.err = "none"
            /\ L = {} => cpu.ncli = 0
            /\ L # {} => cpu.ncli = 1 /\ cpu.off

TypeOK ==
    /\ cpu \in Cpus
    /\ spsr \in [mode : {"USR", "SVC"}, off : BOOLEAN]
    /\ frame \in [Procs -> [mode : {"USR", "SVC"}, off : BOOLEAN]]
    /\ on \in Procs \cup {SCHED} /\ scan \in Nat
    /\ pc \in [Procs -> {"forkret", "slept", "read", "user", "trapret", "ldm"}]
    /\ pstate \in [Procs -> {"RUNNABLE", "RUNNING", "SLEEPING"}]
    /\ saved \in [Procs -> BOOLEAN]

LocksByControl ==
    /\ on = SCHED /\ scan = 0 => Holds({})
    /\ on = SCHED /\ scan > 0 => Holds({"ptable"})
    /\ on # SCHED =>
         /\ scan > 0
         /\ pc[on] \in {"forkret", "slept"} => Holds({"ptable"})
         /\ pc[on] = "read" => Holds({"input"})
         /\ pc[on] \in {"user", "trapret", "ldm"} => Holds({})
    /\ \A p \in Procs : p # on => pc[p] \in {"forkret", "slept"}

IInv == TypeOK /\ LocksByControl

LEMMA InitOK == ASSUME Init PROVE IInv
<1>1. TypeOK
  <2>1. cpu \in Cpus
    <3> DEFINE no == FALSE
    <3>1. cpu = [mode |-> "SVC", off |-> no, ncli |-> 0, intena |-> no,
                 locked |-> {}, err |-> "none"]
      BY DEF Init, CpuInit
    <3>2. no \in BOOLEAN
      OBVIOUS
    <3> HIDE DEF no
    <3> QED BY <3>1, <3>2 DEF Cpus
  <2>2. User \in [mode : {"USR", "SVC"}, off : BOOLEAN]
    BY DEF User
  <2>3. FALSE \in BOOLEAN
    OBVIOUS
  <2> QED BY <2>1, <2>2, <2>3 DEF Init, CpuInit, TypeOK
<1>2. LocksByControl
  <2>1. cpu.locked = {} /\ cpu.err = "none" /\ cpu.ncli = 0
    BY DEF Init, CpuInit
  <2>2. on = SCHED /\ scan = 0 /\ \A p \in Procs : pc[p] = "forkret"
    BY DEF Init, CpuInit
  <2> QED BY <2>1, <2>2 DEF LocksByControl, Holds
<1> QED BY <1>1, <1>2 DEF IInv

-----------------------------------------------------------------------------
(* Interrupts. *)

\* Where interrupts are open nothing is held.
LEMMA InTrapFree ==
    ASSUME IInv, Holds({})
    PROVE  /\ InTrap \in Cpus /\ InTrap.err = "none" /\ InTrap.locked = {}
           /\ InTrap.ncli = 0
<1>1. cpu \in Cpus
  BY DEF IInv, TypeOK
<1> DEFINE yes == TRUE
<1>2. yes \in BOOLEAN /\ InTrap = [cpu EXCEPT !.mode = "SVC", !.off = yes]
  BY DEF InTrap
<1> HIDE DEF yes
<1> QED BY <1>1, <1>2, Zenon DEF Cpus, Holds

LEMMA Open == ASSUME IInv, ~cpu.off PROVE Holds({})
  BY DEF IInv, TypeOK, LocksByControl, Holds, Procs, SCHED

\* A handler that gives back what it takes.
LEMMA IrqOK ==
    ASSUME IInv, NEW c \in Cpus, c.err = "none", c.locked = {}, c.ncli = 0, Irq(c),
           pstate' \in [Procs -> {"RUNNABLE", "RUNNING", "SLEEPING"}]
    PROVE  IInv'
<1>1. ~cpu.off /\ Holds({}) /\ TypeOK
  BY Open DEF Irq, IInv
<1>2. /\ cpu' = [c EXCEPT !.mode = cpu.mode, !.off = cpu.off]
      /\ spsr' = [mode |-> cpu.mode, off |-> cpu.off]
      /\ UNCHANGED <<on, pc, scan, frame, saved>>
  BY DEF Irq
<1>3. cpu.mode \in {"USR", "SVC"} /\ cpu.off \in BOOLEAN
  BY <1>1 DEF TypeOK, Cpus
<1>4. /\ cpu' \in Cpus /\ cpu'.err = "none" /\ cpu'.locked = {} /\ cpu'.ncli = 0
  BY <1>2, <1>3, Zenon DEF Cpus
<1>5. spsr' \in [mode : {"USR", "SVC"}, off : BOOLEAN]
  BY <1>2, <1>3
<1>6. TypeOK'
  BY <1>1, <1>2, <1>4, <1>5 DEF TypeOK
<1>7. Holds({})'
  BY <1>4 DEF Holds
<1>8. LocksByControl'
  BY <1>1, <1>2, <1>7 DEF IInv, LocksByControl, Holds
<1> QED BY <1>6, <1>8 DEF IInv

\* One lock taken and given back, inside a trap.
LEMMA InAndOut ==
    ASSUME NEW c \in Cpus, c.err = "none", c.locked = {}, c.ncli = 0, NEW l \in Locks
    PROVE  LET d == release(acquire(c, l), l)
           IN  d \in Cpus /\ d.err = "none" /\ d.locked = {} /\ d.ncli = 0
<1> DEFINE a == acquire(c, l)
<1>1. a \in Cpus /\ a.err = "none" /\ a.locked = {l} /\ a.ncli = 1 /\ a.off
  BY AcquireFree
<1> HIDE DEF a
<1>2. /\ release(a, l) \in Cpus /\ release(a, l).err = "none"
      /\ release(a, l).locked = {} /\ release(a, l).ncli = 0
  BY <1>1, ReleaseHeld
<1> QED BY <1>2 DEF a

\* A second lock inside of the first.
LEMMA Nested ==
    ASSUME NEW c \in Cpus, c.err = "none", c.locked = {}, c.ncli = 0,
           NEW l \in Locks, NEW m \in Locks \ {l}
    PROVE  LET d == release(release(acquire(acquire(c, l), m), m), l)
           IN  d \in Cpus /\ d.err = "none" /\ d.locked = {} /\ d.ncli = 0
<1> DEFINE a == acquire(c, l)
           b == acquire(a, m)
           d == release(b, m)
<1>1. a \in Cpus /\ a.err = "none" /\ a.locked = {l} /\ a.ncli = 1
  BY AcquireFree
<1> HIDE DEF a
<1>2. b \in Cpus /\ b.err = "none" /\ b.locked = {l, m} /\ b.ncli = 2 /\ b.off
  BY <1>1, AcquireFree
<1> HIDE DEF b
<1>3. d \in Cpus /\ d.err = "none" /\ d.locked = {l} /\ d.ncli = 1 /\ d.off
  BY <1>2, ReleaseHeld
<1> HIDE DEF d
<1>4. /\ release(d, l) \in Cpus /\ release(d, l).err = "none"
      /\ release(d, l).locked = {} /\ release(d, l).ncli = 0
  BY <1>3, ReleaseHeld
<1> QED BY <1>4 DEF a, b, d

LEMMA WokenType ==
    ASSUME TypeOK, NEW S
    PROVE  Woken(S) \in [Procs -> {"RUNNABLE", "RUNNING", "SLEEPING"}]
  BY DEF TypeOK, Woken

LEMMA IrqUartOK == ASSUME IInv, NEW ch, IrqUart(ch) PROVE IInv'
<1>1. TypeOK /\ ~cpu.off
  BY DEF IInv, IrqUart, Backspace, KillLine, Insert, Irq
<1>2. /\ InTrap \in Cpus /\ InTrap.err = "none" /\ InTrap.locked = {} /\ InTrap.ncli = 0
  BY <1>1, Open, InTrapFree
<1> DEFINE c == release(acquire(InTrap, "input"), "input")
           d == release(release(acquire(acquire(InTrap, "input"), "ptable"), "ptable"), "input")
<1>3. c \in Cpus /\ c.err = "none" /\ c.locked = {} /\ c.ncli = 0
  BY <1>2, InAndOut DEF Locks
<1>4. d \in Cpus /\ d.err = "none" /\ d.locked = {} /\ d.ncli = 0
  BY <1>2, Nested DEF Locks
<1>5. ASSUME Irq(c), pstate' = pstate PROVE IInv'
  BY <1>1, <1>3, <1>5, IrqOK DEF TypeOK
<1>6. ASSUME Irq(d), pstate' = Woken(Procs) PROVE IInv'
  BY <1>1, <1>4, <1>6, WokenType, IrqOK
<1>7. CASE Backspace
  <2>1. Irq(c) /\ pstate' = pstate
    BY <1>7 DEF Backspace
  <2> QED BY <1>5, <2>1
<1>8. CASE KillLine
  <2>1. Irq(c) /\ pstate' = pstate
    BY <1>8 DEF KillLine
  <2> QED BY <1>5, <2>1
<1>9. CASE Insert(ch)
  <2>1. CASE Irq(c) /\ pstate' = pstate
    BY <1>5, <2>1
  <2>2. CASE Irq(d) /\ pstate' = Woken(Procs)
    BY <1>6, <2>2
  <2> QED BY <1>9, <2>1, <2>2 DEF Insert
<1> QED BY <1>7, <1>8, <1>9 DEF IrqUart

LEMMA IrqTimerOK == ASSUME IInv, IrqTimer PROVE IInv'
<1>1. TypeOK /\ ~cpu.off
  BY DEF IInv, IrqTimer, Irq
<1>2. /\ InTrap \in Cpus /\ InTrap.err = "none" /\ InTrap.locked = {} /\ InTrap.ncli = 0
  BY <1>1, Open, InTrapFree
<1> DEFINE d == release(release(acquire(acquire(InTrap, "tickslock"), "ptable"), "ptable"),
                        "tickslock")
<1>3. d \in Cpus /\ d.err = "none" /\ d.locked = {} /\ d.ncli = 0
  BY <1>2, Nested DEF Locks
<1>4. Irq(d) /\ pstate' = pstate
  BY DEF IrqTimer
<1> HIDE DEF d
<1> QED BY <1>1, <1>3, <1>4, IrqOK DEF TypeOK

-----------------------------------------------------------------------------
(* The scheduler and the return from traps. *)

\* A step of one context: which context runs, where it goes on and what the
\* processor holds then.
LEMMA ContextOK ==
    ASSUME IInv, TypeOK',
           on' = SCHED /\ scan' = 0 => Holds({})',
           on' = SCHED /\ scan' > 0 => Holds({"ptable"})',
           on' # SCHED =>
             /\ scan' > 0
             /\ pc'[on'] \in {"forkret", "slept"} => Holds({"ptable"})'
             /\ pc'[on'] = "read" => Holds({"input"})'
             /\ pc'[on'] \in {"user", "trapret", "ldm"} => Holds({})',
           \A p \in Procs : p # on' => pc'[p] \in {"forkret", "slept"}
    PROVE  IInv'
  BY DEF IInv, LocksByControl

LEMMA SchedAcquireOK == ASSUME IInv, SchedAcquire PROVE IInv'
<1>1. /\ on = SCHED /\ scan = 0 /\ cpu' = acquire(cpu, "ptable") /\ scan' = 1
      /\ UNCHANGED <<spsr, on, pc, pstate, frame, saved>>
  BY DEF SchedAcquire
<1>2. TypeOK /\ Holds({}) /\ cpu \in Cpus
  BY <1>1 DEF IInv, LocksByControl, TypeOK
<1>3. /\ cpu' \in Cpus /\ cpu'.err = "none" /\ cpu'.locked = {"ptable"}
      /\ cpu'.ncli = 1 /\ cpu'.off
  BY <1>1, <1>2, AcquireFree DEF Holds, Locks
<1>4. Holds({"ptable"})' /\ TypeOK'
  BY <1>1, <1>2, <1>3 DEF Holds, TypeOK
<1>5. \A p \in Procs : p # on' => pc'[p] \in {"forkret", "slept"}
  BY <1>1 DEF IInv, LocksByControl
<1> QED BY <1>1, <1>4, <1>5, ContextOK DEF SCHED

LEMMA SchedRoundOK == ASSUME IInv, SchedRound PROVE IInv'
<1> DEFINE no == FALSE
           c == release(cpu, "ptable")
<1>1. /\ on = SCHED /\ scan > 0 /\ cpu' = [c EXCEPT !.off = no] /\ scan' = 0
      /\ UNCHANGED <<spsr, on, pc, pstate, frame, saved>>
  BY DEF SchedRound
<1>2. TypeOK /\ Holds({"ptable"}) /\ cpu \in Cpus
  BY <1>1 DEF IInv, LocksByControl, TypeOK
<1>3. c \in Cpus /\ c.err = "none" /\ c.locked = {} /\ c.ncli = 0
  BY <1>2, ReleaseHeld DEF Holds
<1>4. no \in BOOLEAN
  OBVIOUS
<1> HIDE DEF c, no
<1>5. /\ cpu' \in Cpus /\ cpu'.err = "none" /\ cpu'.locked = {} /\ cpu'.ncli = 0
  BY <1>1, <1>3, <1>4 DEF Cpus
<1>6. Holds({})' /\ TypeOK'
  BY <1>1, <1>2, <1>5 DEF Holds, TypeOK
<1>7. \A p \in Procs : p # on' => pc'[p] \in {"forkret", "slept"}
  BY <1>1 DEF IInv, LocksByControl
<1> QED BY <1>1, <1>6, <1>7, ContextOK

LEMMA SchedSwitchOK == ASSUME IInv, NEW p \in Procs, SchedSwitch(p) PROVE IInv'
<1>1. /\ on = SCHED /\ scan > 0 /\ cpu' = popcli(pushcli(cpu))
      /\ pstate' = [pstate EXCEPT ![p] = "RUNNING"]
      /\ on' = p /\ scan' = p + 1 /\ UNCHANGED <<spsr, pc, frame, saved>>
  BY DEF SchedSwitch
<1>2. /\ TypeOK /\ Holds({"ptable"}) /\ cpu \in Cpus /\ p # SCHED /\ p \in Nat
      /\ \A q \in Procs : pc[q] \in {"forkret", "slept"}
  BY <1>1, CpuAssumption DEF IInv, LocksByControl, TypeOK, Procs, SCHED
<1>3. /\ cpu' \in Cpus /\ cpu'.err = "none" /\ cpu'.locked = {"ptable"}
      /\ cpu'.ncli = 1 /\ cpu'.off
  <2> DEFINE a == pushcli(cpu)
             yes == TRUE
             i == IF cpu.ncli = 0 THEN ~cpu.off ELSE cpu.intena
  <2>1. yes \in BOOLEAN
    OBVIOUS
  <2>2. i \in BOOLEAN
    BY <1>2, Zenon DEF Cpus
  <2>3. a = [cpu EXCEPT !.off = yes, !.ncli = cpu.ncli + 1, !.intena = i]
    BY DEF pushcli
  <2> HIDE DEF yes, i, a
  <2>4. a \in Cpus /\ a.err = "none" /\ a.locked = {"ptable"} /\ a.ncli = 2 /\ a.off = yes
    <3>1. cpu.locked = {"ptable"} /\ cpu.err = "none" /\ cpu.ncli = 1
      BY <1>2 DEF Holds
    <3>2. cpu.ncli + 1 = 2 /\ 2 \in Int /\ cpu \in Cpus
      BY <1>2, <3>1
    <3> QED BY <2>1, <2>2, <2>3, <3>1, <3>2, Zenon DEF Cpus
  <2>5. a.off
    BY <2>4, Zenon DEF yes
  <2> DEFINE f == a.off /\ ~(a.ncli = 1 /\ a.intena)
             err == Check(a, a.off /\ a.ncli > 0, "popcli")
  <2>6. f \in BOOLEAN
    OBVIOUS
  <2>7. f
    BY <2>4, <2>5
  <2>8. err = "none"
    BY <2>4, <2>5 DEF Check
  <2>9. cpu' = [a EXCEPT !.err = err, !.ncli = a.ncli - 1, !.off = f]
    BY <1>1 DEF popcli, a
  <2> HIDE DEF f, err
  <2>10. /\ cpu' \in Cpus /\ cpu'.err = "none" /\ cpu'.locked = {"ptable"}
         /\ cpu'.ncli = 1 /\ cpu'.off = f
    <3>1. a \in Cpus /\ a.locked = {"ptable"} /\ a.ncli - 1 = 1 /\ 1 \in Int
      BY <2>4
    <3> QED BY <2>6, <2>8, <2>9, <3>1, Zenon DEF Cpus
  <2> QED BY <2>7, <2>10, Zenon
<1>4. Holds({"ptable"})' /\ TypeOK'
  BY <1>1, <1>2, <1>3 DEF Holds, TypeOK
<1> QED BY <1>1, <1>2, <1>4, ContextOK

LEMMA ForkretOK == ASSUME IInv, NEW p \in Procs, Forkret(p) PROVE IInv'
<1>1. /\ on = p /\ pc[p] = "forkret" /\ cpu' = release(cpu, "ptable")
      /\ pc' = [pc EXCEPT ![p] = "trapret"]
      /\ UNCHANGED <<spsr, on, scan, pstate, frame, saved>>
  BY DEF Forkret
<1>2. /\ TypeOK /\ Holds({"ptable"}) /\ cpu \in Cpus /\ p # SCHED /\ scan > 0
  BY <1>1 DEF IInv, LocksByControl, TypeOK, Procs, SCHED
<1>3. cpu' \in Cpus /\ cpu'.err = "none" /\ cpu'.locked = {} /\ cpu'.ncli = 0
  BY <1>1, <1>2, ReleaseHeld DEF Holds
<1>4. Holds({})' /\ TypeOK'
  BY <1>1, <1>2, <1>3 DEF Holds, TypeOK
<1>5. pc'[p] = "trapret" /\ \A q \in Procs : q # on' => pc'[q] \in {"forkret", "slept"}
  BY <1>1, <1>2 DEF IInv, LocksByControl, TypeOK
<1> QED BY <1>1, <1>2, <1>4, <1>5, ContextOK

LEMMA TrapretOK ==
    ASSUME IInv, NEW p \in Procs, TrapretMsr(p) \/ TrapretLdm(p) PROVE IInv'
<1>1. /\ on = p /\ pc[p] \in {"trapret", "ldm"} /\ pc' \in {[pc EXCEPT ![p] = "ldm"], [pc EXCEPT ![p] = "user"]}
      /\ UNCHANGED <<on, scan, pstate, frame, saved>>
  BY DEF TrapretMsr, TrapretLdm
<1>2. /\ TypeOK /\ Holds({}) /\ cpu \in Cpus /\ p # SCHED /\ scan > 0
  BY <1>1 DEF IInv, LocksByControl, TypeOK, Procs, SCHED
<1>3. spsr' \in [mode : {"USR", "SVC"}, off : BOOLEAN]
  BY <1>2 DEF TrapretMsr, TrapretLdm, TypeOK
<1>4. cpu' \in Cpus /\ cpu'.err = "none" /\ cpu'.locked = {} /\ cpu'.ncli = 0
  BY <1>2, Zenon DEF TrapretMsr, TrapretLdm, TypeOK, Cpus, Holds
<1>5. Holds({})' /\ TypeOK'
  BY <1>1, <1>2, <1>3, <1>4 DEF Holds, TypeOK
<1>6. /\ pc'[p] \in {"user", "ldm"}
      /\ \A q \in Procs : q # on' => pc'[q] \in {"forkret", "slept"}
  BY <1>1, <1>2 DEF IInv, LocksByControl, TypeOK
<1> QED BY <1>1, <1>2, <1>5, <1>6, ContextOK

-----------------------------------------------------------------------------
(* System calls. *)

\* Process p is in the kernel and goes on at l, holding L.
LEMMA CallOK ==
    ASSUME IInv, NEW p \in Procs, on = p, NEW l \in {"read", "trapret"},
           pc' = [pc EXCEPT ![p] = l], UNCHANGED <<on, scan, saved>>,
           spsr' \in [mode : {"USR", "SVC"}, off : BOOLEAN],
           frame' \in [Procs -> [mode : {"USR", "SVC"}, off : BOOLEAN]],
           pstate' \in [Procs -> {"RUNNABLE", "RUNNING", "SLEEPING"}],
           cpu' \in Cpus,
           l = "read" => Holds({"input"})', l = "trapret" => Holds({})'
    PROVE  IInv'
<1>1. TypeOK /\ p # SCHED /\ scan > 0
  BY DEF IInv, LocksByControl, Procs, SCHED
<1>2. TypeOK'
  BY <1>1 DEF TypeOK
<1>3. pc'[p] = l /\ \A q \in Procs : q # on' => pc'[q] \in {"forkret", "slept"}
  BY <1>1 DEF IInv, LocksByControl, TypeOK
<1> QED BY <1>1, <1>2, <1>3, ContextOK

\* The state an SWI saves.
LEMMA SwiSaves ==
    ASSUME IInv, NEW p \in Procs, NEW l, Swi(p, l)
    PROVE  /\ on = p /\ pc' = [pc EXCEPT ![p] = l] /\ Holds({})
           /\ spsr' \in [mode : {"USR", "SVC"}, off : BOOLEAN]
           /\ frame' \in [Procs -> [mode : {"USR", "SVC"}, off : BOOLEAN]]
<1>1. TypeOK /\ Holds({}) /\ on = p
  BY DEF Swi, IInv, LocksByControl, Procs, SCHED
<1>2. [mode |-> cpu.mode, off |-> cpu.off] \in [mode : {"USR", "SVC"}, off : BOOLEAN]
  BY <1>1 DEF TypeOK, Cpus
<1> QED BY <1>1, <1>2 DEF Swi, TypeOK

LEMMA SysReadOK == ASSUME IInv, NEW p \in Procs, NEW n, SysRead(p, n) PROVE IInv'
<1>1. /\ Swi(p, "read") /\ cpu' = acquire(InTrap, "input")
      /\ UNCHANGED <<on, scan, pstate, saved>>
  BY DEF SysRead
<1>2. /\ on = p /\ pc' = [pc EXCEPT ![p] = "read"] /\ Holds({})
      /\ spsr' \in [mode : {"USR", "SVC"}, off : BOOLEAN]
      /\ frame' \in [Procs -> [mode : {"USR", "SVC"}, off : BOOLEAN]]
  BY <1>1, SwiSaves
<1>3. InTrap \in Cpus /\ InTrap.err = "none" /\ InTrap.locked = {} /\ InTrap.ncli = 0
  BY <1>2, InTrapFree
<1>4. /\ cpu' \in Cpus /\ cpu'.err = "none" /\ cpu'.locked = {"input"}
      /\ cpu'.ncli = 1 /\ cpu'.off
  <2> HIDE DEF InTrap
  <2> QED BY <1>1, <1>3, AcquireFree DEF Locks
<1>5. Holds({"input"})'
  BY <1>4 DEF Holds
<1>6. pstate' \in [Procs -> {"RUNNABLE", "RUNNING", "SLEEPING"}]
  BY <1>1 DEF IInv, TypeOK
<1> QED BY <1>1, <1>2, <1>4, <1>5, <1>6, CallOK, Zenon

LEMMA SysKillOK == ASSUME IInv, NEW p \in Procs, NEW q, SysKill(p, q) PROVE IInv'
<1>1. /\ Swi(p, "trapret") /\ cpu' = release(acquire(InTrap, "ptable"), "ptable")
      /\ pstate' = Woken({q}) /\ UNCHANGED <<on, scan, saved>>
  BY DEF SysKill
<1>2. /\ on = p /\ pc' = [pc EXCEPT ![p] = "trapret"] /\ Holds({})
      /\ spsr' \in [mode : {"USR", "SVC"}, off : BOOLEAN]
      /\ frame' \in [Procs -> [mode : {"USR", "SVC"}, off : BOOLEAN]]
  BY <1>1, SwiSaves
<1>3. InTrap \in Cpus /\ InTrap.err = "none" /\ InTrap.locked = {} /\ InTrap.ncli = 0
  BY <1>2, InTrapFree
<1>4. cpu' \in Cpus /\ cpu'.err = "none" /\ cpu'.locked = {} /\ cpu'.ncli = 0
  BY <1>1, <1>3, InAndOut DEF Locks
<1>5. Holds({})'
  BY <1>4 DEF Holds
<1>6. pstate' \in [Procs -> {"RUNNABLE", "RUNNING", "SLEEPING"}]
  BY <1>1, WokenType DEF IInv
<1> QED BY <1>1, <1>2, <1>4, <1>5, <1>6, CallOK, Zenon

\* In consoleread() the running process has input.lock.
LEMMA Reading ==
    ASSUME IInv, NEW p \in Procs, on = p, pc[p] = "read"
    PROVE  TypeOK /\ Holds({"input"}) /\ cpu \in Cpus /\ p # SCHED /\ scan > 0
  BY DEF IInv, LocksByControl, TypeOK, Procs, SCHED

LEMMA FinishOK ==
    ASSUME IInv, NEW p \in Procs, on = p, pc[p] = "read", Finish(p) PROVE IInv'
<1>1. /\ cpu' = release(cpu, "input") /\ pc' = [pc EXCEPT ![p] = "trapret"]
      /\ UNCHANGED <<spsr, on, scan, pstate, frame, saved>>
  BY DEF Finish
<1>2. TypeOK /\ Holds({"input"}) /\ cpu \in Cpus
  BY Reading
<1>3. cpu' \in Cpus /\ cpu'.err = "none" /\ cpu'.locked = {} /\ cpu'.ncli = 0
  BY <1>1, <1>2, ReleaseHeld DEF Holds
<1>4. Holds({})'
  BY <1>3 DEF Holds
<1> QED BY <1>1, <1>2, <1>3, <1>4, CallOK, Zenon DEF TypeOK

\* sleep() takes ptable.lock before it gives up input.lock, so that sched()
\* finds one lock held.
LEMMA ReadSleepOK == ASSUME IInv, NEW p \in Procs, ReadSleep(p) PROVE IInv'
<1> DEFINE a == acquire(cpu, "ptable")
           c == release(a, "input")
           err == Check(c, "ptable" \in c.locked /\ c.ncli = 1 /\ c.off, "sched")
<1>1. /\ on = p /\ pc[p] = "read"
      /\ pstate' = [pstate EXCEPT ![p] = "SLEEPING"]
      /\ UNCHANGED <<spsr, scan, frame>>
  BY DEF ReadSleep, Wanting
<1>2. TypeOK /\ Holds({"input"}) /\ cpu \in Cpus /\ p # SCHED /\ scan > 0
  BY <1>1, Reading
<1>3. /\ cpu' = [c EXCEPT !.err = err] /\ saved' = [saved EXCEPT ![p] = c.intena]
      /\ pc' = [pc EXCEPT ![p] = "slept"] /\ on' = SCHED
  BY DEF ReadSleep, Sched, schedChecks
<1>4. /\ a \in Cpus /\ a.err = "none" /\ a.locked = {"input", "ptable"} /\ a.ncli = 2 /\ a.off
  BY <1>2, AcquireFree DEF Holds, Locks
<1> HIDE DEF a
<1>5. c \in Cpus /\ c.err = "none" /\ c.locked = {"ptable"} /\ c.ncli = 1 /\ c.off
  BY <1>4, ReleaseHeld
<1> HIDE DEF c
<1>6. err = "none" /\ c.intena \in BOOLEAN
  BY <1>5 DEF Check, Cpus
<1> HIDE DEF err
<1>7. /\ cpu' \in Cpus /\ cpu'.err = "none" /\ cpu'.locked = {"ptable"}
      /\ cpu'.ncli = 1 /\ cpu'.off
  BY <1>3, <1>5, <1>6 DEF Cpus
<1>8. Holds({"ptable"})'
  BY <1>7 DEF Holds
<1>9. TypeOK'
  <2>1. saved' \in [Procs -> BOOLEAN]
    BY <1>2, <1>3, <1>6 DEF TypeOK
  <2> QED BY <1>1, <1>2, <1>3, <1>7, <2>1 DEF TypeOK
<1>10. \A q \in Procs : q # on' => pc'[q] \in {"forkret", "slept"}
  BY <1>1, <1>2, <1>3 DEF IInv, LocksByControl, TypeOK
<1> QED BY <1>1, <1>2, <1>3, <1>8, <1>9, <1>10, ContextOK DEF SCHED

LEMMA ReadResumeOK == ASSUME IInv, NEW p \in Procs, ReadResume(p) PROVE IInv'
<1> DEFINE b == Resumed(p)
           c == release(b, "ptable")
<1>1. /\ on = p /\ pc[p] = "slept" /\ cpu' = acquire(c, "input")
      /\ pc' = [pc EXCEPT ![p] = "read"]
      /\ UNCHANGED <<spsr, on, scan, pstate, frame, saved>>
  BY DEF ReadResume
<1>2. TypeOK /\ Holds({"ptable"}) /\ cpu \in Cpus
  BY <1>1 DEF IInv, LocksByControl, TypeOK, Procs, SCHED
<1>3. saved[p] \in BOOLEAN /\ b = [cpu EXCEPT !.intena = saved[p]]
  BY <1>2 DEF TypeOK, Resumed
<1> HIDE DEF b
<1>4. b \in Cpus /\ b.err = "none" /\ b.locked = {"ptable"} /\ b.ncli = 1 /\ b.off
  BY <1>2, <1>3 DEF Cpus, Holds
<1>5. c \in Cpus /\ c.err = "none" /\ c.locked = {} /\ c.ncli = 0
  BY <1>4, ReleaseHeld
<1> HIDE DEF c
<1>6. /\ cpu' \in Cpus /\ cpu'.err = "none" /\ cpu'.locked = {"input"}
      /\ cpu'.ncli = 1 /\ cpu'.off
  BY <1>1, <1>5, AcquireFree DEF Locks
<1>7. Holds({"input"})'
  BY <1>6 DEF Holds
<1> QED BY <1>1, <1>2, <1>6, <1>7, CallOK, Zenon DEF TypeOK

-----------------------------------------------------------------------------
(* The theorems. *)

LEMMA StepOK == ASSUME IInv, [Next]_vars PROVE IInv'
<1>1. CASE CpuStep
  BY <1>1, SchedAcquireOK, SchedRoundOK, SchedSwitchOK, ForkretOK, TrapretOK DEF CpuStep
<1>2. CASE IrqTimer
  BY <1>2, IrqTimerOK
<1>3. ASSUME NEW ch \in Typed, IrqUart(ch) PROVE IInv'
  BY <1>3, IrqUartOK
<1>4. ASSUME UNCHANGED cpuVars PROVE IInv'
  BY <1>4 DEF cpuVars, IInv, TypeOK, LocksByControl, Holds
<1>5. ASSUME NEW p \in Procs, NEW n \in Sizes, SysRead(p, n) PROVE IInv'
  BY <1>5, SysReadOK
<1>6. ASSUME NEW p \in Procs, NEW q \in Procs, SysKill(p, q) PROVE IInv'
  BY <1>6, SysKillOK
<1>7. ASSUME NEW p \in Procs, ReadEof(p) \/ ReadDone(p) \/ ReadKilled(p) PROVE IInv'
  BY <1>7, FinishOK DEF ReadEof, ReadDone, ReadKilled, Wanting
<1>8. ASSUME NEW p \in Procs, ReadSleep(p) \/ ReadResume(p) PROVE IInv'
  BY <1>8, ReadSleepOK, ReadResumeOK
<1>9. ASSUME NEW p \in Procs, ReadChar(p) PROVE IInv'
  BY <1>4, <1>9 DEF ReadChar
<1>10. CASE UNCHANGED vars
  BY <1>4, <1>10 DEF vars
<1> QED BY <1>1, <1>2, <1>3, <1>5, <1>6, <1>7, <1>8, <1>9, <1>10 DEF Next

\* NoLostWakeup is inductive with the types: what it says of the ring changes
\* only with input.lock held, when nobody sleeps or everybody is woken.
LEMMA WakeupStep ==
    ASSUME TypeOK, killed \in [Procs -> BOOLEAN], NoLostWakeup, [Next]_vars
    PROVE  NoLostWakeup'
<1> DEFINE Sleeps(p) == pstate[p] = "SLEEPING"
<1>1. ASSUME \A p \in Procs : pstate'[p] = "SLEEPING" => Sleeps(p), UNCHANGED <<r, w, killed>>
      PROVE  NoLostWakeup'
  BY <1>1 DEF NoLostWakeup
<1>2. ASSUME r # w, UNCHANGED <<pstate, w, killed>> PROVE NoLostWakeup'
  BY <1>2 DEF NoLostWakeup
<1>3. CASE CpuStep /\ UNCHANGED <<ring, reads, killed>>
  <2>1. \A p \in Procs : pstate'[p] = "SLEEPING" => Sleeps(p)
    BY <1>3 DEF CpuStep, SchedAcquire, SchedRound, SchedSwitch, Forkret, TrapretMsr, TrapretLdm, TypeOK
  <2> QED BY <1>1, <1>3, <2>1 DEF ring
<1>4. CASE IrqTimer
  BY <1>1, <1>4 DEF IrqTimer, ring
<1>5. ASSUME NEW ch \in Typed, IrqUart(ch) PROVE NoLostWakeup'
  <2>1. UNCHANGED <<killed, r>>
    BY <1>5 DEF IrqUart, Backspace, KillLine, Insert, Store, ring
  <2>2. \/ UNCHANGED <<pstate, w>>
        \/ pstate' = Woken(Procs)
    BY <1>5 DEF IrqUart, Backspace, KillLine, Insert, ring
  <2>3. CASE UNCHANGED <<pstate, w>>
    BY <1>1, <2>1, <2>3
  <2>4. CASE pstate' = Woken(Procs)
    BY <2>4 DEF NoLostWakeup, Woken
  <2> QED BY <2>2, <2>3, <2>4
<1>6. ASSUME NEW p \in Procs, NEW n \in Sizes, SysRead(p, n) PROVE NoLostWakeup'
  BY <1>1, <1>6 DEF SysRead, ring
<1>7. ASSUME NEW p \in Procs, NEW q \in Procs, SysKill(p, q) PROVE NoLostWakeup'
  <2>1. /\ killed' = [killed EXCEPT ![q] = TRUE] /\ pstate' = Woken({q}) /\ UNCHANGED <<r, w>>
    BY <1>7 DEF SysKill, ring
  <2>2. ASSUME NEW x \in Procs, pstate'[x] = "SLEEPING" PROVE r' = w' /\ ~killed'[x]
    BY <2>1, <2>2 DEF Woken, NoLostWakeup
  <2> QED BY <2>2 DEF NoLostWakeup
<1>8. ASSUME NEW p \in Procs, ReadChar(p) \/ ReadEof(p) PROVE NoLostWakeup'
  BY <1>2, <1>8 DEF ReadChar, ReadEof, Finish, cpuVars
<1>9. ASSUME NEW p \in Procs, ReadDone(p) \/ ReadKilled(p) \/ ReadResume(p) PROVE NoLostWakeup'
  BY <1>1, <1>9 DEF ReadDone, ReadKilled, ReadResume, Finish, ring
<1>10. ASSUME NEW p \in Procs, ReadSleep(p) PROVE NoLostWakeup'
  <2>1. /\ r = w /\ ~killed[p] /\ pstate' = [pstate EXCEPT ![p] = "SLEEPING"]
        /\ UNCHANGED <<r, w, killed>>
    BY <1>10 DEF ReadSleep, ring
  <2> QED BY <2>1 DEF NoLostWakeup, TypeOK
<1>11. CASE UNCHANGED vars
  BY <1>1, <1>11 DEF vars, cpuVars, ring
<1> QED BY <1>3, <1>4, <1>5, <1>6, <1>7, <1>8, <1>9, <1>10, <1>11 DEF Next

LEMMA KilledType ==
    ASSUME killed \in [Procs -> BOOLEAN], [Next]_vars PROVE killed' \in [Procs -> BOOLEAN]
<1>1. \/ UNCHANGED killed
      \/ \E q \in Procs : killed' = [killed EXCEPT ![q] = TRUE]
  BY Zenon DEF Next, IrqTimer, IrqUart, SysRead, ReadChar, ReadEof, ReadDone, ReadKilled, Finish,
         ReadSleep, ReadResume, SysKill, vars
<1> QED BY <1>1, Zenon

\* For every number of processes and every size of the ring: no reader sleeps
\* in consoleread() while there is something to read, or once it was killed.
THEOREM ReadersAlwaysWoken == Spec => []NoLostWakeup
<1> DEFINE Inv == IInv /\ killed \in [Procs -> BOOLEAN] /\ NoLostWakeup
<1>1. Init => Inv
  <2>1. Init => NoLostWakeup /\ killed \in [Procs -> BOOLEAN]
    BY DEF Init, CpuInit, NoLostWakeup
  <2> QED BY <2>1, InitOK
<1>2. Inv /\ [Next]_vars => Inv'
  BY StepOK, WakeupStep, KilledType DEF IInv
<1>3. Inv => NoLostWakeup
  OBVIOUS
<1> QED BY <1>1, <1>2, <1>3, PTL DEF Spec

-----------------------------------------------------------------------------
(* The console is a queue of lines. *)

Line  == Between(w, e)
Ready == Between(r, w)

RingInv ==
    /\ buf \in [Slots -> Typed]
    /\ r \in Counter /\ w \in Counter /\ e \in Counter
    /\ Dist(r, w) + Dist(w, e) <= INPUT_BUF

\* A read is under way exactly in consoleread(), and goes on only after
\* characters that do not end a line.
ReadInv ==
    /\ want \in [Procs -> Nat] /\ got \in [Procs -> Seq(Typed)]
    /\ \A p \in Procs :
         /\ want[p] > 0 <=> pc[p] \in {"read", "slept"}
         /\ want[p] = 0 => got[p] = << >>
         /\ \A i \in 1 .. Len(got[p]) - 1 : got[p][i] # NL

LEMMA Pieces ==
    /\ Line = Piece(buf, w, Dist(w, e)) /\ Line' = Piece(buf', w', Dist(w', e'))
    /\ Ready = Piece(buf, r, Dist(r, w)) /\ Ready' = Piece(buf', r', Dist(r', w'))
  BY DEF Line, Ready, Between, At, Piece, Dist

\* What RingInv says of the counters.
LEMMA Counters ==
    ASSUME RingInv
    PROVE  /\ INPUT_BUF \in Nat \ {0} /\ CMOD \in Nat \ {0} /\ INPUT_BUF < CMOD
           /\ r \in Int /\ w \in Int /\ e \in Int
           /\ Dist(r, w) \in Nat /\ Dist(w, e) \in Nat
           /\ Dist(r, e) = Dist(r, w) + Dist(w, e)
           /\ Dist(r, e) \in 0 .. INPUT_BUF
           /\ Dist(r, w) = 0 <=> r = w
<1>0. INPUT_BUF \in Nat \ {0} /\ CMOD \in Nat \ {0} /\ INPUT_BUF < CMOD
  BY ConsoleAssumption
<1>1. r \in Int /\ w \in Int /\ e \in Int
  BY DEF RingInv, Counter
<1>2. /\ Dist(r, w) \in 0 .. CMOD - 1 /\ Dist(w, e) \in 0 .. CMOD - 1
      /\ Dist(r, w) = 0 <=> r = w
  BY Distances DEF RingInv
<1>3. Dist(r, w) + Dist(w, e) <= INPUT_BUF
  BY DEF RingInv
<1>4. Dist(r, w) + Dist(w, e) < CMOD
  BY <1>0, <1>2, <1>3
<1>5. Dist(r, e) = Dist(r, w) + Dist(w, e)
  BY <1>4, Sum DEF RingInv
<1> QED BY <1>0, <1>1, <1>2, <1>3, <1>5

\* Backspace and kill-line take characters off the line that is being typed.
LEMMA EraseRefines ==
    ASSUME RingInv, NEW n \in 0 .. Dist(w, e), e' = (e - n) % CMOD,
           UNCHANGED <<buf, r, w, want, got>>
    PROVE  RingInv' /\ Abs!Erase
<1>1. Dist(w, e) \in Nat /\ Dist(r, w) \in Nat /\ w \in Int
  BY Counters
<1>2. e' \in Counter /\ Dist(w, e') = Dist(w, e) - n
  BY <1>1, Backward DEF RingInv
<1>3. RingInv'
  BY <1>1, <1>2, ConsoleAssumption DEF RingInv
<1>4. PICK m : m = Dist(w, e) - n
  OBVIOUS
<1>5. m \in 0 .. Dist(w, e) /\ Dist(w, e') = m
  BY <1>1, <1>2, <1>4
<1>6. Piece(buf, w, m) = SubSeq(Piece(buf, w, Dist(w, e)), 1, m)
  BY <1>1, <1>5, PiecePrefix DEF RingInv
<1>7. Len(Line) = Dist(w, e)
  BY <1>1, PieceIs, Pieces DEF RingInv
<1>8. Line' = SubSeq(Line, 1, m) /\ Ready' = Ready
  BY <1>5, <1>6, Pieces, Zenon
<1>9. \E k \in 0 .. Len(Line) : Line' = SubSeq(Line, 1, k) /\ UNCHANGED <<Ready, want, got>>
  BY <1>5, <1>7, <1>8
<1>10. Abs!Erase
  BY <1>9, Zenon DEF Abs!Erase, Line, Ready
<1> QED BY <1>3, <1>10

\* A character goes to the end of the line; the end of a line, the end-of-file
\* mark and a full ring hand the line over to the readers.
LEMMA StoreRefines ==
    ASSUME RingInv, NEW c \in Typed, HasRoom, Store(c),
           w' = IF Completes(c) THEN (e + 1) % CMOD ELSE w, UNCHANGED <<want, got>>
    PROVE  RingInv' /\ Abs!Enter(c)
<1>0. /\ INPUT_BUF \in Nat \ {0} /\ CMOD \in Nat \ {0} /\ INPUT_BUF < CMOD
      /\ r \in Int /\ w \in Int /\ e \in Int
      /\ Dist(r, w) \in Nat /\ Dist(w, e) \in Nat
      /\ Dist(r, e) = Dist(r, w) + Dist(w, e) /\ Dist(r, e) \in 0 .. INPUT_BUF
  BY Counters
<1>1. buf \in [Slots -> Typed] /\ r \in Counter /\ w \in Counter /\ e \in Counter
  BY DEF RingInv
<1>2. Dist(r, e) < INPUT_BUF
  BY DEF HasRoom, Dist
<1>3. PICK x, y, d : x = Dist(r, w) /\ y = Dist(w, e) /\ d = [buf EXCEPT ![e % INPUT_BUF] = c]
  BY Zenon
<1>4. x \in Nat /\ y \in Nat /\ x + y < INPUT_BUF /\ Dist(r, e) = x + y
  BY <1>0, <1>2, <1>3
<1>5. buf' = d /\ e' = (e + 1) % CMOD /\ r' = r
  BY <1>3 DEF Store
<1>6. e' \in Counter /\ Dist(w, e') = y + 1 /\ Dist(r, e') = x + y + 1
  <2>1. Dist(w, e) + 1 < CMOD /\ Dist(r, e) + 1 < CMOD /\ 1 \in Nat
    BY <1>0, <1>3, <1>4
  <2>2. /\ (e + 1) % CMOD \in Counter /\ Dist(w, (e + 1) % CMOD) = Dist(w, e) + 1
        /\ Dist(r, (e + 1) % CMOD) = Dist(r, e) + 1
    BY <1>1, <2>1, Forward
  <2> QED BY <1>3, <1>4, <1>5, <2>2
<1>7. /\ e % INPUT_BUF = (w + y) % INPUT_BUF
      /\ e % INPUT_BUF = (r + (x + y)) % INPUT_BUF
  <2>1. /\ e = (w + y) % CMOD /\ e = (r + (x + y)) % CMOD
    <3>1. y = IF e >= w THEN e - w ELSE e - w + CMOD
      BY <1>1, <1>3, Distances
    <3>2. x + y = IF e >= r THEN e - r ELSE e - r + CMOD
      BY <1>1, <1>4, Distances
    <3>3. PICK u, v : u = w + y /\ v = r + (x + y)
      OBVIOUS
    <3>4. /\ u \in Int /\ -CMOD <= u /\ u < 2 * CMOD
          /\ v \in Int /\ -CMOD <= v /\ v < 2 * CMOD
          /\ e = IF u < CMOD THEN u ELSE u - CMOD
          /\ e = IF v < CMOD THEN v ELSE v - CMOD
          /\ u >= 0 /\ v >= 0
      BY <1>0, <1>1, <3>1, <3>2, <1>4, <3>3 DEF Counter
    <3>5. u % CMOD = e
      BY <3>4, Near
    <3>6. v % CMOD = e
      BY <3>4, Near
    <3> QED BY <3>3, <3>5, <3>6
  <2>2. w + y \in Int /\ r + (x + y) \in Int /\ 0 \in Int
    BY <1>0, <1>4
  <2>3. /\ (((w + y) % CMOD) + 0) % INPUT_BUF = (w + y + 0) % INPUT_BUF
        /\ (((r + (x + y)) % CMOD) + 0) % INPUT_BUF = (r + (x + y) + 0) % INPUT_BUF
    BY <2>2, Wrapped, Zenon
  <2>4. w + y + 0 = w + y /\ r + (x + y) + 0 = r + (x + y) /\ e + 0 = e
    BY <1>0, <2>2
  <2> QED BY <2>1, <2>3, <2>4, Zenon
<1>8. d \in [Slots -> Typed] /\ Piece(d, w, y + 1) = Append(Piece(buf, w, y), c)
  <2>2. /\ y < INPUT_BUF /\ y \in Nat /\ w \in Int
        /\ buf \in [Slots -> Typed]
    BY <1>0, <1>1, <1>4
  <2>3. Stores(buf, w, y, c, d)
    BY <1>3, <1>7, Zenon DEF Stores
  <2> QED BY <2>2, <2>3, PieceStore
<1>9. /\ Piece(d, r, x) = Piece(buf, r, x)
      /\ Piece(d, r, x + y + 1) = Append(Piece(buf, r, x + y), c)
  <2>1. PICK n : n = x + y
    OBVIOUS
  <2>2. /\ n < INPUT_BUF /\ x \in 0 .. n /\ n \in Nat /\ r \in Int
        /\ buf \in [Slots -> Typed]
    BY <1>0, <1>1, <1>4, <2>1
  <2>3. Stores(buf, r, n, c, d)
    BY <1>3, <1>7, <2>1, Zenon DEF Stores
  <2>4. /\ Piece(d, r, x) = Piece(buf, r, x)
        /\ Piece(d, r, n + 1) = Append(Piece(buf, r, n), c)
    BY <2>2, <2>3, PieceStore
  <2> QED BY <2>1, <2>4, Zenon
<1>10. PICK s, t : s = Piece(buf, r, x) /\ t = Piece(buf, w, y)
  OBVIOUS
<1>11. s \in Seq(Typed) /\ t \in Seq(Typed) /\ Len(s) = x /\ Len(t) = y
  BY <1>0, <1>1, <1>4, <1>10, PieceIs
<1>12. Piece(d, r, x + y + 1) = s \o Append(t, c)
  <2>1. w = (r + x) % CMOD
    <3>1. x = IF w >= r THEN w - r ELSE w - r + CMOD
      BY <1>1, <1>3, Distances
    <3>2. PICK u : u = r + x
      OBVIOUS
    <3>3. /\ u \in Int /\ -CMOD <= u /\ u < 2 * CMOD /\ u >= 0
          /\ w = IF u < CMOD THEN u ELSE u - CMOD
      BY <1>0, <1>1, <1>4, <3>1, <3>2 DEF Counter
    <3>4. u % CMOD = w
      BY <3>3, Near
    <3> QED BY <3>2, <3>4
  <2>2. Piece(buf, r, x + y) = s \o t
    <3>1. Piece(buf, r, x + y) = Piece(buf, r, x) \o Piece(buf, (r + x) % CMOD, y)
      <4>1. buf \in [Slots -> Typed] /\ r \in Int /\ x \in Nat /\ y \in Nat
        BY <1>0, <1>1, <1>4
      <4> QED BY <4>1, PieceSplit, Zenon
    <3> QED BY <1>10, <2>1, <3>1, Zenon
  <2>3. Append(s \o t, c) = s \o Append(t, c)
    BY <1>11
  <2> QED BY <1>9, <2>2, <2>3, Zenon
<1>13. Line = t /\ Ready = s
  BY <1>3, <1>10, Pieces, Zenon
<1>14. Len(Line) + Len(Ready) < INPUT_BUF
  BY <1>4, <1>11, <1>13
<1>15. Completes(c) <=> c \in {NL, CtrlD} \/ Len(Line) + Len(Ready) + 1 = INPUT_BUF
  <2>1. (e + 1) % CMOD = (r + INPUT_BUF) % CMOD <=> x + y + 1 = INPUT_BUF
    <3>1. PICK f, g : f = e' /\ g = (r + INPUT_BUF) % CMOD
      OBVIOUS
    <3>2. f \in Counter /\ x + y + 1 = IF f >= r THEN f - r ELSE f - r + CMOD
      BY <1>1, <1>6, <3>1, Distances
    <3>3. g = IF r + INPUT_BUF < CMOD THEN r + INPUT_BUF ELSE r + INPUT_BUF - CMOD
      <4>1. PICK u : u = r + INPUT_BUF
        OBVIOUS
      <4>2. u \in Int /\ -CMOD <= u /\ u < 2 * CMOD /\ u >= 0
        BY <1>0, <1>1, <4>1 DEF Counter
      <4>3. u % CMOD = IF u < CMOD THEN u ELSE u - CMOD
        BY <4>2, Near
      <4> QED BY <1>0, <3>1, <4>1, <4>3
    <3>4. f = g <=> x + y + 1 = INPUT_BUF
      BY <1>0, <1>1, <1>4, <3>2, <3>3 DEF Counter
    <3> QED BY <1>5, <3>1, <3>4
  <2>2. Len(Line) + Len(Ready) + 1 = x + y + 1
    BY <1>4, <1>11, <1>13
  <2> QED BY <2>1, <2>2 DEF Completes
<1>16. CASE Completes(c)
  <2>1. w' = e' /\ Dist(r', w') = x + y + 1 /\ Dist(w', e') = 0
    <3>1. w' = e'
      BY <1>5, <1>16
    <3>2. Dist(e', e') = 0
      BY <1>6, Distances
    <3> QED BY <1>5, <1>6, <3>1, <3>2
  <2>2. RingInv'
    BY <1>0, <1>1, <1>4, <1>5, <1>6, <1>8, <2>1 DEF RingInv
  <2>3. Ready' = Ready \o Append(Line, c)
    BY <1>5, <1>12, <1>13, <2>1, Pieces, Zenon
  <2>4. Line' = << >>
    <3>1. Piece(d, e', 0) = << >>
      BY DEF Piece
    <3> QED BY <1>5, <2>1, <3>1, Pieces, Zenon
  <2>5. Abs!Enter(c)
    <3>1. c \in {NL, CtrlD} \/ Len(Line) + Len(Ready) + 1 = INPUT_BUF
      BY <1>15, <1>16
    <3> QED BY <1>14, <2>3, <2>4, <3>1 DEF Abs!Enter, Line, Ready
  <2> QED BY <2>2, <2>5
<1>17. CASE ~Completes(c)
  <2>1. w' = w /\ Dist(r', w') = x /\ Dist(w', e') = y + 1
    BY <1>3, <1>5, <1>6, <1>17
  <2>2. RingInv'
    BY <1>0, <1>1, <1>4, <1>5, <1>6, <1>8, <2>1 DEF RingInv
  <2>3. Line' = Append(Line, c) /\ Ready' = Ready
    BY <1>5, <1>8, <1>9, <1>10, <1>13, <2>1, Pieces, Zenon
  <2>4. Abs!Enter(c)
    <3>1. ~(c \in {NL, CtrlD} \/ Len(Line) + Len(Ready) + 1 = INPUT_BUF)
      BY <1>15, <1>17
    <3> QED BY <1>14, <2>3, <3>1 DEF Abs!Enter, Line, Ready
  <2> QED BY <2>2, <2>4
<1> QED BY <1>16, <1>17

\* A reader takes the oldest character.
LEMMA TakeOldest ==
    ASSUME RingInv, r # w, r' = (r + 1) % CMOD, UNCHANGED <<buf, w, e>>
    PROVE  /\ RingInv' /\ Line' = Line /\ Ready # << >> /\ Head(Ready) = At(r)
           /\ Ready' = Tail(Ready) /\ At(r) \in Typed
<1>1. /\ r \in Int /\ Dist(r, w) \in Nat \ {0} /\ Dist(w, e) \in Nat
      /\ INPUT_BUF \in Nat
  BY Counters
<1>2. r' \in Counter /\ Dist(r', w) = Dist(r, w) - 1
  <2>1. 1 \in Nat /\ 1 <= Dist(r, w)
    BY <1>1
  <2> QED BY <2>1, Backward DEF RingInv
<1>3. RingInv'
  BY <1>1, <1>2 DEF RingInv
<1>4. PICK s, n : s = Piece(buf, r, n) /\ n = Dist(r, w)
  OBVIOUS
<1>5. /\ s # << >> /\ Head(s) = buf[r % INPUT_BUF] /\ buf[r % INPUT_BUF] \in Typed
      /\ Tail(s) = Piece(buf, (r + 1) % CMOD, n - 1)
  <2>1. n \in Nat \ {0} /\ buf \in [Slots -> Typed]
    BY <1>1, <1>4 DEF RingInv
  <2> QED BY <1>1, <1>4, <2>1, PieceHead
<1>6. Ready = s /\ Ready' = Tail(s) /\ Line' = Line
  BY <1>2, <1>4, <1>5, Pieces, Zenon
<1> QED BY <1>3, <1>5, <1>6 DEF At

absVars == <<Line, Ready, want, got>>

\* The interrupt handler edits the line, completes it, or drops the character.
LEMMA UartRefines ==
    ASSUME RingInv, NEW ch \in Typed, IrqUart(ch)
    PROVE  RingInv' /\ (Abs!Next \/ UNCHANGED absVars)
<1>1. UNCHANGED <<want, got>>
  BY DEF IrqUart, reads
<1>2. ASSUME UNCHANGED ring PROVE RingInv' /\ UNCHANGED absVars
  BY <1>1, <1>2 DEF ring, RingInv, absVars, Line, Ready, Between, At
<1>3. CASE Backspace
  <2>1. CASE e # w
    <3>1. e' = (e - 1) % CMOD /\ UNCHANGED <<buf, r, w>>
      BY <1>3, <2>1 DEF Backspace
    <3>2. Dist(w, e) \in 0 .. CMOD - 1 /\ Dist(w, e) # 0
      BY <2>1, Distances DEF RingInv
    <3>3. 1 \in 0 .. Dist(w, e)
      BY <3>2, ConsoleAssumption
    <3>4. RingInv' /\ Abs!Erase
      BY <1>1, <3>1, <3>3, EraseRefines
    <3> QED BY <3>4, Zenon DEF Abs!Next
  <2>2. CASE e = w
    BY <1>2, <1>3, <2>2 DEF Backspace, ring
  <2> QED BY <2>1, <2>2
<1>4. CASE KillLine
  <2>1. PICK n \in 0 .. Dist(w, e) : e' = (e - n) % CMOD
    BY <1>4 DEF KillLine, Dist
  <2>2. UNCHANGED <<buf, r, w>>
    BY <1>4 DEF KillLine
  <2>3. RingInv' /\ Abs!Erase
    BY <1>1, <2>1, <2>2, EraseRefines
  <2> QED BY <2>3, Zenon DEF Abs!Next
<1>5. CASE Insert(ch)
  <2>1. PICK c : /\ c = IF ch = CR THEN NL ELSE ch
                 /\ \/ HasRoom /\ Completes(c) /\ Store(c) /\ w' = (e + 1) % CMOD
                    \/ HasRoom /\ ~Completes(c) /\ Store(c) /\ w' = w
                    \/ UNCHANGED ring
    BY <1>5 DEF Insert
  <2>2. c \in Typed
    BY <2>1, ConsoleAssumption
  <2>3. CASE UNCHANGED ring
    BY <1>2, <2>3
  <2>4. CASE HasRoom /\ Store(c) /\ w' = IF Completes(c) THEN (e + 1) % CMOD ELSE w
    <3>1. RingInv' /\ Abs!Enter(c)
      BY <1>1, <2>2, <2>4, StoreRefines
    <3> QED BY <2>2, <3>1, Zenon DEF Abs!Next
  <2> QED BY <2>1, <2>3, <2>4
<1> QED BY <1>3, <1>4, <1>5 DEF IrqUart

-----------------------------------------------------------------------------
(* Readers. *)

InRead == {"read", "slept"}

\* Process p goes on elsewhere and its read, if any, is as before.
LEMMA MovesOK ==
    ASSUME TypeOK, ReadInv, NEW p \in Procs, NEW l, pc' = [pc EXCEPT ![p] = l],
           pc[p] \in InRead <=> l \in InRead, UNCHANGED <<want, got>>
    PROVE  ReadInv'
<1>1. \A q \in Procs : pc'[q] = IF q = p THEN l ELSE pc[q]
  BY DEF TypeOK
<1>2. \A q \in Procs : pc'[q] \in InRead <=> pc[q] \in InRead
  BY <1>1, Zenon
<1> QED BY <1>2 DEF ReadInv, InRead

\* A read under way goes on after characters that end no line only.
LEMMA OpenIs ==
    ASSUME ReadInv, NEW p \in Procs
    PROVE  Abs!Open(p) <=> /\ Len(got[p]) < want[p]
                           /\ got[p] # << >> => got[p][Len(got[p])] # NL
<1>1. got[p] \in Seq(Typed) /\ \A i \in 1 .. Len(got[p]) - 1 : got[p][i] # NL
  BY DEF ReadInv
<1>2. PICK g : g = got[p]
  OBVIOUS
<1>3. /\ Len(g) \in Nat /\ DOMAIN g = 1 .. Len(g) /\ (g # << >> <=> Len(g) > 0)
      /\ \A i \in 1 .. Len(g) - 1 : g[i] # NL
  <2>1. g \in Seq(Typed)
    BY <1>1, <1>2
  <2>2. \A i \in 1 .. Len(g) - 1 : g[i] # NL
    BY <1>1, <1>2, Zenon
  <2> QED BY <2>1, <2>2
<1>4. (\A i \in DOMAIN g : g[i] # NL) <=> (g # << >> => g[Len(g)] # NL)
  <2>1. ASSUME g # << >> => g[Len(g)] # NL, NEW i \in DOMAIN g PROVE g[i] # NL
    <3>1. i = Len(g) \/ i \in 1 .. Len(g) - 1
      BY <1>3
    <3>2. g # << >>
      BY <1>3
    <3> QED BY <1>3, <2>1, <3>1, <3>2, Zenon
  <2>2. g # << >> => Len(g) \in DOMAIN g
    BY <1>3
  <2> QED BY <2>1, <2>2, Zenon
<1> QED BY <1>2, <1>4, Zenon DEF Abs!Open

LEMMA SysReadRefines ==
    ASSUME TypeOK, ReadInv, NEW p \in Procs, NEW n \in Sizes, SysRead(p, n)
    PROVE  ReadInv' /\ Abs!Begin(p)
<1>1. /\ pc[p] = "user" /\ pc' = [pc EXCEPT ![p] = "read"]
      /\ want' = [want EXCEPT ![p] = n] /\ UNCHANGED <<ring, got>>
  BY DEF SysRead, Swi
<1>2. n \in Nat /\ n > 0
  BY ConsoleAssumption
<1>3. want \in [Procs -> Nat] /\ want[p] \in Nat /\ ~(want[p] > 0)
  BY <1>1, Zenon DEF ReadInv
<1>4. want[p] = 0 /\ want'[p] = n /\ got[p] = << >>
  BY <1>1, <1>3 DEF ReadInv
<1>5. ReadInv'
  <2>1. want' \in [Procs -> Nat] /\ got' \in [Procs -> Seq(Typed)]
    BY <1>1, <1>2 DEF ReadInv
  <2>2. \A q \in Procs : pc'[q] = IF q = p THEN "read" ELSE pc[q]
    BY <1>1 DEF TypeOK
  <2>3. \A q \in Procs : want'[q] = IF q = p THEN n ELSE want[q]
    BY <1>1, <1>3
  <2> QED BY <1>1, <1>2, <2>1, <2>2, <2>3 DEF ReadInv
<1>6. Line' = Line /\ Ready' = Ready
  BY <1>1 DEF ring, Line, Ready, Between, At
<1>7. Abs!Begin(p)
  BY <1>1, <1>2, <1>4, <1>6, Zenon DEF Abs!Begin, Line, Ready
<1> QED BY <1>5, <1>7

LEMMA ReadCharRefines ==
    ASSUME RingInv, ReadInv, NEW p \in Procs, ReadChar(p)
    PROVE  RingInv' /\ ReadInv' /\ Abs!Take(p)
<1>1. /\ pc[p] = "read" /\ Len(got[p]) < want[p]
      /\ got[p] # << >> => got[p][Len(got[p])] # NL
      /\ r # w /\ At(r) # CtrlD /\ r' = (r + 1) % CMOD
      /\ got' = [got EXCEPT ![p] = Append(got[p], At(r))]
      /\ UNCHANGED <<pc, buf, w, e, want>>
  BY DEF ReadChar, Wanting, cpuVars
<1>2. /\ RingInv' /\ Line' = Line /\ Ready # << >> /\ Head(Ready) = At(r)
      /\ Ready' = Tail(Ready) /\ At(r) \in Typed
  BY <1>1, TakeOldest
<1>3. Abs!Open(p)
  BY <1>1, OpenIs
<1>4. ReadInv'
  <2>1. PICK g, c : g = got[p] /\ c = At(r)
    OBVIOUS
  <2>2. /\ g \in Seq(Typed) /\ c \in Typed
        /\ g # << >> => g[Len(g)] # NL
        /\ \A i \in 1 .. Len(g) - 1 : g[i] # NL
    BY <1>1, <1>2, <2>1 DEF ReadInv
  <2>3. /\ Append(g, c) \in Seq(Typed)
        /\ \A i \in 1 .. Len(Append(g, c)) - 1 : Append(g, c)[i] # NL
    <3>1. /\ Append(g, c) \in Seq(Typed) /\ Len(Append(g, c)) = Len(g) + 1
          /\ Len(g) \in Nat /\ \A i \in 1 .. Len(g) : Append(g, c)[i] = g[i]
      BY <2>2
    <3>2. \A i \in 1 .. Len(g) : g[i] # NL
      <4> TAKE i \in 1 .. Len(g)
      <4>1. g # << >> /\ (i = Len(g) \/ i \in 1 .. Len(g) - 1)
        BY <2>2
      <4> QED BY <2>2, <4>1
    <3>3. \A i \in 1 .. Len(Append(g, c)) - 1 : i \in 1 .. Len(g)
      BY <3>1
    <3> QED BY <3>1, <3>2, <3>3
  <2>4. got' = [got EXCEPT ![p] = Append(g, c)]
    BY <1>1, <2>1
  <2>5. want[p] # 0
    BY <1>1 DEF ReadInv
  <2>6. PICK h : h = Append(g, c)
    BY Zenon
  <2>7. got' = [got EXCEPT ![p] = h] /\ h \in Seq(Typed) /\ \A i \in 1 .. Len(h) - 1 : h[i] # NL
    BY <2>3, <2>4, <2>6
  <2> QED BY <1>1, <2>5, <2>7 DEF ReadInv
<1>5. Abs!Take(p)
  BY <1>1, <1>2, <1>3, Zenon DEF Abs!Take, Line, Ready
<1> QED BY <1>2, <1>4, <1>5

\* Whatever ends a read, the process wants nothing any more.
LEMMA FinishReads ==
    ASSUME TypeOK, ReadInv, NEW p \in Procs, Finish(p)
    PROVE  ReadInv' /\ want' = [want EXCEPT ![p] = 0] /\ got' = [got EXCEPT ![p] = << >>]
<1>1. /\ pc' = [pc EXCEPT ![p] = "trapret"] /\ want' = [want EXCEPT ![p] = 0]
      /\ got' = [got EXCEPT ![p] = << >>]
  BY DEF Finish
<1>2. want' \in [Procs -> Nat] /\ got' \in [Procs -> Seq(Typed)]
  <2>1. << >> \in Seq(Typed)
    OBVIOUS
  <2> QED BY <1>1, <2>1 DEF ReadInv
<1>3. \A q \in Procs : /\ pc'[q] = IF q = p THEN "trapret" ELSE pc[q]
                       /\ want'[q] = IF q = p THEN 0 ELSE want[q]
                       /\ got'[q] = IF q = p THEN << >> ELSE got[q]
  BY <1>1 DEF TypeOK, ReadInv
<1>4. Len(<< >>) = 0
  OBVIOUS
<1> QED BY <1>1, <1>2, <1>3, <1>4 DEF ReadInv

\* The three ways out of consoleread().
LEMMA EndRefines ==
    ASSUME TypeOK, RingInv, ReadInv, NEW p \in Procs,
           ReadEof(p) \/ ReadDone(p) \/ ReadKilled(p)
    PROVE  RingInv' /\ ReadInv' /\ (Abs!End(p) \/ Abs!Fail(p))
<1>1. Finish(p) /\ pc[p] = "read" /\ on = p /\ cpu.err = "none"
  BY DEF ReadEof, ReadDone, ReadKilled, Wanting
<1>2. /\ ReadInv' /\ want' = [want EXCEPT ![p] = 0] /\ got' = [got EXCEPT ![p] = << >>]
      /\ want[p] > 0
  <2>1. want[p] > 0
    BY <1>1 DEF ReadInv
  <2> QED BY <1>1, <2>1, FinishReads
<1>3. Abs!Open(p) <=> Wanting(p)
  BY <1>1, OpenIs DEF Wanting
<1>4. ASSUME UNCHANGED ring PROVE RingInv' /\ Line' = Line /\ Ready' = Ready
  BY <1>4 DEF ring, RingInv, Line, Ready, Between, At
<1>5. CASE ReadEof(p)
  <2>1. Abs!Open(p) /\ r # w /\ At(r) = CtrlD /\ UNCHANGED <<buf, w, e>>
    BY <1>3, <1>5 DEF ReadEof
  <2>2. Ready # << >> /\ Head(Ready) = CtrlD
    <3>1. /\ r \in Int /\ Dist(r, w) \in Nat \ {0} /\ buf \in [Slots -> Typed]
      BY <2>1, Counters DEF RingInv
    <3>2. Ready # << >> /\ Head(Ready) = At(r)
      BY <3>1, PieceHead, Pieces DEF At
    <3> QED BY <2>1, <3>2
  <2>3. CASE got[p] = << >>
    <3>1. r' = (r + 1) % CMOD
      BY <1>5, <2>3 DEF ReadEof
    <3>2. RingInv' /\ Line' = Line /\ Ready' = Tail(Ready)
      BY <2>1, <3>1, TakeOldest
    <3>3. Abs!End(p)
      BY <1>2, <2>1, <2>2, <2>3, <3>2 DEF Abs!End, Line, Ready
    <3> QED BY <1>2, <3>2, <3>3
  <2>4. CASE got[p] # << >>
    <3>1. r' = r
      BY <1>5, <2>4 DEF ReadEof
    <3>2. RingInv' /\ Line' = Line /\ Ready' = Ready
      BY <1>4, <2>1, <3>1 DEF ring
    <3>3. Abs!End(p)
      BY <1>2, <2>1, <2>2, <2>4, <3>2 DEF Abs!End, Line, Ready
    <3> QED BY <1>2, <3>2, <3>3
  <2> QED BY <2>3, <2>4
<1>6. CASE ReadDone(p)
  <2>1. ~Abs!Open(p) /\ UNCHANGED ring
    BY <1>3, <1>6 DEF ReadDone
  <2>2. Abs!End(p)
    BY <1>2, <1>4, <2>1 DEF Abs!End, Line, Ready
  <2> QED BY <1>2, <1>4, <2>1, <2>2
<1>7. CASE ReadKilled(p)
  <2>1. Abs!Open(p) /\ UNCHANGED ring /\ r = w
    BY <1>3, <1>7 DEF ReadKilled
  <2>2. Ready = << >>
    <3>1. Dist(r, w) = 0
      BY <2>1, Counters
    <3>2. Piece(buf, r, 0) = << >>
      BY DEF Piece
    <3> QED BY <3>1, <3>2, Pieces
  <2>3. Abs!Fail(p)
    BY <1>2, <1>4, <2>1, <2>2 DEF Abs!Fail, Line, Ready
  <2> QED BY <1>2, <1>4, <2>1, <2>3
<1> QED BY <1>5, <1>6, <1>7

\* Everything else leaves the ring and the reads alone.
LEMMA OtherSteps ==
    ASSUME TypeOK, RingInv, ReadInv,
           \/ CpuStep /\ UNCHANGED <<ring, reads>>
           \/ IrqTimer
           \/ \E p \in Procs : \/ ReadSleep(p) \/ ReadResume(p)
                               \/ \E q \in Procs : SysKill(p, q)
           \/ UNCHANGED vars
    PROVE  RingInv' /\ ReadInv' /\ UNCHANGED absVars
<1>1. UNCHANGED <<ring, reads>>
  BY Zenon DEF IrqTimer, ReadSleep, ReadResume, SysKill, vars
<1>2. RingInv' /\ UNCHANGED absVars
  BY <1>1 DEF ring, reads, RingInv, absVars, Line, Ready, Between, At
<1>3. \/ pc' = pc
      \/ \E p \in Procs, l \in {"forkret", "slept", "read", "user", "trapret", "ldm"} :
            pc' = [pc EXCEPT ![p] = l] /\ (pc[p] \in InRead <=> l \in InRead)
  <2>1. CASE CpuStep
    BY <2>1 DEF CpuStep, SchedAcquire, SchedRound, SchedSwitch, Forkret, TrapretMsr,
                TrapretLdm, InRead
  <2>2. CASE IrqTimer \/ UNCHANGED vars
    BY <2>2 DEF IrqTimer, Irq, vars, cpuVars
  <2>3. ASSUME NEW p \in Procs, ReadSleep(p) \/ ReadResume(p)
        PROVE  \E l \in {"slept", "read"} :
                  pc' = [pc EXCEPT ![p] = l] /\ pc[p] \in InRead /\ l \in InRead
    BY <2>3 DEF ReadSleep, ReadResume, Wanting, Sched, InRead
  <2>4. ASSUME NEW p \in Procs, NEW q \in Procs, SysKill(p, q)
        PROVE  pc' = [pc EXCEPT ![p] = "trapret"] /\ pc[p] = "user"
    BY <2>4 DEF SysKill, Swi
  <2> QED BY <2>1, <2>2, <2>3, <2>4 DEF InRead
<1>4. ReadInv'
  <2>1. CASE pc' = pc
    BY <1>1, <2>1 DEF ReadInv, reads
  <2>2. UNCHANGED <<want, got>>
    BY <1>1 DEF reads
  <2> QED BY <1>3, <2>1, <2>2, MovesOK
<1> QED BY <1>2, <1>4

LEMMA LinesStep ==
    ASSUME TypeOK, RingInv, ReadInv, [Next]_vars
    PROVE  RingInv' /\ ReadInv' /\ (Abs!Next \/ UNCHANGED absVars)
<1>1. CASE \/ CpuStep /\ UNCHANGED <<ring, reads, killed>>
           \/ IrqTimer
           \/ \E p \in Procs : \/ ReadSleep(p) \/ ReadResume(p)
                               \/ \E q \in Procs : SysKill(p, q)
           \/ UNCHANGED vars
  BY <1>1, OtherSteps
<1>2. ASSUME NEW ch \in Typed, IrqUart(ch)
      PROVE  RingInv' /\ ReadInv' /\ (Abs!Next \/ UNCHANGED absVars)
  <2>1. UNCHANGED <<want, got, pc>>
    BY <1>2 DEF IrqUart, Backspace, KillLine, Insert, Irq, reads
  <2>2. ReadInv'
    BY <2>1 DEF ReadInv
  <2> QED BY <1>2, <2>2, UartRefines
<1>3. ASSUME NEW p \in Procs, NEW n \in Sizes, SysRead(p, n)
      PROVE  RingInv' /\ ReadInv' /\ Abs!Next
  <2>1. RingInv'
    BY <1>3 DEF SysRead, ring, RingInv
  <2> QED BY <1>3, <2>1, SysReadRefines DEF Abs!Next
<1>4. ASSUME NEW p \in Procs, ReadChar(p)
      PROVE  RingInv' /\ ReadInv' /\ Abs!Next
  BY <1>4, ReadCharRefines DEF Abs!Next
<1>5. ASSUME NEW p \in Procs, ReadEof(p) \/ ReadDone(p) \/ ReadKilled(p)
      PROVE  RingInv' /\ ReadInv' /\ Abs!Next
  BY <1>5, EndRefines DEF Abs!Next
<1> QED BY <1>1, <1>2, <1>3, <1>4, <1>5, Zenon DEF Next

\* For every number of processes, every size of the ring and every width of its
\* counters, consoleintr() and consoleread() make a queue of lines: each is read
\* once and in order, edited only until it is complete.
THEOREM ConsoleIsLineQueue == Spec => LineQueue
<1> DEFINE Inv == IInv /\ RingInv /\ ReadInv
<1>1. Init => Inv /\ Abs!Init
  <2> SUFFICES ASSUME Init PROVE Inv /\ Abs!Init
    OBVIOUS
  <2>1. 0 \in Counter /\ Dist(0, 0) = 0
    <3>1. 0 \in Counter
      BY ConsoleAssumption DEF Counter
    <3> QED BY <3>1, Distances
  <2>2. RingInv
    BY <2>1, ConsoleAssumption DEF Init, RingInv, Slots
  <2>3. ReadInv
    <3>1. << >> \in Seq(Typed) /\ Len(<< >>) = 0
      OBVIOUS
    <3>2. \A p \in Procs : want[p] = 0 /\ got[p] = << >> /\ pc[p] = "forkret"
      BY DEF Init, CpuInit
    <3>3. want \in [Procs -> Nat] /\ got \in [Procs -> Seq(Typed)]
      BY <3>1 DEF Init
    <3> QED BY <3>1, <3>2, <3>3 DEF ReadInv
  <2>4. Line = << >> /\ Ready = << >>
    <3>1. Piece(buf, 0, 0) = << >>
      BY DEF Piece
    <3> QED BY <2>1, <3>1, Pieces DEF Init
  <2>5. Abs!Init
    BY <2>4 DEF Init, Abs!Init, Line, Ready
  <2> QED BY <2>2, <2>3, <2>5, InitOK
<1>2. Inv /\ [Next]_vars => Inv' /\ [Abs!Next]_absVars
  <2> SUFFICES ASSUME Inv, [Next]_vars PROVE Inv' /\ (Abs!Next \/ UNCHANGED absVars)
    OBVIOUS
  <2>1. IInv'
    BY StepOK
  <2>2. RingInv' /\ ReadInv' /\ (Abs!Next \/ UNCHANGED absVars)
    BY LinesStep DEF IInv
  <2> QED BY <2>1, <2>2
<1> QED BY <1>1, <1>2, PTL DEF Spec, LineQueue, Abs!Spec, absVars, Line, Ready

-----------------------------------------------------------------------------
(* The nesting of locks. *)

INSTANCE FiniteSetTheorems

\* Whatever is held, one lock or none, LocksSound follows.
LEMMA Sound == ASSUME IInv PROVE LocksSound
<1>1. PICK L \in {{}, {"ptable"}, {"input"}} : Holds(L)
  BY DEF IInv, TypeOK, LocksByControl, Procs, SCHED
<1>2. Cardinality({}) = 0 /\ Cardinality({"ptable"}) = 1 /\ Cardinality({"input"}) = 1
  BY FS_EmptySet, FS_Singleton
<1> QED BY <1>1, <1>2 DEF Holds, LocksSound

\* For every number of processes, whatever is typed, read and killed and
\* wherever an interrupt comes: the checks of acquire(), release(), popcli()
\* and sched() never fail, a lock is held only with interrupts off, and ncli
\* counts the locks held.
THEOREM LocksAlwaysSound == Spec => []LocksSound
<1>1. Init => IInv
  BY InitOK
<1>2. IInv /\ [Next]_vars => IInv'
  BY StepOK
<1>3. IInv => LocksSound
  BY Sound
<1> QED BY <1>1, <1>2, <1>3, PTL DEF Spec
=============================================================================
