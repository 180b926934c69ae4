----------------------------- MODULE ConsoleAbs -----------------------------
(***************************************************************************)
(* What the console promises to readers: typed characters can be edited    *)
(* until their line is complete; complete lines are read once, in order,   *)
(* at most one line by a read; an end-of-file mark ends a read before it   *)
(* and makes a read that meets it first return nothing.                    *)
(***************************************************************************)
EXTENDS Naturals, Sequences

CONSTANTS Procs, Chars, NL, EOF, Size

VARIABLES line,   \* characters that can still be edited
          ready,  \* characters readers may take
          want,   \* per process the size of its read; 0 when it does not read
          got     \* per process what its read has taken

Init == line = << >> /\ ready = << >>
        /\ want = [p \in Procs |-> 0] /\ got = [p \in Procs |-> << >>]

Erase == \E n \in 0 .. Len(line) : line' = SubSeq(line, 1, n) /\ UNCHANGED <<ready, want, got>>

Enter(c) ==
    /\ Len(line) + Len(ready) < Size
    /\ IF c \in {NL, EOF} \/ Len(line) + Len(ready) + 1 = Size
       THEN ready' = ready \o Append(line, c) /\ line' = << >>
       ELSE line' = Append(line, c) /\ UNCHANGED ready
    /\ UNCHANGED <<want, got>>

Begin(p) ==
    /\ want[p] = 0 /\ want'[p] > 0
    /\ want' = [want EXCEPT ![p] = want'[p]]
    /\ UNCHANGED <<line, ready, got>>

Open(p) == Len(got[p]) < want[p] /\ \A i \in DOMAIN got[p] : got[p][i] # NL

Take(p) ==
    /\ Open(p) /\ ready # << >> /\ Head(ready) # EOF
    /\ got' = [got EXCEPT ![p] = Append(@, Head(ready))]
    /\ ready' = Tail(ready)
    /\ UNCHANGED <<line, want>>

\* A read ends when it has all it wants, after a line, or at the mark.
End(p) ==
    /\ want[p] > 0
    /\ Open(p) => ready # << >> /\ Head(ready) = EOF
    /\ ready' = IF Open(p) /\ got[p] = << >> THEN Tail(ready) ELSE ready
    /\ want' = [want EXCEPT ![p] = 0]
    /\ got' = [got EXCEPT ![p] = << >>]
    /\ UNCHANGED line

\* The read of a killed process fails when there is nothing to take.
Fail(p) ==
    /\ want[p] > 0 /\ Open(p) /\ ready = << >>
    /\ want' = [want EXCEPT ![p] = 0]
    /\ got' = [got EXCEPT ![p] = << >>]
    /\ UNCHANGED <<line, ready>>

Next == \/ Erase \/ \E c \in Chars : Enter(c)
        \/ \E p \in Procs : Begin(p) \/ Take(p) \/ End(p) \/ Fail(p)

Spec == Init /\ [][Next]_<<line, ready, want, got>>
=============================================================================
