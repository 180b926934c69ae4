------------------------------ MODULE PipeAbs -------------------------------
(***************************************************************************)
(* What a pipe promises: a bounded first-in first-out channel of bytes     *)
(* that any number of writers append to and readers take from.             *)
(***************************************************************************)
EXTENDS Naturals, Sequences

CONSTANTS Val, Size

VARIABLES queue,    \* the bytes in transit, oldest first
          out       \* the bytes the last read returned

Init == queue = <<>> /\ out = <<>>

Send == \E n \in 1 .. Size - Len(queue) : \E s \in [1 .. n -> Val] :
           queue' = queue \o s /\ UNCHANGED out

Receive == \E n \in 0 .. Len(queue) :
              /\ out' = SubSeq(queue, 1, n)
              /\ queue' = SubSeq(queue, n + 1, Len(queue))

\* The pipe is freed, or a new one is made; bytes nobody can read are gone.
Reset == queue' = <<>> /\ out' = <<>>

Spec == Init /\ [][Send \/ Receive \/ Reset]_<<queue, out>>
=============================================================================
