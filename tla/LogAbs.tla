------------------------------- MODULE LogAbs -------------------------------
(***************************************************************************)
(* What log.c promises the file system: a block store changed only by      *)
(* whole transactions, one at a time.  A crash, or a panic, drops the      *)
(* transaction in progress; a committed one is never lost nor torn.        *)
(***************************************************************************)
CONSTANTS Blocks, Data, NoWrite

VARIABLES store,    \* the committed content of every block
          open,     \* a transaction is in progress
          pend      \* what it has written so far

vars == <<store, open, pend>>

Nothing == [b \in Blocks |-> NoWrite]

Init == /\ store \in [Blocks -> Data]
        /\ open = FALSE
        /\ pend = Nothing

Begin == /\ ~open
         /\ open' = TRUE
         /\ UNCHANGED <<store, pend>>

Write(b, v) == /\ open
               /\ pend' = [pend EXCEPT ![b] = v]
               /\ UNCHANGED <<store, open>>

Commit == /\ open
          /\ store' = [b \in Blocks |-> IF pend[b] = NoWrite THEN store[b] ELSE pend[b]]
          /\ open' = FALSE
          /\ pend' = Nothing

Abort == /\ open
         /\ open' = FALSE
         /\ pend' = Nothing
         /\ UNCHANGED store

Next == \/ Begin
        \/ \E b \in Blocks, v \in Data : Write(b, v)
        \/ Commit
        \/ Abort

Spec == Init /\ [][Next]_vars
=============================================================================
