----------------------------- MODULE LossLedger -----------------------------
(***************************************************************************)
(* What the board's link promises its reader, with the threads, the ring   *)
(* and the USB driver left out: every frame is given a number, the numbers *)
(* count up by one, and a number is either still on its way, read by the   *)
(* host in increasing order, or gone for good.  A reader that knows only   *)
(* the numbers it has read therefore knows exactly which are gone.         *)
(***************************************************************************)
EXTENDS Integers

VARIABLES
  issued,   \* how many numbers have been given out
  pending,  \* numbers given out that may still be read
  newest    \* the newest number read, -1 before the first

ledger == <<issued, pending, newest>>

Init ==
  /\ issued = 0
  /\ pending = {}
  /\ newest = -1

Issue ==
  /\ pending' = pending \cup {issued}
  /\ issued' = issued + 1
  /\ UNCHANGED newest

\* A number refused by the ring before it was ever pending.
IssueLost ==
  /\ issued' = issued + 1
  /\ UNCHANGED <<pending, newest>>

Lose ==
  /\ \E gone \in SUBSET pending : pending' = pending \ gone
  /\ UNCHANGED <<issued, newest>>

Read ==
  \E n \in pending :
    /\ newest < n
    /\ pending' = pending \ {n}
    /\ newest' = n
    /\ UNCHANGED issued

Next == Issue \/ IssueLost \/ Lose \/ Read

Spec == Init /\ [][Next]_ledger
=============================================================================
