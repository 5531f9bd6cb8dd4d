----------------------------- MODULE KeptStore -----------------------------
(***************************************************************************)
(* What the fallback store promises: operations change the documents; a    *)
(* save keeps all of them or none; while a save is due the kept documents  *)
(* may be lost altogether; a restart brings back what is kept.             *)
(***************************************************************************)
CONSTANTS
  Stores,  \* the contents a store can have
  Nothing  \* the empty content

VARIABLES
  docs,  \* the documents the program works on
  kept,  \* what a restart would bring back
  due    \* an operation has not been saved yet

Init == docs = Nothing /\ kept = Nothing /\ due = FALSE

Operate ==
  /\ docs' \in Stores /\ due' = TRUE
  /\ UNCHANGED kept

Save ==
  /\ due /\ due' = FALSE
  /\ kept' = docs
  /\ UNCHANGED docs

Lose ==
  /\ due
  /\ kept' = Nothing
  /\ UNCHANGED <<docs, due>>

Restart ==
  /\ docs' = kept /\ due' = FALSE
  /\ UNCHANGED kept

Next == Operate \/ Save \/ Lose \/ Restart

Spec == Init /\ [][Next]_<<docs, kept, due>>

=============================================================================
