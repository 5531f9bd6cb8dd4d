---------------------------- MODULE MCWorkspace ----------------------------
(* A small instance of Workspace for TLC.                                   *)
EXTENDS Workspace, TLC

CONSTANTS a1, a2, p1, p2, blank, x, y, z

(* z is another text than x to the page alone: x with dotted capitals I,    *)
(* which Go makes plain small ones. They take a byte more each, so z may be *)
(* over 100 bytes where x is not.                                           *)
Words   == {blank, x, y, z}
JSLower == [t \in Words |-> t]
ToLower == [t \in Words |-> IF t = z THEN x ELSE t]
OneTemplate ==
  {[question |-> "fit",
    options |-> [t \in Words |-> IF t \in {x, y} THEN 1 ELSE 0]]}

Symmetry == Permutations({a1, a2}) \cup Permutations({p1, p2})
=============================================================================
