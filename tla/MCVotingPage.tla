---------------------------- MODULE MCVotingPage ----------------------------
(* Small instances of VotingPage for TLC.                                   *)
EXTENDS VotingPage, TLC

CONSTANTS p1, p2, a, b, c, f1, f2, u1, u2

Choices   == p1 :> {a, b} @@ p2 :> {c}
OneChoice == p1 :> {a, b}

Poll(multiple, changes, after, account) ==
  [multiple |-> multiple, changes |-> changes, after |-> after, account |-> account]

(* One choice for good; several that may change; one with an account.       *)
PageSettings  == {Poll(FALSE, FALSE, TRUE, FALSE), Poll(TRUE, TRUE, TRUE, FALSE)}
TokenSettings == PageSettings \cup {Poll(FALSE, FALSE, TRUE, TRUE)}

PageSymmetry == Permutations({a, b})
Symmetry ==
  {f @@ g @@ h : f \in Permutations({a, b}), g \in Permutations({f1, f2}),
                 h \in Permutations({u1, u2})}
=============================================================================
