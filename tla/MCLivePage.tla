----------------------------- MODULE MCLivePage -----------------------------
(* A small instance of LivePage for TLC.                                    *)
EXTENDS LivePage, TLC

CONSTANTS p1, p2

(* The results of one poll have an older and a newer state; the other's are *)
(* only told from those of the first.                                       *)
OneVote == p1 :> 1 @@ p2 :> 0
=============================================================================
