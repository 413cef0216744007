---------------------------- MODULE MCCommissions ----------------------------
(* The instances of Commissions that TLC checks. *)
EXTENDS Commissions, TLC

CONSTANTS a1, a2, k1, k2, q1, q2

MCAdmins   == {a1, a2}
MCClicks   == {k1, k2}
MCPosts    == {q1, q2}
MCSymmetry == Permutations(MCAdmins) \cup Permutations(MCClicks) \cup Permutations(MCPosts)
=============================================================================
