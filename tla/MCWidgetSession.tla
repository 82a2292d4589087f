-------------------------- MODULE MCWidgetSession ---------------------------
(* Small instances of WidgetSession for TLC. *)
EXTENDS WidgetSession, TLC

CONSTANTS k1, ta, o1, d1

OneTenant == [k \in {k1} |-> ta]

(* Of the two origins the first is in the domain. *)
OneMatch == {<<o1, d1>>}

(* Requests are interchangeable. *)
Symmetry == Permutations(Hits)
=============================================================================
