--------------------------- MODULE MCSeededWidget ---------------------------
(* Small instances of SeededWidget for TLC. *)
EXTENDS SeededWidget

CONSTANTS k1, k2, ta, o1, d1

OneTenant == [k \in {k2} |-> ta]

(* Of the two origins the first is in the domain. *)
OneMatch == {<<o1, d1>>}

(* Two entries; the requests of the instance ask for the key of the second. *)
TwoEntries == <<k1, k2>>
=============================================================================
