--------------------------- MODULE MCFrontendAuth ---------------------------
(* Small instances of FrontendAuth for TLC. *)
EXTENDS FrontendAuth, TLC

CONSTANT q1

(* One request with a body, any other without. *)
FirstOnly == {q1}
=============================================================================
