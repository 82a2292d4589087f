---------------------------- MODULE EventChannel ----------------------------
(***************************************************************************)
(* What a streamed turn promises to the widget, with no mention of bytes,  *)
(* chunks or frames: the events of the backend arrive in order, each once, *)
(* and the call resolves only when all of them have arrived.  A call may   *)
(* be rejected at any time; what has arrived by then stays valid.          *)
(***************************************************************************)
EXTENDS Sequences, Naturals

CONSTANT Events

VARIABLES sent,      \* the events of the turn so far
          delivered, \* the events handed to the widget
          outcome    \* "open", "resolved" or "rejected"

vars == <<sent, delivered, outcome>>

Init == sent = <<>> /\ delivered = <<>> /\ outcome = "open"

Send(e) ==
    /\ outcome # "resolved"
    /\ sent' = Append(sent, e)
    /\ UNCHANGED <<delivered, outcome>>

(* The next event; the widget may break the call while it handles it. *)
Deliver ==
    /\ outcome = "open"
    /\ Len(delivered) < Len(sent)
    /\ delivered' = Append(delivered, sent[Len(delivered) + 1])
    /\ outcome' \in {"open", "rejected"}
    /\ UNCHANGED sent

Resolve ==
    /\ outcome = "open" /\ delivered = sent
    /\ outcome' = "resolved"
    /\ UNCHANGED <<sent, delivered>>

Reject ==
    /\ outcome = "open"
    /\ outcome' = "rejected"
    /\ UNCHANGED <<sent, delivered>>

Next == (\E e \in Events : Send(e)) \/ Deliver \/ Resolve \/ Reject

Spec == Init /\ [][Next]_vars
=============================================================================
