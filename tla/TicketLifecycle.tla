-------------------------- MODULE TicketLifecycle ---------------------------
(***************************************************************************)
(* What the ticketing component promises to its readers, with no mention   *)
(* of transactions, locks or statements: every ticket starts as new, its   *)
(* visible state moves only along whitelisted edges, and the audit trail   *)
(* only grows and records exactly the edges the ticket took.  One step may *)
(* take several edges, because one transaction may.                        *)
(***************************************************************************)
EXTENDS TicketWorkflow

CONSTANT Tickets

VARIABLES state,    \* state[t]: the committed state of ticket t
          history   \* history[t]: the committed audit events of t

vars == <<state, history>>

Init ==
    /\ state = [t \in Tickets |-> "new"]
    /\ history = [t \in Tickets |-> <<>>]

(* history'[t] is history[t] followed by a legal path to state'[t]. *)
Advance(t) ==
    LET old == Len(history[t])
        new == SubSeq(history'[t], old + 1, Len(history'[t]))
    IN  /\ history'[t] = history[t] \o new
        /\ Legal(new)
        /\ Path(new, state[t], state'[t])

Next ==
    /\ DOMAIN state' = Tickets
    /\ DOMAIN history' = Tickets
    /\ \A t \in Tickets : Advance(t)

Spec == Init /\ [][Next]_vars
=============================================================================
