------------------------ MODULE MCTicketTransitions -------------------------
(* Small instances of TicketTransitions for TLC. *)
EXTENDS TicketTransitions, TLC

CONSTANTS w1, w2, t1, t2

OneTicket == {t1}
TwoTickets == {t1, t2}
TwoWriters == {w1, w2}

(* One ticket all the way through escalation, reopening and back to the AI,
   with a closing-confirm of the AI that can arrive late, and one request the
   whitelist refuses. *)
LongLife ==
    { <<"new", "ai_handling", "ai">>,
      <<"ai_handling", "escalated", "ai">>,
      <<"ai_handling", "resolved", "ai">>,
      <<"escalated", "with_agent", "agent">>,
      <<"with_agent", "resolved", "agent">>,
      <<"resolved", "closed", "system">>,
      <<"closed", "reopened", "customer">>,
      <<"reopened", "ai_handling", "system">>,
      <<"closed", "reopened", "ai">> }

(* Pickup and idle resolve only: enough for two rows to be locked in
   opposite orders. *)
Pickup ==
    { <<"new", "ai_handling", "ai">>,
      <<"ai_handling", "resolved", "system">> }

(* Writers are interchangeable and so are tickets. *)
Symmetry == Permutations(Writers) \cup Permutations(Tickets)
=============================================================================
