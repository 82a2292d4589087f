--------------------------- MODULE TicketWorkflow ---------------------------
(***************************************************************************)
(* The ticket workflow of app/domain/ticketing: the states, the actors and *)
(* the whitelist of edges each actor may take.  Pure data and predicates,  *)
(* shared by the abstract lifecycle and by the transactional model.        *)
(***************************************************************************)
EXTENDS Naturals, Sequences

TicketState ==
    {"new", "ai_handling", "escalated", "with_agent",
     "resolved", "closed", "reopened"}

Actor == {"ai", "agent", "system", "customer"}

(* Who may take which edge, as <<from, to, actor>> triples. *)
Allowed ==
    { <<"new",         "ai_handling", "ai">>,
      <<"ai_handling", "resolved",    "ai">>,
      <<"ai_handling", "resolved",    "system">>,
      <<"ai_handling", "escalated",   "ai">>,
      <<"escalated",   "with_agent",  "agent">>,
      <<"with_agent",  "resolved",    "agent">>,
      <<"with_agent",  "escalated",   "agent">>,
      <<"resolved",    "closed",      "system">>,
      <<"resolved",    "reopened",    "agent">>,
      <<"resolved",    "reopened",    "customer">>,
      <<"closed",      "reopened",    "agent">>,
      <<"closed",      "reopened",    "customer">>,
      <<"reopened",    "ai_handling", "system">>,
      <<"reopened",    "with_agent",  "system">> }

(* The second, independent clamp on what the AI may do. *)
AIWhitelist ==
    { <<"new", "ai_handling">>,
      <<"ai_handling", "resolved">>,
      <<"ai_handling", "escalated">> }

IsAllowed(from, to, actor) ==
    /\ <<from, to, actor>> \in Allowed
    /\ actor = "ai" => <<from, to>> \in AIWhitelist

(***************************************************************************)
(* A row of ticket_event.  `at' is created_at, which the database fills    *)
(* with the start time of the writing transaction.                         *)
(***************************************************************************)
Event(Time) ==
    [from : TicketState, to : TicketState, actor : Actor, at : Time]

LegalEvent(e) == IsAllowed(e.from, e.to, e.actor)

Legal(events) == \A i \in 1..Len(events) : LegalEvent(events[i])

(* The state a ticket that was in `start' is in after its first i events. *)
StateAfter(events, start, i) == IF i = 0 THEN start ELSE events[i].to

(* The events lead from state `start' to state `end' without a gap. *)
Path(events, start, end) ==
    /\ \A i \in 1..Len(events) :
          events[i].from = StateAfter(events, start, i - 1)
    /\ end = StateAfter(events, start, Len(events))
=============================================================================
