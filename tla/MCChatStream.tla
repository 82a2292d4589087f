---------------------------- MODULE MCChatStream ----------------------------
(* Small instances of ChatStream for TLC. *)
EXTENDS ChatStream

(* Every event of the union; of final only those whose two optional fields and
   whose two flags come and go together. *)
UnionEvents ==
    {e \in SSEEvent : e.type = "final" =>
        /\ e.body.answer_complete = e.body.escalate
        /\ (e.body.escalation_reason = None) <=> (e.body.advisory_confidence = None)}
=============================================================================
