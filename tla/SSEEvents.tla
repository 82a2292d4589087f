----------------------------- MODULE SSEEvents ------------------------------
(***************************************************************************)
(* The events of a streamed chat turn, written twice in the repository:    *)
(* the union of app/schemas/sse.py renders them, the mirror in             *)
(* frontend/src/types/sse.ts parses them.  A field holds one of a few      *)
(* values that the two sides can tell apart; None and undefined are one.   *)
(***************************************************************************)
EXTENDS Functions

None == "none"
Strings == {"text", "paragraphs"}    \* paragraphs: with a blank line in it
Numbers == {"zero", "number"}
Booleans == {"true", "false"}
Lists == {"empty", "list"}
Stages == {"stage"}                  \* one of the four stages both sides list

(* What the backend can stream: the members of the discriminated union. *)
SSEEvent ==
    [type : {"status"}, body : [stage : Stages]] \cup
    [type : {"token"}, body : [text : Strings]] \cup
    [type : {"citation"},
     body : [index : {"number"}, source_id : {"text"}, title : {"text"},
             page_number : {"number", None}, source_url : {"text", None}]] \cup
    [type : {"final"},
     body : [answer_complete : Booleans, detected_language : {"text"},
             tags : {"list"}, retrieval_hits : {"number"}, escalate : Booleans,
             escalation_reason : {"text", None},
             advisory_confidence : {"number", None}]] \cup
    [type : {"error"}, body : [code : {"text"}, message : {"text"}]] \cup
    [type : {"done"}, body : [turn_id : {"text"}, ticket_state : {"text"}]]

(* model_dump(exclude_none=True): fields without a value are not sent. *)
Payload(e) ==
    [type |-> e.type, body |-> RestrictValues(e.body, LAMBDA v : v # None)]

-----------------------------------------------------------------------------
(* parseSSEEvent *)

(* Mutant: the mirror demands the page number that crawled pages lack. *)
Demanded_PageNumber ==
    [status   |-> [stage |-> Stages],
     token    |-> [text |-> Strings],
     citation |-> [index |-> Numbers, source_id |-> Strings, title |-> Strings,
                   page_number |-> Numbers],
     final    |-> [detected_language |-> Strings],
     error    |-> [code |-> Strings, message |-> Strings],
     done     |-> [turn_id |-> Strings, ticket_state |-> Strings]]

(* Fields whose absence or type makes the parser throw. *)
Demanded ==
    [status   |-> [stage |-> Stages],
     token    |-> [text |-> Strings],
     citation |-> [index |-> Numbers, source_id |-> Strings, title |-> Strings],
     final    |-> [detected_language |-> Strings],
     error    |-> [code |-> Strings, message |-> Strings],
     done     |-> [turn_id |-> Strings, ticket_state |-> Strings]]

(* Fields that are taken when they have their type, with the value that stands
   in for them when they have not. *)
Optional ==
    [citation |-> [page_number |-> [of |-> Numbers, else |-> None],
                   source_url |-> [of |-> Strings, else |-> None]],
     final    |-> [answer_complete |-> [of |-> Booleans, else |-> "false"],
                   tags |-> [of |-> Lists, else |-> "empty"],
                   retrieval_hits |-> [of |-> Numbers, else |-> "zero"],
                   escalate |-> [of |-> Booleans, else |-> "false"],
                   escalation_reason |-> [of |-> Strings, else |-> None],
                   advisory_confidence |-> [of |-> Numbers, else |-> None]]]

Has(p, f, values) == f \in DOMAIN p.body /\ p.body[f] \in values

Accepts(p) ==
    /\ p.type \in DOMAIN Demanded
    /\ \A f \in DOMAIN Demanded[p.type] : Has(p, f, Demanded[p.type][f])

(* The fields parseSSEEvent fills in for a type. *)
Defaults(type) == IF type \in DOMAIN Optional THEN Optional[type] ELSE <<>>

(* Mutant: the payload is handed on as it is. *)
ParseSSEEvent_AsIs(p) == p

ParseSSEEvent(p) ==
    LET opt == Defaults(p.type)
        field(f) == IF f \in DOMAIN opt /\ ~Has(p, f, opt[f].of)
                      THEN opt[f].else ELSE p.body[f]
    IN  [type |-> p.type,
         body |-> [f \in DOMAIN Demanded[p.type] \cup DOMAIN opt |-> field(f)]]
=============================================================================
