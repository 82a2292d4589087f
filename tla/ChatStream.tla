----------------------------- MODULE ChatStream -----------------------------
(***************************************************************************)
(* One streamed turn: frames of to_sse_frame on the backend, a network     *)
(* that cuts them into chunks anywhere, and streamTurn in the browser.     *)
(*                                                                         *)
(* The wire carries symbols: the starts of lines, newlines, and a JSON     *)
(* text in two halves, so that a chunk can end inside of it.  The chat     *)
(* endpoint is not in the repository; it may stream any events.            *)
(***************************************************************************)
EXTENDS SSEEvents, SequencesExt, FiniteSetsExt, Integers

CONSTANTS Events,    \* the events of an instance
          MaxEvents  \* bound: events of the turn

ASSUME EventsAssumption == Events \subseteq SSEEvent
ASSUME MaxEventsAssumption == MaxEvents \in Nat

VARIABLES sent,      \* history: the events the backend has streamed
          server,    \* "streaming", "closed" or "broken"
          wire,      \* symbols the browser has not read yet
          buffer,    \* streamTurn's buffer
          delivered, \* history: the events onEvent was called with
          phase,     \* where streamTurn is
          cause      \* why it was rejected

vars == <<sent, server, wire, buffer, delivered, phase, cause>>

Init ==
    /\ sent = <<>> /\ wire = <<>> /\ buffer = <<>> /\ delivered = <<>>
    /\ server = "streaming" /\ phase = "fetch" /\ cause = None

-----------------------------------------------------------------------------
(* The wire format *)

NL == <<"newline">>
EventLine == <<"event:">>
IdLine == <<"id:">>
DataLine == <<"data:">>

(* Mutant: a newline in a string is not escaped. *)
Json_Raw(p) ==
    IF p.type = "token" /\ p.body.text = "paragraphs"
      THEN <<<<"open", p>>, NL, NL, <<"close", p>>>>
      ELSE <<<<"open", p>>, <<"close", p>>>>

(* json.dumps escapes newlines and everything that is not ASCII: one line. *)
Json(p) == <<<<"open", p>>, <<"close", p>>>>

(* JSON.parse succeeds on a whole JSON text only. *)
IsJson(text) ==
    /\ Len(text) = 2
    /\ text[1][1] = "open" /\ text[2] = <<"close", text[1][2]>>

(* parseSSEEvent(JSON.parse(text)) returns. *)
Parses(text) == IsJson(text) /\ Accepts(text[1][2])

ToSseFrame(e, numbered) ==
    <<EventLine, NL>> \o (IF numbered THEN <<IdLine, NL>> ELSE <<>>)
        \o <<DataLine>> \o Json(Payload(e)) \o <<NL, NL>>

(* The rest of the line that starts at i, without its prefix. *)
RestOfLine(frame, i) ==
    LET ends == {j \in i..Len(frame) : frame[j] = NL} \cup {Len(frame) + 1}
    IN  SubSeq(frame, i + 1, Min(ends) - 1)

(* The elements of S from the smallest to the largest. *)
InOrder(S) ==
    CHOOSE s \in [1..Cardinality(S) -> S] : \A i, j \in DOMAIN s : i < j => s[i] < s[j]

(* Its data lines, joined by newlines; <<>> stands for null. *)
DataFromFrame(frame) ==
    LET data == {i \in DOMAIN frame : /\ frame[i] = DataLine
                                      /\ i = 1 \/ frame[i - 1] = NL}
        join(text, i) == (IF text = <<>> THEN text ELSE Append(text, NL))
                             \o RestOfLine(frame, i)
    IN  FoldLeft(join, <<>>, InOrder(data))

(* Positions of the blank lines that end frames. *)
Separators(text) ==
    {i \in 1..(Len(text) - 1) : text[i] = NL /\ text[i + 1] = NL}

-----------------------------------------------------------------------------
(* The backend and the network *)

Stream(e, numbered) ==
    /\ server = "streaming" /\ Len(sent) < MaxEvents
    /\ sent' = Append(sent, e)
    /\ wire' = wire \o ToSseFrame(e, numbered)
    /\ UNCHANGED <<server, buffer, delivered, phase, cause>>

Close ==
    /\ server = "streaming"
    /\ server' = "closed"
    /\ UNCHANGED <<sent, wire, buffer, delivered, phase, cause>>

(* The connection fails; what the browser has not read is lost. *)
Break ==
    /\ server = "streaming" \/ wire # <<>>
    /\ server' = "broken"
    /\ wire' = <<>>
    /\ UNCHANGED <<sent, buffer, delivered, phase, cause>>

-----------------------------------------------------------------------------
(* streamTurn *)

Reject(why) == phase' = "rejected" /\ cause' = why

(* The response has come with a good status and a body. *)
Respond ==
    /\ phase = "fetch" /\ server # "broken"
    /\ phase' = "read"
    /\ UNCHANGED <<sent, server, wire, buffer, delivered, cause>>

(* An error status: stream failed. *)
Refused ==
    /\ phase = "fetch" /\ server = "streaming" /\ sent = <<>>
    /\ Reject("status")
    /\ server' = "closed"
    /\ UNCHANGED <<sent, wire, buffer, delivered>>

(* fetch or reader.read rejects when the connection has failed. *)
NetworkFails ==
    /\ phase \in {"fetch", "read"} /\ server = "broken"
    /\ Reject("network")
    /\ UNCHANGED <<sent, server, wire, buffer, delivered>>

(* The caller's signal; it has no effect before the next await. *)
Abort ==
    /\ phase \in {"fetch", "read"}
    /\ Reject("abort")
    /\ UNCHANGED <<sent, server, wire, buffer, delivered>>

(* Mutant: the unfinished frame in the buffer is overwritten. *)
Buffered_Fresh(chunk) == chunk

Buffered(chunk) == buffer \o chunk

(* One chunk: any part of what is on the wire. *)
Read ==
    /\ phase = "read"
    /\ \E n \in 1..Len(wire) :
          /\ buffer' = Buffered(SubSeq(wire, 1, n))
          /\ wire' = SubSeq(wire, n + 1, Len(wire))
    /\ phase' = "drain"
    /\ UNCHANGED <<sent, server, delivered, cause>>

(* Mutant: the blank line is left in the buffer. *)
AfterFrame_KeepsBlank(sep) == SubSeq(buffer, sep, Len(buffer))

AfterFrame(sep) == SubSeq(buffer, sep + 2, Len(buffer))

(* One turn of the inner loop: cut a frame off, parse it, call onEvent, which
   may throw. *)
Frame ==
    /\ phase = "drain" /\ Separators(buffer) # {}
    /\ \E sep \in {Min(Separators(buffer))} :
       \E data \in {DataFromFrame(SubSeq(buffer, 1, sep - 1))} :
          /\ buffer' = AfterFrame(sep)
          /\ \/ /\ data = <<>>
                /\ UNCHANGED <<delivered, phase, cause>>
             \/ /\ data # <<>> /\ ~Parses(data)
                /\ Reject("parse")
                /\ UNCHANGED delivered
             \/ /\ Parses(data)
                /\ delivered' = Append(delivered, ParseSSEEvent(data[1][2]))
                /\ UNCHANGED <<phase, cause>> \/ Reject("handler")
    /\ UNCHANGED <<sent, server, wire>>

(* No whole frame is left: back to reader.read. *)
Drained ==
    /\ phase = "drain" /\ Separators(buffer) = {}
    /\ phase' = "read"
    /\ UNCHANGED <<sent, server, wire, buffer, delivered, cause>>

(* reader.read reports the end of the body. *)
Resolve ==
    /\ phase = "read" /\ server = "closed" /\ wire = <<>>
    /\ phase' = "resolved"
    /\ UNCHANGED <<sent, server, wire, buffer, delivered, cause>>

StreamTurn == Respond \/ NetworkFails \/ Read \/ Frame \/ Drained \/ Resolve

Next ==
    \/ \E e \in Events, numbered \in BOOLEAN : Stream(e, numbered)
    \/ Close \/ Break \/ Refused \/ Abort
    \/ StreamTurn

Spec == Init /\ [][Next]_vars

(* The browser runs streamTurn, and the endpoint ends its response or loses
   the connection. *)
FairSpec ==
    /\ Spec
    /\ WF_vars(Respond) /\ WF_vars(NetworkFails) /\ WF_vars(Read)
    /\ WF_vars(Frame) /\ WF_vars(Drained) /\ WF_vars(Resolve)
    /\ WF_vars(Close)

-----------------------------------------------------------------------------
Symbols == {NL, EventLine, IdLine, DataLine} \cup
           {<<half, Payload(e)>> : half \in {"open", "close"}, e \in Events}

(* The shape of every variable; what is delivered is an event of the union
   with all of its fields. *)
TypeOK ==
    /\ sent \in Seq(Events) /\ Len(sent) <= MaxEvents
    /\ delivered \in Seq(SSEEvent)
    /\ wire \in Seq(Symbols) /\ buffer \in Seq(Symbols)
    /\ server \in {"streaming", "closed", "broken"}
    /\ phase \in {"fetch", "read", "drain", "resolved", "rejected"}
    /\ cause \in {None, "status", "network", "abort", "handler", "parse"}

(* The two unions agree and no chunk boundary splits an event: nothing the
   backend renders makes the mirror in the browser throw. *)
RenderedEventsParse == cause # "parse"

Outcome == IF phase \in {"resolved", "rejected"} THEN phase ELSE "open"

Channel == INSTANCE EventChannel WITH outcome <- Outcome

(* However the stream is cut, the widget gets the events in order, each once and
   with the fields it was sent with, and a call that resolves has them all. *)
ImplementsChannel == Channel!Spec

(* streamTurn comes to an end once the response does. *)
TurnEnds == <>(phase \in {"resolved", "rejected"})
=============================================================================
