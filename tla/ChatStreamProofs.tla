-------------------------- MODULE ChatStreamProofs --------------------------
(***************************************************************************)
(* The streamed turn, for any events of the union, any number of them and  *)
(* any cut of the stream into chunks.                                      *)
(*                                                                         *)
(* The stream is the frames one behind the other; start[i] is where frame  *)
(* i begins.  Buffer and wire together are always what follows the frames  *)
(* that were delivered, so the first blank line of the buffer, if there is *)
(* one, ends the frame of the next event.                                  *)
(***************************************************************************)
EXTENDS ChatStream, FiniteSetTheorems, SequenceTheorems, TLAPS

-----------------------------------------------------------------------------
(* The two unions. *)

(* What the parser needs of an event, so that it can fill in again the fields
   that are left out because they have no value. *)
Restorable(e) ==
    /\ e.type \in DOMAIN Demanded
    /\ DOMAIN e.body = DOMAIN Demanded[e.type] \cup DOMAIN Defaults(e.type)
    /\ \A f \in DOMAIN Demanded[e.type] :
          /\ f \notin DOMAIN Defaults(e.type)
          /\ e.body[f] \in Demanded[e.type][f] /\ e.body[f] # None
    /\ \A f \in DOMAIN Defaults(e.type) :
          IF e.body[f] = None THEN Defaults(e.type)[f].else = None
                              ELSE e.body[f] \in Defaults(e.type)[f].of

(* Rendered without its empty fields, such an event is accepted and restored. *)
LEMMA RestorableEvents ==
    ASSUME NEW e, e = [type |-> e.type, body |-> e.body],
           e.body = [f \in DOMAIN e.body |-> e.body[f]],
           Restorable(e)
    PROVE  Accepts(Payload(e)) /\ ParseSSEEvent(Payload(e)) = e
<1> DEFINE rendered == {f \in DOMAIN e.body : e.body[f] # None}
           opt == Defaults(e.type)
           field(f) == IF f \in DOMAIN opt /\ ~Has(Payload(e), f, opt[f].of)
                         THEN opt[f].else ELSE Payload(e).body[f]
           fields == DOMAIN Demanded[e.type] \cup DOMAIN opt
<1>1. Payload(e) = [type |-> e.type, body |-> [f \in rendered |-> e.body[f]]]
  BY DEF Payload, RestrictValues, Restrict
<1>2. \A f, values : Has(Payload(e), f, values) <=> f \in rendered /\ e.body[f] \in values
  BY <1>1 DEF Has
<1>3. Accepts(Payload(e))
  BY <1>1, <1>2 DEF Accepts, Restorable
<1>4. ASSUME NEW f \in DOMAIN e.body PROVE field(f) = e.body[f]
  BY <1>1, <1>2 DEF Restorable
<1>5. DOMAIN e.body = fields
  BY DEF Restorable
<1>6. ParseSSEEvent(Payload(e)) = [type |-> e.type, body |-> [f \in fields |-> field(f)]]
  BY <1>1 DEF ParseSSEEvent
<1> HIDE DEF field, fields
<1>7. [f \in fields |-> field(f)] = e.body
  BY <1>4, <1>5
<1> QED
  BY <1>3, <1>6, <1>7

(* Every event of the union is of this kind, type by type. *)
LEMMA EventsRestorable ==
    ASSUME NEW e \in SSEEvent
    PROVE  /\ e = [type |-> e.type, body |-> e.body]
           /\ e.body = [f \in DOMAIN e.body |-> e.body[f]]
           /\ Restorable(e)
<1> USE DEF Stages, Strings, Numbers, Booleans, Lists, None
<1>1. CASE e \in [type : {"status"}, body : [stage : Stages]]
  <2>1. /\ e = [type |-> e.type, body |-> e.body]
        /\ e.type = "status"
        /\ e.body \in [stage : Stages]
    BY <1>1
  <2>2. /\ DOMAIN e.body = {"stage"}
        /\ e.body = [f \in DOMAIN e.body |-> e.body[f]]
    BY <2>1
  <2>3. Defaults("status") = <<>>
    BY DEF Defaults, Optional
  <2>4. Restorable(e)
    BY <2>1, <2>2, <2>3 DEF Restorable, Demanded
  <2> QED
    BY <2>1, <2>2, <2>4
<1>2. CASE e \in [type : {"token"}, body : [text : Strings]]
  <2>1. /\ e = [type |-> e.type, body |-> e.body]
        /\ e.type = "token"
        /\ e.body \in [text : Strings]
    BY <1>2
  <2>2. /\ DOMAIN e.body = {"text"}
        /\ e.body = [f \in DOMAIN e.body |-> e.body[f]]
    BY <2>1
  <2>3. Defaults("token") = <<>>
    BY DEF Defaults, Optional
  <2>4. Restorable(e)
    BY <2>1, <2>2, <2>3 DEF Restorable, Demanded
  <2> QED
    BY <2>1, <2>2, <2>4
<1>3. CASE e \in [type : {"citation"},
                body : [index : {"number"}, source_id : {"text"}, title : {"text"},
                page_number : {"number", None}, source_url : {"text", None}]]
  <2>1. /\ e = [type |-> e.type, body |-> e.body]
        /\ e.type = "citation"
        /\ e.body \in [index : {"number"}, source_id : {"text"}, title : {"text"},
                page_number : {"number", None}, source_url : {"text", None}]
    BY <1>3
  <2>2. /\ DOMAIN e.body = {"index", "source_id", "title", "page_number", "source_url"}
        /\ e.body = [f \in DOMAIN e.body |-> e.body[f]]
    BY <2>1
  <2>3. Defaults("citation") = Optional["citation"]
    BY DEF Defaults, Optional
  <2>4. Restorable(e)
    BY <2>1, <2>2, <2>3 DEF Restorable, Demanded, Optional
  <2> QED
    BY <2>1, <2>2, <2>4
<1>4. CASE e \in [type : {"final"},
                body : [answer_complete : Booleans, detected_language : {"text"},
                tags : {"list"}, retrieval_hits : {"number"}, escalate : Booleans,
                escalation_reason : {"text", None},
                advisory_confidence : {"number", None}]]
  <2>1. /\ e = [type |-> e.type, body |-> e.body]
        /\ e.type = "final"
        /\ e.body \in [answer_complete : Booleans, detected_language : {"text"},
                tags : {"list"}, retrieval_hits : {"number"}, escalate : Booleans,
                escalation_reason : {"text", None},
                advisory_confidence : {"number", None}]
    BY <1>4
  <2>2. /\ DOMAIN e.body = {"detected_language", "answer_complete", "tags",
                            "retrieval_hits", "escalate",
                            "escalation_reason", "advisory_confidence"}
        /\ e.body = [f \in DOMAIN e.body |-> e.body[f]]
    BY <2>1
  <2>3. Defaults("final") = Optional["final"]
    BY DEF Defaults, Optional
  <2>4. Restorable(e)
    BY <2>1, <2>2, <2>3 DEF Restorable, Demanded, Optional
  <2> QED
    BY <2>1, <2>2, <2>4
<1>5. CASE e \in [type : {"error"}, body : [code : {"text"}, message : {"text"}]]
  <2>1. /\ e = [type |-> e.type, body |-> e.body]
        /\ e.type = "error"
        /\ e.body \in [code : {"text"}, message : {"text"}]
    BY <1>5
  <2>2. /\ DOMAIN e.body = {"code", "message"}
        /\ e.body = [f \in DOMAIN e.body |-> e.body[f]]
    BY <2>1
  <2>3. Defaults("error") = <<>>
    BY DEF Defaults, Optional
  <2>4. Restorable(e)
    BY <2>1, <2>2, <2>3 DEF Restorable, Demanded
  <2> QED
    BY <2>1, <2>2, <2>4
<1>6. CASE e \in [type : {"done"}, body : [turn_id : {"text"}, ticket_state : {"text"}]]
  <2>1. /\ e = [type |-> e.type, body |-> e.body]
        /\ e.type = "done"
        /\ e.body \in [turn_id : {"text"}, ticket_state : {"text"}]
    BY <1>6
  <2>2. /\ DOMAIN e.body = {"turn_id", "ticket_state"}
        /\ e.body = [f \in DOMAIN e.body |-> e.body[f]]
    BY <2>1
  <2>3. Defaults("done") = <<>>
    BY DEF Defaults, Optional
  <2>4. Restorable(e)
    BY <2>1, <2>2, <2>3 DEF Restorable, Demanded
  <2> QED
    BY <2>1, <2>2, <2>4
<1> QED
  BY <1>1, <1>2, <1>3, <1>4, <1>5, <1>6 DEF SSEEvent

(* parseSSEEvent accepts and restores what to_sse_frame renders. *)
LEMMA EventsComeBack ==
    ASSUME NEW e \in SSEEvent
    PROVE  Accepts(Payload(e)) /\ ParseSSEEvent(Payload(e)) = e
  BY EventsRestorable, RestorableEvents

-----------------------------------------------------------------------------
(* Frames *)

LEMMA OneInOrder ==
    ASSUME NEW i
    PROVE  InOrder({i}) = <<i>>
<1>1. Cardinality({i}) = 1
  BY FS_Singleton
<1>2. \A f \in [1..1 -> {i}] : f = <<i>>
  OBVIOUS
<1>3. <<i>> \in [1..1 -> {i}] /\ \A j, k \in DOMAIN <<i>> : j < k => <<i>>[j] < <<i>>[k]
  OBVIOUS
<1>4. InOrder({i}) \in [1..1 -> {i}]
  BY <1>1, <1>3 DEF InOrder
<1> QED
  BY <1>2, <1>4

(* The fold of dataFromFrame over a single data line. *)
LEMMA OneDataLine ==
    ASSUME NEW frame, NEW i,
           {j \in DOMAIN frame : frame[j] = DataLine /\ (j = 1 \/ frame[j - 1] = NL)} = {i},
           RestOfLine(frame, i) \in Seq(Symbols)
    PROVE  DataFromFrame(frame) = RestOfLine(frame, i)
<1> DEFINE join(text, j) == (IF text = <<>> THEN text ELSE Append(text, NL))
                             \o RestOfLine(frame, j)
           Iter(f) == f = [s \in SUBSET (DOMAIN <<i>>) |->
                               IF s = {} THEN <<>>
                                         ELSE join(f[s \ {Max(s)}], <<i>>[Max(s)])]
           it == CHOOSE f : Iter(f)
<1>1. DataFromFrame(frame) = FoldLeft(join, <<>>, <<i>>)
  BY OneInOrder DEF DataFromFrame
<1>2. FoldLeft(join, <<>>, <<i>>) = it[DOMAIN <<i>>]
  BY Zenon DEF FoldLeft, MapThenFoldSet
<1>3. DOMAIN <<i>> = {1}
  OBVIOUS
<1>4. Max({1}) = 1
  BY DEF Max
<1>5. join(<<>>, i) = RestOfLine(frame, i)
  OBVIOUS
<1>6. SUBSET {1} = {{}, {1}} /\ {1} \ {1} = {} /\ <<i>>[1] = i /\ {} # {1}
  OBVIOUS
<1> DEFINE body(f, s) == IF s = {} THEN <<>> ELSE join(f[s \ {Max(s)}], <<i>>[Max(s)])
           whole == [s \in SUBSET {1} |-> IF s = {} THEN <<>> ELSE join(<<>>, i)]
<1> HIDE DEF join
<1>7. ASSUME NEW s \in SUBSET {1} PROVE body(whole, s) = whole[s]
  <2>1. CASE s = {}
    BY <2>1
  <2>2. CASE s = {1}
    <3>1. s \ {Max(s)} = {} /\ <<i>>[Max(s)] = i
      BY <2>2, <1>4, <1>6
    <3>2. whole[{}] = <<>> /\ whole[s] = join(<<>>, i)
      BY <2>2, <1>6
    <3> QED
      BY <2>2, <1>6, <3>1, <3>2
  <2> QED
    BY <1>6, <2>1, <2>2
<1> HIDE DEF body
<1>8. whole = [s \in SUBSET {1} |-> body(whole, s)]
  BY <1>7
<1>9. Iter(whole)
  BY <1>3, <1>8 DEF body
<1> HIDE DEF Iter, whole
<1>10. Iter(it)
  BY <1>9
<1>11. it = [s \in SUBSET {1} |-> body(it, s)]
  BY <1>3, <1>10 DEF Iter, body
<1>12. it[{}] = <<>>
  <2>1. it[{}] = body(it, {})
    BY <1>6, <1>11
  <2> QED
    BY <2>1 DEF body
<1>13. it[{1}] = join(<<>>, i)
  <2>1. it[{1}] = body(it, {1})
    BY <1>6, <1>11
  <2>2. body(it, {1}) = join(it[{}], i)
    BY <1>4, <1>6 DEF body
  <2> QED
    BY <2>1, <2>2, <1>12
<1> QED
  BY <1>1, <1>2, <1>3, <1>5, <1>13

(* Concatenation, position by position. *)
Joins(u, s, t) ==
    /\ u \in Seq(Symbols) /\ Len(u) = Len(s) + Len(t)
    /\ \A j \in 1..Len(s) : u[j] = s[j]
    /\ \A j \in 1..Len(t) : u[Len(s) + j] = t[j]

LEMMA Joined ==
    ASSUME NEW s \in Seq(Symbols), NEW t \in Seq(Symbols)
    PROVE  Joins(s \o t, s, t)
  BY DEF Joins

(* A frame, symbol by symbol. *)
LEMMA FrameSymbols ==
    ASSUME NEW e \in Events, NEW numbered \in BOOLEAN
    PROVE  LET F == ToSseFrame(e, numbered)
               k == IF numbered THEN 5 ELSE 3
           IN  /\ F \in Seq(Symbols) /\ Len(F) = k + 4
               /\ F[1] = EventLine /\ F[2] = NL
               /\ numbered => F[3] = IdLine /\ F[4] = NL
               /\ F[k] = DataLine
               /\ F[k + 1] = <<"open", Payload(e)>> /\ F[k + 2] = <<"close", Payload(e)>>
               /\ F[k + 3] = NL /\ F[k + 4] = NL
<1> DEFINE k == IF numbered THEN 5 ELSE 3
           open == <<"open", Payload(e)>>
           close == <<"close", Payload(e)>>
           start == <<EventLine, NL>>
           id == IF numbered THEN <<IdLine, NL>> ELSE <<>>
           data == <<DataLine>>
           json == <<open, close>>
           blank == <<NL, NL>>
           head == start \o id
           line == head \o data
           text == line \o json
           F == text \o blank
<1>1. {NL, EventLine, IdLine, DataLine, open, close} \subseteq Symbols
  BY DEF Symbols
<1>2. F = ToSseFrame(e, numbered)
  BY DEF ToSseFrame, Json
<1>3. k \in {3, 5}
  OBVIOUS
<1> HIDE DEF open, close
<1>4. /\ start \in Seq(Symbols) /\ Len(start) = 2 /\ start[1] = EventLine /\ start[2] = NL
      /\ data \in Seq(Symbols) /\ Len(data) = 1 /\ data[1] = DataLine
      /\ json \in Seq(Symbols) /\ Len(json) = 2 /\ json[1] = open /\ json[2] = close
      /\ blank \in Seq(Symbols) /\ Len(blank) = 2 /\ blank[1] = NL /\ blank[2] = NL
  BY <1>1
<1>5. id \in Seq(Symbols) /\ Len(id) = k - 3 /\ (numbered => id[1] = IdLine /\ id[2] = NL)
  BY <1>1
<1> HIDE DEF k, start, id, data, json, blank
<1>6. Joins(head, start, id)
  BY <1>4, <1>5, Joined
<1> HIDE DEF head
<1>7. Joins(line, head, data)
  BY <1>4, <1>6, Joined DEF Joins
<1> HIDE DEF line
<1>8. Joins(text, line, json)
  BY <1>4, <1>7, Joined DEF Joins
<1> HIDE DEF text
<1>9. Joins(F, text, blank)
  BY <1>4, <1>8, Joined DEF Joins
<1> HIDE DEF F
<1> USE DEF Joins
<1>10. Len(head) = k - 1 /\ Len(line) = k /\ Len(text) = k + 2 /\ Len(F) = k + 4
  BY <1>3, <1>4, <1>5, <1>6, <1>7, <1>8, <1>9
<1>11. \A j \in 1..k : F[j] = line[j]
  BY <1>3, <1>8, <1>9, <1>10
<1>12. \A j \in 1..(k - 1) : F[j] = head[j]
  BY <1>3, <1>7, <1>10, <1>11
<1>13. F[1] = EventLine /\ F[2] = NL
  BY <1>3, <1>4, <1>6, <1>12
<1>14. numbered => F[3] = IdLine /\ F[4] = NL
  <2> SUFFICES ASSUME numbered PROVE F[3] = IdLine /\ F[4] = NL
    OBVIOUS
  <2>1. k = 5 /\ 1 \in 1..Len(id) /\ 2 \in 1..Len(id)
    BY <1>5 DEF k
  <2>2. head[3] = id[1] /\ head[4] = id[2]
    BY <2>1, <1>4, <1>6
  <2> QED
    BY <2>1, <2>2, <1>5, <1>12
<1>15. F[k] = DataLine
  <2>1. line[k] = data[1]
    BY <1>3, <1>4, <1>7, <1>10
  <2> QED
    BY <2>1, <1>3, <1>4, <1>11
<1>16. F[k + 1] = open /\ F[k + 2] = close
  <2>1. text[k + 1] = json[1] /\ text[k + 2] = json[2]
    BY <1>3, <1>4, <1>8, <1>10
  <2>2. F[k + 1] = text[k + 1] /\ F[k + 2] = text[k + 2]
    BY <1>3, <1>9, <1>10
  <2> QED
    BY <2>1, <2>2, <1>4
<1>17. F[k + 3] = NL /\ F[k + 4] = NL
  <2>1. F[k + 3] = blank[1] /\ F[k + 4] = blank[2]
    BY <1>3, <1>4, <1>9, <1>10
  <2> QED
    BY <2>1, <1>4
<1> QED
  BY <1>2, <1>9, <1>10, <1>13, <1>14, <1>15, <1>16, <1>17 DEF open, close, k

(* The place of the data line in a frame. *)
DataAt(numbered) == IF numbered THEN 5 ELSE 3

(* Where the newlines of a frame are: no two of them in a row but the last two. *)
LEMMA FrameMarks ==
    ASSUME NEW e \in Events, NEW numbered \in BOOLEAN
    PROVE  LET F == ToSseFrame(e, numbered)
               k == DataAt(numbered)
           IN  /\ F \in Seq(Symbols) /\ Len(F) = k + 4
               /\ \A j \in 1..(k + 4) : F[j] = NL <=> j \in {2, k - 1, k + 3, k + 4}
               /\ \A j \in 1..(k + 4) : F[j] = DataLine <=> j = k
               /\ F[k + 1] = <<"open", Payload(e)>> /\ F[k + 2] = <<"close", Payload(e)>>
<1> DEFINE F == ToSseFrame(e, numbered)
           k == DataAt(numbered)
           open == <<"open", Payload(e)>>
           close == <<"close", Payload(e)>>
<1>1. /\ F \in Seq(Symbols) /\ Len(F) = k + 4
      /\ F[1] = EventLine /\ F[2] = NL
      /\ numbered => F[3] = IdLine /\ F[4] = NL
      /\ F[k] = DataLine
      /\ F[k + 1] = open /\ F[k + 2] = close
      /\ F[k + 3] = NL /\ F[k + 4] = NL
  BY FrameSymbols DEF DataAt
<1>2. /\ NL \notin {EventLine, IdLine, DataLine, open, close}
      /\ DataLine \notin {EventLine, IdLine, open, close}
  BY DEF NL, EventLine, IdLine, DataLine
<1> HIDE DEF F, open, close
<1>3. /\ \A j \in 1..(k + 4) : F[j] = NL <=> j \in {2, k - 1, k + 3, k + 4}
      /\ \A j \in 1..(k + 4) : F[j] = DataLine <=> j = k
  <2>1. CASE numbered
    <3>1. k = 5
      BY <2>1 DEF DataAt
    <3>2. \A j \in 1..9 : j \in {1, 2, 3, 4, 5, 6, 7, 8, 9}
      OBVIOUS
    <3> QED
      <4>1. /\ F[1] = EventLine /\ F[2] = NL /\ F[3] = IdLine /\ F[4] = NL
            /\ F[5] = DataLine /\ F[6] = open /\ F[7] = close /\ F[8] = NL /\ F[9] = NL
        <5>1. F[3] = IdLine /\ F[4] = NL
          BY <1>1, <2>1, Zenon
        <5>2. F[k] = F[5] /\ F[k + 1] = F[6] /\ F[k + 2] = F[7] /\ F[k + 3] = F[8] /\ F[k + 4] = F[9]
          BY <3>1
        <5> QED
          BY <1>1, <5>1, <5>2
      <4>2. ASSUME NEW j \in 1..9
            PROVE  (F[j] = NL <=> j \in {2, 4, 8, 9}) /\ (F[j] = DataLine <=> j = 5)
        BY <1>2, <3>2, <4>1
      <4> QED
        BY <3>1, <4>2
  <2>2. CASE ~numbered
    <3>1. k = 3
      BY <2>2 DEF DataAt
    <3>2. \A j \in 1..7 : j \in {1, 2, 3, 4, 5, 6, 7}
      OBVIOUS
    <3> QED
      BY <1>1, <1>2, <3>1, <3>2
  <2> QED
    BY <2>1, <2>2
<1> QED
  BY <1>1, <1>3 DEF F, open, close

(* dataFromFrame gets the JSON text out of a frame without its blank line. *)
LEMMA FrameData ==
    ASSUME NEW e \in Events, NEW numbered \in BOOLEAN, NEW frame \in Seq(Symbols),
           Len(frame) = DataAt(numbered) + 2,
           \A j \in 1..Len(frame) : frame[j] = ToSseFrame(e, numbered)[j]
    PROVE  DataFromFrame(frame) = Json(Payload(e))
<1> DEFINE p == Payload(e)
           F == ToSseFrame(e, numbered)
           k == DataAt(numbered)
           data == {j \in DOMAIN frame : frame[j] = DataLine /\ (j = 1 \/ frame[j - 1] = NL)}
           rest == RestOfLine(frame, k)
<1>1. k \in {3, 5}
  BY DEF DataAt
<1>2. /\ \A j \in 1..(k + 4) : F[j] = NL <=> j \in {2, k - 1, k + 3, k + 4}
      /\ \A j \in 1..(k + 4) : F[j] = DataLine <=> j = k
      /\ F[k + 1] = <<"open", p>> /\ F[k + 2] = <<"close", p>>
  BY FrameMarks
<1> HIDE DEF F, k
<1>3. /\ \A j \in 1..(k + 2) : frame[j] = F[j]
      /\ Len(frame) = k + 2 /\ DOMAIN frame = 1..(k + 2)
  BY DEF F, k
<1>4. data = {k}
  BY <1>1, <1>2, <1>3
<1>5. {j \in k..Len(frame) : frame[j] = NL} \cup {Len(frame) + 1} = {k + 3}
  BY <1>1, <1>2, <1>3
<1>6. Min({k + 3}) - 1 = k + 2
  BY <1>1 DEF Min
<1>7. rest = SubSeq(frame, k + 1, k + 2)
  BY <1>5, <1>6 DEF RestOfLine
<1>8. rest \in Seq(Symbols) /\ Len(rest) = 2 /\ rest[1] = F[k + 1] /\ rest[2] = F[k + 2]
  <2> HIDE DEF rest
  <2>1. rest \in Seq(Symbols) /\ Len(rest) = 2
    BY <1>1, <1>3, <1>7
  <2>2. \A j \in 1..2 : rest[j] = frame[k + j]
    BY <1>1, <1>3, <1>7
  <2> QED
    BY <1>1, <1>3, <2>1, <2>2
<1>9. rest = Json(p)
  <2> HIDE DEF rest, p
  <2> QED
    BY <1>2, <1>8 DEF Json
<1> QED
  BY <1>4, <1>8, <1>9, OneDataLine

(* A text that agrees with a frame as far as it goes has its first blank line
   where the frame ends, and none before the whole frame is there. *)
LEMMA FirstSeparator ==
    ASSUME NEW e \in Events, NEW numbered \in BOOLEAN,
           NEW text \in Seq(Symbols), Separators(text) # {},
           \A j \in 1..Len(ToSseFrame(e, numbered)) :
              j <= Len(text) => text[j] = ToSseFrame(e, numbered)[j]
    PROVE  /\ Len(text) >= Len(ToSseFrame(e, numbered))
           /\ Min(Separators(text)) = Len(ToSseFrame(e, numbered)) - 1
<1> DEFINE F == ToSseFrame(e, numbered)
           k == DataAt(numbered)
<1>1. k \in {3, 5}
  BY DEF DataAt
<1>2. Len(F) = k + 4 /\ \A j \in 1..(k + 4) : F[j] = NL <=> j \in {2, k - 1, k + 3, k + 4}
  BY FrameMarks
<1> HIDE DEF F, k
<1>3. \A j \in 1..(k + 4) : j <= Len(text) => text[j] = F[j]
  BY <1>2 DEF F
<1>4. ASSUME NEW s \in Separators(text) PROVE s \in Nat /\ s >= k + 3
  <2>1. s \in Nat /\ s >= 1 /\ s + 1 <= Len(text) /\ text[s] = NL /\ text[s + 1] = NL
    BY DEF Separators
  <2>2. SUFFICES ASSUME s < k + 3 PROVE FALSE
    BY <1>1, <2>1
  <2>3. F[s] = NL /\ F[s + 1] = NL
    BY <1>1, <1>3, <2>1, <2>2
  <2>4. s \in {2, k - 1, k + 3, k + 4} /\ s + 1 \in {2, k - 1, k + 3, k + 4}
    BY <1>1, <1>2, <2>1, <2>2, <2>3
  <2> QED
    BY <1>1, <2>2, <2>4
<1>5. Len(text) >= k + 4
  BY <1>1, <1>4 DEF Separators
<1>6. k + 3 \in Separators(text)
  BY <1>1, <1>2, <1>3, <1>5 DEF Separators
<1>7. Min(Separators(text)) = k + 3
  BY <1>1, <1>4, <1>6 DEF Min
<1> QED
  BY <1>1, <1>2, <1>5, <1>7 DEF F

-----------------------------------------------------------------------------
(* What is on its way. *)

(* Frame i is behind position start[i] of the whole stream. *)
Placed(frames, start) ==
    /\ frames \in Seq(Seq(Symbols)) /\ start \in Seq(Nat)
    /\ Len(start) = Len(frames) + 1
    /\ \A i \in 1..Len(frames) : start[i + 1] = start[i] + Len(frames[i])
    /\ \A i, j \in 1..Len(start) : i <= j => start[i] <= start[j]

(* text is what follows the first d frames. *)
Remains(text, d, frames, start) ==
    /\ Len(text) = start[Len(frames) + 1] - start[d + 1]
    /\ \A i \in (d + 1)..Len(frames) : \A j \in 1..Len(frames[i]) :
          text[start[i] - start[d + 1] + j] = frames[i][j]

LEMMA PlacedTyped ==
    ASSUME NEW frames, NEW start, Placed(frames, start)
    PROVE  /\ Len(frames) \in Nat
           /\ \A i \in 1..(Len(frames) + 1) : start[i] \in Nat
           /\ \A i \in 1..Len(frames) : frames[i] \in Seq(Symbols) /\ Len(frames[i]) \in Nat
<1>1. frames \in Seq(Seq(Symbols)) /\ start \in Seq(Nat) /\ Len(start) = Len(frames) + 1
  BY DEF Placed
<1>2. \A i \in 1..Len(start) : start[i] \in Nat
  BY <1>1
<1>3. \A i \in 1..Len(frames) : frames[i] \in Seq(Symbols)
  BY <1>1
<1> QED
  BY <1>1, <1>2, <1>3

(* Streaming an event places its frame behind the others. *)
LEMMA PlacedAppend ==
    ASSUME NEW frames, NEW start, Placed(frames, start), NEW frame \in Seq(Symbols)
    PROVE  Placed(Append(frames, frame), Append(start, start[Len(start)] + Len(frame)))
<1> DEFINE n == Len(frames)
           end == start[n + 1] + Len(frame)
           frames2 == Append(frames, frame)
           start2 == Append(start, end)
<1>1. /\ frames \in Seq(Seq(Symbols)) /\ start \in Seq(Nat) /\ n \in Nat /\ Len(start) = n + 1
      /\ \A i \in 1..n : start[i + 1] = start[i] + Len(frames[i])
      /\ \A i, j \in 1..(n + 1) : i <= j => start[i] <= start[j]
  BY DEF Placed
<1>2. Len(frame) \in Nat /\ n + 1 \in 1..(n + 1) /\ start[n + 1] \in Nat /\ end \in Nat
  BY <1>1
<1>3. start[n + 1] <= end
  BY <1>2
<1> HIDE DEF n, end
<1>4. /\ frames2 \in Seq(Seq(Symbols)) /\ Len(frames2) = n + 1
      /\ frames2[n + 1] = frame /\ \A i \in 1..n : frames2[i] = frames[i]
  BY <1>1 DEF n
<1>5. /\ start2 \in Seq(Nat) /\ Len(start2) = n + 2
      /\ start2[n + 2] = end /\ \A i \in 1..(n + 1) : start2[i] = start[i]
  BY <1>1, <1>2
<1> HIDE DEF frames2, start2
<1>6. ASSUME NEW i \in 1..(n + 1) PROVE start2[i + 1] = start2[i] + Len(frames2[i])
  <2>1. CASE i = n + 1
    BY <2>1, <1>1, <1>2, <1>4, <1>5 DEF end
  <2>2. CASE i # n + 1
    <3>1. i \in 1..n /\ i \in 1..(n + 1) /\ i + 1 \in 1..(n + 1)
      BY <2>2, <1>1
    <3> QED
      BY <3>1, <1>1, <1>4, <1>5
  <2> QED
    BY <2>1, <2>2
<1>7. ASSUME NEW i \in 1..(n + 2), NEW j \in 1..(n + 2), i <= j PROVE start2[i] <= start2[j]
  <2>1. CASE j = n + 2 /\ i = n + 2
    BY <2>1, <1>2, <1>5
  <2>2. CASE j = n + 2 /\ i # n + 2
    <3>1. i \in 1..(n + 1) /\ i <= n + 1
      BY <2>2, <1>1
    <3>2. start[i] <= start[n + 1] /\ start[i] \in Nat
      BY <3>1, <1>1, <1>2
    <3> QED
      BY <2>2, <3>1, <3>2, <1>2, <1>3, <1>5
  <2>3. CASE j # n + 2
    <3>1. i \in 1..(n + 1) /\ j \in 1..(n + 1)
      BY <2>3, <1>1, <1>7
    <3> QED
      BY <3>1, <1>1, <1>5, <1>7
  <2> QED
    BY <2>1, <2>2, <2>3
<1>8. Placed(frames2, start2)
  BY <1>1, <1>4, <1>5, <1>6, <1>7 DEF Placed
<1> QED
  BY <1>1, <1>8 DEF frames2, start2, end, n

(* The place of a frame in what remains. *)
LEMMA FrameInText ==
    ASSUME NEW frames, NEW start, Placed(frames, start),
           NEW d \in 0..Len(frames), NEW text \in Seq(Symbols), Remains(text, d, frames, start),
           NEW i \in (d + 1)..Len(frames), NEW j \in 1..Len(frames[i])
    PROVE  /\ start[i] - start[d + 1] + j \in 1..Len(text)
           /\ start[i] \in Nat /\ start[d + 1] \in Nat /\ frames[i] \in Seq(Symbols)
<1> DEFINE n == Len(frames)
<1>1. n \in Nat /\ d \in 0..n /\ i \in (d + 1)..n
  BY DEF Placed
<1>2. i \in 1..n /\ i \in 1..(n + 1) /\ i + 1 \in 1..(n + 1) /\ d + 1 \in 1..(n + 1) /\ n + 1 \in 1..(n + 1)
      /\ d + 1 <= i /\ i + 1 <= n + 1
  BY <1>1
<1>3. frames[i] \in Seq(Symbols) /\ Len(frames[i]) \in Nat
  BY <1>2, PlacedTyped
<1>4. start[i] \in Nat /\ start[i + 1] \in Nat /\ start[d + 1] \in Nat /\ start[n + 1] \in Nat
  BY <1>2, PlacedTyped
<1>5. start[d + 1] <= start[i] /\ start[i + 1] <= start[n + 1] /\ start[i + 1] = start[i] + Len(frames[i])
  BY <1>2 DEF Placed
<1>6. Len(text) = start[n + 1] - start[d + 1]
  BY DEF Remains
<1> HIDE DEF n
<1>7. j \in Nat /\ j >= 1 /\ j <= Len(frames[i])
  BY <1>3
<1>8. Len(text) \in Nat
  OBVIOUS
<1>9. \A a, b, c, e, l \in Nat :
         c <= a /\ a + l <= e /\ b >= 1 /\ b <= l => a - c + b \in 1..(e - c)
  OBVIOUS
<1>10. start[i] - start[d + 1] + j \in 1..(start[n + 1] - start[d + 1])
  BY <1>3, <1>4, <1>5, <1>7, <1>9
<1> QED
  BY <1>3, <1>4, <1>6, <1>10

(* A new frame at the end. *)
LEMMA RemainsAppend ==
    ASSUME NEW frames, NEW start, Placed(frames, start), NEW frame \in Seq(Symbols),
           NEW d \in 0..Len(frames), NEW text \in Seq(Symbols), Remains(text, d, frames, start)
    PROVE  Remains(text \o frame, d, Append(frames, frame),
                   Append(start, start[Len(start)] + Len(frame)))
<1> DEFINE n == Len(frames)
           end == start[n + 1] + Len(frame)
           frames2 == Append(frames, frame)
           start2 == Append(start, end)
           text2 == text \o frame
<1>1. /\ frames \in Seq(Seq(Symbols)) /\ start \in Seq(Nat) /\ n \in Nat /\ Len(start) = n + 1
      /\ d \in 0..n
  BY DEF Placed
<1>2. Len(frame) \in Nat /\ n + 1 \in 1..(n + 1) /\ d + 1 \in 1..(n + 1)
      /\ start[n + 1] \in Nat /\ start[d + 1] \in Nat /\ end \in Nat
  BY <1>1
<1>3. Joins(text2, text, frame)
  BY Joined
<1>4. /\ Len(text) = start[n + 1] - start[d + 1]
      /\ \A i \in (d + 1)..n : \A j \in 1..Len(frames[i]) :
            text[start[i] - start[d + 1] + j] = frames[i][j]
  BY DEF Remains
<1>5. /\ Len(frames2) = n + 1
      /\ frames2[n + 1] = frame /\ \A i \in 1..n : frames2[i] = frames[i]
  BY <1>1
<1>6. /\ start2[n + 2] = end /\ \A i \in 1..(n + 1) : start2[i] = start[i]
  BY <1>1, <1>2
<1>7. ASSUME NEW i \in (d + 1)..n, NEW j \in 1..Len(frames[i])
      PROVE  start[i] - start[d + 1] + j \in 1..Len(text)
  BY FrameInText
<1> HIDE DEF n, end, frames2, start2, text2
<1>8. Len(text2) = start2[n + 2] - start2[d + 1]
  <2>1. Len(text2) = Len(text) + Len(frame)
    BY <1>3 DEF Joins
  <2>2. start2[n + 2] = start[n + 1] + Len(frame) /\ start2[d + 1] = start[d + 1]
    BY <1>2, <1>6 DEF end
  <2> QED
    BY <2>1, <2>2, <1>2, <1>4
<1>9. ASSUME NEW i \in (d + 1)..(n + 1), NEW j \in 1..Len(frames2[i])
      PROVE  text2[start2[i] - start2[d + 1] + j] = frames2[i][j]
  <2>1. CASE i = n + 1
    <3>1. start2[i] - start2[d + 1] = Len(text) /\ frames2[i] = frame
      BY <2>1, <1>2, <1>4, <1>5, <1>6
    <3> QED
      BY <3>1, <1>3 DEF Joins
  <2>2. CASE i # n + 1
    <3>1. i \in (d + 1)..n /\ i \in 1..n /\ i \in 1..(n + 1)
      BY <2>2, <1>1
    <3>2. frames2[i] = frames[i] /\ start2[i] = start[i] /\ start2[d + 1] = start[d + 1]
      BY <3>1, <1>2, <1>5, <1>6
    <3>3. start[i] - start[d + 1] + j \in 1..Len(text)
      BY <3>1, <3>2, <1>7
    <3> QED
      BY <3>1, <3>2, <3>3, <1>3, <1>4 DEF Joins
  <2> QED
    BY <2>1, <2>2
<1>10. Remains(text2, d, frames2, start2)
  BY <1>1, <1>5, <1>8, <1>9 DEF Remains
<1> QED
  BY <1>1, <1>10 DEF n, end, frames2, start2, text2

(* The first frame, while there is text left. *)
LEMMA FirstFrame ==
    ASSUME NEW frames, NEW start, Placed(frames, start),
           NEW d \in 0..Len(frames), NEW text \in Seq(Symbols), Remains(text, d, frames, start)
    PROVE  /\ d = Len(frames) => Len(text) = 0
           /\ d < Len(frames) => /\ Len(frames[d + 1]) <= Len(text)
                                 /\ \A j \in 1..Len(frames[d + 1]) : text[j] = frames[d + 1][j]
<1> DEFINE n == Len(frames)
<1>1. n \in Nat /\ d \in 0..n /\ d + 1 \in 1..(n + 1) /\ start[d + 1] \in Nat
  BY DEF Placed
<1>2. d = n => Len(text) = 0
  BY <1>1 DEF Remains
<1>3. ASSUME d < n PROVE /\ Len(frames[d + 1]) <= Len(text)
                         /\ \A j \in 1..Len(frames[d + 1]) : text[j] = frames[d + 1][j]
  <2>1. d + 1 \in (d + 1)..n /\ d + 1 \in 1..n
    BY <1>1, <1>3
  <2>2. Len(frames[d + 1]) \in Nat
    BY <2>1 DEF Placed
  <2>3. ASSUME NEW j \in 1..Len(frames[d + 1]) PROVE text[j] = frames[d + 1][j] /\ j <= Len(text)
    <3>1. start[d + 1] - start[d + 1] + j \in 1..Len(text)
      BY <2>1, FrameInText
    <3>2. text[start[d + 1] - start[d + 1] + j] = frames[d + 1][j]
      BY <2>1 DEF Remains
    <3>3. start[d + 1] - start[d + 1] + j = j
      BY <1>1, <2>2
    <3> QED
      BY <3>1, <3>2, <3>3
  <2>4. Len(frames[d + 1]) <= Len(text)
    BY <2>2, <2>3
  <2> QED
    BY <2>3, <2>4
<1> QED
  BY <1>2, <1>3

(* The first frame cut off. *)
LEMMA RemainsCut ==
    ASSUME NEW frames, NEW start, Placed(frames, start),
           NEW d \in 0..Len(frames), d < Len(frames),
           NEW text \in Seq(Symbols), Remains(text, d, frames, start),
           NEW cut \in Seq(Symbols), Len(cut) = Len(text) - Len(frames[d + 1]),
           \A j \in 1..Len(cut) : cut[j] = text[j + Len(frames[d + 1])]
    PROVE  Remains(cut, d + 1, frames, start)
<1> DEFINE n == Len(frames)
           len == Len(frames[d + 1])
<1>1. n \in Nat /\ d \in 0..n /\ d + 1 \in 1..n /\ d + 1 \in 1..(n + 1) /\ d + 2 \in 1..(n + 1)
      /\ n + 1 \in 1..(n + 1) /\ d + 1 + 1 = d + 2
  BY DEF Placed
<1>2. /\ len \in Nat /\ start[d + 1] \in Nat /\ start[d + 2] \in Nat /\ start[n + 1] \in Nat
      /\ start[d + 2] = start[d + 1] + len
  <2>1. start[d + 1 + 1] = start[d + 1] + len
    BY <1>1 DEF Placed
  <2> QED
    BY <2>1, <1>1, PlacedTyped
<1>3. Len(text) = start[n + 1] - start[d + 1]
  BY DEF Remains
<1> HIDE DEF n, len
<1>4. Len(cut) = start[n + 1] - start[d + 2]
  <2> DEFINE end == start[n + 1]
             old == start[d + 1]
             new == start[d + 2]
  <2>1. end \in Nat /\ old \in Nat /\ new \in Nat /\ len \in Nat /\ new = old + len
    BY <1>2
  <2>2. Len(cut) = (end - old) - len
    BY <1>3 DEF len
  <2> HIDE DEF end, old, new
  <2>3. \A a, b, c, l \in Nat : b = c + l => (a - c) - l = a - b
    OBVIOUS
  <2>4. (end - old) - len = end - new
    BY <2>1, <2>3
  <2> QED
    BY <2>2, <2>4 DEF end, new
<1>5. ASSUME NEW i \in (d + 2)..n, NEW j \in 1..Len(frames[i])
      PROVE  cut[start[i] - start[d + 2] + j] = frames[i][j]
  <2>1. i \in (d + 1)..n /\ i \in 1..(n + 1) /\ d + 2 <= i
    BY <1>1
  <2>2. start[i] - start[d + 1] + j \in 1..Len(text) /\ start[i] \in Nat /\ frames[i] \in Seq(Symbols)
    BY <2>1, FrameInText DEF n
  <2>3. start[d + 2] <= start[i]
    BY <1>1, <2>1 DEF Placed, n
  <2>4. j \in Nat /\ j >= 1
    BY <2>2
  <2>5. /\ start[i] - start[d + 2] + j \in 1..Len(cut)
        /\ start[i] - start[d + 2] + j + len = start[i] - start[d + 1] + j
    <3>1. \A a, b, c, e \in Nat : a - c + b \in 1..(e - c) => a + b <= e
      OBVIOUS
    <3>2. start[i] + j <= start[n + 1]
      BY <3>1, <1>2, <1>3, <2>2, <2>4
    <3>3. \A a, b, c, e \in Nat : c <= a /\ a + b <= e /\ b >= 1 => a - c + b \in 1..(e - c)
      OBVIOUS
    <3>4. start[i] - start[d + 2] + j \in 1..(start[n + 1] - start[d + 2])
      BY <3>2, <3>3, <1>2, <2>2, <2>3, <2>4
    <3>5. \A a, b, c, x, l \in Nat : x = c + l => a - x + b + l = a - c + b
      OBVIOUS
    <3>6. start[i] \in Nat /\ j \in Nat
      BY <2>2, <2>4
    <3>7. start[i] - start[d + 2] + j + len = start[i] - start[d + 1] + j
      <4> DEFINE a == start[i]
                 c == start[d + 1]
                 x == start[d + 2]
      <4>1. a \in Nat /\ j \in Nat /\ c \in Nat /\ x \in Nat /\ len \in Nat /\ x = c + len
        BY <3>6, <1>2
      <4> HIDE DEF a, c, x
      <4>2. a - x + j + len = a - c + j
        BY <4>1, <3>5
      <4> QED
        BY <4>2 DEF a, c, x
    <3> QED
      BY <3>4, <3>7, <1>4
  <2>6. text[start[i] - start[d + 1] + j] = frames[i][j]
    BY <2>1 DEF Remains, n
  <2> QED
    BY <2>5, <2>6 DEF len
<1> QED
  BY <1>1, <1>4, <1>5 DEF Remains, n

-----------------------------------------------------------------------------
(* The turn. *)

FramesOf(e) == {ToSseFrame(e, numbered) : numbered \in BOOLEAN}

(* The buffer and the wire hold the frames of the events that are not delivered
   yet, cut anywhere; after a break the rest of them is lost. *)
FramesOnTheWay ==
    \E rest \in Seq(Symbols), frames \in Seq(Seq(Symbols)), start \in Seq(Nat) :
        /\ server # "broken" => rest = wire
        /\ Len(frames) = Len(sent)
        /\ \A i \in 1..Len(sent) : frames[i] \in FramesOf(sent[i])
        /\ Placed(frames, start)
        /\ Remains(buffer \o rest, Len(delivered), frames, start)

DeliveredInOrder ==
    /\ Len(delivered) <= Len(sent)
    /\ \A i \in 1..Len(delivered) : delivered[i] = sent[i]

(* streamTurn reads on only when no whole frame is left. *)
Reading ==
    /\ phase = "fetch" => buffer = <<>>
    /\ phase \in {"fetch", "read"} => Separators(buffer) = {}
    /\ phase = "resolved" => server # "streaming"
    /\ server = "broken" => wire = <<>>

TurnInv ==
    /\ TypeOK
    /\ RenderedEventsParse
    /\ DeliveredInOrder
    /\ Reading
    /\ FramesOnTheWay

LEMMA TurnInit == Init => TurnInv
<1> SUFFICES ASSUME Init PROVE TurnInv
  OBVIOUS
<1> USE DEF Init
<1>1. Separators(<<>>) = {}
  BY DEF Separators
<1>2. TypeOK
  BY MaxEventsAssumption DEF TypeOK
<1>3. RenderedEventsParse /\ DeliveredInOrder /\ Reading
  BY <1>1 DEF RenderedEventsParse, DeliveredInOrder, Reading, None
<1>4. FramesOnTheWay
  <2>1. Placed(<<>>, <<0>>)
    BY DEF Placed
  <2>2. <<>> \o <<>> = <<>> /\ Len(<<>>) = 0
    OBVIOUS
  <2>3. Remains(<<>> \o <<>>, 0, <<>>, <<0>>)
    BY <2>2 DEF Remains
  <2>4. <<>> \in Seq(Symbols) /\ <<>> \in Seq(Seq(Symbols)) /\ <<0>> \in Seq(Nat)
    OBVIOUS
  <2> QED
    <3> DEFINE rest == <<>>
               frames == <<>>
               start == <<0>>
    <3> SUFFICES /\ rest \in Seq(Symbols) /\ frames \in Seq(Seq(Symbols)) /\ start \in Seq(Nat)
                 /\ server # "broken" => rest = wire
                 /\ Len(frames) = Len(sent)
                 /\ \A i \in 1..Len(sent) : frames[i] \in FramesOf(sent[i])
                 /\ Placed(frames, start)
                 /\ Remains(buffer \o rest, Len(delivered), frames, start)
      BY DEF FramesOnTheWay
    <3>1. 1..Len(sent) = {}
      BY <2>2
    <3> QED
      BY <3>1, <2>1, <2>2, <2>3, <2>4
<1> QED
  BY <1>2, <1>3, <1>4 DEF TurnInv

(* The backend streams one more event. *)
LEMMA StreamStep ==
    ASSUME TurnInv, NEW e \in Events, NEW numbered \in BOOLEAN, Stream(e, numbered)
    PROVE  TurnInv'
<1> DEFINE F == ToSseFrame(e, numbered)
<1> USE DEF TurnInv, Stream
<1>1. F \in Seq(Symbols)
  BY FrameMarks
<1> HIDE DEF F
<1>2. /\ sent \in Seq(Events) /\ sent' \in Seq(Events) /\ Len(sent') = Len(sent) + 1
      /\ sent'[Len(sent) + 1] = e /\ \A i \in 1..Len(sent) : sent'[i] = sent[i]
  BY DEF TypeOK
<1>3. wire \in Seq(Symbols) /\ buffer \in Seq(Symbols) /\ wire' = wire \o F /\ wire' \in Seq(Symbols)
  BY <1>1 DEF TypeOK, F
<1>4. TypeOK'
  <2>1. Len(sent') <= MaxEvents
    BY <1>2, MaxEventsAssumption DEF TypeOK
  <2> QED
    BY <1>2, <1>3, <2>1 DEF TypeOK
<1>5. RenderedEventsParse' /\ Reading'
  BY DEF RenderedEventsParse, Reading
<1>6. DeliveredInOrder'
  BY <1>2 DEF DeliveredInOrder, TypeOK
<1>7. FramesOnTheWay'
  <2>1. PICK frames \in Seq(Seq(Symbols)), start \in Seq(Nat) :
           /\ Len(frames) = Len(sent)
           /\ \A i \in 1..Len(sent) : frames[i] \in FramesOf(sent[i])
           /\ Placed(frames, start)
           /\ Remains(buffer \o wire, Len(delivered), frames, start)
    BY DEF FramesOnTheWay
  <2> DEFINE frames2 == Append(frames, F)
             start2 == Append(start, start[Len(start)] + Len(F))
  <2>2. Len(delivered) \in 0..Len(frames) /\ buffer \o wire \in Seq(Symbols)
    BY <1>2, <1>3, <2>1 DEF DeliveredInOrder, TypeOK
  <2>3. Placed(frames2, start2)
    BY <1>1, <2>1, PlacedAppend
  <2>4. Remains((buffer \o wire) \o F, Len(delivered), frames2, start2)
    BY <1>1, <2>1, <2>2, RemainsAppend
  <2>5. (buffer \o wire) \o F = buffer \o wire'
    BY <1>1, <1>3
  <2>6. Len(frames2) = Len(sent')
    BY <1>1, <1>2, <2>1
  <2>7. ASSUME NEW i \in 1..Len(sent') PROVE frames2[i] \in FramesOf(sent'[i])
    <3>1. CASE i = Len(sent) + 1
      <4>1. frames2[i] = F
        BY <1>1, <1>2, <2>1, <3>1
      <4> QED
        BY <4>1, <1>2, <3>1 DEF FramesOf, F
    <3>2. CASE i # Len(sent) + 1
      <4>1. i \in 1..Len(sent) /\ frames2[i] = frames[i] /\ sent'[i] = sent[i]
        BY <1>1, <1>2, <2>1, <3>2
      <4> QED
        BY <4>1, <2>1
    <3> QED
      BY <3>1, <3>2
  <2>8. frames2 \in Seq(Seq(Symbols)) /\ start2 \in Seq(Nat)
    BY <2>3 DEF Placed
  <2> HIDE DEF frames2, start2
  <2>9. delivered' = delivered /\ buffer' = buffer /\ (server' # "broken" => wire' = wire')
    OBVIOUS
  <2> QED
    BY <1>3, <2>3, <2>4, <2>5, <2>6, <2>7, <2>8, <2>9 DEF FramesOnTheWay
<1> QED
  BY <1>4, <1>5, <1>6, <1>7

(* Steps that take nothing from the stream and add nothing to it. *)
LEMMA QuietStep ==
    ASSUME TurnInv, TypeOK', RenderedEventsParse', Reading',
           UNCHANGED <<sent, buffer, delivered>>,
           server' # "broken" => server # "broken" /\ wire' = wire
    PROVE  TurnInv'
<1> USE DEF TurnInv
<1>1. DeliveredInOrder'
  BY DEF DeliveredInOrder
<1>2. FramesOnTheWay'
  <2>1. PICK rest \in Seq(Symbols), frames \in Seq(Seq(Symbols)), start \in Seq(Nat) :
           /\ server # "broken" => rest = wire
           /\ Len(frames) = Len(sent)
           /\ \A i \in 1..Len(sent) : frames[i] \in FramesOf(sent[i])
           /\ Placed(frames, start)
           /\ Remains(buffer \o rest, Len(delivered), frames, start)
    BY DEF FramesOnTheWay
  <2>2. server' # "broken" => rest = wire'
    BY <2>1
  <2> QED
    BY <2>1, <2>2 DEF FramesOnTheWay
<1> QED
  BY <1>1, <1>2

(* A part of a sequence of symbols. *)
LEMMA Cuts ==
    ASSUME NEW s \in Seq(Symbols), NEW a \in Nat \ {0}, NEW b \in 0..Len(s)
    PROVE  /\ SubSeq(s, a, b) \in Seq(Symbols)
           /\ a <= b + 1 => Len(SubSeq(s, a, b)) = b - a + 1
           /\ \A j \in 1..(b - a + 1) : SubSeq(s, a, b)[j] = s[a + j - 1]
<1>1. a \in Int /\ b \in Int /\ Len(s) \in Nat
  OBVIOUS
<1>2. \A i \in a..b : s[i] \in Symbols
  BY <1>1
<1>3. /\ SubSeq(s, a, b) \in Seq(Symbols)
      /\ Len(SubSeq(s, a, b)) = IF a <= b THEN b - a + 1 ELSE 0
      /\ \A i \in 1..(b - a + 1) : SubSeq(s, a, b)[i] = s[a + i - 1]
  BY <1>1, <1>2, SubSeqProperties
<1> HIDE DEF Symbols
<1>4. a <= b + 1 => Len(SubSeq(s, a, b)) = b - a + 1
  BY <1>1, <1>3
<1> QED
  BY <1>3, <1>4

LEMMA Regrouped ==
    \A s, t, u \in Seq(Symbols) : (s \o t) \o u = s \o (t \o u)
  BY ConcatAssociative

(* A chunk moves from the wire to the buffer. *)
LEMMA ReadStep ==
    ASSUME TurnInv, Read
    PROVE  TurnInv'
<1> USE DEF TurnInv, Read
<1>1. PICK n \in 1..Len(wire) :
         /\ buffer' = buffer \o SubSeq(wire, 1, n)
         /\ wire' = SubSeq(wire, n + 1, Len(wire))
  BY DEF Buffered
<1>2. wire \in Seq(Symbols) /\ buffer \in Seq(Symbols)
  BY DEF TypeOK
<1>3. /\ SubSeq(wire, 1, n) \in Seq(Symbols) /\ wire' \in Seq(Symbols) /\ buffer' \in Seq(Symbols)
      /\ SubSeq(wire, 1, n) \o wire' = wire
  <2>1. /\ 1 \in 1..(Len(wire) + 1) /\ n \in (1 - 1)..Len(wire) /\ Len(wire) \in n..Len(wire)
        /\ n \in Int /\ n + 1 \in Int /\ Len(wire) \in Int
    BY <1>1, <1>2
  <2>2. SubSeq(wire, 1, n) \o SubSeq(wire, n + 1, Len(wire)) = SubSeq(wire, 1, Len(wire))
    BY <1>2, <2>1, ConcatAdjacentSubSeq
  <2>3. SubSeq(wire, 1, Len(wire)) = wire
    BY <1>2, SubSeqFull
  <2>4. SubSeq(wire, 1, n) \in Seq(Symbols) /\ SubSeq(wire, n + 1, Len(wire)) \in Seq(Symbols)
    BY <1>2, <2>1, Cuts
  <2>5. buffer \o SubSeq(wire, 1, n) \in Seq(Symbols)
    BY <1>2, <2>4, ConcatProperties
  <2> QED
    BY <1>1, <2>2, <2>3, <2>4, <2>5
<1>4. buffer' \o wire' = buffer \o wire
  <2>1. (buffer \o SubSeq(wire, 1, n)) \o wire' = buffer \o (SubSeq(wire, 1, n) \o wire')
    BY <1>2, <1>3, Regrouped
  <2> QED
    BY <1>1, <1>3, <2>1
<1>5. TypeOK'
  BY <1>3 DEF TypeOK
<1>6. server # "broken"
  BY <1>1, <1>2 DEF Reading
<1>7. RenderedEventsParse' /\ DeliveredInOrder' /\ Reading'
  BY <1>6 DEF RenderedEventsParse, DeliveredInOrder, Reading
<1>8. FramesOnTheWay'
  <2>1. PICK frames \in Seq(Seq(Symbols)), start \in Seq(Nat) :
           /\ Len(frames) = Len(sent)
           /\ \A i \in 1..Len(sent) : frames[i] \in FramesOf(sent[i])
           /\ Placed(frames, start)
           /\ Remains(buffer \o wire, Len(delivered), frames, start)
    BY <1>6 DEF FramesOnTheWay
  <2>2. sent' = sent /\ delivered' = delivered
    OBVIOUS
  <2> QED
    BY <1>3, <1>4, <2>1, <2>2 DEF FramesOnTheWay
<1> QED
  BY <1>5, <1>7, <1>8

(* A turn of the inner loop hands the next event to the widget: the frame it
   cuts off is whole, its data parses, and the parser restores the event. *)
LEMMA FrameDelivers ==
    ASSUME TurnInv, Frame
    PROVE  /\ Len(delivered) < Len(sent)
           /\ delivered' = Append(delivered, sent[Len(delivered) + 1])
           /\ \/ phase' = "drain" /\ cause' = cause
              \/ phase' = "rejected" /\ cause' = "handler"
           /\ buffer' \in Seq(Symbols)
           /\ FramesOnTheWay'
<1> DEFINE d == Len(delivered)
           n == Len(sent)
           e == sent[d + 1]
<1> USE DEF TurnInv
<1>1. /\ n \in Nat /\ d \in 0..n /\ buffer \in Seq(Symbols) /\ delivered \in Seq(SSEEvent)
      /\ sent \in Seq(Events)
  BY DEF TypeOK, DeliveredInOrder
<1>2. PICK rest \in Seq(Symbols), frames \in Seq(Seq(Symbols)), start \in Seq(Nat) :
         /\ server # "broken" => rest = wire
         /\ Len(frames) = n
         /\ \A i \in 1..n : frames[i] \in FramesOf(sent[i])
         /\ Placed(frames, start)
         /\ Remains(buffer \o rest, d, frames, start)
  BY DEF FramesOnTheWay
<1> DEFINE text == buffer \o rest
           F == frames[d + 1]
<1>3. Joins(text, buffer, rest)
  BY <1>1, Joined
<1>4. Separators(buffer) # {} /\ phase = "drain" /\ UNCHANGED <<sent, server, wire>>
  BY DEF Frame
<1>5. d < n
  <2>1. Len(buffer) > 0
    BY <1>1, <1>4 DEF Separators
  <2>2. Len(text) > 0
    BY <1>1, <1>3, <2>1 DEF Joins
  <2>3. d = n => Len(text) = 0
    BY <1>1, <1>2, <1>3, FirstFrame DEF Joins
  <2> QED
    BY <1>1, <2>2, <2>3
<1>6. e \in Events /\ e \in SSEEvent /\ F \in FramesOf(e)
  BY <1>1, <1>2, <1>5, EventsAssumption
<1>7. PICK numbered \in BOOLEAN : F = ToSseFrame(e, numbered)
  BY <1>6 DEF FramesOf
<1>8. Len(F) <= Len(text) /\ \A j \in 1..Len(F) : text[j] = F[j]
  <2>1. text \in Seq(Symbols) /\ d \in 0..Len(frames) /\ d < Len(frames)
    BY <1>1, <1>2, <1>3, <1>5 DEF Joins
  <2>2. Remains(text, d, frames, start) /\ Placed(frames, start)
    BY <1>2
  <2> HIDE DEF text, d
  <2>3. /\ Len(frames[d + 1]) <= Len(text)
        /\ \A j \in 1..Len(frames[d + 1]) : text[j] = frames[d + 1][j]
    BY <2>1, <2>2, FirstFrame
  <2> QED
    BY <2>3
<1>9. F \in Seq(Symbols) /\ Len(F) = DataAt(numbered) + 4 /\ DataAt(numbered) \in {3, 5}
  BY <1>6, <1>7, FrameMarks DEF DataAt
<1> HIDE DEF d, n, e, F, text
<1>10. \A j \in 1..Len(F) : j <= Len(buffer) => buffer[j] = F[j]
  BY <1>1, <1>3, <1>8, <1>9 DEF Joins
<1>11. Len(buffer) >= Len(F) /\ Min(Separators(buffer)) = Len(F) - 1
  BY <1>1, <1>4, <1>6, <1>7, <1>10, FirstSeparator
<1> DEFINE frame == SubSeq(buffer, 1, Len(F) - 1 - 1)
           data == DataFromFrame(frame)
           cut == SubSeq(buffer, Len(F) + 1, Len(buffer))
<1>12. /\ frame \in Seq(Symbols) /\ Len(frame) = DataAt(numbered) + 2
       /\ \A j \in 1..Len(frame) : frame[j] = F[j]
  <2>1. /\ 1 \in Nat \ {0} /\ Len(F) - 1 - 1 \in 0..Len(buffer) /\ 1 <= Len(F) - 1 - 1 + 1
        /\ Len(F) - 1 - 1 - 1 + 1 = DataAt(numbered) + 2
    BY <1>1, <1>9, <1>11
  <2>2. /\ frame \in Seq(Symbols) /\ Len(frame) = DataAt(numbered) + 2
        /\ \A j \in 1..(Len(F) - 1 - 1 - 1 + 1) : frame[j] = buffer[1 + j - 1]
    BY <1>1, <2>1, Cuts
  <2> HIDE DEF frame
  <2>3. \A j \in 1..Len(frame) : j \in 1..Len(F) /\ j <= Len(buffer) /\ 1 + j - 1 = j
    <3>1. \A k, l, m, b \in Nat : l = k + 2 /\ m = k + 4 /\ b >= m =>
             \A j \in 1..l : j \in 1..m /\ j <= b /\ 1 + j - 1 = j
      OBVIOUS
    <3>2. DataAt(numbered) \in Nat /\ Len(frame) \in Nat /\ Len(F) \in Nat /\ Len(buffer) \in Nat
      BY <1>1, <1>9, <2>2
    <3> QED
      BY <3>1, <3>2, <1>9, <1>11, <2>2
  <2> QED
    BY <1>10, <2>1, <2>2, <2>3
<1>13. data = Json(Payload(e))
  BY <1>6, <1>7, <1>12, FrameData
<1>14. /\ cut \in Seq(Symbols) /\ Len(cut) = Len(buffer) - Len(F)
       /\ \A j \in 1..Len(cut) : cut[j] = buffer[j + Len(F)]
  <2>1. /\ Len(F) + 1 \in Nat \ {0} /\ Len(buffer) \in 0..Len(buffer)
        /\ Len(F) + 1 <= Len(buffer) + 1
        /\ Len(buffer) - (Len(F) + 1) + 1 = Len(buffer) - Len(F)
    BY <1>1, <1>9, <1>11
  <2>2. /\ cut \in Seq(Symbols) /\ Len(cut) = Len(buffer) - Len(F)
        /\ \A j \in 1..(Len(buffer) - (Len(F) + 1) + 1) : cut[j] = buffer[Len(F) + 1 + j - 1]
    BY <1>1, <2>1, Cuts
  <2> HIDE DEF cut
  <2>3. \A j \in 1..Len(cut) : Len(F) + 1 + j - 1 = j + Len(F)
    BY <1>1, <1>9, <2>2
  <2> QED
    BY <2>1, <2>2, <2>3
<1>15. AfterFrame(Len(F) - 1) = cut
  <2>1. Len(F) - 1 + 2 = Len(F) + 1
    BY <1>9
  <2> QED
    BY <2>1 DEF AfterFrame
<1>16. /\ buffer' = cut
       /\ \/ data = <<>>
          \/ data # <<>> /\ ~Parses(data)
          \/ /\ Parses(data)
             /\ delivered' = Append(delivered, ParseSSEEvent(data[1][2]))
             /\ UNCHANGED <<phase, cause>> \/ Reject("handler")
  BY <1>11, <1>15 DEF Frame
<1> HIDE DEF frame, data, cut
<1>17. data # <<>> /\ Parses(data) /\ ParseSSEEvent(data[1][2]) = e
  <2>1. /\ Json(Payload(e)) # <<>> /\ IsJson(Json(Payload(e)))
        /\ Json(Payload(e))[1][2] = Payload(e)
    BY DEF Json, IsJson
  <2> QED
    BY <2>1, <1>6, <1>13, EventsComeBack DEF Parses
<1>18. delivered' = Append(delivered, e)
       /\ \/ phase' = "drain" /\ cause' = cause
          \/ phase' = "rejected" /\ cause' = "handler"
  BY <1>4, <1>16, <1>17 DEF Reject
<1>19. FramesOnTheWay'
  <2>1. Joins(cut \o rest, cut, rest)
    BY <1>14, Joined
  <2>2. Len(cut \o rest) = Len(text) - Len(F)
    BY <1>1, <1>3, <1>9, <1>14, <2>1 DEF Joins
  <2>3. ASSUME NEW j \in 1..Len(cut \o rest) PROVE (cut \o rest)[j] = text[j + Len(F)]
    <3>1. CASE j <= Len(cut)
      <4>1. (cut \o rest)[j] = cut[j] /\ cut[j] = buffer[j + Len(F)]
        BY <1>14, <2>1, <3>1 DEF Joins
      <4>2. j + Len(F) \in 1..Len(buffer)
        <5>1. \A a, b, c, x \in Nat : a = b - c /\ x >= 1 /\ x <= a => x + c \in 1..b
          OBVIOUS
        <5>2. /\ Len(cut) \in Nat /\ Len(buffer) \in Nat /\ Len(F) \in Nat /\ j \in Nat /\ j >= 1
              /\ Len(cut) = Len(buffer) - Len(F)
          BY <1>1, <1>9, <1>14, <2>2
        <5> QED
          BY <5>1, <5>2, <3>1
      <4> QED
        BY <4>1, <4>2, <1>3 DEF Joins
    <3>2. CASE ~(j <= Len(cut))
      <4>1. j - Len(cut) \in 1..Len(rest) /\ j = Len(cut) + (j - Len(cut))
        BY <1>14, <2>1, <3>2 DEF Joins
      <4>2. (cut \o rest)[j] = rest[j - Len(cut)]
        BY <2>1, <4>1 DEF Joins
      <4>3. j + Len(F) = Len(buffer) + (j - Len(cut))
        <5>1. \A a, b, c, x \in Nat : a = b - c => x + c = b + (x - a)
          OBVIOUS
        <5>2. /\ Len(cut) \in Nat /\ Len(buffer) \in Nat /\ Len(F) \in Nat /\ j \in Nat
              /\ Len(cut) = Len(buffer) - Len(F)
          BY <1>1, <1>9, <1>14, <2>2
        <5> QED
          BY <5>1, <5>2
      <4>4. text[j + Len(F)] = rest[j - Len(cut)]
        BY <1>3, <4>1, <4>3 DEF Joins
      <4> QED
        BY <4>2, <4>4
    <3> QED
      BY <3>1, <3>2, <1>14
  <2>4. cut \o rest \in Seq(Symbols) /\ text \in Seq(Symbols)
    BY <2>1, <1>3 DEF Joins
  <2>5. Remains(cut \o rest, d + 1, frames, start)
    BY <1>1, <1>2, <1>5, <2>2, <2>3, <2>4, RemainsCut DEF text, F
  <2>6. Len(delivered') = d + 1
    BY <1>1, <1>6, <1>18 DEF d
  <2>7. sent' = sent /\ (server' # "broken" => rest = wire')
    BY <1>2, <1>4
  <2> QED
    BY <1>2, <1>16, <2>5, <2>6, <2>7 DEF FramesOnTheWay, n
<1> QED
  BY <1>5, <1>14, <1>16, <1>18, <1>19 DEF d, n, e

-----------------------------------------------------------------------------
(* Every step keeps the invariant. *)

LEMMA FrameStep ==
    ASSUME TurnInv, Frame
    PROVE  TurnInv'
<1> USE DEF TurnInv
<1>1. /\ Len(delivered) < Len(sent)
      /\ delivered' = Append(delivered, sent[Len(delivered) + 1])
      /\ \/ phase' = "drain" /\ cause' = cause
         \/ phase' = "rejected" /\ cause' = "handler"
      /\ buffer' \in Seq(Symbols)
      /\ FramesOnTheWay'
  BY FrameDelivers
<1>2. UNCHANGED <<sent, server, wire>>
  BY DEF Frame
<1>3. /\ sent \in Seq(Events) /\ delivered \in Seq(SSEEvent)
      /\ Len(sent) \in Nat /\ Len(delivered) \in Nat
      /\ \A i \in 1..Len(delivered) : delivered[i] = sent[i]
  BY DEF TypeOK, DeliveredInOrder
<1>4. sent[Len(delivered) + 1] \in SSEEvent
  BY <1>1, <1>3, EventsAssumption
<1>5. /\ delivered' \in Seq(SSEEvent) /\ Len(delivered') = Len(delivered) + 1
      /\ delivered'[Len(delivered) + 1] = sent[Len(delivered) + 1]
      /\ \A i \in 1..Len(delivered) : delivered'[i] = delivered[i]
  BY <1>1, <1>3, <1>4
<1>6. TypeOK'
  BY <1>1, <1>2, <1>5 DEF TypeOK
<1>7. DeliveredInOrder'
  BY <1>1, <1>2, <1>3, <1>5 DEF DeliveredInOrder
<1>8. RenderedEventsParse' /\ Reading'
  BY <1>1, <1>2 DEF RenderedEventsParse, Reading
<1> QED
  BY <1>1, <1>6, <1>7, <1>8

LEMMA TurnStep == TurnInv /\ [Next]_vars => TurnInv'
<1> SUFFICES ASSUME TurnInv, [Next]_vars PROVE TurnInv'
  OBVIOUS
<1> USE DEF TurnInv
<1>1. ASSUME NEW e \in Events, NEW numbered \in BOOLEAN, Stream(e, numbered) PROVE TurnInv'
  BY <1>1, StreamStep
<1>2. CASE Close
  <2>1. TypeOK' /\ RenderedEventsParse' /\ Reading'
    BY <1>2 DEF Close, TypeOK, RenderedEventsParse, Reading
  <2> QED
    BY <1>2, <2>1, QuietStep DEF Close
<1>3. CASE Break
  <2>1. <<>> \in Seq(Symbols)
    OBVIOUS
  <2>2. TypeOK' /\ RenderedEventsParse' /\ Reading'
    BY <1>3, <2>1 DEF Break, TypeOK, RenderedEventsParse, Reading
  <2> QED
    BY <1>3, <2>2, QuietStep DEF Break
<1>4. CASE Refused
  <2>1. TypeOK' /\ RenderedEventsParse' /\ Reading'
    BY <1>4 DEF Refused, Reject, TypeOK, RenderedEventsParse, Reading
  <2> QED
    BY <1>4, <2>1, QuietStep DEF Refused
<1>5. CASE Abort
  <2>1. TypeOK' /\ RenderedEventsParse' /\ Reading'
    BY <1>5 DEF Abort, Reject, TypeOK, RenderedEventsParse, Reading
  <2> QED
    BY <1>5, <2>1, QuietStep DEF Abort
<1>6. CASE Respond
  <2>1. TypeOK' /\ RenderedEventsParse' /\ Reading'
    BY <1>6 DEF Respond, TypeOK, RenderedEventsParse, Reading
  <2> QED
    BY <1>6, <2>1, QuietStep DEF Respond
<1>7. CASE NetworkFails
  <2>1. TypeOK' /\ RenderedEventsParse' /\ Reading'
    BY <1>7 DEF NetworkFails, Reject, TypeOK, RenderedEventsParse, Reading
  <2> QED
    BY <1>7, <2>1, QuietStep DEF NetworkFails
<1>8. CASE Read
  BY <1>8, ReadStep
<1>9. CASE Frame
  BY <1>9, FrameStep
<1>10. CASE Drained
  <2>1. TypeOK' /\ RenderedEventsParse' /\ Reading'
    BY <1>10 DEF Drained, TypeOK, RenderedEventsParse, Reading, Separators
  <2> QED
    BY <1>10, <2>1, QuietStep DEF Drained
<1>11. CASE Resolve
  <2>1. TypeOK' /\ RenderedEventsParse' /\ Reading'
    BY <1>11 DEF Resolve, TypeOK, RenderedEventsParse, Reading
  <2> QED
    BY <1>11, <2>1, QuietStep DEF Resolve
<1>12. CASE UNCHANGED vars
  <2>1. TypeOK' /\ RenderedEventsParse' /\ Reading'
    BY <1>12 DEF vars, TypeOK, RenderedEventsParse, Reading, Separators
  <2> QED
    BY <1>12, <2>1, QuietStep DEF vars
<1> QED
  BY <1>1, <1>2, <1>3, <1>4, <1>5, <1>6, <1>7, <1>8, <1>9, <1>10, <1>11, <1>12 DEF Next, StreamTurn

LEMMA TurnInvHolds == Spec => []TurnInv
  BY TurnInit, TurnStep, PTL DEF Spec

(* A body read to its end leaves nothing behind: the frame of an event that is
   not delivered would be whole in the buffer, and streamTurn reads on only
   when the buffer holds no whole frame. *)
LEMMA AllRead ==
    ASSUME TurnInv, Resolve
    PROVE  delivered = sent
<1> DEFINE d == Len(delivered)
           n == Len(sent)
           e == sent[d + 1]
<1> USE DEF TurnInv
<1>1. /\ n \in Nat /\ d \in 0..n /\ buffer \in Seq(Symbols) /\ delivered \in Seq(SSEEvent)
      /\ sent \in Seq(Events) /\ sent \in Seq(SSEEvent)
      /\ \A i \in 1..d : delivered[i] = sent[i]
  BY EventsAssumption DEF TypeOK, DeliveredInOrder
<1>2. server = "closed" /\ wire = <<>> /\ Separators(buffer) = {}
  BY DEF Resolve, Reading
<1>3. PICK frames \in Seq(Seq(Symbols)), start \in Seq(Nat) :
         /\ Len(frames) = n
         /\ \A i \in 1..n : frames[i] \in FramesOf(sent[i])
         /\ Placed(frames, start)
         /\ Remains(buffer \o wire, d, frames, start)
  BY <1>2 DEF FramesOnTheWay
<1>4. buffer \o wire = buffer
  BY <1>1, <1>2, ConcatEmptySeq
<1>5. ~(d < n)
  <2> SUFFICES ASSUME d < n PROVE FALSE
    OBVIOUS
  <2> DEFINE F == frames[d + 1]
  <2>1. Len(F) <= Len(buffer) /\ \A j \in 1..Len(F) : buffer[j] = F[j]
    <3>1. d \in 0..Len(frames) /\ d < Len(frames) /\ Remains(buffer, d, frames, start)
      BY <1>1, <1>3, <1>4
    <3> HIDE DEF d
    <3> QED
      BY <1>1, <1>3, <3>1, FirstFrame
  <2>2. e \in Events /\ F \in FramesOf(e)
    BY <1>1, <1>3
  <2>3. PICK numbered \in BOOLEAN : F = ToSseFrame(e, numbered)
    BY <2>2 DEF FramesOf
  <2> DEFINE k == DataAt(numbered)
  <2>4. /\ Len(F) = k + 4
        /\ \A j \in 1..(k + 4) : F[j] = NL <=> j \in {2, k - 1, k + 3, k + 4}
    BY <2>2, <2>3, FrameMarks
  <2>5. k \in {3, 5}
    BY DEF DataAt
  <2> HIDE DEF F, k
  <2>6. k + 3 \in 1..(Len(buffer) - 1) /\ buffer[k + 3] = NL /\ buffer[k + 3 + 1] = NL
    <3>1. k + 3 + 1 = k + 4 /\ k + 3 \in 1..(k + 4) /\ k + 4 \in 1..(k + 4)
      BY <2>5
    <3>2. F[k + 3] = NL /\ F[k + 4] = NL
      BY <2>4, <3>1
    <3>3. buffer[k + 3] = NL /\ buffer[k + 4] = NL
      BY <2>1, <2>4, <3>1, <3>2
    <3>4. Len(buffer) \in Nat
      BY <1>1
    <3> QED
      BY <2>1, <2>4, <2>5, <3>1, <3>3, <3>4
  <2> QED
    BY <1>2, <2>6 DEF Separators
<1>6. d = n
  BY <1>1, <1>5
<1> QED
  BY <1>1, <1>6, SeqEqual

-----------------------------------------------------------------------------
(* The theorems. *)

(* The buffer and the wire hold symbols of frames, and onEvent is called with events
   of the union that have all of their fields. *)
THEOREM TypeCorrect == Spec => []TypeOK
<1>1. TurnInv => TypeOK
  BY DEF TurnInv
<1> QED
  BY <1>1, TurnInvHolds, PTL

(* Nothing that to_sse_frame renders makes streamTurn throw in JSON.parse or in
   parseSSEEvent, wherever the network cuts the stream. *)
THEOREM RenderedEventsAlwaysParse == Spec => []RenderedEventsParse
<1>1. TurnInv => RenderedEventsParse
  BY DEF TurnInv
<1> QED
  BY <1>1, TurnInvHolds, PTL

(* Each step of the turn is a step of the channel or changes nothing of it. *)
LEMMA ChannelStep == TurnInv /\ [Next]_vars => [Channel!Next]_(Channel!vars)
<1> SUFFICES ASSUME TurnInv, [Next]_vars PROVE [Channel!Next]_(Channel!vars)
  OBVIOUS
<1> USE DEF Outcome, Channel!Next, Channel!vars
<1>1. Outcome = "open" <=> phase \notin {"resolved", "rejected"}
  BY DEF Outcome
<1>2. ASSUME NEW e \in Events, NEW numbered \in BOOLEAN, Stream(e, numbered)
      PROVE  Channel!Send(e)
  <2>1. phase # "resolved"
    BY <1>2 DEF TurnInv, Reading, Stream
  <2> QED
    BY <1>2, <2>1 DEF Stream, Channel!Send
<1>3. CASE Close \/ Break \/ Respond \/ Read \/ Drained
  BY <1>3 DEF Close, Break, Respond, Read, Drained
<1>4. CASE Refused \/ NetworkFails \/ Abort
  BY <1>4 DEF Refused, NetworkFails, Abort, Reject, Channel!Reject
<1>5. CASE Frame
  <2>1. /\ Len(delivered) < Len(sent)
        /\ delivered' = Append(delivered, sent[Len(delivered) + 1])
        /\ \/ phase' = "drain" /\ cause' = cause
           \/ phase' = "rejected" /\ cause' = "handler"
    BY <1>5, FrameDelivers
  <2>2. phase = "drain" /\ sent' = sent
    BY <1>5 DEF Frame
  <2> QED
    BY <2>1, <2>2 DEF Channel!Deliver
<1>6. CASE Resolve
  <2>1. delivered = sent
    BY <1>6, AllRead
  <2> QED
    BY <1>6, <2>1 DEF Resolve, Channel!Resolve
<1>7. CASE UNCHANGED vars
  BY <1>7 DEF vars
<1> QED
  BY <1>2, <1>3, <1>4, <1>5, <1>6, <1>7 DEF Next, StreamTurn

(* streamTurn calls onEvent with the events of the backend in order, each once, and
   resolves only when it has had them all. *)
THEOREM StreamImplementsChannel == Spec => ImplementsChannel
<1>1. Init => Channel!Init
  BY DEF Init, Channel!Init, Outcome
<1> QED
  BY <1>1, ChannelStep, TurnInvHolds, PTL DEF ImplementsChannel, Channel!Spec, Spec
=============================================================================
