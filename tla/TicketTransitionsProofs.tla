---------------------- MODULE TicketTransitionsProofs -----------------------
(***************************************************************************)
(* Theorems about TicketTransitions, for every set of tickets and writers, *)
(* every set of requests and every bound.                                  *)
(***************************************************************************)
EXTENDS TicketTransitions, SequenceTheorems, WellFoundedInduction, TLAPS

-----------------------------------------------------------------------------
(* Facts about the data of the workflow. *)

LEMMA AllowedTypes ==
  ASSUME NEW from, NEW to, NEW actor, IsAllowed(from, to, actor)
  PROVE  from \in TicketState /\ to \in TicketState /\ actor \in Actor
BY DEF IsAllowed, Allowed, TicketState, Actor

(* Appending an event that starts where a path ends makes a longer path. *)
LEMMA PathAppend ==
  ASSUME NEW T, NEW s \in Seq(Event(T)), NEW e \in Event(T), NEW a, NEW b,
         Path(s, a, b), e.from = b
  PROVE  Path(Append(s, e), a, e.to)
BY DEF Path, StateAfter

LEMMA LegalAppend ==
  ASSUME NEW T, NEW s \in Seq(Event(T)), NEW e \in Event(T),
         Legal(s), LegalEvent(e)
  PROVE  Legal(Append(s, e))
BY DEF Legal

(* Two paths that meet join into one. *)
LEMMA PathConcat ==
  ASSUME NEW T, NEW s \in Seq(Event(T)), NEW u \in Seq(Event(T)),
         NEW a, NEW b, NEW c, Path(s, a, b), Path(u, b, c)
  PROVE  Path(s \o u, a, c)
<1> DEFINE n == Len(s)
           m == Len(u)
<1>1. /\ n \in Nat /\ m \in Nat
      /\ Len(s \o u) = n + m
      /\ \A i \in 1..(n + m) : (s \o u)[i] = IF i <= n THEN s[i] ELSE u[i - n]
  BY ConcatProperties, LenProperties
<1>2. ASSUME NEW i \in 1..(n + m)
      PROVE  (s \o u)[i].from = StateAfter(s \o u, a, i - 1)
  <2>1. CASE i <= n
    BY <1>1, <2>1 DEF Path, StateAfter
  <2>2. CASE i = n + 1
    <3>1. /\ (s \o u)[i] = u[1]
          /\ u[1].from = b
      BY <1>1, <2>2 DEF Path, StateAfter
    <3>2. b = StateAfter(s \o u, a, n)
      BY <1>1 DEF Path, StateAfter
    <3> QED
      BY <1>1, <2>2, <3>1, <3>2
  <2>3. CASE i > n + 1
    <3> DEFINE j == i - n
    <3>0. j \in 1..m /\ j - 1 # 0
      BY <1>1, <2>3
    <3>1a. u[j].from = StateAfter(u, b, j - 1)
      BY <3>0 DEF Path
    <3>1. u[i - n].from = u[i - n - 1].to
      BY <3>0, <3>1a DEF StateAfter
    <3>2. (s \o u)[i] = u[i - n] /\ (s \o u)[i - 1] = u[i - 1 - n]
      BY <1>1, <2>3
    <3> QED
      BY <1>1, <2>3, <3>1, <3>2 DEF StateAfter
  <2> QED
    BY <1>1, <2>1, <2>2, <2>3
<1>3. c = StateAfter(s \o u, a, n + m)
  <2>1. CASE m = 0
    BY <1>1, <2>1 DEF Path, StateAfter
  <2>2. CASE m > 0
    <3>1. c = u[m].to
      BY <1>1, <2>2 DEF Path, StateAfter
    <3>2. (s \o u)[n + m] = u[m]
      BY <1>1, <2>2
    <3> QED
      BY <1>1, <2>2, <3>1, <3>2 DEF StateAfter
  <2> QED
    BY <1>1, <2>1, <2>2
<1> QED
  BY <1>1, <1>2, <1>3 DEF Path

LEMMA LegalConcat ==
  ASSUME NEW T, NEW s \in Seq(Event(T)), NEW u \in Seq(Event(T)),
         Legal(s), Legal(u)
  PROVE  Legal(s \o u)
<1>1. /\ Len(s) \in Nat /\ Len(u) \in Nat
      /\ Len(s \o u) = Len(s) + Len(u)
      /\ \A i \in 1..(Len(s) + Len(u)) :
            (s \o u)[i] = IF i <= Len(s) THEN s[i] ELSE u[i - Len(s)]
  BY ConcatProperties, LenProperties
<1>2. ASSUME NEW i \in 1..(Len(s) + Len(u)) PROVE LegalEvent((s \o u)[i])
  <2>1. CASE i <= Len(s)
    BY <1>1, <2>1 DEF Legal
  <2>2. CASE i > Len(s)
    BY <1>1, <2>2 DEF Legal
  <2> QED
    BY <1>1, <2>1, <2>2
<1> QED
  BY <1>1, <1>2 DEF Legal

LEMMA EmptyPath ==
  ASSUME NEW a
  PROVE  Path(<<>>, a, a) /\ Legal(<<>>)
BY DEF Path, Legal, StateAfter

-----------------------------------------------------------------------------
(* Type correctness. *)

LEMMA TypeInit == Init => TypeOK
<1> SUFFICES ASSUME Init PROVE TypeOK
  OBVIOUS
<1>1. NewTicket \in Row
  BY BoundsAssumption DEF NewTicket, Row, Time, TicketState
<1>2. <<>> \in Seq(Event(Time))
  OBVIOUS
<1> QED
  BY <1>1, <1>2, BoundsAssumption DEF Init, TypeOK, Time

(* A stamped row version has the type of a row. *)
LEMMA NewVersionType ==
  ASSUME NEW r \in Row, NEW c \in Call
  PROVE  NewVersion(r, c) \in Row
BY DEF NewVersion, Row, Call

LEMMA NewEventType ==
  ASSUME NEW w \in Writers, call[w] \in Call, began[w] \in Time
  PROVE  NewEvent(w) \in Event(Time)
BY DEF NewEvent, Event, Call

(* Leaving a transaction keeps the types, whatever it does with its work. *)
LEMMA EndType ==
  ASSUME TypeOK, NEW w \in Writers, EndTransaction(w),
         row' \in [Tickets -> Row], dirty' \in [Tickets -> Row],
         audit' \in [Tickets -> Seq(Event(Time))]
  PROVE  TypeOK'
<1>1. holder' \in [Tickets -> Writers \cup {NoWriter}]
  BY DEF TypeOK, EndTransaction
<1>2. pending' \in [Tickets -> Seq(Event(Time))]
  <2>1. <<>> \in Seq(Event(Time))
    OBVIOUS
  <2> QED
    BY <2>1 DEF TypeOK, EndTransaction
<1>3. /\ pc' \in [Writers -> {"idle", "open", "stamped", "waiting"}]
      /\ began' \in [Writers -> Time \cup {Null}]
      /\ call' \in [Writers -> Call \cup {Null}]
      /\ calls' \in 0..MaxCalls /\ clock' \in Time
  BY DEF TypeOK, EndTransaction
<1>4. ASSUME NEW v \in Writers
      PROVE  /\ pc'[v] # "idle" => began'[v] \in Time
             /\ pc'[v] \in {"stamped", "waiting"} => call'[v] \in Call
  BY DEF TypeOK, EndTransaction
<1> QED
  BY <1>1, <1>2, <1>3, <1>4 DEF TypeOK, Time

LEMMA DiscardType ==
  ASSUME TypeOK, NEW w \in Writers, Discard(w)
  PROVE  TypeOK'
<1>1. /\ row' \in [Tickets -> Row] /\ dirty' \in [Tickets -> Row]
      /\ audit' \in [Tickets -> Seq(Event(Time))]
  BY DEF TypeOK, Discard
<1> QED
  BY <1>1, EndType DEF Discard

LEMMA CommitType ==
  ASSUME TypeOK, NEW w \in Writers, Commit(w)
  PROVE  TypeOK'
<1>1. row' \in [Tickets -> Row] /\ dirty' \in [Tickets -> Row]
  BY DEF TypeOK, Commit
<1>2. ASSUME NEW t \in Tickets
      PROVE  audit[t] \o pending[t] \in Seq(Event(Time))
  BY ConcatProperties DEF TypeOK
<1>3. audit' \in [Tickets -> Seq(Event(Time))]
  BY <1>2 DEF TypeOK, Commit
<1> QED
  BY <1>1, <1>3, EndType DEF Commit

LEMMA ReturnType ==
  ASSUME TypeOK, NEW w \in Writers, Return(w), pc[w] # "idle",
         holder' \in [Tickets -> Writers \cup {NoWriter}],
         dirty' \in [Tickets -> Row],
         pending' \in [Tickets -> Seq(Event(Time))]
  PROVE  TypeOK'
BY DEF TypeOK, Return, Time

LEMMA WinType ==
  ASSUME TypeOK, NEW w \in Writers, pc[w] \in {"stamped", "waiting"}, Win(w)
  PROVE  TypeOK'
<1> DEFINE t == call[w].ticket
<1>1. call[w] \in Call /\ began[w] \in Time /\ t \in Tickets
  BY DEF TypeOK, Call
<1>2. NewVersion(dirty[t], call[w]) \in Row
  BY <1>1, NewVersionType DEF TypeOK
<1>3. Append(pending[t], NewEvent(w)) \in Seq(Event(Time))
  BY <1>1, NewEventType, AppendProperties DEF TypeOK
<1>4. holder' \in [Tickets -> Writers \cup {NoWriter}]
  BY DEF TypeOK, Win
<1>5. dirty' \in [Tickets -> Row]
  BY <1>2 DEF TypeOK, Win
<1>6. pending' \in [Tickets -> Seq(Event(Time))]
  BY <1>3 DEF TypeOK, Win
<1> QED
  BY <1>4, <1>5, <1>6, ReturnType DEF Win

LEMMA LoseType ==
  ASSUME TypeOK, NEW w \in Writers, pc[w] \in {"stamped", "waiting"}, Lose(w)
  PROVE  TypeOK'
<1>1. /\ holder' \in [Tickets -> Writers \cup {NoWriter}]
      /\ dirty' \in [Tickets -> Row]
      /\ pending' \in [Tickets -> Seq(Event(Time))]
  BY DEF TypeOK, Lose
<1> QED
  BY <1>1, ReturnType DEF Lose

LEMMA TypeStep == TypeOK /\ [Next]_vars => TypeOK'
<1> SUFFICES ASSUME TypeOK, [Next]_vars PROVE TypeOK'
  OBVIOUS
<1>1. ASSUME NEW w \in Writers, Begin(w) PROVE TypeOK'
  BY <1>1 DEF TypeOK, Begin, Time
<1>2. ASSUME NEW w \in Writers, Commit(w) PROVE TypeOK'
  BY <1>2, CommitType
<1>3. ASSUME NEW w \in Writers,
             \/ Rollback(w)
             \/ DeadlockVictim(w)
             \/ \E r \in Requests : Refuse(w, r[1], r[2], r[3])
      PROVE  TypeOK'
  BY <1>3, DiscardType DEF Rollback, DeadlockVictim, Refuse
<1>4. ASSUME NEW w \in Writers, NEW r \in Requests, NEW t \in Tickets,
             Stamp(w, t, r[1], r[2], r[3])
      PROVE  TypeOK'
  <2>1. call'[w] \in Call
    BY <1>4, AllowedTypes DEF TypeOK, Stamp, AssertAllowed, Call
  <2>2. call' \in [Writers -> Call \cup {Null}]
    BY <1>4, <2>1 DEF TypeOK, Stamp
  <2>3. calls' \in 0..MaxCalls
    BY <1>4, BoundsAssumption DEF TypeOK, Stamp
  <2> QED
    BY <1>4, <2>1, <2>2, <2>3 DEF TypeOK, Stamp, Time
<1>5. ASSUME NEW w \in Writers, Update(w) PROVE TypeOK'
  <2>1. CASE Win(w)
    BY <1>5, <2>1, WinType DEF Update
  <2>2. CASE Lose(w)
    BY <1>5, <2>2, LoseType DEF Update
  <2>3. CASE Block(w)
    BY <1>5, <2>3 DEF TypeOK, Update, Block, Time
  <2> QED
    BY <1>5, <2>1, <2>2, <2>3 DEF Update
<1>6. ASSUME NEW w \in Writers, Wake(w) PROVE TypeOK'
  BY <1>6, WinType, LoseType DEF Wake
<1>7. CASE Tick
  BY <1>7, BoundsAssumption DEF TypeOK, Tick, Time
<1>8. CASE UNCHANGED vars
  BY <1>8 DEF TypeOK, vars, Time
<1> QED
  BY <1>1, <1>2, <1>3, <1>4, <1>5, <1>6, <1>7, <1>8 DEF Next

(* The state of the transactions and of the rows keeps its shape under every
   interleaving of calls, commits, rollbacks and deadlock aborts. *)
THEOREM TypeCorrect == Spec => []TypeOK
<1> QED
  BY TypeInit, TypeStep, PTL DEF Spec

-----------------------------------------------------------------------------
(***************************************************************************)
(* The audit trail replays.  AuditReplays alone is not inductive: Commit   *)
(* appends the pending events, so they must replay too, and they do only   *)
(* because a row with pending events is locked and the UPDATE compares     *)
(* against the version it is about to replace.                             *)
(***************************************************************************)

LEMMA AuditInit == Init => AuditInv
<1> SUFFICES ASSUME Init PROVE AuditInv
  OBVIOUS
<1>1. LocksGuardWrites
  BY DEF Init, LocksGuardWrites
<1>2. PendingReplays /\ AuditReplays
  BY EmptyPath DEF Init, PendingReplays, AuditReplays, NewTicket
<1>3. CallsAllowed
  BY DEF Init, CallsAllowed
<1> QED
  BY <1>1, <1>2, <1>3, TypeInit DEF AuditInv

LEMMA EndCallsAllowed ==
  ASSUME AuditInv, NEW w \in Writers, EndTransaction(w)
  PROVE  CallsAllowed'
BY DEF AuditInv, TypeOK, CallsAllowed, EndTransaction

LEMMA DiscardAudit ==
  ASSUME AuditInv, NEW w \in Writers, Discard(w)
  PROVE  AuditInv'
<1> USE DEF AuditInv
<1>1. ASSUME NEW t \in Tickets
      PROVE  /\ holder'[t] = NoWriter => pending'[t] = <<>>
             /\ holder'[t] = NoWriter => dirty'[t] = row'[t]
             /\ holder'[t] # NoWriter => pending'[t] # <<>>
  BY DEF TypeOK, LocksGuardWrites, Discard, EndTransaction, Mine
<1>2. ASSUME NEW t \in Tickets
      PROVE  Path(pending'[t], row'[t].state, dirty'[t].state) /\ Legal(pending'[t])
  <2>1. CASE holder[t] = w
    <3>1. pending'[t] = <<>> /\ dirty'[t] = row'[t]
      BY <2>1 DEF Discard, EndTransaction, Mine
    <3> QED
      BY <3>1, EmptyPath
  <2>2. CASE holder[t] # w
    <3>1. pending'[t] = pending[t] /\ dirty'[t] = dirty[t] /\ row'[t] = row[t]
      BY <2>2 DEF Discard, EndTransaction, Mine
    <3> QED
      BY <3>1 DEF PendingReplays
  <2> QED
    BY <2>1, <2>2
<1>3. CallsAllowed'
  BY EndCallsAllowed DEF Discard
<1>4. AuditReplays'
  BY DEF AuditReplays, Discard
<1> QED
  BY <1>1, <1>2, <1>3, <1>4, DiscardType DEF LocksGuardWrites, PendingReplays

(* What Commit publishes, ticket by ticket. *)
LEMMA CommitAudit ==
  ASSUME AuditInv, NEW w \in Writers, Commit(w)
  PROVE  AuditInv'
<1> USE DEF AuditInv
<1>1. ASSUME NEW t \in Tickets
      PROVE  /\ holder'[t] = NoWriter => pending'[t] = <<>>
             /\ holder'[t] = NoWriter => dirty'[t] = row'[t]
             /\ holder'[t] # NoWriter => pending'[t] # <<>>
             /\ Path(pending'[t], row'[t].state, dirty'[t].state)
             /\ Legal(pending'[t])
             /\ Path(audit'[t], "new", row'[t].state)
             /\ Legal(audit'[t])
  <2>1. CASE holder[t] = w
    <3>1. /\ pending'[t] = <<>> /\ dirty'[t] = dirty[t]
          /\ row'[t] = dirty[t] /\ holder'[t] = NoWriter
          /\ audit'[t] = audit[t] \o pending[t]
      BY <2>1 DEF TypeOK, Commit, EndTransaction, Mine
    <3>2. /\ audit[t] \in Seq(Event(Time))
          /\ pending[t] \in Seq(Event(Time))
          /\ Path(audit[t], "new", row[t].state) /\ Legal(audit[t])
          /\ Path(pending[t], row[t].state, dirty[t].state) /\ Legal(pending[t])
      BY DEF TypeOK, AuditReplays, PendingReplays
    <3>3. Path(audit[t] \o pending[t], "new", dirty[t].state)
      BY <3>2, PathConcat
    <3>4. Legal(audit[t] \o pending[t])
      BY <3>2, LegalConcat
    <3> QED
      BY <3>1, <3>3, <3>4, EmptyPath
  <2>2. CASE holder[t] # w
    <3>1. /\ pending'[t] = pending[t] /\ dirty'[t] = dirty[t]
          /\ row'[t] = row[t] /\ holder'[t] = holder[t] /\ audit'[t] = audit[t]
      BY <2>2 DEF Commit, EndTransaction, Mine
    <3> QED
      BY <3>1 DEF LocksGuardWrites, PendingReplays, AuditReplays
  <2> QED
    BY <2>1, <2>2
<1>2. CallsAllowed'
  BY EndCallsAllowed DEF Commit
<1> QED
  BY <1>1, <1>2, CommitType DEF LocksGuardWrites, PendingReplays, AuditReplays

(* The UPDATE that wins compared against the version it replaces. *)
LEMMA WinAudit ==
  ASSUME AuditInv, NEW w \in Writers, pc[w] \in {"stamped", "waiting"}, Win(w)
  PROVE  AuditInv'
<1> USE DEF AuditInv
<1> DEFINE t == call[w].ticket
           e == NewEvent(w)
<1>1. call[w] \in Call /\ began[w] \in Time /\ t \in Tickets
  BY DEF TypeOK, Call
<1>2. e \in Event(Time) /\ pending[t] \in Seq(Event(Time))
  BY <1>1, NewEventType DEF TypeOK
<1>3. dirty[t].state = e.from
  BY <1>1 DEF Win, Visible, LocksGuardWrites, NewEvent
<1>4. LegalEvent(e)
  BY DEF CallsAllowed, LegalEvent, NewEvent
<1>5. /\ pending'[t] = Append(pending[t], e)
      /\ dirty'[t].state = e.to /\ holder'[t] = w /\ row' = row
  BY <1>1, NewVersionType DEF TypeOK, Win, Return, NewVersion, NewEvent, Row
<1>6. /\ Path(pending'[t], row'[t].state, dirty'[t].state)
      /\ Legal(pending'[t])
  BY <1>1, <1>2, <1>3, <1>4, <1>5, PathAppend, LegalAppend DEF PendingReplays
<1>7. pending'[t] # <<>> /\ holder'[t] # NoWriter
  BY <1>2, <1>5, NoWriterAssumption
<1>8. ASSUME NEW u \in Tickets, u # t
      PROVE  /\ pending'[u] = pending[u] /\ dirty'[u] = dirty[u]
             /\ holder'[u] = holder[u] /\ row'[u] = row[u]
  BY <1>8 DEF TypeOK, Win, Return
<1>9. LocksGuardWrites'
  BY <1>7, <1>8 DEF LocksGuardWrites
<1>10. PendingReplays'
  BY <1>6, <1>8 DEF PendingReplays
<1>11. CallsAllowed' /\ AuditReplays'
  BY DEF TypeOK, CallsAllowed, AuditReplays, Win, Return
<1> QED
  BY <1>9, <1>10, <1>11, WinType

LEMMA LoseAudit ==
  ASSUME AuditInv, NEW w \in Writers, pc[w] \in {"stamped", "waiting"}, Lose(w)
  PROVE  AuditInv'
<1>1. CallsAllowed'
  BY DEF AuditInv, TypeOK, CallsAllowed, Lose, Return
<1> QED
  BY <1>1, LoseType DEF AuditInv, LocksGuardWrites, PendingReplays,
     AuditReplays, Lose, Return

LEMMA AuditStep == AuditInv /\ [Next]_vars => AuditInv'
<1> SUFFICES ASSUME AuditInv, [Next]_vars PROVE AuditInv'
  OBVIOUS
<1>0. TypeOK'
  BY TypeStep DEF AuditInv
<1>1. ASSUME UNCHANGED <<row, audit, holder, dirty, pending>>, CallsAllowed'
      PROVE  AuditInv'
  BY <1>0, <1>1 DEF AuditInv, LocksGuardWrites, PendingReplays, AuditReplays
<1>2. ASSUME NEW w \in Writers, Begin(w) PROVE AuditInv'
  BY <1>1, <1>2 DEF AuditInv, TypeOK, CallsAllowed, Begin
<1>3. ASSUME NEW w \in Writers, Commit(w) PROVE AuditInv'
  BY <1>3, CommitAudit
<1>4. ASSUME NEW w \in Writers,
             \/ Rollback(w)
             \/ DeadlockVictim(w)
             \/ \E r \in Requests : Refuse(w, r[1], r[2], r[3])
      PROVE  AuditInv'
  BY <1>4, DiscardAudit DEF Rollback, DeadlockVictim, Refuse
<1>5. ASSUME NEW w \in Writers, NEW r \in Requests, NEW t \in Tickets,
             Stamp(w, t, r[1], r[2], r[3])
      PROVE  AuditInv'
  <2>1. CallsAllowed'
    BY <1>5 DEF AuditInv, TypeOK, CallsAllowed, Stamp, AssertAllowed
  <2> QED
    BY <1>1, <1>5, <2>1 DEF Stamp
<1>6. ASSUME NEW w \in Writers, Update(w) PROVE AuditInv'
  <2>1. CASE Win(w)
    BY <1>6, <2>1, WinAudit DEF Update
  <2>2. CASE Lose(w)
    BY <1>6, <2>2, LoseAudit DEF Update
  <2>3. CASE Block(w)
    <3>1. CallsAllowed'
      BY <1>6, <2>3 DEF AuditInv, TypeOK, CallsAllowed, Update, Block
    <3> QED
      BY <1>1, <2>3, <3>1 DEF Block
  <2> QED
    BY <1>6, <2>1, <2>2, <2>3 DEF Update
<1>7. ASSUME NEW w \in Writers, Wake(w) PROVE AuditInv'
  BY <1>7, WinAudit, LoseAudit DEF Wake
<1>8. CASE Tick
  BY <1>1, <1>8 DEF AuditInv, CallsAllowed, Tick
<1>9. CASE UNCHANGED vars
  BY <1>1, <1>9 DEF AuditInv, CallsAllowed, vars
<1> QED
  BY <1>2, <1>3, <1>4, <1>5, <1>6, <1>7, <1>8, <1>9 DEF Next

LEMMA AuditInvariant == Spec => []AuditInv
<1> QED
  BY AuditInit, AuditStep, PTL DEF Spec

(* The committed audit trail of every ticket replays from "new" to the state
   of its row, along edges the whitelist grants. *)
THEOREM AuditTrailReplays == Spec => []AuditReplays
<1>1. AuditInv => AuditReplays
  BY DEF AuditInv
<1> QED
  BY <1>1, AuditInvariant, PTL

(* No two committed transitions leave one and the same visit of a state: the
   guarded UPDATE lets at most one writer win it. *)
THEOREM OneWinnerPerVisit == Spec => []NeverBothWin
<1>1. AuditInv => NeverBothWin
  <2> SUFFICES ASSUME AuditInv, NEW t \in Tickets,
                      NEW i \in 1..Len(audit[t]), NEW j \in 1..Len(audit[t]),
                      i < j
               PROVE  \E k \in i..(j - 1) : audit[t][k].to = audit[t][j].from
    BY DEF NeverBothWin
  <2>1. audit[t][j].from = audit[t][j - 1].to
    <3>1. audit[t][j].from = StateAfter(audit[t], "new", j - 1)
      BY DEF AuditInv, AuditReplays, Path
    <3>2. j - 1 # 0
      OBVIOUS
    <3> QED
      BY <3>1, <3>2 DEF StateAfter
  <2>2. j - 1 \in i..(j - 1)
    OBVIOUS
  <2> QED
    BY <2>1, <2>2
<1> QED
  BY <1>1, AuditInvariant, PTL

-----------------------------------------------------------------------------
(***************************************************************************)
(* The transactional model implements the lifecycle.  Only Commit changes  *)
(* what readers see, and it extends each trail by the pending path.        *)
(***************************************************************************)

LEMMA AppendedPart ==
  ASSUME NEW T, NEW s \in Seq(Event(T)), NEW u \in Seq(Event(T))
  PROVE  SubSeq(s \o u, Len(s) + 1, Len(s \o u)) = u
<1> DEFINE n == Len(s)
           m == Len(u)
           x == SubSeq(s \o u, n + 1, n + m)
<1>1. /\ n \in Nat /\ m \in Nat
      /\ Len(s \o u) = n + m
      /\ \A i \in 1..(n + m) : (s \o u)[i] = IF i <= n THEN s[i] ELSE u[i - n]
  BY ConcatProperties, LenProperties
<1>2. \A i \in (n + 1)..(n + m) : (s \o u)[i] \in Event(T)
  <2> SUFFICES ASSUME NEW i \in (n + 1)..(n + m)
               PROVE  (s \o u)[i] \in Event(T)
    OBVIOUS
  <2>1. (s \o u)[i] = u[i - n] /\ i - n \in 1..m
    BY <1>1
  <2> QED
    BY <2>1, ElementOfSeq
<1>3. /\ x \in Seq(Event(T))
      /\ Len(x) = m
      /\ \A i \in 1..m : x[i] = (s \o u)[n + i]
  BY <1>1, <1>2
<1>4. \A i \in 1..m : x[i] = u[i]
  BY <1>1, <1>3
<1>5. x = u
  BY <1>3, <1>4, SeqEqual
<1> QED
  BY <1>1, <1>5

LEMMA AdvanceBy ==
  ASSUME TypeOK, NEW t \in Tickets, NEW new \in Seq(Event(Time)),
         audit'[t] = audit[t] \o new, row' \in [Tickets -> Row],
         Legal(new), Path(new, row[t].state, row'[t].state)
  PROVE  Lifecycle!Advance(t)
<1>1. SubSeq(audit'[t], Len(audit[t]) + 1, Len(audit'[t])) = new
  BY AppendedPart DEF TypeOK
<1>2. Lifecycle!Legal(new)
  BY DEF Lifecycle!Legal, Lifecycle!LegalEvent, Lifecycle!IsAllowed,
     Lifecycle!Allowed, Lifecycle!AIWhitelist,
     Legal, LegalEvent, IsAllowed, Allowed, AIWhitelist
<1>3. Lifecycle!Path(new, row[t].state, row'[t].state)
  BY DEF Lifecycle!Path, Lifecycle!StateAfter, Path, StateAfter
<1> QED
  BY <1>1, <1>2, <1>3 DEF Lifecycle!Advance

LEMMA CommitAdvances ==
  ASSUME AuditInv, NEW w \in Writers, Commit(w)
  PROVE  Lifecycle!Next
<1>1. TypeOK /\ TypeOK'
  BY CommitType DEF AuditInv
<1>2. ASSUME NEW t \in Tickets PROVE Lifecycle!Advance(t)
  <2>1. CASE holder[t] = w
    <3>1. audit'[t] = audit[t] \o pending[t] /\ row'[t] = dirty[t]
      BY <2>1 DEF Commit, Mine
    <3>2. /\ pending[t] \in Seq(Event(Time)) /\ Legal(pending[t])
          /\ Path(pending[t], row[t].state, dirty[t].state)
      BY DEF AuditInv, TypeOK, PendingReplays
    <3> QED
      BY <1>1, <3>1, <3>2, AdvanceBy DEF TypeOK
  <2>2. CASE holder[t] # w
    <3>1. audit'[t] = audit[t] /\ row'[t] = row[t]
      BY <2>2 DEF Commit, Mine
    <3>2. audit[t] \o <<>> = audit[t] /\ <<>> \in Seq(Event(Time))
      BY ConcatEmptySeq DEF AuditInv, TypeOK
    <3> QED
      BY <1>1, <3>1, <3>2, EmptyPath, AdvanceBy DEF TypeOK
  <2> QED
    BY <2>1, <2>2
<1>3. DOMAIN [t \in Tickets |-> row'[t].state] = Tickets /\ DOMAIN audit' = Tickets
  BY <1>1 DEF TypeOK
<1> QED
  BY <1>2, <1>3 DEF Lifecycle!Next

(* Readers of the committed rows see exactly the abstract lifecycle: whatever
   the interleaving, every step is a legal extension of the audit trails that
   ends in the states the rows show, or changes nothing. *)
THEOREM TransitionsImplementLifecycle == Spec => ImplementsLifecycle
<1>1. Init => Lifecycle!Init
  BY DEF Init, NewTicket, Lifecycle!Init
<1>2. AuditInv /\ [Next]_vars => [Lifecycle!Next]_(Lifecycle!vars)
  <2> SUFFICES ASSUME AuditInv, [Next]_vars
               PROVE  Lifecycle!Next \/ UNCHANGED <<row, audit>>
    BY DEF Lifecycle!vars
  <2>1. ASSUME NEW w \in Writers, Commit(w) PROVE Lifecycle!Next
    BY <2>1, CommitAdvances
  <2>2. ASSUME NEW w \in Writers, Discard(w) PROVE UNCHANGED <<row, audit>>
    BY <2>2 DEF Discard
  <2>3. ASSUME NEW w \in Writers, Win(w) \/ Lose(w) \/ Block(w)
        PROVE  UNCHANGED <<row, audit>>
    BY <2>3 DEF Win, Lose, Block, Return
  <2>4. ASSUME NEW w \in Writers, NEW r \in Requests, NEW t \in Tickets,
               Begin(w) \/ Stamp(w, t, r[1], r[2], r[3])
        PROVE  UNCHANGED <<row, audit>>
    BY <2>4 DEF Begin, Stamp
  <2> QED
    BY <2>1, <2>2, <2>3, <2>4 DEF Next, Begin, Rollback, DeadlockVictim, Refuse,
       Update, Wake, Tick, vars
<1> QED
  BY <1>1, <1>2, AuditInvariant, PTL DEF Spec, ImplementsLifecycle,
     Lifecycle!Spec

-----------------------------------------------------------------------------
(***************************************************************************)
(* Escalation.  A trail that replays is followed from an escalation to a   *)
(* later step of the AI; the first event of a kind on the way is the one   *)
(* that tells who took it.                                                 *)
(***************************************************************************)

LEMMA LeastOf ==
  ASSUME NEW S \in SUBSET Nat, S # {}
  PROVE  \E m \in S : \A k \in S : m <= k
<1>1. PICK m \in S : \A k \in S : ~(<<k, m>> \in OpToRel(<, Nat))
  BY NatLessThanWellFounded, WFMin
<1>2. ASSUME NEW k \in S PROVE m <= k
  <2>1. k \in Nat /\ m \in Nat
    OBVIOUS
  <2>2. ASSUME k < m PROVE <<k, m>> \in OpToRel(<, Nat)
    BY <2>1, <2>2, Zenon DEF OpToRel
  <2>3. ~(k < m)
    BY <1>1, <2>2
  <2> QED
    BY <2>1, <2>3
<1> QED
  BY <1>2

(* The event after one of the trail leaves the state that one reached. *)
LEMMA TrailSteps ==
  ASSUME NEW T, NEW s \in Seq(Event(T)), NEW b, Path(s, "new", b), Legal(s),
         NEW k \in 2..Len(s)
  PROVE  /\ s[k - 1] \in Event(T) /\ s[k] \in Event(T)
         /\ s[k].from = s[k - 1].to
         /\ IsAllowed(s[k].from, s[k].to, s[k].actor)
<1>1. k \in 1..Len(s) /\ k - 1 \in 1..Len(s) /\ k - 1 # 0
  OBVIOUS
<1>2. s[k].from = StateAfter(s, "new", k - 1)
  BY <1>1 DEF Path
<1> QED
  BY <1>1, <1>2, ElementOfSeq DEF StateAfter, Legal, LegalEvent

LEMMA EscalationPath ==
  ASSUME NEW T, NEW s \in Seq(Event(T)), NEW b, Path(s, "new", b), Legal(s),
         NEW i \in 1..Len(s), NEW j \in 1..Len(s), i < j,
         s[i].to = "escalated", s[j].actor = "ai"
  PROVE  /\ \E k \in i..j : s[k].actor = "agent"
         /\ \E k \in i..j : s[k].to = "reopened"
<1>1. s[j - 1].to = "ai_handling"
  <2>1. IsAllowed(s[j - 1].to, s[j].to, "ai")
    BY TrailSteps
  <2>2. s[j - 1].to # "new"
    <3>1. LegalEvent(s[j - 1])
      BY DEF Legal
    <3> QED
      BY <3>1 DEF LegalEvent, IsAllowed, Allowed
  <2> QED
    BY <2>1, <2>2 DEF IsAllowed, AIWhitelist
<1>2. \E k \in i..j : s[k].actor = "agent"
  <2> DEFINE S == {k \in i..j : s[k].to # "escalated"}
  <2>1. j - 1 \in S
    BY <1>1
  <2>2. PICK k \in S : \A m \in S : k <= m
    BY <2>1, LeastOf, S \subseteq Nat
  <2>3. k \in 2..Len(s) /\ k - 1 \in i..j /\ k - 1 \notin S
    BY <2>2
  <2>4. s[k - 1].to = "escalated"
    BY <2>3
  <2>5. IsAllowed("escalated", s[k].to, s[k].actor)
    BY <2>3, <2>4, TrailSteps
  <2>6. s[k].actor = "agent"
    BY <2>5 DEF IsAllowed, Allowed
  <2> QED
    BY <2>6
<1>3. \E k \in i..j : s[k].to = "reopened"
  <2> DEFINE S == {k \in i..j : s[k].to \in {"new", "ai_handling", "reopened"}}
  <2>1. j - 1 \in S
    BY <1>1
  <2>2. PICK k \in S : \A m \in S : k <= m
    BY <2>1, LeastOf, S \subseteq Nat
  <2>3. k \in 2..Len(s) /\ k - 1 \in i..j /\ k - 1 \notin S
    BY <2>2
  <2>4. s[k - 1].to \notin {"new", "ai_handling", "reopened"}
    BY <2>3
  <2>5. IsAllowed(s[k - 1].to, s[k].to, s[k].actor)
    BY <2>3, TrailSteps
  <2>6. s[k].to = "reopened"
    BY <2>2, <2>4, <2>5 DEF IsAllowed, Allowed
  <2> QED
    BY <2>6
<1> QED
  BY <1>2, <1>3

(* After an escalation no committed step is the AI's before an agent has acted and
   the ticket was reopened: the guard of apply_transition refuses its stale calls. *)
THEOREM EscalationKeepsAIOut == Spec => []EscalatedStaysWithHumans
<1>1. AuditInv => EscalatedStaysWithHumans
  <2> SUFFICES ASSUME AuditInv, NEW t \in Tickets,
                      NEW i \in 1..Len(audit[t]), NEW j \in 1..Len(audit[t]), i < j,
                      audit[t][i].to = "escalated", audit[t][j].actor = "ai"
               PROVE  /\ \E k \in i..j : audit[t][k].actor = "agent"
                      /\ \E k \in i..j : audit[t][k].to = "reopened"
    BY DEF EscalatedStaysWithHumans
  <2>1. /\ audit[t] \in Seq(Event(Time)) /\ Legal(audit[t])
        /\ Path(audit[t], "new", row[t].state)
    BY DEF AuditInv, TypeOK, AuditReplays
  <2> QED
    BY <2>1, EscalationPath
<1> QED
  BY <1>1, AuditInvariant, PTL

-----------------------------------------------------------------------------
(***************************************************************************)
(* The stamps.  A call carries the application's `now', taken after its    *)
(* transaction began, so a version is stamped no earlier than the event    *)
(* that records it; and a version is closed only from a resolved one.      *)
(***************************************************************************)

Stamped(v) ==
    /\ v.state \in {"resolved", "closed"} => v.resolved_at # Null
    /\ v.state = "resolved" => v.resolved_at = v.updated_at
    /\ v.state = "closed" => v.closed_at = v.updated_at
    /\ v.updated_at <= clock

RecordedBefore(events, v) ==
    Len(events) > 0 => events[Len(events)].at <= v.updated_at

VersionsStamped ==
    \A t \in Tickets : /\ Stamped(row[t]) /\ RecordedBefore(audit[t], row[t])
                       /\ Stamped(dirty[t]) /\ RecordedBefore(pending[t], dirty[t])

CallsTimed ==
    \A w \in Writers :
        /\ pc[w] # "idle" => began[w] <= clock
        /\ pc[w] \in {"stamped", "waiting"} =>
              began[w] <= call[w].now /\ call[w].now <= clock

StampInv == AuditInv /\ VersionsStamped /\ CallsTimed

LEMMA StampInit == Init => StampInv
<1> SUFFICES ASSUME Init PROVE StampInv
  OBVIOUS
<1>1. VersionsStamped
  BY DEF Init, NewTicket, VersionsStamped, Stamped, RecordedBefore
<1>2. CallsTimed
  BY DEF Init, CallsTimed
<1> QED
  BY <1>1, <1>2, AuditInit DEF StampInv

LEMMA EndTimed ==
  ASSUME StampInv, NEW w \in Writers, EndTransaction(w)
  PROVE  CallsTimed'
BY DEF StampInv, AuditInv, TypeOK, CallsTimed, EndTransaction

LEMMA DiscardStamps ==
  ASSUME StampInv, NEW w \in Writers, Discard(w)
  PROVE  VersionsStamped' /\ CallsTimed'
<1>1. VersionsStamped'
  <2> SUFFICES ASSUME NEW t \in Tickets
               PROVE  /\ Stamped(row[t])' /\ RecordedBefore(audit[t], row[t])'
                      /\ Stamped(dirty[t])' /\ RecordedBefore(pending[t], dirty[t])'
    BY DEF VersionsStamped
  <2>1. CASE holder[t] = w
    BY <2>1 DEF StampInv, VersionsStamped, Stamped, RecordedBefore, Discard, EndTransaction, Mine
  <2>2. CASE holder[t] # w
    BY <2>2 DEF StampInv, VersionsStamped, Stamped, RecordedBefore, Discard, EndTransaction, Mine
  <2> QED
    BY <2>1, <2>2
<1> QED
  BY <1>1, EndTimed DEF Discard

LEMMA LastOfConcat ==
  ASSUME NEW S, NEW s \in Seq(S), NEW u \in Seq(S), u # <<>>
  PROVE  /\ Len(u) > 0
         /\ (s \o u)[Len(s \o u)] = u[Len(u)]
<1> DEFINE n == Len(s)
           m == Len(u)
<1>1. n \in Nat /\ m \in Nat /\ m > 0
  BY LenProperties, EmptySeq
<1>2. /\ Len(s \o u) = n + m
      /\ \A i \in 1..(n + m) : (s \o u)[i] = IF i <= n THEN s[i] ELSE u[i - n]
  BY ConcatProperties
<1> HIDE DEF n, m
<1>3. n + m \in 1..(n + m) /\ ~(n + m <= n) /\ (n + m) - n = m
  BY <1>1
<1>4. (s \o u)[n + m] = u[m]
  BY <1>2, <1>3
<1> QED
  BY <1>1, <1>2, <1>4 DEF n, m

(* The last event of the longer trail is the last of the pending ones. *)
LEMMA CommitStamps ==
  ASSUME StampInv, NEW w \in Writers, Commit(w)
  PROVE  VersionsStamped' /\ CallsTimed'
<1> USE DEF StampInv
<1>1. VersionsStamped'
  <2> SUFFICES ASSUME NEW t \in Tickets
               PROVE  /\ Stamped(row[t])' /\ RecordedBefore(audit[t], row[t])'
                      /\ Stamped(dirty[t])' /\ RecordedBefore(pending[t], dirty[t])'
    BY DEF VersionsStamped
  <2>1. CASE holder[t] = w
    <3>1. /\ pending'[t] = <<>> /\ dirty'[t] = dirty[t] /\ row'[t] = dirty[t]
          /\ audit'[t] = audit[t] \o pending[t] /\ clock' = clock
      BY <2>1 DEF Commit, EndTransaction, Mine
    <3>2. /\ audit[t] \in Seq(Event(Time)) /\ pending[t] \in Seq(Event(Time))
          /\ pending[t] # <<>>
      BY <2>1, NoWriterAssumption DEF AuditInv, TypeOK, LocksGuardWrites
    <3>3. /\ Len(pending[t]) > 0
          /\ audit'[t][Len(audit'[t])] = pending[t][Len(pending[t])]
      BY <3>1, <3>2, LastOfConcat
    <3>4. Stamped(dirty[t]) /\ RecordedBefore(pending[t], dirty[t])
      BY DEF VersionsStamped
    <3>5. Stamped(row[t])' /\ Stamped(dirty[t])'
      BY <3>1, <3>4 DEF Stamped
    <3>6. RecordedBefore(audit[t], row[t])'
      BY <3>1, <3>3, <3>4 DEF RecordedBefore
    <3>7. RecordedBefore(pending[t], dirty[t])'
      BY <3>1 DEF RecordedBefore
    <3> QED
      BY <3>5, <3>6, <3>7
  <2>2. CASE holder[t] # w
    BY <2>2 DEF VersionsStamped, Stamped, RecordedBefore, Commit, EndTransaction, Mine
  <2> QED
    BY <2>1, <2>2
<1> QED
  BY <1>1, EndTimed DEF Commit

LEMMA WinStamps ==
  ASSUME StampInv, NEW w \in Writers, pc[w] \in {"stamped", "waiting"}, Win(w)
  PROVE  VersionsStamped' /\ CallsTimed'
<1> USE DEF StampInv, AuditInv
<1> DEFINE c == call[w]
           e == NewEvent(w)
<1>0. PICK t \in Tickets : t = c.ticket
  BY DEF TypeOK, Call
<1>1. c \in Call /\ began[w] \in Time /\ t = c.ticket /\ clock \in Time
  BY <1>0 DEF TypeOK
<1>2. /\ dirty[t] \in Row /\ Stamped(dirty[t])
      /\ IsAllowed(dirty[t].state, c.to, c.actor)
  BY <1>1 DEF TypeOK, VersionsStamped, Win, Visible, LocksGuardWrites, CallsAllowed
<1>3. /\ dirty'[t] = NewVersion(dirty[t], c) /\ clock' = clock
      /\ pending'[t] = Append(pending[t], e) /\ row' = row /\ audit' = audit
  BY <1>1 DEF TypeOK, Win, Return
<1>4. /\ dirty'[t].state = c.to /\ dirty'[t].updated_at = c.now
      /\ dirty'[t].resolved_at = IF c.to = "resolved" THEN c.now ELSE dirty[t].resolved_at
      /\ dirty'[t].closed_at = IF c.to = "closed" THEN c.now ELSE dirty[t].closed_at
  BY <1>2, <1>3 DEF NewVersion, Row
<1>5. c.to = "closed" => dirty[t].state = "resolved"
  BY <1>2 DEF IsAllowed, Allowed
<1>6. c.now \in Nat /\ c.now # Null /\ began[w] <= c.now /\ c.now <= clock
  BY <1>1, NullAssumption DEF CallsTimed, Call, Time
<1>7. Stamped(dirty[t])'
  BY <1>2, <1>3, <1>4, <1>5, <1>6 DEF Stamped
<1>8. RecordedBefore(pending[t], dirty[t])'
  <2>1. e \in Event(Time) /\ pending[t] \in Seq(Event(Time))
    BY <1>1, NewEventType DEF TypeOK
  <2>2. pending'[t][Len(pending'[t])] = e
    BY <1>3, <2>1, AppendProperties
  <2> QED
    BY <1>4, <1>6, <2>2 DEF RecordedBefore, NewEvent
<1>9. ASSUME NEW u \in Tickets, u # t
      PROVE  dirty'[u] = dirty[u] /\ pending'[u] = pending[u]
  BY <1>1, <1>9 DEF TypeOK, Win
<1>10. VersionsStamped'
  <2>1. ASSUME NEW u \in Tickets
        PROVE  Stamped(row[u])' /\ RecordedBefore(audit[u], row[u])'
    BY <1>3 DEF VersionsStamped, Stamped, RecordedBefore
  <2>2. ASSUME NEW u \in Tickets, u # t
        PROVE  Stamped(dirty[u])' /\ RecordedBefore(pending[u], dirty[u])'
    BY <1>3, <1>9, <2>2 DEF VersionsStamped, Stamped, RecordedBefore
  <2> QED
    BY <1>7, <1>8, <2>1, <2>2 DEF VersionsStamped
<1>11. CallsTimed'
  BY DEF TypeOK, CallsTimed, Win, Return
<1> QED
  BY <1>10, <1>11

LEMMA StampStep == StampInv /\ [Next]_vars => StampInv'
<1> SUFFICES ASSUME StampInv, [Next]_vars PROVE VersionsStamped' /\ CallsTimed'
  BY AuditStep DEF StampInv
<1>0. TypeOK /\ TypeOK'
  BY AuditStep DEF StampInv, AuditInv
<1>1. ASSUME UNCHANGED <<row, audit, dirty, pending>>, clock' >= clock
      PROVE  VersionsStamped'
  <2>1. clock \in Nat /\ clock' \in Nat /\ \A t \in Tickets :
          row[t].updated_at \in Nat /\ dirty[t].updated_at \in Nat
    BY <1>0 DEF TypeOK, Row, Time
  <2> QED
    BY <1>1, <2>1 DEF StampInv, VersionsStamped, Stamped, RecordedBefore
<1>2. ASSUME NEW w \in Writers, Begin(w) PROVE VersionsStamped' /\ CallsTimed'
  BY <1>0, <1>1, <1>2 DEF StampInv, TypeOK, CallsTimed, Begin, Time
<1>3. ASSUME NEW w \in Writers, Commit(w) PROVE VersionsStamped' /\ CallsTimed'
  BY <1>3, CommitStamps
<1>4. ASSUME NEW w \in Writers,
             \/ Rollback(w)
             \/ DeadlockVictim(w)
             \/ \E r \in Requests : Refuse(w, r[1], r[2], r[3])
      PROVE  VersionsStamped' /\ CallsTimed'
  BY <1>4, DiscardStamps DEF Rollback, DeadlockVictim, Refuse
<1>5. ASSUME NEW w \in Writers, NEW r \in Requests, NEW t \in Tickets,
             Stamp(w, t, r[1], r[2], r[3])
      PROVE  VersionsStamped' /\ CallsTimed'
  BY <1>0, <1>1, <1>5 DEF StampInv, TypeOK, CallsTimed, Stamp, Time
<1>6. ASSUME NEW w \in Writers, pc[w] \in {"stamped", "waiting"}, Win(w)
      PROVE  VersionsStamped' /\ CallsTimed'
  BY <1>6, WinStamps
<1>7. ASSUME NEW w \in Writers, pc[w] \in {"stamped", "waiting"}, Lose(w)
      PROVE  VersionsStamped' /\ CallsTimed'
  BY <1>0, <1>1, <1>7 DEF StampInv, TypeOK, CallsTimed, Lose, Return, Time
<1>8. ASSUME NEW w \in Writers, pc[w] = "stamped", Block(w)
      PROVE  VersionsStamped' /\ CallsTimed'
  BY <1>0, <1>1, <1>8 DEF StampInv, TypeOK, CallsTimed, Block, Time
<1>9. CASE Tick
  <2>1. CallsTimed'
    BY <1>0, <1>9 DEF StampInv, TypeOK, CallsTimed, Tick, Time, Call
  <2> QED
    BY <1>0, <1>1, <1>9, <2>1 DEF TypeOK, Tick, Time
<1>10. CASE UNCHANGED vars
  BY <1>0, <1>1, <1>10 DEF StampInv, TypeOK, CallsTimed, vars, Time
<1> QED
  BY <1>2, <1>3, <1>4, <1>5, <1>6, <1>7, <1>8, <1>9, <1>10 DEF Next, Update, Wake

LEMMA StampInvariant == Spec => []StampInv
<1> QED
  BY StampInit, StampStep, PTL DEF Spec

(* The stamps of every committed row agree with its state, with the audit trail
   and with the clock, although apply_transition takes them from two clocks: `now'
   of the application and created_at of the database. *)
THEOREM StampsAgreeWithAudit == Spec => []StampsMatchAudit
<1>1. StampInv => StampsMatchAudit
  BY DEF StampInv, VersionsStamped, Stamped, RecordedBefore, StampsMatchAudit
<1> QED
  BY <1>1, StampInvariant, PTL
=============================================================================
