------------------------- MODULE TicketTransitions --------------------------
(***************************************************************************)
(* apply_transition of app/domain/ticketing/transitions.py, run by several *)
(* writers (request handlers, Celery tasks, sweeps) at the same time, each *)
(* inside a transaction that with_tenant or get_db opened.                 *)
(*                                                                         *)
(* The call checks the whitelist, reads the application clock, sends       *)
(*   UPDATE ticket SET ... WHERE id = :id AND state = :expected            *)
(* and, when exactly one row changed, adds a ticket_event to the session.  *)
(* Postgres runs the UPDATE at READ COMMITTED: the WHERE clause is         *)
(* evaluated on the committed row (or on the writer's own version of it);  *)
(* when it matches a row another transaction has updated, the statement    *)
(* waits for that transaction to end and evaluates WHERE again.            *)
(***************************************************************************)
EXTENDS TicketWorkflow

CONSTANTS Tickets,    \* ticket ids
          Writers,    \* sessions that may call apply_transition
          NoWriter,   \* the holder of a row that is not locked
          Null,       \* SQL NULL, and the absence of a call
          Requests,   \* <<from, to, actor>>: what the callers ask for
          MaxClock,   \* bound: the last instant of the clock
          MaxCalls    \* bound: calls of apply_transition in a behaviour

ASSUME BoundsAssumption == MaxClock \in Nat /\ MaxCalls \in Nat
ASSUME NoWriterAssumption == NoWriter \notin Writers
ASSUME NullAssumption == Null \notin Nat
ASSUME RequestsAssumption == Requests \subseteq TicketState \X TicketState \X Actor

VARIABLES row,      \* row[t]: the committed version of ticket t
          audit,    \* audit[t]: committed ticket_event rows, in commit order
          holder,   \* holder[t]: the writer whose transaction updated t
          dirty,    \* dirty[t]: the holder's uncommitted version of t
          pending,  \* pending[t]: the holder's uncommitted events of t
          pc,       \* pc[w]: where writer w is
          began,    \* began[w]: start time of w's transaction
          call,     \* call[w]: the arguments of w's call, with its `now'
          calls,    \* calls made so far
          clock     \* the time, the same for the application and the database

vars == <<row, audit, holder, dirty, pending, pc, began, call, calls, clock>>

Time == 0..MaxClock

Row == [state : TicketState, updated_at : Time,
        resolved_at : Time \cup {Null}, closed_at : Time \cup {Null}]

Call == [ticket : Tickets, to : TicketState, actor : Actor,
         expected : TicketState, now : Time]

NewTicket == [state |-> "new", updated_at |-> 0,
              resolved_at |-> Null, closed_at |-> Null]

Init ==
    /\ row = [t \in Tickets |-> NewTicket]
    /\ audit = [t \in Tickets |-> <<>>]
    /\ holder = [t \in Tickets |-> NoWriter]
    /\ dirty = row
    /\ pending = [t \in Tickets |-> <<>>]
    /\ pc = [w \in Writers |-> "idle"]
    /\ began = [w \in Writers |-> Null]
    /\ call = [w \in Writers |-> Null]
    /\ calls = 0
    /\ clock = 0

-----------------------------------------------------------------------------
(* The transaction around the calls. *)

Begin(w) ==
    /\ pc[w] = "idle"
    /\ pc' = [pc EXCEPT ![w] = "open"]
    /\ began' = [began EXCEPT ![w] = clock]
    /\ UNCHANGED <<row, audit, holder, dirty, pending, call, calls, clock>>

Mine(w) == {t \in Tickets : holder[t] = w}

(* Leaving the transaction block releases the row locks w holds. *)
EndTransaction(w) ==
    /\ holder' = [t \in Tickets |-> IF t \in Mine(w) THEN NoWriter
                                                     ELSE holder[t]]
    /\ pending' = [t \in Tickets |-> IF t \in Mine(w) THEN <<>>
                                                      ELSE pending[t]]
    /\ pc' = [pc EXCEPT ![w] = "idle"]
    /\ began' = [began EXCEPT ![w] = Null]
    /\ call' = [call EXCEPT ![w] = Null]
    /\ UNCHANGED <<calls, clock>>

(* COMMIT publishes the row versions and, flushed with it, the events. *)
Commit(w) ==
    /\ pc[w] = "open"
    /\ row' = [t \in Tickets |-> IF t \in Mine(w) THEN dirty[t] ELSE row[t]]
    /\ audit' = [t \in Tickets |-> IF t \in Mine(w)
                                     THEN audit[t] \o pending[t]
                                     ELSE audit[t]]
    /\ dirty' = dirty
    /\ EndTransaction(w)

(* Mutant: events are written in a transaction of their own, which stays. *)
Discard_KeepsEvents(w) ==
    /\ dirty' = [t \in Tickets |-> IF t \in Mine(w) THEN row[t] ELSE dirty[t]]
    /\ audit' = [t \in Tickets |-> IF t \in Mine(w)
                                     THEN audit[t] \o pending[t]
                                     ELSE audit[t]]
    /\ row' = row
    /\ EndTransaction(w)

(* Rolled back: of every row w updated, version and events are gone. *)
Discard(w) ==
    /\ dirty' = [t \in Tickets |-> IF t \in Mine(w) THEN row[t] ELSE dirty[t]]
    /\ UNCHANGED <<row, audit>>
    /\ EndTransaction(w)

(* An exception in the caller, a failed flush, a cancelled task or a dead
   process: at any point of the transaction Postgres rolls it back. *)
Rollback(w) ==
    /\ pc[w] # "idle"
    /\ Discard(w)

(* A set of writers each waiting for a row held by a member of the set. *)
Deadlocked(S) ==
    \A w \in S : pc[w] = "waiting" /\ holder[call[w].ticket] \in S

(* Postgres breaks a cycle of waiting transactions by aborting one of them. *)
DeadlockVictim(w) ==
    /\ \E S \in SUBSET Writers : w \in S /\ Deadlocked(S)
    /\ Discard(w)

-----------------------------------------------------------------------------
(* One call of apply_transition. *)

(* Mutant: the whitelist is not consulted. *)
AssertAllowed_Off(from, to, actor) == TRUE

AssertAllowed(from, to, actor) == IsAllowed(from, to, actor)

(* assert_allowed passed and `now' was read; the UPDATE is not sent yet. *)
Stamp(w, t, expected, to, actor) ==
    /\ pc[w] = "open"
    /\ calls < MaxCalls
    /\ AssertAllowed(expected, to, actor)
    /\ call' = [call EXCEPT ![w] = [ticket |-> t, to |-> to, actor |-> actor,
                                    expected |-> expected, now |-> clock]]
    /\ pc' = [pc EXCEPT ![w] = "stamped"]
    /\ calls' = calls + 1
    /\ UNCHANGED <<row, audit, holder, dirty, pending, began, clock>>

(* assert_allowed raised TransitionNotAllowed, which leaves the block. *)
Refuse(w, expected, to, actor) ==
    /\ pc[w] = "open"
    /\ ~AssertAllowed(expected, to, actor)
    /\ Discard(w)

(* Mutant: the UPDATE has no AND state = :expected. *)
Visible_Unguarded(w, t) == call[w].expected

(* The state the UPDATE of w compares with `expected'. *)
Visible(w, t) == IF holder[t] = w THEN dirty[t].state ELSE row[t].state

(* Mutant: closing a ticket does not stamp closed_at. *)
NewVersion_NoClosedAt(r, c) ==
    [r EXCEPT !.state = c.to,
              !.updated_at = c.now,
              !.resolved_at = IF c.to = "resolved" THEN c.now ELSE @]

NewVersion(r, c) ==
    [r EXCEPT !.state = c.to,
              !.updated_at = c.now,
              !.resolved_at = IF c.to = "resolved" THEN c.now ELSE @,
              !.closed_at = IF c.to = "closed" THEN c.now ELSE @]

(* Mutant: the event has its ends the wrong way round. *)
NewEvent_Swapped(w) ==
    [from |-> call[w].to, to |-> call[w].expected,
     actor |-> call[w].actor, at |-> began[w]]

(* Mutant: created_at has no server default. *)
NewEvent_Undated(w) ==
    [from |-> call[w].expected, to |-> call[w].to,
     actor |-> call[w].actor, at |-> Null]

NewEvent(w) ==
    [from |-> call[w].expected, to |-> call[w].to,
     actor |-> call[w].actor, at |-> began[w]]

Return(w) ==
    /\ pc' = [pc EXCEPT ![w] = "open"]
    /\ call' = [call EXCEPT ![w] = Null]
    /\ UNCHANGED <<row, audit, began, calls, clock>>

(* rowcount = 1: the row is now locked by w and the event is in its session. *)
Win(w) ==
    LET t == call[w].ticket
    IN  /\ Visible(w, t) = call[w].expected
        /\ holder[t] \in {NoWriter, w}
        /\ holder' = [holder EXCEPT ![t] = w]
        /\ dirty' = [dirty EXCEPT ![t] = NewVersion(@, call[w])]
        /\ pending' = [pending EXCEPT ![t] = Append(@, NewEvent(w))]
        /\ Return(w)

(* rowcount = 0: someone already moved the ticket. *)
Lose(w) ==
    /\ Visible(w, call[w].ticket) # call[w].expected
    /\ UNCHANGED <<holder, dirty, pending>>
    /\ Return(w)

(* WHERE matched a row version that another transaction is replacing. *)
Block(w) ==
    /\ Visible(w, call[w].ticket) = call[w].expected
    /\ holder[call[w].ticket] \notin {NoWriter, w}
    /\ pc' = [pc EXCEPT ![w] = "waiting"]
    /\ UNCHANGED <<row, audit, holder, dirty, pending, began, call, calls,
                   clock>>

Update(w) ==
    /\ pc[w] = "stamped"
    /\ \/ Win(w)
       \/ Lose(w)
       \/ Block(w)

(* The holder ended: WHERE is evaluated again on the latest version. *)
Wake(w) ==
    /\ pc[w] = "waiting"
    /\ holder[call[w].ticket] = NoWriter
    /\ \/ Win(w)
       \/ Lose(w)

Tick ==
    /\ clock < MaxClock
    /\ clock' = clock + 1
    /\ UNCHANGED <<row, audit, holder, dirty, pending, pc, began, call, calls>>

-----------------------------------------------------------------------------
Next ==
    \/ \E w \in Writers :
          \/ Begin(w)
          \/ Commit(w)
          \/ Rollback(w)
          \/ DeadlockVictim(w)
          \/ Update(w)
          \/ Wake(w)
          \/ \E r \in Requests :
                \/ Refuse(w, r[1], r[2], r[3])
                \/ \E t \in Tickets : Stamp(w, t, r[1], r[2], r[3])
    \/ Tick

Spec == Init /\ [][Next]_vars

-----------------------------------------------------------------------------
(* The shape of every variable. *)
TypeOK ==
    /\ row \in [Tickets -> Row]
    /\ dirty \in [Tickets -> Row]
    /\ audit \in [Tickets -> Seq(Event(Time))]
    /\ pending \in [Tickets -> Seq(Event(Time))]
    /\ holder \in [Tickets -> Writers \cup {NoWriter}]
    /\ pc \in [Writers -> {"idle", "open", "stamped", "waiting"}]
    /\ began \in [Writers -> Time \cup {Null}]
    /\ call \in [Writers -> Call \cup {Null}]
    /\ calls \in 0..MaxCalls
    /\ clock \in Time
    /\ \A w \in Writers : pc[w] # "idle" => began[w] \in Time
    /\ \A w \in Writers : pc[w] \in {"stamped", "waiting"} => call[w] \in Call

(* The audit trail replays: read in commit order, the events of a ticket lead
   from "new" to its committed state without a gap, and each is an edge the
   whitelist grants its actor (apply_transition adds the event if and only if
   its UPDATE changed the row). *)
AuditReplays ==
    \A t \in Tickets : /\ Path(audit[t], "new", row[t].state)
                       /\ Legal(audit[t])

(* Two writers never both win: when two committed transitions left the same
   state, the ticket came back to that state in between. *)
NeverBothWin ==
    \A t \in Tickets : \A i, j \in 1..Len(audit[t]) :
        i < j /\ audit[t][i].from = audit[t][j].from
            => \E k \in i..(j - 1) : audit[t][k].to = audit[t][j].from

(* Once a ticket is escalated the AI does not touch it again before an agent
   has acted on it and it has been reopened, whatever stale calls of the AI
   are still on their way. *)
EscalatedStaysWithHumans ==
    \A t \in Tickets : \A i, j \in 1..Len(audit[t]) :
        i < j /\ audit[t][i].to = "escalated" /\ audit[t][j].actor = "ai"
            => /\ \E k \in i..j : audit[t][k].actor = "agent"
               /\ \E k \in i..j : audit[t][k].to = "reopened"

(* The stamps agree with the state and with the audit trail.  A resolved or
   closed ticket carries the stamps of both steps it went through, and the
   stamp of the last step lies between the created_at of the event that
   records it and the present. *)
StampsMatchAudit ==
    \A t \in Tickets :
        LET r == row[t]
            n == Len(audit[t])
        IN  /\ r.state \in {"resolved", "closed"} => r.resolved_at # Null
            /\ r.state = "resolved" => r.resolved_at = r.updated_at
            /\ r.state = "closed" => r.closed_at = r.updated_at
            /\ n > 0 => audit[t][n].at <= r.updated_at
            /\ r.updated_at <= clock

(* The component implements the lifecycle it promises its readers. *)
Lifecycle == INSTANCE TicketLifecycle
                WITH state <- [t \in Tickets |-> row[t].state],
                     history <- audit
ImplementsLifecycle == Lifecycle!Spec

-----------------------------------------------------------------------------
(***************************************************************************)
(* The inductive invariant behind AuditReplays and ImplementsLifecycle.    *)
(***************************************************************************)

(* A row is locked exactly while it has uncommitted events; an unlocked row
   has no version but the committed one. *)
LocksGuardWrites ==
    \A t \in Tickets : /\ holder[t] = NoWriter => pending[t] = <<>>
                       /\ holder[t] = NoWriter => dirty[t] = row[t]
                       /\ holder[t] # NoWriter => pending[t] # <<>>

(* The uncommitted events lead from the committed to the uncommitted state. *)
PendingReplays ==
    \A t \in Tickets : /\ Path(pending[t], row[t].state, dirty[t].state)
                       /\ Legal(pending[t])

(* A call that is on its way passed assert_allowed. *)
CallsAllowed ==
    \A w \in Writers : pc[w] \in {"stamped", "waiting"}
        => IsAllowed(call[w].expected, call[w].to, call[w].actor)

AuditInv ==
    TypeOK /\ LocksGuardWrites /\ PendingReplays /\ CallsAllowed /\ AuditReplays
=============================================================================
