-------------------------- MODULE IncidentDispatch ---------------------------
(***************************************************************************)
(* The deduplicating dispatch of security incidents to ticket systems:     *)
(* evaluate_and_dispatch and _dispatch_to_connector in                     *)
(* backend/app/services/incident_dispatch_service.py.                      *)
(*                                                                         *)
(* Every request handler that raises an alert dispatches on its own, in    *)
(* any process: it looks the fingerprint up in the outbox, calls the       *)
(* ticket system, and commits an outbox row, with an await between each.   *)
(***************************************************************************)
EXTENDS Naturals, Sequences, FiniteSets

CONSTANTS
    Dispatchers,    \* the handlers that may dispatch at the same time
    Connectors,
    Fingerprints,
    OnDuplicate,    \* OnDuplicate[c]: "update" or "skip"
    Window,         \* dedup_window_minutes
    MaxTime,        \* bound on the clock
    MaxTickets,     \* bound on the tickets opened
    MaxNotes,       \* bound on the notes of a ticket
    MaxFaults       \* bound on lost answers and deaths

ASSUME DispatchersAssumption == IsFiniteSet(Dispatchers) /\ Dispatchers # {}
ASSUME PolicyAssumption == OnDuplicate \in [Connectors -> {"update", "skip"}]
ASSUME BoundsAssumption ==
    Window \in Nat /\ MaxTime \in Nat /\ MaxTickets \in Nat /\ MaxNotes \in Nat /\ MaxFaults \in Nat

VARIABLES
    now,
    at,             \* at[d]: where handler d is, and what it has read
    tickets,        \* the tickets in the ticket systems, numbered from 1
    outbox,         \* the committed outbox rows, by the ticket they hold
    created,        \* alert_webhooks.tickets_created
    faults

vars == <<now, at, tickets, outbox, created, faults>>

Idle == [pc |-> "idle"]

TicketNumbers == DOMAIN tickets
Same(k, c, fp) == tickets[k].conn = c /\ tickets[k].fp = fp

Init ==
    /\ now = 0
    /\ at = [d \in Dispatchers |-> Idle]
    /\ tickets = <<>>
    /\ outbox = << >>
    /\ created = [c \in Connectors |-> 0]
    /\ faults = 0

\* An event the policy of connector c lets through reaches it: the connector
\* was loaded by list_webhooks, with its counter.
Begin(d, c, fp) ==
    /\ at[d].pc = "idle"
    /\ at' = [at EXCEPT ![d] = [pc |-> "find", conn |-> c, fp |-> fp, created |-> created[c]]]
    /\ UNCHANGED <<now, tickets, outbox, created, faults>>

\* The rows _find_outbox_in_window selects from.  (For mutation: the window
\* excludes its end.)
InOpenWindow(c, fp) ==
    {k \in DOMAIN outbox : Same(k, c, fp) /\ outbox[k].last + Window > now}

InWindow(c, fp) ==
    {k \in DOMAIN outbox : Same(k, c, fp) /\ outbox[k].last + Window >= now}

Find(d) ==
    LET r == at[d]
        found == InWindow(r.conn, r.fp)
    IN  /\ r.pc = "find"
        /\ \/ /\ found = {}
              /\ at' = [at EXCEPT ![d].pc = "create"]
           \/ /\ found # {} /\ OnDuplicate[r.conn] = "skip"
              /\ at' = [at EXCEPT ![d] = Idle]
           \/ /\ OnDuplicate[r.conn] = "update"
              /\ \E k \in found :
                    /\ \A l \in found : outbox[l].last <= outbox[k].last
                    /\ at' = [at EXCEPT ![d] = [pc |-> "update", ticket |-> k,
                                                count |-> outbox[k].count]]
        /\ UNCHANGED <<now, tickets, outbox, created, faults>>

\* adapter.update_ticket.  (For mutation: the event is counted and the ticket
\* system never told.)
CountEarly(d) ==
    /\ at[d].pc = "update"
    /\ outbox' = [outbox EXCEPT ![at[d].ticket] = [count |-> at[d].count + 1, last |-> now]]
    /\ at' = [at EXCEPT ![d] = Idle]
    /\ UNCHANGED <<now, tickets, created, faults>>

Update(d) ==
    LET k == at[d].ticket
    IN  /\ at[d].pc = "update"
        /\ tickets[k].notes < MaxNotes
        /\ tickets' = [tickets EXCEPT ![k].notes = @ + 1]
        /\ at' = [at EXCEPT ![d].pc = "count"]
        /\ UNCHANGED <<now, outbox, created, faults>>

\* existing.event_count += 1 writes one more than was read.
Count(d) ==
    /\ at[d].pc = "count"
    /\ outbox' = [outbox EXCEPT ![at[d].ticket] = [count |-> at[d].count + 1, last |-> now]]
    /\ at' = [at EXCEPT ![d] = Idle]
    /\ UNCHANGED <<now, tickets, created, faults>>

\* adapter.create_ticket.  (For mutation: its row is forgotten.)
CreateForgotten(d) ==
    /\ at[d].pc = "create"
    /\ Len(tickets) < MaxTickets
    /\ tickets' = Append(tickets,
                    [conn |-> at[d].conn, fp |-> at[d].fp, opened |-> now, notes |-> 0])
    /\ at' = [at EXCEPT ![d] = Idle]
    /\ UNCHANGED <<now, outbox, created, faults>>

Create(d) ==
    /\ at[d].pc = "create"
    /\ Len(tickets) < MaxTickets
    /\ tickets' = Append(tickets,
                    [conn |-> at[d].conn, fp |-> at[d].fp, opened |-> now, notes |-> 0])
    /\ at' = [at EXCEPT ![d] = [pc |-> "store", conn |-> @.conn, created |-> @.created,
                                ticket |-> Len(tickets) + 1]]
    /\ UNCHANGED <<now, outbox, created, faults>>

\* The outbox row and the counter of the connector are committed.
Store(d) ==
    /\ at[d].pc = "store"
    /\ outbox' = [k \in DOMAIN outbox \cup {at[d].ticket} |->
                    IF k = at[d].ticket THEN [count |-> 1, last |-> now] ELSE outbox[k]]
    /\ created' = [created EXCEPT ![at[d].conn] = at[d].created + 1]
    /\ at' = [at EXCEPT ![d] = Idle]
    /\ UNCHANGED <<now, tickets, faults>>

\* The ticket system refuses: last_error is committed, the next connector is
\* tried.
Refuse(d) ==
    /\ at[d].pc \in {"create", "update"}
    /\ at' = [at EXCEPT ![d] = Idle]
    /\ UNCHANGED <<now, tickets, outbox, created, faults>>

\* The answer of the ticket system is lost, the commit fails, or the process
\* dies: what the ticket system did stays done.
Lose(d) ==
    /\ at[d].pc \in {"store", "count"}
    /\ faults < MaxFaults
    /\ faults' = faults + 1
    /\ at' = [at EXCEPT ![d] = Idle]
    /\ UNCHANGED <<now, tickets, outbox, created>>

Tick ==
    /\ now < MaxTime
    /\ now' = now + 1
    /\ UNCHANGED <<at, tickets, outbox, created, faults>>

Dispatch(d) == Find(d) \/ Update(d) \/ Count(d) \/ Create(d) \/ Store(d) \/ Refuse(d) \/ Lose(d)

Next ==
    \/ \E d \in Dispatchers :
        Dispatch(d) \/ \E c \in Connectors, fp \in Fingerprints : Begin(d, c, fp)
    \/ Tick

Spec == Init /\ [][Next]_vars

-----------------------------------------------------------------------------
(* Properties                                                              *)

TypeOK ==
    /\ now \in 0..MaxTime /\ faults \in 0..MaxFaults
    /\ \A d \in Dispatchers : at[d].pc \in {"idle", "find", "update", "count", "create", "store"}
    /\ tickets \in Seq([conn : Connectors, fp : Fingerprints, opened : 0..MaxTime,
                        notes : 0..MaxNotes])
    /\ DOMAIN outbox \subseteq TicketNumbers
    /\ \A k \in DOMAIN outbox : outbox[k] \in [count : Nat \ {0}, last : 0..MaxTime]
    /\ created \in [Connectors -> Nat]

\* However many handlers race and however many answers are lost, the tickets
\* opened for one fingerprint within one window are no more than the handlers
\* that can dispatch at the same time, and one for each lost answer.
\* (_find_outbox_in_window before create_ticket, the row committed after it)
StormBounded ==
    \A c \in Connectors, fp \in Fingerprints, t \in 0..MaxTime :
        Cardinality({k \in TicketNumbers :
                        Same(k, c, fp) /\ tickets[k].opened \in t..(t + Window)})
            <= Cardinality(Dispatchers) + faults

\* Updates may be lost between handlers, never invented: a row counts no more
\* events than its ticket was told of, a connector no more tickets than it has
\* rows.  (event_count and tickets_created, read before the call to the ticket
\* system and written after it)
CountsBounded ==
    /\ \A k \in DOMAIN outbox : outbox[k].count <= 1 + tickets[k].notes
    /\ \A c \in Connectors :
        created[c] <= Cardinality({k \in DOMAIN outbox : tickets[k].conn = c})

\* Every ticket is known to the outbox, or a handler is about to store it, or
\* an answer was lost for it.
Unknown == {k \in TicketNumbers \ DOMAIN outbox :
                ~\E d \in Dispatchers : at[d].pc = "store" /\ at[d].ticket = k}
TicketsKnown == Cardinality(Unknown) <= faults

\* Type correctness, the counters and the tickets together: rows refer to
\* tickets and count no more than these have seen, and no ticket is
\* forgotten but for a lost answer.
IncidentInv == TypeOK /\ CountsBounded /\ TicketsKnown
=============================================================================
