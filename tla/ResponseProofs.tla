--------------------------- MODULE ResponseProofs ---------------------------
(***************************************************************************)
(* Theorems about what answers an event: IncidentDispatch, for any         *)
(* handlers, connectors and fingerprints, and Guardian, for any sessions,  *)
(* findings, severities and agents.                                        *)
(***************************************************************************)
EXTENDS IncidentDispatch, Guardian, FiniteSetTheorems, WellFoundedInduction, TLAPS

----------------------------------------------------------------------------
(* IncidentDispatch: the invariants.                                        *)

Handler ==
    {Idle}
    \cup [pc : {"find", "create"}, conn : Connectors, fp : Fingerprints, created : Nat]
    \cup [pc : {"update", "count"}, ticket : Nat, count : Nat]
    \cup [pc : {"store"}, conn : Connectors, created : Nat, ticket : Nat]

Row == [count : Nat \ {0}, last : 0..MaxTime]

Typed ==
    /\ TypeOK
    /\ at \in [Dispatchers -> Handler]
    /\ outbox \in [DOMAIN outbox -> Row]

\* What handlers have read is no more than what is there now: nothing is
\* removed from the outbox, and no note from a ticket.
Rows(c) == {k \in DOMAIN outbox : tickets[k].conn = c}

Known(d) ==
    /\ at[d].pc \in {"find", "create", "store"} => at[d].created <= Cardinality(Rows(at[d].conn))
    /\ at[d].pc \in {"update", "count"} => at[d].ticket \in DOMAIN outbox
    /\ at[d].pc = "update" => at[d].count <= 1 + tickets[at[d].ticket].notes
    /\ at[d].pc = "count" => at[d].count <= tickets[at[d].ticket].notes
    /\ at[d].pc = "store" => /\ at[d].ticket \in TicketNumbers \ DOMAIN outbox
                             /\ tickets[at[d].ticket].conn = at[d].conn

OwnTickets ==
    \A d, e \in Dispatchers :
        at[d].pc = "store" /\ at[e].pc = "store" /\ at[d].ticket = at[e].ticket => d = e

\* Time has passed since a ticket was opened, and a row's last event came
\* no earlier.
InOrder ==
    /\ \A k \in TicketNumbers : tickets[k].opened <= now
    /\ \A k \in DOMAIN outbox : tickets[k].opened <= outbox[k].last

DispatchInv == Typed /\ (\A d \in Dispatchers : Known(d)) /\ OwnTickets /\ InOrder
                /\ CountsBounded /\ TicketsKnown

\* The tickets of the window that starts at t, those of them that have their
\* row, and the handlers that have found none and not stored their own.
Recent(c, fp, t) == {k \in TicketNumbers : Same(k, c, fp) /\ tickets[k].opened \in t..(t + Window)}
Stored(c, fp, t) == Recent(c, fp, t) \cap DOMAIN outbox
Opening(c, fp, t) ==
    {d \in Dispatchers :
        \/ at[d].pc = "create" /\ at[d].conn = c /\ at[d].fp = fp
        \/ at[d].pc = "store" /\ at[d].ticket \in Recent(c, fp, t)}

\* As long as a ticket opened at t would be found, every handler stands for
\* at most one ticket of the window.
Crowd(c, fp, t) ==
    now <= t + Window =>
        Cardinality(Stored(c, fp, t)) + Cardinality(Opening(c, fp, t)) <= Cardinality(Dispatchers)
Crowded == \A c \in Connectors, fp \in Fingerprints, t \in 0..MaxTime : Crowd(c, fp, t)

\* StormBounded for the windows that are open.
OpenBounded ==
    \A c \in Connectors, fp \in Fingerprints, t \in 0..MaxTime :
        now <= t + Window =>
            Cardinality(Recent(c, fp, t)) <= Cardinality(Dispatchers) + faults

----------------------------------------------------------------------------
(* Type correctness.                                                        *)

LEMMA TicketsFinite ==
  ASSUME Typed
  PROVE  /\ TicketNumbers = 1..Len(tickets) /\ Len(tickets) \in Nat
         /\ \A S \in SUBSET TicketNumbers : IsFiniteSet(S) /\ Cardinality(S) \in Nat
<1>1. TicketNumbers = 1..Len(tickets) /\ Len(tickets) \in Nat
  BY DEF Typed, TypeOK, TicketNumbers
<1>2. IsFiniteSet(TicketNumbers)
  BY <1>1, FS_Interval
<1>3. \A S \in SUBSET TicketNumbers : IsFiniteSet(S) /\ Cardinality(S) \in Nat
  BY <1>2, FS_Subset, FS_CardinalityType
<1>4. QED
  BY <1>1, <1>3

\* What is known of a ticket.
Ticket == [conn : Connectors, fp : Fingerprints, opened : 0..MaxTime, notes : 0..MaxNotes]

LEMMA TicketTyped ==
  ASSUME Typed, NEW k \in TicketNumbers
  PROVE  tickets[k] \in Ticket
<1>1. tickets \in Seq(Ticket)
  BY DEF Typed, TypeOK, Ticket
<1>2. QED
  BY <1>1 DEF TicketNumbers

LEMMA OutboxTyped ==
  ASSUME Typed, NEW k \in DOMAIN outbox
  PROVE  k \in TicketNumbers /\ k \in Nat /\ outbox[k] \in Row
<1>1. k \in TicketNumbers /\ outbox[k] \in Row
  BY DEF Typed, TypeOK
<1>2. QED
  BY <1>1, TicketsFinite

LEMMA HandlersFinite ==
  \A S \in SUBSET Dispatchers :
      IsFiniteSet(S) /\ Cardinality(S) \in Nat /\ Cardinality(S) <= Cardinality(Dispatchers)
BY DispatchersAssumption, FS_Subset, FS_CardinalityType

\* What the steps of a handler leave where they were.
LEMMA HandlerCases ==
  ASSUME Typed, NEW d \in Dispatchers
  PROVE  /\ at[d] \in Handler
         /\ at[d].pc = "find" \/ at[d].pc = "create" =>
              at[d] \in [pc : {"find", "create"}, conn : Connectors, fp : Fingerprints,
                         created : Nat]
         /\ at[d].pc = "update" \/ at[d].pc = "count" =>
              at[d] \in [pc : {"update", "count"}, ticket : Nat, count : Nat]
         /\ at[d].pc = "store" =>
              at[d] \in [pc : {"store"}, conn : Connectors, created : Nat, ticket : Nat]
BY DEF Typed, Handler, Idle

LEMMA StepTyped ==
  ASSUME Typed, NEW d \in Dispatchers, NEW h \in Handler, at' = [at EXCEPT ![d] = h],
         UNCHANGED <<now, tickets, outbox, created>>, faults' \in 0..MaxFaults
  PROVE  Typed'
<1>1. \A e \in Dispatchers :
         at'[e].pc \in {"idle", "find", "update", "count", "create", "store"}
  BY DEF Typed, TypeOK, Handler, Idle
<1>2. QED
  BY <1>1 DEF Typed, TypeOK, TicketNumbers

LEMMA TypedInit == Init => Typed
BY BoundsAssumption DEF Init, Typed, TypeOK, Idle, Handler, TicketNumbers, Row

LEMMA TypedStep ==
  ASSUME Typed, \A d \in Dispatchers : Known(d), [Next]_vars
  PROVE  Typed'
<1> USE BoundsAssumption
<1>a. ASSUME NEW h \in Handler
      PROVE  h.pc \in {"idle", "find", "update", "count", "create", "store"}
  BY <1>a DEF Handler, Idle
<1>1. ASSUME NEW d \in Dispatchers, NEW c \in Connectors, NEW fp \in Fingerprints,
             Begin(d, c, fp)
      PROVE  Typed'
  <2>1. [pc |-> "find", conn |-> c, fp |-> fp, created |-> created[c]] \in Handler
    BY DEF Typed, TypeOK, Handler
  <2>2. QED
    BY <1>1, <2>1, StepTyped DEF Begin, Typed, TypeOK
<1>2. ASSUME NEW d \in Dispatchers, Find(d)
      PROVE  Typed'
  <2>1. at[d].pc = "find"
    BY <1>2 DEF Find
  <2>2. at[d] \in [pc : {"find", "create"}, conn : Connectors, fp : Fingerprints, created : Nat]
    BY <2>1, HandlerCases
  <2>3. CASE at' = [at EXCEPT ![d].pc = "create"]
    <3>1. [at[d] EXCEPT !.pc = "create"] \in Handler
      BY <2>2 DEF Handler
    <3>2. at' = [at EXCEPT ![d] = [at[d] EXCEPT !.pc = "create"]]
      BY <2>3
    <3>3. QED
      BY <1>2, <3>1, <3>2, StepTyped DEF Find, Typed, TypeOK
  <2>4. CASE at' = [at EXCEPT ![d] = Idle]
    BY <1>2, <2>4, StepTyped DEF Find, Typed, TypeOK, Handler
  <2>5. ASSUME NEW k \in DOMAIN outbox,
               at' = [at EXCEPT ![d] = [pc |-> "update", ticket |-> k,
                                        count |-> outbox[k].count]]
        PROVE  Typed'
    <3>1. k \in Nat /\ outbox[k] \in Row
      BY OutboxTyped
    <3>2. outbox[k].count \in Nat
      BY <3>1 DEF Row
    <3>3. [pc |-> "update", ticket |-> k, count |-> outbox[k].count]
            \in [pc : {"update", "count"}, ticket : Nat, count : Nat]
      BY <3>1, <3>2
    <3>4. [pc |-> "update", ticket |-> k, count |-> outbox[k].count] \in Handler
      BY <3>3 DEF Handler
    <3>5. QED
      BY <1>2, <2>5, <3>4, StepTyped DEF Find, Typed, TypeOK
  <2>6. QED
    BY <1>2, <2>3, <2>4, <2>5 DEF Find, InWindow
<1>3. ASSUME NEW d \in Dispatchers, Update(d)
      PROVE  Typed'
  <2>1. at[d].ticket \in TicketNumbers
    BY <1>3 DEF Update, Known, Typed, TypeOK
  <2>2. tickets' \in Seq([conn : Connectors, fp : Fingerprints, opened : 0..MaxTime,
                          notes : 0..MaxNotes])
        /\ DOMAIN tickets' = DOMAIN tickets
    <3>1. tickets \in Seq(Ticket) /\ at[d].ticket \in DOMAIN tickets
      BY <2>1 DEF Typed, TypeOK, TicketNumbers, Ticket
    <3>2. tickets[at[d].ticket] \in Ticket
      BY <3>1
    <3>3. [tickets[at[d].ticket] EXCEPT !.notes = @ + 1] \in Ticket
      BY <1>3, <3>2 DEF Update, Ticket
    <3>4. tickets' = [tickets EXCEPT ![at[d].ticket] =
                        [tickets[at[d].ticket] EXCEPT !.notes = @ + 1]]
      BY <1>3 DEF Update
    <3>5. tickets' \in Seq(Ticket) /\ DOMAIN tickets' = DOMAIN tickets
      BY <3>1, <3>3, <3>4
    <3>6. QED
      BY <3>5 DEF Ticket
  <2>3. [at[d] EXCEPT !.pc = "count"] \in Handler
    BY <1>3, HandlerCases DEF Update, Handler
  <2>4. at' \in [Dispatchers -> Handler]
    BY <1>3, <2>3 DEF Update, Typed
  <2>5. QED
    BY <1>3, <1>a, <2>2, <2>4 DEF Update, Typed, TypeOK, TicketNumbers
<1>4. ASSUME NEW d \in Dispatchers, Count(d)
      PROVE  Typed'
  <2>1. at[d].ticket \in DOMAIN outbox /\ at[d].count \in Nat
    BY <1>4, HandlerCases DEF Count, Known
  <2>2. [count |-> at[d].count + 1, last |-> now] \in Row
    BY <2>1 DEF Row, Typed, TypeOK
  <2>3. outbox' \in [DOMAIN outbox -> Row] /\ DOMAIN outbox' = DOMAIN outbox
    BY <1>4, <2>1, <2>2 DEF Count, Typed
  <2>4. at' \in [Dispatchers -> Handler]
    BY <1>4 DEF Count, Typed, Handler
  <2>5. QED
    BY <1>4, <1>a, <2>3, <2>4 DEF Count, Typed, TypeOK, TicketNumbers, Row
<1>5. ASSUME NEW d \in Dispatchers, Create(d)
      PROVE  Typed'
  <2>1. at[d] \in [pc : {"find", "create"}, conn : Connectors, fp : Fingerprints, created : Nat]
    BY <1>5, HandlerCases DEF Create
  <2>2. tickets' \in Seq([conn : Connectors, fp : Fingerprints, opened : 0..MaxTime,
                          notes : 0..MaxNotes])
        /\ DOMAIN tickets \subseteq DOMAIN tickets'
    <3> DEFINE t == [conn |-> at[d].conn, fp |-> at[d].fp, opened |-> now, notes |-> 0]
    <3>1. now \in 0..MaxTime /\ tickets \in Seq(Ticket)
      BY DEF Typed, TypeOK, Ticket
    <3>2. t \in Ticket
      BY <2>1, <3>1 DEF Ticket
    <3>3. tickets' = Append(tickets, t)
      BY <1>5 DEF Create
    <3> HIDE DEF t
    <3>4. tickets' \in Seq(Ticket) /\ DOMAIN tickets \subseteq DOMAIN tickets'
      BY <3>1, <3>2, <3>3
    <3>5. QED
      BY <3>4 DEF Ticket
  <2>3. [pc |-> "store", conn |-> at[d].conn, created |-> at[d].created,
         ticket |-> Len(tickets) + 1] \in Handler
    BY <2>1, TicketsFinite DEF Handler
  <2>4. at' \in [Dispatchers -> Handler]
    BY <1>5, <2>3 DEF Create, Typed
  <2>5. QED
    BY <1>5, <1>a, <2>2, <2>4 DEF Create, Typed, TypeOK, TicketNumbers
<1>6. ASSUME NEW d \in Dispatchers, Store(d)
      PROVE  Typed'
  <2>1. at[d].ticket \in TicketNumbers /\ at[d].conn \in Connectors /\ at[d].created \in Nat
    BY <1>6, HandlerCases DEF Store, Known
  <2>2. [count |-> 1, last |-> now] \in Row
    BY DEF Row, Typed, TypeOK
  <2>3. outbox' \in [DOMAIN outbox' -> Row] /\ DOMAIN outbox' = DOMAIN outbox \cup {at[d].ticket}
    BY <1>6, <2>2 DEF Store, Typed
  <2>4. at' \in [Dispatchers -> Handler]
    BY <1>6 DEF Store, Typed, Handler
  <2>5. created' \in [Connectors -> Nat]
    BY <1>6, <2>1 DEF Store, Typed, TypeOK
  <2>6. DOMAIN outbox' \subseteq TicketNumbers'
    BY <1>6, <2>1, <2>3 DEF Store, Typed, TypeOK, TicketNumbers
  <2>7. QED
    BY <1>6, <1>a, <2>3, <2>4, <2>5, <2>6 DEF Store, Typed, TypeOK, TicketNumbers, Row
<1>7. ASSUME NEW d \in Dispatchers, Refuse(d) \/ Lose(d)
      PROVE  Typed'
  BY <1>7, StepTyped DEF Refuse, Lose, Handler, Typed, TypeOK
<1>8. CASE Tick \/ UNCHANGED vars
  <2>1. now' \in 0..MaxTime
    BY <1>8 DEF Tick, vars, Typed, TypeOK
  <2>2. UNCHANGED <<at, tickets, outbox, created, faults>>
    BY <1>8 DEF Tick, vars
  <2>3. QED
    BY <2>1, <2>2 DEF Typed, TypeOK, TicketNumbers
<1>9. QED
  BY <1>1, <1>2, <1>3, <1>4, <1>5, <1>6, <1>7, <1>8 DEF Next, Dispatch

----------------------------------------------------------------------------
(* What handlers know.                                                      *)

\* Nothing is taken back: neither time, nor tickets, their notes and their rows.
LEMMA Growth ==
  ASSUME Typed, \A d \in Dispatchers : Known(d), [Next]_vars
  PROVE  /\ now <= now' /\ faults <= faults'
         /\ \A k \in TicketNumbers :
              /\ k \in TicketNumbers' /\ tickets'[k].conn = tickets[k].conn
              /\ tickets'[k].fp = tickets[k].fp /\ tickets'[k].opened = tickets[k].opened
              /\ tickets[k].notes <= tickets'[k].notes
         /\ DOMAIN outbox \subseteq DOMAIN outbox'
<1>a. /\ now \in Nat /\ faults \in Nat /\ DOMAIN outbox \subseteq TicketNumbers
      /\ \A k \in TicketNumbers : tickets[k] \in Ticket
  BY BoundsAssumption, TicketTyped DEF Typed, TypeOK
<1>1. CASE tickets' = tickets
  <2>1. now <= now' /\ faults <= faults' /\ DOMAIN outbox \subseteq DOMAIN outbox'
    <3>1. now' \in {now, now + 1} /\ faults' \in {faults, faults + 1}
      BY DEF Next, Dispatch, Begin, Find, Update, Count, Create, Store, Refuse, Lose, Tick, vars
    <3>2. DOMAIN outbox \subseteq DOMAIN outbox'
      BY <1>a DEF Next, Dispatch, Begin, Find, Update, Count, Create, Store, Refuse, Lose, Tick,
                  vars
    <3>3. QED
      BY <1>a, <3>1, <3>2
  <2>2. \A k \in TicketNumbers : tickets[k].notes \in Nat
    BY <1>a, BoundsAssumption DEF Ticket
  <2>3. QED
    BY <1>1, <2>1, <2>2 DEF TicketNumbers
<1>2. ASSUME NEW d \in Dispatchers, Update(d)
      PROVE  \A k \in TicketNumbers :
              /\ k \in TicketNumbers' /\ tickets'[k].conn = tickets[k].conn
              /\ tickets'[k].fp = tickets[k].fp /\ tickets'[k].opened = tickets[k].opened
              /\ tickets[k].notes <= tickets'[k].notes
  <2>1. at[d].ticket \in TicketNumbers
    BY <1>a, <1>2 DEF Update, Known
  <2>2. TicketNumbers' = TicketNumbers
    BY <1>2 DEF Update, TicketNumbers
  <2>3. \A k \in TicketNumbers : tickets[k] \in Ticket /\ tickets[k].notes \in Nat
    BY <1>a, BoundsAssumption DEF Ticket
  <2>4. ASSUME NEW k \in TicketNumbers
        PROVE  tickets'[k] = IF k = at[d].ticket
                             THEN [tickets[k] EXCEPT !.notes = @ + 1] ELSE tickets[k]
    BY <1>2 DEF Update, TicketNumbers
  <2>5. QED
    <3> SUFFICES ASSUME NEW k \in TicketNumbers
                 PROVE  /\ tickets'[k].conn = tickets[k].conn /\ tickets'[k].fp = tickets[k].fp
                        /\ tickets'[k].opened = tickets[k].opened
                        /\ tickets[k].notes <= tickets'[k].notes
      BY <2>2
    <3>1. CASE k = at[d].ticket
      <4>1. tickets[k] \in Ticket /\ tickets[k].notes \in Nat
        BY <2>3
      <4>2. tickets'[k] = [tickets[k] EXCEPT !.notes = @ + 1]
        BY <2>4, <3>1
      <4>3. tickets'[k].notes = tickets[k].notes + 1
        BY <4>1, <4>2 DEF Ticket
      <4>4. QED
        BY <4>1, <4>2, <4>3 DEF Ticket
    <3>2. CASE k # at[d].ticket
      <4>1. tickets'[k] = tickets[k] /\ tickets[k].notes \in Nat
        BY <2>3, <2>4, <3>2
      <4>2. QED
        BY <4>1
    <3>3. QED
      BY <3>1, <3>2
<1>3. ASSUME NEW d \in Dispatchers, Create(d)
      PROVE  \A k \in TicketNumbers : k \in TicketNumbers' /\ tickets'[k] = tickets[k]
  BY <1>3, TicketsFinite DEF Create, TicketNumbers, Typed, TypeOK
<1>4. \A k \in TicketNumbers : tickets[k].notes \in Nat
  BY <1>a, BoundsAssumption DEF Ticket
<1>5. ASSUME NEW d \in Dispatchers, Update(d) \/ Create(d)
      PROVE  now <= now' /\ faults <= faults' /\ DOMAIN outbox \subseteq DOMAIN outbox'
  BY <1>a, <1>5 DEF Update, Create
<1>6. tickets' = tickets \/ \E d \in Dispatchers : Update(d) \/ Create(d)
  BY DEF Next, Dispatch, Begin, Find, Count, Store, Refuse, Lose, Tick, vars
<1>7. QED
  BY <1>1, <1>2, <1>3, <1>4, <1>5, <1>6

LEMMA RowsGrow ==
  ASSUME Typed, \A d \in Dispatchers : Known(d), [Next]_vars, NEW c
  PROVE  /\ Cardinality(Rows(c)) \in Nat /\ Cardinality(Rows(c)') \in Nat
         /\ Cardinality(Rows(c)) <= Cardinality(Rows(c)')
<1>1. Typed'
  BY TypedStep
<1>2. Rows(c) \subseteq TicketNumbers /\ Rows(c)' \subseteq TicketNumbers'
  BY <1>1 DEF Rows, Typed, TypeOK
<1>3. Rows(c) \subseteq Rows(c)'
  BY Growth DEF Rows, Typed, TypeOK
<1>4. IsFiniteSet(Rows(c)') /\ Cardinality(Rows(c)') \in Nat
  <2>1. TicketNumbers' = 1..Len(tickets') /\ Len(tickets') \in Nat
    BY <1>1 DEF Typed, TypeOK, TicketNumbers
  <2>2. IsFiniteSet(TicketNumbers')
    BY <2>1, FS_Interval
  <2>3. IsFiniteSet(Rows(c)')
    BY <1>2, <2>2, FS_Subset
  <2>4. QED
    BY <2>3, FS_CardinalityType
<1>5. IsFiniteSet(Rows(c)) /\ Cardinality(Rows(c)) \in Nat
  BY <1>2, TicketsFinite
<1>6. QED
  BY <1>3, <1>4, <1>5, FS_Subset

\* A handler that does not move keeps what it knows, unless its ticket gets
\* its row.
LEMMA StillKnown ==
  ASSUME Typed, \A d \in Dispatchers : Known(d), [Next]_vars, NEW e \in Dispatchers,
         at'[e] = at[e], at[e].pc = "store" => at[e].ticket \notin DOMAIN outbox'
  PROVE  Known(e)'
<1>1. ASSUME at[e].pc \in {"find", "create", "store"}
      PROVE  at[e].created <= Cardinality(Rows(at[e].conn)')
  <2>1. at[e].created \in Nat
    BY <1>1, HandlerCases
  <2>2. at[e].created <= Cardinality(Rows(at[e].conn))
    BY <1>1 DEF Known
  <2>3. QED
    BY <2>1, <2>2, RowsGrow
<1>2. ASSUME at[e].pc \in {"update", "count"}
      PROVE  /\ at[e].ticket \in DOMAIN outbox'
             /\ at[e].pc = "update" => at[e].count <= 1 + tickets'[at[e].ticket].notes
             /\ at[e].pc = "count" => at[e].count <= tickets'[at[e].ticket].notes
  <2>1. at[e].ticket \in DOMAIN outbox /\ at[e].ticket \in TicketNumbers /\ at[e].count \in Nat
    BY <1>2, HandlerCases DEF Known, Typed, TypeOK
  <2>2. tickets[at[e].ticket].notes \in Nat
    BY <2>1, TicketTyped, BoundsAssumption DEF Ticket
  <2>3. tickets'[at[e].ticket].notes \in Nat
    <3>1. tickets' \in Seq(Ticket) /\ at[e].ticket \in DOMAIN tickets'
      BY <2>1, Growth, TypedStep DEF Typed, TypeOK, TicketNumbers, Ticket
    <3>2. tickets'[at[e].ticket] \in Ticket
      BY <3>1
    <3>3. QED
      BY <3>2, BoundsAssumption DEF Ticket
  <2>4. tickets[at[e].ticket].notes <= tickets'[at[e].ticket].notes
    BY <2>1, Growth
  <2>5. QED
    BY <1>2, <2>1, <2>2, <2>3, <2>4, Growth DEF Known
<1>3. ASSUME at[e].pc = "store"
      PROVE  /\ at[e].ticket \in TicketNumbers' \ DOMAIN outbox'
             /\ tickets'[at[e].ticket].conn = at[e].conn
  BY <1>3, Growth DEF Known
<1>4. QED
  BY <1>1, <1>2, <1>3 DEF Known

Knows == \A d \in Dispatchers : Known(d)

\* What a step gives the handler that takes it to know.
LEMMA NowKnown ==
  ASSUME Typed, Knows, CountsBounded, [Next]_vars, NEW d \in Dispatchers, at'[d] # at[d]
  PROVE  Known(d)'
<1>a. \A c : /\ Cardinality(Rows(c)) \in Nat /\ Cardinality(Rows(c)') \in Nat
              /\ Cardinality(Rows(c)) <= Cardinality(Rows(c)')
  BY RowsGrow DEF Knows
<1>b. \A k \in DOMAIN outbox : k \in DOMAIN outbox' /\ k \in TicketNumbers
  BY Growth DEF Knows, Typed, TypeOK
<1>1. CASE at'[d] = Idle
  BY <1>1 DEF Known, Idle
<1>2. ASSUME NEW c \in Connectors, NEW fp \in Fingerprints, Begin(d, c, fp)
      PROVE  Known(d)'
  <2>1. at'[d] = [pc |-> "find", conn |-> c, fp |-> fp, created |-> created[c]]
    BY <1>2 DEF Begin, Typed
  <2>2. created[c] <= Cardinality(Rows(c)) /\ created[c] \in Nat
    BY DEF CountsBounded, Rows, Typed, TypeOK
  <2>3. QED
    BY <1>a, <2>1, <2>2 DEF Known
<1>3. ASSUME Find(d)
      PROVE  Known(d)'
  <2>1. CASE at' = [at EXCEPT ![d].pc = "create"]
    <3>1. at[d].created \in Nat /\ at[d].created <= Cardinality(Rows(at[d].conn))
      BY <1>3, HandlerCases DEF Find, Knows, Known
    <3>2. /\ at'[d].pc = "create" /\ at'[d].created = at[d].created
          /\ at'[d].conn = at[d].conn
      BY <1>3, <2>1, HandlerCases DEF Find, Typed
    <3>3. QED
      BY <1>a, <3>1, <3>2 DEF Known
  <2>2. ASSUME NEW k \in InWindow(at[d].conn, at[d].fp),
               at' = [at EXCEPT ![d] = [pc |-> "update", ticket |-> k,
                                        count |-> outbox[k].count]]
        PROVE  Known(d)'
    <3>1. k \in DOMAIN outbox
      BY <2>2 DEF InWindow
    <3>2. outbox[k].count <= 1 + tickets[k].notes
      BY <3>1 DEF CountsBounded
    <3>3. at'[d] = [pc |-> "update", ticket |-> k, count |-> outbox[k].count]
      BY <2>2 DEF Typed
    <3>4. tickets' = tickets /\ outbox' = outbox
      BY <1>3 DEF Find
    <3>5. QED
      BY <3>1, <3>2, <3>3, <3>4 DEF Known
  <2>3. QED
    BY <1>1, <1>3, <2>1, <2>2 DEF Find, Typed
<1>4. ASSUME Update(d)
      PROVE  Known(d)'
  <2>1. /\ at[d].ticket \in DOMAIN outbox /\ at[d].count \in Nat
        /\ at[d].count <= 1 + tickets[at[d].ticket].notes
    BY <1>4, HandlerCases DEF Update, Knows, Known
  <2>2. at'[d].pc = "count" /\ at'[d].ticket = at[d].ticket /\ at'[d].count = at[d].count
    BY <1>4, HandlerCases DEF Update, Typed
  <2>3. tickets[at[d].ticket] \in Ticket
    BY <1>b, <2>1, TicketTyped
  <2>4. tickets'[at[d].ticket].notes = tickets[at[d].ticket].notes + 1
    BY <1>4, <1>b, <2>1, <2>3 DEF Update, TicketNumbers, Ticket
  <2>5. tickets[at[d].ticket].notes \in Nat
    BY <2>3, BoundsAssumption DEF Ticket
  <2>6. QED
    BY <1>b, <2>1, <2>2, <2>4, <2>5 DEF Known
<1>5. ASSUME Create(d)
      PROVE  Known(d)'
  <2>1. at[d].created \in Nat /\ at[d].created <= Cardinality(Rows(at[d].conn))
    BY <1>5, HandlerCases DEF Create, Knows, Known
  <2>2. at'[d] = [pc |-> "store", conn |-> at[d].conn, created |-> at[d].created,
                  ticket |-> Len(tickets) + 1]
    BY <1>5 DEF Create, Typed
  <2>3. /\ Len(tickets) + 1 \in TicketNumbers' /\ Len(tickets) + 1 \notin DOMAIN outbox'
        /\ tickets'[Len(tickets) + 1].conn = at[d].conn
    BY <1>5, TicketsFinite DEF Create, TicketNumbers, Typed, TypeOK
  <2>4. QED
    BY <1>a, <2>1, <2>2, <2>3 DEF Known
<1>6. \/ at'[d] = Idle \/ Find(d) \/ Update(d) \/ Create(d)
      \/ \E c \in Connectors, fp \in Fingerprints : Begin(d, c, fp)
  <2>1. ASSUME NEW e \in Dispatchers, d # e, Dispatch(e)
        PROVE  FALSE
    BY <2>1 DEF Dispatch, Find, Update, Count, Create, Store, Refuse, Lose, Typed
  <2>2. ASSUME NEW e \in Dispatchers, d # e, NEW c \in Connectors, NEW fp \in Fingerprints,
               Begin(e, c, fp)
        PROVE  FALSE
    BY <2>2 DEF Begin, Typed
  <2>3. ASSUME Tick \/ UNCHANGED vars
        PROVE  FALSE
    BY <2>3 DEF Tick, vars
  <2>4. ASSUME Count(d) \/ Store(d) \/ Refuse(d) \/ Lose(d)
        PROVE  at'[d] = Idle
    BY <2>4 DEF Count, Store, Refuse, Lose, Typed
  <2>5. QED
    BY <2>1, <2>2, <2>3, <2>4 DEF Next, Dispatch
<1>7. QED
  BY <1>1, <1>2, <1>3, <1>4, <1>5, <1>6

LEMMA KnownStep ==
  ASSUME Typed, Knows, OwnTickets, CountsBounded, [Next]_vars
  PROVE  Knows' /\ OwnTickets'
<1>1. ASSUME NEW e \in Dispatchers, at'[e] = at[e], at[e].pc = "store"
      PROVE  at[e].ticket \notin DOMAIN outbox'
  <2>1. at[e].ticket \notin DOMAIN outbox
    BY <1>1 DEF Knows, Known
  <2>2. ASSUME NEW d \in Dispatchers, Store(d)
        PROVE  at[e].ticket \notin DOMAIN outbox'
    <3>1. d # e
      BY <1>1, <2>2 DEF Store, Typed, Idle
    <3>2. at[d].ticket # at[e].ticket
      BY <1>1, <2>2, <3>1 DEF Store, OwnTickets
    <3>3. QED
      BY <2>1, <2>2, <3>2 DEF Store
  <2>3. DOMAIN outbox' = DOMAIN outbox \/ \E d \in Dispatchers : Store(d)
    BY DEF Next, Dispatch, Begin, Find, Update, Count, Create, Refuse, Lose, Tick, vars
  <2>4. QED
    BY <2>1, <2>2, <2>3
<1>2. Knows'
  <2>1. \A e \in Dispatchers : Known(e)'
    BY <1>1, NowKnown, StillKnown DEF Knows
  <2>2. QED
    BY <2>1 DEF Knows
<1>3. OwnTickets'
  <2>1. ASSUME NEW d \in Dispatchers, Create(d)
        PROVE  OwnTickets'
    <3>1. at'[d].ticket = Len(tickets) + 1 /\ \A e \in Dispatchers \ {d} : at'[e] = at[e]
      BY <2>1 DEF Create, Typed
    <3>2. \A e \in Dispatchers : at[e].pc = "store" => at[e].ticket # Len(tickets) + 1
      BY TicketsFinite DEF Knows, Known
    <3>3. QED
      BY <3>1, <3>2 DEF OwnTickets
  <2>2. ASSUME ~\E d \in Dispatchers : Create(d), NEW e \in Dispatchers, at'[e].pc = "store"
        PROVE  at'[e] = at[e]
    <3>1. ASSUME NEW d \in Dispatchers, Find(d)
          PROVE  at'[e] = at[e]
      <4>1. at[d] \in [pc : {"find", "create"}, conn : Connectors, fp : Fingerprints,
                        created : Nat]
        BY <3>1, HandlerCases DEF Find
      <4>2. \A f \in Dispatchers \ {d} : at'[f] = at[f]
        BY <3>1 DEF Find, Typed
      <4>3. at'[d].pc \in {"create", "idle", "update"}
        BY <3>1, <4>1 DEF Find, Typed, Idle
      <4>4. QED
        BY <2>2, <4>2, <4>3
    <3>2. ASSUME NEW d \in Dispatchers, Update(d)
          PROVE  at'[e] = at[e]
      <4>1. at'[d].pc = "count" /\ \A f \in Dispatchers \ {d} : at'[f] = at[f]
        BY <3>2, HandlerCases DEF Update, Typed
      <4>2. QED
        BY <2>2, <4>1
    <3>3. ASSUME NEW d \in Dispatchers, Count(d) \/ Store(d) \/ Refuse(d) \/ Lose(d)
          PROVE  at'[e] = at[e]
      BY <2>2, <3>3 DEF Count, Store, Refuse, Lose, Typed, Idle
    <3>4. ASSUME NEW d \in Dispatchers, NEW c \in Connectors, NEW fp \in Fingerprints,
                 Begin(d, c, fp)
          PROVE  at'[e] = at[e]
      BY <2>2, <3>4 DEF Begin, Typed
    <3>5. Tick \/ UNCHANGED vars => at'[e] = at[e]
      BY DEF Tick, vars
    <3>6. QED
      BY <2>2, <3>1, <3>2, <3>3, <3>4, <3>5 DEF Next, Dispatch
  <2>3. QED
    BY <2>1, <2>2 DEF OwnTickets
<1>4. QED
  BY <1>2, <1>3

LEMMA OrderStep ==
  ASSUME Typed, Knows, InOrder, [Next]_vars
  PROVE  InOrder'
<1>1. now \in Nat /\ now' \in Nat /\ now <= now'
  BY Growth, TypedStep, BoundsAssumption DEF Knows, Typed, TypeOK
<1>2. ASSUME NEW k \in TicketNumbers
      PROVE  tickets[k].opened \in Nat /\ tickets'[k].opened = tickets[k].opened
  BY Growth, TicketTyped, BoundsAssumption DEF Knows, Ticket
<1>3. \A k \in TicketNumbers' : tickets'[k].opened <= now'
  <2>1. ASSUME NEW d \in Dispatchers, Create(d), NEW k \in TicketNumbers'
        PROVE  k \in TicketNumbers \/ tickets'[k].opened = now
    BY <2>1, TicketsFinite DEF Create, TicketNumbers, Typed, TypeOK
  <2>2. ASSUME NEW d \in Dispatchers, Update(d)
        PROVE  TicketNumbers' = TicketNumbers
    BY <2>2 DEF Update, TicketNumbers
  <2>3. tickets' = tickets \/ \E d \in Dispatchers : Update(d) \/ Create(d)
    BY DEF Next, Dispatch, Begin, Find, Count, Store, Refuse, Lose, Tick, vars
  <2>4. ASSUME NEW k \in TicketNumbers'
        PROVE  k \in TicketNumbers \/ tickets'[k].opened = now
    BY <2>1, <2>2, <2>3 DEF TicketNumbers
  <2>5. QED
    BY <1>1, <1>2, <2>4 DEF InOrder
<1>4. \A k \in DOMAIN outbox' : tickets'[k].opened <= outbox'[k].last
  <2>1. ASSUME NEW d \in Dispatchers, Count(d) \/ Store(d), NEW k \in DOMAIN outbox'
        PROVE  \/ k = at[d].ticket /\ k \in TicketNumbers /\ outbox'[k].last = now
               \/ k \in DOMAIN outbox /\ outbox'[k] = outbox[k]
    <3>1. at[d].ticket \in TicketNumbers
      BY <2>1 DEF Count, Store, Knows, Known, Typed, TypeOK
    <3>2. CASE k = at[d].ticket
      <4>1. CASE Count(d)
        <5>1. DOMAIN outbox' = DOMAIN outbox
          BY <4>1 DEF Count
        <5>2. outbox'[k] = [count |-> at[d].count + 1, last |-> now]
          BY <2>1, <3>2, <4>1, <5>1 DEF Count
        <5>3. QED
          BY <3>1, <3>2, <5>2
      <4>2. CASE Store(d)
        BY <3>1, <3>2, <4>2 DEF Store
      <4>3. QED
        BY <2>1, <4>1, <4>2
    <3>3. CASE k # at[d].ticket
      BY <2>1, <3>3 DEF Count, Store
    <3>4. QED
      BY <3>2, <3>3
  <2>2. outbox' = outbox \/ \E d \in Dispatchers : Count(d) \/ Store(d)
    BY DEF Next, Dispatch, Begin, Find, Update, Create, Refuse, Lose, Tick, vars
  <2>3. ASSUME NEW k \in DOMAIN outbox'
        PROVE  \/ k \in TicketNumbers /\ outbox'[k].last = now
               \/ k \in DOMAIN outbox /\ outbox'[k] = outbox[k]
    BY <2>1, <2>2
  <2>4. DOMAIN outbox \subseteq TicketNumbers
    BY DEF Typed, TypeOK
  <2>5. QED
    BY <1>2, <2>3, <2>4 DEF InOrder
<1>5. QED
  BY <1>3, <1>4 DEF InOrder

----------------------------------------------------------------------------
(* The counters and the tickets without a row.                              *)

LEMMA CountsStep ==
  ASSUME Typed, Knows, CountsBounded, [Next]_vars
  PROVE  CountsBounded'
<1>1. ASSUME NEW k \in TicketNumbers
      PROVE  /\ tickets[k].notes \in Nat /\ tickets'[k].notes \in Nat
             /\ tickets[k].notes <= tickets'[k].notes
  <2>1. tickets' \in Seq(Ticket) /\ k \in DOMAIN tickets'
    BY <1>1, Growth, TypedStep DEF Knows, Typed, TypeOK, TicketNumbers, Ticket
  <2>2. tickets'[k] \in Ticket
    BY <2>1
  <2>3. QED
    BY <2>2, TicketTyped, Growth, BoundsAssumption DEF Knows, Ticket
<1>2. ASSUME NEW k \in DOMAIN outbox'
      PROVE  outbox'[k].count <= 1 + tickets'[k].notes
  <2>1. CASE k \in DOMAIN outbox /\ outbox'[k] = outbox[k]
    <3>1. outbox[k].count \in Nat /\ outbox[k].count <= 1 + tickets[k].notes
          /\ k \in TicketNumbers
      BY <2>1 DEF CountsBounded, Typed, TypeOK
    <3>2. QED
      BY <1>1, <2>1, <3>1
  <2>2. ASSUME NEW d \in Dispatchers, Count(d), k = at[d].ticket
        PROVE  outbox'[k].count <= 1 + tickets'[k].notes
    <3>1. /\ at[d].count \in Nat /\ at[d].ticket \in DOMAIN outbox
          /\ at[d].count <= tickets[at[d].ticket].notes
      BY <2>2, HandlerCases DEF Count, Knows, Known
    <3>2. outbox'[k].count = at[d].count + 1
      BY <2>2, <3>1 DEF Count
    <3>3. k \in TicketNumbers /\ tickets' = tickets
      BY <2>2, <3>1 DEF Count, Typed, TypeOK
    <3>4. QED
      BY <1>1, <2>2, <3>1, <3>2, <3>3
  <2>3. ASSUME NEW d \in Dispatchers, Store(d), k = at[d].ticket
        PROVE  outbox'[k].count <= 1 + tickets'[k].notes
    <3>1. k \in TicketNumbers
      BY <2>3 DEF Store, Knows, Known
    <3>2. outbox'[k].count = 1
      BY <2>3 DEF Store
    <3>3. QED
      BY <1>1, <3>1, <3>2
  <2>4. ASSUME NEW d \in Dispatchers, Count(d) \/ Store(d), k # at[d].ticket
        PROVE  k \in DOMAIN outbox /\ outbox'[k] = outbox[k]
    BY <2>4 DEF Count, Store
  <2>5. outbox' = outbox \/ \E d \in Dispatchers : Count(d) \/ Store(d)
    BY DEF Next, Dispatch, Begin, Find, Update, Create, Refuse, Lose, Tick, vars
  <2>6. QED
    BY <2>1, <2>2, <2>3, <2>4, <2>5
<1>3. ASSUME NEW c \in Connectors
      PROVE  created'[c] <= Cardinality(Rows(c)')
  <2>1. created[c] \in Nat /\ created[c] <= Cardinality(Rows(c))
    BY DEF CountsBounded, Rows, Typed, TypeOK
  <2>2. /\ Cardinality(Rows(c)) \in Nat /\ Cardinality(Rows(c)') \in Nat
        /\ Cardinality(Rows(c)) <= Cardinality(Rows(c)')
    BY RowsGrow DEF Knows
  <2>3. CASE created'[c] = created[c]
    BY <2>1, <2>2, <2>3
  <2>4. ASSUME NEW d \in Dispatchers, Store(d), c = at[d].conn
        PROVE  created'[c] <= Cardinality(Rows(c)')
    <3>1. /\ at[d].created \in Nat /\ at[d].created <= Cardinality(Rows(c))
          /\ at[d].ticket \in TicketNumbers \ DOMAIN outbox /\ tickets[at[d].ticket].conn = c
      BY <2>4, HandlerCases DEF Store, Knows, Known
    <3>2. created'[c] = at[d].created + 1
      BY <2>4 DEF Store, Typed, TypeOK
    <3>3. Rows(c)' = Rows(c) \cup {at[d].ticket} /\ at[d].ticket \notin Rows(c)
      BY <2>4, <3>1 DEF Store, Rows
    <3>4. IsFiniteSet(Rows(c))
      BY TicketsFinite DEF Rows, Typed, TypeOK
    <3>5. Cardinality(Rows(c)') = Cardinality(Rows(c)) + 1
      BY <3>3, <3>4, FS_AddElement
    <3>6. QED
      BY <2>2, <3>1, <3>2, <3>5
  <2>5. ASSUME NEW d \in Dispatchers, Store(d), c # at[d].conn
        PROVE  created'[c] = created[c]
    BY <2>5 DEF Store, Typed, TypeOK
  <2>6. created' = created \/ \E d \in Dispatchers : Store(d)
    BY DEF Next, Dispatch, Begin, Find, Update, Count, Create, Refuse, Lose, Tick, vars
  <2>7. QED
    BY <2>3, <2>4, <2>5, <2>6
<1>4. QED
  BY <1>2, <1>3 DEF CountsBounded, Rows

\* A ticket is forgotten only with a lost answer.
LEMMA TicketsKnownStep ==
  ASSUME Typed, Knows, TicketsKnown, [Next]_vars
  PROVE  TicketsKnown'
<1>a. /\ Unknown \subseteq TicketNumbers /\ IsFiniteSet(Unknown)
      /\ Cardinality(Unknown) \in Nat /\ faults \in Nat
  BY TicketsFinite, BoundsAssumption DEF Unknown, Typed, TypeOK
<1>1. ASSUME NEW x, Unknown' \subseteq Unknown \cup {x}, faults' = faults + 1
      PROVE  TicketsKnown'
  <2>1. /\ IsFiniteSet(Unknown \cup {x})
        /\ Cardinality(Unknown \cup {x}) <= Cardinality(Unknown) + 1
        /\ Cardinality(Unknown \cup {x}) \in Nat
    <3>1. IsFiniteSet(Unknown \cup {x}) /\ Cardinality(Unknown \cup {x}) =
            IF x \in Unknown THEN Cardinality(Unknown) ELSE Cardinality(Unknown) + 1
      BY <1>a, FS_AddElement
    <3>2. QED
      BY <1>a, <3>1
  <2>2. Cardinality(Unknown') <= Cardinality(Unknown \cup {x}) /\ Cardinality(Unknown') \in Nat
    BY <1>1, <2>1, FS_Subset, FS_CardinalityType
  <2>3. QED
    BY <1>a, <1>1, <2>1, <2>2 DEF TicketsKnown
<1>2. ASSUME Unknown' \subseteq Unknown, faults' = faults
      PROVE  TicketsKnown'
  <2>1. Cardinality(Unknown') <= Cardinality(Unknown) /\ Cardinality(Unknown') \in Nat
    BY <1>a, <1>2, FS_Subset, FS_CardinalityType
  <2>2. QED
    BY <1>a, <1>2, <2>1 DEF TicketsKnown
<1>3. ASSUME NEW d \in Dispatchers, Lose(d)
      PROVE  TicketsKnown'
  <2>1. \A e \in Dispatchers \ {d} : at'[e] = at[e]
    BY <1>3 DEF Lose, Typed
  <2>2. Unknown' \subseteq Unknown \cup {at[d].ticket}
    BY <1>3, <2>1 DEF Lose, Unknown, TicketNumbers
  <2>3. QED
    BY <1>1, <1>3, <2>2 DEF Lose
<1>4. ASSUME NEW d \in Dispatchers, Create(d)
      PROVE  TicketsKnown'
  <2>1. at'[d].pc = "store" /\ at'[d].ticket = Len(tickets) + 1
        /\ \A e \in Dispatchers \ {d} : at'[e] = at[e]
    BY <1>4 DEF Create, Typed
  <2>2. TicketNumbers' = TicketNumbers \cup {Len(tickets) + 1}
    BY <1>4, TicketsFinite DEF Create, TicketNumbers, Typed, TypeOK
  <2>3. at[d].pc # "store" /\ outbox' = outbox /\ faults' = faults
    BY <1>4 DEF Create
  <2>4. Unknown' \subseteq Unknown
    BY <2>1, <2>2, <2>3 DEF Unknown
  <2>5. QED
    BY <1>2, <2>3, <2>4
<1>5. ASSUME NEW d \in Dispatchers, Store(d)
      PROVE  TicketsKnown'
  <2>1. \A e \in Dispatchers \ {d} : at'[e] = at[e]
    BY <1>5 DEF Store, Typed
  <2>2. Unknown' \subseteq Unknown
    BY <1>5, <2>1 DEF Store, Unknown, TicketNumbers
  <2>3. QED
    BY <1>2, <1>5, <2>2 DEF Store
<1>6. ASSUME NEW d \in Dispatchers, at[d].pc # "store", DOMAIN tickets' = DOMAIN tickets,
             DOMAIN outbox' = DOMAIN outbox, faults' = faults,
             \A e \in Dispatchers \ {d} : at'[e] = at[e]
      PROVE  TicketsKnown'
  <2>1. Unknown' \subseteq Unknown
    BY <1>6 DEF Unknown, TicketNumbers
  <2>2. QED
    BY <1>2, <1>6, <2>1
<1>7. ASSUME NEW d \in Dispatchers, Find(d) \/ Update(d) \/ Count(d) \/ Refuse(d)
      PROVE  TicketsKnown'
  BY <1>6, <1>7 DEF Find, Update, Count, Refuse, Typed
<1>8. ASSUME NEW d \in Dispatchers, NEW c \in Connectors, NEW fp \in Fingerprints,
             Begin(d, c, fp)
      PROVE  TicketsKnown'
  BY <1>6, <1>8 DEF Begin, Typed
<1>9. CASE Tick \/ UNCHANGED vars
  <2>1. Unknown' = Unknown /\ faults' = faults
    BY <1>9 DEF Tick, vars, Unknown, TicketNumbers
  <2>2. QED
    BY <1>2, <2>1
<1>10. QED
  BY <1>3, <1>4, <1>5, <1>7, <1>8, <1>9 DEF Next, Dispatch

LEMMA DispatchInit == Init => DispatchInv
<1> SUFFICES ASSUME Init PROVE DispatchInv
  OBVIOUS
<1>1. Typed
  BY TypedInit
<1>2. \A d \in Dispatchers : Known(d) /\ at[d].pc # "store"
  BY DEF Init, Known, Idle
<1>3. TicketNumbers = {} /\ DOMAIN outbox = {} /\ faults = 0
  BY DEF Init, TicketNumbers
<1>4. CountsBounded
  <2>1. \A c \in Connectors : {k \in DOMAIN outbox : tickets[k].conn = c} = {}
    BY <1>3
  <2>2. \A c \in Connectors : created[c] = 0
    BY DEF Init
  <2>3. QED
    BY <1>3, <2>1, <2>2, FS_EmptySet DEF CountsBounded
<1>5. TicketsKnown
  BY <1>3, FS_EmptySet DEF TicketsKnown, Unknown
<1>6. QED
  BY <1>1, <1>2, <1>3, <1>4, <1>5 DEF DispatchInv, OwnTickets, InOrder

LEMMA DispatchStep == DispatchInv /\ [Next]_vars => DispatchInv'
<1> SUFFICES ASSUME DispatchInv, [Next]_vars PROVE DispatchInv'
  OBVIOUS
<1> USE DEF DispatchInv, Knows
<1>1. Typed'
  BY TypedStep
<1>2. Knows' /\ OwnTickets'
  BY KnownStep
<1>3. InOrder' /\ CountsBounded' /\ TicketsKnown'
  BY OrderStep, CountsStep, TicketsKnownStep
<1>4. QED
  BY <1>1, <1>2, <1>3

\* DispatchInv is an inductive invariant.
THEOREM DispatchInvHolds == Spec => []DispatchInv
BY DispatchInit, DispatchStep, PTL DEF Spec

\* The outbox counts no more events than its tickets were told of, a connector
\* no more tickets than it has rows, and every ticket without a row is about
\* to get one or cost a lost answer.
THEOREM IncidentInvHolds == Spec => []IncidentInv
<1>1. DispatchInv => IncidentInv
  BY DEF DispatchInv, Typed, IncidentInv
<1>2. QED
  BY <1>1, DispatchInvHolds, PTL

----------------------------------------------------------------------------
(* A burst.                                                                 *)

\* Two sums of sizes of finite sets.
LEMMA SumsShrink ==
  ASSUME NEW A, NEW B, NEW C, NEW D, NEW n \in Nat, IsFiniteSet(A), IsFiniteSet(B),
         C \subseteq A, D \subseteq B, Cardinality(A) + Cardinality(B) <= n
  PROVE  Cardinality(C) + Cardinality(D) <= n
<1>1. /\ Cardinality(A) \in Nat /\ Cardinality(B) \in Nat
      /\ Cardinality(C) \in Nat /\ Cardinality(D) \in Nat
  BY FS_Subset, FS_CardinalityType
<1>2. Cardinality(C) <= Cardinality(A) /\ Cardinality(D) <= Cardinality(B)
  BY FS_Subset
<1>3. QED
  BY <1>1, <1>2

LEMMA UnionSize ==
  ASSUME NEW A, NEW B, IsFiniteSet(A), IsFiniteSet(B)
  PROVE  /\ IsFiniteSet(A \cup B) /\ Cardinality(A \cup B) \in Nat
         /\ Cardinality(A \cup B) <= Cardinality(A) + Cardinality(B)
<1>1. IsFiniteSet(A \cap B) /\ IsFiniteSet(A \cup B)
  BY FS_Intersection, FS_Union, Zenon
<1>2. Cardinality(A \cup B) = Cardinality(A) + Cardinality(B) - Cardinality(A \cap B)
  BY FS_Union, Zenon
<1>3. /\ Cardinality(A) \in Nat /\ Cardinality(B) \in Nat /\ Cardinality(A \cap B) \in Nat
      /\ Cardinality(A \cup B) \in Nat
  BY <1>1, FS_CardinalityType, Zenon
<1>4. QED
  BY <1>1, <1>2, <1>3

LEMMA SumsMove ==
  ASSUME NEW A, NEW B, NEW C, NEW D, NEW K, NEW d, NEW n \in Nat,
         IsFiniteSet(A), IsFiniteSet(B), IsFiniteSet(K), Cardinality(K) = 1,
         C \subseteq A \cup K, d \in B, D \subseteq B \ {d},
         Cardinality(A) + Cardinality(B) <= n
  PROVE  Cardinality(C) + Cardinality(D) <= n
<1>1. Cardinality(A) \in Nat /\ Cardinality(B) \in Nat
  BY FS_CardinalityType
<1>2. IsFiniteSet(A \cup K) /\ Cardinality(A \cup K) <= Cardinality(A) + 1
  BY UnionSize
<1>3. IsFiniteSet(B \ {d}) /\ Cardinality(B \ {d}) = Cardinality(B) - 1
  BY FS_RemoveElement
<1>4. /\ Cardinality(C) \in Nat /\ Cardinality(C) <= Cardinality(A \cup K)
      /\ Cardinality(D) \in Nat /\ Cardinality(D) <= Cardinality(B \ {d})
      /\ Cardinality(A \cup K) \in Nat
  BY <1>2, <1>3, FS_Subset, FS_CardinalityType
<1>5. QED
  BY <1>1, <1>2, <1>3, <1>4

LEMMA BurstFinite ==
  ASSUME Typed, NEW c, NEW fp, NEW t
  PROVE  /\ IsFiniteSet(Recent(c, fp, t)) /\ IsFiniteSet(Stored(c, fp, t))
         /\ Recent(c, fp, t) \subseteq TicketNumbers
         /\ Opening(c, fp, t) \subseteq Dispatchers /\ IsFiniteSet(Opening(c, fp, t))
<1>1. /\ Recent(c, fp, t) \subseteq TicketNumbers /\ Stored(c, fp, t) \subseteq TicketNumbers
      /\ Opening(c, fp, t) \subseteq Dispatchers
  BY DEF Recent, Stored, Opening
<1>2. QED
  BY <1>1, TicketsFinite, HandlersFinite

\* What a step does to the tickets of a window.
LEMMA RecentFixed ==
  ASSUME Typed, Knows, [Next]_vars, NEW c, NEW fp, NEW t
  PROVE  Recent(c, fp, t) = Recent(c, fp, t)' \cap TicketNumbers
BY Growth DEF Knows, Recent, Same

\* A handler that finds no row leaves no window with one that is still open.
LEMMA NoneFound ==
  ASSUME DispatchInv, NEW c, NEW fp, NEW t \in 0..MaxTime, InWindow(c, fp) = {},
         now <= t + Window
  PROVE  Stored(c, fp, t) = {}
<1> SUFFICES ASSUME NEW k \in Stored(c, fp, t)
             PROVE  FALSE
  OBVIOUS
<1>1. /\ k \in TicketNumbers /\ k \in DOMAIN outbox /\ Same(k, c, fp)
      /\ t <= tickets[k].opened
  BY DEF Stored, Recent
<1>2. /\ tickets[k].opened \in Nat /\ outbox[k].last \in Nat /\ now \in Nat
      /\ tickets[k].opened <= outbox[k].last
  <2>1. tickets[k] \in Ticket /\ outbox[k].last \in Nat /\ now \in Nat
    BY <1>1, TicketTyped, BoundsAssumption DEF DispatchInv, Typed, TypeOK
  <2>2. tickets[k].opened <= outbox[k].last
    BY <1>1 DEF DispatchInv, InOrder
  <2>3. QED
    BY <2>1, <2>2, BoundsAssumption DEF Ticket
<1>3. t + Window <= outbox[k].last + Window
  BY <1>1, <1>2, BoundsAssumption
<1>4. now <= outbox[k].last + Window
  BY <1>2, <1>3, BoundsAssumption
<1>5. k \in InWindow(c, fp)
  BY <1>1, <1>2, <1>4, BoundsAssumption DEF InWindow
<1>6. QED
  BY <1>5

LEMMA CrowdInit ==
  ASSUME Init, NEW c, NEW fp, NEW t
  PROVE  Crowd(c, fp, t)
<1>1. Stored(c, fp, t) = {} /\ Opening(c, fp, t) = {}
  BY DEF Init, Stored, Recent, Opening, TicketNumbers, Idle
<1>2. QED
  BY <1>1, FS_EmptySet, HandlersFinite DEF Crowd

LEMMA CrowdStep ==
  ASSUME DispatchInv, [Next]_vars, NEW c \in Connectors, NEW fp \in Fingerprints,
         NEW t \in 0..MaxTime, Crowd(c, fp, t), now' <= t + Window
  PROVE  Cardinality(Stored(c, fp, t)') + Cardinality(Opening(c, fp, t)')
           <= Cardinality(Dispatchers)
<1> USE DEF DispatchInv, Knows
<1>a. Typed'
  BY TypedStep
<1>b. now <= t + Window
  BY Growth, <1>a, BoundsAssumption DEF Typed, TypeOK
<1>c. /\ IsFiniteSet(Stored(c, fp, t)) /\ IsFiniteSet(Opening(c, fp, t))
      /\ Cardinality(Dispatchers) \in Nat
      /\ Cardinality(Stored(c, fp, t)) + Cardinality(Opening(c, fp, t)) <= Cardinality(Dispatchers)
  BY <1>b, BurstFinite, HandlersFinite DEF Crowd
<1>d. Recent(c, fp, t) = Recent(c, fp, t)' \cap TicketNumbers
  BY RecentFixed
<1>e. \A d \in Dispatchers : at[d].pc = "store" => at[d].ticket \in TicketNumbers \ DOMAIN outbox
  BY DEF Known
<1>f. DOMAIN outbox \subseteq TicketNumbers
  BY DEF Typed, TypeOK
<1>1. CASE DOMAIN outbox' = DOMAIN outbox /\ Opening(c, fp, t)' \subseteq Opening(c, fp, t)
  <2>1. Stored(c, fp, t)' \subseteq Stored(c, fp, t)
    BY <1>1, <1>d, <1>f DEF Stored
  <2>2. QED
    BY <1>1, <1>c, <2>1, SumsShrink
<1>2. ASSUME NEW d \in Dispatchers, \A e \in Dispatchers \ {d} : at'[e] = at[e],
             at'[d].pc \notin {"create", "store"}
      PROVE  Opening(c, fp, t)' \subseteq Opening(c, fp, t) \ {d}
  BY <1>2, <1>d, <1>e DEF Opening
<1>3. ASSUME NEW d \in Dispatchers, Find(d), at'[d].pc = "create"
      PROVE  Cardinality(Stored(c, fp, t)') + Cardinality(Opening(c, fp, t)')
               <= Cardinality(Dispatchers)
  <2>1. at[d] \in [pc : {"find", "create"}, conn : Connectors, fp : Fingerprints, created : Nat]
    BY <1>3, HandlerCases DEF Find
  <2>2. /\ InWindow(at[d].conn, at[d].fp) = {} /\ tickets' = tickets /\ outbox' = outbox
        /\ at' = [at EXCEPT ![d].pc = "create"]
    BY <1>3 DEF Find, Typed, Idle
  <2>3. /\ \A e \in Dispatchers \ {d} : at'[e] = at[e]
        /\ at'[d].conn = at[d].conn /\ at'[d].fp = at[d].fp
    BY <2>1, <2>2 DEF Typed
  <2>4. CASE at[d].conn = c /\ at[d].fp = fp
    <3>1. Stored(c, fp, t)' = {}
      <4>1. Stored(c, fp, t) = {}
        BY <1>b, <2>2, <2>4, NoneFound
      <4>2. QED
        BY <2>2, <4>1 DEF Stored, Recent, Same, TicketNumbers
    <3>2. Opening(c, fp, t)' \subseteq Dispatchers
      BY DEF Opening
    <3>3. /\ Cardinality(Opening(c, fp, t)') <= Cardinality(Dispatchers)
          /\ Cardinality(Opening(c, fp, t)') \in Nat
      BY <3>2, HandlersFinite
    <3>4. QED
      BY <1>c, <3>1, <3>3, FS_EmptySet
  <2>5. CASE ~(at[d].conn = c /\ at[d].fp = fp)
    <3>1. Opening(c, fp, t)' \subseteq Opening(c, fp, t)
      BY <1>3, <1>d, <1>e, <2>3, <2>5 DEF Opening
    <3>2. QED
      BY <1>1, <2>2, <3>1
  <2>6. QED
    BY <2>4, <2>5
<1>4. ASSUME NEW d \in Dispatchers, Find(d), at'[d].pc # "create"
      PROVE  Cardinality(Stored(c, fp, t)') + Cardinality(Opening(c, fp, t)')
               <= Cardinality(Dispatchers)
  <2>1. at'[d].pc \in {"idle", "update"} /\ \A e \in Dispatchers \ {d} : at'[e] = at[e]
    BY <1>4, HandlerCases DEF Find, Typed, Idle
  <2>2. QED
    BY <1>1, <1>2, <1>4, <2>1 DEF Find
<1>5. ASSUME NEW d \in Dispatchers, Create(d)
      PROVE  Cardinality(Stored(c, fp, t)') + Cardinality(Opening(c, fp, t)')
               <= Cardinality(Dispatchers)
  <2>1. /\ at'[d].pc = "store" /\ at'[d].ticket = Len(tickets) + 1
        /\ \A e \in Dispatchers \ {d} : at'[e] = at[e]
    BY <1>5 DEF Create, Typed
  <2>2. /\ tickets'[Len(tickets) + 1].conn = at[d].conn /\ tickets'[Len(tickets) + 1].fp = at[d].fp
        /\ outbox' = outbox
    BY <1>5, TicketsFinite DEF Create, Typed, TypeOK
  <2>3. at'[d].ticket \in Recent(c, fp, t)' => at[d].conn = c /\ at[d].fp = fp
    BY <2>1, <2>2 DEF Recent, Same
  <2>4. Opening(c, fp, t)' \subseteq Opening(c, fp, t)
    BY <1>5, <1>d, <1>e, <2>1, <2>3 DEF Opening, Create
  <2>5. QED
    BY <1>1, <2>2, <2>4
<1>6. ASSUME NEW d \in Dispatchers, Store(d)
      PROVE  Cardinality(Stored(c, fp, t)') + Cardinality(Opening(c, fp, t)')
               <= Cardinality(Dispatchers)
  <2>1. /\ at'[d].pc = "idle" /\ \A e \in Dispatchers \ {d} : at'[e] = at[e]
        /\ DOMAIN outbox' = DOMAIN outbox \cup {at[d].ticket} /\ tickets' = tickets
    BY <1>6 DEF Store, Typed, Idle
  <2>2. Opening(c, fp, t)' \subseteq Opening(c, fp, t) \ {d}
    BY <1>2, <2>1
  <2>3. Recent(c, fp, t)' = Recent(c, fp, t)
    BY <2>1 DEF Recent, Same, TicketNumbers
  <2>4. CASE at[d].ticket \in Recent(c, fp, t)
    <3>1. d \in Opening(c, fp, t)
      BY <1>6, <2>4 DEF Opening, Store
    <3>2. Stored(c, fp, t)' \subseteq Stored(c, fp, t) \cup {at[d].ticket}
      BY <2>1, <2>3 DEF Stored
    <3> DEFINE A == Stored(c, fp, t)   B == Opening(c, fp, t)
               C == Stored(c, fp, t)'  D == Opening(c, fp, t)'
               K == {at[d].ticket}     n == Cardinality(Dispatchers)
    <3>3. /\ n \in Nat /\ IsFiniteSet(A) /\ IsFiniteSet(B) /\ C \subseteq A \cup K /\ d \in B
          /\ D \subseteq B \ {d} /\ Cardinality(A) + Cardinality(B) <= n
          /\ IsFiniteSet(K) /\ Cardinality(K) = 1
      BY <1>c, <2>2, <3>1, <3>2, FS_Singleton, Zenon
    <3> HIDE DEF A, B, C, D, K, n
    <3>4. Cardinality(C) + Cardinality(D) <= n
      BY <3>3, SumsMove
    <3>5. QED
      BY <3>4 DEF C, D, n
  <2>5. CASE at[d].ticket \notin Recent(c, fp, t)
    <3>1. Stored(c, fp, t)' \subseteq Stored(c, fp, t)
      BY <2>1, <2>3, <2>5 DEF Stored
    <3>2. QED
      BY <1>c, <2>2, <3>1, SumsShrink
  <2>6. QED
    BY <2>4, <2>5
<1>7. ASSUME NEW d \in Dispatchers, Update(d) \/ Count(d) \/ Refuse(d) \/ Lose(d)
      PROVE  Cardinality(Stored(c, fp, t)') + Cardinality(Opening(c, fp, t)')
               <= Cardinality(Dispatchers)
  <2>1. at'[d].pc \in {"idle", "count"} /\ \A e \in Dispatchers \ {d} : at'[e] = at[e]
    BY <1>7, HandlerCases DEF Update, Count, Refuse, Lose, Typed, Idle
  <2>2. DOMAIN outbox' = DOMAIN outbox
    BY <1>7 DEF Update, Count, Refuse, Lose
  <2>3. QED
    BY <1>1, <1>2, <2>1, <2>2
<1>8. ASSUME NEW d \in Dispatchers, NEW b \in Connectors, NEW f \in Fingerprints, Begin(d, b, f)
      PROVE  Cardinality(Stored(c, fp, t)') + Cardinality(Opening(c, fp, t)')
               <= Cardinality(Dispatchers)
  BY <1>1, <1>2, <1>8 DEF Begin, Typed
<1>9. CASE Tick \/ UNCHANGED vars
  <2>1. UNCHANGED <<at, tickets, outbox>>
    BY <1>9 DEF Tick, vars
  <2>2. Opening(c, fp, t)' = Opening(c, fp, t)
    BY <2>1 DEF Opening, Recent, Same, TicketNumbers
  <2>3. QED
    BY <1>1, <2>1, <2>2
<1>10. QED
  BY <1>3, <1>4, <1>5, <1>6, <1>7, <1>8, <1>9 DEF Next, Dispatch

\* Each ticket of an open window has its row, or a handler about to store it, or is
\* unknown for a lost answer.
LEMMA BurstCounted ==
  ASSUME Typed, Knows, OwnTickets, TicketsKnown, NEW c \in Connectors, NEW fp \in Fingerprints,
         NEW t \in 0..MaxTime,
         Cardinality(Stored(c, fp, t)) + Cardinality(Opening(c, fp, t)) <= Cardinality(Dispatchers)
  PROVE  Cardinality(Recent(c, fp, t)) <= Cardinality(Dispatchers) + faults
<1> DEFINE Storers == {d \in Dispatchers : at[d].pc = "store" /\ at[d].ticket \in Recent(c, fp, t)}
           Held == {k \in Recent(c, fp, t) : \E d \in Storers : at[d].ticket = k}
           Storer == [k \in Held |-> CHOOSE d \in Storers : at[d].ticket = k]
<1>1. Recent(c, fp, t) \subseteq (Stored(c, fp, t) \cup Held) \cup Unknown
  BY BurstFinite DEF Stored, Unknown
<1>2. IsFiniteSet(Storers) /\ Cardinality(Storers) \in Nat
      /\ Cardinality(Storers) <= Cardinality(Opening(c, fp, t))
      /\ Cardinality(Opening(c, fp, t)) \in Nat
  <2>1. Storers \subseteq Opening(c, fp, t)
    BY DEF Opening
  <2>2. QED
    BY <2>1, BurstFinite, FS_Subset, FS_CardinalityType
<1>3. IsFiniteSet(Held) /\ Cardinality(Held) \in Nat /\ Cardinality(Held) <= Cardinality(Storers)
  <2>1. \A k \in Held : Storer[k] \in Storers /\ at[Storer[k]].ticket = k
    OBVIOUS
  <2>2. Storer \in Injection(Held, Storers)
    BY <2>1 DEF Injection, IsInjective
  <2> HIDE DEF Held, Storers, Storer
  <2>3. QED
    BY <1>2, <2>2, FS_Injection, FS_CardinalityType
<1>4. /\ IsFiniteSet(Stored(c, fp, t)) /\ Cardinality(Stored(c, fp, t)) \in Nat
      /\ IsFiniteSet(Unknown) /\ Cardinality(Unknown) \in Nat /\ Cardinality(Unknown) <= faults
      /\ faults \in Nat /\ Cardinality(Dispatchers) \in Nat
  <2>1. Unknown \subseteq TicketNumbers
    BY DEF Unknown
  <2>2. QED
    BY <2>1, TicketsFinite, BurstFinite, HandlersFinite, FS_CardinalityType, BoundsAssumption
       DEF TicketsKnown, Typed, TypeOK
<1> HIDE DEF Held, Storers
<1>5. /\ IsFiniteSet(Stored(c, fp, t) \cup Held)
      /\ Cardinality(Stored(c, fp, t) \cup Held) \in Nat
      /\ Cardinality(Stored(c, fp, t) \cup Held)
           <= Cardinality(Stored(c, fp, t)) + Cardinality(Held)
  BY <1>3, <1>4, UnionSize
<1>6. /\ IsFiniteSet((Stored(c, fp, t) \cup Held) \cup Unknown)
      /\ Cardinality((Stored(c, fp, t) \cup Held) \cup Unknown) \in Nat
      /\ Cardinality((Stored(c, fp, t) \cup Held) \cup Unknown)
           <= Cardinality(Stored(c, fp, t) \cup Held) + Cardinality(Unknown)
  BY <1>4, <1>5, UnionSize
<1>7. /\ Cardinality(Recent(c, fp, t)) <= Cardinality((Stored(c, fp, t) \cup Held) \cup Unknown)
      /\ Cardinality(Recent(c, fp, t)) \in Nat
  BY <1>1, <1>6, FS_Subset, FS_CardinalityType
<1>8. QED
  BY <1>2, <1>3, <1>4, <1>5, <1>6, <1>7

LEMMA CrowdedHolds == Spec => [](DispatchInv /\ Crowded)
<1>1. Init => DispatchInv /\ Crowded
  BY DispatchInit, CrowdInit DEF Crowded
<1>2. DispatchInv /\ Crowded /\ [Next]_vars => Crowded'
  <2> SUFFICES ASSUME DispatchInv, Crowded, [Next]_vars, NEW c \in Connectors,
                      NEW fp \in Fingerprints, NEW t \in 0..MaxTime
               PROVE  Crowd(c, fp, t)'
    BY DEF Crowded
  <2>1. Crowd(c, fp, t)
    BY DEF Crowded
  <2>2. QED
    BY <2>1, CrowdStep DEF Crowd
<1>3. QED
  BY <1>1, <1>2, DispatchStep, PTL DEF Spec

LEMMA OpenHolds == Spec => []OpenBounded
<1>1. DispatchInv /\ Crowded => OpenBounded
  BY BurstCounted DEF DispatchInv, Knows, Crowded, Crowd, OpenBounded
<1>2. QED
  BY <1>1, CrowdedHolds, PTL

\* A window that has closed gets no more tickets.
LEMMA ClosedStep ==
  ASSUME DispatchInv, StormBounded, [Next]_vars, OpenBounded'
  PROVE  StormBounded'
<1> SUFFICES ASSUME NEW c \in Connectors, NEW fp \in Fingerprints, NEW t \in 0..MaxTime
             PROVE  Cardinality(Recent(c, fp, t)') <= Cardinality(Dispatchers) + faults'
  BY DEF StormBounded, Recent
<1> USE DEF DispatchInv, Knows
<1>1. CASE now' <= t + Window
  BY <1>1 DEF OpenBounded
<1>2. CASE ~(now' <= t + Window)
  <2>1. /\ now \in Nat /\ now' \in Nat /\ faults \in Nat /\ faults' \in Nat /\ faults <= faults'
        /\ t + Window \in Nat
    BY TypedStep, Growth, BoundsAssumption DEF Typed, TypeOK
  <2>2. Cardinality(Recent(c, fp, t)) <= Cardinality(Dispatchers) + faults
    BY DEF StormBounded, Recent
  <2>3. Cardinality(Recent(c, fp, t)) \in Nat /\ Cardinality(Dispatchers) \in Nat
    BY BurstFinite, FS_CardinalityType, HandlersFinite
  <2>4. ASSUME NEW k \in Recent(c, fp, t)', k \notin TicketNumbers
        PROVE  FALSE
    <3>1. PICK d \in Dispatchers : Create(d)
      <4>1. ASSUME NEW d \in Dispatchers, Update(d)
            PROVE  TicketNumbers' = TicketNumbers
        BY <4>1 DEF Update, TicketNumbers
      <4>2. TicketNumbers' # TicketNumbers
        BY <2>4 DEF Recent
      <4>3. tickets' = tickets => TicketNumbers' = TicketNumbers
        BY DEF TicketNumbers
      <4>4. tickets' = tickets \/ \E d \in Dispatchers : Update(d) \/ Create(d)
        BY DEF Next, Dispatch, Begin, Find, Count, Store, Refuse, Lose, Tick, vars
      <4>5. QED
        BY <4>1, <4>2, <4>3, <4>4
    <3>2. tickets'[k].opened = now /\ now' = now
      BY <2>4, <3>1, TicketsFinite DEF Create, Recent, TicketNumbers, Typed, TypeOK
    <3>3. now <= t + Window
      BY <2>1, <2>4, <3>2 DEF Recent
    <3>4. QED
      BY <1>2, <3>2, <3>3
  <2>5. Recent(c, fp, t)' \subseteq Recent(c, fp, t)
    BY <2>4, RecentFixed
  <2>6. /\ Cardinality(Recent(c, fp, t)') <= Cardinality(Recent(c, fp, t))
        /\ Cardinality(Recent(c, fp, t)') \in Nat
    BY <2>5, BurstFinite, FS_Subset, FS_CardinalityType
  <2>7. QED
    BY <2>1, <2>2, <2>3, <2>6
<1>3. QED
  BY <1>1, <1>2

\* For any number of handlers, connectors and events: the tickets opened for one
\* fingerprint within one window are no more than the handlers and the
\* lost answers.  (incident_dispatch_service)
THEOREM StormBoundedHolds == Spec => []StormBounded
<1>1. Init /\ OpenBounded => StormBounded
  <2>1. ASSUME NEW t \in 0..MaxTime
        PROVE  0 <= t + Window
    BY BoundsAssumption
  <2>2. QED
    BY <2>1 DEF Init, OpenBounded, StormBounded, Recent
<1>2. DispatchInv /\ StormBounded /\ [Next]_vars /\ OpenBounded' => StormBounded'
  BY ClosedStep
<1>3. QED
  BY <1>1, <1>2, DispatchInvHolds, OpenHolds, PTL DEF Spec


----------------------------------------------------------------------------
(* Guardian: the invariants.                                                *)

\* What sessions hold are functions of the runners.
Tables ==
    /\ run \in [Runners -> RunTypes]
    /\ draft = [r \in Runners |-> draft[r]]
    /\ force = [r \in Runners |-> force[r]]
LoopTyped == GuardianTypeOK /\ Tables

\* A row has one session that wrote it.
DraftsDisjoint ==
    \A r, q \in Runners : \A s \in DOMAIN draft[r] : s \in DOMAIN draft[q] => q = r

\* A row a session added is known to it alone until it commits, and there is
\* one for a finding; once the session executes, it has yet to execute it.
Added(r, s) == s \in DOMAIN draft[r] /\ draft[r][s] = "pending"
AddedIsPrivate ==
    \A r \in Runners : \A s \in Slots : Added(r, s) =>
        /\ s \notin pending
        /\ \A q \in Runners \ {r} : s \notin Taken(q)
        /\ \A t \in Slots : Added(r, t) /\ Finding(t) = Finding(s) => t = s
        /\ run[r].pc = "evaluate" \/ s \in run[r].left \cup {run[r].current}

\* While a session evaluates, it has read nothing it will execute.
EvaluatesFirst == \A r \in Runners : run[r].pc = "evaluate" => run[r].left = {}

\* What a session wrote of an agent is what an action it executed asks.
ForceIsAsked ==
    \A r \in Runners : \A a \in DOMAIN force[r] :
        \E s \in DoneTo(r, a) : force[r][a] = StatusFor(Finding(s))

\* own[r] is the row of finding f that run r has committed and will execute;
\* the pending rows of f that are nobody's own cost an early end each.
OwnRows(own, f) ==
    \A r \in Runners : own[r] # NoRow =>
        /\ own[r] \in Taken(r) /\ Finding(own[r]) = f
        /\ run[r].pc \in {"execute", "record"}
        /\ \A s \in Slots : Added(r, s) => Finding(s) # f
Orphans(own, f) == {s \in pending : Finding(s) = f /\ \A r \in Runners : own[r] # s}
Matched ==
    aborts <= MaxAborts =>
        \A f \in Findings : \E own \in [Runners -> Slots \cup {NoRow}] :
            OwnRows(own, f) /\ Cardinality(Orphans(own, f)) <= aborts

Sessions == DraftsDisjoint /\ AddedIsPrivate /\ EvaluatesFirst
LoopInv == LoopTyped /\ Sessions /\ ForceIsAsked /\ Matched

----------------------------------------------------------------------------
(* Rows and tables.                                                         *)

LEMMA LeastElement ==
  ASSUME NEW S \in SUBSET Nat, S # {}
  PROVE  \E m \in S : \A k \in S : m <= k
<1>1. PICK m \in S : \A k \in S : ~(<<k, m>> \in OpToRel(<, Nat))
  BY NatLessThanWellFounded, WFMin, Zenon
<1>2. \A k \in S : ~(k < m)
  BY <1>1, Zenon DEF OpToRel
<1>3. QED
  BY <1>2

LEMMA SlotFacts ==
  /\ IsFiniteSet(Slots) /\ NoRow \notin Slots
  /\ \A s \in Slots : Finding(s) \in Findings /\ s[2] \in Nat
<1>1. IsFiniteSet(1..MaxRows)
  BY FS_Interval, RowsAssumption
<1>2. IsFiniteSet(Slots)
  BY <1>1, FS_Product, SetsAssumption DEF Slots
<1>3. NoRow \notin Slots
  BY DEF NoRow, Slots
<1>4. \A s \in Slots : Finding(s) \in Findings /\ s[2] \in Nat
  BY RowsAssumption DEF Slots, Finding
<1>5. QED
  BY <1>2, <1>3, <1>4

LEMMA NextSlotUnused ==
  ASSUME NEW f \in Findings, Unused(f) # {}
  PROVE  NextSlot(f) \in Unused(f)
<1> DEFINE Numbers == {s[2] : s \in Unused(f)}
<1>1. Unused(f) \subseteq Slots
  BY DEF Unused
<1>2. Numbers \in SUBSET Nat /\ Numbers # {}
  BY <1>1, SlotFacts
<1> HIDE DEF Numbers
<1>3. PICK m \in Numbers : \A k \in Numbers : m <= k
  BY <1>2, LeastElement
<1>4. PICK s \in Unused(f) : m = s[2]
  BY <1>3 DEF Numbers
<1>5. \A t \in Unused(f) : s[2] <= t[2]
  BY <1>3, <1>4 DEF Numbers
<1>6. QED
  BY <1>4, <1>5, Zenon DEF NextSlot

LEMMA SessionTyped ==
  ASSUME LoopTyped, NEW r \in Runners, NEW R \in RunTypes, NEW D, NEW F,
         run' = [run EXCEPT ![r] = R],
         draft' = [draft EXCEPT ![r] = D],
         force' = [force EXCEPT ![r] = F],
         found' \in [Findings -> {"open", "acknowledged"}],
         pending' \subseteq Slots, handled' \subseteq Findings,
         status' \in [Agents -> {"active", "blocked", "restricted", "quarantined"}],
         aborts' \in 0..(MaxAborts + 1),
         R.current \in Slots <=> R.pc = "record",
         DOMAIN D \subseteq Slots, \A s \in DOMAIN D : D[s] \in {"pending", "executed", "failed"},
         DOMAIN F \subseteq Agents,
         \A a \in DOMAIN F : F[a] \in {"blocked", "restricted", "quarantined"},
         R.pc = "idle" => R = NotRunning /\ D = Empty /\ F = Empty
  PROVE  LoopTyped'
<1>1. /\ run'[r] = R /\ draft'[r] = D /\ force'[r] = F
      /\ \A q \in Runners \ {r} : run'[q] = run[q] /\ draft'[q] = draft[q] /\ force'[q] = force[q]
  BY DEF LoopTyped, Tables
<1>2. Tables'
  BY <1>1 DEF LoopTyped, Tables
<1>3. ASSUME NEW q \in Runners
      PROVE  /\ run'[q] \in RunTypes
             /\ run'[q].current \in Slots <=> run'[q].pc = "record"
             /\ DOMAIN draft'[q] \subseteq Slots
             /\ \A s \in DOMAIN draft'[q] : draft'[q][s] \in {"pending", "executed", "failed"}
             /\ DOMAIN force'[q] \subseteq Agents
             /\ \A a \in DOMAIN force'[q] : force'[q][a] \in {"blocked", "restricted", "quarantined"}
             /\ run'[q].pc = "idle" => run'[q] = NotRunning /\ draft'[q] = Empty /\ force'[q] = Empty
  <2>1. CASE q = r
    BY <2>1, <1>1
  <2>2. CASE q # r
    BY <2>2, <1>1 DEF LoopTyped, GuardianTypeOK
  <2>3. QED
    BY <2>1, <2>2
<1>4. QED
  BY <1>2, <1>3 DEF LoopTyped, GuardianTypeOK

LEMMA RunFacts ==
  ASSUME LoopTyped, NEW r \in Runners
  PROVE  /\ run[r] \in RunTypes
         /\ run[r] = [pc |-> run[r].pc, todo |-> run[r].todo,
                      left |-> run[r].left, current |-> run[r].current]
         /\ run[r].todo \subseteq Findings /\ run[r].left \subseteq Slots
         /\ run[r].current \in Slots \cup {NoRow}
         /\ run[r].current \in Slots <=> run[r].pc = "record"
         /\ DOMAIN draft[r] \subseteq Slots
         /\ \A s \in DOMAIN draft[r] : draft[r][s] \in {"pending", "executed", "failed"}
         /\ DOMAIN force[r] \subseteq Agents
         /\ \A a \in DOMAIN force[r] : force[r][a] \in {"blocked", "restricted", "quarantined"}
         /\ run[r].pc = "idle" => run[r] = NotRunning /\ draft[r] = Empty /\ force[r] = Empty
  BY DEF LoopTyped, GuardianTypeOK, RunTypes

LEMMA EmptyFacts ==
  /\ DOMAIN Empty = {} /\ NotRunning \in RunTypes
  /\ NotRunning.pc = "idle" /\ NotRunning.current = NoRow /\ NotRunning.left = {}
  BY DEF Empty, NotRunning, RunTypes

\* The tables when one session writes nothing, rolls back or commits.
LEMMA Unwritten ==
  ASSUME LoopTyped, NEW r \in Runners
  PROVE  /\ draft = [draft EXCEPT ![r] = draft[r]]
         /\ force = [force EXCEPT ![r] = force[r]]
<1>1. draft = [q \in Runners |-> draft[q]] /\ force = [q \in Runners |-> force[q]]
  BY DEF LoopTyped, Tables
<1>2. QED
  BY <1>1, Zenon

LEMMA StatusForTypes ==
  ASSUME NEW f \in Findings, Enforces(f)
  PROVE  StatusFor(f) \in {"blocked", "restricted", "quarantined"}
  BY DEF Enforces, StatusFor, EnforcedStatus

LEMMA RollbackTyped ==
  ASSUME LoopTyped, NEW r \in Runners, Rollback(r), aborts' \in 0..(MaxAborts + 1)
  PROVE  LoopTyped'
<1>1. /\ found' \in [Findings -> {"open", "acknowledged"}]
      /\ pending' \subseteq Slots /\ handled' \subseteq Findings
      /\ status' \in [Agents -> {"active", "blocked", "restricted", "quarantined"}]
  BY DEF Rollback, db, LoopTyped, GuardianTypeOK
<1>2. NotRunning.current \notin Slots
  BY SlotFacts, EmptyFacts
<1>3. QED
  BY <1>1, <1>2, SessionTyped, EmptyFacts DEF Rollback

LEMMA CommitTyped ==
  ASSUME LoopTyped, NEW r \in Runners, CommitDrafts(r), UNCHANGED <<found, aborts>>,
         NEW R \in RunTypes, run' = [run EXCEPT ![r] = R],
         R.current \in Slots <=> R.pc = "record",
         R.pc = "idle" => R = NotRunning
  PROVE  LoopTyped'
<1>1. /\ found' \in [Findings -> {"open", "acknowledged"}]
      /\ aborts' \in 0..(MaxAborts + 1)
  BY DEF LoopTyped, GuardianTypeOK
<1>2. pending' \subseteq Slots
  BY RunFacts DEF CommitDrafts, CommitRows, LoopTyped, GuardianTypeOK
<1>3. handled' \subseteq Findings
  BY RunFacts, SlotFacts DEF CommitDrafts, CommitRows, LoopTyped, GuardianTypeOK
<1>4. status' \in [Agents -> {"active", "blocked", "restricted", "quarantined"}]
  BY RunFacts DEF CommitDrafts, SeenStatus, LoopTyped, GuardianTypeOK
<1>5. QED
  BY <1>1, <1>2, <1>3, <1>4, SessionTyped, EmptyFacts DEF CommitDrafts, CommitRows

\* A session that writes at most its own row and its own force.
LEMMA WriterTyped ==
  ASSUME LoopTyped, NEW r \in Runners, UNCHANGED <<db, aborts>>,
         NEW R \in RunTypes, run' = [run EXCEPT ![r] = R], R.pc # "idle",
         R.current \in Slots <=> R.pc = "record",
         \/ UNCHANGED draft
         \/ \E s \in Slots, v \in {"pending", "executed", "failed"} :
               draft' = [draft EXCEPT ![r] = Written(@, s, v)],
         \/ UNCHANGED force
         \/ \E a \in Agents, v \in {"blocked", "restricted", "quarantined"} :
               force' = [force EXCEPT ![r] = Written(@, a, v)]
  PROVE  LoopTyped'
<1>1. /\ found' \in [Findings -> {"open", "acknowledged"}]
      /\ pending' \subseteq Slots /\ handled' \subseteq Findings
      /\ status' \in [Agents -> {"active", "blocked", "restricted", "quarantined"}]
      /\ aborts' \in 0..(MaxAborts + 1)
  BY DEF db, LoopTyped, GuardianTypeOK
<1> DEFINE NewDraft(D) == /\ draft' = [draft EXCEPT ![r] = D]
                          /\ DOMAIN D \subseteq Slots
                          /\ \A s \in DOMAIN D : D[s] \in {"pending", "executed", "failed"}
           NewForce(F) == /\ force' = [force EXCEPT ![r] = F]
                          /\ DOMAIN F \subseteq Agents
                          /\ \A a \in DOMAIN F : F[a] \in {"blocked", "restricted", "quarantined"}
<1>2. \E D : NewDraft(D)
  <2>1. CASE UNCHANGED draft
    <3>1. draft' = [draft EXCEPT ![r] = draft[r]]
      BY <2>1, Unwritten
    <3>2. QED
      BY <3>1, RunFacts
  <2>2. ASSUME NEW s \in Slots, NEW v \in {"pending", "executed", "failed"},
               draft' = [draft EXCEPT ![r] = Written(@, s, v)]
        PROVE  NewDraft(Written(draft[r], s, v))
    <3>1. draft' = [draft EXCEPT ![r] = Written(draft[r], s, v)]
      BY <2>2, Zenon
    <3>2. DOMAIN draft[r] \subseteq Slots /\ \A t \in DOMAIN draft[r] : draft[r][t] \in {"pending", "executed", "failed"}
      BY RunFacts
    <3>3. /\ DOMAIN Written(draft[r], s, v) \subseteq Slots
          /\ \A t \in DOMAIN Written(draft[r], s, v) :
                Written(draft[r], s, v)[t] \in {"pending", "executed", "failed"}
      BY <2>2, <3>2 DEF Written
    <3>4. QED
      BY <3>1, <3>3
  <2>3. QED
    BY <2>1, <2>2
<1>3. \E F : NewForce(F)
  <2>1. CASE UNCHANGED force
    <3>1. force' = [force EXCEPT ![r] = force[r]]
      BY <2>1, Unwritten
    <3>2. QED
      BY <3>1, RunFacts
  <2>2. ASSUME NEW a \in Agents, NEW v \in {"blocked", "restricted", "quarantined"},
               force' = [force EXCEPT ![r] = Written(@, a, v)]
        PROVE  NewForce(Written(force[r], a, v))
    <3>1. force' = [force EXCEPT ![r] = Written(force[r], a, v)]
      BY <2>2, Zenon
    <3>2. DOMAIN force[r] \subseteq Agents /\ \A b \in DOMAIN force[r] : force[r][b] \in {"blocked", "restricted", "quarantined"}
      BY RunFacts
    <3>3. /\ DOMAIN Written(force[r], a, v) \subseteq Agents
          /\ \A b \in DOMAIN Written(force[r], a, v) :
                Written(force[r], a, v)[b] \in {"blocked", "restricted", "quarantined"}
      BY <2>2, <3>2 DEF Written
    <3>4. QED
      BY <3>1, <3>3
  <2>3. QED
    BY <2>1, <2>2
<1>4. PICK D : NewDraft(D)
  BY <1>2
<1>5. PICK F : NewForce(F)
  BY <1>3
<1>6. QED
  BY <1>1, <1>4, <1>5, SessionTyped

LEMMA LoopTypedInit ==
  ASSUME GuardianInit
  PROVE  LoopTyped
<1>1. Tables
  BY EmptyFacts DEF GuardianInit, Tables
<1>2. ASSUME NEW r \in Runners
      PROVE  /\ run[r] = NotRunning /\ draft[r] = Empty /\ force[r] = Empty
             /\ run[r].current \notin Slots
  BY SlotFacts, EmptyFacts DEF GuardianInit
<1>3. GuardianTypeOK
  BY <1>2, EmptyFacts, RowsAssumption DEF GuardianInit, GuardianTypeOK
<1>4. QED
  BY <1>1, <1>3 DEF LoopTyped

\* Steps that touch no session.
LEMMA OutsideTyped ==
  ASSUME LoopTyped, UNCHANGED <<pending, handled, run, draft, force, aborts>>,
         found' \in [Findings -> {"open", "acknowledged"}],
         status' \in [Agents -> {"active", "blocked", "restricted", "quarantined"}]
  PROVE  LoopTyped'
<1>1. Tables'
  BY DEF LoopTyped, Tables
<1>2. GuardianTypeOK'
  BY DEF LoopTyped, GuardianTypeOK
<1>3. QED
  BY <1>1, <1>2 DEF LoopTyped

LEMMA LoopTypedStep ==
  ASSUME LoopTyped, [GuardianNext]_guardianVars
  PROVE  LoopTyped'
<1>1. ASSUME NEW f \in Findings, Acknowledge(f)
      PROVE  LoopTyped'
  BY <1>1, OutsideTyped DEF Acknowledge, LoopTyped, GuardianTypeOK
<1>2. ASSUME NEW f \in Findings, ExecuteAgain(f)
      PROVE  LoopTyped'
  BY <1>2, OutsideTyped, StatusForTypes DEF ExecuteAgain, LoopTyped, GuardianTypeOK
<1>3. ASSUME NEW a \in Agents, Register(a)
      PROVE  LoopTyped'
  BY <1>3, OutsideTyped DEF Register, LoopTyped, GuardianTypeOK
<1>4. ASSUME NEW r \in Runners, Start(r)
      PROVE  LoopTyped'
  <2> DEFINE R == [run[r] EXCEPT !.pc = "evaluate", !.todo = {f \in Findings : found[f] = "open"}]
  <2>1. run' = [run EXCEPT ![r] = R] /\ UNCHANGED <<db, aborts>> /\ UNCHANGED draft /\ UNCHANGED force
    BY <1>4, Zenon DEF Start
  <2>2. run[r] \in RunTypes /\ run[r].pc = "idle"
    BY <1>4, RunFacts DEF Start
  <2>3. R \in RunTypes /\ R.pc = "evaluate" /\ R.current = run[r].current
    BY <2>2 DEF RunTypes
  <2>4. R.current \in Slots <=> R.pc = "record"
    BY <2>2, <2>3, RunFacts
  <2>5. R.pc # "idle"
    BY <2>3
  <2> HIDE DEF R
  <2>6. QED
    BY <2>1, <2>3, <2>4, <2>5, WriterTyped
<1>5. ASSUME NEW r \in Runners, NEW f \in Findings, Consider(r, f)
      PROVE  LoopTyped'
  <2> DEFINE R == [run[r] EXCEPT !.todo = @ \ {f}]
  <2>1. run' = [run EXCEPT ![r] = R] /\ UNCHANGED <<db, aborts>> /\ UNCHANGED force
    BY <1>5, Zenon DEF Consider
  <2>2. run[r] \in RunTypes /\ run[r].pc = "evaluate"
    BY <1>5, RunFacts DEF Consider
  <2>3. R \in RunTypes /\ R.pc = "evaluate" /\ R.current = run[r].current
    BY <2>2 DEF RunTypes
  <2>4. \/ UNCHANGED draft
        \/ NextSlot(f) \in Slots /\ draft' = [draft EXCEPT ![r] = Written(@, NextSlot(f), "pending")]
    BY <1>5, NextSlotUnused DEF Consider, Unused
  <2>5. \/ UNCHANGED draft
        \/ \E s \in Slots, v \in {"pending", "executed", "failed"} :
              draft' = [draft EXCEPT ![r] = Written(@, s, v)]
    BY <2>4, Zenon
  <2>6. R.current \in Slots <=> R.pc = "record"
    BY <2>2, <2>3, RunFacts
  <2>7. R.pc # "idle"
    BY <2>3
  <2> HIDE DEF R
  <2>8. QED
    BY <2>1, <2>3, <2>5, <2>6, <2>7, WriterTyped
<1>6. ASSUME NEW r \in Runners, SelectPending(r)
      PROVE  LoopTyped'
  <2> DEFINE R == [run[r] EXCEPT !.pc = "execute", !.left = PendingActions(r)]
  <2>1. run' = [run EXCEPT ![r] = R] /\ UNCHANGED <<db, aborts>> /\ UNCHANGED draft /\ UNCHANGED force
    BY <1>6, Zenon DEF SelectPending
  <2>2. run[r] \in RunTypes /\ run[r].pc = "evaluate"
    BY <1>6, RunFacts DEF SelectPending
  <2>3. R \in RunTypes /\ R.pc = "execute" /\ R.current = run[r].current
    BY <2>2 DEF RunTypes, PendingActions
  <2>4. R.current \in Slots <=> R.pc = "record"
    BY <2>2, <2>3, RunFacts
  <2>5. R.pc # "idle"
    BY <2>3
  <2> HIDE DEF R
  <2>6. QED
    BY <2>1, <2>3, <2>4, <2>5, WriterTyped
<1>7. ASSUME NEW r \in Runners, NEW s \in Slots, OpenAction(r, s)
      PROVE  LoopTyped'
  <2> DEFINE R == [run[r] EXCEPT !.pc = "execute", !.left = {s}]
  <2>1. run' = [run EXCEPT ![r] = R] /\ UNCHANGED <<db, aborts>> /\ UNCHANGED draft /\ UNCHANGED force
    BY <1>7, Zenon DEF OpenAction
  <2>2. run[r] \in RunTypes /\ run[r].pc = "idle"
    BY <1>7, RunFacts DEF OpenAction
  <2>3. R \in RunTypes /\ R.pc = "execute" /\ R.current = run[r].current
    BY <2>2 DEF RunTypes
  <2>4. R.current \in Slots <=> R.pc = "record"
    BY <2>2, <2>3, RunFacts
  <2>5. R.pc # "idle"
    BY <2>3
  <2> HIDE DEF R
  <2>6. QED
    BY <2>1, <2>3, <2>4, <2>5, WriterTyped
<1>8. ASSUME NEW r \in Runners, NEW s \in Slots, Enforce(r, s)
      PROVE  LoopTyped'
  <2> DEFINE R == [run[r] EXCEPT !.left = @ \ {s}]
  <2>1. run' = [run EXCEPT ![r] = R] /\ UNCHANGED <<db, aborts>>
    BY <1>8, Zenon DEF Enforce
  <2>2. run[r] \in RunTypes /\ run[r].pc = "execute"
    BY <1>8, RunFacts DEF Enforce
  <2>3. R \in RunTypes /\ R.pc = "execute" /\ R.current = run[r].current
    BY <2>2 DEF RunTypes
  <2>4. \E t \in Slots, v \in {"pending", "executed", "failed"} :
           draft' = [draft EXCEPT ![r] = Written(@, t, v)]
    BY <1>8 DEF Enforce, Result
  <2>5. \/ UNCHANGED force
        \/ \E a \in Agents, v \in {"blocked", "restricted", "quarantined"} :
              force' = [force EXCEPT ![r] = Written(@, a, v)]
    BY <1>8, StatusForTypes, SlotFacts DEF Enforce
  <2>6. R.current \in Slots <=> R.pc = "record"
    BY <2>2, <2>3, RunFacts
  <2>7. R.pc # "idle"
    BY <2>3
  <2>8. \/ UNCHANGED draft
        \/ \E t \in Slots, v \in {"pending", "executed", "failed"} :
              draft' = [draft EXCEPT ![r] = Written(@, t, v)]
    BY <2>4, Zenon
  <2> HIDE DEF R
  <2>9. QED
    BY <2>1, <2>3, <2>5, <2>6, <2>7, <2>8, WriterTyped
<1>9. ASSUME NEW r \in Runners, NEW s \in Slots, Alert(r, s)
      PROVE  LoopTyped'
  <2> DEFINE R == [run[r] EXCEPT !.left = @ \ {s}]
  <2>1. run' = [run EXCEPT ![r] = R] /\ UNCHANGED <<db, aborts>> /\ UNCHANGED force
    BY <1>9, Zenon DEF Alert
  <2>2. run[r] \in RunTypes /\ run[r].pc = "execute"
    BY <1>9, RunFacts DEF Alert
  <2>3. R \in RunTypes /\ R.pc = "execute" /\ R.current = run[r].current
    BY <2>2 DEF RunTypes
  <2>4. draft' = [draft EXCEPT ![r] = Written(@, s, "executed")]
    BY <1>9 DEF Alert, Result
  <2>5. R.current \in Slots <=> R.pc = "record"
    BY <2>2, <2>3, RunFacts
  <2>6. R.pc # "idle"
    BY <2>3
  <2> HIDE DEF R
  <2>7. QED
    BY <2>1, <2>3, <2>4, <2>5, <2>6, WriterTyped
<1>10. ASSUME NEW r \in Runners, Record(r)
       PROVE  LoopTyped'
  <2> DEFINE R == [run[r] EXCEPT !.pc = "execute", !.current = NoRow]
  <2>1. run' = [run EXCEPT ![r] = R] /\ UNCHANGED <<db, aborts>> /\ UNCHANGED force
    BY <1>10, Zenon DEF Record
  <2>2. run[r] \in RunTypes
    BY RunFacts
  <2>3. R \in RunTypes /\ R.pc = "execute" /\ R.current = NoRow
    BY <2>2 DEF RunTypes
  <2>4. run[r].current \in Slots /\ draft' = [draft EXCEPT ![r] = Written(@, run[r].current, "executed")]
    BY <1>10, RunFacts DEF Record, Result
  <2>5. QED
    BY <2>1, <2>3, <2>4, WriterTyped, SlotFacts
<1>11. ASSUME NEW r \in Runners, NEW s \in Slots, Deliver(r, s)
       PROVE  LoopTyped'
  <2> DEFINE R == [run[r] EXCEPT !.pc = "record", !.left = @ \ {s}, !.current = s]
  <2>1. run' = [run EXCEPT ![r] = R] /\ CommitDrafts(r) /\ UNCHANGED <<found, aborts>>
    BY <1>11, Zenon DEF Deliver
  <2>2. run[r] \in RunTypes
    BY <1>11, RunFacts DEF Deliver
  <2>3. R \in RunTypes /\ R.pc = "record" /\ R.current = s
    BY <2>2 DEF RunTypes
  <2>4. QED
    BY <2>1, <2>3, CommitTyped
<1>12. ASSUME NEW r \in Runners, Commit(r)
       PROVE  LoopTyped'
  <2>1. run' = [run EXCEPT ![r] = NotRunning] /\ CommitDrafts(r) /\ UNCHANGED <<found, aborts>>
    BY <1>12, Zenon DEF Commit
  <2>2. QED
    BY <2>1, CommitTyped, EmptyFacts, SlotFacts
<1>13. ASSUME NEW r \in Runners, TooMany(r) \/ Deadlocked(r) \/ Die(r)
       PROVE  LoopTyped'
  <2>1. aborts \in 0..(MaxAborts + 1) /\ MaxAborts \in Nat
    BY RowsAssumption DEF LoopTyped, GuardianTypeOK
  <2>2. aborts' \in 0..(MaxAborts + 1)
    BY <1>13, <2>1 DEF TooMany, Deadlocked, Die
  <2>3. Rollback(r)
    BY <1>13 DEF TooMany, Deadlocked, Die
  <2>4. QED
    BY <2>2, <2>3, RollbackTyped
<1>14. CASE UNCHANGED guardianVars
  BY <1>14, OutsideTyped DEF guardianVars, db, LoopTyped, GuardianTypeOK
<1>15. ASSUME NEW r \in Runners, Step(r)
       PROVE  LoopTyped'
  <2>1. run[r].todo \subseteq Findings /\ run[r].left \subseteq Slots
    BY RunFacts
  <2>2. QED
    BY <2>1, <1>5, <1>6, <1>8, <1>9, <1>10, <1>11, <1>12, <1>13, <1>15 DEF Step
<1>16. ASSUME GuardianNext
       PROVE  LoopTyped'
  <2>1. CASE \E f \in Findings : Acknowledge(f) \/ ExecuteAgain(f)
    BY <2>1, <1>1, <1>2
  <2>2. CASE \E a \in Agents : Register(a)
    BY <2>2, <1>3
  <2>3. CASE \E r \in Runners : Start(r) \/ Step(r) \/ Die(r)
    BY <2>3, <1>4, <1>13, <1>15
  <2>4. CASE \E r \in Consoles, s \in Slots : OpenAction(r, s)
    BY <2>4, <1>7, SetsAssumption
  <2>5. QED
    BY <1>16, <2>1, <2>2, <2>3, <2>4 DEF GuardianNext
<1>17. QED
  BY <1>14, <1>16

----------------------------------------------------------------------------
(* What sessions have read and written.                                     *)

\* A session reads: it learns of the rows it sees pending.
LEMMA ReadsSessions ==
  ASSUME LoopTyped, Sessions, NEW r \in Runners, UNCHANGED <<pending, draft>>,
         \A q \in Runners \ {r} : run'[q] = run[q],
         \A s \in run'[r].left : s \in Slots /\ SeesPending(r, s),
         run'[r].current = NoRow,
         \/ run'[r].pc = "evaluate" /\ run'[r].left = {}
         \/ run'[r].pc # "evaluate" /\ \A s \in Slots : Added(r, s) => s \in run'[r].left
  PROVE  Sessions'
<1>1. DraftsDisjoint'
  BY DEF Sessions, DraftsDisjoint
<1>2. EvaluatesFirst'
  BY DEF Sessions, EvaluatesFirst
<1>3. ASSUME NEW q \in Runners, NEW s \in Slots, Added(q, s)'
      PROVE  /\ s \notin pending'
             /\ \A p \in Runners \ {q} : s \notin Taken(p)'
             /\ \A t \in Slots : Added(q, t)' /\ Finding(t) = Finding(s) => t = s
             /\ run'[q].pc = "evaluate" \/ s \in run'[q].left \cup {run'[q].current}
  <2>1. Added(q, s) /\ s \in DOMAIN draft[q]
    BY <1>3 DEF Added
  <2>2. /\ s \notin pending
        /\ \A p \in Runners \ {q} : s \notin Taken(p)
        /\ \A t \in Slots : Added(q, t) /\ Finding(t) = Finding(s) => t = s
        /\ run[q].pc = "evaluate" \/ s \in run[q].left \cup {run[q].current}
    BY <2>1 DEF Sessions, AddedIsPrivate
  <2>3. ASSUME NEW p \in Runners \ {q}
        PROVE  s \notin Taken(p)'
    <3>1. CASE p # r
      BY <3>1, <2>2 DEF Taken
    <3>2. CASE p = r
      <4>1. s \notin DOMAIN draft[r]
        BY <3>2, <2>2 DEF Taken
      <4>2. s \notin run'[r].left
        BY <4>1, <2>2 DEF SeesPending
      <4>3. QED
        BY <3>2, <4>1, <4>2 DEF Taken
    <3>3. QED
      BY <3>1, <3>2
  <2>4. run'[q].pc = "evaluate" \/ s \in run'[q].left \cup {run'[q].current}
    BY <2>1, <2>2
  <2>5. \A t \in Slots : Added(q, t)' /\ Finding(t) = Finding(s) => t = s
    BY <2>2 DEF Added
  <2>6. QED
    BY <2>2, <2>3, <2>4, <2>5
<1>4. AddedIsPrivate'
  BY <1>3 DEF AddedIsPrivate
<1>5. QED
  BY <1>1, <1>2, <1>4 DEF Sessions

\* A session adds a row.
LEMMA AddsSessions ==
  ASSUME LoopTyped, Sessions, NEW r \in Runners, NEW f \in Findings,
         UNCHANGED pending, \A q \in Runners \ {r} : run'[q] = run[q],
         run[r].pc = "evaluate", run'[r].pc = "evaluate",
         run'[r].left = run[r].left, run'[r].current = run[r].current,
         PendingFor(r, f) = {}, Unused(f) # {},
         draft' = [draft EXCEPT ![r] = Written(@, NextSlot(f), "pending")]
  PROVE  Sessions'
<1> DEFINE n == NextSlot(f)
<1>1. n \in Slots /\ n \notin pending /\ Finding(n) = f /\ \A q \in Runners : n \notin Taken(q)
  BY NextSlotUnused, Zenon DEF Unused
<1> HIDE DEF n
<1>2. /\ \A q \in Runners \ {r} : draft'[q] = draft[q]
      /\ draft'[r] = Written(draft[r], n, "pending")
  BY DEF LoopTyped, Tables, n
<1>3. /\ DOMAIN draft'[r] = DOMAIN draft[r] \cup {n}
      /\ draft'[r][n] = "pending"
      /\ \A t \in DOMAIN draft[r] \ {n} : draft'[r][t] = draft[r][t]
  BY <1>2 DEF Written
<1>4. \A q \in Runners : n \notin DOMAIN draft[q]
  BY <1>1 DEF Taken
<1>5. DraftsDisjoint'
  BY <1>2, <1>3, <1>4 DEF Sessions, DraftsDisjoint
<1>6. EvaluatesFirst'
  BY DEF Sessions, EvaluatesFirst
<1>7. ASSUME NEW q \in Runners, NEW s \in Slots, Added(q, s)'
      PROVE  /\ s \notin pending'
             /\ \A p \in Runners \ {q} : s \notin Taken(p)'
             /\ \A t \in Slots : Added(q, t)' /\ Finding(t) = Finding(s) => t = s
             /\ run'[q].pc = "evaluate" \/ s \in run'[q].left \cup {run'[q].current}
  <2>1. \A t \in Slots : Added(r, t)' => t = n \/ Added(r, t)
    BY <1>3 DEF Added
  <2>2. \A t \in Slots : Added(r, t) => Finding(t) # f
    BY DEF PendingFor, SeesPending, Added
  <2>3. \A p \in Runners : \A t \in Slots : t \in Taken(p)' => t \in Taken(p) \/ (p = r /\ t = n)
    BY <1>2, <1>3 DEF Taken
  <2>4. CASE q = r /\ s = n
    BY <2>4, <1>1, <2>1, <2>2, <2>3
  <2>5. CASE q = r /\ s # n
    <3>1. Added(r, s)
      BY <2>5, <2>1, <1>7
    <3>2. Finding(s) # f
      BY <3>1, <2>2
    <3>3. QED
      BY <3>1, <3>2, <2>5, <1>1, <2>1, <2>3 DEF Sessions, AddedIsPrivate
  <2>6. CASE q # r
    <3>1. Added(q, s) /\ s \in Taken(q)
      BY <2>6, <1>2, <1>7 DEF Added, Taken
    <3>2. s # n
      BY <3>1, <1>1
    <3>3. \A t \in Slots : Added(q, t)' => Added(q, t)
      BY <2>6, <1>2 DEF Added
    <3>4. run'[q] = run[q]
      BY <2>6
    <3>5. QED
      BY <3>1, <3>2, <3>3, <3>4, <2>3 DEF Sessions, AddedIsPrivate
  <2>7. QED
    BY <2>4, <2>5, <2>6
<1>8. AddedIsPrivate'
  BY <1>7 DEF AddedIsPrivate
<1>9. QED
  BY <1>5, <1>6, <1>8 DEF Sessions

\* A session writes the result of a row it holds.
LEMMA ExecutesSessions ==
  ASSUME LoopTyped, Sessions, NEW r \in Runners, NEW s \in Slots, NEW v, v # "pending",
         UNCHANGED pending, \A q \in Runners \ {r} : run'[q] = run[q],
         s \in run[r].left \cup {run[r].current}, Unlocked(r, s), Result(r, s, v),
         run'[r].pc # "evaluate",
         run'[r].left \cup ({run'[r].current} \ {NoRow}) \cup {s}
            = run[r].left \cup ({run[r].current} \ {NoRow}),
         run[r].pc # "evaluate"
  PROVE  Sessions'
<1>1. /\ \A q \in Runners \ {r} : draft'[q] = draft[q]
      /\ draft'[r] = Written(draft[r], s, v)
  BY DEF LoopTyped, Tables, Result
<1>2. /\ DOMAIN draft'[r] = DOMAIN draft[r] \cup {s}
      /\ draft'[r][s] = v
      /\ \A t \in DOMAIN draft[r] \ {s} : draft'[r][t] = draft[r][t]
  BY <1>1 DEF Written
<1>3. DraftsDisjoint'
  BY <1>1, <1>2 DEF Sessions, DraftsDisjoint, Unlocked
<1>4. EvaluatesFirst'
  BY DEF Sessions, EvaluatesFirst
<1>5. ASSUME NEW q \in Runners, NEW t \in Slots, Added(q, t)'
      PROVE  /\ t \notin pending'
             /\ \A p \in Runners \ {q} : t \notin Taken(p)'
             /\ \A u \in Slots : Added(q, u)' /\ Finding(u) = Finding(t) => u = t
             /\ run'[q].pc = "evaluate" \/ t \in run'[q].left \cup {run'[q].current}
  <2>1. \A u \in Slots : Added(q, u)' => Added(q, u) /\ (q = r => u # s)
    BY <1>1, <1>2 DEF Added
  <2>2. \A p \in Runners : \A u \in Slots : u \in Taken(p)' => u \in Taken(p)
    BY <1>1, <1>2, SlotFacts DEF Taken
  <2>3. Added(q, t) /\ (q = r => t # s)
    BY <2>1, <1>5
  <2>4. run'[q].pc = "evaluate" \/ t \in run'[q].left \cup {run'[q].current}
    <3>1. CASE q # r
      BY <3>1, <2>3 DEF Sessions, AddedIsPrivate
    <3>2. CASE q = r
      BY <3>2, <2>3, SlotFacts DEF Sessions, AddedIsPrivate
    <3>3. QED
      BY <3>1, <3>2
  <2>5. QED
    BY <2>1, <2>2, <2>3, <2>4 DEF Sessions, AddedIsPrivate
<1>6. AddedIsPrivate'
  BY <1>5 DEF AddedIsPrivate
<1>7. QED
  BY <1>3, <1>4, <1>6 DEF Sessions

\* A session commits or is rolled back.
LEMMA EndsSessions ==
  ASSUME LoopTyped, Sessions, NEW r \in Runners,
         \A q \in Runners \ {r} : run'[q] = run[q],
         draft' = [draft EXCEPT ![r] = Empty],
         pending' \subseteq pending \cup DOMAIN draft[r],
         run'[r].left \cup ({run'[r].current} \ {NoRow}) \subseteq Taken(r),
         run'[r].pc # "evaluate"
  PROVE  Sessions'
<1>1. (\A q \in Runners \ {r} : draft'[q] = draft[q]) /\ DOMAIN draft'[r] = {}
  BY EmptyFacts DEF LoopTyped, Tables
<1>2. DraftsDisjoint'
  BY <1>1 DEF Sessions, DraftsDisjoint
<1>3. EvaluatesFirst'
  BY DEF Sessions, EvaluatesFirst
<1>4. ASSUME NEW q \in Runners, NEW s \in Slots, Added(q, s)'
      PROVE  /\ s \notin pending'
             /\ \A p \in Runners \ {q} : s \notin Taken(p)'
             /\ \A t \in Slots : Added(q, t)' /\ Finding(t) = Finding(s) => t = s
             /\ run'[q].pc = "evaluate" \/ s \in run'[q].left \cup {run'[q].current}
  <2>1. q # r /\ run'[q] = run[q] /\ \A t \in Slots : Added(q, t)' => Added(q, t)
    BY <1>1, <1>4 DEF Added
  <2>2. \A p \in Runners : \A t \in Slots : t \in Taken(p)' => t \in Taken(p)
    BY <1>1 DEF Taken
  <2>3. Added(q, s)
    BY <2>1, <1>4
  <2>4. s \notin Taken(r)
    BY <2>1, <2>3 DEF Sessions, AddedIsPrivate
  <2>5. s \notin DOMAIN draft[r]
    BY <2>4 DEF Taken
  <2>6. QED
    BY <2>1, <2>2, <2>3, <2>5 DEF Sessions, AddedIsPrivate
<1>5. AddedIsPrivate'
  BY <1>4 DEF AddedIsPrivate
<1>6. QED
  BY <1>2, <1>3, <1>5 DEF Sessions

----------------------------------------------------------------------------
(* What is nobody's own.                                                    *)

LEMMA OrphansFinite ==
  ASSUME LoopTyped, NEW own, NEW f
  PROVE  IsFiniteSet(Orphans(own, f)) /\ Cardinality(Orphans(own, f)) \in Nat
<1>1. Orphans(own, f) \in SUBSET Slots
  BY DEF Orphans, LoopTyped, GuardianTypeOK
<1>2. QED
  BY <1>1, SlotFacts, FS_Subset, FS_CardinalityType

\* A step that neither commits nor ends a run that executes.
LEMMA KeepsMatched ==
  ASSUME LoopTyped, Matched, NEW r \in Runners, UNCHANGED <<pending, aborts>>,
         \A q \in Runners \ {r} : run'[q] = run[q] /\ draft'[q] = draft[q],
         \/ run[r].pc \notin {"execute", "record"}
         \/ /\ run'[r].pc \in {"execute", "record"}
            /\ Taken(r) \subseteq
                  run'[r].left \cup ({run'[r].current} \ {NoRow}) \cup DOMAIN draft'[r]
            /\ \A s \in DOMAIN draft'[r] :
                  draft'[r][s] = "pending" => s \in DOMAIN draft[r] /\ draft[r][s] = "pending"
  PROVE  Matched'
<1> SUFFICES ASSUME aborts <= MaxAborts, NEW f \in Findings
             PROVE  (\E own \in [Runners -> Slots \cup {NoRow}] :
                       OwnRows(own, f) /\ Cardinality(Orphans(own, f)) <= aborts)'
  BY DEF Matched
<1>1. PICK own \in [Runners -> Slots \cup {NoRow}] :
        OwnRows(own, f) /\ Cardinality(Orphans(own, f)) <= aborts
  BY DEF Matched
<1>2. ASSUME NEW q \in Runners, own[q] # NoRow
      PROVE  /\ own[q] \in Taken(q)' /\ Finding(own[q]) = f
             /\ run'[q].pc \in {"execute", "record"}
             /\ \A s \in Slots : Added(q, s)' => Finding(s) # f
  <2>1. /\ own[q] \in Taken(q) /\ Finding(own[q]) = f
        /\ run[q].pc \in {"execute", "record"}
        /\ \A s \in Slots : Added(q, s) => Finding(s) # f
    BY <1>1, <1>2 DEF OwnRows
  <2>2. CASE q # r
    BY <2>1, <2>2 DEF Taken, Added
  <2>3. CASE q = r
    BY <2>1, <2>3 DEF Taken, Added
  <2>4. QED
    BY <2>2, <2>3
<1>3. OwnRows(own, f)'
  BY <1>2 DEF OwnRows
<1>4. Orphans(own, f)' = Orphans(own, f)
  BY DEF Orphans
<1>5. QED
  BY <1>1, <1>3, <1>4

\* An early end leaves one row more that is nobody's own.
LEMMA AbortMatched ==
  ASSUME LoopTyped, Matched, NEW r \in Runners, Rollback(r),
         aborts' = IF aborts <= MaxAborts THEN aborts + 1 ELSE aborts
  PROVE  Matched'
<1> SUFFICES ASSUME aborts' <= MaxAborts, NEW f \in Findings
             PROVE  (\E own \in [Runners -> Slots \cup {NoRow}] :
                       OwnRows(own, f) /\ Cardinality(Orphans(own, f)) <= aborts)'
  BY DEF Matched
<1>1. aborts \in Nat /\ MaxAborts \in Nat
  BY RowsAssumption DEF LoopTyped, GuardianTypeOK
<1>2. aborts <= MaxAborts /\ aborts' = aborts + 1
  BY <1>1
<1>3. PICK own \in [Runners -> Slots \cup {NoRow}] :
        OwnRows(own, f) /\ Cardinality(Orphans(own, f)) <= aborts
  BY <1>2 DEF Matched
<1> DEFINE new == [own EXCEPT ![r] = NoRow]
<1>4. new \in [Runners -> Slots \cup {NoRow}] /\ new[r] = NoRow /\ \A q \in Runners \ {r} : new[q] = own[q]
  BY <1>3
<1> HIDE DEF new
<1>5. \A q \in Runners \ {r} : run'[q] = run[q] /\ draft'[q] = draft[q]
  BY DEF Rollback, LoopTyped, Tables
<1>6. ASSUME NEW q \in Runners, new[q] # NoRow
      PROVE  /\ new[q] \in Taken(q)' /\ Finding(new[q]) = f
             /\ run'[q].pc \in {"execute", "record"}
             /\ \A s \in Slots : Added(q, s)' => Finding(s) # f
  <2>1. q # r /\ new[q] = own[q]
    BY <1>4, <1>6
  <2>2. /\ own[q] \in Taken(q) /\ Finding(own[q]) = f
        /\ run[q].pc \in {"execute", "record"}
        /\ \A s \in Slots : Added(q, s) => Finding(s) # f
    BY <1>3, <1>6, <2>1 DEF OwnRows
  <2>3. QED
    BY <1>5, <2>1, <2>2 DEF Taken, Added
<1>7. OwnRows(new, f)'
  BY <1>6 DEF OwnRows
<1>8. Orphans(new, f)' \subseteq Orphans(own, f) \cup {own[r]}
  BY <1>4 DEF Orphans, Rollback, db
<1>9. /\ IsFiniteSet(Orphans(own, f) \cup {own[r]})
      /\ Cardinality(Orphans(own, f) \cup {own[r]}) <= aborts + 1
  <2>1. IsFiniteSet(Orphans(own, f)) /\ Cardinality(Orphans(own, f)) \in Nat
    BY OrphansFinite
  <2>2. /\ IsFiniteSet(Orphans(own, f) \cup {own[r]})
        /\ Cardinality(Orphans(own, f) \cup {own[r]}) =
             IF own[r] \in Orphans(own, f) THEN Cardinality(Orphans(own, f))
             ELSE Cardinality(Orphans(own, f)) + 1
    BY <2>1, FS_AddElement
  <2>3. QED
    BY <1>1, <1>3, <2>1, <2>2
<1>10. Cardinality(Orphans(new, f)') <= aborts + 1
  <2>1. /\ IsFiniteSet(Orphans(new, f)')
        /\ Cardinality(Orphans(new, f)') <= Cardinality(Orphans(own, f) \cup {own[r]})
    BY <1>8, <1>9, FS_Subset
  <2>2. /\ Cardinality(Orphans(new, f)') \in Nat
        /\ Cardinality(Orphans(own, f) \cup {own[r]}) \in Nat
    BY <2>1, <1>9, FS_CardinalityType
  <2>3. QED
    BY <1>1, <1>9, <2>1, <2>2
<1>11. QED
  BY <1>2, <1>4, <1>7, <1>10

\* After a commit a run's own row is the one it has added, or the one it had
\* and has still to execute.
LEMMA CommitMatched ==
  ASSUME LoopTyped, Sessions, Matched, NEW r \in Runners, run[r].pc = "execute",
         CommitRows(r), UNCHANGED aborts,
         \A q \in Runners \ {r} : run'[q] = run[q],
         \/ run[r].left = {}
         \/ /\ run'[r].pc = "record"
            /\ run[r].left \subseteq run'[r].left \cup ({run'[r].current} \ {NoRow})
  PROVE  Matched'
<1> SUFFICES ASSUME aborts <= MaxAborts, NEW f \in Findings
             PROVE  (\E own \in [Runners -> Slots \cup {NoRow}] :
                       OwnRows(own, f) /\ Cardinality(Orphans(own, f)) <= aborts)'
  BY DEF Matched
<1>1. PICK own \in [Runners -> Slots \cup {NoRow}] :
        OwnRows(own, f) /\ Cardinality(Orphans(own, f)) <= aborts
  BY DEF Matched
<1> DEFINE Mine == {s \in Slots : s \in run[r].left /\ Finding(s) = f /\ Added(r, s)}
           kept == IF Mine # {} THEN CHOOSE s \in Mine : TRUE
                   ELSE IF own[r] \in run[r].left \ DOMAIN draft[r] THEN own[r] ELSE NoRow
<1>2. run[r].current = NoRow /\ run[r].left \subseteq Slots
  BY RunFacts
<1>3. \A s \in Slots : Added(r, s) => s \in run[r].left
  BY <1>2, SlotFacts DEF Sessions, AddedIsPrivate
<1>4. \A s \in Mine : s = kept
  BY DEF Sessions, AddedIsPrivate
<1>5. kept # NoRow => kept \in run[r].left /\ Finding(kept) = f
  BY <1>1, SlotFacts DEF OwnRows
<1>6. kept \in Slots \cup {NoRow}
  BY <1>2, <1>5
<1>7. Mine = {} /\ own[r] \in run[r].left \ DOMAIN draft[r] => own[r] = kept
  OBVIOUS
<1> HIDE DEF kept
<1>8. PICK new \in [Runners -> Slots \cup {NoRow}] : new[r] = kept /\ \A q \in Runners \ {r} : new[q] = own[q]
  <2>1. [own EXCEPT ![r] = kept] \in [Runners -> Slots \cup {NoRow}]
    BY <1>1, <1>6
  <2>2. QED
    BY <2>1
<1>9. (\A q \in Runners \ {r} : draft'[q] = draft[q]) /\ DOMAIN draft'[r] = {}
  BY EmptyFacts DEF CommitRows, LoopTyped, Tables
<1>10. ASSUME NEW q \in Runners, new[q] # NoRow
       PROVE  /\ new[q] \in Taken(q)' /\ Finding(new[q]) = f
              /\ run'[q].pc \in {"execute", "record"}
              /\ \A s \in Slots : Added(q, s)' => Finding(s) # f
  <2>1. CASE q = r
    <3>1. new[q] = kept /\ kept \in run[r].left
      BY <2>1, <1>5, <1>8, <1>10
    <3>2. run'[r].pc = "record" /\ kept \in Taken(r)'
      BY <3>1 DEF Taken
    <3>3. QED
      BY <2>1, <3>1, <3>2, <1>5, <1>9, <1>10 DEF Added
  <2>2. CASE q # r
    <3>1. /\ own[q] \in Taken(q) /\ Finding(own[q]) = f
          /\ run[q].pc \in {"execute", "record"} /\ new[q] = own[q]
          /\ \A s \in Slots : Added(q, s) => Finding(s) # f
      BY <2>2, <1>1, <1>8, <1>10 DEF OwnRows
    <3>2. QED
      BY <2>2, <3>1, <1>9 DEF Taken, Added
  <2>3. QED
    BY <2>1, <2>2
<1>11. OwnRows(new, f)'
  BY <1>10 DEF OwnRows
<1>12. ASSUME NEW s \in pending', Finding(s) = f, \A q \in Runners : new[q] # s
       PROVE  s \in pending /\ \A q \in Runners : own[q] # s
  <2>1. s \notin Mine
    BY <1>4, <1>8, <1>12
  <2>2. s \in pending \ DOMAIN draft[r]
    <3>1. s \in DOMAIN draft[r] /\ draft[r][s] = "pending" => s \in Mine
      BY <1>3, <1>12, RunFacts DEF Added
    <3>2. QED
      BY <2>1, <3>1 DEF CommitRows
  <2>3. s \in Slots /\ s # NoRow
    BY <2>2, SlotFacts DEF LoopTyped, GuardianTypeOK
  <2>4. own[r] # s
    <3>1. SUFFICES ASSUME own[r] = s
                   PROVE  FALSE
      OBVIOUS
    <3>2. s \in Taken(r) /\ \A t \in Slots : Added(r, t) => Finding(t) # f
      BY <3>1, <2>3, <1>1 DEF OwnRows
    <3>3. s \in run[r].left /\ Mine = {}
      BY <3>2, <2>2, <1>2 DEF Taken
    <3>4. QED
      BY <3>1, <3>3, <2>2, <1>7, <1>8, <1>12
  <2>5. QED
    BY <2>2, <2>4, <1>8, <1>12
<1>13. Orphans(new, f)' \subseteq Orphans(own, f)
  BY <1>12 DEF Orphans
<1>14. Cardinality(Orphans(new, f)') <= aborts
  <2>1. aborts \in Nat
    BY RowsAssumption DEF LoopTyped, GuardianTypeOK
  <2>2. QED
    BY <2>1, <1>1, <1>13, OrphansFinite, FS_Subset, FS_CardinalityType
<1>15. QED
  BY <1>8, <1>11, <1>14

----------------------------------------------------------------------------
(* The steps.                                                               *)

LEMMA ForceKept ==
  ASSUME ForceIsAsked, NEW r \in Runners,
         \A q \in Runners \ {r} : draft'[q] = draft[q] /\ force'[q] = force[q],
         \A a \in DOMAIN force'[r] :
            \/ a \in DOMAIN force[r] /\ force'[r][a] = force[r][a]
            \/ \E s \in DoneTo(r, a)' : force'[r][a] = StatusFor(Finding(s)),
         \A s \in DOMAIN draft[r] :
            /\ DOMAIN force'[r] # {} /\ draft[r][s] = "executed"
            /\ Enforces(Finding(s)) /\ AgentOf[Finding(s)] \in DOMAIN force[r]
            => s \in DOMAIN draft'[r] /\ draft'[r][s] = "executed"
  PROVE  ForceIsAsked'
<1>1. ASSUME NEW q \in Runners, NEW a \in DOMAIN force'[q]
      PROVE  \E s \in DoneTo(q, a)' : force'[q][a] = StatusFor(Finding(s))
  <2>1. CASE q # r
    <3>1. PICK s \in DoneTo(q, a) : force[q][a] = StatusFor(Finding(s))
      BY <2>1 DEF ForceIsAsked
    <3>2. s \in DoneTo(q, a)'
      BY <2>1 DEF DoneTo
    <3>3. QED
      BY <2>1, <3>1, <3>2
  <2>2. CASE q = r /\ a \in DOMAIN force[r] /\ force'[r][a] = force[r][a]
    <3>1. PICK s \in DoneTo(r, a) : force[r][a] = StatusFor(Finding(s))
      BY <2>2 DEF ForceIsAsked
    <3>2. s \in DoneTo(r, a)'
      BY <2>2 DEF DoneTo
    <3>3. QED
      BY <2>2, <3>1, <3>2
  <2>3. QED
    BY <2>1, <2>2
<1>2. QED
  BY <1>1 DEF ForceIsAsked

Kept == Sessions /\ ForceIsAsked /\ Matched

LEMMA OutsideKeeps ==
  ASSUME LoopInv, UNCHANGED <<pending, run, draft, force, aborts>>
  PROVE  Kept'
<1>1. Sessions'
  BY DEF LoopInv, Sessions, DraftsDisjoint, AddedIsPrivate, EvaluatesFirst, Added, Taken
<1>2. ForceIsAsked'
  BY DEF LoopInv, ForceIsAsked, DoneTo
<1>3. Matched'
  <2> SUFFICES ASSUME aborts <= MaxAborts, NEW f \in Findings
               PROVE  (\E own \in [Runners -> Slots \cup {NoRow}] :
                         OwnRows(own, f) /\ Cardinality(Orphans(own, f)) <= aborts)'
    BY DEF Matched
  <2>1. PICK own \in [Runners -> Slots \cup {NoRow}] :
          OwnRows(own, f) /\ Cardinality(Orphans(own, f)) <= aborts
    BY DEF LoopInv, Matched
  <2>2. OwnRows(own, f)' /\ Orphans(own, f)' = Orphans(own, f)
    BY <2>1 DEF OwnRows, Orphans, Added, Taken
  <2>3. QED
    BY <2>1, <2>2
<1>4. QED
  BY <1>1, <1>2, <1>3 DEF Kept

\* A step of the session that reads and does not write.
LEMMA ReaderKeeps ==
  ASSUME LoopInv, NEW r \in Runners, UNCHANGED <<db, draft, force, aborts>>,
         \A q \in Runners \ {r} : run'[q] = run[q],
         \A s \in run'[r].left : s \in Slots /\ SeesPending(r, s),
         run'[r].current = NoRow, run[r].pc \notin {"execute", "record"},
         \/ run'[r].pc = "evaluate" /\ run'[r].left = {}
         \/ run'[r].pc # "evaluate" /\ \A s \in Slots : Added(r, s) => s \in run'[r].left
  PROVE  Kept'
<1>1. Sessions'
  BY ReadsSessions DEF LoopInv, db
<1>2. ForceIsAsked'
  BY DEF LoopInv, ForceIsAsked, DoneTo
<1>3. Matched'
  BY KeepsMatched DEF LoopInv, db
<1>4. QED
  BY <1>1, <1>2, <1>3 DEF Kept

LEMMA StartKeeps ==
  ASSUME LoopInv, NEW r \in Runners, Start(r)
  PROVE  Kept'
<1>1. run[r] = NotRunning /\ run[r].pc = "idle" /\ UNCHANGED <<db, draft, force, aborts>>
  BY RunFacts DEF Start, LoopInv
<1>2. /\ run'[r].pc = "evaluate" /\ run'[r].left = {} /\ run'[r].current = NoRow
      /\ \A q \in Runners \ {r} : run'[q] = run[q]
  BY <1>1 DEF Start, LoopInv, LoopTyped, Tables, NotRunning
<1>3. QED
  BY <1>1, <1>2, ReaderKeeps

LEMMA OpenActionKeeps ==
  ASSUME LoopInv, NEW r \in Runners, NEW s \in Slots, OpenAction(r, s)
  PROVE  Kept'
<1>1. run[r] = NotRunning /\ run[r].pc = "idle" /\ draft[r] = Empty
  BY RunFacts DEF OpenAction, LoopInv
<1>2. /\ run'[r].pc = "execute" /\ run'[r].left = {s} /\ run'[r].current = NoRow
      /\ \A q \in Runners \ {r} : run'[q] = run[q]
  BY <1>1 DEF OpenAction, LoopInv, LoopTyped, Tables, NotRunning
<1>3. SeesPending(r, s) /\ \A t \in Slots : ~Added(r, t)
  BY <1>1, EmptyFacts DEF OpenAction, SeesPending, Added
<1>4. UNCHANGED <<db, draft, force, aborts>>
  BY DEF OpenAction
<1>5. QED
  BY <1>1, <1>2, <1>3, <1>4, ReaderKeeps

LEMMA SelectPendingKeeps ==
  ASSUME LoopInv, NEW r \in Runners, SelectPending(r)
  PROVE  Kept'
<1>1. run[r].pc = "evaluate" /\ run[r].current = NoRow
  BY RunFacts, SlotFacts DEF SelectPending, LoopInv
<1>2. /\ run'[r].pc = "execute" /\ run'[r].left = PendingActions(r) /\ run'[r].current = NoRow
      /\ \A q \in Runners \ {r} : run'[q] = run[q]
  <2>1. run[r] \in RunTypes
    BY RunFacts DEF LoopInv
  <2>2. QED
    BY <1>1, <2>1 DEF SelectPending, LoopInv, LoopTyped, Tables, RunTypes
<1>3. /\ \A s \in PendingActions(r) : s \in Slots /\ SeesPending(r, s)
      /\ \A s \in Slots : Added(r, s) => s \in PendingActions(r)
  BY DEF PendingActions, SeesPending, Added
<1>4. UNCHANGED <<db, draft, force, aborts>>
  BY DEF SelectPending
<1>5. QED
  BY <1>1, <1>2, <1>3, <1>4, ReaderKeeps

LEMMA ConsiderKeeps ==
  ASSUME LoopInv, NEW r \in Runners, NEW f \in Findings, Consider(r, f)
  PROVE  Kept'
<1>1. run[r].pc = "evaluate" /\ run[r].current = NoRow /\ run[r].left = {}
  BY RunFacts, SlotFacts DEF Consider, LoopInv, Sessions, EvaluatesFirst
<1>2. /\ run'[r].pc = "evaluate" /\ run'[r].left = {} /\ run'[r].current = NoRow
      /\ \A q \in Runners \ {r} : run'[q] = run[q]
  <2>1. run[r] \in RunTypes
    BY RunFacts DEF LoopInv
  <2>2. QED
    BY <1>1, <2>1 DEF Consider, LoopInv, LoopTyped, Tables, RunTypes
<1>3. CASE UNCHANGED draft
  <2>1. UNCHANGED <<db, draft, force, aborts>>
    BY <1>3 DEF Consider
  <2>2. QED
    BY <1>1, <1>2, <2>1, ReaderKeeps
<1>4. CASE /\ PendingFor(r, f) = {} /\ Unused(f) # {}
           /\ draft' = [draft EXCEPT ![r] = Written(@, NextSlot(f), "pending")]
  <2>1. UNCHANGED pending /\ UNCHANGED aborts /\ UNCHANGED force
    BY DEF Consider, db
  <2>2. Sessions'
    BY <1>1, <1>2, <1>4, <2>1, AddsSessions DEF LoopInv
  <2>3. \A q \in Runners \ {r} : draft'[q] = draft[q]
    BY <1>4 DEF LoopInv, LoopTyped, Tables
  <2>4. Matched'
    BY <1>1, <1>2, <2>1, <2>3, KeepsMatched DEF LoopInv
  <2>5. \A s \in DOMAIN draft[r] : draft[r][s] = "executed" =>
           s \in DOMAIN draft'[r] /\ draft'[r][s] = "executed"
    <3>1. draft'[r] = Written(draft[r], NextSlot(f), "pending")
      BY <1>4 DEF LoopInv, LoopTyped, Tables
    <3>2. NextSlot(f) \notin DOMAIN draft[r]
      BY <1>4, NextSlotUnused DEF Unused, Taken
    <3>3. QED
      BY <3>1, <3>2 DEF Written
  <2>6. ForceIsAsked'
    BY <2>1, <2>3, <2>5, ForceKept DEF LoopInv
  <2>7. QED
    BY <2>2, <2>4, <2>6 DEF Kept
<1>5. QED
  BY <1>3, <1>4 DEF Consider

\* The session writes the result of a row it holds.
LEMMA WriterKeeps ==
  ASSUME LoopInv, NEW r \in Runners, NEW s \in Slots, NEW v, v # "pending",
         UNCHANGED <<db, aborts>>,
         \A q \in Runners \ {r} : run'[q] = run[q] /\ force'[q] = force[q],
         s \in run[r].left \cup {run[r].current}, Unlocked(r, s), Result(r, s, v),
         run[r].pc \in {"execute", "record"}, run'[r].pc = "execute",
         run'[r].left \cup ({run'[r].current} \ {NoRow}) \cup {s}
            = run[r].left \cup ({run[r].current} \ {NoRow}),
         v = "executed" \/ AgentOf[Finding(s)] \notin Agents,
         \A a \in DOMAIN force'[r] :
            \/ a \in DOMAIN force[r] /\ force'[r][a] = force[r][a]
            \/ /\ a = AgentOf[Finding(s)] /\ Enforces(Finding(s))
               /\ v = "executed" /\ force'[r][a] = StatusFor(Finding(s))
  PROVE  Kept'
<1>1. UNCHANGED pending /\ UNCHANGED aborts
  BY DEF db
<1>2. /\ \A q \in Runners \ {r} : draft'[q] = draft[q]
      /\ draft'[r] = Written(draft[r], s, v)
  BY DEF LoopInv, LoopTyped, Tables, Result
<1>3. /\ DOMAIN draft'[r] = DOMAIN draft[r] \cup {s}
      /\ draft'[r][s] = v
      /\ \A t \in DOMAIN draft[r] \ {s} : draft'[r][t] = draft[r][t]
  BY <1>2 DEF Written
<1>4. Sessions'
  BY <1>1, ExecutesSessions DEF LoopInv
<1>5. Matched'
  <2>1. Taken(r) \subseteq run'[r].left \cup ({run'[r].current} \ {NoRow}) \cup DOMAIN draft'[r]
    BY <1>3 DEF Taken
  <2>2. \A t \in DOMAIN draft'[r] :
           draft'[r][t] = "pending" => t \in DOMAIN draft[r] /\ draft[r][t] = "pending"
    BY <1>3
  <2>3. QED
    BY <1>1, <1>2, <2>1, <2>2, KeepsMatched DEF LoopInv
<1>6. ForceIsAsked'
  <2>1. \A a \in DOMAIN force'[r] :
           \/ a \in DOMAIN force[r] /\ force'[r][a] = force[r][a]
           \/ \E t \in DoneTo(r, a)' : force'[r][a] = StatusFor(Finding(t))
    BY <1>3 DEF DoneTo
  <2>2. \A t \in DOMAIN draft[r] :
           /\ DOMAIN force'[r] # {} /\ draft[r][t] = "executed"
           /\ Enforces(Finding(t)) /\ AgentOf[Finding(t)] \in DOMAIN force[r]
           => t \in DOMAIN draft'[r] /\ draft'[r][t] = "executed"
    BY <1>3, RunFacts DEF LoopInv
  <2>3. QED
    BY <1>2, <2>1, <2>2, ForceKept DEF LoopInv
<1>7. QED
  BY <1>4, <1>5, <1>6 DEF Kept

\* Where a session stands after it executed a row.
LEMMA LeftFacts ==
  ASSUME LoopTyped, NEW r \in Runners, NEW s \in Slots, run[r].pc = "execute", s \in run[r].left,
         run' = [run EXCEPT ![r].left = @ \ {s}]
  PROVE  /\ run'[r].pc = "execute" /\ run'[r].left = run[r].left \ {s}
         /\ run'[r].current = run[r].current
         /\ \A q \in Runners \ {r} : run'[q] = run[q]
<1>1. run[r] \in RunTypes
  BY RunFacts
<1>2. QED
  BY <1>1 DEF LoopTyped, Tables, RunTypes

LEMMA AlertKeeps ==
  ASSUME LoopInv, NEW r \in Runners, NEW s \in Slots, Alert(r, s)
  PROVE  Kept'
<1>1. /\ run[r].pc = "execute" /\ s \in run[r].left /\ Unlocked(r, s) /\ Result(r, s, "executed")
      /\ run' = [run EXCEPT ![r].left = @ \ {s}]
      /\ UNCHANGED <<db, aborts>> /\ UNCHANGED force
  BY DEF Alert
<1>2. /\ run'[r].pc = "execute" /\ run'[r].left = run[r].left \ {s}
      /\ run'[r].current = run[r].current
      /\ \A q \in Runners \ {r} : run'[q] = run[q]
  BY <1>1, LeftFacts DEF LoopInv
<1>3. QED
  BY <1>1, <1>2, WriterKeeps

LEMMA EnforceKeeps ==
  ASSUME LoopInv, NEW r \in Runners, NEW s \in Slots, Enforce(r, s)
  PROVE  Kept'
<1> DEFINE a == AgentOf[Finding(s)]
<1>1. /\ run[r].pc = "execute" /\ s \in run[r].left /\ Unlocked(r, s) /\ Enforces(Finding(s))
      /\ run' = [run EXCEPT ![r].left = @ \ {s}]
      /\ UNCHANGED <<db, aborts>>
  BY DEF Enforce
<1>2. /\ run'[r].pc = "execute" /\ run'[r].left = run[r].left \ {s}
      /\ run'[r].current = run[r].current
      /\ \A q \in Runners \ {r} : run'[q] = run[q]
  BY <1>1, LeftFacts DEF LoopInv
<1>3. CASE UNCHANGED force /\ Result(r, s, "executed")
  BY <1>1, <1>2, <1>3, WriterKeeps
<1>4. CASE a = NoAgent /\ UNCHANGED force /\ Result(r, s, "failed")
  <2>1. a \notin Agents
    BY <1>4, SetsAssumption
  <2>2. QED
    BY <1>1, <1>2, <1>4, <2>1, WriterKeeps
<1>5. CASE force' = [force EXCEPT ![r] = Written(@, a, StatusFor(Finding(s)))] /\ Result(r, s, "executed")
  <2>1. /\ \A q \in Runners \ {r} : force'[q] = force[q]
        /\ force'[r] = Written(force[r], a, StatusFor(Finding(s)))
    BY <1>5 DEF LoopInv, LoopTyped, Tables
  <2>2. \A b \in DOMAIN force'[r] :
            \/ b \in DOMAIN force[r] /\ force'[r][b] = force[r][b]
            \/ b = a /\ force'[r][b] = StatusFor(Finding(s))
    BY <2>1 DEF Written
  <2>3. QED
    BY <1>1, <1>2, <1>5, <2>1, <2>2, WriterKeeps
<1>6. QED
  BY <1>3, <1>4, <1>5 DEF Enforce

LEMMA RecordKeeps ==
  ASSUME LoopInv, NEW r \in Runners, Record(r)
  PROVE  Kept'
<1> DEFINE s == run[r].current
<1>1. s \in Slots /\ run[r].pc = "record" /\ run[r] \in RunTypes
  BY RunFacts DEF LoopInv, Record
<1>2. Unlocked(r, s) /\ Result(r, s, "executed") /\ UNCHANGED <<db, aborts>> /\ UNCHANGED force
  BY DEF Record
<1>3. /\ run'[r].pc = "execute" /\ run'[r].left = run[r].left /\ run'[r].current = NoRow
      /\ \A q \in Runners \ {r} : run'[q] = run[q]
  BY <1>1 DEF Record, LoopInv, LoopTyped, Tables, RunTypes
<1>4. PICK c \in Slots : c = run[r].current
  BY <1>1
<1>5. QED
  BY <1>1, <1>2, <1>3, <1>4, SlotFacts, WriterKeeps

\* A commit, in mid-run or at the end.
LEMMA CommitKeeps ==
  ASSUME LoopInv, NEW r \in Runners, CommitDrafts(r), UNCHANGED aborts,
         run[r].pc = "execute", \A q \in Runners \ {r} : run'[q] = run[q],
         run'[r].left \cup ({run'[r].current} \ {NoRow}) \subseteq Taken(r),
         \/ run[r].left = {} /\ run'[r].pc = "idle"
         \/ /\ run'[r].pc = "record"
            /\ run[r].left \subseteq run'[r].left \cup ({run'[r].current} \ {NoRow})
  PROVE  Kept'
<1>1. CommitRows(r)
  BY DEF CommitDrafts
<1>2. /\ draft' = [draft EXCEPT ![r] = Empty] /\ force' = [force EXCEPT ![r] = Empty]
      /\ pending' \subseteq pending \cup DOMAIN draft[r]
  BY <1>1 DEF CommitRows
<1>3. Sessions'
  BY <1>2, EndsSessions DEF LoopInv
<1>4. Matched'
  BY <1>1, CommitMatched DEF LoopInv
<1>5. /\ \A q \in Runners \ {r} : draft'[q] = draft[q] /\ force'[q] = force[q]
      /\ DOMAIN force'[r] = {}
  BY <1>2, EmptyFacts DEF LoopInv, LoopTyped, Tables
<1>6. ForceIsAsked'
  BY <1>5, ForceKept DEF LoopInv
<1>7. QED
  BY <1>3, <1>4, <1>6 DEF Kept

LEMMA DeliverKeeps ==
  ASSUME LoopInv, NEW r \in Runners, NEW s \in Slots, Deliver(r, s)
  PROVE  Kept'
<1>1. /\ run[r].pc = "execute" /\ s \in run[r].left /\ run[r] \in RunTypes
      /\ CommitDrafts(r) /\ UNCHANGED aborts
  BY RunFacts DEF LoopInv, Deliver
<1>2. /\ run'[r].pc = "record" /\ run'[r].left = run[r].left \ {s} /\ run'[r].current = s
      /\ \A q \in Runners \ {r} : run'[q] = run[q]
  BY <1>1 DEF Deliver, LoopInv, LoopTyped, Tables, RunTypes
<1>3. QED
  BY <1>1, <1>2, SlotFacts, CommitKeeps DEF Taken

LEMMA CommitEndKeeps ==
  ASSUME LoopInv, NEW r \in Runners, Commit(r)
  PROVE  Kept'
<1>1. run[r].pc = "execute" /\ run[r].left = {} /\ CommitDrafts(r) /\ UNCHANGED aborts
  BY DEF Commit
<1>2. run'[r] = NotRunning /\ \A q \in Runners \ {r} : run'[q] = run[q]
  BY DEF Commit, LoopInv, LoopTyped, Tables
<1>3. QED
  BY <1>1, <1>2, EmptyFacts, CommitKeeps

LEMMA RollbackKeeps ==
  ASSUME LoopInv, NEW r \in Runners, Rollback(r),
         \/ run[r].pc = "evaluate" /\ UNCHANGED aborts
         \/ aborts' = IF aborts <= MaxAborts THEN aborts + 1 ELSE aborts
  PROVE  Kept'
<1>1. /\ draft' = [draft EXCEPT ![r] = Empty] /\ force' = [force EXCEPT ![r] = Empty]
      /\ run' = [run EXCEPT ![r] = NotRunning] /\ UNCHANGED pending
  BY DEF Rollback, db
<1>2. /\ \A q \in Runners \ {r} : run'[q] = run[q] /\ draft'[q] = draft[q] /\ force'[q] = force[q]
      /\ run'[r] = NotRunning /\ DOMAIN force'[r] = {}
  BY <1>1, EmptyFacts DEF LoopInv, LoopTyped, Tables
<1>3. Sessions'
  BY <1>1, <1>2, EmptyFacts, EndsSessions DEF LoopInv
<1>4. ForceIsAsked'
  BY <1>2, ForceKept DEF LoopInv
<1>5. Matched'
  <2>1. CASE run[r].pc = "evaluate" /\ UNCHANGED aborts
    BY <2>1, <1>1, <1>2, KeepsMatched DEF LoopInv
  <2>2. CASE aborts' = IF aborts <= MaxAborts THEN aborts + 1 ELSE aborts
    BY <2>2, AbortMatched DEF LoopInv
  <2>3. QED
    BY <2>1, <2>2
<1>6. QED
  BY <1>3, <1>4, <1>5 DEF Kept

LEMMA LoopInit ==
  ASSUME GuardianInit
  PROVE  LoopInv
<1>1. LoopTyped
  BY LoopTypedInit
<1>2. \A r \in Runners : run[r] = NotRunning /\ DOMAIN draft[r] = {} /\ DOMAIN force[r] = {}
  BY EmptyFacts DEF GuardianInit
<1>3. Sessions
  BY <1>2, EmptyFacts DEF Sessions, DraftsDisjoint, AddedIsPrivate, EvaluatesFirst, Added
<1>4. ForceIsAsked
  BY <1>2 DEF ForceIsAsked
<1>5. Matched
  <2> SUFFICES ASSUME NEW f \in Findings
               PROVE  \E own \in [Runners -> Slots \cup {NoRow}] :
                         OwnRows(own, f) /\ Cardinality(Orphans(own, f)) <= aborts
    BY DEF Matched
  <2> DEFINE none == [r \in Runners |-> NoRow]
  <2>1. none \in [Runners -> Slots \cup {NoRow}] /\ OwnRows(none, f)
    BY DEF OwnRows
  <2>2. Orphans(none, f) = {} /\ aborts = 0
    BY DEF Orphans, GuardianInit
  <2>3. QED
    BY <2>1, <2>2, FS_EmptySet
<1>6. QED
  BY <1>1, <1>3, <1>4, <1>5 DEF LoopInv

LEMMA LoopStep ==
  ASSUME LoopInv, [GuardianNext]_guardianVars
  PROVE  LoopInv'
<1>1. ASSUME NEW r \in Runners, TooMany(r) \/ Deadlocked(r) \/ Die(r)
      PROVE  Kept'
  <2>1. CASE TooMany(r)
    BY <2>1, RollbackKeeps DEF TooMany
  <2>2. CASE Deadlocked(r)
    BY <2>2, RollbackKeeps DEF Deadlocked
  <2>3. CASE Die(r)
    <3>1. aborts \in Nat /\ MaxAborts \in Nat
      BY RowsAssumption DEF LoopInv, LoopTyped, GuardianTypeOK
    <3>2. aborts' = IF aborts <= MaxAborts THEN aborts + 1 ELSE aborts
      BY <2>3, <3>1 DEF Die
    <3>3. Rollback(r)
      BY <2>3 DEF Die
    <3>4. QED
      BY <3>2, <3>3, RollbackKeeps
  <2>4. QED
    BY <1>1, <2>1, <2>2, <2>3
<1>2. ASSUME NEW r \in Runners, Step(r)
      PROVE  Kept'
  <2>1. CASE SelectPending(r) \/ Record(r) \/ Commit(r)
    BY <2>1, SelectPendingKeeps, RecordKeeps, CommitEndKeeps
  <2>2. CASE TooMany(r) \/ Deadlocked(r)
    BY <2>2, <1>1
  <2>3. CASE \E f \in Findings : Consider(r, f)
    BY <2>3, ConsiderKeeps
  <2>4. CASE \E s \in Slots : Enforce(r, s) \/ Alert(r, s) \/ Deliver(r, s)
    BY <2>4, EnforceKeeps, AlertKeeps, DeliverKeeps
  <2>5. QED
    BY <1>2, <2>1, <2>2, <2>3, <2>4, RunFacts DEF Step, LoopInv
<1>3. ASSUME GuardianNext
      PROVE  Kept'
  <2>1. CASE \E f \in Findings : Acknowledge(f) \/ ExecuteAgain(f)
    BY <2>1, OutsideKeeps DEF Acknowledge, ExecuteAgain
  <2>2. CASE \E a \in Agents : Register(a)
    BY <2>2, OutsideKeeps DEF Register
  <2>3. CASE \E r \in Runners : Start(r) \/ Step(r) \/ Die(r)
    BY <2>3, <1>1, <1>2, StartKeeps
  <2>4. CASE \E r \in Consoles, s \in Slots : OpenAction(r, s)
    BY <2>4, OpenActionKeeps, SetsAssumption
  <2>5. QED
    BY <1>3, <2>1, <2>2, <2>3, <2>4 DEF GuardianNext
<1>4. ASSUME UNCHANGED guardianVars
      PROVE  Kept'
  <2>1. UNCHANGED <<pending, run, draft, force, aborts>>
    BY <1>4 DEF guardianVars, db
  <2>2. QED
    BY <2>1, OutsideKeeps
<1>5. Kept'
  <2>1. GuardianNext \/ UNCHANGED guardianVars
    OBVIOUS
  <2>2. QED
    BY <2>1, <1>3, <1>4, Zenon
<1>6. LoopTyped'
  BY LoopTypedStep DEF LoopInv
<1>7. QED
  BY <1>5, <1>6 DEF LoopInv, Kept

LEMMA LoopHolds == GuardianSpec => []LoopInv
<1>1. GuardianInit => LoopInv
  BY LoopInit
<1>2. LoopInv /\ [GuardianNext]_guardianVars => LoopInv'
  BY LoopStep
<1>3. QED
  BY <1>1, <1>2, PTL DEF GuardianSpec

\* The rows of a finding that no session holds are nobody's own: no more than
\* the runs that ended early.
LEMMA NotWedged ==
  ASSUME LoopInv
  PROVE  OneAbortNeverWedges
<1> SUFFICES ASSUME aborts < 2, NEW f \in Findings
             PROVE  ~(Cardinality({s \in pending : Finding(s) = f /\ \A r \in Runners : s \notin Taken(r)}) > 1)
  BY DEF OneAbortNeverWedges, Wedged
<1> DEFINE Free == {s \in pending : Finding(s) = f /\ \A r \in Runners : s \notin Taken(r)}
<1>1. aborts \in Nat /\ aborts <= MaxAborts
  BY RowsAssumption DEF LoopInv, LoopTyped, GuardianTypeOK
<1>2. PICK own \in [Runners -> Slots \cup {NoRow}] :
        OwnRows(own, f) /\ Cardinality(Orphans(own, f)) <= aborts
  BY <1>1 DEF LoopInv, Matched
<1>3. pending \subseteq Slots
  BY DEF LoopInv, LoopTyped, GuardianTypeOK
<1>4. Free \subseteq Orphans(own, f)
  BY <1>2, <1>3, SlotFacts DEF Orphans, OwnRows
<1>5. IsFiniteSet(Orphans(own, f)) /\ Cardinality(Orphans(own, f)) \in Nat
  BY OrphansFinite DEF LoopInv
<1> HIDE DEF Free
<1>6. Cardinality(Free) \in Nat /\ Cardinality(Free) <= Cardinality(Orphans(own, f))
  BY <1>4, <1>5, FS_Subset, FS_CardinalityType
<1>7. Cardinality(Free) <= 1
  BY <1>1, <1>2, <1>5, <1>6
<1>8. QED
  BY <1>6, <1>7 DEF Free

\* What sessions hold exists, and from pending actions nobody holds the loop
\* stays wedged only after two early ends (run_guardian_loop, _has_pending_action).
THEOREM GuardianInvHolds == GuardianSpec => []GuardianInv
<1>1. LoopInv => GuardianInv
  BY NotWedged DEF LoopInv, LoopTyped, GuardianInv
<1>2. QED
  BY <1>1, LoopHolds, PTL

\* Whose commit it is: only the session that wrote an action's row takes it out
\* of the pending ones, and then the agent's row comes with it.
LEMMA CommitEnforces ==
  ASSUME LoopInv, [GuardianNext]_guardianVars, NEW r \in Runners, NEW a \in DOMAIN force[r],
         NEW s \in DoneTo(r, a), Arrives(r, s)
  PROVE  status'[a] \in {StatusFor(Finding(t)) : t \in DoneTo(r, a)}
<1>1. s \in DOMAIN draft[r] /\ s \in Slots
  BY RunFacts DEF DoneTo, LoopInv
<1>2. ASSUME UNCHANGED <<pending, handled>>
      PROVE  FALSE
  BY <1>2 DEF Arrives
<1>3. ASSUME NEW q \in Runners, CommitDrafts(q), q # r
      PROVE  FALSE
  <2>1. force'[r] = force[r]
    BY <1>3 DEF CommitDrafts, CommitRows, LoopInv, LoopTyped, Tables
  <2>2. s \in pending \ pending'
    BY <2>1 DEF Arrives
  <2>3. s \in DOMAIN draft[q]
    BY <1>3, <2>2 DEF CommitDrafts, CommitRows
  <2>4. QED
    BY <1>1, <1>3, <2>3 DEF LoopInv, Sessions, DraftsDisjoint
<1>4. ASSUME CommitDrafts(r)
      PROVE  status'[a] \in {StatusFor(Finding(t)) : t \in DoneTo(r, a)}
  <2>1. a \in Agents
    BY RunFacts DEF LoopInv
  <2>2. status'[a] = force[r][a]
    BY <1>4, <2>1 DEF CommitDrafts, SeenStatus
  <2>3. QED
    BY <2>2 DEF LoopInv, ForceIsAsked
<1>5. ASSUME NEW q \in Runners, CommitDrafts(q)
      PROVE  status'[a] \in {StatusFor(Finding(t)) : t \in DoneTo(r, a)}
  BY <1>3, <1>4, <1>5
<1>6. ASSUME NEW q \in Runners, Start(q) \/ Die(q) \/ TooMany(q) \/ Deadlocked(q)
      PROVE  FALSE
  BY <1>2, <1>6 DEF Start, Die, TooMany, Deadlocked, Rollback, db
<1>7. ASSUME NEW q \in Runners, Step(q)
      PROVE  status'[a] \in {StatusFor(Finding(t)) : t \in DoneTo(r, a)}
  <2>1. CASE SelectPending(q) \/ Record(q) \/ (\E f \in Findings : Consider(q, f))
    BY <2>1, <1>2 DEF SelectPending, Record, Consider, db
  <2>2. CASE Commit(q)
    BY <2>2, <1>5 DEF Commit
  <2>3. ASSUME NEW t \in Slots, Enforce(q, t) \/ Alert(q, t)
        PROVE  FALSE
    BY <2>3, <1>2 DEF Enforce, Alert, db
  <2>4. ASSUME NEW t \in Slots, Deliver(q, t)
        PROVE  status'[a] \in {StatusFor(Finding(u)) : u \in DoneTo(r, a)}
    BY <2>4, <1>5 DEF Deliver
  <2>5. QED
    BY <1>6, <1>7, <2>1, <2>2, <2>3, <2>4, RunFacts DEF Step, LoopInv
<1>8. CASE UNCHANGED guardianVars
  BY <1>8, <1>2 DEF guardianVars, db
<1>9. ASSUME GuardianNext
      PROVE  status'[a] \in {StatusFor(Finding(t)) : t \in DoneTo(r, a)}
  <2>1. CASE \E f \in Findings : Acknowledge(f) \/ ExecuteAgain(f)
    BY <2>1, <1>2 DEF Acknowledge, ExecuteAgain
  <2>2. CASE \E b \in Agents : Register(b)
    BY <2>2, <1>2 DEF Register
  <2>3. CASE \E q \in Runners : Start(q) \/ Step(q) \/ Die(q)
    BY <2>3, <1>6, <1>7
  <2>4. CASE \E q \in Consoles, t \in Slots : OpenAction(q, t)
    BY <2>4, <1>2 DEF OpenAction, db
  <2>5. QED
    BY <1>9, <2>1, <2>2, <2>3, <2>4 DEF GuardianNext
<1>10. QED
  BY <1>8, <1>9

\* An action becomes "executed" with the status of its agent that it, or another
\* of the session's actions on that agent, asks for (execute_remediation).
THEOREM ExecutedIsEnforcedHolds == GuardianSpec => ExecutedIsEnforced
<1>1. LoopInv /\ [GuardianNext]_guardianVars =>
        [\A r \in Runners : \A a \in DOMAIN force[r] :
           (\E s \in DoneTo(r, a) : Arrives(r, s)) =>
               status'[a] \in {StatusFor(Finding(s)) : s \in DoneTo(r, a)}]_guardianVars
  BY CommitEnforces
<1>2. QED
  BY <1>1, LoopHolds, PTL DEF GuardianSpec, ExecutedIsEnforced
=============================================================================
