------------------------------- MODULE Routing -------------------------------
(***************************************************************************)
(* The registry of language model providers and those who read and write   *)
(* it: requests that choose a model, fail over and count each call on its  *)
(* provider's row, the nightly rebalancing of the pool, and administrators *)
(* (backend/app/services/llm_router.py, provider_metrics_service.py, the   *)
(* providers and rules of api/v1/governance.py, api/v1/routing_groups.py). *)
(*                                                                         *)
(* PostgreSQL commits a transaction at once and keeps the rows it has      *)
(* written locked until then; its reads see what is committed and what it  *)
(* has written itself.  The session writes a changed row at its next       *)
(* query.  A row's number stands for its primary key.                      *)
(***************************************************************************)
EXTENDS Integers, FiniteSets, Sequences, SequencesExt

CONSTANTS
    Requests, Admins,
    Names,          \* of providers
    GroupName,      \* of the routing groups that are created
    Fallback,       \* the model of a request without any provider
    Asks,           \* what requests name: models, the group or "auto"
    Likes,          \* <<p, n>>: the SQL pattern p matches the name n, case aside
    Within,         \* <<a, n>>: asking for a finds a provider of name n, by its name or an alias
    Downgrade,      \* Downgrade[a]: what cost arbitrage makes of a frontier model
    Rules,          \* the active routing rules by priority
    Target,         \* Target[x]: the model of rule x
    Keys, NoKey,    \* client API keys, and a request without one
    MemberLists,    \* what a group may consist of
    FirstRows, FirstKeys, \* the providers and the rules' keys at the start
    Full,           \* all of the pool, in units of rounding
    MaxRows, MaxGroups, MaxEdits \* bounds

RuleSet == ToSet(Rules)

ASSUME RoutingAssumption ==
    /\ IsFiniteSet(Requests) /\ "beat" \notin Requests
    /\ NoKey \notin Keys
    /\ Rules \in Seq(RuleSet) /\ {"direct", "group"} \cap RuleSet = {}
    /\ \A n \in Names : <<n, n>> \in Likes
    /\ Full \in Nat \ {0} /\ MaxRows \in Nat /\ MaxGroups \in Nat \ {0} /\ MaxEdits \in Nat
ASSUME FirstAssumption ==
    /\ \E n \in 0..MaxRows :
         FirstRows \in [1..n -> [name : Names, active : BOOLEAN, total : Nat, share : 0..Full]]
    /\ \A s, t \in DOMAIN FirstRows : FirstRows[s].name = FirstRows[t].name => s = t
    /\ FirstKeys \in [RuleSet -> SUBSET Keys]

VARIABLES
    providers,      \* the rows of LLMProvider, by row
    groups,         \* the active rows of RoutingGroup: their members
    assigned,       \* assigned[x]: the rows of RoutingRuleClientKey
    req,            \* the requests' program counters and locals
    beat,           \* the rebalancing run
    draft,          \* what an administrator has checked and not committed
    created,        \* rows given out
    edits,          \* edits and rebalancing runs so far
    noted,          \* noted[s]: the calls whose count was committed to row s
    crossed,        \* rows that two requests counted a call on at once
    settled,        \* the shares: "no", being computed ("run"), or as computed ("yes")
    raced,          \* names two administrators gave at once
    wanted,         \* wanted[g]: the last edit of group g, less providers deleted since
    overwritten,    \* groups edited or pruned between a deletion's read and its commit
    opened,         \* rules that have been without a key
    granted         \* granted[x]: the keys rule x has been assigned

database == <<providers, groups, assigned>>
counts == <<noted, crossed>>
names == <<raced, wanted, overwritten, opened, granted>>
witnessed == <<counts, settled, names>>
routingVars == <<database, req, beat, draft, created, edits, witnessed>>

Rows == 1..MaxRows

\* f with the value v at s.
Put(f, s, v) == [t \in DOMAIN f \cup {s} |-> IF t = s THEN v ELSE f[t]]

\* The sum of f over the set S: the pairs of a member and one of its units.
Sum(f, S) == Cardinality(UNION {{s} \X (1..f[s]) : s \in S})

Nothing == [s \in {} |-> 0]
NoRow == [row |-> 0, total |-> 0]
Fresh == [pc |-> "idle", key |-> NoKey, model |-> "auto", via |-> "direct", cands |-> <<>>,
          counted |-> 0, got |-> FALSE, due |-> NoRow, written |-> Nothing, outcome |-> "none"]
Resting == [pc |-> "idle", todo |-> Nothing, written |-> Nothing]
NoDraft == [op |-> "none", row |-> 0, name |-> GroupName, pruned |-> Nothing]

RoutingInit ==
    /\ providers = FirstRows
    /\ \E m \in MemberLists : groups = [g \in {1} |-> m]
    /\ assigned = FirstKeys
    /\ req = [r \in Requests |-> Fresh]
    /\ beat = Resting
    /\ draft = [a \in Admins |-> NoDraft]
    /\ created = Cardinality(DOMAIN FirstRows) /\ edits = 0
    /\ noted = [s \in Rows |-> IF s \in DOMAIN FirstRows THEN FirstRows[s].total ELSE 0]
    /\ crossed = {} /\ settled = "no" /\ raced = {}
    /\ wanted = groups /\ overwritten = {}
    /\ opened = {x \in RuleSet : FirstKeys[x] = {}} /\ granted = FirstKeys

\* Rows by what a query finds.
Active == {s \in DOMAIN providers : providers[s].active}
Called(n) == {s \in DOMAIN providers : <<n, providers[s].name>> \in Likes}

(***************************************************************************)
(* Choosing a model                                                        *)
(***************************************************************************)
\* A rule without keys is everybody's.
Applies(x, key) == assigned[x] = {} \/ key \in assigned[x]

\* What may be picked of a group, by priority or by weight as its strategy
\* says, and of the pool.
PickMembers(members) ==
    LET weighed == {i \in DOMAIN members : members[i].weight > 0}
        first == {i \in DOMAIN members :
                    \A j \in DOMAIN members :
                      \/ members[i].priority < members[j].priority
                      \/ members[i].priority = members[j].priority /\ i <= j}
    IN  {members[i].model : i \in first \cup weighed \cup (IF weighed = {} THEN {1} ELSE {})}

PickPool(pool) ==
    LET weighed == {p \in pool : p.share > 0}
    IN  {p.name : p \in IF weighed = {} THEN pool ELSE weighed}

Fitting(key, holding) == {i \in DOMAIN Rules : Rules[i] \in holding /\ Applies(Rules[i], key)}

Routed(r, model, via, key) ==
    req' = [req EXCEPT ![r] =
              [@ EXCEPT !.pc = "resolve", !.model = model, !.via = via, !.key = key]]

\* select_model: a provider, a group, a cheaper model or the model itself; what
\* asks for any goes by the first rule that applies and holds, or to the pool.
Route(r, ask, key) ==
    LET pool == {providers[s] : s \in Active}
        found == {p \in pool : <<ask, p.name>> \in Within}
        open == {g \in DOMAIN groups : ask = GroupName /\ groups[g] # <<>>}
        chosen(model, via) == Routed(r, model, via, NoKey)
    IN  /\ req[r].pc = "idle"
        /\ \/ \E p \in found : chosen(p.name, "direct")
           \/ found = {} /\ \E g \in open : \E n \in PickMembers(groups[g]) : chosen(n, "group")
           \/ /\ found = {} /\ open = {}
              /\ \/ ask \in DOMAIN Downgrade /\ chosen(Downgrade[ask], "direct")
                 \/ ask # "auto" /\ chosen(ask, "direct")
                 \/ /\ ask = "auto"
                    /\ \E holding \in SUBSET RuleSet :
                         LET rules == Fitting(key, holding)
                         IN  \/ \E i \in rules : /\ \A j \in rules : i <= j
                                                 /\ Routed(r, Target[Rules[i]], Rules[i], key)
                             \/ rules = {} /\ \E n \in PickPool(pool) : chosen(n, "direct")
                             \/ rules = {} /\ pool = {} /\ chosen(Fallback, "direct")
        /\ UNCHANGED <<database, beat, draft, created, edits, witnessed>>

(***************************************************************************)
(* Calls, and the counts of their providers                                *)
(***************************************************************************)
\* The handler ends; what it has not committed is lost.
Ended(r, outcome) ==
    req' = [req EXCEPT ![r] = [Fresh EXCEPT !.pc = "done", !.outcome = outcome, !.got = req[r].got,
                                            !.counted = req[r].counted, !.via = req[r].via,
                                            !.key = req[r].key]]

\* The members of a group by priority, a stable order.
InOrder(members) ==
    LET ranks == {members[i].priority : i \in DOMAIN members}
        ranked == SetToSortSeq(ranks, <)
    IN  FlattenSeq([k \in DOMAIN ranked |->
                      SelectSeq(members, LAMBDA m : m.priority = ranked[k])])

Candidates(model, members) ==
    FoldLeft(LAMBDA cands, m : IF m.model \in ToSet(cands) THEN cands ELSE cands \o <<m.model>>,
             <<model>>, InOrder(members))

\* The provider's credentials are looked up, and for a chosen group its other
\* members; a stream has no other.  More than one row is an error
\* (scalar_one_or_none) that nobody handles.
Resolve(r) ==
    LET n == req[r].model
        by == IF req[r].via \in RuleSet THEN req[r].via ELSE "direct"
        go(cands) == req' = [req EXCEPT ![r] = [@ EXCEPT !.pc = "call", !.cands = cands,
                                                         !.model = "auto", !.via = by]]
    IN  /\ req[r].pc = "resolve"
        /\ IF Cardinality(Called(n) \cap Active) > 1 THEN Ended(r, "ambiguous")
           ELSE \/ go(<<n>>)
                \/ req[r].via = "group" /\ Cardinality(DOMAIN groups) > 1 /\ Ended(r, "ambiguous")
                \/ /\ req[r].via = "group" /\ Cardinality(DOMAIN groups) = 1
                   /\ \E g \in DOMAIN groups : go(Candidates(n, groups[g]))
        /\ UNCHANGED <<database, beat, draft, created, edits, witnessed>>

\* The provider answers, or fails, or with an error the handler does not know.
\* An answer the policy refuses is not counted.
Call(r) ==
    /\ req[r].pc = "call"
    /\ \/ req' = [req EXCEPT ![r] = [@ EXCEPT !.pc = "count", !.got = TRUE]]
       \/ req' = [req EXCEPT ![r] = [@ EXCEPT !.pc = "count"]]
       \/ req' = [req EXCEPT ![r] = [@ EXCEPT !.pc = "finish", !.outcome = "refused"]]
       \/ Ended(r, "error")
    /\ UNCHANGED <<database, beat, draft, created, edits, witnessed>>

Writers == Requests \cup {"beat"}
Locks(w) == DOMAIN (IF w = "beat" THEN beat.written ELSE req[w].written)
Locked(s, w) == \E v \in Writers \ {w} : s \in Locks(v)

\* A changed row is written by the next query, whatever it asks, once its lock
\* is free; a row that is gone is an error.
Flush(r) ==
    LET s == req[r].due.row
        before == IF s \in Locks(r) THEN req[r].written[s].calls ELSE 0
    IN  /\ req[r].due # NoRow
        /\ IF s \notin DOMAIN providers
           THEN Ended(r, "stale")
           ELSE /\ ~Locked(s, r)
                /\ req' = [req EXCEPT ![r] =
                     [@ EXCEPT !.due = NoRow,
                               !.written = Put(req[r].written, s,
                                               [total |-> req[r].due.total,
                                                calls |-> before + 1])]]
        /\ UNCHANGED <<database, beat, draft, created, edits, witnessed>>

\* A row's count as the request reads it.
Shown(r, s) ==
    IF s \in Locks(r) THEN req[r].written[s].total ELSE providers[s].total

\* (For mutation: the last candidate's answer is taken for a failure.)
CountLast(r) ==
    LET n == Head(req[r].cands)
        rows == Called(n) \cap Active
        rest == Tail(req[r].cands)
        goesOn == IF req[r].got \/ rest = <<>> THEN "finish" ELSE "call"
    IN  /\ req[r].pc = "count" /\ req[r].due = NoRow
        /\ IF Cardinality(rows) > 1
           THEN Ended(r, "ambiguous") /\ UNCHANGED crossed
           ELSE /\ req' = [req EXCEPT ![r] =
                     [@ EXCEPT !.pc = goesOn, !.cands = rest,
                               !.outcome = IF rest = <<>> THEN "outage"
                                           ELSE IF req[r].got THEN "answered"
                                           ELSE req[r].outcome,
                               !.counted = req[r].counted + Cardinality(rows),
                               !.due = IF rows = {} THEN NoRow
                                       ELSE LET s == CHOOSE s \in rows : TRUE
                                            IN  [row |-> s, total |-> Shown(r, s) + 1]]]
                /\ crossed' = crossed \cup
                     {s \in rows : \E q \in Requests \ {r} : req[q].due.row = s \/ s \in Locks(q)}
        /\ UNCHANGED <<database, beat, draft, created, edits, noted, settled, names>>

\* record_provider_request: the row is read, and its count changed in memory.
Count(r) ==
    LET n == Head(req[r].cands)
        rows == Called(n) \cap Active
        rest == Tail(req[r].cands)
        goesOn == IF req[r].got \/ rest = <<>> THEN "finish" ELSE "call"
    IN  /\ req[r].pc = "count" /\ req[r].due = NoRow
        /\ IF Cardinality(rows) > 1
           THEN Ended(r, "ambiguous") /\ UNCHANGED crossed
           ELSE /\ req' = [req EXCEPT ![r] =
                     [@ EXCEPT !.pc = goesOn, !.cands = rest,
                               !.outcome = IF req[r].got THEN "answered"
                                           ELSE IF goesOn = "finish" THEN "outage"
                                           ELSE req[r].outcome,
                               !.counted = req[r].counted + Cardinality(rows),
                               !.due = IF rows = {} THEN NoRow
                                       ELSE LET s == CHOOSE s \in rows : TRUE
                                            IN  [row |-> s, total |-> Shown(r, s) + 1]]]
                /\ crossed' = crossed \cup
                     {s \in rows : \E q \in Requests \ {r} : req[q].due.row = s \/ s \in Locks(q)}
        /\ UNCHANGED <<database, beat, draft, created, edits, noted, settled, names>>

\* A commit stores what was written: absolute counts.
Stored(r) ==
    /\ providers' = [s \in DOMAIN providers |->
                       IF s \in Locks(r)
                       THEN [providers[s] EXCEPT !.total = req[r].written[s].total]
                       ELSE providers[s]]
    /\ noted' = [s \in Rows |-> IF s \in Locks(r) THEN noted[s] + req[r].written[s].calls
                                ELSE noted[s]]

\* An alert of a slow answer commits the session before the answer is counted.
EarlyCommit(r) ==
    /\ req[r].pc = "count" /\ req[r].got /\ req[r].due = NoRow /\ Locks(r) # {}
    /\ Stored(r)
    /\ req' = [req EXCEPT ![r].written = Nothing]
    /\ UNCHANGED <<groups, assigned, beat, draft, created, edits, crossed, settled, names>>

LastCommit(r) ==
    /\ req[r].pc = "finish" /\ req[r].due = NoRow
    /\ Stored(r)
    /\ Ended(r, req[r].outcome)
    /\ UNCHANGED <<groups, assigned, beat, draft, created, edits, crossed, settled, names>>

(***************************************************************************)
(* The rebalancing of the pool                                             *)
(***************************************************************************)
Edit == edits < MaxEdits /\ edits' = edits + 1

Rounded(n, of) == {k \in 0..Full : 2 * (k * of - n * Full) <= of /\ 2 * (n * Full - k * of) <= of}

\* (For mutation: the last one keeps what it had.)
SharesKept(rows, last, part) == Put(part, last, providers[last].share)

\* Each provider's share of the calls; the last one read gets what is left.
Shares(rows, last, part) ==
    LET allocated == Sum(part, rows \ {last})
    IN  Put(part, last, IF allocated > Full THEN 0 ELSE Full - allocated)

BeatRead ==
    LET rows == Active
        calls == [s \in rows |-> providers[s].total]
        total == Sum(calls, rows)
    IN  /\ Edit /\ beat.pc = "idle"
        /\ IF total = 0
           THEN beat' = [beat EXCEPT !.pc = "done"] /\ UNCHANGED settled
           ELSE /\ \E last \in rows : \E part \in [rows \ {last} -> 0..Full] :
                     /\ \A s \in rows \ {last} : part[s] \in Rounded(calls[s], total)
                     /\ LET shares == Shares(rows, last, part)
                            changed == {s \in rows : shares[s] # providers[s].share}
                        IN  beat' = [beat EXCEPT !.pc = "write",
                                                 !.todo = [s \in changed |-> shares[s]]]
                /\ settled' = "run"
        /\ UNCHANGED <<database, req, draft, created, counts, names>>

\* The changed rows are written in the order of their keys.
BeatFlush ==
    /\ beat.pc = "write" /\ beat.todo # Nothing
    /\ LET s == Min(DOMAIN beat.todo)
       IN  IF s \notin DOMAIN providers
           THEN beat' = [Resting EXCEPT !.pc = "done"]
           ELSE /\ ~Locked(s, "beat")
                /\ beat' = [beat EXCEPT !.written = Put(beat.written, s, beat.todo[s]),
                                        !.todo = [t \in DOMAIN beat.todo \ {s} |->
                                                    beat.todo[t]]]
    /\ UNCHANGED <<database, req, draft, created, edits, witnessed>>

BeatCommit ==
    /\ beat.pc = "write" /\ beat.todo = Nothing
    /\ providers' = [s \in DOMAIN providers |->
                       IF s \in Locks("beat") THEN [providers[s] EXCEPT !.share = beat.written[s]]
                       ELSE providers[s]]
    /\ settled' = IF settled = "run" THEN "yes" ELSE settled
    /\ beat' = [Resting EXCEPT !.pc = "done"]
    /\ UNCHANGED <<groups, assigned, req, draft, created, edits, counts, names>>

\* PostgreSQL ends one of the transactions that wait for each other.
Needs(w) ==
    IF w = "beat" THEN (IF beat.todo = Nothing THEN {} ELSE {Min(DOMAIN beat.todo)})
    ELSE {req[w].due.row}

Deadlocked(w) ==
    \E circle \in SUBSET Writers :
      w \in circle /\ circle = {v \in Writers : \E u \in circle : Needs(u) \cap Locks(v) # {}}

Victim(w) ==
    /\ Deadlocked(w)
    /\ IF w = "beat" THEN beat' = [Resting EXCEPT !.pc = "done"] /\ UNCHANGED req
       ELSE Ended(w, "deadlock") /\ UNCHANGED beat
    /\ UNCHANGED <<database, draft, created, edits, witnessed>>

(***************************************************************************)
(* Administrators                                                          *)
(***************************************************************************)
Deleting == \E a \in Admins : draft[a].op = "delete"
Naming(n) == \E a \in Admins : draft[a].op \in {"create", "rename"} /\ draft[a].name = n

\* (For mutation: the name is not looked up.)
UncheckedName(a, op, s, n) ==
    /\ Edit /\ draft[a].op = "none"
    /\ draft' = [draft EXCEPT ![a] = [@ EXCEPT !.op = op, !.row = s, !.name = n]]
    /\ raced' = IF Naming(n) THEN raced \cup {n} ELSE raced
    /\ UNCHANGED <<database, req, beat, created, counts, settled, wanted, overwritten,
                   opened, granted>>

\* A name is looked up, and the row with it is added or changed later.
CheckName(a, op, s, n) ==
    /\ Edit /\ draft[a].op = "none"
    /\ Called(n) \ {s} = {}
    /\ draft' = [draft EXCEPT ![a] = [@ EXCEPT !.op = op, !.row = s, !.name = n]]
    /\ raced' = IF Naming(n) THEN raced \cup {n} ELSE raced
    /\ UNCHANGED <<database, req, beat, created, counts, settled, wanted, overwritten,
                   opened, granted>>

Create(a, n) == created < MaxRows /\ CheckName(a, "create", 0, n)
Rename(a, s, n) == s \in DOMAIN providers /\ CheckName(a, "rename", s, n)

Without(members, n) == SelectSeq(members, LAMBDA m : m.model # n)

\* The groups are read, and the provider taken out of their members.
Delete(a, s) ==
    /\ Edit /\ draft[a].op = "none" /\ s \in DOMAIN providers
    /\ LET n == providers[s].name
           with == {g \in DOMAIN groups : Without(groups[g], n) # groups[g]}
       IN  draft' = [draft EXCEPT ![a] =
              [op |-> "delete", row |-> s, name |-> n,
               pruned |-> [g \in with |-> Without(groups[g], n)]]]
    /\ overwritten' = IF Deleting THEN overwritten \cup DOMAIN groups ELSE overwritten
    /\ UNCHANGED <<database, req, beat, created, counts, settled, raced, wanted,
                   opened, granted>>

CommitName(a) ==
    LET s == IF draft[a].op = "create" THEN created + 1 ELSE draft[a].row
    IN  /\ draft[a].op \in {"create", "rename"}
        /\ ~Locked(s, a)
        /\ \/ /\ draft[a].op = "create" /\ created < MaxRows
              /\ providers' = Put(providers, s, [name |-> draft[a].name, active |-> TRUE,
                                                total |-> 0, share |-> 0])
              /\ created' = s /\ settled' = "no"
           \/ /\ draft[a].op = "rename"
              /\ providers' = [t \in DOMAIN providers |->
                                 IF t = s THEN [providers[t] EXCEPT !.name = draft[a].name]
                                 ELSE providers[t]]
              /\ UNCHANGED <<created, settled>>
        /\ draft' = [draft EXCEPT ![a] = NoDraft]
        /\ UNCHANGED <<groups, assigned, req, beat, edits, counts, names>>

\* A group that is gone is an error, and nothing is deleted.
CommitDelete(a) ==
    LET d == draft[a]
        done == DOMAIN d.pruned \subseteq DOMAIN groups
    IN  /\ d.op = "delete" /\ ~Locked(d.row, a)
        /\ providers' = IF done THEN [s \in DOMAIN providers \ {d.row} |-> providers[s]]
                        ELSE providers
        /\ groups' = IF done
                     THEN [g \in DOMAIN groups |->
                             IF g \in DOMAIN d.pruned THEN d.pruned[g] ELSE groups[g]]
                     ELSE groups
        /\ wanted' = IF done THEN [g \in DOMAIN wanted |-> Without(wanted[g], d.name)] ELSE wanted
        /\ settled' = IF done THEN "no" ELSE settled
        /\ draft' = [draft EXCEPT ![a] = NoDraft]
        /\ UNCHANGED <<assigned, req, beat, created, edits, counts, raced, overwritten,
                       opened, granted>>

\* Switching a provider and setting its share check nothing.
SetProvider(s) ==
    /\ Edit /\ s \in DOMAIN providers /\ ~Locked(s, "none")
    /\ \/ providers' = [providers EXCEPT ![s].active = ~@]
       \/ \E share \in {0, Full} : providers' = [providers EXCEPT ![s].share = share]
    /\ settled' = "no"
    /\ UNCHANGED <<groups, assigned, req, beat, draft, created, counts, names>>

\* A group is stored as it was sent: its members need not exist, nor its name
\* be new.
SetGroup(g, members) ==
    /\ Edit
    /\ g \in DOMAIN wanted => g \in DOMAIN groups
    /\ groups' = Put(groups, g, members) /\ wanted' = Put(wanted, g, members)
    /\ overwritten' = IF Deleting THEN overwritten \cup {g} ELSE overwritten \ {g}
    /\ UNCHANGED <<providers, assigned, req, beat, draft, created, counts, settled,
                   raced, opened, granted>>

DropGroup(g) ==
    /\ Edit
    /\ groups' = [h \in DOMAIN groups \ {g} |-> groups[h]]
    /\ UNCHANGED <<providers, assigned, req, beat, draft, created, witnessed>>

\* Assigning and taking away a key; deleting it takes it from every rule.
Assign(keys) ==
    /\ Edit
    /\ assigned' = keys
    /\ opened' = opened \cup {x \in RuleSet : keys[x] = {}}
    /\ granted' = [x \in RuleSet |-> granted[x] \cup keys[x]]
    /\ UNCHANGED <<providers, groups, req, beat, draft, created, counts, settled,
                   raced, wanted, overwritten>>

Reassign ==
    \/ \E x \in RuleSet, k \in Keys :
         \/ Assign([assigned EXCEPT ![x] = @ \cup {k}])
         \/ Assign([assigned EXCEPT ![x] = @ \ {k}])
    \/ \E k \in Keys : Assign([x \in RuleSet |-> assigned[x] \ {k}])

Request(r) ==
    \/ \E ask \in Asks, key \in Keys \cup {NoKey} : Route(r, ask, key)
    \/ Resolve(r) \/ Call(r)
    \/ Flush(r) \/ Count(r) \/ EarlyCommit(r) \/ LastCommit(r)

Administer(a) ==
    \/ \E n \in Names : Create(a, n)
    \/ \E s \in Rows, n \in Names : Rename(a, s, n)
    \/ \E s \in Rows : Delete(a, s)
    \/ CommitName(a) \/ CommitDelete(a)

Configure ==
    \/ \E s \in Rows : SetProvider(s)
    \/ \E g \in 1..MaxGroups, members \in MemberLists : SetGroup(g, members)
    \/ \E g \in DOMAIN groups : DropGroup(g)
    \/ Reassign

AllDone == (\A r \in Requests : req[r].pc = "done") /\ UNCHANGED routingVars

RoutingNext ==
    \/ \E r \in Requests : Request(r)
    \/ BeatRead \/ BeatFlush \/ BeatCommit
    \/ \E w \in Writers : Victim(w)
    \/ \E a \in Admins : Administer(a)
    \/ Configure
    \/ AllDone

RoutingSpec == RoutingInit /\ [][RoutingNext]_routingVars
-----------------------------------------------------------------------------
RoutingTypeOK ==
    /\ \A s \in DOMAIN providers :
         s \in 1..created /\ providers[s] \in [name : Names, active : BOOLEAN, total : Nat,
                                                share : 0..Full]
    /\ DOMAIN groups \subseteq 1..MaxGroups
    /\ \A r \in Requests :
         req[r].pc \in {"idle", "resolve", "call", "count", "finish", "done"}

\* Counts are read, kept and written back (provider_metrics_service.py:35): a
\* row never shows more calls than were counted on it, and it shows all of
\* them unless two requests counted on it at once; the rebalancing, edits and
\* renames beside them change no count.
CountsRight ==
    \A s \in DOMAIN providers :
      /\ providers[s].total <= noted[s]
      /\ s \notin crossed => providers[s].total = noted[s]

\* The shares a run has computed make up the pool until an administrator
\* changes it, but for what rounding adds when the last provider has none
\* left to give (provider_metrics_service.py:73).
SharesMakeUp ==
    LET sum == Sum([s \in Active |-> providers[s].share], Active)
    IN  settled = "yes" => Full <= sum /\ 2 * (sum - Full) <= Cardinality(Active)

MetricsInv == RoutingTypeOK /\ CountsRight /\ SharesMakeUp

\* What the bookkeeping loses: a provider's answer is returned, unless the
\* commit of its count fails, which takes a row deleted meanwhile, a deadlock,
\* or two rows alike (llm_router.py, provider_metrics_service.py:30).  No
\* request that has counted one call only is the victim of a deadlock.
AnswersReturned ==
    \A r \in Requests : req[r].pc = "done" =>
      /\ req[r].got => req[r].outcome \in {"answered", "stale", "deadlock", "ambiguous"}
      /\ req[r].outcome = "stale" => created > Cardinality(DOMAIN providers)
      /\ req[r].outcome = "deadlock" => req[r].counted > 1

\* The registry's checks precede its writes (governance.py:2061, 2128): two
\* providers have one name only if administrators gave it at once, a group has
\* the members its last edit gave it less the providers deleted since, unless
\* an edit or another deletion came between, and a rule that was never
\* without a key is applied to its keys' requests only.
RegistryInv ==
    /\ \A s, t \in DOMAIN providers :
         s # t /\ providers[s].name = providers[t].name => providers[s].name \in raced
    /\ \A g \in DOMAIN groups \ overwritten : groups[g] = wanted[g]
    /\ \A r \in Requests :
         req[r].via \in RuleSet \ opened => req[r].key \in granted[req[r].via]
=============================================================================
