----------------------------- MODULE GatewayProofs -----------------------------
(***************************************************************************)
(* Theorems about the gateway: Routing, for any requests, providers and    *)
(* rules, then GatewayChat, for every set of models, routing groups, tool  *)
(* calls with any capabilities, and every bound.                           *)
(***************************************************************************)
EXTENDS Routing, GatewayChat, SequenceTheorems, FiniteSetTheorems, WellFoundedInduction, TLAPS

----------------------------------------------------------------------------
(* The invariants.                                                          *)

Named == {"create", "rename"}
ReqFields ==
    {"pc", "key", "model", "via", "cands", "counted", "got", "due", "written", "outcome"}

\* What a request has read or written refers to rows that were given out.
ReqOK(r) ==
    /\ DOMAIN req[r] = ReqFields
    /\ req[r].pc \in {"idle", "resolve", "call", "count", "finish", "done"}
    /\ req[r].got \in BOOLEAN /\ req[r].counted \in Nat
    /\ req[r].due \in [row : 0..created, total : Nat]
    /\ req[r].due # NoRow => req[r].due.row > 0
    /\ DOMAIN req[r].written \subseteq 1..created
    /\ \A s \in DOMAIN req[r].written : req[r].written[s] \in [total : Nat, calls : Nat]

ProviderRow == [name : Names, active : BOOLEAN, total : Nat, share : 0..Full]

BeatOK ==
    /\ beat = [pc |-> beat.pc, todo |-> beat.todo, written |-> beat.written]
    /\ beat.todo \in [DOMAIN beat.todo -> 0..Full] /\ DOMAIN beat.todo \subseteq 1..created
    /\ beat.written \in [DOMAIN beat.written -> 0..Full]
    /\ DOMAIN beat.written \subseteq 1..created

TableOK ==
    /\ created \in 0..MaxRows
    /\ providers \in [DOMAIN providers -> ProviderRow] /\ DOMAIN providers \subseteq 1..created
    /\ noted \in [Rows -> Nat]

ReqsOK == DOMAIN req = Requests /\ \A r \in Requests : ReqOK(r)

DraftsOK ==
    /\ draft = [a \in Admins |-> draft[a]]
    /\ \A a \in Admins :
         /\ DOMAIN draft[a] = {"op", "row", "name", "pruned"}
         /\ draft[a].op \in {"none", "delete"} \cup Named
         /\ draft[a].op \in Named => draft[a].name \in Names
         /\ draft[a].op = "create" => draft[a].row = 0

RowsTyped == TableOK /\ ReqsOK /\ BeatOK /\ DraftsOK

\* One transaction has written a row at most.
LocksHeld == \A v, w \in Writers : v # w => Locks(v) \cap Locks(w) = {}

\* Where a request is, what it has and what it has counted.
Progress(r) ==
    /\ req[r].pc \in {"idle", "resolve", "call"} => ~req[r].got
    /\ req[r].pc # "done" => req[r].outcome \in {"none", "answered", "outage", "refused"}
    /\ req[r].pc = "finish" /\ req[r].got => req[r].outcome = "answered"
    /\ req[r].due # NoRow \/ Locks(r) # {} => req[r].counted >= 1
    /\ req[r].due # NoRow /\ Locks(r) # {} => req[r].counted >= 2

Lost(r) == req[r].outcome = "stale" => \E s \in 1..created : s \notin DOMAIN providers

AnswerOK(r) ==
    /\ Progress(r) /\ Lost(r)
    /\ req[r].pc = "done" /\ req[r].got =>
         req[r].outcome \in {"answered", "stale", "deadlock", "ambiguous"}
    /\ req[r].outcome = "deadlock" => req[r].counted > 1

AnswersInv == RowsTyped /\ LocksHeld /\ \A r \in Requests : AnswerOK(r)

\* What a request has at row s, and what it counted on it.
Touches(r, s) == req[r].due.row = s \/ s \in Locks(r)
CallsOn(r, s) == IF s \in Locks(r) THEN req[r].written[s].calls ELSE 0

CountOK(r) ==
    /\ \A s \in Locks(r) :
         /\ req[r].written[s].total <= noted[s] + req[r].written[s].calls
         /\ s \notin crossed => req[r].written[s].total = noted[s] + req[r].written[s].calls
    /\ req[r].due # NoRow =>
         /\ req[r].due.total <= noted[req[r].due.row] + CallsOn(r, req[r].due.row) + 1
         /\ req[r].due.row \notin crossed =>
              req[r].due.total = noted[req[r].due.row] + CallsOn(r, req[r].due.row) + 1

\* Whoever counts on a row that another request counts on crosses it.
Crossed ==
    \A q, r \in Requests : \A s \in Rows :
      q # r /\ Touches(q, s) /\ Touches(r, s) => s \in crossed

CountsInv ==
    /\ CountsRight /\ Crossed
    /\ \A s \in Rows : s > created => noted[s] = 0
    /\ \A r \in Requests : CountOK(r)

\* The share of a row once the run has committed, and what they all make.
Final(s) ==
    IF s \in DOMAIN beat.written THEN beat.written[s]
    ELSE IF s \in DOMAIN beat.todo THEN beat.todo[s] ELSE providers[s].share

MakesUp(f, S) == Full <= Sum(f, S) /\ 2 * (Sum(f, S) - Full) <= Cardinality(S)

SharesInv ==
    /\ SharesMakeUp
    /\ beat.pc = "idle" => DOMAIN beat.written = {}
    /\ DOMAIN beat.todo \cap DOMAIN beat.written = {}
    /\ beat.pc = "write" => settled # "yes"
    /\ beat.pc = "write" /\ settled = "run" => MakesUp([s \in Active |-> Final(s)], Active)

\* A name given twice was given at once, or is still to be given so.
NamesInv ==
    /\ \A s, t \in DOMAIN providers :
         s # t /\ providers[s].name = providers[t].name => providers[s].name \in raced
    /\ \A a \in Admins : draft[a].op \in Named =>
         /\ \A s \in DOMAIN providers \ {draft[a].row} :
              providers[s].name = draft[a].name => draft[a].name \in raced
         /\ \A b \in Admins \ {a} :
              draft[b].op \in Named /\ draft[b].name = draft[a].name => draft[a].name \in raced

\* What deletions will write of the groups nobody else has written since.
GroupsInv ==
    /\ DOMAIN groups \subseteq DOMAIN wanted
    /\ \A g \in DOMAIN groups \ overwritten : groups[g] = wanted[g]
    /\ \A a \in Admins : draft[a].op = "delete" =>
         /\ \A g \in DOMAIN groups \ overwritten :
              Without(groups[g], draft[a].name) =
                IF g \in DOMAIN draft[a].pruned THEN draft[a].pruned[g] ELSE groups[g]
         /\ \A b \in Admins \ {a} : draft[b].op = "delete" => DOMAIN groups \subseteq overwritten

\* A rule that was never open has keys, and they were all given to it.
KeysInv ==
    /\ assigned \in [RuleSet -> SUBSET Keys] /\ granted \in [RuleSet -> SUBSET Keys]
    /\ \A x \in RuleSet :
         /\ assigned[x] \subseteq granted[x]
         /\ x \notin opened => assigned[x] # {}

RuleOK(r) == req[r].via \in RuleSet \ opened => req[r].key \in granted[req[r].via]

RulesInv == KeysInv /\ \A r \in Requests : RuleOK(r)

EditsInv == RowsTyped /\ NamesInv /\ GroupsInv /\ RulesInv

----------------------------------------------------------------------------
(* Least numbers, and sums over sets of rows.                               *)

LEMMA LeastOf ==
  ASSUME NEW S \in SUBSET Nat, S # {}
  PROVE  \E m \in S : \A k \in S : m <= k
<1>1. PICK m \in S : \A k \in S : ~(<<k, m>> \in OpToRel(<, Nat))
  BY NatLessThanWellFounded, WFMin, Zenon
<1>2. \A k \in S : ~(k < m)
  BY <1>1, Zenon DEF OpToRel
<1>3. QED
  BY <1>2

LEMMA LeastRow ==
  ASSUME NEW S \in SUBSET Nat, S # {}
  PROVE  Min(S) \in S
BY LeastOf DEF Min

Units(f, s) == {s} \X (1..f[s])

LEMMA UnitsOf ==
  ASSUME NEW f, NEW s, f[s] \in Nat
  PROVE  IsFiniteSet(Units(f, s)) /\ Cardinality(Units(f, s)) = f[s]
<1> DEFINE up == 1..f[s]
<1>1. IsFiniteSet(up) /\ Cardinality(up) = f[s]
  BY FS_Interval
<1>2. IsFiniteSet({s}) /\ Cardinality({s}) = 1
  BY FS_Singleton
<1> HIDE DEF up
<1>3. IsFiniteSet({s} \X up) /\ Cardinality({s} \X up) = 1 * f[s]
  BY <1>1, <1>2, FS_Product
<1>4. QED
  BY <1>3 DEF Units, up

LEMMA SumIsNat ==
  ASSUME NEW S, IsFiniteSet(S), NEW f, \A s \in S : f[s] \in Nat
  PROVE  IsFiniteSet(UNION {Units(f, s) : s \in S}) /\ Sum(f, S) \in Nat
<1> DEFINE Parts == {Units(f, s) : s \in S}
           at == [s \in S |-> Units(f, s)]
<1>1. at \in Surjection(S, Parts)
  BY DEF Surjection
<1>2. IsFiniteSet(Parts)
  BY <1>1, FS_Surjection, Zenon
<1>3. ASSUME NEW s \in S PROVE IsFiniteSet(Units(f, s))
  BY <1>3, UnitsOf
<1>4. IsFiniteSet(UNION Parts)
  BY <1>2, <1>3, FS_UNION
<1>5. Sum(f, S) = Cardinality(UNION Parts)
  BY DEF Sum, Units
<1>6. QED
  BY <1>4, <1>5, FS_CardinalityType

LEMMA SumSplit ==
  ASSUME NEW S, IsFiniteSet(S), NEW f, \A s \in S : f[s] \in Nat, NEW x \in S
  PROVE  Sum(f, S) = Sum(f, S \ {x}) + f[x]
<1> DEFINE All == UNION {Units(f, s) : s \in S}
           Rest == UNION {Units(f, s) : s \in S \ {x}}
           One == Units(f, x)
<1>1. IsFiniteSet(S \ {x})
  BY FS_RemoveElement
<1>2. IsFiniteSet(Rest)
  BY <1>1, SumIsNat
<1>3. IsFiniteSet(One) /\ Cardinality(One) = f[x]
  BY UnitsOf
<1>4. All = Rest \cup One /\ Rest \cap One = {}
  BY DEF Units
<1>5. Sum(f, S) = Cardinality(All) /\ Sum(f, S \ {x}) = Cardinality(Rest)
  BY DEF Sum, Units
<1> HIDE DEF All, Rest, One
<1>6. Cardinality(All) = Cardinality(Rest) + Cardinality(One) - Cardinality(Rest \cap One)
  BY <1>2, <1>3, <1>4, FS_Union, Zenon
<1>7. Cardinality(Rest \cap One) = 0
  BY <1>4, FS_EmptySet
<1>8. Cardinality(Rest) \in Nat /\ Cardinality(One) \in Nat
  BY <1>2, <1>3, FS_CardinalityType
<1>9. QED
  BY <1>3, <1>5, <1>6, <1>7, <1>8

LEMMA SumSame ==
  ASSUME NEW S, NEW f, NEW g, \A s \in S : f[s] = g[s]
  PROVE  Sum(f, S) = Sum(g, S)
BY DEF Sum

LEMMA SumOfNone == ASSUME NEW f PROVE Sum(f, {}) = 0
BY FS_EmptySet DEF Sum

LEMMA Distributes ==
  /\ \A x, y, z \in Int : (x + y) * z = x * z + y * z
  /\ \A x, y \in Int : x * y \in Int
OBVIOUS

\* Parts that are each rounded up by half a unit at most add up to no more
\* than half a unit each above the whole.
Half(f, n, of, T) == 2 * (Sum(f, T) * of) <= 2 * (Sum(n, T) * Full) + Cardinality(T) * of

LEMMA RoundedSum ==
  ASSUME NEW S, IsFiniteSet(S), NEW n \in [S -> Nat], NEW f \in [S -> Nat], NEW of \in Nat,
         \A s \in S : 2 * (f[s] * of - n[s] * Full) <= of
  PROVE  Half(f, n, of, S)
<1> DEFINE Bad == {k \in Nat : \E T \in SUBSET S : Cardinality(T) = k /\ ~Half(f, n, of, T)}
<1>0. Full \in Nat
  BY RoutingAssumption
<1>1. ASSUME NEW T \in SUBSET S
      PROVE  IsFiniteSet(T) /\ Cardinality(T) \in Nat
  BY FS_Subset, FS_CardinalityType
<1>2. Half(f, n, of, {})
  <2>1. Sum(f, {}) = 0 /\ Sum(n, {}) = 0 /\ Cardinality({}) = 0
    BY SumOfNone, FS_EmptySet
  <2>2. QED
    BY <1>0, <2>1 DEF Half
<1>3. ASSUME NEW T \in SUBSET S, NEW x \in T, Half(f, n, of, T \ {x})
      PROVE  Half(f, n, of, T)
  <2> DEFINE U == T \ {x}
  <2>1. /\ IsFiniteSet(T) /\ IsFiniteSet(U)
        /\ Cardinality(T) \in Nat /\ Cardinality(U) \in Nat /\ Cardinality(T) = Cardinality(U) + 1
    BY <1>1, FS_RemoveElement
  <2>2. Sum(f, T) = Sum(f, U) + f[x] /\ Sum(n, T) = Sum(n, U) + n[x]
    BY <2>1, SumSplit
  <2>3. Sum(f, U) \in Nat /\ Sum(n, U) \in Nat /\ f[x] \in Nat /\ n[x] \in Nat
    BY <2>1, SumIsNat
  <2>4. /\ Sum(f, T) * of = Sum(f, U) * of + f[x] * of
        /\ Sum(n, T) * Full = Sum(n, U) * Full + n[x] * Full
        /\ Cardinality(T) * of = Cardinality(U) * of + of
    <3>1. Sum(f, T) * of = Sum(f, U) * of + f[x] * of
      BY <2>2, <2>3, Distributes
    <3>2. Sum(n, T) * Full = Sum(n, U) * Full + n[x] * Full
      BY <1>0, <2>2, <2>3, Distributes
    <3>3. Cardinality(T) * of = Cardinality(U) * of + 1 * of
      BY <2>1, Distributes
    <3>4. QED
      BY <3>1, <3>2, <3>3
  <2>5. 2 * (f[x] * of - n[x] * Full) <= of
    OBVIOUS
  <2>6. 2 * (Sum(f, U) * of) <= 2 * (Sum(n, U) * Full) + Cardinality(U) * of
    BY <1>3 DEF Half
  <2>7. PICK a \in Int, b \in Int, c \in Int, d \in Int, e \in Int :
          /\ a = Sum(f, U) * of /\ b = f[x] * of /\ c = Sum(n, U) * Full /\ d = n[x] * Full
          /\ e = Cardinality(U) * of
    <3>1. Sum(f, U) * of \in Int /\ f[x] * of \in Int
      BY <2>3, Distributes
    <3>2. Sum(n, U) * Full \in Int /\ n[x] * Full \in Int
      BY <1>0, <2>3, Distributes
    <3>3. Cardinality(U) * of \in Int
      BY <2>1, Distributes
    <3>4. QED
      BY <3>1, <3>2, <3>3
  <2> HIDE DEF U
  <2>8. 2 * (a + b) <= 2 * (c + d) + (e + of)
    BY <2>5, <2>6, <2>7
  <2>9. QED
    BY <2>4, <2>7, <2>8 DEF Half
<1>4. Bad = {}
  <2>1. SUFFICES ASSUME Bad # {} PROVE FALSE
    OBVIOUS
  <2>2. PICK k \in Bad : \A j \in Bad : k <= j
    <3>1. Bad \in SUBSET Nat
      OBVIOUS
    <3>2. QED
      BY <2>1, <3>1, LeastOf, Zenon
  <2>3. PICK T \in SUBSET S : Cardinality(T) = k /\ ~Half(f, n, of, T)
    BY <2>2
  <2>4. PICK x \in T : TRUE
    BY <1>2, <2>3
  <2>5. Cardinality(T \ {x}) \in Nat /\ Cardinality(T \ {x}) = Cardinality(T) - 1
    BY <1>1, FS_RemoveElement
  <2>6. ~Half(f, n, of, T \ {x})
    BY <1>3, <2>3
  <2>7. Cardinality(T \ {x}) \in Bad
    BY <2>5, <2>6
  <2>8. k <= Cardinality(T \ {x}) /\ k \in Nat /\ Cardinality(T) = k
    BY <2>2, <2>3, <2>7
  <2>9. QED
    BY <2>5, <2>8
<1>5. Cardinality(S) \in Nat
  BY <1>1
<1>6. QED
  BY <1>4, <1>5

LEMMA Monotone ==
  /\ \A x, y, z \in Nat : x <= y => x * z <= y * z
  /\ \A x, y \in Int, z \in Nat \ {0} : x * z <= y * z => x <= y
OBVIOUS

\* The shares that a run computes of the calls it has read.
LEMMA SharesOf ==
  ASSUME NEW pool, IsFiniteSet(pool), NEW last \in pool, NEW asks \in [pool -> Nat],
         Sum(asks, pool) # 0, NEW part \in [pool \ {last} -> 0..Full],
         \A s \in pool \ {last} : part[s] \in Rounded(asks[s], Sum(asks, pool))
  PROVE  /\ Shares(pool, last, part) \in [pool -> 0..Full]
         /\ MakesUp(Shares(pool, last, part), pool)
<1> DEFINE rest == pool \ {last}
           given == Sum(part, rest)
           total == Sum(asks, pool)
           shares == Shares(pool, last, part)
           left == IF given > Full THEN 0 ELSE Full - given
<1>0. Full \in Nat
  BY RoutingAssumption
<1>1. /\ IsFiniteSet(rest) /\ Cardinality(rest) \in Nat
      /\ Cardinality(pool) = Cardinality(rest) + 1
  <2>1. IsFiniteSet(rest) /\ Cardinality(rest) = Cardinality(pool) - 1
    BY FS_RemoveElement
  <2>2. Cardinality(pool) \in Nat /\ Cardinality(rest) \in Nat
    BY <2>1, FS_CardinalityType
  <2>3. QED
    BY <2>1, <2>2
<1>2. given \in Nat /\ total \in Nat /\ total # 0 /\ Sum(asks, rest) \in Nat
  <2>1. given \in Nat
    <3>1. \A s \in rest : part[s] \in Nat
      BY <1>0
    <3>2. QED
      BY <1>1, <3>1, SumIsNat
  <2>2. total \in Nat /\ total # 0
    BY SumIsNat
  <2>3. Sum(asks, rest) \in Nat
    <3>1. \A s \in rest : asks[s] \in Nat
      OBVIOUS
    <3>2. QED
      BY <1>1, <3>1, SumIsNat
  <2>4. QED
    BY <2>1, <2>2, <2>3
<1>3. shares = Put(part, last, left)
  BY DEF Shares
<1>4. shares \in [pool -> 0..Full] /\ shares[last] = left /\ \A s \in rest : shares[s] = part[s]
  <2>1. left \in 0..Full
    BY <1>0, <1>2
  <2> HIDE DEF left
  <2>2. QED
    BY <1>3, <2>1 DEF Put
<1> HIDE DEF shares
<1>5. Sum(shares, pool) = given + left
  <2>1. \A s \in pool : shares[s] \in Nat
    BY <1>0, <1>4
  <2>2. Sum(shares, pool) = Sum(shares, rest) + shares[last]
    BY <2>1, SumSplit
  <2>3. Sum(shares, rest) = given
    BY <1>4, SumSame
  <2>4. QED
    BY <1>4, <2>2, <2>3
<1>6. 2 * (given - Full) <= Cardinality(rest) \/ given <= Full
  <2> DEFINE asked == [s \in rest |-> asks[s]]
  <2>1. Half(part, asked, total, rest)
    <3>1. asked \in [rest -> Nat] /\ part \in [rest -> Nat]
      BY <1>0
    <3>2. \A s \in rest : 2 * (part[s] * total - asked[s] * Full) <= total
      BY DEF Rounded
    <3>3. QED
      BY <1>1, <1>2, <3>1, <3>2, RoundedSum
  <2>2. Sum(asked, rest) = Sum(asks, rest)
    BY SumSame
  <2>3. total = Sum(asks, rest) + asks[last] /\ asks[last] \in Nat
    BY SumSplit
  <2>4. Sum(asks, rest) * Full <= total * Full
    BY <1>0, <1>2, <2>3, Monotone
  <2>5. 2 * (given * total) <= 2 * (total * Full) + Cardinality(rest) * total
    <3> HIDE DEF given, total, rest, asked
    <3>1. 2 * (given * total) <= 2 * (Sum(asks, rest) * Full) + Cardinality(rest) * total
      BY <2>1, <2>2 DEF Half, given
    <3>2. PICK a \in Int, b \in Int, c \in Int, d \in Int :
            /\ a = given * total /\ b = Sum(asks, rest) * Full
            /\ c = Cardinality(rest) * total /\ d = total * Full
      <4>1. given * total \in Int /\ Sum(asks, rest) * Full \in Int
        BY <1>0, <1>2, Distributes
      <4>2. Cardinality(rest) * total \in Int /\ total * Full \in Int
        BY <1>0, <1>1, <1>2, Distributes
      <4>3. QED
        BY <4>1, <4>2
    <3>3. b <= d /\ 2 * a <= 2 * b + c
      BY <2>4, <3>1, <3>2
    <3>4. 2 * a <= 2 * d + c
      BY <3>3
    <3>5. QED
      BY <3>2, <3>4
  <2> HIDE DEF given, total, rest, asked
  <2>6. (given + given) * total <= (Full + Full + Cardinality(rest)) * total
    BY <1>0, <1>1, <1>2, <2>5
  <2>7. given + given <= Full + Full + Cardinality(rest)
    BY <1>0, <1>1, <1>2, <2>6, Monotone
  <2>8. QED
    BY <1>0, <1>1, <1>2, <2>7
<1>7. QED
  <2> HIDE DEF given, rest
  <2>1. Full <= given + left /\ 2 * ((given + left) - Full) <= Cardinality(pool)
    BY <1>0, <1>1, <1>2, <1>6
  <2>2. QED
    BY <1>4, <1>5, <2>1 DEF MakesUp, shares

----------------------------------------------------------------------------
(* What a step does to the request that takes it.                           *)

Others(r) == \A q \in Requests \ {r} : req'[q] = req[q]

\* The request has its fields, and the step is its own.
Shape == DOMAIN req = Requests /\ \A r \in Requests : DOMAIN req[r] = ReqFields
Moved(r) == DOMAIN req' = Requests /\ Others(r) /\ DOMAIN req'[r] = ReqFields

Caller(r) == req'[r].via = req[r].via /\ req'[r].key = req[r].key
Counted(r) ==
    /\ req'[r].counted = req[r].counted /\ req'[r].due = req[r].due
    /\ req'[r].written = req[r].written

Elsewhere == UNCHANGED <<database, beat, draft, created, edits, witnessed>>

LEMMA RoutedMoves ==
  ASSUME Shape, NEW r \in Requests, NEW model, NEW via, NEW key, Routed(r, model, via, key)
  PROVE  /\ Moved(r) /\ Counted(r)
         /\ req'[r].pc = "resolve" /\ req'[r].via = via /\ req'[r].key = key
         /\ req'[r].got = req[r].got /\ req'[r].outcome = req[r].outcome
<1>1. /\ req'[r] = [req[r] EXCEPT !.pc = "resolve", !.model = model, !.via = via, !.key = key]
      /\ Others(r) /\ DOMAIN req' = Requests
  BY DEF Routed, Shape, Others
<1>2. DOMAIN req[r] = ReqFields
  BY DEF Shape
<1>3. QED
  BY <1>1, <1>2 DEF Moved, Counted, ReqFields

LEMMA EndedMoves ==
  ASSUME Shape, NEW r \in Requests, NEW how, Ended(r, how)
  PROVE  /\ Moved(r) /\ Caller(r)
         /\ req'[r].pc = "done" /\ req'[r].outcome = how
         /\ req'[r].got = req[r].got /\ req'[r].counted = req[r].counted
         /\ req'[r].due = NoRow /\ req'[r].written = Nothing
<1>1. /\ req'[r] = [Fresh EXCEPT !.pc = "done", !.outcome = how, !.got = req[r].got,
                                 !.counted = req[r].counted, !.via = req[r].via,
                                 !.key = req[r].key]
      /\ Others(r) /\ DOMAIN req' = Requests
  BY DEF Ended, Shape, Others
<1>2. QED
  BY <1>1 DEF Moved, Caller, ReqFields, Fresh

LEMMA RuleOfIndex == \A i \in DOMAIN Rules : Rules[i] \in RuleSet
<1>1. Rules \in Seq(RuleSet)
  BY RoutingAssumption
<1>2. QED
  BY <1>1

LEMMA LocksOf ==
  /\ \A r \in Requests : Locks(r) = DOMAIN req[r].written /\ r # "beat"
  /\ Locks("beat") = DOMAIN beat.written
BY RoutingAssumption DEF Locks

LEMMA RouteMoves ==
  ASSUME Shape, NEW r \in Requests, NEW ask, NEW key, Route(r, ask, key)
  PROVE  /\ Elsewhere /\ req[r].pc = "idle" /\ Moved(r) /\ Counted(r)
         /\ req'[r].pc = "resolve" /\ req'[r].got = req[r].got
         /\ req'[r].outcome = req[r].outcome
         /\ \/ req'[r].via \in {"direct", "group"}
            \/ /\ req'[r].via \in RuleSet /\ Applies(req'[r].via, key) /\ req'[r].key = key
<1>1. Elsewhere /\ req[r].pc = "idle"
  BY DEF Route, Elsewhere
<1>2. \/ \E model, k : \E via \in {"direct", "group"} : Routed(r, model, via, k)
      \/ \E i \in DOMAIN Rules : Applies(Rules[i], key) /\ Routed(r, Target[Rules[i]], Rules[i], key)
  BY DEF Route, Fitting
<1>3. CASE \E model, k : \E via \in {"direct", "group"} : Routed(r, model, via, k)
  BY <1>1, <1>3, RoutedMoves
<1>4. CASE \E i \in DOMAIN Rules :
             Applies(Rules[i], key) /\ Routed(r, Target[Rules[i]], Rules[i], key)
  BY <1>1, <1>4, RoutedMoves, RuleOfIndex
<1>5. QED
  BY <1>2, <1>3, <1>4

LEMMA ResolveMoves ==
  ASSUME Shape, NEW r \in Requests, Resolve(r)
  PROVE  /\ Elsewhere /\ req[r].pc = "resolve"
         /\ \/ Ended(r, "ambiguous")
            \/ /\ Moved(r) /\ Counted(r) /\ req'[r].pc = "call"
               /\ req'[r].got = req[r].got /\ req'[r].outcome = req[r].outcome
               /\ req'[r].key = req[r].key /\ req'[r].via \in {req[r].via, "direct"}
<1>1. Elsewhere /\ req[r].pc = "resolve"
  BY DEF Resolve, Elsewhere
<1> DEFINE by == IF req[r].via \in RuleSet THEN req[r].via ELSE "direct"
           go(cands) == req' = [req EXCEPT ![r] = [@ EXCEPT !.pc = "call", !.cands = cands,
                                                            !.model = "auto", !.via = by]]
<1>2. Ended(r, "ambiguous") \/ \E cands : go(cands)
  BY DEF Resolve
<1>3. by \in {req[r].via, "direct"}
  OBVIOUS
<1>4. ASSUME NEW cands, go(cands)
      PROVE  /\ Moved(r) /\ Counted(r) /\ req'[r].pc = "call"
             /\ req'[r].got = req[r].got /\ req'[r].outcome = req[r].outcome
             /\ req'[r].key = req[r].key /\ req'[r].via \in {req[r].via, "direct"}
  <2> HIDE DEF by
  <2>1. DOMAIN req[r] = ReqFields /\ DOMAIN req = Requests
    BY DEF Shape
  <2>2. /\ req'[r] = [req[r] EXCEPT !.pc = "call", !.cands = cands, !.model = "auto", !.via = by]
        /\ Others(r) /\ DOMAIN req' = Requests
    BY <1>4, <2>1 DEF Others
  <2>3. QED
    BY <1>3, <2>1, <2>2 DEF Moved, Counted, ReqFields
<1> HIDE DEF go
<1>5. QED
  BY <1>1, <1>2, <1>4

LEMMA CallMoves ==
  ASSUME Shape, NEW r \in Requests, Call(r)
  PROVE  /\ Elsewhere /\ req[r].pc = "call"
         /\ \/ Ended(r, "error")
            \/ /\ Moved(r) /\ Caller(r) /\ Counted(r)
               /\ req'[r].pc = "count" /\ req'[r].got \in {TRUE, req[r].got}
               /\ req'[r].outcome = req[r].outcome
            \/ /\ Moved(r) /\ Caller(r) /\ Counted(r)
               /\ req'[r].pc = "finish" /\ req'[r].got = req[r].got
               /\ req'[r].outcome = "refused"
<1>1. Elsewhere /\ req[r].pc = "call" /\ DOMAIN req[r] = ReqFields
  BY DEF Call, Elsewhere, Shape
<1>2. ASSUME NEW p, req' = [req EXCEPT ![r] = p]
      PROVE  req'[r] = p /\ Others(r) /\ DOMAIN req' = Requests
  BY <1>2 DEF Shape, Others
<1>3. CASE req' = [req EXCEPT ![r] = [@ EXCEPT !.pc = "count", !.got = TRUE]]
  <2>1. req'[r] = [req[r] EXCEPT !.pc = "count", !.got = TRUE]
    BY <1>2, <1>3
  <2>2. QED
    BY <1>1, <1>2, <1>3, <2>1 DEF Moved, Caller, Counted, ReqFields
<1>4. CASE req' = [req EXCEPT ![r] = [@ EXCEPT !.pc = "count"]]
  <2>1. req'[r] = [req[r] EXCEPT !.pc = "count"]
    BY <1>2, <1>4
  <2>2. QED
    BY <1>1, <1>2, <1>4, <2>1 DEF Moved, Caller, Counted, ReqFields
<1>5. CASE req' = [req EXCEPT ![r] = [@ EXCEPT !.pc = "finish", !.outcome = "refused"]]
  <2>1. req'[r] = [req[r] EXCEPT !.pc = "finish", !.outcome = "refused"]
    BY <1>2, <1>5
  <2>2. QED
    BY <1>1, <1>2, <1>5, <2>1 DEF Moved, Caller, Counted, ReqFields
<1>6. QED
  BY <1>1, <1>3, <1>4, <1>5 DEF Call

\* A row that a request writes, and what it has written before.
Wrote(r, s, total) ==
    /\ DOMAIN req'[r].written = Locks(r) \cup {s}
    /\ req'[r].written[s] = [total |-> total, calls |-> CallsOn(r, s) + 1]
    /\ \A t \in Locks(r) \ {s} : req'[r].written[t] = req[r].written[t]

LEMMA PutAt ==
  ASSUME NEW f, NEW s, NEW v
  PROVE  /\ DOMAIN Put(f, s, v) = DOMAIN f \cup {s}
         /\ Put(f, s, v)[s] = v
         /\ \A t \in DOMAIN f \ {s} : Put(f, s, v)[t] = f[t]
         /\ Put(f, s, v) = [t \in DOMAIN f \cup {s} |-> Put(f, s, v)[t]]
BY DEF Put

LEMMA FlushMoves ==
  ASSUME Shape, NEW r \in Requests, Flush(r)
  PROVE  /\ Elsewhere /\ req[r].due # NoRow
         /\ \/ req[r].due.row \notin DOMAIN providers /\ Ended(r, "stale")
            \/ /\ req[r].due.row \in DOMAIN providers /\ ~Locked(req[r].due.row, r)
               /\ Moved(r) /\ Caller(r)
               /\ req'[r].pc = req[r].pc /\ req'[r].got = req[r].got
               /\ req'[r].outcome = req[r].outcome /\ req'[r].counted = req[r].counted
               /\ req'[r].due = NoRow /\ Wrote(r, req[r].due.row, req[r].due.total)
<1> DEFINE s == req[r].due.row
           w == Put(req[r].written, s, [total |-> req[r].due.total, calls |-> CallsOn(r, s) + 1])
<1>1. Elsewhere /\ req[r].due # NoRow
  BY DEF Flush, Elsewhere
<1>2. CASE s \notin DOMAIN providers
  BY <1>1, <1>2 DEF Flush
<1>3. CASE s \in DOMAIN providers
  <2>1. /\ ~Locked(s, r) /\ DOMAIN req[r] = ReqFields
        /\ req' = [req EXCEPT ![r] = [req[r] EXCEPT !.due = NoRow, !.written = w]]
    BY <1>3 DEF Flush, CallsOn, Shape, ReqFields
  <2>2. Wrote(r, s, req[r].due.total) <=>
          /\ DOMAIN req'[r].written = Locks(r) \cup {s}
          /\ req'[r].written[s] = [total |-> req[r].due.total, calls |-> CallsOn(r, s) + 1]
          /\ \A t \in Locks(r) \ {s} : req'[r].written[t] = req[r].written[t]
    BY DEF Wrote
  <2>3. /\ DOMAIN w = Locks(r) \cup {s}
        /\ w[s] = [total |-> req[r].due.total, calls |-> CallsOn(r, s) + 1]
        /\ \A t \in Locks(r) \ {s} : w[t] = req[r].written[t]
    <3>1. Locks(r) = DOMAIN req[r].written
      BY LocksOf
    <3>2. \A v : /\ DOMAIN Put(req[r].written, s, v) = DOMAIN req[r].written \cup {s}
                 /\ Put(req[r].written, s, v)[s] = v
                 /\ \A t \in DOMAIN req[r].written \ {s} :
                      Put(req[r].written, s, v)[t] = req[r].written[t]
      BY DEF Put
    <3>3. QED
      BY <3>1, <3>2
  <2> HIDE DEF w
  <2>4. /\ req'[r] = [req[r] EXCEPT !.due = NoRow, !.written = w]
        /\ Others(r) /\ DOMAIN req' = Requests
    BY <2>1 DEF Shape, Others
  <2>5. /\ Moved(r) /\ Caller(r)
        /\ req'[r].pc = req[r].pc /\ req'[r].got = req[r].got
        /\ req'[r].outcome = req[r].outcome /\ req'[r].counted = req[r].counted
        /\ req'[r].due = NoRow /\ req'[r].written = w
    BY <2>1, <2>4 DEF Moved, Caller, ReqFields
  <2>6. QED
    BY <1>1, <1>3, <2>1, <2>2, <2>3, <2>5
<1>4. QED
  BY <1>2, <1>3

LEMMA EarlyMoves ==
  ASSUME Shape, NEW r \in Requests, EarlyCommit(r)
  PROVE  /\ UNCHANGED <<groups, assigned, beat, draft, created, edits, crossed, settled, names>>
         /\ Stored(r) /\ req[r].pc = "count" /\ req[r].due = NoRow /\ Locks(r) # {}
         /\ Moved(r) /\ Caller(r)
         /\ req'[r].pc = req[r].pc /\ req'[r].got = req[r].got
         /\ req'[r].outcome = req[r].outcome /\ req'[r].counted = req[r].counted
         /\ req'[r].due = NoRow /\ req'[r].written = Nothing
<1>1. /\ UNCHANGED <<groups, assigned, beat, draft, created, edits, crossed, settled, names>>
      /\ Stored(r) /\ req[r].pc = "count" /\ req[r].due = NoRow /\ Locks(r) # {}
      /\ req' = [req EXCEPT ![r].written = Nothing]
  BY DEF EarlyCommit
<1>2. /\ req'[r] = [req[r] EXCEPT !.written = Nothing] /\ DOMAIN req[r] = ReqFields
      /\ Others(r) /\ DOMAIN req' = Requests
  BY <1>1 DEF Shape, Others
<1>3. QED
  BY <1>1, <1>2 DEF Moved, Caller, ReqFields

\* The row a request counts on, if it finds one.
Found(r) == Called(Head(req[r].cands)) \cap Active

\* The request goes on, or the last candidate has been asked.
LEMMA CountMoves ==
  ASSUME Shape, NEW r \in Requests, Count(r)
  PROVE  /\ UNCHANGED <<database, beat, draft, created, edits, noted, settled, names>>
         /\ req[r].pc = "count" /\ req[r].due = NoRow
         /\ \/ Ended(r, "ambiguous") /\ UNCHANGED crossed
            \/ /\ ~(Cardinality(Found(r)) > 1)
               /\ Moved(r) /\ Caller(r)
               /\ \/ req'[r].pc = "finish" /\ req'[r].outcome = (IF req[r].got THEN "answered" ELSE "outage")
                  \/ req'[r].pc = "call" /\ ~req[r].got /\ req'[r].outcome = req[r].outcome
               /\ req'[r].got = req[r].got /\ req'[r].written = req[r].written
               /\ req'[r].counted = req[r].counted + Cardinality(Found(r))
               /\ \/ Found(r) = {} /\ req'[r].due = NoRow
                  \/ \E s \in Found(r) : req'[r].due = [row |-> s, total |-> Shown(r, s) + 1]
               /\ crossed' = crossed \cup
                    {s \in Found(r) :
                       \E q \in Requests \ {r} : req[q].due.row = s \/ s \in Locks(q)}
<1> DEFINE rest == Tail(req[r].cands)
           goesOn == IF req[r].got \/ rest = <<>> THEN "finish" ELSE "call"
           to == IF req[r].got THEN "answered"
                 ELSE IF goesOn = "finish" THEN "outage" ELSE req[r].outcome
           owed == IF Found(r) = {} THEN NoRow
                   ELSE LET s == CHOOSE s \in Found(r) : TRUE
                        IN  [row |-> s, total |-> Shown(r, s) + 1]
           n == req[r].counted + Cardinality(Found(r))
<1>1. /\ UNCHANGED <<database, beat, draft, created, edits, noted, settled, names>>
      /\ req[r].pc = "count" /\ req[r].due = NoRow /\ DOMAIN req[r] = ReqFields
  BY DEF Count, Shape
<1>2. CASE Ended(r, "ambiguous") /\ UNCHANGED crossed
  BY <1>1, <1>2
<1>3. CASE ~(Ended(r, "ambiguous") /\ UNCHANGED crossed)
  <2>1. /\ ~(Cardinality(Found(r)) > 1)
        /\ req' = [req EXCEPT ![r] =
                     [@ EXCEPT !.pc = goesOn, !.cands = rest, !.outcome = to,
                               !.counted = n, !.due = owed]]
        /\ crossed' = crossed \cup
             {s \in Found(r) : \E q \in Requests \ {r} : req[q].due.row = s \/ s \in Locks(q)}
    BY <1>3 DEF Count, Found
  <2>2. \/ Found(r) = {} /\ owed = NoRow
        \/ \E s \in Found(r) : owed = [row |-> s, total |-> Shown(r, s) + 1]
    OBVIOUS
  <2>3. \/ goesOn = "finish" /\ to = (IF req[r].got THEN "answered" ELSE "outage")
        \/ goesOn = "call" /\ ~req[r].got /\ to = req[r].outcome
    OBVIOUS
  <2> HIDE DEF rest, goesOn, to, owed, n
  <2>4. /\ req'[r] = [req[r] EXCEPT !.pc = goesOn, !.cands = rest, !.outcome = to,
                                    !.counted = n, !.due = owed]
        /\ Others(r) /\ DOMAIN req' = Requests
    BY <2>1 DEF Shape, Others
  <2>5. /\ Moved(r) /\ Caller(r) /\ req'[r].pc = goesOn /\ req'[r].outcome = to
        /\ req'[r].got = req[r].got /\ req'[r].written = req[r].written
        /\ req'[r].counted = n /\ req'[r].due = owed
    BY <1>1, <2>4 DEF Moved, Caller, ReqFields
  <2>6. n = req[r].counted + Cardinality(Found(r))
    BY DEF n
  <2>7. QED
    BY <1>1, <2>1, <2>2, <2>3, <2>5, <2>6
<1>4. QED
  BY <1>2, <1>3

LEMMA LastMoves ==
  ASSUME Shape, NEW r \in Requests, LastCommit(r)
  PROVE  /\ UNCHANGED <<groups, assigned, beat, draft, created, edits, crossed, settled, names>>
         /\ Stored(r) /\ req[r].pc = "finish" /\ req[r].due = NoRow
         /\ Ended(r, req[r].outcome)
BY DEF LastCommit

----------------------------------------------------------------------------
(* Types.                                                                   *)

LEMMA ShapeOf == ReqsOK => Shape
BY DEF ReqsOK, ReqOK, Shape

LEMMA RowsFinite ==
  ASSUME TableOK, NEW S \in SUBSET (DOMAIN providers)
  PROVE  IsFiniteSet(S) /\ Cardinality(S) \in Nat /\ S \in SUBSET Nat
<1>1. created \in Nat
  BY RoutingAssumption DEF TableOK
<1>2. S \in SUBSET (1..created)
  BY DEF TableOK
<1>3. IsFiniteSet(1..created)
  BY <1>1, FS_Interval
<1>4. IsFiniteSet(S)
  BY <1>2, <1>3, FS_Subset
<1>5. QED
  BY <1>2, <1>4, FS_CardinalityType

\* The requests are typed if the one that moved is.
LEMMA MoverTyped ==
  ASSUME ReqsOK, NEW r \in Requests, Moved(r), UNCHANGED created, ReqOK(r)'
  PROVE  ReqsOK'
<1>1. ASSUME NEW q \in Requests \ {r} PROVE ReqOK(q)'
  BY DEF ReqsOK, ReqOK, Moved, Others
<1>2. QED
  BY <1>1 DEF ReqsOK, Moved

LEMMA EndedTyped ==
  ASSUME TableOK, ReqsOK, NEW r \in Requests, NEW how, Ended(r, how), UNCHANGED created
  PROVE  ReqsOK'
<1>1. created \in Nat
  BY RoutingAssumption DEF TableOK
<1>2. /\ Moved(r) /\ req'[r].pc = "done"
      /\ req'[r].got = req[r].got /\ req'[r].counted = req[r].counted
      /\ req'[r].due = NoRow /\ req'[r].written = Nothing
  BY ShapeOf, EndedMoves
<1>3. ReqOK(r)
  BY DEF ReqsOK
<1>4. NoRow \in [row : 0..created', total : Nat]
  BY <1>1 DEF NoRow
<1>5. DOMAIN req'[r] = ReqFields
  BY <1>2 DEF Moved
<1>6. ReqOK(r)'
  BY <1>2, <1>3, <1>4, <1>5 DEF ReqOK, Nothing
<1>7. QED
  BY <1>2, <1>6, MoverTyped

\* A request that keeps its count and what it wrote.
LEMMA KeeperTyped ==
  ASSUME ReqsOK, NEW r \in Requests, Moved(r), Counted(r), UNCHANGED created,
         req'[r].pc \in {"resolve", "call", "count", "finish"}, req'[r].got \in BOOLEAN
  PROVE  ReqsOK'
<1>1. ReqOK(r)'
  BY DEF ReqsOK, ReqOK, Moved, Counted
<1>2. QED
  BY <1>1, MoverTyped

LEMMA FlushTyped ==
  ASSUME TableOK, ReqsOK, NEW r \in Requests, Flush(r)
  PROVE  ReqsOK'
<1> DEFINE s == req[r].due.row
<1>1. UNCHANGED created /\ req[r].due # NoRow
  BY ShapeOf, FlushMoves DEF Elsewhere
<1>2. CASE Ended(r, "stale")
  BY <1>1, <1>2, EndedTyped
<1>3. CASE ~Ended(r, "stale")
  <2>1. /\ Moved(r) /\ Caller(r)
        /\ req'[r].pc = req[r].pc /\ req'[r].got = req[r].got /\ req'[r].counted = req[r].counted
        /\ req'[r].due = NoRow /\ Wrote(r, s, req[r].due.total)
    BY <1>3, ShapeOf, FlushMoves
  <2>2. /\ ReqOK(r) /\ created \in Nat /\ Locks(r) = DOMAIN req[r].written
    BY LocksOf, RoutingAssumption DEF ReqsOK, TableOK
  <2>3. NoRow \in [row : 0..created', total : Nat]
    BY <1>1, <2>2 DEF NoRow
  <2>4. s \in 1..created /\ req[r].due.total \in Nat
    BY <1>1, <2>2 DEF ReqOK
  <2>5. CallsOn(r, s) \in Nat
    BY <2>2 DEF ReqOK, CallsOn
  <2>6. DOMAIN req'[r].written \subseteq 1..created'
    BY <1>1, <2>1, <2>2, <2>4 DEF Wrote, ReqOK
  <2>7. ASSUME NEW t \in DOMAIN req'[r].written
        PROVE  req'[r].written[t] \in [total : Nat, calls : Nat]
    <3>1. CASE t = s
      BY <2>1, <2>4, <2>5, <3>1 DEF Wrote
    <3>2. CASE t # s
      BY <2>1, <2>2, <3>2 DEF Wrote, ReqOK
    <3>3. QED
      BY <3>1, <3>2
  <2>8. DOMAIN req'[r] = ReqFields
    BY <2>1 DEF Moved
  <2>9. ReqOK(r)'
    BY <2>1, <2>2, <2>3, <2>6, <2>7, <2>8 DEF ReqOK
  <2>10. QED
    BY <1>1, <2>1, <2>9, MoverTyped
<1>4. QED
  BY <1>2, <1>3

LEMMA ShownTyped ==
  ASSUME TableOK, ReqsOK, NEW r \in Requests, NEW s \in DOMAIN providers
  PROVE  Shown(r, s) \in Nat
<1>1. Locks(r) = DOMAIN req[r].written /\ ReqOK(r)
  BY LocksOf DEF ReqsOK
<1>2. providers[s].total \in Nat
  BY DEF TableOK, ProviderRow
<1>3. QED
  BY <1>1, <1>2 DEF Shown, ReqOK

LEMMA CountTyped ==
  ASSUME TableOK, ReqsOK, NEW r \in Requests, Count(r)
  PROVE  ReqsOK' /\ UNCHANGED <<providers, beat, draft, created, noted>>
<1>1. UNCHANGED <<providers, beat, draft, created, noted>>
  BY ShapeOf, CountMoves DEF database
<1>2. CASE Ended(r, "ambiguous")
  BY <1>1, <1>2, EndedTyped
<1>3. CASE ~Ended(r, "ambiguous")
  <2>1. /\ Moved(r) /\ req'[r].pc \in {"finish", "call"}
        /\ req'[r].got = req[r].got /\ req'[r].written = req[r].written
        /\ req'[r].counted = req[r].counted + Cardinality(Found(r))
        /\ \/ req'[r].due = NoRow
           \/ \E s \in Found(r) : req'[r].due = [row |-> s, total |-> Shown(r, s) + 1]
    BY <1>3, ShapeOf, CountMoves
  <2>2. ReqOK(r) /\ created \in Nat
    BY RoutingAssumption DEF ReqsOK, TableOK
  <2>3. Found(r) \in SUBSET (DOMAIN providers)
    BY DEF Found, Called, Active
  <2>4. Cardinality(Found(r)) \in Nat
    BY <2>3, RowsFinite
  <2>5. /\ req'[r].due \in [row : 0..created, total : Nat]
        /\ req'[r].due # NoRow => req'[r].due.row > 0
    <3>1. CASE req'[r].due = NoRow
      BY <2>2, <3>1 DEF NoRow
    <3>2. ASSUME NEW s \in Found(r), req'[r].due = [row |-> s, total |-> Shown(r, s) + 1]
          PROVE  req'[r].due \in [row : 0..created, total : Nat] /\ req'[r].due.row > 0
      <4>1. Shown(r, s) \in Nat /\ s \in 1..created
        BY <2>3, ShownTyped DEF TableOK
      <4>2. QED
        BY <2>2, <3>2, <4>1
    <3>3. QED
      BY <2>1, <3>1, <3>2
  <2>6. DOMAIN req'[r] = ReqFields
    BY <2>1 DEF Moved
  <2>7. ReqOK(r)'
    BY <1>1, <2>1, <2>2, <2>4, <2>5, <2>6 DEF ReqOK
  <2>8. QED
    BY <1>1, <2>1, <2>7, MoverTyped
<1>4. QED
  BY <1>2, <1>3

\* What a commit leaves of a row.
LEMMA StoredRows ==
  ASSUME TableOK, ReqsOK, NEW r \in Requests, Stored(r), UNCHANGED created
  PROVE  /\ TableOK' /\ DOMAIN providers' = DOMAIN providers
         /\ \A s \in DOMAIN providers :
              /\ providers'[s].name = providers[s].name
              /\ providers'[s].active = providers[s].active
              /\ providers'[s].share = providers[s].share
              /\ providers'[s].total = IF s \in Locks(r) THEN req[r].written[s].total
                                       ELSE providers[s].total
         /\ \A s \in Rows : noted'[s] = noted[s] + CallsOn(r, s)
<1>1. Locks(r) = DOMAIN req[r].written /\ ReqOK(r)
  BY LocksOf DEF ReqsOK
<1>2. ASSUME NEW s \in DOMAIN providers
      PROVE  /\ providers'[s] \in ProviderRow
             /\ providers'[s].name = providers[s].name
             /\ providers'[s].active = providers[s].active
             /\ providers'[s].share = providers[s].share
             /\ providers'[s].total = IF s \in Locks(r) THEN req[r].written[s].total
                                      ELSE providers[s].total
  <2>1. providers[s] \in ProviderRow
    BY DEF TableOK
  <2>2. CASE s \in Locks(r)
    <3>1. req[r].written[s].total \in Nat
      BY <1>1, <2>2 DEF ReqOK
    <3>2. providers'[s] = [providers[s] EXCEPT !.total = req[r].written[s].total]
      BY <2>2 DEF Stored
    <3>3. QED
      BY <2>1, <2>2, <3>1, <3>2 DEF ProviderRow
  <2>3. CASE s \notin Locks(r)
    BY <2>1, <2>3 DEF Stored
  <2>4. QED
    BY <2>2, <2>3
<1>3. DOMAIN providers' = DOMAIN providers /\ providers' = [s \in DOMAIN providers |-> providers'[s]]
  BY DEF Stored
<1>4. ASSUME NEW s \in Rows
      PROVE  noted'[s] = noted[s] + CallsOn(r, s) /\ noted'[s] \in Nat
  <2>1. noted[s] \in Nat
    BY DEF TableOK
  <2>2. CallsOn(r, s) \in Nat
    BY <1>1 DEF CallsOn, ReqOK
  <2>3. QED
    BY <2>1, <2>2 DEF Stored, CallsOn
<1>5. noted' = [s \in Rows |-> noted'[s]]
  BY DEF Stored
<1>6. TableOK'
  <2>1. noted' \in [Rows -> Nat]
    BY <1>4, <1>5
  <2>2. providers' \in [DOMAIN providers' -> ProviderRow]
    BY <1>2, <1>3
  <2>3. QED
    BY <1>3, <2>1, <2>2 DEF TableOK
<1>7. QED
  BY <1>2, <1>3, <1>4, <1>6

\* What is left of the run's rows, and what its end leaves.
BeatEnded == beat' = [Resting EXCEPT !.pc = "done"]

LEMMA BeatEnds ==
  ASSUME TableOK, BeatEnded, UNCHANGED created
  PROVE  /\ BeatOK' /\ beat'.pc = "done" /\ beat'.todo = Nothing /\ beat'.written = Nothing
<1>1. beat' = [pc |-> "done", todo |-> Nothing, written |-> Nothing]
  BY DEF BeatEnded, Resting
<1>2. Nothing \in [DOMAIN Nothing -> 0..Full] /\ DOMAIN Nothing = {}
  BY DEF Nothing
<1>3. QED
  BY <1>1, <1>2 DEF BeatOK

LEMMA BeatReadMoves ==
  ASSUME TableOK, BeatOK, BeatRead
  PROVE  /\ UNCHANGED <<database, req, draft, created, counts, names>> /\ beat.pc = "idle"
         /\ \/ beat' = [beat EXCEPT !.pc = "done"] /\ UNCHANGED settled
            \/ /\ settled' = "run"
               /\ \E shares \in [Active -> 0..Full] :
                    /\ MakesUp(shares, Active)
                    /\ beat' = [beat EXCEPT !.pc = "write",
                                  !.todo = [s \in {t \in Active :
                                                     shares[t] # providers[t].share}
                                            |-> shares[s]]]
<1> DEFINE asks == [s \in Active |-> providers[s].total]
           total == Sum(asks, Active)
           Writes(shares) == beat' = [beat EXCEPT !.pc = "write",
                                        !.todo = [s \in {t \in Active :
                                                           shares[t] # providers[t].share}
                                                  |-> shares[s]]]
<1>1. /\ UNCHANGED <<database, req, draft, created, counts, names>> /\ beat.pc = "idle"
      /\ IF total = 0 THEN beat' = [beat EXCEPT !.pc = "done"] /\ UNCHANGED settled
         ELSE /\ \E last \in Active : \E part \in [Active \ {last} -> 0..Full] :
                   /\ \A s \in Active \ {last} : part[s] \in Rounded(asks[s], total)
                   /\ Writes(Shares(Active, last, part))
              /\ settled' = "run"
  BY Zenon DEF BeatRead
<1>2. Active \in SUBSET (DOMAIN providers)
  BY DEF Active
<1>3. IsFiniteSet(Active)
  BY <1>2, RowsFinite
<1>4. asks \in [Active -> Nat]
  BY <1>2 DEF TableOK, ProviderRow
<1> HIDE DEF asks, Writes
<1>5. ASSUME total # 0, NEW last \in Active, NEW part \in [Active \ {last} -> 0..Full],
             \A s \in Active \ {last} : part[s] \in Rounded(asks[s], total),
             Writes(Shares(Active, last, part))
      PROVE  \E shares \in [Active -> 0..Full] : MakesUp(shares, Active) /\ Writes(shares)
  <2>1. /\ Shares(Active, last, part) \in [Active -> 0..Full]
        /\ MakesUp(Shares(Active, last, part), Active)
    BY <1>3, <1>4, <1>5, SharesOf
  <2>2. QED
    BY <1>5, <2>1
<1>6. QED
  BY <1>1, <1>5 DEF Writes

LEMMA BeatReadTyped ==
  ASSUME TableOK, BeatOK, BeatRead
  PROVE  BeatOK'
<1>1. UNCHANGED created
  BY BeatReadMoves
<1>2. CASE beat' = [beat EXCEPT !.pc = "done"]
  BY <1>1, <1>2 DEF BeatOK
<1>3. ASSUME NEW shares \in [Active -> 0..Full], NEW S \in SUBSET Active,
             beat' = [beat EXCEPT !.pc = "write", !.todo = [s \in S |-> shares[s]]]
      PROVE  BeatOK'
  <2> DEFINE todo == [s \in S |-> shares[s]]
  <2>1. S \subseteq 1..created /\ todo \in [S -> 0..Full]
    BY DEF TableOK, Active
  <2> HIDE DEF todo
  <2>2. beat' = [beat EXCEPT !.pc = "write", !.todo = todo]
    BY <1>3 DEF todo
  <2>3. beat' = [pc |-> "write", todo |-> todo, written |-> beat.written]
    BY <2>2 DEF BeatOK
  <2>4. QED
    BY <1>1, <2>1, <2>3 DEF BeatOK
<1>4. ASSUME NEW shares \in [Active -> 0..Full],
             beat' = [beat EXCEPT !.pc = "write",
                        !.todo = [s \in {t \in Active : shares[t] # providers[t].share}
                                  |-> shares[s]]]
      PROVE  BeatOK'
  <2> DEFINE S == {t \in Active : shares[t] # providers[t].share}
  <2>1. S \in SUBSET Active
    OBVIOUS
  <2>2. beat' = [beat EXCEPT !.pc = "write", !.todo = [s \in S |-> shares[s]]]
    BY <1>4
  <2> HIDE DEF S
  <2>3. QED
    BY <1>3, <2>1, <2>2
<1>5. QED
  BY <1>2, <1>4, BeatReadMoves

LEMMA BeatFlushMoves ==
  ASSUME TableOK, BeatOK, BeatFlush
  PROVE  /\ UNCHANGED <<database, req, draft, created, edits, witnessed>> /\ beat.pc = "write"
         /\ \/ BeatEnded
            \/ \E s \in DOMAIN beat.todo :
                 /\ s \in DOMAIN providers /\ ~Locked(s, "beat")
                 /\ beat'.pc = "write"
                 /\ beat'.written = Put(beat.written, s, beat.todo[s])
                 /\ beat'.todo = [t \in DOMAIN beat.todo \ {s} |-> beat.todo[t]]
                 /\ BeatOK'
<1> DEFINE s == Min(DOMAIN beat.todo)
           put == Put(beat.written, s, beat.todo[s])
           rest == [t \in DOMAIN beat.todo \ {s} |-> beat.todo[t]]
<1>1. /\ UNCHANGED <<database, req, draft, created, edits, witnessed>> /\ beat.pc = "write"
      /\ beat.todo # Nothing
      /\ IF s \notin DOMAIN providers THEN BeatEnded
         ELSE /\ ~Locked(s, "beat")
              /\ beat' = [beat EXCEPT !.written = put, !.todo = rest]
  BY DEF BeatFlush, BeatEnded
<1>2. s \in DOMAIN beat.todo
  <2>1. DOMAIN beat.todo \in SUBSET Nat
    BY RoutingAssumption DEF BeatOK, TableOK
  <2>2. DOMAIN beat.todo # {}
    <3>1. beat.todo = [t \in DOMAIN beat.todo |-> beat.todo[t]]
      BY DEF BeatOK
    <3>2. QED
      BY <1>1, <3>1 DEF Nothing
  <2>3. QED
    BY <2>1, <2>2, LeastRow
<1>3. CASE s \in DOMAIN providers
  <2>1. /\ put \in [DOMAIN beat.written \cup {s} -> 0..Full]
        /\ rest \in [DOMAIN beat.todo \ {s} -> 0..Full]
    BY <1>2 DEF BeatOK, Put
  <2>2. s \in 1..created
    BY <1>3 DEF TableOK
  <2> HIDE DEF put, rest
  <2>3. beat' = [pc |-> "write", todo |-> rest, written |-> put]
    BY <1>1, <1>3 DEF BeatOK
  <2>4. UNCHANGED created
    BY <1>1
  <2>5. BeatOK'
    <3>1. beat'.todo = rest /\ beat'.written = put
      BY <2>3
    <3>2. beat' = [pc |-> beat'.pc, todo |-> beat'.todo, written |-> beat'.written]
      BY <2>3
    <3>3. DOMAIN rest \subseteq 1..created /\ DOMAIN put \subseteq 1..created
      BY <2>1, <2>2 DEF BeatOK
    <3>4. rest \in [DOMAIN rest -> 0..Full] /\ put \in [DOMAIN put -> 0..Full]
      BY <2>1
    <3>5. QED
      BY <2>4, <3>1, <3>2, <3>3, <3>4 DEF BeatOK
  <2>6. /\ beat'.pc = "write" /\ ~Locked(s, "beat")
        /\ beat'.written = Put(beat.written, s, beat.todo[s])
        /\ beat'.todo = [t \in DOMAIN beat.todo \ {s} |-> beat.todo[t]]
    BY <1>1, <1>3, <2>3 DEF put, rest
  <2> HIDE DEF s
  <2>7. QED
    BY <1>1, <1>2, <1>3, <2>5, <2>6
<1>4. QED
  BY <1>1, <1>3

LEMMA BeatCommitMoves ==
  ASSUME TableOK, BeatOK, BeatCommit
  PROVE  /\ UNCHANGED <<groups, assigned, req, draft, created, edits, counts, names>>
         /\ BeatEnded /\ beat.pc = "write" /\ beat.todo = Nothing
         /\ settled' = IF settled = "run" THEN "yes" ELSE settled
         /\ TableOK' /\ DOMAIN providers' = DOMAIN providers
         /\ \A s \in DOMAIN providers :
              /\ providers'[s].name = providers[s].name
              /\ providers'[s].active = providers[s].active
              /\ providers'[s].total = providers[s].total
              /\ providers'[s].share = Final(s)
<1>1. /\ UNCHANGED <<groups, assigned, req, draft, created, edits, counts, names>>
      /\ BeatEnded /\ beat.pc = "write" /\ beat.todo = Nothing
      /\ settled' = IF settled = "run" THEN "yes" ELSE settled
  BY DEF BeatCommit, BeatEnded
<1>2. DOMAIN providers' = DOMAIN providers /\ providers' = [s \in DOMAIN providers |-> providers'[s]]
  BY DEF BeatCommit
<1>3. ASSUME NEW s \in DOMAIN providers
      PROVE  /\ providers'[s] \in ProviderRow
             /\ providers'[s].name = providers[s].name
             /\ providers'[s].active = providers[s].active
             /\ providers'[s].total = providers[s].total
             /\ providers'[s].share = Final(s)
  <2>1. providers[s] \in ProviderRow
    BY DEF TableOK
  <2>2. Locks("beat") = DOMAIN beat.written /\ DOMAIN beat.todo = {}
    BY <1>1, LocksOf DEF Nothing
  <2>3. CASE s \in Locks("beat")
    <3>1. beat.written[s] \in 0..Full
      BY <2>2, <2>3 DEF BeatOK
    <3>2. providers'[s] = [providers[s] EXCEPT !.share = beat.written[s]]
      BY <2>3 DEF BeatCommit
    <3>3. QED
      BY <2>1, <2>2, <2>3, <3>1, <3>2 DEF ProviderRow, Final
  <2>4. CASE s \notin Locks("beat")
    <3>1. providers'[s] = providers[s]
      BY <2>4 DEF BeatCommit
    <3>2. QED
      BY <2>1, <2>2, <2>4, <3>1 DEF Final
  <2>5. QED
    BY <2>3, <2>4
<1>4. TableOK'
  <2>1. providers' \in [DOMAIN providers' -> ProviderRow]
    BY <1>2, <1>3
  <2>2. QED
    BY <1>1, <1>2, <2>1 DEF TableOK, counts
<1>5. QED
  BY <1>1, <1>2, <1>3, <1>4

Drafts(a) == \A b \in Admins \ {a} : draft'[b] = draft[b]

LEMMA CheckMoves ==
  ASSUME DraftsOK, NEW a \in Admins, NEW op \in Named, NEW s, NEW n \in Names,
         op = "create" => s = 0, CheckName(a, op, s, n)
  PROVE  /\ UNCHANGED <<database, req, beat, created, counts, settled, wanted, overwritten,
                        opened, granted>>
         /\ draft[a].op = "none" /\ Called(n) \ {s} = {} /\ DraftsOK' /\ Drafts(a)
         /\ draft'[a].op = op /\ draft'[a].row = s /\ draft'[a].name = n
         /\ raced' = (IF Naming(n) THEN raced \cup {n} ELSE raced)
<1>1. /\ UNCHANGED <<database, req, beat, created, counts, settled, wanted, overwritten,
                     opened, granted>>
      /\ draft[a].op = "none" /\ Called(n) \ {s} = {}
      /\ draft' = [draft EXCEPT ![a] = [draft[a] EXCEPT !.op = op, !.row = s, !.name = n]]
      /\ raced' = (IF Naming(n) THEN raced \cup {n} ELSE raced)
  BY DEF CheckName
<1> DEFINE d == [draft[a] EXCEPT !.op = op, !.row = s, !.name = n]
<1>2. DOMAIN draft[a] = {"op", "row", "name", "pruned"}
  BY DEF DraftsOK
<1>3. /\ DOMAIN d = {"op", "row", "name", "pruned"}
      /\ d.op = op /\ d.row = s /\ d.name = n
  BY <1>2
<1> HIDE DEF d
<1>4. draft' = [b \in Admins |-> IF b = a THEN d ELSE draft[b]]
  BY <1>1 DEF DraftsOK, d
<1>5. DraftsOK'
  BY <1>3, <1>4 DEF DraftsOK
<1>6. QED
  BY <1>1, <1>3, <1>4, <1>5 DEF Drafts

LEMMA DeleteMoves ==
  ASSUME DraftsOK, NEW a \in Admins, NEW s, Delete(a, s)
  PROVE  /\ UNCHANGED <<database, req, beat, created, counts, settled, raced, wanted,
                        opened, granted>>
         /\ draft[a].op = "none" /\ s \in DOMAIN providers /\ DraftsOK' /\ Drafts(a)
         /\ draft'[a].op = "delete" /\ draft'[a].name = providers[s].name
         /\ \A g \in DOMAIN groups :
              Without(groups[g], draft'[a].name) =
                IF g \in DOMAIN draft'[a].pruned THEN draft'[a].pruned[g] ELSE groups[g]
         /\ overwritten' = (IF Deleting THEN overwritten \cup DOMAIN groups ELSE overwritten)
<1> DEFINE n == providers[s].name
           with == {g \in DOMAIN groups : Without(groups[g], n) # groups[g]}
           pruned == [g \in with |-> Without(groups[g], n)]
           d == [op |-> "delete", row |-> s, name |-> n, pruned |-> pruned]
<1>1. /\ UNCHANGED <<database, req, beat, created, counts, settled, raced, wanted,
                     opened, granted>>
      /\ draft[a].op = "none" /\ s \in DOMAIN providers
      /\ draft' = [draft EXCEPT ![a] = d]
      /\ overwritten' = (IF Deleting THEN overwritten \cup DOMAIN groups ELSE overwritten)
  BY DEF Delete
<1>2. \A g \in DOMAIN groups :
        Without(groups[g], n) = IF g \in DOMAIN pruned THEN pruned[g] ELSE groups[g]
  OBVIOUS
<1> HIDE DEF pruned
<1>3. /\ DOMAIN d = {"op", "row", "name", "pruned"}
      /\ d.op = "delete" /\ d.name = n /\ d.pruned = pruned
  OBVIOUS
<1> HIDE DEF d
<1>4. draft' = [b \in Admins |-> IF b = a THEN d ELSE draft[b]]
  BY <1>1 DEF DraftsOK
<1>5. DraftsOK'
  BY <1>3, <1>4 DEF DraftsOK, Named
<1>6. QED
  BY <1>1, <1>2, <1>3, <1>4, <1>5 DEF Drafts

LEMMA Cleared ==
  ASSUME DraftsOK, NEW a \in Admins, draft' = [draft EXCEPT ![a] = NoDraft]
  PROVE  DraftsOK' /\ Drafts(a) /\ draft'[a].op = "none"
<1>1. draft' = [b \in Admins |-> IF b = a THEN NoDraft ELSE draft[b]]
  BY DEF DraftsOK
<1>2. QED
  BY <1>1 DEF DraftsOK, Drafts, NoDraft, Named

LEMMA CommitNameMoves ==
  ASSUME TableOK, DraftsOK, NEW a \in Admins, CommitName(a)
  PROVE  /\ UNCHANGED <<groups, assigned, req, beat, edits, counts, names>>
         /\ draft[a].op \in Named /\ TableOK' /\ DraftsOK' /\ Drafts(a) /\ draft'[a].op = "none"
         /\ \/ /\ created' = created + 1 /\ settled' = "no"
               /\ DOMAIN providers' = DOMAIN providers \cup {created + 1}
               /\ providers'[created + 1].name = draft[a].name
               /\ providers'[created + 1].total = 0
               /\ \A s \in DOMAIN providers : providers'[s] = providers[s]
            \/ /\ UNCHANGED <<created, settled>> /\ DOMAIN providers' = DOMAIN providers
               /\ \A s \in DOMAIN providers :
                    /\ providers'[s].total = providers[s].total
                    /\ providers'[s].active = providers[s].active
                    /\ providers'[s].share = providers[s].share
                    /\ providers'[s].name = IF s = draft[a].row THEN draft[a].name
                                            ELSE providers[s].name
<1>1. /\ UNCHANGED <<groups, assigned, req, beat, edits, counts, names>>
      /\ draft[a].op \in Named /\ draft' = [draft EXCEPT ![a] = NoDraft]
  BY DEF CommitName, Named
<1>2. DraftsOK' /\ Drafts(a) /\ draft'[a].op = "none" /\ draft[a].name \in Names
  BY <1>1, Cleared DEF DraftsOK
<1>3. created \in Nat /\ MaxRows \in Nat /\ Full \in Nat
  BY RoutingAssumption DEF TableOK
<1>4. UNCHANGED noted
  BY <1>1 DEF counts
<1>5. ASSUME draft[a].op = "create", created < MaxRows,
             providers' = Put(providers, created + 1,
                              [name |-> draft[a].name, active |-> TRUE, total |-> 0, share |-> 0]),
             created' = created + 1, settled' = "no"
      PROVE  /\ TableOK' /\ created' = created + 1 /\ settled' = "no"
             /\ DOMAIN providers' = DOMAIN providers \cup {created + 1}
             /\ providers'[created + 1].name = draft[a].name
             /\ providers'[created + 1].total = 0
             /\ \A s \in DOMAIN providers : providers'[s] = providers[s]
  <2> DEFINE row == [name |-> draft[a].name, active |-> TRUE, total |-> 0, share |-> 0]
             s == created + 1
  <2>1. row \in ProviderRow /\ row.name = draft[a].name /\ row.total = 0
    BY <1>2, <1>3 DEF ProviderRow
  <2>2. s \notin DOMAIN providers /\ s \in 1..s /\ DOMAIN providers \subseteq 1..s /\ s \in 0..MaxRows
    BY <1>3, <1>5 DEF TableOK
  <2> HIDE DEF row
  <2>3. /\ DOMAIN providers' = DOMAIN providers \cup {s} /\ providers'[s] = row
        /\ \A t \in DOMAIN providers : providers'[t] = providers[t]
        /\ providers' = [t \in DOMAIN providers' |-> providers'[t]]
    BY <1>5, <2>2 DEF Put, row
  <2>4. ASSUME NEW t \in DOMAIN providers' PROVE providers'[t] \in ProviderRow
    <3>1. CASE t = s
      BY <2>1, <2>3, <3>1
    <3>2. CASE t # s
      BY <2>3, <3>2 DEF TableOK
    <3>3. QED
      BY <3>1, <3>2
  <2> HIDE DEF s
  <2>5. TableOK'
    <3>1. providers' \in [DOMAIN providers' -> ProviderRow]
      BY <2>3, <2>4
    <3>2. DOMAIN providers' \subseteq 1..s
      BY <2>2, <2>3
    <3>3. created' = s
      BY <1>5 DEF s
    <3>4. QED
      BY <1>4, <2>2, <3>1, <3>2, <3>3 DEF TableOK
  <2>6. QED
    BY <1>5, <2>1, <2>3, <2>5 DEF s
<1>6. ASSUME UNCHANGED <<created, settled>>,
             providers' = [t \in DOMAIN providers |->
                             IF t = draft[a].row THEN [providers[t] EXCEPT !.name = draft[a].name]
                             ELSE providers[t]]
      PROVE  /\ TableOK' /\ UNCHANGED <<created, settled>> /\ DOMAIN providers' = DOMAIN providers
             /\ \A s \in DOMAIN providers :
                  /\ providers'[s].total = providers[s].total
                  /\ providers'[s].active = providers[s].active
                  /\ providers'[s].share = providers[s].share
                  /\ providers'[s].name = IF s = draft[a].row THEN draft[a].name
                                          ELSE providers[s].name
  <2>1. ASSUME NEW s \in DOMAIN providers
        PROVE  /\ providers'[s] \in ProviderRow
               /\ providers'[s].total = providers[s].total
               /\ providers'[s].active = providers[s].active
               /\ providers'[s].share = providers[s].share
               /\ providers'[s].name = IF s = draft[a].row THEN draft[a].name
                                       ELSE providers[s].name
    <3>1. providers[s] \in ProviderRow
      BY DEF TableOK
    <3>2. CASE s = draft[a].row
      <4>1. providers'[s] = [providers[s] EXCEPT !.name = draft[a].name]
        BY <1>6, <3>2
      <4>2. QED
        BY <1>2, <3>1, <3>2, <4>1 DEF ProviderRow
    <3>3. CASE s # draft[a].row
      BY <1>6, <3>1, <3>3
    <3>4. QED
      BY <3>2, <3>3
  <2>2. DOMAIN providers' = DOMAIN providers /\ providers' = [s \in DOMAIN providers' |-> providers'[s]]
    BY <1>6
  <2>3. TableOK'
    <3>1. providers' \in [DOMAIN providers' -> ProviderRow]
      BY <2>1, <2>2
    <3>2. QED
      BY <1>4, <1>6, <2>2, <3>1 DEF TableOK
  <2>4. QED
    BY <1>6, <2>1, <2>2, <2>3
<1>7. \/ /\ draft[a].op = "create" /\ created < MaxRows
         /\ providers' = Put(providers, created + 1,
                             [name |-> draft[a].name, active |-> TRUE, total |-> 0, share |-> 0])
         /\ created' = created + 1 /\ settled' = "no"
      \/ /\ UNCHANGED <<created, settled>>
         /\ providers' = [t \in DOMAIN providers |->
                             IF t = draft[a].row THEN [providers[t] EXCEPT !.name = draft[a].name]
                             ELSE providers[t]]
  BY DEF CommitName
<1>8. QED
  BY <1>1, <1>2, <1>5, <1>6, <1>7

LEMMA CommitDeleteMoves ==
  ASSUME TableOK, DraftsOK, NEW a \in Admins, CommitDelete(a)
  PROVE  /\ UNCHANGED <<assigned, req, beat, created, edits, counts, raced, overwritten,
                        opened, granted>>
         /\ draft[a].op = "delete" /\ TableOK' /\ DraftsOK' /\ Drafts(a) /\ draft'[a].op = "none"
         /\ \/ /\ DOMAIN providers' \subseteq DOMAIN providers
               /\ \A s \in DOMAIN providers' : providers'[s] = providers[s]
               /\ groups' = [g \in DOMAIN groups |->
                               IF g \in DOMAIN draft[a].pruned THEN draft[a].pruned[g]
                               ELSE groups[g]]
               /\ wanted' = [g \in DOMAIN wanted |-> Without(wanted[g], draft[a].name)]
               /\ settled' = "no"
            \/ UNCHANGED <<providers, groups, wanted, settled>>
<1> DEFINE done == DOMAIN draft[a].pruned \subseteq DOMAIN groups
<1>1. /\ UNCHANGED <<assigned, req, beat, created, edits, counts, raced, overwritten,
                     opened, granted>>
      /\ draft[a].op = "delete" /\ draft' = [draft EXCEPT ![a] = NoDraft]
  BY DEF CommitDelete
<1>2. DraftsOK' /\ Drafts(a) /\ draft'[a].op = "none"
  BY <1>1, Cleared
<1>3. \/ /\ providers' = [s \in DOMAIN providers \ {draft[a].row} |-> providers[s]]
         /\ groups' = [g \in DOMAIN groups |->
                         IF g \in DOMAIN draft[a].pruned THEN draft[a].pruned[g]
                         ELSE groups[g]]
         /\ wanted' = [g \in DOMAIN wanted |-> Without(wanted[g], draft[a].name)]
         /\ settled' = "no"
      \/ UNCHANGED <<providers, groups, wanted, settled>>
  <2>1. CASE done
    BY <2>1 DEF CommitDelete
  <2>2. CASE ~done
    BY <2>2 DEF CommitDelete
  <2>3. QED
    BY <2>1, <2>2
<1>4. UNCHANGED <<created, noted>>
  BY <1>1 DEF counts
<1>5. CASE UNCHANGED <<providers, groups, wanted, settled>>
  BY <1>1, <1>2, <1>4, <1>5 DEF TableOK
<1>6. CASE providers' = [s \in DOMAIN providers \ {draft[a].row} |-> providers[s]]
  <2>1. TableOK'
    BY <1>4, <1>6 DEF TableOK
  <2>2. /\ DOMAIN providers' \subseteq DOMAIN providers
        /\ \A s \in DOMAIN providers' : providers'[s] = providers[s]
    BY <1>6
  <2>3. QED
    BY <1>1, <1>2, <1>3, <2>1, <2>2
<1>7. QED
  BY <1>3, <1>5, <1>6

LEMMA SetProviderMoves ==
  ASSUME TableOK, NEW s, SetProvider(s)
  PROVE  /\ UNCHANGED <<groups, assigned, req, beat, draft, created, counts, names>>
         /\ settled' = "no" /\ TableOK' /\ DOMAIN providers' = DOMAIN providers
         /\ \A t \in DOMAIN providers :
              providers'[t].name = providers[t].name /\ providers'[t].total = providers[t].total
<1>1. /\ UNCHANGED <<groups, assigned, req, beat, draft, created, counts, names>>
      /\ settled' = "no" /\ s \in DOMAIN providers /\ UNCHANGED <<created, noted>>
  BY DEF SetProvider, counts
<1>2. ASSUME NEW p \in ProviderRow, p.name = providers[s].name, p.total = providers[s].total,
             providers' = [providers EXCEPT ![s] = p]
      PROVE  /\ TableOK' /\ DOMAIN providers' = DOMAIN providers
             /\ \A t \in DOMAIN providers :
                  providers'[t].name = providers[t].name /\ providers'[t].total = providers[t].total
  BY <1>1, <1>2 DEF TableOK
<1>3. providers[s] \in ProviderRow /\ Full \in Nat
  BY <1>1, RoutingAssumption DEF TableOK
<1>4. CASE providers' = [providers EXCEPT ![s].active = ~@]
  <2> DEFINE p == [providers[s] EXCEPT !.active = ~providers[s].active]
  <2>1. p \in ProviderRow /\ p.name = providers[s].name /\ p.total = providers[s].total
    BY <1>3 DEF ProviderRow
  <2>2. providers' = [providers EXCEPT ![s] = p]
    BY <1>4
  <2> HIDE DEF p
  <2>3. QED
    BY <1>1, <1>2, <2>1, <2>2
<1>5. ASSUME NEW share \in {0, Full}, providers' = [providers EXCEPT ![s].share = share]
      PROVE  /\ TableOK' /\ DOMAIN providers' = DOMAIN providers
             /\ \A t \in DOMAIN providers :
                  providers'[t].name = providers[t].name /\ providers'[t].total = providers[t].total
  <2> DEFINE p == [providers[s] EXCEPT !.share = share]
  <2>1. p \in ProviderRow /\ p.name = providers[s].name /\ p.total = providers[s].total
    BY <1>3 DEF ProviderRow
  <2>2. providers' = [providers EXCEPT ![s] = p]
    BY <1>5
  <2> HIDE DEF p
  <2>3. QED
    BY <1>2, <2>1, <2>2
<1>6. QED
  BY <1>1, <1>4, <1>5 DEF SetProvider

\* Edits of groups and of rules.
Regrouped == UNCHANGED <<providers, req, beat, draft, created, counts, settled, raced>>

LEMMA RegroupMoves ==
  /\ \A g, members : SetGroup(g, members) => Regrouped
  /\ \A g : DropGroup(g) => Regrouped
  /\ Reassign => Regrouped
<1>1. \A g, members : SetGroup(g, members) => Regrouped
  BY DEF SetGroup, Regrouped
<1>2. \A g : DropGroup(g) => Regrouped
  BY DEF DropGroup, Regrouped, witnessed, names
<1>3. \A keys : Assign(keys) => Regrouped
  BY DEF Assign, Regrouped
<1>4. Reassign => Regrouped
  BY <1>3, Zenon DEF Reassign
<1>5. QED
  BY <1>1, <1>2, <1>4

RequestStep(r) ==
  \/ \E ask, key : (key \in Keys \cup {NoKey}) /\ Route(r, ask, key)
  \/ Resolve(r) \/ Call(r) \/ Flush(r) \/ Count(r) \/ EarlyCommit(r) \/ LastCommit(r)
  \/ Deadlocked(r) /\ Ended(r, "deadlock") /\ Elsewhere

BeatStep ==
  \/ BeatRead \/ BeatFlush \/ BeatCommit
  \/ BeatEnded /\ UNCHANGED <<database, req, draft, created, edits, witnessed>>

AdminStep(a) ==
  \/ \E op \in Named, n \in Names : \E s :
       (op = "create" => s = 0) /\ CheckName(a, op, s, n)
  \/ \E s : Delete(a, s)
  \/ CommitName(a) \/ CommitDelete(a)

LEMMA RoutingSteps ==
  ASSUME [RoutingNext]_routingVars
  PROVE  \/ \E r \in Requests : RequestStep(r)
         \/ BeatStep
         \/ \E a \in Admins : AdminStep(a)
         \/ \E s \in Rows : SetProvider(s)
         \/ \E g \in 1..MaxGroups, members \in MemberLists : SetGroup(g, members)
         \/ \E g \in DOMAIN groups : DropGroup(g)
         \/ Reassign
         \/ UNCHANGED routingVars
<1>1. CASE \E r \in Requests : Request(r)
  BY <1>1, Zenon DEF Request, RequestStep
<1>2. CASE BeatRead \/ BeatFlush \/ BeatCommit
  BY <1>2 DEF BeatStep
<1>3. ASSUME NEW w \in Writers, Victim(w)
      PROVE  BeatStep \/ \E r \in Requests : RequestStep(r)
  <2>1. CASE w = "beat"
    BY <1>3, <2>1 DEF Victim, BeatStep, BeatEnded
  <2>2. CASE w # "beat"
    BY <1>3, <2>2 DEF Victim, RequestStep, Elsewhere, Writers
  <2>3. QED
    BY <2>1, <2>2
<1>4. ASSUME NEW a \in Admins, Administer(a)
      PROVE  AdminStep(a)
  <2>1. CASE \E n \in Names : Create(a, n)
    BY <2>1 DEF Create, AdminStep, Named
  <2>2. CASE \E s \in Rows, n \in Names : Rename(a, s, n)
    BY <2>2 DEF Rename, AdminStep, Named
  <2>3. CASE \E s \in Rows : Delete(a, s)
    BY <2>3 DEF AdminStep
  <2>4. CASE CommitName(a) \/ CommitDelete(a)
    BY <2>4 DEF AdminStep
  <2>5. QED
    BY <1>4, <2>1, <2>2, <2>3, <2>4 DEF Administer
<1>5. QED
  BY <1>1, <1>2, <1>3, <1>4 DEF RoutingNext, Configure, AllDone

LEMMA RequestTyped ==
  ASSUME TableOK, ReqsOK, NEW r \in Requests, RequestStep(r)
  PROVE  TableOK' /\ ReqsOK' /\ UNCHANGED <<beat, draft, created>> /\ DOMAIN providers' = DOMAIN providers
<1> DEFINE Same == UNCHANGED <<providers, beat, draft, created, noted>>
<1>0. Same => TableOK' /\ UNCHANGED <<beat, draft, created>> /\ DOMAIN providers' = DOMAIN providers
  BY DEF TableOK
<1>1. Elsewhere => Same
  BY DEF Elsewhere, database, witnessed, counts
<1>2. Shape /\ req[r].got \in BOOLEAN
  BY ShapeOf DEF ReqsOK, ReqOK
<1>3. ASSUME NEW ask, NEW key, Route(r, ask, key) PROVE ReqsOK' /\ Same
  <2>1. /\ Elsewhere /\ Moved(r) /\ Counted(r) /\ req'[r].pc = "resolve" /\ req'[r].got = req[r].got
    BY <1>2, <1>3, RouteMoves
  <2>2. QED
    BY <1>1, <1>2, <2>1, KeeperTyped
<1>4. CASE Resolve(r)
  <2>1. /\ Elsewhere
        /\ \/ Ended(r, "ambiguous")
           \/ Moved(r) /\ Counted(r) /\ req'[r].pc = "call" /\ req'[r].got = req[r].got
    BY <1>2, <1>4, ResolveMoves
  <2>2. QED
    BY <1>0, <1>1, <1>2, <2>1, KeeperTyped, EndedTyped
<1>5. CASE Call(r)
  <2>1. /\ Elsewhere
        /\ \/ Ended(r, "error")
           \/ /\ Moved(r) /\ Counted(r) /\ req'[r].pc \in {"count", "finish"}
              /\ req'[r].got \in {TRUE, req[r].got}
    BY <1>2, <1>5, CallMoves
  <2>2. QED
    BY <1>0, <1>1, <1>2, <2>1, KeeperTyped, EndedTyped
<1>6. CASE Flush(r)
  BY <1>0, <1>1, <1>2, <1>6, FlushTyped, FlushMoves
<1>7. CASE Count(r)
  BY <1>0, <1>7, CountTyped
<1>8. CASE EarlyCommit(r)
  <2>1. /\ UNCHANGED <<beat, draft, created>> /\ Stored(r)
        /\ Moved(r) /\ req'[r].pc = req[r].pc /\ req'[r].got = req[r].got
        /\ req'[r].counted = req[r].counted /\ req'[r].due = NoRow /\ req'[r].written = Nothing
    BY <1>2, <1>8, EarlyMoves
  <2>2. NoRow \in [row : 0..created', total : Nat]
    BY <2>1, RoutingAssumption DEF NoRow, TableOK
  <2>3. DOMAIN req'[r] = ReqFields /\ ReqOK(r)
    BY <2>1 DEF Moved, ReqsOK
  <2>4. ReqOK(r)'
    BY <2>1, <2>2, <2>3 DEF ReqOK, Nothing
  <2>5. QED
    BY <2>1, <2>4, MoverTyped, StoredRows
<1>9. CASE LastCommit(r)
  <2>1. /\ UNCHANGED <<beat, draft, created>> /\ Stored(r) /\ Ended(r, req[r].outcome)
    BY <1>2, <1>9, LastMoves
  <2>2. QED
    BY <2>1, EndedTyped, StoredRows
<1>10. CASE Ended(r, "deadlock") /\ Elsewhere
  BY <1>0, <1>1, <1>10, EndedTyped
<1>11. QED
  BY <1>0, <1>3, <1>4, <1>5, <1>6, <1>7, <1>8, <1>9, <1>10 DEF RequestStep

LEMMA BeatTyped ==
  ASSUME TableOK, BeatOK, BeatStep
  PROVE  /\ TableOK' /\ BeatOK' /\ UNCHANGED <<req, draft, created, noted, crossed>>
         /\ DOMAIN providers' = DOMAIN providers
<1> DEFINE Same == UNCHANGED <<providers, req, draft, created, noted, crossed>>
<1>0. Same => /\ TableOK' /\ UNCHANGED <<req, draft, created, noted, crossed>>
              /\ DOMAIN providers' = DOMAIN providers
  BY DEF TableOK
<1>1. CASE BeatRead
  <2>1. Same
    BY <1>1, BeatReadMoves DEF database, counts
  <2>2. QED
    BY <1>0, <1>1, <2>1, BeatReadTyped
<1>2. CASE BeatFlush
  <2>1. Same
    BY <1>2, BeatFlushMoves DEF database, counts, witnessed
  <2>2. QED
    BY <1>0, <1>2, <2>1, BeatFlushMoves, BeatEnds
<1>3. CASE BeatCommit
  BY <1>3, BeatCommitMoves, BeatEnds DEF counts
<1>4. CASE BeatEnded /\ UNCHANGED <<database, req, draft, created, edits, witnessed>>
  <2>1. Same
    BY <1>4 DEF database, counts, witnessed
  <2>2. QED
    BY <1>0, <1>4, <2>1, BeatEnds
<1>5. QED
  BY <1>1, <1>2, <1>3, <1>4 DEF BeatStep

LEMMA AdminTyped ==
  ASSUME TableOK, DraftsOK, NEW a \in Admins, AdminStep(a)
  PROVE  /\ TableOK' /\ DraftsOK' /\ UNCHANGED <<req, beat, noted, crossed>>
         /\ created' \in {created, created + 1}
         /\ \A s \in DOMAIN providers' : s \in DOMAIN providers \/ (s = created + 1 /\ created' = s)
<1> DEFINE Same == UNCHANGED <<providers, req, beat, created, noted, crossed>>
<1>0. Same => TableOK'
  BY DEF TableOK
<1>1. ASSUME NEW op \in Named, NEW n \in Names, NEW s, op = "create" => s = 0, CheckName(a, op, s, n)
      PROVE  Same /\ DraftsOK'
  BY <1>1, CheckMoves DEF database, counts
<1>2. ASSUME NEW s, Delete(a, s)
      PROVE  Same /\ DraftsOK'
  BY <1>2, DeleteMoves DEF database, counts
<1>3. CASE CommitName(a)
  <2>1. TableOK' /\ DraftsOK' /\ UNCHANGED <<req, beat, noted, crossed>>
    BY <1>3, CommitNameMoves DEF counts
  <2>2. \/ created' = created + 1 /\ DOMAIN providers' = DOMAIN providers \cup {created + 1}
        \/ created' = created /\ DOMAIN providers' = DOMAIN providers
    BY <1>3, CommitNameMoves
  <2>3. QED
    BY <2>1, <2>2
<1>4. CASE CommitDelete(a)
  <2>1. /\ TableOK' /\ DraftsOK' /\ UNCHANGED <<req, beat, noted, crossed, created>>
        /\ DOMAIN providers' \subseteq DOMAIN providers
    BY <1>4, CommitDeleteMoves DEF counts
  <2>2. QED
    BY <2>1
<1>5. CASE Same /\ DraftsOK'
  <2>1. TableOK' /\ created' = created /\ DOMAIN providers' = DOMAIN providers
    BY <1>0, <1>5
  <2>2. QED
    BY <1>5, <2>1
<1>6. QED
  BY <1>1, <1>2, <1>3, <1>4, <1>5 DEF AdminStep

\* A request's rows were given out before more rows were.
LEMMA MoreRows ==
  ASSUME TableOK, ReqsOK, UNCHANGED req, created' \in {created, created + 1}
  PROVE  ReqsOK'
<1>1. created \in Nat
  BY RoutingAssumption DEF TableOK
<1>2. 0..created \subseteq 0..created' /\ 1..created \subseteq 1..created'
  BY <1>1
<1>3. ASSUME NEW r \in Requests PROVE ReqOK(r)'
  <2>1. ReqOK(r)
    BY DEF ReqsOK
  <2>2. QED
    BY <1>2, <2>1 DEF ReqOK
<1>4. QED
  BY <1>3 DEF ReqsOK

LEMMA MoreRowsBeat ==
  ASSUME TableOK, BeatOK, UNCHANGED beat, created' \in {created, created + 1}
  PROVE  BeatOK'
<1>1. created \in Nat
  BY RoutingAssumption DEF TableOK
<1>2. 1..created \subseteq 1..created'
  BY <1>1
<1>3. QED
  BY <1>2 DEF BeatOK

LEMMA RowsTypedInit == RoutingInit => RowsTyped
<1> SUFFICES ASSUME RoutingInit PROVE RowsTyped
  OBVIOUS
<1>1. PICK n \in 0..MaxRows :
        FirstRows \in [1..n -> [name : Names, active : BOOLEAN, total : Nat, share : 0..Full]]
  BY FirstAssumption
<1>2. DOMAIN FirstRows = 1..n /\ n \in Nat
  BY <1>1, RoutingAssumption
<1>3. created = n
  <2>1. Cardinality(1..n) = n
    BY <1>2, FS_Interval
  <2>2. QED
    BY <1>2, <2>1 DEF RoutingInit
<1>4. TableOK
  <2>1. noted \in [Rows -> Nat]
    BY <1>1, <1>2 DEF RoutingInit
  <2>2. providers \in [DOMAIN providers -> ProviderRow]
    BY <1>1, <1>2 DEF RoutingInit, ProviderRow
  <2>3. DOMAIN providers \subseteq 1..created
    BY <1>2, <1>3 DEF RoutingInit
  <2>4. QED
    BY <1>2, <1>3, <2>1, <2>2, <2>3 DEF TableOK
<1>5. ReqsOK
  <2>1. req = [r \in Requests |-> Fresh]
    BY DEF RoutingInit
  <2>2. NoRow \in [row : 0..created, total : Nat]
    BY <1>2, <1>3 DEF NoRow
  <2>3. QED
    BY <2>1, <2>2 DEF ReqsOK, ReqOK, Fresh, ReqFields, Nothing
<1>6. BeatOK
  <2>1. beat = [pc |-> "idle", todo |-> Nothing, written |-> Nothing]
    BY DEF RoutingInit, Resting
  <2>2. Nothing \in [DOMAIN Nothing -> 0..Full] /\ DOMAIN Nothing = {}
    BY DEF Nothing
  <2>3. QED
    BY <2>1, <2>2 DEF BeatOK
<1>7. DraftsOK
  BY DEF RoutingInit, DraftsOK, NoDraft, Named
<1>8. QED
  BY <1>4, <1>5, <1>6, <1>7 DEF RowsTyped

LEMMA RowsTypedNext == RowsTyped /\ [RoutingNext]_routingVars => RowsTyped'
<1> SUFFICES ASSUME TableOK, ReqsOK, BeatOK, DraftsOK, [RoutingNext]_routingVars
             PROVE  TableOK' /\ ReqsOK' /\ BeatOK' /\ DraftsOK'
  BY DEF RowsTyped
<1>1. ASSUME NEW r \in Requests, RequestStep(r)
      PROVE  TableOK' /\ ReqsOK' /\ BeatOK' /\ DraftsOK'
  BY <1>1, RequestTyped, MoreRowsBeat DEF DraftsOK
<1>2. CASE BeatStep
  BY <1>2, BeatTyped, MoreRows DEF DraftsOK
<1>3. ASSUME NEW a \in Admins, AdminStep(a)
      PROVE  TableOK' /\ ReqsOK' /\ BeatOK' /\ DraftsOK'
  BY <1>3, AdminTyped, MoreRows, MoreRowsBeat
<1>4. ASSUME NEW s \in Rows, SetProvider(s)
      PROVE  TableOK' /\ ReqsOK' /\ BeatOK' /\ DraftsOK'
  BY <1>4, SetProviderMoves, MoreRows, MoreRowsBeat DEF DraftsOK
<1>5. CASE Regrouped \/ UNCHANGED routingVars
  <2>1. UNCHANGED <<providers, req, beat, draft, created, noted>>
    BY <1>5 DEF Regrouped, routingVars, database, witnessed, counts
  <2>2. QED
    BY <2>1, MoreRows, MoreRowsBeat DEF DraftsOK, TableOK
<1>6. QED
  BY <1>1, <1>2, <1>3, <1>4, <1>5, RoutingSteps, RegroupMoves

----------------------------------------------------------------------------
(* Locks, and what becomes of an answer.                                    *)

LEMMA LocksNext ==
  /\ \A r \in Requests : Locks(r)' = DOMAIN req'[r].written
  /\ Locks("beat")' = DOMAIN beat'.written
BY RoutingAssumption DEF Locks

LEMMA OtherLocks ==
  ASSUME NEW r \in Requests, Others(r), UNCHANGED beat
  PROVE  \A v \in Writers \ {r} : Locks(v)' = Locks(v)
BY LocksOf, LocksNext DEF Others, Writers

LEMMA WroteLocks ==
  ASSUME NEW r \in Requests, NEW s, NEW n, Wrote(r, s, n)
  PROVE  Locks(r)' = Locks(r) \cup {s}
BY LocksNext DEF Wrote

LEMMA FreedLocks ==
  ASSUME NEW r \in Requests, req'[r].written = Nothing
  PROVE  Locks(r)' = {}
BY LocksNext DEF Nothing

LEMMA KeptLocks ==
  ASSUME NEW r \in Requests, req'[r].written = req[r].written
  PROVE  Locks(r)' = Locks(r)
BY LocksOf, LocksNext

LEMMA RequestLocks ==
  ASSUME ReqsOK, LocksHeld, NEW r \in Requests, RequestStep(r), UNCHANGED beat
  PROVE  LocksHeld' /\ Moved(r)
<1>1. Shape /\ r \in Writers
  BY ShapeOf DEF Writers
<1>2. ASSUME Moved(r), Locks(r)' \subseteq Locks(r) PROVE LocksHeld'
  <2>1. \A v \in Writers \ {r} : Locks(v)' = Locks(v)
    BY <1>2, OtherLocks DEF Moved
  <2>2. QED
    <3>1. Locks(r)' \subseteq Locks(r) \cup {}
      BY <1>2
    <3>2. \A s \in {} : ~Locked(s, r)
      OBVIOUS
    <3>3. QED
      BY <1>1, <2>1, <3>1, <3>2 DEF LocksHeld, Locked
<1>3. ASSUME NEW how, Ended(r, how) PROVE LocksHeld' /\ Moved(r)
  <2>1. Moved(r) /\ req'[r].written = Nothing
    BY <1>1, <1>3, EndedMoves
  <2>2. QED
    BY <1>2, <2>1, FreedLocks
<1>4. ASSUME Moved(r), req'[r].written = req[r].written PROVE LocksHeld'
  BY <1>2, <1>4, KeptLocks
<1>5. ASSUME NEW ask, NEW key, Route(r, ask, key) PROVE LocksHeld' /\ Moved(r)
  BY <1>1, <1>4, <1>5, RouteMoves DEF Counted
<1>6. CASE Resolve(r)
  BY <1>1, <1>3, <1>4, <1>6, ResolveMoves DEF Counted
<1>7. CASE Call(r)
  BY <1>1, <1>3, <1>4, <1>7, CallMoves DEF Counted
<1>8. CASE Flush(r)
  <2> DEFINE s == req[r].due.row
  <2>1. \/ Ended(r, "stale")
        \/ ~Locked(s, r) /\ Moved(r) /\ Wrote(r, s, req[r].due.total)
    BY <1>1, <1>8, FlushMoves
  <2>2. ASSUME ~Locked(s, r), Moved(r), Wrote(r, s, req[r].due.total) PROVE LocksHeld'
    <3>1. \A v \in Writers \ {r} : Locks(v)' = Locks(v)
      BY <2>2, OtherLocks DEF Moved
    <3>2. Locks(r)' \subseteq Locks(r) \cup {s}
      BY <2>2, WroteLocks
    <3>3. QED
      BY <1>1, <2>2, <3>1, <3>2 DEF LocksHeld, Locked
  <2>3. QED
    BY <1>3, <2>1, <2>2
<1>9. CASE Count(r)
  BY <1>1, <1>3, <1>4, <1>9, CountMoves
<1>10. CASE EarlyCommit(r)
  BY <1>1, <1>2, <1>10, EarlyMoves, FreedLocks
<1>11. CASE LastCommit(r)
  BY <1>1, <1>3, <1>11, LastMoves
<1>12. CASE Ended(r, "deadlock")
  BY <1>3, <1>12
<1>13. QED
  BY <1>5, <1>6, <1>7, <1>8, <1>9, <1>10, <1>11, <1>12 DEF RequestStep

LEMMA BeatLocks ==
  ASSUME TableOK, BeatOK, LocksHeld, BeatStep, UNCHANGED req
  PROVE  LocksHeld'
<1>0. "beat" \in Writers
  BY DEF Writers
<1>1. \A v \in Writers \ {"beat"} : Locks(v)' = Locks(v)
  BY LocksOf, LocksNext DEF Writers
<1>2. ASSUME Locks("beat")' \subseteq Locks("beat") PROVE LocksHeld'
  <2>1. Locks("beat")' \subseteq Locks("beat") \cup {}
    BY <1>2
  <2>2. \A s \in {} : ~Locked(s, "beat")
    OBVIOUS
  <2>3. QED
    BY <1>0, <1>1, <2>1, <2>2 DEF LocksHeld, Locked
<1>3. CASE BeatEnded
  <2>1. DOMAIN beat'.written = {}
    BY <1>3 DEF BeatEnded, Resting, Nothing
  <2>2. QED
    BY <1>2, <2>1, LocksNext
<1>4. CASE BeatRead
  <2>1. ASSUME NEW todo, beat' = [beat EXCEPT !.pc = "write", !.todo = todo]
        PROVE  beat'.written = beat.written
    BY <2>1 DEF BeatOK
  <2>2. beat' = [beat EXCEPT !.pc = "done"] => beat'.written = beat.written
    BY DEF BeatOK
  <2>3. beat'.written = beat.written
    BY <1>4, <2>1, <2>2, BeatReadMoves
  <2>4. QED
    BY <1>2, <2>3, LocksOf, LocksNext
<1>5. CASE BeatFlush /\ ~BeatEnded
  <2>1. PICK s : ~Locked(s, "beat") /\ beat'.written = Put(beat.written, s, beat.todo[s])
    BY <1>5, BeatFlushMoves
  <2>2. Locks("beat")' \subseteq Locks("beat") \cup {s}
    BY <2>1, LocksOf, LocksNext DEF Put
  <2>3. QED
    BY <1>0, <1>1, <2>1, <2>2 DEF LocksHeld, Locked
<1>6. QED
  BY <1>3, <1>4, <1>5, BeatCommitMoves DEF BeatStep

\* Who waits and who is waited for: in a circle of waiters each holds a row
\* that another one of them needs, and each needs one row at most.  So they
\* all need one.
LEMMA VictimWaits ==
  ASSUME TableOK, ReqsOK, BeatOK, LocksHeld, NEW r \in Requests, Deadlocked(r)
  PROVE  req[r].due # NoRow /\ Locks(r) # {}
<1>1. PICK circle \in SUBSET Writers :
        /\ r \in circle
        /\ circle = {v \in Writers : \E u \in circle : Needs(u) \cap Locks(v) # {}}
  BY DEF Deadlocked
<1>2. \A v \in circle : \E u \in circle : Needs(u) \cap Locks(v) # {}
  <2> HIDE DEF Needs, Locks
  <2>1. QED
    BY <1>1
<1>3. Locks(r) # {}
  BY <1>1, <1>2
<1>4. ASSUME req[r].due = NoRow PROVE FALSE
  <2> DEFINE g == [v \in circle |-> CHOOSE u \in circle : Needs(u) \cap Locks(v) # {}]
  <2>1. ASSUME NEW v \in circle PROVE g[v] \in circle /\ Needs(g[v]) \cap Locks(v) # {}
    BY <1>2
  <2>2. ASSUME NEW v \in circle PROVE g[v] # r
    <3>1. Needs(r) = {0}
      BY <1>4, RoutingAssumption DEF Needs, NoRow
    <3>2. 0 \notin Locks(v)
      <4>1. CASE v = "beat"
        BY <4>1, LocksOf DEF BeatOK
      <4>2. CASE v \in Requests
        BY <4>2, LocksOf DEF ReqsOK, ReqOK
      <4>3. QED
        BY <1>1, <4>1, <4>2 DEF Writers
    <3>3. QED
      BY <2>1, <3>1, <3>2
  <2>3. ASSUME NEW u \in Writers, NEW s \in Needs(u), NEW t \in Needs(u) PROVE s = t
    BY <2>3 DEF Needs
  <2>4. ASSUME NEW v \in circle, NEW w \in circle, g[v] = g[w] PROVE v = w
    <3>1. PICK s : s \in Needs(g[v]) /\ s \in Locks(v)
      BY <2>1
    <3>2. PICK t : t \in Needs(g[v]) /\ t \in Locks(w)
      BY <2>1, <2>4
    <3>3. g[v] \in Writers /\ v \in Writers /\ w \in Writers
      BY <1>1, <2>1
    <3>4. s = t
      BY <2>3, <3>1, <3>2, <3>3
    <3>5. QED
      BY <3>1, <3>2, <3>3, <3>4 DEF LocksHeld
  <2>5. IsFiniteSet(circle)
    <3>1. IsFiniteSet(Writers)
      BY RoutingAssumption, FS_AddElement DEF Writers
    <3>2. QED
      BY <1>1, <3>1, FS_Subset
  <2>6. /\ IsFiniteSet(circle \ {r}) /\ Cardinality(circle \ {r}) = Cardinality(circle) - 1
        /\ Cardinality(circle) \in Nat
    <3>0. r \in circle
      BY <1>1
    <3>1. IsFiniteSet(circle \ {r}) /\ Cardinality(circle \ {r}) = Cardinality(circle) - 1
      BY <2>5, <3>0, FS_RemoveElement
    <3>2. Cardinality(circle) \in Nat
      BY <2>5, FS_CardinalityType
    <3>3. QED
      BY <3>1, <3>2
  <2>7. g \in [circle -> circle \ {r}]
    BY <2>1, <2>2
  <2>8. Cardinality(circle \ {r}) < Cardinality(circle)
    BY <2>6
  <2> HIDE DEF g
  <2>9. \E v, w \in circle : v # w /\ g[v] = g[w]
    BY <2>5, <2>6, <2>7, <2>8, FS_PigeonHole
  <2>10. QED
    BY <2>4, <2>9
<1>5. QED
  BY <1>3, <1>4

\* A request that ends so.
EndsWell(r, how) ==
  /\ how \in {"answered", "stale", "deadlock", "ambiguous", "error", "outage", "refused", "none"}
  /\ req[r].got => how \in {"answered", "stale", "deadlock", "ambiguous"}
  /\ how = "stale" => \E s \in 1..created : s \notin DOMAIN providers
  /\ how = "deadlock" => req[r].counted > 1

LEMMA EndedAnswers ==
  ASSUME ReqsOK, NEW r \in Requests, NEW how, Ended(r, how), EndsWell(r, how),
         UNCHANGED created, DOMAIN providers' = DOMAIN providers
  PROVE  AnswerOK(r)'
<1>1. /\ req'[r].pc = "done" /\ req'[r].outcome = how
      /\ req'[r].got = req[r].got /\ req'[r].counted = req[r].counted
      /\ req'[r].due = NoRow /\ req'[r].written = Nothing
  BY ShapeOf, EndedMoves
<1>2. Locks(r)' = {}
  BY <1>1, FreedLocks
<1>3. Progress(r)'
  BY <1>1, <1>2 DEF Progress
<1>4. Lost(r)'
  BY <1>1 DEF Lost, EndsWell
<1>5. QED
  BY <1>1, <1>3, <1>4 DEF AnswerOK, EndsWell

LEMMA RequestAnswers ==
  ASSUME TableOK, ReqsOK, BeatOK, LocksHeld, NEW r \in Requests, AnswerOK(r), RequestStep(r),
         UNCHANGED created, DOMAIN providers' = DOMAIN providers
  PROVE  AnswerOK(r)'
<1>1. Shape /\ ReqOK(r) /\ req[r].counted \in Nat
  BY ShapeOf DEF ReqsOK, ReqOK
<1>2. Progress(r) /\ Lost(r)
  BY DEF AnswerOK
<1>3. ASSUME req'[r].pc \in {"resolve", "call", "count"}, req[r].pc # "done", ~req'[r].got,
             Counted(r), req'[r].outcome = req[r].outcome
      PROVE  AnswerOK(r)'
  <2>1. Locks(r)' = Locks(r)
    BY <1>3, KeptLocks DEF Counted
  <2>2. Progress(r)'
    BY <1>2, <1>3, <2>1 DEF Progress, Counted
  <2>3. req'[r].outcome \notin {"stale", "deadlock"} /\ req'[r].pc # "done"
    BY <1>2, <1>3 DEF Progress
  <2>4. QED
    BY <2>2, <2>3 DEF AnswerOK, Lost
<1>4. ASSUME NEW ask, NEW key, Route(r, ask, key) PROVE AnswerOK(r)'
  <2>1. /\ req[r].pc = "idle" /\ Counted(r) /\ req'[r].pc = "resolve"
        /\ req'[r].got = req[r].got /\ req'[r].outcome = req[r].outcome
    BY <1>1, <1>4, RouteMoves
  <2>2. ~req[r].got
    BY <1>2, <2>1 DEF Progress
  <2>3. QED
    BY <1>3, <2>1, <2>2
<1>5. CASE Resolve(r)
  <2>1. req[r].pc = "resolve" /\ ~req[r].got
    BY <1>1, <1>2, <1>5, ResolveMoves DEF Progress
  <2>2. CASE Ended(r, "ambiguous")
    BY <2>1, <2>2, EndedAnswers DEF EndsWell
  <2>3. CASE ~Ended(r, "ambiguous")
    BY <1>1, <1>3, <1>5, <2>1, <2>3, ResolveMoves
  <2>4. QED
    BY <2>2, <2>3
<1>6. CASE Call(r)
  <2>1. req[r].pc = "call" /\ ~req[r].got /\ req[r].outcome \notin {"stale", "deadlock"}
    BY <1>1, <1>2, <1>6, CallMoves DEF Progress
  <2>2. CASE Ended(r, "error")
    BY <2>1, <2>2, EndedAnswers DEF EndsWell
  <2>3. CASE ~Ended(r, "error")
    <3>1. /\ Counted(r) /\ req'[r].pc \in {"count", "finish"}
          /\ req'[r].pc = "count" => req'[r].outcome = req[r].outcome
          /\ req'[r].pc = "finish" => req'[r].outcome = "refused" /\ req'[r].got = req[r].got
      BY <1>1, <1>6, <2>3, CallMoves
    <3>2. Locks(r)' = Locks(r)
      BY <3>1, KeptLocks DEF Counted
    <3>3. Progress(r)'
      BY <1>2, <2>1, <3>1, <3>2 DEF Progress, Counted
    <3>4. QED
      BY <2>1, <3>1, <3>3 DEF AnswerOK, Lost
  <2>4. QED
    BY <2>2, <2>3
<1>7. CASE Flush(r)
  <2> DEFINE s == req[r].due.row
  <2>1. req[r].due # NoRow
    BY <1>1, <1>7, FlushMoves
  <2>2. CASE Ended(r, "stale") /\ s \notin DOMAIN providers
    <3>1. s \in 1..created
      BY <1>1, <2>1 DEF ReqOK
    <3>2. EndsWell(r, "stale")
      BY <2>2, <3>1 DEF EndsWell
    <3>3. QED
      BY <2>2, <3>2, EndedAnswers
  <2>3. CASE ~(Ended(r, "stale") /\ s \notin DOMAIN providers)
    <3>1. /\ req'[r].pc = req[r].pc /\ req'[r].got = req[r].got
          /\ req'[r].outcome = req[r].outcome /\ req'[r].counted = req[r].counted
          /\ req'[r].due = NoRow
      BY <1>1, <1>7, <2>3, FlushMoves
    <3>2. req[r].counted >= 1
      BY <1>2, <2>1 DEF Progress
    <3>3. Progress(r)'
      BY <1>2, <3>1, <3>2 DEF Progress
    <3>4. QED
      BY <3>1, <3>3 DEF AnswerOK, Lost
  <2>4. QED
    BY <2>2, <2>3
<1>8. CASE Count(r)
  <2>1. req[r].pc = "count" /\ req[r].due = NoRow /\ req[r].outcome \notin {"stale", "deadlock"}
    BY <1>1, <1>2, <1>8, CountMoves DEF Progress
  <2>2. CASE Ended(r, "ambiguous")
    BY <2>1, <2>2, EndedAnswers DEF EndsWell
  <2>3. CASE ~Ended(r, "ambiguous")
    <3> DEFINE n == Cardinality(Found(r))
    <3>1. /\ \/ req'[r].pc = "finish" /\ req'[r].outcome = (IF req[r].got THEN "answered" ELSE "outage")
             \/ req'[r].pc = "call" /\ ~req[r].got /\ req'[r].outcome = req[r].outcome
          /\ req'[r].got = req[r].got /\ req'[r].written = req[r].written
          /\ req'[r].counted = req[r].counted + n
          /\ req'[r].due = NoRow \/ Found(r) # {}
      BY <1>1, <1>8, <2>3, CountMoves
    <3>2. n \in Nat /\ (Found(r) # {} => n >= 1)
      <4>1. Found(r) \in SUBSET (DOMAIN providers)
        BY DEF Found, Active
      <4>2. IsFiniteSet(Found(r)) /\ n \in Nat
        BY <4>1, RowsFinite
      <4>3. QED
        BY <4>2, FS_EmptySet
    <3>3. Locks(r)' = Locks(r)
      BY <3>1, KeptLocks
    <3> HIDE DEF n
    <3>4. /\ Locks(r) # {} => req[r].counted >= 1
          /\ req'[r].due # NoRow => n >= 1
      BY <1>2, <3>1, <3>2 DEF Progress
    <3>5. /\ req'[r].due # NoRow \/ Locks(r)' # {} => req'[r].counted >= 1
          /\ req'[r].due # NoRow /\ Locks(r)' # {} => req'[r].counted >= 2
      BY <1>1, <3>1, <3>2, <3>3, <3>4
    <3>6. Progress(r)'
      BY <1>2, <2>1, <3>1, <3>5 DEF Progress
    <3>7. QED
      BY <2>1, <3>1, <3>6 DEF AnswerOK, Lost
  <2>4. QED
    BY <2>2, <2>3
<1>9. CASE EarlyCommit(r)
  <2>1. /\ req[r].pc = "count" /\ req'[r].pc = req[r].pc /\ req'[r].got = req[r].got
        /\ req'[r].outcome = req[r].outcome /\ req'[r].due = NoRow /\ req'[r].written = Nothing
    BY <1>1, <1>9, EarlyMoves
  <2>2. Locks(r)' = {}
    BY <2>1, FreedLocks
  <2>3. Progress(r)' /\ req[r].outcome \notin {"stale", "deadlock"}
    BY <1>2, <2>1, <2>2 DEF Progress
  <2>4. QED
    BY <2>1, <2>3 DEF AnswerOK, Lost
<1>10. CASE LastCommit(r)
  <2>1. Ended(r, req[r].outcome) /\ req[r].pc = "finish"
    BY <1>1, <1>10, LastMoves
  <2>2. EndsWell(r, req[r].outcome)
    BY <1>2, <2>1 DEF Progress, EndsWell
  <2>3. QED
    BY <2>1, <2>2, EndedAnswers
<1>11. CASE Deadlocked(r) /\ Ended(r, "deadlock")
  <2>1. req[r].counted >= 2
    BY <1>2, <1>11, VictimWaits DEF Progress
  <2>2. EndsWell(r, "deadlock")
    BY <1>1, <2>1 DEF EndsWell
  <2>3. QED
    BY <1>11, <2>2, EndedAnswers
<1>12. QED
  BY <1>4, <1>5, <1>6, <1>7, <1>8, <1>9, <1>10, <1>11 DEF RequestStep

LEMMA AnswersKept ==
  ASSUME TableOK, ReqsOK, UNCHANGED req, NEW r \in Requests, AnswerOK(r),
         created' \in {created, created + 1},
         \A s \in DOMAIN providers' : s \in DOMAIN providers \/ s = created + 1
  PROVE  AnswerOK(r)'
<1>1. created \in Nat
  BY RoutingAssumption DEF TableOK
<1>2. Locks(r)' = Locks(r)
  BY KeptLocks
<1>3. Progress(r)'
  BY <1>2 DEF AnswerOK, Progress
<1>4. Lost(r)'
  <2>1. 1..created \subseteq 1..created' /\ created + 1 \notin 1..created
    BY <1>1
  <2>2. QED
    BY <2>1 DEF AnswerOK, Lost
<1>5. QED
  BY <1>3, <1>4 DEF AnswerOK

LEMMA AnswersInit == RoutingInit => AnswersInv
<1> SUFFICES ASSUME RoutingInit PROVE AnswersInv
  OBVIOUS
<1>1. RowsTyped
  BY RowsTypedInit
<1>2. req = [r \in Requests |-> Fresh] /\ beat = Resting
  BY DEF RoutingInit
<1>3. \A v \in Writers : Locks(v) = {}
  BY <1>2 DEF Writers, Locks, Fresh, Resting, Nothing
<1>4. LocksHeld
  BY <1>3 DEF LocksHeld
<1>5. \A r \in Requests : AnswerOK(r)
  BY <1>2, <1>3 DEF AnswerOK, Progress, Lost, Fresh, NoRow, Writers
<1>6. QED
  BY <1>1, <1>4, <1>5 DEF AnswersInv

LEMMA AnswersNext == AnswersInv /\ [RoutingNext]_routingVars => AnswersInv'
<1> SUFFICES ASSUME AnswersInv, [RoutingNext]_routingVars
             PROVE  LocksHeld' /\ \A r \in Requests : AnswerOK(r)'
  BY RowsTypedNext DEF AnswersInv
<1>0. TableOK /\ ReqsOK /\ BeatOK /\ DraftsOK /\ LocksHeld /\ \A r \in Requests : AnswerOK(r)
  BY DEF AnswersInv, RowsTyped
<1>1. ASSUME NEW r \in Requests, RequestStep(r)
      PROVE  LocksHeld' /\ \A q \in Requests : AnswerOK(q)'
  <2>1. UNCHANGED <<beat, draft, created>> /\ DOMAIN providers' = DOMAIN providers
    BY <1>0, <1>1, RequestTyped
  <2>2. LocksHeld' /\ Moved(r)
    BY <1>0, <1>1, <2>1, RequestLocks
  <2>3. AnswerOK(r)'
    BY <1>0, <1>1, <2>1, RequestAnswers
  <2>4. ASSUME NEW q \in Requests \ {r} PROVE AnswerOK(q)'
    <3>1. req'[q] = req[q]
      BY <2>2 DEF Moved, Others
    <3>2. Locks(q)' = Locks(q)
      BY <3>1, KeptLocks
    <3>3. QED
      BY <1>0, <2>1, <3>1, <3>2 DEF AnswerOK, Progress, Lost
  <2>5. QED
    BY <2>2, <2>3, <2>4
<1>2. ASSUME UNCHANGED req, created' \in {created, created + 1},
             \A s \in DOMAIN providers' : s \in DOMAIN providers \/ s = created + 1
      PROVE  \A r \in Requests : AnswerOK(r)'
  BY <1>0, <1>2, AnswersKept
<1>3. UNCHANGED <<req, beat>> => LocksHeld'
  BY <1>0 DEF LocksHeld, Locks
<1>4. CASE BeatStep
  <2>1. UNCHANGED <<req, created>> /\ DOMAIN providers' = DOMAIN providers
    BY <1>0, <1>4, BeatTyped
  <2>2. LocksHeld'
    BY <1>0, <1>4, <2>1, BeatLocks
  <2>3. QED
    BY <1>2, <2>1, <2>2
<1>5. ASSUME NEW a \in Admins, AdminStep(a) PROVE LocksHeld' /\ \A r \in Requests : AnswerOK(r)'
  <2>1. /\ UNCHANGED <<req, beat>> /\ created' \in {created, created + 1}
        /\ \A s \in DOMAIN providers' : s \in DOMAIN providers \/ s = created + 1
    BY <1>0, <1>5, AdminTyped
  <2>2. QED
    BY <1>2, <1>3, <2>1
<1>6. ASSUME NEW s \in Rows, SetProvider(s) PROVE LocksHeld' /\ \A r \in Requests : AnswerOK(r)'
  <2>1. UNCHANGED <<req, beat, created>> /\ DOMAIN providers' = DOMAIN providers
    BY <1>0, <1>6, SetProviderMoves
  <2>2. QED
    BY <1>2, <1>3, <2>1
<1>7. CASE Regrouped \/ UNCHANGED routingVars
  <2>1. UNCHANGED <<req, beat, created, providers>>
    BY <1>7 DEF Regrouped, routingVars, database
  <2>2. QED
    BY <1>2, <1>3, <2>1
<1>8. QED
  BY <1>1, <1>4, <1>5, <1>6, <1>7, RoutingSteps, RegroupMoves

LEMMA AnswersInductive == RoutingSpec => []AnswersInv
BY AnswersInit, AnswersNext, PTL DEF RoutingSpec

\* The answer of a provider is returned, unless the commit of its count fails:
\* on a row deleted meanwhile, in a deadlock, or at two rows alike; a request
\* that has counted one call only is no victim (llm_router.py).
THEOREM NoAnswerLost == RoutingSpec => []AnswersReturned
<1>1. AnswersInv => AnswersReturned
  <2> SUFFICES ASSUME AnswersInv, NEW r \in Requests, req[r].pc = "done"
               PROVE  /\ req[r].got => req[r].outcome \in {"answered", "stale", "deadlock", "ambiguous"}
                      /\ req[r].outcome = "stale" => created > Cardinality(DOMAIN providers)
                      /\ req[r].outcome = "deadlock" => req[r].counted > 1
    BY DEF AnswersReturned
  <2>1. AnswerOK(r) /\ TableOK
    BY DEF AnswersInv, RowsTyped
  <2>2. ASSUME NEW s \in 1..created, s \notin DOMAIN providers
        PROVE  created > Cardinality(DOMAIN providers)
    <3> DEFINE all == 1..created
    <3>1. created \in Nat /\ DOMAIN providers \in SUBSET all
      BY <2>1, RoutingAssumption DEF TableOK
    <3>2. IsFiniteSet(all) /\ Cardinality(all) = created
      <4>1. IsFiniteSet(all) /\ Cardinality(all) = IF 1 > created THEN 0 ELSE created - 1 + 1
        BY <3>1, FS_Interval
      <4>2. QED
        BY <3>1, <4>1
    <3>3. /\ Cardinality(DOMAIN providers) <= Cardinality(all)
          /\ Cardinality(all) = Cardinality(DOMAIN providers) => all = DOMAIN providers
      <4> HIDE DEF all
      <4>1. QED
        BY <3>1, <3>2, FS_Subset
    <3>4. Cardinality(DOMAIN providers) \in Nat
      BY <2>1, RowsFinite
    <3>5. QED
      BY <2>2, <3>1, <3>2, <3>3, <3>4
  <2>3. QED
    BY <2>1, <2>2 DEF AnswerOK, Lost
<1>2. QED
  BY <1>1, AnswersInductive, PTL

----------------------------------------------------------------------------
(* The counts.                                                              *)

LEMMA TouchKept ==
  ASSUME NEW q \in Requests, req'[q] = req[q]
  PROVE  /\ Locks(q)' = Locks(q)
         /\ \A s : Touches(q, s)' <=> Touches(q, s)
         /\ \A s : CallsOn(q, s)' = CallsOn(q, s)
<1>1. Locks(q)' = Locks(q)
  BY KeptLocks
<1>2. QED
  BY <1>1 DEF Touches, CallsOn

LEMMA CountsKept ==
  ASSUME TableOK, TableOK', ReqsOK, CountsInv, UNCHANGED <<req, noted, crossed>>,
         created' \in {created, created + 1},
         \A s \in DOMAIN providers' :
           \/ s \in DOMAIN providers /\ providers'[s].total = providers[s].total
           \/ s = created + 1 /\ created' = s /\ providers'[s].total = 0
  PROVE  CountsInv'
<1>1. created \in Nat /\ created' \in Nat /\ DOMAIN providers' \subseteq Rows
  BY RoutingAssumption DEF TableOK, Rows
<1>2. ASSUME NEW s \in DOMAIN providers'
      PROVE  /\ providers'[s].total <= noted'[s]
             /\ s \notin crossed' => providers'[s].total = noted'[s]
  <2>1. CASE s \in DOMAIN providers /\ providers'[s].total = providers[s].total
    BY <2>1 DEF CountsInv, CountsRight
  <2>2. CASE s = created + 1 /\ providers'[s].total = 0
    <3>1. s \in Rows /\ s > created
      BY <1>1, <2>2
    <3>2. noted'[s] = 0
      BY <3>1 DEF CountsInv
    <3>3. QED
      BY <2>2, <3>2
  <2>3. QED
    BY <2>1, <2>2
<1>3. CountsRight'
  BY <1>2 DEF CountsRight
<1>4. ASSUME NEW q \in Requests PROVE Locks(q)' = Locks(q)
  BY <1>4, KeptLocks
<1>5. Crossed'
  <2>1. ASSUME NEW q \in Requests, NEW s PROVE Touches(q, s)' <=> Touches(q, s)
    BY <2>1, <1>4 DEF Touches
  <2>2. ASSUME NEW q \in Requests, NEW r \in Requests, NEW s \in Rows,
               q # r, Touches(q, s)', Touches(r, s)'
        PROVE  s \in crossed'
    BY <2>1, <2>2 DEF CountsInv, Crossed
  <2>3. QED
    BY <2>2 DEF Crossed
<1>6. ASSUME NEW r \in Requests PROVE CountOK(r)'
  <2>1. CountOK(r) /\ Locks(r)' = Locks(r)
    BY <1>4 DEF CountsInv
  <2>2. \A s : CallsOn(r, s)' = CallsOn(r, s)
    BY <2>1 DEF CallsOn
  <2>3. QED
    BY <2>1, <2>2 DEF CountOK
<1>7. \A s \in Rows : s > created' => noted'[s] = 0
  BY <1>1 DEF CountsInv, Rows
<1>8. QED
  BY <1>3, <1>5, <1>6, <1>7 DEF CountsInv

\* A request that touches a new row crosses those who touch it.
LEMMA CrossedKept ==
  ASSUME Crossed, NEW r \in Requests, Others(r), crossed \subseteq crossed',
         \A s \in Rows : Touches(r, s)' =>
           (Touches(r, s) \/ \A q \in Requests \ {r} : Touches(q, s) => s \in crossed')
  PROVE  Crossed'
<1>1. ASSUME NEW q \in Requests \ {r}, NEW s PROVE Touches(q, s)' <=> Touches(q, s)
  BY TouchKept DEF Others
<1>2. ASSUME NEW q \in Requests, NEW p \in Requests, NEW s \in Rows,
             q # p, Touches(q, s)', Touches(p, s)'
      PROVE  s \in crossed'
  <2>1. CASE q # r /\ p # r
    BY <1>1, <1>2, <2>1 DEF Crossed
  <2>2. CASE q = r
    <3>1. Touches(p, s)
      BY <1>1, <1>2, <2>2
    <3>2. Touches(r, s) \/ \A x \in Requests \ {r} : Touches(x, s) => s \in crossed'
      BY <1>2, <2>2
    <3>3. QED
      BY <1>2, <2>2, <3>1, <3>2 DEF Crossed
  <2>3. CASE p = r
    <3>1. Touches(q, s)
      BY <1>1, <1>2, <2>3
    <3>2. Touches(r, s) \/ \A x \in Requests \ {r} : Touches(x, s) => s \in crossed'
      BY <1>2, <2>3
    <3>3. QED
      BY <1>2, <2>3, <3>1, <3>2 DEF Crossed
  <2>4. QED
    BY <2>1, <2>2, <2>3
<1>3. QED
  BY <1>2 DEF Crossed

LEMMA OtherCounts ==
  ASSUME NEW q \in Requests, req'[q] = req[q], CountOK(q), UNCHANGED noted, crossed \subseteq crossed'
  PROVE  CountOK(q)'
<1>1. Locks(q)' = Locks(q) /\ \A s : CallsOn(q, s)' = CallsOn(q, s)
  BY TouchKept
<1>2. QED
  BY <1>1 DEF CountOK

\* A request that has nothing left.
LEMMA NothingCounted ==
  ASSUME NEW r \in Requests, req'[r].due = NoRow, req'[r].written = Nothing
  PROVE  CountOK(r)' /\ \A s \in Rows : ~Touches(r, s)'
<1>1. Locks(r)' = {}
  BY FreedLocks
<1>2. CountOK(r)'
  BY <1>1 DEF CountOK
<1>3. \A s \in Rows : ~Touches(r, s)'
  <2>1. req'[r].due.row = 0
    BY DEF NoRow
  <2>2. \A s \in Rows : s # 0
    BY RoutingAssumption DEF Rows
  <2>3. QED
    BY <1>1, <2>1, <2>2 DEF Touches
<1>4. QED
  BY <1>2, <1>3

\* What a commit stores is what was counted on the row.
LEMMA StoredCounts ==
  ASSUME TableOK, ReqsOK, CountsInv, NEW r \in Requests, Stored(r), Others(r), UNCHANGED <<created, crossed>>
  PROVE  /\ CountsRight' /\ \A s \in Rows : s > created' => noted'[s] = 0
         /\ \A q \in Requests \ {r} : CountOK(q)'
<1>1. /\ DOMAIN providers' = DOMAIN providers
      /\ \A s \in DOMAIN providers :
           providers'[s].total = IF s \in Locks(r) THEN req[r].written[s].total
                                 ELSE providers[s].total
      /\ \A s \in Rows : noted'[s] = noted[s] + CallsOn(r, s)
  BY StoredRows
<1>2. /\ created \in Nat /\ 1..created \subseteq Rows /\ DOMAIN providers \subseteq Rows
      /\ \A s \in Rows : noted[s] \in Nat
  BY RoutingAssumption DEF TableOK, Rows
<1>3. ASSUME NEW q \in Requests
      PROVE  /\ ReqOK(q) /\ Locks(q) = DOMAIN req[q].written /\ Locks(q) \subseteq 1..created
             /\ \A s : CallsOn(q, s) \in Nat
  BY LocksOf DEF ReqsOK, ReqOK, CallsOn
<1>4. ASSUME NEW s \in DOMAIN providers
      PROVE  /\ providers'[s].total <= noted'[s]
             /\ s \notin crossed => providers'[s].total = noted'[s]
  <2>1. CASE s \in Locks(r)
    <3>1. /\ req[r].written[s].total <= noted[s] + CallsOn(r, s)
          /\ s \notin crossed => req[r].written[s].total = noted[s] + CallsOn(r, s)
      BY <2>1 DEF CountsInv, CountOK, CallsOn
    <3>2. QED
      BY <1>1, <1>2, <2>1, <3>1
  <2>2. CASE s \notin Locks(r)
    <3>1. CallsOn(r, s) = 0
      BY <2>2 DEF CallsOn
    <3>2. noted'[s] = noted[s]
      BY <1>1, <1>2, <3>1
    <3>3. QED
      BY <1>1, <2>2, <3>2 DEF CountsInv, CountsRight
  <2>3. QED
    BY <2>1, <2>2
<1>5. CountsRight'
  BY <1>1, <1>4 DEF CountsRight
<1>6. ASSUME NEW s \in Rows, s > created' PROVE noted'[s] = 0
  <2>1. s \notin Locks(r)
    BY <1>2, <1>3, <1>6
  <2>2. CallsOn(r, s) = 0
    BY <2>1 DEF CallsOn
  <2>3. QED
    BY <1>1, <1>6, <2>2 DEF CountsInv
<1>7. ASSUME NEW q \in Requests \ {r} PROVE CountOK(q)'
  <2>1. /\ Locks(q)' = Locks(q) /\ (\A s : CallsOn(q, s)' = CallsOn(q, s))
        /\ req'[q] = req[q] /\ CountOK(q)
    BY TouchKept DEF Others, CountsInv
  <2>2. ASSUME NEW s \in Rows, Touches(q, s)
        PROVE  noted[s] <= noted'[s] /\ (s \notin crossed => noted'[s] = noted[s])
    <3>1. s \notin crossed => s \notin Locks(r)
      BY <2>2 DEF CountsInv, Crossed, Touches
    <3>2. s \notin Locks(r) => CallsOn(r, s) = 0
      BY DEF CallsOn
    <3>3. QED
      BY <1>1, <1>2, <1>3, <3>1, <3>2
  <2>3. ASSUME NEW s \in Locks(q)'
        PROVE  /\ req'[q].written[s].total <= noted'[s] + req'[q].written[s].calls
               /\ s \notin crossed' =>
                    req'[q].written[s].total = noted'[s] + req'[q].written[s].calls
    <3>1. s \in Locks(q) /\ s \in Rows /\ Touches(q, s)
      BY <1>2, <1>3, <2>1, <2>3 DEF Touches
    <3>2. noted[s] <= noted'[s] /\ (s \notin crossed => noted'[s] = noted[s])
      BY <2>2, <3>1
    <3>3. /\ req[q].written[s].total <= noted[s] + req[q].written[s].calls
          /\ s \notin crossed => req[q].written[s].total = noted[s] + req[q].written[s].calls
      BY <2>1, <3>1 DEF CountOK
    <3>4. /\ req[q].written[s].total \in Nat /\ req[q].written[s].calls \in Nat
          /\ noted[s] \in Nat /\ noted'[s] \in Nat
      BY <1>1, <1>2, <1>3, <3>1 DEF ReqOK
    <3>5. QED
      BY <2>1, <3>2, <3>3, <3>4
  <2>4. ASSUME req'[q].due # NoRow
        PROVE  /\ req'[q].due.total <= noted'[req'[q].due.row] + CallsOn(q, req[q].due.row)' + 1
               /\ req'[q].due.row \notin crossed' =>
                    req'[q].due.total = noted'[req'[q].due.row] + CallsOn(q, req[q].due.row)' + 1
    <3> DEFINE s == req[q].due.row
    <3>1. s \in 1..created /\ req[q].due.total \in Nat /\ req[q].due # NoRow
      BY <1>3, <2>1, <2>4 DEF ReqOK
    <3>2. s \in Rows /\ Touches(q, s)
      BY <1>2, <3>1 DEF Touches
    <3>3. noted[s] <= noted'[s] /\ (s \notin crossed => noted'[s] = noted[s])
      BY <2>2, <3>2
    <3>4. /\ req[q].due.total <= noted[s] + CallsOn(q, s) + 1
          /\ s \notin crossed => req[q].due.total = noted[s] + CallsOn(q, s) + 1
      BY <2>1, <3>1 DEF CountOK
    <3>5. noted[s] \in Nat /\ noted'[s] \in Nat /\ CallsOn(q, s) \in Nat
      BY <1>1, <1>2, <1>3, <3>2
    <3>6. /\ req'[q].due.row = s /\ req'[q].due = req[q].due
          /\ CallsOn(q, req[q].due.row)' = CallsOn(q, s)
      BY <2>1 DEF CallsOn
    <3> HIDE DEF s
    <3>7. QED
      BY <3>1, <3>3, <3>4, <3>5, <3>6
  <2>5. QED
    BY <2>3, <2>4 DEF CountOK
<1>8. QED
  BY <1>5, <1>6, <1>7

\* A step that leaves the rows and their counts.
LEMMA CountsMoved ==
  ASSUME CountsInv, NEW r \in Requests, Others(r), UNCHANGED <<providers, noted, created>>,
         crossed \subseteq crossed', CountOK(r)',
         \A s \in Rows : Touches(r, s)' =>
           (Touches(r, s) \/ \A q \in Requests \ {r} : Touches(q, s) => s \in crossed')
  PROVE  CountsInv'
<1>1. CountsRight'
  BY DEF CountsInv, CountsRight
<1>2. Crossed'
  BY CrossedKept DEF CountsInv
<1>3. \A s \in Rows : s > created' => noted'[s] = 0
  BY DEF CountsInv
<1>4. ASSUME NEW q \in Requests PROVE CountOK(q)'
  <2>1. CASE q = r
    BY <2>1
  <2>2. CASE q # r
    BY <2>2, OtherCounts DEF CountsInv, Others
  <2>3. QED
    BY <2>1, <2>2
<1>5. QED
  BY <1>1, <1>2, <1>3, <1>4 DEF CountsInv

LEMMA EndedCounts ==
  ASSUME ReqsOK, CountsInv, NEW r \in Requests, NEW how, Ended(r, how),
         UNCHANGED <<providers, noted, created, crossed>>
  PROVE  CountsInv'
<1>1. Others(r) /\ req'[r].due = NoRow /\ req'[r].written = Nothing
  BY ShapeOf, EndedMoves DEF Moved
<1>2. CountOK(r)' /\ \A s \in Rows : ~Touches(r, s)'
  BY <1>1, NothingCounted
<1>3. QED
  BY <1>1, <1>2, CountsMoved

LEMMA KeptCounts ==
  ASSUME CountsInv, NEW r \in Requests, Others(r), Counted(r),
         UNCHANGED <<providers, noted, created, crossed>>
  PROVE  CountsInv'
<1>1. Locks(r)' = Locks(r)
  BY KeptLocks DEF Counted
<1>2. CountOK(r)'
  BY <1>1 DEF CountsInv, CountOK, CallsOn, Counted
<1>3. \A s \in Rows : Touches(r, s)' => Touches(r, s)
  BY <1>1 DEF Touches, Counted
<1>4. QED
  BY <1>2, <1>3, CountsMoved

LEMMA FlushCounts ==
  ASSUME TableOK, ReqsOK, CountsInv, NEW r \in Requests, Flush(r)
  PROVE  CountsInv'
<1> DEFINE s == req[r].due.row
           n == req[r].due.total
<1>1. UNCHANGED <<providers, noted, created, crossed>> /\ req[r].due # NoRow /\ ReqOK(r) /\ CountOK(r)
  BY ShapeOf, FlushMoves DEF Elsewhere, database, witnessed, counts, ReqsOK, CountsInv
<1>2. CASE Ended(r, "stale")
  BY <1>1, <1>2, EndedCounts
<1>3. CASE ~Ended(r, "stale")
  <2>1. Moved(r) /\ req'[r].due = NoRow /\ Wrote(r, s, n)
    BY <1>3, ShapeOf, FlushMoves
  <2>2. Locks(r)' = Locks(r) \cup {s} /\ Others(r)
    BY <2>1, WroteLocks DEF Moved
  <2>3. s \in 1..created /\ 1..created \subseteq Rows /\ n \in Nat
    BY <1>1, RoutingAssumption DEF ReqOK, TableOK, Rows
  <2>4. CallsOn(r, s) \in Nat /\ noted[s] \in Nat
    BY <1>1, <2>3, LocksOf DEF ReqOK, CallsOn, TableOK
  <2>5. n <= noted[s] + CallsOn(r, s) + 1 /\ (s \notin crossed => n = noted[s] + CallsOn(r, s) + 1)
    BY <1>1 DEF CountOK
  <2>6. ASSUME NEW t \in Locks(r)'
        PROVE  /\ req'[r].written[t].total <= noted'[t] + req'[r].written[t].calls
               /\ t \notin crossed' =>
                    req'[r].written[t].total = noted'[t] + req'[r].written[t].calls
    <3>1. CASE t = s
      <4>1. req'[r].written[t].total = n /\ req'[r].written[t].calls = CallsOn(r, s) + 1
        BY <2>1, <3>1 DEF Wrote
      <4> HIDE DEF s, n
      <4>2. QED
        BY <1>1, <2>4, <2>5, <3>1, <4>1
    <3>2. CASE t # s
      <4>1. t \in Locks(r) /\ req'[r].written[t] = req[r].written[t]
        BY <2>1, <2>2, <2>6, <3>2 DEF Wrote
      <4>2. QED
        BY <1>1, <4>1 DEF CountOK
    <3>3. QED
      BY <3>1, <3>2
  <2>7. CountOK(r)'
    BY <2>1, <2>6 DEF CountOK
  <2>8. ASSUME NEW t \in Rows, Touches(r, t)' PROVE Touches(r, t)
    <3>1. t # 0
      BY RoutingAssumption DEF Rows
    <3>2. req'[r].due.row = 0
      BY <2>1 DEF NoRow
    <3>3. QED
      BY <2>2, <2>8, <3>1, <3>2 DEF Touches
  <2>9. QED
    BY <1>1, <2>2, <2>7, <2>8, CountsMoved
<1>4. QED
  BY <1>2, <1>3

LEMMA CountCounts ==
  ASSUME TableOK, ReqsOK, CountsInv, NEW r \in Requests, Count(r)
  PROVE  CountsInv'
<1>1. UNCHANGED <<providers, noted, created>> /\ req[r].due = NoRow /\ ReqOK(r) /\ CountOK(r)
  BY ShapeOf, CountMoves DEF database, ReqsOK, CountsInv
<1>2. CASE Ended(r, "ambiguous") /\ UNCHANGED crossed
  BY <1>1, <1>2, EndedCounts
<1>3. CASE ~(Ended(r, "ambiguous") /\ UNCHANGED crossed)
  <2>1. /\ Moved(r) /\ req'[r].written = req[r].written
        /\ \/ req'[r].due = NoRow
           \/ \E s \in Found(r) : req'[r].due = [row |-> s, total |-> Shown(r, s) + 1]
        /\ crossed' = crossed \cup
             {s \in Found(r) : \E q \in Requests \ {r} : req[q].due.row = s \/ s \in Locks(q)}
    BY <1>3, ShapeOf, CountMoves
  <2>2. Locks(r)' = Locks(r) /\ Others(r) /\ Locks(r) = DOMAIN req[r].written
    BY <2>1, KeptLocks, LocksOf DEF Moved
  <2>3. \A s : CallsOn(r, s)' = CallsOn(r, s)
    BY <2>1, <2>2 DEF CallsOn
  <2>4. ASSUME req'[r].due # NoRow
        PROVE  /\ req'[r].due.total <= noted'[req'[r].due.row] + CallsOn(r, req[r].due.row)' + 1
               /\ req'[r].due.row \notin crossed' =>
                    req'[r].due.total = noted'[req'[r].due.row] + CallsOn(r, req[r].due.row)' + 1
               /\ req'[r].due.row \in Found(r)
    <3>1. PICK s \in Found(r) : req'[r].due = [row |-> s, total |-> Shown(r, s) + 1]
      BY <2>1, <2>4
    <3>2. s \in DOMAIN providers /\ s \in Rows
      BY <3>1, RoutingAssumption DEF Found, Active, TableOK, Rows
    <3>3. noted[s] \in Nat /\ CallsOn(r, s) \in Nat /\ Shown(r, s) \in Nat
      BY <1>1, <2>2, <3>2, ShownTyped DEF TableOK, ReqOK, CallsOn
    <3>4. /\ Shown(r, s) <= noted[s] + CallsOn(r, s)
          /\ s \notin crossed => Shown(r, s) = noted[s] + CallsOn(r, s)
      <4>1. CASE s \in Locks(r)
        BY <1>1, <4>1 DEF CountOK, Shown, CallsOn
      <4>2. CASE s \notin Locks(r)
        <5>1. Shown(r, s) = providers[s].total /\ CallsOn(r, s) = 0
          BY <4>2 DEF Shown, CallsOn
        <5>2. QED
          BY <3>2, <3>3, <5>1 DEF CountsInv, CountsRight
      <4>3. QED
        BY <4>1, <4>2
    <3>5. CallsOn(r, req[r].due.row)' = CallsOn(r, s)
      BY <2>1, <2>2, <3>1 DEF CallsOn
    <3>6. req'[r].due.row = s /\ req'[r].due.total = Shown(r, s) + 1
      BY <3>1
    <3>7. QED
      BY <1>1, <2>1, <3>3, <3>4, <3>5, <3>6
  <2>5. ASSUME NEW s \in Locks(r)'
        PROVE  /\ req'[r].written[s].total <= noted'[s] + req'[r].written[s].calls
               /\ s \notin crossed' =>
                    req'[r].written[s].total = noted'[s] + req'[r].written[s].calls
    BY <1>1, <2>1, <2>2, <2>5 DEF CountOK
  <2>6. CountOK(r)'
    BY <2>4, <2>5 DEF CountOK
  <2>7. ASSUME NEW s \in Rows, Touches(r, s)'
        PROVE  Touches(r, s) \/ \A q \in Requests \ {r} : Touches(q, s) => s \in crossed'
    <3>1. CASE s \in Locks(r)
      BY <3>1 DEF Touches
    <3>2. CASE s \notin Locks(r)
      <4>1. req'[r].due.row = s /\ s # 0
        BY <2>2, <2>7, <3>2, RoutingAssumption DEF Touches, Rows
      <4>2. s \in Found(r)
        BY <2>4, <4>1 DEF NoRow
      <4>3. QED
        BY <2>1, <4>2 DEF Touches
    <3>3. QED
      BY <3>1, <3>2
  <2>8. QED
    BY <1>1, <2>1, <2>2, <2>6, <2>7, CountsMoved
<1>4. QED
  BY <1>2, <1>3

LEMMA StoredMoves ==
  ASSUME TableOK, ReqsOK, CountsInv, NEW r \in Requests, Stored(r), Others(r),
         UNCHANGED <<created, crossed>>, req'[r].due = NoRow, req'[r].written = Nothing
  PROVE  CountsInv'
<1>1. CountOK(r)' /\ \A s \in Rows : ~Touches(r, s)'
  BY NothingCounted
<1>2. Crossed'
  BY <1>1, CrossedKept DEF CountsInv
<1>3. QED
  BY <1>1, <1>2, StoredCounts DEF CountsInv

LEMMA RequestCounts ==
  ASSUME TableOK, ReqsOK, CountsInv, NEW r \in Requests, RequestStep(r)
  PROVE  CountsInv'
<1>1. Elsewhere => UNCHANGED <<providers, noted, created, crossed>>
  BY DEF Elsewhere, database, witnessed, counts
<1>2. Moved(r) => Others(r)
  BY DEF Moved
<1>3. ASSUME NEW ask, NEW key, Route(r, ask, key) PROVE CountsInv'
  BY <1>1, <1>2, <1>3, ShapeOf, RouteMoves, KeptCounts
<1>4. CASE Resolve(r)
  BY <1>1, <1>2, <1>4, ShapeOf, ResolveMoves, KeptCounts, EndedCounts
<1>5. CASE Call(r)
  BY <1>1, <1>2, <1>5, ShapeOf, CallMoves, KeptCounts, EndedCounts
<1>6. CASE EarlyCommit(r)
  BY <1>2, <1>6, ShapeOf, EarlyMoves, StoredMoves
<1>7. CASE LastCommit(r)
  <2>1. Stored(r) /\ Ended(r, req[r].outcome) /\ UNCHANGED <<created, crossed>>
    BY <1>7, ShapeOf, LastMoves
  <2>2. Others(r) /\ req'[r].due = NoRow /\ req'[r].written = Nothing
    BY <1>2, <2>1, ShapeOf, EndedMoves
  <2>3. QED
    BY <2>1, <2>2, StoredMoves
<1>8. CASE Ended(r, "deadlock") /\ Elsewhere
  BY <1>1, <1>8, EndedCounts
<1>9. QED
  BY <1>3, <1>4, <1>5, <1>6, <1>7, <1>8, FlushCounts, CountCounts DEF RequestStep

----------------------------------------------------------------------------
(* The shares.                                                              *)

LEMMA MakesUpSame ==
  ASSUME NEW S, NEW f, NEW g, \A s \in S : f[s] = g[s], MakesUp(f, S)
  PROVE  MakesUp(g, S)
<1>1. Sum(f, S) = Sum(g, S)
  BY SumSame
<1>2. QED
  BY <1>1 DEF MakesUp

LEMMA MadeUp ==
  SharesMakeUp <=> (settled = "yes" => MakesUp([s \in Active |-> providers[s].share], Active))
BY DEF SharesMakeUp, MakesUp

\* A step that changes no share and switches no provider.
LEMMA SharesStay ==
  ASSUME SharesInv, UNCHANGED <<beat, settled>>, Active' = Active,
         \A s \in Active : providers'[s].share = providers[s].share
  PROVE  SharesInv'
<1> DEFINE now == [s \in Active |-> providers[s].share]
           then == [s \in Active' |-> providers'[s].share]
           final == [s \in Active |-> Final(s)]
           later == [s \in Active' |-> Final(s)']
<1>1. \A s \in Active : now[s] = then[s] /\ final[s] = later[s]
  BY DEF Final
<1>2. /\ MakesUp(now, Active) => MakesUp(then, Active)
      /\ MakesUp(final, Active) => MakesUp(later, Active)
  <2> HIDE DEF now, then, final, later
  <2>1. QED
    BY <1>1, MakesUpSame
<1>3. SharesMakeUp'
  <2>1. settled' = "yes" => MakesUp(then, Active')
    BY <1>2, MadeUp DEF SharesInv
  <2>2. QED
    BY <2>1 DEF SharesMakeUp, MakesUp
<1>4. QED
  BY <1>2, <1>3 DEF SharesInv, MakesUp

LEMMA SharesUnsettled ==
  ASSUME SharesInv, UNCHANGED beat, settled' = "no"
  PROVE  SharesInv'
BY DEF SharesInv, SharesMakeUp

LEMMA BeatShares ==
  ASSUME TableOK, BeatOK, SharesInv, BeatStep
  PROVE  SharesInv'
<1>1. ASSUME BeatEnded, UNCHANGED <<providers, settled>> PROVE SharesInv'
  <2>1. beat'.pc = "done" /\ beat'.todo = Nothing /\ beat'.written = Nothing
    BY <1>1 DEF BeatEnded, Resting
  <2>2. SharesMakeUp'
    BY <1>1 DEF SharesInv, SharesMakeUp, Active
  <2>3. QED
    BY <2>1, <2>2 DEF SharesInv, Nothing
<1>2. CASE BeatRead
  <2>1. UNCHANGED providers /\ beat.pc = "idle"
    BY <1>2, BeatReadMoves DEF database
  <2>2. ASSUME beat' = [beat EXCEPT !.pc = "done"], UNCHANGED settled PROVE SharesInv'
    <3>1. beat'.pc = "done" /\ beat'.todo = beat.todo /\ beat'.written = beat.written
      BY <2>2 DEF BeatOK
    <3>2. SharesMakeUp'
      BY <2>1, <2>2 DEF SharesInv, SharesMakeUp, Active
    <3>3. QED
      BY <3>1, <3>2 DEF SharesInv
  <2>3. ASSUME settled' = "run", NEW shares \in [Active -> 0..Full], MakesUp(shares, Active),
               beat' = [beat EXCEPT !.pc = "write",
                          !.todo = [s \in {t \in Active : shares[t] # providers[t].share}
                                    |-> shares[s]]]
        PROVE  SharesInv'
    <3> DEFINE changed == {t \in Active : shares[t] # providers[t].share}
               todo == [s \in changed |-> shares[s]]
               later == [s \in Active' |-> Final(s)']
    <3>1. beat'.pc = "write" /\ beat'.todo = todo /\ beat'.written = beat.written
      BY <2>3 DEF BeatOK
    <3>2. DOMAIN beat.written = {} /\ Active' = Active
      BY <2>1 DEF SharesInv, Active
    <3>3. \A s \in Active : later[s] = shares[s]
      BY <2>1, <3>1, <3>2 DEF Final
    <3>4. MakesUp(later, Active')
      <4> HIDE DEF later
      <4>1. MakesUp(later, Active)
        BY <2>3, <3>3, MakesUpSame
      <4>2. QED
        BY <3>2, <4>1
    <3>5. QED
      <4>1. DOMAIN beat'.todo \cap DOMAIN beat'.written = {}
        BY <3>1, <3>2
      <4>2. MakesUp([s \in Active |-> Final(s)], Active)'
        BY <3>4 DEF MakesUp
      <4>3. SharesMakeUp'
        BY <2>3 DEF SharesMakeUp
      <4>4. QED
        BY <2>3, <3>1, <4>1, <4>2, <4>3 DEF SharesInv
  <2>4. QED
    BY <1>2, <2>2, <2>3, BeatReadMoves
<1>3. CASE BeatFlush
  <2>1. UNCHANGED <<providers, settled>> /\ beat.pc = "write"
    BY <1>3, BeatFlushMoves DEF database, witnessed
  <2>2. ASSUME NEW s \in DOMAIN beat.todo, beat'.pc = "write",
               beat'.written = Put(beat.written, s, beat.todo[s]),
               beat'.todo = [t \in DOMAIN beat.todo \ {s} |-> beat.todo[t]]
        PROVE  SharesInv'
    <3> DEFINE final == [t \in Active |-> Final(t)]
               later == [t \in Active' |-> Final(t)']
    <3>1. s \notin DOMAIN beat.written
      BY DEF SharesInv
    <3>2. /\ DOMAIN beat'.written = DOMAIN beat.written \cup {s} /\ beat'.written[s] = beat.todo[s]
          /\ \A t \in DOMAIN beat.written : beat'.written[t] = beat.written[t]
          /\ DOMAIN beat'.todo = DOMAIN beat.todo \ {s}
          /\ \A t \in DOMAIN beat.todo \ {s} : beat'.todo[t] = beat.todo[t]
      BY <2>2, <3>1 DEF Put
    <3>3. Active' = Active
      BY <2>1 DEF Active
    <3>4. ASSUME NEW t PROVE Final(t)' = Final(t)
      BY <2>1, <3>1, <3>2 DEF Final
    <3>5. \A t \in Active : final[t] = later[t]
      BY <3>3, <3>4
    <3>6. MakesUp(final, Active) => MakesUp(later, Active')
      <4> HIDE DEF final, later
      <4>1. MakesUp(final, Active) => MakesUp(later, Active)
        BY <3>5, MakesUpSame
      <4>2. QED
        BY <3>3, <4>1
    <3>7. SharesMakeUp'
      BY <2>1 DEF SharesInv, SharesMakeUp
    <3>8. DOMAIN beat'.todo \cap DOMAIN beat'.written = {}
      BY <3>2 DEF SharesInv
    <3>9. settled = "run" => MakesUp([t \in Active |-> Final(t)], Active)'
      BY <2>1, <3>6 DEF SharesInv, MakesUp
    <3>10. QED
      BY <2>1, <2>2, <3>7, <3>8, <3>9 DEF SharesInv
  <2>3. QED
    BY <1>1, <1>3, <2>1, <2>2, BeatFlushMoves
<1>4. CASE BeatCommit
  <2>1. /\ BeatEnded /\ beat.pc = "write" /\ settled' = (IF settled = "run" THEN "yes" ELSE settled)
        /\ DOMAIN providers' = DOMAIN providers
        /\ \A s \in DOMAIN providers :
             providers'[s].active = providers[s].active /\ providers'[s].share = Final(s)
    BY <1>4, BeatCommitMoves
  <2>2. beat'.pc = "done" /\ beat'.todo = Nothing /\ beat'.written = Nothing
    BY <2>1 DEF BeatEnded, Resting
  <2>3. Active' = Active
    BY <2>1 DEF Active
  <2>4. ASSUME settled' = "yes" PROVE MakesUp([s \in Active |-> providers[s].share], Active)'
    <3> DEFINE final == [t \in Active |-> Final(t)]
               then == [t \in Active' |-> providers'[t].share]
    <3>1. MakesUp(final, Active)
      BY <2>1, <2>4 DEF SharesInv
    <3>2. \A t \in Active : final[t] = then[t]
      BY <2>1, <2>3 DEF Active
    <3>3. MakesUp(then, Active)
      <4> HIDE DEF final, then
      <4>1. QED
        BY <3>1, <3>2, MakesUpSame
    <3>4. QED
      BY <2>3, <3>3 DEF MakesUp
  <2>5. SharesMakeUp'
    BY <2>4 DEF SharesMakeUp, MakesUp
  <2>6. QED
    BY <2>2, <2>5 DEF SharesInv, Nothing
<1>5. CASE BeatEnded /\ UNCHANGED <<database, req, draft, created, edits, witnessed>>
  BY <1>1, <1>5 DEF database, witnessed
<1>6. QED
  BY <1>2, <1>3, <1>4, <1>5 DEF BeatStep

LEMMA RequestShares ==
  ASSUME TableOK, ReqsOK, SharesInv, NEW r \in Requests, RequestStep(r)
  PROVE  SharesInv'
<1>1. UNCHANGED <<beat, settled>>
  <2>1. \A ask, key : Route(r, ask, key) => UNCHANGED <<beat, settled>>
    BY DEF Route, witnessed
  <2>2. QED
    BY <2>1 DEF RequestStep, Resolve, Call, Flush, Count, EarlyCommit, LastCommit, Elsewhere, witnessed
<1>2. DOMAIN providers' = DOMAIN providers /\ UNCHANGED created
  BY RequestTyped
<1>3. \A s \in DOMAIN providers :
        providers'[s].active = providers[s].active /\ providers'[s].share = providers[s].share
  <2>1. Stored(r) => \A s \in DOMAIN providers :
          providers'[s].active = providers[s].active /\ providers'[s].share = providers[s].share
    BY <1>2, StoredRows
  <2>2. \A ask, key : Route(r, ask, key) => UNCHANGED providers
    BY DEF Route, database
  <2>3. Stored(r) \/ UNCHANGED providers
    BY <2>2 DEF RequestStep, Resolve, Call, Flush, Count, EarlyCommit, LastCommit, Elsewhere, database
  <2>4. QED
    BY <2>1, <2>3
<1>4. Active' = Active
  BY <1>2, <1>3 DEF Active
<1>5. \A s \in Active : providers'[s].share = providers[s].share
  BY <1>3 DEF Active
<1>6. QED
  BY <1>1, <1>4, <1>5, SharesStay

LEMMA AdminShares ==
  ASSUME TableOK, DraftsOK, SharesInv, NEW a \in Admins, AdminStep(a)
  PROVE  SharesInv'
<1>0. ASSUME UNCHANGED <<providers, beat, settled>> PROVE SharesInv'
  BY <1>0, SharesStay DEF Active
<1>1. ASSUME NEW op \in Named, NEW n \in Names, NEW s, op = "create" => s = 0, CheckName(a, op, s, n) PROVE SharesInv'
  BY <1>0, <1>1, CheckMoves DEF database
<1>2. ASSUME NEW s, Delete(a, s) PROVE SharesInv'
  BY <1>0, <1>2, DeleteMoves DEF database
<1>3. CASE CommitName(a)
  <2>1. UNCHANGED beat
    BY <1>3, CommitNameMoves
  <2>2. CASE settled' = "no"
    BY <2>1, <2>2, SharesUnsettled
  <2>3. CASE settled' # "no"
    <3>1. /\ UNCHANGED settled /\ DOMAIN providers' = DOMAIN providers
          /\ \A s \in DOMAIN providers :
               providers'[s].active = providers[s].active /\ providers'[s].share = providers[s].share
      BY <1>3, <2>3, CommitNameMoves
    <3>2. Active' = Active /\ \A s \in Active : providers'[s].share = providers[s].share
      BY <3>1 DEF Active
    <3>3. QED
      BY <2>1, <3>1, <3>2, SharesStay
  <2>4. QED
    BY <2>2, <2>3
<1>4. CASE CommitDelete(a)
  BY <1>0, <1>4, CommitDeleteMoves, SharesUnsettled
<1>5. QED
  BY <1>1, <1>2, <1>3, <1>4 DEF AdminStep

GroupsTyped == DOMAIN groups \subseteq 1..MaxGroups
MetricsIInv == RowsTyped /\ CountsInv /\ SharesInv /\ GroupsTyped

LEMMA GroupsAlone ==
  /\ \A r : RequestStep(r) => UNCHANGED <<groups, assigned, draft, created, names>>
  /\ BeatStep => UNCHANGED <<groups, assigned, req, draft, created, names>>
<1>1. \A r, ask, key : Route(r, ask, key) => UNCHANGED <<groups, assigned, draft, created, names>>
  BY DEF Route, database, witnessed
<1>2. \A r : RequestStep(r) => UNCHANGED <<groups, assigned, draft, created, names>>
  BY <1>1 DEF RequestStep, Resolve, Call, Flush, Count, EarlyCommit, LastCommit, Elsewhere,
              database, witnessed
<1>3. BeatStep => UNCHANGED <<groups, assigned, req, draft, created, names>>
  BY DEF BeatStep, BeatRead, BeatFlush, BeatCommit, database, witnessed
<1>4. QED
  BY <1>2, <1>3

LEMMA MetricsInit == RoutingInit => MetricsIInv
<1> SUFFICES ASSUME RoutingInit PROVE MetricsIInv
  OBVIOUS
<1>1. RowsTyped /\ TableOK
  BY RowsTypedInit DEF RowsTyped
<1>2. PICK n \in 0..MaxRows :
        FirstRows \in [1..n -> [name : Names, active : BOOLEAN, total : Nat, share : 0..Full]]
  BY FirstAssumption
<1>3. DOMAIN providers = 1..n /\ n \in Nat /\ 1..n \subseteq Rows /\ created = n
  <2>1. DOMAIN providers = 1..n /\ n \in Nat /\ created = Cardinality(1..n)
    BY <1>2, RoutingAssumption DEF RoutingInit
  <2>2. Cardinality(1..n) = n
    BY <2>1, FS_Interval
  <2>3. QED
    BY <1>2, <2>1, <2>2, RoutingAssumption DEF Rows
<1>4. CountsInv
  <2>1. \A s \in Rows : noted[s] = IF s \in DOMAIN providers THEN providers[s].total ELSE 0
    BY DEF RoutingInit
  <2>2. ASSUME NEW s \in DOMAIN providers PROVE providers[s].total <= noted[s] /\ providers[s].total = noted[s]
    <3>1. noted[s] = providers[s].total /\ noted[s] \in Nat
      BY <1>1, <1>3, <2>1 DEF TableOK
    <3>2. QED
      BY <3>1
  <2>3. CountsRight
    BY <2>2 DEF CountsRight
  <2>4. \A s \in Rows : s > created => noted[s] = 0
    BY <1>3, <2>1
  <2>5. \A r \in Requests : req[r].due = NoRow /\ Locks(r) = {}
    BY LocksOf DEF RoutingInit, Fresh, Nothing
  <2>6. \A r \in Requests : CountOK(r)
    BY <2>5 DEF CountOK
  <2>7. Crossed
    <3>1. \A s \in Rows : s # 0
      BY RoutingAssumption DEF Rows
    <3>2. \A r \in Requests, s \in Rows : ~Touches(r, s)
      BY <2>5, <3>1 DEF Touches, NoRow
    <3>3. QED
      BY <3>2 DEF Crossed
  <2>8. QED
    BY <2>3, <2>4, <2>6, <2>7 DEF CountsInv
<1>5. SharesInv
  <2>1. settled = "no" /\ beat.pc = "idle" /\ beat.written = Nothing /\ beat.todo = Nothing
    BY DEF RoutingInit, Resting
  <2>2. QED
    BY <2>1 DEF SharesInv, SharesMakeUp, Nothing
<1>6. GroupsTyped
  BY RoutingAssumption DEF RoutingInit, GroupsTyped
<1>7. QED
  BY <1>1, <1>4, <1>5, <1>6 DEF MetricsIInv

LEMMA MetricsNext == MetricsIInv /\ [RoutingNext]_routingVars => MetricsIInv'
<1> SUFFICES ASSUME MetricsIInv, [RoutingNext]_routingVars
             PROVE  CountsInv' /\ SharesInv' /\ GroupsTyped'
  BY RowsTypedNext DEF MetricsIInv
<1>0. /\ TableOK /\ ReqsOK /\ BeatOK /\ DraftsOK /\ CountsInv /\ SharesInv /\ GroupsTyped
      /\ TableOK'
  BY RowsTypedNext DEF MetricsIInv, RowsTyped
<1>1. UNCHANGED groups => GroupsTyped'
  BY <1>0 DEF GroupsTyped
<1>2. ASSUME NEW r \in Requests, RequestStep(r) PROVE CountsInv' /\ SharesInv' /\ GroupsTyped'
  BY <1>0, <1>1, <1>2, RequestCounts, RequestShares, GroupsAlone
<1>3. CASE BeatStep
  <2>1. UNCHANGED <<req, created, noted, crossed>> /\ DOMAIN providers' = DOMAIN providers
    BY <1>0, <1>3, BeatTyped
  <2>2. \A s \in DOMAIN providers : providers'[s].total = providers[s].total
    <3>1. UNCHANGED providers \/ BeatCommit
      BY <1>3 DEF BeatStep, BeatRead, BeatFlush, database
    <3>2. QED
      BY <1>0, <3>1, BeatCommitMoves
  <2>3. CountsInv'
    BY <1>0, <2>1, <2>2, CountsKept
  <2>4. QED
    BY <1>0, <1>1, <1>3, <2>3, BeatShares, GroupsAlone
<1>4. ASSUME NEW a \in Admins, AdminStep(a) PROVE CountsInv' /\ SharesInv' /\ GroupsTyped'
  <2>1. UNCHANGED <<req, noted, crossed>> /\ created' \in {created, created + 1}
    BY <1>0, <1>4, AdminTyped
  <2>2. \A s \in DOMAIN providers' :
           \/ s \in DOMAIN providers /\ providers'[s].total = providers[s].total
           \/ s = created + 1 /\ created' = s /\ providers'[s].total = 0
    <3>1. CASE UNCHANGED providers
      BY <3>1
    <3>2. CASE CommitName(a)
      BY <1>0, <3>2, CommitNameMoves
    <3>3. CASE CommitDelete(a)
      BY <1>0, <3>3, CommitDeleteMoves
    <3>4. QED
      BY <1>4, <3>1, <3>2, <3>3 DEF AdminStep, CheckName, Delete, database
  <2>3. CountsInv'
    BY <1>0, <2>1, <2>2, CountsKept
  <2>4. GroupsTyped'
    <3>1. UNCHANGED groups \/ CommitDelete(a)
      BY <1>4 DEF AdminStep, CheckName, Delete, CommitName, database
    <3>2. QED
      BY <1>0, <1>1, <3>1, CommitDeleteMoves DEF GroupsTyped
  <2>5. QED
    BY <1>0, <1>4, <2>3, <2>4, AdminShares
<1>5. ASSUME NEW s \in Rows, SetProvider(s) PROVE CountsInv' /\ SharesInv' /\ GroupsTyped'
  <2>1. /\ UNCHANGED <<req, beat, created, noted, crossed, groups>> /\ settled' = "no"
        /\ DOMAIN providers' = DOMAIN providers
        /\ \A t \in DOMAIN providers : providers'[t].total = providers[t].total
    BY <1>0, <1>5, SetProviderMoves DEF counts
  <2>2. CountsInv'
    BY <1>0, <2>1, CountsKept
  <2>3. QED
    BY <1>0, <1>1, <2>1, <2>2, SharesUnsettled
<1>6. ASSUME Regrouped \/ UNCHANGED routingVars PROVE CountsInv' /\ SharesInv'
  <2>1. UNCHANGED <<providers, req, beat, created, noted, crossed, settled>>
    BY <1>6 DEF Regrouped, counts, routingVars, database, witnessed
  <2>2. CountsInv'
    BY <1>0, <2>1, CountsKept
  <2>3. SharesInv'
    BY <1>0, <2>1, SharesStay DEF Active
  <2>4. QED
    BY <2>2, <2>3
<1>7. ASSUME NEW g \in 1..MaxGroups, NEW members \in MemberLists, SetGroup(g, members) PROVE GroupsTyped'
  BY <1>0, <1>7 DEF SetGroup, GroupsTyped, Put
<1>8. ASSUME NEW g \in DOMAIN groups, DropGroup(g) PROVE GroupsTyped'
  BY <1>0, <1>8 DEF DropGroup, GroupsTyped
<1>9. Reassign \/ UNCHANGED routingVars => GroupsTyped'
  <2>1. \A keys : Assign(keys) => UNCHANGED groups
    BY DEF Assign
  <2>2. Reassign => UNCHANGED groups
    BY <2>1, Zenon DEF Reassign
  <2>3. QED
    BY <1>1, <2>2 DEF routingVars, database
<1>10. QED
  BY <1>2, <1>3, <1>4, <1>5, <1>6, <1>7, <1>8, <1>9, RoutingSteps, RegroupMoves

\* A row never shows more calls than were counted on it, and all of them but
\* for those that two requests counted at once; the shares a run computed make
\* up the pool until an administrator changes it, but for the rounding
\* (provider_metrics_service.py).
THEOREM CountsAndShares == RoutingSpec => []MetricsInv
<1>1. MetricsIInv => MetricsInv
  <2>1. MetricsIInv => RoutingTypeOK
    <3> SUFFICES ASSUME MetricsIInv PROVE RoutingTypeOK
      OBVIOUS
    <3>1. TableOK /\ ReqsOK /\ GroupsTyped
      BY DEF MetricsIInv, RowsTyped
    <3>2. \A s \in DOMAIN providers :
            s \in 1..created /\ providers[s] \in [name : Names, active : BOOLEAN, total : Nat,
                                                   share : 0..Full]
      BY <3>1 DEF TableOK, ProviderRow
    <3>3. \A r \in Requests :
            req[r].pc \in {"idle", "resolve", "call", "count", "finish", "done"}
      BY <3>1 DEF ReqsOK, ReqOK
    <3>4. QED
      BY <3>1, <3>2, <3>3 DEF RoutingTypeOK, GroupsTyped
  <2>2. QED
    BY <2>1 DEF MetricsIInv, MetricsInv, CountsInv, SharesInv
<1>2. MetricsIInv /\ [RoutingNext]_routingVars => MetricsIInv'
  BY MetricsNext
<1>3. QED
  BY <1>1, <1>2, MetricsInit, PTL DEF RoutingSpec

----------------------------------------------------------------------------
(* The registry: names, groups and rules.                                   *)

LEMMA NamesKept ==
  ASSUME NamesInv, UNCHANGED <<raced, draft>>, DOMAIN providers' \subseteq DOMAIN providers,
         \A s \in DOMAIN providers' : providers'[s].name = providers[s].name
  PROVE  NamesInv'
BY DEF NamesInv

LEMMA AdminNames ==
  ASSUME TableOK, DraftsOK, NamesInv, NEW a \in Admins, AdminStep(a)
  PROVE  NamesInv'
<1>1. ASSUME NEW op \in Named, NEW n \in Names, NEW s, op = "create" => s = 0,
             CheckName(a, op, s, n)
      PROVE  NamesInv'
  <2>1. /\ UNCHANGED providers /\ Called(n) \ {s} = {} /\ Drafts(a)
        /\ draft'[a].op = op /\ draft'[a].row = s /\ draft'[a].name = n
        /\ raced' = (IF Naming(n) THEN raced \cup {n} ELSE raced) /\ draft[a].op = "none"
    BY <1>1, CheckMoves DEF database
  <2>2. raced \subseteq raced'
    BY <2>1
  <2>3. \A t \in DOMAIN providers \ {s} : providers[t].name # n
    BY <2>1, RoutingAssumption DEF Called
  <2>4. \A b \in Admins \ {a} : draft[b].op \in Named /\ draft[b].name = n => n \in raced'
    BY <2>1 DEF Naming, Named
  <2>5. ASSUME NEW b \in Admins, draft'[b].op \in Named
        PROVE  /\ \A t \in DOMAIN providers' \ {draft'[b].row} :
                    providers'[t].name = draft'[b].name => draft'[b].name \in raced'
               /\ \A c \in Admins \ {b} :
                    draft'[c].op \in Named /\ draft'[c].name = draft'[b].name =>
                      draft'[b].name \in raced'
    <3>1. CASE b = a
      BY <2>1, <2>3, <2>4, <3>1 DEF Drafts
    <3>2. CASE b # a
      <4>1. draft'[b] = draft[b]
        BY <2>1, <3>2 DEF Drafts
      <4>2. \A t \in DOMAIN providers \ {draft[b].row} :
              providers[t].name = draft[b].name => draft[b].name \in raced'
        BY <2>2, <2>5, <4>1 DEF NamesInv
      <4>3. ASSUME NEW c \in Admins \ {b}, draft'[c].op \in Named, draft'[c].name = draft[b].name
            PROVE  draft[b].name \in raced'
        <5>1. CASE c = a
          BY <2>1, <2>4, <2>5, <3>2, <4>1, <4>3, <5>1
        <5>2. CASE c # a
          BY <2>1, <2>2, <2>5, <4>1, <4>3, <5>2 DEF NamesInv, Drafts
        <5>3. QED
          BY <5>1, <5>2
      <4>4. QED
        BY <2>1, <4>1, <4>2, <4>3
    <3>3. QED
      BY <3>1, <3>2
  <2>6. \A t, u \in DOMAIN providers' :
          t # u /\ providers'[t].name = providers'[u].name => providers'[t].name \in raced'
    BY <2>1, <2>2 DEF NamesInv
  <2>7. QED
    BY <2>5, <2>6 DEF NamesInv
<1>2. ASSUME UNCHANGED raced, Drafts(a), draft'[a].op \notin Named,
             DOMAIN providers' \subseteq DOMAIN providers,
             \A s \in DOMAIN providers' : providers'[s].name = providers[s].name
      PROVE  NamesInv'
  BY <1>2 DEF NamesInv, Drafts
<1>3. ASSUME NEW s, Delete(a, s) PROVE NamesInv'
  BY <1>2, <1>3, DeleteMoves DEF database, Named
<1>4. CASE CommitDelete(a)
  BY <1>2, <1>4, CommitDeleteMoves DEF Named
<1>5. CASE CommitName(a)
  <2> DEFINE n == draft[a].name
             named == {s \in DOMAIN providers' : s \notin DOMAIN providers \/ s = draft[a].row}
  <2>1. /\ UNCHANGED raced /\ draft[a].op \in Named /\ Drafts(a) /\ draft'[a].op = "none"
        /\ \A s \in DOMAIN providers' :
             \/ s \in DOMAIN providers /\ providers'[s].name = providers[s].name
             \/ s \in named /\ providers'[s].name = n
        /\ DOMAIN providers \subseteq DOMAIN providers'
        /\ \A s, t \in named : s = t
    <3>1. UNCHANGED raced /\ draft[a].op \in Named /\ Drafts(a) /\ draft'[a].op = "none"
      BY <1>5, CommitNameMoves DEF names
    <3>2. CASE /\ created' = created + 1
               /\ DOMAIN providers' = DOMAIN providers \cup {created + 1}
               /\ providers'[created + 1].name = n
               /\ \A s \in DOMAIN providers : providers'[s] = providers[s]
      <4>1. draft[a].op = "create"
        BY <1>5, <3>2, RoutingAssumption DEF CommitName, TableOK
      <4>2. draft[a].row \notin DOMAIN providers /\ draft[a].row # created + 1
        BY <4>1, RoutingAssumption DEF DraftsOK, TableOK
      <4>3. created + 1 \notin DOMAIN providers
        BY RoutingAssumption DEF TableOK
      <4>4. named = {created + 1}
        BY <3>2, <4>2, <4>3
      <4>5. QED
        BY <3>1, <3>2, <4>4
    <3>3. CASE /\ DOMAIN providers' = DOMAIN providers
               /\ \A s \in DOMAIN providers :
                    providers'[s].name = IF s = draft[a].row THEN n ELSE providers[s].name
      BY <3>1, <3>3
    <3>4. QED
      BY <1>5, <3>2, <3>3, CommitNameMoves
  <2>2. ASSUME NEW t \in DOMAIN providers, t # draft[a].row, providers[t].name = n PROVE n \in raced
    BY <2>1, <2>2 DEF NamesInv
  <2>3. ASSUME NEW s \in DOMAIN providers', NEW t \in DOMAIN providers', s # t,
               providers'[s].name = providers'[t].name
        PROVE  providers'[s].name \in raced'
    <3>1. CASE s \in named
      <4>1. t \notin named /\ t \in DOMAIN providers /\ t # draft[a].row
        BY <2>1, <2>3, <3>1
      <4>2. providers'[s].name = n \/ s \in DOMAIN providers
        BY <2>1
      <4>3. providers'[t].name = providers[t].name
        BY <2>1, <4>1
      <4>4. CASE providers'[s].name = n
        BY <2>1, <2>2, <2>3, <4>1, <4>3, <4>4
      <4>5. CASE providers'[s].name # n
        <5>1. s \in DOMAIN providers /\ providers'[s].name = providers[s].name
          BY <2>1, <4>5
        <5>2. QED
          BY <2>1, <2>3, <4>1, <4>3, <5>1 DEF NamesInv
      <4>6. QED
        BY <4>4, <4>5
    <3>2. CASE t \in named
      <4>1. s \notin named /\ s \in DOMAIN providers /\ s # draft[a].row
        BY <2>1, <2>3, <3>2
      <4>2. providers'[s].name = providers[s].name
        BY <2>1, <4>1
      <4>3. CASE providers'[t].name = n
        BY <2>1, <2>2, <2>3, <4>1, <4>2, <4>3
      <4>4. CASE providers'[t].name # n
        <5>1. t \in DOMAIN providers /\ providers'[t].name = providers[t].name
          BY <2>1, <4>4
        <5>2. QED
          BY <2>1, <2>3, <4>1, <4>2, <5>1 DEF NamesInv
      <4>5. QED
        BY <4>3, <4>4
    <3>3. CASE s \notin named /\ t \notin named
      <4>1. /\ s \in DOMAIN providers /\ providers'[s].name = providers[s].name
            /\ t \in DOMAIN providers /\ providers'[t].name = providers[t].name
        BY <2>1, <3>3
      <4>2. QED
        BY <2>1, <2>3, <4>1 DEF NamesInv
    <3>4. QED
      BY <3>1, <3>2, <3>3
  <2>4. ASSUME NEW b \in Admins, draft'[b].op \in Named
        PROVE  /\ \A t \in DOMAIN providers' \ {draft'[b].row} :
                    providers'[t].name = draft'[b].name => draft'[b].name \in raced'
               /\ \A c \in Admins \ {b} :
                    draft'[c].op \in Named /\ draft'[c].name = draft'[b].name =>
                      draft'[b].name \in raced'
    <3>1. b # a /\ draft'[b] = draft[b]
      BY <2>1, <2>4 DEF Drafts, Named
    <3>2. n = draft[b].name => n \in raced
      BY <2>1, <2>4, <3>1 DEF NamesInv
    <3>3. ASSUME NEW t \in DOMAIN providers' \ {draft[b].row}, providers'[t].name = draft[b].name
          PROVE  draft[b].name \in raced
      <4>1. CASE t \in DOMAIN providers /\ providers'[t].name = providers[t].name
        BY <2>4, <3>1, <3>3, <4>1 DEF NamesInv
      <4>2. CASE providers'[t].name = n
        BY <3>2, <3>3, <4>2
      <4>3. QED
        BY <2>1, <4>1, <4>2
    <3>4. ASSUME NEW c \in Admins \ {b}, draft'[c].op \in Named, draft'[c].name = draft[b].name
          PROVE  draft[b].name \in raced
      <4>1. draft'[c] = draft[c]
        BY <2>1, <3>4 DEF Drafts, Named
      <4>2. QED
        BY <2>4, <3>1, <3>4, <4>1 DEF NamesInv
    <3>5. QED
      BY <2>1, <3>1, <3>3, <3>4
  <2>5. QED
    BY <2>3, <2>4 DEF NamesInv
<1>6. QED
  BY <1>1, <1>3, <1>4, <1>5 DEF AdminStep

LEMMA GroupsKept ==
  ASSUME GroupsInv, UNCHANGED <<groups, wanted, overwritten>>,
         \A a \in Admins : draft'[a].op = "delete" => draft'[a] = draft[a]
  PROVE  GroupsInv'
BY DEF GroupsInv

LEMMA AdminGroups ==
  ASSUME TableOK, DraftsOK, GroupsInv, NEW a \in Admins, AdminStep(a)
  PROVE  GroupsInv'
<1>1. ASSUME UNCHANGED <<groups, wanted, overwritten>>, Drafts(a), draft'[a].op # "delete"
      PROVE  GroupsInv'
  BY <1>1, GroupsKept DEF Drafts
<1>2. ASSUME NEW op \in Named, NEW n \in Names, NEW s, op = "create" => s = 0,
             CheckName(a, op, s, n)
      PROVE  GroupsInv'
  BY <1>1, <1>2, CheckMoves DEF database, Named
<1>3. CASE CommitName(a)
  BY <1>1, <1>3, CommitNameMoves DEF names
<1>4. ASSUME NEW s, Delete(a, s) PROVE GroupsInv'
  <2>1. /\ UNCHANGED <<groups, wanted>> /\ draft[a].op = "none" /\ Drafts(a)
        /\ draft'[a].op = "delete"
        /\ \A g \in DOMAIN groups :
             Without(groups[g], draft'[a].name) =
               IF g \in DOMAIN draft'[a].pruned THEN draft'[a].pruned[g] ELSE groups[g]
        /\ overwritten' = (IF Deleting THEN overwritten \cup DOMAIN groups ELSE overwritten)
    BY <1>4, DeleteMoves DEF database
  <2>2. ASSUME NEW b \in Admins \ {a}, draft'[b].op = "delete" PROVE DOMAIN groups \subseteq overwritten'
    <3>1. Deleting
      BY <2>1, <2>2 DEF Deleting, Drafts
    <3>2. QED
      BY <2>1, <3>1
  <2>3. ASSUME NEW b \in Admins, draft'[b].op = "delete"
        PROVE  /\ \A g \in DOMAIN groups' \ overwritten' :
                    Without(groups'[g], draft'[b].name) =
                      IF g \in DOMAIN draft'[b].pruned THEN draft'[b].pruned[g] ELSE groups'[g]
               /\ \A c \in Admins \ {b} :
                    draft'[c].op = "delete" => DOMAIN groups' \subseteq overwritten'
    <3>1. CASE b = a
      BY <2>1, <2>2, <3>1
    <3>2. CASE b # a
      BY <2>1, <2>2, <2>3, <3>2
    <3>3. QED
      BY <3>1, <3>2
  <2>4. DOMAIN groups' \subseteq DOMAIN wanted' /\ \A g \in DOMAIN groups' \ overwritten' : groups'[g] = wanted'[g]
    BY <2>1 DEF GroupsInv
  <2>5. QED
    BY <2>3, <2>4 DEF GroupsInv
<1>5. CASE CommitDelete(a)
  <2>1. /\ UNCHANGED overwritten /\ draft[a].op = "delete" /\ Drafts(a) /\ draft'[a].op = "none"
        /\ \/ /\ groups' = [g \in DOMAIN groups |->
                              IF g \in DOMAIN draft[a].pruned THEN draft[a].pruned[g]
                              ELSE groups[g]]
              /\ wanted' = [g \in DOMAIN wanted |-> Without(wanted[g], draft[a].name)]
           \/ UNCHANGED <<groups, wanted>>
    BY <1>5, CommitDeleteMoves
  <2>2. CASE UNCHANGED <<groups, wanted>>
    BY <1>1, <2>1, <2>2
  <2>3. CASE /\ groups' = [g \in DOMAIN groups |->
                             IF g \in DOMAIN draft[a].pruned THEN draft[a].pruned[g] ELSE groups[g]]
             /\ wanted' = [g \in DOMAIN wanted |-> Without(wanted[g], draft[a].name)]
    <3>1. DOMAIN groups' = DOMAIN groups /\ DOMAIN wanted' = DOMAIN wanted
      BY <2>3
    <3>2. ASSUME NEW g \in DOMAIN groups' \ overwritten' PROVE groups'[g] = wanted'[g]
      <4>1. g \in DOMAIN groups \ overwritten /\ g \in DOMAIN wanted
        BY <2>1, <3>1 DEF GroupsInv
      <4>2. groups[g] = wanted[g] /\ groups'[g] = Without(groups[g], draft[a].name)
        BY <2>1, <2>3, <4>1 DEF GroupsInv
      <4>3. wanted'[g] = Without(wanted[g], draft[a].name)
        BY <2>3, <4>1
      <4>4. QED
        BY <4>2, <4>3
    <3>3. ASSUME NEW b \in Admins, draft'[b].op = "delete" PROVE DOMAIN groups' \subseteq overwritten'
      <4>1. b # a /\ draft[b].op = "delete"
        BY <2>1, <3>3 DEF Drafts
      <4>2. QED
        BY <2>1, <3>1, <4>1 DEF GroupsInv
    <3>4. QED
      BY <3>1, <3>2, <3>3 DEF GroupsInv
  <2>4. QED
    BY <2>1, <2>2, <2>3
<1>6. QED
  BY <1>2, <1>3, <1>4, <1>5 DEF AdminStep

LEMMA SetGroups ==
  ASSUME GroupsInv, NEW g, NEW members, SetGroup(g, members)
  PROVE  GroupsInv'
<1>1. /\ groups' = Put(groups, g, members) /\ wanted' = Put(wanted, g, members) /\ UNCHANGED draft
      /\ overwritten' = (IF Deleting THEN overwritten \cup {g} ELSE overwritten \ {g})
  BY DEF SetGroup
<1>2. /\ DOMAIN groups' = DOMAIN groups \cup {g} /\ groups'[g] = members
      /\ \A h \in DOMAIN groups \ {g} : groups'[h] = groups[h]
      /\ DOMAIN wanted' = DOMAIN wanted \cup {g} /\ wanted'[g] = members
      /\ \A h \in DOMAIN wanted \ {g} : wanted'[h] = wanted[h]
  BY <1>1 DEF Put
<1>3. DOMAIN groups' \subseteq DOMAIN wanted'
  BY <1>2 DEF GroupsInv
<1>4. ASSUME NEW h \in DOMAIN groups' \ overwritten' PROVE groups'[h] = wanted'[h]
  <2>1. CASE h = g
    BY <1>2, <2>1
  <2>2. CASE h # g
    <3>1. h \in DOMAIN groups \ overwritten /\ h \in DOMAIN wanted
      BY <1>1, <1>2, <2>2 DEF GroupsInv
    <3>2. QED
      BY <1>2, <2>2, <3>1 DEF GroupsInv
  <2>3. QED
    BY <2>1, <2>2
<1>5. ASSUME NEW a \in Admins, draft'[a].op = "delete"
      PROVE  /\ \A h \in DOMAIN groups' \ overwritten' :
                  Without(groups'[h], draft'[a].name) =
                    IF h \in DOMAIN draft'[a].pruned THEN draft'[a].pruned[h] ELSE groups'[h]
             /\ \A b \in Admins \ {a} :
                  draft'[b].op = "delete" => DOMAIN groups' \subseteq overwritten'
  <2>1. overwritten' = overwritten \cup {g} /\ draft[a].op = "delete"
    BY <1>1, <1>5 DEF Deleting
  <2>2. ASSUME NEW h \in DOMAIN groups' \ overwritten'
        PROVE  Without(groups'[h], draft'[a].name) =
                 IF h \in DOMAIN draft'[a].pruned THEN draft'[a].pruned[h] ELSE groups'[h]
    <3>1. h \in DOMAIN groups \ overwritten /\ h # g /\ groups'[h] = groups[h]
      BY <1>2, <2>1
    <3>2. QED
      BY <1>1, <2>1, <3>1 DEF GroupsInv
  <2>3. ASSUME NEW b \in Admins \ {a}, draft'[b].op = "delete" PROVE DOMAIN groups' \subseteq overwritten'
    <3>1. DOMAIN groups \subseteq overwritten
      BY <1>1, <2>1, <2>3 DEF GroupsInv
    <3>2. QED
      BY <1>2, <2>1, <3>1
  <2>4. QED
    BY <2>2, <2>3
<1>6. QED
  BY <1>3, <1>4, <1>5 DEF GroupsInv

LEMMA DropGroups ==
  ASSUME GroupsInv, NEW g, DropGroup(g)
  PROVE  GroupsInv'
<1>1. groups' = [h \in DOMAIN groups \ {g} |-> groups[h]] /\ UNCHANGED <<wanted, draft, overwritten>>
  BY DEF DropGroup, witnessed, names
<1>2. QED
  BY <1>1 DEF GroupsInv

\* Who applies a rule: the routing of a request, for a key it then keeps.
LEMMA RequestRule ==
  ASSUME ReqsOK, RulesInv, NEW r \in Requests, RequestStep(r)
  PROVE  RulesInv'
<1>1. Shape
  BY ShapeOf
<1>2. UNCHANGED <<assigned, opened, granted>>
  BY GroupsAlone DEF names
<1>3. KeysInv'
  BY <1>2 DEF RulesInv, KeysInv
<1>4. ASSUME Moved(r), RuleOK(r)' PROVE RulesInv'
  <2>1. ASSUME NEW q \in Requests \ {r} PROVE RuleOK(q)'
    BY <1>2, <1>4 DEF Moved, Others, RulesInv, RuleOK
  <2>2. QED
    BY <1>3, <1>4, <2>1 DEF RulesInv
<1>5. ASSUME Moved(r), req'[r].via \in {req[r].via, "direct"}, req'[r].key = req[r].key PROVE RulesInv'
  <2>1. RuleOK(r)'
    BY <1>2, <1>5, RoutingAssumption DEF RulesInv, RuleOK
  <2>2. QED
    BY <1>4, <1>5, <2>1
<1>6. ASSUME NEW how, Ended(r, how) PROVE RulesInv'
  BY <1>1, <1>5, <1>6, EndedMoves DEF Caller
<1>7. ASSUME NEW ask, NEW key, Route(r, ask, key) PROVE RulesInv'
  <2>1. /\ Moved(r)
        /\ \/ req'[r].via \in {"direct", "group"}
           \/ /\ req'[r].via \in RuleSet /\ Applies(req'[r].via, key) /\ req'[r].key = key
    BY <1>1, <1>7, RouteMoves
  <2>2. RuleOK(r)'
    <3>1. CASE req'[r].via \in {"direct", "group"}
      BY <3>1, RoutingAssumption DEF RuleOK
    <3>2. CASE req'[r].via \in RuleSet /\ Applies(req'[r].via, key) /\ req'[r].key = key
      BY <1>2, <3>2 DEF RuleOK, Applies, RulesInv, KeysInv
    <3>3. QED
      BY <2>1, <3>1, <3>2
  <2>3. QED
    BY <1>4, <2>1, <2>2
<1>8. CASE Resolve(r)
  BY <1>1, <1>5, <1>6, <1>8, ResolveMoves
<1>9. CASE Call(r)
  BY <1>1, <1>5, <1>6, <1>9, CallMoves DEF Caller
<1>10. CASE Flush(r)
  BY <1>1, <1>5, <1>6, <1>10, FlushMoves DEF Caller
<1>11. CASE Count(r)
  BY <1>1, <1>5, <1>6, <1>11, CountMoves DEF Caller
<1>12. CASE EarlyCommit(r)
  BY <1>1, <1>5, <1>12, EarlyMoves DEF Caller
<1>13. CASE LastCommit(r)
  BY <1>1, <1>6, <1>13, LastMoves
<1>14. QED
  BY <1>6, <1>7, <1>8, <1>9, <1>10, <1>11, <1>12, <1>13 DEF RequestStep

LEMMA RulesKept ==
  ASSUME RulesInv, UNCHANGED <<req, assigned, opened, granted>>
  PROVE  RulesInv'
BY DEF RulesInv, KeysInv, RuleOK

LEMMA AssignRules ==
  ASSUME RulesInv, NEW keys \in [RuleSet -> SUBSET Keys], Assign(keys)
  PROVE  RulesInv'
<1>1. /\ assigned' = keys /\ opened' = opened \cup {x \in RuleSet : keys[x] = {}}
      /\ granted' = [x \in RuleSet |-> granted[x] \cup keys[x]] /\ UNCHANGED req
  BY DEF Assign
<1>2. KeysInv'
  <2>1. granted' \in [RuleSet -> SUBSET Keys]
    BY <1>1 DEF RulesInv, KeysInv
  <2>2. \A x \in RuleSet : assigned'[x] \subseteq granted'[x] /\ (x \notin opened' => assigned'[x] # {})
    BY <1>1
  <2>3. QED
    BY <1>1, <2>1, <2>2 DEF KeysInv
<1>3. ASSUME NEW r \in Requests PROVE RuleOK(r)'
  <2>1. opened \subseteq opened' /\ \A x \in RuleSet : granted[x] \subseteq granted'[x]
    BY <1>1
  <2>2. QED
    BY <1>1, <2>1 DEF RulesInv, RuleOK
<1>4. QED
  BY <1>2, <1>3 DEF RulesInv

LEMMA ReassignRules ==
  ASSUME RulesInv, Reassign
  PROVE  RulesInv'
<1>1. assigned \in [RuleSet -> SUBSET Keys]
  BY DEF RulesInv, KeysInv
<1>2. ASSUME NEW x \in RuleSet, NEW k \in Keys
      PROVE  /\ [assigned EXCEPT ![x] = @ \cup {k}] \in [RuleSet -> SUBSET Keys]
             /\ [assigned EXCEPT ![x] = @ \ {k}] \in [RuleSet -> SUBSET Keys]
             /\ [y \in RuleSet |-> assigned[y] \ {k}] \in [RuleSet -> SUBSET Keys]
  BY <1>1
<1>3. \A k \in Keys : [y \in RuleSet |-> assigned[y] \ {k}] \in [RuleSet -> SUBSET Keys]
  BY <1>1
<1>4. \E keys \in [RuleSet -> SUBSET Keys] : Assign(keys)
  BY <1>2, <1>3, Zenon DEF Reassign
<1>5. QED
  BY <1>4, AssignRules

LEMMA EditsInit == RoutingInit => EditsInv
<1> SUFFICES ASSUME RoutingInit PROVE EditsInv
  OBVIOUS
<1>1. RowsTyped
  BY RowsTypedInit
<1>2. /\ providers = FirstRows /\ draft = [a \in Admins |-> NoDraft] /\ wanted = groups
      /\ assigned = FirstKeys /\ granted = FirstKeys
      /\ opened = {x \in RuleSet : FirstKeys[x] = {}} /\ req = [r \in Requests |-> Fresh]
  BY DEF RoutingInit
<1>3. \A a \in Admins : draft[a].op = "none"
  BY <1>2 DEF NoDraft
<1>4. NamesInv
  BY <1>2, <1>3, FirstAssumption DEF NamesInv, Named
<1>5. GroupsInv
  BY <1>2, <1>3 DEF GroupsInv
<1>6. RulesInv
  <2>1. KeysInv
    BY <1>2, FirstAssumption DEF KeysInv
  <2>2. \A r \in Requests : RuleOK(r)
    BY <1>2, RoutingAssumption DEF RuleOK, Fresh
  <2>3. QED
    BY <2>1, <2>2 DEF RulesInv
<1>7. QED
  BY <1>1, <1>4, <1>5, <1>6 DEF EditsInv

LEMMA EditsNext == EditsInv /\ [RoutingNext]_routingVars => EditsInv'
<1> SUFFICES ASSUME EditsInv, [RoutingNext]_routingVars
             PROVE  NamesInv' /\ GroupsInv' /\ RulesInv'
  BY RowsTypedNext DEF EditsInv
<1>0. TableOK /\ ReqsOK /\ BeatOK /\ DraftsOK /\ NamesInv /\ GroupsInv /\ RulesInv
  BY DEF EditsInv, RowsTyped
<1>1. UNCHANGED <<providers, raced, draft>> => NamesInv'
  BY <1>0 DEF NamesInv
<1>2. UNCHANGED <<groups, wanted, overwritten, draft>> => GroupsInv'
  BY <1>0, GroupsKept
<1>3. UNCHANGED <<req, assigned, opened, granted>> => RulesInv'
  BY <1>0, RulesKept
<1>4. ASSUME NEW r \in Requests, RequestStep(r) PROVE NamesInv' /\ GroupsInv' /\ RulesInv'
  <2>1. UNCHANGED <<groups, assigned, draft, created, names>>
    BY <1>4, GroupsAlone
  <2>2. Stored(r) \/ UNCHANGED providers
    <3>1. \A ask, key : Route(r, ask, key) => UNCHANGED providers
      BY DEF Route, database
    <3>2. QED
      BY <1>4, <3>1 DEF RequestStep, Resolve, Call, Flush, Count, EarlyCommit, LastCommit, Elsewhere, database
  <2>3. Stored(r) => NamesInv'
    BY <1>0, <2>1, StoredRows, NamesKept DEF names
  <2>4. QED
    BY <1>0, <1>1, <1>2, <1>4, <2>1, <2>2, <2>3, RequestRule DEF names
<1>5. CASE BeatStep
  <2>1. UNCHANGED <<groups, assigned, req, draft, created, names>>
    BY <1>5, GroupsAlone
  <2>2. UNCHANGED providers \/ BeatCommit
    BY <1>5 DEF BeatStep, BeatRead, BeatFlush, database
  <2>3. BeatCommit => NamesInv'
    BY <1>0, <2>1, BeatCommitMoves, NamesKept DEF names
  <2>4. QED
    BY <1>1, <1>2, <1>3, <2>1, <2>2, <2>3 DEF names
<1>6. ASSUME NEW a \in Admins, AdminStep(a) PROVE NamesInv' /\ GroupsInv' /\ RulesInv'
  <2>1. UNCHANGED <<req, assigned, opened, granted>>
    BY <1>6 DEF AdminStep, CheckName, Delete, CommitName, CommitDelete, database, names
  <2>2. QED
    BY <1>0, <1>3, <1>6, <2>1, AdminNames, AdminGroups
<1>7. ASSUME NEW s \in Rows, SetProvider(s) PROVE NamesInv' /\ GroupsInv' /\ RulesInv'
  <2>1. /\ UNCHANGED <<groups, assigned, req, draft, names>> /\ DOMAIN providers' = DOMAIN providers
        /\ \A t \in DOMAIN providers : providers'[t].name = providers[t].name
    BY <1>0, <1>7, SetProviderMoves
  <2>2. NamesInv'
    BY <1>0, <2>1, NamesKept DEF names
  <2>3. QED
    BY <1>2, <1>3, <2>1, <2>2 DEF names
<1>8. ASSUME Regrouped PROVE NamesInv'
  BY <1>1, <1>8 DEF Regrouped
<1>9. ASSUME NEW g, NEW members, SetGroup(g, members) PROVE GroupsInv' /\ RulesInv'
  BY <1>0, <1>3, <1>9, SetGroups DEF SetGroup
<1>10. ASSUME NEW g, DropGroup(g) PROVE GroupsInv' /\ RulesInv'
  BY <1>0, <1>3, <1>10, DropGroups DEF DropGroup, witnessed, names
<1>11. CASE Reassign
  <2>1. UNCHANGED <<groups, wanted, overwritten, draft>>
    <3>1. \A keys : Assign(keys) => UNCHANGED <<groups, wanted, overwritten, draft>>
      BY DEF Assign
    <3>2. QED
      BY <1>11, <3>1, Zenon DEF Reassign
  <2>2. QED
    BY <1>0, <1>2, <1>8, <1>11, <2>1, ReassignRules, RegroupMoves
<1>12. CASE UNCHANGED routingVars
  BY <1>1, <1>2, <1>3, <1>12 DEF routingVars, database, witnessed, names
<1>13. QED
  BY <1>4, <1>5, <1>6, <1>7, <1>8, <1>9, <1>10, <1>11, <1>12, RoutingSteps, RegroupMoves

\* Two providers have one name only if administrators gave it at once, a group
\* has the members its last edit gave it less the providers deleted since, and
\* a rule that was never without a key is applied to its keys' requests only
\* (api/v1/governance.py:2061, 2128).
THEOREM RegistryKept == RoutingSpec => []RegistryInv
<1>1. EditsInv => RegistryInv
  BY DEF EditsInv, NamesInv, GroupsInv, RulesInv, RuleOK, RegistryInv
<1>2. QED
  BY <1>1, EditsInit, EditsNext, PTL DEF RoutingSpec

-----------------------------------------------------------------------------
(* GatewayChat                                                             *)

-----------------------------------------------------------------------------
(* Types                                                                   *)

\* A tool round has a call to handle, and only what was decided is ended.
Ready ==
    /\ pc = "tools" => calls # <<>>
    /\ pc = "end" => outcome \in Outcomes

TypeInv == TypeOK /\ Ready

USE DEF PCs, Statements, Answers, text, rows, loop, ghosts

RowTypes == Seq(Outcomes \union {"scan"})

LEMMA PlanType == ASSUME NEW o \in Outcomes PROVE Plan(o) \in Seq(Statements)
<1>1. /\ <<"audit", "commit", "alert">> \in Seq(Statements)
      /\ <<"audit", "commit">> \in Seq(Statements)
      /\ <<"audit", "alert", "commit">> \in Seq(Statements)
      /\ <<"charge", "audit", "commit">> \in Seq(Statements)
      /\ <<"charge", "alert", "audit", "commit">> \in Seq(Statements)
  OBVIOUS
<1>2. CASE o \in {"classifier", "policy", "abac", "egress", "outage", "broken"}
  BY <1>1, <1>2 DEF Plan
<1>3. CASE o \in {"approval", "prompt", "answered", "streamed", "streamblocked"}
  BY <1>1, <1>3, Zenon DEF Plan
<1>4. QED
  BY <1>2, <1>3 DEF Outcomes, Refusals, IngressRefusals, Streamed

LEMMA AnswerType ==
  ASSUME NEW o \in Outcomes PROVE Answer[o] \in {"content", "bad_gateway", "forbidden"}
BY DEF Answer

LEMMA FailoverType ==
  ASSUME NEW m \in Models, NEW g \in Groups, NEW cs \in Failover(m, g)
  PROVE  cs \in Seq(Models) \ {<<>>}
<1>1. Len(g) + 1 \in Nat
  BY ModelsAssumption
<1>2. PICK n \in 0..(Len(g) + 1) : cs \in [1..n -> Models]
  BY DEF Failover, SeqOf
<1>3. cs \in Seq(Models)
  BY <1>1, <1>2
<1>4. QED
  BY <1>3 DEF Failover

\* What the shared statements leave of the types.
LEMMA EndType ==
  ASSUME NEW o \in Outcomes, End(o)
  PROVE  pc' = "end" /\ outcome' \in Outcomes /\ plan' \in Seq(Statements)
BY PlanType DEF End

LEMMA CommitType ==
  ASSUME audit \in RowTypes, flushed \in RowTypes, CommitRows \/ RollBack \/ UNCHANGED rows
  PROVE  audit' \in RowTypes /\ flushed' \in RowTypes
<1>1. audit \o flushed \in RowTypes
  BY ConcatProperties DEF RowTypes
<1>2. <<>> \in RowTypes
  BY DEF RowTypes
<1>3. QED
  BY <1>1, <1>2 DEF CommitRows, RollBack

LEMMA TypeInit == Init => TypeInv
BY GatewayBounds, StreamingAssumption, SensitiveAssumption DEF Init, TypeInv, TypeOK, Ready, Roles

\* Every action but those on sequences changes its variables within finite
\* sets the provers can enumerate.
LEMMA TypeStep == TypeInv /\ [Next]_vars => TypeInv'
<1> SUFFICES ASSUME TypeInv, [Next]_vars
             PROVE  TypeInv'
  OBVIOUS
<1> USE GatewayBounds DEF TypeInv, TypeOK, Ready
<1>1. CASE Classify
  BY <1>1, PlanType DEF Classify, End, Outcomes, Refusals, IngressRefusals
<1>2. CASE Inspect
  <2>1. pc' \in PCs /\ outcome' \in Outcomes \union {"none"} /\ plan' \in Seq(Statements)
    BY <1>2, EndType DEF Inspect, Outcomes, Refusals, IngressRefusals
  <2>2. flushed' \in RowTypes
    <3>1. Append(flushed, "scan") \in RowTypes
      BY AppendProperties DEF RowTypes
    <3>2. QED
      BY <1>2, <3>1 DEF Inspect, RowTypes
  <2>3. prompt' \subseteq Roles /\ combined' \in BOOLEAN
        /\ sanitized' \subseteq {"classifier", "dlp", "rule"}
    BY <1>2 DEF Inspect, RedactUser
  <2>4. Ready'
    BY <1>2, EndType DEF Inspect, Outcomes, Refusals, IngressRefusals
  <2>5. QED
    BY <1>2, <2>1, <2>2, <2>3, <2>4 DEF Inspect, RowTypes
<1>3. CASE InjectPrompt
  BY <1>3, PlanType DEF InjectPrompt, End, Outcomes, Refusals, IngressRefusals
<1>4. CASE Abac
  <2>1. pc' \in PCs /\ outcome' \in Outcomes \union {"none"} /\ plan' \in Seq(Statements) /\ Ready'
    BY <1>4, EndType DEF Abac, Outcomes, Refusals, IngressRefusals
  <2>2. candidates' \in Seq(Models) /\ cand' \in Nat
    <3>1. CASE pc' = "end" /\ UNCHANGED loop
      BY <3>1
    <3>2. CASE cand' = 1 /\ \E m \in Models, g \in Groups :
                 candidates' \in IF stream THEN {<<m>>} ELSE Failover(m, g)
      <4>1. PICK m \in Models, g \in Groups :
                 candidates' \in IF stream THEN {<<m>>} ELSE Failover(m, g)
        BY <3>2
      <4>2. candidates' \in Seq(Models)
        <5>1. CASE stream
          <6>1. candidates' = <<m>>
            BY <4>1, <5>1
          <6>2. <<m>> \in Seq(Models)
            OBVIOUS
          <6>3. QED
            BY <6>1, <6>2
        <5>2. CASE ~stream
          BY <4>1, <5>2, FailoverType
        <5>3. QED
          BY <5>1, <5>2
      <4>3. QED
        BY <3>2, <4>2
    <3>3. QED
      BY <1>4, <3>1, <3>2 DEF Abac, End
  <2>3. QED
    BY <1>4, <2>1, <2>2 DEF Abac
<1>5. CASE Fail
  <2>1. pc' \in PCs /\ outcome' \in Outcomes \union {"none"} /\ plan' \in Seq(Statements) /\ Ready'
    BY <1>5, EndType DEF Fail, Outcomes
  <2>2. cand' \in Nat /\ iterations' \in 0..MaxToolIterations /\ history' \in Seq(Calls)
    <3>1. CASE cand' = cand + 1 /\ iterations' = 0 /\ history' = <<>>
      BY <3>1
    <3>2. CASE cand' = cand /\ iterations' = iterations /\ history' = history
      BY <3>2
    <3>3. QED
      BY <1>5, <3>1, <3>2 DEF Fail
  <2>3. QED
    BY <1>5, <2>1, <2>2 DEF Fail, Send
<1>6. ASSUME NEW u \in 0..MaxUsed, Respond(u)
      PROVE  TypeInv'
  BY <1>6, CallListsAssumption DEF Respond, Send
<1>7. CASE RunTool
  <2>1. Head(calls) \in Calls /\ Tail(calls) \in Seq(Calls)
    BY <1>7 DEF RunTool
  <2>2. executed' \in Seq([call : Calls, by : Nat])
    <3>1. [call |-> Head(calls), by |-> cand] \in [call : Calls, by : Nat]
      BY <2>1
    <3>2. Append(executed, [call |-> Head(calls), by |-> cand]) \in Seq([call : Calls, by : Nat])
      BY <3>1, AppendProperties
    <3>3. QED
      BY <1>7, <3>2 DEF RunTool
  <2>3. history' \in Seq(Calls)
    BY <1>7, <2>1 DEF RunTool
  <2>4. QED
    BY <1>7, <2>1, <2>2, <2>3 DEF RunTool
<1>8. CASE Egress
  <2>1. audit' \in RowTypes /\ flushed' \in RowTypes
    BY <1>8, CommitType DEF Egress, RowTypes
  <2>2. pc' = "end" /\ outcome' \in Outcomes /\ plan' \in Seq(Statements)
    BY <1>8, EndType DEF Egress, Outcomes, Refusals
  <2>3. QED
    BY <1>8, <2>1, <2>2 DEF Egress, RowTypes
<1>9. CASE Open
  <2>1. audit' \in RowTypes /\ flushed' \in RowTypes
    BY <1>9, CommitType DEF Open, RowTypes
  <2>2. QED
    BY <1>9, <2>1 DEF Open, Send, RowTypes
<1>10. CASE Chunk
  BY <1>10 DEF Chunk
<1>11. ASSUME NEW u \in 1..MaxUsed, EndStream(u)
       PROVE  TypeInv'
  <2>1. audit' \in RowTypes /\ flushed' \in RowTypes
    BY <1>11, CommitType DEF EndStream, RowTypes
  <2>2. pc' = "end" /\ outcome' \in Outcomes /\ plan' \in Seq(Statements)
    BY <1>11, EndType DEF EndStream, Outcomes, Streamed
  <2>3. QED
    BY <1>11, <2>1, <2>2 DEF EndStream, RowTypes
<1>12. CASE BreakStream
  BY <1>12, PlanType DEF BreakStream, End, Outcomes, Streamed
<1>13. CASE Charge
  BY <1>13 DEF Charge, At
<1>14. CASE WriteAudit
  BY <1>14 DEF WriteAudit, At
<1>15. CASE Commit
  <2>1. audit' \in RowTypes /\ flushed' \in RowTypes
    BY <1>15, CommitType DEF Commit, RowTypes
  <2>2. QED
    BY <1>15, <2>1 DEF Commit, At, RowTypes
<1>16. CASE Alert
  <2>1. audit' \in RowTypes /\ flushed' \in RowTypes
    BY <1>16, CommitType DEF Alert, RowTypes
  <2>2. QED
    BY <1>16, <2>1 DEF Alert, At, RowTypes
<1>17. CASE Reply
  <2>1. audit' \in RowTypes /\ flushed' \in RowTypes
    BY <1>17, CommitType DEF Reply, RowTypes
  <2>2. QED
    BY <1>17, <2>1, AnswerType DEF Reply, RowTypes
<1>18. CASE Abort
  <2>1. audit' \in RowTypes /\ flushed' \in RowTypes
    BY <1>18, CommitType DEF Abort, RowTypes
  <2>2. QED
    BY <1>18, <2>1 DEF Abort, RowTypes
<1>19. CASE UNCHANGED vars
  BY <1>19 DEF vars
<1>20. QED
  BY <1>1, <1>2, <1>3, <1>4, <1>5, <1>6, <1>7, <1>8, <1>9, <1>10, <1>11, <1>12, <1>13,
     <1>14, <1>15, <1>16, <1>17, <1>18, <1>19
  DEF Next, Handler, Prepare, Complete, StreamOut, Finish, Done

LEMMA TypeInvHolds == Spec => []TypeInv
BY TypeInit, TypeStep, PTL DEF Spec

\* Every variable keeps its type, whatever the constants.
THEOREM TypeOKHolds == Spec => []TypeOK
BY TypeInvHolds, PTL DEF TypeInv

-----------------------------------------------------------------------------
(* Plans: what is left of one tells what was already done.                 *)

Unbilled == {<<"charge", "audit", "commit">>, <<"charge", "alert", "audit", "commit">>}
Unwritten == Unbilled \union
    {<<"alert", "audit", "commit">>, <<"audit", "commit", "alert">>,
     <<"audit", "alert", "commit">>, <<"audit", "commit">>}
Written == {<<"commit", "alert">>, <<"alert", "commit">>, <<"commit">>}
Committed == {<<"alert">>, <<>>}
Left == Unwritten \union Written \union Committed

Billed == {"answered", "streamed", "streamblocked"}

LEMMA PlanStart ==
  ASSUME NEW o \in Outcomes
  PROVE  Plan(o) \in Unwritten /\ (Plan(o) \in Unbilled <=> o \in Billed)
<1>1. CASE o \in {"classifier", "policy", "abac", "egress", "outage", "broken"}
  <2>1. Plan(o) = <<"audit", "commit", "alert">>
    BY <1>1 DEF Plan
  <2>2. QED
    BY <1>1, <2>1 DEF Unwritten, Unbilled, Billed
<1>2. CASE o = "approval"
  <2>1. Plan(o) = <<"audit", "commit">>
    BY <1>2, Zenon DEF Plan
  <2>2. QED
    BY <1>2, <2>1 DEF Unwritten, Unbilled, Billed
<1>3. CASE o = "prompt"
  <2>1. Plan(o) = <<"audit", "alert", "commit">>
    BY <1>3, Zenon DEF Plan
  <2>2. QED
    BY <1>3, <2>1 DEF Unwritten, Unbilled, Billed
<1>4. CASE o \in {"answered", "streamed"}
  <2>1. Plan(o) = <<"charge", "audit", "commit">>
    BY <1>4, Zenon DEF Plan
  <2>2. QED
    BY <1>4, <2>1 DEF Unwritten, Unbilled, Billed
<1>5. CASE o = "streamblocked"
  <2>1. Plan(o) = <<"charge", "alert", "audit", "commit">>
    BY <1>5, Zenon DEF Plan
  <2>2. QED
    BY <1>5, <2>1 DEF Unwritten, Unbilled, Billed
<1>6. QED
  BY <1>1, <1>2, <1>3, <1>4, <1>5 DEF Outcomes, Refusals, IngressRefusals, Streamed

LEMMA PlanMoves ==
  ASSUME NEW p \in Left, p # <<>>
  PROVE  /\ Head(p) = "charge" <=> p \in Unbilled
         /\ Tail(p) \in Left \ Unbilled
         /\ Head(p) = "charge" => p \in Unwritten /\ Tail(p) \in Unwritten
         /\ Head(p) = "audit" => p \in Unwritten /\ Tail(p) \in Written
         /\ Head(p) = "commit" => p \in Written /\ Tail(p) \in Committed
         /\ Head(p) = "alert" => \/ p \in Unwritten /\ Tail(p) \in Unwritten
                                 \/ p \in Written /\ Tail(p) \in Written
                                 \/ p \in Committed /\ Tail(p) \in Committed
<1> USE DEF Left, Unbilled, Unwritten, Written, Committed
<1>1. CASE p = <<"charge", "audit", "commit">>
  <2>1. Head(p) = "charge" /\ Tail(p) = <<"audit", "commit">>
    BY <1>1
  <2>2. QED
    BY <1>1, <2>1
<1>2. CASE p = <<"charge", "alert", "audit", "commit">>
  <2>1. Head(p) = "charge" /\ Tail(p) = <<"alert", "audit", "commit">>
    BY <1>2
  <2>2. QED
    BY <1>2, <2>1
<1>3. CASE p = <<"alert", "audit", "commit">>
  <2>1. Head(p) = "alert" /\ Tail(p) = <<"audit", "commit">>
    BY <1>3
  <2>2. QED
    BY <1>3, <2>1
<1>4. CASE p = <<"audit", "commit", "alert">>
  <2>1. Head(p) = "audit" /\ Tail(p) = <<"commit", "alert">>
    BY <1>4
  <2>2. QED
    BY <1>4, <2>1
<1>5. CASE p = <<"audit", "alert", "commit">>
  <2>1. Head(p) = "audit" /\ Tail(p) = <<"alert", "commit">>
    BY <1>5
  <2>2. QED
    BY <1>5, <2>1
<1>6. CASE p = <<"audit", "commit">>
  <2>1. Head(p) = "audit" /\ Tail(p) = <<"commit">>
    BY <1>6
  <2>2. QED
    BY <1>6, <2>1
<1>7. CASE p = <<"commit", "alert">>
  <2>1. Head(p) = "commit" /\ Tail(p) = <<"alert">>
    BY <1>7
  <2>2. QED
    BY <1>7, <2>1
<1>8. CASE p = <<"alert", "commit">>
  <2>1. Head(p) = "alert" /\ Tail(p) = <<"commit">>
    BY <1>8
  <2>2. QED
    BY <1>8, <2>1
<1>9. CASE p = <<"commit">>
  <2>1. Head(p) = "commit" /\ Tail(p) = <<>>
    BY <1>9
  <2>2. QED
    BY <1>9, <2>1
<1>10. CASE p = <<"alert">>
  <2>1. Head(p) = "alert" /\ Tail(p) = <<>>
    BY <1>10
  <2>2. QED
    BY <1>10, <2>1
<1>11. QED
  BY <1>1, <1>2, <1>3, <1>4, <1>5, <1>6, <1>7, <1>8, <1>9, <1>10

LEMMA PlanParts ==
  /\ Unwritten \intersect Written = {}
  /\ Unwritten \intersect Committed = {}
  /\ Written \intersect Committed = {}
BY DEF Unbilled, Unwritten, Written, Committed

-----------------------------------------------------------------------------
(* Where a request is, and what cannot have happened before.               *)

Before == {"classify", "inspect", "prompt", "abac", "open"}

StageInv ==
    /\ pc \notin {"end", "done"} => outcome = "none"
    /\ pc \in {"open", "stream"} \/ outcome \in Streamed => stream
    /\ pc \in {"call", "tools", "egress"} => ~stream
    /\ pc \in Before => sent = 0 /\ executed = <<>> /\ exposed = {}
    /\ outcome \in IngressRefusals => sent = 0 /\ executed = <<>>
    /\ pc # "done" /\ ~stream => answer = "none"
    /\ pc = "end" => plan \in Left

LEMMA StageInit == Init => StageInv
BY DEF Init, StageInv, IngressRefusals, Streamed

\* An action that ends the request leaves a whole plan.
LEMMA EndLeft ==
  ASSUME NEW o \in Outcomes, End(o)
  PROVE  /\ pc' = "end" /\ outcome' = o /\ plan' \in Left /\ plan' \in Unwritten
         /\ plan' \in Unbilled <=> o \in Billed
BY PlanStart DEF End, Left

LEMMA StageStep == TypeInv /\ StageInv /\ [Next]_vars => StageInv'
<1> SUFFICES ASSUME TypeInv, StageInv, [Next]_vars
             PROVE  StageInv'
  OBVIOUS
<1> USE DEF StageInv, TypeInv, TypeOK, Ready, Before, Outcomes, Refusals, IngressRefusals, Streamed
<1>1. CASE Classify
  BY <1>1, EndLeft DEF Classify
<1>2. CASE Inspect
  BY <1>2, EndLeft DEF Inspect
<1>3. CASE InjectPrompt
  BY <1>3, EndLeft DEF InjectPrompt
<1>4. CASE Abac
  BY <1>4, EndLeft DEF Abac
<1>5. CASE Fail
  BY <1>5, EndLeft DEF Fail, Send
<1>6. ASSUME NEW u \in 0..MaxUsed, Respond(u)
      PROVE  StageInv'
  BY <1>6 DEF Respond, Send
<1>7. CASE RunTool
  BY <1>7 DEF RunTool
<1>8. CASE Egress
  BY <1>8, EndLeft DEF Egress
<1>9. CASE Open
  BY <1>9 DEF Open, Send, CommitRows
<1>10. CASE Chunk
  BY <1>10 DEF Chunk
<1>11. ASSUME NEW u \in 1..MaxUsed, EndStream(u)
       PROVE  StageInv'
  BY <1>11, EndLeft DEF EndStream
<1>12. CASE BreakStream
  BY <1>12, EndLeft DEF BreakStream
<1>13. CASE Charge
  BY <1>13, PlanMoves DEF Charge, At
<1>14. CASE WriteAudit
  BY <1>14, PlanMoves DEF WriteAudit, At
<1>15. CASE Commit
  BY <1>15, PlanMoves DEF Commit, At, CommitRows
<1>16. CASE Alert
  BY <1>16, PlanMoves DEF Alert, At, CommitRows
<1>17. CASE Reply
  BY <1>17 DEF Reply, CommitRows, RollBack
<1>18. CASE Abort
  BY <1>18 DEF Abort, RollBack
<1>19. CASE UNCHANGED vars
  BY <1>19 DEF vars
<1>20. QED
  BY <1>1, <1>2, <1>3, <1>4, <1>5, <1>6, <1>7, <1>8, <1>9, <1>10, <1>11, <1>12, <1>13,
     <1>14, <1>15, <1>16, <1>17, <1>18, <1>19
  DEF Next, Handler, Prepare, Complete, StreamOut, Finish, Done

-----------------------------------------------------------------------------
(* What is billed.                                                         *)

BillInv ==
    /\ used <= spent /\ charged \in {0, used}
    /\ outcome \notin Billed => charged = 0
    /\ pc = "end" /\ outcome \in Billed => charged = IF plan \in Unbilled THEN 0 ELSE used
    /\ pc = "end" /\ plan \in Unbilled => outcome \in Billed
    /\ ~stream /\ answer = "content" => charged = used

LEMMA BillInit == Init => BillInv
BY GatewayBounds DEF Init, BillInv, Billed

LEMMA AnswerContent ==
  ASSUME NEW o \in Outcomes, Answer[o] = "content"
  PROVE  o \in Streamed \union {"answered"}
BY DEF Answer

LEMMA BillStep == TypeInv /\ StageInv /\ BillInv /\ [Next]_vars => BillInv'
<1> SUFFICES ASSUME TypeInv, StageInv, BillInv, [Next]_vars
             PROVE  BillInv'
  OBVIOUS
<1> USE DEF StageInv, BillInv, TypeInv, TypeOK, Ready, Outcomes, Refusals, IngressRefusals, Streamed, Billed
<1>1. CASE Classify
  BY <1>1, EndLeft DEF Classify
<1>2. CASE Inspect
  BY <1>2, EndLeft DEF Inspect
<1>3. CASE InjectPrompt
  BY <1>3, EndLeft DEF InjectPrompt
<1>4. CASE Abac
  BY <1>4, EndLeft DEF Abac
<1>5. CASE Fail
  BY <1>5, EndLeft DEF Fail, Send
<1>6. ASSUME NEW u \in 0..MaxUsed, Respond(u)
      PROVE  BillInv'
  BY <1>6 DEF Respond, Send
<1>7. CASE RunTool
  BY <1>7 DEF RunTool
<1>8. CASE Egress
  BY <1>8, EndLeft DEF Egress
<1>9. CASE Open
  BY <1>9 DEF Open, Send, CommitRows
<1>10. CASE Chunk
  BY <1>10 DEF Chunk
<1>11. ASSUME NEW u \in 1..MaxUsed, EndStream(u)
       PROVE  BillInv'
  BY <1>11, EndLeft DEF EndStream
<1>12. CASE BreakStream
  BY <1>12, EndLeft DEF BreakStream
<1>13. CASE Charge
  BY <1>13, PlanMoves DEF Charge, At
<1>14. CASE WriteAudit
  BY <1>14, PlanMoves DEF WriteAudit, At
<1>15. CASE Commit
  BY <1>15, PlanMoves DEF Commit, At, CommitRows
<1>16. CASE Alert
  BY <1>16, PlanMoves DEF Alert, At, CommitRows
<1>17. CASE Reply
  <2>1. <<>> \notin Unbilled
    BY DEF Unbilled
  <2>2. answer' = "content" /\ ~stream => outcome = "answered"
    BY <1>17, AnswerContent DEF Reply
  <2>3. QED
    BY <1>17, <2>1, <2>2 DEF Reply, CommitRows, RollBack
<1>18. CASE Abort
  BY <1>18 DEF Abort, RollBack
<1>19. CASE UNCHANGED vars
  BY <1>19 DEF vars
<1>20. QED
  BY <1>1, <1>2, <1>3, <1>4, <1>5, <1>6, <1>7, <1>8, <1>9, <1>10, <1>11, <1>12, <1>13,
     <1>14, <1>15, <1>16, <1>17, <1>18, <1>19
  DEF Next, Handler, Prepare, Complete, StreamOut, Finish, Done

-----------------------------------------------------------------------------
(* The audit rows: nothing, then the DLP row, then the trail, each added   *)
(* to the session first and committed later.                               *)

Scan == IF "dlp" \in sanitized THEN <<"scan">> ELSE <<>>

Unrecorded ==
    \/ audit = <<>> /\ flushed = Scan
    \/ audit = Scan /\ flushed = <<>>

Recorded == audit = Trail /\ flushed = <<>>

Recording ==
    \/ audit = <<>> /\ flushed = Trail
    \/ audit = Scan /\ flushed = <<outcome>>
    \/ Recorded

RowsInv ==
    /\ pc \in {"classify", "inspect"} => "dlp" \notin sanitized
    /\ pc \notin {"end", "done"} => Unrecorded
    /\ pc = "end" /\ plan \in Unwritten => Unrecorded
    /\ pc = "end" /\ plan \in Written => Recording
    /\ pc = "end" /\ plan \in Committed => Recorded
    /\ ~stream /\ answer \notin {"none", "error"} => audit = Trail /\ answer = Answer[outcome]

LEMMA CommitKeeps ==
  ASSUME CommitRows \/ UNCHANGED rows, UNCHANGED sanitized, Unrecorded
  PROVE  Unrecorded'
<1>1. <<>> \o <<>> = <<>> /\ <<>> \o Scan = Scan /\ Scan \o <<>> = Scan
  BY DEF Scan
<1>2. Scan' = Scan
  BY DEF Scan
<1>3. CASE CommitRows
  BY <1>1, <1>2, <1>3 DEF CommitRows, Unrecorded
<1>4. CASE UNCHANGED rows
  BY <1>2, <1>4 DEF Unrecorded
<1>5. QED
  BY <1>3, <1>4

\* What the statements on the session make of the rows.
LEMMA CommitMoves ==
  ASSUME CommitRows \/ UNCHANGED rows, UNCHANGED <<sanitized, outcome>>
  PROVE  /\ Unrecorded => Unrecorded'
         /\ Recording => Recording'
         /\ Recorded => Recorded'
         /\ CommitRows /\ Recording => Recorded'
<1>1. Scan' = Scan /\ Trail' = Trail
  BY DEF Scan, Trail
<1>2. /\ <<>> \o <<>> = <<>> /\ <<>> \o <<"scan">> = <<"scan">> /\ <<"scan">> \o <<>> = <<"scan">>
  OBVIOUS
<1>3. /\ <<>> \o <<outcome>> = <<outcome>> /\ <<outcome>> \o <<>> = <<outcome>>
  OBVIOUS
<1>4. /\ <<"scan", outcome>> \o <<>> = <<"scan", outcome>>
      /\ <<>> \o <<"scan", outcome>> = <<"scan", outcome>>
  OBVIOUS
<1>5. <<"scan">> \o <<outcome>> = <<"scan", outcome>>
  <2>1. <<"scan">> \in Seq({"scan", outcome}) /\ <<outcome>> \in Seq({"scan", outcome})
        /\ <<"scan", outcome>> \in Seq({"scan", outcome})
    OBVIOUS
  <2>2. /\ <<"scan">> \o <<outcome>> \in Seq({"scan", outcome})
        /\ Len(<<"scan">> \o <<outcome>>) = 2
        /\ \A i \in 1..2 : (<<"scan">> \o <<outcome>>)[i] = <<"scan", outcome>>[i]
    BY <2>1, ConcatProperties
  <2>3. QED
    BY <2>1, <2>2, SeqEqual
<1>6. Scan \o <<>> = Scan /\ <<>> \o Scan = Scan /\ Scan \o <<outcome>> = Trail
  BY <1>2, <1>3, <1>5 DEF Scan, Trail
<1>7. <<>> \o Trail = Trail /\ Trail \o <<>> = Trail
  BY <1>3, <1>4 DEF Trail
<1>8. CASE CommitRows
  BY <1>1, <1>2, <1>6, <1>7, <1>8 DEF CommitRows, Unrecorded, Recording, Recorded
<1>9. CASE UNCHANGED rows
  BY <1>1, <1>9, <1>8 DEF Unrecorded, Recording, Recorded
<1>10. QED
  BY <1>8, <1>9

LEMMA WriteMoves ==
  ASSUME Unrecorded, flushed' = Append(flushed, outcome), audit' = audit,
         UNCHANGED <<sanitized, outcome>>
  PROVE  Recording'
<1>1. Append(<<>>, outcome) = <<outcome>>
  OBVIOUS
<1>2. Append(<<"scan">>, outcome) = <<"scan", outcome>>
  <2>1. <<"scan">> \in Seq({"scan", outcome}) /\ <<"scan", outcome>> \in Seq({"scan", outcome})
    OBVIOUS
  <2>2. /\ Append(<<"scan">>, outcome) \in Seq({"scan", outcome})
        /\ Len(Append(<<"scan">>, outcome)) = 2
        /\ \A i \in 1..2 : Append(<<"scan">>, outcome)[i] = <<"scan", outcome>>[i]
    BY <2>1, AppendProperties
  <2>3. QED
    BY <2>1, <2>2, SeqEqual
<1>3. Scan' = Scan /\ Trail' = Trail
  BY DEF Scan, Trail
<1>4. Append(Scan, outcome) = Trail
  BY <1>1, <1>2 DEF Scan, Trail
<1>5. QED
  BY <1>1, <1>3, <1>4 DEF Unrecorded, Recording, Recorded

LEMMA RowsInit == Init => RowsInv
BY DEF Init, RowsInv, Unrecorded, Scan

LEMMA RowsStep == TypeInv /\ StageInv /\ RowsInv /\ [Next]_vars => RowsInv'
<1> SUFFICES ASSUME TypeInv, StageInv, RowsInv, [Next]_vars
             PROVE  RowsInv'
  OBVIOUS
<1> USE DEF RowsInv, StageInv, TypeInv, TypeOK, Ready, Left, Outcomes, Refusals, IngressRefusals, Streamed
<1>1. CASE Classify
  <2>1. "dlp" \in sanitized' <=> "dlp" \in sanitized
    BY <1>1 DEF Classify
  <2>2. Unrecorded'
    BY <1>1, <2>1 DEF Classify, RowsInv, Unrecorded, Scan
  <2>3. QED
    BY <1>1, <2>1, <2>2, EndLeft, PlanParts DEF Classify
<1>2. CASE Inspect
  <2>1. audit = <<>> /\ flushed = <<>>
    BY <1>2 DEF Inspect, Unrecorded, Scan
  <2>2. Append(<<>>, "scan") = <<"scan">>
    OBVIOUS
  <2>3. Unrecorded'
    <3>1. "dlp" \notin sanitized /\ audit' = <<>>
      BY <1>2, <2>1 DEF Inspect
    <3>2. CASE sanitized' = sanitized \union {"dlp"} /\ flushed' = <<"scan">>
      <4>1. "dlp" \in sanitized'
        BY <3>2
      <4>2. Scan' = <<"scan">>
        BY <4>1 DEF Scan
      <4>3. QED
        BY <3>1, <3>2, <4>2 DEF Unrecorded
    <3>3. CASE "dlp" \notin sanitized' /\ flushed' = <<>>
      BY <3>1, <3>3 DEF Unrecorded, Scan
    <3>4. QED
      BY <1>2, <2>1, <2>2, <3>1, <3>2, <3>3 DEF Inspect, RedactUser
  <2>4. QED
    BY <1>2, <2>3, EndLeft, PlanParts DEF Inspect, RedactUser
<1>3. CASE InjectPrompt
  BY <1>3, EndLeft, PlanParts DEF InjectPrompt, Unrecorded, Scan
<1>4. CASE Abac
  BY <1>4, EndLeft, PlanParts DEF Abac, Unrecorded, Scan
<1>5. CASE Fail
  BY <1>5, EndLeft, PlanParts DEF Fail, Send, Unrecorded, Scan
<1>6. ASSUME NEW u \in 0..MaxUsed, Respond(u)
      PROVE  RowsInv'
  BY <1>6 DEF Respond, Send, Unrecorded, Scan
<1>7. CASE RunTool
  BY <1>7 DEF RunTool, Unrecorded, Scan
<1>8. CASE Egress
  <2>1. Unrecorded'
    BY <1>8, CommitKeeps DEF Egress
  <2>2. QED
    BY <1>8, <2>1, EndLeft, PlanParts DEF Egress
<1>9. CASE Open
  <2>1. Unrecorded'
    BY <1>9, CommitMoves DEF Open
  <2>2. QED
    BY <1>9, <2>1 DEF Open
<1>10. CASE Chunk
  BY <1>10 DEF Chunk, Unrecorded, Scan
<1>11. ASSUME NEW u \in 1..MaxUsed, EndStream(u)
       PROVE  RowsInv'
  <2>1. Unrecorded'
    BY <1>11, CommitKeeps DEF EndStream
  <2>2. QED
    BY <1>11, <2>1, EndLeft, PlanParts DEF EndStream
<1>12. CASE BreakStream
  BY <1>12, EndLeft, PlanParts DEF BreakStream, Unrecorded, Scan
<1>13. CASE Charge
  <2>1. plan \in Unwritten /\ plan' \in Unwritten
    BY <1>13, PlanMoves DEF Charge, At
  <2>2. Unrecorded'
    BY <1>13, <2>1 DEF Charge, At, Unrecorded, Scan
  <2>3. QED
    BY <1>13, <2>1, <2>2, PlanParts DEF Charge, At
<1>14. CASE WriteAudit
  <2>1. plan \in Unwritten /\ plan' \in Written
    BY <1>14, PlanMoves DEF WriteAudit, At
  <2>2. Recording'
    BY <1>14, <2>1, WriteMoves DEF WriteAudit, At
  <2>3. QED
    BY <1>14, <2>1, <2>2, PlanParts DEF WriteAudit, At
<1>15. CASE Commit
  <2>1. plan \in Written /\ plan' \in Committed
    BY <1>15, PlanMoves DEF Commit, At
  <2>2. Recorded'
    BY <1>15, <2>1, CommitMoves DEF Commit, At
  <2>3. QED
    BY <1>15, <2>1, <2>2, PlanParts DEF Commit, At
<1>16. CASE Alert
  <2>1. /\ plan' \in Unwritten => plan \in Unwritten
        /\ plan' \in Written => plan \in Written
        /\ plan' \in Committed => plan \in Committed
    BY <1>16, PlanMoves, PlanParts DEF Alert, At
  <2>2. /\ Unrecorded => Unrecorded'
        /\ Recording => Recording'
        /\ Recorded => Recorded'
    BY <1>16, CommitMoves DEF Alert
  <2>3. QED
    BY <1>16, <2>1, <2>2 DEF Alert, At
<1>17. CASE Reply
  <2>1. Recorded
    BY <1>17 DEF Reply, Committed
  <2>2. audit' = audit
    <3>1. CASE CommitRows
      BY <1>17, <3>1, <2>1, CommitMoves DEF Reply, Recorded, Trail
    <3>2. CASE RollBack
      BY <3>2 DEF RollBack
    <3>3. QED
      BY <1>17, <3>1, <3>2 DEF Reply
  <2>3. Trail' = Trail
    BY <1>17 DEF Reply, Trail
  <2>4. QED
    BY <1>17, <2>1, <2>2, <2>3 DEF Reply, Recorded
<1>18. CASE Abort
  <2>1. ~stream => answer' = "error"
    BY <1>18 DEF Abort
  <2>2. QED
    BY <1>18, <2>1 DEF Abort
<1>19. CASE UNCHANGED vars
  BY <1>19 DEF vars, Unrecorded, Recording, Recorded, Scan, Trail
<1>20. QED
  BY <1>1, <1>2, <1>3, <1>4, <1>5, <1>6, <1>7, <1>8, <1>9, <1>10, <1>11, <1>12, <1>13,
     <1>14, <1>15, <1>16, <1>17, <1>18, <1>19
  DEF Next, Handler, Prepare, Complete, StreamOut, Finish, Done

-----------------------------------------------------------------------------
(* Audit and billing.                                                      *)

SafeInv == TypeInv /\ StageInv /\ BillInv /\ RowsInv

LEMMA SafeInvHolds == Spec => []SafeInv
<1>1. Init => SafeInv
  BY TypeInit, StageInit, BillInit, RowsInit DEF SafeInv
<1>2. SafeInv /\ [Next]_vars => SafeInv'
  BY TypeStep, StageStep, BillStep, RowsStep DEF SafeInv
<1>3. QED
  BY <1>1, <1>2, PTL DEF Spec

\* Whatever the providers, the connectors, the session and the process do,
\* a plain request is answered after its complete audit trail was committed.
THEOREM AnswerAuditedHolds == Spec => []AnswerAudited
<1>1. SafeInv => AnswerAudited
  BY DEF SafeInv, RowsInv, AnswerAudited
<1>2. QED
  BY <1>1, SafeInvHolds, PTL

\* No refusal is billed, and none at ingress reached a provider or a tool.
THEOREM RefusedCostsNothingHolds == Spec => []RefusedCostsNothing
<1>1. SafeInv => RefusedCostsNothing
  <2>1. Billed \intersect (Refusals \union {"outage"}) = {}
    BY DEF Billed, Refusals, IngressRefusals
  <2>2. QED
    BY <2>1 DEF SafeInv, StageInv, BillInv, RefusedCostsNothing
<1>2. QED
  BY <1>1, SafeInvHolds, PTL

\* Budgets are billed at most once, for content, within what was reported.
THEOREM ChargedOnceHolds == Spec => []ChargedOnce
<1>1. SafeInv => ChargedOnce
  BY DEF SafeInv, TypeInv, TypeOK, BillInv, Billed, ChargedOnce
<1>2. QED
  BY <1>1, SafeInvHolds, PTL

\* The bill is right, whatever fails: nothing refused is billed, and what is
\* answered is billed once.
THEOREM BillingHolds == Spec => []BillingRight
<1>1. RefusedCostsNothing /\ ChargedOnce => BillingRight
  BY DEF BillingRight
<1>2. QED
  BY <1>1, RefusedCostsNothingHolds, ChargedOnceHolds, PTL

-----------------------------------------------------------------------------
(* The abstract gateway.                                                   *)

\* The recorded outcome, as a function of the committed rows.
LEMMA LogOfRows ==
  ASSUME SafeInv
  PROVE  /\ LogOf(<<>>) = "none" /\ LogOf(Scan) = "none"
         /\ outcome \in Outcomes => LogOf(Trail) = outcome
<1>1. LogOf(<<>>) = "none"
  BY DEF LogOf
<1>2. LogOf(<<"scan">>) = "none"
  BY DEF LogOf, Last
<1>3. ASSUME outcome \in Outcomes
      PROVE  LogOf(Trail) = outcome
  <2>1. outcome # "scan"
    BY <1>3 DEF Outcomes, Refusals, IngressRefusals, Streamed
  <2>2. LogOf(<<outcome>>) = outcome /\ LogOf(<<"scan", outcome>>) = outcome
    BY <2>1 DEF LogOf, Last
  <2>3. QED
    BY <2>2 DEF Trail
<1>4. QED
  BY <1>1, <1>2, <1>3 DEF Scan

\* Nothing is recorded by a step that keeps the rows or has none to record.
Same == LogOf(audit') = LogOf(audit) /\ answer' = answer /\ stream' = stream

Maps == Audited!Next \/ UNCHANGED Audited!vars

LEMMA SameMaps == Same => Maps
BY DEF Same, Maps, Audited!vars, LogOf

LEMMA RecordMaps ==
  ASSUME SafeInv, CommitRows \/ UNCHANGED rows, UNCHANGED <<stream, sanitized, answer>>,
         pc \notin {"end", "done"} \/ (pc = "end" /\ UNCHANGED outcome)
  PROVE  Maps
<1>1. CASE stream
  BY <1>1 DEF Maps, Audited!vars
<1>2. CASE ~stream /\ UNCHANGED rows
  BY <1>2, SameMaps DEF Same
<1>3. CASE ~stream /\ CommitRows /\ Unrecorded
  <2>1. Unrecorded' /\ Scan' = Scan
    BY <1>3, CommitKeeps DEF Scan
  <2>2. audit \in {<<>>, Scan} /\ audit' \in {<<>>, Scan}
    BY <1>3, <2>1 DEF Unrecorded
  <2>3. QED
    BY <2>2, LogOfRows, SameMaps DEF Same
<1>4. CASE ~stream /\ CommitRows /\ pc = "end" /\ Recording
  <2>1. UNCHANGED <<sanitized, outcome>> /\ outcome \in Outcomes /\ answer = "none"
    BY <1>4 DEF SafeInv, TypeInv, Ready, StageInv
  <2>2. Recorded' /\ Trail' = Trail
    BY <1>4, <2>1, CommitMoves DEF Trail
  <2>3. audit' = Trail /\ LogOf(audit') = outcome
    BY <2>1, <2>2, LogOfRows DEF Recorded
  <2>4. CASE Recorded
    BY <2>3, <2>4, SameMaps DEF Same, Recorded
  <2>5. CASE audit \in {<<>>, Scan}
    <3>1. LogOf(audit) = "none"
      BY <2>5, LogOfRows
    <3>2. PICK o \in Outcomes : o = outcome
      BY <2>1
    <3>3. Audited!Record(o)
      BY <1>4, <2>1, <2>3, <3>1, <3>2 DEF Audited!Record
    <3>4. QED
      BY <3>3 DEF Maps, Audited!Next
  <2>6. QED
    BY <1>4, <2>4, <2>5 DEF Recording
<1>5. QED
  BY <1>1, <1>2, <1>3, <1>4 DEF SafeInv, StageInv, RowsInv, Left, Recording

LEMMA ReplyMaps == SafeInv /\ Reply => Maps
<1> SUFFICES ASSUME SafeInv, Reply
             PROVE  Maps
  OBVIOUS
<1>1. CASE stream
  BY <1>1 DEF Maps, Audited!vars, Reply
<1>2. CASE ~stream
  <2>1. Recorded /\ outcome \in Outcomes /\ answer = "none"
    BY <1>2 DEF SafeInv, TypeInv, Ready, StageInv, RowsInv, Reply, Committed
  <2>2. audit' = audit
    <3>1. UNCHANGED <<sanitized, outcome>>
      BY DEF Reply
    <3>2. CASE CommitRows
      BY <2>1, <3>1, <3>2, CommitMoves DEF Recorded, Trail
    <3>3. CASE RollBack
      BY <3>3 DEF RollBack
    <3>4. QED
      BY <3>2, <3>3 DEF Reply
  <2>3. PICK o \in Outcomes : o = outcome
    BY <2>1
  <2>4. LogOf(audit) = o /\ o # "none"
    BY <2>1, <2>3, LogOfRows DEF Recorded, Outcomes, Refusals, IngressRefusals, Streamed
  <2>5. Audited!Reply
    BY <1>2, <2>1, <2>2, <2>3, <2>4 DEF Audited!Reply, Reply
  <2>6. QED
    BY <2>5 DEF Maps, Audited!Next
<1>3. QED
  BY <1>1, <1>2

LEMMA AbortMaps == SafeInv /\ Abort => Maps
<1> SUFFICES ASSUME SafeInv, Abort
             PROVE  Maps
  OBVIOUS
<1>1. CASE stream
  BY <1>1 DEF Maps, Audited!vars, Abort
<1>2. CASE ~stream
  <2>1. answer = "none" /\ answer' = "error" /\ audit' = audit /\ stream' = stream
    BY <1>2 DEF SafeInv, StageInv, Abort, RollBack
  <2>2. Audited!Break
    BY <1>2, <2>1 DEF Audited!Break
  <2>3. QED
    BY <2>2 DEF Maps, Audited!Next
<1>3. QED
  BY <1>1, <1>2

\* A plain request implements the abstract gateway: each of its steps records
\* the outcome, answers it, breaks, or is not seen.
THEOREM ImplementsAudited == Spec => AuditedSpec
<1>1. Init => Audited!Init
  BY DEF Init, Audited!Init, LogOf
<1>2. SafeInv /\ [Next]_vars => [Audited!Next]_(Audited!vars)
  <2> SUFFICES ASSUME SafeInv, [Next]_vars
               PROVE  Maps
    BY DEF Maps
  <2>1. CASE Prepare \/ Fail \/ RunTool \/ Chunk \/ BreakStream \/ Charge \/ WriteAudit
             \/ (\E u \in 0..MaxUsed : Respond(u)) \/ UNCHANGED vars
    <3>1. audit' = audit /\ answer' = answer /\ stream' = stream
      BY <2>1 DEF Prepare, Classify, Inspect, InjectPrompt, Abac, Fail, RunTool, Chunk,
                  BreakStream, Charge, WriteAudit, Respond, vars
    <3>2. QED
      BY <3>1, SameMaps DEF Same
  <2>2. CASE Egress
    BY <2>2, RecordMaps DEF Egress
  <2>3. CASE Open
    <3>1. stream /\ stream' = stream
      BY <2>3 DEF Open, SafeInv, StageInv
    <3>2. QED
      BY <3>1 DEF Maps, Audited!vars
  <2>4. CASE \E u \in 1..MaxUsed : EndStream(u)
    BY <2>4, RecordMaps DEF EndStream
  <2>5. CASE Commit
    BY <2>5, RecordMaps DEF Commit, At
  <2>6. CASE Alert
    BY <2>6, RecordMaps DEF Alert, At
  <2>7. QED
    BY <2>1, <2>2, <2>3, <2>4, <2>5, <2>6, ReplyMaps, AbortMaps
    DEF Next, Handler, Complete, StreamOut, Finish, Done
<1>3. QED
  BY <1>1, <1>2, SafeInvHolds, PTL DEF Spec, AuditedSpec, Audited!Spec

-----------------------------------------------------------------------------
(* Redaction.                                                              *)

RedactInv ==
    /\ exposed \subseteq prompt
    /\ pc \in {"classify", "inspect"} => sanitized \subseteq {"classifier"}
    /\ sanitized \intersect {"dlp", "rule"} # {} => "user" \notin prompt

LEMMA RedactInit == Init => RedactInv
BY DEF Init, RedactInv

LEMMA RedactStep == StageInv /\ RedactInv /\ [Next]_vars => RedactInv'
<1> SUFFICES ASSUME StageInv, RedactInv, [Next]_vars
             PROVE  RedactInv'
  OBVIOUS
<1> USE DEF StageInv, RedactInv, Before
<1>1. CASE Classify
  BY <1>1 DEF Classify, End
<1>2. CASE Inspect
  BY <1>2 DEF Inspect, RedactUser, End
<1>3. CASE InjectPrompt
  BY <1>3 DEF InjectPrompt, End
<1>4. CASE Abac
  BY <1>4 DEF Abac, End
<1>5. CASE Fail
  BY <1>5 DEF Fail, Send, End
<1>6. ASSUME NEW u \in 0..MaxUsed, Respond(u)
      PROVE  RedactInv'
  BY <1>6 DEF Respond, Send
<1>7. CASE RunTool
  BY <1>7 DEF RunTool
<1>8. CASE Egress
  BY <1>8 DEF Egress, End
<1>9. CASE Open
  BY <1>9 DEF Open, Send
<1>10. CASE Chunk
  BY <1>10 DEF Chunk
<1>11. ASSUME NEW u \in 1..MaxUsed, EndStream(u)
       PROVE  RedactInv'
  BY <1>11 DEF EndStream, End
<1>12. CASE BreakStream
  BY <1>12 DEF BreakStream, End
<1>13. CASE Charge
  BY <1>13 DEF Charge
<1>14. CASE WriteAudit
  BY <1>14 DEF WriteAudit
<1>15. CASE Commit
  BY <1>15 DEF Commit
<1>16. CASE Alert
  BY <1>16 DEF Alert
<1>17. CASE Reply
  BY <1>17 DEF Reply
<1>18. CASE Abort
  BY <1>18 DEF Abort
<1>19. CASE UNCHANGED vars
  BY <1>19 DEF vars
<1>20. QED
  BY <1>1, <1>2, <1>3, <1>4, <1>5, <1>6, <1>7, <1>8, <1>9, <1>10, <1>11, <1>12, <1>13,
     <1>14, <1>15, <1>16, <1>17, <1>18, <1>19
  DEF Next, Handler, Prepare, Complete, StreamOut, Finish, Done

\* What DLP or a rule redacts never reaches a provider in the user's text.
THEOREM RedactionSentHolds == Spec => []RedactionSent
<1>1. StageInv /\ RedactInv => RedactionSent
  BY DEF RedactInv, RedactionSent
<1>2. SafeInv => StageInv
  BY DEF SafeInv
<1>3. Spec => []RedactInv
  BY <1>2, RedactInit, RedactStep, SafeInvHolds, PTL DEF Spec
<1>4. QED
  BY <1>1, <1>2, <1>3, SafeInvHolds, PTL

-----------------------------------------------------------------------------
(* The tool loop.                                                          *)

\* While a candidate's loop runs, its history holds what it executed.
ToolInv ==
    /\ \A i \in DOMAIN executed : executed[i].by <= cand
    /\ pc \in {"call", "tools"} =>
         \A i \in DOMAIN executed : executed[i].by = cand =>
             \E j \in DOMAIN history : history[j] = executed[i].call
    /\ ToolsGoverned

LEMMA ToolInit == Init => ToolInv
BY DEF Init, ToolInv, ToolsGoverned

\* Nothing the invariant speaks of changes.
Quiet == UNCHANGED <<executed, cand, history>> /\ (pc' \in {"call", "tools"} => pc \in {"call", "tools"})

LEMMA QuietStep == ToolInv /\ Quiet => ToolInv'
BY DEF ToolInv, Quiet, ToolsGoverned, ChainIn

\* The detector's promise: an allowed call neither completes a chain that
\* its history opened nor is destructive.
LEMMA AllowedCall ==
  ASSUME NEW h, NEW c, Verdict(h, c) = "allow"
  PROVE  /\ "infra_mutation" \notin Capabilities[c]
         /\ Capabilities[c] \intersect {"network_egress", "code_exec"} # {} =>
              \A j \in DOMAIN h : "read_sensitive" \notin Capabilities[h[j]]
BY DEF Verdict, Exfiltration, HighImpact, Seen

LEMMA ToolStep == TypeInv /\ StageInv /\ ToolInv /\ [Next]_vars => ToolInv'
<1> SUFFICES ASSUME TypeInv, StageInv, ToolInv, [Next]_vars
             PROVE  ToolInv'
  OBVIOUS
<1>1. CASE Classify
  BY <1>1, QuietStep DEF Quiet, Classify, End
<1>2. CASE Inspect
  BY <1>2, QuietStep DEF Quiet, Inspect, End
<1>3. CASE InjectPrompt
  BY <1>3, QuietStep DEF Quiet, InjectPrompt, End
<1>4. CASE Abac
  <2>1. executed = <<>> /\ executed' = <<>>
    BY <1>4 DEF Abac, StageInv, Before
  <2>2. QED
    BY <2>1 DEF ToolInv, ToolsGoverned, ChainIn
<1>5. CASE Fail
  <2>1. UNCHANGED executed
    BY <1>5 DEF Fail
  <2>2. CASE cand' = cand + 1 /\ pc' = pc
    <3>1. \A i \in DOMAIN executed : executed[i].by \in Nat /\ executed[i].by < cand'
      <4> SUFFICES ASSUME NEW i \in DOMAIN executed
                   PROVE  executed[i].by \in Nat /\ executed[i].by < cand'
        OBVIOUS
      <4>1. executed[i] \in [call : Calls, by : Nat] /\ cand \in Nat
        <5> DEFINE Exec == [call : Calls, by : Nat]
        <5>1. executed \in Seq(Exec) /\ cand \in Nat
          BY DEF TypeInv, TypeOK
        <5> HIDE DEF Exec
        <5>2. executed[i] \in Exec
          BY <5>1
        <5>3. QED
          BY <5>1, <5>2 DEF Exec
      <4>2. executed[i].by \in Nat /\ executed[i].by <= cand
        BY <4>1 DEF ToolInv
      <4>3. QED
        BY <2>2, <4>1, <4>2
    <3>2. \A i \in DOMAIN executed : executed[i].by <= cand' /\ executed[i].by # cand'
      BY <2>2, <3>1 DEF TypeInv, TypeOK
    <3>3. ToolsGoverned'
      BY <2>1 DEF ToolInv, ToolsGoverned, ChainIn
    <3>4. QED
      BY <2>1, <3>2, <3>3 DEF ToolInv
  <2>3. CASE cand' = cand /\ pc' = "end"
    BY <2>1, <2>3 DEF ToolInv, ToolsGoverned, ChainIn
  <2>4. QED
    BY <1>5, <2>2, <2>3 DEF Fail, End
<1>6. ASSUME NEW u \in 0..MaxUsed, Respond(u)
      PROVE  ToolInv'
  BY <1>6, QuietStep DEF Quiet, Respond
<1>7. CASE RunTool
  <2>1. PICK c \in Calls : c = Head(calls)
    BY <1>7 DEF RunTool, TypeInv, TypeOK, Ready
  <2>2. PICK n \in Nat : n = cand
    BY DEF TypeInv, TypeOK
  <2>3. /\ history \in Seq(Calls) /\ history' = Append(history, c)
        /\ cand' = n /\ cand = n /\ pc = "tools" /\ pc' \in {"call", "tools"}
    BY <1>7, <2>1, <2>2 DEF RunTool, TypeInv, TypeOK
  <2>4. /\ \A j \in DOMAIN history : j \in DOMAIN history' /\ history'[j] = history[j]
        /\ \E j \in DOMAIN history' : history'[j] = c
    BY <2>3, Len(history') \in DOMAIN history'
  <2>5. CASE executed' = executed
    BY <2>3, <2>4, <2>5 DEF ToolInv, ToolsGoverned, ChainIn
  <2>6. CASE Verdict(history, c) = "allow" /\ executed' = Append(executed, [call |-> c, by |-> n])
    <3>1. PICK k \in Nat : k = Len(executed)
      BY DEF TypeInv, TypeOK
    <3>2. /\ DOMAIN executed = 1..k /\ DOMAIN executed' = 1..(k + 1)
          /\ \A i \in 1..k : executed'[i] = executed[i]
          /\ executed'[k + 1].call = c /\ executed'[k + 1].by = n
      BY <2>6, <3>1 DEF TypeInv, TypeOK
    <3>3. \A i \in 1..(k + 1) : i \in 1..k \/ i = k + 1
      BY <3>1
    <3>4. /\ \A i \in DOMAIN executed' : executed'[i].by <= cand'
          /\ \A i \in DOMAIN executed' : executed'[i].by = cand' =>
               \E j \in DOMAIN history' : history'[j] = executed'[i].call
      BY <2>3, <2>4, <3>2, <3>3 DEF ToolInv
    <3>5. \A i \in DOMAIN executed' : "infra_mutation" \notin Capabilities[executed'[i].call]
      BY <2>6, <3>2, <3>3, AllowedCall DEF ToolInv, ToolsGoverned
    <3>6. ASSUME NEW i \in DOMAIN executed', NEW j \in DOMAIN executed', ChainIn(i, j)',
                 executed'[i].by = executed'[j].by
          PROVE  FALSE
      <4>1. i \in 1..k /\ i < j
        BY <3>1, <3>2, <3>6 DEF ChainIn
      <4>2. CASE j \in 1..k
        <5>1. ChainIn(i, j)
          BY <3>2, <3>6, <4>1, <4>2 DEF ChainIn
        <5>2. QED
          BY <3>2, <3>6, <4>1, <4>2, <5>1 DEF ToolInv, ToolsGoverned
      <4>3. CASE j = k + 1
        <5>1. executed[i].by = cand /\ "read_sensitive" \in Capabilities[executed[i].call]
          BY <2>3, <3>2, <3>6, <4>1, <4>3 DEF ChainIn
        <5>2. PICK m \in DOMAIN history : history[m] = executed[i].call
          BY <2>3, <3>2, <4>1, <5>1 DEF ToolInv
        <5>3. Capabilities[c] \intersect {"network_egress", "code_exec"} # {}
          BY <3>2, <3>6, <4>3 DEF ChainIn
        <5>4. QED
          BY <2>6, <5>1, <5>2, <5>3, AllowedCall
      <4>4. QED
        BY <3>2, <3>3, <4>2, <4>3
    <3>7. QED
      BY <3>4, <3>5, <3>6 DEF ToolInv, ToolsGoverned
  <2>7. QED
    BY <1>7, <2>1, <2>2, <2>5, <2>6 DEF RunTool
<1>8. CASE Egress
  BY <1>8, QuietStep DEF Quiet, Egress, End
<1>9. CASE Open
  BY <1>9, QuietStep DEF Quiet, Open
<1>10. CASE Chunk
  BY <1>10, QuietStep DEF Quiet, Chunk
<1>11. ASSUME NEW u \in 1..MaxUsed, EndStream(u)
       PROVE  ToolInv'
  BY <1>11, QuietStep DEF Quiet, EndStream, End
<1>12. CASE BreakStream
  BY <1>12, QuietStep DEF Quiet, BreakStream, End
<1>13. CASE Charge
  BY <1>13, QuietStep DEF Quiet, Charge
<1>14. CASE WriteAudit
  BY <1>14, QuietStep DEF Quiet, WriteAudit
<1>15. CASE Commit
  BY <1>15, QuietStep DEF Quiet, Commit
<1>16. CASE Alert
  BY <1>16, QuietStep DEF Quiet, Alert
<1>17. CASE Reply
  BY <1>17, QuietStep DEF Quiet, Reply
<1>18. CASE Abort
  BY <1>18, QuietStep DEF Quiet, Abort
<1>19. CASE UNCHANGED vars
  BY <1>19, QuietStep DEF Quiet, vars
<1>20. QED
  BY <1>1, <1>2, <1>3, <1>4, <1>5, <1>6, <1>7, <1>8, <1>9, <1>10, <1>11, <1>12, <1>13,
     <1>14, <1>15, <1>16, <1>17, <1>18, <1>19
  DEF Next, Handler, Prepare, Complete, StreamOut, Finish, Done

\* For any tools with any capabilities, the loop of a candidate executes no
\* chain from a sensitive read to the network or to code, and no destructive
\* call.
THEOREM ToolsGovernedHolds == Spec => []ToolsGoverned
<1>1. SafeInv => TypeInv /\ StageInv
  BY DEF SafeInv
<1>2. ToolInv => ToolsGoverned
  BY DEF ToolInv
<1>3. QED
  BY <1>1, <1>2, ToolInit, ToolStep, SafeInvHolds, PTL DEF Spec

-----------------------------------------------------------------------------
(* The number of provider calls.                                           *)

Rounds == MaxToolIterations + 1

\* Each candidate that failed was called at most Rounds times, the one in use
\* once for each of its tool rounds.
CallInv ==
    /\ pc \in {"call", "tools", "egress"} => cand \in 1..Len(candidates)
    /\ pc \in {"call", "tools"} => sent <= (cand - 1) * Rounds + iterations
    /\ pc \in {"open", "stream"} => Len(candidates) = 1
    /\ CallsBounded

LEMMA Bounded ==
  ASSUME NEW c \in Nat, NEW n \in Nat, NEW k \in Nat, 1 <= c, c <= n
  PROVE  /\ (c - 1) * k \in Nat /\ (c - 1) * k + k = c * k /\ c * k <= n * k
<1>1. (c - 1) * k + k = c * k
  OBVIOUS
<1>2. PICK d \in Nat : n = c + d
  BY n - c \in Nat, n = c + (n - c)
<1>3. n * k = c * k + d * k /\ d * k \in Nat /\ c * k \in Nat
  BY <1>2
<1>4. (c - 1) * k \in Nat
  OBVIOUS
<1>5. QED
  BY <1>1, <1>3, <1>4

LEMMA RoundsType == Rounds \in Nat \ {0} /\ MaxToolIterations \in Nat
BY GatewayBounds DEF Rounds

\* Nothing was sent yet: any candidates do.
LEMMA NoneSent == TypeInv /\ sent = 0 => CallsBounded
<1> SUFFICES ASSUME TypeInv, sent = 0
             PROVE  CallsBounded
  OBVIOUS
<1>1. PICK n \in Nat : n = Len(candidates)
  BY DEF TypeInv, TypeOK
<1>2. n * Rounds \in Nat
  BY <1>1, RoundsType
<1>3. QED
  BY <1>1, <1>2 DEF CallsBounded, Rounds

\* One more call of the candidate in use is within the bound.
LEMMA OneMore ==
  ASSUME TypeInv, CallInv, pc = "call"
  PROVE  /\ sent + 1 <= cand * Rounds
         /\ sent + 1 <= Len(candidates) * Rounds
         /\ cand * Rounds \in Nat
<1>1. PICK c \in Nat, n \in Nat, t \in 0..MaxToolIterations, s \in Nat :
        c = cand /\ n = Len(candidates) /\ t = iterations /\ s = sent
  BY DEF TypeInv, TypeOK
<1>2. 1 <= c /\ c <= n /\ s <= (c - 1) * Rounds + t
  BY <1>1 DEF CallInv
<1>3. (c - 1) * Rounds \in Nat /\ (c - 1) * Rounds + Rounds = c * Rounds /\ c * Rounds <= n * Rounds
  BY <1>2, Bounded, RoundsType
<1>4. c * Rounds \in Nat /\ n * Rounds \in Nat
  BY RoundsType
<1>5. t + 1 <= Rounds
  BY RoundsType DEF Rounds
<1>6. PICK x \in Nat, y \in Nat, z \in Nat, r \in Nat :
        x = (c - 1) * Rounds /\ y = c * Rounds /\ z = n * Rounds /\ r = Rounds
  BY <1>3, <1>4, RoundsType
<1>7. s + 1 <= y /\ s + 1 <= z
  BY <1>2, <1>3, <1>5, <1>6
<1>8. QED
  BY <1>1, <1>4, <1>6, <1>7

LEMMA CallInit == Init => CallInv
BY NoneSent, TypeInit DEF Init, CallInv

\* Nothing the invariant speaks of changes, and no candidate is called next.
Idle ==
    /\ UNCHANGED <<candidates, cand, iterations, sent>>
    /\ pc' \in {"call", "tools"} => pc \in {"call", "tools"}
    /\ pc' = "egress" => pc = "egress"
    /\ pc' \in {"open", "stream"} => pc \in {"open", "stream"}

LEMMA IdleStep == CallInv /\ Idle => CallInv'
BY DEF CallInv, Idle, CallsBounded

LEMMA CallStep == TypeInv /\ StageInv /\ CallInv /\ [Next]_vars => CallInv'
<1> SUFFICES ASSUME TypeInv, StageInv, CallInv, [Next]_vars
             PROVE  CallInv'
  OBVIOUS
<1>1. CASE Classify
  BY <1>1, IdleStep DEF Idle, Classify, End
<1>2. CASE Inspect
  BY <1>2, IdleStep DEF Idle, Inspect, End
<1>3. CASE InjectPrompt
  BY <1>3, IdleStep DEF Idle, InjectPrompt, End
<1>4. CASE Abac
  <2>1. sent' = 0
    BY <1>4 DEF Abac, StageInv, Before
  <2>2. TypeInv'
    BY TypeStep
  <2>3. CallsBounded'
    <3>1. PICK n \in Nat : n = Len(candidates')
      BY <2>2 DEF TypeInv, TypeOK
    <3>2. n * Rounds \in Nat
      BY <3>1, RoundsType
    <3>3. QED
      BY <2>1, <3>1, <3>2 DEF CallsBounded, Rounds
  <2>4. CASE pc' = "end"
    BY <2>3, <2>4 DEF CallInv
  <2>5. CASE cand' = 1 /\ iterations' = iterations /\ pc' = (IF stream THEN "open" ELSE "call")
             /\ \E m \in Models, g \in Groups :
                  candidates' \in IF stream THEN {<<m>>} ELSE Failover(m, g)
    <3>1. PICK m \in Models, g \in Groups :
                 candidates' \in IF stream THEN {<<m>>} ELSE Failover(m, g)
      BY <2>5
    <3>2. CASE stream
      <4>1. candidates' = <<m>>
        BY <3>1, <3>2
      <4>2. Len(candidates') = 1
        BY <4>1
      <4>3. QED
        BY <2>3, <2>5, <3>2, <4>2 DEF CallInv
    <3>3. CASE ~stream
      <4>1. candidates' # <<>>
        BY <3>1, <3>3, FailoverType
      <4>2. 1 \in 1..Len(candidates')
        BY <2>2, <4>1 DEF TypeInv, TypeOK
      <4>3. iterations \in Nat /\ 0 <= (1 - 1) * Rounds + iterations
        BY RoundsType DEF TypeInv, TypeOK
      <4>4. QED
        BY <2>1, <2>3, <2>5, <3>3, <4>2, <4>3 DEF CallInv
    <3>4. QED
      BY <3>2, <3>3
  <2>6. QED
    BY <1>4, <2>4, <2>5 DEF Abac, End
<1>5. CASE Fail
  <2>1. sent' = sent + 1 /\ candidates' = candidates
    BY <1>5 DEF Fail, Send
  <2>2. sent' <= cand * Rounds /\ CallsBounded'
    BY <1>5, <2>1, OneMore DEF Fail, CallsBounded, Rounds
  <2>3. CASE cand < Len(candidates) /\ cand' = cand + 1 /\ iterations' = 0 /\ pc' = pc
    <3>1. PICK c \in Nat, n \in Nat : c = cand /\ n = Len(candidates)
      <4>1. cand \in Nat /\ Len(candidates) \in Nat
        BY DEF TypeInv, TypeOK
      <4>2. QED
        BY <4>1
    <3>2. cand' \in 1..Len(candidates')
      BY <2>1, <2>3, <3>1
    <3>3. (cand' - 1) * Rounds + iterations' = cand * Rounds
      <4>1. cand' - 1 = c
        BY <2>3, <3>1
      <4>2. c * Rounds + 0 = c * Rounds
        BY RoundsType
      <4>3. QED
        BY <2>3, <3>1, <4>1, <4>2
    <3>4. QED
      BY <1>5, <2>2, <2>3, <3>2, <3>3 DEF CallInv, Fail
  <2>4. CASE pc' = "end"
    BY <2>2, <2>4 DEF CallInv
  <2>5. QED
    BY <1>5, <2>3, <2>4 DEF Fail, End
<1>6. ASSUME NEW u \in 0..MaxUsed, Respond(u)
      PROVE  CallInv'
  <2>1. sent' = sent + 1 /\ candidates' = candidates /\ cand' = cand
    BY <1>6 DEF Respond, Send
  <2>2. CallsBounded'
    BY <1>6, <2>1, OneMore DEF Respond, CallsBounded, Rounds
  <2>3. cand' \in 1..Len(candidates')
    BY <1>6, <2>1 DEF Respond, CallInv
  <2>4. CASE iterations' = iterations + 1 /\ pc' = "tools"
    <3>1. PICK c \in Nat, t \in Nat, s \in Nat : c = cand /\ t = iterations /\ s = sent
      BY GatewayBounds DEF TypeInv, TypeOK
    <3>2. PICK x \in Int : x = (c - 1) * Rounds
      BY RoundsType
    <3>3. s <= x + t
      BY <1>6, <3>1, <3>2 DEF Respond, CallInv
    <3>4. sent' <= (cand' - 1) * Rounds + iterations'
      BY <2>1, <2>4, <3>1, <3>2, <3>3
    <3>5. QED
      BY <2>2, <2>3, <2>4, <3>4 DEF CallInv
  <2>5. CASE pc' = "egress"
    BY <2>2, <2>3, <2>5 DEF CallInv
  <2>6. QED
    BY <1>6, <2>4, <2>5 DEF Respond
<1>7. CASE RunTool
  BY <1>7, IdleStep DEF Idle, RunTool
<1>8. CASE Egress
  BY <1>8, IdleStep DEF Idle, Egress, End
<1>9. CASE Open
  <2>1. sent' = 1 /\ Len(candidates') = 1
    BY <1>9 DEF Open, Send, CallInv, StageInv, Before
  <2>2. CallsBounded'
    BY <2>1, RoundsType DEF CallsBounded, Rounds
  <2>3. QED
    BY <1>9, <2>1, <2>2 DEF Open, CallInv
<1>10. CASE Chunk
  BY <1>10, IdleStep DEF Idle, Chunk
<1>11. ASSUME NEW u \in 1..MaxUsed, EndStream(u)
       PROVE  CallInv'
  BY <1>11, IdleStep DEF Idle, EndStream, End
<1>12. CASE BreakStream
  BY <1>12, IdleStep DEF Idle, BreakStream, End
<1>13. CASE Charge
  BY <1>13, IdleStep DEF Idle, Charge
<1>14. CASE WriteAudit
  BY <1>14, IdleStep DEF Idle, WriteAudit
<1>15. CASE Commit
  BY <1>15, IdleStep DEF Idle, Commit
<1>16. CASE Alert
  BY <1>16, IdleStep DEF Idle, Alert
<1>17. CASE Reply
  BY <1>17, IdleStep DEF Idle, Reply
<1>18. CASE Abort
  BY <1>18, IdleStep DEF Idle, Abort
<1>19. CASE UNCHANGED vars
  BY <1>19, IdleStep DEF Idle, vars
<1>20. QED
  BY <1>1, <1>2, <1>3, <1>4, <1>5, <1>6, <1>7, <1>8, <1>9, <1>10, <1>11, <1>12, <1>13,
     <1>14, <1>15, <1>16, <1>17, <1>18, <1>19
  DEF Next, Handler, Prepare, Complete, StreamOut, Finish, Done

\* Failover and the tool loop never multiply the provider calls of a request
\* beyond one per candidate and round.
THEOREM CallsBoundedHolds == Spec => []CallsBounded
<1>1. SafeInv => TypeInv /\ StageInv
  BY DEF SafeInv
<1>2. CallInv => CallsBounded
  BY DEF CallInv
<1>3. QED
  BY <1>1, <1>2, CallInit, CallStep, SafeInvHolds, PTL DEF Spec

\* Both together: no candidate carries out an attack chain, however often
\* failover and the tool loop call.
THEOREM ToolLoopHolds == Spec => []ToolLoopRight
<1>1. ToolsGoverned /\ CallsBounded => ToolLoopRight
  BY DEF ToolLoopRight
<1>2. QED
  BY <1>1, ToolsGovernedHolds, CallsBoundedHolds, PTL

=============================================================================
