------------------------------ MODULE RateLimit ------------------------------
(***************************************************************************)
(* The Redis fixed-window limiter of backend/app/core/rate_limit.py and    *)
(* the admission sequence of _handle_chat_completions that drives it.      *)
(*                                                                         *)
(* A worker is one request in flight in some gateway process.  Redis       *)
(* commands are atomic; everything between two commands interleaves with   *)
(* the other workers, with the clock that expires keys, with Redis errors  *)
(* and with the death of the worker.                                       *)
(***************************************************************************)
EXTENDS Integers, Sequences, FiniteSets

CONSTANTS
    Workers,
    Kinds,          \* kinds of request: chat with an API key, chat with a JWT, login
    RateBuckets,    \* request counters (rpm, rph, rpd of a key, of a tenant, of an address)
    TokenBuckets,   \* token counters (tpm, tph, tpd of a key, of a tenant)
    Chain,          \* Chain[k]: the request counters a request of kind k must pass, in order
    Scopes,         \* Scopes[k]: the token counters, one sequence per key or tenant
    Limit,          \* the configured limit of each bucket
    Window,         \* the length of each bucket's window, in ticks
    Estimates,      \* what a request may be estimated to cost (prompt words + max_tokens)
    MaxUsed,        \* bound on the tokens one answer is billed
    MaxFaults,      \* bound on the Redis errors and worker deaths of a behaviour
    MaxHits         \* bound: no request starts while a counter on its way is that high

Buckets == RateBuckets \union TokenBuckets

RangeOf(s) == {s[i] : i \in DOMAIN s}

ASSUME WorkersFinite == IsFiniteSet(Workers)
ASSUME KindsNonempty == Kinds # {}
ASSUME BucketsDisjoint == RateBuckets \intersect TokenBuckets = {}
ASSUME ChainAssumption == Chain \in [Kinds -> Seq(RateBuckets)]
ASSUME ScopesAssumption ==
    /\ Scopes \in [Kinds -> Seq(Seq(TokenBuckets))]
    /\ \A k \in Kinds : \A s \in DOMAIN Scopes[k] : Scopes[k][s] # <<>>
\* A key's counters and its tenant's have different Redis keys.
ASSUME ScopesDisjoint ==
    \A k \in Kinds : \A s, t \in DOMAIN Scopes[k] :
        s # t => RangeOf(Scopes[k][s]) \intersect RangeOf(Scopes[k][t]) = {}
ASSUME LimitAssumption == Limit \in [Buckets -> Nat]
ASSUME WindowAssumption == Window \in [Buckets -> Nat \ {0}]
ASSUME BoundsAssumption ==
    /\ Estimates \subseteq Nat
    /\ MaxUsed \in Nat
    /\ MaxFaults \in Nat
    /\ MaxHits \in Nat

VARIABLES
    count,      \* count[b]: value of the Redis key, 0 when there is no key
    ttl,        \* ttl[b]: ticks until the key expires, 0 when no expiry is set
    at,         \* at[w]: the worker's program counter and the request's locals
    fresh,      \* fresh[w]: keys its INCRBY pipeline created, still without expiry
    client,     \* client[w]: the process's _redis_client / _redis_unavailable
    faults,     \* faults so far
    passed,     \* history: requests let through by bucket b since its key was created
    open        \* history: those let through by a Redis error

redis == <<count, ttl>>
history == <<passed, open>>
vars == <<count, ttl, at, fresh, client, faults, passed, open>>

-----------------------------------------------------------------------------
(* Program points.                                                         *)

PCs == {"idle", "incr", "expire", "ttl", "get", "tokenttl", "upstream",
        "charge", "chargeexpire"}

AnyKind == CHOOSE k \in Kinds : TRUE

\* kind: what is served; est: estimated_total; used: response.usage.total_tokens
Idle == [pc |-> "idle", i |-> 0, j |-> 0, kind |-> AnyKind, est |-> 0, used |-> 0]

Point(r, pc, i, j) == [r EXCEPT !.pc = pc, !.i = i, !.j = j]

\* Before the first check of token scope s, or past the last scope.
ScopePoint(r, s) ==
    IF s <= Len(Scopes[r.kind]) THEN Point(r, "get", s, 1) ELSE Point(r, "upstream", 0, 0)

\* Before the i-th check of token scope s, or at the next scope.
TokenPoint(r, s, i) ==
    IF i <= Len(Scopes[r.kind][s]) THEN Point(r, "get", s, i) ELSE ScopePoint(r, s + 1)

\* Before the i-th request counter, or at the first token check.
RatePoint(r, i) ==
    IF i <= Len(Chain[r.kind]) THEN Point(r, "incr", i, 0) ELSE ScopePoint(r, 1)

\* Before billing scope s, or done.
ChargePoint(r, s) ==
    IF s <= Len(Scopes[r.kind]) THEN Point(r, "charge", s, 0) ELSE Idle

RateBucketOf(r) == Chain[r.kind][r.i]
TokenBucketOf(r) == Scopes[r.kind][r.i][r.j]
ScopeOf(r) == RangeOf(Scopes[r.kind][r.i])

GoTo(w, r) == at' = [at EXCEPT ![w] = r]
Fault == faults < MaxFaults /\ faults' = faults + 1

-----------------------------------------------------------------------------
Init ==
    /\ count = [b \in Buckets |-> 0]
    /\ ttl = [b \in Buckets |-> 0]
    /\ at = [w \in Workers |-> Idle]
    /\ fresh = [w \in Workers |-> {}]
    /\ client = [w \in Workers |-> "none"]
    /\ faults = 0
    /\ passed = [b \in Buckets |-> 0]
    /\ open = [b \in Buckets |-> 0]

\* A request arrives.  The first limiter call connects to Redis and pings
\* it; a failed ping latches _redis_unavailable and from then on the process
\* checks and bills nothing.
Start(w, k, e) ==
    /\ at[w].pc = "idle"
    /\ \A i \in DOMAIN Chain[k] : count[Chain[k][i]] < MaxHits
    /\ LET r == [Idle EXCEPT !.kind = k, !.est = e]
       IN  \/ /\ client[w] # "disabled"
              /\ client' = [client EXCEPT ![w] = "up"]
              /\ GoTo(w, RatePoint(r, 1))
              /\ UNCHANGED faults
           \/ /\ client[w] = "none"
              /\ Fault
              /\ client' = [client EXCEPT ![w] = "disabled"]
              /\ GoTo(w, Point(r, "upstream", 0, 0))
           \/ /\ client[w] = "disabled"
              /\ GoTo(w, Point(r, "upstream", 0, 0))
              /\ UNCHANGED <<client, faults>>
    /\ UNCHANGED <<redis, fresh, history>>

-----------------------------------------------------------------------------
(* check_rate_limit and check_ai_rate_limits                               *)

\* The test on the answer of INCR, and (for mutation) an off-by-one of it.
OverByOne(b, n) == n > Limit[b] + 1
Over(b, n) == n > Limit[b]

LetThrough(w) == passed' = [passed EXCEPT ![RateBucketOf(at[w])] = @ + 1]

\* client.incr(key) and the two tests on its answer.
Incr(w) ==
    /\ at[w].pc = "incr"
    /\ LET b == RateBucketOf(at[w])
           n == count[b] + 1
       IN  /\ count' = [count EXCEPT ![b] = n]
           /\ \/ /\ n = 1
                 /\ GoTo(w, [at[w] EXCEPT !.pc = "expire"])
                 /\ UNCHANGED passed
              \/ /\ n # 1 /\ Over(b, n)
                 /\ GoTo(w, [at[w] EXCEPT !.pc = "ttl"])
                 /\ UNCHANGED passed
              \/ /\ n # 1 /\ ~Over(b, n)
                 /\ GoTo(w, RatePoint(at[w], at[w].i + 1))
                 /\ LetThrough(w)
    /\ UNCHANGED <<ttl, fresh, client, faults, open>>

\* client.expire(key, window_seconds), reached only by the request that
\* created the key; a limit of 0 then rejects even that request.
Expire(w) ==
    /\ at[w].pc = "expire"
    /\ LET b == RateBucketOf(at[w])
       IN  /\ ttl' = [ttl EXCEPT ![b] = Window[b]]
           /\ \/ /\ Over(b, 1)
                 /\ GoTo(w, [at[w] EXCEPT !.pc = "ttl"])
                 /\ UNCHANGED passed
              \/ /\ ~Over(b, 1)
                 /\ GoTo(w, RatePoint(at[w], at[w].i + 1))
                 /\ LetThrough(w)
    /\ UNCHANGED <<count, fresh, client, faults, open>>

\* client.ttl(key) gives the Retry-After of the 429; the request is rejected
\* and what it has already consumed from earlier counters stays consumed.
RejectRate(w) ==
    /\ at[w].pc = "ttl"
    /\ GoTo(w, Idle)
    /\ UNCHANGED <<redis, fresh, client, faults, history>>

\* RedisError in any of the three commands: the request is allowed.  A lost
\* answer to INCR leaves the increment in place or not.
RateError(w) ==
    /\ at[w].pc \in {"incr", "expire", "ttl"}
    /\ Fault
    /\ GoTo(w, RatePoint(at[w], at[w].i + 1))
    /\ LET b == RateBucketOf(at[w])
       IN  /\ \/ UNCHANGED count
              \/ /\ at[w].pc = "incr"
                 /\ count' = [count EXCEPT ![b] = @ + 1]
           /\ open' = [open EXCEPT ![b] = @ + 1]
    /\ LetThrough(w)
    /\ UNCHANGED <<ttl, fresh, client>>

-----------------------------------------------------------------------------
(* check_ai_token_limits: reads only                                       *)

\* A key that does not exist is never over budget, whatever the estimate.
\* (For mutation: a test that forgets what was already used.)
OverBudgetAlone(b, est) == count[b] > 0 /\ est > Limit[b]
OverBudget(b, est) == count[b] > 0 /\ count[b] + est > Limit[b]

CheckTokens(w) ==
    /\ at[w].pc = "get"
    /\ LET b == TokenBucketOf(at[w])
       IN  IF OverBudget(b, at[w].est)
           THEN GoTo(w, [at[w] EXCEPT !.pc = "tokenttl"])
           ELSE GoTo(w, TokenPoint(at[w], at[w].i, at[w].j + 1))
    /\ UNCHANGED <<redis, fresh, client, faults, history>>

RejectTokens(w) ==
    /\ at[w].pc = "tokenttl"
    /\ GoTo(w, Idle)
    /\ UNCHANGED <<redis, fresh, client, faults, history>>

\* One RedisError abandons the remaining windows of the scope.
TokenError(w) ==
    /\ at[w].pc \in {"get", "tokenttl"}
    /\ Fault
    /\ GoTo(w, ScopePoint(at[w], at[w].i + 1))
    /\ UNCHANGED <<redis, fresh, client, history>>

-----------------------------------------------------------------------------
(* The answer, and increment_ai_token_usage                                *)

\* The request is refused further down, or its upstream fails: no billing.
Undelivered(w) ==
    /\ at[w].pc = "upstream"
    /\ GoTo(w, Idle)
    /\ UNCHANGED <<redis, fresh, client, faults, history>>

\* The answer reports u tokens; 0 (no "usage" in it) bills nothing.
Deliver(w, u) ==
    /\ at[w].pc = "upstream"
    /\ GoTo(w, IF u = 0 \/ client[w] = "disabled"
               THEN Idle
               ELSE ChargePoint([at[w] EXCEPT !.used = u], 1))
    /\ UNCHANGED <<redis, fresh, client, faults, history>>

\* The INCRBY pipeline: one MULTI/EXEC over the windows of the scope.
ApplyCharge(w) ==
    count' = [b \in Buckets |-> IF b \in ScopeOf(at[w]) THEN count[b] + at[w].used ELSE count[b]]

\* The keys whose answer equals the increment.  (For mutation: none.)
CreatedNone(w) == {}
Created(w) == {b \in ScopeOf(at[w]) : count'[b] = at[w].used}

Charge(w) ==
    /\ at[w].pc = "charge"
    /\ ApplyCharge(w)
    /\ fresh' = [fresh EXCEPT ![w] = Created(w)]
    /\ GoTo(w, [at[w] EXCEPT !.pc = "chargeexpire"])
    /\ UNCHANGED <<ttl, client, faults, history>>

\* The EXPIRE pipeline over the keys that INCRBY created.
ChargeExpire(w) ==
    /\ at[w].pc = "chargeexpire"
    /\ ttl' = [b \in Buckets |-> IF b \in fresh[w] THEN Window[b] ELSE ttl[b]]
    /\ fresh' = [fresh EXCEPT ![w] = {}]
    /\ GoTo(w, ChargePoint(at[w], at[w].i + 1))
    /\ UNCHANGED <<count, client, faults, history>>

\* RedisError in either pipeline is logged and billing goes on with the next
\* scope; a lost answer leaves the increments in place or not.
ChargeError(w) ==
    /\ at[w].pc \in {"charge", "chargeexpire"}
    /\ Fault
    /\ \/ UNCHANGED count
       \/ at[w].pc = "charge" /\ ApplyCharge(w)
    /\ fresh' = [fresh EXCEPT ![w] = {}]
    /\ GoTo(w, ChargePoint(at[w], at[w].i + 1))
    /\ UNCHANGED <<ttl, client, history>>

-----------------------------------------------------------------------------
(* The environment                                                         *)

\* The process dies and is restarted with no Redis client.
Crash(w) ==
    /\ at[w].pc # "idle"
    /\ Fault
    /\ GoTo(w, Idle)
    /\ fresh' = [fresh EXCEPT ![w] = {}]
    /\ client' = [client EXCEPT ![w] = "none"]
    /\ UNCHANGED <<redis, history>>

\* Time passes; Redis deletes the keys whose time has come.
Tick ==
    /\ \E b \in Buckets : ttl[b] > 0
    /\ LET gone == {b \in Buckets : ttl[b] = 1}
           Drop(f) == [b \in Buckets |-> IF b \in gone THEN 0 ELSE f[b]]
       IN  /\ ttl' = [b \in Buckets |-> IF ttl[b] > 0 THEN ttl[b] - 1 ELSE 0]
           /\ count' = Drop(count)
           /\ passed' = Drop(passed)
           /\ open' = Drop(open)
    /\ UNCHANGED <<at, fresh, client, faults>>

Serve(w) ==
    \/ Incr(w) \/ Expire(w) \/ RejectRate(w)
    \/ CheckTokens(w) \/ RejectTokens(w)
    \/ Undelivered(w) \/ (\E u \in 0..MaxUsed : Deliver(w, u))
    \/ Charge(w) \/ ChargeExpire(w)

Fail(w) == RateError(w) \/ TokenError(w) \/ ChargeError(w) \/ Crash(w)

Next ==
    \/ \E w \in Workers :
          \/ \E k \in Kinds, e \in Estimates : Start(w, k, e)
          \/ Serve(w)
          \/ Fail(w)
    \/ Tick

Spec == Init /\ [][Next]_vars

-----------------------------------------------------------------------------
(* Properties                                                              *)

Locals == [pc : PCs, i : Nat, j : Nat, kind : Kinds, est : Nat, used : 0..MaxUsed]

TypeOK ==
    /\ count \in [Buckets -> Nat]
    /\ ttl \in [Buckets -> Nat]
    /\ at \in [Workers -> Locals]
    /\ fresh \in [Workers -> SUBSET TokenBuckets]
    /\ client \in [Workers -> {"none", "up", "disabled"}]
    /\ faults \in 0..MaxFaults
    /\ passed \in [Buckets -> Nat]
    /\ open \in [Buckets -> Nat]

\* Within one window of a counter no more requests pass it than its limit,
\* however many workers race through INCR and EXPIRE; only a Redis error may
\* let one more through.  (check_rate_limit)
AdmissionBound ==
    \A b \in RateBuckets : passed[b] <= Limit[b] + open[b]

\* A worker's position names a counter that exists.
WellPlaced(r) ==
    /\ r.pc \in {"incr", "expire", "ttl"} => r.i \in DOMAIN Chain[r.kind]
    /\ r.pc \in {"get", "tokenttl"} =>
          r.i \in DOMAIN Scopes[r.kind] /\ r.j \in DOMAIN Scopes[r.kind][r.i]
    /\ r.pc \in {"charge", "chargeexpire"} => r.i \in DOMAIN Scopes[r.kind]

\* The inductive form of AdmissionBound: the request that created the key is
\* counted by Redis before it is let through, it is alone in having to set
\* the expiry, and until it has done so the key cannot expire.
SettingExpiry(w, b) == at[w].pc = "expire" /\ RateBucketOf(at[w]) = b

CountedFirst(b) ==
    /\ count[b] = 0 => ttl[b] = 0
    /\ open[b] <= passed[b]
    /\ passed[b] - open[b] <= count[b]
    /\ passed[b] - open[b] <= Limit[b]
    /\ \A w \in Workers : SettingExpiry(w, b) =>
          /\ ttl[b] = 0
          /\ passed[b] - open[b] < count[b]
          /\ Limit[b] > 0 => passed[b] - open[b] < Limit[b]
          /\ \A v \in Workers : SettingExpiry(v, b) => v = w

AdmissionInv ==
    /\ TypeOK
    /\ \A w \in Workers : WellPlaced(at[w])
    /\ \A b \in RateBuckets : CountedFirst(b)

\* The workers that are about to set the expiry of b.
Expiring(b) ==
    {w \in Workers : \/ at[w].pc = "expire" /\ RateBucketOf(at[w]) = b
                     \/ at[w].pc = "chargeexpire" /\ b \in fresh[w]}

\* As long as nothing fails, every counter in Redis has an expiry, or exactly
\* one worker that is about to set it: the one whose INCR or INCRBY created
\* the key.  (check_rate_limit, increment_ai_token_usage)
EveryCounterExpires ==
    faults = 0 =>
        \A b \in Buckets :
            /\ count[b] > 0 => ttl[b] > 0 \/ Expiring(b) # {}
            /\ \A v, w \in Expiring(b) : v = w
            /\ Expiring(b) # {} => ttl[b] = 0

\* Token budgets are checked before the upstream call and billed after it, so
\* concurrent requests overshoot them; but by no more than one answer for
\* each request that can be in flight, and one for each check a Redis error
\* skipped.  (check_ai_token_limits, increment_ai_token_usage)
BudgetOvershoot ==
    \A b \in TokenBuckets :
        count[b] <= Limit[b] + (Cardinality(Workers) + faults) * MaxUsed

\* The limiter implements the abstract fixed-window limiter.
Limiter == INSTANCE WindowLimiter WITH
    Buckets <- RateBuckets,
    Limit <- [b \in RateBuckets |-> Limit[b]],
    passed <- [b \in RateBuckets |-> passed[b]],
    open <- [b \in RateBuckets |-> open[b]]

LimiterSpec == Limiter!Spec

=============================================================================
