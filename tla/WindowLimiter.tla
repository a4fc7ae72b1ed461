---------------------------- MODULE WindowLimiter ----------------------------
(***************************************************************************)
(* What a fixed-window limiter promises, with no Redis in sight: between   *)
(* two resets of a bucket at most Limit[b] requests pass it, plus those    *)
(* that are let through because the counter could not be consulted.        *)
(* RateLimit.tla implements this specification (see RateLimit!Limiter).    *)
(***************************************************************************)
EXTENDS Integers

CONSTANTS
    Buckets,    \* the counters: one per caller and window length
    Limit       \* requests a bucket lets through per window

VARIABLES
    passed,     \* passed[b]: requests let through since b was last reset
    open        \* open[b]: those of them that passed without being counted

vars == <<passed, open>>

Init ==
    /\ passed = [b \in Buckets |-> 0]
    /\ open = [b \in Buckets |-> 0]

\* A counted request passes only while the bucket has room.
Pass(b) ==
    /\ passed[b] - open[b] < Limit[b]
    /\ passed' = [passed EXCEPT ![b] = @ + 1]
    /\ UNCHANGED open

\* The limiter fails open: the request passes although nothing counted it.
FailOpen(b) ==
    /\ passed' = [passed EXCEPT ![b] = @ + 1]
    /\ open' = [open EXCEPT ![b] = @ + 1]

\* The windows of the buckets in S end together.
Reset(S) ==
    /\ passed' = [b \in Buckets |-> IF b \in S THEN 0 ELSE passed[b]]
    /\ open' = [b \in Buckets |-> IF b \in S THEN 0 ELSE open[b]]

Next ==
    \/ \E b \in Buckets : Pass(b) \/ FailOpen(b)
    \/ \E S \in SUBSET Buckets : Reset(S)

Spec == Init /\ [][Next]_vars

=============================================================================
