------------------------------ MODULE MCRouting ------------------------------
(* A small instance of Routing for TLC: the pattern of provider a matches the   *)
(* name c as well, and a and b are members of the group in either order.        *)
EXTENDS Routing, TLC
CONSTANTS r1, r2, k1, k2, a, b, c, fallback, x1

MCLikes == {<<n, n>> : n \in Names} \cup {<<a, c>>}
MCWithin == {<<n, n>> : n \in Names}
MCAsks == {a, GroupName, "auto"}
MCDowngrade == a :> b
MCTarget == x1 :> b
MCRules == <<x1>>
Member(m, p) == [model |-> m, priority |-> p, weight |-> 1]
MCMemberLists == {<<Member(a, 1), Member(b, 2)>>}
MCFirstRows == 1 :> [name |-> a, active |-> TRUE, total |-> 1, share |-> 0]
            @@ 2 :> [name |-> b, active |-> TRUE, total |-> 2, share |-> 0]
MCFirstKeys == x1 :> {k1}
MCSymmetry == Permutations(Requests) \cup Permutations(Admins)
=============================================================================
