---------------------------- MODULE MCGatewayChat ----------------------------
(* Small instances of GatewayChat for TLC.                                  *)
EXTENDS GatewayChat

CONSTANTS m1, m2, list, read, post, drop, grant

MCGroups == {<<>>, <<m2, m1, m2>>}

MCCalls == {list, read, post, drop, grant}
MCCapabilities ==
    list :> {"infra_discovery"} @@ read :> {"read_sensitive"} @@ post :> {"network_egress"}
    @@ drop :> {"infra_mutation"} @@ grant :> {"iam_privilege"}

\* Lists of one call, and one that holds a whole chain.
MCCallLists == {<<list>>, <<read, list, post>>, <<grant>>}
=============================================================================
