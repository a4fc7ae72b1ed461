----------------------------- MODULE MCRateLimit -----------------------------
(* Small instances of RateLimit for TLC.                                    *)
EXTENDS RateLimit, TLC

CONSTANTS w1, w2

\* A key has a request and a token limit before its tenant's; a request with
\* a JWT has its tenant's token limit only; the address of a login has a
\* counter of its own, here of limit 0.
MCRateBuckets == {"key_rpm", "tenant_rpm", "login"}
MCTokenBuckets == {"key_tpm", "tenant_tpm"}
MCChain == "key" :> <<"key_rpm", "tenant_rpm">> @@ "jwt" :> <<>> @@ "login" :> <<"login">>
MCScopes ==
    "key" :> << <<"key_tpm">>, <<"tenant_tpm">> >> @@ "jwt" :> << <<"tenant_tpm">> >> @@ "login" :> <<>>
MCLimits ==
    "key_rpm" :> 1 @@ "tenant_rpm" :> 1 @@ "login" :> 0 @@
    "key_tpm" :> 1 @@ "tenant_tpm" :> 2
MCWindows ==
    "key_rpm" :> 2 @@ "tenant_rpm" :> 1 @@ "login" :> 1 @@
    "key_tpm" :> 1 @@ "tenant_tpm" :> 1
=============================================================================
