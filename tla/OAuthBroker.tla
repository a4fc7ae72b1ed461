----------------------------- MODULE OAuthBroker -----------------------------
(***************************************************************************)
(* The OAuth tokens of one MCP server: calls that need an access token,    *)
(* refreshes, edits and deletions of the credential, which is kept in a    *)
(* row and, with Vault enabled, two of its secrets beside it               *)
(* (backend/app/services/mcp_oauth_broker_service.py, secrets_service.py,  *)
(* the oauth routes of api/v1/governance.py).                              *)
(*                                                                         *)
(* A token is the number of the grant it came with.  Every access to Vault *)
(* and to the identity provider is awaited; without Vault the row is read  *)
(* and written in one step each.  The credential is enabled.  It is granted *)
(* for the client's own secret, which nothing changes and which is left    *)
(* out, or for a refresh token that lasts or rotates with each grant.      *)
(***************************************************************************)
EXTENDS Naturals, FiniteSets, Sequences

CONSTANTS
    Actors,         \* requests, each of which does one operation
    NoToken,
    Lifetime,       \* of an access token, less the skew
    MaxTime, MaxFaults  \* bounds

ASSUME BrokerAssumption ==
    /\ IsFiniteSet(Actors) /\ Lifetime \in Nat \ {0} /\ MaxTime \in Nat /\ MaxFaults \in Nat
    /\ NoToken \notin Nat

VARIABLES
    now,
    setting,        \* the grant type, and whether Vault is enabled
    grants,         \* grants[t]: when the access token of grant t expires
    live,           \* the refresh tokens the identity provider accepts
    row,            \* the row of McpOAuthCredential
    vault,          \* the secrets in Vault
    at,             \* the requests' program counters and locals
    crossed,        \* which operations overlapped: only calls and refreshes, or edits
    swallowed,      \* a call went on after Vault had not taken its tokens
    faults

store == <<row, vault>>
idp == <<grants, live>>
history == <<crossed, swallowed>>
vars == <<now, setting, idp, store, at, history, faults>>

Operations == {"call", "refresh", "save", "delete"}
Edits == {"save", "delete"}
Secrets == {"refresh", "access"}
Tokens == Nat \cup {NoToken}
None == [s \in Secrets |-> NoToken]
Idle == [pc |-> "idle", op |-> "call", id |-> 0, expires |-> 0,
         held |-> None, loaded |-> None, cols |-> None]
NoRow == [id |-> 0, expires |-> 0, cols |-> None]

\* The first grant is saved; Vault may have been enabled since.
Init ==
    /\ now = 0
    /\ setting \in [grant : {"client", "lasting", "rotating"}, vaulted : BOOLEAN]
    /\ grants = <<Lifetime>> /\ live = {1}
    /\ LET tokens == [s \in Secrets |-> 1]
       IN  \E inVault \in {FALSE, setting.vaulted} :
             /\ row = [id |-> 1, expires |-> Lifetime, cols |-> IF inVault THEN None ELSE tokens]
             /\ vault = IF inVault THEN tokens ELSE None
    /\ at = [a \in Actors |-> Idle]
    /\ crossed = {} /\ swallowed = FALSE /\ faults = 0

Busy == {a \in Actors : at[a].pc \notin {"idle", "done"}}
Goto(a, pc) == at' = [at EXCEPT ![a].pc = pc]
Finish(a) == at' = [at EXCEPT ![a] = [Idle EXCEPT !.pc = "done"]]
Fault == faults < MaxFaults /\ faults' = faults + 1

\* get_mcp_oauth_secret
Secret(s, column) == IF setting.vaulted /\ vault[s] # NoToken THEN vault[s] ELSE column

----------------------------------------------------------------------------
(* load_oauth_state and _hydrate_secrets.                                   *)

Begin(a, op) ==
    /\ at[a].pc = "idle"
    /\ crossed' = crossed \cup
          IF Busy = {} THEN {}
          ELSE IF op \in Edits \/ \E b \in Busy : at[b].op \in Edits THEN {"edits"} ELSE {"calls"}
    /\ IF row.id = 0
       THEN IF op = "save" THEN at' = [at EXCEPT ![a] = [Idle EXCEPT !.pc = "decide", !.op = op]]
            ELSE Finish(a)
       ELSE at' = [at EXCEPT ![a] =
              [pc |-> IF op = "delete" THEN (IF setting.vaulted THEN "wiperefresh" ELSE "erase")
                      ELSE IF setting.vaulted THEN "readrefresh" ELSE "decide",
               op |-> op, id |-> row.id, expires |-> row.expires,
               held |-> row.cols, loaded |-> row.cols, cols |-> row.cols]]
    /\ UNCHANGED <<now, setting, idp, store, swallowed, faults>>

ReadRefresh(a) ==
    /\ at[a].pc = "readrefresh"
    /\ at' = [at EXCEPT ![a].pc = "readaccess",
                        ![a].held["refresh"] = Secret("refresh", at[a].loaded["refresh"])]
    /\ UNCHANGED <<now, setting, idp, store, history, faults>>

ReadAccess(a) ==
    /\ at[a].pc = "readaccess"
    /\ at' = [at EXCEPT ![a].pc = "decide",
                        ![a].held["access"] = Secret("access", at[a].loaded["access"])]
    /\ UNCHANGED <<now, setting, idp, store, history, faults>>

\* token_is_fresh, resolve_access_token_local
Fresh(a) == at[a].held["access"] # NoToken /\ at[a].expires > now

UseStored(a) ==
    /\ at[a].pc = "decide" /\ at[a].op = "call" /\ Fresh(a)
    /\ Finish(a)
    /\ UNCHANGED <<now, setting, idp, store, history, faults>>

----------------------------------------------------------------------------
(* fetch_and_apply_token.                                                   *)

Asks(a) ==
    at[a].pc = "decide" /\ (at[a].op = "refresh" \/ (at[a].op = "call" /\ ~Fresh(a)))
Accepted(a) == setting.grant = "client" \/ at[a].held["refresh"] \in live
Next1 == Len(grants) + 1

\* The provider answers, with a new refresh token in place of the old or
\* without one.
Rotates == setting.grant = "rotating"
Issue(a) ==
    /\ Asks(a) /\ Accepted(a)
    /\ grants' = Append(grants, now + Lifetime)
    /\ live' = IF Rotates THEN (live \ {at[a].held["refresh"]}) \cup {Next1} ELSE live

\* apply_token_grant.  (For mutation: without "or state.refresh_token".)
ApplyOnly(a) == [access |-> Next1, refresh |-> IF Rotates THEN Next1 ELSE NoToken]
Apply(a) == [access |-> Next1, refresh |-> IF Rotates THEN Next1 ELSE at[a].held["refresh"]]

Fetch(a) ==
    /\ Issue(a)
    /\ at' = [at EXCEPT ![a].pc = "select", ![a].held = Apply(a), ![a].expires = now + Lifetime]
    /\ UNCHANGED <<now, setting, store, history, faults>>

\* A call goes on with the token it has, a refresh is answered 502.
Refused(a) ==
    /\ Asks(a) /\ ~Accepted(a)
    /\ Finish(a)
    /\ UNCHANGED <<now, setting, idp, store, history, faults>>

FetchLost(a) ==
    /\ Issue(a)
    /\ Fault /\ Finish(a)
    /\ UNCHANGED <<now, setting, store, history>>

----------------------------------------------------------------------------
(* persist_token_state and save_oauth_state.                                *)

NewId == CHOOSE i \in 2..(Cardinality(Actors) + 2) : \A a \in Actors : at[a].id # i

\* The values that the assignments to the row's columns keep until the commit.
Assigned(a) == IF setting.vaulted THEN at[a].cols ELSE at[a].held
Write == IF setting.vaulted THEN "writerefresh" ELSE "commit"

Select(a) ==
    /\ at[a].pc = "select"
    /\ IF row.id = 0 THEN Finish(a)
       ELSE at' = [at EXCEPT ![a].pc = Write, ![a].id = row.id,
                             ![a].loaded = row.cols, ![a].cols = row.cols]
    /\ UNCHANGED <<now, setting, idp, store, history, faults>>

\* An edit keeps the tokens it has read, or brings a new refresh token.
Enter(a, replace) ==
    /\ at[a].pc = "decide" /\ at[a].op = "save"
    /\ replace => setting.grant # "client"
    /\ IF replace THEN grants' = Append(grants, 0) /\ live' = live \cup {Next1}
       ELSE UNCHANGED idp
    /\ at' = [at EXCEPT ![a].pc = Write, ![a].held["refresh"] = IF replace THEN Next1 ELSE @]
    /\ UNCHANGED <<now, setting, store, history, faults>>

\* set_mcp_oauth_secret
WriteSecret(a, s, next) ==
    /\ vault' = [vault EXCEPT ![s] = at[a].held[s]]
    /\ at' = [at EXCEPT ![a].pc = next, ![a].cols[s] = NoToken]
    /\ UNCHANGED <<now, setting, idp, row, history, faults>>
WriteRefresh(a) == at[a].pc = "writerefresh" /\ WriteSecret(a, "refresh", "writeaccess")
WriteAccess(a) == at[a].pc = "writeaccess" /\ WriteSecret(a, "access", "commit")

\* The update of the columns that changed since they were read; nothing if the
\* row is gone (StaleDataError) or, for a new one, is there (IntegrityError).
\* (For mutation: with the expiry counted from the commit.)
CommitWith(a, expires) ==
    /\ at[a].pc = "commit"
    /\ row' =
         IF at[a].id = 0 /\ row.id = 0
         THEN [id |-> NewId, expires |-> 0, cols |-> Assigned(a)]
         ELSE IF at[a].id = 0 \/ at[a].id # row.id THEN row
         ELSE [row EXCEPT
                 !.expires = expires,
                 !.cols = [s \in Secrets |->
                             IF Assigned(a)[s] # at[a].loaded[s] THEN Assigned(a)[s] ELSE @[s]]]
    /\ Finish(a)
    /\ UNCHANGED <<now, setting, idp, vault, history, faults>>
CommitLate(a) == CommitWith(a, IF at[a].op = "save" THEN row.expires ELSE now + Lifetime)
Commit(a) == CommitWith(a, IF at[a].op = "save" THEN row.expires ELSE at[a].expires)

----------------------------------------------------------------------------
(* delete_oauth_state, and what may go wrong.                               *)

WipeRefresh(a) ==
    /\ at[a].pc = "wiperefresh"
    /\ vault' = [vault EXCEPT !["refresh"] = NoToken]
    /\ Goto(a, "wipeaccess")
    /\ UNCHANGED <<now, setting, idp, row, history, faults>>
\* (For mutation: the access token is kept.)
WipeNothing(a) ==
    /\ at[a].pc = "wipeaccess"
    /\ Goto(a, "erase")
    /\ UNCHANGED <<now, setting, idp, store, history, faults>>
WipeAccess(a) ==
    /\ at[a].pc = "wipeaccess"
    /\ vault' = [vault EXCEPT !["access"] = NoToken]
    /\ Goto(a, "erase")
    /\ UNCHANGED <<now, setting, idp, row, history, faults>>

Erase(a) ==
    /\ at[a].pc = "erase"
    /\ row' = NoRow
    /\ Finish(a)
    /\ UNCHANGED <<now, setting, idp, vault, history, faults>>

\* _vault_write lets a deletion go on that Vault refused.
WipeMissed(a) ==
    /\ \/ at[a].pc = "wiperefresh" /\ Goto(a, "wipeaccess")
       \/ at[a].pc = "wipeaccess" /\ Goto(a, "erase")
    /\ Fault
    /\ UNCHANGED <<now, setting, idp, store, history>>

\* A call goes on when Vault does not take its tokens: what it has assigned to
\* the row is committed when its request ends.
WriteSwallowed(a) ==
    /\ at[a].pc \in {"writerefresh", "writeaccess"} /\ at[a].op = "call"
    /\ Goto(a, "commit")
    /\ swallowed' = TRUE
    /\ Fault
    /\ UNCHANGED <<now, setting, idp, store, crossed>>

\* The process dies, Vault or the database refuses what is not one of these.
Die(a) ==
    /\ a \in Busy
    /\ Fault /\ Finish(a)
    /\ UNCHANGED <<now, setting, idp, store, history>>

Tick == now < MaxTime /\ now' = now + 1 /\ UNCHANGED <<setting, idp, store, at, history, faults>>

Next ==
    \/ \E a \in Actors :
          \/ \E op \in Operations : Begin(a, op)
          \/ ReadRefresh(a) \/ ReadAccess(a) \/ UseStored(a)
          \/ Fetch(a) \/ Refused(a) \/ FetchLost(a)
          \/ Select(a) \/ WriteRefresh(a) \/ WriteAccess(a) \/ Commit(a)
          \/ \E replace \in BOOLEAN : Enter(a, replace)
          \/ WipeRefresh(a) \/ WipeAccess(a) \/ Erase(a)
          \/ WipeMissed(a) \/ WriteSwallowed(a) \/ Die(a)
    \/ Tick

Spec == Init /\ [][Next]_vars

----------------------------------------------------------------------------
(* Properties.                                                              *)

TypeOK ==
    /\ now \in 0..MaxTime /\ grants \in Seq(Nat) /\ live \subseteq 1..Len(grants)
    /\ setting \in [grant : {"client", "lasting", "rotating"}, vaulted : BOOLEAN]
    /\ row \in [id : Nat, expires : Nat, cols : [Secrets -> Tokens]]
    /\ vault \in [Secrets -> Tokens]
    /\ DOMAIN at = Actors /\ \A a \in Actors : at[a].op \in Operations
    /\ crossed \subseteq {"calls", "edits"} /\ swallowed \in BOOLEAN /\ faults \in 0..MaxFaults

Stored(s) == Secret(s, row.cols[s])

\* An expired access token is never taken for a fresh one: the row's expiry is
\* no later than that of the token it stands for, even while tokens are being
\* stored, and whatever is lost.  With Vault, which the row's transaction does
\* not cover, operations must not have overlapped, nor a call gone on after
\* Vault refused its token.
ExpiryHonest ==
    (setting.vaulted => crossed = {} /\ ~swallowed) =>
        (row.id # 0 /\ Stored("access") # NoToken => row.expires <= grants[Stored("access")])

\* Type correctness and the stored expiry together.
BrokerInv == TypeOK /\ ExpiryHonest

\* As long as nothing is lost, a refresh token is not: the stored one is accepted,
\* or a request is about to store one that is, or to delete it.  Refreshes may overlap in any
\* way; with Vault, edits, which write back the tokens they have read, may
\* not.
Storing(a) ==
    at[a].pc \in {"select", "writerefresh", "writeaccess", "commit"} /\ at[a].held["refresh"] \in live
RefreshLives ==
    faults = 0 /\ (setting.vaulted => "edits" \notin crossed) =>
        \/ row.id = 0
        \/ Stored("refresh") \in live
        \/ Stored("refresh") = NoToken /\ row.id # 1   \* (entered again without one)
        \/ \E a \in Actors : Storing(a) \/ (a \in Busy /\ at[a].op = "delete")

\* When a credential was deleted and everybody has finished, Vault holds none of
\* its tokens, unless the deletion or an edit overlapped something or failed.
NothingLeft ==
    row.id = 0 /\ Busy = {} /\ faults = 0 /\ "edits" \notin crossed => vault = None
=============================================================================
