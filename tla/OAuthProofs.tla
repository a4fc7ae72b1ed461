---------------------------- MODULE OAuthProofs -----------------------------
(***************************************************************************)
(* Theorems about OAuthBroker, for any number of requests and grants.      *)
(***************************************************************************)
EXTENDS OAuthBroker, FiniteSetTheorems, TLAPS

----------------------------------------------------------------------------
(* The invariants.                                                          *)

Given == 1..Len(grants)
Cells == [Secrets -> Given \cup {NoToken}]

Calling == {"call", "refresh"}
Reading == {"readrefresh", "readaccess", "decide"}
Writing == {"writerefresh", "writeaccess", "commit"}
Wiping == {"wiperefresh", "wipeaccess", "erase"}
WithVault == {"readrefresh", "readaccess", "writerefresh", "writeaccess",
              "wiperefresh", "wipeaccess"}

Request ==
    [pc : {"idle", "done", "select"} \cup Reading \cup Writing \cup Wiping, op : Operations,
     id : Nat, expires : Nat, held : Cells, loaded : Cells, cols : Cells]

\* Which steps an operation takes.
Steps(a) ==
    /\ at[a].pc = "select" => at[a].op \in Calling
    /\ at[a].pc \in Reading \cup Writing => at[a].op # "delete"
    /\ at[a].pc \in Wiping => at[a].op = "delete"
    /\ ~setting.vaulted => at[a].pc \notin WithVault
    /\ at[a].pc \in {"readrefresh", "readaccess"} => at[a].id # 0
    /\ a \in Busy /\ at[a].id = 0 =>
         at[a].op = "save" /\ at[a].held["access"] = NoToken /\ at[a].loaded = None /\ at[a].cols = None

Typed ==
    /\ TypeOK
    /\ at \in [Actors -> Request]
    /\ row.cols \in Cells /\ vault \in Cells
    /\ row.id = 0 => row = NoRow
    /\ row.expires <= now + Lifetime
    /\ \A a \in Actors : at[a].expires <= now + Lifetime /\ Steps(a)
    /\ ~setting.vaulted => vault = None

\* What the operations that overlapped could not change.
EditsAlone == "edits" \notin crossed
Overlaps ==
    /\ crossed = {} => \A a, b \in Busy : a = b
    /\ EditsAlone => \A a, b \in Busy : at[a].op \in Edits => a = b
SameRow ==
    setting.vaulted /\ EditsAlone =>
        \A a \in Busy :
            /\ at[a].id = row.id
            /\ at[a].op \in Edits \/ crossed = {} => at[a].loaded = row.cols

\* The token that request a has is known to no one else.
Private(a, s) ==
    LET t == at[a].held[s]
    IN  /\ t # NoToken /\ row.cols[s] # t /\ vault[s] # t
        /\ at[a].loaded[s] # t /\ at[a].cols[s] # t
        /\ \A b \in Actors \ {a} :
              at[b].held[s] # t /\ at[b].loaded[s] # t /\ at[b].cols[s] # t

\* Before its tokens are stored, a request that has fetched them is the only
\* one to know them; an edit without Vault has what it has read, or a refresh
\* token of its own.
Fetched(a) == at[a].op \in Calling /\ at[a].pc \in Writing \cup {"select"}
Unstored(a) == at[a].op \in Calling /\ (at[a].pc \in {"select", "writerefresh"}
                                        \/ (at[a].pc = "commit" /\ ~setting.vaulted))
Edited(a) == at[a].op = "save" /\ a \in Busy /\ ~setting.vaulted
AccessInv ==
    \A a \in Actors :
        /\ Fetched(a) => /\ at[a].held["access"] \in Given
                         /\ at[a].expires = grants[at[a].held["access"]]
        /\ Unstored(a) => Private(a, "access")
        /\ Edited(a) => at[a].held["access"] = at[a].loaded["access"]

\* Expiries: no token is stored that expires before the row does.
Honest(t) == t # NoToken => row.expires <= grants[t]
Calm == setting.vaulted => crossed = {} /\ ~swallowed
HonestBy(a) ==
    /\ Fetched(a) => row.expires <= at[a].expires
    /\ at[a].op = "save" => Honest(at[a].held["access"])
    /\ at[a].pc \in {"writeaccess", "commit"} => at[a].cols["refresh"] = NoToken
    /\ at[a].pc = "commit" => at[a].cols["access"] = NoToken
                               /\ vault["access"] = at[a].held["access"]
HonestInv ==
    Calm => /\ Honest(row.cols["access"]) /\ Honest(vault["access"])
            /\ setting.vaulted => \A a \in Busy : HonestBy(a)

\* Refresh tokens that last stay accepted.
Lasts(t) == t \in live \cup {NoToken}
LastInv ==
    setting.grant # "rotating" =>
        /\ Lasts(row.cols["refresh"]) /\ Lasts(vault["refresh"])
        /\ \A a \in Actors : /\ Lasts(at[a].held["refresh"]) /\ Lasts(at[a].loaded["refresh"])
                             /\ Lasts(at[a].cols["refresh"])

\* Those that rotate do so in the hands of the request that is to store them.
Rotating(a) ==
    /\ Unstored(a) => Private(a, "refresh") /\ at[a].held["refresh"] \in live
    /\ Edited(a) => \/ at[a].held["refresh"] = at[a].loaded["refresh"]
                    \/ Private(a, "refresh") /\ at[a].held["refresh"] \in live
RotateInv == setting.grant = "rotating" => \A a \in Actors : Rotating(a)

Undisturbed == faults = 0 /\ (setting.vaulted => EditsAlone)
Deleting == \E a \in Busy : at[a].op = "delete"
WillStore(a) == Unstored(a) /\ (at[a].pc = "commit" => at[a].id = row.id)
Survives ==
    row.id = 0 \/ Lasts(Stored("refresh")) \/ Deleting \/ \E a \in Actors : WillStore(a)
StoredBy(a) ==
    /\ at[a].op \in Calling /\ at[a].pc \in {"writeaccess", "commit"} => vault["refresh"] # NoToken
    /\ at[a].op = "save" =>
         /\ at[a].pc # "readrefresh" =>
              /\ Lasts(at[a].held["refresh"])
              /\ at[a].held["refresh"] = NoToken => row.cols["refresh"] = NoToken
         /\ at[a].pc \in {"writeaccess", "commit"} =>
              vault["refresh"] = at[a].held["refresh"] /\ at[a].cols["refresh"] = NoToken
StoredInv ==
    setting.grant = "rotating" /\ Undisturbed =>
        Survives /\ (setting.vaulted => \A a \in Busy : StoredBy(a))

\* The first row, which is never entered again, keeps a refresh token.
FirstBy(a) ==
    /\ at[a].pc # "readrefresh" => at[a].held["refresh"] # NoToken
    /\ at[a].pc = "readrefresh" => Secret("refresh", at[a].loaded["refresh"]) # NoToken
    /\ setting.vaulted /\ at[a].pc \in {"writeaccess", "commit"} => vault["refresh"] # NoToken
FirstInv ==
    row.id = 1 =>
        /\ \A a \in Busy : at[a].id = 1
        /\ Undisturbed /\ ~Deleting =>
             Stored("refresh") # NoToken /\ \A a \in Busy : FirstBy(a)

\* A deletion that nothing disturbs leaves nothing in Vault.
LeftInv ==
    faults = 0 /\ EditsAlone =>
        /\ row.id = 0 => vault = None \/ \E a \in Busy : at[a].op = "save"
        /\ \A a \in Busy :
              /\ at[a].pc = "wipeaccess" => vault["refresh"] = NoToken
              /\ at[a].pc = "erase" => vault = None

----------------------------------------------------------------------------
(* What a step does to the request that takes it.                           *)

Done == [Idle EXCEPT !.pc = "done"]
Others(a) == \A b \in Actors \ {a} : at'[b] = at[b]

\* The fields that a step leaves alone.
Same(a) == at'[a].op = at[a].op /\ at'[a].loaded = at[a].loaded

LEMMA DoneFields ==
  /\ Done.pc = "done" /\ Done.op = "call" /\ Done.id = 0 /\ Done.expires = 0
  /\ Done.held = None /\ Done.loaded = None /\ Done.cols = None
BY DEF Done, Idle

LEMMA SecretsTwo == Secrets = {"refresh", "access"} /\ "refresh" # "access"
BY DEF Secrets

LEMMA RequestFields ==
  ASSUME Typed, NEW a \in Actors
  PROVE  /\ at[a] \in Request
         /\ at[a].held \in Cells /\ at[a].loaded \in Cells /\ at[a].cols \in Cells
         /\ at[a].id \in Nat /\ at[a].expires \in Nat /\ at[a].op \in Operations
BY DEF Typed, Request

LEMMA FinishMoves ==
  ASSUME Typed, NEW a \in Actors, Finish(a)
  PROVE  at'[a] = Done /\ Others(a)
BY DEF Typed, Finish, Others, Done

LEMMA GotoMoves ==
  ASSUME Typed, NEW a \in Actors, NEW pc, Goto(a, pc)
  PROVE  /\ at'[a] = [at[a] EXCEPT !.pc = pc] /\ Others(a) /\ Same(a)
         /\ at'[a].pc = pc /\ at'[a].id = at[a].id /\ at'[a].expires = at[a].expires
         /\ at'[a].held = at[a].held /\ at'[a].cols = at[a].cols
BY RequestFields DEF Typed, Goto, Others, Same, Request

LEMMA BeginMoves ==
  ASSUME Typed, NEW a \in Actors, NEW op \in Operations, Begin(a, op)
  PROVE  /\ Others(a) /\ UNCHANGED <<now, setting, idp, row, vault, swallowed, faults>>
         /\ at[a].pc = "idle"
         /\ \/ row.id = 0 /\ op # "save" /\ at'[a] = Done
            \/ /\ row.id = 0 /\ op = "save"
               /\ at'[a] = [Idle EXCEPT !.pc = "decide", !.op = "save"]
               /\ at'[a].pc = "decide" /\ at'[a].op = "save" /\ at'[a].id = 0
               /\ at'[a].expires = 0
               /\ at'[a].held = None /\ at'[a].loaded = None /\ at'[a].cols = None
            \/ /\ row.id # 0 /\ at'[a].op = op /\ at'[a].id = row.id
               /\ at'[a] \in [pc : Reading \cup Wiping, op : Operations, id : {row.id},
                              expires : {row.expires}, held : {row.cols}, loaded : {row.cols},
                              cols : {row.cols}]
               /\ at'[a].expires = row.expires /\ at'[a].held = row.cols
               /\ at'[a].loaded = row.cols /\ at'[a].cols = row.cols
               /\ op = "delete" => at'[a].pc = IF setting.vaulted THEN "wiperefresh" ELSE "erase"
               /\ op # "delete" => at'[a].pc = IF setting.vaulted THEN "readrefresh" ELSE "decide"
<1>1. /\ at[a].pc = "idle" /\ UNCHANGED <<now, setting, idp, row, vault, swallowed, faults>>
  BY DEF Begin, store
<1>2. CASE row.id = 0 /\ op # "save"
  BY <1>1, <1>2, FinishMoves DEF Begin
<1>3. CASE row.id = 0 /\ op = "save"
  <2>1. at' = [at EXCEPT ![a] = [Idle EXCEPT !.pc = "decide", !.op = "save"]]
    BY <1>3 DEF Begin
  <2>2. at'[a] = [Idle EXCEPT !.pc = "decide", !.op = "save"] /\ Others(a)
    BY <2>1 DEF Typed, Others
  <2>3. /\ at'[a].pc = "decide" /\ at'[a].op = "save" /\ at'[a].id = 0 /\ at'[a].expires = 0
        /\ at'[a].held = None /\ at'[a].loaded = None /\ at'[a].cols = None
    BY <2>2 DEF Idle
  <2>4. QED
    BY <1>1, <1>3, <2>2, <2>3
<1>4. CASE row.id # 0
  <2> DEFINE next == IF op = "delete" THEN (IF setting.vaulted THEN "wiperefresh" ELSE "erase")
                     ELSE IF setting.vaulted THEN "readrefresh" ELSE "decide"
  <2>1. at' = [at EXCEPT ![a] =
              [pc |-> next, op |-> op, id |-> row.id, expires |-> row.expires,
               held |-> row.cols, loaded |-> row.cols, cols |-> row.cols]]
    BY <1>4 DEF Begin
  <2>2. /\ op = "delete" => next = IF setting.vaulted THEN "wiperefresh" ELSE "erase"
        /\ op # "delete" => next = IF setting.vaulted THEN "readrefresh" ELSE "decide"
    OBVIOUS
  <2>3. next \in Reading \cup Wiping
    BY <2>2 DEF Reading, Wiping
  <2> HIDE DEF next
  <2>4. /\ Others(a)
        /\ at'[a] = [pc |-> next, op |-> op, id |-> row.id, expires |-> row.expires,
                     held |-> row.cols, loaded |-> row.cols, cols |-> row.cols]
    BY <2>1 DEF Typed, Others
  <2>5. QED
    BY <1>1, <1>4, <2>2, <2>3, <2>4
<1>5. QED
  BY <1>2, <1>3, <1>4

\* The request goes on to pc with t for secret s.
Sets(a, s, t, pc) ==
    /\ Others(a) /\ Same(a)
    /\ at'[a] = [at[a] EXCEPT !.pc = pc, !.held = [at[a].held EXCEPT ![s] = t]]
    /\ at'[a].pc = pc /\ at'[a].id = at[a].id /\ at'[a].expires = at[a].expires
    /\ at'[a].held = [at[a].held EXCEPT ![s] = t] /\ at'[a].cols = at[a].cols

LEMMA SetHeld ==
  ASSUME Typed, NEW a \in Actors, NEW s \in Secrets, NEW t, NEW pc,
         at' = [at EXCEPT ![a].pc = pc, ![a].held[s] = t]
  PROVE  Sets(a, s, t, pc)
<1>1. at'[a] = [at[a] EXCEPT !.pc = pc, !.held = [at[a].held EXCEPT ![s] = t]] /\ Others(a)
  BY RequestFields DEF Typed, Others, Request
<1>2. at[a] \in Request
  BY RequestFields
<1>3. at'[a].pc = pc /\ at'[a].held = [at[a].held EXCEPT ![s] = t]
  BY <1>1, <1>2 DEF Request
<1>4. at'[a].op = at[a].op /\ at'[a].id = at[a].id /\ at'[a].expires = at[a].expires
  BY <1>1, <1>2 DEF Request
<1>5. at'[a].loaded = at[a].loaded /\ at'[a].cols = at[a].cols
  BY <1>1, <1>2 DEF Request
<1>6. QED
  BY <1>1, <1>3, <1>4, <1>5 DEF Same, Sets

LEMMA ReadMoves ==
  ASSUME Typed, NEW a \in Actors
  PROVE  /\ ReadRefresh(a) =>
              Sets(a, "refresh", Secret("refresh", at[a].loaded["refresh"]), "readaccess")
         /\ ReadAccess(a) =>
              Sets(a, "access", Secret("access", at[a].loaded["access"]), "decide")
<1>1. ASSUME ReadRefresh(a)
      PROVE  Sets(a, "refresh", Secret("refresh", at[a].loaded["refresh"]), "readaccess")
  BY <1>1, SetHeld DEF ReadRefresh, Secrets
<1>2. ASSUME ReadAccess(a)
      PROVE  Sets(a, "access", Secret("access", at[a].loaded["access"]), "decide")
  BY <1>2, SetHeld DEF ReadAccess, Secrets
<1>3. QED
  BY <1>1, <1>2

LEMMA FetchMoves ==
  ASSUME Typed, NEW a \in Actors, Fetch(a)
  PROVE  /\ at[a].pc = "decide" /\ at[a].op \in Calling /\ Accepted(a)
         /\ Others(a) /\ Same(a) /\ UNCHANGED <<now, setting, row, vault, history, faults>>
         /\ grants' = Append(grants, now + Lifetime)
         /\ live' = IF Rotates THEN (live \ {at[a].held["refresh"]}) \cup {Next1} ELSE live
         /\ at'[a].pc = "select" /\ at'[a].id = at[a].id /\ at'[a].expires = now + Lifetime
         /\ at'[a].held = Apply(a) /\ at'[a].cols = at[a].cols
         /\ at'[a] = [at[a] EXCEPT !.pc = "select", !.held = Apply(a), !.expires = now + Lifetime]
<1>1. /\ at'[a] = [at[a] EXCEPT !.pc = "select", !.held = Apply(a), !.expires = now + Lifetime]
      /\ Others(a)
  BY RequestFields DEF Fetch, Typed, Others, Request
<1>2. /\ at'[a].pc = "select" /\ at'[a].id = at[a].id /\ at'[a].expires = now + Lifetime
      /\ at'[a].held = Apply(a) /\ at'[a].cols = at[a].cols /\ Same(a)
  BY <1>1, RequestFields DEF Request, Same
<1>3. at[a].pc = "decide" /\ at[a].op \in Calling /\ Accepted(a)
  BY DEF Fetch, Issue, Asks, Calling
<1>4. /\ UNCHANGED <<now, setting, row, vault, history, faults>>
      /\ grants' = Append(grants, now + Lifetime)
      /\ live' = IF Rotates THEN (live \ {at[a].held["refresh"]}) \cup {Next1} ELSE live
  BY DEF Fetch, Issue, store
<1>5. QED
  BY <1>1, <1>2, <1>3, <1>4, Zenon

LEMMA SelectMoves ==
  ASSUME Typed, NEW a \in Actors, Select(a)
  PROVE  /\ at[a].pc = "select"
         /\ Others(a) /\ UNCHANGED <<now, setting, idp, row, vault, history, faults>>
         /\ \/ row.id = 0 /\ at'[a] = Done
            \/ /\ row.id # 0 /\ at'[a].op = at[a].op /\ at'[a].loaded = row.cols
               /\ at'[a].pc = Write /\ at'[a].id = row.id /\ at'[a].expires = at[a].expires
               /\ at'[a].held = at[a].held /\ at'[a].cols = row.cols
               /\ at'[a] = [at[a] EXCEPT !.pc = Write, !.id = row.id, !.loaded = row.cols,
                                         !.cols = row.cols]
<1>1. CASE row.id = 0
  BY <1>1, FinishMoves DEF Select, store
<1>2. CASE row.id # 0
  <2>1. /\ at'[a] = [at[a] EXCEPT !.pc = Write, !.id = row.id, !.loaded = row.cols,
                                  !.cols = row.cols]
        /\ Others(a)
    BY <1>2, RequestFields DEF Select, Typed, Others, Request
  <2>2. QED
    BY <1>2, <2>1, RequestFields DEF Select, Request, store
<1>3. QED
  BY <1>1, <1>2

LEMMA EnterMoves ==
  ASSUME Typed, NEW a \in Actors, NEW replace \in BOOLEAN, Enter(a, replace)
  PROVE  /\ at[a].pc = "decide" /\ at[a].op = "save"
         /\ UNCHANGED <<now, setting, row, vault, history, faults>>
         /\ \/ /\ ~replace /\ UNCHANGED idp
               /\ Sets(a, "refresh", at[a].held["refresh"], Write) /\ at'[a].held = at[a].held
            \/ /\ replace /\ setting.grant # "client"
               /\ grants' = Append(grants, 0) /\ live' = live \cup {Next1}
               /\ Sets(a, "refresh", Next1, Write)
<1>1. CASE replace
  BY <1>1, SetHeld DEF Enter, store, Secrets
<1>2. CASE ~replace
  <2>1. at' = [at EXCEPT ![a].pc = Write, ![a].held["refresh"] = at[a].held["refresh"]]
    BY <1>2, RequestFields DEF Enter, Typed, Request
  <2>2. Sets(a, "refresh", at[a].held["refresh"], Write)
    BY <2>1, SetHeld DEF Secrets
  <2>3. at'[a].held = at[a].held
    BY <2>2, RequestFields DEF Sets, Cells
  <2>4. QED
    BY <1>2, <2>2, <2>3 DEF Enter, store
<1>3. QED
  BY <1>1, <1>2

LEMMA EnterKeeps ==
  ASSUME Typed, NEW a \in Actors, NEW replace \in BOOLEAN, Enter(a, replace)
  PROVE  /\ row' = row /\ vault' = vault /\ Same(a) /\ at[a].op = "save" /\ at'[a].op = "save"
         /\ at'[a].held["access"] = at[a].held["access"] /\ at'[a].pc = Write
<1>1. at[a].op = "save" /\ row' = row /\ vault' = vault
  BY EnterMoves
<1>2. PICK t : Sets(a, "refresh", t, Write)
  BY EnterMoves
<1>3. /\ at'[a].held = [at[a].held EXCEPT !["refresh"] = t] /\ at[a].held \in Cells
      /\ Same(a) /\ at'[a].pc = Write
  BY <1>2, RequestFields DEF Sets
<1>4. at'[a].held["access"] = at[a].held["access"]
  BY <1>3, SecretsTwo DEF Cells
<1>5. QED
  BY <1>1, <1>3, <1>4 DEF Same

LEMMA WriteMoves ==
  ASSUME Typed, NEW a \in Actors, NEW s \in Secrets, NEW next, WriteSecret(a, s, next)
  PROVE  /\ UNCHANGED <<now, setting, idp, row, history, faults>>
         /\ vault' = [vault EXCEPT ![s] = at[a].held[s]]
         /\ Others(a) /\ Same(a)
         /\ at'[a].pc = next /\ at'[a].id = at[a].id /\ at'[a].expires = at[a].expires
         /\ at'[a].held = at[a].held /\ at'[a].cols = [at[a].cols EXCEPT ![s] = NoToken]
         /\ at'[a] = [at[a] EXCEPT !.pc = next, !.cols = [at[a].cols EXCEPT ![s] = NoToken]]
<1>1. /\ at'[a] = [at[a] EXCEPT !.pc = next, !.cols = [at[a].cols EXCEPT ![s] = NoToken]]
      /\ Others(a)
  BY RequestFields DEF WriteSecret, Typed, Others, Request
<1>2. /\ UNCHANGED <<now, setting, idp, row, history, faults>>
      /\ vault' = [vault EXCEPT ![s] = at[a].held[s]]
  BY DEF WriteSecret
<1>3. at[a] \in Request
  BY RequestFields
<1>4. /\ at'[a].pc = next /\ at'[a].cols = [at[a].cols EXCEPT ![s] = NoToken]
      /\ at'[a].op = at[a].op /\ at'[a].id = at[a].id /\ at'[a].expires = at[a].expires
      /\ at'[a].loaded = at[a].loaded /\ at'[a].held = at[a].held
  BY <1>1, <1>3 DEF Request
<1>5. QED
  BY <1>1, <1>2, <1>4 DEF Same

LEMMA NewIdIsNew == NewId \in Nat /\ NewId # 0 /\ NewId # 1
<1> DEFINE n == Cardinality(Actors)
<1>1. n \in Nat
  BY BrokerAssumption, FS_CardinalityType
<1>2. \E i \in 2..(n + 2) : \A a \in Actors : at[a].id # i
  <2>1. SUFFICES ASSUME \A i \in 2..(n + 2) : \E a \in Actors : at[a].id = i
                 PROVE  FALSE
    OBVIOUS
  <2> DEFINE f == [i \in 2..(n + 2) |-> CHOOSE a \in Actors : at[a].id = i]
  <2>2. \A i \in 2..(n + 2) : f[i] \in Actors /\ at[f[i]].id = i
    BY <2>1
  <2>3. f \in Injection(2..(n + 2), Actors)
    BY <2>2 DEF Injection, IsInjective
  <2>4. Cardinality(2..(n + 2)) <= n
    BY <2>3, BrokerAssumption, FS_Injection
  <2>5. Cardinality(2..(n + 2)) = n + 1
    BY <1>1, FS_Interval
  <2> HIDE DEF n
  <2>6. QED
    BY <1>1, <2>4, <2>5
<1>3. NewId \in 2..(n + 2)
  BY <1>2 DEF NewId
<1>4. QED
  BY <1>1, <1>3

LEMMA CommitMoves ==
  ASSUME Typed, NEW a \in Actors, Commit(a)
  PROVE  /\ at[a].pc = "commit" /\ at'[a] = Done /\ Others(a)
         /\ UNCHANGED <<now, setting, idp, vault, history, faults>>
         /\ \/ /\ at[a].id = 0 /\ row.id = 0
               /\ row' = [id |-> NewId, expires |-> 0, cols |-> Assigned(a)]
            \/ at[a].id # row.id /\ row' = row
            \/ /\ at[a].id = row.id /\ row.id # 0 /\ row'.id = row.id
               /\ row'.expires = IF at[a].op = "save" THEN row.expires ELSE at[a].expires
               /\ row'.cols = [s \in Secrets |-> IF Assigned(a)[s] # at[a].loaded[s]
                                                 THEN Assigned(a)[s] ELSE row.cols[s]]
               /\ row' \in [id : {row.id}, expires : {row'.expires}, cols : {row'.cols}]
<1> DEFINE expires == IF at[a].op = "save" THEN row.expires ELSE at[a].expires
           cols == [s \in Secrets |-> IF Assigned(a)[s] # at[a].loaded[s]
                                      THEN Assigned(a)[s] ELSE row.cols[s]]
<1>1. /\ at[a].pc = "commit" /\ at'[a] = Done /\ Others(a)
      /\ UNCHANGED <<now, setting, idp, vault, history, faults>>
  BY FinishMoves DEF Commit, CommitWith
<1>2. CASE at[a].id = 0 /\ row.id = 0
  BY <1>1, <1>2 DEF Commit, CommitWith
<1>3. CASE at[a].id # row.id
  BY <1>1, <1>3 DEF Commit, CommitWith
<1>4. CASE at[a].id = row.id /\ row.id # 0
  <2>1. row' = [row EXCEPT !.expires = expires,
                           !.cols = [s \in Secrets |-> IF Assigned(a)[s] # at[a].loaded[s]
                                                       THEN Assigned(a)[s] ELSE row.cols[s]]]
    BY <1>4 DEF Commit, CommitWith
  <2>2. row' = [row EXCEPT !.expires = expires, !.cols = cols]
    BY <2>1
  <2> HIDE DEF expires, cols
  <2>3. row \in [id : Nat, expires : Nat, cols : [Secrets -> Tokens]]
    BY DEF Typed, TypeOK
  <2>4. /\ row'.id = row.id /\ row'.expires = expires /\ row'.cols = cols
        /\ row' \in [id : {row.id}, expires : {row'.expires}, cols : {row'.cols}]
    BY <2>2, <2>3
  <2>5. QED
    BY <1>1, <1>4, <2>4 DEF expires, cols
<1>5. QED
  BY <1>2, <1>3, <1>4

----------------------------------------------------------------------------
(* Type correctness.                                                        *)

LEMMA Appended ==
  ASSUME grants \in Seq(Nat), NEW x \in Nat, grants' = Append(grants, x)
  PROVE  /\ grants' \in Seq(Nat) /\ Given' = Given \cup {Next1} /\ Next1 \notin Given
         /\ Next1 \in Nat /\ grants'[Next1] = x /\ \A t \in Given : grants'[t] = grants[t]
BY DEF Given, Next1

LEMMA NextGrants ==
  ASSUME [Next]_vars
  PROVE  \/ grants' = grants
         \/ grants' = Append(grants, now + Lifetime) \/ grants' = Append(grants, 0)
BY DEF Next, Begin, ReadRefresh, ReadAccess, UseStored, Fetch, Refused, FetchLost, Issue, Select,
       WriteRefresh, WriteAccess, WriteSecret, Commit, CommitWith, Enter, WipeRefresh, WipeAccess,
       Erase, WipeMissed, WriteSwallowed, Die, Tick, vars, idp

LEMMA GrantsGrow ==
  ASSUME Typed, [Next]_vars
  PROVE  /\ grants' \in Seq(Nat) /\ Given \subseteq Given' /\ Cells \subseteq Cells'
         /\ Request \subseteq Request' /\ \A t \in Given : grants'[t] = grants[t] /\ t # Next1
<1>1. grants \in Seq(Nat) /\ now + Lifetime \in Nat
  BY BrokerAssumption DEF Typed, TypeOK
<1>2. grants' \in Seq(Nat) /\ Given \subseteq Given' /\ \A t \in Given : grants'[t] = grants[t]
  BY <1>1, NextGrants, Appended DEF Given
<1>3. Cells \subseteq Cells'
  BY <1>2 DEF Cells
<1>4. Request \subseteq Request'
  BY <1>3 DEF Request
<1>5. \A t \in Given : t # Next1
  BY <1>1 DEF Given, Next1
<1>6. QED
  BY <1>2, <1>3, <1>4, <1>5

LEMMA CellsAre ==
  /\ None \in Cells
  /\ \A c \in Cells, s \in Secrets, t \in Given \cup {NoToken} : [c EXCEPT ![s] = t] \in Cells
  /\ \A c \in Cells, s \in Secrets : c[s] \in Given \cup {NoToken}
BY DEF Cells, None

LEMMA BusyIs ==
  /\ \A a \in Actors : a \in Busy <=> at[a].pc \notin {"idle", "done"}
  /\ Busy \subseteq Actors
BY DEF Busy

\* A step of request a that changes nothing but its record and what is said
\* of it keeps all types.
LEMMA MoveTyped ==
  ASSUME Typed, [Next]_vars, NEW a \in Actors, Others(a), at' = [at EXCEPT ![a] = at'[a]],
         at'[a] \in Request', at'[a].expires <= now' + Lifetime,
         now' = now, setting' = setting, row' = row, vault' = vault,
         live' \subseteq Given', crossed' \subseteq {"calls", "edits"}, swallowed' \in BOOLEAN,
         faults' \in 0..MaxFaults, Steps(a)'
  PROVE  Typed'
<1>1. at' \in [Actors -> Request'] /\ \A b \in Actors : at'[b].op \in Operations
  <2>1. \A b \in Actors : at'[b] \in Request'
    BY GrantsGrow, RequestFields DEF Others
  <2>2. DOMAIN at' = Actors
    BY DEF Typed
  <2>3. QED
    BY <2>1, <2>2 DEF Typed, Request
<1>2. row'.cols \in Cells' /\ vault' \in Cells'
  BY GrantsGrow DEF Typed
<1>3. \A b \in Actors : at'[b].expires <= now' + Lifetime /\ Steps(b)'
  <2>1. ASSUME NEW b \in Actors, b # a
        PROVE  at'[b].expires <= now' + Lifetime /\ Steps(b)'
    BY <2>1 DEF Typed, Others, Steps, Busy
  <2>2. QED
    BY <2>1
<1>4. TypeOK'
  BY <1>1, GrantsGrow DEF Typed, TypeOK, Given
<1>5. QED
  BY <1>1, <1>2, <1>3, <1>4 DEF Typed

LEMMA Sums ==
  \A k, m, n \in Nat : m + n \in Nat /\ 0 <= m + n /\ (m <= k => m + n <= k + n)
OBVIOUS

LEMMA DoneTyped ==
  ASSUME Typed, [Next]_vars, NEW a \in Actors, at'[a] = Done
  PROVE  at'[a] \in Request' /\ at'[a].expires <= now' + Lifetime /\ Steps(a)'
<1>1. Done \in Request
  BY CellsAre DEF Done, Idle, Request, Operations
<1>2. now' \in Nat /\ Lifetime \in Nat
  <2>1. now' = now \/ now' = now + 1
    BY DEF Next, Begin, ReadRefresh, ReadAccess, UseStored, Fetch, Refused, FetchLost, Issue,
           Select, WriteRefresh, WriteAccess, WriteSecret, Commit, CommitWith, Enter, WipeRefresh,
           WipeAccess, Erase, WipeMissed, WriteSwallowed, Die, Tick, vars
  <2>2. QED
    BY <2>1, BrokerAssumption DEF Typed, TypeOK
<1>3. at'[a].expires <= now' + Lifetime
  <2>1. at'[a].expires = 0
    BY DoneFields
  <2>2. 0 <= now' + Lifetime
    BY <1>2, Sums, Zenon
  <2>3. QED
    BY <2>1, <2>2
<1>4. Steps(a)'
  BY DoneFields DEF Steps, Busy, Reading, Writing, Wiping, WithVault
<1>5. QED
  BY <1>1, <1>3, <1>4, GrantsGrow

LEMMA TypedInit == Init => Typed
<1> SUFFICES ASSUME Init PROVE Typed
  OBVIOUS
<1>1. Given = {1} /\ grants \in Seq(Nat) /\ Len(grants) = 1
  BY BrokerAssumption DEF Init, Given
<1>2. [s \in Secrets |-> 1] \in Cells /\ None \in Cells
  BY <1>1 DEF Cells, None
<1>3. row.cols \in Cells /\ vault \in Cells /\ row.id = 1 /\ row.expires = Lifetime
  BY <1>2 DEF Init
<1>4. Cells \subseteq [Secrets -> Tokens]
  BY <1>1 DEF Cells, Tokens
<1>5. row \in [id : Nat, expires : Nat, cols : [Secrets -> Tokens]] /\ vault \in [Secrets -> Tokens]
  <2>1. row \in [id : {1}, expires : {Lifetime}, cols : Cells]
    BY <1>2 DEF Init
  <2>2. QED
    BY <1>3, <1>4, <2>1, BrokerAssumption
<1>6. at \in [Actors -> Request] /\ \A a \in Actors : at[a] = Idle
  <2>1. Idle \in Request
    BY <1>2 DEF Idle, Request, Operations
  <2>2. QED
    BY <2>1 DEF Init
<1>7. \A a \in Actors : at[a].expires <= now + Lifetime /\ Steps(a) /\ at[a].op \in Operations
  BY <1>6, BrokerAssumption DEF Init, Idle, Steps, Busy, Reading, Writing, Wiping, WithVault,
                                Operations
<1>8. ~setting.vaulted => vault = None
  BY DEF Init
<1>9. TypeOK
  <2>1. /\ now \in 0..MaxTime /\ live \subseteq 1..Len(grants) /\ crossed \subseteq {"calls", "edits"}
        /\ setting \in [grant : {"client", "lasting", "rotating"}, vaulted : BOOLEAN]
        /\ swallowed \in BOOLEAN /\ faults \in 0..MaxFaults
    <3>1. now = 0 /\ live = {1} /\ crossed = {} /\ swallowed = FALSE /\ faults = 0
          /\ setting \in [grant : {"client", "lasting", "rotating"}, vaulted : BOOLEAN]
      BY DEF Init
    <3>2. swallowed \in BOOLEAN
      BY <3>1
    <3>3. /\ now \in 0..MaxTime /\ live \subseteq 1..Len(grants)
          /\ crossed \subseteq {"calls", "edits"} /\ faults \in 0..MaxFaults
      BY <1>1, <3>1, BrokerAssumption
    <3>4. QED
      BY <3>1, <3>2, <3>3, Zenon
  <2>2. DOMAIN at = Actors
    BY DEF Init
  <2>3. QED
    BY <1>1, <1>5, <1>7, <2>1, <2>2 DEF TypeOK
<1>10. QED
  BY <1>3, <1>6, <1>7, <1>8, <1>9, BrokerAssumption DEF Init, Typed

\* The tokens that are read and that are fetched are among those given.
LEMMA SecretTyped ==
  ASSUME Typed, NEW s \in Secrets, NEW t \in Given \cup {NoToken}
  PROVE  Secret(s, t) \in Given \cup {NoToken}
BY CellsAre DEF Typed, Secret

LEMMA SetsTyped ==
  ASSUME Typed, [Next]_vars, NEW a \in Actors, NEW s \in Secrets,
         NEW t \in Given' \cup {NoToken}, NEW pc, Sets(a, s, t, pc),
         pc \in Reading \cup Writing, at[a].op # "delete",
         ~setting'.vaulted => pc \notin WithVault,
         pc \in {"readrefresh", "readaccess"} => at[a].id # 0,
         at[a].id = 0 => s = "refresh", a \in Busy,
         now' = now
  PROVE  at'[a] \in Request' /\ at'[a].expires <= now' + Lifetime /\ Steps(a)'
<1>1. at[a] \in Request' /\ at[a].held \in Cells'
  BY RequestFields, GrantsGrow
<1>2. at'[a].held \in Cells'
  BY <1>1 DEF Sets, Cells
<1>3. at'[a] \in Request'
  BY <1>1, <1>2 DEF Sets, Request
<1>4. at'[a].expires <= now' + Lifetime
  BY DEF Sets, Typed
<1>5. at[a].id = 0 => /\ at[a].op = "save" /\ at[a].held["access"] = NoToken
                      /\ at[a].loaded = None /\ at[a].cols = None
  BY DEF Typed, Steps
<1>6. at[a].id = 0 => at'[a].held["access"] = NoToken
  BY <1>1, <1>5, SecretsTwo DEF Sets, Cells
<1>7. Steps(a)'
  BY <1>5, <1>6, BusyIs DEF Sets, Same, Steps, Reading, Writing, Wiping
<1>8. QED
  BY <1>3, <1>4, <1>7

LEMMA TypedStep ==
  ASSUME Typed, [Next]_vars
  PROVE  Typed'
<1>a. /\ now \in 0..MaxTime /\ faults \in 0..MaxFaults /\ live \subseteq Given
      /\ crossed \subseteq {"calls", "edits"} /\ swallowed \in BOOLEAN /\ Given \subseteq Given'
      /\ MaxFaults \in Nat /\ Lifetime \in Nat /\ grants \in Seq(Nat) /\ MaxTime \in Nat
  BY BrokerAssumption, GrantsGrow DEF Typed, TypeOK, Given
<1>b. ASSUME NEW a \in Actors
      PROVE  Finish(a) => at'[a] = Done /\ Others(a) /\ at' = [at EXCEPT ![a] = at'[a]]
  BY FinishMoves DEF Finish, Typed, Done
<1>c. ASSUME NEW a \in Actors, Others(a), DOMAIN at' = Actors, at' \in [Actors -> {at'[b] : b \in Actors}]
      PROVE  at' = [at EXCEPT ![a] = at'[a]]
  BY <1>c DEF Others, Typed
<1>1. ASSUME NEW a \in Actors, NEW op \in Operations, Begin(a, op)
      PROVE  Typed'
  <2>1. at' = [at EXCEPT ![a] = at'[a]]
    <3>1. CASE row.id = 0
      BY <1>1, <1>b, <3>1 DEF Begin, Typed
    <3>2. CASE row.id # 0
      BY <1>1, <3>2 DEF Begin, Typed
    <3>3. QED
      BY <3>1, <3>2
  <2>2. at'[a] \in Request' /\ at'[a].expires <= now' + Lifetime /\ Steps(a)'
    <3>1. CASE at'[a] = Done
      BY <3>1, DoneTyped
    <3>2. CASE row.id = 0 /\ at'[a] = [Idle EXCEPT !.pc = "decide", !.op = "save"]
      <4>1. at'[a] \in Request
        <5>1. Idle \in Request /\ "decide" \in Reading /\ "save" \in Operations
          BY CellsAre DEF Idle, Request, Operations, Reading
        <5>2. [Idle EXCEPT !.pc = "decide", !.op = "save"] \in Request
          BY <5>1 DEF Request
        <5>3. QED
          BY <3>2, <5>2
      <4>2. /\ at'[a].pc = "decide" /\ at'[a].op = "save" /\ at'[a].held = None
            /\ at'[a].loaded = None /\ at'[a].cols = None /\ at'[a].expires = 0
        BY <3>2 DEF Idle
      <4>3. now' = now
        BY <1>1 DEF Begin
      <4>4. Steps(a)'
        BY <4>2 DEF Steps, Reading, Writing, Wiping, WithVault, None, Secrets
      <4>5. QED
        BY <1>a, <4>1, <4>2, <4>3, <4>4, GrantsGrow
    <3>3. CASE row.id # 0
      <4>1. /\ at'[a] \in [pc : Reading \cup Wiping, op : Operations, id : {row.id},
                           expires : {row.expires}, held : {row.cols}, loaded : {row.cols},
                           cols : {row.cols}]
            /\ at'[a].expires = row.expires /\ at'[a].id = row.id /\ at'[a].op = op
            /\ now' = now /\ setting' = setting
            /\ op = "delete" => at'[a].pc = IF setting.vaulted THEN "wiperefresh" ELSE "erase"
            /\ op # "delete" => at'[a].pc = IF setting.vaulted THEN "readrefresh" ELSE "decide"
        BY <1>1, <3>3, BeginMoves
      <4>2. row.id \in Nat /\ row.expires \in Nat /\ row.cols \in Cells
            /\ row.expires <= now + Lifetime
        BY DEF Typed, TypeOK
      <4>3. at'[a] \in Request
        BY <4>1, <4>2 DEF Request
      <4>4. Steps(a)'
        BY <3>3, <4>1 DEF Steps, Reading, Writing, Wiping, WithVault
      <4>5. QED
        BY <4>1, <4>2, <4>3, <4>4, GrantsGrow
    <3>4. QED
      BY <1>1, <3>1, <3>2, <3>3, BeginMoves
  <2>3. crossed' \subseteq {"calls", "edits"}
    BY <1>1, <1>a DEF Begin
  <2>4. QED
    BY <1>1, <1>a, <2>1, <2>2, <2>3, MoveTyped, BeginMoves DEF idp
<1>2. ASSUME NEW a \in Actors, NEW s \in Secrets, NEW t \in Given \cup {NoToken}, NEW pc,
             Sets(a, s, t, pc), pc \in {"readaccess", "decide"}, at' = [at EXCEPT ![a] = at'[a]],
             at[a].pc \in {"readrefresh", "readaccess"}, setting.vaulted,
             UNCHANGED <<now, setting, idp, row, vault, history, faults>>
      PROVE  Typed'
  <2>1. /\ at[a].op # "delete" /\ at[a].id # 0 /\ a \in Busy
        /\ pc \in Reading
    BY <1>2 DEF Typed, Steps, Reading, Busy
  <2>2. at'[a] \in Request' /\ at'[a].expires <= now' + Lifetime /\ Steps(a)'
    BY <1>2, <1>a, <2>1, SetsTyped
  <2>3. QED
    BY <1>2, <1>a, <2>2, MoveTyped DEF Sets, idp, history
<1>3. ASSUME NEW a \in Actors, ReadRefresh(a) \/ ReadAccess(a)
      PROVE  Typed'
  <2>1. \A s \in Secrets : Secret(s, at[a].loaded[s]) \in Given \cup {NoToken}
    BY SecretTyped, RequestFields, CellsAre
  <2>2. /\ UNCHANGED <<now, setting, idp, row, vault, history, faults>>
        /\ at[a].pc \in {"readrefresh", "readaccess"}
    BY <1>3 DEF ReadRefresh, ReadAccess, store
  <2>3. setting.vaulted
    BY <2>2 DEF Typed, Steps, WithVault
  <2>4. at' = [at EXCEPT ![a] = at'[a]]
    BY <1>3 DEF ReadRefresh, ReadAccess, Typed
  <2>5. "refresh" \in Secrets /\ "access" \in Secrets
    BY SecretsTwo
  <2>6. QED
    BY <1>2, <1>3, <2>1, <2>2, <2>3, <2>4, <2>5, ReadMoves
<1>4. ASSUME NEW a \in Actors, Finish(a), now' = now, setting' = setting, row' = row, vault' = vault,
             live' \subseteq Given', UNCHANGED history, faults' \in {faults, faults + 1},
             faults' = faults \/ faults < MaxFaults
      PROVE  Typed'
  <2>1. at'[a] = Done /\ Others(a) /\ at' = [at EXCEPT ![a] = at'[a]]
    BY <1>4, <1>b
  <2>2. faults' \in 0..MaxFaults
    BY <1>4, <1>a
  <2>3. at'[a] \in Request' /\ at'[a].expires <= now' + Lifetime /\ Steps(a)'
    BY <2>1, DoneTyped
  <2>4. QED
    BY <1>4, <1>a, <2>1, <2>2, <2>3, MoveTyped DEF history
<1>5. ASSUME NEW a \in Actors, UseStored(a) \/ Refused(a) \/ Die(a)
      PROVE  Typed'
  BY <1>4, <1>5, <1>a DEF UseStored, Refused, Die, store, idp, Fault
<1>6. ASSUME NEW a \in Actors, Issue(a)
      PROVE  live' \subseteq Given' /\ Next1 \in Given'
  <2>1. Given' = Given \cup {Next1}
    <3>1. now + Lifetime \in Nat
      BY <1>a
    <3>2. QED
      BY <1>6, <1>a, <3>1, Appended DEF Issue
  <2>2. live' \subseteq live \cup {Next1}
    BY <1>6 DEF Issue
  <2>3. QED
    BY <1>a, <2>1, <2>2
<1>7. ASSUME NEW a \in Actors, FetchLost(a)
      PROVE  Typed'
  BY <1>4, <1>6, <1>7, <1>a DEF FetchLost, store, Fault
<1>8. ASSUME NEW a \in Actors, Fetch(a)
      PROVE  Typed'
  <2>1. Next1 \in Given' /\ live' \subseteq Given'
    BY <1>6, <1>8 DEF Fetch
  <2>2. Apply(a) \in Cells'
    <3>1. at[a].held["refresh"] \in Given' \cup {NoToken}
      BY RequestFields, CellsAre, SecretsTwo, GrantsGrow
    <3>2. QED
      BY <2>1, <3>1 DEF Apply, Cells, Secrets
  <2>3. at'[a] \in Request'
    <3>1. at[a] \in Request' /\ now + Lifetime \in Nat
      BY <1>a, RequestFields, GrantsGrow
    <3>2. at'[a] = [at[a] EXCEPT !.pc = "select", !.held = Apply(a), !.expires = now + Lifetime]
      BY <1>8, FetchMoves
    <3>3. QED
      BY <2>2, <3>1, <3>2 DEF Request
  <2>4. at[a].id # 0
    <3>1. a \in Busy /\ at[a].op # "save"
      BY <1>8, FetchMoves DEF Busy, Calling
    <3>2. QED
      BY <3>1 DEF Typed, Steps
  <2>5. Steps(a)'
    BY <1>8, <2>4, FetchMoves DEF Steps, Same, Reading, Writing, Wiping, WithVault, Calling
  <2>6. at' = [at EXCEPT ![a] = at'[a]]
    BY <1>8, <1>c DEF Fetch, Typed
  <2>7. at'[a].expires <= now' + Lifetime /\ now' = now
    <3>1. at'[a].expires = now + Lifetime /\ now' = now
      BY <1>8, FetchMoves
    <3>2. QED
      BY <1>a, <3>1
  <2>8. /\ Others(a) /\ UNCHANGED <<setting, row, vault, history, faults>>
    BY <1>8, FetchMoves
  <2>9. QED
    BY <1>a, <2>1, <2>3, <2>5, <2>6, <2>7, <2>8, MoveTyped DEF history
<1>9. ASSUME NEW a \in Actors, Select(a)
      PROVE  Typed'
  <2>1. at' = [at EXCEPT ![a] = at'[a]]
    <3>1. CASE row.id = 0
      BY <1>9, <1>b, <3>1 DEF Select
    <3>2. CASE row.id # 0
      BY <1>9, <3>2 DEF Select, Typed
    <3>3. QED
      BY <3>1, <3>2
  <2>2. at'[a] \in Request' /\ at'[a].expires <= now' + Lifetime /\ Steps(a)'
    <3>1. CASE row.id = 0
      BY <1>9, <3>1, SelectMoves, DoneTyped
    <3>2. CASE row.id # 0
      <4>1. /\ at'[a].op = at[a].op /\ at'[a].loaded = row.cols /\ at[a].pc = "select"
            /\ at'[a].pc = Write /\ at'[a].id = row.id /\ at'[a].expires = at[a].expires
            /\ at'[a].held = at[a].held /\ at'[a].cols = row.cols
            /\ at'[a] = [at[a] EXCEPT !.pc = Write, !.id = row.id, !.loaded = row.cols,
                                      !.cols = row.cols]
            /\ now' = now /\ setting' = setting
        BY <1>9, <3>2, SelectMoves, Zenon
      <4>2. /\ at[a] \in Request /\ row.id \in Nat /\ row.cols \in Cells
            /\ at[a].expires <= now + Lifetime /\ Steps(a) /\ a \in Busy
        BY <4>1, RequestFields DEF Typed, TypeOK, Busy
      <4>3. Write \in Writing /\ (~setting.vaulted => Write \notin WithVault)
        BY DEF Write, Writing, WithVault
      <4>4. at'[a] \in Request
        BY <4>1, <4>2, <4>3 DEF Request
      <4>5. Steps(a)'
        BY <3>2, <4>1, <4>2, <4>3 DEF Steps, Reading, Writing, Wiping, Calling
      <4>6. QED
        BY <4>1, <4>2, <4>4, <4>5, GrantsGrow
    <3>3. QED
      BY <3>1, <3>2
  <2>3. QED
    BY <1>9, <1>a, <2>1, <2>2, SelectMoves, MoveTyped DEF idp, history
<1>10. ASSUME NEW a \in Actors, NEW replace \in BOOLEAN, Enter(a, replace)
       PROVE  Typed'
  <2>1. /\ Write \in Writing /\ (~setting.vaulted => Write \notin WithVault)
        /\ Write \notin {"readrefresh", "readaccess"}
    BY DEF Write, Writing, WithVault
  <2>2. a \in Busy /\ at[a].op # "delete" /\ "refresh" \in Secrets
    BY <1>10, EnterMoves, SecretsTwo DEF Busy
  <2>3. UNCHANGED <<now, setting, row, vault, history, faults>>
    BY <1>10, EnterMoves
  <2>4. at' = [at EXCEPT ![a] = at'[a]]
    BY <1>10, <1>c DEF Enter, Typed
  <2>5. /\ \E t \in Given' \cup {NoToken} : Sets(a, "refresh", t, Write)
        /\ live' \subseteq Given'
    <3>1. CASE ~replace
      <4>1. Sets(a, "refresh", at[a].held["refresh"], Write) /\ live' = live
        BY <1>10, <3>1 , EnterMoves DEF idp
      <4>2. at[a].held["refresh"] \in Given' \cup {NoToken}
        BY <2>2, RequestFields, CellsAre, GrantsGrow
      <4>3. QED
        BY <1>a, <4>1, <4>2
    <3>2. CASE replace
      <4>1. /\ Sets(a, "refresh", Next1, Write) /\ live' = live \cup {Next1}
            /\ grants' = Append(grants, 0)
        BY <1>10, <3>2, EnterMoves
      <4>2. Given' = Given \cup {Next1}
        BY <1>a, <4>1, Appended
      <4>3. QED
        BY <1>a, <4>1, <4>2
    <3>3. QED
      BY <3>1, <3>2
  <2>6. at'[a] \in Request' /\ at'[a].expires <= now' + Lifetime /\ Steps(a)'
    BY <2>1, <2>2, <2>3, <2>5, SetsTyped
  <2>7. Others(a)
    BY <2>5 DEF Sets
  <2>8. QED
    BY <1>a, <2>3, <2>4, <2>5, <2>6, <2>7, MoveTyped DEF history
\* The steps that reach the stores.
<1>d. ASSUME NEW a \in Actors, at'[a] \in Request', Others(a), Steps(a)',
             at'[a].expires <= now' + Lifetime,
             UNCHANGED <<now, setting, idp, history, faults>>,
             row' \in [id : Nat, expires : Nat, cols : Cells], vault' \in Cells,
             row'.id = 0 => row' = NoRow, row'.expires <= now + Lifetime,
             ~setting.vaulted => vault' = vault, DOMAIN at' = Actors,
             at' \in [Actors -> {at'[b] : b \in Actors}]
      PROVE  Typed'
  <2>1. \A b \in Actors : at'[b] \in Request'
    BY <1>d, GrantsGrow, RequestFields DEF Others
  <2>2. at' \in [Actors -> Request'] /\ \A b \in Actors : at'[b].op \in Operations
    BY <1>d, <2>1 DEF Request
  <2>3. \A b \in Actors : at'[b].expires <= now' + Lifetime /\ Steps(b)'
    <3>1. ASSUME NEW b \in Actors, b # a
          PROVE  at'[b].expires <= now' + Lifetime /\ Steps(b)'
      BY <1>d, <3>1 DEF Typed, Others, Steps, Busy
    <3>2. QED
      BY <1>d, <3>1
  <2>4. row'.cols \in Cells /\ row'.id \in Nat /\ row'.expires \in Nat
    BY <1>d
  <2>5. Cells \subseteq [Secrets -> Tokens]
    BY DEF Cells, Given, Tokens
  <2>6. row' \in [id : Nat, expires : Nat, cols : [Secrets -> Tokens]]
    BY <1>d, <2>5
  <2>7. TypeOK'
    BY <1>d, <2>2, <2>5, <2>6 DEF Typed, TypeOK, idp, history
  <2>8. QED
    BY <1>d, <2>2, <2>3, <2>4, <2>7, GrantsGrow DEF Typed
<1>11. ASSUME NEW a \in Actors, NEW s \in Secrets, NEW next, WriteSecret(a, s, next),
              at[a].pc \in {"writerefresh", "writeaccess"}, next \in {"writeaccess", "commit"}
       PROVE  Typed'
  <2>1. /\ UNCHANGED <<now, setting, idp, row, history, faults>>
        /\ vault' = [vault EXCEPT ![s] = at[a].held[s]]
        /\ Others(a) /\ Same(a)
        /\ at'[a].pc = next /\ at'[a].id = at[a].id /\ at'[a].expires = at[a].expires
        /\ at'[a].held = at[a].held /\ at'[a].cols = [at[a].cols EXCEPT ![s] = NoToken]
        /\ at'[a] = [at[a] EXCEPT !.pc = next, !.cols = [at[a].cols EXCEPT ![s] = NoToken]]
    BY <1>11, WriteMoves
  <2>2. /\ Steps(a) /\ at[a] \in Request /\ at[a].expires <= now + Lifetime /\ a \in Busy
        /\ setting.vaulted /\ at[a].op # "delete"
    BY <1>11, RequestFields DEF Typed, Steps, Busy, WithVault, Writing
  <2>3. [at[a].cols EXCEPT ![s] = NoToken] \in Cells /\ vault' \in Cells
    BY <2>1, RequestFields, CellsAre DEF Typed
  <2>4. at'[a] \in Request'
    <3>1. next \in Writing
      BY <1>11 DEF Writing
    <3>2. at'[a] \in Request
      BY <2>1, <2>2, <2>3, <3>1 DEF Request
    <3>3. QED
      BY <3>2, GrantsGrow
  <2>5. at[a].cols = None => [at[a].cols EXCEPT ![s] = NoToken] = None
    BY DEF None
  <2>6. Steps(a)'
    BY <1>11, <2>1, <2>2, <2>5 DEF Steps, Same, Reading, Writing, Wiping
  <2>7. row \in [id : Nat, expires : Nat, cols : Cells] /\ (row.id = 0 => row = NoRow)
        /\ row.expires <= now + Lifetime
    BY DEF Typed, TypeOK
  <2>8. DOMAIN at' = Actors /\ at' \in [Actors -> {at'[b] : b \in Actors}]
    BY <1>11 DEF WriteSecret, Typed
  <2>9. QED
    BY <1>d, <2>1, <2>2, <2>3, <2>4, <2>6, <2>7, <2>8
<1>12. ASSUME NEW a \in Actors, Commit(a)
       PROVE  Typed'
  <2>1. /\ at[a].pc = "commit" /\ at'[a] = Done /\ Others(a)
        /\ UNCHANGED <<now, setting, idp, vault, history, faults>>
    BY <1>12, CommitMoves
  <2>2. /\ Assigned(a) \in Cells /\ row.cols \in Cells /\ row.id \in Nat /\ row.expires \in Nat
        /\ row.expires <= now + Lifetime /\ at[a].expires <= now + Lifetime
        /\ at[a].expires \in Nat /\ row \in [id : Nat, expires : Nat, cols : Cells]
        /\ row.id = 0 => row = NoRow
    BY RequestFields DEF Assigned, Typed, TypeOK
  <2>3. [s \in Secrets |-> IF Assigned(a)[s] # at[a].loaded[s]
                           THEN Assigned(a)[s] ELSE row.cols[s]] \in Cells
    BY <2>2 DEF Cells
  <2>4. /\ row' \in [id : Nat, expires : Nat, cols : Cells] /\ row'.expires <= now + Lifetime
        /\ row'.id = 0 => row' = NoRow
    <3>1. CASE row' = [id |-> NewId, expires |-> 0, cols |-> Assigned(a)]
      BY <1>a, <2>2, <3>1, NewIdIsNew
    <3>2. CASE row' = row
      BY <2>2, <3>2
    <3>3. CASE /\ row'.id = row.id /\ row.id # 0
               /\ row'.expires = IF at[a].op = "save" THEN row.expires ELSE at[a].expires
               /\ row'.cols = [s \in Secrets |-> IF Assigned(a)[s] # at[a].loaded[s]
                                                 THEN Assigned(a)[s] ELSE row.cols[s]]
               /\ row' \in [id : {row.id}, expires : {row'.expires}, cols : {row'.cols}]
      BY <2>2, <2>3, <3>3
    <3>4. QED
      BY <1>12, <3>1, <3>2, <3>3, CommitMoves
  <2>5. at'[a] \in Request' /\ at'[a].expires <= now' + Lifetime /\ Steps(a)'
    BY <2>1, DoneTyped
  <2>6. DOMAIN at' = Actors /\ at' \in [Actors -> {at'[b] : b \in Actors}] /\ vault' \in Cells
    BY <1>12, <2>1 DEF Commit, CommitWith, Finish, Typed
  <2>7. QED
    BY <1>d, <2>1, <2>4, <2>5, <2>6
<1>13. ASSUME NEW a \in Actors, NEW next, at[a].pc \in Writing \cup Wiping, Goto(a, next), at[a].op # "delete" => next = "commit",
              at[a].op = "delete" => next \in {"wipeaccess", "erase"}, setting.vaulted, now' = now, setting' = setting
       PROVE  at'[a] \in Request' /\ at'[a].expires <= now' + Lifetime /\ Steps(a)' /\ Others(a)
  <2>1. /\ at'[a] = [at[a] EXCEPT !.pc = next] /\ Others(a) /\ Same(a)
        /\ at'[a].pc = next /\ at'[a].id = at[a].id /\ at'[a].expires = at[a].expires
        /\ at'[a].held = at[a].held /\ at'[a].cols = at[a].cols
    BY <1>13, GotoMoves
  <2>2. /\ Steps(a) /\ at[a] \in Request /\ at[a].expires <= now + Lifetime /\ a \in Busy
    BY <1>13, RequestFields DEF Typed, Busy, Writing, Wiping
  <2>3. at'[a] \in Request
    BY <1>13, <2>1, <2>2 DEF Request, Writing, Wiping
  <2>4. Steps(a)'
    BY <1>13, <2>1, <2>2 DEF Steps, Same, Reading, Writing, Wiping
  <2>5. QED
    BY <1>13, <2>1, <2>2, <2>3, <2>4, GrantsGrow
<1>14. ASSUME NEW a \in Actors, WipeRefresh(a) \/ WipeAccess(a)
       PROVE  Typed'
  <2>1. /\ at[a].pc \in Wiping /\ at[a].op = "delete" /\ setting.vaulted
        /\ at[a].pc \in {"wiperefresh", "wipeaccess"}
        /\ UNCHANGED <<now, setting, idp, row, history, faults>>
    BY <1>14 DEF WipeRefresh, WipeAccess, Wiping, Typed, Steps, WithVault
  <2>2. \E next \in {"wipeaccess", "erase"} : Goto(a, next)
    BY <1>14 DEF WipeRefresh, WipeAccess
  <2>3. at'[a] \in Request' /\ at'[a].expires <= now' + Lifetime /\ Steps(a)' /\ Others(a)
    BY <1>13, <2>1, <2>2
  <2>4. vault' \in Cells
    BY <1>14, SecretsTwo, CellsAre DEF WipeRefresh, WipeAccess, Typed
  <2>5. row \in [id : Nat, expires : Nat, cols : Cells] /\ (row.id = 0 => row = NoRow)
        /\ row.expires <= now + Lifetime
    BY DEF Typed, TypeOK
  <2>6. DOMAIN at' = Actors /\ at' \in [Actors -> {at'[b] : b \in Actors}]
    BY <2>2 DEF Goto, Typed
  <2>7. QED
    BY <1>d, <2>1, <2>3, <2>4, <2>5, <2>6
<1>15. ASSUME NEW a \in Actors, Erase(a)
       PROVE  Typed'
  <2>1. at'[a] = Done /\ Others(a) /\ row' = NoRow
        /\ UNCHANGED <<now, setting, idp, vault, history, faults>>
    BY <1>15, FinishMoves DEF Erase
  <2>2. at'[a] \in Request' /\ at'[a].expires <= now' + Lifetime /\ Steps(a)'
    BY <2>1, DoneTyped
  <2>3. NoRow \in [id : Nat, expires : Nat, cols : Cells] /\ NoRow.expires <= now + Lifetime
    BY <1>a, CellsAre DEF NoRow
  <2>4. DOMAIN at' = Actors /\ at' \in [Actors -> {at'[b] : b \in Actors}] /\ vault' \in Cells
    BY <1>15, <2>1 DEF Erase, Finish, Typed
  <2>5. QED
    BY <1>d, <2>1, <2>2, <2>3, <2>4
<1>16. ASSUME NEW a \in Actors, WipeMissed(a) \/ WriteSwallowed(a)
       PROVE  Typed'
  <2>1. /\ at[a].pc \in Writing \cup Wiping /\ setting.vaulted
        /\ at[a].pc \in {"wiperefresh", "wipeaccess", "writerefresh", "writeaccess"}
        /\ UNCHANGED <<now, setting, grants, live, row, vault, crossed>>
    BY <1>16 DEF WipeMissed, WriteSwallowed, Writing, Wiping, Typed, Steps, WithVault, store, idp,
                 history
  <2>2. /\ faults' \in 0..MaxFaults /\ swallowed' \in BOOLEAN
    <3>1. faults < MaxFaults /\ faults' = faults + 1 /\ swallowed' \in {swallowed, TRUE}
      BY <1>16 DEF WipeMissed, WriteSwallowed, Fault, history
    <3>2. swallowed' \in BOOLEAN
      BY <1>a, <3>1, Zenon
    <3>3. faults' \in 0..MaxFaults
      BY <1>a, <3>1
    <3>4. QED
      BY <3>2, <3>3
  <2>3. \E next : /\ Goto(a, next) /\ (at[a].op # "delete" => next = "commit")
                  /\ (at[a].op = "delete" => next \in {"wipeaccess", "erase"})
    BY <1>16 DEF WipeMissed, WriteSwallowed, Typed, Steps, Writing, Wiping
  <2>4. at'[a] \in Request' /\ at'[a].expires <= now' + Lifetime /\ Steps(a)' /\ Others(a)
    BY <1>13, <2>1, <2>3
  <2>5. at' = [at EXCEPT ![a] = at'[a]]
    BY <2>3, <1>c, <2>4 DEF Goto, Typed
  <2>6. QED
    BY <1>a, <2>1, <2>2, <2>4, <2>5, MoveTyped
<1>17. ASSUME Tick \/ UNCHANGED vars
       PROVE  Typed'
  <2>1. UNCHANGED <<setting, grants, live, row, vault, at, crossed, swallowed, faults>>
    BY <1>17 DEF Tick, vars, idp, store, history
  <2>2. now' \in 0..MaxTime /\ now <= now'
    BY <1>17, <1>a DEF Tick, vars
  <2>3. row.expires <= now' + Lifetime /\ \A a \in Actors : at[a].expires <= now' + Lifetime
    <3>1. now + Lifetime <= now' + Lifetime /\ now + Lifetime \in Nat /\ now' + Lifetime \in Nat
      <4>1. now \in Nat /\ now' \in Nat /\ Lifetime \in Nat /\ now <= now'
        BY <1>a, <2>2
      <4>2. QED
        BY <4>1, Sums, Zenon
    <3>2. row.expires \in Nat /\ \A a \in Actors : at[a].expires \in Nat
      BY RequestFields DEF Typed, TypeOK
    <3>3. QED
      BY <3>1, <3>2 DEF Typed
  <2>4. \A a \in Actors : Steps(a)'
    BY <2>1 DEF Typed, Steps, Busy
  <2>5. TypeOK' /\ at' \in [Actors -> Request'] /\ row'.cols \in Cells' /\ vault' \in Cells'
    BY <2>1, <2>2 DEF Typed, TypeOK, Request, Cells, Given
  <2>6. QED
    BY <2>1, <2>3, <2>4, <2>5 DEF Typed
<1>18. ASSUME NEW a \in Actors, WriteRefresh(a) \/ WriteAccess(a)
       PROVE  Typed'
  <2>1. "refresh" \in Secrets /\ "access" \in Secrets
    BY SecretsTwo
  <2>2. QED
    BY <1>11, <1>18, <2>1 DEF WriteRefresh, WriteAccess
<1>19. QED
  BY <1>1, <1>3, <1>5, <1>7, <1>8, <1>9, <1>10, <1>12, <1>14, <1>15, <1>16, <1>17, <1>18 DEF Next

----------------------------------------------------------------------------
(* Requests that overlap.                                                   *)

\* The steps of an operation that has begun.
Work(a) ==
    \/ ReadRefresh(a) \/ ReadAccess(a) \/ UseStored(a) \/ Fetch(a) \/ Refused(a)
    \/ FetchLost(a) \/ Select(a) \/ WriteRefresh(a) \/ WriteAccess(a) \/ Commit(a)
    \/ (\E replace \in BOOLEAN : Enter(a, replace))
    \/ WipeRefresh(a) \/ WipeAccess(a) \/ Erase(a) \/ WipeMissed(a) \/ WriteSwallowed(a)
    \/ Die(a)

LEMMA NextSplit ==
  ASSUME [Next]_vars
  PROVE  \/ \E a \in Actors : Work(a) \/ \E op \in Operations : Begin(a, op)
         \/ Tick \/ UNCHANGED vars
BY DEF Next, Work

LEMMA GoesOn ==
  ASSUME Typed, NEW a \in Actors, Work(a)
  PROVE  /\ a \in Busy /\ Others(a) /\ crossed' = crossed /\ setting' = setting
         /\ at'[a] = Done \/ at'[a].op = at[a].op
<1>1. CASE UseStored(a) \/ Refused(a) \/ FetchLost(a) \/ Die(a) \/ Erase(a)
  <2>1. Finish(a) /\ a \in Busy /\ crossed' = crossed /\ setting' = setting
    BY <1>1 DEF UseStored, Refused, FetchLost, Issue, Asks, Die, Erase, Busy, history
  <2>2. QED
    BY <2>1, FinishMoves
<1>2. CASE ReadRefresh(a) \/ ReadAccess(a)
  <2>1. a \in Busy /\ crossed' = crossed /\ setting' = setting
    BY <1>2 DEF ReadRefresh, ReadAccess, Busy, history
  <2>2. Others(a) /\ Same(a)
    BY <1>2, ReadMoves DEF Sets
  <2>3. QED
    BY <2>1, <2>2 DEF Same
<1>3. CASE Fetch(a)
  BY <1>3, FetchMoves DEF Busy, history, Same
<1>4. CASE Select(a)
  BY <1>4, SelectMoves DEF Busy, history
<1>5. CASE Commit(a)
  BY <1>5, CommitMoves DEF Busy, history
<1>6. ASSUME NEW replace \in BOOLEAN, Enter(a, replace)
      PROVE  /\ a \in Busy /\ Others(a) /\ crossed' = crossed /\ setting' = setting
             /\ at'[a].op = at[a].op
  BY <1>6, EnterMoves DEF Busy, history, Sets, Same
<1>7. CASE WriteRefresh(a) \/ WriteAccess(a)
  <2>1. /\ a \in Busy
        /\ WriteSecret(a, "refresh", "writeaccess") \/ WriteSecret(a, "access", "commit")
    BY <1>7 DEF WriteRefresh, WriteAccess, Busy
  <2>2. QED
    BY <2>1, WriteMoves, SecretsTwo DEF history, Same
<1>8. CASE WipeRefresh(a) \/ WipeAccess(a) \/ WipeMissed(a) \/ WriteSwallowed(a)
  <2>1. /\ a \in Busy /\ crossed' = crossed /\ setting' = setting
        /\ Goto(a, "wipeaccess") \/ Goto(a, "erase") \/ Goto(a, "commit")
    BY <1>8 DEF WipeRefresh, WipeAccess, WipeMissed, WriteSwallowed, Busy, history
  <2>2. QED
    BY <2>1, GotoMoves DEF Same
<1>9. QED
  BY <1>1, <1>2, <1>3, <1>4, <1>5, <1>6, <1>7, <1>8 DEF Work

LEMMA BusyMoves ==
  ASSUME Typed, NEW a \in Actors, Others(a)
  PROVE  /\ \A b \in Busy' : b = a \/ (b # a /\ b \in Busy /\ at'[b] = at[b])
         /\ at'[a] = Done => \A b \in Busy' : b # a /\ b \in Busy /\ at'[b] = at[b]
         /\ \A b \in Busy : b = a \/ (b # a /\ b \in Busy' /\ at'[b] = at[b])
         /\ Busy \subseteq Actors /\ Busy' \subseteq Actors
         /\ \A b \in Actors \ {a} : at'[b] = at[b]
<1>1. \A b \in Actors \ {a} : at'[b] = at[b]
  BY DEF Others
<1>2. \A b \in Busy' : b = a \/ (b # a /\ b \in Busy /\ at'[b] = at[b])
  BY <1>1 DEF Busy
<1>3. at'[a] = Done => a \notin Busy'
  BY DoneFields DEF Busy
<1>4. \A b \in Busy : b = a \/ (b # a /\ b \in Busy' /\ at'[b] = at[b])
  BY <1>1 DEF Busy
<1>5. Busy \subseteq Actors /\ Busy' \subseteq Actors
  BY DEF Busy
<1>6. QED
  BY <1>1, <1>2, <1>3, <1>4, <1>5

LEMMA Idles ==
  ASSUME Tick \/ UNCHANGED vars
  PROVE  UNCHANGED <<setting, grants, live, row, vault, at, crossed, swallowed, faults, Busy>>
BY DEF Tick, vars, idp, store, history, Busy

LEMMA OverlapsStep ==
  ASSUME Typed, Overlaps, [Next]_vars
  PROVE  Overlaps'
<1>1. ASSUME NEW a \in Actors, a \in Busy, Others(a), crossed' = crossed,
             at'[a] = Done \/ at'[a].op = at[a].op
      PROVE  Overlaps'
  <2>1. \A b \in Busy' : b \in Busy /\ at'[b].op = at[b].op
    BY <1>1, BusyMoves, BusyIs
  <2>2. QED
    BY <1>1, <2>1 DEF Overlaps, EditsAlone
<1>2. ASSUME NEW a \in Actors, NEW op \in Operations, Begin(a, op)
      PROVE  Overlaps'
  <2>1. Others(a) /\ (at'[a].op \in Edits => op \in Edits)
    BY <1>2, BeginMoves, DoneFields DEF Edits, Idle
  <2>2. CASE Busy = {}
    BY <2>1, <2>2, BusyMoves DEF Overlaps
  <2>3. CASE Busy # {}
    <3>1. crossed' # {} /\ (EditsAlone => crossed' \in SUBSET {"calls", "edits"})
      BY <1>2, <2>3 DEF Begin, Typed, TypeOK
    <3>2. ASSUME EditsAlone'
          PROVE  \A b \in Busy' : at'[b].op \notin Edits
      <4>1. op \notin Edits /\ \A b \in Busy : at[b].op \notin Edits
        BY <1>2, <2>3, <3>2 DEF Begin, EditsAlone
      <4>2. at'[a].op \notin Edits
        BY <2>1, <4>1
      <4>3. QED
        BY <2>1, <4>1, <4>2, BusyMoves
    <3>3. QED
      BY <3>1, <3>2 DEF Overlaps
  <2>4. QED
    BY <2>2, <2>3
<1>3. Tick \/ UNCHANGED vars => Overlaps'
  BY Idles DEF Overlaps, EditsAlone
<1>4. QED
  BY <1>1, <1>2, <1>3, GoesOn, NextSplit

\* What a request that goes on knows of the row.
LEMMA RowKnown ==
  ASSUME Typed, NEW a \in Actors, Work(a), ~Commit(a), ~Erase(a)
  PROVE  /\ row' = row
         /\ at'[a] = Done \/ (/\ at'[a].op = at[a].op
                              /\ \/ at'[a].id = at[a].id /\ at'[a].loaded = at[a].loaded
                                 \/ at'[a].id = row.id /\ at'[a].loaded = row.cols)
<1>1. CASE UseStored(a) \/ Refused(a) \/ FetchLost(a) \/ Die(a)
  BY <1>1, FinishMoves DEF UseStored, Refused, FetchLost, Die, store
<1>2. CASE ReadRefresh(a) \/ ReadAccess(a)
  BY <1>2, ReadMoves DEF ReadRefresh, ReadAccess, store, Sets, Same
<1>3. CASE Fetch(a)
  BY <1>3, FetchMoves DEF Same
<1>4. CASE Select(a)
  BY <1>4, SelectMoves
<1>5. ASSUME NEW replace \in BOOLEAN, Enter(a, replace)
      PROVE  row' = row /\ Same(a) /\ at'[a].id = at[a].id
  BY <1>5, EnterMoves DEF Sets
<1>6. CASE WriteRefresh(a) \/ WriteAccess(a)
  <2>1. WriteSecret(a, "refresh", "writeaccess") \/ WriteSecret(a, "access", "commit")
    BY <1>6 DEF WriteRefresh, WriteAccess
  <2>2. QED
    BY <2>1, WriteMoves, SecretsTwo DEF Same
<1>7. CASE WipeRefresh(a) \/ WipeAccess(a) \/ WipeMissed(a) \/ WriteSwallowed(a)
  <2>1. /\ row' = row
        /\ Goto(a, "wipeaccess") \/ Goto(a, "erase") \/ Goto(a, "commit")
    BY <1>7 DEF WipeRefresh, WipeAccess, WipeMissed, WriteSwallowed, store
  <2>2. QED
    BY <2>1, GotoMoves DEF Same
<1>8. QED
  BY <1>1, <1>2, <1>3, <1>4, <1>5, <1>6, <1>7 DEF Work, Same

\* Without overlaps the row is the one that the request has read.
LEMMA SameRowStep ==
  ASSUME Typed, Overlaps, SameRow, [Next]_vars
  PROVE  SameRow'
<1> SUFFICES ASSUME setting'.vaulted, EditsAlone', NEW b \in Busy'
             PROVE  /\ at'[b].id = row'.id
                    /\ at'[b].op \in Edits \/ crossed' = {} => at'[b].loaded = row'.cols
  BY DEF SameRow
<1>a. Overlaps' /\ b \in Actors
  BY OverlapsStep DEF Busy
<1>1. ASSUME NEW a \in Actors, NEW op \in Operations, Begin(a, op)
      PROVE  /\ at'[b].id = row'.id
             /\ at'[b].op \in Edits \/ crossed' = {} => at'[b].loaded = row'.cols
  <2>1. setting' = setting /\ row' = row /\ Others(a) /\ crossed \subseteq crossed'
    BY <1>1, BeginMoves DEF Begin
  <2>2. CASE b = a
    <3>1. at'[a] # Done
      BY <2>2, DoneFields DEF Busy
    <3>2. row.id = 0 => row = NoRow
      BY DEF Typed
    <3>3. QED
      BY <1>1, <2>1, <2>2, <3>1, <3>2, BeginMoves DEF NoRow
  <2>3. CASE b # a
    <3>1. b \in Busy /\ at'[b] = at[b]
      BY <2>1, <2>3, BusyMoves
    <3>2. EditsAlone /\ (crossed' = {} => crossed = {})
      BY <2>1 DEF EditsAlone
    <3>3. QED
      BY <2>1, <3>1, <3>2 DEF SameRow
  <2>4. QED
    BY <2>2, <2>3
<1>2. ASSUME NEW a \in Actors, a \in Busy, Others(a), crossed' = crossed, setting' = setting,
             at'[a] = Done \/ (/\ at'[a].op = at[a].op
                               /\ \/ at'[a].id = at[a].id /\ at'[a].loaded = at[a].loaded
                                  \/ at'[a].id = row.id /\ at'[a].loaded = row.cols),
             row' = row
      PROVE  /\ at'[b].id = row'.id
             /\ at'[b].op \in Edits \/ crossed' = {} => at'[b].loaded = row'.cols
  BY <1>2, BusyMoves, BusyIs DEF SameRow, EditsAlone
<1>3. ASSUME NEW a \in Actors, Commit(a)
      PROVE  /\ at'[b].id = row'.id
             /\ at'[b].op \in Edits \/ crossed' = {} => at'[b].loaded = row'.cols
  <2>1. a \in Busy /\ at'[a] = Done /\ Others(a) /\ crossed' = crossed /\ setting' = setting
    BY <1>3, CommitMoves DEF Busy, history
  <2>2. b # a /\ b \in Busy /\ at'[b] = at[b]
    BY <2>1, BusyMoves
  <2>3. at[a].op \notin Edits /\ at[b].op \notin Edits /\ crossed' # {}
    BY <2>1, <2>2 DEF Overlaps, EditsAlone
  <2>4. at[b].id = row.id /\ at[a].id # 0
    BY <2>1, <2>2, <2>3 DEF SameRow, EditsAlone, Typed, Steps, Edits
  <2>5. row'.id = row.id
    BY <1>3, <2>4, CommitMoves
  <2>6. QED
    BY <2>2, <2>3, <2>4, <2>5
<1>4. ASSUME NEW a \in Actors, Erase(a)
      PROVE  FALSE
  <2>1. a \in Busy /\ at'[a] = Done /\ Others(a) /\ crossed' = crossed /\ at[a].op = "delete"
    BY <1>4, FinishMoves DEF Erase, Busy, history, Typed, Steps, Wiping
  <2>2. b # a /\ b \in Busy
    BY <2>1, BusyMoves
  <2>3. QED
    BY <2>1, <2>2 DEF Overlaps, EditsAlone, Edits
<1>5. CASE Tick \/ UNCHANGED vars
  BY <1>5, Idles DEF SameRow, EditsAlone
<1>6. QED
  BY <1>1, <1>2, <1>3, <1>4, <1>5, RowKnown, GoesOn, NextSplit

----------------------------------------------------------------------------
(* Where the tokens of a step come from.                                    *)

Has(a, s, t) == t \in {at[a].held[s], at[a].loaded[s], at[a].cols[s]}

LEMMA GivenIsNat ==
  ASSUME Typed
  PROVE  /\ NoToken \notin Given /\ Given \subseteq Nat /\ Next1 \notin Given
         /\ None["refresh"] = NoToken /\ None["access"] = NoToken
         /\ grants \in Seq(Nat)
BY BrokerAssumption DEF Typed, TypeOK, Given, Next1, None, Secrets

LEMMA ApplyFields ==
  ASSUME NEW a
  PROVE  /\ Apply(a)["access"] = Next1
         /\ Apply(a)["refresh"] = IF Rotates THEN Next1 ELSE at[a].held["refresh"]
BY DEF Apply

\* A token comes from the request itself, from the row or from Vault, or has just
\* been given, and a refresh token that has is accepted.
LEMMA Sources ==
  ASSUME Typed, NEW a \in Actors, Work(a) \/ \E op \in Operations : Begin(a, op),
         NEW s \in Secrets, NEW t, t # NoToken
  PROVE  /\ row'.cols[s] = t => row.cols[s] = t \/ Has(a, s, t)
         /\ vault'[s] = t => vault[s] = t \/ Has(a, s, t)
         /\ Has(a, s, t)' => \/ Has(a, s, t) \/ row.cols[s] = t \/ vault[s] = t
                             \/ t = Next1 /\ (s = "refresh" => t \in live')
<1> USE SecretsTwo
<1>a. t # NoToken /\ None[s] = NoToken
  BY GivenIsNat
<1>b. at'[a] = Done => ~Has(a, s, t)'
  BY <1>a, DoneFields DEF Has
<1>1. CASE UseStored(a) \/ Refused(a) \/ FetchLost(a) \/ Die(a)
  <2>1. at'[a] = Done /\ row' = row /\ vault' = vault
    BY <1>1, FinishMoves DEF UseStored, Refused, FetchLost, Die, store
  <2>2. QED
    BY <1>b, <2>1
<1>2. CASE Commit(a)
  <2>1. at'[a] = Done /\ vault' = vault
    BY <1>2, CommitMoves
  <2>2. Assigned(a)[s] = t => Has(a, s, t)
    BY DEF Assigned, Has
  <2>3. row'.cols[s] = t => row.cols[s] = t \/ Assigned(a)[s] = t
    <3>1. row' = [id |-> NewId, expires |-> 0, cols |-> Assigned(a)] => row'.cols = Assigned(a)
      OBVIOUS
    <3> DEFINE cols == [u \in Secrets |-> IF Assigned(a)[u] # at[a].loaded[u]
                                          THEN Assigned(a)[u] ELSE row.cols[u]]
    <3>2. cols[s] \in {Assigned(a)[s], row.cols[s]}
      OBVIOUS
    <3>3. row'.cols = Assigned(a) \/ row' = row \/ row'.cols = cols
      BY <1>2, <3>1, CommitMoves
    <3> HIDE DEF cols
    <3>4. QED
      BY <3>2, <3>3
  <2>4. QED
    BY <1>b, <2>1, <2>2, <2>3
<1>3. CASE Erase(a)
  <2>1. at'[a] = Done /\ row'.cols = None /\ vault' = vault
    BY <1>3, FinishMoves DEF Erase, NoRow
  <2>2. QED
    BY <1>a, <1>b, <2>1
<1>4. ASSUME NEW u \in Secrets, NEW pc,
             Sets(a, u, Secret(u, at[a].loaded[u]), pc), row' = row, vault' = vault
      PROVE  Has(a, s, t)' => Has(a, s, t) \/ vault[s] = t
  <2>1. at'[a].held[s] = at[a].held[s] \/ at'[a].held[s] \in {at[a].loaded[s], vault[s]}
    BY <1>4, RequestFields DEF Sets, Cells, Secret
  <2>2. QED
    BY <1>4, <2>1 DEF Sets, Same, Has
<1>5. CASE ReadRefresh(a) \/ ReadAccess(a)
  <2>1. row' = row /\ vault' = vault
    BY <1>5 DEF ReadRefresh, ReadAccess, store
  <2>2. QED
    BY <1>4, <1>5, <2>1, ReadMoves
<1>6. CASE Fetch(a)
  <2>1. at'[a].held[s] = at[a].held[s] \/ (at'[a].held[s] = Next1 /\ (s = "refresh" => Rotates))
    <3>1. at'[a].held = Apply(a)
      BY <1>6, FetchMoves
    <3>2. QED
      BY <3>1, ApplyFields
  <2>2. Rotates => Next1 \in live'
    BY <1>6, FetchMoves
  <2>3. row' = row /\ vault' = vault /\ at'[a].loaded = at[a].loaded /\ at'[a].cols = at[a].cols
    BY <1>6, FetchMoves DEF Same
  <2>4. QED
    BY <2>1, <2>2, <2>3 DEF Has
<1>7. CASE Select(a)
  BY <1>7, <1>b, SelectMoves DEF Has
<1>8. ASSUME NEW replace \in BOOLEAN, Enter(a, replace)
      PROVE  /\ row' = row /\ vault' = vault
             /\ Has(a, s, t)' => Has(a, s, t) \/ (t = Next1 /\ t \in live')
  <2>1. at'[a].held[s] = at[a].held[s] \/ (at'[a].held[s] = Next1 /\ Next1 \in live')
    BY <1>8, EnterMoves, RequestFields DEF Sets, Cells
  <2>2. row' = row /\ vault' = vault /\ at'[a].loaded = at[a].loaded /\ at'[a].cols = at[a].cols
    BY <1>8, EnterMoves DEF Sets, Same
  <2>3. QED
    BY <2>1, <2>2 DEF Has
<1>9. CASE WriteRefresh(a) \/ WriteAccess(a)
  <2>1. PICK u \in Secrets : \E next : WriteSecret(a, u, next)
    BY <1>9 DEF WriteRefresh, WriteAccess
  <2>2. /\ row' = row /\ vault' = [vault EXCEPT ![u] = at[a].held[u]] /\ Same(a)
        /\ at'[a].held = at[a].held /\ at'[a].cols = [at[a].cols EXCEPT ![u] = NoToken]
    BY <2>1, WriteMoves
  <2>3. vault'[s] \in {vault[s], at[a].held[s]} /\ at'[a].cols[s] \in {at[a].cols[s], NoToken}
    BY <2>2, RequestFields DEF Typed, Cells
  <2>4. QED
    BY <1>a, <2>2, <2>3 DEF Same, Has
<1>10. CASE WipeRefresh(a) \/ WipeAccess(a) \/ WipeMissed(a) \/ WriteSwallowed(a)
  <2>1. /\ row' = row
        /\ Goto(a, "wipeaccess") \/ Goto(a, "erase") \/ Goto(a, "commit")
    BY <1>10 DEF WipeRefresh, WipeAccess, WipeMissed, WriteSwallowed, store
  <2>2. vault'[s] \in {vault[s], NoToken}
    BY <1>10 DEF WipeRefresh, WipeAccess, WipeMissed, WriteSwallowed, store, Typed, Cells
  <2>3. Has(a, s, t)' => Has(a, s, t)
    BY <2>1, GotoMoves DEF Same, Has
  <2>4. QED
    BY <1>a, <2>1, <2>2, <2>3
<1>11. ASSUME NEW op \in Operations, Begin(a, op)
       PROVE  row' = row /\ vault' = vault /\ (Has(a, s, t)' => row.cols[s] = t)
  BY <1>11, <1>a, <1>b, BeginMoves DEF Has
<1>12. QED
  BY <1>1, <1>2, <1>3, <1>5, <1>6, <1>7, <1>8, <1>9, <1>10, <1>11 DEF Work

LEMMA PrivateKept ==
  ASSUME Typed, NEW a \in Actors, Work(a) \/ \E op \in Operations : Begin(a, op), Others(a),
         NEW b \in Actors \ {a}, NEW s \in Secrets, Private(b, s)
  PROVE  Private(b, s)'
<1>0. PICK t : t = at[b].held[s]
  OBVIOUS
<1>1. t \in Given /\ t # NoToken
  BY <1>0, RequestFields, CellsAre DEF Private
<1>2. /\ row.cols[s] # t /\ vault[s] # t /\ ~Has(a, s, t)
      /\ at[b].loaded[s] # t /\ at[b].cols[s] # t
      /\ \A c \in Actors \ {a, b} : at[c].held[s] # t /\ at[c].loaded[s] # t /\ at[c].cols[s] # t
  BY <1>0 DEF Private, Has
<1>3. row'.cols[s] # t /\ vault'[s] # t /\ ~Has(a, s, t)'
  BY <1>1, <1>2, Sources, GivenIsNat
<1>4. t = at'[b].held[s] /\ \A c \in Actors \ {a} : at'[c] = at[c]
  BY <1>0 DEF Others
<1>5. QED
  BY <1>1, <1>2, <1>3, <1>4 DEF Private, Has

\* A token that has just been given is known to no one.
LEMMA NewIsPrivate ==
  ASSUME Typed
  PROVE  Next1 # NoToken /\ Next1 \in Nat /\ \A c \in Cells, s \in Secrets : c[s] # Next1
BY BrokerAssumption, CellsAre, GivenIsNat DEF Next1

LEMMA NewPrivate ==
  ASSUME Typed, NEW a \in Actors, Others(a), row' = row, vault' = vault, NEW s \in Secrets,
         at'[a].held[s] = Next1, at'[a].loaded = at[a].loaded, at'[a].cols = at[a].cols
  PROVE  Private(a, s)'
<1>1. row.cols \in Cells /\ vault \in Cells
  BY DEF Typed
<1>2. \A b \in Actors : /\ at[b].held[s] # Next1 /\ at[b].loaded[s] # Next1
                        /\ at[b].cols[s] # Next1
  BY RequestFields, NewIsPrivate
<1>3. QED
  BY <1>1, <1>2, NewIsPrivate DEF Private, Others

\* The selection of the row reads nothing but the row.
LEMMA SelectPrivate ==
  ASSUME Typed, NEW a \in Actors, Select(a), NEW s \in Secrets, Private(a, s), at'[a] # Done
  PROVE  Private(a, s)'
<1>1. /\ at'[a].held = at[a].held /\ at'[a].loaded = row.cols /\ at'[a].cols = row.cols
      /\ row' = row /\ vault' = vault /\ Others(a)
  BY SelectMoves
<1>2. \A b \in Actors \ {a} : at'[b] = at[b]
  BY <1>1 DEF Others
<1>3. QED
  BY <1>1, <1>2 DEF Private

LEMMA AccessStep ==
  ASSUME Typed, AccessInv, [Next]_vars
  PROVE  AccessInv'
<1>1. ASSUME NEW a \in Actors, Work(a) \/ \E op \in Operations : Begin(a, op), Others(a),
             setting' = setting, NEW b \in Actors \ {a}
      PROVE  /\ Fetched(b)' => /\ at'[b].held["access"] \in Given'
                               /\ at'[b].expires = grants'[at'[b].held["access"]]
             /\ Unstored(b)' => Private(b, "access")'
             /\ Edited(b)' => at'[b].held["access"] = at'[b].loaded["access"]
  <2>1. at'[b] = at[b] /\ (b \in Busy' <=> b \in Busy)
    BY <1>1 DEF Others, Busy
  <2>2. Fetched(b)' => /\ at'[b].held["access"] \in Given'
                       /\ at'[b].expires = grants'[at'[b].held["access"]]
    BY <2>1, GrantsGrow DEF AccessInv, Fetched
  <2>3. Unstored(b)' => Private(b, "access")'
    <3>1. Unstored(b)' => Unstored(b)
      BY <1>1, <2>1 DEF Unstored
    <3>2. QED
      BY <1>1, <3>1, PrivateKept, SecretsTwo DEF AccessInv
  <2>4. Edited(b)' => at'[b].held["access"] = at'[b].loaded["access"]
    BY <1>1, <2>1 DEF AccessInv, Edited
  <2>5. QED
    BY <2>2, <2>3, <2>4
<1>2. ASSUME NEW a \in Actors, at'[a] = Done
      PROVE  ~Fetched(a)' /\ ~Unstored(a)' /\ ~Edited(a)'
  BY <1>2, DoneFields DEF Fetched, Unstored, Edited, Writing, Busy
<1>3. ASSUME NEW a \in Actors, Work(a)
      PROVE  /\ Fetched(a)' => /\ at'[a].held["access"] \in Given'
                               /\ at'[a].expires = grants'[at'[a].held["access"]]
             /\ Unstored(a)' => Private(a, "access")'
             /\ Edited(a)' => at'[a].held["access"] = at'[a].loaded["access"]
  <2>a. setting' = setting /\ Others(a) /\ a \in Busy
    BY <1>3, GoesOn
  <2>1. CASE UseStored(a) \/ Refused(a) \/ FetchLost(a) \/ Die(a) \/ Commit(a) \/ Erase(a)
    <3>1. at'[a] = Done
      BY <2>1, FinishMoves, CommitMoves DEF UseStored, Refused, FetchLost, Die, Erase
    <3>2. QED
      BY <1>2, <3>1
  <2>2. CASE ReadRefresh(a) \/ ReadAccess(a)
    <3>1. at'[a].pc \in {"readaccess", "decide"}
      BY <2>2, ReadMoves DEF Sets
    <3>2. setting.vaulted
      BY <2>2 DEF ReadRefresh, ReadAccess, Typed, Steps, WithVault
    <3>3. QED
      BY <2>a, <3>1, <3>2 DEF Fetched, Unstored, Edited, Writing
  <2>3. CASE Fetch(a)
    <3>1. /\ at'[a].held["access"] = Next1 /\ at'[a].expires = now + Lifetime
          /\ at'[a].op \in Calling /\ Same(a) /\ at'[a].cols = at[a].cols /\ Others(a)
          /\ row' = row /\ vault' = vault
      <4>1. at'[a].held["access"] = Next1
        <5>1. at'[a].held = Apply(a)
          BY <2>3, FetchMoves
        <5>2. QED
          BY <5>1, ApplyFields
      <4>2. QED
        BY <2>3, <4>1, FetchMoves DEF Same
    <3>2. Next1 \in Given' /\ grants'[Next1] = now + Lifetime
      <4>1. now + Lifetime \in Nat /\ grants \in Seq(Nat)
        BY BrokerAssumption DEF Typed, TypeOK
      <4>2. QED
        BY <2>3, <4>1, FetchMoves, Appended
    <3>3. Private(a, "access")'
      BY <3>1, NewPrivate, SecretsTwo DEF Same
    <3>4. ~Edited(a)'
      BY <3>1 DEF Edited, Calling
    <3>5. QED
      BY <3>1, <3>2, <3>3, <3>4
  <2>4. CASE Select(a) /\ at'[a] # Done
    <3>1. /\ at[a].pc = "select" /\ at'[a].held = at[a].held /\ at'[a].expires = at[a].expires
          /\ at'[a].op = at[a].op /\ at[a].op \in Calling /\ grants' = grants
      BY <2>4, SelectMoves DEF Typed, Steps, idp
    <3>2. Fetched(a) /\ Unstored(a)
      BY <3>1 DEF Fetched, Unstored
    <3>3. Private(a, "access")'
      BY <2>4, <3>2, SelectPrivate, SecretsTwo DEF AccessInv
    <3>4. ~Edited(a)'
      BY <3>1 DEF Edited, Calling
    <3>5. QED
      BY <3>1, <3>2, <3>3, <3>4 DEF AccessInv, Given
  <2>5. ASSUME NEW replace \in BOOLEAN, Enter(a, replace)
        PROVE  /\ ~Fetched(a)' /\ ~Unstored(a)'
               /\ Edited(a)' => at'[a].held["access"] = at'[a].loaded["access"]
    <3>1. at[a].op = "save" /\ Same(a) /\ at'[a].held["access"] = at[a].held["access"]
      BY <2>5, EnterKeeps
    <3>2. QED
      BY <2>a, <3>1 DEF Same, Fetched, Unstored, Edited, Calling, AccessInv
  <2>6. CASE WriteRefresh(a) \/ WriteAccess(a)
    <3>1. /\ at[a].pc \in Writing /\ at'[a].pc \in {"writeaccess", "commit"} /\ Same(a)
          /\ at'[a].held = at[a].held /\ at'[a].expires = at[a].expires /\ grants' = grants
      BY <2>6, WriteMoves, SecretsTwo DEF WriteRefresh, WriteAccess, Writing, idp
    <3>2. setting.vaulted
      BY <2>6 DEF WriteRefresh, WriteAccess, Typed, Steps, WithVault
    <3>3. QED
      BY <2>a, <3>1, <3>2 DEF Same, Fetched, Unstored, Edited, AccessInv, Given
  <2>7. CASE WipeRefresh(a) \/ WipeAccess(a) \/ WipeMissed(a) \/ WriteSwallowed(a)
    <3>1. /\ Goto(a, "wipeaccess") \/ Goto(a, "erase") \/ (Goto(a, "commit") /\ setting.vaulted)
          /\ grants' = grants
          /\ at[a].pc \in Writing \/ at[a].op = "delete"
      BY <2>7 DEF WipeRefresh, WipeAccess, WipeMissed, WriteSwallowed, idp, Typed, Steps,
                  WithVault, Writing, Wiping
    <3>2. /\ Same(a) /\ at'[a].held = at[a].held /\ at'[a].expires = at[a].expires
          /\ at'[a].pc \in {"wipeaccess", "erase", "commit"}
          /\ at'[a].pc = "commit" => setting.vaulted
      <4>1. PICK pc \in {"wipeaccess", "erase", "commit"} :
              Goto(a, pc) /\ (pc = "commit" => setting.vaulted)
        BY <3>1
      <4>2. QED
        BY <4>1, GotoMoves
    <3>3. Edited(a)' => Edited(a)
      BY <2>a, <3>2 DEF Same, Edited
    <3>4. QED
      BY <2>a, <3>1, <3>2, <3>3 DEF Same, Fetched, Unstored, AccessInv, Given, Calling
  <2>8. QED
    BY <1>2, <1>3, <2>1, <2>2, <2>3, <2>4, <2>5, <2>6, <2>7 DEF Work
<1>4. ASSUME NEW a \in Actors, NEW op \in Operations, Begin(a, op)
      PROVE  /\ Others(a) /\ setting' = setting
             /\ ~Fetched(a)' /\ ~Unstored(a)'
             /\ Edited(a)' => at'[a].held["access"] = at'[a].loaded["access"]
  <2>1. CASE at'[a] = Done
    BY <1>2, <1>4, <2>1, BeginMoves
  <2>2. CASE at'[a] # Done
    <3>1. at'[a].held = at'[a].loaded /\ at'[a].pc \in Reading \cup Wiping
      BY <1>4, <2>2, BeginMoves DEF Reading
    <3>2. QED
      BY <1>4, <3>1, BeginMoves DEF Fetched, Unstored, Reading, Writing, Wiping
  <2>3. QED
    BY <2>1, <2>2
<1>5. CASE Tick \/ UNCHANGED vars
  BY <1>5, Idles DEF AccessInv, Fetched, Unstored, Edited, Private, Given
<1>6. ASSUME NEW a \in Actors, Work(a)
      PROVE  AccessInv'
  BY <1>1, <1>3, <1>6, GoesOn DEF AccessInv
<1>7. ASSUME NEW a \in Actors, NEW op \in Operations, Begin(a, op)
      PROVE  AccessInv'
  BY <1>1, <1>4, <1>7 DEF AccessInv
<1>8. QED
  BY <1>5, <1>6, <1>7, NextSplit

----------------------------------------------------------------------------
(* Expiries.                                                                *)

LEMMA Remains ==
  ASSUME [Next]_vars
  PROVE  /\ setting' = setting /\ (Calm' => Calm) /\ crossed \subseteq crossed'
         /\ faults' = faults \/ faults' = faults + 1
<1> DEFINE Left == /\ setting' = setting /\ crossed \subseteq crossed'
                   /\ faults' = faults \/ faults' = faults + 1
                   /\ swallowed' = swallowed \/ swallowed' = TRUE
<1>1. ASSUME NEW a \in Actors, NEW op \in Operations, Begin(a, op)
      PROVE  Left
  BY <1>1 DEF Begin
<1>2. ASSUME NEW a \in Actors, ReadRefresh(a) \/ ReadAccess(a) \/ UseStored(a) \/ Select(a)
      PROVE  Left
  BY <1>2 DEF ReadRefresh, ReadAccess, UseStored, Select, history
<1>3. ASSUME NEW a \in Actors, Fetch(a) \/ Refused(a) \/ FetchLost(a)
      PROVE  Left
  BY <1>3 DEF Fetch, Refused, FetchLost, Issue, history, Fault
<1>4. ASSUME NEW a \in Actors, WriteRefresh(a) \/ WriteAccess(a) \/ Commit(a)
      PROVE  Left
  BY <1>4 DEF WriteRefresh, WriteAccess, WriteSecret, Commit, CommitWith, history
<1>5. ASSUME NEW a \in Actors, NEW replace \in BOOLEAN, Enter(a, replace)
      PROVE  Left
  BY <1>5 DEF Enter, history
<1>6. ASSUME NEW a \in Actors, WipeRefresh(a) \/ WipeAccess(a) \/ Erase(a)
      PROVE  Left
  BY <1>6 DEF WipeRefresh, WipeAccess, Erase, history
<1>7. ASSUME NEW a \in Actors, WipeMissed(a) \/ WriteSwallowed(a) \/ Die(a)
      PROVE  Left
  BY <1>7 DEF WipeMissed, WriteSwallowed, Die, history, Fault
<1>8. ASSUME Tick
      PROVE  Left
  BY <1>8 DEF Tick, history
<1>9. ASSUME UNCHANGED vars
      PROVE  Left
  BY <1>9 DEF vars, history
<1> HIDE DEF Left
<1>10. ASSUME NEW a \in Actors, Work(a)
       PROVE  Left
  BY <1>2, <1>3, <1>4, <1>5, <1>6, <1>7, <1>10 DEF Work
<1>11. Left
  BY <1>1, <1>8, <1>9, <1>10, NextSplit
<1>12. QED
  BY <1>11 DEF Left, Calm

\* If nothing has overlapped, the request that takes the step is alone.
LEMMA Alone ==
  ASSUME Typed, Overlaps, NEW a \in Actors, crossed' = {},
         Work(a) \/ \E op \in Operations : Begin(a, op)
  PROVE  /\ \A b \in Busy' : b = a
         /\ Work(a) => a \in Busy /\ crossed = {}
<1>1. CASE Work(a)
  <2>1. a \in Busy /\ Others(a) /\ crossed = {}
    BY <1>1, GoesOn
  <2>2. QED
    BY <2>1, BusyMoves DEF Overlaps
<1>2. ASSUME NEW op \in Operations, Begin(a, op)
      PROVE  \A b \in Busy' : b = a
  <2>1. Busy = {} /\ Others(a)
    BY <1>2, BeginMoves DEF Begin
  <2>2. QED
    BY <2>1, BusyMoves
<1>3. CASE \E op \in Operations : Begin(a, op)
  <2>1. ~Work(a)
    <3>1. at[a].pc = "idle"
      BY <1>3 DEF Begin
    <3>2. QED
      BY <3>1, GoesOn, BusyIs
  <2>2. QED
    BY <1>2, <1>3, <2>1
<1>4. QED
  BY <1>1, <1>3

LEMMA HonestKept ==
  ASSUME Typed, [Next]_vars, NEW t \in Given \cup {NoToken}, Honest(t),
         row'.expires = row.expires
  PROVE  Honest(t)'
<1>1. t # NoToken => grants'[t] = grants[t] /\ grants[t] \in Nat /\ row.expires \in Nat
  BY GrantsGrow DEF Typed, TypeOK, Given
<1>2. QED
  BY <1>1 DEF Honest

LEMMA HonestZero ==
  ASSUME Typed, [Next]_vars, NEW t \in Given \cup {NoToken}, row'.expires = 0
  PROVE  Honest(t)'
<1>1. t # NoToken => grants'[t] = grants[t] /\ grants[t] \in Nat
  BY GrantsGrow DEF Typed, TypeOK, Given
<1>2. QED
  BY <1>1 DEF Honest

LEMMA HonestStep ==
  ASSUME Typed, Overlaps, SameRow, AccessInv, HonestInv, [Next]_vars
  PROVE  HonestInv'
<1> SUFFICES ASSUME Calm'
             PROVE  /\ Honest(row.cols["access"])' /\ Honest(vault["access"])'
                    /\ setting'.vaulted => \A b \in Busy' : HonestBy(b)'
  BY DEF HonestInv
<1> USE SecretsTwo
<1>a. /\ Calm /\ setting' = setting /\ (setting.vaulted => crossed' = {} /\ crossed = {})
      /\ setting.vaulted => ~swallowed' /\ EditsAlone
  BY Remains DEF Calm, EditsAlone
<1>b. Honest(row.cols["access"]) /\ Honest(vault["access"])
  BY <1>a DEF HonestInv
<1>c. ASSUME NEW a \in Actors, Work(a), setting.vaulted
      PROVE  a \in Busy /\ HonestBy(a) /\ at[a].loaded = row.cols
  BY <1>c, <1>a, Alone DEF HonestInv, SameRow
<1>d. /\ row.cols["access"] \in Given \cup {NoToken} /\ vault["access"] \in Given \cup {NoToken}
      /\ vault' = vault => vault'["access"] \in Given \cup {NoToken}
  BY CellsAre DEF Typed
\* Of the request that takes the step, what is left to show.
<1> DEFINE Own(a) == setting.vaulted => (a \in Busy' => HonestBy(a)')
<1>e. ASSUME NEW a \in Actors, Work(a) \/ \E op \in Operations : Begin(a, op), Own(a)
      PROVE  setting'.vaulted => \A b \in Busy' : HonestBy(b)'
  BY <1>e, <1>a, Alone
<1>f. ASSUME NEW a \in Actors, at'[a] = Done
      PROVE  a \notin Busy'
  BY <1>f, DoneFields DEF Busy
<1>g. ASSUME row' = row, vault' = vault
      PROVE  Honest(row.cols["access"])' /\ Honest(vault["access"])'
  BY <1>g, <1>b, <1>d, HonestKept
<1>1. ASSUME NEW a \in Actors, NEW op \in Operations, Begin(a, op)
      PROVE  row' = row /\ vault' = vault /\ Own(a)
  <2>1. row' = row /\ vault' = vault
    BY <1>1, BeginMoves
  <2>2. CASE at'[a] = Done
    BY <1>f, <2>1, <2>2
  <2>3. CASE at'[a] # Done
    <3>1. at'[a].held \in {None, row.cols} /\ at'[a].pc \in Reading \cup Wiping
      BY <1>1, <2>3, BeginMoves DEF Reading
    <3>2. Honest(at[a].held["access"])'
      <4>1. CASE at'[a].held = None
        BY <4>1, GivenIsNat DEF Honest
      <4>2. CASE at'[a].held = row.cols
        BY <4>2, <2>1, <1>g
      <4>3. QED
        BY <3>1, <4>1, <4>2
    <3>3. at'[a].pc \notin Writing \cup {"select"}
      BY <3>1 DEF Reading, Writing, Wiping
    <3>4. QED
      BY <2>1, <3>2, <3>3 DEF HonestBy, Fetched, Writing
  <2>4. QED
    BY <2>2, <2>3
<1>2. ASSUME NEW a \in Actors, UseStored(a) \/ Refused(a) \/ FetchLost(a) \/ Die(a)
      PROVE  row' = row /\ vault' = vault /\ Own(a)
  <2>1. at'[a] = Done /\ row' = row /\ vault' = vault
    BY <1>2, FinishMoves DEF UseStored, Refused, FetchLost, Die, store
  <2>2. QED
    BY <1>f, <2>1
<1>3. ASSUME NEW a \in Actors, ReadRefresh(a) \/ ReadAccess(a)
      PROVE  row' = row /\ vault' = vault /\ Own(a)
  <2>1. /\ row' = row /\ vault' = vault /\ setting.vaulted /\ at'[a].pc \in Reading /\ Same(a)
    BY <1>3, ReadMoves DEF ReadRefresh, ReadAccess, store, Sets, Typed, Steps, WithVault, Reading
  <2>2. HonestBy(a) /\ at[a].loaded = row.cols
    BY <1>3, <1>c, <2>1 DEF Work
  <2>3. at'[a].held["access"] \in {at[a].held["access"], vault["access"], row.cols["access"]}
    <3>1. CASE ReadRefresh(a)
      <4>1. at'[a].held["access"] = at[a].held["access"]
        BY <3>1, ReadMoves, RequestFields DEF Sets, Cells
      <4>2. QED
        BY <4>1
    <3>2. CASE ReadAccess(a)
      <4>1. at'[a].held["access"] = Secret("access", row.cols["access"])
        <5>1. Sets(a, "access", Secret("access", at[a].loaded["access"]), "decide")
          BY <3>2, ReadMoves
        <5>2. at'[a].held["access"] = Secret("access", at[a].loaded["access"])
          BY <5>1, RequestFields DEF Sets, Cells
        <5>3. QED
          BY <2>2, <5>2
      <4>2. QED
        BY <4>1 DEF Secret
    <3>3. QED
      BY <1>3, <3>1, <3>2
  <2>4. at'[a].op = "save" => Honest(at[a].held["access"])'
    <3>1. at'[a].op = "save" => Honest(at[a].held["access"])
      BY <2>1, <2>2 DEF HonestBy, Same
    <3>2. at[a].held["access"] \in Given \cup {NoToken}
      BY RequestFields, CellsAre
    <3>3. QED
      BY <1>b, <1>d, <2>1, <2>3, <3>1, <3>2, HonestKept
  <2>5. QED
    BY <2>1, <2>4 DEF HonestBy, Fetched, Reading, Writing
<1>4. ASSUME NEW a \in Actors, Fetch(a)
      PROVE  row' = row /\ vault' = vault /\ Own(a)
  <2>1. /\ row' = row /\ vault' = vault /\ at'[a].expires = now + Lifetime
        /\ at'[a].op \in Calling /\ at'[a].pc = "select"
    BY <1>4, FetchMoves DEF Same
  <2>2. row'.expires <= at'[a].expires
    BY <2>1 DEF Typed
  <2>3. QED
    BY <2>1, <2>2 DEF HonestBy, Calling
<1>5. ASSUME NEW a \in Actors, Select(a)
      PROVE  row' = row /\ vault' = vault /\ Own(a)
  <2>1. row' = row /\ vault' = vault /\ at[a].pc = "select" /\ at[a].op \in Calling
    BY <1>5, SelectMoves DEF Typed, Steps
  <2>2. CASE at'[a] = Done
    BY <1>f, <2>1, <2>2
  <2>3. CASE at'[a] # Done
    <3>1. /\ at'[a].pc = Write /\ at'[a].op = at[a].op /\ at'[a].expires = at[a].expires
      BY <1>5, <2>3, SelectMoves
    <3>2. ASSUME setting.vaulted
          PROVE  HonestBy(a)'
      <4>1. HonestBy(a) /\ at'[a].pc = "writerefresh"
        BY <1>5, <1>c, <3>1, <3>2 DEF Work, Write
      <4>2. QED
        BY <2>1, <3>1, <4>1 DEF HonestBy, Fetched, Calling
    <3>3. QED
      BY <2>1, <3>2
  <2>4. QED
    BY <2>2, <2>3
<1>6. ASSUME NEW a \in Actors, NEW replace \in BOOLEAN, Enter(a, replace)
      PROVE  row' = row /\ vault' = vault /\ Own(a)
  <2>1. /\ row' = row /\ vault' = vault /\ at'[a].op = "save" /\ at[a].op = "save"
        /\ at'[a].held["access"] = at[a].held["access"] /\ at'[a].pc = Write
    BY <1>6, EnterKeeps
  <2>2. ASSUME setting.vaulted
        PROVE  HonestBy(a)'
    <3>1. Honest(at[a].held["access"]) /\ at'[a].pc = "writerefresh"
      BY <1>6, <1>c, <2>1, <2>2 DEF Work, Write, HonestBy
    <3>2. at[a].held["access"] \in Given \cup {NoToken}
      BY RequestFields, CellsAre
    <3>3. Honest(at[a].held["access"])'
      BY <2>1, <3>1, <3>2, HonestKept
    <3>4. QED
      BY <2>1, <3>1, <3>3 DEF HonestBy, Fetched, Calling
  <2>3. QED
    BY <2>1, <2>2
<1>7. ASSUME NEW a \in Actors, WriteRefresh(a) \/ WriteAccess(a)
      PROVE  HonestInv'
  <2>1. /\ row' = row /\ grants' = grants /\ setting.vaulted /\ Same(a) /\ at'[a].held = at[a].held
        /\ at'[a].expires = at[a].expires /\ at[a].pc \in {"writerefresh", "writeaccess"}
    BY <1>7, WriteMoves DEF WriteRefresh, WriteAccess, Typed, Steps, WithVault, idp
  <2>2. HonestBy(a) /\ at[a].cols \in Cells
    BY <1>7, <1>c, <2>1, RequestFields DEF Work
  <2>3. Honest(row.cols["access"])'
    BY <1>b, <1>d, <2>1, HonestKept
  <2>4. Honest(at[a].held["access"])
    <3>1. at[a].op = "save" \/ Fetched(a)
      BY <2>1 DEF Typed, TypeOK, Steps, Fetched, Writing, Operations, Calling
    <3>2. QED
      BY <2>2, <3>1 DEF HonestBy, AccessInv, Honest
  <2>5. Honest(at[a].held["access"])'
    BY <2>1, <2>4, RequestFields, CellsAre, HonestKept
  <2>6. (Fetched(a)' => row'.expires <= at'[a].expires)
    BY <2>1, <2>2 DEF HonestBy, Fetched, Same, Writing
  <2>7. CASE WriteRefresh(a)
    <3>1. /\ at'[a].pc = "writeaccess" /\ at'[a].cols = [at[a].cols EXCEPT !["refresh"] = NoToken]
          /\ vault' = [vault EXCEPT !["refresh"] = at[a].held["refresh"]]
      BY <2>7, WriteMoves DEF WriteRefresh
    <3>2. at'[a].cols["refresh"] = NoToken /\ vault'["access"] = vault["access"]
      BY <2>2, <3>1 DEF Cells, Typed
    <3>3. Honest(vault["access"])'
      BY <1>b, <1>d, <2>1, <3>2, HonestKept
    <3>4. QED
      BY <1>7, <1>e, <2>3, <2>5, <2>6, <3>1, <3>2, <3>3 DEF HonestBy, HonestInv, Work
  <2>8. CASE WriteAccess(a)
    <3>1. /\ at'[a].pc = "commit" /\ at'[a].cols = [at[a].cols EXCEPT !["access"] = NoToken]
          /\ vault' = [vault EXCEPT !["access"] = at[a].held["access"]]
          /\ at[a].pc = "writeaccess"
      BY <2>8, WriteMoves DEF WriteAccess
    <3>2. /\ at'[a].cols["refresh"] = NoToken /\ at'[a].cols["access"] = NoToken
          /\ vault'["access"] = at'[a].held["access"]
      BY <2>1, <2>2, <3>1 DEF Cells, Typed, HonestBy
    <3>3. QED
      BY <1>7, <1>e, <2>3, <2>5, <2>6, <3>1, <3>2 DEF HonestBy, HonestInv, Work
  <2>9. QED
    BY <1>7, <2>7, <2>8
<1>8. ASSUME NEW a \in Actors, WipeRefresh(a) \/ WipeAccess(a) \/ WipeMissed(a)
      PROVE  HonestInv'
  <2>1. /\ row' = row /\ grants' = grants /\ at[a].op = "delete"
        /\ Goto(a, "wipeaccess") \/ Goto(a, "erase")
    BY <1>8 DEF WipeRefresh, WipeAccess, WipeMissed, store, idp, Typed, Steps, Wiping
  <2>2. vault'["access"] \in {vault["access"], NoToken}
    BY <1>8 DEF WipeRefresh, WipeAccess, WipeMissed, store, Typed, Cells
  <2>3. at'[a].pc \in {"wipeaccess", "erase"} /\ at'[a].op = "delete"
    BY <2>1, GotoMoves DEF Same
  <2>4. HonestBy(a)'
    BY <2>3 DEF HonestBy, Fetched, Calling
  <2>5. Honest(row.cols["access"])' /\ Honest(vault["access"])'
    <3>1. vault'["access"] = vault["access"] => Honest(vault["access"])'
      BY <1>b, <1>d, <2>1, HonestKept
    <3>2. QED
      BY <1>b, <1>d, <2>1, <2>2, <3>1, HonestKept DEF Honest
  <2>6. QED
    BY <1>8, <1>e, <2>4, <2>5 DEF HonestInv, Work
<1>9. ASSUME NEW a \in Actors, WriteSwallowed(a)
      PROVE  FALSE
  BY <1>9, <1>a DEF WriteSwallowed, Typed, Steps, WithVault
<1>10. ASSUME NEW a \in Actors, Erase(a)
       PROVE  HonestInv'
  <2>1. row' = NoRow /\ vault' = vault /\ at'[a] = Done
    BY <1>10, FinishMoves DEF Erase
  <2>2. row'.expires = 0 /\ row'.cols["access"] = NoToken
    BY <2>1, GivenIsNat DEF NoRow
  <2>3. Honest(row.cols["access"])' /\ Honest(vault["access"])'
    BY <1>d, <2>1, <2>2, HonestZero
  <2>4. QED
    BY <1>10, <1>e, <1>f, <2>1, <2>3 DEF HonestInv, Work
<1>11. ASSUME NEW a \in Actors, Commit(a)
       PROVE  HonestInv'
  <2>1. at[a].pc = "commit" /\ at'[a] = Done /\ vault' = vault /\ grants' = grants /\ a \in Busy
    BY <1>11, CommitMoves DEF idp, Busy
  <2>2. Honest(row.cols["access"])' /\ Honest(vault["access"])'
    <3>1. CASE row' = row
      BY <1>g, <2>1, <3>1
    <3>2. CASE row' = [id |-> NewId, expires |-> 0, cols |-> Assigned(a)]
      <4>1. row'.expires = 0 /\ row'.cols = Assigned(a)
        BY <3>2
      <4>2. Assigned(a)["access"] \in Given \cup {NoToken}
        BY RequestFields, CellsAre DEF Assigned
      <4>3. QED
        BY <1>d, <2>1, <4>1, <4>2, HonestZero
    <3>3. CASE /\ at[a].id = row.id /\ row.id # 0
               /\ row'.expires = IF at[a].op = "save" THEN row.expires ELSE at[a].expires
               /\ row'.cols = [s \in Secrets |-> IF Assigned(a)[s] # at[a].loaded[s]
                                                 THEN Assigned(a)[s] ELSE row.cols[s]]
      <4>1. row'.cols["access"] = IF Assigned(a)["access"] # at[a].loaded["access"]
                                  THEN Assigned(a)["access"] ELSE row.cols["access"]
        BY <3>3
      <4>2. at[a].op = "save" \/ Fetched(a)
        BY <2>1 DEF Typed, TypeOK, Steps, Fetched, Writing, Operations, Calling
      <4>3. at[a].op # "save" => Fetched(a) /\ row'.expires = at[a].expires
                                 /\ at[a].expires = grants[at[a].held["access"]]
                                 /\ at[a].held["access"] \in Given
        BY <3>3, <4>2 DEF AccessInv
      <4>4. ASSUME setting.vaulted
            PROVE  Honest(row.cols["access"])' /\ Honest(vault["access"])'
        <5>1. HonestBy(a) /\ at[a].loaded = row.cols
          BY <1>11, <1>c, <4>4 DEF Work
        <5>2. row'.cols["access"] = NoToken
          BY <2>1, <4>1, <4>4, <5>1 DEF HonestBy, Assigned
        <5>3. CASE at[a].op = "save"
          BY <1>b, <1>d, <2>1, <3>3, <5>2, <5>3, HonestKept DEF Honest
        <5>4. CASE at[a].op # "save"
          BY <2>1, <4>3, <5>1, <5>2, <5>4, RequestFields DEF Honest, HonestBy
        <5>5. QED
          BY <5>3, <5>4
      <4>5. ASSUME ~setting.vaulted
            PROVE  Honest(row.cols["access"])' /\ Honest(vault["access"])'
        <5>1. vault'["access"] = NoToken /\ Assigned(a) = at[a].held
          BY <2>1, <4>5, GivenIsNat DEF Typed, Assigned
        <5>2. CASE at[a].op = "save"
          <6>1. at[a].held["access"] = at[a].loaded["access"]
            BY <2>1, <4>5, <5>2 DEF AccessInv, Edited
          <6>2. row'.cols["access"] = row.cols["access"] /\ row'.expires = row.expires
            BY <3>3, <4>1, <5>1, <5>2, <6>1
          <6>3. QED
            BY <1>b, <1>d, <5>1, <6>2, HonestKept DEF Honest
        <5>3. CASE at[a].op # "save"
          <6>1. Private(a, "access")
            BY <2>1, <4>3, <4>5, <5>3 DEF AccessInv, Unstored, Fetched
          <6>2. row'.cols["access"] = at[a].held["access"]
            BY <4>1, <5>1, <6>1 DEF Private
          <6>3. QED
            BY <2>1, <4>3, <5>1, <5>3, <6>2, RequestFields DEF Honest
        <5>4. QED
          BY <5>2, <5>3
      <4>6. QED
        BY <4>4, <4>5
    <3>4. QED
      BY <1>11, <3>1, <3>2, <3>3, CommitMoves
  <2>3. QED
    BY <1>11, <1>e, <1>f, <2>1, <2>2 DEF HonestInv, Work
<1>12. ASSUME Tick \/ UNCHANGED vars
       PROVE  HonestInv'
  BY <1>12, <1>a, Idles DEF HonestInv, Honest, HonestBy, Fetched
<1>13. ASSUME NEW a \in Actors, row' = row /\ vault' = vault /\ Own(a),
              Work(a) \/ \E op \in Operations : Begin(a, op)
       PROVE  HonestInv'
  BY <1>13, <1>e, <1>g DEF HonestInv
<1> HIDE DEF Own
<1>14. ASSUME NEW a \in Actors, Work(a)
       PROVE  HonestInv'
  BY <1>2, <1>3, <1>4, <1>5, <1>6, <1>7, <1>8, <1>9, <1>10, <1>11, <1>13, <1>14 DEF Work
<1>15. ASSUME NEW a \in Actors, NEW op \in Operations, Begin(a, op)
       PROVE  HonestInv'
  BY <1>1, <1>13, <1>15
<1>16. HonestInv'
  BY <1>12, <1>14, <1>15, NextSplit
<1>17. QED
  BY <1>16 DEF HonestInv

----------------------------------------------------------------------------
(* Refresh tokens.                                                          *)

\* A refresh token is accepted until it rotates in the request that has it.
LEMMA LiveMoves ==
  ASSUME NEW a \in Actors, Work(a) \/ \E op \in Operations : Begin(a, op)
  PROVE  \A t \in live : t \in live' \/ (Rotates /\ Issue(a) /\ t = at[a].held["refresh"])
<1>1. CASE Issue(a)
  BY <1>1 DEF Issue
<1>2. CASE ~Issue(a)
  BY <1>2 DEF Work, Begin, ReadRefresh, ReadAccess, UseStored, Fetch, Refused, FetchLost,
     Select, WriteRefresh, WriteAccess, WriteSecret, Commit, CommitWith, Enter, WipeRefresh,
     WipeAccess, Erase, WipeMissed, WriteSwallowed, Die, idp
<1>3. QED
  BY <1>1, <1>2

LEMMA LastStep ==
  ASSUME Typed, LastInv, [Next]_vars
  PROVE  LastInv'
<1> SUFFICES ASSUME setting'.grant # "rotating"
             PROVE  /\ Lasts(row.cols["refresh"])' /\ Lasts(vault["refresh"])'
                    /\ \A b \in Actors : /\ Lasts(at[b].held["refresh"])'
                                         /\ Lasts(at[b].loaded["refresh"])'
                                         /\ Lasts(at[b].cols["refresh"])'
  BY DEF LastInv
<1> USE SecretsTwo
<1>a. setting' = setting /\ ~Rotates
  BY Remains DEF Rotates
<1>b. /\ Lasts(row.cols["refresh"]) /\ Lasts(vault["refresh"])
      /\ \A b \in Actors : \A t : Has(b, "refresh", t) => Lasts(t)
  BY <1>a DEF LastInv, Has
<1>1. ASSUME NEW a \in Actors, Work(a) \/ \E op \in Operations : Begin(a, op), Others(a)
      PROVE  /\ Lasts(row.cols["refresh"])' /\ Lasts(vault["refresh"])'
             /\ \A b \in Actors : /\ Lasts(at[b].held["refresh"])'
                                  /\ Lasts(at[b].loaded["refresh"])'
                                  /\ Lasts(at[b].cols["refresh"])'
  <2>1. live \subseteq live'
    BY <1>1, <1>a, LiveMoves
  <2>2. ASSUME NEW t, t # NoToken
        PROVE  /\ row'.cols["refresh"] = t => t \in live'
               /\ vault'["refresh"] = t => t \in live'
               /\ Has(a, "refresh", t)' => t \in live'
    <3>1. /\ row'.cols["refresh"] = t => row.cols["refresh"] = t \/ Has(a, "refresh", t)
          /\ vault'["refresh"] = t => vault["refresh"] = t \/ Has(a, "refresh", t)
          /\ Has(a, "refresh", t)' => \/ Has(a, "refresh", t) \/ row.cols["refresh"] = t
                                      \/ vault["refresh"] = t \/ t \in live'
      BY <1>1, <2>2, Sources
    <3>2. QED
      BY <1>b, <2>1, <2>2, <3>1 DEF Lasts
  <2>3. Lasts(row.cols["refresh"])' /\ Lasts(vault["refresh"])'
    BY <2>2 DEF Lasts
  <2>4. ASSUME NEW b \in Actors, NEW t, Has(b, "refresh", t)', t # NoToken
        PROVE  t \in live'
    <3>1. CASE b = a
      BY <2>2, <2>4, <3>1
    <3>2. CASE b # a
      BY <1>1, <1>b, <2>1, <2>4, <3>2 DEF Others, Has, Lasts
    <3>3. QED
      BY <3>1, <3>2
  <2>5. QED
    BY <2>3, <2>4 DEF Has, Lasts
<1>2. CASE Tick \/ UNCHANGED vars
  BY <1>2, <1>a, Idles DEF LastInv, Lasts
<1>3. ASSUME NEW a \in Actors, Work(a) \/ \E op \in Operations : Begin(a, op)
      PROVE  Others(a)
  BY <1>3, GoesOn, BeginMoves
<1>4. QED
  BY <1>1, <1>2, <1>3, NextSplit

\* A private token that is accepted stays so in the steps of others.
LEMMA PrivateLives ==
  ASSUME Typed, NEW a \in Actors, Work(a) \/ \E op \in Operations : Begin(a, op), Others(a),
         NEW b \in Actors \ {a}, Private(b, "refresh"), at[b].held["refresh"] \in live
  PROVE  Private(b, "refresh")' /\ at'[b].held["refresh"] \in live'
<1>1. at[a].held["refresh"] # at[b].held["refresh"] /\ at'[b] = at[b]
  BY DEF Private, Others
<1>2. QED
  BY <1>1, PrivateKept, LiveMoves, SecretsTwo

LEMMA RotateStep ==
  ASSUME Typed, RotateInv, [Next]_vars
  PROVE  RotateInv'
<1> SUFFICES ASSUME setting'.grant = "rotating"
             PROVE  \A b \in Actors : Rotating(b)'
  BY DEF RotateInv
<1> USE SecretsTwo
<1>a. setting' = setting /\ Rotates /\ \A b \in Actors : Rotating(b)
  BY Remains DEF Rotates, RotateInv
<1>1. ASSUME NEW a \in Actors, Work(a) \/ \E op \in Operations : Begin(a, op), Others(a),
             NEW b \in Actors \ {a}
      PROVE  Rotating(b)'
  <2>1. at'[b] = at[b] /\ (b \in Busy' <=> b \in Busy)
    BY <1>1 DEF Others, Busy
  <2>2. (Unstored(b)' => Unstored(b)) /\ (Edited(b)' => Edited(b))
    BY <1>a, <2>1 DEF Unstored, Edited
  <2>3. QED
    BY <1>1, <1>a, <2>1, <2>2, PrivateLives DEF Rotating
<1>2. ASSUME NEW a \in Actors, at'[a] = Done
      PROVE  Rotating(a)'
  BY <1>2, DoneFields DEF Rotating, Unstored, Edited, Busy
<1>3. ASSUME NEW a \in Actors, Work(a)
      PROVE  Rotating(a)'
  <2>a. Others(a) /\ a \in Busy
    BY <1>3, GoesOn
  <2>1. CASE UseStored(a) \/ Refused(a) \/ FetchLost(a) \/ Die(a) \/ Commit(a) \/ Erase(a)
    <3>1. at'[a] = Done
      BY <2>1, FinishMoves, CommitMoves DEF UseStored, Refused, FetchLost, Die, Erase
    <3>2. QED
      BY <1>2, <3>1
  <2>2. CASE ReadRefresh(a) \/ ReadAccess(a)
    <3>1. at'[a].pc \in {"readaccess", "decide"}
      BY <2>2, ReadMoves DEF Sets
    <3>2. setting.vaulted
      BY <2>2 DEF ReadRefresh, ReadAccess, Typed, Steps, WithVault
    <3>3. QED
      BY <1>a, <3>1, <3>2 DEF Rotating, Unstored, Edited
  <2>3. CASE Fetch(a)
    <3>1. at'[a].held["refresh"] = Next1
      <4>1. at'[a].held = Apply(a)
        BY <2>3, FetchMoves
      <4>2. QED
        BY <1>a, <4>1, ApplyFields
    <3>2. /\ at'[a].op \in Calling /\ at'[a].loaded = at[a].loaded /\ at'[a].cols = at[a].cols
          /\ row' = row /\ vault' = vault /\ Next1 \in live'
      BY <1>a, <2>3, FetchMoves DEF Same
    <3>3. Private(a, "refresh")'
      BY <2>a, <3>1, <3>2, NewPrivate
    <3>4. ~Edited(a)'
      BY <3>2 DEF Edited, Calling
    <3>5. QED
      BY <3>1, <3>2, <3>3, <3>4 DEF Rotating
  <2>4. CASE Select(a) /\ at'[a] # Done
    <3>1. /\ at[a].pc = "select" /\ at'[a].held = at[a].held
          /\ at'[a].op = at[a].op /\ at[a].op \in Calling /\ live' = live
      BY <2>4, SelectMoves DEF Typed, Steps, idp
    <3>2. Private(a, "refresh") /\ at[a].held["refresh"] \in live
      BY <1>a, <3>1 DEF Unstored, Rotating
    <3>3. Private(a, "refresh")'
      BY <2>4, <3>2, SelectPrivate
    <3>4. ~Edited(a)'
      BY <3>1 DEF Edited, Calling
    <3>5. QED
      BY <3>1, <3>2, <3>3, <3>4 DEF Rotating
  <2>5. ASSUME NEW replace \in BOOLEAN, Enter(a, replace)
        PROVE  Rotating(a)'
    <3>1. /\ at[a].op = "save" /\ at'[a].op = "save" /\ row' = row /\ vault' = vault
          /\ at'[a].loaded = at[a].loaded /\ at'[a].cols = at[a].cols
      BY <2>5, EnterMoves DEF Sets, Same
    <3>2. ~Unstored(a)' /\ (Edited(a)' => Edited(a))
      BY <1>a, <2>a, <3>1 DEF Unstored, Calling, Edited
    <3>3. CASE replace
      <4>1. Next1 \in live' /\ at'[a].held["refresh"] = Next1
        BY <2>5, <3>3, EnterMoves, RequestFields DEF Sets, Cells
      <4>2. Private(a, "refresh")'
        BY <2>a, <3>1, <4>1, NewPrivate
      <4>3. QED
        BY <3>2, <4>1, <4>2 DEF Rotating
    <3>4. CASE ~replace
      <4>1. live' = live /\ at'[a].held = at[a].held
        BY <2>5, <3>4, EnterMoves DEF idp
      <4>2. Private(a, "refresh") => Private(a, "refresh")'
        BY <2>a, <3>1, <4>1 DEF Private, Others
      <4>3. QED
        BY <1>a, <3>1, <3>2, <4>1, <4>2 DEF Rotating
    <3>5. QED
      BY <3>3, <3>4
  <2>6. CASE WriteRefresh(a) \/ WriteAccess(a)
    <3>1. at'[a].pc \in {"writeaccess", "commit"} /\ setting.vaulted
      BY <2>6, WriteMoves DEF WriteRefresh, WriteAccess, Typed, Steps, WithVault
    <3>2. QED
      BY <1>a, <3>1 DEF Rotating, Unstored, Edited
  <2>7. CASE WipeRefresh(a) \/ WipeAccess(a) \/ WipeMissed(a) \/ WriteSwallowed(a)
    <3>1. PICK pc \in {"wipeaccess", "erase", "commit"} :
             Goto(a, pc) /\ (pc = "commit" => setting.vaulted)
      BY <2>7 DEF WipeRefresh, WipeAccess, WipeMissed, WriteSwallowed, Typed, Steps, WithVault
    <3>2. at[a].op = "delete" \/ setting.vaulted
      BY <2>7 DEF WipeRefresh, WipeAccess, WipeMissed, WriteSwallowed, Typed, Steps, Wiping,
                  WithVault
    <3>3. /\ at'[a].op = at[a].op /\ at'[a].pc \in {"wipeaccess", "erase", "commit"}
          /\ at'[a].pc = "commit" => setting.vaulted
      BY <3>1, GotoMoves DEF Same
    <3>4. QED
      BY <1>a, <3>2, <3>3 DEF Rotating, Unstored, Edited
  <2>8. QED
    BY <1>2, <1>3, <2>1, <2>2, <2>3, <2>4, <2>5, <2>6, <2>7 DEF Work
<1>4. ASSUME NEW a \in Actors, NEW op \in Operations, Begin(a, op)
      PROVE  Others(a) /\ Rotating(a)'
  <2>1. CASE at'[a] = Done
    BY <1>2, <1>4, <2>1, BeginMoves
  <2>2. CASE at'[a] # Done
    <3>1. at'[a].held = at'[a].loaded /\ at'[a].pc \in Reading \cup Wiping
      BY <1>4, <2>2, BeginMoves DEF Reading
    <3>2. QED
      BY <1>4, <3>1, BeginMoves DEF Rotating, Unstored, Reading, Wiping
  <2>3. QED
    BY <2>1, <2>2
<1>5. CASE Tick \/ UNCHANGED vars
  BY <1>5, <1>a, Idles DEF Rotating, Unstored, Edited, Private
<1>6. ASSUME NEW a \in Actors, Work(a)
      PROVE  \A b \in Actors : Rotating(b)'
  BY <1>1, <1>3, <1>6, GoesOn
<1>7. ASSUME NEW a \in Actors, NEW op \in Operations, Begin(a, op)
      PROVE  \A b \in Actors : Rotating(b)'
  BY <1>1, <1>4, <1>7
<1>8. QED
  BY <1>5, <1>6, <1>7, NextSplit

LEMMA Undisturbs ==
  ASSUME Typed, [Next]_vars, Undisturbed'
  PROVE  /\ Undisturbed /\ setting' = setting /\ (setting.vaulted => EditsAlone /\ EditsAlone')
         /\ \A a \in Actors : ~FetchLost(a) /\ ~WipeMissed(a) /\ ~WriteSwallowed(a) /\ ~Die(a)
<1>1. faults \in Nat /\ faults' = 0 /\ setting' = setting
  BY Remains DEF Typed, TypeOK, Undisturbed
<1>2. faults = 0
  BY <1>1, Remains
<1>3. setting.vaulted => EditsAlone /\ EditsAlone'
  BY <1>1, Remains DEF Undisturbed, EditsAlone
<1>4. \A a \in Actors : ~FetchLost(a) /\ ~WipeMissed(a) /\ ~WriteSwallowed(a) /\ ~Die(a)
  BY <1>1, <1>2 DEF FetchLost, WipeMissed, WriteSwallowed, Die, Fault
<1>5. QED
  BY <1>1, <1>2, <1>3, <1>4 DEF Undisturbed

\* If no edit has overlapped anything, only the request that takes the step may
\* be one, and then it is alone.
LEMMA AloneEdit ==
  ASSUME Typed, Overlaps, NEW a \in Actors, EditsAlone',
         Work(a) \/ \E op \in Operations : Begin(a, op)
  PROVE  /\ \A b \in Busy' : b = a \/ at'[b].op \notin Edits
         /\ Work(a) /\ at[a].op \in Edits => \A b \in Busy \cup Busy' : b = a
<1>1. CASE Work(a)
  <2>1. a \in Busy /\ Others(a) /\ EditsAlone
    BY <1>1, GoesOn DEF EditsAlone
  <2>2. \A b \in Busy' : b = a \/ (b \in Busy /\ at'[b] = at[b])
    BY <2>1, BusyMoves
  <2>3. \A b \in Busy : at[b].op \in Edits \/ at[a].op \in Edits => b = a
    BY <2>1 DEF Overlaps
  <2>4. QED
    BY <2>2, <2>3
<1>2. ASSUME NEW op \in Operations, Begin(a, op)
      PROVE  (\A b \in Busy' : b = a \/ at'[b].op \notin Edits) /\ ~Work(a)
  <2>1. Others(a) /\ at[a].pc = "idle"
    BY <1>2, BeginMoves
  <2>2. \A b \in Busy : at[b].op \notin Edits
    BY <1>2 DEF Begin, EditsAlone
  <2>3. \A b \in Busy' : b = a \/ (b \in Busy /\ at'[b] = at[b])
    BY <2>1, BusyMoves
  <2>4. ~Work(a)
    BY <2>1, GoesOn, BusyIs
  <2>5. QED
    BY <2>2, <2>3, <2>4
<1>3. QED
  BY <1>1, <1>2

\* Requests that are about to store their tokens, or to delete, remain so.
LEMMA SurvivesStep ==
  ASSUME Typed, Survives, NEW a \in Actors, Others(a), setting' = setting, row'.id = row.id,
         Stored("refresh")' = Stored("refresh"), live \subseteq live', ~WillStore(a),
         a \in Busy => at[a].op # "delete"
  PROVE  Survives'
<1>1. \A b \in Actors \ {a} : at'[b] = at[b] /\ (b \in Busy => b \in Busy')
  BY DEF Others, Busy
<1>2. Deleting => Deleting'
  BY <1>1, BusyIs DEF Deleting
<1>3. (\E b \in Actors : WillStore(b)) => \E b \in Actors : WillStore(b)'
  BY <1>1 DEF WillStore, Unstored
<1>4. Lasts(Stored("refresh")) => Lasts(Stored("refresh"))'
  BY DEF Lasts
<1>5. QED
  BY <1>2, <1>3, <1>4 DEF Survives

LEMMA StoredStep ==
  ASSUME Typed, Overlaps, SameRow, RotateInv, StoredInv, [Next]_vars
  PROVE  StoredInv'
<1> SUFFICES ASSUME setting'.grant = "rotating", Undisturbed'
             PROVE  Survives' /\ (setting'.vaulted => \A b \in Busy' : StoredBy(b)')
  BY DEF StoredInv
<1> USE SecretsTwo
<1>a. /\ Undisturbed /\ setting' = setting /\ (setting.vaulted => EditsAlone /\ EditsAlone')
      /\ \A a \in Actors : ~FetchLost(a) /\ ~WipeMissed(a) /\ ~WriteSwallowed(a) /\ ~Die(a)
  BY Undisturbs
<1>b. /\ Survives /\ (setting.vaulted => \A b \in Busy : StoredBy(b)) /\ Rotates
      /\ \A b \in Actors : Rotating(b)
  BY <1>a DEF StoredInv, RotateInv, Rotates
<1>c. live \subseteq Given /\ NoToken \notin live /\ None["refresh"] = NoToken /\ Next1 # NoToken
  BY GivenIsNat, NewIsPrivate DEF Typed, TypeOK, Given
<1>d. ASSUME NEW a \in Actors, at'[a] = Done
      PROVE  a \notin Busy'
  BY <1>d, DoneFields DEF Busy
\* The requests that do not take the step.
<1>e. ASSUME NEW a \in Actors, Work(a) \/ \E op \in Operations : Begin(a, op),
             setting.vaulted => (a \in Busy' => StoredBy(a)'),
             \/ vault'["refresh"] # NoToken \/ vault'["refresh"] = vault["refresh"]
             \/ Work(a) /\ at[a].op \in Edits
      PROVE  setting'.vaulted => \A b \in Busy' : StoredBy(b)'
  <2> SUFFICES ASSUME setting.vaulted, NEW b \in Busy', b # a
               PROVE  StoredBy(b)'
    BY <1>a, <1>e
  <2>1. Others(a)
    BY <1>e, GoesOn, BeginMoves
  <2>2. b \in Busy /\ at'[b] = at[b] /\ at'[b].op \notin Edits
    BY <1>a, <1>e, <2>1, AloneEdit, BusyMoves
  <2>3. vault'["refresh"] # NoToken \/ vault'["refresh"] = vault["refresh"]
    BY <1>a, <1>e, AloneEdit
  <2>4. QED
    BY <1>b, <2>2, <2>3 DEF StoredBy, Edits
<1>f. ASSUME NEW a \in Actors, Work(a), setting.vaulted
      PROVE  a \in Busy /\ StoredBy(a)
  BY <1>b, <1>f, GoesOn
<1>1. ASSUME NEW a \in Actors, NEW op \in Operations, Begin(a, op)
      PROVE  Survives' /\ (setting'.vaulted => \A b \in Busy' : StoredBy(b)')
  <2>1. row' = row /\ vault' = vault /\ live' = live /\ Others(a) /\ at[a].pc = "idle"
    BY <1>1, BeginMoves DEF idp
  <2>2. Survives'
    BY <1>a, <1>b, <2>1, SurvivesStep, BusyIs DEF WillStore, Unstored, Stored, Secret
  <2>3. ASSUME setting.vaulted, a \in Busy'
        PROVE  StoredBy(a)'
    <3>1. at'[a] # Done
      BY <1>d, <2>3
    <3>2. CASE row.id = 0
      <4>1. /\ at'[a].held = None /\ at'[a].pc = "decide" /\ row' = NoRow
        BY <1>1, <2>1, <3>1, <3>2, BeginMoves DEF Typed
      <4>2. row'.cols = None
        BY <4>1 DEF NoRow
      <4>3. QED
        BY <1>c, <4>1, <4>2 DEF StoredBy, Lasts
    <3>3. CASE row.id # 0
      <4>1. at'[a].op = "delete" \/ at'[a].pc = "readrefresh"
        BY <1>1, <2>3, <3>3, BeginMoves
      <4>2. QED
        BY <4>1 DEF StoredBy, Calling
    <3>4. QED
      BY <3>2, <3>3
  <2>4. QED
    BY <1>1, <1>e, <2>1, <2>2, <2>3
<1>2. ASSUME NEW a \in Actors, UseStored(a) \/ Refused(a)
      PROVE  Survives' /\ (setting'.vaulted => \A b \in Busy' : StoredBy(b)')
  <2>1. /\ at'[a] = Done /\ row' = row /\ vault' = vault /\ live' = live /\ Others(a)
        /\ at[a].pc = "decide" /\ at[a].op # "delete"
    BY <1>2, FinishMoves DEF UseStored, Refused, Asks, store, idp
  <2>2. Survives'
    BY <1>a, <1>b, <2>1, SurvivesStep DEF WillStore, Unstored, Stored, Secret
  <2>3. QED
    BY <1>2, <1>d, <1>e, <2>1, <2>2 DEF Work
<1>3. ASSUME NEW a \in Actors, ReadRefresh(a) \/ ReadAccess(a)
      PROVE  Survives' /\ (setting'.vaulted => \A b \in Busy' : StoredBy(b)')
  <2>1. /\ row' = row /\ vault' = vault /\ live' = live /\ Others(a) /\ Same(a)
        /\ at[a].pc \in {"readrefresh", "readaccess"} /\ setting.vaulted
    BY <1>3, ReadMoves DEF ReadRefresh, ReadAccess, store, idp, Sets, Typed, Steps, WithVault
  <2>2. at[a].op # "delete" /\ a \in Busy /\ StoredBy(a)
    BY <1>3, <1>f, <2>1 DEF Work, Typed, Steps, Reading
  <2>3. Survives'
    BY <1>a, <1>b, <2>1, <2>2, SurvivesStep DEF WillStore, Unstored, Stored, Secret
  <2>4. CASE ReadRefresh(a) /\ at[a].op = "save"
    <3>1. /\ at'[a].held["refresh"] = Secret("refresh", at[a].loaded["refresh"])
          /\ at'[a].pc = "readaccess" /\ at[a].pc = "readrefresh"
      <4>1. Sets(a, "refresh", Secret("refresh", at[a].loaded["refresh"]), "readaccess")
        BY <2>4, ReadMoves
      <4>2. QED
        BY <2>4, <4>1, RequestFields DEF Sets, Cells, ReadRefresh
    <3>2. at[a].loaded = row.cols /\ row.id # 0
      BY <1>a, <2>1, <2>2, <2>4, <3>1 DEF SameRow, Edits, Typed, Steps
    <3>3. \A b \in Busy : b = a
      BY <1>3, <1>a, <2>1, <2>4, AloneEdit DEF Work, Edits
    <3>4. ~Deleting /\ ~\E b \in Actors : WillStore(b)
      <4>1. ~Deleting
        BY <2>4, <3>3 DEF Deleting
      <4>2. ASSUME NEW b \in Actors, WillStore(b)
            PROVE  FALSE
        <5>1. b \in Busy /\ at[b].op \in Calling
          BY <4>2, BusyIs DEF WillStore, Unstored
        <5>2. QED
          BY <2>4, <3>3, <5>1 DEF Calling
      <4>3. QED
        BY <4>1, <4>2
    <3>5. Lasts(Stored("refresh"))
      BY <1>b, <3>2, <3>4 DEF Survives
    <3>6. Lasts(at'[a].held["refresh"]) /\ (at'[a].held["refresh"] = NoToken => row.cols["refresh"] = NoToken)
      BY <3>1, <3>2, <3>5 DEF Stored, Secret
    <3>7. StoredBy(a)'
      BY <2>1, <2>4, <3>1, <3>6 DEF StoredBy, Lasts, Calling, Same
    <3>8. QED
      BY <1>3, <1>e, <2>1, <2>3, <3>7 DEF Work
  <2>5. CASE ReadAccess(a) /\ at[a].op = "save"
    <3>1. /\ at'[a].held["refresh"] = at[a].held["refresh"]
          /\ at'[a].pc = "decide" /\ at[a].pc = "readaccess"
      <4>1. Sets(a, "access", Secret("access", at[a].loaded["access"]), "decide")
        BY <2>5, ReadMoves
      <4>2. QED
        BY <2>5, <4>1, RequestFields DEF Sets, Cells, ReadAccess
    <3>2. StoredBy(a)'
      BY <2>1, <2>2, <2>5, <3>1 DEF StoredBy, Lasts, Calling, Same
    <3>3. QED
      BY <1>3, <1>e, <2>1, <2>3, <3>2 DEF Work
  <2>6. CASE at[a].op # "save"
    <3>1. at'[a].op # "save" /\ at'[a].pc \in {"readaccess", "decide"}
      BY <1>3, <2>1, <2>6, ReadMoves DEF Same, Sets
    <3>2. StoredBy(a)'
      BY <3>1 DEF StoredBy
    <3>3. QED
      BY <1>3, <1>e, <2>1, <2>3, <3>2 DEF Work
  <2>7. QED
    BY <1>3, <2>4, <2>5, <2>6
<1>4. ASSUME NEW a \in Actors, Fetch(a)
      PROVE  Survives' /\ (setting'.vaulted => \A b \in Busy' : StoredBy(b)')
  <2>1. vault' = vault /\ at'[a].pc = "select" /\ at'[a].op \in Calling
    BY <1>4, FetchMoves DEF Same
  <2>2. WillStore(a)'
    BY <2>1 DEF WillStore, Unstored
  <2>3. StoredBy(a)'
    BY <2>1 DEF StoredBy, Calling
  <2>4. QED
    BY <1>4, <1>e, <2>1, <2>2, <2>3 DEF Work, Survives
<1>5. ASSUME NEW a \in Actors, Select(a)
      PROVE  Survives' /\ (setting'.vaulted => \A b \in Busy' : StoredBy(b)')
  <2>1. vault' = vault /\ row' = row /\ at[a].op \in Calling
    BY <1>5, SelectMoves DEF Typed, Steps
  <2>2. CASE row.id = 0
    <3>1. at'[a] = Done /\ Survives'
      BY <1>5, <2>1, <2>2, SelectMoves DEF Survives
    <3>2. QED
      BY <1>5, <1>d, <1>e, <2>1, <3>1 DEF Work
  <2>3. CASE row.id # 0
    <3>1. at'[a].pc = Write /\ at'[a].op \in Calling /\ at'[a].id = row'.id
      BY <1>5, <2>1, <2>3, SelectMoves
    <3>2. WillStore(a)'
      BY <1>a, <3>1 DEF WillStore, Unstored, Write
    <3>3. setting.vaulted => StoredBy(a)'
      BY <3>1 DEF StoredBy, Calling, Write
    <3>4. QED
      BY <1>5, <1>e, <2>1, <3>2, <3>3 DEF Work, Survives
  <2>4. QED
    BY <2>2, <2>3
<1>6. ASSUME NEW a \in Actors, NEW replace \in BOOLEAN, Enter(a, replace)
      PROVE  Survives' /\ (setting'.vaulted => \A b \in Busy' : StoredBy(b)')
  <2>1. /\ row' = row /\ vault' = vault /\ Others(a) /\ at[a].pc = "decide"
        /\ at[a].op = "save" /\ at'[a].op = "save" /\ at'[a].pc = Write
    BY <1>6, EnterMoves DEF Sets, Same
  <2>2. live \subseteq live'
    BY <1>6, EnterMoves DEF idp
  <2>3. /\ at'[a].held["refresh"] \in {at[a].held["refresh"], Next1}
        /\ at'[a].held["refresh"] = at[a].held["refresh"] \/ Next1 \in live'
    BY <1>6, EnterMoves, RequestFields DEF Sets, Cells
  <2>4. Survives'
    BY <1>a, <1>b, <2>1, <2>2, SurvivesStep DEF WillStore, Unstored, Calling, Stored, Secret
  <2>5. setting.vaulted => StoredBy(a)'
    <3>1. ASSUME setting.vaulted
          PROVE  StoredBy(a) /\ at'[a].pc = "writerefresh"
      BY <1>6, <1>f, <2>1, <3>1 DEF Work, Write
    <3>2. QED
      BY <1>c, <2>1, <2>2, <2>3, <3>1 DEF StoredBy, Calling, Lasts
  <2>6. QED
    BY <1>6, <1>e, <2>1, <2>4, <2>5 DEF Work
<1>7. ASSUME NEW a \in Actors, WriteRefresh(a)
      PROVE  Survives' /\ (setting'.vaulted => \A b \in Busy' : StoredBy(b)')
  <2>1. /\ row' = row /\ live' = live /\ at'[a].op = at[a].op /\ at'[a].held = at[a].held
        /\ vault' = [vault EXCEPT !["refresh"] = at[a].held["refresh"]]
        /\ at'[a].cols = [at[a].cols EXCEPT !["refresh"] = NoToken]
        /\ at[a].pc = "writerefresh" /\ at'[a].pc = "writeaccess"
    BY <1>7, WriteMoves DEF WriteRefresh, idp, Same
  <2>2. vault'["refresh"] = at[a].held["refresh"] /\ at'[a].cols["refresh"] = NoToken
    BY <2>1, RequestFields DEF Typed, Cells
  <2>3. setting.vaulted /\ at[a].op # "delete"
    BY <2>1 DEF Typed, Steps, WithVault, Writing
  <2>4. StoredBy(a)
    BY <1>7, <1>f, <2>3 DEF Work
  <2>5. CASE at[a].op \in Calling
    <3>1. at[a].held["refresh"] \in live
      BY <1>b, <2>1, <2>5 DEF Rotating, Unstored
    <3>2. Survives'
      BY <1>a, <1>c, <2>1, <2>2, <2>3, <3>1 DEF Survives, Lasts, Stored, Secret
    <3>3. StoredBy(a)'
      BY <1>c, <2>1, <2>2, <2>5, <3>1 DEF StoredBy, Calling
    <3>4. QED
      BY <1>7, <1>c, <1>e, <2>2, <3>1, <3>2, <3>3 DEF Work
  <2>6. CASE at[a].op = "save"
    <3>1. Lasts(at[a].held["refresh"]) /\ (at[a].held["refresh"] = NoToken => row.cols["refresh"] = NoToken)
      BY <2>1, <2>4, <2>6 DEF StoredBy
    <3>2. Survives'
      BY <1>a, <2>1, <2>2, <2>3, <3>1 DEF Survives, Lasts, Stored, Secret
    <3>3. StoredBy(a)'
      BY <2>1, <2>2, <2>6, <3>1 DEF StoredBy, Calling, Lasts
    <3>4. QED
      BY <1>7, <1>e, <2>6, <3>2, <3>3 DEF Work, Edits
  <2>7. QED
    BY <2>3, <2>5, <2>6, RequestFields DEF Operations, Calling
<1>8. ASSUME NEW a \in Actors, WriteAccess(a)
      PROVE  Survives' /\ (setting'.vaulted => \A b \in Busy' : StoredBy(b)')
  <2>1. /\ row' = row /\ live' = live /\ at'[a].op = at[a].op /\ at'[a].held = at[a].held
        /\ vault' = [vault EXCEPT !["access"] = at[a].held["access"]]
        /\ at'[a].cols = [at[a].cols EXCEPT !["access"] = NoToken]
        /\ at[a].pc = "writeaccess" /\ at'[a].pc = "commit" /\ Others(a)
    BY <1>8, WriteMoves DEF WriteAccess, idp, Same
  <2>2. vault'["refresh"] = vault["refresh"] /\ at'[a].cols["refresh"] = at[a].cols["refresh"]
    BY <2>1, RequestFields DEF Typed, Cells
  <2>3. setting.vaulted /\ at[a].op # "delete"
    BY <2>1 DEF Typed, Steps, WithVault, Writing
  <2>4. StoredBy(a)
    BY <1>8, <1>f, <2>3 DEF Work
  <2>5. Survives'
    BY <1>a, <1>b, <2>1, <2>2, <2>3, SurvivesStep DEF WillStore, Unstored, Stored, Secret
  <2>6. StoredBy(a)'
    BY <2>1, <2>2, <2>4 DEF StoredBy, Lasts
  <2>7. QED
    BY <1>8, <1>e, <2>2, <2>5, <2>6 DEF Work
<1>9. ASSUME NEW a \in Actors, WipeRefresh(a) \/ WipeAccess(a)
      PROVE  Survives' /\ (setting'.vaulted => \A b \in Busy' : StoredBy(b)')
  <2>1. at[a].op = "delete" /\ (Goto(a, "wipeaccess") \/ Goto(a, "erase"))
    BY <1>9 DEF WipeRefresh, WipeAccess, Typed, Steps, Wiping
  <2>2. at'[a].op = "delete" /\ at'[a].pc \in {"wipeaccess", "erase"} /\ a \in Busy'
    <3>1. at'[a].op = "delete" /\ at'[a].pc \in {"wipeaccess", "erase"}
      BY <2>1, GotoMoves DEF Same
    <3>2. QED
      BY <3>1 DEF Busy
  <2>3. QED
    BY <1>9, <1>e, <2>1, <2>2 DEF Work, Survives, Deleting, StoredBy, Calling, Edits
<1>10. ASSUME NEW a \in Actors, Erase(a)
       PROVE  Survives' /\ (setting'.vaulted => \A b \in Busy' : StoredBy(b)')
  <2>1. row' = NoRow /\ vault' = vault /\ at'[a] = Done
    BY <1>10, FinishMoves DEF Erase
  <2>2. row'.id = 0
    BY <2>1 DEF NoRow
  <2>3. QED
    BY <1>10, <1>d, <1>e, <2>1, <2>2 DEF Work, Survives
<1>11. ASSUME NEW a \in Actors, Commit(a)
       PROVE  Survives' /\ (setting'.vaulted => \A b \in Busy' : StoredBy(b)')
  <2>1. /\ at[a].pc = "commit" /\ at'[a] = Done /\ vault' = vault /\ live' = live /\ Others(a)
        /\ a \in Busy /\ at[a].op # "delete"
    BY <1>11, CommitMoves DEF idp, Busy, Typed, Steps, Writing
  <2>2. Survives'
    <3>a. at[a].id = 0 => at[a].op = "save" /\ at[a].loaded = None
      BY <2>1 DEF Typed, Steps
    <3>b. ASSUME Lasts(row'.cols["refresh"]), ~setting.vaulted \/ vault["refresh"] = NoToken
          PROVE  Survives'
      BY <1>a, <2>1, <3>b DEF Survives, Lasts, Stored, Secret
    <3>c. ASSUME row'.id = row.id, ~WillStore(a),
                 (row'.cols["refresh"] = row.cols["refresh"])
                    \/ (setting.vaulted /\ vault["refresh"] # NoToken)
          PROVE  Survives'
      BY <1>a, <1>b, <2>1, <3>c, SurvivesStep DEF Stored, Secret
    <3>1. CASE at[a].id # row.id /\ row' = row
      <4>1. ~WillStore(a)
        BY <2>1, <3>1 DEF WillStore
      <4>2. QED
        BY <3>c, <3>1, <4>1
    <3>2. CASE row' = [id |-> NewId, expires |-> 0, cols |-> Assigned(a)] /\ at[a].id = 0
      <4>1. row'.cols = Assigned(a) /\ at[a].op = "save" /\ at[a].loaded["refresh"] = NoToken
        BY <1>c, <3>2, <3>a
      <4>2. CASE setting.vaulted
        <5>1. vault["refresh"] = at[a].held["refresh"] /\ row'.cols["refresh"] = NoToken
              /\ Lasts(at[a].held["refresh"])
          BY <1>b, <2>1, <4>1, <4>2 DEF StoredBy, Assigned
        <5>2. QED
          BY <1>a, <2>1, <4>2, <5>1 DEF Survives, Lasts, Stored, Secret
      <4>3. CASE ~setting.vaulted
        <5>1. Lasts(at[a].held["refresh"])
          BY <1>b, <2>1, <4>1, <4>3 DEF Rotating, Edited, Lasts
        <5>2. QED
          BY <2>1, <3>b, <4>1, <4>3, <5>1 DEF Assigned, Lasts
      <4>4. QED
        BY <4>2, <4>3
    <3>3. CASE /\ at[a].id = row.id /\ row.id # 0 /\ row'.id = row.id
               /\ row'.cols = [s \in Secrets |-> IF Assigned(a)[s] # at[a].loaded[s]
                                                 THEN Assigned(a)[s] ELSE row.cols[s]]
      <4>1. row'.cols["refresh"] = IF Assigned(a)["refresh"] # at[a].loaded["refresh"]
                                   THEN Assigned(a)["refresh"] ELSE row.cols["refresh"]
        BY <3>3
      <4>2. CASE setting.vaulted
        <5>1. StoredBy(a) /\ ~WillStore(a)
          BY <1>b, <2>1, <4>2 DEF WillStore, Unstored
        <5>2. CASE vault["refresh"] # NoToken
          BY <3>3, <3>c, <4>2, <5>1, <5>2
        <5>3. CASE vault["refresh"] = NoToken
          <6>1. at[a].op = "save"
            BY <2>1, <5>1, <5>3, RequestFields DEF StoredBy, Operations, Calling
          <6>2. row'.cols["refresh"] = NoToken
            BY <2>1, <4>1, <4>2, <5>1, <5>3, <6>1 DEF StoredBy, Assigned
          <6>3. QED
            BY <3>b, <5>3, <6>2 DEF Lasts
        <5>4. QED
          BY <5>2, <5>3
      <4>3. CASE ~setting.vaulted
        <5>1. Assigned(a) = at[a].held
          BY <4>3 DEF Assigned
        <5>2. Rotating(a) /\ (Private(a, "refresh") => at[a].held["refresh"] # at[a].loaded["refresh"])
          BY <1>b DEF Private
        <5>3. CASE at[a].op \in Calling
          <6>1. Private(a, "refresh") /\ at[a].held["refresh"] \in live
            BY <2>1, <4>3, <5>2, <5>3 DEF Rotating, Unstored
          <6>2. QED
            BY <2>1, <3>b, <4>1, <4>3, <5>1, <5>2, <6>1 DEF Lasts
        <5>4. CASE at[a].op = "save"
          <6>1. ~WillStore(a) /\ Edited(a)
            BY <2>1, <4>3, <5>4 DEF WillStore, Unstored, Calling, Edited
          <6>2. CASE at[a].held["refresh"] = at[a].loaded["refresh"]
            <7>1. row'.cols["refresh"] = row.cols["refresh"]
              BY <4>1, <5>1, <6>2
            <7>2. QED
              BY <3>3, <3>c, <6>1, <7>1
          <6>3. CASE Private(a, "refresh") /\ at[a].held["refresh"] \in live
            BY <2>1, <3>b, <4>1, <4>3, <5>1, <5>2, <6>3 DEF Lasts
          <6>4. QED
            BY <5>2, <6>1, <6>2, <6>3 DEF Rotating
        <5>5. QED
          BY <2>1, <5>3, <5>4, RequestFields DEF Operations, Calling
      <4>4. QED
        BY <4>2, <4>3
    <3>4. QED
      BY <1>11, <3>1, <3>2, <3>3, CommitMoves
  <2>3. QED
    BY <1>11, <1>d, <1>e, <2>1, <2>2 DEF Work
<1>12. ASSUME Tick \/ UNCHANGED vars
       PROVE  Survives' /\ (setting'.vaulted => \A b \in Busy' : StoredBy(b)')
  BY <1>12, <1>b, Idles DEF Survives, Lasts, Stored, Secret, Deleting, WillStore, Unstored,
                            StoredBy
<1>13. ASSUME NEW a \in Actors, Work(a)
       PROVE  Survives' /\ (setting'.vaulted => \A b \in Busy' : StoredBy(b)')
  BY <1>a, <1>2, <1>3, <1>4, <1>5, <1>6, <1>7, <1>8, <1>9, <1>10, <1>11, <1>13 DEF Work
<1>14. QED
  BY <1>1, <1>12, <1>13, NextSplit

LEMMA FirstStep ==
  ASSUME Typed, FirstInv, [Next]_vars
  PROVE  FirstInv'
<1> SUFFICES ASSUME row'.id = 1
             PROVE  /\ \A b \in Busy' : at'[b].id = 1
                    /\ Undisturbed' /\ ~Deleting' =>
                         Stored("refresh")' # NoToken /\ \A b \in Busy' : FirstBy(b)'
  BY DEF FirstInv
<1> USE SecretsTwo
<1>a. \A a \in Actors : ~Erase(a)
  BY DEF Erase, NoRow
<1>b. row.id = 1
  <2>1. ASSUME NEW a \in Actors, Commit(a)
        PROVE  row.id = 1
    <3>1. row' # [id |-> NewId, expires |-> 0, cols |-> Assigned(a)]
      BY NewIdIsNew
    <3>2. QED
      BY <2>1, <3>1, CommitMoves
  <2>2. ASSUME NEW a \in Actors, NEW op \in Operations, Begin(a, op)
        PROVE  row.id = 1
    BY <2>2, BeginMoves
  <2>3. QED
    BY <1>a, <2>1, <2>2, RowKnown, Idles, NextSplit
<1>c. \A b \in Busy : at[b].id = 1
  BY <1>b DEF FirstInv
<1>d. ASSUME NEW a \in Actors, at'[a] = Done
      PROVE  a \notin Busy'
  BY <1>d, DoneFields DEF Busy
<1>1. \A b \in Busy' : at'[b].id = 1
  <2>1. ASSUME NEW a \in Actors, Work(a)
        PROVE  \A b \in Busy' : at'[b].id = 1
    <3>1. Others(a) /\ at[a].id = 1
      BY <1>c, <2>1, GoesOn
    <3>2. at'[a] = Done \/ at'[a].id = 1
      BY <1>a, <1>b, <2>1, <3>1, RowKnown, CommitMoves
    <3>3. QED
      BY <1>c, <1>d, <3>1, <3>2, BusyMoves
  <2>2. ASSUME NEW a \in Actors, NEW op \in Operations, Begin(a, op)
        PROVE  \A b \in Busy' : at'[b].id = 1
    <3>1. Others(a) /\ at'[a].id = 1
      BY <1>b, <2>2, BeginMoves
    <3>2. QED
      BY <1>c, <3>1, BusyMoves
  <2>3. QED
    BY <1>c, <2>1, <2>2, Idles, NextSplit
<1>2. ASSUME Undisturbed', ~Deleting'
      PROVE  Stored("refresh")' # NoToken /\ \A b \in Busy' : FirstBy(b)'
  <2>a. /\ Undisturbed /\ setting' = setting
        /\ \A a \in Actors : ~FetchLost(a) /\ ~WipeMissed(a) /\ ~WriteSwallowed(a) /\ ~Die(a)
    BY <1>2, Undisturbs
  <2>b. ASSUME NEW a \in Actors, Work(a) \/ \E op \in Operations : Begin(a, op),
               a \in Busy => at[a].op # "delete"
        PROVE  ~Deleting /\ Stored("refresh") # NoToken /\ \A b \in Busy : FirstBy(b)
    <3>1. Others(a)
      BY <2>b, GoesOn, BeginMoves
    <3>2. \A b \in Busy : b = a \/ (b \in Busy' /\ at'[b] = at[b])
      BY <3>1, BusyMoves
    <3>3. ~Deleting
      BY <1>2, <2>b, <3>2 DEF Deleting
    <3>4. QED
      BY <1>b, <2>a, <3>3 DEF FirstInv
  \* The requests that do not take the step.
  <2>c. ASSUME NEW a \in Actors, Others(a), \A b \in Busy : FirstBy(b), a \in Busy' => FirstBy(a)',
               vault'["refresh"] # NoToken \/ vault'["refresh"] = vault["refresh"]
        PROVE  \A b \in Busy' : FirstBy(b)'
    <3> SUFFICES ASSUME NEW b \in Busy', b # a
                 PROVE  FirstBy(b)'
      BY <2>c
    <3>1. b \in Busy /\ at'[b] = at[b]
      BY <2>c, BusyMoves
    <3>2. QED
      BY <2>a, <2>c, <3>1 DEF FirstBy, Secret
  <2>d. ASSUME row' = row, vault'["refresh"] = vault["refresh"], Stored("refresh") # NoToken
        PROVE  Stored("refresh")' # NoToken
    BY <2>a, <2>d DEF Stored, Secret
  <2>1. ASSUME NEW a \in Actors, NEW op \in Operations, Begin(a, op)
        PROVE  Stored("refresh")' # NoToken /\ \A b \in Busy' : FirstBy(b)'
    <3>1. /\ row' = row /\ vault' = vault /\ Others(a) /\ a \notin Busy /\ at'[a].op = op
          /\ at'[a].held = row.cols /\ at'[a].loaded = row.cols
          /\ op = "delete" => at'[a].pc \in {"wiperefresh", "erase"}
          /\ op # "delete" => at'[a].pc = IF setting.vaulted THEN "readrefresh" ELSE "decide"
      BY <1>b, <2>1, BeginMoves, BusyIs
    <3>2. op # "delete"
      <4>1. op = "delete" => a \in Busy' /\ at'[a].op = "delete"
        BY <3>1 DEF Busy
      <4>2. QED
        BY <1>2, <4>1 DEF Deleting
    <3>3. Stored("refresh") # NoToken /\ \A b \in Busy : FirstBy(b)
      BY <2>1, <2>b, <3>1
    <3>4. FirstBy(a)'
      BY <2>a, <3>1, <3>2, <3>3 DEF FirstBy, Stored, Secret
    <3>5. QED
      BY <2>c, <2>d, <3>1, <3>3, <3>4
  <2>2. ASSUME NEW a \in Actors, Work(a)
        PROVE  Stored("refresh")' # NoToken /\ \A b \in Busy' : FirstBy(b)'
    <3>1. a \in Busy /\ Others(a)
      BY <2>2, GoesOn
    <3>2. at[a].op # "delete"
      <4> SUFFICES ASSUME at[a].op = "delete"
                   PROVE  FALSE
        OBVIOUS
      <4>1. at[a].pc \notin Reading \cup Writing \cup {"select"}
        BY DEF Typed, Steps, Calling
      <4>2. WipeRefresh(a) \/ WipeAccess(a)
        BY <1>a, <2>2, <2>a, <4>1 DEF Work, ReadRefresh, ReadAccess, UseStored, Fetch, Issue, Asks,
           Refused, Select, WriteRefresh, WriteAccess, Commit, CommitWith, Enter, Reading, Writing
      <4>3. Goto(a, "wipeaccess") \/ Goto(a, "erase")
        BY <4>2 DEF WipeRefresh, WipeAccess
      <4>4. at'[a].op = "delete" /\ at'[a].pc \in {"wipeaccess", "erase"}
        BY <4>3, GotoMoves DEF Same
      <4>5. a \in Busy'
        BY <4>4 DEF Busy
      <4>6. QED
        BY <1>2, <4>4, <4>5 DEF Deleting
    <3>3. Stored("refresh") # NoToken /\ \A b \in Busy : FirstBy(b)
      BY <2>2, <2>b, <3>2
    <3>4. FirstBy(a)
      BY <3>1, <3>3
    <3>5. CASE UseStored(a) \/ Refused(a)
      <4>1. row' = row /\ vault' = vault /\ at'[a] = Done
        BY <3>5, FinishMoves DEF UseStored, Refused, store
      <4>2. QED
        BY <1>d, <2>c, <2>d, <3>1, <3>3, <4>1
    <3>6. CASE ReadRefresh(a)
      <4>1. Sets(a, "refresh", Secret("refresh", at[a].loaded["refresh"]), "readaccess")
        BY <3>6, ReadMoves
      <4>2. /\ at'[a].held["refresh"] = Secret("refresh", at[a].loaded["refresh"])
            /\ at'[a].pc = "readaccess"
        BY <4>1, RequestFields DEF Sets, Cells
      <4>3. row' = row /\ vault' = vault /\ at[a].pc = "readrefresh"
        BY <3>6 DEF ReadRefresh, store
      <4>4. FirstBy(a)'
        BY <3>4, <4>2, <4>3 DEF FirstBy
      <4>5. QED
        BY <2>c, <2>d, <3>1, <3>3, <4>3, <4>4
    <3>7. CASE ReadAccess(a)
      <4>1. Sets(a, "access", Secret("access", at[a].loaded["access"]), "decide")
        BY <3>7, ReadMoves
      <4>2. at'[a].held["refresh"] = at[a].held["refresh"] /\ at'[a].pc = "decide"
        BY <4>1, RequestFields DEF Sets, Cells
      <4>3. row' = row /\ vault' = vault /\ at[a].pc = "readaccess"
        BY <3>7 DEF ReadAccess, store
      <4>4. FirstBy(a)'
        BY <3>4, <4>2, <4>3 DEF FirstBy
      <4>5. QED
        BY <2>c, <2>d, <3>1, <3>3, <4>3, <4>4
    <3>8. CASE Fetch(a)
      <4>1. row' = row /\ vault' = vault /\ at[a].pc = "decide" /\ at'[a].pc = "select"
        BY <3>8, FetchMoves
      <4>2. at'[a].held["refresh"] \in {Next1, at[a].held["refresh"]}
        <5>1. at'[a].held = Apply(a)
          BY <3>8, FetchMoves
        <5>2. QED
          BY <5>1, ApplyFields
      <4>3. FirstBy(a)'
        BY <3>4, <4>1, <4>2, NewIsPrivate DEF FirstBy
      <4>4. QED
        BY <2>c, <2>d, <3>1, <3>3, <4>1, <4>3
    <3>9. CASE Select(a)
      <4>1. /\ row' = row /\ vault' = vault /\ at[a].pc = "select" /\ at'[a].pc = Write
            /\ at'[a].held = at[a].held
        <5>1. row.id # 0
          BY <1>b
        <5>2. QED
          BY <3>9, <5>1, SelectMoves
      <4>2. FirstBy(a)'
        BY <2>a, <3>4, <4>1 DEF FirstBy, Write
      <4>3. QED
        BY <2>c, <2>d, <3>1, <3>3, <4>1, <4>2
    <3>10. ASSUME NEW replace \in BOOLEAN, Enter(a, replace)
           PROVE  Stored("refresh")' # NoToken /\ \A b \in Busy' : FirstBy(b)'
      <4>1. /\ row' = row /\ vault' = vault /\ at[a].pc = "decide" /\ at'[a].pc = Write
            /\ at'[a].held["refresh"] \in {at[a].held["refresh"], Next1}
        BY <3>10, EnterMoves, RequestFields DEF Sets, Cells
      <4>2. FirstBy(a)'
        BY <2>a, <3>4, <4>1, NewIsPrivate DEF FirstBy, Write
      <4>3. QED
        BY <2>c, <2>d, <3>1, <3>3, <4>1, <4>2
    <3>11. CASE WriteRefresh(a)
      <4>1. /\ row' = row /\ at'[a].held = at[a].held
            /\ vault' = [vault EXCEPT !["refresh"] = at[a].held["refresh"]]
            /\ at[a].pc = "writerefresh" /\ at'[a].pc = "writeaccess"
        BY <3>11, WriteMoves DEF WriteRefresh
      <4>2. vault'["refresh"] = at[a].held["refresh"] /\ setting.vaulted
        BY <4>1 DEF Typed, Cells, Steps, WithVault
      <4>3. vault'["refresh"] # NoToken
        BY <3>4, <4>1, <4>2 DEF FirstBy
      <4>4. FirstBy(a)'
        BY <4>1, <4>2, <4>3 DEF FirstBy
      <4>5. QED
        BY <2>a, <2>c, <3>1, <3>3, <4>2, <4>3, <4>4 DEF Stored, Secret
    <3>12. CASE WriteAccess(a)
      <4>1. /\ row' = row /\ at'[a].held = at[a].held
            /\ vault' = [vault EXCEPT !["access"] = at[a].held["access"]]
            /\ at[a].pc = "writeaccess" /\ at'[a].pc = "commit"
        BY <3>12, WriteMoves DEF WriteAccess
      <4>2. vault'["refresh"] = vault["refresh"]
        BY <4>1 DEF Typed, Cells
      <4>3. FirstBy(a)'
        BY <2>a, <3>4, <4>1, <4>2 DEF FirstBy
      <4>4. QED
        BY <2>c, <2>d, <3>1, <3>3, <4>1, <4>2, <4>3
    <3>13. CASE Commit(a)
      <4>1. at[a].pc = "commit" /\ at'[a] = Done /\ vault' = vault
        BY <3>13, CommitMoves
      <4>2. Stored("refresh")' # NoToken
        <5>1. CASE row' = row
          BY <2>d, <3>3, <4>1, <5>1
        <5>2. CASE row'.cols = [s \in Secrets |-> IF Assigned(a)[s] # at[a].loaded[s]
                                                  THEN Assigned(a)[s] ELSE row.cols[s]]
          <6>1. row'.cols["refresh"] \in {Assigned(a)["refresh"], row.cols["refresh"]}
            BY <5>2
          <6>2. CASE setting.vaulted
            BY <2>a, <3>4, <4>1, <6>2 DEF FirstBy, Stored, Secret
          <6>3. CASE ~setting.vaulted
            BY <2>a, <3>3, <3>4, <4>1, <6>1, <6>3 DEF FirstBy, Stored, Secret, Assigned
          <6>4. QED
            BY <6>2, <6>3
        <5>3. at[a].id = 1
          BY <1>c, <3>1
        <5>4. QED
          BY <1>b, <3>13, <5>1, <5>2, <5>3, CommitMoves
      <4>3. QED
        BY <1>d, <2>c, <3>1, <3>3, <4>1, <4>2
    <3>14. ~WipeRefresh(a) /\ ~WipeAccess(a)
      BY <3>2 DEF WipeRefresh, WipeAccess, Typed, Steps, Wiping
    <3>15. QED
      BY <1>a, <2>2, <2>a, <3>5, <3>6, <3>7, <3>8, <3>9, <3>10, <3>11, <3>12, <3>13, <3>14 DEF Work
  <2>3. ASSUME Tick \/ UNCHANGED vars
        PROVE  Stored("refresh")' # NoToken /\ \A b \in Busy' : FirstBy(b)'
    <3>1. ~Deleting
      BY <1>2, <2>3, Idles DEF Deleting
    <3>2. QED
      BY <1>b, <2>3, <2>a, <3>1, Idles DEF FirstInv, FirstBy, Stored, Secret
  <2>4. QED
    BY <2>1, <2>2, <2>3, NextSplit
<1>3. QED
  BY <1>1, <1>2

LEMMA LeftStep ==
  ASSUME Typed, Overlaps, SameRow, LeftInv, [Next]_vars
  PROVE  LeftInv'
<1> SUFFICES ASSUME faults' = 0, EditsAlone'
             PROVE  /\ row'.id = 0 => vault' = None \/ \E b \in Busy' : at'[b].op = "save"
                    /\ \A b \in Busy' : /\ at'[b].pc = "wipeaccess" => vault'["refresh"] = NoToken
                                        /\ at'[b].pc = "erase" => vault' = None
  BY DEF LeftInv
<1> USE SecretsTwo
<1>a. /\ setting' = setting /\ EditsAlone
      /\ \A a \in Actors : ~FetchLost(a) /\ ~WipeMissed(a) /\ ~WriteSwallowed(a) /\ ~Die(a)
  BY Remains, Undisturbs DEF Undisturbed, EditsAlone
<1>b. /\ row.id = 0 => vault = None \/ \E b \in Busy : at[b].op = "save"
      /\ \A b \in Busy : /\ at[b].pc = "wipeaccess" => vault["refresh"] = NoToken
                         /\ at[b].pc = "erase" => vault = None
  <2>1. faults = 0
    BY Remains DEF Typed, TypeOK
  <2>2. QED
    BY <1>a, <2>1 DEF LeftInv
<1>1. CASE ~setting.vaulted
  <2>1. vault' = None /\ None["refresh"] = NoToken
    BY <1>1, <1>a, TypedStep, GivenIsNat DEF Typed
  <2>2. QED
    BY <2>1
<1>2. CASE setting.vaulted
  <2>a. \A b \in Busy : at[b].id = row.id
    BY <1>2, <1>a DEF SameRow
  \* Deletions are alone.
  <2>b. ASSUME NEW a \in Actors, Work(a) \/ \E op \in Operations : Begin(a, op),
               /\ at'[a].pc = "wipeaccess" => vault'["refresh"] = NoToken
               /\ at'[a].pc = "erase" => vault' = None
        PROVE  \A b \in Busy' : /\ at'[b].pc = "wipeaccess" => vault'["refresh"] = NoToken
                                /\ at'[b].pc = "erase" => vault' = None
    <3>1. ASSUME NEW b \in Busy'
          PROVE  b = a \/ at'[b].pc \notin Wiping
      <4>1. Typed' /\ b \in Actors
        BY TypedStep DEF Busy
      <4>2. at'[b].pc \in Wiping => at'[b].op = "delete"
        BY <4>1 DEF Typed, Steps
      <4>3. QED
        BY <2>b, <4>2, AloneEdit DEF Edits
    <3>2. QED
      BY <2>b, <3>1 DEF Wiping
  <2>1. ASSUME NEW a \in Actors, NEW op \in Operations, Begin(a, op)
        PROVE  /\ row'.id = 0 => vault' = None \/ \E b \in Busy' : at'[b].op = "save"
               /\ \A b \in Busy' : /\ at'[b].pc = "wipeaccess" => vault'["refresh"] = NoToken
                                   /\ at'[b].pc = "erase" => vault' = None
    <3>1. row' = row /\ vault' = vault /\ Others(a) /\ a \notin Busy
      BY <2>1, BeginMoves, BusyIs
    <3>2. at'[a].pc \notin {"wipeaccess", "erase"}
      BY <1>2, <2>1, BeginMoves, DoneFields DEF Operations
    <3>3. (\E b \in Busy : at[b].op = "save") => \E b \in Busy' : at'[b].op = "save"
      BY <3>1, BusyMoves
    <3>4. QED
      BY <1>b, <2>1, <2>b, <3>1, <3>2, <3>3
  <2>2. ASSUME NEW a \in Actors, Work(a)
        PROVE  /\ row'.id = 0 => vault' = None \/ \E b \in Busy' : at'[b].op = "save"
               /\ \A b \in Busy' : /\ at'[b].pc = "wipeaccess" => vault'["refresh"] = NoToken
                                   /\ at'[b].pc = "erase" => vault' = None
    <3>1. a \in Busy /\ Others(a) /\ at[a].id = row.id
      BY <2>2, <2>a, GoesOn
    <3>2. CASE WipeRefresh(a) \/ WipeAccess(a)
      <4>1. at[a].op = "delete" /\ row' = row
        BY <3>2 DEF WipeRefresh, WipeAccess, Typed, Steps, Wiping
      <4>2. row.id # 0
        BY <3>1, <4>1 DEF Typed, Steps
      <4>3. CASE WipeRefresh(a)
        <5>1. vault'["refresh"] = NoToken /\ Goto(a, "wipeaccess")
          BY <4>3 DEF WipeRefresh, Typed, Cells
        <5>2. at'[a].pc = "wipeaccess"
          BY <5>1, GotoMoves
        <5>3. QED
          BY <2>2, <2>b, <4>1, <4>2, <5>1, <5>2
      <4>4. CASE WipeAccess(a)
        <5>1. vault["refresh"] = NoToken /\ Goto(a, "erase")
          BY <1>b, <3>1, <4>4 DEF WipeAccess
        <5>2. vault' = None
          <6>1. vault' = [vault EXCEPT !["access"] = NoToken] /\ vault \in Cells
            BY <4>4 DEF WipeAccess, Typed
          <6>2. QED
            BY <5>1, <6>1 DEF Cells, None
        <5>3. at'[a].pc = "erase"
          BY <5>1, GotoMoves
        <5>4. QED
          BY <2>2, <2>b, <4>1, <4>2, <5>2, <5>3
      <4>5. QED
        BY <3>2, <4>3, <4>4
    <3>3. CASE Erase(a)
      <4>1. vault' = None /\ at'[a] = Done
        BY <1>b, <3>1, <3>3, FinishMoves DEF Erase
      <4>2. QED
        BY <2>2, <2>b, <4>1, DoneFields
    <3>4. CASE ~WipeRefresh(a) /\ ~WipeAccess(a) /\ ~Erase(a)
      <4>1. at[a].pc \in Reading \cup Writing \cup {"select"} /\ at'[a].pc \notin Wiping
        <5>1. at[a].pc \in Reading \cup Writing \cup {"select"}
          BY <1>a, <2>2, <3>4 DEF Work, ReadRefresh, ReadAccess, UseStored, Fetch, Issue, Asks,
             Refused, Select, WriteRefresh, WriteAccess, Commit, CommitWith, Enter, Reading, Writing
        <5>2. at[a].op # "delete"
          BY <5>1 DEF Typed, Steps, Calling
        <5>3. at'[a].op # "delete"
          BY <2>2, <5>2, GoesOn, DoneFields
        <5>4. Typed'
          BY TypedStep
        <5>5. QED
          BY <5>1, <5>3, <5>4 DEF Typed, Steps
      <4>2. \A b \in Busy' : /\ at'[b].pc = "wipeaccess" => vault'["refresh"] = NoToken
                             /\ at'[b].pc = "erase" => vault' = None
        BY <2>2, <2>b, <4>1 DEF Wiping
      <4>3. ASSUME row'.id = 0
            PROVE  vault' = None \/ \E b \in Busy' : at'[b].op = "save"
        <5>1. row.id = 0 /\ ~Commit(a)
          <6>1. ASSUME Commit(a)
                PROVE  FALSE
            <7>1. row' # [id |-> NewId, expires |-> 0, cols |-> Assigned(a)]
              BY <4>3, NewIdIsNew
            <7>2. QED
              BY <3>1, <4>3, <6>1, <7>1, CommitMoves
          <6>2. QED
            BY <2>2, <3>4, <4>3, <6>1, RowKnown
        <5>2. at[a].op = "save"
          BY <3>1, <5>1 DEF Typed, Steps
        <5>3. ~UseStored(a) /\ ~Refused(a) /\ ~Fetch(a) /\ ~Select(a)
          BY <5>2 DEF UseStored, Refused, Fetch, Issue, Asks, Select, Typed, Steps, Calling
        <5>4. at'[a].op = "save" /\ at'[a].pc \notin {"idle", "done"}
          <6>1. CASE ReadRefresh(a) \/ ReadAccess(a)
            BY <5>2, <6>1, ReadMoves DEF Sets, Same
          <6>2. CASE WriteRefresh(a) \/ WriteAccess(a)
            <7>1. WriteSecret(a, "refresh", "writeaccess") \/ WriteSecret(a, "access", "commit")
              BY <6>2 DEF WriteRefresh, WriteAccess
            <7>2. Same(a) /\ at'[a].pc \in {"writeaccess", "commit"}
              BY <7>1, WriteMoves
            <7>3. QED
              BY <5>2, <7>2 DEF Same
          <6>3. ASSUME NEW replace \in BOOLEAN, Enter(a, replace)
                PROVE  at'[a].op = "save" /\ at'[a].pc \notin {"idle", "done"}
            BY <5>2, <6>3, EnterMoves DEF Sets, Same, Write
          <6>4. QED
            BY <1>a, <2>2, <3>4, <5>1, <5>3, <6>1, <6>2, <6>3 DEF Work
        <5>5. a \in Busy'
          BY <5>4 DEF Busy
        <5>6. QED
          BY <5>4, <5>5
      <4>4. QED
        BY <4>2, <4>3
    <3>5. QED
      BY <3>2, <3>3, <3>4
  <2>3. ASSUME Tick \/ UNCHANGED vars
        PROVE  /\ row'.id = 0 => vault' = None \/ \E b \in Busy' : at'[b].op = "save"
               /\ \A b \in Busy' : /\ at'[b].pc = "wipeaccess" => vault'["refresh"] = NoToken
                                   /\ at'[b].pc = "erase" => vault' = None
    BY <1>b, <2>3, Idles
  <2>4. QED
    BY <2>1, <2>2, <2>3, NextSplit
<1>3. QED
  BY <1>1, <1>2

----------------------------------------------------------------------------
(* The theorems.                                                            *)

LEMMA InvInit ==
  ASSUME Init
  PROVE  /\ Overlaps /\ SameRow /\ AccessInv /\ HonestInv /\ LastInv /\ RotateInv /\ StoredInv
         /\ FirstInv /\ LeftInv
<1> USE SecretsTwo
<1>1. /\ Typed /\ Busy = {} /\ \A a \in Actors : at[a] = Idle
      /\ crossed = {} /\ row.id = 1 /\ live = {1} /\ row.expires = Lifetime
      /\ grants = <<Lifetime>> /\ None["access"] = NoToken /\ None["refresh"] = NoToken
  <2>1. Typed
    BY TypedInit
  <2>2. row.id = 1 /\ row.expires = Lifetime
    BY DEF Init
  <2>3. QED
    BY <2>1, <2>2, GivenIsNat DEF Init, Busy, Idle
<1>2. \A a \in Actors : ~Fetched(a) /\ ~Unstored(a) /\ ~Edited(a)
  BY <1>1 DEF Fetched, Unstored, Edited, Idle, Writing
<1>3. /\ row.cols["access"] \in {1, NoToken} /\ vault["access"] \in {1, NoToken}
      /\ row.cols["refresh"] \in {1, NoToken} /\ vault["refresh"] \in {1, NoToken}
      /\ Stored("refresh") = 1
  <2> DEFINE tokens == [s \in Secrets |-> 1]
  <2>1. tokens["access"] = 1 /\ tokens["refresh"] = 1
    OBVIOUS
  <2>2. PICK inVault \in {FALSE, setting.vaulted} :
           /\ row = [id |-> 1, expires |-> Lifetime, cols |-> IF inVault THEN None ELSE tokens]
           /\ vault = IF inVault THEN tokens ELSE None
    BY DEF Init
  <2> HIDE DEF tokens
  <2>3. CASE inVault
    <3>1. row.cols = None /\ vault = tokens /\ setting.vaulted
      BY <2>2, <2>3
    <3>2. 1 # NoToken
      BY BrokerAssumption
    <3>3. QED
      BY <1>1, <2>1, <3>1, <3>2 DEF Stored, Secret
  <2>4. CASE ~inVault
    <3>1. row.cols = tokens /\ vault = None
      BY <2>2, <2>4
    <3>2. QED
      BY <1>1, <2>1, <3>1 DEF Stored, Secret
  <2>5. QED
    BY <2>3, <2>4
<1>4. Overlaps /\ SameRow /\ AccessInv /\ RotateInv /\ LeftInv
  BY <1>1, <1>2 DEF Overlaps, SameRow, AccessInv, RotateInv, Rotating, LeftInv
<1>5. HonestInv
  <2>1. grants[1] = Lifetime
    BY <1>1
  <2>2. Lifetime <= Lifetime
    BY BrokerAssumption
  <2>3. QED
    BY <1>1, <1>3, <2>1, <2>2 DEF HonestInv, Honest
<1>6. LastInv
  BY <1>1, <1>3 DEF LastInv, Lasts, Idle
<1>7. StoredInv
  BY <1>1, <1>3 DEF StoredInv, Survives, Lasts
<1>8. FirstInv
  <2>1. 1 # NoToken
    BY BrokerAssumption
  <2>2. QED
    BY <1>1, <1>3, <2>1 DEF FirstInv
<1>9. QED
  BY <1>4, <1>5, <1>6, <1>7, <1>8

\* Types, and what requests that have not overlapped know of the row.
OAuthInv == Typed /\ Overlaps /\ SameRow

\* In every reachable state the state is well typed, requests overlap only as
\* crossed says, and one that could not be disturbed has read the row that is
\* there (load_oauth_state, save_oauth_state).
THEOREM OAuthInvHolds == Spec => []OAuthInv
<1>1. Init => OAuthInv
  BY TypedInit, InvInit DEF OAuthInv
<1>2. OAuthInv /\ [Next]_vars => OAuthInv'
  BY TypedStep, OverlapsStep, SameRowStep DEF OAuthInv
<1>3. QED
  BY <1>1, <1>2, PTL DEF Spec

\* No access token that has expired is taken for a fresh one: the row does not
\* outlive the token that it or Vault holds, whatever calls, refreshes and edits
\* overlap without Vault, and with it as long as none do (apply_token_grant,
\* persist_token_state).
THEOREM BrokerInvHolds == Spec => []BrokerInv
<1> DEFINE I == OAuthInv /\ AccessInv /\ HonestInv
<1>1. Init => I
  BY TypedInit, InvInit DEF OAuthInv
<1>2. I /\ [Next]_vars => I'
  BY TypedStep, OverlapsStep, SameRowStep, AccessStep, HonestStep DEF OAuthInv
<1>3. I => BrokerInv
  <2> SUFFICES ASSUME I, setting.vaulted => crossed = {} /\ ~swallowed, row.id # 0,
                      Stored("access") # NoToken
               PROVE  row.expires <= grants[Stored("access")]
    BY DEF BrokerInv, ExpiryHonest, OAuthInv, Typed
  <2>1. Honest(row.cols["access"]) /\ Honest(vault["access"])
    BY DEF HonestInv, Calm
  <2>2. QED
    BY <2>1 DEF Stored, Secret, Honest
<1> HIDE DEF I
<1>4. QED
  BY <1>1, <1>2, <1>3, PTL DEF Spec

\* As long as nothing is lost, the refresh token that is stored is accepted, or a
\* request is about to store one that is or to delete the credential, however
\* refreshes overlap and, without Vault, edits too (fetch_and_apply_token,
\* persist_token_state).
THEOREM RefreshLivesHolds == Spec => []RefreshLives
<1> DEFINE I == OAuthInv /\ LastInv /\ RotateInv /\ StoredInv /\ FirstInv
<1>1. Init => I
  BY TypedInit, InvInit DEF OAuthInv
<1>2. I /\ [Next]_vars => I'
  BY TypedStep, OverlapsStep, SameRowStep, LastStep, RotateStep, StoredStep, FirstStep
     DEF OAuthInv
<1>3. I => RefreshLives
  <2> SUFFICES ASSUME I, Undisturbed, row.id # 0, ~Deleting,
                      ~\E a \in Actors : Storing(a)
               PROVE  \/ Stored("refresh") \in live
                      \/ Stored("refresh") = NoToken /\ row.id # 1
    BY DEF RefreshLives, Undisturbed, EditsAlone, Deleting, Busy
  <2>1. Lasts(Stored("refresh"))
    <3>1. CASE setting.grant = "rotating"
      <4>1. ASSUME NEW a \in Actors, WillStore(a)
            PROVE  FALSE
        <5>1. at[a].held["refresh"] \in live
          BY <3>1, <4>1 DEF WillStore, RotateInv, Rotating
        <5>2. Storing(a)
          BY <4>1, <5>1 DEF WillStore, Unstored, Storing
        <5>3. QED
          BY <5>2
      <4>2. QED
        BY <3>1, <4>1 DEF StoredInv, Survives
    <3>2. CASE setting.grant # "rotating"
      BY <3>2 DEF LastInv, Stored, Secret
    <3>3. QED
      BY <3>1, <3>2
  <2>2. row.id = 1 => Stored("refresh") # NoToken
    BY DEF FirstInv
  <2>3. QED
    BY <2>1, <2>2 DEF Lasts
<1> HIDE DEF I
<1>4. QED
  BY <1>1, <1>2, <1>3, PTL DEF Spec

\* A deletion that nothing disturbed leaves none of the credential's tokens in
\* Vault (delete_oauth_state).
THEOREM NothingLeftHolds == Spec => []NothingLeft
<1> DEFINE I == OAuthInv /\ LeftInv
<1>1. Init => I
  BY TypedInit, InvInit DEF OAuthInv
<1>2. I /\ [Next]_vars => I'
  BY TypedStep, OverlapsStep, SameRowStep, LeftStep DEF OAuthInv
<1>3. I => NothingLeft
  BY DEF LeftInv, NothingLeft, EditsAlone
<1> HIDE DEF I
<1>4. QED
  BY <1>1, <1>2, <1>3, PTL DEF Spec

=============================================================================
