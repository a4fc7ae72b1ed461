---------------------------- MODULE GatewayChat -----------------------------
(***************************************************************************)
(* One chat completion in the gateway, from prepare_chat_request to the    *)
(* answer: backend/app/services/gateway_service.py and the tail of         *)
(* _handle_chat_completions in backend/app/api/v1/gateway.py.              *)
(*                                                                         *)
(* The handler awaits the database, the policy agent, the alert connectors *)
(* the model providers and the MCP servers; at each await the provider may *)
(* fail, the client of a stream may leave, and the handler may be cut off  *)
(* by an exception or the death of the process, which rolls back what the  *)
(* session has not committed.                                              *)
(***************************************************************************)
EXTENDS ToolSequence, SequencesExt

CONSTANTS
    Models,
    Groups,         \* the members of a routing group, by priority (<<>>: no group)
    Streaming,      \* which kinds of request arrive: a subset of BOOLEAN
    Sensitive,      \* the roles whose messages may hold sensitive text
    CallLists,      \* the tool call lists a provider may answer with
    MaxToolIterations,  \* MAX_MCP_TOOL_ITERATIONS
    MaxUsed,        \* bound on the tokens of one provider answer
    MaxChunks       \* bound on the chunks of a stream

ASSUME ModelsAssumption == Models # {} /\ Groups \subseteq Seq(Models)
ASSUME StreamingAssumption == Streaming \subseteq BOOLEAN
ASSUME SensitiveAssumption == Sensitive \subseteq {"user", "system", "assistant"}
ASSUME CallListsAssumption == CallLists \subseteq Seq(Calls) \ {<<>>}
ASSUME GatewayBounds ==
    MaxToolIterations \in Nat /\ MaxUsed \in Nat \ {0} /\ MaxChunks \in Nat

VARIABLES
    pc,
    stream,         \* request.stream
    prompt,         \* the roles whose messages still hold sensitive text
    combined,       \* whether the text under inspection still does
    sanitized,      \* who found sensitive text: the classifier, DLP or a rule
    outcome,        \* how the request ends, "none" before that is decided
    plan,           \* the statements left to execute for that outcome
    flushed,        \* audit rows added to the session
    audit,          \* audit rows committed
    candidates,     \* the failover candidates
    cand,           \* the candidate in use
    iterations,     \* tool rounds with this candidate
    history,        \* tool_sequence_history: the calls this candidate asked for
    calls,          \* the calls of the current message still to be handled
    used,           \* usage.total_tokens of the last answer
    charged,        \* tokens added to the token budgets
    chunks,         \* chunks the client of a stream has received
    answer,         \* what the client got: "none" until it is answered
    sent,           \* history: provider calls made
    exposed,        \* history: the roles whose sensitive text a provider received
    executed,       \* history: the tool calls executed, with their candidate
    spent           \* history: tokens the providers reported

text == <<prompt, combined, sanitized>>
rows == <<flushed, audit>>
loop == <<candidates, cand, iterations, history, calls, used>>
ghosts == <<sent, exposed, executed, spent>>
vars == <<pc, stream, text, outcome, plan, rows, loop, charged, chunks, answer, ghosts>>

Roles == {"user", "system", "assistant"}

\* text_for_inspection joins the messages of these roles only.
InspectedRoles == {"user", "system"}

IngressRefusals == {"classifier", "approval", "policy", "prompt", "abac"}
Refusals == IngressRefusals \union {"egress"}
Streamed == {"streamed", "streamblocked", "broken"}
Outcomes == Refusals \union {"answered", "outage"} \union Streamed

\* A prompt refused by the strict template policy is answered like a failed
\* provider, since its inspection result still says allowed.
Answer == [o \in Outcomes |->
    IF o \in Streamed \union {"answered"} THEN "content"
    ELSE IF o \in {"prompt", "outage"} THEN "bad_gateway" ELSE "forbidden"]

\* The statements that end a request, in the order of the code.  (For
\* mutation: the answer is billed before it is inspected, and the row of a
\* failed request is left to the end of the session.)
PlanEarlyCharge(o) ==
    IF o = "egress" THEN <<"charge", "audit", "commit", "alert">> ELSE <<"charge", "audit", "commit">>
PlanNoCommit(o) == IF o = "outage" THEN <<"audit", "alert">> ELSE <<"audit", "commit", "alert">>

Plan(o) ==
    CASE o \in {"classifier", "policy", "abac", "egress", "outage", "broken"} ->
            <<"audit", "commit", "alert">>
      [] o = "approval" -> <<"audit", "commit">>
      [] o = "prompt" -> <<"audit", "alert", "commit">>
      [] o \in {"answered", "streamed"} -> <<"charge", "audit", "commit">>
      [] o = "streamblocked" -> <<"charge", "alert", "audit", "commit">>

\* _resolve_failover_candidates: the routed model, then the other members in
\* the order of their first appearance.  (The one element of this set.)
First(members, m) == CHOOSE i \in DOMAIN members :
    members[i] = m /\ \A j \in 1..(i - 1) : members[j] # m

Failover(routed, members) ==
    {cs \in SeqOf(Models, Len(members) + 1) :
        /\ cs # <<>> /\ cs[1] = routed
        /\ IsInjective(cs) /\ ToSet(cs) = {routed} \union ToSet(members)
        /\ \A j \in 3..Len(cs) : First(members, cs[j - 1]) < First(members, cs[j])}

Init ==
    /\ pc = "classify"
    /\ stream \in Streaming
    /\ prompt \in SUBSET Sensitive
    /\ combined = (prompt \intersect InspectedRoles # {})
    /\ sanitized = {}
    /\ outcome = "none" /\ plan = <<>>
    /\ flushed = <<>> /\ audit = <<>>
    /\ candidates = <<>> /\ cand = 0 /\ iterations = 0
    /\ history = <<>> /\ calls = <<>> /\ used = 0
    /\ charged = 0 /\ chunks = 0 /\ answer = "none"
    /\ sent = 0 /\ exposed = {} /\ executed = <<>> /\ spent = 0

CommitRows ==
    /\ audit' = audit \o flushed
    /\ flushed' = <<>>

RollBack == flushed' = <<>> /\ UNCHANGED audit

\* The outcome is decided; what is left is to carry out its plan.
End(o) ==
    /\ outcome' = o
    /\ plan' = Plan(o)
    /\ pc' = "end"

-----------------------------------------------------------------------------
(* prepare_chat_request                                                    *)

\* classify_intent_and_risk.  A redact verdict replaces the text that is
\* inspected next, not the messages.
Classify ==
    /\ pc = "classify"
    /\ \/ End("classifier") /\ UNCHANGED text
       \/ End("approval") /\ UNCHANGED text
       \/ /\ combined
          /\ combined' = FALSE
          /\ sanitized' = sanitized \union {"classifier"}
          /\ pc' = "inspect"
          /\ UNCHANGED <<prompt, outcome, plan>>
       \/ pc' = "inspect" /\ UNCHANGED <<text, outcome, plan>>
    /\ UNCHANGED <<stream, rows, loop, charged, chunks, answer, ghosts>>

\* dlp_scan_content and inspect_for_gateway.  What they redact replaces the
\* messages of the user and no others; a DLP match that is let through adds
\* a "DLP Scan" row.  (For mutation: only the inspected text is redacted.)
RedactCombined(by) ==
    /\ combined
    /\ sanitized' = sanitized \union {by}
    /\ combined' = FALSE
    /\ UNCHANGED prompt

RedactUser(by) ==
    /\ combined
    /\ sanitized' = sanitized \union {by}
    /\ prompt' = prompt \ {"user"}
    /\ combined' = FALSE

Inspect ==
    /\ pc = "inspect"
    /\ \/ End("policy") /\ UNCHANGED <<text, flushed>>
       \/ /\ RedactUser("dlp")
          /\ flushed' = Append(flushed, "scan")
          /\ pc' = "prompt"
          /\ UNCHANGED <<outcome, plan>>
       \/ /\ RedactUser("rule")
          /\ pc' = "prompt"
          /\ UNCHANGED <<outcome, plan, flushed>>
       \/ pc' = "prompt" /\ UNCHANGED <<text, outcome, plan, flushed>>
    /\ UNCHANGED <<stream, audit, loop, charged, chunks, answer, ghosts>>

\* resolve_and_inject_prompt: an ad-hoc system prompt may be refused; a
\* managed template replaces the system messages.
InjectPrompt ==
    /\ pc = "prompt"
    /\ \/ End("prompt") /\ UNCHANGED prompt
       \/ prompt' = prompt \ {"system"} /\ pc' = "abac" /\ UNCHANGED <<outcome, plan>>
       \/ pc' = "abac" /\ UNCHANGED <<prompt, outcome, plan>>
    /\ UNCHANGED <<stream, combined, sanitized, rows, loop, charged, chunks, answer, ghosts>>

\* evaluate_gateway_abac on the model that was routed to, then the failover
\* candidates; a stream uses the routed model alone.
Abac ==
    /\ pc = "abac"
    /\ \/ End("abac") /\ UNCHANGED loop
       \/ /\ \E m \in Models, g \in Groups :
                candidates' \in IF stream THEN {<<m>>} ELSE Failover(m, g)
          /\ cand' = 1
          /\ pc' = IF stream THEN "open" ELSE "call"
          /\ UNCHANGED <<outcome, plan, iterations, history, calls, used>>
    /\ UNCHANGED <<stream, text, rows, charged, chunks, answer, ghosts>>

-----------------------------------------------------------------------------
(* process_chat_completion and _execute_upstream                           *)

Send ==
    /\ sent' = sent + 1
    /\ exposed' = exposed \union prompt

\* An HTTP error, from the first call or from one after a tool round: the
\* next candidate starts over with a tool history of its own, or there is
\* none left.
Fail ==
    /\ pc = "call"
    /\ Send
    /\ \/ /\ cand < Len(candidates)
          /\ cand' = cand + 1
          /\ iterations' = 0
          /\ history' = <<>>
          /\ UNCHANGED <<pc, outcome, plan>>
       \/ /\ cand = Len(candidates)
          /\ End("outage")
          /\ UNCHANGED <<cand, iterations, history>>
    /\ UNCHANGED <<stream, text, rows, candidates, calls, used, charged, chunks, answer,
                   executed, spent>>

\* A provider answers with text, or with tool calls that a further round of
\* the tool loop will handle.
Respond(u) ==
    /\ pc = "call"
    /\ Send
    /\ used' = u
    /\ spent' = spent + u
    /\ \/ /\ iterations < MaxToolIterations
          /\ iterations' = iterations + 1
          /\ \E cs \in CallLists : calls' = cs
          /\ pc' = "tools"
       \/ pc' = "egress" /\ UNCHANGED <<iterations, calls>>
    /\ UNCHANGED <<stream, text, outcome, plan, rows, candidates, cand, history, charged,
                   chunks, answer, executed>>

\* The next call of the message: executed only if the detector allows it,
\* remembered in any case.  After the last one the provider is called again.
\* (For mutation: a call that needs approval waits for it.)
RunToolApproved ==
    /\ pc = "tools"
    /\ Verdict(history, Head(calls)) # "request_approval"
    /\ calls' = Tail(calls)
    /\ history' = Append(history, Head(calls))
    /\ executed' = IF Verdict(history, Head(calls)) = "allow"
                   THEN Append(executed, [call |-> Head(calls), by |-> cand])
                   ELSE executed
    /\ pc' = IF Tail(calls) = <<>> THEN "call" ELSE "tools"
    /\ UNCHANGED <<stream, text, outcome, plan, rows, candidates, cand, iterations, used,
                   charged, chunks, answer, sent, exposed, spent>>

RunTool ==
    /\ pc = "tools"
    /\ calls' = Tail(calls)
    /\ history' = Append(history, Head(calls))
    /\ executed' = IF Verdict(history, Head(calls)) = "allow"
                   THEN Append(executed, [call |-> Head(calls), by |-> cand])
                   ELSE executed
    /\ pc' = IF Tail(calls) = <<>> THEN "call" ELSE "tools"
    /\ UNCHANGED <<stream, text, outcome, plan, rows, candidates, cand, iterations, used,
                   charged, chunks, answer, sent, exposed, spent>>

\* DLP and policy inspection of the answer, after an alert if the answer
\* was slow; an alert that reaches a connector commits the session.
Egress ==
    /\ pc = "egress"
    /\ CommitRows \/ UNCHANGED rows
    /\ \/ End("egress")
       \/ End("answered")
    /\ UNCHANGED <<stream, text, loop, charged, chunks, answer, ghosts>>

-----------------------------------------------------------------------------
(* stream_chat_completion                                                  *)

\* The route returns its StreamingResponse, so get_db commits and closes the
\* session, and the generator starts.
Open ==
    /\ pc = "open"
    /\ Send
    /\ CommitRows
    /\ pc' = "stream"
    /\ answer' = "content"
    /\ UNCHANGED <<stream, text, outcome, plan, loop, charged, chunks, executed, spent>>

\* A chunk is passed on as it comes.
Chunk ==
    /\ pc = "stream"
    /\ chunks < MaxChunks
    /\ chunks' = chunks + 1
    /\ UNCHANGED <<pc, stream, text, outcome, plan, rows, loop, charged, answer, ghosts>>

\* The stream ends, its tokens are estimated and billed, and the text that
\* was sent is inspected; or the provider's connection breaks.
EndStream(u) ==
    /\ pc = "stream"
    /\ used' = u
    /\ spent' = spent + u
    /\ End("streamed") \/ End("streamblocked")
    /\ CommitRows \/ UNCHANGED rows
    /\ UNCHANGED <<stream, text, candidates, cand, iterations, history, calls, charged,
                   chunks, answer, sent, exposed, executed>>

BreakStream ==
    /\ pc = "stream"
    /\ End("broken")
    /\ UNCHANGED <<stream, text, rows, loop, charged, chunks, answer, ghosts>>

-----------------------------------------------------------------------------
(* The statements of the plans                                             *)

At(statement) == pc = "end" /\ plan # <<>> /\ Head(plan) = statement

\* increment_ai_token_usage for the key and for the tenant.
Charge ==
    /\ At("charge")
    /\ charged' = charged + used
    /\ plan' = Tail(plan)
    /\ UNCHANGED <<pc, stream, text, outcome, rows, loop, chunks, answer, ghosts>>

\* _write_audit: add and flush, no commit.
WriteAudit ==
    /\ At("audit")
    /\ flushed' = Append(flushed, outcome)
    /\ plan' = Tail(plan)
    /\ UNCHANGED <<pc, stream, text, outcome, audit, loop, charged, chunks, answer, ghosts>>

Commit ==
    /\ At("commit")
    /\ CommitRows
    /\ plan' = Tail(plan)
    /\ UNCHANGED <<pc, stream, text, outcome, loop, charged, chunks, answer, ghosts>>

\* dispatch_tenant_alerts swallows every error; each connector it reaches
\* commits the session.
Alert ==
    /\ At("alert")
    /\ CommitRows \/ UNCHANGED rows
    /\ plan' = Tail(plan)
    /\ UNCHANGED <<pc, stream, text, outcome, loop, charged, chunks, answer, ghosts>>

\* The handler returns: get_db commits what is left in the session, or rolls
\* it back when the 502 is raised.  After a stream nobody commits any more.
Reply ==
    /\ pc = "end" /\ plan = <<>>
    /\ IF Answer[outcome] = "bad_gateway" \/ outcome \in Streamed THEN RollBack ELSE CommitRows
    /\ answer' = Answer[outcome]
    /\ pc' = "done"
    /\ UNCHANGED <<stream, text, outcome, plan, loop, charged, chunks, ghosts>>

\* An exception nothing catches (a database error, a provider answer that is
\* not what was expected), a client that leaves its stream, the death of the
\* process: the session is rolled back.
Abort ==
    /\ pc # "done"
    /\ pc' = "done"
    /\ RollBack
    /\ answer' = IF answer = "none" THEN "error" ELSE answer
    /\ UNCHANGED <<stream, text, outcome, plan, loop, charged, chunks, ghosts>>

Done == pc = "done" /\ UNCHANGED vars

Prepare == Classify \/ Inspect \/ InjectPrompt \/ Abac
Complete == Fail \/ (\E u \in 0..MaxUsed : Respond(u)) \/ RunTool \/ Egress
StreamOut == Open \/ Chunk \/ (\E u \in 1..MaxUsed : EndStream(u)) \/ BreakStream
Finish == Charge \/ WriteAudit \/ Commit \/ Alert \/ Reply

Handler == Prepare \/ Complete \/ StreamOut \/ Finish

Next == Handler \/ Abort \/ Done

\* The handler goes on: every await in it has a timeout.
Spec == Init /\ [][Next]_vars /\ WF_vars(Handler)

-----------------------------------------------------------------------------
(* Properties                                                              *)

PCs == {"classify", "inspect", "prompt", "abac", "call", "tools", "egress",
        "open", "stream", "end", "done"}
Statements == {"charge", "audit", "commit", "alert"}
Answers == {"none", "error", "content", "bad_gateway", "forbidden"}

TypeOK ==
    /\ pc \in PCs
    /\ stream \in BOOLEAN
    /\ prompt \subseteq Roles /\ combined \in BOOLEAN
    /\ sanitized \subseteq {"classifier", "dlp", "rule"}
    /\ outcome \in Outcomes \union {"none"}
    /\ plan \in Seq(Statements)
    /\ flushed \in Seq(Outcomes \union {"scan"}) /\ audit \in Seq(Outcomes \union {"scan"})
    /\ candidates \in Seq(Models)
    /\ cand \in Nat /\ iterations \in 0..MaxToolIterations
    /\ history \in Seq(Calls) /\ calls \in Seq(Calls)
    /\ used \in 0..MaxUsed /\ charged \in Nat /\ chunks \in 0..MaxChunks
    /\ answer \in Answers
    /\ sent \in Nat /\ exposed \subseteq Roles
    /\ executed \in Seq([call : Calls, by : Nat]) /\ spent \in Nat

\* The audit trail of a request that ended with its outcome: a DLP row if DLP
\* redacted the prompt, then one row for the outcome.
Trail == IF "dlp" \in sanitized THEN <<"scan", outcome>> ELSE <<outcome>>

\* Whatever a request that is not streamed was answered, its audit trail was
\* committed before, complete and without a duplicate, and tells that answer,
\* although exceptions roll back the session and alerts commit it early.
\* (_write_audit, db.commit and dispatch_tenant_alerts in every exit of
\* prepare_chat_request and process_chat_completion)
AnswerAudited ==
    ~stream /\ answer \notin {"none", "error"} =>
        audit = Trail /\ answer = Answer[outcome]

\* "403 Forbidden (Zero LLM Tokens)": what is refused at ingress never
\* reached a provider or a tool, and no refusal is billed, not even the one
\* of an answer the provider was paid for.
RefusedCostsNothing ==
    /\ outcome \in IngressRefusals => sent = 0 /\ executed = <<>>
    /\ outcome \in Refusals \union {"outage"} => charged = 0

\* Token budgets are billed once, only for content, and for no more than the
\* providers reported.  (increment_ai_token_usage at its two callers)
ChargedOnce ==
    /\ charged \in {0, used} /\ charged <= spent
    /\ charged > 0 => outcome \in {"answered", "streamed", "streamblocked"}
    /\ ~stream /\ answer = "content" => charged = used

\* Both sides of the bill: what must not be billed, and what is.
BillingRight == RefusedCostsNothing /\ ChargedOnce

\* Failover and the tool loop together call providers a bounded number of
\* times for one request.
CallsBounded == sent <= Len(candidates) * (MaxToolIterations + 1)

\* With one candidate, nothing leaves the host or is run as code after a
\* sensitive read; and no destructive call is ever executed by the loop.
\* (evaluate_tool_sequence as driven by _execute_upstream)
ChainIn(i, j) ==
    /\ i < j
    /\ "read_sensitive" \in Capabilities[executed[i].call]
    /\ Capabilities[executed[j].call] \intersect {"network_egress", "code_exec"} # {}

ToolsGoverned ==
    /\ \A i, j \in DOMAIN executed : ChainIn(i, j) => executed[i].by # executed[j].by
    /\ \A i \in DOMAIN executed : "infra_mutation" \notin Capabilities[executed[i].call]

\* The tool loop as a whole: what it executes and what it costs.
ToolLoopRight == ToolsGoverned /\ CallsBounded

\* When DLP or a policy rule redacted the prompt, no provider received the
\* user's text as it was.
RedactionSent == sanitized \intersect {"dlp", "rule"} # {} => "user" \notin exposed

\* The handler comes to an end: candidates, tool rounds and alerts run out.
HandlerReturns == <>(pc = "done")

\* A request that is not streamed implements the abstract gateway.
LogOf(rs) == IF rs # <<>> /\ Last(rs) # "scan" THEN Last(rs) ELSE "none"

Audited == INSTANCE AuditedGateway WITH
    log <- IF stream THEN "none" ELSE LogOf(audit),
    reply <- IF stream THEN "none" ELSE answer

AuditedSpec == Audited!Spec

=============================================================================
