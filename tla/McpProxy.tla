------------------------------ MODULE McpProxy -------------------------------
(***************************************************************************)
(* The MCP gateway of the endpoint agent:                                  *)
(* endpoint-agent/pysetu_agent/mcp_gateway.py.                             *)
(*                                                                         *)
(* One loop forwards the messages of an AI tool to MCP servers and the     *)
(* next message of a server back as the answer.  A stdio server is a child *)
(* process behind two pipes; an HTTP server is posted to, and a thread     *)
(* reads its event stream into a queue.  Servers may speak unasked, and    *)
(* die; nothing matches answers to requests.                               *)
(***************************************************************************)
EXTENDS LocalPolicy, Integers, Sequences, FiniteSets

CONSTANTS
    Rules,          \* the policy in force
    Servers,
    Http,           \* the servers reached over HTTP; the others are stdio
    Tools,
    Contents,       \* what arguments and results may hold: sets of labels
    MaxMessages,    \* bound on the messages of the client
    MaxNotes,       \* bound on what a server says unasked
    MaxFaults       \* bound on deaths and lost messages

ASSUME RulesAssumption == Rules \subseteq PolicyRule
ASSUME ServersAssumption == Http \subseteq Servers /\ IsFiniteSet(Servers)
ASSUME ResourcesAssumption == Servers \X Tools \subseteq Resources
ASSUME ContentsAssumption == Contents \subseteq SUBSET Labels
ASSUME ProxyBounds == MaxMessages \in Nat /\ MaxNotes \in Nat /\ MaxFaults \in Nat

VARIABLES
    pc,             \* of the gateway's loop: "idle", "write", "read" or "stopped"
    req,            \* the client's message in progress
    asked,          \* messages read from the client, which numbers them
    inbox,          \* inbox[s]: what server s has not handled yet
    queue,          \* queue[s]: the pipe or queue read() takes from
    up,             \* up[s]: the process or the event stream lives
    client,         \* what became of the messages that awaited an answer, in order
    notes,          \* notes[s]: messages s has sent unasked
    replied,        \* replied[s]: how many of them the client has answered
    faults          \* failures so far

vars == <<pc, req, asked, inbox, queue, up, client, notes, replied, faults>>
upstream == <<inbox, queue, up, notes, faults>>

NoRequest == [kind |-> "none"]

\* What read() may return: the result of a tool, another answer, something
\* unasked, or None.
Result(m, labels) == [kind |-> "result", id |-> m.id, tool |-> m.tool, labels |-> labels]
Other(m) == [kind |-> "other", id |-> m.id, labels |-> {}]
Note == [kind |-> "note", id |-> 0, labels |-> {}]
None == [kind |-> "none", id |-> 0, labels |-> {}]

Init ==
    /\ pc = "idle" /\ req = NoRequest /\ asked = 0
    /\ inbox = [s \in Servers |-> <<>>]
    /\ queue = [s \in Servers |-> <<>>]
    /\ up = [s \in Servers |-> TRUE]
    /\ client = <<>>
    /\ notes = [s \in Servers |-> 0]
    /\ replied = [s \in Servers |-> 0]
    /\ faults = 0

\* The message in progress has m from its server for an answer, of which the
\* client sees the labels shown.
Close(m, shown) ==
    /\ client' = Append(client, [for |-> req.id, kind |-> req.kind, to |-> req.to,
                                 got |-> m, shown |-> shown])
    /\ pc' = "idle"
    /\ req' = NoRequest

-----------------------------------------------------------------------------
(* decide_tool_call, decide_tool_response                                  *)

\* "approval" and "log" let the text pass, like "allow".
Screen(resource, labels) ==
    LET action == Evaluate(Rules, resource, labels)
    IN  IF labels = {} \/ action \notin {"redact", "block"} THEN "allow" ELSE action

\* read_message from the client, a tools/call, and the decision on it.  A
\* redaction that leaves no JSON is a block.  (For mutation: the message is
\* written as it came.)
CallUnredacted(s, t, labels) ==
    /\ pc = "idle" /\ asked < MaxMessages
    /\ asked' = asked + 1
    /\ LET m == [kind |-> "call", id |-> asked + 1, to |-> s, tool |-> t, labels |-> labels]
           verdict == Screen(<<s, t>>, labels)
       IN  \/ verdict = "block" /\ UNCHANGED <<pc, req>>
           \/ verdict # "block" /\ req' = m /\ pc' = "write"
    /\ UNCHANGED <<client, replied, upstream>>

Call(s, t, labels) ==
    /\ pc = "idle" /\ asked < MaxMessages
    /\ asked' = asked + 1
    /\ LET m == [kind |-> "call", id |-> asked + 1, to |-> s, tool |-> t, labels |-> labels]
           verdict == Screen(<<s, t>>, labels)
       IN  \/ verdict \in {"block", "redact"} /\ UNCHANGED <<pc, req>>
           \/ verdict = "redact" /\ req' = [m EXCEPT !.labels = {}] /\ pc' = "write"
           \/ verdict = "allow" /\ req' = m /\ pc' = "write"
    /\ UNCHANGED <<client, replied, upstream>>

\* Any other request or notification is forwarded as it is.
Forward(s, kind) ==
    /\ pc = "idle" /\ asked < MaxMessages
    /\ asked' = asked + 1
    /\ req' = [kind |-> kind, id |-> asked + 1, to |-> s]
    /\ pc' = "write"
    /\ UNCHANGED <<client, replied, upstream>>

\* The client answers what a server asked it: a message with an id.
Reply(s) ==
    /\ replied[s] < Cardinality({i \in DOMAIN client : client[i].to = s /\ client[i].got = Note})
    /\ pc = "idle" /\ asked < MaxMessages
    /\ asked' = asked + 1
    /\ replied' = [replied EXCEPT ![s] = @ + 1]
    /\ req' = [kind |-> "reply", id |-> asked + 1, to |-> s]
    /\ pc' = "write"
    /\ UNCHANGED <<client, upstream>>

\* run_multiplex_gateway answers for a server it does not know.
Unknown ==
    /\ pc = "idle" /\ asked < MaxMessages
    /\ asked' = asked + 1
    /\ UNCHANGED <<pc, req, client, replied, upstream>>

-----------------------------------------------------------------------------
(* upstream.write                                                          *)

\* What has an id awaits an answer.  (For mutation: everything does; only a
\* tools/call does.)
WrittenAll == pc' = "read" /\ UNCHANGED req
WrittenCalls ==
    IF req.kind # "call" THEN pc' = "idle" /\ req' = NoRequest ELSE pc' = "read" /\ UNCHANGED req

Written ==
    IF req.kind = "note" THEN pc' = "idle" /\ req' = NoRequest ELSE pc' = "read" /\ UNCHANGED req
Deliver == inbox' = [inbox EXCEPT ![req.to] = Append(@, req)]
Enqueue(s, m) == queue' = [queue EXCEPT ![s] = Append(@, m)]
Fault == faults < MaxFaults /\ faults' = faults + 1

Write ==
    /\ pc = "write"
    /\ up[req.to] \/ req.to \in Http
    /\ Deliver
    /\ Written
    /\ UNCHANGED <<asked, queue, up, client, replied, notes, faults>>

\* The pipe of a dead process is broken, and so is the loop.
WriteBroken ==
    /\ pc = "write"
    /\ ~up[req.to] /\ req.to \notin Http
    /\ pc' = "stopped"
    /\ UNCHANGED <<req, asked, client, replied, upstream>>

\* The POST is answered with an HTTP error whose body is the JSON-RPC answer.
PostRefused ==
    /\ pc = "write" /\ req.to \in Http /\ req.kind \in {"call", "request"}
    /\ Enqueue(req.to, Other(req))
    /\ Written
    /\ UNCHANGED <<asked, inbox, up, client, replied, notes, faults>>

\* The POST fails: with an HTTP error that has no such body, and nothing is
\* queued; or otherwise, and None is, although the server may have the message.
PostFailed ==
    /\ pc = "write" /\ req.to \in Http
    /\ Fault
    /\ \/ UNCHANGED <<inbox, queue>>
       \/ Enqueue(req.to, None) /\ (Deliver \/ UNCHANGED inbox)
    /\ Written
    /\ UNCHANGED <<asked, up, client, replied, notes>>

-----------------------------------------------------------------------------
(* upstream.read and what is done with its result                          *)

\* The next message of the server is the answer, whatever it is.  A result is
\* scanned when the request in progress is a tools/call, under that tool's name.
ReadResponse ==
    /\ pc = "read" /\ queue[req.to] # <<>>
    /\ LET m == Head(queue[req.to])
           verdict == IF req.kind = "call" /\ m.kind = "result"
                      THEN Screen(<<req.to, req.tool>>, m.labels) ELSE "allow"
       IN  Close(m, IF verdict = "allow" THEN m.labels ELSE {})
    /\ queue' = [queue EXCEPT ![req.to] = Tail(@)]
    /\ UNCHANGED <<asked, inbox, up, notes, replied, faults>>

\* End of file on the pipe of a dead process.
ReadEnd ==
    /\ pc = "read" /\ queue[req.to] = <<>>
    /\ ~up[req.to] /\ req.to \notin Http
    /\ Close(None, {})
    /\ UNCHANGED <<asked, replied, upstream>>

\* The client closes its end, or either side sends what is not JSON.
Stop ==
    /\ pc \in {"idle", "read"}
    /\ pc = "read" => Fault
    /\ pc = "idle" => UNCHANGED faults
    /\ pc' = "stopped"
    /\ UNCHANGED <<req, asked, client, replied, inbox, queue, up, notes>>

-----------------------------------------------------------------------------
(* The servers, and the thread that reads an event stream                  *)

\* A server handles its messages in order and answers the requests.
Serve(s) ==
    /\ inbox[s] # <<>>
    /\ inbox' = [inbox EXCEPT ![s] = Tail(@)]
    /\ LET m == Head(inbox[s])
       IN  \/ /\ up[s] /\ m.kind = "call"
              /\ \E labels \in Contents : Enqueue(s, Result(m, labels))
           \/ up[s] /\ m.kind = "request" /\ Enqueue(s, Other(m))
           \/ (~up[s] \/ m.kind \in {"note", "reply"}) /\ UNCHANGED queue
    /\ UNCHANGED <<pc, req, asked, up, client, replied, notes, faults>>

\* A notification or a request of the server's own.
Speak(s) ==
    /\ up[s] /\ notes[s] < MaxNotes
    /\ notes' = [notes EXCEPT ![s] = @ + 1]
    /\ Enqueue(s, Note)
    /\ UNCHANGED <<pc, req, asked, inbox, up, client, replied, faults>>

\* A process exits with its pipe.  An event stream ends quietly, or with an
\* exception (30 seconds of silence are one), and None is queued.
Break(s) ==
    /\ up[s]
    /\ Fault
    /\ up' = [up EXCEPT ![s] = FALSE]
    /\ UNCHANGED queue \/ (s \in Http /\ Enqueue(s, None))
    /\ UNCHANGED <<pc, req, asked, inbox, client, replied, notes>>

Gateway == Write \/ WriteBroken \/ PostRefused \/ ReadResponse \/ ReadEnd

Next ==
    \/ \E s \in Servers :
        \/ \E t \in Tools, labels \in Contents : Call(s, t, labels)
        \/ \E kind \in {"request", "note"} : Forward(s, kind)
        \/ Reply(s) \/ Serve(s) \/ Speak(s) \/ Break(s)
    \/ Unknown
    \/ Gateway
    \/ PostFailed
    \/ Stop

\* The loop goes on when it can, and a server handles what it was sent.
Fairness == WF_vars(Gateway) /\ \A s \in Servers : WF_vars(Serve(s))

Spec == Init /\ [][Next]_vars /\ Fairness

-----------------------------------------------------------------------------
(* Properties                                                              *)

Kinds == {"call", "request", "note", "reply"}
WellFormed(m) ==
    /\ m.kind \in Kinds /\ m.id \in 1..MaxMessages /\ m.to \in Servers
    /\ m.kind = "call" => m.tool \in Tools /\ m.labels \in Contents \union {{}}

\* What server s still has to answer and has said, less what awaits
\* an answer.
Owed(s) ==
    IF up[s] THEN Cardinality({i \in DOMAIN inbox[s] : inbox[s][i].kind \in {"call", "request"}})
    ELSE 0
Awaited(s) ==
    IF (pc = "read" \/ (pc = "write" /\ req.kind = "reply")) /\ req.to = s THEN 1 ELSE 0
Backlog(s) == Owed(s) + Len(queue[s]) - Awaited(s)

TypeOK ==
    /\ pc \in {"idle", "write", "read", "stopped"}
    /\ pc \in {"write", "read"} => WellFormed(req)
    /\ asked \in 0..MaxMessages /\ faults \in 0..MaxFaults
    /\ \A s \in Servers :
        /\ notes[s] \in 0..MaxNotes /\ replied[s] \in 0..notes[s]
        /\ \A i \in DOMAIN inbox[s] : WellFormed(inbox[s][i]) /\ inbox[s][i].to = s
        /\ \A i \in DOMAIN queue[s] : queue[s][i].kind \in {"result", "other", "note", "none"}
    /\ \A i \in DOMAIN client : client[i].kind \in Kinds \ {"note"}

\* Each message that awaits an answer takes exactly one message from its
\* server.  So what a server says unasked is never caught up with: it stays as
\* a backlog until the client answers it; a failure shifts it by one more.
\* (upstream.write and upstream.read in handle_message and handle_tool_call)
BacklogKept ==
    \A s \in Servers :
        /\ Backlog(s) <= notes[s] - replied[s] + faults
        /\ faults = 0 => Backlog(s) = notes[s] - replied[s]

\* When an answer reaches the client, of the requests to its server made after
\* the one it belongs to no more are still unanswered than the server has
\* spoken unasked and failures have happened.
Waiting(i) ==
    {j \in 1..i : /\ client[j].to = client[i].to /\ client[j].kind # "reply"
                  /\ client[j].for > client[i].got.id
                  /\ \A k \in 1..i : client[k].got.id # client[j].for}
AnswersLate ==
    \A i \in DOMAIN client :
        client[i].got.id > 0 =>
            Cardinality(Waiting(i)) <= notes[client[i].to] + faults

\* What a tool returned is shown only as the policy for that tool allows.
ScannedAt(i) ==
    client[i].got.kind = "result" =>
        \/ Screen(<<client[i].to, client[i].got.tool>>, client[i].got.labels) = "allow"
        \/ client[i].shown = {}

\* As long as servers only answer and nothing fails, every result is scanned
\* as the policy for its tool demands, and so was every call a server receives.
\* (decide_tool_call and decide_tool_response in handle_tool_call)
TrafficScreened ==
    /\ \A s \in Servers : \A i \in DOMAIN inbox[s] :
        inbox[s][i].kind = "call" => Screen(<<s, inbox[s][i].tool>>, inbox[s][i].labels) = "allow"
    /\ faults = 0 /\ (\A s \in Servers : notes[s] = 0) => \A i \in DOMAIN client : ScannedAt(i)

\* A message that awaits an answer gets one, unless something failed: the
\* loop, which serves all servers, does not hang.  (run_multiplex_gateway)
LoopGoesOn == pc = "read" ~> pc # "read" \/ faults > 0

\* Type correctness, the backlog and the lateness of answers together.
ProxyInv == TypeOK /\ BacklogKept /\ AnswersLate
=============================================================================
