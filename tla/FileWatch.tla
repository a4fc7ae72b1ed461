------------------------------ MODULE FileWatch ------------------------------
(***************************************************************************)
(* The endpoint agent in watch mode with enforcement: run_watch and        *)
(* load_policy in endpoint-agent/pysetu_agent/daemon.py, the cache of      *)
(* policy.py, watch_directory and scan_changes in watcher.py, scan_file in *)
(* scan.py, enforce_file in enforce.py.                                    *)
(*                                                                         *)
(* The agent loads its policy from the control plane or its cache,         *)
(* registers, and then polls: it takes a snapshot of modification times    *)
(* and sizes, reads, copies and replaces the files that changed, and sends *)
(* what it found.  Users go on writing and deleting files, administrators  *)
(* change the policy, the control plane may refuse a request or not be     *)
(* there, and the agent may die.                                           *)
(***************************************************************************)
EXTENDS LocalPolicy, FiniteSets, Sequences, SequencesExt

CONSTANTS
    Files,
    MaxSuffixes,    \* how many times .pysetu.bak fits into a file name
    Writable,       \* what a user may write: sets of labels
    Defaults,       \* LocalPolicy.defaults
    Policies,       \* the policies of the control plane, in the order it has them
    MaxEdits,       \* bound on what users write and delete
    MaxStarts       \* bound on the restarts of the agent

ASSUME FilesAssumption == MaxSuffixes \in Nat \ {0} /\ Files \X (0..MaxSuffixes) \subseteq Resources
ASSUME WatchContents == Writable \subseteq SUBSET Labels
ASSUME WatchPolicies ==
    /\ Defaults \subseteq PolicyRule
    /\ Policies \in Seq(SUBSET PolicyRule) /\ Policies # <<>>
ASSUME WatchBounds == MaxEdits \in Nat /\ MaxStarts \in Nat

VARIABLES
    file,           \* file[p]: text, labels and signature of the file at path p
    clock,          \* signatures given so far
    published,      \* the policy the control plane has now
    cache,          \* the policy in the cache file; 0: it cannot be read
    policy,         \* the policy the agent evaluates; 0: the defaults
    phase,          \* of the agent: "load", "save", "register", "sleep", "scan", "enforce",
                    \* "move", "copy", "replace", "report" or "dead"
    snap,           \* the signatures of the last snapshot
    work,           \* the changed paths still to be scanned
    cur,            \* the path in hand: its event, and the text enforce_file has read
    events,         \* of the batch, not sent yet
    quarantine,     \* the texts in the quarantine directory
    edits,          \* what users have done so far
    starts,         \* restarts of the agent so far
    seen,           \* history: the signature of p that was last scanned, or taken as the baseline
    original,       \* history: the text the last redaction of p replaced
    raced,          \* history: paths a user changed while they were being redacted
    received,       \* history: the last policy the agent was given
    cut,            \* history: the agent died while it wrote the cache
    told            \* history, since the start: what was enforced, reported and refused, and
                    \* the paths a user changed between their scan and their enforcement

rules == <<published, cache, policy, received, cut>>
agent == <<phase, snap, work, cur, events>>
history == <<seen, original, raced, told>>
watchVars == <<file, clock, rules, agent, quarantine, edits, starts, history>>

\* The file f with n times .pysetu.bak to its name.
Paths == Files \X (0..MaxSuffixes)
Backup(p) == <<p[1], p[2] + 1>>

Absent == [text |-> 0, labels |-> {}, sig |-> 0]
Here(p) == file[p] # Absent
Signatures == [p \in Paths |-> file[p].sig]
Nothing == [path |-> <<>>, text |-> 0]
Untold == [enforced |-> {}, reported |-> {}, refused |-> {}, shifted |-> {}]

\* st_mtime_ns and st_size tell any two writes apart.
Put(p, text, labels) ==
    /\ clock' = clock + 1
    /\ file' = [file EXCEPT ![p] = [text |-> text, labels |-> labels, sig |-> clock + 1]]

NoSnapshot == [p \in Paths |-> 0]

WatchInit ==
    /\ file = [p \in Paths |-> Absent]
    /\ clock = 0
    /\ published = 1 /\ cache = 0 /\ policy = 0
    /\ phase = "load" /\ snap = NoSnapshot /\ work = {} /\ cur = Nothing /\ events = <<>>
    /\ quarantine = {}
    /\ edits = 0 /\ starts = 0
    /\ seen = NoSnapshot /\ original = [p \in Paths |-> 0] /\ raced = {}
    /\ received = 0 /\ cut = FALSE
    /\ told = Untold

\* The process ends, and what it held with it.
Die ==
    /\ phase' = "dead"
    /\ policy' = 0
    /\ snap' = NoSnapshot /\ seen' = NoSnapshot
    /\ work' = {} /\ cur' = Nothing /\ events' = <<>>

-----------------------------------------------------------------------------
(* load_policy and the start of run_watch                                  *)

\* get_policy, and the opening of the cache file, which empties it.
Download ==
    /\ phase = "load"
    /\ policy' = published /\ received' = published
    /\ cache' = 0
    /\ phase' = "save"
    /\ UNCHANGED <<file, clock, published, cut, snap, work, cur, events, quarantine, edits, starts,
                   history>>

Save ==
    /\ phase = "save"
    /\ cache' = policy /\ cut' = FALSE
    /\ phase' = "register"
    /\ UNCHANGED <<file, clock, published, policy, received, snap, work, cur, events, quarantine,
                   edits, starts, history>>

\* ControlPlaneError: the cached policy, or the defaults.  (For mutation: the
\* defaults.)
FallBackToDefaults ==
    /\ phase = "load"
    /\ policy' = 0
    /\ phase' = "register"
    /\ UNCHANGED <<file, clock, published, cache, received, cut, snap, work, cur, events,
                   quarantine, edits, starts, history>>

FallBack ==
    /\ phase = "load"
    /\ policy' = cache
    /\ phase' = "register"
    /\ UNCHANGED <<file, clock, published, cache, received, cut, snap, work, cur, events,
                   quarantine, edits, starts, history>>

\* The control plane takes the registration, the discovery event and the
\* heartbeat; what is there now is the baseline.
Begin ==
    /\ phase = "register"
    /\ snap' = Signatures /\ seen' = Signatures
    /\ phase' = "sleep"
    /\ UNCHANGED <<file, clock, rules, work, cur, events, quarantine, edits, starts, original,
                   raced, told>>

-----------------------------------------------------------------------------
(* watch_directory, scan_changes and on_events                             *)

\* The next snapshot is taken before the changes are scanned.  (For mutation:
\* only new files count as changed.)
Created == {p \in Paths : Here(p) /\ snap[p] = 0}
Changed == {p \in Paths : Here(p) /\ snap[p] # file[p].sig}

Poll ==
    /\ phase = "sleep" /\ Changed # {}
    /\ snap' = Signatures
    /\ work' = Changed
    /\ phase' = "scan"
    /\ UNCHANGED <<file, clock, rules, cur, events, quarantine, edits, starts, history>>

\* Nothing is left to do for p; with the last path the batch is over.
Done(p, found) ==
    /\ work' = work \ {p}
    /\ events' = events \o found
    /\ phase' = IF work # {p} THEN "scan" ELSE IF events' = <<>> THEN "sleep" ELSE "report"
    /\ cur' = Nothing

Action(p) == Evaluate(IF policy = 0 THEN Defaults ELSE Policies[policy], p, file[p].labels)

\* scan_file: the file may be gone, or clean.
Scan(p) ==
    /\ phase = "scan" /\ p \in work
    /\ seen' = [seen EXCEPT ![p] = file[p].sig]
    /\ \/ /\ file[p].labels = {}
          /\ Done(p, <<>>)
       \/ /\ file[p].labels # {}
          /\ phase' = "enforce"
          /\ cur' = [path |-> p, text |-> 0,
                     event |-> [path |-> p, text |-> file[p].text, decision |-> Action(p)]]
          /\ UNCHANGED <<work, events>>
    /\ UNCHANGED <<file, clock, rules, snap, quarantine, edits, starts, original, raced, told>>

\* on_events: the control plane takes an event, or the agent goes on without
\* it.  (For mutation: without the rest of the batch.)
Refused(e) == told' = [told EXCEPT !.refused = @ \union {e}]

ReportOrStop ==
    /\ phase = "report"
    /\ \/ /\ told' = [told EXCEPT !.reported = @ \union {Head(events)}]
          /\ events' = Tail(events)
       \/ /\ Refused(Head(events))
          /\ events' = <<>>
    /\ phase' = IF events' = <<>> THEN "sleep" ELSE "report"
    /\ UNCHANGED <<file, clock, rules, snap, work, cur, quarantine, edits, starts, seen, original,
                   raced>>

Report ==
    /\ phase = "report"
    /\ \/ told' = [told EXCEPT !.reported = @ \union {Head(events)}]
       \/ Refused(Head(events))
    /\ events' = Tail(events)
    /\ phase' = IF events' = <<>> THEN "sleep" ELSE "report"
    /\ UNCHANGED <<file, clock, rules, snap, work, cur, quarantine, edits, starts, seen, original,
                   raced>>

\* The control plane takes an event, but its answer does not arrive in time:
\* TimeoutError is no ControlPlaneError, and ends the agent.
LoseAnswer ==
    /\ phase = "report"
    /\ told' = [told EXCEPT !.reported = @ \union {Head(events)}]
    /\ Die
    /\ UNCHANGED <<file, clock, published, cache, received, cut, quarantine, edits, starts,
                   original, raced>>

-----------------------------------------------------------------------------
(* enforce_file                                                            *)

Verdict(p) == IF file[p].labels = {} THEN "allow" ELSE Action(p)

\* It reads the file again and decides for itself.
Decide ==
    /\ phase = "enforce"
    /\ \/ /\ Verdict(cur.path) \in {"redact", "block"}
          /\ cur' = [cur EXCEPT !.text = file[cur.path].text]
          /\ phase' = IF Verdict(cur.path) = "block" THEN "move" ELSE "copy"
          /\ UNCHANGED <<work, events>>
       \/ /\ Verdict(cur.path) \notin {"redact", "block"}
          /\ Done(cur.path, <<cur.event>>)
    /\ UNCHANGED <<file, clock, rules, snap, quarantine, edits, starts, history>>

Enforced(action) ==
    /\ told' = [told EXCEPT !.enforced =
                    @ \union {[path |-> cur.path, text |-> cur.text, decision |-> action]}]
    /\ Done(cur.path, <<cur.event>>)

\* quarantine_file moves whatever is there; the names of the directory do not
\* collide.
Quarantine ==
    /\ phase = "move" /\ Here(cur.path)
    /\ quarantine' = quarantine \union {file[cur.path].text}
    /\ file' = [file EXCEPT ![cur.path] = Absent]
    /\ Enforced("block")
    /\ UNCHANGED <<clock, rules, snap, edits, starts, seen, original, raced>>

\* shutil.copy2 copies the modification time too.  (For mutation: it keeps a
\* backup that is there.)
CopyOnce ==
    LET p == cur.path
    IN  /\ phase = "copy"
        /\ Here(p) /\ p[2] < MaxSuffixes
        /\ file' = IF Here(Backup(p)) THEN file ELSE [file EXCEPT ![Backup(p)] = file[p]]
        /\ phase' = "replace"
        /\ UNCHANGED <<clock, rules, snap, work, cur, events, quarantine, edits, starts, history>>

Copy ==
    LET p == cur.path
    IN  /\ phase = "copy"
        /\ Here(p) /\ p[2] < MaxSuffixes
        /\ file' = [file EXCEPT ![Backup(p)] = file[p]]
        /\ phase' = "replace"
        /\ UNCHANGED <<clock, rules, snap, work, cur, events, quarantine, edits, starts, history>>

\* The file is gone, or the name of its backup is too long: the OSError ends
\* the agent.
Fail ==
    /\ \/ phase \in {"copy", "move"} /\ ~Here(cur.path)
       \/ phase = "copy" /\ cur.path[2] = MaxSuffixes
    /\ Die
    /\ UNCHANGED <<file, clock, published, cache, received, cut, quarantine, edits, starts,
                   original, raced, told>>

\* _atomic_write of the text that was read, redacted, over what is there now.
Replace ==
    /\ phase = "replace"
    /\ Put(cur.path, cur.text, {})
    /\ original' = [original EXCEPT ![cur.path] = cur.text]
    /\ Enforced("redact")
    /\ UNCHANGED <<rules, snap, quarantine, edits, starts, seen, raced>>

-----------------------------------------------------------------------------
(* The users, the administrators, and death and restart of the agent       *)

Interfere(p) ==
    /\ raced' = IF phase \in {"copy", "replace"} /\ cur.path = p THEN raced \union {p} ELSE raced
    /\ told' = IF phase = "enforce" /\ cur.path = p
               THEN [told EXCEPT !.shifted = @ \union {p}] ELSE told

\* Users write and delete files, not backups.
Edit(f, labels) ==
    /\ edits < MaxEdits
    /\ edits' = edits + 1
    /\ Put(<<f, 0>>, clock + 1, labels)
    /\ Interfere(<<f, 0>>)
    /\ UNCHANGED <<rules, agent, quarantine, starts, seen, original>>

Delete(f) ==
    /\ edits < MaxEdits /\ Here(<<f, 0>>)
    /\ edits' = edits + 1
    /\ file' = [file EXCEPT ![<<f, 0>>] = Absent]
    /\ Interfere(<<f, 0>>)
    /\ UNCHANGED <<clock, rules, agent, quarantine, starts, seen, original>>

Publish ==
    /\ published < Len(Policies)
    /\ published' = published + 1
    /\ UNCHANGED <<file, clock, cache, policy, received, cut, agent, quarantine, edits, starts,
                   history>>

\* The agent is killed, an OSError ends it, or in "register" the control
\* plane does not take a request.
Crash ==
    /\ phase # "dead"
    /\ Die
    /\ cut' = (cut \/ phase = "save")
    /\ UNCHANGED <<file, clock, published, cache, received, quarantine, edits, starts, original,
                   raced, told>>

Restart ==
    /\ phase = "dead" /\ starts < MaxStarts
    /\ starts' = starts + 1
    /\ phase' = "load"
    /\ told' = Untold
    /\ UNCHANGED <<file, clock, rules, snap, work, cur, events, quarantine, edits, seen, original,
                   raced>>

Watch ==
    \/ Download \/ Save \/ FallBack \/ Begin
    \/ Poll
    \/ \E p \in Paths : Scan(p)
    \/ Decide \/ Quarantine \/ Copy \/ Fail \/ Replace
    \/ Report \/ LoseAnswer

WatchNext ==
    \/ Watch
    \/ \E f \in Files : Delete(f) \/ \E labels \in Writable : Edit(f, labels)
    \/ Publish
    \/ Crash \/ Restart

\* The loop of the agent goes on, and its requests time out; nobody need
\* restart it.
WatchSpec == WatchInit /\ [][WatchNext]_watchVars /\ WF_watchVars(Watch)

-----------------------------------------------------------------------------
(* Properties                                                              *)

Texts == [text : 0..clock, labels : Writable \union {{}}, sig : 0..clock]
Events == [path : Paths, text : 1..clock, decision : Actions]

Starting == phase \in {"load", "save", "register"}
Watching == ~Starting /\ phase # "dead"

WatchTypeOK ==
    /\ file \in [Paths -> Texts]
    /\ published \in DOMAIN Policies
    /\ {cache, policy, received} \subseteq 0..published /\ cut \in BOOLEAN
    /\ \/ Starting
       \/ phase \in {"sleep", "scan", "enforce", "move", "copy", "replace", "report", "dead"}
    /\ snap \in [Paths -> 0..clock] /\ seen \in [Paths -> 0..clock]
    /\ original \in [Paths -> 0..clock]
    /\ work \subseteq Paths /\ raced \subseteq Paths /\ quarantine \subseteq 1..clock
    /\ phase = "sleep" => work = {} /\ events = <<>>
    /\ phase \in {"enforce", "move", "copy", "replace"} =>
        cur.path \in work /\ cur.text \in 0..clock /\ cur.event \in Events
    /\ events \in Seq(Events) /\ (phase = "report" => events # <<>>)
    /\ told.enforced \union told.reported \union told.refused \subseteq Events
    /\ told.shifted \subseteq Paths
    /\ edits \in 0..MaxEdits /\ starts \in 0..MaxStarts

\* No change escapes the watcher, however users interleave with it: what it
\* will not find changed at the next poll, and does not have in hand, it has
\* scanned.  (snapshot before scan_changes in watch_directory)
ChangesSeen ==
    Watching =>
        \A p \in Paths \ work : Here(p) /\ snap[p] = file[p].sig => seen[p] = file[p].sig

\* The text t can still be read: in a file, or in the quarantine directory.
Kept(t) == t \in quarantine \/ \E p \in Paths : file[p].text = t /\ file[p].labels # {}

\* A file holds a text that was redacted, and no user interfered.
Redacted(p) ==
    /\ Here(p) /\ file[p].labels = {} /\ file[p].text = original[p]
    /\ p \notin raced

\* A file is never replaced by its redacted text without the original being
\* kept, whatever later happens to its backup, and wherever the agent dies.
\* (shutil.copy2 before _atomic_write, quarantine_file)
OriginalKept == \A p \in Paths : Redacted(p) => Kept(file[p].text)

\* An agent that was once given a policy enforces the last one it was given,
\* through restarts and while the control plane is away; only a death in the
\* middle of writing the cache sends it back to the defaults.  (load_policy,
\* PolicyCache)
PolicyRemembered ==
    /\ Watching => policy = received \/ (policy = 0 /\ cut)
    /\ phase = "load" => cache = received \/ cut

\* What the agent of this start did to files is what the control plane was
\* told, or will be, or refused to hear, and it is told of nothing that was
\* not done, even if the agent dies in between; unless a user changed the
\* file between the scan and the enforcement.  (scan_changes, on_events)
EventsTruthful ==
    /\ Watching =>
        \A e \in told.enforced :
            e \in told.reported \union told.refused \union Range(events) \/ e.path \in told.shifted
    /\ \A e \in told.reported :
        e.decision \in {"redact", "block"} => e \in told.enforced \/ e.path \in told.shifted

\* A change to a user's file that must not stay as it is does not stay, while
\* the agent watches: the file is redacted or moved, or its user changes it again.
\* (watch_directory, enforce_file)
Forbidden(p) == Here(p) /\ Verdict(p) \in {"redact", "block"}
Unscanned(p) == Watching /\ Forbidden(p) /\ seen[p] # file[p].sig
ForbiddenHandled ==
    \A f \in Files : LET p == <<f, 0>> IN Unscanned(p) ~> ~Forbidden(p) \/ phase = "dead"

\* Type correctness, the search for changes, the preservation of originals,
\* the policy across restarts and the truth of the events together.
WatchInv == WatchTypeOK /\ ChangesSeen /\ OriginalKept /\ PolicyRemembered /\ EventsTruthful

=============================================================================
