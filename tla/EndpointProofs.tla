---------------------------- MODULE EndpointProofs ----------------------------
(***************************************************************************)
(* Theorems about the endpoint agent: first FileWatch, the watcher of the  *)
(* files that AI tools read, for any files, contents, rules and bounds;    *)
(* then McpProxy, the gateway to the MCP servers, for any servers, tools,  *)
(* contents, rules and bounds.                                             *)
(***************************************************************************)
EXTENDS FileWatch, McpProxy, SequenceTheorems, FiniteSetTheorems, TLAPS

-----------------------------------------------------------------------------
(* FileWatch: the invariants.                                               *)

InHand == phase \in {"enforce", "move", "copy", "replace"}

\* The copies of the file that were made of p, of its backup, and so on.
Above(p) == {q \in Paths : q[1] = p[1] /\ q[2] > p[2]}

\* What the agent holds while it is not at work, and what a file there is.
Settled ==
    /\ \A p \in Paths : Here(p) => file[p].text # 0 /\ file[p].sig # 0
    /\ phase \notin {"scan", "enforce", "move", "copy", "replace"} => work = {}
    /\ Starting \/ phase = "dead" => events = <<>>
    /\ InHand => cur = [path |-> cur.path, text |-> cur.text, event |-> cur.event]
    /\ phase \in {"move", "copy", "replace"} => cur.text # 0
    /\ told = [enforced |-> told.enforced, reported |-> told.reported,
               refused |-> told.refused, shifted |-> told.shifted]
    /\ raced \subseteq {p \in Paths : p[2] = 0}

WatchTyped == WatchTypeOK /\ Settled

\* No copy has the signature of a path that changed, now or in the snapshot.
Fresh(p) == \A q \in Above(p) : snap[q] # file[p].sig /\ file[q].sig # file[p].sig

SeenInv ==
    /\ ChangesSeen
    /\ InHand =>
        LET p == cur.path
        IN  Here(p) /\ snap[p] = file[p].sig => seen[p] = file[p].sig
    /\ Watching =>
        \A p \in Paths : Here(p) /\ (snap[p] # file[p].sig \/ p \in work) =>
            Fresh(p) \/ (phase = "replace" /\ cur.path = p)

\* The original of p is in a later copy, or in quarantine.
KeptAbove(p) ==
    \/ file[p].text \in quarantine
    \/ \E q \in Above(p) : file[q].text = file[p].text /\ file[q].labels # {}

\* Copies are older than what they are copies of, unless a user's clean text
\* was replaced.
Layered ==
    \A p \in Paths : \A q \in Above(p) : Here(p) /\ Here(q) =>
        file[p].text >= file[q].text \/ (p \in raced /\ file[p].labels = {})

KeptInv ==
    /\ \A p \in Paths : Redacted(p) => KeptAbove(p)
    /\ Layered
    /\ phase \in {"copy", "replace"} /\ cur.path \notin raced =>
        file[cur.path].text = cur.text /\ file[cur.path].labels # {}
    /\ phase = "copy" /\ Here(cur.path) =>
        \A q \in Above(cur.path) :
            /\ Here(q) => file[cur.path].text >= file[q].text
            /\ file[cur.path].labels = {} => file[cur.path].text > original[q]
    /\ phase = "replace" => cur.path[2] < MaxSuffixes
    /\ phase = "replace" /\ cur.path \notin raced =>
        file[Backup(cur.path)].text = cur.text /\ file[Backup(cur.path)].labels # {}

\* What the cache and the agent have of the last policy it was given.
PolicyInv ==
    /\ phase = "save" => policy = received /\ cache = 0
    /\ phase # "save" => cache = received \/ (cut /\ cache = 0)
    /\ Watching \/ phase = "register" => policy = received \/ (policy = 0 /\ cut)

\* The event of the path in hand says what is done to it.
EventsInv ==
    /\ EventsTruthful
    /\ Starting => told = Untold
    /\ \A e \in Range(events) :
        e.decision \in {"redact", "block"} => e \in told.enforced \/ e.path \in told.shifted
    /\ InHand => cur.event.path = cur.path
    /\ phase = "enforce" /\ cur.path \notin told.shifted =>
        /\ file[cur.path].labels # {}
        /\ cur.event.text = file[cur.path].text /\ cur.event.decision = Action(cur.path)
    /\ phase \in {"move", "copy", "replace"} /\ cur.path \notin told.shifted =>
        /\ cur.event.text = cur.text
        /\ cur.event.decision = IF phase = "move" THEN "block" ELSE "redact"

-----------------------------------------------------------------------------
(* Policies and paths.                                                      *)

LEMMA StrictestActs ==
  ASSUME NEW S \in SUBSET PolicyRule, S # {}
  PROVE  \E r \in S : \A other \in S : Rank[other.action] <= Rank[r.action]
<1>1. \A r \in S : r.action \in Actions /\ Rank[r.action] \in 1..5
  BY DEF PolicyRule, Actions, Rank
<1> DEFINE At(k) == \E r \in S : Rank[r.action] = k
<1>2. At(1) \/ At(2) \/ At(3) \/ At(4) \/ At(5)
  BY <1>1
<1>3. CASE At(5)
  BY <1>1, <1>3
<1>4. CASE ~At(5) /\ At(4)
  BY <1>1, <1>4
<1>5. CASE ~At(5) /\ ~At(4) /\ At(3)
  BY <1>1, <1>5
<1>6. CASE ~At(5) /\ ~At(4) /\ ~At(3) /\ At(2)
  BY <1>1, <1>6
<1>7. CASE ~At(5) /\ ~At(4) /\ ~At(3) /\ ~At(2) /\ At(1)
  BY <1>1, <1>7
<1> HIDE DEF At
<1>8. QED
  BY <1>2, <1>3, <1>4, <1>5, <1>6, <1>7

LEMMA EvaluateActs ==
  ASSUME NEW set \in SUBSET PolicyRule, NEW resource, NEW labels
  PROVE  Evaluate(set, resource, labels) \in Actions
<1> DEFINE S == Matching(set, resource, labels)
           best == CHOOSE r \in S : \A other \in S : Rank[other.action] <= Rank[r.action]
<1>1. S \in SUBSET PolicyRule
  BY DEF Matching
<1>2. CASE S = {}
  BY <1>2 DEF Evaluate, DefaultAction, Actions
<1>3. CASE S # {}
  <2>1. best \in S
    <3> HIDE DEF S
    <3>1. QED
      BY <1>1, <1>3, StrictestActs
  <2>2. best.action \in Actions
    BY <1>1, <2>1 DEF PolicyRule
  <2>3. Evaluate(set, resource, labels) = best.action
    BY <1>3 DEF Evaluate
  <2>4. QED
    BY <2>2, <2>3
<1>4. QED
  BY <1>2, <1>3

LEMMA ActionActs ==
  ASSUME policy \in 0..published, published \in DOMAIN Policies
  PROVE  \A p : Action(p) \in Actions
<1> DEFINE now == IF policy = 0 THEN Defaults ELSE Policies[policy]
<1>1. DOMAIN Policies = 1..Len(Policies) /\ Len(Policies) \in Nat
  BY WatchPolicies
<1>2. published \in 1..Len(Policies)
  BY <1>1
<1>3. policy # 0 => policy \in 1..Len(Policies)
  BY <1>1, <1>2
<1>4. now \in SUBSET PolicyRule
  BY <1>3, <1>1, WatchPolicies
<1> HIDE DEF now
<1>5. \A p : Evaluate(now, p, file[p].labels) \in Actions
  BY <1>4, EvaluateActs
<1>6. QED
  BY <1>5 DEF Action, now

LEMMA PathsApart ==
  ASSUME NEW p \in Paths
  PROVE  /\ p = <<p[1], p[2]>> /\ p[1] \in Files /\ p[2] \in 0..MaxSuffixes
         /\ p \notin Above(p)
         /\ p[2] < MaxSuffixes =>
              /\ Backup(p) \in Paths /\ Backup(p) \in Above(p) /\ Backup(p) # p
              /\ Backup(p)[1] = p[1] /\ Backup(p)[2] = p[2] + 1
              /\ Above(p) = {Backup(p)} \cup Above(Backup(p))
<1>1. p = <<p[1], p[2]>> /\ p[1] \in Files /\ p[2] \in 0..MaxSuffixes
  BY DEF Paths
<1>2. p \notin Above(p)
  BY <1>1 DEF Above
<1>3. ASSUME p[2] < MaxSuffixes
      PROVE  Backup(p) \in Paths /\ Backup(p)[1] = p[1] /\ Backup(p)[2] = p[2] + 1
  BY <1>1, <1>3, FilesAssumption DEF Backup, Paths
<1>4. ASSUME p[2] < MaxSuffixes
      PROVE  Above(p) = {Backup(p)} \cup Above(Backup(p))
  <2>1. ASSUME NEW q \in Above(p), q # Backup(p)
        PROVE  q[2] > p[2] + 1
    <3>1. q \in Paths /\ q = <<q[1], q[2]>> /\ q[1] = p[1] /\ q[2] \in Nat /\ q[2] > p[2]
      BY <2>1, FilesAssumption DEF Above, Paths
    <3>2. q[2] # p[2] + 1
      BY <2>1, <3>1 DEF Backup
    <3>3. QED
      BY <1>1, <3>1, <3>2
  <2>2. Above(p) \subseteq {Backup(p)} \cup Above(Backup(p))
    BY <1>3, <1>4, <2>1 DEF Above
  <2>3. {Backup(p)} \cup Above(Backup(p)) \subseteq Above(p)
    BY <1>1, <1>3, <1>4, FilesAssumption DEF Above, Paths
  <2>4. QED
    BY <2>2, <2>3
<1>5. ASSUME p[2] < MaxSuffixes PROVE Backup(p) \in Above(p) /\ Backup(p) # p
  BY <1>1, <1>3, <1>5 DEF Above
<1>6. QED
  BY <1>1, <1>2, <1>3, <1>4, <1>5

-----------------------------------------------------------------------------
(* Types.                                                                   *)

FilesTyped ==
    /\ file \in [Paths -> Texts]
    /\ snap \in [Paths -> 0..clock] /\ seen \in [Paths -> 0..clock]
    /\ original \in [Paths -> 0..clock]
    /\ quarantine \subseteq 1..clock
    /\ \A p \in Paths : Here(p) => file[p].text # 0 /\ file[p].sig # 0

RulesTyped ==
    /\ published \in DOMAIN Policies
    /\ {cache, policy, received} \subseteq 0..published /\ cut \in BOOLEAN

BatchTyped ==
    /\ Starting \/ phase \in {"sleep", "scan", "enforce", "move", "copy", "replace", "report", "dead"}
    /\ work \subseteq Paths
    /\ phase \notin {"scan", "enforce", "move", "copy", "replace"} => work = {}
    /\ phase = "sleep" \/ Starting \/ phase = "dead" => events = <<>>
    /\ events \in Seq(Events) /\ (phase = "report" => events # <<>>)

HandTyped ==
    InHand =>
        /\ cur = [path |-> cur.path, text |-> cur.text, event |-> cur.event]
        /\ cur.path \in work /\ cur.text \in 0..clock /\ cur.event \in Events
        /\ phase # "enforce" => cur.text # 0

HistoryTyped ==
    /\ told = [enforced |-> told.enforced, reported |-> told.reported,
               refused |-> told.refused, shifted |-> told.shifted]
    /\ told.enforced \union told.reported \union told.refused \subseteq Events
    /\ told.shifted \subseteq Paths
    /\ raced \subseteq {p \in Paths : p[2] = 0}

CountsTyped == clock \in Nat /\ edits \in 0..MaxEdits /\ starts \in 0..MaxStarts

Parts == FilesTyped /\ RulesTyped /\ BatchTyped /\ HandTyped /\ HistoryTyped /\ CountsTyped

LEMMA PartsTyped == (WatchTyped /\ clock \in Nat) <=> Parts
<1>1. ASSUME WatchTyped, clock \in Nat PROVE Parts
  BY <1>1 DEF Parts, FilesTyped, RulesTyped, BatchTyped, HandTyped, HistoryTyped, CountsTyped,
     WatchTyped, WatchTypeOK, Settled, InHand, Starting
<1>2. ASSUME Parts PROVE WatchTyped /\ clock \in Nat
  <2>1. WatchTypeOK
    BY <1>2 DEF Parts, FilesTyped, RulesTyped, BatchTyped, HandTyped, HistoryTyped, CountsTyped,
       WatchTypeOK, InHand, Starting
  <2>2. Settled
    BY <1>2 DEF Parts, FilesTyped, RulesTyped, BatchTyped, HandTyped, HistoryTyped, CountsTyped,
       Settled, InHand, Starting
  <2>3. QED
    BY <1>2, <2>1, <2>2 DEF WatchTyped, Parts, CountsTyped
<1>3. QED
  BY <1>1, <1>2

LEMMA InitTyped == WatchInit => Parts
<1> SUFFICES ASSUME WatchInit PROVE Parts
  OBVIOUS
<1>1. FilesTyped
  BY DEF WatchInit, FilesTyped, Texts, Absent, NoSnapshot, Here
<1>2. RulesTyped
  <2>1. Len(Policies) \in Nat /\ Len(Policies) # 0 /\ DOMAIN Policies = 1..Len(Policies)
    BY WatchPolicies, EmptySeq
  <2>2. 1 \in DOMAIN Policies
    BY <2>1
  <2>3. published = 1 /\ cache \in 0..1 /\ policy \in 0..1 /\ received \in 0..1 /\ cut = FALSE
    BY DEF WatchInit
  <2>4. QED
    BY <2>2, <2>3 DEF RulesTyped
<1>3. BatchTyped /\ HandTyped
  BY DEF WatchInit, BatchTyped, HandTyped, Starting, InHand
<1>4. HistoryTyped
  BY DEF WatchInit, HistoryTyped, Untold
<1>5. CountsTyped
  BY WatchBounds DEF WatchInit, CountsTyped
<1>6. QED
  BY <1>1, <1>2, <1>3, <1>4, <1>5 DEF Parts

\* A signature more than there were.
LEMMA ClockMoves ==
  ASSUME Parts, clock' \in {clock, clock + 1}
  PROVE  /\ clock' \in Nat /\ 0..clock \subseteq 0..clock' /\ 1..clock \subseteq 1..clock'
         /\ Texts \subseteq Texts' /\ Events \subseteq Events'
<1>1. clock \in Nat
  BY DEF Parts, CountsTyped
<1>2. clock' \in Nat /\ 0..clock \subseteq 0..clock' /\ 1..clock \subseteq 1..clock'
  BY <1>1
<1>3. QED
  BY <1>2 DEF Texts, Events

\* What Done leaves, whatever else its step does.
LEMMA DoneTypes ==
  ASSUME Parts, NEW p \in work, phase \in {"scan", "enforce", "move", "replace"},
         NEW found \in Seq(Events'), Done(p, found), Events \subseteq Events'
  PROVE  BatchTyped' /\ HandTyped'
<1>1. events \in Seq(Events')
  BY DEF Parts, BatchTyped
<1>2. events' \in Seq(Events')
  BY <1>1, ConcatProperties DEF Done
<1>3. /\ work' \subseteq Paths
      /\ phase' \in {"scan", "sleep", "report"}
      /\ phase' # "scan" => work' = {}
      /\ phase' = "sleep" => events' = <<>>
      /\ phase' = "report" => events' # <<>>
  BY DEF Done, Parts, BatchTyped
<1>4. QED
  BY <1>2, <1>3 DEF BatchTyped, HandTyped, InHand, Starting

\* The files after a write or a deletion.
LEMMA PutTypes ==
  ASSUME Parts, NEW p \in Paths, NEW text \in 1..clock', NEW labels \in Writable \union {{}},
         Put(p, text, labels)
  PROVE  /\ clock' \in Nat /\ clock' = clock + 1
         /\ file' \in [Paths -> Texts']
         /\ file'[p] = [text |-> text, labels |-> labels, sig |-> clock + 1]
         /\ \A q \in Paths \ {p} : file'[q] = file[q]
         /\ \A q \in Paths : Here(q)' => file'[q].text # 0 /\ file'[q].sig # 0
<1>1. clock' = clock + 1 /\ clock \in Nat
  BY DEF Put, Parts, CountsTyped
<1>2. file \in [Paths -> Texts'] /\ \A q \in Paths : Here(q) => file[q].text # 0 /\ file[q].sig # 0
  BY <1>1, ClockMoves DEF Parts, FilesTyped
<1>3. /\ file'[p] = [text |-> text, labels |-> labels, sig |-> clock + 1]
      /\ \A q \in Paths \ {p} : file'[q] = file[q]
  BY <1>2 DEF Put
<1>4. [text |-> text, labels |-> labels, sig |-> clock + 1] \in Texts'
  BY <1>1 DEF Texts
<1>5. file' \in [Paths -> Texts']
  BY <1>2, <1>4 DEF Put
<1>6. \A q \in Paths : Here(q)' => file'[q].text # 0 /\ file'[q].sig # 0
  BY <1>1, <1>2, <1>3 DEF Here
<1>7. QED
  BY <1>1, <1>3, <1>5, <1>6

LEMMA AbsentTypes ==
  ASSUME Parts, NEW p \in Paths, file' = [file EXCEPT ![p] = Absent], clock' = clock
  PROVE  /\ file' \in [Paths -> Texts']
         /\ file'[p] = Absent /\ \A q \in Paths \ {p} : file'[q] = file[q]
         /\ \A q \in Paths : Here(q)' => file'[q].text # 0 /\ file'[q].sig # 0
<1>1. clock \in Nat /\ file \in [Paths -> Texts]
      /\ \A q \in Paths : Here(q) => file[q].text # 0 /\ file[q].sig # 0
  BY DEF Parts, CountsTyped, FilesTyped
<1>2. Absent \in Texts /\ Texts' = Texts
  BY <1>1 DEF Absent, Texts
<1>3. QED
  BY <1>1, <1>2 DEF Here

LEMMA CopyTypes ==
  ASSUME Parts, NEW p \in Paths, NEW b \in Paths, file' = [file EXCEPT ![b] = file[p]],
         clock' = clock
  PROVE  /\ file' \in [Paths -> Texts']
         /\ file'[b] = file[p] /\ \A q \in Paths \ {b} : file'[q] = file[q]
         /\ \A q \in Paths : Here(q)' => file'[q].text # 0 /\ file'[q].sig # 0
<1>1. clock \in Nat /\ file \in [Paths -> Texts]
      /\ \A q \in Paths : Here(q) => file[q].text # 0 /\ file[q].sig # 0
  BY DEF Parts, CountsTyped, FilesTyped
<1>2. Texts' = Texts
  BY DEF Texts
<1>3. QED
  BY <1>1, <1>2 DEF Here

LEMMA DieTypes ==
  ASSUME Parts, Die, UNCHANGED <<file, quarantine, original, clock>>
  PROVE  FilesTyped' /\ BatchTyped' /\ HandTyped' /\ phase' = "dead"
<1>1. FilesTyped'
  <2>1. NoSnapshot \in [Paths -> 0..clock]
    BY DEF Parts, CountsTyped, NoSnapshot
  <2>2. QED
    BY <2>1 DEF Die, Parts, FilesTyped, Texts, Here
<1>2. BatchTyped' /\ HandTyped' /\ phase' = "dead"
  BY DEF Die, BatchTyped, HandTyped, InHand, Starting
<1>3. QED
  BY <1>1, <1>2

LEMMA StartTypes ==
  ASSUME Parts, Download \/ Save \/ FallBack \/ Begin
  PROVE  Parts'
<1>1. CASE Download
  <2>1. FilesTyped' /\ HistoryTyped' /\ CountsTyped'
    BY <1>1 DEF Download, history, Parts, FilesTyped, HistoryTyped, CountsTyped, Texts, Events, Here
  <2>2. RulesTyped'
    <3>1. published \in DOMAIN Policies /\ DOMAIN Policies = 1..Len(Policies) /\ Len(Policies) \in Nat
      BY WatchPolicies DEF Parts, RulesTyped
    <3>2. 0 \in 0..published /\ published \in 0..published
      BY <3>1
    <3>3. QED
      BY <1>1, <3>2 DEF Download, Parts, RulesTyped
  <2>3. BatchTyped' /\ HandTyped'
    BY <1>1 DEF Download, Parts, BatchTyped, HandTyped, Starting, InHand, Events
  <2>4. QED
    BY <2>1, <2>2, <2>3 DEF Parts
<1>2. CASE Save
  <2>1. FilesTyped' /\ HistoryTyped' /\ CountsTyped'
    BY <1>2 DEF Save, history, Parts, FilesTyped, HistoryTyped, CountsTyped, Texts, Events, Here
  <2>2. RulesTyped'
    BY <1>2 DEF Save, Parts, RulesTyped
  <2>3. BatchTyped' /\ HandTyped'
    BY <1>2 DEF Save, Parts, BatchTyped, HandTyped, Starting, InHand, Events
  <2>4. QED
    BY <2>1, <2>2, <2>3 DEF Parts
<1>3. CASE FallBack
  <2>1. FilesTyped' /\ HistoryTyped' /\ CountsTyped'
    BY <1>3 DEF FallBack, history, Parts, FilesTyped, HistoryTyped, CountsTyped, Texts, Events, Here
  <2>2. RulesTyped'
    BY <1>3 DEF FallBack, Parts, RulesTyped
  <2>3. BatchTyped' /\ HandTyped'
    BY <1>3 DEF FallBack, Parts, BatchTyped, HandTyped, Starting, InHand, Events
  <2>4. QED
    BY <2>1, <2>2, <2>3 DEF Parts
<1>4. CASE Begin
  <2>1. FilesTyped'
    <3>1. \A p \in Paths : file[p].sig \in 0..clock
      BY DEF Parts, FilesTyped, Texts
    <3>2. Signatures \in [Paths -> 0..clock]
      BY <3>1 DEF Signatures
    <3>3. QED
      BY <1>4, <3>2 DEF Begin, Parts, FilesTyped, Texts, Here
  <2>2. RulesTyped' /\ HistoryTyped' /\ CountsTyped'
    BY <1>4 DEF Begin, rules, Parts, RulesTyped, HistoryTyped, CountsTyped, Events
  <2>3. BatchTyped' /\ HandTyped'
    BY <1>4 DEF Begin, Parts, BatchTyped, HandTyped, Starting, InHand, Events
  <2>4. QED
    BY <2>1, <2>2, <2>3 DEF Parts
<1>5. QED
  BY <1>1, <1>2, <1>3, <1>4

LEMMA PollTypes ==
  ASSUME Parts, Poll
  PROVE  Parts'
<1>1. FilesTyped'
  <2>1. \A p \in Paths : file[p].sig \in 0..clock
    BY DEF Parts, FilesTyped, Texts
  <2>2. Signatures \in [Paths -> 0..clock]
    BY <2>1 DEF Signatures
  <2>3. QED
    BY <2>2 DEF Poll, history, Parts, FilesTyped, Texts, Here
<1>2. RulesTyped' /\ HistoryTyped' /\ CountsTyped'
  BY DEF Poll, rules, history, Parts, RulesTyped, HistoryTyped, CountsTyped, Events
<1>3. BatchTyped' /\ HandTyped'
  BY DEF Poll, Changed, Parts, BatchTyped, HandTyped, Starting, InHand, Events
<1>4. QED
  BY <1>1, <1>2, <1>3 DEF Parts

LEMMA ScanTypes ==
  ASSUME Parts, NEW p \in Paths, Scan(p)
  PROVE  Parts'
<1>1. FilesTyped'
  <2>1. file[p].sig \in 0..clock
    BY DEF Parts, FilesTyped, Texts
  <2>2. seen' \in [Paths -> 0..clock]
    BY <2>1 DEF Scan, Parts, FilesTyped
  <2>3. QED
    BY <2>2 DEF Scan, Parts, FilesTyped, Texts, Here
<1>2. RulesTyped' /\ HistoryTyped' /\ CountsTyped'
  BY DEF Scan, rules, Parts, RulesTyped, HistoryTyped, CountsTyped, Events
<1>3. Events' = Events
  BY DEF Scan, Events
<1>4. CASE file[p].labels = {}
  <2>1. <<>> \in Seq(Events') /\ Done(p, <<>>) /\ p \in work /\ phase = "scan"
    BY <1>4 DEF Scan
  <2>2. BatchTyped' /\ HandTyped'
    BY <1>3, <2>1, DoneTypes
  <2>3. QED
    BY <1>1, <1>2, <2>2 DEF Parts
<1>5. CASE file[p].labels # {}
  <2>1. phase' = "enforce" /\ work' = work /\ events' = events /\ p \in work /\ phase = "scan"
    BY <1>5 DEF Scan
  <2>2. cur' = [path |-> p, text |-> 0,
                event |-> [path |-> p, text |-> file[p].text, decision |-> Action(p)]]
    BY <1>5 DEF Scan
  <2>3. file[p].text \in 1..clock
    <3>1. Here(p) /\ file[p].text \in 0..clock /\ clock \in Nat
      BY <1>5 DEF Here, Absent, Parts, FilesTyped, Texts, CountsTyped
    <3>2. file[p].text # 0
      BY <3>1 DEF Parts, FilesTyped
    <3>3. QED
      BY <3>1, <3>2
  <2>4. Action(p) \in Actions
    BY ActionActs DEF Parts, RulesTyped
  <2>5. cur'.event \in Events
    BY <2>2, <2>3, <2>4 DEF Events
  <2>6. BatchTyped'
    BY <1>3, <2>1 DEF BatchTyped, Parts, Starting
  <2>7. HandTyped'
    <3>1. cur'.path = p /\ cur'.text = 0 /\ 0 \in 0..clock'
      BY <2>2 DEF Scan, Parts, CountsTyped
    <3>2. cur' = [path |-> cur'.path, text |-> cur'.text, event |-> cur'.event]
      BY <2>2
    <3>3. QED
      BY <1>3, <2>1, <2>5, <3>1, <3>2 DEF HandTyped
  <2>8. QED
    BY <1>1, <1>2, <2>6, <2>7 DEF Parts
<1>6. QED
  BY <1>4, <1>5

LEMMA ReportTypes ==
  ASSUME Parts, Report
  PROVE  Parts'
<1>1. FilesTyped' /\ RulesTyped' /\ CountsTyped'
  BY DEF Report, rules, Parts, FilesTyped, RulesTyped, CountsTyped, Texts, Here
<1>2. Events' = Events /\ events \in Seq(Events) /\ events # <<>> /\ phase = "report"
  BY DEF Report, Events, Parts, BatchTyped
<1>3. Head(events) \in Events /\ Tail(events) \in Seq(Events)
  BY <1>2, HeadTailProperties
<1>4. HistoryTyped'
  BY <1>2, <1>3 DEF Report, Refused, Parts, HistoryTyped
<1>5. BatchTyped' /\ HandTyped'
  BY <1>2, <1>3 DEF Report, Parts, BatchTyped, HandTyped, Starting, InHand
<1>6. QED
  BY <1>1, <1>4, <1>5 DEF Parts

LEMMA LoseAnswerTypes ==
  ASSUME Parts, LoseAnswer
  PROVE  Parts'
<1>1. FilesTyped' /\ BatchTyped' /\ HandTyped'
  BY DieTypes DEF LoseAnswer
<1>2. Events' = Events /\ events \in Seq(Events) /\ events # <<>>
  BY DEF LoseAnswer, Events, Parts, BatchTyped
<1>3. Head(events) \in Events
  BY <1>2, HeadTailProperties
<1>4. HistoryTyped'
  BY <1>2, <1>3 DEF LoseAnswer, Parts, HistoryTyped
<1>5. RulesTyped' /\ CountsTyped'
  <2>1. 0 \in 0..published
    BY WatchPolicies DEF Parts, RulesTyped
  <2>2. QED
    BY <2>1 DEF LoseAnswer, Die, Parts, RulesTyped, CountsTyped
<1>6. QED
  BY <1>1, <1>4, <1>5 DEF Parts

LEMMA DecideTypes ==
  ASSUME Parts, Decide
  PROVE  Parts'
<1>1. FilesTyped' /\ RulesTyped' /\ CountsTyped' /\ HistoryTyped' /\ Events' = Events
  BY DEF Decide, rules, history, Parts, FilesTyped, RulesTyped, CountsTyped, HistoryTyped, Texts,
     Events, Here
<1>2. /\ phase = "enforce" /\ cur.path \in work /\ cur.event \in Events /\ work \subseteq Paths
      /\ cur = [path |-> cur.path, text |-> cur.text, event |-> cur.event]
  BY DEF Decide, Parts, HandTyped, BatchTyped, InHand
<1>3. CASE Verdict(cur.path) \in {"redact", "block"}
  <2>1. /\ cur' = [cur EXCEPT !.text = file[cur.path].text]
        /\ phase' \in {"move", "copy"} /\ work' = work /\ events' = events /\ clock' = clock
    BY <1>3 DEF Decide
  <2>2. file[cur.path].text \in 0..clock /\ file[cur.path].text # 0
    <3>1. file[cur.path].labels # {}
      BY <1>3 DEF Verdict
    <3>2. Here(cur.path) /\ file[cur.path].text \in 0..clock
      BY <1>2, <3>1 DEF Here, Absent, Parts, FilesTyped, Texts
    <3>3. QED
      BY <1>2, <3>2 DEF Parts, FilesTyped
  <2>3. cur' = [path |-> cur.path, text |-> file[cur.path].text, event |-> cur.event]
    BY <1>2, <2>1
  <2>4. BatchTyped'
    BY <1>1, <1>2, <2>1 DEF BatchTyped, Parts, Starting
  <2>5. HandTyped'
    BY <1>1, <1>2, <2>1, <2>2, <2>3 DEF HandTyped
  <2>6. QED
    BY <1>1, <2>4, <2>5 DEF Parts
<1>4. CASE Verdict(cur.path) \notin {"redact", "block"}
  <2>1. Done(cur.path, <<cur.event>>)
    BY <1>4 DEF Decide
  <2>2. <<cur.event>> \in Seq(Events')
    BY <1>1, <1>2
  <2>3. BatchTyped' /\ HandTyped'
    BY <1>1, <1>2, <2>1, <2>2, DoneTypes
  <2>4. QED
    BY <1>1, <2>3 DEF Parts
<1>5. QED
  BY <1>3, <1>4

\* What the end of an enforcement leaves.
LEMMA EnforcedTypes ==
  ASSUME Parts, phase \in {"move", "replace"}, NEW action \in Actions, Enforced(action),
         Events \subseteq Events', 1..clock \subseteq 1..clock', raced' = raced
  PROVE  BatchTyped' /\ HandTyped' /\ HistoryTyped'
<1>1. /\ cur.path \in work /\ cur.event \in Events' /\ work \subseteq Paths
      /\ cur.text \in 1..clock /\ Done(cur.path, <<cur.event>>)
  <2>1. cur.text \in 0..clock /\ cur.text # 0 /\ clock \in Nat
    BY DEF Parts, HandTyped, InHand, CountsTyped
  <2>2. QED
    BY <2>1 DEF Parts, HandTyped, InHand, BatchTyped, Enforced
<1>2. BatchTyped' /\ HandTyped'
  <2>1. <<cur.event>> \in Seq(Events')
    BY <1>1
  <2>2. QED
    BY <1>1, <2>1, DoneTypes
<1>3. [path |-> cur.path, text |-> cur.text, decision |-> action] \in Events'
  BY <1>1 DEF Events
<1>4. HistoryTyped'
  BY <1>3 DEF Enforced, Parts, HistoryTyped
<1>5. QED
  BY <1>2, <1>4

LEMMA QuarantineTypes ==
  ASSUME Parts, Quarantine
  PROVE  Parts'
<1>1. Events' = Events /\ clock' = clock
  BY DEF Quarantine, Events
<1>2. cur.path \in Paths /\ Here(cur.path)
  BY DEF Quarantine, Parts, HandTyped, InHand, BatchTyped
<1>3. FilesTyped'
  <2>1. file[cur.path].text \in 0..clock /\ file[cur.path].text # 0 /\ clock \in Nat
    BY <1>2 DEF Parts, FilesTyped, Texts, CountsTyped
  <2>2. quarantine' \subseteq 1..clock'
    <3>1. file[cur.path].text \in 1..clock
      BY <2>1
    <3>2. quarantine' = quarantine \union {file[cur.path].text} /\ quarantine \subseteq 1..clock
      BY DEF Quarantine, Parts, FilesTyped
    <3>3. QED
      BY <1>1, <3>1, <3>2
  <2>3. /\ file' \in [Paths -> Texts']
        /\ \A q \in Paths : Here(q)' => file'[q].text # 0 /\ file'[q].sig # 0
    BY <1>1, <1>2, AbsentTypes DEF Quarantine
  <2>4. QED
    BY <1>1, <2>2, <2>3 DEF Quarantine, Parts, FilesTyped
<1>4. BatchTyped' /\ HandTyped' /\ HistoryTyped'
  <2>1. phase \in {"move", "replace"} /\ "block" \in Actions /\ Enforced("block") /\ raced' = raced
    BY DEF Quarantine, Actions
  <2>2. QED
    BY <1>1, <2>1, EnforcedTypes
<1>5. RulesTyped' /\ CountsTyped'
  BY DEF Quarantine, rules, Parts, RulesTyped, CountsTyped
<1>6. QED
  BY <1>3, <1>4, <1>5 DEF Parts

LEMMA CopyStepTypes ==
  ASSUME Parts, Copy
  PROVE  Parts'
<1>1. Events' = Events /\ clock' = clock
  BY DEF Copy, Events
<1>2. cur.path \in Paths /\ cur.path[2] < MaxSuffixes /\ phase = "copy" /\ phase' = "replace"
  BY DEF Copy, Parts, HandTyped, InHand, BatchTyped
<1>3. Backup(cur.path) \in Paths
  BY <1>2, PathsApart
<1>4. FilesTyped'
  <2>1. /\ file' \in [Paths -> Texts']
        /\ \A q \in Paths : Here(q)' => file'[q].text # 0 /\ file'[q].sig # 0
    BY <1>1, <1>2, <1>3, CopyTypes DEF Copy
  <2>2. QED
    BY <1>1, <2>1 DEF Copy, history, Parts, FilesTyped
<1>5. RulesTyped' /\ CountsTyped' /\ HistoryTyped'
  BY <1>1 DEF Copy, rules, history, Parts, RulesTyped, CountsTyped, HistoryTyped
<1>6. BatchTyped' /\ HandTyped'
  BY <1>1, <1>2 DEF Copy, Parts, BatchTyped, HandTyped, InHand, Starting
<1>7. QED
  BY <1>4, <1>5, <1>6 DEF Parts

LEMMA FailTypes ==
  ASSUME Parts, Fail \/ Crash
  PROVE  Parts'
<1>1. Die /\ UNCHANGED <<file, clock, published, cache, received, quarantine, edits, starts,
                         original, raced, told>>
      /\ cut' \in BOOLEAN
  BY DEF Fail, Crash, Parts, RulesTyped
<1>2. FilesTyped' /\ BatchTyped' /\ HandTyped'
  BY <1>1, DieTypes
<1>3. RulesTyped'
  <2>1. 0 \in 0..published
    BY WatchPolicies DEF Parts, RulesTyped
  <2>2. QED
    BY <1>1, <2>1 DEF Die, Parts, RulesTyped
<1>4. CountsTyped' /\ HistoryTyped'
  BY <1>1 DEF Parts, CountsTyped, HistoryTyped, Events
<1>5. QED
  BY <1>2, <1>3, <1>4 DEF Parts

LEMMA ReplaceTypes ==
  ASSUME Parts, Replace
  PROVE  Parts'
<1>1. /\ cur.path \in Paths /\ cur.text \in 1..clock /\ clock \in Nat /\ phase = "replace"
      /\ cur.text \in 0..clock
  <2>1. cur.text \in 0..clock /\ cur.text # 0 /\ clock \in Nat
    BY DEF Replace, Parts, HandTyped, InHand, CountsTyped
  <2>2. QED
    BY <2>1 DEF Replace, Parts, HandTyped, InHand, BatchTyped
<1>2. Put(cur.path, cur.text, {}) /\ clock' = clock + 1
  BY DEF Replace, Put
<1>3. /\ clock' \in Nat /\ 0..clock \subseteq 0..clock' /\ 1..clock \subseteq 1..clock'
      /\ Events \subseteq Events'
  BY <1>2, ClockMoves
<1>4. FilesTyped'
  <2>1. /\ file' \in [Paths -> Texts']
        /\ \A q \in Paths : Here(q)' => file'[q].text # 0 /\ file'[q].sig # 0
    BY <1>1, <1>2, <1>3, PutTypes
  <2>2. original' \in [Paths -> 0..clock']
    BY <1>1, <1>3 DEF Replace, Parts, FilesTyped
  <2>3. /\ snap' \in [Paths -> 0..clock'] /\ seen' \in [Paths -> 0..clock']
        /\ quarantine' \subseteq 1..clock'
    BY <1>3 DEF Replace, Parts, FilesTyped
  <2>4. QED
    BY <2>1, <2>2, <2>3 DEF FilesTyped
<1>5. BatchTyped' /\ HandTyped' /\ HistoryTyped'
  <2>1. phase \in {"move", "replace"} /\ "redact" \in Actions /\ Enforced("redact") /\ raced' = raced
    BY DEF Replace, Actions
  <2>2. QED
    BY <1>3, <2>1, EnforcedTypes
<1>6. RulesTyped' /\ CountsTyped'
  BY <1>3 DEF Replace, rules, Parts, RulesTyped, CountsTyped
<1>7. QED
  BY <1>4, <1>5, <1>6 DEF Parts

LEMMA EditTypes ==
  ASSUME Parts, NEW f \in Files, NEW labels \in Writable, Edit(f, labels)
  PROVE  Parts'
<1> DEFINE p == <<f, 0>>
<1>1. p \in Paths /\ p[2] = 0
  BY FilesAssumption DEF Paths
<1>2. Put(p, clock + 1, labels) /\ clock' = clock + 1 /\ clock \in Nat
  BY DEF Edit, Put, Parts, CountsTyped
<1>3. /\ clock' \in Nat /\ 0..clock \subseteq 0..clock' /\ 1..clock \subseteq 1..clock'
      /\ Events \subseteq Events'
  BY <1>2, ClockMoves
<1>4. FilesTyped'
  <2>1. clock + 1 \in 1..clock' /\ labels \in Writable \union {{}}
    BY <1>2
  <2>2. /\ file' \in [Paths -> Texts']
        /\ \A q \in Paths : Here(q)' => file'[q].text # 0 /\ file'[q].sig # 0
    <3> HIDE DEF p
    <3>1. QED
      BY <1>1, <1>2, <2>1, PutTypes
  <2>3. /\ snap' \in [Paths -> 0..clock'] /\ seen' \in [Paths -> 0..clock']
        /\ original' \in [Paths -> 0..clock'] /\ quarantine' \subseteq 1..clock'
    BY <1>3 DEF Edit, agent, Parts, FilesTyped
  <2>4. QED
    BY <2>2, <2>3 DEF FilesTyped
<1>5. RulesTyped' /\ CountsTyped'
  BY <1>3, WatchBounds DEF Edit, rules, Parts, RulesTyped, CountsTyped
<1>6. BatchTyped' /\ HandTyped'
  <2>1. events \in Seq(Events')
    BY <1>3 DEF Parts, BatchTyped
  <2>2. QED
    BY <1>3, <2>1 DEF Edit, agent, Parts, BatchTyped, HandTyped, InHand, Starting
<1>7. HistoryTyped'
  BY <1>1, <1>3 DEF Edit, Interfere, Parts, HistoryTyped
<1>8. QED
  BY <1>4, <1>5, <1>6, <1>7 DEF Parts

LEMMA DeleteTypes ==
  ASSUME Parts, NEW f \in Files, Delete(f)
  PROVE  Parts'
<1> DEFINE p == <<f, 0>>
<1>1. p \in Paths /\ p[2] = 0
  BY FilesAssumption DEF Paths
<1>2. Events' = Events /\ clock' = clock
  BY DEF Delete, Events
<1>3. FilesTyped'
  <2>1. /\ file' \in [Paths -> Texts']
        /\ \A q \in Paths : Here(q)' => file'[q].text # 0 /\ file'[q].sig # 0
    <3>1. file' = [file EXCEPT ![p] = Absent]
      BY DEF Delete
    <3> HIDE DEF p
    <3>2. QED
      BY <1>1, <1>2, <3>1, AbsentTypes
  <2>2. QED
    BY <1>2, <2>1 DEF Delete, agent, Parts, FilesTyped
<1>4. RulesTyped' /\ CountsTyped'
  BY WatchBounds DEF Delete, rules, Parts, RulesTyped, CountsTyped
<1>5. BatchTyped' /\ HandTyped'
  BY <1>2 DEF Delete, agent, Parts, BatchTyped, HandTyped, InHand, Starting
<1>6. HistoryTyped'
  BY <1>1, <1>2 DEF Delete, Interfere, Parts, HistoryTyped
<1>7. QED
  BY <1>3, <1>4, <1>5, <1>6 DEF Parts

LEMMA PublishTypes ==
  ASSUME Parts, Publish
  PROVE  Parts'
<1>1. FilesTyped' /\ CountsTyped'
  BY DEF Publish, agent, history, Parts, FilesTyped, CountsTyped, Texts, Here
<1>2. RulesTyped'
  <2>1. published \in 1..Len(Policies) /\ Len(Policies) \in Nat
    BY WatchPolicies DEF Parts, RulesTyped
  <2>2. published' \in 1..Len(Policies) /\ 0..published \subseteq 0..published'
    BY <2>1 DEF Publish
  <2>3. DOMAIN Policies = 1..Len(Policies)
    BY WatchPolicies
  <2>4. cache \in 0..published /\ policy \in 0..published /\ received \in 0..published
    BY DEF Parts, RulesTyped
  <2>5. UNCHANGED <<cache, policy, received, cut>> /\ cut \in BOOLEAN
    BY DEF Publish, Parts, RulesTyped
  <2>6. QED
    BY <2>2, <2>3, <2>4, <2>5 DEF RulesTyped
<1>3. Events' = Events
  BY DEF Publish, Events
<1>4. BatchTyped' /\ HandTyped' /\ HistoryTyped'
  BY <1>3 DEF Publish, agent, history, Parts, BatchTyped, HandTyped, HistoryTyped, InHand, Starting
<1>5. QED
  BY <1>1, <1>2, <1>4 DEF Parts

LEMMA RestartTypes ==
  ASSUME Parts, Restart
  PROVE  Parts'
<1>1. FilesTyped' /\ RulesTyped'
  BY DEF Restart, rules, Parts, FilesTyped, RulesTyped, Texts, Here
<1>2. CountsTyped'
  BY WatchBounds DEF Restart, Parts, CountsTyped
<1>3. BatchTyped' /\ HandTyped' /\ HistoryTyped'
  BY DEF Restart, Parts, BatchTyped, HandTyped, HistoryTyped, InHand, Starting, Untold, Events
<1>4. QED
  BY <1>1, <1>2, <1>3 DEF Parts

LEMMA StutterTypes ==
  ASSUME Parts, UNCHANGED watchVars
  PROVE  Parts'
<1>1. /\ UNCHANGED <<file, clock, published, cache, policy, received, cut>>
      /\ UNCHANGED <<phase, snap, work, cur, events, quarantine, edits, starts>>
      /\ UNCHANGED <<seen, original, raced, told>>
  BY DEF watchVars, rules, agent, history
<1>2. FilesTyped' /\ RulesTyped' /\ CountsTyped'
  BY <1>1 DEF Parts, FilesTyped, RulesTyped, CountsTyped, Texts, Here
<1>3. BatchTyped' /\ HandTyped' /\ HistoryTyped'
  BY <1>1 DEF Parts, BatchTyped, HandTyped, HistoryTyped, InHand, Starting, Events
<1>4. QED
  BY <1>2, <1>3 DEF Parts

LEMMA NextTypes ==
  ASSUME Parts, [WatchNext]_watchVars
  PROVE  Parts'
<1>1. CASE Watch
  BY <1>1, StartTypes, PollTypes, ScanTypes, DecideTypes, QuarantineTypes, CopyStepTypes, FailTypes,
     ReplaceTypes, ReportTypes, LoseAnswerTypes DEF Watch
<1>2. CASE \E f \in Files : Delete(f) \/ \E labels \in Writable : Edit(f, labels)
  BY <1>2, DeleteTypes, EditTypes
<1>3. CASE Publish \/ Crash \/ Restart
  BY <1>3, PublishTypes, FailTypes, RestartTypes
<1>4. CASE UNCHANGED watchVars
  BY <1>4, StutterTypes
<1>5. QED
  BY <1>1, <1>2, <1>3, <1>4 DEF WatchNext

-----------------------------------------------------------------------------
(* The policy that is remembered.                                           *)

LEMMA InitRemembers == WatchInit => PolicyInv
BY DEF WatchInit, PolicyInv, Starting, Watching

LEMMA NextRemembers ==
  ASSUME Parts, PolicyInv, [WatchNext]_watchVars
  PROVE  PolicyInv'
<1> USE DEF PolicyInv, Starting, Watching
<1>1. ASSUME Download \/ Save \/ FallBack PROVE PolicyInv'
  <2>1. CASE Download
    BY <2>1 DEF Download
  <2>2. CASE Save
    BY <2>2 DEF Save
  <2>3. CASE FallBack
    BY <2>3 DEF FallBack
  <2>4. QED
    BY <1>1, <2>1, <2>2, <2>3
<1>2. ASSUME UNCHANGED <<cache, policy, received, cut>>, phase # "save", phase' # "save",
             Watching' => phase = "register" \/ Watching, phase' = "register" => phase = "register"
      PROVE  PolicyInv'
  BY <1>2
<1>3. ASSUME Die, UNCHANGED <<cache, received>>, cut' = (cut \/ phase = "save")
      PROVE  PolicyInv'
  BY <1>3 DEF Die
<1>4. ASSUME Begin \/ Poll \/ Report \/ \E p \in Paths : Scan(p)
      PROVE  PolicyInv'
  BY <1>2, <1>4 DEF Begin, Poll, Scan, Report, Done, rules
<1>5. ASSUME Decide \/ Quarantine \/ Copy \/ Replace PROVE PolicyInv'
  BY <1>2, <1>5 DEF Decide, Quarantine, Copy, Replace, Enforced, Done, rules
<1>6. ASSUME LoseAnswer \/ Fail \/ Crash PROVE PolicyInv'
  <2>1. Die /\ UNCHANGED <<cache, received>> /\ cut' = (cut \/ phase = "save")
    BY <1>6 DEF LoseAnswer, Fail, Crash, Parts, RulesTyped
  <2>2. QED
    BY <1>3, <2>1
<1>7. ASSUME UNCHANGED <<cache, policy, received, cut, phase>> PROVE PolicyInv'
  BY <1>7
<1>8. ASSUME Publish \/ Restart PROVE PolicyInv'
  BY <1>8 DEF Publish, Restart, rules, agent
<1>9. ASSUME NEW f \in Files, Delete(f) \/ \E labels \in Writable : Edit(f, labels)
      PROVE  PolicyInv'
  <2>1. UNCHANGED <<cache, policy, received, cut, phase>>
    BY <1>9 DEF Delete, Edit, rules, agent
  <2>2. QED
    BY <1>7, <2>1
<1>10. CASE UNCHANGED watchVars
  <2>1. UNCHANGED <<cache, policy, received, cut, phase>>
    BY <1>10 DEF watchVars, rules, agent
  <2>2. QED
    BY <1>7, <2>1
<1> QED
  BY <1>1, <1>4, <1>5, <1>6, <1>8, <1>9, <1>10 DEF WatchNext, Watch

-----------------------------------------------------------------------------
(* Every change is seen.                                                    *)

LEMMA InitSees == WatchInit => SeenInv
BY DEF WatchInit, SeenInv, ChangesSeen, Starting, Watching, InHand

LEMMA UnseenRests ==
  ASSUME ~Watching', ~InHand'
  PROVE  SeenInv'
BY DEF SeenInv, ChangesSeen

\* A step that leaves files and snapshots alone.
LEMMA SeenRests ==
  ASSUME SeenInv, UNCHANGED <<file, snap, seen, work>>, Watching' => Watching,
         InHand' => InHand /\ cur'.path = cur.path,
         phase = "replace" => phase' = "replace" /\ cur'.path = cur.path
  PROVE  SeenInv'
<1>1. ChangesSeen'
  BY DEF SeenInv, ChangesSeen, Here
<1>2. InHand' => (file'[cur'.path] # Absent /\ snap'[cur'.path] = file'[cur'.path].sig
                    => seen'[cur'.path] = file'[cur'.path].sig)
  BY DEF SeenInv, Here
<1>3. ASSUME Watching', NEW p \in Paths, Here(p)', snap'[p] # file'[p].sig \/ p \in work'
      PROVE  Fresh(p)' \/ (phase' = "replace" /\ cur'.path = p)
  <2>1. Fresh(p) \/ (phase = "replace" /\ cur.path = p)
    BY <1>3 DEF SeenInv, Here
  <2>2. CASE Fresh(p)
    BY <2>2 DEF Fresh, Above
  <2>3. CASE phase = "replace" /\ cur.path = p
    BY <2>3
  <2>4. QED
    BY <2>1, <2>2, <2>3
<1>4. QED
  BY <1>1, <1>2, <1>3 DEF SeenInv, Here

\* The path p is written, or there is nothing there any more.
LEMMA FreshWrites ==
  ASSUME Parts, SeenInv, Watching, NEW p \in Paths,
         \A q \in Paths \ {p} : file'[q] = file[q],
         file'[p] = Absent \/ file'[p].sig = clock + 1,
         snap' = snap, work' \subseteq work,
         NEW r \in Paths, Here(r)', snap'[r] # file'[r].sig \/ r \in work',
         r = p \/ ~(phase = "replace" /\ cur.path = r)
  PROVE  Fresh(r)'
<1>1. /\ clock \in Nat
      /\ \A q \in Paths : snap[q] \in 0..clock /\ file[q].sig \in 0..clock
      /\ \A q \in Paths : Here(q) => file[q].sig # 0
  BY DEF Parts, CountsTyped, FilesTyped, Texts
<1>2. Above(r)' = Above(r) /\ Above(r) \subseteq Paths \ {r}
  <2>1. Above(r)' = Above(r)
    BY DEF Above
  <2>2. r \notin Above(r)
    BY PathsApart
  <2>3. QED
    BY <2>1, <2>2 DEF Above
<1>3. CASE r = p
  <2>1. file'[r].sig = clock + 1
    BY <1>3 DEF Here, Absent
  <2>2. ASSUME NEW q \in Above(r)
        PROVE  snap'[q] # file'[r].sig /\ file'[q].sig # file'[r].sig
    <3>1. q \in Paths /\ q # p /\ file'[q] = file[q]
      BY <1>2, <1>3
    <3>2. QED
      BY <1>1, <2>1, <3>1
  <2>3. QED
    BY <1>2, <2>2 DEF Fresh
<1>4. CASE r # p
  <2>1. file'[r] = file[r] /\ Here(r)
    BY <1>4 DEF Here
  <2>2. Fresh(r)
    BY <1>4, <2>1 DEF SeenInv
  <2>3. ASSUME NEW q \in Above(r)
        PROVE  snap'[q] # file'[r].sig /\ file'[q].sig # file'[r].sig
    <3>1. snap[q] # file[r].sig /\ file[q].sig # file[r].sig
      BY <2>2 DEF Fresh
    <3>2. CASE q = p
      <4>1. file'[q].sig \in {0, clock + 1}
        BY <3>2 DEF Absent
      <4>2. file[r].sig \in 0..clock /\ file[r].sig # 0
        BY <1>1, <2>1
      <4>3. QED
        BY <1>1, <2>1, <3>1, <4>1, <4>2
    <3>3. CASE q # p
      BY <1>2, <2>1, <3>1, <3>3
    <3>4. QED
      BY <3>2, <3>3
  <2>4. QED
    BY <1>2, <2>3 DEF Fresh
<1>5. QED
  BY <1>3, <1>4

\* What was in hand is done, and p may have been written for it.
LEMMA DoneSees ==
  ASSUME Parts, SeenInv, InHand, phase' \in {"scan", "sleep", "report"},
         work' = work \ {cur.path}, snap' = snap, seen' = seen,
         \/ file' = file /\ phase # "replace"
         \/ /\ \A q \in Paths \ {cur.path} : file'[q] = file[q]
            /\ file'[cur.path] = Absent \/ file'[cur.path].sig = clock + 1
  PROVE  SeenInv'
<1> DEFINE p == cur.path
<1>1. p \in Paths /\ p \in work /\ Watching /\ Watching' /\ ~InHand'
  BY DEF Parts, HandTyped, BatchTyped, InHand, Watching, Starting
<1>2. clock \in Nat /\ snap[p] \in 0..clock
  BY <1>1 DEF Parts, CountsTyped, FilesTyped
<1>3. ChangesSeen'
  <2>1. ASSUME NEW q \in Paths \ work', Here(q)', snap'[q] = file'[q].sig
        PROVE  seen'[q] = file'[q].sig
    <3>1. CASE q # p
      BY <1>1, <2>1, <3>1 DEF SeenInv, ChangesSeen, Here
    <3>2. CASE q = p /\ file' = file
      BY <2>1, <3>2 DEF SeenInv, Here
    <3>3. CASE q = p /\ (file'[p] = Absent \/ file'[p].sig = clock + 1)
      BY <1>2, <2>1, <3>3 DEF Here
    <3>4. QED
      BY <3>1, <3>2, <3>3
  <2>2. QED
    BY <2>1 DEF ChangesSeen
<1>4. ASSUME NEW r \in Paths, Here(r)', snap'[r] # file'[r].sig \/ r \in work'
      PROVE  Fresh(r)'
  <2>1. CASE file' = file /\ phase # "replace"
    <3>1. Fresh(r)
      BY <1>1, <1>4, <2>1 DEF SeenInv, Here
    <3>2. QED
      BY <2>1, <3>1 DEF Fresh, Above
  <2>2. CASE /\ \A q \in Paths \ {p} : file'[q] = file[q]
             /\ file'[p] = Absent \/ file'[p].sig = clock + 1
    <3>1. r = p \/ ~(phase = "replace" /\ cur.path = r)
      OBVIOUS
    <3>2. work' \subseteq work
      OBVIOUS
    <3> HIDE DEF p
    <3>3. QED
      BY <1>1, <1>4, <2>2, <3>1, <3>2, FreshWrites
  <2>3. QED
    BY <2>1, <2>2
<1>5. QED
  BY <1>1, <1>3, <1>4 DEF SeenInv

LEMMA BeginSees ==
  ASSUME Parts, Begin
  PROVE  SeenInv'
<1>1. /\ snap' = [p \in Paths |-> file[p].sig] /\ seen' = snap' /\ file' = file
      /\ phase' = "sleep" /\ work' = {}
  BY DEF Begin, Signatures, Parts, BatchTyped, Starting
<1>2. \A p \in Paths : snap'[p] = file'[p].sig /\ seen'[p] = file'[p].sig
  BY <1>1
<1>3. QED
  BY <1>1, <1>2 DEF SeenInv, ChangesSeen, InHand

LEMMA PollSees ==
  ASSUME Parts, SeenInv, Poll
  PROVE  SeenInv'
<1>1. /\ snap' = [p \in Paths |-> file[p].sig] /\ seen' = seen /\ file' = file
      /\ phase = "sleep" /\ phase' = "scan" /\ work = {}
      /\ work' = {p \in Paths : Here(p) /\ snap[p] # file[p].sig}
  BY DEF Poll, Signatures, Changed, history, Parts, BatchTyped, Starting
<1>2. \A p \in Paths : snap'[p] = file[p].sig
  BY <1>1
<1>3. Watching
  BY <1>1 DEF Watching, Starting
<1>4. ChangesSeen'
  BY <1>1, <1>2, <1>3 DEF SeenInv, ChangesSeen, Here
<1>5. ASSUME NEW r \in Paths, Here(r)', snap'[r] # file'[r].sig \/ r \in work'
      PROVE  Fresh(r)'
  <2>1. Fresh(r)
    BY <1>1, <1>2, <1>3, <1>5 DEF SeenInv, Here
  <2>2. \A q \in Above(r) : q \in Paths /\ file[q].sig # file[r].sig
    BY <2>1 DEF Fresh, Above
  <2>3. QED
    BY <1>1, <1>2, <2>2 DEF Fresh, Above
<1>6. QED
  BY <1>1, <1>4, <1>5 DEF SeenInv, InHand

LEMMA ScanSees ==
  ASSUME Parts, SeenInv, NEW p \in Paths, Scan(p)
  PROVE  SeenInv'
<1>1. /\ phase = "scan" /\ p \in work /\ file' = file /\ snap' = snap
      /\ seen' = [seen EXCEPT ![p] = file[p].sig] /\ seen \in [Paths -> 0..clock]
      /\ Watching
  BY DEF Scan, Parts, FilesTyped, Watching, Starting
<1>2. seen'[p] = file[p].sig /\ \A q \in Paths \ {p} : seen'[q] = seen[q]
  BY <1>1
<1>3. work' \subseteq work /\ work \ {p} \subseteq work'
  BY DEF Scan, Done
<1>4. ChangesSeen'
  <2>1. \A q \in Paths \ work' : Here(q) /\ snap[q] = file[q].sig => seen'[q] = file[q].sig
    BY <1>1, <1>2, <1>3 DEF SeenInv, ChangesSeen
  <2>2. QED
    BY <1>1, <2>1 DEF ChangesSeen, Here
<1>5. InHand' => cur'.path = p
  BY DEF Scan, Done, InHand
<1>6. ASSUME NEW r \in Paths, Here(r)', snap'[r] # file'[r].sig \/ r \in work'
      PROVE  Fresh(r)'
  <2>1. Fresh(r)
    BY <1>1, <1>3, <1>6 DEF SeenInv, Here
  <2>2. QED
    BY <1>1, <2>1 DEF Fresh, Above
<1>7. QED
  BY <1>1, <1>2, <1>4, <1>5, <1>6 DEF SeenInv

LEMMA CopySees ==
  ASSUME Parts, SeenInv, Copy
  PROVE  SeenInv'
<1> DEFINE p == cur.path
           b == Backup(p)
<1>1. /\ phase = "copy" /\ phase' = "replace" /\ cur' = cur /\ Here(p) /\ p[2] < MaxSuffixes
      /\ snap' = snap /\ seen' = seen /\ work' = work /\ file' = [file EXCEPT ![b] = file[p]]
  BY DEF Copy, history
<1>2. p \in Paths /\ p \in work /\ Watching /\ file \in [Paths -> Texts]
  BY <1>1 DEF Parts, HandTyped, BatchTyped, FilesTyped, InHand, Watching, Starting
<1>3. b \in Paths /\ b \in Above(p) /\ b # p /\ Above(p) = {b} \cup Above(b)
  BY <1>1, <1>2, PathsApart
<1>4. file'[b] = file[p] /\ \A q \in Paths \ {b} : file'[q] = file[q]
  BY <1>1, <1>3, <1>2
<1>5. Fresh(p)
  BY <1>1, <1>2 DEF SeenInv
<1>6. ChangesSeen'
  <2>1. snap[b] # file[p].sig
    BY <1>3, <1>5 DEF Fresh
  <2>2. QED
    BY <1>1, <1>2, <1>3, <1>4, <2>1 DEF SeenInv, ChangesSeen, Here
<1>7. Here(p)' /\ snap'[p] = file'[p].sig => seen'[p] = file'[p].sig
  BY <1>1, <1>2, <1>3, <1>4 DEF SeenInv, InHand, Here
<1>8. ASSUME NEW r \in Paths, r # p, Here(r)', snap'[r] # file'[r].sig \/ r \in work'
      PROVE  Fresh(r)'
  <2>1. Above(r)' = Above(r) /\ Above(r) \subseteq Paths
    BY DEF Above
  <2>2. ASSUME r = b, NEW q \in Above(r)
        PROVE  snap[q] # file'[r].sig /\ file'[q].sig # file'[r].sig
    <3>1. q \in Above(p) /\ q \in Paths /\ q # b
      BY <1>3, <2>1, <2>2, PathsApart
    <3>2. QED
      BY <1>4, <1>5, <2>2, <3>1 DEF Fresh
  <2>3. ASSUME r # b, NEW q \in Above(r)
        PROVE  snap[q] # file'[r].sig /\ file'[q].sig # file'[r].sig
    <3>1. file'[r] = file[r] /\ Here(r) /\ Fresh(r)
      BY <1>1, <1>2, <1>4, <1>8, <2>3 DEF SeenInv, Here
    <3>2. snap[q] # file[r].sig /\ file[q].sig # file[r].sig
      BY <2>3, <3>1 DEF Fresh
    <3>3. CASE q # b
      BY <1>4, <2>1, <2>3, <3>1, <3>2, <3>3
    <3>4. CASE q = b
      <4>1. p \in Above(r)
        <5>1. r[1] = b[1] /\ b[2] > r[2] /\ r[2] \in Nat /\ p[2] \in Nat
          BY <1>2, <2>3, <3>4, PathsApart, FilesAssumption DEF Above
        <5>2. b[1] = p[1] /\ b[2] = p[2] + 1
          BY <1>1, <1>2, PathsApart
        <5>3. r[2] # p[2]
          <6>1. r = <<r[1], r[2]>> /\ p = <<p[1], p[2]>>
            BY <1>2, PathsApart
          <6>2. QED
            BY <1>8, <5>1, <5>2, <6>1
        <5>4. r[1] = p[1] /\ p[2] > r[2]
          BY <5>1, <5>2, <5>3
        <5> HIDE DEF p
        <5>5. QED
          BY <1>2, <5>4 DEF Above
      <4>2. file[p].sig # file[r].sig
        BY <3>1, <4>1 DEF Fresh
      <4>3. QED
        BY <1>4, <3>1, <3>2, <3>4, <4>2
    <3>5. QED
      BY <3>3, <3>4
  <2>4. QED
    BY <1>1, <2>1, <2>2, <2>3 DEF Fresh
<1>9. QED
  BY <1>1, <1>6, <1>7, <1>8 DEF SeenInv

LEMMA UserSees ==
  ASSUME Parts, SeenInv, NEW f \in Files,
         Delete(f) \/ \E labels \in Writable : Edit(f, labels)
  PROVE  SeenInv'
<1> DEFINE p == <<f, 0>>
<1>1. /\ p \in Paths /\ snap' = snap /\ seen' = seen /\ work' = work /\ phase' = phase /\ cur' = cur
  BY FilesAssumption DEF Paths, Delete, Edit, agent
<1>2. file \in [Paths -> Texts] /\ clock \in Nat /\ snap[p] \in 0..clock
  BY <1>1 DEF Parts, FilesTyped, CountsTyped
<1>3. /\ \A q \in Paths \ {p} : file'[q] = file[q]
      /\ file'[p] = Absent \/ file'[p].sig = clock + 1
  <2>1. CASE Delete(f)
    BY <1>1, <1>2, <2>1 DEF Delete
  <2>2. ASSUME NEW labels \in Writable, Edit(f, labels)
        PROVE  /\ \A q \in Paths \ {p} : file'[q] = file[q]
               /\ file'[p] = Absent \/ file'[p].sig = clock + 1
    <3>1. file' = [file EXCEPT ![p] = [text |-> clock + 1, labels |-> labels, sig |-> clock + 1]]
      BY <2>2 DEF Edit, Put
    <3>2. file'[p] = [text |-> clock + 1, labels |-> labels, sig |-> clock + 1]
      BY <1>1, <1>2, <3>1
    <3>3. QED
      BY <1>1, <1>2, <3>1, <3>2
  <2>3. QED
    BY <2>1, <2>2
<1> HIDE DEF p
<1>4. (Watching' <=> Watching) /\ (InHand' <=> InHand)
  BY <1>1 DEF Watching, Starting, InHand
<1>5. Here(p)' => snap'[p] # file'[p].sig
  BY <1>1, <1>2, <1>3 DEF Here
<1>6. ChangesSeen'
  <2>1. ASSUME Watching, NEW q \in Paths \ work', Here(q)', snap'[q] = file'[q].sig
        PROVE  seen'[q] = file'[q].sig
    <3>1. q # p /\ file'[q] = file[q]
      BY <1>3, <1>5, <2>1
    <3>2. QED
      BY <1>1, <2>1, <3>1 DEF SeenInv, ChangesSeen, Here
  <2>2. QED
    BY <1>4, <2>1 DEF ChangesSeen
<1>7. ASSUME InHand, file'[cur.path] # Absent, snap'[cur.path] = file'[cur.path].sig
      PROVE  seen'[cur.path] = file'[cur.path].sig
  <2>1. cur.path \in Paths
    BY <1>7 DEF Parts, HandTyped, BatchTyped
  <2>2. cur.path # p /\ file'[cur.path] = file[cur.path]
    BY <1>3, <1>5, <1>7, <2>1 DEF Here
  <2>3. QED
    BY <1>1, <1>7, <2>2 DEF SeenInv, Here
<1>8. ASSUME Watching, NEW r \in Paths, Here(r)', snap'[r] # file'[r].sig \/ r \in work'
      PROVE  Fresh(r)' \/ (phase = "replace" /\ cur.path = r)
  <2>1. CASE phase = "replace" /\ cur.path = r
    BY <2>1
  <2>2. CASE ~(phase = "replace" /\ cur.path = r)
    <3>1. work' \subseteq work
      BY <1>1
    <3>2. QED
      BY <1>1, <1>3, <1>8, <2>2, <3>1, FreshWrites
  <2>3. QED
    BY <2>1, <2>2
<1>9. QED
  BY <1>1, <1>4, <1>6, <1>7, <1>8 DEF SeenInv, Here

LEMMA NextSees ==
  ASSUME Parts, SeenInv, [WatchNext]_watchVars
  PROVE  SeenInv'
<1>1. CASE Download \/ Save \/ FallBack
  <2>1. ~Watching' /\ ~InHand'
    BY <1>1 DEF Download, Save, FallBack, Watching, Starting, InHand
  <2>2. QED
    BY <2>1, UnseenRests
<1>2. CASE LoseAnswer \/ Fail \/ Crash \/ Restart
  <2>1. ~Watching' /\ ~InHand'
    BY <1>2 DEF LoseAnswer, Fail, Crash, Restart, Die, Watching, Starting, InHand
  <2>2. QED
    BY <2>1, UnseenRests
<1>3. CASE Begin \/ Poll \/ (\E p \in Paths : Scan(p)) \/ Copy
  BY <1>3, BeginSees, PollSees, ScanSees, CopySees
<1>4. CASE Report
  <2>1. /\ UNCHANGED <<file, snap, seen, work>> /\ phase = "report"
        /\ phase' \in {"sleep", "report"}
    BY <1>4 DEF Report
  <2>2. /\ Watching' => Watching
        /\ InHand' => InHand /\ cur'.path = cur.path
        /\ phase = "replace" => phase' = "replace" /\ cur'.path = cur.path
    BY <2>1 DEF Watching, Starting, InHand
  <2>3. QED
    BY <2>1, <2>2, SeenRests
<1>5. CASE Decide
  <2>1. phase = "enforce" /\ UNCHANGED <<file, snap, seen>> /\ InHand
    BY <1>5 DEF Decide, history, InHand
  <2>2. CASE Verdict(cur.path) \in {"redact", "block"}
    <3>1. UNCHANGED work /\ phase' \in {"move", "copy"} /\ cur'.path = cur.path
      <4>1. cur = [path |-> cur.path, text |-> cur.text, event |-> cur.event]
        BY <2>1 DEF Parts, HandTyped
      <4>2. QED
        BY <1>5, <2>2, <4>1 DEF Decide
    <3>2. /\ Watching' => Watching
          /\ InHand' => InHand /\ cur'.path = cur.path
          /\ phase = "replace" => phase' = "replace" /\ cur'.path = cur.path
      BY <2>1, <3>1 DEF Watching, Starting, InHand
    <3>3. QED
      BY <2>1, <3>1, <3>2, SeenRests
  <2>3. CASE Verdict(cur.path) \notin {"redact", "block"}
    <3>1. phase' \in {"scan", "sleep", "report"} /\ work' = work \ {cur.path}
      BY <1>5, <2>3 DEF Decide, Done
    <3>2. QED
      BY <2>1, <3>1, DoneSees
  <2>4. QED
    BY <2>2, <2>3
<1>6. CASE Quarantine \/ Replace
  <2>1. /\ InHand /\ phase' \in {"scan", "sleep", "report"} /\ work' = work \ {cur.path}
        /\ snap' = snap /\ seen' = seen
    BY <1>6 DEF Quarantine, Replace, Enforced, Done, InHand
  <2>2. cur.path \in Paths /\ file \in [Paths -> Texts]
    BY <2>1 DEF Parts, HandTyped, BatchTyped, FilesTyped
  <2>3. /\ \A q \in Paths \ {cur.path} : file'[q] = file[q]
        /\ file'[cur.path] = Absent \/ file'[cur.path].sig = clock + 1
    BY <1>6, <2>2 DEF Quarantine, Replace, Put
  <2>4. QED
    BY <2>1, <2>3, DoneSees
<1>7. ASSUME NEW f \in Files, Delete(f) \/ \E labels \in Writable : Edit(f, labels)
      PROVE  SeenInv'
  BY <1>7, UserSees
<1>8. CASE Publish \/ UNCHANGED watchVars
  <2>1. UNCHANGED <<file, snap, seen, work, phase, cur>>
    BY <1>8 DEF Publish, watchVars, agent, history
  <2>2. /\ Watching' => Watching
        /\ InHand' => InHand /\ cur'.path = cur.path
        /\ phase = "replace" => phase' = "replace" /\ cur'.path = cur.path
    BY <2>1 DEF Watching, Starting, InHand
  <2>3. QED
    BY <2>1, <2>2, SeenRests
<1>9. QED
  BY <1>1, <1>2, <1>3, <1>4, <1>5, <1>6, <1>7, <1>8 DEF WatchNext, Watch

-----------------------------------------------------------------------------
(* Originals are kept.                                                      *)

LEMMA InitKeeps == WatchInit => KeptInv
BY DEF WatchInit, KeptInv, Layered, Redacted, Here

LEMMA Numbers ==
  ASSUME Parts
  PROVE  /\ clock \in Nat /\ quarantine \subseteq 1..clock
         /\ \A p \in Paths :
              /\ file[p].text \in 0..clock /\ file[p].sig \in 0..clock /\ original[p] \in 0..clock
              /\ Here(p) => file[p].text # 0
              /\ file[p].labels # {} => Here(p)
              /\ ~Here(p) => file[p] = Absent
              /\ p[2] = 0 => \A q \in Paths : p \notin Above(q)
BY PathsApart, FilesAssumption DEF Parts, CountsTyped, FilesTyped, Texts, Here, Absent, Above

\* A step that leaves the files alone, and what is in hand to be redacted.
LEMMA KeptRests ==
  ASSUME KeptInv, UNCHANGED <<file, quarantine, original, raced>>,
         phase' \in {"copy", "replace"} =>
             phase' = phase /\ cur'.path = cur.path /\ cur'.text = cur.text
  PROVE  KeptInv'
<1>1. \A p \in Paths : Redacted(p)' => KeptAbove(p)'
  <2>1. \A p \in Paths : Redacted(p) => KeptAbove(p)
    BY DEF KeptInv
  <2>2. \A p \in Paths : (Redacted(p)' <=> Redacted(p)) /\ (KeptAbove(p)' <=> KeptAbove(p))
    BY DEF Redacted, KeptAbove, Here, Above
  <2>3. QED
    BY <2>1, <2>2
<1>2. Layered'
  BY DEF KeptInv, Layered, Here, Above
<1>3. CASE phase' \notin {"copy", "replace"}
  BY <1>1, <1>2, <1>3 DEF KeptInv
<1>4. CASE phase' \in {"copy", "replace"}
  <2>1. phase' = phase /\ cur'.path = cur.path /\ cur'.text = cur.text
    BY <1>4
  <2>2. cur'.path \notin raced' /\ phase' \in {"copy", "replace"} =>
          file'[cur'.path].text = cur'.text /\ file'[cur'.path].labels # {}
    BY <2>1 DEF KeptInv
  <2>3. phase' = "copy" /\ file'[cur'.path] # Absent =>
          \A q \in Above(cur.path) :
            /\ Here(q) => file[cur.path].text >= file[q].text
            /\ file[cur.path].labels = {} => file[cur.path].text > original[q]
    BY <2>1 DEF KeptInv, Here
  <2>4. /\ phase' = "replace" => cur'.path[2] < MaxSuffixes
        /\ phase' = "replace" /\ cur'.path \notin raced' =>
             file[Backup(cur.path)].text = cur.text /\ file[Backup(cur.path)].labels # {}
    BY <2>1 DEF KeptInv
  <2>5. QED
    BY <1>1, <1>2, <2>1, <2>2, <2>3, <2>4 DEF KeptInv, Here, Above, Backup
<1>5. QED
  BY <1>3, <1>4

LEMMA DecideKeeps ==
  ASSUME Parts, KeptInv, Decide
  PROVE  KeptInv'
<1> DEFINE p == cur.path
<1>1. /\ UNCHANGED <<file, quarantine, original, raced>> /\ phase = "enforce"
      /\ cur = [path |-> cur.path, text |-> cur.text, event |-> cur.event] /\ p \in Paths
  BY DEF Decide, history, Parts, HandTyped, BatchTyped, InHand
<1>2. CASE phase' # "copy"
  <2>1. phase' # "replace"
    BY DEF Decide, Done
  <2>2. QED
    BY <1>1, <1>2, <2>1, KeptRests
<1>3. CASE phase' = "copy"
  <2>1. Verdict(p) \in {"redact", "block"} /\ cur' = [cur EXCEPT !.text = file[p].text]
    BY <1>3 DEF Decide, Done
  <2>2. cur'.path = p /\ cur'.text = file[p].text /\ file[p].labels # {}
    BY <1>1, <2>1 DEF Verdict
  <2>3. \A r \in Paths : Redacted(r)' => KeptAbove(r)'
    <3>1. \A r \in Paths : Redacted(r) => KeptAbove(r)
      BY DEF KeptInv
    <3>2. \A r \in Paths : (Redacted(r)' <=> Redacted(r)) /\ (KeptAbove(r)' <=> KeptAbove(r))
      BY <1>1 DEF Redacted, KeptAbove, Here, Above
    <3>3. QED
      BY <3>1, <3>2
  <2>4. Layered'
    BY <1>1 DEF KeptInv, Layered, Here, Above
  <2>5. Here(p) => \A q \in Above(p) : Here(q) => file[p].text >= file[q].text
    BY <1>1, <2>2 DEF KeptInv, Layered
  <2>6. QED
    BY <1>1, <1>3, <2>2, <2>3, <2>4, <2>5 DEF KeptInv, Here, Above
<1>4. QED
  BY <1>2, <1>3

LEMMA QuarantineKeeps ==
  ASSUME Parts, KeptInv, Quarantine
  PROVE  KeptInv'
<1> DEFINE p == cur.path
<1>1. /\ p \in Paths /\ file \in [Paths -> Texts] /\ UNCHANGED <<original, raced>>
      /\ quarantine' = quarantine \union {file[p].text} /\ file' = [file EXCEPT ![p] = Absent]
      /\ phase' \notin {"copy", "replace"}
  BY DEF Quarantine, Enforced, Done, Parts, HandTyped, BatchTyped, FilesTyped, InHand
<1>2. file'[p] = Absent /\ \A q \in Paths \ {p} : file'[q] = file[q]
  BY <1>1
<1>3. ASSUME NEW r \in Paths, Redacted(r)' PROVE KeptAbove(r)'
  <2>1. r # p /\ file'[r] = file[r] /\ Redacted(r)
    BY <1>1, <1>2, <1>3 DEF Redacted, Here
  <2>2. KeptAbove(r)
    BY <2>1 DEF KeptInv
  <2>3. CASE file[r].text \in quarantine
    BY <1>1, <2>1, <2>3 DEF KeptAbove
  <2>4. ASSUME NEW q \in Above(r), file[q].text = file[r].text, file[q].labels # {}
        PROVE  KeptAbove(r)'
    <3>1. CASE q = p
      BY <1>1, <2>1, <2>4, <3>1 DEF KeptAbove
    <3>2. CASE q # p
      <4>1. file'[q] = file[q] /\ Above(r)' = Above(r)
        BY <1>2, <2>4, <3>2 DEF Above
      <4>2. QED
        BY <2>1, <2>4, <4>1 DEF KeptAbove
    <3>3. QED
      BY <3>1, <3>2
  <2>5. QED
    BY <2>2, <2>3, <2>4 DEF KeptAbove
<1>4. Layered'
  <2>1. \A r \in Paths : Above(r)' = Above(r) /\ Above(r) \subseteq Paths
    BY DEF Above
  <2>2. \A r \in Paths : Here(r)' => file'[r] = file[r] /\ Here(r)
    BY <1>2 DEF Here
  <2>3. QED
    BY <1>1, <2>1, <2>2 DEF KeptInv, Layered
<1>5. QED
  BY <1>1, <1>3, <1>4 DEF KeptInv

LEMMA BelowBackup ==
  ASSUME NEW p \in Paths, p[2] < MaxSuffixes, NEW r \in Paths, r # p, Backup(p) \in Above(r)
  PROVE  p \in Above(r)
<1>1. /\ r[1] = Backup(p)[1] /\ Backup(p)[2] > r[2] /\ r[2] \in Nat /\ p[2] \in Nat
      /\ r = <<r[1], r[2]>> /\ p = <<p[1], p[2]>>
  BY PathsApart, FilesAssumption DEF Above
<1>2. Backup(p)[1] = p[1] /\ Backup(p)[2] = p[2] + 1
  BY PathsApart
<1>3. r[2] # p[2]
  BY <1>1, <1>2
<1>4. QED
  BY <1>1, <1>2, <1>3 DEF Above

LEMMA AboveIsApart ==
  ASSUME NEW r \in Paths, NEW p \in Above(r)
  PROVE  p \in Paths /\ p # r /\ p[2] # 0 /\ Above(p) \subseteq Above(r)
<1>1. p \in Paths /\ p[1] = r[1] /\ p[2] > r[2] /\ r[2] \in Nat /\ p[2] \in Nat
  BY PathsApart, FilesAssumption DEF Above
<1>2. ASSUME NEW q \in Above(p) PROVE q \in Above(r)
  <2>1. q \in Paths /\ q[1] = p[1] /\ q[2] > p[2] /\ q[2] \in Nat
    BY <1>1, PathsApart, FilesAssumption DEF Above
  <2>2. QED
    BY <1>1, <2>1 DEF Above
<1>3. QED
  BY <1>1, <1>2

LEMMA CopyKeeps ==
  ASSUME Parts, KeptInv, Copy
  PROVE  KeptInv'
<1> DEFINE p == cur.path
           b == Backup(p)
<1>1. /\ phase = "copy" /\ phase' = "replace" /\ cur' = cur /\ Here(p) /\ p[2] < MaxSuffixes
      /\ UNCHANGED <<quarantine, original, raced>> /\ file' = [file EXCEPT ![b] = file[p]]
  BY DEF Copy, history
<1>2. p \in Paths /\ file \in [Paths -> Texts] /\ raced \subseteq {q \in Paths : q[2] = 0}
  BY <1>1 DEF Parts, HandTyped, BatchTyped, FilesTyped, HistoryTyped, InHand
<1>3. b \in Paths /\ b \in Above(p) /\ b # p /\ Above(p) = {b} \cup Above(b)
  BY <1>1, <1>2, PathsApart
<1>4. file'[b] = file[p] /\ \A q \in Paths \ {b} : file'[q] = file[q]
  BY <1>1, <1>3, <1>2
<1>5. \A r \in Paths : Above(r)' = Above(r) /\ Above(r) \subseteq Paths
  BY DEF Above
<1>6. /\ p \notin raced => file[p].text = cur.text /\ file[p].labels # {}
      /\ \A q \in Above(p) :
           /\ Here(q) => file[p].text >= file[q].text
           /\ file[p].labels = {} => file[p].text > original[q]
  BY <1>1 DEF KeptInv
<1>7. \A q \in Paths : file[q].text \in 0..clock /\ original[q] \in 0..clock /\ clock \in Nat
  BY Numbers
<1>8. ASSUME NEW r \in Paths, Redacted(r)' PROVE KeptAbove(r)'
  <2>1. r # b
    <3>1. ASSUME r = b PROVE FALSE
      <4>1. file[p].labels = {} /\ file[p].text = original[b]
        BY <1>1, <1>4, <1>8, <3>1 DEF Redacted
      <4>2. file[p].text > original[b]
        BY <1>3, <1>6, <4>1
      <4>3. QED
        BY <1>2, <1>3, <1>7, <4>1, <4>2
    <3>2. QED
      BY <3>1
  <2>2. file'[r] = file[r] /\ Redacted(r)
    BY <1>1, <1>4, <1>8, <2>1 DEF Redacted, Here
  <2>3. r # p
    BY <1>6, <2>2 DEF Redacted
  <2>4. KeptAbove(r)
    BY <2>2 DEF KeptInv
  <2>5. CASE file[r].text \in quarantine
    BY <1>1, <2>2, <2>5 DEF KeptAbove
  <2>6. ASSUME NEW q \in Above(r), file[q].text = file[r].text, file[q].labels # {}
        PROVE  KeptAbove(r)'
    <3>1. CASE q # b
      BY <1>4, <1>5, <2>2, <2>6, <3>1 DEF KeptAbove
    <3>2. CASE q = b
      <4>1. p \in Above(r)
        BY <1>1, <1>2, <2>3, <2>6, <3>2, BelowBackup
      <4>2. p \notin raced
        BY <1>2, <4>1, AboveIsApart
      <4>3. file[p].labels # {}
        BY <1>6, <4>2
      <4>4. file[r].text >= file[p].text
        BY <1>1, <2>2, <4>1 DEF KeptInv, Layered, Redacted
      <4>5. file[p].text >= file[b].text
        <5>1. Here(b)
          BY <1>3, <2>6, <3>2, Numbers
        <5>2. QED
          BY <1>3, <1>6, <5>1
      <4>6. file[p].text = file[r].text
        BY <1>2, <1>3, <1>7, <2>6, <3>2, <4>4, <4>5
      <4>7. b \in Above(r)' /\ file'[b].text = file'[r].text /\ file'[b].labels # {}
        BY <1>4, <1>5, <2>2, <2>6, <3>2, <4>3, <4>6
      <4>8. QED
        BY <4>7 DEF KeptAbove
    <3>3. QED
      BY <3>1, <3>2
  <2>7. QED
    BY <2>4, <2>5, <2>6 DEF KeptAbove
<1>9. ASSUME NEW r \in Paths, NEW q \in Above(r), Here(r)', Here(q)'
      PROVE  file'[r].text >= file'[q].text \/ (r \in raced' /\ file'[r].labels = {})
  <2>1. q \in Paths /\ q # r
    BY AboveIsApart
  <2>2. CASE q = b /\ r = p
    BY <1>2, <1>3, <1>4, <1>7, <2>2
  <2>3. CASE q = b /\ r # p
    <3>1. p \in Above(r) /\ file'[r] = file[r] /\ Here(r)
      BY <1>1, <1>2, <1>4, <1>9, <2>1, <2>3, BelowBackup DEF Here
    <3>2. file[r].text >= file[p].text \/ (r \in raced /\ file[r].labels = {})
      BY <1>1, <3>1 DEF KeptInv, Layered
    <3>3. QED
      BY <1>1, <1>4, <2>3, <3>1, <3>2
  <2>4. CASE r = b
    <3>1. q \in Above(p) /\ file'[q] = file[q] /\ Here(q)
      BY <1>3, <1>4, <1>9, <2>1, <2>4 DEF Here
    <3>2. QED
      BY <1>4, <1>6, <2>4, <3>1
  <2>5. CASE r # b /\ q # b
    <3>1. file'[q] = file[q] /\ Here(q) /\ file'[r] = file[r] /\ Here(r)
      BY <1>4, <1>9, <2>1, <2>5 DEF Here
    <3>2. QED
      BY <1>1, <3>1 DEF KeptInv, Layered
  <2>6. QED
    BY <2>2, <2>3, <2>4, <2>5
<1>10. Layered'
  BY <1>5, <1>9 DEF Layered
<1>11. /\ p \notin raced => file'[p].text = cur.text /\ file'[p].labels # {}
       /\ p \notin raced => file'[b].text = cur.text /\ file'[b].labels # {}
  BY <1>2, <1>3, <1>4, <1>6
<1>12. QED
  BY <1>1, <1>8, <1>10, <1>11 DEF KeptInv, Backup

LEMMA ReplaceKeeps ==
  ASSUME Parts, KeptInv, Replace
  PROVE  KeptInv'
<1> DEFINE p == cur.path
           b == Backup(p)
<1>1. /\ phase = "replace" /\ phase' \notin {"copy", "replace"} /\ p[2] < MaxSuffixes
      /\ UNCHANGED <<quarantine, raced>> /\ original' = [original EXCEPT ![p] = cur.text]
      /\ file' = [file EXCEPT ![p] = [text |-> cur.text, labels |-> {}, sig |-> clock + 1]]
  BY DEF Replace, Put, Enforced, Done, KeptInv
<1>2. /\ p \in Paths /\ file \in [Paths -> Texts] /\ raced \subseteq {q \in Paths : q[2] = 0}
      /\ original \in [Paths -> 0..clock]
  BY <1>1 DEF Parts, HandTyped, BatchTyped, FilesTyped, HistoryTyped, InHand
<1>3. b \in Paths /\ b \in Above(p) /\ b # p
  BY <1>1, <1>2, PathsApart
<1>4. /\ file'[p] = [text |-> cur.text, labels |-> {}, sig |-> clock + 1]
      /\ \A q \in Paths \ {p} : file'[q] = file[q] /\ original'[q] = original[q]
  BY <1>1, <1>2
<1>5. \A r \in Paths : Above(r)' = Above(r) /\ Above(r) \subseteq Paths
  BY DEF Above
<1>6. p \notin raced =>
        /\ file[p].text = cur.text /\ file[p].labels # {}
        /\ file[b].text = cur.text /\ file[b].labels # {}
  BY <1>1 DEF KeptInv
<1>7. ASSUME NEW r \in Paths, Redacted(r)' PROVE KeptAbove(r)'
  <2>1. CASE r = p
    <3>1. b \in Above(r)' /\ file'[b].text = file'[r].text /\ file'[b].labels # {}
      BY <1>1, <1>3, <1>4, <1>5, <1>6, <1>7, <2>1 DEF Redacted
    <3>2. QED
      BY <3>1 DEF KeptAbove
  <2>2. CASE r # p
    <3>1. file'[r] = file[r] /\ Redacted(r)
      BY <1>1, <1>4, <1>7, <2>2 DEF Redacted, Here
    <3>2. KeptAbove(r)
      BY <3>1 DEF KeptInv
    <3>3. CASE file[r].text \in quarantine
      BY <1>1, <3>1, <3>3 DEF KeptAbove
    <3>4. ASSUME NEW q \in Above(r), file[q].text = file[r].text, file[q].labels # {}
          PROVE  KeptAbove(r)'
      <4>1. CASE q # p
        BY <1>4, <1>5, <3>1, <3>4, <4>1 DEF KeptAbove
      <4>2. CASE q = p
        <5>1. p \notin raced /\ b \in Above(r)
          BY <1>2, <1>3, <3>4, <4>2, AboveIsApart
        <5>2. b \in Above(r)' /\ file'[b].text = file'[r].text /\ file'[b].labels # {}
          BY <1>3, <1>4, <1>5, <1>6, <3>1, <3>4, <4>2, <5>1
        <5>3. QED
          BY <5>2 DEF KeptAbove
      <4>3. QED
        BY <4>1, <4>2
    <3>5. QED
      BY <3>2, <3>3, <3>4 DEF KeptAbove
  <2>3. QED
    BY <2>1, <2>2
<1>8. ASSUME NEW r \in Paths, NEW q \in Above(r), Here(r)', Here(q)'
      PROVE  file'[r].text >= file'[q].text \/ (r \in raced' /\ file'[r].labels = {})
  <2>1. q \in Paths /\ q # r
    BY AboveIsApart
  <2>2. CASE r = p /\ p \in raced
    BY <1>1, <1>4, <2>2
  <2>3. CASE r = p /\ p \notin raced
    <3>1. file'[q] = file[q] /\ Here(q) /\ Here(p)
      BY <1>2, <1>4, <1>6, <1>8, <2>1, <2>3, Numbers DEF Here
    <3>2. file[p].text >= file[q].text
      BY <1>2, <1>8, <2>3, <3>1 DEF KeptInv, Layered
    <3>3. QED
      BY <1>4, <1>6, <2>3, <3>1, <3>2
  <2>4. CASE q = p
    <3>1. p \notin raced /\ file'[r] = file[r] /\ Here(r)
      BY <1>2, <1>4, <1>8, <2>1, <2>4, AboveIsApart DEF Here
    <3>2. Here(p) /\ file'[p].text = file[p].text
      BY <1>2, <1>4, <1>6, <3>1, Numbers
    <3>3. QED
      BY <1>1, <1>8, <2>4, <3>1, <3>2 DEF KeptInv, Layered
  <2>5. CASE r # p /\ q # p
    <3>1. file'[q] = file[q] /\ Here(q) /\ file'[r] = file[r] /\ Here(r)
      BY <1>4, <1>8, <2>1, <2>5 DEF Here
    <3>2. QED
      BY <1>1, <1>8, <3>1 DEF KeptInv, Layered
  <2>6. QED
    BY <2>2, <2>3, <2>4, <2>5
<1>9. Layered'
  BY <1>5, <1>8 DEF Layered
<1>10. QED
  BY <1>1, <1>7, <1>9 DEF KeptInv

LEMMA UserKeeps ==
  ASSUME Parts, KeptInv, NEW f \in Files,
         Delete(f) \/ \E labels \in Writable : Edit(f, labels)
  PROVE  KeptInv'
<1> DEFINE p == <<f, 0>>
<1>1. /\ p \in Paths /\ p[2] = 0
      /\ UNCHANGED <<quarantine, original, phase, cur>>
      /\ raced' = IF phase \in {"copy", "replace"} /\ cur.path = p THEN raced \union {p} ELSE raced
  BY FilesAssumption DEF Paths, Delete, Edit, agent, Interfere
<1>2. file \in [Paths -> Texts] /\ clock \in Nat
  BY DEF Parts, FilesTyped, CountsTyped
<1>3. /\ \A q \in Paths \ {p} : file'[q] = file[q]
      /\ file'[p] = Absent \/ file'[p].text = clock + 1
  <2>1. CASE Delete(f)
    BY <1>1, <1>2, <2>1 DEF Delete
  <2>2. ASSUME NEW labels \in Writable, Edit(f, labels)
        PROVE  /\ \A q \in Paths \ {p} : file'[q] = file[q]
               /\ file'[p] = Absent \/ file'[p].text = clock + 1
    <3>1. file' = [file EXCEPT ![p] = [text |-> clock + 1, labels |-> labels, sig |-> clock + 1]]
      BY <2>2 DEF Edit, Put
    <3>2. file'[p] = [text |-> clock + 1, labels |-> labels, sig |-> clock + 1]
      BY <1>1, <1>2, <3>1
    <3>3. QED
      BY <1>1, <1>2, <3>1, <3>2
  <2>3. QED
    BY <2>1, <2>2
<1> HIDE DEF p
<1>4. Here(p)' => file'[p].text = clock + 1
  BY <1>3 DEF Here
<1>5. \A r \in Paths : Above(r)' = Above(r) /\ Above(r) \subseteq Paths \ {p}
  <2>1. \A r \in Paths : Above(r)' = Above(r)
    BY DEF Above
  <2>2. QED
    BY <1>1, <2>1, AboveIsApart
<1>6. \A q \in Paths : file[q].text \in 0..clock /\ original[q] \in 0..clock
  BY Numbers
<1>7. raced \subseteq raced' /\ raced' \subseteq raced \union {p}
      /\ (phase \in {"copy", "replace"} /\ cur.path = p => p \in raced')
  BY <1>1
<1>8. ASSUME NEW r \in Paths, Redacted(r)' PROVE KeptAbove(r)'
  <2>1. r # p
    BY <1>1, <1>2, <1>4, <1>6, <1>8 DEF Redacted
  <2>2. file'[r] = file[r] /\ Redacted(r)
    BY <1>1, <1>3, <1>7, <1>8, <2>1 DEF Redacted, Here
  <2>3. KeptAbove(r)
    BY <2>2 DEF KeptInv
  <2>4. \A q \in Above(r) : file'[q] = file[q]
    BY <1>3, <1>5
  <2>5. QED
    BY <1>1, <1>5, <2>2, <2>3, <2>4 DEF KeptAbove
<1>9. ASSUME NEW r \in Paths, NEW q \in Above(r), Here(r)', Here(q)'
      PROVE  file'[r].text >= file'[q].text \/ (r \in raced' /\ file'[r].labels = {})
  <2>1. q \in Paths /\ q # p /\ file'[q] = file[q] /\ Here(q)
    BY <1>3, <1>5, <1>9 DEF Here
  <2>2. CASE r = p
    BY <1>2, <1>4, <1>6, <1>9, <2>1, <2>2
  <2>3. CASE r # p
    <3>1. file'[r] = file[r] /\ Here(r)
      BY <1>3, <1>9, <2>3 DEF Here
    <3>2. QED
      BY <1>7, <1>9, <2>1, <3>1 DEF KeptInv, Layered
  <2>4. QED
    BY <2>2, <2>3
<1>10. Layered'
  BY <1>5, <1>9 DEF Layered
<1>11. phase \in {"copy", "replace"} => cur.path \in Paths
  BY DEF Parts, HandTyped, BatchTyped, InHand
<1>12. phase \in {"copy", "replace"} /\ cur.path \notin raced' =>
         file'[cur.path].text = cur.text /\ file'[cur.path].labels # {}
  BY <1>3, <1>7, <1>11 DEF KeptInv
<1>13. ASSUME phase = "copy", file'[cur.path] # Absent, NEW q \in Above(cur.path)
       PROVE  /\ file'[q] # Absent => file'[cur.path].text >= file'[q].text
              /\ file'[cur.path].labels = {} => file'[cur.path].text > original[q]
  <2>1. q \in Paths /\ file'[q] = file[q]
    BY <1>3, <1>5, <1>11, <1>13
  <2>2. CASE cur.path = p
    <3>1. file'[cur.path].text = clock + 1
      BY <1>3, <1>13, <2>2
    <3>2. QED
      BY <1>2, <1>6, <2>1, <3>1
  <2>3. CASE cur.path # p
    <3>1. file'[cur.path] = file[cur.path] /\ Here(cur.path)
      BY <1>3, <1>11, <1>13, <2>3 DEF Here
    <3>2. QED
      BY <1>13, <2>1, <3>1 DEF KeptInv, Here
  <2>4. QED
    BY <2>2, <2>3
<1>14. phase = "replace" =>
         /\ cur.path[2] < MaxSuffixes
         /\ cur.path \notin raced' =>
              file'[Backup(cur.path)].text = cur.text /\ file'[Backup(cur.path)].labels # {}
  <2>1. SUFFICES ASSUME phase = "replace"
                 PROVE  /\ cur.path[2] < MaxSuffixes
                        /\ cur.path \notin raced' =>
                             /\ file'[Backup(cur.path)].text = cur.text
                             /\ file'[Backup(cur.path)].labels # {}
    OBVIOUS
  <2>2. cur.path[2] < MaxSuffixes
    BY <2>1 DEF KeptInv
  <2>3. Backup(cur.path) \in Above(cur.path)
    BY <1>11, <2>1, <2>2, PathsApart
  <2>4. file'[Backup(cur.path)] = file[Backup(cur.path)]
    BY <1>3, <1>5, <1>11, <2>1, <2>3
  <2>5. QED
    BY <1>7, <2>1, <2>2, <2>4 DEF KeptInv
<1>15. QED
  BY <1>1, <1>8, <1>10, <1>12, <1>13, <1>14 DEF KeptInv, Here, Above, Backup

LEMMA NextKeeps ==
  ASSUME Parts, KeptInv, [WatchNext]_watchVars
  PROVE  KeptInv'
<1>1. CASE Download \/ Save \/ FallBack \/ Begin \/ Poll \/ Report \/ \E p \in Paths : Scan(p)
  <2>1. UNCHANGED <<file, quarantine, original, raced>> /\ phase' \notin {"copy", "replace"}
    BY <1>1 DEF Download, Save, FallBack, Begin, Poll, Report, Scan, Done, history
  <2>2. QED
    BY <2>1, KeptRests
<1>2. CASE LoseAnswer \/ Fail \/ Crash \/ Restart
  <2>1. UNCHANGED <<file, quarantine, original, raced>> /\ phase' \notin {"copy", "replace"}
    BY <1>2 DEF LoseAnswer, Fail, Crash, Restart, Die
  <2>2. QED
    BY <2>1, KeptRests
<1>3. CASE Decide \/ Quarantine \/ Copy \/ Replace
  BY <1>3, DecideKeeps, QuarantineKeeps, CopyKeeps, ReplaceKeeps
<1>4. ASSUME NEW f \in Files, Delete(f) \/ \E labels \in Writable : Edit(f, labels)
      PROVE  KeptInv'
  BY <1>4, UserKeeps
<1>5. CASE Publish \/ UNCHANGED watchVars
  <2>1. UNCHANGED <<file, quarantine, original, raced, phase, cur>>
    BY <1>5 DEF Publish, watchVars, agent, history
  <2>2. QED
    BY <2>1, KeptRests
<1>6. QED
  BY <1>1, <1>2, <1>3, <1>4, <1>5 DEF WatchNext, Watch

LEMMA KeptIsKept == KeptInv => OriginalKept
BY DEF KeptInv, OriginalKept, KeptAbove, Kept, Above

-----------------------------------------------------------------------------
(* What the control plane is told.                                          *)

LEMMA InitTells == WatchInit => EventsInv
<1> SUFFICES ASSUME WatchInit PROVE EventsInv
  OBVIOUS
<1>1. events = <<>> /\ Range(events) = {}
  BY DEF WatchInit, Range
<1>2. QED
  BY <1>1 DEF WatchInit, EventsInv, EventsTruthful, Starting, Watching, InHand, Untold

LEMMA RangeOfAppended ==
  ASSUME NEW S, NEW s \in Seq(S), NEW e \in S
  PROVE  Range(s \o <<e>>) = Range(s) \union {e}
<1>1. /\ Len(s) \in Nat /\ DOMAIN s = 1..Len(s)
      /\ DOMAIN (s \o <<e>>) = 1..(Len(s) + 1)
      /\ \A i \in 1..(Len(s) + 1) : (s \o <<e>>)[i] = IF i <= Len(s) THEN s[i] ELSE e
  BY ConcatProperties
<1>2. QED
  BY <1>1 DEF Range

LEMMA RangeOfRest ==
  ASSUME NEW S, NEW s \in Seq(S), s # <<>>
  PROVE  Range(s) = {Head(s)} \union Range(Tail(s))
<1>1. /\ Len(s) \in Nat \ {0} /\ DOMAIN s = 1..Len(s) /\ Head(s) = s[1]
      /\ DOMAIN Tail(s) = 1..(Len(s) - 1)
      /\ \A i \in 1..(Len(s) - 1) : Tail(s)[i] = s[i + 1]
  BY EmptySeq, HeadTailProperties
<1>2. ASSUME NEW i \in 1..Len(s) PROVE s[i] \in {Head(s)} \union Range(Tail(s))
  <2>1. CASE i = 1
    BY <1>1, <2>1
  <2>2. CASE i # 1
    <3>1. i - 1 \in 1..(Len(s) - 1) /\ s[i] = Tail(s)[i - 1]
      BY <1>1, <1>2, <2>2
    <3>2. QED
      BY <1>1, <3>1 DEF Range
  <2>3. QED
    BY <2>1, <2>2
<1>3. \A i \in 1..(Len(s) - 1) : Tail(s)[i] \in Range(s)
  BY <1>1 DEF Range
<1>4. 1 \in 1..Len(s)
  BY <1>1
<1>5. QED
  BY <1>1, <1>2, <1>3, <1>4 DEF Range

\* A step that ends in no file in hand, and tells nothing new.
LEMMA RestTells ==
  ASSUME EventsInv, told' = told, ~InHand', Starting' => Starting,
         \/ (Starting \/ Watching) /\ events' = events
         \/ phase' = "dead" /\ events' = <<>>
  PROVE  EventsInv'
<1>1. Range(<<>>) = {}
  BY DEF Range
<1>2. CASE Starting
  <2>1. told = Untold /\ told.enforced = {} /\ told.reported = {}
    BY <1>2 DEF EventsInv, Untold
  <2>2. events' = events \/ events' = <<>>
    OBVIOUS
  <2>3. \A e \in Range(events)' :
          e.decision \in {"redact", "block"} => e \in told.enforced \/ e.path \in told.shifted
    BY <1>1, <2>2 DEF EventsInv
  <2>4. QED
    BY <2>1, <2>3 DEF EventsInv, EventsTruthful, InHand
<1>3. CASE ~Starting
  <2>1. events' = events \/ events' = <<>>
    OBVIOUS
  <2>2. \A e \in Range(events)' :
          e.decision \in {"redact", "block"} => e \in told.enforced \/ e.path \in told.shifted
    BY <1>1, <2>1 DEF EventsInv
  <2>3. Watching' => Watching /\ events' = events
    BY <1>3 DEF Watching
  <2>4. QED
    BY <1>3, <2>2, <2>3 DEF EventsInv, EventsTruthful, InHand
<1>4. QED
  BY <1>2, <1>3

\* The path in hand is done with: its event joins the batch.
LEMMA DoneTells ==
  ASSUME Parts, EventsInv, InHand, Done(cur.path, <<cur.event>>),
         told'.reported = told.reported, told'.refused = told.refused,
         told'.shifted = told.shifted, told.enforced \subseteq told'.enforced,
         \A e \in told'.enforced \ told.enforced : e = cur.event \/ e.path \in told.shifted,
         cur.event.decision \in {"redact", "block"} =>
             cur.event \in told'.enforced \/ cur.event.path \in told.shifted
  PROVE  EventsInv'
<1>1. events \in Seq(Events) /\ cur.event \in Events /\ events' = events \o <<cur.event>>
  BY DEF Parts, BatchTyped, HandTyped, Done
<1>2. Range(events)' = Range(events) \union {cur.event}
  BY <1>1, RangeOfAppended
<1>3. Watching /\ ~Starting' /\ ~InHand'
  BY DEF InHand, Watching, Starting, Done
<1>4. EventsTruthful'
  BY <1>2, <1>3 DEF EventsInv, EventsTruthful
<1>5. \A e \in Range(events)' :
        e.decision \in {"redact", "block"} => e \in told'.enforced \/ e.path \in told'.shifted
  BY <1>2 DEF EventsInv
<1>6. QED
  BY <1>3, <1>4, <1>5 DEF EventsInv, InHand

LEMMA ScanTells ==
  ASSUME Parts, EventsInv, NEW p \in Paths, Scan(p)
  PROVE  EventsInv'
<1>1. told' = told /\ Watching /\ UNCHANGED <<file, policy>>
  BY DEF Scan, Watching, Starting, rules
<1>2. CASE file[p].labels = {}
  <2>1. events \in Seq(Events) /\ events' = events \o <<>>
    BY <1>2 DEF Scan, Done, Parts, BatchTyped
  <2>2. events' = events
    BY <2>1, ConcatEmptySeq
  <2>3. ~InHand' /\ ~Starting'
    BY <1>2 DEF Scan, Done, InHand, Starting
  <2>4. QED
    BY <1>1, <2>2, <2>3, RestTells
<1>3. CASE file[p].labels # {}
  <2>1. /\ phase' = "enforce" /\ events' = events
        /\ cur'.path = p /\ cur'.event = [path |-> p, text |-> file[p].text, decision |-> Action(p)]
    BY <1>3 DEF Scan
  <2>2. Action(p) = Evaluate(IF policy = 0 THEN Defaults ELSE Policies[policy], p, file[p].labels)
    BY DEF Action
  <2>3. /\ cur'.event.path = p /\ cur'.event.text = file'[p].text
        /\ cur'.event.decision =
             Evaluate(IF policy' = 0 THEN Defaults ELSE Policies[policy'], cur'.path, file'[cur'.path].labels)
    BY <1>1, <2>1, <2>2
  <2>4. EventsTruthful'
    BY <1>1, <2>1 DEF EventsInv, EventsTruthful
  <2>5. QED
    BY <1>1, <1>3, <2>1, <2>3, <2>4 DEF EventsInv, Starting, Action
<1>4. QED
  BY <1>2, <1>3

LEMMA DecideTells ==
  ASSUME Parts, EventsInv, Decide
  PROVE  EventsInv'
<1> DEFINE p == cur.path
<1>1. phase = "enforce" /\ UNCHANGED <<told, file, policy>> /\ InHand /\ Watching
  BY DEF Decide, InHand, Watching, Starting, history, rules
<1>2. cur = [path |-> cur.path, text |-> cur.text, event |-> cur.event] /\ cur.event.path = p
  BY <1>1 DEF Parts, HandTyped, EventsInv
<1>3. p \notin told.shifted =>
        /\ cur.event.text = file[p].text /\ cur.event.decision = Action(p)
        /\ Verdict(p) = Action(p)
  BY <1>1 DEF EventsInv, Verdict
<1>4. CASE Verdict(p) \in {"redact", "block"}
  <2>1. /\ cur' = [cur EXCEPT !.text = file[p].text] /\ events' = events
        /\ phase' = IF Verdict(p) = "block" THEN "move" ELSE "copy"
    BY <1>4 DEF Decide
  <2>2. cur'.path = p /\ cur'.text = file[p].text /\ cur'.event = cur.event
    BY <1>2, <2>1
  <2>3. EventsTruthful'
    BY <1>1, <2>1 DEF EventsInv, EventsTruthful, Watching, Starting
  <2>4. phase' \in {"move", "copy"} /\ (phase' = "move" <=> Verdict(p) = "block")
    BY <2>1
  <2>5. QED
    BY <1>1, <1>2, <1>3, <1>4, <2>1, <2>2, <2>3, <2>4 DEF EventsInv, InHand, Starting
<1>5. CASE Verdict(p) \notin {"redact", "block"}
  <2>1. Done(p, <<cur.event>>)
    BY <1>5 DEF Decide
  <2>2. cur.event.decision \in {"redact", "block"} => cur.event.path \in told.shifted
    BY <1>2, <1>3, <1>5
  <2>3. QED
    BY <1>1, <2>1, <2>2, DoneTells
<1>6. QED
  BY <1>4, <1>5

LEMMA EnforcedTells ==
  ASSUME Parts, EventsInv, NEW action, phase \in {"move", "replace"},
         action = IF phase = "move" THEN "block" ELSE "redact", Enforced(action)
  PROVE  EventsInv'
<1> DEFINE done == [path |-> cur.path, text |-> cur.text, decision |-> action]
<1>1. InHand /\ cur.event \in Events /\ cur.event.path = cur.path
  BY DEF InHand, Parts, HandTyped, EventsInv
<1>2. told = [enforced |-> told.enforced, reported |-> told.reported,
              refused |-> told.refused, shifted |-> told.shifted]
  BY DEF Parts, HistoryTyped
<1>3. told' = [told EXCEPT !.enforced = @ \union {done}] /\ Done(cur.path, <<cur.event>>)
  BY DEF Enforced
<1>4. /\ told'.enforced = told.enforced \union {done} /\ told'.reported = told.reported
      /\ told'.refused = told.refused /\ told'.shifted = told.shifted
  BY <1>2, <1>3
<1>5. cur.path \notin told.shifted => cur.event = done
  <2>1. SUFFICES ASSUME cur.path \notin told.shifted PROVE cur.event = done
    OBVIOUS
  <2>2. cur.event.text = cur.text /\ cur.event.decision = action
    BY <2>1 DEF EventsInv
  <2>3. QED
    BY <1>1, <2>2 DEF Events
<1>6. done.path = cur.path
  OBVIOUS
<1> HIDE DEF done
<1>7. QED
  BY <1>1, <1>3, <1>4, <1>5, <1>6, DoneTells

LEMMA ReportTells ==
  ASSUME Parts, EventsInv, Report \/ LoseAnswer
  PROVE  EventsInv'
<1> DEFINE e == Head(events)
<1>1. events \in Seq(Events) /\ events # <<>> /\ phase = "report" /\ Watching
  BY DEF Parts, BatchTyped, Report, LoseAnswer, Watching, Starting
<1>2. Range(events) = {e} \union Range(Tail(events))
  BY <1>1, RangeOfRest
<1>3. told = [enforced |-> told.enforced, reported |-> told.reported,
              refused |-> told.refused, shifted |-> told.shifted]
  BY DEF Parts, HistoryTyped
<1>4. /\ told'.enforced = told.enforced /\ told'.shifted = told.shifted
      /\ told'.reported \subseteq told.reported \union {e}
      /\ told'.reported \union told'.refused = told.reported \union told.refused \union {e}
  <2>1. \/ told' = [told EXCEPT !.reported = @ \union {e}]
        \/ told' = [told EXCEPT !.refused = @ \union {e}]
    BY DEF Report, LoseAnswer, Refused
  <2>2. QED
    BY <1>3, <2>1
<1>5. \A x \in told'.reported :
        x.decision \in {"redact", "block"} => x \in told'.enforced \/ x.path \in told'.shifted
  BY <1>2, <1>4 DEF EventsInv, EventsTruthful
<1>6. CASE Report
  <2>1. events' = Tail(events) /\ phase' \in {"sleep", "report"}
    BY <1>6 DEF Report
  <2>2. EventsTruthful'
    BY <1>1, <1>2, <1>4, <1>5, <2>1 DEF EventsInv, EventsTruthful
  <2>3. QED
    BY <1>2, <1>4, <2>1, <2>2 DEF EventsInv, InHand, Starting
<1>7. CASE LoseAnswer
  <2>1. events' = <<>> /\ phase' = "dead" /\ Range(<<>>) = {}
    BY <1>7 DEF LoseAnswer, Die, Range
  <2>2. QED
    BY <1>5, <2>1 DEF EventsInv, EventsTruthful, Watching, InHand, Starting
<1>8. QED
  BY <1>6, <1>7

LEMMA UserTells ==
  ASSUME Parts, EventsInv, NEW f \in Files,
         Delete(f) \/ \E labels \in Writable : Edit(f, labels)
  PROVE  EventsInv'
<1> DEFINE p == <<f, 0>>
<1>1. /\ p \in Paths /\ UNCHANGED <<phase, cur, events, policy>>
      /\ told' = IF phase = "enforce" /\ cur.path = p
                 THEN [told EXCEPT !.shifted = @ \union {p}] ELSE told
  BY FilesAssumption DEF Paths, Delete, Edit, agent, rules, Interfere
<1>2. \A q \in Paths \ {p} : file'[q] = file[q]
  BY <1>1 DEF Delete, Edit, Put, Parts, FilesTyped
<1> HIDE DEF p
<1>3. told = [enforced |-> told.enforced, reported |-> told.reported,
              refused |-> told.refused, shifted |-> told.shifted]
  BY DEF Parts, HistoryTyped
<1>4. /\ told'.enforced = told.enforced /\ told'.reported = told.reported
      /\ told'.refused = told.refused /\ told.shifted \subseteq told'.shifted
      /\ (phase = "enforce" /\ cur.path = p => p \in told'.shifted)
      /\ (phase # "enforce" => told' = told)
  BY <1>1, <1>3
<1>5. EventsTruthful'
  BY <1>1, <1>4 DEF EventsInv, EventsTruthful, Watching, Starting
<1>6. Starting' => told' = Untold
  BY <1>1, <1>4 DEF Starting, EventsInv
<1>7. \A e \in Range(events)' :
        e.decision \in {"redact", "block"} => e \in told'.enforced \/ e.path \in told'.shifted
  BY <1>1, <1>4 DEF EventsInv
<1>8. phase = "enforce" /\ cur.path \notin told'.shifted =>
        /\ file'[cur.path].labels # {}
        /\ cur.event.text = file'[cur.path].text
        /\ cur.event.decision =
             Evaluate(IF policy = 0 THEN Defaults ELSE Policies[policy], cur.path, file'[cur.path].labels)
  <2>1. SUFFICES ASSUME phase = "enforce", cur.path \notin told'.shifted
                 PROVE  /\ file'[cur.path].labels # {}
                        /\ cur.event.text = file'[cur.path].text
                        /\ cur.event.decision =
                             Evaluate(IF policy = 0 THEN Defaults ELSE Policies[policy],
                                      cur.path, file'[cur.path].labels)
    OBVIOUS
  <2>2. cur.path \in Paths \ {p} /\ cur.path \notin told.shifted
    BY <1>4, <2>1 DEF Parts, HandTyped, BatchTyped, InHand
  <2>3. file'[cur.path] = file[cur.path]
    BY <1>2, <2>2
  <2>4. QED
    BY <2>1, <2>2, <2>3 DEF EventsInv, Action
<1>9. phase \in {"move", "copy", "replace"} /\ cur.path \notin told'.shifted =>
        /\ cur.event.text = cur.text
        /\ cur.event.decision = IF phase = "move" THEN "block" ELSE "redact"
  BY <1>4 DEF EventsInv
<1>10. QED
  BY <1>1, <1>5, <1>6, <1>7, <1>8, <1>9 DEF EventsInv, InHand, Action

LEMMA NextTells ==
  ASSUME Parts, EventsInv, [WatchNext]_watchVars
  PROVE  EventsInv'
<1>1. CASE Download \/ Save \/ FallBack \/ Begin
  <2>1. told' = told /\ events' = events /\ Starting /\ ~InHand'
    BY <1>1 DEF Download, Save, FallBack, Begin, Starting, InHand, history
  <2>2. QED
    BY <2>1, RestTells
<1>2. CASE Poll
  <2>1. told' = told /\ events' = events /\ Watching /\ ~Starting' /\ ~InHand'
    BY <1>2 DEF Poll, Watching, Starting, InHand, history
  <2>2. QED
    BY <2>1, RestTells
<1>3. ASSUME NEW p \in Paths, Scan(p) PROVE EventsInv'
  BY <1>3, ScanTells
<1>4. CASE Decide
  BY <1>4, DecideTells
<1>5. CASE Quarantine \/ Replace
  <2>1. \/ phase = "move" /\ Enforced("block")
        \/ phase = "replace" /\ Enforced("redact")
    BY <1>5 DEF Quarantine, Replace
  <2>2. QED
    BY <2>1, EnforcedTells
<1>6. CASE Copy
  <2>1. /\ phase = "copy" /\ phase' = "replace" /\ UNCHANGED <<told, cur, events>>
    BY <1>6 DEF Copy, history
  <2>2. EventsTruthful'
    BY <2>1 DEF EventsInv, EventsTruthful, Watching, Starting
  <2>3. QED
    BY <2>1, <2>2 DEF EventsInv, InHand, Starting
<1>7. CASE Report \/ LoseAnswer
  BY <1>7, ReportTells
<1>8. CASE Fail \/ Crash
  <2>1. told' = told /\ events' = <<>> /\ phase' = "dead" /\ ~InHand' /\ ~Starting'
    BY <1>8 DEF Fail, Crash, Die, InHand, Starting
  <2>2. QED
    BY <2>1, RestTells
<1>9. ASSUME NEW f \in Files, Delete(f) \/ \E labels \in Writable : Edit(f, labels)
      PROVE  EventsInv'
  BY <1>9, UserTells
<1>10. CASE Restart
  <2>1. events = <<>> /\ events' = events /\ told' = Untold /\ phase' = "load"
    BY <1>10 DEF Restart, Parts, BatchTyped
  <2>2. Range(<<>>) = {}
    BY DEF Range
  <2>3. QED
    BY <2>1, <2>2 DEF EventsInv, EventsTruthful, Untold, Watching, Starting, InHand
<1>11. CASE Publish \/ UNCHANGED watchVars
  <2>1. UNCHANGED <<told, events, phase, cur, file, policy>>
    BY <1>11 DEF Publish, watchVars, rules, agent, history
  <2>2. QED
    BY <2>1 DEF EventsInv, EventsTruthful, Watching, Starting, InHand, Action
<1>12. QED
  BY <1>1, <1>2, <1>3, <1>4, <1>5, <1>6, <1>7, <1>8, <1>9, <1>10, <1>11 DEF WatchNext, Watch

-----------------------------------------------------------------------------
(* FileWatch: the theorem.                                                  *)

\* The types, the search for changes, the preservation of originals, the policy
\* across restarts and the truth of the events of the agent in watch mode hold in
\* every behaviour, whatever the users write and the control plane does.
\* (run_watch, watch_directory, enforce_file, load_policy, scan_changes)
THEOREM WatchInvHolds == WatchSpec => []WatchInv
<1> DEFINE IInv == Parts /\ PolicyInv /\ SeenInv /\ KeptInv /\ EventsInv
<1>1. WatchInit => IInv
  BY InitTyped, InitRemembers, InitSees, InitKeeps, InitTells
<1>2. IInv /\ [WatchNext]_watchVars => IInv'
  BY NextTypes, NextRemembers, NextSees, NextKeeps, NextTells
<1>3. IInv => WatchInv
  <2>1. SUFFICES ASSUME IInv PROVE WatchInv
    OBVIOUS
  <2>2. WatchTypeOK
    BY <2>1, PartsTyped DEF WatchTyped
  <2>3. PolicyRemembered
    BY <2>1 DEF PolicyInv, PolicyRemembered, Watching, Starting
  <2>4. ChangesSeen /\ OriginalKept /\ EventsTruthful
    BY <2>1, KeptIsKept DEF SeenInv, EventsInv
  <2>5. QED
    BY <2>2, <2>3, <2>4 DEF WatchInv
<1> HIDE DEF IInv
<1>4. QED
  BY <1>1, <1>2, <1>3, PTL DEF WatchSpec

-----------------------------------------------------------------------------
(* McpProxy: the invariants.                                                *)

\* What is sent to a server, what comes from it, and what becomes of a message.
Messages ==
    [kind : {"call"}, id : 1..MaxMessages, to : Servers, tool : Tools,
     labels : Contents \union {{}}]
    \union [kind : {"request", "note", "reply"}, id : 1..MaxMessages, to : Servers]
Answers ==
    [kind : {"result"}, id : 1..MaxMessages, tool : Tools, labels : Contents]
    \union [kind : {"other"}, id : 1..MaxMessages, labels : {{}}]
    \union {Note, None}
Entries ==
    [for : 1..MaxMessages, kind : {"call", "request", "reply"}, to : Servers, got : Answers,
     shown : Contents \union {{}}]

ProxyTyped ==
    /\ pc \in {"idle", "write", "read", "stopped"}
    /\ req \in Messages \union {NoRequest}
    /\ pc \in {"write", "read"} => req \in Messages /\ req.id = asked
    /\ pc = "read" => req.kind # "note"
    /\ asked \in 0..MaxMessages /\ faults \in 0..MaxFaults
    /\ inbox \in [Servers -> Seq(Messages)]
    /\ \A s \in Servers : \A i \in DOMAIN inbox[s] : inbox[s][i].to = s
    /\ queue \in [Servers -> Seq(Answers)]
    /\ up \in [Servers -> BOOLEAN]
    /\ client \in Seq(Entries)
    /\ notes \in [Servers -> 0..MaxNotes] /\ replied \in [Servers -> Nat]

\* Where in a sequence a member of S is, and how often one is.
At(q, S) == {i \in DOMAIN q : q[i] \in S}
Count(q, S) == Cardinality(At(q, S))

Requests == {m \in Messages : m.kind \in {"call", "request"}}
RequestsOf(n) == {m \in Requests : m.id = n}
Unasked == {Note}
Junk == {Note, None}
AnswersTo(n) == {m \in Answers : m.id = n}
NotesTo(s) == {e \in Entries : e.to = s /\ e.got = Note}
JunkTo(s) == {e \in Entries : e.to = s /\ e.got.id = 0}
AnsweredWith(s, n) == {e \in Entries : e.to = s /\ e.got.id = n}

Expecting(s) == (pc = "read" \/ (pc = "write" /\ req.kind = "reply")) /\ req.to = s
Expected(s) == IF Expecting(s) THEN 1 ELSE 0
Owing(s) == IF up[s] THEN Count(inbox[s], Requests) ELSE 0

\* The fault that broke the pipe of s shifts nothing before the loop stops, and
\* yields no answer before the end of the file is read.
Dead(s) == s \notin Http /\ ~up[s]
Unfelt(s) == IF Dead(s) /\ pc # "stopped" THEN 1 ELSE 0
Unread(s) == IF Dead(s) /\ pc = "read" /\ req.to = s THEN 1 ELSE 0

\* What a server owes and has said, but for what answered it, is what is
\* expected and what it said unasked, but for the failures.
Balanced(owing, said, answered, unfelt, expected, unasked, failed) ==
    /\ owing + said + answered + unfelt <= expected + unasked + failed
    /\ failed = 0 => owing + said + answered = expected + unasked

\* What answered nothing was said unasked, or comes from a failure.
Excused(had, coming, unread, unasked, failed) == had + coming + unread <= unasked + failed

\* What server s was sent and has said, and what the client was given of it.
Tally(s) ==
    /\ replied[s] <= Count(client, NotesTo(s))
    /\ Count(client, NotesTo(s)) + Count(queue[s], Unasked) = notes[s]
    /\ ~up[s] => faults > 0
    /\ Balanced(Owing(s), Len(queue[s]), replied[s], Unfelt(s), Expected(s), notes[s], faults)
    /\ Excused(Count(client, JunkTo(s)), Count(queue[s], Junk), Unread(s), notes[s], faults)

\* Message n was sent to s and awaits or had its answer.
KnownTo(s, n) ==
    \/ \E j \in DOMAIN client : client[j].to = s /\ client[j].for = n
    \/ pc = "read" /\ req.to = s /\ req.id = n

\* A request is answered once, by its server, and not before it was sent.
Had(s, n) == Count(client, AnsweredWith(s, n))
Coming(s, n) == Count(queue[s], AnswersTo(n)) + Count(inbox[s], RequestsOf(n))
Once(s, n) ==
    /\ Had(s, n) + Coming(s, n) <= 1
    /\ n > asked \/ (pc = "write" /\ n = asked) => Had(s, n) + Coming(s, n) = 0
    /\ pc # "stopped" /\ Coming(s, n) > 0 => KnownTo(s, n)
AnsweredOnce == \A s \in Servers : \A n \in 1..MaxMessages : Once(s, n)

AnsweredLater ==
    \A i \in DOMAIN client : client[i].got.id > 0 =>
        \E j \in 1..i : client[j].to = client[i].to /\ client[j].for = client[i].got.id

\* A call that may be sent to server s, and a message that, while the message
\* in progress is r, may come from its server or be on its way to it.
Allowed(s, m) == m.kind = "call" => Screen(<<s, m.tool>>, m.labels) = "allow"
InTurn(r, m) == m.kind \in {"call", "result"} => r.kind = "call" /\ m.tool = r.tool

\* While servers only answer and nothing fails, all that comes from the server
\* in turn is the answer to the request in progress.
Quiet == faults = 0 /\ \A s \in Servers : notes[s] = 0
Sent == \A s \in Servers : \A i \in DOMAIN inbox[s] : Allowed(s, inbox[s][i])
InProgress ==
    /\ pc = "write" => Allowed(req.to, req)
    /\ pc = "write" /\ req.kind = "reply" => replied[req.to] > 0
    /\ Quiet /\ pc = "read" =>
        /\ \A i \in DOMAIN queue[req.to] : InTurn(req, queue[req.to][i])
        /\ \A i \in DOMAIN inbox[req.to] : InTurn(req, inbox[req.to][i])
Shown == Quiet => \A i \in DOMAIN client : ScannedAt(i)
ScreenedInv == Sent /\ InProgress /\ Shown

-----------------------------------------------------------------------------
(* Counting in a sequence.                                                  *)

LEMMA CountIsNatural ==
  ASSUME NEW T, NEW q \in Seq(T), NEW S
  PROVE  /\ At(q, S) \subseteq 1..Len(q) /\ IsFiniteSet(At(q, S)) /\ Count(q, S) \in Nat
         /\ Count(q, S) > 0 <=> At(q, S) # {}
<1>1. At(q, S) \subseteq 1..Len(q) /\ Len(q) \in Nat
  BY LenProperties DEF At
<1>2. IsFiniteSet(1..Len(q))
  BY <1>1, FS_Interval
<1>3. IsFiniteSet(At(q, S))
  BY <1>1, <1>2, FS_Subset
<1>4. Count(q, S) \in Nat
  BY <1>3, FS_CardinalityType DEF Count
<1>5. Count(q, S) = 0 <=> At(q, S) = {}
  BY <1>3, FS_EmptySet DEF Count
<1>6. QED
  BY <1>1, <1>3, <1>4, <1>5

LEMMA CountEmpty == \A S : Count(<<>>, S) = 0
BY FS_EmptySet DEF Count, At

LEMMA CountAppended ==
  ASSUME NEW T, NEW q \in Seq(T), NEW e \in T, NEW S
  PROVE  Count(Append(q, e), S) = Count(q, S) + IF e \in S THEN 1 ELSE 0
<1> DEFINE n == Len(q) + 1
<1>1. /\ Len(q) \in Nat /\ DOMAIN q = 1..Len(q) /\ DOMAIN Append(q, e) = 1..n
      /\ \A i \in 1..Len(q) : Append(q, e)[i] = q[i]
      /\ Append(q, e)[n] = e
  BY LenProperties, AppendProperties
<1>2. At(Append(q, e), S) = IF e \in S THEN At(q, S) \union {n} ELSE At(q, S)
  BY <1>1 DEF At
<1>3. n \notin At(q, S)
  BY <1>1 DEF At
<1>4. IsFiniteSet(At(q, S)) /\ Count(q, S) \in Nat
  BY CountIsNatural
<1>5. Cardinality(At(q, S) \union {n}) = Cardinality(At(q, S)) + 1
  BY <1>3, <1>4, FS_AddElement
<1>6. QED
  BY <1>2, <1>4, <1>5 DEF Count

LEMMA CountTaken ==
  ASSUME NEW T, NEW q \in Seq(T), q # <<>>, NEW S
  PROVE  Count(q, S) = Count(Tail(q), S) + IF Head(q) \in S THEN 1 ELSE 0
<1> DEFINE A == At(Tail(q), S)
           B == At(q, S) \ {1}
           f == [i \in A |-> i + 1]
<1>1. /\ Len(q) \in Nat \ {0} /\ DOMAIN q = 1..Len(q) /\ Head(q) = q[1]
      /\ Tail(q) \in Seq(T) /\ DOMAIN Tail(q) = 1..(Len(q) - 1)
      /\ \A i \in 1..(Len(q) - 1) : Tail(q)[i] = q[i + 1]
  BY EmptySeq, LenProperties, HeadTailProperties
<1>2. A \subseteq Int /\ B \subseteq Int /\ IsFiniteSet(A) /\ IsFiniteSet(At(q, S))
  <2>1. A \subseteq 1..Len(Tail(q)) /\ IsFiniteSet(A)
    BY <1>1, CountIsNatural
  <2>2. At(q, S) \subseteq 1..Len(q) /\ IsFiniteSet(At(q, S))
    BY CountIsNatural
  <2>3. QED
    BY <2>1, <2>2
<1>3. \A i \in A : i + 1 \in B
  BY <1>1 DEF At
<1>4. \A k \in B : k - 1 \in A
  BY <1>1 DEF At
<1> HIDE DEF A, B
<1>5. f \in [A -> B]
  BY <1>3
<1>6. \A i, j \in A : f[i] = f[j] => i = j
  BY <1>2
<1>7. \A k \in B : \E i \in A : f[i] = k
  <2>1. TAKE k \in B
  <2>2. k - 1 \in A /\ f[k - 1] = k
    BY <1>2, <1>4
  <2>3. QED
    BY <2>2
<1> HIDE DEF f
<1>8. f \in Bijection(A, B)
  BY <1>5, <1>6, <1>7 DEF Bijection, Injection, Surjection, IsInjective
<1>9. Cardinality(A) = Cardinality(B)
  BY <1>2, <1>8, FS_Bijection DEF ExistsBijection
<1>10. 1 \in At(q, S) <=> Head(q) \in S
  BY <1>1 DEF At
<1>11. Cardinality(B) = IF 1 \in At(q, S) THEN Count(q, S) - 1 ELSE Count(q, S)
  BY <1>2, FS_RemoveElement DEF B, Count
<1>12. Count(q, S) \in Nat /\ Count(Tail(q), S) = Cardinality(A)
  BY CountIsNatural DEF A, Count
<1>13. QED
  BY <1>9, <1>10, <1>11, <1>12

\* The sequences the counts are of, with a message more or less.
LEMMA Appended ==
  ASSUME NEW T, NEW q \in Seq(T), NEW e \in T
  PROVE  /\ Append(q, e) \in Seq(T) /\ Len(Append(q, e)) = Len(q) + 1 /\ Len(q) \in Nat
         /\ DOMAIN q = 1..Len(q) /\ DOMAIN Append(q, e) = 1..(Len(q) + 1)
         /\ \A i \in 1..Len(q) : Append(q, e)[i] = q[i]
         /\ Append(q, e)[Len(q) + 1] = e
BY LenProperties, AppendProperties

LEMMA Taken ==
  ASSUME NEW T, NEW q \in Seq(T), q # <<>>
  PROVE  /\ Head(q) \in T /\ Head(q) = q[1] /\ Tail(q) \in Seq(T)
         /\ Len(q) \in Nat \ {0} /\ Len(Tail(q)) = Len(q) - 1
         /\ DOMAIN q = 1..Len(q) /\ DOMAIN Tail(q) = 1..(Len(q) - 1)
         /\ \A i \in 1..(Len(q) - 1) : Tail(q)[i] = q[i + 1]
BY EmptySeq, LenProperties, HeadTailProperties

-----------------------------------------------------------------------------
(* Types.                                                                   *)

LEMMA ProxyInitTyped == Init => ProxyTyped
<1> SUFFICES ASSUME Init PROVE ProxyTyped
  OBVIOUS
<1>1. /\ <<>> \in Seq(Messages) /\ <<>> \in Seq(Answers) /\ <<>> \in Seq(Entries)
      /\ DOMAIN <<>> = {}
  BY EmptySeq
<1>2. 0 \in 0..MaxMessages /\ 0 \in 0..MaxFaults /\ 0 \in 0..MaxNotes
  BY ProxyBounds
<1>3. QED
  BY <1>1, <1>2 DEF Init, ProxyTyped

\* What comes from the gateway and the servers is of the types above.
LEMMA MessagesTyped ==
  ASSUME NEW m \in Messages
  PROVE  /\ m.kind \in Kinds /\ m.id \in 1..MaxMessages /\ m.to \in Servers
         /\ m.kind = "call" => m.tool \in Tools /\ m.labels \in Contents \union {{}}
         /\ Other(m) \in Answers
         /\ m.kind = "call" => \A labels \in Contents : Result(m, labels) \in Answers
BY DEF Messages, Answers, Kinds, Other, Result

LEMMA AnswersTyped ==
  ASSUME NEW m \in Answers
  PROVE  /\ m.kind \in {"result", "other", "note", "none"} /\ m.id \in 0..MaxMessages
         /\ m.labels \in Contents \union {{}}
         /\ m.kind = "result" => m.tool \in Tools
         /\ m.id = 0 <=> m \in Junk
BY ProxyBounds DEF Answers, Junk, Note, None

\* A message read from the client.
LEMMA AskTyped ==
  ASSUME ProxyTyped, pc = "idle", asked < MaxMessages, asked' = asked + 1,
         UNCHANGED <<client, upstream>>, replied' \in [Servers -> Nat],
         \/ UNCHANGED <<pc, req>>
         \/ pc' = "write" /\ req' \in Messages /\ req'.id = asked + 1
  PROVE  ProxyTyped'
<1>1. asked' \in 1..MaxMessages
  BY ProxyBounds DEF ProxyTyped
<1>2. QED
  BY <1>1 DEF ProxyTyped, upstream

LEMMA CallTyped ==
  ASSUME ProxyTyped, NEW s \in Servers, NEW t \in Tools, NEW labels \in Contents,
         Call(s, t, labels)
  PROVE  ProxyTyped'
<1> DEFINE m == [kind |-> "call", id |-> asked + 1, to |-> s, tool |-> t, labels |-> labels]
<1>1. asked + 1 \in 1..MaxMessages
  BY ProxyBounds DEF ProxyTyped, Call
<1>2. m \in Messages /\ [m EXCEPT !.labels = {}] \in Messages
      /\ m.id = asked + 1 /\ [m EXCEPT !.labels = {}].id = asked + 1
  BY <1>1 DEF Messages
<1>3. UNCHANGED <<pc, req>> \/ (pc' = "write" /\ req' \in {m, [m EXCEPT !.labels = {}]})
  BY DEF Call
<1>4. pc = "idle" /\ asked < MaxMessages /\ asked' = asked + 1
      /\ UNCHANGED <<client, upstream>> /\ replied' \in [Servers -> Nat]
  BY DEF Call, ProxyTyped
<1> HIDE DEF m
<1>5. QED
  BY <1>2, <1>3, <1>4, AskTyped

LEMMA ForwardTyped ==
  ASSUME ProxyTyped, NEW s \in Servers, NEW kind \in {"request", "note", "reply"},
         pc = "idle", asked < MaxMessages, asked' = asked + 1,
         UNCHANGED <<client, upstream>>, replied' \in [Servers -> Nat],
         req' = [kind |-> kind, id |-> asked + 1, to |-> s], pc' = "write"
  PROVE  ProxyTyped'
<1>1. asked + 1 \in 1..MaxMessages
  BY ProxyBounds DEF ProxyTyped
<1>2. req' \in Messages /\ req'.id = asked + 1
  BY <1>1 DEF Messages
<1>3. QED
  BY <1>2, AskTyped

LEMMA WriteTyped ==
  ASSUME ProxyTyped, pc = "write", Written, UNCHANGED <<asked, up, client, replied, notes>>,
         inbox' = inbox \/ Deliver,
         queue' = queue \/ \E m \in Answers : Enqueue(req.to, m),
         faults' \in 0..MaxFaults
  PROVE  ProxyTyped'
<1>1. req \in Messages /\ req.to \in Servers /\ req.id = asked
  BY MessagesTyped DEF ProxyTyped
<1>2. ASSUME NEW s \in Servers
      PROVE  /\ inbox'[s] \in Seq(Messages)
             /\ \A i \in DOMAIN inbox'[s] : inbox'[s][i].to = s
  <2>1. inbox[s] \in Seq(Messages) /\ \A i \in DOMAIN inbox[s] : inbox[s][i].to = s
    BY DEF ProxyTyped
  <2>2. CASE inbox'[s] = inbox[s]
    BY <2>1, <2>2
  <2>3. CASE inbox'[s] = Append(inbox[s], req) /\ s = req.to
    <3>1. /\ Append(inbox[s], req) \in Seq(Messages)
          /\ DOMAIN inbox[s] = 1..Len(inbox[s])
          /\ DOMAIN Append(inbox[s], req) = 1..(Len(inbox[s]) + 1) /\ Len(inbox[s]) \in Nat
          /\ \A i \in 1..Len(inbox[s]) : Append(inbox[s], req)[i] = inbox[s][i]
          /\ Append(inbox[s], req)[Len(inbox[s]) + 1] = req
      BY <1>1, <2>1, Appended
    <3>2. QED
      BY <2>1, <2>3, <3>1
  <2>4. inbox'[s] = inbox[s] \/ (inbox'[s] = Append(inbox[s], req) /\ s = req.to)
    <3>1. inbox \in [Servers -> Seq(Messages)]
      BY DEF ProxyTyped
    <3>2. CASE inbox' = inbox
      BY <3>2
    <3>3. CASE Deliver
      BY <3>1, <3>3 DEF Deliver
    <3>4. QED
      BY <3>2, <3>3
  <2>5. QED
    BY <2>2, <2>3, <2>4
<1>3. ASSUME NEW s \in Servers PROVE queue'[s] \in Seq(Answers)
  <2>1. queue[s] \in Seq(Answers)
    BY DEF ProxyTyped
  <2>2. queue'[s] = queue[s] \/ \E m \in Answers : queue'[s] = Append(queue[s], m)
    BY DEF Enqueue, ProxyTyped
  <2>3. QED
    BY <2>1, <2>2, AppendProperties
<1>4. DOMAIN inbox' = Servers /\ DOMAIN queue' = Servers
      /\ inbox' = [s \in Servers |-> inbox'[s]] /\ queue' = [s \in Servers |-> queue'[s]]
  BY DEF ProxyTyped, Deliver, Enqueue
<1>5. inbox' \in [Servers -> Seq(Messages)] /\ queue' \in [Servers -> Seq(Answers)]
  BY <1>2, <1>3, <1>4
<1>6. /\ pc' \in {"idle", "read"} /\ req' \in Messages \union {NoRequest}
      /\ pc' = "read" => req' \in Messages /\ req'.id = asked' /\ req'.kind # "note"
  BY <1>1 DEF Written
<1>7. QED
  BY <1>2, <1>5, <1>6 DEF ProxyTyped

LEMMA CloseTyped ==
  ASSUME ProxyTyped, pc = "read", NEW m \in Answers, NEW shown \in Contents \union {{}},
         Close(m, shown)
  PROVE  /\ client' \in Seq(Entries) /\ pc' = "idle" /\ req' = NoRequest
         /\ \E e \in Entries : /\ client' = Append(client, e)
                               /\ e.for = req.id /\ e.to = req.to /\ e.got = m /\ e.shown = shown
<1> DEFINE e == [for |-> req.id, kind |-> req.kind, to |-> req.to, got |-> m, shown |-> shown]
<1>1. e \in Entries
  BY MessagesTyped DEF ProxyTyped, Entries, Kinds
<1>2. client' = Append(client, e) /\ pc' = "idle" /\ req' = NoRequest
  BY DEF Close
<1>3. client' \in Seq(Entries)
  BY <1>1, <1>2, AppendProperties DEF ProxyTyped
<1>4. QED
  BY <1>1, <1>2, <1>3

LEMMA ReadResponseTyped ==
  ASSUME ProxyTyped, ReadResponse
  PROVE  ProxyTyped'
<1> DEFINE m == Head(queue[req.to])
<1>1. req.to \in Servers /\ queue[req.to] \in Seq(Answers) /\ queue[req.to] # <<>>
  BY MessagesTyped DEF ProxyTyped, ReadResponse
<1>2. m \in Answers /\ Tail(queue[req.to]) \in Seq(Answers)
  BY <1>1, Taken
<1>3. PICK shown \in Contents \union {{}} : Close(m, shown)
  BY <1>2, AnswersTyped DEF ReadResponse
<1>4. client' \in Seq(Entries) /\ pc' = "idle" /\ req' = NoRequest
  BY <1>2, <1>3, CloseTyped DEF ReadResponse
<1>5. queue' \in [Servers -> Seq(Answers)]
  BY <1>1, <1>2 DEF ProxyTyped, ReadResponse
<1>6. QED
  BY <1>4, <1>5 DEF ProxyTyped, ReadResponse

LEMMA ServerTyped ==
  ASSUME ProxyTyped, NEW s \in Servers, Serve(s) \/ Speak(s) \/ Break(s)
  PROVE  ProxyTyped'
<1>1. UNCHANGED <<pc, req, asked, client, replied>>
  BY DEF Serve, Speak, Break
<1>2. inbox[s] \in Seq(Messages) /\ queue[s] \in Seq(Answers) /\ Note \in Answers /\ None \in Answers
  BY DEF ProxyTyped, Answers
<1>3. CASE Serve(s)
  <2>1. /\ Head(inbox[s]) \in Messages /\ Tail(inbox[s]) \in Seq(Messages)
        /\ \A i \in DOMAIN Tail(inbox[s]) : Tail(inbox[s])[i].to = s
    <3>1. inbox[s] # <<>> /\ \A i \in DOMAIN inbox[s] : inbox[s][i].to = s
      BY <1>3 DEF Serve, ProxyTyped
    <3>2. /\ Head(inbox[s]) \in Messages /\ Tail(inbox[s]) \in Seq(Messages)
          /\ Len(inbox[s]) \in Nat \ {0} /\ DOMAIN inbox[s] = 1..Len(inbox[s])
          /\ DOMAIN Tail(inbox[s]) = 1..(Len(inbox[s]) - 1)
          /\ \A i \in 1..(Len(inbox[s]) - 1) : Tail(inbox[s])[i] = inbox[s][i + 1]
      BY <1>2, <3>1, Taken
    <3>3. QED
      BY <3>1, <3>2
  <2>2. inbox' = [inbox EXCEPT ![s] = Tail(inbox[s])] /\ UNCHANGED <<up, notes, faults>>
    BY <1>3 DEF Serve
  <2>3. queue' = queue \/ \E m \in Answers : queue' = [queue EXCEPT ![s] = Append(queue[s], m)]
    <3>1. \/ queue' = queue
          \/ Head(inbox[s]).kind = "call" /\ \E labels \in Contents :
                 Enqueue(s, Result(Head(inbox[s]), labels))
          \/ Enqueue(s, Other(Head(inbox[s])))
      BY <1>3 DEF Serve
    <3>2. QED
      BY <2>1, <3>1, MessagesTyped DEF Enqueue
  <2>4. queue' \in [Servers -> Seq(Answers)]
    <3>1. \A m \in Answers : Append(queue[s], m) \in Seq(Answers)
      BY <1>2, AppendProperties
    <3>2. QED
      BY <2>3, <3>1 DEF ProxyTyped
  <2>5. inbox' \in [Servers -> Seq(Messages)]
        /\ \A r \in Servers : \A i \in DOMAIN inbox'[r] : inbox'[r][i].to = r
    BY <2>1, <2>2 DEF ProxyTyped
  <2>6. QED
    BY <1>1, <2>2, <2>4, <2>5 DEF ProxyTyped
<1>4. CASE Speak(s)
  <2>1. Append(queue[s], Note) \in Seq(Answers)
    BY <1>2, AppendProperties
  <2>2. queue' \in [Servers -> Seq(Answers)]
    BY <1>4, <2>1 DEF Speak, Enqueue, ProxyTyped
  <2>3. notes' \in [Servers -> 0..MaxNotes]
    BY <1>4, ProxyBounds DEF Speak, ProxyTyped
  <2>4. QED
    BY <1>1, <1>4, <2>2, <2>3 DEF Speak, ProxyTyped
<1>5. CASE Break(s)
  <2>1. Append(queue[s], None) \in Seq(Answers)
    BY <1>2, AppendProperties
  <2>2. queue' \in [Servers -> Seq(Answers)]
    BY <1>5, <2>1 DEF Break, Enqueue, ProxyTyped
  <2>3. faults' \in 0..MaxFaults /\ up' \in [Servers -> BOOLEAN]
    BY <1>5, ProxyBounds DEF Break, Fault, ProxyTyped
  <2>4. QED
    BY <1>1, <1>5, <2>2, <2>3 DEF Break, ProxyTyped
<1>6. QED
  BY <1>3, <1>4, <1>5

LEMMA ProxyNextTyped ==
  ASSUME ProxyTyped, [Next]_vars
  PROVE  ProxyTyped'
<1>1. ASSUME NEW s \in Servers, NEW t \in Tools, NEW labels \in Contents, Call(s, t, labels)
      PROVE  ProxyTyped'
  BY <1>1, CallTyped
<1>2. ASSUME NEW s \in Servers, NEW kind \in {"request", "note"}, Forward(s, kind)
      PROVE  ProxyTyped'
  <2>1. replied' \in [Servers -> Nat]
    BY <1>2 DEF Forward, ProxyTyped
  <2>2. QED
    BY <1>2, <2>1, ForwardTyped DEF Forward
<1>3. ASSUME NEW s \in Servers, Reply(s) PROVE ProxyTyped'
  <2>1. replied' \in [Servers -> Nat]
    BY <1>3 DEF Reply, ProxyTyped
  <2>2. QED
    BY <1>3, <2>1, ForwardTyped DEF Reply
<1>4. CASE Unknown
  <2>1. replied' \in [Servers -> Nat]
    BY <1>4 DEF Unknown, ProxyTyped
  <2>2. QED
    BY <1>4, <2>1, AskTyped DEF Unknown
<1>5. CASE Write
  BY <1>5, WriteTyped DEF Write, ProxyTyped
<1>6. CASE WriteBroken \/ Stop
  <2>1. faults' \in 0..MaxFaults
    BY <1>6, ProxyBounds DEF WriteBroken, Stop, Fault, ProxyTyped, upstream
  <2>2. QED
    BY <1>6, <2>1 DEF WriteBroken, Stop, ProxyTyped, upstream
<1>7. CASE PostRefused
  <2>1. Other(req) \in Answers
    BY <1>7, MessagesTyped DEF PostRefused, ProxyTyped
  <2>2. QED
    BY <1>7, <2>1, WriteTyped DEF PostRefused, ProxyTyped
<1>8. CASE PostFailed
  <2>1. faults' \in 0..MaxFaults /\ None \in Answers
    BY <1>8, ProxyBounds DEF PostFailed, Fault, ProxyTyped, Answers
  <2>2. QED
    BY <1>8, <2>1, WriteTyped DEF PostFailed
<1>9. CASE ReadResponse
  BY <1>9, ReadResponseTyped
<1>10. CASE ReadEnd
  <2>1. None \in Answers
    BY DEF Answers
  <2>2. client' \in Seq(Entries) /\ pc' = "idle" /\ req' = NoRequest
    BY <1>10, <2>1, CloseTyped DEF ReadEnd
  <2>3. QED
    BY <1>10, <2>2 DEF ReadEnd, ProxyTyped, upstream
<1>11. ASSUME NEW s \in Servers, Serve(s) \/ Speak(s) \/ Break(s) PROVE ProxyTyped'
  BY <1>11, ServerTyped
<1>12. CASE UNCHANGED vars
  BY <1>12 DEF vars, ProxyTyped
<1>13. QED
  BY <1>1, <1>2, <1>3, <1>4, <1>5, <1>6, <1>7, <1>8, <1>9, <1>10, <1>11, <1>12 DEF Next, Gateway
-----------------------------------------------------------------------------
(* The counts of a step.                                                    *)

LEMMA ProxyCountsTyped ==
  ASSUME ProxyTyped, NEW s \in Servers
  PROVE  /\ Count(client, NotesTo(s)) \in Nat /\ Count(client, JunkTo(s)) \in Nat
         /\ Count(queue[s], Unasked) \in Nat /\ Count(queue[s], Junk) \in Nat
         /\ Count(inbox[s], Requests) \in Nat /\ Owing(s) \in Nat
         /\ Expected(s) \in Nat /\ Unfelt(s) \in Nat /\ Unread(s) \in Nat
         /\ Len(queue[s]) \in Nat /\ faults \in Nat /\ notes[s] \in Nat /\ replied[s] \in Nat
<1>1. client \in Seq(Entries) /\ queue[s] \in Seq(Answers) /\ inbox[s] \in Seq(Messages)
  BY DEF ProxyTyped
<1>2. \A S : /\ Count(client, S) \in Nat /\ Count(queue[s], S) \in Nat /\ Count(inbox[s], S) \in Nat
  BY <1>1, CountIsNatural
<1>3. Len(queue[s]) \in Nat
  BY <1>1, LenProperties
<1>4. QED
  BY <1>2, <1>3, ProxyBounds DEF ProxyTyped, Owing, Expected, Unfelt, Unread

LEMMA QueueCounts ==
  ASSUME NEW q \in Seq(Answers), NEW m \in Answers
  PROVE  /\ Len(Append(q, m)) = Len(q) + 1
         /\ Count(Append(q, m), Unasked) = Count(q, Unasked) + IF m = Note THEN 1 ELSE 0
         /\ Count(Append(q, m), Junk) = Count(q, Junk) + IF m.id = 0 THEN 1 ELSE 0
         /\ \A n : Count(Append(q, m), AnswersTo(n)) =
                       Count(q, AnswersTo(n)) + IF m.id = n THEN 1 ELSE 0
<1>1. Len(Append(q, m)) = Len(q) + 1
  BY AppendProperties
<1>2. \A S : Count(Append(q, m), S) = Count(q, S) + IF m \in S THEN 1 ELSE 0
  BY CountAppended
<1>3. /\ m \in Unasked <=> m = Note
      /\ m \in Junk <=> m.id = 0
      /\ \A n : m \in AnswersTo(n) <=> m.id = n
  BY AnswersTyped DEF Unasked, AnswersTo
<1>4. QED
  BY <1>1, <1>2, <1>3

LEMMA QueueTaken ==
  ASSUME NEW q \in Seq(Answers), q # <<>>
  PROVE  /\ Len(Tail(q)) = Len(q) - 1
         /\ Count(q, Unasked) = Count(Tail(q), Unasked) + IF Head(q) = Note THEN 1 ELSE 0
         /\ Count(q, Junk) = Count(Tail(q), Junk) + IF Head(q).id = 0 THEN 1 ELSE 0
         /\ \A n : Count(q, AnswersTo(n)) =
                       Count(Tail(q), AnswersTo(n)) + IF Head(q).id = n THEN 1 ELSE 0
<1>1. Len(Tail(q)) = Len(q) - 1 /\ Head(q) \in Answers
  BY Taken
<1>2. \A S : Count(q, S) = Count(Tail(q), S) + IF Head(q) \in S THEN 1 ELSE 0
  BY CountTaken
<1>3. /\ Head(q) \in Unasked <=> Head(q) = Note
      /\ Head(q) \in Junk <=> Head(q).id = 0
      /\ \A n : Head(q) \in AnswersTo(n) <=> Head(q).id = n
  BY <1>1, AnswersTyped DEF Unasked, AnswersTo
<1>4. QED
  BY <1>1, <1>2, <1>3

LEMMA InboxCounts ==
  ASSUME NEW q \in Seq(Messages), NEW m \in Messages
  PROVE  /\ Count(Append(q, m), Requests) =
                Count(q, Requests) + IF m.kind \in {"call", "request"} THEN 1 ELSE 0
         /\ \A n : Count(Append(q, m), RequestsOf(n)) = Count(q, RequestsOf(n))
                       + IF m.kind \in {"call", "request"} /\ m.id = n THEN 1 ELSE 0
<1>1. \A S : Count(Append(q, m), S) = Count(q, S) + IF m \in S THEN 1 ELSE 0
  BY CountAppended
<1>2. /\ m \in Requests <=> m.kind \in {"call", "request"}
      /\ \A n : m \in RequestsOf(n) <=> m.kind \in {"call", "request"} /\ m.id = n
  BY DEF Requests, RequestsOf
<1>3. QED
  BY <1>1, <1>2

LEMMA InboxTaken ==
  ASSUME NEW q \in Seq(Messages), q # <<>>
  PROVE  /\ Count(q, Requests) =
                Count(Tail(q), Requests) + IF Head(q).kind \in {"call", "request"} THEN 1 ELSE 0
         /\ \A n : Count(q, RequestsOf(n)) = Count(Tail(q), RequestsOf(n))
                       + IF Head(q).kind \in {"call", "request"} /\ Head(q).id = n THEN 1 ELSE 0
<1>1. Head(q) \in Messages
  BY Taken
<1>2. \A S : Count(q, S) = Count(Tail(q), S) + IF Head(q) \in S THEN 1 ELSE 0
  BY CountTaken
<1>3. /\ Head(q) \in Requests <=> Head(q).kind \in {"call", "request"}
      /\ \A n : Head(q) \in RequestsOf(n) <=> Head(q).kind \in {"call", "request"} /\ Head(q).id = n
  BY <1>1 DEF Requests, RequestsOf
<1>4. QED
  BY <1>2, <1>3

LEMMA ClientCounts ==
  ASSUME NEW c \in Seq(Entries), NEW e \in Entries, NEW s
  PROVE  /\ Count(Append(c, e), NotesTo(s)) =
                Count(c, NotesTo(s)) + IF e.to = s /\ e.got = Note THEN 1 ELSE 0
         /\ Count(Append(c, e), JunkTo(s)) =
                Count(c, JunkTo(s)) + IF e.to = s /\ e.got.id = 0 THEN 1 ELSE 0
         /\ \A n : Count(Append(c, e), AnsweredWith(s, n)) =
                Count(c, AnsweredWith(s, n)) + IF e.to = s /\ e.got.id = n THEN 1 ELSE 0
<1>1. \A S : Count(Append(c, e), S) = Count(c, S) + IF e \in S THEN 1 ELSE 0
  BY CountAppended
<1>2. /\ e \in NotesTo(s) <=> e.to = s /\ e.got = Note
      /\ e \in JunkTo(s) <=> e.to = s /\ e.got.id = 0
      /\ \A n : e \in AnsweredWith(s, n) <=> e.to = s /\ e.got.id = n
  BY DEF NotesTo, JunkTo, AnsweredWith
<1>3. QED
  BY <1>1, <1>2

-----------------------------------------------------------------------------
(* What keeps the balance.                                                  *)

LEMMA BalanceHeld ==
  ASSUME NEW o \in Nat, NEW l \in Nat, NEW a \in Nat, NEW u \in Nat, NEW e \in Nat, NEW n \in Nat,
         NEW f \in Nat, Balanced(o, l, a, u, e, n, f), NEW v \in Nat, v <= u, NEW g, g = f \/ g = f + 1
  PROVE  Balanced(o, l, a, v, e, n, g)
BY DEF Balanced

LEMMA BalanceReplied ==
  ASSUME NEW o \in Nat, NEW l \in Nat, NEW a \in Nat, NEW u \in Nat, NEW e \in Nat, NEW n \in Nat,
         NEW f \in Nat, Balanced(o, l, a, u, e, n, f)
  PROVE  Balanced(o, l, a + 1, u, e + 1, n, f)
BY DEF Balanced

LEMMA BalanceAnswered ==
  ASSUME NEW o \in Nat, NEW l \in Nat, NEW a \in Nat, NEW u \in Nat, NEW e \in Nat, NEW n \in Nat,
         NEW f \in Nat
  PROVE  Balanced(o, l, a, u, e, n, f) <=> Balanced(o, l + 1, a, u, e + 1, n, f)
BY DEF Balanced

LEMMA BalanceServed ==
  ASSUME NEW o \in Nat, NEW l \in Nat, NEW a \in Nat, NEW u \in Nat, NEW e \in Nat, NEW n \in Nat,
         NEW f \in Nat, Balanced(o + 1, l, a, u, e, n, f)
  PROVE  Balanced(o, l + 1, a, u, e, n, f)
BY DEF Balanced

LEMMA BalanceSpoken ==
  ASSUME NEW o \in Nat, NEW l \in Nat, NEW a \in Nat, NEW u \in Nat, NEW e \in Nat, NEW n \in Nat,
         NEW f \in Nat, Balanced(o, l, a, u, e, n, f)
  PROVE  Balanced(o, l + 1, a, u, e, n + 1, f)
BY DEF Balanced

LEMMA BalanceWritten ==
  ASSUME NEW o \in Nat, NEW l \in Nat, NEW a \in Nat, NEW u \in Nat, NEW e \in Nat, NEW n \in Nat,
         NEW f \in Nat, Balanced(o, l, a, u, e, n, f),
         NEW p \in Nat, NEW d \in Nat, p + e <= o + d
  PROVE  /\ (f = 0 => p + e = o + d) => Balanced(p, l, a, u, d, n, f)
         /\ Balanced(p, l, a, u, d, n, f + 1) /\ Balanced(p, l + 1, a, u, d, n, f + 1)
BY DEF Balanced

LEMMA BalanceBroken ==
  ASSUME NEW o \in Nat, NEW l \in Nat, NEW a \in Nat, NEW u \in Nat, NEW e \in Nat, NEW n \in Nat,
         NEW f \in Nat, Balanced(o, l, a, u, e, n, f)
  PROVE  /\ Balanced(0, l, a, 0, e, n, f + 1) /\ Balanced(0, l, a, 1, e, n, f + 1)
         /\ Balanced(0, l + 1, a, 0, e, n, f + 1)
BY DEF Balanced

LEMMA BalanceStopped ==
  ASSUME NEW o \in Nat, NEW l \in Nat, NEW a \in Nat, NEW u \in Nat, NEW e \in Nat, NEW n \in Nat,
         NEW f \in Nat, Balanced(o, l, a, u, e, n, f),
         NEW v \in Nat, NEW d \in Nat, NEW g \in Nat, g > 0, v + e + f <= u + d + g
  PROVE  Balanced(o, l, a, v, d, n, g)
BY DEF Balanced

LEMMA BalanceEnded ==
  ASSUME NEW a \in Nat, NEW n \in Nat, NEW f \in Nat, a <= n, f > 0
  PROVE  Balanced(0, 0, a, 1, 0, n, f)
BY DEF Balanced

LEMMA ExcusedHeld ==
  ASSUME NEW j \in Nat, NEW q \in Nat, NEW x \in Nat, NEW n \in Nat, NEW f \in Nat,
         Excused(j, q, x, n, f), NEW y \in Nat, y <= x, NEW g, g = f \/ g = f + 1
  PROVE  Excused(j, q, y, n, g)
BY DEF Excused

LEMMA ExcusedUnasked ==
  ASSUME NEW j \in Nat, NEW q \in Nat, NEW x \in Nat, NEW n \in Nat, NEW f \in Nat,
         Excused(j, q, x, n, f)
  PROVE  Excused(j, q + 1, x, n + 1, f)
BY DEF Excused

LEMMA ExcusedFailed ==
  ASSUME NEW j \in Nat, NEW q \in Nat, NEW x \in Nat, NEW n \in Nat, NEW f \in Nat,
         Excused(j, q, x, n, f)
  PROVE  /\ Excused(j, q, x, n, f + 1) /\ Excused(j, q + 1, x, n, f + 1)
         /\ Excused(j, q, x + 1, n, f + 1)
BY DEF Excused

LEMMA ExcusedEnded ==
  ASSUME NEW j \in Nat, NEW q \in Nat, NEW n \in Nat, NEW f \in Nat, Excused(j, q, 1, n, f)
  PROVE  Excused(j + 1, q, 0, n, f)
BY DEF Excused

LEMMA ExcusedRead ==
  ASSUME NEW j \in Nat, NEW q \in Nat, NEW x \in Nat, NEW n \in Nat, NEW f \in Nat,
         Excused(j, q + 1, x, n, f)
  PROVE  Excused(j + 1, q, x, n, f)
BY DEF Excused

-----------------------------------------------------------------------------
(* What servers were sent and have said.                                    *)

\* A server the step does not concern.
LEMMA TallyElsewhere ==
  ASSUME ProxyTyped, NEW s \in Servers, Tally(s),
         inbox'[s] = inbox[s], queue'[s] = queue[s], up'[s] = up[s], notes'[s] = notes[s],
         replied'[s] = replied[s], faults' \in {faults, faults + 1},
         Count(client', NotesTo(s)) = Count(client, NotesTo(s)),
         Count(client', JunkTo(s)) = Count(client, JunkTo(s)),
         Expecting(s)' <=> Expecting(s),
         pc' # "stopped" => pc # "stopped",
         pc' = "read" /\ req'.to = s => (pc = "read" /\ req.to = s) \/ ~Dead(s)
  PROVE  Tally(s)'
<1>1. /\ Expected(s)' = Expected(s) /\ Owing(s)' = Owing(s)
      /\ Unfelt(s)' <= Unfelt(s) /\ Unread(s)' <= Unread(s)
      /\ Unfelt(s)' \in Nat /\ Unread(s)' \in Nat
  BY DEF Dead, Expected, Owing, Unfelt, Unread
<1>2. Balanced(Owing(s), Len(queue[s]), replied[s], Unfelt(s)', Expected(s), notes[s], faults')
  <2>1. Balanced(Owing(s), Len(queue[s]), replied[s], Unfelt(s), Expected(s), notes[s], faults)
    BY DEF Tally
  <2>2. /\ Owing(s) \in Nat /\ Len(queue[s]) \in Nat /\ replied[s] \in Nat /\ Unfelt(s) \in Nat
        /\ Expected(s) \in Nat /\ notes[s] \in Nat /\ faults \in Nat
    BY ProxyCountsTyped
  <2>3. faults' = faults \/ faults' = faults + 1
    OBVIOUS
  <2>4. QED
    BY <1>1, <2>1, <2>2, <2>3, BalanceHeld
<1>3. Excused(Count(client, JunkTo(s)), Count(queue[s], Junk), Unread(s)', notes[s], faults')
  <2>1. Excused(Count(client, JunkTo(s)), Count(queue[s], Junk), Unread(s), notes[s], faults)
    BY DEF Tally
  <2>2. QED
    BY <1>1, <2>1, ProxyCountsTyped, ExcusedHeld
<1>4. ~up[s] => faults' > 0
  BY ProxyCountsTyped DEF Tally
<1>5. QED
  BY <1>1, <1>2, <1>3, <1>4 DEF Tally

LEMMA InitTally == Init => \A s \in Servers : Tally(s)
<1> SUFFICES ASSUME Init, NEW s \in Servers PROVE Tally(s)
  OBVIOUS
<1>1. Len(<<>>) = 0
  BY EmptySeq
<1>2. /\ Count(client, NotesTo(s)) = 0 /\ Count(client, JunkTo(s)) = 0
      /\ Count(queue[s], Unasked) = 0 /\ Count(queue[s], Junk) = 0 /\ Len(queue[s]) = 0
      /\ Owing(s) = 0 /\ Expected(s) = 0 /\ Unfelt(s) = 0 /\ Unread(s) = 0
      /\ notes[s] = 0 /\ replied[s] = 0 /\ faults = 0 /\ up[s]
  BY <1>1, CountEmpty DEF Init, Expecting, Expected, Owing, Dead, Unfelt, Unread
<1>3. Balanced(0, 0, 0, 0, 0, 0, 0) /\ Excused(0, 0, 0, 0, 0)
  BY DEF Balanced, Excused
<1>4. QED
  BY <1>2, <1>3 DEF Tally

LEMMA AskTally ==
  ASSUME ProxyTyped, NEW s \in Servers, Tally(s), pc = "idle",
         UNCHANGED <<client, upstream>>, replied'[s] = replied[s],
         (pc' = "idle" /\ UNCHANGED req) \/ (pc' = "write" /\ req'.kind # "reply")
  PROVE  Tally(s)'
<1>1. ~Expecting(s) /\ ~Expecting(s)'
  BY DEF Expecting
<1>2. QED
  BY <1>1, TallyElsewhere DEF upstream

LEMMA ReplyTally ==
  ASSUME ProxyTyped, \A r \in Servers : Tally(r), NEW t \in Servers, Reply(t), NEW s \in Servers
  PROVE  Tally(s)'
<1>1. /\ pc = "idle" /\ pc' = "write" /\ req'.kind = "reply" /\ req'.to = t
      /\ UNCHANGED <<client, upstream>>
      /\ replied' = [replied EXCEPT ![t] = @ + 1] /\ replied \in [Servers -> Nat]
  BY DEF Reply, ProxyTyped
<1>2. ~Expecting(s) /\ (Expecting(s)' <=> s = t)
  BY <1>1 DEF Expecting
<1>3. CASE s # t
  <2>1. replied'[s] = replied[s]
    BY <1>1, <1>3
  <2>2. QED
    BY <1>1, <1>2, <1>3, <2>1, TallyElsewhere DEF upstream
<1>4. CASE s = t
  <2>1. {i \in DOMAIN client : client[i].to = s /\ client[i].got = Note} = At(client, NotesTo(s))
    <3>1. \A i \in DOMAIN client : client[i] \in Entries
      BY LenProperties DEF ProxyTyped
    <3>2. QED
      BY <3>1 DEF At, NotesTo
  <2>2. replied[s] < Count(client, NotesTo(s)) /\ replied'[s] = replied[s] + 1
    BY <1>1, <1>4, <2>1 DEF Reply, Count
  <2>3. /\ Expected(s) = 0 /\ Expected(s)' = 1 /\ Owing(s)' = Owing(s)
        /\ Unfelt(s)' = Unfelt(s) /\ Unread(s)' = 0
    BY <1>1, <1>2, <1>4 DEF Expected, Owing, Dead, Unfelt, Unread, upstream
  <2>4. UNCHANGED <<inbox, queue, up, notes, faults, client>>
    BY <1>1 DEF upstream
  <2>5. Balanced(Owing(s), Len(queue[s]), replied[s] + 1, Unfelt(s), Expected(s) + 1, notes[s], faults)
    <3>1. Balanced(Owing(s), Len(queue[s]), replied[s], Unfelt(s), Expected(s), notes[s], faults)
      BY DEF Tally
    <3>2. QED
      BY <3>1, ProxyCountsTyped, BalanceReplied
  <2>6. Balanced(Owing(s), Len(queue[s]), replied'[s], Unfelt(s)', Expected(s)', notes[s], faults)
    BY <2>2, <2>3, <2>5
  <2>7. replied'[s] <= Count(client, NotesTo(s))
    <3>1. replied[s] \in Nat /\ Count(client, NotesTo(s)) \in Nat
      BY ProxyCountsTyped
    <3>2. QED
      BY <2>2, <3>1
  <2>8. Excused(Count(client, JunkTo(s)), Count(queue[s], Junk), 0, notes[s], faults)
    <3>1. Excused(Count(client, JunkTo(s)), Count(queue[s], Junk), Unread(s), notes[s], faults)
          /\ 0 <= Unread(s)
      BY ProxyCountsTyped DEF Tally
    <3>2. QED
      BY <3>1, ProxyCountsTyped, ExcusedHeld
  <2>9. QED
    BY <2>3, <2>4, <2>6, <2>7, <2>8 DEF Tally
<1>5. QED
  BY <1>3, <1>4

LEMMA WrittenExpects ==
  ASSUME ProxyTyped, pc = "write", Written, NEW s \in Servers
  PROVE  /\ pc' \in {"idle", "read"} /\ (pc' = "read" => req' = req)
         /\ req.kind \in Kinds /\ req.to \in Servers /\ req \in Messages
         /\ Expecting(s) <=> s = req.to /\ req.kind = "reply"
         /\ Expecting(s)' <=> s = req.to /\ req.kind # "note"
BY MessagesTyped DEF ProxyTyped, Written, Expecting

LEMMA WriteTally ==
  ASSUME ProxyTyped, \A r \in Servers : Tally(r), Write \/ PostRefused \/ PostFailed,
         NEW s \in Servers
  PROVE  Tally(s)'
<1>1. /\ pc = "write" /\ Written /\ UNCHANGED <<asked, up, client, replied, notes>>
      /\ up[req.to] \/ req.to \in Http
  BY DEF Write, PostRefused, PostFailed
<1>2. /\ pc' \in {"idle", "read"} /\ (pc' = "read" => req' = req)
      /\ req.kind \in Kinds /\ req.to \in Servers /\ req \in Messages
      /\ Expecting(s) <=> s = req.to /\ req.kind = "reply"
      /\ Expecting(s)' <=> s = req.to /\ req.kind # "note"
  BY <1>1, WrittenExpects
<1>3. /\ inbox \in [Servers -> Seq(Messages)] /\ queue \in [Servers -> Seq(Answers)]
      /\ up[s] \in BOOLEAN
      /\ inbox' = inbox \/ Deliver
      /\ queue' = queue \/ Enqueue(req.to, Other(req)) \/ Enqueue(req.to, None)
      /\ faults' \in {faults, faults + 1}
  BY DEF Write, PostRefused, PostFailed, ProxyTyped, Fault
<1>4. CASE s # req.to
  <2>1. inbox'[s] = inbox[s] /\ queue'[s] = queue[s]
    BY <1>3, <1>4 DEF Deliver, Enqueue
  <2>2. QED
    BY <1>1, <1>2, <1>3, <1>4, <2>1, TallyElsewhere
<1>5. CASE s = req.to
  <2>1. /\ Unfelt(s) = 0 /\ Unfelt(s)' = 0 /\ Unread(s) = 0 /\ Unread(s)' = 0
        /\ Expected(s) = (IF req.kind = "reply" THEN 1 ELSE 0)
        /\ Expected(s)' = (IF req.kind = "note" THEN 0 ELSE 1)
    BY <1>1, <1>2, <1>5 DEF Dead, Unfelt, Unread, Expected
  <2>2. Deliver => Count(inbox'[s], Requests) =
            Count(inbox[s], Requests) + IF req.kind \in {"call", "request"} THEN 1 ELSE 0
    BY <1>2, <1>3, <1>5, InboxCounts DEF Deliver
  <2>3. ASSUME NEW m \in Answers, Enqueue(req.to, m)
        PROVE  /\ Len(queue'[s]) = Len(queue[s]) + 1
               /\ Count(queue'[s], Unasked) = Count(queue[s], Unasked) + IF m = Note THEN 1 ELSE 0
               /\ Count(queue'[s], Junk) = Count(queue[s], Junk) + IF m.id = 0 THEN 1 ELSE 0
    BY <1>3, <1>5, <2>3, QueueCounts DEF Enqueue
  <2>4. /\ Other(req) \in Answers /\ Other(req) # Note /\ Other(req).id # 0
        /\ None \in Answers /\ None # Note /\ None.id = 0
    <3>1. req.id \in 1..MaxMessages
      BY <1>2, MessagesTyped
    <3>2. QED
      BY <1>2, <3>1, MessagesTyped, ProxyBounds DEF Other, Note, None, Answers
  <2>5. faults \in Nat
    BY ProxyCountsTyped
  <2>6. /\ Balanced(Owing(s), Len(queue[s]), replied[s], Unfelt(s), Expected(s), notes[s], faults)
        /\ Excused(Count(client, JunkTo(s)), Count(queue[s], Junk), 0, notes[s], faults)
        /\ Count(client, NotesTo(s)) + Count(queue[s], Unasked) = notes[s]
    BY <2>1 DEF Tally
  <2>7. Expected(s) \in Nat /\ Expected(s)' \in Nat
    BY <2>1
  <2>8. ASSUME inbox' = inbox \/ Deliver
        PROVE  /\ Owing(s)' \in Nat /\ Owing(s)' + Expected(s) <= Owing(s) + Expected(s)'
               /\ up[s] /\ Deliver => Owing(s)' + Expected(s) = Owing(s) + Expected(s)'
    <3>1. CASE req.kind \in {"call", "request"}
      <4>1. Expected(s) = 0 /\ Expected(s)' = 1
        BY <2>1, <3>1
      <4>2. /\ Owing(s)' \in {Owing(s), Owing(s) + 1}
            /\ up[s] /\ Deliver => Owing(s)' = Owing(s) + 1
        BY <1>1, <2>2, <2>8, <3>1 DEF Owing
      <4>3. QED
        BY <4>1, <4>2, ProxyCountsTyped
    <3>2. CASE req.kind \in {"note", "reply"}
      <4>1. Expected(s)' = Expected(s)
        BY <2>1, <3>2
      <4>2. Count(inbox'[s], Requests) = Count(inbox[s], Requests)
        BY <2>2, <2>8, <3>2, ProxyCountsTyped
      <4>3. Owing(s)' = Owing(s)
        BY <1>1, <4>2 DEF Owing
      <4>4. QED
        BY <4>1, <4>3, ProxyCountsTyped
    <3>3. QED
      BY <1>2, <3>1, <3>2 DEF Kinds
  <2>9. CASE Write
    <3>1. Deliver /\ UNCHANGED <<queue, faults>>
      BY <2>9 DEF Write
    <3>2. faults = 0 => up[s]
      BY ProxyCountsTyped DEF Tally
    <3>3. Balanced(Owing(s)', Len(queue[s]), replied[s], Unfelt(s), Expected(s)', notes[s], faults)
      BY <2>6, <2>7, <2>8, <3>1, <3>2, ProxyCountsTyped, BalanceWritten
    <3>4. QED
      BY <1>1, <2>1, <2>6, <3>1, <3>3 DEF Tally
  <2>10. CASE PostRefused
    <3>1. /\ UNCHANGED <<inbox, faults>> /\ Enqueue(req.to, Other(req))
          /\ req.kind \in {"call", "request"}
      BY <2>10 DEF PostRefused
    <3>2. /\ Len(queue'[s]) = Len(queue[s]) + 1
          /\ Count(queue'[s], Unasked) = Count(queue[s], Unasked)
          /\ Count(queue'[s], Junk) = Count(queue[s], Junk)
      BY <2>3, <2>4, <3>1, ProxyCountsTyped
    <3>3. Owing(s)' = Owing(s) /\ Expected(s) = 0 /\ Expected(s)' = Expected(s) + 1
      BY <1>1, <2>1, <3>1 DEF Owing
    <3>4. Balanced(Owing(s), Len(queue[s]) + 1, replied[s], Unfelt(s), Expected(s) + 1, notes[s], faults)
      BY <2>6, ProxyCountsTyped, BalanceAnswered
    <3>5. QED
      BY <1>1, <2>1, <2>6, <3>1, <3>2, <3>3, <3>4 DEF Tally
  <2>11. CASE PostFailed
    <3>1. faults' = faults + 1 /\ faults' > 0 /\ (inbox' = inbox \/ Deliver)
      BY <1>3, <2>5, <2>11 DEF PostFailed, Fault
    <3>2. \/ UNCHANGED queue
          \/ /\ Len(queue'[s]) = Len(queue[s]) + 1
             /\ Count(queue'[s], Unasked) = Count(queue[s], Unasked)
             /\ Count(queue'[s], Junk) = Count(queue[s], Junk) + 1
      <4>1. CASE Enqueue(req.to, None)
        BY <2>3, <2>4, <4>1, ProxyCountsTyped
      <4>2. QED
        BY <2>11, <4>1 DEF PostFailed
    <3>3. /\ Balanced(Owing(s)', Len(queue[s]), replied[s], Unfelt(s), Expected(s)', notes[s], faults + 1)
          /\ Balanced(Owing(s)', Len(queue[s]) + 1, replied[s], Unfelt(s), Expected(s)', notes[s], faults + 1)
      BY <2>6, <2>7, <2>8, <3>1, ProxyCountsTyped, BalanceWritten
    <3>4. Balanced(Owing(s)', Len(queue'[s]), replied[s], Unfelt(s), Expected(s)', notes[s], faults + 1)
      BY <3>2, <3>3
    <3>5. Excused(Count(client, JunkTo(s)), Count(queue'[s], Junk), 0, notes[s], faults + 1)
      <4>1. Excused(Count(client, JunkTo(s)), Count(queue[s], Junk), 0, notes[s], faults + 1)
        BY <2>6, ProxyCountsTyped, ExcusedFailed
      <4>2. Excused(Count(client, JunkTo(s)), Count(queue[s], Junk) + 1, 0, notes[s], faults + 1)
        BY <2>6, ProxyCountsTyped, ExcusedFailed
      <4>3. QED
        BY <3>2, <4>1, <4>2
    <3>6. QED
      BY <1>1, <2>1, <2>6, <3>1, <3>2, <3>4, <3>5 DEF Tally
  <2>12. QED
    BY <2>9, <2>10, <2>11
<1>6. QED
  BY <1>4, <1>5
LEMMA StopTally ==
  ASSUME ProxyTyped, \A r \in Servers : Tally(r), WriteBroken \/ Stop, NEW s \in Servers
  PROVE  Tally(s)'
<1>1. /\ UNCHANGED <<req, asked, client, replied, inbox, queue, up, notes>> /\ pc' = "stopped"
      /\ \/ pc = "idle" /\ faults' = faults
         \/ pc = "read" /\ faults' = faults + 1
         \/ pc = "write" /\ faults' = faults /\ Dead(req.to)
  BY DEF WriteBroken, Stop, Fault, upstream, Dead
<1>2. /\ ~Expecting(s)' /\ Expected(s)' = 0 /\ Unfelt(s)' = 0 /\ Unread(s)' = 0
      /\ Owing(s)' = Owing(s)
  BY <1>1 DEF Expecting, Expected, Unfelt, Unread, Owing
<1>3. /\ Balanced(Owing(s), Len(queue[s]), replied[s], Unfelt(s), Expected(s), notes[s], faults)
      /\ Excused(Count(client, JunkTo(s)), Count(queue[s], Junk), Unread(s), notes[s], faults)
  BY DEF Tally
<1>4. ~Dead(s) \/ faults > 0
  BY DEF Tally, Dead
<1>5. 0 \in Nat /\ 0 <= Unfelt(s) /\ 0 <= Unread(s) /\ (faults' = faults \/ faults' = faults + 1)
  BY <1>1, ProxyCountsTyped
<1>6. Excused(Count(client, JunkTo(s)), Count(queue[s], Junk), 0, notes[s], faults')
  BY <1>3, <1>5, ProxyCountsTyped, ExcusedHeld
<1>7. Balanced(Owing(s), Len(queue[s]), replied[s], 0, 0, notes[s], faults')
  <2>1. CASE ~Expecting(s)
    <3>1. Expected(s) = 0
      BY <2>1 DEF Expected
    <3>2. QED
      BY <1>3, <1>5, <3>1, ProxyCountsTyped, BalanceHeld
  <2>2. CASE Expecting(s)
    <3>1. Expected(s) = 1 /\ faults' \in Nat /\ faults' > 0 /\ 0 + 1 + faults <= Unfelt(s) + 0 + faults'
      <4>1. CASE pc = "read"
        <5>1. Expected(s) = 1 /\ faults' = faults + 1
          BY <1>1, <2>2, <4>1 DEF Expected
        <5>2. QED
          BY <5>1, ProxyCountsTyped
      <4>2. CASE pc = "write"
        <5>1. Expected(s) = 1 /\ faults' = faults /\ Unfelt(s) = 1 /\ faults > 0
          BY <1>1, <1>4, <2>2, <4>2 DEF Expected, Expecting, Unfelt
        <5>2. QED
          BY <5>1, ProxyCountsTyped
      <4>3. QED
        BY <2>2, <4>1, <4>2 DEF Expecting
    <3>2. QED
      BY <1>3, <3>1, ProxyCountsTyped, BalanceStopped
  <2>3. QED
    BY <2>1, <2>2
<1>8. ~up[s] => faults' > 0
  BY <1>5, ProxyCountsTyped DEF Tally
<1>9. QED
  BY <1>1, <1>2, <1>6, <1>7, <1>8 DEF Tally

LEMMA ReadResponseTally ==
  ASSUME ProxyTyped, \A r \in Servers : Tally(r), ReadResponse, NEW s \in Servers
  PROVE  Tally(s)'
<1> DEFINE q == queue[req.to]
           m == Head(q)
<1>1. /\ req.to \in Servers /\ q \in Seq(Answers) /\ q # <<>> /\ m \in Answers
      /\ pc = "read" /\ queue' = [queue EXCEPT ![req.to] = Tail(q)]
      /\ UNCHANGED <<asked, inbox, up, notes, replied, faults>>
      /\ queue \in [Servers -> Seq(Answers)] /\ client \in Seq(Entries)
  BY MessagesTyped, Taken DEF ReadResponse, ProxyTyped
<1>2. PICK e \in Entries : client' = Append(client, e) /\ e.to = req.to /\ e.got = m
  <2>1. PICK shown \in Contents \union {{}} : Close(m, shown)
    BY <1>1, AnswersTyped DEF ReadResponse
  <2>2. QED
    BY <1>1, <2>1, CloseTyped
<1>3. pc' = "idle"
  BY DEF ReadResponse, Close
<1>4. ~Expecting(s)' /\ (Expecting(s) <=> s = req.to)
  BY <1>1, <1>3 DEF Expecting
<1>5. /\ Count(client', NotesTo(s)) =
             Count(client, NotesTo(s)) + IF req.to = s /\ m = Note THEN 1 ELSE 0
      /\ Count(client', JunkTo(s)) =
             Count(client, JunkTo(s)) + IF req.to = s /\ m.id = 0 THEN 1 ELSE 0
  BY <1>1, <1>2, ClientCounts
<1>6. CASE s # req.to
  <2>1. queue'[s] = queue[s]
    BY <1>1, <1>6
  <2>2. Count(client', NotesTo(s)) = Count(client, NotesTo(s))
        /\ Count(client', JunkTo(s)) = Count(client, JunkTo(s))
    BY <1>5, <1>6, ProxyCountsTyped
  <2>3. QED
    BY <1>1, <1>3, <1>4, <1>6, <2>1, <2>2, TallyElsewhere
<1>7. CASE s = req.to
  <2>1. /\ queue'[s] = Tail(q) /\ Tail(q) \in Seq(Answers)
        /\ Len(queue[s]) = Len(queue'[s]) + 1 /\ Len(queue'[s]) \in Nat
        /\ Count(queue[s], Unasked) = Count(queue'[s], Unasked) + IF m = Note THEN 1 ELSE 0
        /\ Count(queue[s], Junk) = Count(queue'[s], Junk) + IF m.id = 0 THEN 1 ELSE 0
        /\ Count(queue'[s], Unasked) \in Nat /\ Count(queue'[s], Junk) \in Nat
    <3>1. queue'[s] = Tail(q) /\ Tail(q) \in Seq(Answers)
      BY <1>1, <1>7, Taken
    <3>2. /\ Len(Tail(q)) = Len(q) - 1 /\ Len(q) \in Nat /\ Len(Tail(q)) \in Nat
          /\ Count(q, Unasked) = Count(Tail(q), Unasked) + IF m = Note THEN 1 ELSE 0
          /\ Count(q, Junk) = Count(Tail(q), Junk) + IF m.id = 0 THEN 1 ELSE 0
      BY <1>1, <3>1, QueueTaken, LenProperties
    <3>3. Count(queue'[s], Unasked) \in Nat /\ Count(queue'[s], Junk) \in Nat
      BY <3>1, CountIsNatural
    <3>4. QED
      BY <1>7, <3>1, <3>2, <3>3
  <2>2. /\ Expected(s) = 0 + 1 /\ Expected(s)' = 0 /\ Owing(s)' = Owing(s)
        /\ Unfelt(s)' = Unfelt(s) /\ Unread(s)' = 0
    BY <1>1, <1>3, <1>4, <1>7 DEF Expected, Owing, Dead, Unfelt, Unread
  <2>3. /\ Balanced(Owing(s), Len(queue[s]), replied[s], Unfelt(s), Expected(s), notes[s], faults)
        /\ Excused(Count(client, JunkTo(s)), Count(queue[s], Junk), Unread(s), notes[s], faults)
        /\ Count(client, NotesTo(s)) + Count(queue[s], Unasked) = notes[s]
        /\ replied[s] <= Count(client, NotesTo(s))
    BY DEF Tally
  <2>4. Balanced(Owing(s), Len(queue'[s]), replied[s], Unfelt(s), 0, notes[s], faults)
    <3>1. Balanced(Owing(s), Len(queue'[s]) + 1, replied[s], Unfelt(s), 0 + 1, notes[s], faults)
      BY <2>1, <2>2, <2>3
    <3>2. QED
      BY <2>1, <3>1, ProxyCountsTyped, BalanceAnswered
  <2>5. Excused(Count(client', JunkTo(s)), Count(queue'[s], Junk), 0, notes[s], faults)
    <3>1. Excused(Count(client, JunkTo(s)), Count(queue[s], Junk), 0, notes[s], faults)
      <4>1. 0 <= Unread(s)
        BY ProxyCountsTyped
      <4>2. QED
        BY <2>3, <4>1, ProxyCountsTyped, ExcusedHeld
    <3>2. CASE m.id # 0
      <4>1. Count(client', JunkTo(s)) = Count(client, JunkTo(s))
            /\ Count(queue'[s], Junk) = Count(queue[s], Junk)
        BY <1>5, <1>7, <2>1, <3>2, ProxyCountsTyped
      <4>2. QED
        BY <3>1, <4>1
    <3>3. CASE m.id = 0
      <4>1. Count(client', JunkTo(s)) = Count(client, JunkTo(s)) + 1
            /\ Count(queue[s], Junk) = Count(queue'[s], Junk) + 1
        BY <1>5, <1>7, <2>1, <3>3
      <4>2. Excused(Count(client, JunkTo(s)), Count(queue'[s], Junk) + 1, 0, notes[s], faults)
        BY <3>1, <4>1
      <4>3. Excused(Count(client, JunkTo(s)) + 1, Count(queue'[s], Junk), 0, notes[s], faults)
        BY <2>1, <4>2, ProxyCountsTyped, ExcusedRead
      <4>4. QED
        BY <4>1, <4>3
    <3>4. QED
      BY <3>2, <3>3
  <2>6. /\ Count(client', NotesTo(s)) + Count(queue'[s], Unasked) = notes[s]
        /\ replied[s] <= Count(client', NotesTo(s))
    <3>1. Count(client, NotesTo(s)) \in Nat /\ replied[s] \in Nat
      BY ProxyCountsTyped
    <3>2. CASE m = Note
      <4>1. /\ Count(client', NotesTo(s)) = Count(client, NotesTo(s)) + 1
            /\ Count(queue[s], Unasked) = Count(queue'[s], Unasked) + 1
        BY <1>5, <1>7, <2>1, <3>2
      <4>2. Count(queue'[s], Unasked) \in Nat
        BY <2>1
      <4>3. Count(client, NotesTo(s)) + Count(queue[s], Unasked) = notes[s]
            /\ replied[s] <= Count(client, NotesTo(s))
        BY <2>3
      <4>4. QED
        BY <3>1, <4>1, <4>2, <4>3
    <3>3. CASE m # Note
      <4>1. /\ Count(client', NotesTo(s)) = Count(client, NotesTo(s))
            /\ Count(queue[s], Unasked) = Count(queue'[s], Unasked)
        BY <1>5, <1>7, <2>1, <3>1, <3>3
      <4>2. QED
        BY <2>3, <4>1
    <3>4. QED
      BY <3>2, <3>3
  <2>7. ~up[s] => faults > 0
    BY DEF Tally
  <2>8. QED
    BY <1>1, <2>2, <2>4, <2>5, <2>6, <2>7 DEF Tally
<1>8. QED
  BY <1>6, <1>7

LEMMA ReadEndTally ==
  ASSUME ProxyTyped, \A r \in Servers : Tally(r), ReadEnd, NEW s \in Servers
  PROVE  Tally(s)'
<1>1. /\ req.to \in Servers /\ pc = "read" /\ queue[req.to] = <<>> /\ Dead(req.to)
      /\ UNCHANGED <<asked, inbox, queue, up, notes, replied, faults>>
      /\ client \in Seq(Entries) /\ None \in Answers /\ None # Note /\ None.id = 0
  BY MessagesTyped DEF ReadEnd, ProxyTyped, Dead, upstream, Answers, None, Note
<1>2. PICK e \in Entries : client' = Append(client, e) /\ e.to = req.to /\ e.got = None
  BY <1>1, CloseTyped DEF ReadEnd
<1>3. pc' = "idle"
  BY DEF ReadEnd, Close
<1>4. ~Expecting(s)' /\ (Expecting(s) <=> s = req.to)
  BY <1>1, <1>3 DEF Expecting
<1>5. /\ Count(client', NotesTo(s)) = Count(client, NotesTo(s))
      /\ Count(client', JunkTo(s)) =
             Count(client, JunkTo(s)) + IF req.to = s THEN 1 ELSE 0
  <2>1. /\ Count(client', NotesTo(s)) =
               Count(client, NotesTo(s)) + IF req.to = s /\ None = Note THEN 1 ELSE 0
        /\ Count(client', JunkTo(s)) =
               Count(client, JunkTo(s)) + IF req.to = s /\ None.id = 0 THEN 1 ELSE 0
    BY <1>1, <1>2, ClientCounts
  <2>2. QED
    BY <1>1, <2>1, ProxyCountsTyped
<1>6. CASE s # req.to
  <2>1. Count(client', JunkTo(s)) = Count(client, JunkTo(s))
    BY <1>5, <1>6, ProxyCountsTyped
  <2>2. QED
    BY <1>1, <1>3, <1>4, <1>5, <1>6, <2>1, TallyElsewhere
<1>7. CASE s = req.to
  <2>1. /\ Expected(s)' = 0 /\ Owing(s)' = 0 /\ Unfelt(s)' = 1 /\ Unread(s) = 1 /\ Unread(s)' = 0
    BY <1>1, <1>3, <1>4, <1>7 DEF Expected, Owing, Dead, Unfelt, Unread
  <2>2. /\ Excused(Count(client, JunkTo(s)), Count(queue[s], Junk), 1, notes[s], faults)
        /\ Count(client, NotesTo(s)) + Count(queue[s], Unasked) = notes[s]
        /\ replied[s] <= Count(client, NotesTo(s))
        /\ faults > 0
    BY <1>1, <1>7, <2>1 DEF Tally, Dead
  <2>3. Excused(Count(client', JunkTo(s)), Count(queue[s], Junk), 0, notes[s], faults)
    <3>1. Count(client', JunkTo(s)) = Count(client, JunkTo(s)) + 1
      BY <1>5, <1>7
    <3>2. QED
      BY <2>2, <3>1, ProxyCountsTyped, ExcusedEnded
  <2>4. replied[s] <= notes[s]
    BY <2>2, ProxyCountsTyped
  <2>5. Balanced(0, 0, replied[s], 1, 0, notes[s], faults)
    BY <2>2, <2>4, ProxyCountsTyped, BalanceEnded
  <2>6. Len(queue[s]) = 0
    BY <1>1, <1>7, EmptySeq
  <2>7. QED
    BY <1>1, <1>5, <2>1, <2>2, <2>3, <2>5, <2>6 DEF Tally
<1>8. QED
  BY <1>6, <1>7

LEMMA ServeTally ==
  ASSUME ProxyTyped, \A r \in Servers : Tally(r), NEW t \in Servers, Serve(t), NEW s \in Servers
  PROVE  Tally(s)'
<1> DEFINE m == Head(inbox[t])
<1>1. /\ UNCHANGED <<pc, req, asked, up, client, replied, notes, faults>>
      /\ inbox[t] \in Seq(Messages) /\ inbox[t] # <<>> /\ m \in Messages
      /\ inbox' = [inbox EXCEPT ![t] = Tail(inbox[t])] /\ inbox \in [Servers -> Seq(Messages)]
      /\ queue[t] \in Seq(Answers) /\ queue \in [Servers -> Seq(Answers)]
  BY Taken DEF Serve, ProxyTyped
<1>2. Expecting(s)' <=> Expecting(s)
  BY <1>1 DEF Expecting
<1>3. \/ /\ up[t] /\ m.kind \in {"call", "request"}
         /\ \E a \in Answers : a.id # 0 /\ queue' = [queue EXCEPT ![t] = Append(queue[t], a)]
      \/ (~up[t] \/ m.kind \in {"note", "reply"}) /\ queue' = queue
  <2>1. m.id # 0 /\ m.id \in 1..MaxMessages
    BY <1>1, MessagesTyped
  <2>2. Other(m).id = m.id /\ \A labels : Result(m, labels).id = m.id
    BY DEF Other, Result
  <2>3. \/ m.kind = "call" /\ up[t] /\ \E labels \in Contents : Enqueue(t, Result(m, labels))
        \/ m.kind = "request" /\ up[t] /\ Enqueue(t, Other(m))
        \/ (~up[t] \/ m.kind \in {"note", "reply"}) /\ queue' = queue
    BY DEF Serve
  <2>4. QED
    BY <1>1, <2>1, <2>2, <2>3, MessagesTyped DEF Enqueue
<1>4. CASE s # t
  <2>1. inbox'[s] = inbox[s] /\ queue'[s] = queue[s]
    BY <1>1, <1>3, <1>4
  <2>2. QED
    BY <1>1, <1>2, <1>4, <2>1, TallyElsewhere
<1>5. CASE s = t /\ up[t] /\ m.kind \in {"call", "request"}
  <2>1. PICK a \in Answers : a.id # 0 /\ queue'[s] = Append(queue[s], a)
    BY <1>1, <1>3, <1>5
  <2>2. /\ Len(queue'[s]) = Len(queue[s]) + 1
        /\ Count(queue'[s], Unasked) = Count(queue[s], Unasked)
        /\ Count(queue'[s], Junk) = Count(queue[s], Junk)
    <3>1. a # Note
      BY <2>1 DEF Note
    <3>2. QED
      BY <1>1, <1>5, <2>1, <3>1, QueueCounts, ProxyCountsTyped
  <2>3. Owing(s) = Owing(s)' + 1 /\ Owing(s)' \in Nat
    <3>1. inbox'[s] = Tail(inbox[s]) /\ Tail(inbox[s]) \in Seq(Messages)
      BY <1>1, <1>5, Taken
    <3>2. Count(inbox[s], Requests) = Count(Tail(inbox[s]), Requests) + 1
      BY <1>1, <1>5, InboxTaken
    <3>3. Count(Tail(inbox[s]), Requests) \in Nat
      BY <3>1, CountIsNatural
    <3>4. QED
      BY <1>1, <1>5, <3>1, <3>2, <3>3 DEF Owing
  <2>4. /\ Expected(s)' = Expected(s) /\ Unfelt(s)' = Unfelt(s) /\ Unread(s)' = Unread(s)
    BY <1>1, <1>2 DEF Expected, Dead, Unfelt, Unread
  <2>5. Balanced(Owing(s)', Len(queue[s]) + 1, replied[s], Unfelt(s), Expected(s), notes[s], faults)
    <3>1. Balanced(Owing(s)' + 1, Len(queue[s]), replied[s], Unfelt(s), Expected(s), notes[s], faults)
      BY <2>3 DEF Tally
    <3>2. QED
      BY <2>3, <3>1, ProxyCountsTyped, BalanceServed
  <2>6. QED
    BY <1>1, <2>2, <2>4, <2>5 DEF Tally
<1>6. CASE s = t /\ (~up[t] \/ m.kind \in {"note", "reply"})
  <2>1. queue' = queue
    BY <1>3, <1>6
  <2>2. Owing(s)' = Owing(s)
    <3>1. CASE ~up[t]
      BY <1>1, <1>6, <3>1 DEF Owing
    <3>2. CASE m.kind \in {"note", "reply"}
      <4>1. inbox'[s] = Tail(inbox[s]) /\ Tail(inbox[s]) \in Seq(Messages)
        BY <1>1, <1>6, Taken
      <4>2. Count(Tail(inbox[s]), Requests) \in Nat
        BY <4>1, CountIsNatural
      <4>3. Count(inbox[s], Requests) = Count(Tail(inbox[s]), Requests)
        <5>1. Count(inbox[s], Requests) =
                  Count(Tail(inbox[s]), Requests) + IF m.kind \in {"call", "request"} THEN 1 ELSE 0
          BY <1>1, <1>6, InboxTaken
        <5>2. m.kind \notin {"call", "request"}
          BY <3>2
        <5>3. QED
          BY <4>2, <5>1, <5>2
      <4>4. QED
        BY <1>1, <4>1, <4>3 DEF Owing
    <3>3. QED
      BY <1>6, <3>1, <3>2
  <2>3. /\ Expected(s)' = Expected(s) /\ Unfelt(s)' = Unfelt(s) /\ Unread(s)' = Unread(s)
    BY <1>1, <1>2 DEF Expected, Dead, Unfelt, Unread
  <2>4. QED
    BY <1>1, <2>1, <2>2, <2>3 DEF Tally
<1>7. QED
  BY <1>1, <1>4, <1>5, <1>6, MessagesTyped DEF Kinds
LEMMA SpeakTally ==
  ASSUME ProxyTyped, \A r \in Servers : Tally(r), NEW t \in Servers, Speak(t), NEW s \in Servers
  PROVE  Tally(s)'
<1>1. /\ UNCHANGED <<pc, req, asked, inbox, up, client, replied, faults>>
      /\ notes' = [notes EXCEPT ![t] = notes[t] + 1] /\ notes \in [Servers -> 0..MaxNotes]
      /\ queue' = [queue EXCEPT ![t] = Append(queue[t], Note)] /\ queue \in [Servers -> Seq(Answers)]
      /\ Note \in Answers /\ Note.id = 0
  BY DEF Speak, Enqueue, ProxyTyped, Answers, Note
<1>2. Expecting(s)' <=> Expecting(s)
  BY <1>1 DEF Expecting
<1>3. CASE s # t
  <2>1. queue'[s] = queue[s] /\ notes'[s] = notes[s]
    BY <1>1, <1>3
  <2>2. QED
    BY <1>1, <1>2, <1>3, <2>1, TallyElsewhere
<1>4. CASE s = t
  <2>1. queue'[s] = Append(queue[s], Note) /\ queue[s] \in Seq(Answers) /\ notes'[s] = notes[s] + 1
    BY <1>1, <1>4
  <2>2. /\ Len(queue'[s]) = Len(queue[s]) + 1
        /\ Count(queue'[s], Unasked) = Count(queue[s], Unasked) + 1
        /\ Count(queue'[s], Junk) = Count(queue[s], Junk) + 1
    BY <1>1, <2>1, QueueCounts
  <2>3. /\ Expected(s)' = Expected(s) /\ Unfelt(s)' = Unfelt(s) /\ Unread(s)' = Unread(s)
        /\ Owing(s)' = Owing(s)
    BY <1>1, <1>2 DEF Expected, Dead, Unfelt, Unread, Owing
  <2>4. /\ Balanced(Owing(s), Len(queue[s]), replied[s], Unfelt(s), Expected(s), notes[s], faults)
        /\ Excused(Count(client, JunkTo(s)), Count(queue[s], Junk), Unread(s), notes[s], faults)
        /\ Count(client, NotesTo(s)) + Count(queue[s], Unasked) = notes[s]
    BY DEF Tally
  <2>5. Balanced(Owing(s), Len(queue[s]) + 1, replied[s], Unfelt(s), Expected(s), notes[s] + 1, faults)
    BY <2>4, ProxyCountsTyped, BalanceSpoken
  <2>6. Excused(Count(client, JunkTo(s)), Count(queue[s], Junk) + 1, Unread(s), notes[s] + 1, faults)
    BY <2>4, ProxyCountsTyped, ExcusedUnasked
  <2>7. Count(client, NotesTo(s)) + Count(queue'[s], Unasked) = notes'[s]
    <3>1. Count(client, NotesTo(s)) \in Nat /\ Count(queue[s], Unasked) \in Nat
      BY ProxyCountsTyped
    <3>2. QED
      BY <2>1, <2>2, <2>4, <3>1
  <2>8. QED
    BY <1>1, <2>1, <2>2, <2>3, <2>5, <2>6, <2>7 DEF Tally
<1>5. QED
  BY <1>3, <1>4

LEMMA BreakTally ==
  ASSUME ProxyTyped, \A r \in Servers : Tally(r), NEW t \in Servers, Break(t), NEW s \in Servers
  PROVE  Tally(s)'
<1>1. /\ UNCHANGED <<pc, req, asked, inbox, client, replied, notes>>
      /\ up[t] /\ up' = [up EXCEPT ![t] = FALSE] /\ up \in [Servers -> BOOLEAN]
      /\ faults' = faults + 1
      /\ queue' = queue \/ (t \in Http /\ queue' = [queue EXCEPT ![t] = Append(queue[t], None)])
      /\ queue \in [Servers -> Seq(Answers)] /\ None \in Answers /\ None.id = 0 /\ None # Note
  BY DEF Break, Fault, Enqueue, ProxyTyped, Answers, None, Note
<1>2. Expecting(s)' <=> Expecting(s)
  BY <1>1 DEF Expecting
<1>3. CASE s # t
  <2>1. queue'[s] = queue[s] /\ up'[s] = up[s]
    BY <1>1, <1>3
  <2>2. QED
    BY <1>1, <1>2, <1>3, <2>1, TallyElsewhere
<1>4. CASE s = t
  <2>1. /\ Expected(s)' = Expected(s) /\ Unfelt(s) = 0 /\ Unread(s) = 0 /\ Owing(s)' = 0
        /\ Unfelt(s)' \in {0, 1} /\ Unread(s)' \in {0, 1}
        /\ s \in Http => Unfelt(s)' = 0 /\ Unread(s)' = 0
        /\ ~up'[s]
    BY <1>1, <1>2, <1>4 DEF Expected, Dead, Unfelt, Unread, Owing
  <2>2. /\ Balanced(Owing(s), Len(queue[s]), replied[s], Unfelt(s), Expected(s), notes[s], faults)
        /\ Excused(Count(client, JunkTo(s)), Count(queue[s], Junk), 0, notes[s], faults)
        /\ Count(client, NotesTo(s)) + Count(queue[s], Unasked) = notes[s]
        /\ replied[s] <= Count(client, NotesTo(s))
    BY <2>1 DEF Tally
  <2>3. /\ Balanced(0, Len(queue[s]), replied[s], Unfelt(s)', Expected(s), notes[s], faults + 1)
        /\ Balanced(0, Len(queue[s]) + 1, replied[s], 0, Expected(s), notes[s], faults + 1)
    <3>1. /\ Balanced(0, Len(queue[s]), replied[s], 0, Expected(s), notes[s], faults + 1)
          /\ Balanced(0, Len(queue[s]), replied[s], 1, Expected(s), notes[s], faults + 1)
          /\ Balanced(0, Len(queue[s]) + 1, replied[s], 0, Expected(s), notes[s], faults + 1)
      BY <2>2, ProxyCountsTyped, BalanceBroken
    <3>2. QED
      BY <2>1, <3>1
  <2>4. /\ Excused(Count(client, JunkTo(s)), Count(queue[s], Junk), 0, notes[s], faults + 1)
        /\ Excused(Count(client, JunkTo(s)), Count(queue[s], Junk) + 1, 0, notes[s], faults + 1)
        /\ Excused(Count(client, JunkTo(s)), Count(queue[s], Junk), 0 + 1, notes[s], faults + 1)
    BY <2>2, ProxyCountsTyped, ExcusedFailed
  <2>5. faults' > 0
    <3>1. faults \in Nat
      BY ProxyCountsTyped
    <3>2. QED
      BY <1>1, <3>1
  <2>6. CASE queue' = queue
    <3>1. Excused(Count(client, JunkTo(s)), Count(queue[s], Junk), Unread(s)', notes[s], faults + 1)
      BY <2>1, <2>4
    <3>2. QED
      BY <1>1, <2>1, <2>2, <2>3, <2>5, <2>6, <3>1 DEF Tally
  <2>7. CASE s \in Http /\ queue'[s] = Append(queue[s], None)
    <3>1. queue[s] \in Seq(Answers)
      BY <1>1
    <3>2. /\ Len(queue'[s]) = Len(queue[s]) + 1
          /\ Count(queue'[s], Unasked) = Count(queue[s], Unasked)
          /\ Count(queue'[s], Junk) = Count(queue[s], Junk) + 1
      <4>1. /\ Len(queue'[s]) = Len(queue[s]) + 1
            /\ Count(queue'[s], Unasked) = Count(queue[s], Unasked) + IF None = Note THEN 1 ELSE 0
            /\ Count(queue'[s], Junk) = Count(queue[s], Junk) + IF None.id = 0 THEN 1 ELSE 0
        BY <1>1, <2>7, <3>1, QueueCounts
      <4>2. Count(queue[s], Unasked) \in Nat
        BY ProxyCountsTyped
      <4>3. QED
        BY <1>1, <4>1, <4>2
    <3>3. QED
      BY <1>1, <2>1, <2>2, <2>3, <2>4, <2>5, <2>7, <3>2 DEF Tally
  <2>8. QED
    BY <1>1, <1>4, <2>6, <2>7
<1>5. QED
  BY <1>3, <1>4

LEMMA NextTally ==
  ASSUME ProxyTyped, \A s \in Servers : Tally(s), [Next]_vars
  PROVE  \A s \in Servers : Tally(s)'
<1> SUFFICES ASSUME NEW s \in Servers PROVE Tally(s)'
  OBVIOUS
<1>1. ASSUME NEW r \in Servers, NEW t \in Tools, NEW labels \in Contents, Call(r, t, labels)
      PROVE  Tally(s)'
  <2>1. \/ UNCHANGED <<pc, req>>
        \/ pc' = "write" /\ req'.kind = "call"
    BY <1>1 DEF Call
  <2>2. QED
    BY <1>1, <2>1, AskTally DEF Call
<1>2. ASSUME NEW r \in Servers, NEW kind \in {"request", "note"}, Forward(r, kind)
      PROVE  Tally(s)'
  BY <1>2, AskTally DEF Forward
<1>3. ASSUME NEW r \in Servers, Reply(r) PROVE Tally(s)'
  BY <1>3, ReplyTally
<1>4. CASE Unknown
  BY <1>4, AskTally DEF Unknown
<1>5. CASE Write \/ PostRefused \/ PostFailed
  BY <1>5, WriteTally
<1>6. CASE WriteBroken \/ Stop
  BY <1>6, StopTally
<1>7. CASE ReadResponse
  BY <1>7, ReadResponseTally
<1>8. CASE ReadEnd
  BY <1>8, ReadEndTally
<1>9. ASSUME NEW r \in Servers, Serve(r) PROVE Tally(s)'
  BY <1>9, ServeTally
<1>10. ASSUME NEW r \in Servers, Speak(r) PROVE Tally(s)'
  BY <1>10, SpeakTally
<1>11. ASSUME NEW r \in Servers, Break(r) PROVE Tally(s)'
  BY <1>11, BreakTally
<1>12. CASE UNCHANGED vars
  BY <1>12, TallyElsewhere DEF vars, Expecting
<1>13. QED
  BY <1>1, <1>2, <1>3, <1>4, <1>5, <1>6, <1>7, <1>8, <1>9, <1>10, <1>11, <1>12 DEF Next, Gateway
-----------------------------------------------------------------------------
(* Answers and the requests they belong to.                                 *)

LEMMA ComingTyped ==
  ASSUME ProxyTyped, NEW s \in Servers, NEW n
  PROVE  /\ Had(s, n) \in Nat /\ Coming(s, n) \in Nat
         /\ Count(queue[s], AnswersTo(n)) \in Nat /\ Count(inbox[s], RequestsOf(n)) \in Nat
<1>1. client \in Seq(Entries) /\ queue[s] \in Seq(Answers) /\ inbox[s] \in Seq(Messages)
  BY DEF ProxyTyped
<1>2. /\ Count(client, AnsweredWith(s, n)) \in Nat /\ Count(queue[s], AnswersTo(n)) \in Nat
      /\ Count(inbox[s], RequestsOf(n)) \in Nat
  BY <1>1, CountIsNatural
<1>3. QED
  BY <1>2 DEF Had, Coming

LEMMA InitOnce == Init => AnsweredOnce /\ AnsweredLater
<1>1. ASSUME Init, NEW s \in Servers, NEW n \in 1..MaxMessages PROVE Once(s, n)
  <2>1. Had(s, n) = 0 /\ Coming(s, n) = 0
    BY <1>1, CountEmpty DEF Init, Had, Coming
  <2>2. QED
    BY <2>1 DEF Once
<1>2. ASSUME Init PROVE AnsweredLater
  BY <1>2 DEF Init, AnsweredLater
<1>3. QED
  BY <1>1, <1>2 DEF AnsweredOnce

\* Nothing more comes of message n than came.
LEMMA OnceKept ==
  ASSUME ProxyTyped, NEW s \in Servers, NEW n, Once(s, n),
         Coming(s, n)' \in Nat, Coming(s, n)' <= Coming(s, n),
         Had(s, n)' \in Nat, Had(s, n)' + Coming(s, n)' <= Had(s, n) + Coming(s, n),
         n > asked' \/ (pc' = "write" /\ n = asked') => n > asked \/ (pc = "write" /\ n = asked),
         pc' # "stopped" => pc # "stopped" /\ (KnownTo(s, n) => KnownTo(s, n)')
  PROVE  Once(s, n)'
<1>1. Had(s, n) \in Nat /\ Coming(s, n) \in Nat
  BY ComingTyped
<1>2. Had(s, n)' + Coming(s, n)' <= 1
  BY <1>1 DEF Once
<1>3. Had(s, n) + Coming(s, n) = 0 => Had(s, n)' + Coming(s, n)' = 0
  BY <1>1
<1>4. Coming(s, n)' > 0 => Coming(s, n) > 0
  BY <1>1
<1>5. QED
  BY <1>2, <1>3, <1>4 DEF Once

\* A step that leaves the sequences, or appends what answers nothing.
LEMMA SameComing ==
  ASSUME ProxyTyped, NEW s \in Servers, NEW n \in 1..MaxMessages,
         UNCHANGED <<inbox, client>>,
         \/ queue'[s] = queue[s]
         \/ \E m \in Answers : m.id # n /\ queue'[s] = Append(queue[s], m)
  PROVE  Had(s, n)' = Had(s, n) /\ Coming(s, n)' = Coming(s, n)
<1>1. queue[s] \in Seq(Answers) /\ Count(queue[s], AnswersTo(n)) \in Nat
  BY ComingTyped DEF ProxyTyped
<1>2. Count(queue'[s], AnswersTo(n)) = Count(queue[s], AnswersTo(n))
  <2>1. ASSUME NEW m \in Answers, m.id # n, queue'[s] = Append(queue[s], m)
        PROVE  Count(queue'[s], AnswersTo(n)) = Count(queue[s], AnswersTo(n))
    <3>1. Count(queue'[s], AnswersTo(n)) =
              Count(queue[s], AnswersTo(n)) + IF m.id = n THEN 1 ELSE 0
      BY <1>1, <2>1, QueueCounts
    <3>2. QED
      BY <1>1, <2>1, <3>1
  <2>2. QED
    BY <2>1
<1>3. QED
  BY <1>2 DEF Had, Coming

LEMMA AskOnce ==
  ASSUME ProxyTyped, AnsweredOnce, pc = "idle", asked' = asked + 1,
         UNCHANGED <<client, upstream>>, pc' \in {"idle", "write"}
  PROVE  AnsweredOnce'
<1>1. ASSUME NEW s \in Servers, NEW n \in 1..MaxMessages PROVE Once(s, n)'
  <2>1. Had(s, n)' = Had(s, n) /\ Coming(s, n)' = Coming(s, n)
    BY SameComing DEF upstream
  <2>2. Had(s, n) \in Nat /\ Coming(s, n) \in Nat
    BY ComingTyped
  <2>3. n > asked' \/ (pc' = "write" /\ n = asked') => n > asked
    BY ProxyBounds DEF ProxyTyped
  <2>4. KnownTo(s, n) => KnownTo(s, n)'
    BY DEF KnownTo
  <2>5. Once(s, n)
    BY DEF AnsweredOnce
  <2>6. QED
    BY <2>1, <2>2, <2>3, <2>4, <2>5, OnceKept
<1>2. QED
  BY <1>1 DEF AnsweredOnce

LEMMA WriteOnce ==
  ASSUME ProxyTyped, AnsweredOnce, Write \/ PostRefused \/ PostFailed
  PROVE  AnsweredOnce'
<1>1. /\ pc = "write" /\ Written /\ UNCHANGED <<asked, up, client, replied, notes>>
      /\ req \in Messages /\ req.to \in Servers /\ req.id = asked /\ req.kind \in Kinds
      /\ inbox \in [Servers -> Seq(Messages)] /\ queue \in [Servers -> Seq(Answers)]
  BY MessagesTyped DEF Write, PostRefused, PostFailed, ProxyTyped
<1>2. pc' \in {"idle", "read"} /\ (req.kind # "note" => pc' = "read" /\ req' = req)
  BY <1>1 DEF Written
<1>3. /\ None \in Answers /\ None.id = 0
      /\ Other(req) \in Answers /\ Other(req).id = req.id
  BY <1>1, MessagesTyped DEF Answers, None, Other
<1>4. \/ inbox' = inbox /\ queue' = queue
      \/ Deliver /\ (queue' = queue \/ Enqueue(req.to, None))
      \/ inbox' = inbox /\ Enqueue(req.to, None)
      \/ inbox' = inbox /\ Enqueue(req.to, Other(req)) /\ req.kind \in {"call", "request"}
  BY DEF Write, PostRefused, PostFailed
<1>5. ASSUME NEW s \in Servers, NEW n \in 1..MaxMessages PROVE Once(s, n)'
  <2>1. Once(s, n) /\ Had(s, n) \in Nat /\ Coming(s, n) \in Nat
        /\ Count(queue[s], AnswersTo(n)) \in Nat /\ Count(inbox[s], RequestsOf(n)) \in Nat
    BY ComingTyped DEF AnsweredOnce
  <2>2. Had(s, n)' = Had(s, n)
    BY <1>1 DEF Had
  <2>3. Deliver => Count(inbox'[s], RequestsOf(n)) = Count(inbox[s], RequestsOf(n))
            + IF s = req.to /\ req.kind \in {"call", "request"} /\ req.id = n THEN 1 ELSE 0
    <3>1. SUFFICES ASSUME Deliver
                   PROVE  Count(inbox'[s], RequestsOf(n)) = Count(inbox[s], RequestsOf(n))
                              + IF s = req.to /\ req.kind \in {"call", "request"} /\ req.id = n
                                THEN 1 ELSE 0
      OBVIOUS
    <3>2. CASE s = req.to
      <4>1. inbox'[s] = Append(inbox[s], req)
        BY <1>1, <3>1, <3>2 DEF Deliver
      <4>2. QED
        BY <1>1, <3>2, <4>1, InboxCounts
    <3>3. CASE s # req.to
      <4>1. inbox'[s] = inbox[s]
        BY <1>1, <3>1, <3>3 DEF Deliver
      <4>2. QED
        BY <2>1, <3>3, <4>1
    <3>4. QED
      BY <3>2, <3>3
  <2>4. ASSUME NEW m \in Answers, Enqueue(req.to, m)
        PROVE  Count(queue'[s], AnswersTo(n)) =
                   Count(queue[s], AnswersTo(n)) + IF s = req.to /\ m.id = n THEN 1 ELSE 0
    <3>1. CASE s = req.to
      <4>1. queue'[s] = Append(queue[s], m)
        BY <1>1, <2>4, <3>1 DEF Enqueue
      <4>2. QED
        BY <1>1, <3>1, <4>1, QueueCounts
    <3>2. CASE s # req.to
      <4>1. queue'[s] = queue[s]
        BY <1>1, <2>4, <3>2 DEF Enqueue
      <4>2. QED
        BY <2>1, <3>2, <4>1
    <3>3. QED
      BY <3>1, <3>2
  <2>5. Enqueue(req.to, None) => Count(queue'[s], AnswersTo(n)) = Count(queue[s], AnswersTo(n))
    <3>1. None.id # n
      BY <1>3
    <3>2. QED
      BY <1>3, <2>1, <2>4, <3>1
  <2>6. CASE s = req.to /\ n = req.id /\ req.kind \in {"call", "request"}
    <3>1. Had(s, n) + Coming(s, n) = 0
      BY <1>1, <2>1, <2>6 DEF Once
    <3>2. /\ Count(queue[s], AnswersTo(n)) = 0 /\ Count(inbox[s], RequestsOf(n)) = 0
          /\ Had(s, n) = 0
      BY <2>1, <3>1 DEF Coming
    <3>3. Enqueue(req.to, Other(req)) => Count(queue'[s], AnswersTo(n)) = 1
      BY <1>3, <2>4, <2>6, <3>2
    <3>4. Deliver => Count(inbox'[s], RequestsOf(n)) = 1
      BY <2>3, <2>6, <3>2
    <3>5. Coming(s, n)' \in {0, 1}
      BY <1>4, <2>5, <3>2, <3>3, <3>4 DEF Coming
    <3>6. KnownTo(s, n)' /\ pc' = "read" /\ asked' = n
      BY <1>1, <1>2, <2>6 DEF KnownTo
    <3>7. ~(n > asked')
      BY <3>6
    <3>8. Had(s, n)' + Coming(s, n)' <= 1
      BY <2>2, <3>2, <3>5
    <3>9. QED
      BY <3>6, <3>7, <3>8 DEF Once
  <2>7. CASE ~(s = req.to /\ n = req.id /\ req.kind \in {"call", "request"})
    <3>1. Deliver => Count(inbox'[s], RequestsOf(n)) = Count(inbox[s], RequestsOf(n))
      BY <2>1, <2>3, <2>7
    <3>2. Enqueue(req.to, Other(req)) /\ req.kind \in {"call", "request"} =>
              Count(queue'[s], AnswersTo(n)) = Count(queue[s], AnswersTo(n))
      BY <1>3, <2>1, <2>4, <2>7
    <3>3. Coming(s, n)' = Coming(s, n)
      BY <1>4, <2>5, <3>1, <3>2 DEF Coming
    <3>4. KnownTo(s, n) => KnownTo(s, n)'
      BY <1>1 DEF KnownTo
    <3>5. QED
      BY <1>1, <1>2, <2>1, <2>2, <3>3, <3>4, OnceKept
  <2>8. QED
    BY <2>6, <2>7
<1>6. QED
  BY <1>5 DEF AnsweredOnce

LEMMA StopOnce ==
  ASSUME ProxyTyped, AnsweredOnce, WriteBroken \/ Stop
  PROVE  AnsweredOnce'
<1>1. UNCHANGED <<asked, client, inbox, queue>> /\ pc' = "stopped"
  BY DEF WriteBroken, Stop, upstream
<1>2. ASSUME NEW s \in Servers, NEW n \in 1..MaxMessages PROVE Once(s, n)'
  <2>1. Had(s, n)' = Had(s, n) /\ Coming(s, n)' = Coming(s, n)
    BY <1>1, SameComing
  <2>2. Once(s, n)
    BY DEF AnsweredOnce
  <2>3. QED
    BY <1>1, <2>1, <2>2 DEF Once
<1>3. QED
  BY <1>2 DEF AnsweredOnce

\* The client has one more entry, for the message in progress.
LEMMA CloseKnown ==
  ASSUME ProxyTyped, pc = "read", pc' = "idle", NEW e \in Entries, client' = Append(client, e),
         e.for = req.id, e.to = req.to, NEW s, NEW n, KnownTo(s, n)
  PROVE  KnownTo(s, n)'
<1>1. /\ Len(client) \in Nat /\ DOMAIN client = 1..Len(client)
      /\ DOMAIN client' = 1..(Len(client) + 1) /\ client'[Len(client) + 1] = e
      /\ \A i \in 1..Len(client) : client'[i] = client[i]
  BY Appended DEF ProxyTyped
<1>2. CASE \E j \in DOMAIN client : client[j].to = s /\ client[j].for = n
  BY <1>1, <1>2 DEF KnownTo
<1>3. CASE req.to = s /\ req.id = n
  <2>1. Len(client) + 1 \in DOMAIN client'
    BY <1>1
  <2>2. QED
    BY <1>1, <1>3, <2>1 DEF KnownTo
<1>4. QED
  BY <1>2, <1>3 DEF KnownTo

\* What is read is no longer coming: the client has it.
LEMMA ReadComing ==
  ASSUME ProxyTyped, pc = "read", queue[req.to] # <<>>, UNCHANGED inbox,
         queue' = [queue EXCEPT ![req.to] = Tail(queue[req.to])],
         NEW e \in Entries, client' = Append(client, e), e.to = req.to,
         e.got = Head(queue[req.to]), NEW s \in Servers, NEW n \in 1..MaxMessages
  PROVE  /\ Coming(s, n)' \in Nat
         /\ \/ Had(s, n)' = Had(s, n) + 1 /\ Coming(s, n) = Coming(s, n)' + 1
            \/ Had(s, n)' = Had(s, n) /\ Coming(s, n) = Coming(s, n)'
<1>1. /\ req.to \in Servers /\ queue[req.to] \in Seq(Answers) /\ client \in Seq(Entries)
      /\ queue \in [Servers -> Seq(Answers)]
  BY MessagesTyped DEF ProxyTyped
<1>2. Count(client', AnsweredWith(s, n)) =
          Count(client, AnsweredWith(s, n)) + IF e.to = s /\ e.got.id = n THEN 1 ELSE 0
  <2>1. Count(Append(client, e), AnsweredWith(s, n)) =
            Count(client, AnsweredWith(s, n)) + IF e.to = s /\ e.got.id = n THEN 1 ELSE 0
    <3>1. Count(Append(client, e), AnsweredWith(s, n)) =
              Count(client, AnsweredWith(s, n)) + IF e \in AnsweredWith(s, n) THEN 1 ELSE 0
      BY <1>1, CountAppended
    <3>2. e \in AnsweredWith(s, n) <=> e.to = s /\ e.got.id = n
      BY DEF AnsweredWith
    <3>3. QED
      BY <3>1, <3>2
  <2>2. client' = Append(client, e)
    OBVIOUS
  <2>3. QED
    BY <2>1, <2>2
<1>3. /\ Count(client, AnsweredWith(s, n)) \in Nat
      /\ Count(queue[s], AnswersTo(n)) \in Nat /\ Count(inbox[s], RequestsOf(n)) \in Nat
  BY ComingTyped DEF Had
<1>4. CASE s = req.to
  <2>1. queue'[s] = Tail(queue[s]) /\ Tail(queue[s]) \in Seq(Answers)
    BY <1>1, <1>4, Taken
  <2>2. Count(queue[s], AnswersTo(n)) =
            Count(queue'[s], AnswersTo(n)) + IF Head(queue[s]).id = n THEN 1 ELSE 0
    BY <1>1, <1>4, <2>1, QueueTaken
  <2>3. Count(queue'[s], AnswersTo(n)) \in Nat
    BY <2>1, CountIsNatural
  <2>4. CASE e.got.id = n
    <3>1. Count(client', AnsweredWith(s, n)) = Count(client, AnsweredWith(s, n)) + 1
      BY <1>2, <1>4, <2>4
    <3>2. Count(queue[s], AnswersTo(n)) = Count(queue'[s], AnswersTo(n)) + 1
      BY <1>4, <2>2, <2>4
    <3>3. Had(s, n)' = Had(s, n) + 1
      BY <3>1 DEF Had
    <3>4. /\ Coming(s, n)' = Count(queue'[s], AnswersTo(n)) + Count(inbox[s], RequestsOf(n))
          /\ Coming(s, n) = Count(queue'[s], AnswersTo(n)) + 1 + Count(inbox[s], RequestsOf(n))
      BY <3>2 DEF Coming
    <3>5. QED
      BY <1>3, <2>3, <3>3, <3>4
  <2>5. CASE e.got.id # n
    <3>1. Count(client', AnsweredWith(s, n)) = Count(client, AnsweredWith(s, n))
      BY <1>2, <1>3, <2>5
    <3>2. Count(queue[s], AnswersTo(n)) = Count(queue'[s], AnswersTo(n))
      BY <1>4, <2>2, <2>3, <2>5
    <3>3. QED
      BY <1>3, <2>3, <3>1, <3>2 DEF Had, Coming
  <2>6. QED
    BY <2>4, <2>5
<1>5. CASE s # req.to
  <2>1. Count(client', AnsweredWith(s, n)) = Count(client, AnsweredWith(s, n))
    BY <1>2, <1>3, <1>5
  <2>2. queue'[s] = queue[s]
    BY <1>1, <1>5
  <2>3. QED
    BY <1>3, <2>1, <2>2 DEF Had, Coming
<1>6. QED
  BY <1>4, <1>5

\* Whose answer is first in the queue of a server is known to it.
LEMMA HeadKnown ==
  ASSUME ProxyTyped, AnsweredOnce, pc # "stopped", NEW s \in Servers, queue[s] # <<>>, NEW n,
         n = Head(queue[s]).id, n > 0
  PROVE  n \in 1..MaxMessages /\ KnownTo(s, n)
<1>1. queue[s] \in Seq(Answers)
  BY DEF ProxyTyped
<1>2. Head(queue[s]) \in Answers /\ Tail(queue[s]) \in Seq(Answers)
  BY <1>1, Taken
<1>3. n \in 1..MaxMessages
  BY <1>2, AnswersTyped, ProxyBounds
<1>4. Count(queue[s], AnswersTo(n)) = Count(Tail(queue[s]), AnswersTo(n)) + 1
  <2>1. Count(queue[s], AnswersTo(n)) = Count(Tail(queue[s]), AnswersTo(n))
                                            + IF Head(queue[s]).id = n THEN 1 ELSE 0
    BY <1>1, QueueTaken
  <2>2. QED
    BY <2>1
<1>5. Count(Tail(queue[s]), AnswersTo(n)) \in Nat /\ Count(inbox[s], RequestsOf(n)) \in Nat
  BY <1>2, CountIsNatural, ComingTyped
<1>6. Coming(s, n) > 0
  BY <1>4, <1>5 DEF Coming
<1>7. QED
  BY <1>3, <1>6 DEF AnsweredOnce, Once

\* The client gets m for the message in progress, and m is of no later message.
LEMMA CloseLater ==
  ASSUME ProxyTyped, AnsweredLater, pc = "read", pc' = "idle", NEW e \in Entries,
         client' = Append(client, e), e.for = req.id, e.to = req.to,
         NEW n, n = e.got.id, n > 0 => KnownTo(req.to, n)
  PROVE  AnsweredLater'
<1>1. /\ Len(client) \in Nat /\ DOMAIN client = 1..Len(client)
      /\ DOMAIN client' = 1..(Len(client) + 1) /\ client'[Len(client) + 1] = e
      /\ \A i \in 1..Len(client) : client'[i] = client[i]
  BY Appended DEF ProxyTyped
<1>2. ASSUME NEW i \in DOMAIN client', client'[i].got.id > 0
      PROVE  \E j \in 1..i : client'[j].to = client'[i].to /\ client'[j].for = client'[i].got.id
  <2>1. CASE i \in 1..Len(client)
    <3>1. PICK j \in 1..i : client[j].to = client[i].to /\ client[j].for = client[i].got.id
      BY <1>1, <1>2, <2>1 DEF AnsweredLater
    <3>2. j \in 1..Len(client)
      BY <1>1, <2>1
    <3>3. QED
      BY <1>1, <2>1, <3>1, <3>2
  <2>2. CASE i = Len(client) + 1
    <3>1. client'[i] = e /\ n > 0
      BY <1>1, <1>2, <2>2
    <3>2. CASE \E j \in DOMAIN client : client[j].to = req.to /\ client[j].for = n
      <4>1. PICK j \in DOMAIN client : client[j].to = req.to /\ client[j].for = n
        BY <3>2
      <4>2. j \in 1..i /\ client'[j] = client[j]
        BY <1>1, <2>2
      <4>3. QED
        BY <3>1, <4>1, <4>2
    <3>3. CASE req.id = n
      <4>1. i \in 1..i
        BY <1>1, <2>2
      <4>2. QED
        BY <3>1, <3>3, <4>1
    <3>4. QED
      BY <3>1, <3>2, <3>3 DEF KnownTo
  <2>3. QED
    BY <1>1, <1>2, <2>1, <2>2
<1>3. QED
  BY <1>2 DEF AnsweredLater

LEMMA ReadOnce ==
  ASSUME ProxyTyped, AnsweredOnce, AnsweredLater, ReadResponse
  PROVE  AnsweredOnce' /\ AnsweredLater'
<1>1. /\ req.to \in Servers /\ queue[req.to] \in Seq(Answers) /\ queue[req.to] # <<>>
      /\ Head(queue[req.to]) \in Answers
      /\ pc = "read" /\ queue' = [queue EXCEPT ![req.to] = Tail(queue[req.to])]
      /\ UNCHANGED <<asked, inbox>>
  BY MessagesTyped, Taken DEF ReadResponse, ProxyTyped
<1>2. PICK e \in Entries : /\ client' = Append(client, e)
                           /\ e.for = req.id /\ e.to = req.to /\ e.got = Head(queue[req.to])
  <2>1. PICK shown \in Contents \union {{}} : Close(Head(queue[req.to]), shown)
    BY <1>1, AnswersTyped DEF ReadResponse
  <2>2. QED
    BY <1>1, <2>1, CloseTyped
<1>3. pc' = "idle"
  BY DEF ReadResponse, Close
<1>4. ASSUME NEW s \in Servers, NEW n \in 1..MaxMessages PROVE Once(s, n)'
  <2>1. Had(s, n) \in Nat /\ Coming(s, n) \in Nat /\ Coming(s, n)' \in Nat
    BY <1>1, <1>2, ComingTyped, ReadComing
  <2>2. \/ Had(s, n)' = Had(s, n) + 1 /\ Coming(s, n) = Coming(s, n)' + 1
        \/ Had(s, n)' = Had(s, n) /\ Coming(s, n) = Coming(s, n)'
    BY <1>1, <1>2, ReadComing
  <2>3. /\ Coming(s, n)' <= Coming(s, n) /\ Had(s, n)' \in Nat
        /\ Had(s, n)' + Coming(s, n)' <= Had(s, n) + Coming(s, n)
    BY <2>1, <2>2
  <2>4. KnownTo(s, n) => KnownTo(s, n)'
    BY <1>1, <1>2, <1>3, CloseKnown
  <2>5. Once(s, n)
    BY DEF AnsweredOnce
  <2>6. QED
    BY <1>1, <1>3, <2>1, <2>3, <2>4, <2>5, OnceKept
<1>5. AnsweredLater'
  <2>1. PICK n : n = Head(queue[req.to]).id
    OBVIOUS
  <2>2. n > 0 => KnownTo(req.to, n)
    BY <1>1, <2>1, HeadKnown
  <2>3. QED
    BY <1>1, <1>2, <1>3, <2>1, <2>2, CloseLater
<1>6. QED
  BY <1>4, <1>5 DEF AnsweredOnce

LEMMA ReadEndOnce ==
  ASSUME ProxyTyped, AnsweredOnce, AnsweredLater, ReadEnd
  PROVE  AnsweredOnce' /\ AnsweredLater'
<1>1. pc = "read" /\ pc' = "idle" /\ UNCHANGED <<asked, inbox, queue>> /\ client \in Seq(Entries)
  BY DEF ReadEnd, Close, upstream, ProxyTyped
<1>2. None \in Answers /\ None.id = 0
  BY DEF Answers, None
<1>3. PICK e \in Entries : client' = Append(client, e) /\ e.for = req.id /\ e.to = req.to /\ e.got = None
  <2>1. Close(None, {})
    BY DEF ReadEnd
  <2>2. {} \in Contents \union {{}}
    OBVIOUS
  <2>3. QED
    BY <1>1, <1>2, <2>1, <2>2, CloseTyped
<1>4. ASSUME NEW s \in Servers, NEW n \in 1..MaxMessages PROVE Once(s, n)'
  <2>1. Once(s, n) /\ Had(s, n) \in Nat /\ Coming(s, n) \in Nat
    BY ComingTyped DEF AnsweredOnce
  <2>2. Coming(s, n)' = Coming(s, n)
    BY <1>1 DEF Coming
  <2>3. Had(s, n)' = Had(s, n)
    <3>1. e \notin AnsweredWith(s, n)
      BY <1>2, <1>3 DEF AnsweredWith
    <3>2. Count(Append(client, e), AnsweredWith(s, n)) =
              Count(client, AnsweredWith(s, n)) + IF e \in AnsweredWith(s, n) THEN 1 ELSE 0
      BY <1>1, CountAppended
    <3>3. Count(client', AnsweredWith(s, n)) = Count(client, AnsweredWith(s, n))
      BY <1>3, <2>1, <3>1, <3>2 DEF Had
    <3>4. QED
      BY <3>3 DEF Had
  <2>4. KnownTo(s, n) => KnownTo(s, n)'
    BY <1>1, <1>3, CloseKnown
  <2>5. QED
    BY <1>1, <2>1, <2>2, <2>3, <2>4, OnceKept
<1>5. AnsweredLater'
  <2>1. PICK n : n = e.got.id
    OBVIOUS
  <2>2. ~(n > 0)
    BY <1>2, <1>3, <2>1
  <2>3. QED
    BY <1>1, <1>3, <2>1, <2>2, CloseLater
<1>6. QED
  BY <1>4, <1>5 DEF AnsweredOnce

\* What a server took from its inbox is its answer, or comes to nothing.
LEMMA ServeComing ==
  ASSUME ProxyTyped, NEW t \in Servers, Serve(t), NEW s \in Servers, NEW n \in 1..MaxMessages
  PROVE  Coming(s, n)' \in Nat /\ Coming(s, n)' <= Coming(s, n)
<1> DEFINE m == Head(inbox[t])
<1>1. /\ inbox[t] \in Seq(Messages) /\ inbox[t] # <<>> /\ m \in Messages
      /\ Tail(inbox[t]) \in Seq(Messages)
      /\ inbox' = [inbox EXCEPT ![t] = Tail(inbox[t])] /\ inbox \in [Servers -> Seq(Messages)]
      /\ queue[t] \in Seq(Answers) /\ queue \in [Servers -> Seq(Answers)]
  BY Taken DEF Serve, ProxyTyped
<1>2. \/ /\ m.kind \in {"call", "request"}
         /\ \E a \in Answers : a.id = m.id /\ queue' = [queue EXCEPT ![t] = Append(queue[t], a)]
      \/ queue' = queue
  <2>1. Other(m).id = m.id /\ \A labels : Result(m, labels).id = m.id
    BY DEF Other, Result
  <2>2. \/ m.kind = "call" /\ \E labels \in Contents : Enqueue(t, Result(m, labels))
        \/ m.kind = "request" /\ Enqueue(t, Other(m))
        \/ queue' = queue
    BY DEF Serve
  <2>3. QED
    BY <1>1, <2>1, <2>2, MessagesTyped DEF Enqueue
<1>3. Count(queue[s], AnswersTo(n)) \in Nat /\ Count(inbox[s], RequestsOf(n)) \in Nat
  BY ComingTyped
<1>4. CASE s # t
  <2>1. inbox'[s] = inbox[s] /\ queue'[s] = queue[s]
    BY <1>1, <1>2, <1>4
  <2>2. QED
    BY <1>3, <2>1 DEF Coming
<1>5. CASE s = t
  <2>1. inbox'[s] = Tail(inbox[s])
    BY <1>1, <1>5
  <2>2. Count(inbox'[s], RequestsOf(n)) \in Nat
    BY <1>1, <1>5, <2>1, CountIsNatural
  <2>3. Count(inbox[s], RequestsOf(n)) = Count(inbox'[s], RequestsOf(n))
            + IF m.kind \in {"call", "request"} /\ m.id = n THEN 1 ELSE 0
    BY <1>1, <1>5, <2>1, InboxTaken
  <2>4. CASE queue' = queue
    <3>1. Count(inbox'[s], RequestsOf(n)) <= Count(inbox[s], RequestsOf(n))
      BY <2>2, <2>3
    <3>2. QED
      BY <1>3, <2>2, <2>4, <3>1 DEF Coming
  <2>5. ASSUME m.kind \in {"call", "request"}, NEW a \in Answers, a.id = m.id,
               queue'[s] = Append(queue[s], a)
        PROVE  Coming(s, n)' \in Nat /\ Coming(s, n)' <= Coming(s, n)
    <3>1. Count(queue'[s], AnswersTo(n)) =
              Count(queue[s], AnswersTo(n)) + IF m.id = n THEN 1 ELSE 0
      BY <1>1, <1>5, <2>5, QueueCounts
    <3>2. CASE m.id = n
      <4>1. /\ Count(queue'[s], AnswersTo(n)) = Count(queue[s], AnswersTo(n)) + 1
            /\ Count(inbox[s], RequestsOf(n)) = Count(inbox'[s], RequestsOf(n)) + 1
        BY <2>3, <2>5, <3>1, <3>2
      <4>2. QED
        BY <1>3, <2>2, <4>1 DEF Coming
    <3>3. CASE m.id # n
      <4>1. /\ Count(queue'[s], AnswersTo(n)) = Count(queue[s], AnswersTo(n))
            /\ Count(inbox[s], RequestsOf(n)) = Count(inbox'[s], RequestsOf(n))
        BY <1>3, <2>2, <2>3, <3>1, <3>3
      <4>2. QED
        BY <1>3, <2>2, <4>1 DEF Coming
    <3>4. QED
      BY <3>2, <3>3
  <2>6. QED
    BY <1>1, <1>2, <1>5, <2>4, <2>5
<1>6. QED
  BY <1>4, <1>5

LEMMA ServerOnce ==
  ASSUME ProxyTyped, AnsweredOnce, NEW t \in Servers, Serve(t) \/ Speak(t) \/ Break(t)
  PROVE  AnsweredOnce'
<1>1. UNCHANGED <<pc, req, asked, client>>
  BY DEF Serve, Speak, Break
<1>2. ASSUME NEW s \in Servers, NEW n \in 1..MaxMessages PROVE Once(s, n)'
  <2>1. Once(s, n) /\ Had(s, n) \in Nat /\ Coming(s, n) \in Nat
    BY ComingTyped DEF AnsweredOnce
  <2>2. Had(s, n)' = Had(s, n)
    BY <1>1 DEF Had
  <2>3. Coming(s, n)' \in Nat /\ Coming(s, n)' <= Coming(s, n)
    <3>1. CASE Serve(t)
      BY <3>1, ServeComing
    <3>2. CASE Speak(t) \/ Break(t)
      <4>1. Note \in Answers /\ Note.id = 0 /\ None \in Answers /\ None.id = 0
        BY DEF Answers, Note, None
      <4>2. queue \in [Servers -> Seq(Answers)] /\ UNCHANGED <<inbox, client>>
        BY <3>2 DEF ProxyTyped, Speak, Break
      <4>3. queue' = queue \/ Enqueue(t, Note) \/ Enqueue(t, None)
        BY <3>2 DEF Speak, Break
      <4>4. \/ queue'[s] = queue[s]
            \/ \E m \in Answers : m.id # n /\ queue'[s] = Append(queue[s], m)
        <5>1. ASSUME NEW m \in Answers, m.id = 0, Enqueue(t, m)
              PROVE  queue'[s] = queue[s] \/ (m.id # n /\ queue'[s] = Append(queue[s], m))
          BY <4>2, <5>1 DEF Enqueue
        <5>2. QED
          BY <4>1, <4>3, <5>1
      <4>5. QED
        BY <2>1, <4>2, <4>4, SameComing
    <3>3. QED
      BY <3>1, <3>2
  <2>4. KnownTo(s, n)' <=> KnownTo(s, n)
    BY <1>1 DEF KnownTo
  <2>5. QED
    BY <1>1, <2>1, <2>2, <2>3, <2>4, OnceKept
<1>3. QED
  BY <1>2 DEF AnsweredOnce

LEMMA NextOnce ==
  ASSUME ProxyTyped, AnsweredOnce, AnsweredLater, [Next]_vars
  PROVE  AnsweredOnce' /\ AnsweredLater'
<1>1. UNCHANGED client => AnsweredLater'
  BY DEF AnsweredLater
<1>2. ASSUME NEW r \in Servers, NEW t \in Tools, NEW labels \in Contents, Call(r, t, labels)
      PROVE  AnsweredOnce' /\ AnsweredLater'
  <2>1. pc' \in {"idle", "write"}
    BY <1>2 DEF Call
  <2>2. QED
    BY <1>1, <1>2, <2>1, AskOnce DEF Call
<1>3. ASSUME NEW r \in Servers, NEW kind \in {"request", "note"}, Forward(r, kind)
      PROVE  AnsweredOnce' /\ AnsweredLater'
  BY <1>1, <1>3, AskOnce DEF Forward
<1>4. ASSUME NEW r \in Servers, Reply(r) PROVE AnsweredOnce' /\ AnsweredLater'
  BY <1>1, <1>4, AskOnce DEF Reply
<1>5. CASE Unknown
  BY <1>1, <1>5, AskOnce DEF Unknown
<1>6. CASE Write \/ PostRefused \/ PostFailed
  <2>1. UNCHANGED client
    BY <1>6 DEF Write, PostRefused, PostFailed
  <2>2. QED
    BY <1>1, <1>6, <2>1, WriteOnce
<1>7. CASE WriteBroken \/ Stop
  <2>1. UNCHANGED client
    BY <1>7 DEF WriteBroken, Stop
  <2>2. QED
    BY <1>1, <1>7, <2>1, StopOnce
<1>8. CASE ReadResponse
  BY <1>8, ReadOnce
<1>9. CASE ReadEnd
  BY <1>9, ReadEndOnce
<1>10. ASSUME NEW r \in Servers, Serve(r) \/ Speak(r) \/ Break(r)
       PROVE  AnsweredOnce' /\ AnsweredLater'
  <2>1. UNCHANGED client
    BY <1>10 DEF Serve, Speak, Break
  <2>2. QED
    BY <1>1, <1>10, <2>1, ServerOnce
<1>11. CASE UNCHANGED vars
  BY <1>1, <1>11 DEF vars, AnsweredOnce, Once, Had, Coming, KnownTo
<1>12. QED
  BY <1>2, <1>3, <1>4, <1>5, <1>6, <1>7, <1>8, <1>9, <1>10, <1>11 DEF Next, Gateway
-----------------------------------------------------------------------------
(* What is screened.                                                        *)

LEMMA InitScreened == Init => ScreenedInv
BY DEF Init, ScreenedInv, Sent, InProgress, Shown

LEMMA ScreenedIsScreened == ScreenedInv => TrafficScreened
BY DEF ScreenedInv, Sent, Shown, Quiet, Allowed, TrafficScreened

\* A step that leaves the client and the servers as they are.
LEMMA SentKept ==
  ASSUME Sent, UNCHANGED inbox
  PROVE  Sent'
BY DEF Sent, Allowed

LEMMA ShownKept ==
  ASSUME Shown, UNCHANGED client, Quiet' => Quiet
  PROVE  Shown'
BY DEF Shown, ScannedAt

LEMMA AskScreened ==
  ASSUME ScreenedInv, UNCHANGED <<client, upstream>>, pc' # "read",
         pc' = "write" => Allowed(req.to, req)', pc' = "write" /\ req'.kind = "reply" => replied'[req'.to] > 0
  PROVE  ScreenedInv'
<1>1. Sent' /\ Shown'
  BY SentKept, ShownKept DEF upstream, ScreenedInv, Quiet
<1>2. InProgress'
  BY DEF InProgress
<1>3. QED
  BY <1>1, <1>2 DEF ScreenedInv

LEMMA CallScreened ==
  ASSUME ScreenedInv, NEW s \in Servers, NEW t \in Tools, NEW labels \in Contents,
         Call(s, t, labels)
  PROVE  ScreenedInv'
<1> DEFINE m == [kind |-> "call", id |-> asked + 1, to |-> s, tool |-> t, labels |-> labels]
<1>1. UNCHANGED <<client, upstream>> /\ pc = "idle"
  BY DEF Call
<1>2. Screen(<<s, t>>, {}) = "allow"
  BY DEF Screen
<1>3. \/ UNCHANGED <<pc, req>>
      \/ pc' = "write" /\ req' = [m EXCEPT !.labels = {}]
      \/ pc' = "write" /\ req' = m /\ Screen(<<s, t>>, labels) = "allow"
  BY DEF Call
<1>4. pc' # "read" /\ (pc' = "write" => req'.kind = "call" /\ Screen(<<req'.to, req'.tool>>, req'.labels) = "allow")
  BY <1>1, <1>2, <1>3
<1>5. pc' = "write" => Allowed(req.to, req)' /\ req'.kind # "reply"
  BY <1>4 DEF Allowed
<1>6. QED
  BY <1>1, <1>4, <1>5, AskScreened

\* What is written to a server is the only thing it owes or has said.
LEMMA QuietWrite ==
  ASSUME ProxyTyped, \A s \in Servers : Tally(s), InProgress, Quiet, pc = "write"
  PROVE  /\ req.to \in Servers /\ queue[req.to] = <<>>
         /\ \A i \in DOMAIN inbox[req.to] : inbox[req.to][i] \notin Requests
<1>1. req.to \in Servers
  BY MessagesTyped DEF ProxyTyped
<1> DEFINE s == req.to
<1> HIDE DEF s
<1>2. s \in Servers /\ Tally(s) /\ notes[s] = 0 /\ faults = 0
  BY <1>1 DEF s, Quiet
<1>3. /\ Count(client, NotesTo(s)) \in Nat /\ Count(queue[s], Unasked) \in Nat
      /\ replied[s] \in Nat /\ Owing(s) \in Nat /\ Len(queue[s]) \in Nat
  BY <1>2, ProxyCountsTyped
<1>4. replied[s] = 0 /\ up[s]
  <2>1. /\ replied[s] <= Count(client, NotesTo(s))
        /\ Count(client, NotesTo(s)) + Count(queue[s], Unasked) = 0
        /\ up[s]
    BY <1>2 DEF Tally
  <2>2. QED
    BY <1>3, <2>1
<1>5. Expected(s) = 0
  BY <1>4 DEF InProgress, Expected, Expecting, s
<1>6. Owing(s) + Len(queue[s]) + replied[s] = Expected(s) + notes[s]
  BY <1>2 DEF Tally, Balanced
<1>7. Owing(s) = 0 /\ Len(queue[s]) = 0
  BY <1>2, <1>3, <1>4, <1>5, <1>6
<1>8. queue[s] = <<>>
  BY <1>2, <1>7, EmptySeq DEF ProxyTyped
<1>9. inbox[s] \in Seq(Messages) /\ Count(inbox[s], Requests) = 0
  BY <1>2, <1>4, <1>7 DEF Owing, ProxyTyped
<1>10. At(inbox[s], Requests) = {}
  BY <1>9, CountIsNatural
<1>11. QED
  BY <1>1, <1>8, <1>10 DEF At, s

LEMMA WriteScreened ==
  ASSUME ProxyTyped, \A s \in Servers : Tally(s), ScreenedInv, Write \/ PostRefused \/ PostFailed
  PROVE  ScreenedInv'
<1>1. /\ pc = "write" /\ Written /\ UNCHANGED <<client, notes>> /\ faults \in Nat
      /\ req \in Messages /\ req.to \in Servers
      /\ inbox \in [Servers -> Seq(Messages)] /\ queue \in [Servers -> Seq(Answers)]
      /\ inbox' = inbox \/ Deliver
  BY MessagesTyped, ProxyBounds DEF Write, PostRefused, PostFailed, ProxyTyped
<1>2. Allowed(req.to, req)
  BY <1>1 DEF ScreenedInv, InProgress
<1>3. ASSUME Deliver
      PROVE  /\ inbox' = [inbox EXCEPT ![req.to] = Append(inbox[req.to], req)]
             /\ DOMAIN inbox[req.to] = 1..Len(inbox[req.to]) /\ Len(inbox[req.to]) \in Nat
             /\ DOMAIN inbox'[req.to] = 1..(Len(inbox[req.to]) + 1)
             /\ \A i \in 1..Len(inbox[req.to]) : inbox'[req.to][i] = inbox[req.to][i]
             /\ inbox'[req.to][Len(inbox[req.to]) + 1] = req
  <2>1. inbox[req.to] \in Seq(Messages)
    BY <1>1
  <2>2. inbox' = [inbox EXCEPT ![req.to] = Append(inbox[req.to], req)]
        /\ inbox'[req.to] = Append(inbox[req.to], req)
    BY <1>1, <1>3 DEF Deliver
  <2>3. QED
    BY <1>1, <2>1, <2>2, Appended
<1>4. Sent'
  <2>1. CASE inbox' = inbox
    BY <2>1, SentKept DEF ScreenedInv
  <2>2. CASE Deliver
    <3>1. ASSUME NEW s \in Servers, NEW i \in DOMAIN inbox'[s] PROVE Allowed(s, inbox'[s][i])
      <4>1. CASE s # req.to
        <5>1. inbox'[s] = inbox[s]
          BY <1>1, <1>3, <2>2, <4>1
        <5>2. QED
          BY <3>1, <5>1 DEF ScreenedInv, Sent
      <4>2. CASE s = req.to
        <5>1. CASE i = Len(inbox[s]) + 1
          BY <1>2, <1>3, <2>2, <4>2, <5>1
        <5>2. CASE i \in 1..Len(inbox[s])
          BY <1>3, <2>2, <4>2, <5>2 DEF ScreenedInv, Sent
        <5>3. QED
          BY <1>3, <2>2, <3>1, <4>2, <5>1, <5>2
      <4>3. QED
        BY <4>1, <4>2
    <3>2. QED
      BY <3>1 DEF Sent, Allowed
  <2>3. QED
    BY <1>1, <2>1, <2>2
<1>5. Quiet' => Quiet /\ ~PostFailed
  BY <1>1 DEF Quiet, Write, PostRefused, PostFailed, Fault
<1>6. Shown'
  BY <1>1, <1>5, ShownKept DEF ScreenedInv
<1>7. ASSUME Quiet', pc' = "read"
      PROVE  /\ req' = req
             /\ \A i \in DOMAIN queue'[req.to] : InTurn(req, queue'[req.to][i])
             /\ \A i \in DOMAIN inbox'[req.to] : InTurn(req, inbox'[req.to][i])
  <2>1. /\ queue[req.to] = <<>>
        /\ \A i \in DOMAIN inbox[req.to] : inbox[req.to][i] \notin Requests
    BY <1>1, <1>5, <1>7, QuietWrite DEF ScreenedInv
  <2>2. req' = req /\ InTurn(req, req)
    BY <1>1, <1>7 DEF Written, InTurn, Messages
  <2>3. \A i \in DOMAIN inbox[req.to] : InTurn(req, inbox[req.to][i])
    <3>1. TAKE i \in DOMAIN inbox[req.to]
    <3>2. inbox[req.to][i] \in Messages
      BY <1>1
    <3>3. QED
      BY <2>1, <3>2 DEF Requests, InTurn, Messages
  <2>4. \A i \in DOMAIN inbox'[req.to] : InTurn(req, inbox'[req.to][i])
    <3>1. CASE inbox' = inbox
      BY <2>3, <3>1
    <3>2. CASE Deliver
      BY <1>3, <2>2, <2>3, <3>2
    <3>3. QED
      BY <1>1, <3>1, <3>2
  <2>5. \A i \in DOMAIN queue'[req.to] : InTurn(req, queue'[req.to][i])
    <3>1. queue'[req.to] = <<>> \/ queue'[req.to] = <<Other(req)>>
      BY <1>1, <1>5, <1>7, <2>1 DEF Write, PostRefused, Enqueue
    <3>2. InTurn(req, Other(req))
      BY DEF InTurn, Other
    <3>3. QED
      BY <3>1, <3>2
  <2>6. QED
    BY <2>2, <2>4, <2>5
<1>8. pc' \in {"idle", "read"}
  BY <1>1 DEF Written
<1>9. InProgress'
  BY <1>7, <1>8 DEF InProgress, InTurn
<1>10. QED
  BY <1>4, <1>6, <1>9 DEF ScreenedInv

\* The client has one more answer, which was scanned if need be.
LEMMA CloseScreened ==
  ASSUME ProxyTyped, ScreenedInv, NEW m \in Answers, NEW shown, Close(m, shown), pc = "read",
         UNCHANGED <<inbox, notes, faults>>,
         Quiet /\ m.kind = "result" =>
             Screen(<<req.to, m.tool>>, m.labels) = "allow" \/ shown = {}
  PROVE  ScreenedInv'
<1> DEFINE e == [for |-> req.id, kind |-> req.kind, to |-> req.to, got |-> m, shown |-> shown]
<1>1. pc' = "idle" /\ client' = Append(client, e)
  BY DEF Close
<1>2. /\ Len(client) \in Nat /\ DOMAIN client = 1..Len(client)
      /\ DOMAIN client' = 1..(Len(client) + 1) /\ client'[Len(client) + 1] = e
      /\ \A i \in 1..Len(client) : client'[i] = client[i]
  <2>1. client \in Seq(Entries)
    BY DEF ProxyTyped
  <2>2. Len(client) \in Nat /\ DOMAIN client = 1..Len(client)
    BY <2>1, LenProperties
  <2>3. client \in Seq(Entries \union {e}) /\ e \in Entries \union {e}
    BY <2>1
  <2>4. QED
    BY <1>1, <2>2, <2>3, Appended
<1>3. ASSUME Quiet, NEW i \in DOMAIN client' PROVE ScannedAt(i)'
  <2>1. CASE i = Len(client) + 1
    BY <1>2, <1>3, <2>1 DEF ScannedAt
  <2>2. CASE i \in 1..Len(client)
    <3>1. client'[i] = client[i] /\ ScannedAt(i)
      BY <1>2, <1>3, <2>2 DEF ScreenedInv, Shown
    <3>2. QED
      BY <3>1 DEF ScannedAt
  <2>3. QED
    BY <1>2, <1>3, <2>1, <2>2
<1>4. Shown'
  BY <1>3 DEF Shown, Quiet
<1>5. Sent'
  BY SentKept DEF ScreenedInv
<1>6. InProgress'
  BY <1>1 DEF InProgress
<1>7. QED
  BY <1>4, <1>5, <1>6 DEF ScreenedInv

LEMMA ReadScreened ==
  ASSUME ProxyTyped, ScreenedInv, ReadResponse \/ ReadEnd
  PROVE  ScreenedInv'
<1>1. CASE ReadResponse
  <2> DEFINE m == Head(queue[req.to])
             verdict == IF req.kind = "call" /\ m.kind = "result"
                        THEN Screen(<<req.to, req.tool>>, m.labels) ELSE "allow"
  <2>1. /\ pc = "read" /\ UNCHANGED <<inbox, notes, faults>>
        /\ Close(m, IF verdict = "allow" THEN m.labels ELSE {})
    BY <1>1 DEF ReadResponse
  <2>2. /\ queue[req.to] \in Seq(Answers) /\ queue[req.to] # <<>>
        /\ m \in Answers /\ m = queue[req.to][1] /\ 1 \in DOMAIN queue[req.to]
    <3>1. queue[req.to] \in Seq(Answers) /\ queue[req.to] # <<>>
      BY <1>1, MessagesTyped DEF ReadResponse, ProxyTyped
    <3>2. QED
      BY <3>1, Taken
  <2>3. Quiet /\ m.kind = "result" => req.kind = "call" /\ m.tool = req.tool
    BY <2>1, <2>2 DEF ScreenedInv, InProgress, InTurn
  <2>4. Quiet /\ m.kind = "result" =>
            \/ Screen(<<req.to, m.tool>>, m.labels) = "allow"
            \/ (IF verdict = "allow" THEN m.labels ELSE {}) = {}
    BY <2>3
  <2> HIDE DEF m, verdict
  <2>5. QED
    BY <2>1, <2>2, <2>4, CloseScreened
<1>2. CASE ReadEnd
  <2>1. /\ pc = "read" /\ UNCHANGED <<inbox, notes, faults>> /\ Close(None, {})
    BY <1>2 DEF ReadEnd, upstream
  <2>2. None \in Answers
    BY DEF Answers
  <2>3. QED
    BY <2>1, <2>2, CloseScreened
<1>3. QED
  BY <1>1, <1>2

\* A server answers the request in progress, if that is all there is.
LEMMA ServeScreened ==
  ASSUME ProxyTyped, ScreenedInv, NEW t \in Servers, Serve(t)
  PROVE  ScreenedInv'
<1> DEFINE m == Head(inbox[t])
<1>1. /\ inbox[t] \in Seq(Messages) /\ inbox[t] # <<>> /\ m \in Messages
      /\ m = inbox[t][1] /\ 1 \in DOMAIN inbox[t] /\ Len(inbox[t]) \in Nat
      /\ DOMAIN inbox[t] = 1..Len(inbox[t])
      /\ DOMAIN Tail(inbox[t]) = 1..(Len(inbox[t]) - 1)
      /\ \A i \in 1..(Len(inbox[t]) - 1) : Tail(inbox[t])[i] = inbox[t][i + 1]
      /\ inbox' = [inbox EXCEPT ![t] = Tail(inbox[t])] /\ inbox \in [Servers -> Seq(Messages)]
      /\ queue[t] \in Seq(Answers) /\ queue \in [Servers -> Seq(Answers)]
      /\ UNCHANGED <<pc, req, client, replied, notes, faults>>
  <2>1. inbox[t] \in Seq(Messages) /\ inbox[t] # <<>>
    BY DEF Serve, ProxyTyped
  <2>2. QED
    BY <2>1, Taken DEF Serve, ProxyTyped
<1>2. \A s \in Servers : \A i \in DOMAIN inbox'[s] : \E k \in DOMAIN inbox[s] : inbox'[s][i] = inbox[s][k]
  <2>1. ASSUME NEW s \in Servers, NEW i \in DOMAIN inbox'[s]
        PROVE  \E k \in DOMAIN inbox[s] : inbox'[s][i] = inbox[s][k]
    <3>1. CASE s = t
      <4>1. inbox'[s] = Tail(inbox[t])
        BY <1>1, <3>1
      <4>2. i \in 1..(Len(inbox[t]) - 1)
        BY <1>1, <2>1, <4>1
      <4>3. i + 1 \in DOMAIN inbox[s] /\ inbox'[s][i] = inbox[s][i + 1]
        BY <1>1, <3>1, <4>1, <4>2
      <4>4. QED
        BY <4>3
    <3>2. CASE s # t
      BY <1>1, <2>1, <3>2
    <3>3. QED
      BY <3>1, <3>2
  <2>2. QED
    BY <2>1
<1>3. Sent'
  BY <1>2 DEF ScreenedInv, Sent, Allowed
<1>4. Quiet' <=> Quiet
  BY <1>1 DEF Quiet
<1>5. Shown'
  BY <1>1, <1>4, ShownKept DEF ScreenedInv
<1>6. ASSUME Quiet, pc = "read"
      PROVE  /\ \A i \in DOMAIN queue'[req.to] : InTurn(req, queue'[req.to][i])
             /\ \A i \in DOMAIN inbox'[req.to] : InTurn(req, inbox'[req.to][i])
  <2>1. /\ req.to \in Servers
        /\ \A i \in DOMAIN queue[req.to] : InTurn(req, queue[req.to][i])
        /\ \A i \in DOMAIN inbox[req.to] : InTurn(req, inbox[req.to][i])
    BY <1>6, MessagesTyped DEF ScreenedInv, InProgress, ProxyTyped
  <2>2. \A i \in DOMAIN inbox'[req.to] : InTurn(req, inbox'[req.to][i])
    BY <1>2, <2>1 DEF InTurn
  <2>3. CASE req.to # t \/ queue' = queue
    <3>1. queue'[req.to] = queue[req.to]
      <4>1. queue' = queue \/ \E a : Enqueue(t, a)
        BY DEF Serve
      <4>2. QED
        BY <1>1, <2>1, <2>3, <4>1 DEF Enqueue
    <3>2. QED
      BY <2>1, <2>2, <3>1
  <2>4. CASE req.to = t /\ queue' # queue
    <3>1. InTurn(req, m)
      BY <1>1, <2>1, <2>4
    <3>2. PICK a \in Answers : Enqueue(t, a) /\ InTurn(req, a)
      <4>1. ASSUME m.kind = "call", NEW labels \in Contents
            PROVE  InTurn(req, Result(m, labels)) /\ Result(m, labels) \in Answers
        BY <1>1, <3>1, <4>1, MessagesTyped DEF InTurn, Result
      <4>2. InTurn(req, Other(m)) /\ Other(m) \in Answers
        BY <1>1, MessagesTyped DEF InTurn, Other
      <4>3. \/ m.kind = "call" /\ \E labels \in Contents : Enqueue(t, Result(m, labels))
            \/ Enqueue(t, Other(m))
        BY <2>4 DEF Serve
      <4>4. QED
        BY <4>1, <4>2, <4>3
    <3>3. queue'[t] = Append(queue[t], a)
      BY <1>1, <3>2 DEF Enqueue
    <3>4. /\ Len(queue[t]) \in Nat /\ DOMAIN queue[t] = 1..Len(queue[t])
          /\ DOMAIN queue'[t] = 1..(Len(queue[t]) + 1) /\ queue'[t][Len(queue[t]) + 1] = a
          /\ \A i \in 1..Len(queue[t]) : queue'[t][i] = queue[t][i]
      BY <1>1, <3>3, Appended
    <3>5. \A i \in DOMAIN queue'[t] : InTurn(req, queue'[t][i])
      BY <2>1, <2>4, <3>2, <3>4
    <3>6. QED
      BY <2>2, <2>4, <3>5
  <2>5. QED
    BY <2>3, <2>4
<1>7. InProgress'
  <2>1. Allowed(req, req)' <=> Allowed(req, req)
    BY <1>1 DEF Allowed
  <2>2. QED
    BY <1>1, <1>4, <1>6, <2>1 DEF ScreenedInv, InProgress, Allowed, InTurn
<1>8. QED
  BY <1>3, <1>5, <1>7 DEF ScreenedInv

LEMMA NextScreened ==
  ASSUME ProxyTyped, \A s \in Servers : Tally(s), ScreenedInv, [Next]_vars
  PROVE  ScreenedInv'
<1>1. ASSUME NEW r \in Servers, NEW t \in Tools, NEW labels \in Contents, Call(r, t, labels)
      PROVE  ScreenedInv'
  BY <1>1, CallScreened
<1>2. ASSUME NEW r \in Servers, NEW kind \in {"request", "note"}, Forward(r, kind)
      PROVE  ScreenedInv'
  <2>1. pc' = "write" /\ req'.kind = kind /\ UNCHANGED <<client, upstream>>
    BY <1>2 DEF Forward
  <2>2. Allowed(req.to, req)'
    BY <2>1 DEF Allowed
  <2>3. QED
    BY <2>1, <2>2, AskScreened
<1>3. ASSUME NEW r \in Servers, Reply(r) PROVE ScreenedInv'
  <2>1. pc' = "write" /\ req'.kind = "reply" /\ req'.to = r /\ UNCHANGED <<client, upstream>>
    BY <1>3 DEF Reply
  <2>2. Allowed(req.to, req)'
    BY <2>1 DEF Allowed
  <2>3. replied'[r] > 0
    BY <1>3 DEF Reply, ProxyTyped
  <2>4. QED
    BY <2>1, <2>2, <2>3, AskScreened
<1>4. CASE Unknown
  BY <1>4, AskScreened DEF Unknown
<1>5. CASE Write \/ PostRefused \/ PostFailed
  BY <1>5, WriteScreened
<1>6. CASE WriteBroken \/ Stop
  <2>1. /\ UNCHANGED <<client, inbox, notes>> /\ pc' = "stopped" /\ (UNCHANGED faults \/ faults' = faults + 1)
    BY <1>6 DEF WriteBroken, Stop, upstream, Fault
  <2>2. Quiet' => Quiet
    BY <2>1, ProxyBounds DEF Quiet, ProxyTyped
  <2>3. QED
    BY <2>1, <2>2, SentKept, ShownKept DEF ScreenedInv, InProgress
<1>7. CASE ReadResponse \/ ReadEnd
  BY <1>7, ReadScreened
<1>8. ASSUME NEW r \in Servers, Serve(r) PROVE ScreenedInv'
  BY <1>8, ServeScreened
<1>9. ASSUME NEW r \in Servers, Speak(r) \/ Break(r) PROVE ScreenedInv'
  <2>1. UNCHANGED <<pc, req, inbox, client, replied>>
    BY <1>9 DEF Speak, Break
  <2>2. ~Quiet'
    <3>1. CASE Speak(r)
      <4>1. notes'[r] > 0
        BY <3>1 DEF Speak, ProxyTyped
      <4>2. QED
        BY <4>1 DEF Quiet
    <3>2. CASE Break(r)
      BY <3>2, ProxyBounds DEF Break, Fault, Quiet, ProxyTyped
    <3>3. QED
      BY <1>9, <3>1, <3>2
  <2>3. Sent' /\ Shown'
    BY <2>1, <2>2, SentKept DEF ScreenedInv, Shown
  <2>4. InProgress'
    BY <2>1, <2>2 DEF ScreenedInv, InProgress, Allowed
  <2>5. QED
    BY <2>3, <2>4 DEF ScreenedInv
<1>10. CASE UNCHANGED vars
  <2>1. UNCHANGED <<pc, req, inbox, queue, client, replied, notes, faults>>
    BY <1>10 DEF vars
  <2>2. Sent' /\ Shown'
    BY <2>1, SentKept, ShownKept DEF ScreenedInv, Quiet
  <2>3. InProgress'
    BY <2>1 DEF ScreenedInv, InProgress, Allowed, InTurn, Quiet
  <2>4. QED
    BY <2>2, <2>3 DEF ScreenedInv
<1>11. QED
  BY <1>1, <1>2, <1>3, <1>4, <1>5, <1>6, <1>7, <1>8, <1>9, <1>10 DEF Next, Gateway
-----------------------------------------------------------------------------
(* What the invariants say of the properties.                               *)

LEMMA TypedIsTypeOK ==
  ASSUME ProxyTyped, \A s \in Servers : Tally(s)
  PROVE  TypeOK
<1>1. \A m \in Messages : WellFormed(m)
  BY MessagesTyped DEF WellFormed
<1>2. ASSUME NEW s \in Servers
      PROVE  /\ notes[s] \in 0..MaxNotes /\ replied[s] \in 0..notes[s]
             /\ \A i \in DOMAIN inbox[s] : WellFormed(inbox[s][i]) /\ inbox[s][i].to = s
             /\ \A i \in DOMAIN queue[s] : queue[s][i].kind \in {"result", "other", "note", "none"}
  <2>1. inbox[s] \in Seq(Messages) /\ queue[s] \in Seq(Answers) /\ notes[s] \in 0..MaxNotes
        /\ \A i \in DOMAIN inbox[s] : inbox[s][i].to = s
    BY DEF ProxyTyped
  <2>2. replied[s] \in 0..notes[s]
    <3>1. /\ replied[s] <= Count(client, NotesTo(s))
          /\ Count(client, NotesTo(s)) + Count(queue[s], Unasked) = notes[s]
      BY DEF Tally
    <3>2. /\ Count(client, NotesTo(s)) \in Nat /\ Count(queue[s], Unasked) \in Nat
          /\ replied[s] \in Nat /\ notes[s] \in Nat
      BY ProxyCountsTyped
    <3>3. QED
      BY <3>1, <3>2
  <2>3. \A i \in DOMAIN inbox[s] : WellFormed(inbox[s][i])
    BY <1>1, <2>1
  <2>4. \A i \in DOMAIN queue[s] : queue[s][i].kind \in {"result", "other", "note", "none"}
    BY <2>1, AnswersTyped
  <2>5. QED
    BY <2>1, <2>2, <2>3, <2>4
<1>3. \A i \in DOMAIN client : client[i].kind \in Kinds \ {"note"}
  <2>1. TAKE i \in DOMAIN client
  <2>2. client[i] \in Entries
    BY DEF ProxyTyped
  <2>3. QED
    BY <2>2 DEF Entries, Kinds
<1>4. QED
  BY <1>1, <1>2, <1>3 DEF ProxyTyped, TypeOK

LEMMA TallyKeepsBacklog ==
  ASSUME ProxyTyped, \A s \in Servers : Tally(s)
  PROVE  BacklogKept
<1> SUFFICES ASSUME NEW s \in Servers
             PROVE  /\ Backlog(s) <= notes[s] - replied[s] + faults
                    /\ faults = 0 => Backlog(s) = notes[s] - replied[s]
  BY DEF BacklogKept
<1>1. inbox[s] \in Seq(Messages)
  BY DEF ProxyTyped
<1>2. {i \in DOMAIN inbox[s] : inbox[s][i].kind \in {"call", "request"}} = At(inbox[s], Requests)
  BY <1>1 DEF At, Requests
<1>3. Owed(s) = Owing(s) /\ Awaited(s) = Expected(s)
  BY <1>2 DEF Owed, Owing, Awaited, Expected, Expecting, Count
<1>4. /\ Owing(s) \in Nat /\ Len(queue[s]) \in Nat /\ Expected(s) \in Nat /\ Unfelt(s) \in Nat
      /\ faults \in Nat /\ notes[s] \in Nat /\ replied[s] \in Nat
  BY ProxyCountsTyped
<1>5. Balanced(Owing(s), Len(queue[s]), replied[s], Unfelt(s), Expected(s), notes[s], faults)
  BY DEF Tally
<1>6. Backlog(s) = Owing(s) + Len(queue[s]) - Expected(s)
  BY <1>3 DEF Backlog
<1>7. PICK d \in Int : d = notes[s] - replied[s]
  BY <1>4
<1>8. Backlog(s) <= d + faults /\ (faults = 0 => Backlog(s) = d)
  <2>1. Backlog(s) \in Int
    BY <1>4, <1>6
  <2>2. PICK o \in Nat, l \in Nat, a \in Nat, u \in Nat, e \in Nat, n \in Nat, f \in Nat :
            /\ o = Owing(s) /\ l = Len(queue[s]) /\ a = replied[s] /\ u = Unfelt(s)
            /\ e = Expected(s) /\ n = notes[s] /\ f = faults
    BY <1>4
  <2>3. Balanced(o, l, a, u, e, n, f) /\ Backlog(s) = o + l - e /\ d = n - a
    BY <1>5, <1>6, <1>7, <2>2
  <2>4. Backlog(s) <= d + f /\ (f = 0 => Backlog(s) = d)
    BY <2>3 DEF Balanced
  <2>5. QED
    BY <2>2, <2>4
<1>9. QED
  BY <1>7, <1>8

\* At most as many members of C are not the mate of one in B as are not in B.
LEMMA Mated ==
  ASSUME NEW C, IsFiniteSet(C), NEW B, B \subseteq C, NEW W, W \subseteq C, NEW D, D = C \ W,
         NEW g \in Injection(B, D)
  PROVE  Cardinality(W) <= Cardinality(C \ B)
<1>1. /\ IsFiniteSet(B) /\ IsFiniteSet(W) /\ IsFiniteSet(D) /\ IsFiniteSet(C \ B)
  BY FS_Subset
<1>2. Cardinality(D) = Cardinality(C) - Cardinality(W)
  <2>1. C \cap W = W
    OBVIOUS
  <2>2. QED
    BY <2>1, FS_Difference
<1>3. Cardinality(C \ B) = Cardinality(C) - Cardinality(B)
  <2>1. C \cap B = B
    OBVIOUS
  <2>2. QED
    BY <2>1, FS_Difference
<1>4. Cardinality(B) <= Cardinality(D)
  BY <1>1, FS_Injection
<1>5. /\ Cardinality(B) \in Nat /\ Cardinality(W) \in Nat /\ Cardinality(C) \in Nat
  BY <1>1, FS_CardinalityType
<1>6. QED
  BY <1>2, <1>3, <1>4, <1>5

\* No two entries have the same answer of a server.
LEMMA AnswersDiffer ==
  ASSUME ProxyTyped, AnsweredOnce, NEW i \in DOMAIN client, NEW j \in DOMAIN client,
         client[i].to = client[j].to, client[i].got.id = client[j].got.id, client[i].got.id > 0
  PROVE  i = j
<1> DEFINE s == client[i].to
           n == client[i].got.id
           A == At(client, AnsweredWith(s, n))
<1>1. /\ client \in Seq(Entries) /\ client[i] \in Entries /\ client[j] \in Entries
      /\ s \in Servers /\ n \in 1..MaxMessages
  <2>1. client \in Seq(Entries) /\ client[i] \in Entries /\ client[j] \in Entries
    BY DEF ProxyTyped
  <2>2. s \in Servers /\ client[i].got \in Answers
    BY <2>1 DEF Entries
  <2>3. QED
    BY <2>1, <2>2, AnswersTyped, ProxyBounds
<1>2. i \in A /\ j \in A
  BY <1>1 DEF At, AnsweredWith
<1>3. Cardinality(A) <= 1 /\ Cardinality(A) \in Nat /\ IsFiniteSet(A)
  <2>1. Had(s, n) + Coming(s, n) <= 1 /\ Had(s, n) \in Nat /\ Coming(s, n) \in Nat
    BY <1>1, ComingTyped DEF AnsweredOnce, Once
  <2>2. Had(s, n) = Cardinality(A)
    BY DEF Had, Count
  <2>3. IsFiniteSet(A)
    BY <1>1, CountIsNatural
  <2>4. QED
    BY <2>1, <2>2, <2>3
<1>4. Cardinality(A) # 0
  BY <1>2, <1>3, FS_EmptySet
<1>5. Cardinality(A) = 1
  BY <1>3, <1>4
<1> HIDE DEF A
<1>6. \E x : A = {x}
  BY <1>3, <1>5, FS_Singleton
<1>7. QED
  BY <1>2, <1>6

LEMMA AnswersAreLate ==
  ASSUME ProxyTyped, \A s \in Servers : Tally(s), AnsweredOnce, AnsweredLater
  PROVE  AnswersLate
<1> SUFFICES ASSUME NEW i \in DOMAIN client, client[i].got.id > 0
             PROVE  Cardinality(Waiting(i)) <= notes[client[i].to] + faults
  BY DEF AnswersLate
<1> DEFINE s == client[i].to
           C == {j \in 1..i : client[j].to = s}
           B == {j \in C : client[j].got.id > 0}
           W == Waiting(i)
<1>1. /\ client \in Seq(Entries) /\ Len(client) \in Nat /\ DOMAIN client = 1..Len(client)
      /\ \A j \in DOMAIN client : client[j] \in Entries
  BY LenProperties DEF ProxyTyped
<1>2. i \in 1..Len(client) /\ 1..i \subseteq DOMAIN client
  BY <1>1
<1>3. s \in Servers
  BY <1>1 DEF Entries
<1>4. C \subseteq DOMAIN client /\ IsFiniteSet(C) /\ B \in SUBSET C /\ W \in SUBSET C
  <2>1. IsFiniteSet(1..i)
    BY <1>1, <1>2, FS_Interval
  <2>2. C \in SUBSET (1..i)
    OBVIOUS
  <2>3. IsFiniteSet(C)
    BY <2>1, <2>2, FS_Subset
  <2>4. QED
    BY <1>2, <2>2, <2>3 DEF Waiting
<1>5. PICK g \in [B -> C \ W] : \A k \in B : client[g[k]].for = client[k].got.id
  <2> DEFINE P(k, j) == client[j].for = client[k].got.id
  <2>1. ASSUME NEW k \in B PROVE \E j \in C \ W : P(k, j)
    <3>1. k \in 1..i /\ k \in DOMAIN client /\ client[k].to = s /\ client[k].got.id > 0
      BY <1>4
    <3>2. PICK j \in 1..k : client[j].to = client[k].to /\ client[j].for = client[k].got.id
      BY <3>1 DEF AnsweredLater
    <3>3. j \in C
      BY <1>1, <1>2, <3>1, <3>2
    <3>4. j \notin W
      BY <3>1, <3>2 DEF Waiting
    <3>5. QED
      BY <3>2, <3>3, <3>4
  <2>2. [k \in B |-> CHOOSE j \in C \ W : P(k, j)] \in [B -> C \ W]
    BY <2>1
  <2>3. \A k \in B : P(k, CHOOSE j \in C \ W : P(k, j))
    BY <2>1
  <2>4. QED
    BY <2>2, <2>3
<1>6. g \in Injection(B, C \ W)
  <2>1. ASSUME NEW k \in B, NEW l \in B, g[k] = g[l] PROVE k = l
    <3>1. client[k].got.id = client[l].got.id /\ client[k].to = client[l].to /\ client[k].got.id > 0
      BY <1>5, <2>1
    <3>2. QED
      BY <1>4, <3>1, AnswersDiffer
  <2>2. QED
    BY <1>5, <2>1 DEF Injection, IsInjective
<1>7. C \ B \subseteq At(client, JunkTo(s))
  <2>1. ASSUME NEW j \in C \ B PROVE client[j] \in JunkTo(s)
    <3>1. j \in DOMAIN client /\ client[j] \in Entries /\ client[j].to = s /\ ~(client[j].got.id > 0)
      BY <1>1, <1>4
    <3>2. client[j].got.id \in 0..MaxMessages
      BY <3>1, AnswersTyped DEF Entries
    <3>3. QED
      BY <3>1, <3>2, ProxyBounds DEF JunkTo
  <2>2. QED
    BY <1>4, <2>1 DEF At
<1> HIDE DEF C, B, W
<1>8. Cardinality(W) <= Cardinality(C \ B)
  <2>1. PICK D : D = C \ W
    OBVIOUS
  <2>2. g \in Injection(B, D)
    BY <1>6, <2>1
  <2>3. QED
    BY <1>4, <2>1, <2>2, Mated
<1>9. Cardinality(C \ B) <= Count(client, JunkTo(s))
  <2>1. IsFiniteSet(At(client, JunkTo(s)))
    BY <1>1, CountIsNatural
  <2>2. QED
    BY <1>7, <2>1, FS_Subset DEF Count
<1>10. Count(client, JunkTo(s)) <= notes[s] + faults
  <2>1. Count(client, JunkTo(s)) + Count(queue[s], Junk) + Unread(s) <= notes[s] + faults
    BY <1>3 DEF Tally, Excused
  <2>2. /\ Count(client, JunkTo(s)) \in Nat /\ Count(queue[s], Junk) \in Nat /\ Unread(s) \in Nat
        /\ notes[s] \in Nat /\ faults \in Nat
    BY <1>3, ProxyCountsTyped
  <2>3. QED
    BY <2>1, <2>2
<1>11. /\ Cardinality(W) \in Nat /\ Cardinality(C \ B) \in Nat /\ Count(client, JunkTo(s)) \in Nat
       /\ notes[s] \in Nat /\ faults \in Nat
  <2>1. IsFiniteSet(W) /\ IsFiniteSet(C \ B)
    BY <1>4, FS_Subset
  <2>2. QED
    BY <1>3, <2>1, FS_CardinalityType, ProxyCountsTyped
<1>12. Cardinality(W) <= notes[s] + faults
  BY <1>8, <1>9, <1>10, <1>11
<1>13. QED
  BY <1>12 DEF W
-----------------------------------------------------------------------------
(* McpProxy: the theorems.                                                  *)

LEMMA ProxyInvariant ==
  Spec => [](ProxyTyped /\ (\A s \in Servers : Tally(s)) /\ AnsweredOnce /\ AnsweredLater
             /\ ScreenedInv)
<1> DEFINE IInv == /\ ProxyTyped /\ (\A s \in Servers : Tally(s)) /\ AnsweredOnce
                   /\ AnsweredLater /\ ScreenedInv
<1>1. Init => IInv
  BY ProxyInitTyped, InitTally, InitOnce, InitScreened
<1>2. IInv /\ [Next]_vars => IInv'
  BY ProxyNextTyped, NextTally, NextOnce, NextScreened
<1>3. QED
  BY <1>1, <1>2, PTL DEF Spec

\* The types, the backlog of what servers say unasked, and how late an answer
\* is, for any number of servers, messages, notes and faults: no answer of the
\* gateway's loop lags further behind its request than servers have spoken
\* unasked and failed.
THEOREM ProxyInvHolds == Spec => []ProxyInv
<1>1. ProxyTyped /\ (\A s \in Servers : Tally(s)) /\ AnsweredOnce /\ AnsweredLater /\ ScreenedInv
          => ProxyInv
  BY TypedIsTypeOK, TallyKeepsBacklog, AnswersAreLate DEF ProxyInv
<1>2. QED
  BY <1>1, ProxyInvariant, PTL

\* Every call a server gets, and, while servers only answer and nothing fails,
\* every result the client gets, was screened as the policy demands.
THEOREM TrafficIsScreened == Spec => []TrafficScreened
BY ProxyInvariant, ScreenedIsScreened, PTL
=============================================================================
