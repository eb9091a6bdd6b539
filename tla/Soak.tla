-------------------------------- MODULE Soak --------------------------------
(***************************************************************************)
(* scripts/crakbit-soak.py: a timer on every public node has `collect` ask *)
(* the node for its chain and append what it answers to a file, operators  *)
(* append events, and `evaluate` judges the nodes by these files.          *)
(*                                                                         *)
(* Three calls of twenty seconds each may take as long as it is to the     *)
(* next collection: collections of a node overlap, and a sample bears the  *)
(* time its collection began, not the time it was appended.                *)
(***************************************************************************)
EXTENDS Naturals, FiniteSets, SequencesExt

CONSTANTS
  Nodes,            \* enabled in TESTNET_BOOTSTRAP.json
  Domain,           \* of a node: its provider and region
  Branches,         \* of the block chain
  NoBlock,          \* no answer
  Qualifications,   \* [window, restart, reorg] of smoke, candidate, launch
  MinNodes, MinDomains,
  MaxFailures,      \* maximum_consecutive_failures
  MaxSpread,        \* maximum_tip_height_spread
  MaxReorg,         \* maximum_reorg_depth
  Ratio,            \* minimum_availability_ratio is 1 / Ratio
  MaxTime, MaxHeight,
  MaxRecords        \* bounds: of collections and events

(* validate_policy.                                                        *)
ValidPolicy ==
  /\ {MinNodes, MinDomains, MaxFailures, MaxSpread, MaxReorg} \subseteq Nat
  /\ Ratio \in Nat \ {0}
  /\ Qualifications \subseteq
       [window : Nat, restart : BOOLEAN, reorg : BOOLEAN]

ASSUME SoakAssumption ==
  /\ ValidPolicy
  /\ Nodes # {} /\ IsFiniteSet(Nodes)
  /\ Branches # {}
  /\ {MaxTime, MaxHeight, MaxRecords} \subseteq Nat

VARIABLES
  now,           \* the clock, in seconds
  begun,         \* of a node: when a collection last began
  collections,   \* the running ones
  started,       \* how many there ever were
  observations,  \* of a node: its file
  events,        \* events.jsonl
  drilled        \* history: the nodes that answered after a restart event

soakVars == <<now, begun, collections, started, observations, events, drilled>>

Failed == [healthy |-> FALSE, block |-> NoBlock, fit |-> FALSE]

(* fit: not in initial block download, the headers not too far ahead of    *)
(* the blocks, and enough connections.                                     *)
Answers ==
  [healthy : {TRUE}, block : [height : 0..MaxHeight, branch : Branches],
   fit : BOOLEAN]

SoakInit ==
  /\ now = 1
  /\ begun = [n \in Nodes |-> 0] /\ collections = {} /\ started = 0
  /\ observations = [n \in Nodes |-> <<>>] /\ events = {} /\ drilled = {}

-----------------------------------------------------------------------------
Tick ==
  /\ now < MaxTime
  /\ now' = now + 1
  /\ UNCHANGED <<begun, collections, started, observations, events, drilled>>

Bounded == started + Cardinality(events) < MaxRecords

RestartEvents(n) == {e \in events : e.kind = "restart" /\ e.node = n}

(* collect notes the time, then asks the node.                             *)
Collect(n) ==
  /\ Bounded
  /\ begun[n] < now
  /\ begun' = [begun EXCEPT ![n] = now]
  /\ started' = started + 1
  /\ collections' = collections \cup
       {[node |-> n, time |-> now, drill |-> RestartEvents(n) # {}]}
  /\ UNCHANGED <<now, observations, events, drilled>>

(* All calls are answered, or one fails; append_jsonl.                     *)
Collected(c, answer) ==
  /\ collections' = collections \ {c}
  /\ observations' = [observations EXCEPT ![c.node] = @ \o
       <<[time |-> c.time, healthy |-> answer.healthy, block |-> answer.block,
          fit |-> answer.fit]>>]
  /\ drilled' = IF answer.healthy /\ c.drill THEN drilled \cup {c.node} ELSE drilled
  /\ UNCHANGED <<now, begun, started, events>>

(* The collection, or its host, is killed.                                 *)
Killed(c) ==
  /\ collections' = collections \ {c}
  /\ UNCHANGED <<now, begun, started, observations, events, drilled>>

(* event.                                                                  *)
Event(kind, n, depth) ==
  /\ Bounded
  /\ (kind = "restart") <=> (depth = 0)
  /\ events' = events \cup
       {[kind |-> kind, node |-> n, time |-> now, depth |-> depth]}
  /\ UNCHANGED <<now, begun, collections, started, observations, drilled>>

SoakNext ==
  \/ Tick
  \/ \E n \in Nodes : Collect(n)
  \/ \E c \in collections, answer \in Answers \cup {Failed} : Collected(c, answer)
  \/ \E c \in collections : Killed(c)
  \/ \E kind \in {"restart", "reorg"}, n \in Nodes, depth \in 0..MaxReorg + 1 :
       Event(kind, n, depth)

SoakSpec == SoakInit /\ [][SoakNext]_soakVars

-----------------------------------------------------------------------------
(* evaluate.                                                               *)

PublicReady ==
  /\ Cardinality(Nodes) >= MinNodes
  /\ Cardinality({Domain[n] : n \in Nodes}) >= MinDomains

(* Samples of one second stay in the order of the file.                    *)
Earlier(file, i, j) ==
  \/ file[i].time < file[j].time
  \/ file[i].time = file[j].time /\ i < j

Place(file, j) == Cardinality({i \in DOMAIN file : Earlier(file, i, j)}) + 1

Sorted(file) ==
  [k \in DOMAIN file |-> file[CHOOSE j \in DOMAIN file : Place(file, j) = k]]

(* Mutant: in the order of the file.                                       *)
HistoryAsAppended(n) == observations[n]

History(n) == Sorted(observations[n])

Healthy(h) == SelectSeq(h, LAMBDA r : r.healthy)

LongestRun(h) ==
  Max({run \in 0..Len(h) : \E before \in 0..Len(h) - run :
         \A k \in before + 1..before + run : ~h[k].healthy})

(* Mutant: within the second of the event.                                 *)
HealthyFrom(n, time) ==
  \E r \in Range(History(n)) : r.healthy /\ r.time >= time

HealthyAfter(n, time) ==
  \E r \in Range(History(n)) : r.healthy /\ r.time > time

NodePasses(n, q) ==
  LET h == History(n)  good == Healthy(h) IN
  /\ good # <<>>
  /\ Len(good) * Ratio >= Len(h)
  /\ LongestRun(h) <= MaxFailures
  /\ Last(h).time - Head(h).time >= q.window
  /\ Last(good).fit
  /\ q.restart => \E e \in RestartEvents(n) : HealthyAfter(n, e.time)

Earliest == {Head(Healthy(History(n))).block : n \in Nodes}
Latest == {Last(Healthy(History(n))).block : n \in Nodes}

(* Tips are compared only when all of them have the same height.           *)
TipsAgree ==
  /\ \A x, y \in Latest : x.height <= y.height + MaxSpread
  /\ (\A x, y \in Latest : x.height = y.height) => Cardinality(Latest) = 1

Progress == \E x \in Latest, y \in Earliest : x.height > y.height

ReorgsPass(q) ==
  LET reorgs == {e \in events : e.kind = "reorg"} IN
  /\ \A e \in reorgs : e.depth <= MaxReorg
  /\ q.reorg => \E e \in reorgs : HealthyAfter(e.node, e.time)

Passes(q) ==
  /\ PublicReady
  /\ ReorgsPass(q)
  /\ \A n \in Nodes : NodePasses(n, q)
  /\ TipsAgree /\ Progress

-----------------------------------------------------------------------------
(* Properties.                                                             *)

(* From one second to another no collection of node n found it in order,   *)
(* more than MaxFailures found it failing, and none is still running.      *)
Outage(n, from, to) ==
  LET S == {r \in Range(observations[n]) : r.time \in from..to} IN
  /\ \A r \in S : ~r.healthy
  /\ Cardinality(S) > MaxFailures
  /\ \A c \in collections : c.node = n => c.time \notin from..to

(* docs/TESTNET_SOAK.md, Failure handling: once the evidence shows too     *)
(* long an outage or too deep a reorganisation, nothing that is appended   *)
(* to it, in whatever order collections end, lets a qualification pass.    *)
DisqualifiedForGood ==
  [][(\/ \E n \in Nodes : \E from, to \in 1..MaxTime : Outage(n, from, to)
      \/ \E e \in events : e.depth > MaxReorg)
     => \A q \in Qualifications : ~Passes(q)']_soakVars

(* docs/TESTNET_SOAK.md, Restart drill: a qualification that asks for      *)
(* restarts passes only when every node has answered all the calls of a    *)
(* collection that began after a restart of it was announced, however the  *)
(* collection and the announcement fall within a second.                   *)
RestartAnswered ==
  (\E q \in Qualifications : q.restart /\ Passes(q)) => drilled = Nodes
=============================================================================
