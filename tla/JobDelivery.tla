---------------------------- MODULE JobDelivery -----------------------------
(***************************************************************************)
(* How the Stratum pool, scripts/crakpool.py, keeps its miners on the      *)
(* node's tip: refresh_template, broadcast_job and template_loop.          *)
(*                                                                         *)
(* The template loop polls the node; a session whose block was accepted    *)
(* refreshes at once, whatever the loop is doing.  Between asking the node *)
(* and using its answer, and at every client of a broadcast, a refresh     *)
(* awaits: refreshes overlap, templates are applied out of order, clients  *)
(* come, authorize and vanish meanwhile.                                   *)
(***************************************************************************)
EXTENDS Naturals

CONSTANTS
  Sessions,   \* connections, each used once
  Loop,       \* the template loop
  Nobody,
  MaxTip      \* bound: changes of the node's tip

ASSUME ActorAssumption ==
  /\ Loop \notin Sessions
  /\ Nobody \notin Sessions
  /\ MaxTip \in Nat

Actors == Sessions \cup {Loop}

VARIABLES
  tip,         \* the node's tip
  job,         \* job_counter, which is current_job's number
  jobTip,      \* last_tip
  connected,   \* clients whose connection is up and who read from it
  timedOut,    \* clients lost to another error than ConnectionError
  sessions,    \* the pool's set of sessions
  subscribed,
  authorized,
  told,        \* number of the last job that reached each connected client
  at,          \* where each coroutine is
  got,         \* tip of the template a refresh was served, or of the job
               \*   that a submitted share is of
  made,        \* number of the job a refresh built
  left,        \* sessions a broadcast has still to visit
  drain,       \* the client whose drain a coroutine awaits
  dead,        \* sessions a broadcast found dead
  cut,         \* history: the current job's broadcast was cut short
  early        \* history: authorized before they subscribed, and told no
               \*   job yet

poolVars == <<job, jobTip>>
clientVars == <<connected, timedOut, sessions, subscribed, authorized>>
taskVars == <<at, got, made, left, drain, dead, cut>>
vars == <<tip, poolVars, clientVars, told, taskVars, early>>

TypeOK ==
  /\ tip \in Nat /\ job \in Nat /\ jobTip \in Nat
  /\ {connected, timedOut, sessions, subscribed, authorized, early}
       \subseteq SUBSET Sessions
  /\ told \in [Sessions -> Nat]
  /\ at \in [Actors -> {"absent", "idle", "writing", "reply", "submit",
                        "accepted", "asked", "served", "sending", "closed"}]
  /\ got \in [Actors -> Nat] /\ made \in [Actors -> Nat]
  /\ left \in [Actors -> SUBSET Sessions] /\ dead \in [Actors -> SUBSET Sessions]
  /\ drain \in [Actors -> Sessions \cup {Nobody}]
  /\ cut \in BOOLEAN

(* run has made the first job before it listens.                           *)
Init ==
  /\ tip = 0 /\ job = 1 /\ jobTip = 0
  /\ connected = {} /\ timedOut = {} /\ sessions = {}
  /\ subscribed = {} /\ authorized = {} /\ early = {}
  /\ told = [s \in Sessions |-> 0]
  /\ at = [a \in Actors |-> IF a = Loop THEN "idle" ELSE "absent"]
  /\ got = [a \in Actors |-> 0]
  /\ made = [a \in Actors |-> 0]
  /\ left = [a \in Actors |-> {}]
  /\ drain = [a \in Actors |-> Nobody]
  /\ dead = [a \in Actors |-> {}]
  /\ cut = FALSE

-----------------------------------------------------------------------------
(* The node and the clients.                                               *)

TipMoves ==
  /\ tip < MaxTip
  /\ tip' = tip + 1
  /\ UNCHANGED <<poolVars, clientVars, told, taskVars, early>>

Connect(s) ==
  /\ at[s] = "absent"
  /\ at' = [at EXCEPT ![s] = "idle"]
  /\ connected' = connected \cup {s}
  /\ sessions' = sessions \cup {s}
  /\ UNCHANGED <<tip, poolVars, timedOut, subscribed, authorized, told, got,
                 made, left, drain, dead, cut, early>>

(* The client closes the connection or resets it, or the network loses it, *)
(* which the pool sees as an OSError of another kind, such as a timeout.   *)
Disconnect(s) ==
  /\ s \in connected
  /\ connected' = connected \ {s}
  /\ timedOut' \in {timedOut, timedOut \cup {s}}
  /\ told' = [told EXCEPT ![s] = 0]
  /\ UNCHANGED <<tip, poolVars, sessions, subscribed, authorized, taskVars,
                 early>>

-----------------------------------------------------------------------------
(* Sessions.                                                               *)

(* A handler awaits the drain of what it writes to its own client.         *)
Answering(s, next) ==
  /\ at' = [at EXCEPT ![s] = next]
  /\ drain' = [drain EXCEPT ![s] = s]

(* mining.subscribe.  Its reply and the difficulty are one wait.           *)
Subscribe(s) ==
  /\ at[s] = "idle"
  /\ s \in connected \ subscribed
  /\ subscribed' = subscribed \cup {s}
  /\ Answering(s, "writing")
  /\ UNCHANGED <<tip, poolVars, connected, timedOut, sessions, authorized, told,
                 got, made, left, dead, cut, early>>

(* mining.authorize, in any order with the other: authorized first, then a *)
(* reply whose drain is awaited.                                           *)
Authorize(s) ==
  /\ at[s] = "idle"
  /\ s \in connected \ authorized
  /\ authorized' = authorized \cup {s}
  /\ Answering(s, "reply")
  /\ UNCHANGED <<tip, poolVars, connected, timedOut, sessions, subscribed, told,
                 got, made, left, dead, cut, early>>

(* handle_client: the handler sees the end of the stream, or a write of    *)
(* its own failed.                                                         *)
Close(s) ==
  /\ s \notin connected
  /\ \/ at[s] = "idle"
     \/ at[s] \in {"writing", "reply", "accepted"} /\ drain[s] = s
  /\ at' = [at EXCEPT ![s] = "closed"]
  /\ drain' = [drain EXCEPT ![s] = Nobody]
  /\ sessions' = sessions \ {s}
  /\ UNCHANGED <<tip, poolVars, connected, timedOut, subscribed, authorized,
                 told, got, made, left, dead, cut, early>>

(* Mutant: the job a coroutine read before its awaits is sent.             *)
SentMade(a) == IF made[a] = 0 THEN job ELSE made[a]

(* notify reads current_job when it writes.                                *)
Sent(a) == job

(* What coroutine a writes to s reaches it while the connection is up.     *)
Write(a, s) ==
  /\ told' = IF s \in connected THEN [told EXCEPT ![s] = Sent(a)] ELSE told
  /\ early' = early \ {s}

(* The reply is written; a subscribed client gets the current job.  One    *)
(* that has not subscribed yet gets it with the next broadcast.            *)
Greet(s) ==
  /\ at[s] = "reply"
  /\ drain[s] = Nobody
  /\ IF s \in subscribed
     THEN Write(s, s) /\ Answering(s, "writing")
     ELSE /\ at' = [at EXCEPT ![s] = "idle"]
          /\ early' = early \cup {s}
          /\ UNCHANGED <<told, drain>>
  /\ UNCHANGED <<tip, poolVars, clientVars, got, made, left, dead, cut>>

Answered(s) ==
  /\ at[s] = "writing"
  /\ drain[s] = Nobody
  /\ at' = [at EXCEPT ![s] = "idle"]
  /\ UNCHANGED <<tip, poolVars, clientVars, told, got, made, left, drain, dead,
                 cut, early>>

(* handle_submit: a share of the current job, whatever the client knows it *)
(* from, goes to the scanner and, if it is a block, to the node.           *)
Submit(s) ==
  /\ at[s] = "idle"
  /\ s \in authorized
  /\ at' = [at EXCEPT ![s] = "submit"]
  /\ got' = [got EXCEPT ![s] = jobTip]
  /\ UNCHANGED <<tip, poolVars, clientVars, told, made, left, drain, dead, cut,
                 early>>

(* The block builds on the node's tip and becomes the tip; its finder is   *)
(* answered before anything else is done.                                  *)
BlockAccepted(s) ==
  /\ at[s] = "submit"
  /\ got[s] = tip
  /\ tip < MaxTip
  /\ tip' = tip + 1
  /\ got' = [got EXCEPT ![s] = 0]
  /\ Answering(s, "accepted")
  /\ UNCHANGED <<poolVars, clientVars, told, made, left, dead, cut, early>>

(* No block, or one that the node refuses.                                 *)
NoBlock(s) ==
  /\ at[s] = "submit"
  /\ got' = [got EXCEPT ![s] = 0]
  /\ Answering(s, "writing")
  /\ UNCHANGED <<tip, poolVars, clientVars, told, made, left, dead, cut, early>>

(* refresh_template(force=True).                                           *)
RefreshNow(s) ==
  /\ at[s] = "accepted"
  /\ drain[s] = Nobody
  /\ at' = [at EXCEPT ![s] = "asked"]
  /\ UNCHANGED <<tip, poolVars, clientVars, told, got, made, left, drain, dead,
                 cut, early>>

-----------------------------------------------------------------------------
(* refresh_template, by the loop or by a handler.                          *)

Poll ==
  /\ at[Loop] = "idle"
  /\ at' = [at EXCEPT ![Loop] = "asked"]
  /\ UNCHANGED <<tip, poolVars, clientVars, told, got, made, left, drain, dead,
                 cut, early>>

(* The node answers getblocktemplate, on the tip it has at that moment.    *)
Answer(a) ==
  /\ at[a] = "asked"
  /\ at' = [at EXCEPT ![a] = "served"]
  /\ got' = [got EXCEPT ![a] = tip]
  /\ UNCHANGED <<tip, poolVars, clientVars, told, made, left, drain, dead, cut,
                 early>>

(* Coroutine a stops on an exception: the loop goes to sleep, a handler    *)
(* ends its session.                                                       *)
Raise(a) ==
  /\ at' = [at EXCEPT ![a] = IF a = Loop THEN "idle" ELSE "closed"]
  /\ sessions' = sessions \ {a}
  /\ connected' = connected \ {a}
  /\ told' = [s \in Sessions |-> IF s = a THEN 0 ELSE told[s]]

(* A call fails: the loop polls again later, a handler ends its session.   *)
Fail(a) ==
  /\ at[a] \in {"asked", "submit"}
  /\ Raise(a)
  /\ got' = [got EXCEPT ![a] = 0]
  /\ UNCHANGED <<tip, poolVars, timedOut, subscribed, authorized, made, left,
                 drain, dead, cut, early>>

(* Mutant: the loop leaves a job alone once there is one.                  *)
KnownOnce(a) == a = Loop

(* The loop has no use for another template on the same tip.               *)
Known(a) == a = Loop /\ got[a] = jobTip

Skip(a) ==
  /\ at[a] = "served"
  /\ Known(a)
  /\ at' = [at EXCEPT ![a] = "idle"]
  /\ got' = [got EXCEPT ![a] = 0]
  /\ UNCHANGED <<tip, poolVars, clientVars, told, made, left, drain, dead, cut,
                 early>>

(* build_job; the broadcast will visit the sessions there are now.         *)
Apply(a) ==
  /\ at[a] = "served"
  /\ ~Known(a)
  /\ job' = job + 1
  /\ jobTip' = got[a]
  /\ got' = [got EXCEPT ![a] = 0]
  /\ made' = [made EXCEPT ![a] = job + 1]
  /\ left' = [left EXCEPT ![a] = sessions]
  /\ dead' = [dead EXCEPT ![a] = {}]
  /\ at' = [at EXCEPT ![a] = "sending"]
  /\ cut' = FALSE
  /\ UNCHANGED <<tip, clientVars, told, drain, early>>

(* broadcast_job visits session s, in the order of a set.                  *)
Notify(a, s) ==
  /\ at[a] = "sending"
  /\ drain[a] = Nobody
  /\ s \in left[a]
  /\ left' = [left EXCEPT ![a] = @ \ {s}]
  /\ IF s \in authorized \cap subscribed
     THEN /\ Write(a, s)
          /\ drain' = [drain EXCEPT ![a] = s]
     ELSE UNCHANGED <<told, drain, early>>
  /\ UNCHANGED <<tip, poolVars, clientVars, at, got, made, dead, cut>>

(* Mutant: a lost connection is not caught and ends the broadcast.         *)
GoOnOnlyAlive(a) == IF drain[a] \in connected THEN left[a] ELSE {}

(* What a broadcast has left to visit after a drain.                       *)
GoOn(a) == left[a]

(* The awaited client has read, or its connection is lost.                 *)
Drained(a) ==
  /\ drain[a] # Nobody
  /\ drain[a] \in connected \/ (at[a] = "sending" /\ drain[a] \notin timedOut)
  /\ drain' = [drain EXCEPT ![a] = Nobody]
  /\ left' = [left EXCEPT ![a] = GoOn(a)]
  /\ dead' = [dead EXCEPT ![a] = @ \cup ({drain[a]} \ connected)]
  /\ UNCHANGED <<tip, poolVars, clientVars, told, at, got, made, cut, early>>

(* broadcast_job catches nothing but ConnectionError: the clients it has   *)
(* not visited yet are not told.                                           *)
CutShort(a) ==
  /\ at[a] = "sending"
  /\ drain[a] \in timedOut
  /\ Raise(a)
  /\ cut' = (cut \/ made[a] = job)
  /\ left' = [left EXCEPT ![a] = {}]
  /\ drain' = [drain EXCEPT ![a] = Nobody]
  /\ dead' = [dead EXCEPT ![a] = {}]
  /\ made' = [made EXCEPT ![a] = 0]
  /\ UNCHANGED <<tip, poolVars, timedOut, subscribed, authorized, got, early>>

EndBroadcast(a) ==
  /\ at[a] = "sending"
  /\ left[a] = {} /\ drain[a] = Nobody
  /\ sessions' = sessions \ dead[a]
  /\ at' = [at EXCEPT ![a] = "idle"]
  /\ dead' = [dead EXCEPT ![a] = {}]
  /\ made' = [made EXCEPT ![a] = 0]
  /\ UNCHANGED <<tip, poolVars, connected, timedOut, subscribed, authorized,
                 told, got, left, drain, cut, early>>

-----------------------------------------------------------------------------
(* What the event loop does by itself for coroutine a.                     *)
Run(a) ==
  \/ Skip(a)
  \/ Apply(a)
  \/ \E s \in Sessions : Notify(a, s)
  \/ Drained(a)
  \/ CutShort(a)
  \/ EndBroadcast(a)

Handle(s) ==
  Close(s) \/ Greet(s) \/ Answered(s) \/ NoBlock(s) \/ RefreshNow(s)

Next ==
  \/ TipMoves
  \/ Poll
  \/ \E a \in Actors : Answer(a) \/ Fail(a) \/ Run(a)
  \/ \E s \in Sessions :
       \/ Connect(s) \/ Disconnect(s) \/ Subscribe(s) \/ Authorize(s)
       \/ Submit(s) \/ BlockAccepted(s) \/ Handle(s)

(* The event loop runs every coroutine that can go on; a client that stays *)
(* connected reads; calls to the node may fail, but not for ever.          *)
Fairness ==
  /\ WF_vars(Poll)
  /\ SF_vars(Answer(Loop))
  /\ \A a \in Actors : WF_vars(Run(a))
  /\ \A s \in Sessions : WF_vars(Handle(s)) /\ WF_vars(Answer(s) \/ Fail(s))

Spec == Init /\ [][Next]_vars /\ Fairness

-----------------------------------------------------------------------------
(* Properties.                                                             *)

(* An overtaken broadcast never puts a miner back on an older job, whose   *)
(* shares the pool would refuse as stale.                                  *)
NeverOlder == [][\A s \in connected' : told'[s] >= told[s]]_vars

(* The miners that the pool has to serve.  One that authorized before it   *)
(* subscribed waits for a first job until the next broadcast.              *)
Working ==
  (connected \cap sessions \cap subscribed \cap authorized) \ early

(* When the node's tip stays, the pool's job builds on it and every miner  *)
(* is told that job, also when an older template was applied last and when *)
(* clients vanish in the middle of a broadcast.  Only a client lost to a   *)
(* timeout at that moment can leave others without the job.                *)
MinersFollowTip ==
  <>[](jobTip = tip /\ (cut \/ \A s \in Working : told[s] = job))

(* A miner with an old job is one that authorized just now or one that a   *)
(* broadcast has still to visit: nobody is forgotten by overlapping        *)
(* broadcasts, which would then wait for the next block.                   *)
NobodyForgotten ==
  \A s \in Working :
    \/ told[s] = job
    \/ at[s] = "reply"
    \/ \E a \in Actors : s \in left[a]
    \/ cut
=============================================================================
