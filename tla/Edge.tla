-------------------------------- MODULE Edge --------------------------------
(***************************************************************************)
(* The Stratum edge, scripts/crakpool-edge.py, which admits miners, checks *)
(* who they are, limits them, and relays them to the accounting pool.      *)
(*                                                                         *)
(* handle_client runs two tasks per connection, one for each direction,    *)
(* and ends with the first of them.  Every line a client sends is handled  *)
(* at one moment, now; what ends a task (end of file, a timeout, a line    *)
(* too long or one message too many, an exception) may happen any time.    *)
(***************************************************************************)
EXTENDS Integers, Sequences, FiniteSets

CONSTANTS
  Sessions,     \* connections, each used once
  Ips,
  Workers,
  NoWorker,
  MaxTotal, MaxPerIp,               \* max_connections, max_connections_per_ip
  MaxFailures, FailureWindow, Ban,  \* of the failure and ban policy
  Cost,         \* what one submission takes out of a bucket
  Rate, Burst, GlobalRate, GlobalBurst,
  MaxTime       \* bound: ticks of the clock

(* SecurityPolicy.validate: every limit is positive.                       *)
ValidPolicy ==
  /\ {MaxTotal, MaxPerIp, MaxFailures, FailureWindow, Ban, Rate, Burst,
      GlobalRate, GlobalBurst} \subseteq Nat \ {0}
  /\ MaxPerIp <= MaxTotal

ASSUME EdgeAssumption ==
  /\ ValidPolicy
  /\ NoWorker \notin Workers
  /\ IsFiniteSet(Sessions)
  /\ Cost \in Nat \ {0}
  /\ MaxTime \in Nat

VARIABLES
  now,
  total, perIp,     \* AbuseGuard: slots in use
  failures,         \*   times of the failures of an address
  bannedUntil,      \*   0 before the first ban
  pc,               \* where each handler is
  ip,               \* the address of each connection
  tasks,            \* the directions a handler is relaying
  gone,             \* clients that will not send again
  subscribed,
  worker,           \* EdgeSession.worker once authorized, NoWorker before
  bucket,           \* EdgeSession.submit_bucket
  globalBucket,     \* EdgeGateway.global_submit
  poolWorker,       \* history: worker named by what was relayed to the pool,
  relayed,          \*   how many submissions were, of each connection
  relayedAll,       \*   and of all,
  admittedAt,       \*   when each connection was admitted,
  bans,             \*   when bans were imposed,
  leaked            \*   handlers that died before their try statement

guardVars == <<total, perIp, failures, bannedUntil>>
sessionVars == <<pc, ip, tasks, gone, subscribed, worker>>
bucketVars == <<bucket, globalBucket>>
historyVars == <<poolWorker, relayed, relayedAll, admittedAt, bans, leaked>>
vars == <<now, guardVars, sessionVars, bucketVars, historyVars>>

Directions == {"up", "down"}
Full(burst) == [tokens |-> burst, updated |-> now]

Init ==
  /\ now = 0
  /\ total = 0 /\ perIp = [a \in Ips |-> 0]
  /\ failures = [a \in Ips |-> <<>>]
  /\ bannedUntil = [a \in Ips |-> 0]
  /\ pc = [s \in Sessions |-> "absent"]
  /\ ip \in [Sessions -> Ips]
  /\ tasks = [s \in Sessions |-> {}]
  /\ gone = {}
  /\ subscribed = {}
  /\ worker = [s \in Sessions |-> NoWorker]
  /\ bucket = [s \in Sessions |-> Full(Burst)]
  /\ globalBucket = Full(GlobalBurst)
  /\ poolWorker = [s \in Sessions |-> NoWorker]
  /\ relayed = [s \in Sessions |-> 0] /\ relayedAll = 0
  /\ admittedAt = [s \in Sessions |-> 0]
  /\ bans = [a \in Ips |-> {}]
  /\ leaked = {}

Tick ==
  /\ now < MaxTime
  /\ now' = now + 1
  /\ UNCHANGED <<guardVars, sessionVars, bucketVars, historyVars>>

-----------------------------------------------------------------------------
(* Connections.                                                            *)

Go(s, step) == pc' = [pc EXCEPT ![s] = step]

Banned(a) == bannedUntil[a] > now

Admit(s) ==
  /\ pc[s] = "absent"
  /\ ~Banned(ip[s])
  /\ total < MaxTotal
  /\ perIp[ip[s]] < MaxPerIp
  /\ total' = total + 1
  /\ perIp' = [perIp EXCEPT ![ip[s]] = @ + 1]
  /\ bucket' = [bucket EXCEPT ![s] = Full(Burst)]
  /\ admittedAt' = [admittedAt EXCEPT ![s] = now]
  /\ Go(s, "admitted")
  /\ UNCHANGED <<now, failures, bannedUntil, ip, tasks, gone, subscribed, worker,
                 globalBucket, poolWorker, relayed, relayedAll, bans, leaked>>

(* A connection that is refused is closed and takes no slot.               *)
Refuse(s) ==
  /\ pc[s] = "absent"
  /\ Banned(ip[s]) \/ total >= MaxTotal \/ perIp[ip[s]] >= MaxPerIp
  /\ Go(s, "closed")
  /\ UNCHANGED <<now, guardVars, ip, tasks, gone, subscribed, worker, bucketVars,
                 historyVars>>

(* The event connection_open is logged between the admission and the try   *)
(* statement: if the log cannot be written, the slot is not given back.    *)
OpenLogged(s, written) ==
  /\ pc[s] = "admitted"
  /\ Go(s, IF written THEN "connecting" ELSE "closed")
  /\ leaked' = IF written THEN leaked ELSE leaked \cup {s}
  /\ UNCHANGED <<now, guardVars, ip, tasks, gone, subscribed, worker, bucketVars,
                 poolWorker, relayed, relayedAll, admittedAt, bans>>

(* Mutant: the slot of the address is not given back.                      *)
ReleaseTotal(s) ==
  /\ total' = IF total > 0 THEN total - 1 ELSE 0
  /\ UNCHANGED perIp

Release(s) ==
  /\ total' = IF total > 0 THEN total - 1 ELSE 0
  /\ perIp' = [perIp EXCEPT ![ip[s]] = IF @ > 0 THEN @ - 1 ELSE 0]

(* The pool is reached, or it is not in time.                              *)
Reach(s) ==
  /\ pc[s] = "connecting"
  /\ Go(s, "relay")
  /\ tasks' = [tasks EXCEPT ![s] = Directions]
  /\ UNCHANGED <<now, guardVars, ip, gone, subscribed, worker, bucketVars,
                 historyVars>>

ReachFails(s) ==
  /\ pc[s] = "connecting"
  /\ Release(s)
  /\ Go(s, "closed")
  /\ UNCHANGED <<now, failures, bannedUntil, ip, tasks, gone, subscribed, worker,
                 bucketVars, historyVars>>

(* The client closes its connection, or is never heard of again.           *)
Leave(s) ==
  /\ pc[s] = "relay"
  /\ gone' = gone \cup {s}
  /\ UNCHANGED <<now, guardVars, pc, ip, tasks, subscribed, worker, bucketVars,
                 historyVars>>

TaskEnds(s, d) ==
  /\ pc[s] = "relay"
  /\ d \in tasks[s]
  /\ tasks' = [tasks EXCEPT ![s] = @ \ {d}]
  /\ UNCHANGED <<now, guardVars, pc, ip, gone, subscribed, worker, bucketVars,
                 historyVars>>

(* Mutant: the handler waits for both directions.                          *)
OverBoth(s) == tasks[s] = {}

(* FIRST_COMPLETED.                                                        *)
Over(s) == tasks[s] # Directions

(* The other task is cancelled, the finally clause runs, and the session   *)
(* is forgotten with its handler.                                          *)
Finish(s) ==
  /\ pc[s] = "relay"
  /\ Over(s)
  /\ Release(s)
  /\ tasks' = [tasks EXCEPT ![s] = {}]
  /\ gone' = gone \ {s}
  /\ subscribed' = subscribed \ {s}
  /\ worker' = [worker EXCEPT ![s] = NoWorker]
  /\ Go(s, "closed")
  /\ UNCHANGED <<now, failures, bannedUntil, ip, bucketVars, historyVars>>

-----------------------------------------------------------------------------
(* client_to_upstream.                                                     *)

Reading(s) == pc[s] = "relay" /\ "up" \in tasks[s] /\ s \notin gone

Subscribe(s) ==
  /\ Reading(s)
  /\ subscribed' = subscribed \cup {s}
  /\ UNCHANGED <<now, guardVars, pc, ip, tasks, gone, worker, bucketVars,
                 historyVars>>

(* A connection subscribes first and keeps the worker it has.              *)
MayBind(s, w) == s \in subscribed /\ worker[s] \in {NoWorker, w}

(* Mutant: a success lifts the ban of the address too.                     *)
ForgiveBan(a) ==
  /\ failures' = [failures EXCEPT ![a] = <<>>]
  /\ bannedUntil' = [bannedUntil EXCEPT ![a] = 0]

Forgive(a) ==
  /\ failures' = [failures EXCEPT ![a] = <<>>]
  /\ UNCHANGED bannedUntil

(* mining.authorize with the right secret; the pool gets a placeholder.    *)
Authorize(s, w) ==
  /\ Reading(s)
  /\ MayBind(s, w)
  /\ worker' = [worker EXCEPT ![s] = w]
  /\ Forgive(ip[s])
  /\ poolWorker' = [poolWorker EXCEPT ![s] = w]
  /\ UNCHANGED <<now, total, perIp, pc, ip, tasks, gone, subscribed, bucketVars,
                 relayed, relayedAll, admittedAt, bans, leaked>>

(* record_auth_failure drops the failures before the window, oldest first. *)
Old(a) ==
  {i \in 1..Len(failures[a]) : \A j \in 1..i : failures[a][j] < now - FailureWindow}

Recent(a) ==
  Append(SubSeq(failures[a], Cardinality(Old(a)) + 1, Len(failures[a])), now)

(* mining.authorize with a wrong secret.  The failure that makes it too    *)
(* many bans the address and ends this connection, though no other of it.  *)
Fail(s, w) ==
  LET a == ip[s] IN
  /\ Reading(s)
  /\ MayBind(s, w)
  /\ IF Len(Recent(a)) >= MaxFailures
     THEN /\ bannedUntil' = [bannedUntil EXCEPT ![a] = now + Ban]
          /\ failures' = [failures EXCEPT ![a] = <<>>]
          /\ bans' = [bans EXCEPT ![a] = @ \cup {now}]
          /\ tasks' = [tasks EXCEPT ![s] = @ \ {"up"}]
     ELSE /\ failures' = [failures EXCEPT ![a] = Recent(a)]
          /\ UNCHANGED <<bannedUntil, bans, tasks>>
  /\ UNCHANGED <<now, total, perIp, pc, ip, gone, subscribed, worker, bucketVars,
                 poolWorker, relayed, relayedAll, admittedAt, leaked>>

(* TokenBucket.consume.                                                    *)
Refilled(b, rate, burst) ==
  LET t == b.tokens + (now - b.updated) * rate IN IF t < burst THEN t ELSE burst

Enough(b, rate, burst) == Refilled(b, rate, burst) >= Cost

(* Mutant: a refusal leaves the time of the last refill as it is.          *)
ConsumedEarlyReturn(b, rate, burst) ==
  LET t == Refilled(b, rate, burst)
  IN IF t < Cost THEN [b EXCEPT !.tokens = t]
     ELSE [tokens |-> t - Cost, updated |-> now]

Consumed(b, rate, burst) ==
  LET t == Refilled(b, rate, burst)
  IN [tokens |-> IF t < Cost THEN t ELSE t - Cost, updated |-> now]

(* mining.submit for worker w; the buckets are asked one after the other,  *)
(* and the name is compared last.                                          *)
Submit(s, w) ==
  /\ Reading(s)
  /\ worker[s] # NoWorker
  /\ bucket' = [bucket EXCEPT ![s] = Consumed(@, Rate, Burst)]
  /\ globalBucket' = IF Enough(bucket[s], Rate, Burst)
                     THEN Consumed(globalBucket, GlobalRate, GlobalBurst)
                     ELSE globalBucket
  /\ IF /\ Enough(bucket[s], Rate, Burst)
        /\ Enough(globalBucket, GlobalRate, GlobalBurst)
        /\ w = worker[s]
     THEN /\ relayed' = [relayed EXCEPT ![s] = @ + 1]
          /\ relayedAll' = relayedAll + 1
          /\ poolWorker' = [poolWorker EXCEPT ![s] = w]
     ELSE UNCHANGED <<relayed, relayedAll, poolWorker>>
  /\ UNCHANGED <<now, guardVars, sessionVars, admittedAt, bans, leaked>>

-----------------------------------------------------------------------------
Handle(s) ==
  \/ \E written \in BOOLEAN : OpenLogged(s, written)
  \/ Reach(s)
  \/ ReachFails(s)
  \/ Finish(s)

Next ==
  \/ Tick
  \/ \E s \in Sessions :
       \/ Admit(s) \/ Refuse(s) \/ Leave(s) \/ Subscribe(s) \/ Handle(s)
       \/ \E d \in Directions : TaskEnds(s, d)
       \/ \E w \in Workers : Authorize(s, w) \/ Fail(s, w) \/ Submit(s, w)

(* Handlers go on, and reading from a client that does not send ends, with *)
(* the end of file or with the idle timeout.                               *)
Fairness ==
  \A s \in Sessions : WF_vars(Handle(s) \/ (s \in gone /\ TaskEnds(s, "up")))

Spec == Init /\ [][Next]_vars /\ Fairness

-----------------------------------------------------------------------------
(* Properties.                                                             *)

Steps == {"absent", "admitted", "connecting", "relay", "closed"}
Bucket == [tokens : Nat, updated : Nat]

TypeOK ==
  /\ now \in Nat
  /\ total \in Nat
  /\ perIp \in [Ips -> Nat]
  /\ failures \in [Ips -> Seq(Nat)]
  /\ bannedUntil \in [Ips -> Nat]
  /\ pc \in [Sessions -> Steps]
  /\ ip \in [Sessions -> Ips]
  /\ tasks \in [Sessions -> SUBSET Directions]
  /\ gone \subseteq Sessions
  /\ subscribed \subseteq Sessions
  /\ worker \in [Sessions -> Workers \cup {NoWorker}]
  /\ bucket \in [Sessions -> Bucket]
  /\ globalBucket \in Bucket
  /\ poolWorker \in [Sessions -> Workers \cup {NoWorker}]
  /\ relayed \in [Sessions -> Nat] /\ relayedAll \in Nat
  /\ admittedAt \in [Sessions -> Nat]
  /\ bans \in [Ips -> SUBSET Nat]
  /\ leaked \subseteq Sessions

Slots == {s \in Sessions : pc[s] \in {"admitted", "connecting", "relay"}}
           \cup leaked
SlotsOf(a) == {s \in Slots : ip[s] = a}

(* The slots counted are the connections there are, whatever order they    *)
(* come, fail and go in, so that the limits of docs/CRAK-028.md hold for   *)
(* connections and every one that ends makes room for another; but for     *)
(* those lost with a log that could not be written.                        *)
SlotsCounted ==
  /\ TypeOK
  /\ total = Cardinality(Slots) /\ total <= MaxTotal
  /\ \A a \in Ips : perIp[a] = Cardinality(SlotsOf(a)) /\ perIp[a] <= MaxPerIp

(* docs/CRAK-028.md: one worker identity is bound to each connection.      *)
(* What the pool is told on it names one worker, the authenticated one,    *)
(* through refused submissions, repeated and failed authorizations.        *)
OneIdentity ==
  [][\A s \in Sessions :
       /\ poolWorker[s] # NoWorker => poolWorker'[s] = poolWorker[s]
       /\ poolWorker'[s] # NoWorker /\ pc'[s] # "closed"
            => poolWorker'[s] = worker'[s]]_vars

(* The pool gets no more submissions than the rates allow, from one        *)
(* connection and from all of them, whichever were refused in between.     *)
RatesHold ==
  /\ Cost * relayedAll <= GlobalBurst + GlobalRate * now
  /\ \A s \in Sessions :
       Cost * relayed[s] <= Burst + Rate * (now - admittedAt[s])

(* A ban lasts: no connection is admitted before it is over, although the *)
(* connections that the address has already go on, fail and succeed.       *)
BanLasts ==
  [][\A s \in Sessions :
       pc[s] = "absent" /\ pc'[s] = "admitted"
         => \A t \in bans[ip[s]] : t + Ban <= now]_vars

(* A client that is gone gives its slot back, although the pool goes on    *)
(* sending to it, unless the slot was lost with the log: each connection   *)
(* is used once, so this says that in the end none keeps a slot.           *)
SlotsReturn == <>[](gone \cap (Slots \ leaked) = {})
=============================================================================
