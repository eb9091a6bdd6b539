---------------------------- MODULE StratumMining ----------------------------
(***************************************************************************)
(* A Stratum worker, scripts/crakminer-stratum.py, at work for the pool of *)
(* scripts/crakpool.py, over a connection that may be lost.                *)
(*                                                                         *)
(* The worker has two threads: its reader takes jobs and replies off the   *)
(* connection at any time, its main thread snapshots a job, scans, checks  *)
(* that the job still stands, submits and waits.  The pool's handler       *)
(* awaits the scanner and the node between reading a share and answering   *)
(* it, while the template loop changes the job.                            *)
(*                                                                         *)
(* Two templates on one tip are taken to be equal.  How refreshes overlap  *)
(* is the subject of JobDelivery; here each is one step.                   *)
(***************************************************************************)
EXTENDS Naturals, FiniteSets, SequencesExt

CONSTANTS
  Shares,       \* --shares
  Extranonces,  \* size of the extranonce2 space
  MaxTip        \* bound: changes of the node's tip

ASSUME MiningAssumption ==
  /\ Shares \in Nat \ {0}
  /\ Extranonces \in Nat \ {0, 1}   \* the worker wants a byte of it at least
  /\ MaxTip \in Nat

VARIABLES
  tip,         \* the node's tip
  taken,       \* headers of the worker's blocks the node took
  jobs,        \* Pool.jobs: the tip each job builds on; the last is current
  forced,      \* another session found a block and has yet to refresh
  authorized,
  seen,        \* Session.seen: job and extranonce2 of each submission
  at, share,   \* the pool's handler of the session, and what it handles
  credited,    \* the shares in Pool.accepted_shares
  answered,    \*   and those answered with true
  refused,     \* history: reasons the pool gave, but for stale work
  link,        \* "up", "closed" by the pool or "lost"
  toPool, toWorker,
  pc,          \* Stratum worker: main thread
  response,    \* Stratum.responses, at most one reply
  job, generation,
  reader,      \*   its reader: "reading", "eof" or "failed"
  snap,        \* job and generation of the scan
  extranonce, wrapped,   \* extranonce_counter; history: it came round
  found,       \* what the scan found
  accepted, blocks

nodeVars == <<tip, taken>>
sessionVars == <<authorized, seen, at, share>>
statVars == <<credited, answered, refused>>
poolVars == <<jobs, forced, sessionVars, statVars>>
wireVars == <<link, toPool, toWorker>>
readerVars == <<response, job, generation, reader>>
mainVars == <<pc, snap, extranonce, wrapped, found, accepted, blocks>>
vars == <<nodeVars, poolVars, wireVars, readerVars, mainVars>>

NoReply == {}
Nothing == [kind |-> "none"]

Init ==
  /\ tip = 0 /\ taken = {}
  /\ jobs = <<0>> /\ forced = FALSE
  /\ authorized = FALSE /\ seen = {} /\ at = "reading" /\ share = Nothing
  /\ credited = {} /\ answered = {} /\ refused = {}
  /\ link = "up" /\ toPool = <<>> /\ toWorker = <<>>
  /\ pc = "subscribe"
  /\ response = NoReply /\ job = 0 /\ generation = 0 /\ reader = "reading"
  /\ snap = [job |-> 0, generation |-> 0]
  /\ extranonce = 0 /\ wrapped = FALSE /\ found = Nothing
  /\ accepted = 0 /\ blocks = 0

-----------------------------------------------------------------------------
(* Headers.  A hash stands for what is hashed.                             *)

None == <<>>
Hash256(left, right) == <<left, right>>

(* The coinbase of a template and its other transactions, which give trees *)
(* with odd levels.                                                        *)
Coinbase(t, e) == <<"coinbase", t, e>>
Transactions(t) == [n \in 1..(2 * t + 2) |-> <<n>>]

(* An odd level repeats its last hash.                                     *)
Padded(level) ==
  IF Len(level) % 2 = 1 THEN Append(level, level[Len(level)]) ELSE level

Paired(level) ==
  [i \in 1..Len(level) \div 2 |-> Hash256(level[2 * i - 1], level[2 * i])]

(* Levels of a tree, as many times as there can be levels above this one.  *)
Rounds(level) == [n \in 1..Len(level) |-> n]

NextLevel(level, n) == IF Len(level) = 1 THEN level ELSE Paired(Padded(level))

(* What a node, and the native miner, make of all transactions of a block. *)
MerkleRoot(level) == Head(FoldLeft(NextLevel, level, Rounds(level)))

(* The pool does not know the coinbase when it makes a job: each level     *)
(* begins with the hash it lacks, and gives its second one to the branch.  *)
Climb(tree, n) ==
  LET padded == Padded(tree.level) IN
  IF Len(tree.level) = 1 THEN tree
  ELSE [level |-> <<None>> \o Paired(SubSeq(padded, 3, Len(padded))),
        branch |-> Append(tree.branch, padded[2])]

MerkleBranch(level) ==
  FoldLeft(Climb, [level |-> level, branch |-> <<>>], Rounds(level)).branch

Branches == [t \in 0..MaxTip |-> MerkleBranch(<<None>> \o Transactions(t))]

FromCoinbase(coinbase, branch) == FoldLeft(Hash256, coinbase, branch)

(* The worker and the pool each put the 80 bytes together, from the parts  *)
(* of the job, both extranonces and the nonce.                             *)
WorkerHeader(j, e) ==
  [previous |-> jobs[j],
   root |-> FromCoinbase(Coinbase(jobs[j], e), Branches[jobs[j]])]

(* Mutant: the pool hashes the header of the job it has by now.            *)
CurrentHeader(s) == WorkerHeader(Len(jobs), s.extranonce)

PoolHeader(s) == WorkerHeader(s.job, s.extranonce)

-----------------------------------------------------------------------------
(* The connection.                                                         *)

Reply(ok) == [kind |-> "reply", ok |-> ok]
Notify == [kind |-> "notify", job |-> Len(jobs')]

(* What the pool writes arrives while the connection is up.                *)
Write(messages) ==
  toWorker' = IF link = "up" THEN toWorker \o messages ELSE toWorker

(* The network loses the connection, and what was under way with it.       *)
Lose ==
  /\ link = "up"
  /\ link' = "lost"
  /\ toPool' = <<>>
  /\ toWorker' \in {SubSeq(toWorker, 1, n) : n \in 0..Len(toWorker)}
  /\ UNCHANGED <<nodeVars, poolVars, readerVars, mainVars>>

(* The tip moves by somebody else's block, which may have come through     *)
(* another session of the pool.                                            *)
TipMoves ==
  /\ tip < MaxTip
  /\ tip' = tip + 1
  /\ forced' \in {forced, TRUE}
  /\ UNCHANGED <<taken, jobs, sessionVars, statVars, wireVars, readerVars, mainVars>>

-----------------------------------------------------------------------------
(* The pool.                                                               *)

(* handle_client ends: its session is closed.                              *)
Raise ==
  /\ at' = "closed"
  /\ link' = IF link = "up" THEN "closed" ELSE link
  /\ UNCHANGED <<toPool, toWorker>>

(* build_job and broadcast_job.                                            *)
NewJob ==
  /\ jobs' = Append(jobs, tip)
  /\ Write(IF authorized /\ at # "closed" THEN <<Notify>> ELSE <<>>)

(* template_loop with a new tip, or the forced refresh of another session, *)
(* which makes a job even of a template the pool has.                      *)
Refresh ==
  /\ \/ jobs[Len(jobs)] # tip /\ UNCHANGED forced
     \/ forced /\ forced' = FALSE
  /\ NewJob
  /\ UNCHANGED <<nodeVars, sessionVars, statVars, link, toPool, readerVars, mainVars>>

Take(kind) ==
  /\ at = "reading"
  /\ toPool # <<>>
  /\ Head(toPool).kind = kind
  /\ toPool' = Tail(toPool)

HandleSubscribe ==
  /\ Take("subscribe")
  /\ Write(<<Reply(TRUE)>>)
  /\ UNCHANGED <<nodeVars, poolVars, link, readerVars, mainVars>>

HandleAuthorize ==
  /\ Take("authorize")
  /\ authorized' = TRUE
  /\ UNCHANGED <<jobs, forced, seen, at, share, statVars>>
  /\ Write(<<Reply(TRUE), Notify>>)
  /\ UNCHANGED <<nodeVars, link, readerVars, mainVars>>

Refuse(reason) ==
  /\ refused' = refused \cup ({reason} \ {"stale"})
  /\ at' = "reading"
  /\ share' = Nothing
  /\ Write(<<Reply(FALSE)>>)

(* handle_submit up to its first await: the job must be the current one    *)
(* and the share a new one.                                                *)
HandleSubmit ==
  LET s == Head(toPool) IN
  /\ Take("submit")
  /\ IF s.job # Len(jobs)
     THEN Refuse("stale") /\ UNCHANGED seen
     ELSE IF <<s.job, s.extranonce>> \in seen
     THEN Refuse("duplicate") /\ UNCHANGED seen
     ELSE /\ seen' = seen \cup {<<s.job, s.extranonce>>}
          /\ at' = "verifying"
          /\ share' = s
          /\ UNCHANGED <<refused, toWorker>>
  /\ UNCHANGED <<nodeVars, jobs, forced, authorized, credited, answered, link, readerVars,
                 mainVars>>

Answer ==
  /\ answered' = answered \cup {share}
  /\ Write(<<Reply(TRUE)>>)

(* The scanner hashes the pool's header with the one nonce of the share,   *)
(* which was found good for the worker's.                                  *)
ScannerAccepts == PoolHeader(share) = share.header

Verify ==
  /\ at = "verifying"
  /\ IF ~ScannerAccepts
     THEN Refuse("low") /\ UNCHANGED <<credited, answered>>
     ELSE /\ credited' = credited \cup {share}
          /\ UNCHANGED refused
          /\ IF share.block
             THEN at' = "submitting" /\ UNCHANGED <<share, answered, toWorker>>
             ELSE at' = "reading" /\ share' = Nothing /\ Answer
  /\ UNCHANGED <<nodeVars, jobs, forced, authorized, seen, link, toPool, readerVars, mainVars>>

(* The node takes a block that builds on its tip and whose header commits  *)
(* to its transactions.                                                    *)
OnTip == PoolHeader(share).previous = tip

Takes ==
  /\ OnTip
  /\ PoolHeader(share).root =
       MerkleRoot(<<Coinbase(tip, share.extranonce)>> \o Transactions(tip))

NodeTakes ==
  IF Takes
  THEN tip' = tip + 1 /\ taken' = taken \cup {PoolHeader(share)}
  ELSE UNCHANGED nodeVars

SubmitBlock ==
  /\ at = "submitting"
  /\ NodeTakes
  /\ IF Takes
     THEN /\ Answer
          /\ at' = "refreshing"
          /\ UNCHANGED <<share, refused>>
     ELSE Refuse(IF OnTip THEN "bad" ELSE "stale") /\ UNCHANGED answered
  /\ UNCHANGED <<jobs, forced, authorized, seen, credited, link, toPool, readerVars,
                 mainVars>>

(* refresh_template(force=True) for the block of this session.             *)
ForceRefresh ==
  /\ at = "refreshing"
  /\ NewJob
  /\ at' = "reading"
  /\ share' = Nothing
  /\ UNCHANGED <<nodeVars, forced, authorized, seen, statVars, link, toPool, readerVars,
                 mainVars>>

(* The scanner or a call to the node fails; the node may have taken the    *)
(* block all the same.                                                     *)
HandlerFails ==
  /\ at \in {"verifying", "submitting", "refreshing"}
  /\ IF at = "submitting" THEN NodeTakes \/ UNCHANGED nodeVars ELSE UNCHANGED nodeVars
  /\ Raise
  /\ UNCHANGED <<jobs, forced, authorized, seen, share, statVars, readerVars, mainVars>>

Handler == HandleSubscribe \/ HandleAuthorize \/ HandleSubmit \/ Verify
             \/ SubmitBlock \/ ForceRefresh

-----------------------------------------------------------------------------
(* The worker's reader thread.                                             *)

Read ==
  LET m == Head(toWorker) IN
  /\ reader = "reading"
  /\ toWorker # <<>>
  /\ toWorker' = Tail(toWorker)
  /\ IF m.kind = "reply"
     THEN response' = {m.ok} /\ UNCHANGED <<job, generation>>
     ELSE job' = m.job /\ generation' = generation + 1 /\ UNCHANGED response
  /\ UNCHANGED <<nodeVars, poolVars, link, toPool, reader, mainVars>>

(* The end of file is no error; a connection lost may be one, or may not   *)
(* be noticed.                                                             *)
ReadEnds ==
  /\ reader = "reading"
  /\ toWorker = <<>>
  /\ link # "up"
  /\ reader' \in (IF link = "lost" THEN {"eof", "failed"} ELSE {"eof"})
  /\ UNCHANGED <<nodeVars, poolVars, wireVars, response, job, generation, mainVars>>

-----------------------------------------------------------------------------
(* The worker's main thread.                                               *)

Stop(status) ==
  /\ pc' = status
  /\ UNCHANGED <<snap, extranonce, wrapped, found, accepted, blocks>>

(* Stratum._send: on a dead connection it raises, or the line is lost.     *)
Send(message, next) ==
  /\ UNCHANGED <<nodeVars, poolVars, link, toWorker, job, generation, reader>>
  /\ response' = NoReply
  /\ \/ /\ pc' = next
        /\ toPool' = IF link = "up" THEN Append(toPool, message) ELSE toPool
     \/ /\ link # "up"
        /\ pc' = "failed"
        /\ UNCHANGED toPool

Subscribe ==
  /\ pc = "subscribe"
  /\ Send([kind |-> "subscribe"], "subscribing")
  /\ UNCHANGED <<snap, extranonce, wrapped, found, accepted, blocks>>

Authorize ==
  /\ pc = "authorize"
  /\ Send([kind |-> "authorize"], "authorizing")
  /\ UNCHANGED <<snap, extranonce, wrapped, found, accepted, blocks>>

Waiting == pc \in {"subscribing", "authorizing", "submitting"}

(* start: both requests are answered.                                      *)
Started ==
  /\ pc \in {"subscribing", "authorizing"}
  /\ response = {TRUE}
  /\ Stop(IF pc = "subscribing" THEN "authorize" ELSE "loop")
  /\ UNCHANGED <<nodeVars, poolVars, wireVars, readerVars>>

(* Mutant: a timeout is taken for a refusal of the share.                  *)
AfterTimeoutGoOn == IF pc = "submitting" THEN "loop" ELSE "failed"

(* TimeoutError is an OSError, which ends the program.                     *)
AfterTimeout == "failed"

TimeOut ==
  /\ Waiting
  /\ response = NoReply
  /\ Stop(AfterTimeout)
  /\ UNCHANGED <<nodeVars, poolVars, wireVars, readerVars>>

(* "Stratum reader failed" is a RuntimeError: within mining.submit it is   *)
(* taken for a refusal of the share, elsewhere it ends the program.        *)
ReaderFailed ==
  /\ reader = "failed"
  /\ \/ Waiting /\ response = NoReply
     \/ pc = "loop" /\ job = 0
  /\ Stop(IF pc = "submitting" THEN "loop" ELSE "failed")
  /\ UNCHANGED <<nodeVars, poolVars, wireVars, readerVars>>

(* Mutant: the counter stays where it is.                                  *)
SameExtranonce == extranonce

NextExtranonce == (extranonce + 1) % Extranonces

(* snapshot_job waits for the first job.                                   *)
Snapshot ==
  /\ pc = "loop"
  /\ accepted < Shares
  /\ job # 0
  /\ snap' = [job |-> job, generation |-> generation]
  /\ extranonce' = NextExtranonce
  /\ wrapped' = (wrapped \/ NextExtranonce < extranonce)
  /\ pc' = "scan"
  /\ UNCHANGED <<nodeVars, poolVars, wireVars, readerVars, found, accepted, blocks>>

(* The scan finds no share, a share, or a block.                           *)
ScanFinds(outcome) ==
  /\ pc = "scan"
  /\ outcome = "block" => tip < MaxTip
  /\ pc' = IF outcome = "none" THEN "loop" ELSE "found"
  /\ found' = IF outcome = "none" THEN Nothing ELSE
       [kind |-> "submit", job |-> snap.job, extranonce |-> extranonce,
        header |-> WorkerHeader(snap.job, extranonce), block |-> outcome = "block"]
  /\ UNCHANGED <<nodeVars, poolVars, wireVars, readerVars, snap, extranonce, wrapped,
                 accepted, blocks>>

ScanFails ==
  /\ pc = "scan"
  /\ Stop("failed")
  /\ UNCHANGED <<nodeVars, poolVars, wireVars, readerVars>>

IsCurrent == generation = snap.generation

DropStale ==
  /\ pc = "found"
  /\ ~IsCurrent
  /\ pc' = "loop"
  /\ found' = Nothing
  /\ UNCHANGED <<nodeVars, poolVars, wireVars, readerVars, snap, extranonce, wrapped,
                 accepted, blocks>>

Submit ==
  /\ pc = "found"
  /\ IsCurrent
  /\ Send(found, "submitting")
  /\ UNCHANGED <<snap, extranonce, wrapped, found, accepted, blocks>>

(* Mutant: every answer counts.                                            *)
CountedAlways(ok) == TRUE

Counted(ok) == ok

(* The reply to mining.submit; whether the share is a block is for the     *)
(* worker to see.                                                          *)
Submitted ==
  /\ pc = "submitting"
  /\ pc' = "loop"
  /\ found' = Nothing
  /\ \E ok \in response :
       /\ accepted' = IF Counted(ok) THEN accepted + 1 ELSE accepted
       /\ blocks' = IF Counted(ok) /\ found.block THEN blocks + 1 ELSE blocks
  /\ UNCHANGED <<nodeVars, poolVars, wireVars, readerVars, snap, extranonce, wrapped>>

Complete ==
  /\ pc = "loop"
  /\ accepted >= Shares
  /\ Stop("complete")
  /\ UNCHANGED <<nodeVars, poolVars, wireVars, readerVars>>

Main ==
  \/ Subscribe \/ Authorize \/ Started \/ TimeOut \/ ReaderFailed
  \/ Snapshot \/ DropStale \/ Submit \/ Submitted \/ Complete
  \/ \E outcome \in {"none", "share", "block"} : ScanFinds(outcome)

-----------------------------------------------------------------------------
Next ==
  \/ Lose \/ TipMoves \/ Refresh \/ Handler \/ HandlerFails
  \/ Read \/ ReadEnds \/ Main \/ ScanFails

(* Threads and coroutines go on, and scans that are repeated find shares   *)
(* with every extranonce.  TimeOut may come before or after the reply.     *)
Fairness ==
  /\ WF_vars(Main) /\ WF_vars(Read)
  /\ WF_vars(Handler) /\ WF_vars(Refresh)
  /\ \A e \in 0..Extranonces - 1 : SF_vars(extranonce = e /\ ScanFinds("share"))

Spec == Init /\ [][Next]_vars /\ Fairness

-----------------------------------------------------------------------------
(* Properties.                                                             *)

(* What mining.submit tells of: work on a job the pool has made.           *)
Submission(s) ==
  /\ s.kind = "submit"
  /\ s.job \in 1..Len(jobs) /\ s.extranonce \in 0..Extranonces - 1
  /\ s.header = WorkerHeader(s.job, s.extranonce)
  /\ s.block \in BOOLEAN /\ (s.block => jobs[s.job] < MaxTip)

Request(m) ==
  m = [kind |-> "subscribe"] \/ m = [kind |-> "authorize"] \/ Submission(m)

Messages ==
  [kind : {"reply"}, ok : BOOLEAN] \cup [kind : {"notify"}, job : 1..Len(jobs)]

PoolTypes ==
  /\ tip \in 0..MaxTip /\ jobs \in Seq(0..MaxTip) /\ jobs # <<>>
  /\ \A j \in 1..Len(jobs) : jobs[j] <= tip
  /\ \A h \in taken : h.previous \in 0..tip - 1
  /\ forced \in BOOLEAN /\ authorized \in BOOLEAN
  /\ seen \subseteq (1..Len(jobs)) \X (0..Extranonces - 1)
  /\ at \in {"reading", "verifying", "submitting", "refreshing", "closed"}
  /\ at \in {"verifying", "submitting"} => Submission(share)
  /\ at = "submitting" => share.block
  /\ \A s \in credited \cup answered : Submission(s)
  /\ refused \subseteq {"duplicate", "low", "bad"}

WireTypes ==
  /\ link \in {"up", "closed", "lost"}
  /\ toPool # <<>> => toPool = <<Head(toPool)>> /\ Request(Head(toPool))
  /\ toWorker \in Seq(Messages)

WorkerTypes ==
  /\ pc \in {"subscribe", "subscribing", "authorize", "authorizing", "loop",
             "scan", "found", "submitting", "complete", "failed"}
  /\ pc \in {"found", "submitting"} => Submission(found)
  /\ pc = "scan" => snap.job # 0
  /\ response \in {NoReply, {TRUE}, {FALSE}}
  /\ job \in 0..Len(jobs) /\ generation \in Nat
  /\ reader \in {"reading", "eof", "failed"}
  /\ snap \in [job : 0..Len(jobs), generation : Nat]
  /\ extranonce \in 0..Extranonces - 1 /\ wrapped \in BOOLEAN
  /\ accepted \in Nat /\ blocks \in Nat

TypeOK == PoolTypes /\ WireTypes /\ WorkerTypes

(* The branch a job carries leads to the root a node finds.                *)
TreesAgree ==
  \A t \in 0..MaxTip : \A e \in 0..Extranonces - 1 :
    FromCoinbase(Coinbase(t, e), Branches[t])
      = MerkleRoot(<<Coinbase(t, e)>> \o Transactions(t))

(* Different extranonces give different roots.                             *)
RootsTell ==
  \A t \in 0..MaxTip : \A e, f \in 0..Extranonces - 1 :
    FromCoinbase(Coinbase(t, e), Branches[t])
      = FromCoinbase(Coinbase(t, f), Branches[t]) => e = f

(* The worker's counters, by which --shares and --blocks stop it, agree    *)
(* with the pool and the node: it counts nothing they did not take, and,   *)
(* between two submissions on a working connection, all they took.         *)
CountsAgree ==
  /\ accepted <= Cardinality(answered)
  /\ blocks <= Cardinality(taken)
  /\ pc = "loop" /\ link = "up" =>
       /\ accepted = Cardinality(answered)
       /\ blocks = Cardinality(taken)

(* One piece of work is credited once, although refreshes that overlap     *)
(* give one template two job ids and the pool remembers shares by job id:  *)
(* the extranonces of the worker keep them apart until they come round.    *)
WorkOnce ==
  ~wrapped => \A s, t \in credited : s.header = t.header => s = t

(* A share of the official worker is refused only for a job that is no     *)
(* longer current: the two put the same header together, whatever changed  *)
(* while the pool awaited, and no submission is repeated.                  *)
OnlyStaleRefused == wrapped \/ refused = {}

(* The worker ends: with its shares, or, when the connection or the pool   *)
(* fails, with an error.  Two ends are missing in the code: a worker that  *)
(* has no job yet waits for one after the end of file, and one whose       *)
(* reader failed while it can still write takes that for refused shares.   *)
Ends ==
  <>(pc \in {"complete", "failed"} \/ (job = 0 /\ link # "up") \/ reader = "failed")
=============================================================================
