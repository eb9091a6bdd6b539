--------------------------- MODULE AccountingPool ---------------------------
(***************************************************************************)
(* The accounting pool, scripts/crakpool-accounting.py: miners' sessions   *)
(* submit shares, the pool verifies them, sends block candidates to the    *)
(* node, and records shares, blocks and credits in SQLite.                 *)
(*                                                                         *)
(* One event loop runs all sessions.  A session handles one message at a   *)
(* time; while it awaits the scanner or the node, other sessions and the   *)
(* template loop run.  A share and the block it finds are two commits with *)
(* no await between them.  The process may be killed anywhere, also        *)
(* between the two; only the database survives.                            *)
(***************************************************************************)
EXTENDS Integers, Sequences

CONSTANTS
  Sessions,     \* connection slots
  Workers,      \* worker names
  NoWorker,
  Keys,         \* extranonce2 and nonce of a share
  MinDiff, MaxDiff, DefaultDiff,  \* --vardiff-min, -max, --share-difficulty
  Modes,        \* values of --payout-mode the pool may be started with
  PplnsShares,  \* --pplns-shares
  MaxConns,     \* bounds of the instance: connections,
  MaxJobs,      \*   jobs,
  MaxTip,       \*   changes of the node's tip,
  MaxShares     \*   and recorded shares

(* What the command line is checked for; the difficulty of a new session   *)
(* need not be within the bounds.                                          *)
ValidOptions ==
  /\ Modes \subseteq {"proportional", "pplns"}
  /\ PplnsShares \in Nat \ {0}
  /\ DefaultDiff \in Nat \ {0}
  /\ MinDiff \in Nat \ {0} /\ MaxDiff \in Nat /\ MinDiff <= MaxDiff

ASSUME PoolAssumption ==
  /\ ValidOptions
  /\ Modes # {}
  /\ NoWorker \notin Workers
  /\ 0 \notin Keys
  /\ {MaxConns, MaxJobs, MaxTip, MaxShares} \subseteq Nat

VARIABLES
  tip,       \* the node's best block, numbered by how often it changed
  taken,     \* pool shares the node accepted as blocks
  mode,      \* payout_mode of the running process
  job,       \* current_job: its number, the tip it builds on, its template
  conns,     \* connections so far; each has its own extranonce1
  pc,        \* where the session's handler is
  conn,      \* the session's connection
  worker,    \* session.worker
  diff,      \* VardiffState.difficulty
  seen,      \* session.seen
  held,      \* the share in hand: its job, key, target difficulty, row id
  saved,     \* workers.current_difficulty, 0 before the row exists
  shares,    \* shares table, in id order
  blocks,    \* blocks table, in insertion order
  lost       \* history: blocks whose handler was cut off before recording

nodeVars == <<tip, taken>>
sessionVars == <<conn, worker, seen>>
dbVars == <<saved, shares, blocks>>
vars == <<nodeVars, mode, job, conns, pc, sessionVars, diff, held, dbVars,
          lost>>

NoJob == [id |-> 0, tip |-> 0, work |-> 0]
Nothing == [id |-> 0, tip |-> 0, work |-> 0, key |-> 0, diff |-> 0, row |-> 0]

(* The header of the share in hand, which its block hash stands for: the   *)
(* connection's extranonce1, the template, and the miner's choice.         *)
Share(s) == <<conn[s], held[s].work, held[s].key>>

(* Mutant: the handler awaits between the two commits.                     *)
LoopAlwaysFree == TRUE

(* Between the two commits of a block nothing else of the pool runs.       *)
LoopFree == \A s \in Sessions : pc[s] # "credit"

Init ==
  /\ tip = 0
  /\ taken = {}
  /\ mode \in Modes
  /\ job = NoJob
  /\ conns = 0
  /\ pc = [s \in Sessions |-> "closed"]
  /\ conn = [s \in Sessions |-> 0]
  /\ worker = [s \in Sessions |-> NoWorker]
  /\ diff = [s \in Sessions |-> DefaultDiff]
  /\ seen = [s \in Sessions |-> {}]
  /\ held = [s \in Sessions |-> Nothing]
  /\ saved = [w \in Workers |-> 0]
  /\ shares = <<>>
  /\ blocks = <<>>
  /\ lost = {}

-----------------------------------------------------------------------------
(* The node, and the templates it serves.                                  *)

(* Someone else's block, or a reorganisation, changes the tip.             *)
TipMoves ==
  /\ tip < MaxTip
  /\ tip' = tip + 1
  /\ UNCHANGED <<taken, mode, job, conns, pc, sessionVars, diff, held, dbVars,
                 lost>>

(* refresh_template makes a job of a template the node served some time    *)
(* ago, on this tip or an earlier one.  Two refreshes can get the same     *)
(* template, which then has two job ids.                                   *)
RefreshTemplate(t, work) ==
  /\ LoopFree
  /\ job.id < MaxJobs
  /\ t <= tip
  /\ work = job.id + 1 \/ (work = job.work /\ job # NoJob /\ t = job.tip)
  /\ job' = [id |-> job.id + 1, tip |-> t, work |-> work]
  /\ UNCHANGED <<nodeVars, mode, conns, pc, sessionVars, diff, held, dbVars,
                 lost>>

-----------------------------------------------------------------------------
(* Sessions: connect, authorize, leave.                                    *)

Connect(s) ==
  /\ LoopFree
  /\ pc[s] = "closed"
  /\ job # NoJob
  /\ conns < MaxConns
  /\ conns' = conns + 1
  /\ pc' = [pc EXCEPT ![s] = "idle"]
  /\ conn' = [conn EXCEPT ![s] = conns + 1]
  /\ worker' = [worker EXCEPT ![s] = NoWorker]
  /\ diff' = [diff EXCEPT ![s] = DefaultDiff]
  /\ seen' = [seen EXCEPT ![s] = {}]
  /\ UNCHANGED <<nodeVars, mode, job, held, dbVars, lost>>

(* Mutant: the saved difficulty is used as it is.                          *)
Unclamped(d) == d

(* A saved difficulty is brought within the configured bounds.             *)
Clamped(d) == IF d < MinDiff THEN MinDiff ELSE IF d > MaxDiff THEN MaxDiff ELSE d

(* A new worker gets the difficulty of its session, a known one keeps its  *)
(* own.                                                                    *)
Register(w, d) == saved' = [saved EXCEPT ![w] = IF @ = 0 THEN d ELSE @]

SaveDifficulty(w, d) == saved' = [saved EXCEPT ![w] = d]

(* mining.authorize.                                                       *)
Authorize(s, w) ==
  /\ LoopFree
  /\ pc[s] = "idle"
  /\ worker' = [worker EXCEPT ![s] = w]
  /\ Register(w, diff[s])
  /\ diff' = [diff EXCEPT ![s] = Clamped(saved'[w])]
  /\ UNCHANGED <<nodeVars, mode, job, conns, pc, conn, seen, held, shares, blocks,
                 lost>>

(* Sessions S end: what they held goes with them, and a block that the     *)
(* node has accepted and the ledger does not know is lost.                 *)
End(S) ==
  /\ pc' = [s \in Sessions |-> IF s \in S THEN "closed" ELSE pc[s]]
  /\ conn' = [s \in Sessions |-> IF s \in S THEN 0 ELSE conn[s]]
  /\ worker' = [s \in Sessions |-> IF s \in S THEN NoWorker ELSE worker[s]]
  /\ diff' = [s \in Sessions |-> IF s \in S THEN DefaultDiff ELSE diff[s]]
  /\ seen' = [s \in Sessions |-> IF s \in S THEN {} ELSE seen[s]]
  /\ held' = [s \in Sessions |-> IF s \in S THEN Nothing ELSE held[s]]
  /\ lost' = lost \cup {Share(s) : s \in {r \in S : pc[r] \in {"accepted",
                                                              "credit"}}}

(* The client leaves, or an await of the handler raises: a reply cannot be *)
(* written, the scanner fails, a call to the node fails or times out,      *)
(* SQLite refuses a statement.  handle_client closes the session.          *)
Close(s) ==
  /\ pc[s] # "closed"
  /\ LoopFree \/ pc[s] = "credit"
  /\ End({s})
  /\ UNCHANGED <<nodeVars, mode, job, conns, dbVars>>

(* The process is killed.  Started again, perhaps in another payout mode,  *)
(* it counts jobs from 1.                                                  *)
Restart ==
  /\ job # NoJob
  /\ job' = NoJob
  /\ mode' \in Modes
  /\ End(Sessions)
  /\ UNCHANGED <<nodeVars, conns, dbVars>>

-----------------------------------------------------------------------------
(* mining.submit.                                                          *)

(* Mutant: the share is not remembered.                                    *)
FreshUnremembered(s, k) ==
  /\ <<job.id, k>> \notin seen[s]
  /\ UNCHANGED seen

(* A share not seen on this connection; it is remembered at once, before   *)
(* it is known to be good.                                                 *)
Fresh(s, k) ==
  /\ <<job.id, k>> \notin seen[s]
  /\ seen' = [seen EXCEPT ![s] = @ \cup {<<job.id, k>>}]

(* The checks before the scanner is awaited.  A share for another job than *)
(* the current one, or a known one, is rejected and changes nothing here.  *)
Submit(s, k) ==
  /\ LoopFree
  /\ pc[s] = "idle"
  /\ worker[s] # NoWorker
  /\ job # NoJob
  /\ Fresh(s, k)
  /\ held' = [held EXCEPT ![s] = [id |-> job.id, tip |-> job.tip,
                                  work |-> job.work, key |-> k,
                                  diff |-> diff[s], row |-> 0]]
  /\ pc' = [pc EXCEPT ![s] = "scan"]
  /\ UNCHANGED <<nodeVars, mode, job, conns, conn, worker, diff, dbVars, lost>>

(* The share meets its target; it meets the network's too, or not.         *)
Scanned(s, step) ==
  /\ LoopFree
  /\ pc[s] = "scan"
  /\ step \in {"share", "submit"}
  /\ pc' = [pc EXCEPT ![s] = step]
  /\ UNCHANGED <<nodeVars, mode, job, conns, sessionVars, diff, held, dbVars, lost>>

(* submitblock: the node takes a block that extends its tip.               *)
NodeAccepts(s) ==
  /\ pc[s] = "submit"
  /\ held[s].tip = tip
  /\ Share(s) \notin taken
  /\ tip' = tip + 1
  /\ taken' = taken \cup {Share(s)}
  /\ pc' = [pc EXCEPT ![s] = "accepted"]
  /\ UNCHANGED <<mode, job, conns, sessionVars, diff, held, dbVars, lost>>

(* Mutant: any answer of the node is taken for acceptance.                 *)
RejectIgnored(s) ==
  /\ LoopFree
  /\ pc[s] \in {"scan", "submit"}
  /\ pc' = [pc EXCEPT ![s] = IF @ = "scan" THEN "idle" ELSE "accepted"]
  /\ held' = [held EXCEPT ![s] = IF pc[s] = "scan" THEN Nothing ELSE @]
  /\ UNCHANGED <<nodeVars, mode, job, conns, sessionVars, diff, dbVars, lost>>

(* The scanner finds the share below its target, or the node answers       *)
(* anything but null: rejected, and nothing recorded.                      *)
Reject(s) ==
  /\ LoopFree
  /\ pc[s] \in {"scan", "submit"}
  /\ pc' = [pc EXCEPT ![s] = "idle"]
  /\ held' = [held EXCEPT ![s] = Nothing]
  /\ UNCHANGED <<nodeVars, mode, job, conns, sessionVars, diff, dbVars, lost>>

(* Mutant: the difficulty is looked up by worker, for all its sessions.    *)
CreditedByWorker(s) == saved[worker[s]]

(* The difficulty a share is recorded with, read after the awaits.         *)
Credited(s) == diff[s]

(* record_share, one commit.                                               *)
RecordShare(s) ==
  /\ LoopFree
  /\ pc[s] \in {"share", "accepted"}
  /\ Len(shares) < MaxShares
  /\ shares' = Append(shares, [worker |-> worker[s], diff |-> Credited(s),
                               job |-> held[s].id, id |-> Share(s)])
  /\ held' = [held EXCEPT ![s].row = Len(shares) + 1]
  /\ pc' = [pc EXCEPT ![s] = IF @ = "share" THEN "adjust" ELSE "credit"]
  /\ UNCHANGED <<nodeVars, mode, job, conns, sessionVars, diff, saved, blocks,
                 lost>>

(* MAX(end_share_id), 0 of an empty table.                                 *)
LastEnd ==
  LET ends == {0} \cup {blocks[i].end : i \in 1..Len(blocks)}
  IN CHOOSE e \in ends : \A f \in ends : f <= e

(* Mutant: the last share of the previous block is counted again.          *)
FirstShareAgain(end) ==
  IF mode = "proportional" THEN IF LastEnd = 0 THEN 1 ELSE LastEnd
  ELSE IF end > PplnsShares THEN end - PplnsShares + 1 ELSE 1

(* _payout_rows: the first share that the block ending with share end      *)
(* rewards.  Share ids are consecutive.                                    *)
FirstShare(end) ==
  IF mode = "proportional" THEN LastEnd + 1
  ELSE IF end > PplnsShares THEN end - PplnsShares + 1 ELSE 1

Recorded(b) == \E i \in 1..Len(blocks) : blocks[i].id = b

(* record_block_and_allocate, one commit.  A recorded block is left alone; *)
(* without a share to reward it raises instead (Close).                    *)
RecordBlock(s) ==
  /\ pc[s] = "credit"
  /\ \/ Recorded(Share(s)) /\ UNCHANGED blocks
     \/ /\ ~Recorded(Share(s))
        /\ FirstShare(held[s].row) <= held[s].row
        /\ blocks' = Append(blocks, [id |-> Share(s), mode |-> mode,
                                     start |-> FirstShare(held[s].row),
                                     end |-> held[s].row])
  /\ pc' = [pc EXCEPT ![s] = "adjust"]
  /\ UNCHANGED <<nodeVars, mode, job, conns, sessionVars, diff, held, saved,
                 shares, lost>>

(* next_vardiff: at most four times as hard or as easy, within the bounds. *)
Retargets(d) == {e \in MinDiff..MaxDiff : e <= 4 * d /\ d <= 4 * e}

(* maybe_retarget, after the reply.                                        *)
Adjust(s, d) ==
  /\ LoopFree
  /\ pc[s] = "adjust"
  /\ d \in Retargets(diff[s])
  /\ diff' = [diff EXCEPT ![s] = d]
  /\ IF d = diff[s] THEN UNCHANGED saved ELSE SaveDifficulty(worker[s], d)
  /\ held' = [held EXCEPT ![s] = Nothing]
  /\ pc' = [pc EXCEPT ![s] = "idle"]
  /\ UNCHANGED <<nodeVars, mode, job, conns, sessionVars, shares, blocks, lost>>

-----------------------------------------------------------------------------
Session(s) ==
  \/ Connect(s)
  \/ \E w \in Workers : Authorize(s, w)
  \/ Close(s)
  \/ \E k \in Keys : Submit(s, k)
  \/ \E step \in {"share", "submit"} : Scanned(s, step)
  \/ NodeAccepts(s)
  \/ Reject(s)
  \/ RecordShare(s)
  \/ RecordBlock(s)
  \/ \E d \in MinDiff..MaxDiff : Adjust(s, d)

Next ==
  \/ TipMoves
  \/ \E t \in 0..tip, work \in 1..MaxJobs : RefreshTemplate(t, work)
  \/ Restart
  \/ \E s \in Sessions : Session(s)

Spec == Init /\ [][Next]_vars

-----------------------------------------------------------------------------
(* Properties.                                                             *)

Steps == {"closed", "idle", "scan", "share", "submit", "accepted", "credit",
          "adjust"}
Ids == Nat \X Nat \X (Keys \cup {0})
Held == [id : Nat, tip : Nat, work : Nat, key : Keys \cup {0}, diff : Nat, row : Nat]
ShareRows == [worker : Workers, diff : Nat, job : Nat, id : Ids]
BlockRows == [id : Ids, mode : Modes, start : Nat \ {0}, end : Nat]

TypeOK ==
  /\ tip \in Nat
  /\ taken \subseteq Ids
  /\ mode \in Modes
  /\ job \in [id : Nat, tip : Nat, work : Nat]
  /\ conns \in Nat
  /\ pc \in [Sessions -> Steps]
  /\ conn \in [Sessions -> Nat]
  /\ worker \in [Sessions -> Workers \cup {NoWorker}]
  /\ diff \in [Sessions -> Nat \ {0}]
  /\ seen \in [Sessions -> SUBSET (Nat \X Keys)]
  /\ held \in [Sessions -> Held]
  /\ saved \in [Workers -> Nat]
  /\ shares \in Seq(ShareRows)
  /\ blocks \in Seq(BlockRows)
  /\ lost \subseteq Ids

Rewards(b, n) == b.start <= n /\ n <= b.end

(* A pool that is always proportional leaves out no share, not even one    *)
(* recorded for a block that was lost.                                     *)
NoneLeftOut ==
  Modes = {"proportional"}
    => \A n \in 1..LastEnd : \E i \in 1..Len(blocks) : Rewards(blocks[i], n)

(* A share is rewarded once: proportional blocks have disjoint windows,    *)
(* whatever the pool did in other modes and restarts in between, and       *)
(* between them they leave out no share.                                   *)
RewardedOnce ==
  /\ \A i, j \in 1..Len(blocks) :
       i # j /\ blocks[i].mode = "proportional"
             /\ blocks[j].mode = "proportional"
         => \A n \in 1..Len(shares) : ~(Rewards(blocks[i], n)
                                        /\ Rewards(blocks[j], n))
  /\ NoneLeftOut

(* record_block_and_allocate never finds an empty window ("cannot allocate *)
(* block reward without credited shares"): no other handler's block can    *)
(* get between the share and the block.                                    *)
Allocatable ==
  \A s \in Sessions :
    pc[s] = "credit" => FirstShare(held[s].row) <= held[s].row

(* The ledger and the node agree on the pool's blocks: one is recorded at  *)
(* most once and only when the node took it, and one that the node took is *)
(* recorded, on its way, or was cut off by a failure.                      *)
LedgerMatchesNode ==
  /\ \A i, j \in 1..Len(blocks) :
       /\ blocks[i].id \in taken \ lost
       /\ i # j => blocks[i].id # blocks[j].id
  /\ \A b \in taken :
       \/ b \in lost
       \/ Recorded(b)
       \/ \E s \in Sessions : pc[s] \in {"accepted", "credit"} /\ Share(s) = b

(* A share is recorded once, by any number of connections: the work of two *)
(* records differs, or the pool gave it out twice, under two job ids.      *)
NoShareTwice ==
  \A m, n \in 1..Len(shares) :
    m # n => <<shares[m].job, shares[m].id>> # <<shares[n].job, shares[n].id>>

(* A share is credited with the difficulty it was verified against,        *)
(* although the difficulty is read again after the scanner and the node    *)
(* were awaited.                                                           *)
ScoredAsVerified ==
  \A s \in Sessions :
    pc[s] \in {"scan", "share", "submit", "accepted"}
      => Credited(s) = held[s].diff

(* docs/POOL.md: vardiff is bounded by the configured minimum and maximum, *)
(* also for a worker registered under other bounds.                        *)
DifficultyBounded ==
  \A s \in Sessions : worker[s] # NoWorker => diff[s] \in MinDiff..MaxDiff

-----------------------------------------------------------------------------
(* Why they hold, for any number of sessions, shares and restarts: the     *)
(* inductive invariant of the proofs.                                      *)

Verifying(s) == pc[s] \in {"scan", "share", "submit", "accepted"}
Owing(s) == pc[s] \in {"accepted", "credit"}

(* Connections are told apart, and a handler at work has a worker and a    *)
(* share that its session remembers.                                       *)
SessionsSound ==
  /\ \A s \in Sessions : pc[s] # "closed" => conn[s] \in 1..conns
  /\ \A s, r \in Sessions :
       s # r /\ pc[s] # "closed" /\ pc[r] # "closed" => conn[s] # conn[r]
  /\ \A s \in Sessions : pc[s] \notin {"closed", "idle"} => worker[s] \in Workers
  /\ \A s \in Sessions :
       Verifying(s) \/ pc[s] = "credit"
         => held[s].key \in Keys /\ <<held[s].id, held[s].key>> \in seen[s]

IsHeld(s, n) == shares[n].job = held[s].id /\ shares[n].id = Share(s)

(* A recorded share was made on a known connection, whose session, if it   *)
(* is open, remembers it; the share in hand is not recorded yet.           *)
SharesSound ==
  /\ \A n \in 1..Len(shares) :
       /\ shares[n].id[1] \in 1..conns
       /\ \A s \in Sessions :
            pc[s] # "closed" /\ conn[s] = shares[n].id[1]
              => <<shares[n].job, shares[n].id[3]>> \in seen[s]
  /\ \A s \in Sessions : Verifying(s) =>
       \A n \in 1..Len(shares) : ~IsHeld(s, n)

(* Windows end at ever later shares.  The one handler between its two      *)
(* commits holds the last share, which no window has reached.              *)
WindowsSound ==
  /\ \A i \in 1..Len(blocks) : /\ blocks[i].start >= 1
                               /\ blocks[i].start <= blocks[i].end
                               /\ blocks[i].end <= Len(shares)
  /\ \A i, j \in 1..Len(blocks) :
       i < j => /\ blocks[i].end < blocks[j].end
                /\ blocks[j].mode = "proportional"
                     => blocks[i].end < blocks[j].start
  /\ \A s \in Sessions : pc[s] = "credit" =>
       /\ held[s].row = Len(shares)
       /\ held[s].row >= 1
       /\ \A i \in 1..Len(blocks) : blocks[i].end < held[s].row
  /\ \A s, r \in Sessions : pc[s] = "credit" /\ pc[r] = "credit" => s = r

(* What the node took and the ledger does not have yet.                    *)
BlocksSound ==
  /\ lost \subseteq taken
  /\ \A s \in Sessions : Owing(s) =>
       /\ Share(s) \in taken \ lost
       /\ ~Recorded(Share(s))

PoolSound ==
  /\ SessionsSound
  /\ SharesSound
  /\ WindowsSound
  /\ BlocksSound
  /\ NoneLeftOut
  /\ LedgerMatchesNode
  /\ NoShareTwice
  /\ ScoredAsVerified
  /\ DifficultyBounded
=============================================================================
