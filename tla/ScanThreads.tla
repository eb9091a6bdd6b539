---------------------------- MODULE ScanThreads -----------------------------
(***************************************************************************)
(* The native scanner, src/miner/crakminer_scan.cpp: threads that share a  *)
(* range of nonces and look for one whose hash meets the target.           *)
(*                                                                         *)
(* Every access to a shared atomic is a step of its own.  The accesses are *)
(* relaxed: a thread may read found late, which is the same as having read *)
(* it earlier, and nothing else is inferred from it before the threads are *)
(* joined.  The pauses of --cpu-limit only take time.                      *)
(***************************************************************************)
EXTENDS Integers

CONSTANTS
  Threads,
  MaxNonce,    \* the largest nonce: uint32_t
  Chunk,       \* indexes a thread takes at a time
  MaxLimit,    \* bound on --max-hashes
  NoNonce

ASSUME ScanAssumption ==
  /\ Threads # {}
  /\ MaxNonce \in Nat
  /\ Chunk \in Nat \ {0}
  /\ MaxLimit \in Nat
  /\ NoNonce \notin 0..MaxNonce

Nonces == 0..MaxNonce

VARIABLES
  start, limit,  \* --start-nonce and --max-hashes
  good,          \* nonces that meet the target
  next,          \* next_index
  found,
  failed,        \* worker_error
  result,        \* found_nonce, once found_hash is set
  tested,        \* history: indexes that were hashed, counted by attempts
  pc,            \* where each thread is
  index, end,    \* its position in its chunk
  exit           \* exit status, -1 while the threads run

inputs == <<start, limit, good>>
shared == <<next, found, failed, result>>
vars == <<inputs, shared, tested, pc, index, end, exit>>

Init ==
  /\ start \in Nonces
  /\ limit \in 1..MaxLimit
  /\ good \in SUBSET Nonces
  /\ next = 0
  /\ found = FALSE /\ failed = FALSE
  /\ result = NoNonce
  /\ tested = {}
  /\ pc = [t \in Threads |-> "check"]
  /\ index = [t \in Threads |-> 0]
  /\ end = [t \in Threads |-> 0]
  /\ exit = -1

(* Mutant: the last nonce is left out.                                     *)
BudgetShort == IF limit < MaxNonce - start THEN limit ELSE MaxNonce - start

(* Mutant: the nonce may wrap around.                                      *)
BudgetUnclipped == limit

(* total_budget: the nonces from start on, at most limit of them.          *)
Budget ==
  IF limit < MaxNonce - start + 1 THEN limit ELSE MaxNonce - start + 1

Nonce(i) == (start + i) % (MaxNonce + 1)

Go(t, step) == pc' = [pc EXCEPT ![t] = step]

(* The head of the outer loop.                                             *)
Check(t) ==
  /\ pc[t] = "check"
  /\ Go(t, IF found THEN "done" ELSE "claim")
  /\ UNCHANGED <<inputs, shared, tested, index, end, exit>>

(* Mutant: the chunk is read, not taken.                                   *)
Taken == next

(* What fetch_add leaves in next_index.                                    *)
Advanced == next + Chunk

(* fetch_add: a thread takes the next chunk, unless none is left.          *)
Claim(t) ==
  /\ pc[t] = "claim"
  /\ next' = Advanced
  /\ IF next >= Budget
     THEN Go(t, "done") /\ UNCHANGED <<index, end>>
     ELSE /\ index' = [index EXCEPT ![t] = next]
          /\ end' = [end EXCEPT ![t] = IF next + Chunk < Budget
                                       THEN next + Chunk ELSE Budget]
          /\ Go(t, "loop")
  /\ UNCHANGED <<inputs, found, failed, result, tested, exit>>

(* Mutant: the end of a chunk is hashed too.                               *)
InChunkInclusive(t) == index[t] <= end[t]

InChunk(t) == index[t] < end[t]

(* The head of the inner loop.                                             *)
Loop(t) ==
  /\ pc[t] = "loop"
  /\ Go(t, IF InChunk(t) /\ ~found THEN "hash" ELSE "check")
  /\ UNCHANGED <<inputs, shared, tested, index, end, exit>>

Hash(t) ==
  /\ pc[t] = "hash"
  /\ tested' = tested \cup {index[t]}
  /\ IF Nonce(index[t]) \in good
     THEN Go(t, "hit") /\ UNCHANGED index
     ELSE Go(t, "loop") /\ index' = [index EXCEPT ![t] = @ + 1]
  /\ UNCHANGED <<inputs, shared, end, exit>>

(* yespower fails, for want of memory.                                     *)
HashFails(t) ==
  /\ pc[t] = "hash"
  /\ failed' = TRUE
  /\ Go(t, "abort")
  /\ UNCHANGED <<inputs, next, found, result, tested, index, end, exit>>

Abort(t) ==
  /\ pc[t] = "abort"
  /\ found' = TRUE
  /\ Go(t, "check")
  /\ UNCHANGED <<inputs, next, failed, result, tested, index, end, exit>>

(* compare_exchange: the first to find says so.                            *)
Hit(t) ==
  /\ pc[t] = "hit"
  /\ found' = TRUE
  /\ Go(t, IF found THEN "check" ELSE "record")
  /\ UNCHANGED <<inputs, next, failed, result, tested, index, end, exit>>

Record(t) ==
  /\ pc[t] = "record"
  /\ result' = Nonce(index[t])
  /\ Go(t, "check")
  /\ UNCHANGED <<inputs, next, found, failed, tested, index, end, exit>>

Status == IF failed THEN 1 ELSE IF result # NoNonce THEN 0 ELSE 2

(* The threads are joined and the process ends.                            *)
Join ==
  /\ exit = -1
  /\ \A t \in Threads : pc[t] = "done"
  /\ exit' = Status
  /\ UNCHANGED <<inputs, shared, tested, pc, index, end>>

Thread(t) ==
  \/ Check(t)
  \/ Claim(t)
  \/ Loop(t)
  \/ Hash(t)
  \/ HashFails(t)
  \/ Abort(t)
  \/ Hit(t)
  \/ Record(t)

Next == Join \/ \E t \in Threads : Thread(t)

(* The operating system runs every thread.                                 *)
Fairness == WF_vars(Join) /\ \A t \in Threads : WF_vars(Thread(t))

Spec == Init /\ [][Next]_vars /\ Fairness

-----------------------------------------------------------------------------
(* Properties.                                                             *)

Steps == {"check", "claim", "loop", "hash", "abort", "hit", "record", "done"}

TypeOK ==
  /\ start \in Nonces
  /\ limit \in 1..MaxLimit
  /\ good \subseteq Nonces
  /\ next \in Nat
  /\ found \in BOOLEAN /\ failed \in BOOLEAN
  /\ result \in Nonces \cup {NoNonce}
  /\ tested \subseteq Nat
  /\ pc \in [Threads -> Steps]
  /\ index \in [Threads -> Nat]
  /\ end \in [Threads -> Nat]
  /\ exit \in {-1, 0, 1, 2}

(* The nonces the caller asked for.                                        *)
Asked(n) == n \in Nonces /\ start <= n /\ n < start + limit

(* The exit status is true, whatever the threads raced for: 0 comes with a *)
(* nonce that was asked for and meets the target; 2, on which the miners   *)
(* leave the range and the pool rejects the share, only when every nonce   *)
(* was hashed and none meets it.                                           *)
StatusIsTrue ==
  /\ exit = 0 => Asked(result) /\ result \in good
  /\ exit = 2 => \A n \in Nonces : Asked(n) => n - start \in tested /\ n \notin good

(* No nonce is hashed twice, by no two threads: attempts counts nonces.    *)
HashedOnce == [][\A t \in Threads : Hash(t) => index[t] \notin tested]_vars

(* The scanner ends, found or not.                                         *)
ScanEnds == <>(exit # -1)

-----------------------------------------------------------------------------
(* Why they hold, for any number of threads: the inductive invariant of    *)
(* the proofs.                                                             *)

Inside(t) == pc[t] \in {"loop", "hash", "abort", "hit", "record"}

(* Thread t has still to hash index i, or gives it up.                     *)
Holds(t, i) ==
  /\ i < end[t]
  /\ \/ pc[t] \in {"loop", "hash", "abort"} /\ index[t] <= i
     \/ pc[t] = "hit" /\ index[t] < i

(* A chunk is below next, within the budget, and apart from the others.    *)
ChunksSound ==
  /\ \A t \in Threads :
       /\ Inside(t) => index[t] <= end[t] /\ end[t] <= next /\ end[t] <= Budget
       /\ pc[t] \in {"hash", "hit", "record"} => index[t] < end[t]
       /\ pc[t] \in {"hit", "record"} => Nonce(index[t]) \in good
  /\ \A t, u \in Threads :
       t # u /\ Inside(t) /\ Inside(u)
         => end[t] <= index[u] \/ end[u] <= index[t]

(* An index below next is hashed or held, and no hashed one is held.       *)
NothingSkipped ==
  /\ \A i \in tested : i < next /\ \A t \in Threads : ~Holds(t, i)
  /\ ~found =>
       \A i \in 0..(next - 1) :
         i < Budget => i \in tested \/ \E t \in Threads : Holds(t, i)

(* A hit is reported or on its way to be, unless a thread failed.          *)
HitsKept ==
  /\ \A i \in tested :
       Nonce(i) \in good => found \/ \E t \in Threads : pc[t] = "hit"
  /\ found /\ ~failed => \/ result # NoNonce
                         \/ \E t \in Threads : pc[t] = "record"
  /\ result # NoNonce => Asked(result) /\ result \in good

Finished ==
  /\ \A t \in Threads : pc[t] = "done" => found \/ next >= Budget
  /\ \A t \in Threads : pc[t] = "abort" => failed
  /\ exit # -1 => (\A t \in Threads : pc[t] = "done") /\ exit = Status

ScanSound ==
  /\ TypeOK
  /\ ChunksSound
  /\ NothingSkipped
  /\ HitsKept
  /\ Finished
  /\ StatusIsTrue
=============================================================================
