------------------------ MODULE StratumMining_proofs ------------------------
(***************************************************************************)
(* Theorems about StratumMining, for any number of shares, any extranonces *)
(* and any number of changes of the tip.                                   *)
(***************************************************************************)
EXTENDS StratumMining, FiniteSetTheorems, SequenceTheorems, TLAPS

USE DEF nodeVars, sessionVars, statVars, poolVars, wireVars, readerVars,
        mainVars

-----------------------------------------------------------------------------
(* Replies on their way to the worker.                                     *)
IsReply(m) == m.kind = "reply"

OneReply(q) ==
  \A m, n \in 1..Len(q) : IsReply(q[m]) /\ IsReply(q[n]) => m = n

Replied(q) == \E n \in 1..Len(q) : IsReply(q[n])

SaysYes(q) == \E n \in 1..Len(q) : IsReply(q[n]) /\ q[n].ok = TRUE

LEMMA TakeFirst ==
  ASSUME NEW M, NEW q \in Seq(M), q # <<>>
  PROVE  /\ Tail(q) \in Seq(M) /\ Head(q) \in M /\ Head(q) = q[1]
         /\ Len(q) \in Nat \ {0} /\ Len(Tail(q)) = Len(q) - 1
         /\ \A n \in 1..Len(Tail(q)) : Tail(q)[n] = q[n + 1]
OBVIOUS

(* Taking a reply leaves none; taking a job leaves the reply.              *)
LEMMA TakeReply ==
  ASSUME NEW M, NEW q \in Seq(M), q # <<>>, OneReply(q)
  PROVE  /\ OneReply(Tail(q))
         /\ IsReply(Head(q)) =>
              ~Replied(Tail(q)) /\ (SaysYes(q) <=> Head(q).ok = TRUE)
         /\ ~IsReply(Head(q)) =>
              (Replied(Tail(q)) <=> Replied(q)) /\ (SaysYes(Tail(q)) <=> SaysYes(q))
<1>1. \A n \in 1..Len(Tail(q)) : Tail(q)[n] = q[n + 1] /\ n + 1 \in 1..Len(q)
  BY TakeFirst
<1>2. Head(q) = q[1] /\ 1 \in 1..Len(q)
  BY TakeFirst
<1>3. \A n \in 1..Len(q) : n = 1 \/ (n - 1 \in 1..Len(Tail(q)) /\ Tail(q)[n - 1] = q[n])
  BY TakeFirst
<1>4. OneReply(Tail(q))
  BY <1>1 DEF OneReply
<1>5. ASSUME IsReply(Head(q))
      PROVE  ~Replied(Tail(q)) /\ (SaysYes(q) <=> Head(q).ok = TRUE)
  BY <1>1, <1>2, <1>5 DEF OneReply, Replied, SaysYes
<1>6. ASSUME ~IsReply(Head(q))
      PROVE  /\ Replied(Tail(q)) <=> Replied(q)
             /\ SaysYes(Tail(q)) <=> SaysYes(q)
  BY <1>1, <1>2, <1>3, <1>6 DEF Replied, SaysYes
<1> QED
  BY <1>4, <1>5, <1>6

LEMMA PutLast ==
  ASSUME NEW M, NEW q \in Seq(M), NEW m \in M
  PROVE  /\ q \o <<m>> \in Seq(M) /\ Len(q) \in Nat
         /\ Len(q \o <<m>>) = Len(q) + 1
         /\ (q \o <<m>>)[Len(q) + 1] = m
         /\ \A n \in 1..Len(q) : (q \o <<m>>)[n] = q[n]
OBVIOUS

LEMMA PutMessage ==
  ASSUME NEW M, NEW q \in Seq(M), NEW m \in M
  PROVE  /\ Replied(q \o <<m>>) <=> Replied(q) \/ IsReply(m)
         /\ SaysYes(q \o <<m>>) <=> SaysYes(q) \/ (IsReply(m) /\ m.ok = TRUE)
         /\ OneReply(q) /\ ~(Replied(q) /\ IsReply(m)) => OneReply(q \o <<m>>)
<1> DEFINE p == q \o <<m>>
<1>1. /\ \A n \in 1..Len(q) : p[n] = q[n] /\ n \in 1..Len(p)
      /\ Len(q) + 1 \in 1..Len(p) /\ p[Len(q) + 1] = m
      /\ \A n \in 1..Len(p) : n \in 1..Len(q) \/ n = Len(q) + 1
  BY PutLast
<1> HIDE DEF p
<1>2. Replied(p) <=> Replied(q) \/ IsReply(m)
  BY <1>1 DEF Replied
<1>3. SaysYes(p) <=> SaysYes(q) \/ (IsReply(m) /\ m.ok = TRUE)
  BY <1>1 DEF SaysYes
<1>4. OneReply(q) /\ ~(Replied(q) /\ IsReply(m)) => OneReply(p)
  BY <1>1 DEF OneReply, Replied
<1> QED
  BY <1>2, <1>3, <1>4 DEF p

(* What is left when the connection is lost.                               *)
LEMMA CutReplies ==
  ASSUME NEW M, NEW q \in Seq(M), NEW n \in 0..Len(q)
  PROVE  /\ SubSeq(q, 1, n) \in Seq(M)
         /\ OneReply(q) => OneReply(SubSeq(q, 1, n))
         /\ Replied(SubSeq(q, 1, n)) => Replied(q)
         /\ SaysYes(SubSeq(q, 1, n)) => SaysYes(q)
<1> DEFINE p == SubSeq(q, 1, n)
<1>1. /\ p \in Seq(M) /\ Len(p) = n
      /\ \A k \in 1..n : p[k] = q[k] /\ k \in 1..Len(q)
  OBVIOUS
<1> HIDE DEF p
<1> QED
  BY <1>1 DEF p, OneReply, Replied, SaysYes

LEMMA PutTwo ==
  ASSUME NEW M, NEW q \in Seq(M), NEW m \in M, NEW n \in M
  PROVE  q \o <<m, n>> = (q \o <<m>>) \o <<n>>
<1>1. /\ <<m>> \in Seq(M) /\ <<n>> \in Seq(M) /\ <<m, n>> \in Seq(M)
      /\ Len(<<m>>) = 1 /\ Len(<<n>>) = 1 /\ Len(<<m, n>>) = 2
      /\ <<m, n>>[1] = m /\ <<m, n>>[2] = n /\ <<m>>[1] = m /\ <<n>>[1] = n
  OBVIOUS
<1> DEFINE p == <<m>> \o <<n>>
<1>2. p \in Seq(M) /\ Len(p) = 2 /\ p[1] = m /\ p[2] = n
  BY <1>1, ConcatProperties
<1>3. <<m, n>> = p
  <2> HIDE DEF p
  <2>1. PICK t : t = <<m, n>>
    OBVIOUS
  <2>2. t \in Seq(M) /\ Len(t) = Len(p) /\ \A i \in 1..Len(t) : t[i] = p[i]
    BY <1>1, <1>2, <2>1
  <2> QED
    BY <1>2, <2>1, <2>2, SeqEqual
<1> QED
  BY <1>1, <1>3, ConcatAssociative

LEMMA SingleRequest ==
  \A m : /\ <<m>> # <<>> /\ Head(<<m>>) = m /\ Tail(<<m>>) = <<>>
         /\ Append(<<>>, m) = <<m>>
OBVIOUS

-----------------------------------------------------------------------------
(* Types.                                                                  *)

LEMMA SeqGrows ==
  ASSUME NEW A, NEW B, A \subseteq B, NEW q \in Seq(A)
  PROVE  q \in Seq(B)
OBVIOUS

(* A new job leaves the old ones, and the work on them, as they were.      *)
LEMMA JobsGrow ==
  ASSUME PoolTypes, jobs' = jobs \/ jobs' = Append(jobs, tip)
  PROVE  /\ jobs' \in Seq(0..MaxTip) /\ jobs' # <<>>
         /\ Len(jobs) \in Nat \ {0} /\ Len(jobs') \in Nat \ {0}
         /\ Len(jobs) <= Len(jobs')
         /\ \A j \in 1..Len(jobs) : jobs'[j] = jobs[j]
         /\ \A j \in 1..Len(jobs') : jobs'[j] <= tip
         /\ \A s : Submission(s) => Submission(s)'
         /\ \A m : Request(m) => Request(m)'
         /\ Messages \subseteq Messages'
         /\ Notify \in Messages'
<1>1. jobs \in Seq(0..MaxTip) /\ jobs # <<>> /\ tip \in 0..MaxTip
      /\ \A j \in 1..Len(jobs) : jobs[j] <= tip
  BY DEF PoolTypes
<1>2. /\ jobs' \in Seq(0..MaxTip) /\ jobs' # <<>>
      /\ Len(jobs) \in Nat \ {0} /\ Len(jobs') \in Nat \ {0}
      /\ Len(jobs) <= Len(jobs')
      /\ \A j \in 1..Len(jobs) : jobs'[j] = jobs[j]
      /\ \A j \in 1..Len(jobs') : jobs'[j] <= tip
  <2>1. CASE jobs' = jobs
    BY <1>1, <2>1
  <2>2. CASE jobs' = Append(jobs, tip)
    <3>1. Len(jobs') = Len(jobs) + 1 /\ jobs'[Len(jobs) + 1] = tip
      BY <1>1, <2>2
    <3>2. \A j \in 1..Len(jobs) : jobs'[j] = jobs[j]
      BY <1>1, <2>2
    <3>3. jobs' \in Seq(0..MaxTip) /\ Len(jobs) \in Nat \ {0}
      BY <1>1, <2>2
    <3>4. tip <= tip
      BY <1>1, MiningAssumption
    <3>5. \A j \in 1..Len(jobs') : j \in 1..Len(jobs) \/ j = Len(jobs) + 1
      BY <3>1, <3>3
    <3> QED
      BY <1>1, <3>1, <3>2, <3>3, <3>4, <3>5
  <2> QED
    BY <2>1, <2>2
<1>3. ASSUME NEW s, Submission(s)
      PROVE  Submission(s)'
  BY <1>2, <1>3 DEF Submission, WorkerHeader
<1>4. Messages \subseteq Messages' /\ Notify \in Messages'
  BY <1>2 DEF Messages, Notify
<1> QED
  BY <1>2, <1>3, <1>4 DEF Request

(* The parts of TypeOK that a step leaves alone, but for a new job.        *)
LEMMA PartsStay ==
  ASSUME TypeOK, jobs' = jobs \/ jobs' = Append(jobs, tip)
  PROVE  /\ UNCHANGED <<toPool, toWorker>> /\ link' \in {"up", "closed", "lost"}
              => WireTypes'
         /\ UNCHANGED <<readerVars, mainVars>> => WorkerTypes'
         /\ UNCHANGED <<nodeVars, forced, sessionVars, statVars>> => PoolTypes'
<1> USE JobsGrow DEF TypeOK
<1>1. ASSUME UNCHANGED <<toPool, toWorker>>, link' \in {"up", "closed", "lost"}
      PROVE  WireTypes'
  BY <1>1, SeqGrows DEF WireTypes
<1>2. ASSUME UNCHANGED <<readerVars, mainVars>>
      PROVE  WorkerTypes'
  <2>1. 0..Len(jobs) \subseteq 0..Len(jobs')
    OBVIOUS
  <2>2. snap' \in [job : 0..Len(jobs'), generation : Nat] /\ job' \in 0..Len(jobs')
    BY <1>2, <2>1 DEF WorkerTypes
  <2>3. pc' \in {"found", "submitting"} => Submission(found)'
    BY <1>2 DEF WorkerTypes
  <2> QED
    BY <1>2, <2>2, <2>3 DEF WorkerTypes
<1>3. ASSUME UNCHANGED <<nodeVars, forced, sessionVars, statVars>>
      PROVE  PoolTypes'
  BY <1>3 DEF PoolTypes
<1> QED
  BY <1>1, <1>2, <1>3

(* What the pool writes.                                                   *)
LEMMA WriteTypes ==
  ASSUME TypeOK, jobs' = jobs \/ jobs' = Append(jobs, tip),
         NEW ms \in {<<>>, <<Notify>>, <<Reply(TRUE)>>, <<Reply(FALSE)>>,
                    <<Reply(TRUE), Notify>>},
         Write(ms)
  PROVE  toWorker' \in Seq(Messages')
<1>1. /\ toWorker \in Seq(Messages') /\ Notify \in Messages'
      /\ Reply(TRUE) \in Messages' /\ Reply(FALSE) \in Messages'
  BY JobsGrow, SeqGrows DEF TypeOK, WireTypes, Reply, Messages
<1> HIDE DEF Notify, Reply
<1>2. \A a, b \in Messages' : /\ <<>> \in Seq(Messages') /\ <<a>> \in Seq(Messages')
                             /\ <<a, b>> \in Seq(Messages')
  OBVIOUS
<1>3. ms \in Seq(Messages')
  BY <1>1, <1>2
<1> QED
  BY <1>1, <1>3 DEF Write

LEMMA NetworkTypes ==
  ASSUME TypeOK, Lose \/ TipMoves \/ Refresh
  PROVE  TypeOK'
<1>1. CASE Lose
  <2>1. toWorker' \in Seq(Messages) /\ Messages' = Messages
    BY <1>1, CutReplies DEF Lose, TypeOK, WireTypes, Messages
  <2>2. WireTypes'
    BY <1>1, <2>1 DEF Lose, WireTypes
  <2> QED
    BY <1>1, <2>2, PartsStay DEF Lose, TypeOK
<1>2. CASE TipMoves
  <2>1. tip' = tip + 1 /\ tip' \in 0..MaxTip
    BY <1>2, MiningAssumption DEF TipMoves, TypeOK, PoolTypes
  <2>2. \A j \in 1..Len(jobs) : jobs[j] <= tip'
    BY <2>1, MiningAssumption DEF TypeOK, PoolTypes
  <2>3. \A h \in taken : h.previous \in 0..tip' - 1
    BY <2>1, MiningAssumption DEF TypeOK, PoolTypes
  <2>4. jobs' = jobs /\ forced' \in BOOLEAN /\ authorized' \in BOOLEAN
    BY <1>2 DEF TipMoves, TypeOK, PoolTypes
  <2>5. PoolTypes'
    BY <1>2, <2>1, <2>2, <2>3, <2>4, JobsGrow DEF TipMoves, TypeOK, PoolTypes
  <2> QED
    BY <1>2, <2>4, <2>5, PartsStay DEF TipMoves, TypeOK, WireTypes
<1>3. CASE Refresh
  <2>1. jobs' = Append(jobs, tip)
    BY <1>3 DEF Refresh, NewJob
  <2>2. WireTypes'
    BY <1>3, <2>1, WriteTypes, JobsGrow
    DEF Refresh, NewJob, TypeOK, WireTypes
  <2>3. forced' \in BOOLEAN
    BY <1>3 DEF Refresh, TypeOK, PoolTypes
  <2>4. PoolTypes'
    BY <1>3, <2>1, <2>3, JobsGrow DEF Refresh, TypeOK, PoolTypes
  <2> QED
    BY <1>3, <2>1, <2>2, <2>4, PartsStay DEF Refresh, TypeOK
<1> QED
  BY <1>1, <1>2, <1>3

LEMMA HandlerTypes ==
  ASSUME TypeOK, Handler \/ HandlerFails
  PROVE  TypeOK'
<1> USE DEF TypeOK
<1>0. jobs' = jobs \/ jobs' = Append(jobs, tip)
  BY DEF Handler, HandleSubscribe, HandleAuthorize, HandleSubmit, Verify,
         SubmitBlock, ForceRefresh, NewJob, HandlerFails
<1>1. WorkerTypes'
  BY <1>0, PartsStay
  DEF Handler, HandleSubscribe, HandleAuthorize, HandleSubmit, Verify,
      SubmitBlock, ForceRefresh, HandlerFails
<1>2. ASSUME NEW kind, Take(kind)
      PROVE  /\ toPool' = <<>> /\ toPool = <<Head(toPool)>>
             /\ Request(Head(toPool)) /\ Head(toPool).kind = kind
  BY <1>2, SingleRequest DEF Take, WireTypes
<1>3. CASE HandleSubscribe
  <2>1. WireTypes'
    BY <1>2, <1>3, WriteTypes DEF HandleSubscribe, WireTypes
  <2> QED
    BY <1>0, <1>1, <1>3, <2>1, PartsStay DEF HandleSubscribe
<1>4. CASE HandleAuthorize
  <2>1. WireTypes'
    BY <1>2, <1>4, WriteTypes DEF HandleAuthorize, WireTypes
  <2>2. PoolTypes'
    BY <1>4, JobsGrow DEF HandleAuthorize, PoolTypes
  <2> QED
    BY <1>1, <2>1, <2>2
<1>5. ASSUME NEW reason \in {"stale", "duplicate", "low", "bad"}, Refuse(reason),
             jobs' = jobs
      PROVE  /\ toWorker' \in Seq(Messages') /\ at' = "reading"
             /\ refused' \subseteq {"duplicate", "low", "bad"}
  BY <1>5, WriteTypes DEF Refuse, PoolTypes
<1>6. CASE HandleSubmit
  <2>0. PICK s : s = Head(toPool)
    OBVIOUS
  <2>1. toPool' = <<>> /\ Submission(s) /\ jobs' = jobs
    <3>1. Take("submit") /\ jobs' = jobs
      BY <1>6 DEF HandleSubmit
    <3>2. toPool' = <<>> /\ Request(s) /\ s.kind = "submit"
      BY <1>2, <2>0, <3>1
    <3>3. Submission(s)
      BY <3>2 DEF Request
    <3> QED
      BY <3>1, <3>2, <3>3
  <2>2. Submission(s)'
    BY <2>1, JobsGrow
  <2>3. CASE s.job # Len(jobs) \/ <<s.job, s.extranonce>> \in seen
    <3>1. /\ toWorker' \in Seq(Messages') /\ at' = "reading"
          /\ refused' \subseteq {"duplicate", "low", "bad"} /\ seen' = seen
      BY <1>5, <1>6, <2>0, <2>1, <2>3 DEF HandleSubmit
    <3>2. PoolTypes'
      BY <1>6, <2>1, <3>1, JobsGrow DEF HandleSubmit, PoolTypes
    <3> QED
      BY <1>1, <1>6, <2>1, <3>1, <3>2 DEF HandleSubmit, WireTypes
  <2>4. CASE s.job = Len(jobs) /\ <<s.job, s.extranonce>> \notin seen
    <3>1. /\ seen' = seen \cup {<<s.job, s.extranonce>>}
          /\ share' = s /\ UNCHANGED <<refused, toWorker>>
          /\ at' = "verifying"
      BY <1>6, <2>0, <2>4 DEF HandleSubmit
    <3>2. seen' \subseteq (1..Len(jobs')) \X (0..Extranonces - 1)
      BY <2>1, <3>1 DEF PoolTypes, Submission
    <3>3. PoolTypes'
      BY <1>6, <2>1, <2>2, <3>1, <3>2, JobsGrow DEF HandleSubmit, PoolTypes
    <3>4. WireTypes'
      BY <1>6, <2>1, <3>1, SeqGrows, JobsGrow DEF HandleSubmit, WireTypes
    <3> QED
      BY <1>1, <3>3, <3>4
  <2> QED
    BY <2>3, <2>4
<1>7. CASE Verify
  <2>1. Submission(share) /\ jobs' = jobs
    BY <1>7 DEF Verify, PoolTypes
  <2>2. WireTypes' /\ refused' \subseteq {"duplicate", "low", "bad"}
    <3>1. CASE ~ScannerAccepts
      BY <1>5, <1>7, <2>1, <3>1, JobsGrow DEF Verify, WireTypes
    <3>2. CASE ScannerAccepts /\ share.block
      BY <1>7, <2>1, <3>2, PartsStay DEF Verify, PoolTypes, WireTypes
    <3>3. CASE ScannerAccepts /\ ~share.block
      BY <1>7, <2>1, <3>3, WriteTypes, JobsGrow
      DEF Verify, Answer, PoolTypes, WireTypes
    <3> QED
      BY <3>1, <3>2, <3>3
  <2>3. /\ at' \in {"reading", "submitting"}
        /\ at' = "submitting" => share' = share /\ share.block
        /\ credited' \cup answered' \subseteq credited \cup answered \cup {share}
    BY <1>7 DEF Verify, Refuse, Answer
  <2>4. PoolTypes'
    BY <1>7, <2>1, <2>2, <2>3, JobsGrow DEF Verify, PoolTypes
  <2> QED
    BY <1>1, <2>2, <2>4
<1>8. ASSUME at = "submitting", NodeTakes \/ UNCHANGED nodeVars
      PROVE  /\ tip' \in 0..MaxTip /\ tip <= tip'
             /\ \A h \in taken' : h.previous \in 0..tip' - 1
  <2>1. Submission(share) /\ tip \in 0..MaxTip
    BY <1>8 DEF PoolTypes
  <2>2. CASE UNCHANGED nodeVars
    BY <2>1, <2>2, MiningAssumption DEF PoolTypes
  <2>3. CASE NodeTakes /\ Takes
    <3>1. PoolHeader(share).previous = jobs[share.job]
      BY DEF PoolHeader, WorkerHeader
    <3>2. tip' = tip + 1 /\ taken' = taken \cup {PoolHeader(share)}
          /\ jobs[share.job] = tip
      BY <2>3, <3>1 DEF NodeTakes, Takes, OnTip
    <3>3. share.block
      BY <1>8 DEF PoolTypes
    <3> QED
      <4>1. tip \in Nat /\ tip + 1 \in 0..MaxTip
        BY <2>1, <3>2, <3>3, MiningAssumption DEF Submission
      <4>2. \A h \in taken : h.previous \in 0..tip - 1
        BY DEF PoolTypes
      <4>3. \A h \in taken' : h.previous \in 0..tip
        BY <3>1, <3>2, <4>1, <4>2
      <4> QED
        BY <3>2, <4>1, <4>3
  <2> QED
    BY <1>8, <2>2, <2>3 DEF NodeTakes
<1>9. CASE SubmitBlock
  <2>1. /\ tip' \in 0..MaxTip /\ tip <= tip'
        /\ \A h \in taken' : h.previous \in 0..tip' - 1
    BY <1>8, <1>9 DEF SubmitBlock
  <2>2. Submission(share) /\ jobs' = jobs
    BY <1>9 DEF SubmitBlock, PoolTypes
  <2>3. WireTypes' /\ refused' \subseteq {"duplicate", "low", "bad"}
    <3>1. CASE Takes
      BY <1>9, <2>2, <3>1, WriteTypes, JobsGrow
      DEF SubmitBlock, Answer, PoolTypes, WireTypes
    <3>2. CASE ~Takes
      BY <1>5, <1>9, <2>2, <3>2, JobsGrow DEF SubmitBlock, WireTypes
    <3> QED
      BY <3>1, <3>2
  <2>4. /\ at' \in {"reading", "refreshing"}
        /\ answered' \subseteq answered \cup {share}
    BY <1>9 DEF SubmitBlock, Refuse, Answer
  <2>5. \A j \in 1..Len(jobs') : jobs'[j] <= tip'
    BY <2>1, <2>2, MiningAssumption DEF PoolTypes
  <2>6. PoolTypes'
    BY <1>9, <2>1, <2>2, <2>3, <2>4, <2>5, JobsGrow DEF SubmitBlock, PoolTypes
  <2> QED
    BY <1>1, <2>3, <2>6
<1>10. CASE ForceRefresh
  <2>1. WireTypes'
    BY <1>0, <1>10, WriteTypes, JobsGrow DEF ForceRefresh, NewJob, WireTypes
  <2>2. PoolTypes'
    BY <1>0, <1>10, JobsGrow DEF ForceRefresh, PoolTypes
  <2> QED
    BY <1>1, <2>1, <2>2
<1>11. CASE HandlerFails
  <2>1. /\ tip' \in 0..MaxTip /\ tip <= tip'
        /\ \A h \in taken' : h.previous \in 0..tip' - 1
    <3>1. CASE at = "submitting"
      BY <1>8, <1>11, <3>1 DEF HandlerFails
    <3>2. CASE UNCHANGED nodeVars
      BY <3>2, MiningAssumption DEF PoolTypes
    <3> QED
      BY <1>11, <3>1, <3>2 DEF HandlerFails
  <2>2. jobs' = jobs /\ at' = "closed"
    BY <1>11 DEF HandlerFails, Raise
  <2>3. WireTypes'
    BY <1>0, <1>11, PartsStay DEF HandlerFails, Raise, WireTypes
  <2>4. \A j \in 1..Len(jobs') : jobs'[j] <= tip'
    BY <2>1, <2>2, MiningAssumption DEF PoolTypes
  <2>5. PoolTypes'
    BY <1>11, <2>1, <2>2, <2>4, JobsGrow DEF HandlerFails, PoolTypes
  <2> QED
    BY <1>1, <2>3, <2>5
<1> QED
  BY <1>3, <1>4, <1>6, <1>7, <1>9, <1>10, <1>11 DEF Handler

LEMMA ReaderTypes ==
  ASSUME TypeOK, Read \/ ReadEnds
  PROVE  TypeOK'
<1>0. PoolTypes' /\ jobs' = jobs /\ Messages' = Messages
  BY PartsStay DEF Read, ReadEnds, Messages
<1>1. CASE Read
  <2> DEFINE m == Head(toWorker)
  <2>1. m \in Messages /\ Tail(toWorker) \in Seq(Messages)
    BY <1>1, TakeFirst DEF Read, TypeOK, WireTypes
  <2>2. WireTypes'
    BY <1>0, <1>1, <2>1, JobsGrow DEF Read, TypeOK, WireTypes
  <2>3. m.kind = "reply" => m.ok \in BOOLEAN
    BY <2>1 DEF Messages
  <2>4. m.kind # "reply" => m.job \in 0..Len(jobs)
    BY <2>1, JobsGrow DEF Messages, TypeOK
  <2>5. /\ response' \in {NoReply, {TRUE}, {FALSE}}
        /\ job' \in 0..Len(jobs') /\ generation' \in Nat
    <3>1. CASE m.kind = "reply"
      <4>1. response' = {m.ok} /\ UNCHANGED <<job, generation>>
        BY <1>1, <3>1 DEF Read
      <4>2. m.ok = TRUE \/ m.ok = FALSE
        BY <2>3, <3>1
      <4> QED
        BY <1>0, <4>1, <4>2 DEF TypeOK, WorkerTypes
    <3>2. CASE m.kind # "reply"
      <4>1. job' = m.job /\ generation' = generation + 1 /\ response' = response
        BY <1>1, <3>2 DEF Read
      <4> QED
        <5>1. job' \in 0..Len(jobs')
          BY <1>0, <2>4, <3>2, <4>1
        <5>2. generation' \in Nat
          BY <4>1 DEF TypeOK, WorkerTypes
        <5>3. response' \in {NoReply, {TRUE}, {FALSE}}
          BY <4>1 DEF TypeOK, WorkerTypes
        <5> QED
          BY <5>1, <5>2, <5>3
    <3> QED
      BY <3>1, <3>2
  <2>6. pc' \in {"found", "submitting"} => Submission(found)'
    BY <1>0, <1>1, JobsGrow DEF Read, TypeOK, WorkerTypes
  <2>7. WorkerTypes'
    BY <1>0, <1>1, <2>5, <2>6 DEF Read, TypeOK, WorkerTypes
  <2> QED
    BY <1>0, <2>2, <2>7 DEF TypeOK
<1>2. CASE ReadEnds
  <2>1. WireTypes'
    BY <1>0, <1>2, PartsStay DEF ReadEnds, TypeOK, WireTypes
  <2>2. WorkerTypes'
    BY <1>0, <1>2, JobsGrow DEF ReadEnds, TypeOK, WorkerTypes
  <2> QED
    BY <1>0, <2>1, <2>2 DEF TypeOK
<1> QED
  BY <1>1, <1>2

(* Where a request leaves the main thread.                                 *)
LEMMA SendTypes ==
  ASSUME TypeOK, NEW m, NEW next \in {"subscribing", "authorizing", "submitting"},
         Request(m), Send(m, next), next = "submitting" => pc = "found",
         PoolTypes', jobs' = jobs,
         link = "up" => toPool = <<>>,
         UNCHANGED <<snap, extranonce, wrapped, found, accepted, blocks>>
  PROVE  TypeOK'
<1>1. toPool' = toPool \/ (toPool = <<>> /\ toPool' = <<m>>)
  BY SingleRequest DEF Send
<1>2. toPool' # <<>> => toPool' = <<Head(toPool')>> /\ Request(Head(toPool'))
  BY <1>1, SingleRequest DEF TypeOK, WireTypes
<1>3. WireTypes'
  BY <1>2, JobsGrow, SeqGrows DEF Send, TypeOK, WireTypes
<1>4. pc' \in {next, "failed"} /\ response' = NoReply /\ UNCHANGED <<job, generation, reader>>
  BY DEF Send
<1>5. pc' \in {"found", "submitting"} => Submission(found)'
  BY <1>4, JobsGrow DEF TypeOK, WorkerTypes
<1>6. WorkerTypes'
  BY <1>4, <1>5 DEF TypeOK, WorkerTypes
<1> QED
  BY <1>3, <1>6 DEF TypeOK

LEMMA MainTypes ==
  ASSUME TypeOK, Main \/ ScanFails,
         link = "up" /\ pc \in {"subscribe", "authorize", "found"} => toPool = <<>>
  PROVE  TypeOK'
<1>0. PoolTypes' /\ jobs' = jobs /\ Messages' = Messages
  BY PartsStay
  DEF Main, Subscribe, Authorize, Send, Started, TimeOut, ReaderFailed,
      Snapshot,
      DropStale, Submit, Submitted, Complete, ScanFinds, ScanFails, Messages
<1>1. ASSUME NEW s, Submission(s)
      PROVE  Submission(s)'
  BY <1>0, <1>1, JobsGrow DEF TypeOK
<1>2. ASSUME UNCHANGED wireVars
      PROVE  WireTypes'
  BY <1>0, <1>2, PartsStay DEF TypeOK, WireTypes
<1>3. CASE Subscribe \/ Authorize \/ Submit
  <2>1. CASE Subscribe
    <3>1. PICK m : m = [kind |-> "subscribe"]
      OBVIOUS
    <3>2. Request(m)
      BY <3>1 DEF Request
    <3>3. /\ Send(m, "subscribing") /\ pc = "subscribe"
          /\ UNCHANGED <<snap, extranonce, wrapped, found, accepted, blocks>>
      BY <2>1, <3>1 DEF Subscribe
    <3> QED
      BY <1>0, <3>2, <3>3, SendTypes
  <2>2. CASE Authorize
    <3>1. PICK m : m = [kind |-> "authorize"]
      OBVIOUS
    <3>2. Request(m)
      BY <3>1 DEF Request
    <3>3. /\ Send(m, "authorizing") /\ pc = "authorize"
          /\ UNCHANGED <<snap, extranonce, wrapped, found, accepted, blocks>>
      BY <2>2, <3>1 DEF Authorize
    <3> QED
      BY <1>0, <3>2, <3>3, SendTypes
  <2>3. CASE Submit
    <3>1. Request(found)
      BY <2>3 DEF Submit, Request, TypeOK, WorkerTypes
    <3> QED
      BY <1>0, <2>3, <3>1, SendTypes DEF Submit
  <2> QED
    BY <1>3, <2>1, <2>2, <2>3
<1> USE DEF TypeOK
<1>4. CASE Started \/ TimeOut \/ ReaderFailed \/ Complete \/ ScanFails
  <2>1. WorkerTypes'
    BY <1>0, <1>4
    DEF Started, TimeOut, AfterTimeout, ReaderFailed, Complete, ScanFails, Stop,
        WorkerTypes
  <2> QED
    BY <1>0, <1>2, <1>4, <2>1
    DEF Started, TimeOut, ReaderFailed, Complete, ScanFails
<1>5. CASE Snapshot
  <2>1. NextExtranonce \in 0..Extranonces - 1
    BY MiningAssumption DEF WorkerTypes, NextExtranonce
  <2>2. wrapped' \in BOOLEAN
    BY <1>5 DEF Snapshot
  <2>3. WorkerTypes'
    BY <1>0, <1>5, <2>1, <2>2 DEF Snapshot, WorkerTypes
  <2> QED
    BY <1>0, <1>2, <1>5, <2>3 DEF Snapshot
<1>6. ASSUME NEW outcome \in {"none", "share", "block"}, ScanFinds(outcome)
      PROVE  TypeOK'
  <2>1. /\ pc = "scan" /\ snap.job \in 1..Len(jobs) /\ extranonce \in 0..Extranonces - 1
        /\ outcome = "block" => jobs[snap.job] < MaxTip
    BY <1>6, JobsGrow, MiningAssumption DEF ScanFinds, WorkerTypes, PoolTypes
  <2>2. Submission([kind |-> "submit", job |-> snap.job, extranonce |-> extranonce,
                    header |-> WorkerHeader(snap.job, extranonce),
                    block |-> outcome = "block"])
    BY <2>1 DEF Submission
  <2>3. pc' \in {"found", "submitting"} => Submission(found)'
    BY <1>0, <1>6, <2>2 DEF ScanFinds, Submission, WorkerHeader
  <2>4. pc' \in {"loop", "found"}
    BY <1>6 DEF ScanFinds
  <2>5. WorkerTypes'
    BY <1>0, <1>6, <2>3, <2>4 DEF ScanFinds, WorkerTypes
  <2> QED
    BY <1>0, <1>2, <1>6, <2>5 DEF ScanFinds
<1>7. CASE DropStale
  <2>1. WorkerTypes'
    BY <1>0, <1>7 DEF DropStale, WorkerTypes
  <2> QED
    BY <1>0, <1>2, <1>7, <2>1 DEF DropStale
<1>8. CASE Submitted
  <2>1. accepted' \in Nat /\ blocks' \in Nat
    BY <1>8 DEF Submitted, WorkerTypes
  <2>2. WorkerTypes'
    BY <1>0, <1>8, <2>1 DEF Submitted, WorkerTypes
  <2> QED
    BY <1>0, <1>2, <1>8, <2>2 DEF Submitted
<1> QED
  BY <1>3, <1>4, <1>5, <1>6, <1>7, <1>8 DEF Main

-----------------------------------------------------------------------------
(* One request at a time.                                                  *)
Handling == at \in {"verifying", "submitting"}

(* What is left of a connection that is over.                              *)
EndsAgree ==
  /\ reader # "reading" => link # "up" /\ toWorker = <<>>
  /\ at = "closed" => link # "up"
  /\ link = "closed" => at = "closed"
  /\ link = "lost" => toPool = <<>>

(* A request, its handling and its reply: one of them while the worker     *)
(* waits, none while it does not.  On a connection that is over, and when  *)
(* the worker has stopped, there may be less.                              *)
OneRequest ==
  pc # "failed" =>
    /\ OneReply(toWorker)
    /\ Replied(toWorker) => Waiting /\ response = NoReply
    /\ link = "up" =>
         /\ toPool # <<>> \/ Handling =>
              Waiting /\ response = NoReply /\ ~Replied(toWorker)
         /\ ~(toPool # <<>> /\ Handling)
         /\ toPool # <<>> => IF pc = "submitting" THEN Head(toPool) = found
                             ELSE Head(toPool).kind # "submit"
         /\ Handling => pc = "submitting" /\ share = found

LEMMA EndsInductive ==
  ASSUME TypeOK, EndsAgree, [Next]_vars
  PROVE  EndsAgree'
<1>1. CASE Lose
  BY <1>1, CutReplies DEF Lose, EndsAgree, TypeOK, WireTypes
<1>2. CASE TipMoves \/ UNCHANGED vars
  BY <1>2 DEF TipMoves, vars, EndsAgree
<1>3. CASE Refresh
  BY <1>3 DEF Refresh, NewJob, Write, EndsAgree
<1>4. CASE HandleSubscribe
  BY <1>4 DEF HandleSubscribe, Take, Write, EndsAgree
<1>5. CASE HandleAuthorize
  BY <1>5 DEF HandleAuthorize, Take, Write, EndsAgree
<1>6. CASE HandleSubmit
  BY <1>6 DEF HandleSubmit, Refuse, Take, Write, EndsAgree
<1>7. CASE Verify
  BY <1>7 DEF Verify, Refuse, Answer, Write, EndsAgree
<1>8. CASE SubmitBlock
  BY <1>8 DEF SubmitBlock, Refuse, Answer, Write, EndsAgree
<1>9. CASE ForceRefresh
  BY <1>9 DEF ForceRefresh, NewJob, Write, EndsAgree
<1>10. CASE HandlerFails
  BY <1>10 DEF HandlerFails, Raise, EndsAgree, TypeOK, WireTypes
<1>11. CASE Read
  BY <1>11 DEF Read, EndsAgree
<1>12. CASE ReadEnds
  BY <1>12 DEF ReadEnds, EndsAgree
<1>13. CASE Main \/ ScanFails
  <2>1. UNCHANGED <<link, toWorker, reader, at>> /\ (link # "up" => toPool' = toPool)
    BY <1>13
    DEF Main, Subscribe, Authorize, Send, Started, TimeOut, ReaderFailed,
        Snapshot, DropStale, Submit, Submitted, Complete, ScanFinds, ScanFails
  <2> QED
    BY <2>1 DEF EndsAgree
<1> QED
  BY <1>1, <1>2, <1>3, <1>4, <1>5, <1>6, <1>7, <1>8, <1>9, <1>10, <1>11, <1>12,
     <1>13
  DEF Next, Handler

(* A job that is written is no reply.                                      *)
LEMMA NotifyReplies ==
  ASSUME TypeOK, jobs' = jobs \/ jobs' = Append(jobs, tip),
         Write(<<>>) \/ Write(<<Notify>>)
  PROVE  /\ Replied(toWorker') <=> Replied(toWorker)
         /\ SaysYes(toWorker') <=> SaysYes(toWorker)
         /\ OneReply(toWorker) => OneReply(toWorker')
<1>1. toWorker \in Seq(Messages') /\ Notify \in Messages' /\ ~IsReply(Notify)
  BY JobsGrow, SeqGrows DEF TypeOK, WireTypes, IsReply, Notify
<1>2. PICK q, M, n : /\ q = toWorker /\ M = Messages' /\ n = Notify
                     /\ q \in Seq(M) /\ n \in M /\ ~IsReply(n)
  BY <1>1
<1>3. toWorker' = q \/ toWorker' = q \o <<n>>
  BY <1>1, <1>2 DEF Write
<1>4. /\ Replied(q \o <<n>>) <=> Replied(q)
      /\ SaysYes(q \o <<n>>) <=> SaysYes(q)
      /\ OneReply(q) => OneReply(q \o <<n>>)
  BY <1>2, PutMessage
<1> QED
  BY <1>2, <1>3, <1>4

(* An answer is the one reply there is.                                    *)
LEMMA ReplyReplies ==
  ASSUME TypeOK, jobs' = jobs, NEW ok \in BOOLEAN,
         \/ Write(<<Reply(ok)>>)
         \/ ok = TRUE /\ Write(<<Reply(TRUE), Notify>>)
  PROVE  /\ link = "up" /\ ~Replied(toWorker) =>
              /\ Replied(toWorker') /\ OneReply(toWorker')
              /\ SaysYes(toWorker') <=> ok = TRUE
         /\ link # "up" => toWorker' = toWorker
<1>1. link # "up" => toWorker' = toWorker
  BY DEF Write
<1>2. ASSUME link = "up", ~Replied(toWorker)
      PROVE  /\ Replied(toWorker') /\ OneReply(toWorker')
             /\ SaysYes(toWorker') <=> ok = TRUE
  <2>1. PICK q, M, m, n :
          /\ q = toWorker /\ M = Messages /\ m = Reply(ok) /\ n = Notify
    OBVIOUS
  <2>2. /\ q \in Seq(M) /\ m \in M /\ n \in M
        /\ IsReply(m) /\ (m.ok = TRUE <=> ok = TRUE) /\ ~IsReply(n)
    BY <2>1, JobsGrow DEF TypeOK, WireTypes, IsReply, Notify, Reply, Messages
  <2>3. ~Replied(q) /\ ~SaysYes(q) /\ OneReply(q)
    BY <1>2, <2>1 DEF SaysYes, Replied, OneReply
  <2>4. PICK p : p = q \o <<m>>
    OBVIOUS
  <2>5. /\ p \in Seq(M) /\ Replied(p) /\ OneReply(p)
        /\ SaysYes(p) <=> ok = TRUE
    BY <2>2, <2>3, <2>4, PutLast, PutMessage
  <2>6. /\ Replied(p \o <<n>>) /\ OneReply(p \o <<n>>)
        /\ SaysYes(p \o <<n>>) <=> ok = TRUE
    BY <2>2, <2>5, PutMessage
  <2>7. toWorker' = p \/ toWorker' = p \o <<n>>
    <3>1. q \o <<m, n>> = (q \o <<m>>) \o <<n>>
      BY <2>2, PutTwo
    <3>2. toWorker' = q \o <<m>> \/ (ok = TRUE /\ toWorker' = q \o <<m, n>>)
      BY <1>2, <2>1 DEF Write
    <3> QED
      BY <2>4, <3>1, <3>2
  <2> QED
    BY <2>5, <2>6, <2>7
<1> QED
  BY <1>1, <1>2

LEMMA TakenRequest ==
  ASSUME TypeOK, EndsAgree, OneRequest, NEW kind, Take(kind)
  PROVE  /\ link = "up" /\ toPool' = <<>>
         /\ pc # "failed" =>
              /\ Waiting /\ response = NoReply /\ ~Replied(toWorker)
              /\ kind = "submit" => pc = "submitting" /\ Head(toPool) = found
<1>1. toPool # <<>> /\ at = "reading" /\ toPool' = <<>> /\ Head(toPool).kind = kind
  BY SingleRequest DEF Take, TypeOK, WireTypes
<1>2. link = "up"
  BY <1>1 DEF EndsAgree, TypeOK, WireTypes
<1> QED
  BY <1>1, <1>2 DEF OneRequest

LEMMA RequestHandled ==
  ASSUME TypeOK, EndsAgree, OneRequest, Handler \/ HandlerFails
  PROVE  OneRequest'
<1> SUFFICES ASSUME pc # "failed", UNCHANGED <<pc, response, found>>
             PROVE  OneRequest'
  BY DEF OneRequest, Handler, HandleSubscribe, HandleAuthorize, HandleSubmit,
         Verify, SubmitBlock, ForceRefresh, HandlerFails
<1>0. Waiting' = Waiting
  BY DEF Waiting
<1>1. ASSUME NEW ok \in BOOLEAN, jobs' = jobs, UNCHANGED link,
             \/ Write(<<Reply(ok)>>)
             \/ ok = TRUE /\ Write(<<Reply(TRUE), Notify>>),
             link = "up" => Waiting /\ response = NoReply /\ ~Replied(toWorker),
             link = "up" => toPool' = <<>>, ~Handling'
      PROVE  OneRequest'
  BY <1>0, <1>1, ReplyReplies DEF OneRequest
<1>2. CASE HandleSubscribe
  BY <1>1, <1>2, TakenRequest DEF HandleSubscribe, Take, Handling
<1>3. CASE HandleAuthorize
  BY <1>1, <1>3, TakenRequest DEF HandleAuthorize, Take, Handling
<1>4. CASE HandleSubmit
  <2> DEFINE s == Head(toPool)
  <2>1. /\ link = "up" /\ toPool' = <<>> /\ s = found /\ pc = "submitting"
        /\ Waiting /\ response = NoReply /\ ~Replied(toWorker)
        /\ jobs' = jobs /\ link' = link
    BY <1>4, TakenRequest DEF HandleSubmit
  <2>2. CASE s.job # Len(jobs) \/ <<s.job, s.extranonce>> \in seen
    <3>1. Write(<<Reply(FALSE)>>) /\ at' = "reading"
      BY <1>4, <2>2 DEF HandleSubmit, Refuse
    <3> QED
      BY <1>1, <2>1, <3>1 DEF Handling
  <2>3. CASE s.job = Len(jobs) /\ <<s.job, s.extranonce>> \notin seen
    <3>1. toWorker' = toWorker /\ share' = s
      BY <1>4, <2>3 DEF HandleSubmit
    <3> QED
      BY <1>0, <2>1, <3>1 DEF OneRequest
  <2> QED
    BY <2>2, <2>3
<1>5. ASSUME Handling
      PROVE  link = "up" => /\ Waiting /\ response = NoReply /\ ~Replied(toWorker)
                            /\ toPool = <<>>
  BY <1>5 DEF OneRequest
<1>6. CASE Verify
  <2>1. Handling /\ UNCHANGED <<jobs, link, toPool>>
    BY <1>6 DEF Verify, Handling
  <2>2. CASE ScannerAccepts /\ share.block
    BY <1>0, <1>6, <2>1, <2>2 DEF Verify, OneRequest, Handling
  <2>3. CASE ~(ScannerAccepts /\ share.block)
    <3>1. /\ at' = "reading"
          /\ Write(<<Reply(FALSE)>>) \/ Write(<<Reply(TRUE)>>)
      BY <1>6, <2>3 DEF Verify, Refuse, Answer
    <3> QED
      BY <1>1, <1>5, <2>1, <3>1 DEF Handling
  <2> QED
    BY <2>2, <2>3
<1>7. CASE SubmitBlock
  <2>1. Handling /\ UNCHANGED <<jobs, link, toPool>>
    BY <1>7 DEF SubmitBlock, Handling
  <2>2. /\ at' \in {"reading", "refreshing"}
        /\ Write(<<Reply(FALSE)>>) \/ Write(<<Reply(TRUE)>>)
    BY <1>7 DEF SubmitBlock, Refuse, Answer
  <2> QED
    BY <1>1, <1>5, <2>1, <2>2 DEF Handling
<1>8. CASE ForceRefresh
  BY <1>0, <1>8, NotifyReplies DEF ForceRefresh, NewJob, OneRequest, Handling
<1>9. CASE HandlerFails
  BY <1>0, <1>9 DEF HandlerFails, Raise, OneRequest
<1> QED
  BY <1>2, <1>3, <1>4, <1>6, <1>7, <1>8, <1>9 DEF Handler

(* While the worker waits for nothing, nothing is under way.               *)
LEMMA NothingUnderWay ==
  ASSUME OneRequest, pc # "failed", ~Waiting \/ response # NoReply
  PROVE  ~Replied(toWorker) /\ (link = "up" => toPool = <<>> /\ ~Handling)
BY DEF OneRequest

LEMMA RequestAsked ==
  ASSUME TypeOK, EndsAgree, OneRequest, Main \/ ScanFails
  PROVE  OneRequest'
<1> SUFFICES ASSUME pc' # "failed"
             PROVE  OneRequest'
  BY DEF OneRequest
<1>1. ASSUME NEW m, NEW next \in {"subscribing", "authorizing", "submitting"},
             Send(m, next), pc # "failed", ~Waiting, found' = found,
             IF next = "submitting" THEN m = found ELSE m.kind # "submit"
      PROVE  OneRequest'
  <2>1. ~Replied(toWorker) /\ (link = "up" => toPool = <<>> /\ ~Handling)
    BY <1>1, NothingUnderWay
  <2>2. /\ UNCHANGED <<toWorker, link, at, share>> /\ response' = NoReply
        /\ link = "up" => toPool' = <<m>> /\ pc' = next
        /\ pc' = next
    BY <1>1, <2>1, SingleRequest DEF Send
  <2>3. link = "up" => Head(toPool') = m
    BY <2>2, SingleRequest
  <2> QED
    BY <1>1, <2>1, <2>2, <2>3 DEF OneRequest, Waiting, Handling
<1>2. CASE Subscribe \/ Authorize \/ Submit
  <2>1. CASE Subscribe
    <3>1. PICK m : m = [kind |-> "subscribe"]
      OBVIOUS
    <3>2. Send(m, "subscribing") /\ pc = "subscribe" /\ found' = found
      BY <2>1, <3>1 DEF Subscribe
    <3> QED
      BY <1>1, <3>1, <3>2 DEF Waiting
  <2>2. CASE Authorize
    <3>1. PICK m : m = [kind |-> "authorize"]
      OBVIOUS
    <3>2. Send(m, "authorizing") /\ pc = "authorize" /\ found' = found
      BY <2>2, <3>1 DEF Authorize
    <3> QED
      BY <1>1, <3>1, <3>2 DEF Waiting
  <2>3. CASE Submit
    BY <1>1, <2>3 DEF Submit, Waiting
  <2> QED
    BY <1>2, <2>1, <2>2, <2>3
<1>3. ASSUME UNCHANGED <<wireVars, at, share, response>>, pc # "failed",
             ~Waiting \/ response # NoReply, ~Waiting'
      PROVE  OneRequest'
  <2>1. ~Replied(toWorker) /\ (link = "up" => toPool = <<>> /\ ~Handling)
    BY <1>3, NothingUnderWay
  <2> QED
    BY <1>3, <2>1 DEF OneRequest, Handling
<1>4. CASE Started \/ Snapshot \/ DropStale \/ Complete
  <2>1. /\ UNCHANGED <<wireVars, at, share, response>> /\ pc # "failed"
        /\ pc' \in {"authorize", "loop", "scan", "complete"}
        /\ pc \in {"loop", "found"} \/ response = {TRUE}
    BY <1>4 DEF Started, Snapshot, DropStale, Complete, Stop
  <2> QED
    BY <1>3, <2>1 DEF Waiting, NoReply
<1>5. CASE Submitted
  <2>1. /\ UNCHANGED <<wireVars, at, share, response>> /\ pc' = "loop"
        /\ pc = "submitting" /\ response # NoReply
    BY <1>5 DEF Submitted, NoReply
  <2> QED
    BY <1>3, <2>1 DEF Waiting
<1>6. ASSUME NEW outcome \in {"none", "share", "block"}, ScanFinds(outcome)
      PROVE  OneRequest'
  <2>1. /\ UNCHANGED <<wireVars, at, share, response>> /\ pc' \in {"loop", "found"}
        /\ pc = "scan"
    BY <1>6 DEF ScanFinds
  <2> QED
    BY <1>3, <2>1 DEF Waiting
<1>7. CASE ReaderFailed
  <2>1. toWorker' = <<>> /\ link' # "up"
    BY <1>7 DEF ReaderFailed, EndsAgree
  <2> QED
    BY <2>1 DEF OneRequest, OneReply, Replied
<1>8. CASE TimeOut \/ ScanFails
  BY <1>8 DEF TimeOut, AfterTimeout, ScanFails, Stop
<1> QED
  BY <1>2, <1>4, <1>5, <1>6, <1>7, <1>8 DEF Main

LEMMA RequestTravels ==
  ASSUME TypeOK, EndsAgree, OneRequest,
         Lose \/ TipMoves \/ Refresh \/ Read \/ ReadEnds \/ UNCHANGED vars
  PROVE  OneRequest'
<1> SUFFICES ASSUME pc # "failed", UNCHANGED <<pc, found, at, share, toPool>> \/ Lose
             PROVE  OneRequest'
  BY DEF OneRequest, Lose, TipMoves, Refresh, Read, ReadEnds, vars
<1>1. CASE Lose
  <2>1. /\ OneReply(toWorker) => OneReply(toWorker')
        /\ Replied(toWorker') => Replied(toWorker)
    <3>1. PICK n \in 0..Len(toWorker) : toWorker' = SubSeq(toWorker, 1, n)
      BY <1>1 DEF Lose
    <3>2. PICK q, M : q = toWorker /\ M = Messages /\ q \in Seq(M)
      BY DEF TypeOK, WireTypes
    <3> QED
      BY <3>1, <3>2, CutReplies
  <2> QED
    BY <1>1, <2>1 DEF Lose, OneRequest, Waiting
<1>2. CASE TipMoves \/ ReadEnds \/ UNCHANGED vars
  BY <1>2 DEF TipMoves, ReadEnds, vars, OneRequest, Waiting, Handling
<1>3. CASE Refresh
  <2>1. /\ Replied(toWorker') <=> Replied(toWorker)
        /\ OneReply(toWorker) => OneReply(toWorker')
    BY <1>3, NotifyReplies DEF Refresh, NewJob
  <2> QED
    BY <1>3, <2>1 DEF Refresh, OneRequest, Waiting, Handling
<1>4. CASE Read
  <2>1. /\ toWorker # <<>> /\ toWorker' = Tail(toWorker) /\ OneReply(toWorker)
        /\ UNCHANGED <<pc, found, at, share, toPool, link>>
    BY <1>4 DEF Read, OneRequest
  <2>2. PICK q, M : q = toWorker /\ M = Messages /\ q \in Seq(M)
    BY DEF TypeOK, WireTypes
  <2>3. /\ OneReply(Tail(q))
        /\ IsReply(Head(q)) => ~Replied(Tail(q))
        /\ ~IsReply(Head(q)) => (Replied(Tail(q)) <=> Replied(q))
    BY <2>1, <2>2, TakeReply
  <2>4. CASE IsReply(Head(q))
    <3>1. Replied(q)
      BY <2>1, <2>2, <2>4, TakeFirst DEF Replied
    <3> QED
      BY <2>1, <2>2, <2>3, <2>4, <3>1 DEF OneRequest, Handling
  <2>5. CASE ~IsReply(Head(q))
    <3>1. response' = response
      BY <1>4, <2>2, <2>5 DEF Read, IsReply
    <3> QED
      BY <2>1, <2>2, <2>3, <2>5, <3>1 DEF OneRequest, Waiting, Handling
  <2> QED
    BY <2>4, <2>5
<1> QED
  BY <1>1, <1>2, <1>3, <1>4

LEMMA MiningInit == Init => TypeOK /\ EndsAgree /\ OneRequest
<1> SUFFICES ASSUME Init
             PROVE  TypeOK /\ EndsAgree /\ OneRequest
  OBVIOUS
<1>1. /\ <<0>> \in Seq(0..MaxTip) /\ <<0>> # <<>> /\ Len(<<0>>) = 1
      /\ <<0>>[1] = 0
  BY MiningAssumption
<1>2. PoolTypes
  <2>1. jobs \in Seq(0..MaxTip) /\ jobs # <<>> /\ \A j \in 1..Len(jobs) : jobs[j] <= tip
    BY <1>1 DEF Init
  <2>2. tip \in 0..MaxTip
    BY MiningAssumption DEF Init
  <2>3. /\ taken = {} /\ seen = {} /\ credited = {} /\ answered = {} /\ refused = {}
        /\ forced = FALSE /\ authorized = FALSE /\ at = "reading"
    BY DEF Init
  <2> QED
    BY <2>1, <2>2, <2>3 DEF PoolTypes
<1>3. WireTypes
  BY DEF Init, WireTypes
<1>4. WorkerTypes
  <2>1. /\ 0 \in 0..Len(jobs) /\ 0 \in Nat /\ 0 \in 0..Extranonces - 1
    BY <1>1, MiningAssumption DEF Init
  <2>2. snap \in [job : 0..Len(jobs), generation : Nat]
    BY <2>1 DEF Init
  <2>3. /\ pc = "subscribe" /\ response = NoReply /\ reader = "reading"
        /\ wrapped = FALSE
    BY DEF Init
  <2>4. /\ job \in 0..Len(jobs) /\ generation \in Nat
        /\ extranonce \in 0..Extranonces - 1 /\ accepted \in Nat /\ blocks \in Nat
    BY <2>1 DEF Init
  <2> QED
    BY <2>2, <2>3, <2>4 DEF WorkerTypes
<1>5. EndsAgree /\ OneRequest
  BY DEF Init, EndsAgree, OneRequest, OneReply, Replied, Handling
<1> QED
  BY <1>2, <1>3, <1>4, <1>5 DEF TypeOK

LEMMA MiningInductive ==
  ASSUME TypeOK, EndsAgree, OneRequest, [Next]_vars
  PROVE  TypeOK' /\ EndsAgree' /\ OneRequest'
<1>1. TypeOK'
  <2>1. CASE Main \/ ScanFails
    <3>1. link = "up" /\ pc \in {"subscribe", "authorize", "found"} => toPool = <<>>
      BY NothingUnderWay DEF Waiting
    <3> QED
      BY <2>1, <3>1, MainTypes
  <2>2. CASE UNCHANGED vars
    BY <2>2, PartsStay DEF vars, TypeOK, WireTypes
  <2> QED
    BY <2>1, <2>2, NetworkTypes, HandlerTypes, ReaderTypes DEF Next
<1>2. EndsAgree'
  BY EndsInductive
<1>3. OneRequest'
  BY RequestHandled, RequestAsked, RequestTravels DEF Next
<1> QED
  BY <1>1, <1>2, <1>3

(* The types, and what a request and its reply are to each other: one of   *)
(* them at most is under way, and none while the worker waits for none     *)
(* (Stratum.call's response slot takes one reply).                         *)
THEOREM MiningTyped == Spec => [](TypeOK /\ EndsAgree /\ OneRequest)
<1>1. TypeOK /\ EndsAgree /\ OneRequest /\ [Next]_vars
        => (TypeOK /\ EndsAgree /\ OneRequest)'
  BY MiningInductive
<1> QED
  BY MiningInit, <1>1, PTL DEF Spec

-----------------------------------------------------------------------------
(* What a submission is for.                                               *)
Work(s) == <<s.job, s.extranonce>>

(* No submission is handled twice: those answered and credited were seen,  *)
(* and the one that is handled was neither before.                         *)
HandledOnce ==
  /\ \A s \in credited \cup answered : Work(s) \in seen
  /\ Handling => Work(share) \in seen
  /\ Handling => \A s \in answered : Work(s) # Work(share)
  /\ at = "verifying" => \A s \in credited : Work(s) # Work(share)
  /\ \A s, t \in credited : Work(s) = Work(t) => s = t

LEMMA HandledInductive ==
  ASSUME HandledOnce, [Next]_vars
  PROVE  HandledOnce'
<1> USE DEF Handling
<1>1. CASE UNCHANGED <<seen, at, share, credited, answered>>
  BY <1>1 DEF HandledOnce, Work
<1>2. CASE HandleSubmit
  <2> DEFINE s == Head(toPool)
  <2>1. at = "reading" /\ UNCHANGED <<credited, answered>>
    BY <1>2 DEF HandleSubmit, Take
  <2>2. CASE at' = "reading" /\ seen' = seen
    BY <2>1, <2>2 DEF HandledOnce, Work
  <2>3. CASE /\ at' = "verifying" /\ share' = s /\ Work(s) \notin seen
             /\ seen' = seen \cup {Work(s)}
    <3> HIDE DEF s
    <3> QED
      BY <2>1, <2>3 DEF HandledOnce, Work
  <2> QED
    BY <1>2, <2>2, <2>3 DEF HandleSubmit, Refuse, Work
<1>3. CASE Verify
  <2>1. at = "verifying" /\ seen' = seen
    BY <1>3 DEF Verify
  <2>2. \/ at' = "reading" /\ UNCHANGED <<credited, answered>>
        \/ /\ credited' = credited \cup {share}
           /\ \/ at' = "submitting" /\ UNCHANGED <<share, answered>>
              \/ at' = "reading" /\ answered' = answered \cup {share}
    BY <1>3 DEF Verify, Refuse, Answer
  <2>3. CASE at' = "reading" /\ UNCHANGED <<credited, answered>>
    BY <2>1, <2>3 DEF HandledOnce, Work
  <2>4. CASE /\ credited' = credited \cup {share}
             /\ at' = "submitting" /\ UNCHANGED <<share, answered>>
    BY <2>1, <2>4 DEF HandledOnce, Work
  <2>5. CASE /\ credited' = credited \cup {share}
             /\ at' = "reading" /\ answered' = answered \cup {share}
    BY <2>1, <2>5 DEF HandledOnce, Work
  <2> QED
    BY <2>2, <2>3, <2>4, <2>5
<1>4. CASE SubmitBlock
  <2>1. at = "submitting" /\ UNCHANGED <<seen, credited>>
    BY <1>4 DEF SubmitBlock
  <2>2. /\ at' \in {"refreshing", "reading"}
        /\ answered' = answered \/ answered' = answered \cup {share}
    BY <1>4 DEF SubmitBlock, Refuse, Answer
  <2> QED
    BY <2>1, <2>2 DEF HandledOnce, Work
<1>5. CASE ForceRefresh \/ HandlerFails
  <2>1. UNCHANGED <<seen, credited, answered>> /\ at' \in {"reading", "closed"}
    BY <1>5 DEF ForceRefresh, HandlerFails, Raise
  <2> QED
    BY <2>1 DEF HandledOnce, Work
<1>6. ASSUME Lose \/ TipMoves \/ Refresh \/ HandleSubscribe \/ HandleAuthorize
             \/ Read \/ ReadEnds \/ Main \/ ScanFails \/ UNCHANGED vars
      PROVE  UNCHANGED <<seen, at, share, credited, answered>>
  BY <1>6
  DEF Lose, TipMoves, Refresh, HandleSubscribe, HandleAuthorize, Take, Read,
      ReadEnds, Main, Subscribe, Authorize, Send, Started, TimeOut, ReaderFailed,
      Snapshot, DropStale, Submit, Submitted, Complete, ScanFinds, ScanFails, vars
<1> QED
  BY <1>1, <1>2, <1>3, <1>4, <1>5, <1>6 DEF Next, Handler

-----------------------------------------------------------------------------
(* The worker's counters.                                                  *)

(* A yes that the worker has still to count.                               *)
Due == pc = "submitting" /\ (TRUE \in response \/ SaysYes(toWorker))

DueShares == IF Due THEN 1 ELSE 0
DueBlocks == IF Due /\ found.block = TRUE THEN 1 ELSE 0

(* The counters and the yes under way are no more than the pool and the    *)
(* node know of, and on a working connection exactly that.                 *)
CountsSound ==
  /\ IsFiniteSet(answered) /\ IsFiniteSet(taken)
  /\ accepted + DueShares <= Cardinality(answered)
  /\ blocks + DueBlocks <= Cardinality(taken)
  /\ link = "up" /\ pc # "failed" =>
       /\ accepted + DueShares = Cardinality(answered)
       /\ blocks + DueBlocks = Cardinality(taken)

LEMMA OneOrNone ==
  /\ DueShares \in {0, 1} /\ DueBlocks \in {0, 1}
  /\ DueShares' \in {0, 1} /\ DueBlocks' \in {0, 1}
  /\ ~Due => DueShares = 0 /\ DueBlocks = 0
  /\ ~Due' => DueShares' = 0 /\ DueBlocks' = 0
  /\ Due => DueShares = 1 /\ (DueBlocks = IF found.block = TRUE THEN 1 ELSE 0)
  /\ Due' => DueShares' = 1 /\ (DueBlocks' = IF found'.block = TRUE THEN 1 ELSE 0)
BY DEF DueShares, DueBlocks

(* Steps that leave the counts alone, and may lose a yes on the way.       *)
LEMMA CountsStay ==
  ASSUME TypeOK, CountsSound, UNCHANGED <<accepted, blocks, answered, taken>>,
         Due' => Due /\ found' = found,
         link' = "up" /\ pc' # "failed" =>
           link = "up" /\ pc # "failed" /\ (Due => Due' /\ found' = found)
  PROVE  CountsSound'
<1>1. /\ Cardinality(answered) \in Nat /\ Cardinality(taken) \in Nat
      /\ accepted \in Nat /\ blocks \in Nat
  BY FS_CardinalityType DEF CountsSound, TypeOK, WorkerTypes
<1>2. /\ DueShares \in {0, 1} /\ DueBlocks \in {0, 1}
      /\ DueShares' \in {0, 1} /\ DueBlocks' \in {0, 1}
      /\ DueShares' <= DueShares /\ DueBlocks' <= DueBlocks
  BY OneOrNone
<1>3. link' = "up" /\ pc' # "failed" => DueShares' = DueShares /\ DueBlocks' = DueBlocks
  BY OneOrNone
<1>4. /\ accepted' + DueShares' <= Cardinality(answered')
      /\ blocks' + DueBlocks' <= Cardinality(taken')
  BY <1>1, <1>2 DEF CountsSound
<1> QED
  BY <1>3, <1>4 DEF CountsSound

LEMMA CountsHandled ==
  ASSUME TypeOK, EndsAgree, OneRequest, HandledOnce, CountsSound,
         Handler \/ HandlerFails
  PROVE  CountsSound'
<1>0. /\ UNCHANGED <<mainVars, response>>
      /\ link' = "up" => link = "up"
      /\ IsFiniteSet(answered) /\ IsFiniteSet(taken)
      /\ Cardinality(answered) \in Nat /\ Cardinality(taken) \in Nat
      /\ accepted \in Nat /\ blocks \in Nat
  BY FS_CardinalityType
  DEF CountsSound, TypeOK, WorkerTypes, Handler, HandleSubscribe,
      HandleAuthorize,
      HandleSubmit, Verify, SubmitBlock, ForceRefresh, HandlerFails, Raise
<1>1. ASSUME UNCHANGED <<answered, taken>>, Due' <=> Due
      PROVE  CountsSound'
  BY <1>0, <1>1, CountsStay
<1>2. ASSUME NEW kind \in {"subscribe", "authorize"}, Take(kind)
      PROVE  pc # "submitting"
  <2>1. link = "up" /\ Head(toPool).kind = kind
    BY <1>2, TakenRequest DEF Take
  <2> QED
    BY <1>2, <2>1 DEF Take, OneRequest, TypeOK, WorkerTypes, Submission
<1>3. CASE HandleSubscribe
  <2>1. pc # "submitting" /\ UNCHANGED <<answered, taken>>
    BY <1>2, <1>3 DEF HandleSubscribe
  <2> QED
    BY <1>0, <1>1, <2>1 DEF Due
<1>4. CASE HandleAuthorize
  <2>1. pc # "submitting" /\ UNCHANGED <<answered, taken>>
    BY <1>2, <1>4 DEF HandleAuthorize
  <2> QED
    BY <1>0, <1>1, <2>1 DEF Due
<1>5. ASSUME NEW ok \in BOOLEAN, jobs' = jobs, Write(<<Reply(ok)>>),
             link = "up" /\ pc # "failed" =>
               pc = "submitting" /\ response = NoReply /\ ~Replied(toWorker)
      PROVE  /\ link = "up" /\ pc # "failed" => ~Due /\ (Due' <=> ok = TRUE)
             /\ ~(link = "up" /\ pc # "failed") => (Due' <=> Due)
  <2>1. CASE link = "up" /\ pc # "failed"
    <3>1. SaysYes(toWorker') <=> ok = TRUE
      BY <1>5, <2>1, ReplyReplies
    <3>2. ~SaysYes(toWorker)
      BY <1>5, <2>1 DEF SaysYes, Replied
    <3> QED
      BY <1>0, <1>5, <2>1, <3>1, <3>2 DEF Due, NoReply
  <2>2. CASE link # "up"
    <3>1. toWorker' = toWorker
      BY <1>5, <2>2, ReplyReplies
    <3> QED
      BY <1>0, <2>2, <3>1 DEF Due
  <2>3. CASE pc = "failed"
    BY <1>0, <2>3 DEF Due
  <2> QED
    BY <2>1, <2>2, <2>3
<1>6. CASE HandleSubmit
  <2>1. /\ UNCHANGED <<answered, taken, jobs>>
        /\ Write(<<Reply(FALSE)>>) \/ toWorker' = toWorker
    BY <1>6 DEF HandleSubmit, Refuse
  <2>2. link = "up" /\ pc # "failed" =>
          pc = "submitting" /\ response = NoReply /\ ~Replied(toWorker)
    BY <1>6, TakenRequest DEF HandleSubmit
  <2>3. Due' <=> Due
    <3>1. CASE Write(<<Reply(FALSE)>>)
      BY <1>5, <2>1, <2>2, <3>1
    <3>2. CASE toWorker' = toWorker
      BY <1>0, <3>2 DEF Due
    <3> QED
      BY <2>1, <3>1, <3>2
  <2> QED
    BY <1>1, <2>1, <2>3
<1>7. ASSUME Handling
      PROVE  /\ link = "up" /\ pc # "failed" =>
                  /\ pc = "submitting" /\ response = NoReply /\ ~Replied(toWorker)
                  /\ found = share
             /\ share \notin answered
             /\ IsFiniteSet(answered \cup {share})
             /\ Cardinality(answered \cup {share}) = Cardinality(answered) + 1
  <2>1. share \notin answered
    BY <1>7 DEF HandledOnce
  <2>2. link = "up" /\ pc # "failed" =>
          /\ pc = "submitting" /\ response = NoReply /\ ~Replied(toWorker)
          /\ found = share
    BY <1>7 DEF OneRequest
  <2> QED
    BY <1>0, <2>1, <2>2, FS_AddElement
<1>8. CASE Verify
  <2>1. at = "verifying" /\ UNCHANGED <<jobs, taken, link>>
    BY <1>8 DEF Verify
  <2>2. CASE ~ScannerAccepts
    <3>1. answered' = answered /\ Write(<<Reply(FALSE)>>)
      BY <1>8, <2>2 DEF Verify, Refuse
    <3> QED
      BY <1>1, <1>5, <1>7, <2>1, <3>1 DEF Handling
  <2>3. CASE ScannerAccepts /\ share.block
    <3>1. answered' = answered /\ toWorker' = toWorker
      BY <1>8, <2>3 DEF Verify
    <3> QED
      BY <1>0, <1>1, <2>1, <3>1 DEF Due
  <2>4. CASE ScannerAccepts /\ ~share.block
    <3>1. answered' = answered \cup {share} /\ Write(<<Reply(TRUE)>>)
      BY <1>8, <2>4 DEF Verify, Answer
    <3>2. /\ link = "up" /\ pc # "failed" => ~Due /\ Due' /\ found = share
          /\ ~(link = "up" /\ pc # "failed") => (Due' <=> Due)
      BY <1>5, <1>7, <2>1, <3>1 DEF Handling
    <3>3. /\ link = "up" /\ pc # "failed" =>
               DueShares = 0 /\ DueBlocks = 0 /\ DueShares' = 1 /\ DueBlocks' = 0
          /\ ~(link = "up" /\ pc # "failed") =>
               DueShares' = DueShares /\ DueBlocks' = DueBlocks
      BY <1>0, <2>4, <3>2, OneOrNone
    <3>4. /\ IsFiniteSet(answered')
          /\ Cardinality(answered') = Cardinality(answered) + 1
      BY <1>7, <2>1, <3>1 DEF Handling
    <3>5. DueShares \in {0, 1} /\ DueBlocks \in {0, 1}
      BY OneOrNone
    <3> QED
      BY <1>0, <2>1, <3>3, <3>4, <3>5 DEF CountsSound
  <2> QED
    BY <2>2, <2>3, <2>4
<1>9. ASSUME at = "submitting", Takes, NodeTakes
      PROVE  /\ IsFiniteSet(taken')
             /\ Cardinality(taken') = Cardinality(taken) + 1
  <2>1. taken' = taken \cup {PoolHeader(share)} /\ PoolHeader(share).previous = tip
    BY <1>9 DEF NodeTakes, Takes, OnTip
  <2>2. \A h \in taken : h.previous # tip
    BY MiningAssumption DEF TypeOK, PoolTypes
  <2>3. PoolHeader(share) \notin taken
    BY <2>1, <2>2
  <2> QED
    BY <1>0, <2>1, <2>3, FS_AddElement
<1>10. CASE SubmitBlock
  <2>1. at = "submitting" /\ UNCHANGED <<jobs, link>> /\ NodeTakes
    BY <1>10 DEF SubmitBlock
  <2>2. CASE ~Takes
    <3>1. UNCHANGED <<answered, taken>> /\ Write(<<Reply(FALSE)>>)
      BY <1>10, <2>2 DEF SubmitBlock, Refuse, NodeTakes
    <3> QED
      BY <1>1, <1>5, <1>7, <2>1, <3>1 DEF Handling
  <2>3. CASE Takes
    <3>1. answered' = answered \cup {share} /\ Write(<<Reply(TRUE)>>)
          /\ share.block = TRUE
      BY <1>10, <2>3 DEF SubmitBlock, Answer, TypeOK, PoolTypes, Submission
    <3>2. /\ link = "up" /\ pc # "failed" => ~Due /\ Due' /\ found = share
          /\ ~(link = "up" /\ pc # "failed") => (Due' <=> Due)
      BY <1>5, <1>7, <2>1, <3>1 DEF Handling
    <3>3. /\ link = "up" /\ pc # "failed" =>
               DueShares = 0 /\ DueBlocks = 0 /\ DueShares' = 1 /\ DueBlocks' = 1
          /\ ~(link = "up" /\ pc # "failed") =>
               DueShares' = DueShares /\ DueBlocks' = DueBlocks
      BY <1>0, <3>1, <3>2, OneOrNone
    <3>4. /\ IsFiniteSet(answered') /\ IsFiniteSet(taken')
          /\ Cardinality(answered') = Cardinality(answered) + 1
          /\ Cardinality(taken') = Cardinality(taken) + 1
      BY <1>7, <1>9, <2>1, <2>3, <3>1 DEF Handling
    <3>5. DueShares \in {0, 1} /\ DueBlocks \in {0, 1}
      BY OneOrNone
    <3> QED
      BY <1>0, <2>1, <3>3, <3>4, <3>5 DEF CountsSound
  <2> QED
    BY <2>2, <2>3
<1>11. CASE ForceRefresh
  <2>1. SaysYes(toWorker') <=> SaysYes(toWorker)
    BY <1>11, NotifyReplies DEF ForceRefresh, NewJob
  <2>2. UNCHANGED <<answered, taken>>
    BY <1>11 DEF ForceRefresh
  <2> QED
    BY <1>0, <1>1, <2>1, <2>2 DEF Due
<1>12. CASE HandlerFails
  <2>1. answered' = answered /\ toWorker' = toWorker /\ link' # "up"
    BY <1>12 DEF HandlerFails, Raise
  <2>2. DueShares' = DueShares /\ DueBlocks' = DueBlocks /\ DueShares \in {0, 1} /\ DueBlocks \in {0, 1}
    BY <1>0, <2>1, OneOrNone DEF Due
  <2>3. /\ IsFiniteSet(taken') /\ Cardinality(taken') \in Nat
        /\ Cardinality(taken) <= Cardinality(taken')
    <3>1. CASE at = "submitting" /\ NodeTakes /\ Takes
      BY <1>0, <1>9, <3>1
    <3>2. CASE taken' = taken
      BY <1>0, <3>2
    <3> QED
      BY <1>12, <3>1, <3>2 DEF HandlerFails, NodeTakes
  <2> QED
    BY <1>0, <2>1, <2>2, <2>3 DEF CountsSound
<1> QED
  BY <1>3, <1>4, <1>6, <1>8, <1>10, <1>11, <1>12 DEF Handler

LEMMA CountsTravel ==
  ASSUME TypeOK, OneRequest, CountsSound,
         Lose \/ TipMoves \/ Refresh \/ Read \/ ReadEnds \/ UNCHANGED vars
  PROVE  CountsSound'
<1>0. UNCHANGED <<mainVars, answered, taken>>
  BY DEF Lose, TipMoves, Refresh, Read, ReadEnds, vars
<1>1. ASSUME Due' => Due, link' = "up" => link = "up" /\ (Due' <=> Due)
      PROVE  CountsSound'
  BY <1>0, <1>1, CountsStay
<1>2. CASE Lose
  <2>1. PICK n \in 0..Len(toWorker) : toWorker' = SubSeq(toWorker, 1, n)
    BY <1>2 DEF Lose
  <2>2. PICK q, M : q = toWorker /\ M = Messages /\ q \in Seq(M)
    BY DEF TypeOK, WireTypes
  <2>3. SaysYes(toWorker') => SaysYes(toWorker)
    BY <2>1, <2>2, CutReplies
  <2>4. link' # "up" /\ response' = response
    BY <1>2 DEF Lose
  <2> QED
    BY <1>0, <1>1, <2>3, <2>4 DEF Due
<1>3. CASE TipMoves \/ ReadEnds \/ UNCHANGED vars
  <2>1. UNCHANGED <<link, toWorker, response>>
    BY <1>3 DEF TipMoves, ReadEnds, vars
  <2> QED
    BY <1>0, <1>1, <2>1 DEF Due
<1>4. CASE Refresh
  <2>1. SaysYes(toWorker') <=> SaysYes(toWorker)
    BY <1>4, NotifyReplies DEF Refresh, NewJob
  <2>2. UNCHANGED <<link, response>>
    BY <1>4 DEF Refresh
  <2> QED
    BY <1>0, <1>1, <2>1, <2>2 DEF Due
<1>5. CASE Read
  <2>1. /\ toWorker # <<>> /\ toWorker' = Tail(toWorker) /\ link' = link
    BY <1>5 DEF Read
  <2>2. PICK q, M : q = toWorker /\ M = Messages /\ q \in Seq(M)
    BY DEF TypeOK, WireTypes
  <2>3. CASE pc = "submitting"
    <3>1. OneReply(q)
      BY <2>2, <2>3 DEF OneRequest
    <3>2. CASE IsReply(Head(q))
      <4>1. ~Replied(Tail(q)) /\ (SaysYes(q) <=> Head(q).ok = TRUE)
        BY <2>1, <2>2, <3>1, <3>2, TakeReply
      <4>2. Replied(q)
        BY <2>1, <2>2, <3>2, TakeFirst DEF Replied
      <4>3. response = NoReply /\ response' = {Head(q).ok}
        BY <1>5, <2>2, <2>3, <3>2, <4>2 DEF OneRequest, Read, IsReply
      <4>4. TRUE \in response' <=> Head(q).ok = TRUE
        BY <4>3
      <4>5. ~SaysYes(toWorker') /\ TRUE \notin response
        BY <2>1, <2>2, <4>1, <4>3 DEF SaysYes, Replied, NoReply
      <4> QED
        BY <1>0, <1>1, <2>1, <2>2, <2>3, <4>1, <4>4, <4>5 DEF Due
    <3>3. CASE ~IsReply(Head(q))
      <4>1. SaysYes(Tail(q)) <=> SaysYes(q)
        BY <2>1, <2>2, <3>1, <3>3, TakeReply
      <4>2. response' = response
        BY <1>5, <2>2, <3>3 DEF Read, IsReply
      <4> QED
        BY <1>0, <1>1, <2>1, <2>2, <4>1, <4>2 DEF Due
    <3> QED
      BY <3>2, <3>3
  <2>4. CASE pc # "submitting"
    BY <1>0, <1>1, <2>1, <2>4 DEF Due
  <2> QED
    BY <2>3, <2>4
<1> QED
  BY <1>2, <1>3, <1>4, <1>5

LEMMA CountsAsked ==
  ASSUME TypeOK, EndsAgree, OneRequest, CountsSound, Main \/ ScanFails
  PROVE  CountsSound'
<1>0. UNCHANGED <<link, answered, taken>>
  BY DEF Main, Subscribe, Authorize, Send, Started, TimeOut, ReaderFailed,
         Snapshot, DropStale, Submit, Submitted, Complete, ScanFinds, ScanFails
<1>1. ASSUME UNCHANGED <<accepted, blocks>>, ~Due',
             link' = "up" /\ pc' # "failed" => pc # "failed" /\ ~Due
      PROVE  CountsSound'
  BY <1>0, <1>1, CountsStay
<1>2. ASSUME NEW m, NEW next \in {"subscribing", "authorizing", "submitting"},
             Send(m, next), pc # "failed", ~Waiting, UNCHANGED <<accepted, blocks>>
      PROVE  CountsSound'
  <2>1. ~Replied(toWorker)
    BY <1>2, NothingUnderWay
  <2>2. toWorker' = toWorker /\ response' = NoReply
    BY <1>2 DEF Send
  <2>3. ~Due' /\ ~Due
    BY <1>2, <2>1, <2>2 DEF Due, SaysYes, Replied, NoReply, Waiting
  <2> QED
    BY <1>1, <1>2, <2>3
<1>3. CASE Subscribe
  <2>1. PICK m : m = [kind |-> "subscribe"]
    OBVIOUS
  <2>2. Send(m, "subscribing") /\ pc = "subscribe" /\ UNCHANGED <<accepted, blocks>>
    BY <1>3, <2>1 DEF Subscribe
  <2> QED
    BY <1>2, <2>2 DEF Waiting
<1>4. CASE Authorize
  <2>1. PICK m : m = [kind |-> "authorize"]
    OBVIOUS
  <2>2. Send(m, "authorizing") /\ pc = "authorize" /\ UNCHANGED <<accepted, blocks>>
    BY <1>4, <2>1 DEF Authorize
  <2> QED
    BY <1>2, <2>2 DEF Waiting
<1>5. CASE Submit
  BY <1>2, <1>5 DEF Submit, Waiting
<1>6. CASE Started \/ Snapshot \/ DropStale \/ Complete
  <2>1. /\ UNCHANGED <<accepted, blocks>> /\ pc # "failed" /\ pc # "submitting"
        /\ pc' \in {"authorize", "loop", "scan", "complete"}
    BY <1>6 DEF Started, Snapshot, DropStale, Complete, Stop
  <2> QED
    BY <1>1, <2>1 DEF Due
<1>7. ASSUME NEW outcome \in {"none", "share", "block"}, ScanFinds(outcome)
      PROVE  CountsSound'
  <2>1. /\ UNCHANGED <<accepted, blocks>> /\ pc = "scan" /\ pc' \in {"loop", "found"}
    BY <1>7 DEF ScanFinds
  <2> QED
    BY <1>1, <2>1 DEF Due
<1>8. CASE ReaderFailed \/ TimeOut \/ ScanFails
  <2>1. /\ UNCHANGED <<accepted, blocks>> /\ pc' \in {"loop", "failed"}
        /\ pc' = "failed" \/ link # "up"
    BY <1>8
    DEF ReaderFailed, TimeOut, AfterTimeout, ScanFails, Stop, EndsAgree
  <2> QED
    BY <1>0, <1>1, <2>1 DEF Due
<1>9. CASE Submitted
  <2>1. /\ pc = "submitting" /\ pc' = "loop" /\ response # NoReply
    BY <1>9 DEF Submitted, NoReply
  <2>2. ~Replied(toWorker) /\ ~Due'
    BY <2>1, NothingUnderWay DEF Due
  <2>3. ~SaysYes(toWorker)
    BY <2>2 DEF SaysYes, Replied
  <2>4. Due <=> response = {TRUE}
    BY <2>1, <2>3 DEF Due, NoReply, TypeOK, WorkerTypes
  <2>5. /\ accepted' = accepted + DueShares /\ blocks' = blocks + DueBlocks
    <3>1. CASE response = {TRUE}
      <4>1. /\ accepted' = accepted + 1
            /\ blocks' = IF found.block THEN blocks + 1 ELSE blocks
        BY <1>9, <3>1 DEF Submitted, Counted
      <4>2. found.block \in BOOLEAN
        BY <2>1 DEF TypeOK, WorkerTypes, Submission
      <4>3. DueShares = 1 /\ (DueBlocks = IF found.block = TRUE THEN 1 ELSE 0)
        BY <2>4, <3>1, OneOrNone
      <4>4. blocks \in Nat /\ blocks + 0 = blocks
        BY DEF TypeOK, WorkerTypes
      <4>5. CASE found.block = TRUE
        BY <4>1, <4>3, <4>5
      <4>6. CASE found.block = FALSE
        BY <4>1, <4>3, <4>4, <4>6
      <4> QED
        BY <4>2, <4>5, <4>6
    <3>2. CASE response = {FALSE}
      <4>1. accepted' = accepted /\ blocks' = blocks
        BY <1>9, <3>2 DEF Submitted, Counted
      <4>2. DueShares = 0 /\ DueBlocks = 0
        BY <2>4, <3>2, OneOrNone
      <4> QED
        BY <4>1, <4>2 DEF TypeOK, WorkerTypes
    <3> QED
      BY <2>1, <3>1, <3>2 DEF TypeOK, WorkerTypes
  <2>6. DueShares' = 0 /\ DueBlocks' = 0
    BY <2>2, OneOrNone
  <2>7. /\ Cardinality(answered) \in Nat /\ Cardinality(taken) \in Nat
        /\ accepted' \in Nat /\ blocks' \in Nat
    BY <2>5, FS_CardinalityType, OneOrNone DEF CountsSound, TypeOK, WorkerTypes
  <2> QED
    BY <1>0, <2>1, <2>5, <2>6, <2>7 DEF CountsSound
<1> QED
  BY <1>3, <1>4, <1>5, <1>6, <1>7, <1>8, <1>9 DEF Main

-----------------------------------------------------------------------------
(* The extranonces.                                                        *)

(* Until they come round, each submission has a higher extranonce than     *)
(* those before, wherever it is under way.                                 *)
ExtranoncesRise ==
  ~wrapped =>
    /\ \A w \in seen : w[2] <= extranonce
    /\ pc \in {"scan", "found"} => \A w \in seen : w[2] < extranonce
    /\ pc \in {"found", "submitting"} => found.extranonce = extranonce
    /\ toPool # <<>> /\ Head(toPool).kind = "submit" =>
         /\ Head(toPool).extranonce <= extranonce
         /\ at # "closed" => \A w \in seen : w[2] < Head(toPool).extranonce
    /\ \A v, w \in seen : v[2] = w[2] => v = w

LEMMA NextRises ==
  ASSUME TypeOK, ~(NextExtranonce < extranonce)
  PROVE  NextExtranonce = extranonce + 1
<1>1. extranonce \in 0..Extranonces - 1 /\ Extranonces \in Nat \ {0, 1}
  BY MiningAssumption DEF TypeOK, WorkerTypes
<1>2. CASE extranonce + 1 < Extranonces
  BY <1>1, <1>2 DEF NextExtranonce
<1>3. CASE extranonce + 1 = Extranonces
  BY <1>1, <1>3 DEF NextExtranonce
<1> QED
  BY <1>1, <1>2, <1>3

LEMMA RiseInductive ==
  ASSUME TypeOK, EndsAgree, OneRequest, ExtranoncesRise, [Next]_vars
  PROVE  ExtranoncesRise'
<1>0. /\ extranonce \in Nat /\ extranonce' \in Nat
      /\ seen \subseteq (1..Len(jobs)) \X (0..Extranonces - 1)
      /\ \A w \in seen : w[2] \in Nat
  <2>1. TypeOK'
    BY MiningInductive
  <2>2. extranonce \in Nat /\ extranonce' \in Nat
    BY <2>1, MiningAssumption DEF TypeOK, WorkerTypes
  <2>3. seen \subseteq (1..Len(jobs)) \X (0..Extranonces - 1)
    BY DEF TypeOK, PoolTypes
  <2>4. \A w \in seen : w[2] \in Nat
    BY <2>3, MiningAssumption
  <2> QED
    BY <2>2, <2>3, <2>4
<1> SUFFICES ASSUME ~wrapped'
             PROVE  ExtranoncesRise'
  BY DEF ExtranoncesRise
<1>1. ASSUME UNCHANGED <<seen, extranonce, wrapped>>,
             toPool' \in {<<>>, toPool}, at' = "closed" \/ at # "closed",
             pc' \in {"scan", "found"} => pc \in {"scan", "found"},
             pc' \in {"found", "submitting"} =>
               found' = found /\ pc \in {"found", "submitting"}
      PROVE  ExtranoncesRise'
  BY <1>1 DEF ExtranoncesRise
<1>2. CASE Lose \/ TipMoves \/ Refresh \/ Read \/ ReadEnds \/ UNCHANGED vars
  BY <1>1, <1>2 DEF Lose, TipMoves, Refresh, Read, ReadEnds, vars, EndsAgree
<1>3. CASE HandleSubscribe \/ HandleAuthorize
  <2>1. toPool' = <<>>
    BY <1>3, TakenRequest DEF HandleSubscribe, HandleAuthorize
  <2> QED
    BY <1>1, <1>3, <2>1 DEF HandleSubscribe, HandleAuthorize
<1>4. CASE Verify \/ SubmitBlock \/ ForceRefresh \/ HandlerFails
  <2>1. /\ UNCHANGED <<seen, mainVars, toPool>>
        /\ at' = "closed" \/ at # "closed"
    BY <1>4 DEF Verify, SubmitBlock, ForceRefresh, HandlerFails, Raise
  <2> QED
    BY <1>1, <2>1
<1>5. CASE HandleSubmit
  <2>1. PICK s : s = Head(toPool)
    OBVIOUS
  <2>2. /\ toPool # <<>> /\ s.kind = "submit" /\ at = "reading" /\ toPool' = <<>>
        /\ pc # "failed" => pc \notin {"scan", "found"}
        /\ UNCHANGED mainVars
    BY <1>5, <2>1, TakenRequest DEF HandleSubmit, Take, Waiting
  <2>3. CASE seen' = seen
    BY <1>1, <1>5, <2>2, <2>3 DEF HandleSubmit, Refuse
  <2>4. CASE seen' = seen \cup {<<s.job, s.extranonce>>}
    <3>1. /\ s.extranonce <= extranonce /\ \A w \in seen : w[2] < s.extranonce
          /\ \A v, w \in seen : v[2] = w[2] => v = w
          /\ \A w \in seen : w[2] <= extranonce
          /\ pc \in {"found", "submitting"} => found.extranonce = extranonce
      BY <2>1, <2>2 DEF ExtranoncesRise
    <3>2. s.extranonce \in Nat
      BY <2>1, <2>2, MiningAssumption DEF TypeOK, WireTypes, Request, Submission
    <3>3. PICK w1 : w1 = <<s.job, s.extranonce>>
      OBVIOUS
    <3>4. w1[2] = s.extranonce
      BY <3>3
    <3>5. \A v \in seen : v[2] # w1[2]
      BY <1>0, <3>1, <3>2, <3>4
    <3>6. seen' = seen \cup {w1}
      BY <2>4, <3>3
    <3>7. \A v, w \in seen' : v[2] = w[2] => v = w
      BY <3>1, <3>5, <3>6
    <3>8. \A w \in seen' : w[2] <= extranonce'
      BY <2>2, <3>1, <3>4, <3>6
    <3> QED
      BY <2>2, <3>1, <3>7, <3>8 DEF ExtranoncesRise
  <2> QED
    BY <1>5, <2>1, <2>3, <2>4 DEF HandleSubmit
<1>6. CASE Snapshot
  <2>1. /\ extranonce' = extranonce + 1 /\ ~wrapped /\ pc' = "scan"
        /\ UNCHANGED <<seen, toPool, at>>
    BY <1>6, NextRises DEF Snapshot
  <2>2. \A w \in seen : w[2] < extranonce' /\ w[2] <= extranonce'
    BY <1>0, <2>1 DEF ExtranoncesRise
  <2>3. toPool # <<>> /\ Head(toPool).kind = "submit" =>
          Head(toPool).extranonce \in Nat
    BY MiningAssumption DEF TypeOK, WireTypes, Request, Submission
  <2>4. toPool # <<>> /\ Head(toPool).kind = "submit" =>
          Head(toPool).extranonce <= extranonce'
    BY <1>0, <2>1, <2>3 DEF ExtranoncesRise
  <2> QED
    BY <2>1, <2>2, <2>4 DEF ExtranoncesRise
<1>7. ASSUME NEW outcome \in {"none", "share", "block"}, ScanFinds(outcome)
      PROVE  ExtranoncesRise'
  <2>1. /\ UNCHANGED <<seen, extranonce, wrapped, toPool, at>>
        /\ pc = "scan" /\ pc' \in {"loop", "found"}
        /\ pc' = "found" => found'.extranonce = extranonce
    BY <1>7 DEF ScanFinds
  <2> QED
    BY <2>1 DEF ExtranoncesRise
<1>8. CASE Submit
  <2>1. /\ UNCHANGED <<seen, extranonce, wrapped, at, found>> /\ pc = "found"
        /\ pc' \in {"submitting", "failed"}
        /\ toPool' = toPool \/ (link = "up" /\ toPool' = Append(toPool, found))
    BY <1>8 DEF Submit, Send
  <2>2. CASE toPool' = toPool
    BY <2>1, <2>2 DEF ExtranoncesRise
  <2>3. CASE link = "up" /\ toPool' = Append(toPool, found)
    <3>1. toPool' # <<>> /\ Head(toPool') = found
      BY <2>1, <2>3, NothingUnderWay, SingleRequest DEF Waiting
    <3>2. extranonce <= extranonce
      BY <1>0
    <3> QED
      BY <2>1, <3>1, <3>2 DEF ExtranoncesRise
  <2> QED
    BY <2>1, <2>2, <2>3
<1>9. CASE Subscribe \/ Authorize
  <2>1. PICK m, next :
          /\ Send(m, next) /\ m.kind # "submit" /\ next \in {"subscribing", "authorizing"}
          /\ pc \in {"subscribe", "authorize"}
          /\ UNCHANGED <<snap, extranonce, wrapped, found, accepted, blocks>>
    BY <1>9 DEF Subscribe, Authorize
  <2>2. /\ UNCHANGED <<seen, at>> /\ pc' \in {next, "failed"}
        /\ toPool' = toPool \/ (link = "up" /\ toPool' = Append(toPool, m))
    BY <2>1 DEF Send
  <2>3. CASE toPool' = toPool
    BY <1>1, <2>1, <2>2, <2>3
  <2>4. CASE link = "up" /\ toPool' = Append(toPool, m)
    <3>1. Head(toPool') = m
      BY <2>1, <2>4, NothingUnderWay, SingleRequest DEF Waiting
    <3> QED
      BY <2>1, <2>2, <3>1 DEF ExtranoncesRise
  <2> QED
    BY <2>2, <2>3, <2>4
<1>10. CASE \/ Started \/ TimeOut \/ ReaderFailed \/ DropStale \/ Submitted
            \/ Complete \/ ScanFails
  <2>1. /\ UNCHANGED <<seen, extranonce, wrapped, toPool, at>>
        /\ pc' \in {"authorize", "loop", "failed", "complete"}
    BY <1>10
    DEF Started, TimeOut, AfterTimeout, ReaderFailed, DropStale, Submitted,
        Complete, ScanFails, Stop
  <2> QED
    BY <1>1, <2>1
<1> QED
  BY <1>2, <1>3, <1>4, <1>5, <1>6, <1>7, <1>8, <1>9, <1>10
  DEF Next, Handler, Main

-----------------------------------------------------------------------------
(* Folds.  Induction over data: the smallest set of indices for which a    *)
(* fold is not what is claimed has subsets for which it is.                *)
LEMMA SubsetInduction ==
  ASSUME NEW S, IsFiniteSet(S), NEW T,
         \A s \in SUBSET S : (\A t \in SUBSET s : t # s => t \in T) => s \in T
  PROVE  SUBSET S \subseteq T
<1> DEFINE Bad == (SUBSET S) \ T
<1> SUFFICES ASSUME Bad # {}
             PROVE  FALSE
  OBVIOUS
<1>1. Bad \subseteq FiniteSubsetsOf(S)
  BY FS_FiniteSubsetsOfFinite
<1>2. IsWellFoundedOn(StrictSubsetOrdering(S), FiniteSubsetsOf(S))
  BY FS_StrictSubsetOrderingWellFounded
<1>3. PICK s \in Bad : \A t \in Bad : <<t, s>> \notin StrictSubsetOrdering(S)
  <2> HIDE DEF Bad
  <2> QED
    BY <1>1, <1>2, WFMin
<1>4. ASSUME NEW t \in SUBSET s, t # s
      PROVE  t \in T
  <2>1. <<t, s>> \in StrictSubsetOrdering(S)
    BY <1>4 DEF StrictSubsetOrdering
  <2> QED
    BY <1>3, <2>1
<1> QED
  BY <1>3, <1>4

(* The folds of the model: what a step makes of the value and an element.  *)
StepOf(fold, acc, x) ==
  IF fold = "levels" THEN NextLevel(acc, x)
  ELSE IF fold = "climb" THEN Climb(acc, x)
  ELSE Hash256(acc, x)

(* A fold, as the community modules compute it.                            *)
IsFold(g, fold, base, seq, S) ==
  g = [s \in SUBSET S |->
         IF s = {} THEN base
         ELSE StepOf(fold, g[s \ {Max(s)}], seq[Max(s)])]

FoldOn(fold, base, seq, S) == CHOOSE g : IsFold(g, fold, base, seq, S)

FoldOf(fold, base, seq) == FoldOn(fold, base, seq, DOMAIN seq)[DOMAIN seq]

LEMMA FoldLevels ==
  ASSUME NEW base, NEW seq
  PROVE  FoldLeft(NextLevel, base, seq) = FoldOf("levels", base, seq)
BY DEF FoldLeft, MapThenFoldSet, FoldOf, FoldOn, IsFold, StepOf

LEMMA FoldClimb ==
  ASSUME NEW base, NEW seq
  PROVE  FoldLeft(Climb, base, seq) = FoldOf("climb", base, seq)
BY DEF FoldLeft, MapThenFoldSet, FoldOf, FoldOn, IsFold, StepOf

LEMMA FoldHash ==
  ASSUME NEW base, NEW seq
  PROVE  FoldLeft(Hash256, base, seq) = FoldOf("hash", base, seq)
BY DEF FoldLeft, MapThenFoldSet, FoldOf, FoldOn, IsFold, StepOf

-----------------------------------------------------------------------------
LEMMA MaxIn ==
  ASSUME NEW n \in Nat, NEW s \in SUBSET (1..n), s # {}
  PROVE  Max(s) \in s /\ \A x \in s : x <= Max(s)
<1>0. PICK S : S = 1..n
  OBVIOUS
<1> DEFINE T == {t \in SUBSET S : t # {} => \E x \in t : \A y \in t : x >= y}
<1>1. ASSUME NEW t \in SUBSET S, \A u \in SUBSET t : u # t => u \in T
      PROVE  t \in T
  <2>1. CASE t = {}
    BY <2>1
  <2>2. CASE t # {}
    <3>1. PICK z \in t : TRUE
      BY <2>2
    <3>2. t \ {z} \in T
      BY <1>1, <3>1
    <3>3. CASE t \ {z} = {}
      BY <1>0, <3>1, <3>3
    <3>4. CASE t \ {z} # {}
      <4>1. PICK x \in t \ {z} : \A y \in t \ {z} : x >= y
        BY <3>2, <3>4
      <4>2. x >= z \/ z >= x
        BY <1>0, <3>1, <4>1
      <4> QED
        BY <1>0, <3>1, <4>1, <4>2
    <3> QED
      BY <3>3, <3>4
  <2> QED
    BY <2>1, <2>2
<1>2. IsFiniteSet(S)
  BY <1>0, FS_Interval
<1>3. s \in T
  <2> HIDE DEF T
  <2>1. SUBSET S \subseteq T
    BY <1>1, <1>2, SubsetInduction
  <2> QED
    BY <1>0, <2>1
<1>4. PICK x \in s : \A y \in s : x >= y
  BY <1>3
<1>5. Max(s) \in s /\ \A y \in s : Max(s) >= y
  BY <1>4 DEF Max
<1> QED
  BY <1>5

(* Sets of indices.                                                        *)
Indices(A) == \E n \in Nat : A \subseteq 1..n

LEMMA IndicesOf ==
  ASSUME NEW A, Indices(A)
  PROVE  /\ IsFiniteSet(A)
         /\ \A B \in SUBSET A : Indices(B)
         /\ A # {} => Max(A) \in A
<1>1. PICK n \in Nat : A \subseteq 1..n
  BY DEF Indices
<1>2. IsFiniteSet(1..n)
  BY FS_Interval
<1>3. IsFiniteSet(A)
  BY <1>1, <1>2, FS_Subset
<1>4. A # {} => Max(A) \in A
  BY <1>1, MaxIn
<1>5. \A B \in SUBSET A : Indices(B)
  BY <1>1 DEF Indices
<1> QED
  BY <1>3, <1>4, <1>5

LEMMA FoldsUnique ==
  ASSUME NEW fold, NEW base, NEW seq, NEW A, Indices(A), NEW B,
         NEW g, NEW h, IsFold(g, fold, base, seq, A), IsFold(h, fold, base, seq, B),
         NEW s \in SUBSET A, s \subseteq B
  PROVE  g[s] = h[s]
<1> DEFINE T == {t \in SUBSET A : t \subseteq B => g[t] = h[t]}
<1>1. ASSUME NEW t \in SUBSET A, \A u \in SUBSET t : u # t => u \in T
      PROVE  t \in T
  <2>1. CASE t = {}
    BY <2>1 DEF IsFold
  <2>2. CASE t # {} /\ t \subseteq B
    <3> DEFINE u == t \ {Max(t)}
    <3>1. u \in SUBSET t /\ u # t
      BY <2>2, IndicesOf
    <3>2. g[u] = h[u]
      BY <1>1, <2>2, <3>1
    <3>3. /\ g[t] = StepOf(fold, g[u], seq[Max(t)])
          /\ h[t] = StepOf(fold, h[u], seq[Max(t)])
      BY <2>2 DEF IsFold
    <3> QED
      BY <3>2, <3>3
  <2> QED
    BY <2>1, <2>2
<1> QED
  <2> HIDE DEF T
  <2>1. IsFiniteSet(A)
    BY IndicesOf
  <2>2. SUBSET A \subseteq T
    BY <1>1, <2>1, SubsetInduction
  <2> QED
    BY <2>2 DEF T

LEMMA FoldsExist ==
  ASSUME NEW fold, NEW base, NEW seq, NEW S, Indices(S)
  PROVE  \E g : IsFold(g, fold, base, seq, S)
<1> DEFINE F(t) == FoldOn(fold, base, seq, t)
           T == {s \in SUBSET S : \E g : IsFold(g, fold, base, seq, s)}
<1>1. ASSUME NEW s \in SUBSET S, \A t \in SUBSET s : t # s => t \in T
      PROVE  s \in T
  <2> DEFINE h == [u \in SUBSET s |->
                     IF u = {} THEN base
                     ELSE StepOf(fold, F(u \ {Max(u)})[u \ {Max(u)}], seq[Max(u)])]
  <2>1. ASSUME NEW t \in SUBSET s, t # s
        PROVE  IsFold(F(t), fold, base, seq, t)
    <3>1. \E g : IsFold(g, fold, base, seq, t)
      BY <1>1, <2>1
    <3> QED
      BY <3>1 DEF FoldOn
  <2>2. ASSUME NEW t \in SUBSET s, t # s
        PROVE  h[t] = F(t)[t]
    <3>1. CASE t = {}
      BY <2>1, <2>2, <3>1 DEF IsFold
    <3>2. CASE t # {}
      <4> DEFINE v == t \ {Max(t)}
      <4>1. v \in SUBSET t /\ v \in SUBSET s /\ v # s
        BY <2>2, <3>2, IndicesOf
      <4>2. h[t] = StepOf(fold, F(v)[v], seq[Max(t)])
        BY <3>2
      <4>3. F(t)[t] = StepOf(fold, F(t)[v], seq[Max(t)])
        BY <2>1, <2>2, <3>2 DEF IsFold
      <4>4. F(t)[v] = F(v)[v]
        <5>1. PICK a, b : a = F(t) /\ b = F(v)
          OBVIOUS
        <5>2. /\ IsFold(a, fold, base, seq, t) /\ IsFold(b, fold, base, seq, v)
              /\ Indices(t) /\ v \in SUBSET t
          BY <2>1, <2>2, <4>1, <5>1, IndicesOf
        <5> HIDE DEF v, F, h, T
        <5>3. a[v] = b[v]
          BY <5>2, FoldsUnique
        <5> QED
          BY <5>1, <5>3
      <4> QED
        BY <4>2, <4>3, <4>4
    <3> QED
      BY <3>1, <3>2
  <2>3. ASSUME NEW u \in SUBSET s, u # {}
        PROVE  h[u] = StepOf(fold, h[u \ {Max(u)}], seq[Max(u)])
    <3>1. u \ {Max(u)} \in SUBSET s /\ u \ {Max(u)} # s
      BY <2>3, IndicesOf
    <3>2. h[u] = StepOf(fold, F(u \ {Max(u)})[u \ {Max(u)}], seq[Max(u)])
      BY <2>3
    <3>3. h[u \ {Max(u)}] = F(u \ {Max(u)})[u \ {Max(u)}]
      BY <2>2, <3>1
    <3> QED
      BY <3>2, <3>3
  <2>4. h = [u \in SUBSET s |-> h[u]] /\ h[{}] = base
    OBVIOUS
  <2> HIDE DEF h
  <2>5. IsFold(h, fold, base, seq, s)
    BY <2>3, <2>4 DEF IsFold
  <2> QED
    BY <2>5
<1> QED
  <2> HIDE DEF T
  <2>1. IsFiniteSet(S)
    BY IndicesOf
  <2>2. SUBSET S \subseteq T
    BY <1>1, <2>1, SubsetInduction
  <2>3. S \in T
    BY <2>2
  <2> QED
    BY <2>3 DEF T

(* A fold goes through the sequence, element after element.                *)
Steps(g, fold, base, seq, n) ==
  /\ g[0] = base
  /\ \A k \in 1..n : g[k] = StepOf(fold, g[k - 1], seq[k])
  /\ FoldOf(fold, base, seq) = g[n]

LEMMA FoldSteps ==
  ASSUME NEW fold, NEW base, NEW seq, NEW n \in Nat, DOMAIN seq = 1..n
  PROVE  \E g : Steps(g, fold, base, seq, n)
<1>1. PICK f : IsFold(f, fold, base, seq, 1..n) /\ FoldOf(fold, base, seq) = f[1..n]
  <2>1. Indices(1..n)
    BY DEF Indices
  <2>2. \E g : IsFold(g, fold, base, seq, 1..n)
    BY <2>1, FoldsExist
  <2> QED
    BY <2>2 DEF FoldOf, FoldOn
<1> DEFINE g == [k \in 0..n |-> f[1..k]]
<1>2. g[0] = base
  <2>1. 1..0 = {}
    OBVIOUS
  <2>2. f[{}] = base
    BY <1>1 DEF IsFold
  <2> QED
    BY <2>1, <2>2
<1>3. ASSUME NEW k \in 1..n
      PROVE  g[k] = StepOf(fold, g[k - 1], seq[k])
  <2>1. 1..k \in SUBSET (1..n) /\ k \in 1..k /\ 1..k # {}
    <3>1. \A x \in 1..k : x \in 1..n
      OBVIOUS
    <3>2. k \in 1..k
      OBVIOUS
    <3> QED
      BY <3>1, <3>2
  <2>2. Max(1..k) = k
    <3>1. Max(1..k) \in 1..k /\ \A x \in 1..k : x <= Max(1..k)
      BY <2>1, MaxIn
    <3> QED
      BY <3>1
  <2>3. (1..k) \ {k} = 1..(k - 1)
    OBVIOUS
  <2>4. f[1..k] = StepOf(fold, f[(1..k) \ {Max(1..k)}], seq[Max(1..k)])
    BY <1>1, <2>1 DEF IsFold
  <2>5. f[1..k] = StepOf(fold, f[1..(k - 1)], seq[k])
    BY <2>2, <2>3, <2>4
  <2>6. g[k] = f[1..k] /\ g[k - 1] = f[1..(k - 1)]
    OBVIOUS
  <2> QED
    BY <2>5, <2>6
<1> HIDE DEF g
<1>4. g[n] = f[1..n]
  BY DEF g
<1> QED
  BY <1>1, <1>2, <1>3, <1>4 DEF Steps

LEMMA Upward ==
  ASSUME NEW n \in Nat, NEW T, 0 \in T, \A k \in 1..n : k - 1 \in T => k \in T
  PROVE  \A k \in 0..n : k \in T
<1> DEFINE Missed == {i \in 1..n : n + 1 - i \notin T}
<1> SUFFICES ASSUME NEW j \in 0..n, j \notin T
             PROVE  FALSE
  OBVIOUS
<1>1. n + 1 - j \in Missed
  BY j # 0, n + 1 - (n + 1 - j) = j
<1>2. PICK i \in Missed : \A x \in Missed : x <= i
  <2>1. Missed \in SUBSET (1..n) /\ Missed # {}
    BY <1>1
  <2> HIDE DEF Missed
  <2> QED
    BY <2>1, MaxIn
<1>3. PICK k \in 1..n : k = n + 1 - i /\ i = n + 1 - k
  BY <1>2
<1>4. k \notin T
  BY <1>2, <1>3
<1>5. k - 1 \notin T /\ k # 1
  BY <1>3, <1>4
<1>6. i + 1 \in Missed
  BY <1>3, <1>5, n + 1 - (i + 1) = k - 1
<1> QED
  BY <1>2, <1>6

-----------------------------------------------------------------------------
(* Trees.                                                                  *)
IsSeq(s) == \E S : s \in Seq(S)

LEMMA SeqParts ==
  ASSUME NEW s, IsSeq(s)
  PROVE  Len(s) \in Nat /\ DOMAIN s = 1..Len(s)
BY DEF IsSeq

LEMMA SeqAppend ==
  ASSUME NEW s, IsSeq(s), NEW x
  PROVE  /\ IsSeq(Append(s, x))
         /\ Len(Append(s, x)) = Len(s) + 1
         /\ \A i \in 1..Len(s) : Append(s, x)[i] = s[i]
         /\ Append(s, x)[Len(s) + 1] = x
<1>1. PICK S : s \in Seq(S)
  BY DEF IsSeq
<1>2. s \in Seq(S \cup {x}) /\ x \in S \cup {x}
  <2>1. \A i \in 1..Len(s) : s[i] \in S \cup {x}
    BY <1>1
  <2> QED
    BY <1>1, <2>1
<1>3. Append(s, x) \in Seq(S \cup {x})
  BY <1>2
<1> QED
  BY <1>2, <1>3 DEF IsSeq

LEMMA FunctionIsSeq ==
  ASSUME NEW n \in Nat, NEW f, f = [i \in 1..n |-> f[i]]
  PROVE  IsSeq(f) /\ Len(f) = n
<1>1. f \in Seq({f[i] : i \in 1..n}) /\ Len(f) = n
  OBVIOUS
<1> QED
  BY <1>1 DEF IsSeq

LEMMA SeqAfter ==
  ASSUME NEW s, IsSeq(s), NEW x
  PROVE  /\ IsSeq(<<x>> \o s)
         /\ Len(<<x>> \o s) = Len(s) + 1
         /\ (<<x>> \o s)[1] = x
         /\ \A i \in 1..Len(s) : (<<x>> \o s)[i + 1] = s[i]
<1>1. PICK S : s \in Seq(S)
  BY DEF IsSeq
<1>2. s \in Seq(S \cup {x}) /\ x \in S \cup {x}
  <2>1. \A i \in 1..Len(s) : s[i] \in S \cup {x}
    BY <1>1
  <2> QED
    BY <1>1, <2>1
<1>3. <<x>> \in Seq(S \cup {x})
  BY <1>2
<1>4. <<x>> \o s \in Seq(S \cup {x})
  BY <1>2, <1>3
<1> QED
  BY <1>2, <1>3, <1>4 DEF IsSeq

(* A branch, hash after hash.                                              *)
LEMMA HashSteps ==
  ASSUME NEW c, NEW b, IsSeq(b)
  PROVE  \E g : /\ g[0] = c
                /\ \A k \in 1..Len(b) : g[k] = Hash256(g[k - 1], b[k])
                /\ FromCoinbase(c, b) = g[Len(b)]
<1>1. PICK n : n = Len(b) /\ n \in Nat /\ DOMAIN b = 1..n
  BY SeqParts
<1>2. PICK g : Steps(g, "hash", c, b, n)
  BY <1>1, FoldSteps
<1>3. \A k \in 1..n : g[k] = Hash256(g[k - 1], b[k])
  BY <1>2 DEF Steps, StepOf
<1> QED
  BY <1>1, <1>2, <1>3, FoldHash DEF Steps, FromCoinbase

(* One more hash of a branch.                                              *)
LEMMA FromCoinbaseLonger ==
  ASSUME NEW c, NEW b, IsSeq(b), NEW x
  PROVE  FromCoinbase(c, Append(b, x)) = Hash256(FromCoinbase(c, b), x)
<1>1. PICK n, a : n = Len(b) /\ a = Append(b, x)
  OBVIOUS
<1>2. n \in Nat /\ IsSeq(a) /\ Len(a) = n + 1
  BY <1>1, SeqParts, SeqAppend
<1>3. (\A i \in 1..n : a[i] = b[i]) /\ a[n + 1] = x
  BY <1>1, SeqAppend
<1>4. PICK g : /\ g[0] = c
               /\ \A k \in 1..n : g[k] = Hash256(g[k - 1], b[k])
               /\ FromCoinbase(c, b) = g[n]
  BY <1>1, HashSteps
<1>5. PICK h : /\ h[0] = c
               /\ \A k \in 1..n + 1 : h[k] = Hash256(h[k - 1], a[k])
               /\ FromCoinbase(c, a) = h[n + 1]
  BY <1>2, HashSteps
<1> DEFINE T == {k \in 0..n : g[k] = h[k]}
<1>6. 0 \in T
  BY <1>2, <1>4, <1>5
<1>7. ASSUME NEW k \in 1..n, k - 1 \in T
      PROVE  k \in T
  <2>1. g[k] = Hash256(g[k - 1], b[k])
    BY <1>4
  <2>2. h[k] = Hash256(h[k - 1], a[k])
    BY <1>2, <1>5
  <2>3. a[k] = b[k]
    BY <1>3
  <2> QED
    BY <1>2, <1>7, <2>1, <2>2, <2>3
<1>8. g[n] = h[n]
  <2> HIDE DEF T
  <2>1. \A k \in 0..n : k \in T
    BY <1>2, <1>6, <1>7, Upward
  <2> QED
    BY <1>2, <2>1 DEF T
<1>9. h[n + 1] = Hash256(h[n], x)
  BY <1>2, <1>3, <1>5
<1> QED
  BY <1>1, <1>4, <1>5, <1>8, <1>9

(* A hash tells what was hashed.                                           *)
LEMMA FromCoinbaseTells ==
  ASSUME NEW c, NEW d, NEW b, IsSeq(b), FromCoinbase(c, b) = FromCoinbase(d, b)
  PROVE  c = d
<1>1. PICK n : n = Len(b) /\ n \in Nat
  BY SeqParts
<1>2. PICK g : /\ g[0] = c
               /\ \A k \in 1..n : g[k] = Hash256(g[k - 1], b[k])
               /\ FromCoinbase(c, b) = g[n]
  BY <1>1, HashSteps
<1>3. PICK h : /\ h[0] = d
               /\ \A k \in 1..n : h[k] = Hash256(h[k - 1], b[k])
               /\ FromCoinbase(d, b) = h[n]
  BY <1>1, HashSteps
<1> DEFINE T == {k \in 0..n : g[n - k] = h[n - k]}
<1>4. 0 \in T
  <2>1. n - 0 = n /\ 0 \in 0..n
    BY <1>1
  <2>2. g[n] = h[n]
    BY <1>2, <1>3
  <2> QED
    BY <2>1, <2>2
<1>5. ASSUME NEW k \in 1..n, k - 1 \in T
      PROVE  k \in T
  <2>1. PICK m \in 1..n : m = n - (k - 1) /\ m - 1 = n - k
    BY <1>1
  <2>2. g[m] = h[m]
    BY <1>5, <2>1
  <2>3. g[m] = <<g[m - 1], b[m]>> /\ h[m] = <<h[m - 1], b[m]>>
    BY <1>2, <1>3 DEF Hash256
  <2>4. g[m - 1] = g[m][1] /\ h[m - 1] = h[m][1]
    BY <2>3
  <2> QED
    BY <1>1, <2>1, <2>2, <2>4
<1>6. n \in T
  <2> HIDE DEF T
  <2>1. \A k \in 0..n : k \in T
    BY <1>1, <1>4, <1>5, Upward
  <2> QED
    BY <1>1, <2>1
<1> QED
  BY <1>1, <1>2, <1>3, <1>6

(* A level of which no hash is left over.                                  *)
LEMMA PaddedLevel ==
  ASSUME NEW s, IsSeq(s), Len(s) >= 1
  PROVE  /\ IsSeq(Padded(s))
         /\ \A i \in 1..Len(s) : Padded(s)[i] = s[i]
         /\ \/ Len(s) % 2 = 1 /\ Len(Padded(s)) = Len(s) + 1
               /\ Padded(s)[Len(s) + 1] = s[Len(s)]
            \/ Len(s) % 2 = 0 /\ Len(Padded(s)) = Len(s)
<1>1. Len(s) \in Nat
  BY SeqParts
<1>2. CASE Len(s) % 2 = 1
  <2>1. Padded(s) = Append(s, s[Len(s)])
    BY <1>2 DEF Padded
  <2> QED
    BY <1>2, <2>1, SeqAppend
<1>3. CASE Len(s) % 2 # 1
  BY <1>1, <1>3 DEF Padded
<1> QED
  BY <1>2, <1>3

LEMMA PairedLevel ==
  ASSUME NEW s, IsSeq(s), NEW m \in Nat, Len(s) = 2 * m
  PROVE  /\ IsSeq(Paired(s))
         /\ Len(Paired(s)) = m
         /\ \A i \in 1..m : Paired(s)[i] = Hash256(s[2 * i - 1], s[2 * i])
<1>1. Len(s) \div 2 = m
  OBVIOUS
<1>2. Paired(s) = [i \in 1..m |-> Hash256(s[2 * i - 1], s[2 * i])]
  BY <1>1 DEF Paired
<1>3. Paired(s) = [i \in 1..m |-> Paired(s)[i]]
  BY <1>2
<1>4. IsSeq(Paired(s)) /\ Len(Paired(s)) = m
  BY <1>3, FunctionIsSeq
<1> QED
  BY <1>2, <1>4

LEMMA LevelRest ==
  ASSUME NEW s, IsSeq(s), NEW m \in Nat, m >= 1, Len(s) = 2 * m
  PROVE  /\ IsSeq(SubSeq(s, 3, Len(s)))
         /\ Len(SubSeq(s, 3, Len(s))) = 2 * (m - 1)
         /\ \A i \in 1..2 * (m - 1) : SubSeq(s, 3, Len(s))[i] = s[i + 2]
<1>1. PICK S : s \in Seq(S)
  BY DEF IsSeq
<1>2. SubSeq(s, 3, 2 * m) = [i \in 1..2 * (m - 1) |-> s[i + 2]]
  BY <1>1
<1>3. PICK f : f = SubSeq(s, 3, Len(s))
  OBVIOUS
<1>4. f = [i \in 1..2 * (m - 1) |-> f[i]] /\ 2 * (m - 1) \in Nat
  BY <1>2, <1>3
<1>5. IsSeq(f) /\ Len(f) = 2 * (m - 1)
  BY <1>4, FunctionIsSeq
<1> QED
  BY <1>2, <1>3, <1>5

(* The pool's tree and the node's differ in the hashes the coinbase leads  *)
(* to, the first of each level, which the branch gives.                    *)
Alike(c, level, tree) ==
  /\ IsSeq(level) /\ IsSeq(tree.level) /\ IsSeq(tree.branch)
  /\ Len(level) >= 1 /\ Len(tree.level) = Len(level)
  /\ level[1] = FromCoinbase(c, tree.branch)
  /\ \A i \in 2..Len(level) : level[i] = tree.level[i]

LEMMA AlikeAbove ==
  ASSUME NEW c, NEW level, NEW tree, Alike(c, level, tree), NEW n
  PROVE  Alike(c, NextLevel(level, n), Climb(tree, n))
<1>1. CASE Len(level) = 1
  BY <1>1 DEF Alike, NextLevel, Climb
<1>2. CASE Len(level) # 1
  <2> DEFINE l == Len(level)
  <2>1. l \in Nat /\ l >= 2
    BY <1>2, SeqParts DEF Alike
  <2>2. PICK p, q : p = Padded(level) /\ q = Padded(tree.level)
    OBVIOUS
  <2>3. /\ IsSeq(p) /\ IsSeq(q) /\ Len(q) = Len(p)
        /\ Len(p) = l \/ Len(p) = l + 1
        /\ Len(p) % 2 = 0
        /\ p[1] = level[1]
        /\ \A i \in 2..Len(p) : p[i] = q[i]
    <3>1. /\ IsSeq(p)
          /\ \A i \in 1..l : p[i] = level[i]
          /\ \/ l % 2 = 1 /\ Len(p) = l + 1 /\ p[l + 1] = level[l]
             \/ l % 2 = 0 /\ Len(p) = l
      BY <2>1, <2>2, PaddedLevel DEF Alike
    <3>2. /\ IsSeq(q)
          /\ \A i \in 1..l : q[i] = tree.level[i]
          /\ \/ l % 2 = 1 /\ Len(q) = l + 1 /\ q[l + 1] = tree.level[l]
             \/ l % 2 = 0 /\ Len(q) = l
      BY <2>1, <2>2, PaddedLevel DEF Alike
    <3>3. \A i \in 2..l : level[i] = tree.level[i]
      BY DEF Alike
    <3> HIDE DEF l
    <3> QED
      BY <2>1, <3>1, <3>2, <3>3
  <2>4. PICK m \in Nat : Len(p) = 2 * m /\ m >= 1
    <3> HIDE DEF l
    <3>1. Len(p) \in Nat /\ Len(p) >= 2 /\ Len(p) % 2 = 0
      BY <2>1, <2>3
    <3>2. Len(p) = 2 * (Len(p) \div 2) /\ Len(p) \div 2 \in Nat /\ Len(p) \div 2 >= 1
      BY <3>1
    <3> QED
      BY <3>2
  <2> HIDE DEF l
  <2>5. NextLevel(level, n) = Paired(p)
    BY <1>2, <2>2 DEF NextLevel
  <2>6. PICK rest : rest = SubSeq(q, 3, Len(q))
    OBVIOUS
  <2>7. Climb(tree, n) = [level |-> <<None>> \o Paired(rest),
                          branch |-> Append(tree.branch, q[2])]
    BY <1>2, <2>2, <2>6 DEF Climb, Alike
  <2>8. /\ IsSeq(Paired(p)) /\ Len(Paired(p)) = m
        /\ \A i \in 1..m : Paired(p)[i] = Hash256(p[2 * i - 1], p[2 * i])
    BY <2>3, <2>4, PairedLevel
  <2>9. /\ IsSeq(rest) /\ Len(rest) = 2 * (m - 1)
        /\ \A i \in 1..2 * (m - 1) : rest[i] = q[i + 2]
    BY <2>3, <2>4, <2>6, LevelRest
  <2>10. PICK pairs : pairs = Paired(rest)
    OBVIOUS
  <2>11. /\ IsSeq(pairs) /\ Len(pairs) = m - 1
         /\ \A i \in 1..m - 1 : pairs[i] = Hash256(rest[2 * i - 1], rest[2 * i])
    <3>1. m - 1 \in Nat
      BY <2>4
    <3> QED
      BY <2>9, <2>10, <3>1, PairedLevel
  <2>12. PICK above : above = <<None>> \o pairs
    OBVIOUS
  <2>13. /\ IsSeq(above) /\ Len(above) = m
         /\ \A i \in 1..m - 1 : above[i + 1] = pairs[i]
    <3>1. /\ IsSeq(above) /\ Len(above) = Len(pairs) + 1
          /\ \A i \in 1..Len(pairs) : above[i + 1] = pairs[i]
      BY <2>11, <2>12, SeqAfter
    <3> QED
      BY <2>4, <2>11, <3>1
  <2>14. ASSUME NEW i \in 2..m
         PROVE  Paired(p)[i] = above[i]
    <3>1. PICK j \in 1..m - 1 : i = j + 1
      BY <2>4
    <3>2. above[i] = Hash256(rest[2 * j - 1], rest[2 * j])
      BY <2>11, <2>13, <3>1
    <3>3. rest[2 * j - 1] = q[2 * j + 1] /\ rest[2 * j] = q[2 * j + 2]
      BY <2>4, <2>9, <3>1
    <3>4. p[2 * j + 1] = q[2 * j + 1] /\ p[2 * j + 2] = q[2 * j + 2]
      BY <2>3, <2>4, <3>1
    <3>5. Paired(p)[i] = Hash256(p[2 * j + 1], p[2 * j + 2])
      BY <2>4, <2>8, <3>1, 2 * i - 1 = 2 * j + 1, 2 * i = 2 * j + 2
    <3> QED
      BY <3>2, <3>3, <3>4, <3>5
  <2>15. Paired(p)[1] = FromCoinbase(c, Append(tree.branch, q[2]))
    <3>1. Paired(p)[1] = Hash256(p[1], p[2])
      BY <2>4, <2>8
    <3>2. p[1] = FromCoinbase(c, tree.branch) /\ p[2] = q[2]
      BY <2>3, <2>4 DEF Alike
    <3>3. FromCoinbase(c, Append(tree.branch, q[2]))
            = Hash256(FromCoinbase(c, tree.branch), q[2])
      BY FromCoinbaseLonger DEF Alike
    <3> QED
      BY <3>1, <3>2, <3>3
  <2>16. IsSeq(Append(tree.branch, q[2]))
    BY SeqAppend DEF Alike
  <2> QED
    BY <2>4, <2>5, <2>7, <2>8, <2>10, <2>12, <2>13, <2>14, <2>15, <2>16
    DEF Alike
<1> QED
  BY <1>1, <1>2

(* A branch is a sequence, and the root it gives the node's: of any        *)
(* coinbase and any other transactions (merkle_branch_for_coinbase in      *)
(* crakpool.py, merkle_root_internal in crakminer-native.py).              *)
THEOREM BranchLeadsToRoot ==
  ASSUME NEW c, NEW others, IsSeq(others)
  PROVE  /\ IsSeq(MerkleBranch(<<None>> \o others))
         /\ FromCoinbase(c, MerkleBranch(<<None>> \o others))
              = MerkleRoot(<<c>> \o others)
<1> DEFINE bottom == <<c>> \o others
           start == [level |-> <<None>> \o others, branch |-> <<>>]
<1>1. PICK n \in Nat : n = Len(others) + 1
  BY SeqParts
<1>2. /\ IsSeq(bottom) /\ Len(bottom) = n /\ bottom[1] = c
      /\ \A i \in 1..Len(others) : bottom[i + 1] = others[i]
  BY <1>1, SeqAfter
<1>3. /\ IsSeq(start.level) /\ Len(start.level) = n
      /\ \A i \in 1..Len(others) : start.level[i + 1] = others[i]
  BY <1>1, SeqAfter
<1>4. IsSeq(start.branch) /\ FromCoinbase(c, start.branch) = c
  <2>1. IsSeq(<<>>) /\ Len(<<>>) = 0
    BY <<>> \in Seq({}) DEF IsSeq
  <2>2. FromCoinbase(c, <<>>) = c
    BY <2>1, HashSteps
  <2> QED
    BY <2>1, <2>2
<1>5. Alike(c, bottom, start)
  <2>1. ASSUME NEW i \in 2..n
        PROVE  bottom[i] = start.level[i]
    <3>1. PICK j \in 1..Len(others) : i = j + 1
      BY <1>1, SeqParts
    <3> QED
      BY <1>2, <1>3, <3>1
  <2>2. n >= 1
    BY <1>1, SeqParts
  <2> HIDE DEF bottom, start
  <2> QED
    BY <1>2, <1>3, <1>4, <2>1, <2>2 DEF Alike
<1>6. Rounds(bottom) = [i \in 1..n |-> i] /\ Rounds(start.level) = [i \in 1..n |-> i]
  BY <1>2, <1>3 DEF Rounds
<1>7. /\ MerkleRoot(bottom) = Head(FoldOf("levels", bottom, [i \in 1..n |-> i]))
      /\ MerkleBranch(start.level)
           = FoldOf("climb", start, [i \in 1..n |-> i]).branch
  BY <1>6, FoldLevels, FoldClimb DEF MerkleRoot, MerkleBranch
<1>8. PICK rounds : rounds = [i \in 1..n |-> i]
  OBVIOUS
<1>9. DOMAIN rounds = 1..n
  BY <1>8
<1> HIDE DEF bottom, start
<1>10. PICK g : Steps(g, "levels", bottom, rounds, n)
  BY <1>9, FoldSteps
<1>11. PICK h : Steps(h, "climb", start, rounds, n)
  BY <1>9, FoldSteps
<1> DEFINE T == {k \in 0..n : Alike(c, g[k], h[k])}
<1>12. 0 \in T
  BY <1>5, <1>10, <1>11 DEF Steps
<1>13. ASSUME NEW k \in 1..n, k - 1 \in T
       PROVE  k \in T
  <2>1. Alike(c, g[k - 1], h[k - 1])
    BY <1>13
  <2>2. /\ g[k] = NextLevel(g[k - 1], rounds[k])
        /\ h[k] = Climb(h[k - 1], rounds[k])
    BY <1>10, <1>11 DEF Steps, StepOf
  <2>3. Alike(c, g[k], h[k])
    BY <2>1, <2>2, AlikeAbove
  <2> QED
    BY <2>3
<1>14. Alike(c, g[n], h[n])
  <2>1. \A k \in 0..n : k \in T
    <3> HIDE DEF T
    <3> QED
      BY <1>12, <1>13, Upward
  <2> QED
    BY <2>1
<1>15. MerkleRoot(bottom) = g[n][1] /\ MerkleBranch(start.level) = h[n].branch
  <2>1. Head(g[n]) = g[n][1]
    BY <1>14 DEF Alike, IsSeq
  <2> QED
    BY <1>7, <1>8, <1>10, <1>11, <2>1 DEF Steps
<1>16. start.level = <<None>> \o others
  BY DEF start
<1> QED
  BY <1>14, <1>15, <1>16 DEF Alike, bottom

LEMMA TransactionsSeq ==
  ASSUME NEW t \in Nat
  PROVE  IsSeq(Transactions(t))
<1>1. PICK n \in Nat : n = 2 * t + 2
  OBVIOUS
<1>2. PICK f : f = Transactions(t)
  OBVIOUS
<1>3. f = [i \in 1..n |-> f[i]]
  BY <1>1, <1>2 DEF Transactions
<1> QED
  BY <1>2, <1>3, FunctionIsSeq

(* The branches of the pool's jobs lead to the roots a node finds          *)
(* (merkle_branch_for_coinbase and merkle_from_coinbase in crakpool.py).   *)
THEOREM TreesAlwaysAgree == TreesAgree
<1> SUFFICES ASSUME NEW t \in 0..MaxTip, NEW e \in 0..Extranonces - 1
             PROVE  FromCoinbase(Coinbase(t, e), Branches[t])
                      = MerkleRoot(<<Coinbase(t, e)>> \o Transactions(t))
  BY DEF TreesAgree
<1>1. Branches[t] = MerkleBranch(<<None>> \o Transactions(t))
  BY DEF Branches
<1> QED
  BY <1>1, TransactionsSeq, BranchLeadsToRoot, MiningAssumption

(* No two extranonces of the worker give one root (coinbase and header in  *)
(* crakminer-stratum.py).                                                  *)
THEOREM RootsAlwaysTell == RootsTell
<1> SUFFICES ASSUME NEW t \in 0..MaxTip, NEW e \in 0..Extranonces - 1,
                    NEW f \in 0..Extranonces - 1,
                    FromCoinbase(Coinbase(t, e), Branches[t])
                      = FromCoinbase(Coinbase(t, f), Branches[t])
             PROVE  e = f
  BY DEF RootsTell
<1>1. Branches[t] = MerkleBranch(<<None>> \o Transactions(t))
  BY DEF Branches
<1>2. IsSeq(Branches[t])
  BY <1>1, TransactionsSeq, BranchLeadsToRoot, MiningAssumption
<1>3. Coinbase(t, e) = Coinbase(t, f)
  BY <1>2, FromCoinbaseTells
<1>4. Coinbase(t, e)[3] = e /\ Coinbase(t, f)[3] = f
  BY DEF Coinbase
<1> QED
  BY <1>3, <1>4

-----------------------------------------------------------------------------
(* What the pool refuses.                                                  *)

(* The node finds the root that the pool's header has.                     *)
LEMMA GoodBlock ==
  ASSUME TypeOK, at = "submitting", OnTip
  PROVE  Takes
<1>1. Submission(share) /\ tip \in 0..MaxTip
  BY DEF TypeOK, PoolTypes
<1>2. jobs[share.job] = tip /\ share.extranonce \in 0..Extranonces - 1
  BY <1>1 DEF OnTip, PoolHeader, WorkerHeader, Submission
<1>3. PoolHeader(share).root
        = FromCoinbase(Coinbase(tip, share.extranonce), Branches[tip])
  BY <1>2 DEF PoolHeader, WorkerHeader
<1> QED
  BY <1>1, <1>2, <1>3, TreesAlwaysAgree DEF TreesAgree, Takes

LEMMA RefusedInductive ==
  ASSUME TypeOK, ExtranoncesRise, wrapped \/ refused = {}, [Next]_vars
  PROVE  wrapped' \/ refused' = {}
<1>1. CASE HandleSubmit
  <2>1. PICK s : s = Head(toPool)
    OBVIOUS
  <2>2. toPool # <<>> /\ s.kind = "submit" /\ at = "reading" /\ wrapped' = wrapped
    BY <1>1, <2>1 DEF HandleSubmit, Take
  <2>3. CASE wrapped
    BY <2>2, <2>3
  <2>4. CASE ~wrapped
    <3>1. \A w \in seen : w[2] < s.extranonce
      BY <2>1, <2>2, <2>4 DEF ExtranoncesRise
    <3>2. s.extranonce \in Nat
      BY <2>1, <2>2, MiningAssumption DEF TypeOK, WireTypes, Request, Submission
    <3>3. <<s.job, s.extranonce>> \notin seen
      <4>1. PICK w : w = <<s.job, s.extranonce>>
        OBVIOUS
      <4>2. w[2] = s.extranonce
        BY <4>1
      <4> QED
        BY <3>1, <3>2, <4>1, <4>2
    <3>4. refused' = refused \/ refused' = refused \cup ({"stale"} \ {"stale"})
      BY <1>1, <2>1, <3>3 DEF HandleSubmit, Refuse
    <3> QED
      BY <2>4, <3>4
  <2> QED
    BY <2>3, <2>4
<1>2. CASE Verify
  <2>1. Submission(share) /\ wrapped' = wrapped
    BY <1>2 DEF Verify, TypeOK, PoolTypes
  <2>2. ScannerAccepts
    BY <2>1 DEF ScannerAccepts, PoolHeader, Submission
  <2> QED
    BY <1>2, <2>1, <2>2 DEF Verify
<1>3. CASE SubmitBlock
  <2>1. at = "submitting" /\ wrapped' = wrapped
    BY <1>3 DEF SubmitBlock
  <2>2. ~Takes => ~OnTip
    BY <2>1, GoodBlock
  <2>3. refused' = refused \/ refused' = refused \cup ({"stale"} \ {"stale"})
    BY <1>3, <2>2 DEF SubmitBlock, Refuse
  <2> QED
    BY <2>1, <2>3
<1>4. CASE Snapshot
  BY <1>4 DEF Snapshot
<1>5. ASSUME \/ Lose \/ TipMoves \/ Refresh \/ HandleSubscribe \/ HandleAuthorize
             \/ ForceRefresh \/ HandlerFails \/ Read \/ ReadEnds \/ ScanFails
             \/ (Main /\ ~Snapshot) \/ UNCHANGED vars
      PROVE  UNCHANGED <<wrapped, refused>>
  BY <1>5
  DEF Lose, TipMoves, Refresh, HandleSubscribe, HandleAuthorize, ForceRefresh,
      HandlerFails, Read, ReadEnds, ScanFails, Main, Subscribe, Authorize, Send,
      Started, TimeOut, ReaderFailed, DropStale, Submit, Submitted, Complete,
      ScanFinds, Stop, vars
<1> QED
  BY <1>1, <1>2, <1>3, <1>4, <1>5 DEF Next, Handler

-----------------------------------------------------------------------------
(* The theorems.                                                           *)

LEMMA StartSound == Init => HandledOnce /\ CountsSound /\ ExtranoncesRise
<1> SUFFICES ASSUME Init
             PROVE  HandledOnce /\ CountsSound /\ ExtranoncesRise
  OBVIOUS
<1>1. HandledOnce
  BY DEF Init, HandledOnce, Handling
<1>2. CountsSound
  <2>1. ~Due
    BY DEF Init, Due
  <2>2. /\ answered = {} /\ taken = {} /\ accepted = 0 /\ blocks = 0
        /\ DueShares = 0 /\ DueBlocks = 0
    BY <2>1, OneOrNone DEF Init
  <2> QED
    BY <2>2, FS_EmptySet DEF CountsSound
<1>3. ExtranoncesRise
  BY DEF Init, ExtranoncesRise
<1> QED
  BY <1>1, <1>2, <1>3

LEMMA CountsInductive ==
  ASSUME TypeOK, EndsAgree, OneRequest, HandledOnce, CountsSound, [Next]_vars
  PROVE  CountsSound'
BY CountsHandled, CountsTravel, CountsAsked DEF Next

(* The worker's counters agree with the pool and the node, whatever is     *)
(* lost and however the two threads and the handler interleave: --shares   *)
(* and --blocks stop it where they should (Stratum.accepted and blocks in  *)
(* crakminer-stratum.py, accepted_shares and the node's chain).            *)
THEOREM CountsAlwaysAgree == Spec => []CountsAgree
<1> DEFINE Inv == TypeOK /\ EndsAgree /\ OneRequest /\ HandledOnce /\ CountsSound
<1>1. Init => Inv
  BY MiningInit, StartSound
<1>2. Inv /\ [Next]_vars => Inv'
  BY MiningInductive, HandledInductive, CountsInductive
<1>3. Inv => CountsAgree
  <2> SUFFICES ASSUME Inv
               PROVE  CountsAgree
    OBVIOUS
  <2>1. /\ Cardinality(answered) \in Nat /\ Cardinality(taken) \in Nat
        /\ accepted \in Nat /\ blocks \in Nat
    BY FS_CardinalityType DEF CountsSound, TypeOK, WorkerTypes
  <2>2. accepted <= Cardinality(answered) /\ blocks <= Cardinality(taken)
    BY <2>1, OneOrNone DEF CountsSound
  <2>3. ASSUME pc = "loop", link = "up"
        PROVE  accepted = Cardinality(answered) /\ blocks = Cardinality(taken)
    <3>1. DueShares = 0 /\ DueBlocks = 0
      BY <2>3, OneOrNone DEF Due
    <3> QED
      BY <2>1, <2>3, <3>1 DEF CountsSound
  <2> QED
    BY <2>2, <2>3 DEF CountsAgree
<1> HIDE DEF Inv
<1> QED
  BY <1>1, <1>2, <1>3, PTL DEF Spec

LEMMA JobTips ==
  ASSUME TypeOK, NEW j \in 1..Len(jobs)
  PROVE  jobs[j] \in 0..MaxTip
BY ElementOfSeq DEF TypeOK, PoolTypes

(* No work is credited twice, however often a refresh gives the same       *)
(* template a new job id: seen keeps job ids and extranonces apart, and    *)
(* the worker's extranonces do not repeat (Session.seen in crakpool.py).   *)
THEOREM WorkCreditedOnce == Spec => []WorkOnce
<1> DEFINE Inv == TypeOK /\ EndsAgree /\ OneRequest /\ HandledOnce /\ ExtranoncesRise
<1>1. Init => Inv
  BY MiningInit, StartSound
<1>2. Inv /\ [Next]_vars => Inv'
  BY MiningInductive, HandledInductive, RiseInductive
<1>3. Inv => WorkOnce
  <2> SUFFICES ASSUME Inv, ~wrapped, NEW s \in credited, NEW t \in credited,
                      s.header = t.header
               PROVE  s = t
    BY DEF WorkOnce
  <2>1. Submission(s) /\ Submission(t)
    BY DEF TypeOK, PoolTypes
  <2>2. /\ jobs[s.job] = jobs[t.job] /\ jobs[s.job] \in 0..MaxTip
        /\ FromCoinbase(Coinbase(jobs[s.job], s.extranonce), Branches[jobs[s.job]])
             = FromCoinbase(Coinbase(jobs[s.job], t.extranonce), Branches[jobs[s.job]])
    <3>1. WorkerHeader(s.job, s.extranonce) = WorkerHeader(t.job, t.extranonce)
      BY <2>1 DEF Submission
    <3>2. jobs[s.job] \in 0..MaxTip
      BY <2>1, JobTips DEF Submission
    <3> QED
      BY <3>1, <3>2 DEF WorkerHeader
  <2>3. s.extranonce = t.extranonce
    BY <2>1, <2>2, RootsAlwaysTell DEF RootsTell, Submission
  <2>4. Work(s) = Work(t)
    <3>1. Work(s) \in seen /\ Work(t) \in seen
      BY DEF HandledOnce
    <3>2. Work(s)[2] = Work(t)[2]
      BY <2>3 DEF Work
    <3> QED
      BY <3>1, <3>2 DEF ExtranoncesRise
  <2> QED
    BY <2>4 DEF HandledOnce
<1> HIDE DEF Inv
<1> QED
  BY <1>1, <1>2, <1>3, PTL DEF Spec

(* The official worker is refused a share only for stale work: neither as  *)
(* a duplicate, nor for a hash the two compute differently, nor for a      *)
(* block the node finds wrong (the errors of handle_submit).               *)
THEOREM OnlyStaleIsRefused == Spec => []OnlyStaleRefused
<1> DEFINE Inv == TypeOK /\ EndsAgree /\ OneRequest /\ ExtranoncesRise
                    /\ (wrapped \/ refused = {})
<1>1. Init => Inv
  BY MiningInit, StartSound DEF Init
<1>2. Inv /\ [Next]_vars => Inv'
  BY MiningInductive, RiseInductive, RefusedInductive
<1>3. Inv => OnlyStaleRefused
  BY DEF OnlyStaleRefused
<1> HIDE DEF Inv
<1> QED
  BY <1>1, <1>2, <1>3, PTL DEF Spec
=============================================================================
