----------------------------- MODULE Edge_proofs -----------------------------
(***************************************************************************)
(* Proofs about Edge, for any sessions, addresses, workers, limits, rates  *)
(* and times.                                                              *)
(***************************************************************************)
EXTENDS Edge, TLAPS, FiniteSetTheorems, SequenceTheorems

LEMMA Constants ==
  /\ NoWorker \notin Workers
  /\ IsFiniteSet(Sessions)
  /\ MaxTotal \in Nat /\ MaxPerIp \in Nat
  /\ MaxFailures \in Nat \ {0} /\ FailureWindow \in Nat /\ Ban \in Nat \ {0}
  /\ Cost \in Nat \ {0}
  /\ {Rate, Burst, GlobalRate, GlobalBurst} \subseteq Nat
  /\ MaxTime \in Nat
BY EdgeAssumption DEF ValidPolicy

LEMMA RecentType ==
  ASSUME TypeOK, NEW a \in Ips PROVE Recent(a) \in Seq(Nat)
<1>1. failures[a] \in Seq(Nat) /\ Len(failures[a]) \in Nat /\ now \in Nat
  BY DEF TypeOK
<1>2. IsFiniteSet(1..Len(failures[a]))
  BY <1>1, FS_Interval
<1>3. Old(a) \in SUBSET (1..Len(failures[a]))
  BY DEF Old
<1>4. Cardinality(Old(a)) \in Nat
  BY <1>2, <1>3, FS_Subset, FS_CardinalityType
<1>5. SubSeq(failures[a], Cardinality(Old(a)) + 1, Len(failures[a])) \in Seq(Nat)
  <2>1. \A i \in Cardinality(Old(a)) + 1..Len(failures[a]) : failures[a][i] \in Nat
    BY <1>1, <1>4
  <2> QED BY <1>1, <1>4, <2>1, SubSeqProperties
<1> QED BY <1>1, <1>5, AppendProperties DEF Recent

(* A bucket never holds less than nothing, nor more than its burst.        *)
LEMMA BucketType ==
  ASSUME TypeOK, NEW b \in Bucket, NEW rate \in Nat, NEW burst \in Nat,
         b.updated <= now
  PROVE  /\ Refilled(b, rate, burst) \in Nat
         /\ Refilled(b, rate, burst) <= b.tokens + (now - b.updated) * rate
         /\ Consumed(b, rate, burst) \in Bucket
         /\ Consumed(b, rate, burst).updated = now
         /\ Consumed(b, rate, burst).tokens
              = IF Enough(b, rate, burst) THEN Refilled(b, rate, burst) - Cost
                ELSE Refilled(b, rate, burst)
<1>1. now \in Nat /\ Cost \in Nat /\ b.tokens \in Nat /\ b.updated \in Nat
  BY Constants DEF TypeOK, Bucket
<1> DEFINE more == (now - b.updated) * rate
<1>2. more \in Nat
  <2>1. now - b.updated \in Nat
    BY <1>1
  <2> QED BY <2>1
<1> HIDE DEF more
<1>3. /\ Refilled(b, rate, burst) \in Nat
      /\ Refilled(b, rate, burst) <= b.tokens + more
  BY <1>1, <1>2 DEF Refilled, more
<1>4. /\ Consumed(b, rate, burst) \in Bucket
      /\ Consumed(b, rate, burst).updated = now
      /\ Consumed(b, rate, burst).tokens
           = IF Enough(b, rate, burst) THEN Refilled(b, rate, burst) - Cost
             ELSE Refilled(b, rate, burst)
  BY <1>1, <1>3 DEF Consumed, Enough, Bucket
<1> QED BY <1>3, <1>4 DEF more

Tokens ==
  /\ globalBucket.updated <= now
  /\ Cost * relayedAll + globalBucket.tokens
       <= GlobalBurst + GlobalRate * globalBucket.updated
  /\ \A s \in Sessions :
       /\ bucket[s].updated <= now
       /\ admittedAt[s] <= bucket[s].updated
       /\ Cost * relayed[s] + bucket[s].tokens
            <= Burst + Rate * (bucket[s].updated - admittedAt[s])
       /\ pc[s] = "absent" => relayed[s] = 0

Bans ==
  \A a \in Ips : \A t \in bans[a] : t <= now /\ t + Ban <= bannedUntil[a]

Bound ==
  \A s \in Sessions :
    pc[s] # "closed" /\ poolWorker[s] # NoWorker => poolWorker[s] = worker[s]

Sound == TypeOK /\ Tokens /\ Bans /\ Bound

LEMMA InitSound == ASSUME Init PROVE Sound
<1> USE Constants DEF Init, Full
<1>1. TypeOK
  <2>1. <<>> \in Seq(Nat)
    BY EmptySeq
  <2>2. Full(Burst) \in Bucket /\ Full(GlobalBurst) \in Bucket
    BY DEF Bucket
  <2> QED BY <2>1, <2>2 DEF TypeOK, Steps
<1>2. Tokens
  BY DEF Tokens
<1> QED BY <1>1, <1>2 DEF Sound, Bans, Bound

LEMMA TypeStep == ASSUME TypeOK, Tokens, [Next]_vars PROVE TypeOK'
<1> USE Constants DEF Go, guardVars, sessionVars, bucketVars, historyVars
<1>1. CASE Tick
  BY <1>1 DEF Tick, TypeOK
<1>2. ASSUME NEW s \in Sessions, Admit(s) PROVE TypeOK'
  <2>1. Full(Burst) \in Bucket
    BY DEF Full, Bucket, TypeOK
  <2>2. /\ bucket' \in [Sessions -> Bucket]
        /\ admittedAt' \in [Sessions -> Nat]
    BY <1>2, <2>1 DEF Admit, TypeOK
  <2>3. total' \in Nat /\ perIp' \in [Ips -> Nat] /\ pc' \in [Sessions -> Steps]
    BY <1>2 DEF Admit, TypeOK, Steps
  <2> QED BY <1>2, <2>2, <2>3 DEF Admit, TypeOK
<1>3. ASSUME NEW s \in Sessions, Refuse(s) PROVE TypeOK'
  BY <1>3 DEF Refuse, TypeOK, Steps
<1>4. ASSUME NEW s \in Sessions, Leave(s) PROVE TypeOK'
  BY <1>4 DEF Leave, TypeOK
<1>5. ASSUME NEW s \in Sessions, Subscribe(s) PROVE TypeOK'
  BY <1>5 DEF Subscribe, TypeOK
<1>6. ASSUME NEW s \in Sessions, NEW written \in BOOLEAN, OpenLogged(s, written)
      PROVE  TypeOK'
  BY <1>6 DEF OpenLogged, TypeOK, Steps
<1>7. ASSUME NEW s \in Sessions, Reach(s) PROVE TypeOK'
  BY <1>7 DEF Reach, TypeOK, Steps, Directions
<1>8. ASSUME NEW s \in Sessions, ReachFails(s) PROVE TypeOK'
  BY <1>8 DEF ReachFails, Release, TypeOK, Steps
<1>9. ASSUME NEW s \in Sessions, Finish(s) PROVE TypeOK'
  <2>1. total' \in Nat /\ pc' \in [Sessions -> Steps]
    BY <1>9 DEF Finish, Release, TypeOK, Steps
  <2>2. perIp' \in [Ips -> Nat]
    BY <1>9 DEF Finish, Release, TypeOK
  <2>3. /\ tasks' \in [Sessions -> SUBSET Directions]
        /\ worker' \in [Sessions -> Workers \cup {NoWorker}]
        /\ gone' \subseteq Sessions /\ subscribed' \subseteq Sessions
    BY <1>9 DEF Finish, TypeOK
  <2> QED BY <1>9, <2>1, <2>2, <2>3 DEF Finish, TypeOK
<1>10. ASSUME NEW s \in Sessions, NEW d \in Directions, TaskEnds(s, d)
       PROVE  TypeOK'
  BY <1>10 DEF TaskEnds, TypeOK
<1>11. ASSUME NEW s \in Sessions, NEW w \in Workers, Authorize(s, w)
       PROVE  TypeOK'
  <2>1. failures' \in [Ips -> Seq(Nat)]
    <3>1. <<>> \in Seq(Nat)
      BY EmptySeq
    <3> QED BY <1>11, <3>1 DEF Authorize, Forgive, TypeOK
  <2> QED BY <1>11, <2>1 DEF Authorize, Forgive, TypeOK
<1>12. ASSUME NEW s \in Sessions, NEW w \in Workers, Fail(s, w) PROVE TypeOK'
  <2>1. ip[s] \in Ips /\ Recent(ip[s]) \in Seq(Nat) /\ <<>> \in Seq(Nat)
    BY RecentType, EmptySeq DEF TypeOK
  <2>2. failures' \in [Ips -> Seq(Nat)]
    BY <1>12, <2>1 DEF Fail, TypeOK
  <2>3. now + Ban \in Nat
    BY DEF TypeOK
  <2>4. /\ bannedUntil' \in [Ips -> Nat]
        /\ bans' \in [Ips -> SUBSET Nat]
        /\ tasks' \in [Sessions -> SUBSET Directions]
    <3>1. CASE Len(Recent(ip[s])) >= MaxFailures
      <4>1. /\ bannedUntil' = [bannedUntil EXCEPT ![ip[s]] = now + Ban]
            /\ bans' = [bans EXCEPT ![ip[s]] = @ \cup {now}]
            /\ tasks' = [tasks EXCEPT ![s] = @ \ {"up"}]
        BY <1>12, <3>1 DEF Fail
      <4>2. bannedUntil' \in [Ips -> Nat]
        BY <2>1, <2>3, <4>1 DEF TypeOK
      <4>3. bans' \in [Ips -> SUBSET Nat]
        BY <2>1, <4>1 DEF TypeOK
      <4>4. tasks' \in [Sessions -> SUBSET Directions]
        BY <4>1 DEF TypeOK
      <4> QED BY <4>2, <4>3, <4>4
    <3>2. CASE ~(Len(Recent(ip[s])) >= MaxFailures)
      BY <1>12, <3>2 DEF Fail, TypeOK
    <3> QED BY <3>1, <3>2
  <2> QED BY <1>12, <2>2, <2>4 DEF Fail, TypeOK
<1>13. ASSUME NEW s \in Sessions, NEW w \in Workers, Submit(s, w) PROVE TypeOK'
  <2>1. /\ Consumed(bucket[s], Rate, Burst) \in Bucket
        /\ Consumed(globalBucket, GlobalRate, GlobalBurst) \in Bucket
    BY BucketType DEF TypeOK, Tokens
  <2>2. bucket' \in [Sessions -> Bucket] /\ globalBucket' \in Bucket
    BY <1>13, <2>1 DEF Submit, TypeOK
  <2>3. /\ poolWorker' \in [Sessions -> Workers \cup {NoWorker}]
        /\ relayed' \in [Sessions -> Nat] /\ relayedAll' \in Nat
    <3>1. CASE /\ relayed' = [relayed EXCEPT ![s] = @ + 1]
               /\ relayedAll' = relayedAll + 1
               /\ poolWorker' = [poolWorker EXCEPT ![s] = w]
      <4>1. poolWorker' \in [Sessions -> Workers \cup {NoWorker}]
        BY <3>1 DEF TypeOK
      <4>2. relayed' \in [Sessions -> Nat] /\ relayedAll' \in Nat
        BY <3>1 DEF TypeOK
      <4> QED BY <4>1, <4>2
    <3>2. CASE UNCHANGED <<relayed, relayedAll, poolWorker>>
      BY <3>2 DEF TypeOK
    <3> QED BY <1>13, <3>1, <3>2, Zenon DEF Submit
  <2> QED BY <1>13, <2>2, <2>3 DEF Submit, TypeOK
<1>14. CASE UNCHANGED vars
  BY <1>14 DEF vars, TypeOK
<1> QED BY <1>1, <1>2, <1>3, <1>4, <1>5, <1>6, <1>7, <1>8, <1>9, <1>10, <1>11,
           <1>12, <1>13, <1>14 DEF Next, Handle

(* Each action leaves the accounts of tokens, bans and identities in order. *)
LEMMA TokensStep == ASSUME Sound, [Next]_vars PROVE Tokens'
<1> USE Constants
<1>1. TypeOK /\ Tokens /\ now \in Nat
  BY DEF Sound, TypeOK
<1>2. CASE Tick
  <2>1. now' >= now /\ UNCHANGED <<bucket, globalBucket, relayed, relayedAll,
                                   admittedAt, pc>>
    BY <1>1, <1>2 DEF Tick, sessionVars, bucketVars, historyVars
  <2>2. /\ globalBucket.updated \in Nat
        /\ \A s \in Sessions : bucket[s].updated \in Nat
    BY <1>1 DEF TypeOK, Bucket
  <2>3. now' \in Nat
    BY <1>1, <1>2 DEF Tick
  <2> QED BY <1>1, <2>1, <2>2, <2>3 DEF Tokens
<1>3. ASSUME NEW s \in Sessions, Admit(s) PROVE Tokens'
  <2>1. /\ bucket' = [bucket EXCEPT ![s] = Full(Burst)]
        /\ admittedAt' = [admittedAt EXCEPT ![s] = now]
        /\ pc[s] = "absent" /\ pc' = [pc EXCEPT ![s] = "admitted"]
        /\ UNCHANGED <<now, globalBucket, relayed, relayedAll>>
    BY <1>3 DEF Admit, Go
  <2>2. /\ Cost * relayed[s] = 0 /\ Rate * (now - now) = 0
        /\ bucket'[s].updated = now /\ bucket'[s].tokens = Burst
        /\ admittedAt'[s] = now
    BY <1>1, <2>1 DEF Tokens, Full, TypeOK
  <2>3. \A r \in Sessions \ {s} : /\ bucket'[r] = bucket[r]
                                  /\ admittedAt'[r] = admittedAt[r]
                                  /\ pc'[r] = pc[r]
    BY <1>1, <2>1 DEF TypeOK
  <2>4. pc'[s] = "admitted"
    BY <1>1, <2>1 DEF TypeOK
  <2> QED BY <1>1, <2>1, <2>2, <2>3, <2>4 DEF Tokens
<1>4. ASSUME NEW s \in Sessions, NEW w \in Workers, Submit(s, w) PROVE Tokens'
  <2> DEFINE b == bucket[s]
             g == globalBucket
             own == Enough(b, Rate, Burst)
             all == Enough(g, GlobalRate, GlobalBurst)
  <2>1. /\ bucket' = [bucket EXCEPT ![s] = Consumed(b, Rate, Burst)]
        /\ globalBucket' = IF own THEN Consumed(g, GlobalRate, GlobalBurst) ELSE g
        /\ \/ own /\ all /\ relayed' = [relayed EXCEPT ![s] = @ + 1]
              /\ relayedAll' = relayedAll + 1
           \/ UNCHANGED <<relayed, relayedAll>>
        /\ UNCHANGED <<now, pc, admittedAt>>
    BY <1>4 DEF Submit, sessionVars
  <2>2. /\ b \in Bucket /\ g \in Bucket /\ b.updated <= now /\ g.updated <= now
        /\ Cost \in Nat /\ Rate \in Nat /\ Burst \in Nat
        /\ GlobalRate \in Nat /\ GlobalBurst \in Nat
        /\ relayed[s] \in Nat /\ relayedAll \in Nat /\ admittedAt[s] \in Nat
        /\ b.updated \in Nat /\ b.tokens \in Nat
        /\ g.updated \in Nat /\ g.tokens \in Nat
    BY <1>1 DEF TypeOK, Tokens, Bucket
  <2>3. /\ Cost * relayed[s] + b.tokens <= Burst + Rate * (b.updated - admittedAt[s])
        /\ Cost * relayedAll + g.tokens <= GlobalBurst + GlobalRate * g.updated
        /\ admittedAt[s] <= b.updated
    BY <1>1 DEF Tokens
  <2>4. /\ (now - b.updated) * Rate + Rate * (b.updated - admittedAt[s])
             = Rate * (now - admittedAt[s])
        /\ (now - g.updated) * GlobalRate + GlobalRate * g.updated
             = GlobalRate * now
        /\ Cost * (relayed[s] + 1) = Cost * relayed[s] + Cost
        /\ Cost * (relayedAll + 1) = Cost * relayedAll + Cost
    BY <1>1, <2>2
  <2>5. bucket'[s] = Consumed(b, Rate, Burst)
    BY <1>1, <2>1 DEF TypeOK
  <2> HIDE DEF b, g
  <2>6. /\ bucket'[s].updated = now
        /\ Cost * relayed'[s] + bucket'[s].tokens
             <= Burst + Rate * (now - admittedAt[s])
    <3>1. /\ Refilled(b, Rate, Burst) \in Nat
          /\ Refilled(b, Rate, Burst) <= b.tokens + (now - b.updated) * Rate
          /\ Consumed(b, Rate, Burst).updated = now
          /\ Consumed(b, Rate, Burst).tokens
               = IF own THEN Refilled(b, Rate, Burst) - Cost
                 ELSE Refilled(b, Rate, Burst)
      BY <1>1, <2>2, BucketType
    <3>2. \/ own /\ relayed'[s] = relayed[s] + 1
          \/ relayed'[s] = relayed[s]
      BY <1>1, <2>1 DEF TypeOK
    <3> HIDE DEF own
    <3>3. CASE own /\ relayed'[s] = relayed[s] + 1
      BY <1>1, <2>2, <2>3, <2>4, <2>5, <3>1, <3>3
    <3>4. CASE relayed'[s] = relayed[s]
      BY <1>1, <2>2, <2>3, <2>4, <2>5, <3>1, <3>4
    <3> QED BY <3>2, <3>3, <3>4
  <2>7. /\ globalBucket'.updated <= now
        /\ Cost * relayedAll' + globalBucket'.tokens
             <= GlobalBurst + GlobalRate * globalBucket'.updated
    <3>1. /\ Refilled(g, GlobalRate, GlobalBurst) \in Nat
          /\ Refilled(g, GlobalRate, GlobalBurst)
               <= g.tokens + (now - g.updated) * GlobalRate
          /\ Consumed(g, GlobalRate, GlobalBurst).updated = now
          /\ Consumed(g, GlobalRate, GlobalBurst).tokens
               = IF all THEN Refilled(g, GlobalRate, GlobalBurst) - Cost
                 ELSE Refilled(g, GlobalRate, GlobalBurst)
      BY <1>1, <2>2, BucketType
    <3> HIDE DEF own, all
    <3>2. CASE own /\ all /\ relayedAll' = relayedAll + 1
      BY <1>1, <2>1, <2>2, <2>3, <2>4, <3>1, <3>2
    <3>3. CASE own /\ relayedAll' = relayedAll
      BY <1>1, <2>1, <2>2, <2>3, <2>4, <3>1, <3>3
    <3>4. CASE ~own
      BY <1>1, <2>1, <2>2, <2>3, <3>4
    <3> QED BY <2>1, <3>2, <3>3, <3>4
  <2>8. \A r \in Sessions \ {s} : bucket'[r] = bucket[r] /\ relayed'[r] = relayed[r]
    BY <1>1, <2>1 DEF TypeOK
  <2>9. pc[s] # "absent"
    BY <1>4 DEF Submit, Reading
  <2>10. ASSUME NEW r \in Sessions
         PROVE  /\ bucket'[r].updated <= now'
                /\ admittedAt'[r] <= bucket'[r].updated
                /\ Cost * relayed'[r] + bucket'[r].tokens
                     <= Burst + Rate * (bucket'[r].updated - admittedAt'[r])
                /\ pc'[r] = "absent" => relayed'[r] = 0
    <3>1. CASE r = s
      BY <1>1, <2>1, <2>2, <2>3, <2>6, <2>9, <3>1
    <3>2. CASE r # s
      BY <1>1, <2>1, <2>8, <3>2 DEF Tokens
    <3> QED BY <3>1, <3>2
  <2>11. UNCHANGED now
    BY <2>1
  <2> QED BY <2>7, <2>10, <2>11 DEF Tokens
<1>5. CASE /\ UNCHANGED <<now, bucketVars, relayed, relayedAll, admittedAt>>
           /\ \A s \in Sessions : pc'[s] = "absent" => pc[s] = "absent"
  BY <1>1, <1>5 DEF Tokens, bucketVars
<1>6. ASSUME NEW s \in Sessions,
             \/ Refuse(s) \/ Leave(s) \/ Subscribe(s) \/ Handle(s)
             \/ \E d \in Directions : TaskEnds(s, d)
             \/ \E w \in Workers : Authorize(s, w) \/ Fail(s, w)
      PROVE  Tokens'
  <2>1. UNCHANGED <<now, bucketVars, relayed, relayedAll, admittedAt>>
    BY <1>6 DEF Refuse, Leave, Subscribe, Handle, OpenLogged, Reach, ReachFails,
                Finish, TaskEnds, Authorize, Fail, bucketVars, historyVars
  <2>2. \A r \in Sessions : pc'[r] = "absent" => pc[r] = "absent"
    BY <1>1, <1>6 DEF Refuse, Leave, Subscribe, Handle, OpenLogged, Reach,
         ReachFails, Finish, TaskEnds, Authorize, Fail, Go, TypeOK
  <2> QED BY <1>5, <2>1, <2>2
<1>7. CASE UNCHANGED vars
  BY <1>5, <1>7 DEF vars, historyVars, sessionVars
<1> QED BY <1>2, <1>3, <1>4, <1>6, <1>7 DEF Next

LEMMA BansStep == ASSUME Sound, [Next]_vars PROVE Bans'
<1> USE Constants
<1>1. /\ TypeOK /\ Bans /\ now \in Nat /\ Ban \in Nat
      /\ bannedUntil \in [Ips -> Nat] /\ bans \in [Ips -> SUBSET Nat]
  BY DEF Sound, TypeOK
<1>2. CASE now' >= now /\ now' \in Nat /\ UNCHANGED <<bannedUntil, bans>>
  <2>1. ASSUME NEW a \in Ips, NEW t \in bans[a]
        PROVE  t <= now' /\ t + Ban <= bannedUntil[a]
    BY <1>1, <1>2, <2>1 DEF Bans
  <2> QED BY <1>2, <2>1 DEF Bans
<1>3. ASSUME NEW s \in Sessions, NEW w \in Workers, Fail(s, w) PROVE Bans'
  <2>1. CASE Len(Recent(ip[s])) >= MaxFailures
    <3>1. /\ bannedUntil' = [bannedUntil EXCEPT ![ip[s]] = now + Ban]
          /\ bans' = [bans EXCEPT ![ip[s]] = @ \cup {now}]
          /\ now' = now /\ ip[s] \in Ips
      BY <1>1, <1>3, <2>1 DEF Fail, TypeOK
    <3>2. ASSUME NEW a \in Ips, NEW t \in bans'[a]
          PROVE  t <= now /\ t + Ban <= bannedUntil'[a]
      <4>1. CASE a = ip[s]
        <5>1. bannedUntil'[a] = now + Ban /\ bans'[a] = bans[a] \cup {now}
          BY <1>1, <3>1, <4>1
        <5>2. t \in Nat /\ t <= now
          BY <1>1, <3>2, <5>1 DEF Bans
        <5> QED BY <1>1, <5>1, <5>2
      <4>2. CASE a # ip[s]
        BY <1>1, <3>1, <3>2, <4>2 DEF Bans
      <4> QED BY <4>1, <4>2
    <3> QED BY <3>1, <3>2 DEF Bans
  <2>2. CASE ~(Len(Recent(ip[s])) >= MaxFailures)
    BY <1>1, <1>2, <1>3, <2>2 DEF Fail
  <2> QED BY <2>1, <2>2
<1>4. CASE Tick
  BY <1>1, <1>2, <1>4 DEF Tick, guardVars, historyVars
<1>5. ASSUME NEW s \in Sessions,
             \/ Admit(s) \/ Refuse(s) \/ Leave(s) \/ Subscribe(s) \/ Handle(s)
             \/ \E d \in Directions : TaskEnds(s, d)
             \/ \E w \in Workers : Authorize(s, w) \/ Submit(s, w)
      PROVE  UNCHANGED <<now, bannedUntil, bans>>
  BY <1>5 DEF Admit, Refuse, Leave, Subscribe, Handle, OpenLogged, Reach,
       ReachFails, Finish, TaskEnds, Authorize, Forgive, Submit, guardVars,
       historyVars
<1>6. CASE UNCHANGED vars
  BY <1>1, <1>2, <1>6 DEF vars, guardVars, historyVars
<1>7. now <= now
  BY <1>1
<1> QED BY <1>1, <1>2, <1>3, <1>4, <1>5, <1>6, <1>7 DEF Next

LEMMA BoundStep == ASSUME Sound, [Next]_vars PROVE Bound'
<1>1. /\ TypeOK /\ Bound
      /\ pc \in [Sessions -> Steps]
      /\ worker \in [Sessions -> Workers \cup {NoWorker}]
      /\ poolWorker \in [Sessions -> Workers \cup {NoWorker}]
  BY DEF Sound, TypeOK
<1>2. CASE /\ UNCHANGED <<worker, poolWorker>>
           /\ \A s \in Sessions : pc[s] = "closed" => pc'[s] = "closed"
  BY <1>1, <1>2 DEF Bound
<1>3. ASSUME NEW s \in Sessions, Finish(s) PROVE Bound'
  BY <1>1, <1>3 DEF Bound, Finish, Go, historyVars
<1>4. ASSUME NEW s \in Sessions, NEW w \in Workers, Authorize(s, w) PROVE Bound'
  BY <1>1, <1>4 DEF Bound, Authorize
<1>5. ASSUME NEW s \in Sessions, NEW w \in Workers, Submit(s, w) PROVE Bound'
  <2>1. \/ w = worker[s] /\ poolWorker' = [poolWorker EXCEPT ![s] = w]
        \/ UNCHANGED poolWorker
    BY <1>5 DEF Submit
  <2>2. UNCHANGED <<pc, worker>>
    BY <1>5 DEF Submit, sessionVars
  <2> QED BY <1>1, <2>1, <2>2 DEF Bound
<1>6. ASSUME NEW s \in Sessions,
             \/ Admit(s) \/ Refuse(s) \/ Leave(s) \/ Subscribe(s)
             \/ \E written \in BOOLEAN : OpenLogged(s, written)
             \/ Reach(s) \/ ReachFails(s)
             \/ \E d \in Directions : TaskEnds(s, d)
             \/ \E w \in Workers : Fail(s, w)
      PROVE  Bound'
  <2>1. UNCHANGED <<worker, poolWorker>>
    BY <1>6 DEF Admit, Refuse, Leave, Subscribe, OpenLogged, Reach, ReachFails,
                TaskEnds, Fail, historyVars
  <2>2. \A r \in Sessions : pc[r] = "closed" => pc'[r] = "closed"
    BY <1>1, <1>6 DEF Admit, Refuse, Leave, Subscribe, OpenLogged, Reach,
         ReachFails, TaskEnds, Fail, Go
  <2> QED BY <1>2, <2>1, <2>2
<1>7. CASE Tick \/ UNCHANGED vars
  BY <1>2, <1>7 DEF Tick, vars, sessionVars, historyVars
<1> QED BY <1>3, <1>4, <1>5, <1>6, <1>7 DEF Next, Handle

LEMMA SoundAlways == Spec => []Sound
<1>1. Init => Sound
  BY InitSound
<1>2. Sound /\ [Next]_vars => Sound'
  BY TypeStep, TokensStep, BansStep, BoundStep DEF Sound
<1> QED BY <1>1, <1>2, PTL DEF Spec

(* The rates hold: what the pool gets is bounded by the burst and the time *)
(* that has passed, for each connection and for all of them.               *)
THEOREM RatesAlwaysHold == Spec => []RatesHold
<1>1. Sound => RatesHold
  <2> SUFFICES ASSUME Sound PROVE RatesHold
    OBVIOUS
  <2> USE Constants
  <2>1. /\ now \in Nat /\ relayedAll \in Nat
        /\ globalBucket.tokens \in Nat /\ globalBucket.updated \in Nat
        /\ GlobalRate \in Nat /\ GlobalBurst \in Nat /\ Cost \in Nat
        /\ Rate \in Nat /\ Burst \in Nat
    BY DEF Sound, TypeOK, Bucket
  <2>2. \A u, v, r \in Nat : u <= v => r * u <= r * v
    OBVIOUS
  <2>3. Cost * relayedAll <= GlobalBurst + GlobalRate * now
    <3>1. GlobalRate * globalBucket.updated <= GlobalRate * now
      BY <2>1, <2>2 DEF Sound, Tokens
    <3> QED BY <2>1, <3>1 DEF Sound, Tokens
  <2>4. ASSUME NEW s \in Sessions
        PROVE  Cost * relayed[s] <= Burst + Rate * (now - admittedAt[s])
    <3>1. /\ relayed[s] \in Nat /\ admittedAt[s] \in Nat
          /\ bucket[s].tokens \in Nat /\ bucket[s].updated \in Nat
          /\ bucket[s].updated <= now /\ admittedAt[s] <= bucket[s].updated
          /\ Cost * relayed[s] + bucket[s].tokens
               <= Burst + Rate * (bucket[s].updated - admittedAt[s])
      BY DEF Sound, TypeOK, Bucket, Tokens
    <3>2. Rate * (bucket[s].updated - admittedAt[s]) <= Rate * (now - admittedAt[s])
      <4>1. /\ bucket[s].updated - admittedAt[s] \in Nat
            /\ now - admittedAt[s] \in Nat
            /\ bucket[s].updated - admittedAt[s] <= now - admittedAt[s]
        BY <2>1, <3>1
      <4> QED BY <2>1, <2>2, <4>1
    <3> QED BY <2>1, <3>1, <3>2
  <2> QED BY <2>3, <2>4 DEF RatesHold
<1> QED BY <1>1, SoundAlways, PTL

(* A ban lasts: an address that was banned gets no new connection before   *)
(* the time of the ban has passed.                                         *)
THEOREM BansLast == Spec => BanLasts
<1>1. Sound /\ [Next]_vars
        => [\A s \in Sessions :
              pc[s] = "absent" /\ pc'[s] = "admitted"
                => \A t \in bans[ip[s]] : t + Ban <= now]_vars
  <2> SUFFICES ASSUME Sound, Next, NEW s \in Sessions, pc[s] = "absent",
                      pc'[s] = "admitted", NEW t \in bans[ip[s]]
               PROVE  t + Ban <= now
    BY DEF vars, sessionVars
  <2>1. ip[s] \in Ips /\ pc \in [Sessions -> Steps]
    BY DEF Sound, TypeOK
  <2>2. Admit(s)
    BY <2>1 DEF Next, Tick, Admit, Refuse, Leave, Subscribe, Handle, OpenLogged,
         Reach, ReachFails, Finish, TaskEnds, Authorize, Fail, Submit, Go,
         sessionVars
  <2>3. /\ now \in Nat /\ t \in Nat /\ Ban \in Nat /\ bannedUntil[ip[s]] \in Nat
        /\ t + Ban <= bannedUntil[ip[s]]
    BY <2>1, Constants DEF Sound, TypeOK, Bans
  <2>4. bannedUntil[ip[s]] <= now
    BY <2>2, <2>3 DEF Admit, Banned
  <2> QED BY <2>3, <2>4
<1> QED BY <1>1, SoundAlways, PTL DEF Spec, BanLasts

(* One connection, one worker: what is relayed on it names one worker.     *)
THEOREM OneIdentityAlways == Spec => OneIdentity
<1>1. Sound /\ Sound' /\ [Next]_vars
        => [\A s \in Sessions :
              /\ poolWorker[s] # NoWorker => poolWorker'[s] = poolWorker[s]
              /\ poolWorker'[s] # NoWorker /\ pc'[s] # "closed"
                   => poolWorker'[s] = worker'[s]]_vars
  <2> SUFFICES ASSUME Sound, Sound', Next, NEW s \in Sessions
               PROVE  /\ poolWorker[s] # NoWorker => poolWorker'[s] = poolWorker[s]
                      /\ poolWorker'[s] # NoWorker /\ pc'[s] # "closed"
                           => poolWorker'[s] = worker'[s]
    BY Zenon
  <2>1. poolWorker'[s] # NoWorker /\ pc'[s] # "closed" => poolWorker'[s] = worker'[s]
    BY DEF Sound, Bound
  <2>2. \/ UNCHANGED poolWorker
        \/ \E r \in Sessions, w \in Workers :
             /\ pc[r] = "relay" /\ worker[r] \in {NoWorker, w}
             /\ poolWorker' = [poolWorker EXCEPT ![r] = w]
    <3>1. CASE \E r \in Sessions, w \in Workers : Authorize(r, w)
      BY <3>1 DEF Authorize, Reading, MayBind
    <3>2. CASE \E r \in Sessions, w \in Workers : Submit(r, w)
      BY <3>2 DEF Submit, Reading
    <3>3. CASE \E r \in Sessions : \/ Admit(r) \/ Refuse(r) \/ Leave(r)
                                   \/ Subscribe(r) \/ Handle(r)
                                   \/ \E d \in Directions : TaskEnds(r, d)
                                   \/ \E w \in Workers : Fail(r, w)
      BY <3>3 DEF Admit, Refuse, Leave, Subscribe, Handle, OpenLogged, Reach,
           ReachFails, Finish, TaskEnds, Fail, historyVars
    <3>4. CASE Tick
      BY <3>4 DEF Tick, historyVars
    <3> QED BY <3>1, <3>2, <3>3, <3>4, Zenon DEF Next
  <2>3. /\ poolWorker \in [Sessions -> Workers \cup {NoWorker}]
        /\ pc[s] = "relay" /\ poolWorker[s] # NoWorker => poolWorker[s] = worker[s]
    BY DEF Sound, TypeOK, Bound
  <2> QED BY <2>1, <2>2, <2>3
<1> QED BY <1>1, SoundAlways, PTL DEF Spec, OneIdentity

(* The slots of the guard and the connections there are.                   *)
Counted ==
  /\ TypeOK
  /\ \A s \in leaked : pc[s] = "closed"
  /\ total = Cardinality(Slots) /\ total <= MaxTotal
  /\ \A a \in Ips : perIp[a] = Cardinality(SlotsOf(a)) /\ perIp[a] <= MaxPerIp

LEMMA SlotsFinite ==
  ASSUME TypeOK
  PROVE  IsFiniteSet(Slots) /\ \A a \in Ips : IsFiniteSet(SlotsOf(a))
<1>1. Slots \in SUBSET Sessions
  BY DEF Slots, TypeOK
<1>2. \A a \in Ips : SlotsOf(a) \in SUBSET Sessions
  BY <1>1 DEF SlotsOf
<1> QED BY <1>1, <1>2, FS_Subset, Constants

LEMMA CountedInit == ASSUME Init PROVE Counted
<1>1. TypeOK
  BY InitSound DEF Sound
<1>2. Slots = {} /\ \A a \in Ips : SlotsOf(a) = {}
  BY DEF Init, Slots, SlotsOf
<1>3. Cardinality({}) = 0 /\ MaxTotal \in Nat /\ MaxPerIp \in Nat
  BY FS_EmptySet, Constants
<1>4. total = 0 /\ leaked = {} /\ \A a \in Ips : perIp[a] = 0
  BY DEF Init
<1>5. total = Cardinality(Slots) /\ \A a \in Ips : perIp[a] = Cardinality(SlotsOf(a))
  BY <1>2, <1>3, <1>4
<1> QED BY <1>1, <1>3, <1>4, <1>5 DEF Counted

(* Nothing but the connections that come and go changes the count.         *)
LEMMA CountedSame ==
  ASSUME Counted, TypeOK', UNCHANGED <<total, perIp, ip>>, Slots' = Slots,
         \A s \in leaked' : pc'[s] = "closed"
  PROVE  Counted'
<1>1. \A a \in Ips : SlotsOf(a)' = SlotsOf(a)
  BY DEF SlotsOf
<1> QED BY <1>1 DEF Counted

LEMMA CountedAdmit ==
  ASSUME Counted, TypeOK', NEW s \in Sessions, Admit(s) PROVE Counted'
<1>1. /\ s \notin leaked /\ pc' = [pc EXCEPT ![s] = "admitted"] /\ pc[s] = "absent"
      /\ UNCHANGED <<leaked, ip>> /\ TypeOK /\ ip[s] \in Ips
      /\ total' = total + 1 /\ perIp' = [perIp EXCEPT ![ip[s]] = @ + 1]
      /\ total < MaxTotal /\ perIp[ip[s]] < MaxPerIp
  BY DEF Counted, Admit, Go, TypeOK
<1>2. /\ total \in Nat /\ perIp \in [Ips -> Nat] /\ pc \in [Sessions -> Steps]
      /\ MaxTotal \in Nat /\ MaxPerIp \in Nat /\ leaked \subseteq Sessions
  BY <1>1, Constants DEF TypeOK
<1>3. Slots' = Slots \cup {s} /\ s \notin Slots
  BY <1>1, <1>2 DEF Slots
<1>4. /\ SlotsOf(ip[s])' = SlotsOf(ip[s]) \cup {s} /\ s \notin SlotsOf(ip[s])
      /\ \A a \in Ips : a # ip[s] => SlotsOf(a)' = SlotsOf(a)
  BY <1>1, <1>3 DEF SlotsOf
<1>5. /\ total' = Cardinality(Slots') /\ total' <= MaxTotal
  <2>1. IsFiniteSet(Slots)
    BY <1>1, SlotsFinite
  <2>2. Cardinality(Slots \cup {s}) = Cardinality(Slots) + 1
    BY <1>3, <2>1, FS_AddElement
  <2> QED BY <1>1, <1>2, <1>3, <2>2 DEF Counted
<1>6. ASSUME NEW a \in Ips
      PROVE  perIp'[a] = Cardinality(SlotsOf(a)') /\ perIp'[a] <= MaxPerIp
  <2>1. CASE a = ip[s]
    <3>1. Cardinality(SlotsOf(a)') = Cardinality(SlotsOf(a)) + 1
      BY <1>1, <1>4, <2>1, SlotsFinite, FS_AddElement
    <3> QED BY <1>1, <1>2, <2>1, <3>1 DEF Counted
  <2>2. CASE a # ip[s]
    BY <1>1, <1>2, <1>4, <2>2 DEF Counted
  <2> QED BY <2>1, <2>2
<1>7. \A r \in leaked' : pc'[r] = "closed"
  BY <1>1, <1>2 DEF Counted
<1> QED BY <1>5, <1>6, <1>7 DEF Counted

LEMMA CountedRelease ==
  ASSUME Counted, TypeOK', NEW s \in Sessions, pc[s] \in {"connecting", "relay"},
         Release(s), pc' = [pc EXCEPT ![s] = "closed"], UNCHANGED <<leaked, ip>>
  PROVE  Counted'
<1>1. /\ TypeOK /\ s \notin leaked /\ ip[s] \in Ips
      /\ total \in Nat /\ perIp \in [Ips -> Nat] /\ pc \in [Sessions -> Steps]
      /\ MaxTotal \in Nat /\ MaxPerIp \in Nat /\ leaked \subseteq Sessions
  BY Constants DEF Counted, TypeOK
<1>2. Slots' = Slots \ {s} /\ s \in Slots
  BY <1>1 DEF Slots
<1>3. /\ SlotsOf(ip[s])' = SlotsOf(ip[s]) \ {s} /\ s \in SlotsOf(ip[s])
      /\ \A a \in Ips : a # ip[s] => SlotsOf(a)' = SlotsOf(a)
  BY <1>1, <1>2 DEF SlotsOf
<1>4. /\ Cardinality(Slots') = Cardinality(Slots) - 1
      /\ Cardinality(Slots) \in Nat /\ Cardinality(Slots') \in Nat
  BY <1>1, <1>2, SlotsFinite, FS_RemoveElement, FS_CardinalityType
<1>5. /\ Cardinality(SlotsOf(ip[s])') = Cardinality(SlotsOf(ip[s])) - 1
      /\ Cardinality(SlotsOf(ip[s])) \in Nat /\ Cardinality(SlotsOf(ip[s])') \in Nat
  <2>1. IsFiniteSet(SlotsOf(ip[s]))
    BY <1>1, SlotsFinite
  <2>2. /\ IsFiniteSet(SlotsOf(ip[s]) \ {s})
        /\ Cardinality(SlotsOf(ip[s]) \ {s}) = Cardinality(SlotsOf(ip[s])) - 1
    BY <1>3, <2>1, FS_RemoveElement
  <2> QED BY <1>3, <2>1, <2>2, FS_CardinalityType
<1>6. total' = Cardinality(Slots') /\ total' <= MaxTotal
  BY <1>1, <1>4 DEF Counted, Release
<1>7. ASSUME NEW a \in Ips
      PROVE  perIp'[a] = Cardinality(SlotsOf(a)') /\ perIp'[a] <= MaxPerIp
  <2>1. CASE a = ip[s]
    BY <1>1, <1>5, <2>1 DEF Counted, Release
  <2>2. CASE a # ip[s]
    BY <1>1, <1>3, <2>2 DEF Counted, Release
  <2> QED BY <2>1, <2>2
<1>8. \A r \in leaked' : pc'[r] = "closed"
  BY <1>1 DEF Counted
<1> QED BY <1>6, <1>7, <1>8 DEF Counted

LEMMA CountedStep == ASSUME Counted, TypeOK', [Next]_vars PROVE Counted'
<1>1. /\ TypeOK /\ pc \in [Sessions -> Steps] /\ leaked \subseteq Sessions
      /\ \A s \in leaked : pc[s] = "closed"
  BY DEF Counted, TypeOK
<1>2. ASSUME NEW s \in Sessions, Refuse(s) PROVE Counted'
  <2>1. UNCHANGED <<total, perIp, ip, leaked>> /\ pc[s] = "absent"
        /\ pc' = [pc EXCEPT ![s] = "closed"]
    BY <1>2 DEF Refuse, Go, guardVars, historyVars
  <2>2. Slots' = Slots
    BY <1>1, <2>1 DEF Slots
  <2> QED BY <1>1, <2>1, <2>2, CountedSame
<1>3. ASSUME NEW s \in Sessions, NEW written \in BOOLEAN, OpenLogged(s, written)
      PROVE  Counted'
  <2>1. /\ UNCHANGED <<total, perIp, ip>> /\ pc[s] = "admitted"
        /\ \/ leaked' = leaked /\ pc' = [pc EXCEPT ![s] = "connecting"]
           \/ leaked' = leaked \cup {s} /\ pc' = [pc EXCEPT ![s] = "closed"]
    BY <1>3 DEF OpenLogged, Go, guardVars
  <2>2. Slots' = Slots
    BY <1>1, <2>1 DEF Slots
  <2>3. \A r \in leaked' : pc'[r] = "closed"
    BY <1>1, <2>1
  <2> QED BY <2>1, <2>2, <2>3, CountedSame
<1>4. ASSUME NEW s \in Sessions, Reach(s) PROVE Counted'
  <2>1. UNCHANGED <<total, perIp, ip, leaked>> /\ pc[s] = "connecting"
        /\ pc' = [pc EXCEPT ![s] = "relay"]
    BY <1>4 DEF Reach, Go, guardVars, historyVars
  <2>2. Slots' = Slots
    BY <1>1, <2>1 DEF Slots
  <2> QED BY <1>1, <2>1, <2>2, CountedSame
<1>5. ASSUME NEW s \in Sessions, ReachFails(s) \/ Finish(s) PROVE Counted'
  BY <1>5, CountedRelease DEF ReachFails, Finish, Go, historyVars
<1>6. CASE UNCHANGED <<total, perIp, ip, pc, leaked>>
  BY <1>1, <1>6, CountedSame DEF Slots
<1>7. ASSUME NEW s \in Sessions,
             \/ Leave(s) \/ Subscribe(s)
             \/ \E d \in Directions : TaskEnds(s, d)
             \/ \E w \in Workers : Authorize(s, w) \/ Fail(s, w) \/ Submit(s, w)
      PROVE  UNCHANGED <<total, perIp, ip, pc, leaked>>
  BY <1>7 DEF Leave, Subscribe, TaskEnds, Authorize, Fail, Submit, guardVars,
       sessionVars, historyVars
<1>8. CASE Tick \/ UNCHANGED vars
  BY <1>6, <1>8 DEF Tick, vars, guardVars, sessionVars, historyVars
<1> QED BY <1>2, <1>3, <1>4, <1>5, <1>6, <1>7, <1>8, CountedAdmit DEF Next, Handle

(* The slots in use are the connections there are and those lost with a    *)
(* log, and never more than the limits.                                    *)
THEOREM SlotsAlwaysCounted == Spec => []SlotsCounted
<1>1. Init => Counted
  BY CountedInit
<1>2. Sound /\ Sound' /\ Counted /\ [Next]_vars => Counted'
  BY CountedStep DEF Sound
<1>3. Counted => SlotsCounted
  BY DEF Counted, SlotsCounted
<1> QED BY <1>1, <1>2, <1>3, SoundAlways, PTL DEF Spec
=============================================================================
