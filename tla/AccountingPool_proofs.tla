----------------------- MODULE AccountingPool_proofs -----------------------
(***************************************************************************)
(* Proofs about AccountingPool, for any number of sessions, workers,       *)
(* shares, blocks, failures and restarts.                                  *)
(***************************************************************************)
EXTENDS AccountingPool, TLAPS

(* Types.                                                                  *)
LEMMA NothingHeld == Nothing \in Held
  BY DEF Nothing, Held

LEMMA ShareType ==
  ASSUME TypeOK, NEW s \in Sessions
  PROVE  Share(s) \in Ids
<1>1. held[s] \in Held /\ conn[s] \in Nat
  BY DEF TypeOK
<1> QED
  BY <1>1 DEF Held, Ids, Share

(* End closes sessions and loses blocks that are known by their shares.    *)
LEMMA EndTypes ==
  ASSUME TypeOK, PoolAssumption, NEW S \in SUBSET Sessions, End(S)
  PROVE  /\ pc' \in [Sessions -> Steps]
         /\ conn' \in [Sessions -> Nat]
         /\ worker' \in [Sessions -> Workers \cup {NoWorker}]
         /\ diff' \in [Sessions -> Nat \ {0}]
         /\ seen' \in [Sessions -> SUBSET (Nat \X Keys)]
         /\ held' \in [Sessions -> Held]
         /\ lost' \subseteq Ids
<1>1. lost' \subseteq Ids
  <2>1. \A s \in Sessions : Share(s) \in Ids
    BY ShareType
  <2>2. lost \subseteq Ids
    BY DEF TypeOK
  <2> QED
    BY <2>1, <2>2 DEF End
<1>2. pc' \in [Sessions -> Steps]
  BY DEF End, TypeOK, Steps
<1>3. held' \in [Sessions -> Held]
  BY NothingHeld DEF End, TypeOK
<1>4. diff' \in [Sessions -> Nat \ {0}]
  BY DEF End, TypeOK, PoolAssumption, ValidOptions
<1> QED
  BY <1>1, <1>2, <1>3, <1>4 DEF End, TypeOK

(* MAX(end_share_id): with windows that end ever later it is the end of    *)
(* the last block.                                                         *)
LEMMA LastEndIs ==
  ASSUME TypeOK, WindowsSound
  PROVE  /\ LastEnd \in Nat
         /\ \A i \in 1..Len(blocks) : blocks[i].end <= LastEnd
         /\ LastEnd = 0 \/ \E i \in 1..Len(blocks) : blocks[i].end = LastEnd
<1> DEFINE ends == {0} \cup {blocks[i].end : i \in 1..Len(blocks)}
<1>1. Len(blocks) \in Nat /\ \A i \in 1..Len(blocks) : blocks[i].end \in Nat
  <2>1. blocks \in Seq(BlockRows)
    BY DEF TypeOK
  <2>2. \A i \in 1..Len(blocks) : blocks[i] \in BlockRows
    BY <2>1
  <2> QED
    BY <2>1, <2>2 DEF BlockRows
<1>2. \E e \in ends : \A f \in ends : f <= e
  <2>1. CASE Len(blocks) = 0
    BY <2>1
  <2>2. CASE Len(blocks) # 0
    <3>1. Len(blocks) \in 1..Len(blocks)
      BY <1>1, <2>2
    <3>2. \A i \in 1..Len(blocks) : blocks[i].end <= blocks[Len(blocks)].end
      <4>1. \A i \in 1..Len(blocks) :
              i < Len(blocks) => blocks[i].end < blocks[Len(blocks)].end
        BY <3>1 DEF WindowsSound
      <4> QED
        BY <1>1, <3>1, <4>1
    <3> QED
      BY <1>1, <3>1, <3>2
  <2> QED
    BY <2>1, <2>2
<1>3. LastEnd \in ends /\ \A f \in ends : f <= LastEnd
  BY <1>2 DEF LastEnd
<1> QED
  BY <1>1, <1>3

LEMMA FirstShareType ==
  ASSUME TypeOK, WindowsSound, PoolAssumption, NEW end \in Nat
  PROVE  FirstShare(end) \in Nat \ {0}
<1>1. LastEnd \in Nat
  BY LastEndIs
<1> QED
  BY <1>1 DEF FirstShare, PoolAssumption, ValidOptions

LEMMA TypeStep ==
  ASSUME PoolAssumption, TypeOK, SessionsSound, WindowsSound, [Next]_vars
  PROVE  TypeOK'
<1> USE DEF nodeVars, sessionVars, dbVars
<1>1. ASSUME TipMoves
      PROVE  TypeOK'
  BY <1>1 DEF TipMoves, TypeOK
<1>2. ASSUME NEW t \in 0..tip, NEW work \in 1..MaxJobs,
             RefreshTemplate(t, work)
      PROVE  TypeOK'
  <2>1. job.id \in Nat /\ work \in Nat /\ t \in Nat
    BY <1>2, PoolAssumption DEF TypeOK, PoolAssumption, ValidOptions
  <2>2. job' \in [id : Nat, tip : Nat, work : Nat]
    BY <1>2, <2>1 DEF RefreshTemplate
  <2> QED
    BY <1>2, <2>1, <2>2 DEF RefreshTemplate, TypeOK
<1>3. ASSUME Restart
      PROVE  TypeOK'
  <2>1. End(Sessions) /\ Sessions \in SUBSET Sessions
    BY <1>3 DEF Restart
  <2>2. /\ pc' \in [Sessions -> Steps]
        /\ conn' \in [Sessions -> Nat]
        /\ worker' \in [Sessions -> Workers \cup {NoWorker}]
        /\ diff' \in [Sessions -> Nat \ {0}]
        /\ seen' \in [Sessions -> SUBSET (Nat \X Keys)]
        /\ held' \in [Sessions -> Held]
        /\ lost' \subseteq Ids
    BY <2>1, EndTypes
  <2> QED
    BY <1>3, <2>2 DEF Restart, NoJob, TypeOK
<1>4. ASSUME NEW s \in Sessions, Connect(s)
      PROVE  TypeOK'
  <2>1. pc' \in [Sessions -> Steps]
    BY <1>4 DEF Connect, TypeOK, Steps
  <2>2. diff' \in [Sessions -> Nat \ {0}]
    BY <1>4, PoolAssumption DEF Connect, TypeOK, ValidOptions
  <2>3. conns' \in Nat /\ conn' \in [Sessions -> Nat]
    BY <1>4 DEF Connect, TypeOK
  <2> QED
    BY <1>4, <2>1, <2>2, <2>3 DEF Connect, TypeOK
<1>5. ASSUME NEW s \in Sessions, NEW w \in Workers, Authorize(s, w)
      PROVE  TypeOK'
  <2>1. diff[s] \in Nat \ {0} /\ saved \in [Workers -> Nat]
    BY <1>5 DEF TypeOK
  <2>2. saved' \in [Workers -> Nat]
    BY <1>5 DEF Authorize, Register, TypeOK
  <2>3. Clamped(saved'[w]) \in Nat \ {0}
    BY <1>5, PoolAssumption, <2>2 DEF Clamped, ValidOptions
  <2>4. diff' \in [Sessions -> Nat \ {0}]
    BY <1>5, <2>3 DEF Authorize, Register, TypeOK
  <2> QED
    BY <1>5, <2>1, <2>2, <2>3, <2>4 DEF Authorize, Register, TypeOK
<1>6. ASSUME NEW s \in Sessions, Close(s)
      PROVE  TypeOK'
  <2>1. End({s}) /\ {s} \in SUBSET Sessions
    BY <1>6 DEF Close
  <2>2. /\ pc' \in [Sessions -> Steps]
        /\ conn' \in [Sessions -> Nat]
        /\ worker' \in [Sessions -> Workers \cup {NoWorker}]
        /\ diff' \in [Sessions -> Nat \ {0}]
        /\ seen' \in [Sessions -> SUBSET (Nat \X Keys)]
        /\ held' \in [Sessions -> Held]
        /\ lost' \subseteq Ids
    BY <2>1, EndTypes
  <2> QED
    BY <1>6, <2>2 DEF Close, NoJob, TypeOK
<1>7. ASSUME NEW s \in Sessions, NEW k \in Keys, Submit(s, k)
      PROVE  TypeOK'
  <2>1. /\ job.id \in Nat /\ job.tip \in Nat
        /\ job.work \in Nat /\ diff[s] \in Nat
    BY <1>7 DEF TypeOK
  <2>2. seen' \in [Sessions -> SUBSET (Nat \X Keys)]
    BY <1>7, <2>1 DEF Submit, Fresh, TypeOK
  <2>3. [id |-> job.id, tip |-> job.tip, work |-> job.work, key |-> k,
         diff |-> diff[s], row |-> 0] \in Held
    BY <1>7, <2>1 DEF Held
  <2>4. held' \in [Sessions -> Held]
    BY <1>7, <2>3 DEF Submit, TypeOK
  <2>5. pc' \in [Sessions -> Steps]
    BY <1>7 DEF Submit, TypeOK, Steps
  <2> QED
    BY <1>7, <2>1, <2>2, <2>3, <2>4, <2>5 DEF Submit, Fresh, TypeOK
<1>8. ASSUME NEW s \in Sessions, NEW step \in {"share", "submit"},
             Scanned(s, step)
      PROVE  TypeOK'
  <2>1. pc' \in [Sessions -> Steps]
    BY <1>8 DEF Scanned, TypeOK, Steps
  <2> QED
    BY <1>8, <2>1 DEF Scanned, TypeOK
<1>9. ASSUME NEW s \in Sessions, NodeAccepts(s)
      PROVE  TypeOK'
  <2>1. pc' \in [Sessions -> Steps]
    BY <1>9 DEF NodeAccepts, TypeOK, Steps
  <2>2. taken' \subseteq Ids
    BY <1>9, ShareType DEF NodeAccepts, TypeOK
  <2> QED
    BY <1>9, <2>1, <2>2 DEF NodeAccepts, TypeOK
<1>10. ASSUME NEW s \in Sessions, Reject(s)
      PROVE  TypeOK'
  <2>1. pc' \in [Sessions -> Steps]
    BY <1>10 DEF Reject, TypeOK, Steps
  <2>2. held' \in [Sessions -> Held]
    BY <1>10, NothingHeld DEF Reject, TypeOK
  <2> QED
    BY <1>10, <2>1, <2>2 DEF Reject, TypeOK
<1>11. ASSUME NEW s \in Sessions, RecordShare(s)
      PROVE  TypeOK'
  <2>1. pc' \in [Sessions -> Steps]
    BY <1>11 DEF RecordShare, TypeOK, Steps
  <2>2. held[s] \in Held /\ Len(shares) + 1 \in Nat
    BY <1>11 DEF TypeOK
  <2>3. [held[s] EXCEPT !.row = Len(shares) + 1] \in Held
    BY <1>11, <2>2 DEF Held
  <2>4. held' \in [Sessions -> Held]
    BY <1>11, <2>3 DEF RecordShare, TypeOK
  <2>5. /\ worker[s] \in Workers /\ Credited(s) \in Nat
        /\ held[s].id \in Nat /\ Share(s) \in Ids
    BY <1>11, ShareType DEF Credited, SessionsSound, RecordShare, TypeOK, Held
  <2>6. [worker |-> worker[s], diff |-> Credited(s), job |-> held[s].id,
         id |-> Share(s)] \in ShareRows
    BY <1>11, <2>5 DEF ShareRows
  <2>7. shares' \in Seq(ShareRows)
    BY <1>11, <2>6 DEF RecordShare, TypeOK
  <2> QED
    BY <1>11, <2>1, <2>2, <2>3, <2>4, <2>5, <2>6, <2>7 DEF RecordShare, TypeOK
<1>12. ASSUME NEW s \in Sessions, RecordBlock(s)
      PROVE  TypeOK'
  <2>1. pc' \in [Sessions -> Steps]
    BY <1>12 DEF RecordBlock, TypeOK, Steps
  <2>2. held[s].row \in Nat /\ Share(s) \in Ids /\ mode \in Modes
    BY <1>12, ShareType DEF TypeOK, Held
  <2>3. FirstShare(held[s].row) \in Nat \ {0}
    BY <1>12, <2>2, FirstShareType
  <2>4. [id |-> Share(s), mode |-> mode, start |-> FirstShare(held[s].row),
         end |-> held[s].row] \in BlockRows
    BY <1>12, <2>2, <2>3 DEF BlockRows
  <2>5. \/ blocks' = blocks
        \/ blocks' = Append(blocks, [id |-> Share(s), mode |-> mode,
                                     start |-> FirstShare(held[s].row),
                                     end |-> held[s].row])
    BY <1>12 DEF RecordBlock
  <2>6. blocks \in Seq(BlockRows)
    BY <1>12 DEF TypeOK
  <2>7. blocks' \in Seq(BlockRows)
    BY <1>12, <2>4, <2>5, <2>6
  <2> QED
    BY <1>12, <2>1, <2>2, <2>3, <2>4, <2>5, <2>6, <2>7 DEF RecordBlock, TypeOK
<1>13. ASSUME NEW s \in Sessions, NEW d \in MinDiff..MaxDiff, Adjust(s, d)
      PROVE  TypeOK'
  <2>1. pc' \in [Sessions -> Steps]
    BY <1>13 DEF Adjust, SaveDifficulty, TypeOK, Steps
  <2>2. held' \in [Sessions -> Held]
    BY <1>13, NothingHeld DEF Adjust, SaveDifficulty, TypeOK
  <2>3. d \in Nat \ {0}
    BY <1>13, PoolAssumption DEF ValidOptions
  <2>4. diff' \in [Sessions -> Nat \ {0}]
    BY <1>13, <2>3 DEF Adjust, SaveDifficulty, TypeOK
  <2>5. saved' \in [Workers -> Nat]
    BY <1>13, <2>3 DEF Adjust, SaveDifficulty, TypeOK
  <2> QED
    BY <1>13, <2>1, <2>2, <2>3, <2>4, <2>5 DEF Adjust, SaveDifficulty, TypeOK
<1>14. CASE UNCHANGED vars
  BY <1>14 DEF vars, TypeOK
<1> QED
  BY <1>1, <1>2, <1>3, <1>4, <1>5, <1>6, <1>7, <1>8, <1>9, <1>10, <1>11, <1>12,
     <1>13, <1>14 DEF Next, Session

(* Connections, workers and the share in hand.                             *)
LEMMA SessionsStep ==
  ASSUME PoolAssumption, TypeOK, SessionsSound,
         [Next]_vars
  PROVE  SessionsSound'
<1> USE DEF nodeVars, sessionVars, dbVars
<1>0. /\ pc \in [Sessions -> Steps]
      /\ conn \in [Sessions -> Nat]
      /\ held \in [Sessions -> Held]
      /\ worker \in [Sessions -> Workers \cup {NoWorker}]
      /\ conns \in Nat
      /\ seen \in [Sessions -> SUBSET (Nat \X Keys)]
  BY DEF TypeOK
<1>1. ASSUME TipMoves
      PROVE  SessionsSound'
  BY <1>0, <1>1 DEF TipMoves, SessionsSound, Verifying
<1>2. ASSUME NEW t \in 0..tip, NEW work \in 1..MaxJobs,
             RefreshTemplate(t, work)
      PROVE  SessionsSound'
  BY <1>0, <1>2 DEF RefreshTemplate, SessionsSound, Verifying
<1>3. ASSUME Restart
      PROVE  SessionsSound'
  BY <1>0, <1>3 DEF Restart, End, NoJob, SessionsSound, Verifying
<1>4. ASSUME NEW s \in Sessions, Connect(s)
      PROVE  SessionsSound'
  BY <1>0, <1>4 DEF Connect, SessionsSound, Verifying
<1>5. ASSUME NEW s \in Sessions, NEW w \in Workers, Authorize(s, w)
      PROVE  SessionsSound'
  BY <1>0, <1>5 DEF Authorize, Register, SessionsSound, Verifying
<1>6. ASSUME NEW s \in Sessions, Close(s)
      PROVE  SessionsSound'
  BY <1>0, <1>6 DEF Close, End, SessionsSound, Verifying
<1>7. ASSUME NEW s \in Sessions, NEW k \in Keys, Submit(s, k)
      PROVE  SessionsSound'
  BY <1>0, <1>7 DEF Submit, Fresh, SessionsSound, Verifying
<1>8. ASSUME NEW s \in Sessions, NEW step \in {"share", "submit"},
             Scanned(s, step)
      PROVE  SessionsSound'
  BY <1>0, <1>8 DEF Scanned, SessionsSound, Verifying
<1>9. ASSUME NEW s \in Sessions, NodeAccepts(s)
      PROVE  SessionsSound'
  BY <1>0, <1>9 DEF NodeAccepts, SessionsSound, Verifying
<1>10. ASSUME NEW s \in Sessions, Reject(s)
      PROVE  SessionsSound'
  BY <1>0, <1>10 DEF Reject, SessionsSound, Verifying
<1>11. ASSUME NEW s \in Sessions, RecordShare(s)
      PROVE  SessionsSound'
  BY <1>0, <1>11 DEF RecordShare, SessionsSound, Verifying
<1>12. ASSUME NEW s \in Sessions, RecordBlock(s)
      PROVE  SessionsSound'
  BY <1>0, <1>12 DEF RecordBlock, SessionsSound, Verifying
<1>13. ASSUME NEW s \in Sessions, NEW d \in MinDiff..MaxDiff, Adjust(s, d)
      PROVE  SessionsSound'
  BY <1>0, <1>13 DEF Adjust, SaveDifficulty, SessionsSound, Verifying
<1>14. CASE UNCHANGED vars
  BY <1>0, <1>14 DEF vars, SessionsSound, Verifying
<1> QED
  BY <1>1, <1>2, <1>3, <1>4, <1>5, <1>6, <1>7, <1>8, <1>9, <1>10, <1>11, <1>12,
     <1>13, <1>14 DEF Next, Session

(* Difficulties.                                                           *)
LEMMA DifficultyStep ==
  ASSUME PoolAssumption, TypeOK, ScoredAsVerified, DifficultyBounded,
         [Next]_vars
  PROVE  ScoredAsVerified' /\ DifficultyBounded'
<1> USE DEF nodeVars, sessionVars, dbVars
<1>0. /\ pc \in [Sessions -> Steps]
      /\ diff \in [Sessions -> Nat \ {0}]
      /\ held \in [Sessions -> Held]
      /\ worker \in [Sessions -> Workers \cup {NoWorker}]
  BY DEF TypeOK
<1>1. ASSUME TipMoves
      PROVE  ScoredAsVerified' /\ DifficultyBounded'
  <2>1. ScoredAsVerified'
    BY <1>0, <1>1
    DEF TipMoves, ScoredAsVerified, DifficultyBounded, Credited, Clamped,
        Retargets, PoolAssumption, ValidOptions
  <2>2. DifficultyBounded'
    BY <1>0, <1>1
    DEF TipMoves, ScoredAsVerified, DifficultyBounded, Credited, Clamped,
        Retargets, PoolAssumption, ValidOptions
  <2> QED
    BY <2>1, <2>2
<1>2. ASSUME NEW t \in 0..tip, NEW work \in 1..MaxJobs,
             RefreshTemplate(t, work)
      PROVE  ScoredAsVerified' /\ DifficultyBounded'
  <2>1. ScoredAsVerified'
    BY <1>0, <1>2
    DEF RefreshTemplate, ScoredAsVerified, DifficultyBounded, Credited,
        Clamped, Retargets, PoolAssumption, ValidOptions
  <2>2. DifficultyBounded'
    BY <1>0, <1>2
    DEF RefreshTemplate, ScoredAsVerified, DifficultyBounded, Credited,
        Clamped, Retargets, PoolAssumption, ValidOptions
  <2> QED
    BY <2>1, <2>2
<1>3. ASSUME Restart
      PROVE  ScoredAsVerified' /\ DifficultyBounded'
  <2>1. ScoredAsVerified'
    BY <1>0, <1>3
    DEF Restart, End, NoJob, ScoredAsVerified, DifficultyBounded, Credited,
        Clamped, Retargets, PoolAssumption, ValidOptions
  <2>2. DifficultyBounded'
    BY <1>0, <1>3
    DEF Restart, End, NoJob, ScoredAsVerified, DifficultyBounded, Credited,
        Clamped, Retargets, PoolAssumption, ValidOptions
  <2> QED
    BY <2>1, <2>2
<1>4. ASSUME NEW s \in Sessions, Connect(s)
      PROVE  ScoredAsVerified' /\ DifficultyBounded'
  <2>1. ScoredAsVerified'
    BY <1>0, <1>4
    DEF Connect, ScoredAsVerified, DifficultyBounded, Credited, Clamped,
        Retargets, PoolAssumption, ValidOptions
  <2>2. DifficultyBounded'
    BY <1>0, <1>4
    DEF Connect, ScoredAsVerified, DifficultyBounded, Credited, Clamped,
        Retargets, PoolAssumption, ValidOptions
  <2> QED
    BY <2>1, <2>2
<1>5. ASSUME NEW s \in Sessions, NEW w \in Workers, Authorize(s, w)
      PROVE  ScoredAsVerified' /\ DifficultyBounded'
  <2>1. saved \in [Workers -> Nat]
    BY DEF TypeOK
  <2>2. saved'[w] \in Nat /\ diff'[s] = Clamped(saved'[w])
    BY <1>0, <1>5, <2>1 DEF Authorize, Register
  <2>3. diff'[s] \in MinDiff..MaxDiff
    BY <2>2, PoolAssumption DEF Clamped, PoolAssumption, ValidOptions
  <2>4. /\ pc' = pc /\ held' = held /\ pc[s] = "idle"
        /\ \A r \in Sessions : r # s => /\ worker'[r] = worker[r]
                                        /\ diff'[r] = diff[r]
    BY <1>0, <1>5 DEF Authorize, Register
  <2>5. ScoredAsVerified'
    BY <1>0, <2>4 DEF ScoredAsVerified, Credited
  <2>6. DifficultyBounded'
    BY <1>0, <2>3, <2>4 DEF DifficultyBounded
  <2> QED
    BY <2>5, <2>6
<1>6. ASSUME NEW s \in Sessions, Close(s)
      PROVE  ScoredAsVerified' /\ DifficultyBounded'
  <2>1. ScoredAsVerified'
    BY <1>0, <1>6
    DEF Close, End, ScoredAsVerified, DifficultyBounded, Credited, Clamped,
        Retargets, PoolAssumption, ValidOptions
  <2>2. DifficultyBounded'
    BY <1>0, <1>6
    DEF Close, End, ScoredAsVerified, DifficultyBounded, Credited, Clamped,
        Retargets, PoolAssumption, ValidOptions
  <2> QED
    BY <2>1, <2>2
<1>7. ASSUME NEW s \in Sessions, NEW k \in Keys, Submit(s, k)
      PROVE  ScoredAsVerified' /\ DifficultyBounded'
  <2>1. ScoredAsVerified'
    BY <1>0, <1>7
    DEF Submit, Fresh, ScoredAsVerified, DifficultyBounded, Credited, Clamped,
        Retargets, PoolAssumption, ValidOptions
  <2>2. DifficultyBounded'
    BY <1>0, <1>7
    DEF Submit, Fresh, ScoredAsVerified, DifficultyBounded, Credited, Clamped,
        Retargets, PoolAssumption, ValidOptions
  <2> QED
    BY <2>1, <2>2
<1>8. ASSUME NEW s \in Sessions, NEW step \in {"share", "submit"},
             Scanned(s, step)
      PROVE  ScoredAsVerified' /\ DifficultyBounded'
  <2>1. ScoredAsVerified'
    BY <1>0, <1>8
    DEF Scanned, ScoredAsVerified, DifficultyBounded, Credited, Clamped,
        Retargets, PoolAssumption, ValidOptions
  <2>2. DifficultyBounded'
    BY <1>0, <1>8
    DEF Scanned, ScoredAsVerified, DifficultyBounded, Credited, Clamped,
        Retargets, PoolAssumption, ValidOptions
  <2> QED
    BY <2>1, <2>2
<1>9. ASSUME NEW s \in Sessions, NodeAccepts(s)
      PROVE  ScoredAsVerified' /\ DifficultyBounded'
  <2>1. ScoredAsVerified'
    BY <1>0, <1>9
    DEF NodeAccepts, ScoredAsVerified, DifficultyBounded, Credited, Clamped,
        Retargets, PoolAssumption, ValidOptions
  <2>2. DifficultyBounded'
    BY <1>0, <1>9
    DEF NodeAccepts, ScoredAsVerified, DifficultyBounded, Credited, Clamped,
        Retargets, PoolAssumption, ValidOptions
  <2> QED
    BY <2>1, <2>2
<1>10. ASSUME NEW s \in Sessions, Reject(s)
      PROVE  ScoredAsVerified' /\ DifficultyBounded'
  <2>1. ScoredAsVerified'
    BY <1>0, <1>10
    DEF Reject, ScoredAsVerified, DifficultyBounded, Credited, Clamped,
        Retargets, PoolAssumption, ValidOptions
  <2>2. DifficultyBounded'
    BY <1>0, <1>10
    DEF Reject, ScoredAsVerified, DifficultyBounded, Credited, Clamped,
        Retargets, PoolAssumption, ValidOptions
  <2> QED
    BY <2>1, <2>2
<1>11. ASSUME NEW s \in Sessions, RecordShare(s)
      PROVE  ScoredAsVerified' /\ DifficultyBounded'
  <2>1. ScoredAsVerified'
    BY <1>0, <1>11
    DEF RecordShare, ScoredAsVerified, DifficultyBounded, Credited, Clamped,
        Retargets, PoolAssumption, ValidOptions
  <2>2. DifficultyBounded'
    BY <1>0, <1>11
    DEF RecordShare, ScoredAsVerified, DifficultyBounded, Credited, Clamped,
        Retargets, PoolAssumption, ValidOptions
  <2> QED
    BY <2>1, <2>2
<1>12. ASSUME NEW s \in Sessions, RecordBlock(s)
      PROVE  ScoredAsVerified' /\ DifficultyBounded'
  <2>1. ScoredAsVerified'
    BY <1>0, <1>12
    DEF RecordBlock, ScoredAsVerified, DifficultyBounded, Credited, Clamped,
        Retargets, PoolAssumption, ValidOptions
  <2>2. DifficultyBounded'
    BY <1>0, <1>12
    DEF RecordBlock, ScoredAsVerified, DifficultyBounded, Credited, Clamped,
        Retargets, PoolAssumption, ValidOptions
  <2> QED
    BY <2>1, <2>2
<1>13. ASSUME NEW s \in Sessions, NEW d \in MinDiff..MaxDiff, Adjust(s, d)
      PROVE  ScoredAsVerified' /\ DifficultyBounded'
  <2>1. ScoredAsVerified'
    BY <1>0, <1>13
    DEF Adjust, SaveDifficulty, ScoredAsVerified, DifficultyBounded, Credited,
        Clamped, Retargets, PoolAssumption, ValidOptions
  <2>2. DifficultyBounded'
    BY <1>0, <1>13
    DEF Adjust, SaveDifficulty, ScoredAsVerified, DifficultyBounded, Credited,
        Clamped, Retargets, PoolAssumption, ValidOptions
  <2> QED
    BY <2>1, <2>2
<1>14. CASE UNCHANGED vars
  BY <1>0, <1>14
  DEF vars, ScoredAsVerified, DifficultyBounded, Credited, Clamped, Retargets,
      PoolAssumption, ValidOptions
<1> QED
  BY <1>1, <1>2, <1>3, <1>4, <1>5, <1>6, <1>7, <1>8, <1>9, <1>10, <1>11, <1>12,
     <1>13, <1>14 DEF Next, Session

(* Recorded shares and shares in hand.                                     *)
LEMMA SharesStep ==
  ASSUME PoolAssumption, TypeOK, SessionsSound, SharesSound, NoShareTwice,
         [Next]_vars
  PROVE  SharesSound' /\ NoShareTwice'
<1> USE DEF nodeVars, sessionVars, dbVars
<1>0. /\ pc \in [Sessions -> Steps]
      /\ conn \in [Sessions -> Nat]
      /\ held \in [Sessions -> Held]
      /\ conns \in Nat
      /\ seen \in [Sessions -> SUBSET (Nat \X Keys)]
      /\ shares \in Seq(ShareRows)
  BY DEF TypeOK
<1>1. ASSUME TipMoves
      PROVE  SharesSound' /\ NoShareTwice'
  <2>1. SharesSound'
    BY <1>0, <1>1
    DEF TipMoves, SessionsSound, SharesSound, NoShareTwice, Verifying, Share,
        IsHeld
  <2>2. NoShareTwice'
    BY <1>0, <1>1
    DEF TipMoves, SessionsSound, SharesSound, NoShareTwice, Verifying, Share,
        IsHeld
  <2> QED
    BY <2>1, <2>2
<1>2. ASSUME NEW t \in 0..tip, NEW work \in 1..MaxJobs,
             RefreshTemplate(t, work)
      PROVE  SharesSound' /\ NoShareTwice'
  <2>1. SharesSound'
    BY <1>0, <1>2
    DEF RefreshTemplate, SessionsSound, SharesSound, NoShareTwice, Verifying,
        Share, IsHeld
  <2>2. NoShareTwice'
    BY <1>0, <1>2
    DEF RefreshTemplate, SessionsSound, SharesSound, NoShareTwice, Verifying,
        Share, IsHeld
  <2> QED
    BY <2>1, <2>2
<1>3. ASSUME Restart
      PROVE  SharesSound' /\ NoShareTwice'
  <2>1. SharesSound'
    BY <1>0, <1>3
    DEF Restart, End, NoJob, SessionsSound, SharesSound, NoShareTwice,
        Verifying, Share, IsHeld
  <2>2. NoShareTwice'
    BY <1>0, <1>3
    DEF Restart, End, NoJob, SessionsSound, SharesSound, NoShareTwice,
        Verifying, Share, IsHeld
  <2> QED
    BY <2>1, <2>2
<1>4. ASSUME NEW s \in Sessions, Connect(s)
      PROVE  SharesSound' /\ NoShareTwice'
  <2>1. /\ conns \in Nat /\ conns' = conns + 1
        /\ conn'[s] = conns + 1 /\ pc'[s] = "idle" /\ shares' = shares
        /\ \A r \in Sessions : r # s => /\ pc'[r] = pc[r]
                                        /\ conn'[r] = conn[r]
                                        /\ held'[r] = held[r]
                                        /\ seen'[r] = seen[r]
    BY <1>0, <1>4 DEF Connect
  <2>2. ASSUME NEW n \in 1..Len(shares)
        PROVE  /\ shares[n].id[1] \in 1..conns'
               /\ \A r \in Sessions :
                    pc'[r] # "closed" /\ conn'[r] = shares[n].id[1]
                      => <<shares[n].job, shares[n].id[3]>> \in seen'[r]
    <3>1. /\ shares[n].id[1] \in 1..conns
          /\ \A r \in Sessions :
               pc[r] # "closed" /\ conn[r] = shares[n].id[1]
                 => <<shares[n].job, shares[n].id[3]>> \in seen[r]
      BY DEF SharesSound
    <3>2. shares[n].id[1] \in 1..conns' /\ shares[n].id[1] # conns + 1
      BY <2>1, <3>1
    <3> QED
      BY <2>1, <3>1, <3>2
  <2>3. \A r \in Sessions : Verifying(r)' => /\ Verifying(r)
                                             /\ Share(r)' = Share(r)
                                             /\ held'[r].id = held[r].id
    BY <2>1 DEF Verifying, Share
  <2>4. SharesSound'
    BY <2>1, <2>2, <2>3 DEF SharesSound, IsHeld
  <2>5. NoShareTwice'
    BY <2>1 DEF NoShareTwice
  <2> QED
    BY <2>4, <2>5
<1>5. ASSUME NEW s \in Sessions, NEW w \in Workers, Authorize(s, w)
      PROVE  SharesSound' /\ NoShareTwice'
  <2>1. SharesSound'
    BY <1>0, <1>5
    DEF Authorize, Register, SessionsSound, SharesSound, NoShareTwice,
        Verifying, Share, IsHeld
  <2>2. NoShareTwice'
    BY <1>0, <1>5
    DEF Authorize, Register, SessionsSound, SharesSound, NoShareTwice,
        Verifying, Share, IsHeld
  <2> QED
    BY <2>1, <2>2
<1>6. ASSUME NEW s \in Sessions, Close(s)
      PROVE  SharesSound' /\ NoShareTwice'
  <2>1. SharesSound'
    BY <1>0, <1>6
    DEF Close, End, SessionsSound, SharesSound, NoShareTwice, Verifying, Share,
        IsHeld
  <2>2. NoShareTwice'
    BY <1>0, <1>6
    DEF Close, End, SessionsSound, SharesSound, NoShareTwice, Verifying, Share,
        IsHeld
  <2> QED
    BY <2>1, <2>2
<1>7. ASSUME NEW s \in Sessions, NEW k \in Keys, Submit(s, k)
      PROVE  SharesSound' /\ NoShareTwice'
  <2>1. /\ pc'[s] = "scan" /\ shares' = shares /\ conn' = conn
        /\ conns' = conns
        /\ seen'[s] = seen[s] \cup {<<job.id, k>>}
        /\ Share(s)' = <<conn[s], job.work, k>> /\ held'[s].id = job.id
        /\ \A r \in Sessions : r # s => /\ pc'[r] = pc[r]
                                        /\ held'[r] = held[r]
                                        /\ seen'[r] = seen[r]
    BY <1>0, <1>7 DEF Submit, Fresh, Share
  <2>2. <<job.id, k>> \notin seen[s] /\ pc[s] # "closed"
    BY <1>7 DEF Submit, Fresh
  <2>3. \A n \in 1..Len(shares) : ~IsHeld(s, n)'
    BY <1>0, <2>1, <2>2 DEF SharesSound, IsHeld
  <2>4. \A r \in Sessions : r # s /\ Verifying(r)' =>
          /\ Verifying(r)
          /\ \A n \in 1..Len(shares) : IsHeld(r, n)' <=> IsHeld(r, n)
    BY <2>1 DEF Verifying, Share, IsHeld
  <2>5. \A r \in Sessions : seen[r] \subseteq seen'[r]
                            /\ (pc'[r] # "closed" => pc[r] # "closed")
    BY <2>1, <2>2
  <2>6. ASSUME NEW n \in 1..Len(shares)
        PROVE  /\ shares[n].id[1] \in 1..conns
               /\ \A r \in Sessions :
                    pc'[r] # "closed" /\ conn[r] = shares[n].id[1]
                      => <<shares[n].job, shares[n].id[3]>> \in seen'[r]
    BY <2>5 DEF SharesSound
  <2>7. \A r \in Sessions : Verifying(r)' =>
          \A n \in 1..Len(shares) : ~IsHeld(r, n)'
    BY <2>3, <2>4 DEF SharesSound
  <2>8. SharesSound'
    BY <2>1, <2>6, <2>7 DEF SharesSound
  <2>9. NoShareTwice'
    BY <2>1 DEF NoShareTwice
  <2> QED
    BY <2>8, <2>9
<1>8. ASSUME NEW s \in Sessions, NEW step \in {"share", "submit"},
             Scanned(s, step)
      PROVE  SharesSound' /\ NoShareTwice'
  <2>1. SharesSound'
    BY <1>0, <1>8
    DEF Scanned, SessionsSound, SharesSound, NoShareTwice, Verifying, Share,
        IsHeld
  <2>2. NoShareTwice'
    BY <1>0, <1>8
    DEF Scanned, SessionsSound, SharesSound, NoShareTwice, Verifying, Share,
        IsHeld
  <2> QED
    BY <2>1, <2>2
<1>9. ASSUME NEW s \in Sessions, NodeAccepts(s)
      PROVE  SharesSound' /\ NoShareTwice'
  <2>1. SharesSound'
    BY <1>0, <1>9
    DEF NodeAccepts, SessionsSound, SharesSound, NoShareTwice, Verifying,
        Share, IsHeld
  <2>2. NoShareTwice'
    BY <1>0, <1>9
    DEF NodeAccepts, SessionsSound, SharesSound, NoShareTwice, Verifying,
        Share, IsHeld
  <2> QED
    BY <2>1, <2>2
<1>10. ASSUME NEW s \in Sessions, Reject(s)
      PROVE  SharesSound' /\ NoShareTwice'
  <2>1. SharesSound'
    BY <1>0, <1>10
    DEF Reject, SessionsSound, SharesSound, NoShareTwice, Verifying, Share,
        IsHeld
  <2>2. NoShareTwice'
    BY <1>0, <1>10
    DEF Reject, SessionsSound, SharesSound, NoShareTwice, Verifying, Share,
        IsHeld
  <2> QED
    BY <2>1, <2>2
<1>11. ASSUME NEW s \in Sessions, RecordShare(s)
      PROVE  SharesSound' /\ NoShareTwice'
  <2>1. /\ Verifying(s) /\ pc[s] # "closed" /\ ~Verifying(s)'
        /\ conn' = conn /\ conns' = conns /\ seen' = seen
        /\ \A r \in Sessions : r # s => /\ pc'[r] = pc[r]
                                        /\ held'[r] = held[r]
    BY <1>0, <1>11 DEF RecordShare, Verifying
  <2>2. /\ Len(shares) \in Nat /\ Len(shares') = Len(shares) + 1
        /\ \A n \in 1..Len(shares) : shares'[n] = shares[n]
        /\ shares'[Len(shares) + 1].id = Share(s)
        /\ shares'[Len(shares) + 1].job = held[s].id
    BY <1>0, <1>11 DEF RecordShare
  <2>3. \A n \in 1..Len(shares') : n \in 1..Len(shares) \/ n = Len(shares) + 1
    BY <2>2
  <2>4. /\ Share(s)[1] \in 1..conns
        /\ Share(s)[1] = conn[s]
        /\ <<held[s].id, Share(s)[3]>> \in seen[s]
        /\ \A r \in Sessions : pc[r] # "closed" /\ conn[r] = conn[s] => r = s
    BY <1>0, <2>1 DEF SessionsSound, Share
  <2>5. \A r \in Sessions : pc'[r] # "closed" => pc[r] # "closed"
    BY <2>1
  <2>6. ASSUME NEW n \in 1..Len(shares')
        PROVE  /\ shares'[n].id[1] \in 1..conns'
               /\ \A r \in Sessions :
                    pc'[r] # "closed" /\ conn'[r] = shares'[n].id[1]
                      => <<shares'[n].job, shares'[n].id[3]>> \in seen'[r]
    <3>1. CASE n \in 1..Len(shares)
      <4>1. shares'[n] = shares[n]
        BY <2>2, <3>1
      <4> QED
        BY <2>1, <2>5, <3>1, <4>1 DEF SharesSound
    <3>2. CASE n = Len(shares) + 1
      <4>1. shares'[n].id = Share(s) /\ shares'[n].job = held[s].id
        BY <2>2, <3>2
      <4> QED
        BY <2>1, <2>4, <2>5, <4>1
    <3> QED
      BY <2>3, <3>1, <3>2
  <2>7. ASSUME NEW r \in Sessions, Verifying(r)'
        PROVE  \A n \in 1..Len(shares') : ~IsHeld(r, n)'
    <3>1. /\ r # s /\ Verifying(r) /\ pc[r] # "closed"
          /\ Share(r)' = Share(r) /\ held'[r].id = held[r].id
      BY <2>1, <2>7 DEF Verifying, Share
    <3>2. Share(r) # Share(s)
      BY <2>4, <3>1 DEF Share
    <3> QED
      BY <1>0, <2>2, <2>3, <3>1, <3>2 DEF SharesSound, IsHeld
  <2>8. SharesSound'
    BY <2>6, <2>7 DEF SharesSound
  <2>9. \A n \in 1..Len(shares) : ~IsHeld(s, n)
    BY <1>0, <2>1 DEF SharesSound
  <2>10. NoShareTwice'
    BY <1>0, <2>2, <2>3, <2>9 DEF NoShareTwice, IsHeld
  <2> QED
    BY <2>8, <2>10
<1>12. ASSUME NEW s \in Sessions, RecordBlock(s)
      PROVE  SharesSound' /\ NoShareTwice'
  <2>1. SharesSound'
    BY <1>0, <1>12
    DEF RecordBlock, SessionsSound, SharesSound, NoShareTwice, Verifying,
        Share, IsHeld
  <2>2. NoShareTwice'
    BY <1>0, <1>12
    DEF RecordBlock, SessionsSound, SharesSound, NoShareTwice, Verifying,
        Share, IsHeld
  <2> QED
    BY <2>1, <2>2
<1>13. ASSUME NEW s \in Sessions, NEW d \in MinDiff..MaxDiff, Adjust(s, d)
      PROVE  SharesSound' /\ NoShareTwice'
  <2>1. SharesSound'
    BY <1>0, <1>13
    DEF Adjust, SaveDifficulty, SessionsSound, SharesSound, NoShareTwice,
        Verifying, Share, IsHeld
  <2>2. NoShareTwice'
    BY <1>0, <1>13
    DEF Adjust, SaveDifficulty, SessionsSound, SharesSound, NoShareTwice,
        Verifying, Share, IsHeld
  <2> QED
    BY <2>1, <2>2
<1>14. CASE UNCHANGED vars
  BY <1>0, <1>14
  DEF vars, SessionsSound, SharesSound, NoShareTwice, Verifying, Share, IsHeld
<1> QED
  BY <1>1, <1>2, <1>3, <1>4, <1>5, <1>6, <1>7, <1>8, <1>9, <1>10, <1>11, <1>12,
     <1>13, <1>14 DEF Next, Session

(* Every block's window ends at a share, so ends are naturals.             *)
LEMMA BlockEnds ==
  ASSUME TypeOK
  PROVE  \A i \in 1..Len(blocks) : /\ blocks[i].start \in Nat
                                   /\ blocks[i].end \in Nat
                                   /\ blocks[i].id \in Ids
<1>1. blocks \in Seq(BlockRows)
  BY DEF TypeOK
<1>2. \A i \in 1..Len(blocks) : blocks[i] \in BlockRows
  BY <1>1
<1> QED
  BY <1>2 DEF BlockRows

(* Windows.                                                                *)
LEMMA WindowsStep ==
  ASSUME PoolAssumption, TypeOK, WindowsSound,
         [Next]_vars
  PROVE  WindowsSound'
<1> USE DEF nodeVars, sessionVars, dbVars
<1>0. /\ pc \in [Sessions -> Steps]
      /\ held \in [Sessions -> Held]
      /\ shares \in Seq(ShareRows)
      /\ blocks \in Seq(BlockRows)
  BY DEF TypeOK
<1>1. ASSUME TipMoves
      PROVE  WindowsSound'
  BY <1>0, <1>1 DEF TipMoves, WindowsSound, LoopFree
<1>2. ASSUME NEW t \in 0..tip, NEW work \in 1..MaxJobs,
             RefreshTemplate(t, work)
      PROVE  WindowsSound'
  BY <1>0, <1>2 DEF RefreshTemplate, WindowsSound, LoopFree
<1>3. ASSUME Restart
      PROVE  WindowsSound'
  BY <1>0, <1>3 DEF Restart, End, NoJob, WindowsSound, LoopFree
<1>4. ASSUME NEW s \in Sessions, Connect(s)
      PROVE  WindowsSound'
  BY <1>0, <1>4 DEF Connect, WindowsSound, LoopFree
<1>5. ASSUME NEW s \in Sessions, NEW w \in Workers, Authorize(s, w)
      PROVE  WindowsSound'
  BY <1>0, <1>5 DEF Authorize, Register, WindowsSound, LoopFree
<1>6. ASSUME NEW s \in Sessions, Close(s)
      PROVE  WindowsSound'
  BY <1>0, <1>6 DEF Close, End, WindowsSound, LoopFree
<1>7. ASSUME NEW s \in Sessions, NEW k \in Keys, Submit(s, k)
      PROVE  WindowsSound'
  BY <1>0, <1>7 DEF Submit, Fresh, WindowsSound, LoopFree
<1>8. ASSUME NEW s \in Sessions, NEW step \in {"share", "submit"},
             Scanned(s, step)
      PROVE  WindowsSound'
  BY <1>0, <1>8 DEF Scanned, WindowsSound, LoopFree
<1>9. ASSUME NEW s \in Sessions, NodeAccepts(s)
      PROVE  WindowsSound'
  BY <1>0, <1>9 DEF NodeAccepts, WindowsSound, LoopFree
<1>10. ASSUME NEW s \in Sessions, Reject(s)
      PROVE  WindowsSound'
  BY <1>0, <1>10 DEF Reject, WindowsSound, LoopFree
<1>11. ASSUME NEW s \in Sessions, RecordShare(s)
      PROVE  WindowsSound'
  <2>1. /\ Len(shares) \in Nat /\ Len(shares') = Len(shares) + 1
        /\ blocks' = blocks
        /\ held'[s].row = Len(shares) + 1
        /\ \A r \in Sessions : pc[r] # "credit"
        /\ \A r \in Sessions : r # s => pc'[r] = pc[r]
    BY <1>0, <1>11 DEF RecordShare, LoopFree, Held
  <2>2. \A i \in 1..Len(blocks) : blocks[i].end < Len(shares) + 1
    BY <1>0, <2>1, BlockEnds DEF WindowsSound
  <2>3. \A r \in Sessions : pc'[r] = "credit" => r = s
    BY <2>1
  <2>4. \A i \in 1..Len(blocks) : blocks[i].end <= Len(shares')
    BY <2>1, <2>2, BlockEnds
  <2> QED
    BY <1>0, <2>1, <2>2, <2>3, <2>4 DEF WindowsSound
<1>12. ASSUME NEW s \in Sessions, RecordBlock(s)
      PROVE  WindowsSound'
  <2>1. CASE Recorded(Share(s))
    <3>1. /\ blocks' = blocks /\ shares' = shares /\ held' = held
          /\ \A r \in Sessions : pc'[r] = "credit" => pc[r] = "credit"
      BY <1>0, <1>12, <2>1 DEF RecordBlock
    <3> QED
      BY <3>1 DEF WindowsSound
  <2>2. CASE ~Recorded(Share(s))
    <3> DEFINE b == [id |-> Share(s), mode |-> mode,
                     start |-> FirstShare(held[s].row), end |-> held[s].row]
    <3>1. /\ blocks' = Append(blocks, b)
          /\ b.start <= b.end
          /\ shares' = shares /\ held' = held
          /\ pc[s] = "credit" /\ pc'[s] = "adjust"
          /\ \A r \in Sessions : r # s => pc'[r] = pc[r]
      BY <1>0, <1>12, <2>2 DEF RecordBlock
    <3>2. /\ Len(blocks) \in Nat /\ Len(blocks') = Len(blocks) + 1
          /\ \A i \in 1..Len(blocks) : blocks'[i] = blocks[i]
          /\ blocks'[Len(blocks) + 1] = b
      BY <1>0, <3>1
    <3>3. /\ b.end = Len(shares) /\ b.end >= 1 /\ b.end \in Nat
          /\ \A i \in 1..Len(blocks) : blocks[i].end < b.end
      BY <1>0, <3>1 DEF WindowsSound
    <3>4. /\ b.start \in Nat /\ b.start >= 1
          /\ mode = "proportional" =>
               \A i \in 1..Len(blocks) : blocks[i].end < b.start
      <4>1. /\ LastEnd \in Nat
            /\ \A i \in 1..Len(blocks) : blocks[i].end <= LastEnd
        BY <1>0, LastEndIs
      <4>2. CASE mode = "proportional"
        BY <4>1, <4>2, BlockEnds DEF FirstShare
      <4>3. CASE mode # "proportional"
        BY <3>3, <4>3, PoolAssumption DEF FirstShare, ValidOptions
      <4> QED
        BY <4>2, <4>3
    <3>5. \A r \in Sessions : pc'[r] # "credit"
      BY <1>0, <3>1 DEF WindowsSound
    <3> HIDE DEF b
    <3>6. \A i \in 1..Len(blocks') : i \in 1..Len(blocks) \/ i = Len(blocks) + 1
      BY <3>2
    <3>7. b.mode = mode
      BY DEF b
    <3>8. \A i \in 1..Len(blocks') : /\ blocks'[i].start >= 1
                                     /\ blocks'[i].start <= blocks'[i].end
                                     /\ blocks'[i].end <= Len(shares')
      BY <1>0, <3>1, <3>2, <3>3, <3>4, <3>6, BlockEnds DEF WindowsSound
    <3>9. \A i, j \in 1..Len(blocks') :
            i < j => /\ blocks'[i].end < blocks'[j].end
                     /\ blocks'[j].mode = "proportional"
                          => blocks'[i].end < blocks'[j].start
      <4> SUFFICES ASSUME NEW i \in 1..Len(blocks'), NEW j \in 1..Len(blocks'),
                          i < j
                   PROVE  /\ blocks'[i].end < blocks'[j].end
                          /\ blocks'[j].mode = "proportional"
                               => blocks'[i].end < blocks'[j].start
        OBVIOUS
      <4>1. i \in 1..Len(blocks) /\ blocks'[i] = blocks[i]
        BY <3>2
      <4>2. CASE j \in 1..Len(blocks)
        BY <3>2, <4>1, <4>2 DEF WindowsSound
      <4>3. CASE j = Len(blocks) + 1
        BY <3>2, <3>3, <3>4, <3>7, <4>1, <4>3
      <4> QED
        BY <3>6, <4>2, <4>3
    <3> QED
      BY <3>5, <3>8, <3>9 DEF WindowsSound
  <2> QED
    BY <2>1, <2>2
<1>13. ASSUME NEW s \in Sessions, NEW d \in MinDiff..MaxDiff, Adjust(s, d)
      PROVE  WindowsSound'
  BY <1>0, <1>13 DEF Adjust, SaveDifficulty, WindowsSound, LoopFree
<1>14. CASE UNCHANGED vars
  BY <1>0, <1>14 DEF vars, WindowsSound, LoopFree
<1> QED
  BY <1>1, <1>2, <1>3, <1>4, <1>5, <1>6, <1>7, <1>8, <1>9, <1>10, <1>11, <1>12,
     <1>13, <1>14 DEF Next, Session

(* Windows that end ever later, and start after every earlier end, are     *)
(* disjoint: RewardedOnce follows.                                         *)
LEMMA WindowsDisjoint ==
  ASSUME TypeOK, WindowsSound, NoneLeftOut
  PROVE  RewardedOnce
<1>1. \A i, j \in 1..Len(blocks) :
        i < j /\ blocks[j].mode = "proportional"
          => \A n \in Nat : ~(Rewards(blocks[i], n) /\ Rewards(blocks[j], n))
  BY BlockEnds DEF WindowsSound, Rewards
<1>2. Len(blocks) \in Nat /\ Len(shares) \in Nat
  BY DEF TypeOK
<1>3. \A i, j \in 1..Len(blocks) : i # j => i < j \/ j < i
  BY <1>2
<1>4. \A n \in 1..Len(shares) : n \in Nat
  BY <1>2
<1> QED
  BY <1>1, <1>3, <1>4 DEF RewardedOnce

(* A block recorded in proportional mode rewards every share that no       *)
(* earlier block reached.                                                  *)
LEMMA CoverageStep ==
  ASSUME PoolAssumption, TypeOK, WindowsSound, NoneLeftOut, [Next]_vars
  PROVE  NoneLeftOut'
<1> SUFFICES ASSUME Modes = {"proportional"}
             PROVE  \A n \in 1..LastEnd' :
                      \E i \in 1..Len(blocks') : Rewards(blocks'[i], n)
  BY DEF NoneLeftOut
<1>1. ASSUME blocks' = blocks
      PROVE  \A n \in 1..LastEnd' :
               \E i \in 1..Len(blocks') : Rewards(blocks'[i], n)
  <2>1. LastEnd' = LastEnd
    BY <1>1 DEF LastEnd
  <2> QED
    BY <1>1, <2>1 DEF NoneLeftOut
<1>2. ASSUME NEW s \in Sessions, RecordBlock(s), ~Recorded(Share(s))
      PROVE  \A n \in 1..LastEnd' :
               \E i \in 1..Len(blocks') : Rewards(blocks'[i], n)
  <2> DEFINE b == [id |-> Share(s), mode |-> mode,
                   start |-> FirstShare(held[s].row), end |-> held[s].row]
             ends == {0} \cup {blocks'[i].end : i \in 1..Len(blocks')}
  <2>1. blocks' = Append(blocks, b) /\ blocks \in Seq(BlockRows)
    BY <1>2 DEF RecordBlock, TypeOK
  <2>2. /\ Len(blocks) \in Nat /\ Len(blocks') = Len(blocks) + 1
        /\ \A i \in 1..Len(blocks) : blocks'[i] = blocks[i]
        /\ blocks'[Len(blocks) + 1] = b
    BY <2>1
  <2>3. LastEnd \in Nat /\ b.end \in Nat
    <3>1. LastEnd \in Nat
      BY LastEndIs
    <3>2. held[s] \in Held
      BY DEF TypeOK
    <3> QED
      BY <3>1, <3>2 DEF Held
  <2>4. b.start = LastEnd + 1 /\ b.end = held[s].row
    BY DEF FirstShare, TypeOK
  <2>5. \A i \in 1..Len(blocks) : blocks[i].end \in Nat /\ blocks[i].end < b.end
    BY <1>2, <2>4, BlockEnds DEF WindowsSound, RecordBlock
  <2> HIDE DEF b
  <2>6. \A i \in 1..Len(blocks') : i \in 1..Len(blocks) \/ i = Len(blocks) + 1
    BY <2>2
  <2>7. b.end \in ends /\ \A f \in ends : f \in Nat /\ f <= b.end
    BY <2>2, <2>3, <2>5, <2>6
  <2>8. LastEnd' \in ends /\ \A f \in ends : f <= LastEnd'
    BY <2>7 DEF LastEnd
  <2> HIDE DEF ends
  <2>9. LastEnd' = b.end
    BY <2>7, <2>8
  <2>10. ASSUME NEW n \in 1..LastEnd'
         PROVE  \E i \in 1..Len(blocks') : Rewards(blocks'[i], n)
    <3>1. n \in Nat /\ n >= 1 /\ n <= b.end
      BY <2>3, <2>9
    <3>2. CASE n <= LastEnd
      BY <2>2, <2>3, <3>1, <3>2 DEF NoneLeftOut
    <3>3. CASE n > LastEnd
      <4>1. Rewards(b, n)
        BY <2>3, <2>4, <3>1, <3>3 DEF Rewards
      <4>2. Len(blocks) + 1 \in 1..Len(blocks')
        BY <2>2
      <4> QED
        BY <2>2, <4>1, <4>2
    <3> QED
      BY <2>3, <3>1, <3>2, <3>3
  <2> QED
    BY <2>10
<1>3. \/ blocks' = blocks
      \/ \E s \in Sessions : RecordBlock(s) /\ ~Recorded(Share(s))
  BY
  DEF Next, Session, TipMoves, RefreshTemplate, Restart, Connect, Authorize,
      Register,
         Close, Submit, Scanned, NodeAccepts, Reject, RecordShare, RecordBlock,
         Adjust, SaveDifficulty, vars, nodeVars, dbVars
<1> QED
  BY <1>1, <1>2, <1>3

(* Blocks on both sides.                                                   *)
LEMMA BlocksStep ==
  ASSUME PoolAssumption, TypeOK, SessionsSound, BlocksSound, LedgerMatchesNode,
         [Next]_vars
  PROVE  BlocksSound' /\ LedgerMatchesNode'
<1> USE DEF nodeVars, sessionVars, dbVars
<1>0. /\ pc \in [Sessions -> Steps]
      /\ conn \in [Sessions -> Nat]
      /\ held \in [Sessions -> Held]
      /\ blocks \in Seq(BlockRows)
  BY DEF TypeOK
<1>1. ASSUME TipMoves
      PROVE  BlocksSound' /\ LedgerMatchesNode'
  <2>1. BlocksSound'
    BY <1>0, <1>1
    DEF TipMoves, SessionsSound, BlocksSound, LedgerMatchesNode, Owing, Share,
        Verifying, Recorded
  <2>2. LedgerMatchesNode'
    BY <1>0, <1>1
    DEF TipMoves, SessionsSound, BlocksSound, LedgerMatchesNode, Owing, Share,
        Verifying, Recorded
  <2> QED
    BY <2>1, <2>2
<1>2. ASSUME NEW t \in 0..tip, NEW work \in 1..MaxJobs,
             RefreshTemplate(t, work)
      PROVE  BlocksSound' /\ LedgerMatchesNode'
  <2>1. BlocksSound'
    BY <1>0, <1>2
    DEF RefreshTemplate, SessionsSound, BlocksSound, LedgerMatchesNode, Owing,
        Share, Verifying, Recorded
  <2>2. LedgerMatchesNode'
    BY <1>0, <1>2
    DEF RefreshTemplate, SessionsSound, BlocksSound, LedgerMatchesNode, Owing,
        Share, Verifying, Recorded
  <2> QED
    BY <2>1, <2>2
<1>3. ASSUME Restart
      PROVE  BlocksSound' /\ LedgerMatchesNode'
  <2>1. End(Sessions) /\ taken' = taken /\ blocks' = blocks
    BY <1>3 DEF Restart, nodeVars, dbVars
  <2>2. /\ \A r \in Sessions : r \in Sessions => pc'[r] = "closed"
        /\ \A r \in Sessions : r \notin Sessions => /\ pc'[r] = pc[r]
                                                /\ Share(r)' = Share(r)
        /\ lost' = lost \cup {Share(r) : r \in {q \in Sessions : Owing(q)}}
    BY <2>1 DEF End, Share, Owing
  <2>3. \A r \in Sessions : Owing(r)' => Owing(r) /\ r \notin Sessions
    BY <2>2 DEF Owing
  <2>4. \A q \in Sessions : Owing(q) => Share(q) \in taken \ lost
    BY DEF BlocksSound
  <2>5. \A q \in Sessions, r \in Sessions :
          Owing(q) /\ Owing(r) /\ r # q => Share(q) # Share(r)
    BY DEF SessionsSound, Owing, Share
  <2>6. \A r \in Sessions : Owing(r)' => Share(r)' \in taken \ lost'
    BY <2>2, <2>3, <2>5 DEF BlocksSound
  <2>7. BlocksSound'
    BY <2>1, <2>2, <2>3, <2>4, <2>6 DEF BlocksSound, Recorded
  <2>8. \A i \in 1..Len(blocks) : blocks[i].id \in taken \ lost'
    BY <2>2, <2>4 DEF BlocksSound, LedgerMatchesNode, Recorded
  <2>9. ASSUME NEW b \in taken
        PROVE  \/ b \in lost'
               \/ \E i \in 1..Len(blocks) : blocks[i].id = b
               \/ \E r \in Sessions : /\ pc'[r] \in {"accepted", "credit"}
                                      /\ Share(r)' = b
    BY <2>2 DEF LedgerMatchesNode, Owing, Recorded
  <2>10. LedgerMatchesNode'
    BY <2>1, <2>8, <2>9 DEF LedgerMatchesNode, Recorded
  <2> QED
    BY <2>7, <2>10
<1>4. ASSUME NEW s \in Sessions, Connect(s)
      PROVE  BlocksSound' /\ LedgerMatchesNode'
  <2>1. BlocksSound'
    BY <1>0, <1>4
    DEF Connect, SessionsSound, BlocksSound, LedgerMatchesNode, Owing, Share,
        Verifying, Recorded
  <2>2. LedgerMatchesNode'
    BY <1>0, <1>4
    DEF Connect, SessionsSound, BlocksSound, LedgerMatchesNode, Owing, Share,
        Verifying, Recorded
  <2> QED
    BY <2>1, <2>2
<1>5. ASSUME NEW s \in Sessions, NEW w \in Workers, Authorize(s, w)
      PROVE  BlocksSound' /\ LedgerMatchesNode'
  <2>1. BlocksSound'
    BY <1>0, <1>5
    DEF Authorize, Register, SessionsSound, BlocksSound, LedgerMatchesNode,
        Owing, Share, Verifying, Recorded
  <2>2. LedgerMatchesNode'
    BY <1>0, <1>5
    DEF Authorize, Register, SessionsSound, BlocksSound, LedgerMatchesNode,
        Owing, Share, Verifying, Recorded
  <2> QED
    BY <2>1, <2>2
<1>6. ASSUME NEW s \in Sessions, Close(s)
      PROVE  BlocksSound' /\ LedgerMatchesNode'
  <2>1. End({s}) /\ taken' = taken /\ blocks' = blocks
    BY <1>6 DEF Close, nodeVars, dbVars
  <2>2. /\ \A r \in Sessions : r \in {s} => pc'[r] = "closed"
        /\ \A r \in Sessions : r \notin {s} => /\ pc'[r] = pc[r]
                                                /\ Share(r)' = Share(r)
        /\ lost' = lost \cup {Share(r) : r \in {q \in {s} : Owing(q)}}
    BY <2>1 DEF End, Share, Owing
  <2>3. \A r \in Sessions : Owing(r)' => Owing(r) /\ r \notin {s}
    BY <2>2 DEF Owing
  <2>4. \A q \in {s} : Owing(q) => Share(q) \in taken \ lost
    BY DEF BlocksSound
  <2>5. \A q \in {s}, r \in Sessions :
          Owing(q) /\ Owing(r) /\ r # q => Share(q) # Share(r)
    BY DEF SessionsSound, Owing, Share
  <2>6. \A r \in Sessions : Owing(r)' => Share(r)' \in taken \ lost'
    BY <2>2, <2>3, <2>5 DEF BlocksSound
  <2>7. BlocksSound'
    BY <2>1, <2>2, <2>3, <2>4, <2>6 DEF BlocksSound, Recorded
  <2>8. \A i \in 1..Len(blocks) : blocks[i].id \in taken \ lost'
    BY <2>2, <2>4 DEF BlocksSound, LedgerMatchesNode, Recorded
  <2>9. ASSUME NEW b \in taken
        PROVE  \/ b \in lost'
               \/ \E i \in 1..Len(blocks) : blocks[i].id = b
               \/ \E r \in Sessions : /\ pc'[r] \in {"accepted", "credit"}
                                      /\ Share(r)' = b
    BY <2>2 DEF LedgerMatchesNode, Owing, Recorded
  <2>10. LedgerMatchesNode'
    BY <2>1, <2>8, <2>9 DEF LedgerMatchesNode, Recorded
  <2> QED
    BY <2>7, <2>10
<1>7. ASSUME NEW s \in Sessions, NEW k \in Keys, Submit(s, k)
      PROVE  BlocksSound' /\ LedgerMatchesNode'
  <2>1. BlocksSound'
    BY <1>0, <1>7
    DEF Submit, Fresh, SessionsSound, BlocksSound, LedgerMatchesNode, Owing,
        Share, Verifying, Recorded
  <2>2. LedgerMatchesNode'
    BY <1>0, <1>7
    DEF Submit, Fresh, SessionsSound, BlocksSound, LedgerMatchesNode, Owing,
        Share, Verifying, Recorded
  <2> QED
    BY <2>1, <2>2
<1>8. ASSUME NEW s \in Sessions, NEW step \in {"share", "submit"},
             Scanned(s, step)
      PROVE  BlocksSound' /\ LedgerMatchesNode'
  <2>1. BlocksSound'
    BY <1>0, <1>8
    DEF Scanned, SessionsSound, BlocksSound, LedgerMatchesNode, Owing, Share,
        Verifying, Recorded
  <2>2. LedgerMatchesNode'
    BY <1>0, <1>8
    DEF Scanned, SessionsSound, BlocksSound, LedgerMatchesNode, Owing, Share,
        Verifying, Recorded
  <2> QED
    BY <2>1, <2>2
<1>9. ASSUME NEW s \in Sessions, NodeAccepts(s)
      PROVE  BlocksSound' /\ LedgerMatchesNode'
  <2>1. /\ taken' = taken \cup {Share(s)} /\ Share(s) \notin taken
        /\ pc[s] = "submit" /\ pc'[s] = "accepted"
        /\ blocks' = blocks /\ lost' = lost
        /\ \A r \in Sessions : Share(r)' = Share(r)
        /\ \A r \in Sessions : r # s => pc'[r] = pc[r]
    BY <1>0, <1>9 DEF NodeAccepts, Share
  <2>2. BlocksSound'
    BY <2>1 DEF BlocksSound, LedgerMatchesNode, Owing, Recorded
  <2>3. LedgerMatchesNode'
    BY <2>1 DEF LedgerMatchesNode, Recorded
  <2> QED
    BY <2>2, <2>3
<1>10. ASSUME NEW s \in Sessions, Reject(s)
      PROVE  BlocksSound' /\ LedgerMatchesNode'
  <2>1. BlocksSound'
    BY <1>0, <1>10
    DEF Reject, SessionsSound, BlocksSound, LedgerMatchesNode, Owing, Share,
        Verifying, Recorded
  <2>2. LedgerMatchesNode'
    BY <1>0, <1>10
    DEF Reject, SessionsSound, BlocksSound, LedgerMatchesNode, Owing, Share,
        Verifying, Recorded
  <2> QED
    BY <2>1, <2>2
<1>11. ASSUME NEW s \in Sessions, RecordShare(s)
      PROVE  BlocksSound' /\ LedgerMatchesNode'
  <2>1. /\ blocks' = blocks /\ lost' = lost /\ taken' = taken
        /\ \A r \in Sessions : Share(r)' = Share(r) /\ (Owing(r)' <=> Owing(r))
    <3>1. /\ blocks' = blocks /\ lost' = lost /\ taken' = taken /\ conn' = conn
          /\ \A r \in Sessions : /\ held'[r].work = held[r].work
                                 /\ held'[r].key = held[r].key
      <4>1. held[s] \in [id : Nat, tip : Nat, work : Nat, key : Keys \cup {0},
                         diff : Nat, row : Nat]
        BY <1>0 DEF Held
      <4> QED
        BY <1>0, <1>11, <4>1 DEF RecordShare
    <3>2. \A r \in Sessions : Owing(r)' <=> Owing(r)
      BY <1>0, <1>11 DEF RecordShare, Owing
    <3> QED
      BY <3>1, <3>2 DEF Share
  <2>2. BlocksSound'
    BY <2>1 DEF BlocksSound, Recorded
  <2>3. LedgerMatchesNode'
    BY <2>1 DEF LedgerMatchesNode, Owing, Recorded
  <2> QED
    BY <2>2, <2>3
<1>12. ASSUME NEW s \in Sessions, RecordBlock(s)
      PROVE  BlocksSound' /\ LedgerMatchesNode'
  <2>1. /\ pc[s] = "credit" /\ pc'[s] = "adjust"
        /\ taken' = taken /\ lost' = lost
        /\ \A r \in Sessions : Share(r)' = Share(r)
        /\ \A r \in Sessions : r # s => pc'[r] = pc[r]
    BY <1>0, <1>12 DEF RecordBlock, Share
  <2>2. Share(s) \in taken \ lost /\ ~Recorded(Share(s))
    BY <2>1 DEF BlocksSound, Owing
  <2>3. /\ Len(blocks) \in Nat /\ Len(blocks') = Len(blocks) + 1
        /\ \A i \in 1..Len(blocks) : blocks'[i] = blocks[i]
        /\ blocks'[Len(blocks) + 1].id = Share(s)
    <3>1. PICK b : blocks' = Append(blocks, b) /\ b.id = Share(s)
      <4>1. blocks' = Append(blocks, [id |-> Share(s), mode |-> mode,
                                      start |-> FirstShare(held[s].row),
                                      end |-> held[s].row])
        BY <1>12, <2>2 DEF RecordBlock
      <4> QED
        BY <4>1
    <3>2. blocks \in Seq(BlockRows)
      BY <1>0
    <3> QED
      BY <3>1, <3>2
  <2>4. \A i \in 1..Len(blocks') : i \in 1..Len(blocks) \/ i = Len(blocks) + 1
    BY <2>3
  <2>5. \A r \in Sessions : Owing(r)' => Owing(r) /\ r # s
    BY <2>1 DEF Owing
  <2>6. \A r \in Sessions : Owing(r)' => Share(r) # Share(s)
    BY <2>1, <2>5 DEF SessionsSound, Owing, Share
  <2>7. BlocksSound'
    BY <2>1, <2>2, <2>3, <2>4, <2>5, <2>6 DEF BlocksSound, Recorded
  <2>8. \A i, j \in 1..Len(blocks') :
          /\ blocks'[i].id \in taken \ lost
          /\ i # j => blocks'[i].id # blocks'[j].id
    BY <2>2, <2>3, <2>4 DEF LedgerMatchesNode, Recorded
  <2>9. ASSUME NEW b \in taken
        PROVE  \/ b \in lost
               \/ \E i \in 1..Len(blocks') : blocks'[i].id = b
               \/ \E r \in Sessions : /\ pc'[r] \in {"accepted", "credit"}
                                      /\ Share(r) = b
    <3>1. CASE b = Share(s)
      BY <2>3, <3>1
    <3>2. CASE b # Share(s)
      BY <2>1, <2>3, <3>2 DEF LedgerMatchesNode, Recorded
    <3> QED
      BY <3>1, <3>2
  <2>10. LedgerMatchesNode'
    BY <2>1, <2>8, <2>9 DEF LedgerMatchesNode, Recorded
  <2> QED
    BY <2>7, <2>10
<1>13. ASSUME NEW s \in Sessions, NEW d \in MinDiff..MaxDiff, Adjust(s, d)
      PROVE  BlocksSound' /\ LedgerMatchesNode'
  <2>1. BlocksSound'
    BY <1>0, <1>13
    DEF Adjust, SaveDifficulty, SessionsSound, BlocksSound, LedgerMatchesNode,
        Owing, Share, Verifying, Recorded
  <2>2. LedgerMatchesNode'
    BY <1>0, <1>13
    DEF Adjust, SaveDifficulty, SessionsSound, BlocksSound, LedgerMatchesNode,
        Owing, Share, Verifying, Recorded
  <2> QED
    BY <2>1, <2>2
<1>14. CASE UNCHANGED vars
  BY <1>0, <1>14
  DEF vars, SessionsSound, BlocksSound, LedgerMatchesNode, Owing, Share,
      Verifying, Recorded
<1> QED
  BY <1>1, <1>2, <1>3, <1>4, <1>5, <1>6, <1>7, <1>8, <1>9, <1>10, <1>11, <1>12,
     <1>13, <1>14 DEF Next, Session

(* A pool that starts with empty tables is sound.                          *)
LEMMA InitSound ==
  ASSUME PoolAssumption, Init
  PROVE  TypeOK /\ PoolSound
<1> USE DEF Init
<1>1. blocks = <<>> /\ shares = <<>> /\ Len(blocks) = 0 /\ Len(shares) = 0
  OBVIOUS
<1>2. TypeOK
  BY NothingHeld, PoolAssumption
  DEF TypeOK, NoJob, Steps, PoolAssumption, ValidOptions
<1>3. SessionsSound
  BY DEF SessionsSound, Verifying
<1>4. SharesSound /\ WindowsSound
  BY <1>1 DEF SharesSound, WindowsSound, Verifying
<1>5. BlocksSound
  BY DEF BlocksSound, Owing
<1>6. NoneLeftOut
  <2>1. LastEnd = 0
    BY <1>1, <1>2, <1>4, LastEndIs
  <2> QED
    BY <2>1 DEF NoneLeftOut
<1>7. LedgerMatchesNode /\ NoShareTwice
  BY <1>1 DEF LedgerMatchesNode, NoShareTwice
<1>8. ScoredAsVerified /\ DifficultyBounded
  BY DEF ScoredAsVerified, DifficultyBounded
<1> QED
  BY <1>2, <1>3, <1>4, <1>5, <1>6, <1>7, <1>8 DEF PoolSound

(* Every step preserves the invariant.                                     *)
LEMMA PoolStep ==
  ASSUME PoolAssumption, TypeOK, PoolSound, [Next]_vars
  PROVE  TypeOK' /\ PoolSound'
<1>1. /\ SessionsSound /\ SharesSound /\ WindowsSound /\ BlocksSound
      /\ NoneLeftOut /\ LedgerMatchesNode /\ NoShareTwice
      /\ ScoredAsVerified /\ DifficultyBounded
  BY DEF PoolSound
<1>2. TypeOK'
  BY <1>1, TypeStep
<1>3. SessionsSound'
  BY <1>1, SessionsStep
<1>4. SharesSound' /\ NoShareTwice'
  BY <1>1, SharesStep
<1>5. WindowsSound'
  BY <1>1, WindowsStep
<1>6. BlocksSound' /\ LedgerMatchesNode'
  BY <1>1, BlocksStep
<1>7. NoneLeftOut'
  BY <1>1, CoverageStep
<1>8. ScoredAsVerified' /\ DifficultyBounded'
  BY <1>1, DifficultyStep
<1> QED
  BY <1>2, <1>3, <1>4, <1>5, <1>6, <1>7, <1>8 DEF PoolSound

(* The accounting pool keeps its types and the inductive invariant         *)
(* PoolSound, whatever sessions, the node and failures do.                 *)
THEOREM PoolAlwaysSound == Spec => [](TypeOK /\ PoolSound)
<1>1. Init => TypeOK /\ PoolSound
  BY PoolAssumption, InitSound
<1>2. TypeOK /\ PoolSound /\ [Next]_vars => (TypeOK /\ PoolSound)'
  BY PoolAssumption, PoolStep
<1> QED
  BY <1>1, <1>2, PTL DEF Spec

(* No share is rewarded by two proportional blocks, and a pool that is     *)
(* always proportional leaves no share out (record_block_and_allocate).    *)
THEOREM EveryShareRewardedOnce == Spec => []RewardedOnce
<1>1. TypeOK /\ PoolSound => RewardedOnce
  BY WindowsDisjoint DEF PoolSound
<1> QED
  BY <1>1, PoolAlwaysSound, PTL

(* The ledger and the node agree on the pool's blocks, up to those whose   *)
(* handler was cut off between submitblock and the record.                 *)
THEOREM LedgerAgreesWithNode == Spec => []LedgerMatchesNode
<1>1. TypeOK /\ PoolSound => LedgerMatchesNode
  BY DEF PoolSound
<1> QED
  BY <1>1, PoolAlwaysSound, PTL

(* No share is recorded twice, on one connection or on several.            *)
THEOREM SharesCountOnce == Spec => []NoShareTwice
<1>1. TypeOK /\ PoolSound => NoShareTwice
  BY DEF PoolSound
<1> QED
  BY <1>1, PoolAlwaysSound, PTL

(* Shares are scored with the difficulty they were verified against, and   *)
(* difficulties stay within the configured bounds.                         *)
THEOREM DifficultySound == Spec => [](ScoredAsVerified /\ DifficultyBounded)
<1>1. TypeOK /\ PoolSound => ScoredAsVerified /\ DifficultyBounded
  BY DEF PoolSound
<1> QED
  BY <1>1, PoolAlwaysSound, PTL

(* A handler that holds the share of an accepted block finds a window to   *)
(* reward: its share is the newest, and no block has reached it.           *)
THEOREM NeverWithoutShares == Spec => []Allocatable
<1>1. ASSUME TypeOK, PoolSound
      PROVE  Allocatable
  <2> SUFFICES ASSUME NEW s \in Sessions, pc[s] = "credit"
               PROVE  FirstShare(held[s].row) <= held[s].row
    BY DEF Allocatable
  <2>1. WindowsSound
    BY <1>1 DEF PoolSound
  <2>2. /\ held[s].row >= 1 /\ held[s].row = Len(shares)
        /\ \A i \in 1..Len(blocks) : blocks[i].end < held[s].row
    BY <2>1 DEF WindowsSound
  <2>3. Len(shares) \in Nat
    BY <1>1 DEF TypeOK
  <2>4. /\ LastEnd \in Nat
        /\ LastEnd = 0 \/ \E i \in 1..Len(blocks) : blocks[i].end = LastEnd
    BY <1>1, <2>1, LastEndIs
  <2>5. LastEnd + 1 <= held[s].row
    BY <2>2, <2>3, <2>4
  <2> QED
    BY <2>2, <2>3, <2>5, PoolAssumption
    DEF FirstShare, PoolAssumption, ValidOptions
<1>2. TypeOK /\ PoolSound => Allocatable
  BY <1>1
<1> QED
  BY <1>2, PoolAlwaysSound, PTL

=============================================================================
