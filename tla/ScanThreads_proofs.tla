------------------------- MODULE ScanThreads_proofs -------------------------
(***************************************************************************)
(* Proofs about ScanThreads, for any number of threads and any inputs.     *)
(***************************************************************************)
EXTENDS ScanThreads, TLAPS

USE DEF Nonces

(* Every index of the budget is a nonce the caller asked for.              *)
LEMMA BudgetFacts ==
  ASSUME TypeOK
  PROVE  /\ Budget \in Nat
         /\ \A i \in Nat : i < Budget => /\ Nonce(i) = start + i
                                         /\ Nonce(i) \in Nonces
                                         /\ Asked(Nonce(i))
         /\ \A n \in Nonces : Asked(n) => /\ n - start \in Nat
                                          /\ n - start < Budget
                                          /\ Nonce(n - start) = n
<1>1. start \in 0..MaxNonce /\ limit \in Nat /\ limit >= 1 /\ MaxNonce \in Nat
  BY ScanAssumption DEF TypeOK
<1>2. \A x \in 0..MaxNonce : x % (MaxNonce + 1) = x
  BY <1>1, SMT
<1>3. Budget \in Nat /\ Budget <= limit /\ Budget <= MaxNonce - start + 1
  BY <1>1 DEF Budget
<1>4. ASSUME NEW i \in Nat, i < Budget
      PROVE  Nonce(i) = start + i /\ Nonce(i) \in Nonces /\ Asked(Nonce(i))
  <2>1. start + i \in 0..MaxNonce
    BY <1>1, <1>3, <1>4
  <2>2. Nonce(i) = start + i
    BY <1>2, <2>1, Zenon DEF Nonce
  <2> QED BY <1>1, <1>3, <1>4, <2>1, <2>2 DEF Asked
<1>5. ASSUME NEW n \in Nonces, Asked(n)
      PROVE  n - start \in Nat /\ n - start < Budget /\ Nonce(n - start) = n
  <2>1. n - start \in Nat /\ n - start < Budget
    BY <1>1, <1>5 DEF Asked, Budget
  <2>2. start + (n - start) = n
    BY <1>1, <1>5
  <2> QED BY <1>2, <2>1, <2>2 DEF Nonce
<1> QED BY <1>3, <1>4, <1>5

LEMMA InitSound == ASSUME Init PROVE ScanSound
<1> USE ScanAssumption DEF Init
<1>1. TypeOK
  BY DEF TypeOK, Steps
<1>2. ChunksSound
  BY DEF ChunksSound, Inside
<1>3. NothingSkipped
  BY DEF NothingSkipped
<1>4. HitsKept /\ Finished /\ StatusIsTrue
  BY DEF HitsKept, Finished, StatusIsTrue
<1> QED BY <1>1, <1>2, <1>3, <1>4 DEF ScanSound

(* While a thread runs, the process has not ended.                         *)
LEMMA Running ==
  ASSUME ScanSound, NEW t \in Threads, pc[t] # "done", Thread(t)
  PROVE  exit = -1 /\ StatusIsTrue' /\ UNCHANGED <<inputs, exit>>
<1>1. exit = -1
  BY DEF ScanSound, Finished
<1>2. UNCHANGED <<inputs, exit>>
  BY DEF Thread, Check, Claim, Loop, Hash, HashFails, Abort, Hit, Record
<1> QED BY <1>1, <1>2 DEF StatusIsTrue

LEMMA CheckSound ==
  ASSUME ScanSound, NEW t \in Threads, Check(t) PROVE ScanSound'
<1> USE DEF Check, Go, inputs, shared
<1>1. exit = -1 /\ StatusIsTrue' /\ UNCHANGED <<inputs, exit>>
  BY Running DEF Thread
<1>2. TypeOK'
  BY DEF ScanSound, TypeOK, Steps
<1>3. \A u \in Threads : Inside(u)' <=> Inside(u)
  BY DEF ScanSound, TypeOK, Inside
<1>4. ChunksSound'
  BY <1>3 DEF ScanSound, TypeOK, ChunksSound, Inside, Budget, Nonce
<1>5. NothingSkipped'
  <2>1. \A u \in Threads, i \in Nat : Holds(u, i)' <=> Holds(u, i)
    BY DEF ScanSound, TypeOK, Holds
  <2> QED BY <2>1, SMTT(30) DEF ScanSound, NothingSkipped, TypeOK, Budget
<1>6. HitsKept'
  BY DEF ScanSound, TypeOK, HitsKept, Nonce, Asked
<1>7. Finished'
  BY <1>1 DEF ScanSound, TypeOK, Finished, Budget, Status
<1> QED BY <1>1, <1>2, <1>4, <1>5, <1>6, <1>7 DEF ScanSound

LEMMA ClaimSound ==
  ASSUME ScanSound, NEW t \in Threads, Claim(t) PROVE ScanSound'
<1> USE DEF Claim, Go, Advanced, inputs, shared
<1>1. exit = -1 /\ StatusIsTrue' /\ UNCHANGED <<inputs, exit>>
  BY Running DEF Thread
<1>2. TypeOK /\ Budget \in Nat /\ Chunk \in Nat \ {0} /\ Budget' = Budget
  BY BudgetFacts, ScanAssumption, <1>1 DEF ScanSound, Budget
<1>3. TypeOK'
  BY <1>2 DEF TypeOK, Steps
<1>4. \A u \in Threads : u # t =>
        /\ pc'[u] = pc[u] /\ index'[u] = index[u] /\ end'[u] = end[u]
        /\ Inside(u)' = Inside(u)
        /\ \A i \in Nat : Holds(u, i)' = Holds(u, i)
  BY <1>2 DEF TypeOK, Inside, Holds
<1>5. CASE next >= Budget
  <2>1. pc' = [pc EXCEPT ![t] = "done"] /\ UNCHANGED <<index, end>>
    BY <1>5
  <2>2. ~Inside(t)' /\ \A i \in Nat : ~Holds(t, i)' /\ ~Holds(t, i)
    BY <1>2, <2>1 DEF TypeOK, Inside, Holds
  <2>3. ChunksSound'
    BY <1>2, <1>4, <2>1, <2>2 DEF ScanSound, TypeOK, ChunksSound, Inside, Nonce
  <2>4. NothingSkipped'
    <3>1. \A i \in tested' : i < next' /\ \A u \in Threads : ~Holds(u, i)'
      BY <1>2, <1>4, <2>2 DEF ScanSound, TypeOK, NothingSkipped
    <3>2. ASSUME ~found', NEW i \in 0..(next' - 1), i < Budget'
          PROVE  i \in tested' \/ \E u \in Threads : Holds(u, i)'
      <4>1. i \in 0..(next - 1)
        BY <1>2, <1>5, <3>2 DEF TypeOK
      <4> QED BY <1>2, <1>4, <2>2, <3>2, <4>1 DEF ScanSound, NothingSkipped
    <3> QED BY <3>1, <3>2 DEF NothingSkipped
  <2>5. Finished'
    BY <1>1, <1>2, <1>5, <2>1 DEF ScanSound, TypeOK, Finished
  <2>6. HitsKept'
    BY <1>1, <1>2, <2>1 DEF ScanSound, TypeOK, HitsKept, Nonce, Asked
  <2> QED BY <1>1, <1>3, <2>3, <2>4, <2>5, <2>6 DEF ScanSound
<1>6. CASE next < Budget
  <2>1. /\ pc' = [pc EXCEPT ![t] = "loop"]
        /\ index' = [index EXCEPT ![t] = next]
        /\ end' = [end EXCEPT ![t] = IF next + Chunk < Budget
                                     THEN next + Chunk ELSE Budget]
    BY <1>2, <1>6 DEF TypeOK
  <2>2. /\ Inside(t)' /\ index'[t] = next /\ pc'[t] = "loop"
        /\ end'[t] <= next + Chunk /\ end'[t] <= Budget /\ next < end'[t]
        /\ end'[t] = next + Chunk \/ end'[t] = Budget
        /\ \A i \in Nat : /\ Holds(t, i)' <=> next <= i /\ i < end'[t]
                         /\ ~Holds(t, i)
    BY <1>2, <1>6, <2>1 DEF TypeOK, Inside, Holds
  <2>3. ChunksSound'
    <3>1. \A u \in Threads :
            /\ Inside(u)' => /\ index'[u] <= end'[u]
                             /\ end'[u] <= next' /\ end'[u] <= Budget'
            /\ pc'[u] \in {"hash", "hit", "record"} => index'[u] < end'[u]
            /\ pc'[u] \in {"hit", "record"} => Nonce(index[u])' \in good'
      BY <1>2, <1>4, <2>2 DEF ScanSound, TypeOK, ChunksSound, Nonce
    <3>2. \A u \in Threads : u # t /\ Inside(u) => end[u] <= index'[t]
      BY <1>2, <2>2 DEF ScanSound, ChunksSound
    <3> QED BY <1>2, <1>4, <2>2, <3>1, <3>2 DEF ScanSound, ChunksSound
  <2>4. NothingSkipped'
    <3>1. ASSUME NEW i \in tested', NEW u \in Threads
          PROVE  i < next' /\ ~Holds(u, i)'
      <4>1. i \in Nat /\ i < next /\ ~Holds(u, i)
        BY <1>2, <3>1 DEF ScanSound, TypeOK, NothingSkipped
      <4>2. CASE u = t
        BY <1>2, <2>2, <4>1, <4>2 DEF TypeOK
      <4> QED BY <1>2, <1>4, <4>1, <4>2 DEF TypeOK
    <3>2. ASSUME ~found', NEW i \in 0..(next' - 1), i < Budget'
          PROVE  i \in tested' \/ \E u \in Threads : Holds(u, i)'
      <4>1. CASE i < next
        BY <1>2, <1>4, <2>2, <3>2, <4>1 DEF ScanSound, TypeOK, NothingSkipped
      <4>2. CASE i >= next
        BY <1>2, <2>2, <3>2, <4>2 DEF TypeOK
      <4> QED BY <1>2, <3>2, <4>1, <4>2 DEF TypeOK
    <3> QED BY <3>1, <3>2 DEF NothingSkipped
  <2>5. Finished'
    BY <1>1, <1>2, <2>1 DEF ScanSound, TypeOK, Finished
  <2>6. HitsKept'
    BY <1>1, <1>2, <1>4, <2>2 DEF ScanSound, TypeOK, HitsKept, Nonce, Asked
  <2> QED BY <1>1, <1>3, <2>3, <2>4, <2>5, <2>6 DEF ScanSound
<1> QED BY <1>2, <1>5, <1>6 DEF TypeOK

LEMMA LoopSound ==
  ASSUME ScanSound, NEW t \in Threads, Loop(t) PROVE ScanSound'
<1> USE DEF Loop, Go, InChunk, inputs, shared
<1>1. exit = -1 /\ StatusIsTrue' /\ UNCHANGED <<inputs, exit>>
  BY Running DEF Thread
<1>2. TypeOK /\ Budget \in Nat /\ Budget' = Budget /\ (found' <=> found)
  BY BudgetFacts, <1>1 DEF ScanSound, Budget
<1>3. TypeOK'
  BY <1>2 DEF TypeOK, Steps
<1>4. ChunksSound'
  BY <1>2 DEF ScanSound, TypeOK, ChunksSound, Inside, Nonce
<1>5. \A u \in Threads, i \in Nat : Holds(u, i)' => Holds(u, i)
  BY <1>2 DEF TypeOK, Holds
<1>6. ASSUME ~found, NEW u \in Threads, NEW i \in Nat, Holds(u, i)
      PROVE  Holds(u, i)'
  BY <1>2, <1>6 DEF TypeOK, Holds
<1>7. NothingSkipped'
  <2>1. \A i \in tested' : i < next' /\ \A u \in Threads : ~Holds(u, i)'
    BY <1>2, <1>5 DEF ScanSound, TypeOK, NothingSkipped
  <2>2. ASSUME ~found', NEW i \in 0..(next' - 1), i < Budget'
        PROVE  i \in tested' \/ \E u \in Threads : Holds(u, i)'
    BY <1>2, <1>6, <2>2 DEF ScanSound, TypeOK, NothingSkipped
  <2> QED BY <2>1, <2>2 DEF NothingSkipped
<1>8. HitsKept'
  BY <1>2 DEF ScanSound, TypeOK, HitsKept, Nonce, Asked
<1>9. Finished'
  BY <1>1, <1>2 DEF ScanSound, TypeOK, Finished
<1> QED BY <1>1, <1>3, <1>4, <1>7, <1>8, <1>9 DEF ScanSound

LEMMA HashSound ==
  ASSUME ScanSound, NEW t \in Threads, Hash(t) PROVE ScanSound'
<1> USE DEF Hash, Go, inputs, shared
<1>1. exit = -1 /\ StatusIsTrue' /\ UNCHANGED <<inputs, exit>>
  BY Running DEF Thread
<1>2. TypeOK /\ Budget \in Nat /\ Budget' = Budget /\ UNCHANGED shared
  BY BudgetFacts, <1>1 DEF ScanSound, Budget
<1>3. TypeOK'
  <2>1. pc' \in [Threads -> Steps] /\ index' \in [Threads -> Nat]
    BY <1>2 DEF TypeOK, Steps
  <2>2. tested' \subseteq Nat
    <3>1. tested' = tested \cup {index[t]} /\ index[t] \in Nat
      BY <1>2 DEF TypeOK
    <3> QED BY <1>2, <3>1, Zenon DEF TypeOK
  <2> QED BY <1>1, <1>2, <2>1, <2>2 DEF TypeOK
<1>4. /\ index[t] \in Nat /\ index[t] < end[t] /\ end[t] <= next
      /\ index[t] < next /\ index[t] < Budget
  BY <1>2 DEF ScanSound, TypeOK, ChunksSound, Inside
<1>5. \A u \in Threads, i \in Nat :
        Holds(u, i)' <=> Holds(u, i) /\ ~(u = t /\ i = index[t])
  BY <1>2, <1>4 DEF TypeOK, Holds
<1>6. ChunksSound'
  BY <1>2, <1>4 DEF ScanSound, TypeOK, ChunksSound, Inside, Nonce
<1>7. NothingSkipped'
  <2>1. ASSUME NEW i \in tested', NEW u \in Threads
        PROVE  i < next' /\ ~Holds(u, i)'
    <3>1. CASE i \in tested
      BY <1>2, <1>5, <3>1 DEF ScanSound, TypeOK, NothingSkipped
    <3>2. CASE i = index[t]
      <4>1. CASE u = t
        BY <1>2, <1>4, <1>5, <3>2, <4>1
      <4>2. CASE u # t
        BY <1>2, <1>4, <1>5, <3>2, <4>2
           DEF ScanSound, TypeOK, ChunksSound, Inside, Holds
      <4> QED BY <4>1, <4>2
    <3> QED BY <2>1, <3>1, <3>2
  <2>2. ASSUME ~found', NEW i \in 0..(next' - 1), i < Budget'
        PROVE  i \in tested' \/ \E u \in Threads : Holds(u, i)'
    BY <1>2, <1>5, <2>2 DEF ScanSound, TypeOK, NothingSkipped
  <2> QED BY <2>1, <2>2 DEF NothingSkipped
<1>8. HitsKept'
  <2>1. ASSUME NEW i \in tested', Nonce(i)' \in good'
        PROVE  found' \/ \E u \in Threads : pc'[u] = "hit"
    <3>1. CASE i = index[t]
      BY <1>2, <2>1, <3>1 DEF TypeOK, Nonce
    <3>2. CASE i \in tested
      <4>1. found \/ \E u \in Threads : pc[u] = "hit"
        BY <1>2, <2>1, <3>2 DEF ScanSound, HitsKept, Nonce
      <4> QED BY <1>2, <4>1 DEF TypeOK
    <3> QED BY <2>1, <3>1, <3>2
  <2>2. (\E u \in Threads : pc[u] = "record") =>
          \E u \in Threads : pc'[u] = "record"
    BY <1>2 DEF TypeOK
  <2> QED BY <1>2, <2>1, <2>2 DEF ScanSound, TypeOK, HitsKept, Asked
<1>9. Finished'
  BY <1>1, <1>2 DEF ScanSound, TypeOK, Finished
<1> QED BY <1>1, <1>3, <1>6, <1>7, <1>8, <1>9 DEF ScanSound

(* The steps after a hash leave chunks and history alone.                  *)
LEMMA ReportSound ==
  ASSUME ScanSound, NEW t \in Threads,
         HashFails(t) \/ Abort(t) \/ Hit(t) \/ Record(t)
  PROVE  ScanSound'
<1> USE DEF HashFails, Abort, Hit, Record, Go, inputs, shared
<1>1. exit = -1 /\ StatusIsTrue' /\ UNCHANGED <<inputs, exit>>
  BY Running DEF Thread
<1>2. /\ TypeOK /\ Budget \in Nat /\ Budget' = Budget
      /\ UNCHANGED <<next, tested, index, end>>
  BY BudgetFacts, <1>1 DEF ScanSound, Budget
<1>3. pc[t] = "record" => /\ index[t] \in Nat /\ index[t] < Budget
                          /\ Nonce(index[t]) \in good
                          /\ Nonce(index[t]) \in Nonces
                          /\ Asked(Nonce(index[t]))
  <2>1. pc[t] = "record" => /\ index[t] \in Nat /\ index[t] < Budget
                            /\ Nonce(index[t]) \in good
    BY <1>2 DEF ScanSound, TypeOK, ChunksSound, Inside
  <2> QED BY <1>2, <2>1, BudgetFacts
<1>4. TypeOK'
  BY <1>2, <1>3 DEF TypeOK, Steps
<1>5. ChunksSound'
  BY <1>1, <1>2 DEF ScanSound, TypeOK, ChunksSound, Inside, Nonce
<1>6. NothingSkipped'
  <2>1. \A u \in Threads, i \in Nat : Holds(u, i)' => Holds(u, i)
    BY <1>2 DEF TypeOK, Holds
  <2>2. ASSUME ~found', NEW u \in Threads, NEW i \in Nat, Holds(u, i)
        PROVE  Holds(u, i)'
    BY <1>2, <2>2 DEF ScanSound, HitsKept, Finished, TypeOK, Holds
  <2>3. ~found' => ~found
    BY <1>2
  <2>4. ASSUME ~found', NEW i \in 0..(next' - 1), i < Budget'
        PROVE  i \in tested' \/ \E u \in Threads : Holds(u, i)'
    BY <1>2, <2>2, <2>3, <2>4 DEF ScanSound, TypeOK, NothingSkipped
  <2> QED BY <1>2, <2>1, <2>4 DEF ScanSound, TypeOK, NothingSkipped
<1>7. HitsKept'
  <2>1. ASSUME NEW i \in tested', Nonce(i)' \in good'
        PROVE  found' \/ \E u \in Threads : pc'[u] = "hit"
    <3>1. found \/ \E u \in Threads : pc[u] = "hit"
      BY <1>1, <1>2, <2>1 DEF ScanSound, HitsKept, Nonce
    <3> QED BY <1>2, <3>1 DEF TypeOK
  <2>2. found' /\ ~failed' => \/ result' # NoNonce
                             \/ \E u \in Threads : pc'[u] = "record"
    BY <1>2, <1>3, ScanAssumption DEF ScanSound, TypeOK, HitsKept, Finished
  <2>3. result' # NoNonce => Asked(result)' /\ result' \in good'
    BY <1>1, <1>2, <1>3 DEF ScanSound, HitsKept, Asked, Nonce
  <2> QED BY <2>1, <2>2, <2>3 DEF HitsKept
<1>8. Finished'
  BY <1>1, <1>2 DEF ScanSound, TypeOK, Finished
<1> QED BY <1>1, <1>4, <1>5, <1>6, <1>7, <1>8 DEF ScanSound

(* The exit status tells the truth: with neither result nor failure the    *)
(* threads stopped for want of indexes, and all of them were hashed.       *)
LEMMA JoinSound == ASSUME ScanSound, Join PROVE ScanSound'
<1> USE DEF Join, inputs, shared
<1>1. /\ TypeOK /\ Budget \in Nat /\ Budget' = Budget /\ exit' = Status
      /\ UNCHANGED <<inputs, shared, tested, pc, index, end>>
  BY BudgetFacts DEF ScanSound, Budget
<1>2. TypeOK'
  BY <1>1 DEF TypeOK, Status
<1>3. ChunksSound' /\ HitsKept'
  BY <1>1 DEF ScanSound, ChunksSound, HitsKept, Inside, Nonce, Asked
<1>4. NothingSkipped'
  BY <1>1 DEF ScanSound, NothingSkipped, Holds
<1>5. Finished'
  BY <1>1 DEF ScanSound, Finished, Status
<1>6. exit' = 0 => Asked(result) /\ result \in good
  BY <1>1 DEF ScanSound, HitsKept, Status
<1>7. ASSUME exit' = 2, NEW n \in Nonces, Asked(n)
      PROVE  n - start \in tested /\ n \notin good
  <2>1. ~found
    BY <1>1, <1>7 DEF ScanSound, HitsKept, Status
  <2>2. next >= Budget
    <3>1. PICK t \in Threads : TRUE
      BY ScanAssumption
    <3> QED BY <2>1, <3>1 DEF ScanSound, Finished
  <2>3. n - start \in Nat /\ n - start < Budget /\ Nonce(n - start) = n
    BY <1>1, <1>7, BudgetFacts
  <2>4. n - start \in tested
    BY <1>1, <2>1, <2>2, <2>3 DEF ScanSound, TypeOK, NothingSkipped, Holds
  <2>5. n \notin good
    BY <2>1, <2>3, <2>4 DEF ScanSound, HitsKept
  <2> QED BY <2>4, <2>5
<1>8. StatusIsTrue'
  BY <1>1, <1>6, <1>7 DEF StatusIsTrue, Asked
<1> QED BY <1>2, <1>3, <1>4, <1>5, <1>8 DEF ScanSound

LEMMA StepSound == ScanSound /\ [Next]_vars => ScanSound'
<1> SUFFICES ASSUME ScanSound, [Next]_vars PROVE ScanSound'
  OBVIOUS
<1>1. CASE UNCHANGED vars
  BY <1>1 DEF vars, inputs, shared, ScanSound, TypeOK, ChunksSound, Inside,
              NothingSkipped, Holds, HitsKept, Finished, StatusIsTrue, Status,
              Budget, Nonce, Asked
<1>2. CASE Join
  BY <1>2, JoinSound
<1>3. ASSUME NEW t \in Threads, Thread(t) PROVE ScanSound'
  BY <1>3, CheckSound, ClaimSound, LoopSound, HashSound, ReportSound DEF Thread
<1> QED BY <1>1, <1>2, <1>3 DEF Next

(* Whatever the threads race for, the types and the inductive invariant    *)
(* hold.                                                                   *)
THEOREM ScanAlwaysSound == Spec => []ScanSound
<1>1. Init => ScanSound
  BY InitSound
<1> QED BY <1>1, StepSound, PTL DEF Spec

(* The exit status of the scanner is true: what it reports was asked for   *)
(* and meets the target, and when it reports nothing there was nothing.    *)
THEOREM ExitStatusTrue == Spec => []StatusIsTrue
<1>1. ScanSound => StatusIsTrue
  BY DEF ScanSound
<1> QED BY <1>1, ScanAlwaysSound, PTL

(* No nonce is hashed twice.                                               *)
THEOREM NoNonceTwice == Spec => HashedOnce
<1>1. ScanSound => [\A t \in Threads : Hash(t) => index[t] \notin tested]_vars
  <2> SUFFICES ASSUME ScanSound, NEW t \in Threads, Hash(t)
               PROVE  index[t] \notin tested
    OBVIOUS
  <2>1. index[t] \in Nat /\ Holds(t, index[t])
    BY DEF ScanSound, TypeOK, ChunksSound, Hash, Holds
  <2> QED BY <2>1 DEF ScanSound, NothingSkipped
<1> QED BY <1>1, ScanAlwaysSound, PTL DEF HashedOnce
=============================================================================
