------------------------ MODULE PayoutLedger_proofs -------------------------
(***************************************************************************)
(* Theorems about PayoutLedger, for every number of blocks, workers and    *)
(* batches and every set of chains.                                        *)
(***************************************************************************)
EXTENDS PayoutLedger, FiniteSetTheorems, TLAPS

USE DEF nodeVars, sourceVars, batchVars, payVars, signerVars

(* The record of the snapshot after each step that changes it.             *)
LEMMA SnapTypes ==
  ASSUME TypeOK, Snapshot
  PROVE  snap' \in Snapshots
<1> USE ChainAssumption
<1>0. snap \in Snapshots /\ chain \in Seq(ChainBlocks) /\ Len(chain) \in Nat
  BY DEF TypeOK
<1>1. CASE SnapCount
  <2>1. snap' = [Idle EXCEPT !.stage = "counted", !.count = Len(chain)]
    BY <1>1 DEF SnapCount
  <2>2. Idle \in Snapshots
    BY DEF Idle, Snapshots
  <2> QED
    BY <1>0, <2>1, <2>2 DEF Snapshots
<1>2. CASE SnapTip
  <2>1. SubSeq(chain, 1, snap.count) \in Seq(ChainBlocks)
    BY <1>0, <1>2 DEF SnapTip, Snapshots
  <2> QED
    BY <1>0, <1>2, <2>1 DEF SnapTip, Snapshots
<1>6. CASE SnapHeights
  <2>1. RecordedHeights(snap.count) \subseteq Nat
    BY DEF RecordedHeights
  <2> QED
    BY <1>0, <1>6, <2>1 DEF SnapHeights, Snapshots
<1>3. CASE \E b \in Blocks : SnapHash(Height[b])
  <2>1. PICK h \in Nat :
          snap' = [snap EXCEPT !.todo = @ \ {h},
                               !.matched = @ \cup {b \in Blocks :
                                             Height[b] = h /\ chain[h] = b}]
    BY <1>3 DEF SnapHash
  <2>2. {b \in Blocks : Height[b] = h /\ chain[h] = b} \subseteq Blocks
    OBVIOUS
  <2> QED
    BY <1>0, <2>1, <2>2 DEF Snapshots
<1>4. CASE Reconcile
  BY <1>0, <1>4 DEF Reconcile, Snapshots
<1>5. CASE EndCommand
  BY <1>0, <1>5 DEF EndCommand, Snapshots, Idle
<1> QED
  BY <1>1, <1>2, <1>3, <1>4, <1>5, <1>6 DEF Snapshot

LEMMA SnapshotTypeOK ==
  ASSUME TypeOK, Snapshot
  PROVE  TypeOK'
<1>1. snap' \in Snapshots
  BY SnapTypes
<1>2. CASE SnapCount \/ SnapTip \/ SnapHeights \/ EndCommand
  BY <1>1, <1>2 DEF SnapCount, SnapTip, SnapHeights, EndCommand, TypeOK
<1>3. CASE \E b \in Blocks : SnapHash(Height[b])
  BY <1>1, <1>3 DEF SnapHash, TypeOK
<1>4. CASE Reconcile
  <2>1. verdict' \in [Blocks -> {"none", "yes", "no"}]
    BY <1>4 DEF Reconcile, NewVerdict, TypeOK
  <2>2. credit' \in [Rows -> CreditStates]
    BY <1>4 DEF Reconcile, NewCredit, TypeOK, CreditStates
  <2>3. batchState' \in [Batches -> BatchStates]
    BY <1>4 DEF Reconcile, TypeOK, BatchStates
  <2>4. snap.tip \in Seq(ChainBlocks)
    BY DEF TypeOK, Snapshots
  <2>5. reconTip' \in [Blocks -> Seq(ChainBlocks)]
    BY <1>4, <2>4 DEF Reconcile, TypeOK
  <2> QED
    BY <1>1, <1>4, <2>1, <2>2, <2>3, <2>5 DEF Reconcile, TypeOK
<1> QED
  BY <1>2, <1>3, <1>4 DEF Snapshot

LEMMA EnvironmentTypeOK ==
  ASSUME TypeOK, Environment
  PROVE  TypeOK'
<1>1. ASSUME NEW c \in Chains, ChainMoves(c)
      PROVE  TypeOK'
  <2>1. Deepest(c) \in Nat
    BY ChainAssumption, ParameterAssumption DEF Deepest
  <2> QED
    BY <1>1, <2>1 DEF ChainMoves, TypeOK
<1>2. ASSUME NEW b \in Blocks, PoolRecords(b)
      PROVE  TypeOK'
  BY <1>2 DEF PoolRecords, TypeOK, CreditStates
<1>3. ASSUME NEW i \in Batches, SignAndBroadcast(i) \/ PreflightAges(i)
      PROVE  TypeOK'
  BY <1>3 DEF SignAndBroadcast, PreflightAges, TypeOK
<1>4. ASSUME NEW i \in Batches, NEW n \in 0..MaxConf, TxConfirms(i, n)
      PROVE  TypeOK'
  <2>1. n \in Nat
    BY ParameterAssumption
  <2> QED
    BY <1>4, <2>1 DEF TxConfirms, TypeOK
<1> QED
  BY <1>1, <1>2, <1>3, <1>4 DEF Environment

LEMMA NewPlanType ==
  ASSUME TypeOK
  PROVE  NewPlan \in Plans
<1>1. Selected \subseteq Workers
  BY DEF Selected, Payable
<1>2. ASSUME NEW w \in Selected
      PROVE  address[w] \in Addresses
  <2>1. PICK r \in Eligible : r[2] = w
    BY DEF Selected, Payable
  <2> QED
    BY <1>1, <2>1 DEF Eligible, TypeOK
<1>3. {<<w, address[w]>> : w \in Selected} \subseteq Workers \X Addresses
  BY <1>1, <1>2
<1>4. {r \in Eligible : r[2] \in Selected} \subseteq Rows
  BY DEF Eligible
<1>5. snap.tip \in Seq(ChainBlocks)
  BY DEF TypeOK, Snapshots
<1> QED
  BY <1>3, <1>4, <1>5 DEF NewPlan, Plans

LEMMA CommandTypeOK ==
  ASSUME TypeOK, NEW i \in Batches, Command(i)
  PROVE  TypeOK'
<1>0. Idle \in Snapshots
  BY DEF Idle, Snapshots
<1>1. CASE CreatePlan(i)
  BY <1>0, <1>1, NewPlanType DEF CreatePlan, TypeOK, CreditStates, BatchStates
<1>2. CASE CancelBatch(i)
  BY <1>2 DEF CancelBatch, ReleaseLinks, Released, TypeOK, CreditStates,
              BatchStates
<1>3. CASE PersistPsbt(i)
  BY <1>0, <1>3 DEF PersistPsbt, TypeOK, BatchStates, PayStates
<1>4. CASE CheckPayment(i)
  <2>1. txConf[txid[i]] \in Nat
    BY <1>4 DEF CheckPayment, WalletKnows, TypeOK
  <2> QED
    BY <1>4, <2>1
    DEF CheckPayment, WalletKnows, RecordCheck, TypeOK, BatchStates, PayStates
<1>5. ASSUME NEW n \in Nat, SettleWith(i, n)
      PROVE  TypeOK'
  BY <1>5 DEF SettleWith, TypeOK, CreditStates, BatchStates, PayStates
<1>6. CASE SettleUnchecked(i)
  <2>1. confs[i] \in Nat
    BY DEF TypeOK
  <2> QED
    BY <1>5, <1>6, <2>1 DEF SettleUnchecked
<1>7. CASE Settle(i)
  <2>1. txConf[txid[i]] \in Nat
    BY <1>7 DEF Settle, WalletKnows, TypeOK
  <2> QED
    BY <1>5, <1>7, <2>1 DEF Settle, WalletKnows
<1>8. CASE CancelUnbroadcast(i)
  BY <1>0, <1>8 DEF CancelUnbroadcast, ReleaseLinks, Released, TypeOK,
                    CreditStates, BatchStates, PayStates
<1>9. ASSUME NEW valid \in BOOLEAN, Preflight(i, valid)
      PROVE  TypeOK'
  BY <1>0, <1>9 DEF Preflight, TypeOK
<1>10. ASSUME NEW t \in Batches, AttachTxid(i, t)
      PROVE  TypeOK'
  BY <1>10 DEF AttachTxid, TypeOK, BatchStates, PayStates
<1> QED
  BY <1>1, <1>2, <1>3, <1>4, <1>6, <1>7, <1>8, <1>9, <1>10
  DEF Command, GuardedAttach

(* The ledger only ever holds rows of the kinds its tables describe,       *)
(* whatever the chain does and wherever a command is interrupted.          *)
THEOREM TypeCorrect == Spec => []TypeOK
<1>1. Init => TypeOK
  <2> SUFFICES ASSUME Init PROVE TypeOK
    OBVIOUS
  <2>1. Deepest(chain) \in Nat
    BY ChainAssumption, ParameterAssumption DEF Init, Deepest
  <2>2. Idle \in Snapshots /\ NoPlan \in Plans
    BY DEF Idle, Snapshots, NoPlan, Plans
  <2> QED
    BY <2>1, <2>2 DEF Init, TypeOK, CreditStates, BatchStates, PayStates
<1>2. TypeOK /\ [Next]_vars => TypeOK'
  <2> SUFFICES ASSUME TypeOK, [Next]_vars PROVE TypeOK'
    OBVIOUS
  <2>1. CASE \E w \in Workers, a \in Addresses : Register(w, a)
    BY <2>1 DEF Register, TypeOK
  <2>2. CASE UNCHANGED vars
    BY <2>2 DEF vars, TypeOK
  <2> QED
    BY <2>1, <2>2, SnapshotTypeOK, EnvironmentTypeOK, CommandTypeOK DEF Next
<1> QED
  BY <1>1, <1>2, PTL DEF Spec

-----------------------------------------------------------------------------
(* The reservations.                                                       *)

LEMMA LinkTypes ==
  ASSUME TypeOK, NEW i \in Batches, NEW r \in Links(i)
  PROVE  r \in Rows /\ r[1] \in Blocks /\ Height[r[1]] \in Nat \ {0}
BY RowAssumption, ChainAssumption DEF TypeOK, Plans, Links

LEMMA ChainTypes ==
  ASSUME TypeOK
  PROVE  /\ chain \in Seq(ChainBlocks) /\ Len(chain) \in Nat /\ final \in Nat
         /\ snap.count \in Nat /\ snap.todo \subseteq Nat
         /\ snap.matched \subseteq Blocks
         /\ snap.tip \in Seq(ChainBlocks) /\ Len(snap.tip) \in Nat
         /\ Maturity \in Nat \ {0}
         /\ \A b \in Blocks : /\ Height[b] \in Nat \ {0}
                              /\ Len(reconTip[b]) \in Nat
BY ChainAssumption, ParameterAssumption DEF TypeOK, Snapshots

(* A reorganisation keeps every final block.                               *)
LEMMA FinalStable ==
  ASSUME Finality, TypeOK, NEW c \in Chains, ChainMoves(c),
         NEW b \in Blocks, Final(b)
  PROVE  Final(b)'
<1>1. Len(c) \in Nat /\ Deepest(c) \in Nat
  BY ChainAssumption, ParameterAssumption DEF Deepest
<1> QED
  BY <1>1, ChainTypes DEF ChainMoves, Final, On

LEMMA ChainMovesSound ==
  ASSUME Finality, TypeOK, LedgerSound, NEW c \in Chains, ChainMoves(c)
  PROVE  LedgerSound'
<1>1. Len(c) \in Nat
  BY ChainAssumption
<1>2. /\ chain' = c /\ final <= Len(c)
      /\ final' = IF Deepest(c) > final THEN Deepest(c) ELSE final
      /\ UNCHANGED <<snap, sourceVars, address, batchVars, payVars, preflight,
                     signerVars>>
  BY DEF ChainMoves
<1>3. /\ Deepest(c) \in Nat /\ Deepest(c) <= Len(c)
      /\ Len(c) < Deepest(c) + Maturity
  BY <1>1, ChainTypes DEF Deepest
<1>4. final' \in Nat /\ final' >= final
  BY <1>2, <1>3, ChainTypes
<1>5. ChainSound'
  BY <1>1, <1>2, <1>3, <1>4, ChainTypes DEF ChainSound
<1>6. SnapshotSound'
  <2>1. snap.count < final + Maturity => snap.count < final' + Maturity
    BY <1>4, ChainTypes
  <2>2. \A b \in snap.matched : Final(b) => Final(b)'
    BY FinalStable, ChainTypes
  <2> QED
    BY <1>2, <2>1, <2>2 DEF LedgerSound, SnapshotSound, Live, Links, Buries
<1>7. VerdictSound'
  BY <1>2, FinalStable DEF LedgerSound, VerdictSound, Buries
<1>8. LinksSound'
  <2>1. \A i \in Batches : \A r \in Links(i) : Final(r[1]) => Final(r[1])'
    BY FinalStable, LinkTypes
  <2> QED
    BY <1>2, <2>1 DEF LedgerSound, LinksSound, Live, Links
<1>9. OneReservation' /\ StatusMatchesBatches' /\ StatesAgree'
  BY <1>2 DEF LedgerSound, OneReservation, StatusMatchesBatches, StatesAgree,
              Holds, Live, Links
<1> QED
  BY <1>5, <1>6, <1>7, <1>8, <1>9 DEF LedgerSound

(* A new block touches no credit that a batch holds: its rows are new.     *)
LEMMA PoolRecordsSound ==
  ASSUME TypeOK, LedgerSound, NEW b \in Blocks, PoolRecords(b)
  PROVE  LedgerSound'
<1>1. /\ b \notin found /\ found' = found \cup {b}
      /\ credit' = [r \in Rows |-> IF r[1] = b THEN "pending" ELSE credit[r]]
      /\ UNCHANGED <<nodeVars, snap, verdict, reconTip, address, batchVars,
                     payVars, preflight, signerVars>>
  BY DEF PoolRecords
<1>2. ASSUME NEW r \in Rows, r[1] = b
      PROVE  credit[r] = "none"
  BY <1>1, <1>2 DEF LedgerSound, LinksSound
<1>3. ChainSound' /\ SnapshotSound' /\ VerdictSound'
  BY <1>1 DEF LedgerSound, ChainSound, SnapshotSound, VerdictSound, Live,
              Links, Final, On
<1>4. LinksSound'
  BY <1>1, <1>2 DEF LedgerSound, LinksSound, Live, Links, Final, On
<1>5. OneReservation' /\ StatesAgree'
  BY <1>1 DEF LedgerSound, OneReservation, StatesAgree, Holds, Live, Links
<1>6. StatusMatchesBatches'
  <2> SUFFICES ASSUME NEW r \in Rows
      PROVE  /\ credit'[r] = "planned" <=> credit[r] = "planned"
             /\ credit'[r] = "paid" <=> credit[r] = "paid"
    BY <1>1 DEF LedgerSound, StatusMatchesBatches, Live, Links
  <2> QED
    BY <1>1, <1>2
<1> QED
  BY <1>3, <1>4, <1>5, <1>6 DEF LedgerSound

(* Steps that leave the credits, the verdicts, the batches and the chain   *)
(* alone and keep the snapshot or drop it.                                 *)
LEMMA QuietSound ==
  ASSUME TypeOK, LedgerSound, snap' \in {snap, Idle},
         UNCHANGED <<nodeVars, sourceVars, batchVars, payVars>>,
         \A i \in Batches :
           sent'[i] => sent[i] \/ payState[i] \notin {"none", "cancelled"}
  PROVE  LedgerSound'
<1>1. ChainSound' /\ VerdictSound' /\ LinksSound'
  BY DEF LedgerSound, ChainSound, VerdictSound, LinksSound, Live, Links,
         Final, On
<1>2. SnapshotSound'
  <2>1. CASE snap' = snap
    BY <2>1 DEF LedgerSound, SnapshotSound, Live, Links, Final, On
  <2>2. CASE snap' = Idle
    BY <2>2 DEF SnapshotSound, Idle
  <2> QED
    BY <2>1, <2>2
<1>3. OneReservation' /\ StatusMatchesBatches'
  BY DEF LedgerSound, OneReservation, StatusMatchesBatches, Holds, Live, Links
<1>4. StatesAgree'
  BY DEF LedgerSound, TypeOK, PayStates, StatesAgree
<1> QED
  BY <1>1, <1>2, <1>3, <1>4 DEF LedgerSound

LEMMA EnvironmentSound ==
  ASSUME Finality, TypeOK, LedgerSound, Environment
  PROVE  LedgerSound'
<1>1. ASSUME NEW i \in Batches, SignAndBroadcast(i)
      PROVE  LedgerSound'
  <2>1. \A j \in Batches :
          sent'[j] => sent[j] \/ payState[j] \notin {"none", "cancelled"}
    BY <1>1 DEF SignAndBroadcast, TypeOK
  <2> QED
    BY <1>1, <2>1, QuietSound DEF SignAndBroadcast
<1>2. ASSUME NEW i \in Batches, PreflightAges(i)
      PROVE  LedgerSound'
  BY <1>2, QuietSound DEF PreflightAges
<1>3. ASSUME NEW i \in Batches, NEW n \in 0..MaxConf, TxConfirms(i, n)
      PROVE  LedgerSound'
  BY <1>3, QuietSound DEF TxConfirms
<1> QED
  BY <1>1, <1>2, <1>3, ChainMovesSound, PoolRecordsSound DEF Environment

LEMMA LiveLinks ==
  ASSUME TypeOK, LedgerSound, NEW i \in Batches, NEW r \in Links(i), Live(i)
  PROVE  /\ r \in Rows /\ r[1] \in Blocks /\ r[1] \in found
         /\ Final(r[1]) /\ verdict[r[1]] = "yes" /\ credit[r] = "planned"
BY LinkTypes DEF LedgerSound, LinksSound, StatusMatchesBatches

(* Reading steps: only the snapshot moves.                                 *)
LEMMA ReadingSound ==
  ASSUME TypeOK, LedgerSound, SnapshotSound',
         UNCHANGED <<nodeVars, sourceVars, batchVars, payVars, signerVars>>
  PROVE  LedgerSound'
<1>1. ChainSound' /\ VerdictSound' /\ LinksSound'
  BY DEF LedgerSound, ChainSound, VerdictSound, LinksSound, Live, Links,
         Final, On
<1>2. OneReservation' /\ StatusMatchesBatches' /\ StatesAgree'
  BY DEF LedgerSound, OneReservation, StatusMatchesBatches, StatesAgree,
         Holds, Live, Links
<1> QED
  BY <1>1, <1>2 DEF LedgerSound

LEMMA SnapCountSound ==
  ASSUME TypeOK, LedgerSound, SnapCount
  PROVE  LedgerSound'
<1>1. /\ snap'.stage = "counted" /\ snap'.count = Len(chain)
      /\ snap'.matched = {}
      /\ UNCHANGED <<nodeVars, sourceVars, address, batchVars, payVars,
                     preflight, signerVars>>
  BY DEF SnapCount, Idle
<1>2. snap'.count < final' + Maturity
  BY <1>1 DEF LedgerSound, ChainSound
<1>3. ASSUME NEW i \in Batches, NEW r \in Links(i), Live(i)
      PROVE  Height[r[1]] <= snap'.count
  BY <1>1, <1>3, LiveLinks DEF Final, On
<1>4. SnapshotSound'
  BY <1>1, <1>2, <1>3 DEF SnapshotSound, Live, Links
<1> QED
  BY <1>1, <1>4, ReadingSound

LEMMA SnapTipSound ==
  ASSUME TypeOK, LedgerSound, SnapTip
  PROVE  LedgerSound'
<1>1. /\ snap.stage = "counted" /\ snap.count <= Len(chain)
      /\ snap' = [snap EXCEPT !.stage = "tipped",
                              !.tip = SubSeq(chain, 1, snap.count)]
      /\ UNCHANGED <<nodeVars, sourceVars, address, batchVars, payVars,
                     preflight, signerVars>>
  BY DEF SnapTip
<1>2. /\ snap'.stage = "tipped" /\ snap'.count = snap.count
      /\ snap'.tip = SubSeq(chain, 1, snap.count)
      /\ snap'.matched = snap.matched
  BY <1>1 DEF TypeOK, Snapshots
<1>3. Len(snap'.tip) = snap'.count
  BY <1>1, <1>2, ChainTypes
<1>4. SnapshotSound'
  BY <1>1, <1>2, <1>3 DEF LedgerSound, SnapshotSound, Live, Links
<1> QED
  BY <1>1, <1>4, ReadingSound

LEMMA SnapHeightsSound ==
  ASSUME TypeOK, LedgerSound, SnapHeights
  PROVE  LedgerSound'
<1>1. /\ snap.stage = "tipped"
      /\ snap' = [snap EXCEPT !.stage = "hashing",
                              !.todo = RecordedHeights(snap.count)]
      /\ UNCHANGED <<nodeVars, sourceVars, address, batchVars, payVars,
                     preflight, signerVars>>
  BY DEF SnapHeights
<1>2. /\ snap'.stage = "hashing" /\ snap'.count = snap.count
      /\ snap'.tip = snap.tip
      /\ snap'.todo = RecordedHeights(snap.count)
      /\ snap'.matched = snap.matched
  BY <1>1 DEF TypeOK, Snapshots
<1>3. /\ snap.matched = {} /\ snap.count < final + Maturity
      /\ Len(snap.tip) = snap.count
  BY <1>1 DEF LedgerSound, SnapshotSound
<1>4. \A h \in snap'.todo : h <= snap'.count
  BY <1>2, ChainTypes DEF RecordedHeights
<1>5. ASSUME NEW i \in Batches, NEW r \in Links(i), Live(i)
      PROVE  Height[r[1]] \in snap'.todo
  <2>1. Height[r[1]] <= snap.count
    BY <1>1, <1>5 DEF LedgerSound, SnapshotSound
  <2> QED
    BY <1>2, <1>5, <2>1, LiveLinks, LinkTypes, ChainTypes DEF RecordedHeights
<1>6. SnapshotSound'
  BY <1>1, <1>2, <1>3, <1>4, <1>5 DEF SnapshotSound, Live, Links
<1> QED
  BY <1>1, <1>6, ReadingSound

LEMMA SnapHashSound ==
  ASSUME TypeOK, LedgerSound, NEW h \in Nat, SnapHash(h)
  PROVE  LedgerSound'
<1> DEFINE read == {b \in Blocks : Height[b] = h /\ chain[h] = b}
<1>1. /\ snap.stage = "hashing" /\ h \in snap.todo /\ h <= Len(chain)
      /\ snap' = [snap EXCEPT !.todo = @ \ {h}, !.matched = @ \cup read]
      /\ UNCHANGED <<nodeVars, sourceVars, address, batchVars, payVars,
                     preflight, signerVars>>
  BY DEF SnapHash
<1>2. /\ snap'.stage = "hashing" /\ snap'.count = snap.count
      /\ snap'.tip = snap.tip
      /\ snap'.todo = snap.todo \ {h}
      /\ snap'.matched = snap.matched \cup read
  BY <1>1 DEF TypeOK, Snapshots
<1>3. /\ snap.count < final + Maturity /\ Len(snap.tip) = snap.count
      /\ \A g \in snap.todo : g <= snap.count
      /\ \A b \in snap.matched : /\ Height[b] <= snap.count
                                 /\ Buries(snap.count, b) => Final(b)
  BY <1>1 DEF LedgerSound, SnapshotSound
<1>4. ASSUME NEW b \in read
      PROVE  Height[b] <= snap.count /\ (Buries(snap.count, b) => Final(b))
  <2>1. Height[b] = h /\ chain[h] = b /\ h <= snap.count
    BY <1>1, <1>3
  <2> QED
    BY <1>1, <1>3, <2>1, ChainTypes DEF Buries, Final, On
<1>5. ASSUME NEW i \in Batches, NEW r \in Links(i), Live(i)
      PROVE  r[1] \in snap'.matched \/ Height[r[1]] \in snap'.todo
  <2>1. r[1] \in snap.matched \/ Height[r[1]] \in snap.todo
    BY <1>1, <1>5 DEF LedgerSound, SnapshotSound
  <2>2. chain[Height[r[1]]] = r[1] /\ r[1] \in Blocks
    BY <1>5, LiveLinks DEF Final, On
  <2>3. Height[r[1]] = h => r[1] \in read
    BY <2>2
  <2> QED
    BY <1>2, <2>1, <2>3
<1>6. SnapshotSound'
  <2>1. \A b \in snap'.matched : /\ Height[b] <= snap'.count
                                 /\ Buries(snap'.count, b) => Final(b)'
    BY <1>1, <1>2, <1>3, <1>4 DEF Final, On
  <2> QED
    BY <1>1, <1>2, <1>3, <1>5, <2>1 DEF SnapshotSound, Live, Links, Buries
<1> QED
  BY <1>1, <1>6, ReadingSound

LEMMA ReconcileSound ==
  ASSUME TypeOK, LedgerSound, Reconcile
  PROVE  LedgerSound'
<1>1. /\ snap.stage = "hashing" /\ snap.todo = {}
      /\ verdict' = [b \in Blocks |-> NewVerdict(b)]
      /\ reconTip' = [b \in Blocks |-> IF b \in found THEN snap.tip
                                                      ELSE reconTip[b]]
      /\ credit' = [r \in Rows |-> NewCredit(r)]
      /\ UNCHANGED <<nodeVars, found, address, plan, payVars, preflight,
                     signerVars>>
  BY DEF Reconcile
<1>2. /\ snap'.stage = "applied" /\ snap'.count = snap.count
      /\ snap'.tip = snap.tip
  BY DEF Reconcile, TypeOK, Snapshots
<1>3. /\ snap.count < final + Maturity /\ Len(snap.tip) = snap.count
      /\ \A b \in snap.matched : Buries(snap.count, b) => Final(b)
  BY <1>1 DEF LedgerSound, SnapshotSound
<1>4. ASSUME NEW i \in Batches, NEW r \in Links(i), Live(i)
      PROVE  NewVerdict(r[1]) = "yes"
  <2>1. r[1] \in snap.matched /\ r[1] \in found
    BY <1>1, <1>4, LiveLinks DEF LedgerSound, SnapshotSound
  <2> QED
    BY <2>1 DEF NewVerdict
(* The credits of a live batch are safe, so nothing is invalidated.        *)
<1>5. \A i \in Batches : ~Orphaned(i)
  BY <1>4 DEF Orphaned, Live
<1>6. batchState' = batchState
  <2>1. batchState' = [i \in Batches |-> batchState[i]]
    BY <1>5 DEF Reconcile
  <2> QED
    BY <2>1 DEF TypeOK
<1>7. ASSUME NEW r \in Rows
      PROVE  /\ credit'[r] = "planned" <=> credit[r] = "planned"
             /\ credit'[r] = "paid" <=> credit[r] = "paid"
             /\ credit'[r] = "none" <=> credit[r] = "none"
  <2>1. credit'[r] = NewCredit(r)
    BY <1>1
  <2>2. ASSUME credit[r] = "planned"
        PROVE  NewVerdict(r[1]) = "yes"
    BY <1>4, <2>2 DEF LedgerSound, StatusMatchesBatches
  <2> QED
    BY <1>5, <2>1, <2>2 DEF NewCredit
<1>8. ChainSound' /\ SnapshotSound'
  <2>1. snap.count < final' + Maturity
    BY <1>1, <1>3
  <2>2. ChainSound'
    BY <1>1 DEF LedgerSound, ChainSound
  <2> QED
    BY <1>2, <1>3, <2>1, <2>2 DEF SnapshotSound
<1>9. VerdictSound'
  <2> SUFFICES ASSUME NEW b \in Blocks, verdict'[b] = "yes"
      PROVE  b \in found /\ (Buries(Len(reconTip'[b]), b) => Final(b))
    BY <1>1 DEF VerdictSound, Buries, Final, On
  <2>1. CASE b \in found
    <3>1. b \in snap.matched /\ reconTip'[b] = snap.tip
      BY <1>1, <2>1 DEF NewVerdict
    <3> QED
      BY <1>3, <2>1, <3>1
  <2>2. CASE b \notin found
    BY <1>1, <2>2 DEF NewVerdict, LedgerSound, VerdictSound
  <2> QED
    BY <2>1, <2>2
<1>10. LinksSound'
  <2>1. ASSUME NEW i \in Batches, NEW r \in Links(i), Live(i)
        PROVE  Final(r[1]) /\ verdict'[r[1]] = "yes"
    BY <1>1, <1>4, <2>1, LiveLinks
  <2> QED
    BY <1>1, <1>6, <1>7, <2>1 DEF LedgerSound, LinksSound, Live, Links, Final,
                                  On
<1>11. OneReservation' /\ StatesAgree' /\ StatusMatchesBatches'
  BY <1>1, <1>6, <1>7 DEF LedgerSound, OneReservation, StatesAgree,
     StatusMatchesBatches, Holds, Live, Links
<1> QED
  BY <1>8, <1>9, <1>10, <1>11 DEF LedgerSound

LEMMA SnapshotStepSound ==
  ASSUME TypeOK, LedgerSound, Snapshot
  PROVE  LedgerSound'
<1>1. CASE EndCommand
  BY <1>1, QuietSound DEF EndCommand
<1>2. CASE \E b \in Blocks : SnapHash(Height[b])
  BY <1>2, SnapHashSound, ChainTypes
<1> QED
  BY <1>1, <1>2, SnapCountSound, SnapTipSound, SnapHeightsSound, ReconcileSound
  DEF Snapshot

(* What is planned is pending, so no batch holds it, and mature by a sound *)
(* verdict, so it is final.                                                *)
LEMMA CreatePlanSound ==
  ASSUME TypeOK, LedgerSound, NEW i \in Batches, CreatePlan(i)
  PROVE  LedgerSound'
<1>1. /\ plan' = [plan EXCEPT ![i] = NewPlan]
      /\ batchState[i] = "absent"
      /\ batchState' = [batchState EXCEPT ![i] = "planned"]
      /\ credit' = [r \in Rows |-> IF r \in NewPlan.links THEN "planned"
                                                          ELSE credit[r]]
      /\ snap' = Idle
      /\ UNCHANGED <<nodeVars, found, verdict, reconTip, address, payVars,
                     preflight, signerVars>>
  BY DEF CreatePlan
<1>2. /\ Links(i)' = NewPlan.links
      /\ \A j \in Batches : j # i => Links(j)' = Links(j)
      /\ \A j \in Batches : batchState'[j] = IF j = i THEN "planned"
                                                      ELSE batchState[j]
  BY <1>1 DEF TypeOK, Links
<1>3. ASSUME NEW r \in NewPlan.links
      PROVE  /\ r \in Rows /\ credit[r] = "pending" /\ r[1] \in found
             /\ verdict[r[1]] = "yes" /\ Final(r[1])
  <2>1. r \in Eligible
    BY DEF NewPlan
  <2>2. r \in Rows /\ r[1] \in Blocks
    BY <2>1, RowAssumption DEF Eligible
  <2>3. Buries(Len(reconTip[r[1]]), r[1])
    BY <2>1, <2>2, ChainTypes DEF Eligible, Confirmations, Buries
  <2> QED
    BY <2>1, <2>2, <2>3 DEF Eligible, LedgerSound, VerdictSound
(* Nobody else holds one of its credits.                                   *)
<1>4. ASSUME NEW j \in Batches, j # i, Holds(j)
      PROVE  Links(j) \cap NewPlan.links = {}
  <2>1. ASSUME NEW r \in Links(j)
        PROVE  credit[r] \in {"planned", "paid"}
    BY <1>4, LinkTypes DEF LedgerSound, StatusMatchesBatches, Holds
  <2> QED
    BY <1>3, <2>1
<1>5. ChainSound' /\ VerdictSound' /\ SnapshotSound'
  BY <1>1 DEF LedgerSound, ChainSound, VerdictSound, SnapshotSound, Idle,
              Final, On
<1>6. LinksSound'
  <2>1. \A r \in Rows : credit'[r] # "none" => r[1] \in found
    BY <1>1, <1>3 DEF LedgerSound, LinksSound
  <2>2. ASSUME NEW j \in Batches, NEW r \in Links(j)', Live(j)'
        PROVE  Final(r[1]) /\ verdict[r[1]] = "yes"
    BY <1>2, <1>3, <2>2, LiveLinks DEF Live
  <2> QED
    BY <1>1, <2>1, <2>2 DEF LinksSound, Final, On
<1>7. OneReservation'
  <2>1. \A j \in Batches : j # i => (Holds(j)' <=> Holds(j))
    BY <1>2 DEF Holds, Live
  <2> QED
    BY <1>2, <1>4, <2>1 DEF LedgerSound, OneReservation
<1>8. StatusMatchesBatches'
  <2> SUFFICES ASSUME NEW r \in Rows
      PROVE  /\ credit'[r] = "planned" <=> \E j \in Batches :
                                             Live(j)' /\ r \in Links(j)'
             /\ credit'[r] = "paid" <=> \E j \in Batches :
                  batchState'[j] = "paid" /\ r \in Links(j)'
    BY DEF StatusMatchesBatches
  <2>1. CASE r \in NewPlan.links
    <3>1. credit'[r] = "planned" /\ Live(i)' /\ r \in Links(i)'
      BY <1>1, <1>2, <2>1 DEF Live
    <3>2. \A j \in Batches : ~(batchState'[j] = "paid" /\ r \in Links(j)')
      BY <1>2, <1>4, <2>1 DEF Holds
    <3> QED
      BY <3>1, <3>2
  <2>2. CASE r \notin NewPlan.links
    <3>1. credit'[r] = credit[r]
      BY <1>1, <2>2
    <3>2. ASSUME NEW j \in Batches
          PROVE  /\ Live(j)' /\ r \in Links(j)' <=> Live(j) /\ r \in Links(j)
                 /\ batchState'[j] = "paid" /\ r \in Links(j)'
                      <=> batchState[j] = "paid" /\ r \in Links(j)
      BY <1>1, <1>2, <2>2 DEF Live
    <3> QED
      BY <3>1, <3>2 DEF LedgerSound, StatusMatchesBatches
  <2> QED
    BY <2>1, <2>2
<1>9. StatesAgree'
  <2>1. ~sent[i] /\ payState[i] = "none"
    BY <1>1 DEF LedgerSound, StatesAgree, TypeOK, PayStates
  <2> QED
    BY <1>1, <1>2, <2>1 DEF LedgerSound, StatesAgree
<1> QED
  BY <1>5, <1>6, <1>7, <1>8, <1>9 DEF LedgerSound

(* A live batch ends: its credits go back, or are paid.                    *)
LEMMA BatchEndsSound ==
  ASSUME TypeOK, LedgerSound, NEW i \in Batches, Live(i),
         NEW end \in {"cancelled", "paid"},
         batchState' = [batchState EXCEPT ![i] = end],
         \A r \in Rows : /\ r \notin Links(i) => credit'[r] = credit[r]
                         /\ r \in Links(i) =>
                              credit'[r] = IF end = "paid" THEN "paid"
                                                           ELSE "pending",
         StatesAgree', snap' \in {snap, Idle}, snap'.stage = "idle",
         UNCHANGED <<nodeVars, found, verdict, reconTip, plan>>
  PROVE  LedgerSound'
<1>1. \A j \in Batches : /\ Links(j)' = Links(j)
                         /\ batchState'[j] = IF j = i THEN end
                                                      ELSE batchState[j]
  BY DEF Links, TypeOK
<1>2. ASSUME NEW j \in Batches, j # i, Holds(j)
      PROVE  Links(j) \cap Links(i) = {}
  BY <1>2 DEF LedgerSound, OneReservation, Holds
<1>3. ChainSound' /\ VerdictSound' /\ SnapshotSound'
  BY DEF LedgerSound, ChainSound, VerdictSound, SnapshotSound, Idle, Final, On
<1>4. LinksSound'
  <2>1. \A r \in Links(i) : r[1] \in found
    BY LiveLinks
  <2>2. \A j \in Batches : Live(j)' => Live(j)
    BY <1>1 DEF Live
  <2>3. \A r \in Rows : credit'[r] # "none" => r[1] \in found
    BY <2>1 DEF LedgerSound, LinksSound
  <2> QED
    BY <1>1, <2>2, <2>3 DEF LedgerSound, LinksSound, Final, On
<1>5. OneReservation'
  <2>1. \A j \in Batches : Holds(j)' => Holds(j)
    BY <1>1 DEF Holds, Live
  <2> QED
    BY <1>1, <2>1 DEF LedgerSound, OneReservation
<1>6. StatusMatchesBatches'
  <2> SUFFICES ASSUME NEW r \in Rows
      PROVE  /\ credit'[r] = "planned" <=> \E j \in Batches :
                                             Live(j)' /\ r \in Links(j)
             /\ credit'[r] = "paid" <=> \E j \in Batches :
                  batchState'[j] = "paid" /\ r \in Links(j)
    BY <1>1 DEF StatusMatchesBatches
  <2>1. CASE r \in Links(i)
    <3>1. \A j \in Batches : j # i => ~(Holds(j) /\ r \in Links(j))
      BY <1>2, <2>1
    <3>2. \A j \in Batches : ~(Live(j)' /\ r \in Links(j))
      BY <1>1, <3>1 DEF Live, Holds
    <3>3. (\E j \in Batches : batchState'[j] = "paid" /\ r \in Links(j))
            <=> end = "paid"
      BY <1>1, <2>1, <3>1 DEF Holds
    <3> QED
      BY <2>1, <3>2, <3>3
  <2>2. CASE r \notin Links(i)
    <3>1. ASSUME NEW j \in Batches
          PROVE  /\ Live(j)' /\ r \in Links(j) <=> Live(j) /\ r \in Links(j)
                 /\ batchState'[j] = "paid" /\ r \in Links(j)
                      <=> batchState[j] = "paid" /\ r \in Links(j)
      BY <1>1, <2>2 DEF Live
    <3> QED
      BY <2>2, <3>1 DEF LedgerSound, StatusMatchesBatches
  <2> QED
    BY <2>1, <2>2
<1> QED
  BY <1>3, <1>4, <1>5, <1>6 DEF LedgerSound

(* A live batch advances: it keeps its credits.                            *)
LEMMA BatchAdvancesSound ==
  ASSUME TypeOK, LedgerSound, StatesAgree', snap' \in {snap, Idle},
         UNCHANGED <<nodeVars, sourceVars, plan>>,
         \A i \in Batches :
           \/ batchState'[i] = batchState[i]
           \/ /\ Live(i)
              /\ batchState'[i] \in {"psbt_ready", "broadcast", "confirmed"}
  PROVE  LedgerSound'
<1>1. \A i \in Batches : /\ Live(i)' <=> Live(i)
                         /\ batchState'[i] = "paid" <=> batchState[i] = "paid"
                         /\ Links(i)' = Links(i)
  BY DEF Live, Links
<1>2. ChainSound' /\ VerdictSound' /\ LinksSound'
  BY <1>1 DEF LedgerSound, ChainSound, VerdictSound, LinksSound, Final, On
<1>3. SnapshotSound'
  <2>1. CASE snap' = snap
    BY <1>1, <2>1 DEF LedgerSound, SnapshotSound, Final, On
  <2>2. CASE snap' = Idle
    BY <2>2 DEF SnapshotSound, Idle
  <2> QED
    BY <2>1, <2>2
<1>4. OneReservation' /\ StatusMatchesBatches'
  BY <1>1 DEF LedgerSound, OneReservation, StatusMatchesBatches, Holds
<1> QED
  BY <1>2, <1>3, <1>4 DEF LedgerSound

LEMMA CommandSound ==
  ASSUME TypeOK, LedgerSound, NEW i \in Batches, Command(i)
  PROVE  LedgerSound'
<1>0. \A j \in Batches :
        /\ payState[j] # "none" => payState[j] = batchState[j]
        /\ payState[j] = "none" =>
             batchState[j] \in {"absent", "planned", "invalidated",
                                "cancelled"}
        /\ sent[j] => batchState[j] \in {"psbt_ready", "broadcast",
                                         "confirmed", "paid"}
        /\ txid[j] # NoTx <=> payState[j] \in {"broadcast", "confirmed",
                                               "paid"}
        /\ payState[j] \in PayStates
  BY DEF LedgerSound, StatesAgree, TypeOK
<1>a. ASSUME NEW r \in Links(i), Live(i)
      PROVE  r \in Rows /\ verdict[r[1]] = "yes" /\ credit[r] = "planned"
  BY <1>a, LiveLinks
<1>1. CASE CreatePlan(i)
  BY <1>1, CreatePlanSound
<1>2. CASE CancelBatch(i)
  <2>1. Live(i) /\ payState[i] = "none" /\ ~sent[i]
    BY <1>0, <1>2 DEF CancelBatch, Live, PayStates
  <2>2. StatesAgree'
    BY <1>0, <1>2, <2>1 DEF CancelBatch, StatesAgree, TypeOK
  <2>3. \A r \in Rows :
          /\ r \notin Links(i) => credit'[r] = credit[r]
          /\ r \in Links(i) => credit'[r] = "pending"
    BY <1>a, <1>2, <2>1 DEF CancelBatch, ReleaseLinks, Released
  <2> QED
    BY <1>2, <2>1, <2>2, <2>3, BatchEndsSound DEF CancelBatch
<1>3. CASE PersistPsbt(i)
  <2>1. StatesAgree'
    BY <1>0, <1>3 DEF PersistPsbt, StatesAgree, TypeOK
  <2> QED
    BY <1>3, <2>1, BatchAdvancesSound DEF PersistPsbt, Live, TypeOK
<1>4. CASE CheckPayment(i)
  <2>1. payState[i] \in {"broadcast", "confirmed", "paid"}
    BY <1>4 DEF CheckPayment, WalletKnows, LedgerSound, StatesAgree
  <2>2. batchState[i] = payState[i]
    BY <1>0, <2>1
  <2>3. /\ payState'[i] = batchState'[i]
        /\ batchState'[i] \in {"broadcast", "confirmed", "paid"}
        /\ batchState[i] = "paid" => batchState'[i] = "paid"
        /\ batchState'[i] = "paid" => batchState[i] = "paid"
        /\ \A j \in Batches : j # i => /\ payState'[j] = payState[j]
                                       /\ batchState'[j] = batchState[j]
    BY <1>4, <2>1, <2>2 DEF CheckPayment, WalletKnows, RecordCheck, TypeOK
  <2>4. StatesAgree'
    BY <1>4, <2>3 DEF CheckPayment, WalletKnows, StatesAgree, LedgerSound
  <2> QED
    BY <1>4, <2>1, <2>2, <2>3, <2>4, BatchAdvancesSound
    DEF CheckPayment, WalletKnows, Live
<1>5. ASSUME NEW n, SettleWith(i, n), txid[i] # NoTx, payState[i] # "paid"
      PROVE  LedgerSound'
  <2>1. payState[i] \in {"broadcast", "confirmed"} /\ Live(i)
    BY <1>0, <1>5 DEF LedgerSound, StatesAgree, Live
  <2>2. StatesAgree'
    BY <1>5 DEF SettleWith, LedgerSound, StatesAgree, TypeOK
  <2>3. \A r \in Rows : /\ r \notin Links(i) => credit'[r] = credit[r]
                        /\ r \in Links(i) => credit'[r] = "paid"
    BY <1>5 DEF SettleWith
  <2> QED
    BY <1>5, <2>1, <2>2, <2>3, BatchEndsSound DEF SettleWith
<1>6. CASE Settle(i)
  BY <1>5, <1>6 DEF Settle, WalletKnows
<1>7. CASE SettleUnchecked(i)
  BY <1>5, <1>7 DEF SettleUnchecked, LedgerSound, StatesAgree
<1>8. CASE CancelUnbroadcast(i)
  <2>1. Live(i) /\ batchState[i] = "psbt_ready"
    BY <1>0, <1>8 DEF CancelUnbroadcast, Live
  <2>2. batchState' = [batchState EXCEPT ![i] = "cancelled"]
    BY <1>8, <2>1 DEF CancelUnbroadcast
  <2>3. StatesAgree'
    BY <1>8, <2>2 DEF CancelUnbroadcast, LedgerSound, StatesAgree, TypeOK
  <2>4. \A r \in Rows :
          /\ r \notin Links(i) => credit'[r] = credit[r]
          /\ r \in Links(i) => credit'[r] = "pending"
    BY <1>a, <1>8, <2>1 DEF CancelUnbroadcast, ReleaseLinks, Released
  <2>5. snap' = Idle /\ snap'.stage = "idle"
    BY <1>8 DEF CancelUnbroadcast, Idle
  <2> QED
    BY <1>8, <2>1, <2>2, <2>3, <2>4, <2>5, BatchEndsSound
    DEF CancelUnbroadcast
<1>9. ASSUME NEW valid \in BOOLEAN, Preflight(i, valid)
      PROVE  LedgerSound'
  BY <1>9, QuietSound DEF Preflight
<1>10. ASSUME NEW t \in Batches, AttachTxid(i, t)
       PROVE  LedgerSound'
  <2>1. Live(i) /\ batchState[i] = "psbt_ready"
    BY <1>0, <1>10 DEF AttachTxid, Live
  <2>2. StatesAgree'
    BY <1>10, <2>1, IdentityAssumption
    DEF AttachTxid, LedgerSound, StatesAgree, TypeOK
  <2> QED
    BY <1>10, <2>1, <2>2, BatchAdvancesSound DEF AttachTxid, TypeOK
<1> QED
  BY <1>1, <1>2, <1>3, <1>4, <1>6, <1>7, <1>8, <1>9, <1>10
  DEF Command, GuardedAttach

LEMMA InitSound ==
  ASSUME Init
  PROVE  LedgerSound
<1>1. Len(chain) \in Nat /\ Maturity \in Nat \ {0}
  BY ChainAssumption, ParameterAssumption DEF Init
<1>2. ChainSound
  BY <1>1 DEF Init, Deepest, ChainSound
<1>3. \A i \in Batches : batchState[i] = "absent" /\ Links(i) = {}
  BY DEF Init, Links, NoPlan
<1>4. SnapshotSound /\ VerdictSound /\ LinksSound
  BY <1>3 DEF Init, Idle, SnapshotSound, VerdictSound, LinksSound
<1>5. OneReservation /\ StatusMatchesBatches /\ StatesAgree
  BY <1>3, IdentityAssumption
  DEF Init, OneReservation, StatusMatchesBatches, StatesAgree
<1> QED
  BY <1>2, <1>4, <1>5 DEF LedgerSound

(* One step of the ledger, or none, keeps it sound.                        *)
LEMMA StepSound ==
  ASSUME Finality, TypeOK, LedgerSound, [Next]_vars
  PROVE  LedgerSound'
<1>1. CASE \E w \in Workers, a \in Addresses : Register(w, a)
  BY <1>1, QuietSound DEF Register
<1>2. CASE UNCHANGED vars
  BY <1>2, QuietSound DEF vars
<1> QED
  BY <1>1, <1>2, EnvironmentSound, SnapshotStepSound, CommandSound DEF Next

(* The inductive invariant, when the maturity chosen covers every          *)
(* reorganisation that happens.                                            *)
THEOREM Sound == ASSUME Finality PROVE Spec => []LedgerSound
<1>1. Init => LedgerSound
  BY InitSound
<1>2. TypeOK /\ LedgerSound /\ [Next]_vars => LedgerSound'
  BY StepSound
<1> QED
  BY <1>1, <1>2, TypeCorrect, PTL DEF Spec

(* No credit is in two batches that hold it, however many batches there    *)
(* are and wherever the commands that made them were interrupted.          *)
THEOREM Reservations ==
  ASSUME Finality
  PROVE  Spec => []OneReservation
<1>1. LedgerSound => OneReservation
  BY DEF LedgerSound
<1> QED
  BY <1>1, Sound, PTL

(* A credit's status is that of the batches that link it, although         *)
(* separate statements of four scripts write the two.                      *)
THEOREM StatusesMatch ==
  ASSUME Finality
  PROVE  Spec => []StatusMatchesBatches
<1>1. LedgerSound => StatusMatchesBatches
  BY DEF LedgerSound
<1> QED
  BY <1>1, Sound, PTL

(* No credit is paid on chain twice.                                       *)
THEOREM PaidAtMostOnce ==
  ASSUME Finality
  PROVE  Spec => []NoDoublePayment
<1>1. LedgerSound => NoDoublePayment
  BY DEF LedgerSound, StatesAgree, OneReservation, NoDoublePayment, Holds,
         Live
<1> QED
  BY <1>1, Sound, PTL

(* Whenever the monitor advises to settle, no credit stands in the way;    *)
(* whenever it advises to sign and broadcast, no other transaction pays.   *)
THEOREM AdviceIsSound ==
  ASSUME Finality
  PROVE  Spec => []AdviceHolds
<1>1. ASSUME TypeOK, LedgerSound, NEW i \in Batches,
             payState[i] \in {"psbt_ready", "confirmed"}, NEW r \in Links(i)
      PROVE  /\ credit[r] = "planned"
             /\ \A j \in Batches : sent[j] /\ r \in Links(j) => j = i
  <2>1. Live(i) /\ Holds(i)
    BY <1>1 DEF LedgerSound, StatesAgree, Live, Holds
  <2>2. \A j \in Batches : sent[j] => Holds(j)
    BY <1>1 DEF LedgerSound, StatesAgree, Holds, Live
  <2> QED
    BY <1>1, <2>1, <2>2, LiveLinks DEF LedgerSound, OneReservation
<1>2. ASSUME NEW i \in Batches,
             \/ "settle" \in Advice(i)
             \/ "sign_broadcast_then_guarded_attach" \in Advice(i)
      PROVE  EffectiveState(i) \in {"psbt_ready", "confirmed"}
  BY <1>2 DEF Advice
<1>3. ASSUME TypeOK, LedgerSound, NEW i \in Batches,
             EffectiveState(i) \in {"psbt_ready", "confirmed"}
      PROVE  payState[i] \in {"psbt_ready", "confirmed"}
  BY <1>3 DEF EffectiveState, LedgerSound, StatesAgree
<1>4. TypeOK /\ LedgerSound => AdviceHolds
  BY <1>1, <1>2, <1>3 DEF AdviceHolds
<1> QED
  BY <1>4, Sound, TypeCorrect, PTL

-----------------------------------------------------------------------------
(* What holds however deep the reorganisations are.                        *)

(* A plan is written before its batch has a payment, so what an attached   *)
(* transaction pays never changes.                                         *)
LEMMA OutputsStay ==
  ASSUME NEW i \in Batches, NEW t \in Batches, OutputsMatch(i, t),
         plan'[i] = plan[i], plan'[t] = plan[t]
  PROVE  OutputsMatch(i, t)'
<1>1. \A a : Paid(i, a)' = Paid(i, a) /\ Paid(t, a)' = Paid(t, a)
  BY DEF Paid, Links
<1> QED
  BY <1>1 DEF OutputsMatch

(* Steps that attach no txid, and call a payment confirmed only when its   *)
(* outputs are verified.                                                   *)
LEMMA PaymentsStay ==
  ASSUME TypeOK, RecordsSound, txid' = txid,
         \A i \in Batches :
           /\ sent[i] => sent'[i]
           /\ plan'[i] = plan[i] \/ batchState[i] = "absent"
           /\ payState'[i] \in {"confirmed", "paid"}
                => WalletKnows(i) /\ OutputsMatch(i, txid[i])
  PROVE  TxidsSound' /\ PaymentProven'
<1>1. TxidsSound'
  BY IdentityAssumption DEF RecordsSound, TxidsSound, TypeOK
<1>2. ASSUME NEW i \in Batches, payState'[i] \in {"confirmed", "paid"}
      PROVE  /\ txid[i] \in Batches /\ sent'[txid[i]]
             /\ OutputsMatch(i, txid[i])'
             /\ \A j \in Batches : j # i => txid[j] # txid[i]
  <2>1. /\ txid[i] \in Batches /\ sent[txid[i]] /\ OutputsMatch(i, txid[i])
        /\ \A j \in Batches : j # i => txid[j] # txid[i]
    BY <1>2 DEF RecordsSound, TxidsSound, WalletKnows, TypeOK
  <2>2. batchState[i] # "absent" /\ batchState[txid[i]] # "absent"
    BY <1>2, <2>1, IdentityAssumption DEF RecordsSound, StatesAgree
  <2>3. plan'[i] = plan[i] /\ plan'[txid[i]] = plan[txid[i]]
    BY <2>1, <2>2
  <2> QED
    BY <2>1, <2>3, OutputsStay
<1> QED
  BY <1>1, <1>2 DEF PaymentProven

LEMMA Proven ==
  ASSUME RecordsSound, NEW i \in Batches,
         payState[i] \in {"confirmed", "paid"}
  PROVE  WalletKnows(i) /\ OutputsMatch(i, txid[i])
BY DEF RecordsSound, StatesAgree, PaymentProven, WalletKnows

(* Steps of the signer, the node, the snapshot.                            *)
LEMMA RecordsQuiet ==
  ASSUME TypeOK, RecordsSound,
         UNCHANGED <<sourceVars, batchVars, payVars>>,
         \A i \in Batches :
           /\ sent[i] => sent'[i]
           /\ sent'[i] => sent[i] \/ payState[i] \notin {"none", "cancelled"}
  PROVE  RecordsSound'
<1>1. TxidsSound' /\ PaymentProven'
  BY PaymentsStay, Proven
<1>2. StatesAgree'
  BY DEF RecordsSound, StatesAgree, TypeOK, PayStates
<1> QED
  BY <1>1, <1>2 DEF RecordsSound, SourcesFound, ReservedOnCanonical,
     CreditFollowsChain, PlannedOnCanonical, Links

LEMMA PoolRecordsRecords ==
  ASSUME TypeOK, RecordsSound, NEW b \in Blocks, PoolRecords(b)
  PROVE  RecordsSound'
<1>1. /\ b \notin found /\ found' = found \cup {b}
      /\ credit' = [r \in Rows |-> IF r[1] = b THEN "pending" ELSE credit[r]]
      /\ UNCHANGED <<verdict, batchVars, payVars, signerVars>>
  BY DEF PoolRecords
<1>2. verdict[b] = "none"
  BY <1>1 DEF RecordsSound, SourcesFound
<1>3. SourcesFound' /\ ReservedOnCanonical' /\ CreditFollowsChain'
  BY <1>1, <1>2 DEF RecordsSound, SourcesFound, ReservedOnCanonical,
                    CreditFollowsChain
<1>4. PlannedOnCanonical' /\ StatesAgree'
  BY <1>1 DEF RecordsSound, PlannedOnCanonical, StatesAgree, Links
<1>5. TxidsSound' /\ PaymentProven'
  BY <1>1, PaymentsStay, Proven
<1> QED
  BY <1>3, <1>4, <1>5 DEF RecordsSound

(* Reconciliation after a reorganisation of any depth.                     *)
LEMMA ReconcileRecords ==
  ASSUME TypeOK, RecordsSound, Reconcile
  PROVE  RecordsSound'
<1>1. /\ verdict' = [b \in Blocks |-> NewVerdict(b)]
      /\ batchState' = [i \in Batches |-> IF Orphaned(i) THEN "invalidated"
                                                         ELSE batchState[i]]
      /\ credit' = [r \in Rows |-> NewCredit(r)]
      /\ UNCHANGED <<found, plan, payVars, signerVars>>
  BY DEF Reconcile
<1>a. found' = found
  BY <1>1
<1>2. ASSUME NEW r \in Rows
      PROVE  r[1] \in Blocks /\ credit'[r] = NewCredit(r)
             /\ verdict'[r[1]] = NewVerdict(r[1])
  BY <1>1, RowAssumption
<1>3. ASSUME NEW b \in Blocks, verdict[b] = "yes"
      PROVE  NewVerdict(b) \in {"yes", "no"}
  BY <1>3 DEF NewVerdict
<1>4. SourcesFound'
  <2>1. \A r \in Rows : credit'[r] # "none" => credit[r] # "none"
    BY <1>2 DEF NewCredit
  <2>2. \A b \in Blocks : b \notin found => verdict'[b] = verdict[b]
    BY <1>1 DEF NewVerdict
  <2>3. SourcesFound
    BY DEF RecordsSound
  <2> QED
    BY <1>a, <2>1, <2>2, <2>3 DEF SourcesFound
<1>5. ReservedOnCanonical' /\ CreditFollowsChain'
  <2>1. ASSUME NEW r \in Rows
        PROVE  /\ NewCredit(r) = "planned" => credit[r] = "planned"
               /\ NewCredit(r) = "orphaned" => NewVerdict(r[1]) = "no"
               /\ NewCredit(r) \in {"pending", "planned"}
                    => NewVerdict(r[1]) # "no"
    BY DEF NewCredit
  <2>2. \A r \in Rows : credit[r] = "planned" => verdict[r[1]] = "yes"
    BY DEF RecordsSound, ReservedOnCanonical
  <2>3. \A r \in Rows : credit'[r] = "planned" => verdict'[r[1]] = "yes"
    BY <1>2, <1>3, <2>1, <2>2
  <2> QED
    BY <1>2, <2>1, <2>3 DEF ReservedOnCanonical, CreditFollowsChain
<1>6. PlannedOnCanonical'
  <2> SUFFICES ASSUME NEW i \in Batches, batchState'[i] = "planned",
                      NEW r \in Links(i)
               PROVE  verdict'[r[1]] = "yes"
    BY <1>1 DEF PlannedOnCanonical, Links
  <2>1. batchState[i] = "planned" /\ NewVerdict(r[1]) # "no"
    BY <1>1 DEF Orphaned
  <2>2. r[1] \in Blocks /\ verdict[r[1]] = "yes"
    BY <2>1, LinkTypes DEF RecordsSound, PlannedOnCanonical
  <2> QED
    BY <1>1, <1>3, <2>1, <2>2
<1>7. StatesAgree'
  <2>1. \A i \in Batches : Orphaned(i) => /\ payState[i] = "none"
                                          /\ ~sent[i]
    BY DEF Orphaned, RecordsSound, StatesAgree, TypeOK, PayStates
  <2> QED
    BY <1>1, <2>1 DEF RecordsSound, StatesAgree
<1>8. TxidsSound' /\ PaymentProven'
  BY <1>1, PaymentsStay, Proven
<1> QED
  BY <1>4, <1>5, <1>6, <1>7, <1>8 DEF RecordsSound

LEMMA CreatePlanRecords ==
  ASSUME TypeOK, RecordsSound, NEW i \in Batches, CreatePlan(i)
  PROVE  RecordsSound'
<1>1. /\ plan' = [plan EXCEPT ![i] = NewPlan]
      /\ batchState[i] = "absent"
      /\ batchState' = [batchState EXCEPT ![i] = "planned"]
      /\ credit' = [r \in Rows |-> IF r \in NewPlan.links THEN "planned"
                                                          ELSE credit[r]]
      /\ UNCHANGED <<found, verdict, payVars, signerVars>>
  BY DEF CreatePlan
<1>2. \A r \in NewPlan.links : /\ credit[r] = "pending"
                               /\ verdict[r[1]] = "yes"
  BY DEF NewPlan, Eligible
<1>3. SourcesFound' /\ ReservedOnCanonical' /\ CreditFollowsChain'
  BY <1>1, <1>2 DEF RecordsSound, SourcesFound, ReservedOnCanonical,
                    CreditFollowsChain
<1>4. PlannedOnCanonical'
  <2>1. /\ Links(i)' = NewPlan.links
        /\ \A j \in Batches : j # i => /\ Links(j)' = Links(j)
                                       /\ batchState'[j] = batchState[j]
    BY <1>1 DEF Links, TypeOK
  <2> QED
    BY <1>1, <1>2, <2>1 DEF RecordsSound, PlannedOnCanonical
<1>5. StatesAgree'
  <2>1. payState[i] = "none" /\ ~sent[i]
    BY <1>1 DEF RecordsSound, StatesAgree, TypeOK, PayStates
  <2> QED
    BY <1>1, <2>1 DEF RecordsSound, StatesAgree, TypeOK
<1>6. TxidsSound' /\ PaymentProven'
  <2>1. \A j \in Batches : plan'[j] = plan[j] \/ batchState[j] = "absent"
    BY <1>1 DEF TypeOK
  <2> QED
    BY <1>1, <2>1, PaymentsStay, Proven
<1> QED
  BY <1>3, <1>4, <1>5, <1>6 DEF RecordsSound

(* A batch that has a plan moves on, or is cancelled or paid: what its     *)
(* credits become must follow the verdicts.                                *)
LEMMA BatchMovesRecords ==
  ASSUME TypeOK, RecordsSound, StatesAgree',
         UNCHANGED <<found, verdict, plan, txid, sent>>,
         \A r \in Rows :
           \/ credit'[r] = credit[r]
           \/ credit[r] = "planned" /\ credit'[r] = Released(r)
           \/ credit'[r] = "paid" /\ credit[r] \in {"planned", "paid"},
         \A i \in Batches :
           /\ batchState'[i] = "planned" => batchState[i] = "planned"
           /\ payState'[i] \in {"confirmed", "paid"}
                => WalletKnows(i) /\ OutputsMatch(i, txid[i])
  PROVE  RecordsSound'
<1>1. TxidsSound' /\ PaymentProven'
  BY PaymentsStay
<1>2. SourcesFound' /\ ReservedOnCanonical' /\ CreditFollowsChain'
  BY DEF RecordsSound, SourcesFound, ReservedOnCanonical, CreditFollowsChain,
         Released
<1>3. PlannedOnCanonical'
  BY DEF RecordsSound, PlannedOnCanonical, Links
<1> QED
  BY <1>1, <1>2, <1>3 DEF RecordsSound

LEMMA AttachRecords ==
  ASSUME TypeOK, RecordsSound, NEW i \in Batches, NEW t \in Batches,
         AttachTxid(i, t)
  PROVE  RecordsSound'
<1>1. /\ payState[i] = "psbt_ready"
      /\ \A j \in Batches : txid[j] # t
      /\ txid' = [txid EXCEPT ![i] = t]
      /\ payState' = [payState EXCEPT ![i] = "broadcast"]
      /\ batchState' = [batchState EXCEPT ![i] = IF @ = "psbt_ready"
                                                 THEN "broadcast" ELSE @]
      /\ UNCHANGED <<sourceVars, plan, sent>>
  BY DEF AttachTxid
<1>2. batchState[i] = "psbt_ready" /\ txid[i] = NoTx /\ t # NoTx
  BY <1>1, IdentityAssumption DEF RecordsSound, StatesAgree
<1>3. StatesAgree'
  BY <1>1, <1>2 DEF RecordsSound, StatesAgree, TypeOK
<1>4. TxidsSound'
  BY <1>1 DEF RecordsSound, TxidsSound, TypeOK
<1>5. PaymentProven'
  <2> SUFFICES ASSUME NEW j \in Batches, payState'[j] \in {"confirmed", "paid"}
               PROVE  /\ txid'[j] \in Batches /\ sent'[txid'[j]]
                      /\ OutputsMatch(j, txid[j])'
                      /\ \A k \in Batches : k # j => txid'[k] # txid'[j]
    BY DEF PaymentProven
  <2>1. j # i /\ payState[j] \in {"confirmed", "paid"} /\ txid'[j] = txid[j]
    BY <1>1 DEF TypeOK
  <2>2. /\ txid[j] \in Batches /\ sent[txid[j]] /\ OutputsMatch(j, txid[j])
        /\ \A k \in Batches : k # j => txid[k] # txid[j]
    BY <2>1 DEF RecordsSound, PaymentProven
  <2>3. OutputsMatch(j, txid[j])'
    BY <1>1, <2>1, <2>2, OutputsStay
  <2>4. \A k \in Batches : k # j => txid'[k] # txid[j]
    BY <1>1, <2>2 DEF TypeOK
  <2> QED
    BY <1>1, <2>1, <2>2, <2>3, <2>4
<1>6. SourcesFound' /\ ReservedOnCanonical' /\ CreditFollowsChain'
  BY <1>1 DEF RecordsSound, SourcesFound, ReservedOnCanonical,
              CreditFollowsChain
<1>7. PlannedOnCanonical'
  <2>1. \A j \in Batches :
          /\ Links(j)' = Links(j)
          /\ batchState'[j] = "planned" => batchState[j] = "planned"
    BY <1>1, <1>2 DEF Links, TypeOK
  <2> QED
    BY <1>1, <2>1 DEF RecordsSound, PlannedOnCanonical
<1> QED
  BY <1>3, <1>4, <1>5, <1>6, <1>7 DEF RecordsSound

LEMMA CommandRecords ==
  ASSUME TypeOK, RecordsSound, NEW i \in Batches, Command(i)
  PROVE  RecordsSound'
<1>0. \A j \in Batches :
        /\ payState[j] # "none" => payState[j] = batchState[j]
        /\ txid[j] # NoTx <=> payState[j] \in {"broadcast", "confirmed",
                                               "paid"}
        /\ payState[j] \in {"confirmed", "paid"}
             => WalletKnows(j) /\ OutputsMatch(j, txid[j])
  BY Proven DEF RecordsSound, StatesAgree
<1>1. CASE CreatePlan(i)
  BY <1>1, CreatePlanRecords
<1>2. CASE CancelBatch(i)
  <2>1. payState[i] = "none" /\ ~sent[i]
    BY <1>2 DEF CancelBatch, RecordsSound, StatesAgree, TypeOK, PayStates
  <2>2. StatesAgree'
    BY <1>2, <2>1 DEF CancelBatch, RecordsSound, StatesAgree, TypeOK
  <2>3. \A j \in Batches :
          batchState'[j] = "planned" => batchState[j] = "planned"
    BY <1>2 DEF CancelBatch, TypeOK
  <2> QED
    BY <1>0, <1>2, <2>2, <2>3, BatchMovesRecords DEF CancelBatch, ReleaseLinks
<1>3. CASE PersistPsbt(i)
  <2>1. StatesAgree'
    BY <1>3 DEF PersistPsbt, RecordsSound, StatesAgree, TypeOK
  <2>2. \A j \in Batches :
          /\ batchState'[j] = "planned" => batchState[j] = "planned"
          /\ payState'[j] \in {"confirmed", "paid"}
               => payState[j] = payState'[j]
    BY <1>3 DEF PersistPsbt, TypeOK
  <2> QED
    BY <1>0, <1>3, <2>1, <2>2, BatchMovesRecords DEF PersistPsbt
<1>4. CASE CheckPayment(i)
  <2>1. payState[i] = batchState[i]
        /\ payState[i] \in {"broadcast", "confirmed", "paid"}
    BY <1>0, <1>4 DEF CheckPayment, WalletKnows
  <2>2. /\ payState'[i] = batchState'[i]
        /\ batchState'[i] \in {"broadcast", "confirmed", "paid"}
        /\ \A j \in Batches : j # i => /\ payState'[j] = payState[j]
                                       /\ batchState'[j] = batchState[j]
    BY <1>4, <2>1 DEF CheckPayment, WalletKnows, RecordCheck, TypeOK
  <2>3. StatesAgree'
    BY <1>4, <2>2 DEF CheckPayment, WalletKnows, RecordsSound, StatesAgree
  <2> QED
    BY <1>0, <1>4, <2>2, <2>3, BatchMovesRecords DEF CheckPayment
<1>5. ASSUME NEW n, SettleWith(i, n), WalletKnows(i),
             OutputsMatch(i, txid[i])
      PROVE  RecordsSound'
  <2>1. StatesAgree'
    BY <1>0, <1>5 DEF SettleWith, WalletKnows, RecordsSound, StatesAgree,
                      TypeOK
  <2>2. \A j \in Batches :
          /\ batchState'[j] = "planned" => batchState[j] = "planned"
          /\ j # i => payState'[j] = payState[j]
    BY <1>5 DEF SettleWith, TypeOK
  <2> QED
    BY <1>0, <1>5, <2>1, <2>2, BatchMovesRecords DEF SettleWith
<1>6. CASE Settle(i) \/ SettleUnchecked(i)
  BY <1>0, <1>5, <1>6 DEF Settle, SettleUnchecked
<1>7. CASE CancelUnbroadcast(i)
  <2>1. batchState' = [batchState EXCEPT ![i] = "cancelled"]
    BY <1>0, <1>7 DEF CancelUnbroadcast
  <2>2. StatesAgree'
    BY <1>7, <2>1 DEF CancelUnbroadcast, RecordsSound, StatesAgree, TypeOK
  <2>3. \A j \in Batches :
          /\ batchState'[j] = "planned" => batchState[j] = "planned"
          /\ payState'[j] \in {"confirmed", "paid"}
               => payState[j] = payState'[j]
    BY <1>7, <2>1 DEF CancelUnbroadcast, TypeOK
  <2> QED
    BY <1>0, <1>7, <2>2, <2>3, BatchMovesRecords
    DEF CancelUnbroadcast, ReleaseLinks
<1>8. ASSUME NEW valid \in BOOLEAN, Preflight(i, valid)
      PROVE  RecordsSound'
  BY <1>8, RecordsQuiet DEF Preflight
<1> QED
  BY <1>1, <1>2, <1>3, <1>4, <1>6, <1>7, <1>8, AttachRecords
  DEF Command, GuardedAttach

LEMMA EnvironmentRecords ==
  ASSUME TypeOK, RecordsSound, Environment
  PROVE  RecordsSound'
<1>1. ASSUME NEW c \in Chains, ChainMoves(c)
      PROVE  RecordsSound'
  BY <1>1, RecordsQuiet DEF ChainMoves
<1>2. ASSUME NEW i \in Batches, SignAndBroadcast(i)
      PROVE  RecordsSound'
  BY <1>2, RecordsQuiet DEF SignAndBroadcast, TypeOK
<1>3. ASSUME NEW i \in Batches,
             PreflightAges(i) \/ \E n \in 0..MaxConf : TxConfirms(i, n)
      PROVE  RecordsSound'
  BY <1>3, RecordsQuiet DEF PreflightAges, TxConfirms
<1> QED
  BY <1>1, <1>2, <1>3, PoolRecordsRecords DEF Environment

LEMMA RecordsStep ==
  ASSUME TypeOK, RecordsSound, [Next]_vars
  PROVE  RecordsSound'
<1>1. CASE \E w \in Workers, a \in Addresses : Register(w, a)
  BY <1>1, RecordsQuiet DEF Register
<1>2. CASE SnapCount \/ SnapTip \/ SnapHeights \/ EndCommand
  BY <1>2, RecordsQuiet DEF SnapCount, SnapTip, SnapHeights, EndCommand
<1>3. CASE \E b \in Blocks : SnapHash(Height[b])
  BY <1>3, RecordsQuiet DEF SnapHash
<1>4. CASE UNCHANGED vars
  BY <1>4, RecordsQuiet DEF vars
<1> QED
  BY <1>1, <1>2, <1>3, <1>4, ReconcileRecords, EnvironmentRecords,
     CommandRecords DEF Next, Snapshot

(* The inductive invariant of the ledger's own records: it needs no bound  *)
(* on the depth of reorganisations.                                        *)
THEOREM RecordsAlwaysSound == Spec => []RecordsSound
<1>1. Init => RecordsSound
  <2> SUFFICES ASSUME Init PROVE RecordsSound
    OBVIOUS
  <2>1. /\ SourcesFound /\ ReservedOnCanonical /\ TxidsSound
        /\ CreditFollowsChain /\ PlannedOnCanonical
    BY RowAssumption DEF Init, SourcesFound, ReservedOnCanonical, TxidsSound,
                         CreditFollowsChain, PlannedOnCanonical
  <2>2. StatesAgree /\ PaymentProven
    BY IdentityAssumption DEF Init, StatesAgree, PaymentProven
  <2> QED
    BY <2>1, <2>2 DEF RecordsSound
<1>2. TypeOK /\ RecordsSound /\ [Next]_vars => RecordsSound'
  BY RecordsStep
<1> QED
  BY <1>1, <1>2, TypeCorrect, PTL DEF Spec

(* A payment and its batch tell the same story, although separate          *)
(* statements with separate guards write them, however the chain moves.    *)
THEOREM RecordsAgree == Spec => []StatesAgree
<1>1. RecordsSound => StatesAgree
  BY DEF RecordsSound
<1> QED
  BY <1>1, RecordsAlwaysSound, PTL

(* The status of an unpaid credit follows the last verdict on its block.   *)
THEOREM CreditsFollowChain == Spec => []CreditFollowsChain
<1>1. RecordsSound => CreditFollowsChain
  BY DEF RecordsSound
<1> QED
  BY <1>1, RecordsAlwaysSound, PTL

(* No planned batch pays for a block that the last reconciliation found    *)
(* off the chain.                                                          *)
THEOREM PlansAreCanonical == Spec => []PlannedOnCanonical
<1>1. RecordsSound => PlannedOnCanonical
  BY DEF RecordsSound
<1> QED
  BY <1>1, RecordsAlwaysSound, PTL

(* What the ledger calls confirmed or paid, a broadcast transaction of its *)
(* own pays to the satoshi, whatever txid the operator attached.           *)
THEOREM PaymentsAreProven == Spec => []PaymentProven
<1>1. RecordsSound => PaymentProven
  BY DEF RecordsSound
<1> QED
  BY <1>1, RecordsAlwaysSound, PTL

(* Paid credits, ended batches and attached transactions are for good.     *)
THEOREM TerminalForGood == Spec => NothingReturns
<1> DEFINE Kept ==
      /\ \A r \in Rows : credit[r] = "paid" => credit'[r] = "paid"
      /\ \A i \in Batches :
           /\ batchState[i] \in {"invalidated", "cancelled", "paid"}
                => batchState'[i] = batchState[i]
           /\ payState[i] \in {"paid", "cancelled"}
                => payState'[i] = payState[i]
           /\ txid[i] # NoTx => txid'[i] = txid[i]
<1>1. TypeOK /\ RecordsSound /\ [Next]_vars => [Kept]_vars
  <2> SUFFICES ASSUME TypeOK, RecordsSound, Next PROVE Kept
    OBVIOUS
  <2>0. \A j \in Batches :
          /\ payState[j] # "none" => payState[j] = batchState[j]
          /\ payState[j] = "none" => batchState[j] \in
               {"absent", "planned", "invalidated", "cancelled"}
          /\ txid[j] # NoTx <=> payState[j] \in {"broadcast", "confirmed",
                                                 "paid"}
    BY DEF RecordsSound, StatesAgree
  <2>1. ASSUME UNCHANGED <<credit, batchVars, payVars>>
        PROVE  Kept
    BY <2>1
  <2>2. ASSUME NEW b \in Blocks, PoolRecords(b)
        PROVE  Kept
    BY <2>2 DEF PoolRecords, RecordsSound, SourcesFound
  <2>3. CASE Reconcile
    BY <2>3 DEF Reconcile, NewCredit, Orphaned
  <2>4. ASSUME NEW i \in Batches, CreatePlan(i)
        PROVE  Kept
    BY <2>4 DEF CreatePlan, NewPlan, Eligible, TypeOK
  <2>5. ASSUME NEW i \in Batches, CancelBatch(i) \/ CancelUnbroadcast(i)
        PROVE  Kept
    BY <2>0, <2>5 DEF CancelBatch, CancelUnbroadcast, ReleaseLinks, TypeOK
  <2>6. ASSUME NEW i \in Batches, PersistPsbt(i)
        PROVE  Kept
    BY <2>6 DEF PersistPsbt, TypeOK
  <2>7. ASSUME NEW i \in Batches, CheckPayment(i)
        PROVE  Kept
    BY <2>0, <2>7 DEF CheckPayment, WalletKnows, RecordCheck, TypeOK
  <2>8. ASSUME NEW i \in Batches, NEW n, SettleWith(i, n), txid[i] # NoTx
        PROVE  Kept
    BY <2>0, <2>8 DEF SettleWith, TypeOK
  <2>9. ASSUME NEW i \in Batches, NEW t \in Batches, AttachTxid(i, t)
        PROVE  Kept
    BY <2>0, <2>9 DEF AttachTxid, TypeOK
  <2>10. ASSUME NEW i \in Batches, Settle(i) \/ SettleUnchecked(i)
         PROVE  Kept
    BY <2>0, <2>8, <2>10 DEF Settle, WalletKnows, SettleUnchecked
  <2>11. CASE Environment
    BY <2>1, <2>2, <2>11 DEF Environment, ChainMoves, SignAndBroadcast,
                             PreflightAges, TxConfirms
  <2>12. CASE Snapshot
    BY <2>1, <2>3, <2>12
    DEF Snapshot, SnapCount, SnapTip, SnapHeights, SnapHash, EndCommand
  <2>13. ASSUME NEW i \in Batches, Command(i)
         PROVE  Kept
    BY <2>1, <2>4, <2>5, <2>6, <2>7, <2>9, <2>10, <2>13
    DEF Command, GuardedAttach, Preflight
  <2>14. CASE \E w \in Workers, a \in Addresses : Register(w, a)
    BY <2>1, <2>14 DEF Register
  <2> HIDE DEF Kept
  <2> QED
    BY <2>11, <2>12, <2>13, <2>14 DEF Next
<1> QED
  BY <1>1, RecordsAlwaysSound, TypeCorrect, PTL DEF Spec, NothingReturns

-----------------------------------------------------------------------------
(* The ledger implements PayOnce, as long as no reorganisation is deeper   *)
(* than the maturity the operator chose.                                   *)

Stages == [r \in Rows |-> Stage(r)]
Payers(r) == {i \in Batches : sent[i] /\ r \in Links(i)}
Times == [r \in Rows |-> Cardinality(Payers(r))]

PromiseStep == Promise!Next \/ (Stages' = Stages /\ Times' = Times)

(* Only holding, broadcasting and the existence of the credit matter.      *)
LEMMA PromiseStutter ==
  ASSUME plan' = plan, sent' = sent,
         \A i \in Batches : Holds(i)' <=> Holds(i),
         \A r \in Rows : credit'[r] = "none" <=> credit[r] = "none"
  PROVE  Stages' = Stages /\ Times' = Times
<1>1. \A i \in Batches : Links(i)' = Links(i)
  BY DEF Links
<1>2. \A r \in Rows : Stage(r)' = Stage(r)
  BY <1>1 DEF Stage, Disbursed, Reserved
<1>3. \A r \in Rows : Payers(r)' = Payers(r)
  BY <1>1 DEF Payers
<1> QED
  BY <1>2, <1>3 DEF Stages, Times

(* Under LedgerSound the stage of a credit can be read from any one batch  *)
(* that holds it.                                                          *)
LEMMA StageOfHeld ==
  ASSUME TypeOK, LedgerSound, NEW i \in Batches, NEW r \in Links(i), Holds(i)
  PROVE  /\ r \in Rows
         /\ Stage(r) = IF sent[i] THEN "disbursed" ELSE "reserved"
         /\ Payers(r) = IF sent[i] THEN {i} ELSE {}
<1>1. r \in Rows
  BY LinkTypes
<1>2. credit[r] # "none"
  BY <1>1 DEF LedgerSound, StatusMatchesBatches, Holds
<1>3. ASSUME NEW j \in Batches, sent[j], r \in Links(j)
      PROVE  j = i
  BY <1>3 DEF LedgerSound, StatesAgree, OneReservation, Holds, Live
<1>4. Disbursed(r) <=> sent[i]
  BY <1>3 DEF Disbursed
<1>5. Reserved(r)
  BY DEF Reserved
<1>6. Payers(r) = IF sent[i] THEN {i} ELSE {}
  BY <1>3 DEF Payers
<1> QED
  BY <1>1, <1>2, <1>4, <1>5, <1>6 DEF Stage

(* A pending credit is owed: nobody holds it or has paid it.               *)
LEMMA StageOfPending ==
  ASSUME TypeOK, LedgerSound, NEW r \in Rows, credit[r] = "pending"
  PROVE  Stage(r) = "owed" /\ Payers(r) = {}
<1>1. ASSUME NEW j \in Batches, r \in Links(j)
      PROVE  ~Holds(j) /\ ~sent[j]
  BY <1>1 DEF LedgerSound, StatusMatchesBatches, StatesAgree, Holds, Live
<1> QED
  BY <1>1 DEF Stage, Disbursed, Reserved, Payers

LEMMA PromiseInit ==
  ASSUME Init
  PROVE  Promise!Init
<1>1. \A i \in Batches : Links(i) = {}
  BY DEF Init, Links, NoPlan
<1>2. \A r \in Rows : Stage(r) = "absent"
  BY DEF Init, Stage
<1>3. \A r \in Rows : Payers(r) = {}
  BY <1>1 DEF Payers
<1>4. Cardinality({}) = 0
  BY FS_EmptySet
<1> QED
  BY <1>2, <1>3, <1>4 DEF Promise!Init, Payers

LEMMA AccruesOwed ==
  ASSUME TypeOK, LedgerSound, NEW b \in Blocks, PoolRecords(b)
  PROVE  PromiseStep
<1> DEFINE S == {r \in Rows : r[1] = b}
<1>1. /\ b \notin found
      /\ credit' = [r \in Rows |-> IF r[1] = b THEN "pending" ELSE credit[r]]
      /\ UNCHANGED <<batchVars, signerVars>>
  BY DEF PoolRecords
<1>2. \A r \in S : credit[r] = "none"
  BY <1>1 DEF LedgerSound, LinksSound
<1>3. /\ \A i \in Batches : Holds(i)' <=> Holds(i)
      /\ \A i \in Batches : Links(i)' = Links(i)
  BY <1>1 DEF Holds, Live, Links
<1>4. \A r \in Rows : Payers(r)' = Payers(r)
  BY <1>1, <1>3 DEF Payers
<1>5. ASSUME NEW r \in S
      PROVE  Stage(r) = "absent" /\ Stage(r)' = "owed"
  <2>1. ASSUME NEW i \in Batches, r \in Links(i)
        PROVE  ~Holds(i) /\ ~sent[i]
    BY <1>2, <2>1 DEF LedgerSound, StatusMatchesBatches, StatesAgree, Holds,
                      Live
  <2>2. ~Disbursed(r)' /\ ~Reserved(r)'
    BY <1>1, <1>3, <2>1 DEF Disbursed, Reserved
  <2> QED
    BY <1>1, <1>2, <2>2 DEF Stage
<1>6. ASSUME NEW r \in Rows, r \notin S
      PROVE  Stage(r)' = Stage(r)
  BY <1>1, <1>3, <1>6 DEF Stage, Disbursed, Reserved
<1>7. CASE S = {}
  BY <1>4, <1>6, <1>7 DEF PromiseStep, Stages, Times
<1>8. CASE S # {}
  <2>1. Promise!Accrue(S)
    BY <1>4, <1>5, <1>6, <1>8
    DEF Promise!Accrue, Promise!Move, Payers
  <2> QED
    BY <2>1 DEF PromiseStep, Promise!Next
<1> QED
  BY <1>7, <1>8

LEMMA PlansReserve ==
  ASSUME TypeOK, LedgerSound, LedgerSound', TypeOK',
         NEW i \in Batches, CreatePlan(i)
  PROVE  PromiseStep
<1> DEFINE S == NewPlan.links
<1>1. /\ plan' = [plan EXCEPT ![i] = NewPlan] /\ Selected # {}
      /\ batchState[i] = "absent"
      /\ batchState' = [batchState EXCEPT ![i] = "planned"]
      /\ credit' = [r \in Rows |-> IF r \in S THEN "planned" ELSE credit[r]]
      /\ sent' = sent
  BY DEF CreatePlan
<1>2. /\ Links(i)' = S
      /\ \A j \in Batches : j # i => Links(j)' = Links(j)
      /\ \A j \in Batches : j # i => (Holds(j)' <=> Holds(j))
      /\ Holds(i)' /\ ~Holds(i)
  BY <1>1 DEF TypeOK, Links, Holds, Live
<1>3. ~sent[i]
  BY <1>1 DEF LedgerSound, StatesAgree
<1>4. \A r \in S : r \in Rows /\ credit[r] = "pending"
  BY DEF NewPlan, Eligible
<1>5. ASSUME NEW r \in S
      PROVE  /\ Stage(r) = "owed" /\ Stage(r)' = "reserved"
             /\ Payers(r)' = Payers(r)
  <2>1. Stage(r) = "owed" /\ Payers(r) = {}
    BY <1>4, StageOfPending
  <2>2. \A j \in Batches : r \in Links(j)' => ~sent'[j]
    BY <1>1, <1>2, <1>3, <2>1 DEF Payers
  <2>3. credit'[r] # "none" /\ ~Disbursed(r)' /\ Reserved(r)'
    BY <1>1, <1>2, <1>4, <2>2 DEF Disbursed, Reserved
  <2> QED
    BY <2>1, <2>2, <2>3 DEF Stage, Payers
<1>6. ASSUME NEW r \in Rows, r \notin S
      PROVE  Stage(r)' = Stage(r) /\ Payers(r)' = Payers(r)
  <2>1. (Disbursed(r)' <=> Disbursed(r)) /\ Payers(r)' = Payers(r)
    BY <1>1, <1>2, <1>3, <1>6 DEF Disbursed, Payers
  <2>2. Reserved(r)' <=> Reserved(r)
    BY <1>2, <1>6 DEF Reserved
  <2> QED
    BY <1>1, <1>6, <2>1, <2>2 DEF Stage
<1>7. S # {}
  <2>1. PICK w \in Selected : TRUE
    BY <1>1
  <2>2. PICK r \in Eligible : r[2] = w
    BY DEF Selected, Payable
  <2> QED
    BY <2>1, <2>2 DEF NewPlan
<1>8. Promise!Reserve(S)
  BY <1>4, <1>5, <1>6, <1>7 DEF Promise!Reserve, Promise!Move, Payers
<1> QED
  BY <1>4, <1>8 DEF PromiseStep, Promise!Next

(* A batch that never paid gives its credits back.                         *)
LEMMA CancelReleases ==
  ASSUME TypeOK, LedgerSound, NEW i \in Batches, Live(i), ~sent[i],
         plan' = plan, sent' = sent,
         batchState' = [batchState EXCEPT ![i] = "cancelled"],
         \A r \in Rows : /\ credit'[r] = "none" <=> credit[r] = "none"
  PROVE  PromiseStep
<1> DEFINE S == Links(i)
<1>1. /\ \A j \in Batches : Links(j)' = Links(j)
      /\ \A j \in Batches : j # i => (Holds(j)' <=> Holds(j))
      /\ ~Holds(i)' /\ Holds(i)
  BY DEF TypeOK, Links, Holds, Live
<1>2. \A r \in Rows : Payers(r)' = Payers(r)
  BY <1>1 DEF Payers
<1>3. ASSUME NEW r \in S
      PROVE  r \in Rows /\ Stage(r) = "reserved" /\ Stage(r)' = "owed"
  <2>1. r \in Rows /\ Stage(r) = "reserved" /\ Payers(r) = {}
    BY <1>1, StageOfHeld
  <2>2. ~Disbursed(r)'
    BY <1>1, <2>1 DEF Payers, Disbursed
  <2>3. ~Reserved(r)'
    BY <1>1 DEF LedgerSound, OneReservation, Reserved
  <2>4. credit'[r] # "none"
    BY <2>1 DEF Stage
  <2> QED
    BY <2>1, <2>2, <2>3, <2>4 DEF Stage
<1>4. ASSUME NEW r \in Rows, r \notin S
      PROVE  Stage(r)' = Stage(r)
  <2>1. (Disbursed(r)' <=> Disbursed(r)) /\ (Reserved(r)' <=> Reserved(r))
    BY <1>1, <1>4 DEF Disbursed, Reserved
  <2> QED
    BY <2>1 DEF Stage
<1>5. CASE S = {}
  BY <1>2, <1>4, <1>5 DEF PromiseStep, Stages, Times
<1>6. CASE S # {}
  <2>1. Promise!Release(S)
    BY <1>2, <1>3, <1>4, <1>6 DEF Promise!Release, Promise!Move, Payers
  <2> QED
    BY <1>3, <2>1 DEF PromiseStep, Promise!Next
<1> QED
  BY <1>5, <1>6

LEMMA BroadcastDisburses ==
  ASSUME TypeOK, LedgerSound, NEW i \in Batches, SignAndBroadcast(i)
  PROVE  PromiseStep
<1> DEFINE S == Links(i)
<1>1. /\ ~sent[i] /\ payState[i] \notin {"none", "cancelled"}
      /\ \A j \in Batches : sent'[j] = IF j = i THEN TRUE ELSE sent[j]
      /\ UNCHANGED <<credit, plan, batchState>>
  BY DEF SignAndBroadcast, TypeOK
<1>2. Holds(i)
  BY <1>1 DEF LedgerSound, StatesAgree, Holds, Live, TypeOK, PayStates
<1>3. \A j \in Batches : Links(j)' = Links(j) /\ (Holds(j)' <=> Holds(j))
  BY <1>1 DEF Links, Holds, Live
<1>4. ASSUME NEW r \in S
      PROVE  /\ r \in Rows /\ Stage(r) = "reserved" /\ Stage(r)' = "disbursed"
             /\ Payers(r) = {} /\ Payers(r)' = {i}
  <2>1. r \in Rows /\ Stage(r) = "reserved" /\ Payers(r) = {}
    BY <1>1, <1>2, StageOfHeld
  <2>2. Payers(r)' = {i} /\ Disbursed(r)'
    BY <1>1, <1>3, <2>1 DEF Payers, Disbursed
  <2>3. credit'[r] # "none"
    BY <1>1, <2>1 DEF Stage
  <2> QED
    BY <2>1, <2>2, <2>3 DEF Stage
<1>5. ASSUME NEW r \in Rows, r \notin S
      PROVE  Stage(r)' = Stage(r) /\ Payers(r)' = Payers(r)
  BY <1>1, <1>3, <1>5 DEF Stage, Disbursed, Reserved, Payers
<1>6. CASE S = {}
  BY <1>5, <1>6 DEF PromiseStep, Stages, Times
<1>7. CASE S # {}
  <2>1. Cardinality({}) = 0 /\ Cardinality({i}) = 1
    BY FS_EmptySet, FS_Singleton
  <2>2. \A r \in S : Cardinality(Payers(r))' = Cardinality(Payers(r)) + 1
    BY <1>4, <2>1
  <2>3. Promise!Disburse(S)
    BY <1>4, <1>5, <1>7, <2>2 DEF Promise!Disburse, Promise!Move, Payers
  <2> QED
    BY <1>4, <2>3 DEF PromiseStep, Promise!Next
<1> QED
  BY <1>6, <1>7

LEMMA SnapshotStutters ==
  ASSUME TypeOK, LedgerSound, Snapshot
  PROVE  PromiseStep
<1>1. CASE Reconcile
  <2>1. ASSUME NEW i \in Batches
        PROVE  Holds(i)' <=> Holds(i)
    <3>1. Orphaned(i) => FALSE
      <4> SUFFICES ASSUME Orphaned(i) PROVE FALSE
        OBVIOUS
      <4>1. PICK r \in Links(i) : NewVerdict(r[1]) = "no"
        BY DEF Orphaned
      <4>2. Live(i)
        BY DEF Orphaned, Live
      <4>3. r[1] \in snap.matched /\ r[1] \in found
        BY <1>1, <4>2, LiveLinks DEF Reconcile, LedgerSound, SnapshotSound
      <4> QED
        BY <4>1, <4>3 DEF NewVerdict
    <3> QED
      BY <1>1, <3>1 DEF Reconcile, Holds, Live
  <2>2. \A r \in Rows : credit'[r] = "none" <=> credit[r] = "none"
    BY <1>1 DEF Reconcile, NewCredit
  <2> QED
    BY <1>1, <2>1, <2>2, PromiseStutter DEF Reconcile, PromiseStep
<1>2. CASE SnapCount \/ SnapTip \/ SnapHeights \/ EndCommand
  BY <1>2, PromiseStutter
  DEF SnapCount, SnapTip, SnapHeights, EndCommand, PromiseStep, Holds, Live
<1>3. CASE \E b \in Blocks : SnapHash(Height[b])
  BY <1>3, PromiseStutter DEF SnapHash, PromiseStep, Holds, Live
<1> QED
  BY <1>1, <1>2, <1>3 DEF Snapshot

LEMMA EnvironmentSteps ==
  ASSUME TypeOK, LedgerSound, Environment
  PROVE  PromiseStep
<1>1. ASSUME NEW c \in Chains, ChainMoves(c)
      PROVE  PromiseStep
  BY <1>1, PromiseStutter DEF ChainMoves, PromiseStep, Holds, Live
<1>2. ASSUME NEW i \in Batches, PreflightAges(i)
      PROVE  PromiseStep
  BY <1>2, PromiseStutter DEF PreflightAges, PromiseStep, Holds, Live
<1>3. ASSUME NEW i \in Batches, NEW n \in 0..MaxConf, TxConfirms(i, n)
      PROVE  PromiseStep
  BY <1>3, PromiseStutter DEF TxConfirms, PromiseStep, Holds, Live
<1> QED
  BY <1>1, <1>2, <1>3, AccruesOwed, BroadcastDisburses DEF Environment

LEMMA CommandSteps ==
  ASSUME TypeOK, LedgerSound, TypeOK', LedgerSound',
         NEW i \in Batches, Command(i)
  PROVE  PromiseStep
<1>0. \A j \in Batches :
        /\ payState[j] # "none" => payState[j] = batchState[j]
        /\ sent[j] => batchState[j] \in {"psbt_ready", "broadcast",
                                         "confirmed", "paid"}
        /\ txid[j] # NoTx <=> payState[j] \in {"broadcast", "confirmed",
                                               "paid"}
  BY DEF LedgerSound, StatesAgree
<1>1. CASE CreatePlan(i)
  BY <1>1, PlansReserve
<1>2. CASE CancelBatch(i)
  <2>1. Live(i) /\ ~sent[i]
    BY <1>0, <1>2 DEF CancelBatch, Live
  <2>2. \A r \in Rows : credit'[r] = "none" <=> credit[r] = "none"
    BY <1>2 DEF CancelBatch, ReleaseLinks, Released
  <2> QED
    BY <1>2, <2>1, <2>2, CancelReleases DEF CancelBatch
<1>3. CASE CancelUnbroadcast(i)
  <2>1. batchState[i] = "psbt_ready"
    BY <1>0, <1>3 DEF CancelUnbroadcast
  <2>2. Live(i) /\ batchState' = [batchState EXCEPT ![i] = "cancelled"]
    BY <1>3, <2>1 DEF CancelUnbroadcast, Live
  <2>3. \A r \in Rows : credit'[r] = "none" <=> credit[r] = "none"
    BY <1>3 DEF CancelUnbroadcast, ReleaseLinks, Released
  <2> QED
    BY <1>3, <2>2, <2>3, CancelReleases DEF CancelUnbroadcast
<1>4. CASE PersistPsbt(i)
  <2>1. \A j \in Batches : Holds(j)' <=> Holds(j)
    BY <1>4 DEF PersistPsbt, Holds, Live, TypeOK
  <2> QED
    BY <1>4, <2>1, PromiseStutter DEF PersistPsbt, PromiseStep
<1>5. CASE CheckPayment(i)
  <2>1. Holds(i)
    BY <1>0, <1>5 DEF CheckPayment, WalletKnows, Holds, Live
  <2>2. \A j \in Batches : Holds(j)' <=> Holds(j)
    BY <1>5, <2>1
    DEF CheckPayment, WalletKnows, RecordCheck, Holds, Live, TypeOK
  <2> QED
    BY <1>5, <2>2, PromiseStutter DEF CheckPayment, WalletKnows, PromiseStep
<1>6. ASSUME NEW n, SettleWith(i, n), Holds(i)
      PROVE  PromiseStep
  <2>1. \A j \in Batches : Holds(j)' <=> Holds(j)
    BY <1>6 DEF SettleWith, Holds, Live, TypeOK
  <2>2. \A r \in Rows : credit'[r] = "none" <=> credit[r] = "none"
    BY <1>6 DEF SettleWith
  <2> QED
    BY <1>6, <2>1, <2>2, PromiseStutter DEF SettleWith, PromiseStep
<1>7. CASE Settle(i) \/ SettleUnchecked(i)
  <2>1. Holds(i)
    BY <1>0, <1>7 DEF Settle, WalletKnows, SettleUnchecked, Holds, Live
  <2> QED
    BY <1>6, <1>7, <2>1 DEF Settle, WalletKnows, SettleUnchecked
<1>8. ASSUME NEW valid \in BOOLEAN, Preflight(i, valid)
      PROVE  PromiseStep
  BY <1>8, PromiseStutter DEF Preflight, PromiseStep, Holds, Live
<1>9. ASSUME NEW t \in Batches, AttachTxid(i, t)
      PROVE  PromiseStep
  <2>1. batchState[i] = "psbt_ready"
    BY <1>0, <1>9 DEF AttachTxid
  <2>2. \A j \in Batches : Holds(j)' <=> Holds(j)
    BY <1>9, <2>1 DEF AttachTxid, Holds, Live, TypeOK
  <2> QED
    BY <1>9, <2>2, PromiseStutter DEF AttachTxid, PromiseStep
<1> QED
  BY <1>1, <1>2, <1>3, <1>4, <1>5, <1>7, <1>8, <1>9
  DEF Command, GuardedAttach

(* Every step of the ledger is a step of PayOnce or changes nothing that   *)
(* PayOnce speaks of.                                                      *)
LEMMA PromiseSteps ==
  ASSUME Finality, TypeOK, LedgerSound, [Next]_vars, TypeOK', LedgerSound'
  PROVE  PromiseStep
<1>1. CASE \E w \in Workers, a \in Addresses : Register(w, a)
  BY <1>1, PromiseStutter DEF Register, PromiseStep, Holds, Live
<1>2. CASE UNCHANGED vars
  BY <1>2, PromiseStutter DEF vars, PromiseStep, Holds, Live
<1> QED
  BY <1>1, <1>2, EnvironmentSteps, SnapshotStutters, CommandSteps DEF Next

(* The ledger, its commands interrupted anywhere and the chain moving      *)
(* under them, pays each credit as PayOnce promises.                       *)
THEOREM LedgerPaysOnce ==
  ASSUME Finality
  PROVE  Spec => PaysOnce
<1>1. Init => Promise!Init
  BY PromiseInit
<1>2. TypeOK /\ LedgerSound /\ [Next]_vars /\ TypeOK' /\ LedgerSound'
        => [Promise!Next]_<<Stages, Times>>
  BY PromiseSteps DEF PromiseStep
<1> QED
  BY <1>1, <1>2, TypeCorrect, Sound, PTL
  DEF Spec, PaysOnce, Promise!Spec, Stages, Times, Payers

(* What PayOnce promises: money leaves for a credit at most once, and a    *)
(* credit for which it left is never owed or reserved again.               *)
THEOREM PromiseAtMostOnce ==
  Promise!Spec => [](Promise!TypeOK /\ Promise!AtMostOnce)
<1>1. Promise!Init => Promise!TypeOK /\ Promise!AtMostOnce
  BY DEF Promise!Init, Promise!TypeOK, Promise!AtMostOnce, Promise!Stages
<1>2. Promise!TypeOK /\ Promise!AtMostOnce /\ [Promise!Next]_<<Stages, Times>>
        => Promise!TypeOK' /\ Promise!AtMostOnce'
  <2> SUFFICES ASSUME Promise!TypeOK, Promise!AtMostOnce,
                      PromiseStep
               PROVE  Promise!TypeOK' /\ Promise!AtMostOnce'
    BY DEF PromiseStep
  <2> USE DEF Promise!TypeOK, Promise!AtMostOnce, Promise!Stages, Promise!Move
  <2>1. ASSUME NEW S \in SUBSET Rows, Promise!Accrue(S)
        PROVE  Promise!TypeOK' /\ Promise!AtMostOnce'
    BY <2>1 DEF Promise!Accrue
  <2>2. ASSUME NEW S \in SUBSET Rows, Promise!Reserve(S)
        PROVE  Promise!TypeOK' /\ Promise!AtMostOnce'
    BY <2>2 DEF Promise!Reserve
  <2>3. ASSUME NEW S \in SUBSET Rows, Promise!Release(S)
        PROVE  Promise!TypeOK' /\ Promise!AtMostOnce'
    BY <2>3 DEF Promise!Release
  <2>4. ASSUME NEW S \in SUBSET Rows, Promise!Disburse(S)
        PROVE  Promise!TypeOK' /\ Promise!AtMostOnce'
    <3>1. \A r \in Rows :
            /\ Stage(r)' = IF r \in S THEN "disbursed" ELSE Stage(r)
            /\ Cardinality(Payers(r))' = IF r \in S THEN Cardinality(Payers(r)) + 1
                                         ELSE Cardinality(Payers(r))
            /\ r \in S => Stage(r) = "reserved"
      BY <2>4 DEF Promise!Disburse, Payers
    <3>2. \A r \in Rows :
            /\ Cardinality(Payers(r)) = IF Stage(r) = "disbursed" THEN 1 ELSE 0
            /\ Stage(r) \in Promise!Stages
      BY DEF Payers
    <3>3. \A r \in Rows :
            /\ Cardinality(Payers(r))' = IF Stage(r)' = "disbursed" THEN 1 ELSE 0
            /\ Stage(r)' \in Promise!Stages
      BY <3>1, <3>2
    <3>4. Promise!AtMostOnce'
      BY <3>3 DEF Payers
    <3>5. Stages' \in [Rows -> Promise!Stages]
      BY <3>3 DEF Stages
    <3>6. \A r \in Rows : Cardinality(Payers(r))' \in Nat
      BY <3>3
    <3>7. Times' \in [Rows -> Nat]
      BY <3>6 DEF Times
    <3> QED
      BY <3>4, <3>5, <3>7 DEF Stages, Times, Payers
  <2>5. CASE Stages' = Stages /\ Times' = Times
    BY <2>5 DEF Stages, Times, Payers
  <2> QED
    BY <2>1, <2>2, <2>3, <2>4, <2>5 DEF PromiseStep, Promise!Next
<1> QED
  BY <1>1, <1>2, PTL DEF Promise!Spec, Stages, Times, Payers

(* So at most one broadcast transaction ever pays a credit row of the      *)
(* ledger, and from then on no batch can reserve the row.                  *)
THEOREM RowsPaidOnce ==
  ASSUME Finality
  PROVE  Spec => []Promise!AtMostOnce
BY LedgerPaysOnce, PromiseAtMostOnce, PTL DEF PaysOnce
=============================================================================
