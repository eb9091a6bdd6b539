---------------------------- MODULE PayoutLedger ----------------------------
(***************************************************************************)
(* The payout ledger of the Crakbit pool: reconciliation and planning      *)
(* (scripts/crakpool-payout.py), the payment lifecycle                     *)
(* (scripts/crakpool-paytx.py) and the preflight and cancellation guard    *)
(* (scripts/crakpool-payguard.py), all on one SQLite database.             *)
(*                                                                         *)
(* One operator runs one command at a time.  A command that talks to the   *)
(* node is several steps: it reads the block count, the tip hash and then  *)
(* one hash per recorded height, applies them (Reconcile), and does its    *)
(* own transaction last.  It may fail or be killed between any two steps.  *)
(* The chain, the pool that records blocks, the wallet and the external    *)
(* signer move at any moment, so what a command has read can be stale by   *)
(* the time it is used.                                                    *)
(***************************************************************************)
EXTENDS Integers, Sequences, FiniteSets, FiniteSetsExt

CONSTANTS
  ChainBlocks,   \* identities of blocks that can be on the chain
  Blocks,        \* the ones the pool itself finds
  Height,        \* height of each pool block
  Chains,        \* the chains, from height 1, the node may follow
  Workers,       \* worker names, as numbers: the planner sorts by name
  Rows,          \* credit rows <<block, worker>> the pool allocates
  Amount,        \* satoshis of each credit row
  Addresses, NoAddress,
  Batches,       \* identities of payout batches, and of the transactions
  NoTx,          \*   that pay them
  Maturity,      \* plan --maturity
  MinimumSats,   \* plan --minimum-sats
  MaxOutputs,    \* plan --max-outputs
  SettleConfs,   \* settle --confirmations
  MaxConf,       \* bound: confirmations of a payout transaction
  Finality       \* no reorganisation deeper than Maturity happens

ASSUME ChainAssumption ==
  /\ Blocks \subseteq ChainBlocks
  /\ Height \in [Blocks -> Nat \ {0}]
  /\ Chains \subseteq Seq(ChainBlocks)
  /\ Finality \in BOOLEAN

ASSUME RowAssumption ==
  /\ Workers \subseteq Nat
  /\ Rows \subseteq Blocks \X Workers
  /\ Amount \in [Rows -> Nat]

ASSUME IdentityAssumption ==
  /\ NoTx \notin Batches
  /\ NoAddress \notin Addresses

ASSUME ParameterAssumption ==
  /\ Maturity \in Nat \ {0}
  /\ MinimumSats \in Nat \ {0}
  /\ MaxOutputs \in Nat \ {0}
  /\ SettleConfs \in Nat \ {0}
  /\ MaxConf \in Nat

VARIABLES
  chain,       \* the node's active chain
  final,       \* every height up to here has been Maturity deep (history)
  snap,        \* the running command's chain snapshot
  found,       \* blocks table: pool blocks recorded so far
  credit,      \* credits.status, "none" before the row exists
  verdict,     \* block_reconciliation.canonical, "none" before the row exists
  reconTip,    \* block_reconciliation.tip_hash (with tip_height, its length)
  address,     \* worker_payouts.address
  plan,        \* payout_batches, payout_items, payout_credit_links
  batchState,  \* payout_batches.state, "absent" before the row exists
  payState,    \* payout_transactions.state, "none" before the row exists
  txid,        \* payout_transactions.txid
  confs,       \* payout_transactions.confirmations
  preflight,   \* the latest payout_preflights row is valid and fresh
  sent,        \* the operator signed and broadcast the batch's PSBT
  txConf       \* confirmations the wallet reports for that transaction

nodeVars == <<chain, final>>
sourceVars == <<found, credit, verdict, reconTip>>
batchVars == <<plan, batchState>>
payVars == <<payState, txid, confs>>
signerVars == <<sent, txConf>>
vars == <<nodeVars, snap, sourceVars, address, batchVars, payVars, preflight,
          signerVars>>

CreditStates == {"none", "pending", "planned", "orphaned", "paid"}
BatchStates == {"absent", "planned", "invalidated", "psbt_ready", "broadcast",
                "confirmed", "paid", "cancelled"}
PayStates == {"none", "psbt_ready", "broadcast", "confirmed", "paid",
              "cancelled"}

NoPlan == [tip |-> <<>>, payees |-> {}, links |-> {}]
Idle == [stage |-> "idle", count |-> 0, tip |-> <<>>, todo |-> {},
         matched |-> {}]

(* Block b is on chain c.                                                  *)
On(b, c) == Height[b] <= Len(c) /\ c[Height[b]] = b

(* Mutant: one confirmation too many.                                      *)
ConfirmationsOffByOne(b) ==
  IF verdict[b] = "yes" THEN Len(reconTip[b]) - Height[b] + 2 ELSE 0

(* block_reconciliation.confirmations.                                     *)
Confirmations(b) ==
  IF verdict[b] = "yes" THEN Len(reconTip[b]) - Height[b] + 1 ELSE 0

Links(i) == plan[i].links

Satoshis(S) == MapThenSumSet(LAMBDA r : Amount[r], S)

(* What the transaction of batch i pays to address a.                      *)
Paid(i, a) == Satoshis({r \in Links(i) : <<r[2], a>> \in plan[i].payees})

(* verify_observed_outputs: the transaction of batch t pays every output   *)
(* of batch i, to the satoshi; other outputs are ignored.                  *)
OutputsMatch(i, t) ==
  \A p \in plan[i].payees : Paid(t, p[2]) = Paid(i, p[2])

Snapshots == [stage : {"idle", "counted", "tipped", "hashing", "applied"},
              count : Nat, tip : Seq(ChainBlocks), todo : SUBSET Nat,
              matched : SUBSET Blocks]

Plans == [tip : Seq(ChainBlocks), payees : SUBSET (Workers \X Addresses),
          links : SUBSET Rows]

TypeOK ==
  /\ chain \in Chains
  /\ final \in Nat
  /\ snap \in Snapshots
  /\ found \subseteq Blocks
  /\ credit \in [Rows -> CreditStates]
  /\ verdict \in [Blocks -> {"none", "yes", "no"}]
  /\ reconTip \in [Blocks -> Seq(ChainBlocks)]
  /\ address \in [Workers -> Addresses \cup {NoAddress}]
  /\ plan \in [Batches -> Plans]
  /\ batchState \in [Batches -> BatchStates]
  /\ payState \in [Batches -> PayStates]
  /\ txid \in [Batches -> Batches \cup {NoTx}]
  /\ confs \in [Batches -> Nat]
  /\ preflight \in [Batches -> BOOLEAN]
  /\ sent \in [Batches -> BOOLEAN]
  /\ txConf \in [Batches -> Nat]

(* Heights up to Len(c) - Maturity + 1 are Maturity deep on chain c.       *)
Deepest(c) == IF Len(c) >= Maturity THEN Len(c) - Maturity + 1 ELSE 0

Init ==
  /\ chain \in Chains
  /\ final = Deepest(chain)
  /\ snap = Idle
  /\ found = {}
  /\ credit = [r \in Rows |-> "none"]
  /\ verdict = [b \in Blocks |-> "none"]
  /\ reconTip = [b \in Blocks |-> <<>>]
  /\ address = [w \in Workers |-> NoAddress]
  /\ plan = [i \in Batches |-> NoPlan]
  /\ batchState = [i \in Batches |-> "absent"]
  /\ payState = [i \in Batches |-> "none"]
  /\ txid = [i \in Batches |-> NoTx]
  /\ confs = [i \in Batches |-> 0]
  /\ preflight = [i \in Batches |-> FALSE]
  /\ sent = [i \in Batches |-> FALSE]
  /\ txConf = [i \in Batches |-> 0]

-----------------------------------------------------------------------------
(* The environment: the node, the pool, the wallet, the external signer.   *)

(* The node connects or disconnects blocks.                                *)
ChainMoves(c) ==
  /\ c # chain
  /\ Finality => /\ final <= Len(c)
                 /\ \A k \in 1..final : c[k] = chain[k]
  /\ chain' = c
  /\ final' = IF Deepest(c) > final THEN Deepest(c) ELSE final
  /\ UNCHANGED <<snap, sourceVars, address, batchVars, payVars, preflight,
                 signerVars>>

(* The accounting pool records a block it found and credits its workers.   *)
PoolRecords(b) ==
  /\ b \notin found
  /\ On(b, chain)
  /\ found' = found \cup {b}
  /\ credit' = [r \in Rows |-> IF r[1] = b THEN "pending" ELSE credit[r]]
  /\ UNCHANGED <<nodeVars, snap, verdict, reconTip, address, batchVars,
                 payVars, preflight, signerVars>>

(* The operator signs the batch's PSBT elsewhere and broadcasts it.        *)
(* Nothing outside the ledger holds him to the preflight, nor to           *)
(* attaching the txid only afterwards.                                     *)
SignAndBroadcast(i) ==
  /\ ~sent[i]
  /\ payState[i] \notin {"none", "cancelled"}
  /\ sent' = [sent EXCEPT ![i] = TRUE]
  /\ UNCHANGED <<nodeVars, snap, sourceVars, address, batchVars, payVars,
                 preflight, txConf>>

(* The transaction is confirmed, buried deeper, or unconfirmed again.      *)
TxConfirms(i, n) ==
  /\ sent[i]
  /\ n # txConf[i]
  /\ txConf' = [txConf EXCEPT ![i] = n]
  /\ UNCHANGED <<nodeVars, snap, sourceVars, address, batchVars, payVars,
                 preflight, sent>>

(* --preflight-max-age passes; it matters until a txid is attached.        *)
PreflightAges(i) ==
  /\ preflight[i]
  /\ payState[i] = "psbt_ready"
  /\ preflight' = [preflight EXCEPT ![i] = FALSE]
  /\ UNCHANGED <<nodeVars, snap, sourceVars, address, batchVars, payVars,
                 signerVars>>

-----------------------------------------------------------------------------
(* What reconcile, plan, build-psbt, preflight and cancel do first.        *)

(* getblockcount.                                                          *)
SnapCount ==
  /\ snap.stage = "idle"
  /\ snap' = [Idle EXCEPT !.stage = "counted", !.count = Len(chain)]
  /\ UNCHANGED <<nodeVars, sourceVars, address, batchVars, payVars, preflight,
                 signerVars>>

(* Mutant: the hash at the tip's own height is not asked for.              *)
RecordedHeightsBelow(n) == {Height[b] : b \in found} \cap 1..(n - 1)

(* Heights of the recorded blocks that a tip at height n reaches; a height *)
(* above it gets the hash None without a call.                             *)
RecordedHeights(n) == {Height[b] : b \in found} \cap 1..n

(* getblockhash of that height.                                            *)
SnapTip ==
  /\ snap.stage = "counted"
  /\ snap.count <= Len(chain)
  /\ snap' = [snap EXCEPT !.stage = "tipped",
                          !.tip = SubSeq(chain, 1, snap.count)]
  /\ UNCHANGED <<nodeVars, sourceVars, address, batchVars, payVars, preflight,
                 signerVars>>

(* The heights of the blocks table are read, while the pool goes on.       *)
SnapHeights ==
  /\ snap.stage = "tipped"
  /\ snap' = [snap EXCEPT !.stage = "hashing",
                          !.todo = RecordedHeights(snap.count)]
  /\ UNCHANGED <<nodeVars, sourceVars, address, batchVars, payVars, preflight,
                 signerVars>>

(* getblockhash of the next recorded height.  matched collects the pool    *)
(* blocks that equal the hash the node returned for their height.          *)
SnapHash(h) ==
  /\ snap.stage = "hashing"
  /\ h \in snap.todo
  /\ \A g \in snap.todo : h <= g
  /\ h <= Len(chain)
  /\ snap' = [snap EXCEPT
                !.todo = @ \ {h},
                !.matched = @ \cup {b \in Blocks : Height[b] = h
                                                   /\ chain[h] = b}]
  /\ UNCHANGED <<nodeVars, sourceVars, address, batchVars, payVars, preflight,
                 signerVars>>

(* What the snapshot says of a recorded block.                             *)
NewVerdict(b) ==
  IF b \in found THEN IF b \in snap.matched THEN "yes" ELSE "no"
                 ELSE verdict[b]

(* Mutant: batches are examined before the new verdicts are written.       *)
OrphanedBefore(i) ==
  /\ batchState[i] = "planned"
  /\ \E r \in Links(i) : verdict[r[1]] = "no"

(* Planned batches with a credit whose block has left the chain.           *)
Orphaned(i) ==
  /\ batchState[i] = "planned"
  /\ \E r \in Links(i) : NewVerdict(r[1]) = "no"

(* Mutant: only pending credits are orphaned, planned ones keep waiting.   *)
NewCreditPendingOnly(r) ==
  IF credit[r] = "pending" /\ NewVerdict(r[1]) = "no" THEN "orphaned"
  ELSE IF credit[r] = "orphaned" /\ NewVerdict(r[1]) = "yes" THEN "pending"
  ELSE credit[r]

(* A credit already paid is never touched.  A planned one survives unless  *)
(* its block is lost or one of its batches is invalidated.                 *)
NewCredit(r) ==
  IF credit[r] \in {"none", "paid"} THEN credit[r]
  ELSE IF NewVerdict(r[1]) = "no" THEN "orphaned"
  ELSE IF credit[r] = "planned"
          /\ ~\E i \in Batches : Orphaned(i) /\ r \in Links(i)
       THEN "planned" ELSE "pending"

(* reconcile_snapshot: upsert the verdicts, revive orphaned credits whose  *)
(* block is back, invalidate planned batches and release their credits,    *)
(* orphan the credits of lost blocks.  One transaction.                    *)
Reconcile ==
  /\ snap.stage = "hashing"
  /\ snap.todo = {}
  /\ verdict' = [b \in Blocks |-> NewVerdict(b)]
  /\ reconTip' = [b \in Blocks |-> IF b \in found THEN snap.tip
                                                  ELSE reconTip[b]]
  /\ batchState' = [i \in Batches |-> IF Orphaned(i) THEN "invalidated"
                                                     ELSE batchState[i]]
  /\ credit' = [r \in Rows |-> NewCredit(r)]
  /\ snap' = [snap EXCEPT !.stage = "applied", !.matched = {}]
  /\ UNCHANGED <<nodeVars, found, address, plan, payVars, preflight,
                 signerVars>>

(* The command ends without its own transaction: it was only reconcile, a  *)
(* call failed, a check refused, the plan is empty or already exists, or   *)
(* the process was killed.                                                 *)
EndCommand ==
  /\ snap.stage # "idle"
  /\ snap' = Idle
  /\ UNCHANGED <<nodeVars, sourceVars, address, batchVars, payVars, preflight,
                 signerVars>>

-----------------------------------------------------------------------------
(* The planner: register, plan, cancel of scripts/crakpool-payout.py.      *)

Register(w, a) ==
  /\ snap.stage = "idle"
  /\ \E r \in Rows : r[2] = w /\ credit[r] # "none"
  /\ a # address[w]
  /\ address' = [address EXCEPT ![w] = a]
  /\ UNCHANGED <<nodeVars, snap, sourceVars, batchVars, payVars, preflight,
                 signerVars>>

(* Mutant: the status of the credit is not looked at.                      *)
EligibleAnyStatus == {r \in Rows : /\ verdict[r[1]] = "yes"
                                   /\ Confirmations(r[1]) >= Maturity
                                   /\ address[r[2]] # NoAddress}

Eligible == {r \in Rows : /\ credit[r] = "pending"
                          /\ verdict[r[1]] = "yes"
                          /\ Confirmations(r[1]) >= Maturity
                          /\ address[r[2]] # NoAddress}

Owed(w) == Satoshis({r \in Eligible : r[2] = w})

Payable == {w \in Workers : /\ \E r \in Eligible : r[2] = w
                            /\ Owed(w) >= MinimumSats}

(* The first MaxOutputs workers, by name, that reach the minimum.          *)
Selected ==
  {w \in Payable : Cardinality({v \in Payable : v < w}) < MaxOutputs}

(* The frozen payload; its hash is the batch id.                           *)
NewPlan == [tip |-> snap.tip,
            payees |-> {<<w, address[w]>> : w \in Selected},
            links |-> {r \in Eligible : r[2] \in Selected}]

(* create_plan, after _snapshot_is_current.  A payload seen before hashes  *)
(* to an existing batch, which is returned as it is (EndCommand).          *)
CreatePlan(i) ==
  /\ snap.stage = "applied"
  /\ \A b \in found : reconTip[b] = snap.tip
  /\ Selected # {}
  /\ \A j \in Batches : plan[j] # NewPlan
  /\ batchState[i] = "absent"
  /\ plan' = [plan EXCEPT ![i] = NewPlan]
  /\ batchState' = [batchState EXCEPT ![i] = "planned"]
  /\ credit' = [r \in Rows |-> IF r \in NewPlan.links THEN "planned"
                                                      ELSE credit[r]]
  /\ snap' = Idle
  /\ UNCHANGED <<nodeVars, found, verdict, reconTip, address, payVars,
                 preflight, signerVars>>

(* Where a reserved credit goes when its batch is cancelled.               *)
Released(r) == IF verdict[r[1]] = "yes" THEN "pending" ELSE "orphaned"

(* Mutant: the batch is cancelled, its reservations stay.                  *)
ReleaseNoLinks(i) == i \in Batches /\ UNCHANGED credit

ReleaseLinks(i) ==
  credit' = [r \in Rows |-> IF r \in Links(i) /\ credit[r] = "planned"
                            THEN Released(r) ELSE credit[r]]

CancelBatch(i) ==
  /\ snap.stage = "idle"
  /\ batchState[i] = "planned"
  /\ ReleaseLinks(i)
  /\ batchState' = [batchState EXCEPT ![i] = "cancelled"]
  /\ UNCHANGED <<nodeVars, snap, found, verdict, reconTip, address, plan,
                 payVars, preflight, signerVars>>

-----------------------------------------------------------------------------
(* The payment lifecycle of scripts/crakpool-paytx.py.                     *)

(* build_psbt's last step: the wallet has funded the PSBT, persist_psbt.   *)
PersistPsbt(i) ==
  /\ snap.stage = "applied"
  /\ batchState[i] = "planned"
  /\ payState[i] = "none"
  /\ batchState' = [batchState EXCEPT ![i] = "psbt_ready"]
  /\ payState' = [payState EXCEPT ![i] = "psbt_ready"]
  /\ snap' = Idle
  /\ UNCHANGED <<nodeVars, sourceVars, address, plan, txid, confs, preflight,
                 signerVars>>

(* attach_txid: the operator records the transaction of t, by mistake      *)
(* perhaps not the batch's own, or one not broadcast yet.  The column is   *)
(* UNIQUE.                                                                 *)
AttachTxid(i, t) ==
  /\ snap.stage = "idle"
  /\ payState[i] = "psbt_ready"
  /\ \A j \in Batches : txid[j] # t
  /\ txid' = [txid EXCEPT ![i] = t]
  /\ payState' = [payState EXCEPT ![i] = "broadcast"]
  /\ batchState' = [batchState EXCEPT ![i] = IF @ = "psbt_ready"
                                             THEN "broadcast" ELSE @]
  /\ UNCHANGED <<nodeVars, snap, sourceVars, address, plan, confs, preflight,
                 signerVars>>

(* Mutant: the batch row is not updated.                                   *)
RecordCheckPaymentOnly(i, n) ==
  /\ payState' = [payState EXCEPT ![i] =
                     IF @ = "paid" THEN "paid"
                     ELSE IF n > 0 THEN "confirmed" ELSE "broadcast"]
  /\ confs' = [confs EXCEPT ![i] = n]
  /\ UNCHANGED batchState

(* Mutant: a late check of a paid payment reopens it.                      *)
RecordCheckReopens(i, n) ==
  LET state == IF n > 0 THEN "confirmed" ELSE "broadcast"
  IN /\ payState' = [payState EXCEPT ![i] = state]
     /\ confs' = [confs EXCEPT ![i] = n]
     /\ UNCHANGED batchState

(* The two UPDATEs of record_check; a paid payment stays paid.             *)
RecordCheck(i, n) ==
  LET state == IF payState[i] = "paid" THEN "paid"
               ELSE IF n > 0 THEN "confirmed" ELSE "broadcast"
  IN /\ payState' = [payState EXCEPT ![i] = state]
     /\ confs' = [confs EXCEPT ![i] = n]
     /\ batchState' = [batchState EXCEPT ![i] =
          IF {state, @} = {"confirmed", "broadcast"} THEN state ELSE @]

(* gettransaction answers: the wallet knows the attached transaction.      *)
WalletKnows(i) == txid[i] # NoTx /\ sent[txid[i]]

(* Mutant: the outputs of the attached transaction are not verified.       *)
CheckPaymentUnverified(i) ==
  /\ snap.stage = "idle"
  /\ WalletKnows(i)
  /\ RecordCheck(i, txConf[txid[i]])
  /\ UNCHANGED <<nodeVars, snap, sourceVars, address, plan, txid, preflight,
                 signerVars>>

(* check_payment with an answer from the wallet; without one it writes     *)
(* only last_error.                                                        *)
CheckPayment(i) ==
  /\ snap.stage = "idle"
  /\ WalletKnows(i)
  /\ OutputsMatch(i, txid[i])
  /\ RecordCheck(i, txConf[txid[i]])
  /\ UNCHANGED <<nodeVars, snap, sourceVars, address, plan, txid, preflight,
                 signerVars>>

(* settle: every linked credit must be planned, or paid already.           *)
SettleWith(i, n) ==
  /\ snap.stage = "idle"
  /\ n >= SettleConfs
  /\ \A r \in Links(i) : credit[r] \in {"planned", "paid"}
  /\ credit' = [r \in Rows |-> IF r \in Links(i) THEN "paid" ELSE credit[r]]
  /\ payState' = [payState EXCEPT ![i] = "paid"]
  /\ batchState' = [batchState EXCEPT ![i] = "paid"]
  /\ confs' = [confs EXCEPT ![i] = n]
  /\ UNCHANGED <<nodeVars, snap, found, verdict, reconTip, address, plan,
                 txid, preflight, signerVars>>

(* The settle command checks first.  Its check and its settlement are one  *)
(* step here; a check that succeeds before a settlement that is refused is *)
(* CheckPayment.                                                           *)
Settle(i) ==
  /\ payState[i] # "paid"
  /\ WalletKnows(i)
  /\ OutputsMatch(i, txid[i])
  /\ SettleWith(i, txConf[txid[i]])

(* When gettransaction fails the command still settles, on the last        *)
(* confirmations it stored.                                                *)
SettleUnchecked(i) ==
  /\ payState[i] = "confirmed"
  /\ SettleWith(i, confs[i])

-----------------------------------------------------------------------------
(* The guard of scripts/crakpool-payguard.py.                              *)

SourcesVerified(i) ==
  /\ Links(i) # {}
  /\ \A r \in Links(i) : /\ verdict[r[1]] = "yes"
                         /\ Confirmations(r[1]) >= Maturity
                         /\ credit[r] = "planned"

(* preflight, after its reconciliation: verify_sources, or another of its  *)
(* checks, fails and the failure is recorded too.                          *)
Preflight(i, valid) ==
  /\ snap.stage = "applied"
  /\ payState[i] = "psbt_ready"
  /\ valid => SourcesVerified(i)
  /\ preflight' = [preflight EXCEPT ![i] = valid]
  /\ snap' = Idle
  /\ UNCHANGED <<nodeVars, sourceVars, address, batchVars, payVars,
                 signerVars>>

GuardedAttach(i, t) ==
  /\ preflight[i]
  /\ AttachTxid(i, t)

(* cancel, after its reconciliation and the unlocking of the inputs:       *)
(* cancel_unbroadcast.  The operator attests, truthfully, that the PSBT    *)
(* was never signed or broadcast.                                          *)
CancelUnbroadcast(i) ==
  /\ snap.stage = "applied"
  /\ payState[i] = "psbt_ready"
  /\ ~sent[i]
  /\ \A r \in Links(i) : credit[r] \in {"planned", Released(r)}
  /\ ReleaseLinks(i)
  /\ payState' = [payState EXCEPT ![i] = "cancelled"]
  /\ batchState' = [batchState EXCEPT ![i] = IF @ = "psbt_ready"
                                             THEN "cancelled" ELSE @]
  /\ snap' = Idle
  /\ UNCHANGED <<nodeVars, found, verdict, reconTip, address, plan, txid,
                 confs, preflight, signerVars>>

-----------------------------------------------------------------------------
(* scripts/crakpool-payops.py: the monitor reads a batch and its payment,  *)
(* and tells the operator what to do next.                                 *)

EffectiveState(i) ==
  IF payState[i] = "none" THEN batchState[i] ELSE payState[i]

(* The answers _next_action may give: whether a preflight that does not    *)
(* count has failed or is old, and how long ago the last check was, is not *)
(* in the model.                                                           *)
Advice(i) ==
  CASE EffectiveState(i) = "planned" -> {"build_psbt"}
    [] EffectiveState(i) = "psbt_ready" ->
         IF preflight[i] THEN {"sign_broadcast_then_guarded_attach"}
                         ELSE {"run_preflight", "fix_preflight_failure"}
    [] EffectiveState(i) = "confirmed" /\ confs[i] >= SettleConfs -> {"settle"}
    [] EffectiveState(i) \in {"broadcast", "confirmed"} ->
         {"refresh_confirmations", "wait_confirmations"}
    [] EffectiveState(i) \in {"paid", "cancelled"} -> {"none"}
    [] OTHER -> {"manual_review"}

-----------------------------------------------------------------------------
Environment ==
  \/ \E c \in Chains : ChainMoves(c)
  \/ \E b \in Blocks : PoolRecords(b)
  \/ \E i \in Batches : \/ SignAndBroadcast(i)
                        \/ PreflightAges(i)
                        \/ \E n \in 0..MaxConf : TxConfirms(i, n)

Snapshot ==
  \/ SnapCount
  \/ SnapTip
  \/ SnapHeights
  \/ \E b \in Blocks : SnapHash(Height[b])
  \/ Reconcile
  \/ EndCommand

Command(i) ==
  \/ CreatePlan(i)
  \/ CancelBatch(i)
  \/ PersistPsbt(i)
  \/ CheckPayment(i)
  \/ Settle(i)
  \/ SettleUnchecked(i)
  \/ CancelUnbroadcast(i)
  \/ \E valid \in BOOLEAN : Preflight(i, valid)
  \/ \E t \in Batches : AttachTxid(i, t) \/ GuardedAttach(i, t)

Next ==
  \/ Environment
  \/ Snapshot
  \/ \E w \in Workers, a \in Addresses : Register(w, a)
  \/ \E i \in Batches : Command(i)

Spec == Init /\ [][Next]_vars

-----------------------------------------------------------------------------
(* Properties.                                                             *)

(* A batch that reserves its credits, or has paid them.                    *)
Live(i) == batchState[i] \in {"planned", "psbt_ready", "broadcast",
                              "confirmed"}
Holds(i) == Live(i) \/ batchState[i] = "paid"

(* A credit row is held by at most one batch: docs/POOL.md:165 says a      *)
(* planned credit cannot be included in another concurrent plan.  Broken   *)
(* by releasing a credit that a later batch holds, or by planning one that *)
(* an older batch has already put into a PSBT.                             *)
OneReservation ==
  \A i, j \in Batches :
    i # j /\ Holds(i) /\ Holds(j) => Links(i) \cap Links(j) = {}

(* The status column and the batches tell one story: a credit is planned   *)
(* exactly while a batch reserves it, and paid exactly when its batch is.  *)
StatusMatchesBatches ==
  \A r \in Rows :
    /\ credit[r] = "planned" <=> \E i \in Batches : Live(i) /\ r \in Links(i)
    /\ credit[r] = "paid" <=> \E i \in Batches : /\ batchState[i] = "paid"
                                                 /\ r \in Links(i)

(* No credit is paid on chain twice: broadcast transactions pay disjoint   *)
(* credits.                                                                *)
NoDoublePayment ==
  \A i, j \in Batches :
    i # j /\ sent[i] /\ sent[j] => Links(i) \cap Links(j) = {}

(* payout_batches.state and payout_transactions.state, updated by separate *)
(* statements with separate guards, stay in step, and money that left the  *)
(* wallet belongs to a batch that still accounts for it.                   *)
StatesAgree ==
  \A i \in Batches :
    /\ payState[i] # "none" => payState[i] = batchState[i]
    /\ payState[i] = "none" => batchState[i] \in {"absent", "planned",
                                                  "invalidated", "cancelled"}
    /\ sent[i] => batchState[i] \in {"psbt_ready", "broadcast", "confirmed",
                                     "paid"}
    /\ txid[i] # NoTx <=> payState[i] \in {"broadcast", "confirmed", "paid"}

(* docs/CRAK-019.md:29.  When the monitor advises "settle", the settlement *)
(* is not refused: every linked credit is still there to be paid.  When it *)
(* advises to sign and broadcast, this batch is the one that reserves its  *)
(* credits, and no transaction pays them yet but, perhaps, its own.        *)
AdviceHolds ==
  \A i \in Batches :
    /\ "settle" \in Advice(i)
         => \A r \in Links(i) : credit[r] \in {"planned", "paid"}
    /\ "sign_broadcast_then_guarded_attach" \in Advice(i)
         => \A r \in Links(i) :
              /\ credit[r] = "planned"
              /\ \A j \in Batches : sent[j] /\ r \in Links(j) => j = i

(* The status of an unpaid credit follows the last verdict on its block,   *)
(* whatever commands and crashes came in between: orphaned only on a lost  *)
(* block, pending or planned never on one.                                 *)
CreditFollowsChain ==
  \A r \in Rows :
    /\ credit[r] = "orphaned" => verdict[r[1]] = "no"
    /\ credit[r] \in {"pending", "planned"} => verdict[r[1]] # "no"

(* A planned batch pays only for blocks on the chain as last reconciled    *)
(* (README.md:200: a reorganisation invalidates the unbroadcast plan).     *)
PlannedOnCanonical ==
  \A i \in Batches :
    batchState[i] = "planned"
      => \A r \in Links(i) : verdict[r[1]] = "yes"

(* A payment the ledger calls confirmed or paid is proved by a broadcast   *)
(* transaction that pays its every recipient, and by one that proves no    *)
(* other payment, even when the operator attaches the wrong txid.          *)
PaymentProven ==
  \A i \in Batches :
    payState[i] \in {"confirmed", "paid"}
      => /\ txid[i] \in Batches
         /\ sent[txid[i]]
         /\ OutputsMatch(i, txid[i])
         /\ \A j \in Batches : j # i => txid[j] # txid[i]

(* Nothing leaves a terminal state: a paid credit stays paid, an           *)
(* invalidated batch is never reactivated (docs/POOL.md), a cancelled one  *)
(* is never paid, an attached txid is never replaced.                      *)
NothingReturns ==
  [][/\ \A r \in Rows : credit[r] = "paid" => credit'[r] = "paid"
     /\ \A i \in Batches :
          /\ batchState[i] \in {"invalidated", "cancelled", "paid"}
               => batchState'[i] = batchState[i]
          /\ payState[i] \in {"paid", "cancelled"}
               => payState'[i] = payState[i]
          /\ txid[i] # NoTx => txid'[i] = txid[i]]_vars

-----------------------------------------------------------------------------
(* What holds however deep the reorganisations are: the inductive          *)
(* invariant of the proofs that do without Finality.                       *)

(* Only recorded blocks have credits and verdicts.                         *)
SourcesFound ==
  /\ \A r \in Rows : credit[r] # "none" => r[1] \in found
  /\ \A b \in Blocks : b \notin found => verdict[b] = "none"

(* A reserved credit was canonical when last reconciled, so a cancellation *)
(* that finds it on no canonical block has seen that block leave.          *)
ReservedOnCanonical ==
  \A r \in Rows : credit[r] = "planned" => verdict[r[1]] = "yes"

(* A transaction is attached to one payment.                               *)
TxidsSound ==
  \A i \in Batches :
    txid[i] # NoTx => \A j \in Batches : j # i => txid[j] # txid[i]

RecordsSound ==
  /\ SourcesFound
  /\ ReservedOnCanonical
  /\ TxidsSound
  /\ CreditFollowsChain
  /\ PlannedOnCanonical
  /\ StatesAgree
  /\ PaymentProven

-----------------------------------------------------------------------------
(* Why the reservations hold when no reorganisation is deeper than         *)
(* Maturity: the inductive invariant of the proofs.                        *)

(* Block b is on the chain for good.                                       *)
Final(b) == On(b, chain) /\ Height[b] <= final

(* A tip at height n buries block b Maturity deep.                         *)
Buries(n, b) == Height[b] + Maturity <= n + 1

ChainSound == final <= Len(chain) /\ Len(chain) < final + Maturity

(* What a running command read still holds for final blocks, however the   *)
(* chain has moved since, and it has seen, or will see, every block that   *)
(* a live batch pays for.                                                  *)
SnapshotSound ==
  /\ snap.stage # "idle" => snap.count < final + Maturity
  /\ snap.stage \in {"tipped", "hashing", "applied"}
       => Len(snap.tip) = snap.count
  /\ snap.stage \in {"counted", "tipped"} => snap.matched = {}
  /\ snap.stage = "hashing" =>
       /\ \A h \in snap.todo : h <= snap.count
       /\ \A b \in snap.matched : /\ Height[b] <= snap.count
                                  /\ Buries(snap.count, b) => Final(b)
  /\ \A i \in Batches : \A r \in Links(i) :
       Live(i) =>
         /\ snap.stage \in {"counted", "tipped"}
              => Height[r[1]] <= snap.count
         /\ snap.stage = "hashing" => \/ r[1] \in snap.matched
                                      \/ Height[r[1]] \in snap.todo

(* A stored verdict that says mature is right for good.                    *)
VerdictSound ==
  \A b \in Blocks :
    verdict[b] = "yes" => /\ b \in found
                          /\ Buries(Len(reconTip[b]), b) => Final(b)

LinksSound ==
  /\ \A r \in Rows : credit[r] # "none" => r[1] \in found
  /\ \A i \in Batches : \A r \in Links(i) :
       Live(i) => Final(r[1]) /\ verdict[r[1]] = "yes"

(* All of it, together with the properties it is strong enough to carry.   *)
LedgerSound ==
  /\ ChainSound
  /\ SnapshotSound
  /\ VerdictSound
  /\ LinksSound
  /\ OneReservation
  /\ StatusMatchesBatches
  /\ StatesAgree

-----------------------------------------------------------------------------
(* The ledger implements PayOnce: a credit counts as disbursed as soon as  *)
(* a transaction that pays it is broadcast, before the ledger knows of it. *)

Disbursed(r) == \E i \in Batches : sent[i] /\ r \in Links(i)
Reserved(r) == \E i \in Batches : Holds(i) /\ r \in Links(i)

Stage(r) ==
  IF credit[r] = "none" THEN "absent"
  ELSE IF Disbursed(r) THEN "disbursed"
  ELSE IF Reserved(r) THEN "reserved" ELSE "owed"

Promise ==
  INSTANCE PayOnce WITH
    Credits <- Rows,
    stage <- [r \in Rows |-> Stage(r)],
    times <- [r \in Rows |->
                Cardinality({i \in Batches : sent[i] /\ r \in Links(i)})]

(* Every behaviour of the ledger, its commands interrupted anywhere, is    *)
(* one that PayOnce allows.                                                *)
PaysOnce == Promise!Spec
=============================================================================
