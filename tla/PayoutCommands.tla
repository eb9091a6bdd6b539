--------------------------- MODULE PayoutCommands ---------------------------
(***************************************************************************)
(* scripts/crakpool-payout.py, crakpool-paytx.py and crakpool-payguard.py  *)
(* when several operators run their commands at the same time.  Every      *)
(* command reads the ledger, perhaps talks to the node, and only then      *)
(* writes in one transaction, whose own conditions see the ledger as it is *)
(* by then: PayoutLedger, of one command at a time, is true of this as far *)
(* as those conditions make it so.                                         *)
(*                                                                         *)
(* The chain is left to PayoutLedger: every source block is canonical and  *)
(* mature here, every worker has an address.  So are the preflights: an    *)
(* operator may attach and sign without one, so they forbid nothing.       *)
(***************************************************************************)
EXTENDS FiniteSets

CONSTANTS Operators, Batches, Credits,
          NoBatch       \* an idle operator's

ASSUME CommandsAssumption == NoBatch \notin Batches

VARIABLES
  credit,     \* credits.status
  links,      \* payout_credit_links, of a batch
  batch,      \* payout_batches.state
  payment,    \* payout_transactions.state
  txid,       \* of a payment: the transaction's id is attached
  sent, mined,  \* the batch's transaction was broadcast, is confirmed
  command,    \* of an operator: what is running, and what it has read
  stale       \* history: a cancellation or a PSBT was written for a batch
              \* that had left the state it was judged by

ledgerVars == <<credit, links, batch, payment, txid>>
vars == <<ledgerVars, sent, mined, command, stale>>

Kinds == {"plan", "cancel", "build", "attach", "unsend", "check", "record",
          "settle"}
States == {"none", "broadcast", "confirmed", "paid"}
Idle == [kind |-> "none", batch |-> NoBatch, read |-> {}, state |-> "none"]

TypeOK ==
  /\ credit \in [Credits -> {"pending", "planned", "paid"}]
  /\ links \in [Batches -> SUBSET Credits]
  /\ batch \in [Batches -> {"absent", "planned", "psbt_ready", "broadcast",
                            "confirmed", "paid", "cancelled"}]
  /\ payment \in [Batches -> {"none", "psbt_ready", "broadcast", "confirmed",
                              "paid", "cancelled"}]
  /\ {txid, sent, mined} \subseteq [Batches -> BOOLEAN]
  /\ command \in [Operators -> [kind : Kinds \cup {"none"},
                                batch : Batches \cup {NoBatch},
                                read : SUBSET Credits, state : States]]
  /\ stale \in BOOLEAN

Init ==
  /\ credit = [c \in Credits |-> "pending"]
  /\ links = [i \in Batches |-> {}]
  /\ batch = [i \in Batches |-> "absent"]
  /\ payment = [i \in Batches |-> "none"]
  /\ txid = [i \in Batches |-> FALSE]
  /\ sent = [i \in Batches |-> FALSE] /\ mined = [i \in Batches |-> FALSE]
  /\ command = [o \in Operators |-> Idle]
  /\ stale = FALSE

-----------------------------------------------------------------------------
(* What a command reads, before its transaction.                           *)

Holds(o, c) ==
  /\ command' = [command EXCEPT ![o] = c]
  /\ UNCHANGED <<ledgerVars, sent, mined, stale>>

Begin(o, kind, i, read, state) ==
  /\ command[o] = Idle
  /\ Holds(o, [kind |-> kind, batch |-> i, read |-> read, state |-> state])

(* create_plan up to its transaction.  The id is a hash of what is paid.   *)
Plan(o, i) ==
  \E S \in SUBSET {c \in Credits : credit[c] = "pending"} :
    /\ S # {}
    /\ batch[i] = "absent"
    /\ \A p \in Operators :
         command[p].kind = "plan" /\ command[p].batch = i => command[p].read = S
    /\ Begin(o, "plan", i, S, "none")

(* cancel_batch.                                                           *)
Cancel(o, i) == batch[i] = "planned" /\ Begin(o, "cancel", i, {}, "none")

(* build_psbt, as far as what persist_psbt reads: the wallet has funded    *)
(* the PSBT by then.                                                       *)
Build(o, i) == batch[i] = "planned" /\ Begin(o, "build", i, {}, "none")

(* attach_txid, guarded or not: the transaction may not be broadcast yet.  *)
Attach(o, i) ==
  /\ payment[i] \in {"psbt_ready", "broadcast", "confirmed", "paid"}
  /\ Begin(o, "attach", i, {}, "none")

(* cancel of the guard, as far as what cancel_unbroadcast reads.  The      *)
(* operator attests that the PSBT was not broadcast, and sees to it.       *)
CancelPsbt(o, i) ==
  /\ payment[i] = "psbt_ready" /\ ~txid[i]
  /\ ~sent[i]
  /\ Begin(o, "unsend", i, {}, "none")

(* check_payment: gettransaction answers; then record_check reads the      *)
(* payment.                                                                *)
Check(o, i) ==
  /\ txid[i] /\ sent[i]
  /\ Begin(o, "check", i, {}, IF mined[i] THEN "confirmed" ELSE "broadcast")

ReadPayment(o) ==
  LET c == command[o] IN
  /\ c.kind = "check"
  /\ Holds(o, [c EXCEPT !.kind = "record",
                        !.state = IF payment[c.batch] = "paid" THEN "paid" ELSE @])

(* settle.                                                                 *)
Settle(o, i) ==
  /\ payment[i] = "confirmed"
  /\ Begin(o, "settle", i, {}, "none")

(* The command fails before its transaction, or is killed.                 *)
Die(o) == command[o] # Idle /\ Holds(o, Idle)

-----------------------------------------------------------------------------
(* The transactions.  An exception rolls one back.                         *)

(* Mutant: what was pending when the plan was made is reserved unseen.     *)
ReservableAsRead(S) == S # {}

(* The UPDATE of every credit must find it pending.                        *)
Reservable(S) == \A c \in S : credit[c] = "pending"

(* Mutant: whatever the status of the credit is.                           *)
ReleaseAny(S) ==
  credit' = [c \in Credits |-> IF c \in S THEN "pending" ELSE credit[c]]

Release(S) ==
  credit' = [c \in Credits |->
               IF c \in S /\ credit[c] = "planned" THEN "pending" ELSE credit[c]]

Transaction(o, kind, i) ==
  /\ command[o].kind = kind /\ command[o].batch = i
  /\ command' = [command EXCEPT ![o] = Idle]
  /\ UNCHANGED <<sent, mined>>

(* A batch of this id, made meanwhile, is returned as it is.               *)
WritePlan(o, i) ==
  LET S == command[o].read IN
  /\ Transaction(o, "plan", i)
  /\ batch[i] = "absent" /\ Reservable(S)
  /\ batch' = [batch EXCEPT ![i] = "planned"]
  /\ links' = [links EXCEPT ![i] = S]
  /\ credit' = [c \in Credits |-> IF c \in S THEN "planned" ELSE credit[c]]
  /\ UNCHANGED <<payment, txid, stale>>

WriteCancel(o, i) ==
  /\ Transaction(o, "cancel", i)
  /\ Release(links[i])
  /\ batch' = [batch EXCEPT ![i] = "cancelled"]
  /\ stale' = (stale \/ batch[i] # "planned")
  /\ UNCHANGED <<links, payment, txid>>

(* persist_psbt.  The batch's id is the primary key.                       *)
WritePsbt(o, i) ==
  /\ Transaction(o, "build", i)
  /\ payment[i] = "none"
  /\ payment' = [payment EXCEPT ![i] = "psbt_ready"]
  /\ batch' = [batch EXCEPT ![i] = IF @ = "planned" THEN "psbt_ready" ELSE @]
  /\ stale' = (stale \/ batch[i] # "planned")
  /\ UNCHANGED <<credit, links, txid>>

(* attach_txid: two UPDATEs, each with its own condition.                  *)
WriteTxid(o, i) ==
  /\ Transaction(o, "attach", i)
  /\ txid' = [txid EXCEPT ![i] = @ \/ payment[i] = "psbt_ready"]
  /\ payment' = [payment EXCEPT ![i] = IF @ = "psbt_ready" THEN "broadcast" ELSE @]
  /\ batch' = [batch EXCEPT ![i] = IF @ = "psbt_ready" THEN "broadcast" ELSE @]
  /\ UNCHANGED <<credit, links, stale>>

(* cancel_unbroadcast: the payment is cancelled whatever its state.        *)
WriteCancelPsbt(o, i) ==
  /\ Transaction(o, "unsend", i)
  /\ \A c \in links[i] : credit[c] \in {"planned", "pending"}
  /\ Release(links[i])
  /\ payment' = [payment EXCEPT ![i] = "cancelled"]
  /\ batch' = [batch EXCEPT ![i] = IF @ = "psbt_ready" THEN "cancelled" ELSE @]
  /\ stale' = (stale \/ payment[i] # "psbt_ready")
  /\ UNCHANGED <<links, txid>>

(* record_check writes the state it worked out before.                     *)
WriteCheck(o, i) ==
  LET state == command[o].state IN
  /\ Transaction(o, "record", i)
  /\ payment' = [payment EXCEPT ![i] = state]
  /\ batch' = [batch EXCEPT ![i] =
       IF {state, @} = {"confirmed", "broadcast"} THEN state ELSE @]
  /\ UNCHANGED <<credit, links, txid, stale>>

WriteSettlement(o, i) ==
  /\ Transaction(o, "settle", i)
  /\ \A c \in links[i] : credit[c] \in {"planned", "paid"}
  /\ credit' = [c \in Credits |-> IF c \in links[i] THEN "paid" ELSE credit[c]]
  /\ payment' = [payment EXCEPT ![i] = "paid"]
  /\ batch' = [batch EXCEPT ![i] = "paid"]
  /\ UNCHANGED <<links, txid, stale>>

-----------------------------------------------------------------------------
(* The signer, elsewhere; the wallet's node; time.                         *)

Sign(i) ==
  /\ payment[i] \notin {"none", "cancelled"} /\ ~sent[i]
  /\ \A o \in Operators : ~(command[o].kind = "unsend" /\ command[o].batch = i)
  /\ sent' = [sent EXCEPT ![i] = TRUE]
  /\ UNCHANGED <<ledgerVars, mined, command, stale>>

Mined(i) ==
  /\ sent[i]
  /\ mined' = [mined EXCEPT ![i] = ~@]
  /\ UNCHANGED <<ledgerVars, sent, command, stale>>

Reads(o, i) ==
  \/ Plan(o, i) \/ Cancel(o, i) \/ Build(o, i) \/ Attach(o, i)
  \/ CancelPsbt(o, i) \/ Check(o, i) \/ Settle(o, i)

Writes(o, i) ==
  \/ WritePlan(o, i) \/ WriteCancel(o, i) \/ WritePsbt(o, i)
  \/ WriteTxid(o, i) \/ WriteCancelPsbt(o, i) \/ WriteCheck(o, i)
  \/ WriteSettlement(o, i)

Next ==
  \/ \E o \in Operators :
       ReadPayment(o) \/ Die(o) \/ \E i \in Batches : Reads(o, i) \/ Writes(o, i)
  \/ \E i \in Batches : Sign(i) \/ Mined(i)

Spec == Init /\ [][Next]_vars

-----------------------------------------------------------------------------
(* Properties.                                                             *)

Live(i) ==
  \/ batch[i] = "planned"
  \/ payment[i] \in {"psbt_ready", "broadcast", "confirmed", "paid"}

(* Of all that commands at the same time may do to each other, only a      *)
(* cancellation or a PSBT written for a batch that has moved on can let a  *)
(* credit be reserved twice, or paid by two transactions: plans of the     *)
(* same credits, checks, attachments and settlements, in any interleaving, *)
(* cannot.                                                                 *)
ReservedOnce ==
  ~stale =>
    \A i, j \in Batches :
      i # j /\ (Live(i) \/ sent[i]) /\ (Live(j) \/ sent[j])
        => links[i] \cap links[j] = {}

(* A credit marked paid stays paid, whatever was read before it was by a   *)
(* command that writes after it, stale cancellations included.             *)
PaidForGood ==
  [][\A c \in Credits : credit[c] = "paid" => credit'[c] = "paid"]_vars
=============================================================================
