------------------------------- MODULE PayOnce ------------------------------
(***************************************************************************)
(* What the payout ledger promises about each credit, whatever batches,    *)
(* transactions and reorganisations there are: it is owed once the pool    *)
(* found its block, it is reserved by one payout at a time, a reservation  *)
(* can be given up only while no money has left the wallet, and the money  *)
(* leaves once.                                                            *)
(***************************************************************************)
EXTENDS Naturals

CONSTANT Credits

VARIABLES
  stage,   \* where each credit is
  times    \* how many broadcast transactions paid it

Stages == {"absent", "owed", "reserved", "disbursed"}

Init ==
  /\ stage = [c \in Credits |-> "absent"]
  /\ times = [c \in Credits |-> 0]

Move(S, from, to) ==
  /\ S # {}
  /\ \A c \in S : stage[c] = from
  /\ stage' = [c \in Credits |-> IF c \in S THEN to ELSE stage[c]]

Accrue(S) == Move(S, "absent", "owed") /\ UNCHANGED times
Reserve(S) == Move(S, "owed", "reserved") /\ UNCHANGED times
Release(S) == Move(S, "reserved", "owed") /\ UNCHANGED times

Disburse(S) ==
  /\ Move(S, "reserved", "disbursed")
  /\ times' = [c \in Credits |-> IF c \in S THEN times[c] + 1 ELSE times[c]]

Next == \E S \in SUBSET Credits :
          Accrue(S) \/ Reserve(S) \/ Release(S) \/ Disburse(S)

Spec == Init /\ [][Next]_<<stage, times>>

TypeOK ==
  /\ stage \in [Credits -> Stages]
  /\ times \in [Credits -> Nat]

(* A credit is paid by at most one transaction, and is then never owed     *)
(* again.                                                                  *)
AtMostOnce ==
  \A c \in Credits : times[c] = IF stage[c] = "disbursed" THEN 1 ELSE 0
=============================================================================
