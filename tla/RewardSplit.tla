---------------------------- MODULE RewardSplit -----------------------------
(***************************************************************************)
(* How scripts/crakpool-accounting.py divides a block reward among the     *)
(* workers of its window: allocate_satoshis, by largest remainders.        *)
(*                                                                         *)
(* The state is a window that grows share by share and the reward it is    *)
(* paid; the credits are computed from both.  Scores are whole numbers,    *)
(* multiples of the smallest difficulty in use, and exact, as the code's   *)
(* 28-digit decimals are for scores of up to twelve digits.                *)
(***************************************************************************)
EXTENDS Naturals, FiniteSets, FiniteSetsExt

CONSTANTS
  Workers,     \* worker names, as numbers: ties are broken by name
  Difficulty,  \* difficulties a share may have
  FeeBps,      \* --pool-fee-bps
  MaxScore,    \* bounds of the instance: a worker's score
  MaxReward    \*   and the reward in satoshis

ASSUME SplitAssumption ==
  /\ Workers \subseteq Nat /\ IsFiniteSet(Workers)
  /\ Difficulty \subseteq Nat \ {0}
  /\ FeeBps \in 0..10000
  /\ {MaxScore, MaxReward} \subseteq Nat

VARIABLES
  score,   \* _score_rows of the window
  reward   \* coinbasevalue

splitVars == <<score, reward>>

SplitInit ==
  /\ score = [w \in Workers |-> 0]
  /\ reward = 0

(* The window gets one more share, of worker w and difficulty d.           *)
AddShare(w, d) ==
  /\ score[w] + d <= MaxScore
  /\ score' = [score EXCEPT ![w] = @ + d]
  /\ UNCHANGED reward

(* The template of the next block pays one satoshi more.                   *)
AddFee ==
  /\ reward < MaxReward
  /\ reward' = reward + 1
  /\ UNCHANGED score

SplitNext == AddFee \/ \E w \in Workers, d \in Difficulty : AddShare(w, d)

SplitSpec == SplitInit /\ [][SplitNext]_splitVars

-----------------------------------------------------------------------------
(* What the pool keeps is rounded down.                                    *)
Distributable == reward - (reward * FeeBps) \div 10000

(* Only workers with a score are credited.                                 *)
Credited == {w \in Workers : score[w] > 0}

SumOf(c) == MapThenSumSet(LAMBDA w : c[w], Credited)

Total == SumOf(score)

(* The exact share of w is Whole + Fraction / Total satoshis.              *)
Whole(w) == (Distributable * score[w]) \div Total
Fraction(w) == (Distributable * score[w]) % Total

(* Mutant: shares are rounded down and the rest is dropped.                *)
RemainderDropped == 0

(* Satoshis left over by rounding every share down.                        *)
Remainder == Distributable - SumOf([w \in Credited |-> Whole(w)])

(* Mutant: the smallest fractions are served first.                        *)
AheadSmallest(w) ==
  {v \in Credited : \/ Fraction(v) < Fraction(w)
                    \/ Fraction(v) = Fraction(w) /\ v < w}

(* Mutant: left-over satoshis go out in the order of names.                *)
AheadByName(w) == {v \in Credited : v < w}

(* Workers who get a left-over satoshi before w does.                      *)
Ahead(w) ==
  {v \in Credited : \/ Fraction(v) > Fraction(w)
                    \/ Fraction(v) = Fraction(w) /\ v < w}

(* allocate_satoshis.                                                      *)
Credit ==
  [w \in Credited |->
     Whole(w) + IF Cardinality(Ahead(w)) < Remainder THEN 1 ELSE 0]

-----------------------------------------------------------------------------
(* Properties.                                                             *)

(* docs/POOL.md: every distributable satoshi is allocated, and none twice. *)
Conserved == Credited # {} => SumOf(Credit) = Distributable

(* How far an allocation is from the exact shares, squared and scaled.     *)
Gap(a, b) == IF a > b THEN a - b ELSE b - a
Unfairness(c) ==
  SumOf([w \in Credited |-> Gap(Total * c[w], Distributable * score[w])
                             * Gap(Total * c[w], Distributable * score[w])])

(* No other way to hand out the same satoshis is closer to the exact       *)
(* shares.                                                                 *)
Fairest ==
  Credited # {} =>
    \A c \in [Credited -> 0..Distributable] :
      SumOf(c) = Distributable => Unfairness(Credit) <= Unfairness(c)

(* One more share in the window never costs its worker a satoshi, although *)
(* everybody's remainders are ranked anew.                                 *)
MoreWorkNeverPaysLess ==
  [][\A w \in Credited :
       score'[w] > score[w] => Credit'[w] >= Credit[w]]_splitVars
=============================================================================
