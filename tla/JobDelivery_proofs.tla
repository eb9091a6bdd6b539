------------------------- MODULE JobDelivery_proofs -------------------------
(***************************************************************************)
(* Theorems about JobDelivery, for any number of connections and of        *)
(* changes of the node's tip.                                              *)
(***************************************************************************)
EXTENDS JobDelivery, TLAPS

USE DEF poolVars, clientVars, taskVars

States == {"absent", "idle", "writing", "reply", "submit", "accepted", "asked",
           "served", "sending", "closed"}

(* Nobody has heard of a job that does not exist yet.                      *)
ToldMade == \A s \in Sessions : told[s] <= job

(* Only a connection that has come can authorize.                          *)
Come == \A s \in Sessions : at[s] = "absent" => s \notin authorized

(* Who authorized before subscribing is answered, or is told nothing yet.  *)
Waiting ==
  \A s \in authorized \ subscribed :
    s \in early \/ at[s] \in {"reply", "closed"}

(* What a miner with an old job can count on is the current job's own      *)
(* broadcast: what an overtaken one has left may be dropped.               *)
Reached(s) ==
  \/ told[s] = job
  \/ at[s] = "reply"
  \/ \E a \in Actors : made[a] = job /\ s \in left[a]

DeliverySound ==
  /\ ToldMade
  /\ Come
  /\ Waiting
  /\ cut \/ \A s \in Working : Reached(s)

-----------------------------------------------------------------------------
LEMMA WriteTypes ==
  ASSUME TypeOK, NEW a \in Actors, NEW s \in Sessions, Write(a, s)
  PROVE  /\ told' \in [Sessions -> Nat]
         /\ \A u \in Sessions : told'[u] = IF u = s /\ s \in connected THEN job
                                           ELSE told[u]
         /\ early' = early \ {s} /\ early' \in SUBSET Sessions
BY DEF Write, Sent, TypeOK

LEMMA RaiseTypes ==
  ASSUME TypeOK, NEW a \in Actors, Raise(a)
  PROVE  /\ told' \in [Sessions -> Nat]
         /\ at' \in [Actors -> States]
         /\ sessions' \in SUBSET Sessions /\ connected' \in SUBSET Sessions
         /\ \A u \in Sessions : told'[u] = IF u = a THEN 0 ELSE told[u]
         /\ \A u \in Actors : u # a => at'[u] = at[u]
         /\ sessions' = sessions \ {a} /\ connected' = connected \ {a}
BY DEF Raise, TypeOK, States

LEMMA TypeInductive ==
  ASSUME TypeOK, [Next]_vars
  PROVE  TypeOK'
<1> USE ActorAssumption DEF Actors
<1>0. /\ connected \in SUBSET Sessions /\ timedOut \in SUBSET Sessions
      /\ sessions \in SUBSET Sessions /\ authorized \in SUBSET Sessions
      /\ subscribed \in SUBSET Sessions /\ early \in SUBSET Sessions
  BY DEF TypeOK
<1>1. ASSUME NEW a \in Actors, Answer(a) \/ Skip(a) \/ EndBroadcast(a)
             \/ Apply(a) \/ Drained(a) \/ (\E s \in Sessions : Notify(a, s))
             \/ Fail(a) \/ CutShort(a)
      PROVE  TypeOK'
  <2>1. CASE Answer(a)
    BY <1>0, <1>1, <2>1 DEF Answer, TypeOK
  <2>2. CASE Skip(a)
    BY <1>0, <1>1, <2>2 DEF Skip, TypeOK
  <2>3. CASE EndBroadcast(a)
    BY <1>0, <1>1, <2>3 DEF EndBroadcast, TypeOK
  <2>4. CASE Apply(a)
    <3>1. job' \in Nat /\ jobTip' \in Nat
      BY <1>1, <2>4 DEF Apply, TypeOK
    <3>2. made' \in [Actors -> Nat] /\ got' \in [Actors -> Nat]
      BY <1>1, <2>4 DEF Apply, TypeOK
    <3>3. /\ left' \in [Actors -> SUBSET Sessions]
          /\ dead' \in [Actors -> SUBSET Sessions]
      BY <1>0, <1>1, <2>4 DEF Apply, TypeOK
    <3>4. at' \in [Actors -> States] /\ cut' \in BOOLEAN
      BY <1>1, <2>4 DEF Apply, TypeOK, States
    <3> QED
      BY <1>0, <2>4, <3>1, <3>2, <3>3, <3>4 DEF Apply, TypeOK, States
  <2>5. CASE Drained(a)
    BY <1>0, <1>1, <2>5 DEF Drained, GoOn, TypeOK
  <2>6. ASSUME NEW s \in Sessions, Notify(a, s)
        PROVE  TypeOK'
    <3>1. told' \in [Sessions -> Nat] /\ early' \in SUBSET Sessions
      BY <1>0, <1>1, <2>6, WriteTypes DEF Notify, TypeOK
    <3> QED
      BY <1>0, <1>1, <2>6, <3>1 DEF Notify, TypeOK
  <2>7. CASE Fail(a)
    BY <1>0, <1>1, <2>7, RaiseTypes DEF Fail, TypeOK, States
  <2>8. CASE CutShort(a)
    BY <1>0, <1>1, <2>8, RaiseTypes DEF CutShort, TypeOK, States
  <2> QED
    BY <1>1, <2>1, <2>2, <2>3, <2>4, <2>5, <2>6, <2>7, <2>8
<1>2. ASSUME NEW s \in Sessions, Connect(s) \/ Disconnect(s) \/ Subscribe(s)
             \/ Authorize(s) \/ Submit(s) \/ BlockAccepted(s) \/ Handle(s)
      PROVE  TypeOK'
  <2>1. CASE Connect(s)
    BY <1>0, <2>1 DEF Connect, TypeOK
  <2>2. CASE Disconnect(s)
    BY <1>0, <2>2 DEF Disconnect, TypeOK
  <2>3. CASE Subscribe(s)
    BY <1>0, <2>3 DEF Subscribe, Answering, TypeOK
  <2>4. CASE Authorize(s)
    BY <1>0, <2>4 DEF Authorize, Answering, TypeOK
  <2>5. CASE Submit(s)
    BY <1>0, <2>5 DEF Submit, TypeOK
  <2>6. CASE BlockAccepted(s)
    BY <1>0, <2>6 DEF BlockAccepted, Answering, TypeOK
  <2>7. CASE Close(s)
    BY <1>0, <2>7 DEF Close, TypeOK
  <2>8. CASE Greet(s)
    <3>1. told' \in [Sessions -> Nat] /\ early' \in SUBSET Sessions
      BY <1>0, <2>8, WriteTypes DEF Greet, TypeOK
    <3>2. at' \in [Actors -> States] /\ drain' \in [Actors -> Sessions \cup {Nobody}]
      BY <2>8 DEF Greet, Answering, TypeOK, States
    <3> QED
      BY <1>0, <2>8, <3>1, <3>2 DEF Greet, TypeOK, States
  <2>9. CASE Answered(s)
    BY <1>0, <2>9 DEF Answered, TypeOK
  <2>10. CASE NoBlock(s)
    BY <1>0, <2>10 DEF NoBlock, Answering, TypeOK
  <2>11. CASE RefreshNow(s)
    BY <1>0, <2>11 DEF RefreshNow, TypeOK
  <2> QED
    BY <1>2, <2>1, <2>2, <2>3, <2>4, <2>5, <2>6, <2>7, <2>8, <2>9, <2>10, <2>11
    DEF Handle
<1>3. CASE TipMoves
  BY <1>3 DEF TipMoves, TypeOK
<1>4. CASE Poll
  BY <1>4 DEF Poll, TypeOK
<1>5. CASE UNCHANGED vars
  BY <1>5 DEF vars, TypeOK
<1> QED
  BY <1>1, <1>2, <1>3, <1>4, <1>5 DEF Next, Run

(* Steps that neither tell anybody a job, nor change what a broadcast has  *)
(* left, nor make anybody a working miner.                                 *)
LEMMA NothingLost ==
  ASSUME DeliverySound, UNCHANGED <<job, told, made, left, cut>>,
         UNCHANGED <<subscribed, authorized, early>>,
         Working' \subseteq Working, NEW moving \in Actors,
         \A a \in Actors : a # moving => at'[a] = at[a],
         \/ at' = at
         \/ /\ at'[moving] # "absent" /\ at[moving] # "closed"
            /\ \/ at[moving] # "reply"
               \/ at'[moving] = "closed" /\ moving \notin Working',
         TypeOK
  PROVE  DeliverySound'
<1>1. ToldMade'
  BY DEF DeliverySound, ToldMade
<1>2. Come'
  BY DEF DeliverySound, Come, Actors
<1>3. Waiting'
  BY DEF DeliverySound, Waiting, Actors, TypeOK
<1>4. ASSUME NEW s \in Working', Reached(s)
      PROVE  Reached(s)'
  <2>1. s \in Actors
    BY <1>4 DEF Working, Actors, TypeOK
  <2> QED
    BY <1>4, <2>1 DEF Reached
<1> QED
  BY <1>1, <1>2, <1>3, <1>4 DEF DeliverySound

LEMMA DeliveryInductive ==
  ASSUME TypeOK, DeliverySound, [Next]_vars, TypeOK'
  PROVE  DeliverySound'
<1> USE ActorAssumption DEF Actors
<1>0. /\ connected \in SUBSET Sessions /\ sessions \in SUBSET Sessions
      /\ authorized \in SUBSET Sessions /\ subscribed \in SUBSET Sessions
  BY DEF TypeOK
<1>1. ASSUME NEW a \in Actors, Answer(a) \/ Skip(a) \/ Drained(a)
      PROVE  DeliverySound'
  <2>1. /\ UNCHANGED <<job, told, made, left, cut>>
        /\ UNCHANGED <<subscribed, authorized, early>>
        /\ Working' = Working
    BY <1>1 DEF Answer, Skip, Drained, GoOn, Working, TypeOK
  <2>2. CASE Answer(a) \/ Skip(a)
    <3>1. /\ at[a] # "reply" /\ at[a] # "closed" /\ at'[a] # "absent"
          /\ \A b \in Actors : b # a => at'[b] = at[b]
      BY <2>2 DEF Answer, Skip, TypeOK
    <3> QED
      BY <2>1, <3>1, NothingLost
  <2>3. CASE Drained(a)
    BY <2>1, <2>3, NothingLost DEF Drained
  <2> QED
    BY <1>1, <2>2, <2>3
<1>2. ASSUME NEW a \in Actors, Apply(a)
      PROVE  DeliverySound'
  <2>1. /\ job' = job + 1 /\ made'[a] = job' /\ left'[a] = sessions
        /\ UNCHANGED <<told, sessions, connected, subscribed, authorized, early>>
        /\ \A s \in Sessions : at'[s] = "absent" => at[s] = "absent"
        /\ at[a] = "served" /\ \A b \in Actors : b # a => at'[b] = at[b]
    BY <1>2 DEF Apply, TypeOK
  <2>2. \A s \in Working' : Reached(s)'
    BY <2>1 DEF Working, Reached
  <2>3. ToldMade' /\ Come'
    BY <2>1 DEF DeliverySound, ToldMade, Come, TypeOK
  <2>4. Waiting'
    BY <1>0, <2>1 DEF DeliverySound, Waiting
  <2> QED
    BY <2>2, <2>3, <2>4 DEF DeliverySound
<1>3. ASSUME NEW a \in Actors, NEW s \in Sessions, Notify(a, s)
      PROVE  DeliverySound'
  <2>1. /\ UNCHANGED <<job, sessions, connected, subscribed, authorized, at, made>>
        /\ UNCHANGED cut
        /\ \A b \in Actors : left'[b] = IF b = a THEN left[b] \ {s} ELSE left[b]
    BY <1>3 DEF Notify, TypeOK
  <2>2. /\ \A u \in Sessions :
             told'[u] = IF u = s /\ s \in authorized \cap subscribed /\ s \in connected
                        THEN job ELSE told[u]
        /\ early' = IF s \in authorized \cap subscribed THEN early \ {s} ELSE early
    BY <1>3, WriteTypes DEF Notify
  <2>3. ASSUME NEW u \in Working', u = s \/ Reached(u)
        PROVE  Reached(u)'
    <3>1. u \in Sessions /\ u \in authorized /\ u \in subscribed /\ u \in connected
      BY <1>0, <2>1 DEF Working
    <3>2. CASE u = s
      BY <2>1, <2>2, <3>1, <3>2 DEF Reached
    <3>3. CASE u # s
      BY <2>1, <2>2, <2>3, <3>1, <3>3 DEF Reached
    <3> QED
      BY <3>2, <3>3
  <2>4. Working' \subseteq Working \cup {s}
    BY <2>1, <2>2 DEF Working
  <2>5. ToldMade' /\ Come'
    BY <2>1, <2>2 DEF DeliverySound, ToldMade, Come, TypeOK
  <2>6. Waiting'
    BY <2>1, <2>2 DEF DeliverySound, Waiting
  <2> QED
    BY <2>1, <2>3, <2>4, <2>5, <2>6 DEF DeliverySound
<1>4. ASSUME NEW a \in Actors, Fail(a)
      PROVE  DeliverySound'
  <2>1. /\ Working' \subseteq Working \ {a}
        /\ UNCHANGED <<job, made, left, cut, subscribed, authorized, early>>
        /\ \A u \in Sessions : told'[u] = IF u = a THEN 0 ELSE told[u]
        /\ \A b \in Actors : b # a => at'[b] = at[b]
        /\ at'[a] # "absent"
        /\ a \in Sessions => at'[a] = "closed"
    BY <1>0, <1>4, RaiseTypes DEF Fail, Working, Raise
  <2>2. ToldMade' /\ Come' /\ Waiting'
    BY <1>0, <2>1 DEF DeliverySound, ToldMade, Come, Waiting, TypeOK
  <2>3. \A s \in Working' : Reached(s) => Reached(s)'
    BY <1>0, <2>1 DEF Reached, Working
  <2> QED
    BY <2>1, <2>2, <2>3 DEF DeliverySound
<1>5. ASSUME NEW a \in Actors, CutShort(a)
      PROVE  DeliverySound'
  <2>1. /\ Working' \subseteq Working \ {a}
        /\ \A u \in Sessions : told'[u] = IF u = a THEN 0 ELSE told[u]
        /\ \A u \in Actors : u # a => at'[u] = at[u]
        /\ UNCHANGED <<job, subscribed, authorized, early>>
        /\ cut' = (cut \/ made[a] = job)
        /\ at'[a] # "absent"
        /\ a \in Sessions => at'[a] = "closed"
        /\ \A b \in Actors : b # a => made'[b] = made[b] /\ left'[b] = left[b]
    BY <1>0, <1>5, RaiseTypes DEF CutShort, Working, Raise, TypeOK
  <2>2. ToldMade' /\ Come' /\ Waiting'
    BY <1>0, <2>1 DEF DeliverySound, ToldMade, Come, Waiting, TypeOK
  <2>3. cut' \/ \A s \in Working' : Reached(s)'
    BY <1>0, <2>1 DEF DeliverySound, Reached, Working
  <2> QED
    BY <2>2, <2>3 DEF DeliverySound
<1>6. ASSUME NEW a \in Actors, EndBroadcast(a)
      PROVE  DeliverySound'
  <2>1. /\ UNCHANGED <<job, subscribed, authorized, early, told, left, cut>>
        /\ left[a] = {}
        /\ Working' \subseteq Working
        /\ \A b \in Actors : b # a => made'[b] = made[b] /\ at'[b] = at[b]
        /\ at[a] = "sending" /\ at'[a] = "idle"
    BY <1>6 DEF EndBroadcast, Working, TypeOK
  <2>2. \A s \in Working' : Reached(s) => Reached(s)'
    BY <1>0, <2>1 DEF Reached, Working
  <2> QED
    BY <1>0, <2>1, <2>2 DEF DeliverySound, ToldMade, Come, Waiting
<1>7. ASSUME NEW s \in Sessions, Connect(s)
      PROVE  DeliverySound'
  <2>1. s \notin authorized
    BY <1>7 DEF Connect, DeliverySound, Come
  <2>2. Working' = Working
    BY <1>7, <2>1 DEF Connect, Working
  <2>3. /\ at[s] = "absent" /\ at'[s] # "absent"
        /\ \A a \in Actors : a # s => at'[a] = at[a]
    BY <1>7 DEF Connect, TypeOK
  <2> QED
    BY <1>7, <2>2, <2>3, NothingLost DEF Connect
<1>8. ASSUME NEW s \in Sessions, Authorize(s)
      PROVE  DeliverySound'
  <2>1. /\ Working' \subseteq Working \cup {s}
        /\ UNCHANGED <<job, told, made, left, cut, subscribed, early>>
        /\ authorized' = authorized \cup {s}
        /\ \A a \in Actors : at'[a] = IF a = s THEN "reply" ELSE at[a]
    BY <1>8 DEF Authorize, Answering, Working, TypeOK
  <2>2. \A u \in Working' : u = s \/ Reached(u) => Reached(u)'
    BY <1>0, <2>1 DEF Reached, Working
  <2> QED
    BY <1>0, <2>1, <2>2 DEF DeliverySound, ToldMade, Come, Waiting
<1>9. ASSUME NEW s \in Sessions, Disconnect(s)
      PROVE  DeliverySound'
  <2>1. /\ UNCHANGED <<job, at, made, left, cut, subscribed, authorized, early>>
        /\ Working' \subseteq Working \ {s}
        /\ \A u \in Sessions : told'[u] = IF u = s THEN 0 ELSE told[u]
    BY <1>9 DEF Disconnect, Working, TypeOK
  <2>2. ToldMade' /\ Come' /\ Waiting'
    BY <2>1 DEF DeliverySound, ToldMade, Come, Waiting, TypeOK
  <2>3. \A u \in Working' : Reached(u) => Reached(u)'
    BY <1>0, <2>1 DEF Reached, Working
  <2> QED
    BY <2>1, <2>2, <2>3 DEF DeliverySound
<1>10. ASSUME NEW s \in Sessions,
              \/ Submit(s) \/ BlockAccepted(s) \/ NoBlock(s) \/ RefreshNow(s)
              \/ Close(s) \/ Answered(s)
       PROVE  DeliverySound'
  <2>1. /\ UNCHANGED <<job, told, made, left, cut, subscribed, authorized, early>>
        /\ Working' \subseteq Working
        /\ at'[s] # "absent" /\ at[s] # "closed"
        /\ \A a \in Actors : a # s => at'[a] = at[a]
    BY <1>10
    DEF Submit, BlockAccepted, NoBlock, RefreshNow, Close, Answered, Answering,
        Working, TypeOK
  <2>2. \/ at[s] # "reply"
        \/ at'[s] = "closed" /\ s \notin Working'
    BY <1>10
    DEF Submit, BlockAccepted, NoBlock, RefreshNow, Close, Answered, Working,
        TypeOK
  <2> QED
    BY <2>1, <2>2, NothingLost
<1>11. ASSUME NEW s \in Sessions, Greet(s)
       PROVE  DeliverySound'
  <2>1. /\ UNCHANGED <<job, made, left, cut, connected, sessions>>
        /\ UNCHANGED <<subscribed, authorized>>
        /\ \A a \in Actors : a # s => at'[a] = at[a]
        /\ at'[s] # "absent" /\ at[s] = "reply"
    BY <1>11 DEF Greet, Answering, TypeOK
  <2>2. \A u \in Sessions :
          told'[u] = IF u = s /\ s \in subscribed /\ s \in connected THEN job
                     ELSE told[u]
    BY <1>11, WriteTypes DEF Greet
  <2>3. early' = IF s \in subscribed THEN early \ {s} ELSE early \cup {s}
    BY <1>11, WriteTypes DEF Greet
  <2>4. ToldMade' /\ Come'
    BY <2>1, <2>2 DEF DeliverySound, ToldMade, Come, TypeOK
  <2>5. Waiting'
    BY <1>0, <2>1, <2>3 DEF DeliverySound, Waiting
  <2>6. ASSUME NEW u \in Working', u = s \/ Reached(u)
        PROVE  Reached(u)'
    BY <1>0, <2>1, <2>2, <2>3, <2>6 DEF Reached, Working
  <2>7. Working' \subseteq Working \cup {s}
    BY <2>1, <2>3 DEF Working
  <2> QED
    BY <2>1, <2>4, <2>5, <2>6, <2>7 DEF DeliverySound
<1>12. CASE TipMoves \/ UNCHANGED vars
  <2>1. /\ UNCHANGED <<job, told, made, left, cut, at>>
        /\ UNCHANGED <<subscribed, authorized, early>>
        /\ Working' = Working
    BY <1>12 DEF TipMoves, vars, Working
  <2> QED
    BY <2>1, NothingLost
<1>13. CASE Poll
  <2>1. /\ UNCHANGED <<job, told, made, left, cut, subscribed, authorized, early>>
        /\ Working' = Working
        /\ at[Loop] = "idle" /\ at'[Loop] # "absent"
        /\ \A a \in Actors : a # Loop => at'[a] = at[a]
    BY <1>13 DEF Poll, Working, TypeOK
  <2> QED
    BY <2>1, NothingLost
<1>14. ASSUME NEW s \in Sessions, Subscribe(s)
       PROVE  DeliverySound'
  <2>1. /\ UNCHANGED <<job, told, made, left, cut, authorized, early>>
        /\ subscribed' = subscribed \cup {s}
        /\ at[s] = "idle" /\ at'[s] = "writing"
        /\ \A a \in Actors : a # s => at'[a] = at[a]
        /\ s \notin subscribed /\ UNCHANGED <<connected, sessions>>
    BY <1>14 DEF Subscribe, Answering, TypeOK
  <2>2. Working' \subseteq Working
    BY <1>0, <2>1 DEF DeliverySound, Waiting, Working
  <2>3. \A u \in Working' : Reached(u) => Reached(u)'
    BY <1>0, <2>1 DEF Reached, Working
  <2> QED
    BY <1>0, <2>1, <2>2, <2>3 DEF DeliverySound, ToldMade, Come, Waiting
<1> QED
  BY <1>1, <1>2, <1>3, <1>4, <1>5, <1>6, <1>7, <1>8, <1>9, <1>10, <1>11, <1>12,
     <1>13, <1>14
  DEF Next, Run, Handle

-----------------------------------------------------------------------------
(* Every variable keeps its type, however many clients come and go and     *)
(* however often the tip moves.                                            *)
THEOREM DeliveryTyped == Spec => []TypeOK
<1>1. Init => TypeOK
  <2> SUFFICES ASSUME Init
               PROVE  TypeOK
    OBVIOUS
  <2>1. {connected, timedOut, sessions, subscribed, authorized, early}
          \subseteq SUBSET Sessions
    BY DEF Init
  <2>2. at \in [Actors -> States]
    BY DEF Init, States
  <2> QED
    BY <2>1, <2>2 DEF Init, TypeOK, States
<1> QED
  BY <1>1, TypeInductive, PTL DEF Spec

(* A working miner has the current job, is about to be greeted with it, or *)
(* is still to be visited by that job's own broadcast, unless a timeout    *)
(* cut this broadcast short: overtaken broadcasts are not counted on.      *)
THEOREM DeliveryAlwaysSound == Spec => []DeliverySound
<1>1. Init => DeliverySound
  BY ActorAssumption DEF Init, DeliverySound, ToldMade, Come, Waiting, Working
<1>2. TypeOK /\ TypeOK' /\ DeliverySound /\ [Next]_vars => DeliverySound'
  BY DeliveryInductive
<1> QED
  BY <1>1, <1>2, DeliveryTyped, PTL DEF Spec

(* Overlapping refreshes and broadcasts forget nobody.                     *)
THEOREM NobodyIsForgotten == Spec => []NobodyForgotten
<1>1. DeliverySound => NobodyForgotten
  BY DEF DeliverySound, NobodyForgotten, Reached
<1> QED
  BY <1>1, DeliveryAlwaysSound, PTL

(* No write, of an overtaken broadcast or of a greeting that was waiting,  *)
(* gives a miner an older job than it has.                                 *)
THEOREM JobsOnlyAdvance == Spec => NeverOlder
<1> DEFINE Advance == \A s \in connected' : told'[s] >= told[s]
<1>1. TypeOK /\ TypeOK' /\ DeliverySound /\ [Next]_vars => Advance
  <2> SUFFICES ASSUME TypeOK, TypeOK', DeliverySound, [Next]_vars
               PROVE  Advance
    OBVIOUS
  <2>1. \A s \in Sessions : told[s] \in Nat /\ told[s] <= job /\ job \in Nat
    BY DEF TypeOK, DeliverySound, ToldMade
  <2>2. connected' \subseteq Sessions
    BY DEF TypeOK
  <2>3. CASE told' = told
    BY <2>1, <2>2, <2>3
  <2>4. ASSUME NEW a \in Actors, NEW s \in Sessions, Write(a, s)
        PROVE  Advance
    BY <2>1, <2>2, <2>4, WriteTypes
  <2>5. ASSUME NEW a \in Actors, Raise(a)
        PROVE  Advance
    BY <2>1, <2>2, <2>5, RaiseTypes
  <2>6. ASSUME NEW s \in Sessions, Disconnect(s)
        PROVE  Advance
    BY <2>1, <2>2, <2>6 DEF Disconnect, TypeOK
  <2> QED
    BY <2>3, <2>4, <2>5, <2>6
    DEF Next, Run, Handle, Poll, TipMoves, Answer, Fail, Skip, Apply, Notify,
        Drained, CutShort, EndBroadcast, Connect, Subscribe, Authorize, Submit,
        BlockAccepted, NoBlock, RefreshNow, Close, Greet, Answered, vars, Actors
<1> QED
  BY <1>1, DeliveryTyped, DeliveryAlwaysSound, PTL DEF Spec, NeverOlder
=============================================================================
