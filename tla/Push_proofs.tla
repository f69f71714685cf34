---------------------------- MODULE Push_proofs ----------------------------
(***************************************************************************)
(* Proofs about PushRelay and PushNotifier, for any devices, handles,      *)
(* requests, cap and bounds.                                               *)
(*                                                                         *)
(* CapOvershoot is not inductive: it says nothing of the requests that     *)
(* have passed the cap and have not been counted. With them the count of a *)
(* row stays below the cap plus the requests (Capped), and every delivery  *)
(* is counted, about to be, or known to go uncounted (Booked).             *)
(*                                                                         *)
(* DropsOnlyTheGone rests on what is true of the handle being sent to for  *)
(* as long as its phone has not registered it again (GoneIsGone): the      *)
(* request carries the token of its row, and a refusal means that the row  *)
(* is gone, marked, or has a token that is not the phone's any more.       *)
(***************************************************************************)
EXTENDS PushNotifier, FiniteSetTheorems, TLAPS

-----------------------------------------------------------------------------
(* The push relay *)

R == Cardinality(Requests)

(* Requests of today that have passed the cap of h, and those among them   *)
(* that were delivered.                                                    *)
Flight(h) ==
  {q \in Requests : at[q] \in {"fcm", "sent"} /\ target[q] = h /\ day[q] = today}
Sent(h) ==
  {q \in Requests : at[q] = "sent" /\ target[q] = h /\ day[q] = today}

(* Nothing is charged to a day to come. *)
PastOnly ==
  /\ \A h \in Handles : bucket[h] <= today
  /\ \A q \in Requests : day[q] <= today

TargetNamed ==
  \A q \in Requests : at[q] \in {"fcm", "sent", "refused"} => target[q] \in Handles

Capped ==
  \A h \in Handles : Counted(h) + Cardinality(Flight(h)) + 1 <= DailyCap + R

Booked ==
  \A h \in Handles :
    IF h \in known
      THEN delivered[h] <= Counted(h) + Cardinality(Sent(h)) + uncounted[h]
      ELSE delivered[h] = 0

TypeInv == TypeOK /\ TargetNamed
PushInv == TypeInv /\ PastOnly /\ Capped /\ Booked

-----------------------------------------------------------------------------
LEMMA RequestsCounted ==
  ASSUME NEW F \in SUBSET Requests
  PROVE  /\ IsFiniteSet(F)
         /\ R \in Nat /\ Cardinality(F) \in Nat /\ Cardinality(F) <= R
<1>1. IsFiniteSet(Requests) /\ IsFiniteSet(F) /\ Cardinality(F) <= R
  BY PushAssumption, FS_Subset DEF R
<1> QED BY <1>1, FS_CardinalityType DEF R

LEMMA FewerRequests ==
  ASSUME NEW F \in SUBSET Requests, NEW G \in SUBSET F
  PROVE  Cardinality(G) <= Cardinality(F)
  BY RequestsCounted, FS_Subset

LEMMA OneRequestLess ==
  ASSUME NEW F \in SUBSET Requests, NEW q \in F
  PROVE  Cardinality(F \ {q}) + 1 = Cardinality(F)
<1>1. IsFiniteSet(F) /\ Cardinality(F) \in Nat
  BY RequestsCounted
<1>2. Cardinality(F \ {q})
        = IF q \in F THEN Cardinality(F) - 1 ELSE Cardinality(F)
  BY ONLY <1>1, FS_RemoveElement
<1> QED BY <1>1, <1>2

LEMMA OneRequestMore ==
  ASSUME NEW F \in SUBSET Requests, NEW q \in Requests, q \notin F
  PROVE  Cardinality(F \cup {q}) = Cardinality(F) + 1
<1>1. IsFiniteSet(F)
  BY RequestsCounted
<1>2. Cardinality(F \cup {q})
        = IF q \in F THEN Cardinality(F) ELSE Cardinality(F) + 1
  BY ONLY <1>1, FS_AddElement
<1> QED BY <1>2

LEMMA TypeStep == TypeInv /\ [Next]_relayVars => TypeInv'
<1> SUFFICES ASSUME TypeOK, TargetNamed, [Next]_relayVars
             PROVE  TypeOK' /\ TargetNamed'
  BY DEF TypeInv
<1> USE PushAssumption
<1> USE DEF Next, Refresh, Mint, Delete, Serve, Responded, Post, Refused,
      UnknownOrPruned, CapReached, Forward, CallsFcm, AnsweredAtOnce, Answered,
      RequestMoves, FcmDelivers, FcmRefuses, FcmFails, Unheard, Record,
      NotRecorded, MarkPruned, Delivers, Counts, Uncount, Rotate, NextDay,
      relayVars, rowVars, requestVars, historyVars
<1>1. (known \in SUBSET minted /\ minted \in SUBSET Handles)'
  BY DEF TypeOK
<1>2. (pruned \in SUBSET Handles)'
  BY DEF TypeOK
<1>3. (token \in [Handles -> 0..MaxToken])'
  BY DEF TypeOK
<1>4. (fcmToken \in 0..MaxToken)'
  BY DEF TypeOK
<1>5. (today \in 0..LastDay)'
  BY DEF TypeOK
<1>6. (at \in [Requests -> Places])'
  BY DEF TypeOK, Places
<1>7. (target \in [Requests -> Handles \cup {NoHandle}])'
  BY DEF TypeOK
<1>8. (saw \in [Requests -> 0..MaxToken])'
  BY DEF TypeOK
<1>9. (day \in [Requests -> 0..LastDay])'
  BY DEF TypeOK
<1>10. (answer \in [Requests -> Answers])'
  BY DEF TypeOK, Answers
<1>11. TargetNamed'
  BY DEF TypeOK, TargetNamed
<1>12. (bucket \in [Handles -> 0..LastDay])'
  BY DEF TypeOK, TargetNamed
<1>13. (sends \in [Handles -> Nat])'
  BY DEF TypeOK, TargetNamed
<1>14. (delivered \in [Handles -> Nat])'
  BY DEF TypeOK, TargetNamed
<1>15. (uncounted \in [Handles -> Nat])'
  BY DEF TypeOK, TargetNamed, Counted
<1> QED
  BY <1>1, <1>2, <1>3, <1>4, <1>5, <1>6, <1>7, <1>8, <1>9, <1>10, <1>11,
     <1>12, <1>13, <1>14, <1>15 DEF TypeOK

LEMMA PastStep == TypeInv /\ PastOnly /\ [Next]_relayVars => PastOnly'
  BY DEF TypeInv, TypeOK, TargetNamed, PastOnly, Next, Refresh, Mint, Delete,
     Serve, Responded, Post, Refused, UnknownOrPruned, CapReached, Forward,
     CallsFcm, AnsweredAtOnce, Answered, RequestMoves, FcmDelivers, FcmRefuses,
     FcmFails, Unheard, Record, NotRecorded, MarkPruned, Rotate, NextDay,
     relayVars, rowVars, requestVars

(* What passes the cap, and what counts it. *)
Passes == \E q \in Requests, h \in Handles : Forward(q, h)
Counting == \E q \in Requests : Record(q)

LEMMA CappedStep == TypeInv /\ PastOnly /\ Capped /\ [Next]_relayVars => Capped'
<1> SUFFICES ASSUME TypeOK, TargetNamed, PastOnly, [Next]_relayVars,
                    NEW h \in Handles,
                    Counted(h) + Cardinality(Flight(h)) + 1 <= DailyCap + R
             PROVE  Counted(h)' + Cardinality(Flight(h)') + 1 <= DailyCap + R
  BY DEF TypeInv, Capped, R
<1>1. /\ R \in Nat /\ Cardinality(Flight(h)) \in Nat
      /\ Cardinality(Flight(h)') \in Nat /\ Cardinality(Flight(h)') <= R
      /\ Flight(h) \in SUBSET Requests /\ Flight(h)' \in SUBSET Requests
  <2>1. Flight(h) \in SUBSET Requests /\ Flight(h)' \in SUBSET Requests
    BY DEF Flight
  <2> QED BY <2>1, RequestsCounted
<1>2. DailyCap \in Nat \ {0} /\ Counted(h) \in Nat
  BY PushAssumption DEF TypeOK, Counted
<1>3. CASE NextDay
  <2>1. Flight(h)' = {}
    BY <1>3 DEF NextDay, PastOnly, TypeOK, Flight, requestVars
  <2>2. Counted(h)' = 0
    BY <1>3 DEF NextDay, PastOnly, TypeOK, Counted, rowVars
  <2> QED BY <1>1, <1>2, <2>1, <2>2, FS_EmptySet
<1>4. ASSUME NEW q \in Requests, NEW g \in Handles, Forward(q, g)
      PROVE  Counted(h)' + Cardinality(Flight(h)') + 1 <= DailyCap + R
  <2>1. Counted(h)' = Counted(h)
    BY <1>4 DEF Forward, CallsFcm, Counted, rowVars
  <2>2. CASE g = h
    BY <1>1, <1>2, <1>4, <2>1, <2>2 DEF Forward
  <2>3. CASE g # h
    <3>1. Flight(h)' = Flight(h)
      BY <1>4, <2>3 DEF Forward, CallsFcm, RequestMoves, Flight, TypeOK
    <3> QED BY <1>1, <1>2, <2>1, <3>1
  <2> QED BY <2>2, <2>3
<1>5. ASSUME NEW q \in Requests, Record(q)
      PROVE  Counted(h)' + Cardinality(Flight(h)') + 1 <= DailyCap + R
  <2>1. CASE target[q] = h /\ day[q] = today
    <3>1. Flight(h)' = Flight(h) \ {q} /\ q \in Flight(h)
      BY <1>5, <2>1 DEF Record, Answered, RequestMoves, Flight, TypeOK
    <3>2. Cardinality(Flight(h)') + 1 = Cardinality(Flight(h))
      BY <1>1, <3>1, OneRequestLess
    <3>3. Counted(h)' <= Counted(h) + 1 /\ Counted(h)' \in Nat
      BY <1>5, <2>1 DEF Record, Counted, TypeOK
    <3> QED BY <1>1, <1>2, <3>2, <3>3
  <2>2. CASE ~(target[q] = h /\ day[q] = today)
    <3>1. Flight(h)' = Flight(h)
      BY <1>5, <2>2 DEF Record, Answered, RequestMoves, Flight, TypeOK
    <3>2. Counted(h)' <= Counted(h) /\ Counted(h)' \in Nat
      BY <1>5, <2>2 DEF Record, Counted, TypeOK
    <3> QED BY <1>1, <1>2, <3>1, <3>2
  <2> QED BY <2>1, <2>2
<1>6. CASE ~NextDay /\ ~Passes /\ ~Counting
  <2>1. Counted(h)' = Counted(h)
    BY <1>6 DEF Passes, Counting, Next, Refresh, Mint, Delete, Serve, Responded,
       Post, Refused, UnknownOrPruned, CapReached, AnsweredAtOnce, FcmDelivers,
       FcmRefuses, FcmFails, Unheard, NotRecorded, MarkPruned, Rotate, Counted,
       relayVars, rowVars
  <2>2. Flight(h)' \in SUBSET Flight(h)
    BY <1>6 DEF Passes, Counting, Next, Refresh, Mint, Delete, Serve, Responded,
       Post, Refused, UnknownOrPruned, CapReached, AnsweredAtOnce, Answered,
       RequestMoves, FcmDelivers, FcmRefuses, FcmFails, Unheard, NotRecorded,
       MarkPruned, Rotate, Flight, TypeOK, relayVars, requestVars
  <2>3. Cardinality(Flight(h)') <= Cardinality(Flight(h))
    BY <1>1, <2>2, FewerRequests
  <2> QED BY <1>1, <1>2, <2>1, <2>3
<1> QED BY <1>3, <1>4, <1>5, <1>6 DEF Passes, Counting

LEMMA BookedStep == TypeInv /\ PastOnly /\ Booked /\ [Next]_relayVars => Booked'
<1> SUFFICES ASSUME TypeOK, TargetNamed, PastOnly, [Next]_relayVars,
                    NEW h \in Handles,
                    h \in known => delivered[h]
                      <= Counted(h) + Cardinality(Sent(h)) + uncounted[h],
                    h \notin known => delivered[h] = 0
             PROVE  /\ h \in known' => delivered'[h]
                         <= Counted(h)' + Cardinality(Sent(h)') + uncounted'[h]
                    /\ h \notin known' => delivered'[h] = 0
  BY DEF TypeInv, Booked
<1> DEFINE Goal == /\ h \in known' => delivered'[h]
                         <= Counted(h)' + Cardinality(Sent(h)') + uncounted'[h]
                   /\ h \notin known' => delivered'[h] = 0
<1>1. /\ Cardinality(Sent(h)) \in Nat /\ Cardinality(Sent(h)') \in Nat
      /\ Sent(h) \in SUBSET Requests /\ Sent(h)' \in SUBSET Requests
  <2>1. Sent(h) \in SUBSET Requests /\ Sent(h)' \in SUBSET Requests
    BY DEF Sent
  <2> QED BY <2>1, RequestsCounted
<1>2. /\ Counted(h) \in Nat /\ Counted(h)' \in Nat
      /\ delivered[h] \in Nat /\ uncounted[h] \in Nat /\ uncounted'[h] \in Nat
  BY TypeStep DEF TypeInv, TypeOK, Counted
<1>3. CASE NextDay
  BY <1>1, <1>2, <1>3 DEF NextDay
<1>4. ASSUME NEW q \in Requests, FcmDelivers(q)
      PROVE  Goal
  <2>1. /\ Counted(h)' = Counted(h) /\ uncounted'[h] = uncounted[h]
        /\ known' = known
    BY <1>4 DEF FcmDelivers, Counted, rowVars
  <2>2. CASE target[q] = h /\ day[q] = today
    <3>1. Sent(h)' = Sent(h) \cup {q} /\ q \notin Sent(h)
      BY <1>4, <2>2 DEF FcmDelivers, RequestMoves, Sent, TypeOK
    <3>2. Cardinality(Sent(h)') = Cardinality(Sent(h)) + 1
      BY <1>1, <3>1, OneRequestMore
    <3>3. delivered'[h] = IF h \in known THEN delivered[h] + 1 ELSE delivered[h]
      BY <1>4, <2>2 DEF FcmDelivers, Delivers, Counts, TypeOK
    <3> QED BY <1>1, <1>2, <2>1, <3>2, <3>3
  <2>3. CASE ~(target[q] = h /\ day[q] = today)
    <3>1. Sent(h)' = Sent(h)
      BY <1>4, <2>3 DEF FcmDelivers, RequestMoves, Sent, TypeOK
    <3>2. delivered'[h] = delivered[h]
      BY <1>4, <2>3 DEF FcmDelivers, Delivers, Counts, TypeOK
    <3> QED BY <1>1, <1>2, <2>1, <3>1, <3>2
  <2> QED BY <2>2, <2>3
<1>5. ASSUME NEW q \in Requests, Record(q) \/ NotRecorded(q)
      PROVE  Goal
  <2>1. delivered' = delivered /\ known' = known /\ target[q] \in Handles
    BY <1>5 DEF Record, NotRecorded, Answered, RequestMoves, TargetNamed, rowVars
  <2>2. CASE target[q] = h /\ day[q] = today
    <3>1. Sent(h)' = Sent(h) \ {q} /\ q \in Sent(h)
      BY <1>5, <2>2 DEF Record, NotRecorded, Answered, RequestMoves, Sent, TypeOK
    <3>2. Cardinality(Sent(h)') + 1 = Cardinality(Sent(h))
      BY <1>1, <3>1, OneRequestLess
    <3>3. CASE Record(q)
      <4>1. Counted(h)' = Counted(h) + 1 /\ uncounted'[h] = uncounted[h]
        BY <3>3, <2>2 DEF Record, Counted, Uncount, TypeOK
      <4> QED BY <1>1, <1>2, <2>1, <3>2, <4>1
    <3>4. CASE NotRecorded(q)
      <4>1. /\ Counted(h)' = Counted(h)
            /\ h \in known => uncounted'[h] = uncounted[h] + 1
        BY <3>4, <2>2 DEF NotRecorded, Counted, Counts, Uncount, TypeOK, rowVars
      <4> QED BY <1>1, <1>2, <2>1, <3>2, <4>1
    <3> QED BY <1>5, <3>3, <3>4
  <2>3. CASE ~(target[q] = h /\ day[q] = today)
    <3>1. Sent(h)' = Sent(h)
      BY <1>5, <2>3 DEF Record, NotRecorded, Answered, RequestMoves, Sent, TypeOK
    <3>2. Counted(h) + uncounted[h] <= Counted(h)' + uncounted'[h]
      BY <1>5, <2>3 DEF Record, NotRecorded, Counted, Counts, Uncount, TypeOK,
         TargetNamed, Answered, RequestMoves, rowVars
    <3> QED BY <1>1, <1>2, <2>1, <3>1, <3>2
  <2> QED BY <2>2, <2>3
<1>6. ASSUME NEW q \in Requests, Unheard(q)
      PROVE  Goal
  <2>1. Counted(h)' = Counted(h) /\ known' = known /\ target[q] \in Handles
    BY <1>6 DEF Unheard, Answered, RequestMoves, TargetNamed, Counted, rowVars
  <2>2. Sent(h)' = Sent(h)
    BY <1>6 DEF Unheard, Answered, RequestMoves, Sent, TypeOK
  <2>3. IF target[q] = h /\ Counts(q)
          THEN delivered'[h] = delivered[h] + 1 /\ uncounted'[h] = uncounted[h] + 1
          ELSE delivered'[h] = delivered[h] /\ uncounted'[h] = uncounted[h]
    BY <1>6, <2>1 DEF Unheard, Delivers, Uncount, TypeOK
  <2> QED BY <1>1, <1>2, <2>1, <2>2, <2>3 DEF Counts
<1>7. ASSUME NEW g \in Handles, Delete(g)
      PROVE  Goal
  <2>1. Counted(h)' = Counted(h) /\ Sent(h)' = Sent(h)
    BY <1>7 DEF Delete, Counted, Sent, requestVars
  <2>2. /\ g = h => delivered'[h] = 0 /\ h \notin known'
        /\ g # h => /\ delivered'[h] = delivered[h]
                    /\ uncounted'[h] = uncounted[h]
                    /\ h \in known' <=> h \in known
    BY <1>7 DEF Delete, TypeOK
  <2> QED BY <1>1, <1>2, <2>1, <2>2
<1>8. CASE /\ ~NextDay /\ \A g \in Handles : ~Delete(g)
           /\ \A q \in Requests : /\ ~FcmDelivers(q) /\ ~Record(q)
                                   /\ ~NotRecorded(q) /\ ~Unheard(q)
  <2>1. Counted(h)' = Counted(h) /\ UNCHANGED historyVars
    BY <1>8 DEF Next, Refresh, Mint, Serve, Responded, Post, Refused, CallsFcm,
       UnknownOrPruned, CapReached, Forward, AnsweredAtOnce, FcmRefuses,
       FcmFails, MarkPruned, Rotate, Counted, relayVars, rowVars
  <2>2. Sent(h)' = Sent(h)
    BY <1>8 DEF Next, Refresh, Mint, Serve, Responded, Post, Refused, CallsFcm,
       UnknownOrPruned, CapReached, Forward, AnsweredAtOnce, Answered, FcmRefuses,
       FcmFails, MarkPruned, Rotate, RequestMoves, Sent, TypeOK, relayVars,
       requestVars
  <2>3. known \in SUBSET known'
    BY <1>8 DEF Next, Refresh, Mint, Serve, Responded, Post, Refused, CallsFcm,
       UnknownOrPruned, CapReached, Forward, AnsweredAtOnce, FcmRefuses,
       FcmFails, MarkPruned, Rotate, relayVars, rowVars
  <2> QED BY <1>1, <1>2, <2>1, <2>2, <2>3 DEF historyVars
<1> QED
  BY <1>3, <1>4, <1>5, <1>6, <1>7, <1>8

-----------------------------------------------------------------------------
LEMMA InitPushInv == Init => PushInv
<1> SUFFICES ASSUME Init PROVE PushInv
  OBVIOUS
<1>1. TypeInv /\ PastOnly
  BY PushAssumption
  DEF Init, TypeInv, TypeOK, TargetNamed, PastOnly, Places, Answers
<1>2. \A h \in Handles : Counted(h) = 0 /\ Flight(h) = {} /\ Sent(h) = {}
  BY DEF Init, Counted, Flight, Sent
<1>3. R \in Nat
  BY RequestsCounted
<1>4. Capped
  BY <1>2, <1>3, FS_EmptySet, PushAssumption DEF Capped
<1>5. Booked
  BY DEF Booked, Init
<1> QED BY <1>1, <1>4, <1>5 DEF PushInv

LEMMA PushInvStep == PushInv /\ [Next]_relayVars => PushInv'
  BY TypeStep, PastStep, CappedStep, BookedStep DEF PushInv

LEMMA Invariance == Spec => []PushInv
  BY InitPushInv, PushInvStep, PTL DEF Spec

(***************************************************************************)
(* Every reachable state is well typed: a row has been minted, and a count *)
(* or a day never leaves its bounds.                                       *)
(***************************************************************************)
THEOREM PushTypeCorrect == Spec => []TypeOK
<1>1. PushInv => TypeOK
  BY DEF PushInv, TypeInv
<1> QED BY <1>1, Invariance, PTL

(***************************************************************************)
(* The daily cap is overshot by at most the requests under way together,   *)
(* less one, beside the deliveries its row does not count: notify reads    *)
(* the count before the send, and record_send writes it after.             *)
(***************************************************************************)
THEOREM CapOvershootThm == Spec => []CapOvershoot
<1>1. PushInv => CapOvershoot
  <2> SUFFICES ASSUME PushInv, NEW h \in Handles
               PROVE  delivered[h] + 1
                        <= DailyCap + Cardinality(Requests) + uncounted[h]
    BY DEF CapOvershoot
  <2>1. /\ delivered[h] \in Nat /\ uncounted[h] \in Nat
        /\ Counted(h) \in Nat /\ DailyCap \in Nat \ {0}
    BY PushAssumption DEF PushInv, TypeInv, TypeOK, Counted
  <2>2. /\ Cardinality(Sent(h)) <= Cardinality(Flight(h)) /\ R \in Nat
        /\ Cardinality(Flight(h)) \in Nat /\ Cardinality(Sent(h)) \in Nat
    <3>1. /\ Flight(h) \in SUBSET Requests /\ Sent(h) \in SUBSET Requests
          /\ Sent(h) \in SUBSET Flight(h)
      BY DEF Flight, Sent
    <3> QED BY <3>1, RequestsCounted, FewerRequests
  <2>3. Counted(h) + Cardinality(Flight(h)) + 1 <= DailyCap + R
    BY DEF PushInv, Capped
  <2>4. \/ delivered[h] <= Counted(h) + Cardinality(Sent(h)) + uncounted[h]
        \/ delivered[h] = 0
    BY DEF PushInv, Booked
  <2> QED BY <2>1, <2>2, <2>3, <2>4 DEF R
<1> QED BY <1>1, Invariance, PTL

-----------------------------------------------------------------------------
(* The notifier *)

(* Tokens only grow, and nobody holds one that is still to come. *)
TokensPast ==
  /\ \A h \in Handles : token[h] <= fcmToken
  /\ \A q \in Requests : saw[q] <= fcmToken

OwnRequest ==
  /\ notifier \in {"wait", "pause", "prune"} => current \in Handles
  /\ notifier = "wait" =>
       call \in Requests /\ at[call] \in {"fcm", "sent", "refused", "answered"}

(* The relay has said, or is about to say, that the handle is gone. *)
SaidGone ==
  \/ notifier = "prune"
  \/ notifier = "wait" /\ at[call] = "refused"
  \/ notifier = "wait" /\ at[call] = "answered" /\ answer[call] = "gone"

GoneIsGone ==
  ~fresh =>
    /\ notifier = "wait" /\ at[call] \in {"fcm", "refused"} => target[call] = current
    /\ notifier = "wait" /\ at[call] = "fcm" => saw[call] = token[current]
    /\ SaidGone => ~Reaches(current)

NotifierTypeInv == TypeInv /\ NotifierTypeOK /\ OwnRequest
NotifierInv == NotifierTypeInv /\ TokensPast /\ GoneIsGone

-----------------------------------------------------------------------------
(* What the notifier, the phone and its user do to the relay is a step of  *)
(* the relay.                                                              *)
LEMMA StepsOfTheRelay ==
  ASSUME TypeOK, NotifierTypeOK, OwnRequest, [NotifierNext]_pushVars
  PROVE  [Next]_relayVars
<1>1. CASE UNCHANGED pushVars
  BY <1>1 DEF pushVars
<1>2. CASE Registers
  BY <1>2 DEF Registers, Next, TypeOK
<1>3. CASE Unregisters
  BY <1>3 DEF Unregisters, Next
<1>4. CASE \E n \in Names : RegisterPushTarget(n) \/ RemovePushTarget(n)
  BY <1>4 DEF RegisterPushTarget, RemovePushTarget
<1>5. CASE FanOut \/ Prune
  BY <1>5 DEF FanOut, Prune
<1>6. CASE Send
  BY <1>6 DEF Send, Posts, Next, NotifierTypeOK, Devices
<1>7. CASE Retry
  BY <1>7 DEF Retry, Posts, Next, OwnRequest
<1>8. CASE Answer \/ HangUp
  BY <1>8 DEF Answer, HangUp, Next, OwnRequest
<1>9. CASE \E q \in Requests : RelayServes(q)
  BY <1>9 DEF RelayServes, Next
<1>10. CASE \E q \in Requests, h \in minted : OtherPosts(q, h)
  BY <1>10 DEF OtherPosts, Next, TypeOK
<1>11. CASE (Rotate \/ NextDay) /\ Elsewhere
  BY <1>11 DEF Next
<1> QED
  BY <1>1, <1>2, <1>3, <1>4, <1>5, <1>6, <1>7, <1>8, <1>9, <1>10, <1>11
  DEF NotifierNext, NotifierStep

(* The notifier's own request moves only when the relay serves it. *)
LEMMA OwnRequestKept ==
  ASSUME TypeOK, NotifierTypeOK, OwnRequest, [NotifierNext]_pushVars
  PROVE  OwnRequest'
<1> USE DEF OwnRequest
<1>1. CASE UNCHANGED pushVars
  BY <1>1 DEF pushVars, relayVars, requestVars, notifierVars
<1>2. CASE Registers
  BY <1>2 DEF Registers, Refresh, Mint, notifierVars, requestVars
<1>3. CASE Unregisters
  BY <1>3 DEF Unregisters, Delete, notifierVars, requestVars, relayVars
<1>4. CASE \E n \in Names : RegisterPushTarget(n) \/ RemovePushTarget(n)
  BY <1>4 DEF RegisterPushTarget, RemovePushTarget, notifierVars, relayVars,
     requestVars
<1>5. CASE FanOut \/ Prune
  BY <1>5 DEF FanOut, Prune, Dropped
<1>6. CASE Send \/ Retry
  <2>1. ASSUME NEW h \in Handles, NEW q \in Requests, Post(q, h), at'[q] # "free"
        PROVE  at'[q] \in {"fcm", "answered"}
    BY <2>1 DEF Post, Refused, UnknownOrPruned, CapReached, Forward, CallsFcm,
       AnsweredAtOnce, Answered, RequestMoves, TypeOK
  <2>2. \E h \in Handles : Posts(h) /\ current' = h
    BY <1>6 DEF Send, Retry, NotifierTypeOK, Devices
  <2> QED BY <2>1, <2>2 DEF Posts
<1>7. CASE Answer \/ HangUp
  BY <1>7 DEF Answer, HangUp, Transient, Dropped
<1>8. ASSUME NEW q \in Requests, RelayServes(q)
      PROVE  OwnRequest'
  <2>1. UNCHANGED notifierVars
    BY <1>8 DEF RelayServes, Elsewhere
  <2>2. /\ \A r \in Requests \ {q} : at'[r] = at[r]
        /\ at'[q] \in {"sent", "refused", "answered", "free"}
    BY <1>8 DEF RelayServes, Serve, FcmDelivers, FcmRefuses, FcmFails, Unheard,
       Record, NotRecorded, MarkPruned, Answered, RequestMoves, TypeOK
  <2>3. at'[q] = "free" => q # call
    BY <1>8 DEF RelayServes
  <2> QED BY <2>1, <2>2, <2>3 DEF notifierVars
<1>9. ASSUME NEW q \in Requests, NEW h \in minted, OtherPosts(q, h)
      PROVE  OwnRequest'
  <2>1. UNCHANGED notifierVars
    BY <1>9 DEF OtherPosts, Elsewhere
  <2>2. at[q] = "free" /\ \A r \in Requests \ {q} : at'[r] = at[r]
    BY <1>9 DEF OtherPosts, Post, Refused, UnknownOrPruned, CapReached, Forward,
       CallsFcm, AnsweredAtOnce, Answered, RequestMoves, TypeOK
  <2> QED BY <2>1, <2>2 DEF notifierVars
<1>10. CASE (Rotate \/ NextDay) /\ Elsewhere
  BY <1>10 DEF Rotate, NextDay, Elsewhere, notifierVars, requestVars
<1> QED
  BY <1>1, <1>2, <1>3, <1>4, <1>5, <1>6, <1>7, <1>8, <1>9, <1>10
  DEF NotifierNext, NotifierStep

LEMMA NotifierTypeStep ==
  NotifierTypeInv /\ [NotifierNext]_pushVars => NotifierTypeInv'
<1> SUFFICES ASSUME TypeInv, NotifierTypeOK, OwnRequest, [NotifierNext]_pushVars
             PROVE  TypeInv' /\ NotifierTypeOK' /\ OwnRequest'
  BY DEF NotifierTypeInv
<1>1. TypeInv' /\ OwnRequest'
  BY TypeStep, StepsOfTheRelay, OwnRequestKept DEF TypeInv
<1> USE NotifierAssumption
<1> USE DEF NotifierNext, NotifierStep, Registers, Unregisters, Upset,
      RegisterPushTarget, RemovePushTarget, FanOut, Send, Retry, Posts, Answer,
      HangUp, Prune, Transient, Dropped, RelayServes, OtherPosts, Elsewhere,
      pushVars, fileVars, notifierVars, phoneVars
<1>2. (phone \in Handles \cup {NoHandle})'
  BY DEF NotifierTypeOK
<1>3. (listed \in [Names -> Handles \cup {NoHandle}])'
  BY DEF NotifierTypeOK
<1>4. (upsets \in 0..MaxUpsets)'
  BY DEF NotifierTypeOK
<1>5. (told \in BOOLEAN)'
  BY ZenonT(60) DEF NotifierTypeOK
<1>6. (call \in Requests \cup {NoRequest})'
  BY DEF NotifierTypeOK
<1>7. (todo \in SUBSET Devices)'
  BY DEF NotifierTypeOK, ListedDevices
<1>8. (notifier \in Notifying)'
  BY DEF NotifierTypeOK, Notifying
<1>9. (current \in Handles \cup {NoHandle})'
  BY DEF NotifierTypeOK, Devices
<1>10. (retried \in BOOLEAN)'
  BY ZenonT(60) DEF NotifierTypeOK
<1>11. (fresh \in BOOLEAN)'
  BY ZenonT(60) DEF NotifierTypeOK
<1> QED
  BY <1>1, <1>2, <1>3, <1>4, <1>5, <1>6, <1>7, <1>8, <1>9, <1>10, <1>11
  DEF NotifierTypeOK

LEMMA TokensStep ==
  TypeOK /\ TargetNamed /\ TokensPast /\ [Next]_relayVars => TokensPast'
  BY DEF TypeOK, TargetNamed, TokensPast, Next, Refresh, Mint, Delete, Serve,
     Responded, Post, Refused, UnknownOrPruned, CapReached, Forward, CallsFcm,
     AnsweredAtOnce, Answered, RequestMoves, FcmDelivers, FcmRefuses, FcmFails,
     Unheard, Record, NotRecorded, MarkPruned, Rotate, NextDay, relayVars,
     rowVars, requestVars

(* The row of h has not been registered. *)
RowKept(h) ==
  /\ token'[h] = token[h]
  /\ h \in known' => h \in known
  /\ h \in pruned => h \in pruned'

(* Only a registration of h makes h reachable. *)
LEMMA OnlyRegisteringReaches ==
  ASSUME TypeOK, TokensPast, [Next]_relayVars, NEW h \in Handles, RowKept(h),
         ~Reaches(h)
  PROVE  ~Reaches(h)'
<1>1. fcmToken' = fcmToken \/ fcmToken' = fcmToken + 1
  BY DEF Next, Refresh, Mint, Delete, Serve, Responded, Post, Refused,
     UnknownOrPruned, CapReached, Forward, CallsFcm, AnsweredAtOnce,
     FcmDelivers, FcmRefuses, FcmFails, Unheard, Record, NotRecorded,
     MarkPruned, Rotate, NextDay, relayVars
<1> QED BY <1>1 DEF RowKept, Reaches, TokensPast, TypeOK

(* What a step leaves of the notifier's own request and handle. *)
Untouched ==
  /\ UNCHANGED <<notifier, current, call>>
  /\ notifier = "wait" =>
       /\ at'[call] = at[call] /\ answer'[call] = answer[call]
       /\ target'[call] = target[call] /\ saw'[call] = saw[call]
  /\ notifier \in {"wait", "prune"} => RowKept(current)

LEMMA UntouchedStaysGone ==
  ASSUME TypeOK, TokensPast, OwnRequest, GoneIsGone, [Next]_relayVars,
         Untouched, fresh' \/ ~fresh
  PROVE  GoneIsGone'
<1> SUFFICES ASSUME ~fresh'
             PROVE  /\ notifier = "wait" /\ at'[call] \in {"fcm", "refused"}
                         => target'[call] = current
                    /\ notifier = "wait" /\ at'[call] = "fcm"
                         => saw'[call] = token'[current]
                    /\ SaidGone' => ~Reaches(current)'
  BY DEF GoneIsGone, Untouched
<1>1. notifier = "wait" /\ at'[call] \in {"fcm", "refused"} => target'[call] = current
  BY DEF GoneIsGone, Untouched
<1>2. notifier = "wait" /\ at'[call] = "fcm" => saw'[call] = token'[current]
  BY DEF GoneIsGone, Untouched, RowKept
<1>3. SaidGone' => SaidGone /\ notifier \in {"wait", "prune"}
  BY DEF SaidGone, Untouched
<1>4. SaidGone' => ~Reaches(current)'
  BY <1>3, OnlyRegisteringReaches DEF GoneIsGone, Untouched, OwnRequest
<1> QED BY <1>1, <1>2, <1>4

-----------------------------------------------------------------------------
(* Requests of others, and what happens around the relay. *)
LEMMA OthersLeaveUntouched ==
  ASSUME TypeOK, NotifierTypeOK, OwnRequest, [NotifierNext]_pushVars,
         ~NotifierStep, ~RelayServes(call), ~fresh'
  PROVE  Untouched /\ ~fresh
<1>1. CASE UNCHANGED pushVars
  BY <1>1 DEF pushVars, relayVars, rowVars, requestVars, notifierVars,
     Untouched, RowKept
<1>2. CASE Registers
  <2>1. ~fresh /\ (notifier \in {"wait", "prune"} => current # phone')
    BY <1>2 DEF Registers
  <2>2. UNCHANGED <<notifier, current, call, at, answer, target, saw>>
    BY <1>2 DEF Registers, Refresh, Mint, notifierVars, requestVars
  <2>3. \A h \in Handles \ {phone'} : RowKept(h)
    BY <1>2 DEF Registers, Refresh, Mint, RowKept, TypeOK
  <2> QED BY <2>1, <2>2, <2>3 DEF Untouched, OwnRequest
<1>3. CASE Unregisters
  BY <1>3 DEF Unregisters, Delete, Untouched, RowKept, notifierVars,
     requestVars, relayVars, rowVars
<1>4. CASE \E n \in Names : RegisterPushTarget(n) \/ RemovePushTarget(n)
  BY <1>4 DEF RegisterPushTarget, RemovePushTarget, Untouched, RowKept,
     notifierVars, requestVars, relayVars, rowVars
<1>5. ASSUME NEW q \in Requests, RelayServes(q)
      PROVE  Untouched /\ ~fresh
  <2>1. UNCHANGED <<notifier, current, call, fresh>>
    BY <1>5 DEF RelayServes, Elsewhere, notifierVars
  <2>2. \A h \in Handles : RowKept(h)
    BY <1>5 DEF RelayServes, Serve, FcmDelivers, FcmRefuses, FcmFails, Unheard,
       Record, NotRecorded, MarkPruned, RowKept, rowVars
  <2>3. \A r \in Requests \ {q} : /\ at'[r] = at[r] /\ answer'[r] = answer[r]
                                /\ target'[r] = target[r] /\ saw'[r] = saw[r]
    BY <1>5 DEF RelayServes, Serve, FcmDelivers, FcmRefuses, FcmFails, Unheard,
       Record, NotRecorded, MarkPruned, Answered, RequestMoves, TypeOK
  <2>4. q # call
    BY <1>5
  <2> QED BY <2>1, <2>2, <2>3, <2>4 DEF Untouched, OwnRequest
<1>6. ASSUME NEW q \in Requests, NEW h \in minted, OtherPosts(q, h)
      PROVE  Untouched /\ ~fresh
  <2>1. UNCHANGED <<notifier, current, call, fresh>>
    BY <1>6 DEF OtherPosts, Elsewhere, notifierVars
  <2>2. UNCHANGED <<known, token, pruned>>
    BY <1>6 DEF OtherPosts, Post, Refused, UnknownOrPruned, CapReached, Forward,
       CallsFcm, AnsweredAtOnce, rowVars
  <2>3. /\ at[q] = "free"
        /\ \A r \in Requests \ {q} : /\ at'[r] = at[r] /\ answer'[r] = answer[r]
                                   /\ target'[r] = target[r] /\ saw'[r] = saw[r]
    BY <1>6 DEF OtherPosts, Post, Refused, UnknownOrPruned, CapReached, Forward,
       CallsFcm, AnsweredAtOnce, Answered, RequestMoves, TypeOK
  <2> QED BY <2>1, <2>2, <2>3 DEF Untouched, OwnRequest, RowKept
<1>7. CASE (Rotate \/ NextDay) /\ Elsewhere
  BY <1>7 DEF Rotate, NextDay, Elsewhere, Untouched, RowKept, notifierVars,
     requestVars, rowVars
<1> QED
  BY <1>1, <1>2, <1>3, <1>4, <1>5, <1>6, <1>7 DEF NotifierNext

LEMMA GoneStep == NotifierInv /\ [NotifierNext]_pushVars => GoneIsGone'
<1> SUFFICES ASSUME TypeOK, TargetNamed, NotifierTypeOK, OwnRequest, TokensPast,
                    GoneIsGone, [NotifierNext]_pushVars, ~fresh'
             PROVE  GoneIsGone'
  BY DEF NotifierInv, NotifierTypeInv, TypeInv, GoneIsGone
<1>1. [Next]_relayVars
  BY StepsOfTheRelay
<1>2. CASE ~NotifierStep /\ ~RelayServes(call)
  BY <1>1, <1>2, OthersLeaveUntouched, UntouchedStaysGone
<1>3. CASE FanOut \/ Prune \/ HangUp
  <2>1. notifier' \notin {"wait", "prune"}
    BY <1>3 DEF FanOut, Prune, HangUp, Transient, Dropped
  <2> QED BY <2>1 DEF GoneIsGone, SaidGone
<1>4. CASE Send \/ Retry
  <2>1. PICK h \in Handles : Posts(h) /\ current' = h
    BY <1>4 DEF Send, Retry, NotifierTypeOK, OwnRequest, Devices
  <2>2. PICK q \in Requests : Post(q, h) /\ at'[q] # "free" /\ call' = q
    BY <2>1 DEF Posts
  <2>3. notifier' = "wait"
    BY <2>1 DEF Posts
  <2>4. CASE Forward(q, h)
    <3>1. at'[q] = "fcm" /\ target'[q] = h /\ saw'[q] = token'[h]
      BY <2>4 DEF Forward, CallsFcm, RequestMoves, TypeOK, rowVars
    <3> QED BY <2>1, <2>2, <2>3, <3>1 DEF GoneIsGone, SaidGone
  <2>5. CASE UnknownOrPruned(q, h)
    <3>1. at'[q] = "answered" /\ ~Reaches(h)'
      BY <2>2, <2>5 DEF UnknownOrPruned, AnsweredAtOnce, Answered, RequestMoves,
         Reaches, TypeOK, rowVars
    <3> QED BY <2>1, <2>2, <2>3, <3>1 DEF GoneIsGone
  <2>6. CASE Refused(q) \/ CapReached(q, h)
    <3>1. at'[q] = "answered" /\ answer'[q] # "gone"
      BY <2>2, <2>6 DEF Refused, CapReached, AnsweredAtOnce, Answered,
         RequestMoves, TypeOK
    <3> QED BY <2>2, <2>3, <3>1 DEF GoneIsGone, SaidGone
  <2> QED BY <2>2, <2>4, <2>5, <2>6 DEF Post
<1>5. CASE Answer
  <2>1. CASE answer[call] = "gone"
    <3>1. /\ notifier' = "prune" /\ UNCHANGED <<current, fresh>>
          /\ UNCHANGED <<known, token, pruned, fcmToken>>
      BY <1>5, <2>1 DEF Answer, Responded, rowVars
    <3>2. SaidGone
      BY <1>5, <2>1 DEF Answer, Responded, RequestMoves, SaidGone
    <3> QED BY <3>1, <3>2 DEF GoneIsGone, Reaches
  <2>2. CASE answer[call] # "gone"
    <3>1. notifier' \notin {"wait", "prune"}
      BY <1>5, <2>2 DEF Answer, Transient, Dropped
    <3> QED BY <3>1 DEF GoneIsGone, SaidGone
  <2> QED BY <2>1, <2>2
<1>6. CASE RelayServes(call) /\ notifier = "wait"
  <2>1. UNCHANGED <<notifier, current, call, fresh>> /\ call \in Requests
    BY <1>6 DEF RelayServes, Elsewhere, notifierVars, OwnRequest
  <2>2. current \in Handles
    BY <1>6 DEF OwnRequest
  <2>3. CASE FcmRefuses(call)
    <3>1. /\ at'[call] = "refused" /\ target'[call] = current
          /\ UNCHANGED <<known, token, pruned, fcmToken>>
          /\ token[current] # fcmToken
      BY <1>6, <2>1, <2>3 DEF FcmRefuses, RequestMoves, GoneIsGone, TypeOK, rowVars
    <3> QED BY <1>6, <2>1, <3>1 DEF GoneIsGone, SaidGone, Reaches
  <2>4. CASE MarkPruned(call)
    <3>1. at[call] = "refused" /\ RowKept(current)
      BY <2>4 DEF MarkPruned, Answered, RequestMoves, RowKept
    <3>2. ~Reaches(current)
      BY <1>6, <2>1, <3>1 DEF GoneIsGone, SaidGone
    <3>3. ~Reaches(current)'
      BY <1>1, <2>1, <2>2, <3>1, <3>2, OnlyRegisteringReaches
    <3>4. at'[call] \in {"answered", "free"}
      BY <2>1, <2>4 DEF MarkPruned, Answered, RequestMoves, TypeOK
    <3> QED BY <2>1, <3>3, <3>4 DEF GoneIsGone
  <2>5. CASE \/ FcmDelivers(call) \/ FcmFails(call) \/ Unheard(call)
             \/ Record(call) \/ NotRecorded(call)
    <3>1. \/ at'[call] \in {"sent", "free"}
          \/ at'[call] = "answered" /\ answer'[call] # "gone"
      BY <2>1, <2>5 DEF FcmDelivers, FcmFails, Unheard, Record, NotRecorded,
         Answered, RequestMoves, TypeOK
    <3> QED BY <1>6, <2>1, <3>1 DEF GoneIsGone, SaidGone
  <2> QED BY <1>6, <2>3, <2>4, <2>5 DEF RelayServes, Serve
<1>7. CASE RelayServes(call) /\ notifier # "wait"
  <2>1. UNCHANGED <<notifier, current, call, fresh>>
    BY <1>7 DEF RelayServes, Elsewhere, notifierVars
  <2>2. notifier = "prune" => RowKept(current)
    BY <1>7 DEF RelayServes, Serve, FcmDelivers, FcmRefuses, FcmFails, Unheard,
       Record, NotRecorded, MarkPruned, RowKept, rowVars
  <2> QED BY <1>1, <1>7, <2>1, <2>2, UntouchedStaysGone DEF Untouched
<1> QED
  BY <1>2, <1>3, <1>4, <1>5, <1>6, <1>7 DEF NotifierStep

-----------------------------------------------------------------------------
LEMMA InitNotifierInv == NotifierInit => NotifierInv
<1> SUFFICES ASSUME NotifierInit PROVE NotifierInv
  OBVIOUS
<1>1. TypeInv
  BY InitPushInv DEF NotifierInit, PushInv
<1>2. NotifierTypeOK
  <2>1. upsets \in 0..MaxUpsets
    BY NotifierAssumption DEF NotifierInit
  <2>2. told \in BOOLEAN /\ retried \in BOOLEAN /\ fresh \in BOOLEAN
    BY Zenon DEF NotifierInit
  <2>3. /\ listed \in [Names -> Handles \cup {NoHandle}]
        /\ notifier \in Notifying /\ todo \in SUBSET Devices
        /\ current \in Handles \cup {NoHandle}
        /\ call \in Requests \cup {NoRequest}
        /\ phone \in Handles \cup {NoHandle}
    BY DEF NotifierInit, Notifying
  <2> QED BY <2>1, <2>2, <2>3 DEF NotifierTypeOK
<1>3. TokensPast
  BY DEF NotifierInit, Init, TokensPast
<1>4. OwnRequest /\ GoneIsGone
  BY DEF NotifierInit, OwnRequest, GoneIsGone, SaidGone
<1> QED BY <1>1, <1>2, <1>3, <1>4 DEF NotifierInv, NotifierTypeInv

LEMMA NotifierInvStep ==
  NotifierInv /\ [NotifierNext]_pushVars => NotifierInv'
<1> SUFFICES ASSUME NotifierInv, [NotifierNext]_pushVars PROVE NotifierInv'
  OBVIOUS
<1>1. NotifierTypeInv'
  BY NotifierTypeStep DEF NotifierInv
<1>2. TokensPast'
  BY StepsOfTheRelay, TokensStep DEF NotifierInv, NotifierTypeInv, TypeInv
<1>3. GoneIsGone'
  BY GoneStep
<1> QED BY <1>1, <1>2, <1>3 DEF NotifierInv

LEMMA NotifierInvariance == NotifierSpec => []NotifierInv
  BY InitNotifierInv, NotifierInvStep, PTL DEF NotifierSpec

(***************************************************************************)
(* Whatever notifier, phone and the other servers do to the relay is one   *)
(* of its own steps: what is proved of the relay alone, its daily cap      *)
(* among it, holds with them.                                              *)
(***************************************************************************)
THEOREM NotifierUsesRelay == NotifierSpec => Spec
<1>1. NotifierInit => Init
  BY DEF NotifierInit
<1>2. NotifierInv /\ [NotifierNext]_pushVars => [Next]_relayVars
  BY StepsOfTheRelay DEF NotifierInv, NotifierTypeInv, TypeInv
<1> QED BY <1>1, <1>2, NotifierInvariance, PTL DEF NotifierSpec, Spec

(***************************************************************************)
(* Every reachable state of notifier, device file, phone and relay is well *)
(* typed.                                                                  *)
(***************************************************************************)
THEOREM NotifierTypeCorrect == NotifierSpec => [](TypeOK /\ NotifierTypeOK)
<1>1. NotifierInv => TypeOK /\ NotifierTypeOK
  BY DEF NotifierInv, NotifierTypeInv, TypeInv
<1> QED BY <1>1, NotifierInvariance, PTL

(***************************************************************************)
(* remove_by_handle takes no device away that the relay can still reach,   *)
(* unless its phone has registered that handle since the notification was  *)
(* sent: a refusal is never about another handle, another token or another *)
(* request.                                                                *)
(***************************************************************************)
THEOREM DropsOnlyTheGoneThm == NotifierSpec => DropsOnlyTheGone
<1> DEFINE Justified == \A n \in Names :
             listed[n] # listed'[n] /\ Reaches(listed[n]) => fresh
<1>1. NotifierInv /\ [NotifierNext]_pushVars => [Prune => Justified]_pushVars
  <2> SUFFICES ASSUME NotifierInv, Prune, NEW n \in Names,
                      listed[n] # listed'[n], Reaches(listed[n])
               PROVE  fresh
    OBVIOUS
  <2>1. listed[n] = current /\ notifier = "prune"
    BY DEF Prune
  <2> QED BY <2>1 DEF NotifierInv, GoneIsGone, SaidGone
<1> QED BY <1>1, NotifierInvariance, PTL DEF NotifierSpec, DropsOnlyTheGone
=============================================================================
