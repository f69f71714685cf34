----------------------------- MODULE PushRelay -----------------------------
(***************************************************************************)
(* The push relay (muxr-notify): an HTTP service that keeps one row per    *)
(* push handle and forwards notifications to FCM.  Requests run            *)
(* concurrently; every statement on the table is atomic, under the store's *)
(* mutex, and a request holds nothing between two of them.                 *)
(*                                                                         *)
(* The handles are those of one phone.  Simplified: a request arrives, its *)
(* row is read and the clock asked in one step; the token buckets of the   *)
(* rate limiter may refuse at any time.  A handler whose caller hangs up   *)
(* is dropped at its call to FCM, which is FCM's answer lost.              *)
(***************************************************************************)
EXTENDS Naturals, FiniteSets

CONSTANTS
  Handles,        \* what mint_handle can return
  NoHandle,       \* nobody's handle
  Requests,       \* notify requests under way at the same time
  DailyCap,       \* Config::daily_cap
  MaxToken,       \* bound on the phone's FCM tokens
  LastDay,        \* bound on the days
  MaxUncounted    \* bound on the deliveries of a day that go uncounted

ASSUME PushAssumption ==
  /\ NoHandle \notin Handles /\ IsFiniteSet(Requests)
  /\ DailyCap \in Nat \ {0}
  /\ MaxToken \in Nat /\ LastDay \in Nat /\ MaxUncounted \in Nat

VARIABLES
  known,      \* handles with a row
  minted,     \* handles handed out
  token,      \* fcm_token of a row
  pruned,     \* handles whose row is marked
  bucket,     \* day_bucket of a row
  sends,      \* sends_today of a row
  fcmToken,   \* the token FCM delivers to
  today,
  at,         \* where a request is
  target,     \* its handle
  saw,        \* the token it read
  day,        \* the day it is charged to
  answer,     \* what it answers
  delivered,  \* history: deliveries of a row charged to today
  uncounted   \* history: those of them the row does not count

rowVars     == <<known, minted, token, pruned, bucket, sends>>
requestVars == <<at, target, saw, day, answer>>
historyVars == <<delivered, uncounted>>
relayVars   == <<rowVars, fcmToken, today, requestVars, historyVars>>

Places  == {"free", "fcm", "sent", "refused", "answered"}
Answers == {"ok", "gone", "limited", "failed"}

TypeOK ==
  /\ known \in SUBSET minted /\ minted \in SUBSET Handles
  /\ pruned \in SUBSET Handles
  /\ token \in [Handles -> 0..MaxToken]
  /\ bucket \in [Handles -> 0..LastDay]
  /\ sends \in [Handles -> Nat]
  /\ fcmToken \in 0..MaxToken
  /\ today \in 0..LastDay
  /\ at \in [Requests -> Places]
  /\ target \in [Requests -> Handles \cup {NoHandle}]
  /\ saw \in [Requests -> 0..MaxToken]
  /\ day \in [Requests -> 0..LastDay]
  /\ answer \in [Requests -> Answers]
  /\ delivered \in [Handles -> Nat]
  /\ uncounted \in [Handles -> Nat]

Init ==
  /\ known = {} /\ minted = {} /\ pruned = {}
  /\ token = [h \in Handles |-> 0]
  /\ bucket = [h \in Handles |-> 0]
  /\ sends = [h \in Handles |-> 0]
  /\ fcmToken = 0 /\ today = 0
  /\ at = [q \in Requests |-> "free"]
  /\ target = [q \in Requests |-> NoHandle]
  /\ saw = [q \in Requests |-> 0]
  /\ day = [q \in Requests |-> 0]
  /\ answer = [q \in Requests |-> "ok"]
  /\ delivered = [h \in Handles |-> 0]
  /\ uncounted = [h \in Handles |-> 0]

(* Deliveries that the row of h counts for today. *)
Counted(h) == IF bucket[h] = today THEN sends[h] ELSE 0

-----------------------------------------------------------------------------
(* register and delete_registration *)

(* A known handle keeps its row: new token, mark cleared. *)
Refresh(h) ==
  /\ h \in known
  /\ token' = [token EXCEPT ![h] = fcmToken]
  /\ pruned' = pruned \ {h}
  /\ UNCHANGED <<known, minted, bucket, sends, fcmToken, today, requestVars,
                 historyVars>>

(* A fresh handle, for a phone with none or with one the table has lost. *)
Mint(h) ==
  /\ h \notin minted
  /\ minted' = minted \cup {h}
  /\ known' = known \cup {h}
  /\ token' = [token EXCEPT ![h] = fcmToken]
  /\ UNCHANGED <<pruned, bucket, sends, fcmToken, today, requestVars,
                 historyVars>>

Delete(h) ==
  /\ known' = known \ {h}
  /\ delivered' = [delivered EXCEPT ![h] = 0]
  /\ uncounted' = [uncounted EXCEPT ![h] = 0]
  /\ UNCHANGED <<minted, token, pruned, bucket, sends, fcmToken, today,
                 requestVars>>

-----------------------------------------------------------------------------
(* notify *)

RequestMoves(q, from, to) == at[q] = from /\ at' = [at EXCEPT ![q] = to]

(* Answered, or done with nobody to answer. *)
Answered(q, from, a) ==
  /\ \/ RequestMoves(q, from, "answered") /\ answer' = [answer EXCEPT ![q] = a]
     \/ RequestMoves(q, from, "free") /\ UNCHANGED answer
  /\ target' = [target EXCEPT ![q] = NoHandle]
  /\ saw' = [saw EXCEPT ![q] = 0]
  /\ day' = [day EXCEPT ![q] = 0]

AnsweredAtOnce(q, a) ==
  Answered(q, "free", a) /\ UNCHANGED <<rowVars, fcmToken, today, historyVars>>

(* A bucket of the limiter is empty, or the look-up failed. *)
Refused(q) == \E a \in {"limited", "failed"} : AnsweredAtOnce(q, a)

UnknownOrPruned(q, h) ==
  (h \notin known \/ h \in pruned) /\ AnsweredAtOnce(q, "gone")

CapReached(q, h) ==
  /\ h \in known \ pruned /\ Counted(h) >= DailyCap
  /\ AnsweredAtOnce(q, "limited")

CallsFcm(q, h) ==
  /\ RequestMoves(q, "free", "fcm")
  /\ h \in known \ pruned
  /\ target' = [target EXCEPT ![q] = h]
  /\ saw' = [saw EXCEPT ![q] = token[h]]
  /\ day' = [day EXCEPT ![q] = today]
  /\ UNCHANGED <<rowVars, fcmToken, today, answer, historyVars>>

Forward(q, h) == Counted(h) < DailyCap /\ CallsFcm(q, h)

Post(q, h) ==
  Refused(q) \/ UnknownOrPruned(q, h) \/ CapReached(q, h) \/ Forward(q, h)

(* What is charged to yesterday is not a delivery of today, and what was    *)
(* sent for a row that is gone is nobody's.                                *)
Counts(q) == day[q] = today /\ target[q] \in known

Delivers(q) ==
  /\ saw[q] = fcmToken
  /\ delivered' = IF Counts(q)
                    THEN [delivered EXCEPT ![target[q]] = @ + 1]
                    ELSE delivered

FcmDelivers(q) ==
  /\ RequestMoves(q, "fcm", "sent")
  /\ Delivers(q)
  /\ saw' = [saw EXCEPT ![q] = 0]
  /\ UNCHANGED <<rowVars, fcmToken, today, target, day, answer, uncounted>>

(* UNREGISTERED: the token has been replaced. *)
FcmRefuses(q) ==
  /\ RequestMoves(q, "fcm", "refused")
  /\ saw[q] # fcmToken
  /\ saw' = [saw EXCEPT ![q] = 0]
  /\ UNCHANGED <<rowVars, fcmToken, today, target, day, answer, historyVars>>

FcmFails(q) ==
  /\ Answered(q, "fcm", "failed")
  /\ UNCHANGED <<rowVars, fcmToken, today, historyVars>>

(* How many deliveries of today the row of h will not count. *)
Uncount(h, n) ==
  /\ uncounted[h] + n <= MaxUncounted
  /\ uncounted' = [uncounted EXCEPT ![h] = @ + n]

(* FCM delivers, and its answer or the handler is lost. *)
Unheard(q) ==
  /\ Answered(q, "fcm", "failed")
  /\ Delivers(q)
  /\ Uncount(target[q], IF Counts(q) THEN 1 ELSE 0)
  /\ UNCHANGED <<rowVars, fcmToken, today>>

(* Wrong: a counter that is never reset to its day. *)
RecordKeepsBucket(q) ==
  LET h == target[q] IN
  /\ Answered(q, "sent", "ok")
  /\ h \in known
  /\ sends' = [sends EXCEPT ![h] = @ + 1]
  /\ UNCHANGED <<known, minted, token, pruned, bucket, fcmToken, today,
                 historyVars>>

(* record_send.  A request of yesterday that ends today takes the row back *)
(* to its own day, and today's count with it.                              *)
Record(q) ==
  LET h == target[q] IN
  /\ Answered(q, "sent", "ok")
  /\ h \in known
  /\ sends' = [sends EXCEPT ![h] = IF bucket[h] = day[q] THEN @ + 1 ELSE 1]
  /\ bucket' = [bucket EXCEPT ![h] = day[q]]
  /\ Uncount(h, IF day[q] # today THEN Counted(h) ELSE 0)
  /\ UNCHANGED <<known, minted, token, pruned, fcmToken, today, delivered>>

(* The update fails, which is logged, or its row is gone: 204 as well. *)
NotRecorded(q) ==
  /\ Answered(q, "sent", "ok")
  /\ Uncount(target[q], IF Counts(q) THEN 1 ELSE 0)
  /\ UNCHANGED <<rowVars, fcmToken, today, delivered>>

(* mark_pruned, by handle: whatever token the row has by now.  A failed    *)
(* update is logged.                                                       *)
MarkPruned(q) ==
  /\ Answered(q, "refused", "gone")
  /\ pruned' \in {pruned \cup ({target[q]} \cap known), pruned}
  /\ UNCHANGED <<known, minted, token, bucket, sends, fcmToken, today,
                 historyVars>>

(* The caller has its answer. *)
Responded(q) ==
  /\ RequestMoves(q, "answered", "free")
  /\ answer' = [answer EXCEPT ![q] = "ok"]
  /\ UNCHANGED <<rowVars, fcmToken, today, target, saw, day, historyVars>>

-----------------------------------------------------------------------------
(* FCM replaces the phone's token; midnight, UTC. *)
Rotate ==
  /\ fcmToken < MaxToken
  /\ fcmToken' = fcmToken + 1
  /\ UNCHANGED <<rowVars, today, requestVars, historyVars>>

NextDay ==
  /\ today < LastDay
  /\ today' = today + 1
  /\ delivered' = [h \in Handles |-> 0]
  /\ uncounted' = [h \in Handles |-> 0]
  /\ UNCHANGED <<rowVars, fcmToken, requestVars>>

Serve(q) ==
  \/ FcmDelivers(q) \/ FcmRefuses(q) \/ FcmFails(q) \/ Unheard(q)
  \/ Record(q) \/ NotRecorded(q) \/ MarkPruned(q)
Next ==
  \/ \E h \in Handles : Refresh(h) \/ Mint(h) \/ Delete(h)
  \/ \E q \in Requests : Serve(q) \/ Responded(q)
  \/ \E q \in Requests, h \in Handles : Post(q, h)
  \/ Rotate \/ NextDay

Spec == Init /\ [][Next]_relayVars

-----------------------------------------------------------------------------
(***************************************************************************)
(* The count is read before the send and written after it, so requests     *)
(* under way together overshoot the cap -- by as many as can be under way, *)
(* less one, and by what went uncounted, and by no more.                   *)
(***************************************************************************)
CapOvershoot ==
  \A h \in Handles :
    delivered[h] + 1 <= DailyCap + Cardinality(Requests) + uncounted[h]
=============================================================================
