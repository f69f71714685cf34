------------------------- MODULE LayoutQuery_proofs -------------------------
(***************************************************************************)
(* Proofs about LayoutQuery, for any number of queries.                    *)
(*                                                                         *)
(* Logs carry no query, so what they answer rests on order alone: what     *)
(* waits to be received is younger than all that is under way (Ordered),   *)
(* and the reader has been handed at least the query of every Log it can   *)
(* meet (Covered), which it takes before it matches that Log (Matched).    *)
(* That a reply half is where somebody will use or drop it (ReplyIsHeld)   *)
(* is an invariant of its own: each step that lets one go releases its     *)
(* caller.                                                                 *)
(***************************************************************************)
EXTENDS LayoutQuery, TLAPS

(* Actions of a query are still to be sent. *)
Firing == inbound.at \in {"tabs", "panes"}

TypeInv == TypeOK /\ (Firing => inbound.q \in Queries)

(* Everything received, and all that it led to, is older than query k. *)
Before(k) ==
  /\ slot < k /\ inbound.q < k /\ got.q < k
  /\ \A i \in DOMAIN handed : handed[i] < k
  /\ \A i \in DOMAIN asked : asked[i].q < k
  /\ \A c \in clean : c < k
  /\ answer[k] = NoAnswer

(* Queries are received in the order of their numbers. *)
Ordered ==
  /\ \A i \in DOMAIN ctl : Before(ctl[i])
  /\ \A i, j \in DOMAIN ctl : i < j => ctl[i] < ctl[j]
  /\ \A q \in Queries :
       caller[q] = "idle" => Before(q) /\ \A i \in DOMAIN ctl : ctl[i] < q

(* The reader holds query k or a younger one or none, or has it to take. *)
CoveredBy(k) ==
  IF handed = <<>> THEN slot = NoQuery \/ slot >= k
                   ELSE handed[Len(handed)] >= k

Covered ==
  /\ Firing => CoveredBy(inbound.q)
  /\ \A i \in DOMAIN asked : CoveredBy(asked[i].q)
  /\ CoveredBy(got.q)

Matched == reader = "match" => slot = NoQuery \/ got.q <= slot

(* After a clean query only its own Logs and younger ones are around. *)
CleanFirst ==
  \A c \in clean :
    /\ Firing => inbound.q >= c
    /\ \A i \in DOMAIN asked : asked[i].q >= c
    /\ got # NoLog => got.q >= c

CleanHolds == slot \in clean /\ first # NoLog => first.q = slot

QueryInv ==
  /\ TypeInv /\ Ordered /\ Covered /\ Matched /\ CleanFirst /\ CleanHolds
  /\ CleanQueryGetsItsOwn /\ NothingFromLater

-----------------------------------------------------------------------------
(* A non-empty sequence, its head and its tail. *)
LEMMA TakenHead ==
  ASSUME NEW S, NEW s \in Seq(S), s # <<>>
  PROVE  /\ Head(s) = s[1] /\ 1 \in DOMAIN s /\ Head(s) \in S
         /\ Tail(s) \in Seq(S)
         /\ \A i \in DOMAIN Tail(s) : i + 1 \in DOMAIN s /\ Tail(s)[i] = s[i + 1]
         /\ DOMAIN Tail(s) \subseteq Nat \ {0}
  OBVIOUS

LEMMA LastEntry ==
  ASSUME NEW S, NEW s \in Seq(S), s # <<>>
  PROVE  Last(s) = s[Len(s)] /\ Len(s) \in DOMAIN s /\ Last(s) \in S
  BY DEF Last

LEMMA Appended ==
  ASSUME NEW S, NEW s \in Seq(S), NEW e \in S
  PROVE  /\ Append(s, e) \in Seq(S)
         /\ Append(s, e) # <<>>
         /\ Append(s, e)[Len(Append(s, e))] = e
         /\ \A i \in DOMAIN Append(s, e) :
              \/ i \in DOMAIN s /\ Append(s, e)[i] = s[i]
              \/ i \notin DOMAIN s /\ Append(s, e)[i] = e
<1>1. /\ Append(s, e) \in Seq(S)
      /\ Len(Append(s, e)) = Len(s) + 1
      /\ Append(s, e)[Len(s) + 1] = e
  OBVIOUS
<1>2. \A i \in DOMAIN Append(s, e) :
        \/ i \in DOMAIN s /\ Append(s, e)[i] = s[i]
        \/ i \notin DOMAIN s /\ Append(s, e)[i] = e
  OBVIOUS
<1>3. Append(s, e) # <<>>
  <2>1. Len(s) \in Nat /\ Len(<<>>) = 0
    OBVIOUS
  <2> QED BY <1>1, <2>1
<1> QED BY <1>1, <1>2, <1>3

LEMMA Logged == NoLog \notin Logs
  BY QueryAssumption DEF NoLog, Logs, Queries

(* The queries of the Logs under way. *)
LEMMA LogQueries ==
  ASSUME TypeOK
  PROVE  /\ \A i \in DOMAIN asked : asked[i].q \in Queries
         /\ got.q \in Queries \cup {NoQuery}
         /\ first.q \in Queries \cup {NoQuery}
<1>1. \A l \in Logs : l.q \in Queries
  BY DEF Logs
<1>2. \A i \in DOMAIN asked : asked[i] \in Logs
  BY DEF TypeOK
<1>3. got \in Logs \cup {NoLog} /\ first \in Logs \cup {NoLog}
  BY DEF TypeOK
<1>4. NoLog.q = NoQuery
  BY DEF NoLog, NoQuery
<1> QED BY <1>1, <1>2, <1>3, <1>4

(* Releasing replies starts no call, and ends none that was answered. *)
LEMMA ReleasedCallers ==
  ASSUME TypeOK, NEW qs
  PROVE  /\ Released(qs) \in [Queries -> {"idle", "waiting", "answered", "fallback"}]
         /\ \A q \in Queries : Released(qs)[q] = "idle" <=> caller[q] = "idle"
  BY DEF Released, Waiting, TypeOK

(* What drain_queries leaves: nothing to take, and the youngest query or,  *)
(* if nothing was handed over, the old one or none.                        *)
LEMMA Drained ==
  ASSUME TypeOK, Drain
  PROVE  /\ handed' = <<>>
         /\ handed # <<>> => /\ Len(handed) \in DOMAIN handed
                             /\ slot' = handed[Len(handed)]
         /\ handed = <<>> => slot' \in {slot, NoQuery}
         /\ slot' \in Queries \cup {NoQuery}
         /\ \/ first' = first /\ slot' = slot
            \/ first' = NoLog
         /\ caller' \in [Queries -> {"idle", "waiting", "answered", "fallback"}]
         /\ \A q \in Queries : caller'[q] = "idle" <=> caller[q] = "idle"
<1>1. ASSUME handed # <<>>
      PROVE  /\ Last(handed) = handed[Len(handed)]
             /\ Len(handed) \in DOMAIN handed /\ Last(handed) \in Queries
  BY <1>1, LastEntry DEF TypeOK
<1>2. \E qs : caller' = Released(qs)
  BY DEF Drain
<1>3. /\ caller' \in [Queries -> {"idle", "waiting", "answered", "fallback"}]
      /\ \A q \in Queries : caller'[q] = "idle" <=> caller[q] = "idle"
  BY <1>2, ReleasedCallers
<1> DEFINE kept == IF Waiting(slot) THEN slot ELSE NoQuery
           last == IF handed = <<>> THEN kept ELSE Last(handed)
<1>4. /\ handed' = <<>> /\ slot' = last
      /\ first' = IF last = slot THEN first ELSE NoLog
  BY DEF Drain
<1>5. kept \in {slot, NoQuery} /\ slot \in Queries \cup {NoQuery}
  BY DEF TypeOK
<1> HIDE DEF kept
<1> QED BY <1>1, <1>3, <1>4, <1>5

(* What capture_query_log leaves: the Log is kept as the first, or nothing *)
(* is held, and the one that waited may have its answer of both Logs.      *)
LEMMA Captured ==
  ASSUME TypeOK, got # NoLog, Capture
  PROVE  \/ /\ slot # NoQuery /\ first = NoLog
            /\ first' = got /\ UNCHANGED <<caller, answer, slot>>
         \/ /\ slot' = NoQuery /\ first' = NoLog /\ UNCHANGED answer
            /\ \E qs : caller' = Released(qs) \/ caller' = caller
         \/ /\ slot' = NoQuery /\ first' = NoLog
            /\ slot \in Queries /\ caller[slot] = "waiting"
            /\ first \in Logs /\ got \in Logs /\ Parses(first, got)
            /\ answer' = [answer EXCEPT ![slot] = Snapshot(first, got)]
            /\ caller' = [caller EXCEPT ![slot] = "answered"]
<1>1. CASE ~Waiting(slot)
  BY <1>1 DEF Capture
<1>2. CASE Waiting(slot) /\ first = NoLog
  BY <1>2 DEF Capture, Waiting
<1>3. CASE Waiting(slot) /\ first # NoLog /\ Parses(first, got)
  BY <1>3 DEF Capture, Waiting, TypeOK
<1>4. CASE Waiting(slot) /\ first # NoLog /\ ~Parses(first, got)
  BY <1>4 DEF Capture
<1> QED BY <1>1, <1>2, <1>3, <1>4

(* An answer has a tabs and a panes part, each of one of the two Logs. *)
LEMMA SnapshotOf ==
  ASSUME NEW l \in Logs, NEW m \in Logs
  PROVE  /\ Snapshot(l, m) \in Snapshots
         /\ Snapshot(l, m).tabs \in {l.q, m.q}
         /\ Snapshot(l, m).panes \in {l.q, m.q}
         /\ \A q : l.q = q /\ m.q = q => Snapshot(l, m) = [tabs |-> q, panes |-> q]
  BY DEF Snapshot, Logs, Snapshots

-----------------------------------------------------------------------------
LEMMA TypeStep == TypeInv /\ [Next]_vars => TypeInv'
<1> SUFFICES ASSUME TypeOK, Firing => inbound.q \in Queries, [Next]_vars
             PROVE  TypeInv'
  BY DEF TypeInv
<1> USE DEF InboundAt, TypeInv, Firing
<1>0. <<>> \in Seq(Queries)
  OBVIOUS
<1>1. CASE UNCHANGED vars
  BY <1>1 DEF vars, TypeOK
<1>2. ASSUME NEW q \in Queries, GetLayout(q) PROVE TypeInv'
  <2>1. Append(ctl, q) \in Seq(Queries)
    BY Appended DEF TypeOK
  <2> QED BY <1>2, <2>1 DEF GetLayout, TypeOK
<1>3. ASSUME NEW q \in Queries, TimesOut(q) PROVE TypeInv'
  BY <1>3 DEF TimesOut, TypeOK
<1>4. CASE HandOver
  <2>1. /\ Head(ctl) \in Queries /\ Tail(ctl) \in Seq(Queries)
        /\ Append(handed, Head(ctl)) \in Seq(Queries)
    <3>1. Head(ctl) \in Queries /\ Tail(ctl) \in Seq(Queries)
      BY <1>4, TakenHead DEF HandOver, TypeOK
    <3> QED BY <3>1, Appended DEF TypeOK
  <2>2. Released({Head(ctl)})
          \in [Queries -> {"idle", "waiting", "answered", "fallback"}]
    BY ReleasedCallers
  <2>3. CASE reader = "exited"
    BY <1>4, <2>1, <2>2, <2>3 DEF HandOver, TypeOK
  <2>4. CASE reader # "exited"
    <3>1. /\ inbound' = [at |-> "tabs", q |-> Head(ctl)]
          /\ handed' = Append(handed, Head(ctl)) /\ ctl' = Tail(ctl)
          /\ clean' = clean \/ clean' = clean \cup {Head(ctl)}
          /\ UNCHANGED <<caller, answer, asked, reader, got, slot, first>>
      BY <1>4, <2>4 DEF HandOver
    <3> QED BY <2>1, <3>1 DEF TypeOK
  <2> QED BY <2>3, <2>4
<1>5. CASE Fire
  <2>1. inbound.q \in Queries /\ inbound.at \in {"tabs", "panes"}
    BY <1>5 DEF Fire
  <2>2. [q |-> inbound.q, kind |-> inbound.at] \in Logs
    BY <2>1 DEF Logs
  <2>3. Append(asked, [q |-> inbound.q, kind |-> inbound.at]) \in Seq(Logs)
    BY <2>2, Appended DEF TypeOK
  <2>4. /\ inbound' \in {[at |-> "panes", q |-> inbound.q],
                         [at |-> "idle", q |-> NoQuery]}
        /\ asked' \in Seq(Logs)
    BY <1>5, <2>3 DEF Fire, TypeOK
  <2> QED BY <1>5, <2>1, <2>4 DEF Fire, TypeOK
<1>6. CASE LeaveLoop
  BY <1>6 DEF LeaveLoop, TypeOK
<1>7. CASE InboundEnds
  <2>1. Released(ToSet(ctl))
          \in [Queries -> {"idle", "waiting", "answered", "fallback"}]
    BY ReleasedCallers
  <2> QED BY <1>0, <1>7, <2>1 DEF InboundEnds, TypeOK
<1>8. CASE DrainThenPark
  BY <1>0, <1>8, Drained DEF DrainThenPark, TypeOK
<1>9. CASE DrainThenMatch
  BY <1>0, <1>9, Drained DEF DrainThenMatch, TypeOK
<1>10. CASE Match
  <2>1. CASE got # NoLog
    <3>1. /\ first' \in Logs \cup {NoLog} /\ slot' \in Queries \cup {NoQuery}
          /\ caller' \in [Queries -> {"idle", "waiting", "answered", "fallback"}]
          /\ answer' \in [Queries -> Snapshots \cup {NoAnswer}]
      <4>1. CASE slot # NoQuery /\ first' = got /\ UNCHANGED <<caller, answer, slot>>
        BY <4>1 DEF TypeOK
      <4>2. CASE /\ slot' = NoQuery /\ first' = NoLog /\ UNCHANGED answer
                 /\ \E qs : caller' = Released(qs) \/ caller' = caller
        BY <4>2, ReleasedCallers DEF TypeOK
      <4>3. CASE /\ slot' = NoQuery /\ first' = NoLog
                 /\ slot \in Queries /\ first \in Logs /\ got \in Logs
                 /\ answer' = [answer EXCEPT ![slot] = Snapshot(first, got)]
                 /\ caller' = [caller EXCEPT ![slot] = "answered"]
        <5>1. Snapshot(first, got) \in Snapshots
          BY <4>3, SnapshotOf
        <5> QED BY <4>3, <5>1 DEF TypeOK
      <4> QED BY <1>10, <2>1, <4>1, <4>2, <4>3, Captured DEF Match
    <3> QED BY <1>10, <2>1, <3>1 DEF Match, TypeOK
  <2>2. CASE got = NoLog
    BY <1>10, <2>2 DEF Match, TypeOK
  <2> QED BY <2>1, <2>2
<1>11. CASE Recv
  <2>1. asked # <<>> => Head(asked) \in Logs /\ Tail(asked) \in Seq(Logs)
    BY TakenHead DEF TypeOK
  <2> QED BY <1>11, <2>1 DEF Recv, TypeOK
<1>12. CASE ReaderExits
  <2>1. Released({slot} \cup ToSet(handed))
          \in [Queries -> {"idle", "waiting", "answered", "fallback"}]
    BY ReleasedCallers
  <2> QED BY <1>0, <1>12, <2>1 DEF ReaderExits, TypeOK
<1> QED
  BY <1>1, <1>2, <1>3, <1>4, <1>5, <1>6, <1>7, <1>8, <1>9, <1>10, <1>11, <1>12
  DEF Next, ReaderStep

-----------------------------------------------------------------------------
(* Before, after a step, of the same query. *)
BeforeNext(k) ==
  /\ slot' < k /\ inbound'.q < k /\ got'.q < k
  /\ \A i \in DOMAIN handed' : handed'[i] < k
  /\ \A i \in DOMAIN asked' : asked'[i].q < k
  /\ \A c \in clean' : c < k
  /\ answer'[k] = NoAnswer

LEMMA OrderedKept ==
  ASSUME TypeOK, Ordered, ctl' = ctl \/ ctl' = <<>>,
         \A q \in Queries : caller'[q] = "idle" => caller[q] = "idle",
         \A k \in Queries : Before(k) => BeforeNext(k)
  PROVE  Ordered'
<1>1. Ordered' <=>
        /\ \A i \in DOMAIN ctl' : BeforeNext(ctl'[i])
        /\ \A i, j \in DOMAIN ctl' : i < j => ctl'[i] < ctl'[j]
        /\ \A q \in Queries : caller'[q] = "idle" =>
             BeforeNext(q) /\ \A i \in DOMAIN ctl' : ctl'[i] < q
  BY DEF Ordered, Before, BeforeNext
<1>2. \A i \in DOMAIN ctl : ctl[i] \in Queries
  BY DEF TypeOK
<1>3. CASE ctl' = ctl
  BY <1>1, <1>2, <1>3 DEF Ordered
<1>4. CASE ctl' = <<>>
  <2>1. DOMAIN ctl' = {}
    BY <1>4
  <2> QED BY <1>1, <2>1 DEF Ordered
<1> QED BY <1>3, <1>4

LEMMA OrderedStep == TypeInv /\ Ordered /\ [Next]_vars => Ordered'
<1> SUFFICES ASSUME TypeOK, Firing => inbound.q \in Queries, Ordered, [Next]_vars
             PROVE  Ordered'
  BY DEF TypeInv
<1> USE DEF InboundAt
<1>0. NoQuery \in Nat /\ \A k \in Queries : k \in Nat /\ NoQuery < k
  BY QueryAssumption DEF NoQuery, Queries
<1>1. CASE UNCHANGED vars
  <2>1. \A k \in Queries : Before(k) => BeforeNext(k)
    BY <1>1 DEF vars, Before, BeforeNext
  <2> QED BY <1>1, <2>1, OrderedKept DEF vars
<1>2. ASSUME NEW q \in Queries, GetLayout(q) PROVE Ordered'
  <2>1. \A k \in Queries : Before(k) => BeforeNext(k)
    BY <1>2 DEF GetLayout, Before, BeforeNext
  <2>2. \A k \in Queries : caller'[k] = "idle" => caller[k] = "idle" /\ q < k
    <3> SUFFICES ASSUME NEW k \in Queries, caller'[k] = "idle"
                 PROVE  caller[k] = "idle" /\ q < k
      OBVIOUS
    <3>1. k # q /\ caller[k] = "idle"
      BY <1>2 DEF GetLayout, TypeOK
    <3>2. k \notin 1..(q - 1)
      BY <1>2, <3>1 DEF GetLayout
    <3>3. k \in Nat /\ q \in Nat /\ 1 <= k
      BY QueryAssumption DEF Queries
    <3> QED BY <3>1, <3>2, <3>3
  <2>3. CASE ctl' = ctl
    BY <2>1, <2>2, <2>3, OrderedKept
  <2>4. CASE ctl' = Append(ctl, q)
    <3>1. \A i \in DOMAIN ctl' : \/ i \in DOMAIN ctl /\ ctl'[i] = ctl[i]
                                 \/ i \notin DOMAIN ctl /\ ctl'[i] = q
      BY <2>4, Appended DEF TypeOK
    <3>2. Before(q) /\ \A i \in DOMAIN ctl : ctl[i] \in Queries /\ ctl[i] < q
      BY <1>2 DEF GetLayout, Ordered, TypeOK
    <3>3. \A i \in DOMAIN ctl' : BeforeNext(ctl'[i])
      BY <2>1, <3>1, <3>2 DEF Ordered
    <3>4. \A i, j \in DOMAIN ctl' : i < j => i \in DOMAIN ctl
      BY <2>4 DEF TypeOK
    <3>5. \A i, j \in DOMAIN ctl' : i < j => ctl'[i] < ctl'[j]
      BY <3>1, <3>2, <3>4 DEF Ordered
    <3>6. \A k \in Queries : caller'[k] = "idle" =>
            BeforeNext(k) /\ \A i \in DOMAIN ctl' : ctl'[i] < k
      BY <1>0, <2>1, <2>2, <3>1, <3>2 DEF Ordered
    <3> QED BY <3>3, <3>5, <3>6 DEF Ordered, Before, BeforeNext
  <2> QED BY <1>2, <2>3, <2>4 DEF GetLayout
<1>3. ASSUME NEW q \in Queries, TimesOut(q) PROVE Ordered'
  <2>1. \A k \in Queries : Before(k) => BeforeNext(k)
    BY <1>3 DEF TimesOut, Before, BeforeNext
  <2>2. \A k \in Queries : caller'[k] = "idle" => caller[k] = "idle"
    BY <1>3 DEF TimesOut, TypeOK
  <2> QED BY <1>3, <2>1, <2>2, OrderedKept DEF TimesOut
<1>4. CASE HandOver
  <2> DEFINE h == Head(ctl)
  <2>1. /\ h = ctl[1] /\ 1 \in DOMAIN ctl /\ h \in Queries
        /\ ctl' = Tail(ctl) /\ DOMAIN ctl' \subseteq Nat \ {0}
        /\ \A i \in DOMAIN ctl' : i + 1 \in DOMAIN ctl /\ ctl'[i] = ctl[i + 1]
    BY <1>4, TakenHead DEF HandOver, TypeOK
  <2>2. /\ handed' = handed \/ handed' = Append(handed, h)
        /\ inbound' = inbound \/ inbound' = [at |-> "tabs", q |-> h]
        /\ clean' \in {clean, clean \cup {h}}
        /\ UNCHANGED <<answer, asked, got, slot>>
    BY <1>4 DEF HandOver
  <2>3. \A i \in DOMAIN handed' :
          \/ i \in DOMAIN handed /\ handed'[i] = handed[i]
          \/ handed'[i] = h
    <3>1. handed \in Seq(Queries)
      BY DEF TypeOK
    <3>2. CASE handed' = handed
      BY <3>2
    <3>3. CASE handed' = Append(handed, h)
      BY <2>1, <3>1, <3>3, Appended
    <3> QED BY <2>2, <3>2, <3>3
  <2> HIDE DEF h
  <2>4. \A k \in Queries : Before(k) /\ h < k => BeforeNext(k)
    BY <2>2, <2>3 DEF Before, BeforeNext
  <2>5. \A i \in DOMAIN ctl' :
          ctl'[i] \in Queries /\ Before(ctl'[i]) /\ h < ctl'[i]
    <3> SUFFICES ASSUME NEW i \in DOMAIN ctl'
                 PROVE  ctl'[i] \in Queries /\ Before(ctl'[i]) /\ h < ctl'[i]
      OBVIOUS
    <3>1. i \in Nat \ {0} /\ i + 1 \in DOMAIN ctl /\ ctl'[i] = ctl[i + 1]
      BY <2>1
    <3>2. ctl[i + 1] \in Queries
      BY <3>1 DEF TypeOK
    <3>3. 1 < i + 1
      BY <3>1
    <3> QED BY <2>1, <3>1, <3>2, <3>3 DEF Ordered
  <2>6. \A i, j \in DOMAIN ctl' : i < j => ctl'[i] < ctl'[j]
    <3>1. \A i, j \in DOMAIN ctl' : i < j => i + 1 < j + 1
      BY <2>1
    <3> QED BY <2>1, <3>1 DEF Ordered
  <2>7. \A k \in Queries : caller'[k] = "idle" =>
          /\ Before(k) /\ h < k
          /\ \A i \in DOMAIN ctl' : ctl'[i] < k
    <3>1. \A k \in Queries : caller'[k] = "idle" => caller[k] = "idle"
      BY <1>4, ReleasedCallers DEF HandOver
    <3> QED BY <2>1, <3>1 DEF Ordered
  <2>8. /\ \A i \in DOMAIN ctl' : BeforeNext(ctl'[i])
        /\ \A k \in Queries : caller'[k] = "idle" =>
             BeforeNext(k) /\ \A i \in DOMAIN ctl' : ctl'[i] < k
    BY <2>4, <2>5, <2>7
  <2> QED BY <2>6, <2>8 DEF Ordered, Before, BeforeNext
<1>5. CASE Fire
  <2>1. \A k \in Queries : Before(k) => BeforeNext(k)
    <3> SUFFICES ASSUME NEW k \in Queries, Before(k) PROVE BeforeNext(k)
      OBVIOUS
    <3>1. \/ asked' = asked
          \/ asked' = Append(asked, [q |-> inbound.q, kind |-> inbound.at])
      BY <1>5 DEF Fire
    <3>2. [q |-> inbound.q, kind |-> inbound.at] \in Logs
      BY <1>5 DEF Fire, Firing, Logs
    <3>3. \A i \in DOMAIN asked' : asked'[i].q < k
      <4>1. CASE asked' = asked
        BY <4>1 DEF Before
      <4>2. CASE asked' = Append(asked, [q |-> inbound.q, kind |-> inbound.at])
        BY <3>2, <4>2, Appended DEF Before, TypeOK
      <4> QED BY <3>1, <4>1, <4>2
    <3> QED BY <1>0, <1>5, <3>3 DEF Fire, Before, BeforeNext
  <2> QED BY <1>5, <2>1, OrderedKept DEF Fire
<1>6. CASE LeaveLoop
  <2>1. \A k \in Queries : Before(k) => BeforeNext(k)
    BY <1>0, <1>6 DEF LeaveLoop, Before, BeforeNext
  <2> QED BY <1>6, <2>1, OrderedKept DEF LeaveLoop
<1>7. CASE InboundEnds
  <2>1. \A k \in Queries : Before(k) => BeforeNext(k)
    BY <1>0, <1>7 DEF InboundEnds, Before, BeforeNext
  <2>2. \A k \in Queries : caller'[k] = "idle" => caller[k] = "idle"
    BY <1>7, ReleasedCallers DEF InboundEnds
  <2> QED BY <1>7, <2>1, <2>2, OrderedKept DEF InboundEnds
<1>8. ASSUME Drain, UNCHANGED <<answer, ctl, inbound, asked, got, clean>>
      PROVE  Ordered'
  <2>1. \A k \in Queries : Before(k) => slot' < k
    BY <1>0, <1>8, Drained DEF Before
  <2>2. \A k \in Queries : Before(k) => BeforeNext(k)
    BY <1>8, <2>1, Drained DEF Before, BeforeNext
  <2> QED BY <1>8, <2>2, Drained, OrderedKept
<1>9. CASE DrainThenPark \/ DrainThenMatch
  BY <1>8, <1>9 DEF DrainThenPark, DrainThenMatch
<1>10. CASE Match
  <2>1. CASE got = NoLog
    <3>1. \A k \in Queries : Before(k) => BeforeNext(k)
      BY <1>10, <2>1 DEF Match, Before, BeforeNext
    <3> QED BY <1>10, <2>1, <3>1, OrderedKept DEF Match
  <2>2. CASE got # NoLog
    <3>1. /\ slot' \in {slot, NoQuery}
          /\ \A k \in Queries : k # slot => answer'[k] = answer[k]
          /\ \A k \in Queries : caller'[k] = "idle" => caller[k] = "idle"
      BY <1>10, <2>2, Captured, ReleasedCallers DEF Match, TypeOK
    <3>2. /\ got' = NoLog /\ UNCHANGED <<ctl, inbound, handed, asked, clean>>
          /\ NoLog.q = NoQuery
      BY <1>10 DEF Match, NoLog, NoQuery
    <3>3. \A k \in Queries : Before(k) => BeforeNext(k)
      BY <1>0, <3>1, <3>2 DEF Before, BeforeNext
    <3> QED BY <3>1, <3>2, <3>3, OrderedKept
  <2> QED BY <2>1, <2>2
<1>11. CASE Recv
  <2>1. \A k \in Queries : Before(k) => BeforeNext(k)
    <3> SUFFICES ASSUME NEW k \in Queries, Before(k) PROVE BeforeNext(k)
      OBVIOUS
    <3>1. /\ \A i \in DOMAIN asked' : asked'[i].q < k
          /\ got'.q < k
      <4>1. CASE got' = NoLog /\ asked' = asked
        BY <1>0, <4>1 DEF Before, NoLog, NoQuery
      <4>2. CASE asked # <<>> /\ asked' = Tail(asked) /\ got' \in {Head(asked), NoLog}
        <5>1. /\ Head(asked) = asked[1] /\ 1 \in DOMAIN asked
              /\ \A i \in DOMAIN Tail(asked) :
                   i + 1 \in DOMAIN asked /\ Tail(asked)[i] = asked[i + 1]
          BY <4>2, TakenHead DEF TypeOK
        <5> QED BY <1>0, <4>2, <5>1 DEF Before, NoLog, NoQuery
      <4> QED BY <1>11, <4>1, <4>2 DEF Recv
    <3> QED BY <1>11, <3>1 DEF Recv, Before, BeforeNext
  <2> QED BY <1>11, <2>1, OrderedKept DEF Recv
<1>12. CASE ReaderExits
  <2>1. \A k \in Queries : Before(k) => BeforeNext(k)
    BY <1>0, <1>12 DEF ReaderExits, Before, BeforeNext, NoLog, NoQuery
  <2>2. \A k \in Queries : caller'[k] = "idle" => caller[k] = "idle"
    BY <1>12, ReleasedCallers DEF ReaderExits
  <2> QED BY <1>12, <2>1, <2>2, OrderedKept DEF ReaderExits
<1> QED
  BY <1>1, <1>2, <1>3, <1>4, <1>5, <1>6, <1>7, <1>9, <1>10, <1>11, <1>12
  DEF Next, ReaderStep

-----------------------------------------------------------------------------
(* CoveredBy, after a step, of the same query. *)
CoveredNext(k) ==
  IF handed' = <<>> THEN slot' = NoQuery \/ slot' >= k
                    ELSE handed'[Len(handed')] >= k

LEMMA CoveredKept ==
  ASSUME TypeInv, Covered,
         \A k \in Queries \cup {NoQuery} : CoveredBy(k) => CoveredNext(k),
         Firing' => Firing /\ inbound'.q = inbound.q,
         asked' = asked, got' \in {got, NoLog}, TypeOK'
  PROVE  Covered'
<1>1. Covered' <=> /\ Firing' => CoveredNext(inbound'.q)
                   /\ \A i \in DOMAIN asked' : CoveredNext(asked'[i].q)
                   /\ CoveredNext(got'.q)
  BY DEF Covered, CoveredBy, CoveredNext
<1>2. /\ Firing => inbound.q \in Queries
      /\ \A i \in DOMAIN asked : asked[i].q \in Queries
      /\ got.q \in Queries \cup {NoQuery}
  BY LogQueries DEF TypeInv
<1>3. CoveredNext(NoQuery)
  <2>1. \A k \in Queries \cup {NoQuery} : k \in Nat /\ k >= NoQuery
    BY QueryAssumption DEF Queries, NoQuery
  <2>2. slot' \in Queries \cup {NoQuery}
    BY DEF TypeOK
  <2>3. handed' # <<>> => handed'[Len(handed')] \in Queries
    BY LastEntry DEF TypeOK
  <2> QED BY <2>1, <2>2, <2>3 DEF CoveredNext
<1>4. NoLog.q = NoQuery
  BY DEF NoLog, NoQuery
<1>5. Firing' => CoveredNext(inbound'.q)
  BY <1>2 DEF Covered
<1>6. \A i \in DOMAIN asked' : CoveredNext(asked'[i].q)
  BY <1>2 DEF Covered
<1>7. CoveredNext(got'.q)
  BY <1>2, <1>3, <1>4 DEF Covered
<1> QED BY <1>1, <1>5, <1>6, <1>7

LEMMA CoveredStep ==
  TypeInv /\ Ordered /\ Covered /\ Matched /\ [Next]_vars => Covered' /\ Matched'
<1> SUFFICES ASSUME TypeInv, Ordered, Covered, Matched, [Next]_vars
             PROVE  Covered' /\ Matched'
  OBVIOUS
<1>a. TypeOK /\ TypeOK' /\ TypeInv'
  BY TypeStep DEF TypeInv
<1>b. NoQuery \in Nat /\ \A k \in Queries : k \in Nat /\ NoQuery < k
  BY QueryAssumption DEF NoQuery, Queries
<1> USE DEF InboundAt
<1>1. ASSUME UNCHANGED <<handed, slot, asked, got, reader>>,
             Firing' => Firing /\ inbound'.q = inbound.q
      PROVE  Covered' /\ Matched'
  <2>1. \A k \in Queries \cup {NoQuery} : CoveredBy(k) => CoveredNext(k)
    BY <1>1 DEF CoveredBy, CoveredNext
  <2>2. Covered'
    BY <1>1, <1>a, <2>1, CoveredKept
  <2> QED BY <1>1, <2>2 DEF Matched
<1>2. CASE UNCHANGED vars
  BY <1>1, <1>2 DEF vars, Firing
<1>3. ASSUME NEW q \in Queries, GetLayout(q) \/ TimesOut(q)
      PROVE  Covered' /\ Matched'
  BY <1>1, <1>3 DEF GetLayout, TimesOut, Firing
<1>4. CASE HandOver
  <2>1. CASE reader = "exited"
    BY <1>1, <1>4, <2>1 DEF HandOver, Firing
  <2>2. CASE reader # "exited"
    <3> DEFINE h == Head(ctl)
    <3>1. /\ h = ctl[1] /\ 1 \in DOMAIN ctl /\ h \in Queries
          /\ handed' = Append(handed, h) /\ inbound'.q = h
          /\ UNCHANGED <<asked, reader, got, slot>>
      BY <1>4, <1>a, <2>2, TakenHead DEF HandOver, TypeOK
    <3> HIDE DEF h
    <3>2. Before(h)
      BY <3>1 DEF Ordered
    <3>3. handed' # <<>> /\ handed'[Len(handed')] = h
      BY <1>a, <3>1, Appended DEF TypeOK
    <3>4. \A k : CoveredNext(k) <=> h >= k
      BY <3>3 DEF CoveredNext
    <3>5. /\ \A i \in DOMAIN asked : asked[i].q \in Queries
          /\ got.q \in Queries \cup {NoQuery}
      BY <1>a, LogQueries
    <3>6. /\ h >= inbound'.q /\ h >= got'.q
          /\ \A i \in DOMAIN asked' : h >= asked'[i].q
      BY <1>b, <3>1, <3>2, <3>5 DEF Before
    <3>7. Covered'
      BY <3>4, <3>6 DEF Covered, CoveredBy, CoveredNext
    <3> QED BY <3>1, <3>7 DEF Matched
  <2> QED BY <2>1, <2>2
<1>5. CASE Fire
  <2>1. UNCHANGED <<handed, slot, got, reader>> /\ Firing
    BY <1>5 DEF Fire, Firing
  <2>2. \A k : CoveredBy(k) => CoveredNext(k)
    BY <2>1 DEF CoveredBy, CoveredNext
  <2>3. Firing' => inbound'.q = inbound.q
    BY <1>5 DEF Fire, Firing
  <2>4. \A i \in DOMAIN asked' : CoveredBy(asked'[i].q)
    <3> DEFINE l == [q |-> inbound.q, kind |-> inbound.at]
    <3>1. asked' = asked \/ asked' = Append(asked, l)
      BY <1>5 DEF Fire
    <3>2. l \in Logs /\ l.q = inbound.q
      BY <2>1 DEF TypeInv, Firing, Logs
    <3> HIDE DEF l
    <3>3. CASE asked' = asked
      BY <3>3 DEF Covered
    <3>4. CASE asked' = Append(asked, l)
      <4>1. \A i \in DOMAIN asked' : \/ i \in DOMAIN asked /\ asked'[i] = asked[i]
                                    \/ asked'[i] = l
        BY <1>a, <3>2, <3>4, Appended DEF TypeOK
      <4> QED BY <2>1, <3>2, <4>1 DEF Covered
    <3> QED BY <3>1, <3>3, <3>4
  <2>5. /\ Firing' => CoveredNext(inbound'.q)
        /\ \A i \in DOMAIN asked' : CoveredNext(asked'[i].q)
        /\ CoveredNext(got'.q)
    BY <2>1, <2>2, <2>3, <2>4 DEF Covered
  <2>6. Covered'
    BY <2>5 DEF Covered, CoveredBy, CoveredNext
  <2> QED BY <2>1, <2>6 DEF Matched
<1>6. CASE LeaveLoop \/ InboundEnds
  BY <1>1, <1>6 DEF LeaveLoop, InboundEnds, Firing
<1>7. ASSUME Drain, UNCHANGED <<inbound, asked, got>>
      PROVE  Covered' /\ (slot' = NoQuery \/ got'.q <= slot')
  <2>1. \A k \in Queries \cup {NoQuery} : CoveredBy(k) => CoveredNext(k)
    BY <1>7, <1>a, Drained DEF CoveredBy, CoveredNext
  <2>2. Firing' => Firing /\ inbound'.q = inbound.q
    BY <1>7 DEF Firing
  <2>3. Covered'
    BY <1>7, <1>a, <2>1, <2>2, CoveredKept
  <2>4. CoveredNext(got'.q)
    BY <2>3 DEF Covered, CoveredBy, CoveredNext
  <2>5. got'.q \in Queries \cup {NoQuery} /\ slot' \in Queries \cup {NoQuery}
    BY <1>a DEF TypeOK, Logs, NoLog, NoQuery
  <2>6. handed' = <<>>
    BY <1>7, <1>a, Drained
  <2>7. slot' = NoQuery \/ slot' >= got'.q
    BY <2>4, <2>6 DEF CoveredNext
  <2> QED BY <1>b, <2>3, <2>5, <2>7
<1>8. CASE DrainThenPark \/ DrainThenMatch
  BY <1>7, <1>8 DEF DrainThenPark, DrainThenMatch, Matched
<1>9. CASE Match
  <2>1. /\ UNCHANGED <<inbound, handed, asked>> /\ got' = NoLog /\ reader' = "top"
        /\ slot' \in {slot, NoQuery}
    BY <1>9, <1>a, Captured DEF Match
  <2>2. \A k \in Queries \cup {NoQuery} : CoveredBy(k) => CoveredNext(k)
    BY <2>1 DEF CoveredBy, CoveredNext
  <2>3. Firing' => Firing /\ inbound'.q = inbound.q
    BY <2>1 DEF Firing
  <2>4. Covered'
    BY <1>a, <2>1, <2>2, <2>3, CoveredKept
  <2> QED BY <2>1, <2>4 DEF Matched
<1>10. CASE Recv
  <2>1. UNCHANGED <<handed, slot, inbound>> /\ reader' = "got"
    BY <1>10 DEF Recv
  <2>2. \A k : CoveredBy(k) => CoveredNext(k)
    BY <2>1 DEF CoveredBy, CoveredNext
  <2>3. CASE got' = NoLog /\ asked' = asked
    <3>1. Firing' => Firing /\ inbound'.q = inbound.q
      BY <2>1 DEF Firing
    <3>2. Covered'
      BY <1>a, <2>2, <2>3, <3>1, CoveredKept
    <3> QED BY <2>1, <3>2 DEF Matched
  <2>4. CASE asked # <<>> /\ asked' = Tail(asked) /\ got' \in {Head(asked), NoLog}
    <3>1. /\ Head(asked) = asked[1] /\ 1 \in DOMAIN asked
          /\ \A i \in DOMAIN Tail(asked) :
               i + 1 \in DOMAIN asked /\ Tail(asked)[i] = asked[i + 1]
      BY <1>a, <2>4, TakenHead DEF TypeOK
    <3>2. \A i \in DOMAIN asked' : CoveredNext(asked'[i].q)
      BY <2>2, <2>4, <3>1 DEF Covered
    <3>3. CoveredNext(NoQuery)
      <4>1. slot \in Queries \cup {NoQuery}
        BY <1>a DEF TypeOK
      <4>2. handed # <<>> => handed[Len(handed)] \in Queries
        BY <1>a, LastEntry DEF TypeOK
      <4> QED BY <1>b, <2>1, <4>1, <4>2 DEF CoveredNext
    <3>4. CoveredNext(got'.q)
      BY <2>2, <2>4, <3>1, <3>3 DEF Covered, NoLog, NoQuery
    <3>5. Firing' => CoveredNext(inbound'.q)
      BY <2>1, <2>2 DEF Covered, Firing
    <3>6. Covered'
      BY <3>2, <3>4, <3>5 DEF Covered, CoveredBy, CoveredNext
    <3> QED BY <2>1, <3>6 DEF Matched
  <2> QED BY <1>10, <2>3, <2>4 DEF Recv
<1>11. CASE ReaderExits
  <2>1. \A k : CoveredNext(k)
    BY <1>11 DEF ReaderExits, CoveredNext
  <2>2. Covered'
    BY <2>1 DEF Covered, CoveredBy, CoveredNext
  <2> QED BY <1>11, <2>2 DEF ReaderExits, Matched
<1> QED
  BY <1>2, <1>3, <1>4, <1>5, <1>6, <1>8, <1>9, <1>10, <1>11 DEF Next, ReaderStep

-----------------------------------------------------------------------------
LEMMA CleanStep ==
  TypeInv /\ Ordered /\ Matched /\ CleanFirst /\ CleanHolds /\ [Next]_vars
    => CleanFirst' /\ CleanHolds'
<1> SUFFICES ASSUME TypeInv, Ordered, Matched, CleanFirst, CleanHolds, [Next]_vars
             PROVE  CleanFirst' /\ CleanHolds'
  OBVIOUS
<1>a. TypeOK
  BY DEF TypeInv
<1>b. NoQuery \in Nat /\ \A k \in Queries : k \in Nat /\ NoQuery < k
  BY QueryAssumption DEF NoQuery, Queries
<1>c. \A c \in clean : c \in Queries
  BY <1>a DEF TypeOK
<1> USE DEF InboundAt
<1>1. ASSUME UNCHANGED <<asked, clean>>, got' \in {got, NoLog},
             first' = NoLog \/ (first' = first /\ slot' = slot),
             Firing' => Firing /\ inbound'.q = inbound.q
      PROVE  CleanFirst' /\ CleanHolds'
  BY <1>1 DEF CleanFirst, CleanHolds
<1>2. CASE UNCHANGED vars
  BY <1>1, <1>2 DEF vars, Firing
<1>3. ASSUME NEW q \in Queries, GetLayout(q) \/ TimesOut(q)
      PROVE  CleanFirst' /\ CleanHolds'
  BY <1>1, <1>3 DEF GetLayout, TimesOut, Firing
<1>4. CASE HandOver
  <2> DEFINE h == Head(ctl)
  <2>1. /\ h = ctl[1] /\ 1 \in DOMAIN ctl /\ h \in Queries
        /\ clean' = IF asked = <<>> /\ got = NoLog THEN clean \cup {h} ELSE clean
        /\ \/ ~Firing /\ inbound' = inbound
           \/ inbound'.q = h
        /\ UNCHANGED <<asked, got, slot, first>>
    BY <1>4, <1>a, TakenHead DEF HandOver, TypeOK, Firing
  <2> HIDE DEF h
  <2>2. Before(h)
    BY <2>1 DEF Ordered
  <2>3. ASSUME NEW c \in clean'
        PROVE  /\ Firing' => inbound'.q >= c
               /\ \A i \in DOMAIN asked' : asked'[i].q >= c
               /\ got' # NoLog => got'.q >= c
    <3>1. Firing' => inbound'.q >= c
      <4>1. c = h \/ c \in clean
        BY <2>1, <2>3
      <4>2. h >= c
        BY <1>b, <1>c, <2>1, <2>2, <4>1 DEF Before
      <4> QED BY <2>1, <4>2 DEF Firing
    <3>2. CASE c \in clean
      BY <2>1, <3>1, <3>2 DEF CleanFirst
    <3>3. CASE c \notin clean
      <4>1. asked = <<>> /\ got = NoLog
        BY <2>1, <2>3, <3>3
      <4>2. DOMAIN asked' = {} /\ got' = NoLog
        BY <2>1, <4>1
      <4> QED BY <3>1, <4>2
    <3> QED BY <3>2, <3>3
  <2>4. slot' # h
    BY <1>a, <1>b, <2>1, <2>2 DEF Before, TypeOK
  <2>5. CleanHolds'
    BY <2>1, <2>4 DEF CleanHolds
  <2> QED BY <2>3, <2>5 DEF CleanFirst
<1>5. CASE Fire
  <2> DEFINE l == [q |-> inbound.q, kind |-> inbound.at]
  <2>1. /\ UNCHANGED <<slot, first, got, clean>> /\ Firing
        /\ asked' = asked \/ asked' = Append(asked, l)
        /\ Firing' => inbound'.q = inbound.q
    BY <1>5 DEF Fire, Firing
  <2>2. l \in Logs /\ l.q = inbound.q
    BY <2>1 DEF TypeInv, Firing, Logs
  <2> HIDE DEF l
  <2>3. \A i \in DOMAIN asked' : \/ i \in DOMAIN asked /\ asked'[i] = asked[i]
                                \/ asked'[i] = l
    <3>1. asked \in Seq(Logs)
      BY <1>a DEF TypeOK
    <3>2. CASE asked' = asked
      BY <3>2
    <3>3. CASE asked' = Append(asked, l)
      BY <2>2, <3>1, <3>3, Appended
    <3> QED BY <2>1, <3>2, <3>3
  <2> QED BY <2>1, <2>2, <2>3 DEF CleanFirst, CleanHolds
<1>6. CASE LeaveLoop \/ InboundEnds
  BY <1>1, <1>6 DEF LeaveLoop, InboundEnds, Firing
<1>7. CASE DrainThenPark \/ DrainThenMatch
  BY <1>1, <1>7, <1>a, Drained DEF DrainThenPark, DrainThenMatch, Firing
<1>8. CASE Match
  <2>1. UNCHANGED <<inbound, asked, clean>> /\ got' = NoLog
    BY <1>8 DEF Match
  <2>2. CASE got = NoLog
    BY <1>1, <1>8, <2>1, <2>2 DEF Match, Firing
  <2>3. CASE got # NoLog
    <3>1. \/ slot # NoQuery /\ first' = got /\ slot' = slot
          \/ first' = NoLog
      BY <1>8, <1>a, <2>3, Captured DEF Match
    <3>2. CASE first' = NoLog
      BY <1>1, <2>1, <3>2 DEF Firing
    <3>3. CASE slot # NoQuery /\ first' = got /\ slot' = slot
      <4>1. got.q <= slot
        BY <1>8, <3>3 DEF Match, Matched
      <4>2. slot \in clean => got.q >= slot
        BY <2>3 DEF CleanFirst
      <4>3. slot \in clean => got.q = slot
        BY <1>a, <1>b, <1>c, <4>1, <4>2, LogQueries
      <4>4. CleanHolds'
        BY <2>1, <3>3, <4>3 DEF CleanHolds
      <4> QED BY <2>1, <4>4 DEF CleanFirst, Firing
    <3> QED BY <3>1, <3>2, <3>3
  <2> QED BY <2>2, <2>3
<1>9. CASE Recv
  <2>1. UNCHANGED <<slot, first, clean, inbound>>
    BY <1>9 DEF Recv
  <2>2. CASE got' = NoLog /\ asked' = asked
    BY <1>1, <2>1, <2>2 DEF Firing
  <2>3. CASE asked # <<>> /\ asked' = Tail(asked) /\ got' \in {Head(asked), NoLog}
    <3>1. /\ Head(asked) = asked[1] /\ 1 \in DOMAIN asked
          /\ \A i \in DOMAIN Tail(asked) :
               i + 1 \in DOMAIN asked /\ Tail(asked)[i] = asked[i + 1]
      BY <1>a, <2>3, TakenHead DEF TypeOK
    <3> QED BY <2>1, <2>3, <3>1 DEF CleanFirst, CleanHolds, Firing
  <2> QED BY <1>9, <2>2, <2>3 DEF Recv
<1>10. CASE ReaderExits
  BY <1>1, <1>10 DEF ReaderExits, Firing
<1> QED
  BY <1>2, <1>3, <1>4, <1>5, <1>6, <1>7, <1>8, <1>9, <1>10 DEF Next, ReaderStep

-----------------------------------------------------------------------------
(* Only the reader, matching a Log, gives an answer: one of two Logs that  *)
(* are no younger than the query, and both its own when the query is clean.*)
LEMMA AnswerStep ==
  QueryInv /\ [Next]_vars => CleanQueryGetsItsOwn' /\ NothingFromLater'
<1> SUFFICES ASSUME QueryInv, [Next]_vars
             PROVE  CleanQueryGetsItsOwn' /\ NothingFromLater'
  OBVIOUS
<1>a. TypeOK
  BY DEF QueryInv, TypeInv
<1>b. NoQuery \in Nat /\ \A k \in Queries : k \in Nat /\ NoQuery < k
  BY QueryAssumption DEF NoQuery, Queries
<1> USE DEF InboundAt
<1>1. ASSUME UNCHANGED <<answer, clean>>,
             \/ slot' = NoQuery
             \/ slot' \in Queries /\ first' = NoLog
             \/ first' = first /\ slot' = slot
      PROVE  CleanQueryGetsItsOwn' /\ NothingFromLater'
  <2>1. NoLog.q = NoQuery
    BY DEF NoLog, NoQuery
  <2>2. slot' # NoQuery => first'.q <= slot'
    BY <1>b, <1>1, <2>1 DEF QueryInv, NothingFromLater
  <2> QED BY <1>1, <2>2 DEF QueryInv, CleanQueryGetsItsOwn, NothingFromLater
<1>2. CASE UNCHANGED vars
  BY <1>1, <1>2 DEF vars
<1>3. ASSUME NEW q \in Queries, GetLayout(q) \/ TimesOut(q)
      PROVE  CleanQueryGetsItsOwn' /\ NothingFromLater'
  BY <1>1, <1>3 DEF GetLayout, TimesOut
<1>4. CASE HandOver
  <2> DEFINE h == Head(ctl)
  <2>1. /\ h = ctl[1] /\ 1 \in DOMAIN ctl
        /\ clean' \in {clean, clean \cup {h}}
        /\ UNCHANGED <<answer, slot, first>>
    BY <1>4, <1>a, TakenHead DEF HandOver, TypeOK
  <2> HIDE DEF h
  <2>2. answer[h] = NoAnswer
    BY <2>1 DEF QueryInv, Ordered, Before
  <2> QED BY <2>1, <2>2 DEF QueryInv, CleanQueryGetsItsOwn, NothingFromLater
<1>5. CASE Fire \/ LeaveLoop \/ InboundEnds \/ Recv
  BY <1>1, <1>5 DEF Fire, LeaveLoop, InboundEnds, Recv
<1>6. CASE DrainThenPark \/ DrainThenMatch
  BY <1>1, <1>6, <1>a, Drained DEF DrainThenPark, DrainThenMatch
<1>7. CASE Match
  <2>1. clean' = clean
    BY <1>7 DEF Match
  <2>2. CASE got = NoLog
    BY <1>1, <1>7, <2>1, <2>2 DEF Match
  <2>3. CASE got # NoLog
    <3>1. CASE slot # NoQuery /\ first' = got /\ UNCHANGED <<answer, slot>>
      <4>1. got.q <= slot
        BY <1>7, <3>1 DEF Match, QueryInv, Matched
      <4> QED BY <2>1, <3>1, <4>1
              DEF QueryInv, CleanQueryGetsItsOwn, NothingFromLater
    <3>2. CASE slot' = NoQuery /\ UNCHANGED answer
      BY <1>1, <2>1, <3>2
    <3>3. CASE /\ slot' = NoQuery /\ slot \in Queries
               /\ first \in Logs /\ got \in Logs
               /\ answer' = [answer EXCEPT ![slot] = Snapshot(first, got)]
      <4>1. got.q <= slot /\ first.q <= slot
        BY <1>7, <1>b, <3>3
        DEF Match, QueryInv, Matched, NothingFromLater
      <4>2. slot \in clean => got.q = slot /\ first.q = slot
        <5>1. slot \in clean => got.q >= slot
          BY <2>3 DEF QueryInv, CleanFirst
        <5>2. got.q \in Queries
          BY <3>3 DEF Logs
        <5>3. slot \in clean => first.q = slot
          BY <3>3, Logged DEF QueryInv, CleanHolds
        <5> QED BY <1>b, <3>3, <4>1, <5>1, <5>2, <5>3
      <4>3. /\ answer'[slot].tabs <= slot /\ answer'[slot].panes <= slot
            /\ slot \in clean => answer'[slot] = [tabs |-> slot, panes |-> slot]
        <5>1. answer'[slot] = Snapshot(first, got)
          BY <1>a, <3>3 DEF TypeOK
        <5>2. answer'[slot].tabs <= slot /\ answer'[slot].panes <= slot
          BY <3>3, <4>1, <5>1, SnapshotOf
        <5>3. slot \in clean => answer'[slot] = [tabs |-> slot, panes |-> slot]
          BY <3>3, <4>2, <5>1, SnapshotOf
        <5> QED BY <5>2, <5>3
      <4>4. \A k \in Queries : k # slot => answer'[k] = answer[k]
        BY <1>a, <3>3 DEF TypeOK
      <4>5. clean \subseteq Queries
        BY <1>a DEF TypeOK
      <4> QED BY <2>1, <3>3, <4>3, <4>4, <4>5
              DEF QueryInv, CleanQueryGetsItsOwn, NothingFromLater
    <3> QED BY <1>7, <1>a, <2>3, <3>1, <3>2, <3>3, Captured DEF Match
  <2> QED BY <2>2, <2>3
<1>8. CASE ReaderExits
  BY <1>1, <1>8 DEF ReaderExits
<1> QED
  BY <1>2, <1>3, <1>4, <1>5, <1>6, <1>7, <1>8 DEF Next, ReaderStep

-----------------------------------------------------------------------------
(* Where the reply halves are. *)

LEMMA ContainsIs ==
  ASSUME NEW S, NEW s \in Seq(S), NEW e
  PROVE  /\ Contains(s, e) <=> \E i \in DOMAIN s : s[i] = e
         /\ Contains(s, e) <=> e \in ToSet(s)
BY DEF Contains, ToSet

LEMMA ContainsAppended ==
  ASSUME NEW S, NEW s \in Seq(S), NEW e \in S, NEW x, Contains(s, x) \/ x = e
  PROVE  Contains(Append(s, e), x)
<1>1. Append(s, e) \in Seq(S)
  OBVIOUS
<1>2. /\ Contains(s, x) <=> \E i \in DOMAIN s : s[i] = x
      /\ Contains(Append(s, e), x) <=>
           \E i \in DOMAIN Append(s, e) : Append(s, e)[i] = x
  BY <1>1, ContainsIs
<1>3. /\ Len(s) + 1 \in DOMAIN Append(s, e) /\ Append(s, e)[Len(s) + 1] = e
      /\ \A i \in DOMAIN s : i \in DOMAIN Append(s, e) /\ Append(s, e)[i] = s[i]
  OBVIOUS
<1> QED BY <1>2, <1>3

LEMMA ContainsTaken ==
  ASSUME NEW S, NEW s \in Seq(S), s # <<>>, NEW x, Contains(s, x)
  PROVE  x = Head(s) \/ Contains(Tail(s), x)
<1>1. Tail(s) \in Seq(S) /\ Head(s) = s[1]
  BY TakenHead
<1>2. /\ \E i \in DOMAIN s : s[i] = x
      /\ Contains(Tail(s), x) <=> \E i \in DOMAIN Tail(s) : Tail(s)[i] = x
  BY <1>1, ContainsIs
<1>3. \A i \in DOMAIN s : i = 1 \/ (i - 1 \in DOMAIN Tail(s) /\ Tail(s)[i - 1] = s[i])
  OBVIOUS
<1> QED BY <1>1, <1>2, <1>3

(* Whoever still waits after a release was waiting, and was not released. *)
LEMMA ReleasedWaits ==
  ASSUME NEW qs, caller' = Released(qs), NEW q \in Queries, Waiting(q)'
  PROVE  Waiting(q) /\ q \notin qs
BY DEF Released, Waiting

(* drain_queries: of the queries it finds, the one it keeps or takes is    *)
(* the only one whose caller still waits.                                  *)
LEMMA DrainHolds ==
  ASSUME TypeOK, Drain, NEW q \in Queries, Waiting(q)'
  PROVE  /\ Waiting(q)
         /\ Contains(handed, q) \/ slot = q => slot' = q
<1>1. caller' = Released(({slot} \cup ToSet(handed)) \ {slot'})
  BY DEF Drain
<1>2. Waiting(q) /\ q \notin ({slot} \cup ToSet(handed)) \ {slot'}
  BY <1>1, ReleasedWaits
<1>3. Contains(handed, q) <=> q \in ToSet(handed)
  BY ContainsIs DEF TypeOK
<1> QED BY <1>2, <1>3

LEMMA HeldStep == TypeInv /\ ReplyIsHeld /\ [Next]_vars => ReplyIsHeld'
<1> SUFFICES ASSUME TypeOK, ReplyIsHeld, [Next]_vars, NEW q \in Queries, Waiting(q)'
             PROVE  \/ Contains(ctl', q) /\ inbound'.at # "gone"
                    \/ reader' # "exited" /\ (Contains(handed', q) \/ slot' = q)
  BY DEF TypeInv, ReplyIsHeld, Waiting
<1> DEFINE InChannel == Contains(ctl, q) /\ inbound.at # "gone"
           WithReader == reader # "exited" /\ (Contains(handed, q) \/ slot = q)
<1>0. Waiting(q) => InChannel \/ WithReader
  BY DEF ReplyIsHeld
<1> USE DEF InboundAt
<1>1. CASE UNCHANGED vars
  BY <1>0, <1>1 DEF vars, Waiting
<1>2. ASSUME NEW k \in Queries, GetLayout(k) \/ TimesOut(k)
      PROVE  \/ Contains(ctl', q) /\ inbound'.at # "gone"
             \/ reader' # "exited" /\ (Contains(handed', q) \/ slot' = q)
  <2>1. UNCHANGED <<inbound, reader, handed, slot>>
    BY <1>2 DEF GetLayout, TimesOut
  <2>2. CASE Waiting(q)
    <3>1. ctl' \in {ctl, Append(ctl, k)} /\ ctl \in Seq(Queries)
      BY <1>2 DEF GetLayout, TimesOut, TypeOK
    <3>2. Contains(ctl, q) => Contains(ctl', q)
      BY <3>1, ContainsAppended
    <3> QED BY <1>0, <2>1, <2>2, <3>2
  <2>3. CASE ~Waiting(q)
    <3>1. k = q /\ inbound.at # "gone" /\ ctl' = Append(ctl, q)
      BY <1>2, <2>3 DEF GetLayout, TimesOut, TypeOK, Waiting
    <3> QED BY <2>1, <3>1, ContainsAppended DEF TypeOK
  <2> QED BY <2>2, <2>3
<1>3. CASE HandOver
  <2>1. /\ inbound.at = "idle" /\ ctl # <<>> /\ ctl' = Tail(ctl)
        /\ UNCHANGED <<reader, slot>>
    BY <1>3 DEF HandOver
  <2>2. Head(ctl) \in Queries
    BY <2>1, TakenHead DEF TypeOK
  <2>3. Contains(ctl, q) => q = Head(ctl) \/ Contains(ctl', q)
    BY <2>1, ContainsTaken DEF TypeOK
  <2>4. CASE reader = "exited"
    <3>1. caller' = Released({Head(ctl)}) /\ inbound' = inbound
      BY <1>3, <2>4 DEF HandOver
    <3>2. Waiting(q) /\ q # Head(ctl)
      BY <3>1, ReleasedWaits
    <3> QED BY <1>0, <2>1, <2>3, <2>4, <3>1, <3>2
  <2>5. CASE reader # "exited"
    <3>1. /\ handed' = Append(handed, Head(ctl))
          /\ inbound'.at = "tabs" /\ caller' = caller
      BY <1>3, <2>5 DEF HandOver
    <3>2. Waiting(q)
      BY <3>1 DEF Waiting
    <3>3. Contains(handed', Head(ctl)) /\ (Contains(handed, q) => Contains(handed', q))
      BY <2>2, <3>1, ContainsAppended DEF TypeOK
    <3> QED BY <1>0, <2>1, <2>3, <2>5, <3>1, <3>2, <3>3
  <2> QED BY <2>4, <2>5
<1>4. CASE Fire \/ LeaveLoop
  <2>1. inbound'.at # "gone" /\ UNCHANGED <<caller, ctl, reader, handed, slot>>
    BY <1>4 DEF Fire, LeaveLoop
  <2> QED BY <1>0, <2>1 DEF Waiting
<1>5. CASE InboundEnds
  <2>1. /\ caller' = Released(ToSet(ctl)) /\ reader = "exited"
        /\ UNCHANGED <<reader, handed, slot>>
    BY <1>5 DEF InboundEnds
  <2>2. Waiting(q) /\ q \notin ToSet(ctl)
    BY <2>1, ReleasedWaits
  <2>3. ~Contains(ctl, q)
    BY <2>2, ContainsIs DEF TypeOK
  <2> QED BY <1>0, <2>1, <2>2, <2>3
<1>6. CASE DrainThenPark \/ DrainThenMatch
  <2>1. Drain /\ reader' # "exited" /\ UNCHANGED <<ctl, inbound>>
    BY <1>6 DEF DrainThenPark, DrainThenMatch
  <2> QED BY <1>0, <2>1, DrainHolds
<1>7. CASE Match
  <2>1. reader' # "exited" /\ UNCHANGED <<ctl, inbound, handed>>
    BY <1>7 DEF Match
  <2>2. Waiting(q) /\ (slot = q => slot' = q)
    <3>1. CASE got = NoLog
      BY <1>7, <3>1 DEF Match, Waiting
    <3>2. CASE got # NoLog /\ ~Waiting(slot)
      BY <1>7, <3>2 DEF Match, Capture, Waiting
    <3>3. CASE got # NoLog /\ Waiting(slot) /\ first = NoLog
      BY <1>7, <3>3 DEF Match, Capture, Waiting
    <3>4. CASE got # NoLog /\ Waiting(slot) /\ first # NoLog
      <4>1. CASE Parses(first, got)
        BY <1>7, <3>4, <4>1 DEF Match, Capture, Waiting, TypeOK
      <4>2. CASE ~Parses(first, got)
        <5>1. caller' = Released({slot})
          BY <1>7, <3>4, <4>2 DEF Match, Capture
        <5> QED BY <5>1, ReleasedWaits
      <4> QED BY <4>1, <4>2
    <3> QED BY <3>1, <3>2, <3>3, <3>4
  <2> QED BY <1>0, <2>1, <2>2
<1>8. CASE Recv
  BY <1>0, <1>8 DEF Recv, Waiting
<1>9. CASE ReaderExits
  <2>1. /\ caller' = Released({slot} \cup ToSet(handed))
        /\ UNCHANGED <<ctl, inbound>>
    BY <1>9 DEF ReaderExits
  <2>2. Waiting(q) /\ q \notin {slot} \cup ToSet(handed)
    BY <2>1, ReleasedWaits
  <2>3. ~Contains(handed, q) /\ slot # q
    BY <2>2, ContainsIs DEF TypeOK
  <2> QED BY <1>0, <2>1, <2>2, <2>3
<1> QED
  BY <1>1, <1>2, <1>3, <1>4, <1>5, <1>6, <1>7, <1>8, <1>9 DEF Next, ReaderStep

-----------------------------------------------------------------------------
LEMMA QueryInit == Init => QueryInv
<1> SUFFICES ASSUME Init PROVE QueryInv
  OBVIOUS
<1>1. NoQuery \in Nat /\ \A k \in Queries : k \in Nat /\ NoQuery < k
  BY QueryAssumption DEF NoQuery, Queries
<1>2. <<>> \in Seq(Queries) /\ <<>> \in Seq(Logs) /\ DOMAIN <<>> = {}
  OBVIOUS
<1>3. TypeInv /\ ~Firing
  BY <1>2 DEF Init, InboundAt, TypeInv, TypeOK, Firing
<1>4. \A k \in Queries : Before(k)
  BY <1>1, <1>2 DEF Init, InboundAt, Before, NoLog, NoQuery
<1>5. Ordered
  BY <1>2, <1>4 DEF Init, Ordered
<1>6. Covered /\ Matched
  BY <1>2, <1>3 DEF Init, Covered, CoveredBy, Matched
<1>7. CleanFirst /\ CleanHolds /\ CleanQueryGetsItsOwn
  BY DEF Init, CleanFirst, CleanHolds, CleanQueryGetsItsOwn
<1>8. NothingFromLater
  <2>1. \A k \in Queries : answer[k] = NoAnswer
    BY DEF Init
  <2>2. NoAnswer.tabs = NoQuery /\ NoAnswer.panes = NoQuery
    BY DEF NoAnswer, NoQuery
  <2>3. slot = NoQuery
    BY DEF Init
  <2>4. \A k \in Queries : NoQuery <= k
    BY <1>1
  <2> QED BY <2>1, <2>2, <2>3, <2>4 DEF NothingFromLater
<1> QED BY <1>3, <1>5, <1>6, <1>7, <1>8 DEF QueryInv

LEMMA QueryInvariance == Spec => []QueryInv
<1>1. QueryInv /\ [Next]_vars => QueryInv'
  BY TypeStep, OrderedStep, CoveredStep, CleanStep, AnswerStep DEF QueryInv
<1> QED BY <1>1, QueryInit, PTL DEF Spec

(* Every variable of the query path keeps its type: no Log is held that no *)
(* query asked for, and whatever the reader holds was handed to it.        *)
THEOREM LayoutTypeCorrect == Spec => []TypeOK
<1>1. QueryInv => TypeOK
  BY DEF QueryInv, TypeInv
<1> QED BY <1>1, QueryInvariance, PTL

(* A query received while no earlier reply was outstanding gets its own    *)
(* tabs and panes or no in-band answer, for any number of queries.         *)
THEOREM CleanQueryIsAnsweredWithItsOwn == Spec => []CleanQueryGetsItsOwn
<1>1. QueryInv => CleanQueryGetsItsOwn
  BY DEF QueryInv
<1> QED BY <1>1, QueryInvariance, PTL

(* No answer has a part that was asked for after its query.                *)
THEOREM NothingAnsweredFromLater == Spec => []NothingFromLater
<1>1. QueryInv => NothingFromLater
  BY DEF QueryInv
<1> QED BY <1>1, QueryInvariance, PTL

(* Every caller that waits for an in-band answer has its reply half in the *)
(* channel of an inbound task that has not ended or with a reader that has *)
(* not exited: no path of the query loses it, for any number of queries.   *)
THEOREM ReplyIsHeldThm == Spec => []ReplyIsHeld
<1>1. Init => ReplyIsHeld
  BY DEF Init, ReplyIsHeld, Waiting
<1>2. QueryInv /\ ReplyIsHeld /\ [Next]_vars => ReplyIsHeld'
  BY HeldStep DEF QueryInv
<1> QED BY <1>1, <1>2, QueryInvariance, PTL DEF Spec
=============================================================================
