------------------------- MODULE WatchAgents_proofs -------------------------
(***************************************************************************)
(* Proofs about WatchAgents, for any panes, bounds and failures.           *)
(*                                                                         *)
(* HeldIsTheClients is about what a sequence of messages leaves, which the *)
(* lemmas about LeavesRow say of an empty outbox, one more message and one *)
(* fewer. ClosedStaysGone needs to know where a closed pane's rows could   *)
(* still come from: the inventory (ClosedGone), an event (ClosedGone) or a *)
(* read that is out or answered (ReadKnowsClosed).                         *)
(*                                                                         *)
(* DriftIsOwed is about what a row that is wrong still has coming: a       *)
(* notice in the bus or about to be published, a mark, a re-read. Each     *)
(* step of the stream that uses one of these up sets the row right or      *)
(* leaves another.                                                         *)
(***************************************************************************)
EXTENDS WatchAgents, FiniteSetTheorems, TLAPS

(* Only an open stream has anything to send, or a re-read under way. *)
OnlyOpenWorks == stream # "open" => outbox = <<>> /\ reading.at = "none"

(* A pane is reported closed when the inventory has lost it for good. *)
ClosedGone ==
  /\ \A p \in Panes : p \notin open => agents[p] = NoRow
  /\ \A e \in owed : e.kind = "closed" => e.pane \notin open
  /\ \A i \in DOMAIN bus : bus[i].kind = "closed" => bus[i].pane \notin open
  /\ \A p \in toldGone : p \notin open

(* An answer that has rows of a closed pane knows that it was closed. *)
ReadKnowsClosed ==
  reading.at = "answered" =>
    \A p \in toldGone : p \in reading.closed \/ reading.rows[p] = NoRow

(* What a re-read was told of closures is true of the inventory. *)
ReadClosedGone == \A p \in reading.closed : p \notin open

(* An answer that was overtaken by a change is going to be corrected. *)
AnswerIsOwed ==
  stream = "open" /\ reading.at = "answered" =>
    \A p \in Panes : AnswerHas(p) \/ ReadOwed(p)

WatchInv ==
  /\ TypeOK /\ OnlyOpenWorks /\ HeldIsTheClients
  /\ ClosedGone /\ ReadKnowsClosed /\ ClosedStaysGone
  /\ ReadClosedGone /\ AnswerIsOwed /\ DriftIsOwed

-----------------------------------------------------------------------------
(* What messages leave of a row. *)

LEMMA MsgShape ==
  ASSUME NEW m \in Msgs
  PROVE  \/ m.kind = "snapshot" /\ m.rows \in Lists
         \/ m.kind = "set" /\ m.pane \in Panes /\ m.row \in Rows
  BY DEF Msgs, SnapshotMsg, SetMsg

LEMMA AppliedIsList ==
  ASSUME NEW v \in Lists, NEW m \in Msgs
  PROVE  Applied(v, m) \in Lists
  BY MsgShape DEF Applied, Lists

(* A message about a pane decides its row, whatever was held; another      *)
(* message leaves it alone.                                                *)
LEMMA AppliedRow ==
  ASSUME NEW v \in Lists, NEW m \in Msgs, NEW p \in Panes
  PROVE  /\ About(m, p) => \A w \in Lists : Applied(w, m)[p] = Applied(v, m)[p]
         /\ ~About(m, p) => Applied(v, m)[p] = v[p]
  BY MsgShape DEF Applied, Lists, About

LEMMA LeavesNothing ==
  ASSUME NEW v, NEW p, NEW row
  PROVE  LeavesRow(v, <<>>, p, row) <=> v[p] = row
<1>1. DOMAIN <<>> = {}
  OBVIOUS
<1> QED BY <1>1 DEF LeavesRow

LEMMA LeavesAppended ==
  ASSUME NEW v, NEW msgs \in Seq(Msgs), NEW m \in Msgs, NEW p, NEW row,
         LeavesRow(v, msgs, p, row)
  PROVE  LeavesRow(v, Append(msgs, m), p, IF About(m, p) THEN Applied(v, m)[p] ELSE row)
<1> DEFINE s == Append(msgs, m)
           n == Len(msgs)
<1>1. /\ n \in Nat /\ DOMAIN msgs = 1..n /\ DOMAIN s = 1..(n + 1)
      /\ s[n + 1] = m /\ \A i \in 1..n : s[i] = msgs[i]
  OBVIOUS
<1> HIDE DEF s, n
<1>2. CASE About(m, p)
  <2>1. \A i \in DOMAIN s :
          About(s[i], p) /\ (\A j \in DOMAIN s : About(s[j], p) => j <= i) => i = n + 1
    BY <1>1, <1>2
  <2>2. ~\A i \in DOMAIN s : ~About(s[i], p)
    BY <1>1, <1>2
  <2>3. LeavesRow(v, s, p, Applied(v, m)[p])
    BY <1>1, <2>1, <2>2 DEF LeavesRow
  <2> QED BY <1>2, <2>3 DEF s
<1>3. CASE ~About(m, p)
  <2>1. \A i \in DOMAIN s : About(s[i], p) => i \in DOMAIN msgs /\ s[i] = msgs[i]
    BY <1>1, <1>3
  <2>2. \A i \in DOMAIN msgs : i \in DOMAIN s /\ s[i] = msgs[i]
    BY <1>1
  <2>3. LeavesRow(v, s, p, row)
    BY <2>1, <2>2 DEF LeavesRow
  <2> QED BY <1>3, <2>3 DEF s
<1> QED BY <1>2, <1>3

LEMMA LeavesDelivered ==
  ASSUME NEW v \in Lists, NEW msgs \in Seq(Msgs), msgs # <<>>, NEW p \in Panes, NEW row,
         LeavesRow(v, msgs, p, row)
  PROVE  LeavesRow(Applied(v, Head(msgs)), Tail(msgs), p, row)
<1> DEFINE t == Tail(msgs)
           n == Len(msgs)
           w == Applied(v, msgs[1])
<1>1. /\ n \in Nat \ {0} /\ DOMAIN msgs = 1..n /\ Head(msgs) = msgs[1]
      /\ DOMAIN t = 1..(n - 1) /\ \A i \in 1..(n - 1) : t[i] = msgs[i + 1]
  OBVIOUS
<1>2. \A i \in DOMAIN msgs : msgs[i] \in Msgs
  OBVIOUS
<1> HIDE DEF t, n
<1>3. w \in Lists
  BY <1>1, <1>2, AppliedIsList
<1> HIDE DEF w
<1>4. ASSUME \A i \in DOMAIN t : ~About(t[i], p)
      PROVE  w[p] = row
  <2>1. \A i \in DOMAIN msgs : About(msgs[i], p) => i = 1
    <3> SUFFICES ASSUME NEW i \in 1..n, i # 1 PROVE ~About(msgs[i], p)
      BY <1>1
    <3>1. i - 1 \in DOMAIN t /\ t[i - 1] = msgs[(i - 1) + 1] /\ (i - 1) + 1 = i
      BY <1>1
    <3> QED BY <1>4, <3>1
  <2>2. CASE About(msgs[1], p)
    <3>1. 1 \in DOMAIN msgs /\ \A j \in DOMAIN msgs : About(msgs[j], p) => j <= 1
      BY <1>1, <2>1
    <3> QED BY <2>2, <3>1 DEF LeavesRow, w
  <2>3. CASE ~About(msgs[1], p)
    <3>1. v[p] = row
      BY <2>1, <2>3 DEF LeavesRow
    <3>2. msgs[1] \in Msgs
      BY <1>1, <1>2
    <3> QED BY <2>3, <3>1, <3>2, AppliedRow DEF w
  <2> QED BY <2>2, <2>3
<1>5. ASSUME NEW i \in DOMAIN t, About(t[i], p), \A j \in DOMAIN t : About(t[j], p) => j <= i
      PROVE  Applied(w, t[i])[p] = row
  <2>1. i \in 1..(n - 1) /\ i + 1 \in DOMAIN msgs /\ t[i] = msgs[i + 1]
    BY <1>1
  <2>2. ASSUME NEW j \in 1..n, About(msgs[j], p)
        PROVE  j <= i + 1
    <3>1. CASE j = 1
      BY <2>1, <3>1, <1>1
    <3>2. CASE j # 1
      <4>1. j - 1 \in DOMAIN t /\ t[j - 1] = msgs[(j - 1) + 1] /\ (j - 1) + 1 = j
        BY <1>1, <3>2
      <4>2. j - 1 <= i
        BY <1>5, <2>2, <4>1
      <4> QED BY <2>1, <4>2, <1>1
    <3> QED BY <3>1, <3>2
  <2>3. \A j \in DOMAIN msgs : About(msgs[j], p) => j <= i + 1
    BY <1>1, <2>2
  <2>4. Applied(v, msgs[i + 1])[p] = row
    BY <1>5, <2>1, <2>3 DEF LeavesRow
  <2>5. Applied(w, msgs[i + 1])[p] = Applied(v, msgs[i + 1])[p]
    BY <1>2, <1>3, <1>5, <2>1, AppliedRow
  <2> QED BY <2>1, <2>4, <2>5
<1>6. LeavesRow(w, t, p, row)
  BY <1>4, <1>5 DEF LeavesRow
<1> QED BY <1>1, <1>6 DEF t, w

-----------------------------------------------------------------------------
(* The deltas of a read. *)

(* SetToSeq lists a finite set: nothing else, and nothing left out. *)
LEMMA SetToSeqLists ==
  ASSUME NEW S, IsFiniteSet(S)
  PROVE  /\ SetToSeq(S) \in Seq(S)
         /\ \A x \in S : \E i \in DOMAIN SetToSeq(S) : SetToSeq(S)[i] = x
<1> DEFINE n == Cardinality(S)
           f == SetToSeq(S)
<1>1. n \in Nat /\ ExistsBijection(1..n, S)
  BY FS_CardinalityType
<1>2. \E g \in [1..n -> S] : IsInjective(g)
  BY <1>1 DEF ExistsBijection, Bijection, Injection
<1>3. f \in [1..n -> S] /\ IsInjective(f)
  BY <1>2 DEF SetToSeq
<1>4. f \in Injection(1..n, S)
  BY <1>3 DEF Injection
<1>5. IsFiniteSet(1..n) /\ Cardinality(1..n) = n
  BY <1>1, FS_Interval
<1>6. f \in Surjection(1..n, S)
  BY <1>4, <1>5, FS_Injection
<1>7. \A x \in S : \E i \in 1..n : f[i] = x
  BY <1>6 DEF Surjection
<1>8. DOMAIN f = 1..n
  BY <1>3
<1>9. f \in Seq(S)
  <2> HIDE DEF f, n
  <2> QED BY <1>1, <1>3
<1> QED BY <1>7, <1>8, <1>9

Sets(D, rows) == SetToSeq({SetMsg(p, rows[p]) : p \in D})

LEMMA SetsOfPanes ==
  ASSUME NEW D \in SUBSET Panes, NEW rows \in Lists, NEW s, s = Sets(D, rows)
  PROVE  /\ s \in Seq(Msgs)
         /\ \A i \in DOMAIN s : \E p \in D : s[i] = SetMsg(p, rows[p])
         /\ \A p \in D : \E i \in DOMAIN s : s[i] = SetMsg(p, rows[p])
<1> DEFINE M == {SetMsg(p, rows[p]) : p \in D}
           f == [p \in D |-> SetMsg(p, rows[p])]
<1>1. IsFiniteSet(D)
  BY WatchAssumption, FS_Subset
<1>2. f \in Surjection(D, M)
  BY DEF Surjection
<1>3. IsFiniteSet(M)
  BY <1>1, <1>2, FS_Surjection
<1>4. M \subseteq Msgs
  BY DEF Msgs, Lists
<1> HIDE DEF M, f
<1>5. s = SetToSeq(M)
  BY DEF M, Sets
<1>6. s \in Seq(M) /\ \A x \in M : \E i \in DOMAIN s : s[i] = x
  BY <1>3, <1>5, SetToSeqLists
<1>7. s \in Seq(Msgs)
  BY <1>4, <1>6
<1>8. \A i \in DOMAIN s : s[i] \in M
  BY <1>6
<1> QED BY <1>6, <1>7, <1>8 DEF M

(* The deltas say of each row that differs what it is now, and of no other *)
(* row anything else.                                                      *)
LEMMA DeltasSayNext ==
  ASSUME NEW next \in Lists, NEW s, s = Deltas(next)
  PROVE  /\ s \in Seq(Msgs)
         /\ \A i \in DOMAIN s : \E p \in Panes : s[i] = SetMsg(p, next[p])
         /\ \A p \in Panes : next[p] # held[p] => \E i \in DOMAIN s : s[i] = SetMsg(p, next[p])
<1> DEFINE differ == {p \in Panes : next[p] # held[p]}
           D1 == {q \in differ : next[q] # NoRow}
           D2 == {q \in differ : next[q] = NoRow}
           s1 == Sets(D1, next)
           s2 == Sets(D2, next)
<1>1. s = s1 \o s2
  <2>1. {SetMsg(p, NoRow) : p \in D2} = {SetMsg(p, next[p]) : p \in D2}
    OBVIOUS
  <2> QED BY <2>1 DEF Deltas, Sets
<1>2. D1 \in SUBSET Panes /\ D2 \in SUBSET Panes /\ D1 \cup D2 = differ
  OBVIOUS
<1> HIDE DEF D1, D2
<1>3. /\ s1 \in Seq(Msgs)
      /\ \A i \in DOMAIN s1 : \E p \in D1 : s1[i] = SetMsg(p, next[p])
      /\ \A p \in D1 : \E i \in DOMAIN s1 : s1[i] = SetMsg(p, next[p])
  BY <1>2, SetsOfPanes
<1>4. /\ s2 \in Seq(Msgs)
      /\ \A i \in DOMAIN s2 : \E p \in D2 : s2[i] = SetMsg(p, next[p])
      /\ \A p \in D2 : \E i \in DOMAIN s2 : s2[i] = SetMsg(p, next[p])
  BY <1>2, SetsOfPanes
<1> HIDE DEF s1, s2
<1>5. /\ s \in Seq(Msgs) /\ DOMAIN s = 1..(Len(s1) + Len(s2))
      /\ \A i \in DOMAIN s1 : i \in DOMAIN s /\ s[i] = s1[i]
      /\ \A i \in DOMAIN s2 : Len(s1) + i \in DOMAIN s /\ s[Len(s1) + i] = s2[i]
      /\ \A i \in DOMAIN s : \/ i \in DOMAIN s1 /\ s[i] = s1[i]
                             \/ i - Len(s1) \in DOMAIN s2 /\ s[i] = s2[i - Len(s1)]
  BY <1>1, <1>3, <1>4
<1>6. \A i \in DOMAIN s : \E p \in Panes : s[i] = SetMsg(p, next[p])
  <2> SUFFICES ASSUME NEW i \in DOMAIN s PROVE \E p \in D1 \cup D2 : s[i] = SetMsg(p, next[p])
    BY <1>2
  <2>1. CASE i \in DOMAIN s1 /\ s[i] = s1[i]
    BY <1>3, <2>1
  <2>2. CASE i - Len(s1) \in DOMAIN s2 /\ s[i] = s2[i - Len(s1)]
    BY <1>4, <2>2
  <2> QED BY <1>5, <2>1, <2>2
<1>7. ASSUME NEW p \in differ
      PROVE  \E i \in DOMAIN s : s[i] = SetMsg(p, next[p])
  <2>1. CASE p \in D1
    BY <1>3, <1>5, <2>1
  <2>2. CASE p \in D2
    <3>1. PICK i \in DOMAIN s2 : s2[i] = SetMsg(p, next[p])
      BY <1>4, <2>2
    <3> QED BY <1>5, <3>1
  <2> QED BY <1>2, <2>1, <2>2
<1> QED BY <1>5, <1>6, <1>7

(* A client that held what the stream held is left with next. *)
LEMMA DeltasLeaveNext ==
  ASSUME NEW next \in Lists, held \in Lists, NEW v \in Lists, NEW p \in Panes, v[p] = held[p]
  PROVE  LeavesRow(v, Deltas(next), p, next[p])
<1> DEFINE s == Deltas(next)
<1>1. /\ \A i \in DOMAIN s : \E q \in Panes : s[i] = SetMsg(q, next[q])
      /\ next[p] # held[p] => \E i \in DOMAIN s : s[i] = SetMsg(p, next[p])
  BY DeltasSayNext
<1> HIDE DEF s
<1>2. (\A i \in DOMAIN s : ~About(s[i], p)) => v[p] = next[p]
  BY <1>1 DEF About, SetMsg
<1>3. \A i \in DOMAIN s : About(s[i], p) => s[i] = SetMsg(p, next[p])
  BY <1>1 DEF About, SetMsg
<1>4. Applied(v, SetMsg(p, next[p]))[p] = next[p]
  BY DEF Applied, SetMsg, Lists
<1>5. LeavesRow(v, s, p, next[p])
  BY <1>2, <1>3, <1>4 DEF LeavesRow
<1> QED BY <1>5 DEF s

LEMMA SnapshotLeaves ==
  ASSUME NEW rows \in Lists, NEW v, NEW p \in Panes
  PROVE  LeavesRow(v, <<SnapshotMsg(rows)>>, p, rows[p])
<1> DEFINE s == <<SnapshotMsg(rows)>>
<1>1. DOMAIN s = {1} /\ s[1] = SnapshotMsg(rows)
  OBVIOUS
<1> HIDE DEF s
<1>2. LeavesRow(v, s, p, rows[p])
  BY <1>1 DEF LeavesRow, About, Applied, SnapshotMsg
<1> QED BY <1>2 DEF s

-----------------------------------------------------------------------------
(* What steps read. *)

LEMMA EventShape ==
  ASSUME NEW e \in Events
  PROVE  \/ e.kind = "status" /\ e.pane \in Panes /\ e.n \in Changes
         \/ e.kind = "closed" /\ e.pane \in Panes
         \/ e.kind = "resynced"
  BY DEF Events, StatusChanged, PaneClosed, Resynced

(* The oldest event of the bus. *)
LEMMA BusHead ==
  ASSUME TypeOK, bus # <<>>
  PROVE  /\ Head(bus) \in Events /\ Head(bus) = bus[1] /\ 1 \in DOMAIN bus
         /\ Tail(bus) \in Seq(Events) /\ Len(Tail(bus)) = Len(bus) - 1
         /\ \A i \in DOMAIN Tail(bus) : i + 1 \in DOMAIN bus /\ Tail(bus)[i] = bus[i + 1]
<1>1. bus \in Seq(Events)
  BY DEF TypeOK
<1> QED BY <1>1

(* The first message to go out. *)
LEMMA OutboxHead ==
  ASSUME TypeOK, outbox # <<>>
  PROVE  Head(outbox) \in Msgs /\ Tail(outbox) \in Seq(Msgs)
<1>1. outbox \in Seq(Msgs)
  BY DEF TypeOK
<1> QED BY <1>1

(* The rows of a re-read, as they are applied. *)
LEMMA ReadRows ==
  ASSUME TypeOK
  PROVE  /\ Retained(reading.rows, reading.closed) \in Lists
         /\ Reconciled(Retained(reading.rows, reading.closed), stale) \in Lists
  BY DEF TypeOK, Retained, Reconciled, Lists, NoRow, Rows

LEMMA RowTypes ==
  /\ NoRow \in Rows /\ Empty \in Lists
  /\ \A n \in Changes : Row(n) \in Rows
  /\ NotReading \in [at : {"none", "out", "answered", "failed"}, rows : Lists,
                     stale : SUBSET Panes, resnapshot : BOOLEAN, closed : SUBSET Panes]
<1>1. NoRow \in Rows /\ Empty \in Lists
  BY DEF Empty, Lists, Rows
<1> QED BY <1>1 DEF Row, Rows, NotReading

-----------------------------------------------------------------------------
(* Types. *)

LEMMA EnvironmentKeepsType ==
  ASSUME TypeOK,
         \/ \E p \in Panes : AgentMoves(p) \/ PaneCloses(p)
         \/ PublishSome \/ Outage \/ Revoke
  PROVE  TypeOK'
<1> USE WatchAssumption
<1>1. ASSUME NEW p \in Panes, NEW row \in Rows, NEW e \in Events, open' \in SUBSET Panes,
             Changed(p, row, e)
      PROVE  TypeOK'
  <2>1. changes' \in Changes
    BY <1>1 DEF Changed, TypeOK, Changes
  <2>2. agents' \in Lists /\ owed' \in SUBSET Events
    BY <1>1 DEF Changed, TypeOK, Lists
  <2> QED BY <1>1, <2>1, <2>2 DEF Changed, TypeOK, busVars, stateVars, clientVars
<1>2. ASSUME NEW p \in Panes, AgentMoves(p)
      PROVE  TypeOK'
  <2>1. changes + 1 \in Changes
    BY <1>2 DEF AgentMoves, Changed, TypeOK, Changes
  <2>2. Row(changes + 1) \in Rows /\ StatusChanged(p, changes + 1) \in Events
    BY <2>1, RowTypes DEF Events
  <2> QED BY <1>1, <1>2, <2>2, RowTypes DEF AgentMoves, TypeOK
<1>3. ASSUME NEW p \in Panes, PaneCloses(p)
      PROVE  TypeOK'
  <2>1. PaneClosed(p) \in Events
    BY DEF Events
  <2> QED BY <1>1, <1>3, <2>1, RowTypes DEF PaneCloses, TypeOK
<1>4. ASSUME NEW e \in owed, Publish(e)
      PROVE  TypeOK'
  <2>1. e \in Events /\ owed' \in SUBSET Events
    BY <1>4 DEF Publish, TypeOK
  <2>2. bus' \in Seq(Events) /\ Len(bus') <= BusCap
    <3>1. bus \in Seq(Events) /\ Len(bus) <= BusCap
      BY DEF TypeOK
    <3>2. CASE bus' = bus
      BY <3>1, <3>2
    <3>3. CASE Len(bus) < BusCap /\ bus' = Append(bus, e)
      BY <2>1, <3>1, <3>3
    <3>4. CASE ~(Len(bus) < BusCap) /\ bus' = Append(Tail(bus), e)
      <4>1. bus # <<>>
        BY <3>1, <3>4
      <4> QED BY <2>1, <3>1, <3>4, <4>1
    <3> QED BY <1>4, <3>2, <3>3, <3>4 DEF Publish, busVars
  <2>3. lagged' \in BOOLEAN
    BY <1>4 DEF Publish, TypeOK, busVars
  <2> QED BY <1>4, <2>1, <2>2, <2>3 DEF Publish, TypeOK, stateVars, clientVars
<1>5. CASE Outage
  <2>1. owed' \in SUBSET Events
    BY <1>5 DEF Outage, TypeOK, Events
  <2> QED BY <1>5, <2>1 DEF Outage, TypeOK, busVars, stateVars, clientVars
<1>6. CASE Revoke
  BY <1>6 DEF Revoke, TypeOK, envVars, busVars, stateVars, clientVars
<1> QED BY <1>2, <1>3, <1>4, <1>5, <1>6 DEF PublishSome

LEMMA OverKeepsType ==
  ASSUME TypeOK, NEW how \in {"ended", "unauthenticated"}, Over(how)
  PROVE  TypeOK'
<1>1. <<>> \in Seq(Events) /\ Len(<<>>) = 0 /\ <<>> \in Seq(Msgs)
  OBVIOUS
<1>2. bus' \in Seq(Events) /\ Len(bus') <= BusCap /\ outbox' \in Seq(Msgs) /\ chan' \in 0..ChanCap
  BY <1>1, WatchAssumption DEF Over
<1> QED BY <1>2, RowTypes DEF Over, TypeOK, envVars

LEMMA FinishReadKeepsType ==
  ASSUME TypeOK, FinishRead
  PROVE  TypeOK'
<1> DEFINE list == Retained(reading.rows, reading.closed)
           next == IF reading.resnapshot THEN list ELSE Reconciled(list, stale)
<1>1. list \in Lists /\ next \in Lists
  BY ReadRows
<1>2. SnapshotMsg(list) \in Msgs /\ <<SnapshotMsg(list)>> \in Seq(Msgs)
  <2>1. SnapshotMsg(list) \in Msgs
    BY <1>1 DEF Msgs
  <2> QED BY <2>1
<1>3. Deltas(next) \in Seq(Msgs)
  BY <1>1, DeltasSayNext
<1>4. held' \in Lists /\ outbox' \in Seq(Msgs) /\ stale' \in SUBSET Panes /\ resnapshot' \in BOOLEAN
  <2>1. CASE reading.at = "failed"
    BY <2>1 DEF FinishRead, TypeOK
  <2>2. CASE reading.at # "failed"
    <3> HIDE DEF list, next
    <3>1. held' = next /\ UNCHANGED <<stale, resnapshot>>
          /\ outbox' = IF reading.resnapshot THEN <<SnapshotMsg(list)>> ELSE Deltas(next)
      BY <2>2 DEF FinishRead, list, next
    <3> QED BY <1>1, <1>2, <1>3, <3>1 DEF TypeOK
  <2> QED BY <2>1, <2>2
<1>5. /\ reading' = NotReading
      /\ UNCHANGED <<envVars, busVars, stream, clientVars, tokenValid, failures>>
  BY DEF FinishRead
<1> QED BY <1>4, <1>5, RowTypes DEF TypeOK, envVars, busVars, clientVars

LEMMA OnBusKeepsType ==
  ASSUME TypeOK, OnBus
  PROVE  TypeOK'
<1>1. bus' \in Seq(Events) /\ Len(bus') <= BusCap /\ lagged' \in BOOLEAN
  <2>1. bus \in Seq(Events) /\ Len(bus) <= BusCap /\ Len(bus) \in Nat
    BY DEF TypeOK
  <2>2. CASE UNCHANGED bus
    BY <2>1, <2>2 DEF OnBus, TypeOK
  <2>3. CASE bus # <<>> /\ bus' = Tail(bus)
    BY <2>1, <2>3, BusHead, WatchAssumption DEF OnBus, TypeOK
  <2> QED BY <2>2, <2>3 DEF OnBus
<1>2. UNCHANGED <<envVars, stream, chan, view, tokenValid, failures>>
  BY DEF OnBus
<1> DEFINE StateTyped ==
             /\ held' \in Lists /\ outbox' \in Seq(Msgs) /\ stale' \in SUBSET Panes
             /\ resnapshot' \in BOOLEAN /\ toldGone' \in SUBSET Panes
             /\ reading' \in [at : {"none", "out", "answered", "failed"}, rows : Lists,
                              stale : SUBSET Panes, resnapshot : BOOLEAN, closed : SUBSET Panes]
<1>3. StateTyped
  <2>1. CASE OnGap
    BY <2>1 DEF OnGap, TypeOK
  <2>2. ASSUME NEW e \in Events, e.kind = "status", OnStatus(e)
        PROVE  StateTyped
    <3>1. e.pane \in Panes /\ e.n \in Changes
      BY <2>2, EventShape
    <3>2. CASE UNCHANGED <<held, outbox>>
      BY <2>2, <3>1, <3>2 DEF OnStatus, TypeOK
    <3>3. ASSUME held[e.pane] # NoRow,
                 NEW row, row = [held[e.pane] EXCEPT !.status = e.n],
                 held' = [held EXCEPT ![e.pane] = row],
                 outbox' = Append(outbox, SetMsg(e.pane, row))
          PROVE  StateTyped
      <4>1. row \in Rows
        BY <3>1, <3>3 DEF TypeOK, Lists, Rows
      <4>2. SetMsg(e.pane, row) \in Msgs
        BY <3>1, <4>1 DEF Msgs
      <4>3. held' \in Lists /\ outbox' \in Seq(Msgs)
        BY <3>1, <3>3, <4>1, <4>2 DEF TypeOK, Lists
      <4> QED BY <2>2, <3>1, <4>3 DEF OnStatus, TypeOK
    <3> QED BY <2>2, <3>2, <3>3 DEF OnStatus
  <2>3. ASSUME NEW e \in Events, e.kind = "closed", OnClosed(e)
        PROVE  StateTyped
    <3>1. e.pane \in Panes
      BY <2>3, EventShape
    <3>2. SetMsg(e.pane, NoRow) \in Msgs
      BY <3>1, RowTypes DEF Msgs
    <3>3. outbox' \in Seq(Msgs)
      BY <2>3, <3>2 DEF OnClosed, TypeOK
    <3>4. held' \in Lists
      BY <2>3, <3>1, RowTypes DEF OnClosed, TypeOK, Lists
    <3>5. /\ reading' \in [at : {"none", "out", "answered", "failed"}, rows : Lists,
                           stale : SUBSET Panes, resnapshot : BOOLEAN, closed : SUBSET Panes]
      BY <2>3, <3>1 DEF OnClosed, TypeOK
    <3> QED BY <2>3, <3>1, <3>3, <3>4, <3>5 DEF OnClosed, TypeOK
  <2> QED BY <2>1, <2>2, <2>3, BusHead DEF OnBus
<1> QED BY <1>1, <1>2, <1>3 DEF TypeOK, envVars

LEMMA LoopKeepsType ==
  ASSUME TypeOK,
         \/ Subscribe \/ Opens \/ Ends \/ Recheck \/ LoopStep
         \/ StartRead \/ ReadAnswers \/ ReadFails \/ ClientReads
  PROVE  TypeOK'
<1> USE WatchAssumption
<1>1. CASE Subscribe
  BY <1>1 DEF Subscribe, TypeOK, envVars, busVars, stateVars, clientVars
<1>2. CASE Opens
  BY <1>2 DEF Opens, TypeOK, envVars, busVars
<1>3. CASE Ends \/ Recheck
  BY <1>3, OverKeepsType DEF Ends, Recheck
<1>4. CASE Deliver
  <2>1. view' \in Lists /\ outbox' \in Seq(Msgs)
    BY <1>4, OutboxHead, AppliedIsList DEF Deliver, TypeOK
  <2>2. chan' \in 0..ChanCap
    BY <1>4 DEF Deliver, TypeOK
  <2> QED BY <1>4, <2>1, <2>2 DEF Deliver, TypeOK, envVars, busVars
<1>5. CASE StartRead
  BY <1>5, RowTypes DEF StartRead, NotReading, TypeOK, envVars, busVars, clientVars
<1>6. CASE ReadAnswers
  BY <1>6 DEF ReadAnswers, TypeOK, envVars, busVars, clientVars
<1>7. CASE ReadFails
  <2>1. failures' \in 0..MaxFailures
    BY <1>7 DEF ReadFails, TypeOK
  <2> QED BY <1>7, <2>1 DEF ReadFails, TypeOK, envVars, busVars, clientVars
<1>8. CASE ClientReads
  <2>1. chan' \in 0..ChanCap
    BY <1>8 DEF ClientReads, TypeOK
  <2> QED BY <1>8, <2>1 DEF ClientReads, TypeOK, envVars, busVars, stateVars
<1> QED BY <1>1, <1>2, <1>3, <1>4, <1>5, <1>6, <1>7, <1>8, FinishReadKeepsType, OnBusKeepsType
       DEF LoopStep

LEMMA StepType == TypeOK /\ [Next]_vars => TypeOK'
<1>1. TypeOK /\ UNCHANGED vars => TypeOK'
  BY DEF vars, envVars, busVars, stateVars, clientVars, TypeOK
<1> QED BY <1>1, EnvironmentKeepsType, LoopKeepsType DEF Next

-----------------------------------------------------------------------------
(* The outbox, and what the client is left with. *)

LEMMA StepOutbox ==
  ASSUME OnlyOpenWorks, [Next]_vars
  PROVE  OnlyOpenWorks'
<1>1. CASE UNCHANGED <<stream, outbox, reading>>
  BY <1>1 DEF OnlyOpenWorks
<1>2. CASE stream = "open" /\ UNCHANGED stream
  BY <1>2 DEF OnlyOpenWorks
<1>3. CASE Subscribe \/ Opens
  BY <1>3 DEF Subscribe, Opens, OnlyOpenWorks, stateVars
<1>4. ASSUME NEW how, Over(how)
      PROVE  OnlyOpenWorks'
  BY <1>4 DEF Over, OnlyOpenWorks, NotReading
<1>5. ASSUME NEW p \in Panes, AgentMoves(p) \/ PaneCloses(p)
      PROVE  OnlyOpenWorks'
  BY <1>1, <1>5 DEF AgentMoves, PaneCloses, Changed, stateVars
<1>6. CASE PublishSome \/ Outage \/ Revoke \/ ClientReads \/ UNCHANGED vars
  BY <1>1, <1>6 DEF PublishSome, Publish, Outage, Revoke, ClientReads, vars, stateVars
<1>7. CASE LoopStep \/ StartRead
  BY <1>2, <1>7 DEF LoopStep, Deliver, FinishRead, OnBus, StartRead, Polling
<1>8. CASE ReadAnswers \/ ReadFails
  BY <1>2, <1>8 DEF ReadAnswers, ReadFails, OnlyOpenWorks
<1> QED BY <1>8, <1>3, <1>4, <1>5, <1>6, <1>7 DEF Next, Ends, Recheck

LEMMA DeliverKeepsHeld ==
  ASSUME TypeOK, HeldIsTheClients, Deliver
  PROVE  HeldIsTheClients'
<1>1. stream = "open" /\ outbox # <<>> /\ outbox \in Seq(Msgs) /\ view \in Lists
      /\ UNCHANGED <<stream, held>>
      /\ view' = Applied(view, Head(outbox)) /\ outbox' = Tail(outbox)
  BY DEF Deliver, TypeOK
<1>2. \A p \in Panes : LeavesRow(view, outbox, p, held[p])
  BY <1>1 DEF HeldIsTheClients
<1>3. \A p \in Panes : LeavesRow(view', outbox', p, held'[p])
  BY <1>1, <1>2, LeavesDelivered
<1> QED BY <1>3 DEF HeldIsTheClients

LEMMA FinishReadKeepsHeld ==
  ASSUME TypeOK, HeldIsTheClients, FinishRead
  PROVE  HeldIsTheClients'
<1> DEFINE list == Retained(reading.rows, reading.closed)
           next == IF reading.resnapshot THEN list ELSE Reconciled(list, stale)
<1>1. list \in Lists /\ next \in Lists
  BY ReadRows
<1>2. stream = "open" /\ outbox = <<>> /\ view \in Lists /\ held \in Lists
      /\ UNCHANGED <<stream, view>>
  BY DEF FinishRead, Polling, TypeOK, clientVars
<1>3. \A p \in Panes : view[p] = held[p]
  BY <1>2, LeavesNothing DEF HeldIsTheClients
<1>4. CASE reading.at = "failed"
  <2>1. UNCHANGED <<held, outbox>>
    BY <1>4 DEF FinishRead
  <2> QED BY <1>2, <2>1 DEF HeldIsTheClients
<1>5. CASE reading.at # "failed" /\ reading.resnapshot
  <2>1. held' = list /\ outbox' = <<SnapshotMsg(list)>>
    BY <1>5 DEF FinishRead
  <2> HIDE DEF list
  <2>2. \A p \in Panes : LeavesRow(view, <<SnapshotMsg(list)>>, p, list[p])
    BY <1>1, SnapshotLeaves
  <2> QED BY <1>2, <2>1, <2>2 DEF HeldIsTheClients
<1>6. CASE reading.at # "failed" /\ ~reading.resnapshot
  <2>1. held' = next /\ outbox' = Deltas(next)
    BY <1>6 DEF FinishRead
  <2> HIDE DEF next
  <2>2. \A p \in Panes : LeavesRow(view, Deltas(next), p, next[p])
    BY <1>1, <1>2, <1>3, DeltasLeaveNext
  <2> QED BY <1>2, <2>1, <2>2 DEF HeldIsTheClients
<1> QED BY <1>4, <1>5, <1>6

(* A set of a row is appended when that row of held changes. *)
LEMMA SetKeepsHeld ==
  ASSUME TypeOK, HeldIsTheClients, stream = "open", UNCHANGED <<stream, view>>,
         NEW p \in Panes, NEW row \in Rows,
         held' = [held EXCEPT ![p] = row],
         \/ outbox' = Append(outbox, SetMsg(p, row))
         \/ outbox' = outbox /\ held[p] = row
  PROVE  HeldIsTheClients'
<1>1. view \in Lists /\ held \in Lists /\ outbox \in Seq(Msgs)
  BY DEF TypeOK
<1>2. \A q \in Panes : LeavesRow(view, outbox, q, held[q])
  BY DEF HeldIsTheClients
<1>3. held'[p] = row /\ \A q \in Panes \ {p} : held'[q] = held[q]
  BY <1>1 DEF Lists
<1>4. CASE outbox' = outbox /\ held[p] = row
  BY <1>2, <1>3, <1>4 DEF HeldIsTheClients
<1>5. CASE outbox' = Append(outbox, SetMsg(p, row))
  <2> DEFINE m == SetMsg(p, row)
  <2>1. m \in Msgs /\ About(m, p) /\ \A q \in Panes \ {p} : ~About(m, q)
    BY DEF Msgs, About, SetMsg
  <2>2. Applied(view, m)[p] = row
    BY <1>1 DEF Applied, SetMsg, Lists
  <2> HIDE DEF m
  <2>3. \A q \in Panes : LeavesRow(view, Append(outbox, m), q,
                                   IF About(m, q) THEN Applied(view, m)[q] ELSE held[q])
    BY <1>1, <1>2, <2>1, LeavesAppended
  <2>4. \A q \in Panes : LeavesRow(view, Append(outbox, m), q, held'[q])
    <3> SUFFICES ASSUME NEW q \in Panes PROVE LeavesRow(view, Append(outbox, m), q, held'[q])
      OBVIOUS
    <3>1. CASE q = p
      BY <1>3, <2>1, <2>2, <2>3, <3>1
    <3>2. CASE q # p
      BY <1>3, <2>1, <2>3, <3>2
    <3> QED BY <3>1, <3>2
  <2> QED BY <1>5, <2>4 DEF HeldIsTheClients, m
<1> QED BY <1>4, <1>5

LEMMA OnBusKeepsHeld ==
  ASSUME TypeOK, HeldIsTheClients, OnBus
  PROVE  HeldIsTheClients'
<1>1. stream = "open" /\ UNCHANGED <<stream, view>>
  BY DEF OnBus, Polling
<1>2. CASE UNCHANGED <<held, outbox>>
  BY <1>1, <1>2 DEF HeldIsTheClients
<1>3. CASE OnGap
  BY <1>2, <1>3 DEF OnGap
<1>4. ASSUME NEW e \in Events, e.kind = "status", OnStatus(e), ~UNCHANGED <<held, outbox>>
      PROVE  HeldIsTheClients'
  <2>1. e.pane \in Panes /\ e.n \in Changes
    BY <1>4, EventShape
  <2>2. [held[e.pane] EXCEPT !.status = e.n] \in Rows
    <3>1. held[e.pane] # NoRow
      BY <1>4 DEF OnStatus
    <3>2. held[e.pane] \in [status : Changes, rest : Changes]
      BY <2>1, <3>1 DEF TypeOK, Lists, Rows
    <3> QED BY <2>1, <3>2 DEF Rows
  <2> QED BY <1>1, <1>4, <2>1, <2>2, SetKeepsHeld DEF OnStatus
<1>5. ASSUME NEW e \in Events, e.kind = "closed", OnClosed(e)
      PROVE  HeldIsTheClients'
  <2>1. e.pane \in Panes
    BY <1>5, EventShape
  <2> QED BY <1>1, <1>5, <2>1, SetKeepsHeld, RowTypes DEF OnClosed
<1> QED BY <1>2, <1>3, <1>4, <1>5, BusHead DEF OnBus

LEMMA StepHeld ==
  ASSUME TypeOK, OnlyOpenWorks, HeldIsTheClients, [Next]_vars
  PROVE  HeldIsTheClients'
<1>1. CASE UNCHANGED <<stream, held, outbox, view>>
  BY <1>1 DEF HeldIsTheClients
<1>2. CASE stream' # "open"
  BY <1>2 DEF HeldIsTheClients
<1>3. ASSUME NEW how \in {"ended", "unauthenticated"}, Over(how)
      PROVE  HeldIsTheClients'
  BY <1>2, <1>3 DEF Over
<1>4. CASE Opens
  <2>1. held' = agents /\ view' = agents /\ outbox' = <<>>
    BY <1>4 DEF Opens, OnlyOpenWorks
  <2>2. \A p \in Panes : LeavesRow(agents, <<>>, p, agents[p])
    BY LeavesNothing
  <2> QED BY <2>1, <2>2 DEF HeldIsTheClients
<1>5. ASSUME NEW p \in Panes, AgentMoves(p) \/ PaneCloses(p)
      PROVE  HeldIsTheClients'
  BY <1>1, <1>5 DEF AgentMoves, PaneCloses, Changed, stateVars, clientVars
<1>6. CASE \/ PublishSome \/ Outage \/ Revoke \/ StartRead \/ ReadAnswers \/ ReadFails
           \/ ClientReads \/ UNCHANGED vars
  BY <1>1, <1>6 DEF PublishSome, Publish, Outage, Revoke, StartRead, ReadAnswers, ReadFails,
     ClientReads, vars, stateVars, clientVars
<1>7. CASE Subscribe
  BY <1>2, <1>7 DEF Subscribe
<1>8. CASE LoopStep
  BY <1>8, DeliverKeepsHeld, FinishReadKeepsHeld, OnBusKeepsHeld DEF LoopStep
<1> QED BY <1>3, <1>4, <1>5, <1>6, <1>7, <1>8 DEF Next, Ends, Recheck

-----------------------------------------------------------------------------
(* Closed panes. *)

LEMMA EnvironmentKeepsGone ==
  ASSUME TypeOK, ClosedGone,
         \/ \E p \in Panes : AgentMoves(p) \/ PaneCloses(p)
         \/ PublishSome \/ Outage \/ Revoke
  PROVE  ClosedGone'
<1>1. agents \in Lists /\ bus \in Seq(Events) /\ toldGone' = toldGone
  BY DEF TypeOK, AgentMoves, PaneCloses, Changed, PublishSome, Publish, Outage, Revoke, clientVars
<1>2. ASSUME NEW p \in Panes, AgentMoves(p)
      PROVE  ClosedGone'
  <2>1. PICK row : Changed(p, row, StatusChanged(p, changes + 1))
    BY <1>2 DEF AgentMoves
  <2>2. p \in open /\ open' = open
    BY <1>2 DEF AgentMoves
  <2> QED BY <1>1, <2>1, <2>2 DEF Changed, ClosedGone, StatusChanged, Lists, busVars
<1>3. ASSUME NEW p \in Panes, PaneCloses(p)
      PROVE  ClosedGone'
  <2>1. open' = open \ {p} /\ Changed(p, NoRow, PaneClosed(p))
    BY <1>3 DEF PaneCloses
  <2> QED BY <1>1, <2>1 DEF Changed, ClosedGone, PaneClosed, Lists, busVars
<1>4. ASSUME NEW e \in owed, Publish(e)
      PROVE  ClosedGone'
  <2>1. e.kind = "closed" => e.pane \notin open
    BY DEF ClosedGone
  <2>2. \A i \in DOMAIN bus' : bus'[i] = e \/ \E j \in DOMAIN bus : bus'[i] = bus[j]
    <3>1. CASE bus' = bus
      BY <3>1
    <3>2. CASE bus' = Append(bus, e)
      BY <1>1, <3>2
    <3>3. CASE bus # <<>> /\ bus' = Append(Tail(bus), e)
      BY <1>1, <3>3
    <3>4. ~(Len(bus) < BusCap) => bus # <<>>
      BY WatchAssumption
    <3> QED BY <1>4, <3>1, <3>2, <3>3, <3>4 DEF Publish, busVars
  <2>3. \A i \in DOMAIN bus' : bus'[i].kind = "closed" => bus'[i].pane \notin open
    BY <2>1, <2>2 DEF ClosedGone
  <2> QED BY <1>1, <1>4, <2>3 DEF Publish, ClosedGone
<1>5. CASE Outage
  BY <1>1, <1>5 DEF Outage, ClosedGone, Resynced, busVars
<1>6. CASE Revoke
  BY <1>1, <1>6 DEF Revoke, ClosedGone, envVars, busVars
<1> QED BY <1>2, <1>3, <1>4, <1>5, <1>6 DEF PublishSome

LEMMA StepGone ==
  ASSUME TypeOK, ClosedGone, [Next]_vars
  PROVE  ClosedGone'
<1>1. CASE UNCHANGED <<envVars, bus, toldGone>>
  BY <1>1 DEF ClosedGone, envVars
<1>2. ASSUME NEW how, Over(how)
      PROVE  ClosedGone'
  <2>1. DOMAIN bus' = {}
    BY <1>2 DEF Over
  <2> QED BY <1>2, <2>1 DEF Over, ClosedGone, envVars
<1>3. CASE \/ Subscribe \/ Opens \/ Deliver \/ FinishRead \/ StartRead \/ ReadAnswers \/ ReadFails
           \/ ClientReads \/ UNCHANGED vars
  BY <1>1, <1>3 DEF Subscribe, Opens, Deliver, FinishRead, StartRead, ReadAnswers, ReadFails,
     ClientReads, vars, busVars, clientVars
<1>4. CASE OnBus
  <2>1. UNCHANGED envVars
    BY <1>4 DEF OnBus
  <2>2. \A i \in DOMAIN bus' : bus'[i].kind = "closed" => bus'[i].pane \notin open
    BY <1>4, BusHead DEF OnBus, ClosedGone
  <2>3. \A p \in toldGone' : p \notin open
    BY <1>4, BusHead DEF OnBus, OnGap, OnStatus, OnClosed, ClosedGone
  <2> QED BY <2>1, <2>2, <2>3 DEF ClosedGone, envVars
<1> QED BY <1>2, <1>3, <1>4, EnvironmentKeepsGone DEF Next, Ends, Recheck, LoopStep

LEMMA StepReadKnows ==
  ASSUME TypeOK, ClosedGone, ReadKnowsClosed, [Next]_vars
  PROVE  ReadKnowsClosed'
<1>1. CASE UNCHANGED <<reading, toldGone>>
  BY <1>1 DEF ReadKnowsClosed
<1>2. CASE reading'.at # "answered"
  BY <1>2 DEF ReadKnowsClosed
<1>3. ASSUME NEW how, Over(how)
      PROVE  ReadKnowsClosed'
  BY <1>2, <1>3 DEF Over, NotReading
<1>4. CASE StartRead \/ ReadFails \/ FinishRead
  <2>1. CASE StartRead
    BY <1>2, <2>1 DEF StartRead, NotReading
  <2>2. CASE ReadFails
    <3>1. reading'.at = "failed"
      BY <2>2 DEF ReadFails, TypeOK
    <3> QED BY <1>2, <3>1
  <2>3. CASE FinishRead
    BY <1>2, <2>3 DEF FinishRead, NotReading
  <2> QED BY <1>4, <2>1, <2>2, <2>3
<1>5. CASE ReadAnswers
  <2>1. toldGone' = toldGone /\ reading'.rows = agents
    BY <1>5 DEF ReadAnswers, TypeOK, clientVars
  <2>2. \A p \in toldGone : agents[p] = NoRow
    BY DEF ClosedGone, TypeOK
  <2> QED BY <2>1, <2>2 DEF ReadKnowsClosed
<1>6. CASE OnBus
  <2>1. CASE OnGap
    BY <1>1, <2>1 DEF OnGap
  <2>2. ASSUME NEW e, OnStatus(e)
        PROVE  ReadKnowsClosed'
    BY <1>1, <2>2 DEF OnStatus
  <2>3. ASSUME NEW e, OnClosed(e)
        PROVE  ReadKnowsClosed'
    BY <2>3 DEF OnClosed, ReadKnowsClosed, TypeOK
  <2> QED BY <1>6, <2>1, <2>2, <2>3 DEF OnBus
<1>7. CASE \/ Subscribe \/ Opens \/ Deliver \/ ClientReads \/ UNCHANGED vars
  BY <1>1, <1>7 DEF Subscribe, Opens, Deliver, ClientReads, vars, stateVars, clientVars
<1>8. ASSUME NEW p \in Panes, AgentMoves(p) \/ PaneCloses(p)
      PROVE  ReadKnowsClosed'
  BY <1>1, <1>8 DEF AgentMoves, PaneCloses, Changed, stateVars, clientVars
<1>9. CASE PublishSome \/ Outage \/ Revoke
  BY <1>1, <1>9 DEF PublishSome, Publish, Outage, Revoke, stateVars, clientVars
<1> QED BY <1>3, <1>4, <1>5, <1>6, <1>7, <1>8, <1>9 DEF Next, Ends, Recheck, LoopStep

LEMMA StepStaysGone ==
  ASSUME TypeOK, ClosedGone, ReadKnowsClosed, ClosedStaysGone, [Next]_vars
  PROVE  ClosedStaysGone'
<1>1. CASE UNCHANGED <<held, toldGone>>
  BY <1>1 DEF ClosedStaysGone
<1>2. ASSUME NEW how, Over(how)
      PROVE  ClosedStaysGone'
  BY <1>2 DEF Over, ClosedStaysGone
<1>3. CASE Opens
  BY <1>3 DEF Opens, ClosedStaysGone, ClosedGone, TypeOK
<1>4. CASE FinishRead
  <2> DEFINE list == Retained(reading.rows, reading.closed)
             next == IF reading.resnapshot THEN list ELSE Reconciled(list, stale)
  <2>1. toldGone' = toldGone /\ toldGone \in SUBSET Panes
    BY <1>4 DEF FinishRead, clientVars, TypeOK
  <2>2. CASE reading.at = "failed"
    BY <1>1, <1>4, <2>1, <2>2 DEF FinishRead
  <2>3. CASE reading.at = "answered"
    <3>1. held' = next
      BY <1>4, <2>3 DEF FinishRead
    <3>2. \A p \in toldGone : list[p] = NoRow
      BY <2>1, <2>3 DEF ReadKnowsClosed, Retained
    <3> HIDE DEF list
    <3>3. \A p \in toldGone : next[p] = NoRow
      BY <2>1, <3>2 DEF Reconciled, ClosedStaysGone
    <3> QED BY <2>1, <3>1, <3>3 DEF ClosedStaysGone
  <2> QED BY <1>4, <2>2, <2>3 DEF FinishRead
<1>5. CASE OnBus
  <2>1. CASE OnGap
    BY <1>1, <2>1 DEF OnGap
  <2>2. ASSUME NEW e \in Events, OnStatus(e)
        PROVE  ClosedStaysGone'
    <3>1. toldGone' = toldGone /\ \A p \in Panes : held[p] = NoRow => held'[p] = NoRow
      BY <2>2 DEF OnStatus, TypeOK, Lists
    <3> QED BY <3>1 DEF ClosedStaysGone, TypeOK
  <2>3. ASSUME NEW e \in Events, e.kind = "closed", OnClosed(e)
        PROVE  ClosedStaysGone'
    <3>1. e.pane \in Panes
      BY <2>3, EventShape
    <3> QED BY <2>3, <3>1 DEF OnClosed, ClosedStaysGone, TypeOK, Lists
  <2> QED BY <1>5, <2>1, <2>2, <2>3, BusHead DEF OnBus
<1>6. CASE \/ Subscribe \/ Deliver \/ StartRead \/ ReadAnswers \/ ReadFails
           \/ ClientReads \/ UNCHANGED vars
  BY <1>1, <1>6 DEF Subscribe, Deliver, StartRead, ReadAnswers, ReadFails, ClientReads,
     vars, stateVars, clientVars
<1>7. ASSUME NEW p \in Panes, AgentMoves(p) \/ PaneCloses(p)
      PROVE  ClosedStaysGone'
  BY <1>1, <1>7 DEF AgentMoves, PaneCloses, Changed, stateVars, clientVars
<1>8. CASE PublishSome \/ Outage \/ Revoke
  BY <1>1, <1>8 DEF PublishSome, Publish, Outage, Revoke, stateVars, clientVars
<1> QED BY <1>2, <1>3, <1>4, <1>5, <1>6, <1>7, <1>8 DEF Next, Ends, Recheck, LoopStep

-----------------------------------------------------------------------------
(* Drift: what is left to put a row right. *)

LEMMA StepReadClosedGone ==
  ASSUME TypeOK, ClosedGone, ReadClosedGone, [Next]_vars
  PROVE  ReadClosedGone'
<1>1. CASE UNCHANGED <<reading, open>>
  BY <1>1 DEF ReadClosedGone
<1>2. CASE reading' = NotReading
  BY <1>2 DEF ReadClosedGone, NotReading
<1>3. CASE StartRead \/ ReadAnswers \/ ReadFails
  <2>1. open' = open /\ reading'.closed \subseteq reading.closed
    BY <1>3 DEF StartRead, ReadAnswers, ReadFails, NotReading, envVars, TypeOK
  <2> QED BY <2>1 DEF ReadClosedGone
<1>4. ASSUME NEW p \in Panes, AgentMoves(p) \/ PaneCloses(p)
      PROVE  ReadClosedGone'
  <2>1. reading' = reading /\ open' \subseteq open
    BY <1>4 DEF AgentMoves, PaneCloses, Changed, stateVars
  <2> QED BY <2>1 DEF ReadClosedGone
<1>5. CASE OnBus
  <2>1. open' = open
    BY <1>5 DEF OnBus, envVars
  <2>2. ASSUME NEW e, e.pane \notin open, OnClosed(e)
        PROVE  ReadClosedGone'
    <3>1. reading'.closed \subseteq reading.closed \cup {e.pane}
      BY <2>2 DEF OnClosed, TypeOK
    <3> QED BY <2>1, <2>2, <3>1 DEF ReadClosedGone
  <2>3. Head(bus).kind = "closed" /\ bus # <<>> => Head(bus).pane \notin open
    BY BusHead DEF ClosedGone
  <2> QED BY <1>1, <1>5, <2>1, <2>2, <2>3 DEF OnBus, OnGap, OnStatus
<1>6. CASE PublishSome \/ Outage \/ Revoke
  BY <1>1, <1>6 DEF PublishSome, Publish, Outage, Revoke, stateVars, envVars
<1>7. CASE \/ Subscribe \/ Opens \/ Deliver \/ ClientReads \/ UNCHANGED vars
  BY <1>1, <1>7 DEF Subscribe, Opens, Deliver, ClientReads, vars, stateVars, envVars
<1>8. CASE FinishRead \/ Ends \/ Recheck
  BY <1>2, <1>8 DEF FinishRead, Ends, Recheck, Over
<1> QED BY <1>3, <1>4, <1>5, <1>6, <1>7, <1>8 DEF Next, LoopStep

(* The event that is published is in the bus, and one it displaces is told *)
(* of by the lag.                                                          *)
LEMMA PublishKeepsOwed ==
  ASSUME TypeOK, stream = "open", NEW e \in owed, Publish(e), NEW p \in Panes, ReadOwed(p)
  PROVE  ReadOwed(p)'
<1>1. bus \in Seq(Events) /\ owed' = owed \ {e} /\ UNCHANGED <<stale, resnapshot>>
  BY DEF TypeOK, Publish, stateVars
<1>2. CASE Len(bus) < BusCap
  <2>1. bus' = Append(bus, e) /\ lagged' = lagged
    BY <1>2 DEF Publish
  <2>2. /\ Len(bus) + 1 \in DOMAIN bus' /\ bus'[Len(bus) + 1] = e
        /\ \A i \in DOMAIN bus : i \in DOMAIN bus' /\ bus'[i] = bus[i]
    BY <1>1, <2>1
  <2> QED BY <1>1, <2>1, <2>2 DEF ReadOwed
<1>3. CASE ~(Len(bus) < BusCap)
  BY <1>3 DEF Publish, ReadOwed
<1> QED BY <1>2, <1>3

(* An event taken from the bus leaves everything it does not concern. *)
LEMMA TailKeepsOwed ==
  ASSUME TypeOK, bus # <<>>, NEW p \in Panes, bus' = Tail(bus), ~Concerns(Head(bus), p),
         UNCHANGED <<owed, lagged, resnapshot>>, p \in stale => p \in stale',
         ReadOwed(p)
  PROVE  ReadOwed(p)'
<1>1. ASSUME NEW i \in DOMAIN bus, Concerns(bus[i], p)
      PROVE  \E j \in DOMAIN bus' : Concerns(bus'[j], p)
  <2>1. bus \in Seq(Events) /\ Head(bus) = bus[1]
    BY BusHead DEF TypeOK
  <2>2. i # 1
    BY <1>1, <2>1
  <2>3. i - 1 \in DOMAIN bus' /\ bus'[i - 1] = bus[i]
    BY <1>1, <2>1, <2>2
  <2> QED BY <1>1, <2>3
<1> QED BY <1>1 DEF ReadOwed

(* What the drift of a pane's row is held to, whoever moves. *)
Answered(p) == reading.at = "answered" => AnswerHas(p) \/ ReadOwed(p)
Held(p)     == held[p] # agents[p] => ReadOwed(p) \/ ReadUnderWay(p)

LEMMA EnvironmentKeepsDrift ==
  ASSUME TypeOK, stream = "open", NEW p \in Panes, Answered(p), Held(p),
         \/ \E q \in Panes : AgentMoves(q) \/ PaneCloses(q)
         \/ PublishSome \/ Outage
  PROVE  Answered(p)' /\ Held(p)'
<1>1. UNCHANGED stateVars
  BY DEF AgentMoves, PaneCloses, Changed, PublishSome, Publish, Outage
<1>2. CASE ReadOwed(p)'
  BY <1>2 DEF Answered, Held
<1>3. CASE agents'[p] = agents[p] /\ (ReadOwed(p) => ReadOwed(p)')
  <2>1. (AnswerHas(p) => AnswerHas(p)') /\ (ReadUnderWay(p) => ReadUnderWay(p)')
    BY <1>1, <1>3 DEF AnswerHas, ReadUnderWay, stateVars, Retained
  <2> QED BY <1>1, <1>3, <2>1 DEF Answered, Held, stateVars
<1>4. ASSUME NEW q \in Panes, NEW row, NEW e, Changed(q, row, e), Concerns(e, q)
      PROVE  Answered(p)' /\ Held(p)'
  <2>1. /\ agents' = [agents EXCEPT ![q] = row] /\ owed' = owed \cup {e}
        /\ UNCHANGED <<bus, lagged, stale, resnapshot>>
    BY <1>4 DEF Changed, busVars, stateVars
  <2>2. CASE p = q
    BY <1>2, <1>4, <2>1, <2>2 DEF ReadOwed
  <2>3. CASE p # q
    <3>1. agents'[p] = agents[p]
      BY <2>1, <2>3 DEF TypeOK, Lists
    <3>2. ReadOwed(p) => ReadOwed(p)'
      BY <2>1 DEF ReadOwed
    <3> QED BY <1>3, <3>1, <3>2
  <2> QED BY <2>2, <2>3
<1>5. ASSUME NEW q \in Panes, AgentMoves(q) \/ PaneCloses(q)
      PROVE  Answered(p)' /\ Held(p)'
  <2>1. PICK row, e : Changed(q, row, e) /\ e \in {StatusChanged(q, changes + 1), PaneClosed(q)}
    BY <1>5 DEF AgentMoves, PaneCloses
  <2> QED BY <1>4, <2>1 DEF Concerns, StatusChanged, PaneClosed
<1>6. CASE PublishSome
  <2>1. agents' = agents
    BY <1>6 DEF PublishSome, Publish
  <2> QED BY <1>3, <1>6, <2>1, PublishKeepsOwed DEF PublishSome
<1>7. CASE Outage
  <2>1. Resynced \in owed'
    BY <1>7 DEF Outage
  <2> QED BY <1>2, <2>1 DEF ReadOwed, Concerns, Resynced
<1> QED BY <1>5, <1>6, <1>7

LEMMA ReadingKeepsDrift ==
  ASSUME TypeOK, ClosedGone, ReadClosedGone, NEW p \in Panes, Answered(p), Held(p),
         StartRead \/ ReadAnswers \/ ReadFails
  PROVE  Answered(p)' /\ Held(p)'
<1>1. UNCHANGED <<agents, owed, bus, lagged, held>>
  BY DEF StartRead, ReadAnswers, ReadFails, envVars, busVars
<1>2. CASE StartRead
  <2>1. /\ reading'.at = "out" /\ reading'.stale = stale /\ reading'.resnapshot = resnapshot
        /\ stale' = {} /\ ~resnapshot' /\ reading.at = "none"
    BY <1>2 DEF StartRead, NotReading
  <2>2. ~ReadUnderWay(p)
    BY <2>1 DEF ReadUnderWay
  <2>3. ReadOwed(p) => ReadOwed(p)' \/ ReadUnderWay(p)'
    BY <1>1, <2>1 DEF ReadOwed, ReadUnderWay
  <2> QED BY <1>1, <2>1, <2>2, <2>3 DEF Answered, Held
<1>3. CASE ReadAnswers
  <2>1. reading'.at = "answered" /\ reading'.rows = agents /\ reading'.closed = reading.closed
    BY <1>3 DEF ReadAnswers, TypeOK
  <2>2. p \in reading.closed => agents[p] = NoRow
    BY DEF ReadClosedGone, ClosedGone
  <2>3. AnswerHas(p)'
    BY <1>1, <2>1, <2>2 DEF AnswerHas, Retained
  <2> QED BY <2>1, <2>3 DEF Answered, Held, ReadUnderWay
<1>4. CASE ReadFails
  <2>1. /\ reading'.at = "failed" /\ reading'.stale = reading.stale
        /\ reading'.resnapshot = reading.resnapshot /\ reading.at = "out"
        /\ UNCHANGED <<stale, resnapshot>>
    BY <1>4 DEF ReadFails, TypeOK
  <2>2. (ReadUnderWay(p) => ReadUnderWay(p)') /\ (ReadOwed(p) => ReadOwed(p)')
    BY <1>1, <2>1 DEF ReadUnderWay, ReadOwed
  <2> QED BY <1>1, <2>1, <2>2 DEF Answered, Held
<1> QED BY <1>2, <1>3, <1>4

(* The rows of the answer are taken, but for those marked since; the marks *)
(* of a read that failed come back.                                        *)
LEMMA FinishReadKeepsDrift ==
  ASSUME TypeOK, NEW p \in Panes, Answered(p), Held(p), FinishRead
  PROVE  Answered(p)' /\ Held(p)'
<1> DEFINE list == Retained(reading.rows, reading.closed)
           next == IF reading.resnapshot THEN list ELSE Reconciled(list, stale)
<1>1. UNCHANGED <<agents, owed, bus, lagged>> /\ reading'.at = "none"
  BY DEF FinishRead, NotReading, envVars, busVars
<1>2. CASE reading.at = "failed"
  <2>1. /\ stale' = stale \cup reading.stale /\ resnapshot' = (resnapshot \/ reading.resnapshot)
        /\ held' = held
    BY <1>2 DEF FinishRead
  <2>2. ReadOwed(p) \/ ReadUnderWay(p) => ReadOwed(p)'
    BY <1>1, <1>2, <2>1 DEF ReadOwed, ReadUnderWay, TypeOK
  <2> QED BY <1>1, <2>1, <2>2 DEF Answered, Held
<1>3. CASE reading.at = "answered"
  <2>1. held' = next /\ UNCHANGED <<stale, resnapshot>>
    BY <1>3 DEF FinishRead
  <2>2. ReadOwed(p) <=> ReadOwed(p)'
    BY <1>1, <2>1 DEF ReadOwed
  <2>3. p \in stale => ReadOwed(p)
    BY DEF ReadOwed
  <2>4. p \notin stale => next[p] = list[p]
    BY DEF Reconciled
  <2>5. AnswerHas(p) <=> list[p] = agents[p]
    BY DEF AnswerHas
  <2> HIDE DEF list, next
  <2> QED BY <1>1, <1>3, <2>1, <2>2, <2>3, <2>4, <2>5 DEF Answered, Held
<1> QED BY <1>2, <1>3 DEF FinishRead

LEMMA OnBusKeepsDrift ==
  ASSUME TypeOK, ClosedGone, NEW p \in Panes, Answered(p), Held(p), OnBus
  PROVE  Answered(p)' /\ Held(p)'
<1>1. UNCHANGED <<agents, owed>>
  BY DEF OnBus, envVars
<1>2. CASE ReadOwed(p)'
  BY <1>2 DEF Answered, Held
<1>3. CASE OnGap
  BY <1>2, <1>3 DEF OnGap, ReadOwed
<1>4. ASSUME NEW e \in Events, bus # <<>>, e = Head(bus), bus' = Tail(bus), lagged' = lagged,
             e.kind = "status", OnStatus(e)
      PROVE  Answered(p)' /\ Held(p)'
  <2>1. stale' = stale \cup {e.pane} /\ UNCHANGED <<resnapshot, reading>>
    BY <1>4 DEF OnStatus
  <2>2. CASE p = e.pane
    BY <1>2, <2>1, <2>2 DEF ReadOwed
  <2>3. CASE p # e.pane
    <3>1. held'[p] = held[p]
      BY <1>4, <2>3 DEF OnStatus, TypeOK, Lists
    <3>2. ReadOwed(p) => ReadOwed(p)'
      BY <1>1, <1>4, <2>1, <2>3, TailKeepsOwed DEF Concerns
    <3>3. (AnswerHas(p) => AnswerHas(p)') /\ (ReadUnderWay(p) => ReadUnderWay(p)')
      BY <1>1, <2>1 DEF AnswerHas, ReadUnderWay
    <3> QED BY <1>1, <2>1, <3>1, <3>2, <3>3 DEF Answered, Held
  <2> QED BY <2>2, <2>3
<1>5. ASSUME NEW e \in Events, bus # <<>>, e = Head(bus), bus' = Tail(bus), lagged' = lagged,
             e.kind = "closed", e.pane \notin open, OnClosed(e)
      PROVE  Answered(p)' /\ Held(p)'
  <2>1. e.pane \in Panes /\ stale' = stale \ {e.pane} /\ resnapshot' = resnapshot
    BY <1>5, EventShape DEF OnClosed
  <2>2. /\ reading'.at = reading.at /\ reading'.rows = reading.rows
        /\ reading'.stale = reading.stale /\ reading'.resnapshot = reading.resnapshot
        /\ reading'.closed \subseteq reading.closed \cup {e.pane}
        /\ reading.closed \subseteq reading'.closed
        /\ reading.at # "none" => e.pane \in reading'.closed
    BY <1>5 DEF OnClosed, TypeOK
  <2>3. CASE p = e.pane
    <3>1. agents[p] = NoRow /\ held'[p] = NoRow
      BY <1>5, <2>1, <2>3 DEF OnClosed, ClosedGone, TypeOK, Lists
    <3>2. reading'.at = "answered" => AnswerHas(p)'
      BY <1>1, <2>2, <2>3, <3>1 DEF AnswerHas, Retained
    <3> QED BY <1>1, <3>1, <3>2 DEF Answered, Held
  <2>4. CASE p # e.pane
    <3>1. held'[p] = held[p]
      BY <1>5, <2>1, <2>4 DEF OnClosed, TypeOK, Lists
    <3>2. ReadOwed(p) => ReadOwed(p)'
      BY <1>1, <1>5, <2>1, <2>4, TailKeepsOwed DEF Concerns
    <3>3. AnswerHas(p) => AnswerHas(p)'
      BY <1>1, <2>2, <2>4 DEF AnswerHas, Retained
    <3>4. ReadUnderWay(p) => ReadUnderWay(p)'
      BY <2>2, <3>3 DEF ReadUnderWay
    <3> QED BY <1>1, <2>2, <3>1, <3>2, <3>3, <3>4 DEF Answered, Held
  <2> QED BY <2>3, <2>4
<1>6. bus # <<>> => Head(bus) \in Events
                    /\ (Head(bus).kind = "closed" => Head(bus).pane \notin open)
  BY BusHead DEF ClosedGone
<1> QED BY <1>3, <1>4, <1>5, <1>6 DEF OnBus

LEMMA StepDrift ==
  ASSUME TypeOK, OnlyOpenWorks, ClosedGone, ReadClosedGone, AnswerIsOwed, DriftIsOwed, [Next]_vars
  PROVE  AnswerIsOwed' /\ DriftIsOwed'
<1>1. CASE stream' # "open"
  BY <1>1 DEF AnswerIsOwed, DriftIsOwed
<1>2. CASE Opens
  <2>1. reading'.at = "none" /\ held' = agents /\ agents' = agents
    BY <1>2 DEF Opens, OnlyOpenWorks, envVars
  <2> QED BY <2>1 DEF AnswerIsOwed, DriftIsOwed
<1>3. CASE stream = "open" /\ \A p \in Panes : Answered(p)' /\ Held(p)'
  BY <1>3 DEF AnswerIsOwed, DriftIsOwed, Answered, Held
<1>4. stream = "open" => \A p \in Panes : Answered(p) /\ Held(p)
  BY DEF AnswerIsOwed, DriftIsOwed, Answered, Held
<1>5. CASE UNCHANGED <<agents, owed, busVars, stream, held, stale, resnapshot, reading>>
  <2>1. \A p \in Panes : /\ ReadOwed(p)' <=> ReadOwed(p)
                         /\ AnswerHas(p)' <=> AnswerHas(p)
                         /\ ReadUnderWay(p)' <=> ReadUnderWay(p)
    BY <1>5 DEF ReadOwed, AnswerHas, ReadUnderWay, busVars
  <2> QED BY <1>5, <2>1 DEF AnswerIsOwed, DriftIsOwed
<1>6. CASE stream = "open" /\ (\/ \E q \in Panes : AgentMoves(q) \/ PaneCloses(q)
                               \/ PublishSome \/ Outage)
  <2>1. \A p \in Panes : Answered(p)' /\ Held(p)'
    BY <1>4, <1>6, EnvironmentKeepsDrift
  <2> QED BY <1>3, <1>6, <2>1
<1>7. CASE stream = "open" /\ (StartRead \/ ReadAnswers \/ ReadFails \/ FinishRead \/ OnBus)
  <2>1. \A p \in Panes : Answered(p)' /\ Held(p)'
    BY <1>4, <1>7, ReadingKeepsDrift, FinishReadKeepsDrift, OnBusKeepsDrift
  <2> QED BY <1>3, <1>7, <2>1
<1>8. CASE Revoke \/ Deliver \/ ClientReads \/ UNCHANGED vars
  BY <1>5, <1>8 DEF Revoke, Deliver, ClientReads, vars, envVars, stateVars
<1>9. CASE Subscribe \/ Ends \/ Recheck
  BY <1>1, <1>9 DEF Subscribe, Ends, Recheck, Over
<1>10. ASSUME stream # "open", NEW p \in Panes, AgentMoves(p) \/ PaneCloses(p)
       PROVE  stream' # "open"
  BY <1>10 DEF AgentMoves, PaneCloses, Changed
<1>11. ASSUME stream # "open", \/ PublishSome \/ Outage \/ StartRead \/ ReadAnswers \/ ReadFails
                               \/ FinishRead \/ OnBus
       PROVE  stream' # "open"
  BY <1>11 DEF PublishSome, Publish, Outage, StartRead, ReadAnswers, ReadFails, FinishRead, OnBus,
     Polling
<1> QED BY <1>1, <1>2, <1>6, <1>7, <1>8, <1>9, <1>10, <1>11 DEF Next, LoopStep

-----------------------------------------------------------------------------
LEMMA InitWatchInv == Init => WatchInv
<1> SUFFICES ASSUME Init PROVE WatchInv
  OBVIOUS
<1> USE WatchAssumption DEF Init
<1>1. TypeOK
  <2>1. <<>> \in Seq(Events) /\ <<>> \in Seq(Msgs) /\ Len(<<>>) = 0
    OBVIOUS
  <2>2. 1 \in Changes /\ agents \in Lists
    BY RowTypes DEF Changes, Lists
  <2>3. /\ bus \in Seq(Events) /\ Len(bus) <= BusCap /\ outbox \in Seq(Msgs)
        /\ chan \in 0..ChanCap /\ failures \in 0..MaxFailures
    BY <2>1
  <2>4. {outage, lagged, resnapshot, tokenValid} \subseteq BOOLEAN
    OBVIOUS
  <2> QED BY <2>2, <2>3, <2>4, RowTypes DEF TypeOK
<1>2. DOMAIN bus = {}
  OBVIOUS
<1> QED BY <1>1, <1>2 DEF WatchInv, OnlyOpenWorks, HeldIsTheClients, ClosedGone, ReadKnowsClosed,
        ClosedStaysGone, NotReading, ReadClosedGone, AnswerIsOwed, DriftIsOwed

LEMMA StepWatchInv == WatchInv /\ [Next]_vars => WatchInv'
  BY StepType, StepOutbox, StepHeld, StepGone, StepReadKnows, StepStaysGone,
     StepReadClosedGone, StepDrift DEF WatchInv

(* The inductive invariant holds in every reachable state. *)
THEOREM WatchInvariant == Spec => []WatchInv
  BY InitWatchInv, StepWatchInv, PTL DEF Spec

(* Every variable keeps its type: the bus receiver and the response        *)
(* channel never hold more than their bounds (EVENT_BUS_CAPACITY,          *)
(* WATCH_CHANNEL_BOUND), for any bounds.                                   *)
THEOREM WatchTypeCorrect == Spec => []TypeOK
  BY WatchInvariant, PTL DEF WatchInv

(* The rows the stream diffs against are the rows its client will hold     *)
(* once it has applied what was sent and what waits (WatchState.held).     *)
THEOREM HeldIsTheClientsThm == Spec => []HeldIsTheClients
  BY WatchInvariant, PTL DEF WatchInv

(* No re-read and no late status brings back a pane that was reported      *)
(* closed (InFlight.closed, applied before a read's rows are).             *)
THEOREM ClosedStaysGoneThm == Spec => []ClosedStaysGone
  BY WatchInvariant, PTL DEF WatchInv

(* Every row the stream holds that is not the backend's has something left *)
(* that will put it right, whatever the bus dropped, the kernel lost, or a *)
(* re-read missed by failing, being deferred or being overtaken.           *)
THEOREM DriftIsOwedThm == Spec => []DriftIsOwed
  BY WatchInvariant, PTL DEF WatchInv

(* Nothing left to send, to read, to be told of. *)
AtRest ==
  /\ stream = "open" /\ outbox = <<>> /\ reading.at = "none"
  /\ owed = {} /\ bus = <<>> /\ stale = {} /\ ~lagged /\ ~resnapshot

(* A stream that has nothing left to do has told its client exactly the    *)
(* backend's rows: it never settles on a wrong list.                       *)
THEOREM RestIsTruth == Spec => [](AtRest => view = agents)
<1>1. WatchInv => (AtRest => view = agents)
  <2> SUFFICES ASSUME WatchInv, AtRest PROVE view = agents
    OBVIOUS
  <2>1. view \in Lists /\ agents \in Lists
    BY DEF WatchInv, TypeOK
  <2>2. ASSUME NEW p \in Panes
        PROVE  view[p] = agents[p]
    <3>1. view[p] = held[p]
      BY LeavesNothing DEF WatchInv, HeldIsTheClients, AtRest
    <3>2. DOMAIN bus = {}
      BY DEF AtRest
    <3>3. ~ReadOwed(p) /\ ~ReadUnderWay(p)
      BY <3>2 DEF AtRest, ReadOwed, ReadUnderWay
    <3> QED BY <3>1, <3>3 DEF WatchInv, DriftIsOwed, AtRest
  <2> QED BY <2>1, <2>2 DEF Lists
<1> QED BY <1>1, WatchInvariant, PTL
=============================================================================
