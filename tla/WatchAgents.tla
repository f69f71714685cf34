---------------------------- MODULE WatchAgents ----------------------------
(***************************************************************************)
(* One WatchAgents stream of muxrd (muxrd/src/grpc/agent_ops.rs): it       *)
(* subscribes to the lossy event bus, reads the inventory once, then folds *)
(* bus events and re-reads into what the client holds, over a bounded      *)
(* channel, re-validating its token as it goes.                            *)
(*                                                                         *)
(* A row is abstracted to the change its status comes from and the change  *)
(* the rest of it comes from: a read gives both, an event only the first.  *)
(* The backend (herdr) and its event kernel are the environment.           *)
(***************************************************************************)
EXTENDS Naturals, Sequences, SequencesExt

CONSTANTS
  Panes,
  MaxChanges,   \* bound on the changes of the inventory
  MaxFailures,  \* bound on the re-reads that fail
  BusCap,       \* EVENT_BUS_CAPACITY
  ChanCap       \* WATCH_CHANNEL_BOUND

ASSUME WatchAssumption ==
  /\ IsFiniteSet(Panes)
  /\ MaxChanges \in Nat /\ MaxFailures \in Nat
  /\ BusCap \in Nat \ {0} /\ ChanCap \in Nat \ {0}

VARIABLES
  agents,      \* the backend's inventory
  open,        \* panes not closed yet; a closed pane's id is never used again
  changes,     \* changes of the inventory so far
  owed,        \* events the kernel has yet to publish
  outage,      \* the kernel has lost its connection once
  bus,         \* what the stream's bus receiver has not read
  lagged,      \* the receiver was overrun: its next recv says Lagged
  stream,      \* where the stream is
  held,        \* WatchState.held
  stale,       \* WatchState.stale
  resnapshot,  \* WatchState.resnapshot
  reading,     \* WatchState.reading
  outbox,      \* WatchState.outbox
  chan,        \* messages in the response channel
  view,        \* what the client holds once it has read what was sent
  toldGone,    \* panes whose PaneClosed the stream has handled (history)
  tokenValid,
  failures     \* re-reads that failed so far

envVars    == <<agents, open, changes, owed, outage>>
busVars    == <<bus, lagged>>
stateVars  == <<held, stale, resnapshot, reading, outbox>>
clientVars == <<chan, view, toldGone>>
vars == <<envVars, busVars, stream, stateVars, clientVars, tokenValid, failures>>

Changes  == 1..(MaxChanges + 1)
NoRow    == [status |-> 0, rest |-> 0]
Row(n)   == [status |-> n, rest |-> n]
Rows     == {NoRow} \cup [status : Changes, rest : Changes]
Lists    == [Panes -> Rows]
Empty    == [p \in Panes |-> NoRow]

StatusChanged(p, n) == [kind |-> "status", pane |-> p, n |-> n]
PaneClosed(p)       == [kind |-> "closed", pane |-> p]
Resynced            == [kind |-> "resynced"]
Events == {StatusChanged(p, n) : p \in Panes, n \in Changes}
            \cup {PaneClosed(p) : p \in Panes} \cup {Resynced}

(* A "removed" is a "set" to NoRow. *)
SnapshotMsg(l) == [kind |-> "snapshot", rows |-> l]
SetMsg(p, row) == [kind |-> "set", pane |-> p, row |-> row]
Msgs == {SnapshotMsg(l) : l \in Lists} \cup {SetMsg(p, r) : p \in Panes, r \in Rows}

NotReading == [at |-> "none", rows |-> Empty, stale |-> {}, resnapshot |-> FALSE, closed |-> {}]

TypeOK ==
  /\ agents \in Lists
  /\ open \in SUBSET Panes
  /\ changes \in Changes
  /\ owed \in SUBSET Events
  /\ bus \in Seq(Events) /\ Len(bus) <= BusCap
  /\ stream \in {"idle", "opening", "open", "ended", "unauthenticated"}
  /\ held \in Lists
  /\ stale \in SUBSET Panes
  /\ reading \in [at : {"none", "out", "answered", "failed"}, rows : Lists,
                  stale : SUBSET Panes, resnapshot : BOOLEAN, closed : SUBSET Panes]
  /\ outbox \in Seq(Msgs)
  /\ chan \in 0..ChanCap
  /\ view \in Lists
  /\ toldGone \in SUBSET Panes
  /\ failures \in 0..MaxFailures
  /\ {outage, lagged, resnapshot, tokenValid} \subseteq BOOLEAN

Init ==
  /\ agents = [p \in Panes |-> Row(1)]
  /\ open = Panes
  /\ changes = 1
  /\ owed = {}
  /\ outage = FALSE
  /\ bus = <<>> /\ lagged = FALSE
  /\ stream = "idle"
  /\ held = Empty /\ stale = {} /\ resnapshot = FALSE
  /\ reading = NotReading /\ outbox = <<>>
  /\ chan = 0 /\ view = Empty /\ toldGone = {}
  /\ tokenValid = TRUE
  /\ failures = 0

-----------------------------------------------------------------------------
(* The backend, and the event kernel that feeds the bus, followed until    *)
(* the stream is over. *)

Live == stream \in {"idle", "opening", "open"}

Changed(p, row, event) ==
  /\ Live
  /\ changes < MaxChanges + 1
  /\ changes' = changes + 1
  /\ agents' = [agents EXCEPT ![p] = row]
  /\ owed' = owed \cup {event}
  /\ UNCHANGED <<outage, busVars, stream, stateVars, clientVars, tokenValid, failures>>

AgentMoves(p) ==
  /\ p \in open
  /\ \E row \in {Row(changes + 1), NoRow} : Changed(p, row, StatusChanged(p, changes + 1))
  /\ UNCHANGED open

PaneCloses(p) ==
  /\ p \in open
  /\ open' = open \ {p}
  /\ Changed(p, NoRow, PaneClosed(p))

(* Statuses of one pane come in order; closures travel on a connection of  *)
(* their own.  A receiver that is full loses its oldest event.             *)
Publish(e) ==
  /\ Live
  /\ e \in owed
  /\ \A f \in owed : f.kind = "status" /\ e.kind = "status" /\ f.pane = e.pane => e.n <= f.n
  /\ owed' = owed \ {e}
  /\ IF stream \notin {"opening", "open"} THEN UNCHANGED busVars
     ELSE IF Len(bus) < BusCap THEN bus' = Append(bus, e) /\ UNCHANGED lagged
     ELSE bus' = Append(Tail(bus), e) /\ lagged' = TRUE
  /\ UNCHANGED <<agents, open, changes, outage, stream, stateVars, clientVars,
                 tokenValid, failures>>

(* The kernel reconnects: events were lost, and Resynced says so. *)
Outage ==
  /\ Live
  /\ ~outage
  /\ outage' = TRUE
  /\ \E lost \in SUBSET owed : owed' = (owed \ lost) \cup {Resynced}
  /\ UNCHANGED <<agents, open, changes, busVars, stream, stateVars, clientVars,
                 tokenValid, failures>>

Revoke ==
  /\ Live
  /\ tokenValid
  /\ tokenValid' = FALSE
  /\ UNCHANGED <<envVars, busVars, stream, stateVars, clientVars, failures>>

-----------------------------------------------------------------------------
(* watch_agents_impl and start_watch: subscribe, read, send the snapshot. *)

Subscribe ==
  /\ stream = "idle"
  /\ stream' = "opening"
  /\ UNCHANGED <<envVars, busVars, stateVars, clientVars, tokenValid, failures>>

Opens ==
  /\ stream = "opening"
  /\ stream' = "open"
  /\ held' = agents /\ view' = agents /\ chan' = 1
  /\ UNCHANGED <<envVars, busVars, stale, resnapshot, reading, outbox, toldGone,
                 tokenValid, failures>>

(* The stream's task, its receiver, state and channel are dropped. *)
Over(how) ==
  /\ stream' = how
  /\ bus' = <<>> /\ lagged' = FALSE
  /\ held' = Empty /\ stale' = {} /\ resnapshot' = FALSE
  /\ reading' = NotReading /\ outbox' = <<>>
  /\ chan' = 0 /\ view' = Empty /\ toldGone' = {}
  /\ UNCHANGED <<envVars, tokenValid, failures>>

(* The first read fails, the client goes away, or the server shuts down. *)
Ends == stream \in {"opening", "open"} /\ Over("ended")

-----------------------------------------------------------------------------
(* watch_loop. *)

(* Wrong: a message is sent with an inline await, the re-check waits. *)
RecheckWhenIdle ==
  /\ stream = "open"
  /\ outbox = <<>>
  /\ ~tokenValid
  /\ Over("unauthenticated")

(* The re-check is polled in both selects, whatever else is waited for. *)
Recheck ==
  /\ stream = "open"
  /\ ~tokenValid
  /\ Over("unauthenticated")

Applied(v, m) == IF m.kind = "snapshot" THEN m.rows ELSE [v EXCEPT ![m.pane] = m.row]

(* deliver: the outbox goes out, in order, before anything else is polled. *)
Deliver ==
  /\ stream = "open"
  /\ outbox # <<>>
  /\ chan < ChanCap
  /\ chan' = chan + 1
  /\ view' = Applied(view, Head(outbox))
  /\ outbox' = Tail(outbox)
  /\ UNCHANGED <<envVars, busVars, stream, held, stale, resnapshot, reading, toldGone,
                 tokenValid, failures>>

Polling == stream = "open" /\ outbox = <<>>

StartRead ==
  /\ Polling
  /\ reading.at = "none"
  /\ resnapshot \/ stale # {}
  /\ reading' = [NotReading EXCEPT !.at = "out", !.stale = stale, !.resnapshot = resnapshot]
  /\ stale' = {} /\ resnapshot' = FALSE
  /\ UNCHANGED <<envVars, busVars, stream, held, outbox, clientVars, tokenValid, failures>>

(* The blocking read takes the inventory as it is at some moment. *)
ReadAnswers ==
  /\ Live
  /\ reading.at = "out"
  /\ reading' = [reading EXCEPT !.at = "answered", !.rows = agents]
  /\ UNCHANGED <<envVars, busVars, stream, held, stale, resnapshot, outbox, clientVars,
                 tokenValid, failures>>

(* Backend error, LIST_AGENTS_TIMEOUT, or a panicked task. *)
ReadFails ==
  /\ Live
  /\ reading.at = "out"
  /\ failures < MaxFailures
  /\ failures' = failures + 1
  /\ reading' = [reading EXCEPT !.at = "failed"]
  /\ UNCHANGED <<envVars, busVars, stream, held, stale, resnapshot, outbox, clientVars,
                 tokenValid>>

(* Wrong: closures that came while the read was out are forgotten. *)
RetainedAll(rows, closed) == rows

(* The panes whose PaneClosed came while the read was out stay out. *)
Retained(rows, closed) == [p \in Panes |-> IF p \in closed THEN NoRow ELSE rows[p]]

(* reconcile: the rows that differ, but for the panes marked since. *)
Reconciled(rows, defer) == [p \in Panes |-> IF p \in defer THEN held[p] ELSE rows[p]]
(* Wrong: rows that left the inventory are not reported. *)
DeltasChangedOnly(next) ==
  SetToSeq({SetMsg(p, next[p]) : p \in {q \in Panes : next[q] # held[q] /\ next[q] # NoRow}})

Deltas(next) ==
  LET differ == {p \in Panes : next[p] # held[p]}
  IN SetToSeq({SetMsg(p, next[p]) : p \in {q \in differ : next[q] # NoRow}})
       \o SetToSeq({SetMsg(p, NoRow) : p \in {q \in differ : next[q] = NoRow}})

FinishRead ==
  /\ Polling
  /\ reading.at \in {"answered", "failed"}
  /\ reading' = NotReading
  /\ LET list == Retained(reading.rows, reading.closed)
         next == IF reading.resnapshot THEN list ELSE Reconciled(list, stale)
     IN IF reading.at = "failed"
          THEN /\ stale' = stale \cup reading.stale
               /\ resnapshot' = (resnapshot \/ reading.resnapshot)
               /\ UNCHANGED <<held, outbox>>
          ELSE /\ held' = next
               /\ outbox' = IF reading.resnapshot THEN <<SnapshotMsg(list)>> ELSE Deltas(next)
               /\ UNCHANGED <<stale, resnapshot>>
  /\ UNCHANGED <<envVars, busVars, stream, clientVars, tokenValid, failures>>

(* Wrong: a status that was applied is not owed a re-read. *)
OnStatusFastOnly(e) ==
  /\ IF held[e.pane] # NoRow
       THEN LET row == [held[e.pane] EXCEPT !.status = e.n] IN
            /\ held' = [held EXCEPT ![e.pane] = row]
            /\ outbox' = Append(outbox, SetMsg(e.pane, row))
            /\ UNCHANGED stale
       ELSE /\ stale' = stale \cup {e.pane}
            /\ UNCHANGED <<held, outbox>>
  /\ UNCHANGED <<resnapshot, reading, toldGone>>

(* on_bus: a status is applied at once when it agrees with the held row,   *)
(* and its pane is owed a re-read either way.                              *)
OnStatus(e) ==
  /\ \/ /\ held[e.pane] # NoRow
        /\ LET row == [held[e.pane] EXCEPT !.status = e.n] IN
           /\ held' = [held EXCEPT ![e.pane] = row]
           /\ outbox' = Append(outbox, SetMsg(e.pane, row))
     \/ UNCHANGED <<held, outbox>>
  /\ stale' = stale \cup {e.pane}
  /\ UNCHANGED <<resnapshot, reading, toldGone>>

OnClosed(e) ==
  /\ stale' = stale \ {e.pane}
  /\ reading' = IF reading.at = "none" THEN reading
                ELSE [reading EXCEPT !.closed = @ \cup {e.pane}]
  /\ held' = [held EXCEPT ![e.pane] = NoRow]
  /\ outbox' = IF held[e.pane] = NoRow THEN outbox ELSE Append(outbox, SetMsg(e.pane, NoRow))
  /\ toldGone' = toldGone \cup {e.pane}
  /\ UNCHANGED resnapshot

(* Wrong: a receiver that was overrun goes on with the next event. *)
OnGapIgnored == UNCHANGED <<resnapshot, held, stale, reading, outbox, toldGone>>

(* Lagged and Resynced: the whole inventory is read again. *)
OnGap == resnapshot' = TRUE /\ UNCHANGED <<held, stale, reading, outbox, toldGone>>

OnBus ==
  /\ Polling
  /\ \/ lagged /\ lagged' = FALSE /\ OnGap /\ UNCHANGED bus
     \/ /\ ~lagged /\ bus # <<>>
        /\ bus' = Tail(bus) /\ UNCHANGED lagged
        /\ LET e == Head(bus) IN
           \/ e.kind = "status" /\ OnStatus(e)
           \/ e.kind = "closed" /\ OnClosed(e)
           \/ e.kind = "resynced" /\ OnGap
  /\ UNCHANGED <<envVars, stream, chan, view, tokenValid, failures>>

ClientReads ==
  /\ stream = "open"
  /\ chan > 0
  /\ chan' = chan - 1
  /\ UNCHANGED <<envVars, busVars, stream, stateVars, view, toldGone, tokenValid, failures>>

-----------------------------------------------------------------------------
LoopStep == Deliver \/ FinishRead \/ OnBus
PublishSome == \E e \in owed : Publish(e)

Next ==
  \/ \E p \in Panes : AgentMoves(p) \/ PaneCloses(p)
  \/ PublishSome \/ Outage \/ Revoke
  \/ Subscribe \/ Opens \/ Ends
  \/ Recheck \/ LoopStep \/ StartRead \/ ReadAnswers \/ ReadFails
  \/ ClientReads

(***************************************************************************)
(* The task is polled, its timers fire, the blocking pool answers and the  *)
(* kernel publishes.  The client need not read.  FinishRead and OnBus need *)
(* no fairness of their own: bus events are bounded, and then only the     *)
(* read is left to finish.                                                 *)
(***************************************************************************)
Fairness ==
  /\ WF_vars(PublishSome)
  /\ WF_vars(Recheck)
  /\ WF_vars(LoopStep)
  /\ WF_vars(StartRead)
  /\ WF_vars(ReadAnswers)

Spec == Init /\ [][Next]_vars
FairSpec == Spec /\ Fairness

-----------------------------------------------------------------------------
About(m, p) == m.kind = "snapshot" \/ m.pane = p

(* A client that holds v and applies msgs in order is left with this row of *)
(* p: the last message about p decides, whatever the others say.            *)
LeavesRow(v, msgs, p, row) ==
  /\ (\A i \in DOMAIN msgs : ~About(msgs[i], p)) => v[p] = row
  /\ \A i \in DOMAIN msgs :
       About(msgs[i], p) /\ (\A j \in DOMAIN msgs : About(msgs[j], p) => j <= i)
         => Applied(v, msgs[i])[p] = row

(* What the stream believes its client holds is what the client will hold  *)
(* once it has applied everything sent and everything decided: deltas are  *)
(* diffed against the right rows (WatchState.held, "the rows the client    *)
(* holds").                                                                *)
HeldIsTheClients ==
  stream = "open" => \A p \in Panes : LeavesRow(view, outbox, p, held[p])

(* A pane reported closed never comes back, although the re-read that is   *)
(* out, or the status that arrives late, may predate the closure           *)
(* (InFlight.closed: "it must not bring them back").                       *)
ClosedStaysGone == \A p \in toldGone : held[p] = NoRow

Concerns(e, p) == e.kind = "resynced" \/ e.pane = p

(* The stream will ask for pane p's rows again: the pane is marked, or the *)
(* whole inventory is, or what will mark it is on its way.                 *)
ReadOwed(p) ==
  \/ p \in stale \/ resnapshot \/ lagged
  \/ \E e \in owed : Concerns(e, p)
  \/ \E i \in DOMAIN bus : Concerns(bus[i], p)

(* The re-read under way brings p's rows: its answer has them, or it was   *)
(* asked for them, and a failure marks them again.                         *)
AnswerHas(p) == Retained(reading.rows, reading.closed)[p] = agents[p]

ReadUnderWay(p) ==
  \/ reading.at \in {"out", "failed"} /\ (reading.resnapshot \/ p \in reading.stale)
  \/ reading.at = "answered" /\ AnswerHas(p)

(* A row the stream holds differs from the backend's only while something  *)
(* is left that will put it right, whatever was lost, failed, deferred or  *)
(* overtaken (WatchState.stale, resnapshot, InFlight): what Converges      *)
(* rests on.                                                               *)
DriftIsOwed ==
  stream = "open" =>
    \A p \in Panes : held[p] # agents[p] => ReadOwed(p) \/ ReadUnderWay(p)

(* Whatever is lost, late, failed or coalesced, the client ends up with    *)
(* exactly the backend's rows, if it keeps reading and the stream lives.   *)
Converges ==
  WF_vars(ClientReads) => <>[](stream = "open" => view = agents)

(* A revoked token ends the stream although the client has stopped reading *)
(* and the channel is full (agent_ops.rs: "can neither suspend the         *)
(* re-check nor hold the task forever").                                   *)
RevokedEnds == (stream = "open" /\ ~tokenValid) ~> stream # "open"
=============================================================================
