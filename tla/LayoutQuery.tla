---------------------------- MODULE LayoutQuery ----------------------------
(***************************************************************************)
(* GetLayout answered in-band by an attached zellij relay of muxrd         *)
(* (muxrd/src/grpc/layout.rs, relay/inbound.rs, relay/reader.rs).          *)
(* get_layout waits on a oneshot with a timeout; the inbound task hands the*)
(* query to the reader thread and fires ListTabs, then ListPanes, at the   *)
(* session; the reader pairs the two untagged Log replies and answers.     *)
(*                                                                         *)
(* Query q is the q-th that the inbound task receives (its seq).  A Log is *)
(* the record of the action it replies to; its payload is not modelled.    *)
(***************************************************************************)
EXTENDS Naturals, Sequences, SequencesExt

CONSTANT MaxQueries   \* bound on the GetLayout calls routed to this relay

ASSUME QueryAssumption == MaxQueries \in Nat \ {0}

Queries == 1..MaxQueries
Logs    == [q : Queries, kind : {"tabs", "panes"}]
NoQuery == 0
NoLog   == [q |-> 0, kind |-> "none"]

VARIABLES
  caller,   \* get_layout of each query
  answer,   \* the snapshot a query was answered with: whose tabs and panes
  ctl,      \* the relay's RelayControl channel
  inbound,  \* where the inbound task is in handle_query_layout
  handed,   \* query_rx: queries handed to the reader, not yet picked up
  asked,    \* actions sent to the session and not yet replied to
  reader,   \* where the reader thread is
  got,      \* the Log the reader holds, or NoLog for any other message
  slot,     \* in_flight: the query held by the reader
  first,    \* InFlightQuery.tabs: the first Log captured for it
  clean     \* queries received with no earlier reply outstanding (history)

vars == <<caller, answer, ctl, inbound, handed, asked, reader, got, slot, first, clean>>

NoAnswer  == [tabs |-> 0, panes |-> 0]
Snapshots == [tabs : Queries, panes : Queries]

TypeOK ==
  /\ caller \in [Queries -> {"idle", "waiting", "answered", "fallback"}]
  /\ answer \in [Queries -> Snapshots \cup {NoAnswer}]
  /\ ctl \in Seq(Queries)
  /\ inbound \in [at : {"idle", "tabs", "panes", "leaving", "gone"}, q : Queries \cup {NoQuery}]
  /\ handed \in Seq(Queries)
  /\ asked \in Seq(Logs)
  /\ reader \in {"top", "recv", "got", "match", "exited"}
  /\ got \in Logs \cup {NoLog}
  /\ slot \in Queries \cup {NoQuery}
  /\ first \in Logs \cup {NoLog}
  /\ clean \in SUBSET Queries

InboundAt(where, q) == [at |-> where, q |-> q]

Init ==
  /\ caller = [q \in Queries |-> "idle"]
  /\ answer = [q \in Queries |-> NoAnswer]
  /\ ctl = <<>>
  /\ inbound = InboundAt("idle", NoQuery)
  /\ handed = <<>>
  /\ asked = <<>>
  /\ reader = "top"
  /\ got = NoLog
  /\ slot = NoQuery
  /\ first = NoLog
  /\ clean = {}

Waiting(q) == q # NoQuery /\ caller[q] = "waiting"

(* The reply halves of these queries are dropped, or carry an error: their *)
(* callers, if they still wait, take the ephemeral path.                   *)
Released(qs) ==
  [q \in Queries |-> IF q \in qs /\ Waiting(q) THEN "fallback" ELSE caller[q]]

-----------------------------------------------------------------------------
(* get_layout. *)

(* Calls reach the relay's channel in the order of their queries' numbers. *)
(* One that finds no ControlEntry, or a closed channel, takes the ephemeral*)
(* path at once; one that found the entry may still send to a relay that   *)
(* is leaving.                                                             *)
GetLayout(q) ==
  /\ caller[q] = "idle"
  /\ \A p \in 1..(q - 1) : caller[p] # "idle"
  /\ \/ /\ inbound.at \in {"leaving", "gone"}
        /\ caller' = [caller EXCEPT ![q] = "fallback"]
        /\ UNCHANGED ctl
     \/ /\ inbound.at # "gone"
        /\ caller' = [caller EXCEPT ![q] = "waiting"]
        /\ ctl' = Append(ctl, q)
  /\ UNCHANGED <<answer, inbound, handed, asked, reader, got, slot, first, clean>>

(* RELAY_QUERY_TIMEOUT: the receiver is dropped. *)
TimesOut(q) ==
  /\ Waiting(q)
  /\ caller' = [caller EXCEPT ![q] = "fallback"]
  /\ UNCHANGED <<answer, ctl, inbound, handed, asked, reader, got, slot, first, clean>>

-----------------------------------------------------------------------------
(* The inbound task: handle_query_layout, in-band path. *)

(* The query goes to the reader before its actions go to the session; a    *)
(* reader that is gone returns the reply half, which then reports so.      *)
HandOver ==
  /\ inbound.at = "idle"
  /\ ctl # <<>>
  /\ LET q == Head(ctl) IN
     /\ ctl' = Tail(ctl)
     /\ clean' = IF asked = <<>> /\ got = NoLog THEN clean \cup {q} ELSE clean
     /\ IF reader = "exited"
          THEN /\ caller' = Released({q})
               /\ UNCHANGED <<inbound, handed>>
          ELSE /\ handed' = Append(handed, q)
               /\ inbound' = InboundAt("tabs", q)
               /\ UNCHANGED caller
  /\ UNCHANGED <<answer, asked, reader, got, slot, first>>

(* query_layout: ListTabs, then ListPanes, each of which may fail to send. *)
Fire ==
  /\ inbound.at \in {"tabs", "panes"}
  /\ \/ /\ asked' = Append(asked, [q |-> inbound.q, kind |-> inbound.at])
        /\ inbound' = IF inbound.at = "tabs" THEN InboundAt("panes", inbound.q)
                                             ELSE InboundAt("idle", NoQuery)
     \/ /\ inbound' = InboundAt("idle", NoQuery)
        /\ UNCHANGED asked
  /\ UNCHANGED <<caller, answer, ctl, handed, reader, got, slot, first, clean>>

LeaveLoop ==
  /\ inbound.at = "idle"
  /\ inbound' = InboundAt("leaving", NoQuery)
  /\ UNCHANGED <<caller, answer, ctl, handed, asked, reader, got, slot, first, clean>>

(* Wrong: the channel is not the task's own, and outlives it. *)
InboundEndsAlone ==
  /\ inbound.at = "leaving"
  /\ reader = "exited"
  /\ inbound' = InboundAt("gone", NoQuery)
  /\ UNCHANGED <<caller, answer, ctl, handed, asked, reader, got, slot, first, clean>>

(* The guard has joined the reader; the parameters of the task drop after  *)
(* it, the control channel among them, with what it holds.                 *)
InboundEnds ==
  /\ inbound.at = "leaving"
  /\ reader = "exited"
  /\ inbound' = InboundAt("gone", NoQuery)
  /\ caller' = Released(ToSet(ctl))
  /\ ctl' = <<>>
  /\ UNCHANGED <<answer, handed, asked, reader, got, slot, first, clean>>

-----------------------------------------------------------------------------
(* The reader thread: render_loop. *)

(* Wrong: a query already held is kept, and newer ones are turned away. *)
DrainKeepsOld ==
  LET kept == IF Waiting(slot) THEN slot ELSE NoQuery
      last == IF kept # NoQuery \/ handed = <<>> THEN kept ELSE Last(handed)
  IN /\ slot' = last
     /\ first' = IF last = slot THEN first ELSE NoLog
     /\ caller' = Released(({slot} \cup ToSet(handed)) \ {last})
     /\ handed' = <<>>

(* drain_queries: retire a query nobody waits for; the newest one handed   *)
(* over replaces the rest.                                                 *)
Drain ==
  LET kept == IF Waiting(slot) THEN slot ELSE NoQuery
      last == IF handed = <<>> THEN kept ELSE Last(handed)
  IN /\ slot' = last
     /\ first' = IF last = slot THEN first ELSE NoLog
     /\ caller' = Released(({slot} \cup ToSet(handed)) \ {last})
     /\ handed' = <<>>

DrainThenPark ==
  /\ reader = "top"
  /\ Drain
  /\ reader' = "recv"
  /\ UNCHANGED <<answer, ctl, inbound, asked, got, clean>>

(* recv returns a Log, the LogError that replaces one, or anything else.   *)
(* Replies come in the order of the actions.                               *)
Recv ==
  /\ reader = "recv"
  /\ reader' = "got"
  /\ \/ asked # <<>> /\ asked' = Tail(asked) /\ got' \in {Head(asked), NoLog}
     \/ got' = NoLog /\ UNCHANGED asked
  /\ UNCHANGED <<caller, answer, ctl, inbound, handed, slot, first, clean>>

(* Wrong: no drain between recv and the match. *)
MatchWithoutDrain ==
  /\ reader = "got"
  /\ reader' = "match"
  /\ UNCHANGED <<caller, answer, ctl, inbound, handed, asked, got, slot, first, clean>>

DrainThenMatch ==
  /\ reader = "got"
  /\ Drain
  /\ reader' = "match"
  /\ UNCHANGED <<answer, ctl, inbound, asked, got, clean>>

(* parse_zellij_layout tells a tabs payload from a panes payload by shape, *)
(* takes the pair in either order, and fails on two of a kind.             *)
Parses(l, m) == {l.kind, m.kind} = {"tabs", "panes"}
Snapshot(l, m) ==
  [tabs  |-> IF l.kind = "tabs"  THEN l.q ELSE m.q,
   panes |-> IF l.kind = "panes" THEN l.q ELSE m.q]

(* capture_query_log: retire, take the first Log, or answer on the second. *)
Capture ==
  IF ~Waiting(slot) THEN
    /\ slot' = NoQuery /\ first' = NoLog
    /\ UNCHANGED <<caller, answer>>
  ELSE IF first = NoLog THEN
    /\ first' = got
    /\ UNCHANGED <<caller, answer, slot>>
  ELSE
    /\ slot' = NoQuery /\ first' = NoLog
    /\ IF Parses(first, got)
         THEN /\ answer' = [answer EXCEPT ![slot] = Snapshot(first, got)]
              /\ caller' = [caller EXCEPT ![slot] = "answered"]
         ELSE caller' = Released({slot}) /\ UNCHANGED answer

Match ==
  /\ reader = "match"
  /\ IF got # NoLog THEN Capture ELSE UNCHANGED <<caller, answer, slot, first>>
  /\ got' = NoLog
  /\ reader' = "top"
  /\ UNCHANGED <<ctl, inbound, handed, asked, clean>>

(* Wrong: what waits in query_rx is not dropped with the thread. *)
ReaderExitsLeaky ==
  /\ reader \in {"top", "recv", "got"}
  /\ reader' = "exited"
  /\ caller' = Released({slot})
  /\ slot' = NoQuery /\ first' = NoLog /\ got' = NoLog
  /\ UNCHANGED <<answer, ctl, inbound, handed, asked, clean>>

(* Stop flag, end of the stream, session exit, client gone: what the       *)
(* thread holds and what waits in query_rx is dropped with it.             *)
ReaderExits ==
  /\ reader \in {"top", "recv", "got"} \/ (reader = "match" /\ got = NoLog)
  /\ reader' = "exited"
  /\ caller' = Released({slot} \cup ToSet(handed))
  /\ slot' = NoQuery /\ first' = NoLog /\ got' = NoLog
  /\ handed' = <<>>
  /\ UNCHANGED <<answer, ctl, inbound, asked, clean>>

-----------------------------------------------------------------------------
ReaderStep == DrainThenPark \/ DrainThenMatch \/ Match

Next ==
  \/ \E q \in Queries : GetLayout(q) \/ TimesOut(q)
  \/ HandOver \/ Fire \/ LeaveLoop \/ InboundEnds
  \/ ReaderStep \/ Recv \/ ReaderExits

(* Tasks and threads run; nothing is assumed of the session, of the timer  *)
(* or of the callers.                                                      *)
Spec == Init /\ [][Next]_vars
FairSpec == Spec /\ WF_vars(HandOver) /\ WF_vars(Fire) /\ WF_vars(InboundEnds)
                 /\ WF_vars(ReaderStep)

-----------------------------------------------------------------------------
(* A query received while no earlier reply was outstanding is answered, if *)
(* at all, with its own tabs and its own panes, whatever is lost or asked  *)
(* after it: hand-over before the actions and the drain after recv leave no*)
(* window for its Logs to miss it or for later Logs to find it.            *)
CleanQueryGetsItsOwn ==
  \A q \in clean :
    answer[q] # NoAnswer => answer[q] = [tabs |-> q, panes |-> q]

(* No query is answered with what was asked after it, not even half of it, *)
(* and the reader never holds a Log younger than the query it held it for. *)
NothingFromLater ==
  /\ \A q \in Queries : answer[q].tabs <= q /\ answer[q].panes <= q
  /\ slot # NoQuery => first.q <= slot

(* Whoever waits for an in-band answer has its reply half where a task or  *)
(* thread that still runs will use or drop it: in the channel of an        *)
(* inbound task that has not ended, or with a reader that has not exited,  *)
(* so that what replaces, fails or ends a query always tells its caller    *)
(* (drain_queries, capture_query_log, and the drops at either end).        *)
ReplyIsHeld ==
  \A q \in Queries : Waiting(q) =>
    \/ Contains(ctl, q) /\ inbound.at # "gone"
    \/ reader # "exited" /\ (Contains(handed, q) \/ slot = q)

(* Once the reader thread is gone no caller is left to its timeout: every  *)
(* reply half is dropped or reported (reader.rs: "dropping the reply       *)
(* cancels grpc's receiver").                                              *)
ReaderGoneReleases ==
  \A q \in Queries : (reader = "exited" /\ Waiting(q)) ~> ~Waiting(q)
=============================================================================
