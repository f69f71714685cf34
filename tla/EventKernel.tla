---------------------------- MODULE EventKernel ----------------------------
(***************************************************************************)
(* The herdr event kernel of muxrd (multiplexer/herdr/subscribe.rs): one   *)
(* task that keeps two subscriptions to herdr open.  The lifecycle         *)
(* connection announces every pane; the agent-status connection covers the *)
(* panes named when it was opened, and is rebuilt to cover a new one.      *)
(* Neither replays anything, so a resync follows every (re)connection, and *)
(* a watchdog compares what was delivered with what herdr lists.           *)
(*                                                                         *)
(* A status is the number of the transition that led to it; 0 is unknown.  *)
(* Back-off, the coalescing window and the storm breaker only add delay to *)
(* steps that may be delayed anyhow.                                       *)
(***************************************************************************)
EXTENDS Naturals, Sequences, SequencesExt

CONSTANTS
  Panes,       \* herdr's panes; an id is not used again (see BootstrapPaneSet)
  MaxChanges,  \* bound on what happens to panes: created, closed, moved on
  MaxFaults,   \* bound on lost or wedged connections and failed calls
  Strikes      \* LIVENESS_STRIKES

ASSUME KernelAssumption ==
  MaxChanges \in Nat \ {0} /\ MaxFaults \in Nat /\ Strikes \in Nat \ {0}

VARIABLES
  live,        \* the panes herdr has
  status,      \* their agent status
  covered,     \* panes the agent-status subscription was resolved to
  changes,     \* number of changes so far
  faults,      \* number of faults so far
  lifecycle,   \* connection A
  lines,       \* what A has delivered and the kernel has not read
  agents,      \* connection B
  pushes,      \* what B has delivered and the kernel has not read
  kernel,      \* where the kernel is
  listed,      \* the enumeration that is out, once herdr answered it
  snapshot,    \* the statuses a resync was answered with
  created,     \* panes announced while an enumeration was out ...
  gone,        \* ... and panes reported gone
  subscribed,  \* the set the widening rule consults
  lastStatus,  \* the kernel's last-known status of each pane
  blind,       \* the last resync failed
  spoke,       \* connections that delivered since the last probe
  strikes      \* consecutive wedged verdicts about a connection

herdrVars == <<live, status, changes>>
watchVars == <<spoke, strikes>>
answers   == <<listed, snapshot, created, gone>>
tables    == <<lastStatus, blind>>
vars == <<herdrVars, covered, faults, lifecycle, lines, agents, pushes, kernel,
          answers, subscribed, tables, watchVars>>

Conns    == {"lifecycle", "agents"}
Created(p) == [event |-> "created", pane |-> p]
Gone(p)    == [event |-> "gone", pane |-> p]
Statuses == 0..MaxChanges
ConnStates == {"none", "up", "wedged", "ended"}

TypeOK ==
  /\ live \subseteq Panes /\ covered \subseteq Panes
  /\ status \in [Panes -> Statuses] /\ lastStatus \in [Panes -> Statuses]
  /\ blind \in BOOLEAN
  /\ changes \in 0..MaxChanges /\ faults \in 0..MaxFaults
  /\ lifecycle \in ConnStates /\ agents \in ConnStates
  /\ lines \in Seq([event : {"created", "gone"}, pane : Panes])
  /\ pushes \in Seq(Panes \X Statuses)
  /\ kernel \in {"noLifecycle", "enumerating", "listed", "resyncing", "relisted",
               "pumping", "draining", "stopped"}
  /\ listed \subseteq Panes /\ created \subseteq Panes /\ gone \subseteq Panes
  /\ snapshot \in [Panes -> Statuses]
  /\ subscribed \subseteq Panes
  /\ spoke \subseteq Conns /\ strikes \in [Conns -> 0..(Strikes - 1)]

Unlisted == [p \in Panes |-> 0]

NoStrikes == [c \in Conns |-> 0]

Init ==
  /\ live \in SUBSET Panes
  /\ status = [p \in Panes |-> IF p \in live THEN 1 ELSE 0]
  /\ covered = {} /\ changes = 1 /\ faults = 0
  /\ lifecycle = "none" /\ lines = <<>> /\ agents = "none" /\ pushes = <<>>
  /\ kernel = "noLifecycle" /\ subscribed = {}
  /\ listed = {} /\ snapshot = Unlisted /\ created = {} /\ gone = {}
  /\ lastStatus = [p \in Panes |-> 0] /\ blind = FALSE
  /\ spoke = {} /\ strikes = NoStrikes

-----------------------------------------------------------------------------
(* herdr: its panes, and what its side of the connections does. *)

Running == kernel # "stopped"

Changed == Running /\ changes < MaxChanges /\ changes' = changes + 1

(* A lifecycle line goes out on a connection that works. *)
Announce(line) == lines' = IF lifecycle = "up" THEN Append(lines, line) ELSE lines

PaneOpens(p) ==
  /\ Changed
  /\ p \notin live /\ status[p] = 0
  /\ live' = live \cup {p}
  /\ status' = [status EXCEPT ![p] = changes']
  /\ Announce(Created(p))
  /\ UNCHANGED <<covered, faults, lifecycle, agents, pushes, kernel, answers,
                 subscribed, tables, watchVars>>

(* What a subscription was resolved to dies with the pane. *)
PaneCloses(p) ==
  /\ Changed
  /\ p \in live
  /\ live' = live \ {p}
  /\ covered' = covered \ {p}
  /\ Announce(Gone(p))
  /\ UNCHANGED <<status, faults, lifecycle, agents, pushes, kernel, answers,
                 subscribed, tables, watchVars>>

AgentMoves(p) ==
  /\ Changed
  /\ p \in live
  /\ status' = [status EXCEPT ![p] = changes']
  /\ pushes' = IF agents = "up" /\ p \in covered THEN Append(pushes, <<p, changes'>>) ELSE pushes
  /\ UNCHANGED <<live, covered, faults, lifecycle, lines, agents, kernel, answers,
                 subscribed, tables, watchVars>>

Fault == Running /\ faults < MaxFaults /\ faults' = faults + 1

(* A connection ends (restart, events_lost), or goes quiet but stays open. *)
ConnectionFails ==
  /\ Fault
  /\ \/ lifecycle = "up" /\ lifecycle' \in {"wedged", "ended"} /\ UNCHANGED agents
     \/ agents = "up" /\ agents' \in {"wedged", "ended"} /\ UNCHANGED lifecycle
  /\ UNCHANGED <<herdrVars, covered, lines, pushes, kernel, answers,
                 subscribed, tables, watchVars>>

-----------------------------------------------------------------------------
(* Bringing the connections up. *)

NoAgents ==
  /\ agents' = "none" /\ pushes' = <<>> /\ covered' = {}

(* A new enumeration begins with an empty buffer. *)
Enumerate ==
  /\ kernel' = "enumerating" /\ listed' = {} /\ created' = {} /\ gone' = {}
  /\ UNCHANGED snapshot

(* connect_lifecycle: complete at its ack; everything B knew is void.  An  *)
(* attempt that fails changes nothing.                                     *)
ConnectLifecycle ==
  /\ kernel = "noLifecycle"
  /\ lifecycle' = "up" /\ lines' = <<>>
  /\ NoAgents
  /\ Enumerate
  /\ subscribed' = {}
  /\ strikes' = NoStrikes
  /\ UNCHANGED <<herdrVars, faults, tables, spoke>>

(* connect_status, 1: herdr answers the enumeration ... *)
List ==
  /\ kernel = "enumerating"
  /\ kernel' = "listed"
  /\ listed' = live
  /\ UNCHANGED <<herdrVars, covered, faults, lifecycle, lines, agents, pushes, snapshot, created, gone,
                 subscribed, tables, watchVars>>

(* ... or does not: back off, and begin again.                             *)
ListFails ==
  /\ kernel = "enumerating"
  /\ created \cup gone # {}
  /\ Enumerate
  /\ UNCHANGED <<herdrVars, covered, faults, lifecycle, lines, agents, pushes,
                 subscribed, tables, watchVars>>

(* Meanwhile what A delivers is buffered. *)
Buffer ==
  /\ kernel \in {"enumerating", "listed"}
  /\ lines # <<>>
  /\ lines' = Tail(lines)
  /\ LET p == Head(lines).pane IN
     IF Head(lines).event = "created" THEN created' = created \cup {p} /\ UNCHANGED gone
     ELSE gone' = gone \cup {p} /\ UNCHANGED created
  /\ UNCHANGED <<herdrVars, covered, faults, lifecycle, agents, pushes, kernel, listed, snapshot,
                 subscribed, tables, watchVars>>

(* Wrong: what was announced while the enumeration was out is left out. *)
ListedOnly == listed \ gone

(* bootstrap_pane_set: the buffer folded into the enumeration.  It is a    *)
(* set of creations and a set of ends, in no order: were an id used again  *)
(* while the enumeration is out, the new pane would be left out, and only  *)
(* the watchdog would find it.                                             *)
BootstrapPaneSet == (listed \cup created) \ gone

(* 2, 3: subscribe; herdr resolves every pane or rejects the request.  The *)
(* rejected kernel backs off and enumerates again.                         *)
Subscribe ==
  /\ kernel = "listed"
  /\ \/ /\ BootstrapPaneSet \subseteq live
        /\ agents' = "up" /\ pushes' = <<>>
        /\ covered' = BootstrapPaneSet /\ subscribed' = BootstrapPaneSet
        /\ kernel' = "resyncing" /\ listed' = {} /\ created' = {} /\ gone' = {}
        /\ UNCHANGED snapshot
     \/ /\ ~(BootstrapPaneSet \subseteq live)
        /\ Enumerate
        /\ UNCHANGED <<agents, pushes, covered, subscribed>>
  /\ UNCHANGED <<herdrVars, faults, lifecycle, lines, tables, watchVars>>

(* No connection, no ack in time, or it closed before the ack. *)
SubscribeFails ==
  /\ kernel = "listed"
  /\ Fault
  /\ Enumerate
  /\ UNCHANGED <<herdrVars, covered, lifecycle, lines, agents, pushes, subscribed, tables, watchVars>>

(* Both are up: pump starts, with its probe timer. *)
StartPump == kernel' = "pumping" /\ spoke' = {} /\ strikes' = NoStrikes

(* 4, resync: herdr is asked for the panes and their status ... *)
Relist ==
  /\ kernel = "resyncing"
  /\ kernel' = "relisted"
  /\ snapshot' = [p \in Panes |-> IF p \in live THEN status[p] ELSE 0]
  /\ UNCHANGED <<herdrVars, covered, faults, lifecycle, lines, agents, pushes, listed, created, gone,
                 subscribed, tables, watchVars>>

(* Wrong: once a status is known, only the pushes may change it. *)
ResyncNewOnly ==
  /\ kernel = "relisted"
  /\ lastStatus' = [p \in Panes |-> IF snapshot[p] = 0 \/ lastStatus[p] = 0 THEN snapshot[p]
                                    ELSE lastStatus[p]]
  /\ blind' = FALSE
  /\ snapshot' = Unlisted
  /\ StartPump
  /\ UNCHANGED <<herdrVars, covered, faults, lifecycle, lines, agents, pushes, listed, created, gone,
                 subscribed>>

(* ... and what differs from the last-known status is published, and the   *)
(* closure of what is not listed any more.                                 *)
Resync ==
  /\ kernel = "relisted"
  /\ lastStatus' = snapshot
  /\ blind' = FALSE
  /\ snapshot' = Unlisted
  /\ StartPump
  /\ UNCHANGED <<herdrVars, covered, faults, lifecycle, lines, agents, pushes, listed, created, gone,
                 subscribed>>

(* It fails: consumers are told to re-read, nothing else. *)
ResyncFails ==
  /\ kernel = "resyncing"
  /\ Fault
  /\ blind' = TRUE
  /\ StartPump
  /\ UNCHANGED <<herdrVars, covered, lifecycle, lines, agents, pushes, answers,
                 subscribed, lastStatus>>

-----------------------------------------------------------------------------
(* Pumping events. *)

ReadLine ==
  /\ kernel = "pumping"
  /\ lines # <<>>
  /\ lines' = Tail(lines)
  /\ spoke' = spoke \cup {"lifecycle"}
  /\ UNCHANGED <<herdrVars, faults, lifecycle, answers, blind, strikes>>

(* The widening rule: B is rebuilt for a pane it is not subscribed to. *)
ReadCreated ==
  /\ ReadLine
  /\ Head(lines).event = "created"
  /\ \/ /\ Head(lines).pane \in subscribed
        /\ UNCHANGED <<kernel, agents, pushes, covered>>
     \/ /\ Head(lines).pane \notin subscribed
        /\ kernel' = "draining"
        /\ NoAgents
  /\ UNCHANGED <<subscribed, lastStatus>>

(* forget_pane *)
ReadGone ==
  /\ ReadLine
  /\ Head(lines).event = "gone"
  /\ subscribed' = subscribed \ {Head(lines).pane}
  /\ lastStatus' = [lastStatus EXCEPT ![Head(lines).pane] = 0]
  /\ UNCHANGED <<kernel, agents, pushes, covered>>

(* publish *)
ReadStatus ==
  /\ kernel = "pumping"
  /\ pushes # <<>>
  /\ LET p == Head(pushes)[1]
         s == Head(pushes)[2]
     IN lastStatus' = [lastStatus EXCEPT ![p] = s]
  /\ pushes' = Tail(pushes)
  /\ spoke' = spoke \cup {"agents"}
  /\ UNCHANGED <<herdrVars, covered, faults, lifecycle, lines, agents, kernel, answers,
                 subscribed, blind, strikes>>

(* drain_lifecycle: the burst that follows a widening is thrown away. *)
Drain ==
  /\ kernel = "draining"
  /\ lines # <<>>
  /\ lines' = Tail(lines)
  /\ UNCHANGED <<herdrVars, covered, faults, lifecycle, agents, pushes, kernel, answers,
                 subscribed, tables, watchVars>>

EndDrain ==
  /\ kernel = "draining"
  /\ Enumerate
  /\ UNCHANGED <<herdrVars, covered, faults, lifecycle, lines, agents, pushes,
                 subscribed, tables, watchVars>>

NoLifecycle == lifecycle' = "none" /\ lines' = <<>>

LoseLifecycle == NoLifecycle /\ NoAgents /\ kernel' = "noLifecycle"

LoseAgents == NoAgents /\ Enumerate

(* EOF, wherever the kernel reads A: what was delivered comes first. *)
LifecycleEnds ==
  /\ kernel \in {"enumerating", "listed", "pumping", "draining"}
  /\ lifecycle = "ended" /\ lines = <<>>
  /\ LoseLifecycle
  /\ UNCHANGED <<herdrVars, faults, answers, subscribed, tables, watchVars>>

AgentsEnd ==
  /\ kernel = "pumping"
  /\ agents = "ended" /\ pushes = <<>>
  /\ LoseAgents
  /\ UNCHANGED <<herdrVars, faults, lifecycle, lines, subscribed, tables, watchVars>>

-----------------------------------------------------------------------------
(* The watchdog. *)

(* Wrong: a pane outside the subscription says nothing. *)
VerdictOnStatus ==
  IF \E p \in live \cap subscribed : lastStatus[p] \notin {0, status[p]} THEN "agents" ELSE "healthy"

(* watchdog_verdict: a pane nobody announced, else a status nobody pushed. *)
Verdict ==
  IF \E p \in live : p \notin subscribed THEN "lifecycle"
  ELSE IF \E p \in live : lastStatus[p] \notin {0, status[p]} THEN "agents"
  ELSE "healthy"

(* A verdict about a connection that has been quiet for a whole interval   *)
(* is a strike; any other finding starts the count again.                  *)
Struck(c) == Verdict = c /\ c \notin spoke

Strike ==
  /\ kernel = "pumping"
  /\ spoke' = {}
  /\ \E c \in Conns :
       /\ Struck(c) /\ strikes[c] + 1 < Strikes
       /\ strikes' = [NoStrikes EXCEPT ![c] = strikes[c] + 1]
  /\ UNCHANGED <<herdrVars, covered, faults, lifecycle, lines, agents, pushes, kernel,
                 answers, subscribed, tables>>

StruckOut ==
  /\ kernel = "pumping"
  /\ \/ /\ Struck("lifecycle") /\ strikes["lifecycle"] + 1 >= Strikes
        /\ LoseLifecycle
        /\ UNCHANGED answers
     \/ /\ Struck("agents") /\ strikes["agents"] + 1 >= Strikes
        /\ LoseAgents
        /\ UNCHANGED <<lifecycle, lines>>
  /\ spoke' = {} /\ strikes' = NoStrikes
  /\ UNCHANGED <<herdrVars, faults, subscribed, tables>>

NoStrike ==
  /\ kernel = "pumping"
  /\ ~(\E c \in Conns : Struck(c))
  /\ spoke' = {}
  /\ strikes' = NoStrikes
  /\ UNCHANGED <<herdrVars, covered, faults, lifecycle, lines, agents, pushes, kernel,
                 answers, subscribed, tables>>

(* The probe's own calls failed: inconclusive. *)
ProbeFails ==
  /\ kernel = "pumping"
  /\ Fault
  /\ spoke' = {}
  /\ UNCHANGED <<herdrVars, covered, lifecycle, lines, agents, pushes, kernel,
                 answers, subscribed, tables, strikes>>

Probe == Strike \/ StruckOut \/ NoStrike

Shutdown ==
  /\ Running
  /\ kernel' = "stopped"
  /\ NoLifecycle /\ NoAgents
  /\ UNCHANGED <<herdrVars, faults, answers, subscribed, tables, watchVars>>

-----------------------------------------------------------------------------
Herdr == \E p \in Panes : PaneOpens(p) \/ PaneCloses(p) \/ AgentMoves(p)

Progress ==
  \/ ConnectLifecycle \/ List \/ Subscribe \/ Relist \/ Resync
  \/ ReadCreated \/ ReadGone \/ ReadStatus \/ EndDrain
  \/ LifecycleEnds \/ AgentsEnd \/ Probe

Next ==
  \/ Herdr \/ ConnectionFails
  \/ Progress
  \/ ListFails \/ Buffer \/ SubscribeFails \/ ResyncFails \/ Drain \/ ProbeFails
  \/ Shutdown
  \/ (kernel = "stopped" /\ UNCHANGED vars)

(***************************************************************************)
(* The runtime polls the kernel, timers fire, herdr answers all but        *)
(* MaxFaults of the calls, and an arm of a select loop that stays ready is *)
(* taken.                                                                  *)
(***************************************************************************)
Fairness ==
  /\ WF_vars(ConnectLifecycle) /\ WF_vars(List) /\ WF_vars(Subscribe) /\ WF_vars(Relist \/ Resync)
  /\ WF_vars(ReadCreated \/ ReadGone) /\ WF_vars(ReadStatus) /\ WF_vars(EndDrain)
  /\ WF_vars(LifecycleEnds) /\ WF_vars(AgentsEnd) /\ WF_vars(Probe)

Spec == Init /\ [][Next]_vars
FairSpec == Spec /\ Fairness

-----------------------------------------------------------------------------
(* No bootstrap gap: while the lifecycle connection works, every pane is   *)
(* covered, or its announcement is still to be read (subscribe.rs, "The    *)
(* design: two connections").                                              *)
CoveredOrAnnounced ==
  kernel = "pumping" /\ lifecycle = "up" =>
    \A p \in live :
      \/ p \in covered /\ p \in subscribed
      \/ Contains(lines, Created(p))

(* No transition is lost: of a covered pane the kernel knows the status,   *)
(* or it is in what is still to be read (connect_status: subscribe first,  *)
(* then resync).                                                           *)
KnownOrPushed ==
  kernel = "pumping" /\ agents = "up" /\ ~blind =>
    \A p \in live \cap covered :
      \/ lastStatus[p] = status[p]
      \/ Contains(pushes, <<p, status[p]>>)

(* Whatever was lost, wedged or rejected, in the end every pane is         *)
(* covered and its status known: what the subscriptions miss the watchdog  *)
(* finds.  Without a successful resync an unknown status stays unknown,    *)
(* which is no evidence (watchdog_verdict).                                *)
KernelConverges ==
  <>[](\/ kernel = "stopped"
       \/ \A p \in live :
            /\ p \in covered
            /\ lastStatus[p] = status[p] \/ (blind /\ lastStatus[p] = 0))
=============================================================================
