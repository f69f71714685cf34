-------------------------- MODULE ControlRouting --------------------------
(***************************************************************************)
(* Commands of clients to their own relays on herdr, whose sessions are    *)
(* collapsed into one (muxrd/src/grpc/helpers.rs, space_ops.rs, tab_ops.rs *)
(* and pane_ops.rs, muxrd/src/relay/inbound.rs).  An RPC finds the relay   *)
(* of the connection it names and queues a command there; the relay's      *)
(* inbound task takes the commands one by one, moves the wire of the       *)
(* stream, and records where its client looks.  CloseSpace also works on   *)
(* the daemon itself, which desktop users change at the same time.         *)
(*                                                                         *)
(* Where in its space a relay looks is not represented, nor that FocusPane *)
(* may show a pane of another one; QueryLayout is in LayoutQuery.  A client*)
(* names the connection it opened and a space it has seen, and the gate of *)
(* the RPCs refuses close and toggle to a read-only one.  HerdrRelay has   *)
(* the steps of a move.                                                    *)
(***************************************************************************)
EXTENDS Sequences, FiniteSets, Naturals

CONSTANTS
  Conns,     \* attaches, by connection_id
  ReadOnly,  \* those attached with a read-only token
  Spaces,    \* herdr's workspaces, open or yet to be created
  Initial,   \* those open at first
  Group,     \* a repository's worktrees
  Primary,   \* the one the others are linked to
  Calls,     \* RPCs
  None       \* no space, no call, no connection

ASSUME ControlAssumption ==
  /\ ReadOnly \subseteq Conns
  /\ IsFiniteSet(Spaces)
  /\ Initial \subseteq Spaces /\ Initial # {}
  /\ Group \subseteq Spaces /\ Primary \in Group
  /\ None \notin Spaces \cup Calls \cup Conns

VARIABLES
  spaces,    \* the daemon's workspaces
  unborn,    \* ids herdr has not given out
  emptier,   \* history: the call that left the daemon without a workspace
  relay,     \* "out", "serving" or "gone"
  queue,     \* the commands that wait at the relay
  doing,     \* the command it executes
  step,      \* where that execution is
  current,   \* HerdrMuxSender.workspace_id, the space the wire was moved to
  view,      \* RelayViewState.current_space
  place,     \* where a call's handler is, in the end what it answered
  req,       \* its request
  seen,      \* the workspaces it counted before a close
  lapsed,    \* history: toggles given up before the relay's last look
  toggled    \* toggles sent to herdr

herdrVars == <<spaces, unborn, emptier>>
relayVars == <<relay, queue, doing, step>>
viewVars  == <<current, view>>
callVars  == <<place, req, seen>>
history   == <<lapsed, toggled>>
vars == <<herdrVars, relayVars, viewVars, callVars, history>>

Closes  == {"close", "closeGroup"}
Awaited == {"switch", "toggle"}     \* the handler waits for the relay's reply
Ops     == Closes \cup Awaited \cup {"focus"}
Ended   == {"answered", "warned", "unsure"}
Places  == {"idle", "count", "group", "closing", "orphan", "listing",
            "waiting"} \cup Ended

(* What a call asks for: conn is the connection_id it names. *)
NoReq    == [op |-> "none", conn |-> None, space |-> None]
Requests ==
  [op : Ops, conn : Conns, space : Spaces \cup {None}] \cup {NoReq}

(* What it queues at a relay. *)
NoCmd    == [op |-> "none", by |-> None, conn |-> None, space |-> None]
Commands ==
  [op : Awaited \cup {"focus"}, by : Calls, conn : Conns,
   space : Spaces \cup {None}]

TypeOK ==
  /\ spaces \subseteq Spaces /\ unborn \subseteq Spaces
  /\ emptier \in Calls \cup {None}
  /\ relay \in [Conns -> {"out", "serving", "gone"}]
  /\ queue \in [Conns -> Seq(Commands)]
  /\ doing \in [Conns -> Commands \cup {NoCmd}]
  /\ step \in [Conns -> {"idle", "op", "send", "record"}]
  /\ current \in [Conns -> Spaces \cup {None}]
  /\ view \in [Conns -> Spaces \cup {None}]
  /\ place \in [Calls -> Places]
  /\ req \in [Calls -> Requests]
  /\ seen \in [Calls -> Nat]
  /\ lapsed \subseteq Calls /\ toggled \subseteq Calls

Init ==
  /\ spaces = Initial /\ unborn = Spaces \ Initial /\ emptier = None
  /\ relay = [c \in Conns |-> "out"]
  /\ queue = [c \in Conns |-> <<>>]
  /\ doing = [c \in Conns |-> NoCmd]
  /\ step = [c \in Conns |-> "idle"]
  /\ current = [c \in Conns |-> None]
  /\ view = [c \in Conns |-> None]
  /\ place = [q \in Calls |-> "idle"]
  /\ req = [q \in Calls |-> NoReq]
  /\ seen = [q \in Calls |-> 0]
  /\ lapsed = {} /\ toggled = {}

-----------------------------------------------------------------------------
(* The daemon *)

(* The workspaces that go with one: a worktree group goes with its primary.*)
Members(s) ==
  IF s = Primary /\ Cardinality(spaces \cap Group) >= 2
  THEN spaces \cap Group ELSE {s}

(* workspace.create, by CreateSpace or at a desktop. *)
Creates(s) ==
  /\ s \in unborn
  /\ spaces' = spaces \cup {s} /\ unborn' = unborn \ {s} /\ emptier' = None
  /\ UNCHANGED <<relayVars, viewVars, callVars, history>>

(* A workspace is closed at a desktop, or with its last tab or pane. *)
ClosesElsewhere(s) ==
  /\ s \in spaces
  /\ spaces' = spaces \ {s}
  /\ emptier' = IF spaces' = {} THEN None ELSE emptier
  /\ UNCHANGED <<unborn, relayVars, viewVars, callVars, history>>

-----------------------------------------------------------------------------
(* Attach and leave *)

(* Without a hint the attach lands on the active workspace and records no  *)
(* space; a resumed one records where it landed.                           *)
Attach(c) ==
  /\ relay[c] = "out"
  /\ \E s \in spaces, v \in Spaces \cup {None} :
       /\ v \in {None, s}
       /\ current' = [current EXCEPT ![c] = s]
       /\ view' = [view EXCEPT ![c] = v]
  /\ relay' = [relay EXCEPT ![c] = "serving"]
  /\ UNCHANGED <<herdrVars, queue, doing, step, callVars, history>>

RelayDone(c) ==
  doing' = [doing EXCEPT ![c] = NoCmd] /\ step' = [step EXCEPT ![c] = "idle"]

Forgets(c) ==
  /\ current' = [current EXCEPT ![c] = None]
  /\ view' = [view EXCEPT ![c] = None]

(* Wrong: what waits at the relay is not let go of. *)
LeaveKeepsQueue(c) ==
  /\ relay[c] = "serving"
  /\ relay' = [relay EXCEPT ![c] = "gone"]
  /\ RelayDone(c) /\ Forgets(c)
  /\ UNCHANGED <<herdrVars, queue, callVars, history>>

(* The inbound task ends, and with the receiver go the commands. *)
Leave(c) ==
  /\ relay[c] = "serving"
  /\ relay' = [relay EXCEPT ![c] = "gone"]
  /\ queue' = [queue EXCEPT ![c] = <<>>]
  /\ RelayDone(c) /\ Forgets(c)
  /\ UNCHANGED <<herdrVars, callVars, history>>

-----------------------------------------------------------------------------
(* The handlers *)

Goes(q, p) == place' = [place EXCEPT ![q] = p]

(* The handler returns, or its future is dropped. *)
Ends(q, p) ==
  /\ Goes(q, p)
  /\ req' = [req EXCEPT ![q] = NoReq]
  /\ seen' = [seen EXCEPT ![q] = 0]

(* Wrong: any writable relay will do. *)
MatchingOrWritable(c) ==
  IF relay[c] = "serving" THEN {c}
  ELSE {d \in Conns \ ReadOnly : relay[d] = "serving"}

(* try_route_control and resolve_space_relay: the relay of exactly this    *)
(* connection, or none.                                                    *)
Matching(c) == {d \in {c} : relay[d] = "serving"}

Command(q, o, n, s) == [op |-> o, by |-> q, conn |-> n, space |-> s]
Queues(c, cmd) == queue' = [queue EXCEPT ![c] = Append(@, cmd)]

(* GoToTab and FocusPane return as soon as the command is queued,          *)
(* SwitchSpace and TogglePaneFullscreen when the relay has replied.        *)
Routes(q) ==
  /\ place[q] = "idle"
  /\ \E o \in Awaited \cup {"focus"}, n \in Conns, s \in spaces \cup {None} :
       /\ (s # None) <=> (o = "switch")
       /\ o = "toggle" => n \notin ReadOnly
       /\ \/ Matching(n) = {} /\ Ends(q, "answered") /\ UNCHANGED queue
          \/ \E c \in Matching(n) :
               /\ Queues(c, Command(q, o, n, s))
               /\ \/ o = "focus" /\ Ends(q, "answered")
                  \/ /\ o \in Awaited /\ Goes(q, "waiting")
                     /\ req' = [req EXCEPT ![q] =
                                  [op |-> o, conn |-> n, space |-> s]]
                     /\ UNCHANGED seen
  /\ UNCHANGED <<herdrVars, relay, doing, step, viewVars, history>>

OnlyCall == UNCHANGED <<herdrVars, relayVars, viewVars, history>>

(* CloseSpace *)
Starts(q) ==
  /\ place[q] = "idle" /\ Goes(q, "count")
  /\ \E o \in Closes, n \in Conns \ ReadOnly, s \in spaces :
       req' = [req EXCEPT ![q] = [op |-> o, conn |-> n, space |-> s]]
  /\ UNCHANGED seen /\ OnlyCall

(* list_spaces before the close, and would_close_last_space. *)
Counts(q) ==
  /\ place[q] = "count"
  /\ \/ /\ req[q].op = "closeGroup" \/ Cardinality(spaces) > 1
        /\ Goes(q, IF req[q].op = "closeGroup" THEN "group" ELSE "closing")
        /\ seen' = [seen EXCEPT ![q] =
                      IF req[q].op = "closeGroup" THEN Cardinality(spaces) ELSE @]
        /\ UNCHANGED req
     \/ /\ req[q].op = "close" /\ Cardinality(spaces) <= 1
        /\ Ends(q, "answered")
     \/ Ends(q, "unsure")
  /\ OnlyCall

(* spaces_removed_by_close, a second listing, and would_close_every_space. *)
ResolvesGroup(q) ==
  /\ place[q] = "group"
  /\ LET removed == Cardinality(Members(req[q].space))
     IN \/ removed >= seen[q] /\ Ends(q, "answered")
        \/ /\ removed < seen[q] /\ Goes(q, "closing")
           /\ seen' = [seen EXCEPT ![q] = 0] /\ UNCHANGED req
  /\ OnlyCall

(* herdr closes the space, or the group; it refuses a primary alone. *)
Removes(q) ==
  /\ req[q].space \in spaces
  /\ req[q].op = "closeGroup" \/ Members(req[q].space) = {req[q].space}
  /\ spaces' = spaces \ Members(req[q].space)
  /\ emptier' = IF spaces' = {} THEN q ELSE emptier
  /\ UNCHANGED unborn

(* close_space: done, done with no answer in time, refused, or failed. *)
ClosesSpace(q) ==
  /\ place[q] = "closing"
  /\ \/ Removes(q) /\ Goes(q, "listing") /\ UNCHANGED <<req, seen>>
     \/ Removes(q) /\ Ends(q, "unsure")
     \/ Ends(q, "answered") /\ UNCHANGED herdrVars
  /\ UNCHANGED <<relayVars, viewVars, history>>

(* The blocking task outlives the handler that waited for it. *)
OrphanCloses(q) ==
  /\ place[q] = "orphan"
  /\ Removes(q) \/ UNCHANGED herdrVars
  /\ Ends(q, "unsure")
  /\ UNCHANGED <<relayVars, viewVars, history>>

(* repoint_caller_after_close: the caller looked at the closed space. *)
Repoints(q) ==
  \E c \in Matching(req[q].conn), s \in spaces :
    /\ view[c] = req[q].space
    /\ Queues(c, Command(q, "switch", req[q].conn, s))
    /\ Goes(q, "waiting") /\ UNCHANGED <<req, seen>>

Stays(q) ==
  spaces = {} \/ \A c \in Matching(req[q].conn) : view[c] # req[q].space

(* Wrong: the listing serves the re-point only, nobody is warned. *)
ListsToRepoint(q) ==
  /\ place[q] = "listing"
  /\ \/ Repoints(q)
     \/ Stays(q) /\ UNCHANGED queue /\ Ends(q, "answered")
     \/ Ends(q, "unsure") /\ UNCHANGED queue
  /\ UNCHANGED <<herdrVars, relay, doing, step, viewVars, history>>

(* list_spaces_after_close, the warning, and the caller's own relay. *)
Lists(q) ==
  /\ place[q] = "listing"
  /\ \/ Repoints(q)
     \/ /\ Stays(q) /\ UNCHANGED queue
        /\ Ends(q, IF spaces = {} THEN "warned" ELSE "answered")
     \/ Ends(q, "unsure") /\ UNCHANGED queue
  /\ UNCHANGED <<herdrVars, relay, doing, step, viewVars, history>>

Sending(c, q) == step[c] = "send" /\ doing[c].by = q

(* The caller hangs up, or the time of its wait for the relay is over.     *)
(* What is queued at the relay stays there.                                *)
GivesUp(q) ==
  /\ place[q] \notin Ended \cup {"idle", "orphan"}
  /\ \/ place[q] = "closing" /\ Goes(q, "orphan") /\ UNCHANGED <<req, seen>>
     \/ /\ place[q] # "closing"
        /\ Ends(q, IF req[q].op \in Closes THEN "unsure" ELSE "answered")
  /\ lapsed' = IF req[q].op = "toggle" /\ ~Sending(req[q].conn, q)
               THEN lapsed \cup {q} ELSE lapsed
  /\ UNCHANGED toggled
  /\ UNCHANGED <<herdrVars, relayVars, viewVars>>

Holds(c, q) == doing[c].by = q \/ \E i \in DOMAIN queue[c] : queue[c][i].by = q
AtRelay(q)  == \E c \in Conns : Holds(c, q)

(* The relay has dropped the command, and the oneshot with it. *)
Cancelled(q) ==
  /\ place[q] = "waiting" /\ ~AtRelay(q)
  /\ Ends(q, "answered") /\ OnlyCall

-----------------------------------------------------------------------------
(* The inbound task *)

(* The reply, when somebody still waits for it. *)
Replies(q) ==
  \/ place[q] = "waiting" /\ Ends(q, "answered")
  \/ place[q] # "waiting" /\ UNCHANGED callVars

Serves(c, s) == relay[c] = "serving" /\ step[c] = s
IsMove(cmd)  == cmd.op \in {"switch", "focus"}

(* The RPC has ended without the relay's reply. *)
GaveUp(cmd) == place[cmd.by] # "waiting"

(* control_rx.recv and gate_control; a toggle whose caller is gone is      *)
(* passed over.                                                            *)
Takes(c) ==
  /\ Serves(c, "idle") /\ queue[c] # <<>>
  /\ LET cmd == Head(queue[c])
         void == cmd.op = "toggle" /\ (c \in ReadOnly \/ GaveUp(cmd))
     IN \/ void /\ UNCHANGED <<doing, step>>
        \/ /\ ~void
           /\ doing' = [doing EXCEPT ![c] = cmd]
           /\ step' = [step EXCEPT ![c] = "op"]
  /\ queue' = [queue EXCEPT ![c] = Tail(@)]
  /\ UNCHANGED <<herdrVars, relay, viewVars, callVars, history>>

(* go_to_tab, focus_pane or switch_space succeeds: the wire shows another  *)
(* terminal.                                                               *)
Moves(c) ==
  /\ Serves(c, "op") /\ IsMove(doing[c])
  /\ doing[c].op = "switch" => doing[c].space \in spaces
  /\ current' = IF doing[c].op = "switch"
                THEN [current EXCEPT ![c] = doing[c].space] ELSE current
  /\ step' = [step EXCEPT ![c] = "record"]
  /\ UNCHANGED <<herdrVars, relay, queue, doing, view, callVars, history>>

RecordsSpace(c) ==
  view' = IF doing[c].op = "switch"
          THEN [view EXCEPT ![c] = doing[c].space] ELSE view

(* Wrong: the space is recorded whether the move worked or not. *)
MoveFailsRecorded(c) ==
  /\ Serves(c, "op") /\ IsMove(doing[c])
  /\ RecordsSpace(c)
  /\ Replies(doing[c].by) /\ RelayDone(c)
  /\ UNCHANGED <<herdrVars, relay, queue, current, history>>

(* It fails, and the command has no effect. *)
MoveFails(c) ==
  /\ Serves(c, "op") /\ IsMove(doing[c])
  /\ Replies(doing[c].by) /\ RelayDone(c)
  /\ UNCHANGED <<herdrVars, relay, queue, viewVars, history>>

(* Back on the inbound task: the view state follows the move. *)
Records(c) ==
  /\ Serves(c, "record")
  /\ RecordsSpace(c)
  /\ Replies(doing[c].by) /\ RelayDone(c)
  /\ UNCHANGED <<herdrVars, relay, queue, current, history>>

(* Wrong: the caller is not looked at again after the resolution. *)
ResolvesUnlooking(c) ==
  /\ Serves(c, "op") /\ doing[c].op = "toggle"
  /\ \/ step' = [step EXCEPT ![c] = "send"] /\ UNCHANGED <<doing, callVars>>
     \/ RelayDone(c) /\ Replies(doing[c].by)
  /\ UNCHANGED <<herdrVars, relay, queue, viewVars, history>>

(* toggle_fullscreen_once: the target is resolved, or refused; the caller  *)
(* may have given up meanwhile.                                            *)
Resolves(c) ==
  /\ Serves(c, "op") /\ doing[c].op = "toggle"
  /\ \/ /\ ~GaveUp(doing[c])
        /\ step' = [step EXCEPT ![c] = "send"] /\ UNCHANGED <<doing, callVars>>
     \/ RelayDone(c) /\ Replies(doing[c].by)
  /\ UNCHANGED <<herdrVars, relay, queue, viewVars, history>>

(* pane.zoom is sent, or cannot be. *)
SendsToggle(c) ==
  /\ Serves(c, "send")
  /\ toggled' = toggled \cup {doing[c].by} \/ UNCHANGED toggled
  /\ Replies(doing[c].by) /\ RelayDone(c)
  /\ UNCHANGED <<herdrVars, relay, queue, viewVars, lapsed>>

-----------------------------------------------------------------------------

CloseStep(q) ==
  \/ Counts(q) \/ ResolvesGroup(q) \/ ClosesSpace(q) \/ OrphanCloses(q)
  \/ Lists(q) \/ Cancelled(q)

RelayStep(c) ==
  \/ Takes(c) \/ Moves(c) \/ MoveFails(c) \/ Records(c)
  \/ Resolves(c) \/ SendsToggle(c)

Next ==
  \/ \E s \in Spaces : Creates(s) \/ ClosesElsewhere(s)
  \/ \E c \in Conns : Attach(c) \/ Leave(c) \/ RelayStep(c)
  \/ \E q \in Calls : Routes(q) \/ Starts(q) \/ CloseStep(q) \/ GivesUp(q)

Spec == Init /\ [][Next]_vars

-----------------------------------------------------------------------------

(* The call that takes the daemon's last workspace tells its caller so,    *)
(* unless it could not list or was itself cut short: two closes may both   *)
(* pass would_close_last_space, each counting the other's space            *)
(* (close_space_impl).                                                     *)
EmptyIsTold ==
  spaces = {} /\ emptier # None =>
    place[emptier] \in {"listing", "warned", "unsure"}

(* A client's stream is moved only by a call that names its own            *)
(* connection, whatever relays are around when the named one is gone       *)
(* (try_route_control, resolve_space_relay).                               *)
Viewing(c) == <<current[c], view[c]>>

OnlyOwnMoves ==
  [][\A c \in Conns :
       relay[c] = "serving" /\ relay'[c] = "serving"
                            /\ Viewing(c)' # Viewing(c)
         => doing[c].conn = c]_vars

(* The space recorded as the client's, which GetSpaces marks and CloseSpace*)
(* compares with, is the one the relay's layouts are read from: a switch   *)
(* that fails or whose caller is gone leaves them together (inbound.rs).   *)
ViewIsCurrent ==
  \A c \in Conns :
    view[c] # None /\ step[c] # "record" => view[c] = current[c]

(* A fullscreen toggle whose caller gave up while it was queued or being   *)
(* resolved is not sent: the caller was told it failed and may have toggled*)
(* again (toggle_fullscreen_once).                                         *)
GivenUpNotToggled == lapsed \cap toggled = {}

(* Who has a step to take: the guards of CloseStep and of RelayStep.       *)
HandlerCanStep(q) ==
  \/ place[q] \in {"count", "group", "closing", "orphan", "listing"}
  \/ place[q] = "waiting" /\ ~AtRelay(q)

RelayCanStep(c) ==
  \/ Serves(c, "idle") /\ queue[c] # <<>>
  \/ Serves(c, "op") /\ (IsMove(doing[c]) \/ doing[c].op = "toggle")
  \/ Serves(c, "send") \/ Serves(c, "record")

(* Nobody waits forever: while a call is under way or its command at a     *)
(* relay, its handler or that relay has a step to take, so a relay that    *)
(* leaves lets go of everyone who waits for it (inbound.rs, oneshots).     *)
Busy(q) == place[q] \notin Ended \cup {"idle"} \/ AtRelay(q)

NobodyStuck ==
  \A q \in Calls :
    Busy(q) => \/ HandlerCanStep(q)
               \/ \E c \in Conns : Holds(c, q) /\ RelayCanStep(c)
=============================================================================
