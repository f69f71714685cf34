--------------------------- MODULE RelayThreads ---------------------------
(***************************************************************************)
(* What runs for an open attach in muxrd (muxrd/src/relay/reader.rs,       *)
(* mod.rs, inbound.rs): the blocking reader thread, the bounded channel    *)
(* from it to the response stream, the task that owns the thread through   *)
(* its ShutdownGuard, and the connection task that serves the client.      *)
(*                                                                         *)
(* Frames are counted, not inspected.  A relay is an attach from the       *)
(* moment its backend is open.                                             *)
(***************************************************************************)
EXTENDS Naturals, FiniteSets

CONSTANTS
  Relays,     \* the attaches that may get as far as an open backend
  Messages,   \* what their sessions emit unprompted: within MessageKinds
  ChanCap,    \* RENDER_CHANNEL_BOUND
  Workers     \* tokio worker threads of the runtime

(* What the reader tells apart in what recv returns; "closed" is None.     *)
(* What is assumed of the constants is in RelayAttach.                     *)
MessageKinds == {"render", "exit", "other", "closed"}

VARIABLES
  owner,    \* where the owner of the ShutdownGuard is
  reader,   \* where the reader thread is
  chan,     \* frames queued in the render channel
  stream,   \* who owns the channel's Receiver
  stop,     \* the stop flag shared with the reader
  nudged,   \* the teardown nudge was sent and not yet answered
  peer      \* the call is still open, as far as muxrd's connection knows

thrVars == <<owner, reader, chan, stream, stop, nudged, peer>>

(***************************************************************************)
(* The owner is the handler's future ("setup"), then the inbound task      *)
(* ("serving", "leaving"); from "guarddrop" on ShutdownGuard::drop runs.   *)
(* The Receiver is a local of the handler, then the response stream's.     *)
(***************************************************************************)
Owners  == {"none", "setup", "serving", "leaving", "guarddrop", "stopping",
            "joining", "done"}
Readers == {"none", "top", "recv", "send", "lastsend", "exited"}
Streams == {"none", "local", "response", "dropped"}

TypeOK ==
  /\ owner \in [Relays -> Owners]
  /\ reader \in [Relays -> Readers]
  /\ chan \in [Relays -> 0..ChanCap]
  /\ stream \in [Relays -> Streams]
  /\ stop \in [Relays -> BOOLEAN]
  /\ nudged \in [Relays -> BOOLEAN]
  /\ peer \in [Relays -> BOOLEAN]

Init ==
  /\ owner = [r \in Relays |-> "none"]
  /\ reader = [r \in Relays |-> "none"]
  /\ chan = [r \in Relays |-> 0]
  /\ stream = [r \in Relays |-> "none"]
  /\ stop = [r \in Relays |-> FALSE]
  /\ nudged = [r \in Relays |-> FALSE]
  /\ peer = [r \in Relays |-> TRUE]

-----------------------------------------------------------------------------
(***************************************************************************)
(* The join in ShutdownGuard::drop is a blocking std join on a tokio       *)
(* worker: until the reader has returned, that worker polls nothing else.  *)
(* Every asynchronous step needs a worker that is not parked in a join.    *)
(***************************************************************************)
Joining == {r \in Relays : owner[r] = "joining" /\ reader[r] # "exited"}
WorkerFree == Cardinality(Joining) < Workers

OwnerMoves(r, from, to) ==
  /\ owner[r] = from
  /\ owner' = [owner EXCEPT ![r] = to]

-----------------------------------------------------------------------------
(* The owner: handler, then inbound task. *)

(* The backend is open: queue the connection_id frame, spawn the reader. *)
Spawn(r) ==
  /\ OwnerMoves(r, "none", "setup")
  /\ WorkerFree
  /\ chan' = [chan EXCEPT ![r] = 1]
  /\ stream' = [stream EXCEPT ![r] = "local"]
  /\ reader' = [reader EXCEPT ![r] = "top"]
  /\ UNCHANGED <<stop, nudged, peer>>

(* Wrong: the Receiver stays with the handler's state. *)
ServeKeepsReceiver(r) ==
  /\ OwnerMoves(r, "setup", "serving")
  /\ WorkerFree
  /\ UNCHANGED <<reader, chan, stream, stop, nudged, peer>>

(* The handler hands the guard to the inbound task and returns the stream. *)
Serve(r) ==
  /\ OwnerMoves(r, "setup", "serving")
  /\ WorkerFree
  /\ stream' = [stream EXCEPT ![r] = "response"]
  /\ UNCHANGED <<reader, chan, stop, nudged, peer>>

(* The client is gone while the handler awaits: its future is dropped, and *)
(* with it its locals in reverse order of declaration, the guard first.    *)
Abandon(r) ==
  /\ ~peer[r]
  /\ OwnerMoves(r, "setup", "guarddrop")
  /\ WorkerFree
  /\ UNCHANGED <<reader, chan, stream, stop, nudged, peer>>

LeaveLoop(r) ==
  /\ OwnerMoves(r, "serving", "leaving")
  /\ WorkerFree
  /\ UNCHANGED <<reader, chan, stream, stop, nudged, peer>>

(* Wrong: the poll looks at a guard that has no thread. *)
ReaderEndUnseen(r) == reader[r] = "none" /\ LeaveLoop(r)

(* READER_EXIT_POLL found the thread finished. *)
ReaderEnded(r) == reader[r] = "exited" /\ LeaveLoop(r)
(* The request stream ended or failed because the client is gone. *)
RequestGone(r) == ~peer[r] /\ LeaveLoop(r)
(* The client closed its side, was evicted, or its token was refused. *)
Dismissed(r)   == LeaveLoop(r)

(* The registries are cleaned up; the guard is about to drop. *)
Unregistered(r) ==
  /\ OwnerMoves(r, "leaving", "guarddrop")
  /\ WorkerFree
  /\ UNCHANGED <<reader, chan, stream, stop, nudged, peer>>

(* ShutdownGuard::drop, step 1: ask the reader to stop. *)
SetStop(r) ==
  /\ OwnerMoves(r, "guarddrop", "stopping")
  /\ WorkerFree
  /\ stop' = [stop EXCEPT ![r] = TRUE]
  /\ UNCHANGED <<reader, chan, stream, nudged, peer>>

(* Wrong: nothing is sent to wake the reader. *)
NudgeSkipped(r) ==
  /\ OwnerMoves(r, "stopping", "joining")
  /\ WorkerFree
  /\ UNCHANGED <<reader, chan, stream, stop, nudged, peer>>

(* Step 2: wake its parked recv, with a resize or (read-only) ClientExited. *)
Nudge(r) ==
  /\ OwnerMoves(r, "stopping", "joining")
  /\ WorkerFree
  /\ nudged' = [nudged EXCEPT ![r] = TRUE]
  /\ UNCHANGED <<reader, chan, stream, stop, peer>>

(* Wrong: the thread is detached instead of joined. *)
JoinSkipped(r) ==
  /\ OwnerMoves(r, "joining", "done")
  /\ stream' = [stream EXCEPT ![r] = IF @ = "local" THEN "dropped" ELSE @]
  /\ UNCHANGED <<reader, chan, stop, nudged, peer>>

(* Step 3: the join returns and the rest of the owner's state drops: in an *)
(* abandoned setup, that is where the channel's Receiver goes.             *)
Joined(r) ==
  /\ OwnerMoves(r, "joining", "done")
  /\ reader[r] = "exited"
  /\ stream' = [stream EXCEPT ![r] = IF @ = "local" THEN "dropped" ELSE @]
  /\ UNCHANGED <<reader, chan, stop, nudged, peer>>

-----------------------------------------------------------------------------
(* The reader: render_loop, on a std thread of its own. *)

ReaderMoves(r, from, to) ==
  /\ reader[r] = from
  /\ reader' = [reader EXCEPT ![r] = to]
  /\ UNCHANGED <<owner, stream, stop, peer>>

ReaderTop(r) ==
  /\ ReaderMoves(r, "top", IF stop[r] THEN "exited" ELSE "recv")
  /\ UNCHANGED <<chan, nudged>>

(* What the loop does with what recv returned. *)
AfterRecv(r, msg) ==
  IF msg = "closed" \/ stop[r] THEN "exited"
  ELSE IF msg = "render" THEN "send"
  ELSE IF msg = "exit" THEN "lastsend"
  ELSE "top"

(* recv returns by itself: the session rendered, ended or said something. *)
ReaderRecv(r) ==
  /\ \E msg \in Messages : ReaderMoves(r, "recv", AfterRecv(r, msg))
  /\ UNCHANGED <<chan, nudged>>

(* recv returns because the backend answered the teardown nudge. *)
ReaderWoken(r) ==
  /\ nudged[r]
  /\ nudged' = [nudged EXCEPT ![r] = FALSE]
  /\ \E msg \in {"render", "closed"} : ReaderMoves(r, "recv", AfterRecv(r, msg))
  /\ UNCHANGED chan

(* blocking_send waits for room ... *)
ReaderSend(r) ==
  /\ chan[r] < ChanCap
  /\ stream[r] # "dropped"
  /\ \/ ReaderMoves(r, "send", "top")
     \/ ReaderMoves(r, "lastsend", "exited")
  /\ chan' = [chan EXCEPT ![r] = @ + 1]
  /\ UNCHANGED nudged

(* ... and fails once the Receiver is gone. *)
ReaderSendFails(r) ==
  /\ stream[r] = "dropped"
  /\ \/ ReaderMoves(r, "send", "exited")
     \/ ReaderMoves(r, "lastsend", "exited")
  /\ UNCHANGED <<chan, nudged>>

-----------------------------------------------------------------------------
(* The client, and the connection task that serves it. *)

(* The call ends for muxrd's connection: it is closed or reset, or its     *)
(* keepalive ran out.  A phone that went away behind a proxy which keeps   *)
(* its own connection is none of these: it is a client that never reads,   *)
(* as is one that keeps the call open and stops reading.                   *)
PeerGone(r) ==
  /\ owner[r] # "done"
  /\ peer[r]
  /\ peer' = [peer EXCEPT ![r] = FALSE]
  /\ UNCHANGED <<owner, reader, chan, stream, stop, nudged>>

(* The connection task pulls a frame off the response stream. *)
ClientReads(r) ==
  /\ peer[r]
  /\ stream[r] = "response"
  /\ chan[r] > 0
  /\ WorkerFree
  /\ chan' = [chan EXCEPT ![r] = @ - 1]
  /\ UNCHANGED <<owner, reader, stream, stop, nudged, peer>>

(* The connection task drops the stream of a call that has ended. *)
DropStream(r) ==
  /\ ~peer[r]
  /\ stream[r] = "response"
  /\ WorkerFree
  /\ stream' = [stream EXCEPT ![r] = "dropped"]
  /\ UNCHANGED <<owner, reader, chan, stop, nudged, peer>>

-----------------------------------------------------------------------------
ReaderStep(r) ==
  ReaderTop(r) \/ ReaderWoken(r) \/ ReaderSend(r) \/ ReaderSendFails(r)

OwnerStep(r) ==
  \/ ReaderEnded(r) \/ RequestGone(r) \/ Unregistered(r)
  \/ SetStop(r) \/ Nudge(r) \/ Joined(r)

(***************************************************************************)
(* A join that waits for a reader that waits for room in the channel.  In  *)
(* an abandoned setup (Wedged) nobody makes room, and the Receiver drops   *)
(* only after the join: see NoPathLeaksAThread.  Once the stream was       *)
(* returned, the connection task makes room as fast as the client reads;   *)
(* when such joins have taken every worker (Starved), it cannot.           *)
(***************************************************************************)
Blocked(r) ==
  /\ owner[r] = "joining" /\ stream[r] # "dropped"
  /\ reader[r] \in {"send", "lastsend"} /\ chan[r] = ChanCap

Wedged(r) == Blocked(r) /\ stream[r] = "local"

Starved == ~WorkerFree /\ \A r \in Joining : Blocked(r)

(* Every relay has ended, or never will. *)
Quiet ==
  /\ Starved \/ \A r \in Relays : owner[r] = "done" \/ Wedged(r)
  /\ UNCHANGED thrVars

Next ==
  \/ \E r \in Relays :
       \/ Spawn(r) \/ Serve(r) \/ Abandon(r) \/ Dismissed(r)
       \/ OwnerStep(r) \/ ReaderStep(r) \/ ReaderRecv(r)
       \/ ClientReads(r) \/ DropStream(r) \/ PeerGone(r)
  \/ Quiet

(***************************************************************************)
(* The runtime polls every ready task as long as a worker is free, the OS  *)
(* schedules every thread, the backend answers a nudge, and the stream of  *)
(* a call that has ended is dropped.  No session has to emit anything, and *)
(* no client has to attach, to leave or to read.                           *)
(***************************************************************************)
Fairness ==
  \A r \in Relays :
    /\ WF_thrVars(Serve(r) \/ Abandon(r))
    /\ WF_thrVars(OwnerStep(r))
    /\ WF_thrVars(ReaderStep(r))
    /\ WF_thrVars(DropStream(r))

Spec == Init /\ [][Next]_thrVars
FairSpec == Spec /\ Fairness

-----------------------------------------------------------------------------
(* A reader that is parked for good although its owner asked it to stop    *)
(* has a wake-up on the way, or is parked on a send: the nudge comes after *)
(* the flag, so no wake-up is spent on a reader that then parks again      *)
(* (reader.rs, ShutdownGuard::drop).                                       *)
NoLostNudge ==
  \A r \in Relays : owner[r] = "joining" /\ reader[r] = "recv" => nudged[r]

(* Nothing outlives its owner: once the owner is done the thread has       *)
(* returned and no Receiver keeps the channel alive.                       *)
DoneIsReaped ==
  \A r \in Relays : owner[r] = "done" => reader[r] = "exited" /\ stream[r] # "local"

(* mod.rs, "Lifecycle / clean shutdown": backpressure and the stop flag    *)
(* wind the reader down "so no path leaks a thread".  Here every client    *)
(* reads as fast as its stream allows.                                     *)
NoPathLeaksAThread ==
  (\A r \in Relays : WF_thrVars(ClientReads(r))) =>
    \A r \in Relays : stop[r] ~> reader[r] = "exited"
=============================================================================
