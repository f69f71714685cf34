---------------------------- MODULE RelayAttach ----------------------------
(***************************************************************************)
(* AttachTerminal in muxrd, whole: AttachRegistry (who is attached) and    *)
(* RelayThreads (what runs for an attach) composed.  A step of attach_relay*)
(* or inbound_loop that touches both sides is one joint action; every      *)
(* other step leaves the other side alone.                                 *)
(***************************************************************************)
EXTENDS Integers, FiniteSets

CONSTANTS Attaches, Keys, NoKey, NoAttach, KeyOf, Messages, ChanCap, Workers

ASSUME AttachAssumption ==
  /\ KeyOf \in [Attaches -> Keys \cup {NoKey}]
  /\ NoKey \notin Keys
  /\ NoAttach \notin Attaches
  /\ IsFiniteSet(Attaches)
  /\ Messages \subseteq {"render", "exit", "other", "closed"}
  /\ ChanCap \in Nat \ {0}
  /\ Workers \in Nat \ {0}

VARIABLES
  pc, arrival, lastArrival, fired, slot, control, view, clients,
  owner, reader, chan, stream, stop, nudged, peer

Reg == INSTANCE AttachRegistry
Thr == INSTANCE RelayThreads WITH Relays <- Attaches

regVars == <<pc, arrival, lastArrival, fired, slot, control, view, clients>>
thrVars == <<owner, reader, chan, stream, stop, nudged, peer>>
vars == <<regVars, thrVars>>

TypeOK == Reg!TypeOK /\ Thr!TypeOK

Init == Reg!Init /\ Thr!Init

-----------------------------------------------------------------------------
(* Steps of the handler and the inbound task that concern both sides. *)

BackendOpened(a) == Reg!BackendOpened(a) /\ Thr!Spawn(a)

(* Cancellation at the view-state await drops the guard with the future. *)
CancelSetup(a)   == Reg!CancelSetup(a) /\ Thr!Abandon(a)

(* Registration, the spawn of the inbound task and the returned stream.   *)
Register(a)      == Reg!Register(a) /\ Thr!Serve(a)

(* The arms of the select loop that leave it. *)
Evicted(a)       == fired[a] /\ Reg!LeaveLoop(a) /\ Thr!LeaveLoop(a)
ReaderEnded(a)   == Reg!LeaveLoop(a) /\ Thr!ReaderEnded(a)
RequestGone(a)   == Reg!LeaveLoop(a) /\ Thr!RequestGone(a)
Dismissed(a)     == Reg!LeaveLoop(a) /\ Thr!Dismissed(a)

DropLease(a)     == Reg!DropLease(a) /\ Thr!Unregistered(a)
Finish(a)        == Reg!Finish(a) /\ Thr!Joined(a)

(* Steps of one side. *)

Bookkeeping(a) ==
  /\ Thr!WorkerFree
  /\ \/ Reg!Arrive(a) \/ Reg!SetupFails(a)
     \/ Reg!InsertView(a) \/ Reg!InsertControl(a)
     \/ Reg!RemoveControl(a) \/ Reg!RemoveView(a)
  /\ UNCHANGED thrVars

GuardStep(a)      == (Thr!SetStop(a) \/ Thr!Nudge(a)) /\ UNCHANGED regVars
ReaderStep(a)     == Thr!ReaderStep(a) /\ UNCHANGED regVars
ReaderRecv(a)     == Thr!ReaderRecv(a) /\ UNCHANGED regVars
ClientReads(a)    == Thr!ClientReads(a) /\ UNCHANGED regVars
DropStream(a)     == Thr!DropStream(a) /\ UNCHANGED regVars
PeerGone(a)       == pc[a] \notin {"idle", "done"} /\ Thr!PeerGone(a) /\ UNCHANGED regVars

Quiet ==
  /\ Thr!Starved \/ \A a \in Attaches : pc[a] = "done" \/ Thr!Wedged(a)
  /\ UNCHANGED vars

Next ==
  \/ \E a \in Attaches :
       \/ BackendOpened(a) \/ CancelSetup(a) \/ Register(a)
       \/ Evicted(a) \/ ReaderEnded(a) \/ RequestGone(a) \/ Dismissed(a)
       \/ DropLease(a) \/ Finish(a)
       \/ Bookkeeping(a) \/ GuardStep(a)
       \/ ReaderStep(a) \/ ReaderRecv(a)
       \/ ClientReads(a) \/ DropStream(a) \/ PeerGone(a)
  \/ Quiet

(* The setup's own progress from the open on, and the inbound task's.  A   *)
(* client need not attach nor read, and an open may take as long as it     *)
(* takes.                                                                  *)
TaskStep(a) ==
  \/ Register(a) \/ CancelSetup(a)
  \/ Evicted(a) \/ ReaderEnded(a) \/ RequestGone(a)
  \/ (pc[a] \notin {"idle", "opening"} /\ Bookkeeping(a))
  \/ DropLease(a) \/ GuardStep(a) \/ Finish(a)

Fairness ==
  \A a \in Attaches :
    /\ WF_vars(TaskStep(a))
    /\ WF_vars(ReaderStep(a))
    /\ WF_vars(DropStream(a))

Spec == Init /\ [][Next]_vars
FairSpec == Spec /\ Fairness

-----------------------------------------------------------------------------
(* What a ControlEntry routes to can answer: its view state is published,  *)
(* its reader was spawned and nobody asked it to stop, and the channel's   *)
(* Receiver is held (mod.rs, FX-QUERY part C; the teardown order of        *)
(* inbound_loop).                                                          *)
RoutableIsReady ==
  \A a \in control :
    /\ a \in view
    /\ reader[a] # "none" /\ ~stop[a]
    /\ stream[a] # "none"

(* A stop flag is never raised for a relay whose key still points at it:   *)
(* by the time the reader is asked to stop, the next attach of the same    *)
(* client view finds the slot free or its successor in it.                 *)
StoppedHoldsNoSlot ==
  \A k \in Keys : slot[k] # NoAttach => ~stop[slot[k]]

(* No teardown nudge is lost to a reader that parks after it, whatever the *)
(* registries do meanwhile (reader.rs, ShutdownGuard::drop).               *)
NoLostNudge == Thr!NoLostNudge

(* An attach that has ended, its client no longer counted, has no thread   *)
(* running and no Receiver of its own, also when its setup failed or was   *)
(* cancelled (mod.rs, attach_relay: the order in which its locals drop).   *)
DoneIsReaped ==
  \A a \in Attaches : pc[a] = "done" => reader[a] \in {"none", "exited"} /\ stream[a] # "local"

(* Who goes on for a relay: its task, which needs a worker, or its reader. *)
CanGoOn(a) ==
  \/ pc[a] \in Reg!Registered
  \/ owner[a] \in {"guarddrop", "stopping"}
  \/ owner[a] = "joining" /\ reader[a] = "exited"
  \/ reader[a] = "top" \/ (reader[a] = "recv" /\ nudged[a])
  \/ reader[a] \in {"send", "lastsend"} /\ (chan[a] < ChanCap \/ stream[a] = "dropped")

(* Its reader waits for the client to read, or for the call to end.        *)
AwaitsClient(a) == Thr!Blocked(a) /\ stream[a] = "response"

(* An evicted relay that has not ended waits for nobody but its own task,  *)
(* its own reader, or a client whose stream is full: the chain of task,    *)
(* join, reader and channel never closes on itself as a cancelled setup's  *)
(* does (Wedged), and the signal never reaches one of those.  What         *)
(* LeaverEnds rests on (AttachRegistry::register, ShutdownGuard::drop).    *)
EvictedNotStuck ==
  \A a \in Attaches :
    fired[a] /\ pc[a] # "done" => CanGoOn(a) \/ AwaitsClient(a)

(* Relay a has a reason to go that is not taken back.                      *)
HasToEnd(a) ==
  fired[a] \/ pc[a] = "leaving" \/ (pc[a] = "serving" /\ reader[a] = "exited")

(* A relay that was evicted, whose reader has returned by itself, or that  *)
(* left its loop for any other reason comes to its end: entries removed,   *)
(* reader joined, count released, whatever the reader was doing and whether*)
(* or not the client keeps the request side open, unless it waits for its  *)
(* client for good or joins have taken every worker.  A client that reads, *)
(* and a call that has ended, never keep their relay waiting for good      *)
(* (AttachLease::evicted, READER_EXIT_POLL, ShutdownGuard::drop).          *)
LeaverEnds ==
  \A a \in Attaches :
    []<>~(AwaitsClient(a) \/ Thr!Starved) => (HasToEnd(a) ~> pc[a] = "done")

(* types.rs 340-346: a superseded relay "leaves its loop through the same  *)
(* teardown a client-closed stream takes", then the guard's drop "stops    *)
(* and joins the reader thread, which ends the outbound stream".           *)
SupersededEnds == \A a \in Attaches : fired[a] ~> pc[a] = "done"
=============================================================================
