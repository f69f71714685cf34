-------------------------- MODULE AttachRegistry --------------------------
(***************************************************************************)
(* Who is attached: the bookkeeping side of AttachTerminal in muxrd        *)
(* (muxrd/src/relay/mod.rs, types.rs, inbound.rs).  Every attach shares    *)
(* three process-wide registries, the control registry, the view-state     *)
(* registry and the eviction registry, and the per-session client count.   *)
(*                                                                         *)
(* One element of Attaches is one AttachTerminal call, from its arrival to *)
(* the end of its inbound task.  The reader thread and the render channel  *)
(* are RelayThreads' business; RelayAttach puts the two together.          *)
(***************************************************************************)
EXTENDS Integers, FiniteSets

CONSTANTS
  Attaches,   \* the AttachTerminal calls received
  Keys,       \* eviction keys: (token identity, client_instance_id)
  NoKey,      \* key of an attach that takes no part in eviction
  NoAttach,   \* "no holder" in the eviction registry
  KeyOf       \* the key of each attach (AttachKey::new)

ASSUME RegistryAssumption ==
  /\ KeyOf \in [Attaches -> Keys \cup {NoKey}]
  /\ NoKey \notin Keys
  /\ NoAttach \notin Attaches
  /\ IsFiniteSet(Attaches)

VARIABLES
  pc,           \* where the handler, then the inbound task, of an attach is
  arrival,      \* its arrival stamp, 0 before it arrived
  lastArrival,  \* ATTACH_ARRIVAL
  fired,        \* EvictSignal.fired of its lease
  slot,         \* AttachRegistry.slots: the attach holding each key
  control,      \* attaches with a ControlEntry
  view,         \* attaches with a ViewStateEntry
  clients       \* SessionClients: the session's attached-client count

regVars == <<pc, arrival, lastArrival, fired, slot, control, view, clients>>

(***************************************************************************)
(* "opening" and "viewing" are the awaits of the handler; "viewed" and     *)
(* "routable" are points of its synchronous tail, which other tasks can    *)
(* observe but no cancellation can hit.  "leaving" .. "unviewed" is the    *)
(* teardown after the select loop; in "guarddrop" the ShutdownGuard drops. *)
(***************************************************************************)
Setup      == {"idle", "opening", "viewing", "viewed", "routable"}
Teardown   == {"leaving", "unrouted", "unviewed"}
Pcs        == Setup \cup {"serving"} \cup Teardown \cup {"guarddrop", "done"}

(* From AttachRegistry::register until the AttachLease is dropped. *)
Registered == {"serving"} \cup Teardown

(* From SessionClients::attach until the ClientGuard is dropped. *)
Counted    == (Pcs \ {"idle", "opening", "done"})

TypeOK ==
  /\ pc \in [Attaches -> Pcs]
  /\ arrival \in [Attaches -> Nat]
  /\ lastArrival \in Nat
  /\ fired \in [Attaches -> BOOLEAN]
  /\ slot \in [Keys -> Attaches \cup {NoAttach}]
  /\ control \in SUBSET Attaches
  /\ view \in SUBSET Attaches
  /\ clients \in Int

Init ==
  /\ pc = [a \in Attaches |-> "idle"]
  /\ arrival = [a \in Attaches |-> 0]
  /\ lastArrival = 0
  /\ fired = [a \in Attaches |-> FALSE]
  /\ slot = [k \in Keys |-> NoAttach]
  /\ control = {}
  /\ view = {}
  /\ clients = 0

Move(a, from, to) ==
  /\ pc[a] = from
  /\ pc' = [pc EXCEPT ![a] = to]

-----------------------------------------------------------------------------
(* Setup: the attach_relay handler. *)

Arrive(a) ==
  /\ Move(a, "idle", "opening")
  /\ lastArrival' = lastArrival + 1
  /\ arrival' = [arrival EXCEPT ![a] = lastArrival + 1]
  /\ UNCHANGED <<fired, slot, control, view, clients>>

(* A bad first frame, an unknown session, a failed backend open, or the    *)
(* future dropped before the open: nothing was counted or registered.      *)
SetupFails(a) ==
  /\ Move(a, "opening", "done")
  /\ UNCHANGED <<arrival, lastArrival, fired, slot, control, view, clients>>

BackendOpened(a) ==
  /\ Move(a, "opening", "viewing")
  /\ clients' = clients + 1
  /\ UNCHANGED <<arrival, lastArrival, fired, slot, control, view>>

(* Wrong: an await after the registries were filled, hit by cancellation.  *)
CancelSetupLate(a) ==
  /\ Move(a, "routable", "guarddrop")
  /\ UNCHANGED <<arrival, lastArrival, fired, slot, control, view, clients>>

(* The handler's future is dropped at its last await, the view-state       *)
(* query: what it holds by then is the count and the reader thread.        *)
CancelSetup(a) ==
  /\ Move(a, "viewing", "guarddrop")
  /\ UNCHANGED <<arrival, lastArrival, fired, slot, control, view, clients>>

InsertView(a) ==
  /\ Move(a, "viewing", "viewed")
  /\ view' = view \cup {a}
  /\ UNCHANGED <<arrival, lastArrival, fired, slot, control, clients>>

InsertControl(a) ==
  /\ Move(a, "viewed", "routable")
  /\ control' = control \cup {a}
  /\ UNCHANGED <<arrival, lastArrival, fired, slot, view, clients>>

(* Wrong: the last to register wins, whenever it arrived. *)
RegisterLastWins(a) ==
  LET k == KeyOf[a] IN
  /\ Move(a, "routable", "serving")
  /\ IF k = NoKey THEN UNCHANGED <<slot, fired>>
     ELSE /\ slot' = [slot EXCEPT ![k] = a]
          /\ fired' = [b \in Attaches |-> fired[b] \/ b = slot[k]]
  /\ UNCHANGED <<arrival, lastArrival, control, view, clients>>

(* AttachRegistry::register, one atomic entry operation: a vacant key is   *)
(* taken, an earlier holder is replaced and signalled, and under a later   *)
(* holder the registrant itself is the stale one.                          *)
Register(a) ==
  LET k == KeyOf[a] IN
  /\ Move(a, "routable", "serving")
  /\ \/ /\ k = NoKey
        /\ UNCHANGED <<slot, fired>>
     \/ /\ k # NoKey
        /\ slot[k] = NoAttach
        /\ slot' = [slot EXCEPT ![k] = a]
        /\ UNCHANGED fired
     \/ /\ k # NoKey
        /\ slot[k] # NoAttach
        /\ arrival[slot[k]] > arrival[a]
        /\ fired' = [fired EXCEPT ![a] = TRUE]
        /\ UNCHANGED slot
     \/ /\ k # NoKey
        /\ slot[k] # NoAttach
        /\ ~(arrival[slot[k]] > arrival[a])
        /\ slot' = [slot EXCEPT ![k] = a]
        /\ fired' = [fired EXCEPT ![slot[k]] = TRUE]
  /\ UNCHANGED <<arrival, lastArrival, control, view, clients>>

-----------------------------------------------------------------------------
(* The inbound task: out of its select loop, then the teardown. *)

(* For any reason: evicted, reader gone, token refused, stream ended. *)
LeaveLoop(a) ==
  /\ Move(a, "serving", "leaving")
  /\ UNCHANGED <<arrival, lastArrival, fired, slot, control, view, clients>>

(* Wrong: the view state goes first. *)
RemoveViewFirst(a) ==
  /\ Move(a, "leaving", "unrouted")
  /\ view' = view \ {a}
  /\ UNCHANGED <<arrival, lastArrival, fired, slot, control, clients>>

RemoveControl(a) ==
  /\ Move(a, "leaving", "unrouted")
  /\ control' = control \ {a}
  /\ UNCHANGED <<arrival, lastArrival, fired, slot, view, clients>>

RemoveView(a) ==
  /\ Move(a, "unrouted", "unviewed")
  /\ view' = view \ {a}
  /\ UNCHANGED <<arrival, lastArrival, fired, slot, control, clients>>

(* Wrong: the key is released whoever holds it. *)
DropLeaseOfAny(a) ==
  /\ Move(a, "unviewed", "guarddrop")
  /\ slot' = [k \in Keys |-> IF k = KeyOf[a] THEN NoAttach ELSE slot[k]]
  /\ UNCHANGED <<arrival, lastArrival, fired, control, view, clients>>

(* Wrong: the key is not released. *)
DropLeaseKeepsSlot(a) ==
  /\ Move(a, "unviewed", "guarddrop")
  /\ UNCHANGED <<arrival, lastArrival, fired, slot, control, view, clients>>

(* AttachLease::drop: the key is released only if this relay holds it. *)
DropLease(a) ==
  /\ Move(a, "unviewed", "guarddrop")
  /\ slot' = [k \in Keys |-> IF k = KeyOf[a] /\ slot[k] = a THEN NoAttach ELSE slot[k]]
  /\ UNCHANGED <<arrival, lastArrival, fired, control, view, clients>>

(* The reader is joined; the ClientGuard is the last thing to drop. *)
Finish(a) ==
  /\ Move(a, "guarddrop", "done")
  /\ clients' = clients - 1
  /\ UNCHANGED <<arrival, lastArrival, fired, slot, control, view>>

-----------------------------------------------------------------------------
Step(a) ==
  \/ Arrive(a) \/ SetupFails(a) \/ BackendOpened(a) \/ CancelSetup(a)
  \/ InsertView(a) \/ InsertControl(a) \/ Register(a)
  \/ LeaveLoop(a) \/ RemoveControl(a) \/ RemoveView(a) \/ DropLease(a)
  \/ Finish(a)

(* Every call has come to its end. *)
AllDone == (\A a \in Attaches : pc[a] = "done") /\ UNCHANGED regVars

Next == (\E a \in Attaches : Step(a)) \/ AllDone

Spec == Init /\ [][Next]_regVars

-----------------------------------------------------------------------------
(* A keyed relay that is still registered and was not told to stop holds   *)
(* its key's slot.  Hence of the attaches of one client view (same token,  *)
(* same client_instance_id) at most one runs un-evicted, however their     *)
(* setups and teardowns interleave (AttachRegistry::register: "of two      *)
(* racing attaches exactly one ends up holding it").                       *)
LiveHoldsSlot ==
  \A a \in Attaches :
    pc[a] \in Registered /\ KeyOf[a] # NoKey /\ ~fired[a] => slot[KeyOf[a]] = a

(* A slot never names an attach that failed, was cancelled, was evicted or *)
(* ended: it leads to a live relay of that key, which the next attach can  *)
(* signal.  A torn-down relay removes its own slot and never a successor's.*)
SlotLeadsToLive ==
  \A k \in Keys :
    slot[k] # NoAttach =>
      /\ KeyOf[slot[k]] = k
      /\ pc[slot[k]] \in Registered
      /\ ~fired[slot[k]]

(* An RPC that finds a relay's ControlEntry finds its view state: the      *)
(* entry is published after the view state and withdrawn before it         *)
(* (mod.rs, FX-QUERY part C; inbound.rs, the end of inbound_loop).         *)
RoutableHasView ==
  \A a \in control : a \in view /\ pc[a] \in {"routable", "serving", "leaving"}

(* However an attach ended, cancelled setups included, no registry still   *)
(* names it, and the count is that of the attaches still in progress.      *)
DoneIsForgotten ==
  /\ \A a \in Attaches : pc[a] \in {"guarddrop", "done"} =>
       /\ a \notin control \cup view
       /\ \A k \in Keys : slot[k] # a
  /\ clients = Cardinality({a \in Attaches : pc[a] \in Counted})

(* A relay is signalled only by an attach of its own key that arrived      *)
(* later, has finished its setup and holds the slot: a failed, cancelled   *)
(* or stale re-attach never evicts the live one (mod.rs, 3a).              *)
OnlyALaterAttachEvicts ==
  [][\A a \in Attaches :
       ~fired[a] /\ fired'[a] =>
         \E b \in Attaches :
           /\ KeyOf[b] = KeyOf[a]
           /\ arrival[b] > arrival[a]
           /\ slot'[KeyOf[a]] = b
           /\ pc'[b] \in Registered]_regVars

-----------------------------------------------------------------------------
(* How far an attach has come, for its client. *)
PhaseOf(a) ==
  IF pc[a] = "idle" THEN "new"
  ELSE IF pc[a] \in Setup THEN "setup"
  ELSE IF pc[a] \in Registered THEN IF fired[a] THEN "dismissed" ELSE "live"
  ELSE "gone"

Promise == INSTANCE AttachPromise WITH phase <- [a \in Attaches |-> PhaseOf(a)],
                                       stamp <- arrival

(* The registry, its signals and its teardown implement AttachPromise:     *)
(* every entry operation of the registry is a take-over, a refusal or      *)
(* nothing, in the order of the arrivals (AttachRegistry::register).       *)
KeepsPromise == Promise!Spec
=============================================================================
