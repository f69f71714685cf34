----------------------- MODULE AttachRegistry_proofs -----------------------
(***************************************************************************)
(* Proofs about AttachRegistry, for any set of attaches and keys.          *)
(*                                                                         *)
(* None of the properties is inductive by itself.  Around them:            *)
(*   - ArrivalsDiffer: stamps of arrived attaches are positive, distinct   *)
(*     and at most lastArrival, so "arrived later" is a strict order;      *)
(*   - EntriesFollowPc: the registries hold an attach exactly in the       *)
(*     positions between its insert and its remove;                        *)
(*   - FiredOnceRegistered: only an attach that got to register is ever    *)
(*     signalled;                                                          *)
(*   - CountFollowsPc: the count is the number of counted attaches.        *)
(* Then that the registry keeps AttachPromise, and what follows from the   *)
(* promise alone.                                                          *)
(***************************************************************************)
EXTENDS AttachRegistry, FiniteSetTheorems, TLAPS

ArrivalsDiffer ==
  /\ \A a \in Attaches : pc[a] # "idle" => arrival[a] \in 1..lastArrival
  /\ \A a, b \in Attaches :
       a # b /\ pc[a] # "idle" /\ pc[b] # "idle" => arrival[a] # arrival[b]
  /\ \A a \in Attaches : arrival[a] <= lastArrival

EntriesFollowPc ==
  /\ \A a \in Attaches :
       a \in control <=> pc[a] \in {"routable", "serving", "leaving"}
  /\ \A a \in Attaches :
       a \in view <=> pc[a] \in {"viewed", "routable", "serving", "leaving", "unrouted"}

FiredOnceRegistered ==
  \A a \in Attaches : fired[a] => pc[a] \in Registered \cup {"guarddrop", "done"}

CountedNow == {a \in Attaches : pc[a] \in Counted}
CountFollowsPc == clients = Cardinality(CountedNow)

(* What Register relies on and what the registry promises. *)
RegInv ==
  /\ TypeOK
  /\ ArrivalsDiffer
  /\ EntriesFollowPc
  /\ FiredOnceRegistered
  /\ LiveHoldsSlot
  /\ SlotLeadsToLive

-----------------------------------------------------------------------------
LEMMA InitRegInv == Init => RegInv
  BY RegistryAssumption DEF Init, RegInv, TypeOK, ArrivalsDiffer, EntriesFollowPc,
     FiredOnceRegistered, LiveHoldsSlot, SlotLeadsToLive, Registered, Pcs, Setup, Teardown

LEMMA StutterRegInv == RegInv /\ UNCHANGED regVars => RegInv'
  BY DEF RegInv, regVars, TypeOK, ArrivalsDiffer, EntriesFollowPc,
     FiredOnceRegistered, LiveHoldsSlot, SlotLeadsToLive

(* One step per action; the three that touch slot or fired are split by    *)
(* conjunct.                                                               *)
LEMMA StepRegInv ==
  ASSUME NEW a \in Attaches, RegInv, Step(a)
  PROVE  RegInv'
<1> USE RegistryAssumption DEF RegInv, TypeOK, Move, Pcs, Setup, Teardown, Registered
<1>1. CASE Arrive(a)
  <2>1. ArrivalsDiffer'
    BY <1>1 DEF Arrive, ArrivalsDiffer
  <2>2. EntriesFollowPc' /\ FiredOnceRegistered'
    BY <1>1 DEF Arrive, EntriesFollowPc, FiredOnceRegistered
  <2>3. LiveHoldsSlot' /\ SlotLeadsToLive'
    BY <1>1 DEF Arrive, LiveHoldsSlot, SlotLeadsToLive
  <2> QED BY <1>1, <2>1, <2>2, <2>3 DEF Arrive
<1>2. CASE \/ SetupFails(a) \/ BackendOpened(a) \/ CancelSetup(a)
  BY <1>2 DEF SetupFails, BackendOpened, CancelSetup, ArrivalsDiffer, EntriesFollowPc,
     FiredOnceRegistered, LiveHoldsSlot, SlotLeadsToLive
<1>3. CASE InsertView(a) \/ InsertControl(a)
  BY <1>3 DEF InsertView, InsertControl, ArrivalsDiffer, EntriesFollowPc,
     FiredOnceRegistered, LiveHoldsSlot, SlotLeadsToLive
<1>4. CASE Register(a)
  <2> DEFINE k == KeyOf[a]
             h == slot[k]
  <2>1. TypeOK' /\ ArrivalsDiffer' /\ EntriesFollowPc'
    <3>1. TypeOK'
      <4>1. k # NoKey => k \in Keys
        BY Zenon
      <4>2. slot' \in [Keys -> Attaches \cup {NoAttach}]
        BY <1>4, <4>1 DEF Register
      <4>3. fired' \in [Attaches -> BOOLEAN]
        BY <1>4, <4>1 DEF Register
      <4> QED BY <1>4, <4>2, <4>3 DEF Register
    <3>2. ArrivalsDiffer'
      BY <1>4 DEF Register, ArrivalsDiffer
    <3>3. EntriesFollowPc'
      BY <1>4 DEF Register, EntriesFollowPc
    <3> QED BY <3>1, <3>2, <3>3
  <2>2. FiredOnceRegistered'
    BY <1>4 DEF Register, FiredOnceRegistered, SlotLeadsToLive
  <2>3. LiveHoldsSlot' /\ SlotLeadsToLive'
    <3>1. CASE k = NoKey /\ UNCHANGED <<slot, fired>>
      BY <1>4, <3>1 DEF Register, LiveHoldsSlot, SlotLeadsToLive
    <3>2. CASE /\ k # NoKey /\ h = NoAttach
               /\ slot' = [slot EXCEPT ![k] = a] /\ UNCHANGED fired
      BY <1>4, <3>2 DEF Register, LiveHoldsSlot, SlotLeadsToLive, FiredOnceRegistered
    <3>3. CASE /\ k # NoKey /\ h # NoAttach
               /\ fired' = [fired EXCEPT ![a] = TRUE] /\ UNCHANGED slot
      BY <1>4, <3>3 DEF Register, LiveHoldsSlot, SlotLeadsToLive
    <3>4. CASE /\ k # NoKey /\ h # NoAttach
               /\ slot' = [slot EXCEPT ![k] = a]
               /\ fired' = [fired EXCEPT ![h] = TRUE]
      <4>1. k \in Keys /\ h \in Attaches /\ h # a /\ pc[a] = "routable"
        BY <1>4, <3>4 DEF Register, SlotLeadsToLive
      <4>2. pc' = [pc EXCEPT ![a] = "serving"] /\ ~fired[a]
        BY <1>4, <4>1 DEF Register, FiredOnceRegistered
      <4>3. LiveHoldsSlot'
        BY <3>4, <4>1, <4>2 DEF LiveHoldsSlot
      <4>4. SlotLeadsToLive'
        BY <3>4, <4>1, <4>2 DEF SlotLeadsToLive
      <4> QED BY <4>3, <4>4
    <3> QED BY <1>4, <3>1, <3>2, <3>3, <3>4 DEF Register
  <2> QED BY <2>1, <2>2, <2>3
<1>5. CASE LeaveLoop(a) \/ RemoveControl(a) \/ RemoveView(a)
  BY <1>5 DEF LeaveLoop, RemoveControl, RemoveView, ArrivalsDiffer, EntriesFollowPc,
     FiredOnceRegistered, LiveHoldsSlot, SlotLeadsToLive
<1>6. CASE DropLease(a)
  <2>1. TypeOK' /\ ArrivalsDiffer' /\ EntriesFollowPc' /\ FiredOnceRegistered'
    BY <1>6 DEF DropLease, ArrivalsDiffer, EntriesFollowPc, FiredOnceRegistered
  <2>2. LiveHoldsSlot'
    BY <1>6 DEF DropLease, LiveHoldsSlot
  <2>3. SlotLeadsToLive'
    BY <1>6 DEF DropLease, SlotLeadsToLive
  <2> QED BY <2>1, <2>2, <2>3
<1>7. CASE Finish(a)
  BY <1>7 DEF Finish, ArrivalsDiffer, EntriesFollowPc,
     FiredOnceRegistered, LiveHoldsSlot, SlotLeadsToLive
<1> QED BY <1>1, <1>2, <1>3, <1>4, <1>5, <1>6, <1>7 DEF Step

(* The registry invariant holds in every reachable state. *)
THEOREM RegistryInvariant == Spec => []RegInv
<1>1. RegInv /\ [Next]_regVars => RegInv'
  BY StepRegInv, StutterRegInv DEF Next, AllDone
<1> QED BY InitRegInv, <1>1, PTL DEF Spec

-----------------------------------------------------------------------------
(* Every variable keeps its type, for any set of attaches. *)
THEOREM TypeCorrect == Spec => []TypeOK
  BY RegistryInvariant, PTL DEF RegInv

(* Of the attaches of one client view at most one runs un-evicted, and it  *)
(* is the one the registry names (AttachRegistry::register).               *)
THEOREM LiveHoldsSlotThm == Spec => []LiveHoldsSlot
  BY RegistryInvariant, PTL DEF RegInv

(* The registry names live, un-evicted relays only: a torn-down relay      *)
(* leaves its successor's slot alone (AttachRegistry::deregister).         *)
THEOREM SlotLeadsToLiveThm == Spec => []SlotLeadsToLive
  BY RegistryInvariant, PTL DEF RegInv

(* A routable relay has its view state (mod.rs, FX-QUERY part C).          *)
THEOREM RoutableHasViewThm == Spec => []RoutableHasView
<1>1. RegInv => RoutableHasView
  BY DEF RegInv, TypeOK, EntriesFollowPc, RoutableHasView
<1> QED BY RegistryInvariant, <1>1, PTL

EvictionJustified ==
  \A a \in Attaches :
    ~fired[a] /\ fired'[a] =>
      \E b \in Attaches :
        /\ KeyOf[b] = KeyOf[a]
        /\ arrival[b] > arrival[a]
        /\ slot'[KeyOf[a]] = b
        /\ pc'[b] \in Registered

LEMMA StepEvictionJustified ==
  ASSUME NEW c \in Attaches, RegInv, Step(c)
  PROVE  EvictionJustified
<1> USE RegistryAssumption DEF RegInv, TypeOK, Move
<1>1. CASE Register(c)
  <2> SUFFICES ASSUME NEW a \in Attaches, ~fired[a], fired'[a]
               PROVE  \E b \in Attaches :
                        /\ KeyOf[b] = KeyOf[a]
                        /\ arrival[b] > arrival[a]
                        /\ slot'[KeyOf[a]] = b
                        /\ pc'[b] \in Registered
    BY DEF EvictionJustified
  <2> DEFINE k == KeyOf[c]
             h == slot[k]
  <2>1. k \in Keys /\ h \in Attaches /\ h # c
    BY <1>1 DEF Register, SlotLeadsToLive, Registered, Teardown
  <2>2. KeyOf[h] = k /\ pc[h] \in Registered
    BY <2>1 DEF SlotLeadsToLive
  <2>3. arrival[h] # arrival[c] /\ arrival[h] \in Nat /\ arrival[c] \in Nat
    BY <1>1, <2>1, <2>2 DEF Register, ArrivalsDiffer, Registered, Teardown
  <2>4. pc' = [pc EXCEPT ![c] = "serving"]
    BY <1>1 DEF Register
  <2>5. CASE /\ arrival[h] > arrival[c]
             /\ fired' = [fired EXCEPT ![c] = TRUE] /\ UNCHANGED slot
    <3>1. a = c /\ pc'[h] \in Registered
      BY <2>1, <2>2, <2>4, <2>5
    <3> QED BY <2>1, <2>2, <2>5, <3>1
  <2>6. CASE /\ ~(arrival[h] > arrival[c])
             /\ slot' = [slot EXCEPT ![k] = c]
             /\ fired' = [fired EXCEPT ![h] = TRUE]
    <3>1. a = h /\ arrival[c] > arrival[h]
      BY <2>1, <2>3, <2>6
    <3>2. pc'[c] \in Registered
      BY <2>4 DEF Registered
    <3> QED BY <2>1, <2>2, <2>6, <3>1, <3>2
  <2> QED BY <1>1, <2>1, <2>5, <2>6 DEF Register
<1>2. CASE ~Register(c)
  <2>1. UNCHANGED fired
    BY <1>2 DEF Step, Arrive, SetupFails, BackendOpened, CancelSetup, InsertView,
       InsertControl, LeaveLoop, RemoveControl, RemoveView, DropLease, Finish
  <2> QED BY <2>1 DEF EvictionJustified
<1> QED BY <1>1, <1>2

(* A relay is signalled only by a later-arrived attach of its key that     *)
(* finished its setup: a failed, cancelled or stale re-attach never evicts *)
(* the live one (mod.rs, 3a).                                              *)
THEOREM OnlyALaterAttachEvictsThm == Spec => OnlyALaterAttachEvicts
<1>1. RegInv /\ [Next]_regVars => [EvictionJustified]_regVars
  <2> SUFFICES ASSUME RegInv, Next PROVE EvictionJustified \/ UNCHANGED regVars
    OBVIOUS
  <2> QED BY StepEvictionJustified DEF Next, AllDone
<1>2. [][EvictionJustified]_regVars => OnlyALaterAttachEvicts
  BY PTL DEF EvictionJustified, OnlyALaterAttachEvicts
<1> QED BY RegistryInvariant, <1>1, <1>2, PTL DEF Spec

-----------------------------------------------------------------------------
(* The count: one step per change of the set of counted attaches. *)
LEMMA StepCount ==
  ASSUME NEW a \in Attaches, TypeOK, CountFollowsPc, Step(a)
  PROVE  CountFollowsPc'
<1> USE RegistryAssumption DEF TypeOK, Move
<1>1. IsFiniteSet(CountedNow) /\ Cardinality(CountedNow) \in Nat
  BY FS_Subset, FS_CardinalityType DEF CountedNow
<1>2. CASE BackendOpened(a)
  <2>1. a \notin CountedNow /\ CountedNow' = CountedNow \cup {a}
    BY <1>2 DEF BackendOpened, CountedNow, Counted, Pcs, Setup, Teardown
  <2>2. Cardinality(CountedNow') = Cardinality(CountedNow) + 1
    BY <1>1, <2>1, FS_AddElement
  <2> QED BY <1>2, <2>2 DEF BackendOpened, CountFollowsPc
<1>3. CASE Finish(a)
  <2>1. a \in CountedNow /\ CountedNow' = CountedNow \ {a}
    BY <1>3 DEF Finish, CountedNow, Counted, Pcs, Setup, Teardown
  <2>2. Cardinality(CountedNow') = Cardinality(CountedNow) - 1
    BY <1>1, <2>1, FS_RemoveElement
  <2> QED BY <1>3, <2>2 DEF Finish, CountFollowsPc
<1>4. CASE ~BackendOpened(a) /\ ~Finish(a)
  <2>1. UNCHANGED clients
    BY <1>4 DEF Step, Arrive, SetupFails, CancelSetup, InsertView,
       InsertControl, Register, LeaveLoop, RemoveControl, RemoveView, DropLease
  <2>2. \E p, q \in Pcs :
          /\ pc[a] = p /\ pc' = [pc EXCEPT ![a] = q]
          /\ p \in Counted <=> q \in Counted
    BY <1>4 DEF Step, Arrive, SetupFails, CancelSetup, InsertView,
       InsertControl, Register, LeaveLoop, RemoveControl, RemoveView, DropLease,
       Counted, Pcs, Setup, Teardown
  <2>3. CountedNow' = CountedNow
    BY <2>2 DEF CountedNow
  <2> QED BY <2>1, <2>3 DEF CountFollowsPc
<1> QED BY <1>2, <1>3, <1>4

(* However it ended, an attach leaves no registry entry behind, and the    *)
(* attached-client count is exactly the number of attaches in progress     *)
(* (client_count.rs: the count drops "on **every** stream-end path").      *)
THEOREM DoneIsForgottenThm == Spec => []DoneIsForgotten
<1>1. Init => CountFollowsPc
  <2> SUFFICES ASSUME Init PROVE CountFollowsPc
    OBVIOUS
  <2>1. CountedNow = {}
    BY DEF Init, CountedNow, Counted, Pcs, Setup, Teardown
  <2> QED BY <2>1, FS_EmptySet DEF Init, CountFollowsPc
<1>2. TypeOK /\ CountFollowsPc /\ [Next]_regVars => CountFollowsPc'
  <2> SUFFICES ASSUME TypeOK, CountFollowsPc, [Next]_regVars PROVE CountFollowsPc'
    OBVIOUS
  <2>1. CASE UNCHANGED regVars
    <3>1. CountedNow' = CountedNow /\ clients' = clients
      BY <2>1 DEF CountedNow, regVars
    <3> QED BY <3>1 DEF CountFollowsPc
  <2>2. CASE \E a \in Attaches : Step(a)
    BY <2>2, StepCount
  <2> QED BY <2>1, <2>2 DEF Next, AllDone
<1>3. RegInv /\ CountFollowsPc => DoneIsForgotten
  BY RegistryAssumption DEF RegInv, TypeOK, EntriesFollowPc, SlotLeadsToLive, Registered, Teardown,
     CountFollowsPc, CountedNow, DoneIsForgotten
<1> QED BY RegistryInvariant, TypeCorrect, <1>1, <1>2, <1>3, PTL DEF Spec
-----------------------------------------------------------------------------
(* The refinement: each step of an attach is one step of the promise, or   *)
(* none at all.                                                            *)

phaseNow == [b \in Attaches |-> PhaseOf(b)]

LEMMA PhaseIs ==
  ASSUME TypeOK, NEW b \in Attaches
  PROVE  /\ phaseNow[b] = "new" <=> pc[b] = "idle"
         /\ phaseNow[b] = "setup" <=> pc[b] \in Setup \ {"idle"}
         /\ phaseNow[b] = "live" <=> pc[b] \in Registered /\ ~fired[b]
         /\ phaseNow[b] = "dismissed" <=> pc[b] \in Registered /\ fired[b]
         /\ phaseNow[b] = "gone" <=> pc[b] \in {"guarddrop", "done"}
         /\ phaseNow[b] \in {"new", "setup", "live", "dismissed", "gone"}
  BY DEF phaseNow, PhaseOf, TypeOK, Pcs, Setup, Registered, Teardown

LEMMA InitPromise == Init => Promise!Init
  BY DEF Init, Promise!Init, PhaseOf

(* Only the live relay in the slot can be a rival. *)
LEMMA RivalsAre ==
  ASSUME RegInv, NEW a \in Attaches, pc[a] = "routable"
  PROVE  /\ KeyOf[a] = NoKey => Promise!Rivals(a) = {}
         /\ KeyOf[a] # NoKey /\ slot[KeyOf[a]] = NoAttach => Promise!Rivals(a) = {}
         /\ KeyOf[a] # NoKey /\ slot[KeyOf[a]] # NoAttach =>
              /\ slot[KeyOf[a]] \in Attaches \ {a}
              /\ Promise!Rivals(a) = {slot[KeyOf[a]]}
<1> USE RegistryAssumption DEF RegInv
<1> DEFINE k == KeyOf[a]
<1>1. Promise!Rivals(a)
        = {b \in Attaches \ {a} : phaseNow[b] = "live" /\ KeyOf[b] = k /\ k # NoKey}
  BY DEF Promise!Rivals, phaseNow
<1>2. \A b \in Attaches : phaseNow[b] = "live" /\ KeyOf[b] = k /\ k # NoKey => slot[k] = b
  BY PhaseIs DEF LiveHoldsSlot
<1>3. ASSUME k # NoKey, slot[k] # NoAttach
      PROVE  slot[k] \in Attaches \ {a} /\ phaseNow[slot[k]] = "live" /\ KeyOf[slot[k]] = k
  <2>1. k \in Keys /\ slot[k] \in Attaches
    BY <1>3 DEF TypeOK
  <2>2. pc[slot[k]] \in Registered /\ ~fired[slot[k]] /\ KeyOf[slot[k]] = k
    BY <1>3, <2>1 DEF SlotLeadsToLive
  <2> QED BY <2>1, <2>2, PhaseIs DEF Registered, Teardown
<1> QED BY <1>1, <1>2, <1>3

LEMMA RegisterKeepsPromise ==
  ASSUME NEW a \in Attaches, RegInv, Register(a)
  PROVE  Promise!Enter(a) \/ Promise!Refuse(a)
<1> USE RegistryAssumption DEF RegInv
<1> DEFINE k == KeyOf[a]
           h == slot[k]
           R == Promise!Rivals(a)
<1>1. pc[a] = "routable" /\ pc' = [pc EXCEPT ![a] = "serving"] /\ ~fired[a] /\ UNCHANGED arrival
  BY DEF Register, Move, FiredOnceRegistered, Registered, Teardown
<1>2. TypeOK' /\ TypeOK
  BY StepRegInv DEF Step
<1>3. phaseNow[a] = "setup"
  BY <1>1, <1>2, PhaseIs DEF Setup
<1>4. \A b \in Attaches \ {a} : fired'[b] = fired[b] => phaseNow'[b] = phaseNow[b]
  BY <1>1, <1>2 DEF phaseNow, PhaseOf, TypeOK
<1>5. phaseNow'[a] = IF fired'[a] THEN "dismissed" ELSE "live"
  BY <1>1, <1>2 DEF phaseNow, PhaseOf, TypeOK, Setup, Registered
<1>6. ASSUME \A b \in R : arrival[b] < arrival[a], ~fired'[a],
             \A b \in R : phaseNow'[b] = "dismissed",
             \A b \in Attaches \ (R \cup {a}) : phaseNow'[b] = phaseNow[b]
      PROVE  Promise!Enter(a)
  <2>1. phaseNow' = [b \in Attaches |-> IF b = a THEN "live"
                                        ELSE IF b \in R THEN "dismissed" ELSE phaseNow[b]]
    BY <1>5, <1>6 DEF phaseNow
  <2> QED BY <1>1, <1>3, <1>6, <2>1 DEF Promise!Enter, phaseNow
<1>7. CASE k = NoKey \/ (k # NoKey /\ h = NoAttach)
  <2>1. R = {} /\ fired' = fired
    BY <1>1, <1>7, RivalsAre DEF Register
  <2> QED BY <1>1, <1>4, <1>6, <2>1
<1>8. CASE k # NoKey /\ h # NoAttach /\ arrival[h] > arrival[a]
  <2>1. h \in R /\ fired' = [fired EXCEPT ![a] = TRUE]
    BY <1>1, <1>8, RivalsAre DEF Register
  <2>2. phaseNow' = [phaseNow EXCEPT ![a] = "dismissed"]
    BY <1>2, <1>4, <1>5, <2>1 DEF phaseNow, TypeOK
  <2> QED BY <1>1, <1>3, <1>8, <2>1, <2>2 DEF Promise!Refuse, Promise!Moves, phaseNow
<1>9. CASE k # NoKey /\ h # NoAttach /\ ~(arrival[h] > arrival[a])
  <2>1. R = {h} /\ h \in Attaches \ {a} /\ fired' = [fired EXCEPT ![h] = TRUE]
    BY <1>1, <1>9, RivalsAre DEF Register
  <2>2. phaseNow[h] = "live" /\ pc[h] \in Registered
    BY <1>2, <2>1, PhaseIs DEF Promise!Rivals, phaseNow
  <2>3. arrival[h] < arrival[a]
    BY <1>1, <1>2, <1>9, <2>1, <2>2 DEF ArrivalsDiffer, TypeOK, Registered, Teardown
  <2>4. phaseNow'[h] = "dismissed"
    BY <1>1, <1>2, <2>1, <2>2, PhaseIs DEF phaseNow, PhaseOf, TypeOK, Setup, Registered, Teardown
  <2> QED BY <1>1, <1>2, <1>4, <1>6, <2>1, <2>3, <2>4 DEF TypeOK
<1> QED BY <1>7, <1>8, <1>9

LEMMA StepKeepsPromise ==
  ASSUME NEW a \in Attaches, RegInv, Step(a)
  PROVE  Promise!Next \/ UNCHANGED Promise!promiseVars
<1> USE DEF RegInv
<1> USE RegistryAssumption
<1>1. TypeOK /\ TypeOK'
  BY StepRegInv
<1>2. CASE Register(a)
  BY <1>2, RegisterKeepsPromise DEF Promise!Next
<1>3. CASE Arrive(a)
  <2>1. phaseNow[a] = "new" /\ phaseNow' = [phaseNow EXCEPT ![a] = "setup"]
    BY <1>1, <1>3 DEF Arrive, Move, phaseNow, PhaseOf, TypeOK, Setup
  <2>2. \A b \in Attaches : arrival[b] < arrival'[a]
    BY <1>1, <1>3 DEF Arrive, ArrivalsDiffer, TypeOK
  <2>3. arrival' = [arrival EXCEPT ![a] = arrival'[a]]
    BY <1>1, <1>3 DEF Arrive, TypeOK
  <2> QED BY <2>1, <2>2, <2>3 DEF Promise!Next, Promise!Arrive, Promise!Moves, phaseNow
<1>4. CASE SetupFails(a) \/ CancelSetup(a)
  <2>1. phaseNow[a] = "setup" /\ phaseNow' = [phaseNow EXCEPT ![a] = "gone"] /\ UNCHANGED arrival
    BY <1>1, <1>4 DEF SetupFails, CancelSetup, Move, phaseNow, PhaseOf, TypeOK, Setup, Registered, Teardown
  <2> QED BY <2>1 DEF Promise!Next, Promise!GiveUp, Promise!Moves, phaseNow
<1>5. CASE DropLease(a)
  <2>1. /\ phaseNow[a] \in {"live", "dismissed"} /\ UNCHANGED arrival
        /\ phaseNow' = [phaseNow EXCEPT ![a] = "gone"]
    BY <1>1, <1>5 DEF DropLease, Move, phaseNow, PhaseOf, TypeOK, Setup, Registered, Teardown
  <2> QED BY <2>1 DEF Promise!Next, Promise!Leave, Promise!Moves, phaseNow
<1>6. CASE \/ BackendOpened(a) \/ InsertView(a) \/ InsertControl(a)
           \/ LeaveLoop(a) \/ RemoveControl(a) \/ RemoveView(a) \/ Finish(a)
  <2>1. UNCHANGED <<arrival, fired>>
    BY <1>6 DEF BackendOpened, InsertView, InsertControl, LeaveLoop, RemoveControl, RemoveView, Finish
  <2>2. \A b \in Attaches : PhaseOf(b)' = PhaseOf(b)
    BY <1>1, <1>6, <2>1 DEF BackendOpened, InsertView, InsertControl, LeaveLoop, RemoveControl, RemoveView,
       Finish, Move, PhaseOf, TypeOK, Setup, Registered, Teardown
  <2> QED BY <2>1, <2>2 DEF Promise!promiseVars
<1> QED BY <1>2, <1>3, <1>4, <1>5, <1>6 DEF Step

(* The registry implements the promise of eviction, for any attaches and   *)
(* keys, and however setups and teardowns interleave                       *)
(* (AttachRegistry::register, deregister, AttachLease::drop).              *)
THEOREM KeepsPromiseThm == Spec => KeepsPromise
<1>1. RegInv /\ [Next]_regVars => [Promise!Next]_(Promise!promiseVars)
  <2> SUFFICES ASSUME RegInv, [Next]_regVars
               PROVE  Promise!Next \/ UNCHANGED Promise!promiseVars
    OBVIOUS
  <2>1. CASE UNCHANGED regVars
    BY <2>1 DEF regVars, Promise!promiseVars, PhaseOf
  <2>2. CASE \E a \in Attaches : Step(a)
    BY <2>2, StepKeepsPromise
  <2> QED BY <2>1, <2>2 DEF Next, AllDone
<1> QED BY RegistryInvariant, InitPromise, <1>1, PTL DEF Spec, KeepsPromise, Promise!Spec

-----------------------------------------------------------------------------
(* What follows from the promise alone, whatever keeps it. *)

PromiseInv ==
  /\ phaseNow \in [Attaches -> Promise!Phases]
  /\ Promise!AtMostOneLive

LEMMA StepPromiseInv == PromiseInv /\ [Promise!Next]_(Promise!promiseVars) => PromiseInv'
<1> SUFFICES ASSUME PromiseInv, [Promise!Next]_(Promise!promiseVars) PROVE PromiseInv'
  OBVIOUS
<1>1. phaseNow \in [Attaches -> Promise!Phases]
  BY DEF PromiseInv
<1>2. \A a, b \in Attaches :
        phaseNow[a] = "live" /\ phaseNow[b] = "live" /\ KeyOf[a] = KeyOf[b] /\ KeyOf[a] # NoKey
          => a = b
  BY DEF PromiseInv, Promise!AtMostOneLive, phaseNow
<1> DEFINE OneLiveNext ==
             /\ phaseNow' \in [Attaches -> Promise!Phases]
             /\ \A a, b \in Attaches :
                  phaseNow'[a] = "live" /\ phaseNow'[b] = "live" /\ KeyOf[a] = KeyOf[b]
                    /\ KeyOf[a] # NoKey => a = b
<1>3. SUFFICES OneLiveNext
  BY DEF PromiseInv, Promise!AtMostOneLive, phaseNow
<1>4. CASE UNCHANGED Promise!promiseVars
  <2>1. phaseNow' = phaseNow
    BY <1>4 DEF Promise!promiseVars, phaseNow
  <2> QED BY <1>1, <1>2, <2>1
<1>5. ASSUME NEW a \in Attaches,
             Promise!Arrive(a) \/ Promise!GiveUp(a) \/ Promise!Refuse(a) \/ Promise!Leave(a)
      PROVE  OneLiveNext
  <2>1. \E to \in Promise!Phases \ {"live"} : phaseNow' = [phaseNow EXCEPT ![a] = to]
    BY <1>5 DEF Promise!Arrive, Promise!GiveUp, Promise!Refuse, Promise!Leave, Promise!Moves,
       Promise!Phases, phaseNow
  <2> QED BY <1>1, <1>2, <2>1
<1>6. ASSUME NEW a \in Attaches, Promise!Enter(a)
      PROVE  OneLiveNext
  <2>1. /\ \A b \in Attaches : phaseNow'[b] = IF b = a THEN "live"
                                  ELSE IF b \in Promise!Rivals(a) THEN "dismissed" ELSE phaseNow[b]
        /\ phaseNow' = [b \in Attaches |-> phaseNow'[b]]
    BY <1>6 DEF Promise!Enter, phaseNow
  <2>2. \A b \in Attaches : b \in Promise!Rivals(a) <=>
          b # a /\ phaseNow[b] = "live" /\ KeyOf[b] = KeyOf[a] /\ KeyOf[a] # NoKey
    BY DEF Promise!Rivals, phaseNow
  <2>3. phaseNow' \in [Attaches -> Promise!Phases]
    BY <1>1, <2>1 DEF Promise!Phases
  <2> QED BY <1>2, <2>1, <2>2, <2>3
<1> QED BY <1>4, <1>5, <1>6 DEF Promise!Next

(* Of the attaches of one client view at most one is live: it follows from *)
(* what a take-over replaces, hence holds of everything that keeps the     *)
(* promise (AttachRegistry::register).                                     *)
THEOREM PromisedOneLive == KeepsPromise => []Promise!AtMostOneLive
<1>1. Promise!Init => PromiseInv
  BY DEF Promise!Init, Promise!AtMostOneLive, Promise!Phases, PromiseInv, phaseNow
<1> QED BY <1>1, StepPromiseInv, PTL DEF KeepsPromise, Promise!Spec, PromiseInv

(* A client never has two relays un-evicted (types.rs, AttachRegistry).    *)
THEOREM AtMostOneLiveThm == Spec => []Promise!AtMostOneLive
  BY KeepsPromiseThm, PromisedOneLive, PTL
=============================================================================
