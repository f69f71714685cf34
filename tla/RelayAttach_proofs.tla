------------------------ MODULE RelayAttach_proofs ------------------------
(***************************************************************************)
(* Proofs about RelayAttach, for any attaches, keys, channel bound and     *)
(* number of workers.                                                      *)
(*                                                                         *)
(* First, that the composition is one: each component, seen alone, takes   *)
(* only steps of its own specification, so that what is proved of it holds *)
(* here. Then the threads' side alone: NoLostNudge rests on the order of   *)
(* the two writes of ShutdownGuard::drop (StopBeforeNudge), DoneIsReaped   *)
(* on the join. Then what relates the two: an invariant made of where the  *)
(* owner of the guard is (PositionsAgree), what each side's tables hold in *)
(* each position, and when the stop flag is up. Then what is proved of     *)
(* each side alone, of the whole. Last, that an evicted relay is not       *)
(* stuck: a signal reaches only an attach whose Receiver the connection    *)
(* has (Signalled), so the chain from task over join, reader and channel   *)
(* ends in somebody who moves, or at a client that does not read.          *)
(***************************************************************************)
EXTENDS RelayAttach, TLAPS

(* What is proved of the bookkeeping side alone. *)
Registry == INSTANCE AttachRegistry_proofs

-----------------------------------------------------------------------------
(* The bookkeeping side takes only AttachRegistry's steps. *)
LEMMA StepIsRegistryStep == [Next]_vars => [Reg!Next]_(Reg!regVars)
<1> SUFFICES ASSUME [Next]_vars PROVE Reg!Next \/ UNCHANGED Reg!regVars
  OBVIOUS
<1> USE DEF regVars, Reg!regVars
<1>1. CASE UNCHANGED vars
  BY <1>1 DEF vars
<1>2. ASSUME NEW a \in Attaches,
             \/ BackendOpened(a) \/ CancelSetup(a) \/ Register(a)
             \/ Evicted(a) \/ ReaderEnded(a) \/ RequestGone(a) \/ Dismissed(a)
             \/ DropLease(a) \/ Finish(a) \/ Bookkeeping(a)
      PROVE  Reg!Next
  <2>1. Reg!Step(a)
    BY <1>2 DEF BackendOpened, CancelSetup, Register, Evicted, ReaderEnded, RequestGone, Dismissed,
       DropLease, Finish, Bookkeeping, Reg!Step
  <2> QED BY <2>1 DEF Reg!Next
<1>3. ASSUME NEW a \in Attaches,
             GuardStep(a) \/ ReaderStep(a) \/ ReaderRecv(a) \/ ClientReads(a) \/ DropStream(a) \/ PeerGone(a)
      PROVE  UNCHANGED Reg!regVars
  BY <1>3 DEF GuardStep, ReaderStep, ReaderRecv, ClientReads, DropStream, PeerGone
<1> QED BY <1>1, <1>2, <1>3 DEF Next, Quiet, vars

(* The threads' side takes only RelayThreads' steps. *)
LEMMA StepIsThreadsStep == [Next]_vars => [Thr!Next]_(Thr!thrVars)
<1> SUFFICES ASSUME [Next]_vars PROVE Thr!Next \/ UNCHANGED Thr!thrVars
  OBVIOUS
<1> USE DEF thrVars, Thr!thrVars
<1>1. CASE UNCHANGED vars
  BY <1>1 DEF vars
<1>2. ASSUME NEW a \in Attaches,
             \/ BackendOpened(a) \/ CancelSetup(a) \/ Register(a)
             \/ Evicted(a) \/ ReaderEnded(a) \/ RequestGone(a) \/ Dismissed(a)
             \/ DropLease(a) \/ Finish(a) \/ GuardStep(a)
             \/ ReaderStep(a) \/ ReaderRecv(a) \/ ClientReads(a) \/ DropStream(a) \/ PeerGone(a)
      PROVE  Thr!Next
  <2>1. \/ Thr!Spawn(a) \/ Thr!Serve(a) \/ Thr!Abandon(a) \/ Thr!Dismissed(a)
        \/ Thr!OwnerStep(a) \/ Thr!ReaderStep(a) \/ Thr!ReaderRecv(a)
        \/ Thr!ClientReads(a) \/ Thr!DropStream(a) \/ Thr!PeerGone(a)
    BY <1>2 DEF BackendOpened, CancelSetup, Register, Evicted, ReaderEnded, RequestGone, Dismissed,
       DropLease, Finish, GuardStep, ReaderStep, ReaderRecv, ClientReads, DropStream, PeerGone,
       Thr!Dismissed, Thr!OwnerStep
  <2> QED BY <2>1 DEF Thr!Next
<1>3. ASSUME NEW a \in Attaches, Bookkeeping(a)
      PROVE  UNCHANGED Thr!thrVars
  BY <1>3 DEF Bookkeeping
<1> QED BY <1>1, <1>2, <1>3 DEF Next, Quiet, vars

(* Each component's specification holds of the whole AttachTerminal: no    *)
(* joint action of attach_relay or inbound_loop asks one side for a step   *)
(* it does not have (mod.rs, attach_relay; inbound.rs, inbound_loop).      *)
THEOREM ComponentsHold == Spec => Reg!Spec /\ Thr!Spec
<1>1. Init => Reg!Init /\ Thr!Init
  BY DEF Init
<1> QED BY <1>1, StepIsRegistryStep, StepIsThreadsStep, PTL DEF Spec, Reg!Spec, Thr!Spec
-----------------------------------------------------------------------------
(* The threads' side, alone. *)

(* The flag is raised before the nudge, and never lowered. *)
StopBeforeNudge ==
  \A r \in Attaches : stop[r] <=> owner[r] \in {"stopping", "joining", "done"}

(* A relay has a reader, and a Receiver, from its spawn on. *)
SpawnedTogether ==
  \A r \in Attaches :
    /\ owner[r] = "none" <=> reader[r] = "none"
    /\ owner[r] = "none" <=> stream[r] = "none"

ThreadsInv ==
  /\ Thr!TypeOK /\ StopBeforeNudge /\ SpawnedTogether
  /\ Thr!NoLostNudge /\ Thr!DoneIsReaped

LEMMA InitThreadsInv == Thr!Init => ThreadsInv
  BY AttachAssumption DEF Thr!Init, ThreadsInv, Thr!TypeOK, StopBeforeNudge, SpawnedTogether,
     Thr!NoLostNudge, Thr!DoneIsReaped, Thr!Owners, Thr!Readers, Thr!Streams

(* Steps of the owner: handler, inbound task, guard. *)
LEMMA OwnerKeepsInv ==
  ASSUME NEW r \in Attaches, ThreadsInv,
         \/ Thr!Spawn(r) \/ Thr!Serve(r) \/ Thr!Abandon(r) \/ Thr!LeaveLoop(r)
         \/ Thr!Unregistered(r) \/ Thr!SetStop(r) \/ Thr!Nudge(r) \/ Thr!Joined(r)
  PROVE  ThreadsInv'
<1> USE AttachAssumption
<1> USE DEF ThreadsInv, Thr!OwnerMoves
<1>1. Thr!TypeOK'
  <2>1. CASE Thr!Spawn(r)
    BY <2>1 DEF Thr!Spawn, Thr!TypeOK, Thr!Owners, Thr!Readers, Thr!Streams
  <2>2. CASE Thr!Joined(r)
    <3>1. stream' \in [Attaches -> Thr!Streams]
      BY <2>2 DEF Thr!Joined, Thr!TypeOK, Thr!Streams
    <3> QED BY <2>2, <3>1 DEF Thr!Joined, Thr!TypeOK, Thr!Owners
  <2>3. CASE \/ Thr!Serve(r) \/ Thr!Abandon(r) \/ Thr!LeaveLoop(r)
             \/ Thr!Unregistered(r) \/ Thr!SetStop(r) \/ Thr!Nudge(r)
    BY <2>3 DEF Thr!TypeOK, Thr!Owners, Thr!Streams, Thr!Serve, Thr!Abandon, Thr!LeaveLoop,
       Thr!Unregistered, Thr!SetStop, Thr!Nudge
  <2> QED BY <2>1, <2>2, <2>3
<1>2. StopBeforeNudge'
  BY DEF StopBeforeNudge, Thr!TypeOK, Thr!Spawn, Thr!Serve, Thr!Abandon, Thr!LeaveLoop,
     Thr!Unregistered, Thr!SetStop, Thr!Nudge, Thr!Joined
<1>3. SpawnedTogether'
  BY DEF SpawnedTogether, Thr!TypeOK, Thr!Spawn, Thr!Serve, Thr!Abandon, Thr!LeaveLoop,
     Thr!Unregistered, Thr!SetStop, Thr!Nudge, Thr!Joined
<1>4. Thr!NoLostNudge'
  BY DEF Thr!NoLostNudge, Thr!TypeOK, Thr!Spawn, Thr!Serve, Thr!Abandon, Thr!LeaveLoop,
     Thr!Unregistered, Thr!SetStop, Thr!Nudge, Thr!Joined
<1>5. Thr!DoneIsReaped'
  BY DEF Thr!DoneIsReaped, Thr!TypeOK, Thr!Spawn, Thr!Serve, Thr!Abandon, Thr!LeaveLoop,
     Thr!Unregistered, Thr!SetStop, Thr!Nudge, Thr!Joined
<1> QED BY <1>1, <1>2, <1>3, <1>4, <1>5

(* Steps of the reader. *)
LEMMA ReaderKeepsInv ==
  ASSUME NEW r \in Attaches, ThreadsInv, Thr!ReaderStep(r) \/ Thr!ReaderRecv(r)
  PROVE  ThreadsInv'
<1> USE AttachAssumption
<1> USE DEF ThreadsInv
<1> DEFINE Moved(from, to) ==
             /\ from \in {"top", "recv", "send", "lastsend"}
             /\ to \in {"top", "recv", "send", "lastsend", "exited"}
             /\ Thr!ReaderMoves(r, from, to)
             /\ to = "recv" => ~stop[r]
             /\ from = "recv" \/ UNCHANGED nudged
             /\ chan' \in [Attaches -> 0..ChanCap]
             /\ nudged' \in [Attaches -> BOOLEAN]
             /\ \A s \in Attaches \ {r} : nudged'[s] = nudged[s]
<1>1. \E from, to : Moved(from, to)
  <2>1. \A msg : /\ Thr!AfterRecv(r, msg) \in {"top", "send", "lastsend", "exited"}
    BY DEF Thr!AfterRecv
  <2>2. CASE Thr!ReaderTop(r)
    BY <2>2 DEF Thr!ReaderTop, Thr!TypeOK
  <2>3. CASE Thr!ReaderRecv(r)
    <3>1. PICK msg : Thr!ReaderMoves(r, "recv", Thr!AfterRecv(r, msg)) /\ UNCHANGED <<chan, nudged>>
      BY <2>3 DEF Thr!ReaderRecv
    <3>2. Moved("recv", Thr!AfterRecv(r, msg))
      BY <2>1, <3>1 DEF Thr!TypeOK
    <3> QED BY <3>2
  <2>4. CASE Thr!ReaderWoken(r)
    <3>1. PICK msg : Thr!ReaderMoves(r, "recv", Thr!AfterRecv(r, msg))
      BY <2>4 DEF Thr!ReaderWoken
    <3>2. Moved("recv", Thr!AfterRecv(r, msg))
      BY <2>1, <2>4, <3>1 DEF Thr!ReaderWoken, Thr!TypeOK
    <3> QED BY <3>2
  <2>5. CASE Thr!ReaderSend(r)
    <3>1. chan' \in [Attaches -> 0..ChanCap] /\ UNCHANGED nudged
      BY <2>5 DEF Thr!ReaderSend, Thr!TypeOK
    <3>2. Moved("send", "top") \/ Moved("lastsend", "exited")
      BY <2>5, <3>1 DEF Thr!ReaderSend, Thr!TypeOK
    <3> QED BY <3>2
  <2>6. CASE Thr!ReaderSendFails(r)
    <3>1. Moved("send", "exited") \/ Moved("lastsend", "exited")
      BY <2>6 DEF Thr!ReaderSendFails, Thr!TypeOK
    <3> QED BY <3>1
  <2> QED BY <2>2, <2>3, <2>4, <2>5, <2>6 DEF Thr!ReaderStep
<1>2. PICK from, to : Moved(from, to)
  BY <1>1
<1>3. Thr!TypeOK' /\ StopBeforeNudge' /\ SpawnedTogether' /\ Thr!DoneIsReaped'
  BY <1>2 DEF Thr!ReaderMoves, Thr!TypeOK, Thr!Readers, StopBeforeNudge, SpawnedTogether,
     Thr!DoneIsReaped
<1>4. Thr!NoLostNudge'
  BY <1>2 DEF Thr!ReaderMoves, Thr!TypeOK, StopBeforeNudge, Thr!NoLostNudge
<1> QED BY <1>3, <1>4

(* Steps of the client and its connection. *)
LEMMA ConnectionKeepsInv ==
  ASSUME NEW r \in Attaches, ThreadsInv, Thr!PeerGone(r) \/ Thr!ClientReads(r) \/ Thr!DropStream(r)
  PROVE  ThreadsInv'
<1> USE AttachAssumption
<1> USE DEF ThreadsInv
<1>1. UNCHANGED <<owner, reader, stop, nudged>>
  BY DEF Thr!PeerGone, Thr!ClientReads, Thr!DropStream
<1>2. Thr!TypeOK'
  <2>1. CASE Thr!PeerGone(r)
    BY <2>1 DEF Thr!TypeOK, Thr!PeerGone
  <2>2. CASE Thr!ClientReads(r)
    <3>1. chan' \in [Attaches -> 0..ChanCap]
      BY <2>2 DEF Thr!TypeOK, Thr!ClientReads
    <3> QED BY <2>2, <3>1 DEF Thr!TypeOK, Thr!ClientReads
  <2>3. CASE Thr!DropStream(r)
    <3>1. stream' \in [Attaches -> Thr!Streams]
      BY <2>3 DEF Thr!TypeOK, Thr!DropStream, Thr!Streams
    <3> QED BY <2>3, <3>1 DEF Thr!TypeOK, Thr!DropStream
  <2> QED BY <2>1, <2>2, <2>3
<1>3. \A s \in Attaches : \/ stream'[s] = stream[s]
                         \/ (stream[s] = "response" /\ stream'[s] = "dropped")
  BY DEF Thr!TypeOK, Thr!PeerGone, Thr!ClientReads, Thr!DropStream
<1>4. StopBeforeNudge' /\ Thr!NoLostNudge'
  BY <1>1 DEF StopBeforeNudge, Thr!NoLostNudge
<1>5. SpawnedTogether' /\ Thr!DoneIsReaped'
  BY <1>1, <1>3 DEF SpawnedTogether, Thr!DoneIsReaped
<1> QED BY <1>2, <1>4, <1>5

LEMMA StepThreadsInv == ThreadsInv /\ [Thr!Next]_(Thr!thrVars) => ThreadsInv'
<1> SUFFICES ASSUME ThreadsInv, [Thr!Next]_(Thr!thrVars) PROVE ThreadsInv'
  OBVIOUS
<1>1. CASE UNCHANGED Thr!thrVars
  BY <1>1 DEF Thr!thrVars, ThreadsInv, Thr!TypeOK, StopBeforeNudge, SpawnedTogether,
     Thr!NoLostNudge, Thr!DoneIsReaped
<1>2. CASE \E r \in Attaches :
             \/ Thr!Spawn(r) \/ Thr!Serve(r) \/ Thr!Abandon(r) \/ Thr!Dismissed(r)
             \/ Thr!OwnerStep(r) \/ Thr!ReaderStep(r) \/ Thr!ReaderRecv(r)
             \/ Thr!ClientReads(r) \/ Thr!DropStream(r) \/ Thr!PeerGone(r)
  BY <1>2, OwnerKeepsInv, ReaderKeepsInv, ConnectionKeepsInv
     DEF Thr!Dismissed, Thr!OwnerStep, Thr!ReaderEnded, Thr!RequestGone
<1> QED BY <1>1, <1>2 DEF Thr!Next, Thr!Quiet

(* The inductive invariant of the threads' side alone.                     *)
THEOREM ThreadsInvariant == Thr!Spec => []ThreadsInv
  BY InitThreadsInv, StepThreadsInv, PTL DEF Thr!Spec

-----------------------------------------------------------------------------
(* What the proofs below need of the types. *)
Shapes ==
  /\ pc \in [Attaches -> Reg!Pcs]
  /\ slot \in [Keys -> Attaches \cup {NoAttach}]
  /\ owner \in [Attaches -> Thr!Owners]
  /\ DOMAIN reader = Attaches
  /\ DOMAIN stream = Attaches
  /\ DOMAIN stop = Attaches

(* The owner of the guard is where the attach is: neither side runs ahead. *)
PositionsAgree ==
  \A a \in Attaches :
    /\ owner[a] = "none"    => pc[a] \in {"idle", "opening", "done"}
    /\ owner[a] = "setup"   => pc[a] \in {"viewing", "viewed", "routable"}
    /\ owner[a] = "serving" => pc[a] = "serving"
    /\ owner[a] = "leaving" => pc[a] \in Reg!Teardown
    /\ owner[a] \in {"guarddrop", "stopping", "joining"} => pc[a] = "guarddrop"
    /\ owner[a] = "done"    => pc[a] = "done"

(* The tables of the registry side, by position. *)
TablesFollowPc ==
  /\ control \cup view \subseteq Attaches
  /\ \A a \in Attaches :
       /\ a \in control <=> pc[a] \in {"routable", "serving", "leaving"}
       /\ a \in view <=> pc[a] \in {"viewed", "routable", "serving", "leaving", "unrouted"}
  /\ \A k \in Keys : slot[k] # NoAttach => KeyOf[slot[k]] = k /\ pc[slot[k]] \in Reg!Registered

(* The thread, its Receiver and its stop flag, by the owner's position. *)
ThreadFollowsOwner ==
  \A a \in Attaches :
    /\ owner[a] = "none" \/ (reader[a] # "none" /\ stream[a] # "none")
    /\ stop[a] => owner[a] \in {"stopping", "joining", "done"}

Coupling == Shapes /\ PositionsAgree /\ TablesFollowPc /\ ThreadFollowsOwner

LEMMA InitCoupling == Init => Coupling
  BY DEF Init, Reg!Init, Thr!Init, Coupling, Shapes, PositionsAgree, TablesFollowPc,
     ThreadFollowsOwner, Reg!Pcs, Reg!Setup, Thr!Owners

(* Steps that move the attach and the owner of its guard together. *)
LEMMA JointKeepsCoupling ==
  ASSUME NEW a \in Attaches, Coupling,
         \/ BackendOpened(a) \/ CancelSetup(a) \/ Register(a)
         \/ (Reg!LeaveLoop(a) /\ Thr!LeaveLoop(a))
         \/ DropLease(a) \/ Finish(a)
  PROVE  Coupling'
<1> USE AttachAssumption
<1> USE DEF Coupling, Shapes, Reg!Pcs, Reg!Setup, Reg!Teardown, Reg!Registered, Thr!Owners,
        Reg!Move, Thr!OwnerMoves
<1>1. CASE BackendOpened(a)
  BY <1>1 DEF BackendOpened, Reg!BackendOpened, Thr!Spawn, PositionsAgree, TablesFollowPc,
     ThreadFollowsOwner
<1>2. CASE CancelSetup(a)
  BY <1>2 DEF CancelSetup, Reg!CancelSetup, Thr!Abandon, PositionsAgree, TablesFollowPc,
     ThreadFollowsOwner
<1>3. CASE Register(a)
  <2>1. Shapes' /\ PositionsAgree'
    BY <1>3 DEF Register, Reg!Register, Thr!Serve, PositionsAgree
  <2>2. TablesFollowPc'
    BY <1>3 DEF Register, Reg!Register, TablesFollowPc
  <2>3. ThreadFollowsOwner'
    BY <1>3 DEF Register, Thr!Serve, ThreadFollowsOwner
  <2> QED BY <2>1, <2>2, <2>3
<1>4. CASE Reg!LeaveLoop(a) /\ Thr!LeaveLoop(a)
  BY <1>4 DEF Reg!LeaveLoop, Thr!LeaveLoop, PositionsAgree, TablesFollowPc, ThreadFollowsOwner
<1>5. CASE DropLease(a)
  <2>1. Shapes' /\ PositionsAgree' /\ ThreadFollowsOwner'
    BY <1>5 DEF DropLease, Reg!DropLease, Thr!Unregistered, PositionsAgree, ThreadFollowsOwner
  <2>2. TablesFollowPc'
    BY <1>5 DEF DropLease, Reg!DropLease, TablesFollowPc
  <2> QED BY <2>1, <2>2
<1>6. CASE Finish(a)
  <2>1. Shapes' /\ PositionsAgree' /\ ThreadFollowsOwner'
    BY <1>6 DEF Finish, Reg!Finish, Thr!Joined, PositionsAgree, ThreadFollowsOwner
  <2>2. TablesFollowPc'
    BY <1>6 DEF Finish, Reg!Finish, TablesFollowPc
  <2> QED BY <2>1, <2>2
<1> QED BY <1>1, <1>2, <1>3, <1>4, <1>5, <1>6

(* Steps of the bookkeeping side alone. *)
LEMMA BookkeepingKeepsCoupling ==
  ASSUME NEW a \in Attaches, Coupling, Bookkeeping(a)
  PROVE  Coupling'
<1> USE AttachAssumption
<1> USE DEF Coupling, Shapes, Reg!Pcs, Reg!Setup, Reg!Teardown, Reg!Registered, Thr!Owners, Reg!Move
<1>1. UNCHANGED <<owner, reader, stream, stop>>
  BY DEF Bookkeeping, thrVars
<1>2. Shapes' /\ PositionsAgree'
  BY <1>1 DEF Bookkeeping, Reg!Arrive, Reg!SetupFails, Reg!InsertView, Reg!InsertControl,
     Reg!RemoveControl, Reg!RemoveView, PositionsAgree
<1>3. TablesFollowPc'
  <2>1. CASE Reg!InsertView(a) \/ Reg!InsertControl(a)
    BY <2>1 DEF Reg!InsertView, Reg!InsertControl, TablesFollowPc
  <2>2. CASE Reg!RemoveControl(a) \/ Reg!RemoveView(a)
    BY <2>2 DEF Reg!RemoveControl, Reg!RemoveView, TablesFollowPc
  <2>3. CASE Reg!Arrive(a) \/ Reg!SetupFails(a)
    BY <2>3 DEF Reg!Arrive, Reg!SetupFails, TablesFollowPc
  <2> QED BY <2>1, <2>2, <2>3 DEF Bookkeeping
<1>4. ThreadFollowsOwner'
  BY <1>1 DEF ThreadFollowsOwner
<1> QED BY <1>2, <1>3, <1>4

(* Steps of the threads' side alone: the attach stays where it is, and the *)
(* owner only moves on within ShutdownGuard::drop.                         *)
LEMMA ThreadsKeepCoupling ==
  ASSUME NEW a \in Attaches, Coupling,
         GuardStep(a) \/ ReaderStep(a) \/ ReaderRecv(a) \/ ClientReads(a) \/ DropStream(a) \/ PeerGone(a)
  PROVE  Coupling'
<1> USE DEF Coupling
<1>1. UNCHANGED <<pc, slot, control, view>>
  BY DEF GuardStep, ReaderStep, ReaderRecv, ClientReads, DropStream, PeerGone, regVars
<1>2. TablesFollowPc'
  BY <1>1 DEF TablesFollowPc
<1>3. CASE GuardStep(a)
  <2>1. Shapes' /\ PositionsAgree' /\ ThreadFollowsOwner'
    BY <1>1, <1>3 DEF GuardStep, Thr!SetStop, Thr!Nudge, Thr!OwnerMoves, Shapes, Thr!Owners,
       PositionsAgree, ThreadFollowsOwner
  <2> QED BY <1>2, <2>1
<1>4. CASE ReaderStep(a) \/ ReaderRecv(a)
  <2>1. PICK from, to : Thr!ReaderMoves(a, from, to) /\ to # "none"
    BY <1>4 DEF ReaderStep, ReaderRecv, Thr!ReaderStep, Thr!ReaderRecv, Thr!ReaderTop,
       Thr!ReaderWoken, Thr!ReaderSend, Thr!ReaderSendFails, Thr!AfterRecv
  <2>2. Shapes' /\ PositionsAgree' /\ ThreadFollowsOwner'
    BY <1>1, <2>1 DEF Thr!ReaderMoves, Shapes, PositionsAgree, ThreadFollowsOwner
  <2> QED BY <1>2, <2>2
<1>5. CASE ClientReads(a) \/ DropStream(a) \/ PeerGone(a)
  <2>1. /\ UNCHANGED <<owner, reader, stop>>
        /\ stream' = stream \/ stream' = [stream EXCEPT ![a] = "dropped"]
    BY <1>5 DEF ClientReads, DropStream, PeerGone, Thr!ClientReads, Thr!DropStream,
       Thr!PeerGone
  <2>2. Shapes' /\ PositionsAgree' /\ ThreadFollowsOwner'
    BY <1>1, <2>1 DEF Shapes, PositionsAgree, ThreadFollowsOwner
  <2> QED BY <1>2, <2>2
<1> QED BY <1>3, <1>4, <1>5

LEMMA StepCoupling == Coupling /\ [Next]_vars => Coupling'
<1> SUFFICES ASSUME Coupling, [Next]_vars PROVE Coupling'
  OBVIOUS
<1>1. CASE UNCHANGED vars
  BY <1>1 DEF vars, regVars, thrVars, Coupling, Shapes, PositionsAgree, TablesFollowPc,
     ThreadFollowsOwner
<1>2. ASSUME NEW a \in Attaches,
             \/ BackendOpened(a) \/ CancelSetup(a) \/ Register(a)
             \/ Evicted(a) \/ ReaderEnded(a) \/ RequestGone(a) \/ Dismissed(a)
             \/ DropLease(a) \/ Finish(a)
      PROVE  Coupling'
  BY <1>2, JointKeepsCoupling
     DEF Evicted, ReaderEnded, RequestGone, Dismissed, Thr!ReaderEnded, Thr!RequestGone,
        Thr!Dismissed
<1>3. ASSUME NEW a \in Attaches,
             \/ Bookkeeping(a) \/ GuardStep(a)
             \/ ReaderStep(a) \/ ReaderRecv(a) \/ ClientReads(a) \/ DropStream(a) \/ PeerGone(a)
      PROVE  Coupling'
  BY <1>3, BookkeepingKeepsCoupling, ThreadsKeepCoupling
<1> QED BY <1>1, <1>2, <1>3 DEF Next, Quiet

(* The invariant that ties the two sides together. *)
THEOREM CouplingThm == Spec => []Coupling
  BY InitCoupling, StepCoupling, PTL DEF Spec

(* The handler and the inbound task are where their guard's owner is,      *)
(* through cancellation, eviction and teardown (mod.rs, inbound.rs).       *)
THEOREM PositionsAgreeThm == Spec => []PositionsAgree
  BY CouplingThm, PTL DEF Coupling

(* What a ControlEntry routes to can answer (mod.rs, FX-QUERY part C).     *)
THEOREM RoutableIsReadyThm == Spec => []RoutableIsReady
<1>1. Coupling => RoutableIsReady
  BY DEF Coupling, Shapes, Thr!Owners, PositionsAgree, TablesFollowPc, ThreadFollowsOwner,
     RoutableIsReady
<1> QED BY CouplingThm, <1>1, PTL

(* No slot names a relay whose reader was asked to stop (inbound_loop      *)
(* drops the lease before the guard).                                      *)
THEOREM StoppedHoldsNoSlotThm == Spec => []StoppedHoldsNoSlot
<1>1. Coupling => StoppedHoldsNoSlot
  <2> SUFFICES ASSUME Coupling, NEW k \in Keys, slot[k] # NoAttach PROVE ~stop[slot[k]]
    BY DEF StoppedHoldsNoSlot
  <2>1. slot[k] \in Attaches /\ pc[slot[k]] \in Reg!Registered
    BY DEF Coupling, Shapes, TablesFollowPc
  <2> QED BY <2>1 DEF Coupling, Shapes, PositionsAgree, ThreadFollowsOwner, Reg!Registered,
     Reg!Teardown
<1> QED BY CouplingThm, <1>1, PTL

-----------------------------------------------------------------------------
(* What is proved of one side alone, of the whole. *)

LEMMA RegistryAssumed == Registry!RegistryAssumption
<1>1. Registry!IsFiniteSet(Attaches)
  BY AttachAssumption DEF IsFiniteSet, Registry!IsFiniteSet
<1> QED BY <1>1, AttachAssumption DEF Registry!RegistryAssumption

LEMMA SameRegistry ==
  /\ Reg!Init <=> Registry!Init
  /\ Reg!Next => Registry!Next
  /\ Reg!regVars = Registry!regVars
  /\ Reg!TypeOK <=> Registry!TypeOK
<1>1. /\ Reg!Setup = Registry!Setup /\ Reg!Teardown = Registry!Teardown
      /\ Reg!Registered = Registry!Registered /\ Reg!Pcs = Registry!Pcs
  BY DEF Reg!Setup, Registry!Setup, Reg!Teardown, Registry!Teardown, Reg!Registered,
     Registry!Registered, Reg!Pcs, Registry!Pcs
<1>2. \A a, from, to : Reg!Move(a, from, to) <=> Registry!Move(a, from, to)
  BY DEF Reg!Move, Registry!Move
<1>3. \A a \in Attaches : Reg!Step(a) => Registry!Step(a)
  BY <1>1, <1>2 DEF Reg!Step, Registry!Step,
     Reg!Arrive, Registry!Arrive, Reg!SetupFails, Registry!SetupFails,
     Reg!BackendOpened, Registry!BackendOpened, Reg!CancelSetup, Registry!CancelSetup,
     Reg!InsertView, Registry!InsertView, Reg!InsertControl, Registry!InsertControl,
     Reg!Register, Registry!Register, Reg!LeaveLoop, Registry!LeaveLoop,
     Reg!RemoveControl, Registry!RemoveControl, Reg!RemoveView, Registry!RemoveView,
     Reg!DropLease, Registry!DropLease, Reg!Finish, Registry!Finish
<1>4. Reg!Init <=> Registry!Init
  BY DEF Reg!Init, Registry!Init
<1>5. Reg!regVars = Registry!regVars
  BY DEF Reg!regVars, Registry!regVars
<1>6. Reg!TypeOK <=> Registry!TypeOK
  BY <1>1 DEF Reg!TypeOK, Registry!TypeOK
<1>7. Reg!AllDone => Registry!AllDone
  BY DEF Reg!AllDone, Registry!AllDone, Reg!regVars, Registry!regVars
<1> QED BY <1>3, <1>4, <1>5, <1>6, <1>7 DEF Reg!Next, Registry!Next

LEMMA RegistryOfTheWhole == Spec => Registry!Spec
<1>1. [Reg!Next]_(Reg!regVars) => [Registry!Next]_(Registry!regVars)
  BY SameRegistry DEF Reg!regVars, Registry!regVars
<1> QED BY <1>1, SameRegistry, ComponentsHold, PTL DEF Reg!Spec, Registry!Spec

(* Every variable of both sides keeps its type: the render channel never   *)
(* exceeds its bound, for any bound (RENDER_CHANNEL_BOUND).                *)
THEOREM RelayTypeCorrect == Spec => []TypeOK
<1>1. Registry!Spec => []Registry!TypeOK
  BY RegistryAssumed, Registry!TypeCorrect, PTL
<1>2. ThreadsInv => Thr!TypeOK
  BY DEF ThreadsInv
<1> QED BY <1>1, <1>2, RegistryOfTheWhole, ComponentsHold, ThreadsInvariant, SameRegistry, PTL
        DEF TypeOK

(* No teardown nudge is lost to a reader that parks after it               *)
(* (ShutdownGuard::drop: the flag first, then the nudge).                  *)
THEOREM NoLostNudgeThm == Spec => []NoLostNudge
<1>1. ThreadsInv => NoLostNudge
  BY DEF ThreadsInv, NoLostNudge
<1> QED BY <1>1, ComponentsHold, ThreadsInvariant, PTL

(* An attach that has ended has no thread running and no Receiver of its   *)
(* own (ShutdownGuard::drop joins, and the owner's locals drop after it).  *)
THEOREM DoneIsReapedThm == Spec => []DoneIsReaped
<1>1. ThreadsInv /\ Coupling => DoneIsReaped
  <2> SUFFICES ASSUME ThreadsInv, Coupling, NEW a \in Attaches, pc[a] = "done"
               PROVE  reader[a] \in {"none", "exited"} /\ stream[a] # "local"
    BY DEF DoneIsReaped
  <2>1. owner[a] \in {"none", "done"}
    BY DEF Coupling, Shapes, PositionsAgree, Thr!Owners, Reg!Teardown
  <2> QED BY <2>1 DEF ThreadsInv, SpawnedTogether, Thr!DoneIsReaped
<1> QED BY <1>1, ComponentsHold, ThreadsInvariant, CouplingThm, PTL

(* Who is signalled has its Receiver with the connection: an attach is     *)
(* signalled only once it is registered, and then it returns its stream.   *)
Returned == {"response", "dropped"}

Signalled ==
  \A a \in Attaches :
    /\ fired[a] => stream[a] \in Returned
    /\ owner[a] \in {"serving", "leaving"} => stream[a] \in Returned
    /\ owner[a] \in {"none", "setup"} => stream[a] \notin Returned

(* A Receiver that was returned stays so, and one moves with the owner.    *)
LEMMA StreamFollowsOwner ==
  ASSUME ThreadsInv, Signalled, [Thr!Next]_(Thr!thrVars), NEW b \in Attaches
  PROVE  /\ stream[b] \in Returned => stream'[b] \in Returned
         /\ owner'[b] \in {"serving", "leaving"} => stream'[b] \in Returned
         /\ owner'[b] \in {"none", "setup"} => stream'[b] \notin Returned
<1> USE DEF ThreadsInv, Thr!TypeOK, Signalled, Returned, Thr!OwnerMoves
<1>1. CASE UNCHANGED <<owner, stream>>
  BY <1>1
<1>2. ASSUME NEW r \in Attaches, Thr!Spawn(r)
      PROVE  /\ stream[b] \in Returned => stream'[b] \in Returned
             /\ owner'[b] \in {"serving", "leaving"} => stream'[b] \in Returned
             /\ owner'[b] \in {"none", "setup"} => stream'[b] \notin Returned
  BY <1>2 DEF Thr!Spawn
<1>3. ASSUME NEW r \in Attaches,
             Thr!Serve(r) \/ Thr!Abandon(r) \/ Thr!LeaveLoop(r) \/ Thr!Unregistered(r)
      PROVE  /\ stream[b] \in Returned => stream'[b] \in Returned
             /\ owner'[b] \in {"serving", "leaving"} => stream'[b] \in Returned
             /\ owner'[b] \in {"none", "setup"} => stream'[b] \notin Returned
  BY <1>3 DEF Thr!Serve, Thr!Abandon, Thr!LeaveLoop, Thr!Unregistered
<1>4. ASSUME NEW r \in Attaches, Thr!SetStop(r) \/ Thr!Nudge(r) \/ Thr!Joined(r)
      PROVE  /\ stream[b] \in Returned => stream'[b] \in Returned
             /\ owner'[b] \in {"serving", "leaving"} => stream'[b] \in Returned
             /\ owner'[b] \in {"none", "setup"} => stream'[b] \notin Returned
  BY <1>4 DEF Thr!SetStop, Thr!Nudge, Thr!Joined
<1>5. ASSUME NEW r \in Attaches, Thr!DropStream(r)
      PROVE  /\ stream[b] \in Returned => stream'[b] \in Returned
             /\ owner'[b] \in {"serving", "leaving"} => stream'[b] \in Returned
             /\ owner'[b] \in {"none", "setup"} => stream'[b] \notin Returned
  BY <1>5 DEF Thr!DropStream
<1>6. ASSUME NEW r \in Attaches,
             Thr!ReaderStep(r) \/ Thr!ReaderRecv(r) \/ Thr!ClientReads(r) \/ Thr!PeerGone(r)
      PROVE  UNCHANGED <<owner, stream>>
  BY <1>6 DEF Thr!ReaderStep, Thr!ReaderTop, Thr!ReaderRecv, Thr!ReaderWoken, Thr!ReaderSend,
     Thr!ReaderSendFails, Thr!ReaderMoves, Thr!ClientReads, Thr!PeerGone
<1> QED BY <1>1, <1>2, <1>3, <1>4, <1>5, <1>6 DEF Thr!Next, Thr!Quiet, Thr!thrVars,
           Thr!Dismissed, Thr!OwnerStep, Thr!ReaderEnded, Thr!RequestGone

(* The signal goes to the registrant, or to the holder of the slot.        *)
LEMMA SignalGoesToServing ==
  ASSUME TypeOK, Coupling, [Next]_vars, NEW b \in Attaches, fired'[b]
  PROVE  fired[b] \/ owner'[b] \in {"serving", "leaving"}
<1>1. CASE UNCHANGED fired
  BY <1>1
<1>2. ASSUME NEW a \in Attaches, Register(a)
      PROVE  fired[b] \/ owner'[b] \in {"serving", "leaving"}
  <2>1. owner'[a] = "serving" /\ (b # a => owner'[b] = owner[b]) /\ pc[a] = "routable"
    BY <1>2 DEF Register, Reg!Register, Reg!Move, Thr!Serve, Thr!OwnerMoves, TypeOK, Thr!TypeOK
  <2>2. fired[b] \/ b = a \/ \E k \in Keys : slot[k] # NoAttach /\ b = slot[k]
    BY <1>2, AttachAssumption DEF Register, Reg!Register, TypeOK, Reg!TypeOK
  <2>3. ASSUME NEW k \in Keys, slot[k] # NoAttach, b = slot[k]
        PROVE  owner'[b] \in {"serving", "leaving"}
    <3>1. pc[b] \in Reg!Registered
      BY <2>3 DEF Coupling, TablesFollowPc
    <3>2. owner[b] \in {"serving", "leaving"}
      BY <3>1 DEF Coupling, Shapes, PositionsAgree, Thr!Owners, Reg!Registered, Reg!Teardown
    <3> QED BY <2>1, <3>1, <3>2 DEF Reg!Registered, Reg!Teardown
  <2> QED BY <2>1, <2>2, <2>3
<1>3. ASSUME NEW a \in Attaches,
             \/ BackendOpened(a) \/ CancelSetup(a) \/ DropLease(a) \/ Finish(a)
             \/ Evicted(a) \/ ReaderEnded(a) \/ RequestGone(a) \/ Dismissed(a)
             \/ Bookkeeping(a) \/ GuardStep(a) \/ ReaderStep(a) \/ ReaderRecv(a)
             \/ ClientReads(a) \/ DropStream(a) \/ PeerGone(a)
      PROVE  UNCHANGED fired
  BY <1>3 DEF BackendOpened, CancelSetup, DropLease, Finish, Evicted, ReaderEnded, RequestGone,
     Dismissed, Bookkeeping, GuardStep, ReaderStep, ReaderRecv, ClientReads, DropStream, PeerGone,
     Reg!BackendOpened, Reg!CancelSetup, Reg!DropLease, Reg!Finish, Reg!LeaveLoop,
     Reg!Arrive, Reg!SetupFails, Reg!InsertView, Reg!InsertControl, Reg!RemoveControl,
     Reg!RemoveView, regVars
<1> QED BY <1>1, <1>2, <1>3 DEF Next, Quiet, vars, regVars

LEMMA SignalledStep ==
  TypeOK /\ ThreadsInv /\ Coupling /\ Signalled /\ [Next]_vars => Signalled'
<1> SUFFICES ASSUME TypeOK, ThreadsInv, Coupling, Signalled, [Next]_vars, NEW b \in Attaches
             PROVE  /\ fired'[b] => stream'[b] \in Returned
                    /\ owner'[b] \in {"serving", "leaving"} => stream'[b] \in Returned
                    /\ owner'[b] \in {"none", "setup"} => stream'[b] \notin Returned
  BY DEF Signalled
<1>1. /\ stream[b] \in Returned => stream'[b] \in Returned
      /\ owner'[b] \in {"serving", "leaving"} => stream'[b] \in Returned
      /\ owner'[b] \in {"none", "setup"} => stream'[b] \notin Returned
  BY StepIsThreadsStep, StreamFollowsOwner
<1>2. fired'[b] => fired[b] \/ owner'[b] \in {"serving", "leaving"}
  BY SignalGoesToServing
<1> QED BY <1>1, <1>2 DEF Signalled

(* An evicted relay that has not ended waits for its own task, its reader  *)
(* or a client whose stream is full, never for itself as the cancelled     *)
(* setup does (Wedged; AttachRegistry::register, ShutdownGuard::drop).     *)
THEOREM EvictedNotStuckThm == Spec => []EvictedNotStuck
<1>1. Init => Signalled
  BY DEF Init, Reg!Init, Thr!Init, Signalled, Returned
<1>2. Spec => []Signalled
  BY <1>1, SignalledStep, RelayTypeCorrect, ComponentsHold, ThreadsInvariant, CouplingThm, PTL
     DEF Spec
<1>3. ThreadsInv /\ Coupling /\ Signalled => EvictedNotStuck
  <2> SUFFICES ASSUME ThreadsInv, Coupling, Signalled, NEW a \in Attaches,
                      fired[a], pc[a] # "done", pc[a] \notin Reg!Registered
               PROVE  CanGoOn(a) \/ AwaitsClient(a)
    BY DEF EvictedNotStuck, CanGoOn
  <2>1. owner[a] \in {"guarddrop", "stopping", "joining"}
    BY DEF Coupling, Shapes, PositionsAgree, Thr!Owners, Signalled, Reg!Registered, Reg!Teardown
  <2>2. CASE owner[a] \in {"guarddrop", "stopping"}
    BY <2>2 DEF CanGoOn
  <2>3. CASE owner[a] = "joining"
    <3>1. reader[a] \in {"top", "recv", "send", "lastsend", "exited"}
      BY <2>3 DEF ThreadsInv, Thr!TypeOK, Thr!Readers, SpawnedTogether
    <3>2. CASE reader[a] \in {"top", "exited"}
      BY <2>3, <3>2 DEF CanGoOn
    <3>3. CASE reader[a] = "recv"
      BY <2>3, <3>3 DEF CanGoOn, ThreadsInv, Thr!NoLostNudge
    <3>4. CASE reader[a] \in {"send", "lastsend"}
      <4>1. chan[a] \in 0..ChanCap /\ ChanCap \in Nat \ {0}
        BY AttachAssumption DEF ThreadsInv, Thr!TypeOK
      <4>2. stream[a] = "response" \/ stream[a] = "dropped"
        BY DEF Signalled, Returned
      <4>3. chan[a] < ChanCap \/ chan[a] = ChanCap
        BY <4>1
      <4>4. CASE chan[a] < ChanCap \/ stream[a] = "dropped"
        BY <3>4, <4>4 DEF CanGoOn
      <4>5. CASE chan[a] = ChanCap /\ stream[a] = "response"
        BY <2>3, <3>4, <4>5 DEF AwaitsClient, Thr!Blocked
      <4> QED BY <4>2, <4>3, <4>4, <4>5
    <3> QED BY <3>1, <3>2, <3>3, <3>4
  <2> QED BY <2>1, <2>2, <2>3
<1> QED BY <1>2, <1>3, ComponentsHold, ThreadsInvariant, CouplingThm, PTL

(* What eviction promises is kept by the whole AttachTerminal, threads,    *)
(* joins and cancellations included: one live relay per client view, found *)
(* in its slot, and a finished attach is in no table and not counted       *)
(* (AttachRegistry, attach_relay, inbound_loop).                           *)
THEOREM AttachKeepsPromise ==
  Spec => /\ []Registry!LiveHoldsSlot /\ []Registry!SlotLeadsToLive
          /\ []Registry!DoneIsForgotten
          /\ Registry!KeepsPromise /\ Registry!OnlyALaterAttachEvicts
<1>1. Registry!Spec => []Registry!LiveHoldsSlot
  BY RegistryAssumed, Registry!LiveHoldsSlotThm, PTL
<1>2. Registry!Spec => []Registry!SlotLeadsToLive
  BY RegistryAssumed, Registry!SlotLeadsToLiveThm, PTL
<1>3. Registry!Spec => []Registry!DoneIsForgotten
  BY RegistryAssumed, Registry!DoneIsForgottenThm, PTL
<1>4. Registry!Spec => Registry!KeepsPromise
  BY RegistryAssumed, Registry!KeepsPromiseThm, PTL
<1>5. Registry!Spec => Registry!OnlyALaterAttachEvicts
  BY RegistryAssumed, Registry!OnlyALaterAttachEvictsThm, PTL
<1> QED BY <1>1, <1>2, <1>3, <1>4, <1>5, RegistryOfTheWhole, PTL
=============================================================================
