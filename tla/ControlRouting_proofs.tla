----------------------- MODULE ControlRouting_proofs -----------------------
(***************************************************************************)
(* Proofs about ControlRouting, for any connections, workspaces and calls. *)
(*                                                                         *)
(* What a relay holds was asked for by a call that named its connection,   *)
(* and that call waits for it or has ended (Asked). OnlyOwnMoves follows   *)
(* at once; GivenUpNotToggled needs it because a caller that gives up      *)
(* knows only the relay it named (Lapses). NobodyStuck needs besides that  *)
(* a relay that does not serve holds nothing (Attended).                   *)
(***************************************************************************)
EXTENDS ControlRouting, FiniteSetTheorems, TLAPS

AskedBy(m, c) ==
  /\ m.conn = c
  /\ place[m.by] \in Ended \cup {"waiting"}
  /\ place[m.by] = "waiting" => req[m.by].conn = c

AskedAt(c) ==
  /\ step[c] # "idle" => doing[c] \in Commands
  /\ doing[c] \in Commands => AskedBy(doing[c], c)
  /\ \A i \in DOMAIN queue[c] : AskedBy(queue[c][i], c)

Asked == \A c \in Conns : AskedAt(c)

(* Where a relay's view is, in the middle of a move too. *)
ViewAt(c) ==
  /\ relay[c] # "serving" => view[c] = None /\ step[c] = "idle"
  /\ step[c] # "record" \/ doing[c].op # "switch"
       => view[c] = None \/ view[c] = current[c]
  /\ step[c] = "record" /\ doing[c].op = "switch"
       => current[c] = doing[c].space

Viewed == \A c \in Conns : ViewAt(c)

Lapses ==
  /\ \A q \in lapsed : place[q] \in Ended /\ \A c \in Conns : ~Sending(c, q)
  /\ \A q \in toggled : place[q] \in Ended
  /\ GivenUpNotToggled

(* A close keeps its request until it has listed. *)
Closing ==
  \A q \in Calls :
    place[q] \in {"count", "group", "closing", "listing"} => req[q].op \in Closes

(* No handler goes back on an answer, or on what it waits for. *)
CallsAdvance ==
  \A q \in Calls :
    /\ place[q] \in Ended => place'[q] = place[q]
    /\ place[q] = "waiting" =>
         \/ place'[q] \in Ended
         \/ place'[q] = "waiting" /\ req'[q] = req[q]

-----------------------------------------------------------------------------
LEMMA NoCmdIsNone == NoCmd \notin Commands
  BY DEF NoCmd, Commands, Awaited

LEMMA SpacesCounted ==
  ASSUME TypeOK
  PROVE  Cardinality(spaces) \in Nat
  BY ControlAssumption, FS_Subset, FS_CardinalityType DEF TypeOK

USE DEF Closes, Awaited, Ops, Ended, Places

LEMMA CommandTyped ==
  ASSUME NEW q \in Calls, NEW n \in Conns, NEW s \in Spaces \cup {None},
         NEW o \in Awaited \cup {"focus"}
  PROVE  Command(q, o, n, s) \in Commands
  BY DEF Command, Commands

LEMMA RequestTyped ==
  ASSUME NEW n \in Conns, NEW s \in Spaces \cup {None}, NEW o \in Ops
  PROVE  [op |-> o, conn |-> n, space |-> s] \in Requests
  BY DEF Requests

LEMMA DoingTyped ==
  ASSUME TypeOK, NEW c \in Conns, doing[c] \in Commands
  PROVE  /\ doing[c].by \in Calls /\ doing[c].conn \in Conns
         /\ doing[c].space \in Spaces \cup {None}
  BY DEF TypeOK, Commands

CallsTyped ==
  /\ place \in [Calls -> Places]
  /\ req \in [Calls -> Requests]
  /\ seen \in [Calls -> Nat]

LEMMA EndsTyped ==
  ASSUME TypeOK, NEW q \in Calls, NEW p \in Ended, Ends(q, p)
  PROVE  CallsTyped'
<1>1. NoReq \in Requests
  BY DEF Requests
<1> QED BY <1>1 DEF Ends, Goes, CallsTyped, TypeOK

LEMMA GoesTyped ==
  ASSUME TypeOK, NEW q \in Calls, NEW p \in Places, Goes(q, p),
         UNCHANGED req, UNCHANGED seen
  PROVE  CallsTyped'
  BY DEF Goes, CallsTyped, TypeOK

LEMMA RepliesTyped ==
  ASSUME TypeOK, NEW q \in Calls, Replies(q)
  PROVE  CallsTyped'
  BY EndsTyped DEF Replies, CallsTyped, TypeOK, callVars

LEMMA QueuesTyped ==
  ASSUME TypeOK, NEW c \in Conns, NEW m \in Commands, Queues(c, m)
  PROVE  queue' \in [Conns -> Seq(Commands)]
<1>1. Append(queue[c], m) \in Seq(Commands)
  BY DEF TypeOK
<1> QED BY <1>1 DEF Queues, TypeOK

LEMMA TypeStep == TypeOK /\ Asked /\ [Next]_vars => TypeOK'
<1> SUFFICES ASSUME TypeOK, Asked, [Next]_vars PROVE TypeOK'
  OBVIOUS
<1> USE DEF vars, herdrVars, relayVars, viewVars, callVars, history
<1>1. CASE UNCHANGED vars
  BY <1>1 DEF TypeOK
<1>2. CASE \E s \in Spaces : Creates(s) \/ ClosesElsewhere(s)
  BY <1>2 DEF TypeOK, Creates, ClosesElsewhere
<1>3. ASSUME NEW c \in Conns, Attach(c) PROVE TypeOK'
  BY <1>3 DEF TypeOK, Attach
<1>4. ASSUME NEW c \in Conns, Leave(c) PROVE TypeOK'
  BY <1>4 DEF TypeOK, Leave, RelayDone, Forgets
<1>5. ASSUME NEW q \in Calls, Routes(q) PROVE TypeOK'
  <2>1. PICK o \in Awaited \cup {"focus"}, n \in Conns, s \in spaces \cup {None} :
          \/ Ends(q, "answered") /\ UNCHANGED queue
          \/ \E c \in Matching(n) :
               /\ Queues(c, Command(q, o, n, s))
               /\ \/ Ends(q, "answered")
                  \/ /\ o \in Awaited /\ Goes(q, "waiting")
                     /\ req' = [req EXCEPT ![q] =
                                  [op |-> o, conn |-> n, space |-> s]]
                     /\ UNCHANGED seen
    BY <1>5 DEF Routes
  <2>2. /\ Command(q, o, n, s) \in Commands
        /\ o \in Awaited => [op |-> o, conn |-> n, space |-> s] \in Requests
    <3>1. s \in Spaces \cup {None}
      BY DEF TypeOK
    <3> QED BY <3>1, CommandTyped, RequestTyped
  <2>3. queue' \in [Conns -> Seq(Commands)]
    <3>1. CASE UNCHANGED queue
      BY <3>1 DEF TypeOK
    <3>2. CASE \E c \in Matching(n) : Queues(c, Command(q, o, n, s))
      BY <2>2, <3>2, QueuesTyped DEF Matching
    <3> QED BY <2>1, <3>1, <3>2
  <2>4. CallsTyped'
    <3>1. CASE Ends(q, "answered")
      BY <3>1, EndsTyped
    <3>2. CASE /\ o \in Awaited /\ Goes(q, "waiting")
               /\ req' = [req EXCEPT ![q] =
                            [op |-> o, conn |-> n, space |-> s]]
               /\ UNCHANGED seen
      BY <2>2, <3>2 DEF Goes, CallsTyped, TypeOK
    <3> QED BY <2>1, <3>1, <3>2
  <2> QED BY <1>5, <2>3, <2>4 DEF Routes, CallsTyped, TypeOK
<1>6. ASSUME NEW q \in Calls, Starts(q) PROVE TypeOK'
  <2>1. req' \in [Calls -> Requests]
    <3>1. PICK o \in Closes, n \in Conns \ ReadOnly, s \in spaces :
            req' = [req EXCEPT ![q] = [op |-> o, conn |-> n, space |-> s]]
      BY <1>6 DEF Starts
    <3>2. [op |-> o, conn |-> n, space |-> s] \in Requests
      BY RequestTyped DEF TypeOK
    <3> QED BY <3>1, <3>2 DEF TypeOK
  <2> QED BY <1>6, <2>1 DEF Starts, Goes, OnlyCall, TypeOK
<1>7. ASSUME NEW q \in Calls, Counts(q) \/ ResolvesGroup(q) \/ Cancelled(q)
      PROVE TypeOK'
  <2>1. CallsTyped'
    <3>1. CASE Ends(q, "answered") \/ Ends(q, "unsure")
      BY <3>1, EndsTyped
    <3>2. CASE \E p \in {"group", "closing"} :
                 Goes(q, p) /\ UNCHANGED req /\ seen' \in [Calls -> Nat]
      BY <3>2 DEF Goes, CallsTyped, TypeOK
    <3>3. CASE Counts(q)
      <4>1. CASE Goes(q, "group") /\ UNCHANGED req
                 /\ seen' = [seen EXCEPT ![q] = Cardinality(spaces)]
        BY <3>2, <4>1, SpacesCounted DEF TypeOK
      <4>2. CASE Goes(q, "closing") /\ UNCHANGED req
                 /\ seen' = [seen EXCEPT ![q] = seen[q]]
        BY <3>2, <4>2 DEF TypeOK
      <4> QED BY <3>1, <3>3, <4>1, <4>2 DEF Counts
    <3>4. CASE ResolvesGroup(q)
      <4>1. CASE Goes(q, "closing") /\ UNCHANGED req
                 /\ seen' = [seen EXCEPT ![q] = 0]
        BY <3>2, <4>1 DEF TypeOK
      <4> QED BY <3>1, <3>4, <4>1 DEF ResolvesGroup
    <3>5. CASE Cancelled(q)
      BY <3>1, <3>5 DEF Cancelled
    <3> QED BY <1>7, <3>3, <3>4, <3>5
  <2> QED BY <1>7, <2>1
    DEF Counts, ResolvesGroup, Cancelled, OnlyCall, CallsTyped, TypeOK
<1>8. ASSUME NEW q \in Calls, ClosesSpace(q) \/ OrphanCloses(q) PROVE TypeOK'
  <2>1. CallsTyped'
    BY <1>8, EndsTyped, GoesTyped DEF ClosesSpace, OrphanCloses
  <2>2. spaces' \subseteq Spaces /\ unborn' \subseteq Spaces
        /\ emptier' \in Calls \cup {None}
    BY <1>8 DEF ClosesSpace, OrphanCloses, Removes, TypeOK
  <2> QED BY <1>8, <2>1, <2>2 DEF ClosesSpace, OrphanCloses, CallsTyped, TypeOK
<1>9. ASSUME NEW q \in Calls, Lists(q) PROVE TypeOK'
  <2>1. CallsTyped'
    BY <1>9, EndsTyped, GoesTyped DEF Lists, Repoints
  <2>2. queue' \in [Conns -> Seq(Commands)]
    <3>1. CASE UNCHANGED queue
      BY <3>1 DEF TypeOK
    <3>2. CASE Repoints(q)
      <4>1. PICK c \in Matching(req[q].conn), s \in spaces :
              Queues(c, Command(q, "switch", req[q].conn, s))
        BY <3>2 DEF Repoints
      <4>2. c \in {req[q].conn}
        BY <4>1 DEF Matching
      <4>3. CASE req[q].conn \in Conns
        <5>1. Command(q, "switch", req[q].conn, s) \in Commands
          BY <4>3, CommandTyped DEF TypeOK
        <5> QED BY <4>1, <4>2, <4>3, <5>1 DEF Queues, TypeOK
      <4>4. CASE req[q].conn \notin Conns
        BY <4>1, <4>2, <4>4 DEF Queues, TypeOK
      <4> QED BY <4>3, <4>4
    <3> QED BY <1>9, <3>1, <3>2 DEF Lists
  <2> QED BY <1>9, <2>1, <2>2 DEF Lists, CallsTyped, TypeOK
<1>10. ASSUME NEW q \in Calls, GivesUp(q) PROVE TypeOK'
  <2>1. CallsTyped'
    BY <1>10, EndsTyped, GoesTyped DEF GivesUp
  <2> QED BY <1>10, <2>1 DEF GivesUp, CallsTyped, TypeOK
<1>11. ASSUME NEW c \in Conns, Takes(c) PROVE TypeOK'
  <2>1. Head(queue[c]) \in Commands /\ Tail(queue[c]) \in Seq(Commands)
    BY <1>11 DEF Takes, TypeOK
  <2>2. /\ queue' \in [Conns -> Seq(Commands)]
        /\ doing' \in [Conns -> Commands \cup {NoCmd}]
        /\ step' \in [Conns -> {"idle", "op", "send", "record"}]
    BY <1>11, <2>1 DEF Takes, TypeOK
  <2> QED BY <1>11, <2>2 DEF Takes, TypeOK
<1>12. ASSUME NEW c \in Conns, step[c] # "idle",
              Moves(c) \/ MoveFails(c) \/ Records(c) \/ Resolves(c)
                \/ SendsToggle(c)
       PROVE TypeOK'
  <2>1. doing[c] \in Commands /\ doing[c].by \in Calls
        /\ doing[c].space \in Spaces \cup {None}
    BY <1>12, DoingTyped DEF Asked, AskedAt
  <2>2. CallsTyped'
    BY <1>12, <2>1, RepliesTyped
    DEF Moves, MoveFails, Records, Resolves, SendsToggle, callVars, CallsTyped,
        TypeOK
  <2>3. /\ doing' \in [Conns -> Commands \cup {NoCmd}]
        /\ step' \in [Conns -> {"idle", "op", "send", "record"}]
    BY <1>12
    DEF Moves, MoveFails, Records, Resolves, SendsToggle, RelayDone, TypeOK
  <2>4. /\ current' \in [Conns -> Spaces \cup {None}]
        /\ view' \in [Conns -> Spaces \cup {None}]
    BY <1>12, <2>1
    DEF Moves, MoveFails, Records, Resolves, SendsToggle, RecordsSpace, TypeOK
  <2>5. lapsed' \subseteq Calls /\ toggled' \subseteq Calls
    BY <1>12, <2>1 DEF Moves, MoveFails, Records, Resolves, SendsToggle, TypeOK
  <2> QED BY <1>12, <2>2, <2>3, <2>4, <2>5
    DEF Moves, MoveFails, Records, Resolves, SendsToggle, CallsTyped, TypeOK
<1>13. ASSUME NEW c \in Conns, RelayStep(c) PROVE TypeOK'
  BY <1>11, <1>12, <1>13
  DEF RelayStep, Serves, Moves, MoveFails, Records, Resolves, SendsToggle
<1> QED BY <1>1, <1>2, <1>3, <1>4, <1>5, <1>6, <1>7, <1>8, <1>9, <1>10, <1>13
  DEF Next, CloseStep

-----------------------------------------------------------------------------
LEMMA AdvanceStep ==
  ASSUME TypeOK, [Next]_vars
  PROVE  CallsAdvance
<1> USE DEF vars, herdrVars, relayVars, viewVars, callVars, history
<1>1. ASSUME UNCHANGED callVars PROVE CallsAdvance
  BY <1>1 DEF CallsAdvance
<1>2. ASSUME NEW q \in Calls, place[q] \notin Ended, place[q] # "waiting",
             place' = [place EXCEPT ![q] = place'[q]],
             \A x \in Calls \ {q} : req'[x] = req[x]
      PROVE  CallsAdvance
  BY <1>2 DEF CallsAdvance, TypeOK
<1>3. ASSUME NEW q \in Calls, NEW p \in Ended, place[q] \notin Ended, Ends(q, p)
      PROVE  CallsAdvance
  BY <1>3 DEF CallsAdvance, Ends, Goes, TypeOK
<1>4. ASSUME NEW q \in Calls,
             Routes(q) \/ Starts(q) \/ Counts(q) \/ ResolvesGroup(q)
               \/ ClosesSpace(q) \/ OrphanCloses(q) \/ Lists(q)
      PROVE  CallsAdvance
  <2>1. place[q] \notin Ended /\ place[q] # "waiting"
    BY <1>4 DEF Routes, Starts, Counts, ResolvesGroup, ClosesSpace,
                OrphanCloses, Lists
  <2>2. \E p \in Places : Goes(q, p)
    BY <1>4 DEF Routes, Starts, Counts, ResolvesGroup, ClosesSpace,
                OrphanCloses, Lists, Repoints, Ends
  <2>3. \/ UNCHANGED req
        \/ \E r : req' = [req EXCEPT ![q] = r]
    BY <1>4 DEF Routes, Starts, Counts, ResolvesGroup, ClosesSpace,
                OrphanCloses, Lists, Repoints, Ends
  <2>4. place' = [place EXCEPT ![q] = place'[q]]
    BY <2>2 DEF Goes, TypeOK
  <2> QED BY <1>2, <2>1, <2>3, <2>4 DEF TypeOK
<1>5. ASSUME NEW q \in Calls, GivesUp(q) \/ Cancelled(q) PROVE CallsAdvance
  <2>1. CASE place[q] = "closing" /\ Goes(q, "orphan") /\ UNCHANGED req
    BY <2>1 DEF CallsAdvance, Goes, TypeOK
  <2>2. CASE Ends(q, "unsure") \/ Ends(q, "answered")
    BY <1>3, <1>5, <2>2 DEF GivesUp, Cancelled
  <2> QED BY <1>5, <2>1, <2>2 DEF GivesUp, Cancelled
<1>6. ASSUME NEW q, Replies(q) PROVE CallsAdvance
  <2>1. CASE q \in Calls
    BY <1>1, <1>3, <1>6, <2>1 DEF Replies
  <2>2. CASE q \notin Calls
    BY <1>6, <2>2 DEF Replies, Ends, Goes, CallsAdvance, TypeOK
  <2> QED BY <2>1, <2>2
<1>7. ASSUME NEW c \in Conns, RelayStep(c) PROVE CallsAdvance
  BY <1>1, <1>6, <1>7
  DEF RelayStep, Takes, Moves, MoveFails, Records, Resolves, SendsToggle
<1>8. ASSUME NEW c \in Conns, Attach(c) \/ Leave(c) PROVE CallsAdvance
  BY <1>1, <1>8 DEF Attach, Leave
<1>9. ASSUME NEW s \in Spaces, Creates(s) \/ ClosesElsewhere(s)
      PROVE CallsAdvance
  BY <1>1, <1>9 DEF Creates, ClosesElsewhere
<1> QED BY <1>1, <1>4, <1>5, <1>7, <1>8, <1>9 DEF Next, CloseStep

(* A command keeps its call for as long as handlers only advance. *)
StillAsked(m, c) ==
  /\ m.conn = c
  /\ place'[m.by] \in Ended \cup {"waiting"}
  /\ place'[m.by] = "waiting" => req'[m.by].conn = c

LEMMA AskedKept ==
  ASSUME CallsAdvance, NEW c \in Conns, NEW m \in Commands, AskedBy(m, c)
  PROVE  StillAsked(m, c)
  BY DEF AskedBy, StillAsked, CallsAdvance, Commands

LEMMA AppendElements ==
  ASSUME NEW S, NEW s \in Seq(S), NEW m \in S
  PROVE  \A i \in DOMAIN Append(s, m) :
           \/ Append(s, m)[i] = m
           \/ i \in DOMAIN s /\ Append(s, m)[i] = s[i]
  OBVIOUS

LEMMA GrownQueueAsked ==
  ASSUME NEW s \in Seq(Commands), NEW m \in Commands, NEW c \in Conns,
         StillAsked(m, c), \A i \in DOMAIN s : StillAsked(s[i], c)
  PROVE  \A i \in DOMAIN Append(s, m) : StillAsked(Append(s, m)[i], c)
<1>1. \A i \in DOMAIN Append(s, m) :
        \/ Append(s, m)[i] = m
        \/ i \in DOMAIN s /\ Append(s, m)[i] = s[i]
  BY AppendElements
<1> QED BY <1>1

LEMMA AskedStep == TypeOK /\ Asked /\ [Next]_vars => Asked'
<1> SUFFICES ASSUME TypeOK, Asked, [Next]_vars, NEW c \in Conns
             PROVE  AskedAt(c)'
  BY DEF Asked
<1>0. AskedAt(c)' <=>
        /\ step'[c] # "idle" => doing'[c] \in Commands
        /\ doing'[c] \in Commands => StillAsked(doing'[c], c)
        /\ \A i \in DOMAIN queue'[c] : StillAsked(queue'[c][i], c)
  BY DEF AskedAt, AskedBy, StillAsked
<1> USE DEF vars, herdrVars, relayVars, viewVars, callVars, history
<1>1. CallsAdvance
  BY AdvanceStep
<1>2. ASSUME NEW m \in Commands, AskedBy(m, c) PROVE StillAsked(m, c)
  BY <1>1, <1>2, AskedKept
<1>3. \A i \in DOMAIN queue[c] : queue[c][i] \in Commands /\ StillAsked(queue[c][i], c)
  BY <1>2 DEF Asked, AskedAt, TypeOK
<1>4. doing[c] \in Commands => StillAsked(doing[c], c)
  BY <1>2 DEF Asked, AskedAt
<1>5. ASSUME queue'[c] = queue[c], doing'[c] = doing[c],
             step'[c] = step[c] \/ doing[c] \in Commands
      PROVE  AskedAt(c)'
  BY <1>0, <1>3, <1>4, <1>5 DEF Asked, AskedAt
<1>6. ASSUME queue'[c] = queue[c], doing'[c] = NoCmd, step'[c] = "idle"
      PROVE  AskedAt(c)'
  BY <1>0, <1>3, <1>6, NoCmdIsNone
<1>7. ASSUME NEW m \in Commands, StillAsked(m, c), queue'[c] = Append(queue[c], m),
             doing'[c] = doing[c], step'[c] = step[c]
      PROVE  AskedAt(c)'
  <2>1. queue[c] \in Seq(Commands)
    BY DEF TypeOK
  <2>2. \A i \in DOMAIN queue'[c] : StillAsked(queue'[c][i], c)
    BY <1>3, <1>7, <2>1, GrownQueueAsked
  <2> QED BY <1>0, <1>4, <1>7, <2>2 DEF Asked, AskedAt
<1>8. CASE UNCHANGED vars
  BY <1>5, <1>8
<1>9. ASSUME NEW s \in Spaces, Creates(s) \/ ClosesElsewhere(s)
      PROVE AskedAt(c)'
  BY <1>5, <1>9 DEF Creates, ClosesElsewhere
<1>10. ASSUME NEW d \in Conns, Attach(d) PROVE AskedAt(c)'
  BY <1>5, <1>10 DEF Attach
<1>11. ASSUME NEW d \in Conns, Leave(d) PROVE AskedAt(c)'
  <2>1. CASE d = c
    BY <1>11, <2>1, NoCmdIsNone DEF Leave, RelayDone, AskedAt, TypeOK
  <2>2. CASE d # c
    BY <1>5, <1>11, <2>2 DEF Leave, RelayDone, TypeOK
  <2> QED BY <2>1, <2>2
<1>12. ASSUME NEW q \in Calls, Starts(q) \/ Counts(q) \/ ResolvesGroup(q)
         \/ ClosesSpace(q) \/ OrphanCloses(q) \/ Cancelled(q) \/ GivesUp(q)
       PROVE  AskedAt(c)'
  BY <1>5, <1>12 DEF Starts, Counts, ResolvesGroup, ClosesSpace, OrphanCloses,
                     Cancelled, GivesUp, OnlyCall
<1>13. ASSUME NEW q \in Calls, Routes(q) PROVE AskedAt(c)'
  <2>1. PICK o \in Awaited \cup {"focus"}, n \in Conns, s \in spaces \cup {None} :
          \/ UNCHANGED queue
          \/ \E d \in Matching(n) :
               /\ Queues(d, Command(q, o, n, s))
               /\ \/ Ends(q, "answered")
                  \/ /\ Goes(q, "waiting")
                     /\ req' = [req EXCEPT ![q] =
                                  [op |-> o, conn |-> n, space |-> s]]
    BY <1>13 DEF Routes
  <2>2. doing' = doing /\ step' = step
    BY <1>13 DEF Routes
  <2>3. CASE UNCHANGED queue
    BY <1>5, <2>2, <2>3
  <2>4. CASE Queues(n, Command(q, o, n, s)) /\ n # c
    BY <1>5, <2>2, <2>4 DEF Queues, TypeOK
  <2>5. CASE /\ Queues(n, Command(q, o, n, s)) /\ n = c
             /\ \/ Ends(q, "answered")
                \/ /\ Goes(q, "waiting")
                   /\ req' = [req EXCEPT ![q] =
                                [op |-> o, conn |-> n, space |-> s]]
    <3>1. Command(q, o, n, s) \in Commands
      BY CommandTyped DEF TypeOK
    <3>2. StillAsked(Command(q, o, n, s), c)
      BY <2>5 DEF StillAsked, Command, Ends, Goes, TypeOK
    <3>3. queue'[c] = Append(queue[c], Command(q, o, n, s))
      BY <2>5 DEF Queues, TypeOK
    <3> QED BY <1>7, <2>2, <3>1, <3>2, <3>3
  <2> QED BY <2>1, <2>3, <2>4, <2>5 DEF Matching
<1>14. ASSUME NEW q \in Calls, Lists(q) PROVE AskedAt(c)'
  <2>1. doing' = doing /\ step' = step
    BY <1>14 DEF Lists
  <2>2. CASE UNCHANGED queue
    BY <1>5, <2>1, <2>2
  <2>3. CASE Repoints(q)
    <3>1. PICK s \in spaces, d \in Matching(req[q].conn) :
            /\ Queues(d, Command(q, "switch", req[q].conn, s))
            /\ Goes(q, "waiting") /\ UNCHANGED req
      BY <2>3 DEF Repoints
    <3>2. d = req[q].conn
      BY <3>1 DEF Matching
    <3>3. CASE d # c
      BY <1>5, <2>1, <3>1, <3>3 DEF Queues, TypeOK
    <3>4. CASE d = c
      <4>1. Command(q, "switch", c, s) \in Commands
        BY CommandTyped DEF TypeOK
      <4>2. StillAsked(Command(q, "switch", c, s), c)
        BY <3>1, <3>2, <3>4 DEF StillAsked, Command, Goes, TypeOK
      <4>3. queue'[c] = Append(queue[c], Command(q, "switch", c, s))
        BY <3>1, <3>2, <3>4 DEF Queues, TypeOK
      <4> QED BY <1>7, <2>1, <4>1, <4>2, <4>3
    <3> QED BY <3>3, <3>4
  <2> QED BY <1>14, <2>2, <2>3 DEF Lists
<1>15. ASSUME NEW d \in Conns, Takes(d) PROVE AskedAt(c)'
  <2>1. CASE d # c
    BY <1>5, <1>15, <2>1 DEF Takes, TypeOK
  <2>2. CASE d = c
    <3>1. queue[c] \in Seq(Commands) /\ queue[c] # <<>>
      BY <1>15, <2>2 DEF Takes, TypeOK
    <3>2. queue'[c] = Tail(queue[c])
      BY <1>15, <2>2 DEF Takes, TypeOK
    <3>3. \A i \in DOMAIN queue'[c] :
            i + 1 \in DOMAIN queue[c] /\ queue'[c][i] = queue[c][i + 1]
      BY <3>1, <3>2
    <3>4. \A i \in DOMAIN queue'[c] : StillAsked(queue'[c][i], c)
      BY <1>3, <3>3
    <3>5. Head(queue[c]) \in Commands /\ StillAsked(Head(queue[c]), c)
      BY <1>3, <3>1
    <3>6. CASE doing' = [doing EXCEPT ![c] = Head(queue[c])]
      <4>1. doing'[c] = Head(queue[c])
        BY <3>6 DEF TypeOK
      <4> QED BY <1>0, <3>4, <3>5, <4>1
    <3>7. CASE UNCHANGED <<doing, step>>
      BY <1>0, <1>4, <3>4, <3>7 DEF Asked, AskedAt
    <3> QED BY <1>15, <2>2, <3>6, <3>7 DEF Takes
  <2> QED BY <2>1, <2>2
<1>16. ASSUME NEW d \in Conns, Moves(d) PROVE AskedAt(c)'
  BY <1>5, <1>16 DEF Moves, Serves, Asked, AskedAt, TypeOK
<1>17. ASSUME NEW d \in Conns, RelayDone(d), UNCHANGED queue PROVE AskedAt(c)'
  <2>1. CASE d = c
    BY <1>6, <1>17, <2>1 DEF RelayDone, TypeOK
  <2>2. CASE d # c
    BY <1>5, <1>17, <2>2 DEF RelayDone, TypeOK
  <2> QED BY <2>1, <2>2
<1>18. ASSUME NEW d \in Conns, Resolves(d) PROVE AskedAt(c)'
  <2>1. CASE step' = [step EXCEPT ![d] = "send"] /\ UNCHANGED doing
    BY <1>5, <1>18, <2>1 DEF Resolves, Serves, Asked, AskedAt, TypeOK
  <2>2. CASE RelayDone(d)
    BY <1>17, <1>18, <2>2 DEF Resolves
  <2> QED BY <1>18, <2>1, <2>2 DEF Resolves
<1>19. ASSUME NEW d \in Conns, RelayStep(d) PROVE AskedAt(c)'
  BY <1>15, <1>16, <1>17, <1>18, <1>19
  DEF RelayStep, MoveFails, Records, SendsToggle
<1> QED BY <1>8, <1>9, <1>10, <1>11, <1>12, <1>13, <1>14, <1>19
  DEF Next, CloseStep

LEMMA ClosingStep == TypeOK /\ Closing /\ [Next]_vars => Closing'
<1> SUFFICES ASSUME TypeOK, Closing, [Next]_vars PROVE Closing'
  OBVIOUS
<1> USE DEF vars, herdrVars, relayVars, viewVars, callVars, history
<1>1. ASSUME UNCHANGED <<place, req>> PROVE Closing'
  BY <1>1 DEF Closing
<1>2. ASSUME NEW q, NEW p \in Ended \cup {"waiting", "orphan"}, Goes(q, p),
             \A x \in Calls \ {q} : req'[x] = req[x]
      PROVE  Closing'
  BY <1>2 DEF Closing, Goes, TypeOK
<1>3. ASSUME NEW q, NEW p \in Ended, Ends(q, p) PROVE Closing'
  BY <1>2, <1>3 DEF Ends, TypeOK
<1>4. ASSUME NEW q \in Calls, place[q] \in {"count", "group", "closing"},
             NEW p \in {"group", "closing", "listing"}, Goes(q, p), UNCHANGED req
      PROVE  Closing'
  BY <1>4 DEF Closing, Goes, TypeOK
<1>5. ASSUME NEW q \in Calls, Routes(q) PROVE Closing'
  <2>1. CASE Ends(q, "answered")
    BY <1>3, <2>1
  <2>2. CASE Goes(q, "waiting") /\ \E r : req' = [req EXCEPT ![q] = r]
    BY <1>2, <2>2 DEF TypeOK
  <2> QED BY <1>5, <2>1, <2>2 DEF Routes
<1>6. ASSUME NEW q \in Calls, Starts(q) PROVE Closing'
  <2>1. PICK o \in Closes, n \in Conns, s \in spaces :
          req' = [req EXCEPT ![q] = [op |-> o, conn |-> n, space |-> s]]
    BY <1>6 DEF Starts
  <2>2. req'[q].op \in Closes /\ \A x \in Calls \ {q} : req'[x] = req[x]
    BY <2>1 DEF TypeOK
  <2> QED BY <1>6, <2>2 DEF Starts, Goes, Closing, TypeOK
<1>7. ASSUME NEW q \in Calls, CloseStep(q) PROVE Closing'
  <2>1. CASE Counts(q)
    BY <1>3, <1>4, <2>1 DEF Counts
  <2>2. CASE ResolvesGroup(q)
    BY <1>3, <1>4, <2>2 DEF ResolvesGroup
  <2>3. CASE ClosesSpace(q)
    BY <1>3, <1>4, <2>3 DEF ClosesSpace
  <2>4. CASE OrphanCloses(q) \/ Cancelled(q)
    BY <1>3, <2>4 DEF OrphanCloses, Cancelled
  <2>5. CASE Lists(q)
    BY <1>2, <1>3, <2>5 DEF Lists, Repoints
  <2> QED BY <1>7, <2>1, <2>2, <2>3, <2>4, <2>5 DEF CloseStep
<1>8. ASSUME NEW q \in Calls, GivesUp(q) PROVE Closing'
  BY <1>2, <1>3, <1>8 DEF GivesUp
<1>9. ASSUME NEW c \in Conns, RelayStep(c) PROVE Closing'
  BY <1>1, <1>3, <1>9 DEF RelayStep, Takes, Moves, MoveFails, Records, Resolves,
                          SendsToggle, Replies
<1>10. ASSUME NEW c \in Conns, Attach(c) \/ Leave(c) PROVE Closing'
  BY <1>1, <1>10 DEF Attach, Leave
<1>11. ASSUME NEW s \in Spaces, Creates(s) \/ ClosesElsewhere(s) PROVE Closing'
  BY <1>1, <1>11 DEF Creates, ClosesElsewhere
<1> QED BY <1>1, <1>5, <1>6, <1>7, <1>8, <1>9, <1>10, <1>11 DEF Next

(* Every state and every step is well typed, and every relay holds only    *)
(* commands of calls that named its connection.                            *)
THEOREM ControlTypeCorrect == Spec => [](TypeOK /\ Asked /\ Closing)
<1>1. Init => TypeOK /\ Asked /\ Closing
  <2>1. Init => TypeOK
    BY ControlAssumption DEF Init, TypeOK, Requests, Closes
  <2>2. Init => Asked
    BY NoCmdIsNone DEF Init, Asked, AskedAt
  <2>3. Init => Closing
    BY DEF Init, Closing
  <2> QED BY <2>1, <2>2, <2>3
<1>2. TypeOK /\ Asked /\ Closing /\ [Next]_vars => (TypeOK /\ Asked /\ Closing)'
  BY TypeStep, AskedStep, ClosingStep
<1> QED BY <1>1, <1>2, PTL DEF Spec

-----------------------------------------------------------------------------
(* A client's stream is moved only by a call that named its connection.    *)
THEOREM OnlyOwnMovesThm == Spec => OnlyOwnMoves
<1> DEFINE Own == \A c \in Conns :
       relay[c] = "serving" /\ relay'[c] = "serving"
                            /\ Viewing(c)' # Viewing(c)
         => doing[c].conn = c
<1>1. TypeOK /\ Asked /\ [Next]_vars => [Own]_vars
  <2> SUFFICES ASSUME TypeOK, Asked, Next, NEW c \in Conns,
                      relay[c] = "serving", relay'[c] = "serving",
                      Viewing(c)' # Viewing(c)
               PROVE  doing[c].conn = c
    OBVIOUS
  <2>1. step[c] # "idle" => doing[c].conn = c
    BY DEF Asked, AskedAt, AskedBy
  <2>2. ASSUME UNCHANGED viewVars PROVE FALSE
    BY <2>2 DEF viewVars, Viewing
  <2>3. ASSUME NEW d \in Conns, Attach(d) \/ Leave(d) PROVE FALSE
    BY <2>3 DEF Attach, Leave, Forgets, Viewing, TypeOK
  <2>4. ASSUME NEW d \in Conns, Moves(d) \/ Records(d) PROVE step[c] # "idle"
    BY <2>4 DEF Moves, Records, RecordsSpace, Serves, Viewing, TypeOK
  <2>5. ASSUME NEW d \in Conns, RelayStep(d) PROVE step[c] # "idle"
    BY <2>2, <2>4, <2>5 DEF RelayStep, Takes, MoveFails, Resolves, SendsToggle
  <2>6. ASSUME NEW q \in Calls, Routes(q) \/ Starts(q) \/ CloseStep(q)
                                  \/ GivesUp(q)
        PROVE FALSE
    BY <2>2, <2>6 DEF Routes, Starts, CloseStep, Counts, ResolvesGroup,
      ClosesSpace, OrphanCloses, Lists, Cancelled, GivesUp, OnlyCall
  <2>7. ASSUME NEW s \in Spaces, Creates(s) \/ ClosesElsewhere(s) PROVE FALSE
    BY <2>2, <2>7 DEF Creates, ClosesElsewhere
  <2> QED BY <2>1, <2>3, <2>5, <2>6, <2>7 DEF Next
<1> QED BY <1>1, ControlTypeCorrect, PTL DEF Spec, OnlyOwnMoves

-----------------------------------------------------------------------------
LEMMA ViewedStep == TypeOK /\ Asked /\ Viewed /\ [Next]_vars => Viewed'
<1> SUFFICES ASSUME TypeOK, Asked, Viewed, [Next]_vars, NEW c \in Conns
             PROVE  ViewAt(c)'
  BY DEF Viewed
<1> USE DEF vars, herdrVars, relayVars, viewVars, callVars, history
<1>1. ASSUME relay'[c] = relay[c], step'[c] = step[c], doing'[c] = doing[c],
             current'[c] = current[c], view'[c] = view[c]
      PROVE  ViewAt(c)'
  BY <1>1 DEF Viewed, ViewAt
<1>2. CASE UNCHANGED <<relay, step, doing, viewVars>>
  BY <1>1, <1>2
<1>3. ASSUME NEW d \in Conns, Attach(d) PROVE ViewAt(c)'
  <2>1. CASE d # c
    BY <1>1, <1>3, <2>1 DEF Attach, TypeOK
  <2>2. CASE d = c
    <3>1. step[c] = "idle" /\ step' = step /\ relay'[c] = "serving"
      BY <1>3, <2>2 DEF Attach, TypeOK, Viewed, ViewAt
    <3>2. view'[c] = None \/ view'[c] = current'[c]
      BY <1>3, <2>2 DEF Attach, TypeOK
    <3> QED BY <3>1, <3>2 DEF ViewAt
  <2> QED BY <2>1, <2>2
<1>4. ASSUME NEW d \in Conns, Leave(d) PROVE ViewAt(c)'
  <2>1. CASE d # c
    BY <1>1, <1>4, <2>1 DEF Leave, RelayDone, Forgets, TypeOK
  <2>2. CASE d = c
    BY <1>4, <2>2 DEF Leave, RelayDone, Forgets, TypeOK, ViewAt
  <2> QED BY <2>1, <2>2
<1>5. ASSUME NEW d \in Conns, RelayStep(d) PROVE ViewAt(c)'
  <2>1. relay[d] = "serving" /\ UNCHANGED relay
    BY <1>5 DEF RelayStep, Takes, Moves, MoveFails, Records, Resolves,
                SendsToggle, Serves
  <2>2. CASE d # c
    BY <1>1, <1>5, <2>2 DEF RelayStep, Takes, Moves, MoveFails, Records,
      Resolves, SendsToggle, RelayDone, RecordsSpace, TypeOK
  <2>3. CASE d = c /\ Records(c)
    BY <2>1, <2>3 DEF Records, RecordsSpace, RelayDone, Serves, TypeOK, Viewed,
                      ViewAt
  <2>4. CASE d = c /\ Moves(c)
    BY <2>1, <2>4 DEF Moves, Serves, TypeOK, Viewed, ViewAt
  <2>5. CASE d = c /\ step'[c] # "record" /\ step[c] # "record"
                   /\ UNCHANGED viewVars
    BY <2>1, <2>5 DEF Viewed, ViewAt
  <2>6. CASE d = c /\ (Takes(c) \/ MoveFails(c) \/ Resolves(c) \/ SendsToggle(c))
    BY <1>1, <2>5, <2>6 DEF Takes, MoveFails, Resolves, SendsToggle, Serves,
                      RelayDone, TypeOK
  <2> QED BY <1>5, <2>2, <2>3, <2>4, <2>6 DEF RelayStep
<1>6. ASSUME NEW q \in Calls, Routes(q) \/ Starts(q) \/ CloseStep(q) \/ GivesUp(q)
      PROVE UNCHANGED <<relay, step, doing, viewVars>>
  BY <1>6 DEF Routes, Starts, CloseStep, Counts, ResolvesGroup, ClosesSpace,
              OrphanCloses, Lists, Cancelled, GivesUp, OnlyCall
<1>7. ASSUME NEW s \in Spaces, Creates(s) \/ ClosesElsewhere(s)
      PROVE UNCHANGED <<relay, step, doing, viewVars>>
  BY <1>7 DEF Creates, ClosesElsewhere
<1> QED BY <1>2, <1>3, <1>4, <1>5, <1>6, <1>7 DEF Next

(* The space recorded as the client's is the one its layouts come from.    *)
THEOREM ViewIsCurrentThm == Spec => []ViewIsCurrent
<1>1. Init => Viewed
  BY DEF Init, Viewed, ViewAt
<1>2. TypeOK /\ Asked /\ Viewed /\ [Next]_vars => Viewed'
  BY ViewedStep
<1>3. Viewed => ViewIsCurrent
  BY DEF Viewed, ViewAt, ViewIsCurrent
<1> QED BY <1>1, <1>2, <1>3, ControlTypeCorrect, PTL DEF Spec

-----------------------------------------------------------------------------
LEMMA LapsesStep ==
  TypeOK /\ Asked /\ Closing /\ Lapses /\ [Next]_vars => Lapses'
<1> SUFFICES ASSUME TypeOK, Asked, Closing, Lapses, [Next]_vars PROVE Lapses'
  OBVIOUS
<1> USE DEF vars, herdrVars, relayVars, viewVars, callVars, history
<1>1. \A q \in Calls : place[q] \in Ended => place'[q] = place[q]
  BY AdvanceStep DEF CallsAdvance
<1>2. lapsed \subseteq Calls /\ toggled \subseteq Calls
  BY DEF TypeOK
<1>3. ASSUME UNCHANGED history,
             \A c \in Conns : step'[c] = "send" =>
               step[c] = "send" /\ doing'[c] = doing[c]
      PROVE  Lapses'
  BY <1>1, <1>2, <1>3 DEF Lapses, Sending, GivenUpNotToggled
<1>4. ASSUME UNCHANGED <<history, relayVars>> PROVE Lapses'
  BY <1>3, <1>4
<1>5. ASSUME NEW q \in Calls, GivesUp(q) PROVE Lapses'
  <2>1. CASE UNCHANGED lapsed
    BY <1>3, <1>5, <2>1 DEF GivesUp
  <2>2. CASE lapsed' = lapsed \cup {q} /\ req[q].op = "toggle"
             /\ ~Sending(req[q].conn, q) /\ Ends(q, "answered")
    <3>1. place'[q] \in Ended /\ q \notin toggled
      BY <1>5, <2>2 DEF Ends, Goes, GivesUp, TypeOK, Lapses
    <3>2. ASSUME NEW c \in Conns, Sending(c, q) PROVE FALSE
      <4>1. AskedBy(doing[c], c)
        BY <3>2 DEF Sending, Asked, AskedAt
      <4> QED BY <1>5, <2>2, <3>2, <4>1 DEF Sending, AskedBy, GivesUp
    <3>3. UNCHANGED <<step, doing, toggled>>
      BY <1>5 DEF GivesUp
    <3>4. \A x \in lapsed' :
            place'[x] \in Ended /\ \A c \in Conns : ~Sending(c, x)'
      BY <1>1, <1>2, <2>2, <3>1, <3>2, <3>3 DEF Lapses, Sending
    <3>5. \A x \in toggled' : place'[x] \in Ended
      BY <1>1, <1>2, <3>3 DEF Lapses
    <3>6. GivenUpNotToggled'
      BY <2>2, <3>1, <3>3 DEF Lapses, GivenUpNotToggled
    <3> QED BY <3>4, <3>5, <3>6 DEF Lapses
  <2>3. CASE req[q].op = "toggle" /\ ~Sending(req[q].conn, q)
             /\ lapsed' = lapsed \cup {q} /\ place[q] = "closing"
    BY <2>3 DEF Closing
  <2> QED BY <1>5, <2>1, <2>2, <2>3 DEF GivesUp
<1>6. ASSUME NEW c \in Conns, SendsToggle(c) PROVE Lapses'
  <2>1. doing[c] \in Commands /\ AskedBy(doing[c], c) /\ doing[c].by \in Calls
    BY <1>6, DoingTyped DEF SendsToggle, Serves, Asked, AskedAt
  <2>2. place'[doing[c].by] \in Ended
    BY <1>6, <2>1 DEF SendsToggle, Replies, Ends, Goes, AskedBy, TypeOK
  <2>3. Sending(c, doing[c].by)
    BY <1>6 DEF SendsToggle, Serves, Sending
  <2>4. doing[c].by \notin lapsed
    BY <2>3 DEF Lapses
  <2>5. \A d \in Conns : step'[d] = "send" =>
          step[d] = "send" /\ doing'[d] = doing[d]
    BY <1>6 DEF SendsToggle, RelayDone, TypeOK
  <2>6. lapsed' = lapsed /\ toggled' \subseteq toggled \cup {doing[c].by}
    BY <1>6 DEF SendsToggle
  <2>7. GivenUpNotToggled'
    BY <2>4, <2>6 DEF Lapses, GivenUpNotToggled
  <2>8. \A q \in toggled' : place'[q] \in Ended
    BY <1>1, <1>2, <2>2, <2>6 DEF Lapses
  <2>9. \A q \in lapsed' :
          place'[q] \in Ended /\ \A d \in Conns : ~Sending(d, q)'
    BY <1>1, <1>2, <2>5, <2>6 DEF Lapses, Sending
  <2> QED BY <2>7, <2>8, <2>9 DEF Lapses
<1>7. ASSUME NEW c \in Conns, Resolves(c) PROVE Lapses'
  <2>1. CASE RelayDone(c)
    BY <1>3, <1>7, <2>1 DEF Resolves, RelayDone, TypeOK
  <2>2. CASE ~GaveUp(doing[c]) /\ UNCHANGED <<doing, callVars>>
             /\ step' = [step EXCEPT ![c] = "send"]
    <3>1. doing[c].by \notin lapsed
      BY <2>2 DEF GaveUp, Lapses
    <3>2. \A d \in Conns, q \in lapsed : ~Sending(d, q)'
      BY <2>2, <3>1 DEF Lapses, Sending, TypeOK
    <3> QED BY <1>7, <2>2, <3>2 DEF Resolves, Lapses, GivenUpNotToggled
  <2> QED BY <1>7, <2>1, <2>2 DEF Resolves
<1>8. ASSUME NEW c \in Conns, Takes(c) \/ Moves(c) \/ MoveFails(c) \/ Records(c)
      PROVE  Lapses'
  BY <1>3, <1>8 DEF Takes, Moves, MoveFails, Records, RelayDone, Serves, TypeOK
<1>9. ASSUME NEW c \in Conns, Attach(c) \/ Leave(c) PROVE Lapses'
  BY <1>3, <1>9 DEF Attach, Leave, RelayDone, TypeOK
<1>10. ASSUME NEW q \in Calls, Routes(q) \/ Starts(q) \/ CloseStep(q)
       PROVE  Lapses'
  BY <1>3, <1>10 DEF Routes, Starts, CloseStep, Counts, ResolvesGroup,
    ClosesSpace, OrphanCloses, Lists, Cancelled, OnlyCall
<1>11. ASSUME NEW s \in Spaces, Creates(s) \/ ClosesElsewhere(s) PROVE Lapses'
  BY <1>4, <1>11 DEF Creates, ClosesElsewhere
<1> QED BY <1>4, <1>5, <1>6, <1>7, <1>8, <1>9, <1>10, <1>11
  DEF Next, RelayStep

(* A toggle whose caller gave up before the relay's last look is not sent. *)
THEOREM GivenUpNotToggledThm == Spec => []GivenUpNotToggled
<1>1. Init => Lapses
  BY DEF Init, Lapses, GivenUpNotToggled
<1>2. TypeOK /\ Asked /\ Closing /\ Lapses /\ [Next]_vars => Lapses'
  BY LapsesStep
<1>3. Lapses => GivenUpNotToggled
  BY DEF Lapses
<1> QED BY <1>1, <1>2, <1>3, ControlTypeCorrect, PTL DEF Spec

-----------------------------------------------------------------------------
LEMMA EmptyStep ==
  TypeOK /\ Closing /\ EmptyIsTold /\ [Next]_vars => EmptyIsTold'
<1> SUFFICES ASSUME TypeOK, Closing, EmptyIsTold, [Next]_vars,
                    spaces' = {}, emptier' # None
             PROVE  place'[emptier'] \in {"listing", "warned", "unsure"}
  BY DEF EmptyIsTold
<1> USE DEF vars, herdrVars, relayVars, viewVars, callVars, history
<1>1. ASSUME NEW q \in Calls, Removes(q), Goes(q, "listing") \/ Goes(q, "unsure")
      PROVE  place'[emptier'] \in {"listing", "warned", "unsure"}
  BY <1>1 DEF Removes, Goes, TypeOK
<1>2. ASSUME UNCHANGED <<spaces, emptier>>, place'[emptier] = place[emptier]
      PROVE  place'[emptier'] \in {"listing", "warned", "unsure"}
  BY <1>2 DEF EmptyIsTold
<1>3. ASSUME NEW q \in Calls, NEW p, Goes(q, p), UNCHANGED <<spaces, emptier>>,
             place[q] \in {"listing", "warned", "unsure"}
               => p \in {"listing", "warned", "unsure"}
      PROVE  place'[emptier'] \in {"listing", "warned", "unsure"}
  BY <1>3 DEF EmptyIsTold, Goes, TypeOK
<1>4. ASSUME NEW c \in Conns, RelayStep(c)
      PROVE  place'[emptier'] \in {"listing", "warned", "unsure"}
  <2>1. UNCHANGED <<spaces, emptier>>
    BY <1>4 DEF RelayStep, Takes, Moves, MoveFails, Records, Resolves,
                SendsToggle
  <2>2. UNCHANGED place \/ Replies(doing[c].by)
    BY <1>4 DEF RelayStep, Takes, Moves, MoveFails, Records, Resolves,
                SendsToggle
  <2>3. CASE UNCHANGED place
    BY <1>2, <2>1, <2>3
  <2>4. CASE place[doing[c].by] = "waiting" /\ Goes(doing[c].by, "answered")
    BY <2>1, <2>4 DEF Goes, EmptyIsTold, TypeOK
  <2> QED BY <2>2, <2>3, <2>4 DEF Replies, Ends
<1>5. ASSUME NEW q \in Calls, CloseStep(q)
      PROVE  place'[emptier'] \in {"listing", "warned", "unsure"}
  <2>1. CASE Counts(q) \/ ResolvesGroup(q) \/ Cancelled(q)
    BY <1>3, <2>1 DEF Counts, ResolvesGroup, Cancelled, Ends, OnlyCall
  <2>2. CASE ClosesSpace(q)
    BY <1>1, <1>3, <2>2 DEF ClosesSpace, Ends
  <2>3. CASE OrphanCloses(q)
    BY <1>1, <1>3, <2>3 DEF OrphanCloses, Ends
  <2>4. CASE Lists(q)
    <3>1. spaces = {}
      BY <2>4 DEF Lists
    <3>2. ~Repoints(q)
      BY <3>1 DEF Repoints
    <3>3. Goes(q, "warned") \/ Goes(q, "unsure")
      BY <2>4, <3>1, <3>2 DEF Lists, Ends
    <3> QED BY <1>3, <2>4, <3>3 DEF Lists
  <2> QED BY <1>5, <2>1, <2>2, <2>3, <2>4 DEF CloseStep
<1>6. ASSUME NEW q \in Calls, GivesUp(q)
      PROVE  place'[emptier'] \in {"listing", "warned", "unsure"}
  <2>1. place[q] \in {"count", "group", "closing", "listing"}
          => req[q].op \in Closes
    BY DEF Closing
  <2>2. CASE place[q] = "listing"
    <3>1. Goes(q, "unsure")
      BY <1>6, <2>1, <2>2 DEF GivesUp, Ends
    <3> QED BY <1>3, <1>6, <3>1 DEF GivesUp
  <2>3. CASE place[q] # "listing"
    <3>1. place[q] \notin {"warned", "unsure"}
      BY <1>6 DEF GivesUp
    <3> QED BY <1>3, <1>6, <2>3, <3>1 DEF GivesUp, Ends
  <2> QED BY <2>2, <2>3
<1>7. ASSUME NEW q \in Calls, Routes(q) \/ Starts(q)
      PROVE  place'[emptier'] \in {"listing", "warned", "unsure"}
  BY <1>3, <1>7 DEF Routes, Starts, Ends, OnlyCall
<1>8. ASSUME NEW c \in Conns, Attach(c) \/ Leave(c)
      PROVE  place'[emptier'] \in {"listing", "warned", "unsure"}
  BY <1>2, <1>8 DEF Attach, Leave
<1>9. ASSUME NEW s \in Spaces, Creates(s) \/ ClosesElsewhere(s)
      PROVE  place'[emptier'] \in {"listing", "warned", "unsure"}
  BY <1>9 DEF Creates, ClosesElsewhere
<1> QED BY <1>2, <1>4, <1>5, <1>6, <1>7, <1>8, <1>9 DEF Next

(* The close that leaves the daemon without a workspace says so.           *)
THEOREM EmptyIsToldThm == Spec => []EmptyIsTold
<1>1. Init => EmptyIsTold
  BY DEF Init, EmptyIsTold
<1>2. TypeOK /\ Closing /\ EmptyIsTold /\ [Next]_vars => EmptyIsTold'
  BY EmptyStep
<1> QED BY <1>1, <1>2, ControlTypeCorrect, PTL DEF Spec

(* What a relay holds it can get rid of: only one that serves has commands,*)
(* and one that is between commands executes none.                         *)
AttendedAt(c) ==
  /\ relay[c] # "serving" => queue[c] = <<>> /\ step[c] = "idle"
  /\ step[c] = "idle" <=> doing[c] = NoCmd

Attended == \A c \in Conns : AttendedAt(c)

LEMMA AttendedStep == TypeOK /\ Asked /\ Closing /\ Attended /\ [Next]_vars => Attended'
<1> SUFFICES ASSUME TypeOK, Asked, Closing, Attended, [Next]_vars PROVE Attended'
  OBVIOUS
<1> USE DEF vars, herdrVars, relayVars, viewVars, callVars, history
<1>1. CASE UNCHANGED relayVars
  BY <1>1 DEF Attended, AttendedAt
<1>2. ASSUME NEW c \in Conns, relay[c] = "serving", NEW m, Queues(c, m),
             UNCHANGED <<relay, doing, step>>
      PROVE  Attended'
  BY <1>2 DEF Queues, TypeOK, Attended, AttendedAt
<1>3. ASSUME NEW c \in Conns, Attach(c)
      PROVE  Attended'
  BY <1>3 DEF Attach, TypeOK, Attended, AttendedAt
<1>4. ASSUME NEW c \in Conns, Leave(c)
      PROVE  Attended'
  BY <1>4 DEF Leave, RelayDone, TypeOK, Attended, AttendedAt
<1>5. ASSUME NEW c \in Conns, RelayStep(c)
      PROVE  Attended'
  <2>1. relay[c] = "serving" /\ relay' = relay
    BY <1>5 DEF RelayStep, Takes, Moves, MoveFails, Records, Resolves, SendsToggle, Serves
  <2>2. CASE Takes(c)
    <3> DEFINE cmd == Head(queue[c])
    <3>1. cmd \in Commands
      <4>1. queue[c] \in Seq(Commands) /\ queue[c] # <<>>
        BY <2>2 DEF Takes, TypeOK
      <4> QED BY <4>1
    <3>2. queue' = [queue EXCEPT ![c] = Tail(queue[c])]
      BY <2>2 DEF Takes
    <3>3. \/ UNCHANGED <<doing, step>>
          \/ /\ doing' = [doing EXCEPT ![c] = cmd]
             /\ step' = [step EXCEPT ![c] = "op"]
      BY <2>2 DEF Takes
    <3> HIDE DEF cmd
    <3> QED BY <2>1, <3>1, <3>2, <3>3, NoCmdIsNone DEF TypeOK, Attended, AttendedAt
  <2>3. CASE RelayDone(c) /\ UNCHANGED queue
    BY <2>1, <2>3 DEF RelayDone, TypeOK, Attended, AttendedAt
  <2>4. CASE step[c] # "idle" /\ UNCHANGED <<queue, doing>>
             /\ \E s \in {"record", "send"} : step' = [step EXCEPT ![c] = s]
    BY <2>1, <2>4 DEF TypeOK, Attended, AttendedAt
  <2> QED BY <1>5, <2>2, <2>3, <2>4 DEF RelayStep, Moves, MoveFails, Records, Resolves,
             SendsToggle, Serves
<1>6. ASSUME NEW q \in Calls, Routes(q) \/ Lists(q)
      PROVE  Attended'
  <2>1. UNCHANGED <<relay, doing, step>>
    BY <1>6 DEF Routes, Lists
  <2>2. UNCHANGED queue \/ \E n \in Conns : \E c \in Matching(n) : \E m : Queues(c, m)
    <3>1. CASE Routes(q)
      BY <3>1 DEF Routes
    <3>2. CASE Lists(q) /\ Repoints(q)
      <4>1. PICK c \in Matching(req[q].conn), s \in spaces :
              Queues(c, Command(q, "switch", req[q].conn, s))
        BY <3>2 DEF Repoints
      <4>2. c \in Conns /\ c \in Matching(c)
        <5>1. c = req[q].conn /\ relay[c] = "serving"
          BY DEF Matching
        <5>2. req[q] \in Requests /\ req[q].op \in Closes
          BY <3>2 DEF Lists, Closing, TypeOK
        <5>3. req[q].conn \in Conns
          BY <5>2 DEF Requests, NoReq
        <5> QED BY <5>1, <5>3 DEF Matching
      <4> QED BY <4>1, <4>2
    <3> QED BY <1>6, <3>1, <3>2 DEF Lists
  <2> QED BY <1>1, <1>2, <2>1, <2>2 DEF Matching
<1>7. ASSUME NEW q \in Calls, \/ Starts(q) \/ GivesUp(q) \/ Counts(q) \/ ResolvesGroup(q)
                              \/ ClosesSpace(q) \/ OrphanCloses(q) \/ Cancelled(q)
      PROVE  Attended'
  BY <1>1, <1>7 DEF Starts, GivesUp, Counts, ResolvesGroup, ClosesSpace, OrphanCloses, Cancelled,
     OnlyCall
<1>8. ASSUME NEW s \in Spaces, Creates(s) \/ ClosesElsewhere(s)
      PROVE  Attended'
  BY <1>1, <1>8 DEF Creates, ClosesElsewhere
<1> QED BY <1>1, <1>3, <1>4, <1>5, <1>6, <1>7, <1>8 DEF Next, CloseStep

LEMMA AttendedNotStuck == TypeOK /\ Asked /\ Attended => NobodyStuck
<1> SUFFICES ASSUME TypeOK, Asked, Attended, NEW q \in Calls, Busy(q), ~HandlerCanStep(q)
             PROVE  \E c \in Conns : Holds(c, q) /\ RelayCanStep(c)
  BY DEF NobodyStuck
<1>1. PICK c \in Conns : Holds(c, q)
  BY DEF Busy, HandlerCanStep, AtRelay, TypeOK
<1>2. relay[c] = "serving"
  <2> SUFFICES ASSUME relay[c] # "serving" PROVE FALSE
    OBVIOUS
  <2>1. queue[c] = <<>> /\ doing[c] = NoCmd
    BY DEF Attended, AttendedAt
  <2>2. DOMAIN queue[c] = {} /\ doing[c].by # q
    BY <2>1, ControlAssumption DEF NoCmd
  <2> QED BY <1>1, <2>2 DEF Holds
<1>3. CASE step[c] = "idle"
  <2>1. doing[c].by # q
    BY <1>3, ControlAssumption DEF Attended, AttendedAt, NoCmd
  <2>2. queue[c] # <<>>
    BY <1>1, <2>1 DEF Holds
  <2> QED BY <1>1, <1>2, <1>3, <2>2 DEF RelayCanStep, Serves
<1>4. CASE step[c] = "op"
  <2>1. doing[c].op \in {"switch", "toggle", "focus"}
    BY <1>4 DEF Asked, AskedAt, Commands
  <2> QED BY <1>1, <1>2, <1>4, <2>1 DEF RelayCanStep, Serves, IsMove
<1>5. CASE step[c] \in {"send", "record"}
  BY <1>1, <1>2, <1>5 DEF RelayCanStep, Serves
<1> QED BY <1>3, <1>4, <1>5 DEF TypeOK

(* A call under way, or whose command lies at a relay, has somebody who    *)
(* can move it on: its handler, or the relay, which serves for as long as  *)
(* it holds anything.                                                      *)
THEOREM NobodyStuckThm == Spec => []NobodyStuck
<1>1. Init => Attended
  BY DEF Init, Attended, AttendedAt
<1>2. Spec => []Attended
  BY <1>1, AttendedStep, ControlTypeCorrect, PTL DEF Spec
<1> QED BY <1>2, AttendedNotStuck, ControlTypeCorrect, PTL
=============================================================================
