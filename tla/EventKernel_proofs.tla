------------------------- MODULE EventKernel_proofs -------------------------
(***************************************************************************)
(* Proofs about EventKernel, for any panes, changes, faults and strikes.   *)
(*                                                                         *)
(* Neither property is inductive. CoveredOrAnnounced is carried from one   *)
(* position of the kernel to the next: what is listed or buffered becomes  *)
(* what is covered (Listing, Covering), and rests on ids that are not used *)
(* again (OnceOnly). KnownOrPushed needs the order of a pane's pushes: the *)
(* last of them is its status (LastPushIsStatus). With nothing left to     *)
(* read the two make a kernel that knows all (CaughtUpKnowsAll).           *)
(***************************************************************************)
EXTENDS EventKernel, TLAPS

Announced(p) == Contains(lines, Created(p))
Pushed(p)    == Contains(pushes, <<p, status[p]>>)

(* The agent-status connection is up, or was when the kernel last looked. *)
Attached == kernel \in {"resyncing", "relisted", "pumping"}

(* A pane that was there and is no more. *)
Past(p) == p \notin live /\ status[p] # 0

(* An id names one pane: what was reported gone is past, and what was ever *)
(* subscribed to is, or is past.                                           *)
OnceOnly ==
  /\ \A p \in live \cup subscribed : status[p] # 0
  /\ \A p \in gone : Past(p)
  /\ \A i \in DOMAIN lines : lines[i].event = "gone" => Past(lines[i].pane)

(* An enumeration that was answered, with the buffer, misses no pane. *)
Listing ==
  kernel = "listed" /\ lifecycle = "up" =>
    \A p \in live : p \in listed \cup created \/ Announced(p)

Covering ==
  /\ covered \subseteq live
  /\ Attached => live \cap subscribed \subseteq covered
  /\ Attached /\ lifecycle = "up" =>
       \A p \in live : (p \in covered /\ p \in subscribed) \/ Announced(p)

(* The last push about a covered pane carries its status. *)
LastPushIsStatus ==
  agents = "up" =>
    \A i \in DOMAIN pushes : pushes[i][1] \in covered =>
      \E j \in DOMAIN pushes :
        i <= j /\ pushes[j] = <<pushes[i][1], status[pushes[i][1]]>>

Known ==
  agents = "up" =>
    /\ kernel = "relisted" =>
         \A p \in covered : snapshot[p] = status[p] \/ Pushed(p)
    /\ kernel = "pumping" /\ ~blind =>
         \A p \in covered : lastStatus[p] = status[p] \/ Pushed(p)

KernelInv == TypeOK /\ OnceOnly /\ Listing /\ Covering /\ LastPushIsStatus /\ Known

Lines == [event : {"created", "gone"}, pane : Panes]

-----------------------------------------------------------------------------
(* A queue that grows at its end and is read at its head. *)
LEMMA Appended ==
  ASSUME NEW S, NEW s \in Seq(S), NEW e \in S
  PROVE  /\ Append(s, e) \in Seq(S)
         /\ Len(s) + 1 \in DOMAIN Append(s, e) /\ Append(s, e)[Len(s) + 1] = e
         /\ \A i \in DOMAIN s :
              i \in DOMAIN Append(s, e) /\ Append(s, e)[i] = s[i] /\ i <= Len(s) + 1
         /\ \A i \in DOMAIN Append(s, e) :
              (i \in DOMAIN s /\ Append(s, e)[i] = s[i]) \/ (i = Len(s) + 1)
  OBVIOUS

LEMMA Taken ==
  ASSUME NEW S, NEW s \in Seq(S), s # <<>>
  PROVE  /\ Head(s) \in S /\ Tail(s) \in Seq(S)
         /\ 1 \in DOMAIN s /\ s[1] = Head(s)
         /\ \A i \in DOMAIN Tail(s) : i + 1 \in DOMAIN s /\ Tail(s)[i] = s[i + 1]
         /\ \A i \in DOMAIN s : i = 1 \/ (i - 1 \in DOMAIN Tail(s) /\ Tail(s)[i - 1] = s[i])
  OBVIOUS

LEMMA ContainsIs ==
  ASSUME NEW S, NEW s \in Seq(S), NEW e
  PROVE  Contains(s, e) <=> \E i \in DOMAIN s : s[i] = e
  BY DEF Contains

LEMMA ContainsAppended ==
  ASSUME NEW S, NEW s \in Seq(S), NEW e \in S, NEW x
  PROVE  Contains(Append(s, e), x) <=> Contains(s, x) \/ x = e
<1>1. Append(s, e) \in Seq(S)
  BY Appended
<1>2. /\ Contains(s, x) <=> \E i \in DOMAIN s : s[i] = x
      /\ Contains(Append(s, e), x) <=>
           \E i \in DOMAIN Append(s, e) : Append(s, e)[i] = x
  BY <1>1, ContainsIs
<1> QED BY <1>2, Appended

LEMMA ContainsTaken ==
  ASSUME NEW S, NEW s \in Seq(S), s # <<>>, NEW x, Contains(s, x)
  PROVE  x = Head(s) \/ Contains(Tail(s), x)
<1>1. Tail(s) \in Seq(S)
  BY Taken
<1>2. /\ \E i \in DOMAIN s : s[i] = x
      /\ Contains(Tail(s), x) <=> \E i \in DOMAIN Tail(s) : Tail(s)[i] = x
  BY <1>1, ContainsIs
<1> QED BY <1>2, Taken

LEMMA HeadIsLine ==
  ASSUME TypeOK, lines # <<>>
  PROVE  Head(lines).pane \in Panes /\ Head(lines).event \in {"created", "gone"}
<1>1. Head(lines) \in Lines
  BY Taken DEF TypeOK, Lines
<1> QED BY <1>1 DEF Lines

-----------------------------------------------------------------------------
LEMMA TypeStep == TypeOK /\ [Next]_vars => TypeOK'
<1> SUFFICES ASSUME TypeOK, [Next]_vars PROVE TypeOK'
  OBVIOUS
<1> USE KernelAssumption
<1> USE DEF ConnStates, Running, Fault
<1>0. /\ <<>> \in Seq(Lines) /\ <<>> \in Seq(Panes \X Statuses)
      /\ NoStrikes \in [Conns -> 0..(Strikes - 1)]
      /\ Unlisted \in [Panes -> Statuses]
  BY DEF NoStrikes, Unlisted, Statuses
<1>1. CASE UNCHANGED vars
  BY <1>1 DEF vars, herdrVars, watchVars, answers, tables, TypeOK
<1>2. ASSUME NEW p \in Panes, PaneOpens(p) \/ PaneCloses(p) \/ AgentMoves(p)
      PROVE  TypeOK'
  <2>1. changes' \in 0..MaxChanges /\ changes' \in Statuses
    <3>1. changes < MaxChanges /\ changes' = changes + 1
      BY <1>2 DEF PaneOpens, PaneCloses, AgentMoves, Changed
    <3>2. changes \in 0..MaxChanges
      BY DEF TypeOK
    <3> QED BY <3>1, <3>2 DEF Statuses
  <2>2. /\ Created(p) \in Lines /\ Gone(p) \in Lines
        /\ <<p, changes'>> \in Panes \X Statuses
    BY <2>1 DEF Created, Gone, Lines
  <2>3. /\ Append(lines, Created(p)) \in Seq(Lines)
        /\ Append(lines, Gone(p)) \in Seq(Lines)
        /\ Append(pushes, <<p, changes'>>) \in Seq(Panes \X Statuses)
    BY <2>2, Appended DEF TypeOK, Lines
  <2>4. lines' \in Seq(Lines)
    BY <1>2, <2>3 DEF PaneOpens, PaneCloses, AgentMoves, Announce, TypeOK, Lines
  <2>5. pushes' \in Seq(Panes \X Statuses)
    BY <1>2, <2>3 DEF PaneOpens, PaneCloses, AgentMoves, TypeOK
  <2>6. /\ live' \subseteq Panes /\ covered' \subseteq Panes
        /\ status' \in [Panes -> Statuses]
    BY <1>2, <2>1 DEF PaneOpens, PaneCloses, AgentMoves, TypeOK
  <2>7. UNCHANGED <<faults, lifecycle, agents, kernel, answers, subscribed, tables, watchVars>>
    BY <1>2 DEF PaneOpens, PaneCloses, AgentMoves
  <2> QED BY <2>1, <2>4, <2>5, <2>6, <2>7 DEF TypeOK, Lines, answers, tables, watchVars
<1>3. CASE ConnectionFails
  BY <1>3 DEF ConnectionFails, TypeOK, herdrVars, watchVars, answers, tables
<1>4. CASE ConnectLifecycle \/ List \/ ListFails \/ SubscribeFails
  <2>1. CASE ConnectLifecycle
    BY <1>0, <2>1 DEF ConnectLifecycle, Enumerate, NoAgents, TypeOK, Lines, herdrVars, tables
  <2>2. CASE List
    BY <2>2 DEF List, TypeOK, herdrVars, watchVars, tables
  <2>3. CASE ListFails
    BY <2>3 DEF ListFails, Enumerate, TypeOK, herdrVars, watchVars, tables
  <2>4. CASE SubscribeFails
    BY <2>4 DEF SubscribeFails, Enumerate, TypeOK, herdrVars, watchVars, tables
  <2> QED BY <1>4, <2>1, <2>2, <2>3, <2>4
<1>5. CASE Subscribe
  BY <1>0, <1>5 DEF Subscribe, Enumerate, BootstrapPaneSet, TypeOK,
     herdrVars, watchVars, tables
<1>6. CASE Relist
  <2>1. snapshot' \in [Panes -> Statuses]
    BY <1>6 DEF Relist, TypeOK, Statuses
  <2> QED BY <1>6, <2>1 DEF Relist, TypeOK, herdrVars, watchVars, tables
<1>7. CASE Resync
  BY <1>0, <1>7 DEF Resync, StartPump, TypeOK, herdrVars
<1>8. CASE ResyncFails
  BY <1>0, <1>8 DEF ResyncFails, StartPump, TypeOK, herdrVars, answers
<1>9. ASSUME lines # <<>>, lines' = Tail(lines)
      PROVE  /\ Head(lines).pane \in Panes
             /\ lines' \in Seq(Lines)
  <2>1. Head(lines) \in Lines /\ Tail(lines) \in Seq(Lines)
    BY <1>9, Taken DEF TypeOK, Lines
  <2> QED BY <1>9, <2>1 DEF Lines
<1>10. CASE Buffer
  BY <1>9, <1>10 DEF Buffer, TypeOK, Lines, herdrVars, watchVars, tables
<1>11. CASE ReadCreated
  BY <1>0, <1>9, <1>11 DEF ReadCreated, ReadLine, NoAgents, TypeOK, Lines, Conns,
     herdrVars, answers
<1>12. CASE ReadGone
  <2>1. lastStatus' \in [Panes -> Statuses]
    <3>1. lastStatus' = [lastStatus EXCEPT ![Head(lines).pane] = 0] /\ 0 \in Statuses
      BY <1>12 DEF ReadGone, Statuses
    <3> QED BY <3>1 DEF TypeOK
  <2> QED BY <1>9, <1>12, <2>1 DEF ReadGone, ReadLine, TypeOK, Lines, Conns,
     herdrVars, answers
<1>13. CASE ReadStatus
  <2>1. Head(pushes) \in Panes \X Statuses /\ pushes' \in Seq(Panes \X Statuses)
    BY <1>13, Taken DEF ReadStatus, TypeOK
  <2>2. lastStatus' \in [Panes -> Statuses]
    BY <1>13, <2>1 DEF ReadStatus, TypeOK
  <2> QED BY <1>13, <2>1, <2>2 DEF ReadStatus, TypeOK, Conns, herdrVars, answers
<1>14. CASE Drain \/ EndDrain
  BY <1>9, <1>14 DEF Drain, EndDrain, Enumerate, TypeOK, Lines,
     herdrVars, watchVars, answers, tables
<1>15. CASE LifecycleEnds \/ AgentsEnd \/ Shutdown
  BY <1>0, <1>15 DEF LifecycleEnds, AgentsEnd, Shutdown, LoseLifecycle, LoseAgents,
     NoLifecycle, NoAgents, Enumerate, TypeOK, Lines, herdrVars, watchVars, answers, tables
<1>16. CASE Strike
  <2>1. strikes' \in [Conns -> 0..(Strikes - 1)]
    BY <1>0, <1>16 DEF Strike, TypeOK
  <2> QED BY <1>16, <2>1 DEF Strike, TypeOK, herdrVars, answers, tables
<1>17. CASE StruckOut
  BY <1>0, <1>17 DEF StruckOut, LoseLifecycle, LoseAgents, NoLifecycle, NoAgents,
     Enumerate, TypeOK, Lines, herdrVars, answers, tables
<1>18. CASE NoStrike \/ ProbeFails
  BY <1>0, <1>18 DEF NoStrike, ProbeFails, TypeOK, herdrVars, answers, tables
<1> QED
  BY <1>1, <1>2, <1>3, <1>4, <1>5, <1>6, <1>7, <1>8, <1>10, <1>11, <1>12, <1>13,
     <1>14, <1>15, <1>16, <1>17, <1>18
  DEF Next, Herdr, Progress, Probe

-----------------------------------------------------------------------------
(* Steps of the kernel: herdr's panes stay as they are, and what the       *)
(* kernel learns of them it reads from herdr or from the lifecycle lines.  *)
LEMMA OnceKept ==
  ASSUME TypeOK, OnceOnly, UNCHANGED herdrVars,
         subscribed' \subseteq subscribed \cup live,
         \A p \in gone' :
           p \in gone \/ (lines # <<>> /\ Head(lines).event = "gone" /\ Head(lines).pane = p),
         lines' \in {lines, <<>>} \/ (lines # <<>> /\ lines' = Tail(lines))
  PROVE  OnceOnly'
<1>1. lines \in Seq(Lines)
  BY DEF TypeOK, Lines
<1>2. \A p : Past(p) => Past(p)'
  BY DEF Past, herdrVars
<1>3. \A p \in live' \cup subscribed' : status'[p] # 0
  BY DEF OnceOnly, herdrVars
<1>4. ASSUME lines # <<>>, Head(lines).event = "gone" PROVE Past(Head(lines).pane)
  BY <1>1, <1>4, Taken DEF OnceOnly
<1>5. \A p \in gone' : Past(p)'
  BY <1>2, <1>4 DEF OnceOnly
<1>6. \A i \in DOMAIN lines' :
        lines'[i].event = "gone" => Past(lines'[i].pane)
  <2>1. CASE lines' = lines
    BY <2>1 DEF OnceOnly
  <2>2. CASE lines' = <<>>
    BY <2>2
  <2>3. CASE lines # <<>> /\ lines' = Tail(lines)
    BY <1>1, <2>3, Taken DEF OnceOnly
  <2> QED BY <2>1, <2>2, <2>3
<1>7. \A i \in DOMAIN lines' :
        lines'[i].event = "gone" => lines'[i].pane \notin live' /\ status'[lines'[i].pane] # 0
  BY <1>6 DEF Past, herdrVars
<1> QED BY <1>3, <1>5, <1>7 DEF OnceOnly, Past

(* Steps of herdr: a pane opens once, with an id that was never used. *)
LEMMA OnceHerdr ==
  ASSUME TypeOK, OnceOnly, NEW p \in Panes,
         PaneOpens(p) \/ PaneCloses(p) \/ AgentMoves(p)
  PROVE  OnceOnly'
<1>1. changes' # 0 /\ changes' = changes + 1
  BY DEF PaneOpens, PaneCloses, AgentMoves, Changed, TypeOK
<1>2. /\ UNCHANGED <<gone, subscribed>>
      /\ lines' \in {lines, Append(lines, Created(p))}
         \/ (PaneCloses(p) /\ lines' = Append(lines, Gone(p)))
  BY DEF PaneOpens, PaneCloses, AgentMoves, Announce, answers
<1>3. \A q \in Panes : status[q] # 0 => status'[q] # 0
  BY <1>1 DEF PaneOpens, PaneCloses, AgentMoves, TypeOK
<1>4. \A q \in Panes : Past(q) => Past(q)'
  BY <1>3 DEF PaneOpens, PaneCloses, AgentMoves, Past
<1>5. \A q \in live' \cup subscribed' : status'[q] # 0
  <2>1. \A q \in live' : q \in live \/ q = p
    BY DEF PaneOpens, PaneCloses, AgentMoves
  <2>2. PaneOpens(p) => status'[p] # 0
    BY <1>1 DEF PaneOpens, TypeOK
  <2>3. ~PaneOpens(p) => p \in live
    BY DEF PaneCloses, AgentMoves
  <2> QED BY <1>2, <1>3, <2>1, <2>2, <2>3 DEF OnceOnly, TypeOK
<1>6. PaneCloses(p) => Past(p)'
  BY <1>3 DEF PaneCloses, Past, OnceOnly
<1>7. \A q \in gone' : Past(q)'
  BY <1>2, <1>4 DEF OnceOnly, TypeOK
<1>8. \A i \in DOMAIN lines' :
        lines'[i].event = "gone" => lines'[i].pane \notin live' /\ status'[lines'[i].pane] # 0
  <2>1. lines \in Seq(Lines) /\ Created(p) \in Lines /\ Gone(p) \in Lines
    BY DEF TypeOK, Lines, Created, Gone
  <2>2. \A i \in DOMAIN lines : lines[i].pane \in Panes
    <3>1. \A i \in DOMAIN lines : lines[i] \in Lines
      BY <2>1
    <3> QED BY <3>1 DEF Lines
  <2>3. \A i \in DOMAIN lines :
          lines[i].event = "gone" =>
            lines[i].pane \notin live' /\ status'[lines[i].pane] # 0
    BY <1>4, <2>2 DEF OnceOnly, Past
  <2>4. CASE lines' = lines
    BY <2>3, <2>4
  <2>5. CASE lines' = Append(lines, Created(p))
    <3>1. Created(p).event # "gone"
      BY DEF Created
    <3> QED BY <2>1, <2>3, <2>5, <3>1, Appended
  <2>6. CASE PaneCloses(p) /\ lines' = Append(lines, Gone(p))
    <3>1. Gone(p).pane = p
      BY DEF Gone
    <3>2. p \notin live' /\ status'[p] # 0
      BY <1>6, <2>6 DEF Past
    <3> QED BY <2>1, <2>3, <2>6, <3>1, <3>2, Appended
  <2> QED BY <1>2, <2>4, <2>5, <2>6
<1> QED BY <1>5, <1>7, <1>8 DEF OnceOnly, Past

LEMMA OnceStep == TypeOK /\ OnceOnly /\ [Next]_vars => OnceOnly'
<1> SUFFICES ASSUME TypeOK, OnceOnly, [Next]_vars PROVE OnceOnly'
  OBVIOUS
<1>1. CASE UNCHANGED vars
  BY <1>1, OnceKept DEF vars, herdrVars, answers
<1>2. CASE Herdr
  BY <1>2, OnceHerdr DEF Herdr
<1>3. CASE ConnectionFails \/ List \/ ListFails \/ SubscribeFails \/ ConnectLifecycle
  BY <1>3, OnceKept DEF ConnectionFails, List, ListFails, SubscribeFails, ConnectLifecycle,
     Enumerate, answers
<1>4. CASE Subscribe \/ Relist \/ Resync \/ ResyncFails
  BY <1>4, OnceKept DEF Subscribe, Relist, Resync, ResyncFails, StartPump, Enumerate, answers
<1>5. CASE Buffer
  <2>1. Head(lines).event # "created" => Head(lines).event = "gone"
    BY <1>5, HeadIsLine DEF Buffer
  <2> QED BY <1>5, <2>1, OnceKept DEF Buffer
<1>6. CASE ReadCreated \/ ReadGone \/ ReadStatus \/ Drain \/ EndDrain
  BY <1>6, OnceKept DEF ReadCreated, ReadGone, ReadLine, ReadStatus, Drain, EndDrain,
     Enumerate, answers
<1>7. CASE LifecycleEnds \/ AgentsEnd \/ Shutdown
  BY <1>7, OnceKept DEF LifecycleEnds, AgentsEnd, Shutdown, LoseLifecycle, LoseAgents,
     NoLifecycle, Enumerate, answers
<1>8. CASE Probe \/ ProbeFails
  BY <1>8, OnceKept DEF Probe, Strike, StruckOut, NoStrike, ProbeFails,
     LoseLifecycle, LoseAgents, NoLifecycle, Enumerate, answers
<1> QED BY <1>1, <1>2, <1>3, <1>4, <1>5, <1>6, <1>7, <1>8 DEF Next, Progress

-----------------------------------------------------------------------------
AnnouncedNext(p) == Contains(lines', Created(p))

(* The kernel attends to something else; or it stays attached, or stays    *)
(* with an enumeration, and nothing it has of the panes changes.           *)
LEMMA CoverElsewhere ==
  ASSUME Covering, UNCHANGED live, covered' \in {covered, {}},
         kernel' \notin {"listed", "resyncing", "relisted", "pumping"}
  PROVE  Listing' /\ Covering'
  BY DEF Listing, Covering, Attached

LEMMA CoverKept ==
  ASSUME Listing, Covering, UNCHANGED <<live, covered, lines, subscribed, listed, created>>,
         lifecycle' = "up" => lifecycle = "up",
         kernel' = kernel \/ (Attached /\ Attached')
  PROVE  Listing' /\ Covering'
<1>1. \A p : Announced(p)' <=> Announced(p)
  BY DEF Announced
<1>2. kernel' = "listed" <=> kernel = "listed"
  BY DEF Attached
<1>3. Attached' <=> Attached
  BY DEF Attached
<1> QED BY <1>1, <1>2, <1>3 DEF Listing, Covering

LEMMA CoverHerdr ==
  ASSUME TypeOK, OnceOnly, Listing, Covering, NEW p \in Panes,
         PaneOpens(p) \/ PaneCloses(p) \/ AgentMoves(p)
  PROVE  Listing' /\ Covering'
<1>1. UNCHANGED <<lifecycle, kernel, listed, created, subscribed>>
  BY DEF PaneOpens, PaneCloses, AgentMoves, answers
<1>2. lines \in Seq(Lines) /\ Created(p) \in Lines /\ Gone(p) \in Lines
  BY DEF TypeOK, Lines, Created, Gone
<1>3. \A q : Announced(q) => AnnouncedNext(q)
  <2>1. lines' \in {lines, Append(lines, Created(p)), Append(lines, Gone(p))}
    BY DEF PaneOpens, PaneCloses, AgentMoves, Announce
  <2>2. \A q : Contains(lines, Created(q)) => Contains(lines', Created(q))
    <3>1. \A e \in Lines : \A x : Contains(lines, x) => Contains(Append(lines, e), x)
      BY <1>2, ContainsAppended
    <3> QED BY <1>2, <2>1, <3>1
  <2> QED BY <2>2 DEF Announced, AnnouncedNext
<1>4. PaneOpens(p) /\ lifecycle = "up" => AnnouncedNext(p)
  BY <1>2, ContainsAppended DEF PaneOpens, Announce, AnnouncedNext
<1>5. \A q \in live' : q \in live \/ (PaneOpens(p) /\ q = p)
  BY DEF PaneOpens, PaneCloses, AgentMoves
<1>6. \A q \in live' : q \in covered => q \in covered'
  BY DEF PaneOpens, PaneCloses, AgentMoves
<1>7. covered' \subseteq live'
  BY DEF PaneOpens, PaneCloses, AgentMoves, Covering
<1>8. PaneOpens(p) => p \notin subscribed
  BY DEF PaneOpens, OnceOnly
<1>9. Listing'
  <2>1. Listing' <=> (kernel' = "listed" /\ lifecycle' = "up" =>
                        \A q \in live' : q \in listed' \cup created' \/ AnnouncedNext(q))
    BY DEF Listing, Announced, AnnouncedNext
  <2> QED BY <1>1, <1>3, <1>4, <1>5, <2>1 DEF Listing
<1>10. Attached' => live' \cap subscribed' \subseteq covered'
  BY <1>1, <1>5, <1>6, <1>8 DEF Covering, Attached
<1>11. Attached' /\ lifecycle' = "up" =>
         \A q \in live' : (q \in covered' /\ q \in subscribed') \/ AnnouncedNext(q)
  BY <1>1, <1>3, <1>4, <1>5, <1>6 DEF Covering, Attached
<1> QED BY <1>7, <1>9, <1>10, <1>11 DEF Covering, Announced, AnnouncedNext

LEMMA CoverStep ==
  TypeOK /\ OnceOnly /\ Listing /\ Covering /\ [Next]_vars => Listing' /\ Covering'
<1> SUFFICES ASSUME TypeOK, OnceOnly, Listing, Covering, [Next]_vars
             PROVE  Listing' /\ Covering'
  OBVIOUS
<1>0. lines \in Seq(Lines)
  BY DEF TypeOK, Lines
<1>1. CASE UNCHANGED vars
  BY <1>1, CoverKept DEF vars, herdrVars, answers
<1>2. CASE Herdr
  BY <1>2, CoverHerdr DEF Herdr
<1>3. CASE ConnectionFails
  BY <1>3, CoverKept DEF ConnectionFails, herdrVars, answers
<1>4. CASE ConnectLifecycle \/ ListFails \/ SubscribeFails
  BY <1>4, CoverElsewhere
  DEF ConnectLifecycle, ListFails, SubscribeFails, Enumerate, NoAgents, herdrVars
<1>5. CASE List
  BY <1>5 DEF List, Listing, Covering, Attached, herdrVars
<1>6. CASE Buffer
  <2>1. \A p : Announced(p) => p \in created' \/ AnnouncedNext(p)
    <3> SUFFICES ASSUME NEW p, Announced(p), ~AnnouncedNext(p) PROVE p \in created'
      OBVIOUS
    <3>1. Head(lines) = Created(p)
      BY <1>0, <1>6, ContainsTaken DEF Buffer, Announced, AnnouncedNext
    <3>2. Head(lines).event = "created" /\ Head(lines).pane = p
      BY <3>1 DEF Created
    <3> QED BY <1>6, <3>2 DEF Buffer
  <2>2. /\ UNCHANGED <<live, covered, kernel, listed, lifecycle>> /\ created \subseteq created'
        /\ kernel \in {"enumerating", "listed"}
    BY <1>6 DEF Buffer, herdrVars
  <2>3. Listing' <=> (kernel' = "listed" /\ lifecycle' = "up" =>
                        \A q \in live' : q \in listed' \cup created' \/ AnnouncedNext(q))
    BY DEF Listing, Announced, AnnouncedNext
  <2> QED BY <2>1, <2>2, <2>3 DEF Listing, Covering, Attached
<1>7. CASE Subscribe
  <2>1. CASE ~(BootstrapPaneSet \subseteq live)
    BY <1>7, <2>1, CoverElsewhere DEF Subscribe, Enumerate, herdrVars
  <2>2. CASE BootstrapPaneSet \subseteq live
    <3>1. /\ kernel = "listed" /\ kernel' = "resyncing"
          /\ covered' = BootstrapPaneSet /\ subscribed' = BootstrapPaneSet
          /\ UNCHANGED <<live, lines, lifecycle>>
      BY <1>7, <2>2 DEF Subscribe, herdrVars
    <3>2. \A p \in live : p \notin gone
      BY DEF OnceOnly, Past
    <3>3. lifecycle = "up" => \A p \in live : p \in BootstrapPaneSet \/ Announced(p)
      BY <3>1, <3>2 DEF Listing, BootstrapPaneSet
    <3>4. \A p : Announced(p)' <=> Announced(p)
      BY <3>1 DEF Announced
    <3> HIDE DEF BootstrapPaneSet
    <3> QED BY <2>2, <3>1, <3>3, <3>4 DEF Listing, Covering
  <2> QED BY <2>1, <2>2
<1>8. CASE Relist \/ Resync \/ ResyncFails
  BY <1>8, CoverKept DEF Relist, Resync, ResyncFails, StartPump, Attached, herdrVars, answers
<1>9. CASE ReadCreated
  <2>1. CASE Head(lines).pane \notin subscribed
    BY <1>9, <2>1, CoverElsewhere DEF ReadCreated, ReadLine, NoAgents, herdrVars
  <2>2. CASE Head(lines).pane \in subscribed
    <3>1. /\ UNCHANGED <<live, covered, subscribed, kernel, lifecycle>> /\ Attached
          /\ lines # <<>> /\ lines' = Tail(lines) /\ kernel' # "listed"
      BY <1>9, <2>2 DEF ReadCreated, ReadLine, Attached, herdrVars
    <3>2. \A p \in live : Announced(p) =>
                        (p \in covered /\ p \in subscribed) \/ AnnouncedNext(p)
      <4> SUFFICES ASSUME NEW p \in live, Announced(p), ~AnnouncedNext(p)
                   PROVE  p \in covered /\ p \in subscribed
        OBVIOUS
      <4>1. Head(lines) = Created(p)
        BY <1>0, <3>1, ContainsTaken DEF Announced, AnnouncedNext
      <4>2. p \in subscribed
        BY <2>2, <4>1 DEF Created
      <4> QED BY <3>1, <4>2 DEF Covering
    <3>3. Attached' /\ lifecycle' = "up" =>
            \A p \in live' : (p \in covered' /\ p \in subscribed') \/ AnnouncedNext(p)
      BY <3>1, <3>2 DEF Covering
    <3>4. covered' \subseteq live' /\ live' \cap subscribed' \subseteq covered'
      BY <3>1 DEF Covering
    <3> QED BY <3>1, <3>3, <3>4 DEF Listing, Covering, Announced, AnnouncedNext
  <2> QED BY <2>1, <2>2
<1>10. CASE ReadGone
  <2>1. /\ UNCHANGED <<live, covered, kernel, lifecycle>> /\ Attached
        /\ lines # <<>> /\ lines' = Tail(lines) /\ kernel' # "listed"
        /\ subscribed' = subscribed \ {Head(lines).pane} /\ Head(lines).event = "gone"
    BY <1>10 DEF ReadGone, ReadLine, Attached, herdrVars
  <2>2. Head(lines).pane \notin live
    BY <1>0, <2>1, Taken DEF OnceOnly, Past
  <2>3. \A p : Announced(p) => AnnouncedNext(p)
    <3> SUFFICES ASSUME NEW p, Announced(p), ~AnnouncedNext(p) PROVE FALSE
      OBVIOUS
    <3>1. Head(lines) = Created(p)
      BY <1>0, <2>1, ContainsTaken DEF Announced, AnnouncedNext
    <3> QED BY <2>1, <3>1 DEF Created
  <2>4. Attached' /\ lifecycle' = "up" =>
          \A p \in live' : (p \in covered' /\ p \in subscribed') \/ AnnouncedNext(p)
    BY <2>1, <2>2, <2>3 DEF Covering
  <2>5. covered' \subseteq live' /\ live' \cap subscribed' \subseteq covered'
    BY <2>1 DEF Covering
  <2> QED BY <2>1, <2>4, <2>5 DEF Listing, Covering, Announced, AnnouncedNext
<1>11. CASE ReadStatus
  BY <1>11, CoverKept DEF ReadStatus, herdrVars, answers
<1>12. CASE Drain \/ EndDrain
  BY <1>12, CoverElsewhere DEF Drain, EndDrain, Enumerate, herdrVars
<1>13. CASE LifecycleEnds \/ AgentsEnd \/ Shutdown
  BY <1>13, CoverElsewhere DEF LifecycleEnds, AgentsEnd, Shutdown, LoseLifecycle, LoseAgents,
     NoAgents, Enumerate, herdrVars
<1>14. CASE Strike \/ NoStrike \/ ProbeFails
  BY <1>14, CoverKept DEF Strike, NoStrike, ProbeFails, herdrVars, answers
<1>15. CASE StruckOut
  BY <1>15, CoverElsewhere DEF StruckOut, LoseLifecycle, LoseAgents, NoAgents, Enumerate,
     herdrVars
<1> QED
  BY <1>1, <1>2, <1>3, <1>4, <1>5, <1>6, <1>7, <1>8, <1>9, <1>10, <1>11, <1>12, <1>13,
     <1>14, <1>15
  DEF Next, Progress, Probe

-----------------------------------------------------------------------------
PushedNext(p) == Contains(pushes', <<p, status'[p]>>)

LEMMA PushesElsewhere ==
  ASSUME agents' # "up" \/ pushes' = <<>>,
         agents' # "up" \/ kernel' \notin {"relisted", "pumping"}
  PROVE  LastPushIsStatus' /\ Known'
<1>1. DOMAIN <<>> = {}
  OBVIOUS
<1> QED BY <1>1 DEF LastPushIsStatus, Known

LEMMA PushesKept ==
  ASSUME LastPushIsStatus, Known,
         UNCHANGED <<status, covered, pushes, snapshot, lastStatus, blind>>,
         agents' = "up" => agents = "up",
         kernel' = kernel \/ kernel' \notin {"relisted", "pumping"}
  PROVE  LastPushIsStatus' /\ Known'
<1>1. \A p : Pushed(p)' <=> Pushed(p)
  BY DEF Pushed
<1> QED BY <1>1 DEF LastPushIsStatus, Known

LEMMA PushesHerdr ==
  ASSUME TypeOK, Covering, LastPushIsStatus, Known, NEW p \in Panes,
         PaneOpens(p) \/ PaneCloses(p) \/ AgentMoves(p)
  PROVE  LastPushIsStatus' /\ Known'
<1> SUFFICES ASSUME agents' = "up" PROVE LastPushIsStatus' /\ Known'
  BY DEF LastPushIsStatus, Known
<1>1. /\ UNCHANGED <<agents, kernel, snapshot, lastStatus, blind>>
      /\ covered' \subseteq covered /\ covered \subseteq Panes
      /\ pushes \in Seq(Panes \X Statuses)
  BY DEF PaneOpens, PaneCloses, AgentMoves, answers, tables, TypeOK
<1> DEFINE e == <<p, changes'>>
<1>2. \/ /\ pushes' = pushes
         /\ \A q \in covered' : status'[q] = status[q]
      \/ /\ pushes' = Append(pushes, e) /\ e \in Panes \X Statuses
         /\ e = <<p, status'[p]>>
         /\ \A q \in covered : q # p => status'[q] = status[q]
  <2>1. CASE PaneOpens(p)
    <3>1. p \notin covered
      BY <2>1 DEF PaneOpens, Covering
    <3> QED BY <1>1, <2>1, <3>1 DEF PaneOpens, TypeOK
  <2>2. CASE PaneCloses(p)
    BY <2>2 DEF PaneCloses
  <2>3. CASE AgentMoves(p) /\ p \in covered
    <3>1. changes < MaxChanges /\ changes' = changes + 1 /\ changes \in 0..MaxChanges
      BY <2>3 DEF AgentMoves, Changed, TypeOK
    <3>2. changes' \in Statuses
      BY <3>1, KernelAssumption DEF Statuses
    <3> QED BY <1>1, <2>3, <3>2 DEF AgentMoves, TypeOK
  <2>4. CASE AgentMoves(p) /\ p \notin covered
    BY <1>1, <2>4 DEF AgentMoves, TypeOK
  <2> QED BY <2>1, <2>2, <2>3, <2>4
<1> HIDE DEF e
<1>3. \A q \in covered' : Pushed(q) => PushedNext(q)
  <2>1. CASE pushes' = pushes /\ \A q \in covered' : status'[q] = status[q]
    BY <2>1 DEF Pushed, PushedNext
  <2>2. CASE /\ pushes' = Append(pushes, e) /\ e \in Panes \X Statuses
             /\ e = <<p, status'[p]>>
             /\ \A q \in covered : q # p => status'[q] = status[q]
    <3>1. \A x : Contains(pushes, x) \/ x = e => Contains(pushes', x)
      BY <1>1, <2>2, ContainsAppended
    <3> QED BY <1>1, <2>2, <3>1 DEF Pushed, PushedNext
  <2> QED BY <1>2, <2>1, <2>2
<1>4. \A q \in covered' : status'[q] = status[q] \/ PushedNext(q)
  <2>1. CASE \A q \in covered' : status'[q] = status[q]
    BY <2>1
  <2>2. CASE /\ pushes' = Append(pushes, e) /\ e \in Panes \X Statuses
             /\ e = <<p, status'[p]>>
             /\ \A q \in covered : q # p => status'[q] = status[q]
    <3>1. Contains(pushes', e)
      BY <1>1, <2>2, ContainsAppended
    <3> QED BY <1>1, <2>2, <3>1 DEF PushedNext
  <2> QED BY <1>2, <2>1, <2>2
<1>5. Known'
  <2>1. Known' <=>
          /\ kernel' = "relisted" =>
               \A q \in covered' : snapshot'[q] = status'[q] \/ PushedNext(q)
          /\ kernel' = "pumping" /\ ~blind' =>
               \A q \in covered' : lastStatus'[q] = status'[q] \/ PushedNext(q)
    BY DEF Known, Pushed, PushedNext
  <2> QED BY <1>1, <1>3, <1>4, <2>1 DEF Known
<1>6. LastPushIsStatus'
  <2> SUFFICES ASSUME NEW i \in DOMAIN pushes', pushes'[i][1] \in covered'
               PROVE  \E j \in DOMAIN pushes' :
                        i <= j /\ pushes'[j] = <<pushes'[i][1], status'[pushes'[i][1]]>>
    BY DEF LastPushIsStatus
  <2>1. \A k \in DOMAIN pushes : pushes[k][1] \in covered =>
          \E j \in DOMAIN pushes :
            k <= j /\ pushes[j] = <<pushes[k][1], status[pushes[k][1]]>>
    BY <1>1 DEF LastPushIsStatus
  <2>2. CASE pushes' = pushes /\ \A q \in covered' : status'[q] = status[q]
    BY <1>1, <2>1, <2>2
  <2>3. CASE /\ pushes' = Append(pushes, e) /\ e \in Panes \X Statuses
             /\ e = <<p, status'[p]>>
             /\ \A q \in covered : q # p => status'[q] = status[q]
    <3> DEFINE n == Len(pushes) + 1
    <3>1. n \in DOMAIN pushes' /\ pushes'[n] = e /\ i <= n
      BY <1>1, <2>3, Appended
    <3>2. CASE pushes'[i][1] = p
      BY <2>3, <3>1, <3>2
    <3>3. CASE pushes'[i][1] # p
      <4>1. i \in DOMAIN pushes /\ pushes'[i] = pushes[i]
        <5>1. e[1] = p
          BY <2>3
        <5>2. i # n
          BY <3>1, <3>3, <5>1
        <5> QED BY <1>1, <2>3, <5>2, Appended
      <4>2. PICK j \in DOMAIN pushes :
              i <= j /\ pushes[j] = <<pushes[i][1], status[pushes[i][1]]>>
        BY <1>1, <2>1, <4>1
      <4>3. j \in DOMAIN pushes' /\ pushes'[j] = pushes[j]
        BY <1>1, <2>3, Appended
      <4> QED BY <1>1, <2>3, <3>3, <4>1, <4>2, <4>3
    <3> QED BY <3>2, <3>3
  <2> QED BY <1>2, <2>2, <2>3
<1> QED BY <1>5, <1>6

LEMMA PushesStep ==
  TypeOK /\ OnceOnly /\ Covering /\ LastPushIsStatus /\ Known /\ [Next]_vars
    => LastPushIsStatus' /\ Known'
<1> SUFFICES ASSUME TypeOK, OnceOnly, Covering, LastPushIsStatus, Known, [Next]_vars
             PROVE  LastPushIsStatus' /\ Known'
  OBVIOUS
<1>1. CASE UNCHANGED vars
  BY <1>1, PushesKept DEF vars, herdrVars, answers, tables
<1>2. CASE Herdr
  BY <1>2, PushesHerdr DEF Herdr
<1>3. CASE ConnectionFails \/ Buffer \/ Drain \/ EndDrain
  BY <1>3, PushesKept DEF ConnectionFails, Buffer, Drain, EndDrain, Enumerate, herdrVars, answers,
     tables
<1>4. CASE List \/ ListFails \/ SubscribeFails
  BY <1>4, PushesKept DEF List, ListFails, SubscribeFails, Enumerate, herdrVars, tables
<1>5. CASE Subscribe
  <2>1. CASE BootstrapPaneSet \subseteq live
    BY <1>5, <2>1, PushesElsewhere DEF Subscribe
  <2>2. CASE ~(BootstrapPaneSet \subseteq live)
    BY <1>5, <2>2, PushesKept DEF Subscribe, Enumerate, herdrVars, tables
  <2> QED BY <2>1, <2>2
<1>6. CASE ConnectLifecycle \/ LifecycleEnds \/ AgentsEnd \/ Shutdown \/ StruckOut
  BY <1>6, PushesElsewhere DEF ConnectLifecycle, LifecycleEnds, AgentsEnd, Shutdown, StruckOut,
     LoseLifecycle, LoseAgents, NoAgents
<1>7. CASE Relist
  <2>1. /\ \A p \in live : snapshot'[p] = status[p]
        /\ UNCHANGED <<status, covered, pushes, agents>> /\ kernel' = "relisted"
    BY <1>7 DEF Relist, TypeOK, herdrVars
  <2>2. \A p \in covered' : snapshot'[p] = status'[p]
    BY <2>1 DEF Covering
  <2> QED BY <2>1, <2>2 DEF LastPushIsStatus, Known
<1>8. CASE Resync \/ ResyncFails
  <2>1. /\ UNCHANGED <<status, covered, pushes, agents>> /\ kernel' = "pumping"
        /\ blind' \/ (kernel = "relisted" /\ lastStatus' = snapshot)
    BY <1>8 DEF Resync, ResyncFails, StartPump, herdrVars
  <2>2. \A p : Pushed(p)' <=> Pushed(p)
    BY <2>1 DEF Pushed
  <2> QED BY <2>1, <2>2 DEF LastPushIsStatus, Known
<1>9. CASE ReadCreated
  <2>1. CASE Head(lines).pane \in subscribed
    BY <1>9, <2>1, PushesKept DEF ReadCreated, ReadLine, herdrVars, answers, tables
  <2>2. CASE Head(lines).pane \notin subscribed
    BY <1>9, <2>2, PushesElsewhere DEF ReadCreated, NoAgents
  <2> QED BY <2>1, <2>2
<1>10. CASE ReadGone
  <2>1. /\ UNCHANGED <<status, covered, pushes, agents, kernel, blind>>
        /\ lines # <<>> /\ Head(lines).event = "gone" /\ kernel = "pumping"
        /\ lastStatus' = [lastStatus EXCEPT ![Head(lines).pane] = 0]
    BY <1>10 DEF ReadGone, ReadLine, herdrVars
  <2>2. Head(lines).pane \notin covered
    <3>1. lines \in Seq(Lines)
      BY DEF TypeOK, Lines
    <3> QED BY <2>1, <3>1, Taken DEF OnceOnly, Past, Covering
  <2>3. \A p \in covered : lastStatus'[p] = lastStatus[p]
    BY <2>1, <2>2 DEF TypeOK
  <2>4. \A p : Pushed(p)' <=> Pushed(p)
    BY <2>1 DEF Pushed
  <2> QED BY <2>1, <2>3, <2>4 DEF LastPushIsStatus, Known
<1>11. CASE ReadStatus
  <2> SUFFICES ASSUME agents' = "up" PROVE LastPushIsStatus' /\ Known'
    BY DEF LastPushIsStatus, Known
  <2>1. /\ UNCHANGED <<status, covered, agents, kernel, blind>>
        /\ pushes # <<>> /\ pushes' = Tail(pushes) /\ kernel = "pumping"
        /\ lastStatus' = [lastStatus EXCEPT ![Head(pushes)[1]] = Head(pushes)[2]]
        /\ pushes \in Seq(Panes \X Statuses) /\ Head(pushes) \in Panes \X Statuses
    BY <1>11, Taken DEF ReadStatus, TypeOK, herdrVars
  <2>2. LastPushIsStatus'
    <3> SUFFICES ASSUME NEW i \in DOMAIN pushes', pushes'[i][1] \in covered'
                 PROVE  \E j \in DOMAIN pushes' :
                          i <= j /\ pushes'[j] = <<pushes'[i][1], status'[pushes'[i][1]]>>
      BY DEF LastPushIsStatus
    <3>1. i + 1 \in DOMAIN pushes /\ pushes'[i] = pushes[i + 1] /\ i \in Nat /\ i >= 1
      BY <2>1, Taken
    <3>2. PICK j \in DOMAIN pushes :
            i + 1 <= j /\ pushes[j] = <<pushes[i + 1][1], status[pushes[i + 1][1]]>>
      BY <2>1, <3>1 DEF LastPushIsStatus
    <3>3. j - 1 \in DOMAIN pushes' /\ pushes'[j - 1] = pushes[j] /\ i <= j - 1
      BY <2>1, <3>1, <3>2, Taken
    <3> QED BY <2>1, <3>1, <3>2, <3>3
  <2>3. ASSUME NEW q \in covered, ~blind
        PROVE  lastStatus'[q] = status[q] \/ Contains(pushes', <<q, status[q]>>)
    <3>1. CASE Head(pushes)[1] # q
      <4>1. lastStatus'[q] = lastStatus[q]
        BY <2>1, <3>1 DEF TypeOK
      <4>2. lastStatus[q] = status[q] \/ Contains(pushes, <<q, status[q]>>)
        BY <2>1, <2>3 DEF Known, Pushed
      <4>3. ASSUME Contains(pushes, <<q, status[q]>>)
            PROVE  Contains(pushes', <<q, status[q]>>)
        BY <2>1, <3>1, <4>3, ContainsTaken
      <4> QED BY <4>1, <4>2, <4>3
    <3>2. CASE Head(pushes)[1] = q
      <4>1. 1 \in DOMAIN pushes /\ pushes[1] = Head(pushes)
        BY <2>1, Taken
      <4>2. PICK j \in DOMAIN pushes : pushes[j] = <<q, status[q]>>
        BY <2>1, <3>2, <4>1 DEF LastPushIsStatus
      <4>3. Contains(pushes, <<q, status[q]>>)
        BY <2>1, <4>2, ContainsIs
      <4>4. CASE Head(pushes) = <<q, status[q]>>
        BY <2>1, <4>4 DEF TypeOK
      <4>5. CASE Head(pushes) # <<q, status[q]>>
        BY <2>1, <4>3, <4>5, ContainsTaken
      <4> QED BY <4>4, <4>5
    <3> QED BY <3>1, <3>2
  <2>4. Known'
    BY <2>1, <2>3 DEF Known, Pushed
  <2> QED BY <2>2, <2>4
<1>12. CASE Strike \/ NoStrike \/ ProbeFails
  BY <1>12, PushesKept DEF Strike, NoStrike, ProbeFails, herdrVars, answers, tables
<1> QED
  BY <1>1, <1>2, <1>3, <1>4, <1>5, <1>6, <1>7, <1>8, <1>9, <1>10, <1>11, <1>12
  DEF Next, Progress, Probe

-----------------------------------------------------------------------------
LEMMA InitKernelInv == Init => KernelInv
<1> SUFFICES ASSUME Init PROVE KernelInv
  OBVIOUS
<1>1. <<>> \in Seq(Lines) /\ <<>> \in Seq(Panes \X Statuses) /\ DOMAIN <<>> = {}
  OBVIOUS
<1>2. NoStrikes \in [Conns -> 0..(Strikes - 1)]
  BY KernelAssumption DEF NoStrikes
<1>3. {0, 1} \subseteq Statuses /\ changes \in 0..MaxChanges /\ faults \in 0..MaxFaults
  BY KernelAssumption DEF Init, Statuses
<1>4. status \in [Panes -> Statuses] /\ Unlisted \in [Panes -> Statuses]
      /\ lastStatus \in [Panes -> Statuses]
  BY <1>3 DEF Init, Unlisted
<1>5. TypeOK
  BY <1>1, <1>2, <1>3, <1>4 DEF Init, TypeOK, Lines, ConnStates
<1>6. OnceOnly
  <2>1. \A p \in live : p \in Panes /\ status[p] = 1
    BY DEF Init
  <2> QED BY <1>1, <2>1 DEF Init, OnceOnly
<1>7. Listing /\ Covering /\ LastPushIsStatus /\ Known
  BY <1>1 DEF Init, Listing, Covering, Attached, LastPushIsStatus, Known
<1> QED BY <1>5, <1>6, <1>7 DEF KernelInv

LEMMA KernelInvariance == Spec => []KernelInv
<1>1. KernelInv /\ [Next]_vars => KernelInv'
  BY TypeStep, OnceStep, CoverStep, PushesStep DEF KernelInv
<1> QED BY <1>1, InitKernelInv, PTL DEF Spec

(* Every variable of the kernel keeps its type: what it holds about panes  *)
(* is about herdr's panes, and no connection is ever at its last strike.   *)
THEOREM KernelTypeCorrect == Spec => []TypeOK
<1>1. KernelInv => TypeOK
  BY DEF KernelInv
<1> QED BY <1>1, KernelInvariance, PTL

(* No bootstrap gap, for any number of panes: while the kernel pumps and   *)
(* its lifecycle connection works, a pane is covered or announced          *)
(* (subscribe.rs, "The design: two connections").                          *)
THEOREM CoveredOrAnnouncedThm == Spec => []CoveredOrAnnounced
<1>1. KernelInv => CoveredOrAnnounced
  BY DEF KernelInv, CoveredOrAnnounced, Covering, Attached, Announced
<1> QED BY <1>1, KernelInvariance, PTL

(* No transition of a covered pane is lost between the subscription, the   *)
(* resync that follows it and the pushes (connect_status, resync, publish).*)
THEOREM KnownOrPushedThm == Spec => []KnownOrPushed
<1>1. KernelInv => KnownOrPushed
  BY DEF KernelInv, KnownOrPushed, Known, Pushed
<1> QED BY <1>1, KernelInvariance, PTL

(* A kernel that pumps, with both connections up and everything they       *)
(* delivered read, and that no failed resync left blind.                   *)
CaughtUp ==
  /\ kernel = "pumping" /\ ~blind
  /\ lifecycle = "up" /\ agents = "up"
  /\ lines = <<>> /\ pushes = <<>>

(* A kernel that has caught up knows every pane there is, is subscribed to *)
(* it, and has its status: the watchdog then finds nothing (pump,          *)
(* watchdog_verdict).                                                      *)
THEOREM CaughtUpKnowsAll ==
  Spec => [](CaughtUp =>
               /\ \A p \in live :
                    p \in covered /\ p \in subscribed /\ lastStatus[p] = status[p]
               /\ Verdict = "healthy")
<1>1. <<>> \in Seq(Lines) /\ <<>> \in Seq(Panes \X Statuses) /\ DOMAIN <<>> = {}
  OBVIOUS
<1>2. \A x : ~Contains(<<>>, x)
  BY <1>1, ContainsIs
<1>3. ASSUME KernelInv, CaughtUp
      PROVE  /\ \A p \in live :
                  p \in covered /\ p \in subscribed /\ lastStatus[p] = status[p]
             /\ Verdict = "healthy"
  <2>1. \A p \in live : p \in covered /\ p \in subscribed
    BY <1>2, <1>3 DEF KernelInv, CaughtUp, Covering, Attached, Announced
  <2>2. \A p \in live : lastStatus[p] = status[p]
    BY <1>2, <1>3, <2>1 DEF KernelInv, CaughtUp, Known, Pushed
  <2> QED BY <2>1, <2>2 DEF Verdict
<1> QED BY <1>3, KernelInvariance, PTL
=============================================================================
