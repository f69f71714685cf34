------------------------- MODULE HerdrRelay_proofs -------------------------
(***************************************************************************)
(* Proofs about HerdrRelay, for any bounds and any times.                  *)
(*                                                                         *)
(* OneTerminalHeld is inductive. EndsForAReason rests on what the swap     *)
(* channel holds: once no reattach is under way its last entry is the      *)
(* connection the sender writes to, and an empty channel means that the    *)
(* reader has caught up. While the reader has not ended, the channel leads *)
(* it to that connection or to the sentinel (Led), and what it holds is in *)
(* the order of opening (InOrder), on which the refinement of WirePromise  *)
(* rests.                                                                  *)
(***************************************************************************)
EXTENDS HerdrRelay, SequenceTheorems, TLAPS

Reading == {"recv", "look", "check", "waiting"}
Settled == sender \in {"idle", "handed"}

(* Connections are numbered as they are opened. *)
Numbered ==
  /\ wire <= conns /\ reading <= conns
  /\ \A i \in 1..Len(swaps) : swaps[i] <= conns

(* The flag is up for as long as a reattach is under way. *)
ArmedThroughout == sender # "idle" => pending

(* Only an exhausted reattach sends the sentinel. *)
SentinelIsFailure ==
  /\ sender = "exhausted" => exhausted
  /\ \A i \in 1..Len(swaps) : swaps[i] = Sentinel => exhausted

(* What the sender writes to was opened, and only herdr has closed it. *)
WireLives ==
  /\ sender \in {"idle", "armed", "installed", "handed"}
       => wire \in open \cup died \/ exhausted \/ relay # "serving"
  /\ sender = "connected" => conns \in open \cup died \/ relay # "serving"

LastIsWire ==
  Settled /\ swaps # <<>> => swaps[Len(swaps)] = wire \/ exhausted

CaughtUp ==
  Settled /\ reader \in Reading /\ swaps = <<>> => Accounted \/ reading \in open

NothingForTheGone == reader = "gone" => swaps = <<>>

SawItsEnd == reader \in {"look", "check"} => reading \notin open

EndInv ==
  /\ Numbered /\ ArmedThroughout /\ SentinelIsFailure /\ WireLives
  /\ LastIsWire /\ CaughtUp /\ NothingForTheGone /\ SawItsEnd
  /\ EndsForAReason

-----------------------------------------------------------------------------
(* A taken swap: its first entry, and the rest with its last entry kept. *)
LEMMA TakenSwap ==
  ASSUME TypeOK, swaps # <<>>
  PROVE  /\ Len(swaps) \in Nat \ {0}
         /\ Head(swaps) = swaps[1]
         /\ Head(swaps) \in Conns \cup {Sentinel}
         /\ Tail(swaps) \in Seq(Conns \cup {Sentinel})
         /\ Len(Tail(swaps)) = Len(swaps) - 1
         /\ \A i \in 1..Len(Tail(swaps)) : Tail(swaps)[i] = swaps[i + 1]
         /\ Tail(swaps) = <<>> => Len(swaps) = 1
<1>1. swaps \in Seq(Conns \cup {Sentinel})
  BY DEF TypeOK
<1>2. Len(swaps) \in Nat \ {0} /\ Len(<<>>) = 0
  BY <1>1, EmptySeq
<1>3. Head(swaps) = swaps[1]
  BY <1>1, <1>2
<1>4. /\ Head(swaps) \in Conns \cup {Sentinel}
      /\ Tail(swaps) \in Seq(Conns \cup {Sentinel})
      /\ Len(Tail(swaps)) = Len(swaps) - 1
      /\ \A i \in 1..Len(Tail(swaps)) : Tail(swaps)[i] = swaps[i + 1]
  BY <1>1, HeadTailProperties
<1>5. Len(Tail(swaps)) = Len(swaps) - 1 /\ Tail(swaps) = <<>>
        => Len(swaps) = 1
  <2> SUFFICES ASSUME Len(Tail(swaps)) = Len(swaps) - 1, Tail(swaps) = <<>>
               PROVE  Len(swaps) = 1
    OBVIOUS
  <2>1. Len(swaps) - 1 = 0
    BY <1>2
  <2> QED BY <1>2, <2>1
<1> QED BY <1>2, <1>3, <1>4, <1>5

(* A handed-over swap becomes the last entry. *)
LEMMA AppendedSwap ==
  ASSUME TypeOK, NEW e \in Conns \cup {Sentinel}
  PROVE  /\ Append(swaps, e) \in Seq(Conns \cup {Sentinel})
         /\ Append(swaps, e) # <<>>
         /\ Len(Append(swaps, e)) = Len(swaps) + 1
         /\ Append(swaps, e)[Len(swaps) + 1] = e
         /\ \A i \in 1..Len(swaps) : Append(swaps, e)[i] = swaps[i]
  BY AppendProperties DEF TypeOK

(* A pass of the loop is entered only while attempts are left. *)
AttemptsLeft == sender \in {"armed", "connect"} => attempts < MaxAttempts

TypeInv == TypeOK /\ AttemptsLeft

(* One step per part of the type; a part few actions write is quick for    *)
(* all of them at once.                                                    *)
LEMMA TypeStep == TypeInv /\ [Next]_herVars => TypeInv'
<1> SUFFICES ASSUME TypeOK, AttemptsLeft, [Next]_herVars
             PROVE  TypeOK' /\ AttemptsLeft'
  BY DEF TypeInv
<1> USE HerdrAssumption
<1> USE DEF Next, Reattach, ReaderStep, Arm, Release, AttemptWorks,
      AttemptFails, Install, HandOver, SendSentinel, Disarm, SeeEnd, SeeStop,
      LookFinds, LookFindsNothing, Check, WaitEnds, WaitsInVain, GraceExpires,
      DropReceiver, TakeSwap, ReaderExited, Dismissed, Leave, Join, Dies, Over,
      SenderMoves, ReaderMoves, senderVars, readerVars, swapVars, herVars
<1>1. (sender \in Senders /\ wire \in Conns /\ conns \in Conns)'
  BY DEF TypeOK, Senders, Conns
<1>2. (attempts \in 0..MaxAttempts /\ AttemptsLeft)'
  BY DEF TypeOK, AttemptsLeft
<1>3. (swaps \in Seq(Conns \cup {Sentinel}))'
  BY AppendedSwap, TakenSwap, EmptySeq DEF TypeOK
<1>4. (reader \in Readers /\ reading \in Conns)'
  BY TakenSwap DEF TypeOK, Readers
<1>5. (waited \in 0..Grace)'
  BY DEF TypeOK, Elapses
<1>6. (open \in SUBSET Conns)'
  <2>1. conns < MaxConns => conns + 1 \in Conns
    BY DEF TypeOK, Conns
  <2> QED BY <2>1 DEF TypeOK
<1>7. (died \in SUBSET Conns)'
  BY DEF TypeOK
<1>8. (pending \in BOOLEAN /\ readOnly \in BOOLEAN)'
  BY DEF TypeOK
<1>9. (exhausted \in BOOLEAN)'
  BY DEF TypeOK
<1>10. (relay \in {"serving", "leaving", "done"})'
  BY DEF TypeOK
<1> QED BY <1>1, <1>2, <1>3, <1>4, <1>5, <1>6, <1>7, <1>8, <1>9, <1>10
        DEF TypeOK

LEMMA TypeInit == Init => TypeInv
<1> SUFFICES ASSUME Init PROVE TypeInv
  OBVIOUS
<1> USE HerdrAssumption DEF Init
<1>1. 1 \in Conns /\ swaps \in Seq(Conns \cup {Sentinel})
  BY EmptySeq DEF Conns
<1>2. /\ pending \in BOOLEAN /\ readOnly \in BOOLEAN
      /\ exhausted \in BOOLEAN
  OBVIOUS
<1>3. /\ sender \in Senders /\ reader \in Readers
      /\ attempts \in 0..MaxAttempts /\ waited \in 0..Grace
      /\ relay \in {"serving", "leaving", "done"}
  BY DEF Senders, Readers
<1>4. open \in SUBSET Conns /\ died \in SUBSET Conns
  BY <1>1
<1> QED BY <1>1, <1>2, <1>3, <1>4 DEF TypeInv, TypeOK, AttemptsLeft

(* Every reachable state is well typed, for any bounds and any times. *)
THEOREM HerdrTypeCorrect == Spec => []TypeOK
<1>1. TypeInv => TypeOK
  BY DEF TypeInv
<1> QED BY <1>1, TypeInit, TypeStep, PTL DEF Spec

-----------------------------------------------------------------------------
LEMMA HeldStep ==
  TypeOK /\ OneTerminalHeld /\ [Next]_herVars => OneTerminalHeld'
<1> SUFFICES ASSUME TypeOK, OneTerminalHeld, [Next]_herVars
             PROVE  OneTerminalHeld'
  OBVIOUS
<1> USE DEF SenderMoves, ReaderMoves, senderVars, readerVars, swapVars,
            OneTerminalHeld
<1>1. CASE Arm \/ Release
  BY <1>1 DEF Arm, Release
<1>2. CASE AttemptWorks
  BY <1>2 DEF AttemptWorks
<1>3. CASE AttemptFails
  BY <1>3 DEF AttemptFails
<1>4. CASE Install \/ HandOver \/ SendSentinel \/ Disarm
  BY <1>4 DEF Install, HandOver, SendSentinel, Disarm
<1>5. CASE ReaderStep
  BY <1>5 DEF ReaderStep, SeeEnd, SeeStop, LookFinds, LookFindsNothing, Check,
     WaitEnds, WaitsInVain, GraceExpires, DropReceiver, TakeSwap
<1>6. CASE ReaderExited \/ Dismissed \/ Join \/ \E c \in Conns : Dies(c)
  BY <1>6 DEF ReaderExited, Dismissed, Leave, Join, Dies
<1>7. CASE Over \/ UNCHANGED herVars
  BY <1>7 DEF Over, herVars
<1> QED BY <1>1, <1>2, <1>3, <1>4, <1>5, <1>6, <1>7 DEF Next, Reattach

(* reattach lets the old terminal go before it asks for the next, however  *)
(* often it fails and whatever herdr closes meanwhile.                     *)
THEOREM OneTerminalHeldThm == Spec => []OneTerminalHeld
<1>1. Init => OneTerminalHeld
  BY DEF Init, OneTerminalHeld
<1> QED BY <1>1, HeldStep, HerdrTypeCorrect, PTL DEF Spec

-----------------------------------------------------------------------------
LEMMA EndInit == Init => EndInv
  BY DEF Init, EndInv, Numbered, ArmedThroughout, SentinelIsFailure, WireLives,
     LastIsWire, CaughtUp, NothingForTheGone, SawItsEnd, EndsForAReason,
     Accounted, Settled, Reading

(* A swap is taken: what was said of the channel passes to its tail, and   *)
(* the last one to be taken is the sender's own connection.                *)
LEMMA EndTakeSwap ==
  ASSUME TypeOK, EndInv, TakeSwap, reader \in {"look", "waiting"}
  PROVE  EndInv'
<1> USE DEF TakeSwap, EndInv, senderVars
<1>1. /\ Len(swaps) \in Nat \ {0} /\ Head(swaps) = swaps[1]
      /\ Head(swaps) <= conns
      /\ Head(swaps) = Sentinel => exhausted
      /\ Tail(swaps) = <<>> => swaps[Len(swaps)] = Head(swaps)
  BY TakenSwap DEF Numbered, SentinelIsFailure
<1>2. Numbered'
  BY <1>1, TakenSwap DEF Numbered
<1>3. (ArmedThroughout /\ WireLives)'
  BY DEF ArmedThroughout, WireLives
<1>4. SentinelIsFailure'
  BY <1>1, TakenSwap DEF SentinelIsFailure
<1>5. LastIsWire'
  <2> SUFFICES ASSUME Settled, Tail(swaps) # <<>>
               PROVE  Tail(swaps)[Len(Tail(swaps))] = wire \/ exhausted
    BY DEF LastIsWire, Settled
  <2>1. Len(Tail(swaps)) \in Nat \ {0}
    BY TakenSwap, EmptySeq
  <2>2. Tail(swaps)[Len(Tail(swaps))] = swaps[Len(swaps)]
    BY <1>1, <2>1, TakenSwap
  <2> QED BY <2>2 DEF LastIsWire
<1>6. CaughtUp'
  BY <1>1 DEF CaughtUp, LastIsWire, WireLives, Accounted, Settled, Reading
<1>7. (NothingForTheGone /\ SawItsEnd /\ EndsForAReason)'
  BY <1>1 DEF NothingForTheGone, SawItsEnd, EndsForAReason, Accounted
<1> QED BY <1>2, <1>3, <1>4, <1>5, <1>6, <1>7

(* A swap is handed over: what was said of the channel holds of the longer *)
(* one, whose last entry is the sender's connection, or the sentinel.      *)
LEMMA EndHandOver ==
  ASSUME TypeOK, EndInv, HandOver \/ SendSentinel
  PROVE  EndInv'
<1> USE DEF EndInv
<1> DEFINE e == IF sender = "installed" THEN wire ELSE Sentinel
<1>1. /\ e \in Conns \cup {Sentinel}
      /\ e = wire \/ exhausted
      /\ e <= conns
      /\ e = Sentinel => exhausted
  BY DEF HandOver, SendSentinel, SenderMoves, TypeOK, Conns, Sentinel,
     Numbered, SentinelIsFailure
<1>2. /\ swaps' = IF reader = "gone" THEN swaps ELSE Append(swaps, e)
      /\ sender \in {"installed", "exhausted"} /\ sender' = "handed"
      /\ UNCHANGED <<wire, conns, pending, waited, reader, reading, open,
                     relay, died, exhausted>>
  BY DEF HandOver, SendSentinel, SenderMoves, readerVars
<1>3. sender = "exhausted" => exhausted
  BY DEF SentinelIsFailure
<1> HIDE DEF e
<1>4. CASE reader = "gone"
  BY <1>2, <1>3, <1>4
     DEF Numbered, ArmedThroughout, SentinelIsFailure, WireLives, LastIsWire,
         CaughtUp, NothingForTheGone, SawItsEnd, EndsForAReason, Accounted,
         Settled, Reading
<1>5. CASE reader # "gone"
  <2>1. /\ swaps' # <<>> /\ Len(swaps') = Len(swaps) + 1
        /\ swaps'[Len(swaps')] = e
        /\ \A i \in 1..Len(swaps) : swaps'[i] = swaps[i]
    BY <1>1, <1>2, <1>5, AppendedSwap
  <2>2. Len(swaps) \in Nat
    BY LenProperties DEF TypeOK
  <2>3. \A i \in 1..Len(swaps') : i \in 1..Len(swaps) \/ swaps'[i] = e
    BY <2>1, <2>2
  <2>4. (Numbered /\ SentinelIsFailure)'
    BY <1>1, <1>2, <2>1, <2>3 DEF Numbered, SentinelIsFailure
  <2>5. (LastIsWire /\ CaughtUp)'
    BY <1>1, <1>2, <2>1 DEF LastIsWire, CaughtUp
  <2>6. (ArmedThroughout /\ WireLives)'
    BY <1>2, <1>3 DEF ArmedThroughout, WireLives
  <2>7. (NothingForTheGone /\ SawItsEnd /\ EndsForAReason)'
    BY <1>2, <1>5, <2>1
       DEF NothingForTheGone, SawItsEnd, EndsForAReason, Accounted
  <2> QED BY <2>4, <2>5, <2>6, <2>7
<1> QED BY <1>4, <1>5

(* The other steps of a reattach.  Until it is settled the flag is up. *)
LEMMA EndReattach ==
  ASSUME TypeOK, EndInv,
         \/ Arm \/ Release \/ AttemptWorks \/ AttemptFails \/ Install \/ Disarm
  PROVE  EndInv'
<1> USE DEF SenderMoves, readerVars, swapVars
<1>1. /\ UNCHANGED <<reader, reading, swaps, relay, died>>
      /\ conns' \in {conns, conns + 1} /\ wire' \in {wire, conns}
  BY DEF Arm, Release, AttemptWorks, AttemptFails, Install, Disarm
<1>9. exhausted => exhausted'
  BY DEF Arm, Release, AttemptWorks, AttemptFails, Install, Disarm
<1> USE DEF EndInv
<1>2. Numbered'
  <2>1. \A i \in 1..Len(swaps) : swaps[i] \in Nat
    BY ElementOfSeq DEF TypeOK, Conns, Sentinel
  <2> QED BY <1>1, <2>1 DEF Numbered, TypeOK, Conns
<1>3. (ArmedThroughout /\ NothingForTheGone)'
  BY <1>1 DEF Arm, Release, AttemptWorks, AttemptFails, Install, Disarm,
     ArmedThroughout, NothingForTheGone
<1>8. SentinelIsFailure'
  <2>1. sender' = "exhausted" => exhausted'
    <3>1. CASE AttemptFails
      BY <3>1, Zenon DEF AttemptFails
    <3>2. CASE ~AttemptFails
      BY <3>2 DEF Arm, Release, AttemptWorks, Install, Disarm
    <3> QED BY <3>1, <3>2
  <2> QED BY <1>1, <1>9, <2>1 DEF SentinelIsFailure
<1>4. WireLives'
  BY <1>1 DEF Arm, Release, AttemptWorks, AttemptFails, Install, Disarm,
     WireLives, SentinelIsFailure
<1>5. (LastIsWire /\ CaughtUp)'
  BY <1>1 DEF Arm, Release, AttemptWorks, AttemptFails, Install, Disarm,
     LastIsWire, CaughtUp, Settled, Accounted
<1>6. SawItsEnd'
  BY <1>1 DEF Arm, Release, AttemptWorks, AttemptFails, Install, Disarm,
     SawItsEnd, Numbered, TypeOK, Conns
<1>7. EndsForAReason'
  <2>1. reader = "ended" => UNCHANGED waited
    BY DEF Arm, Release, AttemptWorks, AttemptFails, Install, Disarm, Elapses
  <2> QED BY <1>1, <1>9, <2>1 DEF EndsForAReason, Accounted
<1> QED BY <1>2, <1>3, <1>4, <1>5, <1>6, <1>7, <1>8

(* Check ends the stream on a flag that is down: the reader had caught up. *)
LEMMA EndReader ==
  ASSUME TypeOK, EndInv,
         \/ SeeEnd \/ SeeStop \/ LookFindsNothing \/ Check
         \/ WaitsInVain \/ GraceExpires \/ DropReceiver
  PROVE  EndInv'
<1> USE DEF ReaderMoves, senderVars
<1>1. UNCHANGED <<sender, wire, conns, reading, pending, open, relay, died, exhausted>>
  BY DEF SeeEnd, SeeStop, LookFindsNothing, Check, WaitsInVain, GraceExpires,
     DropReceiver, readerVars, swapVars
<1>2. swaps' = swaps \/ (swaps' = <<>> /\ reader' = "gone")
  BY DEF SeeEnd, SeeStop, LookFindsNothing, Check, WaitsInVain, GraceExpires,
     DropReceiver, swapVars
<1> USE DEF EndInv
<1>3. (Numbered /\ ArmedThroughout /\ SentinelIsFailure /\ WireLives)'
  BY <1>1, <1>2, EmptySeq DEF Numbered, ArmedThroughout, SentinelIsFailure, WireLives
<1>4. LastIsWire'
  BY <1>1, <1>2 DEF LastIsWire, Settled
<1>5. (CaughtUp /\ NothingForTheGone /\ SawItsEnd)'
  BY <1>1, <1>2 DEF SeeEnd, SeeStop, LookFindsNothing, Check, WaitsInVain,
     GraceExpires, DropReceiver, readerVars, swapVars, CaughtUp,
     NothingForTheGone, SawItsEnd, Settled, Reading, Accounted
<1>6. EndsForAReason'
  <2>1. CASE Check
    BY <2>1 DEF Check, swapVars, EndsForAReason, Accounted, CaughtUp, SawItsEnd,
       ArmedThroughout, Settled, Reading
  <2>2. CASE ~Check
    BY <2>2 DEF SeeEnd, SeeStop, LookFindsNothing, WaitsInVain, GraceExpires,
       DropReceiver, readerVars, swapVars, EndsForAReason, Accounted
  <2> QED BY <2>1, <2>2
<1> QED BY <1>3, <1>4, <1>5, <1>6

(* Only herdr, and a relay that leaves, close what the sender writes to. *)
LEMMA EndRelay ==
  ASSUME TypeOK, EndInv,
         \/ ReaderExited \/ Dismissed \/ Join \/ (\E c \in Conns : Dies(c))
         \/ UNCHANGED herVars
  PROVE  EndInv'
<1> USE DEF senderVars, readerVars, swapVars, herVars
<1>1. /\ UNCHANGED <<sender, wire, conns, swaps, pending, waited, reader,
                     reading, exhausted>>
      /\ open' \subseteq open /\ died \subseteq died'
      /\ relay' = "serving" => relay' = relay /\ open \subseteq open' \cup died'
      /\ relay # "serving" => relay' # "serving"
  BY DEF ReaderExited, Dismissed, Leave, Join, Dies
<1> USE DEF EndInv
<1>2. (/\ Numbered /\ ArmedThroughout /\ SentinelIsFailure /\ LastIsWire
       /\ NothingForTheGone /\ SawItsEnd)'
  BY <1>1 DEF Numbered, ArmedThroughout, SentinelIsFailure, LastIsWire,
     NothingForTheGone, SawItsEnd, Settled
<1>3. (WireLives /\ CaughtUp /\ EndsForAReason)'
  BY <1>1 DEF WireLives, CaughtUp, EndsForAReason, Accounted, Settled, Reading
<1> QED BY <1>2, <1>3

LEMMA EndInvariance == Spec => []EndInv
<1>1. TypeOK /\ EndInv /\ [Next]_herVars => EndInv'
  <2> SUFFICES ASSUME TypeOK, EndInv, [Next]_herVars PROVE EndInv'
    OBVIOUS
  <2>1. CASE HandOver \/ SendSentinel
    BY <2>1, EndHandOver
  <2>2. CASE \/ Arm \/ Release \/ AttemptWorks \/ AttemptFails \/ Install
             \/ Disarm
    BY <2>2, EndReattach
  <2>3. CASE LookFinds \/ WaitEnds
    BY <2>3, EndTakeSwap DEF LookFinds, WaitEnds
  <2>4. CASE \/ SeeEnd \/ SeeStop \/ LookFindsNothing \/ Check
             \/ WaitsInVain \/ GraceExpires \/ DropReceiver
    BY <2>4, EndReader
  <2>5. CASE \/ ReaderExited \/ Dismissed \/ Join \/ Over
             \/ (\E c \in Conns : Dies(c)) \/ UNCHANGED herVars
    BY <2>5, EndRelay DEF Over
  <2> QED BY <2>1, <2>2, <2>3, <2>4, <2>5 DEF Next, Reattach, ReaderStep
<1> QED BY <1>1, EndInit, HerdrTypeCorrect, PTL DEF Spec

(* The reader ends the stream only if its connection died, a reattach gave *)
(* up, the relay leaves, a swap lies in the channel, or the grace is over. *)
THEOREM EndsForAReasonThm == Spec => []EndsForAReason
<1>1. EndInv => EndsForAReason
  BY DEF EndInv
<1> QED BY <1>1, EndInvariance, PTL

-----------------------------------------------------------------------------
(* What a reader that has not ended is led to: it reads the connection the *)
(* sender writes to, or the last entry of its channel is that connection,  *)
(* or the sentinel.  Only between the two halves of a hand-over, when the  *)
(* write half is replaced and the read half is not, there is neither.      *)
Led ==
  sender # "installed" /\ reader \in Reading =>
    IF swaps = <<>> THEN reading = wire
                    ELSE swaps[Len(swaps)] \in {wire, Sentinel}

LEMMA LedStep == TypeOK /\ Led /\ [Next]_herVars => Led'
<1> SUFFICES ASSUME TypeOK, Led, [Next]_herVars PROVE Led'
  OBVIOUS
<1>0. \A s \in {"recv", "look", "check", "waiting"} : s \in Reading
  BY DEF Reading
<1> USE DEF SenderMoves, ReaderMoves, senderVars, readerVars, swapVars
<1>1. CASE UNCHANGED <<sender, wire, swaps, reader, reading>>
  BY <1>1 DEF Led
<1>2. CASE Arm \/ Release \/ AttemptWorks \/ AttemptFails \/ Disarm
  <2>1. sender # "installed" /\ UNCHANGED <<wire, swaps, reader, reading>>
    BY <1>2 DEF Arm, Release, AttemptWorks, AttemptFails, Disarm
  <2> QED BY <2>1 DEF Led
<1>3. CASE Install
  BY <1>3 DEF Install, Led
<1>4. CASE HandOver \/ SendSentinel
  <2> DEFINE e == IF sender = "installed" THEN wire ELSE Sentinel
  <2>1. /\ e \in Conns \cup {Sentinel} /\ e \in {wire, Sentinel}
        /\ swaps' = IF reader = "gone" THEN swaps ELSE Append(swaps, e)
        /\ UNCHANGED <<wire, reader, reading>>
    BY <1>4 DEF HandOver, SendSentinel, TypeOK
  <2> HIDE DEF e
  <2>2. CASE reader = "gone"
    BY <2>1, <2>2 DEF Led, Reading
  <2>3. CASE reader # "gone"
    <3>1. swaps' # <<>> /\ swaps'[Len(swaps')] = e
      BY <2>1, <2>3, AppendedSwap
    <3> QED BY <2>1, <3>1 DEF Led
  <2> QED BY <2>2, <2>3
<1>5. CASE LookFinds \/ WaitEnds
  <2>1. /\ TakeSwap /\ reader \in Reading
        /\ UNCHANGED <<sender, wire>>
    BY <1>5 DEF LookFinds, WaitEnds, TakeSwap, Reading
  <2>2. swaps # <<>> /\ swaps' = Tail(swaps)
    BY <2>1 DEF TakeSwap
  <2>3. CASE Head(swaps) = Sentinel
    BY <2>1, <2>3 DEF TakeSwap, Led, Reading
  <2>4. CASE Head(swaps) # Sentinel
    <3>1. reading' = Head(swaps)
      BY <2>1, <2>4 DEF TakeSwap
    <3>2. CASE swaps' = <<>>
      BY <2>1, <2>2, <2>4, <3>1, <3>2, TakenSwap DEF Led
    <3>3. CASE swaps' # <<>>
      <4>1. Len(swaps') \in Nat \ {0}
        BY <2>2, <3>3, TakenSwap, EmptySeq
      <4>2. swaps'[Len(swaps')] = swaps[Len(swaps)]
        BY <2>2, <4>1, TakenSwap
      <4> QED BY <2>1, <2>2, <3>3, <4>2 DEF Led
    <3> QED BY <3>2, <3>3
  <2> QED BY <2>3, <2>4
<1>6. CASE \/ SeeEnd \/ SeeStop \/ LookFindsNothing \/ Check
           \/ WaitsInVain \/ GraceExpires \/ DropReceiver
  <2>1. /\ reader' \in Reading => reader \in Reading /\ swaps' = swaps
        /\ UNCHANGED <<sender, wire, reading>>
    BY <1>0, <1>6 DEF SeeEnd, SeeStop, LookFindsNothing, Check, WaitsInVain, GraceExpires,
       DropReceiver, Reading
  <2> QED BY <2>1 DEF Led
<1>7. CASE ReaderExited \/ Dismissed \/ Join \/ \E c \in Conns : Dies(c)
  BY <1>1, <1>7 DEF ReaderExited, Dismissed, Leave, Join, Dies
<1>8. CASE Over \/ UNCHANGED herVars
  BY <1>1, <1>8 DEF Over, herVars
<1> QED
  BY <1>2, <1>3, <1>4, <1>5, <1>6, <1>7, <1>8 DEF Next, Reattach, ReaderStep

(* Between two reattaches a reader that is on another connection than the  *)
(* sender cannot stay there: its own is closed, and its channel leads it   *)
(* to the sender's, or to its end (try_adopt_swap).  That it then gets     *)
(* there is ReaderFollows.                                                 *)
THEOREM ReaderIsLed ==
  Spec => [](sender = "idle" /\ reader \in Reading /\ reading # wire =>
               /\ reading \notin open
               /\ swaps # <<>> /\ swaps[Len(swaps)] \in {wire, Sentinel})
<1>1. Init => Led
  BY DEF Init, Led
<1>2. Led /\ OneTerminalHeld =>
        (sender = "idle" /\ reader \in Reading /\ reading # wire =>
           /\ reading \notin open
           /\ swaps # <<>> /\ swaps[Len(swaps)] \in {wire, Sentinel})
  BY DEF Led, OneTerminalHeld
<1> QED BY <1>1, <1>2, LedStep, HerdrTypeCorrect, OneTerminalHeldThm, PTL DEF Spec

-----------------------------------------------------------------------------
(* A relay leaves between two operations, and is done without a reader and *)
(* without a connection.                                                   *)
LeftAlone ==
  /\ relay # "serving" => sender = "idle"
  /\ relay = "done" => open = {} /\ reader = "gone" /\ swaps = <<>>

(* No reattach outlives its relay: once the guard has joined the reader    *)
(* nothing is held of herdr and nothing can be opened any more.  That a    *)
(* stream that ended gets there is EndedLetsGo.                            *)
THEOREM DoneHoldsNothing == Spec => []LeftAlone
<1>1. Init => LeftAlone
  BY DEF Init, LeftAlone
<1>2. NothingForTheGone /\ LeftAlone /\ [Next]_herVars => LeftAlone'
  <2> SUFFICES ASSUME NothingForTheGone, LeftAlone, [Next]_herVars PROVE LeftAlone'
    OBVIOUS
  <2> USE DEF SenderMoves, ReaderMoves, senderVars, readerVars, swapVars, LeftAlone
  <2>1. CASE Arm \/ Reattach
    BY <2>1 DEF Arm, Reattach, Release, AttemptWorks, AttemptFails, Install, HandOver,
       SendSentinel, Disarm
  <2>2. CASE ReaderStep
    BY <2>2 DEF ReaderStep, SeeEnd, SeeStop, LookFinds, LookFindsNothing, Check, WaitEnds,
       WaitsInVain, GraceExpires, DropReceiver, TakeSwap
  <2>3. CASE ReaderExited \/ Dismissed \/ Join \/ \E c \in Conns : Dies(c)
    BY <2>3 DEF ReaderExited, Dismissed, Leave, Join, Dies, NothingForTheGone
  <2>4. CASE Over \/ UNCHANGED herVars
    BY <2>4 DEF Over, herVars
  <2> QED BY <2>1, <2>2, <2>3, <2>4 DEF Next
<1>3. EndInv => NothingForTheGone
  BY DEF EndInv
<1> QED BY <1>1, <1>2, <1>3, EndInvariance, PTL DEF Spec

-----------------------------------------------------------------------------
(* The refinement of WirePromise.  The reader is behind by what its        *)
(* channel holds, so the order of what it shows is the order of the        *)
(* channel: everything in it was opened after the connection being read,   *)
(* each entry after the one before, and what is about to be handed over    *)
(* after them all.                                                         *)

(* Not the sentinel. *)
IsConn(i) == swaps[i] # Sentinel

InOrder ==
  /\ \A i \in 1..Len(swaps) : IsConn(i) => reading < swaps[i]
  /\ \A i, j \in 1..Len(swaps) : i < j /\ IsConn(i) /\ IsConn(j) => swaps[i] < swaps[j]
  /\ sender \in {"connected", "installed"} =>
       /\ \A i \in 1..Len(swaps) : swaps[i] < conns
       /\ reading < conns
  /\ sender = "installed" => wire = conns

LEMMA InOrderStep ==
  TypeOK /\ Numbered /\ InOrder /\ [Next]_herVars => InOrder'
<1> SUFFICES ASSUME TypeOK, Numbered, InOrder, [Next]_herVars PROVE InOrder'
  OBVIOUS
<1> USE DEF SenderMoves, ReaderMoves, senderVars, readerVars, swapVars
<1>0. /\ Len(swaps) \in Nat /\ conns \in Nat /\ reading \in Nat /\ wire \in Nat
      /\ \A i \in 1..Len(swaps) : swaps[i] \in Nat
  BY LenProperties, ElementOfSeq DEF TypeOK, Conns, Sentinel
<1>1. ASSUME UNCHANGED <<swaps, reading>>,
             \/ UNCHANGED <<sender, wire, conns>>
             \/ sender' \notin {"connected", "installed"}
             \/ sender' = "connected" /\ conns' = conns + 1
             \/ sender = "connected" /\ conns' = conns /\ wire' = conns
      PROVE  InOrder'
  <2>1. sender' \in {"connected", "installed"} =>
          /\ \A i \in 1..Len(swaps) : swaps[i] < conns'
          /\ reading < conns'
    BY <1>0, <1>1 DEF InOrder, Numbered
  <2>2. sender' = "installed" => wire' = conns'
    BY <1>1 DEF InOrder
  <2> QED BY <1>1, <2>1, <2>2 DEF InOrder, IsConn
<1>2. CASE Arm \/ Release \/ AttemptWorks \/ AttemptFails \/ Install \/ Disarm
  BY <1>1, <1>2 DEF Arm, Release, AttemptWorks, AttemptFails, Install, Disarm
<1>3. CASE HandOver \/ SendSentinel
  <2> DEFINE e == IF sender = "installed" THEN wire ELSE Sentinel
  <2>1. /\ e \in Conns \cup {Sentinel}
        /\ e # Sentinel => /\ \A i \in 1..Len(swaps) : swaps[i] < e
                          /\ reading < e
        /\ swaps' \in {swaps, Append(swaps, e)}
        /\ sender' = "handed" /\ reading' = reading
    BY <1>3 DEF HandOver, SendSentinel, TypeOK, InOrder
  <2> HIDE DEF e
  <2>2. CASE swaps' = swaps
    BY <1>1, <2>1, <2>2
  <2>3. CASE swaps' = Append(swaps, e)
    <3>1. /\ Len(swaps') = Len(swaps) + 1
          /\ swaps'[Len(swaps) + 1] = e
          /\ \A i \in 1..Len(swaps) : swaps'[i] = swaps[i]
      BY <2>1, <2>3, AppendedSwap
    <3>2. \A i \in 1..Len(swaps') :
            i \in 1..Len(swaps) \/ (i = Len(swaps) + 1 /\ swaps'[i] = e)
      BY <1>0, <3>1
    <3>3. \A i \in 1..Len(swaps') : IsConn(i)' => reading' < swaps'[i]
      BY <2>1, <3>1, <3>2 DEF InOrder, IsConn
    <3>4. ASSUME NEW i \in 1..Len(swaps'), NEW j \in 1..Len(swaps'),
                 i < j, swaps'[i] # Sentinel, swaps'[j] # Sentinel
          PROVE  swaps'[i] < swaps'[j]
      <4>1. i \in 1..Len(swaps)
        BY <1>0, <3>1, <3>4
      <4>2. CASE j \in 1..Len(swaps)
        BY <3>1, <3>4, <4>1, <4>2 DEF InOrder, IsConn
      <4>3. CASE swaps'[j] = e
        BY <2>1, <3>1, <3>4, <4>1, <4>3
      <4> QED BY <3>2, <4>2, <4>3
    <3> QED BY <2>1, <3>3, <3>4 DEF InOrder, IsConn
  <2> QED BY <2>1, <2>2, <2>3
<1>4. CASE LookFinds \/ WaitEnds
  <2>1. /\ swaps # <<>> /\ swaps' = Tail(swaps)
        /\ reading' = IF Head(swaps) = Sentinel THEN reading ELSE Head(swaps)
        /\ UNCHANGED <<sender, wire, conns>>
    BY <1>4 DEF LookFinds, WaitEnds, TakeSwap
  <2>2. /\ 1 \in 1..Len(swaps) /\ Head(swaps) = swaps[1]
        /\ Len(swaps') = Len(swaps) - 1
        /\ \A i \in 1..Len(swaps') : swaps'[i] = swaps[i + 1]
    BY <2>1, TakenSwap
  <2>3. \A i \in 1..Len(swaps') : i + 1 \in 1..Len(swaps) /\ 1 < i + 1
    BY <1>0, <2>2
  <2>4. \A i \in 1..Len(swaps') : IsConn(i)' => reading' < swaps'[i]
    BY <2>1, <2>2, <2>3 DEF InOrder, IsConn
  <2>5. ASSUME NEW i \in 1..Len(swaps'), NEW j \in 1..Len(swaps'),
               i < j, swaps'[i] # Sentinel, swaps'[j] # Sentinel
        PROVE  swaps'[i] < swaps'[j]
    <3>1. i + 1 < j + 1
      BY <2>5
    <3> QED BY <2>2, <2>3, <2>5, <3>1 DEF InOrder, IsConn
  <2>6. sender \in {"connected", "installed"} =>
          /\ \A i \in 1..Len(swaps') : swaps'[i] < conns
          /\ reading' < conns
    BY <2>1, <2>2, <2>3 DEF InOrder
  <2> QED BY <2>1, <2>4, <2>5, <2>6 DEF InOrder, IsConn
<1>5. CASE \/ SeeEnd \/ SeeStop \/ LookFindsNothing \/ Check
           \/ WaitsInVain \/ GraceExpires
  BY <1>1, <1>5 DEF SeeEnd, SeeStop, LookFindsNothing, Check, WaitsInVain, GraceExpires
<1>6. CASE DropReceiver
  <2>1. Len(swaps') = 0 /\ UNCHANGED <<sender, wire, conns, reading>>
    BY <1>6, EmptySeq DEF DropReceiver
  <2> QED BY <2>1 DEF InOrder
<1>7. CASE ReaderExited \/ Dismissed \/ Join \/ \E c \in Conns : Dies(c)
  BY <1>1, <1>7 DEF ReaderExited, Dismissed, Leave, Join, Dies
<1>8. CASE Over \/ UNCHANGED herVars
  BY <1>1, <1>8 DEF Over, herVars
<1> QED
  BY <1>2, <1>3, <1>4, <1>5, <1>6, <1>7, <1>8 DEF Next, Reattach, ReaderStep

ShownNow == IF reader \in {"ended", "gone"} THEN 0 ELSE reading

(* Steps of the sender, of herdr and of the teardown: what the client is   *)
(* shown stays, and the terminal held is let go or, if none is, taken.     *)
LEMMA HoldingStep ==
  ASSUME TypeOK, OneTerminalHeld,
         \/ Arm \/ Reattach \/ ReaderExited \/ Dismissed \/ Join \/ Over
         \/ \E c \in Conns : Dies(c)
  PROVE  [Stream!Next]_(Stream!wireVars)
<1> USE DEF SenderMoves, senderVars, readerVars, swapVars
<1>1. UNCHANGED <<reader, reading>>
  BY DEF Arm, Reattach, Release, AttemptWorks, AttemptFails, Install, HandOver,
     SendSentinel, Disarm, ReaderExited, Dismissed, Leave, Join, Dies, Over, herVars
<1>2. ASSUME conns' = conns, open' \subseteq open, \E c : open \subseteq {c}
      PROVE  [Stream!Next]_(Stream!wireVars)
  <2>1. open' = open \/ (open # {} /\ open' = {})
    BY <1>2
  <2> QED BY <1>1, <1>2, <2>1 DEF Stream!Next, Stream!LetGo, Stream!wireVars
<1>3. \E c : open \subseteq {c}
  BY DEF OneTerminalHeld
<1>4. CASE AttemptWorks
  <2>1. open = {} /\ conns' = conns + 1 /\ open' = {conns'}
    BY <1>4 DEF AttemptWorks, OneTerminalHeld
  <2> QED BY <1>1, <2>1 DEF Stream!Next, Stream!Take
<1>5. CASE ~AttemptWorks
  <2>1. conns' = conns /\ open' \subseteq open
    <3>1. CASE Leave
      BY <3>1 DEF Leave
    <3>2. CASE \E c \in Conns : Dies(c)
      BY <3>2 DEF Dies
    <3>3. CASE Join \/ Over
      BY <3>3 DEF Join, Over, herVars
    <3>4. CASE Arm \/ Reattach
      BY <1>5, <3>4 DEF Arm, Reattach, Release, AttemptFails, Install, HandOver,
         SendSentinel, Disarm
    <3> QED BY <3>1, <3>2, <3>3, <3>4 DEF ReaderExited, Dismissed
  <2> QED BY <1>2, <1>3, <2>1
<1> QED BY <1>4, <1>5

(* Steps of the reader: it goes on, adopts a later connection, or ends. *)
LEMMA ShowingStep ==
  ASSUME TypeOK, Numbered, InOrder, ReaderStep
  PROVE  [Stream!Next]_(Stream!wireVars)
<1> USE DEF ReaderMoves, senderVars, readerVars, swapVars
<1>0. /\ conns \in Nat /\ reading \in Conns /\ reading # 0 /\ reading \in Nat
      /\ \A c \in Conns : c \in Nat /\ c # 0
  BY DEF TypeOK, Conns
<1>1. UNCHANGED <<conns, open>>
  BY DEF ReaderStep, SeeEnd, SeeStop, LookFinds, LookFindsNothing, Check, WaitEnds,
     WaitsInVain, GraceExpires, DropReceiver, TakeSwap
<1>2. ASSUME ShownNow' = ShownNow PROVE [Stream!Next]_(Stream!wireVars)
  BY <1>1, <1>2 DEF Stream!wireVars, ShownNow
<1>3. ASSUME reader \notin {"ended", "gone"}, reader' = "ended"
      PROVE  [Stream!Next]_(Stream!wireVars)
  BY <1>0, <1>1, <1>3 DEF Stream!Next, Stream!End, Stream!Nothing
<1>4. CASE LookFinds \/ WaitEnds
  <2>1. TakeSwap /\ reader \in {"look", "waiting"} /\ swaps # <<>>
    BY <1>4 DEF LookFinds, WaitEnds, TakeSwap
  <2>2. CASE Head(swaps) = Sentinel
    BY <1>3, <2>1, <2>2 DEF TakeSwap
  <2>3. CASE Head(swaps) # Sentinel
    <3>1. 1 \in 1..Len(swaps) /\ Head(swaps) = swaps[1] /\ Head(swaps) \in Conns
      BY <2>1, <2>3, TakenSwap
    <3>2. reading < Head(swaps) /\ Head(swaps) <= conns
      BY <2>3, <3>1 DEF InOrder, IsConn, Numbered
    <3>3. reader' = "recv" /\ reading' = Head(swaps)
      BY <2>1, <2>3 DEF TakeSwap
    <3>4. Head(swaps) \in (reading + 1)..conns
      <4>1. \A h \in Nat : reading < h /\ h <= conns => h \in (reading + 1)..conns
        BY <1>0
      <4>2. Head(swaps) \in Nat
        BY <1>0, <3>1
      <4> QED BY <3>2, <4>1, <4>2
    <3>5. /\ reader \notin {"ended", "gone"} /\ reader' \notin {"ended", "gone"}
          /\ ShownNow = reading /\ ShownNow' = Head(swaps)
      BY <2>1, <3>3 DEF ShownNow
    <3>6. ShownNow # 0 /\ ShownNow' \in (ShownNow + 1)..conns
      BY <1>0, <3>4, <3>5
    <3>7. Stream!Adopt
      BY <1>1, <3>6 DEF Stream!Adopt, Stream!Nothing, ShownNow
    <3> QED BY <3>7 DEF Stream!Next
  <2> QED BY <2>2, <2>3
<1>5. CASE SeeEnd \/ LookFindsNothing \/ WaitsInVain \/ DropReceiver
  BY <1>2, <1>5 DEF SeeEnd, LookFindsNothing, WaitsInVain, DropReceiver, ShownNow
<1>6. CASE SeeStop \/ GraceExpires
  BY <1>3, <1>6 DEF SeeStop, GraceExpires
<1>7. CASE Check
  BY <1>2, <1>3, <1>7 DEF Check, ShownNow
<1> QED BY <1>4, <1>5, <1>6, <1>7 DEF ReaderStep

(* Every step of sender, reader and teardown takes a terminal when none is *)
(* held, lets one go, goes on with a later connection, ends the stream, or *)
(* changes nothing of these (reattach, try_adopt_swap_within), for any     *)
(* number of moves, failures and connections that die.                     *)
THEOREM KeepsWirePromiseThm == Spec => KeepsWirePromise
<1>1. Init => Stream!Init
  BY DEF Init, Stream!Init
<1>2. Init => InOrder
  <2> SUFFICES ASSUME Init PROVE InOrder
    OBVIOUS
  <2>1. Len(swaps) = 0
    BY EmptySeq DEF Init
  <2> QED BY <2>1 DEF Init, InOrder
<1>3. TypeOK /\ OneTerminalHeld /\ Numbered /\ InOrder /\ [Next]_herVars
        => [Stream!Next]_(Stream!wireVars)
  <2> SUFFICES ASSUME TypeOK, OneTerminalHeld, Numbered, InOrder, [Next]_herVars
               PROVE  [Stream!Next]_(Stream!wireVars)
    OBVIOUS
  <2>1. CASE ReaderStep
    BY <2>1, ShowingStep
  <2>2. CASE Arm \/ Reattach \/ ReaderExited \/ Dismissed \/ Join \/ Over
             \/ \E c \in Conns : Dies(c)
    BY <2>2, HoldingStep
  <2>3. CASE UNCHANGED herVars
    BY <2>3 DEF herVars, senderVars, readerVars, Stream!wireVars
  <2> QED BY <2>1, <2>2, <2>3 DEF Next
<1>4. EndInv => Numbered
  BY DEF EndInv
<1> QED
  BY <1>1, <1>2, <1>3, <1>4, InOrderStep, HerdrTypeCorrect, OneTerminalHeldThm, EndInvariance,
     PTL DEF Spec, KeepsWirePromise, Stream!Spec
=============================================================================
