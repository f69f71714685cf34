---------------------------- MODULE HerdrRelay ----------------------------
(***************************************************************************)
(* One relay on herdr (muxrd/src/multiplexer/herdr/relay.rs).  A wire      *)
(* connection shows one terminal, so every move to another tab, pane or    *)
(* space replaces the connection under the running reader thread: the      *)
(* sender, on the blocking pool, releases the old one and hands a new one  *)
(* to the reader.                                                          *)
(*                                                                         *)
(* Connections are numbered as they are opened.  Frames, terminals and the *)
(* protocol version do not matter to the swap.  Time is counted only while *)
(* the reader waits for a swap, in seconds.                                *)
(***************************************************************************)
EXTENDS Naturals, Sequences, FiniteSets

CONSTANTS
  MaxConns,      \* bound on the connections opened
  MaxQueued,     \* bound on the swaps no reader has taken
  MaxAttempts,   \* RECONNECT_ATTEMPTS
  PingTime,      \* what the protocol re-discovery takes when it times out
  AttemptTime,   \* what one slow connect and handshake takes
  Grace          \* SWAP_GRACE

ASSUME HerdrAssumption ==
  /\ MaxConns \in Nat \ {0}
  /\ MaxQueued \in Nat \ {0}
  /\ MaxAttempts \in Nat \ {0}
  /\ PingTime \in Nat
  /\ AttemptTime \in Nat
  /\ Grace \in Nat \ {0}

VARIABLES
  sender,     \* where reattach is
  attempts,   \* failed attempts of the reattach under way
  wire,       \* the connection of the shared write half
  conns,      \* connections opened so far
  pending,    \* swap_pending
  swaps,      \* the swap channel
  reader,     \* where the reader is in recv and try_adopt_swap
  reading,    \* the connection of the reader's half
  waited,     \* seconds in recv_timeout
  open,       \* connections that neither muxrd nor herdr has closed
  relay,      \* the inbound task that owns the sender and the guard
  readOnly,   \* the attach observes
  died,       \* connections that ended on herdr's side
  exhausted   \* history: a reattach ran out of attempts

senderVars == <<sender, attempts, wire, conns>>
readerVars == <<reader, reading>>
swapVars   == <<pending, swaps, waited>>
herVars    == <<senderVars, readerVars, swapVars, open, relay, readOnly, died,
                exhausted>>

Conns    == 1..MaxConns
Sentinel == 0               \* None on the swap channel: the reconnect failed
Senders  == {"idle", "armed", "connect", "connected", "installed",
             "exhausted", "handed"}
Readers  == {"recv", "look", "check", "waiting", "ended", "gone"}

TypeOK ==
  /\ sender \in Senders
  /\ attempts \in 0..MaxAttempts
  /\ wire \in Conns
  /\ conns \in Conns
  /\ pending \in BOOLEAN
  /\ swaps \in Seq(Conns \cup {Sentinel})
  /\ reader \in Readers
  /\ reading \in Conns
  /\ waited \in 0..Grace
  /\ open \in SUBSET Conns
  /\ relay \in {"serving", "leaving", "done"}
  /\ readOnly \in BOOLEAN
  /\ died \in SUBSET Conns
  /\ exhausted \in BOOLEAN

(* open_attach: connected, attached, split. *)
Init ==
  /\ sender = "idle" /\ attempts = 0
  /\ wire = 1 /\ conns = 1
  /\ pending = FALSE /\ swaps = <<>>
  /\ reader = "recv" /\ reading = 1 /\ waited = 0
  /\ open = {1}
  /\ relay = "serving"
  /\ readOnly \in BOOLEAN
  /\ died = {} /\ exhausted = FALSE

-----------------------------------------------------------------------------
(* reattach.  It runs inside one operation of the inbound loop, which does *)
(* nothing else meanwhile.                                                 *)

SenderMoves(from, to) == sender = from /\ sender' = to

(* Time passes for a reader whose recv_timeout has nothing to return. *)
Elapses(seconds) ==
  waited' = IF reader = "waiting" /\ swaps = <<>> /\ waited + seconds < Grace
              THEN waited + seconds
              ELSE IF reader = "waiting" /\ swaps = <<>> THEN Grace ELSE waited

(* Wrong: the flag is raised with the hand-over only. *)
ArmLate ==
  /\ relay = "serving" /\ conns < MaxConns /\ Len(swaps) < MaxQueued
  /\ SenderMoves("idle", "armed")
  /\ attempts' = 0
  /\ UNCHANGED <<wire, conns, swapVars, readerVars, open, relay, readOnly,
                 died, exhausted>>

(* The target has been resolved.  The flag is up before the release. *)
Arm ==
  /\ relay = "serving" /\ conns < MaxConns /\ Len(swaps) < MaxQueued
  /\ SenderMoves("idle", "armed")
  /\ attempts' = 0
  /\ pending' = TRUE
  /\ UNCHANGED <<wire, conns, swaps, waited, readerVars, open, relay, readOnly,
                 died, exhausted>>

(* Wrong: Detach alone; herdr keeps the socket of a detached client. *)
ReleaseKeepsSocket ==
  /\ SenderMoves("armed", "connect")
  /\ UNCHANGED <<attempts, wire, conns, swapVars, readerVars, open, relay,
                 readOnly, died, exhausted>>

(* Detach and shut down the old connection, whatever herdr makes of it. *)
Release ==
  /\ SenderMoves("armed", "connect")
  /\ open' = open \ {wire}
  /\ UNCHANGED <<attempts, wire, conns, swapVars, readerVars, relay, readOnly,
                 died, exhausted>>

(* One pass of the loop: the protocol is asked for again, then a fresh     *)
(* connection is opened and attached.                                      *)
AttemptWorks ==
  /\ conns < MaxConns
  /\ SenderMoves("connect", "connected")
  /\ conns' = conns + 1
  /\ open' = open \cup {conns + 1}
  /\ \E p \in {0, PingTime}, a \in {0, AttemptTime} : Elapses(p + a)
  /\ UNCHANGED <<attempts, wire, pending, swaps, readerVars, relay, readOnly,
                 died, exhausted>>

(* Wrong: what fails after the connect leaves its socket open. *)
AttemptFailsAttached ==
  /\ sender = "connect" /\ conns < MaxConns
  /\ attempts' = attempts + 1
  /\ sender' = IF attempts + 1 < MaxAttempts THEN "connect" ELSE "exhausted"
  /\ exhausted' = (sender' = "exhausted" \/ exhausted)
  /\ conns' = conns + 1 /\ open' = open \cup {conns + 1}
  /\ \E p \in {0, PingTime}, a \in {0, AttemptTime} : Elapses(p + a)
  /\ UNCHANGED <<wire, pending, swaps, readerVars, relay, readOnly, died>>

AttemptFails ==
  /\ sender = "connect"
  /\ attempts' = attempts + 1
  /\ sender' = IF attempts + 1 < MaxAttempts THEN "connect" ELSE "exhausted"
  /\ exhausted' = (sender' = "exhausted" \/ exhausted)
  /\ \E p \in {0, PingTime}, a \in {0, AttemptTime} : Elapses(p + a)
  /\ UNCHANGED <<wire, conns, pending, swaps, readerVars, open, relay,
                 readOnly, died>>

(* The write half is replaced under the mutex. *)
Install ==
  /\ SenderMoves("connected", "installed")
  /\ wire' = conns
  /\ UNCHANGED <<attempts, conns, swapVars, readerVars, open, relay, readOnly,
                 died, exhausted>>

(* The reader gets its half.  The send fails if its end is dropped. *)
HandOver ==
  /\ SenderMoves("installed", "handed")
  /\ swaps' = IF reader = "gone" THEN swaps ELSE Append(swaps, wire)
  /\ UNCHANGED <<attempts, wire, conns, pending, waited, readerVars, open,
                 relay, readOnly, died, exhausted>>

SendSentinel ==
  /\ SenderMoves("exhausted", "handed")
  /\ swaps' = IF reader = "gone" THEN swaps ELSE Append(swaps, Sentinel)
  /\ UNCHANGED <<attempts, wire, conns, pending, waited, readerVars, open,
                 relay, readOnly, died, exhausted>>

Disarm ==
  /\ SenderMoves("handed", "idle")
  /\ pending' = FALSE
  /\ UNCHANGED <<attempts, wire, conns, swaps, waited, readerVars, open, relay,
                 readOnly, died, exhausted>>

-----------------------------------------------------------------------------
(* The reader thread: recv and try_adopt_swap. *)

ReaderMoves(from, to) == reader = from /\ reader' = to

(* recv_from saw the end of the stream, or a frame it cannot go on after. *)
SeeEnd ==
  /\ reading \notin open
  /\ ReaderMoves("recv", "look")
  /\ UNCHANGED <<senderVars, reading, swapVars, open, relay, readOnly, died,
                 exhausted>>

(* A frame, the answer to the teardown nudge: recv returns, the stop flag  *)
(* is up.                                                                  *)
SeeStop ==
  /\ relay = "leaving" /\ reading \in open
  /\ ReaderMoves("recv", "ended")
  /\ UNCHANGED <<senderVars, reading, swapVars, open, relay, readOnly, died,
                 exhausted>>

TakeSwap ==
  /\ swaps # <<>>
  /\ swaps' = Tail(swaps)
  /\ waited' = 0
  /\ IF Head(swaps) = Sentinel
       THEN reader' = "ended" /\ UNCHANGED reading
       ELSE reader' = "recv" /\ reading' = Head(swaps)
  /\ UNCHANGED <<senderVars, pending, open, relay, readOnly, died, exhausted>>

(* try_recv: what is in the channel is taken first. *)
LookFinds == reader = "look" /\ TakeSwap

LookFindsNothing ==
  /\ swaps = <<>>
  /\ ReaderMoves("look", "check")
  /\ UNCHANGED <<senderVars, reading, swapVars, open, relay, readOnly, died,
                 exhausted>>

(* swap_pending is loaded after the channel was found empty. *)
Check ==
  /\ reader = "check"
  /\ reader' = IF pending THEN "waiting" ELSE "ended"
  /\ UNCHANGED <<senderVars, reading, swapVars, open, relay, readOnly, died,
                 exhausted>>

(* recv_timeout *)
WaitEnds == reader = "waiting" /\ waited < Grace /\ TakeSwap

(* No reattach is under way: nothing is coming, and the wait goes on. *)
WaitsInVain ==
  /\ reader = "waiting" /\ swaps = <<>> /\ sender = "idle"
  /\ waited < Grace
  /\ waited' = Grace
  /\ UNCHANGED <<senderVars, readerVars, pending, swaps, open, relay, readOnly,
                 died, exhausted>>

GraceExpires ==
  /\ waited = Grace
  /\ ReaderMoves("waiting", "ended")
  /\ UNCHANGED <<senderVars, reading, swapVars, open, relay, readOnly, died,
                 exhausted>>

(* render_loop returns: the receiver and all it holds is dropped. *)
DropReceiver ==
  /\ ReaderMoves("ended", "gone")
  /\ swaps' = <<>>
  /\ UNCHANGED <<senderVars, reading, pending, waited, open, relay, readOnly,
                 died, exhausted>>

-----------------------------------------------------------------------------
(* The inbound task, between two operations, and herdr. *)

(* It leaves its loop: the stop flag goes up, the guard nudges the reader  *)
(* through the connection of the moment.                                   *)
Leave ==
  /\ relay = "serving" /\ sender = "idle"
  /\ relay' = "leaving"
  /\ open' = IF readOnly THEN open \ {wire} ELSE open
  /\ UNCHANGED <<senderVars, readerVars, swapVars, readOnly, died, exhausted>>

ReaderExited == reader \in {"ended", "gone"} /\ Leave   \* READER_EXIT_POLL
Dismissed    == Leave                                   \* any other reason

(* Wrong: a guard that keeps its clone of the sender. *)
JoinKeepsSocket ==
  /\ relay = "leaving" /\ reader = "gone"
  /\ relay' = "done"
  /\ UNCHANGED <<senderVars, readerVars, swapVars, open, readOnly, died,
                 exhausted>>

(* The thread is joined; the last halves are dropped. *)
Join ==
  /\ relay = "leaving" /\ reader = "gone"
  /\ relay' = "done"
  /\ open' = {}
  /\ UNCHANGED <<senderVars, readerVars, swapVars, readOnly, died, exhausted>>

(* herdr ends a connection, or sends what cannot be decoded. *)
Dies(c) ==
  /\ c \in open
  /\ open' = open \ {c}
  /\ died' = died \cup {c}
  /\ UNCHANGED <<senderVars, readerVars, swapVars, relay, readOnly, exhausted>>

Over == relay = "done" /\ UNCHANGED herVars

-----------------------------------------------------------------------------
Reattach ==
  \/ Release \/ AttemptWorks \/ AttemptFails \/ Install \/ HandOver
  \/ SendSentinel \/ Disarm
ReaderStep ==
  \/ SeeEnd \/ SeeStop \/ LookFinds \/ LookFindsNothing \/ Check
  \/ WaitEnds \/ WaitsInVain \/ GraceExpires \/ DropReceiver
Next ==
  \/ Arm \/ Reattach \/ ReaderStep
  \/ ReaderExited \/ Dismissed \/ Join \/ Over
  \/ \E c \in Conns : Dies(c)

Spec == Init /\ [][Next]_herVars
(* Threads run, and every call of a reattach is bounded by a time-out.  The *)
(* inbound task polls its reader in one arm of a select! that tries its     *)
(* arms in random order: of the commands that keep coming not each can win. *)
FairSpec ==
  /\ Spec
  /\ WF_herVars(Reattach) /\ WF_herVars(ReaderStep)
  /\ SF_herVars(ReaderExited) /\ WF_herVars(Join)

-----------------------------------------------------------------------------
(***************************************************************************)
(* One terminal per wire connection, and one connection: whatever fails,   *)
(* a terminal is let go before the next is taken, so no pane keeps the     *)
(* size of a client that has moved on.  Between the two nothing is held.   *)
(***************************************************************************)
OneTerminalHeld ==
  open \subseteq IF sender \in {"connect", "exhausted"} THEN {}
                 ELSE IF sender = "connected" THEN {conns} ELSE {wire}

Stream == INSTANCE WirePromise
            WITH taken <- conns, held <- open,
                 shown <- IF reader \in {"ended", "gone"} THEN 0 ELSE reading

(***************************************************************************)
(* Sender and reader together keep WirePromise: terminals are taken one at *)
(* a time, each after the last was let go, and no connection is shown      *)
(* after a later one, however far the reader is behind (reattach,          *)
(* try_adopt_swap_within).                                                 *)
(***************************************************************************)
KeepsWirePromise == Stream!Spec

(***************************************************************************)
(* The reader ends the stream only if its connection really died, a        *)
(* reattach gave up, or the relay leaves -- or else a replacement lay in   *)
(* the channel when it ended, or it had waited the whole grace.            *)
(***************************************************************************)
Accounted == reading \in died \/ exhausted \/ relay # "serving"

EndsForAReason ==
  reader = "ended" => Accounted \/ swaps # <<>> \/ waited = Grace

(***************************************************************************)
(* "The reader must not misread the EOF as a genuine disconnect": a swap   *)
(* whose connection could be opened never ends the stream.                 *)
(***************************************************************************)
SwapNeverEndsStream == reader = "ended" => Accounted

(***************************************************************************)
(* The reader is never left on a connection the sender has moved off: once *)
(* no reattach is under way it reads what the sender writes to, or has     *)
(* ended.                                                                  *)
(***************************************************************************)
ReaderFollows ==
  (sender = "idle" /\ reading # wire)
     ~> (reading = wire \/ reader \in {"ended", "gone"})

(***************************************************************************)
(* A stream that ended lets go of its terminal, also if the connection     *)
(* was swapped in after the reader had ended.                              *)
(***************************************************************************)
EndedLetsGo == (reader = "ended") ~> (relay = "done" /\ open = {})
=============================================================================
