--------------------------- MODULE AttachPromise ---------------------------
(***************************************************************************)
(* What eviction promises the clients of muxrd, whatever tables and        *)
(* signals it is made of: of the attaches of one client view (one key) at  *)
(* most one is live, a live one gives way only to one that arrived later,  *)
(* and only in favour of a later one is a finished setup turned away.      *)
(* AttachRegistry implements it.                                           *)
(***************************************************************************)
EXTENDS Integers

CONSTANTS Attaches, NoKey, KeyOf

VARIABLES
  phase,   \* how far each attach has come
  stamp    \* its arrival stamp, 0 before it arrived

promiseVars == <<phase, stamp>>

(* A dismissed attach still has to wind down; it never becomes live again. *)
Phases == {"new", "setup", "live", "dismissed", "gone"}

Init ==
  /\ phase = [a \in Attaches |-> "new"]
  /\ stamp = [a \in Attaches |-> 0]

(* The live attaches of the client view of a. *)
Rivals(a) ==
  {b \in Attaches \ {a} : phase[b] = "live" /\ KeyOf[b] = KeyOf[a] /\ KeyOf[a] # NoKey}

Moves(a, from, to) == phase[a] \in from /\ phase' = [phase EXCEPT ![a] = to]

(* Arrivals are ordered. *)
Arrive(a) ==
  /\ Moves(a, {"new"}, "setup")
  /\ \A b \in Attaches : stamp[b] < stamp'[a]
  /\ stamp' = [stamp EXCEPT ![a] = stamp'[a]]

(* A setup fails or is cancelled, and no other attach is touched. *)
GiveUp(a) == Moves(a, {"setup"}, "gone") /\ UNCHANGED stamp

(* A later arrival takes over from the live one, if there is one. *)
Enter(a) ==
  /\ phase[a] = "setup"
  /\ \A b \in Rivals(a) : stamp[b] < stamp[a]
  /\ phase' = [b \in Attaches |-> IF b = a THEN "live"
                                  ELSE IF b \in Rivals(a) THEN "dismissed" ELSE phase[b]]
  /\ UNCHANGED stamp

(* A late-comer is turned away. *)
Refuse(a) ==
  /\ \E b \in Rivals(a) : stamp[b] > stamp[a]
  /\ Moves(a, {"setup"}, "dismissed")
  /\ UNCHANGED stamp

Leave(a) == Moves(a, {"live", "dismissed"}, "gone") /\ UNCHANGED stamp

Next == \E a \in Attaches : Arrive(a) \/ GiveUp(a) \/ Enter(a) \/ Refuse(a) \/ Leave(a)

Spec == Init /\ [][Next]_promiseVars

-----------------------------------------------------------------------------
(* Of the attaches of one client view at most one is live: a client never  *)
(* has two relays un-evicted (types.rs, AttachRegistry).                   *)
AtMostOneLive ==
  \A a, b \in Attaches :
    phase[a] = "live" /\ phase[b] = "live" /\ KeyOf[a] = KeyOf[b] /\ KeyOf[a] # NoKey => a = b
=============================================================================
