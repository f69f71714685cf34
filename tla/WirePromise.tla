---------------------------- MODULE WirePromise ----------------------------
(***************************************************************************)
(* What moving a herdr relay from one terminal to another promises herdr   *)
(* and the client, whatever threads, flags and channels it takes: the      *)
(* terminal held is let go before another one is taken, the client is      *)
(* shown the connections in the order they were opened and never goes back *)
(* to an earlier one, and a stream that has ended shows nothing any more.  *)
(* HerdrRelay implements it.                                               *)
(***************************************************************************)
EXTENDS Naturals

VARIABLES
  taken,   \* connections opened so far; they are numbered
  held,    \* those that hold a terminal
  shown    \* the one whose frames the client gets, or Nothing

wireVars == <<taken, held, shown>>

Nothing == 0

(* The relay starts attached. *)
Init == taken = 1 /\ held = {1} /\ shown = 1

Take ==
  /\ held = {}
  /\ taken' = taken + 1
  /\ held' = {taken'}
  /\ UNCHANGED shown

(* Released by muxrd, or ended by herdr. *)
LetGo ==
  /\ held # {}
  /\ held' = {}
  /\ UNCHANGED <<taken, shown>>

(* The client's stream goes on with a later connection ... *)
Adopt ==
  /\ shown # Nothing
  /\ shown' \in (shown + 1)..taken
  /\ UNCHANGED <<taken, held>>

(* ... or ends. *)
End ==
  /\ shown # Nothing
  /\ shown' = Nothing
  /\ UNCHANGED <<taken, held>>

Next == Take \/ LetGo \/ Adopt \/ End

Spec == Init /\ [][Next]_wireVars
=============================================================================
