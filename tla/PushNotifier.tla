--------------------------- MODULE PushNotifier ---------------------------
(***************************************************************************)
(* The outbound notifier of muxrd (muxrd/src/notify) and its device file,  *)
(* with the push relay it posts to, a phone, and another server that posts *)
(* to the same phone.                                                      *)
(*                                                                         *)
(* A trigger is a status change of one pane and one kind that passes the   *)
(* filter.  The file is read and written under an advisory lock: each of   *)
(* its operations is one step.  The phone is not in this repository: it    *)
(* registers at the relay, with the handle it holds if it still does, then *)
(* at muxrd, again and again.                                              *)
(***************************************************************************)
EXTENDS PushRelay

CONSTANTS
  Names,        \* device names
  NoRequest,    \* no request
  MaxUpsets     \* bound on what the user undoes

ASSUME NotifierAssumption ==
  /\ NoRequest \notin Requests
  /\ MaxUpsets \in Nat

VARIABLES
  listed,     \* device file: the handle of a device name, or NoHandle
  notifier,   \* where handle_event is
  todo,       \* devices of its snapshot still to be sent to, name and handle
  current,    \* the device it sends to
  retried,    \* the send is the second one
  call,       \* its request at the relay
  phone,      \* the handle the phone holds
  told,       \* the phone has a registration for muxrd to make
  upsets,     \* what the user has undone
  fresh       \* history: the phone has registered that device since

fileVars     == <<listed, upsets>>
notifierVars == <<notifier, todo, current, retried, call>>
phoneVars    == <<phone, told>>
pushVars     == <<relayVars, fileVars, notifierVars, phoneVars, fresh>>

Devices   == Names \X Handles
Notifying == {"idle", "send", "wait", "pause", "prune"}

NotifierTypeOK ==
  /\ listed \in [Names -> Handles \cup {NoHandle}]
  /\ notifier \in Notifying
  /\ todo \in SUBSET Devices
  /\ current \in Handles \cup {NoHandle}
  /\ retried \in BOOLEAN
  /\ call \in Requests \cup {NoRequest}
  /\ phone \in Handles \cup {NoHandle}
  /\ told \in BOOLEAN
  /\ upsets \in 0..MaxUpsets
  /\ fresh \in BOOLEAN

NotifierInit ==
  /\ Init
  /\ listed = [n \in Names |-> NoHandle]
  /\ notifier = "idle" /\ todo = {} /\ current = NoHandle /\ retried = FALSE
  /\ call = NoRequest
  /\ phone = NoHandle /\ told = FALSE
  /\ upsets = 0 /\ fresh = FALSE

-----------------------------------------------------------------------------
(* The phone and its user. *)

Registers ==
  /\ ~told
  /\ \/ phone \in known /\ Refresh(phone) /\ UNCHANGED phone
     \/ phone \notin known /\ \E h \in Handles : Mint(h) /\ phone' = h
  /\ told' = TRUE
  /\ fresh' = (fresh \/ (notifier \in {"wait", "prune"} /\ current = phone'))
  /\ UNCHANGED <<fileVars, notifierVars>>

(* Wrong: a name in the file keeps its handle. *)
RegisterKeepsOld(n) ==
  /\ told
  /\ listed' = [listed EXCEPT ![n] = IF @ = NoHandle THEN phone ELSE @]
  /\ told' = FALSE
  /\ UNCHANGED <<relayVars, upsets, notifierVars, phone, fresh>>

(* RegisterPushTarget: upsert, by device name. *)
RegisterPushTarget(n) ==
  /\ told
  /\ listed' = [listed EXCEPT ![n] = phone]
  /\ told' = FALSE
  /\ UNCHANGED <<relayVars, upsets, notifierVars, phone, fresh>>

Upset == upsets < MaxUpsets /\ upsets' = upsets + 1

(* The app deletes its registration, or loses the handle it held. *)
Unregisters ==
  /\ Upset
  /\ phone \in Handles /\ ~told
  /\ phone' = NoHandle
  /\ \/ Delete(phone)
     \/ UNCHANGED relayVars
  /\ UNCHANGED <<listed, notifierVars, told, fresh>>

(* RemovePushTarget: remove_by_name. *)
RemovePushTarget(n) ==
  /\ Upset
  /\ listed[n] # NoHandle
  /\ listed' = [listed EXCEPT ![n] = NoHandle]
  /\ UNCHANGED <<relayVars, notifierVars, phoneVars, fresh>>

-----------------------------------------------------------------------------
(* handle_event *)

ListedDevices == {d \in Devices : listed[d[1]] = d[2]}

(* An event that is neither debounced nor without a device to send to.  The *)
(* file is read once per event.                                            *)
FanOut ==
  /\ notifier = "idle"
  /\ ListedDevices # {}
  /\ todo' = ListedDevices
  /\ notifier' = "send"
  /\ UNCHANGED <<relayVars, fileVars, current, retried, call, phoneVars, fresh>>

Posts(h) ==
  /\ \E q \in Requests : Post(q, h) /\ at'[q] # "free" /\ call' = q
  /\ notifier' = "wait"
  /\ fresh' = FALSE

Send ==
  /\ notifier = "send"
  /\ \E d \in todo : Posts(d[2]) /\ todo' = todo \ {d} /\ current' = d[2]
  /\ UNCHANGED <<fileVars, retried, phoneVars>>

(* After RETRY_DELAY. *)
Retry ==
  /\ notifier = "pause"
  /\ Posts(current)
  /\ retried' = TRUE
  /\ UNCHANGED <<fileVars, todo, current, phoneVars>>

(* On to the next device, or to the next event. *)
Dropped ==
  /\ notifier' = IF todo = {} THEN "idle" ELSE "send"
  /\ current' = NoHandle /\ retried' = FALSE /\ fresh' = FALSE

(* One retry of a transient failure. *)
Transient ==
  IF retried THEN Dropped
             ELSE notifier' = "pause" /\ fresh' = FALSE /\ UNCHANGED <<current, retried>>

(* Wrong: whatever is not a success prunes. *)
AnswerPrunes ==
  /\ notifier = "wait"
  /\ call' = NoRequest
  /\ Responded(call)
  /\ IF answer[call] \in {"gone", "limited"}
       THEN notifier' = "prune" /\ UNCHANGED <<current, retried, fresh>>
       ELSE Dropped
  /\ UNCHANGED <<fileVars, todo, phoneVars>>

(* The answer is read. *)
Answer ==
  /\ notifier = "wait"
  /\ call' = NoRequest
  /\ Responded(call)
  /\ \/ answer[call] = "gone" /\ notifier' = "prune"
                             /\ UNCHANGED <<current, retried, fresh>>
     \/ answer[call] = "failed" /\ Transient
     \/ answer[call] \in {"ok", "limited"} /\ Dropped
  /\ UNCHANGED <<fileVars, todo, phoneVars>>

(* REQUEST_TIMEOUT.  The relay is not told; its handler may go on. *)
HangUp ==
  /\ notifier = "wait"
  /\ call' = NoRequest
  /\ Transient
  /\ IF at[call] = "answered" THEN Responded(call) ELSE UNCHANGED relayVars
  /\ UNCHANGED <<fileVars, todo, phoneVars>>

(* remove_by_handle: every device of that handle, and whatever the file    *)
(* says by now.  A file that cannot be written is logged.                  *)
Prune ==
  /\ notifier = "prune"
  /\ \/ listed' = [n \in Names |-> IF listed[n] = current THEN NoHandle
                                                          ELSE listed[n]]
     \/ UNCHANGED listed
  /\ Dropped
  /\ UNCHANGED <<relayVars, upsets, todo, call, phoneVars>>

-----------------------------------------------------------------------------
Elsewhere == UNCHANGED <<fileVars, notifierVars, phoneVars, fresh>>

(* An answer is kept for the notifier alone: nobody here reads the others. *)
RelayServes(q) ==
  Serve(q) /\ (at'[q] = "answered" => q = call) /\ (at'[q] = "free" => q # call)
  /\ Elsewhere
(* Another server posts. *)
OtherPosts(q, h) == Post(q, h) /\ at'[q] # "answered" /\ Elsewhere

NotifierStep ==
  \/ FanOut \/ Send \/ Retry \/ Answer \/ HangUp \/ Prune
NotifierNext ==
  \/ Registers \/ (\E n \in Names : RegisterPushTarget(n))
  \/ Unregisters \/ (\E n \in Names : RemovePushTarget(n))
  \/ NotifierStep
  \/ (\E q \in Requests : RelayServes(q))
  \/ (\E q \in Requests, h \in minted : OtherPosts(q, h))
  \/ (Rotate \/ NextDay) /\ Elsewhere

NotifierSpec == NotifierInit /\ [][NotifierNext]_pushVars
(* The relay and the notifier run; the phone registers again and again.    *)
FairNotifierSpec ==
  /\ NotifierSpec
  /\ \A q \in Requests : WF_pushVars(RelayServes(q))
  /\ WF_pushVars(NotifierStep)
  /\ WF_pushVars(Registers)
  /\ WF_pushVars(\E n \in Names : RegisterPushTarget(n))

-----------------------------------------------------------------------------
(* The relay would forward to the phone what is posted to h. *)
Reaches(h) == h \in known \ pruned /\ token[h] = fcmToken

(***************************************************************************)
(* muxrd drops a device that could be reached only if the phone has        *)
(* registered its handle again since the notification was sent.            *)
(***************************************************************************)
DropsOnlyTheGone ==
  [][Prune => \A n \in Names :
        listed[n] # listed'[n] /\ Reaches(listed[n]) => fresh]_pushVars

(***************************************************************************)
(* Whatever is pruned, dropped, refused or lost on the way: once the user  *)
(* and FCM leave the phone alone, it becomes reachable and stays so.       *)
(***************************************************************************)
Recovers == <>[](\E n \in Names : listed[n] = phone /\ Reaches(phone))
=============================================================================
