--------------------------- MODULE OrderSubmission ---------------------------
(***************************************************************************)
(* The order page of a browser, its requests, and the idempotent creation  *)
(* they reach.                                                             *)
(*                                                                         *)
(* The page keeps a draft and, while a submission waits for its answer,    *)
(* the key it was sent with.  The submit button is disabled while the last *)
(* request is unanswered, but only from the next rendering on: a second    *)
(* click can come before it.  A request can be answered, fail, or time out *)
(* in the browser and reach the server all the same.                       *)
(***************************************************************************)
EXTENDS Integers, Sequences

CONSTANTS Payloads,        \* the item lists a draft can hold
          MaxSubmissions   \* bound: requests sent

ASSUME SubmissionAssumption ==
  /\ "blank" \notin Payloads
  /\ MaxSubmissions \in Nat

VARIABLES
  draft,     \* the form
  pending,   \* pendingSubmission
  disabled,  \* the button, as it was last rendered
  watched,   \* the request whose state the page shows, 0 if none
  requests,  \* every request, in the order they were sent
  placed,    \* keys of the orders created
  round      \* history: answers and resets divide the clicks into rounds

pageVars == <<draft, pending, disabled, watched, requests, placed, round>>

NoSubmission == [key |-> 0]

PageInit ==
  /\ draft = "blank"
  /\ pending = NoSubmission
  /\ disabled = FALSE
  /\ watched = 0
  /\ requests = <<>>
  /\ placed = {}
  /\ round = 1

Sent == 1..Len(requests)

(* "sent" and "left": not served yet, the latter without a page that waits *)
(* for the answer.  "created" and "refused": the answer is on its way.     *)
(* "settling": the order is acknowledged, and onSuccess awaits the lists   *)
(* it invalidated. *)
Unanswered ==
  {i \in Sent : requests[i].stage \in {"sent", "created", "refused", "settling"}}

IsPending == watched \in Unanswered

Becomes(i, stage) == requests' = [requests EXCEPT ![i].stage = stage]

(* The next round begins, if anything was sent in this one. *)
NextRound == round' = IF \E i \in Sent : requests[i].round = round THEN round + 1 ELSE round

-----------------------------------------------------------------------------
(* The user.  Filling in the form takes longer than it takes to show that  *)
(* a request is pending. *)
UpdateItems(p) ==
  /\ IsPending => disabled
  /\ draft # p
  /\ draft' = p
  /\ UNCHANGED <<pending, disabled, watched, requests, placed, round>>

FreshKey == 1 + Len(requests)

(* Defect: every click draws a key. *)
PrepareAlwaysFresh == [key |-> FreshKey, fingerprint |-> draft]

PrepareOrderSubmission ==
  IF pending # NoSubmission /\ pending.fingerprint = draft
  THEN pending
  ELSE [key |-> FreshKey, fingerprint |-> draft]

(* The key is rendered at once, the button with the state of the request. *)
HandleCreateOrder ==
  /\ draft # "blank"
  /\ ~ disabled
  /\ Len(requests) < MaxSubmissions
  /\ LET submission == PrepareOrderSubmission IN
       /\ pending' = submission
       /\ requests' = Append(requests, [key |-> submission.key, payload |-> draft,
                                        round |-> round, stage |-> "sent"])
  /\ watched' = Len(requests) + 1
  /\ UNCHANGED <<draft, disabled, placed, round>>

Render ==
  /\ disabled # IsPending
  /\ disabled' = IsPending
  /\ UNCHANGED <<draft, pending, watched, requests, placed, round>>

HandleResetForm ==
  /\ <<draft, pending>> # <<"blank", NoSubmission>>
  /\ draft' = "blank"
  /\ pending' = NoSubmission
  /\ NextRound
  /\ UNCHANGED <<disabled, watched, requests, placed>>

(* The page is left, by the user or because the session has ended, and     *)
(* opened again: its state is gone, and so is whoever waits for answers. *)
LeavePage ==
  /\ Unanswered # {}
  /\ draft' = "blank"
  /\ pending' = NoSubmission
  /\ disabled' = FALSE
  /\ watched' = 0
  /\ requests' = [i \in Sent |->
                    [requests[i] EXCEPT !.stage = CASE @ = "sent" -> "left"
                                                    [] @ \in {"created", "refused", "settling"} -> "answered"
                                                    [] OTHER -> @]]
  /\ NextRound
  /\ UNCHANGED placed

-----------------------------------------------------------------------------
(* The server. *)
Served(i, stage) ==
  /\ requests[i].stage \in {"sent", "left"}
  /\ Becomes(i, IF requests[i].stage = "sent" THEN stage ELSE "answered")
  /\ UNCHANGED <<draft, pending, disabled, watched, round>>

CreateOrder(i) ==
  /\ Served(i, "created")
  /\ placed' = placed \union {requests[i].key}

RefuseOrder(i) ==
  /\ Served(i, "refused")
  /\ UNCHANGED placed

-----------------------------------------------------------------------------
(* The callbacks of the mutation; they run for every request, watched or   *)
(* not. *)

(* onSuccess up to its await: the page has its new state at once, the      *)
(* mutation is pending until the lists have been fetched again. *)
OnSuccess(i) ==
  /\ requests[i].stage = "created"
  /\ Becomes(i, "settling")
  /\ draft' = "blank"
  /\ pending' = NoSubmission
  /\ NextRound
  /\ UNCHANGED <<disabled, watched, placed>>

(* The awaited fetches have ended. *)
Settle(i) ==
  /\ requests[i].stage = "settling"
  /\ Becomes(i, "answered")
  /\ UNCHANGED <<draft, pending, disabled, watched, placed, round>>

(* onError, for an answer that says so. *)
OnError(i) ==
  /\ requests[i].stage = "refused"
  /\ Becomes(i, "answered")
  /\ pending' = NoSubmission
  /\ NextRound
  /\ UNCHANGED <<draft, disabled, watched, placed>>

(* Defect: requests have no time limit. *)
NoTimeout(i) ==
  /\ FALSE
  /\ UNCHANGED pageVars

(* onError, when no answer has come in time: the server may still serve    *)
(* the request. *)
OnTimeout(i) ==
  /\ requests[i].stage \in {"sent", "created"}
  /\ Becomes(i, IF requests[i].stage = "sent" THEN "left" ELSE "answered")
  /\ pending' = NoSubmission
  /\ NextRound
  /\ UNCHANGED <<draft, disabled, watched, placed>>

-----------------------------------------------------------------------------
Use == (\E p \in Payloads : UpdateItems(p)) \/ HandleCreateOrder \/ HandleResetForm \/ LeavePage

Answer(i) == OnSuccess(i) \/ OnError(i) \/ OnTimeout(i)

(* Requests time out, the fetches of lists among them, and pages are       *)
(* rendered; the server need not answer. *)
PageFairness ==
  /\ WF_pageVars(Render)
  /\ WF_pageVars(\E i \in Sent : Answer(i) \/ Settle(i))

-----------------------------------------------------------------------------
(* Clicks that no answer and no reset lies between carry one key, however  *)
(* late the button is disabled, so that they make one order; a click after *)
(* an answer or a reset carries a key of its own, so that ordering the     *)
(* same again is a new order and not a replay of the last one. *)
KeyPerRound ==
  \A i, j \in Sent :
    requests[i].key = requests[j].key <=> requests[i].round = requests[j].round

(* The button does not stay disabled, although the server may never answer. *)
ButtonComesBack == disabled ~> ~ disabled
=============================================================================
