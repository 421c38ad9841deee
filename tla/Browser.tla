------------------------------ MODULE Browser ------------------------------
(***************************************************************************)
(* What the pages of one browser share: the queue of its server actions.   *)
(*                                                                         *)
(* Next.js sends the server actions of a browser one after the other: a    *)
(* request waits until the answer to the one before it was delivered, and  *)
(* an answer brings the page rendered after the action.  Nothing disables  *)
(* a button meanwhile, since startTransition is given a function that      *)
(* returns at once: useTransition's `pending` falls before the answer.     *)
(***************************************************************************)
EXTENDS Integers, Sequences, FiniteSets, TLC

CONSTANTS
  MaxSending,  \* bound: requests waiting or in flight
  MaxLost      \* bound: statements and requests that fail

VARIABLES
  sending,  \* the server actions of the browser, the first one in flight
  lost      \* failures so far

browserVars == <<sending, lost>>

(* The fields of f, and those of g that f lacks.                           *)
Over(f, g) == [x \in DOMAIN f \cup DOMAIN g |-> IF x \in DOMAIN f THEN f[x] ELSE g[x]]

CanSend == Len(sending) < MaxSending

Sent(request) == Append(sending, Over(request, [at |-> "sent"]))

InFlight(kind, at) ==
  sending # <<>> /\ sending[1].kind = kind /\ sending[1].at = at

(* runAction: the answer is the value, or the refusal that was caught.     *)
Accepted(request, answer) ==
  Over(Over([request EXCEPT !.at = "answered"], [ok |-> TRUE]), answer)

Refused(request) == Over([request EXCEPT !.at = "answered"], [ok |-> FALSE])

(* The request in flight becomes r.                                        *)
Becomes(r) == sending' = [sending EXCEPT ![1] = r]

Answered(kind) == InFlight(kind, "answered")

Fails == lost < MaxLost /\ lost' = lost + 1

(* The promise is rejected: by what is not an AppError, ...                *)
Rejected(request) == Over(Refused(request), [thrown |-> TRUE])

FailRequest ==
  /\ sending # <<>> /\ sending[1].at # "answered"
  /\ Fails
  /\ Becomes(Rejected(sending[1]))

(* ... or because the answer to what was done is lost.                     *)
LoseAnswer ==
  /\ sending # <<>> /\ sending[1].at = "answered" /\ sending[1].ok
  /\ Fails
  /\ Becomes(Over([sending[1] EXCEPT !.ok = FALSE], [thrown |-> TRUE]))

BrowserInit == sending = <<>> /\ lost = 0
=============================================================================
