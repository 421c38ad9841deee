------------------------ MODULE MCLicenceLifecycle ------------------------
(***************************************************************************)
(* Instances of LicenceLifecycle for TLC: a scene of two requests beside   *)
(* the expire job, and a scene of the two jobs beside one request.         *)
(***************************************************************************)
EXTENDS LicenceLifecycle

VARIABLE scene

sceneVars == <<vars, scene>>

(* A licence that ends on the first night, and a later period to renew to. *)
MCPeriod == {[debut |-> 0, fin |-> 1], [debut |-> 1, fin |-> 3]}

MCShortPeriod == {[debut |-> 0, fin |-> 1]}

(* One patch of each kind: dates alone, the flag alone.                    *)
MCProfileInput ==
  {[debut |-> Keep, fin |-> 2, auto |-> Keep],
   [debut |-> Keep, fin |-> Keep, auto |-> TRUE]}

MCDatePatch == {[debut |-> Keep, fin |-> 4]}

NoInput == {}

OneRenouvellement == CHOOSE r \in Renouvellement : TRUE

OneSession == CHOOSE q \in Session : TRUE

(* Two requests at a time, one renouvellement, two days, no auto-renew.    *)
OfRequests ==
  /\ today' <= 2
  /\ UNCHANGED renewRuns
  /\ \A r \in Renouvellement \ {OneRenouvellement} : renouvellements'[r] = None

(* One request at a time, short periods, no date is patched.               *)
OfJobs ==
  /\ \A q \in Session \ {OneSession} : requests'[q] = Idle
  /\ \A q \in Session : requests'[q].op # "updateRenouvellement"
  /\ \A l \in Licence : licences[l] = None /\ licences'[l] # None => licences'[l].fin = 1
  /\ \A r \in Renouvellement :
       renouvellements[r] = None /\ renouvellements'[r] # None /\ UNCHANGED renewRuns
         => renouvellements'[r].fin = 1

MCInit == Init /\ scene \in {"requests", "jobs"}

MCNext ==
  /\ UNCHANGED scene
  /\ Next
  /\ IF scene = "requests" THEN OfRequests ELSE OfJobs

(* The bounds of a scene hold none of these steps back.                    *)
Goes(step) == step /\ UNCHANGED scene

MCFairness ==
  /\ \A x \in ExpireRun :
       WF_sceneVars(Goes(ExpireUpdate(x))) /\ WF_sceneVars(Goes(ExpireAudit(x)))
  /\ \A x \in RenewRun :
       /\ WF_sceneVars(scene = "jobs" /\ Goes(RenewSelect(x)))
       /\ WF_sceneVars(scene = "jobs" /\ Goes(\E r \in Renouvellement : RenewSave(x, r)))
       /\ WF_sceneVars(scene = "jobs" /\ Goes(RenewAudit(x)))

MCSpec == MCInit /\ [][MCNext]_sceneVars /\ MCFairness

(* Where the auto-renew job runs, what is eligible is proposed a           *)
(* renouvellement: EligibleProposed.                                       *)
JobsPropose == scene = "jobs" => EligibleProposed
=============================================================================
