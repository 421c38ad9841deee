----------------------------- MODULE MCClients -----------------------------
(***************************************************************************)
(* Three instances side by side: the client rows (scene "client"), the     *)
(* entites of a client (scene "entite") and their contacts (scene          *)
(* "contact").  No request writes two of these tables but the creation of  *)
(* a client, so only one of them moves in a behaviour.                     *)
(***************************************************************************)
EXTENDS ClientLifecycle, Dossier, TLC

CONSTANTS k1, k2, n1, n2, badName, contact, x1

VARIABLE scene

mcVars == <<scene, clientVars, dossierVars>>

Codes == {k1, k2}
Names == {n1, n2, badName}
Bad == {badName}
Fields == {contact}
Values == {x1}

NoProfile == [f \in Fields |-> Null]

MCNewInput ==
  [code : Codes, raison : {n1, badName}, profile : {NoProfile},
   statut : {"ACTIF"}]

MCPatchInput ==
  {[raison |-> badName, profile |-> [f \in Fields |-> Keep]],
   [raison |-> n2, profile |-> [f \in Fields |-> Keep]],
   [raison |-> Keep, profile |-> [f \in Fields |-> x1]]}

MCInit == ClientInit /\ DossierInit /\ scene \in {"client", "entite", "contact"}

MCNext ==
  \/ scene = "client" /\ ClientNext /\ UNCHANGED <<scene, dossierVars>>
  \/ scene = "entite" /\ EntiteNext /\ UNCHANGED <<scene, clientVars>>
  \/ scene = "contact" /\ ContactNext /\ UNCHANGED <<scene, clientVars>>

MCSpec == MCInit /\ [][MCNext]_mcVars

Symmetry ==
  Permutations(Client) \cup Permutations(ClientSession)
    \cup Permutations(Entite) \cup Permutations(Nom)
=============================================================================
