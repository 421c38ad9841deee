---------------------------- MODULE AtomicClient ----------------------------
(***************************************************************************)
(* What the client table promises: every operation on a client happens at  *)
(* one instant, on the client as it stands at that instant.  There are no  *)
(* transactions, no stale pages and no versions to compare.                *)
(***************************************************************************)
EXTENDS ClientDomain

CONSTANTS Client, NoClient

VARIABLE clients

Init == clients = [c \in Client |-> NoClient]

(* The only row that changes is that of c, which is well formed after.     *)
Touches(c) ==
  /\ clients' = [clients EXCEPT ![c] = clients'[c]]
  /\ clients'[c] \in ClientRow

(* A new client has a code no other client has, and a certificate.         *)
Create(c) ==
  /\ clients[c] = NoClient
  /\ Touches(c)
  /\ clients'[c].version = 0 /\ clients'[c].certified
  /\ \A d \in Client : clients[d] # NoClient => clients[d].code # clients'[c].code

(* An edit leaves alone the code, the statut and the certificate.          *)
Edit(c) ==
  /\ clients[c] # NoClient
  /\ Touches(c)
  /\ clients'[c] = [clients[c] EXCEPT !.raison = clients'[c].raison,
                                      !.profile = clients'[c].profile,
                                      !.version = @ + 1]

ChangeStatut(c) ==
  /\ clients[c] # NoClient
  /\ Touches(c)
  /\ ClientCanTransition(clients[c].statut, clients'[c].statut)
  /\ clients'[c] = [clients[c] EXCEPT !.statut = clients'[c].statut,
                                      !.version = @ + 1]

Certify(c) ==
  /\ clients[c] # NoClient
  /\ clients' = [clients EXCEPT ![c].certified = TRUE]

Revoke ==
  clients' = [c \in Client |-> IF clients[c] = NoClient THEN NoClient
                               ELSE [clients[c] EXCEPT !.certified = FALSE]]

Next ==
  \/ \E c \in Client : Create(c) \/ Edit(c) \/ ChangeStatut(c) \/ Certify(c)
  \/ Revoke

Spec == Init /\ [][Next]_clients
=============================================================================
