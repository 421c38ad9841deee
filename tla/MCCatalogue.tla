---------------------------- MODULE MCCatalogue ----------------------------
(* Each reference table, the monthly snapshots of two links and the lists  *)
(* by identity are a scene each.                                           *)
EXTENDS Referentials, VolumeSnapshot, Listing, TLC

CONSTANTS reg1, reg2, pay1, pay2, tm1, dev1, dev2, lan1, lan2, typ1, typ2,
          pro1, pro2, art1, art2, none, bad

VARIABLE scene

MCTables ==
  [region |-> {reg1, reg2}, pays |-> {pay1, pay2}, teamMember |-> {tm1},
   devise |-> {dev1, dev2}, langue |-> {lan1, lan2}, typeContact |-> {typ1, typ2},
   produit |-> {pro1, pro2}, article |-> {art1, art2}]

MCRef == UNION {MCTables[t] : t \in DOMAIN MCTables}

MCTableOf == [r \in MCRef |-> CHOOSE t \in DOMAIN MCTables : r \in MCTables[t]]

MCRefCode == {"c1", "c2", bad}
MCLibelle == {"l1", "l2", bad}

MCSeeded(code, parent) ==
  [code |-> code, libelle |-> "l1", parent |-> parent, actif |-> TRUE, controle |-> TRUE]

MCSeededRefs ==
  (reg1 :> MCSeeded("c1", none)) @@ (pay1 :> MCSeeded("c1", reg1)) @@ (pro1 :> MCSeeded("c1", none))
    @@ (pro2 :> MCSeeded("c2", none)) @@ [r \in MCRef |-> none]

(* The table that acts, and the tables it refers to.                       *)
Family(t) ==
  {t} \cup IF t \in {"pays", "teamMember"} THEN {"region"}
           ELSE IF t = "article" THEN {"produit"} ELSE {}

OfScene(r) == TableOf[r] \in Family(scene)

MCInit ==
  /\ scene \in RefTable \cup {"snapshot", "list"}
  /\ refs = [r \in Ref |-> IF OfScene(r) THEN SeededRefs[r] ELSE none]
  /\ linked = {} /\ disputed = {}
  /\ editors = [q \in Editor |-> RefIdle]
  /\ answered = refs
  /\ SnapshotInit /\ ListInit
  /\ \A l \in Link : links[l].autorise = NoVolume <=> l = "k2"

(* Rows are created, edited and toggled in the scene's table; one product  *)
(* of the articles goes too.  Rows that refer to another are created and   *)
(* edited with one name, new articles with one code and control, and one   *)
(* article is linked.                                                      *)
OfTable(request) ==
  /\ request.op = "create" =>
       /\ request.table = scene
       /\ request.row.parent # none => request.row.libelle = "l1"
       /\ scene = "article" => request.row.code = "c1" /\ request.row.controle
  /\ request.op \in {"update", "toggle"} =>
       /\ TableOf[request.ref] = scene
       /\ request.patched.parent # none => request.patched.libelle = "l1"
  /\ request.op = "delete" => request.ref # pro2 \/ scene = "produit"

OfFamily ==
  /\ \A q \in Editor : editors'[q] # RefIdle => OfTable(editors'[q])
  /\ scene = "article" => linked' \subseteq {art1}

MCNext ==
  /\ UNCHANGED scene
  /\ \/ /\ scene \in RefTable
        /\ RefNext /\ OfFamily
        /\ UNCHANGED <<snapshotVars, listVars>>
     \/ scene = "snapshot" /\ SnapshotNext /\ UNCHANGED <<refVars, listVars>>
     \/ scene = "list" /\ ListNext /\ UNCHANGED <<refVars, snapshotVars>>

MCSymmetry == Permutations(Editor) \cup Permutations(Execution)

MCSpec == MCInit /\ [][MCNext]_<<refVars, snapshotVars, listVars, scene>>
=============================================================================
