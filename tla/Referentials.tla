---------------------------- MODULE Referentials ----------------------------
(***************************************************************************)
(* The reference tables an administrator edits: regions, countries,        *)
(* currencies, languages, kinds of contact, team members, products and     *)
(* articles.  Their use cases are a SELECT, then one statement, with       *)
(* neither transaction, lock nor audit row; an UPDATE writes every column  *)
(* it may change as computed from the row that was read.  Only products    *)
(* and articles are ever deleted.                                          *)
(***************************************************************************)
EXTENDS Integers

CONSTANTS
  Ref,        \* identities of rows, each in one table
  TableOf,    \* the table of each
  RefCode,    \* codes a form may send
  Libelle,    \* names, descriptions, symbols and addresses a form may send
  RefInvalid, \* the strings the validators refuse
  Editor,     \* concurrent requests
  SeededRefs, \* the tables as the seeds left them
  NoRef,      \* no row yet, or no parent
  Deleted     \* a row that was deleted: its identity does not come back

RefTable ==
  {"region", "pays", "devise", "langue", "typeContact", "teamMember", "produit", "article"}

ValidLibelle == Libelle \ RefInvalid

ValidCode == RefCode \ RefInvalid

InTable(table) == {r \in Ref : TableOf[r] = table}

RefRow ==
  [code : (RefCode \ RefInvalid) \cup {NoRef}, libelle : Libelle \ RefInvalid,
   parent : Ref \cup {NoRef}, actif : BOOLEAN, controle : BOOLEAN]

ASSUME RefAssumption ==
  /\ TableOf \in [Ref -> RefTable]
  /\ NoRef \notin Ref /\ {NoRef, Deleted} \cap RefRow = {} /\ NoRef # Deleted
  /\ SeededRefs \in [Ref -> RefRow \cup {NoRef}]
  /\ \A r, s \in {x \in Ref : SeededRefs[x] # NoRef} :   \* the unique indexes
       /\ r # s /\ TableOf[r] = TableOf[s]
       /\ SeededRefs[r].code = SeededRefs[s].code /\ SeededRefs[r].code # NoRef
       => TableOf[r] = "article" /\ SeededRefs[r].parent # SeededRefs[s].parent
  /\ \A r \in Ref :                                     \* the foreign keys
       SeededRefs[r] # NoRef /\ SeededRefs[r].parent # NoRef =>
         SeededRefs[SeededRefs[r].parent] # NoRef

VARIABLES
  refs,       \* the rows
  linked,     \* products and articles a licence or a volume snapshot refers to
  editors,    \* the request each session has open
  answered,   \* history: the row as the last use case that wrote it answered
  disputed    \* history: rows two open requests worked on at once

refVars == <<refs, linked, editors, answered, disputed>>

RefIdle == [op |-> "idle"]

Present(r) == refs[r] \notin {NoRef, Deleted}

-----------------------------------------------------------------------------
(* What each form may create, once the domain has validated it.            *)
NewRow(code, libelle, parent) ==
  [code |-> code, libelle |-> libelle, parent |-> parent, actif |-> TRUE,
   controle |-> TRUE]

NewLabel == {NewRow(c, l, NoRef) : c \in ValidCode, l \in ValidLibelle}

NewRegion == NewLabel

NewDevise == NewLabel

NewLangue == NewLabel

NewTypeContact == NewLabel

NewProduit == NewLabel

InRegion == InTable("region") \cup {NoRef}

NewPays == {NewRow(c, l, g) : c \in ValidCode, l \in ValidLibelle, g \in InRegion}

(* A team member has no code.                                              *)
NewTeamMember == {NewRow(NoRef, l, g) : l \in ValidLibelle, g \in InRegion}

NewArticle ==
  {[NewRow(c, l, p) EXCEPT !.controle = v] :
     c \in ValidCode, l \in ValidLibelle, p \in InTable("produit"), v \in BOOLEAN}

NewRows(table) ==
  CASE table = "region" -> NewRegion
    [] table = "pays" -> NewPays
    [] table = "devise" -> NewDevise
    [] table = "langue" -> NewLangue
    [] table = "typeContact" -> NewTypeContact
    [] table = "teamMember" -> NewTeamMember
    [] table = "produit" -> NewProduit
    [] table = "article" -> NewArticle

(* What each edit may make of the row that was read; the code stays.       *)
Renamed(row) == {[row EXCEPT !.libelle = l] : l \in ValidLibelle}

RegionPatches(row) == Renamed(row)

DevisePatches(row) == Renamed(row)

LanguePatches(row) == Renamed(row)

TypeContactPatches(row) == Renamed(row)

ProduitPatches(row) == Renamed(row)

PaysPatches(row) ==
  {[renamed EXCEPT !.parent = g] : renamed \in Renamed(row), g \in InRegion}

TeamMemberPatches(row) ==
  {[renamed EXCEPT !.parent = g] : renamed \in Renamed(row), g \in InRegion}

ArticlePatches(row) ==
  {[renamed EXCEPT !.controle = v] : renamed \in Renamed(row), v \in BOOLEAN}

PatchesIn(table, row) ==
  CASE table = "region" -> RegionPatches(row)
    [] table = "pays" -> PaysPatches(row)
    [] table = "devise" -> DevisePatches(row)
    [] table = "langue" -> LanguePatches(row)
    [] table = "typeContact" -> TypeContactPatches(row)
    [] table = "teamMember" -> TeamMemberPatches(row)
    [] table = "produit" -> ProduitPatches(row)
    [] table = "article" -> ArticlePatches(row)

(* Mutant: an edit builds a row afresh, active by default.                 *)
PatchesActive(table, row) == {[p EXCEPT !.actif = TRUE] : p \in PatchesIn(table, row)}

Patches(table, row) == PatchesIn(table, row)

Toggled(row) == [row EXCEPT !.actif = ~@]

-----------------------------------------------------------------------------
(* The code is taken: within the table, for an article within its product. *)
CodeTakenBy(table, row) ==
  {r \in InTable(table) : /\ Present(r)
                          /\ refs[r].code = row.code /\ row.code # NoRef
                          /\ table = "article" => refs[r].parent = row.parent}

(* The unique indexes of the tables.                                       *)
CodeIndexRefuses(table, row) == CodeTakenBy(table, row) # {}

(* The foreign key of region_code and produit_id.                          *)
ParentFound(row) == row.parent # NoRef => Present(row.parent)

Children(r) == {c \in Ref : Present(c) /\ refs[c].parent = r}

Referenced(r) == r \in linked \/ Children(r) # {}

(* Mutant: the foreign keys would let a referenced row go.                 *)
NothingRestricts(r) == FALSE

(* The foreign keys on products and articles, without ON DELETE.           *)
KeysRestrict(r) == Referenced(r)

OnRef(request) == IF "ref" \in DOMAIN request THEN {request.ref} ELSE {}

OpenEditor(q, request) ==
  /\ editors[q] = RefIdle
  /\ editors' = [editors EXCEPT ![q] = request]
  /\ disputed' = disputed \cup
       {r \in OnRef(request) : \E p \in Editor : r \in OnRef(editors[p])}
  /\ UNCHANGED <<refs, linked, answered>>

CloseEditor(q) ==
  /\ editors' = [editors EXCEPT ![q] = RefIdle]
  /\ UNCHANGED <<linked, disputed>>

RefInit ==
  /\ refs = SeededRefs
  /\ linked = {}
  /\ editors = [q \in Editor |-> RefIdle]
  /\ answered = SeededRefs
  /\ disputed = {}

-----------------------------------------------------------------------------
(* Create…UseCase: an article's product is looked up, and the code, which  *)
(* a team member does not have; then the INSERT.                           *)
BeginCreateRef(q, table) ==
  \E row \in NewRows(table) :
    /\ table = "article" => Present(row.parent)
    /\ CodeTakenBy(table, row) = {}
    /\ OpenEditor(q, [op |-> "create", table |-> table, row |-> row])

CommitCreateRef(q, r) ==
  LET request == editors[q]
  IN  /\ request.op = "create"
      /\ refs[r] = NoRef /\ TableOf[r] = request.table
      /\ ParentFound(request.row)
      /\ ~CodeIndexRefuses(request.table, request.row)
      /\ refs' = [refs EXCEPT ![r] = request.row]
      /\ answered' = [answered EXCEPT ![r] = request.row]
      /\ CloseEditor(q)

RejectCreateRef(q) ==
  LET request == editors[q]
  IN  /\ request.op = "create"
      /\ \/ ~ParentFound(request.row)
         \/ CodeIndexRefuses(request.table, request.row)
      /\ CloseEditor(q)
      /\ UNCHANGED <<refs, answered>>

(* Update…UseCase and Toggle…UseCase, up to their UPDATE.                  *)
BeginUpdateRef(q, r) ==
  /\ Present(r)
  /\ \E patched \in Patches(TableOf[r], refs[r]) :
       OpenEditor(q, [op |-> "update", ref |-> r, seen |-> refs[r], patched |-> patched])

BeginToggleRef(q, r) ==
  /\ Present(r)
  /\ OpenEditor(q, [op |-> "toggle", ref |-> r, seen |-> refs[r],
                    patched |-> Toggled(refs[r])])

(* Mutant: the UPDATE forgets the column actif.                            *)
SavedWithoutActif(row, patched) == [patched EXCEPT !.actif = row.actif]

SavedRow(row, patched) == patched

(* The UPDATE by id: of no row, if it was deleted meanwhile.  The answer   *)
(* is the row as computed.                                                 *)
CommitRef(q) ==
  LET request == editors[q]
      r       == request.ref
  IN  /\ request.op \in {"update", "toggle"}
      /\ Present(r) => ParentFound(request.patched)
      /\ refs' = IF Present(r)
                 THEN [refs EXCEPT ![r] = SavedRow(refs[r], request.patched)]
                 ELSE refs
      /\ answered' = [answered EXCEPT ![r] = request.patched]
      /\ CloseEditor(q)

(* The region of the patch does not exist.                                 *)
RejectRef(q) ==
  LET request == editors[q]
  IN  /\ request.op \in {"update", "toggle"}
      /\ Present(request.ref)
      /\ ~ParentFound(request.patched)
      /\ CloseEditor(q)
      /\ UNCHANGED <<refs, answered>>

(* DeleteProduitUseCase and DeleteArticleUseCase, up to their DELETE.      *)
BeginDeleteRef(q, r) ==
  /\ TableOf[r] \in {"produit", "article"}
  /\ Present(r)
  /\ ~Referenced(r)
  /\ OpenEditor(q, [op |-> "delete", ref |-> r])

CommitDeleteRef(q) ==
  LET r == editors[q].ref
  IN  /\ editors[q].op = "delete"
      /\ ~KeysRestrict(r)
      /\ refs' = [refs EXCEPT ![r] = Deleted]
      /\ answered' = [answered EXCEPT ![r] = Deleted]
      /\ CloseEditor(q)

RejectDeleteRef(q) ==
  /\ editors[q].op = "delete"
  /\ KeysRestrict(editors[q].ref)
  /\ CloseEditor(q)
  /\ UNCHANGED <<refs, answered>>

(* A licence takes a product or an article, a snapshot is taken of one, or *)
(* the last licence that had it gives it up.                               *)
LinkRef(r) ==
  /\ TableOf[r] \in {"produit", "article"} /\ Present(r)
  /\ linked' = IF r \in linked THEN linked \ {r} ELSE linked \cup {r}
  /\ UNCHANGED <<refs, editors, answered, disputed>>

RefNext ==
  \/ \E q \in Editor :
       \/ \E table \in RefTable : BeginCreateRef(q, table)
       \/ \E r \in Ref : \/ CommitCreateRef(q, r)
                         \/ BeginUpdateRef(q, r)
                         \/ BeginToggleRef(q, r)
                         \/ BeginDeleteRef(q, r)
       \/ RejectCreateRef(q)
       \/ CommitRef(q)
       \/ RejectRef(q)
       \/ CommitDeleteRef(q)
       \/ RejectDeleteRef(q)
  \/ \E r \in Ref : LinkRef(r)

RefSpec == RefInit /\ [][RefNext]_refVars

-----------------------------------------------------------------------------
RefRequest ==
  {RefIdle}
    \cup [op : {"create"}, table : RefTable, row : RefRow]
    \cup [op : {"update", "toggle"}, ref : Ref, seen : RefRow, patched : RefRow]
    \cup [op : {"delete"}, ref : Ref]

(* The tables, the requests and their answers hold rows of their types.    *)
RefTypeOK ==
  /\ refs \in [Ref -> RefRow \cup {NoRef, Deleted}]
  /\ linked \subseteq Ref
  /\ editors \in [Editor -> RefRequest]
  /\ answered \in [Ref -> RefRow \cup {NoRef, Deleted}]
  /\ disputed \subseteq Ref

(* Two creations that both found a code free never both insert it; the     *)
(* code of an article is unique within its product only.                   *)
RefCodesUnique ==
  \A r, s \in {x \in Ref : Present(x)} :
    /\ r # s /\ TableOf[r] = TableOf[s]
    /\ refs[r].code = refs[s].code /\ refs[r].code # NoRef
    => TableOf[r] = "article" /\ refs[r].parent # refs[s].parent

(* However a deletion races a creation or a licence that takes the row, no *)
(* row, licence or snapshot is left without what it refers to.             *)
NothingOrphan ==
  /\ \A r \in Ref : Present(r) => ParentFound(refs[r])
  /\ \A r \in linked : Present(r)

(* What the screen shows after a use case is what the table holds, as long *)
(* as no two requests worked on the row at once.                           *)
QuietAnswerHolds == \A r \in Ref \ disputed : answered[r] = refs[r]

(* The reference tables hold against every overlap: codes are unique where *)
(* the schema says so, every reference finds its row, and an answer that   *)
(* nothing crossed is what was written.                                    *)
RefsExact == RefTypeOK /\ RefCodesUnique /\ NothingOrphan /\ QuietAnswerHolds

(* A row is activated or deactivated by a toggle, or by an edit that read  *)
(* it before another request toggled it: never by an edit of its own.      *)
OnlyStaleEditsReactivate ==
  [][\A r \in Ref :
       Present(r) /\ Present(r)' /\ refs[r].actif # refs'[r].actif =>
         \E q \in Editor :
           /\ r \in OnRef(editors[q]) /\ editors'[q] = RefIdle
           /\ editors[q].op = "update" => r \in disputed]_refVars

-----------------------------------------------------------------------------
(* What the comments of the use cases promise and the steps refute.        *)

(* "actif n'est pas gere ici -> ToggleRegionUseCase": an edit that read    *)
(* the row before a toggle writes the old actif back.                      *)
EditKeepsActif ==
  [][\A q \in Editor :
       editors[q].op = "update" /\ editors'[q] = RefIdle =>
         \A r \in OnRef(editors[q]) :
           Present(r) => refs'[r].actif = refs[r].actif]_refVars

(* A use case that answers a row wrote it: the row may have been deleted   *)
(* after it was read.                                                      *)
AnsweredRowExists == \A r \in Ref : Present(r) <=> answered[r] \notin {NoRef, Deleted}
=============================================================================
