--------------------------- MODULE Catalogue_proofs ---------------------------
(***************************************************************************)
(* Proofs about Referentials, VolumeSnapshot and Listing: reference tables *)
(* under requests that overlap, monthly snapshots under runs that overlap  *)
(* and die, and pages of a list by identity under insertions, for any      *)
(* number of rows and requests.                                            *)
(***************************************************************************)
EXTENDS Referentials, VolumeSnapshot, Listing, FiniteSetTheorems, WellFoundedInduction, TLAPS

-----------------------------------------------------------------------------
(***************************************************************************)
(* Referentials: codes that stay unique, no orphan, answers that hold, and *)
(* edits that leave the activation of a row alone.                         *)
(***************************************************************************)

OnRow == {"update", "toggle", "delete"}

(* A request is on a row that was inserted; what it computed keeps the     *)
(* code, an article its product, an edit the activation; and as long as no *)
(* other request worked on the row, the row is what was read.              *)
EditorOK(request) ==
  request.op \in OnRow =>
    /\ refs[request.ref] # NoRef
    /\ request.ref \notin disputed => Present(request.ref)
    /\ request.op # "delete" =>
         /\ request.patched.code = request.seen.code
         /\ TableOf[request.ref] = "article" => request.patched.parent = request.seen.parent
         /\ request.op = "update" => request.patched.actif = request.seen.actif
         /\ request.ref \notin disputed => refs[request.ref] = request.seen
         /\ Present(request.ref) =>
              /\ refs[request.ref].code = request.seen.code
              /\ TableOf[request.ref] = "article" =>
                   refs[request.ref].parent = request.seen.parent

OneEditor ==
  \A p, q \in Editor :
    /\ p # q /\ editors[p].op \in OnRow /\ editors[q].op \in OnRow
    /\ editors[p].ref = editors[q].ref
    => editors[p].ref \in disputed

RefsInv ==
  /\ RefsExact
  /\ \A q \in Editor : EditorOK(editors[q])
  /\ OneEditor

-----------------------------------------------------------------------------
LEMMA RequestOf ==
  ASSUME NEW request \in RefRequest
  PROVE  /\ request.op \in {"idle", "create"} \cup OnRow
         /\ request.op = "create" => request.table \in RefTable /\ request.row \in RefRow
         /\ request.op \in OnRow => request.ref \in Ref /\ OnRef(request) = {request.ref}
         /\ request.op \in OnRow \ {"delete"} => request.seen \in RefRow /\ request.patched \in RefRow
         /\ request.op \notin OnRow => OnRef(request) = {}
BY DEF RefRequest, RefIdle, OnRow, OnRef

LEMMA IsRequest ==
  /\ RefIdle \in RefRequest /\ RefIdle.op = "idle" /\ "idle" \notin OnRow
  /\ \A table \in RefTable, row \in RefRow :
       [op |-> "create", table |-> table, row |-> row] \in RefRequest
  /\ \A op \in {"update", "toggle"}, r \in Ref, seen \in RefRow, patched \in RefRow :
       [op |-> op, ref |-> r, seen |-> seen, patched |-> patched] \in RefRequest
  /\ \A r \in Ref : [op |-> "delete", ref |-> r] \in RefRequest
BY DEF RefRequest, RefIdle, OnRow

(* What the forms may send.                                                *)
LEMMA NewRowTyped ==
  ASSUME NEW table \in RefTable, NEW row \in NewRows(table)
  PROVE  row \in RefRow
<1>1. \A c \in ValidCode \cup {NoRef}, l \in ValidLibelle, g \in Ref \cup {NoRef} :
        NewRow(c, l, g) \in RefRow
  BY DEF NewRow, RefRow, ValidCode, ValidLibelle
<1>2. InRegion \subseteq Ref \cup {NoRef} /\ InTable("produit") \subseteq Ref
  BY DEF InRegion, InTable
<1> HIDE DEF NewRow
<1>3. NewLabel \subseteq RefRow /\ NewPays \subseteq RefRow /\ NewTeamMember \subseteq RefRow
  <2>1. NewLabel \subseteq RefRow
    BY <1>1 DEF NewLabel
  <2>2. NewPays \subseteq RefRow
    BY <1>1, <1>2 DEF NewPays
  <2>3. \A l \in ValidLibelle, g \in InRegion : NewRow(NoRef, l, g) \in RefRow
    BY <1>1, <1>2
  <2>4. NewTeamMember \subseteq RefRow
    BY <2>3 DEF NewTeamMember
  <2> QED
    BY <2>1, <2>2, <2>4
<1>4. NewArticle \subseteq RefRow
  <2>1. \A x \in RefRow, v \in BOOLEAN : [x EXCEPT !.controle = v] \in RefRow
    BY DEF RefRow
  <2> QED
    BY <1>1, <1>2, <2>1 DEF NewArticle
<1> QED
  BY <1>3, <1>4 DEF NewRows, RefTable, NewRegion, NewDevise, NewLangue, NewTypeContact, NewProduit

LEMMA PatchOf ==
  ASSUME NEW table \in RefTable, NEW row \in RefRow, NEW patched \in Patches(table, row)
  PROVE  /\ patched \in RefRow /\ patched.code = row.code /\ patched.actif = row.actif
         /\ table = "article" => patched.parent = row.parent
<1> DEFINE Same(x) == /\ x \in RefRow /\ x.code = row.code /\ x.actif = row.actif
<1>1. \A x \in Renamed(row) : Same(x) /\ x.parent = row.parent
  BY DEF Renamed, RefRow, ValidLibelle
<1>2. InRegion \subseteq Ref \cup {NoRef}
  BY DEF InRegion, InTable
<1>3. \A x \in RefRow, g \in Ref \cup {NoRef} :
        /\ [x EXCEPT !.parent = g] \in RefRow
        /\ [x EXCEPT !.parent = g].code = x.code /\ [x EXCEPT !.parent = g].actif = x.actif
  BY DEF RefRow
<1>4. \A x \in RefRow, v \in BOOLEAN :
        /\ [x EXCEPT !.controle = v] \in RefRow
        /\ [x EXCEPT !.controle = v].code = x.code /\ [x EXCEPT !.controle = v].actif = x.actif
        /\ [x EXCEPT !.controle = v].parent = x.parent
  BY DEF RefRow
<1>5. \A x \in PaysPatches(row) \cup TeamMemberPatches(row) : Same(x)
  <2> DEFINE f(x, g) == [x EXCEPT !.parent = g]
  <2>1. \A x \in Renamed(row), g \in InRegion : Same(f(x, g))
    BY <1>1, <1>2, <1>3
  <2>2. /\ PaysPatches(row) = {f(x, g) : x \in Renamed(row), g \in InRegion}
        /\ TeamMemberPatches(row) = {f(x, g) : x \in Renamed(row), g \in InRegion}
    BY DEF PaysPatches, TeamMemberPatches
  <2> HIDE DEF f, Same
  <2> QED
    BY <2>1, <2>2
<1>6. \A x \in ArticlePatches(row) : Same(x) /\ x.parent = row.parent
  <2> DEFINE f(x, v) == [x EXCEPT !.controle = v]
  <2>1. \A x \in Renamed(row), v \in BOOLEAN : Same(f(x, v)) /\ f(x, v).parent = row.parent
    BY <1>1, <1>4
  <2>2. ArticlePatches(row) = {f(x, v) : x \in Renamed(row), v \in BOOLEAN}
    BY DEF ArticlePatches
  <2> HIDE DEF f, Same
  <2> QED
    BY <2>1, <2>2
<1> HIDE DEF Same
<1>7. Same(patched) /\ (table = "article" => patched.parent = row.parent)
  BY <1>1, <1>5, <1>6
     DEF Patches, PatchesIn, RefTable, RegionPatches, DevisePatches, LanguePatches,
         TypeContactPatches, ProduitPatches
<1> QED
  BY <1>7 DEF Same

LEMMA InitRefs == RefInit => RefsInv
<1> SUFFICES ASSUME RefInit PROVE RefsInv
  OBVIOUS
<1>1. \A r \in Ref : Present(r) <=> refs[r] # NoRef
  BY RefAssumption DEF RefInit, Present
<1>2. RefTypeOK
  BY RefAssumption, IsRequest DEF RefInit, RefTypeOK
<1>3. RefCodesUnique
  BY <1>1, RefAssumption DEF RefInit, RefCodesUnique
<1>4. NothingOrphan
  <2>1. \A r \in Ref : refs[r] # NoRef => refs[r].parent \in Ref \cup {NoRef}
    BY RefAssumption DEF RefInit, RefRow
  <2> QED
    BY <1>1, <2>1, RefAssumption DEF RefInit, NothingOrphan, ParentFound
<1>5. \A q \in Editor : editors[q].op \notin OnRow
  BY IsRequest DEF RefInit
<1> QED
  BY <1>2, <1>3, <1>4, <1>5 DEF RefInit, RefsInv, RefsExact, QuietAnswerHolds, EditorOK, OneEditor

-----------------------------------------------------------------------------
(* The requests that stay open are the ones that were.                     *)
LEMMA ClosedKept ==
  ASSUME RefsInv, NEW q \in Editor, CloseEditor(q)
  PROVE  /\ editors' \in [Editor -> RefRequest] /\ UNCHANGED <<linked, disputed>>
         /\ editors'[q] = RefIdle
         /\ \A p \in Editor \ {q} : editors'[p] = editors[p]
         /\ OneEditor'
<1>1. editors \in [Editor -> RefRequest]
  BY DEF RefsInv, RefsExact, RefTypeOK
<1>2. /\ editors' \in [Editor -> RefRequest] /\ UNCHANGED <<linked, disputed>>
      /\ editors'[q] = RefIdle
      /\ \A p \in Editor \ {q} : editors'[p] = editors[p]
  BY <1>1, IsRequest DEF CloseEditor
<1>3. OneEditor'
  BY <1>2, IsRequest DEF OneEditor, RefsInv
<1> QED
  BY <1>2, <1>3

(* A request opens on what the table holds.                                *)
LEMMA OpenKept ==
  ASSUME RefsInv, NEW q \in Editor, NEW request \in RefRequest, OpenEditor(q, request),
         EditorOK(request)
  PROVE  RefsInv'
<1>1. /\ editors \in [Editor -> RefRequest]
      /\ editors' = [editors EXCEPT ![q] = request]
      /\ UNCHANGED <<refs, linked, answered>>
      /\ disputed \subseteq Ref
  BY DEF RefsInv, RefsExact, RefTypeOK, OpenEditor
<1>2. /\ editors'[q] = request
      /\ \A p \in Editor \ {q} : editors'[p] = editors[p]
  BY <1>1
<1>3. /\ OnRef(request) \subseteq Ref
      /\ request.op \in OnRow => OnRef(request) = {request.ref}
      /\ \A p \in Editor : editors[p].op \in OnRow => OnRef(editors[p]) = {editors[p].ref}
  BY <1>1, RequestOf
<1>4. /\ disputed \subseteq disputed' /\ disputed' \subseteq Ref
      /\ \A p \in Editor :
           /\ request.op \in OnRow /\ editors[p].op \in OnRow /\ editors[p].ref = request.ref
           => request.ref \in disputed'
  BY <1>1, <1>3 DEF OpenEditor
<1>5. RefTypeOK'
  BY <1>1, <1>4 DEF RefsInv, RefsExact, RefTypeOK
<1>6. RefCodesUnique' /\ NothingOrphan'
  BY <1>1 DEF RefsInv, RefsExact, RefCodesUnique, NothingOrphan, ParentFound, Present
<1>7. QuietAnswerHolds'
  BY <1>1, <1>4 DEF RefsInv, RefsExact, QuietAnswerHolds
<1>8. \A x : EditorOK(x) => EditorOK(x)'
  BY <1>1, <1>4 DEF EditorOK, Present
<1>9. \A p \in Editor : EditorOK(editors'[p])
  BY <1>2 DEF RefsInv
<1>10. \A p \in Editor : EditorOK(editors[p])'
  BY <1>8, <1>9 DEF EditorOK
<1>11. OneEditor'
  BY <1>2, <1>4 DEF OneEditor, RefsInv
<1> QED
  BY <1>5, <1>6, <1>7, <1>10, <1>11 DEF RefsInv, RefsExact

(* A request ends and changes no row.                                      *)
LEMMA RejectKept ==
  ASSUME RefsInv, NEW q \in Editor, CloseEditor(q), UNCHANGED <<refs, answered>>
  PROVE  RefsInv'
<1>1. /\ editors' \in [Editor -> RefRequest] /\ UNCHANGED <<linked, disputed>>
      /\ editors'[q] = RefIdle
      /\ \A p \in Editor \ {q} : editors'[p] = editors[p]
      /\ OneEditor'
  BY ClosedKept
<1>2. RefsExact'
  BY <1>1 DEF RefsInv, RefsExact, RefTypeOK, RefCodesUnique, NothingOrphan, QuietAnswerHolds,
              ParentFound, Present
<1>3. \A p \in Editor : EditorOK(editors'[p])
  BY <1>1, IsRequest DEF RefsInv, EditorOK
<1>4. \A p \in Editor : EditorOK(editors[p])'
  BY <1>1, <1>3 DEF EditorOK, Present
<1> QED
  BY <1>1, <1>2, <1>4 DEF RefsInv

-----------------------------------------------------------------------------
LEMMA BeginKept ==
  ASSUME RefsInv, NEW q \in Editor,
         \/ \E table \in RefTable : BeginCreateRef(q, table)
         \/ \E r \in Ref : BeginUpdateRef(q, r) \/ BeginToggleRef(q, r) \/ BeginDeleteRef(q, r)
  PROVE  RefsInv'
<1>1. \A r \in Ref : Present(r) => refs[r] \in RefRow
  BY DEF RefsInv, RefsExact, RefTypeOK, Present
<1>2. ASSUME NEW table \in RefTable, BeginCreateRef(q, table)
      PROVE  RefsInv'
  <2>1. PICK row \in NewRows(table) :
          OpenEditor(q, [op |-> "create", table |-> table, row |-> row])
    BY <1>2 DEF BeginCreateRef
  <2>2. row \in RefRow
    BY <2>1, NewRowTyped
  <2> DEFINE request == [op |-> "create", table |-> table, row |-> row]
  <2>3. request \in RefRequest /\ request.op = "create" /\ OpenEditor(q, request)
    BY <2>1, <2>2, IsRequest
  <2> HIDE DEF request
  <2>4. EditorOK(request)
    BY <2>3 DEF EditorOK, OnRow
  <2> QED
    BY <2>3, <2>4, OpenKept
<1>3. ASSUME NEW r \in Ref, NEW op \in {"update", "toggle"}, NEW patched \in RefRow, Present(r),
             patched.code = refs[r].code, patched.parent = refs[r].parent \/ TableOf[r] # "article",
             op = "update" => patched.actif = refs[r].actif,
             OpenEditor(q, [op |-> op, ref |-> r, seen |-> refs[r], patched |-> patched])
      PROVE  RefsInv'
  <2> DEFINE request == [op |-> op, ref |-> r, seen |-> refs[r], patched |-> patched]
  <2>1. /\ request \in RefRequest /\ request.op = op /\ request.ref = r
        /\ request.seen = refs[r] /\ request.patched = patched /\ OpenEditor(q, request)
    BY <1>1, <1>3, IsRequest
  <2> HIDE DEF request
  <2>2. EditorOK(request)
    BY <1>3, <2>1 DEF EditorOK, Present
  <2> QED
    BY <2>1, <2>2, OpenKept
<1>4. ASSUME NEW r \in Ref, BeginUpdateRef(q, r)
      PROVE  RefsInv'
  <2>1. PICK patched \in Patches(TableOf[r], refs[r]) :
          OpenEditor(q, [op |-> "update", ref |-> r, seen |-> refs[r], patched |-> patched])
    BY <1>4 DEF BeginUpdateRef
  <2>2. Present(r) /\ refs[r] \in RefRow /\ TableOf[r] \in RefTable
    BY <1>1, <1>4, RefAssumption DEF BeginUpdateRef
  <2>3. /\ patched \in RefRow /\ patched.code = refs[r].code /\ patched.actif = refs[r].actif
        /\ TableOf[r] = "article" => patched.parent = refs[r].parent
    BY <2>1, <2>2, PatchOf
  <2> QED
    BY <1>3, <2>1, <2>2, <2>3
<1>5. ASSUME NEW r \in Ref, BeginToggleRef(q, r)
      PROVE  RefsInv'
  <2>1. Present(r) /\ refs[r] \in RefRow
    BY <1>1, <1>5 DEF BeginToggleRef
  <2> DEFINE patched == Toggled(refs[r])
  <2>2. patched \in RefRow /\ patched.code = refs[r].code /\ patched.parent = refs[r].parent
    BY <2>1 DEF Toggled, RefRow
  <2> QED
    BY <1>3, <1>5, <2>1, <2>2 DEF BeginToggleRef
<1>6. ASSUME NEW r \in Ref, BeginDeleteRef(q, r)
      PROVE  RefsInv'
  <2> DEFINE request == [op |-> "delete", ref |-> r]
  <2>1. /\ request \in RefRequest /\ request.op = "delete" /\ request.ref = r
        /\ OpenEditor(q, request) /\ Present(r)
    BY <1>6, IsRequest DEF BeginDeleteRef
  <2> HIDE DEF request
  <2>2. EditorOK(request)
    BY <2>1 DEF EditorOK, Present
  <2> QED
    BY <2>1, <2>2, OpenKept
<1> QED
  BY <1>2, <1>4, <1>5, <1>6

(* The row of an INSERT: nobody works on it yet.                           *)
LEMMA CreateKept ==
  ASSUME RefsInv, NEW q \in Editor, NEW r \in Ref, CommitCreateRef(q, r)
  PROVE  RefsInv'
<1> DEFINE row == editors[q].row
           table == editors[q].table
<1>1. /\ editors[q].op = "create" /\ refs[r] = NoRef /\ TableOf[r] = table
      /\ ParentFound(row) /\ CodeTakenBy(table, row) = {}
      /\ refs' = [refs EXCEPT ![r] = row] /\ answered' = [answered EXCEPT ![r] = row]
      /\ CloseEditor(q)
  BY DEF CommitCreateRef, CodeIndexRefuses
<1>2. row \in RefRow /\ row \notin {NoRef, Deleted} /\ row.parent \in Ref \cup {NoRef}
  BY <1>1, RequestOf, RefAssumption DEF RefsInv, RefsExact, RefTypeOK, RefRow
<1>3. /\ refs \in [Ref -> RefRow \cup {NoRef, Deleted}]
      /\ answered \in [Ref -> RefRow \cup {NoRef, Deleted}]
  BY DEF RefsInv, RefsExact, RefTypeOK
<1>4. /\ editors' \in [Editor -> RefRequest] /\ UNCHANGED <<linked, disputed>>
      /\ editors'[q] = RefIdle
      /\ \A p \in Editor \ {q} : editors'[p] = editors[p]
      /\ OneEditor'
  BY <1>1, ClosedKept
<1>5. /\ refs'[r] = row /\ answered'[r] = row
      /\ \A s \in Ref \ {r} : refs'[s] = refs[s] /\ answered'[s] = answered[s]
      /\ \A s \in Ref : Present(s)' <=> Present(s) \/ s = r
  BY <1>1, <1>2, <1>3 DEF Present
<1>6. RefTypeOK'
  BY <1>1, <1>2, <1>3, <1>4 DEF RefsInv, RefsExact, RefTypeOK
<1> HIDE DEF row, table
<1>7. RefCodesUnique'
  <2>1. \A s \in Ref : /\ Present(s) /\ TableOf[s] = table
                       /\ refs[s].code = row.code /\ row.code # NoRef
                       => table = "article" /\ refs[s].parent # row.parent
    BY <1>1 DEF CodeTakenBy, InTable
  <2>2. ASSUME NEW s \in Ref, NEW t \in Ref, Present(s)', Present(t)', s # t,
               TableOf[s] = TableOf[t], refs'[s].code = refs'[t].code, refs'[s].code # NoRef
        PROVE  TableOf[s] = "article" /\ refs'[s].parent # refs'[t].parent
    <3>1. CASE s # r /\ t # r
      BY <1>5, <2>2, <3>1 DEF RefsInv, RefsExact, RefCodesUnique
    <3>2. CASE s = r
      BY <1>1, <1>5, <2>1, <2>2, <3>2
    <3>3. CASE t = r
      BY <1>1, <1>5, <2>1, <2>2, <3>3
    <3> QED
      BY <3>1, <3>2, <3>3
  <2> QED
    BY <2>2 DEF RefCodesUnique
<1>8. NothingOrphan'
  <2>1. ASSUME NEW s \in Ref, Present(s)' PROVE ParentFound(refs[s])'
    <3>1. refs'[s] \in RefRow /\ refs'[s].parent \in Ref \cup {NoRef}
      BY <1>2, <1>3, <1>5, <2>1 DEF Present, RefRow
    <3>2. ParentFound(refs'[s])
      BY <1>1, <1>5, <2>1 DEF RefsInv, RefsExact, NothingOrphan
    <3> QED
      BY <1>5, <3>1, <3>2 DEF ParentFound
  <2>2. \A s \in linked' : Present(s)'
    BY <1>4, <1>5 DEF RefsInv, RefsExact, NothingOrphan, RefTypeOK
  <2> QED
    BY <2>1, <2>2 DEF NothingOrphan
<1>9. QuietAnswerHolds'
  BY <1>4, <1>5 DEF RefsInv, RefsExact, QuietAnswerHolds
<1>10. ASSUME NEW p \in Editor PROVE EditorOK(editors[p])'
  <2>1. EditorOK(editors'[p]) /\ (editors'[p].op \in OnRow => editors'[p].ref \in Ref)
    BY <1>4, IsRequest, RequestOf DEF RefsInv, EditorOK
  <2>2. editors'[p].op \in OnRow => editors'[p].ref # r
    BY <1>1, <2>1 DEF EditorOK
  <2> QED
    BY <1>4, <1>5, <2>1, <2>2 DEF EditorOK, Present
<1> QED
  BY <1>4, <1>6, <1>7, <1>8, <1>9, <1>10 DEF RefsInv, RefsExact

(* A row is written, or found deleted: a request that worked on it too has *)
(* left it in disputed.                                                    *)
LEMMA CommitKept ==
  ASSUME RefsInv, NEW q \in Editor, CommitRef(q)
  PROVE  RefsInv'
<1> DEFINE request == editors[q]
           r == request.ref
           patched == request.patched
<1>1. /\ request.op \in OnRow /\ request.op # "delete"
      /\ Present(r) => ParentFound(patched)
      /\ refs' = IF Present(r) THEN [refs EXCEPT ![r] = patched] ELSE refs
      /\ answered' = [answered EXCEPT ![r] = patched]
      /\ CloseEditor(q)
  BY DEF CommitRef, SavedRow, OnRow
<1>2. /\ request.seen \in RefRow /\ patched \in RefRow /\ r \in Ref
      /\ patched.parent \in Ref \cup {NoRef} /\ patched \notin {NoRef, Deleted}
  BY <1>1, RequestOf, RefAssumption DEF RefsInv, RefsExact, RefTypeOK, RefRow
<1>3. /\ refs \in [Ref -> RefRow \cup {NoRef, Deleted}]
      /\ answered \in [Ref -> RefRow \cup {NoRef, Deleted}]
  BY DEF RefsInv, RefsExact, RefTypeOK
<1>4. /\ editors' \in [Editor -> RefRequest] /\ UNCHANGED <<linked, disputed>>
      /\ editors'[q] = RefIdle
      /\ \A p \in Editor \ {q} : editors'[p] = editors[p]
      /\ OneEditor'
  BY <1>1, ClosedKept
<1>5. /\ refs[r] # NoRef /\ (r \notin disputed => Present(r))
      /\ Present(r) => /\ refs[r].code = patched.code
                       /\ TableOf[r] = "article" => refs[r].parent = patched.parent
  BY <1>1, <1>2 DEF RefsInv, EditorOK
<1> HIDE DEF request, r, patched
<1>6. /\ refs'[r] = IF Present(r) THEN patched ELSE refs[r]
      /\ answered'[r] = patched
      /\ \A s \in Ref \ {r} : refs'[s] = refs[s] /\ answered'[s] = answered[s]
      /\ \A s \in Ref : Present(s)' <=> Present(s)
  BY <1>1, <1>2, <1>3 DEF Present
<1>7. RefTypeOK'
  BY <1>1, <1>2, <1>3, <1>4 DEF RefsInv, RefsExact, RefTypeOK
<1>8. \A s \in Ref : Present(s) =>
        /\ refs'[s].code = refs[s].code
        /\ TableOf[s] = "article" => refs'[s].parent = refs[s].parent
  BY <1>5, <1>6
<1>9. RefCodesUnique'
  BY <1>6, <1>8 DEF RefsInv, RefsExact, RefCodesUnique
<1>10. NothingOrphan'
  <2>1. ASSUME NEW s \in Ref, Present(s)' PROVE ParentFound(refs[s])'
    <3>1. refs'[s] \in RefRow /\ refs'[s].parent \in Ref \cup {NoRef}
      BY <1>2, <1>3, <1>6, <2>1 DEF Present, RefRow
    <3>2. ParentFound(refs'[s])
      BY <1>1, <1>6, <2>1 DEF RefsInv, RefsExact, NothingOrphan
    <3> QED
      BY <1>6, <3>1, <3>2 DEF ParentFound
  <2>2. \A s \in linked' : Present(s)'
    BY <1>4, <1>6 DEF RefsInv, RefsExact, NothingOrphan, RefTypeOK
  <2> QED
    BY <2>1, <2>2 DEF NothingOrphan
<1>11. QuietAnswerHolds'
  BY <1>4, <1>5, <1>6 DEF RefsInv, RefsExact, QuietAnswerHolds
<1>12. ASSUME NEW p \in Editor PROVE EditorOK(editors[p])'
  <2>1. CASE p = q
    BY <1>4, <2>1, IsRequest DEF EditorOK
  <2>2. CASE p # q /\ editors[p].op \in OnRow
    <3>1. /\ editors[p].ref \in Ref /\ EditorOK(editors[p])
          /\ editors[p].ref = r => r \in disputed
      BY <1>1, <2>2, RequestOf DEF RefsInv, RefsExact, RefTypeOK, OneEditor, r, request
    <3>2. refs'[editors[p].ref] # NoRef
      BY <1>2, <1>5, <1>6, <2>2, <3>1 DEF EditorOK
    <3>3. editors[p].ref \notin disputed => refs'[editors[p].ref] = refs[editors[p].ref]
      BY <1>6, <3>1
    <3>4. Present(editors[p].ref) =>
            /\ refs'[editors[p].ref].code = refs[editors[p].ref].code
            /\ TableOf[editors[p].ref] = "article" =>
                 refs'[editors[p].ref].parent = refs[editors[p].ref].parent
      BY <1>8, <3>1
    <3>5. refs'[editors[p].ref] \notin {NoRef, Deleted} <=> Present(editors[p].ref)
      BY <1>6, <3>1 DEF Present
    <3> QED
      BY <1>4, <2>2, <3>1, <3>2, <3>3, <3>4, <3>5 DEF EditorOK, Present
  <2>3. CASE p # q /\ editors[p].op \notin OnRow
    BY <1>4, <2>3 DEF EditorOK
  <2> QED
    BY <2>1, <2>2, <2>3
<1> QED
  BY <1>4, <1>7, <1>9, <1>10, <1>11, <1>12 DEF RefsInv, RefsExact

(* What the foreign keys let go is referred to by nothing.                 *)
LEMMA DeleteKept ==
  ASSUME RefsInv, NEW q \in Editor, CommitDeleteRef(q)
  PROVE  RefsInv'
<1> DEFINE r == editors[q].ref
<1>1. /\ editors[q].op = "delete" /\ editors[q].op \in OnRow
      /\ r \notin linked /\ Children(r) = {}
      /\ refs' = [refs EXCEPT ![r] = Deleted] /\ answered' = [answered EXCEPT ![r] = Deleted]
      /\ CloseEditor(q)
  BY DEF CommitDeleteRef, KeysRestrict, Referenced, OnRow
<1>2. r \in Ref
  BY <1>1, RequestOf DEF RefsInv, RefsExact, RefTypeOK
<1>3. /\ refs \in [Ref -> RefRow \cup {NoRef, Deleted}]
      /\ answered \in [Ref -> RefRow \cup {NoRef, Deleted}]
      /\ linked \subseteq Ref
  BY DEF RefsInv, RefsExact, RefTypeOK
<1>4. /\ editors' \in [Editor -> RefRequest] /\ UNCHANGED <<linked, disputed>>
      /\ editors'[q] = RefIdle
      /\ \A p \in Editor \ {q} : editors'[p] = editors[p]
      /\ OneEditor'
  BY <1>1, ClosedKept
<1>5. /\ refs'[r] = Deleted /\ answered'[r] = Deleted
      /\ \A s \in Ref \ {r} : refs'[s] = refs[s] /\ answered'[s] = answered[s]
      /\ \A s \in Ref : Present(s)' <=> Present(s) /\ s # r
  BY <1>1, <1>2, <1>3 DEF Present
<1>6. RefTypeOK'
  BY <1>1, <1>2, <1>3, <1>4 DEF RefsInv, RefsExact, RefTypeOK
<1>7. RefCodesUnique'
  BY <1>5 DEF RefsInv, RefsExact, RefCodesUnique
<1>8. NothingOrphan'
  <2>1. ASSUME NEW s \in Ref, Present(s)' PROVE ParentFound(refs[s])'
    <3>1. /\ refs'[s] = refs[s] /\ refs[s] \in RefRow /\ refs[s].parent \in Ref \cup {NoRef}
          /\ Present(s) /\ s # r
      BY <1>2, <1>3, <1>5, <2>1 DEF Present, RefRow
    <3>2. ParentFound(refs[s]) /\ refs[s].parent # r
      BY <1>1, <3>1 DEF RefsInv, RefsExact, NothingOrphan, Children
    <3> QED
      BY <1>5, <3>1, <3>2 DEF ParentFound
  <2>2. \A s \in linked' : Present(s)'
    BY <1>1, <1>3, <1>4, <1>5 DEF RefsInv, RefsExact, NothingOrphan
  <2> QED
    BY <2>1, <2>2 DEF NothingOrphan
<1>9. QuietAnswerHolds'
  BY <1>4, <1>5 DEF RefsInv, RefsExact, QuietAnswerHolds
<1>10. ASSUME NEW p \in Editor PROVE EditorOK(editors[p])'
  <2>1. CASE p = q
    BY <1>4, <2>1, IsRequest DEF EditorOK
  <2>2. CASE p # q /\ editors[p].op \in OnRow
    <3>1. /\ editors[p].ref \in Ref /\ EditorOK(editors[p])
          /\ editors[p].ref = r => r \in disputed
      BY <1>1, <2>2, RequestOf DEF RefsInv, RefsExact, RefTypeOK, OneEditor
    <3> QED
      BY <1>4, <1>5, <2>2, <3>1, RefAssumption DEF EditorOK, Present
  <2>3. CASE p # q /\ editors[p].op \notin OnRow
    BY <1>4, <2>3 DEF EditorOK
  <2> QED
    BY <2>1, <2>2, <2>3
<1> QED
  BY <1>4, <1>6, <1>7, <1>8, <1>9, <1>10 DEF RefsInv, RefsExact

LEMMA LinkKept ==
  ASSUME RefsInv, NEW r \in Ref, LinkRef(r)
  PROVE  RefsInv'
<1>1. /\ UNCHANGED <<refs, editors, answered, disputed>> /\ Present(r)
      /\ linked' \subseteq linked \cup {r}
  BY DEF LinkRef
<1> QED
  BY <1>1 DEF RefsInv, RefsExact, RefTypeOK, RefCodesUnique, NothingOrphan, QuietAnswerHolds,
              ParentFound, Present, EditorOK, OneEditor

-----------------------------------------------------------------------------
LEMMA RefsStep == RefsInv /\ [RefNext]_refVars => RefsInv'
<1> SUFFICES ASSUME RefsInv, [RefNext]_refVars PROVE RefsInv'
  OBVIOUS
<1>1. CASE UNCHANGED refVars
  BY <1>1 DEF refVars, RefsInv, RefsExact, RefTypeOK, RefCodesUnique, NothingOrphan,
              QuietAnswerHolds, ParentFound, Present, EditorOK, OneEditor
<1>2. ASSUME NEW q \in Editor, RejectCreateRef(q) \/ RejectRef(q) \/ RejectDeleteRef(q)
      PROVE  RefsInv'
  BY <1>2, RejectKept DEF RejectCreateRef, RejectRef, RejectDeleteRef
<1> QED
  BY <1>1, <1>2, BeginKept, CreateKept, CommitKept, DeleteKept, LinkKept DEF RefNext

LEMMA RefsInvariant == RefSpec => []RefsInv
BY InitRefs, RefsStep, PTL DEF RefSpec

(* The reference tables, for any rows, forms and number of requests: codes *)
(* are unique, nothing is orphan, and an answer that nothing crossed is    *)
(* what the table holds.                                                   *)
THEOREM ReferencesAreExact == RefSpec => []RefsExact
<1>1. RefsInv => RefsExact
  BY DEF RefsInv
<1> QED
  BY <1>1, RefsInvariant, PTL

(* Only toggles, and edits that another request overlapped, change whether *)
(* a row is active.                                                        *)
THEOREM EditsKeepActive == RefSpec => OnlyStaleEditsReactivate
<1>1. ASSUME RefsInv, RefNext, NEW r \in Ref, Present(r), Present(r)',
             refs[r].actif # refs'[r].actif
      PROVE  \E q \in Editor :
               /\ r \in OnRef(editors[q]) /\ editors'[q] = RefIdle
               /\ editors[q].op = "update" => r \in disputed
  <2>1. /\ refs \in [Ref -> RefRow \cup {NoRef, Deleted}] /\ editors \in [Editor -> RefRequest]
    BY <1>1 DEF RefsInv, RefsExact, RefTypeOK
  <2>2. ASSUME NEW q \in Editor, NEW s \in Ref, CommitCreateRef(q, s)
        PROVE  FALSE
    BY <1>1, <2>1, <2>2 DEF CommitCreateRef, Present
  <2>3. ASSUME NEW q \in Editor, CommitDeleteRef(q)
        PROVE  FALSE
    BY <1>1, <2>1, <2>3 DEF CommitDeleteRef, Present
  <2>4. refs' # refs
    BY <1>1
  <2>5. PICK q \in Editor : CommitRef(q)
    BY <1>1, <2>2, <2>3, <2>4
       DEF RefNext, BeginCreateRef, BeginUpdateRef, BeginToggleRef, BeginDeleteRef, OpenEditor,
           RejectCreateRef, RejectRef, RejectDeleteRef, LinkRef
  <2>6. /\ editors[q].op \in OnRow /\ editors[q].op # "delete" /\ editors'[q] = RefIdle
        /\ OnRef(editors[q]) = {editors[q].ref} /\ editors[q].ref \in Ref
    BY <2>1, <2>5, RequestOf DEF CommitRef, CloseEditor, OnRow
  <2>7. editors[q].ref = r
    BY <1>1, <2>1, <2>5, <2>6 DEF CommitRef
  <2>8. refs'[r].actif = editors[q].patched.actif
    BY <1>1, <2>1, <2>5, <2>6, <2>7 DEF CommitRef, SavedRow
  <2>9. editors[q].op = "update" => r \in disputed
    BY <1>1, <2>6, <2>7, <2>8 DEF RefsInv, EditorOK
  <2> QED
    BY <2>6, <2>7, <2>9
<1>2. RefsInv /\ [RefNext]_refVars =>
        [\A r \in Ref :
           Present(r) /\ Present(r)' /\ refs[r].actif # refs'[r].actif =>
             \E q \in Editor :
               /\ r \in OnRef(editors[q]) /\ editors'[q] = RefIdle
               /\ editors[q].op = "update" => r \in disputed]_refVars
  BY <1>1
<1> QED
  BY <1>2, RefsInvariant, PTL DEF RefSpec, OnlyStaleEditsReactivate

-----------------------------------------------------------------------------
(***************************************************************************)
(* VolumeSnapshot: one snapshot of a link and a month, of volumes the link *)
(* held together, for each row that a run counts.                          *)
(***************************************************************************)

(* What a process may be at.                                               *)
Process ==
  {NotRunning}
    \cup [stage : {"read"}, periode : 0 .. MaxMonth]
    \cup [stage : {"loop", "success"}, periode : 0 .. MaxMonth,
          todo : SUBSET Snapshot, kept : SUBSET Snapshot, errors : Nat]

Typed ==
  /\ month \in 0 .. MaxMonth
  /\ links \in [Link -> LinkRow]
  /\ history \subseteq Snapshot
  /\ executions \in [Execution -> Process]

(* The link held these volumes together, in the month of the row or later. *)
WasHeld(row) ==
  \E held \in heldIn :
    /\ held.link = row.link /\ held.month >= row.periode
    /\ held.row.autorise = row.autorise /\ held.row.consomme = row.consomme
    /\ held.row.controle

InLoop(e) == executions[e].stage \in {"loop", "success"}

(* What a run has still to insert was held too, and no run is of a month   *)
(* to come: the SELECT follows the computation of the month.               *)
HeldInv ==
  /\ Held(links, month) \subseteq heldIn
  /\ \A e \in Execution : executions[e].stage = "read" => executions[e].periode <= month
  /\ \A h \in history : WasHeld(h)
  /\ \A e \in Execution : InLoop(e) => \A row \in executions[e].todo : WasHeld(row)

SnapshotInv == Typed /\ HeldInv /\ OneSnapshotPerMonth /\ CountedMeansKept

-----------------------------------------------------------------------------
LEMMA InitSnapshotInv == SnapshotInit => SnapshotInv
<1> SUFFICES ASSUME SnapshotInit PROVE SnapshotInv
  OBVIOUS
<1>1. \A e \in Execution : executions[e] = NotRunning
  BY DEF SnapshotInit
<1>2. NotRunning.stage = "idle"
  BY DEF NotRunning
<1>3. Typed
  <2>1. MaxVolume \in Volume /\ 0 \in Volume /\ month \in 0 .. MaxMonth
    BY SnapshotAssumption DEF SnapshotInit, Volume
  <2>2. /\ [autorise |-> MaxVolume, consomme |-> 0, controle |-> TRUE] \in LinkRow
        /\ [autorise |-> NoVolume, consomme |-> NoVolume, controle |-> TRUE] \in LinkRow
    BY <2>1 DEF LinkRow
  <2>3. links \in [Link -> LinkRow]
    BY <2>2 DEF SnapshotInit
  <2>4. executions \in [Execution -> Process]
    BY DEF SnapshotInit, Process
  <2> QED
    BY <2>1, <2>3, <2>4 DEF SnapshotInit, Typed
<1>4. \A e \in Execution : executions[e].stage = "idle"
  BY <1>1, <1>2
<1>5. history = {} /\ heldIn = Held(links, 0) /\ month = 0
  BY DEF SnapshotInit
<1>6. HeldInv
  BY <1>4, <1>5 DEF HeldInv, InLoop
<1>7. OneSnapshotPerMonth /\ CountedMeansKept
  BY <1>4, <1>5 DEF OneSnapshotPerMonth, CountedMeansKept
<1> QED
  BY <1>3, <1>6, <1>7 DEF SnapshotInv

(* A link changes or a month turns: the runs and the table stay, and what  *)
(* was ever held is remembered.                                            *)
LEMMA WorldMoves ==
  ASSUME SnapshotInv, UNCHANGED <<history, executions>>,
         month \in Int, month' \in 0 .. MaxMonth, month <= month',
         links' \in [Link -> LinkRow],
         heldIn' = heldIn \cup Held(links', month')
  PROVE  SnapshotInv'
<1>1. Typed'
  BY DEF SnapshotInv, Typed
<1>2. \A row : WasHeld(row) => WasHeld(row)'
  BY DEF WasHeld
<1>3. \A e \in Execution : executions[e].stage = "read" => executions[e].periode <= month'
  <2> TAKE e \in Execution
  <2> HAVE executions[e].stage = "read"
  <2>1. executions[e] \in Process /\ executions[e].periode <= month
    BY DEF SnapshotInv, Typed, HeldInv
  <2>2. executions[e].periode \in 0 .. MaxMonth
    BY <2>1 DEF Process, NotRunning
  <2> QED
    BY <2>1, <2>2
<1>4. HeldInv'
  BY <1>2, <1>3 DEF SnapshotInv, HeldInv, InLoop
<1> QED
  BY <1>1, <1>4 DEF SnapshotInv, OneSnapshotPerMonth, CountedMeansKept, AlreadyKept

LEMMA ChangeKeeps ==
  ASSUME SnapshotInv, NEW l \in Link, ChangeLink(l)
  PROVE  SnapshotInv'
<1>1. month \in Int /\ month' = month /\ month \in 0 .. MaxMonth
  BY DEF ChangeLink, SnapshotInv, Typed
<1>2. links \in [Link -> LinkRow]
  BY DEF SnapshotInv, Typed
<1>3. CASE \E a \in Volume, c \in Volume :
             links' = [links EXCEPT ![l].autorise = a, ![l].consomme = c]
  <2>1. PICK a \in Volume, c \in Volume :
          links' = [links EXCEPT ![l].autorise = a, ![l].consomme = c]
    BY <1>3
  <2>2. [[links[l] EXCEPT !.autorise = a] EXCEPT !.consomme = c] \in LinkRow
    BY <1>2 DEF LinkRow
  <2>3. links' = [links EXCEPT ![l] = [[links[l] EXCEPT !.autorise = a] EXCEPT !.consomme = c]]
    BY <1>2, <2>1
  <2>4. links' \in [Link -> LinkRow]
    BY <1>2, <2>2, <2>3
  <2> QED
    BY <1>1, <2>4, WorldMoves DEF ChangeLink
<1>4. CASE links' = [links EXCEPT ![l].controle = ~@]
  <2>1. [links[l] EXCEPT !.controle = ~@] \in LinkRow
    BY <1>2 DEF LinkRow
  <2>2. links' \in [Link -> LinkRow]
    BY <1>2, <1>4, <2>1
  <2> QED
    BY <1>1, <2>2, WorldMoves DEF ChangeLink
<1> QED
  BY <1>3, <1>4 DEF ChangeLink

(* A step of one run that leaves the world alone and only adds to the      *)
(* table: what is left to show is about that run.                          *)
LEMMA RunMoves ==
  ASSUME SnapshotInv, NEW e \in Execution, NEW run \in Process,
         UNCHANGED <<month, links, heldIn>>,
         executions' = [executions EXCEPT ![e] = run],
         history \subseteq history', history' \subseteq Snapshot,
         \A h \in history' : WasHeld(h),
         OneSnapshotPerMonth',
         run.stage = "read" => run.periode <= month,
         run.stage \in {"loop", "success"} =>
           /\ \A row \in run.todo : WasHeld(row)
           /\ \A row \in run.kept : AlreadyKept(row)'
  PROVE  SnapshotInv'
<1>1. Typed'
  BY DEF SnapshotInv, Typed
<1>2. /\ executions'[e] = run
      /\ \A f \in Execution \ {e} : executions'[f] = executions[f]
  BY DEF SnapshotInv, Typed
<1>3. \A row : WasHeld(row)' = WasHeld(row)
  BY DEF WasHeld
<1>4. HeldInv'
  BY <1>2, <1>3 DEF SnapshotInv, HeldInv, InLoop
<1>5. \A row : AlreadyKept(row) => AlreadyKept(row)'
  BY DEF AlreadyKept
<1>6. CountedMeansKept'
  BY <1>2, <1>5 DEF SnapshotInv, CountedMeansKept
<1> QED
  BY <1>1, <1>4, <1>6 DEF SnapshotInv

LEMMA RunKeeps ==
  ASSUME SnapshotInv, NEW e \in Execution,
         \/ StartExecution(e) \/ ReadLinks(e) \/ RecordSnapshot(e) \/ FailSnapshot(e)
         \/ FinishExecution(e) \/ ExecutionDies(e)
  PROVE  SnapshotInv'
<1> DEFINE run == executions[e]
<1>1. /\ month \in 0 .. MaxMonth /\ links \in [Link -> LinkRow] /\ history \subseteq Snapshot
      /\ executions \in [Execution -> Process] /\ run \in Process
      /\ \A h \in history : WasHeld(h)
      /\ OneSnapshotPerMonth
  BY DEF SnapshotInv, Typed, HeldInv
<1>2. run.stage \in {"loop", "success"} =>
        /\ run \in [stage : {"loop", "success"}, periode : 0 .. MaxMonth,
                    todo : SUBSET Snapshot, kept : SUBSET Snapshot, errors : Nat]
        /\ \A row \in run.todo : WasHeld(row)
        /\ \A row \in run.kept : AlreadyKept(row)
  BY <1>1 DEF SnapshotInv, HeldInv, InLoop, CountedMeansKept, Process, NotRunning
<1>3. history' = history => OneSnapshotPerMonth' /\ \A row : AlreadyKept(row)' = AlreadyKept(row)
  BY <1>1 DEF OneSnapshotPerMonth, AlreadyKept
<1>4. CASE StartExecution(e)
  <2> DEFINE new == [stage |-> "read", periode |-> month]
  <2>1. new \in Process /\ new.stage = "read" /\ new.periode <= month
    BY <1>1 DEF Process
  <2>2. executions' = [executions EXCEPT ![e] = new] /\ UNCHANGED <<month, links, history, heldIn>>
    BY <1>4 DEF StartExecution
  <2> HIDE DEF new
  <2> QED
    BY <1>1, <1>3, <2>1, <2>2, RunMoves
<1>5. CASE ReadLinks(e)
  <2> DEFINE todo == {SnapshotOf(l, run.periode) : l \in {k \in Link : Eligible(links[k])}}
             new == [stage |-> "loop", periode |-> run.periode, todo |-> todo,
                     kept |-> {}, errors |-> 0]
  <2>1. run.stage = "read" /\ executions' = [executions EXCEPT ![e] = new]
        /\ UNCHANGED <<month, links, history, heldIn>>
    BY <1>5 DEF ReadLinks
  <2>2. run.periode \in 0 .. MaxMonth /\ run.periode <= month
    BY <1>1, <2>1 DEF SnapshotInv, HeldInv, Process, NotRunning
  <2>3. ASSUME NEW l \in Link, Eligible(links[l])
        PROVE  SnapshotOf(l, run.periode) \in Snapshot /\ WasHeld(SnapshotOf(l, run.periode))
    <3>1. links[l] \in LinkRow /\ links[l].autorise \in Volume /\ links[l].consomme \in Volume
          /\ links[l].controle
      BY <1>1, <2>3 DEF LinkRow, Eligible
    <3>2. SnapshotOf(l, run.periode) \in Snapshot
      BY <2>2, <3>1 DEF SnapshotOf, Snapshot
    <3> DEFINE held == [link |-> l, month |-> month, row |-> links[l]]
    <3>3. held \in heldIn
      BY DEF SnapshotInv, HeldInv, Held
    <3>4. /\ held.link = l /\ held.month = month /\ held.row = links[l]
          /\ SnapshotOf(l, run.periode).link = l
          /\ SnapshotOf(l, run.periode).periode = run.periode
          /\ SnapshotOf(l, run.periode).autorise = links[l].autorise
          /\ SnapshotOf(l, run.periode).consomme = links[l].consomme
      BY DEF SnapshotOf
    <3> HIDE DEF held
    <3>5. WasHeld(SnapshotOf(l, run.periode))
      BY <2>2, <3>1, <3>3, <3>4 DEF WasHeld
    <3> QED
      BY <3>2, <3>5
  <2>4. todo \in SUBSET Snapshot /\ \A row \in todo : WasHeld(row)
    BY <2>3
  <2> HIDE DEF todo
  <2>5. new \in Process
    BY <2>2, <2>4 DEF Process
  <2>6. new.stage = "loop" /\ new.todo = todo /\ new.kept = {}
    OBVIOUS
  <2> HIDE DEF new
  <2> QED
    BY <1>1, <1>3, <2>1, <2>4, <2>5, <2>6, RunMoves
<1>6. CASE RecordSnapshot(e)
  <2> DEFINE new(row) == [run EXCEPT !.todo = @ \ {row}, !.kept = @ \cup {row}]
  <2>1. run.stage = "loop" /\ UNCHANGED <<month, links, heldIn>>
    BY <1>6 DEF RecordSnapshot
  <2>2. PICK row \in run.todo :
          /\ history' = IF AlreadyKept(row) THEN history ELSE history \cup {row}
          /\ executions' = [executions EXCEPT ![e] = new(row)]
    BY <1>6 DEF RecordSnapshot
  <2>3. row \in Snapshot /\ WasHeld(row)
    BY <1>2, <2>1, <2>2
  <2>4. /\ new(row) \in Process /\ new(row).stage = "loop"
        /\ new(row).todo = run.todo \ {row} /\ new(row).kept = run.kept \cup {row}
    BY <1>2, <2>1, <2>3 DEF Process
  <2> HIDE DEF new
  <2>5. AlreadyKept(row)' /\ \A k : AlreadyKept(k) => AlreadyKept(k)'
    BY <2>2 DEF AlreadyKept
  <2>6. OneSnapshotPerMonth'
    BY <1>1, <2>2 DEF OneSnapshotPerMonth, AlreadyKept
  <2>7. history \subseteq history' /\ history' \subseteq Snapshot /\ \A h \in history' : WasHeld(h)
    BY <1>1, <2>2, <2>3
  <2> QED
    BY <1>2, <2>1, <2>2, <2>4, <2>5, <2>6, <2>7, RunMoves
<1>7. CASE FailSnapshot(e)
  <2> DEFINE new(row) == [run EXCEPT !.todo = @ \ {row}, !.errors = @ + 1]
  <2>1. run.stage = "loop" /\ UNCHANGED <<month, links, history, heldIn>>
    BY <1>7 DEF FailSnapshot
  <2>2. PICK row \in run.todo : executions' = [executions EXCEPT ![e] = new(row)]
    BY <1>7 DEF FailSnapshot, FailureCounted
  <2>3. run.errors \in Nat
    BY <1>2, <2>1
  <2>4. run.errors + 1 \in Nat
    BY <2>3
  <2>5. /\ new(row) \in Process /\ new(row).stage = "loop"
        /\ new(row).todo = run.todo \ {row} /\ new(row).kept = run.kept
    BY <1>2, <2>1, <2>4 DEF Process
  <2> HIDE DEF new
  <2> QED
    BY <1>1, <1>2, <1>3, <2>1, <2>2, <2>5, RunMoves
<1>8. CASE FinishExecution(e)
  <2> DEFINE new == [run EXCEPT !.stage = "success"]
  <2>1. run.stage = "loop" /\ UNCHANGED <<month, links, history, heldIn>>
        /\ executions' = [executions EXCEPT ![e] = new]
    BY <1>8 DEF FinishExecution
  <2>2. new \in Process /\ new.stage = "success" /\ new.todo = run.todo /\ new.kept = run.kept
    BY <1>2, <2>1 DEF Process
  <2> HIDE DEF new
  <2> QED
    BY <1>1, <1>2, <1>3, <2>1, <2>2, RunMoves
<1>9. CASE ExecutionDies(e)
  <2>1. NotRunning \in Process /\ NotRunning.stage = "idle"
    BY DEF Process, NotRunning
  <2>2. executions' = [executions EXCEPT ![e] = NotRunning]
        /\ UNCHANGED <<month, links, history, heldIn>>
    BY <1>9 DEF ExecutionDies
  <2> QED
    BY <1>1, <1>3, <2>1, <2>2, RunMoves
<1> QED
  BY <1>4, <1>5, <1>6, <1>7, <1>8, <1>9

LEMMA NextSnapshotInv == SnapshotInv /\ [SnapshotNext]_snapshotVars => SnapshotInv'
<1> SUFFICES ASSUME SnapshotInv, [SnapshotNext]_snapshotVars PROVE SnapshotInv'
  OBVIOUS
<1>1. CASE NextMonth
  <2>1. /\ month \in 0 .. MaxMonth /\ month < MaxMonth /\ month' = month + 1
        /\ links' \in [Link -> LinkRow] /\ UNCHANGED <<links, history, executions>>
        /\ heldIn' = heldIn \cup Held(links', month')
    BY <1>1 DEF NextMonth, SnapshotInv, Typed
  <2>2. month \in Int /\ month' \in 0 .. MaxMonth /\ month <= month'
    BY <2>1, SnapshotAssumption
  <2> QED
    BY <2>1, <2>2, WorldMoves
<1>2. CASE UNCHANGED snapshotVars
  BY <1>2 DEF snapshotVars, SnapshotInv, Typed, HeldInv, WasHeld, InLoop, Held,
              OneSnapshotPerMonth, CountedMeansKept, AlreadyKept
<1> QED
  BY <1>1, <1>2, ChangeKeeps, RunKeeps DEF SnapshotNext

(* However many runs overlap or die, a link has at most one snapshot of a  *)
(* month, of volumes it held together in that month or after, and every    *)
(* row a run counts has one.                                               *)
THEOREM SnapshotsAreExact == SnapshotSpec => []SnapshotsExact
<1>1. SnapshotInv => SnapshotsExact
  <2> SUFFICES ASSUME SnapshotInv PROVE SnapshotsExact
    OBVIOUS
  <2>1. SnapshotTypeOK
    BY DEF SnapshotInv, Typed, SnapshotTypeOK, Process, NotRunning
  <2>2. SnapshotWasHeld
    BY DEF SnapshotInv, HeldInv, WasHeld, SnapshotWasHeld
  <2> QED
    BY <2>1, <2>2 DEF SnapshotInv, SnapshotsExact
<1> QED
  BY <1>1, InitSnapshotInv, NextSnapshotInv, PTL DEF SnapshotSpec

-----------------------------------------------------------------------------
(***************************************************************************)
(* Listing, by identity: a reader of pages misses no row and sees none     *)
(* twice, and an export has no gap.                                        *)
(***************************************************************************)

-----------------------------------------------------------------------------
(* Sets of numbers, sets of rows. *)

(* A non-empty set of naturals has a least element. *)
LEMMA LeastNatural ==
  ASSUME NEW S \in SUBSET Nat, S # {}
  PROVE  \E n \in S : \A m \in S : n <= m
<1> DEFINE Below == OpToRel(<, Nat)
<1>1. IsWellFoundedOn(Below, Nat)
  BY NatLessThanWellFounded
<1>2. \A m, n \in Nat : m < n => <<m, n>> \in Below
  BY DEF OpToRel
<1> HIDE DEF Below
<1>3. PICK n \in S : \A m \in S : ~ (<<m, n>> \in Below)
  BY <1>1, WFMin
<1>4. ASSUME NEW m \in S PROVE n <= m
  <2>1. ~ (m < n)
    BY <1>2, <1>3
  <2> QED
    BY <2>1
<1> QED
  BY <1>4

(* Rows of the table, no two with one identity. *)
Rows(R) == R \subseteq Row /\ \A r, s \in R : r.id = s.id => r = s

LEMMA RowNumbers ==
  ASSUME NEW r \in Row
  PROVE  r.id \in Nat /\ r.id \in 1 .. MaxRows
BY ListingAssumption DEF Row

LEMMA RowsFinite ==
  ASSUME NEW R, Rows(R)
  PROVE  IsFiniteSet(R)
<1> DEFINE id == [r \in R |-> r.id]
<1>1. id \in Injection(R, 1 .. MaxRows)
  BY RowNumbers DEF Rows, Injection, IsInjective
<1>2. IsFiniteSet(1 .. MaxRows)
  BY FS_Interval, ListingAssumption
<1> QED
  BY <1>1, <1>2, FS_Injection

LEMMA SomeRows ==
  ASSUME NEW R, Rows(R), NEW S \in SUBSET R
  PROVE  Rows(S) /\ IsFiniteSet(S) /\ Cardinality(S) \in Nat
         /\ Cardinality(S) <= Cardinality(R)
<1>1. Rows(S) /\ IsFiniteSet(S) /\ IsFiniteSet(R)
  BY RowsFinite DEF Rows
<1> QED
  BY <1>1, FS_CardinalityType, FS_Subset

LEMMA OldestRow ==
  ASSUME NEW R, Rows(R), R # {}
  PROVE  \E r \in R : \A s \in R : r.id <= s.id
<1> DEFINE Ids == {r.id : r \in R}
<1>1. Ids \in SUBSET Nat /\ Ids # {}
  BY RowNumbers DEF Rows
<1>2. PICK n \in Ids : \A m \in Ids : n <= m
  <2> HIDE DEF Ids
  <2> QED
    BY <1>1, LeastNatural
<1>3. PICK r \in R : r.id = n
  BY <1>2
<1> QED
  BY <1>2, <1>3

LEMMA NewestRow ==
  ASSUME NEW R, Rows(R), R # {}
  PROVE  \E r \in R : \A s \in R : s.id <= r.id
<1> DEFINE Ranks == {MaxRows - r.id : r \in R}
<1>1. Ranks \in SUBSET Nat /\ Ranks # {}
  BY RowNumbers, ListingAssumption DEF Rows
<1>2. PICK n \in Ranks : \A m \in Ranks : n <= m
  <2> HIDE DEF Ranks
  <2> QED
    BY <1>1, LeastNatural
<1>3. PICK r \in R : MaxRows - r.id = n
  BY <1>2
<1>4. ASSUME NEW s \in R PROVE s.id <= r.id
  <2>1. MaxRows - r.id <= MaxRows - s.id
    BY <1>2, <1>3
  <2> QED
    BY <2>1, RowNumbers, ListingAssumption DEF Rows
<1> QED
  BY <1>4

-----------------------------------------------------------------------------
(* A page of a list by identity. *)

ById == Kind = "id"

LEMMA PrecedesById ==
  ASSUME ById, NEW r, NEW s
  PROVE  Precedes(r, s) <=> r.id > s.id
BY DEF ById, Precedes

(* The rows before a row of the list. *)
Newer(R, r) == {s \in R : Precedes(s, r)}

LEMMA FirstOfIs ==
  ASSUME NEW R, NEW n
  PROVE  FirstOf(R, n) = {r \in R : Cardinality(Newer(R, r)) < n}
BY DEF FirstOf, Newer

(* Whatever precedes a row of the page is on the page. *)
LEMMA PageIsAHead ==
  ASSUME ById, NEW R, Rows(R), NEW n \in Nat,
         NEW r \in FirstOf(R, n), NEW s \in R, s.id >= r.id
  PROVE  s \in FirstOf(R, n)
<1>1. r \in R /\ Cardinality(Newer(R, r)) < n
  BY FirstOfIs
<1>2. Newer(R, s) \in SUBSET Newer(R, r)
  BY <1>1, PrecedesById, RowNumbers DEF Newer, Rows
<1>3. Rows(Newer(R, r)) /\ Cardinality(Newer(R, r)) \in Nat
  BY SomeRows DEF Newer
<1>4. Cardinality(Newer(R, s)) \in Nat /\ Cardinality(Newer(R, s)) <= Cardinality(Newer(R, r))
  BY <1>2, <1>3, SomeRows
<1> QED
  BY <1>1, <1>3, <1>4, FirstOfIs

LEMMA PageHoldsTheNewest ==
  ASSUME ById, NEW R, Rows(R), R # {}, NEW n \in Nat \ {0}
  PROVE  FirstOf(R, n) # {}
<1>1. PICK r \in R : \A s \in R : s.id <= r.id
  BY NewestRow
<1>2. Newer(R, r) = {}
  BY <1>1, PrecedesById, RowNumbers DEF Newer, Rows
<1> QED
  BY <1>2, FirstOfIs, FS_EmptySet

LEMMA PageSize ==
  ASSUME ById, NEW R, Rows(R), NEW n \in Nat
  PROVE  /\ FirstOf(R, n) \subseteq R
         /\ Cardinality(FirstOf(R, n)) \in Nat
         /\ Cardinality(FirstOf(R, n)) <= n
<1> DEFINE P == FirstOf(R, n)
<1>1. P \in SUBSET R
  BY FirstOfIs
<1>2. Rows(P) /\ IsFiniteSet(P) /\ Cardinality(P) \in Nat
  BY <1>1, SomeRows
<1>3. CASE P = {}
  BY <1>1, <1>3, FS_EmptySet
<1>4. CASE P # {}
  <2>1. PICK r \in P : \A s \in P : r.id <= s.id
    BY <1>2, <1>4, OldestRow
  <2>2. P \ {r} \in SUBSET Newer(R, r)
    <3>1. ASSUME NEW s \in P, s # r PROVE s.id > r.id
      <4>1. s \in Row /\ r \in Row /\ s.id # r.id /\ r.id <= s.id
        BY <1>2, <2>1, <3>1 DEF Rows
      <4> QED
        BY <4>1, RowNumbers
    <3> QED
      BY <1>1, <3>1, PrecedesById DEF Newer
  <2>3. Rows(Newer(R, r)) /\ Cardinality(Newer(R, r)) \in Nat
    BY SomeRows DEF Newer
  <2>4. Cardinality(P \ {r}) <= Cardinality(Newer(R, r))
    BY <2>2, <2>3, SomeRows
  <2>5. Cardinality(P \ {r}) = Cardinality(P) - 1
    BY <1>2, <2>1, FS_RemoveElement
  <2>6. Cardinality(Newer(R, r)) < n
    BY <2>1, FirstOfIs
  <2> QED
    BY <1>1, <1>2, <2>3, <2>4, <2>5, <2>6
<1> QED
  BY <1>3, <1>4

(* A page larger than the list holds the list. *)
LEMMA LastPage ==
  ASSUME ById, NEW R, Rows(R), NEW n \in Nat, Cardinality(R) <= n
  PROVE  FirstOf(R, n) = R
<1>1. ASSUME NEW r \in R PROVE Cardinality(Newer(R, r)) < n
  <2>1. Newer(R, r) \in SUBSET (R \ {r}) /\ R \ {r} \in SUBSET R
    BY PrecedesById, RowNumbers DEF Newer, Rows
  <2>2. Rows(R \ {r}) /\ IsFiniteSet(R) /\ Cardinality(R) \in Nat
    BY <2>1, SomeRows, RowsFinite, FS_CardinalityType
  <2>3. Cardinality(Newer(R, r)) \in Nat /\ Cardinality(Newer(R, r)) <= Cardinality(R \ {r})
    BY <2>1, <2>2, SomeRows
  <2>4. Cardinality(R \ {r}) = Cardinality(R) - 1
    BY <2>2, FS_RemoveElement
  <2> QED
    BY <2>2, <2>3, <2>4
<1> QED
  BY <1>1, FirstOfIs

LEMMA LastOfIsOldest ==
  ASSUME ById, NEW R, Rows(R), R # {}
  PROVE  LastOf(R) \in R /\ \A s \in R : LastOf(R).id <= s.id
<1>1. PICK r \in R : \A s \in R : r.id <= s.id
  BY OldestRow
<1>2. \A s \in R \ {r} : Precedes(s, r)
  <2>1. ASSUME NEW s \in R, s # r PROVE s.id > r.id
    <3>1. s \in Row /\ r \in Row /\ s.id # r.id /\ r.id <= s.id
      BY <1>1, <2>1 DEF Rows
    <3> QED
      BY <3>1, RowNumbers
  <2> QED
    BY <2>1, PrecedesById
<1>3. LastOf(R) \in R /\ \A s \in R \ {LastOf(R)} : Precedes(s, LastOf(R))
  BY <1>2 DEF LastOf
<1>4. ASSUME NEW s \in R PROVE LastOf(R).id <= s.id
  BY <1>3, PrecedesById, RowNumbers DEF Rows
<1> QED
  BY <1>3, <1>4

(* What a SELECT returns: listed rows of the right side of the cursor, at  *)
(* most Limit of them; all of them when no page follows; and otherwise a   *)
(* cursor which none of the rows of the page is older than, and none of    *)
(* the rows left out is not older than.                                    *)
Ahead(cursor) == {r \in listed : cursor = NoCursor \/ r.id < cursor.id}

LEMMA PageById ==
  ASSUME ById, Rows(listed), NEW cursor
  PROVE  /\ Page(cursor).items \subseteq Ahead(cursor)
         /\ Cardinality(Page(cursor).items) \in 0 .. Limit
         /\ Page(cursor).next = NoCursor => Page(cursor).items = Ahead(cursor)
         /\ Page(cursor).next # NoCursor =>
              /\ Page(cursor).next.id \in 1 .. MaxRows
              /\ cursor # NoCursor => Page(cursor).next.id < cursor.id
              /\ \A r \in Page(cursor).items : r.id >= Page(cursor).next.id
              /\ \A r \in Ahead(cursor) :
                   r.id >= Page(cursor).next.id => r \in Page(cursor).items
<1> DEFINE A == Ahead(cursor)
           P == FirstOf(A, Limit)
           c == EncodeCursor(LastOf(P))
<1>1. Limit \in Nat \ {0} /\ Limit \in Nat
  BY ListingAssumption
<1>2. Page(cursor).items = P
  BY DEF Page, AfterCursor, ById, Ahead
<1>3. Page(cursor).next = IF Cardinality(A) > Limit THEN c ELSE NoCursor
  BY DEF Page, AfterCursor, ById, Ahead, CursorRow
<1>4. A \in SUBSET listed
  BY DEF Ahead
<1>5. Rows(A) /\ IsFiniteSet(A) /\ Cardinality(A) \in Nat
  BY <1>4, SomeRows
<1> HIDE DEF A
<1>6. P \subseteq A /\ Cardinality(P) \in 0 .. Limit
  BY <1>1, <1>5, PageSize
<1>7. CASE Cardinality(A) <= Limit
  <2>1. P = A
    BY <1>1, <1>5, <1>7, LastPage
  <2>2. Page(cursor).next = NoCursor
    BY <1>1, <1>3, <1>5, <1>7
  <2> QED
    BY <1>2, <1>6, <2>1, <2>2 DEF A
<1>8. CASE Cardinality(A) > Limit
  <2>1. A # {}
    BY <1>1, <1>8, FS_EmptySet
  <2>2. P # {}
    BY <1>1, <1>5, <2>1, PageHoldsTheNewest
  <2>3. Rows(P)
    BY <1>5, <1>6, SomeRows
  <2>4. LastOf(P) \in P /\ \A s \in P : LastOf(P).id <= s.id
    BY <2>2, <2>3, LastOfIsOldest
  <2>5. c.id = LastOf(P).id
    BY DEF EncodeCursor
  <2>6. c.id \in 1 .. MaxRows
    BY <2>3, <2>4, <2>5, RowNumbers DEF Rows
  <2>7. Page(cursor).next = c /\ c # NoCursor
    BY <1>3, <1>8, <2>6, ListingAssumption DEF NoCursor
  <2>8. \A r \in P : r.id >= c.id
    <3>1. \A r \in P : r.id \in Nat
      BY <2>3, RowNumbers DEF Rows
    <3> QED
      BY <2>4, <2>5, <2>6, <3>1
  <2>9. \A r \in A : r.id >= c.id => r \in P
    BY <1>1, <1>5, <2>4, <2>5, PageIsAHead
  <2>10. cursor # NoCursor => c.id < cursor.id
    BY <1>6, <2>4, <2>5 DEF A, Ahead
  <2> HIDE DEF P, c
  <2> QED
    BY <1>2, <1>6, <2>6, <2>7, <2>8, <2>9, <2>10 DEF A
<1> QED
  BY <1>1, <1>5, <1>7, <1>8

-----------------------------------------------------------------------------
(* The invariant: what has been read is older than what will be inserted,  *)
(* and a reader has met every row that still stands on his side of the     *)
(* cursor.                                                                 *)

Instants == 0 .. MaxInstant

TransactionOK ==
  open = NoTransaction \/ (open.at \in Instants /\ open = [rows |-> open.rows, at |-> open.at])

Seen == IF reader.stage = "idle" THEN {} ELSE reader.seen

Known == listed \cup open.rows \cup Seen

TableOK ==
  /\ instant \in Instants /\ inserted \in 0 .. MaxRows
  /\ TransactionOK
  /\ Rows(Known)
  /\ \A r \in Known : r.id <= inserted
  /\ due \subseteq listed

(* A reader between two pages.                                             *)
Turned(cursor, seen) ==
  /\ cursor.id \in 1 .. MaxRows
  /\ \A r \in seen : r.id >= cursor.id
  /\ \A r \in due : r.id >= cursor.id => r \in seen

PagesReader ==
  /\ reader = [stage |-> "pages", cursor |-> reader.cursor, seen |-> reader.seen, twice |-> FALSE]
  /\ Turned(reader.cursor, reader.seen)

DoneReader ==
  /\ reader = [stage |-> "done", cursor |-> NoCursor, seen |-> reader.seen, twice |-> FALSE]
  /\ due \subseteq reader.seen

ExportReader ==
  /\ reader = [stage |-> "export", total |-> reader.total, cursor |-> reader.cursor,
               seen |-> reader.seen, pulled |-> reader.pulled, ended |-> reader.ended]
  /\ reader.total \in Nat /\ reader.ended \in BOOLEAN
  /\ reader.pulled = Cardinality(reader.seen)
  /\ reader.pulled \in Nat /\ reader.pulled < reader.total + Limit
  /\ reader.ended => due \subseteq reader.seen
  /\ ~ reader.ended /\ reader.cursor = NoCursor => reader.seen = {}
  /\ ~ reader.ended /\ reader.cursor # NoCursor => Turned(reader.cursor, reader.seen)

ReaderOK == reader = NotReading \/ PagesReader \/ DoneReader \/ ExportReader

ListInv == TableOK /\ ReaderOK

(* The invariant is enough.                                                *)
LEMMA ListInvExact ==
  ASSUME ById, ListInv
  PROVE  PagesExact
<1>1. Rows(Seen) /\ Rows(due)
  BY DEF ListInv, TableOK, Known, Rows
<1>2. NothingSkipped /\ NothingTwice
  BY DEF ListInv, ReaderOK, NotReading, PagesReader, DoneReader, ExportReader,
         NothingSkipped, NothingTwice
<1>3. CASE reader.stage # "export"
  BY <1>2, <1>3 DEF PagesExact, ExportGapless, ExportBounded, Exported
<1>4. CASE reader.stage = "export"
  <2>1. ExportReader /\ Seen = reader.seen
    BY <1>4 DEF ListInv, ReaderOK, NotReading, PagesReader, DoneReader, Seen
  <2>2. ASSUME Exported, NEW row \in due \ reader.seen, NEW r \in reader.seen
        PROVE  row.id < r.id
    <3>1. ~ reader.ended /\ reader.cursor # NoCursor
      BY <2>1, <2>2 DEF ExportReader
    <3>2. Turned(reader.cursor, reader.seen)
      BY <2>1, <3>1 DEF ExportReader
    <3>3. row.id \in Nat /\ r.id \in Nat
      BY <1>1, <2>1, <2>2, RowNumbers DEF Rows
    <3>4. reader.cursor.id \in 1 .. MaxRows /\ r.id >= reader.cursor.id
          /\ ~ (row.id >= reader.cursor.id)
      BY <2>2, <3>2 DEF Turned
    <3> QED
      BY <3>3, <3>4
  <2>3. ExportGapless
    <3>1. ASSUME Exported, NEW row \in due \ reader.seen, NEW r \in reader.seen
          PROVE  Precedes(r, row)
      <4>1. row.id < r.id
        BY <2>2, <3>1
      <4>2. row.id \in Nat /\ r.id \in Nat
        BY <1>1, <2>1, <3>1, RowNumbers DEF Rows
      <4> QED
        BY <4>1, <4>2, PrecedesById
    <3> QED
      BY <3>1 DEF ExportGapless
  <2>4. ExportBounded
    BY <2>1 DEF ExportBounded, ExportReader
  <2> QED
    BY <1>2, <2>3, <2>4 DEF PagesExact
<1> QED
  BY <1>3, <1>4

LEMMA ListInvInitially ==
  ASSUME ListInit
  PROVE  ListInv
BY ListingAssumption
   DEF ListInit, ListInv, TableOK, ReaderOK, Known, Seen, NotReading, NoTransaction,
       Rows, Instants, TransactionOK

(* Inserts, the clock and departures leave the reader right.               *)
LEMMA ReaderKept ==
  ASSUME ReaderOK, reader' = reader, due' \subseteq due
  PROVE  ReaderOK'
<1>1. CASE reader = NotReading
  BY <1>1 DEF ReaderOK
<1>2. CASE PagesReader
  BY <1>2 DEF ReaderOK, PagesReader, Turned
<1>3. CASE DoneReader
  BY <1>3 DEF ReaderOK, DoneReader
<1>4. CASE ExportReader
  <2>1. ExportReader'
    BY <1>4 DEF ExportReader, Turned, NoCursor
  <2> QED
    BY <2>1 DEF ReaderOK
<1> QED
  BY <1>1, <1>2, <1>3, <1>4 DEF ReaderOK

(* The rows listed, open and seen after a step are the ones before it, and *)
(* at most one more, with the next identity.                               *)
LEMMA KnownKept ==
  ASSUME Rows(Known), \A r \in Known : r.id <= inserted, inserted \in 0 .. MaxRows,
         Known' \subseteq Known, inserted' = inserted
  PROVE  Rows(Known') /\ \A r \in Known' : r.id <= inserted'
BY DEF Rows

LEMMA KnownGrows ==
  ASSUME Rows(Known), \A r \in Known : r.id <= inserted, inserted \in 0 .. MaxRows,
         inserted < MaxRows, inserted' = inserted + 1, NEW t \in Instants,
         Known' \subseteq Known \cup {[id |-> inserted', at |-> t]}
  PROVE  Rows(Known') /\ \A r \in Known' : r.id <= inserted'
<1> DEFINE new == [id |-> inserted + 1, at |-> t]
<1>1. new \in Row /\ new.id = inserted + 1
  BY ListingAssumption DEF Row, Instants
<1>2. \A r \in Known : r \in Row /\ r.id \in Nat /\ r.id < inserted + 1
  BY RowNumbers DEF Rows
<1> HIDE DEF new
<1>3. Known' \subseteq Known \cup {new}
  BY DEF new
<1>4. \A r \in Known \cup {new} : r \in Row /\ r.id <= inserted + 1
  BY <1>1, <1>2
<1>5. \A r, s \in Known \cup {new} : r.id = s.id => r = s
  BY <1>1, <1>2 DEF Rows
<1> QED
  BY <1>3, <1>4, <1>5 DEF Rows

LEMMA BeginInsertKeeps ==
  ASSUME ListInv, BeginInsert
  PROVE  ListInv'
<1>1. reader' = reader /\ due' = due /\ listed' = listed /\ inserted' = inserted /\ instant' = instant
      /\ open' = [rows |-> {}, at |-> instant]
  BY DEF BeginInsert
<1>2. Known' \subseteq Known
  BY <1>1 DEF Known, Seen
<1>3. Rows(Known') /\ \A r \in Known' : r.id <= inserted'
  BY <1>1, <1>2, KnownKept DEF ListInv, TableOK
<1>4. TableOK'
  BY <1>1, <1>3 DEF ListInv, TableOK, TransactionOK
<1> QED
  BY <1>1, <1>4, ReaderKept DEF ListInv

LEMMA InsertRowKeeps ==
  ASSUME ListInv, InsertRow
  PROVE  ListInv'
<1> DEFINE new == [id |-> inserted', at |-> open.at]
<1>1. reader' = reader /\ due' = due /\ listed' = listed /\ instant' = instant
      /\ inserted' = inserted + 1 /\ inserted < MaxRows
      /\ open' = [open EXCEPT !.rows = @ \cup {new}]
  BY DEF InsertRow
<1>2. open.at \in Instants /\ open = [rows |-> open.rows, at |-> open.at]
  BY DEF InsertRow, ListInv, TableOK, TransactionOK
<1>3. open'.rows = open.rows \cup {new} /\ open'.at = open.at
      /\ open' = [rows |-> open'.rows, at |-> open'.at]
  BY <1>1, <1>2
<1>4. Known' \subseteq Known \cup {new}
  BY <1>1, <1>3 DEF Known, Seen
<1>5. Rows(Known') /\ \A r \in Known' : r.id <= inserted'
  BY <1>1, <1>2, <1>4, KnownGrows DEF ListInv, TableOK
<1>6. inserted' \in 0 .. MaxRows
  BY <1>1, ListingAssumption DEF ListInv, TableOK
<1>7. TransactionOK'
  BY <1>2, <1>3 DEF TransactionOK
<1>8. TableOK'
  BY <1>1, <1>5, <1>6, <1>7 DEF ListInv, TableOK
<1> QED
  BY <1>1, <1>8, ReaderKept DEF ListInv

LEMMA CommitInsertKeeps ==
  ASSUME ListInv, CommitInsert
  PROVE  ListInv'
<1>1. reader' = reader /\ due' = due /\ inserted' = inserted /\ instant' = instant
      /\ listed' = listed \cup open.rows /\ open' = NoTransaction
  BY DEF CommitInsert
<1>2. Known' \subseteq Known
  BY <1>1 DEF Known, Seen, NoTransaction
<1>3. Rows(Known') /\ \A r \in Known' : r.id <= inserted'
  BY <1>1, <1>2, KnownKept DEF ListInv, TableOK
<1>4. TableOK'
  BY <1>1, <1>3 DEF ListInv, TableOK, TransactionOK, NoTransaction
<1> QED
  BY <1>1, <1>4, ReaderKept DEF ListInv

LEMMA InsertAloneKeeps ==
  ASSUME ListInv, InsertAlone
  PROVE  ListInv'
<1> DEFINE new == [id |-> inserted', at |-> instant]
<1>1. reader' = reader /\ due' = due /\ open' = open /\ instant' = instant
      /\ inserted' = inserted + 1 /\ inserted < MaxRows /\ listed' = listed \cup {new}
  BY DEF InsertAlone
<1>2. Known' \subseteq Known \cup {new} /\ instant \in Instants
  BY <1>1 DEF Known, Seen, ListInv, TableOK
<1>3. Rows(Known') /\ \A r \in Known' : r.id <= inserted'
  BY <1>1, <1>2, KnownGrows DEF ListInv, TableOK
<1>4. inserted' \in 0 .. MaxRows
  BY <1>1, ListingAssumption DEF ListInv, TableOK
<1>5. TableOK'
  BY <1>1, <1>3, <1>4 DEF ListInv, TableOK, TransactionOK
<1> QED
  BY <1>1, <1>5, ReaderKept DEF ListInv

LEMMA InstantPassesKeeps ==
  ASSUME ListInv, InstantPasses
  PROVE  ListInv'
<1>1. reader' = reader /\ due' = due /\ open' = open /\ listed' = listed
      /\ inserted' = inserted /\ instant' = instant + 1 /\ instant < MaxInstant
  BY DEF InstantPasses
<1>2. instant' \in Instants
  BY <1>1, ListingAssumption DEF ListInv, TableOK, Instants
<1>3. TableOK'
  BY <1>1, <1>2 DEF ListInv, TableOK, TransactionOK, Known, Seen
<1> QED
  BY <1>1, <1>3, ReaderKept DEF ListInv

LEMMA LeaveListKeeps ==
  ASSUME ListInv, LeaveList
  PROVE  ListInv'
<1> PICK row \in listed : listed' = listed \ {row} /\ due' = due \ {row}
                          /\ UNCHANGED <<instant, open, inserted, reader>>
  BY DEF LeaveList
<1>1. Known' \subseteq Known
  BY DEF Known, Seen
<1>2. Rows(Known') /\ \A r \in Known' : r.id <= inserted'
  BY <1>1, KnownKept DEF ListInv, TableOK
<1>3. TableOK'
  BY <1>2 DEF ListInv, TableOK, TransactionOK
<1> QED
  BY <1>3, ReaderKept DEF ListInv

-----------------------------------------------------------------------------
(* The reader's steps. *)

(* He reads listed rows only: what is known stays what it was.             *)
LEMMA ReadingKeepsTable ==
  ASSUME ListInv, UNCHANGED <<instant, listed, open, inserted>>,
         due' \subseteq listed, Seen' \subseteq Seen \cup listed
  PROVE  TableOK'
<1>1. Known' \subseteq Known
  BY DEF Known
<1>2. Rows(Known') /\ \A r \in Known' : r.id <= inserted'
  BY <1>1, KnownKept DEF ListInv, TableOK
<1> QED
  BY <1>2 DEF ListInv, TableOK, TransactionOK

(* One more page: with the rows seen up to the cursor and those of the     *)
(* page behind it, the reader has turned to the next cursor, or has seen   *)
(* all.  Nothing of the page was seen before.                              *)
LEMMA TurnPage ==
  ASSUME ById, ListInv, NEW cursor, NEW seen, seen \subseteq Known, NEW debt, debt \subseteq listed,
         \/ cursor = NoCursor /\ seen = {}
         \/ /\ cursor # NoCursor /\ cursor.id \in 1 .. MaxRows
            /\ \A r \in seen : r.id >= cursor.id
            /\ \A r \in debt : r.id >= cursor.id => r \in seen
  PROVE  LET page == Page(cursor)
         IN  /\ page.items \subseteq listed /\ seen \cap page.items = {}
             /\ page.next = NoCursor => debt \subseteq seen \cup page.items
             /\ page.next # NoCursor =>
                  /\ page.next.id \in 1 .. MaxRows
                  /\ \A r \in seen \cup page.items : r.id >= page.next.id
                  /\ \A r \in debt : r.id >= page.next.id => r \in seen \cup page.items
<1> DEFINE items == Page(cursor).items
           next == Page(cursor).next
<1>1. Rows(listed) /\ Rows(seen)
  BY DEF ListInv, TableOK, Known, Rows
<1>2. /\ items \subseteq Ahead(cursor)
      /\ next = NoCursor => items = Ahead(cursor)
      /\ next # NoCursor =>
           /\ next.id \in 1 .. MaxRows
           /\ cursor # NoCursor => next.id < cursor.id
           /\ \A r \in items : r.id >= next.id
           /\ \A r \in Ahead(cursor) : r.id >= next.id => r \in items
  BY <1>1, PageById
<1> HIDE DEF items, next
<1>3. /\ \A r \in listed : r.id \in Nat
      /\ \A r \in seen : r.id \in Nat
  BY <1>1, RowNumbers DEF Rows
<1>4. items \subseteq listed
  BY <1>2 DEF Ahead
<1>5. CASE cursor = NoCursor /\ seen = {}
  <2>1. Ahead(cursor) = listed
    BY <1>5 DEF Ahead
  <2>2. next = NoCursor => debt \subseteq items
    BY <1>2, <2>1
  <2>3. next # NoCursor => \A r \in debt : r.id >= next.id => r \in items
    BY <1>2, <2>1
  <2> QED
    BY <1>2, <1>4, <1>5, <2>2, <2>3 DEF items, next
<1>6. CASE /\ cursor # NoCursor /\ cursor.id \in 1 .. MaxRows
           /\ \A r \in seen : r.id >= cursor.id
           /\ \A r \in debt : r.id >= cursor.id => r \in seen
  <2>1. \A r \in listed : r \in Ahead(cursor) <=> r.id < cursor.id
    BY <1>6 DEF Ahead
  <2>2. \A r \in debt : r \in seen \/ r \in Ahead(cursor)
    <3>1. ASSUME NEW r \in debt, r \notin seen PROVE r.id < cursor.id
      <4>1. r.id \in Nat /\ ~ (r.id >= cursor.id)
        BY <1>3, <1>6, <3>1
      <4> QED
        BY <1>6, <4>1
    <3> QED
      BY <2>1, <3>1
  <2>3. seen \cap items = {}
    <3>1. ASSUME NEW r \in seen, r \in items PROVE FALSE
      <4>1. r.id < cursor.id /\ r.id >= cursor.id /\ r.id \in Nat
        BY <1>2, <1>3, <1>4, <1>6, <2>1, <3>1
      <4> QED
        BY <1>6, <4>1
    <3> QED
      BY <3>1
  <2>4. next = NoCursor => debt \subseteq seen \cup items
    BY <1>2, <2>2
  <2>5. ASSUME next # NoCursor, NEW r \in seen PROVE r.id >= next.id
    BY <1>2, <1>3, <1>6, <2>5
  <2>6. ASSUME next # NoCursor, NEW r \in debt, r.id >= next.id PROVE r \in seen \cup items
    BY <1>2, <2>2, <2>6
  <2> QED
    BY <1>2, <1>4, <2>3, <2>4, <2>5, <2>6 DEF items, next
<1> QED
  BY <1>5, <1>6

LEMMA CursorsAreRows == NoCursor.id \notin 1 .. MaxRows
BY ListingAssumption DEF NoCursor

LEMMA ReadPageKeeps ==
  ASSUME ById, ListInv, ReadPage
  PROVE  ListInv'
<1> DEFINE started == reader.stage = "pages"
           cursor == IF started THEN reader.cursor ELSE NoCursor
           page == Page(cursor)
           debt == IF started THEN due ELSE listed
<1>1. /\ reader' = [stage |-> IF page.next = NoCursor THEN "done" ELSE "pages",
                    cursor |-> page.next,
                    seen |-> IF reader.stage = "idle" THEN page.items
                             ELSE reader.seen \cup page.items,
                    twice |-> started /\ (reader.twice \/ reader.seen \cap page.items # {})]
      /\ due' = IF reader.stage = "idle" THEN listed ELSE due
      /\ UNCHANGED <<instant, listed, open, inserted>>
      /\ reader.stage \in {"idle", "pages"}
  BY DEF ReadPage
<1>2. IF started THEN PagesReader ELSE reader.stage = "idle"
  BY <1>1 DEF ListInv, ReaderOK, NotReading, PagesReader, DoneReader, ExportReader
<1>3. /\ Seen \subseteq Known /\ debt \subseteq listed
      /\ \/ cursor = NoCursor /\ Seen = {}
         \/ /\ cursor # NoCursor /\ cursor.id \in 1 .. MaxRows
            /\ \A r \in Seen : r.id >= cursor.id
            /\ \A r \in debt : r.id >= cursor.id => r \in Seen
  BY <1>2, CursorsAreRows DEF Seen, PagesReader, Turned, Known, ListInv, TableOK
<1>4. Seen = (IF started THEN reader.seen ELSE {}) /\ (started => ~ reader.twice)
  BY <1>2 DEF Seen, PagesReader
<1> HIDE DEF cursor, debt
<1>5. /\ page.items \subseteq listed /\ Seen \cap page.items = {}
      /\ page.next = NoCursor => debt \subseteq Seen \cup page.items
      /\ page.next # NoCursor =>
           /\ page.next.id \in 1 .. MaxRows
           /\ \A r \in Seen \cup page.items : r.id >= page.next.id
           /\ \A r \in debt : r.id >= page.next.id => r \in Seen \cup page.items
  BY <1>3, TurnPage
<1> HIDE DEF page
<1>6. /\ reader' = [stage |-> IF page.next = NoCursor THEN "done" ELSE "pages",
                    cursor |-> page.next, seen |-> Seen \cup page.items, twice |-> FALSE]
      /\ due' = debt
  BY <1>1, <1>2, <1>4, <1>5 DEF debt
<1>7. Seen' = Seen \cup page.items
  BY <1>6 DEF Seen
<1>8. TableOK'
  BY <1>1, <1>3, <1>5, <1>6, <1>7, ReadingKeepsTable
<1>9. ReaderOK'
  BY <1>5, <1>6 DEF ReaderOK, PagesReader, DoneReader, Turned
<1> QED
  BY <1>8, <1>9 DEF ListInv

LEMMA CountExportKeeps ==
  ASSUME ById, ListInv, CountExport
  PROVE  ListInv'
<1>1. /\ reader' = [stage |-> "export", total |-> Cardinality(listed), cursor |-> NoCursor,
                    seen |-> {}, pulled |-> 0, ended |-> FALSE]
      /\ due' = listed
      /\ UNCHANGED <<instant, listed, open, inserted>>
  BY DEF CountExport
<1>2. Cardinality(listed) \in Nat
  <2>1. Rows(listed)
    BY DEF ListInv, TableOK, Known, Rows
  <2> QED
    BY <2>1, RowsFinite, FS_CardinalityType
<1>3. TableOK'
  BY <1>1, ReadingKeepsTable DEF Seen
<1>4. ReaderOK'
  BY <1>1, <1>2, FS_EmptySet, ListingAssumption DEF ReaderOK, ExportReader, NoCursor
<1> QED
  BY <1>3, <1>4 DEF ListInv

(* The rows of a page nobody has seen add up.                              *)
LEMMA RowsAddUp ==
  ASSUME NEW A, IsFiniteSet(A), NEW B, IsFiniteSet(B), A \cap B = {}
  PROVE  Cardinality(A \cup B) = Cardinality(A) + Cardinality(B)
<1>1. /\ Cardinality(A \cup B) = Cardinality(A) + Cardinality(B) - Cardinality(A \cap B)
      /\ Cardinality(A \cap B) = 0
  BY FS_Union, FS_EmptySet
<1>2. Cardinality(A) \in Nat /\ Cardinality(B) \in Nat
  BY FS_CardinalityType
<1> QED
  BY <1>1, <1>2

LEMMA ExportPageKeeps ==
  ASSUME ById, ListInv, ExportPage
  PROVE  ListInv'
<1> DEFINE page == Page(reader.cursor)
<1>1. /\ reader' = [reader EXCEPT !.cursor = page.next, !.seen = @ \cup page.items,
                                  !.pulled = @ + Cardinality(page.items),
                                  !.ended = page.next = NoCursor]
      /\ UNCHANGED <<instant, listed, open, inserted, due>>
      /\ reader.stage = "export" /\ ~ reader.ended /\ reader.pulled < reader.total
  BY DEF ExportPage
<1>2. ExportReader /\ Seen = reader.seen
  BY <1>1 DEF ListInv, ReaderOK, NotReading, PagesReader, DoneReader, Seen
<1>3. /\ Seen \subseteq Known /\ due \subseteq listed
      /\ \/ reader.cursor = NoCursor /\ Seen = {}
         \/ /\ reader.cursor # NoCursor /\ reader.cursor.id \in 1 .. MaxRows
            /\ \A r \in Seen : r.id >= reader.cursor.id
            /\ \A r \in due : r.id >= reader.cursor.id => r \in Seen
  BY <1>1, <1>2 DEF ExportReader, Turned, Known, ListInv, TableOK
<1>4. /\ page.items \subseteq listed /\ Seen \cap page.items = {}
      /\ page.next = NoCursor => due \subseteq Seen \cup page.items
      /\ page.next # NoCursor =>
           /\ page.next.id \in 1 .. MaxRows
           /\ \A r \in Seen \cup page.items : r.id >= page.next.id
           /\ \A r \in due : r.id >= page.next.id => r \in Seen \cup page.items
  BY <1>3, TurnPage
<1>5. Rows(listed) /\ Rows(Seen) /\ Rows(page.items)
  BY <1>4 DEF ListInv, TableOK, Known, Rows
<1>6. Cardinality(page.items) \in 0 .. Limit
  BY <1>5, PageById
<1>7. Cardinality(Seen \cup page.items) = Cardinality(Seen) + Cardinality(page.items)
  BY <1>4, <1>5, RowsFinite, RowsAddUp
<1> HIDE DEF page
<1>8. reader' = [stage |-> "export", total |-> reader.total, cursor |-> page.next,
                 seen |-> Seen \cup page.items, pulled |-> reader.pulled + Cardinality(page.items),
                 ended |-> reader'.ended]
      /\ reader'.ended \in BOOLEAN /\ (reader'.ended <=> page.next = NoCursor)
  BY <1>1, <1>2 DEF ExportReader
<1>9. TableOK'
  <2>1. Seen' \subseteq Seen \cup listed
    BY <1>4, <1>8 DEF Seen
  <2> QED
    BY <1>1, <1>3, <2>1, ReadingKeepsTable
<1>10. reader'.pulled = Cardinality(reader'.seen) /\ reader'.pulled \in Nat
       /\ reader'.pulled < reader'.total + Limit /\ reader'.total \in Nat
  BY <1>1, <1>2, <1>6, <1>7, <1>8, ListingAssumption DEF ExportReader
<1>11. /\ reader'.ended => due' \subseteq reader'.seen
       /\ reader'.ended \in BOOLEAN
       /\ ~ reader'.ended => reader'.cursor # NoCursor
       /\ ~ reader'.ended => Turned(reader.cursor, reader.seen)'
  <2>1. /\ reader'.cursor = page.next /\ reader'.seen = Seen \cup page.items
        /\ (reader'.ended <=> page.next = NoCursor) /\ due' = due
    BY <1>1, <1>8
  <2>2. CASE page.next = NoCursor
    BY <1>4, <2>1, <2>2
  <2>3. CASE page.next # NoCursor
    <3>1. ~ reader'.ended /\ reader'.ended \in BOOLEAN /\ reader'.cursor # NoCursor
      BY <1>8, <2>1, <2>3
    <3>2. Turned(reader.cursor, reader.seen)'
      BY <1>4, <2>1, <2>3 DEF Turned
    <3> QED
      BY <3>1, <3>2
  <2> QED
    BY <2>2, <2>3
<1>12. ExportReader'
  BY <1>8, <1>10, <1>11 DEF ExportReader, NoCursor
<1> QED
  BY <1>9, <1>12 DEF ListInv, ReaderOK

LEMMA StopReadingKeeps ==
  ASSUME ListInv, StopReading
  PROVE  ListInv'
<1>1. reader' = NotReading /\ due' = {} /\ UNCHANGED <<instant, listed, open, inserted>>
  BY DEF StopReading
<1>2. TableOK'
  BY <1>1, ReadingKeepsTable DEF Seen, NotReading
<1> QED
  BY <1>1, <1>2 DEF ListInv, ReaderOK

(* A list by identity shows each row that stays exactly once, and an       *)
(* export of it has no gap, holds each row once and less than a page more  *)
(* than it counted, however inserts, commits and departures fall between   *)
(* the pages (shared/utils/cursor.ts, ExportAuditCsvUseCase).              *)
THEOREM IdentityPagesExact ==
  ASSUME Kind = "id"
  PROVE  ListSpec => []PagesExact
<1>0. ById
  BY DEF ById
<1>1. ListInit => ListInv
  BY ListInvInitially
<1>2. ListInv /\ [ListNext]_listVars => ListInv'
  <2> SUFFICES ASSUME ListInv, [ListNext]_listVars PROVE ListInv'
    OBVIOUS
  <2>1. CASE BeginInsert
    BY <2>1, BeginInsertKeeps
  <2>2. CASE InsertRow
    BY <2>2, InsertRowKeeps
  <2>3. CASE CommitInsert
    BY <2>3, CommitInsertKeeps
  <2>4. CASE InsertAlone
    BY <2>4, InsertAloneKeeps
  <2>5. CASE InstantPasses
    BY <2>5, InstantPassesKeeps
  <2>6. CASE LeaveList
    BY <2>6, LeaveListKeeps
  <2>7. CASE ReadPage
    BY <1>0, <2>7, ReadPageKeeps
  <2>8. CASE CountExport
    BY <1>0, <2>8, CountExportKeeps
  <2>9. CASE ExportPage
    BY <1>0, <2>9, ExportPageKeeps
  <2>10. CASE StopReading
    BY <2>10, StopReadingKeeps
  <2>11. CASE UNCHANGED listVars
    <3>1. TableOK'
      BY <2>11 DEF ListInv, TableOK, TransactionOK, Known, Seen, listVars
    <3> QED
      BY <2>11, <3>1, ReaderKept DEF ListInv, listVars
  <2> QED
    BY <2>1, <2>2, <2>3, <2>4, <2>5, <2>6, <2>7, <2>8, <2>9, <2>10, <2>11 DEF ListNext
<1>3. ListInv => PagesExact
  BY <1>0, ListInvExact
<1> QED
  BY <1>1, <1>2, <1>3, PTL DEF ListSpec

=============================================================================
