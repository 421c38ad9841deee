------------------------- MODULE LicenceContent_proofs -------------------------
(***************************************************************************)
(* Proofs about LicenceContent and HealthcheckImport: for any number of    *)
(* rows, sessions, imports and files, any edits and any failures.          *)
(***************************************************************************)
EXTENDS HealthcheckImport, TLAPS

Removal == [op : {"remove"}, liaison : Liaison]

VolumeUpdate == [op : {"volume"}, liaison : Liaison, row : LiaisonRow]

Generation ==
  [op : GenerationStage, since : Nat, dates : {t.dates : t \in Term},
   articles : SUBSET FileRow, hash : Hash]

LEMMA RequestOf ==
  ASSUME NEW r \in Request
  PROVE  /\ r.op = "remove" => r \in Removal
         /\ r.op = "volume" => r \in VolumeUpdate
         /\ r.op \in GenerationStage => r \in Generation
         /\ r.op = "idle" => r = Idle
BY DEF Request, Idle, Removal, VolumeUpdate, Generation, GenerationStage

LEMMA IsRequest ==
  /\ Idle \in Request /\ Idle.op = "idle"
  /\ Removal \cup VolumeUpdate \cup Generation \subseteq Request
BY DEF Request, Removal, VolumeUpdate, Generation, Idle

(* What a SELECT of the attached rows returns is typed.                    *)
LEMMA ReadsTyped ==
  ASSUME ContentTypeOK
  PROVE  /\ HashProduits \in SUBSET Produit
         /\ HashArticles \in SUBSET FileRow
         /\ FileArticles = HashArticles
         /\ CurrentHash \in Hash
         /\ Contract = [terms |-> terms, produits |-> HashProduits, articles |-> HashArticles]
<1>1. \A i \in Liaison : Attached(i) => liaisons[i] \in LiaisonRow
  BY DEF ContentTypeOK, Attached
<1>2. HashProduits \in SUBSET Produit
  BY DEF HashProduits, Items
<1>3. HashArticles \in SUBSET FileRow
  BY <1>1 DEF HashArticles, Items, FileRow, LiaisonRow
<1>4. FileArticles = HashArticles
  BY DEF FileArticles, HashArticles
<1>5. CurrentHash \in Hash
  BY <1>2, <1>3 DEF CurrentHash, Hash, ContentTypeOK
<1>6. Contract = [terms |-> terms, produits |-> HashProduits, articles |-> HashArticles]
  BY DEF Contract, HashProduits, HashArticles
<1> QED
  BY <1>2, <1>3, <1>4, <1>5, <1>6

-----------------------------------------------------------------------------
(* Typing.                                                                 *)
LEMMA InitTyped == Init => ContentTypeOK
<1> SUFFICES ASSUME Init PROVE ContentTypeOK
  OBVIOUS
<1>1. liaisons \in [Liaison -> LiaisonRow \cup {Null}] /\ requests \in [Session -> Request]
  BY IsRequest DEF Init
<1> QED
  BY <1>1 DEF Init, ContentTypeOK

LEMMA OpenTyped ==
  ASSUME ContentTypeOK, NEW q \in Session, NEW r \in Request, Open(q, r)
  PROVE  ContentTypeOK'
BY DEF Open, ContentTypeOK

LEMMA CountEditGrows ==
  ASSUME ContentTypeOK, CountEdit
  PROVE  /\ edits' \in Nat /\ edits' \in {edits, edits + 1}
         /\ edits' = edits => Contract' = Contract
BY DEF CountEdit, ContentTypeOK

(* The row as an UPDATE of its volumes leaves it.                          *)
LEMMA SaveTyped ==
  ASSUME ContentTypeOK, NEW i \in Liaison, NEW row \in LiaisonRow, SaveVolumes(i, row)
  PROVE  /\ liaisons' \in [Liaison -> LiaisonRow \cup {Null}]
         /\ \A j \in Liaison : Attached(j)' = Attached(j)
         /\ \A j \in Liaison : Attached(j) => liaisons'[j].item = liaisons[j].item
         /\ \A j \in Liaison \ {i} : liaisons'[j] = liaisons[j]
         /\ Attached(i) => /\ liaisons'[i].autorise = row.autorise
                           /\ liaisons'[i].consomme = row.consomme
<1> DEFINE new == [[liaisons[i] EXCEPT !.autorise = row.autorise]
                     EXCEPT !.consomme = row.consomme]
<1>1. liaisons \in [Liaison -> LiaisonRow \cup {Null}] /\ Null \notin LiaisonRow
  BY ContentAssumption DEF ContentTypeOK
<1>2. liaisons' = [liaisons EXCEPT ![i] = IF liaisons[i] = Null THEN Null ELSE new]
  BY DEF SaveVolumes
<1>3. liaisons[i] # Null =>
        /\ new \in LiaisonRow /\ new.item = liaisons[i].item
        /\ new.autorise = row.autorise /\ new.consomme = row.consomme
  BY <1>1 DEF LiaisonRow
<1> HIDE DEF new
<1>4. liaisons'[i] = IF liaisons[i] = Null THEN Null ELSE new
  BY <1>1, <1>2
<1>5. \A j \in Liaison \ {i} : liaisons'[j] = liaisons[j]
  BY <1>1, <1>2
<1>6. liaisons' \in [Liaison -> LiaisonRow \cup {Null}]
  BY <1>1, <1>2, <1>3
<1>7. liaisons[i] # Null => liaisons'[i] = new /\ new # Null
  BY <1>1, <1>3, <1>4
<1> QED
  BY <1>3, <1>4, <1>5, <1>6, <1>7 DEF Attached

LEMMA EditTyped ==
  ASSUME ContentTypeOK,
         \/ ChangeTerms
         \/ \E i \in Liaison : AddToLicence(i)
         \/ \E q \in Session : Edit(q)
  PROVE  ContentTypeOK'
<1>1. /\ liaisons \in [Liaison -> LiaisonRow \cup {Null}]
      /\ requests \in [Session -> Request]
      /\ \A i \in Liaison : Attached(i) => liaisons[i] \in LiaisonRow
  BY DEF ContentTypeOK, Attached
<1>2. CASE ChangeTerms
  BY <1>2 DEF ChangeTerms, ContentTypeOK
<1>3. ASSUME NEW i \in Liaison, AddToLicence(i)
      PROVE  ContentTypeOK'
  <2>1. liaisons' \in [Liaison -> LiaisonRow \cup {Null}]
    BY <1>1, <1>3 DEF AddToLicence
  <2> QED
    BY <1>3, <2>1, CountEditGrows DEF AddToLicence, ContentTypeOK
<1>4. ASSUME NEW q \in Session, NEW i \in Liaison, BeginRemove(q, i) \/ BeginVolume(q, i)
      PROVE  ContentTypeOK'
  <2>1. CASE BeginRemove(q, i)
    <3>1. [op |-> "remove", liaison |-> i] \in Request
      BY IsRequest DEF Removal
    <3> QED
      BY <2>1, <3>1, OpenTyped DEF BeginRemove
  <2>2. CASE BeginVolume(q, i)
    <3>1. PICK patch \in VolumeInput :
            Open(q, [op |-> "volume", liaison |-> i,
                     row |-> WithVolumes(liaisons[i], patch)])
      BY <2>2 DEF BeginVolume
    <3>2. patch \in VolumePatch /\ liaisons[i] \in LiaisonRow
      BY <1>1, <2>2, ContentAssumption DEF BeginVolume
    <3>3. WithVolumes(liaisons[i], patch) \in LiaisonRow
      BY <3>2 DEF WithVolumes, Given, VolumePatch, LiaisonRow
    <3>4. [op |-> "volume", liaison |-> i, row |-> WithVolumes(liaisons[i], patch)] \in Request
      BY <3>3, IsRequest DEF VolumeUpdate
    <3> QED
      BY <3>1, <3>4, OpenTyped
  <2> QED
    BY <1>4, <2>1, <2>2
<1>5. ASSUME NEW q \in Session, CommitRemove(q)
      PROVE  ContentTypeOK'
  <2>1. liaisons' \in [Liaison -> LiaisonRow \cup {Null}] /\ requests' \in [Session -> Request]
    BY <1>1, <1>5, IsRequest DEF CommitRemove, Close
  <2> QED
    BY <1>5, <2>1, CountEditGrows DEF CommitRemove, ContentTypeOK
<1>6. ASSUME NEW q \in Session, CommitVolume(q)
      PROVE  ContentTypeOK'
  <2>1. requests[q] \in VolumeUpdate
    BY <1>1, <1>6, RequestOf DEF CommitVolume
  <2>2. liaisons' \in [Liaison -> LiaisonRow \cup {Null}]
    BY <1>6, <2>1, SaveTyped DEF CommitVolume, VolumeUpdate
  <2>3. requests' \in [Session -> Request]
    BY <1>1, <1>6, IsRequest DEF CommitVolume, Close
  <2> QED
    BY <1>6, <2>2, <2>3, CountEditGrows DEF CommitVolume, ContentTypeOK
<1> QED
  BY <1>2, <1>3, <1>4, <1>5, <1>6 DEF Edit

(* A generation goes on: its request is replaced, and nothing it reads     *)
(* changes.                                                                *)
Untouched == UNCHANGED <<terms, liaisons, audit, edits>>

LEMMA ReadTyped ==
  ASSUME ContentTypeOK, NEW q \in Session,
         \/ BeginGenerate(q) \/ ReadArticles(q) \/ LogFichierGenere(q)
         \/ HashTermsRead(q) \/ HashProduitsRead(q) \/ HashArticlesRead(q)
  PROVE  /\ ContentTypeOK' /\ Untouched /\ UNCHANGED <<stored, generated, faults>>
         /\ requests'[q] \in Generation
         /\ \A p \in Session \ {q} : requests'[p] = requests[p]
<1> DEFINE r == requests[q]
<1>1. /\ requests \in [Session -> Request]
      /\ r.op \in GenerationStage => r \in Generation
      /\ terms \in Term
  BY RequestOf DEF ContentTypeOK
<1>2. /\ HashProduits \in SUBSET Produit /\ HashArticles \in SUBSET FileRow
      /\ FileArticles \in SUBSET FileRow
  BY ReadsTyped
<1>3. ASSUME NEW new \in Generation, requests' = [requests EXCEPT ![q] = new],
             Untouched, UNCHANGED <<stored, generated, faults>>
      PROVE  /\ ContentTypeOK' /\ requests'[q] \in Generation
             /\ \A p \in Session \ {q} : requests'[p] = requests[p]
  BY <1>1, <1>3, IsRequest DEF ContentTypeOK, Untouched
<1>4. CASE BeginGenerate(q)
  <2> DEFINE new == [op |-> "readArticles", since |-> edits, dates |-> terms.dates,
                     articles |-> {}, hash |-> NoHash]
  <2>1. new \in Generation
    BY DEF Generation, GenerationStage, ContentTypeOK, NoHash, Hash
  <2>2. requests' = [requests EXCEPT ![q] = new] /\ Untouched
        /\ UNCHANGED <<stored, generated, faults>>
    BY <1>4 DEF BeginGenerate, Open, Untouched
  <2> HIDE DEF new
  <2> QED
    BY <1>3, <2>1, <2>2
<1>5. CASE ReadArticles(q)
  <2> DEFINE new == [r EXCEPT !.op = "log", !.articles = FileArticles]
  <2>1. new \in Generation
    BY <1>1, <1>2, <1>5 DEF ReadArticles, Advance, Generation, GenerationStage
  <2>2. requests' = [requests EXCEPT ![q] = new] /\ Untouched
        /\ UNCHANGED <<stored, generated, faults>>
    BY <1>5 DEF ReadArticles, Advance, Untouched
  <2> HIDE DEF new
  <2> QED
    BY <1>3, <2>1, <2>2
<1>6. CASE LogFichierGenere(q)
  <2> DEFINE new == [r EXCEPT !.op = "hashTerms"]
  <2>1. new \in Generation
    BY <1>1, <1>6 DEF LogFichierGenere, Advance, Generation, GenerationStage
  <2>2. requests' = [requests EXCEPT ![q] = new] /\ Untouched
        /\ UNCHANGED <<stored, generated, faults>>
    BY <1>6 DEF LogFichierGenere, Advance, Untouched
  <2> HIDE DEF new
  <2> QED
    BY <1>3, <2>1, <2>2
<1>7. ASSUME NEW op \in GenerationStage, NEW h \in Hash, r.op \in GenerationStage,
             requests' = [requests EXCEPT ![q] = [r EXCEPT !.op = op, !.hash = h]],
             Untouched, UNCHANGED <<stored, generated, faults>>
      PROVE  /\ ContentTypeOK' /\ requests'[q] \in Generation
             /\ \A p \in Session \ {q} : requests'[p] = requests[p]
  <2> DEFINE new == [r EXCEPT !.op = op, !.hash = h]
  <2>1. new \in Generation
    BY <1>1, <1>7 DEF Generation
  <2>2. requests' = [requests EXCEPT ![q] = new]
    BY <1>7
  <2> HIDE DEF new
  <2> QED
    BY <1>3, <1>7, <2>1, <2>2
<1>8. r.op \in GenerationStage => r.hash \in Hash
  BY <1>1 DEF Generation
<1>9. CASE HashTermsRead(q)
  <2>1. r.op \in GenerationStage
    BY <1>9 DEF HashTermsRead, Advance, GenerationStage
  <2>2. [r.hash EXCEPT !.terms = terms] \in Hash
    BY <1>1, <1>8, <2>1 DEF Hash
  <2>3. requests' = [requests EXCEPT ![q] =
          [r EXCEPT !.op = "hashProduits", !.hash = [r.hash EXCEPT !.terms = terms]]]
    BY <1>9 DEF HashTermsRead, Advance
  <2> QED
    BY <1>7, <1>9, <2>1, <2>2, <2>3 DEF HashTermsRead, Untouched, GenerationStage
<1>10. CASE HashProduitsRead(q)
  <2>1. r.op \in GenerationStage
    BY <1>10 DEF HashProduitsRead, Advance, GenerationStage
  <2>2. [r.hash EXCEPT !.produits = HashProduits] \in Hash
    BY <1>2, <1>8, <2>1 DEF Hash
  <2>3. requests' = [requests EXCEPT ![q] =
          [r EXCEPT !.op = "hashArticles", !.hash = [r.hash EXCEPT !.produits = HashProduits]]]
    BY <1>10 DEF HashProduitsRead, Advance
  <2> QED
    BY <1>7, <1>10, <2>1, <2>2, <2>3 DEF HashProduitsRead, Untouched, GenerationStage
<1>11. CASE HashArticlesRead(q)
  <2>1. r.op \in GenerationStage
    BY <1>11 DEF HashArticlesRead, Advance, GenerationStage
  <2>2. [r.hash EXCEPT !.articles = HashArticles] \in Hash
    BY <1>2, <1>8, <2>1 DEF Hash
  <2>3. requests' = [requests EXCEPT ![q] =
          [r EXCEPT !.op = "store", !.hash = [r.hash EXCEPT !.articles = HashArticles]]]
    BY <1>11 DEF HashArticlesRead, Advance
  <2> QED
    BY <1>7, <1>11, <2>1, <2>2, <2>3 DEF HashArticlesRead, Untouched, GenerationStage
<1>12. Untouched /\ UNCHANGED <<stored, generated, faults>>
  BY DEF BeginGenerate, Open, ReadArticles, LogFichierGenere, HashTermsRead, HashProduitsRead,
         HashArticlesRead, Untouched
<1> QED
  BY <1>4, <1>5, <1>6, <1>9, <1>10, <1>11, <1>12

LEMMA EndTyped ==
  ASSUME ContentTypeOK, NEW q \in Session, StoreHash(q) \/ GenerationFails(q)
  PROVE  ContentTypeOK'
<1>1. requests' \in [Session -> Request]
  BY IsRequest DEF ContentTypeOK, StoreHash, GenerationFails, Close
<1>2. CASE StoreHash(q)
  <2>1. requests[q] \in Generation
    BY <1>2, RequestOf DEF StoreHash, ContentTypeOK, GenerationStage
  <2> QED
    BY <1>1, <1>2, <2>1 DEF StoreHash, ContentTypeOK, Generation
<1> QED
  BY <1>1, <1>2 DEF GenerationFails, ContentTypeOK

LEMMA NextTyped == ContentTypeOK /\ [ContentNext]_cvars => ContentTypeOK'
<1> SUFFICES ASSUME ContentTypeOK, [ContentNext]_cvars PROVE ContentTypeOK'
  OBVIOUS
<1>1. CASE UNCHANGED cvars
  BY <1>1 DEF cvars, ContentTypeOK
<1>2. ASSUME NEW q \in Session, Generate(q) \/ GenerationFails(q)
      PROVE  ContentTypeOK'
  BY <1>2, ReadTyped, EndTyped DEF Generate
<1> QED
  BY <1>1, <1>2, EditTyped DEF ContentNext

(* Every row, request and stored hash is of its type.                      *)
THEOREM ContentTypeCorrect == Spec => []ContentTypeOK
BY InitTyped, NextTyped, PTL DEF Spec

-----------------------------------------------------------------------------
(* What a generation has read so far is what the licence holds.            *)
ReadIsCurrent(r) ==
  /\ r.dates = terms.dates
  /\ r.op # "readArticles" => r.articles = FileArticles
  /\ r.op \in {"hashProduits", "hashArticles", "store"} => r.hash.terms = terms
  /\ r.op \in {"hashArticles", "store"} => r.hash.produits = HashProduits
  /\ r.op = "store" => r.hash.articles = HashArticles

FileIsCurrent ==
  /\ stored = CurrentHash
  /\ generated.dates = terms.dates /\ generated.articles = FileArticles

(* As long as the contract has not changed since a generation began, all   *)
(* it has read is current; so is then the file it ends with.               *)
GenerationInv ==
  /\ \A q \in Session : requests[q].op \in GenerationStage =>
       /\ requests[q].since <= edits
       /\ requests[q].since = edits => ReadIsCurrent(requests[q])
  /\ generated # Null =>
       /\ generated.since \in Nat /\ generated.since <= edits
       /\ generated.since = edits => FileIsCurrent

(* The contract changes, or does not: it is all that generations read.     *)
LEMMA EditKeepsGenerations ==
  ASSUME ContentTypeOK, ContentTypeOK', GenerationInv, UNCHANGED <<stored, generated>>,
         edits' \in {edits, edits + 1}, edits' = edits => Contract' = Contract,
         \A q \in Session : requests'[q].op \in GenerationStage => requests'[q] = requests[q]
  PROVE  GenerationInv'
<1>1. edits \in Nat
  BY DEF ContentTypeOK
<1>2. \A q \in Session : requests[q].op \in GenerationStage => requests[q].since \in Nat
  BY RequestOf DEF ContentTypeOK, Generation
<1>3. CASE edits' = edits
  <2>1. Contract' = Contract
    BY <1>3
  <2>2. /\ Contract = [terms |-> terms, produits |-> HashProduits, articles |-> HashArticles]
        /\ Contract' = [terms |-> terms', produits |-> HashProduits', articles |-> HashArticles']
        /\ FileArticles = HashArticles /\ FileArticles' = HashArticles'
    BY DEF Contract, HashProduits, HashArticles, FileArticles
  <2>3. /\ terms' = terms /\ HashProduits' = HashProduits /\ HashArticles' = HashArticles
        /\ FileArticles' = FileArticles
    BY <2>1, <2>2
  <2>4. CurrentHash' = CurrentHash
    BY <2>3 DEF CurrentHash
  <2>5. \A r : ReadIsCurrent(r)' = ReadIsCurrent(r)
    BY <2>3 DEF ReadIsCurrent
  <2>6. FileIsCurrent' = FileIsCurrent
    BY <2>3, <2>4 DEF FileIsCurrent
  <2> QED
    BY <1>3, <2>5, <2>6 DEF GenerationInv
<1>4. CASE edits' = edits + 1
  <2>1. \A q \in Session : requests'[q].op \in GenerationStage =>
          requests'[q].since <= edits' /\ requests'[q].since # edits'
    BY <1>1, <1>2, <1>4 DEF GenerationInv
  <2>2. generated # Null =>
          generated.since \in Nat /\ generated.since <= edits' /\ generated.since # edits'
    BY <1>1, <1>4 DEF GenerationInv
  <2> QED
    BY <2>1, <2>2 DEF GenerationInv
<1> QED
  BY <1>3, <1>4

(* What an edit does to the open requests and to the count of edits.       *)
LEMMA EditCounts ==
  ASSUME ContentTypeOK,
         \/ ChangeTerms
         \/ \E i \in Liaison : AddToLicence(i)
         \/ \E q \in Session : Edit(q)
  PROVE  /\ UNCHANGED <<stored, generated, fichierLog, faults>>
         /\ edits' \in {edits, edits + 1}
         /\ edits' = edits => Contract' = Contract
         /\ \A q \in Session : requests'[q].op \in GenerationStage => requests'[q] = requests[q]
<1>1. requests \in [Session -> Request] /\ Idle.op \notin GenerationStage
  BY DEF ContentTypeOK, Idle, GenerationStage
<1>2. CASE ChangeTerms
  BY <1>2 DEF ChangeTerms, ContentTypeOK
<1>3. ASSUME NEW i \in Liaison, AddToLicence(i)
      PROVE  /\ UNCHANGED <<stored, generated, fichierLog, faults, requests>> /\ CountEdit
  BY <1>3 DEF AddToLicence
<1>4. ASSUME NEW q \in Session, NEW i \in Liaison, BeginRemove(q, i) \/ BeginVolume(q, i)
      PROVE  /\ UNCHANGED <<stored, generated, fichierLog, faults, terms, liaisons, edits>>
             /\ \A p \in Session : requests'[p].op \in GenerationStage =>
                                     requests'[p] = requests[p]
  <2>1. PICK r : Open(q, r) /\ r.op \notin GenerationStage
    <3>1. CASE BeginRemove(q, i)
      BY <3>1 DEF BeginRemove, GenerationStage
    <3>2. CASE BeginVolume(q, i)
      <4>1. PICK patch \in VolumeInput :
              Open(q, [op |-> "volume", liaison |-> i,
                       row |-> WithVolumes(liaisons[i], patch)])
        BY <3>2 DEF BeginVolume
      <4> QED
        BY <4>1 DEF GenerationStage
    <3> QED
      BY <1>4, <3>1, <3>2
  <2> QED
    BY <1>1, <2>1 DEF Open
<1>5. ASSUME NEW q \in Session, CommitRemove(q) \/ CommitVolume(q)
      PROVE  /\ UNCHANGED <<stored, generated, fichierLog, faults>> /\ CountEdit
             /\ \A p \in Session : requests'[p].op \in GenerationStage =>
                                     requests'[p] = requests[p]
  BY <1>1, <1>5 DEF CommitRemove, CommitVolume, Close
<1>6. UNCHANGED <<terms, liaisons>> => Contract' = Contract
  BY DEF Contract, Items, Attached
<1> QED
  BY <1>2, <1>3, <1>4, <1>5, <1>6, CountEditGrows DEF Edit

LEMMA ReadKeepsGenerations ==
  ASSUME ContentTypeOK, GenerationInv, NEW q \in Session,
         \/ BeginGenerate(q) \/ ReadArticles(q) \/ LogFichierGenere(q)
         \/ HashTermsRead(q) \/ HashProduitsRead(q) \/ HashArticlesRead(q)
  PROVE  GenerationInv'
<1> DEFINE r == requests[q]
           new == requests'[q]
<1>1. /\ Untouched /\ UNCHANGED <<stored, generated, faults>>
      /\ new \in Generation
      /\ \A p \in Session \ {q} : requests'[p] = requests[p]
  BY ReadTyped
<1>2. /\ requests \in [Session -> Request] /\ edits \in Nat
      /\ r.op \in GenerationStage => r \in Generation
  BY RequestOf DEF ContentTypeOK
<1>3. \A x : ReadIsCurrent(x)' = ReadIsCurrent(x)
  BY <1>1 DEF ReadIsCurrent, Untouched, FileArticles, HashProduits, HashArticles, Items, Attached
<1>4. FileIsCurrent' = FileIsCurrent
  BY <1>1 DEF FileIsCurrent, CurrentHash, HashProduits, HashArticles, FileArticles, Untouched,
              Items, Attached
<1>5. r.op \in GenerationStage /\ r.since = edits => ReadIsCurrent(r)
  BY DEF GenerationInv
<1>6. new.since <= edits /\ (new.since = edits => ReadIsCurrent(new))
  <2>1. CASE BeginGenerate(q)
    <3>1. new = [op |-> "readArticles", since |-> edits, dates |-> terms.dates,
                 articles |-> {}, hash |-> NoHash]
      BY <1>2, <2>1 DEF BeginGenerate, Open
    <3> QED
      BY <1>2, <3>1 DEF ReadIsCurrent
  <2>2. CASE ~BeginGenerate(q)
    <3>1. r.op \in GenerationStage /\ r \in Generation /\ r.since <= edits
      BY <1>2, <2>2 DEF ReadArticles, LogFichierGenere, HashTermsRead, HashProduitsRead,
                        HashArticlesRead, Advance, GenerationStage, GenerationInv
    <3>2. new.since = r.since
      BY <1>2, <2>2, <3>1
         DEF ReadArticles, LogFichierGenere, HashTermsRead, HashProduitsRead, HashArticlesRead,
             Advance, Generation
    <3>3. ASSUME ReadIsCurrent(r)
          PROVE  ReadIsCurrent(new)
      <4>1. CASE ReadArticles(q)
        <5>1. new = [r EXCEPT !.op = "log", !.articles = FileArticles]
          BY <1>2, <4>1 DEF ReadArticles, Advance
        <5> QED
          BY <3>1, <3>3, <5>1 DEF ReadIsCurrent, Generation
      <4>2. CASE LogFichierGenere(q)
        <5>1. new = [r EXCEPT !.op = "hashTerms"] /\ r.op = "log"
          BY <1>2, <4>2 DEF LogFichierGenere, Advance
        <5> QED
          BY <3>1, <3>3, <5>1 DEF ReadIsCurrent, Generation
      <4>3. CASE HashTermsRead(q)
        <5>1. /\ new = [r EXCEPT !.op = "hashProduits", !.hash = [r.hash EXCEPT !.terms = terms]]
              /\ r.op = "hashTerms"
          BY <1>2, <4>3 DEF HashTermsRead, Advance
        <5>2. [r.hash EXCEPT !.terms = terms].terms = terms
          BY <3>1 DEF Generation, Hash
        <5> QED
          BY <3>1, <3>3, <5>1, <5>2 DEF ReadIsCurrent, Generation
      <4>4. CASE HashProduitsRead(q)
        <5> DEFINE h == [r.hash EXCEPT !.produits = HashProduits]
        <5>1. /\ new = [r EXCEPT !.op = "hashArticles", !.hash = h]
              /\ r.op = "hashProduits"
          BY <1>2, <4>4 DEF HashProduitsRead, Advance
        <5>2. h.produits = HashProduits /\ h.terms = r.hash.terms
          BY <3>1 DEF Generation, Hash
        <5> HIDE DEF h
        <5>3. /\ new.op = "hashArticles" /\ new.hash = h /\ new.dates = r.dates
              /\ new.articles = r.articles
          BY <3>1, <5>1 DEF Generation
        <5> QED
          BY <3>3, <5>1, <5>2, <5>3 DEF ReadIsCurrent
      <4>5. CASE HashArticlesRead(q)
        <5> DEFINE h == [r.hash EXCEPT !.articles = HashArticles]
        <5>1. /\ new = [r EXCEPT !.op = "store", !.hash = h]
              /\ r.op = "hashArticles"
          BY <1>2, <4>5 DEF HashArticlesRead, Advance
        <5>2. h.articles = HashArticles /\ h.terms = r.hash.terms /\ h.produits = r.hash.produits
          BY <3>1 DEF Generation, Hash
        <5> HIDE DEF h
        <5>3. /\ new.op = "store" /\ new.hash = h /\ new.dates = r.dates
              /\ new.articles = r.articles
          BY <3>1, <5>1 DEF Generation
        <5> QED
          BY <3>3, <5>1, <5>2, <5>3 DEF ReadIsCurrent
      <4> QED
        BY <2>2, <4>1, <4>2, <4>3, <4>4, <4>5
    <3> QED
      BY <1>5, <3>1, <3>2, <3>3
  <2> QED
    BY <2>1, <2>2
<1> HIDE DEF r, new
<1>7. \A p \in Session : requests'[p].op \in GenerationStage =>
        /\ requests'[p].since <= edits
        /\ requests'[p].since = edits => ReadIsCurrent(requests'[p])
  BY <1>1, <1>6 DEF GenerationInv, new
<1> QED
  BY <1>1, <1>3, <1>4, <1>7 DEF GenerationInv, Untouched

LEMMA EndKeepsGenerations ==
  ASSUME ContentTypeOK, GenerationInv, NEW q \in Session, StoreHash(q) \/ GenerationFails(q)
  PROVE  GenerationInv'
<1> DEFINE r == requests[q]
<1>1. /\ requests \in [Session -> Request] /\ edits \in Nat
      /\ Idle.op \notin GenerationStage
  BY DEF ContentTypeOK, Idle, GenerationStage
<1>2. /\ \A p \in Session : requests'[p].op \in GenerationStage => requests'[p] = requests[p]
      /\ UNCHANGED <<terms, liaisons, edits>>
  BY <1>1 DEF StoreHash, GenerationFails, Close
<1>3. \A x : ReadIsCurrent(x)' = ReadIsCurrent(x)
  BY <1>2 DEF ReadIsCurrent, FileArticles, HashProduits, HashArticles, Items, Attached
<1>4. CurrentHash' = CurrentHash /\ FileArticles' = FileArticles
  BY <1>2 DEF CurrentHash, HashProduits, HashArticles, FileArticles, Items, Attached
<1>5. \A p \in Session : requests'[p].op \in GenerationStage =>
        /\ requests'[p].since <= edits
        /\ requests'[p].since = edits => ReadIsCurrent(requests'[p])
  BY <1>2 DEF GenerationInv
<1>6. CASE StoreHash(q)
  <2>1. r.op = "store" /\ r \in Generation /\ r.since \in Nat /\ r.hash \in Hash
    BY <1>1, <1>6, RequestOf DEF StoreHash, GenerationStage, Generation
  <2>2. r.since <= edits /\ (r.since = edits => ReadIsCurrent(r))
    BY <2>1 DEF GenerationInv, GenerationStage
  <2>3. /\ stored' = r.hash
        /\ generated' = [since |-> r.since, dates |-> r.dates, articles |-> r.articles]
    BY <1>6 DEF StoreHash
  <2>4. ASSUME r.since = edits PROVE FileIsCurrent'
    <3>1. /\ r.dates = terms.dates /\ r.articles = FileArticles
          /\ r.hash.terms = terms /\ r.hash.produits = HashProduits
          /\ r.hash.articles = HashArticles
      BY <2>1, <2>2, <2>4 DEF ReadIsCurrent
    <3>2. r.hash = CurrentHash
      BY <2>1, <3>1 DEF Hash, CurrentHash
    <3> QED
      BY <1>2, <1>4, <2>3, <3>1, <3>2 DEF FileIsCurrent
  <2> HIDE DEF r
  <2> QED
    BY <1>2, <1>3, <1>5, <2>1, <2>2, <2>3, <2>4 DEF GenerationInv
<1>7. CASE GenerationFails(q)
  <2>1. UNCHANGED <<stored, generated>>
    BY <1>7 DEF GenerationFails
  <2>2. FileIsCurrent' = FileIsCurrent
    BY <1>2, <1>4, <2>1 DEF FileIsCurrent
  <2> QED
    BY <1>2, <1>3, <1>5, <2>1, <2>2 DEF GenerationInv
<1> QED
  BY <1>6, <1>7

LEMMA GenerationStep ==
  ASSUME ContentTypeOK, ContentTypeOK', GenerationInv, [ContentNext]_cvars
  PROVE  GenerationInv'
<1>1. CASE UNCHANGED cvars
  BY <1>1 DEF cvars, GenerationInv, ReadIsCurrent, FileIsCurrent, CurrentHash, HashProduits,
              HashArticles, FileArticles, Items, Attached
<1>2. CASE \/ ChangeTerms
           \/ \E i \in Liaison : AddToLicence(i)
           \/ \E q \in Session : Edit(q)
  BY <1>2, EditCounts, EditKeepsGenerations
<1>3. ASSUME NEW q \in Session, Generate(q) \/ GenerationFails(q)
      PROVE  GenerationInv'
  BY <1>3, ReadKeepsGenerations, EndKeepsGenerations DEF Generate
<1> QED
  BY <1>1, <1>2, <1>3 DEF ContentNext

LEMMA FreshFromInv == ContentTypeOK /\ GenerationInv => QuietGenerationFresh
<1> SUFFICES ASSUME ContentTypeOK, GenerationInv, generated # Null, generated.since = edits
             PROVE  /\ StaleStatus = "fresh"
                    /\ generated.dates = terms.dates
                    /\ generated.articles = Contract.articles
  BY DEF QuietGenerationFresh
<1>1. FileIsCurrent
  BY DEF GenerationInv
<1>2. CurrentHash # Null /\ FileArticles = Contract.articles
  BY ReadsTyped, ContentAssumption
<1> QED
  BY <1>1, <1>2 DEF FileIsCurrent, StaleStatus

(* A file generated while nobody changed the contract, and none changed it *)
(* since: the page calls it fresh, and it is what the contract says.  For  *)
(* any interleaving of generations, edits and failures.                    *)
THEOREM FreshFiles == Spec => []QuietGenerationFresh
<1>1. Init => GenerationInv
  BY DEF Init, GenerationInv, Idle, GenerationStage
<1>2. ContentTypeOK /\ ContentTypeOK' /\ GenerationInv /\ [ContentNext]_cvars => GenerationInv'
  BY GenerationStep
<1> QED
  BY <1>1, <1>2, ContentTypeCorrect, FreshFromInv, PTL DEF Spec

-----------------------------------------------------------------------------
Added(i) == LiaisonEvent("ADDED", i, User) \in audit

Removed(i) == LiaisonEvent("REMOVED", i, User) \in audit

(* An item is attached once; what is attached, or is being removed, was    *)
(* added; what was removed is not attached, and its id is not used again.  *)
LiaisonInv ==
  /\ \A i, j \in Liaison :
       Attached(i) /\ Attached(j) /\ liaisons[i].item = liaisons[j].item => i = j
  /\ \A i \in Liaison : Attached(i) => Added(i)
  /\ \A i \in Liaison : Removed(i) => Added(i) /\ ~Attached(i)
  /\ \A q \in Session : requests[q].op = "remove" => Added(requests[q].liaison)


LEMMA EventsDiffer ==
  \A i, j, by : /\ LiaisonEvent("ADDED", i, User) # LiaisonEvent("REMOVED", j, by)
                /\ LiaisonEvent("VOLUME_UPDATED", i, by) # LiaisonEvent("REMOVED", j, User)
                /\ LiaisonEvent("ADDED", i, User) = LiaisonEvent("ADDED", j, User) => i = j
                /\ LiaisonEvent("REMOVED", i, User) = LiaisonEvent("REMOVED", j, User) => i = j
BY DEF LiaisonEvent

(* Writing the volumes of rows leaves who is attached, and what was added  *)
(* or removed.                                                             *)
LEMMA VolumesKeepLiaisons ==
  ASSUME LiaisonInv,
         \A i \in Liaison : Attached(i)' = Attached(i),
         \A i \in Liaison : Attached(i) => liaisons'[i].item = liaisons[i].item,
         audit \subseteq audit',
         \A i \in Liaison : Removed(i)' = Removed(i),
         \A q \in Session : requests'[q].op = "remove" => requests'[q] = requests[q]
  PROVE  LiaisonInv'
<1>1. \A i : Added(i) => Added(i)'
  BY DEF Added
<1>2. \A q \in Session : requests'[q].op = "remove" => Added(requests'[q].liaison)
  BY DEF LiaisonInv
<1>3. \A q \in Session : requests'[q].op = "remove" =>
                           LiaisonEvent("ADDED", requests'[q].liaison, User) \in audit'
  BY <1>2 DEF Added
<1>4. \A i \in Liaison : Attached(i)' => Added(i)'
  BY <1>1 DEF LiaisonInv
<1>5. \A i \in Liaison : Removed(i)' => Added(i)' /\ ~Attached(i)'
  BY <1>1 DEF LiaisonInv
<1>6. \A i, j \in Liaison :
        Attached(i)' /\ Attached(j)' /\ liaisons'[i].item = liaisons'[j].item => i = j
  BY DEF LiaisonInv
<1> QED
  BY <1>3, <1>4, <1>5, <1>6 DEF LiaisonInv, Added

LEMMA LiaisonStep ==
  ASSUME ContentTypeOK, LiaisonInv, [ContentNext]_cvars
  PROVE  LiaisonInv'
<1>1. /\ liaisons \in [Liaison -> LiaisonRow \cup {Null}]
      /\ requests \in [Session -> Request]
      /\ Idle.op # "remove" /\ "remove" \notin GenerationStage
      /\ Null \notin LiaisonRow
  BY ContentAssumption DEF ContentTypeOK, Idle, GenerationStage
<1>2. ASSUME UNCHANGED <<liaisons, audit>>,
             \A q \in Session : requests'[q].op = "remove" => requests'[q] = requests[q]
      PROVE  LiaisonInv'
  BY <1>2, VolumesKeepLiaisons DEF Attached, Removed
<1>3. CASE UNCHANGED cvars
  BY <1>2, <1>3 DEF cvars
<1>4. CASE ChangeTerms
  BY <1>2, <1>4 DEF ChangeTerms
<1>5. ASSUME NEW i \in Liaison, AddToLicence(i)
      PROVE  LiaisonInv'
  <2>1. PICK row \in LiaisonRow :
          /\ \A j \in Liaison : Attached(j) => liaisons[j].item # row.item
          /\ liaisons' = [liaisons EXCEPT ![i] = row]
    BY <1>5 DEF AddToLicence
  <2>2. /\ ~Added(i) /\ ~Attached(i) /\ ~Removed(i)
        /\ audit' = audit \cup {LiaisonEvent("ADDED", i, User)} /\ requests' = requests
    BY <1>5 DEF AddToLicence, Unused, Added, LiaisonInv
  <2>3. /\ liaisons'[i] = row /\ row # Null
        /\ \A j \in Liaison \ {i} : liaisons'[j] = liaisons[j]
    BY <1>1, <2>1
  <2>4. \A j : Added(j)' <=> Added(j) \/ j = i
    BY <2>2, EventsDiffer DEF Added
  <2>5. \A j : Removed(j)' <=> Removed(j)
    BY <2>2, EventsDiffer DEF Removed
  <2>6. \A j \in Liaison : Attached(j)' <=> Attached(j) \/ j = i
    BY <2>3 DEF Attached
  <2>7. \A j, k \in Liaison :
          Attached(j)' /\ Attached(k)' /\ liaisons'[j].item = liaisons'[k].item => j = k
    BY <2>1, <2>3, <2>6 DEF LiaisonInv
  <2>8. \A q \in Session : requests'[q].op = "remove" => Added(requests[q].liaison)'
    BY <2>2, <2>4 DEF LiaisonInv
  <2> QED
    BY <2>2, <2>4, <2>5, <2>6, <2>7, <2>8 DEF LiaisonInv
<1>6. ASSUME NEW q \in Session, NEW i \in Liaison, BeginRemove(q, i)
      PROVE  LiaisonInv'
  <2>1. /\ UNCHANGED <<liaisons, audit>> /\ Attached(i)
        /\ requests' = [requests EXCEPT ![q] = [op |-> "remove", liaison |-> i]]
    BY <1>6 DEF BeginRemove, Open
  <2>2. Added(i)
    BY <2>1 DEF LiaisonInv
  <2>3. \A p \in Session : requests'[p].op = "remove" => Added(requests'[p].liaison)
    BY <1>1, <2>1, <2>2 DEF LiaisonInv
  <2> QED
    BY <2>1, <2>3 DEF LiaisonInv, Attached, Added, Removed
<1>7. ASSUME NEW q \in Session, NEW i \in Liaison, BeginVolume(q, i)
      PROVE  LiaisonInv'
  <2>1. PICK patch \in VolumeInput :
          Open(q, [op |-> "volume", liaison |-> i, row |-> WithVolumes(liaisons[i], patch)])
    BY <1>7 DEF BeginVolume
  <2> QED
    BY <1>1, <1>2, <2>1 DEF Open
<1>8. ASSUME NEW q \in Session, CommitRemove(q)
      PROVE  LiaisonInv'
  <2> DEFINE i == requests[q].liaison
  <2>1. /\ requests[q].op = "remove" /\ requests[q] \in Removal /\ i \in Liaison
        /\ liaisons' = [liaisons EXCEPT ![i] = Null]
        /\ audit' = audit \cup {LiaisonEvent("REMOVED", i, User)}
        /\ requests' = [requests EXCEPT ![q] = Idle]
    BY <1>1, <1>8, RequestOf DEF CommitRemove, Close, Removal
  <2>2. Added(i)
    BY <2>1 DEF LiaisonInv
  <2> HIDE DEF i
  <2>3. \A j \in Liaison : /\ Attached(j)' <=> Attached(j) /\ j # i
                           /\ j # i => liaisons'[j] = liaisons[j]
    BY <1>1, <2>1 DEF Attached
  <2>4. \A j : Added(j)' <=> Added(j)
    BY <2>1, EventsDiffer DEF Added
  <2>5. \A j : Removed(j)' <=> Removed(j) \/ j = i
    BY <2>1, EventsDiffer DEF Removed
  <2>6. \A p \in Session : requests'[p].op = "remove" => requests'[p] = requests[p]
    BY <1>1, <2>1
  <2>7. \A p \in Session : requests'[p].op = "remove" => Added(requests[p].liaison)
    BY <2>6 DEF LiaisonInv
  <2>8. \A p \in Session : requests'[p].op = "remove" =>
                             LiaisonEvent("ADDED", requests'[p].liaison, User) \in audit'
    BY <2>1, <2>6, <2>7 DEF Added
  <2>9. \A j, k \in Liaison :
          Attached(j)' /\ Attached(k)' /\ liaisons'[j].item = liaisons'[k].item => j = k
    BY <2>3 DEF LiaisonInv
  <2>10. \A j \in Liaison : Attached(j)' => Added(j)'
    BY <2>3, <2>4 DEF LiaisonInv
  <2>11. \A j \in Liaison : Removed(j)' => Added(j)' /\ ~Attached(j)'
    BY <2>2, <2>3, <2>4, <2>5 DEF LiaisonInv
  <2> QED
    BY <2>8, <2>9, <2>10, <2>11 DEF LiaisonInv, Added
<1>9. ASSUME NEW q \in Session, CommitVolume(q)
      PROVE  LiaisonInv'
  <2> DEFINE tx == requests[q]
  <2>1. /\ tx.liaison \in Liaison /\ tx.row \in LiaisonRow
        /\ SaveVolumes(tx.liaison, tx.row)
        /\ audit' = audit \cup {LiaisonEvent("VOLUME_UPDATED", tx.liaison, User)}
        /\ requests' = [requests EXCEPT ![q] = Idle]
    BY <1>1, <1>9, RequestOf DEF CommitVolume, Close, VolumeUpdate
  <2>2. /\ \A j \in Liaison : Attached(j)' = Attached(j)
        /\ \A j \in Liaison : Attached(j) => liaisons'[j].item = liaisons[j].item
    BY <2>1, SaveTyped
  <2>3. \A j : Removed(j)' = Removed(j)
    BY <2>1, EventsDiffer DEF Removed
  <2>4. \A p \in Session : requests'[p].op = "remove" => requests'[p] = requests[p]
    BY <1>1, <2>1
  <2> QED
    BY <2>1, <2>2, <2>3, <2>4, VolumesKeepLiaisons
<1>10. ASSUME NEW q \in Session, Generate(q)
       PROVE  LiaisonInv'
  <2>1. CASE StoreHash(q)
    BY <1>1, <1>2, <2>1 DEF StoreHash, Close
  <2>2. CASE ~StoreHash(q)
    <3>1. /\ Untouched /\ requests'[q] \in Generation
          /\ \A p \in Session \ {q} : requests'[p] = requests[p]
      BY <1>10, <2>2, ReadTyped DEF Generate
    <3>2. requests'[q].op # "remove"
      BY <1>1, <3>1 DEF Generation
    <3>3. \A p \in Session : requests'[p].op = "remove" => requests'[p] = requests[p]
      BY <3>1, <3>2
    <3> QED
      BY <1>2, <3>1, <3>3 DEF Untouched
  <2> QED
    BY <2>1, <2>2
<1>11. ASSUME NEW q \in Session, GenerationFails(q)
       PROVE  LiaisonInv'
  BY <1>1, <1>2, <1>11 DEF GenerationFails, Close
<1> QED
  BY <1>3, <1>4, <1>5, <1>6, <1>7, <1>8, <1>9, <1>10, <1>11 DEF ContentNext, Edit

LEMMA InitLiaisons == Init => LiaisonInv
BY DEF Init, LiaisonInv, Attached, Removed, Idle

(* What was removed from a licence is never attached again, whichever      *)
(* updates had read it before.                                             *)
THEOREM RemovedStaysRemoved == Spec => []RemovalFinal
<1>1. ContentTypeOK /\ LiaisonInv /\ [ContentNext]_cvars => LiaisonInv'
  BY LiaisonStep
<1>2. LiaisonInv => RemovalFinal
  BY DEF LiaisonInv, RemovalFinal, Removed
<1> QED
  BY <1>1, <1>2, InitLiaisons, ContentTypeCorrect, PTL DEF Spec

-----------------------------------------------------------------------------
RunningStage == {"entry", "update", "write"}

Running ==
  [at : RunningStage, todo : Seq(Entry), articles : SUBSET Article,
   row : LiaisonRow \cup {Null}, liaison : Liaison \cup {Null}, since : Nat, report : Report]

LogRows(m) == {FichierImporte(m, statut) : statut \in {"IMPORTED", "ERREUR"}}

(* What is left to do, which row is being updated, and what was read of it *)
(* as long as nobody has changed the contract since.                       *)
RunningOK(run) ==
  /\ run \in Running /\ run.since <= edits
  /\ run.at \in {"update", "write"} => run.liaison \in Liaison /\ run.todo # <<>>
  /\ run.at = "write" => run.row \in LiaisonRow
  /\ run.at = "write" /\ run.since = edits =>
       /\ Attached(run.liaison)
       /\ liaisons[run.liaison].item \in Article =>
            run.row.autorise = liaisons[run.liaison].autorise

(* An import writes volumes, then counts them, then logs what it counted.  *)
ImportRunOK(m) ==
  \/ /\ imports[m] = NotStarted
     /\ ImportUpdates(m) = {} /\ LogRows(m) \cap fichierLog = {}
  \/ /\ RunningOK(imports[m])
     /\ ImportUpdates(m) # {} => imports[m].report.updated # {}
     /\ LogRows(m) \cap fichierLog = {}
  \/ /\ imports[m].at = "dead" /\ imports[m].report \in Report
     /\ LogRows(m) \cap fichierLog = {}
  \/ /\ imports[m].at = "done" /\ imports[m].report \in Report
     /\ FichierImporte(m, "ERREUR") \in fichierLog => ImportUpdates(m) = {}
     /\ ImportUpdates(m) # {} => FichierImporte(m, "IMPORTED") \in fichierLog

ImportInv ==
  /\ ContentTypeOK /\ LiaisonInv
  /\ catalogue \subseteq Article
  /\ imports = [m \in Import |-> imports[m]]
  /\ \A m \in Import : ImportRunOK(m)

LEMMA ReportOf ==
  /\ EmptyReport \in Report /\ EmptyReport.updated = {}
  /\ \A report \in Report, c \in Code,
        list \in {"updated", "skipped", "outOfContract", "notInCatalog", "rejected"} :
       LET noted == [report EXCEPT ![list] = @ \cup {c}]
       IN  /\ noted \in Report
           /\ report.updated # {} \/ list = "updated" => noted.updated # {}
<1>1. DOMAIN EmptyReport = {"updated", "skipped", "outOfContract", "notInCatalog", "rejected"}
  BY DEF EmptyReport
<1>2. Report = [{"updated", "skipped", "outOfContract", "notInCatalog", "rejected"} -> SUBSET Code]
  BY <1>1 DEF Report
<1>3. EmptyReport = [x \in {"updated", "skipped", "outOfContract", "notInCatalog", "rejected"} |-> {}]
  BY DEF EmptyReport
<1> QED
  BY <1>2, <1>3

(* Rows keep their items, and articles the volumes of the contract.        *)
RowsKept ==
  \A i \in Liaison : Attached(i) =>
    /\ Attached(i)' /\ liaisons'[i].item = liaisons[i].item
    /\ liaisons[i].item \in Article => liaisons'[i].autorise = liaisons[i].autorise

(* An UPDATE of the volumes of a row that leaves the contract as it was    *)
(* writes the volume the row had: no other row has the same article.       *)
LEMMA SaveKeepsRows ==
  ASSUME ContentTypeOK, LiaisonInv, NEW i \in Liaison, NEW row \in LiaisonRow,
         SaveVolumes(i, row), Contract' = Contract
  PROVE  RowsKept
<1>1. /\ \A j \in Liaison : Attached(j)' = Attached(j)
      /\ \A j \in Liaison : Attached(j) => liaisons'[j].item = liaisons[j].item
      /\ \A j \in Liaison \ {i} : liaisons'[j] = liaisons[j]
  BY SaveTyped
<1>2. ASSUME Attached(i), liaisons[i].item \in Article
      PROVE  liaisons'[i].autorise = liaisons[i].autorise
  <2> DEFINE entry == [article |-> liaisons'[i].item, volume |-> liaisons'[i].autorise]
  <2>1. i \in Items(Article)'
    BY <1>1, <1>2 DEF Items
  <2>2. entry \in Contract'.articles
    BY <2>1 DEF Contract
  <2>3. PICK j \in Items(Article) :
          entry = [article |-> liaisons[j].item, volume |-> liaisons[j].autorise]
    BY <2>2 DEF Contract
  <2>4. /\ liaisons'[i].item = liaisons[j].item /\ liaisons'[i].autorise = liaisons[j].autorise
        /\ j \in Liaison /\ Attached(j)
    BY <2>3 DEF Items
  <2>5. j = i
    BY <1>1, <1>2, <2>4 DEF LiaisonInv
  <2> QED
    BY <2>4, <2>5
<1> QED
  BY <1>1, <1>2 DEF RowsKept

(* A removal that leaves the contract as it was found no row.              *)
LEMMA RemoveKeepsRows ==
  ASSUME ContentTypeOK, LiaisonInv, NEW i \in Liaison, liaisons' = [liaisons EXCEPT ![i] = Null],
         Contract' = Contract
  PROVE  RowsKept
<1>1. \A j \in Liaison : /\ Attached(j)' <=> Attached(j) /\ j # i
                         /\ j # i => liaisons'[j] = liaisons[j]
  BY DEF Attached, ContentTypeOK
<1>2. SUFFICES ~Attached(i)
  BY <1>1 DEF RowsKept
<1>3. SUFFICES ASSUME Attached(i) PROVE FALSE
  OBVIOUS
<1>4. liaisons[i] \in LiaisonRow
  BY <1>3 DEF ContentTypeOK, Attached
<1>5. CASE liaisons[i].item \in Produit
  <2>1. liaisons[i].item \in Contract.produits
    BY <1>3, <1>5 DEF Contract, Items
  <2>2. PICK j \in Items(Produit)' : liaisons'[j].item = liaisons[i].item
    BY <2>1 DEF Contract
  <2>3. j \in Liaison /\ Attached(j) /\ j # i /\ liaisons[j].item = liaisons[i].item
    BY <1>1, <2>2 DEF Items
  <2> QED
    BY <1>3, <2>3 DEF LiaisonInv
<1>6. CASE liaisons[i].item \in Article
  <2> DEFINE entry == [article |-> liaisons[i].item, volume |-> liaisons[i].autorise]
  <2>1. entry \in Contract.articles
    BY <1>3, <1>6 DEF Contract, Items
  <2>2. PICK j \in Items(Article)' :
          entry = [article |-> liaisons'[j].item, volume |-> liaisons'[j].autorise]
    BY <2>1 DEF Contract
  <2>3. j \in Liaison /\ Attached(j) /\ j # i /\ liaisons[j].item = liaisons[i].item
    BY <1>1, <2>2 DEF Items
  <2> QED
    BY <1>3, <2>3 DEF LiaisonInv
<1> QED
  BY <1>4, <1>5, <1>6 DEF LiaisonRow

(* A step of the rest of the portal that is not counted as an edit.        *)
LEMMA ContentKeepsRows ==
  ASSUME ContentTypeOK, LiaisonInv, [ContentNext]_cvars
  PROVE  /\ edits' \in Nat /\ edits <= edits'
         /\ edits' = edits => RowsKept
<1>1. /\ requests \in [Session -> Request] /\ edits \in Nat
      /\ liaisons \in [Liaison -> LiaisonRow \cup {Null}]
  BY DEF ContentTypeOK
<1>2. liaisons' = liaisons => RowsKept
  BY DEF RowsKept, Attached
<1>3. CASE UNCHANGED cvars
  BY <1>1, <1>2, <1>3 DEF cvars
<1>4. CASE ChangeTerms
  BY <1>1, <1>4 DEF ChangeTerms
<1>5. ASSUME NEW i \in Liaison, AddToLicence(i)
      PROVE  /\ edits' \in Nat /\ edits <= edits' /\ RowsKept
  <2>1. ~Attached(i) /\ CountEdit
    BY <1>5 DEF AddToLicence, Unused, Added, LiaisonInv
  <2>2. \A j \in Liaison \ {i} : liaisons'[j] = liaisons[j]
    BY <1>1, <1>5 DEF AddToLicence
  <2> QED
    BY <1>1, <2>1, <2>2, CountEditGrows DEF RowsKept, Attached
<1>6. ASSUME NEW q \in Session, NEW i \in Liaison, BeginRemove(q, i) \/ BeginVolume(q, i)
      PROVE  /\ edits' \in Nat /\ edits <= edits' /\ RowsKept
  BY <1>1, <1>2, <1>6 DEF BeginRemove, BeginVolume, Open
<1>7. ASSUME NEW q \in Session, CommitRemove(q)
      PROVE  /\ edits' \in Nat /\ edits <= edits' /\ (edits' = edits => RowsKept)
  <2>1. requests[q].liaison \in Liaison
    BY <1>1, <1>7, RequestOf DEF CommitRemove, Removal
  <2>2. CountEdit /\ liaisons' = [liaisons EXCEPT ![requests[q].liaison] = Null]
    BY <1>7 DEF CommitRemove
  <2>3. Contract' = Contract => RowsKept
    BY <2>1, <2>2, RemoveKeepsRows
  <2> QED
    BY <1>1, <2>2, <2>3, CountEditGrows
<1>8. ASSUME NEW q \in Session, CommitVolume(q)
      PROVE  /\ edits' \in Nat /\ edits <= edits' /\ (edits' = edits => RowsKept)
  <2>1. requests[q].liaison \in Liaison /\ requests[q].row \in LiaisonRow
    BY <1>1, <1>8, RequestOf DEF CommitVolume, VolumeUpdate
  <2>2. CountEdit /\ SaveVolumes(requests[q].liaison, requests[q].row)
    BY <1>8 DEF CommitVolume
  <2>3. Contract' = Contract => RowsKept
    BY <2>1, <2>2, SaveKeepsRows
  <2> QED
    BY <1>1, <2>2, <2>3, CountEditGrows
<1>9. ASSUME NEW q \in Session, Generate(q) \/ GenerationFails(q)
      PROVE  UNCHANGED <<liaisons, edits>>
  BY <1>9 DEF Generate, GenerationFails, BeginGenerate, Open, ReadArticles, LogFichierGenere,
              HashTermsRead, HashProduitsRead, HashArticlesRead, StoreHash
<1> QED
  BY <1>1, <1>2, <1>3, <1>4, <1>5, <1>6, <1>7, <1>8, <1>9 DEF ContentNext, Edit

(* What an import has read of a row holds as long as no edit is counted.   *)
LEMMA RunKept ==
  ASSUME edits \in Nat, edits' \in Nat, edits <= edits', edits' = edits => RowsKept,
         NEW m \in Import, imports'[m] = imports[m], RunningOK(imports[m])
  PROVE  RunningOK(imports[m])'
<1>1. imports[m].since \in Nat
  BY DEF RunningOK, Running
<1>2. imports[m].since = edits' => edits' = edits /\ imports[m].since = edits
  BY <1>1 DEF RunningOK
<1> QED
  BY <1>1, <1>2 DEF RunningOK, RowsKept

LEMMA ImportKept ==
  ASSUME edits \in Nat, edits' \in Nat, edits <= edits', edits' = edits => RowsKept,
         NEW m \in Import, imports'[m] = imports[m], ImportRunOK(m),
         ImportUpdates(m)' = ImportUpdates(m),
         LogRows(m) \cap fichierLog' = LogRows(m) \cap fichierLog
  PROVE  ImportRunOK(m)'
<1>1. \A statut \in {"IMPORTED", "ERREUR"} :
        FichierImporte(m, statut) \in fichierLog' <=> FichierImporte(m, statut) \in fichierLog
  BY DEF LogRows
<1> QED
  BY <1>1, RunKept DEF ImportRunOK, LogRows

(* Users' edits and generations write other rows than imports do.          *)
LEMMA ContentKeepsLogs ==
  ASSUME ContentTypeOK, [ContentNext]_cvars, NEW m \in Import
  PROVE  /\ ImportUpdates(m)' = ImportUpdates(m)
         /\ LogRows(m) \cap fichierLog' = LogRows(m) \cap fichierLog
         /\ faults' \in Nat /\ faults <= faults'
<1>1. \A i \in Liaison : \A action, j :
        /\ LiaisonEvent("VOLUME_UPDATED", i, m) # LiaisonEvent(action, j, User)
  BY ImportAssumption DEF LiaisonEvent
<1>2. \/ audit' = audit
      \/ \E action, j : audit' = audit \cup {LiaisonEvent(action, j, User)}
  <2>1. ASSUME NEW i \in Liaison, AddToLicence(i)
        PROVE  \E action, j : audit' = audit \cup {LiaisonEvent(action, j, User)}
    BY <2>1 DEF AddToLicence
  <2>2. ASSUME NEW q \in Session, CommitRemove(q) \/ CommitVolume(q)
        PROVE  \E action, j : audit' = audit \cup {LiaisonEvent(action, j, User)}
    BY <2>2 DEF CommitRemove, CommitVolume
  <2>3. ASSUME NEW q \in Session, NEW i \in Liaison, BeginRemove(q, i) \/ BeginVolume(q, i)
        PROVE  audit' = audit
    BY <2>3 DEF BeginRemove, BeginVolume, Open
  <2>4. ASSUME NEW q \in Session, Generate(q) \/ GenerationFails(q)
        PROVE  audit' = audit
    BY <2>4 DEF Generate, GenerationFails, BeginGenerate, Open, ReadArticles, LogFichierGenere,
                HashTermsRead, HashProduitsRead, HashArticlesRead, StoreHash
  <2> QED
    BY <2>1, <2>2, <2>3, <2>4 DEF ContentNext, Edit, ChangeTerms, cvars
<1>3. ImportUpdates(m)' = ImportUpdates(m)
  BY <1>1, <1>2 DEF ImportUpdates
<1>4. \/ fichierLog' = fichierLog
      \/ \E row : fichierLog' = fichierLog \cup {row} /\ row.type = "LIC_GENERATED"
  <2>1. ASSUME NEW q \in Session, LogFichierGenere(q)
        PROVE  \E row : fichierLog' = fichierLog \cup {row} /\ row.type = "LIC_GENERATED"
    <3> DEFINE new == [type |-> "LIC_GENERATED", statut |-> "GENERATED",
                       dates |-> requests[q].dates, articles |-> requests[q].articles]
    <3>1. fichierLog' = fichierLog \cup {new} /\ new.type = "LIC_GENERATED"
      BY <2>1 DEF LogFichierGenere
    <3> QED
      BY <3>1
  <2>2. ASSUME NEW q \in Session, Generate(q) \/ GenerationFails(q), ~LogFichierGenere(q)
        PROVE  fichierLog' = fichierLog
    BY <2>2 DEF Generate, GenerationFails, BeginGenerate, Open, ReadArticles,
                HashTermsRead, HashProduitsRead, HashArticlesRead, StoreHash
  <2> QED
    BY <2>1, <2>2, EditCounts DEF ContentNext, cvars
<1>5. \A row \in LogRows(m) : row.type # "LIC_GENERATED"
  BY DEF LogRows, FichierImporte
<1>6. LogRows(m) \cap fichierLog' = LogRows(m) \cap fichierLog
  BY <1>4, <1>5
<1>7. faults' \in Nat /\ faults <= faults'
  <2>1. faults' \in {faults, faults + 1}
    BY EditCounts DEF ContentNext, Generate, GenerationFails, BeginGenerate, Open, ReadArticles,
         LogFichierGenere, HashTermsRead, HashProduitsRead, HashArticlesRead, StoreHash, cvars
  <2> QED
    BY <2>1 DEF ContentTypeOK
<1> QED
  BY <1>3, <1>6, <1>7

(* The entry that is being treated.                                        *)
LEMMA HeadEntry ==
  ASSUME NEW m \in Import, RunningOK(imports[m]), imports[m].todo # <<>>
  PROVE  /\ Head(imports[m].todo) \in Entry /\ Head(imports[m].todo).code \in Code
         /\ Tail(imports[m].todo) \in Seq(Entry)
<1>1. imports[m].todo \in Seq(Entry) /\ imports[m].todo # <<>>
  BY DEF RunningOK, Running
<1>2. Head(imports[m].todo) \in Entry /\ Tail(imports[m].todo) \in Seq(Entry)
  BY <1>1
<1> QED
  BY <1>2 DEF Entry

LEMMA NextEntryKept ==
  ASSUME imports = [x \in Import |-> imports[x]], NEW m \in Import, RunningOK(imports[m]),
         imports[m].todo # <<>>, edits \in Nat, edits' \in Nat,
         NEW list \in {"updated", "skipped", "outOfContract", "notInCatalog", "rejected"},
         NextEntry(m, list)
  PROVE  /\ imports' = [x \in Import |-> imports'[x]]
         /\ \A n \in Import \ {m} : imports'[n] = imports[n]
         /\ RunningOK(imports[m])'
         /\ imports'[m].at = "entry"
         /\ imports[m].report.updated # {} \/ list = "updated"
              => imports'[m].report.updated # {}
<1> DEFINE run  == imports[m]
           c    == Head(run.todo).code
           next == [run EXCEPT !.at = "entry", !.todo = Tail(run.todo), !.row = Null,
                               !.liaison = Null, !.since = 0]
           noted == [next.report EXCEPT ![list] = @ \cup {c}]
           new  == [next EXCEPT !.report[list] = @ \cup {c}]
<1>1. imports' = [imports EXCEPT ![m] = new]
  BY DEF NextEntry
<1>2. run \in Running /\ c \in Code /\ Tail(run.todo) \in Seq(Entry) /\ run.report \in Report
  BY HeadEntry DEF RunningOK, Running
<1>3. /\ next \in Running /\ next.at = "entry" /\ next.since = 0
      /\ next.report = run.report
  BY <1>2 DEF Running, RunningStage
<1> HIDE DEF next, c
<1>4. /\ noted \in Report
      /\ run.report.updated # {} \/ list = "updated" => noted.updated # {}
  BY <1>2, <1>3, ReportOf
<1>5. new = [next EXCEPT !.report = noted]
  BY <1>3 DEF Running
<1> HIDE DEF noted, new
<1>6. /\ new \in Running /\ new.at = "entry" /\ new.since = 0 /\ new.report = noted
  BY <1>3, <1>4, <1>5 DEF Running
<1> HIDE DEF run
<1>7. /\ imports' = [x \in Import |-> imports'[x]] /\ imports'[m] = new
      /\ \A n \in Import \ {m} : imports'[n] = imports[n]
  BY <1>1
<1>8. RunningOK(imports[m])'
  BY <1>6, <1>7 DEF RunningOK
<1> QED
  BY <1>4, <1>6, <1>7, <1>8 DEF run

(* A step of an import that writes nothing: the others are as they were.   *)
LEMMA OthersKept ==
  ASSUME ImportInv, NEW m \in Import, UNCHANGED <<liaisons, edits, audit>>,
         \A n \in Import \ {m} : /\ imports'[n] = imports[n]
                                 /\ LogRows(n) \cap fichierLog' = LogRows(n) \cap fichierLog
  PROVE  /\ \A n \in Import \ {m} : ImportRunOK(n)'
         /\ \A n \in Import : ImportUpdates(n)' = ImportUpdates(n)
<1>1. edits \in Nat /\ faults \in Nat /\ RowsKept
  BY DEF ImportInv, ContentTypeOK, RowsKept, Attached
<1>2. \A n \in Import : ImportUpdates(n)' = ImportUpdates(n)
  BY DEF ImportUpdates
<1>3. ASSUME NEW n \in Import \ {m} PROVE ImportRunOK(n)'
  BY <1>1, <1>2, ImportKept DEF ImportInv
<1> QED
  BY <1>2, <1>3

(* The statut of the last row, which ImportLog computes.                   *)
LEMMA LogOf ==
  ASSUME NEW m \in Import, NEW n \in Import, NEW statut
  PROVE  /\ FichierImporte(m, statut) \in LogRows(n) => m = n
         /\ FichierImporte(m, "ERREUR") # FichierImporte(m, "IMPORTED")
         /\ FichierImporte(m, "ERREUR") \in LogRows(m)
         /\ FichierImporte(m, "IMPORTED") \in LogRows(m)
BY DEF FichierImporte, LogRows

(* How an import ends: with a row that says whether it wrote anything.     *)
LEMMA LoggedKept ==
  ASSUME ImportInv, NEW m \in Import, NEW report \in Report,
         NEW statut \in {"IMPORTED", "ERREUR"},
         LogRows(m) \cap fichierLog = {},
         statut = "ERREUR" => ImportUpdates(m) = {},
         imports' = [imports EXCEPT ![m] = [at |-> "done", report |-> report]],
         fichierLog' = fichierLog \cup {FichierImporte(m, statut)},
         UNCHANGED <<terms, liaisons, stored, requests, audit, edits, generated,
                     faults, catalogue>>
  PROVE  ImportInv'
<1>1. ContentTypeOK' /\ LiaisonInv' /\ catalogue' \subseteq Article
  BY DEF ImportInv, ContentTypeOK, LiaisonInv, Attached, Added, Removed
<1>2. /\ imports' = [n \in Import |-> imports'[n]]
      /\ imports'[m] = [at |-> "done", report |-> report]
      /\ \A n \in Import \ {m} : imports'[n] = imports[n]
  BY DEF ImportInv
<1>3. \A n \in Import \ {m} : LogRows(n) \cap fichierLog' = LogRows(n) \cap fichierLog
  BY LogOf
<1>4. /\ \A n \in Import \ {m} : ImportRunOK(n)'
      /\ ImportUpdates(m)' = ImportUpdates(m)
  BY <1>2, <1>3, OthersKept DEF ImportInv, ContentTypeOK
<1>5. /\ FichierImporte(m, "ERREUR") \in fichierLog' => ImportUpdates(m) = {}
      /\ ImportUpdates(m) # {} => FichierImporte(m, "IMPORTED") \in fichierLog'
  BY LogOf
<1>6. ImportRunOK(m)'
  BY <1>2, <1>4, <1>5 DEF ImportRunOK
<1> QED
  BY <1>1, <1>2, <1>4, <1>6 DEF ImportInv

(* A step of an import that changes nothing but where it is.               *)
LEMMA RunMoves ==
  ASSUME ImportInv, NEW m \in Import, UNCHANGED <<cvars, catalogue>>,
         imports' = [n \in Import |-> imports'[n]],
         \A n \in Import \ {m} : imports'[n] = imports[n],
         RunningOK(imports[m])',
         LogRows(m) \cap fichierLog = {},
         ImportUpdates(m) # {} => imports'[m].report.updated # {}
  PROVE  ImportInv'
<1>1. ContentTypeOK' /\ LiaisonInv' /\ catalogue' \subseteq Article
  BY DEF ImportInv, ContentTypeOK, LiaisonInv, Attached, Added, Removed, cvars
<1>2. /\ \A n \in Import \ {m} : ImportRunOK(n)'
      /\ ImportUpdates(m)' = ImportUpdates(m)
  BY OthersKept DEF ImportInv, ContentTypeOK, cvars
<1>3. ImportRunOK(m)'
  BY <1>2 DEF ImportRunOK, LogRows, cvars
<1> QED
  BY <1>1, <1>2, <1>3 DEF ImportInv

(* What is known of an import that is on its way.                          *)
LEMMA OnItsWay ==
  ASSUME ImportInv, NEW m \in Import, imports[m].at \in RunningStage
  PROVE  /\ RunningOK(imports[m])
         /\ ImportUpdates(m) # {} => imports[m].report.updated # {}
         /\ LogRows(m) \cap fichierLog = {}
         /\ imports = [n \in Import |-> imports[n]] /\ edits \in Nat
BY DEF ImportInv, ImportRunOK, RunningStage, NotStarted, ContentTypeOK

LEMMA EntryKept ==
  ASSUME ImportInv, NEW m \in Import, ImportEntry(m)
  PROVE  ImportInv'
<1> DEFINE run == imports[m]
<1>1. run.at = "entry" /\ run.todo # <<>> /\ UNCHANGED <<cvars, catalogue>>
  BY DEF ImportEntry
<1>2. /\ RunningOK(run) /\ LogRows(m) \cap fichierLog = {}
      /\ ImportUpdates(m) # {} => run.report.updated # {}
      /\ imports = [n \in Import |-> imports[n]] /\ edits \in Nat /\ edits' \in Nat
  BY <1>1, OnItsWay DEF RunningStage, cvars
<1>3. ASSUME NEW list \in {"updated", "skipped", "outOfContract", "notInCatalog", "rejected"},
             NextEntry(m, list)
      PROVE  ImportInv'
  BY <1>1, <1>2, <1>3, NextEntryKept, RunMoves
<1>4. ASSUME NEW i \in Liaison,
             imports' = [imports EXCEPT ![m] = [run EXCEPT !.at = "update", !.liaison = i]]
      PROVE  ImportInv'
  <2> DEFINE new == [run EXCEPT !.at = "update", !.liaison = i]
  <2>1. /\ new \in Running /\ new.since = run.since /\ new.at = "update" /\ new.liaison = i
        /\ new.todo = run.todo /\ new.report = run.report
    BY <1>2 DEF RunningOK, Running, RunningStage
  <2> HIDE DEF new
  <2>2. /\ imports' = [n \in Import |-> imports'[n]] /\ imports'[m] = new
        /\ \A n \in Import \ {m} : imports'[n] = imports[n]
    BY <1>2, <1>4 DEF new
  <2>3. RunningOK(imports[m])'
    BY <1>1, <1>2, <2>1, <2>2 DEF RunningOK, cvars
  <2> QED
    BY <1>1, <1>2, <2>1, <2>2, <2>3, RunMoves
<1>5. \/ NextEntry(m, "notInCatalog") \/ NextEntry(m, "outOfContract") \/ NextEntry(m, "skipped")
      \/ \E i \in Liaison :
           imports' = [imports EXCEPT ![m] = [run EXCEPT !.at = "update", !.liaison = i]]
  BY DEF ImportEntry, LiaisonOf
<1> QED
  BY <1>3, <1>4, <1>5

LEMMA ReadKept ==
  ASSUME ImportInv, NEW m \in Import, ImportRead(m)
  PROVE  ImportInv'
<1> DEFINE run   == imports[m]
           entry == Head(run.todo)
           i     == run.liaison
           row   == WithVolumes(liaisons[i], [autorise |-> Keep, consomme |-> entry.volume])
<1>1. run.at = "update" /\ UNCHANGED <<cvars, catalogue>>
  BY DEF ImportRead
<1>2. /\ RunningOK(run) /\ LogRows(m) \cap fichierLog = {}
      /\ ImportUpdates(m) # {} => run.report.updated # {}
      /\ imports = [n \in Import |-> imports[n]] /\ edits \in Nat /\ edits' \in Nat
  BY <1>1, OnItsWay DEF RunningStage, cvars
<1>3. run.todo # <<>> /\ entry \in Entry /\ i \in Liaison /\ run \in Running
  BY <1>1, <1>2, HeadEntry DEF RunningOK
<1>4. CASE Attached(i) /\ entry.volume # BadVolume
  <2> DEFINE new == [run EXCEPT !.at = "write", !.since = edits, !.row = row]
  <2>1. liaisons[i] \in LiaisonRow /\ entry.volume \in VolumeOrNull
    BY <1>3, <1>4 DEF ImportInv, ContentTypeOK, Attached, Entry
  <2>2. row \in LiaisonRow /\ row.autorise = liaisons[i].autorise
    BY <2>1 DEF WithVolumes, Given, LiaisonRow
  <2> HIDE DEF row
  <2>3. /\ new \in Running /\ new.since = edits /\ new.at = "write" /\ new.liaison = i
        /\ new.todo = run.todo /\ new.report = run.report /\ new.row = row
    BY <1>2, <1>3, <2>2 DEF Running, RunningStage
  <2>4. imports' = [imports EXCEPT ![m] = new]
    BY <1>4 DEF ImportRead, row
  <2> HIDE DEF new
  <2>5. /\ imports' = [n \in Import |-> imports'[n]] /\ imports'[m] = new
        /\ \A n \in Import \ {m} : imports'[n] = imports[n]
    BY <1>2, <2>4
  <2>6. RunningOK(imports[m])'
    BY <1>1, <1>2, <1>3, <1>4, <2>2, <2>3, <2>5 DEF RunningOK, cvars, Attached
  <2> QED
    BY <1>1, <1>2, <2>3, <2>5, <2>6, RunMoves
<1>5. CASE ~(Attached(i) /\ entry.volume # BadVolume)
  <2>1. NextEntry(m, "rejected")
    BY <1>5 DEF ImportRead
  <2> QED
    BY <1>1, <1>2, <1>3, <2>1, NextEntryKept, RunMoves
<1> QED
  BY <1>4, <1>5

(* The UPDATE: the row found, if any, takes the volumes that were read     *)
(* before.  What other imports have read still holds unless that is an     *)
(* edit of the contract.                                                   *)
LEMMA WriteKept ==
  ASSUME ImportInv, NEW m \in Import, ImportWrite(m)
  PROVE  /\ ImportInv'
         /\ imports[m].since = edits => Contract' = Contract
<1> DEFINE run == imports[m]
           i   == run.liaison
<1>1. /\ run.at = "write" /\ SaveVolumes(i, run.row) /\ CountEdit
      /\ audit' = audit \cup {LiaisonEvent("VOLUME_UPDATED", i, m)}
      /\ NextEntry(m, "updated")
      /\ UNCHANGED <<terms, stored, fichierLog, requests, generated, faults, catalogue>>
  BY DEF ImportWrite
<1>2. /\ RunningOK(run) /\ LogRows(m) \cap fichierLog = {}
      /\ imports = [n \in Import |-> imports[n]] /\ edits \in Nat
      /\ ContentTypeOK /\ LiaisonInv
  BY <1>1, OnItsWay DEF RunningStage, ImportInv
<1>3. run.todo # <<>> /\ i \in Liaison /\ run.row \in LiaisonRow
  BY <1>1, <1>2 DEF RunningOK
<1>4. edits' \in Nat /\ edits <= edits' /\ (edits' = edits => Contract' = Contract)
  BY <1>1, <1>2, CountEditGrows
<1>5. /\ liaisons' \in [Liaison -> LiaisonRow \cup {Null}]
      /\ \A j \in Liaison : Attached(j)' = Attached(j)
      /\ \A j \in Liaison : Attached(j) => liaisons'[j].item = liaisons[j].item
      /\ \A j \in Liaison \ {i} : liaisons'[j] = liaisons[j]
      /\ Attached(i) => liaisons'[i].autorise = run.row.autorise
  BY <1>1, <1>2, <1>3, SaveTyped
<1>6. ContentTypeOK' /\ catalogue' \subseteq Article
  BY <1>1, <1>2, <1>4, <1>5 DEF ContentTypeOK, ImportInv
<1>7. LiaisonInv'
  <2>1. \A j : Removed(j)' = Removed(j)
    BY <1>1, EventsDiffer DEF Removed
  <2> QED
    BY <1>1, <1>2, <1>5, <2>1, VolumesKeepLiaisons
<1>8. edits' = edits => RowsKept
  BY <1>1, <1>2, <1>3, <1>4, SaveKeepsRows
<1>9. /\ imports' = [n \in Import |-> imports'[n]]
      /\ \A n \in Import \ {m} : imports'[n] = imports[n]
      /\ RunningOK(imports[m])' /\ imports'[m].report.updated # {}
  BY <1>1, <1>2, <1>3, <1>4, NextEntryKept
<1>10. ASSUME NEW n \in Import \ {m} PROVE ImportRunOK(n)'
  <2>1. ImportUpdates(n)' = ImportUpdates(n)
    BY <1>1 DEF ImportUpdates, LiaisonEvent
  <2>2. LogRows(n) \cap fichierLog' = LogRows(n) \cap fichierLog /\ faults' = faults
        /\ faults \in Nat
    BY <1>1, <1>2 DEF ContentTypeOK
  <2> QED
    BY <1>2, <1>4, <1>8, <1>9, <2>1, <2>2, ImportKept DEF ImportInv
<1>11. ImportRunOK(m)'
  BY <1>1, <1>2, <1>9 DEF ImportRunOK, LogRows
<1>12. ASSUME run.since = edits PROVE Contract' = Contract
  <2>1. RowsKept /\ \A j \in Liaison : Attached(j)' = Attached(j)
    <3>1. /\ Attached(i)
          /\ liaisons[i].item \in Article => run.row.autorise = liaisons[i].autorise
      BY <1>1, <1>2, <1>12 DEF RunningOK
    <3>2. ASSUME NEW j \in Liaison, Attached(j)
          PROVE  /\ Attached(j)' /\ liaisons'[j].item = liaisons[j].item
                 /\ liaisons[j].item \in Article => liaisons'[j].autorise = liaisons[j].autorise
      BY <1>5, <3>1, <3>2
    <3> QED
      BY <1>5, <3>2 DEF RowsKept
  <2>2. Items(Produit)' = Items(Produit) /\ Items(Article)' = Items(Article)
    BY <2>1 DEF Items, RowsKept
  <2>3. \A j \in Items(Produit) : liaisons'[j].item = liaisons[j].item
    BY <2>1 DEF Items, RowsKept
  <2>4. \A j \in Items(Article) :
          /\ liaisons'[j].item = liaisons[j].item
          /\ liaisons'[j].autorise = liaisons[j].autorise
    BY <2>1 DEF Items, RowsKept
  <2>5. Contract'.produits = Contract.produits
    BY <2>2, <2>3 DEF Contract
  <2>6. Contract'.articles = Contract.articles
    BY <2>2, <2>4 DEF Contract
  <2> QED
    BY <1>1, <2>5, <2>6 DEF Contract
<1> QED
  BY <1>6, <1>7, <1>9, <1>10, <1>11, <1>12 DEF ImportInv

LEMMA LogKept ==
  ASSUME ImportInv, NEW m \in Import, ImportLog(m) \/ ImportUnreadable(m)
  PROVE  ImportInv'
<1>1. CASE ImportLog(m)
  <2> DEFINE run == imports[m]
  <2>1. /\ RunningOK(run) /\ LogRows(m) \cap fichierLog = {}
        /\ ImportUpdates(m) # {} => run.report.updated # {}
    BY <1>1, OnItsWay DEF RunningStage, ImportLog
  <2>2. run.report \in Report
    BY <2>1 DEF RunningOK, Running
  <2>3. /\ StatutOf(run.report) \in {"IMPORTED", "ERREUR"}
        /\ StatutOf(run.report) = "ERREUR" => run.report.updated = {}
    BY DEF StatutOf
  <2> QED
    BY <1>1, <2>1, <2>2, <2>3, LoggedKept DEF ImportLog
<1>2. CASE ImportUnreadable(m)
  <2>1. ImportUpdates(m) = {} /\ LogRows(m) \cap fichierLog = {}
    BY <1>2 DEF ImportInv, ImportRunOK, ImportUnreadable, NotStarted, RunningOK, Running,
                RunningStage
  <2> QED
    BY <1>2, <2>1, ReportOf, LoggedKept DEF ImportUnreadable
<1> QED
  BY <1>1, <1>2

LEMMA BeginKept ==
  ASSUME ImportInv, NEW m \in Import, BeginImport(m)
  PROVE  ImportInv'
<1>1. PICK file \in HealthcheckFile :
        imports' = [imports EXCEPT ![m] =
          [at |-> "entry", todo |-> file, articles |-> catalogue,
           row |-> Null, liaison |-> Null, since |-> 0, report |-> EmptyReport]]
  BY DEF BeginImport
<1> DEFINE new == [at |-> "entry", todo |-> file, articles |-> catalogue,
                   row |-> Null, liaison |-> Null, since |-> 0, report |-> EmptyReport]
<1>2. file \in Seq(Entry) /\ catalogue \subseteq Article /\ edits \in Nat
  BY ImportAssumption DEF ImportInv, ContentTypeOK
<1>3. /\ new \in Running /\ new.since = 0 /\ new.at = "entry"
  BY <1>2, ReportOf DEF Running, RunningStage
<1>4. /\ ImportUpdates(m) = {} /\ LogRows(m) \cap fichierLog = {}
      /\ imports = [n \in Import |-> imports[n]] /\ UNCHANGED <<cvars, catalogue>>
  BY DEF ImportInv, ImportRunOK, BeginImport, NotStarted, RunningOK, Running, RunningStage
<1> HIDE DEF new
<1>5. /\ imports' = [n \in Import |-> imports'[n]] /\ imports'[m] = new
      /\ \A n \in Import \ {m} : imports'[n] = imports[n]
  BY <1>1, <1>4 DEF new
<1>6. RunningOK(imports[m])'
  BY <1>2, <1>3, <1>4, <1>5 DEF RunningOK, cvars
<1> QED
  BY <1>4, <1>5, <1>6, RunMoves

(* An entry that throws is noted, and nothing else changes.                *)
LEMMA FailsKept ==
  ASSUME ImportInv, NEW m \in Import, ImportEntryFails(m)
  PROVE  ImportInv'
<1>1. /\ imports[m].at \in RunningStage /\ NextEntry(m, "rejected")
      /\ imports[m].at = "entry" => imports[m].todo # <<>>
      /\ faults' = faults + 1
      /\ UNCHANGED <<terms, liaisons, stored, fichierLog, requests, audit, edits, generated,
                     catalogue>>
  BY DEF ImportEntryFails, RunningStage
<1>2. /\ RunningOK(imports[m]) /\ LogRows(m) \cap fichierLog = {}
      /\ ImportUpdates(m) # {} => imports[m].report.updated # {}
      /\ imports = [n \in Import |-> imports[n]]
      /\ edits \in Nat /\ edits' \in Nat /\ faults \in Nat
  BY <1>1, OnItsWay DEF ImportInv, ContentTypeOK
<1>3. imports[m].todo # <<>>
  BY <1>1, <1>2 DEF RunningOK, RunningStage
<1>4. /\ imports' = [n \in Import |-> imports'[n]]
      /\ \A n \in Import \ {m} : imports'[n] = imports[n]
      /\ RunningOK(imports[m])'
      /\ ImportUpdates(m) # {} => imports'[m].report.updated # {}
  BY <1>1, <1>2, <1>3, NextEntryKept
<1>5. /\ \A n \in Import \ {m} : ImportRunOK(n)'
      /\ ImportUpdates(m)' = ImportUpdates(m)
  BY <1>1, <1>2, <1>4, OthersKept
<1>6. ImportRunOK(m)'
  BY <1>1, <1>2, <1>4, <1>5 DEF ImportRunOK, LogRows
<1>7. ContentTypeOK' /\ LiaisonInv' /\ catalogue' \subseteq Article
  BY <1>1, <1>2 DEF ImportInv, ContentTypeOK, LiaisonInv, Attached, Added, Removed
<1> QED
  BY <1>4, <1>5, <1>6, <1>7 DEF ImportInv

LEMMA DiesKept ==
  ASSUME ImportInv, NEW m \in Import, ImportDies(m)
  PROVE  ImportInv'
<1> DEFINE new == [at |-> "dead", report |-> imports[m].report]
<1>1. /\ imports[m].at \in RunningStage /\ imports' = [imports EXCEPT ![m] = new]
      /\ faults' = faults + 1
      /\ UNCHANGED <<terms, liaisons, stored, fichierLog, requests, audit, edits, generated,
                     catalogue>>
  BY DEF ImportDies, RunningStage
<1>2. /\ imports[m].report \in Report /\ LogRows(m) \cap fichierLog = {}
      /\ imports = [n \in Import |-> imports[n]] /\ faults \in Nat
  BY <1>1, OnItsWay DEF RunningOK, Running, ImportInv, ContentTypeOK
<1>3. /\ imports' = [n \in Import |-> imports'[n]] /\ imports'[m] = new
      /\ \A n \in Import \ {m} : imports'[n] = imports[n]
  BY <1>1, <1>2
<1>4. \A n \in Import \ {m} : ImportRunOK(n)'
  BY <1>1, <1>2, <1>3, OthersKept
<1>5. ImportRunOK(m)'
  BY <1>1, <1>2, <1>3 DEF ImportRunOK, LogRows
<1>6. ContentTypeOK' /\ LiaisonInv' /\ catalogue' \subseteq Article
  BY <1>1, <1>2 DEF ImportInv, ContentTypeOK, LiaisonInv, Attached, Added, Removed
<1> QED
  BY <1>3, <1>4, <1>5, <1>6 DEF ImportInv

LEMMA ContentKept ==
  ASSUME ImportInv, [ContentNext]_cvars, imports' = imports, catalogue' \subseteq Article
  PROVE  ImportInv'
<1>1. ContentTypeOK' /\ LiaisonInv'
  BY NextTyped, LiaisonStep DEF ImportInv
<1>2. edits \in Nat /\ faults \in Nat /\ edits' \in Nat /\ edits <= edits'
      /\ (edits' = edits => RowsKept)
  BY ContentKeepsRows DEF ImportInv, ContentTypeOK
<1>3. ASSUME NEW m \in Import PROVE ImportRunOK(m)'
  BY <1>2, ContentKeepsLogs, ImportKept DEF ImportInv
<1> QED
  BY <1>1, <1>3 DEF ImportInv

LEMMA ImportStepKept == ImportInv /\ [ImportNext]_ivars => ImportInv'
<1> SUFFICES ASSUME ImportInv, [ImportNext]_ivars PROVE ImportInv'
  OBVIOUS
<1>1. ASSUME NEW a \in Article, ToggleArticle(a)
      PROVE  ImportInv'
  <2>1. catalogue' \subseteq Article /\ imports' = imports /\ UNCHANGED cvars
    BY <1>1 DEF ToggleArticle, ImportInv
  <2> QED
    BY <2>1, ContentKept
<1>2. CASE UNCHANGED ivars \/ (ContentNext /\ UNCHANGED <<catalogue, imports>>)
  <2>1. [ContentNext]_cvars /\ imports' = imports /\ catalogue' \subseteq Article
    BY <1>2 DEF ivars, ImportInv
  <2> QED
    BY <2>1, ContentKept
<1> QED
  BY <1>1, <1>2, EntryKept, ReadKept, WriteKept, LogKept, BeginKept, FailsKept, DiesKept
     DEF ImportNext, ImportStep

LEMMA InitImports == ImportInit => ImportInv
<1> SUFFICES ASSUME ImportInit PROVE ImportInv
  OBVIOUS
<1>1. ContentTypeOK /\ LiaisonInv
  BY InitTyped, InitLiaisons DEF ImportInit
<1>2. \A m \in Import : ImportRunOK(m)
  BY DEF ImportInit, Init, ImportRunOK, ImportUpdates
<1> QED
  BY <1>1, <1>2 DEF ImportInit, ImportInv

LEMMA ExactFromInv == ImportInv => ImportExact
<1> SUFFICES ASSUME ImportInv PROVE ImportExact
  OBVIOUS
<1>1. ASSUME NEW m \in Import
      PROVE  LET run == imports[m]
             IN  \/ run = NotStarted
                 \/ run.at \in {"done", "dead"} /\ run.report \in Report
                 \/ /\ run.report \in Report
                    /\ run.articles \subseteq Article /\ run.since \in 0 .. edits
                    /\ \/ run.at = "entry"
                       \/ run.at = "update" /\ run.liaison \in Liaison
                       \/ run.at = "write" /\ run.row \in LiaisonRow
  BY DEF ImportInv, ImportRunOK, RunningOK, Running, RunningStage, ContentTypeOK
<1>2. ImportTypeOK
  BY <1>1 DEF ImportTypeOK, ImportInv
<1>3. ErreurWroteNothing
  BY LogOf DEF ErreurWroteNothing, ImportInv, ImportRunOK
<1>4. WrittenVolumesTraced
  BY DEF WrittenVolumesTraced, ImportInv, ImportRunOK, RunningOK, Running, RunningStage
<1>5. RemovalFinal
  BY DEF RemovalFinal, ImportInv, LiaisonInv, Removed
<1> QED
  BY <1>2, <1>3, <1>4, <1>5 DEF ImportExact, ImportInv

LEMMA ImportInvariant == ImportSpec => []ImportInv
BY InitImports, ImportStepKept, PTL DEF ImportSpec

(* What the history of the files says of an import is what it did, beside  *)
(* any edits, generations and other imports, and whatever dies.            *)
THEOREM ImportsAreExact == ImportSpec => []ImportExact
BY ImportInvariant, ExactFromInv, PTL

(* An import between whose read and whose write nobody changed the         *)
(* contract does not change it either.                                     *)
THEOREM QuietImportsKeepContract == ImportSpec => QuietImportKeepsContract
<1>1. ASSUME ImportInv, ImportNext, NEW m \in Import,
             imports[m].at = "write", imports'[m].at = "entry", imports[m].since = edits
      PROVE  Contract' = Contract
  <2>1. imports = [n \in Import |-> imports[n]]
    BY <1>1 DEF ImportInv
  <2>2. ASSUME NEW n \in Import, n # m,
               \/ BeginImport(n) \/ ImportUnreadable(n) \/ ImportStep(n)
               \/ ImportEntryFails(n) \/ ImportDies(n)
        PROVE  imports'[m] = imports[m]
    BY <2>1, <2>2 DEF BeginImport, ImportUnreadable, ImportStep, ImportEntry, ImportRead, ImportWrite,
                      ImportLog, ImportEntryFails, ImportDies, NextEntry
  <2>3. \/ ImportStep(m) \/ BeginImport(m) \/ ImportUnreadable(m)
        \/ ImportEntryFails(m) \/ ImportDies(m)
    BY <1>1, <2>2 DEF ImportNext, ToggleArticle
  <2>4. ImportWrite(m) \/ ImportEntryFails(m)
    BY <1>1, <2>1, <2>3 DEF ImportStep, BeginImport, ImportUnreadable, ImportDies, ImportEntry,
                            ImportRead, ImportLog, NotStarted
  <2>5. ImportEntryFails(m) => Contract' = Contract
    BY DEF ImportEntryFails, Contract, Items, Attached
  <2> QED
    BY <1>1, <2>4, <2>5, WriteKept
<1>2. ImportInv /\ [ImportNext]_ivars =>
        [\A m \in Import :
           imports[m].at = "write" /\ imports'[m].at = "entry" /\ imports[m].since = edits
             => Contract' = Contract]_ivars
  BY <1>1
<1> QED
  BY <1>2, ImportInvariant, PTL DEF ImportSpec, QuietImportKeepsContract
=============================================================================
