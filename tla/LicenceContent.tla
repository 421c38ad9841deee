--------------------------- MODULE LicenceContent ---------------------------
(***************************************************************************)
(* What a licence contains (its products, its articles and their volumes), *)
(* the .lic file generated from it, and the hash that tells the user       *)
(* whether the last file is outdated.  The module speaks of one licence:   *)
(* licences share none of this state.                                      *)
(*                                                                         *)
(* Attaching, removing and updating a volume are transactions at READ      *)
(* COMMITTED.  Generating the file is not one: each of its SELECTs, its    *)
(* INSERT and its last UPDATE is a step of its own.                        *)
(***************************************************************************)
EXTENDS Integers

CONSTANTS
  Liaison,   \* ids of lic_licence_produits and lic_licence_articles rows
  Produit,   \* products of the catalogue
  Article,   \* articles of the catalogue
  Volume,    \* volumes a user types
  VolumeInput,\* the patches users send to UpdateArticleVolumeUseCase
  Term,      \* values of the licence's own fields: [dates, status]
  Session,   \* concurrent requests of the web application
  User,      \* who an audit row names when a person asked for the change
  Null,      \* NULL, and no row
  Keep,      \* an optional field the request leaves undefined
  MaxEdit,   \* bound: no request starts after that many contract changes
  MaxFault   \* bound: how many generations may fail midway

VolumeOrNull == Volume \cup {Null}

VolumePatch ==
  [autorise : VolumeOrNull \cup {Keep}, consomme : VolumeOrNull \cup {Keep}]

(* A product is attached without volumes.                                  *)
LiaisonRow ==
  [item : Produit \cup Article, autorise : VolumeOrNull, consomme : VolumeOrNull]

FileRow ==
  [article : Article, volume : VolumeOrNull]

Hash ==
  [terms : Term \cup {Null}, produits : SUBSET Produit, articles : SUBSET FileRow]

ASSUME ContentAssumption ==
  /\ VolumeInput \subseteq VolumePatch
  /\ Volume \subseteq Nat
  /\ Null \notin Nat \cup LiaisonRow \cup Hash
  /\ Keep \notin Nat /\ Null # Keep
  /\ Produit \cap Article = {}
  /\ Term \subseteq [dates : {t.dates : t \in Term},
                     status : {t.status : t \in Term}]
  /\ MaxEdit \in Nat /\ MaxFault \in Nat

VARIABLES
  terms,     \* dates and status of the lic_licences row
  liaisons,  \* the attached products and articles
  stored,    \* last_lic_file_hash of the lic_licences row
  fichierLog,\* lic_fichiers_log
  requests,  \* what each session is in the middle of
  audit,     \* lic_audit_log, for the liaisons
  edits,     \* history: how many times the contract changed
  generated, \* history: the generation that stored the hash
  faults     \* how many generations have failed

cvars == <<terms, liaisons, stored, fichierLog, requests, audit, edits,
           generated, faults>>

-----------------------------------------------------------------------------
Given(field, old) == IF field = Keep THEN old ELSE field

WithVolumes(row, patch) ==
  [row EXCEPT !.autorise = Given(patch.autorise, @),
              !.consomme = Given(patch.consomme, @)]

LiaisonEvent(action, i, by) == [action |-> action, liaison |-> i, by |-> by]

Attached(i) == liaisons[i] # Null

(* Ids are never used again.                                               *)
Unused(i) == LiaisonEvent("ADDED", i, User) \notin audit

Items(kind) == {i \in Liaison : Attached(i) /\ liaisons[i].item \in kind}

(* The three SELECTs of computeLicenceContentHash.                         *)
HashProduits == {liaisons[i].item : i \in Items(Produit)}

(* Mutant: the hash takes the wrong one of the two volumes.                *)
HashArticlesConsumed ==
  {[article |-> liaisons[i].item, volume |-> liaisons[i].consomme] :
     i \in Items(Article)}

HashArticles ==
  {[article |-> liaisons[i].item, volume |-> liaisons[i].autorise] :
     i \in Items(Article)}

CurrentHash == [terms |-> terms, produits |-> HashProduits, articles |-> HashArticles]

(* GetLicFileStaleStatusUseCase: what the licence page says of the file.   *)
StaleStatus ==
  CASE stored = Null        -> "never"
    [] stored = CurrentHash -> "fresh"
    [] OTHER                -> "stale"

(* What generateLicenceFichier puts in the file.                           *)
FileArticles ==
  {[article |-> liaisons[i].item, volume |-> liaisons[i].autorise] :
     i \in Items(Article)}

(* What the parties agreed on: all of it but the volumes consumed.         *)
Contract ==
  [terms    |-> terms,
   produits |-> {liaisons[i].item : i \in Items(Produit)},
   articles |-> {[article |-> liaisons[i].item, volume |-> liaisons[i].autorise] :
                   i \in Items(Article)}]

(* The audit rows the history of the licence shows.                        *)
LicenceHistory == {event \in audit : Attached(event.liaison)}

CountEdit == edits' = IF Contract' = Contract THEN edits ELSE edits + 1

-----------------------------------------------------------------------------
Idle == [op |-> "idle"]

Open(q, request) ==
  /\ requests[q] = Idle
  /\ requests' = [requests EXCEPT ![q] = request]
  /\ UNCHANGED <<terms, liaisons, stored, fichierLog, audit, edits, generated,
                 faults>>

Close(q) == requests' = [requests EXCEPT ![q] = Idle]

Init ==
  /\ terms \in Term
  /\ liaisons = [i \in Liaison |-> Null]
  /\ stored = Null
  /\ fichierLog = {}
  /\ requests = [q \in Session |-> Idle]
  /\ audit = {}
  /\ edits = 0
  /\ generated = Null
  /\ faults = 0

(* Any operation of LicenceLifecycle that writes the licence row.          *)
ChangeTerms ==
  /\ edits < MaxEdit
  /\ terms' \in Term \ {terms}
  /\ edits' = edits + 1
  /\ UNCHANGED <<liaisons, stored, fichierLog, requests, audit, generated, faults>>

(* AddArticleToLicence and AddProduitToLicence read only to refuse what    *)
(* the UNIQUE constraint would refuse at the INSERT.                       *)
AddToLicence(i) ==
  /\ edits < MaxEdit
  /\ Unused(i)
  /\ \E row \in LiaisonRow :
       /\ \A j \in Liaison : Attached(j) => liaisons[j].item # row.item
       /\ row.item \in Produit => row.autorise = Null
       /\ row.consomme = Null
       /\ liaisons' = [liaisons EXCEPT ![i] = row]
  /\ audit' = audit \cup {LiaisonEvent("ADDED", i, User)}
  /\ UNCHANGED <<terms, stored, fichierLog, requests, generated, faults>>
  /\ CountEdit

(* RemoveArticleFromLicence, RemoveProduitFromLicence: findById ...        *)
BeginRemove(q, i) ==
  /\ edits < MaxEdit
  /\ Attached(i)
  /\ Open(q, [op |-> "remove", liaison |-> i])

(* ... then DELETE WHERE id, and the audit of the row that was found.      *)
CommitRemove(q) ==
  LET i == requests[q].liaison
  IN  /\ requests[q].op = "remove"
      /\ liaisons' = [liaisons EXCEPT ![i] = Null]
      /\ audit' = audit \cup {LiaisonEvent("REMOVED", i, User)}
      /\ Close(q)
      /\ UNCHANGED <<terms, stored, fichierLog, generated, faults>>
      /\ CountEdit

(* Mutant: INSERT ... ON CONFLICT instead of UPDATE.                       *)
UpsertVolumes(i, row) == liaisons' = [liaisons EXCEPT ![i] = row]

(* LicenceArticleRepositoryPg.updateVolume: UPDATE of both columns WHERE   *)
(* id, which matches nothing once the row is gone.                         *)
SaveVolumes(i, row) ==
  liaisons' = [liaisons EXCEPT ![i] =
    IF @ = Null THEN Null
    ELSE [@ EXCEPT !.autorise = row.autorise, !.consomme = row.consomme]]

(* UpdateArticleVolumeUseCase, up to its UPDATE.                           *)
BeginVolume(q, i) ==
  /\ edits < MaxEdit
  /\ Attached(i)
  /\ liaisons[i].item \in Article
  /\ \E patch \in VolumeInput :
       Open(q, [op |-> "volume", liaison |-> i,
                row |-> WithVolumes(liaisons[i], patch)])

CommitVolume(q) ==
  LET tx == requests[q]
  IN  /\ tx.op = "volume"
      /\ SaveVolumes(tx.liaison, tx.row)
      /\ audit' = audit \cup {LiaisonEvent("VOLUME_UPDATED", tx.liaison, User)}
      /\ Close(q)
      /\ UNCHANGED <<terms, stored, fichierLog, generated, faults>>
      /\ CountEdit

-----------------------------------------------------------------------------
(* GenerateLicenceFichierUseCase.  It reads the licence and, later, its    *)
(* articles ...                                                            *)
NoHash == [terms |-> Null, produits |-> {}, articles |-> {}]

BeginGenerate(q) ==
  Open(q, [op |-> "readArticles", since |-> edits, dates |-> terms.dates,
           articles |-> {}, hash |-> NoHash])

Advance(q, from, request) ==
  /\ requests[q].op = from
  /\ requests' = [requests EXCEPT ![q] = request]

ReadArticles(q) ==
  /\ Advance(q, "readArticles",
       [requests[q] EXCEPT !.op = "log", !.articles = FileArticles])
  /\ UNCHANGED <<terms, liaisons, stored, fichierLog, audit, edits, generated,
                 faults>>

(* ... signs the content and logs the file ...                             *)
LogFichierGenere(q) ==
  /\ Advance(q, "log", [requests[q] EXCEPT !.op = "hashTerms"])
  /\ fichierLog' = fichierLog \cup
       {[type |-> "LIC_GENERATED", statut |-> "GENERATED",
         dates |-> requests[q].dates, articles |-> requests[q].articles]}
  /\ UNCHANGED <<terms, liaisons, stored, audit, edits, generated, faults>>

(* ... reads everything once more for the hash ...                         *)
HashTermsRead(q) ==
  /\ Advance(q, "hashTerms",
       [requests[q] EXCEPT !.op = "hashProduits", !.hash.terms = terms])
  /\ UNCHANGED <<terms, liaisons, stored, fichierLog, audit, edits, generated,
                 faults>>

HashProduitsRead(q) ==
  /\ Advance(q, "hashProduits",
       [requests[q] EXCEPT !.op = "hashArticles", !.hash.produits = HashProduits])
  /\ UNCHANGED <<terms, liaisons, stored, fichierLog, audit, edits, generated,
                 faults>>

HashArticlesRead(q) ==
  /\ Advance(q, "hashArticles",
       [requests[q] EXCEPT !.op = "store", !.hash.articles = HashArticles])
  /\ UNCHANGED <<terms, liaisons, stored, fichierLog, audit, edits, generated,
                 faults>>

(* Mutant: only the first generation stores its hash.                      *)
StoreHashOnce(q) ==
  /\ requests[q].op = "store"
  /\ stored' = IF stored = Null THEN requests[q].hash ELSE stored
  /\ generated' = [since |-> requests[q].since, dates |-> requests[q].dates,
                   articles |-> requests[q].articles]
  /\ Close(q)
  /\ UNCHANGED <<terms, liaisons, fichierLog, audit, edits, faults>>

(* ... and stores it in the licence row, without touching its version.     *)
StoreHash(q) ==
  /\ requests[q].op = "store"
  /\ stored' = requests[q].hash
  /\ generated' = [since |-> requests[q].since, dates |-> requests[q].dates,
                   articles |-> requests[q].articles]
  /\ Close(q)
  /\ UNCHANGED <<terms, liaisons, fichierLog, audit, edits, faults>>

GenerationStage ==
  {"readArticles", "log", "hashTerms", "hashProduits", "hashArticles", "store"}

(* No certificate, an INSERT that throws, or the process dies: what was    *)
(* written so far stays.                                                   *)
GenerationFails(q) ==
  /\ faults < MaxFault
  /\ requests[q].op \in GenerationStage
  /\ Close(q)
  /\ faults' = faults + 1
  /\ UNCHANGED <<terms, liaisons, stored, fichierLog, audit, edits, generated>>

Generate(q) ==
  \/ BeginGenerate(q)
  \/ ReadArticles(q)
  \/ LogFichierGenere(q)
  \/ HashTermsRead(q)
  \/ HashProduitsRead(q)
  \/ HashArticlesRead(q)
  \/ StoreHash(q)

Edit(q) ==
  \/ \E i \in Liaison : BeginRemove(q, i) \/ BeginVolume(q, i)
  \/ CommitRemove(q)
  \/ CommitVolume(q)

ContentNext ==
  \/ ChangeTerms
  \/ \E i \in Liaison : AddToLicence(i)
  \/ \E q \in Session : Edit(q) \/ Generate(q) \/ GenerationFails(q)

Spec == Init /\ [][ContentNext]_cvars

(* A request that has started runs on, and somebody generates the file     *)
(* again whenever the page does not call it fresh.                         *)
FollowBanner(q) == StaleStatus # "fresh" /\ BeginGenerate(q)

RequestFairness ==
  \A q \in Session :
    /\ WF_cvars(CommitRemove(q) \/ CommitVolume(q))
    /\ WF_cvars(ReadArticles(q) \/ LogFichierGenere(q) \/ HashTermsRead(q)
                \/ HashProduitsRead(q) \/ HashArticlesRead(q) \/ StoreHash(q))
    /\ WF_cvars(FollowBanner(q))

FairSpec == Spec /\ RequestFairness

-----------------------------------------------------------------------------
Request ==
  {Idle}
  \cup [op : {"remove"}, liaison : Liaison]
  \cup [op : {"volume"}, liaison : Liaison, row : LiaisonRow]
  \cup [op : GenerationStage, since : Nat, dates : {t.dates : t \in Term},
        articles : SUBSET FileRow, hash : Hash]

(* The rows, the stored hash and the requests are of their types.          *)
ContentTypeOK ==
  /\ terms \in Term
  /\ liaisons \in [Liaison -> LiaisonRow \cup {Null}]
  /\ stored \in Hash \cup {Null}
  /\ requests \in [Session -> Request]
  /\ edits \in Nat /\ faults \in Nat

(* A file generated while nobody changed the contract, and the contract    *)
(* has not changed since: it is what the contract says, and the page says  *)
(* so.  The volumes that healthchecks report do not make it outdated.      *)
QuietGenerationFresh ==
  generated # Null /\ generated.since = edits =>
    /\ StaleStatus = "fresh"
    /\ generated.dates = terms.dates
    /\ generated.articles = Contract.articles

(* A removed liaison does not come back: an update of its volumes that     *)
(* read it before the removal finds no row to write.                       *)
RemovalFinal ==
  \A i \in Liaison :
    LiaisonEvent("REMOVED", i, User) \in audit => ~Attached(i)

(* Once users stop changing the contract, generating the file whenever the *)
(* page asks for it ends with a page that calls it fresh.                  *)
EventuallyFresh == <>[](edits < MaxEdit \/ StaleStatus = "fresh")

(* The history of the licence tells what was done to its liaisons.  The    *)
(* liaisons of its scope are those of the table: the audit rows of one     *)
(* that was removed are not shown, its removal neither.                    *)
HistoryTellsRemovals == audit = LicenceHistory

(* "fresh : .lic genere et contenu inchange depuis": a file the page calls *)
(* fresh holds the dates and the volumes of the licence.                   *)
FreshFileIsCurrent ==
  StaleStatus = "fresh" =>
    /\ generated.dates = terms.dates
    /\ generated.articles = Contract.articles
=============================================================================
