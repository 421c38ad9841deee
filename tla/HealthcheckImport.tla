-------------------------- MODULE HealthcheckImport --------------------------
(***************************************************************************)
(* The import of a healthcheck file, beside everything LicenceContent does *)
(* to the same licence.  ImportHealthcheckUseCase is not one transaction:  *)
(* it reads the catalogue once, then takes the entries of the file one by  *)
(* one, each with a SELECT of the liaison and a transaction that updates   *)
(* its volume, and writes one lic_fichiers_log row at the end.             *)
(***************************************************************************)
EXTENDS LicenceContent, Sequences, FiniteSetsExt

CONSTANTS
  Import,    \* the imports users run
  Code,      \* article codes
  CodeOf,    \* the code of each article, unique in its product only
  BadVolume, \* a number that is no volume: negative or fractional
  HealthcheckFile \* the files users deposit: sequences of entries

Entry == [code : Code, volume : VolumeOrNull \cup {BadVolume}]

ASSUME ImportAssumption ==
  /\ Article \subseteq Nat    \* ordered as findAll orders them
  /\ CodeOf \in [Article -> Code]
  /\ User \notin Import
  /\ BadVolume \notin VolumeOrNull \cup {Keep}
  /\ HealthcheckFile \subseteq Seq(Entry)

VARIABLES
  catalogue, \* the active articles
  imports    \* what each import is in the middle of

ivars == <<cvars, catalogue, imports>>

NotStarted == [at |-> "notStarted"]

(* The lists the report is made of, as sets of codes.                      *)
EmptyReport ==
  [updated |-> {}, skipped |-> {}, outOfContract |-> {}, notInCatalog |-> {},
   rejected |-> {}]

ImportInit ==
  /\ Init
  /\ catalogue = Article
  /\ imports = [m \in Import |-> NotStarted]

ToggleArticle(a) ==
  /\ edits < MaxEdit
  /\ catalogue' = IF a \in catalogue THEN catalogue \ {a} ELSE catalogue \cup {a}
  /\ UNCHANGED <<cvars, imports>>

FichierImporte(m, statut) ==
  [type |-> "HEALTHCHECK_IMPORTED", statut |-> statut, import |-> m]

(* The file cannot be decrypted or parsed: that alone is logged.           *)
ImportUnreadable(m) ==
  /\ imports[m] = NotStarted
  /\ imports' = [imports EXCEPT ![m] = [at |-> "done", report |-> EmptyReport]]
  /\ fichierLog' = fichierLog \cup {FichierImporte(m, "ERREUR")}
  /\ UNCHANGED <<terms, liaisons, stored, requests, audit, edits, generated,
                 faults, catalogue>>

(* findAll({ actif: true }), into a Map by code.                           *)
BeginImport(m) ==
  /\ imports[m] = NotStarted
  /\ \E file \in HealthcheckFile :
       imports' = [imports EXCEPT ![m] =
         [at |-> "entry", todo |-> file, articles |-> catalogue,
          row |-> Null, liaison |-> Null, since |-> 0, report |-> EmptyReport]]
  /\ UNCHANGED <<cvars, catalogue>>

WithCode(articles, code) == {a \in articles : CodeOf[a] = code}

(* The Map keeps the last of the articles that share a code.               *)
ArticleByCode(articles, code) == Max(WithCode(articles, code))

LiaisonOf(a) == {i \in Liaison : Attached(i) /\ liaisons[i].item = a}

(* The loop goes on with the next entry, having noted this one.            *)
NextEntry(m, list) ==
  LET run == imports[m]
  IN  imports' = [imports EXCEPT ![m] =
        [run EXCEPT !.at = "entry", !.todo = Tail(run.todo), !.row = Null,
                    !.liaison = Null, !.since = 0,
                    !.report[list] = @ \cup {Head(run.todo).code}]]

(* What findByLicenceArticle makes of the entry.                           *)
ImportEntry(m) ==
  LET run   == imports[m]
      entry == Head(run.todo)
      found == LiaisonOf(ArticleByCode(run.articles, entry.code))
  IN  /\ run.at = "entry"
      /\ run.todo # <<>>
      /\ IF WithCode(run.articles, entry.code) = {}
         THEN NextEntry(m, "notInCatalog")
         ELSE IF found = {} THEN NextEntry(m, "outOfContract")
         ELSE IF entry.volume = Null THEN NextEntry(m, "skipped")
         ELSE \E i \in found :
                imports' = [imports EXCEPT ![m] =
                              [run EXCEPT !.at = "update", !.liaison = i]]
      /\ UNCHANGED <<cvars, catalogue>>

(* Mutant: the exceptions of one entry are not caught.                     *)
ImportReadUncaught(m) ==
  LET run   == imports[m]
      entry == Head(run.todo)
  IN  /\ run.at = "update"
      /\ Attached(run.liaison) /\ entry.volume # BadVolume
      /\ imports' = [imports EXCEPT ![m] =
           [run EXCEPT !.at = "write",
                       !.row = WithVolumes(liaisons[run.liaison],
                         [autorise |-> Keep, consomme |-> entry.volume])]]
      /\ UNCHANGED <<cvars, catalogue>>

(* Mutant: the volume reported is written over the volume allowed.         *)
ImportReadAutorise(m) ==
  LET run   == imports[m]
      entry == Head(run.todo)
  IN  /\ run.at = "update"
      /\ IF Attached(run.liaison) /\ entry.volume # BadVolume
         THEN imports' = [imports EXCEPT ![m] =
                [run EXCEPT !.at = "write", !.since = edits,
                            !.row = WithVolumes(liaisons[run.liaison],
                              [autorise |-> entry.volume, consomme |-> Keep])]]
         ELSE NextEntry(m, "rejected")
      /\ UNCHANGED <<cvars, catalogue>>

(* UpdateArticleVolumeUseCase reads the row again, in its transaction; a   *)
(* row that is gone or a volume it refuses is caught and noted.            *)
ImportRead(m) ==
  LET run   == imports[m]
      entry == Head(run.todo)
  IN  /\ run.at = "update"
      /\ IF Attached(run.liaison) /\ entry.volume # BadVolume
         THEN imports' = [imports EXCEPT ![m] =
                [run EXCEPT !.at = "write", !.since = edits,
                            !.row = WithVolumes(liaisons[run.liaison],
                              [autorise |-> Keep, consomme |-> entry.volume])]]
         ELSE NextEntry(m, "rejected")
      /\ UNCHANGED <<cvars, catalogue>>

(* ... and commits the UPDATE of both columns with its audit.              *)
ImportWrite(m) ==
  LET run == imports[m]
  IN  /\ run.at = "write"
      /\ SaveVolumes(run.liaison, run.row)
      /\ audit' = audit \cup {LiaisonEvent("VOLUME_UPDATED", run.liaison, m)}
      /\ NextEntry(m, "updated")
      /\ UNCHANGED <<terms, stored, fichierLog, requests, generated, faults,
                     catalogue>>
      /\ CountEdit

(* The SELECT of the liaison throws, or the transaction of its update, which *)
(* is rolled back: caught, and the entry noted like a volume refused.      *)
ImportEntryFails(m) ==
  LET run == imports[m]
  IN  /\ faults < MaxFault
      /\ \/ /\ run.at = "entry" /\ run.todo # <<>>
            /\ WithCode(run.articles, Head(run.todo).code) # {}
         \/ run.at \in {"update", "write"}
      /\ NextEntry(m, "rejected")
      /\ faults' = faults + 1
      /\ UNCHANGED <<terms, liaisons, stored, fichierLog, requests, audit, edits,
                     generated, catalogue>>

Errors(report) ==
  report.outOfContract \cup report.notInCatalog \cup report.rejected

(* Mutant: any error makes the import an ERREUR.                           *)
StatutOfErrors(report) == IF Errors(report) # {} THEN "ERREUR" ELSE "IMPORTED"

StatutOf(report) ==
  IF Errors(report) # {} /\ report.updated = {} /\ report.skipped = {}
  THEN "ERREUR" ELSE "IMPORTED"

(* The end of the loop: one row in the history of the files.               *)
ImportLog(m) ==
  LET run == imports[m]
  IN  /\ run.at = "entry"
      /\ run.todo = <<>>
      /\ imports' = [imports EXCEPT ![m] = [at |-> "done", report |-> run.report]]
      /\ fichierLog' = fichierLog \cup {FichierImporte(m, StatutOf(run.report))}
      /\ UNCHANGED <<terms, liaisons, stored, requests, audit, edits, generated,
                     faults, catalogue>>

(* The process dies, or an exception outside the loop ends the import, the *)
(* last INSERT throwing for one: the volumes updated so far stay, nothing  *)
(* is logged.                                                              *)
ImportDies(m) ==
  /\ faults < MaxFault
  /\ imports[m].at \in {"entry", "update", "write"}
  /\ imports' = [imports EXCEPT ![m] =
                   [at |-> "dead", report |-> imports[m].report]]
  /\ faults' = faults + 1
  /\ UNCHANGED <<terms, liaisons, stored, fichierLog, requests, audit, edits,
                 generated, catalogue>>

ImportStep(m) ==
  ImportEntry(m) \/ ImportRead(m) \/ ImportWrite(m) \/ ImportLog(m)

ImportNext ==
  \/ ContentNext /\ UNCHANGED <<catalogue, imports>>
  \/ \E a \in Article : ToggleArticle(a)
  \/ \E m \in Import :
       \/ BeginImport(m) \/ ImportUnreadable(m) \/ ImportStep(m)
       \/ ImportEntryFails(m) \/ ImportDies(m)

ImportSpec == ImportInit /\ [][ImportNext]_ivars

(* An import that has started runs on.                                     *)
FairImportSpec == ImportSpec /\ \A m \in Import : WF_ivars(ImportStep(m))

-----------------------------------------------------------------------------
Report == [DOMAIN EmptyReport -> SUBSET Code]

(* An import is at one of its stages, with the data of that stage.         *)
ImportTypeOK ==
  /\ catalogue \subseteq Article
  /\ \A m \in Import :
       LET run == imports[m]
       IN  \/ run = NotStarted
           \/ run.at \in {"done", "dead"} /\ run.report \in Report
           \/ /\ run.report \in Report
              /\ run.articles \subseteq Article /\ run.since \in 0 .. edits
              /\ \/ run.at = "entry"
                 \/ run.at = "update" /\ run.liaison \in Liaison
                 \/ run.at = "write" /\ run.row \in LiaisonRow

ImportUpdates(m) == {i \in Liaison : LiaisonEvent("VOLUME_UPDATED", i, m) \in audit}

(* An import the history calls ERREUR has written no volume.               *)
ErreurWroteNothing ==
  \A m \in Import :
    FichierImporte(m, "ERREUR") \in fichierLog => ImportUpdates(m) = {}

(* Every volume an import wrote is traced by its row of lic_fichiers_log,  *)
(* or will be when the import gets there, unless it died before that row:  *)
(* neither an entry that throws nor another process that dies changes that. *)
WrittenVolumesTraced ==
  \A m \in Import : ImportUpdates(m) # {} =>
    \/ imports[m].at \in {"entry", "update", "write", "dead"}
    \/ FichierImporte(m, "IMPORTED") \in fichierLog

(* What the history says of an import is what it did: an import called     *)
(* ERREUR wrote nothing, one that wrote is called IMPORTED, and it refers to *)
(* articles and rows that the catalogue and the licence have or had; what  *)
(* is removed meanwhile is not written back.                               *)
ImportExact ==
  ContentTypeOK /\ ImportTypeOK /\ ErreurWroteNothing /\ WrittenVolumesTraced /\ RemovalFinal

(* A file that has begun to be imported gets its row in the history, even  *)
(* if its liaisons are removed meanwhile or its volumes are refused.       *)
ImportEndsLogged ==
  \A m \in Import :
    imports[m].at # "notStarted"
      ~> \/ imports[m].at = "dead"
         \/ \E statut \in {"IMPORTED", "ERREUR"} :
              FichierImporte(m, statut) \in fichierLog

(* An import, which writes back the volumes of the contract as it read     *)
(* them, changes the contract only if another request changed it between   *)
(* that read and the write.                                                *)
QuietImportKeepsContract ==
  [][\A m \in Import :
       imports[m].at = "write" /\ imports'[m].at = "entry" /\ imports[m].since = edits
         => Contract' = Contract]_ivars

(* "undefined = pas modifie": an import, which never gives volumeAutorise, *)
(* leaves the volumes of the contract as they are.                         *)
ImportKeepsContract ==
  [][\A m \in Import :
       imports[m].at = "write" /\ imports'[m].at = "entry" => Contract' = Contract]_ivars

(* "articlesUpdated : liaisons effectivement mises a jour": an entry goes  *)
(* on that list when the row it updates exists.                            *)
UpdatedCountEffective ==
  [][\A m \in Import :
       /\ imports[m].at = "write" /\ imports'[m].at = "entry"
       /\ imports'[m].report.updated # imports[m].report.updated
       => Attached(imports[m].liaison)]_ivars

(* "si tout etait simplement hors-contrat": such an import is IMPORTED.    *)
OutOfContractImported ==
  \A m \in Import :
    /\ imports[m].at = "done"
    /\ imports[m].report.outOfContract # {}
    /\ imports[m].report.notInCatalog = {} /\ imports[m].report.rejected = {}
    => FichierImporte(m, "ERREUR") \notin fichierLog

(* "articles presents dans .hc mais NON attaches a la licence": an entry   *)
(* goes on that list when no article of its code is attached.              *)
OutOfContractTrue ==
  [][\A m \in Import :
       LET run == imports[m]
       IN  /\ run.at = "entry" /\ imports'[m].at = "entry"
           /\ imports'[m].report.outOfContract # run.report.outOfContract
           => \A i \in Items(Article) :
                CodeOf[liaisons[i].item] # Head(run.todo).code]_ivars
=============================================================================
