---------------------------- MODULE ImportDialog ----------------------------
(***************************************************************************)
(* "Importer un fichier healthcheck": the dialog of the page of a licence  *)
(* (LicenceResumeTab).  A file is analysed by the server, which writes     *)
(* nothing; the preview is shown; "Appliquer" sends the same content       *)
(* again, and the server reads the file and the rows anew.  The panel      *)
(* under the page tells the last import.                                   *)
(*                                                                         *)
(* Of the server: one article, its volume, and the key of the files.  What *)
(* an import does entry by entry is in HealthcheckImport.                  *)
(***************************************************************************)
EXTENDS Browser

CONSTANTS
  HcFile,     \* the files of the user
  FileKey,    \* the key each one was encrypted with
  FileForm,   \* "json" or "csv"
  FileLine,   \* what it says of the article: a volume, Absent, NullVolume
  HcKey,      \* the values of healthcheck_shared_aes_key
  HcVolume,   \* volumes
  Absent,     \* no volume: no field in a JSON file, an empty cell in CSV
  NullVolume, \* null, written in full
  Detached,   \* the article is not of the licence
  MaxImports, \* bound: rows of the history of the files
  MaxUpdates  \* bound: changes made by others

ASSUME HcAssumption ==
  /\ FileKey \in [HcFile -> HcKey]
  /\ FileForm \in [HcFile -> {"json", "csv"}]
  /\ FileLine \in [HcFile -> HcVolume \cup {Absent, NullVolume}]

VARIABLES
  importing, \* the dialog is open
  preview,   \* the analysis it shows
  chosen,    \* the file its input holds
  hcKey,     \* the key of the server
  volume,    \* volumeConsomme of the article
  hcLog,     \* the imports of lic_fichiers_log, in their order
  panel,     \* what the page was last rendered with
  updates    \* changes made by others so far

importOwn == <<importing, preview, chosen, hcKey, volume, hcLog, panel, updates>>

NoPreview == [file |-> "none"]
NoFile == "none"
NoPanel == [row |-> 0]

ImportInit ==
  /\ importing = FALSE /\ preview = NoPreview /\ chosen = NoFile
  /\ hcKey \in HcKey
  /\ volume = CHOOSE v \in HcVolume : TRUE
  /\ hcLog = <<>> /\ panel = NoPanel /\ updates = 0

-----------------------------------------------------------------------------
(* Reading a file.                                                         *)

(* decryptHealthcheckContent: the bare cipher or the JSON the sandbox      *)
(* wraps it in, with the key of the settings.                              *)
Decrypts(file) == FileKey[file] = hcKey

(* parseJsonHealthcheck throws when an entry has no volume; an explicit    *)
(* null is the absence of a volume.                                        *)
JsonReadable(file) == FileForm[file] = "json" => FileLine[file] # Absent

(* parseCsvHealthcheck takes an empty cell for null, and "null" in full    *)
(* for a volume that is no number.                                         *)
CsvReadable(file) == FileForm[file] = "csv" => FileLine[file] # NullVolume

Readable(file) == Decrypts(file) /\ JsonReadable(file) /\ CsvReadable(file)

(* What the volume becomes: neither an article out of the contract nor an  *)
(* entry without a volume is updated.                                      *)
After(file) ==
  IF volume = Detached \/ FileLine[file] \in {Absent, NullVolume} THEN volume
  ELSE FileLine[file]

Updated(file) == IF After(file) = FileLine[file] /\ volume # Detached THEN 1 ELSE 0

(* The row an import leaves in lic_fichiers_log; that of a file that       *)
(* cannot be read has no metadata, not even the name of the file.          *)
HcRow(file) ==
  IF ~Readable(file) THEN [statut |-> "ERREUR", file |-> NoFile, updated |-> 0]
  ELSE [statut |-> IF volume = Detached THEN "ERREUR" ELSE "IMPORTED",
        file |-> file, updated |-> Updated(file)]

Logged(file) == Len(hcLog) < MaxImports /\ hcLog' = Append(hcLog, HcRow(file))

-----------------------------------------------------------------------------
(* What the user does.                                                     *)
ServerStays == UNCHANGED <<hcKey, volume, hcLog, updates>>

OpenImport ==
  /\ ~importing
  /\ importing' = TRUE
  /\ UNCHANGED <<preview, chosen, panel, sending, lost>> /\ ServerStays

(* onOpenChange(false) resets, and the input is unmounted.                 *)
CloseImport ==
  /\ importing
  /\ importing' = FALSE /\ preview' = NoPreview /\ chosen' = NoFile
  /\ UNCHANGED <<panel, sending, lost>> /\ ServerStays

(* onFileSelect: the input is there until a preview is shown, and choosing *)
(* the file it already holds is no change.                                 *)
ChooseFile(file) ==
  /\ importing /\ preview = NoPreview /\ file # chosen
  /\ CanSend
  /\ chosen' = file
  /\ sending' = Sent([kind |-> "analyse", file |-> file])
  /\ UNCHANGED <<importing, preview, panel, lost>> /\ ServerStays

ApplyPreview ==
  /\ importing /\ preview # NoPreview
  /\ CanSend
  /\ sending' = Sent([kind |-> "import", file |-> preview.file, preview |-> preview])
  /\ UNCHANGED <<importing, preview, chosen, panel, lost>> /\ ServerStays

-----------------------------------------------------------------------------
(* What the server does: importHealthcheckAction.                          *)
PageStays == UNCHANGED <<importing, preview, chosen, panel, lost>>

(* What the preview says of a file.                                        *)
PreviewSummary(file) ==
  [file |-> file, before |-> volume, after |-> After(file), updated |-> Updated(file),
   outOfContract |-> volume = Detached]

(* Mutant: dryRun is lost on the way.                                      *)
ServeAnalysisWrites ==
  /\ InFlight("analyse", "sent")
  /\ LET r == sending[1] IN
     IF ~Readable(r.file) THEN Becomes(Refused(r)) /\ UNCHANGED <<volume, hcLog>>
     ELSE /\ Becomes(Accepted(r, [found |-> PreviewSummary(r.file)]))
          /\ volume' = After(r.file) /\ Logged(r.file)
  /\ UNCHANGED <<hcKey, updates>> /\ PageStays

(* dryRun: the preview, or the refusal of what cannot be read.             *)
ServeAnalysis ==
  /\ InFlight("analyse", "sent")
  /\ LET r == sending[1] IN
     IF ~Readable(r.file) THEN Becomes(Refused(r))
     ELSE Becomes(Accepted(r, [found |-> PreviewSummary(r.file)]))
  /\ ServerStays /\ PageStays

(* A file that cannot be read any more is logged before it is refused, and *)
(* then nothing is revalidated.                                            *)
ServeImport ==
  /\ InFlight("import", "sent")
  /\ LET r == sending[1] IN
     /\ Logged(r.file)
     /\ IF Readable(r.file)
        THEN volume' = After(r.file) /\ Becomes(Accepted(r, [row |-> Len(hcLog')]))
        ELSE UNCHANGED volume /\ Becomes(Over(Refused(r), [row |-> Len(hcLog')]))
  /\ UNCHANGED <<hcKey, updates>> /\ PageStays

(* Other users change the volume, detach the article, or change the key.   *)
OthersUpdate ==
  /\ updates < MaxUpdates /\ updates' = updates + 1
  /\ \/ volume' \in (HcVolume \cup {Detached}) \ {volume} /\ UNCHANGED hcKey
     \/ hcKey' \in HcKey \ {hcKey} /\ UNCHANGED volume
  /\ UNCHANGED <<hcLog, sending>> /\ PageStays

(* Another user imports.                                                   *)
OthersImport ==
  /\ updates < MaxUpdates /\ updates' = updates + 1
  /\ \E file \in {f \in HcFile : Readable(f)} : Logged(file) /\ volume' = After(file)
  /\ UNCHANGED <<hcKey, sending>> /\ PageStays

-----------------------------------------------------------------------------
(* The answer reaches the browser.                                         *)
Taken == sending' = Tail(sending) /\ UNCHANGED lost /\ ServerStays

(* setPreview, whatever was done with the dialog meanwhile.                *)
DeliverAnalysis ==
  /\ Answered("analyse")
  /\ IF sending[1].ok THEN preview' = sending[1].found /\ chosen' = NoFile
     ELSE UNCHANGED <<preview, chosen>>
  /\ UNCHANGED <<importing, panel>> /\ Taken

(* The panel: of the latest import, what its metadata says.                *)
LastHealthcheckPanel(n) ==
  [row |-> n, badge |-> IF hcLog[n].statut = "ERREUR" THEN "Erreur" ELSE "OK",
   file |-> hcLog[n].file, updated |-> hcLog[n].updated]

(* Mutant: the answer has the page rendered as it was before.              *)
DeliverImportUnrefreshed ==
  /\ Answered("import")
  /\ IF sending[1].ok
     THEN importing' = FALSE /\ preview' = NoPreview /\ chosen' = NoFile /\ UNCHANGED panel
     ELSE UNCHANGED <<importing, preview, chosen, panel>>
  /\ Taken

(* An accepted import closes the dialog that is open by then; the page     *)
(* comes with the answer, then once more with router.refresh.              *)
DeliverImport ==
  /\ Answered("import")
  /\ IF sending[1].ok
     THEN /\ importing' = FALSE /\ preview' = NoPreview /\ chosen' = NoFile
          /\ \E n \in sending[1].row .. Len(hcLog) : panel' = LastHealthcheckPanel(n)
     ELSE UNCHANGED <<importing, preview, chosen, panel>>
  /\ Taken

ImportNext ==
  \/ OpenImport \/ CloseImport \/ ApplyPreview
  \/ \E file \in HcFile : ChooseFile(file)
  \/ ServeAnalysis \/ ServeImport
  \/ OthersUpdate \/ OthersImport
  \/ FailRequest /\ UNCHANGED importOwn
  \/ LoseAnswer /\ UNCHANGED importOwn
  \/ DeliverAnalysis \/ DeliverImport

ImportSpec == ImportInit /\ BrowserInit /\ [][ImportNext]_<<importOwn, browserVars>>

-----------------------------------------------------------------------------
Serving(kind) == InFlight(kind, "sent") /\ sending' # sending

(* An analysis changes nothing on the server.  An import is of a file that *)
(* was analysed and whose preview was shown: as long as its article is of  *)
(* the licence, the volume becomes what the preview announced, even when   *)
(* it was changed since, and whichever files were chosen in between.       *)
PreviewIsKept ==
  [][/\ Serving("analyse") => UNCHANGED <<volume, hcLog>>
     /\ Serving("import") /\ volume \notin {Detached, volume'} =>
          LET seen == sending[1].preview IN
          seen.before # Detached => volume' = seen.after]_<<importOwn, browserVars>>

(* Once the answer to an import that was accepted is there, the panel      *)
(* tells that import or a later one.                                       *)
PanelTellsImport ==
  [][Answered("import") /\ Len(sending') < Len(sending) /\ sending[1].ok =>
       panel'.row >= sending[1].row]_<<importOwn, browserVars>>

-----------------------------------------------------------------------------
(* What comments promise and the steps refute.                             *)

(* "Verifie l'apercu ci-dessus puis clique sur Appliquer": the preview is  *)
(* of the file chosen in that dialog.  An analysis that was asked for in a *)
(* dialog since closed is shown by the next one.                           *)
PreviewIsOfDialog ==
  [][preview' \notin {preview, NoPreview} => importing /\ preview'.file = chosen]_importOwn

(* "Avant / Apres": the volumes announced are those of the import.         *)
PreviewTellsBefore ==
  [][Serving("import") => volume = sending[1].preview.before]_<<importOwn, browserVars>>

(* An answer closes the dialog it was sent from: it closes the one that is *)
(* open by then, with the preview of another file.                         *)
ImportClosesItsOwn ==
  [][importing /\ ~importing' /\ Len(sending') < Len(sending) =>
       preview.file = sending[1].file]_<<importOwn, browserVars>>

(* "consulter le rapport du dernier import": when the answer to an import  *)
(* is there, the panel tells it.  A refused one is in the history and not  *)
(* on the page.                                                            *)
PanelTellsEveryImport ==
  [][Answered("import") /\ Len(sending') < Len(sending) /\ "row" \in DOMAIN sending[1] =>
       panel'.row >= sending[1].row]_<<importOwn, browserVars>>
=============================================================================
