--------------------------- MODULE FilteredPages ---------------------------
(***************************************************************************)
(* The pages whose filter and cursor are in their URL: clients, licences,  *)
(* volumes and files, as one tab of a browser walks through them.          *)
(*                                                                         *)
(* The filter form is a plain <form method="GET">: the browser loads a new *)
(* document.  "Suivant", "Première page" and "Réinitialiser" are links of  *)
(* Next.js and "Précédent" is router.back(): the document stays, and with  *)
(* it the select of the form, whose defaultValue React reads once.         *)
(***************************************************************************)
EXTENDS Integers, Sequences, FiniteSets

CONSTANTS
  FilteredPage,  \* the pages to consider
  Tag,           \* what a row is filtered by: a status, a country, a client, ...
  NoFilter,      \* "Tous"
  PerPage,       \* rows of a page
  MaxTagged,     \* bound: rows ever written
  MaxVisits      \* bound: entries of the history of the tab

ASSUME FilteredAssumption ==
  /\ FilteredPage \subseteq {"clients", "licences", "volumes", "files"}
  /\ NoFilter \notin Tag /\ PerPage \in Nat \ {0}
  /\ MaxTagged \in Nat /\ MaxVisits \in Nat

VARIABLES
  walkPage,  \* the page
  tagged,    \* its rows, by age: the tag of each
  offered,   \* the tags the select offers
  visits,    \* the history of the tab
  here,      \* where the tab is in it
  choice,    \* what the select shows
  steady     \* history: the rows there were first whose tag never changed

walkVars == <<walkPage, tagged, offered, visits, here, choice, steady>>

Filter == Tag \cup {NoFilter}

Current == visits[here]

Paged == walkPage \in {"clients", "licences"}

Matches(filter) == {r \in DOMAIN tagged : filter = NoFilter \/ tagged[r] = filter}

Before(filter, cursor) == {r \in Matches(filter) : cursor = 0 \/ r < cursor}

NewestOf(rows) == {r \in rows : Cardinality({s \in rows : s > r}) < PerPage}

OldestOf(rows) == CHOOSE r \in rows : \A s \in rows : r <= s

CursorAfter(rows) == IF NewestOf(rows) # rows THEN OldestOf(NewestOf(rows)) ELSE 0

ClientsPage(filter, cursor) ==
  [rows |-> NewestOf(Before(filter, cursor)), next |-> CursorAfter(Before(filter, cursor))]

LicencesPage(filter, cursor) ==
  [rows |-> NewestOf(Before(filter, cursor)), next |-> CursorAfter(Before(filter, cursor))]

(* Every article of every licence has a line; the filter comes last.       *)
VolumesPage(filter) == [rows |-> Matches(filter), next |-> 0]

(* The newest files, 200 at most, and no link to the others.               *)
FilesPage(filter) == [rows |-> NewestOf(Matches(filter)), next |-> 0]

Rendered(filter, cursor) ==
  CASE walkPage = "clients"  -> ClientsPage(filter, cursor)
    [] walkPage = "licences" -> LicencesPage(filter, cursor)
    [] walkPage = "volumes"  -> VolumesPage(filter)
    [] walkPage = "files"    -> FilesPage(filter)

(* A select whose defaultValue is none of its options shows the first one. *)
Preset(filter) == IF filter \in offered THEN filter ELSE NoFilter

Visit(filter, cursor, load) ==
  [filter |-> filter, cursor |-> cursor, load |-> load, page |-> Rendered(filter, cursor)]

WalkInit ==
  /\ walkPage \in FilteredPage
  /\ \E n \in 0 .. MaxTagged : tagged \in [1 .. n -> Tag]
  /\ offered \in SUBSET Tag
  /\ \E f \in Filter : \E c \in {0} \cup (IF Paged THEN DOMAIN tagged ELSE {}) :
       visits = <<Visit(f, c, 1)>> /\ choice = Preset(f)
  /\ here = 1
  /\ steady = DOMAIN tagged

-----------------------------------------------------------------------------
Walks == UNCHANGED <<walkPage, tagged, offered, steady>>

GoTo(visit) ==
  /\ here < MaxVisits
  /\ visits' = Append(SubSeq(visits, 1, here), visit)
  /\ here' = here + 1
  /\ Walks

FillForm(filter) ==
  /\ filter \in offered \cup {NoFilter} /\ filter # choice
  /\ choice' = filter
  /\ UNCHANGED <<visits, here>> /\ Walks

SubmitFilter ==
  /\ GoTo(Visit(choice, 0, Current.load + 1))
  /\ UNCHANGED choice

(* Mutant: the link to the next page loses the filter.                     *)
FollowNextBare ==
  /\ Current.page.next # 0
  /\ GoTo(Visit(NoFilter, Current.page.next, Current.load))
  /\ UNCHANGED choice

(* buildHref(nextCursor), buildHref(null): the filter stays.               *)
FollowNext ==
  /\ Current.page.next # 0
  /\ GoTo(Visit(Current.filter, Current.page.next, Current.load))
  /\ UNCHANGED choice

FollowFirst ==
  /\ Current.cursor # 0
  /\ GoTo(Visit(Current.filter, 0, Current.load))
  /\ UNCHANGED choice

FollowReset ==
  /\ GoTo(Visit(NoFilter, 0, Current.load))
  /\ UNCHANGED choice

Refetched(i) == [visits EXCEPT ![i].page = Rendered(visits[i].filter, visits[i].cursor)]

(* An entry of the same document is shown as the router kept it, or is     *)
(* fetched again; one of another document is loaded.                       *)
MoveTo(i) ==
  /\ i \in DOMAIN visits
  /\ here' = i
  /\ IF visits[i].load = Current.load
     THEN visits' \in {visits, Refetched(i)} /\ UNCHANGED choice
     ELSE visits' = Refetched(i) /\ choice' = Preset(visits[i].filter)
  /\ Walks

PressPrevious == walkPage = "clients" /\ Current.cursor # 0 /\ MoveTo(here - 1)

BrowserMoves == MoveTo(here - 1) \/ MoveTo(here + 1)

ReloadPage ==
  /\ visits' = Refetched(here) /\ choice' = Preset(Current.filter)
  /\ UNCHANGED here /\ Walks

(* A server action of the page ends: the page is rendered again.           *)
Refresh ==
  /\ visits' = Refetched(here)
  /\ UNCHANGED <<here, choice>> /\ Walks

(* What others do.                                                         *)
WriteRow(tag) ==
  /\ Cardinality(DOMAIN tagged) < MaxTagged
  /\ tagged' = Append(tagged, tag)
  /\ UNCHANGED <<walkPage, offered, visits, here, choice, steady>>

Retag(r, tag) ==
  /\ walkPage # "files" /\ tag # tagged[r]
  /\ tagged' = [tagged EXCEPT ![r] = tag]
  /\ steady' = steady \ {r}
  /\ UNCHANGED <<walkPage, offered, visits, here, choice>>

WalkNext ==
  \/ \E f \in Filter : FillForm(f)
  \/ SubmitFilter \/ FollowNext \/ FollowFirst \/ FollowReset
  \/ PressPrevious \/ BrowserMoves \/ ReloadPage \/ Refresh
  \/ \E t \in Tag : WriteRow(t) \/ \E r \in DOMAIN tagged : Retag(r, t)

WalkSpec == WalkInit /\ [][WalkNext]_walkVars

-----------------------------------------------------------------------------
(* "Précédent" relies on it: the entry before a page with a cursor is a    *)
(* page of the same filter that is nearer to the first.                    *)
PreviousIsNearer ==
  \A i \in 2 .. Len(visits) :
    visits[i].cursor # 0 =>
      /\ visits[i - 1].filter = visits[i].filter
      /\ visits[i - 1].cursor # 0 => visits[i - 1].cursor > visits[i].cursor

(* From a first page on, each entry the one its predecessor offers next.   *)
Leads(i) == visits[i].page.next = visits[i + 1].cursor /\ visits[i + 1].cursor # 0

(* The pages from the first one on that lead to each other show every row  *)
(* that was there all along and matches, down to the last one they show;   *)
(* and no row twice.                                                       *)
WalkSkipsNothing ==
  \A i \in DOMAIN visits : \A j \in i .. Len(visits) :
    visits[i].cursor = 0 /\ (\A k \in i .. j - 1 : Leads(k)) =>
      LET shown == UNION {visits[k].page.rows : k \in i .. j}
          last == visits[j].page.next
      IN /\ \A r \in steady : r \in Matches(visits[i].filter) /\ (r >= last \/ last = 0) =>
              r \in shown \/ walkPage = "files"
         /\ \A k, l \in i .. j : k < l => visits[k].page.rows \cap visits[l].page.rows = {}

(* The walk from page to page.                                             *)
WalksExact == PreviousIsNearer /\ WalkSkipsNothing

-----------------------------------------------------------------------------
(* What comments promise and the steps refute.                             *)

(* "router.back() — l'URL Next.js stocke chaque page = histo natif         *)
(* fonctionne": there is an entry before a page with a cursor.  There is   *)
(* none in a tab that was opened on it.                                    *)
PreviousLeads == walkPage = "clients" /\ Current.cursor # 0 => here > 1

(* "Approche SSR-friendly, pas d'état client local pour les filtres": the  *)
(* form shows the filter of the list.  After "Réinitialiser", or a step    *)
(* back, the select still shows the filter that is no longer applied.      *)
FormTellsFilter == choice \in {Current.filter, Preset(Current.filter)}

(* Submitting the form as it was loaded keeps the filter.  A country that  *)
(* is no longer active, or a client beyond the 200 first, is not offered.  *)
LoadedFormKeepsFilter == choice = Preset(Current.filter) => choice = Current.filter

(* The pages one comes back to go on from one another.  The first page,    *)
(* fetched again, may show new rows in place of old ones, which the next   *)
(* entry of the history does not show either.                              *)
ForwardSkipsNothing ==
  \A i \in 1 .. Len(visits) - 1 :
    visits[i + 1].cursor # 0 => visits[i].page.next \in {0, visits[i + 1].cursor}

(* "Journal global des fichiers": the page shows every file that matches,  *)
(* also the 201st.                                                         *)
EveryFileShown ==
  walkPage = "files" => Matches(Current.filter) \cap steady \subseteq Current.page.rows
=============================================================================
