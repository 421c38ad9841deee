------------------------------- MODULE Listing -------------------------------
(***************************************************************************)
(* The paginated lists: ORDER BY ... DESC LIMIT limit + 1, and a cursor    *)
(* made of the last row's timestamp, in milliseconds, and identity.  The   *)
(* lists of clients, licences and audit rows go by identity alone; those   *)
(* of notifications, renewals and volume snapshots by creation instant,    *)
(* then identity.  Identities (uuidv7) grow with the insertion, instants   *)
(* are those of the inserting transaction's start: rows of one transaction *)
(* share theirs.  Transactions commit in any order, rows leave a list when *)
(* they no longer match its filters, and the pages of one reader are       *)
(* separate SELECTs.  The audit export reads such pages until it has as    *)
(* many rows as a COUNT told it.                                           *)
(***************************************************************************)
EXTENDS Integers, FiniteSets

CONSTANTS
  Kind,      \* "id" or "instant": what the cursor compares
  Limit,     \* rows in a page
  MaxExport, \* MAX_EXPORT_ROWS
  PerMs,     \* instants in a millisecond: microseconds, scaled down
  MaxRows,   \* bound: rows ever inserted
  MaxInstant \* bound: the last instant

ASSUME ListingAssumption ==
  /\ Kind \in {"id", "instant"}
  /\ Limit \in Nat \ {0} /\ PerMs \in Nat \ {0} /\ MaxExport \in Nat
  /\ MaxRows \in Nat /\ MaxInstant \in Nat

VARIABLES
  instant,
  listed,    \* committed rows that match the filters
  open,      \* rows of the transaction that is open: inserted, not committed
  inserted,  \* rows inserted so far: the next identity
  reader,    \* the pages a reader has seen, and where he is
  due        \* history: rows listed when he asked for the first page, still there

listVars == <<instant, listed, open, inserted, reader, due>>

Row == [id : 1 .. MaxRows, at : 0 .. MaxInstant]

NoTransaction == [rows |-> {}, at |-> -1]

NotReading == [stage |-> "idle"]

NoCursor == [ms |-> MaxInstant, id |-> MaxRows + 1]

ListInit ==
  /\ instant = 0
  /\ listed = {}
  /\ open = NoTransaction
  /\ inserted = 0
  /\ reader = NotReading
  /\ due = {}

-----------------------------------------------------------------------------
(* A transaction opens; it inserts; it commits.  A row inserted alone      *)
(* commits at once.                                                        *)
BeginInsert ==
  /\ open = NoTransaction
  /\ open' = [rows |-> {}, at |-> instant]
  /\ UNCHANGED <<instant, listed, inserted, reader, due>>

InsertRow ==
  /\ open # NoTransaction
  /\ inserted < MaxRows
  /\ inserted' = inserted + 1
  /\ open' = [open EXCEPT !.rows = @ \cup {[id |-> inserted', at |-> open.at]}]
  /\ UNCHANGED <<instant, listed, reader, due>>

CommitInsert ==
  /\ open # NoTransaction
  /\ listed' = listed \cup open.rows
  /\ open' = NoTransaction
  /\ UNCHANGED <<instant, inserted, reader, due>>

InsertAlone ==
  /\ inserted < MaxRows
  /\ inserted' = inserted + 1
  /\ listed' = listed \cup {[id |-> inserted', at |-> instant]}
  /\ UNCHANGED <<instant, open, reader, due>>

InstantPasses ==
  /\ instant < MaxInstant
  /\ instant' = instant + 1
  /\ UNCHANGED <<listed, open, inserted, reader, due>>

(* A notification is read or purged, a client changes statut: the row      *)
(* leaves the list.                                                        *)
LeaveList ==
  \E row \in listed :
    /\ listed' = listed \ {row}
    /\ due' = due \ {row}
    /\ UNCHANGED <<instant, open, inserted, reader>>

-----------------------------------------------------------------------------
Precedes(r, s) == IF Kind = "id" THEN r.id > s.id
                  ELSE r.at > s.at \/ (r.at = s.at /\ r.id > s.id)

(* WHERE: strictly after the cursor, whose timestamp has lost its          *)
(* microseconds.                                                           *)
AfterCursor(row, cursor) ==
  IF Kind = "id" THEN row.id < cursor.id
  ELSE \/ row.at < cursor.ms * PerMs
       \/ row.at = cursor.ms * PerMs /\ row.id < cursor.id

(* The first n rows of a set, in the order of the list.                    *)
FirstOf(rows, n) == {r \in rows : Cardinality({s \in rows : Precedes(s, r)}) < n}

LastOf(rows) == CHOOSE r \in rows : \A s \in rows \ {r} : Precedes(s, r)

(* Mutant: the cursor is the row read beyond the page.                     *)
CursorBeyond(rows) == LastOf(FirstOf(rows, Limit + 1))

(* nextCursor: the last row of the page.                                   *)
CursorRow(rows) == LastOf(FirstOf(rows, Limit))

EncodeCursor(row) == [ms |-> row.at \div PerMs, id |-> row.id]

(* One SELECT: the rows of the page, and the cursor of the next one if the *)
(* row beyond it exists.                                                   *)
Page(cursor) ==
  LET rows == {r \in listed : cursor = NoCursor \/ AfterCursor(r, cursor)}
  IN  [items |-> FirstOf(rows, Limit),
       next |-> IF Cardinality(rows) > Limit THEN EncodeCursor(CursorRow(rows))
                ELSE NoCursor]

(* The reader asks for a page, the first or the next.                      *)
ReadPage ==
  LET page == Page(IF reader.stage = "pages" THEN reader.cursor ELSE NoCursor)
  IN  /\ reader.stage \in {"idle", "pages"}
      /\ reader' = [stage |-> IF page.next = NoCursor THEN "done" ELSE "pages",
                    cursor |-> page.next,
                    seen |-> IF reader.stage = "idle" THEN page.items
                             ELSE reader.seen \cup page.items,
                    twice |-> reader.stage = "pages"
                              /\ (reader.twice \/ reader.seen \cap page.items # {})]
      /\ due' = IF reader.stage = "idle" THEN listed ELSE due
      /\ UNCHANGED <<instant, listed, open, inserted>>

(* ExportAuditCsvUseCase: COUNT, refused beyond the maximum; then pages.   *)
CountExport ==
  /\ Kind = "id"
  /\ reader.stage = "idle"
  /\ Cardinality(listed) <= MaxExport
  /\ reader' = [stage |-> "export", total |-> Cardinality(listed), cursor |-> NoCursor,
                seen |-> {}, pulled |-> 0, ended |-> FALSE]
  /\ due' = listed
  /\ UNCHANGED <<instant, listed, open, inserted>>

ExportPage ==
  /\ reader.stage = "export" /\ ~reader.ended /\ reader.pulled < reader.total
  /\ LET page == Page(reader.cursor)
     IN  reader' = [reader EXCEPT !.cursor = page.next,
                                  !.seen = @ \cup page.items,
                                  !.pulled = @ + Cardinality(page.items),
                                  !.ended = page.next = NoCursor]
  /\ UNCHANGED <<instant, listed, open, inserted, due>>

StopReading ==
  /\ reader.stage \in {"pages", "done", "export"}
  /\ reader' = NotReading
  /\ due' = {}
  /\ UNCHANGED <<instant, listed, open, inserted>>

ListNext ==
  \/ BeginInsert \/ InsertRow \/ CommitInsert \/ InsertAlone \/ InstantPasses
  \/ LeaveList
  \/ ReadPage \/ CountExport \/ ExportPage \/ StopReading

ListSpec == ListInit /\ [][ListNext]_listVars

-----------------------------------------------------------------------------
Exported == reader.stage = "export" /\ (reader.ended \/ reader.pulled >= reader.total)

(* Whoever turns the pages to the last has seen every row that was listed  *)
(* when he asked for the first and still is, whatever was inserted or left *)
(* meanwhile.                                                              *)
NothingSkipped == reader.stage = "done" => due \subseteq reader.seen

(* No page shows a row an earlier page showed.                             *)
NothingTwice == reader.stage \in {"pages", "done"} => ~reader.twice

(* An export has no gap: a row it counted and that is still there is in    *)
(* the file, or older than every row of the file.                          *)
ExportGapless ==
  Exported => \A row \in due \ reader.seen : \A r \in reader.seen : Precedes(r, row)

(* An export holds less than one page more than it counted, each row once. *)
ExportBounded ==
  reader.stage = "export" =>
    /\ reader.pulled < reader.total + Limit
    /\ reader.pulled = Cardinality(reader.seen)

(* A list by identity shows each row that stays exactly once, and an export *)
(* holds the newest rows without a gap, whatever comes and goes meanwhile. *)
PagesExact == NothingSkipped /\ NothingTwice /\ ExportGapless /\ ExportBounded

-----------------------------------------------------------------------------
(* What the names promise and the steps refute.                            *)

(* An export holds every row it counted: rows inserted meanwhile take the  *)
(* place of the oldest.                                                    *)
ExportComplete == Exported => due \subseteq reader.seen
=============================================================================
