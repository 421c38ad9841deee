----------------------------- MODULE AsyncLists -----------------------------
(***************************************************************************)
(* The lists a page fetches bit by bit and keeps in its own state: the     *)
(* history (AuditHistoryTable), the renewals (RenewalsList), the           *)
(* notifications (NotificationsList) and the bell above every page         *)
(* (NotificationsBell).                                                    *)
(*                                                                         *)
(* What an answer changes is computed from the list as it was when the     *)
(* button was clicked.  A second click before the first answer therefore   *)
(* works on a list that is already out of date.                            *)
(***************************************************************************)
EXTENDS Browser

Seqs == INSTANCE SequencesExt

CONSTANTS
  Place,         \* the pages to consider
  MaxEntries,    \* bound: rows ever written
  CreatedAt,     \* the instants of the rows of each page, by rank in its list
  PerMs,         \* instants in a millisecond: microseconds, scaled down
  PageLength,    \* rows of a page
  BellLength     \* rows the bell keeps of it

ASSUME ListAssumption ==
  /\ Place \subseteq {"audit", "renewals", "notifications"}
  /\ MaxEntries \in Nat /\ PerMs \in Nat \ {0}
  /\ CreatedAt \in [Place -> [1 .. MaxEntries -> Nat]]
  /\ \A p \in Place : \A d, e \in 1 .. MaxEntries : d <= e => CreatedAt[p][d] <= CreatedAt[p][e]
  /\ PageLength \in Nat \ {0} /\ BellLength \in 1 .. PageLength

(* What a row is filtered by: a notification is open until it is read, a   *)
(* renewal until it is decided, an audit row by its action.                *)
Sort == {"open", "closed"}

Every == "every"

VARIABLES
  place,     \* the page that is open
  entries,   \* the rows there are: their sort, by rank, the newest last
  written,   \* the ranks of the rows written so far
  feeds,     \* the state of each list
  drill,     \* the row whose detail is open, 0 if none
  resolved,  \* the row whose identifiers it shows, 0 if none
  late,      \* history: the rows that were committed after a newer one
  mixed,     \* history: the lists of which a request was sent too early
  outdated   \* history: the lists whose rows or count someone else changed

listVars ==
  <<place, entries, written, feeds, drill, resolved, late, mixed, outdated, sending, lost>>

Lists == IF place = "notifications" THEN {"inbox", "bell"} ELSE {place}

Searches == Lists \ {"inbox", "bell"}

-----------------------------------------------------------------------------
(* A cursor is the last row of a page, its instant cut to the millisecond  *)
(* (encodeCursor).                                                         *)
CutToMs(at) == (at \div PerMs) * PerMs

(* Mutant: lte for lt.                                                     *)
FromCursor(e, cursor) ==
  IF place = "audit" THEN e < cursor
  ELSE CreatedAt[place][e] <= CutToMs(CreatedAt[place][cursor])

(* The history goes by identity; the notifications and the renewals by     *)
(* created_at, which has its microseconds, then identity.                  *)
AfterCursor(e, cursor) ==
  IF place = "audit" THEN e < cursor
  ELSE LET at == CreatedAt[place]
           ms == CutToMs(at[cursor])
       IN  at[e] < ms \/ (at[e] = ms /\ e < cursor)

(* A page of the rows after a cursor, the newest first, and the count of   *)
(* those not read.                                                         *)
Matching(filter, cursor) ==
  {e \in DOMAIN entries :
     (filter = Every \/ entries[e] = filter) /\ (cursor = 0 \/ AfterCursor(e, cursor))}

NewestFirst(ids) ==
  CHOOSE s \in [1 .. Cardinality(ids) -> ids] :
    Seqs!ToSet(s) = ids /\ \A i, j \in DOMAIN s : i < j => s[i] > s[j]

Unread == Cardinality({e \in DOMAIN entries : entries[e] = "open"})

PageOf(filter, cursor) ==
  LET all == NewestFirst(Matching(filter, cursor))
      ids == SubSeq(all, 1, IF Len(all) < PageLength THEN Len(all) ELSE PageLength)
  IN [items |-> [i \in DOMAIN ids |-> [id |-> ids[i], sort |-> entries[ids[i]]]],
      next |-> IF Len(all) > PageLength THEN Seqs!Last(ids) ELSE 0,
      unread |-> Unread]

(* The list as the page is first rendered; the bell fetches when mounted.  *)
(* History: the filter of the rows it shows.                               *)
FeedOf(page, filter) ==
  [items |-> page.items, cursor |-> page.next, unread |-> page.unread,
   filter |-> filter, applied |-> filter]

FirstFeed(list) ==
  CASE list = "bell"     -> FeedOf([items |-> <<>>, next |-> 0, unread |-> 0], Every)
    [] list = "renewals" -> FeedOf(PageOf("open", 0), "open")
    [] OTHER             -> FeedOf(PageOf(Every, 0), Every)

FetchRequest(list, reset, cursor, filter) ==
  [kind |-> "fetch", at |-> "sent", list |-> list, reset |-> reset, cursor |-> cursor,
   filter |-> filter, base |-> feeds[list].items]

ListInit ==
  /\ place \in Place
  /\ written \in SUBSET (1 .. MaxEntries)
  /\ entries \in [written -> Sort]
  /\ feeds = [l \in Lists |-> FirstFeed(l)]
  /\ drill = 0 /\ resolved = 0
  /\ late = {} /\ mixed = {} /\ outdated = Lists \cap {"bell"}

(* The effect of the bell.                                                 *)
ListStarts ==
  /\ sending = IF "bell" \in Lists THEN <<FetchRequest("bell", TRUE, 0, Every)>> ELSE <<>>
  /\ lost = 0

-----------------------------------------------------------------------------
(* What the user does.                                                     *)
Waits(list) == \E i \in DOMAIN sending : sending[i].list = list

OnPage == UNCHANGED <<place, entries, written, late, outdated, lost>>

NoDetail == drill = 0 /\ UNCHANGED <<drill, resolved>>

(* A request of a list, which becomes `feed` at once.                      *)
ListAsks(list, request, feed, early) ==
  /\ CanSend /\ list \in Lists /\ NoDetail
  /\ sending' = Append(sending, request)
  /\ feeds' = [feeds EXCEPT ![list] = feed]
  /\ mixed' = IF early \/ Waits(list) THEN mixed \cup {list} ELSE mixed
  /\ OnPage

(* The filters of the history and of the renewals change nothing until     *)
(* they are applied.                                                       *)
ChooseFilter(list, filter) ==
  /\ list \in Searches /\ NoDetail /\ filter # feeds[list].filter
  /\ feeds' = [feeds EXCEPT ![list].filter = filter]
  /\ UNCHANGED <<sending, mixed>> /\ OnPage

ApplyFilter(list) ==
  /\ list \in Searches
  /\ ListAsks(list, FetchRequest(list, TRUE, 0, feeds[list].filter), feeds[list], FALSE)

(* Mutant: the cursor is not sent.                                         *)
LoadMoreFromTop(list) ==
  /\ list \in Lists \ {"bell"}
  /\ LET feed == feeds[list] IN
     /\ feed.cursor # 0
     /\ ListAsks(list, FetchRequest(list, FALSE, 0, feed.filter), feed,
                 feed.filter # feed.applied)

(* refetch(false), refresh(false).                                         *)
LoadMore(list) ==
  /\ list \in Lists \ {"bell"}
  /\ LET feed == feeds[list] IN
     /\ feed.cursor # 0
     /\ ListAsks(list, FetchRequest(list, FALSE, feed.cursor, feed.filter), feed,
                 feed.filter # feed.applied)

ToggleUnread ==
  /\ "inbox" \in Lists
  /\ LET other == IF feeds["inbox"].filter = Every THEN "open" ELSE Every
     IN  ListAsks("inbox", FetchRequest("inbox", TRUE, 0, other),
                  [feeds["inbox"] EXCEPT !.filter = other], FALSE)

OpenBell ==
  /\ "bell" \in Lists
  /\ ListAsks("bell", FetchRequest("bell", TRUE, 0, Every), feeds["bell"], FALSE)

MarkRead(list, id) ==
  /\ list \in Lists /\ place = "notifications"
  /\ [id |-> id, sort |-> "open"] \in Seqs!ToSet(feeds[list].items)
  /\ ListAsks(list, [kind |-> "mark", at |-> "sent", list |-> list, id |-> id,
                     base |-> feeds[list].items, count |-> feeds[list].unread],
              feeds[list], FALSE)

MarkAllRead(list) ==
  /\ list \in Lists /\ place = "notifications" /\ feeds[list].unread > 0
  /\ ListAsks(list, [kind |-> "markAll", at |-> "sent", list |-> list, base |-> feeds[list].items],
              feeds[list], FALSE)

ArchiveOld ==
  /\ "inbox" \in Lists
  /\ ListAsks("inbox", [kind |-> "archive", at |-> "sent", list |-> "inbox",
                        filter |-> feeds["inbox"].filter], feeds["inbox"], FALSE)

(* The detail of a row of the history: its effect asks what the            *)
(* identifiers stand for, its cleanup cancels that.                        *)
CancelDetail(requests) ==
  [i \in DOMAIN requests |->
     IF requests[i].kind = "resolve" THEN [requests[i] EXCEPT !.live = FALSE] ELSE requests[i]]

DetailRequest(id) == [kind |-> "resolve", at |-> "sent", list |-> "detail", live |-> TRUE, id |-> id]

OpenDetail(id) ==
  /\ drill = 0 /\ CanSend /\ place = "audit"
  /\ \E i \in DOMAIN feeds["audit"].items : feeds["audit"].items[i].id = id
  /\ drill' = id
  /\ sending' = Append(sending, DetailRequest(id))
  /\ UNCHANGED <<resolved, feeds, mixed>> /\ OnPage

CloseDetail ==
  /\ drill # 0
  /\ drill' = 0 /\ resolved' = 0
  /\ sending' = CancelDetail(sending)
  /\ UNCHANGED <<feeds, mixed>> /\ OnPage

-----------------------------------------------------------------------------
(* What the server does.                                                   *)
InBrowser == UNCHANGED <<place, feeds, drill, resolved, late, mixed, written>>

(* The lists whose count the change makes wrong.                           *)
Outdates(lists) == outdated' = IF Unread' = Unread THEN outdated ELSE outdated \cup lists

(* searchAuditAction, fetchClientHistoriqueAction,                         *)
(* fetchLicenceHistoriqueAction, searchRenouvellementsAction,              *)
(* fetchMyNotificationsAction.                                             *)
ServePage ==
  /\ InFlight("fetch", "sent")
  /\ Becomes(Accepted(sending[1], [page |-> PageOf(sending[1].filter, sending[1].cursor)]))
  /\ outdated' = IF sending[1].reset THEN outdated \ {sending[1].list} ELSE outdated
  /\ UNCHANGED <<entries, lost>> /\ InBrowser

ServeMark ==
  /\ InFlight("mark", "sent")
  /\ LET r == sending[1] IN
     IF r.id \in DOMAIN entries
     THEN entries' = [entries EXCEPT ![r.id] = "closed"] /\ Becomes(Accepted(r, <<>>))
     ELSE UNCHANGED entries /\ Becomes(Refused(r))
  /\ Outdates(Lists \ {sending[1].list})
  /\ UNCHANGED lost /\ InBrowser

ServeMarkAll ==
  /\ InFlight("markAll", "sent")
  /\ entries' = [e \in DOMAIN entries |-> "closed"]
  /\ Becomes(Accepted(sending[1], <<>>))
  /\ Outdates(Lists \ {sending[1].list})
  /\ UNCHANGED lost /\ InBrowser

(* The rows that were read and are older than 30 days.                     *)
DeletedBefore(cutoff) == {e \in DOMAIN entries : entries[e] = "closed" /\ e <= cutoff}

Archived(cutoff) == [e \in DOMAIN entries \ DeletedBefore(cutoff) |-> entries[e]]

(* archiveOldNotificationsAction: refused to who is not an administrator.  *)
ServeArchive(cutoff) ==
  /\ InFlight("archive", "sent")
  /\ \/ entries' = Archived(cutoff) /\ Becomes(Accepted(sending[1], <<>>))
     \/ UNCHANGED entries /\ Becomes(Refused(sending[1]))
  /\ UNCHANGED <<outdated, lost>> /\ InBrowser

ServeResolve ==
  /\ InFlight("resolve", "sent")
  /\ Becomes(Accepted(sending[1], <<>>))
  /\ UNCHANGED <<entries, outdated, lost>> /\ InBrowser

(* A row is committed, the newest or not: its instant and its identity are *)
(* those of its INSERT, and transactions commit in any order.  On another  *)
(* device the same user reads, or someone archives or decides.             *)
NewEntry(e, sort) ==
  /\ e \notin written
  /\ place # "audit" => sort = "open"
  /\ written' = written \cup {e}
  /\ entries' = Over(entries, [d \in {e} |-> sort])
  /\ late' = IF \E d \in written : d > e THEN late \cup {e} ELSE late
  /\ Outdates(Lists)
  /\ UNCHANGED <<place, feeds, drill, resolved, mixed, sending, lost>>

Elsewhere(cutoff) ==
  /\ place # "audit"
  /\ \/ place = "notifications" /\ entries' = Archived(cutoff)
     \/ \E e \in DOMAIN entries : entries' = [entries EXCEPT ![e] = "closed"]
  /\ entries' # entries
  /\ Outdates(Lists)
  /\ UNCHANGED <<sending, lost>> /\ InBrowser

(* An answer that is lost leaves the list with what it had.                *)
LoseListAnswer ==
  /\ LoseAnswer
  /\ outdated' = outdated \cup {sending[1].list}
  /\ UNCHANGED entries /\ InBrowser

-----------------------------------------------------------------------------
(* The answer reaches the browser.                                         *)
ServerKept == UNCHANGED <<place, entries, written, late, lost>>

Untouched == UNCHANGED <<drill, resolved>>

(* A failure is shown by the history and the renewals, and leaves the list *)
(* as it is.                                                               *)
DeliverPage ==
  /\ Answered("fetch")
  /\ LET r == sending[1]
         items == IF ~r.reset THEN r.base \o r.page.items
                  ELSE IF r.list = "bell" THEN SubSeq(r.page.items, 1, Seqs!Min({BellLength, Len(r.page.items)}))
                  ELSE r.page.items
         settled == \A i \in 2 .. Len(sending) : sending[i].list # r.list
     IN
     /\ feeds' = IF ~r.ok THEN feeds
                 ELSE [feeds EXCEPT ![r.list] =
                   [@ EXCEPT !.items = items, !.cursor = r.page.next,
                             !.unread = r.page.unread, !.applied = r.filter]]
     /\ sending' = Tail(sending)
     /\ UNCHANGED outdated
     /\ mixed' = IF r.ok /\ r.reset /\ settled THEN mixed \ {r.list} ELSE mixed
  /\ ServerKept /\ Untouched

AsRead(items, ids) ==
  [i \in DOMAIN items |-> IF items[i].id \in ids THEN [items[i] EXCEPT !.sort = "closed"] ELSE items[i]]

(* The row was read, unless the promise is rejected: a refusal is not      *)
(* looked at.                                                              *)
DeliverMark ==
  /\ Answered("mark")
  /\ LET r == sending[1] IN
     feeds' = IF "thrown" \in DOMAIN r THEN feeds
              ELSE [feeds EXCEPT ![r.list].items = AsRead(r.base, {r.id}),
                                 ![r.list].unread = Seqs!Max({0, r.count - 1})]
  /\ sending' = Tail(sending)
  /\ UNCHANGED <<mixed, outdated>> /\ ServerKept /\ Untouched

DeliverMarkAll ==
  /\ Answered("markAll")
  /\ LET r == sending[1] IN
     feeds' = IF "thrown" \in DOMAIN r THEN feeds
              ELSE [feeds EXCEPT ![r.list].items = AsRead(r.base, 1 .. MaxEntries),
                                 ![r.list].unread = 0]
  /\ sending' = Tail(sending)
  /\ UNCHANGED <<mixed, outdated>> /\ ServerKept /\ Untouched

(* What is left is fetched, with the filter there was at the click.        *)
DeliverArchive ==
  /\ Answered("archive")
  /\ LET r == sending[1] IN
     sending' = IF r.ok THEN Append(Tail(sending), FetchRequest("inbox", TRUE, 0, r.filter))
                ELSE Tail(sending)
  /\ UNCHANGED <<feeds, mixed, outdated>> /\ ServerKept /\ Untouched

DeliverResolve ==
  /\ Answered("resolve")
  /\ resolved' = IF ~sending[1].live THEN resolved ELSE IF sending[1].ok THEN sending[1].id ELSE 0
  /\ sending' = Tail(sending)
  /\ UNCHANGED <<drill, feeds, mixed, outdated>> /\ ServerKept

ListNext ==
  \/ \E l \in Lists, f \in Sort \cup {Every} : ChooseFilter(l, f)
  \/ \E l \in Lists : ApplyFilter(l)
  \/ ToggleUnread \/ OpenBell \/ ArchiveOld \/ CloseDetail
  \/ \E l \in Lists : LoadMore(l) \/ MarkAllRead(l)
  \/ \E l \in Lists, e \in 1 .. MaxEntries : MarkRead(l, e)
  \/ \E e \in 1 .. MaxEntries : OpenDetail(e)
  \/ ServePage \/ ServeMark \/ ServeMarkAll \/ ServeResolve
  \/ \E k \in 1 .. MaxEntries : ServeArchive(k) \/ Elsewhere(k)
  \/ \E e \in 1 .. MaxEntries, s \in Sort : NewEntry(e, s)
  \/ FailRequest /\ UNCHANGED <<entries, outdated>> /\ InBrowser
  \/ LoseListAnswer
  \/ DeliverPage \/ DeliverMark \/ DeliverMarkAll \/ DeliverArchive \/ DeliverResolve

ListSpec == ListInit /\ ListStarts /\ [][ListNext]_listVars

-----------------------------------------------------------------------------
Ids(list) == [i \in DOMAIN feeds[list].items |-> feeds[list].items[i].id]

(* The rows that more pages may pass over: those of the millisecond of a   *)
(* row above them, in a list by instant.                                   *)
PassedOver(e, ids) ==
  /\ place # "audit"
  /\ \E i \in DOMAIN ids :
       e < ids[i] /\ CutToMs(CreatedAt[place][e]) = CutToMs(CreatedAt[place][ids[i]])

(* A list whose user waits for each answer shows its rows once and in      *)
(* order, and of its filter every row between the first and the last it    *)
(* shows, whatever was written, read, decided or archived meanwhile; and   *)
(* every row from the first on when it offers no more.  Exceptions are the *)
(* rows committed after a newer one and, where the cursor is an instant,   *)
(* those of one millisecond.  Of the decided renewals the list shows those *)
(* decided when it was fetched.                                            *)
ShowsRun(list) ==
  LET ids == Ids(list) feed == feeds[list] IN
  /\ \A i, j \in DOMAIN ids : i < j => ids[i] > ids[j]
  /\ \A e \in Matching(feed.applied, 0) \ late :
       ids # <<>> /\ e <= ids[1] /\ (e >= Seqs!Last(ids) \/ (feed.cursor = 0 /\ list # "bell"))
         => e \in Seqs!ToSet(ids) \/ PassedOver(e, ids)

ListsUnbroken ==
  \A l \in Lists \ mixed :
    ~(place = "renewals" /\ feeds[l].applied = "closed" /\ (l \in outdated \/ Waits(l)))
      => ShowsRun(l)

(* What a list shows as read was read, or is gone, even if its user does   *)
(* not wait.                                                               *)
ReadIsRead ==
  place = "notifications" =>
    \A l \in Lists : \A i \in DOMAIN feeds[l].items :
      LET item == feeds[l].items[i] IN
      item.sort = "closed" /\ item.id \in DOMAIN entries => entries[item.id] = "closed"

(* The count of a list whose user waits is the number of rows not read,    *)
(* unless someone else changed it since.                                   *)
UnreadExact ==
  \A l \in Lists \ (mixed \cup outdated) :
    place = "notifications" /\ ~Waits(l) => feeds[l].unread = Unread

(* The identifiers shown with a row are its own.                           *)
DetailIsOwn == resolved # 0 => resolved = drill

(* What the lists show exactly, if their user waits for the answers.       *)
ListsExact == ListsUnbroken /\ ReadIsRead /\ UnreadExact /\ DetailIsOwn

-----------------------------------------------------------------------------
(* What comments promise and the steps refute.                             *)

(* The button is `disabled={pending}`: no row is shown twice.  Clicked     *)
(* twice, "Charger plus" appends the same page again.                      *)
ShownOnce == \A l \in Lists : Seqs!IsInjective(Ids(l))

(* "Marquer comme lu": a row that was read does not come back unread.  The *)
(* answer for a second row restores the first as it was.                   *)
ReadStaysRead ==
  [][\A l \in Lists : \A i \in DOMAIN feeds[l].items :
       LET item == feeds[l].items[i] IN
       item.sort = "closed" =>
         [id |-> item.id, sort |-> "open"] \notin Seqs!ToSet(feeds[l].items')]_listVars
=============================================================================
