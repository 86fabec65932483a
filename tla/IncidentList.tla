----------------------------- MODULE IncidentList -----------------------------
(***************************************************************************)
(* The list of incidents page by page: ListIncidents in the Incident       *)
(* Service, which counts and selects in two statements of a READ COMMITTED *)
(* transaction while others commit, and the component IncidentsList of the *)
(* Angular client, which keeps its filter in the URL and shows whichever   *)
(* answer arrives last.                                                    *)
(*                                                                         *)
(* The filter on status stands for those on severity, assignee, CI, valid  *)
(* dates and text, created_after for a date that is no date, as a link may *)
(* have it; the column status for every column one may sort by that        *)
(* changes.                                                                *)
(***************************************************************************)
EXTENDS Naturals, Sequences, FiniteSets, SequencesExt

CONSTANTS
  Forms,        \* the filters that users choose
  Sizes,        \* the page sizes offered
  Links,        \* the links the component may be opened with
  Seeds,        \* the incidents there may be by then
  MaxRows,      \* bound: rows ever inserted
  MaxCommits,   \* bound: commits of other requests
  MaxRequests,  \* bound: requests of the list
  MaxEdits,     \* bound: changes of the filter
  MayFail,      \* whether requests may fail
  None,         \* TypeScript's undefined
  Gone          \* a row that was deleted

Ids == 1..MaxRows
Statuses == {"open", "resolved"}
SlaStates == {"on_track", "breached", "met"}
Row == [created_at: Ids, status: Statuses, late: BOOLEAN]
Form == [status: Statuses \cup {None}, sla_state: SlaStates \cup {None},
         created_after: {None, "malformed"},
         sort_by: {"created_at", "status"}, sort_dir: {"asc", "desc"}]
Address == [form: Form, page: Nat, size: Sizes]

\* toIsoOrUndefined, of buildFilter: a RangeError.
Throws(f) == f.created_after = "malformed"

\* The date pickers give dates or null.
ASSUME FormsAssumption ==
  /\ Forms \subseteq {f \in Form : ~Throws(f)} /\ Sizes \subseteq Nat \ {0}
  /\ Links \subseteq Address
ASSUME BoundsAssumption ==
  MaxRows \in Nat /\ MaxCommits \in Nat /\ MaxRequests \in Nat \ {0} /\ MaxEdits \in Nat
ASSUME SeedsAssumption == \A seed \in Seeds : seed \in Seq(Row) /\ Len(seed) <= MaxRows
ASSUME NoneAssumption ==
  None \notin Form \cup Statuses \cup SlaStates \cup {"malformed"} /\ Gone \notin Row

VARIABLES
  rows,       \* table incidents: the row with id i is rows[i]
  commits,    \* how many commits there have been
  requests,   \* the calls of ListIncidents, oldest first
  listening,  \* whether ngOnInit has subscribed to valueChanges
  form,       \* filterForm.value
  typing,     \* whether debounceTime holds back a change of the form
  edits,      \* how many changes of the form there have been
  emitted,    \* what distinctUntilChanged let through last
  ahead,      \* history: whether a page was turned since, before debounceTime was over
  url,        \* the query parameters of the page's address
  page,       \* the component's page, from 0
  pageSize,   \* the component's pageSize
  shown,      \* the answer that the component shows
  loading,    \* whether it shows a spinner
  walk        \* history: the pages shown one after another since the first

component == <<listening, form, typing, edits, emitted, ahead, url, page, pageSize>>
vars == <<rows, commits, requests, component, shown, loading, walk>>

Stored == {i \in DOMAIN rows : rows[i] # Gone}
-----------------------------------------------------------------------------
(***************************************************************************)
(* ListIncidents.                                                          *)
(***************************************************************************)
\* The WHERE clause.
Where(i, f) == f.status = None \/ rows[i].status = f.status

\* compute_sla, at_risk left out.
SlaState(row) ==
  IF row.late THEN "breached" ELSE IF row.status = "resolved" THEN "met" ELSE "on_track"

\* Postgres compares strings.
Key(i, f) ==
  IF f.sort_by = "created_at" THEN rows[i].created_at
  ELSE IF rows[i].status = "open" THEN 1 ELSE 2

\* ORDER BY one column: rows with the same value come in any order.  What is left of them
\* by a filter keeps it, and is an order of what the filter leaves.
Ordered(S, f) ==
  {q \in SetToSeqs(S) : \A j, k \in DOMAIN q : j < k =>
     IF f.sort_dir = "asc" THEN Key(q[j], f) <= Key(q[k], f) ELSE Key(q[j], f) >= Key(q[k], f)}

Least(a, b) == IF a < b THEN a ELSE b

\* Mutant: pages counted from 0.
OffsetFromZero(r) == r.page * r.size

offset(r) == (r.page - 1) * r.size

\* LIMIT and OFFSET, and the slice of a list.
Slice(q, r) == SubSeq(q, offset(r) + 1, Least(offset(r) + r.size, Len(q)))

\* Mutant: the count of the SQL query, although the SLA filter comes after it.
CountOfSql(r, found) == r.count

\* total_count as answered.
total_count(r, found) == IF r.form.sla_state # None THEN Len(found) ELSE r.count

\* Creations between the two statements make the count too small.
Count(n) ==
  /\ requests[n].pc = "sent"
  /\ requests' = [requests EXCEPT ![n].pc = "counted", ![n].quiet = TRUE,
                    ![n].count = Cardinality({i \in Stored : Where(i, requests[n].form)})]
  /\ UNCHANGED <<rows, commits, component, shown, loading, walk>>

\* What sla_state asks for is looked for in Python, among all rows.
Matching(f) ==
  {i \in Stored : Where(i, f) /\ f.sla_state \in {None, SlaState(rows[i])}}

Select(n) ==
  LET r == requests[n] IN
  /\ r.pc = "counted"
  /\ \E found \in Ordered(Matching(r.form), r.form) :
       requests' = [requests EXCEPT ![n].pc = "answered",
         ![n].count = total_count(r, found), ![n].items = Slice(found, r),
         ![n].owed = ToSet(found), ![n].steady = TRUE,
         ![n].quiet = @ \/ r.form.sla_state # None]
  /\ UNCHANGED <<rows, commits, component, shown, loading, walk>>
-----------------------------------------------------------------------------
(***************************************************************************)
(* What others commit meanwhile.  created_at is when a transaction began,  *)
(* so rows need not appear in its order; two may have begun at once, and   *)
(* the migration that added the column gave all rows there were one value. *)
(***************************************************************************)
Commit(steady) ==
  /\ commits < MaxCommits /\ commits' = commits + 1
  /\ requests' = [n \in DOMAIN requests |->
       IF requests[n].pc = "done" THEN requests[n]
       ELSE [requests[n] EXCEPT !.quiet = @ /\ requests[n].pc = "answered",
                                !.steady = @ /\ steady]]
  /\ walk' = IF steady THEN walk ELSE None
  /\ UNCHANGED <<component, shown, loading>>

CreateIncident ==
  /\ Len(rows) < MaxRows
  /\ \E t \in Ids :
       rows' = Append(rows, [created_at |-> t, status |-> "open", late |-> FALSE])
  /\ Commit(TRUE)

UpdateIncidentStatus(i) ==
  /\ rows[i].status = "open"
  /\ rows' = [rows EXCEPT ![i].status = "resolved"]
  /\ Commit(FALSE)

\* No commit but the clock: a deadline of the incident passes.
DeadlinePasses(i) ==
  /\ rows[i].status = "open" /\ ~rows[i].late
  /\ rows' = [rows EXCEPT ![i].late = TRUE]
  /\ Commit(FALSE)

DeleteIncident(i) ==
  /\ rows' = [rows EXCEPT ![i] = Gone]
  /\ Commit(FALSE)
-----------------------------------------------------------------------------
(***************************************************************************)
(* The component.                                                          *)
(***************************************************************************)
\* What loadIncidents sends, with page + 1.
Asked(f, p, size, early, from) ==
  [pc |-> "sent", form |-> f, page |-> p + 1, size |-> size, early |-> early, from |-> from,
   count |-> 0, items |-> << >>, owed |-> {}, quiet |-> FALSE, steady |-> FALSE]

\* The spinner comes before the filter is built, and no request if that throws.  "early"
\* says whether debounceTime still holds back what the form says, "from" which answer was
\* shown.
loadIncidents(p, size, early) ==
  /\ loading' = TRUE
  /\ \/ Throws(form) /\ UNCHANGED requests
     \/ /\ ~Throws(form) /\ Len(requests) < MaxRequests
        /\ requests' = Append(requests, Asked(form, p, size, early, shown.n))
  /\ UNCHANGED <<rows, commits, listening, form, edits, shown, walk>>

\* Mutant: the address stays what it was.
OldAddress(p, size) == url

\* The query parameters that syncUrlAndLoad navigates to.
AddressOf(p, size) == [form |-> form, page |-> p, size |-> size]

syncUrlAndLoad(p, size, early) ==
  /\ page' = p /\ pageSize' = size /\ url' = AddressOf(p, size)
  /\ loadIncidents(p, size, early)

\* The user changes a field of the filter.
Type(f) ==
  /\ edits < MaxEdits /\ f # form
  /\ form' = f /\ typing' = listening /\ edits' = edits + 1
  /\ UNCHANGED <<rows, commits, requests, listening, emitted, ahead, url, page, pageSize, shown,
                 loading, walk>>

\* debounceTime is over; distinctUntilChanged compares with what it let through before.
FilterChanged ==
  /\ typing /\ typing' = FALSE
  /\ emitted' = form
  /\ IF form = emitted
     THEN UNCHANGED <<rows, commits, requests, listening, form, edits, ahead, url, page,
                      pageSize, shown, loading, walk>>
     ELSE ahead' = FALSE /\ syncUrlAndLoad(0, pageSize, FALSE)

\* External: how many pages MatPaginator sees, and what its buttons lead to.
Pages == (shown.count + pageSize - 1) \div pageSize
Turns ==
  {<<p, pageSize>> : p \in {q \in {page + 1} : q < Pages} \cup {q \in 0..page : q + 1 = page}}
  \cup {<<(page * pageSize) \div size, size>> : size \in Sizes \ {pageSize}}

\* The template has the paginator below the rows, and them in place of the spinner.
onPageChange ==
  /\ ~loading /\ shown.items # << >>
  /\ \E turn \in Turns : syncUrlAndLoad(turn[1], turn[2], typing)
  /\ ahead' = (ahead \/ typing)
  /\ UNCHANGED <<typing, emitted>>

\* After what the user saved in the list, with whatever the form says by then.
Reload ==
  /\ loadIncidents(page, pageSize, typing)
  /\ UNCHANGED <<typing, emitted, ahead, url, page, pageSize>>

Done == [pc |-> "done"]

\* The user's walk through the pages goes on with the answer r, asked for from the page
\* before, or begins with it.
Walked(r) ==
  CASE ~r.steady -> None
    [] r.steady /\ r.page = 1 ->
         [form |-> r.form, size |-> r.size, page |-> 1, count |-> r.count,
          quiet |-> r.quiet, owed |-> r.owed, seen |-> ToSet(r.items)]
    [] OTHER ->
         IF walk # None /\ r.from = shown.n /\ r.form = walk.form /\ r.size = walk.size
            /\ r.page = walk.page + 1
         THEN [walk EXCEPT !.page = r.page, !.count = r.count, !.quiet = r.quiet,
                           !.seen = @ \cup ToSet(r.items)]
         ELSE None

\* Answers arrive in any order.
Receive(n) ==
  LET r == requests[n] IN
  /\ r.pc = "answered"
  /\ shown' = [n |-> n, form |-> r.form, page |-> r.page - 1, size |-> r.size,
               early |-> r.early, count |-> r.count, items |-> r.items, quiet |-> r.quiet]
  /\ loading' = FALSE
  /\ requests' = [requests EXCEPT ![n] = Done]
  /\ walk' = Walked(r)
  /\ UNCHANGED <<rows, commits, component>>

\* Mutant: only the answer ends the spinner.
spinner_stays == loading

\* error: () => this.loading.set(false)
loading_after_error == FALSE

Fail(n) ==
  /\ MayFail /\ requests[n].pc # "done"
  /\ loading' = loading_after_error
  /\ requests' = [requests EXCEPT ![n] = Done]
  /\ UNCHANGED <<rows, commits, component, shown, walk>>

\* ngOnInit, with the filter that the link says; it subscribes to valueChanges after the
\* first loadIncidents, so not if that throws.
Init ==
  /\ rows \in Seeds /\ commits = 0
  /\ url \in Links /\ form = url.form /\ page = url.page /\ pageSize = url.size
  /\ typing = FALSE /\ edits = 0 /\ emitted = None /\ ahead = FALSE
  /\ listening = ~Throws(form) /\ loading = TRUE
  /\ requests = IF Throws(form) THEN << >> ELSE <<Asked(form, page, pageSize, FALSE, 0)>>
  /\ shown = [n |-> 0, form |-> form, page |-> page, size |-> pageSize, early |-> FALSE,
              count |-> 0, items |-> << >>, quiet |-> TRUE]
  /\ walk = None

\* The Incident Service works on request n, and what it answers arrives.
Serve(n) == n \in DOMAIN requests /\ (Count(n) \/ Select(n) \/ Receive(n) \/ Fail(n))

Next ==
  \/ CreateIncident
  \/ \E i \in Stored : UpdateIncidentStatus(i) \/ DeadlinePasses(i) \/ DeleteIncident(i)
  \/ \E f \in Forms : Type(f) \/ Type([f EXCEPT !.created_after = form.created_after])
  \/ FilterChanged \/ onPageChange \/ Reload
  \/ \E n \in 1..MaxRequests : Serve(n)

\* Every request is answered or fails.
Spec == Init /\ [][Next]_vars /\ \A n \in 1..MaxRequests : WF_vars(Serve(n))
-----------------------------------------------------------------------------
(***************************************************************************)
(* What it is meant to guarantee.                                          *)
(***************************************************************************)
\* The page shown and the total above it fit: the page is as long as the total says it
\* has to be.  With an SLA filter always, as both come from one statement and
\* total_count is counted again; otherwise unless somebody commits between the two.
CountFitsPage ==
  LET before == Least(shown.page * shown.size, shown.count) IN
  shown.quiet => Len(shown.items) = Least(shown.size, shown.count - before)

\* Whoever turns the pages of a list sorted by created_at up to the last one has seen
\* every incident that the list had at the start, whatever was created meanwhile, except
\* those created at the same time as another on the list: they may change places from one
\* query to the next.  Not so if incidents were deleted or changed or, on the last page,
\* created between its count and its select.  Each page is to be asked for from the page
\* before: an older answer that arrives in between may take the user back unnoticed.
NothingSkipped ==
  walk # None /\ walk.form.sort_by = "created_at" /\ walk.quiet
  /\ walk.page * walk.size >= walk.count
    => \A i \in walk.owed \ walk.seen :
         \E j \in Matching(walk.form) \ {i} : rows[j].created_at = rows[i].created_at

\* "A bookmarked or shared link recreates exactly the same view": once nothing is under
\* way, the list is the answer to what the URL and the form say, provided that the link
\* had no malformed date, that the answer to the last request arrived last, that request
\* did not run ahead of debounceTime, and distinctUntilChanged has not held back the
\* return from a filter with which a page was turned before debounceTime was over.
ViewIsLinked ==
  listening /\ ~typing /\ ~ahead /\ (\A n \in DOMAIN requests : requests[n] = Done)
  /\ shown.n = Len(requests) /\ ~shown.early
    => url = [form |-> shown.form, page |-> shown.page, size |-> shown.size] /\ form = url.form

\* The spinner goes away, also if the request fails, unless the link had a malformed date
\* and the list has not been loaded again since the user replaced it.
LoadingEnds == requests # << >> /\ loading ~> ~loading
=============================================================================
