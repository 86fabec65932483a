-------------------------- MODULE IncidentListProofs --------------------------
(***************************************************************************)
(* What the list of incidents shows, for any number of rows, requests and  *)
(* edits, any filters and any page sizes: pages fit their totals, a settled *)
(* list is the one its link recreates, and a walk through the pages skips  *)
(* nothing.                                                                *)
(***************************************************************************)
EXTENDS IncidentList, FiniteSetTheorems, SequenceTheorems, TLAPS

\* A call of ListIncidents that is under way.
Request ==
  [pc: {"sent", "counted", "answered"}, form: Form, page: Nat \ {0}, size: Sizes,
   early: BOOLEAN, from: Nat, count: Nat, items: Seq(Ids), owed: SUBSET Ids,
   quiet: BOOLEAN, steady: BOOLEAN]

Answer ==
  [n: Nat, form: Form, page: Nat, size: Sizes, early: BOOLEAN, count: Nat,
   items: Seq(Ids), quiet: BOOLEAN]

Walk ==
  [form: Form, size: Sizes, page: Nat, count: Nat, quiet: BOOLEAN, owed: SUBSET Ids,
   seen: SUBSET Ids]

Types ==
  /\ rows \in Seq(Row \cup {Gone}) /\ Len(rows) <= MaxRows
  /\ requests \in Seq(Request \cup {Done})
  /\ form \in Form /\ typing \in BOOLEAN /\ ahead \in BOOLEAN
  /\ page \in Nat /\ pageSize \in Sizes /\ url \in [form: Form, page: Nat, size: Sizes]
  /\ shown \in Answer
  /\ walk # None => walk \in Walk
  /\ listening \in BOOLEAN

\* What is asked for from the answer shown was asked for after that answer arrived.
FromShown ==
  LET Arrived(n) == n = 0 \/ (n \in DOMAIN requests /\ requests[n] = Done) IN
  /\ Arrived(shown.n)
  /\ \A n \in DOMAIN requests : requests[n] # Done => Arrived(requests[n].from)
-----------------------------------------------------------------------------
\* How many of "count" there are on page p (from 0) of this size.
OnPage(p, size, count) == Least(size, count - Least(p * size, count))

\* The rows of table t that the WHERE clause leaves.
Counted(t, f) == {i \in DOMAIN t : t[i] # Gone /\ (f.status = None \/ t[i].status = f.status)}

\* A count is right until the next commit, and a page fits it.
CountOk(r) ==
  /\ r.pc = "counted" /\ r.quiet /\ r.form.sla_state = None =>
       r.count = Cardinality(Counted(rows, r.form))
  /\ r.pc = "answered" /\ r.quiet => Len(r.items) = OnPage(r.page - 1, r.size, r.count)

CountsOk == \A n \in DOMAIN requests : requests[n] # Done => CountOk(requests[n])
-----------------------------------------------------------------------------
\* What the last request asked for is what the URL says and what the form said when it
\* was quiet.
Settled(f, p, size, early) ==
  ~early /\ ~ahead =>
    /\ p = page /\ size = pageSize /\ f = url.form
    /\ typing \/ form = f
    /\ emitted \in {None, f}

\* Where the form, the URL and distinctUntilChanged stand to each other while the component
\* listens; the form then has no malformed date.
InStep ==
  listening =>
  /\ ~Throws(form)
  /\ url.page = page /\ url.size = pageSize
  /\ typing \/ emitted \in {None, form}
  /\ ~ahead /\ emitted # None => url.form = emitted
  /\ ~ahead /\ ~typing => url.form = form

LastSettled ==
  listening =>
  /\ Len(requests) > 0
  /\ LET r == requests[Len(requests)] IN
     r # Done => Settled(r.form, r.page - 1, r.size, r.early)
  /\ shown.n = Len(requests) => Settled(shown.form, shown.page, shown.size, shown.early)
-----------------------------------------------------------------------------
\* The rows that come before row i on the list f.
Earlier(i, f) ==
  {j \in Matching(f) :
     IF f.sort_dir = "asc" THEN Key(j, f) < Key(i, f) ELSE Key(j, f) > Key(i, f)}

\* No other row on the list f was created when row i was.
Alone(i, f) == \A j \in Matching(f) : rows[j].created_at = rows[i].created_at => j = i

\* All of "owed" is on the list f, and what of it is not in "seen", but for ties, comes after
\* the first "n" rows; nothing of it if that was all.
Reached(f, owed, seen, n, all) ==
  f.sort_by = "created_at" =>
    /\ owed \subseteq Matching(f)
    /\ \A i \in owed \ seen : Alone(i, f) => Cardinality(Earlier(i, f)) >= n /\ ~all

\* The answer r goes on with the walk.
GoesOn(r) ==
  /\ walk # None /\ r.from = shown.n /\ r.form = walk.form /\ r.size = walk.size
  /\ r.page = walk.page + 1

AnswerOk(r) ==
  r.pc = "answered" /\ r.steady =>
    LET all == r.quiet /\ r.page * r.size >= r.count IN
    /\ r.page = 1 => Reached(r.form, r.owed, ToSet(r.items), r.page * r.size, all)
    /\ GoesOn(r) =>
         Reached(r.form, walk.owed, walk.seen \cup ToSet(r.items), r.page * r.size, all)

AnswersOk == \A n \in DOMAIN requests : requests[n] # Done => AnswerOk(requests[n])

WalkOk ==
  walk # None =>
    Reached(walk.form, walk.owed, walk.seen, walk.page * walk.size,
            walk.quiet /\ walk.page * walk.size >= walk.count)

-----------------------------------------------------------------------------
(***************************************************************************)
(* Pages of a list.                                                        *)
(***************************************************************************)
\* The lesser of two numbers.
LEMMA LeastFacts ==
  ASSUME NEW a \in Nat, NEW b \in Nat
  PROVE  Least(a, b) \in Nat /\ Least(a, b) <= a /\ Least(a, b) <= b /\ Least(a, b) \in {a, b}
  BY DEF Least

\* The rows before a page, and the rows up to its end.
LEMMA Offsets ==
  ASSUME NEW r, r.page \in Nat \ {0}, r.size \in Sizes
  PROVE  /\ r.page \in Nat \ {0} /\ r.size \in Nat \ {0}
         /\ offset(r) \in Nat /\ r.page * r.size \in Nat
         /\ offset(r) + r.size = r.page * r.size
         /\ (r.page - 1) * r.size = offset(r)
<1>1. r.size \in Nat \ {0}
  BY FormsAssumption
<1>2. \A p, s \in Nat : p * s \in Nat
  OBVIOUS
<1>3. \A p \in Nat \ {0}, s \in Nat : (p - 1) * s + s = p * s /\ p - 1 \in Nat
  OBVIOUS
<1>4. QED
  BY <1>1, <1>2, <1>3 DEF offset

\* A slice is as long as there are rows left for it, and holds these rows.
LEMMA SliceFacts ==
  ASSUME NEW q \in Seq(Ids), NEW r, r.page \in Nat \ {0}, r.size \in Sizes
  PROVE  /\ Slice(q, r) \in Seq(Ids)
         /\ Len(Slice(q, r)) = OnPage(r.page - 1, r.size, Len(q))
         /\ \A k \in 1..Len(q) : offset(r) < k /\ k <= offset(r) + r.size =>
              q[k] \in ToSet(Slice(q, r))
<1> DEFINE m == offset(r)
           n == Least(m + r.size, Len(q))
           s == Slice(q, r)
<1>1. m \in Nat /\ r.size \in Nat \ {0} /\ Len(q) \in Nat /\ (r.page - 1) * r.size = m
  BY Offsets
<1>2. /\ n \in Nat /\ n <= m + r.size /\ n <= Len(q) /\ n \in {m + r.size, Len(q)}
      /\ m + 1 \in Int
  <2>1. m + r.size \in Nat /\ Len(q) \in Nat /\ m + 1 \in Int
    BY <1>1
  <2> HIDE DEF m
  <2>2. QED
    BY <2>1, LeastFacts DEF n
<1>3. \A i \in m + 1..n : q[i] \in Ids
  BY <1>1, <1>2
<1>4. s = SubSeq(q, m + 1, n)
  BY DEF Slice
<1> HIDE DEF n, s, m
<1>5. /\ s \in Seq(Ids)
      /\ Len(s) = IF m + 1 <= n THEN n - (m + 1) + 1 ELSE 0
      /\ \A i \in 1..n - (m + 1) + 1 : s[i] = q[m + 1 + i - 1]
  BY <1>2, <1>3, <1>4, SubSeqProperties
<1>6. Len(s) = OnPage(r.page - 1, r.size, Len(q))
  <2>1. Len(s) = IF n >= m THEN n - m ELSE 0
    BY <1>1, <1>2, <1>5
  <2>2. OnPage(r.page - 1, r.size, Len(q)) = Least(r.size, Len(q) - Least(m, Len(q)))
    BY <1>1 DEF OnPage
  <2>3. QED
    BY <1>1, <1>2, <2>1, <2>2 DEF Least, n
<1>7. ASSUME NEW k \in 1..Len(q), m < k, k <= m + r.size
      PROVE  q[k] \in ToSet(s)
  <2>1. k - m \in 1..n - (m + 1) + 1 /\ m + 1 + (k - m) - 1 = k
    BY <1>1, <1>2, <1>7
  <2>2. s[k - m] = q[k] /\ k - m \in 1..Len(s)
    BY <1>1, <1>2, <1>5, <2>1
  <2>3. QED
    BY <1>5, <2>2 DEF ToSet
<1>8. QED
  BY <1>5, <1>6, <1>7 DEF m, s

\* An order of a set of ids is a sequence of all of them, each once.
LEMMA OrderedFacts ==
  ASSUME NEW S \in SUBSET Ids, NEW f, NEW q \in Ordered(S, f)
  PROVE  /\ q \in Seq(Ids) /\ Len(q) = Cardinality(S) /\ DOMAIN q = 1..Len(q)
         /\ ToSet(q) = S /\ \A i, j \in DOMAIN q : i # j => q[i] # q[j]
         /\ IsFiniteSet(S) /\ Cardinality(S) \in Nat
<1> DEFINE n == Cardinality(S)
<1>1. IsFiniteSet(S) /\ n \in Nat
  <2>1. IsFiniteSet(1..MaxRows)
    BY BoundsAssumption, FS_Interval
  <2>2. IsFiniteSet(S)
    BY <2>1, FS_Subset DEF Ids
  <2>3. QED
    BY <2>2, FS_CardinalityType
<1>2. q \in [1..n -> S] /\ \A i, j \in 1..n : i # j => q[i] # q[j]
  BY DEF Ordered, SetToSeqs
<1> HIDE DEF n
<1>3. q \in Seq(Ids) /\ Len(q) = n /\ DOMAIN q = 1..n
  BY <1>1, <1>2
<1>4. q \in Injection(1..n, S)
  BY <1>2 DEF Injection, IsInjective
<1>5. IsFiniteSet(1..n) /\ Cardinality(1..n) = n
  BY <1>1, FS_Interval
<1>6. q \in Surjection(1..n, S)
  BY <1>1, <1>4, <1>5, FS_Injection DEF n
<1>7. ToSet(q) = S
  BY <1>2, <1>3, <1>6 DEF ToSet, Surjection
<1>8. QED
  BY <1>1, <1>2, <1>3, <1>7 DEF n

\* Rows that a list shows are stored rows.
LEMMA MatchingIds ==
  ASSUME Types, NEW f
  PROVE  /\ Matching(f) \in SUBSET Ids /\ Stored \in SUBSET Ids
         /\ \A i \in Stored : rows[i] \in Row
         /\ IsFiniteSet(Matching(f)) /\ Cardinality(Matching(f)) \in Nat
<1>1. Len(rows) \in Nat /\ MaxRows \in Nat /\ DOMAIN rows = 1..Len(rows)
  BY BoundsAssumption DEF Types
<1>2. DOMAIN rows \subseteq Ids
  BY <1>1 DEF Types, Ids
<1>3. Matching(f) \in SUBSET Ids /\ Stored \in SUBSET Ids
  BY <1>2 DEF Matching, Stored
<1>4. \A i \in Stored : rows[i] \in Row
  BY DEF Types, Stored
<1>5. IsFiniteSet(Ids)
  BY BoundsAssumption, FS_Interval DEF Ids
<1>6. IsFiniteSet(Matching(f))
  BY <1>3, <1>5, FS_Subset
<1>7. QED
  BY <1>3, <1>4, <1>6, FS_CardinalityType

\* Keys are numbers, and that of a row which is alone differs from the others.
LEMMA KeysDiffer ==
  ASSUME Types, NEW f, f.sort_by = "created_at"
  PROVE  /\ \A i \in Stored : Key(i, f) \in Nat
         /\ \A i, j \in Matching(f) : Alone(i, f) /\ Key(i, f) = Key(j, f) => i = j
<1>1. \A i \in Stored : rows[i] \in Row /\ Key(i, f) = rows[i].created_at
  BY MatchingIds DEF Key
<1>2. \A i \in Stored : Key(i, f) \in Nat
  BY <1>1, BoundsAssumption DEF Row, Ids
<1>3. Matching(f) \subseteq Stored
  BY DEF Matching
<1>4. QED
  BY <1>1, <1>2, <1>3 DEF Alone

\* As many rows come before a row as its place on the list says.
LEMMA PlaceOfRow ==
  ASSUME Types, NEW f, f.sort_by = "created_at",
         NEW q \in Ordered(Matching(f), f), NEW k \in DOMAIN q, Alone(q[k], f)
  PROVE  Cardinality(Earlier(q[k], f)) = k - 1
<1> DEFINE before == {q[j] : j \in 1..k - 1}
<1>1. /\ q \in Seq(Ids) /\ DOMAIN q = 1..Len(q) /\ ToSet(q) = Matching(f)
      /\ \A i, j \in DOMAIN q : i # j => q[i] # q[j]
  BY MatchingIds, OrderedFacts
<1>2. Len(q) \in Nat /\ k \in 1..Len(q) /\ \A i \in DOMAIN q : q[i] \in Matching(f)
  BY <1>1 DEF ToSet
<1>3. \A i, j \in DOMAIN q : i < j =>
        IF f.sort_dir = "asc" THEN Key(q[i], f) <= Key(q[j], f) ELSE Key(q[i], f) >= Key(q[j], f)
  BY DEF Ordered
<1>4. \A j \in DOMAIN q :
        /\ Key(q[j], f) \in Nat
        /\ j # k => Key(q[k], f) # Key(q[j], f)
  BY <1>1, <1>2, KeysDiffer DEF Matching
<1>5. Earlier(q[k], f) = before
  <2>1. ASSUME NEW i \in Earlier(q[k], f)
        PROVE  i \in before
    <3>1. i \in Matching(f)
      BY DEF Earlier
    <3>2. PICK j \in DOMAIN q : i = q[j]
      BY <1>1, <3>1 DEF ToSet
    <3>3. IF f.sort_dir = "asc" THEN Key(q[j], f) < Key(q[k], f) ELSE Key(q[j], f) > Key(q[k], f)
      BY <3>2 DEF Earlier
    <3>4. ~(k < j) /\ j # k
      BY <1>3, <1>4, <3>3
    <3>5. j \in 1..k - 1
      BY <1>1, <1>2, <3>4
    <3>6. QED
      BY <3>2, <3>5
  <2>2. ASSUME NEW i \in before
        PROVE  i \in Earlier(q[k], f)
    <3>1. PICK j \in 1..k - 1 : i = q[j]
      BY <2>2
    <3>2. j \in DOMAIN q /\ j < k /\ j # k
      BY <1>1, <1>2, <3>1
    <3>3. IF f.sort_dir = "asc" THEN Key(q[j], f) < Key(q[k], f) ELSE Key(q[j], f) > Key(q[k], f)
      BY <1>3, <1>4, <3>2
    <3>4. i \in Matching(f)
      BY <1>2, <3>1, <3>2
    <3>5. QED
      BY <3>1, <3>3, <3>4 DEF Earlier
  <2>3. QED
    BY <2>1, <2>2
<1>6. Cardinality(before) = k - 1
  <2> DEFINE g == [j \in 1..k - 1 |-> q[j]]
  <2>1. \A i, j \in 1..k - 1 : i # j => q[i] # q[j]
    BY <1>1, <1>2
  <2>2. g \in Injection(1..k - 1, before)
    BY <2>1 DEF Injection, IsInjective
  <2>3. g \in Surjection(1..k - 1, before)
    BY DEF Surjection
  <2>4. g \in Bijection(1..k - 1, before)
    BY <2>2, <2>3 DEF Bijection
  <2>5. ExistsBijection(1..k - 1, before)
    BY <2>4 DEF ExistsBijection
  <2>6. IsFiniteSet(1..k - 1) /\ Cardinality(1..k - 1) = k - 1
    <3>1. k - 1 \in Nat
      BY <1>2
    <3>2. QED
      BY <3>1, FS_Interval
  <2> HIDE DEF before
  <2>7. QED
    BY <2>5, <2>6, FS_Bijection
<1>7. QED
  BY <1>5, <1>6

\* What a page of the list does not show comes before it or after it.
LEMMA SliceComplete ==
  ASSUME Types, NEW r, r.page \in Nat \ {0}, r.size \in Sizes, r.form.sort_by = "created_at",
         NEW q \in Ordered(Matching(r.form), r.form), NEW i \in Matching(r.form),
         Alone(i, r.form)
  PROVE  LET place == Cardinality(Earlier(i, r.form)) IN
         /\ place \in Nat /\ place < Len(q)
         /\ i \in ToSet(Slice(q, r)) \/ place < offset(r) \/ place >= r.page * r.size
<1>1. q \in Seq(Ids) /\ DOMAIN q = 1..Len(q) /\ ToSet(q) = Matching(r.form) /\ Len(q) \in Nat
  BY MatchingIds, OrderedFacts
<1>2. PICK k \in 1..Len(q) : i = q[k]
  BY <1>1 DEF ToSet
<1>3. Cardinality(Earlier(i, r.form)) = k - 1
  BY <1>1, <1>2, PlaceOfRow
<1>4. offset(r) \in Nat /\ offset(r) + r.size = r.page * r.size /\ r.size \in Nat
  BY Offsets
<1>5. offset(r) < k /\ k <= offset(r) + r.size => i \in ToSet(Slice(q, r))
  BY <1>1, <1>2, SliceFacts
<1> DEFINE m == offset(r)
           e == r.page * r.size
<1>6. m \in Nat /\ e = m + r.size /\ e \in Nat
  BY <1>4
<1> HIDE DEF m, e
<1>7. i \in ToSet(Slice(q, r)) \/ k - 1 < m \/ k - 1 >= e
  BY <1>4, <1>5, <1>6 DEF m
<1>8. k - 1 \in Nat /\ k - 1 < Len(q)
  BY <1>1, <1>2
<1>9. QED
  BY <1>3, <1>7, <1>8 DEF m, e

-----------------------------------------------------------------------------
(***************************************************************************)
(* What a step does to the requests.                                       *)
(***************************************************************************)
\* A request is under way or done.
LEMMA RequestsKnown ==
  ASSUME Types
  PROVE  /\ Len(requests) \in Nat /\ DOMAIN requests = 1..Len(requests)
         /\ \A n \in DOMAIN requests :
              /\ requests[n] = Done <=> requests[n].pc = "done"
              /\ requests[n] # Done => requests[n] \in Request
  BY DEF Types, Done, Request

\* A commit takes from the requests under way that nothing has happened meanwhile.
LEMMA CommitRequests ==
  ASSUME Types, NEW steady \in BOOLEAN, Commit(steady)
  PROVE  /\ Len(requests') = Len(requests) /\ DOMAIN requests' = DOMAIN requests
         /\ requests' \in Seq(Request \cup {Done})
         /\ \A n \in DOMAIN requests : requests[n] = Done => requests'[n] = Done
         /\ \A n \in DOMAIN requests : requests[n] # Done =>
              LET r == requests[n]
                  s == requests'[n]
              IN  /\ r \in Request /\ s \in Request /\ s # Done
                  /\ s.pc = r.pc /\ s.form = r.form /\ s.page = r.page /\ s.size = r.size
                  /\ s.early = r.early /\ s.from = r.from /\ s.count = r.count
                  /\ s.items = r.items /\ s.owed = r.owed
                  /\ s.quiet = (r.quiet /\ r.pc = "answered") /\ s.steady = (r.steady /\ steady)
<1>1. /\ requests \in Seq(Request \cup {Done})
      /\ requests' = [n \in DOMAIN requests |->
           IF requests[n].pc = "done" THEN requests[n]
           ELSE [requests[n] EXCEPT !.quiet = @ /\ requests[n].pc = "answered",
                                    !.steady = @ /\ steady]]
  BY DEF Types, Commit
<1>2. ASSUME NEW n \in DOMAIN requests, requests[n] # Done
      PROVE  LET r == requests[n]
                 s == requests'[n]
             IN  /\ r \in Request /\ s \in Request /\ s # Done
                 /\ s.pc = r.pc /\ s.form = r.form /\ s.page = r.page /\ s.size = r.size
                 /\ s.early = r.early /\ s.from = r.from /\ s.count = r.count
                 /\ s.items = r.items /\ s.owed = r.owed
                 /\ s.quiet = (r.quiet /\ r.pc = "answered") /\ s.steady = (r.steady /\ steady)
  <2>1. requests[n] \in Request /\ requests[n].pc # "done"
    BY <1>2, RequestsKnown
  <2>2. requests'[n] = [requests[n] EXCEPT !.quiet = @ /\ requests[n].pc = "answered",
                                           !.steady = @ /\ steady]
    BY <1>1, <2>1
  <2>3. QED
    BY <2>1, <2>2 DEF Request, Done
<1>3. \A n \in DOMAIN requests : requests[n] = Done => requests'[n] = Done
  BY <1>1, RequestsKnown
<1>4. DOMAIN requests' = DOMAIN requests /\ \A n \in DOMAIN requests :
        requests'[n] \in Request \cup {Done}
  BY <1>1, <1>2, <1>3
<1>5. requests' \in Seq(Request \cup {Done}) /\ Len(requests') = Len(requests)
  <2>1. Len(requests) \in Nat /\ DOMAIN requests = 1..Len(requests)
    BY RequestsKnown
  <2>2. requests' \in [1..Len(requests) -> Request \cup {Done}]
    BY <1>1, <1>4, <2>1
  <2>3. QED
    BY <2>1, <2>2
<1>6. QED
  BY <1>2, <1>3, <1>4, <1>5

\* A new request is the last, and the others stay as they are.
LEMMA LoadRequests ==
  ASSUME Types, ~Throws(form), NEW p \in Nat, NEW size \in Sizes, NEW early \in BOOLEAN,
         loadIncidents(p, size, early)
  PROVE  LET last == Len(requests) + 1
             r == Asked(form, p, size, early, shown.n)
         IN  /\ Len(requests') = last /\ DOMAIN requests' = DOMAIN requests \cup {last}
             /\ requests' \in Seq(Request \cup {Done})
             /\ last \notin DOMAIN requests /\ requests'[last] = r
             /\ r \in Request /\ r # Done
             /\ r.pc = "sent" /\ r.form = form /\ r.page - 1 = p /\ r.size = size
             /\ r.early = early /\ r.from = shown.n
             /\ \A n \in DOMAIN requests : requests'[n] = requests[n]
<1> DEFINE r == Asked(form, p, size, early, shown.n)
<1>1. /\ r.pc = "sent" /\ r.form = form /\ r.page - 1 = p /\ r.size = size
      /\ r.early = early /\ r.from = shown.n /\ r # Done
  BY DEF Asked, Done
<1>2. r \in Request
  <2>1. form \in Form /\ shown.n \in Nat /\ p + 1 \in Nat \ {0}
    BY DEF Types, Answer
  <2>2. << >> \in Seq(Ids) /\ {} \in SUBSET Ids
    OBVIOUS
  <2>3. QED
    BY <2>1, <2>2 DEF Request, Asked
<1>3. requests' = Append(requests, r)
  BY DEF loadIncidents
<1> HIDE DEF r
<1>4. /\ requests \in Seq(Request \cup {Done}) /\ Len(requests) \in Nat
      /\ DOMAIN requests = 1..Len(requests)
  BY RequestsKnown DEF Types
<1>5. /\ requests' \in Seq(Request \cup {Done}) /\ Len(requests') = Len(requests) + 1
      /\ DOMAIN requests' = 1..Len(requests) + 1
      /\ \A n \in 1..Len(requests) : requests'[n] = requests[n]
      /\ requests'[Len(requests) + 1] = r
  BY <1>2, <1>3, <1>4
<1>6. QED
  BY <1>1, <1>2, <1>4, <1>5 DEF r

\* Only request n changes.
Only(n) ==
  /\ Len(requests') = Len(requests) /\ DOMAIN requests' = DOMAIN requests
  /\ \A m \in DOMAIN requests : m # n => requests'[m] = requests[m]

\* A request replaced by another is the only one that changes.
LEMMA OnlyType ==
  ASSUME Types, NEW n \in DOMAIN requests, NEW r \in Request \cup {Done},
         requests' = [requests EXCEPT ![n] = r]
  PROVE  Only(n) /\ requests'[n] = r /\ requests' \in Seq(Request \cup {Done})
<1>1. requests \in Seq(Request \cup {Done})
  BY DEF Types
<1>2. QED
  BY <1>1 DEF Only

\* The count of a request.
LEMMA CountRequest ==
  ASSUME Types, NEW n \in DOMAIN requests, Count(n)
  PROVE  LET r == requests[n]
             s == requests'[n]
         IN  /\ Only(n) /\ requests' \in Seq(Request \cup {Done})
             /\ r \in Request /\ s # Done /\ s.pc = "counted" /\ s.form = r.form
             /\ s.page = r.page /\ s.size = r.size /\ s.early = r.early /\ s.from = r.from
             /\ s.count = Cardinality(Counted(rows, r.form))
<1> DEFINE r == requests[n]
           k == Cardinality({i \in Stored : Where(i, r.form)})
           s == [r EXCEPT !.pc = "counted", !.quiet = TRUE, !.count = k]
<1>1. r \in Request
  BY RequestsKnown DEF Count, Done
<1>2. k \in Nat
  <2>1. IsFiniteSet(Ids)
    BY BoundsAssumption, FS_Interval DEF Ids
  <2>2. {i \in Stored : Where(i, r.form)} \in SUBSET Ids
    BY MatchingIds
  <2>3. IsFiniteSet({i \in Stored : Where(i, r.form)})
    BY <2>1, <2>2, FS_Subset
  <2>4. QED
    BY <2>3, FS_CardinalityType
<1>3. requests' = [requests EXCEPT ![n].pc = "counted", ![n].quiet = TRUE, ![n].count = k]
  BY DEF Count
<1> HIDE DEF k
<1>4. requests' = [requests EXCEPT ![n] = s]
  BY <1>3
<1>5. /\ s \in Request /\ s # Done /\ s.pc = "counted" /\ s.form = r.form
      /\ s.page = r.page /\ s.size = r.size /\ s.early = r.early /\ s.from = r.from
      /\ s.count = k
  BY <1>1, <1>2 DEF Request, Done
<1> HIDE DEF s
<1>6. Only(n) /\ requests'[n] = s /\ requests' \in Seq(Request \cup {Done})
  BY <1>4, <1>5, OnlyType
<1>7. Counted(rows, r.form) = {i \in Stored : Where(i, r.form)}
  BY DEF Counted, Stored, Where
<1>8. k = Cardinality(Counted(rows, r.form))
  BY <1>7 DEF k
<1> HIDE DEF r
<1>9. QED
  BY <1>1, <1>5, <1>6, <1>8 DEF r

\* Its select.
LEMMA SelectRequest ==
  ASSUME Types, NEW n \in DOMAIN requests, Select(n)
  PROVE  LET r == requests[n]
             s == requests'[n]
         IN  /\ Only(n) /\ requests' \in Seq(Request \cup {Done})
             /\ r \in Request /\ r.pc = "counted"
             /\ s # Done /\ s.pc = "answered" /\ s.form = r.form
             /\ s.page = r.page /\ s.size = r.size /\ s.early = r.early /\ s.from = r.from
             /\ s.quiet = (r.quiet \/ r.form.sla_state # None)
             /\ \E q \in Ordered(Matching(r.form), r.form) :
                  /\ s.count = total_count(r, q) /\ s.items = Slice(q, r) /\ s.owed = ToSet(q)
<1> DEFINE r == requests[n]
<1>1. r \in Request /\ r.pc = "counted"
  BY RequestsKnown DEF Select, Done
<1>2. PICK q \in Ordered(Matching(r.form), r.form) :
        requests' = [requests EXCEPT ![n].pc = "answered",
          ![n].count = total_count(r, q), ![n].items = Slice(q, r),
          ![n].owed = ToSet(q), ![n].steady = TRUE,
          ![n].quiet = @ \/ r.form.sla_state # None]
  BY DEF Select
<1> DEFINE count == total_count(r, q)
           items == Slice(q, r)
           owed == ToSet(q)
           quiet == r.quiet \/ r.form.sla_state # None
           s == [r EXCEPT !.pc = "answered", !.count = count, !.items = items, !.owed = owed,
                          !.steady = TRUE, !.quiet = quiet]
<1>3. q \in Seq(Ids) /\ owed \in SUBSET Ids
  BY MatchingIds, OrderedFacts
<1>4. count \in Nat
  BY <1>1, <1>3 DEF total_count, Request
<1>5. items \in Seq(Ids)
  BY <1>1, <1>3, SliceFacts DEF Request
<1>6. quiet \in BOOLEAN
  BY <1>1 DEF Request
<1>7. requests' = [requests EXCEPT ![n].pc = "answered", ![n].count = count,
                    ![n].items = items, ![n].owed = owed, ![n].steady = TRUE,
                    ![n].quiet = quiet]
  <2>1. requests[n].quiet = r.quiet
    OBVIOUS
  <2>2. QED
    BY <1>2
<1> HIDE DEF count, items, owed, quiet
<1>8. requests' = [requests EXCEPT ![n] = s]
  BY <1>7
<1>9. /\ s \in Request /\ s # Done /\ s.pc = "answered" /\ s.form = r.form
      /\ s.page = r.page /\ s.size = r.size /\ s.early = r.early /\ s.from = r.from
      /\ s.count = count /\ s.items = items /\ s.owed = owed /\ s.quiet = quiet
  BY <1>1, <1>3, <1>4, <1>5, <1>6 DEF Request, Done
<1> HIDE DEF s
<1>10. Only(n) /\ requests'[n] = s /\ requests' \in Seq(Request \cup {Done})
  BY <1>8, <1>9, OnlyType
<1>11. QED
  BY <1>1, <1>9, <1>10 DEF count, items, owed, quiet

\* An answer that arrives, or an error.
LEMMA DoneRequest ==
  ASSUME Types, NEW n \in DOMAIN requests, Receive(n) \/ Fail(n)
  PROVE  /\ Only(n) /\ requests' \in Seq(Request \cup {Done})
         /\ requests'[n] = Done /\ requests[n] # Done /\ requests[n] \in Request
<1>1. requests' = [requests EXCEPT ![n] = Done]
  BY DEF Receive, Fail
<1>2. requests[n].pc # "done"
  BY DEF Receive, Fail
<1>3. requests[n] # Done /\ requests[n] \in Request
  BY <1>2, RequestsKnown
<1>4. QED
  BY <1>1, <1>3, OnlyType
-----------------------------------------------------------------------------
(***************************************************************************)
(* Types.                                                                  *)
(***************************************************************************)
\* A commit that leaves the rows well typed leaves everything so.
LEMMA CommitTypes ==
  ASSUME Types, NEW steady \in BOOLEAN, Commit(steady),
         rows' \in Seq(Row \cup {Gone}), Len(rows') <= MaxRows
  PROVE  Types'
<1>1. requests' \in Seq(Request \cup {Done})
  BY CommitRequests
<1>2. UNCHANGED <<listening, form, typing, ahead, page, pageSize, url, shown>>
  BY DEF Commit, component
<1>3. walk' # None => walk' \in Walk
  BY DEF Commit, Types
<1>4. QED
  BY <1>1, <1>2, <1>3 DEF Types, Stored

\* A new incident leaves the others as they are.
LEMMA CreateTypes ==
  ASSUME Types, CreateIncident
  PROVE  /\ Types'
         /\ \A i \in Stored : i \in DOMAIN rows /\ i \in DOMAIN rows' /\ rows'[i] = rows[i]
<1>1. PICK t \in Ids :
        rows' = Append(rows, [created_at |-> t, status |-> "open", late |-> FALSE])
  BY DEF CreateIncident
<1>2. Len(rows) < MaxRows /\ Commit(TRUE)
  BY DEF CreateIncident
<1> DEFINE new == [created_at |-> t, status |-> "open", late |-> FALSE]
<1>3. new \in Row /\ new.created_at = t
  BY DEF Row, Statuses
<1> HIDE DEF new
<1>4. rows \in Seq(Row \cup {Gone}) /\ Len(rows) \in Nat /\ MaxRows \in Nat
  BY BoundsAssumption DEF Types
<1>5. /\ rows' = Append(rows, new)
      /\ rows' \in Seq(Row \cup {Gone}) /\ Len(rows') = Len(rows) + 1
      /\ DOMAIN rows' = 1..Len(rows) + 1 /\ DOMAIN rows = 1..Len(rows)
      /\ \A i \in DOMAIN rows : rows'[i] = rows[i]
      /\ rows'[Len(rows) + 1] = new
  BY <1>1, <1>3, <1>4 DEF new
<1>6. Types'
  <2>1. TRUE \in BOOLEAN /\ Commit(TRUE)
    BY <1>2
  <2>2. rows' \in Seq(Row \cup {Gone}) /\ Len(rows') <= MaxRows
    BY <1>2, <1>4, <1>5
  <2>3. QED
    BY <2>1, <2>2, CommitTypes
<1>7. QED
  BY <1>5, <1>6 DEF Stored

\* A row that is changed or deleted is a row or gone.
LEMMA ChangeTypes ==
  ASSUME Types, NEW i \in Stored,
         UpdateIncidentStatus(i) \/ DeadlinePasses(i) \/ DeleteIncident(i)
  PROVE  Types' /\ Commit(FALSE)
<1>1. Commit(FALSE)
  BY DEF UpdateIncidentStatus, DeadlinePasses, DeleteIncident
<1>2. PICK row \in Row \cup {Gone} : rows' = [rows EXCEPT ![i] = row]
  <2>1. rows[i] \in Row
    BY MatchingIds
  <2>2. CASE UpdateIncidentStatus(i)
    <3> DEFINE row == [rows[i] EXCEPT !.status = "resolved"]
    <3>1. row \in Row
      BY <2>1 DEF Row, Statuses
    <3>2. rows' = [rows EXCEPT ![i] = row]
      BY <2>2 DEF UpdateIncidentStatus
    <3>3. QED
      BY <3>1, <3>2
  <2>3. CASE DeadlinePasses(i)
    <3> DEFINE row == [rows[i] EXCEPT !.late = TRUE]
    <3>1. row \in Row
      BY <2>1 DEF Row
    <3>2. rows' = [rows EXCEPT ![i] = row]
      BY <2>3 DEF DeadlinePasses
    <3>3. QED
      BY <3>1, <3>2
  <2>4. CASE DeleteIncident(i)
    BY <2>4 DEF DeleteIncident
  <2>5. QED
    BY <2>2, <2>3, <2>4
<1>3. rows \in Seq(Row \cup {Gone}) /\ Len(rows) <= MaxRows /\ i \in DOMAIN rows
  BY DEF Types, Stored
<1>4. rows' \in Seq(Row \cup {Gone}) /\ Len(rows') <= MaxRows
  BY <1>2, <1>3
<1>5. Types'
  <2>1. FALSE \in BOOLEAN
    OBVIOUS
  <2>2. QED
    BY <1>1, <1>4, <2>1, CommitTypes
<1>6. QED
  BY <1>1, <1>5

\* A request for a page of the list.
LEMMA LoadTypes ==
  ASSUME Types, NEW p \in Nat, NEW size \in Sizes, NEW early \in BOOLEAN,
         loadIncidents(p, size, early),
         page' \in Nat, pageSize' \in Sizes, url' \in [form: Form, page: Nat, size: Sizes],
         typing' \in BOOLEAN, ahead' \in BOOLEAN
  PROVE  Types'
<1>1. requests' \in Seq(Request \cup {Done})
  <2>1. CASE Throws(form)
    BY <2>1 DEF loadIncidents, Types
  <2>2. CASE ~Throws(form)
    BY <2>2, LoadRequests
  <2>3. QED
    BY <2>1, <2>2
<1>2. UNCHANGED <<rows, listening, form, shown, walk>>
  BY DEF loadIncidents
<1>3. QED
  BY <1>1, <1>2 DEF Types, Stored

\* What the paginator leads to is a page and a size.
LEMMA TurnTypes ==
  ASSUME Types, NEW turn \in Turns
  PROVE  turn[1] \in Nat /\ turn[2] \in Sizes
<1>1. page \in Nat /\ pageSize \in Sizes /\ Sizes \subseteq Nat \ {0}
  BY FormsAssumption DEF Types
<1>2. CASE turn \in {<<p, pageSize>> : p \in {q \in {page + 1} : q < Pages}
                                         \cup {q \in 0..page : q + 1 = page}}
  BY <1>1, <1>2
<1>3. CASE turn \in {<<(page * pageSize) \div size, size>> : size \in Sizes \ {pageSize}}
  <2>1. PICK size \in Sizes : turn = <<(page * pageSize) \div size, size>>
    BY <1>3
  <2>2. page * pageSize \in Nat /\ size \in Nat \ {0}
    <3>1. \A p, s \in Nat : p * s \in Nat
      OBVIOUS
    <3>2. QED
      BY <1>1, <3>1
  <2>3. \A a \in Nat, b \in Nat \ {0} : a \div b \in Nat
    OBVIOUS
  <2>4. (page * pageSize) \div size \in Nat
    BY <2>2, <2>3
  <2>5. QED
    BY <2>1, <2>4
<1>4. QED
  BY <1>2, <1>3 DEF Turns

\* The user's next page.
LEMMA TurnedTypes ==
  ASSUME Types, NEW p \in Nat, NEW size \in Sizes, NEW early \in BOOLEAN,
         syncUrlAndLoad(p, size, early), typing' \in BOOLEAN, ahead' \in BOOLEAN
  PROVE  Types'
<1>1. page' = p /\ pageSize' = size /\ url' = AddressOf(p, size) /\ loadIncidents(p, size, early)
  BY DEF syncUrlAndLoad
<1>2. AddressOf(p, size) \in [form: Form, page: Nat, size: Sizes]
  BY DEF AddressOf, Types
<1>3. QED
  BY <1>1, <1>2, LoadTypes

\* A walk through the pages is one.
LEMMA WalkedType ==
  ASSUME Types, NEW r \in Request, Walked(r) # None
  PROVE  Walked(r) \in Walk
<1>1. ToSet(r.items) \in SUBSET Ids
  BY DEF Request, ToSet
<1>2. CASE r.steady /\ r.page = 1
  BY <1>1, <1>2 DEF Walked, Walk, Request
<1>3. CASE r.steady /\ r.page # 1
  <2>1. /\ walk # None
        /\ Walked(r) = [walk EXCEPT !.page = r.page, !.count = r.count, !.quiet = r.quiet,
                                    !.seen = @ \cup ToSet(r.items)]
    BY <1>3 DEF Walked
  <2>2. walk \in Walk
    BY <2>1 DEF Types
  <2>3. QED
    BY <1>1, <2>1, <2>2 DEF Walk, Request
<1>4. QED
  BY <1>2, <1>3 DEF Walked

\* The answer that arrives is shown.
LEMMA ReceiveTypes ==
  ASSUME Types, NEW n \in DOMAIN requests, Receive(n)
  PROVE  Types'
<1>1. requests[n] \in Request /\ requests' \in Seq(Request \cup {Done})
  BY DoneRequest
<1>2. walk' # None => walk' \in Walk
  BY <1>1, WalkedType DEF Receive
<1>3. shown' \in Answer
  <2>1. n \in Nat
    BY RequestsKnown
  <2>2. shown' = [n |-> n, form |-> requests[n].form, page |-> requests[n].page - 1,
                  size |-> requests[n].size, early |-> requests[n].early,
                  count |-> requests[n].count, items |-> requests[n].items,
                  quiet |-> requests[n].quiet]
    BY DEF Receive
  <2>3. requests[n].page - 1 \in Nat
    BY <1>1 DEF Request
  <2>4. QED
    BY <1>1, <2>1, <2>2, <2>3 DEF Request, Answer
<1>4. UNCHANGED <<rows, listening, form, typing, ahead, page, pageSize, url>>
  BY DEF Receive, component
<1>5. QED
  BY <1>1, <1>2, <1>3, <1>4 DEF Types

-----------------------------------------------------------------------------
(***************************************************************************)
(* Counts, and what is asked for from the answer shown.                    *)
(***************************************************************************)
\* A commit makes every count under way doubtful, and leaves the answers alone.
LEMMA CommitCounts ==
  ASSUME Types, FromShown, CountsOk, NEW steady \in BOOLEAN, Commit(steady)
  PROVE  FromShown' /\ CountsOk'
<1>1. shown' = shown
  BY DEF Commit
<1>2. FromShown'
  BY <1>1, CommitRequests DEF FromShown
<1>3. ASSUME NEW n \in DOMAIN requests', requests'[n] # Done
      PROVE  /\ requests'[n].pc = "counted" => ~requests'[n].quiet
             /\ requests'[n].pc = "answered" /\ requests'[n].quiet =>
                  Len(requests'[n].items) =
                    OnPage(requests'[n].page - 1, requests'[n].size, requests'[n].count)
  <2>1. n \in DOMAIN requests /\ requests[n] # Done
    BY <1>3, CommitRequests
  <2>2. CountOk(requests[n])
    BY <2>1 DEF CountsOk
  <2>3. QED
    BY <2>1, <2>2, CommitRequests DEF CountOk
<1>4. QED
  BY <1>2, <1>3 DEF CountsOk, CountOk

\* A new request has counted nothing, and is asked for from the answer shown.
LEMMA LoadCounts ==
  ASSUME Types, FromShown, CountsOk, ~Throws(form),
         NEW p \in Nat, NEW size \in Sizes, NEW early \in BOOLEAN, loadIncidents(p, size, early)
  PROVE  FromShown' /\ CountsOk'
<1>0. DOMAIN requests' = DOMAIN requests \cup {Len(requests) + 1}
  BY LoadRequests
<1>1. UNCHANGED <<rows, shown>>
  BY DEF loadIncidents
<1>2. FromShown'
  <2>1. \A n : n = 0 \/ (n \in DOMAIN requests /\ requests[n] = Done) =>
               n = 0 \/ (n \in DOMAIN requests' /\ requests'[n] = Done)
    BY LoadRequests
  <2>2. ASSUME NEW n \in DOMAIN requests', requests'[n] # Done
        PROVE  requests'[n].from = shown.n \/ (n \in DOMAIN requests /\ requests'[n] = requests[n])
    BY LoadRequests
  <2>3. QED
    BY <1>1, <2>1, <2>2 DEF FromShown
<1>3. CountsOk'
  <2>1. ASSUME NEW n \in DOMAIN requests', requests'[n] # Done
        PROVE  CountOk(requests[n])'
    <3>1. requests'[n].pc = "sent" \/ (n \in DOMAIN requests /\ requests'[n] = requests[n])
      <4>1. n \in DOMAIN requests \/ n = Len(requests) + 1
        BY <1>0, <2>1
      <4>2. requests'[Len(requests) + 1].pc = "sent"
        BY LoadRequests
      <4>3. \A m \in DOMAIN requests : requests'[m] = requests[m]
        BY LoadRequests
      <4>4. QED
        BY <4>1, <4>2, <4>3
    <3>2. QED
      BY <1>1, <2>1, <3>1 DEF CountsOk, CountOk
  <2>2. QED
    BY <2>1 DEF CountsOk
<1>4. QED
  BY <1>2, <1>3

\* Request n has moved on, and what it says of counts is right.
LEMMA OnlyCounts ==
  ASSUME Types, FromShown, CountsOk, NEW n \in DOMAIN requests, requests[n] # Done, Only(n),
         UNCHANGED rows,
         shown'.n = shown.n \/ (shown'.n = n /\ requests'[n] = Done),
         requests'[n] = Done \/ (requests'[n].from = requests[n].from /\ CountOk(requests[n])')
  PROVE  FromShown' /\ CountsOk'
<1>1. FromShown'
  <2>1. \A m : m = 0 \/ (m \in DOMAIN requests /\ requests[m] = Done) =>
               m = 0 \/ (m \in DOMAIN requests' /\ requests'[m] = Done)
    BY DEF Only
  <2>2. ASSUME NEW m \in DOMAIN requests', requests'[m] # Done
        PROVE  m \in DOMAIN requests /\ requests[m] # Done /\ requests'[m].from = requests[m].from
    BY <2>2 DEF Only
  <2>3. QED
    BY <2>1, <2>2 DEF FromShown, Only
<1>2. CountsOk'
  <2>1. ASSUME NEW m \in DOMAIN requests', requests'[m] # Done
        PROVE  CountOk(requests[m])'
    BY <2>1 DEF CountsOk, CountOk, Only
  <2>2. QED
    BY <2>1 DEF CountsOk
<1>3. QED
  BY <1>1, <1>2

\* The count.
LEMMA CountCounts ==
  ASSUME Types, FromShown, CountsOk, NEW n \in DOMAIN requests, Count(n)
  PROVE  FromShown' /\ CountsOk'
<1>1. requests[n] # Done
  BY DEF Count, Done
<1>2. UNCHANGED <<rows, shown>>
  BY DEF Count
<1>3. CountOk(requests[n])'
  BY <1>2, CountRequest DEF CountOk
<1>4. QED
  BY <1>1, <1>2, <1>3, CountRequest, OnlyCounts

\* The select: the page fits the count, which is that of the same order or still right.
LEMMA SelectCounts ==
  ASSUME Types, FromShown, CountsOk, NEW n \in DOMAIN requests, Select(n)
  PROVE  FromShown' /\ CountsOk'
<1> DEFINE r == requests[n]
           s == requests'[n]
<1>1. requests[n] # Done
  BY DEF Select, Done
<1>2. UNCHANGED <<rows, shown>>
  BY DEF Select
<1>3. /\ r \in Request /\ r.pc = "counted" /\ s.pc = "answered" /\ s.form = r.form
      /\ s.page = r.page /\ s.size = r.size /\ s.from = r.from
      /\ s.quiet = (r.quiet \/ r.form.sla_state # None)
  BY SelectRequest
<1>4. PICK q \in Ordered(Matching(r.form), r.form) :
        s.count = total_count(r, q) /\ s.items = Slice(q, r)
  BY SelectRequest
<1>5. q \in Seq(Ids) /\ Len(q) = Cardinality(Matching(r.form))
  BY MatchingIds, OrderedFacts
<1>6. s.quiet => s.count = Len(q)
  <2>1. CASE r.form.sla_state # None
    BY <1>4, <2>1 DEF total_count
  <2>2. CASE r.form.sla_state = None /\ s.quiet
    <3>1. r.count = Cardinality(Counted(rows, r.form))
      BY <1>1, <1>3, <2>2 DEF CountsOk, CountOk
    <3>2. Matching(r.form) = Counted(rows, r.form)
      BY <2>2 DEF Matching, Stored, Where, Counted
    <3>3. QED
      BY <1>4, <1>5, <2>2, <3>1, <3>2 DEF total_count
  <2>3. QED
    BY <2>1, <2>2
<1>7. Len(s.items) = OnPage(r.page - 1, r.size, Len(q))
  BY <1>3, <1>4, <1>5, SliceFacts DEF Request
<1>8. CountOk(requests[n])'
  BY <1>3, <1>6, <1>7 DEF CountOk
<1>9. QED
  BY <1>1, <1>2, <1>3, <1>8, SelectRequest, OnlyCounts

\* An answer that arrives, or an error.
LEMMA DoneCounts ==
  ASSUME Types, FromShown, CountsOk, NEW n \in DOMAIN requests, Receive(n) \/ Fail(n)
  PROVE  FromShown' /\ CountsOk'
<1>1. UNCHANGED rows /\ (shown'.n = shown.n \/ shown'.n = n)
  BY DEF Receive, Fail
<1>2. QED
  BY <1>1, DoneRequest, OnlyCounts

-----------------------------------------------------------------------------
(***************************************************************************)
(* The list and its link.                                                  *)
(***************************************************************************)
\* A step of the server or of other users leaves the component alone.
LEMMA ServedLink ==
  ASSUME Types, InStep, LastSettled, UNCHANGED <<component, shown>>,
         Len(requests') = Len(requests),
         LET n == Len(requests)
             r == requests[n]
             s == requests'[n]
         IN  listening /\ s # Done =>
                         /\ r # Done /\ s.form = r.form /\ s.page = r.page
                         /\ s.size = r.size /\ s.early = r.early
  PROVE  InStep' /\ LastSettled'
<1>1. UNCHANGED <<listening, form, typing, emitted, ahead, url, page, pageSize, shown>>
  BY DEF component
<1>2. InStep'
  BY <1>1 DEF InStep
<1>3. \A f, p, size, early : Settled(f, p, size, early) => Settled(f, p, size, early)'
  BY <1>1 DEF Settled
<1>4. LastSettled'
  BY <1>1, <1>3 DEF LastSettled, Settled
<1>5. QED
  BY <1>2, <1>4

\* The answer to the last request shows what that request asked for.
LEMMA ReceivedLink ==
  ASSUME Types, InStep, LastSettled, NEW n \in DOMAIN requests, Receive(n)
  PROVE  InStep' /\ LastSettled'
<1>1. UNCHANGED <<listening, form, typing, emitted, ahead, url, page, pageSize>>
  BY DEF Receive, component
<1>2. InStep'
  BY <1>1 DEF InStep
<1>3. Len(requests') = Len(requests) /\ requests'[n] = Done /\ requests[n] # Done
  BY DoneRequest DEF Only
<1>4. /\ shown'.n = n /\ shown'.form = requests[n].form /\ shown'.page = requests[n].page - 1
      /\ shown'.size = requests[n].size /\ shown'.early = requests[n].early
  BY DEF Receive
<1>5. \A m \in DOMAIN requests : m # n => requests'[m] = requests[m]
  BY DoneRequest DEF Only
<1>6. listening => Len(requests) \in DOMAIN requests
  BY RequestsKnown DEF LastSettled
<1>7. LastSettled'
  BY <1>1, <1>3, <1>4, <1>5, <1>6 DEF LastSettled, Settled
<1>8. QED
  BY <1>2, <1>7

\* A request asks for what the URL and the form say, or for something else that it knows of.
LEMMA LoadedLink ==
  ASSUME Types, FromShown, InStep,
         NEW p \in Nat, NEW size \in Sizes, NEW early \in BOOLEAN, loadIncidents(p, size, early),
         listening /\ ~early /\ ~ahead' =>
           /\ p = page' /\ size = pageSize' /\ url'.form = form /\ emitted' \in {None, form}
  PROVE  LastSettled'
<1>1. form' = form /\ shown' = shown /\ listening' = listening
  BY DEF loadIncidents
<1>2. SUFFICES ASSUME listening
               PROVE  LastSettled'
  BY <1>1 DEF LastSettled
<1>3. shown.n # Len(requests) + 1
  BY RequestsKnown DEF FromShown
<1>4. ~Throws(form)
  BY <1>2 DEF InStep
<1>5. /\ Len(requests') = Len(requests) + 1 /\ Len(requests) \in Nat
      /\ LET t == requests'[Len(requests) + 1] IN
           t.form = form /\ t.page - 1 = p /\ t.size = size /\ t.early = early
  BY <1>4, LoadRequests, RequestsKnown
<1>6. QED
  BY <1>1, <1>2, <1>3, <1>5 DEF LastSettled, Settled

\* The user types.
LEMMA TypeLink ==
  ASSUME Types, InStep, LastSettled, NEW f, listening => ~Throws(f), Type(f)
  PROVE  InStep' /\ LastSettled'
  BY DEF Type, InStep, LastSettled, Settled

\* debounceTime is over.
LEMMA FilterLink ==
  ASSUME Types, FromShown, InStep, LastSettled, FilterChanged
  PROVE  InStep' /\ LastSettled'
<1>1. typing /\ typing' = FALSE /\ emitted' = form /\ form \in Form /\ None \notin Form
  BY NoneAssumption DEF FilterChanged, Types
<1>2. CASE form = emitted
  <2>1. UNCHANGED <<requests, listening, form, ahead, url, page, pageSize, shown>>
    BY <1>2 DEF FilterChanged
  <2>2. InStep'
    BY <1>1, <1>2, <2>1 DEF InStep
  <2>3. LastSettled'
    BY <1>1, <1>2, <2>1 DEF LastSettled, Settled
  <2>4. QED
    BY <2>2, <2>3
<1>3. CASE form # emitted
  <2>1. ahead' = FALSE /\ syncUrlAndLoad(0, pageSize, FALSE)
    BY <1>3 DEF FilterChanged
  <2>2. /\ page' = 0 /\ pageSize' = pageSize /\ url' = AddressOf(0, pageSize)
        /\ loadIncidents(0, pageSize, FALSE)
    BY <2>1 DEF syncUrlAndLoad
  <2>3. url'.form = form /\ url'.page = 0 /\ url'.size = pageSize /\ form' = form
        /\ listening' = listening
    BY <2>2 DEF AddressOf, loadIncidents
  <2>4. InStep'
    BY <1>1, <2>1, <2>2, <2>3 DEF InStep
  <2>5. pageSize \in Sizes /\ 0 \in Nat /\ FALSE \in BOOLEAN
    BY DEF Types
  <2>6. LastSettled'
    BY <1>1, <2>1, <2>2, <2>3, <2>5, LoadedLink
  <2>7. QED
    BY <2>4, <2>6
<1>4. QED
  BY <1>2, <1>3

\* The user turns a page.
LEMMA TurnLink ==
  ASSUME Types, FromShown, InStep, NEW turn \in Turns,
         syncUrlAndLoad(turn[1], turn[2], typing), ahead' = (ahead \/ typing),
         UNCHANGED <<typing, emitted>>
  PROVE  InStep' /\ LastSettled'
<1> DEFINE p == turn[1]
           size == turn[2]
<1>1. p \in Nat /\ size \in Sizes /\ typing \in BOOLEAN
  BY TurnTypes DEF Types
<1>2. page' = p /\ pageSize' = size /\ url' = AddressOf(p, size) /\ loadIncidents(p, size, typing)
  BY DEF syncUrlAndLoad
<1>3. url'.form = form /\ url'.page = p /\ url'.size = size /\ form' = form
      /\ listening' = listening
  BY <1>2 DEF AddressOf, loadIncidents
<1>4. InStep'
  BY <1>2, <1>3 DEF InStep
<1>5. listening /\ ~typing => emitted' \in {None, form}
  BY DEF InStep
<1> HIDE DEF p, size
<1>6. LastSettled'
  BY <1>1, <1>2, <1>3, <1>5, LoadedLink
<1>7. QED
  BY <1>4, <1>6

\* The list is loaded again.
LEMMA ReloadLink ==
  ASSUME Types, FromShown, InStep, Reload
  PROVE  InStep' /\ LastSettled'
<1>1. /\ loadIncidents(page, pageSize, typing)
      /\ UNCHANGED <<typing, emitted, ahead, url, page, pageSize, form, listening>>
  BY DEF Reload, loadIncidents
<1>2. InStep'
  BY <1>1 DEF InStep
<1>3. page \in Nat /\ pageSize \in Sizes /\ typing \in BOOLEAN
  BY DEF Types
<1>4. listening /\ ~typing /\ ~ahead' =>
        page = page' /\ pageSize = pageSize' /\ url'.form = form /\ emitted' \in {None, form}
  BY <1>1 DEF InStep
<1>5. LastSettled'
  BY <1>1, <1>3, <1>4, LoadedLink
<1>6. QED
  BY <1>2, <1>5

-----------------------------------------------------------------------------
(***************************************************************************)
(* The walk through the pages.                                             *)
(***************************************************************************)
\* New incidents take none from a list, and none from before a row.
LEMMA ReachedKept ==
  ASSUME Types, UNCHANGED rows \/ CreateIncident
  PROVE  \A f, owed, seen, all : \A n \in Nat :
           Reached(f, owed, seen, n, all) => Reached(f, owed, seen, n, all)'
<1>1. /\ \A i \in Stored : i \in Stored' /\ rows'[i] = rows[i]
      /\ rows' \in Seq(Row \cup {Gone})
  <2>1. CASE UNCHANGED rows
    BY <2>1 DEF Types, Stored
  <2>2. CASE CreateIncident
    BY <2>2, CreateTypes DEF Types, Stored
  <2>3. QED
    BY <2>1, <2>2
<1>2. \A f : \A i \in Stored : Key(i, f)' = Key(i, f)
  BY <1>1 DEF Key
<1>3. \A f : Matching(f) \subseteq Matching(f)' /\ Matching(f) \subseteq Stored
  BY <1>1 DEF Matching, Where, SlaState
<1>4. ASSUME NEW f, NEW i \in Matching(f)
      PROVE  /\ Cardinality(Earlier(i, f)) \in Nat /\ Cardinality(Earlier(i, f)') \in Nat
             /\ Cardinality(Earlier(i, f)) <= Cardinality(Earlier(i, f)')
  <2>1. Earlier(i, f) \subseteq Earlier(i, f)'
    BY <1>2, <1>3, <1>4 DEF Earlier
  <2>2. Earlier(i, f)' \subseteq DOMAIN rows'
    BY DEF Earlier, Matching, Stored
  <2>3. IsFiniteSet(DOMAIN rows')
    <3>1. DOMAIN rows' = 1..Len(rows') /\ Len(rows') \in Nat
      BY <1>1
    <3>2. QED
      BY <3>1, FS_Interval
  <2>4. IsFiniteSet(Earlier(i, f)')
    BY <2>2, <2>3, FS_Subset
  <2>5. QED
    BY <2>1, <2>4, FS_Subset, FS_CardinalityType
<1>5. ASSUME NEW f, NEW i \in Matching(f), Alone(i, f)'
      PROVE  Alone(i, f)
  <2>1. \A j \in Matching(f) : j \in Matching(f)' /\ rows'[j] = rows[j]
    BY <1>1, <1>3
  <2>2. QED
    BY <1>5, <2>1 DEF Alone
<1>6. ASSUME NEW f, NEW owed, NEW seen, NEW all, NEW n \in Nat, Reached(f, owed, seen, n, all),
             f.sort_by = "created_at"
      PROVE  /\ owed \subseteq Matching(f)'
             /\ \A i \in owed \ seen :
                  Alone(i, f)' => Cardinality(Earlier(i, f)') >= n /\ ~all
  <2>1. owed \subseteq Matching(f)
    BY <1>6 DEF Reached
  <2>2. ASSUME NEW i \in owed \ seen, Alone(i, f)'
        PROVE  Cardinality(Earlier(i, f)') >= n /\ ~all
    <3>1. i \in Matching(f) /\ Alone(i, f)
      BY <1>5, <2>1, <2>2
    <3>2. Cardinality(Earlier(i, f)) >= n /\ ~all
      BY <1>6, <3>1 DEF Reached
    <3>3. QED
      BY <1>4, <3>1, <3>2
  <2>3. QED
    BY <1>3, <2>1, <2>2
<1>7. QED
  BY <1>6 DEF Reached

\* How far a walk has come is a number.
LEMMA WalkNumbers ==
  ASSUME Types
  PROVE  /\ walk # None => walk.page * walk.size \in Nat
         /\ \A r \in Request : r.page * r.size \in Nat
<1>1. \A p, s \in Nat : p * s \in Nat
  OBVIOUS
<1>2. QED
  BY <1>1, FormsAssumption DEF Types, Walk, Request

\* A step that takes nothing from the rows, and answers nothing.
LEMMA WalkKept ==
  ASSUME Types, AnswersOk, WalkOk, UNCHANGED rows \/ CreateIncident, UNCHANGED <<shown, walk>>,
         \A n \in DOMAIN requests' : requests'[n] # Done /\ requests'[n].pc = "answered" =>
           LET r == requests[n]
               s == requests'[n]
           IN  /\ n \in DOMAIN requests /\ r # Done /\ r.pc = "answered"
               /\ s.form = r.form /\ s.page = r.page /\ s.size = r.size /\ s.from = r.from
               /\ s.count = r.count /\ s.items = r.items /\ s.owed = r.owed
               /\ s.quiet = r.quiet /\ s.steady = r.steady
  PROVE  AnswersOk' /\ WalkOk'
<1>1. WalkOk'
  BY ReachedKept, WalkNumbers DEF WalkOk
<1>2. ASSUME NEW n \in DOMAIN requests', requests'[n] # Done
      PROVE  AnswerOk(requests[n])'
  <2>1. SUFFICES ASSUME requests'[n].pc = "answered" /\ requests'[n].steady
                 PROVE  AnswerOk(requests[n])'
    BY DEF AnswerOk
  <2> DEFINE r == requests[n]
             all == r.quiet /\ r.page * r.size >= r.count
  <2>2. r \in Request /\ AnswerOk(r) /\ r.pc = "answered" /\ r.steady
    BY <1>2, <2>1, RequestsKnown DEF AnswersOk
  <2>3. r.page * r.size \in Nat
    BY <2>2, WalkNumbers
  <2>4. /\ r.page = 1 => Reached(r.form, r.owed, ToSet(r.items), r.page * r.size, all)
        /\ GoesOn(r) =>
             Reached(r.form, walk.owed, walk.seen \cup ToSet(r.items), r.page * r.size, all)
    BY <2>2 DEF AnswerOk
  <2>5. QED
    BY <1>2, <2>1, <2>3, <2>4, ReachedKept DEF AnswerOk, GoesOn
<1>3. QED
  BY <1>1, <1>2 DEF AnswersOk

\* A row that was changed or deleted ends every walk.
LEMMA ChangeWalk ==
  ASSUME Types, Commit(FALSE)
  PROVE  AnswersOk' /\ WalkOk'
<1>1. walk' = None
  BY DEF Commit
<1>2. \A n \in DOMAIN requests' : requests'[n] # Done => ~requests'[n].steady
  <2>1. FALSE \in BOOLEAN
    OBVIOUS
  <2>2. QED
    BY <2>1, CommitRequests
<1>3. QED
  BY <1>1, <1>2 DEF AnswersOk, AnswerOk, WalkOk

\* A new incident takes nothing from a walk.
LEMMA CreateWalk ==
  ASSUME Types, AnswersOk, WalkOk, CreateIncident
  PROVE  AnswersOk' /\ WalkOk'
<1>1. Commit(TRUE) /\ TRUE \in BOOLEAN
  BY DEF CreateIncident
<1>2. UNCHANGED <<shown, walk>>
  BY <1>1 DEF Commit
<1>3. ASSUME NEW n \in DOMAIN requests', requests'[n] # Done, requests'[n].pc = "answered"
      PROVE  LET r == requests[n]
                 s == requests'[n]
             IN  /\ n \in DOMAIN requests /\ r # Done /\ r.pc = "answered"
                 /\ s.form = r.form /\ s.page = r.page /\ s.size = r.size /\ s.from = r.from
                 /\ s.count = r.count /\ s.items = r.items /\ s.owed = r.owed
                 /\ s.quiet = r.quiet /\ s.steady = r.steady
  <2> DEFINE r == requests[n]
             s == requests'[n]
  <2>1. n \in DOMAIN requests /\ r # Done
    BY <1>1, <1>3, CommitRequests
  <2>2. /\ r \in Request /\ s.pc = r.pc /\ s.form = r.form /\ s.page = r.page
        /\ s.size = r.size /\ s.from = r.from /\ s.count = r.count /\ s.items = r.items
        /\ s.owed = r.owed
        /\ s.quiet = (r.quiet /\ r.pc = "answered") /\ s.steady = (r.steady /\ TRUE)
    BY <1>1, <2>1, CommitRequests
  <2>3. r.quiet \in BOOLEAN /\ r.steady \in BOOLEAN
    BY <2>2 DEF Request
  <2>4. QED
    BY <1>3, <2>1, <2>2, <2>3
<1>4. QED
  BY <1>1, <1>2, <1>3, WalkKept

\* A new request has answered nothing.
LEMMA LoadWalk ==
  ASSUME Types, AnswersOk, WalkOk, ~Throws(form),
         NEW p \in Nat, NEW size \in Sizes, NEW early \in BOOLEAN, loadIncidents(p, size, early)
  PROVE  AnswersOk' /\ WalkOk'
<1>0. DOMAIN requests' = DOMAIN requests \cup {Len(requests) + 1}
  BY LoadRequests
<1>1. UNCHANGED <<rows, shown, walk>>
  BY DEF loadIncidents
<1>2. ASSUME NEW n \in DOMAIN requests'
      PROVE  requests'[n].pc = "sent" \/ (n \in DOMAIN requests /\ requests'[n] = requests[n])
  <2>1. n \in DOMAIN requests \/ n = Len(requests) + 1
    BY <1>0, <1>2
  <2>2. requests'[Len(requests) + 1].pc = "sent"
    BY LoadRequests
  <2>3. \A m \in DOMAIN requests : requests'[m] = requests[m]
    BY LoadRequests
  <2>4. QED
    BY <2>1, <2>2, <2>3
<1>3. QED
  BY <1>1, <1>2, WalkKept

\* A count is no answer, and neither is an error.
LEMMA OnlyWalk ==
  ASSUME Types, AnswersOk, WalkOk, NEW n \in DOMAIN requests, Count(n) \/ Fail(n)
  PROVE  AnswersOk' /\ WalkOk'
<1>1. UNCHANGED <<rows, shown, walk>>
  BY DEF Count, Fail
<1>2. Only(n) /\ (requests'[n] = Done \/ requests'[n].pc = "counted")
  BY CountRequest, DoneRequest
<1>3. QED
  BY <1>1, <1>2, WalkKept DEF Only

\* When nobody commits between count and select, they agree.
LEMMA SelectAgrees ==
  ASSUME Types, CountsOk, NEW n \in DOMAIN requests, Select(n)
  PROVE  LET r == requests[n]
             s == requests'[n]
         IN  \E q \in Ordered(Matching(r.form), r.form) :
               /\ s.items = Slice(q, r) /\ s.owed = ToSet(q)
               /\ s.quiet => s.count = Len(q)
<1> DEFINE r == requests[n]
           s == requests'[n]
<1>1. /\ r \in Request /\ r.pc = "counted" /\ r # Done
      /\ s.quiet = (r.quiet \/ r.form.sla_state # None)
  BY SelectRequest DEF Done
<1>2. PICK q \in Ordered(Matching(r.form), r.form) :
        s.count = total_count(r, q) /\ s.items = Slice(q, r) /\ s.owed = ToSet(q)
  BY SelectRequest
<1>3. Len(q) = Cardinality(Matching(r.form))
  BY MatchingIds, OrderedFacts
<1>4. s.quiet => s.count = Len(q)
  <2>1. CASE r.form.sla_state # None
    BY <1>2, <2>1 DEF total_count
  <2>2. CASE r.form.sla_state = None /\ s.quiet
    <3>1. r.count = Cardinality(Counted(rows, r.form))
      BY <1>1, <2>2 DEF CountsOk, CountOk
    <3>2. Matching(r.form) = Counted(rows, r.form)
      BY <2>2 DEF Matching, Stored, Where, Counted
    <3>3. QED
      BY <1>2, <1>3, <2>2, <3>1, <3>2 DEF total_count
  <2>3. QED
    BY <2>1, <2>2
<1>5. QED
  BY <1>2, <1>4

\* A page adds to what was seen: when all rows before it that are owed were, then so are
\* all up to its end.
LEMMA SliceReached ==
  ASSUME Types, NEW r \in Request, NEW q \in Ordered(Matching(r.form), r.form),
         NEW owed, NEW seen, NEW all,
         r.form.sort_by = "created_at" =>
           /\ owed \subseteq Matching(r.form)
           /\ \A i \in owed \ seen :
                Alone(i, r.form) => Cardinality(Earlier(i, r.form)) >= offset(r),
         all => r.page * r.size >= Len(q)
  PROVE  Reached(r.form, owed, seen \cup ToSet(Slice(q, r)), r.page * r.size, all)
<1>1. SUFFICES ASSUME r.form.sort_by = "created_at"
               PROVE  Reached(r.form, owed, seen \cup ToSet(Slice(q, r)), r.page * r.size, all)
  BY DEF Reached
<1>2. r.page \in Nat \ {0} /\ r.size \in Sizes
  BY DEF Request
<1>3. offset(r) \in Nat /\ r.page * r.size \in Nat
  BY <1>2, Offsets
<1>4. Len(q) \in Nat
  BY MatchingIds, OrderedFacts
<1> DEFINE e == r.page * r.size
<1>5. e \in Nat /\ (all => e >= Len(q))
  BY <1>3
<1> HIDE DEF e
<1>6. ASSUME NEW i \in owed \ (seen \cup ToSet(Slice(q, r))), Alone(i, r.form)
      PROVE  Cardinality(Earlier(i, r.form)) >= e /\ ~all
  <2> DEFINE place == Cardinality(Earlier(i, r.form))
  <2>1. i \in Matching(r.form) /\ place >= offset(r)
    BY <1>1, <1>6
  <2>2. place \in Nat /\ place < Len(q) /\ (place < offset(r) \/ place >= e)
    BY <1>1, <1>2, <1>6, <2>1, SliceComplete DEF e
  <2> HIDE DEF place
  <2>3. place >= e
    BY <1>3, <2>1, <2>2
  <2>4. ~all
    BY <1>4, <1>5, <2>2, <2>3
  <2>5. QED
    BY <2>3, <2>4 DEF place
<1>7. QED
  BY <1>1, <1>6 DEF Reached, e

\* The select: the page goes on where the walk is, or is the first.
LEMMA SelectWalk ==
  ASSUME Types, CountsOk, AnswersOk, WalkOk, NEW n \in DOMAIN requests, Select(n)
  PROVE  AnswersOk' /\ WalkOk'
<1> DEFINE r == requests[n]
           s == requests'[n]
<1>1. UNCHANGED <<rows, shown, walk>>
  BY DEF Select
<1>2. WalkOk'
  BY <1>1, ReachedKept, WalkNumbers DEF WalkOk
<1>3. /\ r \in Request /\ s.form = r.form /\ s.page = r.page /\ s.size = r.size
      /\ s.from = r.from /\ Only(n)
  BY SelectRequest
<1>4. PICK q \in Ordered(Matching(r.form), r.form) :
        s.items = Slice(q, r) /\ s.owed = ToSet(q) /\ (s.quiet => s.count = Len(q))
  BY SelectAgrees
<1> DEFINE all == s.quiet /\ s.page * s.size >= s.count
<1>5. all => r.page * r.size >= Len(q)
  BY <1>3, <1>4
<1>6. r.page * r.size \in Nat /\ r.page \in Nat \ {0} /\ r.size \in Sizes
  BY <1>3, WalkNumbers DEF Request
<1>7. ToSet(q) = Matching(r.form) /\ Matching(r.form) \in SUBSET Ids
  BY MatchingIds, OrderedFacts
<1>8. \A i \in Matching(r.form) : Cardinality(Earlier(i, r.form)) \in Nat
  <2>1. \A i : Earlier(i, r.form) \subseteq Matching(r.form)
    BY DEF Earlier
  <2>2. QED
    BY <2>1, MatchingIds, FS_Subset, FS_CardinalityType
<1>9. ASSUME r.page = 1
      PROVE  Reached(r.form, s.owed, ToSet(s.items), r.page * r.size, all)
  <2>1. offset(r) = 0
    <3>1. r.size \in Nat
      BY <1>6, FormsAssumption
    <3>2. offset(r) = 0 * r.size
      BY <1>9 DEF offset
    <3>3. \A k \in Nat : 0 * k = 0
      OBVIOUS
    <3>4. QED
      BY <3>1, <3>2, <3>3
  <2>2. Reached(r.form, ToSet(q), {} \cup ToSet(Slice(q, r)), r.page * r.size, all)
    <3> HIDE DEF all, r
    <3>1. \A i \in ToSet(q) \ {} : Cardinality(Earlier(i, r.form)) >= offset(r)
      BY <1>7, <1>8, <2>1
    <3>2. ToSet(q) \subseteq Matching(r.form)
      BY <1>7
    <3>3. QED
      BY <1>3, <1>5, <3>1, <3>2, SliceReached
  <2>3. {} \cup ToSet(Slice(q, r)) = ToSet(Slice(q, r))
    OBVIOUS
  <2>4. QED
    BY <1>4, <2>2, <2>3
<1>10. ASSUME GoesOn(r)
       PROVE  Reached(r.form, walk.owed, walk.seen \cup ToSet(s.items), r.page * r.size, all)
  <2>1. walk # None /\ r.form = walk.form /\ r.size = walk.size /\ r.page = walk.page + 1
    BY <1>10 DEF GoesOn
  <2>2. walk \in Walk
    BY <2>1 DEF Types
  <2>3. walk.page * walk.size = offset(r)
    <3>1. r.page - 1 = walk.page
      BY <2>1, <2>2 DEF Walk
    <3>2. QED
      BY <2>1, <3>1 DEF offset
  <2>4. r.form.sort_by = "created_at" =>
          /\ walk.owed \subseteq Matching(r.form)
          /\ \A i \in walk.owed \ walk.seen :
               Alone(i, r.form) => Cardinality(Earlier(i, r.form)) >= offset(r)
    BY <2>1, <2>3 DEF WalkOk, Reached
  <2>5. Reached(r.form, walk.owed, walk.seen \cup ToSet(Slice(q, r)), r.page * r.size, all)
    BY <1>3, <1>5, <2>4, SliceReached
  <2>6. QED
    BY <1>4, <2>5
<1> HIDE DEF all
<1>11. AnswerOk(requests[n])'
  BY <1>1, <1>3, <1>6, <1>9, <1>10, ReachedKept DEF AnswerOk, GoesOn, all
<1>12. ASSUME NEW m \in DOMAIN requests, m # n, requests[m] # Done
       PROVE  AnswerOk(requests[m])'
  <2> DEFINE t == requests[m]
             full == t.quiet /\ t.page * t.size >= t.count
  <2>1. requests'[m] = t /\ t \in Request /\ AnswerOk(t) /\ t.page * t.size \in Nat
    BY <1>3, <1>12, RequestsKnown, WalkNumbers DEF Only, AnswersOk
  <2>2. t.pc = "answered" /\ t.steady =>
          /\ t.page = 1 => Reached(t.form, t.owed, ToSet(t.items), t.page * t.size, full)
          /\ GoesOn(t) =>
               Reached(t.form, walk.owed, walk.seen \cup ToSet(t.items), t.page * t.size, full)
    BY <2>1 DEF AnswerOk
  <2>3. QED
    BY <1>1, <2>1, <2>2, ReachedKept DEF AnswerOk, GoesOn
<1>13. QED
  BY <1>2, <1>3, <1>11, <1>12 DEF AnswersOk, Only

\* The answer that arrives takes the walk on, begins or ends it, and what is asked for from
\* an earlier answer does not go on with it.
LEMMA ReceiveWalk ==
  ASSUME Types, FromShown, AnswersOk, WalkOk, NEW n \in DOMAIN requests, Receive(n)
  PROVE  AnswersOk' /\ WalkOk'
<1> DEFINE r == requests[n]
           all == r.quiet /\ r.page * r.size >= r.count
<1>1. UNCHANGED rows /\ shown'.n = n /\ walk' = Walked(r) /\ r.pc = "answered"
  BY DEF Receive
<1>2. Only(n) /\ requests'[n] = Done /\ r # Done /\ r \in Request
  BY DoneRequest
<1>3. r.page * r.size \in Nat
  BY <1>2, WalkNumbers
<1>4. r.steady =>
        /\ r.page = 1 => Reached(r.form, r.owed, ToSet(r.items), r.page * r.size, all)
        /\ GoesOn(r) =>
             Reached(r.form, walk.owed, walk.seen \cup ToSet(r.items), r.page * r.size, all)
  BY <1>1, <1>2 DEF AnswersOk, AnswerOk
<1>5. WalkOk'
  <2>1. SUFFICES ASSUME walk' # None
                 PROVE  WalkOk'
    BY DEF WalkOk
  <2>2. r.steady
    BY <1>1, <2>1 DEF Walked
  <2>3. /\ walk'.form = r.form /\ walk'.size = r.size /\ walk'.page = r.page
        /\ walk'.count = r.count /\ walk'.quiet = r.quiet
        /\ Reached(r.form, walk'.owed, walk'.seen, r.page * r.size, all)
    <3>1. CASE r.page = 1
      <4>1. walk' = [form |-> r.form, size |-> r.size, page |-> 1, count |-> r.count,
                     quiet |-> r.quiet, owed |-> r.owed, seen |-> ToSet(r.items)]
        BY <1>1, <2>2, <3>1 DEF Walked
      <4> HIDE DEF all, r
      <4>2. QED
        BY <1>4, <2>2, <3>1, <4>1
    <3>2. CASE r.page # 1
      <4>1. GoesOn(r)
        BY <1>1, <2>1, <2>2, <3>2 DEF Walked, GoesOn
      <4>2. walk' = [walk EXCEPT !.page = r.page, !.count = r.count, !.quiet = r.quiet,
                                 !.seen = @ \cup ToSet(r.items)]
        BY <1>1, <2>1, <2>2, <3>2 DEF Walked
      <4>3. walk \in Walk /\ r.form = walk.form /\ r.size = walk.size
        BY <4>1 DEF GoesOn, Types
      <4>4. /\ walk'.form = walk.form /\ walk'.size = walk.size /\ walk'.page = r.page
            /\ walk'.count = r.count /\ walk'.quiet = r.quiet /\ walk'.owed = walk.owed
            /\ walk'.seen = walk.seen \cup ToSet(r.items)
        BY <4>2, <4>3 DEF Walk
      <4> HIDE DEF all, r
      <4>5. QED
        BY <1>4, <2>2, <4>1, <4>3, <4>4
    <3>3. QED
      BY <3>1, <3>2
  <2>4. Reached(r.form, walk'.owed, walk'.seen, r.page * r.size, all)
    BY <2>3
  <2>5. QED
    BY <1>1, <1>3, <2>3, ReachedKept DEF WalkOk
<1>6. ASSUME NEW m \in DOMAIN requests', requests'[m] # Done
      PROVE  AnswerOk(requests[m])'
  <2> DEFINE t == requests[m]
             full == t.quiet /\ t.page * t.size >= t.count
  <2>1. m \in DOMAIN requests /\ requests'[m] = t /\ t # Done
    BY <1>2, <1>6 DEF Only
  <2>2. t \in Request /\ AnswerOk(t) /\ t.page * t.size \in Nat
    BY <2>1, RequestsKnown, WalkNumbers DEF AnswersOk
  <2>3. t.from # n
    <3>1. n # 0
      BY RequestsKnown
    <3>2. QED
      BY <1>2, <2>1, <3>1 DEF FromShown
  <2>4. t.pc = "answered" /\ t.steady /\ t.page = 1 =>
          Reached(t.form, t.owed, ToSet(t.items), t.page * t.size, full)
    BY <2>2 DEF AnswerOk
  <2>5. QED
    BY <1>1, <2>1, <2>2, <2>3, <2>4, ReachedKept DEF AnswerOk, GoesOn
<1>7. QED
  BY <1>5, <1>6 DEF AnswersOk

-----------------------------------------------------------------------------
(***************************************************************************)
(* The inductive invariant and what follows from it.                       *)
(***************************************************************************)
LInv ==
  /\ Types /\ FromShown /\ CountsOk /\ CountFitsPage
  /\ InStep /\ LastSettled /\ AnswersOk /\ WalkOk

\* The component opens with a link, and asks for what that says.
LEMMA ListInit == Init => LInv
<1> SUFFICES ASSUME Init
             PROVE  LInv
  OBVIOUS
<1> DEFINE r == Asked(form, page, pageSize, FALSE, 0)
<1>1. /\ form = url.form /\ page = url.page /\ pageSize = url.size
      /\ requests = IF Throws(form) THEN << >> ELSE <<r>>
      /\ emitted = None /\ ~typing /\ ~ahead /\ walk = None
      /\ typing \in BOOLEAN /\ ahead \in BOOLEAN
      /\ listening = ~Throws(form) /\ listening \in BOOLEAN
      /\ shown = [n |-> 0, form |-> form, page |-> page, size |-> pageSize, early |-> FALSE,
                  count |-> 0, items |-> << >>, quiet |-> TRUE]
  BY DEF Init
<1>2. /\ url \in [form: Form, page: Nat, size: Sizes]
      /\ url.form \in Form /\ url.page \in Nat /\ url.size \in Sizes /\ url.size \in Nat \ {0}
  BY FormsAssumption DEF Init, Address
<1>3. << >> \in Seq(Ids) /\ Len(<< >>) = 0 /\ {} \in SUBSET Ids
  OBVIOUS
<1>4. /\ r.pc = "sent" /\ r.form = form /\ r.page - 1 = page /\ r.size = pageSize
      /\ r.early = FALSE /\ r.from = 0 /\ r # Done /\ r \in Request
  BY <1>1, <1>2, <1>3 DEF Asked, Done, Request
<1> HIDE DEF r
<1>5. /\ requests \in Seq(Request \cup {Done})
      /\ \A n \in DOMAIN requests : requests[n] = r
      /\ listening => Len(requests) = 1 /\ requests[1] = r
  <2>1. CASE Throws(form)
    BY <1>1, <2>1
  <2>2. CASE ~Throws(form)
    BY <1>1, <1>4, <2>2
  <2>3. QED
    BY <2>1, <2>2
<1>6. Types
  <2>1. rows \in Seq(Row \cup {Gone}) /\ Len(rows) <= MaxRows
    BY SeedsAssumption DEF Init
  <2>2. shown \in Answer
    BY <1>1, <1>2, <1>3 DEF Answer
  <2>3. QED
    BY <1>1, <1>2, <1>5, <2>1, <2>2 DEF Types
<1>7. FromShown
  BY <1>1, <1>4, <1>5 DEF FromShown
<1>8. CountsOk /\ AnswersOk /\ WalkOk
  BY <1>1, <1>4, <1>5 DEF CountsOk, CountOk, AnswersOk, AnswerOk, WalkOk
<1>9. CountFitsPage
  <2>1. Least(shown.page * shown.size, 0) = 0
    <3>1. shown.page * shown.size \in Nat
      <4>1. \A p, s \in Nat : p * s \in Nat
        OBVIOUS
      <4>2. QED
        BY <1>1, <1>2, <4>1
    <3>2. QED
      BY <3>1 DEF Least
  <2>2. Least(shown.size, 0 - 0) = 0
    BY <1>1, <1>2 DEF Least
  <2>3. QED
    BY <1>1, <1>3, <2>1, <2>2 DEF CountFitsPage
<1>10. InStep /\ LastSettled
  BY <1>1, <1>4, <1>5 DEF InStep, LastSettled, Settled
<1>11. QED
  BY <1>6, <1>7, <1>8, <1>9, <1>10 DEF LInv

\* The commits of others.
LEMMA CommitStep ==
  ASSUME LInv, CreateIncident \/ \E i \in Stored :
                 UpdateIncidentStatus(i) \/ DeadlinePasses(i) \/ DeleteIncident(i)
  PROVE  LInv'
<1>1. PICK steady \in BOOLEAN :
        Commit(steady) /\ Types' /\ AnswersOk' /\ WalkOk'
  <2>1. CASE CreateIncident
    BY <2>1, CreateTypes, CreateWalk DEF CreateIncident, LInv
  <2>2. ASSUME NEW i \in Stored,
               UpdateIncidentStatus(i) \/ DeadlinePasses(i) \/ DeleteIncident(i)
        PROVE  Commit(FALSE) /\ Types' /\ AnswersOk' /\ WalkOk'
    BY <2>2, ChangeTypes, ChangeWalk DEF LInv
  <2>3. QED
    BY <2>1, <2>2
<1>2. FromShown' /\ CountsOk'
  BY <1>1, CommitCounts DEF LInv
<1>3. UNCHANGED <<component, shown>>
  BY <1>1 DEF Commit
<1>4. CountFitsPage'
  BY <1>3 DEF LInv, CountFitsPage
<1>5. InStep' /\ LastSettled'
  <2>1. listening => Len(requests) \in DOMAIN requests
    BY RequestsKnown DEF LInv, LastSettled
  <2>2. QED
    BY <1>1, <1>3, <2>1, CommitRequests, ServedLink DEF LInv
<1>6. QED
  BY <1>1, <1>2, <1>4, <1>5 DEF LInv

\* What leaves rows, requests and answers alone.
LEMMA FormStep ==
  ASSUME LInv, UNCHANGED <<rows, requests, shown, walk>>, Types', InStep', LastSettled'
  PROVE  LInv'
<1>1. FromShown' /\ CountFitsPage'
  BY DEF LInv, FromShown, CountFitsPage
<1>2. CountsOk'
  BY DEF LInv, CountsOk, CountOk
<1>3. AnswersOk' /\ WalkOk'
  <2>1. \A n \in DOMAIN requests' : n \in DOMAIN requests /\ requests'[n] = requests[n]
    OBVIOUS
  <2>2. QED
    BY <2>1, WalkKept DEF LInv
<1>4. QED
  BY <1>1, <1>2, <1>3 DEF LInv

\* A request for a page, or the error instead.
LEMMA LoadStep ==
  ASSUME LInv, NEW p \in Nat, NEW size \in Sizes, NEW early \in BOOLEAN,
         loadIncidents(p, size, early), Types', InStep', LastSettled'
  PROVE  LInv'
<1>1. CASE Throws(form)
  <2>1. UNCHANGED <<rows, requests, shown, walk>>
    BY <1>1 DEF loadIncidents
  <2>2. QED
    BY <2>1, FormStep
<1>2. CASE ~Throws(form)
  <2>1. FromShown' /\ CountsOk'
    BY <1>2, LoadCounts DEF LInv
  <2>2. AnswersOk' /\ WalkOk'
    BY <1>2, LoadWalk DEF LInv
  <2>3. CountFitsPage'
    BY DEF LInv, CountFitsPage, loadIncidents
  <2>4. QED
    BY <2>1, <2>2, <2>3 DEF LInv
<1>3. QED
  BY <1>1, <1>2

\* The user types.
LEMMA TypeStep ==
  ASSUME LInv, NEW f \in Forms, NEW g \in {f, [f EXCEPT !.created_after = form.created_after]},
         Type(g)
  PROVE  LInv'
<1>1. UNCHANGED <<rows, requests, listening, ahead, url, page, pageSize, shown, walk>>
  BY DEF Type
<1>2. f \in Form /\ ~Throws(f) /\ form \in Form /\ (listening => ~Throws(form))
  BY FormsAssumption DEF LInv, Types, InStep
<1>3. g \in Form /\ (listening => ~Throws(g))
  BY <1>2 DEF Form, Throws
<1>4. form' \in Form /\ typing' \in BOOLEAN
  BY <1>3 DEF Type, LInv, Types
<1>5. Types'
  BY <1>1, <1>4 DEF LInv, Types
<1>6. QED
  BY <1>1, <1>3, <1>5, TypeLink, FormStep DEF LInv

\* debounceTime is over.
LEMMA FilterStep ==
  ASSUME LInv, FilterChanged
  PROVE  LInv'
<1>1. InStep' /\ LastSettled'
  BY FilterLink DEF LInv
<1>2. typing' \in BOOLEAN
  BY DEF FilterChanged
<1>3. CASE form = emitted
  <2>1. UNCHANGED <<rows, requests, listening, form, ahead, url, page, pageSize, shown, walk>>
    BY <1>3 DEF FilterChanged
  <2>2. Types'
    BY <1>2, <2>1 DEF LInv, Types, Stored
  <2>3. QED
    BY <1>1, <2>1, <2>2, FormStep
<1>4. CASE form # emitted
  <2>1. ahead' \in BOOLEAN /\ syncUrlAndLoad(0, pageSize, FALSE)
    BY <1>4 DEF FilterChanged
  <2>2. loadIncidents(0, pageSize, FALSE)
    BY <2>1 DEF syncUrlAndLoad
  <2>3. Types /\ pageSize \in Sizes /\ 0 \in Nat /\ FALSE \in BOOLEAN
    BY DEF LInv, Types
  <2>4. Types'
    BY <1>2, <2>1, <2>3, TurnedTypes
  <2>5. QED
    BY <1>1, <2>2, <2>3, <2>4, LoadStep
<1>5. QED
  BY <1>3, <1>4

\* The user turns a page.
LEMMA TurnStep ==
  ASSUME LInv, onPageChange
  PROVE  LInv'
<1>1. PICK turn \in Turns : syncUrlAndLoad(turn[1], turn[2], typing)
  BY DEF onPageChange
<1>2. Types /\ turn[1] \in Nat /\ turn[2] \in Sizes /\ typing \in BOOLEAN
  BY TurnTypes DEF LInv, Types
<1>3. ahead' = (ahead \/ typing) /\ UNCHANGED <<typing, emitted>> /\ ahead' \in BOOLEAN
  BY DEF onPageChange
<1>4. Types'
  BY <1>1, <1>2, <1>3, TurnedTypes
<1>5. InStep' /\ LastSettled'
  BY <1>1, <1>3, TurnLink DEF LInv
<1>6. loadIncidents(turn[1], turn[2], typing)
  BY <1>1 DEF syncUrlAndLoad
<1>7. QED
  BY <1>2, <1>4, <1>5, <1>6, LoadStep

\* The list is loaded again.
LEMMA ReloadStep ==
  ASSUME LInv, Reload
  PROVE  LInv'
<1>1. InStep' /\ LastSettled'
  BY ReloadLink DEF LInv
<1>2. loadIncidents(page, pageSize, typing) /\ UNCHANGED <<typing, ahead, url, page, pageSize>>
  BY DEF Reload
<1>3. Types /\ page \in Nat /\ pageSize \in Sizes /\ typing \in BOOLEAN
  BY DEF LInv, Types
<1>4. Types'
  BY <1>2, <1>3, LoadTypes DEF Types
<1>5. QED
  BY <1>1, <1>2, <1>3, <1>4, LoadStep

\* What the server does with a request, except that its answer arrives.
LEMMA ServerStep ==
  ASSUME LInv, NEW n \in DOMAIN requests, Count(n) \/ Select(n) \/ Fail(n)
  PROVE  LInv'
<1>1. UNCHANGED <<rows, component, shown, walk>>
  BY DEF Count, Select, Fail
<1>2. Types /\ requests[n] # Done
  <2>1. requests[n].pc # "done"
    BY DEF Count, Select, Fail
  <2>2. QED
    BY <2>1 DEF LInv, Done
<1>3. /\ Only(n) /\ requests' \in Seq(Request \cup {Done})
      /\ requests'[n] # Done =>
           LET r == requests[n]
               s == requests'[n]
           IN  /\ r # Done /\ s.form = r.form /\ s.page = r.page /\ s.size = r.size
               /\ s.early = r.early
  <2>1. CASE Count(n)
    BY <1>2, <2>1, CountRequest
  <2>2. CASE Select(n)
    BY <1>2, <2>2, SelectRequest
  <2>3. CASE Fail(n)
    BY <1>2, <2>3, DoneRequest
  <2>4. QED
    BY <2>1, <2>2, <2>3
<1>4. Types'
  BY <1>1, <1>2, <1>3 DEF Types, Stored, component
<1>5. FromShown' /\ CountsOk'
  BY CountCounts, SelectCounts, DoneCounts DEF LInv
<1>6. CountFitsPage'
  BY <1>1 DEF LInv, CountFitsPage
<1>7. InStep' /\ LastSettled'
  <2>1. (listening => Len(requests) \in DOMAIN requests) /\ Len(requests') = Len(requests)
    BY <1>3, RequestsKnown DEF LInv, LastSettled, Only
  <2>2. \A m \in DOMAIN requests : m # n => requests'[m] = requests[m]
    BY <1>3 DEF Only
  <2>3. QED
    BY <1>1, <1>3, <2>1, <2>2, ServedLink DEF LInv
<1>8. AnswersOk' /\ WalkOk'
  BY OnlyWalk, SelectWalk DEF LInv
<1>9. QED
  BY <1>4, <1>5, <1>6, <1>7, <1>8 DEF LInv

\* An answer arrives.
LEMMA ReceiveStep ==
  ASSUME LInv, NEW n \in DOMAIN requests, Receive(n)
  PROVE  LInv'
<1>1. Types' /\ FromShown' /\ CountsOk'
  BY ReceiveTypes, DoneCounts DEF LInv
<1>2. InStep' /\ LastSettled' /\ AnswersOk' /\ WalkOk'
  BY ReceivedLink, ReceiveWalk DEF LInv
<1>3. CountFitsPage'
  <2> DEFINE r == requests[n]
  <2>1. /\ shown'.quiet = r.quiet /\ shown'.items = r.items /\ shown'.page = r.page - 1
        /\ shown'.size = r.size /\ shown'.count = r.count /\ r.pc = "answered"
    BY DEF Receive
  <2>2. r # Done
    BY DoneRequest DEF LInv
  <2>3. r.quiet => Len(r.items) = OnPage(r.page - 1, r.size, r.count)
    BY <2>1, <2>2 DEF LInv, CountsOk, CountOk
  <2> HIDE DEF r
  <2>4. QED
    BY <2>1, <2>3 DEF CountFitsPage, OnPage
<1>4. QED
  BY <1>1, <1>2, <1>3 DEF LInv

\* Every step keeps the invariant.
LEMMA ListStep == LInv /\ [Next]_vars => LInv'
<1> SUFFICES ASSUME LInv, [Next]_vars
             PROVE  LInv'
  OBVIOUS
<1>1. CASE CreateIncident \/ \E i \in Stored :
             UpdateIncidentStatus(i) \/ DeadlinePasses(i) \/ DeleteIncident(i)
  BY <1>1, CommitStep
<1>2. CASE \E f \in Forms : Type(f) \/ Type([f EXCEPT !.created_after = form.created_after])
  BY <1>2, TypeStep
<1>3. CASE FilterChanged
  BY <1>3, FilterStep
<1>4. CASE onPageChange
  BY <1>4, TurnStep
<1>5. CASE Reload
  BY <1>5, ReloadStep
<1>6. CASE \E n \in 1..MaxRequests : Serve(n)
  BY <1>6, ServerStep, ReceiveStep DEF Serve
<1>7. CASE UNCHANGED vars
  <2>1. UNCHANGED <<rows, requests, listening, form, typing, emitted, ahead, url, page,
                    pageSize, shown, walk>>
    BY <1>7 DEF vars, component
  <2>2. Types'
    BY <2>1 DEF LInv, Types, Stored
  <2>3. InStep' /\ LastSettled'
    BY <2>1 DEF LInv, InStep, LastSettled, Settled
  <2>4. QED
    BY <2>1, <2>2, <2>3, FormStep
<1>8. QED
  BY <1>1, <1>2, <1>3, <1>4, <1>5, <1>6, <1>7 DEF Next

\* The invariant holds.
LEMMA ListInvariant == Spec => []LInv
<1>1. QED
  BY ListInit, ListStep, PTL DEF Spec

\* The page shown is as long as the total above it says, unless somebody commits between
\* ListIncidents' two statements, and with an SLA filter always.
THEOREM PagesFit == Spec => []CountFitsPage
<1>1. LInv => CountFitsPage
  BY DEF LInv
<1>2. QED
  BY <1>1, ListInvariant, PTL

\* A settled list is what its link recreates, wherever the user has been before and in
\* whatever order answers arrived, but for the four cases that ViewIsLinked names.
THEOREM ViewLinked == Spec => []ViewIsLinked
<1>1. LInv => ViewIsLinked
  <2> SUFFICES ASSUME LInv, listening, ~typing, ~ahead, shown.n = Len(requests), ~shown.early
               PROVE  /\ url = [form |-> shown.form, page |-> shown.page, size |-> shown.size]
                      /\ form = url.form
    BY DEF ViewIsLinked
  <2>1. shown.page = page /\ shown.size = pageSize /\ shown.form = url.form /\ form = shown.form
    BY DEF LInv, LastSettled, Settled
  <2>2. url.page = page /\ url.size = pageSize /\ url \in [form: Form, page: Nat, size: Sizes]
    BY DEF LInv, InStep, Types
  <2>3. QED
    BY <2>1, <2>2
<1>2. QED
  BY <1>1, ListInvariant, PTL

\* Nothing that a list by created_at had at the start is skipped by who walks through its
\* pages, whatever is created meanwhile, however long the list and its pages are, but what
\* was created at the same time as another.
THEOREM WalkComplete == Spec => []NothingSkipped
<1>1. LInv => NothingSkipped
  <2> SUFFICES ASSUME LInv, walk # None, walk.form.sort_by = "created_at", walk.quiet,
                      walk.page * walk.size >= walk.count,
                      NEW i \in walk.owed \ walk.seen
               PROVE  \E j \in Matching(walk.form) \ {i} : rows[j].created_at = rows[i].created_at
    BY DEF NothingSkipped
  <2>1. ~Alone(i, walk.form)
    BY DEF LInv, WalkOk, Reached
  <2>2. QED
    BY <2>1 DEF Alone
<1>2. QED
  BY <1>1, ListInvariant, PTL
=============================================================================
