-------------------------- MODULE BookmarksProofs --------------------------
(***************************************************************************)
(* Theorems about Bookmarks, for any readers, pages, capacities and        *)
(* interleavings: a bookmark covers everything it promises, a boundary has *)
(* one anchor, a chain keeps its scope and live bookmarks stay.            *)
(***************************************************************************)
EXTENDS Bookmarks, FiniteSetTheorems, WellFoundedInduction, TLAPS

(***************************************************************************)
(* Pages.                                                                  *)
(***************************************************************************)

\* The number of pages is the quotient rounded up.
LEMMA RoundedUp ==
  ASSUME NEW n \in Nat, NEW k \in Nat \ {0}
  PROVE  LET q == (n + k - 1) \div k
         IN  q \in Nat /\ n <= q * k /\ q * k < n + k
<1> DEFINE q == (n + k - 1) \div k
<1> DEFINE r == (n + k - 1) % k
<1>1. q \in Nat
  OBVIOUS
<1>2. n + k - 1 = k * q + r /\ r \in 0..(k - 1)
  OBVIOUS
<1>3. k * q = q * k
  BY <1>1
<1> QED
  BY <1>1, <1>2, <1>3

\* A page that does not show the last item is not the last page.
LEMMA AnotherPage ==
  ASSUME NEW n \in Nat, NEW k \in Nat \ {0}, NEW p \in Nat, p * k < n
  PROVE  p + 1 <= (n + k - 1) \div k
<1> DEFINE q == (n + k - 1) \div k
<1>1. q \in Nat /\ n <= q * k
  BY RoundedUp
<1> HIDE DEF q
<1>2. p * k \in Nat /\ q * k \in Nat
  BY <1>1
<1>3. q * k >= p * k + 1
  BY <1>1, <1>2
<1>4. p + 1 <= q
  <2>1. \A m \in Nat : m * k >= p * k + 1 => p + 1 <= m
    OBVIOUS
  <2> QED
    BY <1>1, <1>3, <2>1
<1> QED
  BY <1>4 DEF q

\* Every item is on one of the pages.
LEMMA OnSomePage ==
  ASSUME NEW n \in Nat, NEW k \in Nat \ {0}, NEW i \in 1..n
  PROVE  \E p \in 1..((n + k - 1) \div k) : (p - 1) * k < i /\ i <= p * k
<1> DEFINE p == (i + k - 1) \div k
<1>0. i \in Nat /\ i <= n
  OBVIOUS
<1>1. p \in Nat /\ i <= p * k /\ p * k < i + k
  BY <1>0, RoundedUp
<1> HIDE DEF p
<1>2. p # 0
  BY <1>1
<1>3. p \in Nat \ {0} /\ (p - 1) * k = p * k - k
  BY <1>1, <1>2
<1>4. (p - 1) * k < i
  BY <1>1, <1>3
<1>5. p - 1 \in Nat /\ (p - 1) * k < n
  BY <1>3, <1>4
<1>6. (p - 1) + 1 <= (n + k - 1) \div k
  BY <1>5, AnotherPage
<1>7. (n + k - 1) \div k \in Nat
  BY RoundedUp
<1>8. p \in 1..((n + k - 1) \div k)
  BY <1>3, <1>6, <1>7
<1> QED
  BY <1>1, <1>4, <1>8

\* A set of page numbers as large as the number of pages holds them all.
LEMMA AllPages ==
  ASSUME NEW n \in Nat, NEW P \in SUBSET (1..n), Cardinality(P) = n
  PROVE  P = 1..n
<1>1. IsFiniteSet(1..n) /\ Cardinality(1..n) = n
  BY FS_Interval
<1> QED
  BY <1>1, FS_Subset

\* Numbers have a least one: what the clean-up chooses exists.
LEMMA LeastOf ==
  ASSUME NEW S \in SUBSET Nat, S # {}
  PROVE  \E x \in S : \A y \in S : x <= y
<1> DEFINE R == {ss \in Nat \X Nat : ss[1] < ss[2]}
<1>1. IsWellFoundedOn(R, Nat)
  BY NatLessThanWellFounded DEF OpToRel
<1>2. \E x \in S : \A y \in S : ~ (<<y, x>> \in R)
  BY <1>1, WFMin
<1>3. PICK x \in S : \A y \in S : ~ (<<y, x>> \in R)
  BY <1>2
<1>4. \A y \in S : x \in Nat /\ y \in Nat /\ ~ (y < x)
  BY <1>3
<1> QED
  BY <1>4

\* The clean-up takes expired rows only, and changes none.
LEMMA CleanedKeeps ==
  ASSUME NEW rows, NEW upTo, DOMAIN rows \subseteq Nat
  PROVE  /\ DOMAIN Cleaned(rows, upTo) \subseteq DOMAIN rows
         /\ \A x \in DOMAIN Cleaned(rows, upTo) : Cleaned(rows, upTo)[x] = rows[x]
         /\ \A x \in DOMAIN rows : ~ (x <= upTo) => x \in DOMAIN Cleaned(rows, upTo)
<1> DEFINE old == {x \in DOMAIN rows : x <= upTo}
<1>1. CASE old = {}
  BY <1>1 DEF Cleaned
<1>2. CASE old # {}
  <2> DEFINE first == CHOOSE x \in old : \A y \in old : x <= y
  <2>1. first \in old
    BY <1>2, LeastOf
  <2>2. Cleaned(rows, upTo) = Without(rows, first)
    BY <1>2 DEF Cleaned
  <2> HIDE DEF first
  <2> QED
    BY <2>1, <2>2 DEF Without
<1> QED
  BY <1>1, <1>2

(***************************************************************************)
(* The inductive invariant.                                                *)
(***************************************************************************)

SessionRows ==
  [caller : Callers, filter : Filters, limit : Limits, parent : Nat \cup {None},
   lower : Nat, watermark : Nat, items : UNION {[1..n -> Nat] : n \in Nat},
   cursors : SUBSET Nat, complete : SUBSET Nat, scoped : BOOLEAN]

BookmarkRows ==
  [caller : Callers, filter : Filters, watermark : Nat, parent : Nat \cup {None},
   session : Nat]

Frames ==
  [caller : Callers, filter : Filters, limit : Limits, parent : Nat \cup {None},
   lower : Nat, coverage : BOOLEAN]

Works ==
  [at : {"idle"}] \cup [at : {"capture"}, frame : Frames]
    \cup [at : {"scope", "read", "issue"}, session : Nat]
    \cup [at : {"mark"}, session : Nat, page : Nat, partial : BOOLEAN]

Shape ==
  /\ history \in Seq([incident : Incidents, state : States])
  /\ floor \in 0..Len(history)
  /\ captured \in Nat /\ lapsed \in 0..captured
  /\ issued \in Nat /\ elapsed \in 0..issued
  /\ sessions \in [DOMAIN sessions -> SessionRows] /\ DOMAIN sessions \subseteq 1..captured
  /\ bookmarks \in [DOMAIN bookmarks -> BookmarkRows]
  /\ DOMAIN bookmarks \subseteq 1..issued
  /\ work \in [Workers -> Works]

\* The reader has seen what passes the filter, as it stood at w.
Promised(reader, f, w) == \A r \in Rows(f, 0, w) : <<reader, r>> \in served

\* A reading, x, goes on where its parent's promise ends.
Rooted(x) ==
  /\ x.lower \in 0..Len(history)
  /\ x.parent \in 1..issued \cup {None}
  /\ x.parent \in DOMAIN bookmarks =>
       LET a == bookmarks[x.parent]
       IN  /\ a.caller.reader = x.caller.reader /\ a.caller.policy = x.caller.policy
           /\ a.filter = x.filter /\ a.watermark = x.lower
  /\ Promised(x.caller.reader, x.filter, x.lower)

Shown(s, p) == \A r \in PageItems(s, p) : <<sessions[s].caller.reader, r>> \in served

\* A session holds the rows of its interval; a page marked complete was shown.
SessionOk(s) ==
  /\ Rooted(sessions[s])
  /\ sessions[s].watermark \in sessions[s].lower..Len(history)
  /\ DOMAIN sessions[s].items = 1..ItemCount(s) /\ ItemCount(s) \in Nat
  /\ \A r \in Rows(sessions[s].filter, sessions[s].lower, sessions[s].watermark) :
       \E i \in 1..ItemCount(s) : sessions[s].items[i] = r
  /\ sessions[s].cursors \subseteq 1..Expected(s)
  /\ sessions[s].complete \subseteq sessions[s].cursors
  /\ \A p \in sessions[s].complete : Shown(s, p)

\* A bookmark keeps its promise, and its parent's scope.
BookmarkOk(b) ==
  /\ bookmarks[b].watermark \in 0..Len(history)
  /\ bookmarks[b].session \in 1..captured
  /\ bookmarks[b].parent \in 1..issued \cup {None}
  /\ bookmarks[b].parent \in DOMAIN bookmarks =>
       LET a == bookmarks[bookmarks[b].parent]
       IN  /\ a.caller.reader = bookmarks[b].caller.reader
           /\ a.caller.policy = bookmarks[b].caller.policy
           /\ a.filter = bookmarks[b].filter /\ a.watermark <= bookmarks[b].watermark
  /\ Promised(bookmarks[b].caller.reader, bookmarks[b].filter, bookmarks[b].watermark)

WorkOk(w) ==
  /\ work[w].at = "capture" => Rooted(work[w].frame)
  /\ work[w].at \in {"scope", "read", "mark", "issue"} => work[w].session \in 1..captured
  /\ work[w].at = "mark" /\ work[w].session \in DOMAIN sessions =>
       /\ work[w].page \in sessions[work[w].session].cursors
       /\ ~work[w].partial => Shown(work[w].session, work[w].page)

SessionsOk == \A s \in DOMAIN sessions : SessionOk(s)
BookmarksOk == \A b \in DOMAIN bookmarks : BookmarkOk(b)
WorksOk == \A w \in Workers : WorkOk(w)

IInv == Shape /\ SessionsOk /\ BookmarksOk /\ WorksOk /\ OneAnchorPerBoundary

\* History is appended to, what was shown stays shown, and a row of a bookmark that
\* existed, where it is still there, is the same.
Grows ==
  /\ history' \in Seq([incident : Incidents, state : States])
  /\ Len(history) <= Len(history')
  /\ \A q \in 1..Len(history) : history'[q] = history[q]
  /\ served \subseteq served'
  /\ issued' \in Nat /\ issued <= issued' /\ DOMAIN bookmarks' \subseteq Nat
  /\ captured' \in Nat /\ captured <= captured'
  /\ \A b \in DOMAIN bookmarks' : b \in 1..issued =>
       b \in DOMAIN bookmarks /\ bookmarks'[b] = bookmarks[b]

\* What was current at a watermark stays so.
LEMMA RowsStay ==
  ASSUME Shape, Grows, NEW f, NEW l \in Nat, NEW w \in 0..Len(history)
  PROVE  Rows(f, l, w)' = Rows(f, l, w)
<1>1. Len(history) \in Nat /\ \A q \in 1..w : history'[q] = history[q]
  BY DEF Shape, Grows
<1>2. \A r \in 1..w : r \in Nat /\ \A q \in (r + 1)..w : q \in 1..w
  OBVIOUS
<1>3. \A r \in 1..w : Current(r, w)' <=> Current(r, w)
  BY <1>1, <1>2 DEF Current
<1>4. \A r \in 1..w : Matches(r, f)' <=> Matches(r, f)
  BY <1>1 DEF Matches
<1> QED
  BY <1>3, <1>4 DEF Rows

\* A promise stays kept.
LEMMA PromiseStays ==
  ASSUME Shape, Grows, NEW reader, NEW f, NEW w \in 0..Len(history), Promised(reader, f, w)
  PROVE  Promised(reader, f, w)'
BY RowsStay DEF Promised, Grows

\* A reading stays rooted: its parent's number is not given again.
LEMMA RootedStays ==
  ASSUME Shape, Grows, NEW x, Rooted(x)
  PROVE  Rooted(x)'
<1>1. x.lower \in 0..Len(history) /\ x.parent \in 1..issued \cup {None}
  BY DEF Rooted
<1>2. x.lower \in 0..Len(history') /\ x.parent \in 1..issued' \cup {None}
  BY <1>1 DEF Grows, Shape
<1>3. Promised(x.caller.reader, x.filter, x.lower)'
  BY <1>1, PromiseStays DEF Rooted
<1>4. x.parent \in DOMAIN bookmarks' =>
        x.parent \in DOMAIN bookmarks /\ bookmarks'[x.parent] = bookmarks[x.parent]
  BY <1>1, NoneAssumption DEF Grows
<1> QED
  BY <1>2, <1>3, <1>4 DEF Rooted

(***************************************************************************)
(* Every step keeps the shape and grows.                                   *)
(***************************************************************************)

\* A frozen order of rows lists each of them.
LEMMA OrdersList ==
  ASSUME NEW w \in Nat, NEW rows \in SUBSET (1..w), NEW o \in Orders(rows)
  PROVE  /\ o \in UNION {[1..n -> Nat] : n \in Nat}
         /\ Cardinality(DOMAIN o) \in Nat /\ DOMAIN o = 1..Cardinality(DOMAIN o)
         /\ \A r \in rows : \E i \in 1..Cardinality(DOMAIN o) : o[i] = r
<1> DEFINE n == Cardinality(rows)
<1>1. n \in Nat
  <2>1. IsFiniteSet(1..w)
    BY FS_Interval
  <2>2. IsFiniteSet(rows)
    BY <2>1, FS_Subset
  <2> QED
    BY <2>2, FS_CardinalityType
<1>2. o \in [1..n -> rows] /\ \A r \in rows : \E i \in DOMAIN o : o[i] = r
  BY DEF Orders
<1> HIDE DEF n
<1>3. o \in [1..n -> Nat] /\ DOMAIN o = 1..n
  <2>1. \A r \in rows : r \in Nat
    OBVIOUS
  <2> QED
    BY <1>2, <2>1
<1>4. Cardinality(1..n) = n
  BY <1>1, FS_Interval
<1> QED
  BY <1>1, <1>2, <1>3, <1>4

Clock ==
  \/ \E i \in Incidents, state \in States : Transition(i, state)
  \/ RaiseFloor \/ SessionsExpire \/ BookmarksExpire

\* The owner and the clock leave rows and requests alone.
LEMMA ClockGrows ==
  ASSUME Shape, Clock
  PROVE  /\ Shape' /\ Grows /\ elapsed <= elapsed'
         /\ UNCHANGED <<sessions, captured, bookmarks, issued, work, served>>
<1> USE DEF Shape
<1>1. CASE \E i \in Incidents, state \in States : Transition(i, state)
  <2> PICK i \in Incidents, state \in States : Transition(i, state)
    BY <1>1
  <2>1. history' = Append(history, [incident |-> i, state |-> state])
    BY DEF Transition
  <2>2. [incident |-> i, state |-> state] \in [incident : Incidents, state : States]
    OBVIOUS
  <2>3. /\ history' \in Seq([incident : Incidents, state : States])
        /\ Len(history') = Len(history) + 1 /\ Len(history) \in Nat
        /\ \A q \in 1..Len(history) : history'[q] = history[q]
    BY <2>1, <2>2
  <2>4. UNCHANGED <<floor, sessions, captured, lapsed, bookmarks, issued, elapsed, work, served>>
    BY DEF Transition
  <2>5. floor' \in 0..Len(history')
    BY <2>3, <2>4
  <2> QED
    BY <2>3, <2>4, <2>5 DEF Grows
<1>2. CASE RaiseFloor
  <2>1. floor' \in (floor + 1)..Len(history)
    BY <1>2 DEF RaiseFloor
  <2>2. floor' \in 0..Len(history)
    BY <2>1
  <2>3. UNCHANGED <<history, sessions, captured, lapsed, bookmarks, issued, elapsed, work,
                    served>>
    BY <1>2 DEF RaiseFloor
  <2> QED
    BY <2>2, <2>3 DEF Grows
<1>3. CASE SessionsExpire
  BY <1>3 DEF SessionsExpire, Grows
<1>4. CASE BookmarksExpire
  BY <1>4 DEF BookmarksExpire, Grows
<1> QED
  BY <1>1, <1>2, <1>3, <1>4 DEF Clock

\* A request that begins, by query or by a bookmark.
LEMMA BeginKeeps ==
  ASSUME Shape, NEW w \in Workers, BookmarksOk,
         \/ \E c \in Callers, f \in Filters, k \in Limits : Start(w, c, f, k)
         \/ \E c \in Callers, b \in DOMAIN bookmarks, k \in Limits : Resume(w, c, b, k)
  PROVE  /\ UNCHANGED <<history, floor, sessions, captured, lapsed, bookmarks, issued, elapsed,
                        served>>
         /\ \E frame \in Frames :
              /\ work' = [work EXCEPT ![w] = [at |-> "capture", frame |-> frame]]
              /\ Rooted(frame)
<1>1. CASE \E c \in Callers, f \in Filters, k \in Limits : Start(w, c, f, k)
  <2> PICK c \in Callers, f \in Filters, k \in Limits : Start(w, c, f, k)
    BY <1>1
  <2>1. PICK coverage \in BOOLEAN :
          work' = [work EXCEPT ![w] =
            [at |-> "capture",
             frame |-> [caller |-> c, filter |-> f, limit |-> k, parent |-> None,
                        lower |-> 0, coverage |-> coverage]]]
    BY DEF Start, Becomes
  <2> DEFINE frame == [caller |-> c, filter |-> f, limit |-> k, parent |-> None,
                       lower |-> 0, coverage |-> coverage]
  <2>2. frame \in Frames
    BY DEF Frames
  <2>3. None \notin DOMAIN bookmarks
    BY NoneAssumption DEF Shape
  <2>4. Promised(c.reader, f, 0)
    BY DEF Promised, Rows
  <2>5. Rooted(frame)
    BY <2>3, <2>4 DEF Rooted, Shape
  <2> QED
    BY <2>1, <2>2, <2>5 DEF Start
<1>2. CASE \E c \in Callers, b \in DOMAIN bookmarks, k \in Limits : Resume(w, c, b, k)
  <2> PICK c \in Callers, b \in DOMAIN bookmarks, k \in Limits : Resume(w, c, b, k)
    BY <1>2
  <2> DEFINE frame == [caller |-> c, filter |-> bookmarks[b].filter, limit |-> k,
                       parent |-> b, lower |-> bookmarks[b].watermark, coverage |-> TRUE]
  <2>1. work' = [work EXCEPT ![w] = [at |-> "capture", frame |-> frame]]
    BY DEF Resume, Becomes
  <2>2. bookmarks[b] \in BookmarkRows /\ b \in 1..issued
    BY DEF Shape
  <2>3. frame \in Frames
    BY <2>2 DEF Frames, BookmarkRows
  <2>4. bookmarks[b].caller.reader = c.reader /\ bookmarks[b].caller.policy = c.policy
    BY DEF Resume
  <2>5. /\ Promised(c.reader, bookmarks[b].filter, bookmarks[b].watermark)
        /\ bookmarks[b].watermark \in 0..Len(history)
    BY <2>4 DEF BookmarksOk, BookmarkOk
  <2>6. Rooted(frame)
    BY <2>2, <2>4, <2>5 DEF Rooted
  <2> QED
    BY <2>1, <2>3, <2>6 DEF Resume
<1> QED
  BY <1>1, <1>2

\* The rows a request freezes are rows of history.
LEMMA RowsWithin ==
  ASSUME NEW f, NEW l, NEW w \in Nat
  PROVE  Rows(f, l, w) \in SUBSET (1..w)
BY DEF Rows

\* What an admitted request adds to what the clean-up kept.
AdmittedAs(w, kept, x, at) ==
  /\ DOMAIN kept \subseteq DOMAIN sessions
  /\ \A s \in DOMAIN kept : kept[s] = sessions[s]
  /\ sessions' = With(kept, captured', x)
  /\ work' = [work EXCEPT ![w] = [at |-> at, session |-> captured']]
  /\ Rooted(x) /\ x.watermark \in x.lower..Len(history)
  /\ DOMAIN x.items = 1..Cardinality(DOMAIN x.items) /\ Cardinality(DOMAIN x.items) \in Nat
  /\ \A r \in Rows(x.filter, x.lower, x.watermark) :
       \E i \in 1..Cardinality(DOMAIN x.items) : x.items[i] = r
  /\ x.cursors = {1} /\ x.complete = {}
Admitted(w) ==
  \E kept : \E x \in SessionRows, at \in {"scope", "read"} : AdmittedAs(w, kept, x, at)

\* A request that is admitted freezes its interval.
LEMMA CaptureKeeps ==
  ASSUME Shape, WorksOk, NEW w \in Workers, Capture(w)
  PROVE  /\ UNCHANGED <<history, floor, lapsed, bookmarks, issued, elapsed, served>>
         /\ \/ /\ work' = [work EXCEPT ![w] = Idle]
               /\ UNCHANGED <<sessions, captured>>
            \/ /\ captured' = captured + 1
               /\ Admitted(w)
<1> DEFINE frame == work[w].frame
<1> DEFINE kept == Cleaned(sessions, lapsed)
<1> DEFINE rows == Rows(frame.filter, frame.lower, Len(history))
<1> DEFINE row(items) ==
      [caller |-> frame.caller, filter |-> frame.filter,
       limit |-> frame.limit, parent |-> frame.parent,
       lower |-> frame.lower, watermark |-> Len(history),
       items |-> items, cursors |-> {1}, complete |-> {}, scoped |-> FALSE]
<1>0. UNCHANGED <<history, floor, lapsed, bookmarks, issued, elapsed, served>>
  BY DEF Capture
<1>1. CASE /\ ~RoomFor(frame, rows, kept)
           /\ Becomes(w, Idle) /\ UNCHANGED <<sessions, captured>>
  BY <1>0, <1>1 DEF Becomes
<1>2. CASE /\ captured' = captured + 1
           /\ \E items \in Orders(rows) : sessions' = With(kept, captured', row(items))
           /\ Becomes(w, [at |-> IF frame.coverage THEN "scope" ELSE "read",
                          session |-> captured'])
  <2>1. work[w] \in Works /\ work[w].at = "capture"
    BY DEF Shape, Capture
  <2>2. frame \in Frames
    BY <2>1 DEF Works
  <2>3. Rooted(frame)
    BY <2>1 DEF WorksOk, WorkOk
  <2>4. Len(history) \in Nat /\ frame.lower \in 0..Len(history)
    BY <2>3 DEF Shape, Rooted
  <2>5. PICK items \in Orders(rows) : sessions' = With(kept, captured', row(items))
    BY <1>2
  <2>6. rows \in SUBSET (1..Len(history))
    BY <2>4, RowsWithin
  <2>7. /\ items \in UNION {[1..n -> Nat] : n \in Nat}
        /\ Cardinality(DOMAIN items) \in Nat /\ DOMAIN items = 1..Cardinality(DOMAIN items)
        /\ \A r \in rows : \E i \in 1..Cardinality(DOMAIN items) : items[i] = r
    <3> HIDE DEF rows
    <3> QED
      BY <2>4, <2>5, <2>6, OrdersList
  <2> DEFINE x == row(items)
  <2>8. x \in SessionRows
    BY <2>2, <2>4, <2>7 DEF SessionRows, Frames
  <2>9. Rooted(x)
    BY <2>3 DEF Rooted
  <2>10. DOMAIN kept \subseteq DOMAIN sessions /\ \A s \in DOMAIN kept : kept[s] = sessions[s]
    <3>1. DOMAIN sessions \subseteq Nat
      BY DEF Shape
    <3> QED
      BY <3>1, CleanedKeeps
  <2>11. PICK at \in {"scope", "read"} :
           work' = [work EXCEPT ![w] = [at |-> at, session |-> captured']]
    BY <1>2 DEF Becomes
  <2>12. /\ x.watermark = Len(history) /\ x.lower = frame.lower /\ x.filter = frame.filter
         /\ x.items = items /\ x.cursors = {1} /\ x.complete = {}
    OBVIOUS
  <2>13. x.watermark \in x.lower..Len(history)
    BY <2>4, <2>12
  <2>14. /\ DOMAIN x.items = 1..Cardinality(DOMAIN x.items)
         /\ Cardinality(DOMAIN x.items) \in Nat
         /\ \A r \in Rows(x.filter, x.lower, x.watermark) :
              \E i \in 1..Cardinality(DOMAIN x.items) : x.items[i] = r
    BY <2>7, <2>12
  <2>15. captured' = captured + 1 /\ sessions' = With(kept, captured', x)
    BY <1>2, <2>5
  <2> HIDE DEF x, kept, row, rows, frame
  <2>16. Admitted(w)
    <3> USE DEF Admitted
    <3> WITNESS kept
    <3> WITNESS x \in SessionRows, at \in {"scope", "read"}
    <3> QED
      BY <2>9, <2>10, <2>11, <2>12, <2>13, <2>14, <2>15 DEF AdmittedAs
  <2> QED
    BY <1>0, <2>15, <2>16
<1> QED
  BY <1>1, <1>2 DEF Capture

(***************************************************************************)
(* What a step that grows keeps of the rows.                               *)
(***************************************************************************)

\* A session is never changed but in its pages.
Same(s) ==
  /\ sessions'[s].caller = sessions[s].caller /\ sessions'[s].filter = sessions[s].filter
  /\ sessions'[s].limit = sessions[s].limit /\ sessions'[s].parent = sessions[s].parent
  /\ sessions'[s].lower = sessions[s].lower
  /\ sessions'[s].watermark = sessions[s].watermark
  /\ sessions'[s].items = sessions[s].items
  /\ sessions[s].cursors \subseteq sessions'[s].cursors

\* A session that existed is kept or gone; its number is not given again.
Keeps ==
  \A s \in DOMAIN sessions' : s \in 1..captured => s \in DOMAIN sessions /\ Same(s)

\* Pages change with what they are made of only.
LEMMA SameMeasures ==
  ASSUME NEW s, Same(s)
  PROVE  /\ ItemCount(s)' = ItemCount(s) /\ Expected(s)' = Expected(s)
         /\ \A p : PageItems(s, p)' = PageItems(s, p)
BY DEF Same, ItemCount, Expected, PageItems, OnPage

\* What was shown stays shown.
LEMMA ShownStays ==
  ASSUME Grows, NEW s, Same(s), NEW p, Shown(s, p)
  PROVE  Shown(s, p)'
BY SameMeasures DEF Shown, Same, Grows

\* A session stays what it is while its pages are read and marked.
LEMMA SessionStays ==
  ASSUME Shape, Grows, NEW s \in DOMAIN sessions, SessionOk(s), Same(s),
         sessions'[s].cursors \subseteq 1..Expected(s),
         sessions'[s].complete \subseteq sessions'[s].cursors,
         \A p \in sessions'[s].complete : Shown(s, p)
  PROVE  SessionOk(s)'
<1>1. /\ ItemCount(s)' = ItemCount(s) /\ Expected(s)' = Expected(s)
      /\ \A p : PageItems(s, p)' = PageItems(s, p)
  BY SameMeasures
<1>2. Rooted(sessions[s])'
  <2>1. PICK x : x = sessions[s]
    OBVIOUS
  <2>2. Rooted(x)
    BY <2>1 DEF SessionOk
  <2>3. Rooted(x)'
    BY <2>2, RootedStays
  <2>4. /\ sessions'[s].caller = x.caller /\ sessions'[s].filter = x.filter
        /\ sessions'[s].parent = x.parent /\ sessions'[s].lower = x.lower
    BY <2>1 DEF Same
  <2> QED
    BY <2>3, <2>4 DEF Rooted
<1>3. /\ sessions[s].lower \in Nat /\ sessions[s].watermark \in 0..Len(history)
      /\ Len(history) \in Nat /\ Len(history') \in Nat /\ Len(history) <= Len(history')
  BY DEF SessionOk, Rooted, Shape, Grows
<1>4. sessions'[s].watermark \in sessions'[s].lower..Len(history')
  BY <1>3 DEF SessionOk, Same
<1>5. Rows(sessions[s].filter, sessions[s].lower, sessions[s].watermark)'
        = Rows(sessions[s].filter, sessions[s].lower, sessions[s].watermark)
  <2>1. PICK f, l, u : f = sessions[s].filter /\ l = sessions[s].lower
                         /\ u = sessions[s].watermark
    OBVIOUS
  <2>2. l \in Nat /\ u \in 0..Len(history)
    BY <1>3, <2>1
  <2>3. Rows(f, l, u)' = Rows(f, l, u)
    BY <2>2, RowsStay
  <2>4. sessions'[s].filter = f /\ sessions'[s].lower = l /\ sessions'[s].watermark = u
    BY <2>1 DEF Same
  <2> QED
    BY <2>1, <2>3, <2>4
<1>6. \A p \in sessions'[s].complete : Shown(s, p)'
  BY ShownStays
<1>7. sessions'[s].items = sessions[s].items
  BY DEF Same
<1> QED
  BY <1>1, <1>2, <1>4, <1>5, <1>6, <1>7 DEF SessionOk

\* Sessions a step leaves alone stay as they are.
LEMMA UntouchedStays ==
  ASSUME Shape, Grows, NEW s \in DOMAIN sessions, SessionOk(s), sessions'[s] = sessions[s]
  PROVE  Same(s) /\ SessionOk(s)'
<1>1. Same(s)
  BY DEF Same
<1> QED
  BY <1>1, SessionStays DEF SessionOk

\* A request that waits still knows a session and page there are.
LEMMA WorkStays ==
  ASSUME Shape, Grows, Keeps, NEW v \in Workers, WorkOk(v), work'[v] = work[v]
  PROVE  WorkOk(v)'
<1>1. work[v].at = "capture" => Rooted(work[v].frame)'
  <2>1. SUFFICES ASSUME work[v].at = "capture" PROVE Rooted(work[v].frame)'
    OBVIOUS
  <2>2. PICK x : x = work[v].frame
    OBVIOUS
  <2>3. Rooted(x)
    BY <2>1, <2>2 DEF WorkOk
  <2>4. Rooted(x)'
    BY <2>3, RootedStays
  <2>5. work'[v].frame = x
    BY <2>2
  <2> QED
    BY <2>4, <2>5
<1>2. work[v].at \in {"scope", "read", "mark", "issue"} => work[v].session \in 1..captured'
  BY DEF WorkOk, Grows, Shape
<1>3. ASSUME work[v].at = "mark", work[v].session \in DOMAIN sessions'
      PROVE  /\ work[v].page \in sessions'[work[v].session].cursors
             /\ ~work[v].partial => Shown(work[v].session, work[v].page)'
  <2>1. PICK s, p : s = work[v].session /\ p = work[v].page
    OBVIOUS
  <2>2. s \in 1..captured
    BY <1>3, <2>1 DEF WorkOk
  <2>3. s \in DOMAIN sessions /\ Same(s)
    BY <1>3, <2>1, <2>2 DEF Keeps
  <2>4. p \in sessions[s].cursors /\ (~work[v].partial => Shown(s, p))
    BY <1>3, <2>1, <2>3 DEF WorkOk
  <2>5. p \in sessions'[s].cursors
    BY <2>3, <2>4 DEF Same
  <2>6. ~work[v].partial => Shown(s, p)'
    BY <2>3, <2>4, ShownStays
  <2>7. work'[v].session = s /\ work'[v].page = p
    BY <2>1
  <2> QED
    BY <2>1, <2>5, <2>6, <2>7
<1> QED
  BY <1>1, <1>2, <1>3 DEF WorkOk

\* A bookmark that was there keeps its promise.
LEMMA BookmarkStays ==
  ASSUME Shape, Grows, NEW b \in DOMAIN bookmarks, b \in DOMAIN bookmarks', BookmarkOk(b)
  PROVE  BookmarkOk(b)'
<1>1. b \in 1..issued /\ bookmarks'[b] = bookmarks[b]
  BY DEF Shape, Grows
<1>2. PICK reader, f, u, a : /\ reader = bookmarks[b].caller.reader /\ f = bookmarks[b].filter
                             /\ u = bookmarks[b].watermark /\ a = bookmarks[b].parent
  OBVIOUS
<1>3. u \in 0..Len(history) /\ Promised(reader, f, u) /\ a \in 1..issued \cup {None}
  BY <1>2 DEF BookmarkOk
<1>4. Promised(reader, f, u)'
  BY <1>3, PromiseStays
<1>5. u \in 0..Len(history') /\ a \in 1..issued' \cup {None}
  BY <1>3 DEF Grows, Shape
<1>6. bookmarks'[b].session \in 1..captured'
  BY <1>1 DEF BookmarkOk, Grows, Shape
<1>7. a \in DOMAIN bookmarks' => a \in DOMAIN bookmarks /\ bookmarks'[a] = bookmarks[a]
  BY <1>3, NoneAssumption DEF Grows
<1>8. /\ bookmarks'[b].caller.reader = reader /\ bookmarks'[b].filter = f
      /\ bookmarks'[b].watermark = u /\ bookmarks'[b].parent = a
  BY <1>1, <1>2
<1>9. a \in DOMAIN bookmarks' =>
        /\ bookmarks'[a].caller.reader = bookmarks'[b].caller.reader
        /\ bookmarks'[a].caller.policy = bookmarks'[b].caller.policy
        /\ bookmarks'[a].filter = bookmarks'[b].filter
        /\ bookmarks'[a].watermark <= bookmarks'[b].watermark
  BY <1>1, <1>2, <1>7 DEF BookmarkOk
<1> QED
  BY <1>4, <1>5, <1>6, <1>8, <1>9 DEF BookmarkOk

\* Time only takes bookmarks from those that are compared.
LEMMA AnchorStays ==
  ASSUME Shape, OneAnchorPerBoundary, UNCHANGED bookmarks, elapsed' \in Nat, elapsed <= elapsed'
  PROVE  OneAnchorPerBoundary'
<1>1. \A a \in DOMAIN bookmarks : a > elapsed' => a > elapsed
  BY DEF Shape
<1>2. bookmarks' = bookmarks
  OBVIOUS
<1> QED
  BY <1>1, <1>2 DEF OneAnchorPerBoundary

(***************************************************************************)
(* Steps that keep the invariant.                                          *)
(***************************************************************************)

\* What the parts of a step add up to.
LEMMA Together ==
  ASSUME IInv, Shape', Grows, Keeps,
         \A s \in DOMAIN sessions' : SessionOk(s)',
         \A b \in DOMAIN bookmarks' : b \in DOMAIN bookmarks \/ BookmarkOk(b)',
         \A v \in Workers : work'[v] = work[v] \/ WorkOk(v)',
         OneAnchorPerBoundary'
  PROVE  IInv'
<1>1. BookmarksOk'
  <2> SUFFICES ASSUME NEW b \in DOMAIN bookmarks' PROVE BookmarkOk(b)'
    BY DEF BookmarksOk
  <2>1. CASE b \in DOMAIN bookmarks
    <3>1. Shape /\ BookmarkOk(b)
      BY <2>1 DEF IInv, BookmarksOk
    <3> QED
      BY <2>1, <3>1, BookmarkStays
  <2> QED
    BY <2>1
<1>2. WorksOk'
  <2> SUFFICES ASSUME NEW v \in Workers PROVE WorkOk(v)'
    BY DEF WorksOk
  <2>1. CASE work'[v] = work[v]
    <3>1. Shape /\ WorkOk(v)
      BY DEF IInv, WorksOk
    <3> QED
      BY <2>1, <3>1, WorkStays
  <2> QED
    BY <2>1
<1> QED
  BY <1>1, <1>2 DEF IInv, SessionsOk

\* A step of one request leaves the others where they are.
LEMMA OneWorker ==
  ASSUME Shape, NEW w \in Workers, NEW state \in Works, work' = [work EXCEPT ![w] = state]
  PROVE  /\ work' \in [Workers -> Works] /\ work'[w] = state
         /\ \A v \in Workers : v # w => work'[v] = work[v]
BY DEF Shape

\* A request that is over asks for nothing.
LEMMA IdleIsOk ==
  ASSUME NEW w, work'[w] = Idle
  PROVE  Idle \in Works /\ WorkOk(w)'
BY DEF Idle, Works, WorkOk

\* A step that leaves all rows alone.
LEMMA QuietStep ==
  ASSUME IInv, Shape', Grows, elapsed <= elapsed',
         UNCHANGED <<sessions, captured, bookmarks, issued>>,
         \A v \in Workers : work'[v] = work[v] \/ WorkOk(v)'
  PROVE  IInv'
<1>1. Shape /\ OneAnchorPerBoundary /\ elapsed' \in Nat
  BY DEF IInv, Shape
<1>2. Keeps /\ \A s \in DOMAIN sessions' : SessionOk(s)'
  <2>1. \A s \in DOMAIN sessions : SessionOk(s) /\ sessions'[s] = sessions[s]
    BY DEF IInv, SessionsOk
  <2> QED
    BY <1>1, <2>1, UntouchedStays DEF Keeps
<1>3. OneAnchorPerBoundary'
  BY <1>1, AnchorStays
<1> QED
  BY <1>2, <1>3, Together

\* A step of a request that leaves all rows alone.
LEMMA QuietRequest ==
  ASSUME IInv, NEW w \in Workers, NEW state \in Works, work' = [work EXCEPT ![w] = state],
         WorkOk(w)',
         UNCHANGED <<history, floor, sessions, captured, lapsed, bookmarks, issued, elapsed,
                     served>>
  PROVE  IInv'
<1>1. Shape
  BY DEF IInv
<1>2. /\ work' \in [Workers -> Works]
      /\ \A v \in Workers : v # w => work'[v] = work[v]
  BY <1>1, OneWorker
<1>3. Shape' /\ Grows /\ elapsed <= elapsed'
  BY <1>1, <1>2 DEF Shape, Grows
<1> QED
  BY <1>2, <1>3, QuietStep

\* A request that ends without more.
LEMMA EndingRequest ==
  ASSUME IInv, NEW w \in Workers, work' = [work EXCEPT ![w] = Idle],
         UNCHANGED <<history, floor, sessions, captured, lapsed, bookmarks, issued, elapsed,
                     served>>
  PROVE  IInv'
<1>1. Idle \in Works
  BY DEF Idle, Works
<1>2. work'[w] = Idle
  BY DEF IInv, Shape
<1> QED
  BY <1>1, <1>2, IdleIsOk, QuietRequest

\* A step of a request on the pages of one session.
LEMMA PagesStep ==
  ASSUME IInv, NEW w \in Workers, NEW s \in DOMAIN sessions, NEW state \in Works,
         sessions' \in [DOMAIN sessions -> SessionRows],
         \A t \in DOMAIN sessions : t # s => sessions'[t] = sessions[t],
         Same(s), sessions'[s].cursors \subseteq 1..Expected(s),
         sessions'[s].complete \subseteq sessions'[s].cursors,
         \A p \in sessions'[s].complete : Shown(s, p),
         work' = [work EXCEPT ![w] = state], WorkOk(w)', served \subseteq served',
         UNCHANGED <<history, floor, captured, lapsed, bookmarks, issued, elapsed>>
  PROVE  IInv'
<1>1. Shape /\ OneAnchorPerBoundary /\ DOMAIN sessions' = DOMAIN sessions
  BY DEF IInv
<1>2. /\ work' \in [Workers -> Works]
      /\ \A v \in Workers : v # w => work'[v] = work[v]
  BY <1>1, OneWorker
<1>3. Shape' /\ Grows
  BY <1>1, <1>2 DEF Shape, Grows
<1>4. \A t \in DOMAIN sessions : Same(t) /\ SessionOk(t)'
  <2> SUFFICES ASSUME NEW t \in DOMAIN sessions PROVE Same(t) /\ SessionOk(t)'
    OBVIOUS
  <2>1. SessionOk(t)
    BY DEF IInv, SessionsOk
  <2>2. CASE t = s
    BY <1>1, <1>3, <2>1, <2>2, SessionStays
  <2>3. CASE t # s
    <3>1. sessions'[t] = sessions[t]
      BY <2>3
    <3> QED
      BY <1>1, <1>3, <2>1, <3>1, UntouchedStays
  <2> QED
    BY <2>2, <2>3
<1>5. Keeps /\ \A t \in DOMAIN sessions' : SessionOk(t)'
  BY <1>1, <1>4 DEF Keeps
<1>6. OneAnchorPerBoundary'
  BY <1>1, AnchorStays DEF Shape
<1>7. \A v \in Workers : work'[v] = work[v] \/ WorkOk(v)'
  BY <1>2
<1> QED
  BY <1>3, <1>5, <1>6, <1>7, Together

\* The owner and the clock.
LEMMA ClockStep ==
  ASSUME IInv, Clock
  PROVE  IInv'
<1>1. Shape
  BY DEF IInv
<1>2. /\ Shape' /\ Grows /\ elapsed <= elapsed'
      /\ UNCHANGED <<sessions, captured, bookmarks, issued, work, served>>
  BY <1>1, ClockGrows
<1> QED
  BY <1>2, QuietStep

\* Queries and resumed readings begin.
LEMMA BeginStep ==
  ASSUME IInv, NEW w \in Workers,
         \/ \E c \in Callers, f \in Filters, k \in Limits : Start(w, c, f, k)
         \/ \E c \in Callers, b \in DOMAIN bookmarks, k \in Limits : Resume(w, c, b, k)
  PROVE  IInv'
<1>1. Shape /\ BookmarksOk
  BY DEF IInv
<1>2. UNCHANGED <<history, floor, sessions, captured, lapsed, bookmarks, issued, elapsed, served>>
  BY <1>1, BeginKeeps
<1>3. PICK frame \in Frames : /\ work' = [work EXCEPT ![w] = [at |-> "capture", frame |-> frame]]
                              /\ Rooted(frame)
  BY <1>1, BeginKeeps
<1>4. [at |-> "capture", frame |-> frame] \in Works
  BY DEF Works
<1>5. work'[w] = [at |-> "capture", frame |-> frame]
  BY <1>1, <1>3 DEF Shape
<1>6. Rooted(frame)'
  BY <1>2, <1>3 DEF Rooted, Promised, Rows, Current, Matches
<1>7. WorkOk(w)'
  BY <1>5, <1>6 DEF WorkOk
<1> QED
  BY <1>2, <1>3, <1>4, <1>7, QuietRequest

\* A request dies.
LEMMA AbandonStep ==
  ASSUME IInv, NEW w \in Workers, Abandon(w)
  PROVE  IInv'
BY EndingRequest DEF Abandon, Becomes

\* The scope of a session is written, or the session has gone.
LEMMA ScopeStep ==
  ASSUME IInv, NEW w \in Workers, Scope(w)
  PROVE  IInv'
<1>1. PICK s : s = work[w].session
  OBVIOUS
<1>2. work[w].at = "scope" /\ s \in 1..captured
  BY <1>1 DEF Scope, IInv, WorksOk, WorkOk
<1>3. CASE s \notin DOMAIN sessions
  BY <1>1, <1>3, EndingRequest DEF Scope, Becomes
<1>4. CASE s \in DOMAIN sessions
  <2> DEFINE state == [at |-> "read", session |-> s]
  <2>1. /\ sessions' = [sessions EXCEPT ![s].scoped = TRUE]
        /\ work' = [work EXCEPT ![w] = state]
        /\ UNCHANGED <<history, floor, captured, lapsed, bookmarks, issued, elapsed, served>>
    BY <1>1, <1>4 DEF Scope, Becomes
  <2>2. Shape /\ SessionOk(s)
    BY <1>4 DEF IInv, SessionsOk
  <2>3. sessions[s] \in SessionRows /\ sessions \in [DOMAIN sessions -> SessionRows]
    BY <1>4, <2>2 DEF Shape
  <2>4. sessions' \in [DOMAIN sessions -> SessionRows]
    BY <1>4, <2>1, <2>3 DEF SessionRows
  <2>5. \A t \in DOMAIN sessions : t # s => sessions'[t] = sessions[t]
    BY <2>1
  <2>6. Same(s) /\ sessions'[s].cursors = sessions[s].cursors
          /\ sessions'[s].complete = sessions[s].complete
    BY <1>4, <2>1, <2>3 DEF Same, SessionRows
  <2>7. state \in Works
    BY <1>2, <2>2 DEF Works, Shape
  <2>8. WorkOk(w)'
    <3>1. work'[w] = state
      BY <2>1, <2>2 DEF Shape
    <3> QED
      BY <1>2, <2>1, <3>1 DEF WorkOk
  <2> QED
    BY <1>4, <2>1, <2>2, <2>4, <2>5, <2>6, <2>7, <2>8, PagesStep DEF SessionOk
<1> QED
  BY <1>3, <1>4

\* A page is shown: what is seen of it is served, and the next page may be asked for.
LEMMA ReadPageStep ==
  ASSUME IInv, NEW w \in Workers, NEW s \in DOMAIN sessions, NEW p,
         NEW coverage \in BOOLEAN, ReadPage(w, s, p, coverage),
         UNCHANGED <<history, floor, captured, lapsed, bookmarks, issued, elapsed>>
  PROVE  IInv'
<1>1. Shape /\ SessionOk(s) /\ p \in sessions[s].cursors
  BY DEF IInv, SessionsOk, ReadPage
<1>2. /\ sessions[s] \in SessionRows /\ sessions \in [DOMAIN sessions -> SessionRows]
      /\ s \in 1..captured /\ captured \in Nat
  BY <1>1 DEF Shape
<1>3. PICK seen \in SUBSET PageItems(s, p) :
        /\ served' = served \cup {<<sessions[s].caller.reader, r>> : r \in seen}
        /\ Becomes(w, IF coverage
                      THEN [at |-> "mark", session |-> s, page |-> p,
                            partial |-> seen # PageItems(s, p)]
                      ELSE Idle)
  BY DEF ReadPage
<1> DEFINE state == IF coverage
                    THEN [at |-> "mark", session |-> s, page |-> p,
                          partial |-> seen # PageItems(s, p)]
                    ELSE Idle
<1>4. work' = [work EXCEPT ![w] = state]
  BY <1>3 DEF Becomes
<1>5. p \in 1..Expected(s) /\ Expected(s) \in Nat /\ sessions[s].limit \in Nat \ {0}
        /\ ItemCount(s) \in Nat
  <2>1. sessions[s].limit \in Nat \ {0} /\ ItemCount(s) \in Nat
    BY <1>1, <1>2, LimitsAssumption DEF SessionRows, SessionOk
  <2>2. Expected(s) \in Nat
    BY <2>1, RoundedUp DEF Expected
  <2> QED
    BY <1>1, <2>1, <2>2 DEF SessionOk
<1>6. Truncated(s, p) => p + 1 \in 1..Expected(s)
  <2>1. SUFFICES ASSUME Truncated(s, p) PROVE p + 1 \in 1..Expected(s)
    OBVIOUS
  <2>2. PICK n, k : n = ItemCount(s) /\ k = sessions[s].limit
    OBVIOUS
  <2>3. p \in Nat /\ n \in Nat /\ k \in Nat \ {0} /\ p * k < n
    BY <1>5, <2>1, <2>2 DEF Truncated
  <2>4. p + 1 <= (n + k - 1) \div k /\ (n + k - 1) \div k \in Nat
    BY <2>3, AnotherPage, RoundedUp
  <2>5. Expected(s) = (n + k - 1) \div k
    <3> DEFINE q == (n + k - 1) \div k
    <3>1. q # 0
      BY <2>3, <2>4
    <3> QED
      BY <2>2, <3>1 DEF Expected
  <2> QED
    BY <2>3, <2>4, <2>5
<1>7. /\ sessions' \in [DOMAIN sessions -> SessionRows]
      /\ \A t \in DOMAIN sessions : t # s => sessions'[t] = sessions[t]
      /\ Same(s) /\ sessions'[s].complete = sessions[s].complete
      /\ sessions'[s].cursors \subseteq 1..Expected(s)
  <2>1. CASE Truncated(s, p)
    <3>1. sessions' = [sessions EXCEPT ![s].cursors = @ \cup {p + 1}]
      BY <2>1 DEF ReadPage
    <3>2. p + 1 \in 1..Expected(s) /\ p + 1 \in Nat
      BY <1>5, <1>6, <2>1
    <3>3. sessions' \in [DOMAIN sessions -> SessionRows]
      BY <1>2, <3>1, <3>2 DEF SessionRows
    <3>4. sessions'[s].cursors = sessions[s].cursors \cup {p + 1}
            /\ sessions'[s].complete = sessions[s].complete
      BY <1>2, <3>1 DEF SessionRows
    <3>5. Same(s)
      BY <1>2, <3>1, <3>4 DEF SessionRows, Same
    <3>6. \A t \in DOMAIN sessions : t # s => sessions'[t] = sessions[t]
      BY <3>1
    <3> QED
      BY <1>1, <3>2, <3>3, <3>4, <3>5, <3>6 DEF SessionOk
  <2>2. CASE ~Truncated(s, p)
    <3>1. sessions' = sessions
      BY <2>2 DEF ReadPage
    <3> QED
      BY <1>1, <1>2, <3>1 DEF SessionOk, Same
  <2> QED
    BY <2>1, <2>2
<1>8. state \in Works
  BY <1>2, <1>5 DEF Works, Idle
<1>9. WorkOk(w)'
  <2>1. work'[w] = state
    BY <1>1, <1>4 DEF Shape
  <2>2. CASE ~coverage
    BY <2>1, <2>2, IdleIsOk
  <2>3. CASE coverage
    <3>1. work'[w] = [at |-> "mark", session |-> s, page |-> p,
                      partial |-> seen # PageItems(s, p)]
      BY <2>1, <2>3
    <3>2. p \in sessions'[s].cursors
      BY <1>1, <1>7 DEF Same
    <3>3. seen = PageItems(s, p) => Shown(s, p)'
      <4>1. SUFFICES ASSUME seen = PageItems(s, p) PROVE Shown(s, p)'
        OBVIOUS
      <4>2. PageItems(s, p)' = PageItems(s, p) /\ sessions'[s].caller = sessions[s].caller
        BY <1>7, SameMeasures DEF Same
      <4> QED
        BY <1>3, <4>1, <4>2 DEF Shown
    <3>4. PICK part \in BOOLEAN : part = (seen # PageItems(s, p))
      OBVIOUS
    <3>5. work'[w] = [at |-> "mark", session |-> s, page |-> p, partial |-> part]
      BY <3>1, <3>4
    <3>6. /\ work'[w].at = "mark" /\ work'[w].session = s /\ work'[w].page = p
          /\ work'[w].partial = part
      BY <3>5
    <3> QED
      <4>1. s \in 1..captured'
        BY <1>2
      <4>2. ~work'[w].partial => Shown(s, p)'
        BY <3>3, <3>4, <3>6
      <4> HIDE DEF state
      <4> QED
        BY <3>2, <3>6, <4>1, <4>2 DEF WorkOk
  <2> QED
    BY <2>2, <2>3
<1>10. /\ sessions'[s].complete \subseteq sessions'[s].cursors
       /\ \A q \in sessions'[s].complete : Shown(s, q)
  BY <1>1, <1>7 DEF SessionOk, Same
<1>11. served \subseteq served'
  BY <1>3
<1> HIDE DEF state
<1> QED
  BY <1>4, <1>7, <1>8, <1>9, <1>10, <1>11, PagesStep

\* The first page follows the capture, a later one its cursor.
LEMMA PageStep ==
  ASSUME IInv, NEW w \in Workers,
         \/ FirstPage(w)
         \/ \E c \in Callers, s \in DOMAIN sessions : \E p \in sessions[s].cursors :
              LaterPage(w, c, s, p)
  PROVE  IInv'
<1>1. CASE FirstPage(w)
  <2>1. PICK s : s = work[w].session
    OBVIOUS
  <2>2. CASE s \in DOMAIN sessions /\ ReadPage(w, s, 1, sessions[s].scoped)
    <3>1. PICK coverage : coverage = sessions[s].scoped
      OBVIOUS
    <3>2. coverage \in BOOLEAN
      BY <2>2, <3>1 DEF IInv, Shape, SessionRows
    <3>3. ReadPage(w, s, 1, coverage)
      BY <2>2, <3>1
    <3>4. UNCHANGED <<history, floor, captured, lapsed, bookmarks, issued, elapsed>>
      BY <1>1 DEF FirstPage
    <3> QED
      BY <2>2, <3>2, <3>3, <3>4, ReadPageStep
  <2>3. CASE Becomes(w, Idle) /\ UNCHANGED <<sessions, served>>
    BY <1>1, <2>3, EndingRequest DEF FirstPage, Becomes
  <2> QED
    BY <1>1, <2>1, <2>2, <2>3 DEF FirstPage
<1>2. CASE \E c \in Callers, s \in DOMAIN sessions : \E p \in sessions[s].cursors :
             LaterPage(w, c, s, p)
  <2> PICK c \in Callers, s \in DOMAIN sessions : \E p \in sessions[s].cursors :
        LaterPage(w, c, s, p)
    BY <1>2
  <2> PICK p \in sessions[s].cursors : LaterPage(w, c, s, p)
    OBVIOUS
  <2> PICK coverage \in BOOLEAN : ReadPage(w, s, p, coverage)
    BY DEF LaterPage
  <2>1. UNCHANGED <<history, floor, captured, lapsed, bookmarks, issued, elapsed>>
    BY DEF LaterPage
  <2> QED
    BY <2>1, ReadPageStep
<1> QED
  BY <1>1, <1>2

\* The outcome of a page is recorded: complete only if all of it was shown.
LEMMA MarkStep ==
  ASSUME IInv, NEW w \in Workers, Mark(w)
  PROVE  IInv'
<1>1. PICK s, p, part : s = work[w].session /\ p = work[w].page /\ part = work[w].partial
  OBVIOUS
<1>2. work[w].at = "mark" /\ s \in 1..captured
  BY <1>1 DEF Mark, IInv, WorksOk, WorkOk
<1>3. CASE Becomes(w, Idle) /\ UNCHANGED sessions
  BY <1>3, EndingRequest DEF Mark, Becomes
<1>4. CASE s \in DOMAIN sessions /\ sessions[s].scoped
  <2> DEFINE complete == IF part THEN sessions[s].complete \ {p}
                         ELSE sessions[s].complete \cup {p}
  <2> DEFINE state == IF ~Truncated(s, p) /\ ~part THEN [at |-> "issue", session |-> s]
                      ELSE Idle
  <2>1. /\ sessions' = [sessions EXCEPT ![s].complete = complete]
        /\ work' = [work EXCEPT ![w] = state]
        /\ UNCHANGED <<history, floor, captured, lapsed, bookmarks, issued, elapsed, served>>
    BY <1>1, <1>4 DEF Mark, Becomes
  <2>2. Shape /\ SessionOk(s)
    BY <1>4 DEF IInv, SessionsOk
  <2>3. sessions[s] \in SessionRows /\ sessions \in [DOMAIN sessions -> SessionRows]
    BY <1>4, <2>2 DEF Shape
  <2>4. p \in sessions[s].cursors /\ (~part => Shown(s, p))
    BY <1>1, <1>2, <1>4 DEF IInv, WorksOk, WorkOk
  <2>5. complete \subseteq sessions[s].cursors /\ \A q \in complete : Shown(s, q)
    BY <2>2, <2>4 DEF SessionOk
  <2>6. state \in Works
    BY <1>2, <2>2 DEF Works, Idle, Shape
  <2> HIDE DEF complete
  <2>7. complete \in SUBSET Nat
    BY <2>3, <2>5 DEF SessionRows
  <2>8. sessions' \in [DOMAIN sessions -> SessionRows]
    BY <1>4, <2>1, <2>3, <2>7 DEF SessionRows
  <2>9. \A t \in DOMAIN sessions : t # s => sessions'[t] = sessions[t]
    BY <2>1
  <2>10. Same(s) /\ sessions'[s].cursors = sessions[s].cursors
           /\ sessions'[s].complete = complete
    BY <1>4, <2>1, <2>3 DEF Same, SessionRows
  <2>11. WorkOk(w)'
    <3>1. work'[w] = state
      BY <2>1, <2>2, <2>6 DEF Shape
    <3>2. CASE state = Idle
      BY <3>1, <3>2, IdleIsOk
    <3>3. CASE state = [at |-> "issue", session |-> s]
      <4>1. work'[w].at = "issue" /\ work'[w].session = s
        BY <3>1, <3>3
      <4> QED
        BY <1>2, <2>1, <4>1 DEF WorkOk
    <3> QED
      BY <3>2, <3>3
  <2> HIDE DEF state
  <2> QED
    BY <1>4, <2>1, <2>2, <2>5, <2>6, <2>8, <2>9, <2>10, <2>11, PagesStep DEF SessionOk
<1> QED
  BY <1>1, <1>3, <1>4 DEF Mark

\* A request is refused, or its interval becomes a session of its own.
LEMMA CaptureStep ==
  ASSUME IInv, NEW w \in Workers, Capture(w)
  PROVE  IInv'
<1>1. Shape /\ WorksOk /\ OneAnchorPerBoundary
  BY DEF IInv
<1>2. UNCHANGED <<history, floor, lapsed, bookmarks, issued, elapsed, served>>
  BY <1>1, CaptureKeeps
<1>3. CASE work' = [work EXCEPT ![w] = Idle] /\ UNCHANGED <<sessions, captured>>
  BY <1>2, <1>3, EndingRequest
<1>4. CASE captured' = captured + 1 /\ Admitted(w)
  <2>1. PICK kept : \E x \in SessionRows, at \in {"scope", "read"} : AdmittedAs(w, kept, x, at)
    BY <1>4 DEF Admitted
  <2>2. PICK x \in SessionRows, at \in {"scope", "read"} : AdmittedAs(w, kept, x, at)
    BY <2>1
  <2>3. PICK n : n = captured + 1
    OBVIOUS
  <2>4. n = captured' /\ n \in Nat /\ n \notin 1..captured /\ captured \in Nat
    BY <1>1, <1>4, <2>3 DEF Shape
  <2>5. /\ DOMAIN sessions' = DOMAIN kept \cup {n} /\ sessions'[n] = x
        /\ \A s \in DOMAIN kept : s # n => sessions'[s] = kept[s]
        /\ sessions' \in [DOMAIN sessions' -> {sessions'[s] : s \in DOMAIN sessions'}]
    BY <2>2, <2>4 DEF AdmittedAs, With
  <2>6. \A s \in DOMAIN sessions' : s # n => s \in DOMAIN sessions /\ sessions'[s] = sessions[s]
    BY <2>2, <2>5 DEF AdmittedAs
  <2>7. \A s \in DOMAIN sessions' : sessions'[s] \in SessionRows
    BY <1>1, <2>5, <2>6 DEF Shape
  <2>8. sessions' \in [DOMAIN sessions' -> SessionRows] /\ DOMAIN sessions' \subseteq 1..n
    <3>1. DOMAIN sessions' \subseteq 1..n
      BY <1>1, <2>3, <2>4, <2>5, <2>6 DEF Shape
    <3> QED
      BY <2>5, <2>7, <3>1
  <2> DEFINE state == [at |-> at, session |-> n]
  <2>9. state \in Works
    BY <2>4 DEF Works
  <2>10. /\ work' \in [Workers -> Works] /\ work'[w] = state
         /\ \A v \in Workers : v # w => work'[v] = work[v]
    BY <1>1, <2>2, <2>4, <2>9, OneWorker DEF AdmittedAs
  <2>11. Shape' /\ Grows
    BY <1>1, <1>2, <2>3, <2>4, <2>8, <2>10 DEF Shape, Grows
  <2>12. Keeps
    BY <2>4, <2>6 DEF Keeps, Same
  <2>13. SessionOk(n)'
    <3>1. Rooted(x)'
      BY <1>1, <2>2, <2>11, RootedStays DEF AdmittedAs
    <3>2. ItemCount(n)' = Cardinality(DOMAIN x.items)
      BY <2>5 DEF ItemCount
    <3>3. Rows(x.filter, x.lower, x.watermark)' = Rows(x.filter, x.lower, x.watermark)
      BY <1>2 DEF Rows, Current, Matches
    <3>4. x.limit \in Nat \ {0}
      BY LimitsAssumption DEF SessionRows
    <3>5. 1 \in 1..Expected(n)'
      <4>1. PICK m, k : m = Cardinality(DOMAIN x.items) /\ k = x.limit
        OBVIOUS
      <4>2. m \in Nat /\ k \in Nat \ {0}
        BY <2>2, <3>4, <4>1 DEF AdmittedAs
      <4>3. (m + k - 1) \div k \in Nat
        BY <4>2, RoundedUp
      <4>4. Expected(n)' = IF (m + k - 1) \div k = 0 THEN 1 ELSE (m + k - 1) \div k
        BY <2>5, <3>2, <4>1 DEF Expected
      <4> QED
        BY <4>3, <4>4
    <3>6. x.watermark \in x.lower..Len(history')
      BY <1>2, <2>2 DEF AdmittedAs
    <3> QED
      BY <2>2, <2>5, <3>1, <3>2, <3>3, <3>5, <3>6 DEF AdmittedAs, SessionOk
  <2>14. \A s \in DOMAIN sessions' : SessionOk(s)'
    <3> SUFFICES ASSUME NEW s \in DOMAIN sessions', s # n PROVE SessionOk(s)'
      BY <2>13
    <3>1. s \in DOMAIN sessions /\ sessions'[s] = sessions[s]
      BY <2>6
    <3>2. SessionOk(s)
      BY <3>1 DEF IInv, SessionsOk
    <3> QED
      BY <1>1, <2>11, <3>1, <3>2, UntouchedStays
  <2>15. WorkOk(w)'
    <3>1. work'[w].at = at /\ work'[w].session = n
      BY <2>10
    <3>2. n \in 1..captured'
      BY <2>3, <2>4
    <3> QED
      BY <3>1, <3>2 DEF WorkOk
  <2>16. OneAnchorPerBoundary'
    BY <1>1, <1>2, AnchorStays DEF Shape
  <2> HIDE DEF state
  <2> QED
    BY <1>2, <2>10, <2>11, <2>12, <2>14, <2>15, <2>16, Together
<1> QED
  BY <1>1, <1>3, <1>4, CaptureKeeps

\* Where all pages of a session are complete, its promise is kept: what is not of
\* its own interval was current, and shown, where the interval begins.
LEMMA CompleteIsKept ==
  ASSUME Shape, NEW s \in DOMAIN sessions, SessionOk(s), Complete(s)
  PROVE  Promised(sessions[s].caller.reader, sessions[s].filter, sessions[s].watermark)
<1>1. PICK f, l, u, n, k :
        /\ f = sessions[s].filter /\ l = sessions[s].lower /\ u = sessions[s].watermark
        /\ n = ItemCount(s) /\ k = sessions[s].limit
  OBVIOUS
<1>2. sessions[s] \in SessionRows
  BY DEF Shape
<1>3. /\ Len(history) \in Nat /\ l \in 0..Len(history) /\ u \in l..Len(history)
      /\ n \in Nat /\ k \in Nat \ {0}
  BY <1>1, <1>2, LimitsAssumption DEF Shape, SessionOk, Rooted, SessionRows
<1>4. sessions[s].complete = 1..Expected(s)
  <2>1. PICK m, P : m = Expected(s) /\ P = sessions[s].complete
    OBVIOUS
  <2>2. m \in Nat
    BY <1>1, <1>3, <2>1, RoundedUp DEF Expected
  <2>3. P \in SUBSET (1..m) /\ Cardinality(P) = m
    BY <2>1 DEF SessionOk, Complete
  <2> QED
    BY <2>1, <2>2, <2>3, AllPages
<1>5. SUFFICES ASSUME NEW r \in Rows(f, 0, u)
               PROVE  <<sessions[s].caller.reader, r>> \in served
  BY <1>1 DEF Promised
<1>6. r \in 1..u /\ Current(r, u) /\ Matches(r, f)
  BY DEF Rows
<1>7. CASE r <= l
  <2>1. r \in 1..l
    BY <1>3, <1>6, <1>7
  <2>2. Current(r, l)
    <3>1. \A q \in (r + 1)..l : q \in (r + 1)..u
      BY <1>3, <2>1
    <3> QED
      BY <1>6, <2>1, <3>1 DEF Current
  <2>3. r \in Rows(f, 0, l)
    BY <1>3, <1>6, <2>1, <2>2 DEF Rows
  <2> QED
    BY <1>1, <2>3 DEF SessionOk, Rooted, Promised
<1>8. CASE r > l
  <2>1. r \in Rows(f, l, u)
    BY <1>6, <1>8 DEF Rows
  <2>2. PICK i \in 1..n : sessions[s].items[i] = r
    BY <1>1, <2>1 DEF SessionOk
  <2>3. PICK p \in 1..((n + k - 1) \div k) : (p - 1) * k < i /\ i <= p * k
    BY <1>3, OnSomePage
  <2>4. p \in 1..Expected(s)
    <3>1. (n + k - 1) \div k \in Nat
      BY <1>3, RoundedUp
    <3>2. (n + k - 1) \div k # 0
      BY <2>3, <3>1
    <3> QED
      BY <1>1, <2>3, <3>2 DEF Expected
  <2>5. Shown(s, p)
    BY <1>4, <2>4 DEF SessionOk
  <2>6. i \in DOMAIN sessions[s].items
    BY <1>1 DEF SessionOk
  <2>7. r \in PageItems(s, p)
    BY <1>1, <2>2, <2>3, <2>6 DEF PageItems, OnPage
  <2> QED
    BY <2>5, <2>7 DEF Shown
<1> QED
  BY <1>3, <1>6, <1>7, <1>8

\* What Issue inserts, and what it leaves.
IssuedAs(s, kept) ==
  /\ DOMAIN kept \subseteq DOMAIN bookmarks
  /\ \A b \in DOMAIN kept : kept[b] = bookmarks[b]
  /\ \A b \in DOMAIN bookmarks : b > elapsed => b \in DOMAIN kept
  /\ s \in DOMAIN sessions /\ Complete(s) /\ Equivalent(s) = {}
  /\ \A b \in DOMAIN bookmarks : bookmarks[b].session # s
  /\ issued' = issued + 1
  /\ bookmarks' = With(kept, issued',
                       [caller |-> sessions[s].caller, filter |-> sessions[s].filter,
                        watermark |-> sessions[s].watermark,
                        parent |-> sessions[s].parent, session |-> s])

\* A request issues a bookmark, or ends without.
LEMMA IssueKeeps ==
  ASSUME Shape, NEW w, Issue(w)
  PROVE  /\ work' = [work EXCEPT ![w] = Idle]
         /\ UNCHANGED <<history, floor, sessions, captured, lapsed, elapsed, served>>
         /\ UNCHANGED <<bookmarks, issued>> \/ \E s, kept : IssuedAs(s, kept)
<1>1. /\ work' = [work EXCEPT ![w] = Idle]
      /\ UNCHANGED <<history, floor, sessions, captured, lapsed, elapsed, served>>
  BY DEF Issue, Becomes
<1> DEFINE s == work[w].session
<1> DEFINE kept == Cleaned(bookmarks, elapsed)
<1>2. \/ UNCHANGED <<bookmarks, issued>>
      \/ /\ s \in DOMAIN sessions /\ Complete(s) /\ Equivalent(s) = {}
         /\ \A b \in DOMAIN bookmarks : bookmarks[b].session # s
         /\ issued' = issued + 1
         /\ bookmarks' = With(kept, issued',
                              [caller |-> sessions[s].caller, filter |-> sessions[s].filter,
                               watermark |-> sessions[s].watermark,
                               parent |-> sessions[s].parent, session |-> s])
  BY DEF Issue
<1>3. /\ DOMAIN kept \subseteq DOMAIN bookmarks
      /\ \A b \in DOMAIN kept : kept[b] = bookmarks[b]
      /\ \A b \in DOMAIN bookmarks : b > elapsed => b \in DOMAIN kept
  <2>1. DOMAIN bookmarks \subseteq Nat /\ elapsed \in Nat
    BY DEF Shape
  <2>2. \A b \in DOMAIN bookmarks : b > elapsed => ~ (b <= elapsed)
    BY <2>1
  <2> QED
    BY <2>1, <2>2, CleanedKeeps
<1> HIDE DEF s, kept
<1> QED
  BY <1>1, <1>2, <1>3 DEF IssuedAs

\* A bookmark is issued only for what was shown, and only once.
LEMMA IssueStep ==
  ASSUME IInv, NEW w \in Workers, Issue(w)
  PROVE  IInv'
<1>1. Shape /\ BookmarksOk /\ OneAnchorPerBoundary
  BY DEF IInv
<1>2. /\ work' = [work EXCEPT ![w] = Idle]
      /\ UNCHANGED <<history, floor, sessions, captured, lapsed, elapsed, served>>
  BY <1>1, IssueKeeps
<1>3. CASE UNCHANGED <<bookmarks, issued>>
  BY <1>2, <1>3, EndingRequest
<1>4. CASE \E s, kept : IssuedAs(s, kept)
  <2>1. PICK s, kept : IssuedAs(s, kept)
    BY <1>4
  <2>2. PICK n, x : n = issued + 1 /\ x = bookmarks'[n]
    OBVIOUS
  <2>3. n = issued' /\ n \in Nat /\ n \notin 1..issued /\ issued \in Nat
    BY <1>1, <2>1, <2>2 DEF Shape, IssuedAs
  <2>4. s \in DOMAIN sessions /\ SessionOk(s) /\ Complete(s) /\ sessions[s] \in SessionRows
    BY <1>1, <2>1 DEF IssuedAs, IInv, SessionsOk, Shape
  <2>5. /\ DOMAIN bookmarks' = DOMAIN kept \cup {n}
        /\ \A b \in DOMAIN kept : b # n => bookmarks'[b] = kept[b]
        /\ x = [caller |-> sessions[s].caller, filter |-> sessions[s].filter,
                watermark |-> sessions[s].watermark,
                parent |-> sessions[s].parent, session |-> s]
        /\ bookmarks' \in [DOMAIN bookmarks' -> {bookmarks'[b] : b \in DOMAIN bookmarks'}]
    BY <2>1, <2>2, <2>3 DEF IssuedAs, With
  <2>6. /\ x.caller = sessions[s].caller /\ x.filter = sessions[s].filter
        /\ x.watermark = sessions[s].watermark /\ x.parent = sessions[s].parent
        /\ x.session = s
    BY <2>5
  <2>7. \A b \in DOMAIN bookmarks' : b # n =>
          b \in DOMAIN bookmarks /\ bookmarks'[b] = bookmarks[b]
    BY <2>1, <2>5 DEF IssuedAs
  <2>8. x \in BookmarkRows
    <3>1. s \in Nat
      BY <1>1, <2>4 DEF Shape
    <3> QED
      BY <2>4, <2>5, <3>1 DEF SessionRows, BookmarkRows
  <2>9. bookmarks' \in [DOMAIN bookmarks' -> BookmarkRows] /\ DOMAIN bookmarks' \subseteq 1..n
    <3>1. \A b \in DOMAIN bookmarks' : bookmarks'[b] \in BookmarkRows
      BY <1>1, <2>2, <2>7, <2>8 DEF Shape
    <3>2. DOMAIN bookmarks' \subseteq 1..n
      BY <1>1, <2>2, <2>3, <2>7 DEF Shape
    <3> QED
      BY <2>5, <3>1, <3>2
  <2>10. /\ work' \in [Workers -> Works] /\ work'[w] = Idle
         /\ \A v \in Workers : v # w => work'[v] = work[v]
    <3>1. Idle \in Works
      BY DEF Idle, Works
    <3> QED
      BY <1>1, <1>2, <3>1, OneWorker
  <2>11. Shape' /\ Grows
    <3>1. elapsed' \in 0..issued'
      BY <1>1, <1>2, <2>2, <2>3 DEF Shape
    <3> QED
      BY <1>1, <1>2, <2>2, <2>3, <2>7, <2>9, <2>10, <3>1 DEF Shape, Grows
  <2>12. Keeps /\ \A t \in DOMAIN sessions' : SessionOk(t)'
    <3>1. \A t \in DOMAIN sessions : SessionOk(t) /\ sessions'[t] = sessions[t]
      BY <1>2 DEF IInv, SessionsOk
    <3> QED
      BY <1>1, <1>2, <2>11, <3>1, UntouchedStays DEF Keeps
  <2>13. BookmarkOk(n)'
    <3>1. PICK reader, f, u : /\ reader = sessions[s].caller.reader
                              /\ f = sessions[s].filter /\ u = sessions[s].watermark
      OBVIOUS
    <3>2. Promised(reader, f, u)
      BY <1>1, <2>4, <3>1, CompleteIsKept
    <3>3. /\ sessions[s].lower \in 0..Len(history) /\ u \in sessions[s].lower..Len(history)
          /\ Len(history) \in Nat /\ u \in 0..Len(history)
      BY <1>1, <2>4, <3>1 DEF SessionOk, Rooted, Shape
    <3>4. Promised(reader, f, u)'
      BY <1>1, <2>11, <3>2, <3>3, PromiseStays
    <3>5. x.parent \in 1..issued \cup {None}
      BY <2>4, <2>6 DEF SessionOk, Rooted
    <3>6. x.parent \in 1..issued' \cup {None} /\ (x.parent \in DOMAIN bookmarks' => x.parent # n)
      BY <2>2, <2>3, <3>5, NoneAssumption
    <3>7. x.parent \in DOMAIN bookmarks' =>
            /\ bookmarks'[x.parent].caller.reader = x.caller.reader
            /\ bookmarks'[x.parent].caller.policy = x.caller.policy
            /\ bookmarks'[x.parent].filter = x.filter
            /\ bookmarks'[x.parent].watermark <= x.watermark
      <4>1. SUFFICES ASSUME x.parent \in DOMAIN bookmarks'
                     PROVE  /\ bookmarks'[x.parent].caller.reader = x.caller.reader
                            /\ bookmarks'[x.parent].caller.policy = x.caller.policy
                            /\ bookmarks'[x.parent].filter = x.filter
                            /\ bookmarks'[x.parent].watermark <= x.watermark
        OBVIOUS
      <4>2. x.parent \in DOMAIN bookmarks /\ bookmarks'[x.parent] = bookmarks[x.parent]
        BY <2>7, <3>6, <4>1
      <4>3. /\ bookmarks[x.parent].caller.reader = x.caller.reader
            /\ bookmarks[x.parent].caller.policy = x.caller.policy
            /\ bookmarks[x.parent].filter = x.filter
            /\ bookmarks[x.parent].watermark = sessions[s].lower
        BY <2>4, <2>6, <4>2 DEF SessionOk, Rooted
      <4>4. sessions[s].lower <= x.watermark
        BY <2>6, <3>1, <3>3
      <4> QED
        BY <4>2, <4>3, <4>4
    <3>8. s \in 1..captured'
      BY <1>1, <1>2, <2>4 DEF Shape
    <3>9. u \in 0..Len(history')
      BY <1>2, <3>3
    <3>10. x.caller.reader = reader /\ x.filter = f /\ x.watermark = u
      BY <2>6, <3>1
    <3> QED
      BY <2>2, <2>6, <3>4, <3>6, <3>7, <3>8, <3>9, <3>10 DEF BookmarkOk
  <2>14. \A b \in DOMAIN bookmarks' : b \in DOMAIN bookmarks \/ BookmarkOk(b)'
    BY <2>7, <2>13
  <2>15. OneAnchorPerBoundary'
    <3>1. \A b \in DOMAIN bookmarks : bookmarks[b].session # s
      BY <2>1 DEF IssuedAs
    <3>2. \A b \in DOMAIN bookmarks :
            /\ b > elapsed
            /\ bookmarks[b].caller.reader = x.caller.reader
            /\ bookmarks[b].caller.policy = x.caller.policy
            /\ bookmarks[b].filter = x.filter
            /\ bookmarks[b].watermark = x.watermark
            => ~(x.parent = None /\ bookmarks[b].parent = None) /\ x.parent # b
      <4>1. Equivalent(s) = {}
        BY <2>1 DEF IssuedAs
      <4> QED
        BY <2>6, <4>1 DEF Equivalent
    <3>3. \A b \in DOMAIN bookmarks : bookmarks[b].parent # n
      <4>1. \A b \in DOMAIN bookmarks : bookmarks[b].parent \in 1..issued \cup {None}
        BY <1>1 DEF BookmarksOk, BookmarkOk
      <4> QED
        BY <2>3, <4>1, NoneAssumption
    <3>4. elapsed' = elapsed /\ bookmarks'[n] = x
      BY <1>2, <2>2
    <3> SUFFICES ASSUME NEW a \in DOMAIN bookmarks', NEW b \in DOMAIN bookmarks', a # b
                 PROVE  /\ bookmarks'[a].session # bookmarks'[b].session
                        /\ (/\ a > elapsed /\ b > elapsed
                            /\ bookmarks'[a].caller.reader = bookmarks'[b].caller.reader
                            /\ bookmarks'[a].caller.policy = bookmarks'[b].caller.policy
                            /\ bookmarks'[a].filter = bookmarks'[b].filter
                            /\ bookmarks'[a].watermark = bookmarks'[b].watermark)
                           => ~(bookmarks'[a].parent = None /\ bookmarks'[b].parent = None)
                              /\ bookmarks'[a].parent # b
      BY <3>4 DEF OneAnchorPerBoundary
    <3>5. CASE a = n
      <4>1. b \in DOMAIN bookmarks /\ bookmarks'[b] = bookmarks[b]
        BY <2>7, <3>5
      <4> QED
        BY <2>6, <3>1, <3>2, <3>4, <3>5, <4>1
    <3>6. CASE b = n
      <4>1. a \in DOMAIN bookmarks /\ bookmarks'[a] = bookmarks[a]
        BY <2>7, <3>6
      <4> QED
        BY <2>6, <3>1, <3>2, <3>3, <3>4, <3>6, <4>1
    <3>7. CASE a # n /\ b # n
      <4>1. /\ a \in DOMAIN bookmarks /\ bookmarks'[a] = bookmarks[a]
            /\ b \in DOMAIN bookmarks /\ bookmarks'[b] = bookmarks[b]
        BY <2>7, <3>7
      <4> QED
        BY <1>1, <4>1 DEF OneAnchorPerBoundary
    <3> QED
      BY <3>5, <3>6, <3>7
  <2>16. \A v \in Workers : work'[v] = work[v] \/ WorkOk(v)'
    BY <2>10, IdleIsOk
  <2> QED
    BY <2>11, <2>12, <2>14, <2>15, <2>16, Together
<1> QED
  BY <1>1, <1>3, <1>4, IssueKeeps

(***************************************************************************)
(* The theorems.                                                           *)
(***************************************************************************)

\* Nothing is there at first.
LEMMA InitIInv ==
  Init => IInv
<1> SUFFICES ASSUME Init PROVE IInv
  OBVIOUS
<1>1. DOMAIN sessions = {} /\ DOMAIN bookmarks = {} /\ Len(history) = 0
  BY DEF Init
<1>2. history \in Seq([incident : Incidents, state : States])
  BY DEF Init
<1>3. sessions \in [DOMAIN sessions -> SessionRows]
        /\ bookmarks \in [DOMAIN bookmarks -> BookmarkRows]
  BY <1>1 DEF Init
<1>4. work \in [Workers -> Works] /\ \A w \in Workers : work[w] = Idle
  BY DEF Init, Idle, Works
<1>5. Shape
  BY <1>1, <1>2, <1>3, <1>4 DEF Init, Shape
<1>6. WorksOk
  BY <1>4 DEF WorksOk, WorkOk, Idle
<1> QED
  BY <1>1, <1>5, <1>6 DEF IInv, SessionsOk, BookmarksOk, OneAnchorPerBoundary

\* Each step keeps the invariant.
LEMMA NextIInv ==
  IInv /\ [Next]_vars => IInv'
<1> SUFFICES ASSUME IInv, [Next]_vars PROVE IInv'
  OBVIOUS
<1>1. CASE UNCHANGED vars
  <2>1. Shape' /\ Grows /\ elapsed <= elapsed'
    BY <1>1 DEF IInv, Shape, Grows, vars
  <2> QED
    BY <1>1, <2>1, QuietStep DEF vars
<1>2. CASE Clock
  BY <1>2, ClockStep
<1>3. CASE \E w \in Workers : Request(w) \/ Serve(w) \/ Abandon(w)
  <2> PICK w \in Workers : Request(w) \/ Serve(w) \/ Abandon(w)
    BY <1>3
  <2>1. CASE Request(w)
    BY <2>1, BeginStep, PageStep DEF Request
  <2>2. CASE Serve(w)
    BY <2>2, CaptureStep, ScopeStep, PageStep, MarkStep, IssueStep DEF Serve
  <2>3. CASE Abandon(w)
    BY <2>3, AbandonStep
  <2> QED
    BY <2>1, <2>2, <2>3
<1> QED
  BY <1>1, <1>2, <1>3 DEF Next, Clock

\* The invariant holds throughout.
THEOREM Invariance == Spec => []IInv
BY InitIInv, NextIInv, PTL DEF Spec

\* Rows, counters and requests keep their types: TypeOK is part of the invariant.
THEOREM TypeCorrect == Spec => []TypeOK
<1>1. IInv => TypeOK
  <2> SUFFICES ASSUME IInv PROVE TypeOK
    OBVIOUS
  <2>1. Shape
    BY DEF IInv
  <2>2. \A s \in DOMAIN sessions :
          /\ sessions[s].caller \in Callers /\ sessions[s].limit \in Limits
          /\ sessions[s].watermark \in 0..Len(history)
          /\ sessions[s].lower \in 0..sessions[s].watermark
          /\ sessions[s].cursors \subseteq 1..Expected(s)
          /\ sessions[s].complete \subseteq sessions[s].cursors
    <3> SUFFICES ASSUME NEW s \in DOMAIN sessions
                 PROVE  /\ sessions[s].caller \in Callers /\ sessions[s].limit \in Limits
                        /\ sessions[s].watermark \in 0..Len(history)
                        /\ sessions[s].lower \in 0..sessions[s].watermark
                        /\ sessions[s].cursors \subseteq 1..Expected(s)
                        /\ sessions[s].complete \subseteq sessions[s].cursors
      OBVIOUS
    <3>1. sessions[s] \in SessionRows /\ Len(history) \in Nat
      BY <2>1 DEF Shape
    <3>2. SessionOk(s)
      BY DEF IInv, SessionsOk
    <3> QED
      BY <3>1, <3>2 DEF SessionRows, SessionOk, Rooted
  <2>3. \A b \in DOMAIN bookmarks :
          /\ bookmarks[b].caller \in Callers
          /\ bookmarks[b].watermark \in 0..Len(history)
          /\ bookmarks[b].session \in 1..captured
    BY <2>1 DEF IInv, BookmarksOk, BookmarkOk, Shape, BookmarkRows
  <2>4. \A w \in Workers :
          work[w].at \in {"idle", "capture", "scope", "read", "mark", "issue"}
    BY <2>1 DEF Shape, Works
  <2> QED
    BY <2>1, <2>2, <2>3, <2>4 DEF Shape, TypeOK
<1> QED
  BY Invariance, <1>1, PTL

\* A bookmark stands only for what its reader was shown, unredacted: over chains of
\* any length, pages marked and unmarked by any number of requests at once, sessions
\* and bookmarks that expire in between.
THEOREM BookmarksCover == Spec => []CoverageComplete
<1>1. IInv => CoverageComplete
  BY DEF IInv, BookmarksOk, BookmarkOk, Promised, CoverageComplete
<1> QED
  BY Invariance, <1>1, PTL

\* However many requests finish a boundary at once, one bookmark is issued for it.
THEOREM BoundaryHasOneAnchor == Spec => []OneAnchorPerBoundary
<1>1. IInv => OneAnchorPerBoundary
  BY DEF IInv
<1> QED
  BY Invariance, <1>1, PTL

\* A chain of bookmarks stays with its reader, policy and filter.
THEOREM ChainKeepsScope == Spec => []LineageKeepsScope
<1>1. IInv => LineageKeepsScope
  BY DEF IInv, BookmarksOk, BookmarkOk, LineageKeepsScope
<1> QED
  BY Invariance, <1>1, PTL

\* A bookmark goes only once it has expired.
THEOREM BookmarksStay == Spec => LiveBookmarksStay
<1> DEFINE Stay == \A b \in DOMAIN bookmarks :
                     b > elapsed => b \in DOMAIN bookmarks' /\ bookmarks'[b] = bookmarks[b]
<1>1. IInv /\ [Next]_vars => [Stay]_vars
  <2> SUFFICES ASSUME IInv, Next PROVE Stay
    BY DEF vars
  <2>1. Shape
    BY DEF IInv
  <2>2. CASE UNCHANGED bookmarks
    BY <2>2
  <2>3. CASE \E w \in Workers : Issue(w)
    <3> PICK w \in Workers : Issue(w)
      BY <2>3
    <3>1. CASE UNCHANGED <<bookmarks, issued>>
      BY <3>1
    <3>2. CASE \E s, kept : IssuedAs(s, kept)
      <4>1. PICK s, kept : IssuedAs(s, kept)
        BY <3>2
      <4>2. \A b \in DOMAIN bookmarks : b # issued'
        BY <2>1, <4>1 DEF Shape, IssuedAs
      <4> QED
        BY <4>1, <4>2 DEF IssuedAs, With
    <3> QED
      BY <2>1, <3>1, <3>2, IssueKeeps
  <2> QED
    <3>1. UNCHANGED bookmarks \/ \E w \in Workers : Issue(w)
      BY DEF Next, Transition, RaiseFloor, SessionsExpire, BookmarksExpire, Request, Start,
             Resume, LaterPage, Serve, Capture, Scope, FirstPage, Mark, Abandon
    <3> QED
      BY <2>2, <2>3, <3>1
<1> QED
  BY Invariance, <1>1, PTL DEF Spec, LiveBookmarksStay
=============================================================================
