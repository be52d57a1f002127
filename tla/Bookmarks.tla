----------------------------- MODULE Bookmarks -----------------------------
(***************************************************************************)
(* Pages over a frozen view of the incident history, and the bookmarks     *)
(* issued for views that were read in full: operational_cursor.py and      *)
(* operational_bookmarks.py.                                               *)
(*                                                                         *)
(* Each transaction is one step.  Row authorization happens outside any of *)
(* them, so `work' carries what a request knows from one to the next while *)
(* other requests, of any caller, run in between.  Tokens are the numbers  *)
(* of the rows they name; a request may name any token that exists.        *)
(* Sessions live thirty minutes and bookmarks ninety days from their       *)
(* creation, so each kind expires in the order of its numbers.             *)
(***************************************************************************)
EXTENDS Integers, Sequences, FiniteSetsExt

CONSTANTS
  Incidents,
  Callers,             \* records: the stable reader, its login, its policy
  Filters,             \* a lifecycle state, or AnyState
  AnyState,
  Limits,              \* page sizes a query may ask for
  Workers,             \* requests that may be in progress
  SessionsPerReader, SessionsInAll,
  PagesPerSession, ItemsInAll,
  BookmarksPerReader, BookmarksInAll,
  MaxRevisions, MaxFloor, MaxCaptures, MaxIssues,   \* bounds of the model
  Persistent,          \* callers who ask again for as long as it takes
  None

States == {"OPEN", "RECOVERING", "RESOLVED"}

ASSUME CallersAssumption ==
  \A c \in Callers : DOMAIN c = {"reader", "login", "policy"}
ASSUME LimitsAssumption == Limits \subseteq Nat \ {0}
ASSUME NoneAssumption == None \notin Nat

VARIABLES
  history,    \* the transitions of all incidents; the index is the revision
  floor,      \* gateway_publication_history_floor
  sessions, captured, lapsed,    \* rows; how many were made; how many expired
  bookmarks, issued, elapsed,    \* the same for gateway_publication_bookmark
  work,
  served      \* ghost: which revisions were shown, unredacted, to which reader

vars == <<history, floor, sessions, captured, lapsed, bookmarks, issued, elapsed,
          work, served>>

Idle == [at |-> "idle"]

-----------------------------------------------------------------------------
(* Queries over the rows. *)

\* The latest transition of its incident among those up to watermark w.
Current(r, w) ==
  r \in 1..w /\ \A q \in (r + 1)..w : history[q].incident # history[r].incident

Matches(r, f) == f = AnyState \/ history[r].state = f

RowsOfNewIncidents(f, lower, w) ==
  {r \in 1..w : /\ Current(r, w) /\ Matches(r, f)
                /\ \A q \in 1..lower : history[q].incident # history[r].incident}

Rows(f, lower, w) == {r \in 1..w : Current(r, w) /\ Matches(r, f) /\ r > lower}

\* The sort by state, severity and time is abstracted to any order.
Orders(rows) ==
  {o \in [1..Cardinality(rows) -> rows] : \A r \in rows : \E i \in DOMAIN o : o[i] = r}

ItemCount(s) == Cardinality(DOMAIN sessions[s].items)
OnPage(s, p) == {i \in DOMAIN sessions[s].items :
                   /\ (p - 1) * sessions[s].limit < i
                   /\ i <= p * sessions[s].limit}
PageItems(s, p) == {sessions[s].items[i] : i \in OnPage(s, p)}
TruncatedAtEnd(s, p) == p * sessions[s].limit <= ItemCount(s)

Truncated(s, p) == p * sessions[s].limit < ItemCount(s)

Expected(s) ==
  LET pages == (ItemCount(s) + sessions[s].limit - 1) \div sessions[s].limit
  IN  IF pages = 0 THEN 1 ELSE pages

Without(rows, id) == [x \in DOMAIN rows \ {id} |-> rows[x]]
With(rows, id, row) == [x \in DOMAIN rows \cup {id} |-> IF x = id THEN row ELSE rows[x]]

CleanedOldest(rows, upTo) ==
  IF rows = <<>> THEN rows
  ELSE Without(rows, CHOOSE x \in DOMAIN rows : \A y \in DOMAIN rows : x <= y)

\* rows after the clean-up: the one that expired first is gone.
Cleaned(rows, upTo) ==
  LET old == {x \in DOMAIN rows : x <= upTo}
  IN  IF old = {} THEN rows
      ELSE Without(rows, CHOOSE x \in old : \A y \in old : x <= y)

OfReader(rows, reader) == {x \in DOMAIN rows : rows[x].caller.reader = reader}
Held(rows) == MapThenSumSet(LAMBDA x : Cardinality(DOMAIN rows[x].items), DOMAIN rows)

-----------------------------------------------------------------------------
Init ==
  /\ history = <<>> /\ floor = 0
  /\ sessions = <<>> /\ captured = 0 /\ lapsed = 0
  /\ bookmarks = <<>> /\ issued = 0 /\ elapsed = 0
  /\ work = [w \in Workers |-> Idle]
  /\ served = {}

(* The owner and the clock. *)

\* An incident begins OPEN; after that any call of the store may follow.
Transition(i, state) ==
  /\ Len(history) < MaxRevisions
  /\ state # "OPEN" => \E r \in DOMAIN history : history[r].incident = i
  /\ history' = Append(history, [incident |-> i, state |-> state])
  /\ UNCHANGED <<floor, sessions, captured, lapsed, bookmarks, issued, elapsed, work,
                 served>>

RaiseFloor ==
  /\ \E f \in (floor + 1)..Len(history) : f <= MaxFloor /\ floor' = f
  /\ UNCHANGED <<history, sessions, captured, lapsed, bookmarks, issued, elapsed, work,
                 served>>

SessionsExpire ==
  /\ \E n \in (lapsed + 1)..captured : lapsed' = n
  /\ UNCHANGED <<history, floor, sessions, captured, bookmarks, issued, elapsed, work,
                 served>>

\* A bookmark outlives the session it was issued for.
BookmarksExpire ==
  /\ \E n \in (elapsed + 1)..issued :
       /\ \A b \in DOMAIN bookmarks : b <= n => bookmarks[b].session <= lapsed
       /\ elapsed' = n
  /\ UNCHANGED <<history, floor, sessions, captured, lapsed, bookmarks, issued, work,
                 served>>

-----------------------------------------------------------------------------
(* Requests. *)

Becomes(w, state) == work' = [work EXCEPT ![w] = state]

Start(w, c, f, k) ==
  /\ work[w] = Idle
  /\ \E coverage \in BOOLEAN :
       Becomes(w, [at |-> "capture",
                   frame |-> [caller |-> c, filter |-> f, limit |-> k, parent |-> None,
                              lower |-> 0, coverage |-> coverage]])
  /\ UNCHANGED <<history, floor, sessions, captured, lapsed, bookmarks, issued, elapsed,
                 served>>

ResumeByToken(w, c, b, k) ==
  /\ work[w] = Idle
  /\ b \in DOMAIN bookmarks
  /\ b > elapsed /\ bookmarks[b].watermark >= floor
  /\ Becomes(w, [at |-> "capture",
                 frame |-> [caller |-> c, filter |-> bookmarks[b].filter, limit |-> k,
                            parent |-> b, lower |-> bookmarks[b].watermark,
                            coverage |-> TRUE]])
  /\ UNCHANGED <<history, floor, sessions, captured, lapsed, bookmarks, issued, elapsed,
                 served>>

Resume(w, c, b, k) ==
  /\ work[w] = Idle
  /\ b \in DOMAIN bookmarks
  /\ bookmarks[b].caller.reader = c.reader
  /\ bookmarks[b].caller.policy = c.policy
  /\ b > elapsed /\ bookmarks[b].watermark >= floor
  /\ Becomes(w, [at |-> "capture",
                 frame |-> [caller |-> c, filter |-> bookmarks[b].filter, limit |-> k,
                            parent |-> b, lower |-> bookmarks[b].watermark,
                            coverage |-> TRUE]])
  /\ UNCHANGED <<history, floor, sessions, captured, lapsed, bookmarks, issued, elapsed,
                 served>>

RoomFor(frame, rows, kept) ==
  /\ Cardinality(DOMAIN kept) < SessionsInAll
  /\ Cardinality(OfReader(kept, frame.caller.reader)) < SessionsPerReader
  /\ Cardinality(rows) <= frame.limit * PagesPerSession
  /\ Cardinality(rows) <= ItemsInAll - Held(kept)

\* One transaction: a refusal takes the clean-up back with it.
Capture(w) ==
  /\ work[w].at = "capture"
  /\ LET frame == work[w].frame
         kept  == Cleaned(sessions, lapsed)
         rows  == Rows(frame.filter, frame.lower, Len(history))
         row(items) == [caller |-> frame.caller, filter |-> frame.filter,
                        limit |-> frame.limit, parent |-> frame.parent,
                        lower |-> frame.lower, watermark |-> Len(history),
                        items |-> items, cursors |-> {1}, complete |-> {},
                        scoped |-> FALSE]
     IN \/ /\ RoomFor(frame, rows, kept)
           /\ captured < MaxCaptures
           /\ captured' = captured + 1
           /\ \E items \in Orders(rows) : sessions' = With(kept, captured', row(items))
           /\ Becomes(w, [at |-> IF frame.coverage THEN "scope" ELSE "read",
                          session |-> captured'])
        \/ /\ ~RoomFor(frame, rows, kept)
           /\ Becomes(w, Idle)
           /\ UNCHANGED <<sessions, captured>>
  /\ UNCHANGED <<history, floor, lapsed, bookmarks, issued, elapsed, served>>

\* Filter and parent are written here in the code; until then the session is a
\* plain one.  It may have expired and been cleaned up since.
Scope(w) ==
  /\ work[w].at = "scope"
  /\ LET s == work[w].session
     IN IF s \in DOMAIN sessions
        THEN /\ sessions' = [sessions EXCEPT ![s].scoped = TRUE]
             /\ Becomes(w, [at |-> "read", session |-> s])
        ELSE Becomes(w, Idle) /\ UNCHANGED sessions
  /\ UNCHANGED <<history, floor, captured, lapsed, bookmarks, issued, elapsed, served>>

\* The page of the cursor: what is hidden is today's decision, row by row.
ReadPage(w, s, p, coverage) ==
  /\ p \in sessions[s].cursors
  /\ s > lapsed
  /\ \E seen \in SUBSET PageItems(s, p) :
       /\ served' = served \cup {<<sessions[s].caller.reader, r>> : r \in seen}
       /\ Becomes(w, IF coverage
                     THEN [at |-> "mark", session |-> s, page |-> p,
                           partial |-> seen # PageItems(s, p)]
                     ELSE Idle)
  /\ sessions' = IF Truncated(s, p)
                 THEN [sessions EXCEPT ![s].cursors = @ \cup {p + 1}]
                 ELSE sessions

FirstPage(w) ==
  /\ work[w].at = "read"
  /\ LET s == work[w].session
     IN \/ s \in DOMAIN sessions /\ ReadPage(w, s, 1, sessions[s].scoped)
        \/ /\ s \notin DOMAIN sessions \/ s <= lapsed
           /\ Becomes(w, Idle) /\ UNCHANGED <<sessions, served>>
  /\ UNCHANGED <<history, floor, captured, lapsed, bookmarks, issued, elapsed>>

\* A request by cursor, of the login the session was captured for.
LaterPage(w, c, s, p) ==
  /\ work[w] = Idle
  /\ s \in DOMAIN sessions /\ sessions[s].caller = c
  /\ \E coverage \in BOOLEAN : ReadPage(w, s, p, coverage)
  /\ UNCHANGED <<history, floor, captured, lapsed, bookmarks, issued, elapsed>>

\* The page is recorded; its outcome replaces that of an earlier reading.
Mark(w) ==
  /\ work[w].at = "mark"
  /\ LET s == work[w].session
         p == work[w].page
         complete == IF work[w].partial THEN sessions[s].complete \ {p}
                     ELSE sessions[s].complete \cup {p}
     IN IF s \in DOMAIN sessions /\ sessions[s].scoped
        THEN /\ sessions' = [sessions EXCEPT ![s].complete = complete]
             /\ Becomes(w, IF ~Truncated(s, p) /\ ~work[w].partial
                           THEN [at |-> "issue", session |-> s]
                           ELSE Idle)
        ELSE Becomes(w, Idle) /\ UNCHANGED sessions
  /\ UNCHANGED <<history, floor, captured, lapsed, bookmarks, issued, elapsed, served>>

EquivalentParent(s) ==
  {b \in DOMAIN bookmarks : /\ b > elapsed /\ b = sessions[s].parent
                            /\ bookmarks[b].watermark = sessions[s].watermark}

\* A live bookmark that already stands for this boundary.
Equivalent(s) ==
  {b \in DOMAIN bookmarks :
     /\ b > elapsed
     /\ bookmarks[b].caller.reader = sessions[s].caller.reader
     /\ bookmarks[b].caller.policy = sessions[s].caller.policy
     /\ bookmarks[b].filter = sessions[s].filter
     /\ bookmarks[b].watermark = sessions[s].watermark
     /\ \/ sessions[s].parent = None /\ bookmarks[b].parent = None
        \/ b = sessions[s].parent}

Complete(s) == Cardinality(sessions[s].complete) = Expected(s)

\* The pages are counted, and counted again in the transaction that inserts: the
\* one path that writes.  Every other one answers and returns.
Issue(w) ==
  /\ work[w].at = "issue"
  /\ LET s     == work[w].session
         kept  == Cleaned(bookmarks, elapsed)
         new   == /\ s \in DOMAIN sessions
                  /\ Complete(s)
                  /\ s > lapsed
                  /\ \A b \in DOMAIN bookmarks : bookmarks[b].session # s
                  /\ Equivalent(s) = {}
                  /\ Cardinality(DOMAIN kept) < BookmarksInAll
                  /\ Cardinality(OfReader(kept, sessions[s].caller.reader))
                       < BookmarksPerReader
         row   == [caller |-> sessions[s].caller, filter |-> sessions[s].filter,
                   watermark |-> sessions[s].watermark, parent |-> sessions[s].parent,
                   session |-> s]
     IN \/ /\ new
           /\ issued < MaxIssues
           /\ issued' = issued + 1
           /\ bookmarks' = With(kept, issued', row)
        \/ ~new /\ UNCHANGED <<bookmarks, issued>>
  /\ Becomes(w, Idle)
  /\ UNCHANGED <<history, floor, sessions, captured, lapsed, elapsed, served>>

\* The process dies, a callback raises, or the answer is too large to send.
Abandon(w) ==
  /\ work[w] # Idle
  /\ Becomes(w, Idle)
  /\ UNCHANGED <<history, floor, sessions, captured, lapsed, bookmarks, issued, elapsed,
                 served>>

Request(w) ==
  \/ \E c \in Callers, f \in Filters, k \in Limits : Start(w, c, f, k)
  \/ \E c \in Callers, b \in DOMAIN bookmarks, k \in Limits : Resume(w, c, b, k)
  \/ \E c \in Callers, s \in DOMAIN sessions : \E p \in sessions[s].cursors :
       LaterPage(w, c, s, p)

Serve(w) == Capture(w) \/ Scope(w) \/ FirstPage(w) \/ Mark(w) \/ Issue(w)

Next ==
  \/ \E i \in Incidents, state \in States : Transition(i, state)
  \/ RaiseFloor \/ SessionsExpire \/ BookmarksExpire
  \/ \E w \in Workers : Request(w) \/ Serve(w) \/ Abandon(w)

Spec == Init /\ [][Next]_vars

CaptureOf(w, c) == work[w].at = "capture" /\ work[w].frame.caller = c /\ Capture(w)

\* A persistent caller asks time and again, and its requests are not for ever
\* lost before the capture; every request ends, one way or another.  Nobody else is
\* obliged to ask for anything.
Fairness ==
  /\ \A w \in Workers : WF_vars(Serve(w) \/ Abandon(w))
  /\ \A c \in Persistent :
       /\ SF_vars(\E w \in Workers, f \in Filters, k \in Limits : Start(w, c, f, k))
       /\ SF_vars(\E w \in Workers : CaptureOf(w, c))

FairSpec == Spec /\ Fairness

-----------------------------------------------------------------------------
(* Properties. *)

\* The shape of the state: rows carry a frame a request can have, page numbers
\* and items lie within the session, the counters are above every row.
TypeOK ==
  /\ history \in Seq([incident : Incidents, state : States])
  /\ floor \in 0..Len(history)
  /\ captured \in Nat /\ lapsed \in 0..captured
  /\ issued \in Nat /\ elapsed \in 0..issued
  /\ DOMAIN sessions \subseteq 1..captured
  /\ \A s \in DOMAIN sessions :
       /\ sessions[s].caller \in Callers /\ sessions[s].limit \in Limits
       /\ sessions[s].watermark \in 0..Len(history)
       /\ sessions[s].lower \in 0..sessions[s].watermark
       /\ sessions[s].cursors \subseteq 1..Expected(s)
       /\ sessions[s].complete \subseteq sessions[s].cursors
  /\ DOMAIN bookmarks \subseteq 1..issued
  /\ \A b \in DOMAIN bookmarks :
       /\ bookmarks[b].caller \in Callers
       /\ bookmarks[b].watermark \in 0..Len(history)
       /\ bookmarks[b].session \in 1..captured
  /\ \A w \in Workers :
       work[w].at \in {"idle", "capture", "scope", "read", "mark", "issue"}

\* What a bookmark promises: of every incident, the state it was in at the
\* watermark was shown to the reader, unredacted, if it passes the filter.  It
\* holds over a whole chain of resumed readings, under page decisions that
\* change between two readings, expiry, retries, and other logins in between.
CoverageComplete ==
  \A b \in DOMAIN bookmarks :
    \A r \in Rows(bookmarks[b].filter, 0, bookmarks[b].watermark) :
      <<bookmarks[b].caller.reader, r>> \in served

\* _issue() looks for an equivalent bookmark before it inserts one: no two live
\* bookmarks begin a chain at one boundary, none repeats its own live parent,
\* and a session has at most one, however many requests finish it at once.
OneAnchorPerBoundary ==
  \A a, b \in DOMAIN bookmarks : a # b =>
    /\ bookmarks[a].session # bookmarks[b].session
    /\ a > elapsed /\ b > elapsed
       /\ bookmarks[a].caller.reader = bookmarks[b].caller.reader
       /\ bookmarks[a].caller.policy = bookmarks[b].caller.policy
       /\ bookmarks[a].filter = bookmarks[b].filter
       /\ bookmarks[a].watermark = bookmarks[b].watermark
       => ~(bookmarks[a].parent = None /\ bookmarks[b].parent = None) /\ bookmarks[a].parent # b

\* A chain never changes hands: a resumed reading has the reader, policy and
\* filter of its parent and goes no further back, whoever holds the token.
LineageKeepsScope ==
  \A b \in DOMAIN bookmarks :
    LET a == bookmarks[b].parent
    IN a \in DOMAIN bookmarks =>
         /\ bookmarks[a].caller.reader = bookmarks[b].caller.reader
         /\ bookmarks[a].caller.policy = bookmarks[b].caller.policy
         /\ bookmarks[a].filter = bookmarks[b].filter
         /\ bookmarks[a].watermark <= bookmarks[b].watermark

\* A bookmark that has not expired is neither replaced nor cleaned up.
LiveBookmarksStay ==
  [][\A b \in DOMAIN bookmarks :
       b > elapsed => b \in DOMAIN bookmarks' /\ bookmarks'[b] = bookmarks[b]]_vars

\* OPERATIONAL_AWARENESS docs give a session thirty minutes and clean one expired
\* session per admission: a caller whose sessions have all expired, and who keeps
\* asking, gets a new one.
ExpiryFreesTheReader ==
  \A c \in Persistent :
    (/\ OfReader(sessions, c.reader) \subseteq 1..lapsed
     /\ captured < MaxCaptures)
    ~> (~(OfReader(sessions, c.reader) \subseteq 1..lapsed) \/ captured = MaxCaptures)
=============================================================================
