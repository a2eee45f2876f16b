----------------------------- MODULE ExecHistory -----------------------------
(***************************************************************************)
(* GET /sessions/{id}/exec: the history of a session's exec tasks, page by *)
(* page, newest first (ListExecHistory in internal/sandbox/service.go, its *)
(* cursor tokens in internal/sandbox/cursor.go and the query in            *)
(* internal/store/sqlite/store.go), while tasks are added, cleaned up and  *)
(* deleted with their sandbox, and while tokens expire.                    *)
(*                                                                         *)
(* The position of a row is the second it was started in and, within one   *)
(* second, its id.  Ids are drawn at random and compared as strings: here  *)
(* they are naturals, and any unused one may be drawn.  A token is what it *)
(* is signed for; signature and encoding are left out.                     *)
(***************************************************************************)
EXTENDS Integers, FiniteSets

CONSTANTS
    Execs,          \* exec ids, in the order of SQLite
    Sessions,
    SessionOf,      \* the session of the sandbox of a task
    Readers,        \* clients that page through a history
    ReaderSession,  \* the session of each
    Limits,         \* page sizes they ask for
    MaxPage,        \* the page size the store allows: 200
    Ttls,           \* settings of CURSOR_TOKEN_TTL_SECONDS
    MaxTime         \* bound: the clock, in seconds

ASSUME ExecHistoryAssumption ==
    /\ Execs \subseteq Nat /\ IsFiniteSet(Execs)
    /\ SessionOf \in [Execs -> Sessions]
    /\ ReaderSession \in [Readers -> Sessions]
    /\ Limits \subseteq Nat \ {0} /\ MaxPage \in Nat \ {0}
    /\ Ttls \subseteq Nat
    /\ MaxTime \in Nat \ {0}

VARIABLES
    now,            \* the clock
    started,        \* started_at of each task that Execute has drawn, or 0
    pending,        \* tasks whose row has yet to be inserted
    rows,           \* the table exec_tasks
    ttl,            \* the setting the server runs with
    reader          \* what each client holds

vars == <<now, started, pending, rows, ttl, reader>>

-----------------------------------------------------------------------------
\* What a cursor says: after which row to go on, and for a token also for whom,
\* for which page size and until when.  An expiry of 0 is none.
Tokens  == [kind : {"token"}, time : 1..MaxTime, id : Execs, session : Sessions,
            limit : Limits, issued : 1..MaxTime, expires : Nat]
Start   == [kind |-> "none"]

\* got and owed are history: the rows received, and the rows that were there when
\* the first page was listed, have been there since and are still to be received.
ReaderState == [pc : {"reading", "done", "refused"}, cursor : Tokens \cup {Start},
                got : SUBSET Execs, owed : SUBSET Execs]

TypeOK ==
    /\ now \in 1..MaxTime
    /\ started \in [Execs -> 0..MaxTime]
    /\ pending \subseteq Execs /\ rows \subseteq Execs
    /\ ttl \in Ttls
    /\ reader \in [Readers -> ReaderState]

Init ==
    /\ now = 1
    /\ started = [e \in Execs |-> 0]
    /\ pending = {} /\ rows = {}
    /\ ttl \in Ttls
    /\ reader = [c \in Readers |-> [pc |-> "reading", cursor |-> Start,
                                    got |-> {}, owed |-> {}]]

-----------------------------------------------------------------------------
(***************************************************************************)
(* The table.                                                              *)
(***************************************************************************)

Tick ==
    /\ now < MaxTime
    /\ now' = now + 1
    /\ UNCHANGED <<started, pending, rows, ttl, reader>>

\* Execute draws an id and takes the time, ...
Execute(e) ==
    /\ started[e] = 0
    /\ started' = [started EXCEPT ![e] = now]
    /\ pending' = pending \cup {e}
    /\ UNCHANGED <<now, rows, ttl, reader>>

\* ... and inserts the row later, maybe after rows that were started later.
CreateExecTask(e) ==
    /\ e \in pending
    /\ rows' = rows \cup {e}
    /\ pending' = pending \ {e}
    /\ UNCHANGED <<now, started, ttl, reader>>

\* Rows that were completed long enough ago go, and so do those of a sandbox that
\* is deleted.  Which ones these are is left open.
CleanupExecHistory(gone) ==
    /\ rows' = rows \ gone
    /\ reader' = [c \in Readers |-> [reader[c] EXCEPT !.owed = @ \ gone]]
    /\ UNCHANGED <<now, started, pending, ttl>>

\* The server is restarted with another CURSOR_TOKEN_TTL_SECONDS.
Restart(setting) ==
    /\ ttl' = setting
    /\ UNCHANGED <<now, started, pending, rows, reader>>

-----------------------------------------------------------------------------
(***************************************************************************)
(* The pages.                                                              *)
(***************************************************************************)

\* ORDER BY started_at DESC, id DESC: e comes before f.
Newer(e, f) ==
    \/ started[e] > started[f]
    \/ started[e] = started[f] /\ e > f

\* Mutant: AND (started_at < ? OR (started_at = ? AND id <= ?)).
AfterInclusive(cursor, e) ==
    \/ cursor.kind = "none"
    \/ started[e] < cursor.time
    \/ started[e] = cursor.time /\ e <= cursor.id

\* Mutant: AND started_at < ?.
AfterSecond(cursor, e) == cursor.kind = "none" \/ started[e] < cursor.time

\* AND (started_at < ? OR (started_at = ? AND id < ?)).
After(cursor, e) ==
    \/ cursor.kind = "none"
    \/ started[e] < cursor.time
    \/ started[e] = cursor.time /\ e < cursor.id

\* The rows of a session that the query may list.
Rest(session, cursor) ==
    {e \in rows : SessionOf[e] = session /\ After(cursor, e)}

\* LIMIT: the newest of them, as many as fit, and no other.
IsPage(page, rest, limit) ==
    LET size == IF limit > MaxPage THEN MaxPage ELSE limit
    IN  /\ page \subseteq rest
        /\ \A e \in page, f \in rest \ page : Newer(e, f)
        /\ \/ Cardinality(page) = size
           \/ Cardinality(page) < size /\ page = rest

\* Mutant: a token is no longer valid in the second it expires.
AcceptedBefore(cursor, session, limit) ==
    cursor.kind = "token" =>
        /\ cursor.session = session
        /\ cursor.expires = 0 \/ now < cursor.expires
        /\ ttl = 0 \/ now - cursor.issued <= 2 * ttl
        /\ cursor.limit = limit

\* parseCursor: a token must be for this session and this page size, and neither
\* expired nor twice as old as tokens may now get.  The older form of a cursor,
\* started_at|exec_id, is taken as it is.
Accepted(cursor, session, limit) ==
    cursor.kind = "token" =>
        /\ cursor.session = session
        /\ cursor.expires = 0 \/ now <= cursor.expires
        /\ ttl = 0 \/ now - cursor.issued <= 2 * ttl
        /\ cursor.limit = limit

\* buildCursorToken, for the last row of a page.
NextCursor(last, session, limit) ==
    [kind |-> "token", time |-> started[last], id |-> last, session |-> session,
     limit |-> limit, issued |-> now, expires |-> IF ttl > 0 THEN now + ttl ELSE 0]

\* What a client may send: its own cursor, which it may have put into the older
\* form, or by mistake a token of another session.
Sent(c) ==
    LET own == reader[c].cursor
    IN  {own}
        \cup (IF own.kind = "none" THEN {}
              ELSE {[kind |-> "legacy", time |-> own.time, id |-> own.id]})
        \cup {NextCursor(e, SessionOf[e], limit) :
              e \in {f \in rows : SessionOf[f] # ReaderSession[c]}, limit \in Limits}

\* A page, and with it the cursor of the next one; an empty page has none.
ListExecHistory(c, cursor, limit, page) ==
    LET rest == Rest(ReaderSession[c], cursor)
        owed == IF cursor.kind = "none" THEN rest ELSE reader[c].owed
    IN  /\ reader[c].pc = "reading"
        /\ cursor \in Sent(c)
        /\ Accepted(cursor, ReaderSession[c], limit)
        /\ IsPage(page, rest, limit)
        /\ \/ /\ page = {}
              /\ reader' = [reader EXCEPT ![c] = [@ EXCEPT !.pc = "done"]]
           \/ \E last \in page :
                 /\ \A e \in page : e = last \/ Newer(e, last)
                 /\ reader' = [reader EXCEPT ![c] =
                        [pc |-> "reading",
                         cursor |-> NextCursor(last, ReaderSession[c], limit),
                         got |-> @.got \cup page, owed |-> owed \ page]]
    /\ UNCHANGED <<now, started, pending, rows, ttl>>

\* The cursor is refused, and the client gives up.
ListRefused(c, cursor, limit) ==
    /\ reader[c].pc = "reading"
    /\ cursor \in Sent(c)
    /\ ~Accepted(cursor, ReaderSession[c], limit)
    /\ reader' = [reader EXCEPT ![c] = [@ EXCEPT !.pc = "refused"]]
    /\ UNCHANGED <<now, started, pending, rows, ttl>>

-----------------------------------------------------------------------------
Next ==
    \/ Tick
    \/ \E e \in Execs : Execute(e) \/ CreateExecTask(e)
    \/ \E gone \in SUBSET rows : CleanupExecHistory(gone)
    \/ \E setting \in Ttls : Restart(setting)
    \/ \E c \in Readers : \E cursor \in Sent(c), limit \in Limits :
          \/ ListRefused(c, cursor, limit)
          \/ \E page \in SUBSET Rest(ReaderSession[c], cursor) :
                ListExecHistory(c, cursor, limit, page)

Spec == Init /\ [][Next]_vars

-----------------------------------------------------------------------------
(***************************************************************************)
(* Properties.                                                             *)
(***************************************************************************)

\* Whatever is inserted or removed between two pages, also the row the cursor
\* names, a page goes on after everything received: no row comes twice, and the
\* order is newest first over all pages.
PagesFollow ==
    \A c \in Readers : reader[c].pc = "reading" =>
        \A e \in reader[c].got, f \in Rest(ReaderSession[c], reader[c].cursor) :
            Newer(e, f)

\* A client that reaches the empty page has received every row of its session that
\* was there at the first page and was not removed before its turn.
NothingSkipped ==
    \A c \in Readers : reader[c].pc = "done" => reader[c].owed = {}

\* A client that keeps to its page size and goes on in time is never refused, as
\* long as the setting stays what it was when the token was issued.
TimelyTokenAccepted ==
    \A c \in Readers :
        LET token == reader[c].cursor
        IN  token.kind = "token" /\ token.expires = token.issued + ttl
            /\ now <= token.expires
                => Accepted(token, ReaderSession[c], token.limit)
=============================================================================
