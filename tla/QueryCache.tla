----------------------------- MODULE QueryCache -----------------------------
(***************************************************************************)
(* One entry of the cache the pages read the server through (TanStack      *)
(* Query).  The server's history is a sequence of moments; an answer is    *)
(* the number of the moment it was computed at, somewhere between the      *)
(* request and its arrival.  0 is "no answer" and "no request".            *)
(***************************************************************************)
EXTENDS Integers

Entries(moments) ==
    [data   : moments \cup {0},   \* the moment of the answer that is kept
     asked  : moments \cup {0},   \* when the request in flight was sent
     stale  : BOOLEAN,            \* invalidated: read again when next shown
     behind : BOOLEAN]            \* its last request failed, or was in flight
                                  \* and left alone when it was invalidated

NoEntry ==
    [data |-> 0, asked |-> 0, stale |-> FALSE, behind |-> FALSE]

\* A request is sent, unless one is in flight.
Fetch(q, now) ==
    IF q.asked = 0 THEN [q EXCEPT !.asked = now, !.behind = FALSE] ELSE q

\* A component that reads the entry is shown.
Mount(q, now) == IF q.data = 0 \/ q.stale THEN Fetch(q, now) ELSE q

\* The request in flight is answered with what held at some moment since.
Arrivals(q, now) ==
    {[q EXCEPT !.data = i, !.asked = 0, !.stale = FALSE] : i \in q.asked .. now}

\* It fails for good: what was kept stays.
Failure(q) == [q EXCEPT !.asked = 0, !.behind = TRUE]

\* setQueryData: a request in flight goes on, and its answer replaces the data.
SetData(q, i) == [q EXCEPT !.data = i, !.stale = FALSE, !.behind = FALSE]

\* invalidateQueries.  An entry that is shown is requested again, in place of
\* a request in flight.  One in flight for an entry that is not shown, or a
\* first one, with no data to fall back on, is left to finish, and its answer
\* counts as fresh.
Invalidate(q, shown, now) ==
    IF q.data = 0 /\ q.asked # 0
    THEN [q EXCEPT !.behind = TRUE]
    ELSE [q EXCEPT !.stale = q.data # 0,
                   !.asked = IF shown THEN now ELSE @,
                   !.behind = ~shown /\ (@ \/ q.asked # 0)]
=============================================================================
