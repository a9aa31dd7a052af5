----------------------------- MODULE QueryCache -----------------------------
(* One entry of the client's query cache (TanStack Query 5, a library) as the hooks of
   the frontend use it: staleTime is a minute, so within one visit an entry is asked for
   again only when it is empty or was invalidated.  Answers are put in late; the value
   they carry was read when the server handled the request.                          *)

CONSTANT NoData

EmptyQuery == [data |-> NoData, invalid |-> FALSE, flight |-> NoData]
QueryOf(Data) == [data : Data \cup {NoData}, invalid : BOOLEAN, flight : Data \cup {NoData}]

\* A shown entry is fetched when it is empty or invalid and no answer is on its way.
NeedsFetch(q) == q.flight = NoData /\ (q.data = NoData \/ q.invalid)
Fetched(q, value) == [q EXCEPT !.flight = value]
HasAnswer(q) == q.flight # NoData
\* Nothing is on its way and nothing will be asked for.
CacheRests(q) == ~NeedsFetch(q) /\ ~HasAnswer(q)
\* An entry whose value on the server is v is true to it: an answer on its way carries v,
\* and data that is believed is v.
Owes(q, v) == IF q.flight # NoData THEN q.flight = v
              ELSE q.data # NoData /\ q.invalid = FALSE => q.data = v
Answered(q) == [data |-> q.flight, invalid |-> FALSE, flight |-> NoData]

\* invalidateQueries: a shown entry with data drops the answer on its way and asks again;
\* a first fetch, or one of an entry that is not shown, goes on and counts as fresh.
Invalidated(q, shown) ==
  [q EXCEPT !.invalid = TRUE, !.flight = IF shown /\ q.data # NoData THEN NoData ELSE @]

\* setQueryData does not stop an answer on its way.
Written(q, value) == [q EXCEPT !.data = value, !.invalid = FALSE]
=============================================================================
