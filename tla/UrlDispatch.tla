---------------------------- MODULE UrlDispatch ----------------------------
(***************************************************************************)
(* How CLoggerInterface finds the handler of a request: the constructor    *)
(* sorts the table of handlers by URL and method with an exchange sort,    *)
(* and HandleHttpRequest looks a request up with a binary search.  A row   *)
(* is its key here: a number that orders URLs as strcmp does and, within a *)
(* URL, methods by their number.  Rows are counted from 1.                 *)
(***************************************************************************)
EXTENDS Integers, Sequences

-----------------------------------------------------------------------------
(* The sort. *)

Swapped(table, i, j) ==
    [n \in 1..Len(table) |-> table[IF n = i THEN j ELSE IF n = j THEN i ELSE n]]

\* One comparison of the two nested loops.
Exchange(table, i, j) ==
    IF table[i] > table[j] THEN Swapped(table, i, j) ELSE table

\* The inner loop of row i, up to row j; then the outer loop, up to row i.
InnerLoop(table, i) ==
    LET upTo[j \in i..Len(table)] ==
          IF j = i THEN table ELSE Exchange(upTo[j - 1], i, j)
    IN  upTo[Len(table)]

SortTable(table) ==
    LET upTo[i \in 0..Len(table)] ==
          IF i = 0 THEN table ELSE InnerLoop(upTo[i - 1], i)
    IN  upTo[Len(table)]

-----------------------------------------------------------------------------
(* The search, in the range lo..hi-1 of rows still possible. *)

Middle(r) == (r.lo + r.hi) \div 2

\* The range is empty: "Not implemented".
Missed(r) == Middle(r) = r.hi

Probe(table, key, r) ==
    IF key > table[Middle(r)] THEN [r EXCEPT !.lo = Middle(r) + 1]
                              ELSE [r EXCEPT !.hi = Middle(r)]

WholeTable(table) == [lo |-> 1, hi |-> Len(table) + 1]

\* The row found, 0 when there is none.
Lookup(table, key) ==
    LET Bound  == 1..(Len(table) + 1)
        Ranges == {r \in [lo : Bound, hi : Bound] : r.lo <= r.hi}
        from[r \in Ranges] ==
          IF Missed(r) THEN 0
          ELSE IF table[Middle(r)] = key THEN Middle(r)
          ELSE from[Probe(table, key, r)]
    IN  from[WholeTable(table)]
=============================================================================
