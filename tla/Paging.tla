------------------------------- MODULE Paging -------------------------------
(***************************************************************************)
(* Listing a resource page by page: _items of api/v1/base.py with the      *)
(* helpers of api/api_common.py, and a client that follows the "next"      *)
(* links while others create and delete.  With allow_sorting the client    *)
(* asks for sort_key=id; an id stands for its place in that order.         *)
(***************************************************************************)
EXTENDS ApiRequest

CONSTANTS
  Reader,      \* the context the client lists in
  Limit,       \* its limit parameter, 0 for none
  MaxLimit     \* pagination_max_limit, -1 for infinite
ASSUME PagingAssumption == /\ Id \subseteq Nat \ {0} /\ Limit \in Nat
                           /\ MaxLimit = -1 \/ MaxLimit \in Nat \ {0}

VARIABLES
  walking,     \* "no", "yes" or "done"
  marker,      \* the id in the link to fetch next, 0 for the first page
  seen,        \* the ids received so far, in order
  stable,      \* the ids listed when the client began
  lost         \* whether a marker was gone when its page was fetched
walkVars == <<walking, marker, seen, stable, lost>>

Least(a, b) == IF a < b THEN a ELSE b

\* get_limit_and_marker: 0 means no pagination.
PageLimit == IF MaxLimit < 0 THEN Limit
             ELSE IF Least(MaxLimit, Limit) = 0 THEN MaxLimit ELSE Least(MaxLimit, Limit)

\* Python's items[from:to], for a sequence numbered from 1 here
Slice(s, from, to) ==
  LET Bound(k) == IF k < 0 THEN (IF Len(s) + k < 0 THEN 0 ELSE Len(s) + k) ELSE Least(k, Len(s))
  IN  SubSeq(s, Bound(from) + 1, Bound(to))

\* Mutant: the marker's place counted from 1.
MarkerIndexFromOne(list, mark) ==
  IF mark = 0 THEN -1
  ELSE IF \E i \in DOMAIN list : list[i] = mark
  THEN CHOOSE i \in DOMAIN list : list[i] = mark
  ELSE Len(list) - 1

\* PaginationEmulatedHelper.paginate.  The loop that looks for the marker
\* ends at the last item when it is not there.
MarkerIndex(list, mark) ==
  IF mark = 0 THEN -1
  ELSE IF \E i \in DOMAIN list : list[i] = mark
  THEN (CHOOSE i \in DOMAIN list : list[i] = mark) - 1
  ELSE Len(list) - 1
Paginate(list, limit, mark, reverse) ==
  LET i == MarkerIndex(list, mark)
  IN  IF limit = 0 THEN list
      ELSE IF reverse THEN Slice(list, i - limit, i)
      ELSE Slice(list, i + 1, i + limit + 1)

\* SortingEmulatedHelper.sort on the ids: the sequence of a set in order
Sorted(ids) == LET At(n) == CHOOSE id \in ids : Cardinality({k \in ids : k < id}) = n - 1
               IN  [n \in 1..Cardinality(ids) |-> At(n)]

\* What the plugin's query returns, and what policy.check leaves of a page:
\* the page is in order, and so is what is left.
Visible      == {id \in DOMAIN rows : Sees(Reader, rows[id])}
Readable(id) == Verdicts("get", Handler, Table, Reader, rows[id], {}) = "yes"
Listed       == Paginate(Sorted(Visible), PageLimit, marker, FALSE)
Page         == Sorted({id \in {Listed[i] : i \in DOMAIN Listed} : Readable(id)})

\* get_pagination_links: there is a next page unless this one is short.
HasNext(page, reverse) == PageLimit # 0 /\ ~(Len(page) < PageLimit /\ ~reverse)
\* get_next_link: the link of an empty page has no marker
NextMarker(page) == IF page = <<>> THEN 0 ELSE page[Len(page)]

WalkInit == /\ walking = "no" /\ marker = 0 /\ seen = <<>>
            /\ stable = {} /\ lost = FALSE

\* index: the first page, or the one the last "next" link names
Fetch ==
  /\ walking # "done"
  /\ walking' = IF HasNext(Page, FALSE) THEN "yes" ELSE "done"
  /\ marker' = NextMarker(Page)
  /\ seen' = seen \o Page
  /\ stable' = IF walking = "no" THEN Visible ELSE stable
  /\ lost' = (lost \/ (marker # 0 /\ marker \notin Visible))

(* Whoever follows the links until there is none sees every row that was   *)
(* there all the time, and no row twice, unless a row it was sent as a     *)
(* marker was deleted under it.                                            *)
WalkSeesStable ==
  /\ \A i, k \in DOMAIN seen : seen[i] = seen[k] => i = k
  /\ walking = "done" /\ ~lost =>
       \A id \in stable \intersect DOMAIN rows : \E i \in DOMAIN seen : seen[i] = id
=============================================================================
