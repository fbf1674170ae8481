------------------------------ MODULE PageWalk ------------------------------
(***************************************************************************)
(* Paging (src/shares/pagination, createPagination in shares/helpers): a   *)
(* client asks for page after page of a list and goes where x-next-page    *)
(* sends it until that is the page it is on.  The list changes meanwhile.  *)
(* A request is answered from one state of the list; the list and the      *)
(* handler that slices it are not in the repository.                       *)
(***************************************************************************)
EXTENDS Integers, Sequences

CONSTANTS
    MaxItems,   \* bound: items that ever come to the list
    PageQuery,  \* query parameters page and perPage of the first request: natural
    SizeQuery,  \* numbers, 0 for an absent one or one that is not a number
    DefaultPerPage,
    MaxPage     \* bound: pages the client asks for

ASSUME PagingAssumption ==
    /\ PageQuery \subseteq Nat /\ SizeQuery \subseteq Nat
    /\ DefaultPerPage \in Nat \ {0} /\ MaxPage \in Nat /\ MaxItems \in Nat

VARIABLES
    walk,       \* the client: "idle", "walking" or "ended"
    list,       \* items are numbered as they come
    made,       \* number of the newest
    page,       \* the page the next request asks for
    perPage,
    got,        \* items the client was given
    twice,      \* items the client was given twice
    steady,     \* history: items on the list ever since the walk began
    missing,    \* history: items of the list not given to the client when it ended
    events      \* history: of the walk, see Begin, Insert and Remove

walkVars == <<walk, list, made, page, perPage, got, twice, steady, missing, events>>

OnList == {list[i] : i \in 1..Len(list)}

\* Type invariant.
WalkTypeOK ==
    /\ walk \in {"idle", "walking", "ended"}
    /\ made \in Nat /\ list \in Seq(1..made)
    /\ page \in Nat \ {0} /\ perPage \in Nat \ {0}
    /\ \A S \in {got, twice, steady, missing} : S \subseteq 1..made
    /\ events \subseteq {"late", "beyond", "inserted", "removed"}

WalkInit ==
    /\ walk = "idle" /\ list = <<>> /\ made = 0
    /\ page = 1 /\ perPage = DefaultPerPage
    /\ got = {} /\ twice = {} /\ steady = {} /\ missing = {} /\ events = {}

-----------------------------------------------------------------------------
(* The pagination and the headers of an answer.                             *)

\* endIndex is part of the page.
BugCreatePagination(p, size) ==
    LET at == IF p = 0 THEN 1 ELSE p
        n == IF size = 0 THEN DefaultPerPage ELSE size
    IN  [page |-> at, perPage |-> n, startIndex |-> (at - 1) * n, endIndex |-> at * n + 1]

\* +page || 1 and +perPage || 20
CreatePagination(p, size) ==
    LET at == IF p = 0 THEN 1 ELSE p
        n == IF size = 0 THEN DefaultPerPage ELSE size
    IN  [page |-> at, perPage |-> n, startIndex |-> (at - 1) * n, endIndex |-> at * n]

\* Math.floor instead of Math.ceil
BugPagesCount(totalCount, size) == totalCount \div size

PagesCount(totalCount, size) == (totalCount + size - 1) \div size

\* There is always one more.
BugNeverLast(p, pagesCount) == p + 1

NextPage(p, pagesCount) == IF p = pagesCount THEN p ELSE p + 1

\* Of a pagination; a handler that has none gets no headers (see HttpExchange).
GetHeaders(pagination, totalCount) ==
    LET pagesCount == PagesCount(totalCount, pagination.perPage)
    IN  [pagesCount |-> pagesCount, nextPage |-> NextPage(pagination.page, pagesCount)]

-----------------------------------------------------------------------------
(* The client.                                                              *)

Begin ==
    /\ walk = "idle"
    /\ walk' = "walking"
    /\ \E p \in PageQuery, size \in SizeQuery :
        LET pagination == CreatePagination(p, size)
            late == pagination.page > 1
            beyond == pagination.page > PagesCount(Len(list), pagination.perPage)
        IN  /\ page' = pagination.page
            /\ perPage' = pagination.perPage
            /\ events' = {e \in {"late", "beyond"} : IF e = "late" THEN late ELSE beyond}
    /\ steady' = OnList
    /\ UNCHANGED <<list, made, got, twice, missing>>

\* Indexes of the code start at 0 and ranges exclude their end.
Slice(pagination) ==
    {list[i] : i \in {j \in 1..Len(list) :
                        pagination.startIndex < j /\ j <= pagination.endIndex}}

\* One request, its answer and the choice of the next page.
Turn ==
    /\ walk = "walking" /\ page <= MaxPage
    /\ LET pagination == CreatePagination(page, perPage)
           headers == GetHeaders(pagination, Len(list))
           given == Slice(pagination)
       IN  /\ got' = got \cup given
           /\ twice' = twice \cup (got \cap given)
           /\ page' = headers.nextPage
           /\ walk' = IF headers.nextPage = page THEN "ended" ELSE "walking"
           /\ missing' = IF headers.nextPage = page THEN OnList \ (got \cup given) ELSE missing
    /\ UNCHANGED <<list, made, perPage, steady, events>>

-----------------------------------------------------------------------------
(* The list.                                                                *)

\* A new item becomes the k-th; that is an event unless it is the last.
Insert(k) ==
    /\ made < MaxItems /\ k \in 1..(Len(list) + 1)
    /\ made' = made + 1
    /\ list' = [i \in 1..(Len(list) + 1) |->
                    IF i < k THEN list[i] ELSE IF i = k THEN made + 1 ELSE list[i - 1]]
    /\ events' = IF walk = "walking" /\ k <= Len(list) THEN events \cup {"inserted"} ELSE events
    /\ UNCHANGED <<walk, page, perPage, got, twice, steady, missing>>

Remove(k) ==
    /\ k \in 1..Len(list)
    /\ list' = [i \in 1..(Len(list) - 1) |-> IF i < k THEN list[i] ELSE list[i + 1]]
    /\ steady' = steady \ {list[k]}
    /\ events' = IF walk = "walking" THEN events \cup {"removed"} ELSE events
    /\ UNCHANGED <<walk, made, page, perPage, got, twice, missing>>

WalkNext ==
    \/ Begin \/ Turn
    \/ \E k \in 1..(Len(list) + 1) : Insert(k) \/ Remove(k)

WalkSpec == WalkInit /\ [][WalkNext]_walkVars

FairWalkSpec == WalkSpec /\ WF_walkVars(Turn)

-----------------------------------------------------------------------------
(* Properties.                                                              *)

\* However the list grows meanwhile, a walk from page 1 gives the client every
\* item that was on the list from its beginning to its end; only a removal can
\* hide one, by drawing it onto a page the client has left behind.
NothingMissed ==
    walk = "ended" /\ events \cap {"late", "removed"} = {} => steady \subseteq got

\* However the list shrinks meanwhile, the client is given no item twice; only
\* an item put before others can push one onto the page that comes next.
NothingTwice == "inserted" \notin events => twice = {}

\* A walk from page 1 while items are at most appended ends with everything
\* that is then on the list.
WalkCompletes == walk = "ended" /\ events = {} => missing = {}

\* What a client that follows x-next-page (getHeaders) may rely on: it is given what
\* stayed on the list, and all of a list that only grows at its end.
NothingLost == NothingMissed /\ WalkCompletes

\* A walk that begins on an existing page ends once no items come any more; a list
\* that grows by a page between any two requests keeps it going, and so does
\* x-next-page beyond the last page, where the walk began or where a removal left it.
WalkEnds ==
    <>[][made' = made]_walkVars =>
        (walk = "walking" ~> walk = "ended" \/ events \cap {"beyond", "removed"} # {})

=============================================================================
