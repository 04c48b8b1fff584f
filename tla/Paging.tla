-------------------------------- MODULE Paging --------------------------------
(***************************************************************************)
(* The cursor-paged lists of the API, walked page by page while rows       *)
(* arrive and change their status.  Every endpoint runs the same query:    *)
(* rows that match the filter, ordered, from the row the cursor names on,  *)
(* without that row, one more than fits the page.                          *)
(***************************************************************************)
EXTENDS Naturals, Sequences, SequencesExt

CONSTANTS
    MaxListRows,    \* bound: rows of the table; a row is named by its id
    CreatedTimes,   \* values of created_at
    PageSize        \* take

ASSUME PagingAssumption ==
    MaxListRows \in Nat /\ CreatedTimes \subseteq Nat \ {0} /\ PageSize \in Nat \ {0}

VARIABLES
    listing,        \* the endpoint: how it orders, whether its filter can change
    created,        \* created_at of every row, 0 while there is no such row
    listed,         \* rows that match the filter
    walk,           \* the client's cursor, and whether it was told there is more
    pageItems,      \* history: rows it was given, and rows it was given twice
    steady,         \* history: rows that have matched since the walk began
    strays          \* history: pages fetched after the cursor's row had ceased to match

pagingVars == <<listing, created, listed, walk, pageItems, steady, strays>>

-----------------------------------------------------------------------------
ListRows == 1 .. MaxListRows
NoCursor == 0

(* orderBy created_at and id, or created_at alone; newest first but for    *)
(* the review queue.  What an audit entry is filtered by never changes.    *)
ListSmsLogs  == [byId |-> TRUE,  oldestFirst |-> FALSE, filterMoves |-> TRUE]
ListOrders   == ListSmsLogs
ListPayments == ListSmsLogs
ListReviews  == [byId |-> FALSE, oldestFirst |-> TRUE,  filterMoves |-> TRUE]
ListEvents   == [byId |-> FALSE, oldestFirst |-> FALSE, filterMoves |-> TRUE]
ListCompanies == ListEvents
ListAudit    == [byId |-> FALSE, oldestFirst |-> FALSE, filterMoves |-> FALSE]
Listings == {ListSmsLogs, ListOrders, ListPayments, ListReviews, ListEvents,
             ListCompanies, ListAudit}

(* Row a comes before row b in the order of the endpoint.                  *)
Ahead(a, b) ==
    \/ IF listing.oldestFirst THEN created[a] < created[b] ELSE created[a] > created[b]
    \/ listing.byId /\ created[a] = created[b] /\ a > b

(* Rows the order does not tell apart come in any order, in each query     *)
(* anew.                                                                   *)
OrderedRows(rows) ==
    {s \in SetToSeqs(rows) : \A i, j \in DOMAIN s : i < j => ~Ahead(s[j], s[i])}

PagingInit ==
    /\ listing \in Listings
    /\ created \in [ListRows -> CreatedTimes \cup {0}]
    /\ listed \in SUBSET {r \in ListRows : created[r] # 0}
    /\ walk = [cursor |-> NoCursor, more |-> TRUE]
    /\ pageItems = [given |-> {}, twice |-> {}]
    /\ steady = listed
    /\ strays = 0

(* Rows of the table from the cursor on: findMany's cursor.                *)
FromCursor == {r \in listed : walk.cursor = NoCursor \/ ~Ahead(r, walk.cursor)}

FirstPage(rows) == [i \in 1 .. Min({Len(rows), PageSize}) |-> rows[i]]

(* Mutant of NextCursor: the row fetched to learn whether there is more.   *)
ExtraRow(rows) == rows[PageSize + 1]
NextCursor(rows) == Last(FirstPage(rows))

(* skip: 1 passes over whichever row comes first, the cursor's own row as  *)
(* long as it matches.                                                     *)
FetchPage ==
    /\ walk.more
    /\ \E s \in OrderedRows(FromCursor) :
          LET rows  == IF walk.cursor = NoCursor \/ s = <<>> THEN s ELSE Tail(s)
              items == Range(FirstPage(rows))
          IN /\ walk' = IF Len(rows) > PageSize THEN [walk EXCEPT !.cursor = NextCursor(rows)]
                        ELSE [walk EXCEPT !.more = FALSE]
             /\ pageItems' = [given |-> pageItems.given \cup items,
                              twice |-> pageItems.twice \cup (pageItems.given \cap items)]
    /\ strays' = IF walk.cursor = NoCursor \/ walk.cursor \in listed THEN strays ELSE strays + 1
    /\ UNCHANGED <<listing, created, listed, steady>>

(* A row is inserted; created_at is when its transaction began, so it may  *)
(* become visible after younger ones.                                      *)
InsertRow(r) ==
    /\ created[r] = 0
    /\ \E t \in CreatedTimes : created' = [created EXCEPT ![r] = t]
    /\ listed' \in {listed, listed \cup {r}}
    /\ UNCHANGED <<listing, walk, pageItems, steady, strays>>

(* An order is verified, a review resolved, an event delivered: the row    *)
(* leaves one filter and enters another.                                   *)
MoveRow(r) ==
    /\ listing.filterMoves /\ created[r] # 0
    /\ listed' = IF r \in listed THEN listed \ {r} ELSE listed \cup {r}
    /\ steady' = steady \ {r}
    /\ UNCHANGED <<listing, created, walk, pageItems, strays>>

PagingNext == FetchPage \/ \E r \in ListRows : InsertRow(r) \/ MoveRow(r)

PagingSpec == PagingInit /\ [][PagingNext]_pagingVars

-----------------------------------------------------------------------------
PagingTypeOK ==
    /\ listing \in Listings
    /\ created \in [ListRows -> CreatedTimes \cup {0}]
    /\ listed \subseteq ListRows /\ steady \subseteq listed
    /\ walk \in [cursor : ListRows \cup {NoCursor}, more : BOOLEAN]
    /\ pageItems \in [given : SUBSET ListRows, twice : SUBSET ListRows]
    /\ strays \in Nat

(* The order tells every two rows of the table apart.                      *)
TotallyOrdered ==
    listing.byId \/ \A a, b \in ListRows : created[a] = created[b] /\ created[a] # 0 => a = b

(* A client that follows next_cursor to its end is given no row twice, and *)
(* every row that matched throughout, but for one row for each page it     *)
(* fetched after the cursor's row had left the filter, as long as no two   *)
(* rows of a list ordered by created_at alone share it (the list methods'  *)
(* cursor with skip: 1).                                                   *)
PagesComplete ==
    TotallyOrdered =>
        /\ pageItems.twice = {}
        /\ ~walk.more => Cardinality(steady \ pageItems.given) <= strays
=============================================================================
