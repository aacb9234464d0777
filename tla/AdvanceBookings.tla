-------------------------- MODULE AdvanceBookings --------------------------
(***************************************************************************)
(* The list of upcoming bookings                                           *)
(* (frontend/src/app/(partner)/advance-bookings/page.tsx): two queries,    *)
(* one per status, merged and cut into pages; filters that are mirrored in *)
(* the page's address; and two dialogs that cancel a booking or mark it as *)
(* a no-show, each with the booking it was opened for.                     *)
(***************************************************************************)
EXTENDS Naturals, FiniteSets

CONSTANTS Bookings, None, PageSize,
          MaxOther   \* bounds filter changes, links and other desks' work

VARIABLES
    status,       \* [Bookings -> status at the server]
    lists,        \* [Kinds -> the bookings of the last answer, or None]
    reads,        \* [Kinds -> the bookings a read under way has seen, or None]
    statusFilter, \* the status chip
    filters,      \* the search text and the dates: [q, dates]
    url,          \* the filters in the address
    nav,          \* None, or the address a navigation under way leads to
    page,
    dialog,       \* [Closings -> BOOLEAN]: which dialog is open
    target,       \* [Closings -> booking or None]
    calls,        \* requests under way
    other

listVars == <<lists, reads>>
filterVars == <<statusFilter, filters, url, nav>>
dialogVars == <<dialog, target, calls>>
vars == <<status, listVars, filterVars, page, dialogVars, other>>

Kinds == {"pending", "confirmed"}
Closings == {"cancelled", "no_show"}
Chips == Kinds \union {"all"}
Filters == [q : {"", "text"}, dates : {"", "days"}]

-----------------------------------------------------------------------------
\* The kinds that the status chip asks for.
Wanted == {k \in Kinds : statusFilter \in {k, "all"}}

\* The rows: the answers of both queries, merged.
Items == UNION {lists[k] : k \in {w \in Wanted : lists[w] # None}}

Loading == \E k \in Wanted : lists[k] = None

\* Faulty variant: the page asked for, in range or not.
CurrentUnclamped == page

\* The page shown for the page asked for, and how many rows it has (paginate).
TotalPages ==
    IF Items = {} THEN 1
    ELSE (Cardinality(Items) + PageSize - 1) \div PageSize

Current == IF page > TotalPages THEN TotalPages ELSE page

RowsBefore(n) ==
    IF n * PageSize > Cardinality(Items) THEN Cardinality(Items)
    ELSE n * PageSize

Rows == RowsBefore(Current) - RowsBefore(Current - 1)

-----------------------------------------------------------------------------
Init ==
    /\ status \in [Bookings -> Kinds]
    /\ lists = [k \in Kinds |-> None] /\ reads = lists
    /\ statusFilter = "all"
    /\ url = [q |-> "", dates |-> ""] /\ filters = url /\ nav = None
    /\ page = 1
    /\ dialog = [c \in Closings |-> FALSE]
    /\ target = [c \in Closings |-> None]
    /\ calls = {} /\ other = 0

\* A query reads on mount, each minute, and when its mark says so.
ReadList(k) ==
    /\ k \in Wanted /\ reads[k] = None
    /\ reads' = [reads EXCEPT ![k] = {b \in Bookings : status[b] = k}]
    /\ UNCHANGED <<status, lists, filterVars, page, dialogVars, other>>

ListRead(k) ==
    /\ reads[k] # None
    /\ lists' = [lists EXCEPT ![k] = reads[k]]
    /\ reads' = [reads EXCEPT ![k] = None]
    /\ UNCHANGED <<status, filterVars, page, dialogVars, other>>

\* Every filter starts again at the first page; new ones are other queries,
\* and the address is replaced.
SetFilters(f) ==
    /\ filters' = f
    /\ nav' = f
    /\ lists' = [k \in Kinds |-> None]
    /\ reads' = [k \in Kinds |-> None]
    /\ page' = 1

\* The dialogs are modal.
NoDialog == \A c \in Closings : ~dialog[c]

SetSearch(q) ==
    /\ NoDialog /\ other < MaxOther /\ q # filters.q
    /\ SetFilters([filters EXCEPT !.q = q])
    /\ other' = other + 1
    /\ UNCHANGED <<status, statusFilter, url, dialogVars>>

\* A date typed, or the range of a period chip.
SetDates(d) ==
    /\ NoDialog /\ other < MaxOther /\ d # filters.dates
    /\ SetFilters([filters EXCEPT !.dates = d])
    /\ other' = other + 1
    /\ UNCHANGED <<status, statusFilter, url, dialogVars>>

ClearFilters ==
    /\ NoDialog /\ other < MaxOther /\ filters # [q |-> "", dates |-> ""]
    /\ SetFilters([q |-> "", dates |-> ""])
    /\ other' = other + 1
    /\ UNCHANGED <<status, statusFilter, url, dialogVars>>

ChooseChip(s) ==
    /\ NoDialog /\ s # statusFilter
    /\ statusFilter' = s
    /\ page' = 1
    /\ UNCHANGED <<status, listVars, filters, url, nav, dialogVars, other>>

\* A link elsewhere on the screen (the menu, the global search) leads to this
\* page: it carries a search text at most.
FollowLink(q) ==
    /\ NoDialog /\ other < MaxOther
    /\ nav' = [q |-> q, dates |-> ""]
    /\ other' = other + 1
    /\ UNCHANGED <<status, listVars, statusFilter, filters, url, page,
                   dialogVars>>

\* A navigation ends: the last one asked for; a search text that differs is
\* taken over, the dates are not.
Navigated ==
    /\ nav # None
    /\ url' = nav
    /\ IF nav.q # filters.q
       THEN SetFilters([filters EXCEPT !.q = nav.q])
       ELSE /\ nav' = None
            /\ UNCHANGED <<filters, listVars, page>>
    /\ UNCHANGED <<status, statusFilter, dialogVars, other>>

TurnPage(p) ==
    /\ NoDialog /\ ~Loading /\ p # Current /\ p \in 1..TotalPages
    /\ page' = p
    /\ UNCHANGED <<status, listVars, filterVars, dialogVars, other>>

-----------------------------------------------------------------------------
\* The row's menu opens a dialog for its booking.
OpenDialog(c, b) ==
    /\ NoDialog /\ ~Loading /\ b \in Items
    /\ c = "no_show" => lists["confirmed"] # None /\ b \in lists["confirmed"]
    /\ dialog' = [dialog EXCEPT ![c] = TRUE]
    /\ target' = [target EXCEPT ![c] = b]
    /\ UNCHANGED <<status, listVars, filterVars, page, calls, other>>

DismissDialog(c) ==
    /\ dialog[c]
    /\ dialog' = [dialog EXCEPT ![c] = FALSE]
    /\ target' = [target EXCEPT ![c] = None]
    /\ UNCHANGED <<status, listVars, filterVars, page, calls, other>>

\* The dialog is hidden as its request leaves; the cancel dialog forgets its
\* booking at once, the no-show dialog when the request succeeds.
Confirm(c) ==
    /\ dialog[c] /\ target[c] # None
    /\ \A call \in calls : call.to # c
    /\ dialog' = [dialog EXCEPT ![c] = FALSE]
    /\ target' = IF c = "cancelled" THEN [target EXCEPT ![c] = None] ELSE target
    /\ calls' = calls \union {[to |-> c, of |-> target[c]]}
    /\ UNCHANGED <<status, listVars, filterVars, page, other>>

\* The server closes an upcoming booking; both queries are read anew.
Closed(call) ==
    /\ call \in calls
    /\ calls' = calls \ {call}
    /\ IF status[call.of] \in (IF call.to = "no_show" THEN {"confirmed"}
                               ELSE Kinds)
       THEN /\ status' = [status EXCEPT ![call.of] = call.to]
            /\ target' = IF call.to = "no_show"
                         THEN [target EXCEPT !["no_show"] = None] ELSE target
            /\ reads' = [k \in Kinds |->
                 IF k \in Wanted THEN {b \in Bookings : status'[b] = k}
                 ELSE None]
       ELSE UNCHANGED <<status, target, reads>>
    /\ UNCHANGED <<lists, filterVars, page, dialog, other>>

\* Another desk confirms a booking, checks it in or closes it.
OtherDesk(b, s) ==
    /\ other < MaxOther
    /\ <<status[b], s>> \in {<<"pending", "confirmed">>,
         <<"confirmed", "checked_in">>, <<"confirmed", "cancelled">>}
    /\ status' = [status EXCEPT ![b] = s]
    /\ other' = other + 1
    /\ UNCHANGED <<listVars, filterVars, page, dialogVars>>

Next ==
    \/ \E k \in Kinds : ReadList(k) \/ ListRead(k)
    \/ \E q \in {"", "text"} : SetSearch(q) \/ FollowLink(q)
    \/ \E d \in {"", "days"} : SetDates(d)
    \/ ClearFilters
    \/ \E s \in Chips : ChooseChip(s)
    \/ Navigated
    \/ \E p \in 1..Cardinality(Bookings) : TurnPage(p)
    \/ \E c \in Closings :
         \/ \E b \in Bookings : OpenDialog(c, b) \/ Closed([to |-> c, of |-> b])
         \/ DismissDialog(c)
         \/ Confirm(c)
    \/ \E b \in Bookings, s \in {"confirmed", "checked_in", "cancelled"} :
         OtherDesk(b, s)

Spec == Init /\ [][Next]_vars

-----------------------------------------------------------------------------
TypeOK ==
    /\ status \in [Bookings -> Kinds \union Closings \union {"checked_in"}]
    /\ \A k \in Kinds, l \in {lists, reads} :
         l[k] # None => l[k] \subseteq Bookings
    /\ statusFilter \in Chips /\ {filters, url} \subseteq Filters
    /\ nav # None => nav \in Filters
    /\ page \in {1} \union 1..Cardinality(Bookings)
    /\ dialog \in [Closings -> BOOLEAN]
    /\ target \in [Closings -> Bookings \union {None}]
    /\ calls \subseteq [to : Closings, of : Bookings]
    /\ other \in 0..MaxOther

\* A list with bookings shows some: not even the last booking of the last
\* page, closed here or elsewhere, leaves an empty page behind.
PageHasRows == ~Loading /\ Items # {} => Rows > 0

\* Why: the lists hold bookings, of which there are finitely many.
ListsOfBookings ==
    /\ page \in Nat \ {0}
    /\ {lists, reads} \subseteq [Kinds -> (SUBSET Bookings) \union {None}]
=============================================================================
