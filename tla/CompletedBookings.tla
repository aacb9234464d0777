------------------------- MODULE CompletedBookings -------------------------
(***************************************************************************)
(* The list of closed bookings                                             *)
(* (frontend/src/app/(partner)/completed-bookings/page.tsx): a search and  *)
(* filters that live in the page and in its address, two effects that      *)
(* carry each to the other (the dates only one way), pages of a list that  *)
(* shrinks when a check-out is reversed, and the drawer of one booking.    *)
(***************************************************************************)
EXTENDS Naturals, FiniteSets

CONSTANTS Bookings,  \* the closed bookings
          Named,     \* those that match the search text
          Recent,    \* those of the dates chosen
          None,
          PageSize, MaxTyped  \* bounds what is typed

VARIABLES
    status,   \* [Bookings -> status]
    shown,    \* the filters of the page: its search, its status chip, its dates
    url,      \* the filters of the address
    nav,      \* None, or the address the router is going to
    landing,  \* None, or the address it is about to show
    led,      \* history: the last address asked for is none of the page's
    page,     \* the page of the list, from 0
    list,     \* None, or the rows and the total of the page
    viewing,  \* None, or the booking of the drawer
    parts,    \* what the drawer has read of it
    target,   \* None, or the booking whose check-out is to be reversed
    reason,   \* TRUE when a reason is typed
    call,     \* None, or the booking of a reversal under way
    typed     \* filters changed so far

filterVars == <<shown, url, nav, landing, led, page>>
drawerVars == <<viewing, parts>>
reversalVars == <<target, reason, call>>
vars == <<status, filterVars, list, drawerVars, reversalVars, typed>>

Filters == [q : {"", "name"}, status : {"checked_out", "cancelled"},
            dates : {"all", "month"}]
\* What the drawer reads: the booking, and its guests, payments and charges.
Parts == {"booking", "lists"}

Matching(f) ==
    {b \in Bookings : /\ status[b] = f.status
                      /\ f.q = "name" => b \in Named
                      /\ f.dates = "month" => b \in Recent}

\* How many rows a page has, of a total.
RowsOf(total, n) ==
    IF n * PageSize >= total THEN 0
    ELSE IF (n + 1) * PageSize <= total THEN PageSize
    ELSE total - n * PageSize

-----------------------------------------------------------------------------
\* The page opens with the filters of its address.
Init ==
    /\ status \in [Bookings -> {"checked_out", "cancelled"}]
    /\ url \in Filters /\ shown = url /\ nav = None /\ landing = None
    /\ led = FALSE
    /\ page = 0 /\ list = None
    /\ viewing = None /\ parts = {}
    /\ target = None /\ reason = FALSE /\ call = None /\ typed = 0

NoOverlay == viewing = None /\ target = None

\* New filters start at the first page and replace the address, in place of
\* any replacement still waiting.
SetFilters(f) ==
    /\ NoOverlay /\ typed < MaxTyped /\ f # shown
    /\ shown' = f /\ nav' = f /\ led' = FALSE /\ page' = 0 /\ list' = None
    /\ typed' = typed + 1
    /\ UNCHANGED <<status, url, landing, drawerVars, reversalVars>>

\* The search of the header, the menu or the browser's back button leads here,
\* with filters of its own, without any, or with earlier ones.
FollowLink(f) ==
    /\ NoOverlay /\ typed < MaxTyped /\ f # url
    /\ nav' = f /\ led' = TRUE
    /\ typed' = typed + 1
    /\ UNCHANGED <<status, shown, url, landing, page, list, drawerVars, reversalVars>>

RouterReady ==
    /\ nav # None /\ landing = None
    /\ landing' = nav /\ nav' = None
    /\ UNCHANGED <<status, shown, url, led, page, list, drawerVars, reversalVars, typed>>

\* Faulty variant: an address that comes from elsewhere is not taken over.
TakenOverNever(address) == shown

\* The filters after the address changed: the dates stay those of the page.
TakenOver(address) == [address EXCEPT !.dates = shown.dates]

\* The address is shown; what differs in the page follows it, and is written
\* to the address again.
AddressShown ==
    /\ landing # None
    /\ url' = landing /\ landing' = None
    /\ shown' = TakenOver(landing)
    /\ IF shown' # shown
       THEN nav' = shown' /\ led' = FALSE /\ page' = 0 /\ list' = None
       ELSE UNCHANGED <<nav, led, page, list>>
    /\ UNCHANGED <<status, drawerVars, reversalVars, typed>>

\* The list of the filters and the page, read when it is not fresh.
ReadList ==
    /\ LET total == Cardinality(Matching(shown))
       IN  list' = [total |-> total, rows |-> RowsOf(total, page)]
    /\ UNCHANGED <<status, filterVars, drawerVars, reversalVars, typed>>

\* The pager is there while there is more than one page.
PreviousPage ==
    /\ NoOverlay /\ list # None /\ list.total > PageSize /\ page > 0
    /\ page' = page - 1 /\ list' = None
    /\ UNCHANGED <<status, shown, url, nav, landing, led, drawerVars, reversalVars,
                   typed>>

NextPage ==
    /\ NoOverlay /\ list # None /\ list.total > PageSize
    /\ (page + 1) * PageSize < list.total
    /\ page' = page + 1 /\ list' = None
    /\ UNCHANGED <<status, shown, url, nav, landing, led, drawerVars, reversalVars,
                   typed>>

-----------------------------------------------------------------------------
\* The drawer of a row reads the parts of its booking by themselves.
ViewBooking(b) ==
    /\ NoOverlay /\ list # None /\ list.rows > 0 /\ b \in Matching(shown)
    /\ viewing' = b /\ parts' = {}
    /\ UNCHANGED <<status, filterVars, list, reversalVars, typed>>

PartRead(p) ==
    /\ viewing # None /\ p \notin parts
    /\ parts' = parts \union {p}
    /\ UNCHANGED <<status, filterVars, list, viewing, reversalVars, typed>>

CloseDrawer ==
    /\ viewing # None
    /\ viewing' = None /\ parts' = {}
    /\ UNCHANGED <<status, filterVars, list, reversalVars, typed>>

-----------------------------------------------------------------------------
\* A check-out can be reversed from its row, with a reason.
OpenReversal(b) ==
    /\ NoOverlay /\ list # None /\ list.rows > 0 /\ b \in Matching(shown)
    /\ shown.status = "checked_out"
    /\ target' = b
    /\ UNCHANGED <<status, filterVars, list, drawerVars, reason, call, typed>>

TypeReason ==
    /\ target # None /\ ~reason /\ reason' = TRUE
    /\ UNCHANGED <<status, filterVars, list, drawerVars, target, call, typed>>

CloseReversal ==
    /\ target # None /\ target' = None
    /\ UNCHANGED <<status, filterVars, list, drawerVars, reason, call, typed>>

Reverse ==
    /\ target # None /\ reason /\ call = None
    /\ call' = target
    /\ UNCHANGED <<status, filterVars, list, drawerVars, target, reason, typed>>

\* The check-out is reversed; whatever dialog is open then closes.
reverse_checkout ==
    /\ call # None /\ status[call] = "checked_out"
    /\ status' = [status EXCEPT ![call] = "checked_in"]
    /\ call' = None /\ target' = None /\ reason' = FALSE
    /\ list' = None
    /\ UNCHANGED <<filterVars, drawerVars, typed>>

\* Refused, for a payment after it or because it is reversed already.
NotReversed ==
    /\ call # None
    /\ call' = None
    /\ UNCHANGED <<status, filterVars, list, drawerVars, target, reason, typed>>

Next ==
    \/ \E f \in Filters : SetFilters(f) \/ FollowLink(f)
    \/ RouterReady \/ AddressShown \/ ReadList \/ PreviousPage \/ NextPage
    \/ \E b \in Bookings : ViewBooking(b) \/ OpenReversal(b)
    \/ \E p \in Parts : PartRead(p)
    \/ CloseDrawer
    \/ TypeReason \/ CloseReversal \/ Reverse \/ reverse_checkout \/ NotReversed

Spec == Init /\ [][Next]_vars

-----------------------------------------------------------------------------
TypeOK ==
    /\ status \in [Bookings -> {"checked_out", "cancelled", "checked_in"}]
    /\ shown \in Filters /\ url \in Filters
    /\ nav \in Filters \union {None} /\ landing \in Filters \union {None}
    /\ led \in BOOLEAN
    /\ page \in 0..Cardinality(Bookings)
    /\ parts \subseteq Parts /\ typed \in 0..MaxTyped

\* What an address says of the filters of a page: search and chip always, the
\* dates when the page has written it.
Says(address) ==
    /\ address.q = shown.q /\ address.status = shown.status
    /\ ~led => address.dates = shown.dates

\* However typing and navigating alternate, once the router rests the address
\* names the search and the chip of the page; and its dates, unless the desk
\* was led to an address that differs from the page in nothing else.
AddressAgrees == nav = None /\ landing = None => Says(url)

\* Why: the address that comes last says so, and when the desk was led to it
\* the page follows it before the router rests.
AddressFollows ==
    /\ {shown, url} \subseteq Filters /\ {nav, landing} \subseteq Filters \union {None}
    /\ led \in BOOLEAN
    /\ IF nav # None THEN led \/ nav = shown
       ELSE IF landing # None THEN led \/ landing = shown
       ELSE Says(url)
=============================================================================
