------------------------------ MODULE Payments ------------------------------
(***************************************************************************)
(* The payments page (frontend/src/app/(partner)/payments/page.tsx) of one *)
(* desk beside another: payments of a booking are collected, corrected and *)
(* refunded from a list that may be behind, in dialogs that stay open when *)
(* an answer is lost; and the sums the server keeps for the booking        *)
(* (backend/app/services/payments.py).                                     *)
(***************************************************************************)
EXTENDS Integers, FiniteSets, FiniteSetsExt

CONSTANTS Slots,     \* payments a booking can have, in the order made
          Amounts, None,
          MaxRefunds,\* bounds the refunds
          MaxOther,  \* bounds what the other desk does
          MaxFilters \* bounds how often the history is filtered or turned


VARIABLES
    pays,      \* [Slots -> payment or None]: the payments of the booking
    advance,   \* advance_amount of the booking
    deposit,   \* security_deposit of the booking
    refunds,   \* the refunds recorded, in sum, and how many; history: whether
               \* one of them found the deposit below zero
    list,      \* the payments as the page shows them, or None
    selected,  \* TRUE when the page is on this booking
    dialog,    \* None, or the dialog that is open
    call,      \* None, or the request under way and what became of it
    other,     \* what the other desk did
    draft,     \* the filter as edited
    applied,   \* the filter that drives history, summary and export
    page,      \* page of the billing history
    turns      \* filter changes and pages turned

bookVars == <<pays, advance, deposit, refunds>>
deskVars == <<list, selected, dialog, call>>
historyVars == <<draft, applied, page, turns>>
vars == <<bookVars, deskVars, other, historyVars>>

Purposes == {"stay", "deposit"}
Payment == [amount : Amounts, purpose : Purposes,
            status : {"completed", "corrected"}]
Ranges == {"all", "today"}

Completed(p) == pays[p] # None /\ pays[p].status = "completed"
Collected ==
    MapThenSumSet(LAMBDA p : pays[p].amount, {p \in Slots : Completed(p)})
FreeSlots == {p \in Slots : pays[p] = None}
NextSlot == CHOOSE p \in FreeSlots : \A q \in FreeSlots : p <= q

Smaller(a, b) == IF a < b THEN a ELSE b
Larger(a, b) == IF a > b THEN a ELSE b

-----------------------------------------------------------------------------
(* The server, one operator per request: what the sums become.             *)

Add(amount, purpose) ==
    IF purpose = "deposit"
    THEN deposit' = deposit + amount /\ UNCHANGED advance
    ELSE advance' = advance + amount /\ UNCHANGED deposit

collect_payment(amount, purpose) ==
    /\ FreeSlots # {}
    /\ pays' = [pays EXCEPT ![NextSlot] =
         [amount |-> amount, purpose |-> purpose, status |-> "completed"]]
    /\ Add(amount, purpose)
    /\ UNCHANGED refunds

\* A payment is never changed: it is closed and recorded anew, and the sums
\* move by the difference.
correct_payment(p, amount) ==
    /\ Completed(p) /\ FreeSlots # {}
    /\ pays' = [pays EXCEPT
         ![p].status = "corrected",
         ![NextSlot] = [pays[p] EXCEPT !.amount = amount]]
    /\ Add(amount - pays[p].amount, pays[p].purpose)
    /\ UNCHANGED refunds

Refunded(amount) ==
    [sum |-> refunds.sum + amount, count |-> refunds.count + 1,
     floored |-> refunds.floored \/ deposit < 0]

\* Faulty variant: what exceeds the advance is not taken from the deposit.
refund_paymentAdvanceOnly(amount) ==
    /\ amount <= advance + deposit
    /\ refunds.count < MaxRefunds
    /\ advance' = Larger(advance - amount, 0)
    /\ refunds' = Refunded(amount)
    /\ UNCHANGED <<pays, deposit>>

\* A refund names no payment: it is taken from the advance of the booking,
\* and what exceeds it from the deposit, which ends at zero if a correction
\* had left it below.
refund_payment(amount) ==
    /\ amount <= advance + deposit
    /\ refunds.count < MaxRefunds
    /\ LET fromAdvance == Smaller(advance, amount)
       IN  /\ advance' = advance - fromAdvance
           /\ deposit' = Larger(deposit - (amount - fromAdvance), 0)
    /\ refunds' = Refunded(amount)
    /\ UNCHANGED pays

\* A request as the server takes it, or refuses it.
Does(request) ==
    CASE request.kind = "collect" ->
           collect_payment(request.amount, request.purpose)
      [] request.kind = "correct" ->
           correct_payment(request.of, request.amount)
      [] request.kind = "refund" -> refund_payment(request.amount)

-----------------------------------------------------------------------------
Init ==
    /\ pays = [p \in Slots |-> None]
    /\ advance = 0 /\ deposit = 0
    /\ refunds = [sum |-> 0, count |-> 0, floored |-> FALSE]
    /\ list = None /\ selected \in BOOLEAN
    /\ dialog = None /\ call = None /\ other = 0
    /\ draft = "all" /\ applied = "all" /\ page = 0 /\ turns = 0

\* The booking is chosen in the list or by a row of the history; an address
\* with a booking opens the page on it.
SelectBooking ==
    /\ dialog = None /\ ~selected
    /\ selected' = TRUE /\ list' = None
    /\ UNCHANGED <<bookVars, dialog, call, other, historyVars>>

clearBookingFilter ==
    /\ dialog = None /\ selected
    /\ selected' = FALSE /\ list' = None
    /\ UNCHANGED <<bookVars, dialog, call, other, historyVars>>

ReadPayments ==
    /\ selected /\ list # pays
    /\ list' = pays
    /\ UNCHANGED <<bookVars, selected, dialog, call, other, historyVars>>

\* A dialog of a payment in the list starts with its amount; a refund asks
\* for no payment, only an amount.
OpenCorrect(p) ==
    /\ selected /\ dialog = None /\ list # None
    /\ list[p] # None /\ list[p].status = "completed"
    /\ \E a \in Amounts :
         dialog' = [kind |-> "correct", of |-> p, amount |-> a]
    /\ UNCHANGED <<bookVars, list, selected, call, other, historyVars>>

OpenRefund(p) ==
    /\ selected /\ dialog = None /\ list # None
    /\ list[p] # None /\ list[p].status = "completed"
    /\ dialog' = [kind |-> "refund", of |-> p, amount |-> list[p].amount]
    /\ UNCHANGED <<bookVars, list, selected, call, other, historyVars>>

OpenCollect(purpose) ==
    /\ selected /\ dialog = None
    /\ \E a \in Amounts :
         dialog' = [kind |-> "collect", purpose |-> purpose, amount |-> a]
    /\ UNCHANGED <<bookVars, list, selected, call, other, historyVars>>

\* A dialog may be closed while its request is under way.
CloseDialog ==
    /\ dialog # None
    /\ dialog' = None
    /\ UNCHANGED <<bookVars, list, selected, call, other, historyVars>>

\* One request of the desk at a time is followed.
Submit ==
    /\ dialog # None /\ call = None
    /\ call' = [request |-> dialog, done |-> FALSE]
    /\ UNCHANGED <<bookVars, list, selected, dialog, other, historyVars>>

\* The server works on the request; its answer may yet be lost.
Work ==
    /\ call # None /\ ~call.done
    /\ Does(call.request)
    /\ call' = [call EXCEPT !.done = TRUE]
    /\ UNCHANGED <<list, selected, dialog, other, historyVars>>

\* The answer of a success closes the dialog that is open by then, whichever
\* it is, and the lists are read anew.
Succeeded ==
    /\ call # None /\ call.done
    /\ call' = None
    /\ dialog' = IF dialog # None /\ dialog.kind = call.request.kind THEN None
                 ELSE dialog
    /\ list' = IF selected THEN pays ELSE None
    /\ UNCHANGED <<bookVars, selected, other, historyVars>>

\* A refusal, or an answer lost after the server did the work: the dialog
\* stays open and can be sent again.
Failed ==
    /\ call # None
    /\ call' = None
    /\ UNCHANGED <<bookVars, list, selected, dialog, other, historyVars>>

OtherDesk(kind, p, a) ==
    /\ other < MaxOther
    /\ Does([kind |-> kind, of |-> p, purpose |-> "stay", amount |-> a])
    /\ other' = other + 1
    /\ UNCHANGED <<deskVars, historyVars>>

-----------------------------------------------------------------------------
(* The filters of the billing history.                                     *)

\* rangeFor: a quick range, a date or a mode only edits the draft.
EditDraft(r) ==
    /\ turns < MaxFilters /\ r # draft /\ dialog = None
    /\ draft' = r /\ turns' = turns + 1
    /\ UNCHANGED <<bookVars, deskVars, other, applied, page>>

applyFilters ==
    /\ draft # applied /\ dialog = None
    /\ applied' = draft /\ page' = 0
    /\ UNCHANGED <<bookVars, deskVars, other, draft, turns>>

clearFilters ==
    /\ <<draft, applied>> # <<"all", "all">> /\ dialog = None
    /\ draft' = "all" /\ applied' = "all"
    /\ page' = IF applied = "all" THEN page ELSE 0
    /\ UNCHANGED <<bookVars, deskVars, other, turns>>

TurnPage(p) ==
    /\ turns < MaxFilters /\ dialog = None
    /\ p \in {page - 1, page + 1} /\ p \in 0..1
    /\ page' = p /\ turns' = turns + 1
    /\ UNCHANGED <<bookVars, deskVars, other, draft, applied>>

Next ==
    \/ SelectBooking
    \/ clearBookingFilter
    \/ ReadPayments
    \/ \E p \in Slots : OpenCorrect(p) \/ OpenRefund(p)
    \/ \E u \in Purposes : OpenCollect(u)
    \/ CloseDialog
    \/ Submit
    \/ Work
    \/ Succeeded
    \/ Failed
    \/ \E k \in {"collect", "correct", "refund"}, p \in Slots, a \in Amounts :
         OtherDesk(k, p, a)
    \/ \E r \in Ranges : EditDraft(r)
    \/ applyFilters
    \/ clearFilters
    \/ \E p \in 0..1 : TurnPage(p)

Spec == Init /\ [][Next]_vars

-----------------------------------------------------------------------------
TypeOK ==
    /\ pays \in [Slots -> Payment \union {None}]
    /\ advance \in Int /\ deposit \in Int
    /\ refunds.sum \in Nat /\ refunds.count \in 0..MaxRefunds
    /\ refunds.floored \in BOOLEAN
    /\ list # None => list \in [Slots -> Payment \union {None}]
    /\ selected \in BOOLEAN
    /\ dialog # None => dialog.amount \in Amounts
    /\ call # None => call.done \in BOOLEAN
    /\ other \in 0..MaxOther
    /\ {draft, applied} \subseteq Ranges
    /\ page \in 0..1 /\ turns \in 0..MaxFilters

\* What the booking has paid in is what its valid payments say less what was
\* refunded, whatever was collected, corrected and refunded in any order and
\* from however old a list; and it is never less.  It is more, once a refund was
\* made while a deposit that had been refunded was corrected below that.
MoneyAccounted ==
    /\ advance + deposit >= Collected - refunds.sum
    /\ ~refunds.floored => advance + deposit = Collected - refunds.sum

\* Why: payments and requests are whole, so that the sums move with the payments.
IsRequest(r) ==
    /\ r.kind \in {"collect", "correct", "refund"} /\ r.amount \in Amounts
    /\ r.kind = "collect" => r.purpose \in Purposes
    /\ r.kind = "correct" => r.of \in Slots
PaymentsKept ==
    /\ pays \in [Slots -> Payment \union {None}]
    /\ list # None => list \in [Slots -> Payment \union {None}]
    /\ advance \in Int /\ deposit \in Int
    /\ refunds \in [sum : Int, count : Int, floored : BOOLEAN]
    /\ dialog # None => IsRequest(dialog)
    /\ call # None => IsRequest(call.request)
    /\ MoneyAccounted

\* No more is refunded than was collected.
RefundsCovered == refunds.sum <= Collected

=============================================================================
