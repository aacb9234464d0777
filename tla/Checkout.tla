--------------------------------- MODULE Checkout ---------------------------------
(***************************************************************************)
(* The check-out page (app/(partner)/checkout/page.tsx).  A guest is       *)
(* loaded, the desk edits a draft, the server prices it (the quote), and   *)
(* one request checks the guest out and takes the payment.  While a new    *)
(* quote is under way the page keeps the last one (keepPreviousData).      *)
(* Afterwards the invoice is generated, printed and sent.                  *)
(***************************************************************************)
EXTENDS Integers

CONSTANTS Bookings, None,
          Rest,        \* what a booking owes at first
          Extra,       \* a charge
          MaxOther     \* bound: charges that another desk adds

ASSUME CheckoutAssumption ==
    None \notin Bookings /\ {Rest, Extra, MaxOther} \subseteq Nat

Blank == [extra |-> 0, discount |-> 0]
Drafts == {Blank, [Blank EXCEPT !.extra = Extra], [Blank EXCEPT !.discount = Extra]}

VARIABLES
    owed,         \* server: what each booking owes without the draft
    inHouse,      \* server: the bookings that are checked in
    charged,      \* history: drafts booked to each booking
    outcome,      \* history: how each booking was checked out
    link,         \* ?booking of the URL, until it is used
    entry,        \* the guest loaded
    draft,
    quote,        \* quoteQuery.data: the quote shown
    payStatus, dueReason,
    posting,      \* the check-out request under way
    result,       \* checkoutResult
    invoiceId,    \* whose invoice the page has
    generating    \* invoice requests under way

checkoutVars == <<owed, inHouse, charged, outcome, link, entry, draft, quote, payStatus, dueReason,
                  posting, result, invoiceId, generating>>
serverVars == <<owed, inHouse, charged, outcome>>
invoiceVars == <<invoiceId, generating>>
formVars == <<draft, payStatus, dueReason>>

Quotes == [booking : Bookings, draft : Drafts, due : Int]

TypeOK ==
    /\ owed \in [Bookings -> Nat] /\ inHouse \subseteq Bookings
    /\ charged \in [Bookings -> 0 .. 2]
    /\ {link, entry, invoiceId} \subseteq Bookings \union {None} /\ generating \subseteq Bookings
    /\ draft \in Drafts /\ (quote = None \/ quote \in Quotes)
    /\ payStatus \in {"paid", "pending"} /\ dueReason \in BOOLEAN

Init ==
    /\ owed = [b \in Bookings |-> Rest] /\ inHouse = Bookings
    /\ charged = [b \in Bookings |-> 0] /\ outcome = [b \in Bookings |-> None]
    /\ link \in Bookings \union {None} /\ entry = None /\ draft = Blank /\ quote = None
    /\ payStatus = "paid" /\ dueReason = FALSE /\ posting = None /\ result = None
    /\ invoiceId = None /\ generating = {}

(***************************************************************************)
(* Loading a guest.                                                        *)
(***************************************************************************)

\* resetForm but for the invoice.
ResetForm == draft' = Blank /\ payStatus' = "paid" /\ dueReason' = FALSE /\ result' = None

\* Out of the list of guests in the house, which may be old or have lost the
\* guest meanwhile.
loadGuest(b) ==
    /\ posting = None
    /\ entry' \in {b, None} /\ ResetForm /\ invoiceId' = None
    /\ UNCHANGED <<serverVars, link, quote, posting, generating>>

\* The deep link loads its guest once the list is there, if it has the guest.
OpenDeepLink ==
    /\ entry = None /\ link # None
    /\ entry' \in {link, None}
    /\ link' = None
    /\ UNCHANGED <<serverVars, formVars, quote, posting, result, invoiceVars>>

NewCheckout ==
    /\ result # None
    /\ entry' = None /\ ResetForm /\ invoiceId' = None
    /\ UNCHANGED <<serverVars, link, quote, posting, generating>>

(***************************************************************************)
(* Draft and quote.                                                        *)
(***************************************************************************)
EditDraft ==
    /\ entry # None /\ posting = None /\ result = None
    /\ draft' \in Drafts
    /\ UNCHANGED <<serverVars, link, entry, quote, payStatus, dueReason, posting, result,
                   invoiceVars>>

EditPayment ==
    /\ entry # None /\ posting = None /\ result = None
    /\ payStatus' \in {"paid", "pending"} /\ dueReason' \in BOOLEAN
    /\ UNCHANGED <<serverVars, link, entry, draft, quote, posting, result, invoiceVars>>

\* quote_checkout and check_out price a draft in the same way.
Price(b, d) == owed[b] + d.extra - d.discount

\* The quote for what the page asks at the time comes.
QuoteComes ==
    /\ entry # None /\ result = None /\ entry \in inHouse
    /\ quote' = [booking |-> entry, draft |-> draft, due |-> Price(entry, draft)]
    /\ UNCHANGED <<serverVars, link, entry, formVars, posting, result, invoiceVars>>

\* Another desk or the restaurant charges the stay.
OtherCharge(b) ==
    /\ b \in inHouse /\ owed[b] < Rest + MaxOther * Extra
    /\ owed' = [owed EXCEPT ![b] = @ + Extra]
    /\ UNCHANGED <<inHouse, charged, outcome, link, entry, formVars, quote, posting, result,
                   invoiceVars>>

(***************************************************************************)
(* The check-out.                                                          *)
(***************************************************************************)
Positive(x) == IF x > 0 THEN x ELSE 0
pendingAmount == Positive(quote.due)
needsDueAuth == payStatus = "pending" /\ pendingAmount > 0
isPaidWithDue == payStatus = "paid" /\ pendingAmount > 0

\* Faulty variant: a due is always allowed.
allowDueAlways == TRUE

\* A due is allowed with the desk's reason, or when it is collected.
allowDue == needsDueAuth \/ isPaidWithDue

\* The quote and the commit send the same object.
SentDraft == draft

handleCheckout ==
    /\ entry # None /\ posting = None /\ result = None /\ quote # None
    /\ needsDueAuth => dueReason
    /\ posting' = [booking |-> entry, draft |-> SentDraft, collect |-> isPaidWithDue,
                   allow |-> allowDue, reason |-> needsDueAuth, shown |-> pendingAmount]
    /\ UNCHANGED <<serverVars, link, entry, formVars, quote, result, invoiceVars>>

\* Faulty variant: a guest who has left can be checked out.
CheckoutableAgain(b) == TRUE

\* check_out: only stays in the house.
Checkoutable(b) == b \in inHouse

\* The server prices the draft again, collects what is due if told to, and
\* refuses a due that is not allowed.
ServerAccepts(p) ==
    Checkoutable(p.booking) /\ (p.collect \/ p.allow \/ Price(p.booking, p.draft) <= 0)

ServerChecksOut(p) ==
    LET due == Price(p.booking, p.draft)
        collected == IF p.collect THEN Positive(due) ELSE 0
    IN  /\ inHouse' = inHouse \ {p.booking}
        /\ charged' = [charged EXCEPT ![p.booking] = @ + 1]
        /\ outcome' = [outcome EXCEPT ![p.booking] =
                         [shown |-> p.shown, due |-> Positive(due), collected |-> collected,
                          left |-> Positive(due) - collected, reason |-> p.reason]]
        /\ UNCHANGED owed

\* The answer, with the invoice that the server generated if it could; or an
\* error, the check-out done or not.
CheckoutAnswers ==
    /\ posting # None /\ posting' = None
    /\ \/ /\ ServerAccepts(posting) /\ ServerChecksOut(posting)
          /\ \/ result' \in [booking : {posting.booking}, invoice : BOOLEAN]
             \/ UNCHANGED result
       \/ UNCHANGED <<serverVars, result>>
    /\ UNCHANGED <<link, entry, formVars, quote, invoiceVars>>

(***************************************************************************)
(* The invoice.                                                            *)
(***************************************************************************)

\* The buttons are disabled while an invoice is generated.
ensureInvoice ==
    /\ result # None /\ generating = {}
    /\ \/ /\ invoiceId = None /\ ~result.invoice
          /\ generating' = generating \union {result.booking}
          /\ UNCHANGED invoiceId
       \/ /\ invoiceId = None /\ result.invoice
          /\ invoiceId' = result.booking
          /\ UNCHANGED generating
       \/ invoiceId # None /\ UNCHANGED invoiceVars         \* printed, downloaded or sent
    /\ UNCHANGED <<serverVars, link, entry, formVars, quote, posting, result>>

\* The page takes the invoice that comes, whoever is loaded by then.
InvoiceComes(b) ==
    /\ b \in generating /\ generating' = generating \ {b}
    /\ invoiceId' \in {b, invoiceId}
    /\ UNCHANGED <<serverVars, link, entry, formVars, quote, posting, result>>

Next ==
    \/ \E b \in Bookings : loadGuest(b) \/ OtherCharge(b) \/ InvoiceComes(b)
    \/ OpenDeepLink \/ NewCheckout \/ EditDraft \/ EditPayment \/ QuoteComes
    \/ handleCheckout \/ CheckoutAnswers \/ ensureInvoice

Spec == Init /\ [][Next]_checkoutVars

(***************************************************************************)
(* Properties.                                                             *)
(***************************************************************************)
LeftBookings == {b \in Bookings : outcome[b] # None}

\* Whatever quote the desk looked at, nobody leaves with a due that the desk
\* did not give a reason for.
NoSilentDue == \A b \in LeftBookings : outcome[b].left > 0 => outcome[b].reason

\* A check-out that was answered late, or not at all, and is tried again
\* books the draft's charges and its payment once.
CheckedOutOnce == \A b \in Bookings : charged[b] <= 1

\* The numbers on screen are those recorded ("so the numbers on screen are the
\* numbers that get recorded", checkout/page.tsx:317).
ShownIsRecorded == \A b \in LeftBookings : outcome[b].shown = outcome[b].due

=============================================================================
