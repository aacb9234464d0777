------------------------------ MODULE Invoices ------------------------------
(***************************************************************************)
(* The bills of a hotel: the page                                          *)
(* (frontend/src/app/(partner)/invoices/page.tsx) with its list, the bill  *)
(* it shows, cancelling, making and sharing one by WhatsApp, beside the    *)
(* check-outs of another desk that make and supersede bills.  A link to    *)
(* the page can name a booking, and its list is then that booking's.       *)
(***************************************************************************)
EXTENDS Integers, Sequences

CONSTANTS Bookings,
          WithPhone,    \* the bookings whose guest's number is known
          Linked,       \* the bookings that links name
          None,
          MaxInvoices   \* bounds the bills made

VARIABLES
    made,       \* the bills [booking, cancelled], oldest first; a bill's id
                \* is its place
    lists,      \* the lists [id, cancelled] as read, by booking or for None
    filter,     \* None, or the booking of the link
    selected,   \* the bill shown, or 0
    target,     \* the bill the cancel dialog is about, or 0
    cancelling, \* the bill being cancelled, or 0
    generating, \* None, or the request for a bill and how far it is
    sharing,    \* the bill whose PDF is fetched to be shared, or 0
    phone,      \* the dialog that asks for a number
    message     \* None, or the message that WhatsApp was opened with

invoicesVars == <<made, lists, filter, selected, target, cancelling,
                  generating, sharing, phone, message>>

Filters == Linked \union {None}
BillIds == 0 .. MaxInvoices

-----------------------------------------------------------------------------
\* What generate_invoice computes of the taxable amounts and taxes of the
\* lines; the two halves of a tax are equal but for a rupee.
Half(tax) == (tax + 1) \div 2

\* The lines of a bill, what is taken off, what was paid and is held.
Lines == [taxable : {100}, tax : {0, 1, 18}]
Bills == [first : Lines, second : Lines, interstate : BOOLEAN,
          discount : {0, 10}, paid : {0, 60, 300}, deposit : {0, 20}]
GstModes == {"included_by_customer", "included_by_hotel", "no_gst", "unset"}

invoice(bill) ==
    LET subtotal == bill.first.taxable + bill.second.taxable
        tax == bill.first.tax + bill.second.tax
        cgst == IF bill.interstate THEN 0
                ELSE Half(bill.first.tax) + Half(bill.second.tax)
        total == subtotal + tax - bill.discount
        rest == total - bill.paid - bill.deposit
    IN  [subtotal |-> subtotal, cgst |-> cgst,
         sgst |-> IF bill.interstate THEN 0 ELSE tax - cgst,
         igst |-> IF bill.interstate THEN tax ELSE 0,
         total |-> total, due |-> IF rest > 0 THEN rest ELSE 0]

gstTotal(inv) == inv.cgst + inv.sgst + inv.igst

showExGst(inv, mode) ==
    \/ mode = "included_by_customer"
    \/ mode = "unset" /\ gstTotal(inv) > 0

\* The tax rows of the bill on screen: each part that is not zero, and their
\* sum when they were never split.
TaxRows(inv, mode) ==
    IF ~showExGst(inv, mode) THEN 0
    ELSE inv.cgst + inv.sgst + inv.igst
         + (IF inv.cgst = 0 /\ inv.igst = 0 THEN gstTotal(inv) ELSE 0)

\* Faulty variant: the subtotal leaves out a tax that is not shown.
SubtotalRowExGst(inv, mode) == inv.subtotal

SubtotalRow(inv, mode) ==
    IF showExGst(inv, mode) THEN inv.subtotal ELSE inv.subtotal + gstTotal(inv)

LineRow(line, inv, mode) ==
    IF showExGst(inv, mode) THEN line.taxable ELSE line.taxable + line.tax

\* The payments are shown while something is due, and the last row says what
\* is due, or the total.
PaidRow(inv, bill) == IF inv.due > 0 THEN bill.paid ELSE 0
LastRow(inv) == IF inv.due > 0 THEN inv.due ELSE inv.total

\* The page that the link in the message opens.
PublicTotal(inv, bill) == inv.subtotal - bill.discount + gstTotal(inv)

-----------------------------------------------------------------------------
LiveBills(b) ==
    {i \in DOMAIN made : made[i].booking = b /\ ~made[i].cancelled}

\* list_invoices: the newest first, so the list is known by its rows.
Rows(f) == {[id |-> i, cancelled |-> made[i].cancelled] :
              i \in {j \in DOMAIN made : f = None \/ made[j].booking = f}}
IsNewest(row, rows) == row \in rows /\ \A other \in rows : other.id <= row.id
Newest(rows) == CHOOSE row \in rows : IsNewest(row, rows)

Listed == IF lists[filter] = None THEN {} ELSE lists[filter]
ListedIds == {row.id : row \in Listed}

\* The bill that is shown, if it is in the list.
Shown == {row \in Listed : row.id = selected}

\* Faulty variant: a bill once selected stays selected.
AutoSelectedKept(rows, f) ==
    IF rows # {} /\ (f # None \/ selected = 0) THEN Newest(rows).id ELSE selected

\* A list that arrives selects: the booking's newest bill after a link to a
\* booking, and otherwise the newest when the bill shown is not in it.
AutoSelected(rows, f) ==
    IF rows = {} \/ (f = None /\ \E row \in rows : row.id = selected)
    THEN selected ELSE Newest(rows).id

Init ==
    /\ made = <<>> /\ lists = [f \in Filters |-> None]
    /\ filter \in Filters /\ selected = 0
    /\ target = 0 /\ cancelling = 0 /\ generating = None /\ sharing = 0
    /\ phone = [open |-> FALSE, about |-> 0, wanted |-> 0, number |-> None]
    /\ message = None

\* Only a list that changed runs the effect.
ReadInvoices ==
    /\ Rows(filter) # lists[filter]
    /\ lists' = [lists EXCEPT ![filter] = Rows(filter)]
    /\ selected' = AutoSelected(Rows(filter), filter)
    /\ UNCHANGED <<made, filter, target, cancelling, generating, sharing,
                   phone, message>>

\* Nothing else is done on the page while a dialog is open; the model follows
\* it up to the first message (a bound).
AtPage ==
    target = 0 /\ ~phone.open /\ generating = None /\ message = None

\* A link to a booking's bills, or all of them again: a list read before is
\* shown, and selects, at once.
Follow(f) ==
    /\ AtPage /\ f # filter
    /\ filter' = f
    /\ selected' = IF lists[f] = None THEN selected
                   ELSE AutoSelected(lists[f], f)
    /\ UNCHANGED <<made, lists, target, cancelling, generating, sharing,
                   phone, message>>

View(i) ==
    /\ AtPage /\ i \in ListedIds /\ i # selected
    /\ selected' = i
    /\ UNCHANGED <<made, lists, filter, target, cancelling, generating,
                   sharing, phone, message>>

-----------------------------------------------------------------------------
AskCancel(i) ==
    /\ AtPage /\ [id |-> i, cancelled |-> FALSE] \in Listed
    /\ target' = i
    /\ UNCHANGED <<made, lists, filter, selected, cancelling, generating,
                   sharing, phone, message>>

\* The dialog closes with or without a reason; with one the bill is
\* cancelled, one at a time.
ConfirmCancel(yes) ==
    /\ target # 0
    /\ yes => cancelling = 0
    /\ cancelling' = IF yes THEN target ELSE cancelling
    /\ target' = 0
    /\ UNCHANGED <<made, lists, filter, selected, generating, sharing, phone,
                   message>>

\* cancel_invoice refuses a bill that is cancelled.
cancel_invoice ==
    /\ cancelling # 0
    /\ made' = [made EXCEPT ![cancelling].cancelled = TRUE]
    /\ cancelling' = 0
    /\ UNCHANGED <<lists, filter, selected, target, generating, sharing, phone,
                   message>>

-----------------------------------------------------------------------------
Generate(b) ==
    /\ AtPage
    /\ generating' = [booking |-> b, free |-> FALSE]
    /\ UNCHANGED <<made, lists, filter, selected, target, cancelling, sharing,
                   phone, message>>

\* generate_invoice reads whether the booking has a bill, takes no lock, and
\* answers with the bill there is.
GenerateReads ==
    /\ generating # None /\ ~generating.free
    /\ generating' = IF LiveBills(generating.booking) = {}
                     THEN [generating EXCEPT !.free = TRUE] ELSE None
    /\ UNCHANGED <<made, lists, filter, selected, target, cancelling, sharing,
                   phone, message>>

GenerateInserts ==
    /\ generating # None /\ generating.free /\ Len(made) < MaxInvoices
    /\ made' = Append(made, [booking |-> generating.booking,
                             cancelled |-> FALSE])
    /\ generating' = None
    /\ UNCHANGED <<lists, filter, selected, target, cancelling, sharing, phone,
                   message>>

\* A check-out of another desk supersedes a bill of the booking by its own,
\* unless there is a second.
OtherCheckOut(b) ==
    /\ Len(made) < MaxInvoices /\ message = None
    /\ \E stale \in IF LiveBills(b) = {} THEN {0} ELSE LiveBills(b) :
         LET kept == [i \in DOMAIN made |->
                        IF i = stale THEN [made[i] EXCEPT !.cancelled = TRUE]
                        ELSE made[i]]
         IN  made' = IF LiveBills(b) \subseteq {stale}
                     THEN Append(kept, [booking |-> b, cancelled |-> FALSE])
                     ELSE kept
    /\ UNCHANGED <<lists, filter, selected, target, cancelling, generating,
                   sharing, phone, message>>

-----------------------------------------------------------------------------
\* WhatsApp opens with the message for the guest's number, or the dialog asks
\* for one; its field keeps what was typed into it before.
SendOrAsk(i, wanted) ==
    IF made[i].booking \in WithPhone
    THEN /\ message' = [wanted |-> wanted, about |-> i,
                        to |-> made[i].booking]
         /\ UNCHANGED phone
    ELSE /\ phone' = [phone EXCEPT !.open = TRUE, !.about = i,
                                   !.wanted = wanted]
         /\ UNCHANGED message

shareInvoiceWhatsApp ==
    /\ AtPage /\ Shown # {} /\ sharing = 0
    /\ SendOrAsk(selected, selected)
    /\ UNCHANGED <<made, lists, filter, selected, target, cancelling,
                   generating, sharing>>

shareInvoiceNativeFile ==
    /\ AtPage /\ Shown # {} /\ sharing = 0
    /\ sharing' = selected
    /\ UNCHANGED <<made, lists, filter, selected, target, cancelling,
                   generating, phone, message>>

\* Faulty variant: the message is about the bill that is on screen by now.
SharedBillLatest == IF Shown # {} THEN selected ELSE sharing

\* The bill that was on screen when sharing began.
SharedBill == sharing

\* The PDF could not be fetched, was given to the device to share, or is
\* saved and WhatsApp opened.
PdfCame(how) ==
    /\ sharing # 0
    /\ CASE how = "failed" -> UNCHANGED <<phone, message>>
         [] how = "device" ->
              /\ message' = [wanted |-> sharing, about |-> SharedBill,
                             to |-> None]
              /\ UNCHANGED phone
         [] how = "saved" -> SendOrAsk(SharedBill, sharing)
    /\ sharing' = 0
    /\ UNCHANGED <<made, lists, filter, selected, target, cancelling,
                   generating>>

\* The desk types the number of the guest that the dialog names.
TypeNumber ==
    /\ phone.open /\ phone.number # made[phone.about].booking
    /\ phone' = [phone EXCEPT !.number = made[phone.about].booking]
    /\ UNCHANGED <<made, lists, filter, selected, target, cancelling,
                   generating, sharing, message>>

\* Closed, or sent to the number in the field.
ClosePhone(send) ==
    /\ phone.open
    /\ send => phone.number # None
    /\ phone' = [phone EXCEPT !.open = FALSE, !.about = 0, !.wanted = 0]
    /\ message' = IF send THEN [wanted |-> phone.wanted,
                                about |-> phone.about, to |-> phone.number]
                  ELSE message
    /\ UNCHANGED <<made, lists, filter, selected, target, cancelling,
                   generating, sharing>>

Next ==
    \/ ReadInvoices
    \/ \E f \in Filters : Follow(f)
    \/ \E i \in DOMAIN made : View(i) \/ AskCancel(i)
    \/ \E yes \in BOOLEAN : ConfirmCancel(yes) \/ ClosePhone(yes)
    \/ cancel_invoice
    \/ \E b \in Bookings : Generate(b) \/ OtherCheckOut(b)
    \/ GenerateReads \/ GenerateInserts
    \/ shareInvoiceWhatsApp \/ shareInvoiceNativeFile \/ TypeNumber
    \/ \E how \in {"failed", "device", "saved"} : PdfCame(how)

Spec == Init /\ [][Next]_invoicesVars

-----------------------------------------------------------------------------
TypeOK ==
    /\ Len(made) <= MaxInvoices
    /\ \A i \in DOMAIN made :
         made[i] \in [booking : Bookings, cancelled : BOOLEAN]
    /\ \A f \in Filters :
         lists[f] = None \/ \A row \in lists[f] : row.id \in DOMAIN made
    /\ filter \in Filters
    /\ {selected, target, cancelling, sharing} \subseteq 0 .. Len(made)
    /\ generating = None \/ generating \in [booking : Bookings, free : BOOLEAN]
    /\ phone \in [open : BOOLEAN, about : BillIds, wanted : BillIds,
                  number : Bookings \union {None}]
    /\ message = None \/
         message \in [wanted : BillIds, about : BillIds,
                      to : Bookings \union {None}]

\* The bill that is shown, shared and printed is one of the list beside it,
\* whichever lists were read before and bills selected from them.
ShownIsListed == Listed # {} => Shown # {}

\* A message is about the bill that was on screen when it was asked for.
SharedAsAsked == message # None => message.about = message.wanted

\* The rows of a bill add up, whatever the way in which the hotel shows taxes
\* now: its lines to the subtotal, the subtotal, taxes and discount to the
\* total, and what is left after the payments to what is due and what is held;
\* the public page comes to the same total.
PrintedAddsUp ==
    \A bill \in Bills, mode \in GstModes :
        LET inv == invoice(bill)
            shown == SubtotalRow(inv, mode) + TaxRows(inv, mode)
                       - bill.discount
        IN  /\ LineRow(bill.first, inv, mode) + LineRow(bill.second, inv, mode)
                 = SubtotalRow(inv, mode)
            /\ shown = inv.total
            /\ shown - PaidRow(inv, bill)
                 = LastRow(inv) + (IF inv.due > 0 THEN bill.deposit ELSE 0)
            /\ PublicTotal(inv, bill) = inv.total

\* "Opens WhatsApp directly to the customer's chat with the pre-filled
\* message" (lib/whatsapp-share.ts): a message goes to the guest of its bill.
SentToOwnGuest ==
    message # None /\ message.to # None =>
        message.to = made[message.about].booking

\* Why: the newest row of a list is one of it, and the dialog for a number keeps what was
\* on screen.
ListsHaveNewest ==
    /\ filter \in Filters /\ made \in Seq([booking : Bookings, cancelled : BOOLEAN])
    /\ generating \in [booking : Bookings, free : BOOLEAN] \union {None}
    /\ lists = [f \in Filters |-> lists[f]]
    /\ \A f \in Filters :
         lists[f] \notin {None, {}} => \E row \in lists[f] : IsNewest(row, lists[f])
    /\ ShownIsListed
AboutAsWanted ==
    /\ {"open", "about", "wanted"} \subseteq DOMAIN phone
    /\ phone.about = phone.wanted
    /\ SharedAsAsked
=============================================================================
