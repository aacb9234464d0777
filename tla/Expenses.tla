------------------------------ MODULE Expenses ------------------------------
(***************************************************************************)
(* The expense ledger of a hotel: the page                                 *)
(* (frontend/src/app/(partner)/expenses/page.tsx) with its form, its rows  *)
(* and its filters, beside another user of the ledger, and the requests it *)
(* makes of backend/app/services/expenses.py.  A form records an expense   *)
(* first and sends its receipt after, while its fields stay open to edits. *)
(***************************************************************************)
EXTENDS Naturals, FiniteSets

CONSTANTS Ids,        \* expenses there can be
          Papers,     \* receipts
          None,
          MaxOther    \* bounds what the other user does

VARIABLES
    ledger,   \* [Ids -> expense or None]
    list,     \* [Ids -> status or None] as the page shows it, or None
    form,     \* the new expense as typed
    adding,   \* None, or the expense being recorded, and how far it is
    framing,  \* None, or the receipt in the picture editor
    acting,   \* the transitions under way, as the server read them
    target,   \* None, or the expense the rejection dialog is about
    lost,     \* expenses whose receipt was said not to be stored
    unsure,   \* expenses whose recording was answered by an error only
    template, \* a recurring expense: None, asked for, due, or run
    other     \* what the other user did

vars == <<ledger, list, form, adding, framing, acting, target, lost, unsure,
          template, other>>

Statuses == {"draft", "submitted", "approved", "rejected", "paid"}
Form == [amount : BOOLEAN, receipt : Papers \union {None}]
Blank == [amount |-> FALSE, receipt |-> None]
Expense == [status : Statuses, meant : Papers \union {None},
            receipt : Papers \union {None}]
Adding == [phase : {"create", "upload"}, id : Ids \union {None},
           paper : Papers \union {None}]

ASSUME ExpensesAssumption ==
    /\ None \notin Ids /\ None \notin Expense /\ None \notin Adding
    /\ MaxOther \in Nat

\* What an expense may become.
EXPENSE_TRANSITIONS(status) ==
    CASE status = "draft" -> {"submitted"}
      [] status = "submitted" -> {"approved", "rejected"}
      [] status = "approved" -> {"paid"}
      [] status = "rejected" -> {"submitted"}
      [] status = "paid" -> {}

Live == {e \in Ids : ledger[e] # None}
FreeIds == Ids \ Live

\* What a form sends, and what is recorded of it.
create_expense(status, paper) ==
    [status |-> status, meant |-> paper, receipt |-> None]

-----------------------------------------------------------------------------
Init ==
    /\ ledger = [e \in Ids |-> None] /\ list = None
    /\ form = Blank /\ adding = None /\ framing = None
    /\ acting = {} /\ target = None /\ lost = {} /\ unsure = {}
    /\ template = None /\ other = 0

\* The page reads the ledger: at first, after a change of its own, when the
\* filter changes.
ReadExpenses ==
    /\ list' = [e \in Ids |-> IF ledger[e] = None THEN None ELSE ledger[e].status]
    /\ list' # list
    /\ UNCHANGED <<ledger, form, adding, framing, acting, target,
                   lost, unsure, template, other>>

TypeAmount ==
    /\ ~form.amount
    /\ form' = [form EXCEPT !.amount = TRUE]
    /\ UNCHANGED <<ledger, list, adding, framing, acting, target,
                   lost, unsure, template, other>>

\* A PDF is taken as it is, unless it is too large; a picture is framed first.
PickReceipt(p, kind) ==
    /\ framing = None
    /\ CASE kind = "pdf" ->
              form' = [form EXCEPT !.receipt = p] /\ UNCHANGED framing
         [] kind = "large" ->
              form' = [form EXCEPT !.receipt = None] /\ UNCHANGED framing
         [] kind = "picture" -> framing' = p /\ UNCHANGED form
    /\ UNCHANGED <<ledger, list, adding, acting, target, lost, unsure, template, other>>

Framed(ok) ==
    /\ framing # None
    /\ framing' = None
    /\ form' = IF ok THEN [form EXCEPT !.receipt = framing] ELSE form
    /\ UNCHANGED <<ledger, list, adding, acting, target, lost, unsure, template, other>>

RemoveReceipt ==
    /\ framing = None /\ form.receipt # None
    /\ form' = [form EXCEPT !.receipt = None]
    /\ UNCHANGED <<ledger, list, adding, framing, acting, target,
                   lost, unsure, template, other>>

-----------------------------------------------------------------------------
\* Add: the request carries the form as it is now.
Add ==
    /\ form.amount /\ adding = None /\ framing = None
    /\ adding' = [phase |-> "create", id |-> None, paper |-> form.receipt]
    /\ UNCHANGED <<ledger, list, form, framing, acting, target,
                   lost, unsure, template, other>>

Created(e) ==
    /\ adding # None /\ adding.phase = "create" /\ e \in FreeIds
    /\ ledger' = [ledger EXCEPT ![e] = create_expense("submitted", adding.paper)]
    /\ adding' = [adding EXCEPT !.phase = "upload", !.id = e]
    /\ UNCHANGED <<list, form, framing, acting, target, lost, unsure, template, other>>

\* Refused, or recorded while the answer is lost: the page says the same of
\* both, sends no receipt, and the form stays for another try.
NotCreated ==
    /\ adding # None /\ adding.phase = "create"
    /\ adding' = None
    /\ UNCHANGED <<list, form, framing, acting, target, lost, template, other>>
    /\ \/ UNCHANGED <<ledger, unsure>>
       \/ \E e \in FreeIds :
            /\ ledger' = [ledger EXCEPT ![e] =
                             create_expense("submitted", adding.paper)]
            /\ unsure' = unsure \union {e}

\* Faulty variant: the receipt is taken from the form when it is sent.
PaperSentLatest == form.receipt

\* The receipt that goes with the expense recorded.
PaperSent == adding.paper

\* The receipt, if there is one, is stored, or the user is told that it was
\* not; it may be stored all the same, when only the answer was lost.  Then
\* the form is emptied for the next.
Uploaded(ok) ==
    /\ adding # None /\ adding.phase = "upload"
    /\ PaperSent = None => ok
    /\ \/ ledger' = [ledger EXCEPT ![adding.id].receipt = PaperSent]
       \/ ~ok /\ UNCHANGED ledger
    /\ lost' = IF ok THEN lost ELSE lost \union {adding.id}
    /\ adding' = None /\ form' = Blank
    /\ UNCHANGED <<list, framing, acting, target, unsure, template, other>>

-----------------------------------------------------------------------------
\* A row offers what its status in the list allows.
Offered(e) ==
    IF list = None \/ list[e] = None THEN {}
    ELSE CASE list[e] = "draft" -> {"submitted"}
           [] list[e] = "submitted" -> {"approved"}
           [] list[e] = "approved" -> {"paid"}
           [] OTHER -> {}

act(e, to) ==
    /\ target = None /\ to \in Offered(e) /\ e \in Live
    /\ acting' = acting \union {[id |-> e, to |-> to, read |-> None]}
    /\ UNCHANGED <<ledger, list, form, adding, framing, target,
                   lost, unsure, template, other>>

\* A rejection asks for a reason first, and closes before the answer.
AskReason(e) ==
    /\ target = None /\ list # None /\ list[e] = "submitted"
    /\ target' = e
    /\ UNCHANGED <<ledger, list, form, adding, framing, acting,
                   lost, unsure, template, other>>

Reject(confirmed) ==
    /\ target # None
    /\ acting' = IF confirmed /\ target \in Live
                 THEN acting \union {[id |-> target, to |-> "rejected", read |-> None]}
                 ELSE acting
    /\ target' = None
    /\ UNCHANGED <<ledger, list, form, adding, framing, lost, unsure, template, other>>

\* Another user moves or enters an expense.
OtherActs(e, to) ==
    /\ other < MaxOther /\ e \in Live
    /\ acting' = acting \union {[id |-> e, to |-> to, read |-> None]}
    /\ other' = other + 1
    /\ UNCHANGED <<ledger, list, form, adding, framing, target, lost, unsure, template>>

\* The dialog of a recurring expense needs a name and an amount.
AddRecurring ==
    /\ template = None
    /\ template' = "asked"
    /\ UNCHANGED <<ledger, list, form, adding, framing, acting, target,
                   lost, unsure, other>>

\* It closes when the template is there, and stays for another try if not.
RecurringAnswered(ok) ==
    /\ template = "asked"
    /\ template' = IF ok THEN "due" ELSE None
    /\ UNCHANGED <<ledger, list, form, adding, framing, acting, target,
                   lost, unsure, other>>

\* Run: every template that is due gives a draft and is due later.
run_due_recurring(e) ==
    /\ template = "due" /\ e \in FreeIds
    /\ ledger' = [ledger EXCEPT ![e] = create_expense("draft", None)]
    /\ template' = "run"
    /\ UNCHANGED <<list, form, adding, framing, acting, target, lost, unsure, other>>

\* The server reads the expense, refuses what its status does not allow, and
\* writes the new status when it commits.
transition_expense(r) ==
    /\ r \in acting /\ r.read = None
    /\ acting' = IF r.to \in EXPENSE_TRANSITIONS(ledger[r.id].status)
                 THEN (acting \ {r}) \union {[r EXCEPT !.read = ledger[r.id].status]}
                 ELSE acting \ {r}
    /\ UNCHANGED <<ledger, list, form, adding, framing, target,
                   lost, unsure, template, other>>

CommitTransition(r) ==
    /\ r \in acting /\ r.read # None
    /\ ledger' = [ledger EXCEPT ![r.id].status = r.to]
    /\ acting' = acting \ {r}
    /\ UNCHANGED <<list, form, adding, framing, target, lost, unsure, template, other>>

Next ==
    \/ ReadExpenses \/ TypeAmount \/ RemoveReceipt \/ Add \/ NotCreated
    \/ AddRecurring
    \/ \E p \in Papers, k \in {"pdf", "large", "picture"} : PickReceipt(p, k)
    \/ \E b \in BOOLEAN : Framed(b) \/ Uploaded(b) \/ Reject(b) \/ RecurringAnswered(b)
    \/ \E e \in Ids :
         \/ Created(e) \/ AskReason(e) \/ run_due_recurring(e)
         \/ \E to \in Statuses \ {"draft"} : act(e, to) \/ OtherActs(e, to)
    \/ \E r \in acting : transition_expense(r) \/ CommitTransition(r)

Spec == Init /\ [][Next]_vars

-----------------------------------------------------------------------------
TypeOK ==
    /\ ledger \in [Ids -> Expense \union {None}]
    /\ form \in Form /\ framing \in Papers \union {None}
    /\ adding \in Adding \union {None}
    /\ target \in Ids \union {None} /\ lost \subseteq Ids /\ unsure \subseteq Ids
    /\ template \in {None, "asked", "due", "run"} /\ other \in 0..MaxOther

\* Whatever is done to the form while an expense is recorded, the expense has
\* the receipt it was added with, or it has none and the user was shown an
\* error: of the receipt, or of an expense that was recorded all the same.
ReceiptAsAdded ==
    \A e \in Live : (adding = None \/ adding.id # e) =>
        \/ ledger[e].receipt = ledger[e].meant
        \/ ledger[e].receipt = None /\ e \in lost \union unsure

=============================================================================
