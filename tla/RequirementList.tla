------------------------------ MODULE RequirementList ------------------------------
(***************************************************************************)
(* The special requirements of the hotel forms                             *)
(* (app/(partner)/edit-hotel/page.tsx): the form is filled once from the   *)
(* list of the services, which the page does not wait for.  "Update" takes *)
(* the rows as they stand; when it gets to them, after the calls of the    *)
(* other sections, it takes removed ones out of service, changes the       *)
(* edited ones and creates the new ones, one call after the other.  A call *)
(* that fails is reported and the rest go on; then the list is fetched and *)
(* the form is filled again.  The server does not mind two services of one *)
(* name (services of hotels.py).                                           *)
(***************************************************************************)
EXTENDS Naturals

CONSTANTS Ids, Names, None

Blank == ""     \* a name that is too short, or no price: the row is passed over
Texts == Names \union {Blank}
Maybe(S) == S \union {None}
Lists == [Ids -> Maybe(Names)]     \* active services; None: there is no such active service
\* The rows with an id, the one without, and whether a list had filled them.
Forms == [rows : [Ids -> Texts \union {None}], fresh : Texts \union {None}, listed : BOOLEAN]

VARIABLES
    services,   \* server
    copy,       \* cache; None before the first answer
    rows,       \* reqEntries with an id: their text, None when there is no such row
    fresh,      \* reqEntries without an id (one at a time); None: no such row
    originals,  \* originalServicesRef; None while servicesInit is false
    pressed,    \* the rows that an update took at the click; None: no update is under way
    sent,       \* the calls that it still has to make; None before it gets to the requirements
    refilling,  \* the calls are through, the queries are fetched again
    edited,     \* history: the rows that the desk touched
    made        \* history: services created for the row in fresh (2: more than one)

requirementVars == <<services, copy, rows, fresh, originals, pressed, sent, refilling, edited, made>>

TypeOK ==
    /\ services \in Lists /\ copy \in Maybe(Lists) /\ rows \in [Ids -> Texts \union {None}]
    /\ fresh \in Texts \union {None} /\ originals \in Maybe(Lists)
    /\ pressed \in Maybe(Forms) /\ refilling \in BOOLEAN
    /\ sent # None => sent \subseteq Maybe(Ids)
    /\ edited \subseteq Ids /\ made \in 0 .. 2

NoRows == [i \in Ids |-> None]

Init ==
    /\ services \in Lists /\ copy = None /\ rows = NoRows /\ fresh = None /\ originals = None
    /\ pressed = None /\ sent = None /\ refilling = FALSE /\ edited = {} /\ made = 0

\* The desk's turn: no update is under way, and a list that came has filled the form.
calm == pressed = None /\ ~refilling /\ (originals = None => copy = None)

ServicesCome ==
    /\ copy # services /\ copy' = services
    /\ UNCHANGED <<services, rows, fresh, originals, pressed, sent, refilling, edited, made>>

\* At any time, also in the middle of an update; a row that was added before goes.
FillServices ==
    /\ originals = None /\ copy # None /\ ~refilling
    /\ originals' = copy /\ rows' = copy /\ fresh' = None /\ edited' = {} /\ made' = 0
    /\ UNCHANGED <<services, copy, pressed, sent, refilling>>

(***************************************************************************)
(* Editing.                                                                *)
(***************************************************************************)
Change(i, text) ==
    /\ calm /\ rows[i] # None /\ rows[i] # text
    /\ rows' = [rows EXCEPT ![i] = text] /\ edited' = edited \union {i}
    /\ UNCHANGED <<services, copy, fresh, originals, pressed, sent, refilling, made>>

updateReqEntry(i, text) == Change(i, text)
removeReqEntry(i) == Change(i, None)

\* The row without an id: added, typed into, removed.
NewRow(text) ==
    /\ fresh' = text /\ made' = 0
    /\ UNCHANGED <<services, copy, rows, originals, pressed, sent, refilling, edited>>

addReqEntry == calm /\ fresh = None /\ NewRow(Blank)
TypeNewRow(text) == calm /\ fresh = Blank /\ text # Blank /\ NewRow(text)
RemoveNewRow == calm /\ fresh # None /\ NewRow(None)

(***************************************************************************)
(* Update.                                                                 *)
(***************************************************************************)
Known == IF originals = None THEN NoRows ELSE originals

\* Faulty variant: the form is compared with the newest copy.
OriginalCopy(i) == IF copy = None THEN None ELSE copy[i]

Original(i) == Known[i]

Deactivated == {i \in Ids : Original(i) # None /\ pressed.rows[i] = None}
Changed == {i \in Ids : pressed.rows[i] \in Names /\ pressed.rows[i] # Original(i)}

\* The click takes the rows as they are now.
Update ==
    /\ calm
    /\ pressed' = [rows |-> rows, fresh |-> fresh, listed |-> originals # None]
    /\ UNCHANGED <<services, copy, rows, fresh, originals, sent, refilling, edited, made>>

\* The requirements' turn: those rows are compared with the list of the form, which may
\* have come since the click.  None stands for the new row.
RequirementsTurn ==
    /\ pressed # None /\ sent = None
    /\ sent' = Deactivated \union Changed \union (IF pressed.fresh \in Names THEN {None} ELSE {})
    /\ UNCHANGED <<services, copy, rows, fresh, originals, pressed, refilling, edited, made>>

\* One call: the server answers, refuses, or the answer is lost.
SaveRequirement(i) ==
    /\ sent # None /\ i \in sent /\ sent' = sent \ {i}
    /\ services' \in {services, [services EXCEPT ![i] = pressed.rows[i]]}
    /\ UNCHANGED <<copy, rows, fresh, originals, pressed, refilling, edited, made>>

CreateRequirement ==
    /\ sent = {None} /\ sent' = {}
    /\ \/ UNCHANGED <<services, made>>
       \/ \E i \in Ids :
            /\ services[i] = None
            /\ services' = [services EXCEPT ![i] = pressed.fresh]
            /\ made' = IF made = 0 THEN 1 ELSE 2
    /\ UNCHANGED <<copy, rows, fresh, originals, pressed, refilling, edited>>

CallsThrough ==
    /\ sent = {} /\ sent' = None /\ pressed' = None /\ refilling' = TRUE
    /\ UNCHANGED <<services, copy, rows, fresh, originals, edited, made>>

\* Faulty variant: the form is kept as it is when a part of the update failed.
RefillKeeps ==
    /\ refilling /\ refilling' = FALSE /\ copy' \in {copy, services}
    /\ UNCHANGED <<services, rows, fresh, originals, pressed, sent, edited, made>>

\* The list is fetched again, or that fails; the form is filled from the copy either way.
Refill ==
    /\ refilling /\ refilling' = FALSE /\ copy' \in {copy, services}
    /\ originals' = None /\ UNCHANGED <<services, rows, fresh, pressed, sent, edited, made>>

OtherDesk(i, name) ==
    /\ services' = [services EXCEPT ![i] = name]
    /\ UNCHANGED <<copy, rows, fresh, originals, pressed, sent, refilling, edited, made>>

Next ==
    \/ ServicesCome \/ FillServices
    \/ \E i \in Ids : removeReqEntry(i) \/ \E t \in Texts : updateReqEntry(i, t)
    \/ addReqEntry \/ RemoveNewRow \/ \E t \in Texts : TypeNewRow(t)
    \/ Update \/ RequirementsTurn \/ CreateRequirement \/ CallsThrough \/ Refill
    \/ \E i \in Ids : SaveRequirement(i) \/ \E n \in Maybe(Names) : OtherDesk(i, n)

Spec == Init /\ [][Next]_requirementVars

(***************************************************************************)
(* What should hold.                                                       *)
(***************************************************************************)

\* A row that the desk added to a list is created at most once, however often it presses
\* Update after a part of the update failed or an answer was lost.  (While the list itself
\* cannot be fetched, the row stays in the form and is created again.)
CreatedOnce == originals # None => made <= 1

\* An update touches only the requirements whose rows the desk touched, whatever other desks
\* changed since the form was filled.  (Not when the list comes after the click: every
\* requirement of it then counts as removed, and is taken out of service.)
UntouchedRequirementsKept ==
    sent # None /\ pressed.listed => (sent \ {None}) \subseteq edited

\* Why: once a new row was created its update is past that call, and the list is filled anew.
CreatedThen ==
    /\ made \in 0 .. 2
    /\ originals # None /\ made > 0 => (sent # None /\ None \notin sent) \/ refilling
    /\ sent # None => pressed # None /\ ~refilling
    /\ CreatedOnce

\* Why: a row that the desk left alone is as the list has it; before a list came there are
\* no rows; and what was taken at the click from a filled form is what the form still shows.
RowsAsListed ==
    /\ services \in Lists /\ copy \in Maybe(Lists) /\ originals \in Maybe(Lists)
    /\ rows \in [Ids -> Texts \union {None}] /\ fresh \in Texts \union {None}
    /\ pressed \in Maybe(Forms)
    /\ originals # None => \A i \in Ids \ edited : rows[i] = originals[i]
    /\ copy = None => originals = None /\ rows = NoRows
    /\ pressed # None => ~refilling
    /\ pressed # None /\ pressed.listed => originals # None /\ pressed.rows = rows
    /\ sent # None => pressed # None /\ sent \subseteq Maybe(Ids)
    /\ sent # None => \A i \in sent \ {None} : pressed.rows[i] \in Maybe(Names)
    /\ sent # None /\ None \in sent => pressed.fresh \in Names
    /\ UntouchedRequirementsKept
====================================================================================
