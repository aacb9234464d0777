------------------------------- MODULE AdvanceGuest -------------------------------
(***************************************************************************)
(* The guest of the advance-booking page (advance-booking/page.tsx).       *)
(* Choosing a guest shows the name at once and asks for the profile; the   *)
(* answer, whenever it comes, fills the form and becomes the baseline.     *)
(* Making the booking writes to the chosen guest's profile what the form   *)
(* has and the baseline has not.                                           *)
(*                                                                         *)
(* The details of a profile (gender, birth date, address, ID) are one      *)
(* value: whose they are, "typed" by the desk, or None where there are     *)
(* none.                                                                   *)
(***************************************************************************)
EXTENDS Naturals

CONSTANTS Guests,
          NewGuests,  \* those not registered yet
          Blank,      \* those whose profile has no details
          None

Details == Guests \union {"typed", None}
Original(g) == IF g \in Blank THEN None ELSE g

VARIABLES
    guest,        \* the chosen guest or None
    pgName,       \* whose name and phone the form has
    profile,      \* the details in the form
    pgBaseline,   \* the details of the last answer, "unread" when there is none
    pgEditing, showNewGuest,
    answers,      \* profiles asked for by choosing a guest
    fills,        \* profiles asked for by the Autofill button, with the form of that moment
    revealing,    \* the guests whose ID number was asked for
    creating,     \* the new guest being created, or None
    registered,   \* server: the guests
    record,       \* server: their details
    booked,       \* the guest of the booking, or None
    hasty         \* history: the desk went on while an answer was awaited, or one failed

formVars == <<guest, pgName, profile, pgBaseline, pgEditing, showNewGuest>>
guestVars == <<formVars, answers, fills, revealing, creating, registered, record, booked, hasty>>

TypeOK ==
    /\ guest \in Guests \union {None} /\ pgName \in Guests \union {None}
    /\ profile \in Details /\ pgBaseline \in Details \union {"unread"}
    /\ {pgEditing, showNewGuest, hasty} \subseteq BOOLEAN /\ answers \subseteq Guests
    /\ revealing \subseteq Guests
    /\ \A f \in fills : f.guest \in Guests /\ f.form \in Details
    /\ creating \in Guests \union {None} /\ registered \subseteq Guests
    /\ record \in [Guests -> Details] /\ booked \in Guests \union {None}

Init ==
    /\ guest = None /\ pgName = None /\ profile = None /\ pgBaseline = "unread"
    /\ pgEditing = FALSE /\ showNewGuest = FALSE
    /\ answers = {} /\ fills = {} /\ revealing = {} /\ creating = None
    /\ registered = Guests \ NewGuests
    /\ record = [g \in Guests |-> Original(g)] /\ booked = None /\ hasty = FALSE

Awaiting == answers # {} \/ fills # {} \/ revealing # {} \/ creating # None
DeskActs == booked = None /\ hasty' = (hasty \/ Awaiting)

(***************************************************************************)
(* Choosing a guest.                                                       *)
(***************************************************************************)
Choose(g) ==
    /\ guest' = g /\ pgName' = g /\ pgEditing' = FALSE /\ answers' = answers \union {g}
    /\ UNCHANGED <<profile, pgBaseline>>

SelectGuest(g) ==
    /\ guest = None /\ g \in registered /\ DeskActs /\ Choose(g) /\ showNewGuest' = FALSE
    /\ UNCHANGED <<fills, revealing, creating, registered, record, booked>>

\* The fields keep what they have.
ClearGuest ==
    /\ guest # None /\ DeskActs /\ guest' = None /\ pgBaseline' = "unread" /\ showNewGuest' = FALSE
    /\ UNCHANGED <<pgName, profile, pgEditing, answers, fills, revealing, creating,
                   registered, record, booked>>

\* Faulty variant: a detail the profile does not have keeps the field's value.
FilledByKeeping(g, form) == IF record[g] = None THEN form ELSE record[g]

\* The fields a chosen guest's profile has no value for are emptied.
FilledBy(g, form) == record[g]

ProfileRead(g) ==
    /\ g \in answers /\ answers' = answers \ {g} /\ booked = None
    /\ \/ profile' = FilledBy(g, profile) /\ pgBaseline' = record[g] /\ pgName' = g /\ UNCHANGED hasty
       \/ pgBaseline' = "unread" /\ hasty' = TRUE /\ UNCHANGED <<profile, pgName>>
    /\ UNCHANGED <<guest, pgEditing, showNewGuest, fills, revealing, creating,
                   registered, record, booked>>

(***************************************************************************)
(* A new guest.                                                            *)
(***************************************************************************)
OpenNewGuest ==
    /\ guest = None /\ ~showNewGuest /\ DeskActs /\ showNewGuest' = TRUE
    /\ UNCHANGED <<guest, pgName, profile, pgBaseline, pgEditing, answers, fills,
                   revealing, creating, registered, record, booked>>

createPrimaryGuest(g) ==
    /\ guest = None /\ showNewGuest /\ creating = None /\ g \notin registered /\ DeskActs /\ creating' = g
    /\ UNCHANGED <<formVars, answers, fills, revealing, registered, record, booked>>

\* The created guest is chosen, also when the desk has chosen another since; a
\* picture that could not be sent is only reported.
GuestCreated ==
    /\ creating # None /\ booked = None /\ creating' = None
    /\ \/ /\ registered' = registered \union {creating} /\ showNewGuest' = FALSE
          /\ Choose(creating)
       \/ registered' \in {registered, registered \union {creating}} /\ UNCHANGED <<formVars, answers>>
    /\ UNCHANGED <<fills, revealing, record, booked, hasty>>

(***************************************************************************)
(* Editing the details.                                                    *)
(***************************************************************************)
Autofill ==
    /\ guest # None /\ ~pgEditing /\ fills = {} /\ DeskActs
    /\ fills' = {[guest |-> guest, form |-> profile]}
    /\ UNCHANGED <<formVars, answers, revealing, creating, registered, record, booked>>

\* Here a detail the profile has no value for keeps the field's value of the click.
AutofillRead(f) ==
    /\ f \in fills /\ fills' = {} /\ pgEditing' = TRUE /\ booked = None
    /\ \/ /\ profile' = (IF record[f.guest] = None THEN f.form ELSE record[f.guest])
          /\ pgBaseline' = record[f.guest] /\ pgName' = f.guest
       \/ UNCHANGED <<profile, pgBaseline, pgName>>
    /\ UNCHANGED <<guest, showNewGuest, answers, revealing, creating, registered, record,
                   booked, hasty>>

EditGuest ==
    /\ guest # None /\ DeskActs /\ pgEditing' = ~pgEditing
    /\ UNCHANGED <<guest, pgName, profile, pgBaseline, showNewGuest, answers, fills,
                   revealing, creating, registered, record, booked>>

\* By hand or by accepting a scan.
EditDetails ==
    /\ guest # None /\ pgEditing /\ DeskActs /\ profile' = "typed"
    /\ UNCHANGED <<guest, pgName, pgBaseline, pgEditing, showNewGuest, answers, fills, revealing,
                   creating, registered, record, booked>>

\* The ID number is masked until its guest's is asked for.
RevealId ==
    /\ guest # None /\ pgEditing /\ profile # None /\ DeskActs
    /\ revealing' = revealing \union {guest}
    /\ UNCHANGED <<formVars, answers, fills, creating, registered, record, booked>>

\* The number that comes is put into the form, whoever is chosen by then; it may
\* not come, or the guest has none.
IdRevealed(g) ==
    /\ g \in revealing /\ revealing' = revealing \ {g} /\ booked = None
    /\ profile' \in {profile,
                     IF record[g] = None \/ (g = guest /\ profile = "typed") THEN profile
                     ELSE IF g = guest THEN record[g] ELSE g}
    /\ UNCHANGED <<guest, pgName, pgBaseline, pgEditing, showNewGuest, answers, fills, creating,
                   registered, record, booked, hasty>>

(***************************************************************************)
(* Making the booking: the patch is what the form has and the baseline has *)
(* not; an empty field is never sent.                                      *)
(***************************************************************************)
patch == IF profile # None /\ profile # pgBaseline THEN profile ELSE None

MakeBooking ==
    /\ guest # None /\ DeskActs
    /\ record' = [record EXCEPT ![guest] = IF patch = None THEN @ ELSE patch]
    /\ booked' \in {guest, None}
    /\ UNCHANGED <<formVars, answers, fills, revealing, creating, registered>>

Next ==
    \/ \E g \in Guests : SelectGuest(g) \/ ProfileRead(g) \/ createPrimaryGuest(g) \/ IdRevealed(g)
    \/ ClearGuest \/ OpenNewGuest \/ GuestCreated
    \/ Autofill \/ (\E f \in fills : AutofillRead(f)) \/ EditGuest \/ EditDetails
    \/ RevealId \/ MakeBooking

Spec == Init /\ [][Next]_guestVars

-----------------------------------------------------------------------------
\* As long as the desk waits for the profile of the guest it chose, and gets it, no
\* guest's profile is given the details of another one, and the booking is made for
\* the guest whose name the page shows; whichever guests were chosen before.
OwnDetails ==
    ~hasty => /\ \A g \in Guests : record[g] \in {Original(g), "typed"}
              /\ booked # None => pgName = booked

\* Why: meanwhile the form is the chosen guest's from the answer on, an answer
\* on its way is for that guest, and none is while a new guest is being created.
FormIsGuests ==
    ~hasty => /\ answers \subseteq {guest} /\ (guest # None => pgName = guest)
              /\ guest # None /\ answers = {} => profile \in {Original(guest), "typed"}
              /\ \A f \in fills : f.guest = guest /\ f.form \in {Original(guest), "typed"}
              /\ fills # {} => guest # None /\ answers = {}
              /\ revealing \subseteq {guest}
              /\ revealing # {} => guest # None /\ answers = {} /\ fills = {} /\ creating = None
              /\ creating # None => guest = None /\ answers = {} /\ fills = {}

=============================================================================
