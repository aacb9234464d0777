-------------------------------- MODULE CoGuests --------------------------------
(***************************************************************************)
(* The additional guests of the check-in page (checkin/page.tsx): the      *)
(* cards of AdditionalGuestEntry, each with state of its own, and the list *)
(* that the page sends, where a card writes to the slot of its key.        *)
(*                                                                         *)
(* A handler that awaits an answer, or a picture that is being cropped,    *)
(* keeps the keys, the card and the Form C of the moment it was started;   *)
(* it also runs on when its card is gone.                                  *)
(***************************************************************************)
EXTENDS Naturals, Sequences, FiniteSets

CONSTANTS Guests,         \* people with a profile, or to be given one
          None,
          MaxEntries      \* bound: cards added

Entries == 1 .. MaxEntries     \* by the time they were added

\* Form C: not a foreign guest, no passport number yet, or complete.
FormC == {"off", "noPassport", "complete"}
Cards == [guest : Guests, foreign : FormC]

\* A slot that was never written: filter passes it over, and copying the list
\* writes undefined (None) to it.
Hole == [guest |-> None, foreign |-> "off"]

VARIABLES
    added,        \* cards added so far
    guestKeys,    \* the cards in the page, in order
    coGuests,     \* the list: a card's data, undefined or a hole in each slot
    mode,         \* per card: searching for a guest or entering a new one
    resolved,     \* per card: the guest it shows, or None
    form,         \* per card: what its Form C section shows
    flights,      \* handlers that await an answer or a picture
    hasty,        \* history: the desk did something else meanwhile
    party         \* the guests of the submitted check-in, or None

partyVars == <<added, guestKeys, coGuests, mode, resolved, form, flights, hasty, party>>

Range(s) == {s[i] : i \in DOMAIN s}
Filled(list) == Range(list) \ {None, Hole}

TypeOK ==
    /\ added \in 0 .. MaxEntries /\ guestKeys \in Seq(Entries) 
    /\ coGuests \in Seq(Cards \union {None, Hole})
    /\ mode \in [Entries -> {"search", "form"}]
    /\ resolved \in [Entries -> Cards \union {None}] /\ form \in [Entries -> FormC]
    /\ flights \subseteq [entry : Entries, keys : Seq(Entries), card : Cards]
    /\ hasty \in BOOLEAN /\ (party = None \/ party \subseteq Cards)

Init ==
    /\ added = 0 /\ guestKeys = <<>> /\ coGuests = <<>>
    /\ mode = [e \in Entries |-> "search"]
    /\ resolved = [e \in Entries |-> None] /\ form = [e \in Entries |-> "off"]
    /\ flights = {} /\ hasty = FALSE /\ party = None

Mounted == Range(guestKeys)
IndexIn(keys, e) == CHOOSE i \in DOMAIN keys : keys[i] = e

\* Array.filter: the elements at the positions of S, in order.
Kept(s, S) ==
    [j \in 1 .. Cardinality(S) |->
       s[CHOOSE i \in S : Cardinality({k \in S : k <= i}) = j]]

\* [...prev]
Copy(list) == [j \in DOMAIN list |-> IF list[j] = Hole THEN None ELSE list[j]]

\* Faulty variant: the guest is put at the end.
resolveCoGuestUpdaterAtEnd(keys, e, card) ==
    Append(Kept(coGuests, {j \in DOMAIN coGuests : coGuests[j] # card}), card)

\* The card's slot is its place among the keys the caller knew; a list that
\* is too short gets holes, and a key that is not among them is lost.
resolveCoGuestUpdater(keys, e, card) ==
    IF e \notin Range(keys) THEN Copy(coGuests)
    ELSE LET i == IndexIn(keys, e)
             size == IF i > Len(coGuests) THEN i ELSE Len(coGuests)
         IN [j \in 1 .. size |-> IF j = i THEN card
                                 ELSE IF j \in DOMAIN coGuests THEN Copy(coGuests)[j] ELSE Hole]

\* People who are in the page already: nobody is entered twice.
Chosen == {c.guest : c \in Filled(coGuests)} \union {f.card.guest : f \in flights}
             \union {resolved[e].guest : e \in {x \in Mounted : resolved[x] # None}}

Flying(e) == {f \in flights : f.entry = e}

(***************************************************************************)
(* The list.                                                               *)
(***************************************************************************)

\* A new card takes what its slot holds, as after a restored draft.
InSlot(i) == IF i \in DOMAIN coGuests THEN Copy(coGuests)[i] ELSE None

addGuestEntry ==
    /\ party = None /\ added < MaxEntries
    /\ added' = added + 1
    /\ guestKeys' = Append(guestKeys, added + 1)
    /\ resolved' = [resolved EXCEPT ![added + 1] = InSlot(Len(guestKeys) + 1)]
    /\ UNCHANGED <<coGuests, mode, form, flights, hasty, party>>

\* The card goes, with its slot and the holes of the list.
removeGuestEntry(e) ==
    /\ party = None /\ e \in Mounted
    /\ coGuests' = Kept(coGuests, {j \in DOMAIN coGuests :
                                     j # IndexIn(guestKeys, e) /\ coGuests[j] # Hole})
    /\ guestKeys' = Kept(guestKeys, {j \in DOMAIN guestKeys : guestKeys[j] # e})
    /\ hasty' = (hasty \/ flights # {} \/ \E k \in Mounted \ {e} : resolved[k] = None)
    /\ UNCHANGED <<added, mode, resolved, form, flights, party>>

(***************************************************************************)
(* A card.                                                                 *)
(***************************************************************************)

onResolved(keys, e, card) ==
    /\ coGuests' = resolveCoGuestUpdater(keys, e, card)
    /\ resolved' = [resolved EXCEPT ![e] = card]

\* An empty card shows the search box with its results or the form of a new
\* guest.
SearchBox(e) == party = None /\ e \in Mounted /\ resolved[e] = None /\ mode[e] = "search"
NewGuestForm(e) == party = None /\ e \in Mounted /\ resolved[e] = None /\ mode[e] = "form"

\* A search that finds nobody opens the form; the desk may switch as well.
handleSearch(e) ==
    /\ SearchBox(e) \/ NewGuestForm(e)
    /\ mode' = [mode EXCEPT ![e] = IF @ = "search" THEN "form" ELSE "search"]
    /\ UNCHANGED <<added, guestKeys, coGuests, resolved, form, flights, hasty, party>>

\* A handler that will write a card; bound: one of each card at a time.
Starts(e, card) ==
    /\ Flying(e) = {}
    /\ flights' = flights \union {[entry |-> e, keys |-> guestKeys, card |-> card]}
    /\ UNCHANGED <<added, guestKeys, coGuests, mode, resolved, form, hasty, party>>

\* One selection at a time: the profile is imported from the other hotel if
\* need be, and fetched.
handleSelectExisting(e, g) ==
    /\ SearchBox(e) /\ g \notin Chosen
    /\ Starts(e, [guest |-> g, foreign |-> form[e]])

\* The form of a new guest is confirmed.  Meanwhile a selection of the same
\* card may be under way.
ConfirmNewGuest(e, g) ==
    /\ NewGuestForm(e) /\ g \notin Chosen
    /\ onResolved(guestKeys, e, [guest |-> g, foreign |-> form[e]])
    /\ hasty' = (hasty \/ Flying(e) # {})
    /\ UNCHANGED <<added, guestKeys, mode, form, flights, party>>

\* A card with a guest, and its edit form.
GuestCard(e) == party = None /\ e \in Mounted /\ resolved[e] # None

\* The edit form of a guest with a profile is saved.
handleEditConfirm(e) ==
    /\ GuestCard(e) /\ Starts(e, resolved[e])

\* A picture is chosen for the card: cropped and compressed it is queued, with
\* the card as it was when the file was chosen.
handleQueueDoc(e) ==
    /\ GuestCard(e) /\ Starts(e, resolved[e])

\* The answer or the picture comes; or the request failed, or the desk gave the
\* picture up.
FlightEnds(f) ==
    /\ flights' = flights \ {f}
    /\ \/ onResolved(f.keys, f.entry, f.card)
       \/ UNCHANGED <<coGuests, resolved>>
    /\ UNCHANGED <<added, guestKeys, mode, form, hasty, party>>

\* Faulty variant: the card alone is told.
applyForeignLocal(e, c) ==
    /\ form' = [form EXCEPT ![e] = c]
    /\ UNCHANGED <<coGuests, resolved>>

\* The Form C section, in the form of a new guest or in the card.
applyForeign(e, c) ==
    /\ form' = [form EXCEPT ![e] = c]
    /\ IF resolved[e] = None THEN UNCHANGED <<coGuests, resolved>>
       ELSE onResolved(guestKeys, e, [resolved[e] EXCEPT !.foreign = c])

EnterFormC(e, c) ==
    /\ GuestCard(e) \/ NewGuestForm(e)
    /\ c # form[e]
    /\ applyForeign(e, c)
    /\ hasty' = (hasty \/ Flying(e) # {})
    /\ UNCHANGED <<added, guestKeys, mode, flights, party>>

(***************************************************************************)
(* The check-in is submitted: every foreign guest needs a passport number. *)
(***************************************************************************)
Submit ==
    /\ party = None
    /\ \A c \in Filled(coGuests) : c.foreign # "noPassport"
    /\ party' = Filled(coGuests)
    /\ hasty' = (hasty \/ flights # {})
    /\ UNCHANGED <<added, guestKeys, coGuests, mode, resolved, form, flights>>

Next ==
    \/ addGuestEntry
    \/ Submit
    \/ \E f \in flights : FlightEnds(f)
    \/ \E e \in Entries :
        \/ removeGuestEntry(e)
        \/ handleSearch(e)
        \/ handleEditConfirm(e) \/ handleQueueDoc(e)
        \/ \E g \in Guests : handleSelectExisting(e, g) \/ ConfirmNewGuest(e, g)
        \/ \E c \in FormC : EnterFormC(e, c)

Spec == Init /\ [][Next]_partyVars

(***************************************************************************)
(* Properties.                                                             *)
(***************************************************************************)

\* What the cards in the page show.
Shown == {[guest |-> resolved[e].guest, foreign |-> form[e]] :
            e \in {k \in Mounted : resolved[k] # None}}

\* As long as the desk waits for every answer and removes a card only when
\* all others are filled in, the check-in has the guests and the Form C
\* details that the cards show, no more and no fewer.
OrderlyParty == (party # None /\ ~hasty) => party = Shown

\* Why: as long as the desk does that, every card in the page shows what its
\* slot of the list holds, with the Form C of its own, and an answer on its way
\* is for a card that still has the place it had.
CardsInSlots ==
    /\ \A i, j \in DOMAIN guestKeys : guestKeys[i] = guestKeys[j] => i = j
    /\ \A i \in DOMAIN guestKeys : guestKeys[i] <= added
    /\ ~hasty =>
         /\ Len(coGuests) <= Len(guestKeys)
         /\ \A i \in DOMAIN guestKeys :
              /\ resolved[guestKeys[i]] = InSlot(i)
              /\ InSlot(i) # None => InSlot(i).foreign = form[guestKeys[i]]
         /\ \A f \in flights :
              /\ Len(f.keys) <= Len(guestKeys)
              /\ \A i \in DOMAIN f.keys : f.keys[i] = guestKeys[i]
              /\ f.entry \in Range(f.keys) /\ f.card.foreign = form[f.entry]
         /\ party # None => flights = {} /\ party = Filled(coGuests)

=============================================================================
