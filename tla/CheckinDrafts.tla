----------------------------- MODULE CheckinDrafts -----------------------------
(***************************************************************************)
(* The saved walk-in drafts of app/(partner)/checkin/page.tsx: a list per  *)
(* hotel in localStorage, shared by the tabs of the browser, and the       *)
(* photographs of the co-guests on the server, of which a draft holds the  *)
(* object keys.  Saving and restoring are asynchronous; a tab reads the    *)
(* list when the page is mounted and afterwards trusts its own copy.       *)
(***************************************************************************)
EXTENDS Naturals, Sequences, SequencesExt

CONSTANTS Tabs, DraftHotels, None,
          MAX_DRAFTS,
          MaxSaves        \* bound: drafts saved

\* Draft 0 is of before drafts were kept per hotel.  The photograph of a
\* draft has the number of the save that uploaded it.
Drafts == 0 .. MaxSaves
Keys == 1 .. MaxSaves
NewFile == 0       \* a photograph that is not on the server yet

VARIABLES
    stored,       \* localStorage: the list of each hotel
    global,       \* localStorage: the lists of before that
    photoOf,      \* the photograph key in each draft
    madeIn,       \* history: the hotel whose form each draft was saved from
    server,       \* the photographs on the server
    hotelOf,      \* per tab: activeHotelId
    drafts,       \* per tab: its copy of the list
    restoredId,   \* per tab: restoredDraftId
    restoring,    \* per tab: the draft being restored
    photo,        \* per tab: the photograph in the form
    savingDraft,  \* per tab
    saves,        \* saveDraft calls at their upload
    count         \* drafts saved

draftVars == <<stored, global, photoOf, madeIn, server, hotelOf, drafts, restoredId,
          restoring, photo, savingDraft, saves, count>>

ListOf(list) == {list[i] : i \in DOMAIN list}
Keep(list) == IF Len(list) > MAX_DRAFTS THEN SubSeq(list, 1, MAX_DRAFTS) ELSE list

TypeOK ==
    /\ stored \in [DraftHotels -> Seq(Drafts)] /\ global \in Seq({0})
    /\ photoOf \in [Drafts -> Keys \union {None}]
    /\ madeIn \in [Drafts -> DraftHotels \union {None}]
    /\ server \subseteq Keys
    /\ hotelOf \in [Tabs -> DraftHotels] /\ drafts \in [Tabs -> Seq(Drafts)]
    /\ {restoredId[t] : t \in Tabs} \union {restoring[t] : t \in Tabs} \subseteq Drafts \union {None}
    /\ photo \in [Tabs -> {None, NewFile} \union Keys] /\ savingDraft \in [Tabs -> BOOLEAN]
    /\ count \in 0 .. MaxSaves

Init ==
    /\ stored = [h \in DraftHotels |-> <<>>] /\ global \in {<<>>, <<0>>}
    /\ photoOf = [d \in Drafts |-> None] /\ madeIn = [d \in Drafts |-> None]
    /\ server = {}
    /\ hotelOf \in [Tabs -> DraftHotels]
    /\ drafts = [t \in Tabs |-> <<>>]
    /\ restoredId = [t \in Tabs |-> None] /\ restoring = [t \in Tabs |-> None]
    /\ photo = [t \in Tabs |-> None] /\ savingDraft = [t \in Tabs |-> FALSE]
    /\ saves = {} /\ count = 0

(***************************************************************************)
(* Reading and writing the list.                                           *)
(***************************************************************************)

\* readDrafts: what is left of the global list goes to the hotel that reads
\* first; the newest are shown.
readDrafts(h) == Keep(stored[h] \o global)
AdoptGlobal(h) ==
    /\ stored' = IF global = <<>> THEN stored ELSE [stored EXCEPT ![h] = @ \o global]
    /\ global' = <<>>

writeDrafts(t, h, next) ==
    /\ stored' = [stored EXCEPT ![h] = next]
    /\ drafts' = [drafts EXCEPT ![t] = next]

draftDocKeys(list) == {photoOf[d] : d \in ListOf(list)} \ {None}

\* Faulty variant: the photographs are deleted whoever else refers to them.
deleteDraftDocs(keys, remaining) == server' \in {server, server \ keys}

\* A draft's photographs go with it, except those that drafts which stay
\* refer to.  The request may fail.
deleteDraftDocsUnlessShared(keys, remaining) ==
    server' \in {server, server \ (keys \ draftDocKeys(remaining))}

(***************************************************************************)
(* Steps.                                                                  *)
(***************************************************************************)

\* The page is mounted, for another hotel or anew.
Mount(t, h) ==
    /\ hotelOf' = [hotelOf EXCEPT ![t] = h]
    /\ AdoptGlobal(h)
    /\ drafts' = [drafts EXCEPT ![t] = readDrafts(h)]
    /\ restoredId' = [restoredId EXCEPT ![t] = None]
    /\ restoring' = [restoring EXCEPT ![t] = None]
    /\ photo' = [photo EXCEPT ![t] = None]
    /\ savingDraft' = [savingDraft EXCEPT ![t] = FALSE]
    /\ saves' = {s \in saves : s.tab # t} \union {[s EXCEPT !.mounted = FALSE] : s \in {r \in saves : r.tab = t}}
    /\ UNCHANGED <<photoOf, madeIn, server, count>>

\* A co-guest's photograph is put into the form.
QueuePhoto(t) ==
    /\ photo' = [photo EXCEPT ![t] = NewFile]
    /\ UNCHANGED <<stored, global, photoOf, madeIn, server, hotelOf, drafts, restoredId,
                   restoring, savingDraft, saves, count>>

\* saveDraft up to its upload: the handler keeps the list of now.
saveDraft(t) ==
    /\ ~savingDraft[t] /\ count < MaxSaves
    /\ savingDraft' = [savingDraft EXCEPT ![t] = TRUE]
    /\ count' = count + 1
    /\ saves' = saves \union {[tab |-> t, hotel |-> hotelOf[t], list |-> drafts[t],
                               photo |-> photo[t], id |-> count + 1, mounted |-> TRUE]}
    /\ UNCHANGED <<stored, global, photoOf, madeIn, server, hotelOf, drafts, restoredId,
                   restoring, photo>>

\* Faulty variant: the draft goes to the hotel that is active when the
\* upload ends.
SaveHotelNow(s) == hotelOf[s.tab]

\* The hotel whose form was saved.
SaveHotel(s) == s.hotel

\* The photograph is uploaded (a key that the form has is used again) or not,
\* and the list is written with the new draft first, the oldest evicted.
SaveEnds(s) ==
    LET next == Keep(<<s.id>> \o s.list)
        evicted == {d \in ListOf(s.list) : d \notin ListOf(next)}
    IN  /\ \E key \in IF s.photo = NewFile THEN {s.id, None} ELSE {s.photo} :
            /\ photoOf' = [photoOf EXCEPT ![s.id] = key]
            /\ LET gone == {photoOf[d] : d \in evicted} \ ({key, None} \union draftDocKeys(next))
                   now == server \union (IF key = s.id THEN {s.id} ELSE {})
               IN server' \in {now, now \ gone}
        /\ madeIn' = [madeIn EXCEPT ![s.id] = s.hotel]
        /\ stored' = [stored EXCEPT ![SaveHotel(s)] = next]
        /\ drafts' = IF s.mounted THEN [drafts EXCEPT ![s.tab] = next] ELSE drafts
        /\ savingDraft' = IF s.mounted THEN [savingDraft EXCEPT ![s.tab] = FALSE] ELSE savingDraft
        /\ saves' = saves \ {s}
        /\ UNCHANGED <<global, hotelOf, restoredId, restoring, photo, count>>

\* restoreDraft fills the form and fetches the photographs.
restoreDraft(t, d) ==
    /\ restoring[t] = None /\ d \in ListOf(drafts[t])
    /\ restoring' = [restoring EXCEPT ![t] = d]
    /\ UNCHANGED <<stored, global, photoOf, madeIn, server, hotelOf, drafts, restoredId,
                   photo, savingDraft, saves, count>>

\* The photograph comes back, or cannot be fetched.
RestoreEnds(t) ==
    /\ restoring[t] # None
    /\ LET key == photoOf[restoring[t]]
       IN photo' \in {[photo EXCEPT ![t] = p] :
                        p \in {None} \union (IF key \in server THEN {key} ELSE {})}
    /\ restoredId' = [restoredId EXCEPT ![t] = restoring[t]]
    /\ restoring' = [restoring EXCEPT ![t] = None]
    /\ UNCHANGED <<stored, global, photoOf, madeIn, server, hotelOf, drafts, savingDraft,
                   saves, count>>

\* A draft is in a list once at most.
Without(list, d) ==
    IF d \in ListOf(list) THEN RemoveAt(list, CHOOSE i \in DOMAIN list : list[i] = d) ELSE list

discardDraft(t, d) ==
    /\ restoring[t] = None /\ d \in ListOf(drafts[t])
    /\ LET next == Without(drafts[t], d)
       IN /\ writeDrafts(t, hotelOf[t], next)
          /\ deleteDraftDocsUnlessShared({photoOf[d]} \ {None}, next)
    /\ restoredId' = [restoredId EXCEPT ![t] = IF @ = d THEN None ELSE @]
    /\ UNCHANGED <<global, photoOf, madeIn, hotelOf, restoring, photo, savingDraft, saves, count>>

\* The check-in succeeded: the draft it was restored from is consumed, unless
\* some document of a co-guest could not be uploaded.
CheckedIn(t) ==
    /\ restoredId[t] # None
    /\ \/ UNCHANGED <<stored, drafts, server>>
       \/ LET next == Without(drafts[t], restoredId[t])
          IN /\ writeDrafts(t, hotelOf[t], next)
             /\ deleteDraftDocsUnlessShared({photoOf[restoredId[t]]} \ {None}, next)
    /\ restoredId' = [restoredId EXCEPT ![t] = None]
    /\ photo' = [photo EXCEPT ![t] = None]
    /\ UNCHANGED <<global, photoOf, madeIn, hotelOf, restoring, savingDraft, saves, count>>

Next ==
    \/ \E t \in Tabs :
        \/ QueuePhoto(t) \/ saveDraft(t) \/ RestoreEnds(t) \/ CheckedIn(t)
        \/ \E h \in DraftHotels : Mount(t, h)
        \/ \E d \in Drafts : restoreDraft(t, d) \/ discardDraft(t, d)
    \/ \E s \in saves : SaveEnds(s)

Spec == Init /\ [][Next]_draftVars

(***************************************************************************)
(* Properties.                                                             *)
(***************************************************************************)

\* A draft is stored only for the hotel whose form it was saved from, also
\* when the hotel was switched while it was being saved, and a draft of
\* before goes to one hotel ("drafts from Hotel A appeared under Hotel B",
\* checkin/page.tsx:209).
DraftsStayInHotel ==
    \A h \in DraftHotels : \A d \in ListOf(stored[h]) :
        IF d = 0 THEN \A g \in DraftHotels \ {h} : 0 \notin ListOf(stored[g])
                 ELSE madeIn[d] = h

\* Whatever is deleted with a draft, the drafts that stay keep their
\* photographs, also those they share after a restore and a second save
\* ("deleting blindly would destroy the other draft's photos",
\* checkin/page.tsx:4464-4466).
SurvivorsKept ==
    \A h \in DraftHotels : stored[h] # stored'[h] =>
        \A d \in ListOf(stored[h]) \intersect ListOf(stored'[h]) :
            photoOf[d] \in server => photoOf[d] \in server'

\* Why: what a tab has, and what a save took from it, is of its hotel like
\* what is stored there; the number of a save under way is not in use, and a
\* page that is still mounted is of the hotel of its save.
HeldAt(h, d) ==
    \/ d \in ListOf(stored[h])
    \/ \E t \in Tabs : hotelOf[t] = h /\ d \in ListOf(drafts[t])
    \/ \E s \in saves : s.hotel = h /\ d \in ListOf(s.list)
ListsTyped ==
    /\ stored \in [DraftHotels -> Seq(Drafts)] /\ drafts \in [Tabs -> Seq(Drafts)]
    /\ global \in {<<>>, <<0>>} /\ hotelOf \in [Tabs -> DraftHotels]
    /\ count \in Drafts /\ DOMAIN madeIn = Drafts
SavesOfTabs ==
    /\ \A s \in saves :
         /\ {"tab", "hotel", "list", "id", "mounted"} \subseteq DOMAIN s
         /\ s.tab \in Tabs /\ s.hotel \in DraftHotels /\ s.list \in Seq(Drafts)
         /\ s.id \in 1 .. count
         /\ s.mounted => hotelOf[s.tab] = s.hotel
    /\ \A r, s \in saves : r.id = s.id => r = s
HeldByOne ==
    \A h \in DraftHotels, d \in Drafts : HeldAt(h, d) =>
        /\ d = 0 => global = <<>> /\ \A g \in DraftHotels \ {h} : ~HeldAt(g, 0)
        /\ d # 0 => madeIn[d] = h /\ d <= count /\ \A s \in saves : s.id # d
HeldByHotel == ListsTyped /\ SavesOfTabs /\ HeldByOne
=============================================================================
