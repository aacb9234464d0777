-------------------------------- MODULE HotelImages --------------------------------
(***************************************************************************)
(* The pictures of the hotel forms (app/(partner)/edit-hotel/page.tsx): a  *)
(* logo and the slots of the gallery.  A picture is read by an effect of   *)
(* its own, which runs again whenever an upload or a removal has bumped    *)
(* the slot's version; reads of earlier runs may still come in.            *)
(***************************************************************************)
EXTENDS Naturals

CONSTANTS Slots, Pictures, None,
          MaxCalls      \* bound: uploads and removals

Logo == "logo"     \* not in the gallery: its picture is always asked for
Places == Slots \union {Logo}
Asked == "asked"   \* a read that the server has not answered

VARIABLES
    pictures,    \* server: the picture of each place
    filled,      \* cache: the slots of the gallery that hold a picture
    version,     \* logoVersion and slotVersions
    src,         \* what each place shows
    reads,       \* reads under way: place, the version it is of, what the server answered
    calls,       \* uploads and removals under way, at most one of each kind
    refetching,  \* the gallery's query
    made,        \* bound: the calls made
    unsure       \* history: the places of which the last answer was lost

imagesVars == <<pictures, filled, version, src, reads, calls, refetching, made, unsure>>

Kinds == {"logo", "upload", "delete"}

TypeOK ==
    /\ pictures \in [Places -> Pictures \union {None}] /\ filled \subseteq Slots
    /\ version \in [Places -> 0 .. MaxCalls] /\ src \in [Places -> Pictures \union {None}]
    /\ \A r \in reads : r.place \in Places /\ r.of <= version[r.place]
    /\ \A c \in calls : c.kind \in Kinds /\ c.place \in Places
    /\ refetching \in BOOLEAN /\ made \in 0 .. MaxCalls /\ unsure \subseteq Places

Read(place, of) == [place |-> place, of |-> of, got |-> Asked]

Init ==
    /\ pictures \in [Places -> Pictures \union {None}]
    /\ filled = {s \in Slots : pictures[s] # None}
    /\ version = [p \in Places |-> 0] /\ src = [p \in Places |-> None]
    /\ reads = {Read(p, 0) : p \in filled \union {Logo}}
    /\ calls = {} /\ refetching = FALSE /\ made = 0 /\ unsure = {}

(***************************************************************************)
(* Reading.                                                                *)
(***************************************************************************)
Shown == filled \union {Logo}

ServerReads(r) ==
    /\ r.got = Asked /\ reads' = (reads \ {r}) \union {[r EXCEPT !.got = pictures[r.place]]}
    /\ UNCHANGED <<pictures, filled, version, src, calls, refetching, made, unsure>>

\* Faulty variant: an effect that was cleaned up shows its picture all the same.
CurrentAny(r) == TRUE

\* Whether the effect that started the read still stands.
Current(r) == r.of = version[r.place] /\ r.place \in Shown

\* A read that finds nothing leaves the place empty.
PictureComes(r) ==
    /\ r.got # Asked /\ reads' = reads \ {r}
    /\ src' = IF Current(r) THEN [src EXCEPT ![r.place] = r.got] ELSE src
    /\ UNCHANGED <<pictures, filled, version, calls, refetching, made, unsure>>

\* The list of the gallery: a slot that turns up is mounted and read, one that goes is emptied.
GalleryComes ==
    /\ refetching /\ refetching' = FALSE
    /\ filled' = {s \in Slots : pictures[s] # None}
    /\ reads' = {r \in reads : r.place \in filled' \union {Logo}}
                    \union {Read(s, version[s]) : s \in filled' \ filled}
    /\ src' = [p \in Places |-> IF p \in Slots \ filled' THEN None ELSE src[p]]
    /\ UNCHANGED <<pictures, version, calls, made, unsure>>

(***************************************************************************)
(* Uploads and removals.  The fields are disabled while a call of their    *)
(* kind is under way.                                                      *)
(***************************************************************************)
Send(kind, place, picture) ==
    /\ made < MaxCalls /\ made' = made + 1 /\ \A c \in calls : c.kind # kind
    /\ calls' = calls \union {[kind |-> kind, place |-> place, picture |-> picture, done |-> FALSE]}
    /\ UNCHANGED <<pictures, filled, version, src, reads, refetching, unsure>>

onLogoFile(picture) == Send("logo", Logo, picture)
onGalleryFile(slot, picture) == Send("upload", slot, picture)
galleryDelete(slot) == slot \in filled /\ Send("delete", slot, None)

ServerStores(c) ==
    /\ ~c.done /\ pictures' = [pictures EXCEPT ![c.place] = c.picture]
    /\ calls' = (calls \ {c}) \union {[c EXCEPT !.done = TRUE]}
    /\ UNCHANGED <<filled, version, src, reads, refetching, made, unsure>>

\* Faulty variant: the version stays, so nothing is read again.
bumpSlotNever(place) == UNCHANGED <<version, reads, src>>

\* A new version runs the effect again, which empties the place first.
bumpSlot(place) ==
    /\ version' = [version EXCEPT ![place] = @ + 1] /\ src' = [src EXCEPT ![place] = None]
    /\ reads' = reads \union (IF place \in Shown THEN {Read(place, version[place] + 1)} ELSE {})

CallSucceeds(c) ==
    /\ c.done /\ calls' = calls \ {c} /\ bumpSlot(c.place)
    /\ refetching' = (refetching \/ c.kind # "logo") /\ unsure' = unsure \ {c.place}
    /\ UNCHANGED <<pictures, filled, made>>

\* An error is reported, and nothing else; the server may have stored the picture.
CallFails(c) ==
    /\ calls' = calls \ {c} /\ unsure' = IF c.done THEN unsure \union {c.place} ELSE unsure
    /\ UNCHANGED <<pictures, filled, version, src, reads, refetching, made>>

Next ==
    \/ \E r \in reads : ServerReads(r) \/ PictureComes(r)
    \/ GalleryComes
    \/ \E p \in Pictures : onLogoFile(p) \/ \E s \in Slots : onGalleryFile(s, p)
    \/ \E s \in Slots : galleryDelete(s)
    \/ \E c \in calls : ServerStores(c) \/ CallSucceeds(c) \/ CallFails(c)

Spec == Init /\ [][Next]_imagesVars

(***************************************************************************)
(* What should hold.                                                       *)
(***************************************************************************)

\* However reads and calls overtake each other, once they have settled every place shows
\* its stored picture, and an empty one nothing (unless an answer was lost on the way).
StoredPictureShown ==
    reads = {} /\ calls = {} /\ ~refetching =>
        \A p \in Places \ unsure : src[p] = pictures[p]

\* Why: an answer that is on its way will bump the version; until then the reads of the
\* version that stands bring what is stored, and the list says which slots are filled.
Pending(p) == \E c \in calls : c.place = p /\ c.done
Brings(p) ==
    /\ \A r \in reads : r.place = p /\ r.of = version[p] => r.got \in {Asked, pictures[p]}
    /\ (\E r \in reads : r.place = p /\ r.of = version[p]) \/ src[p] = pictures[p]
ReadsSettle ==
    /\ version \in [Places -> Nat] /\ src \in [Places -> Pictures \union {None}]
    /\ pictures \in [Places -> Pictures \union {None}] /\ filled \subseteq Slots
    /\ calls \subseteq [kind : Kinds, place : Places, picture : Pictures \union {None}, done : BOOLEAN]
    /\ \A c \in calls : c.kind = "logo" <=> c.place = Logo
    /\ reads \subseteq [place : Shown, of : Nat, got : Pictures \union {None, Asked}]
    /\ \A r \in reads : r.of <= version[r.place]
    /\ \A p \in Places \ Shown : src[p] = None
    /\ \A p \in Shown \ unsure : Pending(p) \/ Brings(p)
    /\ \A s \in Slots \ unsure :
          Pending(s) \/ refetching \/ (s \in filled <=> pictures[s] # None)
====================================================================================
