--------------------------- MODULE HotelSettings ---------------------------
(***************************************************************************)
(* The settings page of a hotel                                            *)
(* (frontend/src/app/(partner)/settings/page.tsx): its tabs, a form that   *)
(* saves all its fields at once while other desks save theirs, and the     *)
(* payment tab, whose QR image follows the version the server drew last.   *)
(* One field stands for each way a form treats a refreshed copy: "time" is *)
(* refilled by an effect, "mode" remounts the form, "fee" keeps the value  *)
(* it was mounted with.                                                    *)
(***************************************************************************)
EXTENDS Naturals, FiniteSets

CONSTANTS Values, None,
          MaxOther,       \* bounds what other desks save
          MaxVersion      \* bounds how often the QR is drawn

VARIABLES
    rights,   \* the tabs this user may open
    tab,      \* the tab that is open
    server,   \* [Fields -> Values]
    copy,     \* the page's copy of it, or None
    shown,    \* what the form's inputs hold
    touched,  \* the fields the desk typed in since they were filled
    saving,   \* None, or the fields a save under way carries
    other,    \* saves of other desks so far
    drawn,    \* the version of the QR the server holds
    version,  \* the version in the page's copy of the configuration
    uploading,\* TRUE while a UPI id or a logo is being saved
    polls,    \* the versions that running polls wait to be exceeded
    reads,    \* the versions that reads of polls under way have seen
    images,   \* image requests under way
    src       \* None, or the image shown

formVars == <<server, copy, shown, touched, saving, other>>
qrVars == <<drawn, version, uploading, polls, reads, images, src>>
vars == <<rights, tab, formVars, qrVars>>

Fields == {"time", "mode", "fee"}
Tabs == {"hotel", "policies", "gst", "payments", "services"}
Forms == {"hotel", "policies", "gst"}
Open == {"hotel", "policies"}
Images == [got : 1..MaxVersion, live : BOOLEAN]

-----------------------------------------------------------------------------
\* The tabs offered: the payment tab needs the permission and an owner or
\* an administrator.
OfferedTabs(gst, upi, owner, settings) ==
    Open \union (IF gst THEN {"gst"} ELSE {})
         \union (IF upi /\ owner THEN {"payments"} ELSE {})
         \union (IF settings THEN {"services"} ELSE {})

\* One permission differs between the users of an instance.
Rights == {OfferedTabs(TRUE, TRUE, owner, TRUE) : owner \in BOOLEAN}

\* The tab a hash opens the page with.
FirstTab(hash, offered) == IF hash \in offered THEN hash ELSE "hotel"

\* The panel rendered for the open tab, or none.
Panel == IF tab \in rights THEN tab ELSE None

Init ==
    /\ rights \in Rights
    /\ \E hash \in Tabs : tab = FirstTab(hash, rights)
    /\ \E v \in Values : server = [f \in Fields |-> v]
    /\ copy = None /\ shown = server /\ touched = {}
    /\ saving = None /\ other = 0
    /\ drawn \in {0, 1} /\ version = drawn
    /\ uploading = FALSE /\ polls = {} /\ reads = {} /\ images = {} /\ src = None

\* The tab's component unmounts with what was typed; the instance changes
\* tabs when no save and no poll is under way.
handleTabChange(t) ==
    /\ t \in rights \ {tab}
    /\ saving = None /\ ~uploading /\ polls = {} /\ reads = {}
    /\ tab' = t
    /\ copy' = None /\ shown' = server /\ touched' = {}
    /\ version' = drawn /\ images' = {} /\ src' = None
    /\ UNCHANGED <<rights, server, saving, other, drawn, uploading, polls, reads>>

\* The active hotel or the role changes under the page: an open payment tab
\* is left.
ChangeRights(r) ==
    /\ tab = "payments" /\ r # rights
    /\ ~uploading /\ polls = {} /\ reads = {}
    /\ rights' = r
    /\ tab' = IF tab = "payments" /\ "payments" \notin r THEN "hotel" ELSE tab
    /\ version' = drawn /\ images' = {} /\ src' = None
    /\ UNCHANGED <<formVars, drawn, uploading, polls, reads>>

-----------------------------------------------------------------------------
(* The forms of the profile, the policies and GST.                         *)

\* Faulty variant: the form is not remounted for a new mode.
RefilledTimesOnly(new) ==
    [shown EXCEPT !["time"] = new["time"]]

\* The inputs when a copy arrives: all of them on the first, and when the
\* mode differs, which remounts the form; otherwise the times.
Refilled(new) ==
    IF copy = None \/ copy["mode"] # new["mode"] THEN new
    ELSE [shown EXCEPT !["time"] = new["time"]]

\* The settings are read on mount, after a save and on reconnect.
ReadSettings ==
    /\ Panel \in Forms /\ copy # server
    /\ shown' = Refilled(server)
    /\ touched' = IF copy = None \/ copy["mode"] # server["mode"] THEN {}
                  ELSE touched \ {"time"}
    /\ copy' = server
    /\ UNCHANGED <<rights, tab, server, saving, other, qrVars>>

TypeField(f, v) ==
    /\ copy # None /\ shown[f] # v
    /\ shown' = [shown EXCEPT ![f] = v]
    /\ touched' = touched \union {f}
    /\ UNCHANGED <<rights, tab, server, copy, saving, other, qrVars>>

\* A submit sends every field as shown; a failed one changes nothing.
SaveSettings ==
    /\ copy # None /\ saving = None /\ "services" \in rights
    /\ saving' = shown
    /\ UNCHANGED <<rights, tab, server, copy, shown, touched, other, qrVars>>

SettingsSaved ==
    /\ saving # None
    /\ server' \in {saving, server}
    /\ saving' = None
    /\ UNCHANGED <<rights, tab, copy, shown, touched, other, qrVars>>

OtherDesk(f, v) ==
    /\ Panel \in Forms /\ other < MaxOther /\ server[f] # v
    /\ server' = [server EXCEPT ![f] = v]
    /\ other' = other + 1
    /\ UNCHANGED <<rights, tab, copy, shown, touched, saving, qrVars>>

-----------------------------------------------------------------------------
(* The payment tab.                                                        *)

\* A new version drops the image shown and cancels the one asked for.
Show(v) ==
    /\ version' = v
    /\ IF v = version THEN UNCHANGED <<src, images>>
       ELSE /\ src' = None
            /\ images' = {[i EXCEPT !.live = FALSE] : i \in images}

\* A UPI id or a logo is saved: the server draws the next version in the
\* same request.
SaveUpi ==
    /\ Panel = "payments" /\ ~uploading /\ drawn < MaxVersion
    /\ uploading' = TRUE
    /\ UNCHANGED <<rights, tab, formVars, drawn, version, polls, reads, images, src>>

\* Faulty variant: the page counts the versions itself, failed saves as well.
UpiSavedCounted(ok) ==
    /\ uploading
    /\ uploading' = FALSE
    /\ drawn' = IF ok THEN drawn + 1 ELSE drawn
    /\ polls' = polls \union {version}
    /\ Show(version + 1)
    /\ UNCHANGED <<rights, tab, formVars, reads>>

\* Its answer: the version it carries is shown, and a poll starts for one
\* later than the version shown before.
UpiSaved(ok) ==
    /\ uploading
    /\ uploading' = FALSE
    /\ IF ok
       THEN /\ drawn' = drawn + 1
            /\ polls' = polls \union {version}
            /\ Show(drawn')
       ELSE UNCHANGED <<drawn, polls, version, src, images>>
    /\ UNCHANGED <<rights, tab, formVars, reads>>

\* pollForQr: one of at most twelve reads half a second apart; what exceeds
\* the version waited for is shown, and after the last of them the copy is
\* read once more, whatever it holds.
pollForQr(from) ==
    /\ from \in polls
    /\ polls' = polls \ {from}
    /\ reads' = reads \union {drawn}
    /\ UNCHANGED <<rights, tab, formVars, drawn, version, uploading, images, src>>

\* The answers of two polls may come in either order.
PollAnswered(v) ==
    /\ v \in reads
    /\ reads' = reads \ {v}
    /\ Show(v)
    /\ UNCHANGED <<rights, tab, formVars, drawn, uploading, polls>>

\* QrPreview asks for the image of its version; the server answers with the
\* one it holds.
AskImage ==
    /\ Panel = "payments" /\ version >= 1 /\ src = None
    /\ \A i \in images : ~i.live
    /\ images' = images \union {[got |-> drawn, live |-> TRUE]}
    /\ UNCHANGED <<rights, tab, formVars, drawn, version, uploading, polls,
                   reads, src>>

\* Faulty variant: a cancelled image is shown all the same.
ImageComesAnyway(i) ==
    /\ i \in images
    /\ images' = images \ {i}
    /\ src' = i.got
    /\ UNCHANGED <<rights, tab, formVars, drawn, version, uploading, polls,
                   reads>>

ImageComes(i) ==
    /\ i \in images
    /\ images' = images \ {i}
    /\ IF i.live THEN src' = i.got ELSE UNCHANGED src
    /\ UNCHANGED <<rights, tab, formVars, drawn, version, uploading, polls,
                   reads>>

Next ==
    \/ \E t \in Tabs : handleTabChange(t)
    \/ \E r \in Rights : ChangeRights(r)
    \/ ReadSettings
    \/ \E f \in Fields, v \in Values : TypeField(f, v) \/ OtherDesk(f, v)
    \/ SaveSettings
    \/ SettingsSaved
    \/ SaveUpi
    \/ \E ok \in BOOLEAN : UpiSaved(ok)
    \/ \E v \in 0..MaxVersion : pollForQr(v) \/ PollAnswered(v)
    \/ AskImage
    \/ \E i \in Images : ImageComes(i)

Spec == Init /\ [][Next]_vars

-----------------------------------------------------------------------------
TypeOK ==
    /\ rights \in Rights /\ tab \in Tabs
    /\ server \in [Fields -> Values] /\ shown \in [Fields -> Values]
    /\ \A c \in {copy, saving} \ {None} : c \in [Fields -> Values]
    /\ touched \subseteq Fields /\ other \in 0..MaxOther
    /\ drawn \in 0..MaxVersion /\ version \in 0..drawn
    /\ uploading \in BOOLEAN
    /\ polls \union reads \subseteq 0..MaxVersion /\ images \subseteq Images
    /\ src \in {None} \union 1..drawn

\* A time or a mode that the desk did not type itself is shown as the page's
\* copy holds it: a later save does not put back what another desk changed
\* and this page has read.
RefreshedShown ==
    copy # None => \A f \in {"time", "mode"} \ touched : shown[f] = copy[f]

\* The QR shown was not drawn before the version the page shows: a guest is
\* never shown the code of a UPI id that the page says was replaced.
PreviewNotOlder == src # None => src >= version

\* Why: the inputs a form refills are of the copy that came.
FormTyped ==
    /\ server \in [Fields -> Values] /\ shown \in [Fields -> Values]
    /\ \A c \in {copy, saving} : c # None => c \in [Fields -> Values]

\* Why: nothing the page waits for, reads or asks for is of a later version than
\* the server drew, and an image that may be shown is not older than the page.
PreviewFollows ==
    /\ drawn \in Nat /\ version \in Nat /\ version <= drawn
    /\ \A v \in reads : v \in Nat /\ v <= drawn
    /\ \A i \in images :
         /\ i \in [got : Nat, live : BOOLEAN] /\ i.got <= drawn
         /\ i.live => i.got >= version
    /\ src # None => src \in Nat /\ src >= version
=============================================================================
