-------------------------------- MODULE GuestDocs --------------------------------
(***************************************************************************)
(* A document tile of a guest form (components/stay/new-guest-full-form):  *)
(* DocUpload sends the picture to the guest's profile at once,             *)
(* QueuedDocUpload keeps it until the guest is created; both can take it   *)
(* with the device's camera.                                               *)
(*                                                                         *)
(* A chosen picture is prepared, passes the one picture editor of the page *)
(* (a second request takes the first one's place, whose caller then waits  *)
(* for ever) and is then compressed and sent or queued.  Two pictures can  *)
(* be on their way at once: the tile is locked only from the editor on.    *)
(***************************************************************************)
EXTENDS Naturals

CONSTANTS Files,    \* the pictures the desk may choose
          Old,      \* the document the guest's profile already has
          None,
          MaxAsks   \* bound: times the camera is asked for

Pictures == Files \union {Old}

VARIABLES
    tile,       \* "upload" or "queued": which tile this is
    known,      \* existingDocId has arrived
    loading,    \* the existing document is being fetched
    stored,     \* what the profile (or the queue) has, newest
    preview, uploaded, busy,
    calls,      \* where each chosen picture is
    crossed,    \* history: two pictures, or a picture and the fetch, were on their way at once
    cameraOpen, asking, late, streams  \* the panel, its request, requests of closed panels, open streams

tileVars == <<tile, known, loading, stored, preview, uploaded, busy, calls, crossed>>
cameraVars == <<cameraOpen, asking, late, streams>>
docVars == <<tileVars, cameraVars>>

TypeOK ==
    /\ tile \in {"upload", "queued"} /\ {known, loading, uploaded, busy, crossed} \subseteq BOOLEAN
    /\ {stored, preview} \subseteq Pictures \union {None}
    /\ calls \in [Files -> {None, "preparing", "editing", "sending", "over"}]
    /\ {cameraOpen, asking} \subseteq BOOLEAN /\ late \in 0 .. MaxAsks /\ streams \in Nat

Init ==
    /\ tile \in {"upload", "queued"} /\ stored \in (IF tile = "upload" THEN {None, Old} ELSE {None})
    /\ known = FALSE /\ loading = FALSE /\ preview = None /\ uploaded = FALSE /\ busy = FALSE
    /\ calls = [f \in Files |-> None] /\ crossed = FALSE
    /\ cameraOpen = FALSE /\ asking = FALSE /\ late = 0 /\ streams = 0

OnTheirWay == {f \in Files : calls[f] \in {"preparing", "editing", "sending"}}

(***************************************************************************)
(* The existing document: the page's list arrives, the tile fetches it.    *)
(***************************************************************************)
DocsListed ==
    /\ tile = "upload" /\ ~known /\ stored # None /\ known' = TRUE
    /\ loading' = (preview = None) /\ busy' = (busy \/ preview = None)
    /\ crossed' = (crossed \/ OnTheirWay # {} \/ stored # Old)
    /\ UNCHANGED <<tile, stored, preview, uploaded, calls, cameraVars>>

ExistingLoaded ==
    /\ loading /\ loading' = FALSE /\ busy' = FALSE
    /\ \/ preview' = Old /\ uploaded' = TRUE
       \/ UNCHANGED <<preview, uploaded>>
    /\ UNCHANGED <<tile, known, stored, calls, crossed, cameraVars>>

(***************************************************************************)
(* A chosen picture (onFile).                                              *)
(***************************************************************************)
QueuedTileOpen == tile = "queued"
UploadTileOpen == tile = "upload" /\ ~busy
Choosable == QueuedTileOpen \/ UploadTileOpen

Choose(f) ==
    /\ calls[f] = None /\ calls' = [calls EXCEPT ![f] = "preparing"]
    /\ crossed' = (crossed \/ OnTheirWay # {} \/ loading)
    /\ UNCHANGED <<tile, known, loading, stored, preview, uploaded, busy>>

onFile(f) == Choosable /\ (\A g \in Files : calls[g] # "editing") /\ Choose(f) /\ UNCHANGED cameraVars

\* The editor shows one picture: the caller of another one never hears again.
Prepared(f) ==
    /\ calls[f] = "preparing"
    /\ calls' = [g \in Files |-> IF g = f THEN "editing" ELSE IF calls[g] = "editing" THEN "over" ELSE calls[g]]
    /\ UNCHANGED <<tile, known, loading, stored, preview, uploaded, busy, crossed, cameraVars>>

CancelEdit(f) ==
    /\ calls[f] = "editing" /\ calls' = [calls EXCEPT ![f] = "over"]
    /\ UNCHANGED <<tile, known, loading, stored, preview, uploaded, busy, crossed, cameraVars>>

ConfirmEdit(f) ==
    /\ calls[f] = "editing" /\ calls' = [calls EXCEPT ![f] = "sending"] /\ preview' = f
    /\ busy' = (tile = "upload")
    /\ UNCHANGED <<tile, known, loading, stored, uploaded, crossed, cameraVars>>

\* handleQueueDoc replaces the picture of the side; the profile lists the newest first.
Sent(f) ==
    /\ calls[f] = "sending" /\ calls' = [calls EXCEPT ![f] = "over"]
    /\ stored' = f /\ uploaded' = TRUE /\ busy' = FALSE
    /\ UNCHANGED <<tile, known, loading, preview, crossed, cameraVars>>

\* Faulty variant: the picture that could not be sent stays in the tile.
NotSentStays(f) ==
    /\ calls[f] = "sending" /\ calls' = [calls EXCEPT ![f] = "over"]
    /\ busy' = FALSE /\ UNCHANGED <<tile, known, loading, stored, preview, uploaded, crossed, cameraVars>>

\* The tile is empty then, whatever the profile or the queue still has.
NotSent(f) ==
    /\ calls[f] = "sending" /\ calls' = [calls EXCEPT ![f] = "over"]
    /\ preview' = None /\ busy' = FALSE /\ UNCHANGED <<tile, known, loading, stored, uploaded, crossed, cameraVars>>

(***************************************************************************)
(* The camera panel (InlineCameraCapture).                                 *)
(***************************************************************************)
handleCameraClick ==
    /\ Choosable /\ ~cameraOpen /\ late < MaxAsks /\ (\A f \in Files : calls[f] # "editing")
    /\ cameraOpen' = TRUE /\ asking' = TRUE /\ UNCHANGED <<late, streams, tileVars>>

\* The stream is stopped; a request still open will find itself cancelled.
Released == cameraOpen' = FALSE /\ asking' = FALSE /\ late' = late + (IF asking THEN 1 ELSE 0) /\ streams' = 0

CloseCamera == cameraOpen /\ Released /\ UNCHANGED tileVars

Granted == asking /\ asking' = FALSE /\ streams' = streams + 1 /\ UNCHANGED <<cameraOpen, late, tileVars>>

\* Faulty variant: the stream of a request that came too late stays open.
GrantedLateKept == late > 0 /\ late' = late - 1 /\ streams' = streams + 1 /\ UNCHANGED <<cameraOpen, asking, tileVars>>

\* The camera opens for a panel that is gone and is stopped at once.
GrantedLate == late > 0 /\ late' = late - 1 /\ UNCHANGED <<cameraOpen, asking, streams, tileVars>>

\* A refused request closes the panel, a late one the panel opened since.
Refused ==
    \/ asking /\ Released /\ UNCHANGED tileVars
    \/ /\ late > 0 /\ cameraOpen' = FALSE /\ asking' = FALSE /\ streams' = 0
       /\ late' = (late - 1) + (IF asking THEN 1 ELSE 0) /\ UNCHANGED tileVars

\* The picture goes the way of a chosen one and the panel closes.
capture(f) == cameraOpen /\ streams > 0 /\ Choose(f) /\ Released

Next ==
    \/ DocsListed \/ ExistingLoaded
    \/ \E f \in Files : onFile(f) \/ Prepared(f) \/ CancelEdit(f) \/ ConfirmEdit(f) \/ Sent(f) \/ NotSent(f) \/ capture(f)
    \/ handleCameraClick \/ CloseCamera \/ Granted \/ GrantedLate \/ Refused

Spec == Init /\ [][Next]_docVars

-----------------------------------------------------------------------------
\* Once nothing is on its way a tile shows the document the profile or the queue
\* has, or none; unless two pictures, or a picture and the fetch of the old
\* document, crossed each other, when the tile may show one and the profile have another.
ShownDocIsStored == OnTheirWay = {} /\ ~loading /\ ~crossed /\ preview # None => preview = stored

\* A closed panel leaves no camera on, an open one at most one, however the
\* browser's answers and the desk's clicks follow each other.
CameraReleased == streams <= (IF cameraOpen THEN 1 ELSE 0)

\* Why: a panel that asks has no stream yet; while no pictures crossed each other one is on
\* its way, or the old document is, and the tile shows the picture that is being sent.
CameraHeld ==
    /\ streams \in {0, 1} /\ cameraOpen \in BOOLEAN /\ asking \in BOOLEAN
    /\ asking => cameraOpen
    /\ streams = 1 => cameraOpen /\ ~asking
OneOnItsWay ==
    /\ \A f, g \in OnTheirWay : f = g
    /\ loading => stored = Old /\ OnTheirWay = {}
    /\ IF \E f \in Files : calls[f] = "sending"
       THEN \A f \in Files : calls[f] = "sending" => preview = f
       ELSE preview # None => preview = stored
DocFollows == calls \in [Files -> {None, "preparing", "editing", "sending", "over"}] /\ (~crossed => OneOnItsWay)
=============================================================================
