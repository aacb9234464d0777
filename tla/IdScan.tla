-------------------------------- MODULE IdScan --------------------------------
(***************************************************************************)
(* The documents of one guest at the check-in desk: the two tiles that     *)
(* take the faces of an identity card (DocUpload, QueuedDocUpload and the  *)
(* one crop editor of the page), and the coordinated scan that reads them  *)
(* (lib/use-coordinated-id-scan.ts over lib/id-ocr.ts).                    *)
(*                                                                         *)
(* A card says what each face carries.  Every asynchronous scan is a task  *)
(* split at its awaits; several may run, of one face or of both, and the   *)
(* answers come in any order.  Recognised text is reduced to what the      *)
(* hook decides on: was there a QR code, does the message mention one, is  *)
(* the number complete, is there an address.                               *)
(***************************************************************************)
EXTENDS Naturals, FiniteSets

CONSTANTS None,
          MaxScans        \* bound: scans started


Sides == {"front", "back"}
Numbers == {"none", "last4", "full"}

\* What a face carries: a QR code with the last digits and perhaps the
\* address, and in print perhaps the whole number and the address.
Cards ==
    [pvc   |-> [front |-> [qr |-> FALSE, qrAddr |-> FALSE, id |-> "full", addr |-> FALSE],
                back  |-> [qr |-> TRUE,  qrAddr |-> TRUE,  id |-> "none", addr |-> TRUE]],
     paper |-> [front |-> [qr |-> TRUE,  qrAddr |-> FALSE, id |-> "full", addr |-> FALSE],
                back  |-> [qr |-> FALSE, qrAddr |-> FALSE, id |-> "full", addr |-> TRUE]],
     copy  |-> [front |-> [qr |-> FALSE, qrAddr |-> FALSE, id |-> "full", addr |-> FALSE],
                back  |-> [qr |-> FALSE, qrAddr |-> FALSE, id |-> "none", addr |-> TRUE]]]
CardKinds == DOMAIN Cards

Scan == [qr : BOOLEAN, saysQr : BOOLEAN, id : Numbers, addr : BOOLEAN, autofill : BOOLEAN]
NoTask == [at |-> "free", card |-> None, spare |-> None]
OverTask == [at |-> "done", card |-> None, spare |-> None]

VARIABLES
    idType,        \* form.id_proof_type: an Aadhaar card or another document
    front, back,   \* frontResult, backResult
    pendingFront,  \* pendingFrontRef
    waiting,       \* isWaitingForBack
    scanning,      \* scanningCount
    accepted,      \* autofillAccepted
    form,          \* what the scans have filled into the guest form
    task,          \* the scans under way
    tile,          \* per face: what its tile is doing
    editor,        \* the tile whose picture the crop editor shows
    outlived       \* history: whether a scan was under way when the scan was
                   \* reset, or one of a back when another back was picked

scanVars == <<idType, front, back, pendingFront, waiting, scanning, accepted, form,
          task, tile, editor, outlived>>

TypeOK ==
    /\ idType \in {"aadhaar", "other"}
    /\ {front, back} \subseteq Scan \union {None}
    /\ pendingFront \in CardKinds \union {None}
    /\ {waiting, accepted, outlived} \subseteq BOOLEAN
    /\ scanning \in 0 .. 2 * MaxScans
    /\ form \in [id : Numbers, addr : BOOLEAN]
    /\ \A i \in 1 .. MaxScans :
          /\ task[i].at \in {"free", "done", "plainFront", "plainBack", "frontProbe",
                             "rescan", "backProbe", "digits", "addrOcr", "frontOcr",
                             "backOcr", "fallback"}
          /\ {task[i].card, task[i].spare} \subseteq CardKinds \union {None}
    /\ tile \in [Sides -> {"empty", "preparing", "editing", "saving", "saved"}]
    /\ editor \in Sides \union {None}

Init ==
    /\ idType = "aadhaar"
    /\ front = None /\ back = None /\ pendingFront = None
    /\ waiting = FALSE /\ scanning = 0 /\ accepted = FALSE
    /\ form = [id |-> "none", addr |-> FALSE]
    /\ task = [i \in 1 .. MaxScans |-> NoTask]
    /\ tile = [s \in Sides |-> "empty"] /\ editor = None
    /\ outlived = FALSE

(***************************************************************************)
(* Reading one face: parseIdDocument, and merging two: mergeOcrResults.    *)
(***************************************************************************)

\* The server's answer when it found no QR code, and the client's when the
\* server gave none: the text of both names the QR code that is missing.
NoQr == [qr |-> FALSE, saysQr |-> TRUE, id |-> "none", addr |-> FALSE, autofill |-> FALSE]
Unreadable == [NoQr EXCEPT !.saysQr = FALSE]
QrOf(f) == [qr |-> TRUE, saysQr |-> TRUE, id |-> "last4", addr |-> f.qrAddr, autofill |-> TRUE]
TextOf(f) == [qr |-> FALSE, saysQr |-> FALSE, id |-> f.id, addr |-> f.addr, autofill |-> TRUE]

\* The fast probe looks for a QR code only; a picture the server cannot
\* decode is answered with another text.
Probe(f) == {NoQr, Unreadable} \union (IF f.qr THEN {QrOf(f)} ELSE {})

\* The full cascade: the QR code, the server's recognition, the browser's.
parseIdDocument(f) == {Unreadable, IF f.qr THEN QrOf(f) ELSE TextOf(f)}

\* The targeted second look at the printed digits.
extractAadhaarDigitsOnly(f) == f # None /\ f.id = "full"

Best(a, b) == IF "full" \in {a, b} THEN "full" ELSE IF "last4" \in {a, b} THEN "last4" ELSE "none"

mergeOcrResults(f, b) ==
    CASE f = None -> b
      [] b = None -> f
      [] OTHER -> [qr |-> f.qr \/ b.qr, saysQr |-> f.saysQr \/ b.saysQr, id |-> Best(f.id, b.id),
                   addr |-> f.addr \/ b.addr,
                   autofill |-> f.autofill \/ b.autofill \/ f.id # "none" \/ b.id # "none"]

\* What the hook takes for a QR code: the text mentions one.
SaysQr(r) == IF r = None THEN FALSE ELSE r.saysQr

unifiedResult == IF waiting THEN None ELSE mergeOcrResults(front, back)

(***************************************************************************)
(* Starting and ending a scan.                                             *)
(***************************************************************************)

Running == {i \in 1 .. MaxScans : task[i].at \notin {"free", "done"}}
BackStages == {"plainBack", "backProbe", "digits", "addrOcr", "frontOcr", "backOcr"}
BackScans == {i \in 1 .. MaxScans : task[i].at \in BackStages}
Free(i) == task[i].at = "free" /\ \A j \in 1 .. i - 1 : task[j].at # "free"
At(i, at) == task' = [task EXCEPT ![i].at = at]
Start(i, at, card) ==
    Free(i) /\ task' = [task EXCEPT ![i] = [at |-> at, card |-> card, spare |-> None]]
WithFront(i, at) == [at |-> at, card |-> task[i].card, spare |-> pendingFront]
Face(i, side) == Cards[task[i].card][side]

\* Faulty variant: a scan that ends forgets the spinner.
DoneKeepsSpinner(i) == task' = [task EXCEPT ![i] = OverTask] /\ UNCHANGED scanning

\* The finally block: the counter never goes below zero.
Done(i) ==
    /\ task' = [task EXCEPT ![i] = OverTask]
    /\ scanning' = IF scanning = 0 THEN 0 ELSE scanning - 1

\* The form takes what a scan found, once the staff accepted the autofill.
FillNumber(cond) == form' = IF cond THEN [form EXCEPT !.id = "full"] ELSE form

\* Faulty variant: an address read after the autofill was accepted is not filled in.
FillAddressNever(r) == UNCHANGED form

FillAddress(r) == form' = IF accepted /\ r.addr THEN [form EXCEPT !.addr = TRUE] ELSE form

tiles == <<tile, editor>>

(***************************************************************************)
(* The front.                                                              *)
(***************************************************************************)

\* handleFrontUpload up to its first await.
FrontUpload(i, card) ==
    /\ Start(i, IF idType = "aadhaar" THEN "frontProbe" ELSE "plainFront", card)
    /\ pendingFront' = None /\ waiting' = FALSE /\ front' = None /\ accepted' = FALSE
    /\ scanning' = scanning + 1
    /\ UNCHANGED <<idType, back, form, outlived>>

\* A document other than an Aadhaar card is read at once.
PlainAnswered(i) ==
    /\ task[i].at \in {"plainFront", "plainBack"}
    /\ LET side == IF task[i].at = "plainFront" THEN "front" ELSE "back"
       IN \E r \in parseIdDocument(Face(i, side)) :
            /\ front' = IF side = "front" THEN r ELSE front
            /\ back' = IF side = "back" THEN r ELSE back
    /\ Done(i)
    /\ UNCHANGED <<idType, pendingFront, waiting, accepted, form, tiles, outlived>>

\* The probe of the front is answered.
FrontProbed(i) ==
    /\ task[i].at = "frontProbe"
    /\ \E r \in Probe(Face(i, "front")) :
        /\ \/ /\ r.autofill \/ r.saysQr
              /\ front' = r /\ pendingFront' = None /\ waiting' = ~r.addr
              /\ Done(i)
           \/ /\ ~r.autofill /\ ~r.saysQr /\ SaysQr(back)
              /\ pendingFront' = None /\ waiting' = FALSE
              /\ IF back.id = "full" THEN Done(i) ELSE At(i, "rescan") /\ UNCHANGED scanning
              /\ UNCHANGED front
           \/ /\ ~r.autofill /\ ~r.saysQr /\ ~SaysQr(back)
              /\ pendingFront' = task[i].card /\ waiting' = TRUE
              /\ Done(i)
              /\ UNCHANGED front
    /\ UNCHANGED <<idType, back, accepted, form, tiles, outlived>>

\* The front is read for the number the back's QR code did not have, or on
\* demand (triggerFrontOcrFallback).
FrontRead(i) ==
    /\ task[i].at \in {"rescan", "fallback"}
    /\ \E r \in parseIdDocument(Face(i, "front")) :
        front' = r /\ FillNumber(accepted /\ r.id = "full")    /\ Done(i)
    /\ UNCHANGED <<idType, back, pendingFront, waiting, accepted, tiles, outlived>>

\* Staff have only the front: read it now.
triggerFrontOcrFallback(i) ==
    /\ waiting /\ scanning = 0 /\ unifiedResult = None
    /\ waiting' = FALSE
    /\ IF pendingFront = None THEN UNCHANGED <<task, scanning, pendingFront>>
       ELSE Start(i, "fallback", pendingFront) /\ scanning' = scanning + 1 /\ pendingFront' = None
    /\ UNCHANGED <<idType, front, back, accepted, form, tiles, outlived>>

(***************************************************************************)
(* The back.                                                               *)
(***************************************************************************)

\* handleBackUpload up to its first await.
BackUpload(i, card) ==
    /\ Start(i, IF idType = "aadhaar" THEN "backProbe" ELSE "plainBack", card)
    /\ waiting' = FALSE /\ back' = None /\ scanning' = scanning + 1
    /\ outlived' = (outlived \/ BackScans # {})
    /\ UNCHANGED <<idType, front, pendingFront, accepted, form>>

\* The back has a QR code: it replaces whatever was to be recognised; the
\* digits it lacks are looked for in the background.
BackQr(i, r) ==
    /\ back' = r /\ waiting' = FALSE /\ pendingFront' = None
    /\ LET full == "full" \in {r.id, IF front = None THEN "none" ELSE front.id}
       IN /\ form' = [id   |-> IF accepted /\ full THEN "full" ELSE form.id,
                      addr |-> form.addr \/ (accepted /\ r.addr)]
          /\ scanning' = IF scanning = 0 THEN 0 ELSE scanning - 1
          /\ task' = [task EXCEPT ![i] = IF full THEN OverTask
                                         ELSE WithFront(i, "digits")]
    /\ UNCHANGED front

\* No QR code on the back.  A front with one lacks at most the address;
\* otherwise both faces are recognised, the front first.
BackText(i) ==
    IF SaysQr(front)
    THEN /\ pendingFront' = None
         /\ IF front.addr THEN Done(i) /\ waiting' = FALSE
                          ELSE At(i, "addrOcr") /\ UNCHANGED <<scanning, waiting>>
         /\ UNCHANGED <<front, back, form>>
    ELSE /\ IF pendingFront # None /\ front = None
            THEN /\ task' = [task EXCEPT ![i] = WithFront(i, "frontOcr")]
                 /\ pendingFront' = None /\ scanning' = scanning + 1
            ELSE At(i, "backOcr") /\ UNCHANGED <<pendingFront, scanning>>
         /\ UNCHANGED <<front, back, form, waiting>>

BackProbed(i) ==
    /\ task[i].at = "backProbe"
    /\ \E r \in Probe(Face(i, "back")) :
        IF r.saysQr /\ r.autofill THEN BackQr(i, r) ELSE BackText(i)
    /\ UNCHANGED <<idType, accepted, tiles, outlived>>

\* The printed digits were found, or not.
DigitsRead(i) ==
    /\ task[i].at = "digits"
    /\ \/ /\ \/ extractAadhaarDigitsOnly(Face(i, "back"))
             \/ task[i].spare # None /\ extractAadhaarDigitsOnly(Cards[task[i].spare]["front"])
          /\ back' = [QrOf(Face(i, "back")) EXCEPT !.id = "full"]
          /\ FillNumber(TRUE)
       \/ UNCHANGED <<back, form>>
    /\ task' = [task EXCEPT ![i] = OverTask]
    /\ UNCHANGED <<idType, front, pendingFront, waiting, scanning, accepted, tiles, outlived>>

\* The address of the back is recognised, for a front with a QR code.
AddressRead(i) ==
    /\ task[i].at = "addrOcr"
    /\ \E r \in parseIdDocument(Face(i, "back")) :
        /\ IF r.autofill \/ r.addr THEN back' = r /\ FillAddress(r) ELSE UNCHANGED <<back, form>>
    /\ waiting' = FALSE
    /\ Done(i)
    /\ UNCHANGED <<idType, front, pendingFront, accepted, tiles, outlived>>

\* The front that was kept waiting is recognised, then the back.
FrontFirst(i) ==
    /\ task[i].at = "frontOcr"
    /\ \E r \in parseIdDocument(Cards[task[i].spare]["front"]) : front' = r    /\ scanning' = IF scanning = 0 THEN 0 ELSE scanning - 1
    /\ At(i, "backOcr")
    /\ UNCHANGED <<idType, back, pendingFront, waiting, accepted, form, tiles, outlived>>

BackRead(i) ==
    /\ task[i].at = "backOcr"
    /\ \E r \in parseIdDocument(Face(i, "back")) : back' = r /\ FillAddress(r)    /\ waiting' = FALSE /\ pendingFront' = None
    /\ Done(i)
    /\ UNCHANGED <<idType, front, accepted, tiles, outlived>>

(***************************************************************************)
(* The form and the tiles.                                                 *)
(***************************************************************************)

\* Staff accept the banner: the form is filled.
AcceptAutofill ==
    /\ ~accepted /\ unifiedResult # None /\ unifiedResult.autofill
    /\ accepted' = TRUE
    /\ form' = [id |-> IF unifiedResult.id = "none" THEN form.id ELSE unifiedResult.id,
                addr |-> form.addr \/ unifiedResult.addr]
    /\ UNCHANGED <<idType, front, back, pendingFront, waiting, scanning, task, tiles, outlived>>

\* Another document type is chosen: the scan is reset, what runs runs on.
ChangeType ==
    /\ idType' = (IF idType = "aadhaar" THEN "other" ELSE "aadhaar")
    /\ front' = None /\ back' = None /\ pendingFront' = None /\ waiting' = FALSE
    /\ scanning' = 0 /\ accepted' = FALSE
    /\ outlived' = (outlived \/ Running # {})
    /\ UNCHANGED <<form, task, tiles>>

\* A file is picked: once it is scaled down the scan starts, whatever becomes
\* of the crop, and the crop editor opens.  There is one editor: its earlier
\* request is dropped unanswered.
PickFile(side) ==
    /\ editor = None /\ tile[side] # "saving"
    /\ tile' = [tile EXCEPT ![side] = "preparing"]
    /\ UNCHANGED <<idType, front, back, pendingFront, waiting, scanning, accepted,
                   form, task, editor, outlived>>

OpenEditor(i, side, card) ==
    /\ tile[side] = "preparing"
    /\ IF side = "front" THEN FrontUpload(i, card) ELSE BackUpload(i, card)
    /\ tile' = [tile EXCEPT ![side] = "editing"]
    /\ editor' = side

\* The crop is confirmed and saved, or cancelled.
CloseEditor(confirmed) ==
    /\ editor # None
    /\ tile' = [tile EXCEPT ![editor] = IF confirmed THEN "saving" ELSE "empty"]
    /\ editor' = None
    /\ UNCHANGED <<idType, front, back, pendingFront, waiting, scanning, accepted,
                   form, task, outlived>>

\* The compressed picture is queued or uploaded, or that fails.
Saved(side) ==
    /\ tile[side] = "saving"
    /\ \E t \in {"saved", "empty"} : tile' = [tile EXCEPT ![side] = t]
    /\ UNCHANGED <<idType, front, back, pendingFront, waiting, scanning, accepted,
                   form, task, editor, outlived>>

Answer(i) ==
    \/ PlainAnswered(i) \/ FrontProbed(i) \/ FrontRead(i) \/ BackProbed(i)
    \/ DigitsRead(i) \/ AddressRead(i) \/ FrontFirst(i) \/ BackRead(i)

Next ==
    \/ \E i \in 1 .. MaxScans :
        \/ Answer(i)
        \/ triggerFrontOcrFallback(i)
        \/ \E side \in Sides, card \in CardKinds : OpenEditor(i, side, card)
    \/ AcceptAutofill \/ ChangeType
    \/ \E side \in Sides : PickFile(side) \/ Saved(side)
    \/ \E confirmed \in BOOLEAN : CloseEditor(confirmed)

Spec == Init /\ [][Next]_scanVars

(***************************************************************************)
(* Properties.                                                             *)
(***************************************************************************)

Spinning(i) == CASE task[i].at \in {"free", "done", "digits"} -> 0
                 [] task[i].at = "frontOcr" -> 2
                 [] OTHER -> 1
Awaited(n) == {i \in 1 .. MaxScans : Spinning(i) >= n}

\* The spinner of the banner never outlives the scans: with a scan that
\* failed, one that was reset away, or two at once
\* (use-coordinated-id-scan.ts:204, 384).
SpinnerHonest == scanning <= Cardinality(Awaited(1)) + Cardinality(Awaited(2))

\* An address read from an Aadhaar card after the staff accepted the autofill
\* still reaches the form ("Called when back face provides address fields
\* after autofill was already accepted", use-coordinated-id-scan.ts:8).  Where
\* two backs are read at a time it may not: the digits of the first bring its
\* address back to the banner, but not to the form.
AddressKeepsUp ==
    ~outlived /\ idType = "aadhaar" /\ accepted /\ Running = {} /\ unifiedResult # None
        => (unifiedResult.addr => form.addr)

\* Why: the back is where an address is read, one back at a time, and the
\* digits that are looked for are of the back whose QR code was found.
Stages == {"free", "done", "plainFront", "frontProbe", "rescan", "fallback"} \union BackStages
ScansTyped ==
    /\ idType \in {"aadhaar", "other"} /\ {outlived, accepted} \subseteq BOOLEAN
    /\ form \in [id : Numbers, addr : BOOLEAN] /\ scanning \in Nat
    /\ {front, back} \subseteq Scan \union {None}
    /\ pendingFront \in CardKinds \union {None}
    /\ task \in [1 .. MaxScans -> [at : Stages, card : CardKinds \union {None},
                                   spare : CardKinds \union {None}]]
    /\ \A i \in 1 .. MaxScans :
         /\ task[i].at \notin {"free", "done"} => task[i].card \in CardKinds
         /\ task[i].at = "frontOcr" => task[i].spare \in CardKinds
AddressOfBack ==
    ~outlived /\ idType = "aadhaar" =>
        /\ front # None => front.addr = FALSE
        /\ \A i, j \in BackScans : i = j
        /\ \A i \in 1 .. MaxScans :
             /\ task[i].at \notin {"plainFront", "plainBack"}
             /\ task[i].at = "digits" => back # None /\ back.addr = Face(i, "back").qrAddr
        /\ accepted /\ back # None => (back.addr => form.addr)
=============================================================================
