-------------------------- MODULE FrontDesk_proofs --------------------------
(***************************************************************************)
(* Proofs about the screens of MCFrontDesk other than those of a check-in, *)
(* and about the properties that several screens share.                    *)
(***************************************************************************)
EXTENDS Checkin_proofs, FiniteSetsExt

-----------------------------------------------------------------------------
(* The in-house guests page *)

LEMMA GuestsInit == GuestsPage!Init => GuestsPage!GuestFirst /\ GuestsPage!PrintsAskedFor
    BY DEF GuestsPage!Init, GuestsPage!GuestFirst, GuestsPage!PrintsAskedFor,
           GuestsPage!Closed

LEMMA PrintsNext ==
    GuestsPage!PrintsAskedFor /\ [GuestsPage!Next]_GuestsPage!currentGuestsVars
        => GuestsPage!PrintsAskedFor'
<1> SUFFICES ASSUME GuestsPage!PrintsAskedFor,
                    [GuestsPage!Next]_GuestsPage!currentGuestsVars
             PROVE  GuestsPage!PrintsAskedFor'
    OBVIOUS
<1> USE DEF GuestsPage!PrintsAskedFor, GuestsPage!Closed, GuestsPage!Close,
            GuestsPage!printVars, GuestsPage!dialogVars
<1>1. ASSUME NEW s \in Stays,
             GuestsPage!View(s) \/ GuestsPage!PrintSlip(s) \/ GuestsPage!Edit(s)
               \/ GuestsPage!Transfer(s)
      PROVE  GuestsPage!PrintsAskedFor'
    BY <1>1 DEF GuestsPage!View, GuestsPage!PrintSlip, GuestsPage!Edit,
                GuestsPage!Transfer, GuestsPage!Open
<1>2. CASE GuestsPage!CloseDialog \/ GuestsPage!AutoPrint \/ GuestsPage!printRegistration
    BY <1>2 DEF GuestsPage!CloseDialog, GuestsPage!AutoPrint,
                GuestsPage!printRegistration
<1>3. CASE GuestsPage!submit \/ GuestsPage!PartSaved \/ GuestsPage!TransferAnswers
    BY <1>3 DEF GuestsPage!submit, GuestsPage!PartSaved, GuestsPage!TransferAnswers
<1>4. CASE UNCHANGED <<m7, m10, m11>>
    BY <1>4
<1> QED
    BY <1>1, <1>2, <1>3, <1>4
    DEF GuestsPage!Next, GuestsPage!currentGuestsVars, GuestsPage!BookingComes,
        GuestsPage!GuestComes, GuestsPage!PaymentsCome, GuestsPage!FillForm,
        GuestsPage!EditBooking, GuestsPage!EditGuest, GuestsPage!Change,
        GuestsPage!PartRefused, GuestsPage!SendTransfer, GuestsPage!OtherDesk

\* A save whose guest part is next has nothing behind it; one whose booking is
\* next has the guest behind it, or there is nothing about the guest.
LEMMA FirstGuestsPage ==
    GuestsPage!GuestFirst /\ [GuestsPage!Next]_GuestsPage!currentGuestsVars => GuestsPage!GuestFirst'
<1> SUFFICES ASSUME GuestsPage!GuestFirst, [GuestsPage!Next]_GuestsPage!currentGuestsVars
             PROVE  GuestsPage!GuestFirst'
    OBVIOUS
<1>1. CASE GuestsPage!submit
  <2> DEFINE b == GuestsPage!bookingPatch(m7.stay)
             g == GuestsPage!guestPatch(m7.stay)
             part == GuestsPage!FirstPart(b, g)
  <2>1. b \subseteq GuestsPage!BookingFields /\ g \subseteq {"profile"}
      BY DEF GuestsPage!bookingPatch, GuestsPage!guestPatch
  <2>2. UNCHANGED m14 \/ m14' = [stay |-> m7.stay, part |-> part, done |-> {},
                                fields |-> b \union g, values |-> m12,
                                changed |-> m13]
      BY <1>1 DEF GuestsPage!submit
  <2>3. part = "booking" => g = {}
      BY DEF GuestsPage!FirstPart
  <2>4. part \in {"guest", "booking"}
      BY DEF GuestsPage!FirstPart
  <2>5. b \union g \subseteq GuestsPage!Fields /\ (part = "booking" => "profile" \notin b \union g)
      BY <2>1, <2>3 DEF GuestsPage!BookingFields, GuestsPage!Fields
  <2> HIDE DEF b, g, part
  <2>6. CASE UNCHANGED m14
      BY <2>6 DEF GuestsPage!GuestFirst
  <2>7. CASE m14' = [stay |-> m7.stay, part |-> part, done |-> {},
                     fields |-> b \union g, values |-> m12, changed |-> m13]
    <3>1. /\ {"stay", "part", "done", "fields", "values"} \subseteq DOMAIN m14'
          /\ m14'.part = part /\ m14'.done = {} /\ m14'.fields = b \union g
        BY <2>7
    <3> QED
        BY <2>4, <2>5, <3>1 DEF GuestsPage!GuestFirst
  <2> QED
      BY <2>2, <2>6, <2>7
<1>2. CASE GuestsPage!PartSaved
  <2> DEFINE next == GuestsPage!OtherPart(m14.part)
  <2>1. CASE m14' = None
      BY <2>1 DEF GuestsPage!GuestFirst
  <2>2. CASE m14' # None
    <3>1. /\ m14 # None /\ m14' = [m14 EXCEPT !.part = next, !.done = {m14.part}]
          /\ m14.fields # m14.fields \intersect GuestsPage!FieldsOf(m14.part)
          /\ m14.done = {}
        BY <1>2, <2>2 DEF GuestsPage!PartSaved
    <3>2. m14.part = "guest"
        BY <3>1 DEF GuestsPage!GuestFirst, GuestsPage!FieldsOf, GuestsPage!Fields, GuestsPage!BookingFields
    <3>3. next = "booking"
        BY <3>2 DEF GuestsPage!OtherPart
    <3>4. /\ DOMAIN m14' = DOMAIN m14 /\ m14'.fields = m14.fields
          /\ m14'.part = "booking" /\ m14'.done = {"guest"}
        BY <3>1, <3>2, <3>3 DEF GuestsPage!GuestFirst
    <3> QED
        BY <3>1, <3>4 DEF GuestsPage!GuestFirst
  <2> QED
      BY <2>1, <2>2
<1>3. CASE GuestsPage!PartRefused
    BY <1>3 DEF GuestsPage!PartRefused, GuestsPage!GuestFirst
<1>4. CASE UNCHANGED m14
    BY <1>4 DEF GuestsPage!GuestFirst
<1> QED
    BY <1>1, <1>2, <1>3, <1>4
    DEF GuestsPage!Next, GuestsPage!currentGuestsVars, GuestsPage!editVars, GuestsPage!View, GuestsPage!PrintSlip,
        GuestsPage!Edit, GuestsPage!Transfer, GuestsPage!Open, GuestsPage!CloseDialog, GuestsPage!BookingComes,
        GuestsPage!GuestComes, GuestsPage!PaymentsCome, GuestsPage!AutoPrint, GuestsPage!printRegistration,
        GuestsPage!FillForm, GuestsPage!EditBooking, GuestsPage!EditGuest, GuestsPage!Change,
        GuestsPage!SendTransfer, GuestsPage!TransferAnswers, GuestsPage!OtherDesk

\* The same where another desk edits too.
LEMMA SharedGuestsInit == SharedGuestsPage!Init => SharedGuestsPage!GuestFirst
    BY DEF SharedGuestsPage!Init, SharedGuestsPage!GuestFirst

LEMMA FirstSharedGuestsPage ==
    SharedGuestsPage!GuestFirst /\ [SharedGuestsPage!Next]_SharedGuestsPage!currentGuestsVars => SharedGuestsPage!GuestFirst'
<1> SUFFICES ASSUME SharedGuestsPage!GuestFirst, [SharedGuestsPage!Next]_SharedGuestsPage!currentGuestsVars
             PROVE  SharedGuestsPage!GuestFirst'
    OBVIOUS
<1>1. CASE SharedGuestsPage!submit
  <2> DEFINE b == SharedGuestsPage!bookingPatch(m7.stay)
             g == SharedGuestsPage!guestPatch(m7.stay)
             part == SharedGuestsPage!FirstPart(b, g)
  <2>1. b \subseteq SharedGuestsPage!BookingFields /\ g \subseteq {"profile"}
      BY DEF SharedGuestsPage!bookingPatch, SharedGuestsPage!guestPatch
  <2>2. UNCHANGED m14 \/ m14' = [stay |-> m7.stay, part |-> part, done |-> {},
                                fields |-> b \union g, values |-> m12,
                                changed |-> m13]
      BY <1>1 DEF SharedGuestsPage!submit
  <2>3. part = "booking" => g = {}
      BY DEF SharedGuestsPage!FirstPart
  <2>4. part \in {"guest", "booking"}
      BY DEF SharedGuestsPage!FirstPart
  <2>5. b \union g \subseteq SharedGuestsPage!Fields /\ (part = "booking" => "profile" \notin b \union g)
      BY <2>1, <2>3 DEF SharedGuestsPage!BookingFields, SharedGuestsPage!Fields
  <2> HIDE DEF b, g, part
  <2>6. CASE UNCHANGED m14
      BY <2>6 DEF SharedGuestsPage!GuestFirst
  <2>7. CASE m14' = [stay |-> m7.stay, part |-> part, done |-> {},
                     fields |-> b \union g, values |-> m12, changed |-> m13]
    <3>1. /\ {"stay", "part", "done", "fields", "values"} \subseteq DOMAIN m14'
          /\ m14'.part = part /\ m14'.done = {} /\ m14'.fields = b \union g
        BY <2>7
    <3> QED
        BY <2>4, <2>5, <3>1 DEF SharedGuestsPage!GuestFirst
  <2> QED
      BY <2>2, <2>6, <2>7
<1>2. CASE SharedGuestsPage!PartSaved
  <2> DEFINE next == SharedGuestsPage!OtherPart(m14.part)
  <2>1. CASE m14' = None
      BY <2>1 DEF SharedGuestsPage!GuestFirst
  <2>2. CASE m14' # None
    <3>1. /\ m14 # None /\ m14' = [m14 EXCEPT !.part = next, !.done = {m14.part}]
          /\ m14.fields # m14.fields \intersect SharedGuestsPage!FieldsOf(m14.part)
          /\ m14.done = {}
        BY <1>2, <2>2 DEF SharedGuestsPage!PartSaved
    <3>2. m14.part = "guest"
        BY <3>1 DEF SharedGuestsPage!GuestFirst, SharedGuestsPage!FieldsOf, SharedGuestsPage!Fields, SharedGuestsPage!BookingFields
    <3>3. next = "booking"
        BY <3>2 DEF SharedGuestsPage!OtherPart
    <3>4. /\ DOMAIN m14' = DOMAIN m14 /\ m14'.fields = m14.fields
          /\ m14'.part = "booking" /\ m14'.done = {"guest"}
        BY <3>1, <3>2, <3>3 DEF SharedGuestsPage!GuestFirst
    <3> QED
        BY <3>1, <3>4 DEF SharedGuestsPage!GuestFirst
  <2> QED
      BY <2>1, <2>2
<1>3. CASE SharedGuestsPage!PartRefused
    BY <1>3 DEF SharedGuestsPage!PartRefused, SharedGuestsPage!GuestFirst
<1>4. CASE UNCHANGED m14
    BY <1>4 DEF SharedGuestsPage!GuestFirst
<1> QED
    BY <1>1, <1>2, <1>3, <1>4
    DEF SharedGuestsPage!Next, SharedGuestsPage!currentGuestsVars, SharedGuestsPage!editVars, SharedGuestsPage!View, SharedGuestsPage!PrintSlip,
        SharedGuestsPage!Edit, SharedGuestsPage!Transfer, SharedGuestsPage!Open, SharedGuestsPage!CloseDialog, SharedGuestsPage!BookingComes,
        SharedGuestsPage!GuestComes, SharedGuestsPage!PaymentsCome, SharedGuestsPage!AutoPrint, SharedGuestsPage!printRegistration,
        SharedGuestsPage!FillForm, SharedGuestsPage!EditBooking, SharedGuestsPage!EditGuest, SharedGuestsPage!Change,
        SharedGuestsPage!SendTransfer, SharedGuestsPage!TransferAnswers, SharedGuestsPage!OtherDesk

-----------------------------------------------------------------------------
(* The voucher *)

LEMMA VoucherInit == VoucherPage!Init => VoucherPage!WaitingUnprinted
    BY DEF VoucherPage!Init, VoucherPage!WaitingUnprinted, VoucherPage!Job,
           VoucherPage!NoJob

\* A job that changes keeps to it if what it becomes does.
LEMMA JobKeeps ==
    ASSUME VoucherPage!WaitingUnprinted, NEW j, NEW job \in VoucherPage!Job,
           job.prints <= IF job.phase \in {"printed", "over"} THEN 1 ELSE 0,
           m2' = [m2 EXCEPT ![j] = job], m1' \in {"app", "voucher"}
    PROVE  VoucherPage!WaitingUnprinted'
<1>1. m2' \in [1..MaxJobs -> VoucherPage!Job]
    BY DEF VoucherPage!WaitingUnprinted
<1>2. ASSUME NEW i \in 1..MaxJobs
      PROVE  m2'[i] = IF i = j THEN job ELSE m2[i]
    BY DEF VoucherPage!WaitingUnprinted
<1> QED
    BY <1>1, <1>2 DEF VoucherPage!WaitingUnprinted

LEMMA VoucherNext ==
    VoucherPage!WaitingUnprinted /\ [VoucherPage!Next]_VoucherPage!vars
        => VoucherPage!WaitingUnprinted'
<1> SUFFICES ASSUME VoucherPage!WaitingUnprinted, [VoucherPage!Next]_VoucherPage!vars
             PROVE  VoucherPage!WaitingUnprinted'
    OBVIOUS
<1>1. CASE VoucherPage!handlePrint
  <2>1. PICK sheets \in {{}, Sheets} :
          m2' = [m2 EXCEPT ![m3'] =
                   [phase |-> IF sheets = {} THEN "due" ELSE "loading",
                    pending |-> sheets, timer |-> sheets # {},
                    prints |-> 0, prev |-> m1]]
      BY <1>1 DEF VoucherPage!handlePrint
  <2> DEFINE job == [phase |-> IF sheets = {} THEN "due" ELSE "loading",
                     pending |-> sheets, timer |-> sheets # {},
                     prints |-> 0, prev |-> m1]
  <2>2. /\ job \in VoucherPage!Job
        /\ job.prints <= IF job.phase \in {"printed", "over"} THEN 1 ELSE 0
      BY DEF VoucherPage!Job, VoucherPage!WaitingUnprinted
  <2>3. m2' = [m2 EXCEPT ![m3'] = job] /\ m1' = "voucher"
      BY <1>1, <2>1 DEF VoucherPage!handlePrint
  <2> HIDE DEF job
  <2> QED
      BY <2>2, <2>3, JobKeeps
<1>2. ASSUME NEW j \in 1..MaxJobs, NEW s \in Sheets, VoucherPage!SheetDone(j, s)
      PROVE  VoucherPage!WaitingUnprinted'
  <2> DEFINE job == [m2[j] EXCEPT !.pending = @ \ {s},
                       !.phase = IF m2[j].pending = {s} /\ @ = "loading"
                                 THEN "due" ELSE @]
  <2>1. job \in VoucherPage!Job
           /\ job.prints <= IF job.phase \in {"printed", "over"} THEN 1 ELSE 0
      BY DEF VoucherPage!Job, VoucherPage!WaitingUnprinted
  <2>2. m2' = [m2 EXCEPT ![j] = job]
      BY <1>2 DEF VoucherPage!SheetDone, VoucherPage!WaitingUnprinted, VoucherPage!Job
  <2> QED
      BY <1>2, <2>1, <2>2, JobKeeps
      DEF VoucherPage!SheetDone, VoucherPage!WaitingUnprinted
<1>3. ASSUME NEW j \in 1..MaxJobs, VoucherPage!SheetsLate(j)
      PROVE  VoucherPage!WaitingUnprinted'
  <2> DEFINE job == [m2[j] EXCEPT !.timer = FALSE,
                       !.phase = IF @ = "loading" THEN "due" ELSE @]
  <2>1. job \in VoucherPage!Job
           /\ job.prints <= IF job.phase \in {"printed", "over"} THEN 1 ELSE 0
      BY DEF VoucherPage!Job, VoucherPage!WaitingUnprinted
  <2>2. m2' = [m2 EXCEPT ![j] = job]
      BY <1>3 DEF VoucherPage!SheetsLate, VoucherPage!WaitingUnprinted, VoucherPage!Job
  <2> QED
      BY <1>3, <2>1, <2>2, JobKeeps
      DEF VoucherPage!SheetsLate, VoucherPage!WaitingUnprinted
<1>4. ASSUME NEW j \in 1..MaxJobs, VoucherPage!doPrint(j)
      PROVE  VoucherPage!WaitingUnprinted'
  <2> DEFINE job == [phase |-> "printed", pending |-> m2[j].pending,
                     timer |-> m2[j].timer, prints |-> 1, prev |-> m2[j].prev]
  <2>1. m2[j] \in VoucherPage!Job /\ m2[j].prints = 0
      BY <1>4 DEF VoucherPage!doPrint, VoucherPage!WaitingUnprinted, VoucherPage!Job
  <2>2. /\ job \in VoucherPage!Job
        /\ job.prints <= IF job.phase \in {"printed", "over"} THEN 1 ELSE 0
      BY <2>1 DEF VoucherPage!Job
  <2>3. m2' = [m2 EXCEPT ![j] = job] /\ m1' = m1
      BY <1>4, <2>1 DEF VoucherPage!doPrint, VoucherPage!WaitingUnprinted, VoucherPage!Job
  <2> HIDE DEF job
  <2> QED
      BY <2>2, <2>3, JobKeeps DEF VoucherPage!WaitingUnprinted
<1>5. ASSUME NEW j \in 1..MaxJobs, VoucherPage!PutBack(j)
      PROVE  VoucherPage!WaitingUnprinted'
  <2> DEFINE job == [m2[j] EXCEPT !.phase = "over"]
  <2>1. m2[j] \in VoucherPage!Job /\ m2[j].prints <= 1
      BY <1>5 DEF VoucherPage!PutBack, VoucherPage!WaitingUnprinted, VoucherPage!Job
  <2>2. job \in VoucherPage!Job /\ job.phase = "over" /\ job.prints <= 1
      BY <2>1 DEF VoucherPage!Job
  <2>3. m2' = [m2 EXCEPT ![j] = job] /\ m1' \in {"app", "voucher"}
      BY <1>5, <2>1 DEF VoucherPage!PutBack, VoucherPage!WaitingUnprinted, VoucherPage!Job
  <2> QED
      BY <2>2, <2>3, JobKeeps
<1>6. CASE UNCHANGED <<m1, m2>>
    BY <1>6 DEF VoucherPage!WaitingUnprinted
<1> QED
    BY <1>1, <1>2, <1>3, <1>4, <1>5, <1>6
    DEF VoucherPage!Next, VoucherPage!vars, VoucherPage!jobVars,
        VoucherPage!handleDownloadPdf, VoucherPage!handleShareNative,
        VoucherPage!handleWhatsApp, VoucherPage!PhoneGiven,
        VoucherPage!FetchFailed, VoucherPage!Fetched, VoucherPage!FetchedToShare

-----------------------------------------------------------------------------
(* The documents of a guest *)

LEMMA DocumentsInit ==
    DocumentPanel!Init => DocumentPanel!CameraHeld /\ DocumentPanel!DocFollows
<1> SUFFICES ASSUME DocumentPanel!Init
             PROVE  DocumentPanel!CameraHeld /\ DocumentPanel!DocFollows
    OBVIOUS
<1>0. 0 # 1
    OBVIOUS
<1>1. DocumentPanel!CameraHeld
    BY <1>0, Zenon DEF DocumentPanel!Init, DocumentPanel!CameraHeld
<1>2. DocumentPanel!DocFollows
    BY NoneAssumption
    DEF DocumentPanel!Init, DocumentPanel!DocFollows, DocumentPanel!OneOnItsWay,
        DocumentPanel!OnTheirWay
<1> QED
    BY <1>1, <1>2

LEMMA CameraNext ==
    DocumentPanel!CameraHeld /\ [DocumentPanel!Next]_DocumentPanel!docVars
        => DocumentPanel!CameraHeld'
<1> SUFFICES ASSUME DocumentPanel!CameraHeld,
                    [DocumentPanel!Next]_DocumentPanel!docVars
             PROVE  DocumentPanel!CameraHeld'
    OBVIOUS
<1> USE DEF DocumentPanel!CameraHeld
<1>0. 0 # 1 /\ 0 + 1 = 1
    OBVIOUS
<1>1. CASE DocumentPanel!handleCameraClick
    BY <1>0, <1>1, Zenon DEF DocumentPanel!handleCameraClick
<1>2. CASE DocumentPanel!Released
    BY <1>0, <1>2, Zenon DEF DocumentPanel!Released
<1>3. CASE DocumentPanel!Granted
    BY <1>0, <1>3, Zenon DEF DocumentPanel!Granted
<1>4. CASE DocumentPanel!GrantedLate
    BY <1>0, <1>4, Zenon DEF DocumentPanel!GrantedLate
<1>5. CASE DocumentPanel!Refused
    BY <1>0, <1>5, Zenon DEF DocumentPanel!Refused, DocumentPanel!Released
<1>6. CASE UNCHANGED DocumentPanel!cameraVars
    BY <1>0, <1>6, Zenon DEF DocumentPanel!cameraVars
<1> QED
    BY <1>1, <1>2, <1>3, <1>4, <1>5, <1>6
    DEF DocumentPanel!Next, DocumentPanel!docVars, DocumentPanel!DocsListed,
        DocumentPanel!ExistingLoaded, DocumentPanel!onFile, DocumentPanel!Prepared,
        DocumentPanel!CancelEdit, DocumentPanel!ConfirmEdit, DocumentPanel!Sent,
        DocumentPanel!NotSent, DocumentPanel!capture, DocumentPanel!CloseCamera

\* One case per step of a picture; a picture that meets another one, or the
\* document being fetched, counts as crossed.
LEMMA DocsNext ==
    DocumentPanel!DocFollows /\ [DocumentPanel!Next]_DocumentPanel!docVars
        => DocumentPanel!DocFollows'
<1> SUFFICES ASSUME DocumentPanel!DocFollows,
                    [DocumentPanel!Next]_DocumentPanel!docVars
             PROVE  DocumentPanel!DocFollows'
    OBVIOUS
<1> USE NoneAssumption
    DEF DocumentPanel!DocFollows, DocumentPanel!OneOnItsWay, DocumentPanel!OnTheirWay
<1>1. CASE DocumentPanel!DocsListed
    BY <1>1 DEF DocumentPanel!DocsListed
<1>2. CASE DocumentPanel!ExistingLoaded
    BY <1>2 DEF DocumentPanel!ExistingLoaded
<1>3. ASSUME NEW f \in Files, DocumentPanel!Choose(f)
      PROVE  DocumentPanel!DocFollows'
    BY <1>3 DEF DocumentPanel!Choose
<1>4. ASSUME NEW f \in Files, DocumentPanel!Prepared(f)
      PROVE  DocumentPanel!DocFollows'
    BY <1>4 DEF DocumentPanel!Prepared
<1>5. ASSUME NEW f \in Files, DocumentPanel!CancelEdit(f)
      PROVE  DocumentPanel!DocFollows'
    BY <1>5 DEF DocumentPanel!CancelEdit
<1>6. ASSUME NEW f \in Files, DocumentPanel!ConfirmEdit(f)
      PROVE  DocumentPanel!DocFollows'
    BY <1>6 DEF DocumentPanel!ConfirmEdit
<1>7. ASSUME NEW f \in Files, DocumentPanel!Sent(f) \/ DocumentPanel!NotSent(f)
      PROVE  DocumentPanel!DocFollows'
    BY <1>7 DEF DocumentPanel!Sent, DocumentPanel!NotSent
<1>8. CASE UNCHANGED DocumentPanel!tileVars
    BY <1>8 DEF DocumentPanel!tileVars
<1> QED
    BY <1>1, <1>2, <1>3, <1>4, <1>5, <1>6, <1>7, <1>8
    DEF DocumentPanel!Next, DocumentPanel!docVars, DocumentPanel!onFile,
        DocumentPanel!capture, DocumentPanel!handleCameraClick,
        DocumentPanel!CloseCamera, DocumentPanel!Granted,
        DocumentPanel!GrantedLate, DocumentPanel!Refused

LEMMA DocumentsShown ==
    DocumentPanel!CameraHeld /\ DocumentPanel!DocFollows
        => DocumentPanel!ShownDocIsStored /\ DocumentPanel!CameraReleased
    BY NoneAssumption
    DEF DocumentPanel!CameraHeld, DocumentPanel!CameraReleased,
        DocumentPanel!DocFollows, DocumentPanel!OneOnItsWay,
        DocumentPanel!ShownDocIsStored, DocumentPanel!OnTheirWay

-----------------------------------------------------------------------------
(* The address of the completed bookings *)

LEMMA AddressInit == CompletedList!Init => CompletedList!AddressFollows
    BY DEF CompletedList!Init, CompletedList!AddressFollows, CompletedList!Says

LEMMA AddressNext ==
    CompletedList!AddressFollows /\ [CompletedList!Next]_CompletedList!vars
        => CompletedList!AddressFollows'
<1> SUFFICES ASSUME CompletedList!AddressFollows,
                    [CompletedList!Next]_CompletedList!vars
             PROVE  CompletedList!AddressFollows'
    OBVIOUS
<1> USE NoneAssumption DEF CompletedList!AddressFollows, CompletedList!Says
<1>1. ASSUME NEW f \in CompletedList!Filters,
             CompletedList!SetFilters(f) \/ CompletedList!FollowLink(f)
      PROVE  CompletedList!AddressFollows'
    BY <1>1 DEF CompletedList!SetFilters, CompletedList!FollowLink
<1>2. CASE CompletedList!RouterReady
    BY <1>2 DEF CompletedList!RouterReady
<1>3. CASE CompletedList!AddressShown
  <2>1. /\ m5 # None /\ m5 \in CompletedList!Filters /\ m3' = m5 /\ m5' = None
        /\ m2' = [m5 EXCEPT !.dates = m2.dates]
      BY <1>3 DEF CompletedList!AddressShown, CompletedList!TakenOver
  <2>2. /\ m2' \in CompletedList!Filters
        /\ m2'.q = m5.q /\ m2'.status = m5.status /\ m2'.dates = m2.dates
      BY <2>1 DEF CompletedList!Filters
  <2>3. CASE m2' # m2
    <3>1. m4' = m2' /\ m14' = FALSE
        BY <1>3, <2>3 DEF CompletedList!AddressShown
    <3> QED
        BY <2>1, <2>2, <3>1
  <2>4. CASE m2' = m2
    <3>1. UNCHANGED <<m4, m14>>
        BY <1>3, <2>4 DEF CompletedList!AddressShown
    <3> QED
        BY <2>1, <2>2, <2>4, <3>1
  <2> QED
      BY <2>3, <2>4
<1>4. CASE UNCHANGED <<m2, m3, m4, m5, m14>>
    BY <1>4
<1> QED
    BY <1>1, <1>2, <1>3, <1>4
    DEF CompletedList!Next, CompletedList!vars, CompletedList!filterVars,
        CompletedList!ReadList, CompletedList!PreviousPage, CompletedList!NextPage,
        CompletedList!ViewBooking, CompletedList!PartRead, CompletedList!CloseDrawer,
        CompletedList!OpenReversal, CompletedList!TypeReason,
        CompletedList!CloseReversal, CompletedList!Reverse,
        CompletedList!reverse_checkout, CompletedList!NotReversed

-----------------------------------------------------------------------------
(* The advance booking *)

LEMMA BookingInit ==
    BookingPage!Init => BookingPage!OneUnlessTold /\ BookingPage!SelectedOffered
<1> SUFFICES ASSUME BookingPage!Init
             PROVE  BookingPage!OneUnlessTold /\ BookingPage!SelectedOffered
    OBVIOUS
<1>1. /\ m1 \in Dates /\ m2 = [d \in Dates |-> None] /\ m5 = {} /\ m9 = None
      /\ m14 = 0 /\ m13 = <<>>
    BY DEF BookingPage!Init
<1>2. Len(m13) = 0 /\ m13 \in Seq([rooms : SUBSET OneRoom, dates : Dates, paid : BOOLEAN])
    BY <1>1
<1>3. BookingPage!SelectedOffered
    BY <1>1 DEF BookingPage!SelectedOffered, BookingPage!data
<1>4. Len(m13) = IF m14 # 0 \/ m9 = "payment" THEN 1 ELSE 0
    BY <1>1, <1>2, NoneAssumption
<1>5. m2 \in [Dates -> (SUBSET OneRoom) \union {None}] /\ m5 \subseteq OneRoom /\ m14 \in Nat
    BY <1>1
<1> QED
    BY <1>1, <1>2, <1>3, <1>4, <1>5 DEF BookingPage!OneUnlessTold

LEMMA PrunedNext ==
    BookingPage!OneUnlessTold /\ BookingPage!SelectedOffered
      /\ [BookingPage!Next]_BookingPage!advanceVars
        => BookingPage!SelectedOffered'
<1> SUFFICES ASSUME BookingPage!OneUnlessTold, BookingPage!SelectedOffered,
                    [BookingPage!Next]_BookingPage!advanceVars
             PROVE  BookingPage!SelectedOffered'
    OBVIOUS
<1> USE DEF BookingPage!SelectedOffered, BookingPage!data, BookingPage!Pruned,
            BookingPage!Told
<1>1. ASSUME NEW d \in Dates, BookingPage!setDates(d)
      PROVE  BookingPage!SelectedOffered'
    BY <1>1 DEF BookingPage!setDates
<1>2. ASSUME NEW d \in Dates, BookingPage!ListArrives(d)
      PROVE  BookingPage!SelectedOffered'
    BY <1>2 DEF BookingPage!ListArrives, BookingPage!OneUnlessTold
<1>3. ASSUME NEW r \in OneRoom, BookingPage!toggleRoom(r)
      PROVE  BookingPage!SelectedOffered'
    BY <1>3 DEF BookingPage!toggleRoom
<1>4. ASSUME m1' = m1, m2' = m2, m5' = m5 \/ m5' = {}
      PROVE  BookingPage!SelectedOffered'
    BY <1>4
<1> QED
    BY <1>1, <1>2, <1>3, <1>4
    DEF BookingPage!Next, BookingPage!advanceVars, BookingPage!pickerVars,
        BookingPage!OtherDesk, BookingPage!Refetch, BookingPage!Pay,
        BookingPage!setAdvanceAmount, BookingPage!setPaymentCollected,
        BookingPage!Submit, BookingPage!PatchGuest, BookingPage!CreateBooking,
        BookingPage!RecordAdvance, BookingPage!Fails, BookingPage!Succeeds

\* A booking is made from what was submitted, and the only one there is when
\* its payment is due, unless a failure was reported.
LEMMA OneBookingNext ==
    BookingPage!OneUnlessTold /\ [BookingPage!Next]_BookingPage!advanceVars
        => BookingPage!OneUnlessTold'
<1> DEFINE R == [rooms : SUBSET OneRoom, dates : Dates, paid : BOOLEAN]
           S == [rooms : SUBSET OneRoom, dates : Dates, advance : BOOLEAN]
<1> SUFFICES ASSUME BookingPage!OneUnlessTold,
                    [BookingPage!Next]_BookingPage!advanceVars
             PROVE  BookingPage!OneUnlessTold'
    OBVIOUS
<1>0. m13 \in Seq(R) /\ Len(m13) \in Nat
    BY DEF BookingPage!OneUnlessTold
<1>00. m2 \in [Dates -> (SUBSET OneRoom) \union {None}] /\ m5 \subseteq OneRoom
    BY DEF BookingPage!OneUnlessTold
<1>1. ASSUME NEW d \in Dates, BookingPage!setDates(d) \/ BookingPage!ListArrives(d)
      PROVE  BookingPage!OneUnlessTold'
  <2>1. m1' \in Dates
      BY <1>1 DEF BookingPage!setDates, BookingPage!ListArrives, BookingPage!OneUnlessTold
  <2>2. m2' \in [Dates -> (SUBSET OneRoom) \union {None}] /\ m5' \subseteq OneRoom
    <3>1. BookingPage!Free(d) \subseteq OneRoom
        BY DEF BookingPage!Free
    <3>2. m2' = m2 \/ m2' = [m2 EXCEPT ![d] = BookingPage!Free(d)]
        BY <1>1 DEF BookingPage!setDates, BookingPage!ListArrives
    <3>3. m5' \subseteq m5
        BY <1>1 DEF BookingPage!setDates, BookingPage!ListArrives, BookingPage!Told,
                    BookingPage!Pruned
    <3> QED
        BY <1>00, <3>1, <3>2, <3>3
  <2>3. UNCHANGED <<m8, m9, m13, m14, m15>>
      BY <1>1 DEF BookingPage!setDates, BookingPage!ListArrives, BookingPage!sendVars,
                  BookingPage!serverVars
  <2> QED
      BY <2>1, <2>2, <2>3 DEF BookingPage!OneUnlessTold
<1>2. ASSUME NEW r \in OneRoom, BookingPage!toggleRoom(r)
      PROVE  BookingPage!OneUnlessTold'
    BY <1>2 DEF BookingPage!toggleRoom, BookingPage!OneUnlessTold,
                BookingPage!sendVars, BookingPage!serverVars
<1>3. CASE BookingPage!Submit
  <2>1. /\ m8' = [rooms |-> m5, dates |-> m1, advance |-> m6 /\ m7]
        /\ m9' = "guest" /\ m9 = None /\ m14 = 0
        /\ UNCHANGED <<m1, m2, m5, m13, m14, m15>>
      BY <1>3 DEF BookingPage!Submit, BookingPage!canSubmit, BookingPage!pickerVars,
                  BookingPage!serverVars
  <2>2. m8' \in S
      BY <2>1 DEF BookingPage!OneUnlessTold
  <2>3. m9 # "payment"
      BY <2>1, NoneAssumption
  <2> QED
      BY <2>1, <2>2, <2>3 DEF BookingPage!OneUnlessTold
<1>4. ASSUME NEW why, BookingPage!Fails(why), m13' \in Seq(R), m9 # None
      PROVE  BookingPage!OneUnlessTold'
  <2>1. m9' = None /\ m15' = TRUE /\ m14' = m14 /\ m1' = m1 /\ m2' = m2
          /\ m5' \subseteq OneRoom
      BY <1>4 DEF BookingPage!Fails, BookingPage!OneUnlessTold
  <2> QED
      BY <1>4, <2>1, NoneAssumption DEF BookingPage!OneUnlessTold
<1>5. CASE BookingPage!PatchGuest
  <2>1. m9 = "guest" /\ m9 # None
      BY <1>5, NoneAssumption DEF BookingPage!PatchGuest
  <2>2. CASE BookingPage!Fails("failed") /\ m13' = m13
      BY <1>0, <1>4, <2>1, <2>2
  <2>3. CASE m9' = "booking" /\ UNCHANGED <<m1, m2, m5, m8, m13, m14, m15>>
      BY <2>1, <2>3 DEF BookingPage!OneUnlessTold
  <2> QED
      BY <1>5, <2>2, <2>3 DEF BookingPage!PatchGuest, BookingPage!pickerVars,
                              BookingPage!serverVars
<1>6. CASE BookingPage!CreateBooking
  <2>1. m9 = "booking" /\ m9 # None /\ m14 = 0 /\ m8 \in S
      BY <1>6, NoneAssumption DEF BookingPage!CreateBooking, BookingPage!OneUnlessTold
  <2>2. CASE BookingPage!Fails("double_booking") /\ m13' = m13
      BY <1>0, <1>4, <2>1, <2>2
  <2>3. CASE m13' = Append(m13, [rooms |-> m8.rooms, dates |-> m8.dates, paid |-> FALSE])
    <3>1. [rooms |-> m8.rooms, dates |-> m8.dates, paid |-> FALSE] \in R
        BY <2>1
    <3>2. m13' \in Seq(R) /\ Len(m13') = Len(m13) + 1
        BY <1>0, <2>3, <3>1
    <3>3. ASSUME NEW why, BookingPage!Fails(why)
          PROVE  BookingPage!OneUnlessTold'
        BY <1>4, <2>1, <3>2, <3>3
    <3>4. CASE m9' = "payment" /\ UNCHANGED <<m1, m2, m5, m8, m14, m15>>
        BY <1>0, <2>1, <3>2, <3>4 DEF BookingPage!OneUnlessTold
    <3> QED
        BY <1>6, <2>1, <2>3, <3>3, <3>4
        DEF BookingPage!CreateBooking, BookingPage!Fails, BookingPage!pickerVars
  <2> QED
      BY <1>6, <2>2, <2>3 DEF BookingPage!CreateBooking
<1>7. CASE BookingPage!RecordAdvance
  <2>1. m9 = "payment" /\ m9 # None /\ m14 = 0
      BY <1>7, NoneAssumption DEF BookingPage!RecordAdvance, BookingPage!OneUnlessTold
  <2>2. m13' = m13 \/ m13' = BookingPage!Paid
      BY <1>7 DEF BookingPage!RecordAdvance
  <2>3. BookingPage!Paid \in Seq(R) /\ Len(BookingPage!Paid) = Len(m13)
    <3> DEFINE last == [m13[Len(m13)] EXCEPT !.paid = TRUE]
    <3>1. Len(m13) \in 1..Len(m13)
        BY <1>0, <2>1 DEF BookingPage!OneUnlessTold
    <3>2. m13[Len(m13)] \in R
        BY <1>0, <3>1, ElementOfSeq
    <3>3. last \in R
        BY <3>2
    <3>4. BookingPage!Paid = [m13 EXCEPT ![Len(m13)] = last]
        BY DEF BookingPage!Paid
    <3> HIDE DEF last, R
    <3> QED
        BY <1>0, <3>1, <3>3, <3>4, ExceptSeq
  <2>4. m13' \in Seq(R) /\ Len(m13') = Len(m13)
      BY <1>0, <2>2, <2>3
  <2>5. CASE BookingPage!Fails("failed")
      BY <1>4, <2>1, <2>4, <2>5
  <2>6. CASE BookingPage!Succeeds
    <3>1. m9' = None /\ m14' = Len(m13) /\ UNCHANGED <<m1, m2, m5, m15>>
        BY <2>6 DEF BookingPage!Succeeds
    <3>2. m9' # "payment"
        BY <3>1, NoneAssumption
    <3> QED
        BY <1>0, <2>1, <2>4, <3>1, <3>2 DEF BookingPage!OneUnlessTold
  <2> QED
      BY <1>7, <2>5, <2>6 DEF BookingPage!RecordAdvance
<1>8. CASE UNCHANGED <<m1, m2, m5, m8, m9, m13, m14, m15>>
    BY <1>8 DEF BookingPage!OneUnlessTold
<1> QED
    BY <1>1, <1>2, <1>3, <1>5, <1>6, <1>7, <1>8
    DEF BookingPage!Next, BookingPage!advanceVars, BookingPage!pickerVars,
        BookingPage!sendVars, BookingPage!serverVars, BookingPage!payVars,
        BookingPage!OtherDesk, BookingPage!Refetch, BookingPage!Pay,
        BookingPage!setAdvanceAmount, BookingPage!setPaymentCollected

\* So a second booking is made after a failure.
LEMMA SecondAfterFailure ==
    BookingPage!OneUnlessTold => BookingPage!SecondBookingAfterFailure
<1>1. ASSUME NEW n \in {0, 1}
      PROVE  ~(n > 1)
    OBVIOUS
<1>2. ASSUME BookingPage!OneUnlessTold, ~m15
      PROVE  Len(m13) \in {0, 1}
    BY <1>2 DEF BookingPage!OneUnlessTold
<1> QED
    BY <1>1, <1>2, Zenon DEF BookingPage!SecondBookingAfterFailure

\* The voucher states what was recorded: the form's answer is kept by the submission,
\* and a new booking is not paid.
LEMMA VoucherKeptInit == BookingPage!Init => BookingPage!VoucherKept
<1> SUFFICES ASSUME BookingPage!Init
             PROVE  BookingPage!VoucherKept
    OBVIOUS
<1>1. BookingPage!OneUnlessTold
    BY BookingInit
<1>2. m6 = FALSE /\ m7 = FALSE /\ m16 = FALSE /\ m14 = 0 /\ m9 = None /\ m13 = <<>>
    BY DEF BookingPage!Init
<1>3. 0 \in 0 .. Len(m13)
    BY <1>2
<1>4. m9 # "payment"
    BY <1>2, NoneAssumption
<1> QED
    BY <1>1, <1>2, <1>3, <1>4 DEF BookingPage!VoucherKept, BookingPage!VoucherHonest

LEMMA VoucherKeptNext ==
    BookingPage!VoucherKept /\ [BookingPage!Next]_BookingPage!advanceVars
        => BookingPage!VoucherKept'
<1> DEFINE R == [rooms : SUBSET OneRoom, dates : Dates, paid : BOOLEAN]
           shown == m6 /\ m7
           Agrees == m9 # None /\ ~m16 => (m8.advance <=> shown)
           Unpaid == m9 = "payment" => ~m13[Len(m13)].paid
           Honest == m14 # 0 /\ ~m16 => (shown <=> m13[m14].paid)
<1> SUFFICES ASSUME BookingPage!VoucherKept,
                    [BookingPage!Next]_BookingPage!advanceVars
             PROVE  BookingPage!VoucherKept'
    OBVIOUS
<1>1. /\ BookingPage!OneUnlessTold /\ BookingPage!OneUnlessTold'
      /\ m13 \in Seq(R) /\ m13' \in Seq(R) /\ m14 \in 0 .. Len(m13)
      /\ m6 \in BOOLEAN /\ m7 \in BOOLEAN /\ m16 \in BOOLEAN
      /\ m14 # 0 => m9 = None
      /\ m9 = "payment" => Len(m13) \in 1 .. Len(m13)
      /\ Agrees /\ Unpaid /\ Honest
  <2>1. BookingPage!OneUnlessTold /\ BookingPage!OneUnlessTold'
      BY OneBookingNext DEF BookingPage!VoucherKept
  <2>2. /\ m13 \in Seq(R) /\ m13' \in Seq(R) /\ (m14 # 0 => m9 = None)
        /\ m9 = "payment" => Len(m13) > 0
      BY <2>1 DEF BookingPage!OneUnlessTold
  <2>3. Len(m13) \in Nat
      BY <2>2
  <2> QED
      BY <2>1, <2>2, <2>3
      DEF BookingPage!VoucherKept, BookingPage!VoucherHonest, BookingPage!ShownAdvance
<1>2. ASSUME m6' \in BOOLEAN, m7' \in BOOLEAN, m16' \in BOOLEAN,
             m14' \in 0 .. Len(m13'), Agrees', Unpaid', Honest'
      PROVE  BookingPage!VoucherKept'
    BY <1>1, <1>2
    DEF BookingPage!VoucherKept, BookingPage!VoucherHonest, BookingPage!ShownAdvance
<1>3. ASSUME NEW why, BookingPage!Fails(why), m14 = 0
      PROVE  BookingPage!VoucherKept'
  <2>1. m9' = None /\ m14' = 0 /\ UNCHANGED <<m6, m7, m16>>
      BY <1>3 DEF BookingPage!Fails, BookingPage!payVars
  <2>2. 0 \in 0 .. Len(m13') /\ m9' # "payment"
      BY <1>1, <2>1, NoneAssumption
  <2> QED
      BY <1>1, <1>2, <2>1, <2>2
<1>4. CASE BookingPage!Submit
  <2>1. /\ m8'.advance = shown /\ m9' = "guest" /\ m16' = FALSE
        /\ UNCHANGED <<m6, m7, m13, m14>> /\ m14 = 0
      BY <1>4 DEF BookingPage!Submit, BookingPage!serverVars
  <2> QED
      BY <1>1, <1>2, <2>1
<1>5. CASE BookingPage!setAdvanceAmount \/ BookingPage!setPaymentCollected
  <2>1. /\ m14 = 0 /\ UNCHANGED <<m8, m9, m13, m14>>
        /\ m16' \in BOOLEAN /\ (m16' <=> m16 \/ m9 # None)
        /\ m6' \in BOOLEAN /\ m7' \in BOOLEAN
      BY <1>1, <1>5
      DEF BookingPage!setAdvanceAmount, BookingPage!setPaymentCollected,
          BookingPage!Pay, BookingPage!sendVars, BookingPage!serverVars
  <2> QED
      BY <1>1, <1>2, <2>1
<1>6. CASE BookingPage!PatchGuest
  <2>1. m9 # None /\ m9 = "guest" /\ m14 = 0
      BY <1>1, <1>6, NoneAssumption DEF BookingPage!PatchGuest
  <2>2. CASE BookingPage!Fails("failed")
      BY <1>3, <2>1, <2>2
  <2>3. CASE m9' = "booking" /\ UNCHANGED <<m6, m7, m8, m13, m14, m16>>
      BY <1>1, <1>2, <2>1, <2>3
  <2> QED
      BY <1>6, <2>2, <2>3
      DEF BookingPage!PatchGuest, BookingPage!payVars, BookingPage!serverVars
<1>7. CASE BookingPage!CreateBooking
  <2>1. m9 # None /\ m9 = "booking" /\ m14 = 0
      BY <1>1, <1>7, NoneAssumption DEF BookingPage!CreateBooking
  <2>2. CASE \E why : BookingPage!Fails(why)
      BY <1>3, <2>1, <2>2
  <2>3. CASE ~ \E why : BookingPage!Fails(why)
    <3> DEFINE new == [rooms |-> m8.rooms, dates |-> m8.dates, paid |-> FALSE]
    <3>1. m13' = Append(m13, new) /\ m9' = "payment" /\ UNCHANGED <<m6, m7, m8, m14, m16>>
        BY <1>7, <2>3 DEF BookingPage!CreateBooking, BookingPage!payVars
    <3>2. Len(m13') = Len(m13) + 1 /\ m13'[Len(m13')] = new
        BY <1>1, <3>1
    <3>3. ~m13'[Len(m13')].paid /\ 0 \in 0 .. Len(m13')
        BY <1>1, <3>2
    <3> QED
        BY <1>1, <1>2, <2>1, <3>1, <3>3
  <2> QED
      BY <2>2, <2>3
<1>8. CASE BookingPage!RecordAdvance
  <2>1. m9 # None /\ m9 = "payment" /\ m14 = 0
      BY <1>1, <1>8, NoneAssumption DEF BookingPage!RecordAdvance
  <2>2. CASE BookingPage!Fails("failed")
      BY <1>3, <2>1, <2>2
  <2>3. CASE BookingPage!Succeeds /\ m13' = IF m8.advance THEN BookingPage!Paid ELSE m13
    <3>1. /\ m9' = None /\ m14' = Len(m13) /\ UNCHANGED <<m6, m7, m16>>
          /\ m13' = IF m8.advance THEN BookingPage!Paid ELSE m13
        BY <2>3 DEF BookingPage!Succeeds, BookingPage!payVars
    <3>2. m9' # "payment" /\ Len(m13) \in 1 .. Len(m13)
        BY <1>1, <2>1, <3>1, NoneAssumption
    <3>3. Len(m13') = Len(m13) /\ (m13'[Len(m13)].paid <=> m8.advance)
      <4>1. CASE m8.advance
        <5>1. m13' = [m13 EXCEPT ![Len(m13)] = [m13[Len(m13)] EXCEPT !.paid = TRUE]]
            BY <3>1, <4>1 DEF BookingPage!Paid
        <5>2. m13[Len(m13)] \in R
            BY <1>1, <3>2, ElementOfSeq
        <5>3. m13'[Len(m13)].paid = TRUE
            BY <1>1, <3>2, <5>1, <5>2
        <5> HIDE DEF R
        <5>4. Len(m13') = Len(m13)
            BY <1>1, <5>1, ExceptSeq, LenProperties
        <5> QED
            BY <4>1, <5>3, <5>4
      <4>2. CASE ~m8.advance
          BY <1>1, <2>1, <3>1, <4>2
      <4> QED
          BY <4>1, <4>2
    <3>4. m14' \in 0 .. Len(m13')
        BY <3>1, <3>2, <3>3
    <3>5. ~m16 => (m8.advance <=> shown)
        BY <1>1, <2>1
    <3>6. Honest'
        BY <3>1, <3>3, <3>5
    <3>7. Agrees' /\ Unpaid'
        BY <3>1, <3>2
    <3> HIDE DEF Agrees, Unpaid, Honest
    <3> QED
        BY <1>1, <1>2, <3>1, <3>4, <3>6, <3>7
  <2> QED
      BY <1>8, <2>2, <2>3 DEF BookingPage!RecordAdvance
<1>9. CASE UNCHANGED <<m6, m7, m8, m9, m13, m14, m16>>
    BY <1>1, <1>2, <1>9
<1> QED
    BY <1>4, <1>5, <1>6, <1>7, <1>8, <1>9
    DEF BookingPage!Next, BookingPage!advanceVars, BookingPage!pickerVars,
        BookingPage!sendVars, BookingPage!serverVars, BookingPage!payVars,
        BookingPage!OtherDesk, BookingPage!Refetch, BookingPage!setDates,
        BookingPage!ListArrives, BookingPage!toggleRoom

-----------------------------------------------------------------------------
(* The pages of the advance bookings *)

\* The last page of n rows has some of them.
LEMMA LastPageHasRows ==
    ASSUME NEW n \in Nat \ {0}, NEW size \in Nat \ {0}
    PROVE  LET last == (n + size - 1) \div size
           IN  last \in Nat /\ last >= 1 /\ (last - 1) * size < n
<1> DEFINE last == (n + size - 1) \div size
           rest == (n + size - 1) % size
<1>1. /\ last \in Int /\ rest \in 0..(size - 1)
      /\ n + size - 1 = last * size + rest
    OBVIOUS
<1> HIDE DEF last, rest
<1>2. (last - 1) * size = last * size - size
    BY <1>1
<1>3. last >= 1
  <2>1. SUFFICES ASSUME last <= 0
                 PROVE  FALSE
      BY <1>1
  <2>2. last * size <= 0
      BY <1>1, <2>1
  <2>3. last * size \in Int
      BY <1>1
  <2> QED
      BY <1>1, <2>2, <2>3
<1>4. last * size \in Int
    BY <1>1
<1> QED
    BY <1>1, <1>2, <1>3, <1>4 DEF last

\* Rows of the page shown: those up to its end without those up to its start.
LEMMA ShownPageHasRows ==
    ASSUME NEW n \in Nat \ {0}, NEW size \in Nat \ {0}, NEW shown \in Nat \ {0},
           shown <= (n + size - 1) \div size
    PROVE  /\ (shown - 1) * size \in Nat /\ (shown - 1) * size < n
           /\ (shown - 1) * size < shown * size /\ shown * size \in Nat
<1> DEFINE last == (n + size - 1) \div size
<1>1. last \in Nat /\ last >= 1 /\ (last - 1) * size < n
    BY LastPageHasRows
<1> HIDE DEF last
<1>2. shown <= last
    BY DEF last
<1>3. shown - 1 \in Nat /\ last - 1 \in Nat /\ shown - 1 <= last - 1
    BY <1>1, <1>2
<1>4. (shown - 1) * size <= (last - 1) * size /\ (shown - 1) * size \in Nat
        /\ (last - 1) * size \in Nat
    BY <1>3, Products
<1>5. shown * size = (shown - 1) * size + size /\ shown * size \in Nat
    OBVIOUS
<1> QED
    BY <1>1, <1>4, <1>5

LEMMA AdvanceListInit == AdvanceList!Init => AdvanceList!ListsOfBookings
<1> SUFFICES ASSUME AdvanceList!Init
             PROVE  AdvanceList!ListsOfBookings
    OBVIOUS
<1>1. m8 = 1 /\ m2 = [k \in AdvanceList!Kinds |-> None] /\ m3 = m2
    BY DEF AdvanceList!Init
<1> QED
    BY <1>1 DEF AdvanceList!ListsOfBookings

LEMMA AdvanceListNext ==
    AdvanceList!ListsOfBookings /\ [AdvanceList!Next]_AdvanceList!vars => AdvanceList!ListsOfBookings'
<1> DEFINE Lists == [AdvanceList!Kinds -> (SUBSET ListedBookings) \union {None}]
<1> SUFFICES ASSUME AdvanceList!ListsOfBookings, [AdvanceList!Next]_AdvanceList!vars
             PROVE  AdvanceList!ListsOfBookings'
    OBVIOUS
<1>1. m8 \in Nat \ {0} /\ m2 \in Lists /\ m3 \in Lists
    BY DEF AdvanceList!ListsOfBookings
<1>2. ASSUME m8' \in Nat \ {0}, m2' \in Lists, m3' \in Lists
      PROVE  AdvanceList!ListsOfBookings'
    BY <1>2 DEF AdvanceList!ListsOfBookings
<1>3. ASSUME NEW k \in AdvanceList!Kinds, AdvanceList!ReadList(k) \/ AdvanceList!ListRead(k)
      PROVE  AdvanceList!ListsOfBookings'
  <2>1. m8' = m8 /\ m2' \in Lists /\ m3' \in Lists
      BY <1>1, <1>3 DEF AdvanceList!ReadList, AdvanceList!ListRead
  <2> QED
      BY <1>1, <1>2, <2>1
<1>4. ASSUME NEW f, AdvanceList!SetFilters(f)
      PROVE  AdvanceList!ListsOfBookings'
  <2>1. m8' = 1 /\ m2' \in Lists /\ m3' \in Lists
      BY <1>4 DEF AdvanceList!SetFilters
  <2> QED
      BY <1>2, <2>1
<1>5. CASE AdvanceList!Navigated
  <2>1. CASE \E f : AdvanceList!SetFilters(f)
      BY <1>4, <2>1
  <2>2. CASE UNCHANGED <<m2, m3, m8>>
      BY <1>1, <1>2, <2>2
  <2> QED
      BY <1>5, <2>1, <2>2 DEF AdvanceList!Navigated, AdvanceList!listVars
<1>6. ASSUME NEW p \in 1..AdvanceList!Cardinality(ListedBookings), AdvanceList!TurnPage(p)
      PROVE  AdvanceList!ListsOfBookings'
  <2>1. m8' = p /\ m2' = m2 /\ m3' = m3
      BY <1>6 DEF AdvanceList!TurnPage, AdvanceList!listVars
  <2> QED
      BY <1>1, <1>2, <2>1
<1>7. ASSUME NEW call, AdvanceList!Closed(call)
      PROVE  AdvanceList!ListsOfBookings'
  <2>1. m8' = m8 /\ m2' = m2
      BY <1>7 DEF AdvanceList!Closed
  <2>2. m3' = m3 \/ m3' = [k \in AdvanceList!Kinds |-> IF k \in AdvanceList!Wanted
                             THEN {b \in ListedBookings : m1'[b] = k} ELSE None]
      BY <1>7 DEF AdvanceList!Closed
  <2>3. m3' \in Lists
      BY <1>1, <2>2
  <2> QED
      BY <1>1, <1>2, <2>1, <2>3
<1>8. ASSUME NEW s, AdvanceList!ChooseChip(s)
      PROVE  AdvanceList!ListsOfBookings'
    BY <1>1, <1>2, <1>8 DEF AdvanceList!ChooseChip, AdvanceList!listVars
<1>9. CASE UNCHANGED <<m2, m3, m8>>
    BY <1>1, <1>2, <1>9
<1> QED
    BY <1>3, <1>4, <1>5, <1>6, <1>7, <1>8, <1>9
    DEF AdvanceList!Next, AdvanceList!vars, AdvanceList!listVars, AdvanceList!SetSearch, AdvanceList!SetDates,
        AdvanceList!ClearFilters, AdvanceList!FollowLink, AdvanceList!OpenDialog, AdvanceList!DismissDialog,
        AdvanceList!Confirm, AdvanceList!OtherDesk

LEMMA AdvanceListHasRows == AdvanceList!ListsOfBookings => AdvanceList!PageHasRows
<1> DEFINE n == Cardinality(AdvanceList!Items)
           last == (n + PageSize - 1) \div PageSize
<1> SUFFICES ASSUME AdvanceList!ListsOfBookings, AdvanceList!Items # {}
             PROVE  AdvanceList!Rows > 0
    BY DEF AdvanceList!PageHasRows
<1>1. PageSize \in Nat \ {0} /\ IsFiniteSet(ListedBookings)
    BY ListsAssumption
<1>2. AdvanceList!Items \subseteq ListedBookings
    BY DEF AdvanceList!Items, AdvanceList!Wanted, AdvanceList!ListsOfBookings
<1>3. n \in Nat \ {0}
  <2>1. IsFiniteSet(AdvanceList!Items)
      BY <1>1, <1>2, FS_Subset
  <2> QED
      BY <2>1, FS_CardinalityType, FS_EmptySet
<1>4. \A S : AdvanceList!Cardinality(S) = Cardinality(S)
    BY Zenon DEF AdvanceList!Cardinality, Cardinality
<1>5. AdvanceList!TotalPages = last
    BY <1>4, Zenon DEF AdvanceList!TotalPages
<1> HIDE DEF n
<1>6. last \in Nat /\ last >= 1
    BY <1>1, <1>3, LastPageHasRows
<1> HIDE DEF last
<1>7. m8 \in Nat \ {0}
    BY DEF AdvanceList!ListsOfBookings
<1>8. AdvanceList!Current \in Nat \ {0} /\ AdvanceList!Current <= last
    BY <1>5, <1>6, <1>7 DEF AdvanceList!Current
<1> DEFINE shown == AdvanceList!Current
           before == (shown - 1) * PageSize
           upto == shown * PageSize
<1>9. before \in Nat /\ before < n /\ before < upto /\ upto \in Nat
    BY <1>1, <1>3, <1>8, ShownPageHasRows DEF last
<1>10. /\ AdvanceList!RowsBefore(shown - 1) = IF before > n THEN n ELSE before
       /\ AdvanceList!RowsBefore(shown) = IF upto > n THEN n ELSE upto
    BY <1>4, Zenon DEF AdvanceList!RowsBefore, n
<1>11. AdvanceList!Rows = AdvanceList!RowsBefore(shown) - AdvanceList!RowsBefore(shown - 1)
    BY DEF AdvanceList!Rows
<1> HIDE DEF shown, before, upto
<1>12. AdvanceList!RowsBefore(shown - 1) = before
    BY <1>3, <1>9, <1>10
<1> QED
    BY <1>3, <1>9, <1>10, <1>11, <1>12

\* The same where the search and another desk are busy.
LEMMA AdvanceSearchInit == AdvanceSearch!Init => AdvanceSearch!ListsOfBookings
<1> SUFFICES ASSUME AdvanceSearch!Init
             PROVE  AdvanceSearch!ListsOfBookings
    OBVIOUS
<1>1. m8 = 1 /\ m2 = [k \in AdvanceSearch!Kinds |-> None] /\ m3 = m2
    BY DEF AdvanceSearch!Init
<1> QED
    BY <1>1 DEF AdvanceSearch!ListsOfBookings

LEMMA AdvanceSearchNext ==
    AdvanceSearch!ListsOfBookings /\ [AdvanceSearch!Next]_AdvanceSearch!vars => AdvanceSearch!ListsOfBookings'
<1> DEFINE Lists == [AdvanceSearch!Kinds -> (SUBSET Bookings) \union {None}]
<1> SUFFICES ASSUME AdvanceSearch!ListsOfBookings, [AdvanceSearch!Next]_AdvanceSearch!vars
             PROVE  AdvanceSearch!ListsOfBookings'
    OBVIOUS
<1>1. m8 \in Nat \ {0} /\ m2 \in Lists /\ m3 \in Lists
    BY DEF AdvanceSearch!ListsOfBookings
<1>2. ASSUME m8' \in Nat \ {0}, m2' \in Lists, m3' \in Lists
      PROVE  AdvanceSearch!ListsOfBookings'
    BY <1>2 DEF AdvanceSearch!ListsOfBookings
<1>3. ASSUME NEW k \in AdvanceSearch!Kinds, AdvanceSearch!ReadList(k) \/ AdvanceSearch!ListRead(k)
      PROVE  AdvanceSearch!ListsOfBookings'
  <2>1. m8' = m8 /\ m2' \in Lists /\ m3' \in Lists
      BY <1>1, <1>3 DEF AdvanceSearch!ReadList, AdvanceSearch!ListRead
  <2> QED
      BY <1>1, <1>2, <2>1
<1>4. ASSUME NEW f, AdvanceSearch!SetFilters(f)
      PROVE  AdvanceSearch!ListsOfBookings'
  <2>1. m8' = 1 /\ m2' \in Lists /\ m3' \in Lists
      BY <1>4 DEF AdvanceSearch!SetFilters
  <2> QED
      BY <1>2, <2>1
<1>5. CASE AdvanceSearch!Navigated
  <2>1. CASE \E f : AdvanceSearch!SetFilters(f)
      BY <1>4, <2>1
  <2>2. CASE UNCHANGED <<m2, m3, m8>>
      BY <1>1, <1>2, <2>2
  <2> QED
      BY <1>5, <2>1, <2>2 DEF AdvanceSearch!Navigated, AdvanceSearch!listVars
<1>6. ASSUME NEW p \in 1..AdvanceSearch!Cardinality(Bookings), AdvanceSearch!TurnPage(p)
      PROVE  AdvanceSearch!ListsOfBookings'
  <2>1. m8' = p /\ m2' = m2 /\ m3' = m3
      BY <1>6 DEF AdvanceSearch!TurnPage, AdvanceSearch!listVars
  <2> QED
      BY <1>1, <1>2, <2>1
<1>7. ASSUME NEW call, AdvanceSearch!Closed(call)
      PROVE  AdvanceSearch!ListsOfBookings'
  <2>1. m8' = m8 /\ m2' = m2
      BY <1>7 DEF AdvanceSearch!Closed
  <2>2. m3' = m3 \/ m3' = [k \in AdvanceSearch!Kinds |-> IF k \in AdvanceSearch!Wanted
                             THEN {b \in Bookings : m1'[b] = k} ELSE None]
      BY <1>7 DEF AdvanceSearch!Closed
  <2>3. m3' \in Lists
      BY <1>1, <2>2
  <2> QED
      BY <1>1, <1>2, <2>1, <2>3
<1>8. ASSUME NEW s, AdvanceSearch!ChooseChip(s)
      PROVE  AdvanceSearch!ListsOfBookings'
    BY <1>1, <1>2, <1>8 DEF AdvanceSearch!ChooseChip, AdvanceSearch!listVars
<1>9. CASE UNCHANGED <<m2, m3, m8>>
    BY <1>1, <1>2, <1>9
<1> QED
    BY <1>3, <1>4, <1>5, <1>6, <1>7, <1>8, <1>9
    DEF AdvanceSearch!Next, AdvanceSearch!vars, AdvanceSearch!listVars, AdvanceSearch!SetSearch, AdvanceSearch!SetDates,
        AdvanceSearch!ClearFilters, AdvanceSearch!FollowLink, AdvanceSearch!OpenDialog, AdvanceSearch!DismissDialog,
        AdvanceSearch!Confirm, AdvanceSearch!OtherDesk

LEMMA AdvanceSearchHasRows == AdvanceSearch!ListsOfBookings => AdvanceSearch!PageHasRows
<1> DEFINE n == Cardinality(AdvanceSearch!Items)
           last == (n + PageSize - 1) \div PageSize
<1> SUFFICES ASSUME AdvanceSearch!ListsOfBookings, AdvanceSearch!Items # {}
             PROVE  AdvanceSearch!Rows > 0
    BY DEF AdvanceSearch!PageHasRows
<1>1. PageSize \in Nat \ {0} /\ IsFiniteSet(Bookings)
    BY ListsAssumption
<1>2. AdvanceSearch!Items \subseteq Bookings
    BY DEF AdvanceSearch!Items, AdvanceSearch!Wanted, AdvanceSearch!ListsOfBookings
<1>3. n \in Nat \ {0}
  <2>1. IsFiniteSet(AdvanceSearch!Items)
      BY <1>1, <1>2, FS_Subset
  <2> QED
      BY <2>1, FS_CardinalityType, FS_EmptySet
<1>4. \A S : AdvanceSearch!Cardinality(S) = Cardinality(S)
    BY Zenon DEF AdvanceSearch!Cardinality, Cardinality
<1>5. AdvanceSearch!TotalPages = last
    BY <1>4, Zenon DEF AdvanceSearch!TotalPages
<1> HIDE DEF n
<1>6. last \in Nat /\ last >= 1
    BY <1>1, <1>3, LastPageHasRows
<1> HIDE DEF last
<1>7. m8 \in Nat \ {0}
    BY DEF AdvanceSearch!ListsOfBookings
<1>8. AdvanceSearch!Current \in Nat \ {0} /\ AdvanceSearch!Current <= last
    BY <1>5, <1>6, <1>7 DEF AdvanceSearch!Current
<1> DEFINE shown == AdvanceSearch!Current
           before == (shown - 1) * PageSize
           upto == shown * PageSize
<1>9. before \in Nat /\ before < n /\ before < upto /\ upto \in Nat
    BY <1>1, <1>3, <1>8, ShownPageHasRows DEF last
<1>10. /\ AdvanceSearch!RowsBefore(shown - 1) = IF before > n THEN n ELSE before
       /\ AdvanceSearch!RowsBefore(shown) = IF upto > n THEN n ELSE upto
    BY <1>4, Zenon DEF AdvanceSearch!RowsBefore, n
<1>11. AdvanceSearch!Rows = AdvanceSearch!RowsBefore(shown) - AdvanceSearch!RowsBefore(shown - 1)
    BY DEF AdvanceSearch!Rows
<1> HIDE DEF shown, before, upto
<1>12. AdvanceSearch!RowsBefore(shown - 1) = before
    BY <1>3, <1>9, <1>10
<1> QED
    BY <1>3, <1>9, <1>10, <1>11, <1>12

-----------------------------------------------------------------------------
(* The bills *)

\* Some set without a largest number would be smallest, and had one with its
\* other members.
LEMMA HasLargest ==
    ASSUME NEW W, W \subseteq Nat, W # {}, IsFiniteSet(W)
    PROVE  \E p \in W : \A q \in W : q <= p
<1> DEFINE Bad == {X \in FiniteSubsetsOf(W) :
                     X # {} /\ ~\E p \in X : \A q \in X : q <= p}
<1> SUFFICES ASSUME Bad # {} PROVE FALSE
    BY DEF FiniteSubsetsOf
<1>1. PICK X \in Bad : \A Y \in Bad : ~(<<Y, X>> \in StrictSubsetOrdering(W))
    BY FS_StrictSubsetOrderingWellFounded, WFMin
<1>2. PICK x \in X : TRUE
    OBVIOUS
<1>3. X \ {x} \in FiniteSubsetsOf(W)
    BY FS_RemoveElement DEF FiniteSubsetsOf
<1>4. <<X \ {x}, X>> \in StrictSubsetOrdering(W)
    BY DEF StrictSubsetOrdering, FiniteSubsetsOf
<1>5. X \ {x} \notin Bad
    BY <1>1, <1>4
<1>6. X \subseteq Nat
    BY DEF FiniteSubsetsOf
<1>7. CASE X \ {x} = {}
    BY <1>2, <1>6, <1>7
<1>8. CASE X \ {x} # {}
  <2>1. PICK m \in X \ {x} : \A q \in X \ {x} : q <= m
      BY <1>3, <1>5, <1>8
  <2> QED
      BY <1>2, <1>6, <2>1
<1> QED
    BY <1>7, <1>8

\* The bills of a hotel, or of a booking, have a newest.
LEMMA BillsHaveNewest ==
    ASSUME NEW B, m1 \in Seq(B), NEW f, InvoicesPage!Rows(f) # {}
    PROVE  \E row \in InvoicesPage!Rows(f) :
             InvoicesPage!IsNewest(row, InvoicesPage!Rows(f))
<1> DEFINE W == {j \in DOMAIN m1 : f = None \/ m1[j].booking = f}
           row(i) == [id |-> i, cancelled |-> m1[i].cancelled]
<1>1. InvoicesPage!Rows(f) = {row(i) : i \in W}
    BY DEF InvoicesPage!Rows
<1>2. DOMAIN m1 = 1..Len(m1) /\ Len(m1) \in Nat
    OBVIOUS
<1>3. W \subseteq Nat /\ W # {} /\ IsFiniteSet(W)
  <2>1. IsFiniteSet(1..Len(m1))
      BY <1>2, FS_Interval
  <2>2. W \subseteq 1..Len(m1)
      BY <1>2
  <2>3. IsFiniteSet(W)
      BY <2>1, <2>2, FS_Subset
  <2> QED
      BY <1>1, <2>2, <2>3
<1> HIDE DEF W
<1>4. PICK p \in W : \A q \in W : q <= p
    BY <1>3, HasLargest
<1>5. \A i \in W : row(i).id = i
    OBVIOUS
<1> QED
    BY <1>1, <1>4, <1>5 DEF InvoicesPage!IsNewest

LEMMA InvoicesInit ==
    InvoicesPage!Init => InvoicesPage!ListsHaveNewest /\ InvoicesPage!AboutAsWanted
<1> SUFFICES ASSUME InvoicesPage!Init
             PROVE  InvoicesPage!ListsHaveNewest /\ InvoicesPage!AboutAsWanted
    OBVIOUS
<1>1. /\ m1 = <<>> /\ m2 = [f \in InvoicesPage!Filters |-> None]
      /\ m3 \in InvoicesPage!Filters /\ m7 = None /\ m10 = None
      /\ m9 = [open |-> FALSE, about |-> 0, wanted |-> 0, number |-> None]
    BY DEF InvoicesPage!Init
<1>2. InvoicesPage!ListsHaveNewest
    BY <1>1 DEF InvoicesPage!ListsHaveNewest, InvoicesPage!ShownIsListed,
                InvoicesPage!Listed
<1>3. InvoicesPage!AboutAsWanted
    BY <1>1 DEF InvoicesPage!AboutAsWanted, InvoicesPage!SharedAsAsked
<1> QED
    BY <1>2, <1>3

\* Both ways of asking for a message are about the bill that was wanted.
LEMMA MessageIsWanted ==
    ASSUME InvoicesPage!AboutAsWanted, NEW i, InvoicesPage!SendOrAsk(i, i)
    PROVE  InvoicesPage!AboutAsWanted'
<1>1. CASE UNCHANGED m9 /\ m10' = [wanted |-> i, about |-> i, to |-> m1[i].booking]
    BY <1>1 DEF InvoicesPage!AboutAsWanted, InvoicesPage!SharedAsAsked
<1>2. CASE UNCHANGED m10 /\ m9' = [m9 EXCEPT !.open = TRUE, !.about = i, !.wanted = i]
  <2>1. DOMAIN m9' = DOMAIN m9 /\ m9'.about = i /\ m9'.wanted = i
      BY <1>2 DEF InvoicesPage!AboutAsWanted
  <2> QED
      BY <1>2, <2>1 DEF InvoicesPage!AboutAsWanted, InvoicesPage!SharedAsAsked
<1> QED
    BY <1>1, <1>2 DEF InvoicesPage!SendOrAsk

LEMMA AboutNext ==
    InvoicesPage!AboutAsWanted /\ [InvoicesPage!Next]_InvoicesPage!invoicesVars
        => InvoicesPage!AboutAsWanted'
<1> SUFFICES ASSUME InvoicesPage!AboutAsWanted,
                    [InvoicesPage!Next]_InvoicesPage!invoicesVars
             PROVE  InvoicesPage!AboutAsWanted'
    OBVIOUS
<1>1. CASE InvoicesPage!shareInvoiceWhatsApp
    BY <1>1, MessageIsWanted DEF InvoicesPage!shareInvoiceWhatsApp
<1>2. ASSUME NEW how \in {"failed", "device", "saved"}, InvoicesPage!PdfCame(how)
      PROVE  InvoicesPage!AboutAsWanted'
  <2>1. CASE UNCHANGED <<m9, m10>>
      BY <2>1 DEF InvoicesPage!AboutAsWanted, InvoicesPage!SharedAsAsked
  <2>2. CASE UNCHANGED m9 /\ m10' = [wanted |-> m8, about |-> m8, to |-> None]
      BY <2>2 DEF InvoicesPage!AboutAsWanted, InvoicesPage!SharedAsAsked
  <2>3. CASE InvoicesPage!SendOrAsk(m8, m8)
      BY <2>3, MessageIsWanted
  <2> QED
      BY <1>2, <2>1, <2>2, <2>3 DEF InvoicesPage!PdfCame, InvoicesPage!SharedBill
<1>3. CASE InvoicesPage!TypeNumber
  <2>1. DOMAIN m9' = DOMAIN m9 /\ m9'.about = m9.about /\ m9'.wanted = m9.wanted
          /\ m10' = m10
      BY <1>3 DEF InvoicesPage!TypeNumber, InvoicesPage!AboutAsWanted
  <2> QED
      BY <2>1 DEF InvoicesPage!AboutAsWanted, InvoicesPage!SharedAsAsked
<1>4. ASSUME NEW send \in BOOLEAN, InvoicesPage!ClosePhone(send)
      PROVE  InvoicesPage!AboutAsWanted'
  <2>1. DOMAIN m9' = DOMAIN m9 /\ m9'.about = 0 /\ m9'.wanted = 0
      BY <1>4 DEF InvoicesPage!ClosePhone, InvoicesPage!AboutAsWanted
  <2>2. \/ m10' = m10
        \/ m10' = [wanted |-> m9.wanted, about |-> m9.about, to |-> m9.number]
      BY <1>4 DEF InvoicesPage!ClosePhone
  <2>3. InvoicesPage!SharedAsAsked'
      BY <2>2 DEF InvoicesPage!AboutAsWanted, InvoicesPage!SharedAsAsked
  <2> QED
      BY <2>1, <2>3 DEF InvoicesPage!AboutAsWanted
<1>5. CASE UNCHANGED <<m9, m10>>
    BY <1>5 DEF InvoicesPage!AboutAsWanted, InvoicesPage!SharedAsAsked
<1> QED
    BY <1>1, <1>2, <1>3, <1>4, <1>5
    DEF InvoicesPage!Next, InvoicesPage!invoicesVars, InvoicesPage!ReadInvoices,
        InvoicesPage!Follow, InvoicesPage!View, InvoicesPage!AskCancel,
        InvoicesPage!ConfirmCancel, InvoicesPage!cancel_invoice,
        InvoicesPage!Generate, InvoicesPage!OtherCheckOut,
        InvoicesPage!GenerateReads, InvoicesPage!GenerateInserts,
        InvoicesPage!shareInvoiceNativeFile

\* A list that arrives selects a bill of its own.
LEMMA SelectsOwn ==
    ASSUME NEW rows, NEW f, rows # {},
           \E row \in rows : InvoicesPage!IsNewest(row, rows)
    PROVE  \E row \in rows : row.id = InvoicesPage!AutoSelected(rows, f)
<1>1. InvoicesPage!Newest(rows) \in rows
    BY DEF InvoicesPage!Newest, InvoicesPage!IsNewest
<1> QED
    BY <1>1 DEF InvoicesPage!AutoSelected

LEMMA NewestNext ==
    InvoicesPage!ListsHaveNewest /\ [InvoicesPage!Next]_InvoicesPage!invoicesVars
        => InvoicesPage!ListsHaveNewest'
<1> DEFINE B == [booking : ListedBookings, cancelled : BOOLEAN]
           Asked == [booking : ListedBookings, free : BOOLEAN] \union {None}
           Read == m2 = [f \in InvoicesPage!Filters |-> m2[f]]
           HasNewest == \A f \in InvoicesPage!Filters :
             m2[f] \notin {None, {}} => \E row \in m2[f] : InvoicesPage!IsNewest(row, m2[f])
<1> SUFFICES ASSUME InvoicesPage!ListsHaveNewest,
                    [InvoicesPage!Next]_InvoicesPage!invoicesVars
             PROVE  InvoicesPage!ListsHaveNewest'
    OBVIOUS
<1>0. m3 \in InvoicesPage!Filters /\ m1 \in Seq(B) /\ m7 \in Asked /\ Read /\ HasNewest
        /\ InvoicesPage!ShownIsListed
    BY DEF InvoicesPage!ListsHaveNewest
<1>1. ASSUME m3' \in InvoicesPage!Filters, m1' \in Seq(B), m7' \in Asked, Read', HasNewest',
             InvoicesPage!ShownIsListed'
      PROVE  InvoicesPage!ListsHaveNewest'
    BY <1>1 DEF InvoicesPage!ListsHaveNewest, InvoicesPage!IsNewest
<1>2. ASSUME m1' = m1, m2' = m2, m7' = m7, m3' \in InvoicesPage!Filters,
             InvoicesPage!ShownIsListed'
      PROVE  InvoicesPage!ListsHaveNewest'
    BY <1>0, <1>1, <1>2 DEF InvoicesPage!IsNewest
<1>3. ASSUME m1' \in Seq(B), m7' \in Asked, UNCHANGED <<m2, m3, m4>>
      PROVE  InvoicesPage!ListsHaveNewest'
  <2>1. InvoicesPage!ShownIsListed'
      BY <1>0, <1>3 DEF InvoicesPage!ShownIsListed, InvoicesPage!Listed,
                        InvoicesPage!Shown
  <2> QED
      BY <1>0, <1>1, <1>3, <2>1 DEF InvoicesPage!IsNewest
<1>4. CASE InvoicesPage!ReadInvoices
  <2> DEFINE rows == InvoicesPage!Rows(m3)
  <2>1. m1' = m1 /\ m3' = m3 /\ m7' = m7 /\ m2' = [m2 EXCEPT ![m3] = rows]
          /\ m4' = InvoicesPage!AutoSelected(rows, m3)
      BY <1>4 DEF InvoicesPage!ReadInvoices
  <2>2. rows # {} => \E row \in rows : InvoicesPage!IsNewest(row, rows)
      BY <1>0, BillsHaveNewest
  <2>3. rows # {} => \E row \in rows : row.id = m4'
      BY <2>1, <2>2, SelectsOwn
  <2> HIDE DEF rows
  <2>4. \A f \in InvoicesPage!Filters : m2'[f] = IF f = m3 THEN rows ELSE m2[f]
      BY <1>0, <2>1
  <2>5. Read'
      BY <1>0, <2>1
  <2>6. HasNewest'
      BY <1>0, <2>2, <2>4 DEF InvoicesPage!IsNewest
  <2>7. InvoicesPage!ShownIsListed'
      BY <1>0, <2>1, <2>3, <2>4 DEF InvoicesPage!ShownIsListed, InvoicesPage!Listed,
                                    InvoicesPage!Shown
  <2> QED
      BY <1>0, <1>1, <2>1, <2>5, <2>6, <2>7
<1>5. ASSUME NEW f \in InvoicesPage!Filters, InvoicesPage!Follow(f)
      PROVE  InvoicesPage!ListsHaveNewest'
  <2>1. m1' = m1 /\ m2' = m2 /\ m7' = m7 /\ m3' = f
      BY <1>5 DEF InvoicesPage!Follow
  <2>2. CASE m2[f] \in {None, {}}
      BY <1>2, <2>1, <2>2 DEF InvoicesPage!ShownIsListed, InvoicesPage!Listed
  <2>3. CASE m2[f] \notin {None, {}}
    <3>1. m4' = InvoicesPage!AutoSelected(m2[f], f)
        BY <1>5, <2>3 DEF InvoicesPage!Follow
    <3>2. \E row \in m2[f] : row.id = m4'
        BY <1>0, <2>3, <3>1, SelectsOwn
    <3>3. InvoicesPage!ShownIsListed'
        BY <2>1, <2>3, <3>2 DEF InvoicesPage!ShownIsListed, InvoicesPage!Listed,
                                InvoicesPage!Shown
    <3> QED
        BY <1>2, <2>1, <3>3
  <2> QED
      BY <2>2, <2>3
<1>6. ASSUME NEW i, InvoicesPage!View(i)
      PROVE  InvoicesPage!ListsHaveNewest'
  <2>1. /\ i \in InvoicesPage!ListedIds /\ m4' = i
        /\ m1' = m1 /\ m2' = m2 /\ m3' = m3 /\ m7' = m7
      BY <1>6 DEF InvoicesPage!View
  <2>2. PICK row \in InvoicesPage!Listed : row.id = i
      BY <2>1 DEF InvoicesPage!ListedIds
  <2>3. InvoicesPage!ShownIsListed'
      BY <2>1, <2>2 DEF InvoicesPage!ShownIsListed, InvoicesPage!Listed,
                        InvoicesPage!Shown
  <2> QED
      BY <1>0, <1>2, <2>1, <2>3
<1>7. CASE InvoicesPage!cancel_invoice
  <2>1. m1' = [m1 EXCEPT ![m6].cancelled = TRUE] /\ UNCHANGED <<m2, m3, m4, m7>>
      BY <1>7 DEF InvoicesPage!cancel_invoice
  <2>2. m1' \in Seq(B)
    <3>1. CASE m6 \in 1..Len(m1)
      <4>1. m1[m6] \in B
          BY <1>0, <3>1, ElementOfSeq
      <4>2. [m1[m6] EXCEPT !.cancelled = TRUE] \in B
          BY <4>1
      <4>3. m1' = [m1 EXCEPT ![m6] = [m1[m6] EXCEPT !.cancelled = TRUE]]
          BY <2>1
      <4> QED
          BY <1>0, <3>1, <4>2, <4>3, ExceptSeq
    <3>2. CASE m6 \notin 1..Len(m1)
      <4>1. m1 = [i \in 1..Len(m1) |-> m1[i]]
          BY <1>0
      <4>2. m1' = m1
          BY <2>1, <3>2, <4>1
      <4> QED
          BY <1>0, <4>2
    <3> QED
        BY <3>1, <3>2
  <2> QED
      BY <1>0, <1>3, <2>1, <2>2
<1>8. ASSUME NEW b \in ListedBookings, NEW kept \in Seq(B), m7' \in Asked,
             m1' \in {kept, Append(kept, [booking |-> b, cancelled |-> FALSE])},
             UNCHANGED <<m2, m3, m4>>
      PROVE  InvoicesPage!ListsHaveNewest'
  <2>1. [booking |-> b, cancelled |-> FALSE] \in B
      OBVIOUS
  <2> HIDE DEF B
  <2>2. m1' \in Seq(B)
      BY <1>8, <2>1
  <2> QED
      BY <1>3, <1>8, <2>2
<1>9. CASE InvoicesPage!GenerateInserts
  <2>1. m7.booking \in ListedBookings /\ m7' = None
      BY <1>0, <1>9 DEF InvoicesPage!GenerateInserts
  <2>2. m1' = Append(m1, [booking |-> m7.booking, cancelled |-> FALSE])
          /\ UNCHANGED <<m2, m3, m4>>
      BY <1>9 DEF InvoicesPage!GenerateInserts
  <2> QED
      BY <1>0, <1>8, <2>1, <2>2
<1>10. ASSUME NEW b \in ListedBookings, InvoicesPage!OtherCheckOut(b)
       PROVE  InvoicesPage!ListsHaveNewest'
  <2> DEFINE keeping(stale) == [i \in DOMAIN m1 |->
               IF i = stale THEN [m1[i] EXCEPT !.cancelled = TRUE] ELSE m1[i]]
  <2>1. PICK stale : m1' \in {keeping(stale),
                      Append(keeping(stale), [booking |-> b, cancelled |-> FALSE])}
      BY <1>10 DEF InvoicesPage!OtherCheckOut
  <2>2. m7' = m7 /\ UNCHANGED <<m2, m3, m4>>
      BY <1>10 DEF InvoicesPage!OtherCheckOut
  <2>3. DOMAIN m1 = 1..Len(m1) /\ Len(m1) \in Nat
      BY <1>0
  <2>4. ASSUME NEW i \in 1..Len(m1)
        PROVE  keeping(stale)[i] \in B
    <3>1. m1[i] \in B
        BY <1>0, <2>4, ElementOfSeq
    <3>2. [m1[i] EXCEPT !.cancelled = TRUE] \in B
        BY <3>1
    <3> QED
        BY <2>3, <3>1, <3>2
  <2>5. keeping(stale) \in [1..Len(m1) -> B]
      BY <2>3, <2>4
  <2> HIDE DEF keeping, B
  <2>6. keeping(stale) \in Seq(B)
      BY <2>3, <2>5
  <2> QED
      BY <1>0, <1>8, <2>1, <2>2, <2>6
<1>11. CASE InvoicesPage!GenerateReads \/ \E b \in ListedBookings : InvoicesPage!Generate(b)
  <2>1. m7' \in Asked
    <3>1. CASE InvoicesPage!GenerateReads
      <4>1. m7 \in [booking : ListedBookings, free : BOOLEAN]
          BY <1>0, <3>1 DEF InvoicesPage!GenerateReads
      <4>2. m7' = None \/ m7' = [m7 EXCEPT !.free = TRUE]
          BY <3>1 DEF InvoicesPage!GenerateReads
      <4> QED
          BY <4>1, <4>2
    <3>2. CASE \E b \in ListedBookings : InvoicesPage!Generate(b)
        BY <3>2 DEF InvoicesPage!Generate
    <3> QED
        BY <1>11, <3>1, <3>2
  <2>2. UNCHANGED <<m1, m2, m3, m4>>
      BY <1>11 DEF InvoicesPage!GenerateReads, InvoicesPage!Generate
  <2> QED
      BY <1>0, <1>3, <2>1, <2>2
<1>12. CASE UNCHANGED <<m1, m2, m3, m4, m7>>
    BY <1>0, <1>3, <1>12
<1> QED
    BY <1>4, <1>5, <1>6, <1>7, <1>9, <1>10, <1>11, <1>12
    DEF InvoicesPage!Next, InvoicesPage!invoicesVars, InvoicesPage!AskCancel,
        InvoicesPage!ConfirmCancel, InvoicesPage!shareInvoiceWhatsApp,
        InvoicesPage!shareInvoiceNativeFile, InvoicesPage!PdfCame,
        InvoicesPage!TypeNumber, InvoicesPage!ClosePhone

\* The rows of a bill add up: the halves of its taxes are the tax, and the tax is in a
\* row of its own or in the other rows.
LEMMA HalvesOfTax ==
    ASSUME NEW line \in InvoicesPage!Lines
    PROVE  /\ line.taxable = 100 /\ line.tax \in {0, 1, 18}
           /\ InvoicesPage!Half(line.tax) \in {0, 1, 9}
           /\ InvoicesPage!Half(line.tax) = 0 <=> line.tax = 0
<1>1. line.taxable = 100 /\ line.tax \in {0, 1, 18}
    BY DEF InvoicesPage!Lines
<1>2. InvoicesPage!Half(0) = 0 /\ InvoicesPage!Half(1) = 1 /\ InvoicesPage!Half(18) = 9
    BY DEF InvoicesPage!Half
<1> QED
    BY <1>1, <1>2

LEMMA BillsAddUp == InvoicesPage!PrintedAddsUp
<1> SUFFICES ASSUME NEW bill \in InvoicesPage!Bills, NEW mode \in InvoicesPage!GstModes
             PROVE  LET inv == InvoicesPage!invoice(bill)
                        shown == InvoicesPage!SubtotalRow(inv, mode)
                                   + InvoicesPage!TaxRows(inv, mode) - bill.discount
                    IN  /\ InvoicesPage!LineRow(bill.first, inv, mode)
                             + InvoicesPage!LineRow(bill.second, inv, mode)
                             = InvoicesPage!SubtotalRow(inv, mode)
                        /\ shown = inv.total
                        /\ shown - InvoicesPage!PaidRow(inv, bill)
                             = InvoicesPage!LastRow(inv)
                                 + (IF inv.due > 0 THEN bill.deposit ELSE 0)
                        /\ InvoicesPage!PublicTotal(inv, bill) = inv.total
    BY DEF InvoicesPage!PrintedAddsUp
<1> DEFINE inv == InvoicesPage!invoice(bill)
           first == bill.first
           second == bill.second
           tax == first.tax + second.tax
           total == first.taxable + second.taxable + tax - bill.discount
           exGst == InvoicesPage!showExGst(inv, mode)
<1>1. /\ first \in InvoicesPage!Lines /\ second \in InvoicesPage!Lines
      /\ bill.discount \in Nat /\ bill.paid \in Nat /\ bill.deposit \in Nat
      /\ bill.interstate \in BOOLEAN
    BY DEF InvoicesPage!Bills
<1>2. /\ first.taxable = 100 /\ first.tax \in Nat /\ second.taxable = 100
      /\ second.tax \in Nat
      /\ InvoicesPage!Half(first.tax) \in Nat /\ InvoicesPage!Half(second.tax) \in Nat
      /\ InvoicesPage!Half(first.tax) = 0 <=> first.tax = 0
      /\ InvoicesPage!Half(second.tax) = 0 <=> second.tax = 0
    BY <1>1, HalvesOfTax
<1> DEFINE halves == InvoicesPage!Half(first.tax) + InvoicesPage!Half(second.tax)
           rest == total - bill.paid - bill.deposit
<1>3. /\ inv.subtotal = first.taxable + second.taxable /\ inv.total = total
      /\ inv.cgst = IF bill.interstate THEN 0 ELSE halves
      /\ inv.sgst = IF bill.interstate THEN 0 ELSE tax - inv.cgst
      /\ inv.igst = IF bill.interstate THEN tax ELSE 0
      /\ inv.due = IF rest > 0 THEN rest ELSE 0
    BY DEF InvoicesPage!invoice
<1> HIDE DEF inv, first, second
<1>4. /\ inv.cgst \in Nat /\ inv.sgst \in Int /\ inv.igst \in Nat
      /\ inv.cgst + inv.sgst + inv.igst = tax
      /\ inv.cgst = 0 /\ inv.igst = 0 => tax = 0
      /\ tax \in Nat /\ inv.subtotal = 200
    BY <1>1, <1>2, <1>3
<1>5. InvoicesPage!gstTotal(inv) = tax
    BY <1>4 DEF InvoicesPage!gstTotal
<1>6. InvoicesPage!TaxRows(inv, mode) = IF exGst THEN tax ELSE 0
    BY <1>4, <1>5 DEF InvoicesPage!TaxRows
<1>7. InvoicesPage!SubtotalRow(inv, mode) = IF exGst THEN 200 ELSE 200 + tax
    BY <1>4, <1>5 DEF InvoicesPage!SubtotalRow
<1>8. /\ InvoicesPage!LineRow(first, inv, mode) = IF exGst THEN 100 ELSE 100 + first.tax
      /\ InvoicesPage!LineRow(second, inv, mode) = IF exGst THEN 100 ELSE 100 + second.tax
    BY <1>2 DEF InvoicesPage!LineRow
<1> HIDE DEF exGst
<1>9. InvoicesPage!LineRow(first, inv, mode) + InvoicesPage!LineRow(second, inv, mode)
        = InvoicesPage!SubtotalRow(inv, mode)
    BY <1>2, <1>7, <1>8
<1> DEFINE shown == InvoicesPage!SubtotalRow(inv, mode)
                      + InvoicesPage!TaxRows(inv, mode) - bill.discount
<1>10. shown = inv.total /\ inv.total \in Int
    BY <1>1, <1>2, <1>3, <1>4, <1>6, <1>7
<1>11. shown - InvoicesPage!PaidRow(inv, bill)
         = InvoicesPage!LastRow(inv) + (IF inv.due > 0 THEN bill.deposit ELSE 0)
  <2>1. CASE inv.due > 0
    <3>1. inv.due = inv.total - bill.paid - bill.deposit
        BY <1>3, <2>1
    <3>2. /\ InvoicesPage!PaidRow(inv, bill) = bill.paid
          /\ InvoicesPage!LastRow(inv) = inv.due
        BY <2>1 DEF InvoicesPage!PaidRow, InvoicesPage!LastRow
    <3> HIDE DEF shown
    <3> QED
        BY <1>1, <1>10, <2>1, <3>1, <3>2
  <2>2. CASE ~(inv.due > 0)
    <3>1. /\ InvoicesPage!PaidRow(inv, bill) = 0
          /\ InvoicesPage!LastRow(inv) = inv.total
        BY <2>2 DEF InvoicesPage!PaidRow, InvoicesPage!LastRow
    <3> HIDE DEF shown
    <3> QED
        BY <1>10, <2>2, <3>1
  <2> QED
      BY <2>1, <2>2
<1>12. InvoicesPage!PublicTotal(inv, bill) = inv.total
    BY <1>1, <1>2, <1>3, <1>4, <1>5 DEF InvoicesPage!PublicTotal
<1> QED
    BY <1>9, <1>10, <1>11, <1>12 DEF inv, first, second

-----------------------------------------------------------------------------
(* The payments of a booking *)

SumOf(P, S) == MapThenSumSet(LAMBDA p : P[p].amount, S)

LEMMA HasSmallest ==
    ASSUME NEW T, T \subseteq Nat, T # {}
    PROVE  \E n \in T : \A m \in T : n <= m
<1>1. PICK n \in T : \A m \in T : ~(<<m, n>> \in OpToRel(<, Nat))
    BY NatLessThanWellFounded, WFMin, Zenon
<1>2. \A m \in T : ~(m < n)
    BY <1>1, Zenon DEF OpToRel
<1> QED
    BY <1>2

\* The sum is the value of a function of sets that takes out one member at a time.
Pick(s) == CHOOSE x \in s : TRUE
Value(P, s, g) == IF s = {} THEN 0 ELSE P[Pick(s)].amount + g[s \ {Pick(s)}]
Sums(P, S, g) == g = [s \in SUBSET S |-> Value(P, s, g)]

LEMMA SumDefined ==
    ASSUME NEW P, NEW S
    PROVE  SumOf(P, S) = (CHOOSE g : Sums(P, S, g))[S]
    BY DEF SumOf, MapThenSumSet, MapThenFoldSet, Sums, Value, Pick

LEMMA PickOne ==
    ASSUME NEW s, s # {}
    PROVE  Pick(s) \in s
    BY DEF Pick

\* There is such a function: some size from which on there is none would be smallest.
LEMMA SumsExist ==
    ASSUME NEW P, NEW S, IsFiniteSet(S)
    PROVE  \E g : Sums(P, S, g)
<1> DEFINE Upto(n, g) ==
             \A s \in SUBSET S : Cardinality(s) <= n => g[s] = Value(P, s, g)
           Bad == {n \in Nat : ~\E g : Upto(n, g)}
<1>1. \A s \in SUBSET S : /\ IsFiniteSet(s) /\ Cardinality(s) \in 0 .. Cardinality(S)
                          /\ Cardinality(s) = 0 => s = {}
    BY FS_Subset, FS_CardinalityType, FS_EmptySet
<1>2. ASSUME NEW n \in Nat, n = 0 \/ \E g : Upto(n - 1, g)
      PROVE  \E h : Upto(n, h)
  <2>1. CASE n = 0
    <3> DEFINE z == [s \in SUBSET S |-> 0]
    <3>1. Upto(n, z)
        BY <1>1, <2>1 DEF Value
    <3> QED
        BY <3>1
  <2>2. CASE n # 0
    <3>1. PICK g : Upto(n - 1, g)
        BY <1>2, <2>2
    <3> DEFINE h == [s \in SUBSET S |->
                       IF Cardinality(s) <= n - 1 THEN g[s] ELSE Value(P, s, g)]
    <3>2. ASSUME NEW s \in SUBSET S, Cardinality(s) <= n
          PROVE  h[s] = Value(P, s, h)
      <4>1. h[s] = Value(P, s, g)
          BY <3>1
      <4>2. CASE s = {}
          BY <4>1, <4>2 DEF Value
      <4>3. CASE s # {}
        <5> DEFINE r == s \ {Pick(s)}
        <5>1. r \in SUBSET S /\ Cardinality(r) = Cardinality(s) - 1
            BY <1>1, <4>3, PickOne, FS_RemoveElement
        <5>2. Cardinality(r) <= n - 1
            BY <1>1, <3>2, <5>1
        <5>3. h[r] = g[r]
            BY <5>1, <5>2
        <5> QED
            BY <4>1, <4>3, <5>3 DEF Value
      <4> QED
          BY <4>2, <4>3
    <3>3. Upto(n, h)
        BY <3>2
    <3> QED
        BY <3>3
  <2> QED
      BY <2>1, <2>2
<1>3. Bad = {}
  <2> SUFFICES ASSUME Bad # {} PROVE FALSE
      OBVIOUS
  <2>1. PICK n \in Bad : \A m \in Bad : n <= m
      BY HasSmallest
  <2>2. n \in Nat /\ (n # 0 => n - 1 \in Nat /\ n - 1 \notin Bad)
      BY <2>1
  <2> QED
      BY <1>2, <2>1, <2>2
<1>4. PICK g : Upto(Cardinality(S), g)
    BY <1>3, FS_CardinalityType
<1> DEFINE f == [s \in SUBSET S |-> g[s]]
<1>5. ASSUME NEW s \in SUBSET S PROVE g[s] = Value(P, s, f)
  <2>1. g[s] = Value(P, s, g)
      BY <1>1, <1>4
  <2>2. s \ {Pick(s)} \in SUBSET S
      OBVIOUS
  <2> QED
      BY <2>1, <2>2 DEF Value
<1>6. f = [s \in SUBSET S |-> Value(P, s, f)]
    BY <1>5
<1> QED
    BY <1>6 DEF Sums

\* There is one only, also where the members differ in what is not added up.
LEMMA SumsAgree ==
    ASSUME NEW P, NEW Q, NEW S, NEW T, NEW g, NEW h, IsFiniteSet(T),
           T \subseteq S, Sums(P, S, g), Sums(Q, T, h),
           \A x \in T : P[x].amount = Q[x].amount
    PROVE  g[T] = h[T]
<1> DEFINE Bad == {s \in FiniteSubsetsOf(T) : g[s] # h[s]}
<1>1. ASSUME Bad # {} PROVE FALSE
  <2>1. PICK s \in Bad : \A r \in Bad : ~(<<r, s>> \in StrictSubsetOrdering(T))
      BY <1>1, FS_StrictSubsetOrderingWellFounded, WFMin
  <2>2. s \subseteq T /\ IsFiniteSet(s)
      BY DEF FiniteSubsetsOf
  <2>3. g[s] = Value(P, s, g) /\ h[s] = Value(Q, s, h)
      BY <2>2 DEF Sums
  <2>4. s # {}
      BY <2>1, <2>3 DEF Value
  <2> DEFINE r == s \ {Pick(s)}
  <2>5. Pick(s) \in T /\ r \in FiniteSubsetsOf(T) /\ r # s
      BY <2>2, <2>4, PickOne, FS_RemoveElement DEF FiniteSubsetsOf
  <2>6. <<r, s>> \in StrictSubsetOrdering(T)
      BY <2>5 DEF StrictSubsetOrdering, FiniteSubsetsOf
  <2>7. g[r] = h[r]
      BY <2>1, <2>5, <2>6
  <2> QED
      BY <2>1, <2>3, <2>4, <2>5, <2>7 DEF Value
<1>2. T \in FiniteSubsetsOf(T)
    BY DEF FiniteSubsetsOf
<1> QED
    BY <1>1, <1>2

LEMMA SumOfSame ==
    ASSUME NEW P, NEW Q, NEW S, IsFiniteSet(S),
           \A x \in S : P[x].amount = Q[x].amount
    PROVE  SumOf(P, S) = SumOf(Q, S)
<1> DEFINE g == CHOOSE f : Sums(P, S, f)
           h == CHOOSE f : Sums(Q, S, f)
<1>1. Sums(P, S, g) /\ Sums(Q, S, h)
    BY SumsExist
<1>2. SumOf(P, S) = g[S] /\ SumOf(Q, S) = h[S]
    BY SumDefined
<1> HIDE DEF g, h
<1>3. g[S] = h[S]
    BY <1>1, SumsAgree
<1> QED
    BY <1>2, <1>3

LEMMA SumOfNone ==
    ASSUME NEW P
    PROVE  SumOf(P, {}) = 0
<1>1. Sums(P, {}, CHOOSE g : Sums(P, {}, g))
    BY SumsExist, FS_EmptySet
<1> QED
    BY <1>1, SumDefined DEF Sums, Value

LEMMA SumOfPick ==
    ASSUME NEW P, NEW S, IsFiniteSet(S), S # {}
    PROVE  SumOf(P, S) = P[Pick(S)].amount + SumOf(P, S \ {Pick(S)})
<1> DEFINE r == S \ {Pick(S)}
           g == CHOOSE f : Sums(P, S, f)
           h == CHOOSE f : Sums(P, r, f)
<1>1. IsFiniteSet(r)
    BY FS_RemoveElement
<1>2. Sums(P, S, g) /\ Sums(P, r, h)
    BY <1>1, SumsExist
<1>3. SumOf(P, S) = g[S] /\ SumOf(P, r) = h[r]
    BY SumDefined
<1>4. g[S] = P[Pick(S)].amount + g[r]
    BY <1>2 DEF Sums, Value
<1>5. r \subseteq S
    OBVIOUS
<1> HIDE DEF g, h, r
<1>6. g[r] = h[r]
    BY <1>1, <1>2, <1>5, SumsAgree
<1> QED
    BY <1>3, <1>4, <1>6 DEF r

Whole(P, S) == IsFiniteSet(S) /\ \A x \in S : P[x].amount \in Int

\* Whichever member is taken out first.
LEMMA SumOfMember ==
    ASSUME NEW P, NEW S, Whole(P, S), NEW x \in S
    PROVE  SumOf(P, S) \in Int /\ SumOf(P, S) = P[x].amount + SumOf(P, S \ {x})
<1>3. IsFiniteSet(S) /\ \A y \in S : P[y].amount \in Int
    BY DEF Whole
<1> DEFINE Good(s) == /\ SumOf(P, s) \in Int
                      /\ \A y \in s : SumOf(P, s) = P[y].amount + SumOf(P, s \ {y})
           Bad == {s \in FiniteSubsetsOf(S) : ~Good(s)}
<1>1. ASSUME Bad # {} PROVE FALSE
  <2>1. PICK s \in Bad : \A r \in Bad : ~(<<r, s>> \in StrictSubsetOrdering(S))
      BY <1>1, <1>3, FS_StrictSubsetOrderingWellFounded, WFMin
  <2>2. s \subseteq S /\ IsFiniteSet(s)
      BY DEF FiniteSubsetsOf
  <2>3. s # {}
      BY <2>1, SumOfNone
  <2> DEFINE x0 == Pick(s)
  <2>4. x0 \in s
      BY <2>3, PickOne
  <2>5. ASSUME NEW y \in s PROVE s \ {y} \in FiniteSubsetsOf(S) /\ Good(s \ {y})
    <3>1. s \ {y} \in FiniteSubsetsOf(S)
        BY <2>2, FS_RemoveElement DEF FiniteSubsetsOf
    <3>2. <<s \ {y}, s>> \in StrictSubsetOrdering(S)
        BY <3>1 DEF StrictSubsetOrdering, FiniteSubsetsOf
    <3> QED
        BY <2>1, <3>1, <3>2
  <2>6. SumOf(P, s) = P[x0].amount + SumOf(P, s \ {x0})
      BY <2>2, <2>3, SumOfPick
  <2>7. SumOf(P, s) \in Int
      BY <1>3, <2>2, <2>4, <2>5, <2>6
  <2>8. ASSUME NEW y \in s PROVE SumOf(P, s) = P[y].amount + SumOf(P, s \ {y})
    <3>1. CASE y = x0
        BY <2>6, <3>1
    <3>2. CASE y # x0
      <4>1. (s \ {x0}) \ {y} = (s \ {y}) \ {x0}
          OBVIOUS
      <4>2. SumOf(P, s \ {x0}) = P[y].amount + SumOf(P, (s \ {x0}) \ {y})
          BY <2>4, <2>5, <3>2
      <4>3. SumOf(P, s \ {y}) = P[x0].amount + SumOf(P, (s \ {y}) \ {x0})
          BY <2>4, <2>5, <3>2
      <4>4. SumOf(P, s \ {y}) \in Int /\ P[y].amount \in Int /\ P[x0].amount \in Int
          BY <1>3, <2>2, <2>4, <2>5
      <4>5. SumOf(P, (s \ {y}) \ {x0}) \in Int
        <5>1. x0 \in s \ {y} /\ s \ {y} \in FiniteSubsetsOf(S)
            BY <2>4, <2>5, <3>2
        <5>2. (s \ {y}) \ {x0} \in FiniteSubsetsOf(S)
            BY <5>1, FS_RemoveElement DEF FiniteSubsetsOf
        <5>3. <<(s \ {y}) \ {x0}, s>> \in StrictSubsetOrdering(S)
            BY <2>4, <5>2 DEF StrictSubsetOrdering, FiniteSubsetsOf
        <5> QED
            BY <2>1, <5>2, <5>3
      <4>6. /\ SumOf(P, s) = P[x0].amount + SumOf(P, s \ {x0})
            /\ SumOf(P, s \ {x0}) = P[y].amount + SumOf(P, (s \ {y}) \ {x0})
          BY <2>6, <4>1, <4>2
      <4> HIDE DEF x0
      <4> QED
          BY <4>3, <4>4, <4>5, <4>6
    <3> QED
        BY <3>1, <3>2
  <2> QED
      BY <2>1, <2>7, <2>8
<1>2. S \in FiniteSubsetsOf(S)
    BY <1>3 DEF FiniteSubsetsOf
<1> QED
    BY <1>1, <1>2
\* What the valid payments among the slots S come to.
Valid(P, S) == {p \in S : P[p] # None /\ P[p].status = "completed"}
Paid(P, S) == SumOf(P, Valid(P, S))
Payments(S) == [S -> PaymentsPage!Payment \union {None}]

LEMMA PaymentIs ==
    None \notin PaymentsPage!Payment /\ \A x \in PaymentsPage!Payment : x.amount \in Int
<1>1. \A x \in PaymentsPage!Payment : x.amount \in Amounts
    BY DEF PaymentsPage!Payment
<1>2. None \notin PaymentsPage!Payment
    BY PaymentsAssumption
<1>3. Amounts \subseteq Int
    BY PaymentsAssumption
<1> QED
    BY <1>1, <1>2, <1>3, Zenon

LEMMA ValidIs ==
    ASSUME NEW S, NEW P \in Payments(S), NEW x \in Valid(P, S)
    PROVE  x \in S /\ P[x] \in PaymentsPage!Payment /\ P[x].amount \in Int
    BY PaymentIs DEF Payments, Valid

\* A payment that is recorded adds its amount, one that is closed takes it away.
LEMMA PaidWhenRecorded ==
    ASSUME NEW S, IsFiniteSet(S), NEW P \in Payments(S), NEW q \in S, P[q] = None,
           NEW new \in PaymentsPage!Payment, new.status = "completed"
    PROVE  LET Q == [P EXCEPT ![q] = new]
           IN  /\ Q \in Payments(S)
               /\ Paid(P, S) \in Int /\ Paid(Q, S) = Paid(P, S) + new.amount
<1> DEFINE Q == [P EXCEPT ![q] = new]
           V == Valid(P, S)
           W == Valid(Q, S)
<1>1. new # None /\ new.amount \in Int
    BY PaymentIs
<1>2. Q \in Payments(S) /\ Q[q] = new /\ \A x \in S \ {q} : Q[x] = P[x]
    BY DEF Payments
<1>3. q \notin V /\ W = V \union {q} /\ W \ {q} = V
    BY <1>1, <1>2 DEF Valid
<1>4. IsFiniteSet(V) /\ IsFiniteSet(W)
    BY FS_Subset DEF Valid
<1>5. \A x \in V : P[x].amount \in Int /\ Q[x].amount = P[x].amount
  <2>1. \A x \in V : x \in S \ {q} /\ P[x].amount \in Int
      BY <1>3, ValidIs
  <2> QED
      BY <1>2, <2>1
<1>6. \A x \in W : Q[x].amount \in Int
    BY <1>1, <1>2, <1>3, <1>5
<1> HIDE DEF Q, V, W
<1>7. SumOf(P, V) = SumOf(Q, V)
    BY <1>4, <1>5, SumOfSame
<1>8. SumOf(Q, W) \in Int /\ SumOf(Q, W) = Q[q].amount + SumOf(Q, V)
    BY <1>3, <1>4, <1>6, SumOfMember DEF Whole
<1>9. SumOf(P, V) \in Int
  <2>1. CASE V = {}
      BY <2>1, SumOfNone
  <2>2. CASE V # {}
      BY <1>4, <1>5, <2>2, SumOfMember DEF Whole
  <2> QED
      BY <2>1, <2>2
<1> QED
    BY <1>1, <1>2, <1>7, <1>8, <1>9 DEF Paid, Q, V, W

LEMMA PaidWhenClosed ==
    ASSUME NEW S, IsFiniteSet(S), NEW P \in Payments(S), NEW p \in Valid(P, S)
    PROVE  LET Q == [P EXCEPT ![p].status = "corrected"]
           IN  /\ Q \in Payments(S)
               /\ Paid(P, S) \in Int /\ Paid(Q, S) = Paid(P, S) - P[p].amount
<1> DEFINE Q == [P EXCEPT ![p].status = "corrected"]
           V == Valid(P, S)
           W == Valid(Q, S)
<1>1. p \in S /\ P[p] \in PaymentsPage!Payment /\ P[p].amount \in Int
    BY ValidIs
<1>2. Q = [P EXCEPT ![p] = [P[p] EXCEPT !.status = "corrected"]]
    OBVIOUS
<1>3. [P[p] EXCEPT !.status = "corrected"] \in PaymentsPage!Payment
        /\ [P[p] EXCEPT !.status = "corrected"].status = "corrected"
    BY <1>1 DEF PaymentsPage!Payment
<1>4. Q \in Payments(S) /\ Q[p].status = "corrected" /\ \A x \in S \ {p} : Q[x] = P[x]
    BY <1>1, <1>2, <1>3 DEF Payments
<1>5. W = V \ {p} /\ p \in V
    BY <1>1, <1>4 DEF Valid
<1>6. IsFiniteSet(V) /\ IsFiniteSet(W)
    BY FS_Subset DEF Valid
<1>7. \A x \in V : P[x].amount \in Int
    BY ValidIs
<1>8. \A x \in W : Q[x].amount = P[x].amount /\ Q[x].amount \in Int
    BY <1>4, <1>5, <1>7 DEF Valid
<1> HIDE DEF Q, V, W
<1>9. SumOf(P, W) = SumOf(Q, W)
    BY <1>6, <1>8, SumOfSame
<1>10. SumOf(P, V) \in Int /\ SumOf(P, V) = P[p].amount + SumOf(P, W)
  <2>1. SumOf(P, V) \in Int /\ SumOf(P, V) = P[p].amount + SumOf(P, V \ {p})
    <3>1. Whole(P, V)
        BY <1>6, <1>7 DEF Whole
    <3>2. p \in V
        BY <1>5
    <3> QED
        BY <3>1, <3>2, SumOfMember
  <2> QED
      BY <1>5, <2>1
<1>11. SumOf(Q, W) \in Int
  <2>1. CASE W = {}
      BY <2>1, SumOfNone
  <2>2. CASE W # {}
      BY <1>6, <1>8, <2>2, SumOfMember DEF Whole
  <2> QED
      BY <2>1, <2>2
<1> QED
    BY <1>1, <1>4, <1>9, <1>10, <1>11 DEF Paid, Q, V, W

\* A correction does both.
Corrected(P, p, q, amount) ==
    [P EXCEPT ![p].status = "corrected", ![q] = [P[p] EXCEPT !.amount = amount]]

LEMMA PaidWhenCorrected ==
    ASSUME NEW S, IsFiniteSet(S), NEW P \in Payments(S), NEW p \in Valid(P, S),
           NEW q \in S, P[q] = None, NEW amount \in Amounts
    PROVE  LET Q == Corrected(P, p, q, amount)
           IN  /\ Q \in Payments(S)
               /\ Paid(P, S) \in Int
               /\ Paid(Q, S) = Paid(P, S) + (amount - P[p].amount)
<1> DEFINE closed == [P EXCEPT ![p].status = "corrected"]
           new == [P[p] EXCEPT !.amount = amount]
           Q == Corrected(P, p, q, amount)
<1>1. p \in S /\ p # q /\ P[p] \in PaymentsPage!Payment /\ P[p].amount \in Int
        /\ amount \in Int
  <2>1. p # q
      BY DEF Valid
  <2> QED
      BY <2>1, ValidIs, PaymentsAssumption
<1>2. new \in PaymentsPage!Payment /\ new.status = "completed" /\ new.amount = amount
    BY <1>1 DEF PaymentsPage!Payment, Valid
<1>3. /\ closed \in Payments(S) /\ Paid(P, S) \in Int
      /\ Paid(closed, S) = Paid(P, S) - P[p].amount
    BY PaidWhenClosed
<1>4. closed[q] = None
    BY <1>1 DEF Payments
<1>5. Q = [closed EXCEPT ![q] = new]
    BY DEF Corrected
<1> HIDE DEF closed, new, Q
<1>6. Q \in Payments(S) /\ Paid(closed, S) \in Int /\ Paid(Q, S) = Paid(closed, S) + amount
    BY <1>2, <1>3, <1>4, <1>5, PaidWhenRecorded
<1>7. Paid(Q, S) = Paid(P, S) + (amount - P[p].amount)
    BY <1>1, <1>3, <1>6
<1> QED
    BY <1>3, <1>6, <1>7 DEF Q, new

\* A refund takes its amount from what is held, unless the deposit is below zero.
LEMMA RefundTaken ==
    ASSUME NEW held \in Int, NEW deposit \in Int, NEW amount \in Nat,
           amount <= held + deposit
    PROVE  LET from == PaymentsPage!Smaller(held, amount)
               rest == PaymentsPage!Larger(deposit - (amount - from), 0)
           IN  /\ from \in Int /\ rest \in Int
               /\ (held - from) + rest >= (held + deposit) - amount
               /\ deposit >= 0 => (held - from) + rest = (held + deposit) - amount
    BY DEF PaymentsPage!Smaller, PaymentsPage!Larger

LEMMA PaymentsPageCollected == PaymentsPage!Collected = Paid(m1, Slots)
    BY DEF PaymentsPage!Collected, PaymentsPage!Completed, PaymentsPage!MapThenSumSet, PaymentsPage!MapThenFoldSet,
           Paid, Valid, SumOf, MapThenSumSet, MapThenFoldSet

LEMMA PaymentsPageFinite == Slots \subseteq Nat /\ IsFiniteSet(Slots)
    BY PaymentsAssumption, FS_Singleton

LEMMA PaymentsPageFree ==
    ASSUME PaymentsPage!FreeSlots # {}
    PROVE  PaymentsPage!NextSlot \in Slots /\ m1[PaymentsPage!NextSlot] = None
<1>1. PaymentsPage!FreeSlots \subseteq Nat
    BY PaymentsPageFinite DEF PaymentsPage!FreeSlots
<1>2. \E p \in PaymentsPage!FreeSlots : \A q \in PaymentsPage!FreeSlots : p <= q
    BY <1>1, HasSmallest
<1>3. PaymentsPage!NextSlot \in PaymentsPage!FreeSlots
    BY <1>2, Zenon DEF PaymentsPage!NextSlot
<1> QED
    BY <1>3 DEF PaymentsPage!FreeSlots

LEMMA PaymentsPageInit == PaymentsPage!Init => PaymentsPage!PaymentsKept
<1> SUFFICES ASSUME PaymentsPage!Init
             PROVE  PaymentsPage!PaymentsKept
    OBVIOUS
<1>1. /\ m1 = [p \in Slots |-> None] /\ m2 = 0 /\ m3 = 0
      /\ m4 = [sum |-> 0, count |-> 0, floored |-> FALSE]
      /\ m5 = None /\ m7 = None /\ m8 = None
    BY DEF PaymentsPage!Init
<1>2. PaymentsPage!Collected = 0
  <2>1. Valid(m1, Slots) = {}
      BY <1>1 DEF Valid
  <2> QED
      BY <2>1, PaymentsPageCollected, SumOfNone DEF Paid
<1> QED
    BY <1>1, <1>2 DEF PaymentsPage!PaymentsKept, PaymentsPage!MoneyAccounted

\* Each request moves the sums of the booking as it moves its payments.
LEMMA PaymentsPageDoes ==
    ASSUME PaymentsPage!PaymentsKept, NEW r, PaymentsPage!IsRequest(r), PaymentsPage!Does(r)
    PROVE  /\ m1' \in [Slots -> PaymentsPage!Payment \union {None}]
           /\ m2' \in Int /\ m3' \in Int
           /\ m4' \in [sum : Int, count : Int, floored : BOOLEAN]
           /\ PaymentsPage!MoneyAccounted'
<1> DEFINE paid == Paid(m1, Slots)
           Accounted(a, d, c, f) ==
             a + d >= c - f.sum /\ (~f.floored => a + d = c - f.sum)
<1>1. IsFiniteSet(Slots) /\ m1 \in Payments(Slots) /\ r.amount \in Amounts
        /\ r.amount \in Nat
    BY PaymentsPageFinite, PaymentsAssumption
    DEF PaymentsPage!PaymentsKept, PaymentsPage!IsRequest, Payments, PaymentsPage!Payment,
        PaymentsPage!Payment, PaymentsPage!Purposes, PaymentsPage!Purposes
<1>2. /\ m2 \in Int /\ m3 \in Int
      /\ m4 \in [sum : Int, count : Int, floored : BOOLEAN]
      /\ Accounted(m2, m3, paid, m4)
    BY PaymentsPageCollected DEF PaymentsPage!PaymentsKept, PaymentsPage!MoneyAccounted
<1>3. Payments(Slots) = [Slots -> PaymentsPage!Payment \union {None}]
    BY DEF Payments, PaymentsPage!Payment, PaymentsPage!Payment, PaymentsPage!Purposes,
           PaymentsPage!Purposes
<1>4. ASSUME m1' \in Payments(Slots), m2' \in Int, m3' \in Int,
             m4' \in [sum : Int, count : Int, floored : BOOLEAN],
             Accounted(m2', m3', Paid(m1', Slots), m4')
      PROVE  /\ m1' \in [Slots -> PaymentsPage!Payment \union {None}]
             /\ m2' \in Int /\ m3' \in Int
             /\ m4' \in [sum : Int, count : Int, floored : BOOLEAN]
             /\ PaymentsPage!MoneyAccounted'
  <2>1. (PaymentsPage!Collected = Paid(m1, Slots))'
      BY PaymentsPageCollected, PTL
  <2>2. PaymentsPage!MoneyAccounted'
      BY <1>4, <2>1 DEF PaymentsPage!MoneyAccounted
  <2> QED
      BY <1>3, <1>4, <2>2
<1>5. ASSUME NEW amount \in Int, NEW purpose \in {"stay", "deposit"},
             PaymentsPage!Add(amount, purpose), m4' = m4, paid \in Int,
             m1' \in Payments(Slots), Paid(m1', Slots) = paid + amount
      PROVE  /\ m2' \in Int /\ m3' \in Int /\ m4' = m4
             /\ Accounted(m2', m3', Paid(m1', Slots), m4')
  <2> HIDE DEF paid
  <2>1. m2' \in Int /\ m3' \in Int /\ m2' + m3' = (m2 + m3) + amount
      BY <1>2, <1>5 DEF PaymentsPage!Add
  <2>2. m4.sum \in Int /\ m2 + m3 >= paid - m4.sum
        /\ (~m4.floored => m2 + m3 = paid - m4.sum)
      BY <1>2
  <2>3. /\ m2' + m3' >= (paid + amount) - m4.sum
        /\ ~m4.floored => m2' + m3' = (paid + amount) - m4.sum
    <3> DEFINE exact == ~m4.floored
               back == m4.sum
               held == m2 + m3
               now == m2' + m3'
    <3>1. back \in Int /\ m2 + m3 >= paid - back /\ (exact => m2 + m3 = paid - back)
        BY <2>2
    <3>2. held \in Int /\ paid \in Int
        BY <1>2, <1>5
    <3>3. now = held + amount
        BY <2>1
    <3>4. held >= paid - back /\ (exact => held = paid - back)
        BY <3>1
    <3> HIDE DEF exact, back, held, now
    <3>5. now >= (paid + amount) - back
        BY <3>1, <3>2, <3>3, <3>4
    <3>6. ASSUME exact PROVE now = (paid + amount) - back
        BY <3>1, <3>2, <3>3, <3>4, <3>6
    <3> QED
        BY <3>5, <3>6 DEF exact, back, now
  <2> QED
      BY <1>5, <2>1, <2>3
<1>6. CASE r.kind = "collect"
  <2> DEFINE new == [amount |-> r.amount, purpose |-> r.purpose, status |-> "completed"]
  <2>1. PaymentsPage!collect_payment(r.amount, r.purpose) /\ r.purpose \in {"stay", "deposit"}
      BY <1>6 DEF PaymentsPage!Does, PaymentsPage!IsRequest, PaymentsPage!Purposes
  <2>2. /\ PaymentsPage!NextSlot \in Slots /\ m1[PaymentsPage!NextSlot] = None
        /\ m1' = [m1 EXCEPT ![PaymentsPage!NextSlot] = new]
        /\ PaymentsPage!Add(r.amount, r.purpose) /\ m4' = m4
      BY <2>1, PaymentsPageFree DEF PaymentsPage!collect_payment
  <2>3. new \in PaymentsPage!Payment /\ new.status = "completed" /\ new.amount = r.amount
      BY <1>1, <2>1 DEF PaymentsPage!Payment, PaymentsPage!Purposes
  <2> HIDE DEF new
  <2>4. m1' \in Payments(Slots) /\ paid \in Int /\ Paid(m1', Slots) = paid + r.amount
      BY <1>1, <2>2, <2>3, PaidWhenRecorded
  <2> HIDE DEF paid, Accounted
  <2>5. r.amount \in Int
      BY <1>1
  <2>6. /\ m2' \in Int /\ m3' \in Int /\ m4' = m4
        /\ Accounted(m2', m3', Paid(m1', Slots), m4')
      BY <1>5, <2>1, <2>2, <2>4, <2>5
  <2> QED
      BY <1>2, <1>4, <2>4, <2>6
<1>7. CASE r.kind = "correct"
  <2> DEFINE p == r.of
  <2>1. PaymentsPage!correct_payment(p, r.amount) /\ p \in Slots
      BY <1>7 DEF PaymentsPage!Does, PaymentsPage!IsRequest
  <2>2. p \in Valid(m1, Slots) /\ m1[p].purpose \in {"stay", "deposit"}
          /\ m1[p].amount \in Int
      BY <1>1, <2>1, PaymentsAssumption
      DEF PaymentsPage!correct_payment, PaymentsPage!Completed, Valid, Payments,
          PaymentsPage!Payment, PaymentsPage!Purposes
  <2>3. /\ PaymentsPage!NextSlot \in Slots /\ m1[PaymentsPage!NextSlot] = None
        /\ m1' = Corrected(m1, p, PaymentsPage!NextSlot, r.amount)
        /\ PaymentsPage!Add(r.amount - m1[p].amount, m1[p].purpose) /\ m4' = m4
      BY <2>1, PaymentsPageFree DEF PaymentsPage!correct_payment, Corrected
  <2> HIDE DEF p
  <2>4. /\ m1' \in Payments(Slots) /\ paid \in Int
        /\ Paid(m1', Slots) = paid + (r.amount - m1[p].amount)
      BY <1>1, <2>2, <2>3, PaidWhenCorrected
  <2>5. r.amount - m1[p].amount \in Int
      BY <1>1, <2>2
  <2> HIDE DEF paid, Accounted
  <2> QED
      BY <1>2, <1>4, <1>5, <2>2, <2>3, <2>4, <2>5
<1>8. CASE r.kind = "refund"
  <2> DEFINE from == PaymentsPage!Smaller(m2, r.amount)
             rest == PaymentsPage!Larger(m3 - (r.amount - from), 0)
  <2>1. PaymentsPage!refund_payment(r.amount)
      BY <1>8 DEF PaymentsPage!Does
  <2>2. /\ r.amount <= m2 + m3 /\ m1' = m1
        /\ m2' = m2 - from /\ m3' = rest
        /\ m4' = [sum |-> m4.sum + r.amount, count |-> m4.count + 1,
                  floored |-> m4.floored \/ m3 < 0]
      BY <2>1 DEF PaymentsPage!refund_payment, PaymentsPage!Refunded
  <2>3. /\ from \in Int /\ rest \in Int
        /\ (m2 - from) + rest >= (m2 + m3) - r.amount
        /\ m3 >= 0 => (m2 - from) + rest = (m2 + m3) - r.amount
      BY <1>1, <1>2, <2>2, RefundTaken
      DEF PaymentsPage!Smaller, PaymentsPage!Larger, PaymentsPage!Smaller, PaymentsPage!Larger
  <2> HIDE DEF from, rest
  <2>4. m4' \in [sum : Int, count : Int, floored : BOOLEAN]
      BY <1>1, <1>2, <2>2
  <2>5. paid \in Int
    <3>1. CASE Valid(m1, Slots) = {}
        BY <3>1, SumOfNone DEF Paid
    <3>2. CASE Valid(m1, Slots) # {}
      <4>1. PICK p \in Valid(m1, Slots) : TRUE
          BY <3>2
      <4> QED
          BY <1>1, <4>1, PaidWhenClosed
    <3> QED
        BY <3>1, <3>2
  <2>6. Accounted(m2', m3', paid, m4')
    <3> HIDE DEF paid
    <3>1. m4.sum \in Int /\ m4.floored \in BOOLEAN /\ m4'.sum = m4.sum + r.amount
            /\ (m4'.floored <=> m4.floored \/ m3 < 0)
        BY <1>2, <2>2
    <3> QED
        BY <1>1, <1>2, <2>2, <2>3, <2>5, <3>1
  <2>7. Paid(m1', Slots) = paid
      BY <2>2
  <2> HIDE DEF paid, Accounted
  <2> QED
      BY <1>1, <1>2, <1>4, <2>2, <2>3, <2>4, <2>6, <2>7
<1> QED
    BY <1>6, <1>7, <1>8 DEF PaymentsPage!IsRequest

LEMMA PaymentsPageNext ==
    PaymentsPage!PaymentsKept /\ [PaymentsPage!Next]_PaymentsPage!vars => PaymentsPage!PaymentsKept'
<1> DEFINE Lists == [Slots -> PaymentsPage!Payment \union {None}]
<1> SUFFICES ASSUME PaymentsPage!PaymentsKept, [PaymentsPage!Next]_PaymentsPage!vars
             PROVE  PaymentsPage!PaymentsKept'
    OBVIOUS
<1>1. /\ m1 \in Lists /\ (m5 # None => m5 \in Lists)
      /\ m7 # None => PaymentsPage!IsRequest(m7)
      /\ m8 # None => PaymentsPage!IsRequest(m8.request)
    BY DEF PaymentsPage!PaymentsKept
<1>2. ASSUME UNCHANGED PaymentsPage!bookVars, m5' # None => m5' \in Lists,
             m7' # None => PaymentsPage!IsRequest(m7'),
             m8' # None => PaymentsPage!IsRequest(m8'.request)
      PROVE  PaymentsPage!PaymentsKept'
  <2>1. PaymentsPage!MoneyAccounted'
    <3>1. (PaymentsPage!Collected = Paid(m1, Slots))'
        BY PaymentsPageCollected, PTL
    <3>2. PaymentsPage!Collected' = PaymentsPage!Collected /\ UNCHANGED <<m1, m2, m3, m4>>
        BY <1>2, <3>1, PaymentsPageCollected DEF PaymentsPage!bookVars
    <3> QED
        BY <3>2 DEF PaymentsPage!PaymentsKept, PaymentsPage!MoneyAccounted
  <2> QED
      BY <1>2, <2>1 DEF PaymentsPage!PaymentsKept, PaymentsPage!bookVars, PaymentsPage!IsRequest
<1>3. ASSUME NEW r, PaymentsPage!IsRequest(r), PaymentsPage!Does(r), UNCHANGED <<m5, m7>>,
             m8' # None => PaymentsPage!IsRequest(m8'.request)
      PROVE  PaymentsPage!PaymentsKept'
  <2>1. /\ m1' \in Lists /\ m2' \in Int /\ m3' \in Int
        /\ m4' \in [sum : Int, count : Int, floored : BOOLEAN]
        /\ PaymentsPage!MoneyAccounted'
      BY <1>3, PaymentsPageDoes
  <2> QED
      BY <1>1, <1>3, <2>1 DEF PaymentsPage!PaymentsKept, PaymentsPage!IsRequest
<1>4. ASSUME NEW p \in Slots, PaymentsPage!OpenCorrect(p) \/ PaymentsPage!OpenRefund(p)
      PROVE  PaymentsPage!PaymentsKept'
  <2>1. m5 # None /\ m5[p] # None /\ UNCHANGED <<m1, m2, m3, m4, m5, m8>>
      BY <1>4 DEF PaymentsPage!OpenCorrect, PaymentsPage!OpenRefund, PaymentsPage!bookVars
  <2>2. m5[p].amount \in Amounts
      BY <1>1, <2>1 DEF PaymentsPage!Payment
  <2>3. PaymentsPage!IsRequest(m7')
      BY <1>4, <2>2 DEF PaymentsPage!OpenCorrect, PaymentsPage!OpenRefund, PaymentsPage!IsRequest
  <2> QED
      BY <1>1, <1>2, <2>1, <2>3 DEF PaymentsPage!bookVars
<1>5. ASSUME NEW u \in PaymentsPage!Purposes, PaymentsPage!OpenCollect(u)
      PROVE  PaymentsPage!PaymentsKept'
  <2>1. PaymentsPage!IsRequest(m7') /\ UNCHANGED <<m1, m2, m3, m4, m5, m8>>
      BY <1>5 DEF PaymentsPage!OpenCollect, PaymentsPage!IsRequest, PaymentsPage!bookVars
  <2> QED
      BY <1>1, <1>2, <2>1 DEF PaymentsPage!bookVars
<1>6. CASE PaymentsPage!Submit
  <2>1. m7 # None /\ m8' = [request |-> m7, done |-> FALSE]
          /\ UNCHANGED <<m1, m2, m3, m4, m5, m7>>
      BY <1>6 DEF PaymentsPage!Submit, PaymentsPage!bookVars
  <2> QED
      BY <1>1, <1>2, <2>1 DEF PaymentsPage!bookVars
<1>7. CASE PaymentsPage!Work
  <2>1. /\ m8 # None /\ PaymentsPage!Does(m8.request) /\ UNCHANGED <<m5, m7>>
        /\ m8' = [m8 EXCEPT !.done = TRUE]
      BY <1>7 DEF PaymentsPage!Work
  <2>2. m8'.request = m8.request
      BY <2>1
  <2> QED
      BY <1>1, <1>3, <2>1, <2>2
<1>8. ASSUME NEW k \in {"collect", "correct", "refund"}, NEW p \in Slots,
             NEW a \in Amounts, PaymentsPage!OtherDesk(k, p, a)
      PROVE  PaymentsPage!PaymentsKept'
  <2> DEFINE r == [kind |-> k, of |-> p, purpose |-> "stay", amount |-> a]
  <2>1. PaymentsPage!IsRequest(r)
      BY DEF PaymentsPage!IsRequest, PaymentsPage!Purposes
  <2>2. PaymentsPage!Does(r) /\ UNCHANGED <<m5, m7, m8>>
      BY <1>8 DEF PaymentsPage!OtherDesk, PaymentsPage!deskVars
  <2> HIDE DEF r
  <2> QED
      BY <1>1, <1>3, <2>1, <2>2
<1>9. CASE UNCHANGED PaymentsPage!bookVars /\ m5' \in {m1, m5, None} /\ m7' \in {m7, None}
             /\ m8' \in {m8, None}
    BY <1>1, <1>2, <1>9
<1> QED
    BY <1>4, <1>5, <1>6, <1>7, <1>8, <1>9
    DEF PaymentsPage!Next, PaymentsPage!vars, PaymentsPage!bookVars, PaymentsPage!deskVars, PaymentsPage!historyVars,
        PaymentsPage!SelectBooking, PaymentsPage!clearBookingFilter, PaymentsPage!ReadPayments,
        PaymentsPage!CloseDialog, PaymentsPage!Succeeded, PaymentsPage!Failed, PaymentsPage!EditDraft,
        PaymentsPage!applyFilters, PaymentsPage!clearFilters, PaymentsPage!TurnPage

\* The same of the second instance, in which another desk is busy.
LEMMA PaymentsSearchCollected == PaymentsSearch!Collected = Paid(m1, {1})
    BY DEF PaymentsSearch!Collected, PaymentsSearch!Completed, PaymentsSearch!MapThenSumSet, PaymentsSearch!MapThenFoldSet,
           Paid, Valid, SumOf, MapThenSumSet, MapThenFoldSet

LEMMA PaymentsSearchFinite == {1} \subseteq Nat /\ IsFiniteSet({1})
    BY PaymentsAssumption, FS_Singleton

LEMMA PaymentsSearchFree ==
    ASSUME PaymentsSearch!FreeSlots # {}
    PROVE  PaymentsSearch!NextSlot \in {1} /\ m1[PaymentsSearch!NextSlot] = None
<1>1. PaymentsSearch!FreeSlots \subseteq Nat
    BY PaymentsSearchFinite DEF PaymentsSearch!FreeSlots
<1>2. \E p \in PaymentsSearch!FreeSlots : \A q \in PaymentsSearch!FreeSlots : p <= q
    BY <1>1, HasSmallest
<1>3. PaymentsSearch!NextSlot \in PaymentsSearch!FreeSlots
    BY <1>2, Zenon DEF PaymentsSearch!NextSlot
<1> QED
    BY <1>3 DEF PaymentsSearch!FreeSlots

LEMMA PaymentsSearchInit == PaymentsSearch!Init => PaymentsSearch!PaymentsKept
<1> SUFFICES ASSUME PaymentsSearch!Init
             PROVE  PaymentsSearch!PaymentsKept
    OBVIOUS
<1>1. /\ m1 = [p \in {1} |-> None] /\ m2 = 0 /\ m3 = 0
      /\ m4 = [sum |-> 0, count |-> 0, floored |-> FALSE]
      /\ m5 = None /\ m7 = None /\ m8 = None
    BY DEF PaymentsSearch!Init
<1>2. PaymentsSearch!Collected = 0
  <2>1. Valid(m1, {1}) = {}
      BY <1>1 DEF Valid
  <2> QED
      BY <2>1, PaymentsSearchCollected, SumOfNone DEF Paid
<1> QED
    BY <1>1, <1>2 DEF PaymentsSearch!PaymentsKept, PaymentsSearch!MoneyAccounted

\* Each request moves the sums of the booking as it moves its payments.
LEMMA PaymentsSearchDoes ==
    ASSUME PaymentsSearch!PaymentsKept, NEW r, PaymentsSearch!IsRequest(r), PaymentsSearch!Does(r)
    PROVE  /\ m1' \in [{1} -> PaymentsSearch!Payment \union {None}]
           /\ m2' \in Int /\ m3' \in Int
           /\ m4' \in [sum : Int, count : Int, floored : BOOLEAN]
           /\ PaymentsSearch!MoneyAccounted'
<1> DEFINE paid == Paid(m1, {1})
           Accounted(a, d, c, f) ==
             a + d >= c - f.sum /\ (~f.floored => a + d = c - f.sum)
<1>1. IsFiniteSet({1}) /\ m1 \in Payments({1}) /\ r.amount \in Amounts
        /\ r.amount \in Nat
    BY PaymentsSearchFinite, PaymentsAssumption
    DEF PaymentsSearch!PaymentsKept, PaymentsSearch!IsRequest, Payments, PaymentsSearch!Payment,
        PaymentsPage!Payment, PaymentsSearch!Purposes, PaymentsPage!Purposes
<1>2. /\ m2 \in Int /\ m3 \in Int
      /\ m4 \in [sum : Int, count : Int, floored : BOOLEAN]
      /\ Accounted(m2, m3, paid, m4)
    BY PaymentsSearchCollected DEF PaymentsSearch!PaymentsKept, PaymentsSearch!MoneyAccounted
<1>3. Payments({1}) = [{1} -> PaymentsSearch!Payment \union {None}]
    BY DEF Payments, PaymentsSearch!Payment, PaymentsPage!Payment, PaymentsSearch!Purposes,
           PaymentsPage!Purposes
<1>4. ASSUME m1' \in Payments({1}), m2' \in Int, m3' \in Int,
             m4' \in [sum : Int, count : Int, floored : BOOLEAN],
             Accounted(m2', m3', Paid(m1', {1}), m4')
      PROVE  /\ m1' \in [{1} -> PaymentsSearch!Payment \union {None}]
             /\ m2' \in Int /\ m3' \in Int
             /\ m4' \in [sum : Int, count : Int, floored : BOOLEAN]
             /\ PaymentsSearch!MoneyAccounted'
  <2>1. (PaymentsSearch!Collected = Paid(m1, {1}))'
      BY PaymentsSearchCollected, PTL
  <2>2. PaymentsSearch!MoneyAccounted'
      BY <1>4, <2>1 DEF PaymentsSearch!MoneyAccounted
  <2> QED
      BY <1>3, <1>4, <2>2
<1>5. ASSUME NEW amount \in Int, NEW purpose \in {"stay", "deposit"},
             PaymentsSearch!Add(amount, purpose), m4' = m4, paid \in Int,
             m1' \in Payments({1}), Paid(m1', {1}) = paid + amount
      PROVE  /\ m2' \in Int /\ m3' \in Int /\ m4' = m4
             /\ Accounted(m2', m3', Paid(m1', {1}), m4')
  <2> HIDE DEF paid
  <2>1. m2' \in Int /\ m3' \in Int /\ m2' + m3' = (m2 + m3) + amount
      BY <1>2, <1>5 DEF PaymentsSearch!Add
  <2>2. m4.sum \in Int /\ m2 + m3 >= paid - m4.sum
        /\ (~m4.floored => m2 + m3 = paid - m4.sum)
      BY <1>2
  <2>3. /\ m2' + m3' >= (paid + amount) - m4.sum
        /\ ~m4.floored => m2' + m3' = (paid + amount) - m4.sum
    <3> DEFINE exact == ~m4.floored
               back == m4.sum
               held == m2 + m3
               now == m2' + m3'
    <3>1. back \in Int /\ m2 + m3 >= paid - back /\ (exact => m2 + m3 = paid - back)
        BY <2>2
    <3>2. held \in Int /\ paid \in Int
        BY <1>2, <1>5
    <3>3. now = held + amount
        BY <2>1
    <3>4. held >= paid - back /\ (exact => held = paid - back)
        BY <3>1
    <3> HIDE DEF exact, back, held, now
    <3>5. now >= (paid + amount) - back
        BY <3>1, <3>2, <3>3, <3>4
    <3>6. ASSUME exact PROVE now = (paid + amount) - back
        BY <3>1, <3>2, <3>3, <3>4, <3>6
    <3> QED
        BY <3>5, <3>6 DEF exact, back, now
  <2> QED
      BY <1>5, <2>1, <2>3
<1>6. CASE r.kind = "collect"
  <2> DEFINE new == [amount |-> r.amount, purpose |-> r.purpose, status |-> "completed"]
  <2>1. PaymentsSearch!collect_payment(r.amount, r.purpose) /\ r.purpose \in {"stay", "deposit"}
      BY <1>6 DEF PaymentsSearch!Does, PaymentsSearch!IsRequest, PaymentsSearch!Purposes
  <2>2. /\ PaymentsSearch!NextSlot \in {1} /\ m1[PaymentsSearch!NextSlot] = None
        /\ m1' = [m1 EXCEPT ![PaymentsSearch!NextSlot] = new]
        /\ PaymentsSearch!Add(r.amount, r.purpose) /\ m4' = m4
      BY <2>1, PaymentsSearchFree DEF PaymentsSearch!collect_payment
  <2>3. new \in PaymentsPage!Payment /\ new.status = "completed" /\ new.amount = r.amount
      BY <1>1, <2>1 DEF PaymentsPage!Payment, PaymentsPage!Purposes
  <2> HIDE DEF new
  <2>4. m1' \in Payments({1}) /\ paid \in Int /\ Paid(m1', {1}) = paid + r.amount
      BY <1>1, <2>2, <2>3, PaidWhenRecorded
  <2> HIDE DEF paid, Accounted
  <2>5. r.amount \in Int
      BY <1>1
  <2>6. /\ m2' \in Int /\ m3' \in Int /\ m4' = m4
        /\ Accounted(m2', m3', Paid(m1', {1}), m4')
      BY <1>5, <2>1, <2>2, <2>4, <2>5
  <2> QED
      BY <1>2, <1>4, <2>4, <2>6
<1>7. CASE r.kind = "correct"
  <2> DEFINE p == r.of
  <2>1. PaymentsSearch!correct_payment(p, r.amount) /\ p \in {1}
      BY <1>7 DEF PaymentsSearch!Does, PaymentsSearch!IsRequest
  <2>2. p \in Valid(m1, {1}) /\ m1[p].purpose \in {"stay", "deposit"}
          /\ m1[p].amount \in Int
      BY <1>1, <2>1, PaymentsAssumption
      DEF PaymentsSearch!correct_payment, PaymentsSearch!Completed, Valid, Payments,
          PaymentsPage!Payment, PaymentsPage!Purposes
  <2>3. /\ PaymentsSearch!NextSlot \in {1} /\ m1[PaymentsSearch!NextSlot] = None
        /\ m1' = Corrected(m1, p, PaymentsSearch!NextSlot, r.amount)
        /\ PaymentsSearch!Add(r.amount - m1[p].amount, m1[p].purpose) /\ m4' = m4
      BY <2>1, PaymentsSearchFree DEF PaymentsSearch!correct_payment, Corrected
  <2> HIDE DEF p
  <2>4. /\ m1' \in Payments({1}) /\ paid \in Int
        /\ Paid(m1', {1}) = paid + (r.amount - m1[p].amount)
      BY <1>1, <2>2, <2>3, PaidWhenCorrected
  <2>5. r.amount - m1[p].amount \in Int
      BY <1>1, <2>2
  <2> HIDE DEF paid, Accounted
  <2> QED
      BY <1>2, <1>4, <1>5, <2>2, <2>3, <2>4, <2>5
<1>8. CASE r.kind = "refund"
  <2> DEFINE from == PaymentsSearch!Smaller(m2, r.amount)
             rest == PaymentsSearch!Larger(m3 - (r.amount - from), 0)
  <2>1. PaymentsSearch!refund_payment(r.amount)
      BY <1>8 DEF PaymentsSearch!Does
  <2>2. /\ r.amount <= m2 + m3 /\ m1' = m1
        /\ m2' = m2 - from /\ m3' = rest
        /\ m4' = [sum |-> m4.sum + r.amount, count |-> m4.count + 1,
                  floored |-> m4.floored \/ m3 < 0]
      BY <2>1 DEF PaymentsSearch!refund_payment, PaymentsSearch!Refunded
  <2>3. /\ from \in Int /\ rest \in Int
        /\ (m2 - from) + rest >= (m2 + m3) - r.amount
        /\ m3 >= 0 => (m2 - from) + rest = (m2 + m3) - r.amount
      BY <1>1, <1>2, <2>2, RefundTaken
      DEF PaymentsSearch!Smaller, PaymentsSearch!Larger, PaymentsPage!Smaller, PaymentsPage!Larger
  <2> HIDE DEF from, rest
  <2>4. m4' \in [sum : Int, count : Int, floored : BOOLEAN]
      BY <1>1, <1>2, <2>2
  <2>5. paid \in Int
    <3>1. CASE Valid(m1, {1}) = {}
        BY <3>1, SumOfNone DEF Paid
    <3>2. CASE Valid(m1, {1}) # {}
      <4>1. PICK p \in Valid(m1, {1}) : TRUE
          BY <3>2
      <4> QED
          BY <1>1, <4>1, PaidWhenClosed
    <3> QED
        BY <3>1, <3>2
  <2>6. Accounted(m2', m3', paid, m4')
    <3> HIDE DEF paid
    <3>1. m4.sum \in Int /\ m4.floored \in BOOLEAN /\ m4'.sum = m4.sum + r.amount
            /\ (m4'.floored <=> m4.floored \/ m3 < 0)
        BY <1>2, <2>2
    <3> QED
        BY <1>1, <1>2, <2>2, <2>3, <2>5, <3>1
  <2>7. Paid(m1', {1}) = paid
      BY <2>2
  <2> HIDE DEF paid, Accounted
  <2> QED
      BY <1>1, <1>2, <1>4, <2>2, <2>3, <2>4, <2>6, <2>7
<1> QED
    BY <1>6, <1>7, <1>8 DEF PaymentsSearch!IsRequest

LEMMA PaymentsSearchNext ==
    PaymentsSearch!PaymentsKept /\ [PaymentsSearch!Next]_PaymentsSearch!vars => PaymentsSearch!PaymentsKept'
<1> DEFINE Lists == [{1} -> PaymentsSearch!Payment \union {None}]
<1> SUFFICES ASSUME PaymentsSearch!PaymentsKept, [PaymentsSearch!Next]_PaymentsSearch!vars
             PROVE  PaymentsSearch!PaymentsKept'
    OBVIOUS
<1>1. /\ m1 \in Lists /\ (m5 # None => m5 \in Lists)
      /\ m7 # None => PaymentsSearch!IsRequest(m7)
      /\ m8 # None => PaymentsSearch!IsRequest(m8.request)
    BY DEF PaymentsSearch!PaymentsKept
<1>2. ASSUME UNCHANGED PaymentsSearch!bookVars, m5' # None => m5' \in Lists,
             m7' # None => PaymentsSearch!IsRequest(m7'),
             m8' # None => PaymentsSearch!IsRequest(m8'.request)
      PROVE  PaymentsSearch!PaymentsKept'
  <2>1. PaymentsSearch!MoneyAccounted'
    <3>1. (PaymentsSearch!Collected = Paid(m1, {1}))'
        BY PaymentsSearchCollected, PTL
    <3>2. PaymentsSearch!Collected' = PaymentsSearch!Collected /\ UNCHANGED <<m1, m2, m3, m4>>
        BY <1>2, <3>1, PaymentsSearchCollected DEF PaymentsSearch!bookVars
    <3> QED
        BY <3>2 DEF PaymentsSearch!PaymentsKept, PaymentsSearch!MoneyAccounted
  <2> QED
      BY <1>2, <2>1 DEF PaymentsSearch!PaymentsKept, PaymentsSearch!bookVars, PaymentsSearch!IsRequest
<1>3. ASSUME NEW r, PaymentsSearch!IsRequest(r), PaymentsSearch!Does(r), UNCHANGED <<m5, m7>>,
             m8' # None => PaymentsSearch!IsRequest(m8'.request)
      PROVE  PaymentsSearch!PaymentsKept'
  <2>1. /\ m1' \in Lists /\ m2' \in Int /\ m3' \in Int
        /\ m4' \in [sum : Int, count : Int, floored : BOOLEAN]
        /\ PaymentsSearch!MoneyAccounted'
      BY <1>3, PaymentsSearchDoes
  <2> QED
      BY <1>1, <1>3, <2>1 DEF PaymentsSearch!PaymentsKept, PaymentsSearch!IsRequest
<1>4. ASSUME NEW p \in {1}, PaymentsSearch!OpenCorrect(p) \/ PaymentsSearch!OpenRefund(p)
      PROVE  PaymentsSearch!PaymentsKept'
  <2>1. m5 # None /\ m5[p] # None /\ UNCHANGED <<m1, m2, m3, m4, m5, m8>>
      BY <1>4 DEF PaymentsSearch!OpenCorrect, PaymentsSearch!OpenRefund, PaymentsSearch!bookVars
  <2>2. m5[p].amount \in Amounts
      BY <1>1, <2>1 DEF PaymentsSearch!Payment
  <2>3. PaymentsSearch!IsRequest(m7')
      BY <1>4, <2>2 DEF PaymentsSearch!OpenCorrect, PaymentsSearch!OpenRefund, PaymentsSearch!IsRequest
  <2> QED
      BY <1>1, <1>2, <2>1, <2>3 DEF PaymentsSearch!bookVars
<1>5. ASSUME NEW u \in PaymentsSearch!Purposes, PaymentsSearch!OpenCollect(u)
      PROVE  PaymentsSearch!PaymentsKept'
  <2>1. PaymentsSearch!IsRequest(m7') /\ UNCHANGED <<m1, m2, m3, m4, m5, m8>>
      BY <1>5 DEF PaymentsSearch!OpenCollect, PaymentsSearch!IsRequest, PaymentsSearch!bookVars
  <2> QED
      BY <1>1, <1>2, <2>1 DEF PaymentsSearch!bookVars
<1>6. CASE PaymentsSearch!Submit
  <2>1. m7 # None /\ m8' = [request |-> m7, done |-> FALSE]
          /\ UNCHANGED <<m1, m2, m3, m4, m5, m7>>
      BY <1>6 DEF PaymentsSearch!Submit, PaymentsSearch!bookVars
  <2> QED
      BY <1>1, <1>2, <2>1 DEF PaymentsSearch!bookVars
<1>7. CASE PaymentsSearch!Work
  <2>1. /\ m8 # None /\ PaymentsSearch!Does(m8.request) /\ UNCHANGED <<m5, m7>>
        /\ m8' = [m8 EXCEPT !.done = TRUE]
      BY <1>7 DEF PaymentsSearch!Work
  <2>2. m8'.request = m8.request
      BY <2>1
  <2> QED
      BY <1>1, <1>3, <2>1, <2>2
<1>8. ASSUME NEW k \in {"collect", "correct", "refund"}, NEW p \in {1},
             NEW a \in Amounts, PaymentsSearch!OtherDesk(k, p, a)
      PROVE  PaymentsSearch!PaymentsKept'
  <2> DEFINE r == [kind |-> k, of |-> p, purpose |-> "stay", amount |-> a]
  <2>1. PaymentsSearch!IsRequest(r)
      BY DEF PaymentsSearch!IsRequest, PaymentsSearch!Purposes
  <2>2. PaymentsSearch!Does(r) /\ UNCHANGED <<m5, m7, m8>>
      BY <1>8 DEF PaymentsSearch!OtherDesk, PaymentsSearch!deskVars
  <2> HIDE DEF r
  <2> QED
      BY <1>1, <1>3, <2>1, <2>2
<1>9. CASE UNCHANGED PaymentsSearch!bookVars /\ m5' \in {m1, m5, None} /\ m7' \in {m7, None}
             /\ m8' \in {m8, None}
    BY <1>1, <1>2, <1>9
<1> QED
    BY <1>4, <1>5, <1>6, <1>7, <1>8, <1>9
    DEF PaymentsSearch!Next, PaymentsSearch!vars, PaymentsSearch!bookVars, PaymentsSearch!deskVars, PaymentsSearch!historyVars,
        PaymentsSearch!SelectBooking, PaymentsSearch!clearBookingFilter, PaymentsSearch!ReadPayments,
        PaymentsSearch!CloseDialog, PaymentsSearch!Succeeded, PaymentsSearch!Failed, PaymentsSearch!EditDraft,
        PaymentsSearch!applyFilters, PaymentsSearch!clearFilters, PaymentsSearch!TurnPage

-----------------------------------------------------------------------------
(* The menus: every link opens a page that admits whoever sees it *)

LEMMA MenusOfRolesPageAdmits ==
    ASSUME NEW p \in MenusOfRoles!PartnerPages,
           MenusOfRoles!satisfies(MenusOfRoles!accessMode, p), MenusOfRoles!permitted(p),
           m1, ~m2, ~m3, ~MenusOfRoles!suspended
    PROVE  MenusOfRoles!GuardTarget(p) = None \/ (p = "/dashboard" /\ MenusOfRoles!isAttendanceOnly)
<1>1. p \notin {"/login", "/suspended", "/", "/change-password", "/admin"}
    BY DEF MenusOfRoles!PartnerPages, MenusOfRoles!GuardedPages
<1>2. p \notin {"/login", "/suspended"} /\ p # "/" /\ p # "/change-password" /\ p # "/admin"
    BY <1>1
<1> QED
    BY <1>2, Zenon DEF MenusOfRoles!GuardTarget

LEMMA MenusOfRolesNavOpens ==
    ASSUME NEW p \in MenusOfRoles!NavItems(TRUE)
    PROVE  /\ p \in MenusOfRoles!PartnerPages /\ MenusOfRoles!satisfies(MenusOfRoles!accessMode, p)
           /\ MenusOfRoles!permitted(p)
<1>1. CASE p = "/plan"
  <2>1. MenusOfRoles!can("hotel.view")
      BY DEF MenusOfRoles!can, MenusOfRoles!RoleHas, MenusOfRoles!GeneralStaff
  <2>2. MenusOfRoles!PagePermission(p) = "hotel.view"
      BY <1>1 DEF MenusOfRoles!PagePermission
  <2> QED
      BY <1>1, <2>1, <2>2
      DEF MenusOfRoles!PartnerPages, MenusOfRoles!GuardedPages, MenusOfRoles!satisfies, MenusOfRoles!FullOnly, MenusOfRoles!permitted
<1>2. CASE p # "/plan"
  <2>1. /\ p \in MenusOfRoles!GuardedPages /\ MenusOfRoles!can(MenusOfRoles!PagePermission(p))
        /\ p \in MenusOfRoles!FullOnly => MenusOfRoles!accessMode = "full"
        /\ p = "/expenses" => MenusOfRoles!accessMode # "checkin_only"
      BY <1>2 DEF MenusOfRoles!NavItems
  <2> QED
      BY <2>1 DEF MenusOfRoles!PartnerPages, MenusOfRoles!satisfies, MenusOfRoles!permitted
<1> QED
    BY <1>1, <1>2

LEMMA MenusOfRolesTabOpens ==
    ASSUME NEW p \in MenusOfRoles!TabItems
    PROVE  /\ p \in MenusOfRoles!PartnerPages /\ MenusOfRoles!satisfies(MenusOfRoles!accessMode, p)
           /\ MenusOfRoles!permitted(p)
<1>1. CASE MenusOfRoles!accessMode = "full" /\ MenusOfRoles!isAttendanceOnly
  <2>1. p = "/my-attendance" /\ MenusOfRoles!can("staff.attendance_self")
      BY <1>1 DEF MenusOfRoles!TabItems, MenusOfRoles!isAttendanceOnly
  <2>2. MenusOfRoles!PagePermission(p) = "staff.attendance_self"
      BY <2>1 DEF MenusOfRoles!PagePermission
  <2> QED
      BY <1>1, <2>1, <2>2
      DEF MenusOfRoles!PartnerPages, MenusOfRoles!GuardedPages, MenusOfRoles!satisfies, MenusOfRoles!FullOnly, MenusOfRoles!permitted
<1>2. CASE ~(MenusOfRoles!accessMode = "full" /\ MenusOfRoles!isAttendanceOnly)
  <2>1. PICK i \in DOMAIN MenusOfRoles!TabCandidates :
          p = MenusOfRoles!TabCandidates[i] /\ MenusOfRoles!TabShown(p)
      BY <1>2 DEF MenusOfRoles!TabItems
  <2>2. p \in {"/dashboard", "/my-attendance", "/checkin", "/current-guests",
               "/advance-bookings", "/payments", "/rooms", "/housekeeping"}
      BY <2>1 DEF MenusOfRoles!TabCandidates
  <2>3. p \in MenusOfRoles!PartnerPages /\ p # "/expenses"
          /\ (p \in MenusOfRoles!FullOnly => p = "/my-attendance")
      BY <2>2 DEF MenusOfRoles!PartnerPages, MenusOfRoles!GuardedPages, MenusOfRoles!FullOnly
  <2> QED
      BY <2>1, <2>3 DEF MenusOfRoles!TabShown, MenusOfRoles!satisfies
<1> QED
    BY <1>1, <1>2

LEMMA MenusOfRolesSearchOpens ==
    ASSUME NEW p \in MenusOfRoles!SearchTargets
    PROVE  /\ p \in MenusOfRoles!PartnerPages /\ MenusOfRoles!satisfies(MenusOfRoles!accessMode, p)
           /\ MenusOfRoles!permitted(p)
<1>1. /\ p \in {"/current-guests", "/completed-bookings", "/advance-bookings"}
      /\ MenusOfRoles!can("bookings.view") \/ MenusOfRoles!can("guests.view")
    BY DEF MenusOfRoles!SearchTargets
<1>2. MenusOfRoles!can("bookings.view") /\ MenusOfRoles!can("guests.view")
    BY <1>1 DEF MenusOfRoles!can, MenusOfRoles!RoleHas, MenusOfRoles!GeneralStaff, MenusOfRoles!Housekeeping,
                MenusOfRoles!Receptionist, MenusOfRoles!Admin, MenusOfRoles!Manager, MenusOfRoles!Owner
<1>3. MenusOfRoles!PagePermission(p) \in {"bookings.view", "guests.view"}
    BY <1>1 DEF MenusOfRoles!PagePermission
<1>4. p \in MenusOfRoles!GuardedPages /\ p \notin MenusOfRoles!FullOnly /\ p # "/expenses"
    BY <1>1 DEF MenusOfRoles!GuardedPages, MenusOfRoles!FullOnly
<1> QED
    BY <1>2, <1>3, <1>4 DEF MenusOfRoles!PartnerPages, MenusOfRoles!satisfies, MenusOfRoles!permitted

LEMMA MenusOfRolesWindDown ==
    MenusOfRoles!WindDownReachable
<1> SUFFICES ASSUME MenusOfRoles!can("stay.checkout"), NEW p \in MenusOfRoles!WindDown \ {"/plan"}
             PROVE  ~MenusOfRoles!Blocked(p) /\ p \in MenusOfRoles!NavItems(TRUE)
    BY DEF MenusOfRoles!WindDownReachable
<1>1. p \in {"/checkout", "/current-guests", "/payments", "/invoices"}
    BY DEF MenusOfRoles!WindDown
<1>2. /\ MenusOfRoles!can("guests.view") /\ MenusOfRoles!can("payments.view")
      /\ MenusOfRoles!can("invoices.manage")
    BY DEF MenusOfRoles!can, MenusOfRoles!RoleHas, MenusOfRoles!GeneralStaff, MenusOfRoles!Housekeeping,
           MenusOfRoles!Receptionist, MenusOfRoles!Admin, MenusOfRoles!Manager, MenusOfRoles!Owner
<1>3. MenusOfRoles!PagePermission(p)
        \in {"stay.checkout", "guests.view", "payments.view", "invoices.manage"}
    BY <1>1 DEF MenusOfRoles!PagePermission
<1>4. /\ p \in MenusOfRoles!GuardedPages \ {"/plan"} /\ p \notin MenusOfRoles!FullOnly
      /\ p # "/expenses" /\ p # "/gst-tax"
    BY <1>1 DEF MenusOfRoles!GuardedPages, MenusOfRoles!FullOnly
<1>5. MenusOfRoles!can(MenusOfRoles!PagePermission(p))
    BY <1>2, <1>3
<1>6. p \in MenusOfRoles!NavItems(TRUE)
    BY <1>4, <1>5 DEF MenusOfRoles!NavItems
<1> QED
    BY <1>6 DEF MenusOfRoles!Blocked

LEMMA MenusOfRolesOpen == MenusOfRoles!MenuOpens
    BY MenusOfRolesPageAdmits, MenusOfRolesNavOpens, MenusOfRolesTabOpens, MenusOfRolesSearchOpens
    DEF MenusOfRoles!MenuOpens

LEMMA MenusOfHotelsPageAdmits ==
    ASSUME NEW p \in MenusOfHotels!PartnerPages,
           MenusOfHotels!satisfies(MenusOfHotels!accessMode, p), MenusOfHotels!permitted(p),
           m1, ~m2, ~m3, ~MenusOfHotels!suspended
    PROVE  MenusOfHotels!GuardTarget(p) = None \/ (p = "/dashboard" /\ MenusOfHotels!isAttendanceOnly)
<1>1. p \notin {"/login", "/suspended", "/", "/change-password", "/admin"}
    BY DEF MenusOfHotels!PartnerPages, MenusOfHotels!GuardedPages
<1>2. p \notin {"/login", "/suspended"} /\ p # "/" /\ p # "/change-password" /\ p # "/admin"
    BY <1>1
<1> QED
    BY <1>2, Zenon DEF MenusOfHotels!GuardTarget

LEMMA MenusOfHotelsNavOpens ==
    ASSUME NEW p \in MenusOfHotels!NavItems(TRUE)
    PROVE  /\ p \in MenusOfHotels!PartnerPages /\ MenusOfHotels!satisfies(MenusOfHotels!accessMode, p)
           /\ MenusOfHotels!permitted(p)
<1>1. CASE p = "/plan"
  <2>1. MenusOfHotels!can("hotel.view")
      BY DEF MenusOfHotels!can, MenusOfHotels!RoleHas, MenusOfHotels!GeneralStaff
  <2>2. MenusOfHotels!PagePermission(p) = "hotel.view"
      BY <1>1 DEF MenusOfHotels!PagePermission
  <2> QED
      BY <1>1, <2>1, <2>2
      DEF MenusOfHotels!PartnerPages, MenusOfHotels!GuardedPages, MenusOfHotels!satisfies, MenusOfHotels!FullOnly, MenusOfHotels!permitted
<1>2. CASE p # "/plan"
  <2>1. /\ p \in MenusOfHotels!GuardedPages /\ MenusOfHotels!can(MenusOfHotels!PagePermission(p))
        /\ p \in MenusOfHotels!FullOnly => MenusOfHotels!accessMode = "full"
        /\ p = "/expenses" => MenusOfHotels!accessMode # "checkin_only"
      BY <1>2 DEF MenusOfHotels!NavItems
  <2> QED
      BY <2>1 DEF MenusOfHotels!PartnerPages, MenusOfHotels!satisfies, MenusOfHotels!permitted
<1> QED
    BY <1>1, <1>2

LEMMA MenusOfHotelsTabOpens ==
    ASSUME NEW p \in MenusOfHotels!TabItems
    PROVE  /\ p \in MenusOfHotels!PartnerPages /\ MenusOfHotels!satisfies(MenusOfHotels!accessMode, p)
           /\ MenusOfHotels!permitted(p)
<1>1. CASE MenusOfHotels!accessMode = "full" /\ MenusOfHotels!isAttendanceOnly
  <2>1. p = "/my-attendance" /\ MenusOfHotels!can("staff.attendance_self")
      BY <1>1 DEF MenusOfHotels!TabItems, MenusOfHotels!isAttendanceOnly
  <2>2. MenusOfHotels!PagePermission(p) = "staff.attendance_self"
      BY <2>1 DEF MenusOfHotels!PagePermission
  <2> QED
      BY <1>1, <2>1, <2>2
      DEF MenusOfHotels!PartnerPages, MenusOfHotels!GuardedPages, MenusOfHotels!satisfies, MenusOfHotels!FullOnly, MenusOfHotels!permitted
<1>2. CASE ~(MenusOfHotels!accessMode = "full" /\ MenusOfHotels!isAttendanceOnly)
  <2>1. PICK i \in DOMAIN MenusOfHotels!TabCandidates :
          p = MenusOfHotels!TabCandidates[i] /\ MenusOfHotels!TabShown(p)
      BY <1>2 DEF MenusOfHotels!TabItems
  <2>2. p \in {"/dashboard", "/my-attendance", "/checkin", "/current-guests",
               "/advance-bookings", "/payments", "/rooms", "/housekeeping"}
      BY <2>1 DEF MenusOfHotels!TabCandidates
  <2>3. p \in MenusOfHotels!PartnerPages /\ p # "/expenses"
          /\ (p \in MenusOfHotels!FullOnly => p = "/my-attendance")
      BY <2>2 DEF MenusOfHotels!PartnerPages, MenusOfHotels!GuardedPages, MenusOfHotels!FullOnly
  <2> QED
      BY <2>1, <2>3 DEF MenusOfHotels!TabShown, MenusOfHotels!satisfies
<1> QED
    BY <1>1, <1>2

LEMMA MenusOfHotelsSearchOpens ==
    ASSUME NEW p \in MenusOfHotels!SearchTargets
    PROVE  /\ p \in MenusOfHotels!PartnerPages /\ MenusOfHotels!satisfies(MenusOfHotels!accessMode, p)
           /\ MenusOfHotels!permitted(p)
<1>1. /\ p \in {"/current-guests", "/completed-bookings", "/advance-bookings"}
      /\ MenusOfHotels!can("bookings.view") \/ MenusOfHotels!can("guests.view")
    BY DEF MenusOfHotels!SearchTargets
<1>2. MenusOfHotels!can("bookings.view") /\ MenusOfHotels!can("guests.view")
    BY <1>1 DEF MenusOfHotels!can, MenusOfHotels!RoleHas, MenusOfHotels!GeneralStaff, MenusOfHotels!Housekeeping,
                MenusOfHotels!Receptionist, MenusOfHotels!Admin, MenusOfHotels!Manager, MenusOfHotels!Owner
<1>3. MenusOfHotels!PagePermission(p) \in {"bookings.view", "guests.view"}
    BY <1>1 DEF MenusOfHotels!PagePermission
<1>4. p \in MenusOfHotels!GuardedPages /\ p \notin MenusOfHotels!FullOnly /\ p # "/expenses"
    BY <1>1 DEF MenusOfHotels!GuardedPages, MenusOfHotels!FullOnly
<1> QED
    BY <1>2, <1>3, <1>4 DEF MenusOfHotels!PartnerPages, MenusOfHotels!satisfies, MenusOfHotels!permitted

LEMMA MenusOfHotelsWindDown ==
    MenusOfHotels!WindDownReachable
<1> SUFFICES ASSUME MenusOfHotels!can("stay.checkout"), NEW p \in MenusOfHotels!WindDown \ {"/plan"}
             PROVE  ~MenusOfHotels!Blocked(p) /\ p \in MenusOfHotels!NavItems(TRUE)
    BY DEF MenusOfHotels!WindDownReachable
<1>1. p \in {"/checkout", "/current-guests", "/payments", "/invoices"}
    BY DEF MenusOfHotels!WindDown
<1>2. /\ MenusOfHotels!can("guests.view") /\ MenusOfHotels!can("payments.view")
      /\ MenusOfHotels!can("invoices.manage")
    BY DEF MenusOfHotels!can, MenusOfHotels!RoleHas, MenusOfHotels!GeneralStaff, MenusOfHotels!Housekeeping,
           MenusOfHotels!Receptionist, MenusOfHotels!Admin, MenusOfHotels!Manager, MenusOfHotels!Owner
<1>3. MenusOfHotels!PagePermission(p)
        \in {"stay.checkout", "guests.view", "payments.view", "invoices.manage"}
    BY <1>1 DEF MenusOfHotels!PagePermission
<1>4. /\ p \in MenusOfHotels!GuardedPages \ {"/plan"} /\ p \notin MenusOfHotels!FullOnly
      /\ p # "/expenses" /\ p # "/gst-tax"
    BY <1>1 DEF MenusOfHotels!GuardedPages, MenusOfHotels!FullOnly
<1>5. MenusOfHotels!can(MenusOfHotels!PagePermission(p))
    BY <1>2, <1>3
<1>6. p \in MenusOfHotels!NavItems(TRUE)
    BY <1>4, <1>5 DEF MenusOfHotels!NavItems
<1> QED
    BY <1>6 DEF MenusOfHotels!Blocked

LEMMA MenusOfHotelsOpen == MenusOfHotels!MenuOpens
    BY MenusOfHotelsPageAdmits, MenusOfHotelsNavOpens, MenusOfHotelsTabOpens, MenusOfHotelsSearchOpens
    DEF MenusOfHotels!MenuOpens

-----------------------------------------------------------------------------
(* The theorems *)

Once ==
    /\ screen = "check-in" => CheckinPage!ChargedOnce
    /\ screen = "voucher" => VoucherPage!WaitingUnprinted
    /\ screen = "guests" => GuestsPage!PrintsAskedFor
    /\ screen = "booking" => BookingPage!OneUnlessTold

\* Whatever answers are late or lost, and however often a page is drawn again
\* or a button pressed: an arrival pays and is charged once and a walk-in once
\* in each room, so that it pays twice only when the desk tries again with
\* another room; a receipt and each sheet of a voucher is printed once; and a
\* booking is made a second time only after the desk was told that the first
\* failed.
THEOREM DoneOnceHolds == MCSpec => []DoneOnce
<1>1. MCInit => Once
    BY CheckinInit, VoucherInit, GuestsInit, BookingInit DEF MCInit, Once
<1>2. Once /\ [MCNext]_mcVars => Once'
    BY StepOfScreen, CheckinNext, VoucherNext, PrintsNext, OneBookingNext DEF Once
<1>3. CheckinPage!ChargedOnce => CheckinPage!PaidOnce
    BY DEF CheckinPage!ChargedOnce, CheckinPage!PaidOnce
<1>4. VoucherPage!WaitingUnprinted => VoucherPage!PrintsOnce
  <2> SUFFICES ASSUME VoucherPage!WaitingUnprinted, NEW j \in 1..MaxJobs
               PROVE  m2[j].prints <= 1
      BY DEF VoucherPage!PrintsOnce
  <2>1. m2[j].prints \in Nat
      BY DEF VoucherPage!WaitingUnprinted, VoucherPage!Job
  <2> QED
      BY <2>1 DEF VoucherPage!WaitingUnprinted
<1>5. GuestsPage!PrintsAskedFor => GuestsPage!PrintsOnce
    BY DEF GuestsPage!PrintsAskedFor, GuestsPage!PrintsOnce
<1>6. Once => DoneOnce
    BY <1>3, <1>4, <1>5, SecondAfterFailure DEF Once, DoneOnce
<1> QED
    BY <1>1, <1>2, <1>6, PTL DEF MCSpec

MoneyKept ==
    /\ screen = "check-in" => CheckinPage!ChargedOnce /\ CheckinPage!BalanceKept
    /\ screen = "booking" => BookingPage!VoucherKept
    /\ screen = "payments" => PaymentsPage!PaymentsKept
    /\ screen = "payments found" => PaymentsSearch!PaymentsKept

\* For any rents, rate and payments, and whatever is collected, corrected and
\* refunded from however old a list: a booking holds what its valid payments say
\* less the refunds, the balance shown at a check-in is what the server will ask
\* up to a rupee for each line rounded apart, a voucher shows the advance that was
\* recorded, and the rows of a bill come to its totals.
THEOREM MoneyAddsUpHolds == MCSpec => []MoneyAddsUp
<1>1. MCInit => MoneyKept
    BY CheckinInit, VoucherKeptInit, PaymentsPageInit, PaymentsSearchInit
    DEF MCInit, MoneyKept
<1>2. MoneyKept /\ [MCNext]_mcVars => MoneyKept'
    BY StepOfScreen, CheckinNext, BalanceNext, VoucherKeptNext, PaymentsPageNext,
       PaymentsSearchNext
    DEF MoneyKept
<1>3. MoneyKept => MoneyAddsUp
    BY BalanceShown, BillsAddUp
    DEF MoneyKept, MoneyAddsUp, BookingPage!VoucherKept, PaymentsPage!PaymentsKept,
        PaymentsSearch!PaymentsKept
<1> QED
    BY <1>1, <1>2, <1>3, PTL DEF MCSpec

FirstTheGuest ==
    /\ screen = "guests" => GuestsPage!GuestFirst
    /\ screen = "shared guests" => SharedGuestsPage!GuestFirst

\* For any rooms, stays and fields: an edit whose guest half is refused has
\* written nothing, also when another desk edits the same stay.
THEOREM GuestErrorStopsAllHolds == MCSpec => []GuestErrorStopsAll
<1>1. MCInit => FirstTheGuest
    BY GuestsInit, SharedGuestsInit DEF MCInit, FirstTheGuest
<1>2. FirstTheGuest /\ [MCNext]_mcVars => FirstTheGuest'
    BY StepOfScreen, FirstGuestsPage, FirstSharedGuestsPage DEF FirstTheGuest
<1>3. FirstTheGuest => GuestErrorStopsAll
    BY DEF FirstTheGuest, GuestErrorStopsAll, GuestsPage!GuestFirst,
           GuestsPage!GuestErrorStopsAll, SharedGuestsPage!GuestFirst,
           SharedGuestsPage!GuestErrorStopsAll
<1> QED
    BY <1>1, <1>2, <1>3, PTL DEF MCSpec

Papers ==
    /\ screen = "documents" => DocumentPanel!CameraHeld /\ DocumentPanel!DocFollows
    /\ screen = "invoices" => InvoicesPage!AboutAsWanted

\* Whatever files are picked, scanned and sent while others are on their way: a
\* tile shows the document that is stored, and a camera that no panel shows is
\* off.  Whatever bill is opened while a number is asked for: the one sent is
\* the one that was on screen.
THEOREM DocumentsHonestHolds == MCSpec => []DocumentsHonest
<1>1. MCInit => Papers
    BY DocumentsInit, InvoicesInit DEF MCInit, Papers
<1>2. Papers /\ [MCNext]_mcVars => Papers'
    BY StepOfScreen, CameraNext, DocsNext, AboutNext DEF Papers
<1>3. Papers => DocumentsHonest
    BY DocumentsShown DEF Papers, DocumentsHonest, InvoicesPage!AboutAsWanted
<1> QED
    BY <1>1, <1>2, <1>3, PTL DEF MCSpec

Lists ==
    /\ screen = "advance bookings" => AdvanceList!ListsOfBookings
    /\ screen = "advance bookings found" => AdvanceSearch!ListsOfBookings
    /\ screen = "completed bookings" => CompletedList!AddressFollows
    /\ screen = "invoices" => InvoicesPage!ListsHaveNewest
    /\ screen = "booking" =>
         BookingPage!OneUnlessTold /\ BookingPage!SelectedOffered

\* For any bookings, dates, filters and length of a page, and any order of
\* answers: a list with rows shows some, a room selected is on offer, a bill is
\* shown if any is listed, and an address at rest names the search and the chip
\* of its page.  Its dates it names only when the page wrote it: from an address
\* that the desk is led to the page does not take the dates over.
THEOREM ListsAgreeHolds == MCSpec => []ListsAgree
<1>1. MCInit => Lists
    BY AdvanceListInit, AdvanceSearchInit, AddressInit, InvoicesInit, BookingInit
    DEF MCInit, Lists
<1>2. Lists /\ [MCNext]_mcVars => Lists'
    BY StepOfScreen, AdvanceListNext, AdvanceSearchNext, AddressNext, NewestNext,
       OneBookingNext, PrunedNext
    DEF Lists
<1>3. Lists => ListsAgree
    BY AdvanceListHasRows, AdvanceSearchHasRows
    DEF Lists, ListsAgree, CompletedList!AddressFollows,
        CompletedList!AddressAgrees, InvoicesPage!ListsHaveNewest
<1> QED
    BY <1>1, <1>2, <1>3, PTL DEF MCSpec

\* Whatever the role, tier and plan, in every state and also while the
\* permissions are of the hotel left: a link opens a page that admits whoever
\* sees it, and an expired hotel reaches what it needs to wind down.
THEOREM PagesReachableHolds == MCSpec => []PagesReachable
<1>1. PagesReachable
    BY MenusOfRolesOpen, MenusOfRolesWindDown, MenusOfHotelsOpen,
       MenusOfHotelsWindDown
    DEF PagesReachable
<1> QED
    BY <1>1, PTL
=============================================================================
