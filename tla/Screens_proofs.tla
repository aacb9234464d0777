---------------------------- MODULE Screens_proofs ----------------------------
(***************************************************************************)
(* Proofs about the check-out page: types, that no check-out leaves a due  *)
(* that the desk gave no reason for, and that no booking is checked out    *)
(* twice; and about the types of all screens of MCFrontDesk: what the      *)
(* other proofs leave open of them, screen by screen, and that every state *)
(* of the instance has its types.                                          *)
(***************************************************************************)
EXTENDS FrontDesk_proofs

-----------------------------------------------------------------------------
(* The check-out page                                                      *)

Postings == [booking : Bookings, draft : Drafts, collect : BOOLEAN,
             allow : BOOLEAN, reason : BOOLEAN, shown : Int]
Results == [booking : Bookings, invoice : BOOLEAN]

\* A request that allows a due collects it or carries the desk's reason.
RequestAnswersForDue(p) == p.allow => p.collect \/ p.reason

\* The request as it was sent is what the server decides on: it must stay
\* answerable for a due while the page goes on.
PostingOK ==
    posting # None => posting \in Postings /\ RequestAnswersForDue(posting)

\* A guest in the house has not been checked out.
InHouseUncharged == \A b \in inHouse : charged[b] = 0

ChargedOK == charged \in [Bookings -> 0 .. 1]

OutcomeOK == DOMAIN outcome = Bookings

ResultOK == result # None => result \in Results

IInv ==
    /\ TypeOK /\ PostingOK /\ InHouseUncharged /\ ChargedOK
    /\ OutcomeOK /\ ResultOK /\ NoSilentDue

-----------------------------------------------------------------------------
(* Amounts *)

LEMMA DraftAmounts ==
    ASSUME NEW d \in Drafts PROVE d.extra \in Nat /\ d.discount \in Nat
    BY CheckoutAssumption DEF Drafts, Blank

LEMMA PriceType ==
    ASSUME TypeOK, NEW b \in Bookings, NEW d \in Drafts
    PROVE  Price(b, d) \in Int
<1>1. owed[b] \in Nat
    BY DEF TypeOK
<1> QED
    BY <1>1, DraftAmounts DEF Price

LEMMA PositiveType == ASSUME NEW x \in Int PROVE Positive(x) \in Nat
    BY DEF Positive

-----------------------------------------------------------------------------
LEMMA InitInv == Init => IInv
<1> SUFFICES ASSUME Init PROVE IInv
    OBVIOUS
<1>1. TypeOK
  <2>1. owed \in [Bookings -> Nat]
      BY CheckoutAssumption DEF Init
  <2>2. charged \in [Bookings -> 0 .. 2]
      BY DEF Init
  <2> QED
      BY <2>1, <2>2 DEF Init, TypeOK, Drafts
<1>2. PostingOK /\ InHouseUncharged /\ ChargedOK /\ OutcomeOK /\ ResultOK
    BY DEF Init, PostingOK, InHouseUncharged, ChargedOK, OutcomeOK, ResultOK
<1>3. NoSilentDue
    BY DEF Init, NoSilentDue, LeftBookings
<1> QED
    BY <1>1, <1>2, <1>3 DEF IInv

\* The page's own steps leave the server's state alone.
LEMMA PageInv ==
    ASSUME IInv, UNCHANGED serverVars, TypeOK', PostingOK', ResultOK'
    PROVE  IInv'
    BY DEF IInv, serverVars, InHouseUncharged, ChargedOK, OutcomeOK,
           NoSilentDue, LeftBookings

LEMMA SameRequestInv ==
    ASSUME IInv, UNCHANGED <<serverVars, posting, result>>, TypeOK'
    PROVE  IInv'
    BY PageInv DEF IInv, PostingOK, ResultOK

LEMMA ResetInv ==
    ASSUME IInv, UNCHANGED serverVars, UNCHANGED posting, result' = None,
           TypeOK'
    PROVE  IInv'
    BY PageInv DEF IInv, PostingOK, ResultOK

LEMMA LoadInv ==
    ASSUME IInv, NEW b \in Bookings, loadGuest(b) PROVE IInv'
<1>1. TypeOK'
    BY DEF IInv, TypeOK, loadGuest, ResetForm, serverVars, Drafts
<1> QED
    BY <1>1, ResetInv DEF loadGuest, ResetForm

LEMMA DeepLinkInv == ASSUME IInv, OpenDeepLink PROVE IInv'
<1>1. TypeOK'
    BY DEF IInv, TypeOK, OpenDeepLink, serverVars, formVars, invoiceVars
<1> QED
    BY <1>1, SameRequestInv DEF OpenDeepLink

LEMMA NewCheckoutInv == ASSUME IInv, NewCheckout PROVE IInv'
<1>1. TypeOK'
    BY DEF IInv, TypeOK, NewCheckout, ResetForm, serverVars, Drafts
<1> QED
    BY <1>1, ResetInv DEF NewCheckout, ResetForm

LEMMA EditInv == ASSUME IInv, EditDraft \/ EditPayment PROVE IInv'
<1>1. TypeOK'
    BY DEF IInv, TypeOK, EditDraft, EditPayment, serverVars, invoiceVars
<1> QED
    BY <1>1, SameRequestInv DEF EditDraft, EditPayment

LEMMA QuoteInv == ASSUME IInv, QuoteComes PROVE IInv'
<1>1. entry \in Bookings /\ draft \in Drafts
    BY DEF IInv, TypeOK, QuoteComes
<1>2. Price(entry, draft) \in Int
    BY <1>1, PriceType DEF IInv
<1>3. quote' \in Quotes
    BY <1>1, <1>2 DEF QuoteComes, Quotes
<1>4. TypeOK'
    BY <1>3 DEF IInv, TypeOK, QuoteComes, serverVars, formVars, invoiceVars
<1> QED
    BY <1>4, SameRequestInv DEF QuoteComes

LEMMA OtherChargeInv ==
    ASSUME IInv, NEW b \in Bookings, OtherCharge(b) PROVE IInv'
<1>1. owed' \in [Bookings -> Nat]
    BY CheckoutAssumption DEF IInv, TypeOK, OtherCharge
<1>2. TypeOK'
    BY <1>1 DEF IInv, TypeOK, OtherCharge, formVars, invoiceVars
<1> QED
    BY <1>2 DEF IInv, OtherCharge, invoiceVars, PostingOK, InHouseUncharged,
                ChargedOK, OutcomeOK, ResultOK, NoSilentDue, LeftBookings

LEMMA SendInv == ASSUME IInv, handleCheckout PROVE IInv'
<1>1. entry \in Bookings /\ draft \in Drafts /\ quote \in Quotes
    BY DEF IInv, TypeOK, handleCheckout
<1>2. pendingAmount \in Int
    BY <1>1, PositiveType DEF pendingAmount, Quotes
<1>3. needsDueAuth \in BOOLEAN /\ isPaidWithDue \in BOOLEAN /\ allowDue \in BOOLEAN
    BY DEF needsDueAuth, isPaidWithDue, allowDue
<1>4. posting' \in Postings
    BY <1>1, <1>2, <1>3 DEF handleCheckout, Postings, SentDraft
<1>5. RequestAnswersForDue(posting')
    BY DEF handleCheckout, RequestAnswersForDue, allowDue
<1>6. TypeOK'
    BY DEF IInv, TypeOK, handleCheckout, serverVars, formVars, invoiceVars
<1>7. PostingOK'
    BY <1>4, <1>5 DEF PostingOK, RequestAnswersForDue
<1>8. ResultOK'
    BY DEF IInv, ResultOK, handleCheckout
<1> QED
    BY <1>6, <1>7, <1>8, PageInv DEF handleCheckout

\* What the server records of a request that it accepts.
LEMMA AcceptedInv ==
    ASSUME IInv, posting # None, ServerAccepts(posting), ServerChecksOut(posting)
    PROVE  InHouseUncharged' /\ ChargedOK' /\ OutcomeOK' /\ NoSilentDue'
<1> DEFINE p == posting
           due == Price(p.booking, p.draft)
           collected == IF p.collect THEN Positive(due) ELSE 0
           left == Positive(due) - collected
<1>1. p \in Postings /\ p.booking \in Bookings /\ p.draft \in Drafts
    BY DEF IInv, PostingOK, Postings
<1>2. due \in Int
    BY <1>1, PriceType DEF IInv
<1>3. Positive(due) \in Nat
    BY <1>2, PositiveType
<1>4. p.booking \in inHouse /\ charged[p.booking] = 0
    BY DEF IInv, InHouseUncharged, ServerAccepts, Checkoutable
<1>5. ASSUME left > 0 PROVE p.reason
  <2>1. CASE p.collect
      BY <2>1, <1>3, <1>5
  <2>2. CASE ~p.collect /\ p.allow
      BY <2>2 DEF IInv, PostingOK, RequestAnswersForDue
  <2>3. CASE ~p.collect /\ ~p.allow
    <3>1. due <= 0
        BY <2>3 DEF ServerAccepts
    <3> QED
        BY <3>1, <2>3, <1>2, <1>5 DEF Positive
  <2> QED
      BY <2>1, <2>2, <2>3
<1>6. /\ inHouse' = inHouse \ {p.booking}
      /\ charged' = [charged EXCEPT ![p.booking] = @ + 1]
      /\ outcome' = [outcome EXCEPT ![p.booking] =
                       [shown |-> p.shown, due |-> Positive(due),
                        collected |-> collected, left |-> left,
                        reason |-> p.reason]]
    BY DEF ServerChecksOut
<1>7. ChargedOK'
    BY <1>1, <1>4, <1>6 DEF IInv, ChargedOK
<1>8. InHouseUncharged'
    BY <1>4, <1>6 DEF IInv, TypeOK, InHouseUncharged, ChargedOK
<1>9. OutcomeOK'
    BY <1>6 DEF IInv, OutcomeOK
<1>10. NoSilentDue'
  <2> SUFFICES ASSUME NEW b \in Bookings, outcome'[b] # None, outcome'[b].left > 0
               PROVE  outcome'[b].reason
      BY DEF NoSilentDue, LeftBookings
  <2>1. CASE b = p.booking
    <3>1. outcome'[b].left = left /\ outcome'[b].reason = p.reason
        BY <2>1, <1>1, <1>6 DEF IInv, OutcomeOK
    <3> QED
        BY <3>1, <1>5
  <2>2. CASE b # p.booking
    <3>1. outcome'[b] = outcome[b]
        BY <2>2, <1>6 DEF IInv, OutcomeOK
    <3> QED
        BY <3>1 DEF IInv, NoSilentDue, LeftBookings
  <2> QED
      BY <2>1, <2>2
<1> QED
    BY <1>7, <1>8, <1>9, <1>10

LEMMA AnswerInv == ASSUME IInv, CheckoutAnswers PROVE IInv'
<1>1. posting # None /\ posting' = None
    BY DEF CheckoutAnswers
<1>2. posting.booking \in Bookings
    BY <1>1 DEF IInv, PostingOK, Postings
<1>3. PostingOK'
    BY <1>1 DEF PostingOK
<1>4. ResultOK'
    BY <1>2 DEF IInv, CheckoutAnswers, ResultOK, Results
<1>5. CASE ServerAccepts(posting) /\ ServerChecksOut(posting)
  <2>1. InHouseUncharged' /\ ChargedOK' /\ OutcomeOK' /\ NoSilentDue'
      BY <1>1, <1>5, AcceptedInv
  <2>2. charged' \in [Bookings -> 0 .. 2]
      BY <2>1 DEF ChargedOK
  <2>3. owed' = owed /\ inHouse' \subseteq Bookings
      BY <1>5 DEF IInv, TypeOK, ServerChecksOut
  <2>4. TypeOK'
      BY <2>2, <2>3 DEF IInv, TypeOK, CheckoutAnswers, formVars, invoiceVars
  <2> QED
      BY <2>1, <2>4, <1>3, <1>4 DEF IInv
<1>6. CASE UNCHANGED <<serverVars, result>>
  <2>1. TypeOK'
      BY <1>6 DEF IInv, TypeOK, CheckoutAnswers, serverVars, formVars, invoiceVars
  <2> QED
      BY <2>1, <1>3, <1>4, <1>6, PageInv
<1> QED
    BY <1>5, <1>6 DEF CheckoutAnswers

LEMMA InvoiceInv ==
    ASSUME IInv, ensureInvoice \/ \E b \in Bookings : InvoiceComes(b)
    PROVE  IInv'
<1>1. result # None => result.booking \in Bookings
    BY DEF IInv, ResultOK, Results
<1>2. TypeOK'
    BY <1>1 DEF IInv, TypeOK, ensureInvoice, InvoiceComes, serverVars,
                formVars, invoiceVars
<1> QED
    BY <1>2, SameRequestInv DEF ensureInvoice, InvoiceComes

LEMMA NextInv == IInv /\ [Next]_checkoutVars => IInv'
<1> SUFFICES ASSUME IInv, [Next]_checkoutVars PROVE IInv'
    OBVIOUS
<1>1. CASE UNCHANGED checkoutVars
    BY <1>1 DEF checkoutVars, IInv, TypeOK, PostingOK, InHouseUncharged,
                ChargedOK, OutcomeOK, ResultOK, NoSilentDue, LeftBookings
<1>2. CASE Next
    BY <1>2, LoadInv, OtherChargeInv, InvoiceInv, DeepLinkInv, NewCheckoutInv,
       EditInv, QuoteInv, SendInv, AnswerInv DEF Next
<1> QED
    BY <1>1, <1>2

THEOREM Invariant == Spec => []IInv
    BY InitInv, NextInv, PTL DEF Spec

(***************************************************************************)
(* The variables of the check-out page and of the bookings it works on     *)
(* keep their types (checkout/page.tsx).                                   *)
(***************************************************************************)
THEOREM TypeCorrect == Spec => []TypeOK
<1>1. IInv => TypeOK
    BY DEF IInv
<1> QED
    BY <1>1, Invariant, PTL

(***************************************************************************)
(* A guest leaves with a due only when the desk gave a reason for it,      *)
(* whatever other desks charged since the quote on screen was computed     *)
(* (checkout/page.tsx, handleCheckout; services/stay.py, check_out).       *)
(***************************************************************************)
THEOREM NoSilentDueHolds == Spec => []NoSilentDue
<1>1. IInv => NoSilentDue
    BY DEF IInv
<1> QED
    BY <1>1, Invariant, PTL

(***************************************************************************)
(* A check-out whose answer was late or lost, tried again, books the       *)
(* draft's charges once (services/stay.py, check_out).                     *)
(***************************************************************************)
THEOREM CheckedOutOnceHolds == Spec => []CheckedOutOnce
<1>1. IInv => CheckedOutOnce
    BY DEF IInv, ChargedOK, CheckedOutOnce
<1> QED
    BY <1>1, Invariant, PTL

-----------------------------------------------------------------------------
(* Types: the drafts *)

\* What HeldByHotel leaves open of the types.
DraftTypes ==
    /\ m3 \in [SavedDrafts!Drafts -> SavedDrafts!Keys \union {None}]
    /\ m4 \in [SavedDrafts!Drafts -> DraftHotels \union {None}]
    /\ m5 \subseteq SavedDrafts!Keys
    /\ m8 \in [Tabs -> SavedDrafts!Drafts \union {None}]
    /\ m9 \in [Tabs -> SavedDrafts!Drafts \union {None}]
    /\ m10 \in [Tabs -> {None, SavedDrafts!NewFile} \union SavedDrafts!Keys]
    /\ m11 \in [Tabs -> BOOLEAN]
    /\ \A s \in m12 :
         /\ "photo" \in DOMAIN s
         /\ s.photo \in {None, SavedDrafts!NewFile} \union SavedDrafts!Keys

LEMMA DraftTypesInit == SavedDrafts!Init => DraftTypes
<1> SUFFICES ASSUME SavedDrafts!Init PROVE DraftTypes
    OBVIOUS
<1>1. m11 \in [Tabs -> BOOLEAN]
    BY DEF SavedDrafts!Init
<1> QED
    BY <1>1 DEF SavedDrafts!Init, DraftTypes

LEMMA DraftSaveEndsTypes ==
    ASSUME DraftTypes, SavedDrafts!HeldByHotel, NEW s \in m12, SavedDrafts!SaveEnds(s)
    PROVE  DraftTypes'
<1> USE DEF DraftTypes
<1>1. /\ s.id \in SavedDrafts!Keys /\ s.id \in SavedDrafts!Drafts
      /\ s.hotel \in DraftHotels /\ s.tab \in Tabs
    BY DraftsAssumption
    DEF SavedDrafts!HeldByHotel, SavedDrafts!ListsTyped, SavedDrafts!SavesOfTabs,
        SavedDrafts!Keys, SavedDrafts!Drafts
<1>2. /\ m4' = [m4 EXCEPT ![s.id] = s.hotel]
      /\ m11' = (IF s.mounted THEN [m11 EXCEPT ![s.tab] = FALSE] ELSE m11)
      /\ m12' \subseteq m12 /\ UNCHANGED <<m8, m9, m10>>
    BY DEF SavedDrafts!SaveEnds
<1>3. m11' \in [Tabs -> BOOLEAN]
    BY <1>2
<1>4. PICK key \in (IF s.photo = SavedDrafts!NewFile THEN {s.id, None} ELSE {s.photo}) :
          /\ m3' = [m3 EXCEPT ![s.id] = key]
          /\ m5' \subseteq m5 \union (IF key = s.id THEN {s.id} ELSE {})
    BY DEF SavedDrafts!SaveEnds
<1>5. key \in SavedDrafts!Keys \union {None}
    BY <1>1, <1>4
<1>6. m3' \in [SavedDrafts!Drafts -> SavedDrafts!Keys \union {None}]
    BY <1>1, <1>4, <1>5
<1>7. m5' \subseteq SavedDrafts!Keys
    BY <1>1, <1>4
<1> QED
    BY <1>1, <1>2, <1>3, <1>6, <1>7

LEMMA DraftTypesNext ==
    ASSUME DraftTypes, SavedDrafts!HeldByHotel,
           [SavedDrafts!Next]_SavedDrafts!draftVars
    PROVE  DraftTypes'
<1> USE DEF DraftTypes
<1>1. ASSUME NEW t \in Tabs, NEW h \in DraftHotels, SavedDrafts!Mount(t, h)
      PROVE  DraftTypes'
  <2>1. m11' \in [Tabs -> BOOLEAN]
      BY <1>1 DEF SavedDrafts!Mount
  <2>2. \A s \in m12' :
          /\ "photo" \in DOMAIN s
          /\ s.photo \in {None, SavedDrafts!NewFile} \union SavedDrafts!Keys
    <3>1. \A s \in m12' : s \in m12 \/ \E r \in m12 : s = [r EXCEPT !.mounted = FALSE]
        BY <1>1 DEF SavedDrafts!Mount
    <3>2. \A r \in m12 : "photo" \in DOMAIN r =>
               /\ [r EXCEPT !.mounted = FALSE].photo = r.photo
               /\ DOMAIN [r EXCEPT !.mounted = FALSE] = DOMAIN r
        OBVIOUS
    <3> QED
        BY <3>1, <3>2
  <2> QED
      BY <1>1, <2>1, <2>2 DEF SavedDrafts!Mount
<1>2. ASSUME NEW t \in Tabs, SavedDrafts!QueuePhoto(t)
      PROVE  DraftTypes'
    BY <1>2 DEF SavedDrafts!QueuePhoto
<1>3. ASSUME NEW t \in Tabs, SavedDrafts!saveDraft(t)
      PROVE  DraftTypes'
  <2>1. m11' \in [Tabs -> BOOLEAN]
      BY <1>3 DEF SavedDrafts!saveDraft
  <2>2. \A s \in m12' : s \in m12 \/ (s.photo = m10[t] /\ "photo" \in DOMAIN s)
      BY <1>3 DEF SavedDrafts!saveDraft
  <2> QED
      BY <1>3, <2>1, <2>2 DEF SavedDrafts!saveDraft
<1>4. ASSUME NEW t \in Tabs, SavedDrafts!RestoreEnds(t)
      PROVE  DraftTypes'
  <2>1. \E p \in {None} \union m5 : m10' = [m10 EXCEPT ![t] = p]
      BY <1>4 DEF SavedDrafts!RestoreEnds
  <2>2. m10' \in [Tabs -> {None, SavedDrafts!NewFile} \union SavedDrafts!Keys]
      BY <2>1
  <2> QED
      BY <1>4, <2>2 DEF SavedDrafts!RestoreEnds
<1>5. ASSUME NEW t \in Tabs, SavedDrafts!CheckedIn(t)
      PROVE  DraftTypes'
  <2>1. m5' \subseteq m5
      BY <1>5 DEF SavedDrafts!CheckedIn, SavedDrafts!deleteDraftDocsUnlessShared
  <2> QED
      BY <1>5, <2>1 DEF SavedDrafts!CheckedIn
<1>6. ASSUME NEW t \in Tabs, NEW d \in SavedDrafts!Drafts,
             SavedDrafts!restoreDraft(t, d)
      PROVE  DraftTypes'
    BY <1>6 DEF SavedDrafts!restoreDraft
<1>7. ASSUME NEW t \in Tabs, NEW d \in SavedDrafts!Drafts,
             SavedDrafts!discardDraft(t, d)
      PROVE  DraftTypes'
  <2>1. m5' \subseteq m5
      BY <1>7 DEF SavedDrafts!discardDraft, SavedDrafts!deleteDraftDocsUnlessShared
  <2>2. m8' = [m8 EXCEPT ![t] = IF @ = d THEN None ELSE @]
      BY <1>7 DEF SavedDrafts!discardDraft
  <2>3. m8' \in [Tabs -> SavedDrafts!Drafts \union {None}]
      BY <2>2
  <2> QED
      BY <1>7, <2>1, <2>3 DEF SavedDrafts!discardDraft
<1>8. CASE UNCHANGED SavedDrafts!draftVars
    BY <1>8 DEF SavedDrafts!draftVars
<1> HIDE DEF DraftTypes
<1>9. ASSUME NEW s \in m12, SavedDrafts!SaveEnds(s)
      PROVE  DraftTypes'
    BY <1>9, DraftSaveEndsTypes
<1> QED
    BY <1>1, <1>2, <1>3, <1>4, <1>5, <1>6, <1>7, <1>8, <1>9
    DEF SavedDrafts!Next

LEMMA DraftsTyped ==
    ASSUME DraftTypes, SavedDrafts!HeldByHotel PROVE SavedDrafts!TypeOK
<1>0. <<0>> \in Seq({0}) /\ <<>> \in Seq({0})
    OBVIOUS
<1>1. m2 \in Seq({0})
    BY <1>0 DEF SavedDrafts!HeldByHotel, SavedDrafts!ListsTyped
<1>2. /\ m1 \in [DraftHotels -> Seq(SavedDrafts!Drafts)]
      /\ m7 \in [Tabs -> Seq(SavedDrafts!Drafts)]
      /\ m6 \in [Tabs -> DraftHotels] /\ m13 \in 0 .. MaxSaves
    BY DEF SavedDrafts!HeldByHotel, SavedDrafts!ListsTyped, SavedDrafts!Drafts
<1> QED
    BY <1>1, <1>2 DEF DraftTypes, SavedDrafts!TypeOK

-----------------------------------------------------------------------------
(* Types: the form of a check-in *)

\* What ChargedOnce leaves open of the types.
FormTypes ==
    /\ m3 \in OneGuest \union {None} /\ m4 \in OneGuest \union {None}
    /\ m5 \in OneGuest \union {None}
    /\ m6 \in BOOLEAN /\ m7 \subseteq OneGuest /\ m8 \in BOOLEAN
    /\ m12 \in 0 .. MaxTries

LEMMA FormTypesInit == CheckinPage!Init => FormTypes
<1> SUFFICES ASSUME CheckinPage!Init PROVE FormTypes
    OBVIOUS
<1>1. m6 \in BOOLEAN /\ m8 \in BOOLEAN
    BY Zenon DEF CheckinPage!Init
<1>2. m3 \in OneGuest \union {None} /\ m4 = m3 /\ m5 = m3 /\ m7 = {} /\ m12 = 0
    BY DEF CheckinPage!Init
<1> QED
    BY <1>1, <1>2, BoundsAssumption DEF FormTypes

LEMMA FormTypesNext ==
    ASSUME FormTypes, [CheckinPage!Next]_CheckinPage!formVars PROVE FormTypes'
<1> USE DEF FormTypes, CheckinPage!identityVars
<1>1. ASSUME NEW g \in OneGuest,
             \/ CheckinPage!handleGuestSelected(g) \/ CheckinPage!ProfileComes(g)
      PROVE  FormTypes'
    BY <1>1 DEF CheckinPage!handleGuestSelected, CheckinPage!ProfileComes,
                CheckinPage!SelectGuest, CheckinPage!FillProfile
<1>2. ASSUME NEW g \in OneGuest, CheckinPage!GuestCreated(g)
      PROVE  FormTypes'
    BY <1>2 DEF CheckinPage!GuestCreated, CheckinPage!SelectGuest
<1>3. CASE CheckinPage!ClearGuest \/ CheckinPage!createPrimaryGuest
    BY <1>3 DEF CheckinPage!ClearGuest, CheckinPage!createPrimaryGuest
<1>4. CASE \/ CheckinPage!AutofillGuest \/ CheckinPage!EditIdentity
           \/ \E r \in Rooms : CheckinPage!ChooseRoom(r)
    BY <1>4 DEF CheckinPage!AutofillGuest, CheckinPage!EditIdentity,
                CheckinPage!ChooseRoom
<1>5. ASSUME NEW b, CheckinPage!validateAndSubmit(b)
      PROVE  FormTypes'
  <2>1. m12 < MaxTries /\ m12' = m12 + 1 /\ UNCHANGED <<m3, m4, m5, m6, m7, m8>>
      BY <1>5 DEF CheckinPage!validateAndSubmit
  <2> QED
      BY <2>1, BoundsAssumption
<1>6. CASE \/ CheckinPage!PatchGuest \/ CheckinPage!CreateCoGuests
           \/ CheckinPage!PatchBooking \/ CheckinPage!WriteNote
    BY <1>6 DEF CheckinPage!PatchGuest, CheckinPage!CreateCoGuests,
                CheckinPage!PatchBooking, CheckinPage!WriteNote
<1>7. CASE CheckinPage!CheckIn
    BY <1>7 DEF CheckinPage!CheckIn
<1>8. CASE UNCHANGED CheckinPage!formVars
    BY <1>8 DEF CheckinPage!formVars
<1> QED
    BY <1>1, <1>2, <1>3, <1>4, <1>5, <1>6, <1>7, <1>8 DEF CheckinPage!Next

LEMMA FormTyped ==
    ASSUME FormTypes, CheckinPage!ChargedOnce PROVE CheckinPage!TypeOK
    BY DEF FormTypes, CheckinPage!ChargedOnce, CheckinPage!TypeOK

-----------------------------------------------------------------------------
(* Types: the scan *)

\* What ScanKept leaves open of the types.
ScanTypes ==
    /\ m5 \in BOOLEAN
    /\ m10 \in [ScanPanel!Sides -> {"empty", "preparing", "editing", "saving", "saved"}]
    /\ m11 \in ScanPanel!Sides \union {None}

LEMMA ScanTypesInit == ScanPanel!Init => ScanTypes
<1> SUFFICES ASSUME ScanPanel!Init PROVE ScanTypes
    OBVIOUS
<1>1. m5 \in BOOLEAN
    BY Zenon DEF ScanPanel!Init
<1> QED
    BY <1>1 DEF ScanPanel!Init, ScanTypes

LEMMA ScanTypesNext ==
    ASSUME ScanTypes, [ScanPanel!Next]_ScanPanel!scanVars PROVE ScanTypes'
<1> DEFINE Tiles == /\ m10' \in [ScanPanel!Sides ->
                                   {"empty", "preparing", "editing", "saving", "saved"}]
                    /\ m11' \in ScanPanel!Sides \union {None}
<1>1. ASSUME UNCHANGED <<m10, m11>> PROVE Tiles
    BY <1>1 DEF ScanTypes
<1>2. ASSUME m5' = m5 PROVE m5' \in BOOLEAN
    BY <1>2, Zenon DEF ScanTypes
<1>3. ASSUME NEW i \in 1 .. MaxScans,
             ScanPanel!Answer(i) \/ ScanPanel!triggerFrontOcrFallback(i)
      PROVE  UNCHANGED <<m10, m11>>
    BY <1>3
    DEF ScanPanel!Answer, ScanPanel!PlainAnswered, ScanPanel!FrontProbed,
        ScanPanel!FrontRead, ScanPanel!BackProbed, ScanPanel!DigitsRead,
        ScanPanel!AddressRead, ScanPanel!FrontFirst, ScanPanel!BackRead,
        ScanPanel!triggerFrontOcrFallback, ScanPanel!tiles
<1>4. ASSUME NEW i \in 1 .. MaxScans,
             ScanPanel!Answer(i) \/ ScanPanel!triggerFrontOcrFallback(i)
      PROVE  m5' \in BOOLEAN
  <2>1. CASE ScanPanel!PlainAnswered(i)
      BY <1>2, <2>1, Zenon DEF ScanPanel!PlainAnswered
  <2>2. CASE ScanPanel!FrontProbed(i)
    <3>1. m5' = TRUE \/ m5' = FALSE \/ \E r : m5' = ~r.addr
        BY <2>2, Zenon DEF ScanPanel!FrontProbed
    <3> QED
        BY <3>1, Zenon
  <2>3. CASE ScanPanel!FrontRead(i) \/ ScanPanel!DigitsRead(i) \/ ScanPanel!FrontFirst(i)
      BY <1>2, <2>3, Zenon
      DEF ScanPanel!FrontRead, ScanPanel!DigitsRead, ScanPanel!FrontFirst
  <2>4. CASE ScanPanel!BackProbed(i)
    <3>1. \E r : ScanPanel!BackQr(i, r) \/ ScanPanel!BackText(i)
        BY <2>4, Zenon DEF ScanPanel!BackProbed
    <3>2. m5' = FALSE \/ m5' = m5
        BY <3>1, Zenon DEF ScanPanel!BackQr, ScanPanel!BackText
    <3> QED
        BY <1>2, <3>2, Zenon
  <2>5. CASE ScanPanel!AddressRead(i) \/ ScanPanel!BackRead(i)
      BY <2>5, Zenon DEF ScanPanel!AddressRead, ScanPanel!BackRead
  <2>6. CASE ScanPanel!triggerFrontOcrFallback(i)
      BY <2>6, Zenon DEF ScanPanel!triggerFrontOcrFallback
  <2> QED
      BY <1>4, <2>1, <2>2, <2>3, <2>4, <2>5, <2>6 DEF ScanPanel!Answer
<1>5. ASSUME NEW i \in 1 .. MaxScans, NEW side \in ScanPanel!Sides, NEW card,
             ScanPanel!OpenEditor(i, side, card)
      PROVE  Tiles /\ m5' \in BOOLEAN
  <2>1. Tiles
      BY <1>5 DEF ScanPanel!OpenEditor, ScanTypes
  <2>2. m5' = FALSE
      BY <1>5, Zenon
      DEF ScanPanel!OpenEditor, ScanPanel!FrontUpload, ScanPanel!BackUpload
  <2> QED
      BY <2>1, <2>2, Zenon
<1>6. CASE ScanPanel!AcceptAutofill \/ UNCHANGED ScanPanel!scanVars
  <2>1. UNCHANGED <<m10, m11>>
      BY <1>6 DEF ScanPanel!AcceptAutofill, ScanPanel!tiles, ScanPanel!scanVars
  <2>2. m5' = m5
      BY <1>6 DEF ScanPanel!AcceptAutofill, ScanPanel!scanVars
  <2> QED
      BY <1>1, <1>2, <2>1, <2>2 DEF ScanTypes
<1>7. CASE ScanPanel!ChangeType
  <2>1. UNCHANGED <<m10, m11>>
      BY <1>7 DEF ScanPanel!ChangeType, ScanPanel!tiles
  <2>2. m5' = FALSE
      BY <1>7, Zenon DEF ScanPanel!ChangeType
  <2> QED
      BY <1>1, <2>1, <2>2, Zenon DEF ScanTypes
<1>8. ASSUME NEW side \in ScanPanel!Sides, ScanPanel!PickFile(side) \/ ScanPanel!Saved(side)
      PROVE  Tiles /\ m5' = m5
    BY <1>8 DEF ScanPanel!PickFile, ScanPanel!Saved, ScanTypes
<1>9. ASSUME NEW confirmed, ScanPanel!CloseEditor(confirmed)
      PROVE  Tiles /\ m5' = m5
    BY <1>9 DEF ScanPanel!CloseEditor, ScanTypes
<1> HIDE DEF Tiles
<1>10. \/ ScanTypes' \/ (Tiles /\ m5' \in BOOLEAN)
    BY <1>1, <1>2, <1>3, <1>4, <1>5, <1>6, <1>7, <1>8, <1>9 DEF ScanPanel!Next
<1> QED
    BY <1>10 DEF ScanTypes, Tiles

LEMMA AwaitedBound ==
    ASSUME NEW n
    PROVE  /\ ScanPanel!Cardinality(ScanPanel!Awaited(n)) \in Nat
           /\ ScanPanel!Cardinality(ScanPanel!Awaited(n)) <= MaxScans
<1> DEFINE A == ScanPanel!Awaited(n)
<1>1. A \subseteq 1 .. MaxScans
    BY DEF ScanPanel!Awaited
<1> HIDE DEF A
<1>2. IsFiniteSet(1 .. MaxScans) /\ Cardinality(1 .. MaxScans) = MaxScans
    BY ScansAssumption, FS_Interval
<1>3. Cardinality(A) \in Nat /\ Cardinality(A) <= MaxScans
    BY <1>1, <1>2, FS_Subset, FS_CardinalityType
<1>4. ScanPanel!Cardinality(A) = Cardinality(A)
    BY Zenon DEF ScanPanel!Cardinality, Cardinality
<1> QED
    BY <1>3, <1>4 DEF A

LEMMA ScanTypedAll ==
    ASSUME ScanTypes, ScanKept PROVE ScanPanel!TypeOK
<1>1. m6 \in 0 .. 2 * MaxScans
  <2> DEFINE one == ScanPanel!Cardinality(ScanPanel!Awaited(1))
             two == ScanPanel!Cardinality(ScanPanel!Awaited(2))
  <2>1. one \in Nat /\ one <= MaxScans /\ two \in Nat /\ two <= MaxScans
      BY AwaitedBound
  <2>2. m6 \in Nat /\ m6 <= one + two
      BY DEF ScanKept, ScanPanel!ScansTyped, ScanPanel!SpinnerHonest
  <2> HIDE DEF one, two
  <2> QED
      BY <2>1, <2>2, ScansAssumption
<1>2. \A i \in 1 .. MaxScans :
        /\ m9[i].at \in {"free", "done", "plainFront", "plainBack", "frontProbe",
                         "rescan", "backProbe", "digits", "addrOcr", "frontOcr",
                         "backOcr", "fallback"}
        /\ {m9[i].card, m9[i].spare} \subseteq ScanPanel!CardKinds \union {None}
    BY DEF ScanKept, ScanPanel!ScansTyped, ScanPanel!Stages, ScanPanel!BackStages
<1>3. {m5, m7, m12} \subseteq BOOLEAN
    BY Zenon DEF ScanTypes, ScanKept, ScanPanel!ScansTyped
<1>4. /\ m1 \in {"aadhaar", "other"} /\ {m2, m3} \subseteq ScanPanel!Scan \union {None}
      /\ m4 \in ScanPanel!CardKinds \union {None}
      /\ m8 \in [id : ScanPanel!Numbers, addr : BOOLEAN]
    BY DEF ScanKept, ScanPanel!ScansTyped
<1> QED
    BY <1>1, <1>2, <1>3, <1>4 DEF ScanTypes, ScanPanel!TypeOK

-----------------------------------------------------------------------------
(* Types: the documents of a guest *)

\* What CameraHeld and DocFollows leave open of the types.
DocTypes ==
    /\ m1 \in {"upload", "queued"} /\ m2 \in BOOLEAN /\ m3 \in BOOLEAN
    /\ m4 \in DocumentPanel!Pictures \union {None}
    /\ m5 \in DocumentPanel!Pictures \union {None}
    /\ m6 \in BOOLEAN /\ m7 \in BOOLEAN /\ m9 \in BOOLEAN /\ m12 \in 0 .. MaxAsks
    /\ m11 = TRUE => m12 < MaxAsks

LEMMA DocTypesInit == DocumentPanel!Init => DocTypes
<1> SUFFICES ASSUME DocumentPanel!Init PROVE DocTypes
    OBVIOUS
<1>1. m2 \in BOOLEAN /\ m3 \in BOOLEAN /\ m6 \in BOOLEAN /\ m7 \in BOOLEAN
        /\ m9 \in BOOLEAN
    BY Zenon DEF DocumentPanel!Init
<1>2. /\ m1 \in {"upload", "queued"} /\ m4 \in {None, Old} /\ m5 = None /\ m12 = 0
      /\ m11 = FALSE
    BY DEF DocumentPanel!Init
<1> QED
    BY <1>1, <1>2, BoundsAssumption DEF DocTypes, DocumentPanel!Pictures

LEMMA DocTypesNext ==
    ASSUME DocTypes, DocumentPanel!CameraHeld,
           [DocumentPanel!Next]_DocumentPanel!docVars
    PROVE  DocTypes'
<1> USE DEF DocTypes, DocumentPanel!tileVars, DocumentPanel!cameraVars
<1> DEFINE Flags == m2' \in BOOLEAN /\ m3' \in BOOLEAN /\ m6' \in BOOLEAN
                      /\ m7' \in BOOLEAN /\ m9' \in BOOLEAN
           Tile == /\ m1' \in {"upload", "queued"}
                   /\ m4' \in DocumentPanel!Pictures \union {None}
                   /\ m5' \in DocumentPanel!Pictures \union {None}
           Camera == m12' \in 0 .. MaxAsks /\ (m11' = TRUE => m12' < MaxAsks)
<1>1. MaxAsks \in Nat
    BY BoundsAssumption
<1>2. ASSUME UNCHANGED DocumentPanel!tileVars PROVE Flags /\ Tile
    BY <1>2
<1>3. ASSUME UNCHANGED DocumentPanel!cameraVars PROVE Camera
    BY <1>3
<1>4. CASE DocumentPanel!DocsListed
  <2>1. Flags
      BY <1>4, Zenon DEF DocumentPanel!DocsListed
  <2>2. Tile /\ Camera
      BY <1>3, <1>4 DEF DocumentPanel!DocsListed
  <2> QED
      BY <2>1, <2>2
<1>5. CASE DocumentPanel!ExistingLoaded
  <2>1. Flags
      BY <1>5, Zenon DEF DocumentPanel!ExistingLoaded
  <2>2. Tile /\ Camera
      BY <1>3, <1>5 DEF DocumentPanel!ExistingLoaded, DocumentPanel!Pictures
  <2> QED
      BY <2>1, <2>2
<1>6. ASSUME NEW f \in Files, DocumentPanel!Choose(f) PROVE Flags /\ Tile
  <2>1. Flags
      BY <1>6, Zenon DEF DocumentPanel!Choose
  <2>2. Tile
      BY <1>6 DEF DocumentPanel!Choose
  <2> QED
      BY <2>1, <2>2
<1>7. ASSUME DocumentPanel!Released PROVE Camera
  <2>1. m11' = FALSE /\ m12' = m12 + (IF m11 THEN 1 ELSE 0)
      BY <1>7 DEF DocumentPanel!Released
  <2>2. m11 = TRUE \/ m11 = FALSE
      BY Zenon DEF DocumentPanel!CameraHeld
  <2> QED
      BY <1>1, <2>1, <2>2
<1>8. ASSUME NEW f \in Files, DocumentPanel!onFile(f) \/ DocumentPanel!capture(f)
      PROVE  Flags /\ Tile /\ Camera
    BY <1>3, <1>6, <1>7, <1>8 DEF DocumentPanel!onFile, DocumentPanel!capture
<1>9. ASSUME NEW f \in Files,
             \/ DocumentPanel!Prepared(f) \/ DocumentPanel!CancelEdit(f)
             \/ DocumentPanel!ConfirmEdit(f) \/ DocumentPanel!Sent(f)
             \/ DocumentPanel!NotSent(f)
      PROVE  Flags /\ Tile /\ Camera
  <2>1. Flags
      BY <1>9, Zenon
      DEF DocumentPanel!Prepared, DocumentPanel!CancelEdit,
          DocumentPanel!ConfirmEdit, DocumentPanel!Sent, DocumentPanel!NotSent
  <2>2. Tile /\ UNCHANGED DocumentPanel!cameraVars
      BY <1>9
      DEF DocumentPanel!Prepared, DocumentPanel!CancelEdit, DocumentPanel!Pictures,
          DocumentPanel!ConfirmEdit, DocumentPanel!Sent, DocumentPanel!NotSent
  <2> QED
      BY <1>3, <2>1, <2>2
<1>10. CASE DocumentPanel!handleCameraClick
  <2>1. m12 < MaxAsks /\ m12' = m12 /\ UNCHANGED DocumentPanel!tileVars
      BY <1>10 DEF DocumentPanel!handleCameraClick
  <2> QED
      BY <1>2, <2>1
<1>11. CASE DocumentPanel!CloseCamera
    BY <1>2, <1>7, <1>11 DEF DocumentPanel!CloseCamera
<1>12. CASE DocumentPanel!Granted
  <2>1. m11' = FALSE /\ m12' = m12 /\ UNCHANGED DocumentPanel!tileVars
      BY <1>12 DEF DocumentPanel!Granted
  <2> QED
      BY <1>2, <2>1
<1>13. CASE DocumentPanel!GrantedLate
  <2>1. m12 > 0 /\ m12' = m12 - 1 /\ UNCHANGED DocumentPanel!tileVars
      BY <1>13 DEF DocumentPanel!GrantedLate
  <2> QED
      BY <1>1, <1>2, <2>1
<1>14. CASE DocumentPanel!Refused
  <2>1. UNCHANGED DocumentPanel!tileVars
      BY <1>14 DEF DocumentPanel!Refused
  <2>2. CASE DocumentPanel!Released
      BY <1>2, <1>7, <2>1, <2>2
  <2>3. CASE ~DocumentPanel!Released
    <3>1. m12 > 0 /\ m11' = FALSE /\ m12' = (m12 - 1) + (IF m11 THEN 1 ELSE 0)
        BY <1>14, <2>3 DEF DocumentPanel!Refused
    <3>2. m11 = TRUE \/ m11 = FALSE
        BY Zenon DEF DocumentPanel!CameraHeld
    <3> QED
        BY <1>1, <1>2, <2>1, <3>1, <3>2
  <2> QED
      BY <2>2, <2>3
<1>15. CASE UNCHANGED DocumentPanel!docVars
    BY <1>2, <1>3, <1>15 DEF DocumentPanel!docVars
<1>16. Flags /\ Tile /\ Camera => DocTypes'
    BY Zenon
<1> HIDE DEF DocTypes, Flags, Tile, Camera
<1> QED
    BY <1>4, <1>5, <1>8, <1>9, <1>10, <1>11, <1>12, <1>13, <1>14, <1>15, <1>16
    DEF DocumentPanel!Next

LEMMA DocsTyped ==
    ASSUME DocTypes, DocumentPanel!CameraHeld, DocumentPanel!DocFollows
    PROVE  DocumentPanel!TypeOK
<1>1. {m2, m3, m6, m7, m9} \subseteq BOOLEAN /\ {m10, m11} \subseteq BOOLEAN
    BY Zenon DEF DocTypes, DocumentPanel!CameraHeld
<1>2. m13 \in Nat
    BY DEF DocumentPanel!CameraHeld
<1> QED
    BY <1>1, <1>2 DEF DocTypes, DocumentPanel!DocFollows, DocumentPanel!TypeOK

-----------------------------------------------------------------------------
(* Types: the voucher *)

\* The files being fetched, and what is counted at most once per click.
Fetching(p) == IF p \in m4 THEN 1 ELSE 0
PhoneAsked == IF m8 THEN 1 ELSE 0

\* What WaitingUnprinted leaves open of the types: nothing is saved, shared,
\* opened or told of that was not asked for.
VoucherTypes ==
    /\ m3 \in 0 .. MaxJobs /\ m4 \subseteq VoucherPage!Purposes
    /\ m5 \in Nat /\ m6 \in Nat /\ m7 \in Nat /\ m9 \in Nat /\ m10 \in Nat
    /\ m11 \in 0 .. MaxSends
    /\ m5 + m6 + m10 + Fetching("download") + Fetching("whatsapp") + Fetching("share") <= m11
    /\ m7 + PhoneAsked + Fetching("share") <= m11
    /\ m9 + Fetching("download") <= m11

LEMMA VoucherTypesInit == VoucherPage!Init => VoucherTypes
<1> SUFFICES ASSUME VoucherPage!Init PROVE VoucherTypes
    OBVIOUS
<1>1. /\ m3 = 0 /\ m4 = {} /\ m5 = 0 /\ m6 = 0 /\ m7 = 0 /\ m8 = FALSE
      /\ m9 = 0 /\ m10 = 0 /\ m11 = 0
    BY DEF VoucherPage!Init
<1>2. PhoneAsked = 0
    BY <1>1 DEF PhoneAsked
<1> QED
    BY <1>1, <1>2, BoundsAssumption DEF VoucherTypes, Fetching

\* The dialog is there or it is not.
LEMMA PhoneDialogInit == VoucherPage!Init => m8 \in BOOLEAN
    BY Zenon DEF VoucherPage!Init

LEMMA PhoneDialogNext ==
    m8 \in BOOLEAN /\ [VoucherPage!Next]_VoucherPage!vars => m8' \in BOOLEAN
<1> SUFFICES ASSUME m8 \in BOOLEAN, [VoucherPage!Next]_VoucherPage!vars
             PROVE  m8' \in BOOLEAN
    OBVIOUS
<1>1. m8' = m8 \/ m8' = TRUE \/ m8' = FALSE
    BY DEF VoucherPage!Next, VoucherPage!vars, VoucherPage!jobVars,
           VoucherPage!sendVars, VoucherPage!handlePrint, VoucherPage!SheetDone,
           VoucherPage!SheetsLate, VoucherPage!doPrint, VoucherPage!PutBack,
           VoucherPage!handleDownloadPdf, VoucherPage!handleShareNative,
           VoucherPage!handleWhatsApp, VoucherPage!PhoneGiven,
           VoucherPage!FetchFailed, VoucherPage!Fetched, VoucherPage!FetchedToShare
<1> QED
    BY <1>1, Zenon

LEMMA VoucherTypesNext ==
    ASSUME VoucherTypes, [VoucherPage!Next]_VoucherPage!vars
    PROVE  VoucherTypes'
<1>0. MaxJobs \in Nat /\ MaxSends \in Nat
    BY BoundsAssumption
<1>00. /\ ~m8 => PhoneAsked = 0
       /\ m8 => PhoneAsked = 1
       /\ PhoneAsked \in {0, 1}
    BY Zenon DEF PhoneAsked
<1>01. m8' = FALSE => PhoneAsked' = 0
    BY Zenon DEF PhoneAsked
<1>02. m8' = TRUE => PhoneAsked' = 1
    BY Zenon DEF PhoneAsked
<1>03. m8' = m8 => PhoneAsked' = PhoneAsked
    BY DEF PhoneAsked
<1> USE DEF Fetching
<1>1. ASSUME UNCHANGED VoucherPage!sendVars, m3' \in 0 .. MaxJobs
      PROVE  VoucherTypes'
    BY <1>03, <1>1 DEF VoucherTypes, VoucherPage!sendVars
<1>2. CASE VoucherPage!handlePrint
  <2>1. m3 < MaxJobs /\ m3' = m3 + 1 /\ UNCHANGED VoucherPage!sendVars
      BY <1>2 DEF VoucherPage!handlePrint
  <2>2. m3' \in 0 .. MaxJobs
      BY <1>0, <2>1 DEF VoucherTypes
  <2> QED
      BY <1>1, <2>1, <2>2
<1>3. ASSUME NEW j, NEW s,
             \/ VoucherPage!SheetDone(j, s) \/ VoucherPage!SheetsLate(j)
             \/ VoucherPage!doPrint(j) \/ VoucherPage!PutBack(j)
      PROVE  VoucherTypes'
  <2>1. m3' = m3 /\ UNCHANGED VoucherPage!sendVars
      BY <1>3 DEF VoucherPage!SheetDone, VoucherPage!SheetsLate,
                  VoucherPage!doPrint, VoucherPage!PutBack
  <2> QED
      BY <1>1, <2>1 DEF VoucherTypes
<1>4. CASE VoucherPage!handleDownloadPdf
  <2>1. /\ m11 < MaxSends /\ m11' = m11 + 1 /\ "download" \notin m4
        /\ m4' = m4 \union {"download"}
        /\ UNCHANGED <<m3, m5, m6, m7, m8, m9, m10>>
      BY <1>4 DEF VoucherPage!handleDownloadPdf, VoucherPage!Ask, VoucherPage!jobVars
  <2> QED
      BY <1>0, <1>00, <1>03, <2>1 DEF VoucherTypes, VoucherPage!Purposes
<1>5. CASE VoucherPage!handleShareNative
  <2>1. /\ m11 < MaxSends /\ m11' = m11 + 1 /\ "share" \notin m4
        /\ m4' = m4 \union {"share"}
        /\ UNCHANGED <<m3, m5, m6, m7, m8, m9, m10>>
      BY <1>5 DEF VoucherPage!handleShareNative, VoucherPage!Ask, VoucherPage!jobVars
  <2> QED
      BY <1>0, <1>00, <1>03, <2>1 DEF VoucherTypes, VoucherPage!Purposes
<1>6. ASSUME NEW b \in BOOLEAN, VoucherPage!handleWhatsApp(b)
      PROVE  VoucherTypes'
  <2>1. /\ m11 < MaxSends /\ m11' = m11 + 1 /\ "whatsapp" \notin m4
        /\ m4' = m4 \union {"whatsapp"}
        /\ UNCHANGED <<m3, m5, m6, m10>>
        /\ \/ m7' = m7 + 1 /\ m9' = m9 + 1 /\ PhoneAsked' = PhoneAsked
           \/ m7' = m7 /\ m9' = m9 /\ PhoneAsked' = 1
      BY <1>6, <1>02, <1>03 DEF VoucherPage!handleWhatsApp, VoucherPage!Ask, VoucherPage!jobVars
  <2>2. PhoneAsked = 0
      BY <1>00, <1>6, Zenon DEF VoucherPage!handleWhatsApp, VoucherPage!Ask
  <2> QED
      BY <1>0, <2>1, <2>2 DEF VoucherTypes, VoucherPage!Purposes
<1>7. ASSUME NEW b \in BOOLEAN, VoucherPage!PhoneGiven(b)
      PROVE  VoucherTypes'
  <2>1. /\ PhoneAsked' = 0 /\ (m7' = m7 + 1 \/ m7' = m7)
        /\ UNCHANGED <<m3, m4, m5, m6, m9, m10, m11>>
      BY <1>7, <1>01 DEF VoucherPage!PhoneGiven, VoucherPage!jobVars
  <2>2. PhoneAsked = 1
      BY <1>00, <1>7, Zenon DEF VoucherPage!PhoneGiven
  <2> QED
      BY <1>0, <2>1, <2>2 DEF VoucherTypes
<1>8. ASSUME NEW p \in VoucherPage!Purposes, VoucherPage!FetchFailed(p)
      PROVE  VoucherTypes'
  <2>1. /\ p \in m4 /\ m4' = m4 \ {p} /\ (m10' = m10 \/ m10' = m10 + 1)
        /\ UNCHANGED <<m3, m5, m6, m7, m8, m9, m11>>
      BY <1>8 DEF VoucherPage!FetchFailed, VoucherPage!jobVars
  <2> QED
      BY <1>0, <1>00, <1>03, <2>1 DEF VoucherTypes, VoucherPage!Purposes
<1>9. ASSUME NEW p \in VoucherPage!Purposes, VoucherPage!Fetched(p)
      PROVE  VoucherTypes'
  <2>1. /\ p \in m4 /\ m4' = m4 \ {p} /\ m5' = m5 + 1
        /\ m9' = (IF p = "download" THEN m9 + 1 ELSE m9)
        /\ UNCHANGED <<m3, m6, m7, m8, m10, m11>>
      BY <1>9 DEF VoucherPage!Fetched, VoucherPage!jobVars
  <2> QED
      BY <1>0, <1>00, <1>03, <2>1 DEF VoucherTypes, VoucherPage!Purposes
<1>10. ASSUME NEW b \in BOOLEAN, NEW c \in BOOLEAN, VoucherPage!FetchedToShare(b, c)
       PROVE  VoucherTypes'
  <2>1. /\ "share" \in m4 /\ m4' = m4 \ {"share"}
        /\ UNCHANGED <<m3, m9, m10, m11>>
        /\ \/ m6' = m6 + 1 /\ PhoneAsked' = PhoneAsked /\ UNCHANGED <<m5, m7>>
           \/ /\ m5' = m5 + 1 /\ m7' = m7 + 1 /\ m6' = m6
              /\ PhoneAsked' = PhoneAsked
           \/ m5' = m5 + 1 /\ PhoneAsked' = 1 /\ UNCHANGED <<m6, m7>>
      BY <1>10, <1>02, <1>03 DEF VoucherPage!FetchedToShare, VoucherPage!jobVars
  <2>2. PhoneAsked = 0
      BY <1>00, <1>10, Zenon DEF VoucherPage!FetchedToShare
  <2> QED
      BY <1>0, <2>1, <2>2 DEF VoucherTypes, VoucherPage!Purposes
<1>11. CASE UNCHANGED VoucherPage!vars
  <2>1. m3' = m3 /\ UNCHANGED VoucherPage!sendVars
      BY <1>11 DEF VoucherPage!vars, VoucherPage!jobVars
  <2> QED
      BY <1>1, <2>1 DEF VoucherTypes
<1> QED
    BY <1>2, <1>3, <1>4, <1>5, <1>6, <1>7, <1>8, <1>9, <1>10, <1>11
    DEF VoucherPage!Next

LEMMA VoucherTyped ==
    ASSUME VoucherTypes, m8 \in BOOLEAN, VoucherPage!WaitingUnprinted
    PROVE  VoucherPage!TypeOK
<1>1. PhoneAsked \in {0, 1}
    BY Zenon DEF PhoneAsked
<1>2. \A n \in {m5, m6, m7, m9, m10, m11} : n \in 0 .. MaxSends
    BY <1>1, BoundsAssumption DEF VoucherTypes, Fetching
<1> QED
    BY <1>2 DEF VoucherTypes, VoucherPage!WaitingUnprinted, VoucherPage!TypeOK

-----------------------------------------------------------------------------
(* Types: the advance booking *)

\* What VoucherKept leaves open of the types.
BookingTypes ==
    /\ m3 \subseteq Dates /\ m4 \in (SUBSET OneRoom) \union {None}
    /\ m9 \in {None, "guest", "booking", "payment"}
    /\ m10 \in {None, "failed", "double_booking"}
    /\ m11 \in 0 .. MaxTries /\ m12 \subseteq OneRoom \X Dates /\ m15 \in BOOLEAN

LEMMA BookingTypesInit == BookingPage!Init => BookingTypes
<1> SUFFICES ASSUME BookingPage!Init PROVE BookingTypes
    OBVIOUS
<1>1. m15 \in BOOLEAN
    BY Zenon DEF BookingPage!Init
<1> QED
    BY <1>1, BoundsAssumption DEF BookingPage!Init, BookingTypes

LEMMA BookingTypesNext ==
    ASSUME BookingTypes, BookingPage!OneUnlessTold,
           [BookingPage!Next]_BookingPage!advanceVars
    PROVE  BookingTypes'
<1> USE DEF BookingTypes, BookingPage!pickerVars, BookingPage!payVars,
            BookingPage!sendVars, BookingPage!serverVars
<1>0. m1 \in Dates /\ m2 \in [Dates -> (SUBSET OneRoom) \union {None}]
    BY DEF BookingPage!OneUnlessTold
<1>1. ASSUME NEW d \in Dates, BookingPage!setDates(d) \/ BookingPage!ListArrives(d)
      PROVE  BookingTypes'
  <2>1. BookingPage!Free(d) \subseteq OneRoom
      BY DEF BookingPage!Free
  <2>2. m4' \in {m4, BookingPage!Free(d)} \/ (m2[d] # None /\ m4' = m2[d])
      BY <1>1 DEF BookingPage!setDates, BookingPage!ListArrives, BookingPage!Told
  <2>3. m4' \in (SUBSET OneRoom) \union {None}
      BY <1>0, <2>1, <2>2
  <2>4. m3' = m3 \union {d} \/ m3' = m3 \ {d}
      BY <1>1 DEF BookingPage!setDates, BookingPage!ListArrives
  <2>5. UNCHANGED <<m9, m10, m11, m12, m15>>
      BY <1>1 DEF BookingPage!setDates, BookingPage!ListArrives
  <2> QED
      BY <2>3, <2>4, <2>5
<1>2. ASSUME NEW why \in {"failed", "double_booking"}, BookingPage!Fails(why)
      PROVE  BookingTypes'
  <2>1. m15' \in BOOLEAN
      BY <1>2, Zenon DEF BookingPage!Fails
  <2>2. /\ m9' = None /\ m10' = why /\ (m3' = m3 \/ m3' = m3 \union {m1})
        /\ UNCHANGED <<m4, m11, m12>>
      BY <1>2 DEF BookingPage!Fails
  <2> QED
      BY <1>0, <2>1, <2>2
<1>3. CASE BookingPage!Succeeds
    BY <1>0, <1>3 DEF BookingPage!Succeeds
<1>4. ASSUME NEW r \in OneRoom, NEW d \in Dates, BookingPage!OtherDesk(r, d)
      PROVE  BookingTypes'
  <2>1. m12' = m12 \union {<<r, d>>} /\ UNCHANGED <<m3, m4, m9, m10, m11, m15>>
      BY <1>4 DEF BookingPage!OtherDesk
  <2> QED
      BY <2>1
<1>5. CASE BookingPage!Refetch
    BY <1>0, <1>5 DEF BookingPage!Refetch
<1>6. CASE \/ \E r \in OneRoom : BookingPage!toggleRoom(r)
           \/ BookingPage!setAdvanceAmount \/ BookingPage!setPaymentCollected
    BY <1>6 DEF BookingPage!toggleRoom, BookingPage!setAdvanceAmount,
                BookingPage!setPaymentCollected, BookingPage!Pay
<1>7. CASE BookingPage!Submit
  <2>1. /\ m11 < MaxTries /\ m11' = m11 + 1 /\ m9' = "guest" /\ m10' = None
        /\ UNCHANGED <<m3, m4, m12, m15>>
      BY <1>7 DEF BookingPage!Submit
  <2> QED
      BY <2>1, BoundsAssumption
<1>8. CASE BookingPage!PatchGuest
  <2>1. BookingPage!Fails("failed") \/
          (m9' = "booking" /\ UNCHANGED <<m3, m4, m10, m11, m12, m15>>)
      BY <1>8 DEF BookingPage!PatchGuest
  <2> QED
      BY <1>2, <2>1
<1>9. CASE BookingPage!CreateBooking
  <2>1. \/ BookingPage!Fails("failed") \/ BookingPage!Fails("double_booking")
        \/ (m9' = "payment" /\ UNCHANGED <<m3, m4, m10, m11, m12, m15>>)
      BY <1>9 DEF BookingPage!CreateBooking
  <2> QED
      BY <1>2, <2>1
<1>10. CASE BookingPage!RecordAdvance
    BY <1>2, <1>3, <1>10 DEF BookingPage!RecordAdvance
<1>11. CASE UNCHANGED BookingPage!advanceVars
    BY <1>11 DEF BookingPage!advanceVars
<1> HIDE DEF BookingTypes
<1> QED
    BY <1>1, <1>4, <1>5, <1>6, <1>7, <1>8, <1>9, <1>10, <1>11 DEF BookingPage!Next

LEMMA BookingTyped ==
    ASSUME BookingTypes, BookingPage!VoucherKept PROVE BookingPage!TypeOK
<1>1. {m6, m7, m15, m16} \subseteq BOOLEAN
    BY Zenon DEF BookingTypes, BookingPage!VoucherKept
<1>2. m13 \in Seq([rooms : SUBSET OneRoom, dates : Dates, paid : BOOLEAN])
    BY DEF BookingPage!VoucherKept, BookingPage!OneUnlessTold
<1>3. ASSUME NEW i \in DOMAIN m13
      PROVE  m13[i].rooms \subseteq OneRoom /\ m13[i].paid \in BOOLEAN
  <2>1. i \in 1 .. Len(m13)
      BY <1>2, <1>3, LenProperties
  <2> DEFINE R == [rooms : SUBSET OneRoom, dates : Dates, paid : BOOLEAN]
  <2> HIDE DEF R
  <2>2. m13[i] \in R
      BY <1>2, <2>1, ElementOfSeq DEF R
  <2> USE DEF R
  <2>3. m13[i].rooms \subseteq OneRoom
      BY <2>2
  <2>4. \E paid \in BOOLEAN : m13[i].paid = paid
      BY <2>2
  <2> QED
      BY <2>3, <2>4, Zenon
<1>4. /\ m1 \in Dates /\ m2 \in [Dates -> (SUBSET OneRoom) \union {None}]
      /\ m5 \subseteq OneRoom /\ m14 \in 0 .. Len(m13)
    BY DEF BookingPage!VoucherKept, BookingPage!OneUnlessTold
<1> QED
    BY <1>1, <1>3, <1>4 DEF BookingTypes, BookingPage!TypeOK

-----------------------------------------------------------------------------
(* Types: the in-house guests *)

\* The dialog shows a stay, and a form is of the edit dialog.
GuestsDialog ==
    /\ m7 \in {GuestsPage!Closed} \union [kind : GuestsPage!Kinds, stay : Stays]
    /\ m8 \subseteq {"payments", "guest"} /\ m9 \in GuestsPage!Maybe(Stays)
    /\ m13 \subseteq GuestsPage!Fields
    /\ m12 # None => m12 \in [GuestsPage!Fields -> GuestsPage!Values] /\ m7.kind = "edit"

\* What the server has, the copies of it, and what is on its way to it.
GuestsRecords ==
    /\ m1 \in [Stays -> [GuestsPage!Fields -> GuestsPage!Values]]
    /\ m2 \in [Stays -> Rooms] /\ m3 \in 0 .. 0
GuestsCopies ==
    /\ m4 \in [Stays -> GuestsPage!Maybe([GuestsPage!BookingFields -> GuestsPage!Values])]
    /\ m5 \in [Stays -> GuestsPage!Maybe(GuestsPage!Values)]
    /\ m6 \in [Stays -> GuestsPage!Maybe(Rooms)]
GuestsSent ==
    /\ m14 # None => m14.stay \in Stays /\ m14.values \in [GuestsPage!Fields -> GuestsPage!Values]
    /\ m15 # None => m15.stay \in Stays /\ m15.to \in Rooms

GuestsTypes ==
    /\ GuestsDialog /\ GuestsRecords /\ GuestsCopies /\ GuestsSent
    /\ GuestsPage!GuestFirst /\ GuestsPage!PrintsAskedFor /\ m10 \in 0 .. MaxPrints

LEMMA GuestsTypesInit == GuestsPage!Init => GuestsTypes
<1> SUFFICES ASSUME GuestsPage!Init PROVE GuestsTypes
    OBVIOUS
<1>1. GuestsPage!GuestFirst /\ GuestsPage!PrintsAskedFor
    BY DEF GuestsPage!Init, GuestsPage!GuestFirst, GuestsPage!PrintsAskedFor, GuestsPage!Closed
<1>2. GuestsDialog /\ GuestsSent
    BY DEF GuestsPage!Init, GuestsDialog, GuestsSent, GuestsPage!Maybe
<1>3. GuestsCopies
    BY DEF GuestsPage!Init, GuestsCopies, GuestsPage!Maybe
<1>4. GuestsRecords
    BY DEF GuestsPage!Init, GuestsRecords, GuestsPage!Values
<1>5. m10 \in 0 .. MaxPrints
    BY BoundsAssumption DEF GuestsPage!Init
<1> QED
    BY <1>1, <1>2, <1>3, <1>4, <1>5 DEF GuestsTypes

LEMMA GuestsDialogNext ==
    ASSUME GuestsTypes, [GuestsPage!Next]_GuestsPage!currentGuestsVars PROVE GuestsDialog'
<1> DEFINE Dialogs == {GuestsPage!Closed} \union [kind : GuestsPage!Kinds, stay : Stays]
<1>0. GuestsDialog /\ GuestsCopies
    BY DEF GuestsTypes
<1>1. ASSUME NEW k \in GuestsPage!Kinds, NEW s \in Stays, GuestsPage!Open(k, s)
      PROVE  GuestsDialog'
  <2>1. /\ m7' = [kind |-> k, stay |-> s] /\ m8' = {} /\ m12' = None /\ m13' = {}
        /\ m9' = (IF s = m7.stay THEN m9 ELSE None)
      BY <1>1 DEF GuestsPage!Open
  <2>2. m7' \in [kind : GuestsPage!Kinds, stay : Stays]
      BY <2>1
  <2> QED
      BY <1>0, <2>1, <2>2 DEF GuestsDialog, GuestsPage!Maybe
<1>2. ASSUME GuestsPage!Close PROVE GuestsDialog'
    BY <1>2 DEF GuestsPage!Close, GuestsDialog, GuestsPage!Maybe
<1>3. CASE GuestsPage!GuestComes \/ GuestsPage!PaymentsCome
  <2>1. /\ m8' \subseteq m8 \union {"payments", "guest"}
        /\ UNCHANGED <<m7, m9, m12, m13>>
      BY <1>3
      DEF GuestsPage!GuestComes, GuestsPage!PaymentsCome, GuestsPage!printVars,
          GuestsPage!editVars
  <2> QED
      BY <1>0, <2>1 DEF GuestsDialog
<1>4. CASE GuestsPage!FillForm
  <2> DEFINE s == m7.stay
             value(f) == IF f # "profile" THEN m4[s][f]
                         ELSE IF GuestsPage!guestKnown(s) THEN m5[s] ELSE GuestsPage!Was
  <2>1. /\ m7.kind = "edit" /\ m4[s] # None /\ m12' = [f \in GuestsPage!Fields |-> value(f)]
        /\ UNCHANGED <<m7, m8, m9, m13>>
      BY <1>4 DEF GuestsPage!FillForm, GuestsPage!printVars
  <2>2. s \in Stays
      BY <1>0, <2>1 DEF GuestsDialog, GuestsPage!Closed
  <2>3. m4[s] \in [GuestsPage!BookingFields -> GuestsPage!Values] /\ m5[s] \in GuestsPage!Maybe(GuestsPage!Values)
      BY <1>0, <2>1, <2>2 DEF GuestsCopies, GuestsPage!Maybe
  <2> HIDE DEF s
  <2>4. \A f \in GuestsPage!Fields : value(f) \in GuestsPage!Values
      BY <2>3
      DEF GuestsPage!Fields, GuestsPage!BookingFields, GuestsPage!guestKnown, GuestsPage!Maybe,
          GuestsPage!Values, GuestsPage!Was
  <2> HIDE DEF value
  <2>5. m12' \in [GuestsPage!Fields -> GuestsPage!Values]
      BY <2>1, <2>4
  <2> QED
      BY <1>0, <2>1, <2>5 DEF GuestsDialog
<1>5. ASSUME NEW f \in GuestsPage!Fields, m12 # None, GuestsPage!Change(f)
      PROVE  GuestsDialog'
  <2>1. /\ m12' = [m12 EXCEPT ![f] = GuestsPage!Mine] /\ m13' = m13 \union {f}
        /\ UNCHANGED <<m7, m8, m9>>
      BY <1>5 DEF GuestsPage!Change, GuestsPage!printVars
  <2>2. m12' \in [GuestsPage!Fields -> GuestsPage!Values]
      BY <1>0, <1>5, <2>1 DEF GuestsDialog, GuestsPage!Values
  <2> QED
      BY <1>0, <1>5, <2>1, <2>2 DEF GuestsDialog
<1>6. CASE UNCHANGED GuestsPage!dialogVars
    BY <1>0, <1>6 DEF GuestsPage!dialogVars, GuestsDialog
<1>7. CASE \E s \in Stays : GuestsPage!View(s) \/ GuestsPage!PrintSlip(s) \/ GuestsPage!Edit(s) \/ GuestsPage!Transfer(s)
    BY <1>1, <1>7
    DEF GuestsPage!View, GuestsPage!PrintSlip, GuestsPage!Edit, GuestsPage!Transfer,
        GuestsPage!Kinds
<1>8. CASE GuestsPage!CloseDialog \/ GuestsPage!AutoPrint \/ GuestsPage!printRegistration
    BY <1>2, <1>8 DEF GuestsPage!CloseDialog, GuestsPage!AutoPrint, GuestsPage!printRegistration
<1>9. CASE GuestsPage!EditBooking \/ GuestsPage!EditGuest
    BY <1>5, <1>9
    DEF GuestsPage!EditBooking, GuestsPage!EditGuest, GuestsPage!Fields,
        GuestsPage!BookingFields
<1>10. CASE GuestsPage!submit \/ GuestsPage!PartSaved \/ GuestsPage!TransferAnswers
    BY <1>2, <1>6, <1>10 DEF GuestsPage!submit, GuestsPage!PartSaved, GuestsPage!TransferAnswers
<1>11. CASE \/ GuestsPage!BookingComes \/ GuestsPage!PartRefused
            \/ (\E r \in Rooms : GuestsPage!SendTransfer(r))
            \/ (\E s \in Stays, f \in GuestsPage!Fields : GuestsPage!OtherDesk(s, f))
            \/ UNCHANGED GuestsPage!currentGuestsVars
  <2>1. UNCHANGED GuestsPage!dialogVars
      BY <1>11 DEF GuestsPage!BookingComes, GuestsPage!PartRefused, GuestsPage!SendTransfer,
                   GuestsPage!OtherDesk, GuestsPage!currentGuestsVars, GuestsPage!dialogVars,
                   GuestsPage!printVars, GuestsPage!editVars
  <2> QED
      BY <1>6, <2>1
<1> QED
    BY <1>3, <1>4, <1>7, <1>8, <1>9, <1>10, <1>11 DEF GuestsPage!Next

LEMMA GuestsRecordsNext ==
    ASSUME GuestsTypes, [GuestsPage!Next]_GuestsPage!currentGuestsVars PROVE GuestsRecords'
<1>0. GuestsRecords /\ GuestsSent
    BY DEF GuestsTypes
<1>1. CASE GuestsPage!PartSaved
  <2> DEFINE s == m14.stay
             fields == m14.fields \intersect GuestsPage!FieldsOf(m14.part)
             now == [f \in GuestsPage!Fields |-> IF f \in fields THEN m14.values[f] ELSE m1[s][f]]
  <2>1. /\ m14 # None /\ m1' = [m1 EXCEPT ![s] = now] /\ UNCHANGED <<m2, m3>>
      BY <1>1 DEF GuestsPage!PartSaved
  <2>2. s \in Stays /\ m14.values \in [GuestsPage!Fields -> GuestsPage!Values]
      BY <1>0, <2>1 DEF GuestsSent
  <2>3. m1[s] \in [GuestsPage!Fields -> GuestsPage!Values]
      BY <1>0, <2>2 DEF GuestsRecords
  <2> HIDE DEF s, fields
  <2>4. now \in [GuestsPage!Fields -> GuestsPage!Values]
      BY <2>2, <2>3
  <2> HIDE DEF now
  <2> QED
      BY <1>0, <2>1, <2>2, <2>4 DEF GuestsRecords
<1>2. CASE GuestsPage!TransferAnswers
  <2>1. /\ m15 # None /\ UNCHANGED <<m1, m3>>
        /\ m2' = m2 \/ m2' = [m2 EXCEPT ![m15.stay] = m15.to]
      BY <1>2 DEF GuestsPage!TransferAnswers
  <2> QED
      BY <1>0, <2>1 DEF GuestsRecords, GuestsSent
<1>3. ASSUME NEW s \in Stays, NEW f \in GuestsPage!Fields, GuestsPage!OtherDesk(s, f)
      PROVE  GuestsRecords'
  <2> DEFINE now == [m1[s] EXCEPT ![f] = GuestsPage!Theirs]
  <2>1. /\ m3 < 0 /\ m3' = m3 + 1 /\ m2' = m2 /\ m1' = [m1 EXCEPT ![s] = now]
      BY <1>3 DEF GuestsPage!OtherDesk
  <2>2. now \in [GuestsPage!Fields -> GuestsPage!Values]
      BY <1>0 DEF GuestsRecords, GuestsPage!Values
  <2> HIDE DEF now
  <2> QED
      BY <1>0, <2>1, <2>2 DEF GuestsRecords
<1>4. CASE UNCHANGED GuestsPage!serverVars
    BY <1>0, <1>4 DEF GuestsRecords, GuestsPage!serverVars
<1> QED
    BY <1>1, <1>2, <1>3, <1>4
    DEF GuestsPage!Next, GuestsPage!currentGuestsVars, GuestsPage!View, GuestsPage!PrintSlip,
        GuestsPage!Edit, GuestsPage!Transfer, GuestsPage!Open, GuestsPage!CloseDialog,
        GuestsPage!BookingComes, GuestsPage!GuestComes, GuestsPage!PaymentsCome,
        GuestsPage!AutoPrint, GuestsPage!printRegistration, GuestsPage!FillForm,
        GuestsPage!EditBooking, GuestsPage!EditGuest, GuestsPage!Change, GuestsPage!submit,
        GuestsPage!PartRefused, GuestsPage!SendTransfer

LEMMA GuestsCopiesNext ==
    ASSUME GuestsTypes, [GuestsPage!Next]_GuestsPage!currentGuestsVars PROVE GuestsCopies'
<1>0. GuestsDialog /\ GuestsRecords /\ GuestsCopies /\ GuestsSent
    BY DEF GuestsTypes
<1>1. CASE GuestsPage!BookingComes
  <2> DEFINE s == m7.stay
             copy == [f \in GuestsPage!BookingFields |-> m1[s][f]]
  <2>1. /\ m7 # GuestsPage!Closed /\ m5' = m5
        /\ \/ m6' = [m6 EXCEPT ![s] = m2[s]] /\ m4' = m4
           \/ m4' = [m4 EXCEPT ![s] = copy] /\ m6' = m6
      BY <1>1 DEF GuestsPage!BookingComes
  <2>2. s \in Stays
      BY <1>0, <2>1 DEF GuestsDialog
  <2> HIDE DEF s
  <2>3. copy \in [GuestsPage!BookingFields -> GuestsPage!Values] /\ m2[s] \in Rooms
      BY <1>0, <2>2 DEF GuestsRecords, GuestsPage!Fields
  <2> HIDE DEF copy
  <2> QED
      BY <1>0, <2>1, <2>2, <2>3 DEF GuestsCopies, GuestsPage!Maybe
<1>2. CASE GuestsPage!GuestComes
  <2> DEFINE s == m7.stay
  <2>1. /\ m7.kind = "edit" /\ UNCHANGED <<m4, m6>>
        /\ m5' = m5 \/ m5' = [m5 EXCEPT ![s] = m1[s].profile]
      BY <1>2 DEF GuestsPage!GuestComes
  <2>2. s \in Stays
      BY <1>0, <2>1 DEF GuestsDialog, GuestsPage!Closed
  <2> HIDE DEF s
  <2>3. m1[s].profile \in GuestsPage!Values
      BY <1>0, <2>2 DEF GuestsRecords, GuestsPage!Fields
  <2> QED
      BY <1>0, <2>1, <2>2, <2>3 DEF GuestsCopies, GuestsPage!Maybe
<1>3. CASE GuestsPage!PartSaved
  <2> DEFINE s == m14.stay
             copy == [f \in GuestsPage!BookingFields |-> m1'[s][f]]
  <2>1. /\ m14 # None
        /\ \/ UNCHANGED <<m4, m5, m6>>
           \/ /\ m4' = [m4 EXCEPT ![s] = copy]
              /\ m5' = [m5 EXCEPT ![s] = m1'[s].profile] /\ m6' = m6
      BY <1>3 DEF GuestsPage!PartSaved, GuestsPage!copies
  <2>2. s \in Stays
      BY <1>0, <2>1 DEF GuestsSent
  <2>3. GuestsRecords'
      BY GuestsRecordsNext
  <2> HIDE DEF s
  <2>4. copy \in [GuestsPage!BookingFields -> GuestsPage!Values] /\ m1'[s].profile \in GuestsPage!Values
      BY <2>2, <2>3 DEF GuestsRecords, GuestsPage!Fields
  <2> HIDE DEF copy
  <2> QED
      BY <1>0, <2>1, <2>2, <2>4 DEF GuestsCopies, GuestsPage!Maybe
<1>4. CASE UNCHANGED GuestsPage!copies
    BY <1>0, <1>4 DEF GuestsCopies, GuestsPage!copies
<1> QED
    BY <1>1, <1>2, <1>3, <1>4
    DEF GuestsPage!Next, GuestsPage!currentGuestsVars, GuestsPage!View, GuestsPage!PrintSlip,
        GuestsPage!Edit, GuestsPage!Transfer, GuestsPage!Open, GuestsPage!CloseDialog,
        GuestsPage!PaymentsCome, GuestsPage!AutoPrint, GuestsPage!printRegistration,
        GuestsPage!FillForm, GuestsPage!EditBooking, GuestsPage!EditGuest, GuestsPage!Change,
        GuestsPage!submit, GuestsPage!PartRefused, GuestsPage!SendTransfer,
        GuestsPage!TransferAnswers, GuestsPage!OtherDesk

LEMMA GuestsSentNext ==
    ASSUME GuestsTypes, [GuestsPage!Next]_GuestsPage!currentGuestsVars PROVE GuestsSent'
<1>0. GuestsDialog /\ GuestsSent /\ GuestsPage!GuestFirst
    BY DEF GuestsTypes
<1>1. CASE GuestsPage!submit
  <2>1. /\ m12 # None /\ m15' = m15
        /\ m14' = m14 \/ (m14'.stay = m7.stay /\ m14'.values = m12)
      BY <1>1 DEF GuestsPage!submit
  <2>2. m12 \in [GuestsPage!Fields -> GuestsPage!Values] /\ m7.stay \in Stays
      BY <1>0, <2>1 DEF GuestsDialog, GuestsPage!Closed
  <2> QED
      BY <1>0, <2>1, <2>2 DEF GuestsSent
<1>2. CASE GuestsPage!PartSaved
  <2>1. /\ m14 # None /\ m15' = m15
        /\ \/ m14' = None
           \/ m14' = [m14 EXCEPT !.part = GuestsPage!OtherPart(@), !.done = {m14.part}]
      BY <1>2 DEF GuestsPage!PartSaved
  <2>2. {"stay", "values"} \subseteq DOMAIN m14
      BY <1>0, <2>1 DEF GuestsPage!GuestFirst
  <2>3. m14' # None => m14'.stay = m14.stay /\ m14'.values = m14.values
      BY <2>1, <2>2
  <2> QED
      BY <1>0, <2>1, <2>3 DEF GuestsSent
<1>3. CASE GuestsPage!PartRefused
    BY <1>0, <1>3 DEF GuestsPage!PartRefused, GuestsSent
<1>4. ASSUME NEW to \in Rooms, GuestsPage!SendTransfer(to)
      PROVE  GuestsSent'
  <2>1. /\ m7.kind = "transfer" /\ m14' = m14
        /\ m15' = [stay |-> m7.stay, from |-> m6[m7.stay], to |-> to]
      BY <1>4 DEF GuestsPage!SendTransfer, GuestsPage!editVars
  <2>2. m7.stay \in Stays
      BY <1>0, <2>1 DEF GuestsDialog, GuestsPage!Closed
  <2> QED
      BY <1>0, <2>1, <2>2 DEF GuestsSent
<1>5. CASE GuestsPage!TransferAnswers
    BY <1>0, <1>5 DEF GuestsPage!TransferAnswers, GuestsSent
<1>6. CASE UNCHANGED <<m14, m15>>
    BY <1>0, <1>6 DEF GuestsSent
<1> QED
    BY <1>1, <1>2, <1>3, <1>4, <1>5, <1>6
    DEF GuestsPage!Next, GuestsPage!currentGuestsVars, GuestsPage!editVars, GuestsPage!View,
        GuestsPage!PrintSlip, GuestsPage!Edit, GuestsPage!Transfer, GuestsPage!Open,
        GuestsPage!CloseDialog, GuestsPage!BookingComes, GuestsPage!GuestComes,
        GuestsPage!PaymentsCome, GuestsPage!AutoPrint, GuestsPage!printRegistration,
        GuestsPage!FillForm, GuestsPage!EditBooking, GuestsPage!EditGuest, GuestsPage!Change,
        GuestsPage!OtherDesk

LEMMA GuestsTypesNext ==
    ASSUME GuestsTypes, [GuestsPage!Next]_GuestsPage!currentGuestsVars PROVE GuestsTypes'
<1>1. GuestsDialog' /\ GuestsRecords' /\ GuestsCopies' /\ GuestsSent'
    BY GuestsDialogNext, GuestsRecordsNext, GuestsCopiesNext, GuestsSentNext
<1>2. GuestsPage!GuestFirst' /\ GuestsPage!PrintsAskedFor'
    BY FirstGuestsPage, PrintsNext DEF GuestsTypes
<1>3. m10' = m10 \/ (m10 < MaxPrints /\ m10' = m10 + 1)
    BY DEF GuestsPage!Next, GuestsPage!currentGuestsVars, GuestsPage!View, GuestsPage!PrintSlip,
           GuestsPage!Edit, GuestsPage!Transfer, GuestsPage!CloseDialog,
           GuestsPage!BookingComes, GuestsPage!printVars, GuestsPage!GuestComes,
           GuestsPage!PaymentsCome, GuestsPage!AutoPrint, GuestsPage!printRegistration,
           GuestsPage!FillForm, GuestsPage!EditBooking, GuestsPage!EditGuest, GuestsPage!Change,
           GuestsPage!submit, GuestsPage!PartSaved, GuestsPage!PartRefused,
           GuestsPage!SendTransfer, GuestsPage!TransferAnswers, GuestsPage!OtherDesk
<1>4. m10' \in 0 .. MaxPrints
    BY <1>3, BoundsAssumption DEF GuestsTypes
<1> QED
    BY <1>1, <1>2, <1>4 DEF GuestsTypes

LEMMA GuestsTyped == GuestsTypes => GuestsPage!TypeOK
<1> SUFFICES ASSUME GuestsTypes PROVE GuestsPage!TypeOK
    OBVIOUS
<1>1. {m10, m11} \subseteq 0 .. MaxPrints + 1
    BY BoundsAssumption DEF GuestsTypes, GuestsPage!PrintsAskedFor
<1> QED
    BY <1>1 DEF GuestsTypes, GuestsDialog, GuestsRecords, GuestsCopies, GuestsPage!TypeOK

-----------------------------------------------------------------------------
LEMMA SharedPrintsNext ==
    SharedGuestsPage!PrintsAskedFor /\ [SharedGuestsPage!Next]_SharedGuestsPage!currentGuestsVars
        => SharedGuestsPage!PrintsAskedFor'
<1> SUFFICES ASSUME SharedGuestsPage!PrintsAskedFor,
                    [SharedGuestsPage!Next]_SharedGuestsPage!currentGuestsVars
             PROVE  SharedGuestsPage!PrintsAskedFor'
    OBVIOUS
<1> USE DEF SharedGuestsPage!PrintsAskedFor, SharedGuestsPage!Closed, SharedGuestsPage!Close,
            SharedGuestsPage!printVars, SharedGuestsPage!dialogVars
<1>1. ASSUME NEW s \in Stays,
             SharedGuestsPage!View(s) \/ SharedGuestsPage!PrintSlip(s) \/ SharedGuestsPage!Edit(s)
               \/ SharedGuestsPage!Transfer(s)
      PROVE  SharedGuestsPage!PrintsAskedFor'
    BY <1>1 DEF SharedGuestsPage!View, SharedGuestsPage!PrintSlip, SharedGuestsPage!Edit,
                SharedGuestsPage!Transfer, SharedGuestsPage!Open
<1>2. CASE SharedGuestsPage!CloseDialog \/ SharedGuestsPage!AutoPrint \/ SharedGuestsPage!printRegistration
    BY <1>2 DEF SharedGuestsPage!CloseDialog, SharedGuestsPage!AutoPrint,
                SharedGuestsPage!printRegistration
<1>3. CASE SharedGuestsPage!submit \/ SharedGuestsPage!PartSaved \/ SharedGuestsPage!TransferAnswers
    BY <1>3
    DEF SharedGuestsPage!submit, SharedGuestsPage!PartSaved, SharedGuestsPage!TransferAnswers
<1>4. CASE UNCHANGED <<m7, m10, m11>>
    BY <1>4
<1> QED
    BY <1>1, <1>2, <1>3, <1>4
    DEF SharedGuestsPage!Next, SharedGuestsPage!currentGuestsVars, SharedGuestsPage!BookingComes,
        SharedGuestsPage!GuestComes, SharedGuestsPage!PaymentsCome, SharedGuestsPage!FillForm,
        SharedGuestsPage!EditBooking, SharedGuestsPage!EditGuest, SharedGuestsPage!Change,
        SharedGuestsPage!PartRefused, SharedGuestsPage!SendTransfer, SharedGuestsPage!OtherDesk

(* Types: the in-house guests at two desks *)

\* The dialog shows a stay, and a form is of the edit dialog.
SharedDialog ==
    /\ m7 \in {SharedGuestsPage!Closed} \union [kind : SharedGuestsPage!Kinds, stay : Stays]
    /\ m8 \subseteq {"payments", "guest"} /\ m9 \in SharedGuestsPage!Maybe(Stays)
    /\ m13 \subseteq SharedGuestsPage!Fields
    /\ m12 # None => m12 \in [SharedGuestsPage!Fields -> SharedGuestsPage!Values] /\ m7.kind = "edit"

\* What the server has, the copies of it, and what is on its way to it.
SharedRecords ==
    /\ m1 \in [Stays -> [SharedGuestsPage!Fields -> SharedGuestsPage!Values]]
    /\ m2 \in [Stays -> OneRoom] /\ m3 \in 0 .. 1
SharedCopies ==
    /\ m4 \in [Stays -> SharedGuestsPage!Maybe([SharedGuestsPage!BookingFields -> SharedGuestsPage!Values])]
    /\ m5 \in [Stays -> SharedGuestsPage!Maybe(SharedGuestsPage!Values)]
    /\ m6 \in [Stays -> SharedGuestsPage!Maybe(OneRoom)]
SharedSent ==
    /\ m14 # None => m14.stay \in Stays /\ m14.values \in [SharedGuestsPage!Fields -> SharedGuestsPage!Values]
    /\ m15 # None => m15.stay \in Stays /\ m15.to \in OneRoom

SharedTypes ==
    /\ SharedDialog /\ SharedRecords /\ SharedCopies /\ SharedSent
    /\ SharedGuestsPage!GuestFirst /\ SharedGuestsPage!PrintsAskedFor /\ m10 \in 0 .. 0

LEMMA SharedTypesInit == SharedGuestsPage!Init => SharedTypes
<1> SUFFICES ASSUME SharedGuestsPage!Init PROVE SharedTypes
    OBVIOUS
<1>1. SharedGuestsPage!GuestFirst /\ SharedGuestsPage!PrintsAskedFor
    BY DEF SharedGuestsPage!Init, SharedGuestsPage!GuestFirst, SharedGuestsPage!PrintsAskedFor,
           SharedGuestsPage!Closed
<1>2. SharedDialog /\ SharedSent
    BY DEF SharedGuestsPage!Init, SharedDialog, SharedSent, SharedGuestsPage!Maybe
<1>3. SharedCopies
    BY DEF SharedGuestsPage!Init, SharedCopies, SharedGuestsPage!Maybe
<1>4. SharedRecords
    BY DEF SharedGuestsPage!Init, SharedRecords, SharedGuestsPage!Values
<1>5. m10 \in 0 .. 0
    BY BoundsAssumption DEF SharedGuestsPage!Init
<1> QED
    BY <1>1, <1>2, <1>3, <1>4, <1>5 DEF SharedTypes

LEMMA SharedDialogNext ==
    ASSUME SharedTypes, [SharedGuestsPage!Next]_SharedGuestsPage!currentGuestsVars
    PROVE  SharedDialog'
<1> DEFINE Dialogs == {SharedGuestsPage!Closed} \union [kind : SharedGuestsPage!Kinds, stay : Stays]
<1>0. SharedDialog /\ SharedCopies
    BY DEF SharedTypes
<1>1. ASSUME NEW k \in SharedGuestsPage!Kinds, NEW s \in Stays, SharedGuestsPage!Open(k, s)
      PROVE  SharedDialog'
  <2>1. /\ m7' = [kind |-> k, stay |-> s] /\ m8' = {} /\ m12' = None /\ m13' = {}
        /\ m9' = (IF s = m7.stay THEN m9 ELSE None)
      BY <1>1 DEF SharedGuestsPage!Open
  <2>2. m7' \in [kind : SharedGuestsPage!Kinds, stay : Stays]
      BY <2>1
  <2> QED
      BY <1>0, <2>1, <2>2 DEF SharedDialog, SharedGuestsPage!Maybe
<1>2. ASSUME SharedGuestsPage!Close PROVE SharedDialog'
    BY <1>2 DEF SharedGuestsPage!Close, SharedDialog, SharedGuestsPage!Maybe
<1>3. CASE SharedGuestsPage!GuestComes \/ SharedGuestsPage!PaymentsCome
  <2>1. /\ m8' \subseteq m8 \union {"payments", "guest"}
        /\ UNCHANGED <<m7, m9, m12, m13>>
      BY <1>3
      DEF SharedGuestsPage!GuestComes, SharedGuestsPage!PaymentsCome,
          SharedGuestsPage!printVars, SharedGuestsPage!editVars
  <2> QED
      BY <1>0, <2>1 DEF SharedDialog
<1>4. CASE SharedGuestsPage!FillForm
  <2> DEFINE s == m7.stay
             value(f) == IF f # "profile" THEN m4[s][f]
                         ELSE IF SharedGuestsPage!guestKnown(s) THEN m5[s] ELSE SharedGuestsPage!Was
  <2>1. /\ m7.kind = "edit" /\ m4[s] # None /\ m12' = [f \in SharedGuestsPage!Fields |-> value(f)]
        /\ UNCHANGED <<m7, m8, m9, m13>>
      BY <1>4 DEF SharedGuestsPage!FillForm, SharedGuestsPage!printVars
  <2>2. s \in Stays
      BY <1>0, <2>1 DEF SharedDialog, SharedGuestsPage!Closed
  <2>3. m4[s] \in [SharedGuestsPage!BookingFields -> SharedGuestsPage!Values] /\ m5[s] \in SharedGuestsPage!Maybe(SharedGuestsPage!Values)
      BY <1>0, <2>1, <2>2 DEF SharedCopies, SharedGuestsPage!Maybe
  <2> HIDE DEF s
  <2>4. \A f \in SharedGuestsPage!Fields : value(f) \in SharedGuestsPage!Values
      BY <2>3
      DEF SharedGuestsPage!Fields, SharedGuestsPage!BookingFields, SharedGuestsPage!guestKnown,
          SharedGuestsPage!Maybe, SharedGuestsPage!Values, SharedGuestsPage!Was
  <2> HIDE DEF value
  <2>5. m12' \in [SharedGuestsPage!Fields -> SharedGuestsPage!Values]
      BY <2>1, <2>4
  <2> QED
      BY <1>0, <2>1, <2>5 DEF SharedDialog
<1>5. ASSUME NEW f \in SharedGuestsPage!Fields, m12 # None, SharedGuestsPage!Change(f)
      PROVE  SharedDialog'
  <2>1. /\ m12' = [m12 EXCEPT ![f] = SharedGuestsPage!Mine] /\ m13' = m13 \union {f}
        /\ UNCHANGED <<m7, m8, m9>>
      BY <1>5 DEF SharedGuestsPage!Change, SharedGuestsPage!printVars
  <2>2. m12' \in [SharedGuestsPage!Fields -> SharedGuestsPage!Values]
      BY <1>0, <1>5, <2>1 DEF SharedDialog, SharedGuestsPage!Values
  <2> QED
      BY <1>0, <1>5, <2>1, <2>2 DEF SharedDialog
<1>6. CASE UNCHANGED SharedGuestsPage!dialogVars
    BY <1>0, <1>6 DEF SharedGuestsPage!dialogVars, SharedDialog
<1>7. CASE \E s \in Stays : SharedGuestsPage!View(s) \/ SharedGuestsPage!PrintSlip(s) \/ SharedGuestsPage!Edit(s) \/ SharedGuestsPage!Transfer(s)
    BY <1>1, <1>7
    DEF SharedGuestsPage!View, SharedGuestsPage!PrintSlip, SharedGuestsPage!Edit,
        SharedGuestsPage!Transfer, SharedGuestsPage!Kinds
<1>8. CASE SharedGuestsPage!CloseDialog \/ SharedGuestsPage!AutoPrint \/ SharedGuestsPage!printRegistration
    BY <1>2, <1>8
    DEF SharedGuestsPage!CloseDialog, SharedGuestsPage!AutoPrint,
        SharedGuestsPage!printRegistration
<1>9. CASE SharedGuestsPage!EditBooking \/ SharedGuestsPage!EditGuest
    BY <1>5, <1>9
    DEF SharedGuestsPage!EditBooking, SharedGuestsPage!EditGuest, SharedGuestsPage!Fields,
        SharedGuestsPage!BookingFields
<1>10. CASE SharedGuestsPage!submit \/ SharedGuestsPage!PartSaved \/ SharedGuestsPage!TransferAnswers
    BY <1>2, <1>6, <1>10
    DEF SharedGuestsPage!submit, SharedGuestsPage!PartSaved, SharedGuestsPage!TransferAnswers
<1>11. CASE \/ SharedGuestsPage!BookingComes \/ SharedGuestsPage!PartRefused
            \/ (\E r \in OneRoom : SharedGuestsPage!SendTransfer(r))
            \/ (\E s \in Stays, f \in SharedGuestsPage!Fields : SharedGuestsPage!OtherDesk(s, f))
            \/ UNCHANGED SharedGuestsPage!currentGuestsVars
  <2>1. UNCHANGED SharedGuestsPage!dialogVars
      BY <1>11
      DEF SharedGuestsPage!BookingComes, SharedGuestsPage!PartRefused,
          SharedGuestsPage!SendTransfer, SharedGuestsPage!OtherDesk,
          SharedGuestsPage!currentGuestsVars, SharedGuestsPage!dialogVars,
          SharedGuestsPage!printVars, SharedGuestsPage!editVars
  <2> QED
      BY <1>6, <2>1
<1> QED
    BY <1>3, <1>4, <1>7, <1>8, <1>9, <1>10, <1>11 DEF SharedGuestsPage!Next

LEMMA SharedRecordsNext ==
    ASSUME SharedTypes, [SharedGuestsPage!Next]_SharedGuestsPage!currentGuestsVars
    PROVE  SharedRecords'
<1>0. SharedRecords /\ SharedSent
    BY DEF SharedTypes
<1>1. CASE SharedGuestsPage!PartSaved
  <2> DEFINE s == m14.stay
             fields == m14.fields \intersect SharedGuestsPage!FieldsOf(m14.part)
             now == [f \in SharedGuestsPage!Fields |-> IF f \in fields THEN m14.values[f] ELSE m1[s][f]]
  <2>1. /\ m14 # None /\ m1' = [m1 EXCEPT ![s] = now] /\ UNCHANGED <<m2, m3>>
      BY <1>1 DEF SharedGuestsPage!PartSaved
  <2>2. s \in Stays /\ m14.values \in [SharedGuestsPage!Fields -> SharedGuestsPage!Values]
      BY <1>0, <2>1 DEF SharedSent
  <2>3. m1[s] \in [SharedGuestsPage!Fields -> SharedGuestsPage!Values]
      BY <1>0, <2>2 DEF SharedRecords
  <2> HIDE DEF s, fields
  <2>4. now \in [SharedGuestsPage!Fields -> SharedGuestsPage!Values]
      BY <2>2, <2>3
  <2> HIDE DEF now
  <2> QED
      BY <1>0, <2>1, <2>2, <2>4 DEF SharedRecords
<1>2. CASE SharedGuestsPage!TransferAnswers
  <2>1. /\ m15 # None /\ UNCHANGED <<m1, m3>>
        /\ m2' = m2 \/ m2' = [m2 EXCEPT ![m15.stay] = m15.to]
      BY <1>2 DEF SharedGuestsPage!TransferAnswers
  <2> QED
      BY <1>0, <2>1 DEF SharedRecords, SharedSent
<1>3. ASSUME NEW s \in Stays, NEW f \in SharedGuestsPage!Fields, SharedGuestsPage!OtherDesk(s, f)
      PROVE  SharedRecords'
  <2> DEFINE now == [m1[s] EXCEPT ![f] = SharedGuestsPage!Theirs]
  <2>1. /\ m3 < 1 /\ m3' = m3 + 1 /\ m2' = m2 /\ m1' = [m1 EXCEPT ![s] = now]
      BY <1>3 DEF SharedGuestsPage!OtherDesk
  <2>2. now \in [SharedGuestsPage!Fields -> SharedGuestsPage!Values]
      BY <1>0 DEF SharedRecords, SharedGuestsPage!Values
  <2> HIDE DEF now
  <2> QED
      BY <1>0, <2>1, <2>2 DEF SharedRecords
<1>4. CASE UNCHANGED SharedGuestsPage!serverVars
    BY <1>0, <1>4 DEF SharedRecords, SharedGuestsPage!serverVars
<1> QED
    BY <1>1, <1>2, <1>3, <1>4
    DEF SharedGuestsPage!Next, SharedGuestsPage!currentGuestsVars, SharedGuestsPage!View,
        SharedGuestsPage!PrintSlip, SharedGuestsPage!Edit, SharedGuestsPage!Transfer,
        SharedGuestsPage!Open, SharedGuestsPage!CloseDialog, SharedGuestsPage!BookingComes,
        SharedGuestsPage!GuestComes, SharedGuestsPage!PaymentsCome, SharedGuestsPage!AutoPrint,
        SharedGuestsPage!printRegistration, SharedGuestsPage!FillForm,
        SharedGuestsPage!EditBooking, SharedGuestsPage!EditGuest, SharedGuestsPage!Change,
        SharedGuestsPage!submit, SharedGuestsPage!PartRefused, SharedGuestsPage!SendTransfer

LEMMA SharedCopiesNext ==
    ASSUME SharedTypes, [SharedGuestsPage!Next]_SharedGuestsPage!currentGuestsVars
    PROVE  SharedCopies'
<1>0. SharedDialog /\ SharedRecords /\ SharedCopies /\ SharedSent
    BY DEF SharedTypes
<1>1. CASE SharedGuestsPage!BookingComes
  <2> DEFINE s == m7.stay
             copy == [f \in SharedGuestsPage!BookingFields |-> m1[s][f]]
  <2>1. /\ m7 # SharedGuestsPage!Closed /\ m5' = m5
        /\ \/ m6' = [m6 EXCEPT ![s] = m2[s]] /\ m4' = m4
           \/ m4' = [m4 EXCEPT ![s] = copy] /\ m6' = m6
      BY <1>1 DEF SharedGuestsPage!BookingComes
  <2>2. s \in Stays
      BY <1>0, <2>1 DEF SharedDialog
  <2> HIDE DEF s
  <2>3. copy \in [SharedGuestsPage!BookingFields -> SharedGuestsPage!Values] /\ m2[s] \in OneRoom
      BY <1>0, <2>2 DEF SharedRecords, SharedGuestsPage!Fields
  <2> HIDE DEF copy
  <2> QED
      BY <1>0, <2>1, <2>2, <2>3 DEF SharedCopies, SharedGuestsPage!Maybe
<1>2. CASE SharedGuestsPage!GuestComes
  <2> DEFINE s == m7.stay
  <2>1. /\ m7.kind = "edit" /\ UNCHANGED <<m4, m6>>
        /\ m5' = m5 \/ m5' = [m5 EXCEPT ![s] = m1[s].profile]
      BY <1>2 DEF SharedGuestsPage!GuestComes
  <2>2. s \in Stays
      BY <1>0, <2>1 DEF SharedDialog, SharedGuestsPage!Closed
  <2> HIDE DEF s
  <2>3. m1[s].profile \in SharedGuestsPage!Values
      BY <1>0, <2>2 DEF SharedRecords, SharedGuestsPage!Fields
  <2> QED
      BY <1>0, <2>1, <2>2, <2>3 DEF SharedCopies, SharedGuestsPage!Maybe
<1>3. CASE SharedGuestsPage!PartSaved
  <2> DEFINE s == m14.stay
             copy == [f \in SharedGuestsPage!BookingFields |-> m1'[s][f]]
  <2>1. /\ m14 # None
        /\ \/ UNCHANGED <<m4, m5, m6>>
           \/ /\ m4' = [m4 EXCEPT ![s] = copy]
              /\ m5' = [m5 EXCEPT ![s] = m1'[s].profile] /\ m6' = m6
      BY <1>3 DEF SharedGuestsPage!PartSaved, SharedGuestsPage!copies
  <2>2. s \in Stays
      BY <1>0, <2>1 DEF SharedSent
  <2>3. SharedRecords'
      BY SharedRecordsNext
  <2> HIDE DEF s
  <2>4. copy \in [SharedGuestsPage!BookingFields -> SharedGuestsPage!Values] /\ m1'[s].profile \in SharedGuestsPage!Values
      BY <2>2, <2>3 DEF SharedRecords, SharedGuestsPage!Fields
  <2> HIDE DEF copy
  <2> QED
      BY <1>0, <2>1, <2>2, <2>4 DEF SharedCopies, SharedGuestsPage!Maybe
<1>4. CASE UNCHANGED SharedGuestsPage!copies
    BY <1>0, <1>4 DEF SharedCopies, SharedGuestsPage!copies
<1> QED
    BY <1>1, <1>2, <1>3, <1>4
    DEF SharedGuestsPage!Next, SharedGuestsPage!currentGuestsVars, SharedGuestsPage!View,
        SharedGuestsPage!PrintSlip, SharedGuestsPage!Edit, SharedGuestsPage!Transfer,
        SharedGuestsPage!Open, SharedGuestsPage!CloseDialog, SharedGuestsPage!PaymentsCome,
        SharedGuestsPage!AutoPrint, SharedGuestsPage!printRegistration,
        SharedGuestsPage!FillForm, SharedGuestsPage!EditBooking, SharedGuestsPage!EditGuest,
        SharedGuestsPage!Change, SharedGuestsPage!submit, SharedGuestsPage!PartRefused,
        SharedGuestsPage!SendTransfer, SharedGuestsPage!TransferAnswers,
        SharedGuestsPage!OtherDesk

LEMMA SharedSentNext ==
    ASSUME SharedTypes, [SharedGuestsPage!Next]_SharedGuestsPage!currentGuestsVars PROVE SharedSent'
<1>0. SharedDialog /\ SharedSent /\ SharedGuestsPage!GuestFirst
    BY DEF SharedTypes
<1>1. CASE SharedGuestsPage!submit
  <2>1. /\ m12 # None /\ m15' = m15
        /\ m14' = m14 \/ (m14'.stay = m7.stay /\ m14'.values = m12)
      BY <1>1 DEF SharedGuestsPage!submit
  <2>2. m12 \in [SharedGuestsPage!Fields -> SharedGuestsPage!Values] /\ m7.stay \in Stays
      BY <1>0, <2>1 DEF SharedDialog, SharedGuestsPage!Closed
  <2> QED
      BY <1>0, <2>1, <2>2 DEF SharedSent
<1>2. CASE SharedGuestsPage!PartSaved
  <2>1. /\ m14 # None /\ m15' = m15
        /\ \/ m14' = None
           \/ m14' = [m14 EXCEPT !.part = SharedGuestsPage!OtherPart(@), !.done = {m14.part}]
      BY <1>2 DEF SharedGuestsPage!PartSaved
  <2>2. {"stay", "values"} \subseteq DOMAIN m14
      BY <1>0, <2>1 DEF SharedGuestsPage!GuestFirst
  <2>3. m14' # None => m14'.stay = m14.stay /\ m14'.values = m14.values
      BY <2>1, <2>2
  <2> QED
      BY <1>0, <2>1, <2>3 DEF SharedSent
<1>3. CASE SharedGuestsPage!PartRefused
    BY <1>0, <1>3 DEF SharedGuestsPage!PartRefused, SharedSent
<1>4. ASSUME NEW to \in OneRoom, SharedGuestsPage!SendTransfer(to)
      PROVE  SharedSent'
  <2>1. /\ m7.kind = "transfer" /\ m14' = m14
        /\ m15' = [stay |-> m7.stay, from |-> m6[m7.stay], to |-> to]
      BY <1>4 DEF SharedGuestsPage!SendTransfer, SharedGuestsPage!editVars
  <2>2. m7.stay \in Stays
      BY <1>0, <2>1 DEF SharedDialog, SharedGuestsPage!Closed
  <2> QED
      BY <1>0, <2>1, <2>2 DEF SharedSent
<1>5. CASE SharedGuestsPage!TransferAnswers
    BY <1>0, <1>5 DEF SharedGuestsPage!TransferAnswers, SharedSent
<1>6. CASE UNCHANGED <<m14, m15>>
    BY <1>0, <1>6 DEF SharedSent
<1> QED
    BY <1>1, <1>2, <1>3, <1>4, <1>5, <1>6
    DEF SharedGuestsPage!Next, SharedGuestsPage!currentGuestsVars, SharedGuestsPage!editVars,
        SharedGuestsPage!View, SharedGuestsPage!PrintSlip, SharedGuestsPage!Edit,
        SharedGuestsPage!Transfer, SharedGuestsPage!Open, SharedGuestsPage!CloseDialog,
        SharedGuestsPage!BookingComes, SharedGuestsPage!GuestComes,
        SharedGuestsPage!PaymentsCome, SharedGuestsPage!AutoPrint,
        SharedGuestsPage!printRegistration, SharedGuestsPage!FillForm,
        SharedGuestsPage!EditBooking, SharedGuestsPage!EditGuest, SharedGuestsPage!Change,
        SharedGuestsPage!OtherDesk

LEMMA SharedTypesNext ==
    ASSUME SharedTypes, [SharedGuestsPage!Next]_SharedGuestsPage!currentGuestsVars
    PROVE  SharedTypes'
<1>1. SharedDialog' /\ SharedRecords' /\ SharedCopies' /\ SharedSent'
    BY SharedDialogNext, SharedRecordsNext, SharedCopiesNext, SharedSentNext
<1>2. SharedGuestsPage!GuestFirst' /\ SharedGuestsPage!PrintsAskedFor'
    BY FirstSharedGuestsPage, SharedPrintsNext DEF SharedTypes
<1>3. m10' = m10 \/ (m10 < 0 /\ m10' = m10 + 1)
    BY DEF SharedGuestsPage!Next, SharedGuestsPage!currentGuestsVars, SharedGuestsPage!View,
           SharedGuestsPage!PrintSlip, SharedGuestsPage!Edit, SharedGuestsPage!Transfer,
           SharedGuestsPage!CloseDialog, SharedGuestsPage!BookingComes,
           SharedGuestsPage!printVars, SharedGuestsPage!GuestComes,
           SharedGuestsPage!PaymentsCome, SharedGuestsPage!AutoPrint,
           SharedGuestsPage!printRegistration, SharedGuestsPage!FillForm,
           SharedGuestsPage!EditBooking, SharedGuestsPage!EditGuest, SharedGuestsPage!Change,
           SharedGuestsPage!submit, SharedGuestsPage!PartSaved, SharedGuestsPage!PartRefused,
           SharedGuestsPage!SendTransfer, SharedGuestsPage!TransferAnswers,
           SharedGuestsPage!OtherDesk
<1>4. m10' \in 0 .. 0
    BY <1>3, BoundsAssumption DEF SharedTypes
<1> QED
    BY <1>1, <1>2, <1>4 DEF SharedTypes

LEMMA SharedTyped == SharedTypes => SharedGuestsPage!TypeOK
<1> SUFFICES ASSUME SharedTypes PROVE SharedGuestsPage!TypeOK
    OBVIOUS
<1>1. {m10, m11} \subseteq 0 .. 0 + 1
    BY BoundsAssumption DEF SharedTypes, SharedGuestsPage!PrintsAskedFor
<1> QED
    BY <1>1 DEF SharedTypes, SharedDialog, SharedRecords, SharedCopies, SharedGuestsPage!TypeOK

-----------------------------------------------------------------------------
(* Types: the completed bookings *)

\* What AddressFollows leaves open of the types; a page counts the rows there
\* are.
CompletedTypes ==
    /\ m1 \in [ListedBookings -> {"checked_out", "cancelled", "checked_in"}]
    /\ m6 \in 0 .. Cardinality(ListedBookings)
    /\ m7 # None => m7.total \in 0 .. Cardinality(ListedBookings)
    /\ m9 \subseteq CompletedList!Parts /\ m13 \in 0 .. MaxTyped

LEMMA CompletedCounts ==
    /\ Cardinality(ListedBookings) \in Nat
    /\ \A S \in SUBSET ListedBookings :
         CompletedList!Cardinality(S) \in 0 .. Cardinality(ListedBookings)
<1>1. Cardinality(ListedBookings) \in Nat
    BY ListsAssumption, FS_CardinalityType
<1>2. ASSUME NEW S \in SUBSET ListedBookings
      PROVE  CompletedList!Cardinality(S) \in 0 .. Cardinality(ListedBookings)
  <2>1. Cardinality(S) \in Nat /\ Cardinality(S) <= Cardinality(ListedBookings)
      BY ListsAssumption, FS_Subset, FS_CardinalityType
  <2>2. CompletedList!Cardinality(S) = Cardinality(S)
      BY Zenon DEF CompletedList!Cardinality, Cardinality
  <2> QED
      BY <1>1, <2>1, <2>2
<1> QED
    BY <1>1, <1>2

\* There are no more pages than rows.
LEMMA PageWithinRows ==
    ASSUME NEW n \in Nat, NEW total \in Nat, (n + 1) * PageSize < total
    PROVE  n + 1 <= total
<1>1. PageSize \in Nat /\ PageSize >= 1
    BY ListsAssumption
<1>2. (n + 1) * PageSize >= n + 1
    BY <1>1
<1> QED
    BY <1>1, <1>2

LEMMA CompletedTypesInit == CompletedList!Init => CompletedTypes
    BY CompletedCounts, BoundsAssumption DEF CompletedList!Init, CompletedTypes

LEMMA CompletedTypesNext ==
    ASSUME CompletedTypes, [CompletedList!Next]_CompletedList!vars
    PROVE  CompletedTypes'
<1> USE DEF CompletedTypes, CompletedList!filterVars, CompletedList!drawerVars,
            CompletedList!reversalVars
<1>0. Cardinality(ListedBookings) \in Nat /\ MaxTyped \in Nat
    BY CompletedCounts, BoundsAssumption
<1>1. ASSUME NEW f, CompletedList!SetFilters(f) \/ CompletedList!FollowLink(f)
      PROVE  CompletedTypes'
  <2>1. /\ m13 < MaxTyped /\ m13' = m13 + 1 /\ UNCHANGED <<m1, m9>>
        /\ m6' = 0 \/ m6' = m6
        /\ m7' = None \/ m7' = m7
      BY <1>1 DEF CompletedList!SetFilters, CompletedList!FollowLink
  <2> QED
      BY <1>0, <2>1
<1>2. CASE CompletedList!AddressShown
  <2>1. /\ UNCHANGED <<m1, m9, m13>>
        /\ m6' = 0 \/ m6' = m6
        /\ m7' = None \/ m7' = m7
      BY <1>2 DEF CompletedList!AddressShown
  <2> QED
      BY <1>0, <2>1
<1>3. CASE CompletedList!ReadList
  <2> DEFINE total == CompletedList!Cardinality(CompletedList!Matching(m2))
  <2>1. m7'.total = total /\ UNCHANGED <<m1, m6, m9, m13>>
      BY <1>3 DEF CompletedList!ReadList
  <2>2. CompletedList!Matching(m2) \in SUBSET ListedBookings
      BY DEF CompletedList!Matching
  <2>3. total \in 0 .. Cardinality(ListedBookings)
      BY <2>2, CompletedCounts
  <2> QED
      BY <2>1, <2>3
<1>4. CASE CompletedList!PreviousPage
    BY <1>0, <1>4 DEF CompletedList!PreviousPage
<1>5. CASE CompletedList!NextPage
  <2>1. /\ m7 # None /\ (m6 + 1) * PageSize < m7.total
        /\ m6' = m6 + 1 /\ m7' = None /\ UNCHANGED <<m1, m9, m13>>
      BY <1>5 DEF CompletedList!NextPage
  <2>2. m6 \in Nat /\ m7.total \in Nat
      BY <1>0, <2>1
  <2>3. m6 + 1 <= m7.total
      BY <2>1, <2>2, PageWithinRows
  <2> QED
      BY <1>0, <2>1, <2>3
<1>6. CASE CompletedList!reverse_checkout
    BY <1>6 DEF CompletedList!reverse_checkout
<1>7. ASSUME NEW b, CompletedList!ViewBooking(b) \/ CompletedList!OpenReversal(b)
      PROVE  CompletedTypes'
    BY <1>7 DEF CompletedList!ViewBooking, CompletedList!OpenReversal
<1>8. ASSUME NEW p \in CompletedList!Parts, CompletedList!PartRead(p)
      PROVE  CompletedTypes'
    BY <1>8 DEF CompletedList!PartRead
<1>9. CASE \/ CompletedList!CloseDrawer \/ CompletedList!TypeReason
           \/ CompletedList!CloseReversal \/ CompletedList!Reverse
           \/ CompletedList!NotReversed \/ CompletedList!RouterReady
           \/ UNCHANGED CompletedList!vars
    BY <1>9 DEF CompletedList!CloseDrawer, CompletedList!TypeReason,
                CompletedList!CloseReversal, CompletedList!Reverse,
                CompletedList!NotReversed, CompletedList!RouterReady,
                CompletedList!vars
<1> HIDE DEF CompletedTypes
<1> QED
    BY <1>1, <1>2, <1>3, <1>4, <1>5, <1>6, <1>7, <1>8, <1>9 DEF CompletedList!Next

LEMMA CompletedTyped ==
    ASSUME CompletedTypes, CompletedList!AddressFollows PROVE CompletedList!TypeOK
<1>1. CompletedList!Cardinality(ListedBookings) = Cardinality(ListedBookings)
    BY Zenon DEF CompletedList!Cardinality, Cardinality
<1> QED
    BY <1>1 DEF CompletedTypes, CompletedList!AddressFollows, CompletedList!TypeOK

-----------------------------------------------------------------------------
(* What the search of the advance bookings may say. *)
Texts == {"", "text"}
Days == {"", "days"}
NoText == ""
NoFilter == [q |-> NoText, dates |-> NoText]

(* Types: the advance bookings *)

\* What ListsOfBookings leaves open of the types: the bookings and the
\* requests about them, and the filters.
AdvanceBookings ==
    /\ m1 \in [ListedBookings -> AdvanceList!Kinds \union AdvanceList!Closings \union {"checked_in"}]
    /\ m9 \in [AdvanceList!Closings -> BOOLEAN]
    /\ m10 \in [AdvanceList!Closings -> ListedBookings \union {None}]
    /\ m11 \subseteq [to : AdvanceList!Closings, of : ListedBookings]
AdvanceFilters ==
    /\ m4 \in AdvanceList!Chips /\ m5 \in AdvanceList!Filters /\ m6 \in AdvanceList!Filters
    /\ m7 # None => m7 \in AdvanceList!Filters
    /\ m8 \in {1} \union 1 .. AdvanceList!Cardinality(ListedBookings)
    /\ m12 \in 0 .. 0

\* A filter keeps to them when one of its parts changes.
LEMMA AdvanceFilterParts ==
    /\ NoFilter \in AdvanceList!Filters
    /\ \A f \in AdvanceList!Filters, q \in Texts :
         /\ [f EXCEPT !.q = q] \in AdvanceList!Filters
         /\ [q |-> q, dates |-> NoText] \in AdvanceList!Filters
    /\ \A f \in AdvanceList!Filters, g \in AdvanceList!Filters : [f EXCEPT !.q = g.q] \in AdvanceList!Filters
    /\ \A f \in AdvanceList!Filters, d \in Days : [f EXCEPT !.dates = d] \in AdvanceList!Filters
<1>1. AdvanceList!Filters = [q : Texts, dates : Days]
    BY Zenon DEF AdvanceList!Filters, Texts, Days
<1>2. NoText \in Texts /\ NoText \in Days
    BY Zenon DEF Texts, Days, NoText
<1> QED
    BY <1>1, <1>2 DEF NoFilter

LEMMA AdvanceTypesInit == AdvanceList!Init => AdvanceBookings /\ AdvanceFilters
<1> SUFFICES ASSUME AdvanceList!Init PROVE AdvanceBookings /\ AdvanceFilters
    OBVIOUS
<1>1. m9 \in [AdvanceList!Closings -> BOOLEAN]
    BY DEF AdvanceList!Init
<1>2. /\ m1 \in [ListedBookings -> AdvanceList!Kinds] /\ m11 = {}
      /\ m10 = [c \in AdvanceList!Closings |-> None]
    BY Zenon DEF AdvanceList!Init
<1>20. AdvanceBookings
    BY <1>1, <1>2 DEF AdvanceBookings
<1>3. m6 = NoFilter /\ m5 = m6
    BY Zenon DEF AdvanceList!Init, NoFilter, NoText
<1>4. m4 \in AdvanceList!Chips /\ m7 = None /\ m8 = 1 /\ m12 = 0
    BY Zenon DEF AdvanceList!Init, AdvanceList!Chips
<1>5. m6 \in AdvanceList!Filters
    BY <1>3, AdvanceFilterParts
<1>6. AdvanceFilters
    BY <1>3, <1>4, <1>5 DEF AdvanceFilters
<1> QED
    BY <1>20, <1>6

LEMMA AdvanceBookingsNext ==
    ASSUME AdvanceBookings, [AdvanceList!Next]_AdvanceList!vars PROVE AdvanceBookings'
<1> USE DEF AdvanceBookings
<1>1. ASSUME NEW c \in AdvanceList!Closings, NEW b \in ListedBookings, AdvanceList!OpenDialog(c, b)
      PROVE  AdvanceBookings'
  <2>1. m9' \in [AdvanceList!Closings -> BOOLEAN]
      BY <1>1 DEF AdvanceList!OpenDialog
  <2> QED
      BY <1>1, <2>1 DEF AdvanceList!OpenDialog
<1>2. ASSUME NEW c \in AdvanceList!Closings, AdvanceList!DismissDialog(c)
      PROVE  AdvanceBookings'
  <2>1. m9' \in [AdvanceList!Closings -> BOOLEAN]
      BY <1>2 DEF AdvanceList!DismissDialog
  <2> QED
      BY <1>2, <2>1 DEF AdvanceList!DismissDialog
<1>3. ASSUME NEW c \in AdvanceList!Closings, AdvanceList!Confirm(c)
      PROVE  AdvanceBookings'
  <2>1. m9' \in [AdvanceList!Closings -> BOOLEAN]
      BY <1>3 DEF AdvanceList!Confirm
  <2>2. /\ m10[c] # None /\ m11' = m11 \union {[to |-> c, of |-> m10[c]]}
        /\ m10' = [m10 EXCEPT ![c] = None] \/ m10' = m10
        /\ m1' = m1
      BY <1>3 DEF AdvanceList!Confirm
  <2>3. m10[c] \in ListedBookings
      BY <2>2
  <2>4. m11' \subseteq [to : AdvanceList!Closings, of : ListedBookings]
      BY <2>2, <2>3
  <2>5. m10' \in [AdvanceList!Closings -> ListedBookings \union {None}]
      BY <2>2
  <2> QED
      BY <2>1, <2>2, <2>4, <2>5
<1>4. ASSUME NEW c \in AdvanceList!Closings, NEW b \in ListedBookings,
             AdvanceList!Closed([to |-> c, of |-> b])
      PROVE  AdvanceBookings'
  <2>1. /\ m1' = m1 \/ m1' = [m1 EXCEPT ![b] = c]
        /\ m10' = m10 \/ m10' = [m10 EXCEPT !["no_show"] = None]
        /\ m11' \subseteq m11 /\ m9' = m9
      BY <1>4 DEF AdvanceList!Closed
  <2> QED
      BY <2>1
<1>5. ASSUME NEW b \in ListedBookings, NEW s \in {"confirmed", "checked_in", "cancelled"},
             AdvanceList!OtherDesk(b, s)
      PROVE  AdvanceBookings'
  <2>1. /\ m1' = [m1 EXCEPT ![b] = s] /\ UNCHANGED <<m9, m10, m11>>
      BY <1>5 DEF AdvanceList!OtherDesk, AdvanceList!dialogVars
  <2> QED
      BY <2>1 DEF AdvanceList!Kinds, AdvanceList!Closings
<1>6. CASE UNCHANGED <<m1, m9, m10, m11>>
    BY <1>6
<1> HIDE DEF AdvanceBookings
<1> QED
    BY <1>1, <1>2, <1>3, <1>4, <1>5, <1>6
    DEF AdvanceList!Next, AdvanceList!vars, AdvanceList!dialogVars, AdvanceList!ReadList,
        AdvanceList!ListRead, AdvanceList!SetSearch, AdvanceList!FollowLink,
        AdvanceList!SetDates, AdvanceList!ClearFilters, AdvanceList!ChooseChip,
        AdvanceList!Navigated, AdvanceList!TurnPage

LEMMA AdvanceFiltersNext ==
    ASSUME AdvanceFilters, [AdvanceList!Next]_AdvanceList!vars PROVE AdvanceFilters'
<1> USE DEF AdvanceFilters
<1>1. ASSUME NEW f \in AdvanceList!Filters, AdvanceList!SetFilters(f), m4' = m4, m6' \in AdvanceList!Filters,
             m12' \in 0 .. 0
      PROVE  AdvanceFilters'
    BY <1>1 DEF AdvanceList!SetFilters
<1>2. ASSUME NEW q \in Texts, AdvanceList!SetSearch(q)
      PROVE  AdvanceFilters'
  <2>1. [m5 EXCEPT !.q = q] \in AdvanceList!Filters
      BY AdvanceFilterParts
  <2>2. /\ AdvanceList!SetFilters([m5 EXCEPT !.q = q]) /\ m4' = m4 /\ m6' = m6
        /\ m12 < 0 /\ m12' = m12 + 1
      BY <1>2 DEF AdvanceList!SetSearch
  <2> QED
      BY <1>1, <2>1, <2>2
<1>3. ASSUME NEW d \in Days, AdvanceList!SetDates(d)
      PROVE  AdvanceFilters'
  <2>1. [m5 EXCEPT !.dates = d] \in AdvanceList!Filters
      BY AdvanceFilterParts
  <2>2. /\ AdvanceList!SetFilters([m5 EXCEPT !.dates = d]) /\ m4' = m4 /\ m6' = m6
        /\ m12 < 0 /\ m12' = m12 + 1
      BY <1>3 DEF AdvanceList!SetDates
  <2> QED
      BY <1>1, <2>1, <2>2
<1>4. CASE AdvanceList!ClearFilters
  <2>1. NoFilter \in AdvanceList!Filters
      BY AdvanceFilterParts
  <2>2. /\ AdvanceList!SetFilters(NoFilter) /\ m4' = m4 /\ m6' = m6
        /\ m12 < 0 /\ m12' = m12 + 1
      BY <1>4, Zenon DEF AdvanceList!ClearFilters, NoFilter, NoText
  <2> QED
      BY <1>1, <2>1, <2>2
<1>5. ASSUME NEW q \in Texts, AdvanceList!FollowLink(q)
      PROVE  AdvanceFilters'
  <2>1. /\ m7' = [q |-> q, dates |-> NoText] /\ UNCHANGED <<m4, m5, m6, m8>>
        /\ m12 < 0 /\ m12' = m12 + 1
      BY <1>5, Zenon DEF AdvanceList!FollowLink, NoText
  <2>2. m7' \in AdvanceList!Filters
      BY <2>1, AdvanceFilterParts
  <2> QED
      BY <2>1, <2>2
<1>6. CASE AdvanceList!Navigated
  <2>1. /\ m7 \in AdvanceList!Filters /\ m6' = m7 /\ m4' = m4 /\ m12' = m12
        /\ \/ AdvanceList!SetFilters([m5 EXCEPT !.q = m7.q])
           \/ m7' = None /\ UNCHANGED <<m5, m8>>
      BY <1>6 DEF AdvanceList!Navigated
  <2>2. [m5 EXCEPT !.q = m7.q] \in AdvanceList!Filters
    <3>1. m5 \in AdvanceList!Filters /\ m7 \in AdvanceList!Filters
        BY <2>1
    <3>2. \A f \in AdvanceList!Filters, g \in AdvanceList!Filters : [f EXCEPT !.q = g.q] \in AdvanceList!Filters
        BY AdvanceFilterParts, Zenon
    <3> QED
        BY <3>1, <3>2, Zenon
  <2>3. m6' \in AdvanceList!Filters /\ m12' \in 0 .. 0
      BY <2>1
  <2>4. CASE AdvanceList!SetFilters([m5 EXCEPT !.q = m7.q])
      BY <1>1, <2>1, <2>2, <2>3, <2>4
  <2>5. CASE m7' = None /\ UNCHANGED <<m5, m8>>
      BY <2>1, <2>3, <2>5
  <2> QED
      BY <2>1, <2>4, <2>5
<1>7. ASSUME NEW s \in AdvanceList!Chips, AdvanceList!ChooseChip(s)
      PROVE  AdvanceFilters'
    BY <1>7 DEF AdvanceList!ChooseChip
<1>8. ASSUME NEW p \in 1 .. AdvanceList!Cardinality(ListedBookings), AdvanceList!TurnPage(p)
      PROVE  AdvanceFilters'
  <2>1. m8' = p /\ UNCHANGED <<m4, m5, m6, m7, m12>>
      BY <1>8 DEF AdvanceList!TurnPage, AdvanceList!filterVars
  <2> QED
      BY <2>1
<1>9. ASSUME NEW b \in ListedBookings, NEW s, AdvanceList!OtherDesk(b, s)
      PROVE  AdvanceFilters'
  <2>1. /\ m12 < 0 /\ m12' = m12 + 1 /\ UNCHANGED <<m4, m5, m6, m7, m8>>
      BY <1>9 DEF AdvanceList!OtherDesk, AdvanceList!filterVars
  <2> QED
      BY <2>1
<1>10. CASE UNCHANGED <<m4, m5, m6, m7, m8, m12>>
    BY <1>10
<1> HIDE DEF AdvanceFilters
<1>11. ASSUME NEW q \in {"", "text"}, AdvanceList!SetSearch(q) \/ AdvanceList!FollowLink(q)
       PROVE  AdvanceFilters'
    BY <1>2, <1>5, <1>11, Zenon DEF Texts
<1>12. ASSUME NEW d \in {"", "days"}, AdvanceList!SetDates(d)
       PROVE  AdvanceFilters'
    BY <1>3, <1>12, Zenon DEF Days
<1> QED
    BY <1>4, <1>6, <1>7, <1>8, <1>9, <1>10, <1>11, <1>12
    DEF AdvanceList!Next, AdvanceList!vars, AdvanceList!filterVars, AdvanceList!ReadList,
        AdvanceList!ListRead, AdvanceList!OpenDialog, AdvanceList!Closed,
        AdvanceList!DismissDialog, AdvanceList!Confirm

LEMMA AdvanceTyped ==
    ASSUME AdvanceBookings, AdvanceFilters, AdvanceList!ListsOfBookings PROVE AdvanceList!TypeOK
<1>1. \A k \in AdvanceList!Kinds, l \in {m2, m3} : l[k] # None => l[k] \subseteq ListedBookings
    BY DEF AdvanceList!ListsOfBookings
<1> QED
    BY <1>1 DEF AdvanceBookings, AdvanceFilters, AdvanceList!TypeOK

-----------------------------------------------------------------------------
(* Types: the advance bookings found *)

\* What ListsOfBookings leaves open of the types: the bookings and the
\* requests about them, and the filters.
FoundBookings ==
    /\ m1 \in [Bookings -> AdvanceSearch!Kinds \union AdvanceSearch!Closings \union {"checked_in"}]
    /\ m9 \in [AdvanceSearch!Closings -> BOOLEAN]
    /\ m10 \in [AdvanceSearch!Closings -> Bookings \union {None}]
    /\ m11 \subseteq [to : AdvanceSearch!Closings, of : Bookings]
FoundFilters ==
    /\ m4 \in AdvanceSearch!Chips /\ m5 \in AdvanceSearch!Filters /\ m6 \in AdvanceSearch!Filters
    /\ m7 # None => m7 \in AdvanceSearch!Filters
    /\ m8 \in {1} \union 1 .. AdvanceSearch!Cardinality(Bookings)
    /\ m12 \in 0 .. 1

\* A filter keeps to them when one of its parts changes.
LEMMA FoundFilterParts ==
    /\ NoFilter \in AdvanceSearch!Filters
    /\ \A f \in AdvanceSearch!Filters, q \in Texts :
         /\ [f EXCEPT !.q = q] \in AdvanceSearch!Filters
         /\ [q |-> q, dates |-> NoText] \in AdvanceSearch!Filters
    /\ \A f \in AdvanceSearch!Filters, g \in AdvanceSearch!Filters : [f EXCEPT !.q = g.q] \in AdvanceSearch!Filters
    /\ \A f \in AdvanceSearch!Filters, d \in Days : [f EXCEPT !.dates = d] \in AdvanceSearch!Filters
<1>1. AdvanceSearch!Filters = [q : Texts, dates : Days]
    BY Zenon DEF AdvanceSearch!Filters, Texts, Days
<1>2. NoText \in Texts /\ NoText \in Days
    BY Zenon DEF Texts, Days, NoText
<1> QED
    BY <1>1, <1>2 DEF NoFilter

LEMMA FoundTypesInit == AdvanceSearch!Init => FoundBookings /\ FoundFilters
<1> SUFFICES ASSUME AdvanceSearch!Init PROVE FoundBookings /\ FoundFilters
    OBVIOUS
<1>1. m9 \in [AdvanceSearch!Closings -> BOOLEAN]
    BY DEF AdvanceSearch!Init
<1>2. /\ m1 \in [Bookings -> AdvanceSearch!Kinds] /\ m11 = {}
      /\ m10 = [c \in AdvanceSearch!Closings |-> None]
    BY Zenon DEF AdvanceSearch!Init
<1>20. FoundBookings
    BY <1>1, <1>2 DEF FoundBookings
<1>3. m6 = NoFilter /\ m5 = m6
    BY Zenon DEF AdvanceSearch!Init, NoFilter, NoText
<1>4. m4 \in AdvanceSearch!Chips /\ m7 = None /\ m8 = 1 /\ m12 = 0
    BY Zenon DEF AdvanceSearch!Init, AdvanceSearch!Chips
<1>5. m6 \in AdvanceSearch!Filters
    BY <1>3, FoundFilterParts
<1>6. FoundFilters
    BY <1>3, <1>4, <1>5 DEF FoundFilters
<1> QED
    BY <1>20, <1>6

LEMMA FoundBookingsNext ==
    ASSUME FoundBookings, [AdvanceSearch!Next]_AdvanceSearch!vars PROVE FoundBookings'
<1> USE DEF FoundBookings
<1>1. ASSUME NEW c \in AdvanceSearch!Closings, NEW b \in Bookings, AdvanceSearch!OpenDialog(c, b)
      PROVE  FoundBookings'
  <2>1. m9' \in [AdvanceSearch!Closings -> BOOLEAN]
      BY <1>1 DEF AdvanceSearch!OpenDialog
  <2> QED
      BY <1>1, <2>1 DEF AdvanceSearch!OpenDialog
<1>2. ASSUME NEW c \in AdvanceSearch!Closings, AdvanceSearch!DismissDialog(c)
      PROVE  FoundBookings'
  <2>1. m9' \in [AdvanceSearch!Closings -> BOOLEAN]
      BY <1>2 DEF AdvanceSearch!DismissDialog
  <2> QED
      BY <1>2, <2>1 DEF AdvanceSearch!DismissDialog
<1>3. ASSUME NEW c \in AdvanceSearch!Closings, AdvanceSearch!Confirm(c)
      PROVE  FoundBookings'
  <2>1. m9' \in [AdvanceSearch!Closings -> BOOLEAN]
      BY <1>3 DEF AdvanceSearch!Confirm
  <2>2. /\ m10[c] # None /\ m11' = m11 \union {[to |-> c, of |-> m10[c]]}
        /\ m10' = [m10 EXCEPT ![c] = None] \/ m10' = m10
        /\ m1' = m1
      BY <1>3 DEF AdvanceSearch!Confirm
  <2>3. m10[c] \in Bookings
      BY <2>2
  <2>4. m11' \subseteq [to : AdvanceSearch!Closings, of : Bookings]
      BY <2>2, <2>3
  <2>5. m10' \in [AdvanceSearch!Closings -> Bookings \union {None}]
      BY <2>2
  <2> QED
      BY <2>1, <2>2, <2>4, <2>5
<1>4. ASSUME NEW c \in AdvanceSearch!Closings, NEW b \in Bookings,
             AdvanceSearch!Closed([to |-> c, of |-> b])
      PROVE  FoundBookings'
  <2>1. /\ m1' = m1 \/ m1' = [m1 EXCEPT ![b] = c]
        /\ m10' = m10 \/ m10' = [m10 EXCEPT !["no_show"] = None]
        /\ m11' \subseteq m11 /\ m9' = m9
      BY <1>4 DEF AdvanceSearch!Closed
  <2> QED
      BY <2>1
<1>5. ASSUME NEW b \in Bookings, NEW s \in {"confirmed", "checked_in", "cancelled"},
             AdvanceSearch!OtherDesk(b, s)
      PROVE  FoundBookings'
  <2>1. /\ m1' = [m1 EXCEPT ![b] = s] /\ UNCHANGED <<m9, m10, m11>>
      BY <1>5 DEF AdvanceSearch!OtherDesk, AdvanceSearch!dialogVars
  <2> QED
      BY <2>1 DEF AdvanceSearch!Kinds, AdvanceSearch!Closings
<1>6. CASE UNCHANGED <<m1, m9, m10, m11>>
    BY <1>6
<1> HIDE DEF FoundBookings
<1> QED
    BY <1>1, <1>2, <1>3, <1>4, <1>5, <1>6
    DEF AdvanceSearch!Next, AdvanceSearch!vars, AdvanceSearch!dialogVars,
        AdvanceSearch!ReadList, AdvanceSearch!ListRead, AdvanceSearch!SetSearch,
        AdvanceSearch!FollowLink, AdvanceSearch!SetDates, AdvanceSearch!ClearFilters,
        AdvanceSearch!ChooseChip, AdvanceSearch!Navigated, AdvanceSearch!TurnPage

LEMMA FoundFiltersNext ==
    ASSUME FoundFilters, [AdvanceSearch!Next]_AdvanceSearch!vars PROVE FoundFilters'
<1> USE DEF FoundFilters
<1>1. ASSUME NEW f \in AdvanceSearch!Filters, AdvanceSearch!SetFilters(f), m4' = m4, m6' \in AdvanceSearch!Filters,
             m12' \in 0 .. 1
      PROVE  FoundFilters'
    BY <1>1 DEF AdvanceSearch!SetFilters
<1>2. ASSUME NEW q \in Texts, AdvanceSearch!SetSearch(q)
      PROVE  FoundFilters'
  <2>1. [m5 EXCEPT !.q = q] \in AdvanceSearch!Filters
      BY FoundFilterParts
  <2>2. /\ AdvanceSearch!SetFilters([m5 EXCEPT !.q = q]) /\ m4' = m4 /\ m6' = m6
        /\ m12 < 1 /\ m12' = m12 + 1
      BY <1>2 DEF AdvanceSearch!SetSearch
  <2> QED
      BY <1>1, <2>1, <2>2
<1>3. ASSUME NEW d \in Days, AdvanceSearch!SetDates(d)
      PROVE  FoundFilters'
  <2>1. [m5 EXCEPT !.dates = d] \in AdvanceSearch!Filters
      BY FoundFilterParts
  <2>2. /\ AdvanceSearch!SetFilters([m5 EXCEPT !.dates = d]) /\ m4' = m4 /\ m6' = m6
        /\ m12 < 1 /\ m12' = m12 + 1
      BY <1>3 DEF AdvanceSearch!SetDates
  <2> QED
      BY <1>1, <2>1, <2>2
<1>4. CASE AdvanceSearch!ClearFilters
  <2>1. NoFilter \in AdvanceSearch!Filters
      BY FoundFilterParts
  <2>2. /\ AdvanceSearch!SetFilters(NoFilter) /\ m4' = m4 /\ m6' = m6
        /\ m12 < 1 /\ m12' = m12 + 1
      BY <1>4, Zenon DEF AdvanceSearch!ClearFilters, NoFilter, NoText
  <2> QED
      BY <1>1, <2>1, <2>2
<1>5. ASSUME NEW q \in Texts, AdvanceSearch!FollowLink(q)
      PROVE  FoundFilters'
  <2>1. /\ m7' = [q |-> q, dates |-> NoText] /\ UNCHANGED <<m4, m5, m6, m8>>
        /\ m12 < 1 /\ m12' = m12 + 1
      BY <1>5, Zenon DEF AdvanceSearch!FollowLink, NoText
  <2>2. m7' \in AdvanceSearch!Filters
      BY <2>1, FoundFilterParts
  <2> QED
      BY <2>1, <2>2
<1>6. CASE AdvanceSearch!Navigated
  <2>1. /\ m7 \in AdvanceSearch!Filters /\ m6' = m7 /\ m4' = m4 /\ m12' = m12
        /\ \/ AdvanceSearch!SetFilters([m5 EXCEPT !.q = m7.q])
           \/ m7' = None /\ UNCHANGED <<m5, m8>>
      BY <1>6 DEF AdvanceSearch!Navigated
  <2>2. [m5 EXCEPT !.q = m7.q] \in AdvanceSearch!Filters
    <3>1. m5 \in AdvanceSearch!Filters /\ m7 \in AdvanceSearch!Filters
        BY <2>1
    <3>2. \A f \in AdvanceSearch!Filters, g \in AdvanceSearch!Filters : [f EXCEPT !.q = g.q] \in AdvanceSearch!Filters
        BY FoundFilterParts, Zenon
    <3> QED
        BY <3>1, <3>2, Zenon
  <2>3. m6' \in AdvanceSearch!Filters /\ m12' \in 0 .. 1
      BY <2>1
  <2>4. CASE AdvanceSearch!SetFilters([m5 EXCEPT !.q = m7.q])
      BY <1>1, <2>1, <2>2, <2>3, <2>4
  <2>5. CASE m7' = None /\ UNCHANGED <<m5, m8>>
      BY <2>1, <2>3, <2>5
  <2> QED
      BY <2>1, <2>4, <2>5
<1>7. ASSUME NEW s \in AdvanceSearch!Chips, AdvanceSearch!ChooseChip(s)
      PROVE  FoundFilters'
    BY <1>7 DEF AdvanceSearch!ChooseChip
<1>8. ASSUME NEW p \in 1 .. AdvanceSearch!Cardinality(Bookings), AdvanceSearch!TurnPage(p)
      PROVE  FoundFilters'
  <2>1. m8' = p /\ UNCHANGED <<m4, m5, m6, m7, m12>>
      BY <1>8 DEF AdvanceSearch!TurnPage, AdvanceSearch!filterVars
  <2> QED
      BY <2>1
<1>9. ASSUME NEW b \in Bookings, NEW s, AdvanceSearch!OtherDesk(b, s)
      PROVE  FoundFilters'
  <2>1. /\ m12 < 1 /\ m12' = m12 + 1 /\ UNCHANGED <<m4, m5, m6, m7, m8>>
      BY <1>9 DEF AdvanceSearch!OtherDesk, AdvanceSearch!filterVars
  <2> QED
      BY <2>1
<1>10. CASE UNCHANGED <<m4, m5, m6, m7, m8, m12>>
    BY <1>10
<1> HIDE DEF FoundFilters
<1>11. ASSUME NEW q \in {"", "text"}, AdvanceSearch!SetSearch(q) \/ AdvanceSearch!FollowLink(q)
       PROVE  FoundFilters'
    BY <1>2, <1>5, <1>11, Zenon DEF Texts
<1>12. ASSUME NEW d \in {"", "days"}, AdvanceSearch!SetDates(d)
       PROVE  FoundFilters'
    BY <1>3, <1>12, Zenon DEF Days
<1> QED
    BY <1>4, <1>6, <1>7, <1>8, <1>9, <1>10, <1>11, <1>12
    DEF AdvanceSearch!Next, AdvanceSearch!vars, AdvanceSearch!filterVars,
        AdvanceSearch!ReadList, AdvanceSearch!ListRead, AdvanceSearch!OpenDialog,
        AdvanceSearch!Closed, AdvanceSearch!DismissDialog, AdvanceSearch!Confirm

LEMMA FoundTyped ==
    ASSUME FoundBookings, FoundFilters, AdvanceSearch!ListsOfBookings PROVE AdvanceSearch!TypeOK
<1>1. \A k \in AdvanceSearch!Kinds, l \in {m2, m3} : l[k] # None => l[k] \subseteq Bookings
    BY DEF AdvanceSearch!ListsOfBookings
<1> QED
    BY <1>1 DEF FoundBookings, FoundFilters, AdvanceSearch!TypeOK

-----------------------------------------------------------------------------
(* Types: the bills *)

\* What ListsHaveNewest and AboutAsWanted leave open of the types: bills are not
\* taken away, so that a bill the page knows is one that was made, and the dialog
\* for a number is about one as long as it is open.
PhoneDialogs ==
    [open : BOOLEAN, about : InvoicesPage!BillIds, wanted : InvoicesPage!BillIds,
     number : ListedBookings \union {None}]
Messages ==
    [wanted : InvoicesPage!BillIds, about : InvoicesPage!BillIds,
     to : ListedBookings \union {None}]
KnownAreMade ==
    /\ \A f \in InvoicesPage!Filters :
         m2[f] # None => \A row \in m2[f] : row.id \in 1 .. Len(m1)
    /\ m4 \in 0 .. Len(m1) /\ m5 \in 0 .. Len(m1) /\ m6 \in 0 .. Len(m1)
    /\ m8 \in 0 .. Len(m1)
PhoneAboutMade == m9 \in PhoneDialogs /\ (m9.open => m9.about \in 1 .. Len(m1))
InvoicesTypes ==
    /\ Len(m1) <= MaxInvoices
    /\ KnownAreMade
    /\ PhoneAboutMade
    /\ m10 = None \/ m10 \in Messages

\* Sequences with the same places have the same length.
LEMMA SamePlaces ==
    ASSUME NEW S, NEW s \in Seq(S), NEW T, NEW t \in Seq(T), DOMAIN s = DOMAIN t
    PROVE  Len(s) = Len(t)
<1>1. /\ Len(s) \in Nat /\ DOMAIN s = 1 .. Len(s)
      /\ Len(t) \in Nat /\ DOMAIN t = 1 .. Len(t)
    BY LenProperties
<1>2. ASSUME Len(s) > Len(t) PROVE FALSE
  <2>1. Len(s) \in 1 .. Len(s) /\ Len(s) \notin 1 .. Len(t)
      BY <1>1, <1>2
  <2> QED
      BY <1>1, <2>1
<1>3. ASSUME Len(s) < Len(t) PROVE FALSE
  <2>1. Len(t) \in 1 .. Len(t) /\ Len(t) \notin 1 .. Len(s)
      BY <1>1, <1>3
  <2> QED
      BY <1>1, <2>1
<1>4. Len(s) \in Nat /\ Len(t) \in Nat
    BY <1>1
<1> QED
    BY <1>2, <1>3, <1>4

LEMMA InvoicesTypesInit == InvoicesPage!Init => InvoicesTypes
<1> SUFFICES ASSUME InvoicesPage!Init PROVE InvoicesTypes
    OBVIOUS
<1>1. /\ m1 = <<>> /\ m2 = [f \in InvoicesPage!Filters |-> None]
      /\ m4 = 0 /\ m5 = 0 /\ m6 = 0 /\ m8 = 0 /\ m10 = None
      /\ m9 = [open |-> FALSE, about |-> 0, wanted |-> 0, number |-> None]
    BY DEF InvoicesPage!Init
<1>2. Len(m1) = 0 /\ MaxInvoices \in Nat
    BY <1>1, BoundsAssumption
<1>3. KnownAreMade
    BY <1>1, <1>2 DEF KnownAreMade
<1>4. m9 \in PhoneDialogs /\ m9.open = FALSE
    BY <1>1, <1>2 DEF PhoneDialogs, InvoicesPage!BillIds
<1>5. PhoneAboutMade
    BY <1>4 DEF PhoneAboutMade
<1> QED
    BY <1>1, <1>2, <1>3, <1>5 DEF InvoicesTypes

\* What the page says of its bills stays true when bills are added.
LEMMA BillsAdded ==
    ASSUME InvoicesTypes, Len(m1) \in Nat, Len(m1') \in Nat,
           Len(m1) <= Len(m1'), Len(m1') <= MaxInvoices,
           UNCHANGED <<m2, m4, m5, m8, m9, m10>>, m6' \in {m6, 0}
    PROVE  InvoicesTypes'
<1>1. \A n \in 1 .. Len(m1) : n \in 1 .. Len(m1')
    OBVIOUS
<1>2. \A n \in 0 .. Len(m1) : n \in 0 .. Len(m1')
    OBVIOUS
<1>3. KnownAreMade'
  <2>1. KnownAreMade
      BY DEF InvoicesTypes
  <2>2. \A f \in InvoicesPage!Filters :
          m2'[f] # None => \A row \in m2'[f] : row.id \in 1 .. Len(m1')
      BY <1>1, <2>1 DEF KnownAreMade
  <2>3. /\ m4' \in 0 .. Len(m1') /\ m5' \in 0 .. Len(m1') /\ m6' \in 0 .. Len(m1')
        /\ m8' \in 0 .. Len(m1')
      BY <1>2, <2>1 DEF KnownAreMade
  <2>4. InvoicesPage!Filters' = InvoicesPage!Filters
      BY DEF InvoicesPage!Filters
  <2> QED
      BY <2>2, <2>3, <2>4 DEF KnownAreMade
<1>4. PhoneAboutMade'
    BY <1>1 DEF PhoneAboutMade, PhoneDialogs, InvoicesTypes, InvoicesPage!BillIds
<1>5. m10' = None \/ m10' \in Messages
    BY DEF InvoicesTypes
<1> QED
    BY <1>3, <1>4, <1>5 DEF InvoicesTypes, Messages, InvoicesPage!BillIds

\* The bill on screen, if it is in the list, is one that was made.
LEMMA ListedAreMade ==
    ASSUME InvoicesPage!ListsHaveNewest, KnownAreMade,
           NEW row \in InvoicesPage!Listed
    PROVE  row.id \in 1 .. Len(m1)
<1>1. m3 \in InvoicesPage!Filters /\ m2[m3] # None /\ row \in m2[m3]
    BY DEF InvoicesPage!Listed, InvoicesPage!ListsHaveNewest
<1> QED
    BY <1>1 DEF KnownAreMade

\* A message is sent, or a number asked for, about a bill that was made.
LEMMA SentAboutMade ==
    ASSUME InvoicesTypes, m1 \in Seq([booking : ListedBookings, cancelled : BOOLEAN]),
           NEW i \in 1 .. Len(m1), InvoicesPage!SendOrAsk(i, i)
    PROVE  /\ m9' \in PhoneDialogs /\ (m9'.open => m9'.about \in 1 .. Len(m1))
           /\ m10' = None \/ m10' \in Messages
<1> DEFINE B == [booking : ListedBookings, cancelled : BOOLEAN]
<1>0. m1 \in Seq(B) /\ Len(m1) \in Nat /\ Len(m1) <= MaxInvoices /\ MaxInvoices \in Nat
    BY BoundsAssumption DEF InvoicesTypes
<1>1. m1[i] \in B
  <2> HIDE DEF B
  <2> QED
      BY <1>0, ElementOfSeq
<1>2. i \in InvoicesPage!BillIds /\ m1[i].booking \in ListedBookings
    BY <1>0, <1>1 DEF InvoicesPage!BillIds
<1>3. m9 \in PhoneDialogs /\ (m9.open => m9.about \in 1 .. Len(m1))
        /\ (m10 = None \/ m10 \in Messages)
    BY DEF InvoicesTypes, PhoneAboutMade
<1>4. CASE m10' = [wanted |-> i, about |-> i, to |-> m1[i].booking] /\ m9' = m9
  <2>1. m10' \in Messages
      BY <1>2, <1>4 DEF Messages
  <2> QED
      BY <1>3, <1>4, <2>1
<1>5. CASE m9' = [m9 EXCEPT !.open = TRUE, !.about = i, !.wanted = i] /\ m10' = m10
  <2>1. m9' \in PhoneDialogs /\ m9'.about = i
      BY <1>2, <1>3, <1>5 DEF PhoneDialogs
  <2> QED
      BY <1>3, <1>5, <2>1
<1> QED
    BY <1>4, <1>5 DEF InvoicesPage!SendOrAsk

LEMMA InvoicesTypesNext ==
    ASSUME InvoicesPage!ListsHaveNewest, InvoicesTypes,
           [InvoicesPage!Next]_InvoicesPage!invoicesVars
    PROVE  InvoicesTypes'
<1> DEFINE B == [booking : ListedBookings, cancelled : BOOLEAN]
           Told == m10 = None \/ m10 \in Messages
<1>0. /\ m1 \in Seq(B) /\ Len(m1) \in Nat /\ Len(m1) <= MaxInvoices
      /\ m3 \in InvoicesPage!Filters /\ KnownAreMade /\ PhoneAboutMade /\ Told
    BY DEF InvoicesPage!ListsHaveNewest, InvoicesTypes
<1>1. ASSUME m1' = m1, KnownAreMade', PhoneAboutMade', Told'
      PROVE  InvoicesTypes'
    BY <1>0, <1>1 DEF InvoicesTypes
<1>2. ASSUME m1' = m1, KnownAreMade', UNCHANGED <<m9, m10>>
      PROVE  InvoicesTypes'
    BY <1>0, <1>1, <1>2 DEF PhoneAboutMade, PhoneDialogs, Messages, InvoicesPage!BillIds
<1>3. ASSUME UNCHANGED <<m1, m2>>, m4' \in 0 .. Len(m1), m5' \in 0 .. Len(m1),
             m6' \in 0 .. Len(m1), m8' \in 0 .. Len(m1)
      PROVE  KnownAreMade'
    BY <1>0, <1>3 DEF KnownAreMade, InvoicesPage!Filters
<1>4. /\ m4 \in 0 .. Len(m1) /\ m5 \in 0 .. Len(m1) /\ m6 \in 0 .. Len(m1)
      /\ m8 \in 0 .. Len(m1) /\ 0 \in 0 .. Len(m1)
    BY <1>0 DEF KnownAreMade
<1> HIDE DEF Told
<1>6. CASE InvoicesPage!ReadInvoices
  <2> DEFINE rows == InvoicesPage!Rows(m3)
  <2>1. /\ UNCHANGED <<m1, m5, m6, m8, m9, m10>> /\ m2' = [m2 EXCEPT ![m3] = rows]
        /\ m4' = InvoicesPage!AutoSelected(rows, m3)
      BY <1>6 DEF InvoicesPage!ReadInvoices
  <2>2. \A row \in rows : row.id \in 1 .. Len(m1)
      BY <1>0 DEF InvoicesPage!Rows
  <2>3. rows # {} => \E row \in rows : InvoicesPage!IsNewest(row, rows)
      BY <1>0, BillsHaveNewest
  <2>4. m4' \in 0 .. Len(m1)
    <3>1. CASE rows = {}
        BY <1>4, <2>1, <3>1 DEF InvoicesPage!AutoSelected
    <3>2. CASE rows # {}
      <4>1. PICK row \in rows : row.id = m4'
          BY <2>1, <2>3, <3>2, SelectsOwn
      <4> QED
          BY <1>0, <2>2, <4>1
    <3> QED
        BY <3>1, <3>2
  <2> HIDE DEF rows
  <2>5. \A f \in InvoicesPage!Filters : m2'[f] = m2[f] \/ m2'[f] = rows
      BY <2>1, <1>0 DEF InvoicesPage!ListsHaveNewest
  <2>6. KnownAreMade'
      BY <1>0, <1>4, <2>1, <2>2, <2>4, <2>5 DEF KnownAreMade, InvoicesPage!Filters
  <2> QED
      BY <1>2, <2>1, <2>6
<1>7. ASSUME NEW f \in InvoicesPage!Filters, InvoicesPage!Follow(f)
      PROVE  InvoicesTypes'
  <2>1. /\ UNCHANGED <<m1, m2, m5, m6, m8, m9, m10>>
        /\ \/ m4' = m4
           \/ m2[f] # None /\ m4' = InvoicesPage!AutoSelected(m2[f], f)
      BY <1>7 DEF InvoicesPage!Follow
  <2>2. m4' \in 0 .. Len(m1)
    <3>1. CASE m4' = m4
        BY <1>4, <3>1
    <3>2. CASE m2[f] = {} /\ m4' = InvoicesPage!AutoSelected(m2[f], f)
        BY <1>4, <3>2 DEF InvoicesPage!AutoSelected
    <3>3. CASE m2[f] \notin {None, {}} /\ m4' = InvoicesPage!AutoSelected(m2[f], f)
      <4>1. \E row \in m2[f] : InvoicesPage!IsNewest(row, m2[f])
          BY <3>3 DEF InvoicesPage!ListsHaveNewest
      <4>2. PICK row \in m2[f] : row.id = m4'
          BY <3>3, <4>1, SelectsOwn
      <4> QED
          BY <1>0, <3>3, <4>2 DEF KnownAreMade
    <3> QED
        BY <2>1, <3>1, <3>2, <3>3
  <2> QED
      BY <1>2, <1>3, <1>4, <2>1, <2>2
<1>8. ASSUME NEW i \in DOMAIN m1, InvoicesPage!View(i) \/ InvoicesPage!AskCancel(i)
      PROVE  InvoicesTypes'
  <2>1. /\ UNCHANGED <<m1, m2, m6, m8, m9, m10>> /\ m4' \in {m4, i} /\ m5' \in {m5, i}
      BY <1>8 DEF InvoicesPage!View, InvoicesPage!AskCancel
  <2>2. i \in 0 .. Len(m1)
      BY <1>0, <1>8
  <2> QED
      BY <1>2, <1>3, <1>4, <2>1, <2>2
<1>9. ASSUME NEW yes \in BOOLEAN, InvoicesPage!ConfirmCancel(yes)
      PROVE  InvoicesTypes'
  <2>1. /\ UNCHANGED <<m1, m2, m4, m8, m9, m10>> /\ m5' = 0 /\ m6' \in {m5, m6}
      BY <1>9 DEF InvoicesPage!ConfirmCancel
  <2> QED
      BY <1>2, <1>3, <1>4, <2>1
<1>10. CASE InvoicesPage!cancel_invoice
  <2>1. /\ m1' = [m1 EXCEPT ![m6].cancelled = TRUE] /\ m6' = 0
        /\ UNCHANGED <<m2, m4, m5, m8, m9, m10>>
      BY <1>10 DEF InvoicesPage!cancel_invoice
  <2>2. m1' \in Seq(B) /\ DOMAIN m1' = DOMAIN m1
      BY <2>1, NewestNext DEF InvoicesPage!ListsHaveNewest
  <2> HIDE DEF B
  <2>3. Len(m1') = Len(m1)
      BY <1>0, <2>2, SamePlaces
  <2> QED
      BY <1>0, <2>1, <2>3, BillsAdded
<1>11. CASE InvoicesPage!GenerateInserts
  <2>1. /\ m1' = Append(m1, [booking |-> m7.booking, cancelled |-> FALSE])
        /\ Len(m1) < MaxInvoices /\ UNCHANGED <<m2, m4, m5, m6, m8, m9, m10>>
      BY <1>11 DEF InvoicesPage!GenerateInserts
  <2>2. m7.booking \in ListedBookings
      BY <1>11 DEF InvoicesPage!GenerateInserts, InvoicesPage!ListsHaveNewest
  <2>3. [booking |-> m7.booking, cancelled |-> FALSE] \in B
      BY <2>2
  <2>4. Len(m1') = Len(m1) + 1
    <3> HIDE DEF B
    <3> QED
        BY <1>0, <2>1, <2>3
  <2> QED
      BY <1>0, <2>1, <2>4, BoundsAssumption, BillsAdded
<1>12. ASSUME NEW b \in ListedBookings, InvoicesPage!OtherCheckOut(b)
       PROVE  InvoicesTypes'
  <2> DEFINE keeping(stale) == [i \in DOMAIN m1 |->
               IF i = stale THEN [m1[i] EXCEPT !.cancelled = TRUE] ELSE m1[i]]
  <2>1. PICK stale : m1' \in {keeping(stale),
                      Append(keeping(stale), [booking |-> b, cancelled |-> FALSE])}
      BY <1>12 DEF InvoicesPage!OtherCheckOut
  <2>2. Len(m1) < MaxInvoices /\ UNCHANGED <<m2, m4, m5, m6, m8, m9, m10>>
      BY <1>12 DEF InvoicesPage!OtherCheckOut
  <2>3. DOMAIN keeping(stale) = DOMAIN m1 /\ DOMAIN m1 = 1 .. Len(m1)
      BY <1>0
  <2>4. ASSUME NEW i \in 1 .. Len(m1)
        PROVE  keeping(stale)[i] \in B
    <3>1. m1[i] \in B
      <4> HIDE DEF B
      <4> QED
          BY <1>0, <2>4, ElementOfSeq
    <3>2. [m1[i] EXCEPT !.cancelled = TRUE] \in B
        BY <3>1
    <3> QED
        BY <2>3, <3>1, <3>2
  <2>5. keeping(stale) \in [1 .. Len(m1) -> B]
      BY <2>3, <2>4
  <2>6. [booking |-> b, cancelled |-> FALSE] \in B
      OBVIOUS
  <2> HIDE DEF keeping, B
  <2>7. keeping(stale) \in Seq(B)
      BY <1>0, <2>5
  <2>8. Len(keeping(stale)) = Len(m1)
      BY <1>0, <2>3, <2>7, SamePlaces
  <2>9. Len(m1') \in {Len(m1), Len(m1) + 1}
      BY <2>1, <2>6, <2>7, <2>8, AppendProperties
  <2> QED
      BY <1>0, <2>2, <2>9, BoundsAssumption, BillsAdded
<1>13. ASSUME \/ \E b \in ListedBookings : InvoicesPage!Generate(b)
              \/ InvoicesPage!GenerateReads
       PROVE  InvoicesTypes'
  <2>1. UNCHANGED <<m1, m2, m4, m5, m6, m8, m9, m10>>
      BY <1>13 DEF InvoicesPage!Generate, InvoicesPage!GenerateReads
  <2> QED
      BY <1>2, <1>3, <1>4, <2>1
<1>14. CASE InvoicesPage!shareInvoiceWhatsApp
  <2>1. /\ InvoicesPage!SendOrAsk(m4, m4) /\ InvoicesPage!Shown # {}
        /\ UNCHANGED <<m1, m2, m4, m5, m6, m8>>
      BY <1>14 DEF InvoicesPage!shareInvoiceWhatsApp
  <2>2. PICK row \in InvoicesPage!Listed : row.id = m4
      BY <2>1 DEF InvoicesPage!Shown
  <2>3. m4 \in 1 .. Len(m1)
      BY <1>0, <2>2, ListedAreMade
  <2>4. /\ m9' \in PhoneDialogs /\ (m9'.open => m9'.about \in 1 .. Len(m1))
        /\ m10' = None \/ m10' \in Messages
      BY <1>0, <2>1, <2>3, SentAboutMade
  <2>5. PhoneAboutMade' /\ Told'
      BY <2>1, <2>4 DEF PhoneAboutMade, PhoneDialogs, Told, Messages, InvoicesPage!BillIds
  <2>6. KnownAreMade'
      BY <1>3, <1>4, <2>1
  <2> QED
      BY <1>1, <2>1, <2>5, <2>6
<1>15. CASE InvoicesPage!shareInvoiceNativeFile
  <2>1. m8' = m4 /\ UNCHANGED <<m1, m2, m4, m5, m6, m9, m10>>
      BY <1>15 DEF InvoicesPage!shareInvoiceNativeFile
  <2> QED
      BY <1>2, <1>3, <1>4, <2>1
<1>16. ASSUME NEW how \in {"failed", "device", "saved"}, InvoicesPage!PdfCame(how)
       PROVE  InvoicesTypes'
  <2>1. m8 \in 1 .. Len(m1) /\ m8' = 0 /\ UNCHANGED <<m1, m2, m4, m5, m6>>
      BY <1>0, <1>4, <1>16 DEF InvoicesPage!PdfCame
  <2>2. KnownAreMade'
      BY <1>3, <1>4, <2>1
  <2>3. \/ UNCHANGED <<m9, m10>>
        \/ m10' = [wanted |-> m8, about |-> m8, to |-> None] /\ m9' = m9
        \/ InvoicesPage!SendOrAsk(m8, m8)
      BY <1>16 DEF InvoicesPage!PdfCame, InvoicesPage!SharedBill
  <2>4. CASE UNCHANGED <<m9, m10>>
      BY <1>2, <2>1, <2>2, <2>4
  <2>5. CASE m10' = [wanted |-> m8, about |-> m8, to |-> None] /\ m9' = m9
    <3>1. m8 \in InvoicesPage!BillIds
        BY <1>0, <2>1, BoundsAssumption DEF InvoicesPage!BillIds
    <3>2. m10' \in Messages
        BY <2>5, <3>1 DEF Messages
    <3>3. PhoneAboutMade' /\ Told'
        BY <1>0, <2>1, <2>5, <3>2
        DEF PhoneAboutMade, PhoneDialogs, Told, Messages, InvoicesPage!BillIds
    <3> QED
        BY <1>1, <2>1, <2>2, <3>3
  <2>6. CASE InvoicesPage!SendOrAsk(m8, m8)
    <3>1. /\ m9' \in PhoneDialogs /\ (m9'.open => m9'.about \in 1 .. Len(m1))
          /\ m10' = None \/ m10' \in Messages
        BY <1>0, <2>1, <2>6, SentAboutMade
    <3>2. PhoneAboutMade' /\ Told'
        BY <2>1, <3>1 DEF PhoneAboutMade, PhoneDialogs, Told, Messages, InvoicesPage!BillIds
    <3> QED
        BY <1>1, <2>1, <2>2, <3>2
  <2> QED
      BY <2>3, <2>4, <2>5, <2>6
<1>17. CASE InvoicesPage!TypeNumber
  <2>1. /\ m9.open /\ m9' = [m9 EXCEPT !.number = m1[m9.about].booking]
        /\ UNCHANGED <<m1, m2, m4, m5, m6, m8, m10>>
      BY <1>17 DEF InvoicesPage!TypeNumber
  <2>2. m9.about \in 1 .. Len(m1) /\ m9 \in PhoneDialogs
      BY <1>0, <2>1 DEF PhoneAboutMade
  <2>3. m1[m9.about] \in B
    <3> HIDE DEF B
    <3> QED
        BY <1>0, <2>2, ElementOfSeq
  <2>4. m9' \in PhoneDialogs /\ m9'.about = m9.about
      BY <2>1, <2>2, <2>3 DEF PhoneDialogs
  <2>5. PhoneAboutMade' /\ Told'
      BY <1>0, <2>1, <2>2, <2>4
      DEF PhoneAboutMade, PhoneDialogs, Told, Messages, InvoicesPage!BillIds
  <2>6. KnownAreMade'
      BY <1>3, <1>4, <2>1
  <2> QED
      BY <1>1, <2>1, <2>5, <2>6
<1>18. ASSUME NEW send \in BOOLEAN, InvoicesPage!ClosePhone(send)
       PROVE  InvoicesTypes'
  <2>1. /\ m9' = [m9 EXCEPT !.open = FALSE, !.about = 0, !.wanted = 0]
        /\ \/ m10' = m10
           \/ m10' = [wanted |-> m9.wanted, about |-> m9.about, to |-> m9.number]
        /\ UNCHANGED <<m1, m2, m4, m5, m6, m8>>
      BY <1>18 DEF InvoicesPage!ClosePhone
  <2>2. m9 \in PhoneDialogs /\ 0 \in InvoicesPage!BillIds
      BY <1>0, BoundsAssumption DEF PhoneAboutMade, InvoicesPage!BillIds
  <2>3. m9' \in PhoneDialogs /\ m9'.open = FALSE
      BY <2>1, <2>2 DEF PhoneDialogs
  <2>4. m10' = None \/ m10' \in Messages
      BY <1>0, <2>1, <2>2 DEF PhoneDialogs, Messages, Told
  <2>5. PhoneAboutMade' /\ Told'
      BY <2>1, <2>3, <2>4
      DEF PhoneAboutMade, PhoneDialogs, Told, Messages, InvoicesPage!BillIds
  <2>6. KnownAreMade'
      BY <1>3, <1>4, <2>1
  <2> QED
      BY <1>1, <2>1, <2>5, <2>6
<1>19. CASE UNCHANGED InvoicesPage!invoicesVars
  <2>1. UNCHANGED <<m1, m2, m4, m5, m6, m8, m9, m10>>
      BY <1>19 DEF InvoicesPage!invoicesVars
  <2> QED
      BY <1>2, <1>3, <1>4, <2>1
<1> QED
    BY <1>6, <1>7, <1>8, <1>9, <1>10, <1>11, <1>12, <1>13, <1>14, <1>15, <1>16, <1>17,
       <1>18, <1>19
    DEF InvoicesPage!Next

LEMMA InvoicesTyped ==
    ASSUME InvoicesPage!ListsHaveNewest, InvoicesTypes PROVE InvoicesPage!TypeOK
<1> DEFINE B == [booking : ListedBookings, cancelled : BOOLEAN]
<1>1. m1 \in Seq(B) /\ DOMAIN m1 = 1 .. Len(m1)
    BY DEF InvoicesPage!ListsHaveNewest
<1>2. \A i \in DOMAIN m1 : m1[i] \in B
  <2> HIDE DEF B
  <2> QED
      BY <1>1, ElementOfSeq
<1>3. /\ m3 \in InvoicesPage!Filters
      /\ m7 = None \/ m7 \in [booking : ListedBookings, free : BOOLEAN]
    BY DEF InvoicesPage!ListsHaveNewest
<1>4. /\ \A f \in InvoicesPage!Filters :
           m2[f] = None \/ \A row \in m2[f] : row.id \in DOMAIN m1
      /\ {m4, m5, m6, m8} \subseteq 0 .. Len(m1)
    BY <1>1 DEF InvoicesTypes, KnownAreMade
<1>5. /\ Len(m1) <= MaxInvoices /\ m9 \in PhoneDialogs
      /\ m10 = None \/ m10 \in Messages
    BY DEF InvoicesTypes, PhoneAboutMade
<1> QED
    BY <1>2, <1>3, <1>4, <1>5, Zenon DEF InvoicesPage!TypeOK, PhoneDialogs, Messages

-----------------------------------------------------------------------------
(* Types: the payments of a booking *)

\* What PaymentsKept leaves open of the types: how much was refunded and how
\* often, the request under way, and the filters of the history.
PaymentsTypes ==
    /\ m4.sum \in Nat /\ m4.count \in 0 .. MaxRefunds
    /\ m6 \in BOOLEAN
    /\ m8 # None => m8 = [request |-> m8.request, done |-> m8.done]
    /\ m8 # None => m8.done \in BOOLEAN
    /\ m9 \in 0 .. 0
    /\ m10 \in PaymentsPage!Ranges /\ m11 \in PaymentsPage!Ranges
    /\ m12 \in 0 .. 1 /\ m13 \in 0 .. 0

LEMMA PaymentsTypesInit == PaymentsPage!Init => PaymentsTypes
<1> SUFFICES ASSUME PaymentsPage!Init PROVE PaymentsTypes
    OBVIOUS
<1>1. /\ m4 = [sum |-> 0, count |-> 0, floored |-> FALSE] /\ m8 = None /\ m9 = 0
      /\ m10 = "all" /\ m11 = "all" /\ m12 = 0 /\ m13 = 0
    BY DEF PaymentsPage!Init
<1>2. m6 \in BOOLEAN
    BY Zenon DEF PaymentsPage!Init
<1>3. m4.sum \in Nat /\ m4.count \in 0 .. MaxRefunds /\ m13 \in 0 .. 0 /\ m9 \in 0 .. 0
    BY <1>1, BoundsAssumption
<1> QED
    BY <1>1, <1>2, <1>3 DEF PaymentsTypes, PaymentsPage!Ranges

\* A request adds to what was refunded or leaves it.
LEMMA PaymentsRefunds ==
    ASSUME PaymentsPage!PaymentsKept, PaymentsTypes, NEW r, r.amount \in Amounts, PaymentsPage!Does(r),
           r.kind \in {"collect", "correct", "refund"}
    PROVE  m4'.sum \in Nat /\ m4'.count \in 0 .. MaxRefunds
<1>1. /\ m4.sum \in Nat /\ m4.count \in 0 .. MaxRefunds /\ r.amount \in Nat
    BY PaymentsAssumption DEF PaymentsTypes
<1>2. \/ m4' = m4
      \/ PaymentsPage!refund_payment(r.amount)
    BY DEF PaymentsPage!Does, PaymentsPage!collect_payment, PaymentsPage!correct_payment
<1>3. CASE PaymentsPage!refund_payment(r.amount)
  <2>1. m4' = PaymentsPage!Refunded(r.amount) /\ m4.count < MaxRefunds
      BY <1>3 DEF PaymentsPage!refund_payment
  <2>2. m4'.sum = m4.sum + r.amount /\ m4'.count = m4.count + 1
      BY <2>1 DEF PaymentsPage!Refunded
  <2> QED
      BY <1>1, <2>1, <2>2, BoundsAssumption
<1> QED
    BY <1>1, <1>2, <1>3

LEMMA PaymentsTypesNext ==
    ASSUME PaymentsPage!PaymentsKept, PaymentsTypes, [PaymentsPage!Next]_PaymentsPage!vars
    PROVE  PaymentsTypes'
<1> DEFINE Sent == /\ m8 # None => m8 = [request |-> m8.request, done |-> m8.done]
                   /\ m8 # None => m8.done \in BOOLEAN
           Filtered == /\ m10 \in PaymentsPage!Ranges /\ m11 \in PaymentsPage!Ranges
                       /\ m12 \in 0 .. 1 /\ m13 \in 0 .. 0
           Given == m4.sum \in Nat /\ m4.count \in 0 .. MaxRefunds
<1>0. Sent /\ Filtered /\ Given /\ m6 \in BOOLEAN /\ m9 \in 0 .. 0
    BY DEF PaymentsTypes
<1>1. ASSUME Sent', Filtered', Given', m6' \in BOOLEAN, m9' \in 0 .. 0
      PROVE  PaymentsTypes'
    BY <1>1 DEF PaymentsTypes
<1>2. ASSUME UNCHANGED <<m4, m9>>, UNCHANGED PaymentsPage!historyVars, m6' \in BOOLEAN, Sent'
      PROVE  PaymentsTypes'
  <2>1. Filtered' /\ Given'
      BY <1>0, <1>2 DEF PaymentsPage!historyVars
  <2> QED
      BY <1>0, <1>1, <1>2, <2>1
<1>3. ASSUME UNCHANGED <<m4, m9, m6, m8>>, Filtered'
      PROVE  PaymentsTypes'
  <2>1. Sent' /\ Given'
      BY <1>0, <1>3
  <2> QED
      BY <1>0, <1>1, <1>3, <2>1
<1>4. CASE PaymentsPage!SelectBooking \/ PaymentsPage!clearBookingFilter
  <2>1. UNCHANGED <<m4, m8, m9>> /\ UNCHANGED PaymentsPage!historyVars
      BY <1>4 DEF PaymentsPage!SelectBooking, PaymentsPage!clearBookingFilter, PaymentsPage!bookVars
  <2>2. m6' \in BOOLEAN
      BY <1>4, Zenon DEF PaymentsPage!SelectBooking, PaymentsPage!clearBookingFilter
  <2>3. Sent'
      BY <1>0, <2>1
  <2> QED
      BY <1>2, <2>1, <2>2, <2>3
<1>5. ASSUME \/ PaymentsPage!ReadPayments \/ PaymentsPage!CloseDialog
             \/ \E u \in PaymentsPage!Purposes : PaymentsPage!OpenCollect(u)
             \/ \E p \in Slots : PaymentsPage!OpenCorrect(p) \/ PaymentsPage!OpenRefund(p)
      PROVE  PaymentsTypes'
  <2>1. UNCHANGED <<m4, m6, m8, m9>> /\ UNCHANGED PaymentsPage!historyVars
      BY <1>5
      DEF PaymentsPage!ReadPayments, PaymentsPage!CloseDialog, PaymentsPage!OpenCollect,
          PaymentsPage!OpenCorrect, PaymentsPage!OpenRefund, PaymentsPage!bookVars
  <2> QED
      BY <1>0, <1>3, <2>1 DEF PaymentsPage!historyVars
<1>6. CASE PaymentsPage!Submit
  <2>1. /\ m8' = [request |-> m7, done |-> FALSE]
        /\ UNCHANGED <<m4, m6, m9>> /\ UNCHANGED PaymentsPage!historyVars
      BY <1>6 DEF PaymentsPage!Submit, PaymentsPage!bookVars
  <2>2. Sent'
      BY <2>1
  <2> QED
      BY <1>0, <1>2, <2>1, <2>2
<1>7. CASE PaymentsPage!Work
  <2>1. /\ m8 # None /\ m8' = [m8 EXCEPT !.done = TRUE] /\ PaymentsPage!Does(m8.request)
        /\ UNCHANGED <<m6, m9>> /\ UNCHANGED PaymentsPage!historyVars
      BY <1>7 DEF PaymentsPage!Work
  <2>2. PaymentsPage!IsRequest(m8.request)
      BY <2>1 DEF PaymentsPage!PaymentsKept
  <2>3. m8.request.amount \in Amounts /\ m8.request.kind \in {"collect", "correct", "refund"}
      BY <2>2 DEF PaymentsPage!IsRequest
  <2>4. Given'
      BY <2>1, <2>3, PaymentsRefunds
  <2>5. m8' = [request |-> m8.request, done |-> TRUE]
      BY <1>0, <2>1
  <2>6. Sent' /\ Filtered'
      BY <1>0, <2>1, <2>5 DEF PaymentsPage!historyVars
  <2> QED
      BY <1>0, <1>1, <2>1, <2>4, <2>6
<1>8. CASE PaymentsPage!Succeeded \/ PaymentsPage!Failed
  <2>1. m8' = None /\ UNCHANGED <<m4, m6, m9>> /\ UNCHANGED PaymentsPage!historyVars
      BY <1>8 DEF PaymentsPage!Succeeded, PaymentsPage!Failed, PaymentsPage!bookVars
  <2> QED
      BY <1>0, <1>2, <2>1
<1>9. ASSUME NEW k \in {"collect", "correct", "refund"}, NEW p \in Slots, NEW a \in Amounts,
             PaymentsPage!OtherDesk(k, p, a)
      PROVE  PaymentsTypes'
  <2> DEFINE r == [kind |-> k, of |-> p, purpose |-> "stay", amount |-> a]
  <2>1. /\ PaymentsPage!Does(r) /\ m9 < 0 /\ m9' = m9 + 1
        /\ UNCHANGED <<m6, m8>> /\ UNCHANGED PaymentsPage!historyVars
      BY <1>9 DEF PaymentsPage!OtherDesk, PaymentsPage!deskVars
  <2>2. r.amount \in Amounts /\ r.kind \in {"collect", "correct", "refund"}
      OBVIOUS
  <2> HIDE DEF r
  <2>3. Given'
      BY <2>1, <2>2, PaymentsRefunds
  <2>4. m9' \in 0 .. 0
      BY <1>0, <2>1
  <2>5. Sent' /\ Filtered'
      BY <1>0, <2>1 DEF PaymentsPage!historyVars
  <2> QED
      BY <1>0, <1>1, <2>1, <2>3, <2>4, <2>5
<1>10. ASSUME \/ \E r \in PaymentsPage!Ranges : PaymentsPage!EditDraft(r)
              \/ PaymentsPage!applyFilters \/ PaymentsPage!clearFilters
              \/ \E p \in 0 .. 1 : PaymentsPage!TurnPage(p)
       PROVE  PaymentsTypes'
  <2>1. UNCHANGED <<m4, m6, m8, m9>>
      BY <1>10
      DEF PaymentsPage!EditDraft, PaymentsPage!applyFilters, PaymentsPage!clearFilters,
          PaymentsPage!TurnPage, PaymentsPage!bookVars, PaymentsPage!deskVars
  <2>2. m10' \in PaymentsPage!Ranges /\ m11' \in PaymentsPage!Ranges /\ m12' \in 0 .. 1
      BY <1>0, <1>10
      DEF PaymentsPage!EditDraft, PaymentsPage!applyFilters, PaymentsPage!clearFilters,
          PaymentsPage!TurnPage, PaymentsPage!Ranges
  <2>4. \/ m13' = m13
        \/ m13 < 0 /\ m13' = m13 + 1
      BY <1>10, Zenon
      DEF PaymentsPage!EditDraft, PaymentsPage!applyFilters, PaymentsPage!clearFilters,
          PaymentsPage!TurnPage
  <2>3. Filtered'
      BY <1>0, <2>2, <2>4, BoundsAssumption
  <2> QED
      BY <1>3, <2>1, <2>3
<1>11. CASE UNCHANGED PaymentsPage!vars
    BY <1>0, <1>3, <1>11
    DEF PaymentsPage!vars, PaymentsPage!bookVars, PaymentsPage!deskVars, PaymentsPage!historyVars
<1> HIDE DEF Sent, Filtered, Given
<1> QED
    BY <1>4, <1>5, <1>6, <1>7, <1>8, <1>9, <1>10, <1>11 DEF PaymentsPage!Next

LEMMA PaymentsTyped ==
    PaymentsPage!PaymentsKept /\ PaymentsTypes => PaymentsPage!TypeOK
    BY DEF PaymentsPage!PaymentsKept, PaymentsTypes, PaymentsPage!TypeOK, PaymentsPage!IsRequest

-----------------------------------------------------------------------------
(* Types: the payments and their search *)

\* What PaymentsKept leaves open of the types: how much was refunded and how
\* often, the request under way, and the filters of the history.
FoundPaymentsTypes ==
    /\ m4.sum \in Nat /\ m4.count \in 0 .. 1
    /\ m6 \in BOOLEAN
    /\ m8 # None => m8 = [request |-> m8.request, done |-> m8.done]
    /\ m8 # None => m8.done \in BOOLEAN
    /\ m9 \in 0 .. 1
    /\ m10 \in PaymentsSearch!Ranges /\ m11 \in PaymentsSearch!Ranges
    /\ m12 \in 0 .. 1 /\ m13 \in 0 .. 2

LEMMA FoundPaymentsTypesInit == PaymentsSearch!Init => FoundPaymentsTypes
<1> SUFFICES ASSUME PaymentsSearch!Init PROVE FoundPaymentsTypes
    OBVIOUS
<1>1. /\ m4 = [sum |-> 0, count |-> 0, floored |-> FALSE] /\ m8 = None /\ m9 = 0
      /\ m10 = "all" /\ m11 = "all" /\ m12 = 0 /\ m13 = 0
    BY DEF PaymentsSearch!Init
<1>2. m6 \in BOOLEAN
    BY Zenon DEF PaymentsSearch!Init
<1>3. m4.sum \in Nat /\ m4.count \in 0 .. 1 /\ m13 \in 0 .. 2 /\ m9 \in 0 .. 1
    BY <1>1, BoundsAssumption
<1> QED
    BY <1>1, <1>2, <1>3 DEF FoundPaymentsTypes, PaymentsSearch!Ranges

\* A request adds to what was refunded or leaves it.
LEMMA FoundPaymentsRefunds ==
    ASSUME PaymentsSearch!PaymentsKept, FoundPaymentsTypes, NEW r, r.amount \in Amounts, PaymentsSearch!Does(r),
           r.kind \in {"collect", "correct", "refund"}
    PROVE  m4'.sum \in Nat /\ m4'.count \in 0 .. 1
<1>1. /\ m4.sum \in Nat /\ m4.count \in 0 .. 1 /\ r.amount \in Nat
    BY PaymentsAssumption DEF FoundPaymentsTypes
<1>2. \/ m4' = m4
      \/ PaymentsSearch!refund_payment(r.amount)
    BY DEF PaymentsSearch!Does, PaymentsSearch!collect_payment, PaymentsSearch!correct_payment
<1>3. CASE PaymentsSearch!refund_payment(r.amount)
  <2>1. m4' = PaymentsSearch!Refunded(r.amount) /\ m4.count < 1
      BY <1>3 DEF PaymentsSearch!refund_payment
  <2>2. m4'.sum = m4.sum + r.amount /\ m4'.count = m4.count + 1
      BY <2>1 DEF PaymentsSearch!Refunded
  <2> QED
      BY <1>1, <2>1, <2>2, BoundsAssumption
<1> QED
    BY <1>1, <1>2, <1>3

LEMMA FoundPaymentsTypesNext ==
    ASSUME PaymentsSearch!PaymentsKept, FoundPaymentsTypes, [PaymentsSearch!Next]_PaymentsSearch!vars
    PROVE  FoundPaymentsTypes'
<1> DEFINE Sent == /\ m8 # None => m8 = [request |-> m8.request, done |-> m8.done]
                   /\ m8 # None => m8.done \in BOOLEAN
           Filtered == /\ m10 \in PaymentsSearch!Ranges /\ m11 \in PaymentsSearch!Ranges
                       /\ m12 \in 0 .. 1 /\ m13 \in 0 .. 2
           Given == m4.sum \in Nat /\ m4.count \in 0 .. 1
<1>0. Sent /\ Filtered /\ Given /\ m6 \in BOOLEAN /\ m9 \in 0 .. 1
    BY DEF FoundPaymentsTypes
<1>1. ASSUME Sent', Filtered', Given', m6' \in BOOLEAN, m9' \in 0 .. 1
      PROVE  FoundPaymentsTypes'
    BY <1>1 DEF FoundPaymentsTypes
<1>2. ASSUME UNCHANGED <<m4, m9>>, UNCHANGED PaymentsSearch!historyVars, m6' \in BOOLEAN, Sent'
      PROVE  FoundPaymentsTypes'
  <2>1. Filtered' /\ Given'
      BY <1>0, <1>2 DEF PaymentsSearch!historyVars
  <2> QED
      BY <1>0, <1>1, <1>2, <2>1
<1>3. ASSUME UNCHANGED <<m4, m9, m6, m8>>, Filtered'
      PROVE  FoundPaymentsTypes'
  <2>1. Sent' /\ Given'
      BY <1>0, <1>3
  <2> QED
      BY <1>0, <1>1, <1>3, <2>1
<1>4. CASE PaymentsSearch!SelectBooking \/ PaymentsSearch!clearBookingFilter
  <2>1. UNCHANGED <<m4, m8, m9>> /\ UNCHANGED PaymentsSearch!historyVars
      BY <1>4
      DEF PaymentsSearch!SelectBooking, PaymentsSearch!clearBookingFilter,
          PaymentsSearch!bookVars
  <2>2. m6' \in BOOLEAN
      BY <1>4, Zenon DEF PaymentsSearch!SelectBooking, PaymentsSearch!clearBookingFilter
  <2>3. Sent'
      BY <1>0, <2>1
  <2> QED
      BY <1>2, <2>1, <2>2, <2>3
<1>5. ASSUME \/ PaymentsSearch!ReadPayments \/ PaymentsSearch!CloseDialog
             \/ \E u \in PaymentsSearch!Purposes : PaymentsSearch!OpenCollect(u)
             \/ \E p \in {1} : PaymentsSearch!OpenCorrect(p) \/ PaymentsSearch!OpenRefund(p)
      PROVE  FoundPaymentsTypes'
  <2>1. UNCHANGED <<m4, m6, m8, m9>> /\ UNCHANGED PaymentsSearch!historyVars
      BY <1>5
      DEF PaymentsSearch!ReadPayments, PaymentsSearch!CloseDialog, PaymentsSearch!OpenCollect,
          PaymentsSearch!OpenCorrect, PaymentsSearch!OpenRefund, PaymentsSearch!bookVars
  <2> QED
      BY <1>0, <1>3, <2>1 DEF PaymentsSearch!historyVars
<1>6. CASE PaymentsSearch!Submit
  <2>1. /\ m8' = [request |-> m7, done |-> FALSE]
        /\ UNCHANGED <<m4, m6, m9>> /\ UNCHANGED PaymentsSearch!historyVars
      BY <1>6 DEF PaymentsSearch!Submit, PaymentsSearch!bookVars
  <2>2. Sent'
      BY <2>1
  <2> QED
      BY <1>0, <1>2, <2>1, <2>2
<1>7. CASE PaymentsSearch!Work
  <2>1. /\ m8 # None /\ m8' = [m8 EXCEPT !.done = TRUE] /\ PaymentsSearch!Does(m8.request)
        /\ UNCHANGED <<m6, m9>> /\ UNCHANGED PaymentsSearch!historyVars
      BY <1>7 DEF PaymentsSearch!Work
  <2>2. PaymentsSearch!IsRequest(m8.request)
      BY <2>1 DEF PaymentsSearch!PaymentsKept
  <2>3. m8.request.amount \in Amounts /\ m8.request.kind \in {"collect", "correct", "refund"}
      BY <2>2 DEF PaymentsSearch!IsRequest
  <2>4. Given'
      BY <2>1, <2>3, FoundPaymentsRefunds
  <2>5. m8' = [request |-> m8.request, done |-> TRUE]
      BY <1>0, <2>1
  <2>6. Sent' /\ Filtered'
      BY <1>0, <2>1, <2>5 DEF PaymentsSearch!historyVars
  <2> QED
      BY <1>0, <1>1, <2>1, <2>4, <2>6
<1>8. CASE PaymentsSearch!Succeeded \/ PaymentsSearch!Failed
  <2>1. m8' = None /\ UNCHANGED <<m4, m6, m9>> /\ UNCHANGED PaymentsSearch!historyVars
      BY <1>8 DEF PaymentsSearch!Succeeded, PaymentsSearch!Failed, PaymentsSearch!bookVars
  <2> QED
      BY <1>0, <1>2, <2>1
<1>9. ASSUME NEW k \in {"collect", "correct", "refund"}, NEW p \in {1}, NEW a \in Amounts,
             PaymentsSearch!OtherDesk(k, p, a)
      PROVE  FoundPaymentsTypes'
  <2> DEFINE r == [kind |-> k, of |-> p, purpose |-> "stay", amount |-> a]
  <2>1. /\ PaymentsSearch!Does(r) /\ m9 < 1 /\ m9' = m9 + 1
        /\ UNCHANGED <<m6, m8>> /\ UNCHANGED PaymentsSearch!historyVars
      BY <1>9 DEF PaymentsSearch!OtherDesk, PaymentsSearch!deskVars
  <2>2. r.amount \in Amounts /\ r.kind \in {"collect", "correct", "refund"}
      OBVIOUS
  <2> HIDE DEF r
  <2>3. Given'
      BY <2>1, <2>2, FoundPaymentsRefunds
  <2>4. m9' \in 0 .. 1
      BY <1>0, <2>1
  <2>5. Sent' /\ Filtered'
      BY <1>0, <2>1 DEF PaymentsSearch!historyVars
  <2> QED
      BY <1>0, <1>1, <2>1, <2>3, <2>4, <2>5
<1>10. ASSUME \/ \E r \in PaymentsSearch!Ranges : PaymentsSearch!EditDraft(r)
              \/ PaymentsSearch!applyFilters \/ PaymentsSearch!clearFilters
              \/ \E p \in 0 .. 1 : PaymentsSearch!TurnPage(p)
       PROVE  FoundPaymentsTypes'
  <2>1. UNCHANGED <<m4, m6, m8, m9>>
      BY <1>10
      DEF PaymentsSearch!EditDraft, PaymentsSearch!applyFilters, PaymentsSearch!clearFilters,
          PaymentsSearch!TurnPage, PaymentsSearch!bookVars, PaymentsSearch!deskVars
  <2>2. m10' \in PaymentsSearch!Ranges /\ m11' \in PaymentsSearch!Ranges /\ m12' \in 0 .. 1
      BY <1>0, <1>10
      DEF PaymentsSearch!EditDraft, PaymentsSearch!applyFilters, PaymentsSearch!clearFilters,
          PaymentsSearch!TurnPage, PaymentsSearch!Ranges
  <2>4. \/ m13' = m13
        \/ m13 < 2 /\ m13' = m13 + 1
      BY <1>10, Zenon
      DEF PaymentsSearch!EditDraft, PaymentsSearch!applyFilters, PaymentsSearch!clearFilters,
          PaymentsSearch!TurnPage
  <2>3. Filtered'
      BY <1>0, <2>2, <2>4, BoundsAssumption
  <2> QED
      BY <1>3, <2>1, <2>3
<1>11. CASE UNCHANGED PaymentsSearch!vars
    BY <1>0, <1>3, <1>11
    DEF PaymentsSearch!vars, PaymentsSearch!bookVars, PaymentsSearch!deskVars,
        PaymentsSearch!historyVars
<1> HIDE DEF Sent, Filtered, Given
<1> QED
    BY <1>4, <1>5, <1>6, <1>7, <1>8, <1>9, <1>10, <1>11 DEF PaymentsSearch!Next

LEMMA FoundPaymentsTyped ==
    PaymentsSearch!PaymentsKept /\ FoundPaymentsTypes => PaymentsSearch!TypeOK
    BY DEF PaymentsSearch!PaymentsKept, FoundPaymentsTypes, PaymentsSearch!TypeOK,
           PaymentsSearch!IsRequest

-----------------------------------------------------------------------------
(* Types: the menus of the roles *)

LEMMA RoleMenusGuards ==
    ASSUME NEW p
    PROVE  MenusOfRoles!GuardTarget(p) \in MenusOfRoles!Paths \union {None}
<1>1. {"/", "/login", "/admin", "/change-password", "/suspended", "/dashboard",
       "/my-attendance"} \subseteq MenusOfRoles!Paths
    BY DEF MenusOfRoles!Paths, MenusOfRoles!PartnerPages, MenusOfRoles!GuardedPages
<1>2. MenusOfRoles!GuardTarget(p) \in {"/login", "/admin", "/change-password", "/suspended",
                                "/dashboard", "/my-attendance", None}
    BY DEF MenusOfRoles!GuardTarget, MenusOfRoles!home
<1> QED
    BY <1>1, <1>2

LEMMA RoleMenusLinks ==
    /\ PagesInUse \subseteq MenusOfRoles!Paths
    /\ MenusOfRoles!PartnerPages \subseteq MenusOfRoles!Paths
    /\ MenusOfRoles!home \in MenusOfRoles!Paths
    /\ {"/", "/login", "/admin", "/change-password", "/suspended", "/dashboard"}
         \subseteq MenusOfRoles!Paths
    BY MenusAssumption DEF MenusOfRoles!Paths, MenusOfRoles!PartnerPages, MenusOfRoles!home

LEMMA RoleMenusFirst == (CHOOSE h \in OneHotel : TRUE) \in OneHotel
    BY MenusAssumption

LEMMA RoleMenusTypesInit == MenusOfRoles!Init => MenusOfRoles!TypeOK
<1> SUFFICES ASSUME MenusOfRoles!Init PROVE MenusOfRoles!TypeOK
    OBVIOUS
<1>1. m5 \in OneHotel /\ m6 \in Roles
    BY RoleMenusFirst DEF MenusOfRoles!Init
<1>2. m10 \in MenusOfRoles!Paths /\ {m11, m13} \subseteq MenusOfRoles!Paths \union {None}
    BY RoleMenusLinks DEF MenusOfRoles!Init
<1>3. m9 \in [OneHotel -> {"active", "expired"}] /\ m7 \in [OneHotel -> {"active", "suspended"}]
    BY DEF MenusOfRoles!Init
<1> QED
    BY <1>1, <1>2, <1>3 DEF MenusOfRoles!Init, MenusOfRoles!TypeOK

LEMMA RoleMenusTypesNext ==
    ASSUME MenusOfRoles!TypeOK, [MenusOfRoles!Next]_MenusOfRoles!vars PROVE MenusOfRoles!TypeOK'
<1> USE DEF MenusOfRoles!TypeOK
<1>1. CASE MenusOfRoles!Arrive
    BY <1>1 DEF MenusOfRoles!Arrive, MenusOfRoles!userVars, MenusOfRoles!hotelVars
<1>2. CASE MenusOfRoles!Redirect
    BY <1>2, RoleMenusGuards DEF MenusOfRoles!Redirect, MenusOfRoles!Replace, MenusOfRoles!userVars,
       MenusOfRoles!hotelVars
<1>3. CASE MenusOfRoles!SubmitLogin
  <2>1. m5' \in OneHotel /\ m6' \in Roles
      BY <1>3, RoleMenusFirst DEF MenusOfRoles!SubmitLogin
  <2>2. {m11', m13'} \subseteq MenusOfRoles!Paths \union {None}
      BY <1>3, RoleMenusLinks
      DEF MenusOfRoles!SubmitLogin, MenusOfRoles!Replace, MenusOfRoles!TakeReturn
  <2> QED
      BY <1>3, <2>1, <2>2 DEF MenusOfRoles!SubmitLogin, MenusOfRoles!hotelVars
<1>4. CASE MenusOfRoles!GreetLogin
  <2>1. {m11', m13'} \subseteq MenusOfRoles!Paths \union {None}
    <3>1. PagesInUse \subseteq MenusOfRoles!Paths /\ MenusOfRoles!home \in MenusOfRoles!Paths
             /\ "/change-password" \in MenusOfRoles!Paths
             /\ "/suspended" \in MenusOfRoles!Paths
        BY RoleMenusLinks
    <3> QED
        BY <1>4, <3>1 DEF MenusOfRoles!GreetLogin, MenusOfRoles!Replace, MenusOfRoles!TakeReturn
  <2> QED
      BY <1>4, <2>1 DEF MenusOfRoles!GreetLogin, MenusOfRoles!userVars, MenusOfRoles!hotelVars
<1>5. CASE MenusOfRoles!SignOut
    BY <1>5, RoleMenusLinks DEF MenusOfRoles!SignOut, MenusOfRoles!Replace, MenusOfRoles!hotelVars
<1>6. CASE MenusOfRoles!FollowLink
    BY <1>6, RoleMenusLinks
    DEF MenusOfRoles!FollowLink, MenusOfRoles!Replace, MenusOfRoles!userVars,
        MenusOfRoles!hotelVars
<1>7. CASE MenusOfRoles!Visit
    BY <1>7, RoleMenusLinks DEF MenusOfRoles!Visit, MenusOfRoles!Replace, MenusOfRoles!userVars,
       MenusOfRoles!hotelVars
<1>8. CASE MenusOfRoles!RefreshMe
    BY <1>8 DEF MenusOfRoles!RefreshMe, MenusOfRoles!hotelVars
<1>9. ASSUME NEW refreshed \in BOOLEAN, MenusOfRoles!ChangePassword(refreshed)
      PROVE  MenusOfRoles!TypeOK'
    BY <1>9, RoleMenusLinks
    DEF MenusOfRoles!ChangePassword, MenusOfRoles!Replace, MenusOfRoles!hotelVars
<1>10. ASSUME NEW h \in OneHotel, MenusOfRoles!SwitchTo(h) PROVE MenusOfRoles!TypeOK'
    BY <1>10 DEF MenusOfRoles!SwitchTo, MenusOfRoles!hotelVars
<1>11. ASSUME NEW h \in OneHotel, MenusOfRoles!PlatformChange(h) PROVE MenusOfRoles!TypeOK'
  <2>1. /\ m7' \in [OneHotel -> {"active", "suspended"}]
        /\ m8' \in [OneHotel -> MenusOfRoles!Modes]
        /\ m9' \in [OneHotel -> {"active", "expired"}]
      BY <1>11 DEF MenusOfRoles!PlatformChange
  <2> QED
      BY <1>11, <2>1 DEF MenusOfRoles!PlatformChange, MenusOfRoles!userVars
<1>12. CASE UNCHANGED MenusOfRoles!vars
    BY <1>12 DEF MenusOfRoles!vars
<1> HIDE DEF MenusOfRoles!TypeOK
<1> QED
    BY <1>1, <1>2, <1>3, <1>4, <1>5, <1>6, <1>7, <1>8, <1>9, <1>10, <1>11, <1>12
    DEF MenusOfRoles!Next

-----------------------------------------------------------------------------
(* Types: the menus of two hotels *)

LEMMA HotelMenusGuards ==
    ASSUME NEW p
    PROVE  MenusOfHotels!GuardTarget(p) \in MenusOfHotels!Paths \union {None}
<1>1. {"/", "/login", "/admin", "/change-password", "/suspended", "/dashboard",
       "/my-attendance"} \subseteq MenusOfHotels!Paths
    BY DEF MenusOfHotels!Paths, MenusOfHotels!PartnerPages, MenusOfHotels!GuardedPages
<1>2. MenusOfHotels!GuardTarget(p) \in {"/login", "/admin", "/change-password", "/suspended",
                                "/dashboard", "/my-attendance", None}
    BY DEF MenusOfHotels!GuardTarget, MenusOfHotels!home
<1> QED
    BY <1>1, <1>2

LEMMA HotelMenusLinks ==
    /\ PagesInUse \subseteq MenusOfHotels!Paths
    /\ MenusOfHotels!PartnerPages \subseteq MenusOfHotels!Paths
    /\ MenusOfHotels!home \in MenusOfHotels!Paths
    /\ {"/", "/login", "/admin", "/change-password", "/suspended", "/dashboard"}
         \subseteq MenusOfHotels!Paths
<1>1. MenusOfRoles!Paths = MenusOfHotels!Paths
    BY Zenon DEF MenusOfRoles!Paths, MenusOfRoles!PartnerPages, MenusOfRoles!GuardedPages,
                 MenusOfHotels!Paths, MenusOfHotels!PartnerPages, MenusOfHotels!GuardedPages
<1>2. PagesInUse \subseteq MenusOfHotels!Paths
    BY <1>1, MenusAssumption
<1> QED
    BY <1>2 DEF MenusOfHotels!Paths, MenusOfHotels!PartnerPages, MenusOfHotels!home

LEMMA HotelMenusFirst == (CHOOSE h \in Hotels : TRUE) \in Hotels
    BY MenusAssumption

LEMMA HotelMenusTypesInit == MenusOfHotels!Init => MenusOfHotels!TypeOK
<1> SUFFICES ASSUME MenusOfHotels!Init PROVE MenusOfHotels!TypeOK
    OBVIOUS
<1>1. m5 \in Hotels /\ m6 \in FewRoles
    BY HotelMenusFirst DEF MenusOfHotels!Init
<1>2. m10 \in MenusOfHotels!Paths /\ {m11, m13} \subseteq MenusOfHotels!Paths \union {None}
    BY HotelMenusLinks DEF MenusOfHotels!Init
<1>3. m9 \in [Hotels -> {"active", "expired"}] /\ m7 \in [Hotels -> {"active", "suspended"}]
    BY DEF MenusOfHotels!Init
<1> QED
    BY <1>1, <1>2, <1>3 DEF MenusOfHotels!Init, MenusOfHotels!TypeOK

LEMMA HotelMenusTypesNext ==
    ASSUME MenusOfHotels!TypeOK, [MenusOfHotels!Next]_MenusOfHotels!vars PROVE MenusOfHotels!TypeOK'
<1> USE DEF MenusOfHotels!TypeOK
<1>1. CASE MenusOfHotels!Arrive
    BY <1>1 DEF MenusOfHotels!Arrive, MenusOfHotels!userVars, MenusOfHotels!hotelVars
<1>2. CASE MenusOfHotels!Redirect
    BY <1>2, HotelMenusGuards
    DEF MenusOfHotels!Redirect, MenusOfHotels!Replace, MenusOfHotels!userVars,
        MenusOfHotels!hotelVars
<1>3. CASE MenusOfHotels!SubmitLogin
  <2>1. m5' \in Hotels /\ m6' \in FewRoles
      BY <1>3, HotelMenusFirst DEF MenusOfHotels!SubmitLogin
  <2>2. {m11', m13'} \subseteq MenusOfHotels!Paths \union {None}
      BY <1>3, HotelMenusLinks
      DEF MenusOfHotels!SubmitLogin, MenusOfHotels!Replace, MenusOfHotels!TakeReturn
  <2> QED
      BY <1>3, <2>1, <2>2 DEF MenusOfHotels!SubmitLogin, MenusOfHotels!hotelVars
<1>4. CASE MenusOfHotels!GreetLogin
  <2>1. {m11', m13'} \subseteq MenusOfHotels!Paths \union {None}
    <3>1. PagesInUse \subseteq MenusOfHotels!Paths /\ MenusOfHotels!home \in MenusOfHotels!Paths
             /\ "/change-password" \in MenusOfHotels!Paths
             /\ "/suspended" \in MenusOfHotels!Paths
        BY HotelMenusLinks
    <3> QED
        BY <1>4, <3>1 DEF MenusOfHotels!GreetLogin, MenusOfHotels!Replace, MenusOfHotels!TakeReturn
  <2> QED
      BY <1>4, <2>1 DEF MenusOfHotels!GreetLogin, MenusOfHotels!userVars, MenusOfHotels!hotelVars
<1>5. CASE MenusOfHotels!SignOut
    BY <1>5, HotelMenusLinks
    DEF MenusOfHotels!SignOut, MenusOfHotels!Replace, MenusOfHotels!hotelVars
<1>6. CASE MenusOfHotels!FollowLink
    BY <1>6, HotelMenusLinks
    DEF MenusOfHotels!FollowLink, MenusOfHotels!Replace, MenusOfHotels!userVars,
        MenusOfHotels!hotelVars
<1>7. CASE MenusOfHotels!Visit
    BY <1>7, HotelMenusLinks DEF MenusOfHotels!Visit, MenusOfHotels!Replace, MenusOfHotels!userVars,
       MenusOfHotels!hotelVars
<1>8. CASE MenusOfHotels!RefreshMe
    BY <1>8 DEF MenusOfHotels!RefreshMe, MenusOfHotels!hotelVars
<1>9. ASSUME NEW refreshed \in BOOLEAN, MenusOfHotels!ChangePassword(refreshed)
      PROVE  MenusOfHotels!TypeOK'
    BY <1>9, HotelMenusLinks
    DEF MenusOfHotels!ChangePassword, MenusOfHotels!Replace, MenusOfHotels!hotelVars
<1>10. ASSUME NEW h \in Hotels, MenusOfHotels!SwitchTo(h) PROVE MenusOfHotels!TypeOK'
    BY <1>10 DEF MenusOfHotels!SwitchTo, MenusOfHotels!hotelVars
<1>11. ASSUME NEW h \in Hotels, MenusOfHotels!PlatformChange(h) PROVE MenusOfHotels!TypeOK'
  <2>1. /\ m7' \in [Hotels -> {"active", "suspended"}]
        /\ m8' \in [Hotels -> MenusOfHotels!Modes]
        /\ m9' \in [Hotels -> {"active", "expired"}]
      BY <1>11 DEF MenusOfHotels!PlatformChange
  <2> QED
      BY <1>11, <2>1 DEF MenusOfHotels!PlatformChange, MenusOfHotels!userVars
<1>12. CASE UNCHANGED MenusOfHotels!vars
    BY <1>12 DEF MenusOfHotels!vars
<1> HIDE DEF MenusOfHotels!TypeOK
<1> QED
    BY <1>1, <1>2, <1>3, <1>4, <1>5, <1>6, <1>7, <1>8, <1>9, <1>10, <1>11, <1>12
    DEF MenusOfHotels!Next

-----------------------------------------------------------------------------
(* The theorem *)

PhoneDialogTyped == m8 \in BOOLEAN

\* A step is one of the check-out page or of the menus, or leaves them.
LEMMA StepOfOthers ==
    ASSUME [MCNext]_mcVars
    PROVE  /\ [Next]_checkoutVars
           /\ screen = "menus" => [MenusOfRoles!Next]_MenusOfRoles!vars
           /\ screen = "menus of two hotels" => [MenusOfHotels!Next]_MenusOfHotels!vars
<1>1. ASSUME UNCHANGED <<screen, memory>>
      PROVE  UNCHANGED <<MenusOfRoles!vars, MenusOfHotels!vars>>
    BY <1>1 DEF memory, MenusOfRoles!vars, MenusOfHotels!vars
<1>2. CASE UNCHANGED mcVars
    BY <1>1, <1>2 DEF mcVars
<1>3. CASE MCNext
    BY <1>1, <1>3
    DEF MCNext, CheckoutStep, SavedDraftsStep, CoGuestCardsStep,
        CheckinPageStep, ScanPanelStep, DocumentPanelStep, GuestCardStep,
        BookingPageStep, VoucherPageStep, GuestsPageStep, AdvanceListStep,
        CompletedListStep, InvoicesPageStep, PaymentsPageStep,
        SharedGuestsPageStep, AdvanceSearchStep, MenusOfRolesStep,
        MenusOfHotelsStep, PaymentsSearchStep
<1> QED
    BY <1>2, <1>3

\* Each screen starts as its module says, and the check-out page on all.
LEMMA StartOfScreen ==
    ASSUME MCInit
    PROVE  /\ Init
           /\ screen = "co-guests" => CoGuestCards!Init
           /\ screen = "booking guest" => GuestCard!Init
           /\ screen = "drafts" => SavedDrafts!Init
           /\ screen = "check-in" => CheckinPage!Init
           /\ screen = "scan" => ScanPanel!Init
           /\ screen = "documents" => DocumentPanel!Init
           /\ screen = "booking" => BookingPage!Init
           /\ screen = "voucher" => VoucherPage!Init
           /\ screen = "guests" => GuestsPage!Init
           /\ screen = "shared guests" => SharedGuestsPage!Init
           /\ screen = "advance bookings" => AdvanceList!Init
           /\ screen = "advance bookings found" => AdvanceSearch!Init
           /\ screen = "completed bookings" => CompletedList!Init
           /\ screen = "invoices" => InvoicesPage!Init
           /\ screen = "payments" => PaymentsPage!Init
           /\ screen = "payments found" => PaymentsSearch!Init
           /\ screen = "menus" => MenusOfRoles!Init
           /\ screen = "menus of two hotels" => MenusOfHotels!Init
    BY DEF MCInit

\* The invariants of the screens, and what they leave open.
TypesKept ==
    /\ IInv
    /\ screen = "co-guests" => CoGuestCards!TypeOK
    /\ screen = "booking guest" => GuestCard!TypeOK
    /\ screen = "drafts" => DraftTypes /\ SavedDrafts!HeldByHotel
    /\ screen = "check-in" => FormTypes /\ CheckinPage!ChargedOnce
    /\ screen = "scan" => ScanTypes /\ ScanKept
    /\ screen = "documents" =>
         DocTypes /\ DocumentPanel!CameraHeld /\ DocumentPanel!DocFollows
    /\ screen = "booking" =>
         BookingTypes /\ BookingPage!OneUnlessTold /\ BookingPage!VoucherKept
    /\ screen = "voucher" =>
         VoucherTypes /\ PhoneDialogTyped /\ VoucherPage!WaitingUnprinted
    /\ screen = "guests" => GuestsTypes
    /\ screen = "shared guests" => SharedTypes
    /\ screen = "advance bookings" =>
         AdvanceBookings /\ AdvanceFilters /\ AdvanceList!ListsOfBookings
    /\ screen = "advance bookings found" =>
         FoundBookings /\ FoundFilters /\ AdvanceSearch!ListsOfBookings
    /\ screen = "completed bookings" => CompletedTypes /\ CompletedList!AddressFollows
    /\ screen = "invoices" => InvoicesTypes /\ InvoicesPage!ListsHaveNewest
    /\ screen = "payments" => PaymentsTypes /\ PaymentsPage!PaymentsKept
    /\ screen = "payments found" => FoundPaymentsTypes /\ PaymentsSearch!PaymentsKept
    /\ screen = "menus" => MenusOfRoles!TypeOK
    /\ screen = "menus of two hotels" => MenusOfHotels!TypeOK

LEMMA TypesKeptInit == MCInit => TypesKept
<1> SUFFICES ASSUME MCInit PROVE TypesKept
    OBVIOUS
<1>0. IInv
    BY StartOfScreen, InitInv
<1>1. ASSUME screen = "co-guests" PROVE CoGuestCards!TypeOK
  <2>1. CoGuestCards!Init
      BY <1>1, StartOfScreen
  <2> QED
      BY <2>1, CoGuestsInit
<1>2. ASSUME screen = "booking guest" PROVE GuestCard!TypeOK
  <2>1. GuestCard!Init
      BY <1>2, StartOfScreen
  <2> QED
      BY <2>1, BookingGuestInit
<1>3. ASSUME screen = "drafts" PROVE DraftTypes /\ SavedDrafts!HeldByHotel
  <2>1. SavedDrafts!Init
      BY <1>3, StartOfScreen
  <2> QED
      BY <2>1, DraftTypesInit, DraftsInit
<1>4. ASSUME screen = "check-in" PROVE FormTypes /\ CheckinPage!ChargedOnce
  <2>1. CheckinPage!Init
      BY <1>4, StartOfScreen
  <2> QED
      BY <2>1, FormTypesInit, CheckinInit
<1>5. ASSUME screen = "scan" PROVE ScanTypes /\ ScanKept
  <2>1. ScanPanel!Init
      BY <1>5, StartOfScreen
  <2> QED
      BY <2>1, ScanTypesInit, ScanInit DEF ScanKept
<1>6. ASSUME screen = "documents"
      PROVE  DocTypes /\ DocumentPanel!CameraHeld /\ DocumentPanel!DocFollows
  <2>1. DocumentPanel!Init
      BY <1>6, StartOfScreen
  <2> QED
      BY <2>1, DocTypesInit, DocumentsInit
<1>7. ASSUME screen = "booking"
      PROVE  BookingTypes /\ BookingPage!OneUnlessTold /\ BookingPage!VoucherKept
  <2>1. BookingPage!Init
      BY <1>7, StartOfScreen
  <2> QED
      BY <2>1, BookingTypesInit, BookingInit, VoucherKeptInit
<1>8. ASSUME screen = "voucher"
      PROVE  VoucherTypes /\ PhoneDialogTyped /\ VoucherPage!WaitingUnprinted
  <2>1. VoucherPage!Init
      BY <1>8, StartOfScreen
  <2> QED
      BY <2>1, VoucherTypesInit, PhoneDialogInit, VoucherInit DEF PhoneDialogTyped
<1>9. ASSUME screen = "guests" PROVE GuestsTypes
  <2>1. GuestsPage!Init
      BY <1>9, StartOfScreen
  <2> QED
      BY <2>1, GuestsTypesInit
<1>10. ASSUME screen = "shared guests" PROVE SharedTypes
  <2>1. SharedGuestsPage!Init
      BY <1>10, StartOfScreen
  <2> QED
      BY <2>1, SharedTypesInit
<1>11. ASSUME screen = "advance bookings"
       PROVE  AdvanceBookings /\ AdvanceFilters /\ AdvanceList!ListsOfBookings
  <2>1. AdvanceList!Init
      BY <1>11, StartOfScreen
  <2> QED
      BY <2>1, AdvanceTypesInit, AdvanceListInit
<1>12. ASSUME screen = "advance bookings found"
       PROVE  FoundBookings /\ FoundFilters /\ AdvanceSearch!ListsOfBookings
  <2>1. AdvanceSearch!Init
      BY <1>12, StartOfScreen
  <2> QED
      BY <2>1, FoundTypesInit, AdvanceSearchInit
<1>13. ASSUME screen = "completed bookings" PROVE CompletedTypes /\ CompletedList!AddressFollows
  <2>1. CompletedList!Init
      BY <1>13, StartOfScreen
  <2> QED
      BY <2>1, CompletedTypesInit, AddressInit
<1>14. ASSUME screen = "invoices" PROVE InvoicesTypes /\ InvoicesPage!ListsHaveNewest
  <2>1. InvoicesPage!Init
      BY <1>14, StartOfScreen
  <2> QED
      BY <2>1, InvoicesTypesInit, InvoicesInit
<1>15. ASSUME screen = "payments" PROVE PaymentsTypes /\ PaymentsPage!PaymentsKept
  <2>1. PaymentsPage!Init
      BY <1>15, StartOfScreen
  <2> QED
      BY <2>1, PaymentsTypesInit, PaymentsPageInit
<1>16. ASSUME screen = "payments found" PROVE FoundPaymentsTypes /\ PaymentsSearch!PaymentsKept
  <2>1. PaymentsSearch!Init
      BY <1>16, StartOfScreen
  <2> QED
      BY <2>1, FoundPaymentsTypesInit, PaymentsSearchInit
<1>17. ASSUME screen = "menus" PROVE MenusOfRoles!TypeOK
  <2>1. MenusOfRoles!Init
      BY <1>17, StartOfScreen
  <2> QED
      BY <2>1, RoleMenusTypesInit
<1>18. ASSUME screen = "menus of two hotels" PROVE MenusOfHotels!TypeOK
  <2>1. MenusOfHotels!Init
      BY <1>18, StartOfScreen
  <2> QED
      BY <2>1, HotelMenusTypesInit
<1> QED
    BY <1>0, <1>1, <1>2, <1>3, <1>4, <1>5, <1>6, <1>7, <1>8, <1>9, <1>10, <1>11, <1>12, <1>13,
       <1>14, <1>15, <1>16, <1>17, <1>18
    DEF TypesKept

LEMMA TypesKeptNext == TypesKept /\ [MCNext]_mcVars => TypesKept'
<1> SUFFICES ASSUME TypesKept, [MCNext]_mcVars PROVE TypesKept'
    OBVIOUS
<1>0. IInv' /\ screen' = screen
    BY StepOfScreen, StepOfOthers, NextInv DEF TypesKept
<1>1. screen' = "co-guests" => CoGuestCards!TypeOK'
  <2> SUFFICES ASSUME screen = "co-guests" PROVE CoGuestCards!TypeOK'
      BY <1>0
  <2>1. CoGuestCards!TypeOK
      BY DEF TypesKept
  <2>2. [CoGuestCards!Next]_CoGuestCards!partyVars
      BY StepOfScreen
  <2> QED
      BY <2>1, <2>2, CoGuestsType
<1>2. screen' = "booking guest" => GuestCard!TypeOK'
  <2> SUFFICES ASSUME screen = "booking guest" PROVE GuestCard!TypeOK'
      BY <1>0
  <2>1. GuestCard!TypeOK
      BY DEF TypesKept
  <2>2. [GuestCard!Next]_GuestCard!guestVars
      BY StepOfScreen
  <2> QED
      BY <2>1, <2>2, BookingGuestType
<1>3. screen' = "drafts" => DraftTypes' /\ SavedDrafts!HeldByHotel'
  <2> SUFFICES ASSUME screen = "drafts" PROVE DraftTypes' /\ SavedDrafts!HeldByHotel'
      BY <1>0
  <2>1. DraftTypes /\ SavedDrafts!HeldByHotel
      BY DEF TypesKept
  <2>2. [SavedDrafts!Next]_SavedDrafts!draftVars
      BY StepOfScreen
  <2> QED
      BY <2>1, <2>2, DraftTypesNext, DraftsNext
<1>4. screen' = "check-in" => FormTypes' /\ CheckinPage!ChargedOnce'
  <2> SUFFICES ASSUME screen = "check-in" PROVE FormTypes' /\ CheckinPage!ChargedOnce'
      BY <1>0
  <2>1. FormTypes /\ CheckinPage!ChargedOnce
      BY DEF TypesKept
  <2>2. [CheckinPage!Next]_CheckinPage!formVars
      BY StepOfScreen
  <2> QED
      BY <2>1, <2>2, FormTypesNext, CheckinNext
<1>5. screen' = "scan" => ScanTypes' /\ ScanKept'
  <2> SUFFICES ASSUME screen = "scan" PROVE ScanTypes' /\ ScanKept'
      BY <1>0
  <2>1. ScanTypes /\ ScanKept
      BY DEF TypesKept
  <2>2. [ScanPanel!Next]_ScanPanel!scanVars
      BY StepOfScreen
  <2> QED
      BY <2>1, <2>2, ScanTypesNext, ScanNext
<1>6. screen' = "documents" => DocTypes' /\ DocumentPanel!CameraHeld' /\ DocumentPanel!DocFollows'
  <2> SUFFICES ASSUME screen = "documents"
               PROVE  DocTypes' /\ DocumentPanel!CameraHeld' /\ DocumentPanel!DocFollows'
      BY <1>0
  <2>1. DocTypes /\ DocumentPanel!CameraHeld /\ DocumentPanel!DocFollows
      BY DEF TypesKept
  <2>2. [DocumentPanel!Next]_DocumentPanel!docVars
      BY StepOfScreen
  <2> QED
      BY <2>1, <2>2, DocTypesNext, CameraNext, DocsNext
<1>7. screen' = "booking" => BookingTypes' /\ BookingPage!OneUnlessTold' /\ BookingPage!VoucherKept'
  <2> SUFFICES ASSUME screen = "booking"
               PROVE  BookingTypes' /\ BookingPage!OneUnlessTold' /\ BookingPage!VoucherKept'
      BY <1>0
  <2>1. BookingTypes /\ BookingPage!OneUnlessTold /\ BookingPage!VoucherKept
      BY DEF TypesKept
  <2>2. [BookingPage!Next]_BookingPage!advanceVars
      BY StepOfScreen
  <2> QED
      BY <2>1, <2>2, BookingTypesNext, OneBookingNext, VoucherKeptNext
<1>8. screen' = "voucher" => VoucherTypes' /\ PhoneDialogTyped' /\ VoucherPage!WaitingUnprinted'
  <2> SUFFICES ASSUME screen = "voucher"
               PROVE  VoucherTypes' /\ PhoneDialogTyped' /\ VoucherPage!WaitingUnprinted'
      BY <1>0
  <2>1. VoucherTypes /\ PhoneDialogTyped /\ VoucherPage!WaitingUnprinted
      BY DEF TypesKept
  <2>2. [VoucherPage!Next]_VoucherPage!vars
      BY StepOfScreen
  <2> QED
      BY <2>1, <2>2, VoucherTypesNext, PhoneDialogNext, VoucherNext DEF PhoneDialogTyped
<1>9. screen' = "guests" => GuestsTypes'
  <2> SUFFICES ASSUME screen = "guests" PROVE GuestsTypes'
      BY <1>0
  <2>1. GuestsTypes
      BY DEF TypesKept
  <2>2. [GuestsPage!Next]_GuestsPage!currentGuestsVars
      BY StepOfScreen
  <2> QED
      BY <2>1, <2>2, GuestsTypesNext
<1>10. screen' = "shared guests" => SharedTypes'
  <2> SUFFICES ASSUME screen = "shared guests" PROVE SharedTypes'
      BY <1>0
  <2>1. SharedTypes
      BY DEF TypesKept
  <2>2. [SharedGuestsPage!Next]_SharedGuestsPage!currentGuestsVars
      BY StepOfScreen
  <2> QED
      BY <2>1, <2>2, SharedTypesNext
<1>11. screen' = "advance bookings" => AdvanceBookings' /\ AdvanceFilters' /\ AdvanceList!ListsOfBookings'
  <2> SUFFICES ASSUME screen = "advance bookings"
               PROVE  AdvanceBookings' /\ AdvanceFilters' /\ AdvanceList!ListsOfBookings'
      BY <1>0
  <2>1. AdvanceBookings /\ AdvanceFilters /\ AdvanceList!ListsOfBookings
      BY DEF TypesKept
  <2>2. [AdvanceList!Next]_AdvanceList!vars
      BY StepOfScreen
  <2> QED
      BY <2>1, <2>2, AdvanceBookingsNext, AdvanceFiltersNext, AdvanceListNext
<1>12. screen' = "advance bookings found" => FoundBookings' /\ FoundFilters' /\ AdvanceSearch!ListsOfBookings'
  <2> SUFFICES ASSUME screen = "advance bookings found"
               PROVE  FoundBookings' /\ FoundFilters' /\ AdvanceSearch!ListsOfBookings'
      BY <1>0
  <2>1. FoundBookings /\ FoundFilters /\ AdvanceSearch!ListsOfBookings
      BY DEF TypesKept
  <2>2. [AdvanceSearch!Next]_AdvanceSearch!vars
      BY StepOfScreen
  <2> QED
      BY <2>1, <2>2, FoundBookingsNext, FoundFiltersNext, AdvanceSearchNext
<1>13. screen' = "completed bookings" => CompletedTypes' /\ CompletedList!AddressFollows'
  <2> SUFFICES ASSUME screen = "completed bookings"
               PROVE  CompletedTypes' /\ CompletedList!AddressFollows'
      BY <1>0
  <2>1. CompletedTypes /\ CompletedList!AddressFollows
      BY DEF TypesKept
  <2>2. [CompletedList!Next]_CompletedList!vars
      BY StepOfScreen
  <2> QED
      BY <2>1, <2>2, CompletedTypesNext, AddressNext
<1>14. screen' = "invoices" => InvoicesTypes' /\ InvoicesPage!ListsHaveNewest'
  <2> SUFFICES ASSUME screen = "invoices" PROVE InvoicesTypes' /\ InvoicesPage!ListsHaveNewest'
      BY <1>0
  <2>1. InvoicesTypes /\ InvoicesPage!ListsHaveNewest
      BY DEF TypesKept
  <2>2. [InvoicesPage!Next]_InvoicesPage!invoicesVars
      BY StepOfScreen
  <2> QED
      BY <2>1, <2>2, InvoicesTypesNext, NewestNext
<1>15. screen' = "payments" => PaymentsTypes' /\ PaymentsPage!PaymentsKept'
  <2> SUFFICES ASSUME screen = "payments" PROVE PaymentsTypes' /\ PaymentsPage!PaymentsKept'
      BY <1>0
  <2>1. PaymentsTypes /\ PaymentsPage!PaymentsKept
      BY DEF TypesKept
  <2>2. [PaymentsPage!Next]_PaymentsPage!vars
      BY StepOfScreen
  <2> QED
      BY <2>1, <2>2, PaymentsTypesNext, PaymentsPageNext
<1>16. screen' = "payments found" => FoundPaymentsTypes' /\ PaymentsSearch!PaymentsKept'
  <2> SUFFICES ASSUME screen = "payments found"
               PROVE  FoundPaymentsTypes' /\ PaymentsSearch!PaymentsKept'
      BY <1>0
  <2>1. FoundPaymentsTypes /\ PaymentsSearch!PaymentsKept
      BY DEF TypesKept
  <2>2. [PaymentsSearch!Next]_PaymentsSearch!vars
      BY StepOfScreen
  <2> QED
      BY <2>1, <2>2, FoundPaymentsTypesNext, PaymentsSearchNext
<1>17. screen' = "menus" => MenusOfRoles!TypeOK'
  <2> SUFFICES ASSUME screen = "menus" PROVE MenusOfRoles!TypeOK'
      BY <1>0
  <2>1. MenusOfRoles!TypeOK
      BY DEF TypesKept
  <2>2. [MenusOfRoles!Next]_MenusOfRoles!vars
      BY StepOfOthers
  <2> QED
      BY <2>1, <2>2, RoleMenusTypesNext
<1>18. screen' = "menus of two hotels" => MenusOfHotels!TypeOK'
  <2> SUFFICES ASSUME screen = "menus of two hotels" PROVE MenusOfHotels!TypeOK'
      BY <1>0
  <2>1. MenusOfHotels!TypeOK
      BY DEF TypesKept
  <2>2. [MenusOfHotels!Next]_MenusOfHotels!vars
      BY StepOfOthers
  <2> QED
      BY <2>1, <2>2, HotelMenusTypesNext
<1> QED
    BY <1>0, <1>1, <1>2, <1>3, <1>4, <1>5, <1>6, <1>7, <1>8, <1>9, <1>10, <1>11, <1>12, <1>13,
       <1>14, <1>15, <1>16, <1>17, <1>18, Zenon
    DEF TypesKept

\* Whatever the desk does on any of its screens, for any hotels, guests, rooms,
\* bookings, amounts and numbers of tries: what a screen keeps and what the server
\* holds for it has its type.
THEOREM TypesOKHolds == MCSpec => []TypesOK
<1>1. ASSUME TypesKept PROVE TypesOK
  <2>0. TypeOK
      BY <1>1 DEF TypesKept, IInv
  <2>1. screen = "co-guests" => CoGuestCards!TypeOK
      BY <1>1 DEF TypesKept
  <2>2. screen = "booking guest" => GuestCard!TypeOK
      BY <1>1 DEF TypesKept
  <2>3. screen = "drafts" => SavedDrafts!TypeOK
      BY <1>1, DraftsTyped DEF TypesKept
  <2>4. screen = "check-in" => CheckinPage!TypeOK
      BY <1>1, FormTyped DEF TypesKept
  <2>5. screen = "scan" => ScanPanel!TypeOK
      BY <1>1, ScanTypedAll DEF TypesKept
  <2>6. screen = "documents" => DocumentPanel!TypeOK
      BY <1>1, DocsTyped DEF TypesKept
  <2>7. screen = "booking" => BookingPage!TypeOK
      BY <1>1, BookingTyped DEF TypesKept
  <2>8. screen = "voucher" => VoucherPage!TypeOK
      BY <1>1, VoucherTyped DEF TypesKept, PhoneDialogTyped
  <2>9. screen = "guests" => GuestsPage!TypeOK
      BY <1>1, GuestsTyped DEF TypesKept
  <2>10. screen = "shared guests" => SharedGuestsPage!TypeOK
      BY <1>1, SharedTyped DEF TypesKept
  <2>11. screen = "advance bookings" => AdvanceList!TypeOK
      BY <1>1, AdvanceTyped DEF TypesKept
  <2>12. screen = "advance bookings found" => AdvanceSearch!TypeOK
      BY <1>1, FoundTyped DEF TypesKept
  <2>13. screen = "completed bookings" => CompletedList!TypeOK
      BY <1>1, CompletedTyped DEF TypesKept
  <2>14. screen = "invoices" => InvoicesPage!TypeOK
      BY <1>1, InvoicesTyped DEF TypesKept
  <2>15. screen = "payments" => PaymentsPage!TypeOK
      BY <1>1, PaymentsTyped DEF TypesKept
  <2>16. screen = "payments found" => PaymentsSearch!TypeOK
      BY <1>1, FoundPaymentsTyped DEF TypesKept
  <2>17. screen = "menus" => MenusOfRoles!TypeOK
      BY <1>1 DEF TypesKept
  <2>18. screen = "menus of two hotels" => MenusOfHotels!TypeOK
      BY <1>1 DEF TypesKept
  <2> QED
      BY <2>0, <2>1, <2>2, <2>3, <2>4, <2>5, <2>6, <2>7, <2>8, <2>9, <2>10, <2>11, <2>12, <2>13,
         <2>14, <2>15, <2>16, <2>17, <2>18
      DEF TypesOK
<1> QED
    BY <1>1, TypesKeptInit, TypesKeptNext, PTL DEF MCSpec

\* The theorems about the check-out page hold in the instance, beside the other
\* screens: no guest leaves with a due without a reason of the desk, and a
\* check-out that is tried again books its charges once.
THEOREM CheckOutKeptHolds == MCSpec => [](NoSilentDue /\ CheckedOutOnce)
<1>1. TypesKept => IInv
    BY DEF TypesKept
<1>2. IInv => NoSilentDue /\ CheckedOutOnce
    BY DEF IInv, ChargedOK, CheckedOutOnce
<1> QED
    BY <1>1, <1>2, TypesKeptInit, TypesKeptNext, PTL DEF MCSpec
=============================================================================
