--------------------------- MODULE Checkin_proofs ---------------------------
(***************************************************************************)
(* Proofs about the check-in screens of MCFrontDesk: the bill and the      *)
(* requests of the form, saved drafts, and the scan of identity cards.     *)
(***************************************************************************)
EXTENDS MCFrontDesk, FiniteSetTheorems, SequenceTheorems,
        WellFoundedInduction, TLAPS

-----------------------------------------------------------------------------
(* The sum of the screens *)

\* A step is a step of the screen that is there, or leaves it as it is.
LEMMA StepOfScreen ==
    ASSUME [MCNext]_mcVars
    PROVE  /\ screen' = screen
           /\ screen = "drafts" => [SavedDrafts!Next]_SavedDrafts!draftVars
           /\ screen = "check-in" => [CheckinPage!Next]_CheckinPage!formVars
           /\ screen = "scan" => [ScanPanel!Next]_ScanPanel!scanVars
           /\ screen = "documents" => [DocumentPanel!Next]_DocumentPanel!docVars
           /\ screen = "co-guests" => [CoGuestCards!Next]_CoGuestCards!partyVars
           /\ screen = "booking guest" => [GuestCard!Next]_GuestCard!guestVars
           /\ screen = "booking" => [BookingPage!Next]_BookingPage!advanceVars
           /\ screen = "voucher" => [VoucherPage!Next]_VoucherPage!vars
           /\ screen = "guests" => [GuestsPage!Next]_GuestsPage!currentGuestsVars
           /\ screen = "shared guests" =>
                [SharedGuestsPage!Next]_SharedGuestsPage!currentGuestsVars
           /\ screen = "advance bookings" => [AdvanceList!Next]_AdvanceList!vars
           /\ screen = "advance bookings found" =>
                [AdvanceSearch!Next]_AdvanceSearch!vars
           /\ screen = "completed bookings" => [CompletedList!Next]_CompletedList!vars
           /\ screen = "invoices" => [InvoicesPage!Next]_InvoicesPage!invoicesVars
           /\ screen = "payments" => [PaymentsPage!Next]_PaymentsPage!vars
           /\ screen = "payments found" => [PaymentsSearch!Next]_PaymentsSearch!vars
<1>1. ASSUME UNCHANGED <<screen, memory>>
      PROVE  UNCHANGED <<screen, SavedDrafts!draftVars, CheckinPage!formVars,
                         ScanPanel!scanVars, DocumentPanel!docVars, CoGuestCards!partyVars,
                         GuestCard!guestVars, BookingPage!advanceVars,
                         VoucherPage!vars, GuestsPage!currentGuestsVars,
                         SharedGuestsPage!currentGuestsVars, AdvanceList!vars,
                         AdvanceSearch!vars, CompletedList!vars,
                         InvoicesPage!invoicesVars, PaymentsPage!vars,
                         PaymentsSearch!vars>>
    BY <1>1
    DEF memory, SavedDrafts!draftVars, CheckinPage!formVars,
        ScanPanel!scanVars, DocumentPanel!docVars, DocumentPanel!tileVars, DocumentPanel!cameraVars,
        CoGuestCards!partyVars, GuestCard!guestVars, GuestCard!formVars,
        BookingPage!advanceVars, BookingPage!pickerVars, BookingPage!payVars,
        BookingPage!sendVars, BookingPage!serverVars, VoucherPage!vars,
        VoucherPage!jobVars, VoucherPage!sendVars,
        GuestsPage!currentGuestsVars, GuestsPage!serverVars, GuestsPage!copies,
        GuestsPage!printVars, GuestsPage!editVars,
        SharedGuestsPage!currentGuestsVars, SharedGuestsPage!serverVars,
        SharedGuestsPage!copies, SharedGuestsPage!printVars,
        SharedGuestsPage!editVars, AdvanceList!vars, AdvanceList!listVars,
        AdvanceList!filterVars, AdvanceList!dialogVars, AdvanceSearch!vars,
        AdvanceSearch!listVars, AdvanceSearch!filterVars,
        AdvanceSearch!dialogVars, CompletedList!vars, CompletedList!filterVars,
        CompletedList!drawerVars, CompletedList!reversalVars,
        InvoicesPage!invoicesVars, PaymentsPage!vars, PaymentsPage!bookVars,
        PaymentsPage!deskVars, PaymentsPage!historyVars, PaymentsSearch!vars,
        PaymentsSearch!bookVars, PaymentsSearch!deskVars,
        PaymentsSearch!historyVars
<1>2. CASE UNCHANGED mcVars
    BY <1>1, <1>2 DEF mcVars
<1>3. CASE MCNext
    BY <1>1, <1>3
    DEF MCNext, CheckoutStep, SavedDraftsStep, CoGuestCardsStep,
        CheckinPageStep, ScanPanelStep, DocumentPanelStep, GuestCardStep,
        BookingPageStep, VoucherPageStep, GuestsPageStep, AdvanceListStep,
        CompletedListStep, InvoicesPageStep, PaymentsPageStep,
        SharedGuestsPageStep, AdvanceSearchStep, MenusOfRolesStep,
        MenusOfHotelsStep, PaymentsSearchStep
<1> QED
    BY <1>2, <1>3

-----------------------------------------------------------------------------
(* The bill of a check-in *)

LEMMA Products ==
    ASSUME NEW a \in Nat, NEW b \in Nat, NEW r \in Nat
    PROVE  /\ a * r \in Nat /\ (a + b) * r = a * r + b * r
           /\ a <= b => a * r <= b * r
<1>1. a * r \in Nat /\ (a + b) * r = a * r + b * r
    OBVIOUS
<1>2. ASSUME a <= b
      PROVE  a * r <= b * r
  <2>1. b - a \in Nat /\ b = a + (b - a)
      BY <1>2
  <2>2. (b - a) * r \in Nat
      BY <2>1
  <2>3. b * r = a * r + (b - a) * r
      BY <2>1
  <2> HIDE <2>1
  <2> QED
      BY <1>1, <2>2, <2>3
<1> QED
    BY <1>1, <1>2

\* What is rounded is off by half a rupee at most.
LEMMA RoundedNear ==
    ASSUME NEW x \in Nat
    PROVE  /\ CheckinPage!Rounded(x, 100) \in Nat /\ CheckinPage!Rounded(x, 200) \in Nat
           /\ 2 * x - 100 < 200 * CheckinPage!Rounded(x, 100)
           /\ 200 * CheckinPage!Rounded(x, 100) <= 2 * x + 100
           /\ x - 100 < 200 * CheckinPage!Rounded(x, 200)
           /\ 200 * CheckinPage!Rounded(x, 200) <= x + 100
<1>1. /\ CheckinPage!Rounded(x, 100) = (2 * x + 100) \div 200
      /\ CheckinPage!Rounded(x, 200) = (2 * x + 200) \div 400
    BY DEF CheckinPage!Rounded
<1>2. /\ (2 * x + 100) \div 200 \in Nat /\ (2 * x + 200) \div 400 \in Nat
      /\ 2 * x + 100 < 200 * ((2 * x + 100) \div 200) + 200
      /\ 200 * ((2 * x + 100) \div 200) <= 2 * x + 100
      /\ 2 * x + 200 < 400 * ((2 * x + 200) \div 400) + 400
      /\ 400 * ((2 * x + 200) \div 400) <= 2 * x + 200
    OBVIOUS
<1> QED
    BY <1>1, <1>2

\* A line costs its amount and a tax that is off by a rupee at most; more costs
\* no less; the tax of whole hundreds is exact.
LEMMA TaxOfLine ==
    ASSUME NEW a \in Nat
    PROVE  /\ CheckinPage!calculate_gst(a) \in Nat /\ a <= CheckinPage!calculate_gst(a)
           /\ ~m2 => CheckinPage!calculate_gst(a) = a
           /\ m2 => /\ a * GstRate - 100 < 100 * (CheckinPage!calculate_gst(a) - a)
                    /\ 100 * (CheckinPage!calculate_gst(a) - a) <= a * GstRate + 100
<1> DEFINE x == a * GstRate
<1>1. x \in Nat
    BY Products, MoneyAssumption
<1> HIDE DEF x
<1>2. CASE m2
  <2>1. CheckinPage!calculate_gst(a) = a + 2 * CheckinPage!Rounded(x, 200)
      BY <1>2, Zenon DEF CheckinPage!calculate_gst, x
  <2>2. /\ CheckinPage!Rounded(x, 200) \in Nat
        /\ x - 100 < 200 * CheckinPage!Rounded(x, 200)
        /\ 200 * CheckinPage!Rounded(x, 200) <= x + 100
      BY <1>1, RoundedNear
  <2>3. /\ CheckinPage!calculate_gst(a) \in Nat /\ a <= CheckinPage!calculate_gst(a)
        /\ x - 100 < 100 * (CheckinPage!calculate_gst(a) - a)
        /\ 100 * (CheckinPage!calculate_gst(a) - a) <= x + 100
      BY <1>1, <2>1, <2>2
  <2> QED
      BY <1>2, <2>3, Zenon DEF x
<1>3. CASE ~m2
  <2>1. CheckinPage!calculate_gst(a) = a + 0
      BY <1>3, Zenon DEF CheckinPage!calculate_gst
  <2> QED
      BY <1>3, <2>1
<1> QED
    BY <1>2, <1>3

LEMMA TaxGrows ==
    ASSUME NEW a \in Nat, NEW b \in Nat, a <= b
    PROVE  CheckinPage!calculate_gst(a) <= CheckinPage!calculate_gst(b)
<1> DEFINE x == a * GstRate
           y == b * GstRate
<1>1. x \in Nat /\ y \in Nat /\ x <= y
    BY Products, MoneyAssumption
<1> HIDE DEF x, y
<1>2. CASE m2
  <2>1. /\ CheckinPage!calculate_gst(a) = a + 2 * CheckinPage!Rounded(x, 200)
        /\ CheckinPage!calculate_gst(b) = b + 2 * CheckinPage!Rounded(y, 200)
      BY <1>2, Zenon DEF CheckinPage!calculate_gst, x, y
  <2>2. /\ CheckinPage!Rounded(x, 200) = (2 * x + 200) \div 400
        /\ CheckinPage!Rounded(y, 200) = (2 * y + 200) \div 400
      BY <1>1 DEF CheckinPage!Rounded
  <2>3. /\ (2 * x + 200) \div 400 \in Nat /\ (2 * y + 200) \div 400 \in Nat
        /\ (2 * x + 200) \div 400 <= (2 * y + 200) \div 400
      BY <1>1
  <2> QED
      BY <2>1, <2>2, <2>3
<1>3. CASE ~m2
  <2>1. /\ CheckinPage!calculate_gst(a) = a + 0
        /\ CheckinPage!calculate_gst(b) = b + 0
      BY <1>3, Zenon DEF CheckinPage!calculate_gst
  <2> QED
      BY <2>1
<1> QED
    BY <1>2, <1>3

LEMMA TaxOfFee ==
    ASSUME NEW fee \in {0, 200}
    PROVE  /\ CheckinPage!calculate_gst(fee) \in Nat
           /\ CheckinPage!calculate_gst(fee) <= CheckinPage!calculate_gst(200)
           /\ m2 => 100 * (CheckinPage!calculate_gst(fee) - fee) = fee * GstRate
           /\ fee = 0 => CheckinPage!calculate_gst(fee) = 0
<1> DEFINE tax == CheckinPage!Rounded(fee * GstRate, 200)
<1>1. GstRate \in Nat /\ fee \in Nat /\ fee <= 200
    BY MoneyAssumption
<1>2. CheckinPage!calculate_gst(fee) \in Nat
        /\ CheckinPage!calculate_gst(fee) <= CheckinPage!calculate_gst(200)
    BY <1>1, TaxOfLine, TaxGrows
<1>3. \E n \in Nat : fee * GstRate = 200 * n /\ (fee = 0 => n = 0)
  <2>1. CASE fee = 0
      BY <1>1, <2>1
  <2>2. CASE fee = 200
      BY <1>1, <2>2
  <2> QED
      BY <2>1, <2>2
<1>4. PICK n \in Nat : fee * GstRate = 200 * n /\ (fee = 0 => n = 0)
    BY <1>3
<1>5. tax = n
  <2>1. tax = CheckinPage!Rounded(200 * n, 200)
      BY <1>4
  <2>2. /\ 200 * n \in Nat /\ CheckinPage!Rounded(200 * n, 200) \in Nat
        /\ 200 * n - 100 < 200 * CheckinPage!Rounded(200 * n, 200)
        /\ 200 * CheckinPage!Rounded(200 * n, 200) <= 200 * n + 100
      BY RoundedNear
  <2> HIDE DEF tax
  <2> QED
      BY <2>1, <2>2
<1> HIDE DEF tax
<1>6. CASE m2
  <2>1. CheckinPage!calculate_gst(fee) = fee + 2 * tax
      BY <1>6, Zenon DEF CheckinPage!calculate_gst, tax
  <2> QED
      BY <1>1, <1>2, <1>4, <1>5, <1>6, <2>1
<1>7. CASE ~m2
    BY <1>1, <1>2, <1>7, TaxOfLine
<1> QED
    BY <1>6, <1>7

LEMMA TaxOfHours ==
    /\ m2 => 100 * (CheckinPage!calculate_gst(200) - 200) = 200 * GstRate
    /\ CheckinPage!calculate_gst(0) = 0
<1>1. 0 \in {0, 200} /\ 200 \in {0, 200}
    OBVIOUS
<1>2. CheckinPage!calculate_gst(0) = 0
    BY <1>1, TaxOfFee, Zenon
<1>3. m2 => 100 * (CheckinPage!calculate_gst(200) - 200) = 200 * GstRate
    BY <1>1, TaxOfFee, Zenon
<1> QED
    BY <1>2, <1>3

LEMMA FeeIsTwoHours ==
    ASSUME NEW b \in CheckinPage!Bills
    PROVE  CheckinPage!EarlyFee(b) \in {0, 200}
<1>1. b.time \in {580, 720}
    BY DEF CheckinPage!Bills, CheckinPage!Times
<1> QED
    BY <1>1
    DEF CheckinPage!EarlyFee, CheckinPage!calcEarlyCheckinFee, CheckinPage!Standard,
        CheckinPage!Grace, CheckinPage!HourlyFee

\* What the booking is charged in all.
Charged == CheckinPage!calculate_gst(LongRent) + CheckinPage!calculate_gst(Extra)
             + CheckinPage!calculate_gst(200)

\* The tax of an amount depends on the hotel alone.
LEMMA TaxStays ==
    ASSUME UNCHANGED m2, NEW CONSTANT a
    PROVE  CheckinPage!calculate_gst(a)' = CheckinPage!calculate_gst(a)
    BY DEF CheckinPage!calculate_gst, CheckinPage!Rounded

LEMMA PaidOnceIs ==
    CheckinPage!PaidOnce
      <=> /\ m13.status = "checked_in" => m13.paid <= Advance /\ m13.total <= Charged
          /\ \A r \in Rooms : m14[r].bookings <= 1 /\ m14[r].advances <= Advance
<1>1. 2 * CheckinPage!HourlyFee = 200
    BY DEF CheckinPage!HourlyFee
<1> QED
    BY <1>1, Zenon DEF CheckinPage!PaidOnce, Charged

\* The amounts of a bill.
LEMMA AmountsOfBill ==
    ASSUME NEW b \in CheckinPage!Bills
    PROVE  /\ Rent \in Nat /\ LongRent \in Nat /\ Extra \in Nat /\ Advance \in Nat
           /\ Rent <= LongRent
           /\ CheckinPage!RentOf(b) \in Nat /\ CheckinPage!RentOf(b) <= LongRent
           /\ b.extra \in Nat /\ b.extra <= Extra
           /\ CheckinPage!collectedAdvance(b) \in Nat
           /\ CheckinPage!collectedAdvance(b) <= Advance
           /\ CheckinPage!EarlyFee(b) \in Nat /\ CheckinPage!EarlyFee(b) \in {0, 200}
<1>1. Rent \in Nat /\ LongRent \in Nat /\ Extra \in Nat /\ Advance \in Nat
        /\ Rent <= LongRent
    BY MoneyAssumption
<1>2. CheckinPage!RentOf(b) \in Nat /\ CheckinPage!RentOf(b) <= LongRent
    BY <1>1 DEF CheckinPage!RentOf
<1>3. b.extra \in Nat /\ b.extra <= Extra
    BY <1>1 DEF CheckinPage!Bills
<1>4. CheckinPage!collectedAdvance(b) \in Nat /\ CheckinPage!collectedAdvance(b) <= Advance
    BY <1>1 DEF CheckinPage!collectedAdvance, CheckinPage!Bills
<1> QED
    BY <1>1, <1>2, <1>3, <1>4, FeeIsTwoHours

\* The server of a check-in charges the rooms, what was entered and the fee.
LEMMA ServerCharges ==
    ASSUME NEW b \in CheckinPage!Bills, m1 \in {"walkIn", "booking"}, m13.total \in Nat,
           m1 = "booking" => m13.paid = 0
    PROVE  CheckinPage!CheckedInServer(b) =
             [status |-> "checked_in",
              dates |-> IF m1 = "walkIn" THEN b.dates ELSE m13.dates,
              total |->
                IF m1 = "walkIn"
                THEN CheckinPage!calculate_gst(CheckinPage!RentOf(b))
                       + CheckinPage!calculate_gst(b.extra)
                       + CheckinPage!calculate_gst(CheckinPage!EarlyFee(b))
                ELSE m13.total + CheckinPage!EarlyFee(b)
                       + CheckinPage!calculate_gst(b.extra),
              paid |-> CheckinPage!collectedAdvance(b)]
<1>1. /\ m1 = "booking" => m13.paid + CheckinPage!collectedAdvance(b)
                               = CheckinPage!collectedAdvance(b)
      /\ CheckinPage!EarlyFee(b) \in Nat /\ b.extra \in Nat
    BY AmountsOfBill
<1>2. CheckinPage!calculate_gst(b.extra) \in Nat
    BY <1>1, TaxOfLine
<1>3. CASE m1 = "walkIn"
    BY <1>3 DEF CheckinPage!CheckedInServer, CheckinPage!chargedFee
<1>4. CASE m1 # "walkIn"
  <2>1. CheckinPage!chargedFee(b) = 0 /\ CheckinPage!calculate_gst(0) = 0
      BY <1>4, TaxOfFee DEF CheckinPage!chargedFee
  <2> DEFINE t == m13.total + CheckinPage!EarlyFee(b) + CheckinPage!calculate_gst(b.extra)
  <2>2. t + CheckinPage!calculate_gst(0) = t
      BY <1>1, <1>2, <2>1
  <2> QED
      BY <1>1, <1>4, <2>1, <2>2 DEF CheckinPage!CheckedInServer
<1> QED
    BY <1>3, <1>4

LEMMA ChargesOnce ==
    ASSUME CheckinPage!ChargedOnce, NEW b \in CheckinPage!Bills,
           m1 = "booking" => m13.status # "checked_in"
    PROVE  /\ CheckinPage!CheckedInServer(b) \in
                [status : {"none", "confirmed", "checked_in"},
                 dates : {"asBooked", "changed"}, total : Nat, paid : Nat]
           /\ CheckinPage!CheckedInServer(b).status = "checked_in"
           /\ CheckinPage!CheckedInServer(b).paid <= Advance
           /\ CheckinPage!CheckedInServer(b).total <= Charged
<1> DEFINE tax(a) == CheckinPage!calculate_gst(a)
           fee == CheckinPage!EarlyFee(b)
           rent == CheckinPage!RentOf(b)
           total == IF m1 = "walkIn" THEN tax(rent) + tax(b.extra) + tax(fee)
                    ELSE m13.total + fee + tax(b.extra)
           dates == IF m1 = "walkIn" THEN b.dates ELSE m13.dates
           paid == CheckinPage!collectedAdvance(b)
<1>1. /\ m13.total \in Nat
      /\ m1 = "booking" => m13.paid = 0 /\ m13.total <= tax(LongRent)
      /\ m13.dates \in {"asBooked", "changed"} /\ m1 \in {"walkIn", "booking"}
    BY DEF CheckinPage!ChargedOnce
<1>2. dates \in {"asBooked", "changed"}
    BY <1>1 DEF CheckinPage!Bills
<1>3. CheckinPage!CheckedInServer(b)
        = [status |-> "checked_in", dates |-> dates, total |-> total, paid |-> paid]
    BY <1>1, ServerCharges
<1>4. /\ LongRent \in Nat /\ Extra \in Nat /\ rent \in Nat /\ rent <= LongRent
      /\ b.extra \in Nat /\ b.extra <= Extra /\ fee \in {0, 200}
      /\ paid \in Nat /\ paid <= Advance
    BY AmountsOfBill
<1> HIDE DEF fee, rent, dates, paid
<1>5. /\ tax(rent) \in Nat /\ tax(rent) <= tax(LongRent) /\ tax(LongRent) \in Nat
      /\ tax(b.extra) \in Nat /\ tax(b.extra) <= tax(Extra) /\ tax(Extra) \in Nat
    BY <1>4, TaxOfLine, TaxGrows
<1>6. /\ tax(fee) \in Nat /\ tax(fee) <= tax(200)
      /\ tax(200) \in Nat /\ 200 <= tax(200)
    BY <1>4, TaxOfLine, TaxOfFee
<1>7. fee \in Nat /\ fee <= 200
    BY <1>4
<1> HIDE DEF tax
<1>8. total \in Nat /\ total <= tax(LongRent) + tax(Extra) + tax(200)
    BY <1>1, <1>5, <1>6, <1>7
<1>9. tax(LongRent) + tax(Extra) + tax(200) = Charged
    BY Zenon DEF Charged, tax
<1> HIDE DEF total
<1> QED
    BY <1>2, <1>3, <1>4, <1>8, <1>9

LEMMA CheckinInit == CheckinPage!Init => CheckinPage!ChargedOnce /\ CheckinPage!BalanceKept
<1> SUFFICES ASSUME CheckinPage!Init
             PROVE  CheckinPage!ChargedOnce /\ CheckinPage!BalanceKept
    OBVIOUS
<1>1. Rent \in Nat /\ LongRent \in Nat /\ Rent <= LongRent
    BY MoneyAssumption
<1>2. CheckinPage!calculate_gst(Rent) \in Nat /\ CheckinPage!calculate_gst(LongRent) \in Nat
        /\ CheckinPage!calculate_gst(Rent) <= CheckinPage!calculate_gst(LongRent)
    BY <1>1, TaxOfLine, TaxGrows
<1>3. /\ m1 \in {"walkIn", "booking"} /\ m2 \in BOOLEAN /\ m10 = "form" /\ m9 = None
      /\ m14 = [r \in Rooms |-> [bookings |-> 0, advances |-> 0]] /\ Advance \in Nat
    BY MoneyAssumption DEF CheckinPage!Init
<1>4. /\ m14 \in [Rooms -> [bookings : Nat, advances : Nat]]
      /\ \A r \in Rooms : m14[r].bookings = 0 /\ m14[r].advances = 0
    BY <1>3
<1>5. CheckinPage!PaidOnce <=> (m13.status = "checked_in"
                                  => m13.paid <= Advance /\ m13.total <= Charged)
    BY <1>3, <1>4, PaidOnceIs
<1>6. CASE m1 = "walkIn"
  <2>1. m13 = [status |-> "none", dates |-> "asBooked", total |-> 0, paid |-> 0]
      BY <1>6 DEF CheckinPage!Init
  <2> QED
      BY <1>2, <1>3, <1>4, <1>5, <1>6, <2>1
      DEF CheckinPage!ChargedOnce, CheckinPage!BalanceKept
<1>7. CASE m1 # "walkIn"
  <2>1. m13 = [status |-> "confirmed", dates |-> "asBooked",
               total |-> CheckinPage!calculate_gst(Rent), paid |-> 0]
      BY <1>7 DEF CheckinPage!Init
  <2> QED
      BY <1>2, <1>3, <1>4, <1>5, <1>7, <2>1
      DEF CheckinPage!ChargedOnce, CheckinPage!BalanceKept
<1> QED
    BY <1>6, <1>7

\* The mode of the form and of the tax stay.
LEMMA ModeStays ==
    [CheckinPage!Next]_CheckinPage!formVars => UNCHANGED <<m1, m2>>
    BY DEF CheckinPage!Next, CheckinPage!formVars,
           CheckinPage!handleGuestSelected, CheckinPage!GuestCreated,
           CheckinPage!ProfileComes, CheckinPage!ClearGuest,
           CheckinPage!createPrimaryGuest, CheckinPage!AutofillGuest,
           CheckinPage!EditIdentity, CheckinPage!ChooseRoom,
           CheckinPage!validateAndSubmit, CheckinPage!PatchGuest,
           CheckinPage!CreateCoGuests, CheckinPage!PatchBooking,
           CheckinPage!CheckIn, CheckinPage!WriteNote

LEMMA CheckinNext ==
    CheckinPage!ChargedOnce /\ [CheckinPage!Next]_CheckinPage!formVars
        => CheckinPage!ChargedOnce'
<1> DEFINE Booked == [status : {"none", "confirmed", "checked_in"},
                      dates : {"asBooked", "changed"}, total : Nat, paid : Nat]
           Stages == {"form", "guest", "coGuests", "booking", "checkIn", "note", "done"}
           tax(a) == CheckinPage!calculate_gst(a)
           Fair(b) == IF b.status = "checked_in"
                      THEN b.paid <= Advance /\ b.total <= Charged
                      ELSE b.paid = 0 /\ b.total <= tax(LongRent)
           Taken(w) == /\ w \in [Rooms -> [bookings : Nat, advances : Nat]]
                       /\ \A r \in Rooms : /\ w[r].bookings = 0 => w[r].advances = 0
                                           /\ w[r].bookings <= 1 /\ w[r].advances <= Advance
<1> SUFFICES ASSUME CheckinPage!ChargedOnce,
                    [CheckinPage!Next]_CheckinPage!formVars
             PROVE  CheckinPage!ChargedOnce'
    OBVIOUS
<1>1. UNCHANGED <<m1, m2>> /\ m1 \in {"walkIn", "booking"} /\ m2 \in BOOLEAN
    BY ModeStays DEF CheckinPage!ChargedOnce
<1>2. m13 \in Booked /\ Fair(m13) /\ Taken(m14) /\ m9 \in Rooms \union {None}
    BY PaidOnceIs DEF CheckinPage!ChargedOnce
<1>3. ASSUME m10' \in Stages,
             m10' # "form" => m11'.bill \in CheckinPage!Bills
                                /\ (m1 = "walkIn" => m11'.room \in Rooms),
             m13' \in Booked, Fair(m13'), Taken(m14'), m9' \in Rooms \union {None}
      PROVE  CheckinPage!ChargedOnce'
  <2>1. Charged' = Charged
    <3>1. CheckinPage!calculate_gst(LongRent)' = CheckinPage!calculate_gst(LongRent)
        BY <1>1, TaxStays
    <3>2. CheckinPage!calculate_gst(Extra)' = CheckinPage!calculate_gst(Extra)
        BY <1>1, TaxStays
    <3>3. CheckinPage!calculate_gst(200)' = CheckinPage!calculate_gst(200)
        BY <1>1, TaxStays
    <3> QED
        BY <3>1, <3>2, <3>3 DEF Charged
  <2>2. CheckinPage!calculate_gst(LongRent)' = CheckinPage!calculate_gst(LongRent)
      BY <1>1, TaxStays
  <2>3. CheckinPage!PaidOnce'
          <=> /\ m13'.status = "checked_in"
                   => m13'.paid <= Advance /\ m13'.total <= Charged'
              /\ \A r \in Rooms : m14'[r].bookings <= 1 /\ m14'[r].advances <= Advance
    <3>1. (CheckinPage!PaidOnce
             <=> /\ m13.status = "checked_in" => m13.paid <= Advance /\ m13.total <= Charged
                 /\ \A r \in Rooms : m14[r].bookings <= 1 /\ m14[r].advances <= Advance)'
        BY PaidOnceIs, PTL
    <3> QED
        BY <3>1
  <2> QED
      BY <1>1, <1>3, <2>1, <2>2, <2>3 DEF CheckinPage!ChargedOnce
<1>4. ASSUME m10 # "form", m13' \in Booked, Fair(m13'), Taken(m14'),
             m9' \in Rooms \union {None},
             \/ CheckinPage!Fails
             \/ \E next \in Stages : CheckinPage!GoesOnTo(next)
      PROVE  CheckinPage!ChargedOnce'
  <2>1. /\ m10' \in Stages
        /\ m10' # "form" => m11'.bill \in CheckinPage!Bills
                              /\ (m1 = "walkIn" => m11'.room \in Rooms)
      BY <1>4 DEF CheckinPage!ChargedOnce, CheckinPage!Fails, CheckinPage!GoesOnTo
  <2> QED
      BY <1>3, <1>4, <2>1
<1>5. ASSUME NEW b \in CheckinPage!Bills, CheckinPage!validateAndSubmit(b)
      PROVE  CheckinPage!ChargedOnce'
  <2>1. /\ m10' = "guest" /\ m11'.bill = b /\ m11'.room = m9 /\ UNCHANGED <<m9, m13, m14>>
        /\ m1 = "booking" \/ m9 # None
      BY <1>5 DEF CheckinPage!validateAndSubmit, CheckinPage!bookingVars
  <2> QED
      BY <1>2, <1>3, <2>1
<1>6. CASE CheckinPage!PatchGuest \/ CheckinPage!CreateCoGuests \/ CheckinPage!WriteNote
  <2>1. m10 # "form" /\ UNCHANGED <<m9, m13, m14>>
      BY <1>6 DEF CheckinPage!PatchGuest, CheckinPage!CreateCoGuests, CheckinPage!WriteNote,
                  CheckinPage!bookingVars
  <2>2. \/ CheckinPage!Fails
        \/ \E next \in Stages : CheckinPage!GoesOnTo(next)
      BY <1>6 DEF CheckinPage!PatchGuest, CheckinPage!CreateCoGuests, CheckinPage!WriteNote
  <2> QED
      BY <1>2, <1>4, <2>1, <2>2
<1>7. CASE CheckinPage!PatchBooking
  <2> DEFINE priced == [status |-> m13.status, dates |-> "changed",
                        total |-> tax(LongRent), paid |-> m13.paid]
  <2>1. m10 # "form" /\ UNCHANGED <<m9, m14>>
      BY <1>7 DEF CheckinPage!PatchBooking
  <2>2. \/ CheckinPage!Fails
        \/ \E next \in Stages : CheckinPage!GoesOnTo(next)
      BY <1>7 DEF CheckinPage!PatchBooking
  <2>3. m13' = m13 \/ (m13.status # "checked_in" /\ m13' = priced)
      BY <1>7 DEF CheckinPage!PatchBooking
  <2>4. tax(LongRent) \in Nat
      BY MoneyAssumption, TaxOfLine
  <2>5. m13.status # "checked_in" => priced \in Booked /\ Fair(priced)
    <3> HIDE DEF tax
    <3> QED
        BY <1>2, <2>4
  <2> QED
      BY <1>2, <1>4, <2>1, <2>2, <2>3, <2>5
<1>8. CASE CheckinPage!CheckIn
  <2>1. /\ m10 = "checkIn" /\ m11.bill \in CheckinPage!Bills
        /\ m1 = "walkIn" => m11.room \in Rooms
      BY <1>8 DEF CheckinPage!CheckIn, CheckinPage!ChargedOnce
  <2>2. \/ CheckinPage!Fails
        \/ \E next \in Stages : CheckinPage!GoesOnTo(next)
      BY <1>8 DEF CheckinPage!CheckIn
  <2>3. m9' \in Rooms \union {None}
      BY <1>2, <1>8 DEF CheckinPage!CheckIn
  <2>4. \/ UNCHANGED <<m13, m14>>
        \/ CheckinPage!Checkinable /\ CheckinPage!ServerChecksIn
      BY <1>8 DEF CheckinPage!CheckIn, CheckinPage!bookingVars
  <2>5. ASSUME CheckinPage!Checkinable, CheckinPage!ServerChecksIn
        PROVE  m13' \in Booked /\ Fair(m13') /\ Taken(m14')
    <3>1. m13' = CheckinPage!CheckedInServer(m11.bill)
        BY <2>5 DEF CheckinPage!ServerChecksIn
    <3>2. m1 = "booking" => m13.status # "checked_in"
        BY <2>5 DEF CheckinPage!Checkinable
    <3>3. m13' \in Booked /\ Fair(m13')
        BY <2>1, <3>1, <3>2, ChargesOnce
    <3> DEFINE adv == CheckinPage!collectedAdvance(m11.bill)
    <3>4. CASE m1 = "walkIn"
      <4>1. m11.room \in Rooms /\ m14[m11.room].bookings = 0 /\ m14[m11.room].advances = 0
          BY <1>2, <2>1, <2>5, <3>4 DEF CheckinPage!Checkinable
      <4>2. adv \in Nat /\ adv <= Advance /\ 0 + adv = adv
          BY <2>1, AmountsOfBill
      <4> HIDE DEF adv
      <4>3. m14' = [m14 EXCEPT ![m11.room] = [bookings |-> m14[m11.room].bookings + 1,
                                              advances |-> m14[m11.room].advances + adv]]
          BY <2>5, <3>4, <4>1 DEF CheckinPage!ServerChecksIn, adv
      <4>4. m14' = [m14 EXCEPT ![m11.room] = [bookings |-> 0 + 1, advances |-> 0 + adv]]
          BY <4>1, <4>3
      <4>5. m14' = [m14 EXCEPT ![m11.room] = [bookings |-> 1, advances |-> adv]]
          BY <4>2, <4>4
      <4> QED
          BY <1>2, <3>3, <4>1, <4>2, <4>5
    <3>5. CASE m1 = "booking"
        BY <1>2, <2>5, <3>3, <3>5 DEF CheckinPage!ServerChecksIn
    <3> QED
        BY <1>1, <3>4, <3>5
  <2>6. m13' \in Booked /\ Fair(m13') /\ Taken(m14')
      BY <1>2, <2>4, <2>5
  <2> QED
      BY <1>4, <2>1, <2>2, <2>3, <2>6
<1>9. ASSUME NEW r \in Rooms, CheckinPage!ChooseRoom(r)
      PROVE  CheckinPage!ChargedOnce'
    BY <1>2, <1>3, <1>9
    DEF CheckinPage!ChooseRoom, CheckinPage!ChargedOnce, CheckinPage!bookingVars
<1>10. CASE UNCHANGED <<m9, m10, m11, m13, m14>>
    BY <1>2, <1>3, <1>10 DEF CheckinPage!ChargedOnce
<1> QED
    BY <1>5, <1>6, <1>7, <1>8, <1>9, <1>10
    DEF CheckinPage!Next, CheckinPage!formVars, CheckinPage!bookingVars,
        CheckinPage!handleGuestSelected,
        CheckinPage!GuestCreated, CheckinPage!ProfileComes, CheckinPage!ClearGuest,
        CheckinPage!createPrimaryGuest, CheckinPage!AutofillGuest,
        CheckinPage!EditIdentity

\* The balance and the charges of a bill do not depend on anything else that changes.
LEMMA BalanceAfter ==
    ASSUME UNCHANGED <<m1, m2>>,
           m10' # "form" => m11'.balance = CheckinPage!balance(m11'.bill),
           m1 = "booking" /\ m13'.status # "checked_in" /\ m13'.dates = "asBooked"
             => m13'.total = CheckinPage!calculate_gst(Rent),
           m10' \in {"note", "done"} =>
             /\ m13'.paid = CheckinPage!collectedAdvance(m11'.bill)
             /\ m1 = "walkIn" =>
                  m13'.total = CheckinPage!calculate_gst(CheckinPage!RentOf(m11'.bill))
                                 + CheckinPage!calculate_gst(m11'.bill.extra)
                                 + CheckinPage!calculate_gst(CheckinPage!EarlyFee(m11'.bill))
             /\ m1 = "booking" /\ m13'.dates = "asBooked" =>
                  m13'.total = CheckinPage!calculate_gst(Rent)
                                 + CheckinPage!EarlyFee(m11'.bill)
                                 + CheckinPage!calculate_gst(m11'.bill.extra)
    PROVE  CheckinPage!BalanceKept'
<1>1. m10' # "form" => m11'.balance = CheckinPage!balance(m11.bill)'
    BY Zenon DEF CheckinPage!balance, CheckinPage!payable, CheckinPage!payableWalkIn,
                 CheckinPage!payableArrival, CheckinPage!gstAmount,
                 CheckinPage!calculate_gst
<1>2. /\ CheckinPage!calculate_gst(Rent)' = CheckinPage!calculate_gst(Rent)
      /\ CheckinPage!calculate_gst(m11.bill.extra)'
           = CheckinPage!calculate_gst(m11'.bill.extra)
      /\ CheckinPage!calculate_gst(CheckinPage!RentOf(m11.bill))'
           = CheckinPage!calculate_gst(CheckinPage!RentOf(m11'.bill))
      /\ CheckinPage!calculate_gst(CheckinPage!EarlyFee(m11.bill))'
           = CheckinPage!calculate_gst(CheckinPage!EarlyFee(m11'.bill))
    BY Zenon DEF CheckinPage!calculate_gst
<1> QED
    BY <1>1, <1>2 DEF CheckinPage!BalanceKept

LEMMA BalanceNext ==
    CheckinPage!ChargedOnce /\ CheckinPage!BalanceKept
      /\ [CheckinPage!Next]_CheckinPage!formVars
        => CheckinPage!BalanceKept'
<1> DEFINE Asked(b) == CheckinPage!balance(b)
           AsBooked(s) == m1 = "booking" /\ s.status # "checked_in" /\ s.dates = "asBooked"
                            => s.total = CheckinPage!calculate_gst(Rent)
           Settled(s, b) ==
             /\ s.paid = CheckinPage!collectedAdvance(b)
             /\ m1 = "walkIn" =>
                  s.total = CheckinPage!calculate_gst(CheckinPage!RentOf(b))
                              + CheckinPage!calculate_gst(b.extra)
                              + CheckinPage!calculate_gst(CheckinPage!EarlyFee(b))
             /\ m1 = "booking" /\ s.dates = "asBooked" =>
                  s.total = CheckinPage!calculate_gst(Rent) + CheckinPage!EarlyFee(b)
                              + CheckinPage!calculate_gst(b.extra)
<1> SUFFICES ASSUME CheckinPage!ChargedOnce, CheckinPage!BalanceKept,
                    [CheckinPage!Next]_CheckinPage!formVars
             PROVE  CheckinPage!BalanceKept'
    OBVIOUS
<1>1. UNCHANGED <<m1, m2>> /\ m1 \in {"walkIn", "booking"}
    BY ModeStays DEF CheckinPage!ChargedOnce
<1>2. /\ m10 # "form" => m11.balance = Asked(m11.bill)
      /\ AsBooked(m13)
      /\ m10 \in {"note", "done"} => Settled(m13, m11.bill)
    BY DEF CheckinPage!BalanceKept
<1>3. ASSUME m10' # "form" => m11'.balance = Asked(m11'.bill), AsBooked(m13'),
             m10' \in {"note", "done"} => Settled(m13', m11'.bill)
      PROVE  CheckinPage!BalanceKept'
    BY <1>1, <1>3, BalanceAfter
<1> HIDE DEF Asked, Settled
<1>4. ASSUME CheckinPage!Fails, AsBooked(m13')
      PROVE  CheckinPage!BalanceKept'
  <2>1. m10' = "form"
      BY <1>4 DEF CheckinPage!Fails
  <2> QED
      BY <1>3, <1>4, <2>1
<1>5. ASSUME NEW next, CheckinPage!GoesOnTo(next), m10 # "form", AsBooked(m13'),
             next \in {"note", "done"} => Settled(m13', m11.bill)
      PROVE  CheckinPage!BalanceKept'
  <2>1. m10' = next /\ m11' = m11
      BY <1>5 DEF CheckinPage!GoesOnTo
  <2> QED
      BY <1>2, <1>3, <1>5, <2>1
<1>6. ASSUME NEW b \in CheckinPage!Bills, CheckinPage!validateAndSubmit(b)
      PROVE  CheckinPage!BalanceKept'
  <2>1. m10' = "guest" /\ m11'.bill = b /\ m11'.balance = Asked(b) /\ m13' = m13
      BY <1>6 DEF CheckinPage!validateAndSubmit, CheckinPage!bookingVars, Asked
  <2> QED
      BY <1>2, <1>3, <2>1
<1>7. CASE CheckinPage!PatchGuest \/ CheckinPage!CreateCoGuests \/ CheckinPage!WriteNote
  <2>1. m10 # "form" /\ m13' = m13
      BY <1>7 DEF CheckinPage!PatchGuest, CheckinPage!CreateCoGuests, CheckinPage!WriteNote,
                  CheckinPage!bookingVars
  <2>2. \/ CheckinPage!Fails
        \/ \E next \in {"coGuests", "booking", "checkIn"} : CheckinPage!GoesOnTo(next)
        \/ m10 = "note" /\ CheckinPage!GoesOnTo("done")
      BY <1>7 DEF CheckinPage!PatchGuest, CheckinPage!CreateCoGuests, CheckinPage!WriteNote
  <2> QED
      BY <1>2, <1>4, <1>5, <2>1, <2>2
<1>8. CASE CheckinPage!PatchBooking
  <2>1. m10 # "form"
      BY <1>8 DEF CheckinPage!PatchBooking
  <2>2. CheckinPage!Fails \/ CheckinPage!GoesOnTo("checkIn")
      BY <1>8 DEF CheckinPage!PatchBooking
  <2>3. m13' = m13 \/ m13'.dates = "changed"
      BY <1>8 DEF CheckinPage!PatchBooking
  <2> QED
      BY <1>2, <1>4, <1>5, <2>1, <2>2, <2>3
<1>9. CASE CheckinPage!CheckIn
  <2>1. m10 = "checkIn" /\ m11.bill \in CheckinPage!Bills
      BY <1>9 DEF CheckinPage!CheckIn, CheckinPage!ChargedOnce
  <2>2. CASE CheckinPage!Fails /\ m13' = m13
      BY <1>2, <1>4, <2>2
  <2>3. CASE CheckinPage!Checkinable /\ m13' = CheckinPage!CheckedInServer(m11.bill)
    <3>1. m1 = "booking" => m13.status # "checked_in"
        BY <2>3 DEF CheckinPage!Checkinable
    <3>2. m13.total \in Nat /\ (m1 = "booking" => m13.paid = 0)
        BY <3>1 DEF CheckinPage!ChargedOnce
    <3>3. m13' = [status |-> "checked_in",
                  dates |-> IF m1 = "walkIn" THEN m11.bill.dates ELSE m13.dates,
                  total |->
                    IF m1 = "walkIn"
                    THEN CheckinPage!calculate_gst(CheckinPage!RentOf(m11.bill))
                           + CheckinPage!calculate_gst(m11.bill.extra)
                           + CheckinPage!calculate_gst(CheckinPage!EarlyFee(m11.bill))
                    ELSE m13.total + CheckinPage!EarlyFee(m11.bill)
                           + CheckinPage!calculate_gst(m11.bill.extra),
                  paid |-> CheckinPage!collectedAdvance(m11.bill)]
        BY <1>1, <2>1, <2>3, <3>2, ServerCharges
    <3>4. Settled(m13', m11.bill) /\ AsBooked(m13')
        BY <1>1, <1>2, <3>1, <3>3 DEF Settled
    <3>5. CheckinPage!Fails
            \/ \E next \in {"note", "done"} : CheckinPage!GoesOnTo(next)
        BY <1>9 DEF CheckinPage!CheckIn
    <3> QED
        BY <1>4, <1>5, <2>1, <3>4, <3>5
  <2> QED
      BY <1>9, <2>2, <2>3 DEF CheckinPage!CheckIn, CheckinPage!ServerChecksIn,
                              CheckinPage!bookingVars
<1>10. CASE UNCHANGED <<m10, m11, m13>>
    BY <1>2, <1>3, <1>10
<1> QED
    BY <1>6, <1>7, <1>8, <1>9, <1>10
    DEF CheckinPage!Next, CheckinPage!formVars, CheckinPage!bookingVars,
        CheckinPage!handleGuestSelected,
        CheckinPage!GuestCreated, CheckinPage!ProfileComes, CheckinPage!ClearGuest,
        CheckinPage!createPrimaryGuest, CheckinPage!AutofillGuest,
        CheckinPage!EditIdentity, CheckinPage!ChooseRoom

\* Sums that are near stay near without what was paid, down to zero.
LEMMA RestsAreNear ==
    ASSUME NEW x \in Nat, NEW y \in Nat, NEW paid \in Nat, NEW n \in Nat,
           CheckinPage!Near(x, y, n)
    PROVE  CheckinPage!Near(CheckinPage!Positive(x - paid), CheckinPage!Positive(y - paid), n)
    BY DEF CheckinPage!Near, CheckinPage!Positive

\* The tax of a sum as the page shows it.
LEMMA TaxShown ==
    ASSUME NEW a \in Nat
    PROVE  /\ CheckinPage!gstAmount(a) \in Nat
           /\ ~m2 => CheckinPage!gstAmount(a) = 0
           /\ m2 => /\ 2 * (a * GstRate) - 100 < 200 * CheckinPage!gstAmount(a)
                    /\ 200 * CheckinPage!gstAmount(a) <= 2 * (a * GstRate) + 100
<1> DEFINE x == a * GstRate
<1>1. x \in Nat
    BY Products, MoneyAssumption
<1>2. CASE m2
  <2>1. CheckinPage!gstAmount(a) = CheckinPage!Rounded(x, 100)
      BY <1>2, Zenon DEF CheckinPage!gstAmount
  <2> HIDE DEF x
  <2>2. /\ CheckinPage!Rounded(x, 100) \in Nat
        /\ 2 * x - 100 < 200 * CheckinPage!Rounded(x, 100)
        /\ 200 * CheckinPage!Rounded(x, 100) <= 2 * x + 100
      BY <1>1, RoundedNear
  <2>3. /\ CheckinPage!gstAmount(a) \in Nat
        /\ 2 * x - 100 < 200 * CheckinPage!gstAmount(a)
        /\ 200 * CheckinPage!gstAmount(a) <= 2 * x + 100
      BY <2>1, <2>2
  <2> QED
      BY <1>2, <2>3, Zenon DEF x
<1>3. CASE ~m2
  <2>1. CheckinPage!gstAmount(a) = 0
      BY <1>3, Zenon DEF CheckinPage!gstAmount
  <2> QED
      BY <1>3, <2>1
<1> QED
    BY <1>2, <1>3

\* Taxes p and q that are rounded by themselves, and s that is exact, come near
\* the tax of the sum; p by itself comes nearer.
LEMMA TaxesAreNear ==
    ASSUME NEW x \in Nat, NEW y \in Nat, NEW z \in Nat,
           NEW p \in Int, NEW q \in Int, NEW s \in Int, NEW shown \in Nat,
           x - 100 < 100 * p, 100 * p <= x + 100,
           y - 100 < 100 * q, 100 * q <= y + 100, 100 * s = z,
           2 * (x + (y + z)) - 100 < 200 * shown,
           200 * shown <= 2 * (x + (y + z)) + 100
    PROVE  -2 <= shown - (p + q + s) /\ shown - (p + q + s) <= 2
    OBVIOUS

LEMMA TaxIsNear ==
    ASSUME NEW x \in Nat, NEW p \in Int, NEW shown \in Nat,
           x - 100 < 100 * p, 100 * p <= x + 100,
           2 * x - 100 < 200 * shown, 200 * shown <= 2 * x + 100
    PROVE  -1 <= shown - p /\ shown - p <= 1
    OBVIOUS

\* A walk-in pays for three lines and sees the tax of their sum.
LEMMA WalkInNear ==
    ASSUME NEW b \in CheckinPage!Bills
    PROVE  LET toPay == CheckinPage!calculate_gst(CheckinPage!RentOf(b))
                         + CheckinPage!calculate_gst(b.extra)
                         + CheckinPage!calculate_gst(CheckinPage!EarlyFee(b))
           IN  /\ CheckinPage!payableWalkIn(b) \in Nat /\ toPay \in Nat
               /\ CheckinPage!Near(CheckinPage!payableWalkIn(b), toPay, IF ~m2 THEN 0 ELSE 2)
<1> DEFINE rent == CheckinPage!RentOf(b)
           extra == b.extra
           fee == CheckinPage!EarlyFee(b)
           sum == rent + (extra + fee)
           tax(a) == CheckinPage!calculate_gst(a)
           shown == CheckinPage!gstAmount(sum)
           toPay == tax(rent) + tax(extra) + tax(fee)
<1>1. rent \in Nat /\ extra \in Nat /\ fee \in Nat /\ fee \in {0, 200} /\ GstRate \in Nat
    BY AmountsOfBill, MoneyAssumption
<1>2. CheckinPage!payableWalkIn(b) = sum + shown
    BY DEF CheckinPage!payableWalkIn, CheckinPage!displayExtra
<1> HIDE DEF rent, extra, fee
<1>3. sum \in Nat /\ sum * GstRate = rent * GstRate + (extra * GstRate + fee * GstRate)
      /\ rent * GstRate \in Nat /\ extra * GstRate \in Nat /\ fee * GstRate \in Nat
    BY <1>1, Products
<1>4. /\ tax(rent) \in Nat /\ tax(extra) \in Nat /\ tax(fee) \in Nat
      /\ ~m2 => tax(rent) = rent /\ tax(extra) = extra /\ tax(fee) = fee
    BY <1>1, TaxOfLine
<1>5. shown \in Nat /\ (~m2 => shown = 0)
    BY <1>3, TaxShown
<1>8. ASSUME NEW n \in Nat, -n <= (sum + shown) - toPay, (sum + shown) - toPay <= n
      PROVE  /\ CheckinPage!payableWalkIn(b) \in Nat /\ toPay \in Nat
             /\ CheckinPage!Near(CheckinPage!payableWalkIn(b), toPay, n)
  <2> HIDE DEF tax, shown, sum
  <2>1. toPay \in Nat /\ sum + shown \in Nat
      BY <1>3, <1>4, <1>5
  <2> HIDE DEF toPay
  <2> QED
      BY <1>2, <1>8, <2>1 DEF CheckinPage!Near
<1>6. CASE m2
  <2>1. /\ rent * GstRate - 100 < 100 * (tax(rent) - rent)
        /\ 100 * (tax(rent) - rent) <= rent * GstRate + 100
        /\ extra * GstRate - 100 < 100 * (tax(extra) - extra)
        /\ 100 * (tax(extra) - extra) <= extra * GstRate + 100
      BY <1>1, <1>6, TaxOfLine
  <2>2. 100 * (tax(fee) - fee) = fee * GstRate
    <3>1. CASE fee = 0
      <4>1. tax(fee) - fee = 0 /\ fee * GstRate = 0
          BY <1>1, <3>1, TaxOfHours
      <4> QED
          BY <4>1
    <3>2. CASE fee = 200
        BY <1>6, <3>2, TaxOfHours
    <3> QED
        BY <1>1, <3>1, <3>2
  <2>3. /\ 2 * (sum * GstRate) - 100 < 200 * shown
        /\ 200 * shown <= 2 * (sum * GstRate) + 100
      BY <1>3, <1>6, TaxShown
  <2> DEFINE x == rent * GstRate
             y == extra * GstRate
             z == fee * GstRate
             p == tax(rent) - rent
             q == tax(extra) - extra
             f == tax(fee) - fee
  <2>4. x \in Nat /\ y \in Nat /\ z \in Nat /\ p \in Int /\ q \in Int /\ f \in Int
      BY <1>1, <1>3, <1>4
  <2>5. sum * GstRate = x + (y + z)
      BY <1>3
  <2>6. /\ 2 * (x + (y + z)) - 100 < 200 * shown
        /\ 200 * shown <= 2 * (x + (y + z)) + 100
      BY <2>3, <2>5
  <2>7. /\ x - 100 < 100 * p /\ 100 * p <= x + 100
        /\ y - 100 < 100 * q /\ 100 * q <= y + 100 /\ 100 * f = z
      BY <2>1, <2>2
  <2> HIDE DEF x, y, z, p, q, f, shown
  <2>8. -2 <= shown - (p + q + f) /\ shown - (p + q + f) <= 2
      BY <1>5, <2>4, <2>6, <2>7, TaxesAreNear
  <2>9. (sum + shown) - toPay = shown - (p + q + f)
    <3> HIDE DEF tax
    <3> QED
        BY <1>1, <1>4, <1>5 DEF p, q, f
  <2>10. 2 \in Nat /\ (IF ~m2 THEN 0 ELSE 2) = 2
      BY <1>6
  <2> QED
      BY <1>8, <2>8, <2>9, <2>10, Zenon DEF rent, extra, fee, shown
<1>7. CASE ~m2
  <2>1. (sum + shown) - toPay = 0
    <3> HIDE DEF tax, shown
    <3> QED
        BY <1>1, <1>4, <1>5, <1>7
  <2> QED
      BY <1>7, <1>8, <2>1 DEF rent, extra, fee
<1> QED
    BY <1>6, <1>7

\* An arrival without a taxed fee pays for what is added as one line.
LEMMA ArrivalNear ==
    ASSUME NEW b \in CheckinPage!Bills, ~m2 \/ CheckinPage!EarlyFee(b) = 0
    PROVE  LET booked == CheckinPage!calculate_gst(Rent)
               payable == CheckinPage!payableArrival(b, booked)
               toPay == booked + CheckinPage!EarlyFee(b) + CheckinPage!calculate_gst(b.extra)
           IN  /\ payable \in Nat /\ toPay \in Nat
               /\ CheckinPage!Near(payable, toPay, IF ~m2 THEN 0 ELSE 1)
<1> DEFINE booked == CheckinPage!calculate_gst(Rent)
           extra == b.extra
           fee == CheckinPage!EarlyFee(b)
           shown == CheckinPage!gstAmount(extra + fee)
           tax == CheckinPage!calculate_gst(extra)
           payable == CheckinPage!payableArrival(b, booked)
           toPay == booked + fee + tax
<1>1. extra \in Nat /\ fee \in Nat /\ Rent \in Nat /\ GstRate \in Nat
    BY AmountsOfBill, MoneyAssumption
<1>2. payable = booked + (extra + fee) + shown
    BY DEF CheckinPage!payableArrival, CheckinPage!displayExtra
<1> HIDE DEF extra, fee
<1>3. booked \in Nat /\ tax \in Nat /\ (~m2 => tax = extra)
    BY <1>1, TaxOfLine
<1>4. extra + fee \in Nat /\ shown \in Nat /\ (~m2 => shown = 0)
    BY <1>1, TaxShown
<1>5. ASSUME NEW n \in Nat, -n <= payable - toPay, payable - toPay <= n
      PROVE  /\ payable \in Nat /\ toPay \in Nat
             /\ CheckinPage!Near(payable, toPay, n)
  <2> HIDE DEF tax, shown, booked, payable
  <2>1. payable \in Nat /\ toPay \in Nat
      BY <1>1, <1>2, <1>3, <1>4
  <2> HIDE DEF toPay
  <2> QED
      BY <1>5, <2>1 DEF CheckinPage!Near
<1>6. CASE m2
  <2> DEFINE x == extra * GstRate
             p == tax - extra
  <2>1. fee = 0 /\ extra + fee = extra
      BY <1>1, <1>6 DEF fee
  <2>2. x \in Nat /\ p \in Int
      BY <1>1, <1>3, Products
  <2>3. x - 100 < 100 * p /\ 100 * p <= x + 100
      BY <1>1, <1>6, TaxOfLine
  <2>4. 2 * x - 100 < 200 * shown /\ 200 * shown <= 2 * x + 100
      BY <1>1, <1>6, <2>1, TaxShown
  <2> HIDE DEF x, p, shown, tax, booked, payable
  <2>5. -1 <= shown - p /\ shown - p <= 1
      BY <1>4, <2>2, <2>3, <2>4, TaxIsNear
  <2>6. payable - toPay = shown - p
      BY <1>1, <1>2, <1>3, <1>4, <2>1 DEF p
  <2> QED
      BY <1>5, <1>6, <2>5, <2>6 DEF payable, booked, tax, extra, fee
<1>7. CASE ~m2
  <2>1. payable - toPay = 0
    <3> HIDE DEF tax, shown, booked, payable
    <3> QED
        BY <1>1, <1>2, <1>3, <1>4, <1>7
  <2> QED
      BY <1>5, <1>7, <2>1 DEF extra, fee
<1> QED
    BY <1>6, <1>7

LEMMA BalanceShown ==
    CheckinPage!ChargedOnce /\ CheckinPage!BalanceKept => CheckinPage!BalanceAgrees
<1> DEFINE b == m11.bill
<1> SUFFICES ASSUME CheckinPage!ChargedOnce, CheckinPage!BalanceKept, m10 = "done",
                    m1 = "walkIn" \/ (m13.dates = "asBooked"
                                        /\ (~m2 \/ CheckinPage!EarlyFee(b) = 0))
             PROVE  CheckinPage!Near(m11.balance,
                                     CheckinPage!Positive(m13.total - m13.paid),
                                     IF ~m2 THEN 0 ELSE IF m1 = "walkIn" THEN 2 ELSE 1)
    BY DEF CheckinPage!BalanceAgrees
<1>1. b \in CheckinPage!Bills /\ m1 \in {"walkIn", "booking"} /\ m2 \in BOOLEAN
    BY DEF CheckinPage!ChargedOnce
<1>2. m11.balance = CheckinPage!balance(b) /\ m13.paid = CheckinPage!collectedAdvance(b)
    BY DEF CheckinPage!BalanceKept
<1>3. CheckinPage!collectedAdvance(b) \in Nat
    BY <1>1, AmountsOfBill
<1> HIDE DEF b
<1>4. CASE m1 = "walkIn"
  <2>1. m13.total = CheckinPage!calculate_gst(CheckinPage!RentOf(b))
                      + CheckinPage!calculate_gst(b.extra)
                      + CheckinPage!calculate_gst(CheckinPage!EarlyFee(b))
      BY <1>4 DEF CheckinPage!BalanceKept, b
  <2>2. /\ CheckinPage!payableWalkIn(b) \in Nat /\ m13.total \in Nat
        /\ CheckinPage!Near(CheckinPage!payableWalkIn(b), m13.total, IF ~m2 THEN 0 ELSE 2)
      BY <1>1, <2>1, WalkInNear
  <2>3. (IF ~m2 THEN 0 ELSE 2) \in Nat
      OBVIOUS
  <2>4. m11.balance
          = CheckinPage!Positive(CheckinPage!payableWalkIn(b) - CheckinPage!collectedAdvance(b))
      BY <1>2, <1>4 DEF CheckinPage!balance, CheckinPage!payable
  <2> QED
      BY <1>2, <1>3, <1>4, <2>2, <2>3, <2>4, RestsAreNear
<1>5. CASE m1 # "walkIn"
  <2> DEFINE booked == CheckinPage!calculate_gst(Rent)
             payable == CheckinPage!payableArrival(b, booked)
  <2>1. m13.total = booked + CheckinPage!EarlyFee(b) + CheckinPage!calculate_gst(b.extra)
      BY <1>1, <1>5 DEF CheckinPage!BalanceKept, b
  <2>2. /\ payable \in Nat /\ m13.total \in Nat
        /\ CheckinPage!Near(payable, m13.total, IF ~m2 THEN 0 ELSE 1)
      BY <1>1, <1>5, <2>1, ArrivalNear
  <2>3. (IF ~m2 THEN 0 ELSE 1) \in Nat
      OBVIOUS
  <2>4. m11.balance = CheckinPage!Positive(payable - CheckinPage!collectedAdvance(b))
      BY <1>2, <1>5 DEF CheckinPage!balance, CheckinPage!payable
  <2> HIDE DEF payable
  <2> QED
      BY <1>2, <1>3, <1>5, <2>2, <2>3, <2>4, RestsAreNear
<1> QED
    BY <1>4, <1>5

-----------------------------------------------------------------------------
(* The guests of a booking and the co-guests of a check-in *)

LEMMA NoneNoGuest == None \notin Guests /\ MaxEntries \in Nat
    BY GuestsAssumption

LEMMA BookingGuestInit ==
    GuestCard!Init => GuestCard!TypeOK /\ GuestCard!OwnDetails /\ GuestCard!FormIsGuests
    BY DEF GuestCard!Init, GuestCard!TypeOK, GuestCard!OwnDetails, GuestCard!FormIsGuests,
           GuestCard!Details, GuestCard!Original

\* A profile and its details after the desk's steps and the answers.
LEMMA BookingGuestType ==
    GuestCard!TypeOK /\ [GuestCard!Next]_GuestCard!guestVars => GuestCard!TypeOK'
<1> SUFFICES ASSUME GuestCard!TypeOK, [GuestCard!Next]_GuestCard!guestVars
             PROVE  GuestCard!TypeOK'
    OBVIOUS
<1> USE NoneNoGuest
    DEF GuestCard!TypeOK, GuestCard!Details, GuestCard!Original, GuestCard!DeskActs,
        GuestCard!Awaiting, GuestCard!formVars
<1>1. ASSUME NEW g \in Guests,
             GuestCard!SelectGuest(g) \/ GuestCard!ProfileRead(g) \/ GuestCard!createPrimaryGuest(g)
      PROVE  GuestCard!TypeOK'
    BY <1>1 DEF GuestCard!SelectGuest, GuestCard!ProfileRead, GuestCard!createPrimaryGuest,
                GuestCard!Choose, GuestCard!FilledBy
<1>2. CASE GuestCard!ClearGuest \/ GuestCard!OpenNewGuest \/ GuestCard!GuestCreated
    BY <1>2 DEF GuestCard!ClearGuest, GuestCard!OpenNewGuest, GuestCard!GuestCreated,
                GuestCard!Choose
<1>3. CASE GuestCard!Autofill
  <2>1. \A f \in m8' : f.guest = m1 /\ f.form = m3
      BY <1>3 DEF GuestCard!Autofill
  <2> QED
      BY <1>3, <2>1 DEF GuestCard!Autofill
<1>4. CASE GuestCard!EditGuest \/ GuestCard!EditDetails
    BY <1>4 DEF GuestCard!EditGuest, GuestCard!EditDetails
<1>5. ASSUME NEW f \in m8, GuestCard!AutofillRead(f)
      PROVE  GuestCard!TypeOK'
    BY <1>5 DEF GuestCard!AutofillRead
<1>6. CASE GuestCard!MakeBooking
    BY <1>6 DEF GuestCard!MakeBooking, GuestCard!patch
<1>7. CASE GuestCard!RevealId \/ \E g \in Guests : GuestCard!IdRevealed(g)
    BY <1>7 DEF GuestCard!RevealId, GuestCard!IdRevealed
<1>8. CASE UNCHANGED GuestCard!guestVars
    BY <1>8 DEF GuestCard!guestVars
<1> QED
    BY <1>1, <1>2, <1>3, <1>4, <1>5, <1>6, <1>7, <1>8 DEF GuestCard!Next

LEMMA BookingGuestNext ==
    /\ GuestCard!TypeOK /\ GuestCard!OwnDetails /\ GuestCard!FormIsGuests
    /\ [GuestCard!Next]_GuestCard!guestVars
    => GuestCard!OwnDetails' /\ GuestCard!FormIsGuests'
<1> SUFFICES ASSUME GuestCard!TypeOK, GuestCard!OwnDetails, GuestCard!FormIsGuests,
                    [GuestCard!Next]_GuestCard!guestVars
             PROVE  GuestCard!OwnDetails' /\ GuestCard!FormIsGuests'
    OBVIOUS
<1> USE NoneNoGuest
    DEF GuestCard!TypeOK, GuestCard!Details, GuestCard!OwnDetails, GuestCard!FormIsGuests,
        GuestCard!DeskActs, GuestCard!Awaiting, GuestCard!formVars
<1>1. ASSUME NEW g \in Guests,
             GuestCard!SelectGuest(g) \/ GuestCard!ProfileRead(g) \/ GuestCard!createPrimaryGuest(g)
      PROVE  GuestCard!OwnDetails' /\ GuestCard!FormIsGuests'
    BY <1>1 DEF GuestCard!SelectGuest, GuestCard!ProfileRead, GuestCard!createPrimaryGuest,
                GuestCard!Choose, GuestCard!FilledBy
<1>2. CASE GuestCard!ClearGuest \/ GuestCard!OpenNewGuest \/ GuestCard!GuestCreated
    BY <1>2 DEF GuestCard!ClearGuest, GuestCard!OpenNewGuest, GuestCard!GuestCreated,
                GuestCard!Choose
<1>3. CASE GuestCard!Autofill
  <2>1. \A f \in m8' : f.guest = m1 /\ f.form = m3
      BY <1>3 DEF GuestCard!Autofill
  <2> QED
      BY <1>3, <2>1 DEF GuestCard!Autofill
<1>4. CASE GuestCard!EditGuest \/ GuestCard!EditDetails
    BY <1>4 DEF GuestCard!EditGuest, GuestCard!EditDetails
<1>5. ASSUME NEW f \in m8, GuestCard!AutofillRead(f)
      PROVE  GuestCard!OwnDetails' /\ GuestCard!FormIsGuests'
    BY <1>5 DEF GuestCard!AutofillRead
<1>6. CASE GuestCard!MakeBooking
    BY <1>6 DEF GuestCard!MakeBooking, GuestCard!patch, GuestCard!Original
<1>7. CASE GuestCard!RevealId \/ \E g \in Guests : GuestCard!IdRevealed(g)
    BY <1>7 DEF GuestCard!RevealId, GuestCard!IdRevealed
<1>8. CASE UNCHANGED GuestCard!guestVars
    BY <1>8 DEF GuestCard!guestVars
<1> QED
    BY <1>1, <1>2, <1>3, <1>4, <1>5, <1>6, <1>7, <1>8 DEF GuestCard!Next

\* The place of an element among those that a filter keeps: every place is taken,
\* in the order of the list.
Place(S, i) == Cardinality({k \in S : k <= i})

LEMMA PlacesInOrder ==
    ASSUME NEW n \in Nat, NEW S \in SUBSET (1..n)
    PROVE  /\ IsFiniteSet(S) /\ Cardinality(S) \in Nat /\ Cardinality(S) <= n
           /\ \A i \in S : Place(S, i) \in 1..Cardinality(S)
           /\ \A i, k \in S : i < k => Place(S, i) < Place(S, k)
           /\ \A j \in 1..Cardinality(S) : \E i \in S : Place(S, i) = j
<1>1. IsFiniteSet(1..n) /\ Cardinality(1..n) = n
    BY FS_Interval
<1>2. /\ IsFiniteSet(S) /\ Cardinality(S) \in Nat /\ Cardinality(S) <= n
    BY <1>1, FS_Subset, FS_CardinalityType
<1>3. ASSUME NEW i \in S
      PROVE  Place(S, i) \in 1..Cardinality(S)
  <2> DEFINE T == {k \in S : k <= i}
  <2>1. T \in SUBSET S /\ i \in T
      OBVIOUS
  <2>2. IsFiniteSet(T) /\ Cardinality(T) <= Cardinality(S) /\ Cardinality(T) \in Nat
      BY <1>2, <2>1, FS_Subset, FS_CardinalityType
  <2>3. Cardinality(T) # 0
      BY <2>1, <2>2, FS_EmptySet
  <2> QED
      BY <1>2, <2>2, <2>3 DEF Place
<1>4. ASSUME NEW i \in S, NEW k \in S, i < k
      PROVE  Place(S, i) < Place(S, k)
  <2> DEFINE T == {x \in S : x <= i}
             U == {x \in S : x <= k}
  <2>0. \A x \in S : x \in Int
      OBVIOUS
  <2>1. U \in SUBSET S /\ T \in SUBSET U /\ k \in U /\ k \notin T
    <3>1. k <= k /\ ~(k <= i) /\ \A x \in S : x <= i => x <= k
        BY <1>4, <2>0
    <3> QED
        BY <3>1, Zenon
  <2>2. IsFiniteSet(U) /\ Cardinality(U) \in Nat
      BY <1>2, <2>1, FS_Subset, FS_CardinalityType
  <2>3. IsFiniteSet(T) /\ Cardinality(T) \in Nat /\ Cardinality(T) <= Cardinality(U)
          /\ Cardinality(T) # Cardinality(U)
      BY <2>1, <2>2, FS_Subset, FS_CardinalityType
  <2> QED
      BY <2>2, <2>3 DEF Place
<1>5. \A j \in 1..Cardinality(S) : \E i \in S : Place(S, i) = j
  <2> DEFINE T == 1..Cardinality(S)
             f == [i \in S |-> Place(S, i)]
  <2>1. IsFiniteSet(T) /\ Cardinality(T) = Cardinality(S)
      BY <1>2, FS_Interval
  <2>2. f \in [S -> T]
      BY <1>3
  <2>3. ASSUME NEW i \in S, NEW k \in S, f[i] = f[k]
        PROVE  i = k
    <3>1. Place(S, i) \in Nat /\ Place(S, k) \in Nat /\ Place(S, i) = Place(S, k)
        BY <1>2, <1>3, <2>3
    <3>2. ~(i < k) /\ ~(k < i)
        BY <1>4, <3>1
    <3> QED
        BY <3>2
  <2> HIDE DEF f, T
  <2>4. f \in Injection(S, T)
      BY <2>2, <2>3 DEF Injection, IsInjective
  <2>5. f \in Surjection(S, T)
      BY <2>1, <2>4, FS_Injection
  <2>6. \A j \in T : \E i \in S : f[i] = j
      BY <2>5 DEF Surjection
  <2> QED
      BY <2>6 DEF f, T
<1> QED
    BY <1>2, <1>3, <1>4, <1>5

\* What a filter returns.
LEMMA KeptInOrder ==
    ASSUME NEW D, NEW s \in Seq(D), NEW S \in SUBSET (DOMAIN s)
    PROVE  /\ CoGuestCards!Kept(s, S) \in Seq(D)
           /\ Len(CoGuestCards!Kept(s, S)) = Cardinality(S)
           /\ \A i \in S : Place(S, i) \in 1..Cardinality(S)
                             /\ CoGuestCards!Kept(s, S)[Place(S, i)] = s[i]
           /\ \A j \in 1..Cardinality(S) : \E i \in S : Place(S, i) = j
           /\ \A i, k \in S : Place(S, i) = Place(S, k) => i = k
<1> DEFINE at(j) == CHOOSE i \in S : Place(S, i) = j
<1>0. /\ Len(s) \in Nat /\ DOMAIN s = 1..Len(s) /\ S \in SUBSET (1..Len(s))
    OBVIOUS
<1>1. /\ Cardinality(S) \in Nat
      /\ \A i \in S : Place(S, i) \in 1..Cardinality(S)
      /\ \A i, k \in S : i < k => Place(S, i) < Place(S, k)
      /\ \A j \in 1..Cardinality(S) : \E i \in S : Place(S, i) = j
    BY <1>0, PlacesInOrder
<1>2. CoGuestCards!Kept(s, S) = [j \in 1..Cardinality(S) |-> s[at(j)]]
    BY Zenon DEF CoGuestCards!Kept, Place, CoGuestCards!Cardinality, Cardinality
<1>3. \A j \in 1..Cardinality(S) : at(j) \in S /\ Place(S, at(j)) = j
    BY <1>1
<1>4. ASSUME NEW i \in S, NEW k \in S, Place(S, i) = Place(S, k)
      PROVE  i = k
  <2>1. Place(S, i) \in Nat /\ Place(S, k) \in Nat /\ i \in Nat /\ k \in Nat
      BY <1>0, <1>1
  <2>2. ~(i < k) /\ ~(k < i)
      BY <1>1, <1>4, <2>1
  <2> QED
      BY <2>1, <2>2
<1>5. \A i \in S : at(Place(S, i)) = i
    BY <1>1, <1>3, <1>4
<1>6. CoGuestCards!Kept(s, S) \in Seq(D)
  <2> HIDE DEF at
  <2>1. \A j \in 1..Cardinality(S) : s[at(j)] \in D
      BY <1>0, <1>3
  <2> QED
      BY <1>1, <1>2, <2>1
<1> HIDE DEF at
<1>7. Len(CoGuestCards!Kept(s, S)) = Cardinality(S)
    BY <1>1, <1>2, <1>6
<1> QED
    BY <1>1, <1>2, <1>4, <1>5, <1>6, <1>7

\* A slot that was written, as a card that is mounted sees it.
LEMMA SlotsOfCards ==
    ASSUME CoGuestCards!TypeOK
    PROVE  \A i \in Nat : CoGuestCards!InSlot(i) \in CoGuestCards!Cards \union {None}
<1>1. ASSUME NEW i \in DOMAIN m3
      PROVE  m3[i] \in CoGuestCards!Cards \union {None, CoGuestCards!Hole}
    BY <1>1 DEF CoGuestCards!TypeOK
<1> QED
    BY <1>1 DEF CoGuestCards!InSlot, CoGuestCards!Copy

LEMMA SlotOfKey ==
    ASSUME NEW ks \in Seq(CoGuestCards!Entries), NEW e \in CoGuestCards!Range(ks)
    PROVE  /\ CoGuestCards!IndexIn(ks, e) \in DOMAIN ks
           /\ ks[CoGuestCards!IndexIn(ks, e)] = e
    BY DEF CoGuestCards!IndexIn, CoGuestCards!Range

\* The list after a card has written to its slot.
LEMMA UpdatedList ==
    ASSUME CoGuestCards!TypeOK, NEW ks \in Seq(CoGuestCards!Entries), NEW e,
           NEW c \in CoGuestCards!Cards
    PROVE  LET list == CoGuestCards!resolveCoGuestUpdater(ks, e, c)
               at == CoGuestCards!IndexIn(ks, e)
           IN  /\ list \in Seq(CoGuestCards!Cards \union {None, CoGuestCards!Hole})
               /\ e \in CoGuestCards!Range(ks) =>
                    /\ at \in DOMAIN ks /\ ks[at] = e
                    /\ Len(list) = (IF at > Len(m3) THEN at ELSE Len(m3))
                    /\ \A j \in 1..Len(list) :
                         list[j] = IF j = at THEN c
                                   ELSE IF j \in DOMAIN m3 THEN CoGuestCards!Copy(m3)[j]
                                   ELSE CoGuestCards!Hole
<1> DEFINE list == CoGuestCards!resolveCoGuestUpdater(ks, e, c)
           at == CoGuestCards!IndexIn(ks, e)
           Slots3 == CoGuestCards!Cards \union {None, CoGuestCards!Hole}
<1>1. m3 \in Seq(Slots3)
    BY DEF CoGuestCards!TypeOK
<1>2. \A j \in DOMAIN m3 : CoGuestCards!Copy(m3)[j] \in Slots3
    BY <1>1 DEF CoGuestCards!Copy
<1>3. CASE e \notin CoGuestCards!Range(ks)
  <2>1. list = CoGuestCards!Copy(m3)
      BY <1>3 DEF CoGuestCards!resolveCoGuestUpdater
  <2> DEFINE slot(j) == IF m3[j] = CoGuestCards!Hole THEN None ELSE m3[j]
  <2>2. list = [j \in 1..Len(m3) |-> slot(j)]
      BY <1>1, <2>1 DEF CoGuestCards!Copy
  <2>3. Len(m3) \in Nat /\ \A j \in 1..Len(m3) : slot(j) \in Slots3
      BY <1>1
  <2> HIDE DEF list, slot, Slots3
  <2>4. list \in Seq(Slots3)
      BY <2>2, <2>3
  <2> QED
      BY <1>3, <2>4 DEF list, Slots3
<1>4. CASE e \in CoGuestCards!Range(ks)
  <2>1. at \in DOMAIN ks /\ ks[at] = e /\ at \in Nat /\ Len(m3) \in Nat
      BY <1>1, <1>4, SlotOfKey
  <2> DEFINE size == IF at > Len(m3) THEN at ELSE Len(m3)
             slot(j) == IF j = at THEN c
                        ELSE IF j \in DOMAIN m3 THEN CoGuestCards!Copy(m3)[j]
                        ELSE CoGuestCards!Hole
  <2>2. list = [j \in 1..size |-> slot(j)]
      BY <1>4 DEF CoGuestCards!resolveCoGuestUpdater
  <2>3. size \in Nat /\ \A j \in 1..size : slot(j) \in Slots3
      BY <1>2, <2>1
  <2> HIDE DEF list, size, slot, at, Slots3
  <2>4. list \in Seq(Slots3) /\ Len(list) = size /\ \A j \in 1..size : list[j] = slot(j)
      BY <2>2, <2>3
  <2> QED
      BY <2>1, <2>4 DEF list, size, slot, at, Slots3
<1> QED
    BY <1>3, <1>4

LEMMA CoGuestsInit == CoGuestCards!Init => CoGuestCards!TypeOK /\ CoGuestCards!CardsInSlots
<1> SUFFICES ASSUME CoGuestCards!Init
             PROVE  CoGuestCards!TypeOK /\ CoGuestCards!CardsInSlots
    OBVIOUS
<1>1. /\ m2 = <<>> /\ m3 = <<>> /\ DOMAIN m2 = {} /\ Len(m2) = 0 /\ Len(m3) = 0
      /\ m1 = 0 /\ m7 = {} /\ m9 = None
    BY DEF CoGuestCards!Init
<1>2. CoGuestCards!CardsInSlots
    BY <1>1 DEF CoGuestCards!CardsInSlots
<1>3. "off" \in CoGuestCards!FormC /\ "search" \in {"search", "form"} /\ 0 \in 0..MaxEntries
    BY NoneNoGuest DEF CoGuestCards!FormC
<1>4. m2 \in Seq(CoGuestCards!Entries)
        /\ m3 \in Seq(CoGuestCards!Cards \union {None, CoGuestCards!Hole})
    BY <1>1
<1>5. /\ m4 \in [CoGuestCards!Entries -> {"search", "form"}]
      /\ m5 \in [CoGuestCards!Entries -> CoGuestCards!Cards \union {None}]
      /\ m6 \in [CoGuestCards!Entries -> CoGuestCards!FormC] /\ m8 \in BOOLEAN
    BY <1>3 DEF CoGuestCards!Init
<1> QED
    BY <1>1, <1>2, <1>3, <1>4, <1>5, Zenon DEF CoGuestCards!TypeOK

LEMMA ResolvedType ==
    ASSUME CoGuestCards!TypeOK, NEW ks \in Seq(CoGuestCards!Entries),
           NEW e \in CoGuestCards!Entries, NEW c \in CoGuestCards!Cards,
           CoGuestCards!onResolved(ks, e, c)
    PROVE  /\ m3' \in Seq(CoGuestCards!Cards \union {None, CoGuestCards!Hole})
           /\ m5' \in [CoGuestCards!Entries -> CoGuestCards!Cards \union {None}]
    BY UpdatedList DEF CoGuestCards!onResolved, CoGuestCards!TypeOK

LEMMA CoGuestsType ==
    CoGuestCards!TypeOK /\ [CoGuestCards!Next]_CoGuestCards!partyVars => CoGuestCards!TypeOK'
<1> SUFFICES ASSUME CoGuestCards!TypeOK, [CoGuestCards!Next]_CoGuestCards!partyVars
             PROVE  CoGuestCards!TypeOK'
    OBVIOUS
<1> DEFINE Slots3 == CoGuestCards!Cards \union {None, CoGuestCards!Hole}
<1>t. /\ m1 \in 0..MaxEntries /\ m2 \in Seq(CoGuestCards!Entries) /\ m3 \in Seq(Slots3)
      /\ m4 \in [CoGuestCards!Entries -> {"search", "form"}]
      /\ m5 \in [CoGuestCards!Entries -> CoGuestCards!Cards \union {None}]
      /\ m6 \in [CoGuestCards!Entries -> CoGuestCards!FormC]
      /\ m7 \subseteq [entry : CoGuestCards!Entries, keys : Seq(CoGuestCards!Entries),
                       card : CoGuestCards!Cards]
      /\ m8 \in BOOLEAN /\ (m9 = None \/ m9 \subseteq CoGuestCards!Cards)
    BY DEF CoGuestCards!TypeOK
<1>1. CASE CoGuestCards!addGuestEntry
  <2>1. m1 + 1 \in CoGuestCards!Entries /\ m1 + 1 \in 0..MaxEntries
      BY <1>t, <1>1, NoneNoGuest DEF CoGuestCards!addGuestEntry, CoGuestCards!Entries
  <2>2. Append(m2, m1 + 1) \in Seq(CoGuestCards!Entries)
      BY <1>t, <2>1
  <2>3. Len(m2) + 1 \in Nat
      BY <1>t
  <2> QED
      BY <1>t, <1>1, <2>1, <2>2, <2>3, SlotsOfCards
      DEF CoGuestCards!addGuestEntry, CoGuestCards!TypeOK
<1>2. CASE CoGuestCards!Submit
  <2>1. m9' \subseteq CoGuestCards!Cards
      BY <1>t, <1>2
      DEF CoGuestCards!Submit, CoGuestCards!Filled, CoGuestCards!Range
  <2> QED
      BY <1>t, <1>2, <2>1 DEF CoGuestCards!Submit, CoGuestCards!TypeOK
<1>3. ASSUME NEW f \in m7, CoGuestCards!FlightEnds(f)
      PROVE  CoGuestCards!TypeOK'
  <2>1. /\ f.entry \in CoGuestCards!Entries /\ f.keys \in Seq(CoGuestCards!Entries)
        /\ f.card \in CoGuestCards!Cards
      BY <1>t
  <2>2. CASE CoGuestCards!onResolved(f.keys, f.entry, f.card)
      BY <1>t, <1>3, <2>1, <2>2, ResolvedType
      DEF CoGuestCards!FlightEnds, CoGuestCards!TypeOK
  <2>3. CASE UNCHANGED <<m3, m5>>
      BY <1>t, <1>3, <2>3 DEF CoGuestCards!FlightEnds, CoGuestCards!TypeOK
  <2> QED
      BY <1>3, <2>2, <2>3 DEF CoGuestCards!FlightEnds
<1>4. ASSUME NEW e \in CoGuestCards!Entries, CoGuestCards!removeGuestEntry(e)
      PROVE  CoGuestCards!TypeOK'
  <2> DEFINE S == {j \in DOMAIN m2 : m2[j] # e}
             T == {j \in DOMAIN m3 : j # CoGuestCards!IndexIn(m2, e)
                                       /\ m3[j] # CoGuestCards!Hole}
  <2>1. m2' = CoGuestCards!Kept(m2, S) /\ m3' = CoGuestCards!Kept(m3, T)
      BY <1>4, Zenon DEF CoGuestCards!removeGuestEntry
  <2>2. S \in SUBSET (DOMAIN m2) /\ T \in SUBSET (DOMAIN m3)
      OBVIOUS
  <2> HIDE DEF S, T, Slots3
  <2>3. m2' \in Seq(CoGuestCards!Entries) /\ m3' \in Seq(Slots3)
      BY <1>t, <2>1, <2>2, KeptInOrder
  <2> QED
      BY <1>t, <1>4, <2>3 DEF CoGuestCards!removeGuestEntry, CoGuestCards!TypeOK, Slots3
<1>5. ASSUME NEW e \in CoGuestCards!Entries, CoGuestCards!handleSearch(e)
      PROVE  CoGuestCards!TypeOK'
    BY <1>t, <1>5 DEF CoGuestCards!handleSearch, CoGuestCards!TypeOK
<1>6. ASSUME NEW e \in CoGuestCards!Entries,
             CoGuestCards!handleEditConfirm(e) \/ CoGuestCards!handleQueueDoc(e)
      PROVE  CoGuestCards!TypeOK'
  <2>1. m5[e] \in CoGuestCards!Cards /\ CoGuestCards!Starts(e, m5[e])
      BY <1>t, <1>6 DEF CoGuestCards!handleEditConfirm, CoGuestCards!handleQueueDoc,
                        CoGuestCards!GuestCard
  <2> QED
      BY <1>t, <2>1 DEF CoGuestCards!Starts, CoGuestCards!TypeOK
<1>7. ASSUME NEW e \in CoGuestCards!Entries, NEW g \in Guests,
             CoGuestCards!handleSelectExisting(e, g)
      PROVE  CoGuestCards!TypeOK'
  <2>1. [guest |-> g, foreign |-> m6[e]] \in CoGuestCards!Cards
      BY <1>t DEF CoGuestCards!Cards
  <2> QED
      BY <1>t, <1>7, <2>1 DEF CoGuestCards!handleSelectExisting, CoGuestCards!Starts,
                              CoGuestCards!TypeOK
<1>8. ASSUME NEW e \in CoGuestCards!Entries, NEW g \in Guests,
             CoGuestCards!ConfirmNewGuest(e, g)
      PROVE  CoGuestCards!TypeOK'
  <2>1. [guest |-> g, foreign |-> m6[e]] \in CoGuestCards!Cards
      BY <1>t DEF CoGuestCards!Cards
  <2>2. CoGuestCards!onResolved(m2, e, [guest |-> g, foreign |-> m6[e]])
      BY <1>8 DEF CoGuestCards!ConfirmNewGuest
  <2>3. /\ m3' \in Seq(Slots3)
        /\ m5' \in [CoGuestCards!Entries -> CoGuestCards!Cards \union {None}]
      BY <1>t, <2>1, <2>2, ResolvedType
  <2> QED
      BY <1>t, <1>8, <2>3 DEF CoGuestCards!ConfirmNewGuest, CoGuestCards!TypeOK
<1>9. ASSUME NEW e \in CoGuestCards!Entries, NEW c \in CoGuestCards!FormC,
             CoGuestCards!EnterFormC(e, c)
      PROVE  CoGuestCards!TypeOK'
  <2>1. CoGuestCards!applyForeign(e, c) /\ m6' = [m6 EXCEPT ![e] = c]
      BY <1>9 DEF CoGuestCards!EnterFormC, CoGuestCards!applyForeign
  <2>2. /\ m3' \in Seq(Slots3)
        /\ m5' \in [CoGuestCards!Entries -> CoGuestCards!Cards \union {None}]
    <3>1. CASE m5[e] = None
        BY <1>t, <2>1, <3>1 DEF CoGuestCards!applyForeign
    <3>2. CASE m5[e] # None
      <4>1. [m5[e] EXCEPT !.foreign = c] \in CoGuestCards!Cards
          BY <1>t, <3>2 DEF CoGuestCards!Cards
      <4>2. CoGuestCards!onResolved(m2, e, [m5[e] EXCEPT !.foreign = c])
          BY <2>1, <3>2 DEF CoGuestCards!applyForeign
      <4> QED
          BY <1>t, <4>1, <4>2, ResolvedType
    <3> QED
        BY <3>1, <3>2
  <2> QED
      BY <1>t, <1>9, <2>1, <2>2 DEF CoGuestCards!EnterFormC, CoGuestCards!TypeOK
<1>10. CASE UNCHANGED CoGuestCards!partyVars
    BY <1>10 DEF CoGuestCards!partyVars, CoGuestCards!TypeOK
<1> QED
    BY <1>1, <1>2, <1>3, <1>4, <1>5, <1>6, <1>7, <1>8, <1>9, <1>10 DEF CoGuestCards!Next

LEMMA HoleNoCard ==
    ASSUME NEW c \in CoGuestCards!Cards
    PROVE  c # CoGuestCards!Hole
<1>1. c.guest \in Guests /\ CoGuestCards!Hole.guest = None
    BY DEF CoGuestCards!Cards, CoGuestCards!Hole
<1> QED
    BY <1>1, NoneNoGuest

\* The cards show what their slots hold.
SlotsShown ==
    /\ Len(m3) <= Len(m2)
    /\ \A i \in DOMAIN m2 :
         /\ m5[m2[i]] = CoGuestCards!InSlot(i)
         /\ CoGuestCards!InSlot(i) # None => CoGuestCards!InSlot(i).foreign = m6[m2[i]]

\* A card writes to the slot of its key, with the Form C it shows.
LEMMA WriteShown ==
    ASSUME CoGuestCards!TypeOK, CoGuestCards!CardsInSlots, ~m8,
           NEW ks \in Seq(CoGuestCards!Entries), NEW e \in CoGuestCards!Range(ks),
           Len(ks) <= Len(m2), \A i \in DOMAIN ks : ks[i] = m2[i],
           NEW c \in CoGuestCards!Cards, CoGuestCards!onResolved(ks, e, c), m2' = m2,
           c.foreign = m6'[e], \A x \in CoGuestCards!Entries \ {e} : m6'[x] = m6[x]
    PROVE  SlotsShown'
<1> DEFINE at == CoGuestCards!IndexIn(ks, e)
<1>1. /\ m2 \in Seq(CoGuestCards!Entries)
      /\ m3 \in Seq(CoGuestCards!Cards \union {None, CoGuestCards!Hole})
      /\ m5 \in [CoGuestCards!Entries -> CoGuestCards!Cards \union {None}]
    BY DEF CoGuestCards!TypeOK
<1>2. /\ \A i, j \in DOMAIN m2 : m2[i] = m2[j] => i = j
      /\ Len(m3) <= Len(m2)
      /\ \A i \in DOMAIN m2 :
           /\ m5[m2[i]] = CoGuestCards!InSlot(i)
           /\ CoGuestCards!InSlot(i) # None => CoGuestCards!InSlot(i).foreign = m6[m2[i]]
    BY DEF CoGuestCards!CardsInSlots
<1>3. m3' = CoGuestCards!resolveCoGuestUpdater(ks, e, c) /\ m5' = [m5 EXCEPT ![e] = c]
    BY DEF CoGuestCards!onResolved
<1>4. /\ at \in DOMAIN ks /\ ks[at] = e
      /\ Len(m3') = (IF at > Len(m3) THEN at ELSE Len(m3))
      /\ \A j \in 1..Len(m3') :
           m3'[j] = IF j = at THEN c
                    ELSE IF j \in DOMAIN m3 THEN CoGuestCards!Copy(m3)[j]
                    ELSE CoGuestCards!Hole
      /\ m3' \in Seq(CoGuestCards!Cards \union {None, CoGuestCards!Hole})
  <2> DEFINE list == CoGuestCards!resolveCoGuestUpdater(ks, e, c)
  <2>1. /\ at \in DOMAIN ks /\ ks[at] = e
        /\ Len(list) = (IF at > Len(m3) THEN at ELSE Len(m3))
        /\ \A j \in 1..Len(list) :
             list[j] = IF j = at THEN c
                       ELSE IF j \in DOMAIN m3 THEN CoGuestCards!Copy(m3)[j]
                       ELSE CoGuestCards!Hole
        /\ list \in Seq(CoGuestCards!Cards \union {None, CoGuestCards!Hole})
      BY UpdatedList
  <2>2. m3' = list
      BY <1>3
  <2> HIDE DEF list, at
  <2> QED
      BY <2>1, <2>2
<1> HIDE DEF at
<1>5. at \in DOMAIN m2 /\ m2[at] = e /\ at \in Nat /\ Len(m2) \in Nat /\ Len(m3) \in Nat
    BY <1>1, <1>4
<1>6. Len(m3') <= Len(m2)
    BY <1>2, <1>4, <1>5
<1>7. CoGuestCards!InSlot(at)' = c
  <2>1. at \in DOMAIN m3' /\ m3'[at] = c
      BY <1>4, <1>5
  <2> QED
      BY <2>1, HoleNoCard DEF CoGuestCards!InSlot, CoGuestCards!Copy
<1>8. ASSUME NEW i \in DOMAIN m2, i # at
      PROVE  CoGuestCards!InSlot(i)' = CoGuestCards!InSlot(i)
  <2>1. i \in Nat /\ i >= 1 /\ DOMAIN m3 = 1..Len(m3) /\ DOMAIN m3' = 1..Len(m3')
      BY <1>1, <1>4, <1>5
  <2>2. CASE i \in DOMAIN m3
    <3>1. i \in DOMAIN m3' /\ m3'[i] = CoGuestCards!Copy(m3)[i]
        BY <1>4, <1>5, <1>8, <2>1, <2>2
    <3> QED
        BY <2>2, <3>1 DEF CoGuestCards!InSlot, CoGuestCards!Copy
  <2>3. CASE i \notin DOMAIN m3
    <3>1. i \in DOMAIN m3' => m3'[i] = CoGuestCards!Hole
        BY <1>4, <1>8, <2>1, <2>3
    <3> QED
        BY <2>3, <3>1 DEF CoGuestCards!InSlot, CoGuestCards!Copy
  <2> QED
      BY <2>2, <2>3
<1>9. ASSUME NEW i \in DOMAIN m2
       PROVE  /\ m5'[m2[i]] = CoGuestCards!InSlot(i)'
              /\ CoGuestCards!InSlot(i)' # None =>
                   CoGuestCards!InSlot(i)'.foreign = m6'[m2[i]]
  <2>1. CASE i = at
      BY <1>1, <1>3, <1>5, <1>7, <2>1
  <2>2. CASE i # at
    <3>1. m2[i] \in CoGuestCards!Entries \ {e}
        BY <1>1, <1>2, <1>5, <1>9, <2>2
    <3> QED
        BY <1>1, <1>2, <1>3, <1>8, <2>2, <3>1
  <2> QED
      BY <2>1, <2>2
<1> QED
    BY <1>6, <1>9 DEF SlotsShown

\* Every card has a key of its own, and keys are given once.
KeysDistinct ==
    /\ \A i, j \in DOMAIN m2 : m2[i] = m2[j] => i = j
    /\ \A i \in DOMAIN m2 : m2[i] <= m1

\* An answer on its way finds its card where it was.
Awaits(f) ==
    /\ Len(f.keys) <= Len(m2)
    /\ \A i \in DOMAIN f.keys : f.keys[i] = m2[i]
    /\ f.entry \in CoGuestCards!Range(f.keys) /\ f.card.foreign = m6[f.entry]

PartySent == m9 # None => m7 = {} /\ m9 = CoGuestCards!Filled(m3)

LEMMA PartsOfCards ==
    CoGuestCards!CardsInSlots
        <=> KeysDistinct /\ (~m8 => SlotsShown /\ (\A f \in m7 : Awaits(f)) /\ PartySent)
    BY DEF CoGuestCards!CardsInSlots, KeysDistinct, SlotsShown, Awaits, PartySent

LEMMA CardsFromParts ==
    ASSUME KeysDistinct', ~m8' => SlotsShown' /\ (\A f \in m7' : Awaits(f)') /\ PartySent'
    PROVE  CoGuestCards!CardsInSlots'
    BY DEF CoGuestCards!CardsInSlots, KeysDistinct, SlotsShown, Awaits, PartySent

\* A handler that changes neither the list of keys nor the cards' data.
LEMMA CardsKept ==
    ASSUME UNCHANGED <<m1, m2, m3, m5, m6>>
    PROVE  /\ KeysDistinct => KeysDistinct'
           /\ SlotsShown => SlotsShown'
           /\ \A f : Awaits(f) => Awaits(f)'
    BY DEF KeysDistinct, SlotsShown, Awaits, CoGuestCards!InSlot, CoGuestCards!Copy,
           CoGuestCards!Range

LEMMA AddedCard ==
    CoGuestCards!TypeOK /\ CoGuestCards!CardsInSlots /\ CoGuestCards!addGuestEntry
        => CoGuestCards!CardsInSlots'
<1> SUFFICES ASSUME CoGuestCards!TypeOK, CoGuestCards!CardsInSlots,
                    CoGuestCards!addGuestEntry
             PROVE  CoGuestCards!CardsInSlots'
    OBVIOUS
<1>1. /\ m1 \in Nat /\ m2 \in Seq(CoGuestCards!Entries) /\ Len(m2) \in Nat
      /\ m5 \in [CoGuestCards!Entries -> CoGuestCards!Cards \union {None}]
      /\ m1 + 1 \in CoGuestCards!Entries /\ \A i \in DOMAIN m2 : m2[i] \in Nat
      /\ Len(m3) \in Nat /\ DOMAIN m3 = 1..Len(m3)
    BY NoneNoGuest
    DEF CoGuestCards!TypeOK, CoGuestCards!addGuestEntry, CoGuestCards!Entries
<1>2. /\ m1' = m1 + 1 /\ m2' = Append(m2, m1 + 1)
      /\ m5' = [m5 EXCEPT ![m1 + 1] = CoGuestCards!InSlot(Len(m2) + 1)]
      /\ UNCHANGED <<m3, m4, m6, m7, m8, m9>> /\ m9 = None
    BY DEF CoGuestCards!addGuestEntry
<1>3. /\ Len(m2') = Len(m2) + 1 /\ DOMAIN m2' = 1..(Len(m2) + 1) /\ DOMAIN m2 = 1..Len(m2)
      /\ \A i \in DOMAIN m2 : m2'[i] = m2[i]
      /\ m2'[Len(m2) + 1] = m1 + 1
    BY <1>1, <1>2
<1>4. KeysDistinct'
    BY <1>1, <1>2, <1>3, PartsOfCards DEF KeysDistinct
<1>5. ASSUME ~m8
      PROVE  SlotsShown' /\ \A f \in m7 : Awaits(f)'
  <2>1. KeysDistinct /\ SlotsShown /\ \A f \in m7 : Awaits(f)
      BY <1>5, PartsOfCards
  <2>2. \A i : CoGuestCards!InSlot(i)' = CoGuestCards!InSlot(i)
      BY <1>2 DEF CoGuestCards!InSlot, CoGuestCards!Copy
  <2>3. CoGuestCards!InSlot(Len(m2) + 1) = None
    <3>1. Len(m2) + 1 \notin DOMAIN m3
        BY <1>1, <2>1 DEF SlotsShown
    <3> QED
        BY <3>1 DEF CoGuestCards!InSlot
  <2>4. ASSUME NEW i \in DOMAIN m2
        PROVE  m5'[m2'[i]] = m5[m2[i]] /\ m2'[i] = m2[i]
      BY <1>1, <1>2, <1>3, <2>1 DEF KeysDistinct
  <2>5. m5'[m2'[Len(m2) + 1]] = None
      BY <1>1, <1>2, <1>3, <2>3
  <2>6. Len(m3') <= Len(m2')
      BY <1>1, <1>2, <1>3, <2>1 DEF SlotsShown
  <2>7. ASSUME NEW i \in DOMAIN m2'
        PROVE  /\ m5'[m2'[i]] = CoGuestCards!InSlot(i)'
               /\ CoGuestCards!InSlot(i)' # None =>
                    CoGuestCards!InSlot(i)'.foreign = m6'[m2'[i]]
    <3>1. CASE i \in DOMAIN m2
        BY <1>2, <2>1, <2>2, <2>4, <3>1 DEF SlotsShown
    <3>2. CASE i = Len(m2) + 1
        BY <2>2, <2>3, <2>5, <3>2
    <3> QED
        BY <1>1, <1>3, <3>1, <3>2
  <2>8. SlotsShown'
      BY <2>6, <2>7 DEF SlotsShown
  <2>9. ASSUME NEW f \in m7
        PROVE  Awaits(f)'
    <3>1. /\ Awaits(f) /\ f.keys \in Seq(CoGuestCards!Entries)
        BY <2>1 DEF CoGuestCards!TypeOK
    <3>2. Len(f.keys) \in Nat /\ \A i \in DOMAIN f.keys : i \in DOMAIN m2
        BY <1>1, <3>1 DEF Awaits
    <3> QED
        BY <1>1, <1>2, <1>3, <3>1, <3>2 DEF Awaits, CoGuestCards!Range
  <2> QED
      BY <2>8, <2>9
<1>6. ~m8 => PartySent'
    BY <1>2 DEF PartySent
<1> QED
    BY <1>2, <1>4, <1>5, <1>6, CardsFromParts

LEMMA RemovedCard ==
    ASSUME CoGuestCards!TypeOK, CoGuestCards!CardsInSlots,
           NEW e \in CoGuestCards!Entries, CoGuestCards!removeGuestEntry(e)
    PROVE  CoGuestCards!CardsInSlots'
<1> DEFINE gone == CoGuestCards!IndexIn(m2, e)
           S == {j \in DOMAIN m2 : m2[j] # e}
           T == {j \in DOMAIN m3 : j # gone /\ m3[j] # CoGuestCards!Hole}
           Slots3 == CoGuestCards!Cards \union {None, CoGuestCards!Hole}
<1>1. /\ m1 \in Nat /\ m2 \in Seq(CoGuestCards!Entries) /\ m3 \in Seq(Slots3)
      /\ \A i \in DOMAIN m2 : m2[i] \in CoGuestCards!Entries
      /\ Len(m2) \in Nat /\ Len(m3) \in Nat
      /\ DOMAIN m2 = 1..Len(m2) /\ DOMAIN m3 = 1..Len(m3)
    BY NoneNoGuest DEF CoGuestCards!TypeOK
<1>2. /\ m2' = CoGuestCards!Kept(m2, S) /\ m3' = CoGuestCards!Kept(m3, T)
      /\ e \in CoGuestCards!Range(m2) /\ m9 = None
      /\ m8' = (m8 \/ m7 # {} \/ \E k \in CoGuestCards!Mounted \ {e} : m5[k] = None)
      /\ UNCHANGED <<m1, m4, m5, m6, m7, m9>>
    BY Zenon DEF CoGuestCards!removeGuestEntry, CoGuestCards!Mounted
<1>3. gone \in DOMAIN m2 /\ m2[gone] = e
    BY <1>1, <1>2, SlotOfKey
<1>4. KeysDistinct /\ S \in SUBSET (DOMAIN m2) /\ T \in SUBSET (DOMAIN m3)
    BY PartsOfCards
<1>5. /\ m2' \in Seq(CoGuestCards!Entries) /\ Len(m2') = Cardinality(S)
      /\ \A i \in S : Place(S, i) \in 1..Cardinality(S) /\ m2'[Place(S, i)] = m2[i]
      /\ \A j \in 1..Cardinality(S) : \E i \in S : Place(S, i) = j
      /\ \A i, k \in S : Place(S, i) = Place(S, k) => i = k
  <2> HIDE DEF S, T, gone
  <2> QED
      BY <1>1, <1>2, <1>4, KeptInOrder
<1>6. /\ m3' \in Seq(Slots3) /\ Len(m3') = Cardinality(T)
      /\ \A i \in T : Place(T, i) \in 1..Cardinality(T) /\ m3'[Place(T, i)] = m3[i]
  <2> HIDE DEF S, T, gone, Slots3
  <2> QED
      BY <1>1, <1>2, <1>4, KeptInOrder
<1>7. DOMAIN m2' = 1..Cardinality(S)
    BY <1>5
<1>8. KeysDistinct'
  <2> HIDE DEF S
  <2>1. ASSUME NEW j \in DOMAIN m2'
        PROVE  \E i \in S : Place(S, i) = j /\ m2'[j] = m2[i] /\ i \in DOMAIN m2
      BY <1>4, <1>5, <1>7
  <2>2. ASSUME NEW j \in DOMAIN m2', NEW k \in DOMAIN m2', m2'[j] = m2'[k]
        PROVE  j = k
    <3>1. PICK i \in S : Place(S, i) = j /\ m2'[j] = m2[i] /\ i \in DOMAIN m2
        BY <2>1
    <3>2. PICK x \in S : Place(S, x) = k /\ m2'[k] = m2[x] /\ x \in DOMAIN m2
        BY <2>1
    <3> QED
        BY <1>4, <2>2, <3>1, <3>2 DEF KeysDistinct
  <2> QED
      BY <1>2, <1>4, <2>1, <2>2 DEF KeysDistinct
<1>9. ASSUME ~m8'
      PROVE  SlotsShown' /\ m7 = {}
  <2>1. ~m8 /\ m7 = {} /\ SlotsShown
      BY <1>2, <1>9, PartsOfCards
  <2>2. ASSUME NEW j \in S
        PROVE  /\ j \in T /\ m5[m2[j]] = m3[j] /\ m3[j] # CoGuestCards!Hole
               /\ m3[j].foreign = m6[m2[j]]
    <3>1. j \in DOMAIN m2 /\ j # gone /\ m2[j] \in CoGuestCards!Mounted \ {e}
        BY <1>3, <2>2 DEF CoGuestCards!Mounted, CoGuestCards!Range
    <3>2. m5[m2[j]] # None
        BY <1>2, <1>9, <3>1
    <3>3. CoGuestCards!InSlot(j) # None /\ m5[m2[j]] = CoGuestCards!InSlot(j)
            /\ CoGuestCards!InSlot(j).foreign = m6[m2[j]]
        BY <2>1, <3>1, <3>2 DEF SlotsShown
    <3>4. j \in DOMAIN m3 /\ m3[j] # CoGuestCards!Hole /\ CoGuestCards!InSlot(j) = m3[j]
        BY <3>3 DEF CoGuestCards!InSlot, CoGuestCards!Copy
    <3> QED
        BY <3>1, <3>3, <3>4
  <2>3. ASSUME NEW j \in T
        PROVE  j \in S
    <3>1. j \in DOMAIN m2 /\ j # gone
        BY <1>1, <2>1, <2>3 DEF SlotsShown
    <3> QED
        BY <1>3, <1>4, <3>1 DEF KeysDistinct
  <2>4. S = T
      BY <2>2, <2>3
  <2> HIDE DEF S, T
  <2>5. Len(m3') <= Len(m2')
    <3>1. Len(m2') \in Nat
        BY <1>5
    <3> QED
        BY <1>5, <1>6, <2>4, <3>1
  <2>6. ASSUME NEW j \in DOMAIN m2'
        PROVE  /\ m5'[m2'[j]] = CoGuestCards!InSlot(j)'
               /\ CoGuestCards!InSlot(j)' # None =>
                    CoGuestCards!InSlot(j)'.foreign = m6'[m2'[j]]
    <3>1. PICK i \in S : Place(S, i) = j
        BY <1>5, <1>7
    <3>2. m2'[j] = m2[i] /\ m3'[j] = m3[i] /\ j \in 1..Cardinality(T)
        BY <1>5, <1>6, <2>4, <3>1
    <3>3. j \in DOMAIN m3' /\ m3[i] # CoGuestCards!Hole
        BY <1>6, <2>2, <3>2
    <3>4. CoGuestCards!InSlot(j)' = m3[i]
        BY <3>2, <3>3 DEF CoGuestCards!InSlot, CoGuestCards!Copy
    <3> QED
        BY <1>2, <2>2, <3>2, <3>4
  <2> QED
      BY <2>1, <2>5, <2>6 DEF SlotsShown
<1> QED
    BY <1>2, <1>8, <1>9, CardsFromParts DEF PartySent

LEMMA AnsweredCard ==
    ASSUME CoGuestCards!TypeOK, CoGuestCards!CardsInSlots,
           NEW f \in m7, CoGuestCards!FlightEnds(f)
    PROVE  CoGuestCards!CardsInSlots'
<1>1. /\ f.entry \in CoGuestCards!Entries /\ f.keys \in Seq(CoGuestCards!Entries)
      /\ f.card \in CoGuestCards!Cards
    BY DEF CoGuestCards!TypeOK
<1>2. /\ m7' = m7 \ {f} /\ UNCHANGED <<m1, m2, m4, m6, m8, m9>>
      /\ CoGuestCards!onResolved(f.keys, f.entry, f.card) \/ UNCHANGED <<m3, m5>>
    BY DEF CoGuestCards!FlightEnds
<1>3. KeysDistinct'
    BY <1>2, PartsOfCards DEF KeysDistinct
<1>4. ASSUME ~m8
      PROVE  SlotsShown' /\ (\A x \in m7' : Awaits(x)') /\ PartySent'
  <2>1. SlotsShown /\ (\A x \in m7 : Awaits(x)) /\ PartySent
      BY <1>4, PartsOfCards
  <2>2. \A x \in m7' : Awaits(x)'
      BY <1>2, <2>1 DEF Awaits, CoGuestCards!Range
  <2>3. m9 = None
      BY <2>1 DEF PartySent
  <2>4. CASE CoGuestCards!onResolved(f.keys, f.entry, f.card)
    <3>1. Awaits(f)
        BY <2>1
    <3>2. SlotsShown'
        BY <1>1, <1>2, <1>4, <2>4, <3>1, WriteShown DEF Awaits
    <3> QED
        BY <1>2, <2>2, <2>3, <3>2 DEF PartySent
  <2>5. CASE UNCHANGED <<m3, m5>>
      BY <1>2, <2>1, <2>2, <2>3, <2>5, CardsKept DEF PartySent
  <2> QED
      BY <1>2, <2>4, <2>5
<1> QED
    BY <1>2, <1>3, <1>4, CardsFromParts

\* A card in the page is an entry of the list of keys.
LEMMA MountedCard ==
    ASSUME CoGuestCards!TypeOK, NEW e \in CoGuestCards!Mounted
    PROVE  /\ m2 \in Seq(CoGuestCards!Entries) /\ e \in CoGuestCards!Range(m2)
           /\ Len(m2) <= Len(m2) /\ \A i \in DOMAIN m2 : m2[i] = m2[i]
           /\ \E i \in DOMAIN m2 : m2[i] = e
    BY DEF CoGuestCards!TypeOK, CoGuestCards!Mounted, CoGuestCards!Range

LEMMA SentForCard ==
    ASSUME CoGuestCards!TypeOK, CoGuestCards!CardsInSlots,
           NEW e \in CoGuestCards!Mounted, NEW c, c.foreign = m6[e], m9 = None,
           m7' = m7 \union {[entry |-> e, keys |-> m2, card |-> c]},
           UNCHANGED <<m1, m2, m3, m5, m6, m8, m9>>
    PROVE  CoGuestCards!CardsInSlots'
<1> DEFINE f == [entry |-> e, keys |-> m2, card |-> c]
<1>1. f.entry = e /\ f.keys = m2 /\ f.card = c
    OBVIOUS
<1>2. Awaits(f)
    BY <1>1, MountedCard DEF Awaits
<1>3. m7' = m7 \union {f}
    OBVIOUS
<1> HIDE DEF f
<1> QED
    BY <1>2, <1>3, PartsOfCards, CardsKept, CardsFromParts DEF PartySent

LEMMA ConfirmedCard ==
    ASSUME CoGuestCards!TypeOK, CoGuestCards!CardsInSlots,
           NEW e \in CoGuestCards!Entries, NEW g \in Guests,
           CoGuestCards!ConfirmNewGuest(e, g)
    PROVE  CoGuestCards!CardsInSlots'
<1> DEFINE c == [guest |-> g, foreign |-> m6[e]]
<1>1. /\ CoGuestCards!onResolved(m2, e, c) /\ e \in CoGuestCards!Mounted /\ m9 = None
      /\ m8' = (m8 \/ CoGuestCards!Flying(e) # {}) /\ UNCHANGED <<m1, m2, m4, m6, m7, m9>>
    BY DEF CoGuestCards!ConfirmNewGuest, CoGuestCards!NewGuestForm
<1>2. c \in CoGuestCards!Cards /\ c.foreign = m6[e]
    BY DEF CoGuestCards!TypeOK, CoGuestCards!Cards
<1> HIDE DEF c
<1>3. KeysDistinct'
    BY <1>1, PartsOfCards DEF KeysDistinct
<1>4. ASSUME ~m8'
      PROVE  SlotsShown' /\ \A f \in m7' : Awaits(f)'
  <2>1. ~m8 /\ \A f \in m7 : Awaits(f)
      BY <1>1, <1>4, PartsOfCards
  <2>2. SlotsShown'
    <3>1. c.foreign = m6'[e] /\ \A x \in CoGuestCards!Entries \ {e} : m6'[x] = m6[x]
        BY <1>1, <1>2
    <3> QED
        BY <1>1, <1>2, <2>1, <3>1, MountedCard, WriteShown
  <2> QED
      BY <1>1, <2>1, <2>2 DEF Awaits, CoGuestCards!Range
<1> QED
    BY <1>1, <1>3, <1>4, CardsFromParts DEF PartySent

LEMMA FormEntered ==
    ASSUME CoGuestCards!TypeOK, CoGuestCards!CardsInSlots,
           NEW e \in CoGuestCards!Entries, NEW c \in CoGuestCards!FormC,
           CoGuestCards!EnterFormC(e, c)
    PROVE  CoGuestCards!CardsInSlots'
<1>1. /\ CoGuestCards!applyForeign(e, c) /\ e \in CoGuestCards!Mounted /\ m9 = None
      /\ m8' = (m8 \/ CoGuestCards!Flying(e) # {}) /\ UNCHANGED <<m1, m2, m4, m7, m9>>
      /\ m6' = [m6 EXCEPT ![e] = c]
    BY DEF CoGuestCards!EnterFormC, CoGuestCards!NewGuestForm, CoGuestCards!GuestCard,
           CoGuestCards!applyForeign
<1>2. /\ m6 \in [CoGuestCards!Entries -> CoGuestCards!FormC]
      /\ m5 \in [CoGuestCards!Entries -> CoGuestCards!Cards \union {None}]
      /\ m2 \in Seq(CoGuestCards!Entries)
    BY DEF CoGuestCards!TypeOK
<1>3. m6'[e] = c /\ \A x \in CoGuestCards!Entries \ {e} : m6'[x] = m6[x]
    BY <1>1, <1>2
<1>4. KeysDistinct'
    BY <1>1, PartsOfCards DEF KeysDistinct
<1>5. ASSUME ~m8'
      PROVE  SlotsShown' /\ \A f \in m7' : Awaits(f)'
  <2>1. /\ ~m8 /\ SlotsShown /\ \A f \in m7 : Awaits(f)
        /\ CoGuestCards!Flying(e) = {}
      BY <1>1, <1>5, PartsOfCards
  <2>2. SlotsShown'
    <3>1. CASE m5[e] = None
      <4>1. m3' = m3 /\ m5' = m5
          BY <1>1, <3>1 DEF CoGuestCards!applyForeign
      <4>2. \A i : CoGuestCards!InSlot(i)' = CoGuestCards!InSlot(i)
          BY <4>1 DEF CoGuestCards!InSlot, CoGuestCards!Copy
      <4>3. ASSUME NEW i \in DOMAIN m2, CoGuestCards!InSlot(i) # None
            PROVE  m6'[m2[i]] = m6[m2[i]]
          BY <1>2, <1>3, <2>1, <3>1, <4>3 DEF SlotsShown
      <4> QED
          BY <1>1, <2>1, <4>1, <4>2, <4>3 DEF SlotsShown
    <3>2. CASE m5[e] # None
      <4> DEFINE d == [m5[e] EXCEPT !.foreign = c]
      <4>1. d \in CoGuestCards!Cards /\ d.foreign = c
          BY <1>2, <3>2 DEF CoGuestCards!Cards
      <4>2. CoGuestCards!onResolved(m2, e, d)
          BY <1>1, <3>2 DEF CoGuestCards!applyForeign
      <4> HIDE DEF d
      <4> QED
          BY <1>1, <1>3, <2>1, <4>1, <4>2, MountedCard, WriteShown
    <3> QED
        BY <3>1, <3>2
  <2>3. ASSUME NEW f \in m7
        PROVE  Awaits(f)'
    <3>1. f.entry # e /\ f.entry \in CoGuestCards!Entries
        BY <2>1 DEF CoGuestCards!Flying, CoGuestCards!TypeOK
    <3> QED
        BY <1>1, <1>3, <2>1, <3>1 DEF Awaits, CoGuestCards!Range
  <2> QED
      BY <1>1, <2>2, <2>3
<1> QED
    BY <1>1, <1>4, <1>5, CardsFromParts DEF PartySent

LEMMA CoGuestsNext ==
    /\ CoGuestCards!TypeOK /\ CoGuestCards!CardsInSlots
    /\ [CoGuestCards!Next]_CoGuestCards!partyVars
    => CoGuestCards!CardsInSlots'
<1> SUFFICES ASSUME CoGuestCards!TypeOK, CoGuestCards!CardsInSlots,
                    [CoGuestCards!Next]_CoGuestCards!partyVars
             PROVE  CoGuestCards!CardsInSlots'
    OBVIOUS
<1>1. CASE CoGuestCards!addGuestEntry
    BY <1>1, AddedCard
<1>2. CASE CoGuestCards!Submit
  <2>1. /\ m9' = CoGuestCards!Filled(m3) /\ m8' = (m8 \/ m7 # {})
        /\ UNCHANGED <<m1, m2, m3, m4, m5, m6, m7>>
      BY <1>2 DEF CoGuestCards!Submit
  <2>2. ~m8' => PartySent'
      BY <2>1 DEF PartySent, CoGuestCards!Filled, CoGuestCards!Range
  <2> QED
      BY <2>1, <2>2, PartsOfCards, CardsKept, CardsFromParts
<1>3. ASSUME NEW f \in m7, CoGuestCards!FlightEnds(f)
      PROVE  CoGuestCards!CardsInSlots'
    BY <1>3, AnsweredCard
<1>4. ASSUME NEW e \in CoGuestCards!Entries, CoGuestCards!removeGuestEntry(e)
      PROVE  CoGuestCards!CardsInSlots'
    BY <1>4, RemovedCard
<1>5. ASSUME NEW e \in CoGuestCards!Entries, CoGuestCards!handleSearch(e)
      PROVE  CoGuestCards!CardsInSlots'
  <2>1. UNCHANGED <<m1, m2, m3, m5, m6, m7, m8, m9>>
      BY <1>5 DEF CoGuestCards!handleSearch
  <2> QED
      BY <2>1, PartsOfCards, CardsKept, CardsFromParts
      DEF PartySent, CoGuestCards!Filled, CoGuestCards!Range
<1>6. ASSUME NEW e \in CoGuestCards!Entries,
             CoGuestCards!handleEditConfirm(e) \/ CoGuestCards!handleQueueDoc(e)
      PROVE  CoGuestCards!CardsInSlots'
  <2>1. /\ e \in CoGuestCards!Mounted /\ m9 = None /\ m5[e] # None
        /\ m7' = m7 \union {[entry |-> e, keys |-> m2, card |-> m5[e]]}
        /\ UNCHANGED <<m1, m2, m3, m5, m6, m8, m9>>
      BY <1>6 DEF CoGuestCards!handleEditConfirm, CoGuestCards!handleQueueDoc,
                  CoGuestCards!GuestCard, CoGuestCards!Starts
  <2>2. CASE m8
      BY <2>1, <2>2, PartsOfCards, CardsKept, CardsFromParts
  <2>3. CASE ~m8
    <3>1. m5[e].foreign = m6[e]
        BY <2>1, <2>3, MountedCard, PartsOfCards DEF SlotsShown
    <3> QED
        BY <2>1, <3>1, SentForCard
  <2> QED
      BY <2>2, <2>3
<1>7. ASSUME NEW e \in CoGuestCards!Entries, NEW g \in Guests,
             CoGuestCards!handleSelectExisting(e, g)
      PROVE  CoGuestCards!CardsInSlots'
  <2> DEFINE c == [guest |-> g, foreign |-> m6[e]]
  <2>1. /\ e \in CoGuestCards!Mounted /\ m9 = None
        /\ m7' = m7 \union {[entry |-> e, keys |-> m2, card |-> c]}
        /\ UNCHANGED <<m1, m2, m3, m5, m6, m8, m9>>
      BY <1>7 DEF CoGuestCards!handleSelectExisting, CoGuestCards!SearchBox,
                  CoGuestCards!Starts
  <2>2. c.foreign = m6[e]
      OBVIOUS
  <2> HIDE DEF c
  <2> QED
      BY <2>1, <2>2, SentForCard
<1>8. ASSUME NEW e \in CoGuestCards!Entries, NEW g \in Guests,
             CoGuestCards!ConfirmNewGuest(e, g)
      PROVE  CoGuestCards!CardsInSlots'
    BY <1>8, ConfirmedCard
<1>9. ASSUME NEW e \in CoGuestCards!Entries, NEW c \in CoGuestCards!FormC,
             CoGuestCards!EnterFormC(e, c)
      PROVE  CoGuestCards!CardsInSlots'
    BY <1>9, FormEntered
<1>10. CASE UNCHANGED CoGuestCards!partyVars
    BY <1>10, PartsOfCards, CardsKept, CardsFromParts
    DEF CoGuestCards!partyVars, PartySent, CoGuestCards!Filled, CoGuestCards!Range
<1> QED
    BY <1>1, <1>2, <1>3, <1>4, <1>5, <1>6, <1>7, <1>8, <1>9, <1>10 DEF CoGuestCards!Next

\* The check-in has what the cards show.
LEMMA PartyShown ==
    CoGuestCards!TypeOK /\ CoGuestCards!CardsInSlots => CoGuestCards!OrderlyParty
<1> SUFFICES ASSUME CoGuestCards!TypeOK, CoGuestCards!CardsInSlots, m9 # None, ~m8
             PROVE  m9 = CoGuestCards!Shown
    BY DEF CoGuestCards!OrderlyParty
<1>1. /\ SlotsShown /\ KeysDistinct /\ m9 = CoGuestCards!Filled(m3)
    BY PartsOfCards DEF PartySent
<1>2. /\ m2 \in Seq(CoGuestCards!Entries)
      /\ m3 \in Seq(CoGuestCards!Cards \union {None, CoGuestCards!Hole})
      /\ m5 \in [CoGuestCards!Entries -> CoGuestCards!Cards \union {None}]
    BY DEF CoGuestCards!TypeOK
<1>3. ASSUME NEW c \in CoGuestCards!Filled(m3)
      PROVE  c \in CoGuestCards!Shown
  <2>1. PICK i \in DOMAIN m3 : m3[i] = c
      BY DEF CoGuestCards!Filled, CoGuestCards!Range
  <2>2. i \in DOMAIN m2 /\ c # None /\ c # CoGuestCards!Hole /\ c \in CoGuestCards!Cards
      BY <1>1, <1>2, <2>1 DEF SlotsShown, CoGuestCards!Filled
  <2>3. CoGuestCards!InSlot(i) = c
      BY <2>1, <2>2 DEF CoGuestCards!InSlot, CoGuestCards!Copy
  <2>4. m5[m2[i]] = c /\ c.foreign = m6[m2[i]] /\ m2[i] \in CoGuestCards!Mounted
      BY <1>1, <2>2, <2>3 DEF SlotsShown, CoGuestCards!Mounted, CoGuestCards!Range
  <2>5. c = [guest |-> c.guest, foreign |-> c.foreign]
      BY <2>2 DEF CoGuestCards!Cards
  <2> QED
      BY <2>2, <2>4, <2>5 DEF CoGuestCards!Shown
<1>4. ASSUME NEW e \in CoGuestCards!Mounted, m5[e] # None
      PROVE  [guest |-> m5[e].guest, foreign |-> m6[e]] \in CoGuestCards!Filled(m3)
  <2>1. PICK i \in DOMAIN m2 : m2[i] = e
      BY MountedCard
  <2>2. /\ m5[e] = CoGuestCards!InSlot(i) /\ m5[e].foreign = m6[e]
        /\ m5[e] \in CoGuestCards!Cards
      BY <1>1, <1>2, <1>4, <2>1 DEF SlotsShown
  <2>3. i \in DOMAIN m3 /\ m3[i] = m5[e] /\ m5[e] # CoGuestCards!Hole
      BY <1>4, <2>2, HoleNoCard DEF CoGuestCards!InSlot, CoGuestCards!Copy
  <2>4. m5[e] = [guest |-> m5[e].guest, foreign |-> m6[e]]
      BY <2>2 DEF CoGuestCards!Cards
  <2>5. m5[e] \in CoGuestCards!Filled(m3)
      BY <1>4, <2>3 DEF CoGuestCards!Filled, CoGuestCards!Range
  <2> QED
      BY <2>4, <2>5
<1>5. ASSUME NEW c \in CoGuestCards!Shown
      PROVE  c \in CoGuestCards!Filled(m3)
    BY <1>4, <1>5 DEF CoGuestCards!Shown
<1> QED
    BY <1>1, <1>3, <1>5

-----------------------------------------------------------------------------
(* The drafts *)

LEMMA DraftNumbers == 0 \in SavedDrafts!Drafts /\ SavedDrafts!Drafts \subseteq Nat
    BY DraftsAssumption DEF SavedDrafts!Drafts

\* What a list holds after it was joined, cut, or a draft taken out of it.
LEMMA JoinedLists ==
    ASSUME NEW D, NEW a \in Seq(D), NEW b \in Seq(D)
    PROVE  /\ a \o b \in Seq(D)
           /\ SavedDrafts!ListOf(a \o b)
                \subseteq SavedDrafts!ListOf(a) \union SavedDrafts!ListOf(b)
<1>1. a \o b \in Seq(D) /\ Len(a \o b) = Len(a) + Len(b)
    BY ConcatProperties
<1>2. ASSUME NEW i \in 1..(Len(a) + Len(b))
      PROVE  (a \o b)[i] \in SavedDrafts!ListOf(a) \union SavedDrafts!ListOf(b)
  <2>1. CASE i <= Len(a)
    <3>1. i \in DOMAIN a /\ (a \o b)[i] = a[i]
        BY <1>2, <2>1, ConcatProperties
    <3> QED
        BY <3>1 DEF SavedDrafts!ListOf
  <2>2. CASE i > Len(a)
    <3>1. i - Len(a) \in DOMAIN b /\ (a \o b)[i] = b[i - Len(a)]
        BY <1>2, <2>2, ConcatProperties
    <3> QED
        BY <3>1 DEF SavedDrafts!ListOf
  <2> QED
      BY <2>1, <2>2
<1>3. DOMAIN (a \o b) = 1..(Len(a) + Len(b))
    BY <1>1
<1> QED
    BY <1>1, <1>2, <1>3 DEF SavedDrafts!ListOf

LEMMA PartOfList ==
    ASSUME NEW D, NEW a \in Seq(D), NEW m \in Int, NEW n \in Int, m >= 1, n <= Len(a)
    PROVE  /\ SubSeq(a, m, n) \in Seq(D)
           /\ SavedDrafts!ListOf(SubSeq(a, m, n)) \subseteq SavedDrafts!ListOf(a)
<1>1. \A i \in m..n : i \in DOMAIN a /\ a[i] \in D
    OBVIOUS
<1>2. SubSeq(a, m, n) \in Seq(D)
    BY <1>1, SubSeqProperties
<1>3. ASSUME NEW i \in DOMAIN SubSeq(a, m, n)
      PROVE  SubSeq(a, m, n)[i] \in SavedDrafts!ListOf(a)
  <2>1. i \in 1..(n - m + 1) /\ SubSeq(a, m, n)[i] = a[m + i - 1]
      BY <1>1, <1>2, <1>3, SubSeqProperties
  <2>2. m + i - 1 \in DOMAIN a
      BY <1>1, <2>1
  <2> QED
      BY <2>1, <2>2 DEF SavedDrafts!ListOf
<1> QED
    BY <1>2, <1>3 DEF SavedDrafts!ListOf

LEMMA KeptList ==
    ASSUME NEW D, NEW a \in Seq(D)
    PROVE  /\ SavedDrafts!Keep(a) \in Seq(D)
           /\ SavedDrafts!ListOf(SavedDrafts!Keep(a)) \subseteq SavedDrafts!ListOf(a)
<1>1. CASE Len(a) > MAX_DRAFTS
  <2>1. MAX_DRAFTS \in Int /\ 1 \in Int /\ 1 >= 1 /\ MAX_DRAFTS <= Len(a)
      BY <1>1, DraftsAssumption
  <2>2. SavedDrafts!Keep(a) = SubSeq(a, 1, MAX_DRAFTS)
      BY <1>1 DEF SavedDrafts!Keep
  <2> QED
      BY <2>1, <2>2, PartOfList
<1>2. CASE ~(Len(a) > MAX_DRAFTS)
    BY <1>2 DEF SavedDrafts!Keep
<1> QED
    BY <1>1, <1>2

LEMMA ListWithout ==
    ASSUME NEW D, NEW a \in Seq(D), NEW d
    PROVE  /\ SavedDrafts!Without(a, d) \in Seq(D)
           /\ SavedDrafts!ListOf(SavedDrafts!Without(a, d)) \subseteq SavedDrafts!ListOf(a)
<1>1. CASE d \in SavedDrafts!ListOf(a)
  <2> DEFINE i == CHOOSE j \in DOMAIN a : a[j] = d
  <2>1. i \in DOMAIN a
      BY <1>1 DEF SavedDrafts!ListOf
  <2>2. SavedDrafts!Without(a, d) = SubSeq(a, 1, i - 1) \o SubSeq(a, i + 1, Len(a))
      BY <1>1 DEF SavedDrafts!Without, SavedDrafts!RemoveAt
  <2> HIDE DEF i
  <2>3. i \in Int /\ 1 <= i /\ i <= Len(a) /\ Len(a) \in Int
      BY <2>1
  <2>4. 1 \in Int /\ i - 1 \in Int /\ i + 1 \in Int /\ 1 >= 1 /\ i + 1 >= 1
          /\ i - 1 <= Len(a) /\ Len(a) <= Len(a)
      BY <2>3
  <2>5. /\ SubSeq(a, 1, i - 1) \in Seq(D) /\ SubSeq(a, i + 1, Len(a)) \in Seq(D)
        /\ SavedDrafts!ListOf(SubSeq(a, 1, i - 1)) \subseteq SavedDrafts!ListOf(a)
        /\ SavedDrafts!ListOf(SubSeq(a, i + 1, Len(a))) \subseteq SavedDrafts!ListOf(a)
      BY <2>3, <2>4, PartOfList
  <2> DEFINE before == SubSeq(a, 1, i - 1)
             after == SubSeq(a, i + 1, Len(a))
  <2> HIDE DEF before, after
  <2>6. before \in Seq(D) /\ after \in Seq(D)
      BY <2>5 DEF before, after
  <2>7. /\ before \o after \in Seq(D)
        /\ SavedDrafts!ListOf(before \o after)
             \subseteq SavedDrafts!ListOf(before) \union SavedDrafts!ListOf(after)
      BY <2>6, JoinedLists
  <2> QED
      BY <2>2, <2>5, <2>7 DEF before, after
<1>2. CASE d \notin SavedDrafts!ListOf(a)
    BY <1>2 DEF SavedDrafts!Without
<1> QED
    BY <1>1, <1>2

LEMMA DraftsInit == SavedDrafts!Init => SavedDrafts!HeldByHotel
<1> SUFFICES ASSUME SavedDrafts!Init
             PROVE  SavedDrafts!HeldByHotel
    OBVIOUS
<1>1. /\ m1 = [h \in DraftHotels |-> <<>>] /\ m7 = [t \in Tabs |-> <<>>]
      /\ m2 \in {<<>>, <<0>>} /\ m6 \in [Tabs -> DraftHotels] /\ m12 = {} /\ m13 = 0
      /\ m4 = [d \in SavedDrafts!Drafts |-> None]
    BY DEF SavedDrafts!Init
<1>2. <<>> \in Seq(SavedDrafts!Drafts) /\ SavedDrafts!ListOf(<<>>) = {}
    BY DEF SavedDrafts!ListOf
<1>3. SavedDrafts!ListsTyped
    BY <1>1, <1>2, DraftNumbers DEF SavedDrafts!ListsTyped
<1>4. SavedDrafts!SavesOfTabs
    BY <1>1 DEF SavedDrafts!SavesOfTabs
<1>5. \A h \in DraftHotels, d \in SavedDrafts!Drafts : ~SavedDrafts!HeldAt(h, d)
    BY <1>1, <1>2 DEF SavedDrafts!HeldAt
<1> QED
    BY <1>3, <1>4, <1>5 DEF SavedDrafts!HeldByHotel, SavedDrafts!HeldByOne

\* A step after which every hotel holds what it held keeps the drafts apart.
LEMMA HeldAsBefore ==
    ASSUME SavedDrafts!HeldByHotel, SavedDrafts!ListsTyped', SavedDrafts!SavesOfTabs',
           m4' = m4, m13 <= m13', m2' = m2 \/ m2' = <<>>,
           \A s \in m12' : (\E r \in m12 : r.id = s.id) \/ s.id > m13,
           \A g \in DraftHotels, d \in SavedDrafts!Drafts :
             SavedDrafts!HeldAt(g, d)' => SavedDrafts!HeldAt(g, d)
    PROVE  SavedDrafts!HeldByHotel'
<1>1. m13 \in Nat /\ m13' \in Nat /\ \A s \in m12' : s.id \in Nat
    BY DraftNumbers
    DEF SavedDrafts!HeldByHotel, SavedDrafts!ListsTyped, SavedDrafts!SavesOfTabs
<1>2. ASSUME NEW h \in DraftHotels, NEW d \in SavedDrafts!Drafts,
             SavedDrafts!HeldAt(h, d)'
      PROVE  /\ d = 0 => m2' = <<>>
                           /\ \A g \in DraftHotels \ {h} : ~SavedDrafts!HeldAt(g, 0)'
             /\ d # 0 => m4'[d] = h /\ d <= m13' /\ \A s \in m12' : s.id # d
  <2>1. SavedDrafts!HeldAt(h, d)
      BY <1>2
  <2>2. CASE d = 0
    <3>1. m2 = <<>> /\ \A g \in DraftHotels \ {h} : ~SavedDrafts!HeldAt(g, 0)
        BY <2>1, <2>2 DEF SavedDrafts!HeldByHotel, SavedDrafts!HeldByOne
    <3> QED
        BY <2>2, <3>1, DraftNumbers
  <2>3. CASE d # 0
    <3>1. m4[d] = h /\ d <= m13 /\ \A s \in m12 : s.id # d
        BY <2>1, <2>3 DEF SavedDrafts!HeldByHotel, SavedDrafts!HeldByOne
    <3>2. d \in Nat
        BY DraftNumbers
    <3> QED
        BY <1>1, <2>3, <3>1, <3>2
  <2> QED
      BY <2>2, <2>3
<1> QED
    BY <1>2 DEF SavedDrafts!HeldByHotel, SavedDrafts!HeldByOne

\* The list of a tab is written without a draft.
LEMMA HeldWithout ==
    ASSUME SavedDrafts!HeldByHotel, NEW t \in Tabs, NEW d,
           SavedDrafts!writeDrafts(t, m6[t], SavedDrafts!Without(m7[t], d)),
           UNCHANGED <<m2, m4, m6, m12, m13>>
    PROVE  SavedDrafts!HeldByHotel'
<1> DEFINE next == SavedDrafts!Without(m7[t], d)
<1>1. SavedDrafts!ListsTyped /\ SavedDrafts!SavesOfTabs
    BY DEF SavedDrafts!HeldByHotel
<1>2. m6[t] \in DraftHotels /\ m7[t] \in Seq(SavedDrafts!Drafts)
    BY <1>1 DEF SavedDrafts!ListsTyped
<1>3. /\ next \in Seq(SavedDrafts!Drafts)
      /\ SavedDrafts!ListOf(next) \subseteq SavedDrafts!ListOf(m7[t])
    BY <1>2, ListWithout
<1>4. m1' = [m1 EXCEPT ![m6[t]] = next] /\ m7' = [m7 EXCEPT ![t] = next]
    BY DEF SavedDrafts!writeDrafts
<1> HIDE DEF next
<1>5. SavedDrafts!ListsTyped'
    BY <1>1, <1>2, <1>3, <1>4 DEF SavedDrafts!ListsTyped
<1>6. SavedDrafts!SavesOfTabs'
    BY <1>1 DEF SavedDrafts!SavesOfTabs
<1>7. ASSUME NEW g \in DraftHotels, NEW e \in SavedDrafts!Drafts,
             SavedDrafts!HeldAt(g, e)'
      PROVE  SavedDrafts!HeldAt(g, e)
  <2>1. CASE e \in SavedDrafts!ListOf(m1'[g])
    <3>1. m1'[g] = m1[g] \/ (g = m6[t] /\ m1'[g] = next)
        BY <1>1, <1>2, <1>4 DEF SavedDrafts!ListsTyped
    <3> QED
        BY <1>3, <2>1, <3>1 DEF SavedDrafts!HeldAt
  <2>2. ASSUME NEW u \in Tabs, m6'[u] = g, e \in SavedDrafts!ListOf(m7'[u])
        PROVE  SavedDrafts!HeldAt(g, e)
    <3>1. m7'[u] = m7[u] \/ (u = t /\ m7'[u] = next)
        BY <1>1, <1>4 DEF SavedDrafts!ListsTyped
    <3> QED
        BY <1>3, <2>2, <3>1 DEF SavedDrafts!HeldAt
  <2>3. ASSUME NEW s \in m12', s.hotel = g, e \in SavedDrafts!ListOf(s.list)
        PROVE  SavedDrafts!HeldAt(g, e)
      BY <2>3 DEF SavedDrafts!HeldAt
  <2> QED
      BY <1>7, <2>1, <2>2, <2>3 DEF SavedDrafts!HeldAt, SavedDrafts!ListOf
<1>8. m13 <= m13' /\ \A s \in m12' : \E r \in m12 : r.id = s.id
    BY <1>1, DraftNumbers DEF SavedDrafts!ListsTyped
<1> QED
    BY <1>5, <1>6, <1>7, <1>8, HeldAsBefore

\* A draft is being saved: what the tab has is of its hotel, and the number new.
LEMMA HeldSaving ==
    ASSUME SavedDrafts!HeldByHotel, NEW t \in Tabs, SavedDrafts!saveDraft(t)
    PROVE  SavedDrafts!HeldByHotel'
<1> DEFINE new == [tab |-> t, hotel |-> m6[t], list |-> m7[t], photo |-> m10[t],
                   id |-> m13 + 1, mounted |-> TRUE]
<1>1. SavedDrafts!ListsTyped /\ SavedDrafts!SavesOfTabs
    BY DEF SavedDrafts!HeldByHotel
<1>2. /\ m12' = m12 \union {new} /\ m13' = m13 + 1 /\ m13 < MaxSaves
      /\ UNCHANGED <<m1, m2, m4, m6, m7>>
    BY DEF SavedDrafts!saveDraft
<1>3. m13 \in Nat /\ m13' \in SavedDrafts!Drafts /\ MaxSaves \in Nat
    BY <1>1, <1>2, DraftsAssumption DEF SavedDrafts!ListsTyped, SavedDrafts!Drafts
<1>4. SavedDrafts!ListsTyped'
    BY <1>1, <1>2, <1>3 DEF SavedDrafts!ListsTyped
<1>5. /\ {"tab", "hotel", "list", "id", "mounted"} \subseteq DOMAIN new
      /\ new.tab = t /\ new.hotel = m6[t] /\ new.list = m7[t] /\ new.id = m13 + 1
      /\ m6[t] \in DraftHotels /\ m7[t] \in Seq(SavedDrafts!Drafts)
    BY <1>1 DEF SavedDrafts!ListsTyped
<1> HIDE DEF new
<1>6. SavedDrafts!SavesOfTabs'
  <2>1. ASSUME NEW s \in m12'
        PROVE  /\ {"tab", "hotel", "list", "id", "mounted"} \subseteq DOMAIN s
               /\ s.tab \in Tabs /\ s.hotel \in DraftHotels
               /\ s.list \in Seq(SavedDrafts!Drafts) /\ s.id \in 1..m13'
               /\ s.mounted => m6'[s.tab] = s.hotel
               /\ s \in m12 => s.id <= m13
    <3>1. CASE s \in m12
        BY <1>1, <1>2, <1>3, <3>1 DEF SavedDrafts!SavesOfTabs
    <3>2. CASE s = new
      <4>1. s \in m12 => s.id <= m13
          BY <1>1, <1>3 DEF SavedDrafts!SavesOfTabs
      <4>2. m13 + 1 \in 1..m13' /\ m6'[t] = m6[t]
          BY <1>2, <1>3
      <4> QED
          BY <1>5, <3>2, <4>1, <4>2
    <3> QED
        BY <1>2, <3>1, <3>2
  <2>2. ASSUME NEW r \in m12', NEW s \in m12', r.id = s.id
        PROVE  r = s
    <3>1. CASE r \in m12 /\ s \in m12
        BY <1>1, <2>2, <3>1 DEF SavedDrafts!SavesOfTabs
    <3>2. CASE r = new \/ s = new
        BY <1>2, <1>3, <1>5, <2>1, <2>2, <3>2
    <3> QED
        BY <1>2, <3>1, <3>2
  <2> QED
      BY <2>1, <2>2 DEF SavedDrafts!SavesOfTabs
<1>7. ASSUME NEW g \in DraftHotels, NEW e \in SavedDrafts!Drafts,
             SavedDrafts!HeldAt(g, e)'
      PROVE  SavedDrafts!HeldAt(g, e)
  <2>1. ASSUME NEW s \in m12', s.hotel = g, e \in SavedDrafts!ListOf(s.list)
        PROVE  SavedDrafts!HeldAt(g, e)
      BY <1>2, <1>5, <2>1 DEF SavedDrafts!HeldAt
  <2> QED
      BY <1>2, <1>7, <2>1 DEF SavedDrafts!HeldAt, SavedDrafts!ListOf
<1>8. m13 <= m13' /\ \A s \in m12' : (\E r \in m12 : r.id = s.id) \/ s.id > m13
    BY <1>2, <1>3, <1>5
<1> QED
    BY <1>2, <1>4, <1>6, <1>7, <1>8, HeldAsBefore

\* A draft is written: only the hotel of its save holds its number now.
LEMMA HeldSaveEnds ==
    ASSUME SavedDrafts!HeldByHotel, NEW s \in m12, SavedDrafts!SaveEnds(s)
    PROVE  SavedDrafts!HeldByHotel'
<1> DEFINE joined == <<s.id>> \o s.list
           next == SavedDrafts!Keep(joined)
<1>1. SavedDrafts!ListsTyped /\ SavedDrafts!SavesOfTabs /\ SavedDrafts!HeldByOne
    BY DEF SavedDrafts!HeldByHotel
<1>2. /\ s.tab \in Tabs /\ s.hotel \in DraftHotels
      /\ s.list \in Seq(SavedDrafts!Drafts) /\ s.id \in 1..m13
      /\ s.mounted => m6[s.tab] = s.hotel
    BY <1>1 DEF SavedDrafts!SavesOfTabs
<1>3. m13 \in SavedDrafts!Drafts /\ MaxSaves \in Nat
    BY <1>1, DraftsAssumption DEF SavedDrafts!ListsTyped
<1>4. s.id \in SavedDrafts!Drafts /\ s.id # 0 /\ s.id <= m13
    BY <1>2, <1>3 DEF SavedDrafts!Drafts
<1>5. /\ <<s.id>> \in Seq(SavedDrafts!Drafts)
      /\ SavedDrafts!ListOf(<<s.id>>) = {s.id}
    BY <1>4 DEF SavedDrafts!ListOf
<1>6. /\ m4' = [m4 EXCEPT ![s.id] = s.hotel]
      /\ m1' = [m1 EXCEPT ![s.hotel] = next]
      /\ m7' = IF s.mounted THEN [m7 EXCEPT ![s.tab] = next] ELSE m7
      /\ m12' = m12 \ {s} /\ UNCHANGED <<m2, m6, m13>>
    BY DEF SavedDrafts!SaveEnds, SavedDrafts!SaveHotel
<1> DEFINE single == <<s.id>>
<1> HIDE DEF single
<1>7. /\ joined \in Seq(SavedDrafts!Drafts)
      /\ SavedDrafts!ListOf(joined) \subseteq {s.id} \union SavedDrafts!ListOf(s.list)
  <2>1. single \in Seq(SavedDrafts!Drafts) /\ SavedDrafts!ListOf(single) = {s.id}
      BY <1>5 DEF single
  <2>2. /\ single \o s.list \in Seq(SavedDrafts!Drafts)
        /\ SavedDrafts!ListOf(single \o s.list)
             \subseteq SavedDrafts!ListOf(single) \union SavedDrafts!ListOf(s.list)
      BY <1>2, <2>1, JoinedLists
  <2> QED
      BY <2>1, <2>2 DEF single
<1> HIDE DEF joined
<1>8. /\ next \in Seq(SavedDrafts!Drafts)
      /\ SavedDrafts!ListOf(next) \subseteq {s.id} \union SavedDrafts!ListOf(s.list)
    BY <1>7, KeptList
<1> HIDE DEF next
<1>9. SavedDrafts!ListsTyped'
    BY <1>1, <1>2, <1>4, <1>6, <1>8 DEF SavedDrafts!ListsTyped
<1>10. SavedDrafts!SavesOfTabs'
    BY <1>1, <1>6 DEF SavedDrafts!SavesOfTabs
<1>11. ASSUME NEW g \in DraftHotels, NEW e \in SavedDrafts!Drafts,
              SavedDrafts!HeldAt(g, e)'
       PROVE  SavedDrafts!HeldAt(g, e) \/ (g = s.hotel /\ e = s.id)
  <2>1. CASE e \in SavedDrafts!ListOf(m1'[g])
    <3>1. m1'[g] = m1[g] \/ (g = s.hotel /\ m1'[g] = next)
        BY <1>1, <1>2, <1>6 DEF SavedDrafts!ListsTyped
    <3> QED
        BY <1>8, <2>1, <3>1 DEF SavedDrafts!HeldAt
  <2>2. ASSUME NEW u \in Tabs, m6'[u] = g, e \in SavedDrafts!ListOf(m7'[u])
        PROVE  SavedDrafts!HeldAt(g, e) \/ (g = s.hotel /\ e = s.id)
    <3>1. m7'[u] = m7[u] \/ (u = s.tab /\ s.mounted /\ m7'[u] = next)
        BY <1>1, <1>6 DEF SavedDrafts!ListsTyped
    <3>2. m6[u] = g
        BY <1>6, <2>2
    <3> QED
        BY <1>2, <1>8, <2>2, <3>1, <3>2 DEF SavedDrafts!HeldAt
  <2>3. ASSUME NEW r \in m12', r.hotel = g, e \in SavedDrafts!ListOf(r.list)
        PROVE  SavedDrafts!HeldAt(g, e)
      BY <1>6, <2>3 DEF SavedDrafts!HeldAt
  <2> QED
      BY <1>11, <2>1, <2>2, <2>3 DEF SavedDrafts!HeldAt, SavedDrafts!ListOf
<1>12. \A g \in DraftHotels : ~SavedDrafts!HeldAt(g, s.id)
    BY <1>1, <1>4 DEF SavedDrafts!HeldByOne
<1>13. ASSUME NEW h \in DraftHotels, NEW d \in SavedDrafts!Drafts,
              SavedDrafts!HeldAt(h, d)'
       PROVE  /\ d = 0 => m2' = <<>>
                            /\ \A g \in DraftHotels \ {h} : ~SavedDrafts!HeldAt(g, 0)'
              /\ d # 0 => m4'[d] = h /\ d <= m13' /\ \A r \in m12' : r.id # d
  <2>1. CASE d = s.id
    <3>1. h = s.hotel
        BY <1>11, <1>12, <1>13, <2>1
    <3>2. m4'[d] = h
        BY <1>1, <1>4, <1>6, <2>1, <3>1 DEF SavedDrafts!ListsTyped
    <3>3. \A r \in m12' : r.id # d
        BY <1>1, <1>6, <2>1 DEF SavedDrafts!SavesOfTabs
    <3> QED
        BY <1>4, <1>6, <2>1, <3>2, <3>3
  <2>2. CASE d # s.id
    <3>1. SavedDrafts!HeldAt(h, d)
        BY <1>11, <1>13, <2>2
    <3>2. CASE d = 0
      <4>1. m2 = <<>> /\ \A g \in DraftHotels \ {h} : ~SavedDrafts!HeldAt(g, 0)
          BY <1>1, <3>1, <3>2 DEF SavedDrafts!HeldByOne
      <4> QED
          BY <1>4, <1>6, <1>11, <3>2, <4>1, DraftNumbers
    <3>3. CASE d # 0
      <4>1. m4[d] = h /\ d <= m13 /\ \A r \in m12 : r.id # d
          BY <1>1, <3>1, <3>3 DEF SavedDrafts!HeldByOne
      <4>2. m4'[d] = m4[d]
          BY <1>1, <1>6, <2>2 DEF SavedDrafts!ListsTyped
      <4> QED
          BY <1>6, <3>3, <4>1, <4>2
    <3> QED
        BY <3>2, <3>3
  <2> QED
      BY <2>1, <2>2
<1> QED
    BY <1>9, <1>10, <1>13 DEF SavedDrafts!HeldByHotel, SavedDrafts!HeldByOne

\* A page is mounted: what was global goes to its hotel, and to no other.
LEMMA HeldMounting ==
    ASSUME SavedDrafts!HeldByHotel, NEW t \in Tabs, NEW h \in DraftHotels,
           SavedDrafts!Mount(t, h)
    PROVE  SavedDrafts!HeldByHotel'
<1> DEFINE all == m1[h] \o m2
           next == SavedDrafts!Keep(all)
<1>1. SavedDrafts!ListsTyped /\ SavedDrafts!SavesOfTabs /\ SavedDrafts!HeldByOne
    BY DEF SavedDrafts!HeldByHotel
<1>2. /\ m2' = <<>> /\ m6' = [m6 EXCEPT ![t] = h] /\ m7' = [m7 EXCEPT ![t] = next]
      /\ m1' = IF m2 = <<>> THEN m1 ELSE [m1 EXCEPT ![h] = all]
      /\ UNCHANGED <<m4, m13>>
    BY DEF SavedDrafts!Mount, SavedDrafts!AdoptGlobal, SavedDrafts!readDrafts
<1>3. \A r \in m12' : (r \in m12 /\ r.tab # t)
                         \/ \E s \in m12 : s.tab = t /\ r = [s EXCEPT !.mounted = FALSE]
    BY DEF SavedDrafts!Mount
<1>4. /\ m2 \in Seq(SavedDrafts!Drafts) /\ SavedDrafts!ListOf(m2) \subseteq {0}
      /\ m2 = <<>> => SavedDrafts!ListOf(m2) = {}
  <2>1. CASE m2 = <<>>
      BY <2>1 DEF SavedDrafts!ListOf
  <2>2. CASE m2 = <<0>>
    <3>1. <<0>> \in Seq(SavedDrafts!Drafts)
        BY DraftNumbers
    <3>2. SavedDrafts!ListOf(<<0>>) \subseteq {0} /\ <<0>> # <<>>
        BY DEF SavedDrafts!ListOf
    <3> QED
        BY <2>2, <3>1, <3>2
  <2> QED
      BY <1>1, <2>1, <2>2 DEF SavedDrafts!ListsTyped
<1>5. /\ m1[h] \in Seq(SavedDrafts!Drafts) /\ all \in Seq(SavedDrafts!Drafts)
      /\ SavedDrafts!ListOf(all) \subseteq SavedDrafts!ListOf(m1[h]) \union SavedDrafts!ListOf(m2)
    BY <1>1, <1>4, JoinedLists DEF SavedDrafts!ListsTyped
<1> HIDE DEF all
<1>6. next \in Seq(SavedDrafts!Drafts) /\ SavedDrafts!ListOf(next) \subseteq SavedDrafts!ListOf(all)
    BY <1>5, KeptList
<1> HIDE DEF next
<1>7. SavedDrafts!ListsTyped'
    BY <1>1, <1>2, <1>5, <1>6 DEF SavedDrafts!ListsTyped
<1>8. \A r \in m12' : \E s \in m12 :
         /\ r.id = s.id /\ r.tab = s.tab /\ r.hotel = s.hotel /\ r.list = s.list
         /\ {"tab", "hotel", "list", "id", "mounted"} \subseteq DOMAIN r
         /\ (r.tab # t /\ r = s) \/ (r.tab = t /\ ~r.mounted /\ r = [s EXCEPT !.mounted = FALSE])
    BY <1>1, <1>3 DEF SavedDrafts!SavesOfTabs
<1>9. SavedDrafts!SavesOfTabs'
  <2>1. ASSUME NEW r \in m12'
        PROVE  /\ {"tab", "hotel", "list", "id", "mounted"} \subseteq DOMAIN r
               /\ r.tab \in Tabs /\ r.hotel \in DraftHotels
               /\ r.list \in Seq(SavedDrafts!Drafts) /\ r.id \in 1..m13'
               /\ r.mounted => m6'[r.tab] = r.hotel
    <3>1. PICK s \in m12 :
            /\ r.id = s.id /\ r.tab = s.tab /\ r.hotel = s.hotel /\ r.list = s.list
            /\ {"tab", "hotel", "list", "id", "mounted"} \subseteq DOMAIN r
            /\ (r.tab # t /\ r = s) \/ (r.tab = t /\ ~r.mounted)
        BY <1>8
    <3>2. /\ s.tab \in Tabs /\ s.hotel \in DraftHotels
          /\ s.list \in Seq(SavedDrafts!Drafts) /\ s.id \in 1..m13
          /\ s.mounted => m6[s.tab] = s.hotel
        BY <1>1 DEF SavedDrafts!SavesOfTabs
    <3>3. r.mounted => m6'[r.tab] = r.hotel
        BY <1>1, <1>2, <3>1, <3>2 DEF SavedDrafts!ListsTyped
    <3> QED
        BY <1>2, <3>1, <3>2, <3>3
  <2>2. ASSUME NEW r \in m12', NEW q \in m12', r.id = q.id
        PROVE  r = q
    <3>1. PICK s \in m12 : /\ r.id = s.id /\ r.tab = s.tab
                           /\ (r.tab # t /\ r = s)
                                \/ (r.tab = t /\ r = [s EXCEPT !.mounted = FALSE])
        BY <1>8
    <3>2. PICK p \in m12 : /\ q.id = p.id /\ q.tab = p.tab
                           /\ (q.tab # t /\ q = p)
                                \/ (q.tab = t /\ q = [p EXCEPT !.mounted = FALSE])
        BY <1>8
    <3>3. s.id = p.id
        BY <2>2, <3>1, <3>2
    <3>4. s = p
        BY <1>1, <3>3 DEF SavedDrafts!SavesOfTabs
    <3> QED
        BY <3>1, <3>2, <3>4
  <2> QED
      BY <2>1, <2>2 DEF SavedDrafts!SavesOfTabs
<1>10. ASSUME NEW g \in DraftHotels, NEW e \in SavedDrafts!Drafts,
              SavedDrafts!HeldAt(g, e)'
       PROVE  SavedDrafts!HeldAt(g, e) \/ (g = h /\ e = 0 /\ m2 # <<>>)
  <2>1. ASSUME e \in SavedDrafts!ListOf(all)
        PROVE  SavedDrafts!HeldAt(h, e) \/ (e = 0 /\ m2 # <<>>)
      BY <1>4, <1>5, <2>1 DEF SavedDrafts!HeldAt
  <2>2. CASE e \in SavedDrafts!ListOf(m1'[g])
    <3>1. m1'[g] = m1[g] \/ (g = h /\ m1'[g] = all)
        BY <1>1, <1>2 DEF SavedDrafts!ListsTyped
    <3> QED
        BY <2>1, <2>2, <3>1 DEF SavedDrafts!HeldAt
  <2>3. ASSUME NEW u \in Tabs, m6'[u] = g, e \in SavedDrafts!ListOf(m7'[u])
        PROVE  SavedDrafts!HeldAt(g, e) \/ (g = h /\ e = 0 /\ m2 # <<>>)
    <3>1. (m6'[u] = m6[u] /\ m7'[u] = m7[u]) \/ (m6'[u] = h /\ m7'[u] = next)
        BY <1>1, <1>2 DEF SavedDrafts!ListsTyped
    <3> QED
        BY <1>6, <2>1, <2>3, <3>1 DEF SavedDrafts!HeldAt
  <2>4. ASSUME NEW r \in m12', r.hotel = g, e \in SavedDrafts!ListOf(r.list)
        PROVE  SavedDrafts!HeldAt(g, e)
      BY <1>8, <2>4 DEF SavedDrafts!HeldAt
  <2> QED
      BY <1>10, <2>2, <2>3, <2>4 DEF SavedDrafts!HeldAt, SavedDrafts!ListOf
<1>11. \A r \in m12' : \E s \in m12 : s.id = r.id
    BY <1>8
<1>12. CASE m2 = <<>>
  <2>1. m13 <= m13'
      BY <1>1, <1>2, DraftNumbers DEF SavedDrafts!ListsTyped
  <2> QED
      BY <1>2, <1>7, <1>9, <1>10, <1>11, <1>12, <2>1, HeldAsBefore
<1>13. CASE m2 # <<>>
  <2>1. \A g \in DraftHotels : ~SavedDrafts!HeldAt(g, 0)
      BY <1>1, <1>13, DraftNumbers DEF SavedDrafts!HeldByOne
  <2>2. ASSUME NEW g \in DraftHotels, NEW d \in SavedDrafts!Drafts,
               SavedDrafts!HeldAt(g, d)'
        PROVE  /\ d = 0 => m2' = <<>>
                             /\ \A f \in DraftHotels \ {g} : ~SavedDrafts!HeldAt(f, 0)'
               /\ d # 0 => m4'[d] = g /\ d <= m13' /\ \A r \in m12' : r.id # d
    <3>1. CASE d = 0
        BY <1>2, <1>10, <2>1, <2>2, <3>1, DraftNumbers
    <3>2. CASE d # 0
      <4>1. SavedDrafts!HeldAt(g, d)
          BY <1>10, <2>2, <3>2
      <4>2. m4[d] = g /\ d <= m13 /\ \A r \in m12 : r.id # d
          BY <1>1, <3>2, <4>1 DEF SavedDrafts!HeldByOne
      <4> QED
          BY <1>2, <1>11, <3>2, <4>2
    <3> QED
        BY <3>1, <3>2
  <2> QED
      BY <1>7, <1>9, <2>2 DEF SavedDrafts!HeldByHotel, SavedDrafts!HeldByOne
<1> QED
    BY <1>12, <1>13

\* Every step of a tab keeps the drafts apart.
LEMMA DraftsNext ==
    ASSUME SavedDrafts!HeldByHotel, [SavedDrafts!Next]_SavedDrafts!draftVars
    PROVE  SavedDrafts!HeldByHotel'
<1>1. ASSUME UNCHANGED <<m1, m2, m4, m6, m7, m12, m13>>
      PROVE  SavedDrafts!HeldByHotel'
    BY <1>1 DEF SavedDrafts!HeldByHotel, SavedDrafts!ListsTyped,
                SavedDrafts!SavesOfTabs, SavedDrafts!HeldByOne, SavedDrafts!HeldAt,
                SavedDrafts!ListOf
<1>2. ASSUME NEW t \in Tabs,
             SavedDrafts!QueuePhoto(t) \/ SavedDrafts!RestoreEnds(t)
               \/ \E d \in SavedDrafts!Drafts : SavedDrafts!restoreDraft(t, d)
      PROVE  SavedDrafts!HeldByHotel'
    BY <1>1, <1>2
    DEF SavedDrafts!QueuePhoto, SavedDrafts!RestoreEnds, SavedDrafts!restoreDraft
<1>3. ASSUME NEW t \in Tabs, NEW d \in SavedDrafts!Drafts, SavedDrafts!discardDraft(t, d)
      PROVE  SavedDrafts!HeldByHotel'
  <2>1. /\ SavedDrafts!writeDrafts(t, m6[t], SavedDrafts!Without(m7[t], d))
        /\ UNCHANGED <<m2, m4, m6, m12, m13>>
      BY <1>3 DEF SavedDrafts!discardDraft
  <2> QED
      BY <2>1, HeldWithout
<1>4. ASSUME NEW t \in Tabs, SavedDrafts!CheckedIn(t)
      PROVE  SavedDrafts!HeldByHotel'
  <2>1. /\ UNCHANGED <<m2, m4, m6, m12, m13>>
        /\ UNCHANGED <<m1, m7>>
             \/ SavedDrafts!writeDrafts(t, m6[t], SavedDrafts!Without(m7[t], m8[t]))
      BY <1>4 DEF SavedDrafts!CheckedIn
  <2> QED
      BY <1>1, <2>1, HeldWithout
<1> QED
    BY <1>1, <1>2, <1>3, <1>4, HeldSaving, HeldMounting, HeldSaveEnds
    DEF SavedDrafts!Next, SavedDrafts!draftVars

\* What a hotel holds was saved from its forms.
LEMMA DraftsHeld == SavedDrafts!HeldByHotel => SavedDrafts!DraftsStayInHotel
<1> SUFFICES ASSUME SavedDrafts!HeldByHotel, NEW h \in DraftHotels,
                    NEW d \in SavedDrafts!ListOf(m1[h])
             PROVE  IF d = 0
                      THEN \A g \in DraftHotels \ {h} : 0 \notin SavedDrafts!ListOf(m1[g])
                      ELSE m4[d] = h
    BY DEF SavedDrafts!DraftsStayInHotel
<1>1. d \in SavedDrafts!Drafts
  <2>1. m1[h] \in Seq(SavedDrafts!Drafts)
      BY DEF SavedDrafts!HeldByHotel, SavedDrafts!ListsTyped
  <2> QED
      BY <2>1 DEF SavedDrafts!ListOf
<1>2. SavedDrafts!HeldAt(h, d)
    BY DEF SavedDrafts!HeldAt
<1> QED
    BY <1>1, <1>2 DEF SavedDrafts!HeldByHotel, SavedDrafts!HeldByOne, SavedDrafts!HeldAt

\* What is deleted with drafts is no photograph of a draft that is in the new
\* list, and only the list of one hotel is written.
LEMMA PhotosKept ==
    ASSUME SavedDrafts!ListsTyped, NEW h, NEW next, NEW now, NEW gone,
           m1' = [m1 EXCEPT ![h] = next], m5 \subseteq now, m5' \in {now, now \ gone},
           gone \intersect ({None} \union SavedDrafts!draftDocKeys(next)) = {}
    PROVE  SavedDrafts!SurvivorsKept
<1> SUFFICES ASSUME NEW g \in DraftHotels, m1[g] # m1'[g],
                    NEW d \in SavedDrafts!ListOf(m1[g]) \intersect SavedDrafts!ListOf(m1'[g]),
                    m3[d] \in m5
             PROVE  m3[d] \in m5'
    BY DEF SavedDrafts!SurvivorsKept
<1>1. m1'[g] = next
    BY DEF SavedDrafts!ListsTyped
<1>2. m3[d] \in {None} \union SavedDrafts!draftDocKeys(next)
    BY <1>1 DEF SavedDrafts!draftDocKeys
<1> QED
    BY <1>2

LEMMA SurvivorsNext ==
    ASSUME SavedDrafts!HeldByHotel, [SavedDrafts!Next]_SavedDrafts!draftVars
    PROVE  SavedDrafts!SurvivorsKept
<1>1. SavedDrafts!ListsTyped
    BY DEF SavedDrafts!HeldByHotel
<1>2. ASSUME m5' = m5
      PROVE  SavedDrafts!SurvivorsKept
    BY <1>2 DEF SavedDrafts!SurvivorsKept
<1>3. ASSUME NEW t \in Tabs, NEW keys, NEW next, None \notin keys,
             SavedDrafts!writeDrafts(t, m6[t], next),
             SavedDrafts!deleteDraftDocsUnlessShared(keys, next)
      PROVE  SavedDrafts!SurvivorsKept
  <2> DEFINE gone == keys \ SavedDrafts!draftDocKeys(next)
  <2>1. /\ m1' = [m1 EXCEPT ![m6[t]] = next] /\ m5' \in {m5, m5 \ gone}
        /\ gone \intersect ({None} \union SavedDrafts!draftDocKeys(next)) = {}
      BY <1>3 DEF SavedDrafts!writeDrafts, SavedDrafts!deleteDraftDocsUnlessShared
  <2> HIDE DEF gone
  <2> QED
      BY <1>1, <2>1, PhotosKept
<1>4. ASSUME NEW s \in m12, SavedDrafts!SaveEnds(s)
      PROVE  SavedDrafts!SurvivorsKept
  <2> DEFINE next == SavedDrafts!Keep(<<s.id>> \o s.list)
             evicted == {d \in SavedDrafts!ListOf(s.list) : d \notin SavedDrafts!ListOf(next)}
             gone(key) == {m3[d] : d \in evicted}
                            \ ({key, None} \union SavedDrafts!draftDocKeys(next))
             now(key) == m5 \union (IF key = s.id THEN {s.id} ELSE {})
  <2>1. m1' = [m1 EXCEPT ![s.hotel] = next]
      BY <1>4 DEF SavedDrafts!SaveEnds, SavedDrafts!SaveHotel
  <2>2. \E key : m5' \in {now(key), now(key) \ gone(key)}
      BY <1>4 DEF SavedDrafts!SaveEnds
  <2>3. PICK key : m5' \in {now(key), now(key) \ gone(key)}
      BY <2>2
  <2>4. /\ m5 \subseteq now(key)
        /\ gone(key) \intersect ({None} \union SavedDrafts!draftDocKeys(next)) = {}
      OBVIOUS
  <2> HIDE DEF next, gone, now
  <2> QED
      BY <1>1, <2>1, <2>3, <2>4, PhotosKept
<1>5. ASSUME NEW t \in Tabs, NEW d, SavedDrafts!discardDraft(t, d)
      PROVE  SavedDrafts!SurvivorsKept
  <2>1. /\ SavedDrafts!writeDrafts(t, m6[t], SavedDrafts!Without(m7[t], d))
        /\ SavedDrafts!deleteDraftDocsUnlessShared({m3[d]} \ {None},
                                                   SavedDrafts!Without(m7[t], d))
      BY <1>5 DEF SavedDrafts!discardDraft
  <2> QED
      BY <1>3, <2>1
<1>6. ASSUME NEW t \in Tabs, SavedDrafts!CheckedIn(t)
      PROVE  SavedDrafts!SurvivorsKept
  <2>1. \/ m5' = m5
        \/ /\ SavedDrafts!writeDrafts(t, m6[t], SavedDrafts!Without(m7[t], m8[t]))
           /\ SavedDrafts!deleteDraftDocsUnlessShared({m3[m8[t]]} \ {None},
                                                      SavedDrafts!Without(m7[t], m8[t]))
      BY <1>6 DEF SavedDrafts!CheckedIn
  <2> QED
      BY <1>2, <1>3, <2>1
<1> QED
    BY <1>2, <1>4, <1>5, <1>6
    DEF SavedDrafts!Next, SavedDrafts!draftVars, SavedDrafts!QueuePhoto,
        SavedDrafts!saveDraft, SavedDrafts!RestoreEnds, SavedDrafts!Mount,
        SavedDrafts!restoreDraft

-----------------------------------------------------------------------------
(* The scan of an identity card *)

LEMMA ScanInit ==
    ScanPanel!Init => /\ ScanPanel!ScansTyped /\ ScanPanel!AddressOfBack
                      /\ ScanPanel!SpinnerHonest
<1> SUFFICES ASSUME ScanPanel!Init
             PROVE  /\ ScanPanel!ScansTyped /\ ScanPanel!AddressOfBack
                    /\ ScanPanel!SpinnerHonest
    OBVIOUS
<1>1. ScanPanel!ScansTyped
    BY DEF ScanPanel!Init, ScanPanel!ScansTyped, ScanPanel!Stages,
           ScanPanel!NoTask, ScanPanel!Numbers
<1>2. ScanPanel!AddressOfBack
    BY DEF ScanPanel!Init, ScanPanel!AddressOfBack, ScanPanel!NoTask,
           ScanPanel!BackScans, ScanPanel!BackStages
<1>3. ScanPanel!Awaited(1) = {} /\ ScanPanel!Awaited(2) = {}
    BY DEF ScanPanel!Init, ScanPanel!Awaited, ScanPanel!Spinning,
           ScanPanel!NoTask
<1>4. ScanPanel!Cardinality({}) = 0
  <2>1. ScanPanel!Cardinality({}) = Cardinality({})
      BY Zenon DEF ScanPanel!Cardinality, Cardinality
  <2> QED
      BY <2>1, FS_EmptySet
<1>5. /\ ScanPanel!Cardinality(ScanPanel!Awaited(1)) = 0
      /\ ScanPanel!Cardinality(ScanPanel!Awaited(2)) = 0
    BY <1>3, <1>4, Zenon
<1>6. m6 = 0
    BY DEF ScanPanel!Init
<1>7. 0 <= 0 + 0
    OBVIOUS
<1>8. ScanPanel!SpinnerHonest
    BY <1>5, <1>6, <1>7, Zenon DEF ScanPanel!SpinnerHonest
<1> QED
    BY <1>1, <1>2, <1>8

\* No front carries an address.
LEMMA FacesOfCards ==
    ASSUME NEW card \in ScanPanel!CardKinds, NEW side \in ScanPanel!Sides
    PROVE  /\ ScanPanel!Cards[card][side]
                \in [qr : BOOLEAN, qrAddr : BOOLEAN, id : ScanPanel!Numbers,
                     addr : BOOLEAN]
           /\ side = "front" => /\ ScanPanel!Cards[card][side].addr = FALSE
                                /\ ScanPanel!Cards[card][side].qrAddr = FALSE
<1>1. card = "pvc" \/ card = "paper" \/ card = "copy"
    BY DEF ScanPanel!CardKinds, ScanPanel!Cards
<1>2. side = "front" \/ side = "back"
    BY DEF ScanPanel!Sides
<1> DEFINE face == [qr : BOOLEAN, qrAddr : BOOLEAN, id : ScanPanel!Numbers,
                    addr : BOOLEAN]
<1>3. CASE card = "pvc"
  <2>1. ScanPanel!Cards[card]["front"] = [qr |-> FALSE, qrAddr |-> FALSE, id |-> "full", addr |-> FALSE]
      BY <1>3 DEF ScanPanel!Cards
  <2>2. ScanPanel!Cards[card]["back"] = [qr |-> TRUE, qrAddr |-> TRUE, id |-> "none", addr |-> TRUE]
      BY <1>3 DEF ScanPanel!Cards
  <2>3. ScanPanel!Cards[card]["front"] \in face
      BY <2>1 DEF ScanPanel!Numbers
  <2>4. ScanPanel!Cards[card]["back"] \in face
      BY <2>2 DEF ScanPanel!Numbers
  <2>5. /\ ScanPanel!Cards[card]["front"].addr = FALSE
        /\ ScanPanel!Cards[card]["front"].qrAddr = FALSE
      BY <2>1
  <2> QED
      BY <1>2, <2>3, <2>4, <2>5, Zenon
<1>4. CASE card = "paper"
  <2>1. ScanPanel!Cards[card]["front"] = [qr |-> TRUE, qrAddr |-> FALSE, id |-> "full", addr |-> FALSE]
      BY <1>4 DEF ScanPanel!Cards
  <2>2. ScanPanel!Cards[card]["back"] = [qr |-> FALSE, qrAddr |-> FALSE, id |-> "full", addr |-> TRUE]
      BY <1>4 DEF ScanPanel!Cards
  <2>3. ScanPanel!Cards[card]["front"] \in face
      BY <2>1 DEF ScanPanel!Numbers
  <2>4. ScanPanel!Cards[card]["back"] \in face
      BY <2>2 DEF ScanPanel!Numbers
  <2>5. /\ ScanPanel!Cards[card]["front"].addr = FALSE
        /\ ScanPanel!Cards[card]["front"].qrAddr = FALSE
      BY <2>1
  <2> QED
      BY <1>2, <2>3, <2>4, <2>5, Zenon
<1>5. CASE card = "copy"
  <2>1. ScanPanel!Cards[card]["front"] = [qr |-> FALSE, qrAddr |-> FALSE, id |-> "full", addr |-> FALSE]
      BY <1>5 DEF ScanPanel!Cards
  <2>2. ScanPanel!Cards[card]["back"] = [qr |-> FALSE, qrAddr |-> FALSE, id |-> "none", addr |-> TRUE]
      BY <1>5 DEF ScanPanel!Cards
  <2>3. ScanPanel!Cards[card]["front"] \in face
      BY <2>1 DEF ScanPanel!Numbers
  <2>4. ScanPanel!Cards[card]["back"] \in face
      BY <2>2 DEF ScanPanel!Numbers
  <2>5. /\ ScanPanel!Cards[card]["front"].addr = FALSE
        /\ ScanPanel!Cards[card]["front"].qrAddr = FALSE
      BY <2>1
  <2> QED
      BY <1>2, <2>3, <2>4, <2>5, Zenon
<1> QED
    BY <1>1, <1>3, <1>4, <1>5

\* What a face is read as is an answer, and no front carries an address.
LEMMA AnswersOfFaces ==
    ASSUME NEW card \in ScanPanel!CardKinds, NEW side \in ScanPanel!Sides,
           NEW r \in ScanPanel!Probe(ScanPanel!Cards[card][side])
                     \union ScanPanel!parseIdDocument(ScanPanel!Cards[card][side])
    PROVE  /\ r \in ScanPanel!Scan /\ r # None
           /\ side = "front" => r.addr = FALSE
           /\ ScanPanel!Cards[card][side].qrAddr \in BOOLEAN
           /\ r.saysQr /\ r.autofill => r.addr = ScanPanel!Cards[card][side].qrAddr
<1>1. ASSUME NEW f \in [qr : BOOLEAN, qrAddr : BOOLEAN, id : ScanPanel!Numbers,
                        addr : BOOLEAN],
             NEW q \in ScanPanel!Probe(f) \union ScanPanel!parseIdDocument(f)
      PROVE  /\ q \in ScanPanel!Scan
             /\ f.addr = FALSE /\ f.qrAddr = FALSE => q.addr = FALSE
             /\ q.saysQr /\ q.autofill => q.addr = f.qrAddr
  <2>1. \/ q = [qr |-> FALSE, saysQr |-> TRUE, id |-> "none", addr |-> FALSE,
                autofill |-> FALSE]
        \/ q = [qr |-> FALSE, saysQr |-> FALSE, id |-> "none", addr |-> FALSE,
                autofill |-> FALSE]
        \/ q = [qr |-> TRUE, saysQr |-> TRUE, id |-> "last4", addr |-> f.qrAddr,
                autofill |-> TRUE]
        \/ q = [qr |-> FALSE, saysQr |-> FALSE, id |-> f.id, addr |-> f.addr,
                autofill |-> TRUE]
      BY <1>1
      DEF ScanPanel!Probe, ScanPanel!parseIdDocument, ScanPanel!NoQr,
          ScanPanel!Unreadable, ScanPanel!QrOf, ScanPanel!TextOf
  <2>2. f.qrAddr \in BOOLEAN /\ f.id \in ScanPanel!Numbers /\ f.addr \in BOOLEAN
      OBVIOUS
  <2>3. q \in ScanPanel!Scan
    <3>1. CASE q = [qr |-> FALSE, saysQr |-> TRUE, id |-> "none", addr |-> FALSE,
                    autofill |-> FALSE]
        BY <3>1 DEF ScanPanel!Scan, ScanPanel!Numbers
    <3>2. CASE q = [qr |-> FALSE, saysQr |-> FALSE, id |-> "none", addr |-> FALSE,
                    autofill |-> FALSE]
        BY <3>2 DEF ScanPanel!Scan, ScanPanel!Numbers
    <3>3. CASE q = [qr |-> TRUE, saysQr |-> TRUE, id |-> "last4",
                    addr |-> f.qrAddr, autofill |-> TRUE]
        BY <2>2, <3>3 DEF ScanPanel!Scan, ScanPanel!Numbers
    <3>4. CASE q = [qr |-> FALSE, saysQr |-> FALSE, id |-> f.id, addr |-> f.addr,
                    autofill |-> TRUE]
        BY <2>2, <3>4 DEF ScanPanel!Scan
    <3> QED
        BY <2>1, <3>1, <3>2, <3>3, <3>4
  <2>4. f.addr = FALSE /\ f.qrAddr = FALSE => q.addr = FALSE
      BY <2>1
  <2>5. q.saysQr /\ q.autofill => q.addr = f.qrAddr
      BY <2>1
  <2> QED
      BY <2>3, <2>4, <2>5
<1> DEFINE f == ScanPanel!Cards[card][side]
<1>2. /\ f \in [qr : BOOLEAN, qrAddr : BOOLEAN, id : ScanPanel!Numbers,
                addr : BOOLEAN]
      /\ side = "front" => f.addr = FALSE /\ f.qrAddr = FALSE
    BY FacesOfCards
<1>3. None \notin ScanPanel!Scan
    BY NoneAssumption
<1> HIDE DEF f
<1>4. r \in ScanPanel!Probe(f) \union ScanPanel!parseIdDocument(f)
    BY DEF f
<1>5. /\ r \in ScanPanel!Scan /\ r # None
      /\ side = "front" => r.addr = FALSE
      /\ f.qrAddr \in BOOLEAN
      /\ r.saysQr /\ r.autofill => r.addr = f.qrAddr
    BY <1>1, <1>2, <1>3, <1>4
<1> QED
    BY <1>5 DEF f

LEMMA ProbeOfBack ==
    ASSUME NEW card \in ScanPanel!CardKinds,
           NEW r \in ScanPanel!Probe(ScanPanel!Cards[card]["back"])
    PROVE  /\ r \in ScanPanel!Scan /\ r # None
           /\ r.saysQr /\ r.autofill => r.addr = ScanPanel!Cards[card]["back"].qrAddr
<1>1. "back" \in ScanPanel!Sides
    BY DEF ScanPanel!Sides
<1> QED
    BY <1>1, AnswersOfFaces

\* What the digits complete is the answer of the QR code.
LEMMA DigitsOfQr ==
    ASSUME NEW card \in ScanPanel!CardKinds, NEW r,
           r = [ScanPanel!QrOf(ScanPanel!Cards[card]["back"]) EXCEPT !.id = "full"]
    PROVE  /\ r \in ScanPanel!Scan /\ r # None
           /\ r.addr = ScanPanel!Cards[card]["back"].qrAddr
<1>1. ScanPanel!Cards[card]["back"].qrAddr \in BOOLEAN
    BY FacesOfCards DEF ScanPanel!Sides
<1>2. /\ r \in ScanPanel!Scan
      /\ r.addr = ScanPanel!Cards[card]["back"].qrAddr
    BY <1>1 DEF ScanPanel!QrOf, ScanPanel!Scan, ScanPanel!Numbers
<1> QED
    BY <1>2, NoneAssumption

OneScan == [at : ScanPanel!Stages, card : ScanPanel!CardKinds \union {None},
            spare : ScanPanel!CardKinds \union {None}]
Turns(at) ==
    IF at \in {"free", "done", "digits"} THEN 0 ELSE IF at = "frontOcr" THEN 2 ELSE 1

\* One element more or less counts for one.
LEMMA CountOfOne ==
    ASSUME NEW S, IsFiniteSet(S), NEW T, IsFiniteSet(T), NEW i, S \ {i} = T \ {i}
    PROVE  /\ ScanPanel!Cardinality(S) \in Nat /\ ScanPanel!Cardinality(T) \in Nat
           /\ i \in S /\ i \in T => ScanPanel!Cardinality(S) = ScanPanel!Cardinality(T)
           /\ i \notin S /\ i \notin T =>
                ScanPanel!Cardinality(S) = ScanPanel!Cardinality(T)
           /\ i \in S /\ i \notin T =>
                ScanPanel!Cardinality(S) = ScanPanel!Cardinality(T) + 1
           /\ i \notin S /\ i \in T =>
                ScanPanel!Cardinality(S) + 1 = ScanPanel!Cardinality(T)
<1>1. /\ ScanPanel!Cardinality(S) = Cardinality(S)
      /\ ScanPanel!Cardinality(T) = Cardinality(T)
    BY Zenon DEF ScanPanel!Cardinality, Cardinality
<1>2. Cardinality(S) \in Nat /\ Cardinality(T) \in Nat
    BY FS_CardinalityType
<1>3. /\ Cardinality(S \ {i}) = IF i \in S THEN Cardinality(S) - 1 ELSE Cardinality(S)
      /\ Cardinality(T \ {i}) = IF i \in T THEN Cardinality(T) - 1 ELSE Cardinality(T)
    BY FS_RemoveElement
<1> QED
    BY <1>1, <1>2, <1>3

\* The scans awaited follow the one scan that changes.
LEMMA AwaitedFollow ==
    ASSUME ScanPanel!ScansTyped, NEW i \in 1..MaxScans, NEW scan \in OneScan,
           m9' = [m9 EXCEPT ![i] = scan], ScanPanel!SpinnerHonest,
           m6' \in Nat,
           m6' + Turns(m9[i].at) <= m6 + Turns(scan.at) \/ m6' = 0
    PROVE  ScanPanel!SpinnerHonest'
<1> DEFINE A(n) == ScanPanel!Awaited(n)
<1>1. ASSUME NEW j \in 1..MaxScans
      PROVE  /\ ScanPanel!Spinning(j) = Turns(m9[j].at)
             /\ ScanPanel!Spinning(j)' = Turns(m9'[j].at)
             /\ m9'[j] = IF j = i THEN scan ELSE m9[j]
    BY DEF ScanPanel!Spinning, Turns, ScanPanel!ScansTyped
<1>2. ASSUME NEW n \in {1, 2}
      PROVE  /\ A(n) \subseteq 1..MaxScans /\ A(n)' \subseteq 1..MaxScans
             /\ A(n) \ {i} = A(n)' \ {i}
             /\ i \in A(n) <=> Turns(m9[i].at) >= n
             /\ i \in A(n)' <=> Turns(scan.at) >= n
    BY <1>1 DEF ScanPanel!Awaited
<1>3. ASSUME NEW n \in {1, 2}
      PROVE  IsFiniteSet(A(n)) /\ IsFiniteSet(A(n)')
  <2>1. IsFiniteSet(1..MaxScans)
      BY ScansAssumption, FS_Interval
  <2> QED
      BY <1>2, <2>1, FS_Subset
<1> DEFINE C(n) == ScanPanel!Cardinality(ScanPanel!Awaited(n))
<1> HIDE DEF A
<1>4. ASSUME NEW n \in {1, 2}
      PROVE  /\ C(n) \in Nat /\ C(n)' \in Nat
             /\ C(n)' + (IF Turns(m9[i].at) >= n THEN 1 ELSE 0)
                  = C(n) + (IF Turns(scan.at) >= n THEN 1 ELSE 0)
  <2>1. /\ ScanPanel!Cardinality(A(n)) \in Nat
        /\ ScanPanel!Cardinality(A(n)') \in Nat
        /\ i \in A(n) /\ i \in A(n)' =>
             ScanPanel!Cardinality(A(n)) = ScanPanel!Cardinality(A(n)')
        /\ i \notin A(n) /\ i \notin A(n)' =>
             ScanPanel!Cardinality(A(n)) = ScanPanel!Cardinality(A(n)')
        /\ i \in A(n) /\ i \notin A(n)' =>
             ScanPanel!Cardinality(A(n)) = ScanPanel!Cardinality(A(n)') + 1
        /\ i \notin A(n) /\ i \in A(n)' =>
             ScanPanel!Cardinality(A(n)) + 1 = ScanPanel!Cardinality(A(n)')
      BY <1>2, <1>3, CountOfOne
  <2>2. /\ C(n) = ScanPanel!Cardinality(A(n))
        /\ C(n)' = ScanPanel!Cardinality(A(n)')
      BY Zenon DEF A
  <2> HIDE DEF C
  <2> QED
      BY <1>2, <2>1, <2>2
<1>5. Turns(m9[i].at) \in 0..2 /\ Turns(scan.at) \in 0..2
    BY DEF Turns
<1>6. m6 <= C(1) + C(2)
    BY DEF ScanPanel!SpinnerHonest
<1>7. m6 \in Nat
    BY DEF ScanPanel!ScansTyped
<1>8. m6' <= C(1)' + C(2)'
  <2>1. /\ C(1) \in Nat /\ C(1)' \in Nat /\ C(2) \in Nat /\ C(2)' \in Nat
        /\ C(1)' + (IF Turns(m9[i].at) >= 1 THEN 1 ELSE 0)
             = C(1) + (IF Turns(scan.at) >= 1 THEN 1 ELSE 0)
        /\ C(2)' + (IF Turns(m9[i].at) >= 2 THEN 1 ELSE 0)
             = C(2) + (IF Turns(scan.at) >= 2 THEN 1 ELSE 0)
      BY <1>4
  <2> HIDE DEF C
  <2> QED
      BY <1>5, <1>6, <1>7, <2>1
<1> QED
    BY <1>8 DEF ScanPanel!SpinnerHonest

ScanKept ==
    /\ ScanPanel!ScansTyped
    /\ ScanPanel!AddressOfBack
    /\ ScanPanel!SpinnerHonest

\* What one scan does: it turns the spinner no longer than it runs, reads no
\* address from a front, and writes the back only when it is of the back.
ScanTyped(i, scan) ==
    /\ m9' = [m9 EXCEPT ![i] = scan]
    /\ scan.at \notin {"free", "done"} => scan.card \in ScanPanel!CardKinds
    /\ scan.at = "frontOcr" => scan.spare \in ScanPanel!CardKinds
    /\ m1' = m1 /\ m12' \in BOOLEAN /\ m7' \in BOOLEAN
    /\ m8' \in [id : ScanPanel!Numbers, addr : BOOLEAN]
    /\ {m2', m3'} \subseteq ScanPanel!Scan \union {None}
    /\ m4' \in ScanPanel!CardKinds \union {None}
ScanTurns(i, scan) ==
    /\ m6' \in Nat
    /\ m6' + Turns(m9[i].at) <= m6 + Turns(scan.at) \/ m6' = 0
ScanReads(i, scan) ==
    ~m12' /\ m1 = "aadhaar" =>
        /\ ~m12
        /\ scan.at \in ScanPanel!BackStages \/ m3' # m3 =>
             m9[i].at \in ScanPanel!BackStages \/ ScanPanel!BackScans = {}
        /\ scan.at \notin {"plainFront", "plainBack"}
        /\ m2' = m2 \/ m2' = None \/ m2'.addr = FALSE
        /\ scan.at = "digits" =>
             /\ m3' # None
             /\ m3'.addr = ScanPanel!Cards[scan.card]["back"].qrAddr
        /\ \/ m7' = FALSE \/ m3' = None
           \/ m3'.addr => m8'.addr
           \/ m7' = m7 /\ m3' = m3 /\ (m8.addr => m8'.addr)

LEMMA ScanKeeps ==
    ASSUME ScanKept, NEW i \in 1..MaxScans, NEW scan \in OneScan,
           ScanTyped(i, scan), ScanTurns(i, scan), ScanReads(i, scan)
    PROVE  ScanKept'
<1>1. /\ m9' \in [1..MaxScans -> OneScan]
      /\ \A j \in 1..MaxScans : m9'[j] = IF j = i THEN scan ELSE m9[j]
    BY DEF ScanKept, ScanPanel!ScansTyped, OneScan, ScanTyped
<1>2. ScanPanel!ScansTyped'
  <2>1. m1' \in {"aadhaar", "other"}
      BY DEF ScanKept, ScanPanel!ScansTyped, ScanTyped
  <2>2. \A j \in 1..MaxScans :
          /\ m9'[j].at \notin {"free", "done"} => m9'[j].card \in ScanPanel!CardKinds
          /\ m9'[j].at = "frontOcr" => m9'[j].spare \in ScanPanel!CardKinds
      BY <1>1 DEF ScanKept, ScanPanel!ScansTyped, ScanTyped
  <2> QED
      BY <1>1, <2>1, <2>2 DEF ScanPanel!ScansTyped, OneScan, ScanTyped, ScanTurns
<1>3. ScanPanel!AddressOfBack'
  <2> SUFFICES ASSUME ~m12', m1 = "aadhaar"
               PROVE  /\ m2' # None => m2'.addr = FALSE
                      /\ \A j, k \in ScanPanel!BackScans' : j = k
                      /\ \A j \in 1..MaxScans :
                           /\ m9'[j].at \notin {"plainFront", "plainBack"}
                           /\ m9'[j].at = "digits" =>
                                /\ m3' # None
                                /\ m3'.addr = ScanPanel!Cards[m9'[j].card]["back"].qrAddr
                      /\ m7' /\ m3' # None => (m3'.addr => m8'.addr)
      BY DEF ScanPanel!AddressOfBack, ScanPanel!Face, ScanReads, ScanTyped
  <2>1. /\ m2 # None => m2.addr = FALSE
        /\ \A j, k \in ScanPanel!BackScans : j = k
        /\ \A j \in 1..MaxScans :
             /\ m9[j].at \notin {"plainFront", "plainBack"}
             /\ m9[j].at = "digits" =>
                  /\ m3 # None
                  /\ m3.addr = ScanPanel!Cards[m9[j].card]["back"].qrAddr
        /\ m7 /\ m3 # None => (m3.addr => m8.addr)
      BY DEF ScanKept, ScanPanel!AddressOfBack, ScanPanel!Face, ScanReads, ScanTyped
  <2>2. m2' # None => m2'.addr = FALSE
      BY <2>1 DEF ScanReads, ScanTyped
  <2>3. \A j, k \in ScanPanel!BackScans' : j = k
    <3>1. CASE scan.at \notin ScanPanel!BackStages \/ m9[i].at \in ScanPanel!BackStages
        BY <1>1, <2>1, <3>1 DEF ScanPanel!BackScans
    <3>2. CASE ScanPanel!BackScans = {}
        BY <1>1, <3>2 DEF ScanPanel!BackScans
    <3> QED
        BY <3>1, <3>2 DEF ScanReads, ScanTyped
  <2>4. ASSUME NEW j \in 1..MaxScans
        PROVE  /\ m9'[j].at \notin {"plainFront", "plainBack"}
               /\ m9'[j].at = "digits" =>
                    /\ m3' # None
                    /\ m3'.addr = ScanPanel!Cards[m9'[j].card]["back"].qrAddr
    <3>1. CASE j = i
        BY <1>1, <3>1 DEF ScanReads, ScanTyped
    <3>2. CASE j # i
      <4>1. m9'[j] = m9[j]
          BY <1>1, <3>2
      <4>2. m9[j].at = "digits" =>
              m9[i].at \notin ScanPanel!BackStages /\ ScanPanel!BackScans # {}
          BY <2>1, <3>2 DEF ScanPanel!BackScans, ScanPanel!BackStages
      <4> QED
          BY <2>1, <4>1, <4>2 DEF ScanReads, ScanTyped
    <3> QED
        BY <3>1, <3>2
  <2>5. m7' /\ m3' # None => (m3'.addr => m8'.addr)
      BY <2>1 DEF ScanReads, ScanTyped
  <2> QED
      BY <2>1, <2>2, <2>3, <2>4, <2>5
<1>4. ScanPanel!SpinnerHonest'
    BY AwaitedFollow DEF ScanKept, ScanTyped, ScanTurns
<1> QED
    BY <1>2, <1>3, <1>4 DEF ScanKept

LEMMA UnifiedOfFaces ==
    ASSUME ScanPanel!ScansTyped, ScanPanel!unifiedResult # None
    PROVE  /\ ScanPanel!unifiedResult \in ScanPanel!Scan
           /\ ScanPanel!unifiedResult.addr =>
                (m2 # None /\ m2.addr) \/ (m3 # None /\ m3.addr)
           /\ m3 # None /\ m3.addr => ScanPanel!unifiedResult.addr
<1>1. m2 \in ScanPanel!Scan \union {None} /\ m3 \in ScanPanel!Scan \union {None}
    BY DEF ScanPanel!ScansTyped
<1>2. ScanPanel!unifiedResult = ScanPanel!mergeOcrResults(m2, m3)
    BY DEF ScanPanel!unifiedResult
<1>3. CASE m2 = None \/ m3 = None
    BY <1>1, <1>2, <1>3 DEF ScanPanel!mergeOcrResults
<1>4. CASE m2 # None /\ m3 # None
  <2> DEFINE r == [qr |-> m2.qr \/ m3.qr, saysQr |-> m2.saysQr \/ m3.saysQr,
                   id |-> ScanPanel!Best(m2.id, m3.id), addr |-> m2.addr \/ m3.addr,
                   autofill |-> m2.autofill \/ m3.autofill \/ m2.id # "none"
                                  \/ m3.id # "none"]
  <2>1. ScanPanel!unifiedResult = r
      BY <1>2, <1>4 DEF ScanPanel!mergeOcrResults
  <2>2. ScanPanel!Best(m2.id, m3.id) \in ScanPanel!Numbers
      BY DEF ScanPanel!Best, ScanPanel!Numbers
  <2>3. r \in ScanPanel!Scan
      BY <2>2 DEF ScanPanel!Scan
  <2> QED
      BY <1>4, <2>1, <2>3
<1> QED
    BY <1>3, <1>4

LEMMA AcceptKeeps == ScanKept /\ ScanPanel!AcceptAutofill => ScanKept'
<1> SUFFICES ASSUME ScanKept, ScanPanel!AcceptAutofill
             PROVE  ScanKept'
    OBVIOUS
<1> DEFINE u == ScanPanel!unifiedResult
<1>1. /\ UNCHANGED <<m1, m2, m3, m4, m6, m9, m12>> /\ m7' = TRUE
      /\ m8' = [id |-> IF u.id = "none" THEN m8.id ELSE u.id,
                addr |-> m8.addr \/ u.addr]
      /\ u # None
    BY DEF ScanPanel!AcceptAutofill, ScanPanel!scanVars
<1>2. /\ u \in ScanPanel!Scan
      /\ m3 # None /\ m3.addr => u.addr
    BY <1>1, UnifiedOfFaces DEF ScanKept
<1> HIDE DEF u
<1>3. m8' \in [id : ScanPanel!Numbers, addr : BOOLEAN]
    BY <1>1, <1>2 DEF ScanKept, ScanPanel!ScansTyped, ScanPanel!Scan
<1>4. ScanPanel!ScansTyped'
    BY <1>1, <1>3 DEF ScanKept, ScanPanel!ScansTyped
<1>5. m3' # None => (m3'.addr => m8'.addr)
    BY <1>1, <1>2
<1>6. ScanPanel!AddressOfBack'
    BY <1>1, <1>5
    DEF ScanKept, ScanPanel!AddressOfBack, ScanPanel!BackScans, ScanPanel!Face
<1>7. ScanPanel!SpinnerHonest'
    BY <1>1 DEF ScanKept, ScanPanel!SpinnerHonest, ScanPanel!Awaited,
                ScanPanel!Spinning
<1> QED
    BY <1>4, <1>6, <1>7 DEF ScanKept

LEMMA ChangeTypeKeeps == ScanKept /\ ScanPanel!ChangeType => ScanKept'
<1> SUFFICES ASSUME ScanKept, ScanPanel!ChangeType
             PROVE  ScanKept'
    OBVIOUS
<1>1. /\ m1' \in {"aadhaar", "other"} /\ m2' = None /\ m3' = None /\ m4' = None
      /\ m6' = 0 /\ m7' = FALSE /\ UNCHANGED <<m8, m9>>
      /\ m12' = (m12 \/ ScanPanel!Running # {})
    BY DEF ScanPanel!ChangeType
<1>2. ScanPanel!ScansTyped'
  <2>1. m12' \in BOOLEAN
      BY <1>1 DEF ScanKept, ScanPanel!ScansTyped
  <2> QED
      BY <1>1, <2>1 DEF ScanKept, ScanPanel!ScansTyped
<1>3. ScanPanel!AddressOfBack'
  <2>1. ~m12' => \A j \in 1..MaxScans : m9'[j].at \in {"free", "done"}
      BY <1>1 DEF ScanPanel!Running
  <2>2. ~m12' => ScanPanel!BackScans' = {}
      BY <2>1 DEF ScanPanel!BackScans, ScanPanel!BackStages
  <2> QED
      BY <1>1, <2>1, <2>2 DEF ScanPanel!AddressOfBack
<1>4. ScanPanel!SpinnerHonest'
  <2>1. ASSUME NEW n \in {1, 2}
        PROVE  ScanPanel!Cardinality(ScanPanel!Awaited(n)') \in Nat
    <3>1. ScanPanel!Awaited(n)' \subseteq 1..MaxScans
        BY DEF ScanPanel!Awaited
    <3>2. IsFiniteSet(1..MaxScans)
        BY ScansAssumption, FS_Interval
    <3>3. IsFiniteSet(ScanPanel!Awaited(n)')
        BY <3>1, <3>2, FS_Subset
    <3> QED
        BY <3>3, CountOfOne
  <2> QED
      BY <1>1, <2>1 DEF ScanPanel!SpinnerHonest
<1> QED
    BY <1>2, <1>3, <1>4 DEF ScanKept

LEMMA Starts ==
    ASSUME NEW i, NEW at, NEW card, ScanPanel!Start(i, at, card)
    PROVE  /\ m9[i].at = "free"
           /\ m9' = [m9 EXCEPT ![i] = [at |-> at, card |-> card, spare |-> None]]
    BY DEF ScanPanel!Start, ScanPanel!Free

LEMMA UploadKeeps ==
    ASSUME ScanKept, NEW i \in 1..MaxScans, NEW card \in ScanPanel!CardKinds,
           ScanPanel!FrontUpload(i, card) \/ ScanPanel!BackUpload(i, card)
    PROVE  ScanKept'
<1>1. m6 \in Nat /\ m6 + 1 \in Nat
    BY DEF ScanKept, ScanPanel!ScansTyped
<1>2. CASE ScanPanel!FrontUpload(i, card)
  <2> DEFINE at == IF m1 = "aadhaar" THEN "frontProbe" ELSE "plainFront"
             scan == [at |-> at, card |-> card, spare |-> None]
  <2>1. m9[i].at = "free" /\ m9' = [m9 EXCEPT ![i] = scan]
      BY <1>2, Starts DEF ScanPanel!FrontUpload
  <2>2. /\ UNCHANGED <<m1, m3, m8, m12>>
        /\ m2' = None /\ m4' = None /\ m7' = FALSE /\ m6' = m6 + 1
      BY <1>2 DEF ScanPanel!FrontUpload
  <2>3. /\ scan \in OneScan /\ scan.card \in ScanPanel!CardKinds
        /\ scan.at \notin ScanPanel!BackStages
        /\ scan.at \notin {"frontOcr", "digits"}
        /\ scan.at # "plainFront" \/ m1 # "aadhaar"
        /\ scan.at # "plainBack"
      BY DEF OneScan, ScanPanel!Stages, ScanPanel!BackStages
  <2>4. Turns(m9[i].at) = 0 /\ Turns(scan.at) = 1
      BY <2>1 DEF Turns
  <2>5. /\ m12 \in BOOLEAN /\ m8 \in [id : ScanPanel!Numbers, addr : BOOLEAN]
        /\ {m2', m3} \subseteq ScanPanel!Scan \union {None}
      BY <2>2 DEF ScanKept, ScanPanel!ScansTyped
  <2> HIDE DEF scan
  <2>6. ScanTyped(i, scan)
      BY <1>1, <2>1, <2>2, <2>3, <2>4, <2>5 DEF ScanTyped
  <2>7. ScanTurns(i, scan)
      BY <1>1, <2>1, <2>2, <2>3, <2>4, <2>5 DEF ScanTurns
  <2>8. ScanReads(i, scan)
      BY <1>1, <2>1, <2>2, <2>3, <2>4, <2>5 DEF ScanReads
  <2> QED
      BY <2>3, <2>6, <2>7, <2>8, ScanKeeps
<1>3. CASE ScanPanel!BackUpload(i, card)
  <2> DEFINE at == IF m1 = "aadhaar" THEN "backProbe" ELSE "plainBack"
             scan == [at |-> at, card |-> card, spare |-> None]
  <2>1. m9[i].at = "free" /\ m9' = [m9 EXCEPT ![i] = scan]
      BY <1>3, Starts DEF ScanPanel!BackUpload
  <2>2. /\ UNCHANGED <<m1, m2, m4, m7, m8>>
        /\ m3' = None /\ m6' = m6 + 1
        /\ m12' = (m12 \/ ScanPanel!BackScans # {})
      BY <1>3 DEF ScanPanel!BackUpload
  <2>3. /\ scan \in OneScan /\ scan.card \in ScanPanel!CardKinds
        /\ scan.at \notin {"frontOcr", "digits", "plainFront"}
        /\ scan.at # "plainBack" \/ m1 # "aadhaar"
      BY DEF OneScan, ScanPanel!Stages, ScanPanel!BackStages
  <2>4. Turns(m9[i].at) = 0 /\ Turns(scan.at) = 1
      BY <2>1 DEF Turns
  <2>5. /\ m12 \in BOOLEAN /\ m7 \in BOOLEAN
        /\ m8 \in [id : ScanPanel!Numbers, addr : BOOLEAN]
        /\ {m2, m3'} \subseteq ScanPanel!Scan \union {None}
        /\ m4 \in ScanPanel!CardKinds \union {None}
      BY <2>2 DEF ScanKept, ScanPanel!ScansTyped
  <2>6. m12' \in BOOLEAN
      BY <2>2
  <2> HIDE DEF scan
  <2>7. ScanTyped(i, scan)
      BY <1>1, <2>1, <2>2, <2>3, <2>4, <2>5, <2>6 DEF ScanTyped
  <2>8. ScanTurns(i, scan)
      BY <1>1, <2>1, <2>2, <2>3, <2>4, <2>5, <2>6 DEF ScanTurns
  <2>9. ScanReads(i, scan)
      BY <1>1, <2>1, <2>2, <2>3, <2>4, <2>5, <2>6 DEF ScanReads
  <2> QED
      BY <2>3, <2>7, <2>8, <2>9, ScanKeeps
<1> QED
    BY <1>2, <1>3

LEMMA FallbackKeeps ==
    ASSUME ScanKept, NEW i \in 1..MaxScans, ScanPanel!triggerFrontOcrFallback(i)
    PROVE  ScanKept'
<1>1. /\ UNCHANGED <<m1, m2, m3, m7, m8, m12>>
    BY DEF ScanPanel!triggerFrontOcrFallback
<1>2. CASE m4 = None
  <2>1. UNCHANGED <<m4, m6, m9>>
      BY <1>2 DEF ScanPanel!triggerFrontOcrFallback
  <2> QED
      BY <1>1, <2>1
      DEF ScanKept, ScanPanel!ScansTyped, ScanPanel!AddressOfBack,
          ScanPanel!SpinnerHonest, ScanPanel!BackScans, ScanPanel!Face,
          ScanPanel!Awaited, ScanPanel!Spinning
<1>3. CASE m4 # None
  <2> DEFINE scan == [at |-> "fallback", card |-> m4, spare |-> None]
  <2>1. m9[i].at = "free" /\ m9' = [m9 EXCEPT ![i] = scan]
      BY <1>3, Starts DEF ScanPanel!triggerFrontOcrFallback
  <2>2. m4' = None /\ m6' = m6 + 1 /\ m6 \in Nat /\ m6' \in Nat
      BY <1>3 DEF ScanPanel!triggerFrontOcrFallback, ScanKept, ScanPanel!ScansTyped
  <2>3. scan \in OneScan /\ scan.card \in ScanPanel!CardKinds
      BY <1>3 DEF OneScan, ScanPanel!Stages, ScanKept, ScanPanel!ScansTyped
  <2>4. /\ scan.at \notin {"frontOcr", "digits", "plainFront", "plainBack"}
        /\ scan.at \notin ScanPanel!BackStages
      BY DEF ScanPanel!BackStages
  <2>5. Turns(m9[i].at) = 0 /\ Turns(scan.at) = 1
      BY <2>1 DEF Turns
  <2>6. /\ m12 \in BOOLEAN /\ m7 \in BOOLEAN
        /\ m8 \in [id : ScanPanel!Numbers, addr : BOOLEAN]
        /\ {m2, m3} \subseteq ScanPanel!Scan \union {None}
      BY DEF ScanKept, ScanPanel!ScansTyped
  <2>7. m8.addr => m8'.addr
      BY <1>1
  <2> HIDE DEF scan
  <2>8. ScanTyped(i, scan)
      BY <1>1, <2>1, <2>2, <2>3, <2>4, <2>5, <2>6, <2>7 DEF ScanTyped
  <2>9. ScanTurns(i, scan)
      BY <1>1, <2>1, <2>2, <2>3, <2>4, <2>5, <2>6, <2>7 DEF ScanTurns
  <2>10. ScanReads(i, scan)
      BY <1>1, <2>1, <2>2, <2>3, <2>4, <2>5, <2>6, <2>7 DEF ScanReads
  <2> QED
      BY <2>3, <2>8, <2>9, <2>10, ScanKeeps
<1> QED
    BY <1>2, <1>3

\* A scan that ends.
LEMMA DoneKeeps ==
    ASSUME ScanKept, NEW i \in 1..MaxScans,
           m9[i].at \notin {"free", "done", "digits", "frontOcr"},
           ScanPanel!Done(i), UNCHANGED <<m1, m7, m12>>,
           m8' \in [id : ScanPanel!Numbers, addr : BOOLEAN], m8.addr => m8'.addr,
           {m2', m3'} \subseteq ScanPanel!Scan \union {None},
           m4' \in ScanPanel!CardKinds \union {None},
           ~m12 /\ m1 = "aadhaar" =>
             /\ m3' = m3 \/ m9[i].at \in ScanPanel!BackStages
             /\ m2' = m2 \/ m2'.addr = FALSE
             /\ m3' = m3 \/ m7 = FALSE \/ (m3'.addr => m8'.addr)
    PROVE  ScanKept'
<1>1. ScanPanel!OverTask \in OneScan
    BY DEF ScanPanel!OverTask, OneScan, ScanPanel!Stages
<1>2. m9' = [m9 EXCEPT ![i] = ScanPanel!OverTask]
    BY DEF ScanPanel!Done
<1>3. m6 \in Nat /\ m12 \in BOOLEAN /\ m7 \in BOOLEAN
    BY DEF ScanKept, ScanPanel!ScansTyped
<1>4. Turns(m9[i].at) = 1 /\ Turns(ScanPanel!OverTask.at) = 0
    BY DEF Turns, ScanPanel!OverTask
<1>5. ScanTurns(i, ScanPanel!OverTask)
    BY <1>3, <1>4 DEF ScanPanel!Done, ScanTurns
<1>6. ScanTyped(i, ScanPanel!OverTask)
    BY <1>2, <1>3 DEF ScanTyped, ScanPanel!OverTask
<1>7. ScanReads(i, ScanPanel!OverTask)
    BY <1>3 DEF ScanReads, ScanPanel!OverTask, ScanPanel!BackStages
<1> QED
    BY <1>1, <1>5, <1>6, <1>7, ScanKeeps

LEMMA CardOfScan ==
    ASSUME ScanKept, NEW i \in 1..MaxScans, m9[i].at \notin {"free", "done"}
    PROVE  m9[i] \in OneScan /\ m9[i].card \in ScanPanel!CardKinds
    BY DEF ScanKept, ScanPanel!ScansTyped, OneScan

LEMMA PlainKeeps ==
    ASSUME ScanKept, NEW i \in 1..MaxScans, ScanPanel!PlainAnswered(i)
    PROVE  ScanKept'
<1>1. m9[i].at \in {"plainFront", "plainBack"} /\ m9[i].card \in ScanPanel!CardKinds
    BY CardOfScan DEF ScanPanel!PlainAnswered
<1>2. ~(~m12 /\ m1 = "aadhaar")
    BY <1>1 DEF ScanKept, ScanPanel!AddressOfBack
<1> DEFINE side == IF m9[i].at = "plainFront" THEN "front" ELSE "back"
<1>3. PICK r \in ScanPanel!parseIdDocument(ScanPanel!Cards[m9[i].card][side]) :
        /\ m2' = IF side = "front" THEN r ELSE m2
        /\ m3' = IF side = "back" THEN r ELSE m3
    BY DEF ScanPanel!PlainAnswered, ScanPanel!Face
<1>4. side \in ScanPanel!Sides
    BY DEF ScanPanel!Sides
<1> HIDE DEF side
<1>5. r \in ScanPanel!Scan
    BY <1>1, <1>3, <1>4, AnswersOfFaces
<1>6. /\ ScanPanel!Done(i) /\ UNCHANGED <<m1, m4, m7, m8, m12>>
    BY DEF ScanPanel!PlainAnswered
<1>7. /\ m8 \in [id : ScanPanel!Numbers, addr : BOOLEAN]
      /\ {m2, m3} \subseteq ScanPanel!Scan \union {None}
      /\ m4 \in ScanPanel!CardKinds \union {None}
    BY DEF ScanKept, ScanPanel!ScansTyped
<1>8. {m2', m3'} \subseteq ScanPanel!Scan \union {None}
    BY <1>3, <1>5, <1>7
<1> QED
    BY <1>1, <1>2, <1>6, <1>7, <1>8, DoneKeeps

\* A scan that goes on to its next stage.
LEMMA GoesOn ==
    ASSUME ScanKept, NEW i \in 1..MaxScans, NEW at, ScanPanel!At(i, at)
    PROVE  m9' = [m9 EXCEPT ![i] = [at |-> at, card |-> m9[i].card,
                                    spare |-> m9[i].spare]]
<1>1. m9[i] \in OneScan /\ m9 \in [1..MaxScans -> OneScan]
    BY DEF ScanKept, ScanPanel!ScansTyped, OneScan
<1>2. m9' = [m9 EXCEPT ![i] = [m9[i] EXCEPT !.at = at]]
    BY <1>1 DEF ScanPanel!At
<1>3. [m9[i] EXCEPT !.at = at]
        = [at |-> at, card |-> m9[i].card, spare |-> m9[i].spare]
    BY <1>1 DEF OneScan
<1> QED
    BY <1>2, <1>3

LEMMA FrontProbedKeeps ==
    ASSUME ScanKept, NEW i \in 1..MaxScans, ScanPanel!FrontProbed(i)
    PROVE  ScanKept'
<1>1. m9[i].at = "frontProbe" /\ m9[i].card \in ScanPanel!CardKinds
    BY CardOfScan DEF ScanPanel!FrontProbed
<1>2. UNCHANGED <<m1, m3, m7, m8, m12>>
    BY DEF ScanPanel!FrontProbed
<1>3. /\ m8 \in [id : ScanPanel!Numbers, addr : BOOLEAN]
      /\ {m2, m3} \subseteq ScanPanel!Scan \union {None}
      /\ m4 \in ScanPanel!CardKinds \union {None}
      /\ m7 \in BOOLEAN /\ m12 \in BOOLEAN /\ m6 \in Nat
    BY DEF ScanKept, ScanPanel!ScansTyped
<1>4. PICK r \in ScanPanel!Probe(ScanPanel!Cards[m9[i].card]["front"]) :
        \/ m2' = r /\ m4' = None /\ ScanPanel!Done(i)
        \/ /\ m4' = None /\ m2' = m2
           /\ \/ ScanPanel!Done(i)
              \/ ScanPanel!At(i, "rescan") /\ m6' = m6
        \/ m4' = m9[i].card /\ ScanPanel!Done(i) /\ m2' = m2
    BY DEF ScanPanel!FrontProbed, ScanPanel!Face
<1>5. r \in ScanPanel!Scan /\ r.addr = FALSE
  <2>1. "front" \in ScanPanel!Sides
      BY DEF ScanPanel!Sides
  <2> QED
      BY <1>1, <2>1, AnswersOfFaces
<1>6. /\ {m2', m3'} \subseteq ScanPanel!Scan \union {None}
      /\ m4' \in ScanPanel!CardKinds \union {None}
      /\ m2' = m2 \/ m2'.addr = FALSE
    BY <1>1, <1>2, <1>3, <1>4, <1>5
<1>7. CASE ScanPanel!Done(i)
    BY <1>1, <1>2, <1>3, <1>6, <1>7, DoneKeeps
<1>8. CASE ScanPanel!At(i, "rescan") /\ m6' = m6
  <2> DEFINE scan == [at |-> "rescan", card |-> m9[i].card, spare |-> m9[i].spare]
  <2>1. m9' = [m9 EXCEPT ![i] = scan]
      BY <1>8, GoesOn
  <2>2. scan \in OneScan /\ scan.card \in ScanPanel!CardKinds /\ scan.at = "rescan"
      BY <1>1, CardOfScan DEF OneScan, ScanPanel!Stages
  <2>3. Turns(m9[i].at) = 1 /\ Turns(scan.at) = 1
      BY <1>1 DEF Turns
  <2> HIDE DEF scan
  <2>4. ScanTyped(i, scan)
      BY <1>2, <1>3, <1>6, <2>1, <2>2 DEF ScanTyped
  <2>5. ScanTurns(i, scan)
      BY <1>3, <1>8, <2>3 DEF ScanTurns
  <2>6. ScanReads(i, scan)
      BY <1>2, <1>3, <1>6, <2>2 DEF ScanReads, ScanPanel!BackStages
  <2> QED
      BY <2>2, <2>4, <2>5, <2>6, ScanKeeps
<1> QED
    BY <1>4, <1>7, <1>8

LEMMA FrontReadKeeps ==
    ASSUME ScanKept, NEW i \in 1..MaxScans, ScanPanel!FrontRead(i)
    PROVE  ScanKept'
<1>1. m9[i].at \in {"rescan", "fallback"} /\ m9[i].card \in ScanPanel!CardKinds
    BY CardOfScan DEF ScanPanel!FrontRead
<1>2. UNCHANGED <<m1, m3, m4, m7, m12>> /\ ScanPanel!Done(i)
    BY DEF ScanPanel!FrontRead
<1>3. /\ m8 \in [id : ScanPanel!Numbers, addr : BOOLEAN]
      /\ {m2, m3} \subseteq ScanPanel!Scan \union {None}
      /\ m4 \in ScanPanel!CardKinds \union {None}
    BY DEF ScanKept, ScanPanel!ScansTyped
<1>4. PICK r \in ScanPanel!parseIdDocument(ScanPanel!Cards[m9[i].card]["front"]) :
        m2' = r /\ ScanPanel!FillNumber(m7 /\ r.id = "full")
    BY DEF ScanPanel!FrontRead, ScanPanel!Face
<1>5. r \in ScanPanel!Scan /\ r.addr = FALSE
  <2>1. "front" \in ScanPanel!Sides
      BY DEF ScanPanel!Sides
  <2> QED
      BY <1>1, <2>1, AnswersOfFaces
<1>6. m8' \in [id : ScanPanel!Numbers, addr : BOOLEAN] /\ (m8.addr => m8'.addr)
    BY <1>3, <1>4 DEF ScanPanel!FillNumber, ScanPanel!Numbers
<1> QED
    BY <1>1, <1>2, <1>3, <1>4, <1>5, <1>6, DoneKeeps

LEMMA BackQrKeeps ==
    ASSUME ScanKept, NEW i \in 1..MaxScans, m9[i].at = "backProbe",
           NEW r \in ScanPanel!Scan, r # None,
           r.addr = ScanPanel!Cards[m9[i].card]["back"].qrAddr,
           ScanPanel!BackQr(i, r), UNCHANGED <<m1, m7, m12>>
    PROVE  ScanKept'
<1>1. m9[i] \in OneScan /\ m9[i].card \in ScanPanel!CardKinds
    BY CardOfScan
<1>2. /\ m8 \in [id : ScanPanel!Numbers, addr : BOOLEAN]
      /\ m2 \in ScanPanel!Scan \union {None}
      /\ m4 \in ScanPanel!CardKinds \union {None}
      /\ m7 \in BOOLEAN /\ m12 \in BOOLEAN /\ m6 \in Nat
    BY DEF ScanKept, ScanPanel!ScansTyped
<1> DEFINE full == "full" \in {r.id, IF m2 = None THEN "none" ELSE m2.id}
<1>3. /\ m3' = r /\ m4' = None /\ m2' = m2
      /\ m8' = [id |-> IF m7 /\ full THEN "full" ELSE m8.id,
                addr |-> m8.addr \/ (m7 /\ r.addr)]
      /\ m6' = IF m6 = 0 THEN 0 ELSE m6 - 1
    BY DEF ScanPanel!BackQr
<1>4. /\ full => m9' = [m9 EXCEPT ![i] = ScanPanel!OverTask]
      /\ ~full => m9' = [m9 EXCEPT ![i] = ScanPanel!WithFront(i, "digits")]
    BY DEF ScanPanel!BackQr
<1> HIDE DEF full
<1>5. m8' \in [id : ScanPanel!Numbers, addr : BOOLEAN]
  <2>1. r.addr \in BOOLEAN /\ m8.addr \in BOOLEAN /\ m8.id \in ScanPanel!Numbers
      BY <1>2 DEF ScanPanel!Scan
  <2>2. (IF m7 /\ full THEN "full" ELSE m8.id) \in ScanPanel!Numbers
      BY <2>1 DEF ScanPanel!Numbers
  <2> QED
      BY <1>2, <1>3, <2>1, <2>2
<1>6. m7 => (r.addr => m8'.addr)
    BY <1>3
<1>7. CASE full
  <2>1. ScanPanel!Done(i)
      BY <1>3, <1>4, <1>7 DEF ScanPanel!Done
  <2>2. /\ m9[i].at \in ScanPanel!BackStages
        /\ m9[i].at \notin {"free", "done", "digits", "frontOcr"}
      BY DEF ScanPanel!BackStages
  <2>3. m8.addr => m8'.addr
      BY <1>3
  <2>4. {m2', m3'} \subseteq ScanPanel!Scan \union {None}
      BY <1>2, <1>3
  <2>5. m4' \in ScanPanel!CardKinds \union {None}
      BY <1>3
  <2>6. m2' = m2 /\ (m7 = FALSE \/ (m3'.addr => m8'.addr))
      BY <1>2, <1>3, <1>6
  <2> QED
      BY <1>5, <2>1, <2>2, <2>3, <2>4, <2>5, <2>6, DoneKeeps
<1>8. CASE ~full
  <2> DEFINE scan == [at |-> "digits", card |-> m9[i].card, spare |-> m4]
  <2>2. m9' = [m9 EXCEPT ![i] = scan]
      BY <1>4, <1>8 DEF ScanPanel!WithFront
  <2>3. /\ scan \in OneScan /\ scan.card \in ScanPanel!CardKinds
        /\ scan.at = "digits" /\ scan.card = m9[i].card
      BY <1>1, <1>2 DEF OneScan, ScanPanel!Stages, ScanPanel!BackStages
  <2>4. Turns(m9[i].at) = 1 /\ Turns(scan.at) = 0
      BY DEF Turns
  <2> HIDE DEF scan
  <2>5. ScanTyped(i, scan)
      BY <1>2, <1>3, <1>5, <2>2, <2>3 DEF ScanTyped
  <2>6. ScanTurns(i, scan)
      BY <1>2, <1>3, <2>4 DEF ScanTurns
  <2>7. ScanReads(i, scan)
    <3>1. m9[i].at \in ScanPanel!BackStages
        BY DEF ScanPanel!BackStages
    <3>2. m7' = FALSE \/ (m3'.addr => m8'.addr)
        BY <1>2, <1>3, <1>6
    <3> QED
        BY <1>2, <1>3, <2>3, <3>1, <3>2 DEF ScanReads
  <2> QED
      BY <2>3, <2>5, <2>6, <2>7, ScanKeeps
<1> QED
    BY <1>7, <1>8

LEMMA BackTextKeeps ==
    ASSUME ScanKept, NEW i \in 1..MaxScans, m9[i].at = "backProbe",
           ScanPanel!BackText(i), UNCHANGED <<m1, m7, m12>>
    PROVE  ScanKept'
<1>1. m9[i] \in OneScan /\ m9[i].card \in ScanPanel!CardKinds
    BY CardOfScan
<1>2. /\ m8 \in [id : ScanPanel!Numbers, addr : BOOLEAN]
      /\ {m2, m3} \subseteq ScanPanel!Scan \union {None}
      /\ m4 \in ScanPanel!CardKinds \union {None}
      /\ m7 \in BOOLEAN /\ m12 \in BOOLEAN /\ m6 \in Nat
    BY DEF ScanKept, ScanPanel!ScansTyped
<1>3. UNCHANGED <<m2, m3, m8>> /\ m4' \in {m4, None}
    BY DEF ScanPanel!BackText
<1>4. \/ ScanPanel!Done(i)
      \/ ScanPanel!At(i, "addrOcr") /\ m6' = m6
      \/ ScanPanel!At(i, "backOcr") /\ m6' = m6
      \/ /\ m4 # None /\ m6' = m6 + 1
         /\ m9' = [m9 EXCEPT ![i] = ScanPanel!WithFront(i, "frontOcr")]
    BY DEF ScanPanel!BackText
<1>5. m9[i].at \in ScanPanel!BackStages
    BY DEF ScanPanel!BackStages
<1>6. CASE ScanPanel!Done(i)
    BY <1>2, <1>3, <1>6, DoneKeeps
<1>7. ASSUME NEW scan \in OneScan, scan.at \in {"addrOcr", "backOcr", "frontOcr"},
             scan.card \in ScanPanel!CardKinds,
             scan.at = "frontOcr" => scan.spare \in ScanPanel!CardKinds,
             m9' = [m9 EXCEPT ![i] = scan],
             m6' = IF scan.at = "frontOcr" THEN m6 + 1 ELSE m6
      PROVE  ScanKept'
  <2>1. Turns(m9[i].at) = 1 /\ Turns(scan.at) = IF scan.at = "frontOcr" THEN 2 ELSE 1
      BY <1>7 DEF Turns
  <2>2. ScanTyped(i, scan)
      BY <1>2, <1>3, <1>7 DEF ScanTyped
  <2>3. ScanTurns(i, scan)
      BY <1>2, <1>7, <2>1 DEF ScanTurns
  <2>4. ScanReads(i, scan)
      BY <1>2, <1>3, <1>5, <1>7 DEF ScanReads
  <2> QED
      BY <2>2, <2>3, <2>4, ScanKeeps
<1>8. ASSUME NEW at \in {"addrOcr", "backOcr"}, ScanPanel!At(i, at), m6' = m6
      PROVE  ScanKept'
  <2> DEFINE scan == [at |-> at, card |-> m9[i].card, spare |-> m9[i].spare]
  <2>1. m9' = [m9 EXCEPT ![i] = scan]
      BY <1>8, GoesOn
  <2>2. /\ scan \in OneScan /\ scan.card \in ScanPanel!CardKinds
        /\ scan.at \in {"addrOcr", "backOcr"}
      BY <1>1 DEF OneScan, ScanPanel!Stages, ScanPanel!BackStages
  <2> HIDE DEF scan
  <2> QED
      BY <1>7, <1>8, <2>1, <2>2
<1>9. CASE /\ m4 # None /\ m6' = m6 + 1
           /\ m9' = [m9 EXCEPT ![i] = ScanPanel!WithFront(i, "frontOcr")]
  <2> DEFINE scan == [at |-> "frontOcr", card |-> m9[i].card, spare |-> m4]
  <2>2. m9' = [m9 EXCEPT ![i] = scan]
      BY <1>9 DEF ScanPanel!WithFront
  <2>3. /\ scan \in OneScan /\ scan.card \in ScanPanel!CardKinds
        /\ scan.spare \in ScanPanel!CardKinds /\ scan.at = "frontOcr"
      BY <1>1, <1>2, <1>9 DEF OneScan, ScanPanel!Stages, ScanPanel!BackStages
  <2> HIDE DEF scan
  <2> QED
      BY <1>7, <1>9, <2>2, <2>3
<1> QED
    BY <1>4, <1>6, <1>8, <1>9

LEMMA BackProbedKeeps ==
    ASSUME ScanKept, NEW i \in 1..MaxScans, ScanPanel!BackProbed(i)
    PROVE  ScanKept'
<1>1. m9[i].at = "backProbe" /\ m9[i].card \in ScanPanel!CardKinds
    BY CardOfScan DEF ScanPanel!BackProbed
<1>2. UNCHANGED <<m1, m7, m12>>
    BY DEF ScanPanel!BackProbed
<1>3. PICK r \in ScanPanel!Probe(ScanPanel!Cards[m9[i].card]["back"]) :
        IF r.saysQr /\ r.autofill THEN ScanPanel!BackQr(i, r) ELSE ScanPanel!BackText(i)
    BY DEF ScanPanel!BackProbed, ScanPanel!Face
<1>4. /\ r \in ScanPanel!Scan /\ r # None
      /\ r.saysQr /\ r.autofill => r.addr = ScanPanel!Cards[m9[i].card]["back"].qrAddr
    BY <1>1, ProbeOfBack
<1>5. CASE r.saysQr /\ r.autofill
    BY <1>1, <1>2, <1>3, <1>4, <1>5, BackQrKeeps
<1>6. CASE ~(r.saysQr /\ r.autofill)
    BY <1>1, <1>2, <1>3, <1>6, BackTextKeeps
<1> QED
    BY <1>5, <1>6

LEMMA DigitsReadKeeps ==
    ASSUME ScanKept, NEW i \in 1..MaxScans, ScanPanel!DigitsRead(i)
    PROVE  ScanKept'
<1>1. m9[i].at = "digits" /\ m9[i].card \in ScanPanel!CardKinds
    BY CardOfScan DEF ScanPanel!DigitsRead
<1>2. /\ UNCHANGED <<m1, m2, m4, m6, m7, m12>>
      /\ m9' = [m9 EXCEPT ![i] = ScanPanel!OverTask]
    BY DEF ScanPanel!DigitsRead
<1>3. /\ m8 \in [id : ScanPanel!Numbers, addr : BOOLEAN]
      /\ {m2, m3} \subseteq ScanPanel!Scan \union {None}
      /\ m4 \in ScanPanel!CardKinds \union {None}
      /\ m7 \in BOOLEAN /\ m12 \in BOOLEAN /\ m6 \in Nat
    BY DEF ScanKept, ScanPanel!ScansTyped
<1> DEFINE r == [ScanPanel!QrOf(ScanPanel!Cards[m9[i].card]["back"])
                   EXCEPT !.id = "full"]
<1>4. \/ m3' = r /\ ScanPanel!FillNumber(TRUE)
      \/ m3' = m3 /\ m8' = m8
    BY DEF ScanPanel!DigitsRead, ScanPanel!Face
<1>5. /\ r \in ScanPanel!Scan /\ r # None
      /\ r.addr = ScanPanel!Cards[m9[i].card]["back"].qrAddr
    BY <1>1, DigitsOfQr
<1> HIDE DEF r
<1>6. m8' \in [id : ScanPanel!Numbers, addr : BOOLEAN] /\ m8'.addr = m8.addr
    BY <1>3, <1>4 DEF ScanPanel!FillNumber, ScanPanel!Numbers
<1>7. /\ ScanPanel!OverTask \in OneScan /\ ScanPanel!OverTask.at = "done"
      /\ Turns(m9[i].at) = 0 /\ Turns(ScanPanel!OverTask.at) = 0
    BY <1>1 DEF ScanPanel!OverTask, OneScan, ScanPanel!Stages, Turns
<1>8. ~m12 /\ m1 = "aadhaar" =>
        m3 # None /\ m3.addr = ScanPanel!Cards[m9[i].card]["back"].qrAddr
    BY <1>1 DEF ScanKept, ScanPanel!AddressOfBack, ScanPanel!Face
<1>9. {m2', m3'} \subseteq ScanPanel!Scan \union {None}
    BY <1>2, <1>3, <1>4, <1>5
<1>10. ScanTyped(i, ScanPanel!OverTask)
    BY <1>2, <1>3, <1>6, <1>7, <1>9 DEF ScanTyped
<1>11. ScanTurns(i, ScanPanel!OverTask)
    BY <1>2, <1>3, <1>7 DEF ScanTurns
<1>12. ScanReads(i, ScanPanel!OverTask)
  <2> SUFFICES ASSUME ~m12, m1 = "aadhaar"
               PROVE  \/ m7' = FALSE \/ m3' = None \/ (m3'.addr => m8'.addr)
      BY <1>1, <1>2, <1>7 DEF ScanReads, ScanPanel!BackStages
  <2>1. m7 => (m3.addr => m8.addr)
      BY <1>8 DEF ScanKept, ScanPanel!AddressOfBack
  <2>2. m3' = m3 \/ m3'.addr = m3.addr
      BY <1>4, <1>5, <1>8
  <2> QED
      BY <1>2, <1>3, <1>6, <2>1, <2>2
<1> QED
    BY <1>7, <1>10, <1>11, <1>12, ScanKeeps

LEMMA AddressReadKeeps ==
    ASSUME ScanKept, NEW i \in 1..MaxScans, ScanPanel!AddressRead(i)
    PROVE  ScanKept'
<1>1. m9[i].at = "addrOcr" /\ m9[i].card \in ScanPanel!CardKinds
    BY CardOfScan DEF ScanPanel!AddressRead
<1>2. UNCHANGED <<m1, m2, m4, m7, m12>> /\ ScanPanel!Done(i)
    BY DEF ScanPanel!AddressRead
<1>3. /\ m8 \in [id : ScanPanel!Numbers, addr : BOOLEAN]
      /\ {m2, m3} \subseteq ScanPanel!Scan \union {None}
      /\ m4 \in ScanPanel!CardKinds \union {None}
      /\ m7 \in BOOLEAN
    BY DEF ScanKept, ScanPanel!ScansTyped
<1>4. PICK r \in ScanPanel!parseIdDocument(ScanPanel!Cards[m9[i].card]["back"]) :
        \/ m3' = r /\ ScanPanel!FillAddress(r)
        \/ m3' = m3 /\ m8' = m8
    BY DEF ScanPanel!AddressRead, ScanPanel!Face
<1>5. r \in ScanPanel!Scan
  <2>1. "back" \in ScanPanel!Sides
      BY DEF ScanPanel!Sides
  <2> QED
      BY <1>1, <2>1, AnswersOfFaces
<1>6. /\ m8' \in [id : ScanPanel!Numbers, addr : BOOLEAN] /\ (m8.addr => m8'.addr)
      /\ m3' = m3 \/ m7 = FALSE \/ (m3'.addr => m8'.addr)
    BY <1>3, <1>4 DEF ScanPanel!FillAddress
<1>7. {m2', m3'} \subseteq ScanPanel!Scan \union {None}
    BY <1>2, <1>3, <1>4, <1>5
<1>8. m9[i].at \in ScanPanel!BackStages
    BY <1>1 DEF ScanPanel!BackStages
<1> QED
    BY <1>1, <1>2, <1>3, <1>6, <1>7, <1>8, DoneKeeps

LEMMA BackReadKeeps ==
    ASSUME ScanKept, NEW i \in 1..MaxScans, ScanPanel!BackRead(i)
    PROVE  ScanKept'
<1>1. m9[i].at = "backOcr" /\ m9[i].card \in ScanPanel!CardKinds
    BY CardOfScan DEF ScanPanel!BackRead
<1>2. UNCHANGED <<m1, m2, m7, m12>> /\ ScanPanel!Done(i) /\ m4' = None
    BY DEF ScanPanel!BackRead
<1>3. /\ m8 \in [id : ScanPanel!Numbers, addr : BOOLEAN]
      /\ {m2, m3} \subseteq ScanPanel!Scan \union {None}
      /\ m7 \in BOOLEAN
    BY DEF ScanKept, ScanPanel!ScansTyped
<1>4. PICK r \in ScanPanel!parseIdDocument(ScanPanel!Cards[m9[i].card]["back"]) :
        m3' = r /\ ScanPanel!FillAddress(r)
    BY DEF ScanPanel!BackRead, ScanPanel!Face
<1>5. r \in ScanPanel!Scan
  <2>1. "back" \in ScanPanel!Sides
      BY DEF ScanPanel!Sides
  <2> QED
      BY <1>1, <2>1, AnswersOfFaces
<1>6. /\ m8' \in [id : ScanPanel!Numbers, addr : BOOLEAN] /\ (m8.addr => m8'.addr)
      /\ m7 = FALSE \/ (m3'.addr => m8'.addr)
    BY <1>3, <1>4 DEF ScanPanel!FillAddress
<1>7. {m2', m3'} \subseteq ScanPanel!Scan \union {None}
    BY <1>2, <1>3, <1>4, <1>5
<1>8. m9[i].at \in ScanPanel!BackStages
    BY <1>1 DEF ScanPanel!BackStages
<1> QED
    BY <1>1, <1>2, <1>6, <1>7, <1>8, DoneKeeps

LEMMA FrontFirstKeeps ==
    ASSUME ScanKept, NEW i \in 1..MaxScans, ScanPanel!FrontFirst(i)
    PROVE  ScanKept'
<1>1. /\ m9[i].at = "frontOcr" /\ m9[i] \in OneScan
      /\ {m9[i].card, m9[i].spare} \subseteq ScanPanel!CardKinds
    BY CardOfScan DEF ScanPanel!FrontFirst, ScanKept, ScanPanel!ScansTyped
<1>2. /\ UNCHANGED <<m1, m3, m4, m7, m8, m12>> /\ ScanPanel!At(i, "backOcr")
      /\ m6' = IF m6 = 0 THEN 0 ELSE m6 - 1
    BY DEF ScanPanel!FrontFirst
<1>3. /\ m8 \in [id : ScanPanel!Numbers, addr : BOOLEAN]
      /\ {m2, m3} \subseteq ScanPanel!Scan \union {None}
      /\ m4 \in ScanPanel!CardKinds \union {None}
      /\ m7 \in BOOLEAN /\ m12 \in BOOLEAN /\ m6 \in Nat
    BY DEF ScanKept, ScanPanel!ScansTyped
<1>4. m2' \in ScanPanel!parseIdDocument(ScanPanel!Cards[m9[i].spare]["front"])
    BY DEF ScanPanel!FrontFirst
<1>5. m2' \in ScanPanel!Scan /\ m2'.addr = FALSE
  <2>1. "front" \in ScanPanel!Sides
      BY DEF ScanPanel!Sides
  <2> QED
      BY <1>1, <1>4, <2>1, AnswersOfFaces
<1> DEFINE scan == [at |-> "backOcr", card |-> m9[i].card, spare |-> m9[i].spare]
<1>6. m9' = [m9 EXCEPT ![i] = scan]
    BY <1>2, GoesOn
<1>7. /\ scan \in OneScan /\ scan.card \in ScanPanel!CardKinds
      /\ scan.at = "backOcr"
    BY <1>1 DEF OneScan, ScanPanel!Stages, ScanPanel!BackStages
<1>8. Turns(m9[i].at) = 2 /\ Turns(scan.at) = 1
    BY <1>1 DEF Turns
<1>9. m9[i].at \in ScanPanel!BackStages
    BY <1>1 DEF ScanPanel!BackStages
<1> HIDE DEF scan
<1>10. ScanTyped(i, scan)
    BY <1>2, <1>3, <1>5, <1>6, <1>7 DEF ScanTyped
<1>11. ScanTurns(i, scan)
    BY <1>2, <1>3, <1>8 DEF ScanTurns
<1>12. ScanReads(i, scan)
    BY <1>2, <1>3, <1>5, <1>7, <1>9 DEF ScanReads
<1> QED
    BY <1>7, <1>10, <1>11, <1>12, ScanKeeps

LEMMA ScanNext == ScanKept /\ [ScanPanel!Next]_ScanPanel!scanVars => ScanKept'
<1> SUFFICES ASSUME ScanKept, [ScanPanel!Next]_ScanPanel!scanVars
             PROVE  ScanKept'
    OBVIOUS
<1>1. ASSUME NEW i \in 1..MaxScans, ScanPanel!Answer(i)
      PROVE  ScanKept'
    BY <1>1, PlainKeeps, FrontProbedKeeps, FrontReadKeeps, BackProbedKeeps,
       DigitsReadKeeps, AddressReadKeeps, FrontFirstKeeps, BackReadKeeps
    DEF ScanPanel!Answer
<1>2. ASSUME NEW i \in 1..MaxScans, ScanPanel!triggerFrontOcrFallback(i)
      PROVE  ScanKept'
    BY <1>2, FallbackKeeps
<1>3. ASSUME NEW i \in 1..MaxScans, NEW side \in ScanPanel!Sides,
             NEW card \in ScanPanel!CardKinds, ScanPanel!OpenEditor(i, side, card)
      PROVE  ScanKept'
    BY <1>3, UploadKeeps DEF ScanPanel!OpenEditor
<1>4. CASE UNCHANGED <<m1, m2, m3, m4, m6, m7, m8, m9, m12>>
    BY <1>4
    DEF ScanKept, ScanPanel!ScansTyped, ScanPanel!AddressOfBack,
        ScanPanel!SpinnerHonest, ScanPanel!BackScans, ScanPanel!Face,
        ScanPanel!Awaited, ScanPanel!Spinning
<1>5. CASE \/ \E side \in ScanPanel!Sides :
                ScanPanel!PickFile(side) \/ ScanPanel!Saved(side)
           \/ \E confirmed \in BOOLEAN : ScanPanel!CloseEditor(confirmed)
           \/ UNCHANGED ScanPanel!scanVars
    BY <1>4, <1>5
    DEF ScanPanel!PickFile, ScanPanel!Saved, ScanPanel!CloseEditor,
        ScanPanel!scanVars
<1> QED
    BY <1>1, <1>2, <1>3, <1>5, AcceptKeeps, ChangeTypeKeeps DEF ScanPanel!Next

\* What the banner offers comes from the back, whose address the form has.
LEMMA AddressKept == ScanKept => ScanPanel!AddressKeepsUp
<1> SUFFICES ASSUME ScanKept, ~m12, m1 = "aadhaar", m7,
                    ScanPanel!unifiedResult # None, ScanPanel!unifiedResult.addr
             PROVE  m8.addr
    BY DEF ScanPanel!AddressKeepsUp
<1>1. (m2 # None /\ m2.addr) \/ (m3 # None /\ m3.addr)
    BY UnifiedOfFaces DEF ScanKept
<1> QED
    BY <1>1 DEF ScanKept, ScanPanel!AddressOfBack

-----------------------------------------------------------------------------
(* The theorems about drafts and scans *)

Scanned == screen = "scan" => ScanKept

\* For any number of scans, of either face and of any of the cards, answered in
\* any order: the spinner turns for no more scans than are awaited, and an
\* address that was read after the autofill was accepted is on the form.
THEOREM ScanHonestHolds == MCSpec => []ScanHonest
<1>1. MCInit => Scanned
    BY ScanInit DEF MCInit, Scanned, ScanKept
<1>2. Scanned /\ [MCNext]_mcVars => Scanned'
    BY StepOfScreen, ScanNext DEF Scanned
<1>3. Scanned => ScanHonest
    BY AddressKept DEF Scanned, ScanKept, ScanHonest
<1> QED
    BY <1>1, <1>2, <1>3, PTL DEF MCSpec

Held == screen = "drafts" => SavedDrafts!HeldByHotel

LEMMA HeldInit == MCInit => Held
    BY DraftsInit DEF MCInit, Held

LEMMA HeldNext == Held /\ [MCNext]_mcVars => Held'
    BY StepOfScreen, DraftsNext DEF Held

\* For any number of tabs, hotels and drafts, and wherever the hotel is
\* switched while a draft is saved: a draft is stored for the hotel whose form
\* it was saved from, and one of before for a single hotel.
THEOREM DraftsStayInHotelHolds == MCSpec => []DraftsStayInHotel
<1>1. Held => DraftsStayInHotel
    BY DraftsHeld DEF Held, DraftsStayInHotel
<1> QED
    BY <1>1, HeldInit, HeldNext, PTL DEF MCSpec

\* A step that rewrites the list of a hotel deletes no photograph of a draft
\* that stays in it, also when drafts share one.
THEOREM SurvivorsKeepPhotosHolds == MCSpec => SurvivorsKeepPhotos
<1>1. Held /\ [MCNext]_mcVars =>
        [screen = "drafts" => SavedDrafts!SurvivorsKept]_mcVars
    BY StepOfScreen, SurvivorsNext DEF Held
<1> QED
    BY <1>1, HeldInit, HeldNext, PTL DEF MCSpec, SurvivorsKeepPhotos

Own ==
    /\ screen = "booking guest" =>
         GuestCard!TypeOK /\ GuestCard!OwnDetails /\ GuestCard!FormIsGuests
    /\ screen = "co-guests" => CoGuestCards!TypeOK /\ CoGuestCards!CardsInSlots

\* For any guests and any number of cards, however they are added, removed,
\* searched for and edited: as long as the desk waits for its answers, a profile is
\* given no details of another guest, and the check-in has the co-guests and the
\* Form C details that the cards show.
THEOREM OwnDetailsHolds == MCSpec => []OwnDetails
<1>1. MCInit => Own
    BY BookingGuestInit, CoGuestsInit DEF MCInit, Own
<1>2. Own /\ [MCNext]_mcVars => Own'
    BY StepOfScreen, BookingGuestType, BookingGuestNext, CoGuestsType, CoGuestsNext DEF Own
<1>3. Own => OwnDetails
    BY PartyShown DEF Own, OwnDetails
<1> QED
    BY <1>1, <1>2, <1>3, PTL DEF MCSpec
=============================================================================
