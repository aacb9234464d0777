------------------------------ MODULE Voucher ------------------------------
(***************************************************************************)
(* The voucher of an advance booking, as the desk hands it to the guest    *)
(* (frontend/src/components/stay/advance-booking-voucher-modal.tsx): it is *)
(* copied, downloaded, shared, sent by WhatsApp or printed.  A print waits *)
(* for the style sheets of its frame, at most half a second, and borrows   *)
(* the title of the document for the name of the file.                     *)
(***************************************************************************)
EXTENDS Naturals, FiniteSets

CONSTANTS Sheets,      \* the style sheets of the application
          MaxJobs,     \* bounds the prints
          MaxSends     \* bounds the downloads and messages

VARIABLES
    title,     \* of the document: "app" or "voucher"
    jobs,      \* [1..MaxJobs -> print job]
    started,   \* how many of them have started
    fetches,   \* requests for the PDF under way: what each is for
    saved,     \* files saved so far
    shared,    \* files handed to the share sheet
    chats,     \* messages opened in WhatsApp
    asking,    \* TRUE while the dialog asks for a phone number
    claimed,   \* files the desk was told of
    told,      \* failures it was told of
    sends      \* downloads, shares and messages asked for

jobVars == <<title, jobs, started>>
sendVars == <<fetches, saved, shared, chats, asking, claimed, told, sends>>
vars == <<jobVars, sendVars>>

Job == [phase : {"none", "loading", "due", "printed", "over"},
        pending : SUBSET Sheets, timer : BOOLEAN,
        prints : 0..3, prev : {"app", "voucher"}]
NoJob == [phase |-> "none", pending |-> {}, timer |-> FALSE,
          prints |-> 0, prev |-> "app"]
Purposes == {"download", "whatsapp", "share"}

Init ==
    /\ title = "app"
    /\ jobs = [j \in 1..MaxJobs |-> NoJob] /\ started = 0
    /\ fetches = {} /\ saved = 0 /\ shared = 0 /\ chats = 0
    /\ asking = FALSE /\ claimed = 0 /\ told = 0 /\ sends = 0

-----------------------------------------------------------------------------
(* Printing.                                                               *)

\* The frame is written and its style sheets begin to load, if it has any.
handlePrint ==
    /\ started < MaxJobs
    /\ started' = started + 1
    /\ \E sheets \in {{}, Sheets} :
         jobs' = [jobs EXCEPT ![started'] =
                    [phase |-> IF sheets = {} THEN "due" ELSE "loading",
                     pending |-> sheets, timer |-> sheets # {},
                     prints |-> 0, prev |-> title]]
    /\ title' = "voucher"
    /\ UNCHANGED sendVars

\* onLinkDone: a sheet has loaded, or failed; the last one lets the frame
\* print, unless the timer did.
SheetDone(j, s) ==
    /\ s \in jobs[j].pending
    /\ jobs' = [jobs EXCEPT ![j].pending = @ \ {s},
                            ![j].phase = IF jobs[j].pending = {s} /\ @ = "loading"
                                         THEN "due" ELSE @]
    /\ UNCHANGED <<title, started, sendVars>>

\* The timer does not wait for the sheets any longer.
SheetsLate(j) ==
    /\ jobs[j].timer
    /\ jobs' = [jobs EXCEPT ![j].timer = FALSE,
                            ![j].phase = IF @ = "loading" THEN "due" ELSE @]
    /\ UNCHANGED <<title, started, sendVars>>

doPrint(j) ==
    /\ jobs[j].phase = "due" /\ jobs[j].prints < 3
    /\ jobs' = [jobs EXCEPT ![j].phase = "printed", ![j].prints = @ + 1]
    /\ UNCHANGED <<title, started, sendVars>>

\* A second and a half later the frame goes and the title is put back to what
\* it was when this job started.
PutBack(j) ==
    /\ jobs[j].phase = "printed"
    /\ jobs' = [jobs EXCEPT ![j].phase = "over"]
    /\ title' = jobs[j].prev
    /\ UNCHANGED <<started, sendVars>>

-----------------------------------------------------------------------------
(* The file and the message.                                               *)

Ask(purpose) ==
    /\ sends < MaxSends /\ ~asking /\ purpose \notin fetches
    /\ sends' = sends + 1
    /\ fetches' = fetches \union {purpose}

handleDownloadPdf ==
    /\ Ask("download")
    /\ UNCHANGED <<jobVars, saved, shared, chats, asking, claimed, told>>

handleShareNative ==
    /\ Ask("share")
    /\ UNCHANGED <<jobVars, saved, shared, chats, asking, claimed, told>>

\* The message opens at once, or the dialog asks for a number; the file is
\* fetched behind it, and is spoken of as downloaded.
handleWhatsApp(hasPhone) ==
    /\ Ask("whatsapp")
    /\ IF hasPhone
       THEN /\ chats' = chats + 1 /\ claimed' = claimed + 1
            /\ UNCHANGED asking
       ELSE /\ asking' = TRUE
            /\ UNCHANGED <<chats, claimed>>
    /\ UNCHANGED <<jobVars, saved, shared, told>>

PhoneGiven(given) ==
    /\ asking
    /\ asking' = FALSE
    /\ chats' = IF given THEN chats + 1 ELSE chats
    /\ UNCHANGED <<jobVars, fetches, saved, shared, claimed, told, sends>>

\* A failure is told, but not that of the file behind a message.
FetchFailed(purpose) ==
    /\ purpose \in fetches
    /\ fetches' = fetches \ {purpose}
    /\ told' = IF purpose = "whatsapp" THEN told ELSE told + 1
    /\ UNCHANGED <<jobVars, saved, shared, chats, asking, claimed, sends>>

\* A file that is fetched is saved, and only a download says so.
Fetched(purpose) ==
    /\ purpose \in fetches \ {"share"}
    /\ fetches' = fetches \ {purpose}
    /\ saved' = saved + 1
    /\ claimed' = IF purpose = "download" THEN claimed + 1 ELSE claimed
    /\ UNCHANGED <<jobVars, shared, chats, asking, told, sends>>

\* A device that cannot share the file saves it and opens the message.
FetchedToShare(canShare, hasPhone) ==
    /\ "share" \in fetches /\ ~asking
    /\ fetches' = fetches \ {"share"}
    /\ IF canShare
       THEN shared' = shared + 1 /\ UNCHANGED <<saved, chats, asking>>
       ELSE /\ saved' = saved + 1
            /\ IF hasPhone THEN chats' = chats + 1 /\ UNCHANGED asking
               ELSE asking' = TRUE /\ UNCHANGED chats
            /\ UNCHANGED shared
    /\ UNCHANGED <<jobVars, claimed, told, sends>>

Next ==
    \/ handlePrint
    \/ \E j \in 1..MaxJobs :
         \/ \E s \in Sheets : SheetDone(j, s)
         \/ SheetsLate(j)
         \/ doPrint(j)
         \/ PutBack(j)
    \/ handleDownloadPdf
    \/ handleShareNative
    \/ \E b \in BOOLEAN : handleWhatsApp(b) \/ PhoneGiven(b)
    \/ \E p \in Purposes : FetchFailed(p) \/ Fetched(p)
    \/ \E b, c \in BOOLEAN : FetchedToShare(b, c)

Spec == Init /\ [][Next]_vars

-----------------------------------------------------------------------------
TypeOK ==
    /\ title \in {"app", "voucher"}
    /\ jobs \in [1..MaxJobs -> Job] /\ started \in 0..MaxJobs
    /\ fetches \subseteq Purposes /\ asking \in BOOLEAN
    /\ \A n \in {saved, shared, chats, claimed, told, sends} : n \in 0..MaxSends

\* However the style sheets race with the timer, a click prints once.
PrintsOnce == \A j \in 1..MaxJobs : jobs[j].prints <= 1

\* Why: a job that waits for its sheets, or is due, has not printed.
WaitingUnprinted ==
    /\ title \in {"app", "voucher"} /\ jobs \in [1..MaxJobs -> Job]
    /\ \A j \in 1..MaxJobs :
         jobs[j].prints <= IF jobs[j].phase \in {"printed", "over"} THEN 1 ELSE 0
=============================================================================
