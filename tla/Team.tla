-------------------------------- MODULE Team --------------------------------
(***************************************************************************)
(* The members of a hotel: the page (frontend/src/app/(partner)/team/      *)
(* page.tsx) on which a manager adds members up to the hotel's limit,      *)
(* edits, disables and enables them and answers their requests for a new   *)
(* password, beside another manager, and the services behind it            *)
(* (backend/app/services/team.py, password_requests.py).                   *)
(***************************************************************************)
EXTENDS Naturals, FiniteSets

CONSTANTS People, None,
          MemberLimit,   \* of the hotel, without the owner
          Forgetful,     \* the members who forget their password
          MaxAsks,       \* bounds the requests of a member
          MaxCalls,      \* bounds the requests of the page under way
          MaxOther       \* bounds what the other manager does

VARIABLES
    member,     \* [People -> None or [active, profile]], whose data it has
    request,    \* [People -> the number of the pending request, or 0]
    asked,      \* [People -> how often a password was asked for]
    answered,   \* the requests that a manager decided about
    list,       \* None, or the members [People -> None or active] as read
    requests,   \* the requests as polled
    adding,     \* None, "open", or the member being created
    editing,    \* the edit dialog: its member, what is in it, what was sent
    resetting,  \* the password dialog: its member, and whose was sent
    acting,     \* the changes of status under way
    dismissing, \* None, or the request being dismissed
    other       \* what the other manager did

teamVars == <<member, request, asked, answered, list, requests, adding,
              editing, resetting, acting, dismissing, other>>

Active == {m \in People : member[m] # None /\ member[m].active}
Live == {m \in People : member[m] # None}

Init ==
    /\ member = [m \in People |-> None]
    /\ request = [m \in People |-> 0] /\ asked = [m \in People |-> 0]
    /\ answered = {} /\ list = None /\ requests = [m \in People |-> 0]
    /\ adding = None
    /\ editing = [target |-> None, fields |-> None, sent |-> None]
    /\ resetting = [target |-> None, sent |-> None]
    /\ acting = {} /\ dismissing = None /\ other = 0

Read ==
    [m \in People |-> IF member[m] = None THEN None ELSE member[m].active]

ReadTeam ==
    /\ list # Read
    /\ list' = Read
    /\ UNCHANGED <<member, request, asked, answered, requests, adding, editing,
                   resetting, acting, dismissing, other>>

\* Every minute, and after a reset or a dismissal.
ReadRequests ==
    /\ requests # request
    /\ requests' = request
    /\ UNCHANGED <<member, request, asked, answered, list, adding, editing,
                   resetting, acting, dismissing, other>>

\* Rows and buttons are out of reach while a dialog is open.
AtPage ==
    /\ list # None /\ adding # "open"
    /\ editing.target = None /\ resetting.target = None

\* The page may send another request.
MaySend ==
    MaxCalls > (IF adding \in People THEN 1 ELSE 0)
               + (IF editing.sent = None THEN 0 ELSE 1)
               + (IF resetting.sent = None THEN 0 ELSE 1)
               + (IF dismissing = None THEN 0 ELSE 1) + Cardinality(acting)

limitReached == Cardinality({m \in People : list[m] = TRUE}) >= MemberLimit

-----------------------------------------------------------------------------
OpenAdd ==
    /\ AtPage /\ adding = None /\ ~limitReached
    /\ adding' = "open"
    /\ UNCHANGED <<member, request, asked, answered, list, requests, editing,
                   resetting, acting, dismissing, other>>

CloseAdd ==
    /\ adding = "open"
    /\ adding' = None
    /\ UNCHANGED <<member, request, asked, answered, list, requests, editing,
                   resetting, acting, dismissing, other>>

\* The dialog goes with its button when the list says that the hotel is full.
Add(m) ==
    /\ adding = "open" /\ ~limitReached /\ m \notin Live /\ MaySend
    /\ adding' = m
    /\ UNCHANGED <<member, request, asked, answered, list, requests, editing,
                   resetting, acting, dismissing, other>>

\* create_team_member counts the active members under a lock of the hotel.
Hire(m) ==
    IF Cardinality(Active) < MemberLimit /\ m \notin Live
    THEN member' = [member EXCEPT ![m] = [active |-> TRUE, profile |-> m]]
    ELSE UNCHANGED member

Added ==
    /\ adding \notin {None, "open"}
    /\ Hire(adding)
    /\ adding' = IF adding \in Live \/ member' = member THEN "open" ELSE None
    /\ UNCHANGED <<request, asked, answered, list, requests, editing,
                   resetting, acting, dismissing, other>>

-----------------------------------------------------------------------------
\* Faulty variant: the fields are filled when the page starts, not again.
FilledOnce(m) == IF editing.fields = None THEN m ELSE editing.fields

\* The fields of a member's dialog are the member's.
Filled(m) == m

OpenEdit(m) ==
    /\ AtPage /\ m \in Live /\ list[m] # None
    /\ editing' = [editing EXCEPT !.target = m, !.fields = Filled(m)]
    /\ UNCHANGED <<member, request, asked, answered, list, requests, adding,
                   resetting, acting, dismissing, other>>

CloseEdit ==
    /\ editing.target # None
    /\ editing' = [editing EXCEPT !.target = None]
    /\ UNCHANGED <<member, request, asked, answered, list, requests, adding,
                   resetting, acting, dismissing, other>>

SaveEdit ==
    /\ editing.target # None /\ editing.sent = None /\ MaySend
    /\ editing' = [editing EXCEPT !.sent = [id |-> editing.target,
                                            fields |-> editing.fields]]
    /\ UNCHANGED <<member, request, asked, answered, list, requests, adding,
                   resetting, acting, dismissing, other>>

\* update_team_member may find the phone taken; a success closes the dialog
\* that is open by now.
Edited(ok) ==
    /\ editing.sent # None
    /\ member' = IF ok THEN [member EXCEPT ![editing.sent.id].profile =
                                editing.sent.fields]
                 ELSE member
    /\ editing' = [editing EXCEPT !.sent = None,
                                  !.target = IF ok THEN None ELSE @]
    /\ UNCHANGED <<request, asked, answered, list, requests, adding, resetting,
                   acting, dismissing, other>>

-----------------------------------------------------------------------------
\* A row offers to disable an active member, and to enable another.
SetStatus(m) ==
    /\ AtPage /\ list[m] # None /\ MaySend
    /\ acting' = acting \union {[id |-> m, enabled |-> ~list[m]]}
    /\ UNCHANGED <<member, request, asked, answered, list, requests, adding,
                   editing, resetting, dismissing, other>>

\* set_member_status looks neither at what the status was nor at the limit.
set_member_status(a) ==
    /\ acting' = acting \ {a}
    /\ member' = [member EXCEPT ![a.id].active = a.enabled]
    /\ UNCHANGED <<request, asked, answered, list, requests, adding, editing,
                   resetting, dismissing, other>>

-----------------------------------------------------------------------------
\* create_request: one pending request for a user; that of somebody who is
\* disabled goes to the super admin.
Ask(m) ==
    /\ m \in Active \intersect Forgetful
    /\ request[m] = 0 /\ asked[m] < MaxAsks
    /\ asked' = [asked EXCEPT ![m] = @ + 1]
    /\ request' = [request EXCEPT ![m] = asked[m] + 1]
    /\ UNCHANGED <<member, answered, list, requests, adding, editing,
                   resetting, acting, dismissing, other>>

\* From the member's row, or from the request.
OpenReset(m) ==
    /\ AtPage /\ list[m] # None
    /\ resetting' = [resetting EXCEPT !.target = m]
    /\ UNCHANGED <<member, request, asked, answered, list, requests, adding,
                   editing, acting, dismissing, other>>

CloseReset ==
    /\ resetting.target # None
    /\ resetting' = [resetting EXCEPT !.target = None]
    /\ UNCHANGED <<member, request, asked, answered, list, requests, adding,
                   editing, acting, dismissing, other>>

SendReset ==
    /\ resetting.target # None /\ resetting.sent = None /\ MaySend
    /\ resetting' = [resetting EXCEPT !.sent = resetting.target]
    /\ UNCHANGED <<member, request, asked, answered, list, requests, adding,
                   editing, acting, dismissing, other>>

\* A new password answers the member's request, if there is one.
complete_for_user(m) ==
    /\ answered' = answered \union
                     (IF request[m] = 0 THEN {} ELSE {<<m, request[m]>>})
    /\ request' = [request EXCEPT ![m] = 0]

reset_member_password ==
    /\ resetting.sent # None
    /\ complete_for_user(resetting.sent)
    /\ resetting' = [target |-> None, sent |-> None]
    /\ UNCHANGED <<member, asked, list, requests, adding, editing, acting,
                   dismissing, other>>

\* The button of a request sends the request's own number.
Dismiss(m) ==
    /\ AtPage /\ requests[m] # 0 /\ dismissing = None /\ MaySend
    /\ dismissing' = [id |-> m, number |-> requests[m]]
    /\ answered' = answered \union {<<m, requests[m]>>}
    /\ UNCHANGED <<member, request, asked, list, requests, adding, editing,
                   resetting, acting, other>>

\* Faulty variant: whatever the member asks for now is dismissed.
DismissedByMember(r) == request[r.id] # 0

\* dismiss_request knows a pending request by its number.
Dismissed(r) == request[r.id] = r.number

dismiss_request ==
    /\ dismissing # None
    /\ request' = IF Dismissed(dismissing)
                  THEN [request EXCEPT ![dismissing.id] = 0] ELSE request
    /\ dismissing' = None
    /\ UNCHANGED <<member, asked, answered, list, requests, adding, editing,
                   resetting, acting, other>>

-----------------------------------------------------------------------------
OtherHires(m) ==
    /\ other < MaxOther /\ other' = other + 1
    /\ Hire(m) /\ member' # member
    /\ UNCHANGED <<request, asked, answered, list, requests, adding, editing,
                   resetting, acting, dismissing>>

OtherResets(m) ==
    /\ other < MaxOther /\ other' = other + 1
    /\ request[m] # 0 /\ complete_for_user(m)
    /\ UNCHANGED <<member, asked, list, requests, adding, editing, resetting,
                   acting, dismissing>>

Next ==
    \/ ReadTeam \/ ReadRequests
    \/ OpenAdd \/ CloseAdd \/ Added
    \/ CloseEdit \/ SaveEdit \/ \E ok \in BOOLEAN : Edited(ok)
    \/ CloseReset \/ SendReset \/ reset_member_password \/ dismiss_request
    \/ \E a \in acting : set_member_status(a)
    \/ \E m \in People :
         \/ Add(m) \/ OpenEdit(m) \/ SetStatus(m) \/ Ask(m)
         \/ OpenReset(m) \/ Dismiss(m) \/ OtherHires(m) \/ OtherResets(m)

Spec == Init /\ [][Next]_teamVars

-----------------------------------------------------------------------------
TypeOK ==
    /\ \A m \in People :
         /\ member[m] = None
            \/ member[m] \in [active : BOOLEAN, profile : People]
         /\ {request[m], requests[m]} \subseteq 0 .. asked[m]
         /\ asked[m] \in 0 .. MaxAsks
    /\ answered \subseteq People \X (1 .. MaxAsks)
    /\ list = None \/ list \in [People -> BOOLEAN \union {None}]
    /\ adding \in People \union {None, "open"}
    /\ {editing.target, editing.fields, resetting.target, resetting.sent}
         \subseteq People \union {None}
    /\ editing.sent = None \/ editing.sent \in [id : People, fields : People]
    /\ acting \subseteq [id : Live, enabled : BOOLEAN]
    /\ dismissing = None
       \/ dismissing \in [id : People, number : 1 .. MaxAsks]
    /\ other \in 0 .. MaxOther

\* What is typed into one member's dialog is never saved as another's, though
\* a late answer may close and another row open it in between.
OwnProfiles == \A m \in Live : member[m].profile = m

\* A member who asks for a password is heard: a request only goes away when a
\* manager has answered that request, not when an older one is dismissed late.
RequestsHeard ==
    \A m \in People :
        asked[m] > 0 /\ request[m] = 0 => <<m, asked[m]>> \in answered

\* Why: members are never removed, so the rows, the dialogs and the calls under
\* way are of members there are, and a dialog is filled when it opens.
MembersKept ==
    /\ member \in [People -> {None} \union [active : BOOLEAN, profile : People]]
    /\ adding \in People \union {None, "open"}
    /\ list # None => \A m \in People : list[m] # None => list[m] \in BOOLEAN /\ m \in Live
    /\ acting \subseteq [id : Live, enabled : BOOLEAN]
    /\ editing \in [target : Live \union {None}, fields : People \union {None},
                    sent : {None} \union [id : Live, fields : People]]
    /\ editing.target # None => editing.fields = editing.target
    /\ editing.sent # None => editing.sent.fields = editing.sent.id
    /\ OwnProfiles

\* Why: a pending request is the member's last, and what the page is about to
\* dismiss has been decided about.
RequestsNumbered ==
    /\ asked \in [People -> Nat] /\ request \in [People -> Nat]
    /\ \A m \in People : request[m] \in {0, asked[m]}
    /\ dismissing # None => <<dismissing.id, dismissing.number>> \in answered
    /\ RequestsHeard

\* "The hotel cannot add active team members beyond this limit."
\* (admin/hotels/[id]/edit/page.tsx:978)
ActiveWithinLimit == Cardinality(Active) <= MemberLimit

=============================================================================
