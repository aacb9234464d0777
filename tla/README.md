# Verification of the hotel management system

This directory holds TLA+ models of the program under `src/`, the TLC
configurations that check them on small instances, and proofs, checked by
TLAPS, that hold for every value of the constants. The program is a
multi-tenant hotel management system: a FastAPI backend with SQLAlchemy over
PostgreSQL (`src/backend`), and a Next.js portal (`src/frontend`) of large
interactive pages, each with its own state and asynchronous requests. The
backend models describe one hotel, since every query is scoped to a `hotel_id`;
the portal models have several hotels where the hotel switcher matters.

- [What is where](#what-is-where)
- [The system](#the-system)
- [The models of the backend](#the-models-of-the-backend)
- [The models of the portal](#the-models-of-the-portal)
- [What the runs show](#what-the-runs-show)
- [What is proved](#what-is-proved)
- [Divergences without a run](#divergences-without-a-run)
- [What is not modelled](#what-is-not-modelled)

## What is where

Backend:

| Module | What it is |
| --- | --- |
| `RoomStatus` | The table of `domain/room_status.py` and the status sets derived from it |
| `BookingRules` | Booking statuses, stay windows, their overlap, what a request may ask for |
| `RoomCalendar` | Abstract specification: what the booking services promise of the calendar |
| `Stays` | `bookings.py`, `stay.py`, `housekeeping.py`, `rooms.py`: one call, one step; shown to implement `RoomCalendar` |
| `StayTransactions` | The same booking and stay services as interleaved transactions with row locks |

Portal, with the services its pages call:

| Module | Page or library |
| --- | --- |
| `Session` | `lib/auth`, `lib/api/client.ts`: tokens, refresh, start-up, sign-out |
| `Navigation` | `components/layout`, `components/auth`: menus, guards, redirects, hotel switcher, for every role |
| `CheckinForm`, `CoGuests`, `CheckinDrafts` | `checkin/page.tsx`: the form and its requests, additional guests, saved drafts |
| `IdScan`, `ImageEditor` | `lib/use-coordinated-id-scan.ts`, `lib/id-ocr.ts`, the document tiles and the crop editor |
| `Checkout`, `CurrentGuests` | `checkout/page.tsx`, `current-guests/page.tsx` |
| `AdvanceGuest`, `AdvanceBooking`, `GuestDocs`, `Voucher` | `advance-booking/page.tsx`, `new-guest-full-form.tsx`, the voucher dialog |
| `AdvanceBookings`, `CompletedBookings` | The two booking lists, with filters mirrored in the address |
| `RoomScreens` | `rooms/page.tsx` and `housekeeping/page.tsx`; uses `RoomStatus` |
| `Payments`, `Invoices`, `Expenses`, `Team` | Those pages with `payments.py`, `invoices.py`, `expenses.py`, `team.py`, `password_requests.py` |
| `EditHotel`, `HotelImages`, `RequirementList`, `HotelSettings` | `edit-hotel/page.tsx` and `settings/page.tsx` |
| `AdminEditHotel`, `AddHotel` | The super admin's hotel forms; the first is an instance of `EditHotel` whose hotel is that of the route |
| `Notifications` | The bell, the notifications page, `notifications.py` |

Instances and proofs:

| Module | What it is |
| --- | --- |
| `MCStays`, `MCStayTransactions` | Instances of the backend modules: windows, symmetry |
| `MCFrontDesk`, `MCOffice`, `MCPortal` | The pages composed, see [below](#how-the-pages-are-composed) |
| `Stays_proofs`, `StayTransactions_proofs` | Proofs about the backend modules |
| `Session_proofs` | Proofs about the browser session |
| `Checkin_proofs`, `FrontDesk_proofs`, `Screens_proofs` | Proofs about the pages of `MCFrontDesk`, each module extending the one before: the check-in, the other pages, the check-out page and the types of all screens |
| `Office_proofs`, `Portal_proofs` | Proofs about the pages of `MCOffice`, with the expenses, and of `MCPortal` |

`PROJECT.json` lists the components, the runs, for every definition the source
lines it models, for every property a bug that it detects, the hazards, the
findings and the theorems. To check a run, `tlc -config MCStays_calendar.cfg
MCStays`; to check a proof, `tlapm Stays_proofs.tla`. The definitions whose
comment begins with "Faulty variant" are those bugs: no action uses them.

## The system

### How it runs

Every HTTP request runs one service function inside one database transaction
(`db/session.py`, `get_db`): commit when the handler returns, rollback when it
raises. The isolation level is PostgreSQL's READ COMMITTED. Sessions have
`autoflush=False` and `expire_on_commit=False`. There is no version column: an
UPDATE sets the columns whose attributes were assigned and overwrites whatever
was committed to them since the request read the row. Row locks
(`with_for_update`) are taken in six services: on rooms in `bookings.py` (64,
83, 971) and `stay.py` (52, 60, 647), and on other rows in `invoices.py` (29),
`expenses.py` (529) and `team.py` (171).

The process is one event loop, so requests interleave at every `await`. The
lifespan (`main.py:80`) starts five loops beside the requests: overdue stays
with the automatic check-out, reminders with the automatic no-show, low
availability, a self-ping, and a purge of pictures. Each opens sessions of its
own and competes with the requests for the same rows.

### Components

**Bookings** (`services/bookings.py`). *State:* the row of a booking (status,
dates and times, money) and its `booking_rooms` rows, of which those with
`is_current` are its rooms. *Operations:* create, update, replace a room, add a
room, cancel, mark no-show; reads and exports. *Interacts:* locks rooms; called
by `stay.py`; read by `rooms.py`, housekeeping and the sweeps. *Hard:* the
calendar check is only atomic under the locks; some services read the booking
before the locks, some move a claim without the check. *Correct when:* two
active bookings never hold a room at one time; only what has not arrived is
cancelled; a booking always holds a room.

**Stay** (`services/stay.py`). *State:* `checkins` (one row per booking),
booking and room status. *Operations:* check in, book and check in, transfer,
check out, reverse a check-out. *Interacts:* sets room statuses, creates and
cancels housekeeping tasks, writes charges, ledger entries and invoices.
*Hard:* long transactions over many rows, with flushes in between that decide
in which order rows are locked; a reversal revives a claim. *Correct when:* a
guest's room never looks vacant; what a guest leaves is cleaned; a stay ends
once.

**Room status machine** (`domain/room_status.py`). A table of transitions, and
`assert_transition`, which raises unless the table has the pair or nothing
changes. *Correct when:* every status change in any service is in the table.

**Housekeeping and maintenance** (`services/housekeeping.py`). *State:* tasks
(open or completed or cancelled) and maintenance records. *Operations:* list
(which first closes stale tasks), start, complete, open and resolve
maintenance, and `ensure_task_for_room` for the other services. *Hard:* the
same room in two workflows; records and tasks that outlive the state in which
they were opened; creation of a task by two requests. *Correct when:* a dirty
room has a task, a blocked room a record, and nothing frees a guest's room.

**Rooms** (`services/rooms.py`). *State:* `Room.status`, room and room-type
inventory. *Operations:* the manual override, availability, inventory edits.
*Hard:* the override reads without a lock. *Correct when:* availability and
`create_booking` agree; the override frees no guest's room.

**Charges, ledger, payments, invoices, GST** (`charges.py`, `ledger.py`,
`payments.py`, `invoices.py`, `domain/gst.py`). *State:* totals on the booking,
a running balance per ledger entry, the advance and the deposit, one live
invoice per booking and its number. *Operations:* add and void a charge;
collect, correct and refund; generate, cancel and resynchronise an invoice.
*Hard:* read, modify and write without a lock; settlement at check-out and its
reversal. *Correct when:* balances equal the sum of their entries, refunds do
not exceed what was collected, one live invoice per booking.

**Overdue and reminder sweeps** (`overdue.py`, `reminders.py`). *State:* stamps
on bookings that say an alert was sent. *Operations:* alerts; automatic
check-out of settled stays; automatic no-show. *Hard:* races with the desk,
batch commits, an exception in the middle. *Correct when:* each alert is sent
once and eventually, and a sweep never undoes what the desk did.

**Subscriptions** (`subscriptions.py`). *State:* a hotel's period and its
renewal requests. *Hard:* a request decided twice; renewal around expiry.
*Correct when:* one period per paid request; paid days are never lost.

**Team, staff, attendance, expenses, daily operations, password requests**
(`team.py`, `staff.py`, `attendance.py`, `expenses.py`, `ops.py`,
`password_requests.py`). Caps, workflows and per-day records; the hard places
are the member cap, the accumulation of minutes over re-entries, the recurring
expense generator, and the snapshot of a closed day.

**Authentication** (`auth.py`, `core/security.py`). Refresh tokens rotated with
a grace window; reuse revokes the family. *Correct when:* one live token per
session, and a client that retries is not logged out.

**Notifications** (`notifications.py`). *State:* entries with a category and
the users who have read them. *Correct when:* a role sees its categories, and
an entry alerts once.

**No state of their own, or append-only:** permissions and tenancy, audit log,
reports, voucher and slip rendering, identity scanner, payment configuration,
platform administration, keep-alive, HTTP routes, migrations.

**The portal** (`src/frontend/src`). Every page is a React component with state
of its own over one query cache (`components/providers.tsx`: a copy is fresh
for a minute and refetched on mount). *State that outlives a page:* the cache,
the tokens and the profile, the active hotel and the saved drafts in the
browser's storage. *Operations:* the handlers of forms and dialogs, effects
that run when a value they name has changed, and the answers of requests.
*Interacts:* with the services by HTTP; pages with one another by the cache,
the address and storage. *Hard:* no handler is locked while it awaits; its
answer meets a page that shows something else; a form is filled from a copy
that is replaced later; a submission is a chain of requests of which any may
fail before or after the server has acted; the desk repeats what failed; other
desks change the same rows. *Correct when:* what is sent belongs to the guest,
hotel and form that are shown; nothing is charged, printed or created twice;
what the page shows is what the server has, or becomes it; one failure does
not undo or hide another part.

Its parts: session, navigation, check-in (form, additional guests, drafts,
identity scan, picture editor), check-out, in-house guests, advance booking
(guest, documents, rooms and payment, voucher), booking lists, rooms and
housekeeping, payments, invoices, expenses, team, hotel forms (partner, super
admin), settings, notification bell; and read-only views (dashboard, reports),
plain forms (attendance, staff, other super-admin pages) and drawing.

## The models of the backend

### `RoomStatus`, `BookingRules`

Pure definitions. A status is a string as in the source. A window is a record
of check-in day and time and check-out day and time, days and times being
natural numbers; a NULL time means the hotel's default, which the services
substitute before comparing, so the models have no NULL (for the one service that
compares with something else see `UpdateDatesDropTimes`). `Overlaps` is the SQL
condition of `_assert_no_overlap`: pairs of date and time, both ends strict.

### `Stays`: the services, one at a time

| Variable | Code |
| --- | --- |
| `today` | `hotel_today` |
| `status`, `window` | `Booking.status`, its scheduled dates and times |
| `current`, `past` | rows of `booking_rooms` with `is_current` true, false |
| `room` | `Room.status` of the active rooms |
| `task` | the status of the room's open `HousekeepingTask` |
| `maint` | how many unresolved `MaintenanceRecord`s the room has |
| `unchecked` | history, read by no action: bookings whose claim was last changed without `_assert_no_overlap` |

Each action is one service call with all it changes: `CreateBooking`,
`UpdateBookingDates` and `UpdateBookingTimes` (the two branches of
`update_booking`: only the first locks and checks), `UpdateDatesDropTimes` (the
first branch with a time set to null: checked with the time that the booking had,
569-570, stored as the usual one, 608-609), `ReplaceRoom`, `AddRoom`,
`CancelBooking`, `MarkNoShow`, `CheckIn`, `BookAndCheckIn`, `TransferRoom`,
`CheckOut`, `ReverseCheckout`, `ListTasks`, `StartTask`, `CompleteStayoverTask`
and `CompleteCheckoutTask` (the two branches of `complete_task`),
`OpenMaintenance`, `ResolveMaintenance`, `UpdateRoomStatus`; `NextDay` is the
clock. The two sweeps' automatic check-out and no-show change a booking like
`CheckOut` and `MarkNoShow`.

Abstractions, and why they are harmless to the properties:

- The active rooms are a constant. Inventory edits are not modelled.
- One open task per room. `ensure_task_for_room` is the only creator of tasks
  and looks for an open one first; calls one at a time cannot make two. Calls
  that interleave can: see the hazard at `housekeeping.py:64`.
- The task status `inspection_required` exists in the schema and is assigned
  nowhere; `Room.status` is never set to `reserved` any more (the code calls
  these flags legacy), which `TypeOK` checks.
- Money, the subscription check and the guard against payments after check-out
  are left out. They can only refuse a call, and every property here is a
  safety property, which fewer refusals can only make harder. The settlement
  is seen from the pages: `Checkout`, `Payments`, `Invoices`.

### `RoomCalendar`: what is promised

`Stays` instantiates it (`Calendar == INSTANCE RoomCalendar WITH claim <-
claim, unchecked <- unchecked`) and `CalendarSpec` is the specification seen
through that mapping. A booking claims rooms for one window. `Reserve` enters claims that collide
with no other booking's; `Override` enters claims unchecked and remembers the
booking. `Stays` maps onto it with `claim` (the rooms of an active booking with
its window) and its history variable; a call that changes no claim stutters.
What a reader learns from it is which services may break the promise: editing
times only, setting times to null with the dates, setting the check-out time at
check-in, and reversing a check-out.

### `StayTransactions`: the services, interleaved

A request is taken apart where other transactions can come between:

1. `Ask...`: it begins, and reads its booking and the rooms of it, unlocked.
   What it read is kept in `job[p]`, as the ORM objects keep it.
2. `Lock(p, row)`: one row lock. Rooms are locked in the order of their ids
   (`ORDER BY id ... FOR UPDATE`), except in `_release_rooms`, which has no
   order. A billed check-out flushes the UPDATE of its booking before it locks
   the rooms, because writing the audit record of a charge, discount or payment
   flushes.
3. `Check(p)` or `Refuse(p)`: calendar and room statuses as committed then.
4. Locks on the rows it updates, taken by the flush of the UPDATE.
5. `Commit(p)`: the assigned columns are written, whatever the row has become;
   unique constraints (`checkins.booking_id`, `uq_booking_room`) are enforced.
   `Rollback(p)` can happen at any time.

`Kinds` says which services take part, so that a run can isolate the ones it is
about. `set_available` stands for the manual override and for the other calls
of the same shape (`start_task`, `complete_task`, `resolve_maintenance`), and
`cancel` for `mark_no_show`. "confirmed" stands for "pending" as well. Two
kinds of locks are left out. The lock on the settings row, under which bookings
and registrations are numbered, is taken after the room locks by every service
modelled here, so it comes last in the order; the one that numbers invoices
belongs to the settlement. The key-share locks of foreign keys conflict only
with FOR UPDATE, which these services hold on rooms alone, and they insert rows
only for rooms that they have locked themselves. Edits of times alone or to null
are in `Stays` only.

**Fairness.** `FairSpec` assumes weak fairness of `Step(p)` (check, commit or
refuse): the event loop resumes every request whose statement has been
answered. It assumes strong fairness of `LockSome(p)`: PostgreSQL queues the
waiters of a row, so a request whose row becomes free again and again gets it.
Clients need not send requests and nothing makes a transaction fail: `Ask` and
`Rollback` are unfair, so a deadlock is not assumed away.

## The models of the portal

### Conventions

The code is split into steps where it is split at run time: a handler up to its
first `await`, the answer of each request, an effect that runs after a render.
What a closure has captured is kept in a record of the request (`sent`,
`posting`, `creating`), so that an answer meets the page as it is then. A
request ends in one of three ways: it is refused, it succeeds, or the server
acts and the answer is lost. The server side of a request is one atomic step
except where the two halves matter (`generate_invoice`, `transition_expense`).
Other desks are actions of the module, bounded by `MaxOther` or by the rows
there are.

Data are reduced to what decides. A guest's details are one value: whose they
are. Text is "as stored", "typed" or empty. A room or a picture is a model
value. Money is a few amounts. The picture editor computes with whole numbers
and fractions, as the drawing does up to rounding.

Variables whose comment begins with "history" are read by no action; they
remember what a property needs, such as the number of times a booking was
checked out. The variable `hasty`, where there is one, is set when the desk
submits before an answer it waits for has come (a profile, a refetch); the
properties then make no promise, and the README says so under
[divergences](#divergences-without-a-run).

### Page by page

| Module | Main state and its code | Actions |
| --- | --- | --- |
| `Session` | tokens and profile in storage, `status` and `user` of the provider, `refreshing` (the one refresh in flight), `pc` of the four asynchronous functions | `MountStep` and its answers, login, logout, a call and its retry after 401, `RefreshAnswered`, a reload |
| `Navigation` | role, tier, plan and status of the hotel; `path`, the pending redirects, `returnTo` | the guards and redirects as effects, a click on a menu or a search result, the hotel switcher, the platform's changes |
| `CheckinForm` | bill and party of the form, the profile with its baseline, a walk-in's room, `stage` of the chain of requests, the server's booking, and per room the bookings that walk-ins made and their advances | choose a guest, choose a room from a list that may be old, fill, submit, one action for each request and each way it ends |
| `CoGuests` | cards, keys, the list of guests, the handlers that await an answer or a cropped picture | add, remove, search, choose or create a guest, edit, queue a picture, Form C, submit |
| `CheckinDrafts` | `localStorage` per hotel, the tabs' copies, photographs on the server | save, restore, delete, evict, switch hotel, migrate the old list |
| `IdScan` | faces, pending file, tasks at their awaits, `scanning` | choose, crop, each stage of a scan and its answer, fall-backs, accept |
| `ImageEditor` | scale, offset, turn, frame | gesture, zoom, turn, frame, reset |
| `Checkout` | guest (out of a list that may be old), quote, draft, `posting`, bill | load, edit, quote answered, submit, answer or loss, invoice, other desks' charges and check-outs |
| `CurrentGuests` | dialogs, cached copies of booking and guest | open, refetch, print, edit, save (guest, then booking), transfer |
| `AdvanceGuest`, `AdvanceBooking` | chosen guest; profiles, scans and ID numbers on their way; dates, lists, rooms, the three requests of a booking | as the two halves of one page |
| `GuestDocs` | tile, camera streams, the one editor | choose, shoot, crop, upload, remove, close |
| `Voucher` | print jobs, frame, title, clipboard | print, style sheets and timer, share, copy, download |
| `AdvanceBookings`, `CompletedBookings`, `Invoices` | list, filters, page, address, dialogs | type, debounce, follow a link, fetch, turn pages, the dialogs' requests, other desks |
| `Payments` | payments and sums on the server, lists of the page, dialogs | collect, correct, refund, refetch |
| `RoomScreens` | the server's rooms and tasks, copies, dialogs | poll, move a room, give a reason, other desks |
| `EditHotel`, `RequirementList`, `AdminEditHotel` | rows of a form, the list it was filled from, the rows taken at the click (`saving`, `pressed`), the server's rows | edit, fill when a list comes (also during an update), update call by call with the list as it is by then, refill; a switch of hotel, which mounts the page anew (`HotelKeyed`) |
| `HotelImages`, `HotelSettings`, `AddHotel` | fields and pictures, the copies they show, the server's rows | edit, save call by call, refill, pictures |
| `Team`, `Expenses`, `Notifications` | rows on the server, the page's list, dialogs | as their names in the code |

### How the pages are composed

A browser tab shows one page at a time and a page starts anew when it is
opened, so the state space of the portal is a sum, not a product. `MCFrontDesk`,
`MCOffice` and `MCPortal` are those sums: one variable names the page; one page
has variables of its own (`Checkout`, `Expenses` and `Session`, which these
modules extend and which have proof modules of their own); the others keep
theirs in the cells `m1`, `m2`, ... through `INSTANCE ... WITH`, and
`Checkin_proofs`, `FrontDesk_proofs` and `Office_proofs` are about the pages in
these cells. Cells that a page does not use keep one value. A few pages occur twice: once with the page's own
dialogs at work, and once smaller, with another desk, the search or the hotel
switcher at work. Each invariant of an instance is a conjunction of
`page = "..." => Page!Property`.

`AdminEditHotel` instantiates `EditHotel` with the hotel of the route in place
of the active hotel, as the two pages share their saving code. `CompletedBookings`
mirrors its dates into the address as it does search and chip, but takes only the
latter over from it, as the page does.

### Fairness

`Session` has weak fairness of `MountStep` and `RefreshAnswered`: the browser
runs the continuation of an answered request, and a refresh is answered or
fails with its connection; the client sets no timeout of its own, so a
connection that stayed open for ever would leave the spinner on. `Navigation` has weak fairness of
its redirects, since React runs the effects of a committed render. `RoomScreens`
has weak fairness of the reads: `refetchInterval` repeats them. `AddHotel`
states weak fairness of the polling timer of the payment QR; no run
uses it. No user action and no other desk is fair.

## What the runs show

Deadlock in the sense of TLC is not checked: bookings, attempts and amounts are
bounded, so an instance ends when they are used up. That requests do not wait
for one another in a circle is the property `NoDeadlock`.

### Runs that pass

| Run | Instance | Distinct states | Shows |
| --- | --- | --- | --- |
| `stays_housekeeping` | 1 room, 2 bookings, tonight or tomorrow, every manual status, 2 maintenance records, 2 days | 11 168 | `InHouseNotFree`, `OccupiedHasGuest`, `DirtyHasTask`, `MaintenanceHasRecord`, `RoomStepsLegal` |
| `stays_calendar` | 2 rooms, 2 bookings, five windows, 2 days | 139 984 | `CalendarSpec`, `OverlapOnlyUnchecked`, `BookingHoldsRoom`, `VacatedRoomQueued` |
| `tx_stay` | 2 rooms, 2 bookings, 2 requests, three windows, nine services | 1 256 272 | `NoDoubleBooking`, `CheckedOutStays` in every interleaving |
| `tx_locks` | 2 rooms, 2 bookings, 2 requests, one window, the services that lock in order | 104 619 | `NoDeadlock`; `EveryRequestEnds` under `FairSpec` |
| `front_desk` | the pages of the receptionist | 2 010 311 | the twelve properties below |
| `office` | the pages of manager, owner and super admin | 1 915 157 | the seven properties below |
| `portal` | session of two users, navigation for six roles, room pages | 321 851 | `ShownUserOwnsSession`; the start-up spinner ends (`StartUpEnds`); redirects come to rest, except for staff whom no page admits (`RedirectsEnd`); the room pages come to show what the server holds once nobody changes it (`DesksConverge`) |

Properties of `front_desk`:

| Property | Of | Says |
| --- | --- | --- |
| `NoSilentDue` | `Checkout` | nobody checks out with a due that the desk neither collected nor gave a reason for, although the quote shown may be old |
| `CheckedOutOnce` | `Checkout` | a lost answer, a repeated submission or an old list does not check a booking out twice |
| `DoneOnce` | `CheckinForm`, `Voucher`, `CurrentGuests`, `AdvanceBooking` | however often the chain of requests is repeated, an arrival pays one advance and is charged once, and so is a walk-in in each room: a second booking is made, and a second advance taken, only if the desk chooses another room (see [divergences](#divergences-without-a-run)); one print per click; a second advance booking only after the desk was told of a failure |
| `MoneyAddsUp` | `CheckinForm`, `AdvanceBooking`, `Payments`, `Invoices` | the balance shown is the one owed, with tax up to a rupee for each line that is rounded apart (for an arrival: if its dates were kept and no taxed fee added); a receipt voucher is shown exactly if the advance is recorded; the sums of a booking are its payments less its refunds, or more once a refund found the deposit below zero; and the rows of a bill add up to its total |
| `OwnDetails` | `AdvanceGuest`, `CoGuests` | if the desk waits for answers, a profile gets only what was typed for it, and the party sent is that of the cards |
| `DraftsStayInHotel` | `CheckinDrafts` | a draft is listed in the hotel it was made in |
| `SurvivorsKeepPhotos` | `CheckinDrafts` | deleting or evicting a draft leaves the photographs that another draft shares |
| `ScanHonest` | `IdScan` | the spinner does not outlive the scans; an address read after the autofill was accepted still reaches the form, while one back is read at a time |
| `DocumentsHonest` | `GuestDocs`, `Invoices` | when all has settled a tile shows the stored document, unless two pictures crossed; a closed panel leaves no camera on; a message is about the bill it was asked for |
| `GuestErrorStopsAll` | `CurrentGuests` | an edit whose guest part is refused does not write the booking part |
| `ListsAgree` | `AdvanceBookings`, `CompletedBookings`, `Invoices`, `AdvanceBooking` | a page of a list that shrinks has rows; once the router rests, an address names the search and the chip of its page, and its dates if the page wrote it; the bill shown is one of its list, the rooms selected are offered |
| `PagesReachable` | `Navigation` | no menu, tab or search item opens a page that its guards refuse (the dashboard sends attendance-only staff on); a hotel that winds down keeps its pages |

Properties of `office`:

| Property | Of | Says |
| --- | --- | --- |
| `ReceiptAsAdded` | `Expenses` | whatever answers are lost, an expense has the receipt it was added with; or it has none and the user was shown an error, of the receipt or of the expense itself |
| `UntouchedRowsKept` | `EditHotel`, `RequirementList` | a save of a form that had its list at the click leaves alone what the user did not touch, whatever others changed, whatever comes in before its turn and whichever call failed |
| `OwnRecordSaved` | `EditHotel`, `AdminEditHotel`, `Team` | a save goes to the hotel or member whose form it was; no hotel gets an access mode that nobody wanted; a request for a password goes away only when answered |
| `CreatedAsFilled` | `AddHotel`, `RequirementList` | no second hotel after an error or a lost answer; rooms get the type their row chose; what is missing is reported; a requirement is made once while its list can be read |
| `LatestShown` | `HotelImages`, `HotelSettings`, `ImageEditor`, `Session` | when reads have settled, every place shows its stored picture and an empty one nothing (unless an answer was lost); a QR image is never older than its version; an untouched setting shows the refreshed copy; the frame stays on the picture and all of it can be reached; and `ShownUserOwnsSession` with a reload |
| `RingsOnce` | `Notifications` | an entry alerts at most once over navigations, polls and reads, and never if it was there when the list first came |

`ShownUserOwnsSession` of `Session` (in `portal`, and in `office` as a part of
`LatestShown`): the user that is shown is the one whose tokens the browser
holds, unless an answer of an earlier session was used (see divergences).

`TypesOK` of each instance is the type invariant of the page shown.

**The bounds and why they are enough.**

- *Two bookings* (`Bookings`) in the backend runs: double booking, and a guest
  found in a room that another booking was promised, involve two. In
  `stays_housekeeping` one room with two bookings gives the stay, the next
  arrival, a reversal after it, and an early check-in on top of a guest.
- *Rooms*: each room property is about one room. Two are needed for bookings of
  several rooms, for transfers and replacements, and for the order of locks.
- *Windows*: the five of `stays_calendar` touch at the same minute, overlap by
  one time step, lie in one day, and are apart. Two time values are enough to
  tell "before", "equal" and "after" at a boundary.
- *`LastDay` = 1*: a booking for today, for tomorrow, and one that was for
  yesterday; the code only ever compares with today. *`Today` = 0* in the
  transactions: the clock does not move during a race.
- *`MaxMaintenance` = 2*: with two records, resolving the first leaves the
  second open while the room has moved on. It is 0 where no manual status is
  used, since the calendar does not depend on it.
- *Two requests*: all races found in the services are between two transactions.
  `LocksPreventDoubleBooking`, `CheckOutIsFinal` and
  `OrderedLocksNeverDeadlock` cover any number of them, so a circle of three
  waiting requests, which is not in the instance, is excluded too.
- *`MaxTries` = 2, `MaxCalls` = 2, `MaxAsks` = 2*: a repetition after a lost
  answer, and two answers that overtake each other. `MaxAttempts` is 2 in
  `portal`, where the start-up must end (four in the code: the last attempt and
  one before it), with no reload; it is 1 in `office`, with one reload: between
  sign-out and an answer of the session before. Both have two users.
- *`MAX_DRAFTS` = 2, `MaxSaves` = 2, two hotels*: a saved draft can evict, share
  a photograph and meet a hotel switch. One tab here: with two, each trusts its
  own copy and the later save wins, which the model has but the instance leaves
  out for its size.
- *`PageSize` = 1* with two bookings: a list of two pages that shrinks. One of
  them is of the dates chosen (`Recent`), so that search, chip and dates each
  leave out a booking.
- *Two rooms* at the check-in: a walk-in whose answer was lost finds its room
  taken and tries the other one.
- *Two room types, one of them old*, in `office`: a type can be created by an
  update and deleted under a row that has it.
- *`MaxOther` = 1*: one act of another desk can fall between any two steps of
  this one.
- *`Rent` = 1019, `LongRent` = 2038, `Extra` = 59, `GstRate` = 5*: a due, none,
  and an overpayment occur, and the tax of each of these lines is rounded, so
  that the balance shown at a check-in differs from the one charged by as much as
  `MoneyAddsUp` allows.
- *`Slots` = {1, 2}, `MaxRefunds` = 2, two amounts*: a payment and its
  correction, refunded twice. With another desk at work there is one payment,
  refunded once.
- *`MaxEntries` = 2*: two cards of additional guests, so that one is removed
  before the other and a slot of the list is skipped.
- *The menus*: every role in one hotel, with super admins and passwords set anew;
  the switch between two hotels without these two, which look at no hotel.
- *`Checkout` with one booking, `Expenses` with one expense, and the few
  values of every other page*: the theorems of the proof modules hold for any
  number, so for the properties that are proved no bound is left.
- *`MemberLimit` = 2* with two people in `office`, 1 in `team_limit`: at the
  limit and below it.

Symmetry is used on bookings and requests, and on rooms where they are model
values, in the backend runs; rooms are numbers in `StayTransactions` because
their ids are ordered. The liveness runs and the portal's use no symmetry.

### Runs that find a violation

Each is a place where a comment or a message of the code says something that
the code does not do. `PROJECT.json` quotes it.

| Run | What happens |
| --- | --- |
| `stays_double_booking` | Times edited without dates, a check-out time set at check-in, or a reversed check-out: two bookings hold one room at once |
| `tx_cancel` | A cancellation overwrites a check-in that committed while it waited |
| `payments_refunds` | A refunded payment is corrected downwards: refunds exceed the valid payments |
| `invoices_phone` | The WhatsApp number typed for one guest is used for the next guest without one |
| `team_limit` | Disable, add, enable: more active members than the limit |

## What is proved

Every invariant and every action property of the passing runs is a theorem, the
type invariants of all screens among them; liveness is not. The proofs hold for
any values of the constants: sets of rooms, bookings, windows, requests, users,
pictures or amounts, lengths of lists, numbers of tries. They assume only what
the modules state as ASSUME, and TLC evaluates that on every run:

- of the backend: windows have natural days and times and there is one, manual
  statuses are statuses, room ids are numbers, rooms and bookings are distinct
  rows, `Kinds` has known services only;
- of the pages: bounds, rents, rates and amounts are natural numbers, a longer stay
  costs no less, and the payments of a booking are numbered; `None` (null) is no
  identifier, name, row, payment, request or save that it is stored beside; the first
  room types are types, and none has one of the form's own words; the logo is
  no slot of the gallery; the constants that a page of the sum takes for its
  own satisfy what its module assumes (`SignInAssumption` for `Session`); there is
  a hotel, and the pages, filters and modes that an instance looks at are some of
  the portal's (`MenusAssumption`, `PagesAssumption`, `ModesAssumption`).

Theorems about some services only say so in an ASSUME of their statement, see
`StayTransactions_proofs`. Facts about finite sets that call for induction (a
largest element, the sum of a set of payments) are proved by a least
counterexample or with the library's facts about `Cardinality`, since induction
theorems with an operator parameter cannot be used. In the same way a filter of
a list is defined by the positions that it keeps (`Kept` of `CoGuests`), not by
recursion.

**`Stays_proofs`.** `TypeCorrect`; `CalendarSafe` (`OverlapOnlyUnchecked`),
`GuestKeepsRoom`, `OccupiedByGuest`, `DirtyOnBoard`, `MaintenanceOnBoard`,
`StepsLegal`, `VacatedIsQueued`, `BookingsHoldRooms`. The calendar property is
inductive with the types: a service that adds a claim has checked it against
all others, or marks its booking. The four room properties are proved together
as `RoomInv`, since they need one another: a task is completed to "available"
only if nobody is in house, and a check-out makes a room dirty only if it was
occupied. `BookingsHoldRooms` is not inductive alone: a booking that does not
exist must have left no room (`HoldInv`), or it could be created in a room it
left.

`ImplementsCalendar`, in the same module: every initial state maps to an
initial state, and every step to a `Reserve`, an `Override` or a stutter.
`CalendarPromise` is the abstract invariant carried over. The lemmas
`IsReservation`, `IsRelease`, `IsOverride`, `IsRoomChange` say which change of
`Stays` is which abstract step.

**`StayTransactions_proofs`.** `TypeCorrect`, and
`LocksPreventDoubleBooking`, under `SafeKinds`: dates are not edited, check-outs
are not reversed, and check-in and cancellation do not take part together. The
first of these exclusions is necessary (a replaced room is checked for dates
that an edit changes meanwhile), and the others remove the services that bring
a claim back without a check: a reversal, and a check-in that commits after a
cancellation. The inductive invariant `LockInv` says that locks are exclusive;
that what a running request has read still holds and its rooms are locked or
about to be; that after its check the rooms are still free (because whoever
would claim one must hold its lock); and that a booking with a guest has its
row in `checkins`, so a second check-in cannot revive a stay that has ended.
`LockInv` was checked with TLC on the instance of `tx_stay` before it was
proved.

`OrderedLocksNeverDeadlock` (`NoDeadlock`), for any finite set of requests, under
`OrderedKinds`: no cancellation takes part, which locks rooms in no order, and
no billed check-out, which holds its booking's row while it locks rooms (both
can deadlock, see [divergences](#divergences-without-a-run)). The invariant
`LocksOrdered` says that a request that still locks rooms holds only smaller
ones, and that one that has made its check holds no more than the rows it
updates; if all unfinished requests waited, the holder of the largest row waited
for would wait for a larger one.

`CheckOutIsFinal` (`CheckedOutStays`), if neither cancelling nor reversing takes
part. Requests write a status that they decided on before they waited, so the
inductive invariant `ArrivalInv` is about what they have read: that a booking to
be created is not there and nobody else creates it, that one to be checked out
has its row in `checkins`, and that whoever came has one. With a cancellation the
statement is false, as `tx_cancel` shows.

**`Session_proofs`.** `TypeCorrect`, `ShownUserOwnsSessionHolds`, for any number
of users, attempts and reloads. What is on screen says nothing of what will be
stored next, so the inductive invariant is about everything that may still come
to be shown or kept: there is one user (or none) to whom the cookie, the token,
the profile, the requests in flight and the refresh belong (`OneOwner`), until
an answer of an ended session is used. It changes hands only when a sign-in is
answered, and then nothing else of a living session is under way (`LoginAlone`).

**`Portal_proofs`.** `SessionOwnedHolds` carries this theorem to the portal as it
is composed. `TypesOKHolds` needs no strengthening: that a redirect leads to a
page is a fact about the guards and links for every role, tier and plan
(`GuardsToPages`, `LinksToPages`), and a call of the room pages is about a room of
the hotel and a status that the transition table offers, whatever other desks do
before it is answered.

**`Checkin_proofs`, `FrontDesk_proofs`**, about the pages of `MCFrontDesk` in
their cells; the first has the drafts, the scan and the bill of a check-in. Each
theorem is an invariant `page = "..." => Page!Why`, where `Why` is stated in the
page's module under "Why:", was checked with TLC on the instance first, and is
proved action by action.

| Theorem | The invariant and why it is needed |
| --- | --- |
| `DoneOnceHolds` | `ChargedOnce`: before the check-in is accepted nothing is paid and the total is at most that of the rooms, and a room without a walk-in's booking has none of its advance; at each request of the chain, what the server has and what the form still sends. `WaitingUnprinted`: a print job that waits, in the frame or in the timer, has not printed. `PrintsAskedFor`: sheets are printed at most as often as asked for, and less often while the print dialog is open. `OneUnlessTold`: until a failure is told, a booking exists exactly if its payment is due or its voucher shown |
| `MoneyAddsUpHolds` | `BalanceKept`: the balance that a submission carries is that of its bill, and what the server has charged once it answers; that two ways of rounding differ by a rupee at most is arithmetic on natural numbers. `PaymentsKept`: payments and requests are whole, so that each request moves the sums of the booking as it moves its payments; the sum of a set of payments is a fold, of which `SumOfMember` says that whichever payment is taken out, the rest is the sum of the others. `VoucherKept`: the advance that is sent is the one shown, unless the desk changed it meanwhile (`hasty`). The rows of a bill need no invariant |
| `GuestErrorStopsAllHolds` | `GuestFirst`: which half of an edit is on its way, and that the booking half goes out with an accepted guest half behind it, or in an edit that has none |
| `DocumentsHonestHolds` | `CameraHeld`: a panel that still asks has no stream, and a stream belongs to an open panel. `DocFollows`: while no two pictures crossed, at most one is on its way or the old document is being read, and the tile shows the one that is sent. `AboutAsWanted`: a number that is asked for is for the bill on screen |
| `ListsAgreeHolds` | `ListsOfBookings`: lists and their reads are sets of bookings, and the page number is at least one. `ListsHaveNewest`: a list that is not empty has a newest row, and the bill on screen is listed. `AddressFollows`: the address that comes last is what the page shows, unless the desk was led there (`led`), and then the page takes search and chip over before the router rests |
| `DraftsStayInHotelHolds`, `SurvivorsKeepPhotosHolds` | `HeldByHotel`: a draft is held, in storage, in a tab or by a save under way, only by the hotel that it was made in, and a save under way has an identifier that nothing holds yet; the second theorem is of an action property, from the same invariant |
| `ScanHonestHolds` | `ScansTyped`, `AddressOfBack`: an address comes from a back only, one back is read at a time, and the digits that are looked for are of the back whose QR code was found. The counter of the spinner is at most the number of awaited scans, by the cardinality of two sets of tasks |
| `PagesReachableHolds` | needs no invariant: menus and guards are functions of the role, tier, plan and status, and are compared for all of them |
| `OwnDetailsHolds` | `CardsInSlots`: as long as the desk waits for answers, each card shows what its slot of the list holds, with the Form C of its own, and an answer on its way is for a card that still has the place it had. A removed card moves the others up, in the list of keys and in the list of guests; that both filters move the same cards to the same places is `KeptInOrder`, from `PlacesInOrder`: the elements that a filter keeps are numbered without gaps in the order they had. `FormIsGuests`: the form is the chosen guest's from the answer on, and no answer is on its way while a new guest is created |

**`Screens_proofs`**, the check-out page with its services.
`TypeCorrect`, `NoSilentDueHolds`, `CheckedOutOnceHolds`, for any number of
bookings, any rent and any number of other desks' acts; `CheckOutKeptHolds` carries
the last two to the instance with its other screens. The inductive invariant
`IInv` adds to the types what a request in flight carries: one that allows a due
collects it or has a reason (`RequestAnswersForDue`). The page goes on editing its
draft while the request is on its way, so the fact is about the request and not
about the draft. For the second theorem it adds that a guest in the house was not
checked out before, and that nobody was more than once.

`TypesOKHolds`, in the same module: every screen of the receptionist keeps its
types, for any values of the constants. Few of them are inductive alone, so
each screen has a predicate of its own (`DraftTypes`, `VoucherTypes`, ...) that adds
what the other proofs leave open, and `TypesKept` joins it to the invariants
above. What had to be known:

- the voucher: what was saved, shared, printed or told, with what is being
  fetched for it, is at most what was asked for, so its counters stay within
  `MaxSends`;
- the bills: bills are never taken away, so one that the page knows was made
  (`KnownAreMade`), and the dialog for a number is about such a bill
  (`PhoneAboutMade`);
- the in-house guests: an edit under way carries values of the form, a copy that
  the page holds is null or a whole record, and sheets are printed at most as
  often as asked for;
- the booking lists: a page number is that of a row or the first, and any filter
  with another's search is a filter, since the address is written from both;
- the payments: a refund that was counted was asked for, and a request under way
  is whole;
- the documents: while the camera's answer is awaited, one more may be asked for;
- the menus: redirects lead to pages, for every role and for both hotels.

**`Office_proofs`**, about the pages of `MCOffice`, in the same way.

| Theorem | The invariant and why it is needed |
| --- | --- |
| `OwnRecordSavedHolds` | `FieldsOfHotel`, for the partner's page, which is mounted anew, and as `FieldsOfPage` for the admin's, which is not: fields and update under way are of the hotel on the page. `ModesOfPage`: a mode that is kept was wanted for it. `MembersKept`, `RequestsNumbered`: members are never removed, a dialog and a call are of a member that is there, and requests keep their numbers |
| `UntouchedRowsKeptHolds` | `RowsAsFilled`: a row that was not touched is as it was filled, or has lost its type because that was removed. `RowsAsListed`: one that was not edited is as the list had it. Both: a form that was filled at the click is not filled again until the update has ended, so the rows taken then are those it shows, and the list they are compared with is the one they were filled from. Without "filled at the click" (`listed`) neither holds |
| `CreatedAsFilledHolds` | `CreatedSoFar`: a type is made for its own row, nothing exists before the step that creates it, and a step left incomplete was reported so. `CreatedThen`: once a new row was created, the form is past that call or about to be filled anew |
| `RingsOnceHolds` | `SpentOnce`: an entry that rang, or never will, is known to the bell if it is in the list, or has left the list for good behind newer entries, by the cardinality of the list |
| `LatestShownHolds` | `ReadsSettle` of `HotelImages`: a call whose answer is on its way will bump the version; until then a read of the version that stands brings what is stored. `PreviewFollows` of `HotelSettings`: reads that live are of a version not older than the one shown. `EditorKept`: the least scale is always that of the frame and the turns, which is 19/20 of the scale that shows all of the picture, by arithmetic on fractions of natural numbers; a clamped offset is within the slack of its scale. `SignIn!IInv`: the invariant of `Session_proofs`, whose lemma `SessionKept` is cited through an instance in the cells |
| `ReceiptAsAddedHolds`, `ReceiptKeptHolds` | `LedgerInv`: an expense whose receipt is on its way is there, has none yet, is marked neither lost nor unsure (recorded, but answered by an error) and was meant to have that one; transitions under way are of expenses that are there; and only recorded expenses are marked, so that a new expense finds its number unmarked. The first theorem (with `LedgerTypeCorrect`) is of the page alone, the second of the instance |
| `TypesOKHolds` | `TypesKept`: the invariants above with what they leave open of each screen. `PicturesCounted`: the version of a picture and the calls under way are together at most the calls made, so that a version stays within its bound although each answer raises it; the dialogs of the team page are about members that are there; what the bell lists, and what it has alerted, are notifications there are |

Six of these proofs changed a model. `LatestShown` said of the gallery only that
a shown picture is not an old one; the invariant gave more, and the property now
says it. The attempt to prove `ScanHonest` failed where two backs are read at a
time, TLC then found the run (see [divergences](#divergences-without-a-run)), and
the property now makes no promise for it. The sums of a booking were said to be its
payments less its refunds always; the step of a refund could not be proved, and
TLC with a third payment found the deposit below zero that the refund lifts.
The balance of a check-in was taxed exactly on both sides, with a rate chosen to
split evenly; without an assumption that says so the two sides are rounded
differently, and the model now rounds as each of them does. `AddHotel`, `RequirementList`,
`Invoices` and `CheckinDrafts` state some lists as sets of rows or by positions,
where a proof would have needed a filter of sequences; TLC agrees that the lists
of drafts have no repetitions. The proof of `OwnDetails` asked what a slot of the
list holds that no card wrote: JavaScript tells a hole, which `filter` passes
over, from `undefined`, which copying the list puts in its place, and the model now
does too. And the types of the booking lists said that a page number is at most
the number of bookings, which is false of the first page when there are none.

**Only model-checked:** liveness (`EveryRequestEnds`, `StartUpEnds`,
`RedirectsEnd`, `DesksConverge`), which rests on fairness and ENABLED, outside the
prover's reach.

## Divergences without a run

Places where the models, or reading the code for them, showed something that
the five violation runs do not cover. Properties that would fail because of
them are stated with the exception in the formula or left out.

*Bookings and stays.* `check_in` accepts a dirty or occupied room, because
`assert_transition` passes when nothing changes (`stay.py:166`);
`check_availability` and `create_booking` differ on the same room today
(`bookings.py:39`); a day-use booking can get inverted times, and its claim
becomes empty (`bookings.py:554`); a replaced room is checked for dates that an
edit changed meanwhile (`bookings.py:697`); an edit of dates that sets a time to
null is checked with the old time and stored with the usual one
(`bookings.py:569-570`, 608-609); `_release_rooms` locks in no order
and can deadlock with a booking of the same rooms (`bookings.py:970`); a billed
check-out holds its booking's row and waits for its rooms, an edit of the dates
the other way round (`stay.py:1121`), which is why `tx_locks` has unbilled
check-outs only; the manual override can free a room into which a guest was
checked in meanwhile (`rooms.py:551`); two requests that find no open task make
two (`housekeeping.py:64`).

*Money.* The running balance and the advance are read and written without a
lock (`ledger.py:45`, `payments.py:360`); the refund debit of a check-out stays
when it is reversed (`stay.py:1203`); repricing in `update_booking` drops a
plain early fee; two `generate_invoice` requests bill a stay twice
(`invoices.py:60`); unequal halves of GST are printed wrong
(`invoices/page.tsx:699-737`), the rows of a print omit the security deposit,
and the public page of a cancelled bill shows it as paid. A refund takes what the
advance does not cover from the deposit and stops at zero (`payments.py:566`): if
a correction has left the deposit below zero, it is lifted, and the booking
holds more than its payments less its refunds (`floored` in `Payments`). The page
of the check-in rounds the tax of all lines at once, "matches backend money()"
(`checkin/page.tsx:4356`), but `calculate_gst` (`domain/gst.py`) rounds the two
halves of each line: the balance shown can be a rupee off for each taxed line.

*Check-out.* "so the numbers on screen are the numbers that get recorded"
(`checkout/page.tsx:317`) holds only for a fresh quote: `ShownIsRecorded` in
`Checkout` fails when another desk charges the stay in between. WhatsApp and
the native share always state a due of 0.00 (lines 664, 743), and an invoice
generated late may be that of another guest (499-502).

*Check-in.* The PATCH of a special request fails after the POST of the check-in
has succeeded (3117-3126), and the form reports a failure. A walk-in whose answer
was lost, submitted again, is refused for its own room and the form clears the room
(4927-4935); with another free room the next try (4886; `bookings.py:217-254`)
makes a second booking and takes the advance a second time. If the desk submits
before an upload or a profile has come (`hasty`), cards and party can differ. "after
autofill was already accepted" (`use-coordinated-id-scan.ts:8`) the address of a
back goes to the form; but when a second back is picked while the first is still
read, the digits that come late for the first bring its address back to the
banner and not to the form (`outlived` in `IdScan`).

*Advance booking.* `pgContactOverride` is typed and never sent (786-815); the
day-use rate is sent as a per-night rate after the dates have changed; a retry
after a failed advance meets its own booking; the fetch of an existing document
may overwrite a picture chosen meanwhile; an ID number that was asked for lands in
the form of whoever is chosen by then (888-897), so `OwnDetails` makes no promise
to a desk that chooses another guest before it has come (`hasty`).

*Lists.* Completed bookings mirror `from` and `to` into the address (757-768) and
do not take them over from it (770-790): a click on the plain menu link while dates
are chosen leaves an address without dates over a page with them.

*Dialogs.* A late answer closes the dialog of another record
(`current-guests`, `rooms/page.tsx:502`, `completed-bookings/page.tsx:642`,
`team/page.tsx:573`); the collect dialog keeps amount and reference
(`payments/page.tsx:876`); a failed edit leaves an old guest in the cache.

*Hotel forms.* The rows sent are those of the click, but the list they are compared
with is read when their turn comes (`edit-hotel/page.tsx:698`, 741). The button
does not wait for the requirements, and for the rooms only until their first read
has ended, if with an error (811): if such a list comes only after the click, no row of it is among those taken, so every room is sent
a delete and every requirement is taken out of service. `UntouchedRowsKept` excludes
just this case. If the settings query fails, defaults overwrite the flags; rows
whose creation failed vanish with the refill; in Add Hotel, rooms without a
type or with an unnamed one, and members filled in half, are left out silently;
the editor's provider holds one request, so a second one leaves the first
waiting for ever.

*Expenses.* A success wipes what was typed meanwhile (860-870); a lost answer
of the creating request (823-873) leaves an expense without its receipt and a plain
error, and a repetition then makes the expense twice; `transition_expense` reads its status
without a lock.

*Session and bell.* An answer to a request of the session that ended can end
or alter the next one (`client.ts:184-187`), `crossed` in `Session`; a
notification that arrives while the bell is mounted anew never rings, and page
and service differ in the categories of a role (`lib/permissions.ts:82`,
`core/permissions.py:254`); attendance-only staff of a hotel without that
module are sent back and forth (`Homeless` in `Navigation`).

## What is not modelled

*Backend.* The sweeps' stamps and the charges and ledger as interleaved
transactions: each is a module of the size of `StayTransactions`. What they do
to a booking is that of services that are modelled. Subscriptions, attendance,
daily closing, staff and the server side of tokens are record keeping with a
few guards; the hazards list names the race in subscriptions. Room inventory is a
constant in `Stays`, and rows are never deleted. A crash of the process is
`Rollback` of its transactions: nothing is kept outside the database. Static
tables, renderings, reports, mail and storage have no state transitions worth a
model.

*Portal.* What is drawn, worded and formatted; validation of single fields;
recognition of text and QR codes (an answer of any kind here); fine rotation
and resampling of pictures; CSV, PDF and report exports; the dashboard, reports,
attendance and staff pages, whose handlers send one request each; the platform
pages other than the two hotel forms; the product tour. Query errors that only
show a message are left out where no state depends on them.

*Combination.* The pages are composed with the part of a service that they
call, not with `StayTransactions`: the product would exceed what TLC can
enumerate, and other desks stand for it.
