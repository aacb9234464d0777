----------------------- MODULE StayTransactions_proofs -----------------------
(***************************************************************************)
(* Proofs about StayTransactions: types, and that the services which       *)
(* neither change dates nor bring a booking back cannot race into a double *)
(* booking, because each keeps the rooms it checks locked until it commits;*)
(* that requests which lock rooms in the order of their ids, and a booking *)
(* last, never wait for one another; and that a check-out is not undone.   *)
(***************************************************************************)
EXTENDS StayTransactions, TLAPS, FiniteSetTheorems, WellFoundedInduction

-----------------------------------------------------------------------------
(* Types *)

LEMMA JobType ==
    ASSUME NEW kind \in AllKinds, NEW b \in Bookings,
           NEW R \in SUBSET Rooms, NEW C \in SUBSET Rooms,
           NEW A \in SUBSET Rooms, NEW G \in SUBSET Rooms, NEW w \in Windows
    PROVE  Job(kind, b, R, C, A, G, w) \in Jobs
    BY DEF Job, Jobs

LEMMA NoWindowType == NoWindow \in Windows
    BY WindowsAssumption DEF NoWindow

LEMMA AvailableType ==
    ASSUME NEW R \in SUBSET Rooms
    PROVE  Job("set_available", NoBooking, R, {}, {}, {}, NoWindow) \in Jobs
    BY NoWindowType DEF Job, Jobs, AllKinds

LEMMA NoJobType == NoJob \in Jobs
    BY AvailableType DEF NoJob

LEMMA InitType == Init => TypeOK
    BY NoWindowType, NoJobType DEF Init, TypeOK, BookingStatuses, RoomStatuses

LEMMA BeginType ==
    ASSUME TypeOK, NEW p \in Requests, NEW j \in Jobs, Begin(p, j)
    PROVE  TypeOK'
<1>1. j.rooms \in SUBSET Rooms /\ (j.kind = "bill_out" => j.b \in Bookings)
    BY DEF Jobs
<1> QED
    BY <1>1 DEF TypeOK, Begin, dbVars

LEMMA AskType == ASSUME TypeOK, NEW p \in Requests, Ask(p) PROVE TypeOK'
<1>1. ASSUME NEW b \in Bookings, NEW S \in RoomSets, NEW w \in Windows,
             NEW kind \in {"create", "walk_in"}, AskBooking(p, b, S, w, kind)
      PROVE  TypeOK'
  <2>1. Job(kind, b, S, S, S, {}, w) \in Jobs
      BY JobType DEF RoomSets, AllKinds
  <2> QED
      BY <1>1, <2>1, BeginType DEF AskBooking
<1>2. ASSUME NEW b \in Bookings, NEW w \in Windows, AskDates(p, b, w)
      PROVE  TypeOK'
  <2>1. Job("update_dates", b, current[b], current[b], {}, {}, w) \in Jobs
      BY JobType DEF TypeOK, AllKinds
  <2> QED
      BY <1>2, <2>1, BeginType DEF AskDates
<1>3. ASSUME NEW b \in Bookings, NEW from \in Rooms, NEW to \in Rooms,
             NEW kind \in {"replace", "transfer"},
             Begin(p, Job(kind, b, {from, to}, {to}, {to}, {from}, window[b]))
      PROVE  TypeOK'
  <2>1. Job(kind, b, {from, to}, {to}, {to}, {from}, window[b]) \in Jobs
      BY JobType DEF TypeOK, AllKinds
  <2> QED
      BY <1>3, <2>1, BeginType
<1>4. ASSUME NEW b \in Bookings, NEW r \in Rooms, AskAdd(p, b, r)
      PROVE  TypeOK'
  <2>1. Job("add", b, {r}, {r}, {r}, {}, window[b]) \in Jobs
      BY JobType DEF TypeOK, AllKinds
  <2> QED
      BY <1>4, <2>1, BeginType DEF AskAdd
<1>5. ASSUME NEW b \in Bookings,
             NEW kind \in {"cancel", "check_in", "check_out", "bill_out", "reverse"},
             AskStatus(p, b, kind)
      PROVE  TypeOK'
  <2>1. Job(kind, b, current[b], {}, {}, {}, window[b]) \in Jobs
      BY JobType DEF TypeOK, AllKinds
  <2> QED
      BY <1>5, <2>1, BeginType DEF AskStatus
<1> QED
    BY <1>1, <1>2, <1>3, <1>4, <1>5 DEF Ask, AskReplace, AskTransfer

LEMMA AskAvailableType ==
    ASSUME TypeOK, NEW p \in Requests, NEW r \in Rooms, AskAvailable(p, r)
    PROVE  TypeOK'
    BY AvailableType, BeginType DEF AskAvailable

LEMMA EndType ==
    ASSUME TypeOK, NEW p \in Requests, End(p)
    PROVE  /\ phase' \in [Requests -> {"idle", "locking", "checked"}]
           /\ job' \in [Requests -> Jobs]
           /\ want' \in [Requests -> SUBSET (Rooms \union Bookings)]
           /\ held' \in [Requests -> SUBSET (Rooms \union Bookings)]
    BY NoJobType DEF TypeOK, End, Jobs

LEMMA CommitType == ASSUME TypeOK, NEW p \in Requests, Commit(p) PROVE TypeOK'
<1> DEFINE j == job[p]
<1>1. j \in Jobs
    BY DEF TypeOK, Jobs
<1>2. \A b \in Bookings : Written(j.kind, status[b]) \in BookingStatuses \union {"none"}
    BY DEF TypeOK, Written, BookingStatuses
<1>3. status' \in [Bookings -> BookingStatuses \union {"none"}]
    BY <1>2 DEF Commit, TypeOK
<1>4. window' \in [Bookings -> Windows]
    BY <1>1 DEF Commit, TypeOK, Jobs
<1>5. current' \in [Bookings -> SUBSET Rooms] /\ past' \in [Bookings -> SUBSET Rooms]
    BY <1>1 DEF Commit, TypeOK, Jobs
<1>6. room' \in [Rooms -> RoomStatuses]
    BY DEF Commit, TypeOK, RoomStatuses
<1>7. checkins' \in SUBSET Bookings
    BY <1>1 DEF Commit, TypeOK, Jobs, Arrives
<1> QED
    BY <1>3, <1>4, <1>5, <1>6, <1>7, EndType DEF Commit, TypeOK, Jobs

LEMMA NextType == TypeOK /\ [Next]_vars => TypeOK'
<1> SUFFICES ASSUME TypeOK, Next \/ UNCHANGED vars PROVE TypeOK'
    OBVIOUS
<1>1. ASSUME NEW p \in Requests, NEW row \in Rooms \union Bookings, Lock(p, row)
      PROVE  TypeOK'
    BY <1>1 DEF Lock, TypeOK, dbVars
<1>2. ASSUME NEW p \in Requests, Check(p) PROVE TypeOK'
    BY <1>2 DEF Check, TypeOK, dbVars
<1>3. ASSUME NEW p \in Requests, Refuse(p) \/ Rollback(p) PROVE TypeOK'
    BY <1>3, EndType DEF Refuse, Rollback, TypeOK, dbVars
<1>4. CASE UNCHANGED vars
    BY <1>4 DEF vars, dbVars, requestVars, TypeOK
<1> QED
    BY <1>1, <1>2, <1>3, <1>4, AskType, AskAvailableType, CommitType
    DEF Next, LockSome, Step

\* The columns of the tables and the requests keep their types.
THEOREM TypeCorrect == Spec => []TypeOK
    BY InitType, NextType, PTL DEF Spec

-----------------------------------------------------------------------------
(* No double booking *)

\* Services that neither move a booking's window nor revive its claims: no
\* date edits, no reversal, and no cancelling while guests are checked in.
SafeKinds ==
    /\ Kinds \cap {"update_dates", "reverse"} = {}
    /\ "check_in" \in Kinds => "cancel" \notin Kinds

\* Row locks are exclusive.
LocksExclusive ==
    \A p, q \in Requests : p # q => held[p] \cap held[q] = {}

\* A booking that does not exist claims nothing.
NoneIsEmpty == \A b \in Bookings : status[b] = "none" => current[b] = {}

\* Where guests are checked in, a booking has its row in checkins or waits for
\* its guest.
Arrivals ==
    "check_in" \in Kinds =>
        \A b \in Bookings : status[b] \in {"none", "confirmed"} \/ b \in checkins

\* What a running request has read still holds, and its rooms are locked, or
\* about to be.
JobOK(p) ==
    LET j == job[p]
    IN  /\ j.kind \in Kinds
        /\ j.checked = j.added /\ j.added \subseteq j.rooms
        /\ j.kind # "set_available" => j.rooms \subseteq want[p] \union held[p]
        /\ j.kind = "set_available" => j.added = {}
        /\ Inserts(j) => /\ status[j.b] = "none"
                         /\ \A q \in Requests \ {p} :
                               phase[q] # "idle" /\ Inserts(job[q])
                               => job[q].b # j.b
        /\ ~Inserts(j) /\ j.kind # "set_available" =>
               status[j.b] # "none" /\ (j.added # {} => window[j.b] = j.w)
        /\ j.kind \in {"check_out", "bill_out"} /\ "check_in" \in Kinds
               => j.b \in checkins

\* A request that has passed its checks would pass them again.
StillFree(p) ==
    phase[p] = "checked" => want[p] = {} /\ NoOverlap(job[p].b, job[p].checked, job[p].w)

LockInv ==
    /\ TypeOK
    /\ LocksExclusive
    /\ NoneIsEmpty
    /\ Arrivals
    /\ \A p \in Requests : phase[p] # "idle" => JobOK(p) /\ StillFree(p)
    /\ NoDoubleBooking

LEMMA OverlapsSymmetric == \A v, w : Overlaps(v, w) <=> Overlaps(w, v)
    BY DEF Overlaps

LEMMA InitLocks == Init => LockInv
    BY InitType
    DEF Init, LockInv, LocksExclusive, NoneIsEmpty, Arrivals, NoDoubleBooking,
        Claims, Active

\* Requests that commit nothing leave the database as it is, and no request
\* without its locks.
LEMMA QuietKeeps ==
    ASSUME LockInv, TypeOK', UNCHANGED dbVars, LocksExclusive',
           \A p \in Requests : phase'[p] # "idle" => JobOK(p)' /\ StillFree(p)'
    PROVE  LockInv'
    BY DEF LockInv, dbVars, NoneIsEmpty, Arrivals, NoDoubleBooking, Claims

\* What another request has read and locked does not change when p begins,
\* locks a row, checks or ends.
LEMMA OthersKeep ==
    ASSUME LockInv, NEW p \in Requests, NEW q \in Requests, q # p,
           UNCHANGED dbVars, phase'[q] = phase[q], job'[q] = job[q],
           want'[q] = want[q], held'[q] = held[q], phase[q] # "idle",
           Inserts(job[q]) => phase'[p] = "idle" \/ ~Inserts(job'[p])
                              \/ job'[p].b # job[q].b,
           \A o \in Requests \ {p} : phase'[o] = phase[o] /\ job'[o] = job[o]
    PROVE  JobOK(q)' /\ StillFree(q)'
<1>1. JobOK(q) /\ StillFree(q)
    BY DEF LockInv
<1>2. StillFree(q)'
    BY <1>1 DEF StillFree, NoOverlap, Claims, dbVars
<1>3. JobOK(q)'
    BY <1>1 DEF JobOK, Inserts, dbVars
<1> QED
    BY <1>2, <1>3

LEMMA EndKeeps ==
    ASSUME LockInv, NEW p \in Requests, Refuse(p) \/ Rollback(p)
    PROVE  LockInv'
<1>1. UNCHANGED dbVars /\ End(p)
    BY DEF Refuse, Rollback
<1>2. TypeOK'
    BY <1>1, EndType DEF LockInv, TypeOK, dbVars
<1>3. LocksExclusive'
    BY <1>1 DEF LockInv, LocksExclusive, End, TypeOK
<1>4. ASSUME NEW q \in Requests, phase'[q] # "idle"
      PROVE  JobOK(q)' /\ StillFree(q)'
  <2>1. /\ q # p /\ phase'[p] = "idle" /\ phase[q] # "idle"
        /\ phase'[q] = phase[q] /\ job'[q] = job[q]
        /\ want'[q] = want[q] /\ held'[q] = held[q]
        /\ \A o \in Requests \ {p} : phase'[o] = phase[o] /\ job'[o] = job[o]
      BY <1>1, <1>4 DEF End, LockInv, TypeOK
  <2> QED
      BY <1>1, <2>1, OthersKeep
<1> QED
    BY <1>1, <1>2, <1>3, <1>4, QuietKeeps

LEMMA LockKeeps ==
    ASSUME LockInv, NEW p \in Requests, NEW row \in Rooms \union Bookings,
           Lock(p, row)
    PROVE  LockInv'
<1>1. UNCHANGED dbVars /\ phase' = phase /\ job' = job
    BY DEF Lock
<1>2. TypeOK'
    BY DEF LockInv, Lock, TypeOK, dbVars
<1>3. LocksExclusive'
    BY DEF LockInv, LocksExclusive, Lock, TypeOK
<1>4. ASSUME NEW q \in Requests, phase'[q] # "idle"
      PROVE  JobOK(q)' /\ StillFree(q)'
  <2>1. JobOK(q) /\ StillFree(q)
      BY <1>1, <1>4 DEF LockInv
  <2>2. /\ want'[q] \subseteq want[q]
        /\ want[q] \union held[q] \subseteq want'[q] \union held'[q]
      BY DEF Lock, LockInv, TypeOK
  <2>3. JobOK(q)'
      BY <1>1, <2>1, <2>2 DEF JobOK, Inserts, dbVars
  <2>4. StillFree(q)'
      BY <1>1, <2>1, <2>2 DEF StillFree, NoOverlap, Claims, dbVars
  <2> QED
      BY <2>3, <2>4
<1> QED
    BY <1>1, <1>2, <1>3, <1>4, QuietKeeps

LEMMA CheckKeeps ==
    ASSUME LockInv, NEW p \in Requests, Check(p)
    PROVE  LockInv'
<1>1. UNCHANGED dbVars /\ job' = job /\ want' = want /\ held' = held
    BY DEF Check
<1>2. TypeOK'
    BY DEF LockInv, Check, TypeOK, dbVars
<1>3. LocksExclusive'
    BY <1>1 DEF LockInv, LocksExclusive
<1>4. /\ phase[p] # "idle" /\ phase'[p] = "checked"
      /\ \A q \in Requests \ {p} : phase'[q] = phase[q]
    BY DEF Check, LockInv, TypeOK
<1>5. ASSUME NEW q \in Requests, phase'[q] # "idle"
      PROVE  JobOK(q)' /\ StillFree(q)'
  <2>1. JobOK(q) /\ StillFree(q)
      BY <1>4, <1>5 DEF LockInv
  <2>2. JobOK(q)'
      BY <1>1, <1>4, <2>1 DEF JobOK, Inserts, dbVars
  <2>3. CASE q = p
    <3>1. want[p] = {} /\ NoOverlap(job[p].b, job[p].checked, job[p].w)
        BY DEF Check, Passes
    <3> QED
        BY <1>1, <2>2, <2>3, <3>1 DEF StillFree, NoOverlap, Claims, dbVars
  <2>4. CASE q # p
      BY <1>1, <1>4, <2>1, <2>2, <2>4 DEF StillFree, NoOverlap, Claims, dbVars
  <2> QED
      BY <2>3, <2>4
<1> QED
    BY <1>1, <1>2, <1>3, <1>5, QuietKeeps

\* A request begins with what it has read, and without checks made.
LEMMA BeginKeeps ==
    ASSUME LockInv, NEW p \in Requests, NEW j \in Jobs, Begin(p, j),
           j.checked = j.added, j.added \subseteq j.rooms,
           j.kind = "set_available" => j.added = {},
           Inserts(j) =>
               /\ status[j.b] = "none"
               /\ \A q \in Requests :
                     phase[q] # "idle" /\ Inserts(job[q]) => job[q].b # j.b,
           ~Inserts(j) /\ j.kind # "set_available" =>
               status[j.b] # "none" /\ (j.added # {} => window[j.b] = j.w),
           j.kind \in {"check_out", "bill_out"} /\ "check_in" \in Kinds
               => j.b \in checkins
    PROVE  LockInv'
<1>1. UNCHANGED dbVars /\ held' = held
    BY DEF Begin
<1>2. TypeOK'
    BY BeginType DEF LockInv
<1>3. LocksExclusive'
    BY <1>1 DEF LockInv, LocksExclusive
<1>4. /\ phase[p] = "idle" /\ job'[p] = j /\ j.kind \in Kinds
      /\ phase'[p] = IF j.kind = "set_available" THEN "checked" ELSE "locking"
      /\ j.kind = "set_available" => want'[p] = {}
      /\ j.kind # "set_available" => j.rooms \subseteq want'[p]
      /\ \A q \in Requests \ {p} :
            phase'[q] = phase[q] /\ job'[q] = job[q] /\ want'[q] = want[q]
    BY DEF Begin, LockInv, TypeOK
<1>5. ASSUME NEW q \in Requests, phase'[q] # "idle"
      PROVE  JobOK(q)' /\ StillFree(q)'
  <2>1. CASE q = p
    <3>1. StillFree(p)'
        BY <1>4 DEF StillFree, NoOverlap
    <3>2. \A o \in Requests \ {p} : phase'[o] = phase[o] /\ job'[o] = job[o]
        BY <1>4
    <3>3. JobOK(p)'
        BY <1>1, <1>4, <3>2 DEF JobOK, Inserts, dbVars
    <3> QED
        BY <2>1, <3>1, <3>3
  <2>2. CASE q # p
    <3>1. phase[q] # "idle"
        BY <1>4, <1>5, <2>2
    <3>2. Inserts(job[q]) => ~Inserts(job'[p]) \/ job'[p].b # job[q].b
        BY <1>4, <3>1
    <3> QED
        BY <1>1, <1>4, <2>2, <3>1, <3>2, OthersKeep
  <2> QED
      BY <2>1, <2>2
<1> QED
    BY <1>1, <1>2, <1>3, <1>5, QuietKeeps

LEMMA AskKeeps ==
    ASSUME LockInv, SafeKinds, NEW p \in Requests, Ask(p)
    PROVE  LockInv'
<1> USE DEF Job, Inserts
<1>1. ASSUME NEW b \in Bookings, NEW S \in RoomSets, NEW w \in Windows,
             NEW kind \in {"create", "walk_in"}, AskBooking(p, b, S, w, kind)
      PROVE  LockInv'
  <2>1. Job(kind, b, S, S, S, {}, w) \in Jobs
      BY JobType DEF RoomSets, AllKinds
  <2> QED
      BY <1>1, <2>1, BeginKeeps DEF AskBooking
<1>2. ASSUME NEW b \in Bookings, NEW w \in Windows, AskDates(p, b, w)
      PROVE  LockInv'
    BY <1>2 DEF AskDates, Begin, SafeKinds
<1>3. ASSUME NEW b \in Bookings, NEW from \in Rooms, NEW to \in Rooms,
             NEW kind \in {"replace", "transfer"}, status[b] # "none",
             Begin(p, Job(kind, b, {from, to}, {to}, {to}, {from}, window[b]))
      PROVE  LockInv'
  <2>1. Job(kind, b, {from, to}, {to}, {to}, {from}, window[b]) \in Jobs
      BY JobType DEF LockInv, TypeOK, AllKinds
  <2> QED
      BY <1>3, <2>1, BeginKeeps
<1>4. ASSUME NEW b \in Bookings, NEW r \in Rooms, AskAdd(p, b, r)
      PROVE  LockInv'
  <2>1. Job("add", b, {r}, {r}, {r}, {}, window[b]) \in Jobs
      BY JobType DEF LockInv, TypeOK, AllKinds
  <2> QED
      BY <1>4, <2>1, BeginKeeps DEF AskAdd
<1>5. ASSUME NEW b \in Bookings,
             NEW kind \in {"cancel", "check_in", "check_out", "bill_out", "reverse"},
             AskStatus(p, b, kind)
      PROVE  LockInv'
  <2>1. Job(kind, b, current[b], {}, {}, {}, window[b]) \in Jobs
      BY JobType DEF LockInv, TypeOK, AllKinds
  <2>2. status[b] # "none"
      BY <1>5 DEF AskStatus, Expected
  <2>3. kind \in {"check_out", "bill_out"} /\ "check_in" \in Kinds
        => b \in checkins
      BY <1>5 DEF AskStatus, Expected, LockInv, Arrivals
  <2> QED
      BY <1>5, <2>1, <2>2, <2>3, BeginKeeps DEF AskStatus
<1>6. ASSUME NEW b \in Bookings, NEW from \in Rooms, NEW to \in Rooms,
             AskReplace(p, b, from, to) \/ AskTransfer(p, b, from, to)
      PROVE  LockInv'
    BY <1>3, <1>6 DEF AskReplace, AskTransfer
<1> HIDE DEF Job, Inserts
<1> QED
    BY <1>1, <1>2, <1>4, <1>5, <1>6 DEF Ask

LEMMA AskAvailableKeeps ==
    ASSUME LockInv, NEW p \in Requests, NEW r \in Rooms, AskAvailable(p, r)
    PROVE  LockInv'
<1>1. Job("set_available", NoBooking, {r}, {}, {}, {}, NoWindow) \in Jobs
    BY AvailableType
<1> QED
    BY <1>1, BeginKeeps DEF AskAvailable, Job, Inserts

\* A commit claims only rooms that it has added, for the window checked.
LEMMA CommitClaims ==
    ASSUME LockInv, SafeKinds, NEW p \in Requests, Commit(p),
           NEW c \in Bookings, NEW r \in Rooms, Claims(c, r)'
    PROVE  \/ Claims(c, r) /\ window'[c] = window[c]
           \/ c = job[p].b /\ r \in job[p].added /\ window'[c] = job[p].w
<1> DEFINE j == job[p]
<1>1. JobOK(p) /\ j \in Jobs
    BY DEF Commit, LockInv, TypeOK
<1>2. /\ status'[c] = IF c = j.b THEN Written(j.kind, status[c]) ELSE status[c]
      /\ current'[c] = IF c = j.b THEN (current[c] \ j.gone) \union j.added
                       ELSE current[c]
      /\ window'[c] = IF c = j.b /\ (Inserts(j) \/ j.kind = "update_dates")
                        THEN j.w ELSE window[c]
    BY DEF Commit
<1>3. status'[c] \in Active /\ r \in current'[c]
    BY DEF Claims
<1>4. CASE c # j.b
    BY <1>2, <1>3, <1>4 DEF Claims
<1>5. CASE c = j.b /\ Inserts(j)
  <2>1. status[c] = "none" /\ current[c] = {}
      BY <1>1, <1>5 DEF JobOK, LockInv, NoneIsEmpty
  <2> QED
      BY <1>2, <1>3, <1>5, <2>1
<1>6. CASE c = j.b /\ ~Inserts(j)
  <2>1. /\ j.kind \in Kinds
        /\ j.kind = "set_available" => j.added = {}
        /\ j.kind # "set_available" =>
              status[c] # "none" /\ (j.added # {} => window[c] = j.w)
      BY <1>1, <1>6 DEF JobOK
  <2>2. window'[c] = window[c]
      BY <1>2, <1>6, <2>1 DEF SafeKinds
  <2>3. CASE r \in j.added
      BY <1>6, <2>1, <2>2, <2>3
  <2>4. CASE r \notin j.added
    <3>1. r \in current[c]
        BY <1>2, <1>3, <1>6, <2>4
    <3>2. CASE j.kind = "check_in"
      <4>1. c \notin checkins
          BY <1>6, <3>2 DEF Commit, Unique, Arrives
      <4>2. status[c] = "confirmed"
          BY <2>1, <3>2, <4>1 DEF LockInv, Arrivals
      <4> QED
          BY <2>2, <3>1, <4>2 DEF Claims, Active
    <3>3. CASE j.kind # "check_in"
      <4>1. status'[c] = status[c]
          BY <1>2, <1>3, <1>6, <2>1, <3>3
          DEF Written, Inserts, SafeKinds, Active
      <4> QED
          BY <1>3, <2>2, <3>1, <4>1 DEF Claims
    <3> QED
        BY <3>2, <3>3
  <2> QED
      BY <2>3, <2>4
<1> QED
    BY <1>4, <1>5, <1>6

LEMMA CommitKeeps ==
    ASSUME LockInv, SafeKinds, NEW p \in Requests, Commit(p)
    PROVE  LockInv'
<1> DEFINE j == job[p]
<1>1. /\ JobOK(p) /\ StillFree(p) /\ phase[p] = "checked" /\ End(p)
      /\ j \in Jobs /\ Unique(j)
    BY DEF Commit, LockInv, TypeOK
<1>2. TypeOK'
    BY CommitType DEF LockInv
<1>3. LocksExclusive'
    BY <1>1 DEF LockInv, LocksExclusive, End, TypeOK
<1>4. /\ phase'[p] = "idle"
      /\ \A q \in Requests \ {p} :
            /\ phase'[q] = phase[q] /\ job'[q] = job[q]
            /\ want'[q] = want[q] /\ held'[q] = held[q]
    BY <1>1 DEF End, LockInv, TypeOK
<1>5. \A b \in Bookings :
        /\ status'[b] = IF b = j.b THEN Written(j.kind, status[b]) ELSE status[b]
        /\ current'[b] = IF b = j.b THEN (current[b] \ j.gone) \union j.added
                         ELSE current[b]
        /\ window'[b] = IF b = j.b /\ (Inserts(j) \/ j.kind = "update_dates")
                          THEN j.w ELSE window[b]
    BY DEF Commit
<1>6. checkins' = IF Arrives(j) THEN checkins \union {j.b} ELSE checkins
    BY DEF Commit
<1>7. NoneIsEmpty'
  <2> SUFFICES ASSUME NEW b \in Bookings, status'[b] = "none"
               PROVE  current'[b] = {}
      BY DEF NoneIsEmpty
  <2>1. status[b] = "none"
      BY <1>5 DEF Written
  <2>2. current[b] = {}
      BY <2>1 DEF LockInv, NoneIsEmpty
  <2>3. b = j.b => j.added = {}
      BY <1>1, <1>5, <2>1 DEF JobOK, Written, Inserts
  <2> QED
      BY <1>5, <2>2, <2>3
<1>8. Arrivals'
  <2> SUFFICES ASSUME "check_in" \in Kinds, NEW b \in Bookings
               PROVE  status'[b] \in {"none", "confirmed"} \/ b \in checkins'
      BY DEF Arrivals
  <2>1. status[b] \in {"none", "confirmed"} \/ b \in checkins
      BY DEF LockInv, Arrivals
  <2>2. b = j.b /\ j.kind \in {"check_out", "bill_out"} => b \in checkins
      BY <1>1 DEF JobOK
  <2>3. j.kind \in Kinds \ {"cancel", "reverse"}
      BY <1>1 DEF JobOK, SafeKinds
  <2> QED
      BY <1>5, <1>6, <2>1, <2>2, <2>3 DEF Written, Arrives
<1>9. ASSUME NEW q \in Requests, phase'[q] # "idle"
      PROVE  JobOK(q)' /\ StillFree(q)'
  <2> DEFINE k == job[q]
  <2>1. /\ q # p /\ phase[q] # "idle" /\ k \in Jobs
        /\ JobOK(q) /\ StillFree(q)
      BY <1>4, <1>9 DEF LockInv, TypeOK
  <2>2. Inserts(k) => status'[k.b] = "none"
    <3> SUFFICES ASSUME Inserts(k) PROVE status'[k.b] = "none"
        OBVIOUS
    <3>1. status[k.b] = "none" /\ k.b \in Bookings
        BY <2>1 DEF JobOK, Inserts, Jobs
    <3>2. k.b = j.b => ~Inserts(j)
        BY <1>1, <2>1 DEF JobOK
    <3>3. k.b = j.b => j.kind = "set_available"
        BY <1>1, <3>1, <3>2 DEF JobOK
    <3> QED
        BY <1>5, <3>1, <3>3 DEF Written
  <2>3. ~Inserts(k) /\ k.kind # "set_available" =>
            status'[k.b] # "none" /\ (k.added # {} => window'[k.b] = k.w)
    <3> SUFFICES ASSUME ~Inserts(k), k.kind # "set_available"
                 PROVE  status'[k.b] # "none"
                        /\ (k.added # {} => window'[k.b] = k.w)
        OBVIOUS
    <3>1. /\ k.b \in Bookings /\ status[k.b] # "none"
          /\ k.added # {} => window[k.b] = k.w
        BY <2>1 DEF JobOK, Jobs
    <3>2. k.b = j.b => ~Inserts(j)
        BY <1>1, <3>1 DEF JobOK
    <3>3. j.kind # "update_dates"
        BY <1>1 DEF JobOK, SafeKinds
    <3> QED
        BY <1>5, <3>1, <3>2, <3>3 DEF Written
  <2>4. JobOK(q)'
    <3>1. \A o \in Requests \ {q} :
             phase'[o] # "idle" => phase[o] # "idle" /\ job'[o] = job[o]
        BY <1>4
    <3>2. checkins \subseteq checkins'
        BY <1>6
    <3> QED
        BY <1>4, <2>1, <2>2, <2>3, <3>1, <3>2 DEF JobOK, Inserts
  <2>5. StillFree(q)'
    <3> SUFFICES ASSUME phase[q] = "checked",
                        NEW c \in Bookings \ {k.b}, NEW r \in k.checked,
                        Claims(c, r)'
                 PROVE  ~Overlaps(window'[c], k.w)
        BY <1>4, <2>1 DEF StillFree, NoOverlap
    <3>1. /\ want[q] = {} /\ NoOverlap(k.b, k.checked, k.w)
          /\ k.checked \subseteq Rooms
        BY <2>1 DEF StillFree, Jobs
    <3>2. CASE Claims(c, r) /\ window'[c] = window[c]
        BY <3>1, <3>2 DEF NoOverlap
    <3>3. CASE c = j.b /\ r \in j.added
      <4>1. r \in held[q]
          BY <2>1, <3>1 DEF JobOK
      <4>2. r \in held[p]
          BY <1>1, <3>3 DEF JobOK, StillFree
      <4> QED
          BY <2>1, <4>1, <4>2 DEF LockInv, LocksExclusive
    <3> QED
        BY <3>1, <3>2, <3>3, CommitClaims
  <2> QED
      BY <2>4, <2>5
<1>10. NoDoubleBooking'
  <2> SUFFICES ASSUME NEW b \in Bookings, NEW c \in Bookings, NEW r \in Rooms,
                      b # c, Claims(b, r)', Claims(c, r)'
               PROVE  ~Overlaps(window'[b], window'[c])
      BY DEF NoDoubleBooking
  <2> DEFINE Old(d) == Claims(d, r) /\ window'[d] = window[d]
             New(d) == d = j.b /\ r \in j.added /\ window'[d] = j.w
  <2>1. (Old(b) \/ New(b)) /\ (Old(c) \/ New(c))
      BY CommitClaims
  <2>2. r \in j.added => r \in j.checked /\ NoOverlap(j.b, j.checked, j.w)
      BY <1>1 DEF JobOK, StillFree
  <2>3. CASE Old(b) /\ Old(c)
      BY <2>3 DEF LockInv, NoDoubleBooking
  <2>4. CASE Old(b) /\ New(c)
      BY <2>2, <2>4 DEF NoOverlap
  <2>5. CASE New(b) /\ Old(c)
    <3>1. ~Overlaps(window[c], j.w)
        BY <2>2, <2>5 DEF NoOverlap
    <3> QED
        BY <2>5, <3>1, OverlapsSymmetric
  <2> QED
      BY <2>1, <2>3, <2>4, <2>5
<1> QED
    BY <1>2, <1>3, <1>7, <1>8, <1>9, <1>10 DEF LockInv

\* Requests that create bookings, add, replace and transfer rooms, cancel and
\* check out, in any number and however they interleave, never claim one room
\* for two bookings at overlapping times: the overlap check holds until the
\* commit because the rooms stay locked.
THEOREM LocksPreventDoubleBooking ==
    ASSUME SafeKinds PROVE Spec => []NoDoubleBooking
<1>1. LockInv /\ [Next]_vars => LockInv'
  <2> SUFFICES ASSUME LockInv, Next \/ UNCHANGED vars PROVE LockInv'
      OBVIOUS
  <2>1. CASE UNCHANGED vars
    <3>1. TypeOK'
        BY <2>1, NextType DEF LockInv
    <3> QED
        BY <2>1, <3>1
        DEF vars, dbVars, requestVars, LockInv, LocksExclusive, NoneIsEmpty,
            Arrivals, NoDoubleBooking, Claims, JobOK, StillFree, NoOverlap
  <2> QED
      BY <2>1, AskKeeps, AskAvailableKeeps, LockKeeps, CheckKeeps, CommitKeeps,
         EndKeeps, SafeKinds DEF Next, LockSome, Step
<1>2. LockInv => NoDoubleBooking
    BY DEF LockInv
<1> QED
    BY <1>1, <1>2, InitLocks, PTL DEF Spec

-----------------------------------------------------------------------------
(* No deadlock *)

\* Services that lock the rooms in the order of their ids and the booking's
\* row after them: all but cancelling and billing at check-out.
OrderedKinds == Kinds \cap {"cancel", "bill_out"} = {}

\* A request that locks rooms asks for a higher one than it holds; one that
\* has checked asks for the rows it updates, and then for nothing.
RowsInOrder(p) ==
    /\ job[p].kind \in Kinds
    /\ phase[p] = "locking" =>
         /\ job[p].kind # "set_available"
         /\ held[p] \subseteq Rooms /\ want[p] \subseteq Rooms
         /\ \A r \in held[p], s \in want[p] : r < s
    /\ phase[p] = "checked" =>
         /\ held[p] \cap Bookings \subseteq FlushedRows(job[p])
         /\ job[p].kind = "set_available" =>
              \E r \in Rooms : job[p].rooms = {r} /\ held[p] \subseteq {r}

LocksOrdered ==
    \A p \in Requests :
        IF phase[p] = "idle" THEN held[p] = {} ELSE RowsInOrder(p)

LEMMA InitOrder == Init => LocksOrdered
    BY DEF Init, LocksOrdered

\* A step of p leaves the rows of the other requests as they are.
LEMMA OrderStep ==
    ASSUME LocksOrdered, NEW p \in Requests,
           \A q \in Requests \ {p} :
              /\ phase'[q] = phase[q] /\ job'[q] = job[q]
              /\ want'[q] = want[q] /\ held'[q] = held[q],
           IF phase'[p] = "idle" THEN held'[p] = {} ELSE RowsInOrder(p)'
    PROVE  LocksOrdered'
<1> SUFFICES ASSUME NEW q \in Requests \ {p}
             PROVE  IF phase'[q] = "idle" THEN held'[q] = {} ELSE RowsInOrder(q)'
    BY DEF LocksOrdered
<1>1. CASE phase[q] = "idle"
    BY <1>1 DEF LocksOrdered
<1>2. CASE phase[q] # "idle"
  <2>1. RowsInOrder(q)
      BY <1>2 DEF LocksOrdered
  <2> QED
      BY <1>2, <2>1 DEF RowsInOrder
<1> QED
    BY <1>1, <1>2

LEMMA BeginOrder ==
    ASSUME TypeOK, LocksOrdered, OrderedKinds, NEW p \in Requests, NEW j \in Jobs,
           Begin(p, j),
           j.kind = "set_available" => \E r \in Rooms : j.rooms = {r}
    PROVE  LocksOrdered'
<1>1. /\ phase[p] = "idle" /\ held[p] = {} /\ held' = held
      /\ job'[p] = j /\ j.kind \in Kinds
      /\ phase'[p] = IF j.kind = "set_available" THEN "checked" ELSE "locking"
      /\ j.kind # "set_available" => want'[p] = j.rooms
    BY DEF Begin, TypeOK, LocksOrdered, OrderedKinds
<1>2. j.rooms \subseteq Rooms
    BY DEF Jobs
<1>3. RowsInOrder(p)'
    BY <1>1, <1>2 DEF RowsInOrder
<1> QED
    BY <1>1, <1>3, OrderStep DEF Begin, TypeOK

LEMMA AskOrder ==
    ASSUME TypeOK, LocksOrdered, OrderedKinds, NEW p \in Requests,
           Ask(p) \/ \E r \in Rooms : AskAvailable(p, r)
    PROVE  LocksOrdered'
<1>1. PICK j \in Jobs :
        Begin(p, j) /\ (j.kind = "set_available" => \E r \in Rooms : j.rooms = {r})
  <2>1. ASSUME NEW b \in Bookings, NEW S \in RoomSets, NEW w \in Windows,
               NEW kind \in {"create", "walk_in"}, AskBooking(p, b, S, w, kind)
        PROVE  \E j \in Jobs : Begin(p, j) /\ j.kind # "set_available"
    <3>1. Job(kind, b, S, S, S, {}, w) \in Jobs
        BY JobType DEF RoomSets, AllKinds
    <3> QED
        BY <2>1, <3>1 DEF AskBooking, Job
  <2>2. ASSUME NEW b \in Bookings, NEW w \in Windows, AskDates(p, b, w)
        PROVE  \E j \in Jobs : Begin(p, j) /\ j.kind # "set_available"
    <3>1. Job("update_dates", b, current[b], current[b], {}, {}, w) \in Jobs
        BY JobType DEF TypeOK, AllKinds
    <3> QED
        BY <2>2, <3>1 DEF AskDates, Job
  <2>3. ASSUME NEW b \in Bookings, NEW from \in Rooms, NEW to \in Rooms,
               NEW kind \in {"replace", "transfer"},
               Begin(p, Job(kind, b, {from, to}, {to}, {to}, {from}, window[b]))
        PROVE  \E j \in Jobs : Begin(p, j) /\ j.kind # "set_available"
    <3>1. Job(kind, b, {from, to}, {to}, {to}, {from}, window[b]) \in Jobs
        BY JobType DEF TypeOK, AllKinds
    <3> QED
        BY <2>3, <3>1 DEF Job
  <2>4. ASSUME NEW b \in Bookings, NEW r \in Rooms, AskAdd(p, b, r)
        PROVE  \E j \in Jobs : Begin(p, j) /\ j.kind # "set_available"
    <3>1. Job("add", b, {r}, {r}, {r}, {}, window[b]) \in Jobs
        BY JobType DEF TypeOK, AllKinds
    <3> QED
        BY <2>4, <3>1 DEF AskAdd, Job
  <2>5. ASSUME NEW b \in Bookings,
               NEW kind \in {"cancel", "check_in", "check_out", "bill_out", "reverse"},
               AskStatus(p, b, kind)
        PROVE  \E j \in Jobs : Begin(p, j) /\ j.kind # "set_available"
    <3>1. Job(kind, b, current[b], {}, {}, {}, window[b]) \in Jobs
        BY JobType DEF TypeOK, AllKinds
    <3> QED
        BY <2>5, <3>1 DEF AskStatus, Job
  <2>6. ASSUME NEW r \in Rooms, AskAvailable(p, r)
        PROVE  \E j \in Jobs : Begin(p, j) /\ \E s \in Rooms : j.rooms = {s}
    <3>1. Job("set_available", NoBooking, {r}, {}, {}, {}, NoWindow) \in Jobs
        BY AvailableType
    <3> QED
        BY <2>6, <3>1 DEF AskAvailable, Job
  <2> QED
      BY <2>1, <2>2, <2>3, <2>4, <2>5, <2>6 DEF Ask, AskReplace, AskTransfer
<1> QED
    BY <1>1, BeginOrder

LEMMA LockOrder ==
    ASSUME TypeOK, LocksOrdered, OrderedKinds, NEW p \in Requests,
           NEW row \in Rooms \union Bookings, Lock(p, row)
    PROVE  LocksOrdered'
<1>1. /\ row \in NextRows(p) /\ phase' = phase /\ job' = job
      /\ held'[p] = held[p] \union {row} /\ want'[p] = want[p] \ {row}
      /\ \A q \in Requests \ {p} : want'[q] = want[q] /\ held'[q] = held[q]
    BY DEF Lock, TypeOK
<1>2. phase[p] # "idle" /\ job[p] \in Jobs
    BY <1>1 DEF NextRows, TypeOK
<1>3. RowsInOrder(p)
    BY <1>2 DEF LocksOrdered
<1>4. CASE phase[p] = "locking"
  <2>1. /\ want[p] \cap Bookings = {} /\ job[p].kind # "cancel"
        /\ want[p] \subseteq Nat /\ held[p] \subseteq Nat
      BY <1>3, <1>4, RowsAssumption, RoomsAssumption DEF RowsInOrder, OrderedKinds
  <2>2. row \in want[p] /\ \A s \in want[p] : row <= s
      BY <1>1, <1>4, <2>1 DEF NextRows
  <2>3. \A r \in held'[p], s \in want'[p] : r < s
      BY <1>1, <1>3, <1>4, <2>1, <2>2 DEF RowsInOrder
  <2>4. RowsInOrder(p)'
      BY <1>1, <1>3, <1>4, <2>2, <2>3 DEF RowsInOrder
  <2> QED
      BY <1>1, <1>4, <2>4, OrderStep
<1>5. CASE phase[p] = "checked"
  <2>1. row \in FlushedRows(job[p])
      BY <1>1, <1>5 DEF NextRows
  <2>2. job[p].kind = "set_available" => row \in job[p].rooms
      BY <2>1 DEF FlushedRows
  <2>3. RowsInOrder(p)'
      BY <1>1, <1>3, <1>5, <2>1, <2>2 DEF RowsInOrder, FlushedRows, Inserts
  <2> QED
      BY <1>1, <1>5, <2>3, OrderStep
<1> QED
    BY <1>2, <1>4, <1>5 DEF TypeOK

LEMMA CheckOrder ==
    ASSUME TypeOK, LocksOrdered, NEW p \in Requests, Check(p)
    PROVE  LocksOrdered'
<1>1. /\ phase[p] = "locking" /\ phase'[p] = "checked"
      /\ job' = job /\ held' = held /\ want' = want
      /\ \A q \in Requests \ {p} : phase'[q] = phase[q]
    BY DEF Check, TypeOK
<1>2. RowsInOrder(p)
    BY <1>1 DEF LocksOrdered
<1>3. RowsInOrder(p)'
    BY <1>1, <1>2, RowsAssumption DEF RowsInOrder
<1> QED
    BY <1>1, <1>3, OrderStep

LEMMA EndOrder ==
    ASSUME TypeOK, LocksOrdered, NEW p \in Requests, End(p)
    PROVE  LocksOrdered'
<1>1. /\ phase'[p] = "idle" /\ held'[p] = {}
      /\ \A q \in Requests \ {p} :
            /\ phase'[q] = phase[q] /\ job'[q] = job[q]
            /\ want'[q] = want[q] /\ held'[q] = held[q]
    BY DEF End, TypeOK
<1> QED
    BY <1>1, OrderStep

LEMMA NextOrder ==
    ASSUME OrderedKinds, TypeOK, LocksOrdered, [Next]_vars PROVE LocksOrdered'
<1>1. CASE UNCHANGED vars
    BY <1>1 DEF vars, dbVars, requestVars, LocksOrdered, RowsInOrder
<1>2. ASSUME NEW p \in Requests, Commit(p) \/ Refuse(p) \/ Rollback(p)
      PROVE  LocksOrdered'
    BY <1>2, EndOrder DEF Commit, Refuse, Rollback
<1> QED
    BY <1>1, <1>2, AskOrder, LockOrder, CheckOrder DEF Next, LockSome, Step

\* Of finitely many things that are numbered, one has the largest number.
LEMMA Largest ==
    ASSUME NEW W, W # {}, IsFiniteSet(W), NEW f \in [W -> Nat]
    PROVE  \E p \in W : \A q \in W : f[q] <= f[p]
<1> DEFINE Bad == {X \in FiniteSubsetsOf(W) :
                     X # {} /\ ~\E p \in X : \A q \in X : f[q] <= f[p]}
<1> SUFFICES ASSUME Bad # {} PROVE FALSE
    BY DEF FiniteSubsetsOf
<1>1. PICK X \in Bad : \A Y \in Bad : ~(<<Y, X>> \in StrictSubsetOrdering(W))
    BY FS_StrictSubsetOrderingWellFounded, WFMin
<1>2. PICK x \in X : TRUE
    OBVIOUS
<1>3. X \ {x} \in FiniteSubsetsOf(W)
    BY FS_RemoveElement DEF FiniteSubsetsOf
<1>4. <<X \ {x}, X>> \in StrictSubsetOrdering(W)
    BY DEF StrictSubsetOrdering, FiniteSubsetsOf
<1>5. X \ {x} \notin Bad
    BY <1>1, <1>4
<1>6. X \subseteq W
    BY DEF FiniteSubsetsOf
<1>7. CASE X \ {x} = {}
    BY <1>2, <1>6, <1>7
<1>8. CASE X \ {x} # {}
  <2>1. PICK m \in X \ {x} : \A q \in X \ {x} : f[q] <= f[m]
      BY <1>3, <1>5, <1>8
  <2> QED
      BY <1>2, <1>6, <2>1
<1> QED
    BY <1>7, <1>8

\* Whoever is waited for and waits has locked rooms only, and waits for one.
LEMMA WaitersLock ==
    ASSUME TypeOK, LocksOrdered, OrderedKinds, NEW p \in Requests, NEW q \in Requests,
           NEW o \in Requests, WaitsFor(o, p), WaitsFor(p, q)
    PROVE  /\ phase[p] = "locking" \/ NextRows(p) \subseteq Bookings
           /\ phase[p] = "checked" => held[p] \cap Bookings = {}
<1>1. held[p] # {} /\ NextRows(p) # {}
    BY DEF WaitsFor
<1>2. phase[p] # "idle" /\ RowsInOrder(p) /\ job[p] \in Jobs
    BY <1>1 DEF NextRows, LocksOrdered, TypeOK
<1>3. CASE phase[p] = "checked"
  <2>1. NextRows(p) = FlushedRows(job[p]) \ held[p]
      BY <1>3 DEF NextRows
  <2>2. job[p].kind # "set_available"
      BY <1>1, <1>2, <1>3, <2>1 DEF RowsInOrder, FlushedRows
  <2>3. /\ FlushedRows(job[p]) \subseteq {job[p].b} /\ job[p].b \in Bookings
        /\ held[p] \cap Bookings \subseteq FlushedRows(job[p])
      BY <1>2, <1>3, <2>2 DEF RowsInOrder, FlushedRows, Jobs
  <2> QED
      BY <1>1, <1>3, <2>1, <2>3
<1> QED
    BY <1>2, <1>3 DEF TypeOK

LEMMA OrderPreventsDeadlock ==
    ASSUME TypeOK, LocksOrdered, OrderedKinds, IsFiniteSet(Requests)
    PROVE  NoDeadlock
<1> SUFFICES ASSUME NEW W \in (SUBSET Requests) \ {{}},
                    \A p \in W : \E q \in W : WaitsFor(p, q)
             PROVE  FALSE
    BY DEF NoDeadlock
<1> DEFINE V == {p \in W : \E o \in W : WaitsFor(o, p)}
<1>1. V # {} /\ \A p \in V : \E q \in V : WaitsFor(p, q)
    OBVIOUS
<1>2. ASSUME NEW p \in V
      PROVE  /\ phase[p] = "locking" /\ job[p].kind # "cancel" /\ RowsInOrder(p)
             /\ NextRows(p) = {r \in want[p] : \A s \in want[p] : r <= s}
  <2>1. PICK q \in V : WaitsFor(p, q)
      BY <1>1
  <2>2. phase[q] = "checked" => held[q] \cap Bookings = {}
      BY <1>1, WaitersLock
  <2>3. RowsInOrder(p) /\ RowsInOrder(q)
    <3>1. NextRows(p) # {} /\ held[q] # {}
        BY <2>1 DEF WaitsFor
    <3> QED
        BY <3>1 DEF NextRows, LocksOrdered, TypeOK
  <2>4. held[q] \cap Bookings = {}
      BY <2>2, <2>3, RowsAssumption DEF RowsInOrder, TypeOK, LocksOrdered
  <2>5. phase[p] = "locking"
      BY <1>1, <2>1, <2>4, WaitersLock DEF WaitsFor
  <2> QED
      BY <2>3, <2>5, RowsAssumption DEF RowsInOrder, NextRows, OrderedKinds
<1>3. ASSUME NEW p \in V
      PROVE  \E r \in Nat : NextRows(p) = {r}
  <2>1. NextRows(p) # {} /\ want[p] \subseteq Nat
      BY <1>1, <1>2, RoomsAssumption DEF RowsInOrder, WaitsFor
  <2> QED
      BY <1>2, <2>1
<1> DEFINE f == [p \in V |-> CHOOSE r \in Nat : NextRows(p) = {r}]
<1>4. f \in [V -> Nat] /\ \A p \in V : NextRows(p) = {f[p]}
    BY <1>3
<1>5. IsFiniteSet(V)
    BY FS_Subset
<1> HIDE DEF V, f
<1>6. PICK p \in V : \A q \in V : f[q] <= f[p]
    BY <1>1, <1>4, <1>5, Largest
<1>7. PICK q \in V : WaitsFor(p, q)
    BY <1>1
<1>8. f[p] \in held[q] /\ f[q] \in want[q]
  <2>1. NextRows(p) = {f[p]} /\ NextRows(q) = {f[q]}
      BY <1>4
  <2>2. NextRows(q) \subseteq want[q]
      BY <1>2
  <2> QED
      BY <1>7, <2>1, <2>2 DEF WaitsFor
<1>9. f[p] < f[q]
    BY <1>2, <1>8 DEF RowsInOrder
<1> QED
    BY <1>4, <1>6, <1>9

\* However many requests there are and whatever they ask, none of them ever
\* wait for one another when they lock rooms in the order of their ids and
\* their booking after them, as all services but two do.
THEOREM OrderedLocksNeverDeadlock ==
    ASSUME OrderedKinds, IsFiniteSet(Requests) PROVE Spec => []NoDeadlock
<1>1. TypeOK /\ LocksOrdered /\ [Next]_vars => LocksOrdered'
    BY NextOrder
<1>2. TypeOK /\ LocksOrdered => NoDeadlock
    BY OrderPreventsDeadlock
<1> QED
    BY <1>1, <1>2, InitOrder, TypeCorrect, PTL DEF Spec

-----------------------------------------------------------------------------
(* A check-out is not undone *)

\* What a running request has read of its booking: a new booking is its own,
\* and one whose guest has come has its row in checkins.
ReadHolds(p) ==
    LET j == job[p]
    IN  /\ j.kind \in Kinds
        /\ Inserts(j) =>
             /\ status[j.b] = "none"
             /\ \A q \in Requests \ {p} :
                   phase[q] # "idle" /\ Inserts(job[q]) => job[q].b # j.b
        /\ ~Inserts(j) /\ j.kind # "set_available" => status[j.b] # "none"
        /\ j.kind \in {"check_out", "bill_out", "reverse"} => j.b \in checkins

GuestsCame ==
    \A b \in Bookings : status[b] \in {"checked_in", "checked_out"} => b \in checkins

ArrivalInv ==
    GuestsCame /\ \A p \in Requests : phase[p] # "idle" => ReadHolds(p)

LEMMA InitArrival == Init => ArrivalInv
    BY DEF Init, ArrivalInv, GuestsCame

LEMMA BeginArrival ==
    ASSUME TypeOK, ArrivalInv, NEW p \in Requests, NEW j \in Jobs, Begin(p, j),
           Inserts(j) =>
               /\ status[j.b] = "none"
               /\ \A q \in Requests :
                     phase[q] # "idle" /\ Inserts(job[q]) => job[q].b # j.b,
           ~Inserts(j) /\ j.kind # "set_available" => status[j.b] # "none",
           j.kind \in {"check_out", "bill_out", "reverse"} =>
               status[j.b] \in {"checked_in", "checked_out"}
    PROVE  ArrivalInv'
<1>1. /\ UNCHANGED dbVars /\ phase[p] = "idle" /\ job'[p] = j /\ j.kind \in Kinds
      /\ \A q \in Requests \ {p} : phase'[q] = phase[q] /\ job'[q] = job[q]
    BY DEF Begin, TypeOK
<1>2. UNCHANGED <<status, checkins>>
    BY <1>1 DEF dbVars
<1>3. j.kind \in {"check_out", "bill_out", "reverse"} => j.b \in checkins
    BY DEF ArrivalInv, GuestsCame, Jobs
<1>4. ReadHolds(p)'
    BY <1>1, <1>2, <1>3 DEF ReadHolds, Inserts
<1>5. ASSUME NEW q \in Requests \ {p}, phase'[q] # "idle" PROVE ReadHolds(q)'
  <2>1. ReadHolds(q) /\ phase[q] # "idle"
      BY <1>1, <1>5 DEF ArrivalInv
  <2>2. Inserts(job[q]) => ~Inserts(j) \/ j.b # job[q].b
      BY <2>1
  <2> QED
      BY <1>1, <1>2, <1>5, <2>1, <2>2 DEF ReadHolds, Inserts
<1> QED
    BY <1>2, <1>4, <1>5 DEF ArrivalInv, GuestsCame

LEMMA AskArrival ==
    ASSUME TypeOK, ArrivalInv, NEW p \in Requests,
           Ask(p) \/ \E r \in Rooms : AskAvailable(p, r)
    PROVE  ArrivalInv'
<1> USE DEF Job, Inserts
<1>1. ASSUME NEW b \in Bookings, NEW S \in RoomSets, NEW w \in Windows,
             NEW kind \in {"create", "walk_in"}, AskBooking(p, b, S, w, kind)
      PROVE  ArrivalInv'
  <2>1. Job(kind, b, S, S, S, {}, w) \in Jobs
      BY JobType DEF RoomSets, AllKinds
  <2> QED
      BY <1>1, <2>1, BeginArrival DEF AskBooking
<1>2. ASSUME NEW b \in Bookings, NEW w \in Windows, AskDates(p, b, w)
      PROVE  ArrivalInv'
  <2>1. Job("update_dates", b, current[b], current[b], {}, {}, w) \in Jobs
      BY JobType DEF TypeOK, AllKinds
  <2> QED
      BY <1>2, <2>1, BeginArrival DEF AskDates, Active
<1>3. ASSUME NEW b \in Bookings, NEW from \in Rooms, NEW to \in Rooms,
             NEW kind \in {"replace", "transfer"}, status[b] # "none",
             Begin(p, Job(kind, b, {from, to}, {to}, {to}, {from}, window[b]))
      PROVE  ArrivalInv'
  <2>1. Job(kind, b, {from, to}, {to}, {to}, {from}, window[b]) \in Jobs
      BY JobType DEF TypeOK, AllKinds
  <2> QED
      BY <1>3, <2>1, BeginArrival
<1>4. ASSUME NEW b \in Bookings, NEW r \in Rooms, AskAdd(p, b, r)
      PROVE  ArrivalInv'
  <2>1. Job("add", b, {r}, {r}, {r}, {}, window[b]) \in Jobs
      BY JobType DEF TypeOK, AllKinds
  <2> QED
      BY <1>4, <2>1, BeginArrival DEF AskAdd
<1>5. ASSUME NEW b \in Bookings,
             NEW kind \in {"cancel", "check_in", "check_out", "bill_out", "reverse"},
             AskStatus(p, b, kind)
      PROVE  ArrivalInv'
  <2>1. Job(kind, b, current[b], {}, {}, {}, window[b]) \in Jobs
      BY JobType DEF TypeOK, AllKinds
  <2>2. /\ status[b] # "none"
        /\ kind \in {"check_out", "bill_out", "reverse"} =>
             status[b] \in {"checked_in", "checked_out"}
      BY <1>5 DEF AskStatus, Expected
  <2> QED
      BY <1>5, <2>1, <2>2, BeginArrival DEF AskStatus
<1>6. ASSUME NEW r \in Rooms, AskAvailable(p, r) PROVE ArrivalInv'
  <2>1. Job("set_available", NoBooking, {r}, {}, {}, {}, NoWindow) \in Jobs
      BY AvailableType
  <2> QED
      BY <1>6, <2>1, BeginArrival DEF AskAvailable
<1>7. ASSUME NEW b \in Bookings, NEW from \in Rooms, NEW to \in Rooms,
             AskReplace(p, b, from, to) \/ AskTransfer(p, b, from, to)
      PROVE  ArrivalInv'
    BY <1>3, <1>7 DEF AskReplace, AskTransfer
<1> HIDE DEF Job, Inserts
<1> QED
    BY <1>1, <1>2, <1>4, <1>5, <1>6, <1>7 DEF Ask

LEMMA CommitArrival ==
    ASSUME TypeOK, ArrivalInv, NEW p \in Requests, Commit(p) PROVE ArrivalInv'
<1> DEFINE j == job[p]
<1>1. /\ ReadHolds(p) /\ j \in Jobs /\ phase'[p] = "idle"
      /\ \A q \in Requests \ {p} : phase'[q] = phase[q] /\ job'[q] = job[q]
    BY DEF Commit, End, TypeOK, ArrivalInv
<1>2. /\ \A b \in Bookings :
            status'[b] = IF b = j.b THEN Written(j.kind, status[b]) ELSE status[b]
      /\ checkins' = IF Arrives(j) THEN checkins \union {j.b} ELSE checkins
    BY DEF Commit
<1>3. GuestsCame'
  <2> SUFFICES ASSUME NEW b \in Bookings, status'[b] \in {"checked_in", "checked_out"}
               PROVE  b \in checkins'
      BY DEF GuestsCame
  <2>1. status[b] \in {"checked_in", "checked_out"} => b \in checkins
      BY DEF ArrivalInv, GuestsCame
  <2> QED
      BY <1>1, <1>2, <2>1 DEF ReadHolds, Written, Arrives
<1>4. ASSUME NEW q \in Requests, phase'[q] # "idle" PROVE ReadHolds(q)'
  <2> DEFINE k == job[q]
  <2>1. q # p /\ phase[q] # "idle" /\ ReadHolds(q) /\ k \in Jobs /\ job'[q] = k
      BY <1>1, <1>4 DEF ArrivalInv, TypeOK
  <2>2. Inserts(k) => status'[k.b] = "none"
    <3> SUFFICES ASSUME Inserts(k) PROVE status'[k.b] = "none"
        OBVIOUS
    <3>1. status[k.b] = "none" /\ k.b \in Bookings
        BY <2>1 DEF ReadHolds, Inserts, Jobs
    <3>2. k.b = j.b => ~Inserts(j)
        BY <2>1 DEF ReadHolds, Commit
    <3>3. k.b = j.b => j.kind = "set_available"
        BY <1>1, <3>1, <3>2 DEF ReadHolds
    <3> QED
        BY <1>2, <3>1, <3>3 DEF Written
  <2>3. ~Inserts(k) /\ k.kind # "set_available" => status'[k.b] # "none"
    <3> SUFFICES ASSUME ~Inserts(k), k.kind # "set_available"
                 PROVE  status'[k.b] # "none"
        OBVIOUS
    <3>1. k.b \in Bookings /\ status[k.b] # "none"
        BY <2>1 DEF ReadHolds, Jobs
    <3> QED
        BY <1>2, <3>1 DEF Written
  <2>4. \A o \in Requests \ {q} :
           phase'[o] # "idle" => phase[o] # "idle" /\ job'[o] = job[o]
      BY <1>1
  <2>5. checkins \subseteq checkins'
      BY <1>2
  <2> QED
      BY <2>1, <2>2, <2>3, <2>4, <2>5 DEF ReadHolds, Inserts
<1> QED
    BY <1>3, <1>4 DEF ArrivalInv

LEMMA NextArrival ==
    ASSUME TypeOK, ArrivalInv, [Next]_vars PROVE ArrivalInv'
<1>1. ASSUME UNCHANGED <<status, checkins>>,
             \A q \in Requests :
                 phase'[q] # "idle" => phase[q] # "idle" /\ job'[q] = job[q]
      PROVE  ArrivalInv'
  <2>1. GuestsCame'
      BY <1>1 DEF ArrivalInv, GuestsCame
  <2>2. ASSUME NEW q \in Requests, phase'[q] # "idle" PROVE ReadHolds(q)'
    <3>1. ReadHolds(q) /\ job'[q] = job[q]
        BY <1>1, <2>2 DEF ArrivalInv
    <3> QED
        BY <1>1, <3>1 DEF ReadHolds, Inserts
  <2> QED
      BY <2>1, <2>2 DEF ArrivalInv
<1>2. ASSUME NEW p \in Requests,
             Check(p) \/ Refuse(p) \/ Rollback(p) \/ LockSome(p)
      PROVE  /\ UNCHANGED <<status, checkins>>
             /\ \A q \in Requests :
                   phase'[q] # "idle" => phase[q] # "idle" /\ job'[q] = job[q]
    BY <1>2 DEF Check, Refuse, Rollback, LockSome, Lock, End, TypeOK, dbVars
<1>3. CASE UNCHANGED vars
    BY <1>1, <1>3 DEF vars, dbVars, requestVars
<1> QED
    BY <1>1, <1>2, <1>3, AskArrival, CommitArrival DEF Next, Step

\* Where no check-out is reversed and no booking cancelled, no request that
\* was under way with a booking, however long ago it read it, changes the
\* status once the booking is checked out: bookings have one row in checkins.
THEOREM CheckOutIsFinal ==
    ASSUME Kinds \cap {"cancel", "reverse"} = {} PROVE Spec => CheckedOutStays
<1>1. ASSUME TypeOK, ArrivalInv, [Next]_vars, NEW b \in Bookings,
             status[b] = "checked_out", status'[b] # "checked_out"
      PROVE  FALSE
  <2>1. PICK p \in Requests : Commit(p)
    <3>1. ASSUME NEW p \in Requests, Ask(p) \/ \E r \in Rooms : AskAvailable(p, r)
          PROVE  status' = status
      <4>1. \A j : Begin(p, j) => status' = status
          BY DEF Begin, dbVars
      <4>2. \E j : Begin(p, j)
          BY <3>1
          DEF Ask, AskBooking, AskDates, AskReplace, AskTransfer, AskAdd,
              AskStatus, AskAvailable
      <4> QED
          BY <4>1, <4>2
    <3>2. ASSUME NEW p \in Requests,
                 LockSome(p) \/ Check(p) \/ Refuse(p) \/ Rollback(p)
          PROVE  status' = status
        BY <3>2 DEF LockSome, Lock, Check, Refuse, Rollback, dbVars
    <3>3. ~UNCHANGED vars
        BY <1>1 DEF vars, dbVars
    <3> QED
        BY <1>1, <3>1, <3>2, <3>3 DEF Next, Step
  <2>2. ReadHolds(p)
      BY <1>1, <2>1 DEF Commit, ArrivalInv
  <2>3. b = job[p].b /\ Written(job[p].kind, "checked_out") # "checked_out"
      BY <1>1, <2>1 DEF Commit
  <2>4. b \in checkins /\ (Arrives(job[p]) => b \notin checkins)
      BY <1>1, <2>1, <2>3 DEF ArrivalInv, GuestsCame, Commit, Unique
  <2> QED
      BY <1>1, <2>2, <2>3, <2>4 DEF ReadHolds, Written, Arrives, Inserts
<1>2. TypeOK /\ ArrivalInv /\ [Next]_vars =>
        [\A b \in Bookings :
            status[b] = "checked_out" => status'[b] = "checked_out"]_vars
    BY <1>1
<1>3. TypeOK /\ ArrivalInv /\ [Next]_vars => ArrivalInv'
    BY NextArrival
<1> QED
    BY <1>2, <1>3, InitArrival, TypeCorrect, PTL DEF Spec, CheckedOutStays
=============================================================================
