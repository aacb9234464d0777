--------------------------- MODULE Notifications ---------------------------
(***************************************************************************)
(* The bell of the portal                                                  *)
(* (frontend/src/components/layout/notifications-bell.tsx) and the         *)
(* notifications page: a list polled from the server, the alert that new   *)
(* entries raise (lib/notification-sound.ts, lib/browser-notifications.ts) *)
(* and the categories a role is shown, which the server and the page each  *)
(* decide.  The bell is part of every page, so it starts anew with each    *)
(* navigation while the list stays in the query cache.                     *)
(***************************************************************************)
EXTENDS Naturals, Sequences, FiniteSets

CONSTANTS Roles,      \* roles of the user
          InUse,      \* categories of the notifications that come
          None,
          MaxNotes,   \* bounds the notifications that come
          Limit,      \* entries the bell asks for
          MaxTaps     \* bounds how often the user sets something

VARIABLES
    role,      \* the role of the user
    notes,     \* the categories of the notifications, oldest first
    read,      \* those this user has read, on any device
    cache,     \* None, or the list in the query cache
    fresh,     \* TRUE while the bell has not looked at the list
    known,     \* None, or what the bell has seen since it was mounted
    rings,     \* how often each raised an alert
    quiet,     \* those that were there when a list came first
    marking,   \* requests under way to mark: a number, or 0 for all
    sound, permission, enabled, \* the ringer and the system's notifications
    cooling,   \* TRUE within three seconds of a chime
    shown,     \* what the system showed of the latest alert
    tab, collapsed, opened,     \* the groups of the open menu
    category, page,             \* the page of notifications: its filter
    taps                        \* what the user set

serverVars == <<role, notes, read>>
bellVars == <<cache, fresh, known, rings, quiet>>
alertVars == <<sound, permission, enabled, cooling, shown>>
menuVars == <<tab, collapsed, opened>>
pageVars == <<category, page>>
vars == <<serverVars, bellVars, marking, alertVars, menuVars, pageVars, taps>>

Tap == taps < MaxTaps /\ taps' = taps + 1

NoteIds == 1..MaxNotes
Everything == {"front_desk", "housekeeping", "finance", "operations", "admin"}
PageSize == 1

-----------------------------------------------------------------------------
\* The categories the portal shows a role.
notificationCategoriesForRole(r) ==
    CASE r \in {"owner", "manager"} -> Everything
      [] r = "admin" -> {"front_desk", "housekeeping", "operations"}
      [] r = "housekeeping" -> {"housekeeping"}
      [] r = "general_staff" -> {"operations"}
      [] OTHER -> {"front_desk", "operations"}

\* The categories the server sends it.
notification_categories_for_role(r) ==
    CASE r \in {"owner", "manager"} -> Everything \union {"platform"}
      [] r = "admin" -> {"front_desk", "housekeeping", "operations"}
      [] r = "housekeeping" -> {"housekeeping", "operations"}
      [] r = "receptionist" -> {"front_desk", "operations"}
      [] r = "general_staff" -> {"operations"}

allowedCategories == notificationCategoriesForRole(role)
Scope == {i \in 1..Len(notes) : notes[i] \in notification_categories_for_role(role)}

\* The newest entries of a set.
Newer(S, i) == {j \in S : j > i}
Newest(S, n) == {i \in S : Cardinality(Newer(S, i)) < n}

\* An answer: the newest entries, which of them are read, and the number
\* unread of all.
list_notifications(S, n) ==
    [items |-> Newest(S, n), read |-> read \intersect Newest(S, n),
     unread |-> Cardinality(Scope \ read)]

Shown(list) == {i \in list.items : notes[i] \in allowedCategories}
Unread(list) == Shown(list) \ list.read

\* What the bell's badge says.
unread == IF cache = None THEN 0 ELSE cache.unread

-----------------------------------------------------------------------------
Init ==
    /\ role \in Roles
    /\ notes = <<>> /\ read = {}
    /\ cache = None /\ fresh = FALSE /\ known = None
    /\ rings = [i \in NoteIds |-> 0] /\ quiet = {}
    /\ marking = {}
    /\ sound \in BOOLEAN /\ permission \in {"default", "granted"}
    /\ enabled = (permission = "granted") /\ cooling = FALSE
    /\ shown = "none"
    /\ tab = "all" /\ collapsed = {} /\ opened = {}
    /\ category = "" /\ page = 1 /\ taps = 0

\* Something happens in the hotel.
create_notification(c) ==
    /\ Len(notes) < MaxNotes
    /\ notes' = Append(notes, c)
    /\ UNCHANGED <<role, read, bellVars, marking, alertVars, menuVars, pageVars, taps>>

\* A poll, a focus of the window, an opened menu or a mark fetches the list.
\* A category with nothing unread folds, one with something unread unfolds.
RefetchBell ==
    LET new == list_notifications(Scope, Limit)
        busy == {notes[i] : i \in new.items \ new.read}
        idle == {notes[i] : i \in new.items} \ busy
    IN  /\ cache' = new
        /\ fresh' = (fresh \/ new # cache)
        /\ collapsed' = IF new = cache THEN collapsed
                        ELSE (collapsed \union (idle \ opened)) \ busy
        /\ UNCHANGED <<serverVars, known, rings, quiet, marking, alertVars,
                       tab, opened, pageVars, taps>>

\* The chime, if it is on and none sounded just now.
playNotificationSound == sound /\ ~cooling

\* One entry is told by its title, several as a batch.
showBatchSystemNotifications(items) ==
    IF permission # "granted" \/ ~enabled THEN "none"
    ELSE IF Cardinality(items) = 1 THEN "one" ELSE "batch"

\* Faulty variant: what raised an alert is not remembered.
SeenFirstOnly(items) == IF known = None THEN items ELSE known

\* What the bell has seen after it looked at a list.
Seen(items) == IF known = None THEN items ELSE known \union items

\* The bell looks at a list that changed, or at its first.
BellEffect ==
    /\ cache # None /\ (fresh \/ known = None)
    /\ LET new == IF known = None THEN {} ELSE Unread(cache) \ known
       IN  /\ rings' = [i \in NoteIds |-> IF i \in new THEN rings[i] + 1 ELSE rings[i]]
           /\ IF new = {} THEN UNCHANGED <<cooling, shown>>
              ELSE /\ cooling' = (cooling \/ playNotificationSound)
                   /\ shown' = showBatchSystemNotifications(new)
    /\ quiet' = IF known = None
                THEN quiet \union {i \in cache.items : rings[i] = 0} ELSE quiet
    /\ known' = Seen(cache.items)
    /\ fresh' = FALSE
    /\ UNCHANGED <<serverVars, cache, marking, sound, permission, enabled,
                   menuVars, pageVars, taps>>

CooledDown ==
    /\ cooling /\ cooling' = FALSE
    /\ UNCHANGED <<serverVars, bellVars, marking, sound, permission, enabled,
                   shown, menuVars, pageVars, taps>>

\* Another page has a bell of its own; the cache is kept for it.
Navigate ==
    /\ known' = None /\ fresh' = FALSE
    /\ tab' = "all" /\ opened' = {}
    /\ collapsed' = IF cache = None THEN {}
                    ELSE {notes[i] : i \in cache.items}
                         \ {notes[i] : i \in cache.items \ cache.read}
    /\ category' = "" /\ page' = 1
    /\ UNCHANGED <<serverVars, cache, rings, quiet, marking, alertVars, taps>>

-----------------------------------------------------------------------------
\* A row marks itself read and goes where it leads, if the user may.
onMarkRead(i) ==
    /\ cache # None /\ i \in Unread(cache) /\ i \notin marking
    /\ marking' = marking \union {i}
    /\ UNCHANGED <<serverVars, bellVars, alertVars, menuVars, pageVars, taps>>

markAll ==
    /\ unread > 0 /\ 0 \notin marking
    /\ marking' = marking \union {0}
    /\ UNCHANGED <<serverVars, bellVars, alertVars, menuVars, pageVars, taps>>

\* The server marks; the answer has the list read again by RefetchBell.
mark_read(i) ==
    /\ i \in marking
    /\ marking' = marking \ {i}
    /\ read' = IF i = 0 THEN read \union Scope ELSE read \union {i}
    /\ UNCHANGED <<role, notes, bellVars, alertVars, menuVars, pageVars, taps>>

\* A mark that fails is not told.
MarkFails(i) ==
    /\ i \in marking
    /\ marking' = marking \ {i}
    /\ UNCHANGED <<serverVars, bellVars, alertVars, menuVars, pageVars, taps>>

\* The same user reads one on another device.
ReadElsewhere(i) ==
    /\ i \in Scope \ read
    /\ read' = read \union {i}
    /\ UNCHANGED <<role, notes, bellVars, marking, alertVars, menuVars, pageVars, taps>>

-----------------------------------------------------------------------------
toggleSound ==
    /\ Tap
    /\ sound' = ~sound
    /\ cooling' = (cooling \/ ~sound)
    /\ UNCHANGED <<serverVars, bellVars, marking, permission, enabled, shown,
                   menuVars, pageVars>>

\* The browser asks once.
requestBrowserNotificationPermission(answer) ==
    /\ Tap
    /\ permission = "default"
    /\ permission' = answer
    /\ enabled' = (answer = "granted")
    /\ UNCHANGED <<serverVars, bellVars, marking, sound, cooling, shown,
                   menuVars, pageVars>>

Groups == IF cache = None THEN {} ELSE {notes[i] : i \in Shown(cache)}

\* A tab whose group is gone shows them all.
effectiveTab == IF tab \in Groups THEN tab ELSE "all"

selectTab(t) ==
    /\ Tap
    /\ t \in Groups \union {"all"} /\ t # tab
    /\ tab' = t
    /\ IF t = "all" THEN UNCHANGED <<collapsed, opened>>
       ELSE collapsed' = collapsed \ {t} /\ opened' = opened \union {t}
    /\ UNCHANGED <<serverVars, bellVars, marking, alertVars, pageVars>>

toggleGroup(c) ==
    /\ Tap
    /\ c \in Groups /\ effectiveTab \in {"all", c}
    /\ IF c \in collapsed
       THEN collapsed' = collapsed \ {c} /\ opened' = opened \union {c}
       ELSE collapsed' = collapsed \union {c} /\ opened' = opened \ {c}
    /\ UNCHANGED <<serverVars, bellVars, marking, alertVars, tab, pageVars>>

-----------------------------------------------------------------------------
\* The page has a list of its own, of one category or all, fetched every few
\* seconds; it only grows.
Rows == {i \in Scope : category \in {"", notes[i]} /\ notes[i] \in allowedCategories}

setActiveCategory(c) ==
    /\ Tap
    /\ c \in (allowedCategories \intersect InUse) \union {""} /\ c # category
    /\ category' = c /\ page' = 1
    /\ UNCHANGED <<serverVars, bellVars, marking, alertVars, menuVars>>

setPage(p) ==
    /\ Tap
    /\ p \in 1..((Cardinality(Rows) + PageSize - 1) \div PageSize) /\ p # page
    /\ page' = p
    /\ UNCHANGED <<serverVars, bellVars, marking, alertVars, menuVars, category>>

Next ==
    \/ \E c \in InUse : create_notification(c)
    \/ RefetchBell \/ BellEffect \/ CooledDown \/ Navigate
    \/ \E i \in NoteIds : onMarkRead(i) \/ ReadElsewhere(i) \/ setPage(i)
    \/ markAll
    \/ \E i \in NoteIds \union {0} : mark_read(i) \/ MarkFails(i)
    \/ toggleSound
    \/ \E a \in {"granted", "denied"} : requestBrowserNotificationPermission(a)
    \/ \E c \in InUse \union {"all"} : selectTab(c)
    \/ \E c \in InUse : toggleGroup(c)
    \/ \E c \in InUse \union {""} : setActiveCategory(c)

Spec == Init /\ [][Next]_vars

-----------------------------------------------------------------------------
TypeOK ==
    /\ Len(notes) \in 0..MaxNotes /\ read \subseteq NoteIds
    /\ known = None \/ known \subseteq NoteIds
    /\ rings \in [NoteIds -> 0..2] /\ quiet \subseteq NoteIds
    /\ marking \subseteq NoteIds \union {0}
    /\ shown \in {"none", "one", "batch"} /\ page \in 1..MaxNotes

\* However often the list is fetched and the page changed, an entry raises
\* one alert at most, and one that was there when the list came first none.
RingsOnce == \A i \in NoteIds : rings[i] <= 1 /\ (i \in quiet => rings[i] = 0)

\* The entries that raised their alert, or never will.
Spent == {i \in NoteIds : rings[i] > 0 \/ i \in quiet}

\* Why: what is spent and not in the list has left it for good, behind newer
\* entries; and what is spent and in the list has been seen, by the bell that
\* rang or, after a navigation, by the one that looked at the list first.
SpentOnce ==
    /\ notes \in Seq(InUse) /\ rings \in [NoteIds -> Nat]
    /\ Spent \subseteq Scope
    /\ cache # None => cache.items \subseteq Scope
    /\ \A i \in Spent : i \in cache.items \/ i \notin Newest(Scope, Limit)
    /\ known # None => \A i \in Spent : i \in cache.items => i \in known
    /\ RingsOnce

=============================================================================
