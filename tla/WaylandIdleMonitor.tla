------------------------- MODULE WaylandIdleMonitor -------------------------
(***************************************************************************)
(* The agent's Wayland idle monitor: one ext_idle_notification_v1 object   *)
(* per threshold.  The compositor sends idled when nobody has touched the  *)
(* seat for the object's timeout, counted from its creation at the         *)
(* earliest, and resumed at the next input.  Its events reach the agent in *)
(* order; poll() reads what has arrived and dispatches it event by event.  *)
(***************************************************************************)
EXTENDS IdleTiming, Sequences, SequencesExt

CONSTANT MaxEvents    \* bound: events sent and not yet delivered

Notifications == {"dim", "sleep"}

VARIABLES
  notif,      \* timeout of m_notif_dim and m_notif_sleep, 0 = nullptr
  idled,      \* compositor: objects that are in their idle period
  age,        \* compositor: time since the objects were created
  socket,     \* events in the display's socket
  dispatch,   \* events read by wl_display_dispatch and not yet delivered
  wchanges,   \* number of set_timeouts calls
  wtold,      \* history: last callback, as the daemon sees it
  wquiet      \* history: time since the user's last input

waylandVars == <<notif, idled, age, socket, dispatch, wchanges, wtold, wquiet>>

Event(n, kind) == [of |-> n, kind |-> kind]

-----------------------------------------------------------------------------
\* Mutation of CreateNotifications: the old objects are not destroyed first.
CreateOnly(new) ==
  /\ notif' = new
  /\ idled' = {}
  /\ age' = 0
  /\ UNCHANGED socket

\* create_notifications destroys the old objects first: libwayland drops the
\* events of a destroyed object, so whatever was on its way is gone.
CreateNotifications(new) ==
  /\ notif' = new
  /\ idled' = {}
  /\ age' = 0
  /\ socket' = <<>>

WaylandSetTimeouts(new) ==
  /\ dispatch = <<>>
  /\ wchanges < MaxChanges
  /\ wchanges' = wchanges + 1
  /\ CreateNotifications(new)
  /\ UNCHANGED <<dispatch, wtold, wquiet>>

\* poll(): called when the display's descriptor is readable.
DisplayDispatch ==
  /\ dispatch = <<>> /\ socket # <<>>
  /\ dispatch' = socket
  /\ socket' = <<>>
  /\ UNCHANGED <<notif, idled, age, wchanges, wtold, wquiet>>

\* on_notification_idled tells the objects apart, on_notification_resumed
\* does not.
OnNotification ==
  /\ dispatch # <<>>
  /\ dispatch' = Tail(dispatch)
  /\ wtold' = IF Head(dispatch).kind = "idled" THEN Head(dispatch).of
                                               ELSE "active"
  /\ UNCHANGED <<notif, idled, age, socket, wchanges, wquiet>>

-----------------------------------------------------------------------------
(* The compositor and the user *)

\* An idle inhibitor of the compositor may delay the event.
SendIdled(n) ==
  /\ notif[n] > 0 /\ n \notin idled
  /\ age >= notif[n] /\ wquiet >= notif[n]
  /\ Len(dispatch \o socket) < MaxEvents
  /\ idled' = idled \cup {n}
  /\ socket' = Append(socket, Event(n, "idled"))
  /\ UNCHANGED <<notif, age, dispatch, wchanges, wtold, wquiet>>

SeatInput ==
  /\ Len(dispatch \o socket) + Cardinality(idled) <= MaxEvents
  /\ \E order \in SetToSeqs(idled) :
       socket' = socket \o [i \in DOMAIN order |-> Event(order[i], "resumed")]
  /\ idled' = {}
  /\ wquiet' = 0
  /\ UNCHANGED <<notif, age, dispatch, wchanges, wtold>>

SeatTick ==
  /\ age' = Saturate(age)
  /\ wquiet' = Saturate(wquiet)
  /\ UNCHANGED <<notif, idled, socket, dispatch, wchanges, wtold>>

\* init(dim, sleep) once the compositor has been found to offer the protocol
WaylandInit ==
  /\ notif \in [Notifications -> Timeouts]
  /\ idled = {} /\ age = 0 /\ wquiet = 0
  /\ socket = <<>> /\ dispatch = <<>>
  /\ wchanges = 0
  /\ wtold = "active"

WaylandPoll == DisplayDispatch \/ OnNotification
Compositor  == \E n \in Notifications : SendIdled(n)

WaylandNext ==
  \/ WaylandPoll \/ Compositor \/ SeatInput \/ SeatTick
  \/ \E new \in [Notifications -> Timeouts] : WaylandSetTimeouts(new)
=============================================================================
