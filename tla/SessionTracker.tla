--------------------------- MODULE SessionTracker ---------------------------
(***************************************************************************)
(* The daemon's SessionTracker: a copy of logind's active session on seat0,*)
(* kept up to date by PropertiesChanged signals.  Signals travel over the  *)
(* system bus and wait there until poll() drains them, so the copy lags    *)
(* logind by the signals in flight.                                        *)
(***************************************************************************)
EXTENDS Integers, Sequences

CONSTANTS
  Sessions,    \* logind session ids
  NoSession,   \* the empty id: no active session, or an agent without one
  MaxSignals   \* bound: signals in flight on the bus

ASSUME SessionAssumption == NoSession \notin Sessions /\ MaxSignals \in Nat

VARIABLES
  seat,                  \* logind: the active session of seat0
  bus,                   \* ActiveSession values in flight to the daemon
  m_active_session_id,   \* the daemon's copy
  subscribed,            \* the PropertiesChanged match is installed
  blind                  \* history: the first read failed, and logind has
                         \* not switched since the match was installed

trackerVars == <<seat, bus, m_active_session_id, subscribed, blind>>

SessionIds == Sessions \cup {NoSession}

-----------------------------------------------------------------------------
IsActive(id) == id # NoSession /\ id = m_active_session_id

\* Mutation of DrainBus: one sd_bus_process call handles the newest signal
\* first and the rest are applied after it.
DrainBusReversed ==
  /\ m_active_session_id' = IF bus = <<>> THEN m_active_session_id ELSE Head(bus)
  /\ bus' = <<>>
  /\ UNCHANGED <<seat, subscribed, blind>>

\* poll(): sd_bus_process until nothing is left; every ActiveSession value
\* overwrites the previous one.
DrainBus ==
  /\ m_active_session_id' = IF bus = <<>> THEN m_active_session_id ELSE bus[Len(bus)]
  /\ bus' = <<>>
  /\ UNCHANGED <<seat, subscribed, blind>>

\* init(): the bus, GetSeat or the match may fail (no signals then); the
\* read of ActiveSession may fail (the copy stays empty).  A switch between
\* the match and the read leaves its signal queued.
TrackerStart ==
  /\ subscribed' \in BOOLEAN
  /\ bus' \in IF subscribed' /\ MaxSignals > 0 THEN {<<>>, <<seat>>} ELSE {<<>>}
  /\ \/ m_active_session_id' = seat /\ blind' = FALSE
     \/ m_active_session_id' = NoSession /\ blind' = (bus' = <<>>)
  /\ UNCHANGED seat

\* logind activates another session, or none (not draind code).
SwitchSession(id) ==
  /\ id # seat
  /\ subscribed => Len(bus) < MaxSignals
  /\ seat' = id
  /\ bus' = IF subscribed THEN Append(bus, id) ELSE bus
  /\ blind' = FALSE
  /\ UNCHANGED <<m_active_session_id, subscribed>>

TrackerInit ==
  /\ seat \in SessionIds
  /\ bus = <<>>
  /\ m_active_session_id = NoSession
  /\ subscribed = FALSE
  /\ blind = FALSE

TrackerReset ==
  /\ bus' = <<>>
  /\ m_active_session_id' = NoSession
  /\ subscribed' = FALSE
  /\ blind' = FALSE
  /\ UNCHANGED seat
=============================================================================
