------------------------- MODULE IdleBackendsProofs -------------------------
(***************************************************************************)
(* For every set of timeouts: the fallback idle monitor never loses the    *)
(* timer it still needs and never reports a user idle too early, and both  *)
(* idle monitors of the agent implement IdleMonitor, with any number of    *)
(* events under way.                                                       *)
(*                                                                         *)
(* NoLostTimer is not inductive: when a timer is drained, nothing in it    *)
(* says that its threshold has been reached.  IdleInv adds how long the    *)
(* armed timer waits, before dim (TimerCoversThreshold) and after it       *)
(* (TimerCoversSleep), and that input which has been read is never younger *)
(* than elapsed says (ElapsedIsQuiet).                                     *)
(*                                                                         *)
(* To implement IdleMonitor, the input monitor needs IdleInv and that input*)
(* which epoll_wait has found is still there when it is served (BatchInv). *)
(* The Wayland monitor keeps no state of its own: what it has reported     *)
(* follows from the events it has not handled, because the idled and       *)
(* resumed of one notification alternate up to what the compositor has     *)
(* sent last (EventsAlternate), and an idle period that has not ended is   *)
(* as long as its timeout (IdledDue).                                      *)
(***************************************************************************)
EXTENDS IdleBackends, TLAPS, FiniteSetTheorems

(* The input monitor by itself *)

TimerCoversSleep ==
  timer # Disarmed /\ m_dimmed /\ ~m_sleeping /\ m_sleep_ms > 0
    => elapsed + timer >= m_sleep_ms

ElapsedIsQuiet == pending \/ quiet >= elapsed

IdleInv ==
  /\ IdleTypeOK
  /\ NoLostTimer
  /\ TimerCoversThreshold
  /\ TimerCoversSleep
  /\ ElapsedIsQuiet

-----------------------------------------------------------------------------
\* The state init() leaves satisfies the invariant.
LEMMA IdleInitInv == IdleInit => IdleInv
<1> SUFFICES ASSUME IdleInit PROVE IdleInv
  OBVIOUS
<1> USE DEF IdleInit
<1>1. m_dim_ms \in Nat /\ m_sleep_ms \in Nat /\ MaxElapsed \in Nat
  BY IdleAssumption
<1>2. FlagsOK
  BY DEF FlagsOK
<1>3. TimesOK
  BY <1>1, IdleAssumption DEF TimesOK, FirstMs, Disarmed
<1>4. NoLostTimer /\ TimerCoversThreshold /\ TimerCoversSleep /\ ElapsedIsQuiet
  BY <1>1 DEF NoLostTimer, TimerCoversThreshold, TimerCoversSleep,
              ElapsedIsQuiet, FirstMs, Disarmed
<1> QED BY <1>2, <1>3, <1>4 DEF IdleInv, IdleTypeOK

\* poll() and set_timeouts() keep it, whatever the clock and the user do.
LEMMA IdleStep == IdleInv /\ [IdleNext]_idleVars => IdleInv'
<1> SUFFICES ASSUME IdleInv, [IdleNext]_idleVars PROVE IdleInv'
  OBVIOUS
<1> USE DEF IdleInv, IdleTypeOK, Disarmed
<1>a. /\ m_dim_ms \in Nat /\ m_sleep_ms \in Nat /\ timer \in Int
      /\ elapsed \in Nat /\ quiet \in Nat
      /\ MaxElapsed \in Nat /\ MaxChanges \in Nat
      /\ m_dim_ms < MaxElapsed /\ m_sleep_ms < MaxElapsed
  BY IdleAssumption DEF TimesOK
<1> USE <1>a
<1>1. CASE EpollWait
  <2>1. FlagsOK'
    BY <1>1 DEF EpollWait, Ready, FlagsOK
  <2>2. TimesOK'
    BY <1>1 DEF EpollWait, Ready, TimesOK
  <2>3. NoLostTimer'
    BY <1>1 DEF EpollWait, Ready, TimesOK, NoLostTimer, TimerCoversThreshold,
                TimerCoversSleep, FirstMs
  <2>4. TimerCoversThreshold' /\ TimerCoversSleep' /\ ElapsedIsQuiet'
    BY <1>1 DEF EpollWait, Ready, TimesOK, TimerCoversThreshold,
                TimerCoversSleep, ElapsedIsQuiet, FirstMs
  <2> QED BY <2>1, <2>2, <2>3, <2>4
<1>2. CASE OnTimeout
  <2>1. FlagsOK'
    BY <1>2 DEF OnTimeout, FlagsOK
  <2>2. TimesOK'
    BY <1>2 DEF OnTimeout, SleepDue, DimDue, Drained, TimeLeft, RearmForSleep,
                TimesOK
  <2>3. NoLostTimer'
    BY <1>2 DEF OnTimeout, SleepDue, DimDue, Drained, TimeLeft, RearmForSleep,
                TimesOK, NoLostTimer, TimerCoversThreshold, TimerCoversSleep,
                FirstMs
  <2>4. TimerCoversThreshold' /\ TimerCoversSleep' /\ ElapsedIsQuiet'
    BY <1>2 DEF OnTimeout, SleepDue, DimDue, Drained, TimeLeft, RearmForSleep,
                TimesOK, TimerCoversThreshold, TimerCoversSleep,
                ElapsedIsQuiet, FirstMs
  <2> QED BY <2>1, <2>2, <2>3, <2>4
<1>3. CASE OnInput
  <2>1. FlagsOK'
    BY <1>3 DEF OnInput, ResetIdleTimer, FlagsOK
  <2>2. TimesOK'
    BY <1>3 DEF OnInput, ResetIdleTimer, FirstMs, TimesOK
  <2>3. NoLostTimer'
    BY <1>3 DEF OnInput, ResetIdleTimer, FirstMs, TimesOK, NoLostTimer,
                TimerCoversThreshold, TimerCoversSleep
  <2>4. TimerCoversThreshold' /\ TimerCoversSleep' /\ ElapsedIsQuiet'
    BY <1>3 DEF OnInput, ResetIdleTimer, FirstMs, TimesOK,
                TimerCoversThreshold, TimerCoversSleep, ElapsedIsQuiet
  <2> QED BY <2>1, <2>2, <2>3, <2>4
<1>4. CASE Tick
  <2>1. FlagsOK'
    BY <1>4 DEF Tick, FlagsOK
  <2>2. TimesOK'
    BY <1>4 DEF Tick, Saturate, FirstMs, TimesOK
  <2>3. NoLostTimer'
    BY <1>4 DEF Tick, Saturate, FirstMs, TimesOK, NoLostTimer,
                TimerCoversThreshold, TimerCoversSleep
  <2>4. TimerCoversThreshold' /\ TimerCoversSleep' /\ ElapsedIsQuiet'
    BY <1>4 DEF Tick, Saturate, FirstMs, TimesOK, TimerCoversThreshold,
                TimerCoversSleep, ElapsedIsQuiet
  <2> QED BY <2>1, <2>2, <2>3, <2>4
<1>5. CASE UserInput
  <2>1. FlagsOK'
    BY <1>5 DEF UserInput, FlagsOK
  <2>2. TimesOK'
    BY <1>5 DEF UserInput, TimesOK
  <2>3. NoLostTimer'
    BY <1>5 DEF UserInput, TimesOK, NoLostTimer, TimerCoversThreshold,
                TimerCoversSleep, FirstMs
  <2>4. TimerCoversThreshold' /\ TimerCoversSleep' /\ ElapsedIsQuiet'
    BY <1>5 DEF UserInput, TimesOK, TimerCoversThreshold, TimerCoversSleep,
                ElapsedIsQuiet, FirstMs
  <2> QED BY <2>1, <2>2, <2>3, <2>4
<1>6. ASSUME NEW dim \in Timeouts, NEW sleep \in Timeouts,
             SetTimeouts(dim, sleep)
      PROVE IdleInv'
  <2> USE <1>6 DEF SetTimeouts, ResetIdleTimer
  <2>a. dim \in Nat /\ sleep \in Nat
    BY IdleAssumption
  <2>1. FlagsOK'
    BY DEF FlagsOK
  <2>2. TimesOK'
    BY <2>a DEF TimesOK, FirstMs
  <2>3. NoLostTimer'
    BY <2>a DEF NoLostTimer, FirstMs
  <2>4. TimerCoversThreshold' /\ TimerCoversSleep' /\ ElapsedIsQuiet'
    BY <2>a DEF TimerCoversThreshold, TimerCoversSleep, ElapsedIsQuiet, FirstMs
  <2> QED BY <2>1, <2>2, <2>3, <2>4
<1>7. CASE UNCHANGED idleVars
  BY <1>7 DEF idleVars, FlagsOK, TimesOK, NoLostTimer, TimerCoversThreshold,
              TimerCoversSleep, ElapsedIsQuiet
<1> QED BY <1>1, <1>2, <1>3, <1>4, <1>5, <1>6, <1>7 DEF IdleNext, Poll

\* The invariant holds in every reachable state.
LEMMA IdleInvariant == IdleSpec => []IdleInv
BY IdleInitInv, IdleStep, PTL DEF IdleSpec

\* For every set of timeouts the members of InputIdleMonitor stay in range: no
\* timer is armed for a negative time and elapsed never passes the clock's cap.
THEOREM IdleTypeCorrect == IdleSpec => []IdleTypeOK
<1>1. IdleInv => IdleTypeOK
  BY DEF IdleInv
<1> QED BY <1>1, IdleInvariant, PTL

\* A timer that on_timeout or set_timeouts armed never expires before the
\* threshold it stands for, whatever input and CONFIG came in between.
THEOREM TimerCorrect == IdleSpec => []TimerCoversThreshold
<1>1. IdleInv => TimerCoversThreshold
  BY DEF IdleInv
<1> QED BY <1>1, IdleInvariant, PTL

\* Whatever the timeouts and the order of events, a threshold that is still
\* to be reported has a timer that is armed or about to be served.
THEOREM NoTimerLost == IdleSpec => []NoLostTimer
<1>1. IdleInv => NoLostTimer
  BY DEF IdleInv
<1> QED BY <1>1, IdleInvariant, PTL

\* on_timeout never reports a user idle whose last input has been read and is
\* younger than the timeout.
THEOREM IdleReportsTrue == IdleSpec => NoFalseIdle
<1>1. IdleInv /\ [IdleNext]_idleVars
        => [/\ told' = "dim"   /\ told # "dim"   => pending \/ quiet >= m_dim_ms
            /\ told' = "sleep" /\ told # "sleep"
                 => pending \/ quiet >= m_sleep_ms]_idleVars
  <2> SUFFICES ASSUME IdleInv, IdleNext
               PROVE  /\ told' = "dim" /\ told # "dim"
                           => pending \/ quiet >= m_dim_ms
                      /\ told' = "sleep" /\ told # "sleep"
                           => pending \/ quiet >= m_sleep_ms
    OBVIOUS
  <2>1. CASE OnTimeout
    BY <2>1, IdleAssumption
    DEF OnTimeout, SleepDue, DimDue, IdleInv, IdleTypeOK, TimesOK, ElapsedIsQuiet
  <2>2. CASE OnInput
    BY <2>2 DEF OnInput
  <2>3. CASE EpollWait \/ Tick \/ UserInput
                \/ \E dim, sleep \in Timeouts : SetTimeouts(dim, sleep)
    BY <2>3 DEF EpollWait, Tick, UserInput, SetTimeouts
  <2> QED BY <2>1, <2>2, <2>3 DEF IdleNext, Poll
<1> QED BY <1>1, IdleInvariant, PTL DEF IdleSpec, NoFalseIdle

-----------------------------------------------------------------------------
(* Both monitors *)

BatchInv == "input" \in batch => pending

Events == [of : Notifications, kind : {"idled", "resumed"}]

WaylandTypeOK ==
  /\ notif \in [Notifications -> Timeouts]
  /\ idled \subseteq Notifications
  /\ wquiet \in Nat
  /\ socket \in Seq(Events) /\ dispatch \in Seq(Events)

\* Event i is the last one of its notification, or j is the next one.
LastEvent(i) == \A j \in DOMAIN Queue : j > i => Queue[j].of # Queue[i].of
NextEvent(i, j) ==
  /\ j > i /\ Queue[j].of = Queue[i].of
  /\ \A k \in DOMAIN Queue : i < k /\ k < j => Queue[k].of # Queue[i].of

EventsAlternate ==
  \A i \in DOMAIN Queue :
    \/ LastEvent(i) /\ (Queue[i].kind = "idled" <=> Queue[i].of \in idled)
    \/ \E j \in DOMAIN Queue : NextEvent(i, j) /\ Queue[j].kind # Queue[i].kind

IdledDue ==
  /\ \A n \in idled : notif[n] > 0 /\ wquiet >= notif[n]
  /\ \A i \in DOMAIN Queue : notif[Queue[i].of] > 0

WaylandInv == WaylandTypeOK /\ EventsAlternate /\ IdledDue

BackendInv == IdleInv /\ BatchInv /\ WaylandInv
-----------------------------------------------------------------------------
(* The events under way *)

LEMMA QueueType ==
  ASSUME WaylandTypeOK
  PROVE  /\ Queue \in Seq(Events)
         /\ \A i \in DOMAIN Queue : /\ i \in Nat /\ i > 0
                                    /\ Queue[i].of \in Notifications
                                    /\ Queue[i].kind \in {"idled", "resumed"}
<1>1. Queue \in Seq(Events)
  BY DEF WaylandTypeOK, Queue
<1>2. \A e \in Events : e.of \in Notifications /\ e.kind \in {"idled", "resumed"}
  BY DEF Events
<1> QED  BY <1>1, <1>2

\* wl_display_dispatch moves events, and changes none.
LEMMA DispatchQueue ==
  ASSUME WaylandTypeOK, DisplayDispatch
  PROVE  Queue' = Queue
BY DEF WaylandTypeOK, DisplayDispatch, Queue

\* The first event is handled and the others move up.
LEMMA HandledQueue ==
  ASSUME WaylandTypeOK, OnNotification
  PROVE  /\ 1 \in DOMAIN Queue /\ Queue[1] = Head(dispatch)
         /\ \A i \in DOMAIN Queue' : /\ i \in Nat /\ i > 0
                                     /\ i + 1 \in DOMAIN Queue
                                     /\ Queue'[i] = Queue[i + 1]
         /\ \A i \in DOMAIN Queue : i # 1 => /\ i - 1 \in DOMAIN Queue'
                                             /\ Queue'[i - 1] = Queue[i]
<1>1. /\ dispatch \in Seq(Events) /\ socket \in Seq(Events) /\ dispatch # <<>>
      /\ dispatch' = Tail(dispatch) /\ socket' = socket
  BY DEF WaylandTypeOK, OnNotification
<1>2. Queue' = Tail(dispatch) \o socket
  BY <1>1 DEF Queue
<1>3. /\ Len(dispatch) \in Nat /\ Len(dispatch) > 0 /\ Len(socket) \in Nat
      /\ Tail(dispatch) \in Seq(Events) /\ Len(Tail(dispatch)) = Len(dispatch) - 1
      /\ \A i \in 1 .. Len(dispatch) - 1 : Tail(dispatch)[i] = dispatch[i + 1]
      /\ Head(dispatch) = dispatch[1]
  BY <1>1
<1>4. /\ DOMAIN Queue = 1 .. Len(dispatch) + Len(socket)
      /\ \A i \in 1 .. Len(dispatch) + Len(socket) :
           Queue[i] = IF i <= Len(dispatch) THEN dispatch[i]
                                            ELSE socket[i - Len(dispatch)]
  BY <1>1 DEF Queue
<1>5. /\ DOMAIN Queue' = 1 .. Len(dispatch) - 1 + Len(socket)
      /\ \A i \in 1 .. Len(dispatch) - 1 + Len(socket) :
           Queue'[i] = IF i <= Len(dispatch) - 1
                       THEN Tail(dispatch)[i]
                       ELSE socket[i - (Len(dispatch) - 1)]
  BY <1>1, <1>2, <1>3
<1>6. \A i \in DOMAIN Queue' : /\ i \in Nat /\ i > 0
                               /\ i + 1 \in DOMAIN Queue
                               /\ Queue'[i] = Queue[i + 1]
  BY <1>3, <1>4, <1>5
<1>7. \A i \in DOMAIN Queue : i # 1 => /\ i - 1 \in DOMAIN Queue'
                                       /\ Queue'[i - 1] = Queue[i]
  BY <1>3, <1>4, <1>5, <1>6
<1> QED  BY <1>3, <1>4, <1>6, <1>7

\* The compositor puts one event at the end.
LEMMA SentQueue ==
  ASSUME WaylandTypeOK, NEW n \in Notifications, SendIdled(n)
  PROVE  /\ DOMAIN Queue' = DOMAIN Queue \cup {Len(Queue) + 1}
         /\ Len(Queue) \in Nat
         /\ Queue'[Len(Queue) + 1] = Event(n, "idled")
         /\ \A i \in DOMAIN Queue : i < Len(Queue) + 1 /\ Queue'[i] = Queue[i]
<1>1. /\ dispatch \in Seq(Events) /\ socket \in Seq(Events)
      /\ dispatch' = dispatch /\ socket' = Append(socket, Event(n, "idled"))
  BY DEF WaylandTypeOK, SendIdled
<1>2. Event(n, "idled") \in Events
  BY DEF Event, Events
<1>3. Queue' = Append(Queue, Event(n, "idled")) /\ Queue \in Seq(Events)
  BY <1>1, <1>2 DEF Queue
<1> QED  BY <1>2, <1>3

\* An order of the notifications names each of them once.
LEMMA Orders ==
  ASSUME NEW S \in SUBSET Notifications, NEW order \in SetToSeqs(S)
  PROVE  /\ order \in Seq(S)
         /\ \A i, j \in DOMAIN order : order[i] = order[j] => i = j
         /\ \A n \in S : \E i \in DOMAIN order : order[i] = n
<1> DEFINE k == Cardinality(S)
<1>1. order \in [1 .. k -> S] /\ \A i, j \in 1 .. k : i # j => order[i] # order[j]
  BY DEF SetToSeqs
<1>2. \/ S = {} /\ k = 0
      \/ \E n \in Notifications : S = {n} /\ k = 1
      \/ S = {"dim", "sleep"} /\ k = 2
  <2>1. Cardinality({}) = 0 /\ \A n : IsFiniteSet({n}) /\ Cardinality({n}) = 1
    BY FS_EmptySet, FS_Singleton
  <2>2. Cardinality({"dim"} \cup {"sleep"}) = 2
    <3>1. IsFiniteSet({"dim"}) /\ Cardinality({"dim"}) = 1 /\ "sleep" \notin {"dim"}
      BY <2>1
    <3>2. Cardinality({"dim"} \cup {"sleep"}) = Cardinality({"dim"}) + 1
      BY <3>1, FS_AddElement
    <3> QED  BY <3>1, <3>2
  <2>3. {"dim"} \cup {"sleep"} = {"dim", "sleep"}
    OBVIOUS
  <2>4. S = {} \/ S = {"dim"} \/ S = {"sleep"} \/ S = {"dim", "sleep"}
    BY DEF Notifications
  <2> QED  BY <2>1, <2>2, <2>3, <2>4 DEF Notifications
<1> HIDE DEF k
<1>3. k \in Nat /\ DOMAIN order = 1 .. k
  BY <1>1, <1>2
<1>4. \A n \in S : \E i \in DOMAIN order : order[i] = n
  <2>1. CASE S = {}
    BY <2>1
  <2>2. CASE \E n \in Notifications : S = {n} /\ k = 1
    <3>1. 1 \in 1 .. k
      BY <1>2, <2>2
    <3> QED  BY <1>1, <1>3, <2>2, <3>1
  <2>3. CASE S = {"dim", "sleep"} /\ k = 2
    <3>1. 1 \in 1 .. k /\ 2 \in 1 .. k /\ 1 # 2
      BY <2>3
    <3> QED  BY <1>1, <1>3, <2>3, <3>1
  <2> QED  BY <1>2, <2>1, <2>2, <2>3
<1> QED  BY <1>1, <1>3, <1>4

\* Input makes the compositor put one resumed per idle period at the end.
LEMMA SeatQueue ==
  ASSUME WaylandTypeOK, SeatInput
  PROVE  /\ \A i \in DOMAIN Queue : i \in DOMAIN Queue' /\ Queue'[i] = Queue[i]
         /\ \A i \in DOMAIN Queue' \ DOMAIN Queue :
              /\ i \in Nat /\ \A j \in DOMAIN Queue : j < i
              /\ Queue'[i].kind = "resumed" /\ Queue'[i].of \in idled
              /\ \A j \in DOMAIN Queue' \ DOMAIN Queue :
                   Queue'[i].of = Queue'[j].of => i = j
         /\ \A n \in idled : \E i \in DOMAIN Queue' \ DOMAIN Queue :
              Queue'[i].of = n
         /\ socket' \in Seq(Events)
<1>1. PICK order \in SetToSeqs(idled) :
        socket' = socket \o [i \in DOMAIN order |-> Event(order[i], "resumed")]
  BY DEF SeatInput
<1> DEFINE x == [i \in DOMAIN order |-> Event(order[i], "resumed")]
<1>2. /\ order \in Seq(idled)
      /\ \A i, j \in DOMAIN order : order[i] = order[j] => i = j
      /\ \A n \in idled : \E i \in DOMAIN order : order[i] = n
  BY Orders DEF WaylandTypeOK
<1>3. /\ x \in Seq(Events) /\ DOMAIN x = DOMAIN order
      /\ \A i \in DOMAIN x : x[i].kind = "resumed" /\ x[i].of = order[i]
  <2>1. \A i \in DOMAIN order : order[i] \in Notifications
    BY <1>2 DEF WaylandTypeOK
  <2>2. \A i \in DOMAIN order : Event(order[i], "resumed") \in Events
    BY <2>1 DEF Event, Events
  <2>3. DOMAIN order = 1 .. Len(order) /\ Len(order) \in Nat
    BY <1>2
  <2>4. x \in Seq(Events)
    BY <2>2, <2>3
  <2> QED  BY <2>4 DEF Event
<1> HIDE DEF x
<1>4. Queue' = Queue \o x /\ Queue \in Seq(Events)
  <2>1. /\ dispatch \in Seq(Events) /\ socket \in Seq(Events)
        /\ dispatch' = dispatch /\ socket' = socket \o x
    BY <1>1 DEF WaylandTypeOK, SeatInput, x
  <2>2. Queue' = dispatch \o (socket \o x)
    BY <2>1 DEF Queue
  <2>3. dispatch \o (socket \o x) = (dispatch \o socket) \o x
    BY <1>3, <2>1
  <2> QED  BY <2>1, <2>2, <2>3 DEF Queue
<1>5. /\ Len(Queue) \in Nat /\ Len(x) \in Nat
      /\ DOMAIN Queue = 1 .. Len(Queue) /\ DOMAIN x = 1 .. Len(x)
      /\ DOMAIN Queue' = 1 .. Len(Queue) + Len(x)
      /\ \A i \in 1 .. Len(Queue) : Queue'[i] = Queue[i]
      /\ \A i \in 1 .. Len(Queue) + Len(x) :
           i > Len(Queue) => Queue'[i] = x[i - Len(Queue)]
  BY <1>3, <1>4
<1>6. \A i \in DOMAIN Queue' \ DOMAIN Queue :
        /\ i \in Nat /\ i > Len(Queue)
        /\ i - Len(Queue) \in DOMAIN order
        /\ Queue'[i] = x[i - Len(Queue)]
  BY <1>3, <1>5
<1>7. \A i \in DOMAIN order : /\ i + Len(Queue) \in DOMAIN Queue' \ DOMAIN Queue
                              /\ Queue'[i + Len(Queue)] = x[i]
  BY <1>3, <1>5
<1>8. ASSUME NEW i \in DOMAIN Queue' \ DOMAIN Queue
      PROVE  /\ i \in Nat /\ \A j \in DOMAIN Queue : j < i
             /\ Queue'[i].kind = "resumed" /\ Queue'[i].of \in idled
             /\ Queue'[i].of = order[i - Len(Queue)]
  <2>1. /\ i \in Nat /\ i > Len(Queue) /\ i - Len(Queue) \in DOMAIN order
        /\ Queue'[i] = x[i - Len(Queue)]
    BY <1>6, <1>8
  <2>2. Queue'[i].kind = "resumed" /\ Queue'[i].of = order[i - Len(Queue)]
    BY <1>3, <2>1
  <2>3. order[i - Len(Queue)] \in idled
    BY <1>2, <2>1
  <2>4. \A j \in DOMAIN Queue : j < i
    BY <1>5, <2>1
  <2> QED  BY <2>1, <2>2, <2>3, <2>4
<1>9. ASSUME NEW i \in DOMAIN Queue' \ DOMAIN Queue,
             NEW j \in DOMAIN Queue' \ DOMAIN Queue,
             Queue'[i].of = Queue'[j].of
      PROVE  i = j
  <2>1. i - Len(Queue) = j - Len(Queue)
    BY <1>2, <1>6, <1>8, <1>9
  <2> QED  BY <1>5, <1>6, <2>1
<1>10. ASSUME NEW n \in idled
       PROVE  \E i \in DOMAIN Queue' \ DOMAIN Queue : Queue'[i].of = n
  <2>1. PICK i \in DOMAIN order : order[i] = n
    BY <1>2
  <2>2. Queue'[i + Len(Queue)].of = n
    BY <1>3, <1>7, <2>1
  <2> QED  BY <1>7, <2>2
<1>11. socket' \in Seq(Events)
  BY <1>1, <1>3 DEF x, WaylandTypeOK
<1> QED  BY <1>5, <1>8, <1>9, <1>10, <1>11

-----------------------------------------------------------------------------
(* The invariant of the Wayland monitor *)

LEMMA WaylandInitial == WaylandInit => WaylandInv
<1> SUFFICES ASSUME WaylandInit PROVE WaylandInv
  OBVIOUS
<1>1. WaylandTypeOK
  BY DEF WaylandInit, WaylandTypeOK
<1>2. Queue = <<>>
  BY DEF WaylandInit, Queue
<1> QED
  BY <1>1, <1>2 DEF WaylandInit, WaylandInv, EventsAlternate, IdledDue

LEMMA WaylandTypeStep ==
  ASSUME WaylandTypeOK, [WaylandNext]_waylandVars
  PROVE  WaylandTypeOK'
<1> USE DEF WaylandTypeOK
<1>1. CASE DisplayDispatch
  BY <1>1 DEF DisplayDispatch
<1>2. CASE OnNotification
  BY <1>2 DEF OnNotification
<1>3. ASSUME NEW n \in Notifications, SendIdled(n) PROVE WaylandTypeOK'
  <2>1. Event(n, "idled") \in Events
    BY DEF Event, Events
  <2> QED  BY <1>3, <2>1 DEF SendIdled
<1>4. CASE SeatInput
  <2>1. socket' \in Seq(Events)
    BY <1>4, SeatQueue
  <2> QED  BY <1>4, <2>1 DEF SeatInput
<1>5. CASE SeatTick
  BY <1>5, IdleAssumption DEF SeatTick, Saturate
<1>6. ASSUME NEW new \in [Notifications -> Timeouts], WaylandSetTimeouts(new)
      PROVE  WaylandTypeOK'
  BY <1>6 DEF WaylandSetTimeouts, CreateNotifications
<1>7. CASE UNCHANGED waylandVars
  BY <1>7 DEF waylandVars
<1> QED
  BY <1>1, <1>2, <1>3, <1>4, <1>5, <1>6, <1>7
  DEF WaylandNext, WaylandPoll, Compositor

LEMMA AlternateStep ==
  ASSUME WaylandInv, [WaylandNext]_waylandVars
  PROVE  EventsAlternate'
<1>a. /\ WaylandTypeOK /\ EventsAlternate
      /\ \A i \in DOMAIN Queue : /\ i \in Nat /\ i > 0
                                 /\ Queue[i].kind \in {"idled", "resumed"}
  BY QueueType DEF WaylandInv
<1>1. ASSUME Queue' = Queue, UNCHANGED idled PROVE EventsAlternate'
  BY <1>a, <1>1 DEF EventsAlternate, LastEvent, NextEvent
<1>2. CASE DisplayDispatch
  BY <1>a, <1>1, <1>2, DispatchQueue DEF DisplayDispatch
<1>3. CASE OnNotification
  <2>1. /\ \A i \in DOMAIN Queue' : /\ i \in Nat /\ i > 0
                                    /\ i + 1 \in DOMAIN Queue
                                    /\ Queue'[i] = Queue[i + 1]
        /\ \A i \in DOMAIN Queue : i # 1 => /\ i - 1 \in DOMAIN Queue'
                                            /\ Queue'[i - 1] = Queue[i]
    BY <1>a, <1>3, HandledQueue
  <2>2. UNCHANGED idled
    BY <1>3 DEF OnNotification
  <2> SUFFICES ASSUME NEW i \in DOMAIN Queue'
               PROVE  \/ /\ LastEvent(i)'
                         /\ Queue'[i].kind = "idled" <=> Queue'[i].of \in idled'
                      \/ \E j \in DOMAIN Queue' :
                           NextEvent(i, j)' /\ Queue'[j].kind # Queue'[i].kind
    BY DEF EventsAlternate
  <2>3. i \in Nat /\ i > 0 /\ i + 1 \in DOMAIN Queue /\ Queue'[i] = Queue[i + 1]
    BY <2>1
  <2>4. CASE /\ LastEvent(i + 1)
             /\ Queue[i + 1].kind = "idled" <=> Queue[i + 1].of \in idled
    <3>1. LastEvent(i)'
      BY <2>1, <2>3, <2>4 DEF LastEvent
    <3> QED  BY <2>2, <2>3, <2>4, <3>1
  <2>5. ASSUME NEW j \in DOMAIN Queue, NextEvent(i + 1, j),
               Queue[j].kind # Queue[i + 1].kind
        PROVE  \E k \in DOMAIN Queue' :
                 NextEvent(i, k)' /\ Queue'[k].kind # Queue'[i].kind
    <3>1. /\ j \in Nat /\ j > i + 1
          /\ j - 1 \in DOMAIN Queue' /\ Queue'[j - 1] = Queue[j]
      BY <1>a, <2>1, <2>3, <2>5 DEF NextEvent
    <3>2. \A k \in DOMAIN Queue' : i < k /\ k < j - 1 => Queue'[k].of # Queue'[i].of
      BY <2>1, <2>3, <2>5, <3>1 DEF NextEvent
    <3>3. Queue'[j - 1].of = Queue'[i].of /\ j - 1 > i
      BY <2>3, <2>5, <3>1 DEF NextEvent
    <3>4. NextEvent(i, j - 1)'
      BY <3>2, <3>3 DEF NextEvent
    <3> QED  BY <2>3, <2>5, <3>1, <3>4
  <2> QED  BY <1>a, <2>3, <2>4, <2>5 DEF EventsAlternate
<1>4. ASSUME NEW n \in Notifications, SendIdled(n) PROVE EventsAlternate'
  <2>k. PICK k : k = Len(Queue) + 1
    OBVIOUS
  <2>s. /\ DOMAIN Queue' = DOMAIN Queue \cup {Len(Queue) + 1}
        /\ Len(Queue) \in Nat
        /\ Queue'[Len(Queue) + 1] = Event(n, "idled")
        /\ \A i \in DOMAIN Queue : i < Len(Queue) + 1 /\ Queue'[i] = Queue[i]
    BY <1>a, <1>4, SentQueue, Zenon
  <2>1. /\ DOMAIN Queue' = DOMAIN Queue \cup {k} /\ k \in Nat
        /\ Queue'[k] = Event(n, "idled")
        /\ \A i \in DOMAIN Queue : i < k /\ Queue'[i] = Queue[i]
    <3>1. k \in Nat
      BY <2>k, <2>s
    <3> QED  BY <2>k, <2>s, <3>1, Zenon
  <2>2. Queue'[k].of = n /\ Queue'[k].kind = "idled"
    BY <2>1 DEF Event
  <2>3. n \notin idled /\ idled' = idled \cup {n}
    BY <1>4 DEF SendIdled
  <2>4. LastEvent(k)' /\ n \in idled'
    BY <1>a, <2>1, <2>3 DEF LastEvent
  <2>5. ASSUME NEW i \in DOMAIN Queue, LastEvent(i), Queue[i].of # n,
               Queue[i].kind = "idled" <=> Queue[i].of \in idled
        PROVE  /\ LastEvent(i)'
               /\ Queue'[i].kind = "idled" <=> Queue'[i].of \in idled'
    BY <2>1, <2>2, <2>3, <2>5 DEF LastEvent
  <2>6. ASSUME NEW i \in DOMAIN Queue, LastEvent(i), Queue[i].of = n,
               Queue[i].kind = "idled" <=> Queue[i].of \in idled
        PROVE  NextEvent(i, k)' /\ Queue'[k].kind # Queue'[i].kind
    BY <1>a, <2>1, <2>2, <2>3, <2>6 DEF LastEvent, NextEvent
  <2>7. ASSUME NEW i \in DOMAIN Queue, NEW j \in DOMAIN Queue, NextEvent(i, j),
               Queue[j].kind # Queue[i].kind
        PROVE  NextEvent(i, j)' /\ Queue'[j].kind # Queue'[i].kind
    BY <1>a, <2>1, <2>7 DEF NextEvent
  <2>8. ASSUME NEW i \in DOMAIN Queue
        PROVE  \/ /\ LastEvent(i)'
                  /\ Queue'[i].kind = "idled" <=> Queue'[i].of \in idled'
               \/ \E j \in DOMAIN Queue' :
                    NextEvent(i, j)' /\ Queue'[j].kind # Queue'[i].kind
    BY <1>a, <2>1, <2>5, <2>6, <2>7 DEF EventsAlternate
  <2> QED  BY <2>1, <2>2, <2>4, <2>8 DEF EventsAlternate
<1>5. CASE SeatInput
  <2>1. /\ \A i \in DOMAIN Queue : i \in DOMAIN Queue' /\ Queue'[i] = Queue[i]
        /\ \A i \in DOMAIN Queue' \ DOMAIN Queue :
             /\ i \in Nat /\ \A j \in DOMAIN Queue : j < i
             /\ Queue'[i].kind = "resumed" /\ Queue'[i].of \in idled
             /\ \A j \in DOMAIN Queue' \ DOMAIN Queue :
                  Queue'[i].of = Queue'[j].of => i = j
        /\ \A n \in idled : \E i \in DOMAIN Queue' \ DOMAIN Queue :
             Queue'[i].of = n
    BY <1>a, <1>5, SeatQueue
  <2>2. idled' = {}
    BY <1>5 DEF SeatInput
  <2>3. ASSUME NEW i \in DOMAIN Queue' \ DOMAIN Queue
        PROVE  /\ LastEvent(i)'
               /\ Queue'[i].kind = "idled" <=> Queue'[i].of \in idled'
    <3>1. ASSUME NEW j \in DOMAIN Queue', j > i PROVE Queue'[j].of # Queue'[i].of
      <4>1. j \notin DOMAIN Queue
        BY <1>a, <2>1, <2>3, <3>1
      <4>2. i # j
        BY <2>1, <2>3, <3>1
      <4> QED  BY <2>1, <2>3, <4>1, <4>2
    <3> QED  BY <2>1, <2>2, <2>3, <3>1 DEF LastEvent
  <2>4. ASSUME NEW i \in DOMAIN Queue, LastEvent(i), Queue[i].of \notin idled,
               Queue[i].kind = "idled" <=> Queue[i].of \in idled
        PROVE  /\ LastEvent(i)'
               /\ Queue'[i].kind = "idled" <=> Queue'[i].of \in idled'
    BY <2>1, <2>2, <2>4 DEF LastEvent
  <2>5. ASSUME NEW i \in DOMAIN Queue, LastEvent(i), Queue[i].of \in idled,
               Queue[i].kind = "idled" <=> Queue[i].of \in idled
        PROVE  \E j \in DOMAIN Queue' :
                 NextEvent(i, j)' /\ Queue'[j].kind # Queue'[i].kind
    <3>1. PICK j \in DOMAIN Queue' \ DOMAIN Queue : Queue'[j].of = Queue[i].of
      BY <2>1, <2>5
    <3>2. j > i /\ Queue'[j].kind # Queue'[i].kind /\ Queue'[j].of = Queue'[i].of
      BY <1>a, <2>1, <2>5, <3>1
    <3>3. ASSUME NEW k \in DOMAIN Queue', i < k, k < j
          PROVE  Queue'[k].of # Queue'[i].of
      <4>1. CASE k \in DOMAIN Queue
        BY <1>a, <2>1, <2>5, <3>3, <4>1 DEF LastEvent
      <4>2. CASE k \notin DOMAIN Queue
        <5>1. k # j
          BY <2>1, <3>1, <3>3
        <5> QED  BY <2>1, <3>1, <4>2, <5>1
      <4> QED  BY <4>1, <4>2
    <3>4. NextEvent(i, j)'
      BY <3>2, <3>3 DEF NextEvent
    <3> QED  BY <3>2, <3>4
  <2>6. ASSUME NEW i \in DOMAIN Queue, NEW j \in DOMAIN Queue, NextEvent(i, j),
               Queue[j].kind # Queue[i].kind
        PROVE  NextEvent(i, j)' /\ Queue'[j].kind # Queue'[i].kind
    <3>1. \A k \in DOMAIN Queue' : k < j => k \in DOMAIN Queue
      BY <1>a, <2>1
    <3> QED  BY <2>1, <2>6, <3>1 DEF NextEvent
  <2>7. ASSUME NEW i \in DOMAIN Queue
        PROVE  \/ /\ LastEvent(i)'
                  /\ Queue'[i].kind = "idled" <=> Queue'[i].of \in idled'
               \/ \E j \in DOMAIN Queue' :
                    NextEvent(i, j)' /\ Queue'[j].kind # Queue'[i].kind
    BY <1>a, <2>1, <2>4, <2>5, <2>6 DEF EventsAlternate
  <2> QED  BY <2>3, <2>7 DEF EventsAlternate
<1>6. CASE SeatTick \/ UNCHANGED waylandVars
  <2>1. Queue' = Queue /\ UNCHANGED idled
    BY <1>6 DEF SeatTick, waylandVars, Queue
  <2> QED  BY <1>1, <2>1
<1>7. ASSUME NEW new \in [Notifications -> Timeouts], WaylandSetTimeouts(new)
      PROVE  EventsAlternate'
  <2>1. Queue' = <<>>
    BY <1>7 DEF WaylandSetTimeouts, CreateNotifications, Queue
  <2> QED  BY <2>1 DEF EventsAlternate
<1> QED
  BY <1>2, <1>3, <1>4, <1>5, <1>6, <1>7
  DEF WaylandNext, WaylandPoll, Compositor

LEMMA DueStep ==
  ASSUME WaylandInv, [WaylandNext]_waylandVars
  PROVE  IdledDue'
<1>a. /\ WaylandTypeOK /\ IdledDue
      /\ \A n \in Notifications : notif[n] \in Nat
  BY IdleAssumption DEF WaylandInv, WaylandTypeOK
<1>1. ASSUME Queue' = Queue, UNCHANGED <<notif, idled>>, wquiet' >= wquiet,
             wquiet' \in Nat
      PROVE  IdledDue'
  BY <1>a, <1>1 DEF IdledDue, WaylandTypeOK
<1>2. CASE DisplayDispatch
  BY <1>a, <1>1, <1>2, DispatchQueue DEF DisplayDispatch, WaylandTypeOK
<1>3. CASE OnNotification
  <2>1. UNCHANGED <<notif, idled, wquiet>>
    BY <1>3 DEF OnNotification
  <2>2. \A i \in DOMAIN Queue' : i + 1 \in DOMAIN Queue /\ Queue'[i] = Queue[i + 1]
    BY <1>a, <1>3, HandledQueue
  <2> QED  BY <1>a, <2>1, <2>2 DEF IdledDue
<1>4. ASSUME NEW n \in Notifications, SendIdled(n) PROVE IdledDue'
  <2>1. /\ notif[n] > 0 /\ wquiet >= notif[n] /\ idled' = idled \cup {n}
        /\ UNCHANGED <<notif, wquiet>>
    BY <1>4 DEF SendIdled
  <2>2. \A i \in DOMAIN Queue' : \/ i \in DOMAIN Queue /\ Queue'[i] = Queue[i]
                                 \/ Queue'[i].of = n
    <3>1. /\ DOMAIN Queue' = DOMAIN Queue \cup {Len(Queue) + 1}
          /\ Queue'[Len(Queue) + 1] = Event(n, "idled")
          /\ \A i \in DOMAIN Queue : Queue'[i] = Queue[i]
      BY <1>a, <1>4, SentQueue, Zenon
    <3>2. Event(n, "idled").of = n
      BY DEF Event
    <3> QED  BY <3>1, <3>2, Zenon
  <2> QED  BY <1>a, <2>1, <2>2 DEF IdledDue
<1>5. CASE SeatInput
  <2>1. idled' = {} /\ UNCHANGED notif
    BY <1>5 DEF SeatInput
  <2>2. \A i \in DOMAIN Queue' : \/ i \in DOMAIN Queue /\ Queue'[i] = Queue[i]
                                 \/ Queue'[i].of \in idled
    BY <1>a, <1>5, SeatQueue
  <2> QED  BY <1>a, <2>1, <2>2 DEF IdledDue
<1>6. CASE SeatTick
  <2>1. Queue' = Queue
    BY <1>6 DEF SeatTick, Queue
  <2> QED  BY <1>a, <1>1, <1>6, <2>1, IdleAssumption
           DEF SeatTick, Saturate, WaylandTypeOK
<1>7. ASSUME NEW new \in [Notifications -> Timeouts], WaylandSetTimeouts(new)
      PROVE  IdledDue'
  <2>1. Queue' = <<>> /\ idled' = {}
    BY <1>7 DEF WaylandSetTimeouts, CreateNotifications, Queue
  <2> QED  BY <2>1 DEF IdledDue
<1>8. CASE UNCHANGED waylandVars
  <2>1. Queue' = Queue
    BY <1>8 DEF waylandVars, Queue
  <2> QED  BY <1>a, <1>1, <1>8, <2>1 DEF waylandVars, WaylandTypeOK
<1> QED
  BY <1>2, <1>3, <1>4, <1>5, <1>6, <1>7, <1>8
  DEF WaylandNext, WaylandPoll, Compositor

LEMMA WaylandStep == WaylandInv /\ [WaylandNext]_waylandVars => WaylandInv'
BY WaylandTypeStep, AlternateStep, DueStep DEF WaylandInv

-----------------------------------------------------------------------------
(* What the agent has been told, seen through the events under way *)

\* Every step but the handling of an event leaves alone what the agent has
\* seen: dispatching only moves events.
LEMMA SeenDispatch ==
  ASSUME WaylandTypeOK, DisplayDispatch
  PROVE  /\ WaylandUnread' <=> WaylandUnread
         /\ \A n \in Notifications : SeenIdle(n)' <=> SeenIdle(n)
<1>1. Queue' = Queue /\ idled' = idled
  BY DispatchQueue DEF DisplayDispatch
<1> QED  BY <1>1 DEF WaylandUnread, SeenIdle, EventsOf

\* An idled that has been sent is not seen before it is handled.
LEMMA SeenSent ==
  ASSUME WaylandTypeOK, NEW m \in Notifications, SendIdled(m)
  PROVE  /\ WaylandUnread' <=> WaylandUnread
         /\ \A n \in Notifications : SeenIdle(n)' <=> SeenIdle(n)
<1>k. PICK k : k = Len(Queue) + 1
  OBVIOUS
<1>s. /\ DOMAIN Queue' = DOMAIN Queue \cup {Len(Queue) + 1}
      /\ Len(Queue) \in Nat
      /\ Queue'[Len(Queue) + 1] = Event(m, "idled")
      /\ \A i \in DOMAIN Queue : i < Len(Queue) + 1 /\ Queue'[i] = Queue[i]
  BY SentQueue, Zenon
<1>1. k \in Nat
  BY <1>k, <1>s
<1>2. /\ DOMAIN Queue' = DOMAIN Queue \cup {k}
      /\ Queue'[k].of = m /\ Queue'[k].kind = "idled"
      /\ \A i \in DOMAIN Queue : i < k /\ i \in Nat /\ Queue'[i] = Queue[i]
  <2>1. Event(m, "idled").of = m /\ Event(m, "idled").kind = "idled"
    BY DEF Event
  <2>2. \A i \in DOMAIN Queue : i \in Nat
    BY QueueType
  <2> QED  BY <1>k, <1>s, <2>1, <2>2, Zenon
<1>3. m \notin idled /\ idled' = idled \cup {m}
  BY DEF SendIdled
<1>4. WaylandUnread' <=> WaylandUnread
  BY <1>2 DEF WaylandUnread
<1>5. ASSUME NEW n \in Notifications PROVE SeenIdle(n)' <=> SeenIdle(n)
  <2>1. CASE n # m
    <3>1. EventsOf(n)' = EventsOf(n)
      BY <1>2, <2>1 DEF EventsOf
    <3>2. \A i \in EventsOf(n) : Queue'[i] = Queue[i]
      BY <1>2 DEF EventsOf
    <3>3. n \in idled' <=> n \in idled
      BY <1>3, <2>1
    <3> QED  BY <3>1, <3>2, <3>3 DEF SeenIdle
  <2>2. CASE n = m
    <3>1. EventsOf(n)' = EventsOf(n) \cup {k}
      BY <1>2, <2>2 DEF EventsOf
    <3>2. \A i \in EventsOf(n) : /\ i \in Nat /\ i < k /\ Queue'[i] = Queue[i]
      BY <1>2 DEF EventsOf
    <3>3. n \notin idled
      BY <1>3, <2>2
    <3>4. SeenIdle(n) => SeenIdle(n)'
      BY <1>1, <3>1, <3>2, <3>3 DEF SeenIdle
    <3>5. SeenIdle(n)' => SeenIdle(n)
      BY <1>1, <1>2, <3>1, <3>2, <3>3 DEF SeenIdle
    <3> QED  BY <3>4, <3>5
  <2> QED  BY <2>1, <2>2
<1> QED  BY <1>4, <1>5

\* Input leaves it alone too, and is under way when somebody is idle.
LEMMA SeenSeat ==
  ASSUME WaylandTypeOK, SeatInput
  PROVE  /\ WaylandUnread => WaylandUnread'
         /\ idled # {} => WaylandUnread'
         /\ idled = {} => (WaylandUnread' <=> WaylandUnread)
         /\ \A n \in Notifications : SeenIdle(n)' <=> SeenIdle(n)
<1>1. /\ \A i \in DOMAIN Queue : i \in DOMAIN Queue' /\ Queue'[i] = Queue[i]
      /\ \A i \in DOMAIN Queue' \ DOMAIN Queue :
           /\ i \in Nat /\ \A j \in DOMAIN Queue : j < i
           /\ Queue'[i].kind = "resumed" /\ Queue'[i].of \in idled
           /\ \A j \in DOMAIN Queue' \ DOMAIN Queue :
                Queue'[i].of = Queue'[j].of => i = j
      /\ \A n \in idled : \E i \in DOMAIN Queue' \ DOMAIN Queue :
           Queue'[i].of = n
  BY SeatQueue
<1>2. idled' = {}
  BY DEF SeatInput
<1>3. \A i \in DOMAIN Queue : i \in Nat
  BY QueueType
<1>4. ASSUME NEW n \in Notifications PROVE SeenIdle(n)' <=> SeenIdle(n)
  <2>1. CASE EventsOf(n) # {}
    <3>1. /\ EventsOf(n) \subseteq EventsOf(n)'
          /\ \A i \in EventsOf(n) : i \in Nat /\ Queue'[i] = Queue[i]
          /\ \A i \in EventsOf(n)' \ EventsOf(n) :
               i \in Nat /\ \A j \in EventsOf(n) : j < i
      BY <1>1, <1>3 DEF EventsOf
    <3>2. SeenIdle(n) => SeenIdle(n)'
      BY <2>1, <3>1 DEF SeenIdle
    <3>3. SeenIdle(n)' => SeenIdle(n)
      BY <2>1, <3>1 DEF SeenIdle
    <3> QED  BY <3>2, <3>3
  <2>2. CASE EventsOf(n) = {} /\ n \in idled
    <3>1. PICK i \in DOMAIN Queue' \ DOMAIN Queue : Queue'[i].of = n
      BY <1>1, <2>2
    <3>2. /\ i \in EventsOf(n)' /\ i \in Nat /\ Queue'[i].kind = "resumed"
          /\ \A j \in EventsOf(n)' : j = i
      BY <1>1, <2>2, <3>1 DEF EventsOf
    <3> QED  BY <2>2, <3>2 DEF SeenIdle
  <2>3. CASE EventsOf(n) = {} /\ n \notin idled
    <3>1. EventsOf(n)' = {}
      BY <1>1, <2>3 DEF EventsOf
    <3> QED  BY <1>2, <2>3, <3>1 DEF SeenIdle
  <2> QED  BY <2>1, <2>2, <2>3
<1>5. WaylandUnread => WaylandUnread'
  BY <1>1 DEF WaylandUnread
<1>6. idled # {} => WaylandUnread'
  BY <1>1 DEF WaylandUnread
<1>7. idled = {} => (WaylandUnread' => WaylandUnread)
  BY <1>1 DEF WaylandUnread
<1> QED  BY <1>4, <1>5, <1>6, <1>7

\* Handling an event changes it for the notification of that event only.
LEMMA SeenHandled ==
  ASSUME WaylandInv, OnNotification, NEW e, e = Head(dispatch)
  PROVE  /\ e.of \in Notifications /\ e.kind \in {"idled", "resumed"}
         /\ \A n \in Notifications \ {e.of} : SeenIdle(n)' <=> SeenIdle(n)
         /\ e.kind = "idled" =>
              /\ ~SeenIdle(e.of) /\ SeenIdle(e.of)'
              /\ WaylandUnread' <=> WaylandUnread
              /\ notif[e.of] > 0
              /\ WaylandUnread \/ wquiet >= notif[e.of]
         /\ e.kind = "resumed" => SeenIdle(e.of) /\ WaylandUnread
<1>a. WaylandTypeOK /\ EventsAlternate /\ IdledDue
  BY DEF WaylandInv
<1>b. \A i \in DOMAIN Queue : /\ i \in Nat /\ i > 0
                              /\ Queue[i].of \in Notifications
                              /\ Queue[i].kind \in {"idled", "resumed"}
  BY <1>a, QueueType
<1>1. /\ 1 \in DOMAIN Queue /\ Queue[1] = Head(dispatch)
      /\ \A i \in DOMAIN Queue' : /\ i \in Nat /\ i > 0
                                  /\ i + 1 \in DOMAIN Queue
                                  /\ Queue'[i] = Queue[i + 1]
      /\ \A i \in DOMAIN Queue : i # 1 => /\ i - 1 \in DOMAIN Queue'
                                          /\ Queue'[i - 1] = Queue[i]
  BY <1>a, HandledQueue
<1>2. idled' = idled
  BY DEF OnNotification
<1>m. PICK m : m = Queue[1].of
  OBVIOUS
<1>3. /\ m \in Notifications /\ Queue[1].kind \in {"idled", "resumed"}
      /\ 1 \in EventsOf(m) /\ \A i \in EventsOf(m) : 1 <= i
  BY <1>b, <1>1, <1>m DEF EventsOf
<1>4. ASSUME NEW n \in Notifications, n # m PROVE SeenIdle(n)' <=> SeenIdle(n)
  <2>1. /\ \A i \in EventsOf(n)' : /\ i \in Nat /\ i + 1 \in EventsOf(n)
                                   /\ Queue'[i] = Queue[i + 1]
        /\ \A i \in EventsOf(n) : /\ i \in Nat /\ i - 1 \in EventsOf(n)'
                                  /\ Queue'[i - 1] = Queue[i]
    BY <1>b, <1>1, <1>m, <1>4 DEF EventsOf
  <2>2. SeenIdle(n) => SeenIdle(n)'
    BY <1>2, <2>1 DEF SeenIdle
  <2>3. SeenIdle(n)' => SeenIdle(n)
    BY <1>2, <2>1 DEF SeenIdle
  <2> QED  BY <2>2, <2>3
<1>5. ASSUME Queue[1].kind = "resumed" PROVE SeenIdle(m) /\ WaylandUnread
  BY <1>1, <1>3, <1>5 DEF SeenIdle, WaylandUnread
<1>6. ASSUME Queue[1].kind = "idled"
      PROVE  /\ ~SeenIdle(m) /\ SeenIdle(m)'
             /\ WaylandUnread' <=> WaylandUnread
             /\ notif[m] > 0
             /\ WaylandUnread \/ wquiet >= notif[m]
  <2>1. ~SeenIdle(m)
    <3>1. \A i \in EventsOf(m) : i <= 1 => i = 1
      BY <1>3, <1>b DEF EventsOf
    <3> QED  BY <1>3, <1>6, <3>1 DEF SeenIdle
  <2>2. WaylandUnread' <=> WaylandUnread
    BY <1>1, <1>6 DEF WaylandUnread
  <2>3. notif[m] > 0
    BY <1>a, <1>1, <1>m DEF IdledDue
  <2>4. CASE LastEvent(1) /\ Queue[1].of \in idled
    <3>1. EventsOf(m)' = {}
      BY <1>1, <1>m, <2>4 DEF EventsOf, LastEvent
    <3>2. wquiet >= notif[m]
      BY <1>a, <1>m, <2>4 DEF IdledDue
    <3> QED  BY <1>2, <1>m, <2>1, <2>2, <2>3, <2>4, <3>1, <3>2 DEF SeenIdle
  <2>5. ASSUME NEW j \in DOMAIN Queue, NextEvent(1, j),
               Queue[j].kind # Queue[1].kind
        PROVE  SeenIdle(m)' /\ WaylandUnread
    <3>1. /\ Queue[j].kind = "resumed" /\ j \in Nat /\ j > 1
          /\ j - 1 \in EventsOf(m)' /\ Queue'[j - 1] = Queue[j]
      BY <1>b, <1>1, <1>6, <1>m, <2>5 DEF NextEvent, EventsOf
    <3>2. \A k \in EventsOf(m)' : j - 1 <= k
      BY <1>1, <1>m, <2>5, <3>1 DEF NextEvent, EventsOf
    <3> QED  BY <3>1, <3>2 DEF SeenIdle, WaylandUnread
  <2>6. \/ LastEvent(1) /\ Queue[1].of \in idled
        \/ \E j \in DOMAIN Queue : NextEvent(1, j) /\ Queue[j].kind # Queue[1].kind
    BY <1>a, <1>1, <1>6 DEF EventsAlternate
  <2>7. CASE \E j \in DOMAIN Queue : /\ NextEvent(1, j)
                                     /\ Queue[j].kind # Queue[1].kind
    BY <2>1, <2>2, <2>3, <2>5, <2>7
  <2> QED  BY <2>4, <2>6, <2>7
<1>7. e.of = m /\ e.kind = Queue[1].kind
  BY <1>1, <1>m
<1> QED  BY <1>3, <1>4, <1>5, <1>6, <1>7, Zenon

-----------------------------------------------------------------------------
(* The steps of the Wayland monitor *)

\* The mapping while the agent uses the Wayland monitor, before and after a
\* step.
LEMMA WaylandMapping ==
  ASSUME WaylandTypeOK, WaylandTypeOK', backend = "wayland", backend' = backend
  PROVE  /\ Configured = notif /\ Configured' = notif'
         /\ QuietTime = wquiet /\ QuietTime' = wquiet'
         /\ Unread = WaylandUnread /\ Unread' = WaylandUnread'
         /\ LastTold = wtold /\ LastTold' = wtold'
         /\ Reported = {n \in Notifications : SeenIdle(n)}
         /\ Reported' = {n \in Notifications : SeenIdle(n)'}
<1>1. OnWayland /\ OnWayland'
  BY DEF OnWayland
<1>2. Configured = notif
  <2>1. \A n \in Notifications : TimeoutOf(n) = notif[n]
    BY <1>1 DEF TimeoutOf
  <2> QED  BY <2>1 DEF Configured, WaylandTypeOK
<1>3. Configured' = notif'
  <2>1. \A n \in Notifications : TimeoutOf(n)' = notif'[n]
    BY <1>1 DEF TimeoutOf
  <2> QED  BY <2>1 DEF Configured, WaylandTypeOK
<1>4. /\ QuietTime = wquiet /\ QuietTime' = wquiet'
      /\ Unread = WaylandUnread /\ Unread' = WaylandUnread'
      /\ LastTold = wtold /\ LastTold' = wtold'
  BY <1>1 DEF QuietTime, Unread, LastTold
<1>5. /\ Reported = {n \in Notifications : SeenIdle(n)}
      /\ Reported' = {n \in Notifications : SeenIdle(n)'}
  BY <1>1, Zenon DEF Reported
<1> QED  BY <1>2, <1>3, <1>4, <1>5

\* Each step of poll(), the compositor, the user and set_timeouts is a step
\* of IdleMonitor or changes nothing the agent can see.
LEMMA WaylandImplements ==
  ASSUME WaylandInv, WaylandNext, backend = "wayland", backend' = backend
  PROVE  Monitor!MonitorNext \/ UNCHANGED Monitor!monitorVars
<1>a. WaylandTypeOK /\ EventsAlternate /\ IdledDue /\ WaylandTypeOK'
  BY WaylandTypeStep DEF WaylandInv
<1>b. /\ Configured = notif /\ Configured' = notif'
      /\ QuietTime = wquiet /\ QuietTime' = wquiet'
      /\ Unread = WaylandUnread /\ Unread' = WaylandUnread'
      /\ LastTold = wtold /\ LastTold' = wtold'
      /\ Reported = {n \in Notifications : SeenIdle(n)}
      /\ Reported' = {n \in Notifications : SeenIdle(n)'}
  BY <1>a, WaylandMapping
<1>c. WaylandUnread \in BOOLEAN /\ WaylandUnread' \in BOOLEAN
  BY DEF WaylandUnread
<1>1. CASE DisplayDispatch
  <2>1. WaylandUnread' = WaylandUnread /\ Reported' = Reported
    BY <1>a, <1>b, <1>c, <1>1, SeenDispatch
  <2>2. UNCHANGED <<notif, wquiet, wtold>>
    BY <1>1 DEF DisplayDispatch
  <2> QED  BY <1>b, <2>1, <2>2 DEF Monitor!monitorVars
<1>2. ASSUME NEW m \in Notifications, SendIdled(m)
      PROVE  UNCHANGED Monitor!monitorVars
  <2>1. WaylandUnread' = WaylandUnread /\ Reported' = Reported
    BY <1>a, <1>b, <1>c, <1>2, SeenSent
  <2>2. UNCHANGED <<notif, wquiet, wtold>>
    BY <1>2 DEF SendIdled
  <2> QED  BY <1>b, <2>1, <2>2 DEF Monitor!monitorVars
<1>3. CASE OnNotification
  <2>e. PICK e : e = Head(dispatch)
    OBVIOUS
  <2>1. /\ e.of \in Notifications /\ e.kind \in {"idled", "resumed"}
        /\ \A n \in Notifications \ {e.of} : SeenIdle(n)' <=> SeenIdle(n)
        /\ e.kind = "idled" =>
             /\ ~SeenIdle(e.of) /\ SeenIdle(e.of)'
             /\ WaylandUnread' <=> WaylandUnread
             /\ notif[e.of] > 0
             /\ WaylandUnread \/ wquiet >= notif[e.of]
        /\ e.kind = "resumed" => SeenIdle(e.of) /\ WaylandUnread
    BY <1>3, <2>e, SeenHandled
  <2>2. /\ UNCHANGED <<notif, wquiet>>
        /\ wtold' = IF e.kind = "idled" THEN e.of ELSE "active"
    BY <1>3, <2>e DEF OnNotification
  <2>3. CASE e.kind = "idled"
    <3>1. e.of \notin Reported /\ Reported' = Reported \cup {e.of}
      BY <1>b, <2>1, <2>3
    <3>2. Monitor!Report(e.of)
      BY <1>b, <1>c, <2>1, <2>2, <2>3, <3>1 DEF Monitor!Report
    <3> QED  BY <2>1, <3>2 DEF Monitor!MonitorNext, Monitor!Thresholds, Notifications
  <2>4. CASE e.kind = "resumed"
    <3>1. Reported' \in SUBSET Reported
      BY <1>b, <2>1, <2>4
    <3>2. Monitor!ReportActive
      BY <1>b, <1>c, <2>1, <2>2, <2>4, <3>1 DEF Monitor!ReportActive
    <3> QED  BY <3>2 DEF Monitor!MonitorNext
  <2> QED  BY <2>1, <2>3, <2>4
<1>4. CASE SeatInput
  <2>1. Reported' = Reported
    BY <1>a, <1>b, <1>4, SeenSeat
  <2>2. wquiet' = 0 /\ UNCHANGED <<notif, wtold>>
    BY <1>4 DEF SeatInput
  <2>3. CASE idled # {}
    <3>1. WaylandUnread'
      BY <1>a, <1>4, <2>3, SeenSeat
    <3>2. Monitor!UserActs
      BY <1>b, <1>c, <2>1, <2>2, <3>1 DEF Monitor!UserActs
    <3> QED  BY <3>2 DEF Monitor!MonitorNext
  <2>4. CASE idled = {}
    <3>1. WaylandUnread' = WaylandUnread
      BY <1>a, <1>c, <1>4, <2>4, SeenSeat
    <3>2. Reported # {} => WaylandUnread
      BY <1>b, <2>4 DEF SeenIdle, EventsOf, WaylandUnread
    <3>3. WaylandUnread' = (WaylandUnread \/ Reported # {})
      BY <1>c, <3>1, <3>2
    <3>4. Monitor!UserActs
      BY <1>b, <2>1, <2>2, <3>3 DEF Monitor!UserActs
    <3> QED  BY <3>4 DEF Monitor!MonitorNext
  <2> QED  BY <2>3, <2>4
<1>5. CASE SeatTick
  <2>1. UNCHANGED <<idled, Queue>>
    BY <1>5 DEF SeatTick, Queue
  <2>2. WaylandUnread' = WaylandUnread
    BY <2>1 DEF WaylandUnread
  <2>3. \A n \in Notifications : SeenIdle(n)' <=> SeenIdle(n)
    BY <2>1 DEF SeenIdle, EventsOf
  <2>4. Reported' = Reported
    BY <1>b, <2>3
  <2>5. wquiet' = Saturate(wquiet) /\ UNCHANGED <<notif, wtold>>
    BY <1>5 DEF SeatTick
  <2>6. Monitor!TimePasses
    BY <1>b, <2>2, <2>4, <2>5 DEF Monitor!TimePasses, Saturate
  <2> QED  BY <2>6 DEF Monitor!MonitorNext
<1>6. ASSUME NEW new \in [Notifications -> Timeouts], WaylandSetTimeouts(new)
      PROVE  Monitor!MonitorNext
  <2>1. /\ Queue' = <<>> /\ idled' = {} /\ notif' = new
        /\ UNCHANGED <<wquiet, wtold>>
    BY <1>6 DEF WaylandSetTimeouts, CreateNotifications, Queue
  <2>2. WaylandUnread' = FALSE
    BY <2>1 DEF WaylandUnread
  <2>3. \A n \in Notifications : ~SeenIdle(n)'
    BY <2>1 DEF SeenIdle, EventsOf
  <2>4. Reported' \in SUBSET Reported
    BY <1>b, <2>3
  <2>5. Monitor!Configure(new)
    BY <1>b, <2>1, <2>2, <2>4 DEF Monitor!Configure
  <2> QED  BY <2>5 DEF Monitor!MonitorNext, Monitor!Thresholds, Notifications
<1> QED
  BY <1>1, <1>2, <1>3, <1>4, <1>5, <1>6 DEF WaylandNext, WaylandPoll, Compositor

-----------------------------------------------------------------------------
(* The steps of the input monitor *)

\* Input stays pending until it is served.
LEMMA BatchStep ==
  ASSUME IdleInv, BatchInv, [IdleNext]_idleVars
  PROVE  BatchInv'
<1> USE DEF BatchInv
<1>1. CASE EpollWait
  BY <1>1 DEF EpollWait, Ready
<1>2. CASE OnTimeout
  BY <1>2 DEF OnTimeout
<1>3. CASE OnInput
  BY <1>3 DEF OnInput
<1>4. CASE Tick \/ UserInput
  BY <1>4 DEF Tick, UserInput
<1>5. ASSUME NEW dim \in Timeouts, NEW sleep \in Timeouts, SetTimeouts(dim, sleep)
      PROVE  BatchInv'
  BY <1>5 DEF SetTimeouts
<1>6. CASE UNCHANGED idleVars
  BY <1>6 DEF idleVars
<1> QED  BY <1>1, <1>2, <1>3, <1>4, <1>5, <1>6 DEF IdleNext, Poll

\* The mapping while the agent uses the input monitor.
LEMMA InputMapping ==
  ASSUME backend = "input", backend' = backend
  PROVE  /\ Configured = [n \in Notifications |->
                            IF n = "dim" THEN m_dim_ms ELSE m_sleep_ms]
         /\ Configured' = [n \in Notifications |->
                             IF n = "dim" THEN m_dim_ms' ELSE m_sleep_ms']
         /\ QuietTime = quiet /\ QuietTime' = quiet'
         /\ Unread = pending /\ Unread' = pending'
         /\ LastTold = told /\ LastTold' = told'
         /\ Reported = {n \in Notifications :
                          IF n = "dim" THEN m_dimmed ELSE m_sleeping}
         /\ Reported' = {n \in Notifications :
                           IF n = "dim" THEN m_dimmed' ELSE m_sleeping'}
<1>1. ~OnWayland /\ ~OnWayland'
  BY DEF OnWayland
<1>2. Configured = [n \in Notifications |->
                      IF n = "dim" THEN m_dim_ms ELSE m_sleep_ms]
  <2>1. \A n \in Notifications : TimeoutOf(n) = IF n = "dim" THEN m_dim_ms
                                                             ELSE m_sleep_ms
    BY <1>1 DEF TimeoutOf
  <2> QED  BY <2>1 DEF Configured
<1>3. Configured' = [n \in Notifications |->
                       IF n = "dim" THEN m_dim_ms' ELSE m_sleep_ms']
  <2>1. \A n \in Notifications : TimeoutOf(n)' = IF n = "dim" THEN m_dim_ms'
                                                              ELSE m_sleep_ms'
    BY <1>1 DEF TimeoutOf
  <2> QED  BY <2>1 DEF Configured
<1>4. /\ QuietTime = quiet /\ QuietTime' = quiet'
      /\ Unread = pending /\ Unread' = pending'
      /\ LastTold = told /\ LastTold' = told'
  BY <1>1 DEF QuietTime, Unread, LastTold
<1>5. /\ Reported = {n \in Notifications :
                       IF n = "dim" THEN m_dimmed ELSE m_sleeping}
      /\ Reported' = {n \in Notifications :
                        IF n = "dim" THEN m_dimmed' ELSE m_sleeping'}
  BY <1>1, Zenon DEF Reported
<1> QED  BY <1>2, <1>3, <1>4, <1>5

\* Each step of poll(), the clock, the user and set_timeouts is a step of
\* IdleMonitor or changes nothing the agent can see.
LEMMA InputImplements ==
  ASSUME IdleInv, BatchInv, IdleNext, backend = "input", backend' = backend
  PROVE  Monitor!MonitorNext \/ UNCHANGED Monitor!monitorVars
<1>a. /\ m_dimmed \in BOOLEAN /\ m_sleeping \in BOOLEAN /\ pending \in BOOLEAN
      /\ m_dim_ms \in Nat /\ m_sleep_ms \in Nat
      /\ elapsed \in Nat /\ quiet \in Nat
  BY IdleAssumption DEF IdleInv, IdleTypeOK, FlagsOK, TimesOK
<1>b. /\ Configured = [n \in Notifications |->
                         IF n = "dim" THEN m_dim_ms ELSE m_sleep_ms]
      /\ Configured' = [n \in Notifications |->
                          IF n = "dim" THEN m_dim_ms' ELSE m_sleep_ms']
      /\ QuietTime = quiet /\ QuietTime' = quiet'
      /\ Unread = pending /\ Unread' = pending'
      /\ LastTold = told /\ LastTold' = told'
      /\ Reported = {n \in Notifications :
                       IF n = "dim" THEN m_dimmed ELSE m_sleeping}
      /\ Reported' = {n \in Notifications :
                        IF n = "dim" THEN m_dimmed' ELSE m_sleeping'}
  BY InputMapping
<1>1. CASE EpollWait
  <2>1. UNCHANGED <<m_dim_ms, m_sleep_ms, m_dimmed, m_sleeping, pending, told,
                    quiet>>
    BY <1>1 DEF EpollWait
  <2> QED  BY <1>b, <2>1 DEF Monitor!monitorVars
<1>2. CASE OnTimeout
  <2>1. UNCHANGED <<m_dim_ms, m_sleep_ms, pending, quiet>>
    BY <1>2 DEF OnTimeout
  <2>2. UNCHANGED <<Configured, QuietTime, Unread>>
    BY <1>b, <2>1
  <2>3. CASE SleepDue /\ m_sleeping' = TRUE /\ told' = "sleep" /\ UNCHANGED m_dimmed
    <3>1. "sleep" \notin Reported /\ Reported' = Reported \cup {"sleep"}
      BY <1>a, <1>b, <2>3 DEF SleepDue, Notifications
    <3>2. Configured["sleep"] > 0 /\ (Unread \/ QuietTime >= Configured["sleep"])
      BY <1>a, <1>b, <2>3 DEF SleepDue, Notifications, IdleInv, ElapsedIsQuiet
    <3>3. Monitor!Report("sleep")
      BY <1>b, <2>2, <2>3, <3>1, <3>2 DEF Monitor!Report
    <3> QED  BY <3>3 DEF Monitor!MonitorNext, Monitor!Thresholds
  <2>4. CASE DimDue /\ m_dimmed' = TRUE /\ told' = "dim" /\ UNCHANGED m_sleeping
    <3>1. "dim" \notin Reported /\ Reported' = Reported \cup {"dim"}
      BY <1>a, <1>b, <2>4 DEF DimDue, Notifications
    <3>2. Configured["dim"] > 0 /\ (Unread \/ QuietTime >= Configured["dim"])
      BY <1>a, <1>b, <2>4 DEF DimDue, Notifications, IdleInv, ElapsedIsQuiet
    <3>3. Monitor!Report("dim")
      BY <1>b, <2>2, <2>4, <3>1, <3>2 DEF Monitor!Report
    <3> QED  BY <3>3 DEF Monitor!MonitorNext, Monitor!Thresholds
  <2>5. CASE UNCHANGED <<m_dimmed, m_sleeping, told>>
    BY <1>b, <2>2, <2>5 DEF Monitor!monitorVars
  <2> QED  BY <1>2, <2>3, <2>4, <2>5 DEF OnTimeout
<1>3. CASE OnInput
  <2>1. /\ pending /\ pending' = FALSE
        /\ told' = (IF m_dimmed \/ m_sleeping THEN "active" ELSE told)
        /\ UNCHANGED <<m_dim_ms, m_sleep_ms, quiet>>
    BY <1>a, <1>3 DEF OnInput, BatchInv
  <2>2. /\ m_dimmed' = FALSE \/ m_dimmed' = m_dimmed
        /\ m_sleeping' = FALSE \/ m_sleeping' = m_sleeping
    BY <1>3 DEF OnInput, ResetIdleTimer
  <2>3. Reported' \in SUBSET Reported /\ UNCHANGED <<Configured, QuietTime>>
    BY <1>a, <1>b, <2>1, <2>2
  <2>4. CASE m_dimmed \/ m_sleeping
    <3>1. Monitor!ReportActive
      BY <1>b, <2>1, <2>3, <2>4 DEF Monitor!ReportActive
    <3> QED  BY <3>1 DEF Monitor!MonitorNext
  <2>5. CASE ~m_dimmed /\ ~m_sleeping
    <3>1. Reported = {} /\ Reported' = Reported
      BY <1>a, <1>b, <2>3, <2>5
    <3>2. Monitor!NoticeInput
      BY <1>b, <2>1, <2>3, <2>5, <3>1 DEF Monitor!NoticeInput
    <3> QED  BY <3>2 DEF Monitor!MonitorNext
  <2> QED  BY <2>4, <2>5
<1>4. CASE Tick
  <2>1. /\ quiet' = Saturate(quiet)
        /\ UNCHANGED <<m_dim_ms, m_sleep_ms, m_dimmed, m_sleeping, pending, told>>
    BY <1>4 DEF Tick
  <2>2. Monitor!TimePasses
    BY <1>b, <2>1 DEF Monitor!TimePasses, Saturate
  <2> QED  BY <2>2 DEF Monitor!MonitorNext
<1>5. CASE UserInput
  <2>1. /\ quiet' = 0 /\ pending' = TRUE
        /\ UNCHANGED <<m_dim_ms, m_sleep_ms, m_dimmed, m_sleeping, told>>
    BY <1>5 DEF UserInput
  <2>2. Monitor!UserActs
    BY <1>b, <2>1 DEF Monitor!UserActs
  <2> QED  BY <2>2 DEF Monitor!MonitorNext
<1>6. ASSUME NEW dim \in Timeouts, NEW sleep \in Timeouts, SetTimeouts(dim, sleep)
      PROVE  Monitor!MonitorNext
  <2>1. /\ m_dim_ms' = dim /\ m_sleep_ms' = sleep
        /\ UNCHANGED <<pending, told, quiet>>
    BY <1>6 DEF SetTimeouts
  <2>2. /\ m_dimmed' = FALSE \/ m_dimmed' = m_dimmed
        /\ m_sleeping' = FALSE \/ m_sleeping' = m_sleeping
    BY <1>6 DEF SetTimeouts, ResetIdleTimer
  <2>3. Reported' \in SUBSET Reported
    BY <1>a, <1>b, <2>2
  <2>4. Configured' \in [Notifications -> Timeouts]
    BY <1>b, <2>1
  <2>5. Monitor!Configure(Configured')
    BY <1>b, <2>1, <2>3 DEF Monitor!Configure
  <2> QED  BY <2>4, <2>5 DEF Monitor!MonitorNext, Monitor!Thresholds, Notifications
<1> QED  BY <1>1, <1>2, <1>3, <1>4, <1>5, <1>6 DEF IdleNext, Poll

-----------------------------------------------------------------------------
(* Both monitors *)

\* Either backend keeps its invariant, and leaves the other one alone.
LEMMA BackendStep == BackendInv /\ [BackendNext]_backendVars => BackendInv'
<1> SUFFICES ASSUME BackendInv, [BackendNext]_backendVars PROVE BackendInv'
  OBVIOUS
<1>1. [IdleNext]_idleVars /\ [WaylandNext]_waylandVars
  BY DEF BackendNext, backendVars
<1> QED  BY <1>1, IdleStep, BatchStep, WaylandStep DEF BackendInv

LEMMA BackendInitial ==
  ASSUME BackendInit
  PROVE  BackendInv /\ Monitor!MonitorInit
<1>1. IdleInit /\ WaylandInit /\ backend \in {"wayland", "input"}
  BY DEF BackendInit
<1>2. BackendInv
  BY <1>1, IdleInitInv, WaylandInitial DEF BackendInv, BatchInv, IdleInit
<1>3. QuietTime = 0 /\ LastTold = "active"
  BY <1>1 DEF IdleInit, WaylandInit, QuietTime, LastTold
<1>4. WaylandUnread = FALSE /\ \A n \in Notifications : ~SeenIdle(n)
  <2>1. Queue = <<>> /\ idled = {}
    BY <1>1 DEF WaylandInit, Queue
  <2> QED  BY <2>1 DEF WaylandUnread, SeenIdle, EventsOf
<1>5. Unread = FALSE /\ Reported = {}
  BY <1>1, <1>4 DEF IdleInit, Unread, Reported
<1>6. Configured \in [Notifications -> Timeouts]
  <2>1. \A n \in Notifications : TimeoutOf(n) \in Timeouts
    BY <1>1 DEF IdleInit, WaylandInit, TimeoutOf, OnWayland
  <2> QED  BY <2>1 DEF Configured
<1> QED
  BY <1>2, <1>3, <1>5, <1>6
  DEF Monitor!MonitorInit, Monitor!Thresholds, Notifications

\* Whichever backend setup_idle_monitor finds, whatever the timeouts, the
\* user and the order in which events, the clock and CONFIG messages come:
\* on_timeout, on_input, on_notification_idled and on_notification_resumed
\* keep the contract of IIdleMonitor.
THEOREM MonitorImplemented == BackendSpec => ImplementsMonitor
<1>1. BackendInit => BackendInv /\ Monitor!MonitorInit
  BY BackendInitial
<1>2. ASSUME BackendInv, [BackendNext]_backendVars
      PROVE  [Monitor!MonitorNext]_(Monitor!monitorVars)
  <2>1. CASE backend = "wayland" /\ WaylandNext /\ UNCHANGED backend
    BY <1>2, <2>1, WaylandImplements DEF BackendInv
  <2>2. CASE backend = "input" /\ IdleNext /\ UNCHANGED backend
    BY <1>2, <2>2, InputImplements DEF BackendInv
  <2>3. CASE UNCHANGED backendVars
    <3>1. UNCHANGED <<OnWayland, idled, Queue>>
      BY <2>3 DEF backendVars, waylandVars, OnWayland, Queue
    <3>2. WaylandUnread' = WaylandUnread
      BY <3>1 DEF WaylandUnread
    <3>3. \A n \in Notifications : SeenIdle(n)' <=> SeenIdle(n)
      BY <3>1 DEF SeenIdle, EventsOf
    <3>4. UNCHANGED <<Configured, QuietTime, Unread, LastTold>>
      BY <2>3, <3>1, <3>2 DEF backendVars, waylandVars, idleVars, Configured,
                              TimeoutOf, QuietTime, Unread, LastTold
    <3>5. Reported' = Reported
      BY <2>3, <3>1, <3>3 DEF backendVars, idleVars, Reported
    <3> QED  BY <3>4, <3>5 DEF Monitor!monitorVars
  <2> QED  BY <1>2, <2>1, <2>2, <2>3 DEF BackendNext
<1> QED
  BY <1>1, <1>2, BackendStep, PTL
  DEF BackendSpec, ImplementsMonitor, Monitor!MonitorSpec
=============================================================================
