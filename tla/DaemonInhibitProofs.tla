------------------------ MODULE DaemonInhibitProofs -------------------------
(***************************************************************************)
(* The daemon never dims or suspends for idleness against an inhibit it    *)
(* has read.  What a client stands for (wants) is fixed when it writes;    *)
(* what the daemon knows (inhibits) when it handles the line.  The         *)
(* invariant carries a reason through the unread and the half-handled      *)
(* lines in between.                                                       *)
(***************************************************************************)
EXTENDS DaemonSafetyProofs

IsHello(m)       == m.type = "hello"
IsInhibit(m, r)  == m.type = "inhibit" /\ m.arg = r
Clears(m, r)     == IsHello(m) \/ (m.type = "uninhibit" /\ m.arg = r)

\* Nothing in q takes r back.
Keeps(q, r) == \A j \in DOMAIN q : ~Clears(q[j], r)

\* q leaves r inhibited: an inhibit that is not taken back, handled after a
\* hello of q or on a connection already registered (reg).
Asserts(q, r, reg) ==
  \E i \in DOMAIN q :
    /\ IsInhibit(q[i], r)
    /\ reg \/ \E h \in DOMAIN q : h < i /\ IsHello(q[h])
    /\ \A j \in DOMAIN q : j > i => ~Clears(q[j], r)

\* r will be inhibited once the lines being handled are done ...
HeldAfterLines(fd, r) ==
  IF cur = fd
  THEN \/ Asserts(lines, r, fd \in agents)
       \/ Keeps(lines, r) /\ fd \in agents /\ r \in inhibits[fd]
  ELSE fd \in agents /\ r \in inhibits[fd]

\* ... and the connection registered ...
RegisteredAfterLines(fd) == fd \in agents \/ (cur = fd /\ HasHello(lines))

\* ... and the same once the unread lines are handled as well.
HeldAfterInbox(fd, r) ==
  \/ Asserts(inbox[fd], r, RegisteredAfterLines(fd))
  \/ Keeps(inbox[fd], r) /\ HeldAfterLines(fd, r)

InhibitInv ==
  \A fd \in Fds : \A r \in wants[fd] : greeted[fd] /\ HeldAfterInbox(fd, r)

-----------------------------------------------------------------------------
(* Sequences of lines *)

\* If no line of q clears r, neither does its first line nor the rest.
LEMMA KeepsTail ==
  ASSUME NEW q \in Seq(Messages), q # <<>>, NEW r, Keeps(q, r)
  PROVE  ~Clears(Head(q), r) /\ Keeps(Tail(q), r)
<1>1. 1 \in DOMAIN q /\ Head(q) = q[1]
  OBVIOUS
<1>2. \A j \in DOMAIN Tail(q) : j + 1 \in DOMAIN q /\ Tail(q)[j] = q[j + 1]
  OBVIOUS
<1> QED  BY <1>1, <1>2 DEF Keeps

\* After one line, what q asserts is asserted by the rest or by that line.
LEMMA AssertsTail ==
  ASSUME NEW q \in Seq(Messages), q # <<>>, NEW r, NEW reg \in BOOLEAN,
         Asserts(q, r, reg)
  PROVE  \/ Asserts(Tail(q), r, reg \/ IsHello(Head(q)))
         \/ reg /\ IsInhibit(Head(q), r) /\ Keeps(Tail(q), r)
<1>1. PICK i \in DOMAIN q :
        /\ IsInhibit(q[i], r)
        /\ reg \/ \E h \in DOMAIN q : h < i /\ IsHello(q[h])
        /\ \A j \in DOMAIN q : j > i => ~Clears(q[j], r)
  BY DEF Asserts
<1>2. \A j \in DOMAIN Tail(q) : j + 1 \in DOMAIN q /\ Tail(q)[j] = q[j + 1]
  OBVIOUS
<1>3. \A j \in DOMAIN q : j # 1 => j - 1 \in DOMAIN Tail(q)
                                    /\ Tail(q)[j - 1] = q[j]
  OBVIOUS
<1>4. DOMAIN q \subseteq Nat \ {0} /\ Head(q) = q[1]
  OBVIOUS
<1>5. CASE i = 1
  <2>1. reg
    BY <1>1, <1>4, <1>5
  <2>2. Keeps(Tail(q), r)
    BY <1>1, <1>2, <1>4, <1>5 DEF Keeps
  <2> QED  BY <1>1, <1>4, <1>5, <2>1, <2>2
<1>6. CASE i # 1
  <2>1. i - 1 \in DOMAIN Tail(q) /\ IsInhibit(Tail(q)[i - 1], r)
    BY <1>1, <1>3, <1>6
  <2>2. \A j \in DOMAIN Tail(q) : j > i - 1 => ~Clears(Tail(q)[j], r)
    BY <1>1, <1>2, <1>4
  <2>3. (reg \/ IsHello(Head(q)))
          \/ \E h \in DOMAIN Tail(q) : h < i - 1 /\ IsHello(Tail(q)[h])
    <3>1. CASE reg
      BY <3>1
    <3>2. ASSUME NEW h \in DOMAIN q, h < i, IsHello(q[h])
          PROVE  IsHello(Head(q))
                   \/ \E g \in DOMAIN Tail(q) : g < i - 1 /\ IsHello(Tail(q)[g])
      <4>1. CASE h = 1
        BY <1>4, <3>2, <4>1
      <4>2. CASE h # 1
        <5>1. h - 1 \in DOMAIN Tail(q) /\ h - 1 < i - 1 /\ IsHello(Tail(q)[h - 1])
          BY <1>1, <1>3, <1>4, <3>2, <4>2
        <5> QED  BY <5>1
      <4> QED  BY <4>1, <4>2
    <3> QED  BY <1>1, <3>1, <3>2
  <2> QED  BY <2>1, <2>2, <2>3 DEF Asserts
<1> QED  BY <1>5, <1>6

\* One more line that does not clear r leaves r alone.
LEMMA KeepsAppend ==
  ASSUME NEW q \in Seq(Messages), NEW m \in Messages, NEW r,
         Keeps(q, r), ~Clears(m, r)
  PROVE  Keeps(Append(q, m), r)
<1>1. \A j \in DOMAIN Append(q, m) :
        Append(q, m)[j] = m \/ (j \in DOMAIN q /\ Append(q, m)[j] = q[j])
  OBVIOUS
<1> QED  BY <1>1 DEF Keeps

\* q still asserts r after a line that does not clear it, and asserts it
\* after an inhibit of a client that has said hello.
LEMMA AssertsAppend ==
  ASSUME NEW q \in Seq(Messages), NEW m \in Messages, NEW r,
         NEW reg \in BOOLEAN
  PROVE  /\ Asserts(q, r, reg) /\ ~Clears(m, r) => Asserts(Append(q, m), r, reg)
         /\ IsInhibit(m, r) /\ (reg \/ HasHello(q)) => Asserts(Append(q, m), r, reg)
<1> DEFINE n == Len(q) + 1
           w == Append(q, m)
<1>1. /\ DOMAIN w = DOMAIN q \cup {n} /\ w[n] = m
      /\ \A j \in DOMAIN q : w[j] = q[j] /\ j < n /\ j \in Nat
  OBVIOUS
<1>2. ASSUME Asserts(q, r, reg), ~Clears(m, r)
      PROVE  Asserts(w, r, reg)
  <2>1. PICK i \in DOMAIN q :
          /\ IsInhibit(q[i], r)
          /\ reg \/ \E h \in DOMAIN q : h < i /\ IsHello(q[h])
          /\ \A j \in DOMAIN q : j > i => ~Clears(q[j], r)
    BY <1>2 DEF Asserts
  <2>2. i \in DOMAIN w /\ IsInhibit(w[i], r)
    BY <1>1, <2>1
  <2>3. reg \/ \E h \in DOMAIN w : h < i /\ IsHello(w[h])
    BY <1>1, <2>1
  <2>4. \A j \in DOMAIN w : j > i => ~Clears(w[j], r)
    BY <1>1, <1>2, <2>1
  <2> QED  BY <2>2, <2>3, <2>4 DEF Asserts
<1>3. ASSUME IsInhibit(m, r), reg \/ HasHello(q)
      PROVE  Asserts(w, r, reg)
  <2>1. n \in DOMAIN w /\ IsInhibit(w[n], r)
    BY <1>1, <1>3
  <2>2. reg \/ \E h \in DOMAIN w : h < n /\ IsHello(w[h])
    BY <1>1, <1>3 DEF HasHello, IsHello
  <2>3. \A j \in DOMAIN w : j > n => ~Clears(w[j], r)
    BY <1>1
  <2> QED  BY <2>1, <2>2, <2>3 DEF Asserts
<1> QED  BY <1>2, <1>3

\* If no line of two reads clears r, none of both together does.
LEMMA KeepsConcat ==
  ASSUME NEW p \in Seq(Messages), NEW q \in Seq(Messages), NEW r,
         Keeps(p, r), Keeps(q, r)
  PROVE  Keeps(p \o q, r)
<1>1. \A j \in DOMAIN (p \o q) :
        \/ j \in DOMAIN p /\ (p \o q)[j] = p[j]
        \/ j - Len(p) \in DOMAIN q /\ (p \o q)[j] = q[j - Len(p)]
  OBVIOUS
<1> QED  BY <1>1 DEF Keeps

\* What two reads assert together: what the second asserts, a hello of the
\* first included, and what the first asserts and the second leaves alone.
LEMMA AssertsConcat ==
  ASSUME NEW p \in Seq(Messages), NEW q \in Seq(Messages), NEW r,
         NEW reg \in BOOLEAN
  PROVE  /\ Asserts(p, r, reg) /\ Keeps(q, r) => Asserts(p \o q, r, reg)
         /\ Asserts(q, r, reg) => Asserts(p \o q, r, reg)
         /\ Asserts(q, r, TRUE) /\ HasHello(p) => Asserts(p \o q, r, reg)
<1> DEFINE n == Len(p)
           w == p \o q
<1>1. /\ n \in Nat
      /\ \A j \in DOMAIN p : j \in DOMAIN w /\ w[j] = p[j] /\ j \in Nat /\ j <= n
      /\ \A j \in DOMAIN q : n + j \in DOMAIN w /\ w[n + j] = q[j]
                                /\ j \in Nat /\ j >= 1
  OBVIOUS
<1>6. ASSUME NEW j \in DOMAIN w
      PROVE  /\ j \in Nat
             /\ j <= n => j \in DOMAIN p /\ w[j] = p[j]
             /\ j > n => j - n \in DOMAIN q /\ w[j] = q[j - n]
  OBVIOUS
<1>2. ASSUME Asserts(p, r, reg), Keeps(q, r)
      PROVE  Asserts(w, r, reg)
  <2>1. PICK i \in DOMAIN p :
          /\ IsInhibit(p[i], r)
          /\ reg \/ \E h \in DOMAIN p : h < i /\ IsHello(p[h])
          /\ \A j \in DOMAIN p : j > i => ~Clears(p[j], r)
    BY <1>2 DEF Asserts
  <2> HIDE DEF n, w
  <2>2. i \in DOMAIN w /\ IsInhibit(w[i], r)
    BY <1>1, <2>1
  <2>3. reg \/ \E h \in DOMAIN w : h < i /\ IsHello(w[h])
    BY <1>1, <2>1
  <2>4. ASSUME NEW j \in DOMAIN w, j > i
        PROVE  ~Clears(w[j], r)
    <3>1. CASE j <= n
      <4>1. j \in DOMAIN p /\ w[j] = p[j]
        BY <1>6, <3>1
      <4> QED  BY <2>1, <2>4, <4>1
    <3>2. CASE j > n
      <4>1. j - n \in DOMAIN q /\ w[j] = q[j - n]
        BY <1>6, <3>2
      <4> QED  BY <1>2, <4>1 DEF Keeps
    <3>3. j \in Nat /\ n \in Nat
      BY <1>1, <1>6
    <3> QED  BY <3>1, <3>2, <3>3
  <2> QED  BY <2>2, <2>3, <2>4 DEF Asserts
<1>3. ASSUME NEW known \in BOOLEAN, Asserts(q, r, known),
             known => reg \/ HasHello(p)
      PROVE  Asserts(w, r, reg)
  <2>1. PICK i \in DOMAIN q :
          /\ IsInhibit(q[i], r)
          /\ known \/ \E h \in DOMAIN q : h < i /\ IsHello(q[h])
          /\ \A j \in DOMAIN q : j > i => ~Clears(q[j], r)
    BY <1>3 DEF Asserts
  <2> HIDE DEF n, w
  <2>2. n + i \in DOMAIN w /\ IsInhibit(w[n + i], r)
    BY <1>1, <2>1
  <2>3. reg \/ \E h \in DOMAIN w : h < n + i /\ IsHello(w[h])
    <3>1. CASE known /\ ~reg
      <4>1. PICK h \in DOMAIN p : p[h].type = "hello"
        BY <1>3, <3>1 DEF HasHello
      <4>2. h \in DOMAIN w /\ h < n + i /\ IsHello(w[h])
        BY <1>1, <2>1, <4>1 DEF IsHello
      <4> QED  BY <4>2
    <3>2. ASSUME NEW h \in DOMAIN q, h < i, IsHello(q[h])
          PROVE  \E k \in DOMAIN w : k < n + i /\ IsHello(w[k])
      <4>1. n + h \in DOMAIN w /\ n + h < n + i /\ IsHello(w[n + h])
        BY <1>1, <2>1, <3>2
      <4> QED  BY <4>1
    <3> QED  BY <2>1, <3>1, <3>2
  <2>4. ASSUME NEW j \in DOMAIN w, j > n + i
        PROVE  ~Clears(w[j], r)
    <3>1. i \in Nat /\ n \in Nat /\ j \in Nat
      BY <1>1, <1>6, <2>1
    <3>2. j > n /\ j - n > i
      BY <2>4, <3>1
    <3>3. j - n \in DOMAIN q /\ w[j] = q[j - n]
      BY <1>6, <3>2
    <3> QED  BY <2>1, <3>2, <3>3
  <2> QED  BY <2>2, <2>3, <2>4 DEF Asserts
<1>4. Asserts(q, r, reg) => Asserts(w, r, reg)
  BY <1>3
<1>5. Asserts(q, r, TRUE) /\ HasHello(p) => Asserts(w, r, reg)
  <2>1. TRUE \in BOOLEAN
    OBVIOUS
  <2> QED  BY <1>3, <2>1
<1> QED  BY <1>2, <1>4, <1>5

\* Registering the client does not make its lines assert less.
LEMMA AssertsMonotone ==
  ASSUME NEW q, NEW r, NEW reg \in BOOLEAN, NEW reg2 \in BOOLEAN,
         reg => reg2, Asserts(q, r, reg)
  PROVE  Asserts(q, r, reg2)
BY DEF Asserts

\* No lines: nothing is asserted and nothing is cleared.
LEMMA AssertsNothing ==
  ASSUME NEW r, NEW reg
  PROVE  ~Asserts(<<>>, r, reg) /\ Keeps(<<>>, r)
BY DEF Asserts, Keeps

-----------------------------------------------------------------------------
(* The invariant *)

\* No client, no inhibit.
LEMMA InhibitInit == Init => InhibitInv
BY DEF Init, InhibitInv

\* A step that leaves a connection and its record alone keeps its reasons.
LEMMA InhibitFrame ==
  ASSUME InhibitInv, NEW fd \in Fds,
         greeted'[fd] = greeted[fd], wants'[fd] = wants[fd],
         inbox'[fd] = inbox[fd], inhibits'[fd] = inhibits[fd],
         fd \in agents' <=> fd \in agents,
         cur' = fd <=> cur = fd,
         cur = fd => lines' = lines,
         NEW r \in wants'[fd]
  PROVE  greeted'[fd] /\ HeldAfterInbox(fd, r)'
<1>1. greeted[fd] /\ HeldAfterInbox(fd, r)
  BY DEF InhibitInv
<1>2. RegisteredAfterLines(fd)' <=> RegisteredAfterLines(fd)
  BY DEF RegisteredAfterLines
<1>3. HeldAfterLines(fd, r) => HeldAfterLines(fd, r)'
  <2>1. CASE cur = fd
    BY <2>1 DEF HeldAfterLines, Asserts
  <2>2. CASE cur # fd
    BY <2>2 DEF HeldAfterLines
  <2> QED  BY <2>1, <2>2
<1>4. HeldAfterInbox(fd, r)'
  BY <1>1, <1>2, <1>3 DEF HeldAfterInbox, Asserts
<1> QED  BY <1>1, <1>4

\* A line other than hello and malformed: what it does to the record of its
\* own connection.
LEMMA LineEffect ==
  ASSUME TypeOK, OnLineAny, ~OnHello, ~OnMalformed
  PROVE  /\ cur \in Fds /\ lines # <<>> /\ LineDone /\ ~IsHello(Line)
         /\ UNCHANGED <<agents, greeted, wants>>
         /\ \A g \in Fds : g # cur => inhibits'[g] = inhibits[g]
         /\ \A r : r \in inhibits[cur] /\ ~Clears(Line, r) => r \in inhibits'[cur]
         /\ \A r : IsInhibit(Line, r) /\ cur \in agents => r \in inhibits'[cur]
<1>1. /\ cur \in Fds /\ lines # <<>> /\ LineDone /\ ~IsHello(Line)
      /\ UNCHANGED <<agents, greeted, wants>>
  BY DEF OnLineAny, OnLine, OnIgnored, OnIdleDim, OnIdleSleep, OnActive,
         OnInhibit, OnUninhibit, OnSetProfile, OnReloadConfig, OnLock, OnQuery,
         agentVars, peerVars, AgentTypes, IsHello
<1>2. inhibits \in [Fds -> SUBSET Reasons]
  BY DEF TypeOK, AgentTypeOK
<1>3. CASE OnInhibit
  <2>1. inhibits' = [inhibits EXCEPT ![cur] = inhibits[cur] \cup {Line.arg}]
    BY <1>3 DEF OnInhibit
  <2> QED  BY <1>1, <1>2, <2>1 DEF IsInhibit
<1>4. CASE OnUninhibit
  <2>1. /\ inhibits' = [inhibits EXCEPT ![cur] = inhibits[cur] \ {Line.arg}]
        /\ Line.type = "uninhibit"
    BY <1>4 DEF OnUninhibit, OnLine
  <2> QED  BY <1>1, <1>2, <2>1 DEF IsInhibit, Clears
<1>5. CASE ~OnInhibit /\ ~OnUninhibit
  <2>1. inhibits' = inhibits
    BY <1>5 DEF OnLineAny, OnIgnored, OnIdleDim, OnIdleSleep, OnActive,
                OnSetProfile, OnReloadConfig, OnLock, OnQuery, agentVars
  <2>2. Line.type = "inhibit" => cur \notin agents
    BY <1>5 DEF OnLineAny, OnLine, OnIgnored, OnIdleDim, OnIdleSleep, OnActive,
                OnSetProfile, OnReloadConfig, OnLock, OnQuery
  <2> QED  BY <1>1, <2>1, <2>2 DEF IsInhibit
<1> QED  BY <1>3, <1>4, <1>5

\* Every handler of Daemon::on_line keeps the inhibits of all clients.
LEMMA InhibitLine ==
  ASSUME TypeOK, InhibitInv, OnLineAny, ~OnHello, ~OnMalformed,
         NEW c \in Fds, c = cur, NEW r \in wants'[c]
  PROVE  greeted'[c] /\ HeldAfterInbox(c, r)'
<1>1. cur \in Fds /\ lines # <<>> /\ LineDone /\ ~IsHello(Line)
  BY LineEffect
<1>2. UNCHANGED <<agents, greeted, wants, inbox>>
  BY LineEffect DEF LineDone, socketVars
<1>3. lines \in Seq(Messages) /\ Line = Head(lines) /\ lines' = Tail(lines)
  BY <1>1 DEF TypeOK, ServerTypeOK, Line, LineDone, NextLine
<1>4. cur' = IF Tail(lines) = <<>> THEN NoFd ELSE cur
  BY <1>1 DEF LineDone, NextLine
<1>5. greeted[c] /\ HeldAfterInbox(c, r)
  BY <1>1, <1>2 DEF InhibitInv
<1>6. cur # NoFd
  BY <1>1, ServerAssumption
<1> DEFINE reg == c \in agents
<1>7. HeldAfterLines(c, r) =>
        IF Tail(lines) = <<>> THEN reg /\ r \in inhibits'[c]
        ELSE \/ Asserts(Tail(lines), r, reg)
             \/ Keeps(Tail(lines), r) /\ reg /\ r \in inhibits'[c]
  <2>1. ASSUME Asserts(lines, r, reg)
        PROVE  \/ Asserts(Tail(lines), r, reg)
               \/ Keeps(Tail(lines), r) /\ reg /\ r \in inhibits'[c]
    <3>1. \/ Asserts(Tail(lines), r, reg \/ IsHello(Head(lines)))
          \/ reg /\ IsInhibit(Head(lines), r) /\ Keeps(Tail(lines), r)
      <4>1. reg \in BOOLEAN
        OBVIOUS
      <4> HIDE DEF reg
      <4> QED  BY <1>1, <1>3, <2>1, <4>1, AssertsTail
    <3>2. Asserts(Tail(lines), r, reg \/ IsHello(Head(lines)))
            => Asserts(Tail(lines), r, reg)
      <4>1. (reg \/ IsHello(Head(lines))) \in BOOLEAN /\ reg \in BOOLEAN
        OBVIOUS
      <4>2. (reg \/ IsHello(Head(lines))) => reg
        BY <1>1, <1>3
      <4> QED  BY <4>1, <4>2, AssertsMonotone
    <3> QED  BY <1>3, <3>1, <3>2, LineEffect
  <2>2. ASSUME Keeps(lines, r), reg, r \in inhibits[c]
        PROVE  Keeps(Tail(lines), r) /\ reg /\ r \in inhibits'[c]
    BY <1>1, <1>3, <2>2, KeepsTail, LineEffect
  <2> QED  BY <2>1, <2>2, AssertsNothing DEF HeldAfterLines
<1>8. HeldAfterLines(c, r) =>
        IF c = cur'
        THEN \/ Asserts(lines', r, c \in agents')
             \/ Keeps(lines', r) /\ c \in agents' /\ r \in inhibits'[c]
        ELSE c \in agents' /\ r \in inhibits'[c]
  <2>1. CASE Tail(lines) = <<>>
    BY <1>2, <1>4, <1>6, <1>7, <2>1
  <2>2. CASE Tail(lines) # <<>>
    BY <1>2, <1>3, <1>4, <1>7, <2>2
  <2> QED  BY <2>1, <2>2
<1>9. RegisteredAfterLines(c) => c \in agents' \/ (cur' = c /\ HasHello(lines'))
  <2>1. HasHello(lines) => HasHello(Tail(lines)) /\ Tail(lines) # <<>>
    <3>1. HasHello(lines) => HasHello(Tail(lines))
      BY <1>1, <1>3, HasHelloTail DEF IsHello
    <3> QED  BY <3>1 DEF HasHello
  <2> QED  BY <1>2, <1>3, <1>4, <2>1 DEF RegisteredAfterLines
<1>10. HeldAfterInbox(c, r) =>
         \/ Asserts(inbox'[c], r, c \in agents' \/ (cur' = c /\ HasHello(lines')))
         \/ Keeps(inbox'[c], r)
              /\ IF c = cur'
                 THEN \/ Asserts(lines', r, c \in agents')
                      \/ Keeps(lines', r) /\ c \in agents' /\ r \in inhibits'[c]
                 ELSE c \in agents' /\ r \in inhibits'[c]
  BY <1>2, <1>8, <1>9, AssertsMonotone DEF HeldAfterInbox, RegisteredAfterLines
<1> QED  BY <1>2, <1>5, <1>10
         DEF HeldAfterInbox, HeldAfterLines, RegisteredAfterLines

\* hello starts a new record: only what the rest of the read asserts is left.
LEMMA InhibitHello ==
  ASSUME TypeOK, InhibitInv, OnHello, NEW c \in Fds, c = cur, NEW r \in wants'[c]
  PROVE  greeted'[c] /\ HeldAfterInbox(c, r)'
<1>1. lines # <<>> /\ lines \in Seq(Messages) /\ IsHello(Head(lines))
  BY DEF OnHello, OnLine, Line, IsHello, TypeOK, ServerTypeOK
<1>2. lines' = Tail(lines) /\ cur' = IF Tail(lines) = <<>> THEN NoFd ELSE cur
  BY DEF OnHello, LineDone, NextLine
<1>3. c \in agents' /\ UNCHANGED <<greeted, wants, inbox>>
  BY DEF OnHello, LineDone, socketVars
<1>4. greeted[c] /\ HeldAfterInbox(c, r)
  BY <1>3 DEF InhibitInv
<1>5. CASE Asserts(inbox[c], r, RegisteredAfterLines(c))
  <2>1. HasHello(lines)
    BY <1>1 DEF HasHello, IsHello
  <2>2. Asserts(inbox[c], r, TRUE)
    BY <1>5 DEF Asserts
  <2>3. Asserts(inbox[c], r, TRUE)
          => Asserts(inbox'[c], r, c \in agents' \/ (cur' = c /\ HasHello(lines')))
    BY <1>3 DEF Asserts
  <2> QED  BY <1>3, <1>4, <2>2, <2>3 DEF HeldAfterInbox, RegisteredAfterLines
<1>6. CASE Keeps(inbox[c], r) /\ HeldAfterLines(c, r)
  <2>1. ~Keeps(lines, r)
    BY <1>1, KeepsTail DEF Clears
  <2>2. Asserts(lines, r, c \in agents)
    BY <1>6, <2>1 DEF HeldAfterLines
  <2>3. Asserts(lines, r, TRUE)
    BY <2>2 DEF Asserts
  <2>4. \/ Asserts(Tail(lines), r, TRUE \/ IsHello(Head(lines)))
        \/ TRUE /\ IsInhibit(Head(lines), r) /\ Keeps(Tail(lines), r)
    BY <1>1, <2>3, AssertsTail
  <2>5. Asserts(Tail(lines), r, TRUE)
    BY <1>1, <2>4 DEF IsHello, IsInhibit, Asserts
  <2>6. Tail(lines) # <<>>
    BY <2>5, AssertsNothing
  <2>7. cur' = c /\ Asserts(lines', r, c \in agents') /\ Keeps(inbox'[c], r)
    BY <1>2, <1>3, <1>6, <2>5, <2>6 DEF Asserts
  <2> QED  BY <1>3, <1>4, <2>7 DEF HeldAfterInbox, HeldAfterLines
<1> QED  BY <1>4, <1>5, <1>6 DEF HeldAfterInbox

\* A client writes: its reasons change as its new line will change them.
LEMMA InhibitWrite ==
  ASSUME TypeOK, SyncInv, InhibitInv, PeerWrites,
         NEW fd \in Fds, NEW r \in wants'[fd]
  PROVE  greeted'[fd] /\ HeldAfterInbox(fd, r)'
<1>1. PICK g \in Fds, m \in Messages :
        /\ ClientWrites(g, m)
        /\ wants' = [wants EXCEPT ![g] = WantsAfter(m, g)]
        /\ greeted' = [greeted EXCEPT ![g] = greeted[g] \/ m.type = "hello"]
  BY DEF PeerWrites
<1>2. UNCHANGED <<agents, inhibits, cur, lines>>
  BY <1>1 DEF PeerWrites, ClientWrites, agentVars
<1>3. /\ inbox' = [inbox EXCEPT ![g] = Append(inbox[g], m)]
      /\ inbox \in [Fds -> Seq(Messages)]
      /\ wants \in [Fds -> SUBSET Reasons] /\ greeted \in [Fds -> BOOLEAN]
  BY <1>1 DEF ClientWrites, TypeOK, ServerTypeOK, HistoryTypeOK
<1>4. CASE fd # g
  <2>1. greeted'[fd] = greeted[fd] /\ wants'[fd] = wants[fd] /\ inbox'[fd] = inbox[fd]
    BY <1>1, <1>3, <1>4
  <2> QED  BY <1>2, <2>1, InhibitFrame
<1>5. CASE fd = g
  <2>1. r \in WantsAfter(m, fd)
    BY <1>1, <1>3, <1>5
  <2>2. greeted[fd] /\ ((r \in wants[fd] /\ ~Clears(m, r)) \/ IsInhibit(m, r))
    BY <2>1 DEF WantsAfter, InhibitInv, Clears, IsHello, IsInhibit
  <2>3. greeted'[fd] /\ inbox'[fd] = Append(inbox[fd], m)
    BY <1>1, <1>3, <1>5, <2>2
  <2> DEFINE reg == fd \in agents \/ (cur = fd /\ HasHello(lines))
  <2>4. reg \in BOOLEAN /\ (RegisteredAfterLines(fd) <=> reg)
    BY DEF RegisteredAfterLines
  <2>5. reg \/ HasHello(inbox[fd])
    BY <2>2 DEF SyncInv, HelloPending
  <2>6. CASE IsInhibit(m, r)
    <3>1. Asserts(Append(inbox[fd], m), r, reg)
      <4> HIDE DEF reg
      <4> QED  BY <1>3, <2>4, <2>5, <2>6, AssertsAppend
    <3> QED  BY <1>2, <2>3, <3>1 DEF HeldAfterInbox, RegisteredAfterLines
  <2>7. CASE r \in wants[fd] /\ ~Clears(m, r)
    <3>1. HeldAfterInbox(fd, r)
      BY <2>7 DEF InhibitInv
    <3>2. CASE Asserts(inbox[fd], r, reg)
      <4>1. Asserts(Append(inbox[fd], m), r, reg)
        <5> HIDE DEF reg
        <5> QED  BY <1>3, <2>4, <2>7, <3>2, AssertsAppend
      <4> QED  BY <1>2, <2>3, <4>1 DEF HeldAfterInbox, RegisteredAfterLines
    <3>3. CASE Keeps(inbox[fd], r) /\ HeldAfterLines(fd, r)
      <4>1. Keeps(Append(inbox[fd], m), r)
        BY <1>3, <2>7, <3>3, KeepsAppend
      <4>2. HeldAfterLines(fd, r)'
        BY <1>2, <3>3 DEF HeldAfterLines
      <4> QED  BY <2>3, <4>1, <4>2 DEF HeldAfterInbox
    <3> QED  BY <3>1, <3>2, <3>3 DEF HeldAfterInbox, RegisteredAfterLines
  <2> QED  BY <2>2, <2>6, <2>7
<1> QED  BY <1>4, <1>5

\* The daemon reads: the unread lines follow the ones being handled.
LEMMA InhibitRead ==
  ASSUME TypeOK, RecordInv, InhibitInv, HandleClient, NEW fd \in Fds,
         NEW r \in wants'[fd]
  PROVE  greeted'[fd] /\ HeldAfterInbox(fd, r)'
<1>1. PICK g \in Fds : ReadMore(g) \/ Read(g)
  BY DEF HandleClient
<1>2. UNCHANGED <<agents, inhibits, greeted, wants>>
  BY DEF HandleClient, agentVars, peerVars
<1>3. /\ inbox \in [Fds -> Seq(Messages)] /\ lines \in Seq(Messages)
      /\ inbox' = [inbox EXCEPT ![g] = <<>>]
      /\ lines' = lines \o inbox[g]
      /\ cur' = g \/ (lines' = <<>> /\ cur' = NoFd)
      /\ cur = g \/ cur = NoFd
  BY <1>1 DEF ReadMore, Read, Feeds, TypeOK, ServerTypeOK
<1>4. CASE fd # g
  <2>1. inbox'[fd] = inbox[fd] /\ cur # fd /\ cur' # fd
    BY <1>3, <1>4, ServerAssumption
  <2> QED  BY <1>2, <2>1, InhibitFrame
<1>5. CASE fd = g
  <2>1. greeted[fd] /\ HeldAfterInbox(fd, r)
    BY <1>2 DEF InhibitInv
  <2>2. inbox[fd] \in Seq(Messages) /\ inbox'[fd] = <<>>
    BY <1>3, <1>5
  <2> DEFINE reg == fd \in agents
  <2>3. reg \in BOOLEAN
    OBVIOUS
  <2>4. cur = NoFd => lines = <<>>
    BY ServerAssumption DEF RecordInv
  <2>5. RegisteredAfterLines(fd) => reg \/ HasHello(lines)
    BY DEF RegisteredAfterLines
  <2>6. HeldAfterLines(fd, r) =>
          \/ Asserts(lines, r, reg)
          \/ Keeps(lines, r) /\ reg /\ r \in inhibits[fd]
    <3>1. CASE cur = fd
      BY <3>1 DEF HeldAfterLines
    <3>2. CASE cur # fd
      <4>1. Keeps(lines, r)
        BY <1>3, <1>5, <2>4, <3>2, AssertsNothing
      <4> QED  BY <3>2, <4>1 DEF HeldAfterLines
    <3> QED  BY <3>1, <3>2
  <2>7. \/ Asserts(lines \o inbox[fd], r, reg)
        \/ Keeps(lines \o inbox[fd], r) /\ reg /\ r \in inhibits[fd]
    <3>1. CASE Asserts(inbox[fd], r, RegisteredAfterLines(fd))
      <4>1. Asserts(inbox[fd], r, reg) \/ (Asserts(inbox[fd], r, TRUE) /\ HasHello(lines))
        BY <2>5, <3>1 DEF Asserts
      <4> HIDE DEF reg
      <4> QED  BY <1>3, <2>2, <2>3, <4>1, AssertsConcat
    <3>2. CASE Keeps(inbox[fd], r) /\ HeldAfterLines(fd, r)
      <4> HIDE DEF reg
      <4> QED  BY <1>3, <2>2, <2>3, <2>6, <3>2, AssertsConcat, KeepsConcat
    <3> QED  BY <2>1, <3>1, <3>2 DEF HeldAfterInbox
  <2>8. \/ Asserts(lines', r, reg)
        \/ Keeps(lines', r) /\ reg /\ r \in inhibits[fd]
    BY <1>3, <1>5, <2>7
  <2>9. HeldAfterLines(fd, r)'
    <3>1. CASE cur' = fd
      BY <1>2, <2>8, <3>1 DEF HeldAfterLines
    <3>2. CASE cur' # fd
      BY <1>2, <1>3, <1>5, <2>8, <3>2, AssertsNothing DEF HeldAfterLines
    <3> QED  BY <3>1, <3>2
  <2> QED  BY <1>2, <2>1, <2>2, <2>9, AssertsNothing DEF HeldAfterInbox
<1> QED  BY <1>4, <1>5

\* Every step of the daemon and its environment keeps InhibitInv.
LEMMA InhibitStep ==
  ASSUME TypeOK, SyncInv, RecordInv, InhibitInv, [Next]_vars
  PROVE  InhibitInv'
<1> SUFFICES ASSUME NEW fd \in Fds, NEW r \in wants'[fd]
             PROVE  greeted'[fd] /\ HeldAfterInbox(fd, r)'
  BY DEF InhibitInv
<1>1. CASE Stop
  BY <1>1 DEF Stop
<1>2. CASE HandleDisconnect
  <2>1. PICK g \in Fds : OnDisconnect(g)
    BY <1>2 DEF HandleDisconnect
  <2>2. fd # g
    BY <2>1 DEF OnDisconnect, EndHistory, TypeOK, HistoryTypeOK
  <2>3. /\ greeted'[fd] = greeted[fd] /\ wants'[fd] = wants[fd]
        /\ inbox'[fd] = inbox[fd] /\ inhibits'[fd] = inhibits[fd]
        /\ fd \in agents' <=> fd \in agents
        /\ cur # fd /\ cur' # fd
    BY <2>1, <2>2, ServerAssumption
       DEF OnDisconnect, EndHistory, Forget, Hangup, Feeds, TypeOK,
           HistoryTypeOK, ServerTypeOK, AgentTypeOK
  <2> QED  BY <2>3, InhibitFrame
<1>3. CASE OnMalformed
  <2>1. cur \in Fds
    BY <1>3 DEF OnMalformed, OnLine
  <2>2. fd # cur
    BY <1>3, <2>1 DEF OnMalformed, EndHistory, TypeOK, HistoryTypeOK
  <2>3. /\ greeted'[fd] = greeted[fd] /\ wants'[fd] = wants[fd]
        /\ inbox'[fd] = inbox[fd] /\ UNCHANGED <<agents, inhibits>>
    BY <1>3, <2>1, <2>2 DEF OnMalformed, EndHistory, LineCloses, agentVars,
                            TypeOK, HistoryTypeOK, ServerTypeOK
  <2>4. cur' # fd
    BY <1>3, <2>2, ServerAssumption DEF OnMalformed, LineCloses, NextLine
  <2> QED  BY <2>2, <2>3, <2>4, InhibitFrame
<1>4. CASE OnHello
  <2>1. CASE fd = cur
    BY <1>4, <2>1, InhibitHello
  <2>2. CASE fd # cur
    <3>1. /\ UNCHANGED <<greeted, wants, inbox>>
          /\ inhibits'[fd] = inhibits[fd] /\ (fd \in agents' <=> fd \in agents)
      BY <1>4, <2>2 DEF OnHello, LineDone, socketVars, TypeOK, AgentTypeOK
    <3>2. cur' # fd
      BY <1>4, <2>2, ServerAssumption DEF OnHello, LineDone, NextLine
    <3> QED  BY <2>2, <3>1, <3>2, InhibitFrame
  <2> QED  BY <2>1, <2>2
<1>5. CASE OnLineAny /\ ~OnHello /\ ~OnMalformed
  <2>1. CASE fd = cur
    BY <1>5, <2>1, InhibitLine
  <2>2. CASE fd # cur
    <3>1. UNCHANGED <<agents, greeted, wants, inbox>> /\ inhibits'[fd] = inhibits[fd]
      BY <1>5, <2>2, LineEffect DEF LineDone, socketVars
    <3>2. cur' # fd
      BY <1>5, <2>2, LineEffect, ServerAssumption DEF LineDone, NextLine
    <3> QED  BY <2>2, <3>1, <3>2, InhibitFrame
  <2> QED  BY <2>1, <2>2
<1>6. CASE HandleClient
  BY <1>6, InhibitRead
<1>7. CASE PeerWrites
  BY <1>7, InhibitWrite
<1>8. CASE EpollWait \/ OnHwEvent \/ AcceptClient
  <2>1. UNCHANGED <<agents, inhibits, greeted, wants, inbox, lines>>
    BY <1>8 DEF EpollWait, OnHwEvent, AcceptClient, AcceptFails, Accept, HwStep,
                TakeBatch, socketVars, agentVars, peerVars
  <2>2. cur' = fd <=> cur = fd
    BY <1>8, ServerAssumption
       DEF EpollWait, OnHwEvent, AcceptClient, AcceptFails, Accept, HwStep,
           TakeBatch
  <2> QED  BY <2>1, <2>2, InhibitFrame
<1>9. CASE Start \/ (Environment /\ ~PeerWrites) \/ UNCHANGED vars
  <2>1. UNCHANGED <<agents, inhibits, greeted, wants, inbox, lines, cur>>
    BY <1>9 DEF Start, Environment, PeerWritesPiece, PeerCloses, UserPresses,
                UserDims, SeatSwitches, AdminEdits, Suspends, Resumes,
                ClientWritesPiece, ClientCloses, serverVars, socketVars,
                agentVars, peerVars, vars
  <2> QED  BY <2>1, InhibitFrame
<1> QED  BY <1>1, <1>2, <1>3, <1>4, <1>5, <1>6, <1>7, <1>8, <1>9 DEF Next, Loop

\* Idleness never dims or suspends the machine while a connected client
\* stands for an inhibit the daemon has read: for any number of clients,
\* reasons and pending lines, malformed ones and reused descriptors included.
THEOREM InhibitCorrect == Spec => InhibitHonoured
<1> DEFINE Honoured ==
      IdleSuspend \/ IdleDim => \A fd \in conns : Drained(fd)' => wants[fd] = {}
<1>1. ASSUME TypeOK, SyncInv, InhibitInv, InhibitInv', [Next]_vars
      PROVE  [Honoured]_vars
  <2> SUFFICES ASSUME IdleSuspend \/ IdleDim,
                      NEW fd \in conns, Drained(fd)', NEW r \in wants[fd]
               PROVE  FALSE
    BY DEF TypeOK, HistoryTypeOK, ServerTypeOK
  <2>1. \/ OnIdleDim /\ DimAllowed
        \/ OnIdleSleep /\ SleepAllowed
    <3>1. CASE IdleDim
      BY <1>1, <3>1, DimmedFrame DEF IdleDim, Stop, OnActive, OnIdleDim
    <3>2. CASE IdleSuspend
      BY <1>1, <3>2, HwFrame, ServerAssumption
         DEF IdleSuspend, Stop, HwReset, OnHwEvent, HwStep, OnIdleSleep,
             UserPresses, Press, Suspends, FallAsleep, Resumes, WakeUp, hwVars
    <3> QED  BY <3>1, <3>2
  <2>2. ~HasAnyInhibit
    BY <2>1 DEF DimAllowed, SleepAllowed, MayIdle
  <2>3. UNCHANGED <<agents, inhibits, wants>>
    BY <2>1 DEF OnIdleDim, OnIdleSleep, agentVars, peerVars
  <2>4. HeldAfterInbox(fd, r)'
    BY <1>1, <2>3 DEF InhibitInv, TypeOK, ServerTypeOK
  <2>5. fd \in agents' /\ r \in inhibits'[fd]
    BY <2>4, AssertsNothing DEF HeldAfterInbox, HeldAfterLines, Drained
  <2> QED  BY <2>2, <2>3, <2>5 DEF HasAnyInhibit
<1> QED  BY <1>1, TypeCorrect, SyncInit, SyncStep, RecordInit, RecordStep,
            InhibitInit, InhibitStep, PTL
         DEF Spec, InhibitHonoured
=============================================================================
