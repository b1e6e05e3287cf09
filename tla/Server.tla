------------------------------- MODULE Server -------------------------------
(***************************************************************************)
(* The daemon's Server and the epoll loop around it: one thread that takes *)
(* a batch of ready sources from epoll_wait and serves them one after the  *)
(* other.  A client that is read may deliver several lines; the callbacks  *)
(* run for each of them before the next source of the batch is served.     *)
(*                                                                         *)
(* A connection is its file descriptor, and descriptors are reused.  What  *)
(* a client has written and the daemon has not read is inbox[fd], and the  *)
(* beginning of a line if fd is in partial; eof[fd] says that the client   *)
(* has closed its end.  feed() reads until nothing is left: a client that  *)
(* keeps writing keeps it from returning.                                  *)
(***************************************************************************)
EXTENDS Integers, Sequences

CONSTANTS
  Fds,        \* file descriptors of accepted clients
  NoFd,       \* no descriptor
  Listen,     \* the listening socket as an epoll source
  Hw,         \* the hardware event monitor as an epoll source
  Messages,   \* lines the clients of a run may write
  Busy,       \* clients that may write pieces of lines, or while they are
              \* being read
  MaxInbox    \* bound: lines of a connection that are unread or in feed()

ASSUME ServerAssumption ==
  /\ NoFd \notin Fds /\ Listen \notin Fds /\ Hw \notin Fds
  /\ NoFd # Hw /\ Listen # Hw /\ NoFd # Listen
  /\ Busy \subseteq Fds /\ MaxInbox \in Nat

VARIABLES
  conns,      \* m_conns: descriptors of open connections
  is_agent,   \* the ones whose Connection::is_agent is set
  inbox,      \* lines written by the client and not yet read
  partial,    \* connections where a piece of a line waits to be read
  eof,        \* the client has closed its end
  batch,      \* sources of the current epoll_wait result not yet served
  cur,        \* the source being served: a client, Hw or NoFd
  feeding,    \* feed() is reading from cur
  lines       \* lines read from cur and not yet passed to on_line

socketVars == <<inbox, partial, eof>>
serverVars == <<conns, is_agent, socketVars, batch, cur, feeding, lines>>

-----------------------------------------------------------------------------
Idle == batch = {} /\ cur = NoFd

Unread(fd) == inbox[fd] # <<>> \/ fd \in partial

ReadyClients == {fd \in conns : Unread(fd) \/ eof[fd]}

\* Mutation of TakeBatch: only one of the ready sources is taken, always the
\* same one while it stays ready.
TakeFavourite(ready) ==
  /\ Idle
  /\ batch' = IF ready = {} THEN {} ELSE {CHOOSE s \in ready : TRUE}
  /\ UNCHANGED <<conns, is_agent, socketVars, cur, feeding, lines>>

\* epoll_wait is level-triggered and reports every ready source; n > 16
\* sources at once do not occur at the bounds used here.
TakeBatch(ready) ==
  /\ Idle
  /\ batch' = ready
  /\ UNCHANGED <<conns, is_agent, socketVars, cur, feeding, lines>>

\* accept_client: the kernel hands out a free descriptor, or accept4 fails.
Accept(fd) ==
  /\ cur = NoFd /\ Listen \in batch
  /\ fd \notin conns
  /\ conns' = conns \cup {fd}
  /\ is_agent' = is_agent \ {fd}
  /\ batch' = batch \ {Listen}
  /\ UNCHANGED <<socketVars, cur, feeding, lines>>

AcceptFails ==
  /\ cur = NoFd /\ Listen \in batch
  /\ batch' = batch \ {Listen}
  /\ UNCHANGED <<conns, is_agent, socketVars, cur, feeding, lines>>

\* handle_client begins with fd, or is still in feed().
Feeds(fd) == \/ cur = NoFd /\ fd \in batch \cap conns
             \/ cur = fd /\ feeding

\* feed(): read() returns what there is, and is called again; the client
\* may do something in between.
ReadMore(fd) ==
  /\ Feeds(fd) /\ fd \in Busy
  /\ ~eof[fd] /\ Unread(fd)
  /\ batch' = batch \ {fd}
  /\ inbox' = [inbox EXCEPT ![fd] = <<>>]
  /\ partial' = partial \ {fd}
  /\ lines' = lines \o inbox[fd]
  /\ cur' = fd /\ feeding' = TRUE
  /\ UNCHANGED <<conns, is_agent, eof>>

\* The last read() and the EAGAIN behind it: feed() returns with the lines
\* it has found.
Read(fd) ==
  /\ Feeds(fd) /\ ~eof[fd]
  /\ batch' = batch \ {fd}
  /\ inbox' = [inbox EXCEPT ![fd] = <<>>]
  /\ partial' = partial \ {fd}
  /\ lines' = lines \o inbox[fd]
  /\ cur' = IF lines' = <<>> THEN NoFd ELSE fd
  /\ feeding' = FALSE
  /\ UNCHANGED <<conns, is_agent, eof>>

\* EOF: feed() returns before it extracts a line, so whatever the client
\* wrote just before closing is dropped.
Hangup(fd) ==
  /\ Feeds(fd) /\ eof[fd]
  /\ batch' = batch \ {fd}
  /\ conns' = conns \ {fd}
  /\ inbox' = [inbox EXCEPT ![fd] = <<>>]
  /\ partial' = partial \ {fd}
  /\ eof' = [eof EXCEPT ![fd] = FALSE]
  /\ cur' = NoFd /\ feeding' = FALSE /\ lines' = <<>>
  /\ UNCHANGED is_agent

\* One more line of the current read has been handled.
NextLine ==
  /\ lines' = Tail(lines)
  /\ cur' = IF Tail(lines) = <<>> THEN NoFd ELSE cur
  /\ UNCHANGED <<batch, feeding>>

LineDone == NextLine /\ UNCHANGED <<conns, is_agent, socketVars>>

\* close_client from inside on_line; the other lines of the read follow.
LineCloses ==
  /\ NextLine
  /\ conns' = conns \ {cur}
  /\ inbox' = [inbox EXCEPT ![cur] = <<>>]
  /\ partial' = partial \ {cur}
  /\ eof' = [eof EXCEPT ![cur] = FALSE]
  /\ UNCHANGED is_agent

\* Receivers of broadcast_and_wait_acks.  Nothing ever sets is_agent, so
\* there are none and the wait for their acks is never entered.
BroadcastReceivers == conns \cap is_agent

\* The client side of the socket.
ClientWrites(fd, m) ==
  /\ fd \in conns /\ ~eof[fd]
  /\ Len(inbox[fd]) + (IF feeding /\ cur = fd THEN Len(lines) ELSE 0) < MaxInbox
  /\ inbox' = [inbox EXCEPT ![fd] = Append(@, m)]
  /\ UNCHANGED <<conns, is_agent, partial, eof, batch, cur, feeding, lines>>

\* A piece of a line: the line itself comes with the write that ends it.
ClientWritesPiece(fd) ==
  /\ fd \in conns \cap Busy /\ ~eof[fd]
  /\ partial' = partial \cup {fd}
  /\ UNCHANGED <<conns, is_agent, inbox, eof, batch, cur, feeding, lines>>

ClientCloses(fd) ==
  /\ fd \in conns /\ ~eof[fd]
  /\ eof' = [eof EXCEPT ![fd] = TRUE]
  /\ UNCHANGED <<conns, is_agent, inbox, partial, batch, cur, feeding, lines>>

ServerInit ==
  /\ conns = {}
  /\ is_agent = {}
  /\ inbox = [fd \in Fds |-> <<>>]
  /\ partial = {}
  /\ eof = [fd \in Fds |-> FALSE]
  /\ batch = {}
  /\ cur = NoFd
  /\ feeding = FALSE
  /\ lines = <<>>

\* The process ends: the kernel closes every descriptor.
ServerReset ==
  /\ conns' = {}
  /\ is_agent' = {}
  /\ inbox' = [fd \in Fds |-> <<>>]
  /\ partial' = {}
  /\ eof' = [fd \in Fds |-> FALSE]
  /\ batch' = {}
  /\ cur' = NoFd
  /\ feeding' = FALSE
  /\ lines' = <<>>
=============================================================================
