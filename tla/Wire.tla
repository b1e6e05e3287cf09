-------------------------------- MODULE Wire --------------------------------
(***************************************************************************)
(* One connection between the daemon and a peer, an agent or draind-ctl,   *)
(* at the level of bytes: write_line on non-blocking sockets, LineBuffer,  *)
(* the lines decoded, draind-ctl from its request to its exit code, and    *)
(* the configuration file that set_profile rewrites.                       *)
(*                                                                         *)
(* A text is a sequence of characters.  The coding of values is a          *)
(* parameter: Json has the one of json.hpp.                                *)
(***************************************************************************)
EXTENDS Values, Integers, Sequences

CONSTANTS
  AgentMessages,  \* messages an agent sends
  Commands,       \* requests of draind-ctl
  Profiles,       \* names of profiles the daemon knows
  Listing,        \* what a query returns, a sequence of values
  Root,           \* the configuration file as a value
  Capacities,     \* for each peer, bytes the kernel may hold in one direction
  ReadSize,       \* sizeof(buf) of the reads
  MaxSent,        \* bound: messages on one connection of an agent
  Encode(_),      \* dump
  EncodePretty(_),\* dump_pretty
  Decode(_),      \* parse: a record with ok, and v if ok
  Torn            \* what k failed writes in a row may leave: text and messages

VARIABLES
  peer,     \* who connects
  capacity, \* bytes the kernel holds in one direction
  todo,     \* what each write_line has still to write
  pipe,     \* bytes in the kernel, in each direction
  torn,     \* directions in which a write_line has failed
  closed,   \* the peer has closed its end
  open,     \* the daemon has not closed the connection
  m_buf,    \* the daemon's LineBuffer
  lines,    \* lines feed() has found and handle_client has not handled
  sent,     \* history: what the peer gave to write_line
  got,      \* history: what the daemon decoded
  answer,   \* history: the daemon's reply to draind-ctl
  acc,      \* what recv_line has read
  code,     \* exit code of draind-ctl
  file      \* text of the configuration file

peerVars == <<peer, capacity>>
ctlVars  == <<acc, code>>
wireVars == <<peerVars, todo, pipe, torn, closed, open, m_buf, lines, sent,
              got, answer, ctlVars, file>>

Ends    == {"up", "down"}   \* to the daemon, to the peer
Running == -1
LF      == "\n"

Least(m, n) == IF m < n THEN m ELSE n
From(s, i)  == SubSeq(s, i, Len(s))

-----------------------------------------------------------------------------
(* Messages: protocol.hpp *)

Msg(type)          == Object([type |-> Str(type)])
EncodeInhibit(why) == Put(Msg("inhibit"), "reason", Str(why))
EncodeHello(session_id, uid) ==
  Put(Put(Msg("hello"), "session_id", Str(session_id)), "uid", Num(uid))
EncodeCtl(cmd, profile) ==
  LET m == Put(Msg("ctl"), "cmd", Str(cmd)) IN
  IF profile = "" THEN m ELSE Put(m, "profile", Str(profile))
Queries == {"status", "battery", "list_profiles", "list_inhibitors"}
EncodeCtlReply(ok) == Put(Msg("ctl_reply"), "ok", Bool(ok))

SetsProfile(msg) == /\ StrOf(msg, "cmd", "") = "set_profile"
                    /\ StrOf(msg, "profile", "") \in Profiles

\* The reply of on_ctl, if the file can be loaded or not; what a query
\* returns besides "ok" is one list here.
Reply(msg, loads) ==
  LET cmd     == StrOf(msg, "cmd", "")
      ok      == EncodeCtlReply(TRUE)
      no(why) == Put(EncodeCtlReply(FALSE), "error", Str(why))
  IN CASE cmd \in Queries -> Put(ok, "result", Array(Listing))
       [] cmd = "lock" \/ SetsProfile(msg) -> ok
       [] cmd = "set_profile" /\ ~SetsProfile(msg) ->
            no("profile not found: " \o StrOf(msg, "profile", ""))
       [] cmd = "reload_config" -> IF loads THEN ok ELSE no("cannot load")
       [] OTHER -> no("unknown command: " \o cmd)

Replies == {Reply(msg, loads) : msg \in Commands, loads \in BOOLEAN}

\* The administrator's file, and what set_profile makes of it.
Files == {Root} \cup {Put(Root, "active_profile", Str(name)) : name \in Profiles}

-----------------------------------------------------------------------------
(* What the coding is taken for.  TLC evaluates this for json.hpp and the  *)
(* messages of the instance.                                               *)

ASSUME WireAssumption ==
  /\ ReadSize \in Nat \ {0} /\ MaxSent \in Nat \ {0}
  /\ Capacities \in [{"agent", "ctl"} -> SUBSET Nat]
  /\ Root[1] = "object"

\* Messages fit on a line, and come back as they were.
ASSUME CodingAssumption ==
  \A v \in AgentMessages \cup Commands \cup Replies :
    /\ Encode(v) \in Seq(STRING) /\ Encode(v) # <<>>
    /\ \A i \in DOMAIN Encode(v) : Encode(v)[i] # LF
    /\ Decode(Encode(v)).ok /\ Decode(Encode(v)).v = v

\* The beginning of a reply is no value.
ASSUME CutAssumption ==
  \A v \in Replies : \A n \in 1 .. Len(Encode(v)) - 1 :
    ~Decode(SubSeq(Encode(v), 1, n)).ok

\* What failed writes have left makes the next message unreadable, or the
\* line is taken for one of the messages in it.
ASSUME TornAssumption ==
  /\ Torn[0] = {[text |-> <<>>, of |-> {}]}
  /\ \A k \in 1 .. MaxSent - 1 : \A t \in Torn[k - 1], m \in AgentMessages :
       \A n \in 0 .. Len(Encode(m)) :
         [text |-> t.text \o SubSeq(Encode(m), 1, n), of |-> t.of \cup {m}]
           \in Torn[k]
  /\ \A k \in 0 .. MaxSent - 1 : \A t \in Torn[k], m \in AgentMessages :
       LET line == Decode(t.text \o Encode(m)) IN
       /\ t.text \in Seq(STRING) /\ \A i \in DOMAIN t.text : t.text[i] # LF
       /\ line.ok => line.v \in t.of \cup {m}

\* A file whose writing was cut short is no value, or the whole one.
ASSUME FileAssumption ==
  \A v \in Files :
    /\ EncodePretty(v) \in Seq(STRING)
    /\ \A n \in 0 .. Len(EncodePretty(v)) :
         LET part == Decode(SubSeq(EncodePretty(v), 1, n)) IN
         part.ok \in BOOLEAN /\ (part.ok => part.v = v)

-----------------------------------------------------------------------------
(* Sockets: socket.cpp *)

\* write() takes what fits.
WriteSome(d) ==
  LET n == Least(capacity - Len(pipe[d]), Len(todo[d])) IN
  /\ todo[d] # <<>> /\ n > 0
  /\ pipe' = [pipe EXCEPT ![d] = @ \o SubSeq(todo[d], 1, n)]
  /\ todo' = [todo EXCEPT ![d] = From(@, n + 1)]
  /\ UNCHANGED <<peerVars, torn, closed, open, m_buf, lines, sent, got, answer,
                 ctlVars, file>>

\* EAGAIN: write_line returns, and no caller writes the rest.
WriteFails(d) ==
  /\ todo[d] # <<>> /\ Len(pipe[d]) = capacity
  /\ todo' = [todo EXCEPT ![d] = <<>>]
  /\ torn' = torn \cup {d}
  /\ UNCHANGED <<peerVars, pipe, closed, open, m_buf, lines, sent, got, answer,
                 ctlVars, file>>

HasLine(s)   == \E i \in DOMAIN s : s[i] = LF
LineEnd(s)   == CHOOSE i \in DOMAIN s : s[i] = LF /\ \A j \in 1 .. i - 1 : s[j] # LF
FirstLine(s) == IF HasLine(s) THEN SubSeq(s, 1, LineEnd(s) - 1) ELSE s

\* One read() of feed().
Read ==
  LET n == Least(ReadSize, Len(pipe["up"])) IN
  /\ open /\ n > 0 /\ lines = <<>> /\ todo["down"] = <<>>
  /\ m_buf' = m_buf \o SubSeq(pipe["up"], 1, n)
  /\ pipe' = [pipe EXCEPT !["up"] = From(@, n + 1)]
  /\ UNCHANGED <<peerVars, todo, torn, closed, open, lines, sent, got, answer,
                 ctlVars, file>>

\* Mutation of Extract: the buffer is emptied behind the line.
ExtractAll ==
  /\ HasLine(m_buf)
  /\ lines # <<>> \/ (open /\ ~closed /\ pipe["up"] = <<>> /\ todo["down"] = <<>>)
  /\ lines' = Append(lines, FirstLine(m_buf))
  /\ m_buf' = <<>>
  /\ UNCHANGED <<peerVars, todo, pipe, torn, closed, open, sent, got, answer,
                 ctlVars, file>>

\* After EAGAIN, feed() takes one line after the other from the buffer.
Extract ==
  /\ HasLine(m_buf)
  /\ lines # <<>> \/ (open /\ ~closed /\ pipe["up"] = <<>> /\ todo["down"] = <<>>)
  /\ lines' = Append(lines, FirstLine(m_buf))
  /\ m_buf' = From(m_buf, LineEnd(m_buf) + 1)
  /\ UNCHANGED <<peerVars, todo, pipe, torn, closed, open, sent, got, answer,
                 ctlVars, file>>

\* feed() meets the end of the stream: the lines it has just read are never
\* extracted.
HandleEof ==
  /\ open /\ closed /\ lines = <<>> /\ pipe["up"] = <<>> /\ todo["down"] = <<>>
  /\ open' = FALSE
  /\ m_buf' = <<>>
  /\ UNCHANGED <<peerVars, todo, pipe, torn, closed, lines, sent, got, answer,
                 ctlVars, file>>

-----------------------------------------------------------------------------
(* The daemon handles lines *)

\* Mutation of Persist: a file that does not parse is replaced.
PersistAnyway(name) ==
  LET root == Decode(file)
      text == EncodePretty(Put(IF root.ok THEN root.v ELSE Null,
                               "active_profile", Str(name)))
  IN \E n \in 0 .. Len(text) : file' = SubSeq(text, 1, n)

\* persist_active: the file may be unreadable or unwritable, and the write,
\* which is not checked, may end anywhere.
Persist(name) ==
  LET root == Decode(file)
      text == EncodePretty(Put(root.v, "active_profile", Str(name)))
  IN \/ UNCHANGED file
     \/ root.ok /\ \E n \in 0 .. Len(text) : file' = SubSeq(text, 1, n)

OnCtl(msg) ==
  /\ answer' = Reply(msg, Decode(file).ok)
  /\ todo' = [todo EXCEPT !["down"] = Encode(answer') \o <<LF>>]
  /\ IF SetsProfile(msg) THEN Persist(StrOf(msg, "profile", ""))
     ELSE UNCHANGED file

OnMessage(msg) ==
  /\ got' = Append(got, msg)
  /\ IF peer = "ctl" THEN OnCtl(msg) ELSE UNCHANGED <<todo, answer, file>>

\* Mutation of OnLine: a line stays in the vector.
OnLineAgain ==
  LET line == Head(lines) IN
  /\ lines # <<>> /\ ~HasLine(m_buf) /\ todo["down"] = <<>>
  /\ UNCHANGED lines
  /\ open' = (open /\ (line = <<>> \/ Decode(line).ok))
  /\ IF line # <<>> /\ Decode(line).ok THEN OnMessage(Decode(line).v)
     ELSE UNCHANGED <<got, todo, answer, file>>
  /\ UNCHANGED <<peerVars, pipe, torn, closed, m_buf, sent, ctlVars>>

\* handle_client takes the lines of one feed(): one that does not parse
\* closes the connection, the others are handled all the same.
OnLine ==
  LET line == Head(lines) IN
  /\ lines # <<>> /\ ~HasLine(m_buf) /\ todo["down"] = <<>>
  /\ lines' = Tail(lines)
  /\ open' = (open /\ (line = <<>> \/ Decode(line).ok))
  /\ IF line # <<>> /\ Decode(line).ok THEN OnMessage(Decode(line).v)
     ELSE UNCHANGED <<got, todo, answer, file>>
  /\ UNCHANGED <<peerVars, pipe, torn, closed, m_buf, sent, ctlVars>>

-----------------------------------------------------------------------------
(* Peers *)

\* write_line begins.
Send(msg) ==
  /\ open /\ ~closed /\ todo["up"] = <<>>
  /\ sent' = Append(sent, msg)
  /\ todo' = [todo EXCEPT !["up"] = Encode(msg) \o <<LF>>]
  /\ UNCHANGED <<peerVars, pipe, torn, closed, open, m_buf, lines, got, answer,
                 ctlVars, file>>

AgentSends ==
  /\ peer = "agent" /\ Len(sent) < MaxSent
  /\ \E msg \in AgentMessages : Send(msg)

AgentEnds ==
  /\ peer = "agent" /\ ~closed
  /\ closed' = TRUE
  /\ todo' = [todo EXCEPT !["up"] = <<>>]
  /\ UNCHANGED <<peerVars, pipe, torn, open, m_buf, lines, sent, got, answer,
                 ctlVars, file>>

CtlAsks ==
  /\ peer = "ctl" /\ sent = <<>>
  /\ \E msg \in Commands : Send(msg)

Waiting == peer = "ctl" /\ sent # <<>> /\ todo["up"] = <<>> /\ code = Running

\* recv_line reads on until it has a line.
CtlReads ==
  LET n == Least(ReadSize, Len(pipe["down"])) IN
  /\ Waiting /\ n > 0 /\ ~HasLine(acc)
  /\ acc' = acc \o SubSeq(pipe["down"], 1, n)
  /\ pipe' = [pipe EXCEPT !["down"] = From(@, n + 1)]
  /\ UNCHANGED <<peerVars, todo, torn, closed, open, m_buf, lines, sent, got, answer,
                 code, file>>

\* Mutation of ExitCode: any reply is a success.
AnyReply(line) == IF line # <<>> /\ Decode(line).ok THEN 0 ELSE 3

ExitCode(line) ==
  LET reply == Decode(line) IN
  IF line = <<>> \/ ~reply.ok THEN 3
  ELSE IF Flag(reply.v, "ok") THEN 0 ELSE 4

\* main() goes on with a line, or after five seconds without a byte, or at
\* the end of the stream, with what there is.
CtlExits ==
  /\ Waiting
  /\ HasLine(acc) \/ pipe["down"] = <<>>
  /\ code' = ExitCode(FirstLine(acc))
  /\ closed' = TRUE
  /\ UNCHANGED <<peerVars, todo, pipe, torn, open, m_buf, lines, sent, got, answer,
                 acc, file>>

\* The next peer of the same kind connects.
Connect ==
  /\ ~open /\ lines = <<>> /\ (peer = "ctl" => code # Running)
  /\ todo' = [d \in Ends |-> <<>>] /\ pipe' = [d \in Ends |-> <<>>]
  /\ torn' = {} /\ closed' = FALSE /\ open' = TRUE /\ m_buf' = <<>> /\ lines' = <<>>
  /\ sent' = <<>> /\ got' = <<>> /\ answer' = Null
  /\ acc' = <<>> /\ code' = Running
  /\ UNCHANGED <<peerVars, file>>

-----------------------------------------------------------------------------
WireInit ==
  /\ peer \in {"agent", "ctl"}
  /\ capacity \in Capacities[peer]
  /\ todo = [d \in Ends |-> <<>>] /\ pipe = [d \in Ends |-> <<>>]
  /\ torn = {} /\ closed = FALSE /\ open = TRUE /\ m_buf = <<>> /\ lines = <<>>
  /\ sent = <<>> /\ got = <<>> /\ answer = Null
  /\ acc = <<>> /\ code = Running
  /\ file = EncodePretty(Root)

WireNext ==
  \/ \E d \in Ends : WriteSome(d) \/ WriteFails(d)
  \/ Read \/ Extract \/ OnLine \/ HandleEof
  \/ AgentSends \/ AgentEnds
  \/ CtlAsks \/ CtlReads \/ CtlExits
  \/ Connect

WireSpec == WireInit /\ [][WireNext]_wireVars

=============================================================================
