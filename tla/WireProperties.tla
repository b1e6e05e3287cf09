--------------------------- MODULE WireProperties ---------------------------
(***************************************************************************)
(* What a connection promises, however the writes are cut short, the reads *)
(* split and the peers killed.                                             *)
(***************************************************************************)
EXTENDS Wire

\* What the daemon decodes was sent, in that order and at most once each: a
\* message cut off by a full socket buffer, and so glued to the next one, is
\* never taken for another message (write_line, LineBuffer::feed, parse).
DeliveredInOrder ==
  \E at \in [DOMAIN got -> DOMAIN sent] :
    /\ \A i, j \in DOMAIN got : i < j => at[i] < at[j]
    /\ \A i \in DOMAIN got : got[i] = sent[at[i]]

\* As long as no write_line has failed and the peer is there, no line is
\* rejected, and once everything written has been read, every message has
\* been decoded to what was encoded: dump and escape never put a line end
\* into a line, and parse takes back all that dump writes.
NothingLost ==
  "up" \notin torn /\ ~closed =>
    /\ open
    /\ todo["up"] = <<>> /\ pipe["up"] = <<>> /\ lines = <<>> /\ ~HasLine(m_buf)
         => got = sent

\* draind-ctl exits with 0 only if the daemon has carried out its command,
\* and with 4 only if the daemon has refused it, even if the reply comes in
\* pieces, is cut off, or comes after the timeout (recv_line, main).
ExitCodeTruthful ==
  code \in {0, 4} => got = sent /\ (code = 0 <=> Flag(answer, "ok"))

\* However often set_profile rewrites the configuration file, and wherever a
\* write of it ends, a file that can be read has lost nothing: it is the
\* administrator's file with the active profile replaced (persist_active,
\* dump_pretty, parse).
ConfigWhole ==
  LET now == Decode(file) IN
  now.ok => \/ now.v = Root
            \/ \E name \in Profiles :
                 now.v = Put(Root, "active_profile", Str(name))
=============================================================================
