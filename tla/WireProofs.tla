----------------------------- MODULE WireProofs -----------------------------
(***************************************************************************)
(* Proofs about Wire, for every capacity of the sockets, size of the reads *)
(* and number of messages, and every coding that has the properties Wire   *)
(* assumes.                                                                *)
(*                                                                         *)
(* UpInv is about the bytes on the way to the daemon: m_buf, the pipe and  *)
(* what is to be written are one stream, in which every line is what failed*)
(* writes have left of some messages and then a whole one.  Its witnesses  *)
(* count messages: at[i] is the place in sent of the i-th message decoded, *)
(* v[i] that of the last message in the i-th line that waits, w[p] that of *)
(* the last one in the stream up to a line end at p.  DownInv is about the *)
(* way back, which holds the beginning of one reply, and FileInv about the *)
(* file, which is the beginning of one print.                              *)
(***************************************************************************)
EXTENDS WireProperties, TLAPS, SequenceTheorems, WellFoundedInduction

\* The provers do not know that a literal is in STRING.
Chars == STRING \cup {LF}
Text  == Seq(Chars)

-----------------------------------------------------------------------------
(* Texts *)

\* What \o of two texts is made of.
LEMMA Glued ==
  ASSUME NEW s \in Text, NEW t \in Text
  PROVE  /\ s \o t \in Text
         /\ Len(s \o t) = Len(s) + Len(t)
         /\ \A i \in 1 .. Len(s) : (s \o t)[i] = s[i]
         /\ \A i \in 1 .. Len(t) : (s \o t)[Len(s) + i] = t[i]
<1>1. /\ s \o t \in Text
      /\ Len(s \o t) = Len(s) + Len(t)
      /\ \A i \in 1 .. Len(s) + Len(t) :
           (s \o t)[i] = IF i <= Len(s) THEN s[i] ELSE t[i - Len(s)]
  BY ConcatProperties DEF Text
<1>2. Len(s) \in Nat /\ Len(t) \in Nat
  BY DEF Text
<1> QED
  BY <1>1, <1>2

\* What a part of a text is made of.
LEMMA Part ==
  ASSUME NEW s \in Text, NEW a \in Nat \ {0}, NEW b \in Nat, b <= Len(s), a <= b + 1
  PROVE  /\ SubSeq(s, a, b) \in Text
         /\ Len(SubSeq(s, a, b)) = b - a + 1
         /\ \A i \in 1 .. b - a + 1 : SubSeq(s, a, b)[i] = s[a + i - 1]
<1>1. \A i \in a .. b : s[i] \in Chars
  BY DEF Text
<1>2. /\ SubSeq(s, a, b) \in Seq(Chars)
      /\ Len(SubSeq(s, a, b)) = IF a <= b THEN b - a + 1 ELSE 0
      /\ \A i \in 1 .. b - a + 1 : SubSeq(s, a, b)[i] = s[a + i - 1]
  BY <1>1, SubSeqProperties
<1> QED
  BY <1>2 DEF Text

\* Texts with the same characters are equal.
LEMMA Same ==
  ASSUME NEW s \in Text, NEW t \in Text, Len(s) = Len(t),
         \A i \in 1 .. Len(s) : s[i] = t[i]
  PROVE  s = t
BY SeqEqual DEF Text

\* A part that lies in the first of two texts.
LEMMA PartOfFirst ==
  ASSUME NEW s \in Text, NEW t \in Text, NEW a \in Nat \ {0}, NEW b \in Nat,
         b <= Len(s), a <= b + 1
  PROVE  SubSeq(s \o t, a, b) = SubSeq(s, a, b)
<1>0. Len(s) \in Nat /\ Len(t) \in Nat
  BY DEF Text
<1>1. /\ s \o t \in Text
      /\ Len(s \o t) = Len(s) + Len(t)
      /\ \A i \in 1 .. Len(s) : (s \o t)[i] = s[i]
  BY Glued
<1>2. /\ SubSeq(s, a, b) \in Text
      /\ Len(SubSeq(s, a, b)) = b - a + 1
      /\ \A i \in 1 .. b - a + 1 : SubSeq(s, a, b)[i] = s[a + i - 1]
  BY Part
<1>3. b <= Len(s \o t)
  BY <1>0, <1>1
<1>4. /\ SubSeq(s \o t, a, b) \in Text
      /\ Len(SubSeq(s \o t, a, b)) = b - a + 1
      /\ \A i \in 1 .. b - a + 1 : SubSeq(s \o t, a, b)[i] = (s \o t)[a + i - 1]
  BY <1>1, <1>3, Part
<1>5. \A i \in 1 .. b - a + 1 : SubSeq(s \o t, a, b)[i] = SubSeq(s, a, b)[i]
  BY <1>0, <1>1, <1>2, <1>4
<1> QED
  BY <1>2, <1>4, <1>5, Same

\* A part that begins in the first text and ends in the second.
LEMMA PartAcross ==
  ASSUME NEW s \in Text, NEW t \in Text, NEW a \in Nat \ {0}, NEW n \in Nat,
         a <= Len(s) + 1, n <= Len(t)
  PROVE  SubSeq(s \o t, a, Len(s) + n) = SubSeq(s, a, Len(s)) \o SubSeq(t, 1, n)
<1>0. Len(s) \in Nat /\ Len(t) \in Nat
  BY DEF Text
<1>1. /\ s \o t \in Text
      /\ Len(s \o t) = Len(s) + Len(t)
      /\ \A i \in 1 .. Len(s) : (s \o t)[i] = s[i]
      /\ \A i \in 1 .. Len(t) : (s \o t)[Len(s) + i] = t[i]
  BY Glued
<1> DEFINE x == SubSeq(s, a, Len(s))
           y == SubSeq(t, 1, n)
           z == SubSeq(s \o t, a, Len(s) + n)
<1>2. /\ x \in Text
      /\ Len(x) = Len(s) - a + 1
      /\ \A i \in 1 .. Len(s) - a + 1 : x[i] = s[a + i - 1]
  BY <1>0, Part
<1>3. /\ y \in Text
      /\ Len(y) = n
      /\ \A i \in 1 .. n : y[i] = t[i]
  <2>1. /\ y \in Text
        /\ Len(y) = n - 1 + 1
        /\ \A i \in 1 .. n - 1 + 1 : y[i] = t[1 + i - 1]
    BY <1>0, Part
  <2> QED
    BY <2>1
<1>4. /\ z \in Text
      /\ Len(z) = Len(s) + n - a + 1
      /\ \A i \in 1 .. Len(s) + n - a + 1 : z[i] = (s \o t)[a + i - 1]
  <2>1. PICK b : b = Len(s) + n
    OBVIOUS
  <2>2. b \in Nat /\ b <= Len(s \o t) /\ a <= b + 1
    BY <2>1, <1>0, <1>1
  <2>3. /\ SubSeq(s \o t, a, b) \in Text
        /\ Len(SubSeq(s \o t, a, b)) = b - a + 1
        /\ \A i \in 1 .. b - a + 1 : SubSeq(s \o t, a, b)[i] = (s \o t)[a + i - 1]
    BY <2>2, <1>1, Part
  <2> QED
    BY <2>1, <2>3
<1> HIDE DEF x, y, z
<1>5. /\ x \o y \in Text
      /\ Len(x \o y) = Len(x) + Len(y)
      /\ \A i \in 1 .. Len(x) : (x \o y)[i] = x[i]
      /\ \A i \in 1 .. Len(y) : (x \o y)[Len(x) + i] = y[i]
  BY <1>2, <1>3, Glued
<1>6. ASSUME NEW i \in 1 .. Len(s) + n - a + 1 PROVE z[i] = (x \o y)[i]
  <2>0. i \in Nat \ {0} /\ a + i - 1 \in Nat \ {0} /\ i <= Len(s) + n - a + 1
    BY <1>0
  <2>1. CASE i <= Len(s) - a + 1
    <3>1. i \in 1 .. Len(s) - a + 1 /\ i \in 1 .. Len(x) /\ a + i - 1 \in 1 .. Len(s)
      BY <2>0, <2>1, <1>0, <1>2
    <3> QED
      BY <3>1, <1>1, <1>2, <1>4, <1>5
  <2>2. CASE ~(i <= Len(s) - a + 1)
    <3>1. PICK j : j = i - (Len(s) - a + 1)
      OBVIOUS
    <3>2. j \in 1 .. n /\ i = Len(x) + j /\ a + i - 1 = Len(s) + j /\ j \in 1 .. Len(t)
      BY <3>1, <2>0, <2>2, <1>0, <1>2
    <3>3. (x \o y)[i] = t[j]
      BY <3>2, <1>3, <1>5
    <3>4. z[i] = t[j]
      BY <3>2, <1>1, <1>4
    <3> QED
      BY <3>3, <3>4
  <2> QED
    BY <2>1, <2>2
<1>7. Len(z) = Len(x \o y)
  BY <1>0, <1>2, <1>3, <1>4, <1>5
<1>8. z = x \o y
  BY <1>4, <1>5, <1>6, <1>7, Same
<1> QED
  BY <1>8 DEF x, y, z

\* A part of a part.
LEMMA PartOfPart ==
  ASSUME NEW s \in Text, NEW a \in Nat \ {0}, NEW b \in Nat, b <= Len(s), a <= b + 1,
         NEW c \in Nat \ {0}, NEW d \in Nat, d <= b - a + 1, c <= d + 1
  PROVE  SubSeq(SubSeq(s, a, b), c, d) = SubSeq(s, a + c - 1, a + d - 1)
<1>0. Len(s) \in Nat
  BY DEF Text
<1>1. /\ SubSeq(s, a, b) \in Text
      /\ Len(SubSeq(s, a, b)) = b - a + 1
      /\ \A i \in 1 .. b - a + 1 : SubSeq(s, a, b)[i] = s[a + i - 1]
  BY Part
<1>2. PICK x : x = SubSeq(s, a, b)
  OBVIOUS
<1>3. /\ SubSeq(x, c, d) \in Text
      /\ Len(SubSeq(x, c, d)) = d - c + 1
      /\ \A i \in 1 .. d - c + 1 : SubSeq(x, c, d)[i] = x[c + i - 1]
  BY <1>1, <1>2, Part
<1>4. PICK e, f : e = a + c - 1 /\ f = a + d - 1
  OBVIOUS
<1>5. /\ e \in Nat \ {0} /\ f \in Nat /\ f <= Len(s) /\ e <= f + 1
      /\ f - e = d - c
  BY <1>0, <1>4
<1>6. /\ SubSeq(s, e, f) \in Text
      /\ Len(SubSeq(s, e, f)) = f - e + 1
      /\ \A i \in 1 .. f - e + 1 : SubSeq(s, e, f)[i] = s[e + i - 1]
  BY <1>5, Part
<1>7. \A i \in 1 .. d - c + 1 : SubSeq(x, c, d)[i] = SubSeq(s, e, f)[i]
  <2> SUFFICES ASSUME NEW i \in 1 .. d - c + 1
               PROVE  SubSeq(x, c, d)[i] = SubSeq(s, e, f)[i]
    OBVIOUS
  <2>1. c + i - 1 \in 1 .. b - a + 1
    OBVIOUS
  <2>2. x[c + i - 1] = s[a + (c + i - 1) - 1]
    BY <2>1, <1>1, <1>2
  <2>3. a + (c + i - 1) - 1 = e + i - 1
    BY <1>4
  <2>4. i \in 1 .. f - e + 1
    BY <1>5
  <2> QED
    BY <2>2, <2>3, <2>4, <1>3, <1>6
<1>8. SubSeq(x, c, d) = SubSeq(s, e, f)
  BY <1>3, <1>5, <1>6, <1>7, Same
<1> QED
  BY <1>2, <1>4, <1>8

-----------------------------------------------------------------------------
(* Streams.  V is a stream, s the messages sent on it, and w[p] tells how  *)
(* many of the messages begin before the line end at p.                    *)

Counts          == [Nat -> Nat]
IsLog(s, M, n) == s \in Seq(M) /\ Len(s) = n /\ n \in Nat

Mark(V, p)     == p = 0 \/ V[p] = LF
Clean(V, a, b) == \A j \in a .. b : V[j] # LF

\* A line lies between p and i, or the rest behind p has none.
Segment(V, p, i) == p < i /\ Mark(V, p) /\ V[i] = LF /\ Clean(V, p + 1, i - 1)
LastMark(V, p)   == Mark(V, p) /\ Clean(V, p + 1, Len(V))

\* A line is what failed writes have left of the messages after lo, and
\* then the whole message hi.
LineOf(text, s, lo, hi) ==
  /\ lo < hi /\ hi <= Len(s)
  /\ \E t \in Torn[hi - lo - 1] :
       /\ text = t.text \o Encode(s[hi])
       /\ \A x \in t.of : \E j \in lo + 1 .. hi - 1 : x = s[j]

\* The rest without a line end is what failed writes have left.
TailOf(text, s, lo, limit) ==
  /\ lo <= Len(s)
  /\ Len(s) - lo < limit =>
       \E t \in Torn[Len(s) - lo] :
         text = t.text /\ \A x \in t.of : \E j \in lo + 1 .. Len(s) : x = s[j]

LinesOf(w, V, s) ==
  \A p, i \in 0 .. Len(V) :
    Segment(V, p, i) => LineOf(SubSeq(V, p + 1, i - 1), s, w[p], w[i])

RestOf(w, V, s, limit) ==
  \A p \in 0 .. Len(V) :
    LastMark(V, p) => TailOf(SubSeq(V, p + 1, Len(V)), s, w[p], limit)

\* No message has been lost.
Exact(w, V, s) ==
  /\ \A p, i \in 0 .. Len(V) : Segment(V, p, i) => w[i] = w[p] + 1
  /\ \A p \in 0 .. Len(V) : LastMark(V, p) => w[p] = Len(s)

\* Another message changes no line.
LEMMA LineStays ==
  ASSUME NEW M, NEW s, NEW n, IsLog(s, M, n), NEW m \in M, NEW lo \in Nat,
         NEW hi \in Nat, NEW text, LineOf(text, s, lo, hi)
  PROVE  LineOf(text, Append(s, m), lo, hi)
<1>0. s \in Seq(M)
  BY DEF IsLog
<1>1. /\ Len(s) \in Nat /\ Len(Append(s, m)) = Len(s) + 1
      /\ \A j \in 1 .. Len(s) : Append(s, m)[j] = s[j]
  BY <1>0
<1>2. PICK t \in Torn[hi - lo - 1] :
        /\ text = t.text \o Encode(s[hi])
        /\ \A x \in t.of : \E j \in lo + 1 .. hi - 1 : x = s[j]
  BY DEF LineOf
<1>3. lo < hi /\ hi <= Len(s)
  BY DEF LineOf
<1>4. Append(s, m)[hi] = s[hi]
  BY <1>1, <1>3
<1>5. \A x \in t.of : \E j \in lo + 1 .. hi - 1 : x = Append(s, m)[j]
  <2> SUFFICES ASSUME NEW x \in t.of
               PROVE  \E j \in lo + 1 .. hi - 1 : x = Append(s, m)[j]
    OBVIOUS
  <2>1. PICK j \in lo + 1 .. hi - 1 : x = s[j]
    BY <1>2
  <2>2. j \in 1 .. Len(s)
    BY <1>1, <1>3
  <2> QED
    BY <2>1, <2>2, <1>1
<1>6. hi <= Len(Append(s, m))
  BY <1>1, <1>3
<1> QED
  BY <1>2, <1>3, <1>4, <1>5, <1>6 DEF LineOf

\* A message written behind what failed writes have left makes a line.
LEMMA LineCompleted ==
  ASSUME NEW M, NEW s, NEW n \in Nat, IsLog(s, M, n), NEW m \in M, NEW lo \in Nat,
         NEW limit \in Nat, NEW text, n < limit, TailOf(text, s, lo, limit)
  PROVE  LineOf(text \o Encode(m), Append(s, m), lo, n + 1)
<1>1. /\ Len(Append(s, m)) = n + 1 /\ Append(s, m)[n + 1] = m
      /\ \A j \in 1 .. n : Append(s, m)[j] = s[j]
  <2>1. s \in Seq(M) /\ Len(s) = n
    BY DEF IsLog
  <2>2. /\ Len(Append(s, m)) = Len(s) + 1
        /\ \A j \in 1 .. Len(s) : Append(s, m)[j] = s[j]
        /\ Append(s, m)[Len(s) + 1] = m
    BY <2>1, AppendProperties
  <2> QED
    BY <2>1, <2>2
<1>2. lo <= n
  BY DEF TailOf, IsLog
<1>3. n - lo < limit
  BY <1>2
<1>4. PICK t \in Torn[n - lo] :
        text = t.text /\ \A x \in t.of : \E j \in lo + 1 .. n : x = s[j]
  BY <1>3 DEF TailOf, IsLog
<1>5. (n + 1) - lo - 1 = n - lo /\ (n + 1) - 1 = n /\ lo < n + 1
  BY <1>2
<1>6. \A x \in t.of : \E j \in lo + 1 .. (n + 1) - 1 : x = Append(s, m)[j]
  <2> SUFFICES ASSUME NEW x \in t.of
               PROVE  \E j \in lo + 1 .. (n + 1) - 1 : x = Append(s, m)[j]
    OBVIOUS
  <2>1. PICK j \in lo + 1 .. n : x = s[j]
    BY <1>4
  <2>2. j \in 1 .. n /\ j \in lo + 1 .. (n + 1) - 1
    OBVIOUS
  <2> QED
    BY <2>1, <2>2, <1>1
<1>7. t \in Torn[(n + 1) - lo - 1]
  BY <1>5
<1>8. text \o Encode(m) = t.text \o Encode(Append(s, m)[n + 1])
  BY <1>1, <1>4
<1>9. n + 1 <= Len(Append(s, m))
  BY <1>1
<1> QED
  BY <1>5, <1>6, <1>7, <1>8, <1>9 DEF LineOf

\* V2 is V, of length a, with e and a line end behind it.
Grown(V, V2, a, c, e) ==
  /\ Len(V) = a /\ Len(V2) = c /\ a < c /\ V2[c] = LF
  /\ \A i \in 1 .. a : V2[i] = V[i]
  /\ \A i \in a + 1 .. c - 1 : V2[i] # LF
  /\ \A p \in 0 .. a : SubSeq(V2, p + 1, c - 1) = SubSeq(V, p + 1, a) \o e
  /\ \A p, i \in 0 .. a :
       p < i => SubSeq(V2, p + 1, i - 1) = SubSeq(V, p + 1, i - 1)

\* Where the lines are once one has been added.
LEMMA NewSegments ==
  ASSUME NEW V, NEW V2, NEW e, NEW a \in Nat, NEW c \in Nat, Grown(V, V2, a, c, e),
         NEW p \in 0 .. c, NEW i \in 0 .. c, Segment(V2, p, i)
  PROVE  \/ p \in 0 .. a /\ i \in 0 .. a /\ Segment(V, p, i)
         \/ p \in 0 .. a /\ i = c /\ LastMark(V, p)
<1>0. /\ Len(V) = a /\ a < c
      /\ \A j \in 1 .. a : V2[j] = V[j]
      /\ \A j \in a + 1 .. c - 1 : V2[j] # LF
  BY DEF Grown
<1>1. /\ p < i /\ V2[i] = LF /\ (p = 0 \/ V2[p] = LF)
      /\ \A j \in p + 1 .. i - 1 : V2[j] # LF
  BY DEF Segment, Mark, Clean
<1>2. p \in 0 .. a
  BY <1>0, <1>1
<1>3. p = 0 \/ V[p] = LF
  BY <1>0, <1>1, <1>2
<1>4. CASE i <= a
  <2>1. V[i] = LF /\ \A j \in p + 1 .. i - 1 : V[j] # LF
    BY <1>0, <1>1, <1>2, <1>4
  <2> QED
    BY <2>1, <1>1, <1>2, <1>3, <1>4 DEF Segment, Mark, Clean
<1>5. CASE ~(i <= a)
  <2>1. i = c
    BY <1>0, <1>1, <1>5
  <2>2. \A j \in p + 1 .. a : V[j] # LF
    BY <1>0, <1>1, <1>2, <2>1
  <2> QED
    BY <1>0, <1>2, <1>3, <2>1, <2>2 DEF LastMark, Mark, Clean
<1> QED
  BY <1>4, <1>5

\* What a message and its line end behind a stream are made of.
LEMMA Written ==
  ASSUME NEW V \in Text, NEW e \in Text, NEW n \in Nat, Len(e) = n, Clean(e, 1, n),
         NEW a \in Nat, Len(V) = a, NEW c \in Nat, c = a + n + 1,
         NEW V2, V \o (e \o <<LF>>) = V2
  PROVE  V2 \in Text /\ Grown(V, V2, a, c, e)
<1>2. PICK x : e \o <<LF>> = x
  OBVIOUS
<1>4. <<LF>> \in Text /\ Len(<<LF>>) = 1 /\ <<LF>>[1] = LF
  BY DEF Text, Chars
<1>5. /\ x \in Text /\ Len(x) = n + 1
      /\ \A i \in 1 .. n : x[i] = e[i]
      /\ x[n + 1] = LF
  <2>1. /\ e \o <<LF>> \in Text
        /\ Len(e \o <<LF>>) = Len(e) + Len(<<LF>>)
        /\ \A i \in 1 .. Len(e) : (e \o <<LF>>)[i] = e[i]
        /\ \A i \in 1 .. Len(<<LF>>) : (e \o <<LF>>)[Len(e) + i] = <<LF>>[i]
    BY <1>4, Glued
  <2>2. x \in Text /\ Len(x) = n + 1
    BY <2>1, <1>2, <1>4
  <2>3. \A i \in 1 .. n : x[i] = e[i]
    BY <2>1, <1>2
  <2>4. 1 \in 1 .. Len(<<LF>>)
    BY <1>4
  <2>5. x[n + 1] = <<LF>>[1]
    BY <2>1, <2>4, <1>2
  <2> QED
    BY <2>2, <2>3, <2>5, <1>4
<1>6. /\ V2 \in Text /\ Len(V2) = a + (n + 1)
      /\ \A i \in 1 .. a : V2[i] = V[i]
      /\ \A i \in 1 .. n + 1 : V2[a + i] = x[i]
  <2>1. /\ V \o x \in Text
        /\ Len(V \o x) = Len(V) + Len(x)
        /\ \A i \in 1 .. Len(V) : (V \o x)[i] = V[i]
        /\ \A i \in 1 .. Len(x) : (V \o x)[Len(V) + i] = x[i]
    BY <1>5, Glued
  <2> QED
    BY <2>1, <1>2, <1>5
<1>7. Len(V2) = c /\ a < c
  BY <1>6
<1>8. V2[c] = LF
  <2>1. n + 1 \in 1 .. n + 1 /\ c = a + (n + 1)
    OBVIOUS
  <2> QED
    BY <2>1, <1>5, <1>6
<1>9. ASSUME NEW i \in a + 1 .. c - 1 PROVE V2[i] # LF
  <2>1. PICK j : j = i - a
    OBVIOUS
  <2>2. j \in 1 .. n /\ j \in 1 .. n + 1 /\ i = a + j
    BY <2>1
  <2>3. e[j] # LF
    BY <2>2 DEF Clean
  <2> QED
    BY <2>2, <2>3, <1>5, <1>6
<1>10. ASSUME NEW p \in 0 .. a PROVE SubSeq(V2, p + 1, c - 1) = SubSeq(V, p + 1, a) \o e
  <2>1. p + 1 \in Nat \ {0} /\ p + 1 <= a + 1
    OBVIOUS
  <2>2. SubSeq(V \o x, p + 1, Len(V) + n) = SubSeq(V, p + 1, Len(V)) \o SubSeq(x, 1, n)
    <3>1. PICK q : q = p + 1
      OBVIOUS
    <3>2. q \in Nat \ {0} /\ n <= Len(x) /\ q <= Len(V) + 1
      BY <2>1, <3>1, <1>5
    <3>3. SubSeq(V \o x, q, Len(V) + n) = SubSeq(V, q, Len(V)) \o SubSeq(x, 1, n)
      BY <3>2, <1>5, PartAcross, Zenon
    <3> QED
      BY <3>1, <3>3
  <2>3. SubSeq(x, 1, n) = SubSeq(e, 1, n)
    BY <1>2, <1>4, PartOfFirst
  <2>4. SubSeq(e, 1, n) = e
    BY SubSeqFull DEF Text
  <2>5. a + n = c - 1
    OBVIOUS
  <2>6. V \o x = V2
    BY <1>2
  <2> QED
    BY <2>2, <2>3, <2>4, <2>5, <2>6
<1>11. ASSUME NEW p \in 0 .. a, NEW i \in 0 .. a, p < i
       PROVE  SubSeq(V2, p + 1, i - 1) = SubSeq(V, p + 1, i - 1)
  <2>1. p + 1 \in Nat \ {0} /\ i - 1 \in Nat /\ i - 1 <= Len(V) /\ p + 1 <= (i - 1) + 1
    BY <1>11
  <2>2. SubSeq(V \o x, p + 1, i - 1) = SubSeq(V, p + 1, i - 1)
    BY <2>1, <1>5, PartOfFirst
  <2> QED
    BY <2>2, <1>2
<1> QED
  BY <1>6, <1>7, <1>8, <1>9, <1>10, <1>11 DEF Grown

\* write_line begins: the message and its line end follow what was left.
LEMMA StreamSend ==
  ASSUME NEW M, NEW s, NEW n \in Nat, IsLog(s, M, n), NEW m \in M,
         NEW w \in Counts, NEW limit \in Nat, n < limit,
         NEW V, NEW a \in Nat, NEW V2, NEW c \in Nat, Grown(V, V2, a, c, Encode(m)),
         LinesOf(w, V, s), RestOf(w, V, s, limit)
  PROVE  \E w2 \in Counts :
           /\ w2[0] = w[0] /\ w2[c] = n + 1
           /\ LinesOf(w2, V2, Append(s, m)) /\ RestOf(w2, V2, Append(s, m), limit)
           /\ Exact(w, V, s) => Exact(w2, V2, Append(s, m))
<1>0. /\ Len(V) = a /\ Len(V2) = c /\ a < c /\ V2[c] = LF
      /\ \A p \in 0 .. a :
           SubSeq(V2, p + 1, c - 1) = SubSeq(V, p + 1, a) \o Encode(m)
      /\ \A p, i \in 0 .. a :
           p < i => SubSeq(V2, p + 1, i - 1) = SubSeq(V, p + 1, i - 1)
  BY DEF Grown
<1>1. PICK s2 : Append(s, m) = s2
  OBVIOUS
<1>2. Len(s2) = n + 1
  <2>1. Len(Append(s, m)) = Len(s) + 1
    BY AppendProperties DEF IsLog
  <2> QED
    BY <1>1, <2>1 DEF IsLog
<1>3. PICK w2 : [p \in Nat |-> IF p = c THEN n + 1 ELSE w[p]] = w2
  OBVIOUS
<1>4. /\ w2 \in Counts /\ w2[0] = w[0] /\ w2[c] = n + 1
      /\ \A p \in 0 .. a : w2[p] = w[p] /\ w[p] \in Nat
  <2>1. \A p \in 0 .. a : p \in Nat /\ p # c
    BY <1>0
  <2>2. 0 \in 0 .. a
    OBVIOUS
  <2>3. \A p \in Nat : w2[p] = IF p = c THEN n + 1 ELSE w[p]
    BY <1>3
  <2>4. w2 \in Counts
    <3>1. \A p \in Nat : (IF p = c THEN n + 1 ELSE w[p]) \in Nat
      BY DEF Counts
    <3> QED
      BY <3>1, <1>3 DEF Counts
  <2>5. \A p \in Nat : w[p] \in Nat
    BY DEF Counts
  <2> QED
    BY <2>1, <2>2, <2>3, <2>4, <2>5
<1>5. LinesOf(w2, V2, s2)
  <2> SUFFICES ASSUME NEW p \in 0 .. c, NEW i \in 0 .. c, Segment(V2, p, i)
               PROVE  LineOf(SubSeq(V2, p + 1, i - 1), s2, w2[p], w2[i])
    BY <1>0 DEF LinesOf
  <2>1. CASE p \in 0 .. a /\ i \in 0 .. a /\ Segment(V, p, i)
    <3>1. LineOf(SubSeq(V, p + 1, i - 1), s, w[p], w[i])
      BY <2>1, <1>0 DEF LinesOf
    <3>2. SubSeq(V2, p + 1, i - 1) = SubSeq(V, p + 1, i - 1)
      BY <2>1, <1>0 DEF Segment
    <3>3. w2[p] = w[p] /\ w2[i] = w[i] /\ w[p] \in Nat /\ w[i] \in Nat
      BY <2>1, <1>4
    <3>4. LineOf(SubSeq(V, p + 1, i - 1), Append(s, m), w[p], w[i])
      BY <3>1, <3>3, LineStays
    <3> QED
      BY <3>2, <3>3, <3>4, <1>1
  <2>2. CASE p \in 0 .. a /\ i = c /\ LastMark(V, p)
    <3>1. TailOf(SubSeq(V, p + 1, a), s, w[p], limit)
      BY <2>2, <1>0 DEF RestOf
    <3>2. w[p] \in Nat /\ w2[p] = w[p] /\ w2[i] = n + 1
      BY <2>2, <1>4
    <3>3. LineOf(SubSeq(V, p + 1, a) \o Encode(m), Append(s, m), w[p], n + 1)
      BY <3>1, <3>2, LineCompleted
    <3> QED
      BY <2>2, <3>2, <3>3, <1>0, <1>1
  <2>3. \/ p \in 0 .. a /\ i \in 0 .. a /\ Segment(V, p, i)
        \/ p \in 0 .. a /\ i = c /\ LastMark(V, p)
    BY NewSegments
  <2> QED
    BY <2>1, <2>2, <2>3
<1>6. \A p \in 0 .. c : LastMark(V2, p) => p = c
  BY <1>0 DEF LastMark, Clean
<1>7. RestOf(w2, V2, s2, limit)
  <2>1. SubSeq(V2, c + 1, c) = <<>>
    BY SubSeqEmpty
  <2>2. PICK t \in Torn[0] : t.text = <<>> /\ t.of = {}
    BY TornAssumption
  <2>3. TailOf(<<>>, s2, n + 1, limit)
    <3>1. (n + 1) - (n + 1) = 0 /\ n + 1 <= n + 1
      OBVIOUS
    <3> QED
      BY <2>2, <3>1, <1>2 DEF TailOf
  <2> SUFFICES ASSUME NEW p \in 0 .. c, LastMark(V2, p)
               PROVE  TailOf(SubSeq(V2, p + 1, c), s2, w2[p], limit)
    BY <1>0 DEF RestOf
  <2> QED
    BY <2>1, <2>3, <1>4, <1>6
<1>8. Exact(w, V, s) => Exact(w2, V2, s2)
  <2> SUFFICES ASSUME Exact(w, V, s) PROVE Exact(w2, V2, s2)
    OBVIOUS
  <2>1. ASSUME NEW p \in 0 .. c, NEW i \in 0 .. c, Segment(V2, p, i)
        PROVE  w2[i] = w2[p] + 1
    <3>1. CASE p \in 0 .. a /\ i \in 0 .. a /\ Segment(V, p, i)
      <4>1. w[i] = w[p] + 1
        BY <3>1, <1>0 DEF Exact
      <4> QED
        BY <3>1, <4>1, <1>4
    <3>2. CASE p \in 0 .. a /\ i = c /\ LastMark(V, p)
      BY <3>2, <1>0, <1>4 DEF Exact, IsLog
    <3>3. \/ p \in 0 .. a /\ i \in 0 .. a /\ Segment(V, p, i)
          \/ p \in 0 .. a /\ i = c /\ LastMark(V, p)
      BY <2>1, NewSegments
    <3> QED
      BY <3>1, <3>2, <3>3
  <2>2. \A p \in 0 .. c : LastMark(V2, p) => w2[p] = Len(s2)
    BY <1>2, <1>4, <1>6
  <2> QED
    BY <2>1, <2>2, <1>0 DEF Exact
<1> QED
  BY <1>1, <1>4, <1>5, <1>7, <1>8

\* Two ways to cut one text.
Cuts(x, y, t, e, k) == Len(e) = Len(y) + k /\ x \o y = t \o e

\* Before the first cut are t and k characters of e.
LEMMA TwoCuts ==
  ASSUME NEW x \in Text, NEW y \in Text, NEW t \in Text, NEW e \in Text,
         NEW k \in Nat, Cuts(x, y, t, e, k)
  PROVE  x = t \o SubSeq(e, 1, k)
<1>0. Len(e) = Len(y) + k /\ x \o y = t \o e
  BY DEF Cuts
<1>1. Len(x) \in Nat /\ Len(y) \in Nat /\ Len(t) \in Nat /\ Len(e) \in Nat
  BY DEF Text
<1>2. Len(x \o y) = Len(x) + Len(y) /\ Len(t \o e) = Len(t) + Len(e)
  BY Glued
<1>3. Len(x) = Len(t) + k /\ k <= Len(e)
  BY <1>0, <1>1, <1>2
<1>4. SubSeq(x \o y, 1, Len(x)) = SubSeq(x, 1, Len(x))
  <2>1. 1 \in Nat \ {0} /\ 1 <= Len(x) + 1 /\ Len(x) <= Len(x)
    BY <1>1
  <2> QED
    BY <2>1, <1>1, PartOfFirst
<1>5. SubSeq(x, 1, Len(x)) = x /\ SubSeq(t, 1, Len(t)) = t
  BY SubSeqFull DEF Text
<1>6. SubSeq(t \o e, 1, Len(t) + k) = SubSeq(t, 1, Len(t)) \o SubSeq(e, 1, k)
  <2>1. 1 \in Nat \ {0} /\ 1 <= Len(t) + 1
    BY <1>1
  <2> QED
    BY <2>1, <1>3, PartAcross
<1> QED
  BY <1>0, <1>3, <1>4, <1>5, <1>6

\* What a peer may send, and how much of it.
Messages(p) == IF p = "agent" THEN AgentMessages ELSE Commands
Limit(p)    == IF p = "agent" THEN MaxSent ELSE 1

\* Coded messages are texts without a line end.
LEMMA Coded ==
  ASSUME NEW m \in AgentMessages \cup Commands \cup Replies
  PROVE  /\ Encode(m) \in Text /\ Encode(m) # <<>> /\ Len(Encode(m)) \in Nat
         /\ Clean(Encode(m), 1, Len(Encode(m)))
         /\ Decode(Encode(m)).ok /\ Decode(Encode(m)).v = m
<1>1. /\ Encode(m) \in Seq(STRING) /\ Encode(m) # <<>>
      /\ \A i \in DOMAIN Encode(m) : Encode(m)[i] # LF
      /\ Decode(Encode(m)).ok /\ Decode(Encode(m)).v = m
  BY CodingAssumption
<1>2. DOMAIN Encode(m) = 1 .. Len(Encode(m)) /\ Len(Encode(m)) \in Nat
  BY <1>1
<1>3. Encode(m) \in Text
  BY <1>1 DEF Text, Chars
<1> QED
  BY <1>1, <1>2, <1>3 DEF Clean

\* A line whose end is cut off is what one more failed write leaves.
LEMMA TailCut ==
  ASSUME NEW P \in {"agent", "ctl"}, NEW s, NEW n \in Nat, IsLog(s, Messages(P), n), n > 0,
         NEW lo \in Nat, NEW x \in Text, NEW y \in Text,
         NEW k \in Nat, Len(Encode(s[n])) = Len(y) + k,
         LineOf(x \o y, s, lo, n)
  PROVE  TailOf(x, s, lo, Limit(P))
<1>1. Len(s) = n /\ s \in Seq(Messages(P))
  BY DEF IsLog
<1>2. lo < n
  BY DEF LineOf
<1>3. SUFFICES ASSUME n - lo < Limit(P)
               PROVE  \E t \in Torn[n - lo] :
                        x = t.text /\ \A z \in t.of : \E j \in lo + 1 .. n : z = s[j]
  BY <1>1, <1>2 DEF TailOf
<1>4. P = "agent" /\ n - lo < MaxSent
  BY <1>2, <1>3 DEF Limit
<1>5. PICK m : m = s[n]
  OBVIOUS
<1>6. m \in AgentMessages
  <2>1. n \in 1 .. Len(s)
    BY <1>1
  <2> QED
    BY <2>1, <1>1, <1>4, <1>5 DEF Messages
<1>7. PICK t \in Torn[n - lo - 1] :
        /\ x \o y = t.text \o Encode(m)
        /\ \A z \in t.of : \E j \in lo + 1 .. n - 1 : z = s[j]
  BY <1>5 DEF LineOf
<1>8. PICK h : h = n - lo
  OBVIOUS
<1>9. h \in 1 .. MaxSent - 1 /\ h - 1 \in 0 .. MaxSent - 1 /\ t \in Torn[h - 1]
  <2>1. MaxSent \in Nat
    BY WireAssumption
  <2> QED
    BY <2>1, <1>2, <1>4, <1>7, <1>8
<1>10. t.text \in Text
  <2>1. t.text \in Seq(STRING)
    BY <1>6, <1>9, TornAssumption
  <2> QED
    BY <2>1 DEF Text, Chars
<1>11. Encode(m) \in Text
  BY <1>6, Coded
<1>12. x = t.text \o SubSeq(Encode(m), 1, k)
  <2>1. Len(Encode(m)) = Len(y) + k /\ x \o y = t.text \o Encode(m)
    BY <1>5, <1>7
  <2>2. PICK e, f : e = Encode(m) /\ f = t.text
    OBVIOUS
  <2>3. e \in Text /\ f \in Text /\ Cuts(x, y, f, e, k)
    BY <2>1, <2>2, <1>10, <1>11 DEF Cuts
  <2>4. x = f \o SubSeq(e, 1, k)
    BY <2>3, TwoCuts
  <2> QED
    BY <2>2, <2>4
<1>13. k \in 0 .. Len(Encode(m))
  <2>1. Len(y) \in Nat
    BY DEF Text
  <2> QED
    BY <2>1, <1>5
<1>14. PICK u : u = [text |-> t.text \o SubSeq(Encode(m), 1, k), of |-> t.of \cup {m}]
  OBVIOUS
<1>15. u \in Torn[h]
  BY <1>6, <1>9, <1>13, <1>14, TornAssumption
<1>16. u.text = x /\ u.of = t.of \cup {m}
  BY <1>12, <1>14
<1>17. ASSUME NEW z \in u.of PROVE \E j \in lo + 1 .. n : z = s[j]
  <2>1. CASE z = m
    BY <2>1, <1>2, <1>5
  <2>2. CASE z \in t.of
    BY <2>2, <1>7
  <2> QED
    BY <2>1, <2>2, <1>16
<1> QED
  BY <1>8, <1>15, <1>16, <1>17

\* write_line fails, or its process ends: the line end never comes.
LEMMA StreamCut ==
  ASSUME NEW P \in {"agent", "ctl"}, NEW s, NEW n \in Nat, IsLog(s, Messages(P), n), n > 0,
         NEW w \in Counts, NEW U \in Text, NEW V, NEW a \in Nat, NEW c \in Nat,
         NEW r \in Text, Grown(U, V, a, c, r), w[c] = n,
         NEW k \in Nat, Len(Encode(s[n])) = Len(r) + k,
         LinesOf(w, V, s)
  PROVE  LinesOf(w, U, s) /\ RestOf(w, U, s, Limit(P))
<1>0. /\ Len(U) = a /\ Len(V) = c /\ a < c /\ V[c] = LF
      /\ \A j \in 1 .. a : V[j] = U[j]
      /\ \A j \in a + 1 .. c - 1 : V[j] # LF
      /\ \A p \in 0 .. a : SubSeq(V, p + 1, c - 1) = SubSeq(U, p + 1, a) \o r
      /\ \A p, i \in 0 .. a :
           p < i => SubSeq(V, p + 1, i - 1) = SubSeq(U, p + 1, i - 1)
  BY DEF Grown
<1>1. \A p \in 0 .. a : p \in 0 .. c
  BY <1>0
<1>2. \A p \in 0 .. a : Mark(U, p) => Mark(V, p)
  BY <1>0 DEF Mark
<1>3. LinesOf(w, U, s)
  <2> SUFFICES ASSUME NEW p \in 0 .. a, NEW i \in 0 .. a, Segment(U, p, i)
               PROVE  LineOf(SubSeq(U, p + 1, i - 1), s, w[p], w[i])
    BY <1>0 DEF LinesOf
  <2>1. p < i /\ Mark(U, p) /\ U[i] = LF /\ \A j \in p + 1 .. i - 1 : U[j] # LF
    BY DEF Segment, Clean
  <2>2. V[i] = LF /\ \A j \in p + 1 .. i - 1 : V[j] # LF
    BY <2>1, <1>0
  <2>3. Segment(V, p, i)
    BY <2>1, <2>2, <1>2 DEF Segment, Clean
  <2>4. LineOf(SubSeq(V, p + 1, i - 1), s, w[p], w[i])
    BY <2>3, <1>0, <1>1 DEF LinesOf
  <2> QED
    BY <2>1, <2>4, <1>0
<1>4. RestOf(w, U, s, Limit(P))
  <2> SUFFICES ASSUME NEW p \in 0 .. a, LastMark(U, p)
               PROVE  TailOf(SubSeq(U, p + 1, a), s, w[p], Limit(P))
    BY <1>0 DEF RestOf
  <2>1. Mark(U, p) /\ \A j \in p + 1 .. a : U[j] # LF
    BY <1>0 DEF LastMark, Clean
  <2>2. p < c /\ c \in 0 .. c /\ \A j \in p + 1 .. c - 1 : V[j] # LF
    BY <2>1, <1>0
  <2>3. Segment(V, p, c)
    BY <2>1, <2>2, <1>0, <1>2 DEF Segment, Clean
  <2>4. LineOf(SubSeq(V, p + 1, c - 1), s, w[p], w[c])
    BY <2>2, <2>3, <1>0, <1>1 DEF LinesOf
  <2>5. PICK x : x = SubSeq(U, p + 1, a)
    OBVIOUS
  <2>6. LineOf(x \o r, s, w[p], n)
    BY <2>4, <2>5, <1>0
  <2>7. w[p] \in Nat
    <3>1. p \in Nat
      OBVIOUS
    <3> QED
      BY <3>1 DEF Counts
  <2>8. x \in Text
    <3>1. p + 1 \in Nat \ {0} /\ a <= Len(U) /\ p + 1 <= a + 1
      BY <1>0
    <3> QED
      BY <3>1, <2>5, Part
  <2>9. TailOf(x, s, w[p], Limit(P))
    BY <2>6, <2>7, <2>8, TailCut
  <2> QED
    BY <2>5, <2>9
<1> QED
  BY <1>3, <1>4

\* V2 is V without its first line, which ends at k.
Shifted(V, V2, k, c) ==
  /\ Len(V) = k + c /\ Len(V2) = c /\ V[k] = LF
  /\ \A j \in 1 .. k - 1 : V[j] # LF
  /\ \A j \in 1 .. c : V2[j] = V[j + k]
  /\ \A p, i \in 0 .. c :
       p < i => SubSeq(V2, p + 1, i - 1) = SubSeq(V, (p + k) + 1, (i + k) - 1)
  /\ \A p \in 0 .. c : SubSeq(V2, p + 1, c) = SubSeq(V, p + k + 1, k + c)

\* What is behind the first line is what From leaves.
LEMMA BehindLine ==
  ASSUME NEW V \in Text, NEW k \in Nat \ {0}, NEW c \in Nat, Len(V) = k + c, V[k] = LF,
         \A j \in 1 .. k - 1 : V[j] # LF,
         NEW V2, SubSeq(V, k + 1, k + c) = V2
  PROVE  V2 \in Text /\ Shifted(V, V2, k, c)
<1>1. PICK e : e = k + 1
  OBVIOUS
<1>2. PICK f : f = k + c
  OBVIOUS
<1>3. e \in Nat \ {0} /\ f \in Nat /\ f <= Len(V) /\ e <= f + 1 /\ f - e + 1 = c
  BY <1>1, <1>2
<1>4. /\ SubSeq(V, e, f) \in Text
      /\ Len(SubSeq(V, e, f)) = f - e + 1
      /\ \A j \in 1 .. f - e + 1 : SubSeq(V, e, f)[j] = V[e + j - 1]
  BY <1>3, Part
<1>5. V2 = SubSeq(V, e, f)
  BY <1>1, <1>2
<1>6. V2 \in Text /\ Len(V2) = c
  BY <1>3, <1>4, <1>5
<1>7. ASSUME NEW j \in 1 .. c PROVE V2[j] = V[j + k]
  <2>1. e + j - 1 = j + k
    BY <1>1
  <2> QED
    BY <2>1, <1>3, <1>4, <1>5
<1>8. ASSUME NEW a \in Nat \ {0}, NEW b \in Nat, b <= c, a <= b + 1
      PROVE  SubSeq(V2, a, b) = SubSeq(V, a + k, b + k)
  <2>1. b <= f - e + 1
    BY <1>3, <1>8
  <2>2. SubSeq(SubSeq(V, e, f), a, b) = SubSeq(V, e + a - 1, e + b - 1)
    BY <2>1, <1>3, <1>8, PartOfPart
  <2>3. e + a - 1 = a + k /\ e + b - 1 = b + k
    BY <1>1
  <2> QED
    BY <2>2, <2>3, <1>5
<1>9. ASSUME NEW p \in 0 .. c, NEW i \in 0 .. c, p < i
      PROVE  SubSeq(V2, p + 1, i - 1) = SubSeq(V, (p + k) + 1, (i + k) - 1)
  <2>1. PICK a, b : a = p + 1 /\ b = i - 1
    OBVIOUS
  <2>2. a \in Nat \ {0} /\ b \in Nat /\ b <= c /\ a <= b + 1
    BY <2>1, <1>9
  <2>3. a + k = p + k + 1 /\ b + k = i + k - 1
    BY <2>1
  <2>4. SubSeq(V2, a, b) = SubSeq(V, a + k, b + k)
    BY <2>2, <1>8
  <2> QED
    BY <2>1, <2>3, <2>4
<1>10. ASSUME NEW p \in 0 .. c PROVE SubSeq(V2, p + 1, c) = SubSeq(V, p + k + 1, k + c)
  <2>1. PICK a : a = p + 1
    OBVIOUS
  <2>2. a \in Nat \ {0} /\ c <= c /\ a <= c + 1
    BY <2>1
  <2>3. a + k = p + k + 1 /\ c + k = k + c
    BY <2>1
  <2>4. SubSeq(V2, a, c) = SubSeq(V, a + k, c + k)
    BY <2>2, <1>8
  <2> QED
    BY <2>1, <2>3, <2>4
<1> QED
  BY <1>6, <1>7, <1>9, <1>10 DEF Shifted

\* feed() takes the first line out of the buffer.
LEMMA StreamShift ==
  ASSUME NEW s, NEW limit, NEW w \in Counts, NEW V, NEW V2,
         NEW k \in Nat \ {0}, NEW c \in Nat, Shifted(V, V2, k, c),
         LinesOf(w, V, s), RestOf(w, V, s, limit)
  PROVE  /\ LineOf(SubSeq(V, 1, k - 1), s, w[0], w[k])
         /\ Exact(w, V, s) => w[k] = w[0] + 1
         /\ \E w2 \in Counts :
              /\ w2[0] = w[k] /\ w2[c] = w[k + c]
              /\ LinesOf(w2, V2, s) /\ RestOf(w2, V2, s, limit)
              /\ Exact(w, V, s) => Exact(w2, V2, s)
<1>0. /\ Len(V) = k + c /\ Len(V2) = c /\ V[k] = LF
      /\ \A j \in 1 .. k - 1 : V[j] # LF
      /\ \A j \in 1 .. c : V2[j] = V[j + k]
      /\ \A p, i \in 0 .. c :
           p < i => SubSeq(V2, p + 1, i - 1) = SubSeq(V, (p + k) + 1, (i + k) - 1)
      /\ \A p \in 0 .. c : SubSeq(V2, p + 1, c) = SubSeq(V, p + k + 1, k + c)
  BY DEF Shifted
<1>1. 0 \in 0 .. k + c /\ k \in 0 .. k + c /\ 0 < k /\ 0 + 1 = 1
  OBVIOUS
<1>2. Segment(V, 0, k)
  BY <1>0, <1>1 DEF Segment, Mark, Clean
<1>3. LineOf(SubSeq(V, 1, k - 1), s, w[0], w[k])
  <2>1. LineOf(SubSeq(V, 0 + 1, k - 1), s, w[0], w[k])
    BY <1>0, <1>1, <1>2 DEF LinesOf
  <2> QED
    BY <2>1, <1>1
<1>4. Exact(w, V, s) => w[k] = w[0] + 1
  BY <1>0, <1>1, <1>2 DEF Exact
<1>5. PICK w2 : [p \in Nat |-> w[p + k]] = w2
  OBVIOUS
<1>6. /\ w2 \in Counts /\ w2[0] = w[k] /\ w2[c] = w[k + c]
      /\ \A p \in 0 .. c : w2[p] = w[p + k] /\ p + k \in 0 .. k + c
  <2>1. \A p \in Nat : w2[p] = w[p + k]
    BY <1>5
  <2>2. \A p \in Nat : w[p + k] \in Nat
    BY DEF Counts
  <2>3. w2 \in Counts
    BY <1>5, <2>2 DEF Counts
  <2>4. 0 + k = k /\ c + k = k + c /\ \A p \in 0 .. c : p \in Nat /\ p + k \in 0 .. k + c
    OBVIOUS
  <2> QED
    BY <2>1, <2>3, <2>4
<1>7. ASSUME NEW p \in 0 .. c, Mark(V2, p) PROVE Mark(V, p + k)
  <2>1. CASE p = 0
    <3>1. p + k = k
      BY <2>1
    <3> QED
      BY <3>1, <1>0 DEF Mark
  <2>2. CASE p # 0
    <3>1. p \in 1 .. c
      BY <2>2
    <3> QED
      BY <2>2, <3>1, <1>0, <1>7 DEF Mark
  <2> QED
    BY <2>1, <2>2
<1>8. ASSUME NEW a \in Nat \ {0}, NEW b \in Nat, b <= c, Clean(V2, a, b)
      PROVE  \A j \in a + k .. b + k : V[j] # LF
  <2> SUFFICES ASSUME NEW j \in a + k .. b + k PROVE V[j] # LF
    OBVIOUS
  <2>1. PICK h : h = j - k
    OBVIOUS
  <2>2. h \in a .. b /\ h \in 1 .. c /\ h + k = j
    BY <2>1, <1>8
  <2>3. V2[h] # LF
    BY <2>2, <1>8 DEF Clean
  <2> QED
    BY <2>2, <2>3, <1>0
<1>9. ASSUME NEW p \in 0 .. c, NEW i \in 0 .. c, Segment(V2, p, i)
      PROVE  Segment(V, p + k, i + k)
  <2>1. p < i /\ Mark(V2, p) /\ V2[i] = LF /\ Clean(V2, p + 1, i - 1)
    BY <1>9 DEF Segment
  <2>2. p + 1 \in Nat \ {0} /\ i - 1 \in Nat /\ i - 1 <= c /\ i \in 1 .. c
    BY <2>1
  <2>3. \A j \in (p + 1) + k .. (i - 1) + k : V[j] # LF
    BY <2>1, <2>2, <1>8
  <2>4. (p + 1) + k = (p + k) + 1 /\ (i - 1) + k = (i + k) - 1 /\ p + k < i + k
    BY <2>1
  <2>5. V[i + k] = LF
    BY <2>1, <2>2, <1>0
  <2> QED
    BY <2>1, <2>3, <2>4, <2>5, <1>7 DEF Segment, Clean
<1>10. ASSUME NEW p \in 0 .. c, LastMark(V2, p) PROVE LastMark(V, p + k)
  <2>1. Mark(V2, p) /\ Clean(V2, p + 1, c)
    BY <1>0, <1>10 DEF LastMark
  <2>2. p + 1 \in Nat \ {0} /\ c <= c /\ (p + 1) + k = (p + k) + 1 /\ c + k = k + c
    OBVIOUS
  <2>3. \A j \in (p + 1) + k .. c + k : V[j] # LF
    BY <2>1, <2>2, <1>8
  <2> QED
    BY <2>1, <2>2, <2>3, <1>0, <1>7 DEF LastMark, Clean
<1>11. LinesOf(w2, V2, s)
  <2> SUFFICES ASSUME NEW p \in 0 .. c, NEW i \in 0 .. c, Segment(V2, p, i)
               PROVE  LineOf(SubSeq(V2, p + 1, i - 1), s, w2[p], w2[i])
    BY <1>0 DEF LinesOf
  <2>1. LineOf(SubSeq(V, (p + k) + 1, (i + k) - 1), s, w[p + k], w[i + k])
    BY <1>0, <1>6, <1>9 DEF LinesOf
  <2>2. p < i
    BY DEF Segment
  <2>3. SubSeq(V2, p + 1, i - 1) = SubSeq(V, (p + k) + 1, (i + k) - 1)
    <3>1. \A q, j \in 0 .. c :
            q < j => SubSeq(V2, q + 1, j - 1) = SubSeq(V, (q + k) + 1, (j + k) - 1)
      BY DEF Shifted
    <3>2. \A j \in 0 .. c :
            p < j => SubSeq(V2, p + 1, j - 1) = SubSeq(V, (p + k) + 1, (j + k) - 1)
      BY <3>1
    <3> QED
      BY <3>2, <2>2
  <2>4. w2[p] = w[p + k] /\ w2[i] = w[i + k]
    BY <1>6
  <2> QED
    BY <2>1, <2>3, <2>4
<1>12. RestOf(w2, V2, s, limit)
  <2> SUFFICES ASSUME NEW p \in 0 .. c, LastMark(V2, p)
               PROVE  TailOf(SubSeq(V2, p + 1, c), s, w2[p], limit)
    BY <1>0 DEF RestOf
  <2>1. TailOf(SubSeq(V, (p + k) + 1, k + c), s, w[p + k], limit)
    BY <1>0, <1>6, <1>10 DEF RestOf
  <2> QED
    BY <2>1, <1>0, <1>6
<1>13. Exact(w, V, s) => Exact(w2, V2, s)
  <2> SUFFICES ASSUME Exact(w, V, s) PROVE Exact(w2, V2, s)
    OBVIOUS
  <2>1. ASSUME NEW p \in 0 .. c, NEW i \in 0 .. c, Segment(V2, p, i)
        PROVE  w2[i] = w2[p] + 1
    <3>1. w[i + k] = w[p + k] + 1
      BY <2>1, <1>0, <1>6, <1>9 DEF Exact
    <3> QED
      BY <3>1, <1>6
  <2>2. ASSUME NEW p \in 0 .. c, LastMark(V2, p) PROVE w2[p] = Len(s)
    <3>1. w[p + k] = Len(s)
      BY <2>2, <1>0, <1>6, <1>10 DEF Exact
    <3> QED
      BY <3>1, <1>6
  <2> QED
    BY <2>1, <2>2, <1>0 DEF Exact
<1> QED
  BY <1>3, <1>4, <1>6, <1>11, <1>12, <1>13

-----------------------------------------------------------------------------
(* The daemon's side of the stream.  at[i] tells which message the i-th    *)
(* one decoded was, and v[i] how many messages begin before the end of the *)
(* i-th line that waits for handle_client.                                 *)

Gotten(at, b, g, s) ==
  /\ \A i \in 1 .. Len(g) : at[i] \in 1 .. Len(s) /\ at[i] <= b /\ g[i] = s[at[i]]
  /\ \A i, j \in 1 .. Len(g) : i < j => at[i] < at[j]

Taken(v, ls, s) == \A i \in 1 .. Len(ls) : LineOf(ls[i], s, v[i - 1], v[i])

Whole(at, v, g, ls) ==
  /\ Len(g) = v[0] /\ \A i \in 1 .. Len(g) : at[i] = i
  /\ \A i \in 1 .. Len(ls) : v[i] = v[i - 1] + 1

\* Nothing is lost as long as no write has failed.
LEMMA NoTear ==
  ASSUME NEW text, NEW s, NEW lo \in Nat, NEW hi \in Nat, hi = lo + 1,
         s[hi] \in AgentMessages \cup Commands, LineOf(text, s, lo, hi)
  PROVE  text # <<>> /\ Decode(text).ok /\ Decode(text).v = s[hi]
<1>1. PICK t \in Torn[hi - lo - 1] : text = t.text \o Encode(s[hi])
  BY DEF LineOf
<1>2. hi - lo - 1 = 0
  OBVIOUS
<1>3. t.text = <<>>
  BY <1>1, <1>2, TornAssumption
<1>4. /\ Encode(s[hi]) \in Text /\ Encode(s[hi]) # <<>>
      /\ Decode(Encode(s[hi])).ok /\ Decode(Encode(s[hi])).v = s[hi]
  BY Coded
<1>5. <<>> \o Encode(s[hi]) = Encode(s[hi])
  BY <1>4, ConcatEmptySeq DEF Text
<1> QED
  BY <1>1, <1>3, <1>4, <1>5

\* A line that can be decoded is one of the messages it begins with or ends
\* with, none of them handled before.
LEMMA LineDecoded ==
  ASSUME NEW P \in {"agent", "ctl"}, NEW s, NEW n \in Nat, IsLog(s, Messages(P), n),
         n <= Limit(P), NEW text, NEW lo \in Nat, NEW hi \in Nat,
         LineOf(text, s, lo, hi), Decode(text).ok
  PROVE  \E j \in lo + 1 .. hi : j \in 1 .. n /\ Decode(text).v = s[j]
<1>1. lo < hi /\ hi <= n
  BY DEF LineOf, IsLog
<1>2. s[hi] \in Messages(P)
  <2>1. s \in Seq(Messages(P)) /\ Len(s) = n
    BY DEF IsLog
  <2>2. hi \in 1 .. Len(s)
    BY <1>1, <2>1
  <2> QED
    BY <2>1, <2>2
<1>3. hi \in lo + 1 .. hi /\ hi \in 1 .. n
  BY <1>1
<1>4. CASE P = "ctl"
  <2>1. hi = lo + 1
    BY <1>1, <1>4 DEF Limit
  <2>2. s[hi] \in AgentMessages \cup Commands
    BY <1>2, <1>4 DEF Messages
  <2>3. Decode(text).v = s[hi]
    BY <2>1, <2>2, NoTear
  <2> QED
    BY <2>3, <1>3
<1>5. CASE P = "agent"
  <2>1. PICK t \in Torn[hi - lo - 1] :
          /\ text = t.text \o Encode(s[hi])
          /\ \A x \in t.of : \E j \in lo + 1 .. hi - 1 : x = s[j]
    BY DEF LineOf
  <2>2. hi - lo - 1 \in 0 .. MaxSent - 1
    <3>1. MaxSent \in Nat /\ n <= MaxSent
      BY <1>5, WireAssumption DEF Limit
    <3> QED
      BY <3>1, <1>1
  <2>3. s[hi] \in AgentMessages
    BY <1>2, <1>5 DEF Messages
  <2>4. Decode(t.text \o Encode(s[hi])).v \in t.of \cup {s[hi]}
    BY <2>1, <2>2, <2>3, TornAssumption
  <2>5. CASE Decode(text).v = s[hi]
    BY <2>5, <1>3
  <2>6. CASE Decode(text).v \in t.of
    <3>1. PICK j \in lo + 1 .. hi - 1 : Decode(text).v = s[j]
      BY <2>1, <2>6
    <3>2. j \in lo + 1 .. hi /\ j \in 1 .. n
      BY <1>1, <3>1
    <3> QED
      BY <3>1, <3>2
  <2> QED
    BY <2>1, <2>4, <2>5, <2>6
<1> QED
  BY <1>4, <1>5

\* The state of one direction: P is the peer, g what was decoded, ls the
\* lines that wait, V the bytes behind them, td what write_line has still to
\* write, s what was sent, and ex tells if nothing may be missing.
Pending(w, V, td, s) ==
  td # <<>> =>
    /\ Len(s) > 0 /\ w[Len(V)] = Len(s)
    /\ \E r \in Text, k \in Nat :
         td = r \o <<LF>> /\ Clean(r, 1, Len(r)) /\ Len(Encode(s[Len(s)])) = Len(r) + k

Up(at, v, w, P, g, ls, V, td, s, ex) ==
  /\ at \in Counts /\ v \in Counts /\ w \in Counts
  /\ IsLog(s, Messages(P), Len(s)) /\ Len(s) <= Limit(P)
  /\ Gotten(at, v[0], g, s) /\ Taken(v, ls, s) /\ v[Len(ls)] = w[0]
  /\ LinesOf(w, V, s) /\ RestOf(w, V, s, Limit(P)) /\ Pending(w, V, td, s)
  /\ ex => Whole(at, v, g, ls) /\ Exact(w, V, s)

\* The stream of a new connection, and of one that has been forgotten.
LEMMA EmptyStream ==
  ASSUME NEW s, NEW n \in Nat, Len(s) = n, NEW w \in Counts, w[0] = n, NEW limit
  PROVE  LinesOf(w, <<>>, s) /\ RestOf(w, <<>>, s, limit) /\ Exact(w, <<>>, s)
<1>1. Len(<<>>) = 0
  OBVIOUS
<1>2. \A p, i \in 0 .. 0 : ~(p < i)
  OBVIOUS
<1>3. LinesOf(w, <<>>, s)
  BY <1>1, <1>2 DEF LinesOf, Segment
<1>4. Exact(w, <<>>, s)
  BY <1>1, <1>2 DEF Exact, Segment
<1>5. SubSeq(<<>>, 0 + 1, 0) = <<>>
  BY SubSeqEmpty
<1>6. PICK t \in Torn[0] : t.text = <<>> /\ t.of = {}
  BY TornAssumption
<1>7. n - n = 0 /\ n <= n
  OBVIOUS
<1>8. TailOf(<<>>, s, n, limit)
  BY <1>6, <1>7 DEF TailOf
<1>9. RestOf(w, <<>>, s, limit)
  <2> SUFFICES ASSUME NEW p \in 0 .. Len(<<>>)
               PROVE  TailOf(SubSeq(<<>>, p + 1, Len(<<>>)), s, w[p], limit)
    BY DEF RestOf
  <2>1. p = 0
    BY <1>1
  <2>2. SubSeq(<<>>, p + 1, Len(<<>>)) = <<>>
    BY <2>1, <1>1, <1>5
  <2>3. w[p] = n
    BY <2>1
  <2> QED
    BY <2>2, <2>3, <1>8
<1> QED
  BY <1>3, <1>4, <1>9

\* accept(): nothing has been sent.
LEMMA UpNew ==
  ASSUME NEW P \in {"agent", "ctl"}
  PROVE  \E at, v, w : Up(at, v, w, P, <<>>, <<>>, <<>>, <<>>, <<>>, TRUE)
<1>1. PICK z : z = [i \in Nat |-> 0]
  OBVIOUS
<1>2. z \in Counts /\ z[0] = 0
  BY <1>1 DEF Counts
<1>3. Len(<<>>) = 0 /\ <<>> \in Seq(Messages(P)) /\ 1 .. 0 = {}
  OBVIOUS
<1>4. 0 <= Limit(P)
  BY WireAssumption DEF Limit
<1>5. IsLog(<<>>, Messages(P), Len(<<>>)) /\ Len(<<>>) <= Limit(P)
  BY <1>3, <1>4 DEF IsLog
<1>6. Gotten(z, z[0], <<>>, <<>>) /\ Taken(z, <<>>, <<>>) /\ Whole(z, z, <<>>, <<>>)
  BY <1>2, <1>3 DEF Gotten, Taken, Whole
<1>7. LinesOf(z, <<>>, <<>>) /\ RestOf(z, <<>>, <<>>, Limit(P)) /\ Exact(z, <<>>, <<>>)
  BY <1>2, <1>3, EmptyStream
<1>8. Pending(z, <<>>, <<>>, <<>>)
  BY DEF Pending
<1>9. Up(z, z, z, P, <<>>, <<>>, <<>>, <<>>, <<>>, TRUE)
  BY <1>2, <1>3, <1>5, <1>6, <1>7, <1>8 DEF Up
<1> QED
  BY <1>9

\* The end of the stream: what has been read is dropped.
LEMMA UpForget ==
  ASSUME NEW at, NEW v, NEW w, NEW P, NEW g, NEW ls, NEW V, NEW td, NEW s, NEW ex,
         Up(at, v, w, P, g, ls, V, td, s, ex)
  PROVE  \E v2, w2 : Up(at, v2, w2, P, g, <<>>, <<>>, <<>>, s, FALSE)
<1>1. PICK n : Len(s) = n
  OBVIOUS
<1>2. n \in Nat
  BY <1>1 DEF Up, IsLog
<1>3. PICK z : z = [i \in Nat |-> n]
  OBVIOUS
<1>4. z \in Counts /\ z[0] = n
  BY <1>2, <1>3 DEF Counts
<1>5. Len(<<>>) = 0 /\ 1 .. 0 = {}
  OBVIOUS
<1>6. Gotten(at, v[0], g, s)
  BY DEF Up
<1>7. Gotten(at, z[0], g, s)
  BY <1>1, <1>2, <1>4, <1>6 DEF Gotten
<1>8. Taken(z, <<>>, s)
  BY <1>5 DEF Taken
<1>9. LinesOf(z, <<>>, s) /\ RestOf(z, <<>>, s, Limit(P))
  BY <1>1, <1>2, <1>4, EmptyStream
<1>10. Pending(z, <<>>, <<>>, s)
  BY DEF Pending
<1>11. Up(at, z, z, P, g, <<>>, <<>>, <<>>, s, FALSE)
  BY <1>4, <1>5, <1>7, <1>8, <1>9, <1>10 DEF Up
<1> QED
  BY <1>11

\* write_line begins.
LEMMA UpSend ==
  ASSUME NEW P \in {"agent", "ctl"}, NEW at, NEW v, NEW w, NEW g, NEW ls,
         NEW L \in Nat, Len(ls) = L,
         NEW V \in Text, NEW s, NEW ex, Up(at, v, w, P, g, ls, V, <<>>, s, ex),
         NEW m \in Messages(P), Len(s) < Limit(P)
  PROVE  \E w2 : Up(at, v, w2, P, g, ls, V \o (Encode(m) \o <<LF>>),
                    Encode(m) \o <<LF>>, Append(s, m), ex)
<1>1. PICK n \in Nat : Len(s) = n
  BY DEF Up, IsLog
<1>2. IsLog(s, Messages(P), n) /\ w \in Counts /\ v \in Counts
  BY <1>1 DEF Up
<1>3. PICK e : e = Encode(m)
  OBVIOUS
<1>4. PICK V2 : V \o (e \o <<LF>>) = V2
  OBVIOUS
<1>5. /\ e \in Text /\ Len(e) \in Nat /\ Clean(e, 1, Len(e))
  <2>1. m \in AgentMessages \cup Commands \cup Replies
    BY DEF Messages
  <2> QED
    BY <2>1, <1>3, Coded
<1>6. PICK a, b, c : Len(V) = a /\ Len(e) = b /\ c = a + b + 1
  OBVIOUS
<1>7. a \in Nat /\ b \in Nat /\ c \in Nat
  <2>1. a \in Nat
    BY <1>6 DEF Text
  <2> QED
    BY <2>1, <1>5, <1>6
<1>8. V2 \in Text /\ Grown(V, V2, a, c, e)
  BY <1>4, <1>5, <1>6, <1>7, Written
<1>9. Len(V2) = c
  BY <1>8 DEF Grown
<1>10. Limit(P) \in Nat
  BY WireAssumption DEF Limit
<1>11. n < Limit(P) /\ Grown(V, V2, a, c, Encode(m))
  BY <1>1, <1>3, <1>8
<1>12. LinesOf(w, V, s) /\ RestOf(w, V, s, Limit(P))
  BY DEF Up
<1>13. PICK w2 \in Counts :
         /\ w2[0] = w[0] /\ w2[c] = n + 1
         /\ LinesOf(w2, V2, Append(s, m)) /\ RestOf(w2, V2, Append(s, m), Limit(P))
         /\ Exact(w, V, s) => Exact(w2, V2, Append(s, m))
  BY <1>2, <1>7, <1>10, <1>11, <1>12, StreamSend
<1>14. PICK s2 : Append(s, m) = s2
  OBVIOUS
<1>15. /\ s2 \in Seq(Messages(P)) /\ Len(s2) = n + 1 /\ s2[n + 1] = m
       /\ \A j \in 1 .. n : s2[j] = s[j]
  <2>1. s \in Seq(Messages(P)) /\ Len(s) = n
    BY <1>2 DEF IsLog
  <2>2. /\ Append(s, m) \in Seq(Messages(P)) /\ Len(Append(s, m)) = Len(s) + 1
        /\ \A j \in 1 .. Len(s) : Append(s, m)[j] = s[j]
        /\ Append(s, m)[Len(s) + 1] = m
    BY <2>1, AppendProperties
  <2> QED
    BY <2>1, <2>2, <1>14
<1>16. IsLog(s2, Messages(P), Len(s2)) /\ Len(s2) <= Limit(P)
  <2>1. n + 1 \in Nat /\ n + 1 <= Limit(P)
    BY <1>10, <1>11
  <2> QED
    BY <2>1, <1>15 DEF IsLog
<1>17. Gotten(at, v[0], g, s2)
  <2>1. Gotten(at, v[0], g, s)
    BY DEF Up
  <2>2. \A j \in 1 .. n : j \in 1 .. n + 1
    OBVIOUS
  <2> QED
    BY <2>1, <2>2, <1>1, <1>15 DEF Gotten
<1>18. Taken(v, ls, s2)
  <2> SUFFICES ASSUME NEW i \in 1 .. L PROVE LineOf(ls[i], s2, v[i - 1], v[i])
    BY DEF Taken
  <2>1. LineOf(ls[i], s, v[i - 1], v[i])
    BY DEF Up, Taken
  <2>2. v[i - 1] \in Nat /\ v[i] \in Nat
    <3>1. i \in Nat /\ i - 1 \in Nat
      OBVIOUS
    <3> QED
      BY <3>1, <1>2 DEF Counts
  <2> QED
    BY <2>1, <2>2, <1>2, <1>14, LineStays
<1>19. Pending(w2, V2, e \o <<LF>>, s2)
  <2>1. Len(s2) > 0 /\ w2[Len(V2)] = Len(s2)
    BY <1>9, <1>13, <1>15
  <2>2. Len(Encode(s2[Len(s2)])) = Len(e) + 0
    BY <1>3, <1>5, <1>15
  <2>3. 0 \in Nat
    OBVIOUS
  <2> QED
    BY <2>1, <2>2, <2>3, <1>5 DEF Pending
<1>20. ex => Whole(at, v, g, ls) /\ Exact(w2, V2, s2)
  BY <1>13, <1>14 DEF Up
<1>21. at \in Counts /\ v[Len(ls)] = w2[0]
  BY <1>13 DEF Up
<1>22. Up(at, v, w2, P, g, ls, V2, e \o <<LF>>, s2, ex)
  BY <1>2, <1>13, <1>14, <1>16, <1>17, <1>18, <1>19, <1>20, <1>21 DEF Up
<1> QED
  BY <1>3, <1>4, <1>14, <1>22

\* write() takes the first bytes.
LEMMA UpWrite ==
  ASSUME NEW at, NEW v, NEW w, NEW P, NEW g, NEW ls, NEW V, NEW td, NEW s, NEW ex,
         Up(at, v, w, P, g, ls, V, td, s, ex),
         NEW n \in Nat, td # <<>>, n <= Len(td)
  PROVE  Up(at, v, w, P, g, ls, V, From(td, n + 1), s, ex)
<1>1. PICK r \in Text, k \in Nat :
        td = r \o <<LF>> /\ Clean(r, 1, Len(r)) /\ Len(Encode(s[Len(s)])) = Len(r) + k
  BY DEF Up, Pending
<1>2. Len(s) > 0 /\ w[Len(V)] = Len(s)
  BY DEF Up, Pending
<1>3. Len(r) \in Nat
  BY <1>1 DEF Text
<1>4. <<LF>> \in Text /\ Len(<<LF>>) = 1
  BY DEF Text, Chars
<1>5. td \in Text /\ Len(td) = Len(r) + 1
  BY <1>1, <1>4, Glued
<1>6. CASE n = Len(r) + 1
  <2>1. Len(td) < n + 1
    BY <1>3, <1>5, <1>6
  <2>2. From(td, n + 1) = <<>>
    <3>1. Len(td) \in Int /\ n + 1 \in Int
      BY <1>3, <1>5
    <3> QED
      BY <2>1, <3>1, SubSeqEmpty DEF From
  <2> QED
    BY <2>2 DEF Up, Pending
<1>7. CASE n <= Len(r)
  <2>1. PICK q : q = SubSeq(r, n + 1, Len(r))
    OBVIOUS
  <2>2. PICK a : a = n + 1
    OBVIOUS
  <2>3. a \in Nat \ {0} /\ a <= Len(r) + 1 /\ Len(r) <= Len(r)
    BY <2>2, <1>3, <1>7
  <2>4. /\ SubSeq(r, a, Len(r)) \in Text
        /\ Len(SubSeq(r, a, Len(r))) = Len(r) - a + 1
        /\ \A i \in 1 .. Len(r) - a + 1 : SubSeq(r, a, Len(r))[i] = r[a + i - 1]
    BY <2>3, <1>1, <1>3, Part
  <2>5. q \in Text /\ Len(q) = Len(r) - n
    BY <2>1, <2>2, <2>4, <1>3
  <2>6. Clean(q, 1, Len(q))
    <3> SUFFICES ASSUME NEW i \in 1 .. Len(r) - n PROVE q[i] # LF
      BY <2>5 DEF Clean
    <3>1. i \in 1 .. Len(r) - a + 1 /\ a + i - 1 \in 1 .. Len(r)
      BY <2>2, <1>3
    <3> QED
      BY <3>1, <2>1, <2>2, <2>4, <1>1 DEF Clean
  <2>7. From(td, n + 1) = q \o <<LF>>
    <3>1. SubSeq(r \o <<LF>>, a, Len(r) + 1) = SubSeq(r, a, Len(r)) \o SubSeq(<<LF>>, 1, 1)
      <4>1. 1 \in Nat /\ 1 <= Len(<<LF>>)
        BY <1>4
      <4> QED
        BY <4>1, <2>3, <1>1, <1>4, PartAcross
    <3>2. SubSeq(<<LF>>, 1, 1) = <<LF>>
      <4>1. SubSeq(<<LF>>, 1, Len(<<LF>>)) = <<LF>>
        BY <1>4, SubSeqFull DEF Text
      <4> QED
        BY <4>1, <1>4
    <3> QED
      BY <3>1, <3>2, <2>1, <2>2, <1>1, <1>5 DEF From
  <2>8. k + n \in Nat /\ Len(Encode(s[Len(s)])) = Len(q) + (k + n)
    BY <2>5, <1>1, <1>3
  <2>9. Pending(w, V, From(td, n + 1), s)
    BY <2>5, <2>6, <2>7, <2>8, <1>2 DEF Pending
  <2> QED
    BY <2>9 DEF Up
<1> QED
  BY <1>3, <1>5, <1>6, <1>7

\* write_line fails, or its process ends.
LEMMA UpCut ==
  ASSUME NEW P \in {"agent", "ctl"}, NEW at, NEW v, NEW w, NEW g, NEW ls, NEW U \in Text,
         NEW td, NEW s, NEW ex, Up(at, v, w, P, g, ls, U \o td, td, s, ex)
  PROVE  Up(at, v, w, P, g, ls, U, <<>>, s, FALSE)
<1>1. Pending(w, U, <<>>, s)
  BY DEF Pending
<1>2. CASE td = <<>>
  <2>1. U \o td = U
    BY <1>2, ConcatEmptySeq DEF Text
  <2> QED
    BY <2>1, <1>1 DEF Up
<1>3. CASE td # <<>>
  <2>1. PICK r \in Text, k \in Nat :
          td = r \o <<LF>> /\ Clean(r, 1, Len(r)) /\ Len(Encode(s[Len(s)])) = Len(r) + k
    BY <1>3 DEF Up, Pending
  <2>2. PICK n : Len(s) = n
    OBVIOUS
  <2>3. n \in Nat /\ n > 0 /\ IsLog(s, Messages(P), n) /\ w \in Counts
    BY <1>3, <2>2 DEF Up, Pending, IsLog
  <2>4. PICK V : U \o (r \o <<LF>>) = V
    OBVIOUS
  <2>5. PICK a, b, c : Len(U) = a /\ Len(r) = b /\ c = a + b + 1
    OBVIOUS
  <2>6. a \in Nat /\ b \in Nat /\ c \in Nat
    <3>1. a \in Nat /\ b \in Nat
      BY <2>1, <2>5 DEF Text
    <3> QED
      BY <3>1, <2>5
  <2>7. Clean(r, 1, b)
    BY <2>1, <2>5
  <2>8. Grown(U, V, a, c, r)
    BY <2>1, <2>4, <2>5, <2>6, <2>7, Written
  <2>9. Len(V) = c
    BY <2>8 DEF Grown
  <2>10. U \o td = V
    BY <2>1, <2>4
  <2>11. w[c] = n /\ LinesOf(w, V, s)
    BY <1>3, <2>2, <2>9, <2>10 DEF Up, Pending
  <2>12. Len(Encode(s[n])) = Len(r) + k
    BY <2>1, <2>2
  <2>13. LinesOf(w, U, s) /\ RestOf(w, U, s, Limit(P))
    BY <2>1, <2>3, <2>6, <2>8, <2>11, <2>12, StreamCut
  <2> QED
    BY <2>13, <1>1 DEF Up
<1> QED
  BY <1>2, <1>3

\* feed() takes a line out of the buffer.
LEMMA UpExtract ==
  ASSUME NEW at, NEW v, NEW w, NEW P, NEW g, NEW S, NEW ls \in Seq(S), NEW V, NEW td,
         NEW s, NEW ex, Up(at, v, w, P, g, ls, V, td, s, ex),
         NEW V2, NEW k \in Nat \ {0}, NEW c \in Nat, Shifted(V, V2, k, c),
         NEW x \in S, x = SubSeq(V, 1, k - 1)
  PROVE  \E v2, w2 : Up(at, v2, w2, P, g, Append(ls, x), V2, td, s, ex)
<1>1. w \in Counts /\ v \in Counts /\ LinesOf(w, V, s) /\ RestOf(w, V, s, Limit(P))
  BY DEF Up
<1>2. /\ LineOf(x, s, w[0], w[k])
      /\ Exact(w, V, s) => w[k] = w[0] + 1
      /\ \E w2 \in Counts :
              /\ w2[0] = w[k] /\ w2[c] = w[k + c]
              /\ LinesOf(w2, V2, s) /\ RestOf(w2, V2, s, Limit(P))
              /\ Exact(w, V, s) => Exact(w2, V2, s)
  BY <1>1, StreamShift
<1>3. PICK w2 \in Counts :
              /\ w2[0] = w[k] /\ w2[c] = w[k + c]
              /\ LinesOf(w2, V2, s) /\ RestOf(w2, V2, s, Limit(P))
              /\ Exact(w, V, s) => Exact(w2, V2, s)
  BY <1>2
<1>4. PICK L : Len(ls) = L
  OBVIOUS
<1>5. PICK l2 : Append(ls, x) = l2
  OBVIOUS
<1>6. L \in Nat /\ Len(l2) = L + 1 /\ l2[L + 1] = x /\ \A i \in 1 .. L : l2[i] = ls[i]
  <2>1. /\ Len(Append(ls, x)) = Len(ls) + 1
        /\ \A i \in 1 .. Len(ls) : Append(ls, x)[i] = ls[i]
        /\ Append(ls, x)[Len(ls) + 1] = x
    BY AppendProperties
  <2>2. Len(ls) \in Nat
    OBVIOUS
  <2> QED
    BY <2>1, <2>2, <1>4, <1>5
<1>7. PICK v2 : [i \in Nat |-> IF i = L + 1 THEN w[k] ELSE v[i]] = v2
  OBVIOUS
<1>8. v2 \in Counts /\ v2[L + 1] = w[k] /\ \A i \in 0 .. L : v2[i] = v[i]
  <2>1. \A i \in Nat : v2[i] = IF i = L + 1 THEN w[k] ELSE v[i]
    BY <1>7
  <2>2. w[k] \in Nat /\ \A i \in Nat : v[i] \in Nat
    BY <1>1 DEF Counts
  <2>3. \A i \in Nat : (IF i = L + 1 THEN w[k] ELSE v[i]) \in Nat
    BY <2>2
  <2>4. v2 \in Counts
    BY <1>7, <2>3 DEF Counts
  <2>5. L + 1 \in Nat /\ \A i \in 0 .. L : i \in Nat /\ i # L + 1
    BY <1>6
  <2> QED
    BY <2>1, <2>4, <2>5
<1>9. v[L] = w[0] /\ Taken(v, ls, s)
  BY <1>4 DEF Up
<1>10. 0 \in 0 .. L /\ L \in 0 .. L /\ (L + 1) - 1 = L
  BY <1>6
<1>11. Taken(v2, l2, s)
  <2> SUFFICES ASSUME NEW i \in 1 .. L + 1 PROVE LineOf(l2[i], s, v2[i - 1], v2[i])
    BY <1>6 DEF Taken
  <2>1. CASE i = L + 1
    <3>1. i - 1 = L
      BY <2>1, <1>10
    <3>2. v2[i - 1] = w[0] /\ v2[i] = w[k] /\ l2[i] = x
      BY <2>1, <3>1, <1>6, <1>8, <1>9, <1>10
    <3> QED
      BY <3>2, <1>2
  <2>2. CASE i # L + 1
    <3>1. i \in 1 .. L /\ i \in 0 .. L /\ i - 1 \in 0 .. L
      BY <2>2, <1>6
    <3>2. LineOf(ls[i], s, v[i - 1], v[i])
      BY <3>1, <1>4, <1>9 DEF Taken
    <3>3. l2[i] = ls[i] /\ v2[i - 1] = v[i - 1] /\ v2[i] = v[i]
      BY <3>1, <1>6, <1>8
    <3> QED
      BY <3>2, <3>3
  <2> QED
    BY <2>1, <2>2
<1>12. v2[0] = v[0] /\ v2[Len(l2)] = w2[0]
  BY <1>3, <1>6, <1>8, <1>10
<1>13. Pending(w2, V2, td, s)
  <2>1. Len(V) = k + c /\ Len(V2) = c
    BY DEF Shifted
  <2>2. Pending(w, V, td, s)
    BY DEF Up
  <2> QED
    BY <2>1, <2>2, <1>3 DEF Pending
<1>14. ASSUME ex PROVE Whole(at, v2, g, l2) /\ Exact(w2, V2, s)
  <2>1. Whole(at, v, g, ls) /\ Exact(w, V, s)
    BY <1>14 DEF Up
  <2>2. w[k] = w[0] + 1 /\ Exact(w2, V2, s)
    BY <2>1, <1>2, <1>3
  <2>3. Len(g) = v2[0] /\ \A i \in 1 .. Len(g) : at[i] = i
    BY <2>1, <1>12 DEF Whole
  <2>4. ASSUME NEW i \in 1 .. L + 1 PROVE v2[i] = v2[i - 1] + 1
    <3>1. CASE i = L + 1
      <4>1. i - 1 = L
        BY <3>1, <1>10
      <4> QED
        BY <3>1, <4>1, <2>2, <1>8, <1>9, <1>10
    <3>2. CASE i # L + 1
      <4>1. i \in 1 .. L /\ i \in 0 .. L /\ i - 1 \in 0 .. L
        BY <3>2, <1>6
      <4>2. v[i] = v[i - 1] + 1
        BY <4>1, <2>1, <1>4 DEF Whole
      <4> QED
        BY <4>1, <4>2, <1>8
    <3> QED
      BY <3>1, <3>2
  <2> QED
    BY <2>2, <2>3, <2>4, <1>6 DEF Whole
<1>15. Up(at, v2, w2, P, g, l2, V2, td, s, ex)
  BY <1>3, <1>8, <1>11, <1>12, <1>13, <1>14 DEF Up
<1> QED
  BY <1>5, <1>15

\* The lines behind the first.
LEMMA LinesTail ==
  ASSUME NEW v \in Counts, NEW S, NEW ls \in Seq(S), ls # <<>>, NEW s, Taken(v, ls, s)
  PROVE  /\ LineOf(Head(ls), s, v[0], v[1])
         /\ v[0] \in Nat /\ v[1] \in Nat
         /\ \E v2 \in Counts :
              /\ v2[0] = v[1] /\ v2[Len(Tail(ls))] = v[Len(ls)]
              /\ Taken(v2, Tail(ls), s)
              /\ (\A i \in 1 .. Len(ls) : v[i] = v[i - 1] + 1)
                   => /\ v[1] = v[0] + 1
                      /\ \A i \in 1 .. Len(Tail(ls)) : v2[i] = v2[i - 1] + 1
<1>1. PICK L : Len(ls) = L
  OBVIOUS
<1>2. PICK l2 : Tail(ls) = l2
  OBVIOUS
<1>3. /\ L \in Nat \ {0} /\ Len(l2) = L - 1 /\ Head(ls) = ls[1]
      /\ \A i \in 1 .. L - 1 : l2[i] = ls[i + 1]
  <2>1. /\ Len(Tail(ls)) = Len(ls) - 1
        /\ \A i \in 1 .. Len(Tail(ls)) : Tail(ls)[i] = ls[i + 1]
    BY HeadTailProperties
  <2>2. Len(ls) \in Nat \ {0} /\ Head(ls) = ls[1]
    OBVIOUS
  <2> QED
    BY <2>1, <2>2, <1>1, <1>2
<1>4. \A i \in Nat : v[i] \in Nat
  BY DEF Counts
<1>5. LineOf(Head(ls), s, v[0], v[1])
  <2>1. 1 \in 1 .. L /\ 1 - 1 = 0
    BY <1>3
  <2>2. LineOf(ls[1], s, v[1 - 1], v[1])
    BY <2>1, <1>1 DEF Taken
  <2> QED
    BY <2>1, <2>2, <1>3
<1>6. PICK v2 : [i \in Nat |-> v[i + 1]] = v2
  OBVIOUS
<1>7. \A i \in Nat : v2[i] = v[i + 1]
  BY <1>6
<1>8. v2 \in Counts
  <2>1. \A i \in Nat : v[i + 1] \in Nat
    BY <1>4
  <2> QED
    BY <2>1, <1>6 DEF Counts
<1>9. v2[0] = v[1] /\ v2[L - 1] = v[L]
  <2>1. 0 \in Nat /\ 0 + 1 = 1 /\ L - 1 \in Nat /\ (L - 1) + 1 = L
    BY <1>3
  <2> QED
    BY <2>1, <1>7
<1>10. ASSUME NEW i \in 1 .. L - 1
       PROVE  /\ i + 1 \in 1 .. L /\ v2[i] = v[i + 1] /\ v2[i - 1] = v[(i + 1) - 1]
              /\ l2[i] = ls[i + 1]
  <2>1. i \in Nat /\ i - 1 \in Nat /\ i + 1 \in 1 .. L /\ (i - 1) + 1 = (i + 1) - 1
    BY <1>3
  <2> QED
    BY <2>1, <1>3, <1>7
<1>11. Taken(v2, l2, s)
  <2> SUFFICES ASSUME NEW i \in 1 .. L - 1 PROVE LineOf(l2[i], s, v2[i - 1], v2[i])
    BY <1>3 DEF Taken
  <2>1. LineOf(ls[i + 1], s, v[(i + 1) - 1], v[i + 1])
    BY <1>1, <1>10 DEF Taken
  <2> QED
    BY <2>1, <1>10
<1>12. ASSUME \A i \in 1 .. L : v[i] = v[i - 1] + 1
       PROVE  v[1] = v[0] + 1 /\ \A i \in 1 .. L - 1 : v2[i] = v2[i - 1] + 1
  <2>1. 1 \in 1 .. L /\ 1 - 1 = 0
    BY <1>3
  <2>2. v[1] = v[0] + 1
    BY <2>1, <1>12
  <2>3. ASSUME NEW i \in 1 .. L - 1 PROVE v2[i] = v2[i - 1] + 1
    BY <1>10, <1>12
  <2> QED
    BY <2>2, <2>3
<1>13. v[0] \in Nat /\ v[1] \in Nat
  BY <1>4
<1> QED
  BY <1>1, <1>2, <1>3, <1>5, <1>8, <1>9, <1>11, <1>12, <1>13

\* As long as nothing is lost, every line can be decoded.
LEMMA UpReadable ==
  ASSUME NEW P \in {"agent", "ctl"}, NEW at, NEW v, NEW w, NEW g, NEW S, NEW ls \in Seq(S),
         NEW V, NEW td, NEW s, Up(at, v, w, P, g, ls, V, td, s, TRUE), ls # <<>>
  PROVE  Head(ls) # <<>> /\ Decode(Head(ls)).ok
<1>1. v \in Counts /\ Taken(v, ls, s)
  BY DEF Up
<1>2. \A i \in 1 .. Len(ls) : v[i] = v[i - 1] + 1
  BY DEF Up, Whole
<1>3. LineOf(Head(ls), s, v[0], v[1]) /\ v[0] \in Nat /\ v[1] \in Nat /\ v[1] = v[0] + 1
  BY <1>1, <1>2, LinesTail
<1>4. s[v[1]] \in AgentMessages \cup Commands
  <2>1. s \in Seq(Messages(P)) /\ Len(s) \in Nat
    BY DEF Up, IsLog
  <2>2. v[1] <= Len(s)
    BY <1>3 DEF LineOf
  <2>3. v[1] \in 1 .. Len(s)
    BY <2>1, <2>2, <1>3
  <2>4. s[v[1]] \in Messages(P)
    BY <2>1, <2>3
  <2> QED
    BY <2>4 DEF Messages
<1> QED
  BY <1>3, <1>4, NoTear

\* A line that cannot be decoded is dropped.
LEMMA UpSkip ==
  ASSUME NEW at, NEW v, NEW w, NEW P, NEW g, NEW S, NEW ls \in Seq(S),
         NEW V, NEW td, NEW s, NEW ex, Up(at, v, w, P, g, ls, V, td, s, ex), ls # <<>>
  PROVE  \E v2 : Up(at, v2, w, P, g, Tail(ls), V, td, s, FALSE)
<1>1. v \in Counts /\ Taken(v, ls, s) /\ Gotten(at, v[0], g, s) /\ at \in Counts
  BY DEF Up
<1>2. LineOf(Head(ls), s, v[0], v[1]) /\ v[0] \in Nat /\ v[1] \in Nat
  BY <1>1, LinesTail
<1>3. PICK v2 \in Counts : /\ v2[0] = v[1] /\ v2[Len(Tail(ls))] = v[Len(ls)]
                           /\ Taken(v2, Tail(ls), s)
  BY <1>1, LinesTail
<1>4. v[0] < v[1]
  BY <1>2 DEF LineOf
<1>5. Gotten(at, v2[0], g, s)
  <2>1. Len(s) \in Nat
    BY DEF Up, IsLog
  <2>2. ASSUME NEW i \in 1 .. Len(g) PROVE at[i] <= v[1]
    <3>1. at[i] \in 1 .. Len(s) /\ at[i] <= v[0]
      BY <1>1 DEF Gotten
    <3> QED
      BY <3>1, <2>1, <1>2, <1>4
  <2> QED
    BY <2>2, <1>1, <1>3 DEF Gotten
<1>6. v2[Len(Tail(ls))] = w[0]
  BY <1>3 DEF Up
<1>7. Up(at, v2, w, P, g, Tail(ls), V, td, s, FALSE)
  BY <1>3, <1>5, <1>6 DEF Up
<1> QED
  BY <1>7

\* A line is decoded and handled.
LEMMA UpTake ==
  ASSUME NEW P \in {"agent", "ctl"}, NEW at, NEW v, NEW w, NEW g \in Seq(Messages(P)),
         NEW S, NEW ls \in Seq(S), NEW V, NEW td, NEW s, NEW ex,
         Up(at, v, w, P, g, ls, V, td, s, ex), ls # <<>>,
         Decode(Head(ls)).ok
  PROVE  /\ Decode(Head(ls)).v \in Messages(P)
         /\ P = "ctl" => g = <<>>
         /\ \E at2, v2 : Up(at2, v2, w, P, Append(g, Decode(Head(ls)).v), Tail(ls),
                            V, td, s, ex)
<1>1. v \in Counts /\ Taken(v, ls, s) /\ Gotten(at, v[0], g, s) /\ at \in Counts
  BY DEF Up
<1>2. LineOf(Head(ls), s, v[0], v[1]) /\ v[0] \in Nat /\ v[1] \in Nat
  BY <1>1, LinesTail
<1>3. PICK v2 \in Counts : /\ v2[0] = v[1] /\ v2[Len(Tail(ls))] = v[Len(ls)]
                           /\ Taken(v2, Tail(ls), s)
                           /\ (\A i \in 1 .. Len(ls) : v[i] = v[i - 1] + 1)
                                => /\ v[1] = v[0] + 1
                                   /\ \A i \in 1 .. Len(Tail(ls)) : v2[i] = v2[i - 1] + 1
  BY <1>1, LinesTail
<1>4. PICK n : Len(s) = n
  OBVIOUS
<1>5. n \in Nat /\ IsLog(s, Messages(P), n) /\ n <= Limit(P)
  BY <1>4 DEF Up, IsLog
<1>6. v[0] < v[1] /\ v[1] <= n
  BY <1>2, <1>4 DEF LineOf
<1>7. PICK x : x = Decode(Head(ls)).v
  OBVIOUS
<1>8. PICK j \in v[0] + 1 .. v[1] : j \in 1 .. n /\ x = s[j]
  BY <1>2, <1>5, <1>7, LineDecoded
<1>9. x \in Messages(P)
  BY <1>5, <1>8 DEF IsLog
<1>10. PICK G : Len(g) = G
  OBVIOUS
<1>11. PICK g2 : Append(g, x) = g2
  OBVIOUS
<1>12. G \in Nat /\ Len(g2) = G + 1 /\ g2[G + 1] = x /\ \A i \in 1 .. G : g2[i] = g[i]
  <2>1. /\ Len(Append(g, x)) = Len(g) + 1
        /\ \A i \in 1 .. Len(g) : Append(g, x)[i] = g[i]
        /\ Append(g, x)[Len(g) + 1] = x
    BY <1>9, AppendProperties
  <2>2. Len(g) \in Nat
    OBVIOUS
  <2> QED
    BY <2>1, <2>2, <1>10, <1>11
<1>13. /\ \A i \in 1 .. G : at[i] \in 1 .. n /\ at[i] <= v[0] /\ g[i] = s[at[i]]
       /\ \A i, h \in 1 .. G : i < h => at[i] < at[h]
  BY <1>1, <1>4, <1>10 DEF Gotten
<1>14. P = "ctl" => g = <<>>
  <2> SUFFICES ASSUME P = "ctl", G # 0 PROVE FALSE
    BY <1>10, <1>12
  <2>1. v[0] = 0
    BY <1>2, <1>5, <1>6 DEF Limit
  <2>2. 1 \in 1 .. G
    BY <1>12
  <2>3. at[1] \in 1 .. n /\ at[1] <= v[0]
    BY <2>2, <1>13
  <2> QED
    BY <2>1, <2>3, <1>5
<1>15. PICK at2 : [i \in Nat |-> IF i = G + 1 THEN j ELSE at[i]] = at2
  OBVIOUS
<1>16. at2 \in Counts /\ at2[G + 1] = j /\ \A i \in 1 .. G : at2[i] = at[i]
  <2>1. \A i \in Nat : at2[i] = IF i = G + 1 THEN j ELSE at[i]
    BY <1>15
  <2>2. j \in Nat /\ \A i \in Nat : at[i] \in Nat
    <3>1. j \in Nat
      BY <1>5, <1>8
    <3> QED
      BY <3>1, <1>1 DEF Counts
  <2>3. \A i \in Nat : (IF i = G + 1 THEN j ELSE at[i]) \in Nat
    BY <2>2
  <2>4. at2 \in Counts
    BY <1>15, <2>3 DEF Counts
  <2>5. G + 1 \in Nat /\ \A i \in 1 .. G : i \in Nat /\ i # G + 1
    BY <1>12
  <2> QED
    BY <2>1, <2>4, <2>5
<1>17. Gotten(at2, v2[0], g2, s)
  <2>1. ASSUME NEW i \in 1 .. G + 1
        PROVE  at2[i] \in 1 .. n /\ at2[i] <= v[1] /\ g2[i] = s[at2[i]]
    <3>1. CASE i = G + 1
      BY <3>1, <1>2, <1>5, <1>8, <1>12, <1>16
    <3>2. CASE i # G + 1
      <4>1. i \in 1 .. G
        BY <3>2, <1>12
      <4>2. at[i] \in 1 .. n /\ at[i] <= v[0] /\ g[i] = s[at[i]]
        BY <4>1, <1>13
      <4>3. at[i] <= v[1]
        BY <4>2, <1>2, <1>5, <1>6
      <4> QED
        BY <4>1, <4>2, <4>3, <1>12, <1>16
    <3> QED
      BY <3>1, <3>2
  <2>2. ASSUME NEW i \in 1 .. G + 1, NEW h \in 1 .. G + 1, i < h
        PROVE  at2[i] < at2[h]
    <3>1. i \in 1 .. G
      BY <2>2, <1>12
    <3>2. CASE h = G + 1
      <4>1. at[i] \in 1 .. n /\ at[i] <= v[0] /\ at2[i] = at[i]
        BY <3>1, <1>13, <1>16
      <4>2. at2[h] = j /\ j \in v[0] + 1 .. v[1]
        BY <3>2, <1>8, <1>16
      <4> QED
        BY <4>1, <4>2, <1>2, <1>5
    <3>3. CASE h # G + 1
      <4>1. h \in 1 .. G
        BY <3>3, <1>12
      <4> QED
        BY <4>1, <3>1, <2>2, <1>13, <1>16
    <3> QED
      BY <3>2, <3>3
  <2> QED
    BY <2>1, <2>2, <1>3, <1>4, <1>12 DEF Gotten
<1>18. v2[Len(Tail(ls))] = w[0]
  BY <1>3 DEF Up
<1>19. ASSUME ex PROVE Whole(at2, v2, g2, Tail(ls)) /\ Exact(w, V, s)
  <2>1. Whole(at, v, g, ls) /\ Exact(w, V, s)
    BY <1>19 DEF Up
  <2>2. G = v[0] /\ (\A i \in 1 .. G : at[i] = i) /\ \A i \in 1 .. Len(ls) : v[i] = v[i - 1] + 1
    BY <2>1, <1>10 DEF Whole
  <2>3. v[1] = v[0] + 1 /\ \A i \in 1 .. Len(Tail(ls)) : v2[i] = v2[i - 1] + 1
    BY <2>2, <1>3
  <2>4. G + 1 = v2[0] /\ j = G + 1
    BY <2>2, <2>3, <1>2, <1>3, <1>8
  <2>5. ASSUME NEW i \in 1 .. G + 1 PROVE at2[i] = i
    <3>1. CASE i = G + 1
      BY <3>1, <2>4, <1>16
    <3>2. CASE i # G + 1
      <4>1. i \in 1 .. G
        BY <3>2, <1>12
      <4> QED
        BY <4>1, <2>2, <1>16
    <3> QED
      BY <3>1, <3>2
  <2> QED
    BY <2>1, <2>3, <2>4, <2>5, <1>12 DEF Whole
<1>20. Up(at2, v2, w, P, g2, Tail(ls), V, td, s, ex)
  BY <1>3, <1>16, <1>17, <1>18, <1>19 DEF Up
<1> QED
  BY <1>7, <1>9, <1>11, <1>14, <1>20

\* Less may be promised.
LEMMA UpWeaken ==
  ASSUME NEW at, NEW v, NEW w, NEW P, NEW g, NEW ls, NEW V, NEW td, NEW s, NEW ex, NEW ey,
         Up(at, v, w, P, g, ls, V, td, s, ex), ey => ex
  PROVE  Up(at, v, w, P, g, ls, V, td, s, ey)
BY DEF Up

\* draind-ctl sends one request.
LEMMA UpOne ==
  ASSUME NEW at, NEW v, NEW w, NEW g \in Seq(Messages("ctl")), NEW ls, NEW V, NEW td,
         NEW s, NEW ex, Up(at, v, w, "ctl", g, ls, V, td, s, ex), g # <<>>
  PROVE  g = s
<1>1. s \in Seq(Messages("ctl")) /\ Len(s) \in Nat /\ Len(s) <= 1 /\ Gotten(at, v[0], g, s)
  BY DEF Up, IsLog, Limit
<1>2. Len(g) \in Nat /\ Len(g) > 0
  OBVIOUS
<1>3. 1 \in 1 .. Len(g)
  BY <1>2
<1>4. at[1] \in 1 .. Len(s) /\ g[1] = s[at[1]]
  BY <1>1, <1>3 DEF Gotten
<1>5. Len(s) = 1 /\ at[1] = 1
  <2>1. PICK n, i : Len(s) = n /\ at[1] = i
    OBVIOUS
  <2>2. n \in Nat /\ n <= 1 /\ i \in 1 .. n
    BY <2>1, <1>1, <1>4
  <2>3. n = 1 /\ i = 1
    BY <2>2
  <2> QED
    BY <2>1, <2>3
<1>6. Len(g) = 1
  <2> SUFFICES ASSUME Len(g) # 1 PROVE FALSE
    OBVIOUS
  <2>1. 2 \in 1 .. Len(g)
    BY <1>2
  <2>2. at[2] \in 1 .. Len(s) /\ at[1] < at[2]
    BY <2>1, <1>1, <1>3 DEF Gotten
  <2> QED
    BY <2>2, <1>5
<1>7. \A i \in 1 .. Len(g) : g[i] = s[i]
  BY <1>4, <1>5, <1>6
<1> QED
  BY <1>1, <1>5, <1>6, <1>7, SeqEqual

-----------------------------------------------------------------------------
(* Line ends in a buffer *)

\* A set of numbers has a first one.
LEMMA FirstOf ==
  ASSUME NEW T, T \subseteq Nat, T # {}
  PROVE  \E x \in T : \A y \in T : ~(y < x)
<1>1. PICK R : R = OpToRel(<, Nat)
  OBVIOUS
<1>2. IsWellFoundedOn(R, Nat)
  BY <1>1, NatLessThanWellFounded
<1>3. PICK x \in T : \A y \in T : ~(<<y, x>> \in R)
  BY <1>2, WFMin
<1>4. \A y \in T : <<y, x>> \in R <=> y < x
  BY <1>1, <1>3 DEF OpToRel
<1> QED
  BY <1>3, <1>4

\* find('\n') finds the first line end.
LEMMA FirstEnd ==
  ASSUME NEW s \in Text, HasLine(s)
  PROVE  /\ LineEnd(s) \in 1 .. Len(s) /\ s[LineEnd(s)] = LF
         /\ Clean(s, 1, LineEnd(s) - 1)
         /\ FirstLine(s) = SubSeq(s, 1, LineEnd(s) - 1)
<1>1. DOMAIN s = 1 .. Len(s) /\ Len(s) \in Nat
  BY DEF Text
<1>2. PICK T : T = {i \in 1 .. Len(s) : s[i] = LF}
  OBVIOUS
<1>3. T \subseteq Nat /\ T # {}
  BY <1>1, <1>2 DEF HasLine
<1>4. PICK x \in T : \A y \in T : ~(y < x)
  BY <1>3, FirstOf
<1>5. x \in DOMAIN s /\ s[x] = LF /\ \A j \in 1 .. x - 1 : s[j] # LF
  BY <1>1, <1>2, <1>4
<1>6. \E i \in DOMAIN s : s[i] = LF /\ \A j \in 1 .. i - 1 : s[j] # LF
  BY <1>5
<1>7. /\ LineEnd(s) \in DOMAIN s /\ s[LineEnd(s)] = LF
      /\ \A j \in 1 .. LineEnd(s) - 1 : s[j] # LF
  BY <1>6, Zenon DEF LineEnd
<1>8. FirstLine(s) = SubSeq(s, 1, LineEnd(s) - 1)
  BY DEF FirstLine
<1> QED
  BY <1>1, <1>7, <1>8 DEF Clean

\* What recv_line takes for the reply is the beginning of one.
LEMMA ReplyLine ==
  ASSUME NEW e \in Text, Clean(e, 1, Len(e)), NEW x \in Text, NEW y \in Text,
         x \o y = e \o <<LF>>
  PROVE  \E n \in 0 .. Len(e) : FirstLine(x) = SubSeq(e, 1, n)
<1>1. <<LF>> \in Text /\ Len(<<LF>>) = 1 /\ <<LF>>[1] = LF
  BY DEF Text, Chars
<1>2. PICK f : e \o <<LF>> = f
  OBVIOUS
<1>3. PICK a, b, c : Len(x) = a /\ Len(y) = b /\ Len(e) = c
  OBVIOUS
<1>4. a \in Nat /\ b \in Nat /\ c \in Nat
  BY <1>3 DEF Text
<1>5. /\ f \in Text /\ Len(f) = c + 1
      /\ \A i \in 1 .. c : f[i] = e[i]
      /\ f[c + 1] = LF
  <2>1. /\ e \o <<LF>> \in Text
        /\ Len(e \o <<LF>>) = Len(e) + Len(<<LF>>)
        /\ \A i \in 1 .. Len(e) : (e \o <<LF>>)[i] = e[i]
        /\ \A i \in 1 .. Len(<<LF>>) : (e \o <<LF>>)[Len(e) + i] = <<LF>>[i]
    BY <1>1, Glued
  <2>2. 1 \in 1 .. Len(<<LF>>)
    BY <1>1
  <2> QED
    BY <2>1, <2>2, <1>1, <1>2, <1>3
<1>6. Len(f) = a + b /\ \A i \in 1 .. a : f[i] = x[i]
  <2>1. /\ Len(x \o y) = Len(x) + Len(y)
        /\ \A i \in 1 .. Len(x) : (x \o y)[i] = x[i]
    BY Glued
  <2> QED
    BY <2>1, <1>2, <1>3
<1>7. \A i \in 1 .. c : e[i] # LF
  BY <1>3 DEF Clean
<1>8. a <= c + 1
  BY <1>4, <1>5, <1>6
<1>9. ASSUME NEW n \in Nat, n <= a, n <= c
      PROVE  SubSeq(x, 1, n) = SubSeq(e, 1, n)
  <2>1. 1 \in Nat \ {0} /\ 1 <= n + 1
    BY <1>9
  <2>2. SubSeq(x \o y, 1, n) = SubSeq(x, 1, n)
    BY <2>1, <1>3, <1>9, PartOfFirst
  <2>3. SubSeq(e \o <<LF>>, 1, n) = SubSeq(e, 1, n)
    BY <2>1, <1>1, <1>3, <1>9, PartOfFirst
  <2> QED
    BY <2>2, <2>3
<1>10. CASE HasLine(x)
  <2>1. /\ LineEnd(x) \in 1 .. a /\ x[LineEnd(x)] = LF
        /\ FirstLine(x) = SubSeq(x, 1, LineEnd(x) - 1)
    BY <1>3, <1>10, FirstEnd
  <2>2. LineEnd(x) = c + 1
    <3>1. PICK h : LineEnd(x) = h
      OBVIOUS
    <3>2. h \in 1 .. a /\ f[h] = LF
      BY <3>1, <2>1, <1>6
    <3>3. h \notin 1 .. c
      BY <3>2, <1>5, <1>7
    <3>4. h = c + 1
      BY <3>2, <3>3, <1>4, <1>8
    <3> QED
      BY <3>1, <3>4
  <2>3. LineEnd(x) - 1 = c /\ c <= a /\ c <= c
    BY <2>1, <2>2, <1>4
  <2>4. FirstLine(x) = SubSeq(e, 1, c)
    BY <2>1, <2>3, <1>4, <1>9
  <2>5. c \in 0 .. c
    BY <1>4
  <2> QED
    BY <2>4, <2>5, <1>3
<1>11. CASE ~HasLine(x)
  <2>1. FirstLine(x) = x
    BY <1>11 DEF FirstLine
  <2>2. a <= c
    <3> SUFFICES ASSUME a = c + 1 PROVE FALSE
      BY <1>4, <1>8
    <3>1. a \in 1 .. a /\ x[a] = LF
      BY <1>4, <1>5, <1>6
    <3>2. DOMAIN x = 1 .. a
      BY <1>3 DEF Text
    <3> QED
      BY <3>1, <3>2, <1>11 DEF HasLine
  <2>3. SubSeq(x, 1, a) = x
    BY <1>3, SubSeqFull DEF Text
  <2>4. a <= a /\ a \in 0 .. c
    BY <2>2, <1>4
  <2>5. FirstLine(x) = SubSeq(e, 1, a)
    BY <2>1, <2>2, <2>3, <2>4, <1>4, <1>9
  <2> QED
    BY <2>4, <2>5, <1>3
<1> QED
  BY <1>10, <1>11

-----------------------------------------------------------------------------
(* The inductive invariant *)

WireTypeOK ==
  /\ peer \in {"agent", "ctl"} /\ capacity \in Nat
  /\ todo \in [Ends -> Text] /\ pipe \in [Ends -> Text]
  /\ torn \subseteq Ends /\ closed \in BOOLEAN /\ open \in BOOLEAN
  /\ m_buf \in Text /\ acc \in Text /\ lines \in Seq(Text)
  /\ got \in Seq(Messages(peer))

\* The bytes on the way to the daemon.
Stream == (m_buf \o pipe["up"]) \o todo["up"]
Intact == "up" \notin torn /\ ~closed

UpInv ==
  /\ \E at, v, w : Up(at, v, w, peer, got, lines, Stream, todo["up"], sent, Intact)
  /\ Intact => open
  /\ closed => todo["up"] = <<>>

\* The bytes draind-ctl has read or will read are the beginning of the reply.
Back == (acc \o pipe["down"]) \o todo["down"]

DownInv ==
  /\ peer = "agent" \/ got = <<>> =>
       acc = <<>> /\ pipe["down"] = <<>> /\ todo["down"] = <<>> /\ code \notin {0, 4}
  /\ peer = "ctl" /\ got # <<>> =>
       answer \in Replies /\ \E z \in Text : Back \o z = Encode(answer) \o <<LF>>
  /\ code \in {0, 4} => sent # <<>> /\ got = sent /\ (code = 0 <=> Flag(answer, "ok"))

\* The file is the beginning of what was last written to it.
FileInv ==
  \E x \in Files : \E n \in 0 .. Len(EncodePretty(x)) :
    file = SubSeq(EncodePretty(x), 1, n)

WireInv == WireTypeOK /\ UpInv /\ DownInv /\ FileInv

-----------------------------------------------------------------------------
(* The file *)

\* A profile written over another one leaves the rest of the file alone.
LEMMA PutTwice ==
  ASSUME NEW x \in Files, NEW name \in Profiles
  PROVE  Put(x, "active_profile", Str(name)) \in Files
<1>1. PICK key : key = "active_profile"
  OBVIOUS
<1>2. PICK b : b = Str(name)
  OBVIOUS
<1>3. Root[1] = "object"
  BY WireAssumption
<1>4. Put(Root, key, b) \in Files
  BY <1>1, <1>2 DEF Files
<1>5. CASE x = Root
  BY <1>1, <1>2, <1>4, <1>5
<1>6. CASE x # Root
  <2>1. PICK a : x = Put(Root, key, a)
    BY <1>1, <1>6 DEF Files
  <2>2. PICK D, R : D = DOMAIN Root[2] /\ R = Root[2]
    OBVIOUS
  <2>3. PICK F : F = [i \in {key} \cup D |-> IF i = key THEN a ELSE R[i]]
    OBVIOUS
  <2>4. x[1] = "object" /\ x[2] = F
    BY <2>1, <2>2, <2>3, <1>3 DEF Put, Object
  <2>5. DOMAIN F = {key} \cup D /\ \A i \in D : i # key => F[i] = R[i]
    BY <2>3
  <2>6. [i \in {key} \cup DOMAIN F |-> IF i = key THEN b ELSE F[i]]
        = [i \in {key} \cup D |-> IF i = key THEN b ELSE R[i]]
    <3>1. {key} \cup DOMAIN F = {key} \cup D
      BY <2>5
    <3> QED
      BY <3>1, <2>5
  <2>7. Put(x, key, b) = Put(Root, key, b)
    BY <2>2, <2>4, <2>6, <1>3 DEF Put, Object
  <2> QED
    BY <2>7, <1>1, <1>2, <1>4
<1> QED
  BY <1>5, <1>6

\* What the file says, if it can be read.
LEMMA FileReads ==
  ASSUME FileInv
  PROVE  Decode(file).ok \in BOOLEAN /\ (Decode(file).ok => Decode(file).v \in Files)
<1>1. PICK x \in Files : \E n \in 0 .. Len(EncodePretty(x)) :
        file = SubSeq(EncodePretty(x), 1, n)
  BY DEF FileInv
<1>2. PICK n \in 0 .. Len(EncodePretty(x)) : file = SubSeq(EncodePretty(x), 1, n)
  BY <1>1
<1>3. /\ Decode(SubSeq(EncodePretty(x), 1, n)).ok \in BOOLEAN
      /\ Decode(SubSeq(EncodePretty(x), 1, n)).ok
           => Decode(SubSeq(EncodePretty(x), 1, n)).v = x
  BY <1>2, FileAssumption
<1> QED
  BY <1>2, <1>3

\* persist_active, wherever its write ends.
LEMMA PersistKeeps ==
  ASSUME FileInv, NEW name \in Profiles, Persist(name)
  PROVE  FileInv'
<1>1. CASE UNCHANGED file
  BY <1>1 DEF FileInv
<1>2. ASSUME Decode(file).ok,
             NEW n \in 0 .. Len(EncodePretty(Put(Decode(file).v, "active_profile", Str(name)))),
             file' = SubSeq(EncodePretty(Put(Decode(file).v, "active_profile", Str(name))), 1, n)
      PROVE  FileInv'
  <2>1. PICK x : x = Put(Decode(file).v, "active_profile", Str(name))
    OBVIOUS
  <2>2. x \in Files
    BY <2>1, <1>2, FileReads, PutTwice
  <2> QED
    BY <2>1, <2>2, <1>2 DEF FileInv
<1> QED
  BY <1>1, <1>2 DEF Persist

\* The file at the start.
LEMMA FileInit ==
  ASSUME WireInit
  PROVE  FileInv
<1>1. file = EncodePretty(Root) /\ Root \in Files
  BY DEF WireInit, Files
<1>2. EncodePretty(Root) \in Seq(STRING)
  BY <1>1, FileAssumption
<1>3. Len(EncodePretty(Root)) \in 0 .. Len(EncodePretty(Root))
  BY <1>2
<1>4. SubSeq(EncodePretty(Root), 1, Len(EncodePretty(Root))) = EncodePretty(Root)
  BY <1>2, SubSeqFull
<1> QED
  BY <1>1, <1>3, <1>4 DEF FileInv

\* Only set_profile changes the file.
LEMMA FileNext ==
  ASSUME FileInv, WireNext
  PROVE  FileInv'
<1>1. CASE UNCHANGED file
  BY <1>1 DEF FileInv
<1>2. ASSUME file' # file PROVE \E name \in Profiles : Persist(name)
  <2>1. OnLine
    BY <1>2 DEF WireNext, WriteSome, WriteFails, Read, Extract, HandleEof, AgentSends,
                AgentEnds, CtlAsks, Send, CtlReads, CtlExits, Connect
  <2>2. PICK msg : OnMessage(msg)
    BY <1>2, <2>1 DEF OnLine
  <2>3. SetsProfile(msg) /\ Persist(StrOf(msg, "profile", ""))
    BY <1>2, <2>2 DEF OnMessage, OnCtl
  <2> QED
    BY <2>3 DEF SetsProfile
<1> QED
  BY <1>1, <1>2, PersistKeeps

-----------------------------------------------------------------------------
(* The way to the daemon *)

\* What a step does to UpInv is seen from what it does to the stream.
LEMMA UpMoves ==
  ASSUME NEW at, NEW v, NEW w,
         Up(at, v, w, peer', got', lines', Stream', todo'["up"], sent', Intact'),
         Intact' => open', closed' => todo'["up"] = <<>>
  PROVE  UpInv'
BY DEF UpInv

\* Steps that leave the stream as it is.
LEMMA UpStays ==
  ASSUME UpInv, peer' = peer, got' = got, lines' = lines, Stream' = Stream,
         todo'["up"] = todo["up"], sent' = sent, open' = open,
         Intact' => Intact, closed' => todo["up"] = <<>>
  PROVE  UpInv'
<1>1. PICK at, v, w : Up(at, v, w, peer, got, lines, Stream, todo["up"], sent, Intact)
  BY DEF UpInv
<1>2. Up(at, v, w, peer, got, lines, Stream, todo["up"], sent, Intact')
  BY <1>1, UpWeaken
<1>3. Up(at, v, w, peer', got', lines', Stream', todo'["up"], sent', Intact')
  BY <1>2
<1>4. Intact' => open'
  BY DEF UpInv
<1> QED
  BY <1>3, <1>4, UpMoves

\* A text is cut in two and put together again.
LEMMA Resplit ==
  ASSUME NEW t \in Text, NEW n \in Nat, n <= Len(t)
  PROVE  /\ SubSeq(t, 1, n) \in Text /\ From(t, n + 1) \in Text
         /\ SubSeq(t, 1, n) \o From(t, n + 1) = t
<1>1. Len(t) \in Nat /\ t \in Seq(Chars)
  BY DEF Text
<1>2. 1 \in 1 .. Len(t) + 1 /\ n \in 1 - 1 .. Len(t) /\ Len(t) \in n .. Len(t)
  BY <1>1
<1>3. SubSeq(t, 1, n) \o SubSeq(t, n + 1, Len(t)) = SubSeq(t, 1, Len(t))
  BY <1>1, <1>2, ConcatAdjacentSubSeq
<1>4. SubSeq(t, 1, Len(t)) = t
  BY <1>1, SubSeqFull
<1>5. 1 \in Nat \ {0} /\ 1 <= n + 1 /\ n + 1 \in Nat \ {0} /\ n + 1 <= Len(t) + 1
      /\ Len(t) <= Len(t)
  BY <1>1
<1>6. SubSeq(t, 1, n) \in Text
  BY <1>5, Part
<1>7. SubSeq(t, n + 1, Len(t)) \in Text
  <2>1. PICK a : a = n + 1
    OBVIOUS
  <2>2. SubSeq(t, a, Len(t)) \in Text
    BY <2>1, <1>1, <1>5, Part
  <2> QED
    BY <2>1, <2>2
<1> QED
  BY <1>3, <1>4, <1>6, <1>7 DEF From

\* write() and read() move bytes along.
LEMMA MovesOn ==
  ASSUME NEW a \in Text, NEW b \in Text, NEW t \in Text, NEW n \in Nat
  PROVE  /\ n <= Len(t) =>
              (a \o (b \o SubSeq(t, 1, n))) \o From(t, n + 1) = (a \o b) \o t
         /\ n <= Len(b) =>
              ((a \o SubSeq(b, 1, n)) \o From(b, n + 1)) \o t = (a \o b) \o t
<1>2. ASSUME n <= Len(t)
      PROVE  (a \o (b \o SubSeq(t, 1, n))) \o From(t, n + 1) = (a \o b) \o t
  <2>1. PICK x, y : x = SubSeq(t, 1, n) /\ y = From(t, n + 1)
    OBVIOUS
  <2>2. x \in Text /\ y \in Text
    BY <2>1, <1>2, Resplit
  <2>3. x \o y = t
    BY <2>1, <1>2, Resplit
  <2>4. a \o (b \o x) = (a \o b) \o x
    BY <2>2 DEF Text
  <2>5. PICK c : a \o b = c
    OBVIOUS
  <2>6. c \in Text
    BY <2>5, Glued
  <2>7. (c \o x) \o y = c \o (x \o y)
    BY <2>2, <2>6 DEF Text
  <2> QED
    BY <2>1, <2>3, <2>4, <2>5, <2>7
<1>3. ASSUME n <= Len(b)
      PROVE  ((a \o SubSeq(b, 1, n)) \o From(b, n + 1)) \o t = (a \o b) \o t
  <2>1. PICK x, y : x = SubSeq(b, 1, n) /\ y = From(b, n + 1)
    OBVIOUS
  <2>2. x \in Text /\ y \in Text
    BY <2>1, <1>3, Resplit
  <2>3. x \o y = b
    BY <2>1, <1>3, Resplit
  <2>4. (a \o x) \o y = a \o (x \o y)
    BY <2>2 DEF Text
  <2> QED
    BY <2>1, <2>3, <2>4
<1> QED
  BY <1>2, <1>3

\* How much a write() or a read() takes.
LEMMA Some ==
  ASSUME NEW m \in Int, NEW n \in Nat, NEW k, k = Least(m, n), k > 0
  PROVE  k \in Nat /\ k <= n
BY DEF Least

\* The two directions are distinct.
LEMMA BothEnds ==
  ASSUME WireTypeOK
  PROVE  /\ "up" \in Ends /\ "down" \in Ends /\ "up" # "down"
         /\ pipe["up"] \in Text /\ todo["up"] \in Text
         /\ pipe["down"] \in Text /\ todo["down"] \in Text
         /\ DOMAIN pipe = Ends /\ DOMAIN todo = Ends
         /\ \A d \in Ends : Len(pipe[d]) \in Nat /\ Len(todo[d]) \in Nat
BY DEF WireTypeOK, Ends, Text

\* What write() does in one direction.
LEMMA WriteMoves ==
  ASSUME WireTypeOK, NEW d \in Ends, WriteSome(d)
  PROVE  /\ WireTypeOK'
         /\ \E n \in Nat : /\ n <= Len(todo[d]) /\ todo[d] # <<>>
                           /\ todo'[d] = From(todo[d], n + 1)
                           /\ pipe'[d] = pipe[d] \o SubSeq(todo[d], 1, n)
         /\ \A e \in Ends : e # d => todo'[e] = todo[e] /\ pipe'[e] = pipe[e]
<1>1. PICK n : n = Least(capacity - Len(pipe[d]), Len(todo[d]))
  OBVIOUS
<1>2. n \in Nat /\ n <= Len(todo[d])
  <2>1. Len(pipe[d]) \in Nat /\ Len(todo[d]) \in Nat
    BY BothEnds
  <2>2. capacity - Len(pipe[d]) \in Int
    BY <2>1 DEF WireTypeOK
  <2>3. n > 0
    BY <1>1 DEF WriteSome
  <2> QED
    BY <1>1, <2>1, <2>2, <2>3, Some
<1>3. /\ todo[d] # <<>>
      /\ pipe' = [pipe EXCEPT ![d] = pipe[d] \o SubSeq(todo[d], 1, n)]
      /\ todo' = [todo EXCEPT ![d] = From(todo[d], n + 1)]
  BY <1>1 DEF WriteSome
<1>4. todo[d] \in Text /\ pipe[d] \in Text
  BY DEF WireTypeOK
<1>5. From(todo[d], n + 1) \in Text /\ SubSeq(todo[d], 1, n) \in Text
  BY <1>2, <1>4, Resplit
<1>6. pipe[d] \o SubSeq(todo[d], 1, n) \in Text
  BY <1>4, <1>5, Glued
<1>7. pipe' \in [Ends -> Text] /\ todo' \in [Ends -> Text]
  BY <1>3, <1>5, <1>6 DEF WireTypeOK
<1>8. WireTypeOK'
  BY <1>7 DEF WireTypeOK, WriteSome, peerVars, ctlVars
<1>9. /\ todo'[d] = From(todo[d], n + 1) /\ pipe'[d] = pipe[d] \o SubSeq(todo[d], 1, n)
      /\ \A e \in Ends : e # d => todo'[e] = todo[e] /\ pipe'[e] = pipe[e]
  BY <1>3 DEF WireTypeOK
<1> QED
  BY <1>2, <1>3, <1>8, <1>9

\* write() leaves the stream as it is.
LEMMA UpWriteSome ==
  ASSUME WireTypeOK, UpInv, NEW d \in Ends, WriteSome(d)
  PROVE  UpInv'
<1>1. /\ UNCHANGED <<peer, got, lines, m_buf, sent, open, closed, torn>>
      /\ Intact' = Intact
  BY DEF WriteSome, peerVars, Intact
<1>2. CASE d = "down"
  <2>1. todo'["up"] = todo["up"] /\ pipe'["up"] = pipe["up"]
    BY <1>2, BothEnds, WriteMoves
  <2>2. Stream' = Stream
    BY <2>1, <1>1 DEF Stream
  <2>3. closed' => todo["up"] = <<>>
    BY <1>1 DEF UpInv
  <2> QED
    BY <1>1, <2>1, <2>2, <2>3, UpStays
<1>3. CASE d = "up"
  <2>1. PICK n \in Nat : /\ n <= Len(todo["up"]) /\ todo["up"] # <<>>
                         /\ todo'["up"] = From(todo["up"], n + 1)
                         /\ pipe'["up"] = pipe["up"] \o SubSeq(todo["up"], 1, n)
    BY <1>3, WriteMoves
  <2>2. m_buf \in Text /\ pipe["up"] \in Text /\ todo["up"] \in Text
    BY BothEnds DEF WireTypeOK
  <2>3. (m_buf \o (pipe["up"] \o SubSeq(todo["up"], 1, n))) \o From(todo["up"], n + 1)
        = (m_buf \o pipe["up"]) \o todo["up"]
    BY <2>1, <2>2, MovesOn
  <2>4. Stream' = Stream
    BY <2>1, <2>3, <1>1 DEF Stream
  <2>5. PICK at, v, w : Up(at, v, w, peer, got, lines, Stream, todo["up"], sent, Intact)
    BY DEF UpInv
  <2>6. Up(at, v, w, peer, got, lines, Stream, From(todo["up"], n + 1), sent, Intact)
    BY <2>1, <2>5, UpWrite
  <2>7. Up(at, v, w, peer', got', lines', Stream', todo'["up"], sent', Intact')
    BY <2>1, <2>4, <2>6, <1>1
  <2>8. ~closed' /\ (Intact' => open')
    BY <2>1, <1>1 DEF UpInv
  <2> QED
    BY <2>7, <2>8, UpMoves
<1> QED
  BY <1>2, <1>3 DEF Ends

\* EAGAIN in one direction.
LEMMA FailMoves ==
  ASSUME WireTypeOK, NEW d \in Ends, WriteFails(d)
  PROVE  /\ WireTypeOK' /\ todo'[d] = <<>> /\ pipe' = pipe /\ torn' = torn \cup {d}
         /\ \A e \in Ends : e # d => todo'[e] = todo[e]
<1>1. todo' = [todo EXCEPT ![d] = <<>>] /\ torn' = torn \cup {d} /\ pipe' = pipe
  BY DEF WriteFails
<1>2. <<>> \in Text
  BY DEF Text
<1>3. todo' \in [Ends -> Text] /\ torn' \subseteq Ends
  BY <1>1, <1>2 DEF WireTypeOK
<1>4. WireTypeOK'
  BY <1>1, <1>3 DEF WireTypeOK, WriteFails, peerVars, ctlVars
<1>5. todo'[d] = <<>> /\ \A e \in Ends : e # d => todo'[e] = todo[e]
  BY <1>1 DEF WireTypeOK
<1> QED
  BY <1>1, <1>4, <1>5

\* What write_line had still to write never comes.
LEMMA UpCutOff ==
  ASSUME WireTypeOK, UpInv, todo'["up"] = <<>>, ~Intact', pipe' = pipe,
         UNCHANGED <<peer, got, lines, m_buf, sent>>
  PROVE  UpInv'
<1>1. PICK at, v, w : Up(at, v, w, peer, got, lines, Stream, todo["up"], sent, Intact)
  BY DEF UpInv
<1>2. PICK U : m_buf \o pipe["up"] = U
  OBVIOUS
<1>3. U \in Text /\ U \o todo["up"] = Stream
  BY <1>2, BothEnds, Glued DEF WireTypeOK, Stream
<1>4. peer \in {"agent", "ctl"}
  BY DEF WireTypeOK
<1>5. Up(at, v, w, peer, got, lines, U, <<>>, sent, FALSE)
  BY <1>1, <1>3, <1>4, UpCut
<1>6. Stream' = U
  <2>1. Stream' = U \o <<>>
    BY <1>2 DEF Stream
  <2>2. U \o <<>> = U
    BY <1>3, ConcatEmptySeq DEF Text
  <2> QED
    BY <2>1, <2>2
<1>7. Up(at, v, w, peer, got, lines, U, <<>>, sent, Intact')
  BY <1>5, UpWeaken
<1>8. Up(at, v, w, peer', got', lines', Stream', todo'["up"], sent', Intact')
  BY <1>6, <1>7
<1> QED
  BY <1>8, UpMoves

\* write_line gives up: the end of the stream is cut off.
LEMMA UpWriteFails ==
  ASSUME WireTypeOK, UpInv, NEW d \in Ends, WriteFails(d)
  PROVE  UpInv'
<1>1. UNCHANGED <<peer, got, lines, m_buf, sent, open, closed>>
  BY DEF WriteFails, peerVars
<1>2. CASE d = "down"
  <2>1. todo'["up"] = todo["up"] /\ pipe' = pipe /\ torn' = torn \cup {"down"}
    BY <1>2, BothEnds, FailMoves
  <2>2. Stream' = Stream
    BY <2>1, <1>1 DEF Stream
  <2>3. (Intact' => Intact) /\ (closed' => todo["up"] = <<>>)
    BY <2>1, <1>1 DEF Intact, UpInv
  <2> QED
    BY <1>1, <2>1, <2>2, <2>3, UpStays
<1>3. CASE d = "up"
  <2>1. todo'["up"] = <<>> /\ pipe' = pipe /\ torn' = torn \cup {"up"}
    BY <1>3, FailMoves
  <2>2. ~Intact'
    BY <2>1 DEF Intact
  <2> QED
    BY <1>1, <2>1, <2>2, UpCutOff
<1> QED
  BY <1>2, <1>3 DEF Ends

\* The agent is killed, perhaps in write_line.
LEMMA UpAgentEnds ==
  ASSUME WireTypeOK, UpInv, AgentEnds
  PROVE  WireTypeOK' /\ UpInv'
<1>1. /\ UNCHANGED <<peer, got, lines, m_buf, sent>> /\ pipe' = pipe
      /\ closed' = TRUE /\ todo' = [todo EXCEPT !["up"] = <<>>]
  BY DEF AgentEnds, peerVars
<1>2. todo'["up"] = <<>> /\ ~Intact'
  BY <1>1, BothEnds DEF Intact
<1>3. UpInv'
  BY <1>1, <1>2, UpCutOff
<1>4. <<>> \in Text
  BY DEF Text
<1>5. todo' \in [Ends -> Text]
  BY <1>1, <1>4 DEF WireTypeOK
<1>6. WireTypeOK'
  BY <1>1, <1>5 DEF WireTypeOK, AgentEnds, peerVars, ctlVars
<1> QED
  BY <1>3, <1>6

\* read() leaves the stream as it is.
LEMMA UpRead ==
  ASSUME WireTypeOK, UpInv, Read
  PROVE  WireTypeOK' /\ UpInv' /\ pipe'["down"] = pipe["down"]
<1>1. PICK n : n = Least(ReadSize, Len(pipe["up"]))
  OBVIOUS
<1>2. /\ m_buf' = m_buf \o SubSeq(pipe["up"], 1, n)
      /\ pipe' = [pipe EXCEPT !["up"] = From(pipe["up"], n + 1)]
      /\ n > 0
      /\ UNCHANGED <<peer, todo, torn, closed, open, lines, sent, got>>
  BY <1>1 DEF Read, peerVars
<1>3. m_buf \in Text /\ pipe["up"] \in Text /\ todo["up"] \in Text
  BY BothEnds DEF WireTypeOK
<1>4. n \in Nat /\ n <= Len(pipe["up"])
  <2>1. ReadSize \in Int /\ Len(pipe["up"]) \in Nat
    BY WireAssumption, BothEnds
  <2> QED
    BY <1>1, <1>2, <2>1, Some
<1>5. SubSeq(pipe["up"], 1, n) \in Text /\ From(pipe["up"], n + 1) \in Text
  BY <1>3, <1>4, Resplit
<1>6. m_buf' \in Text /\ pipe' \in [Ends -> Text]
  <2>1. m_buf' \in Text
    BY <1>2, <1>3, <1>5, Glued
  <2> QED
    BY <2>1, <1>2, <1>5 DEF WireTypeOK
<1>7. WireTypeOK'
  BY <1>6 DEF WireTypeOK, Read, peerVars, ctlVars
<1>8. pipe'["up"] = From(pipe["up"], n + 1) /\ pipe'["down"] = pipe["down"]
  BY <1>2, BothEnds
<1>9. ((m_buf \o SubSeq(pipe["up"], 1, n)) \o From(pipe["up"], n + 1)) \o todo["up"]
      = (m_buf \o pipe["up"]) \o todo["up"]
  BY <1>3, <1>4, MovesOn
<1>10. Stream' = Stream
  BY <1>2, <1>8, <1>9 DEF Stream
<1>11. (Intact' => Intact) /\ (closed' => todo["up"] = <<>>)
  BY <1>2 DEF Intact, UpInv
<1>12. UpInv'
  BY <1>2, <1>10, <1>11, UpStays
<1> QED
  BY <1>7, <1>8, <1>12

\* \o is associative.
LEMMA Associated ==
  ASSUME NEW x \in Text, NEW y \in Text, NEW z \in Text
  PROVE  (x \o y) \o z = x \o (y \o z)
  BY DEF Text

\* What two texts have from a place in the first on.
LEMMA Behind ==
  ASSUME NEW s \in Text, NEW t \in Text, NEW a \in Nat \ {0}, a <= Len(s) + 1
  PROVE  SubSeq(s \o t, a, Len(s) + Len(t)) = SubSeq(s, a, Len(s)) \o t
<1>1. PICK n : Len(t) = n
  OBVIOUS
<1>2. n \in Nat /\ n <= Len(t)
  BY <1>1 DEF Text
<1>3. SubSeq(s \o t, a, Len(s) + n) = SubSeq(s, a, Len(s)) \o SubSeq(t, 1, n)
  BY <1>2, PartAcross
<1>4. SubSeq(t, 1, n) = t
  BY <1>1, SubSeqFull DEF Text
<1> QED
  BY <1>1, <1>3, <1>4

\* The first line of the buffer is the first of the stream.
LEMMA BufferLine ==
  ASSUME NEW m \in Text, HasLine(m), NEW q \in Text, NEW t \in Text,
         NEW V, (m \o q) \o t = V
  PROVE  /\ FirstLine(m) \in Text /\ From(m, LineEnd(m) + 1) \in Text
         /\ \E k \in Nat \ {0}, c \in Nat :
              /\ FirstLine(m) = SubSeq(V, 1, k - 1)
              /\ Shifted(V, (From(m, LineEnd(m) + 1) \o q) \o t, k, c)
<1>1. PICK k : LineEnd(m) = k
  OBVIOUS
<1>2. /\ k \in 1 .. Len(m) /\ m[k] = LF /\ \A j \in 1 .. k - 1 : m[j] # LF
      /\ FirstLine(m) = SubSeq(m, 1, k - 1)
  BY <1>1, FirstEnd DEF Clean
<1>3. PICK x : q \o t = x
  OBVIOUS
<1>4. x \in Text
  BY <1>3, Glued
<1>5. PICK a, b : Len(m) = a /\ Len(x) = b
  OBVIOUS
<1>6. a \in Nat /\ b \in Nat /\ k \in Nat \ {0} /\ k <= a
  BY <1>2, <1>4, <1>5 DEF Text
<1>7. (m \o q) \o t = m \o (q \o t)
  BY Associated
<1>8. V = m \o x
  BY <1>3, <1>7
<1>9. V \in Text /\ Len(V) = a + b /\ \A i \in 1 .. a : V[i] = m[i]
  BY <1>4, <1>5, <1>8, Glued
<1>10. PICK c : c = (a - k) + b
  OBVIOUS
<1>11. c \in Nat /\ a + b = k + c
  BY <1>6, <1>10
<1>12. PICK y : From(m, k + 1) = y
  OBVIOUS
<1>13. y \in Text
  BY <1>5, <1>6, <1>12, Resplit
<1>14. SubSeq(V, k + 1, k + c) = y \o x
  <2>1. PICK h : h = k + 1
    OBVIOUS
  <2>2. h \in Nat \ {0} /\ h <= Len(m) + 1
    BY <2>1, <1>5, <1>6
  <2>3. SubSeq(m \o x, h, Len(m) + Len(x)) = SubSeq(m, h, Len(m)) \o x
    BY <2>2, <1>4, Behind
  <2>4. SubSeq(m, h, Len(m)) = y
    BY <2>1, <1>12 DEF From
  <2>5. Len(m) + Len(x) = k + c
    BY <1>5, <1>11
  <2> QED
    BY <2>1, <2>3, <2>4, <2>5, <1>8
<1>15. (y \o q) \o t = y \o (q \o t)
  BY <1>13, Associated
<1>16. SubSeq(V, k + 1, k + c) = (y \o q) \o t
  BY <1>3, <1>14, <1>15
<1>17. Shifted(V, (y \o q) \o t, k, c)
  <2>1. V[k] = LF /\ \A j \in 1 .. k - 1 : V[j] # LF
    BY <1>2, <1>6, <1>9
  <2>2. Len(V) = k + c
    BY <1>9, <1>11
  <2>3. PICK z : (y \o q) \o t = z
    OBVIOUS
  <2>4. SubSeq(V, k + 1, k + c) = z
    BY <2>3, <1>16
  <2>5. Shifted(V, z, k, c)
    BY <2>1, <2>2, <2>4, <1>6, <1>9, <1>11, BehindLine
  <2> QED
    BY <2>3, <2>5
<1>18. FirstLine(m) = SubSeq(V, 1, k - 1) /\ FirstLine(m) \in Text
  <2>1. PICK h : h = k - 1
    OBVIOUS
  <2>2. 1 \in Nat \ {0} /\ h \in Nat /\ h <= Len(m) /\ 1 <= h + 1
    BY <2>1, <1>5, <1>6
  <2>3. SubSeq(m \o x, 1, h) = SubSeq(m, 1, h)
    BY <2>2, <1>4, PartOfFirst
  <2>4. SubSeq(m, 1, h) \in Text
    BY <2>2, Part
  <2> QED
    BY <2>1, <2>3, <2>4, <1>2, <1>8
<1> QED
  BY <1>1, <1>6, <1>11, <1>12, <1>13, <1>17, <1>18

\* feed() takes a line from the front of the stream.
LEMMA UpExtractStep ==
  ASSUME WireTypeOK, UpInv, Extract
  PROVE  WireTypeOK' /\ UpInv'
<1>1. /\ HasLine(m_buf) /\ lines' = Append(lines, FirstLine(m_buf))
      /\ m_buf' = From(m_buf, LineEnd(m_buf) + 1)
      /\ UNCHANGED <<peer, todo, pipe, torn, closed, open, sent, got>>
  BY DEF Extract, peerVars
<1>2. m_buf \in Text /\ pipe["up"] \in Text /\ todo["up"] \in Text /\ lines \in Seq(Text)
  BY BothEnds DEF WireTypeOK
<1>3. PICK V : Stream = V
  OBVIOUS
<1>4. (m_buf \o pipe["up"]) \o todo["up"] = V
  BY <1>3 DEF Stream
<1>5. FirstLine(m_buf) \in Text /\ m_buf' \in Text
  BY <1>1, <1>2, <1>4, BufferLine
<1>6. PICK k \in Nat \ {0}, c \in Nat :
        /\ FirstLine(m_buf) = SubSeq(V, 1, k - 1)
        /\ Shifted(V, (From(m_buf, LineEnd(m_buf) + 1) \o pipe["up"]) \o todo["up"], k, c)
  BY <1>1, <1>2, <1>4, BufferLine
<1>7. Shifted(V, Stream', k, c)
  BY <1>1, <1>6 DEF Stream
<1>8. PICK at, v, w : Up(at, v, w, peer, got, lines, V, todo["up"], sent, Intact)
  BY <1>3 DEF UpInv
<1>9. PICK v2, w2 : Up(at, v2, w2, peer, got, Append(lines, FirstLine(m_buf)), Stream',
                       todo["up"], sent, Intact)
  BY <1>2, <1>5, <1>6, <1>7, <1>8, UpExtract
<1>10. Intact' = Intact
  BY <1>1 DEF Intact
<1>11. Up(at, v2, w2, peer', got', lines', Stream', todo'["up"], sent', Intact')
  BY <1>1, <1>9, <1>10
<1>12. (Intact' => open') /\ (closed' => todo'["up"] = <<>>)
  BY <1>1, <1>10 DEF UpInv
<1>13. UpInv'
  BY <1>11, <1>12, UpMoves
<1>14. lines' \in Seq(Text)
  BY <1>1, <1>2, <1>5
<1>15. WireTypeOK'
  BY <1>5, <1>14 DEF WireTypeOK, Extract, peerVars, ctlVars
<1> QED
  BY <1>13, <1>15

\* The daemon closes the connection and drops what it has read.
LEMMA UpHandleEof ==
  ASSUME WireTypeOK, UpInv, HandleEof
  PROVE  WireTypeOK' /\ UpInv'
<1>1. /\ UNCHANGED <<peer, todo, pipe, torn, closed, lines, sent, got>>
      /\ closed /\ lines = <<>> /\ pipe["up"] = <<>> /\ m_buf' = <<>> /\ open' = FALSE
  BY DEF HandleEof, peerVars
<1>2. todo["up"] = <<>> /\ ~Intact'
  BY <1>1 DEF UpInv, Intact
<1>3. <<>> \o <<>> = <<>> /\ <<>> \in Text
  BY DEF Text
<1>4. Stream' = <<>>
  BY <1>1, <1>2, <1>3 DEF Stream
<1>5. PICK at, v, w : Up(at, v, w, peer, got, lines, Stream, todo["up"], sent, Intact)
  BY DEF UpInv
<1>6. PICK v2, w2 : Up(at, v2, w2, peer, got, <<>>, <<>>, <<>>, sent, FALSE)
  BY <1>5, UpForget
<1>7. Up(at, v2, w2, peer, got, <<>>, <<>>, <<>>, sent, Intact')
  BY <1>2, <1>6, UpWeaken
<1>8. Up(at, v2, w2, peer', got', lines', Stream', todo'["up"], sent', Intact')
  BY <1>1, <1>2, <1>4, <1>7
<1>9. UpInv'
  BY <1>1, <1>2, <1>8, UpMoves
<1>10. WireTypeOK'
  BY <1>1, <1>3 DEF WireTypeOK, HandleEof, peerVars, ctlVars
<1> QED
  BY <1>9, <1>10

\* A coded message and its line end.
LEMMA Line ==
  ASSUME NEW m \in AgentMessages \cup Commands \cup Replies
  PROVE  Encode(m) \o <<LF>> \in Text
<1>1. Encode(m) \in Text
  BY Coded
<1>2. <<LF>> \in Text
  BY DEF Text, Chars
<1> QED
  BY <1>1, <1>2, Glued

\* A message joins the stream.
LEMMA UpSendStep ==
  ASSUME WireTypeOK, UpInv, NEW m \in Messages(peer), Len(sent) < Limit(peer), Send(m)
  PROVE  WireTypeOK' /\ UpInv'
<1>1. /\ UNCHANGED <<peer, pipe, torn, closed, open, m_buf, lines, got>>
      /\ ~closed /\ todo["up"] = <<>> /\ sent' = Append(sent, m)
      /\ todo' = [todo EXCEPT !["up"] = Encode(m) \o <<LF>>]
  BY DEF Send, peerVars
<1>2. PICK x : x = Encode(m) \o <<LF>>
  OBVIOUS
<1>3. m \in AgentMessages \cup Commands \cup Replies
  BY DEF Messages
<1>4. x \in Text
  BY <1>2, <1>3, Line
<1>5. todo' \in [Ends -> Text] /\ todo'["up"] = x
  BY <1>1, <1>2, <1>4, BothEnds DEF WireTypeOK
<1>6. PICK U : m_buf \o pipe["up"] = U
  OBVIOUS
<1>7. U \in Text
  <2>1. m_buf \in Text /\ pipe["up"] \in Text
    BY BothEnds DEF WireTypeOK
  <2> QED
    BY <2>1, <1>6, Glued
<1>8. U \o <<>> = U
  BY <1>7, ConcatEmptySeq DEF Text
<1>9. Stream = U /\ Stream' = U \o x
  BY <1>1, <1>5, <1>6, <1>8 DEF Stream
<1>10. PICK at, v, w : Up(at, v, w, peer, got, lines, U, <<>>, sent, Intact)
  BY <1>1, <1>9 DEF UpInv
<1>11. PICK L : Len(lines) = L
  OBVIOUS
<1>12. L \in Nat /\ peer \in {"agent", "ctl"}
  BY <1>11 DEF WireTypeOK
<1>13. PICK w2 : Up(at, v, w2, peer, got, lines, U \o (Encode(m) \o <<LF>>),
                    Encode(m) \o <<LF>>, Append(sent, m), Intact)
  BY <1>7, <1>10, <1>11, <1>12, UpSend
<1>14. Intact' = Intact
  BY <1>1 DEF Intact
<1>15. Up(at, v, w2, peer', got', lines', Stream', todo'["up"], sent', Intact')
  BY <1>1, <1>2, <1>5, <1>9, <1>13, <1>14
<1>16. (Intact' => open') /\ (closed' => todo'["up"] = <<>>)
  BY <1>1, <1>14 DEF UpInv
<1>17. UpInv'
  BY <1>15, <1>16, UpMoves
<1>18. WireTypeOK'
  BY <1>1, <1>5 DEF WireTypeOK, Send, peerVars, ctlVars
<1> QED
  BY <1>17, <1>18

\* recv_line reads: nothing changes on the way to the daemon.
LEMMA UpCtlReads ==
  ASSUME WireTypeOK, UpInv, CtlReads
  PROVE  WireTypeOK' /\ UpInv' /\ Back' = Back
<1>1. PICK n : n = Least(ReadSize, Len(pipe["down"]))
  OBVIOUS
<1>2. /\ acc' = acc \o SubSeq(pipe["down"], 1, n)
      /\ pipe' = [pipe EXCEPT !["down"] = From(pipe["down"], n + 1)]
      /\ n > 0
      /\ UNCHANGED <<peer, todo, torn, closed, open, m_buf, lines, sent, got>>
  BY <1>1 DEF CtlReads, peerVars
<1>3. acc \in Text /\ pipe["down"] \in Text /\ todo["down"] \in Text
  BY BothEnds DEF WireTypeOK
<1>4. n \in Nat /\ n <= Len(pipe["down"])
  <2>1. ReadSize \in Int /\ Len(pipe["down"]) \in Nat
    BY WireAssumption, BothEnds
  <2> QED
    BY <1>1, <1>2, <2>1, Some
<1>5. SubSeq(pipe["down"], 1, n) \in Text /\ From(pipe["down"], n + 1) \in Text
  BY <1>3, <1>4, Resplit
<1>6. acc' \in Text /\ pipe' \in [Ends -> Text]
  <2>1. acc' \in Text
    BY <1>2, <1>3, <1>5, Glued
  <2> QED
    BY <2>1, <1>2, <1>5 DEF WireTypeOK
<1>7. WireTypeOK'
  BY <1>6 DEF WireTypeOK, CtlReads, peerVars
<1>8. pipe'["down"] = From(pipe["down"], n + 1) /\ pipe'["up"] = pipe["up"]
  BY <1>2, BothEnds
<1>9. ((acc \o SubSeq(pipe["down"], 1, n)) \o From(pipe["down"], n + 1)) \o todo["down"]
      = (acc \o pipe["down"]) \o todo["down"]
  BY <1>3, <1>4, MovesOn
<1>10. Back' = Back
  BY <1>2, <1>8, <1>9 DEF Back
<1>11. Stream' = Stream
  BY <1>2, <1>8 DEF Stream
<1>12. (Intact' => Intact) /\ (closed' => todo["up"] = <<>>)
  BY <1>2 DEF Intact, UpInv
<1>13. UpInv'
  BY <1>2, <1>11, <1>12, UpStays
<1> QED
  BY <1>7, <1>10, <1>13

\* draind-ctl has written its request when it exits.
LEMMA UpCtlExits ==
  ASSUME WireTypeOK, UpInv, CtlExits
  PROVE  WireTypeOK' /\ UpInv'
<1>1. /\ UNCHANGED <<peer, todo, pipe, open, m_buf, lines, sent, got>>
      /\ closed' = TRUE /\ todo["up"] = <<>>
  BY DEF CtlExits, Waiting, peerVars
<1>2. Stream' = Stream /\ ~Intact'
  BY <1>1 DEF Stream, Intact
<1>3. UpInv'
  BY <1>1, <1>2, UpStays
<1>4. WireTypeOK'
  BY <1>1 DEF WireTypeOK, CtlExits, peerVars
<1> QED
  BY <1>3, <1>4

\* Nothing is under way on a new connection.
LEMMA UpFresh ==
  ASSUME peer' \in {"agent", "ctl"}, got' = <<>>, lines' = <<>>, m_buf' = <<>>, sent' = <<>>,
         todo'["up"] = <<>>, pipe'["up"] = <<>>, open'
  PROVE  UpInv'
<1>1. <<>> \o <<>> = <<>>
  OBVIOUS
<1>2. Stream' = <<>>
  BY <1>1 DEF Stream
<1>3. PICK at, v, w : Up(at, v, w, peer', <<>>, <<>>, <<>>, <<>>, <<>>, TRUE)
  BY UpNew
<1>4. Up(at, v, w, peer', <<>>, <<>>, <<>>, <<>>, <<>>, Intact')
  BY <1>3, UpWeaken
<1>5. Up(at, v, w, peer', got', lines', Stream', todo'["up"], sent', Intact')
  BY <1>2, <1>4
<1> QED
  BY <1>5, UpMoves

\* The next peer.
LEMMA UpConnect ==
  ASSUME WireTypeOK, Connect
  PROVE  WireTypeOK' /\ UpInv'
<1>1. /\ peer' = peer /\ got' = <<>> /\ lines' = <<>> /\ m_buf' = <<>> /\ sent' = <<>>
      /\ todo' = [d \in Ends |-> <<>>] /\ pipe' = [d \in Ends |-> <<>>]
      /\ torn' = {} /\ closed' = FALSE /\ open' = TRUE /\ acc' = <<>>
      /\ capacity' = capacity
  BY DEF Connect, peerVars
<1>2. <<>> \in Text /\ <<>> \in Seq(Text) /\ <<>> \in Seq(Messages(peer))
  BY DEF Text
<1>3. WireTypeOK'
  BY <1>1, <1>2 DEF WireTypeOK
<1>4. todo'["up"] = <<>> /\ pipe'["up"] = <<>> /\ peer' \in {"agent", "ctl"}
  BY <1>1 DEF Ends, WireTypeOK
<1> QED
  BY <1>1, <1>3, <1>4, UpFresh

\* What the daemon does with a message.
LEMMA Handled ==
  ASSUME WireTypeOK, FileInv, NEW m \in Messages(peer), OnMessage(m)
  PROVE  /\ todo' \in [Ends -> Text] /\ todo'["up"] = todo["up"]
         /\ got' = Append(got, m) /\ got' \in Seq(Messages(peer))
         /\ peer = "agent" => todo' = todo
         /\ peer = "ctl" =>
              answer' \in Replies /\ todo'["down"] = Encode(answer') \o <<LF>>
<1>1. got' = Append(got, m) /\ got' \in Seq(Messages(peer))
  BY DEF OnMessage, WireTypeOK
<1>2. ASSUME peer = "ctl"
      PROVE  /\ answer' \in Replies /\ todo'["down"] = Encode(answer') \o <<LF>>
             /\ todo' \in [Ends -> Text] /\ todo'["up"] = todo["up"]
  <2>1. /\ answer' = Reply(m, Decode(file).ok)
        /\ todo' = [todo EXCEPT !["down"] = Encode(answer') \o <<LF>>]
    BY <1>2 DEF OnMessage, OnCtl
  <2>2. m \in Commands /\ Decode(file).ok \in BOOLEAN
    BY <1>2, FileReads DEF Messages
  <2>3. answer' \in Replies
    BY <2>1, <2>2 DEF Replies
  <2>4. PICK x : x = Encode(answer') \o <<LF>>
    OBVIOUS
  <2>5. x \in Text
    BY <2>3, <2>4, Line
  <2> QED
    BY <2>1, <2>3, <2>4, <2>5, BothEnds DEF WireTypeOK
<1>3. ASSUME peer = "agent"
      PROVE  todo' = todo /\ todo' \in [Ends -> Text]
  BY <1>3 DEF OnMessage, WireTypeOK
<1>4. peer \in {"agent", "ctl"}
  BY DEF WireTypeOK
<1> QED
  BY <1>1, <1>2, <1>3, <1>4

\* A line is handled; only a request of draind-ctl is answered, and only once.
LEMMA UpOnLine ==
  ASSUME WireTypeOK, UpInv, FileInv, OnLine
  PROVE  /\ WireTypeOK' /\ UpInv'
         /\ \/ got' = got /\ todo' = todo /\ answer' = answer
            \/ peer = "agent" /\ todo' = todo
            \/ /\ peer = "ctl" /\ got = <<>> /\ got' # <<>> /\ answer' \in Replies
               /\ todo'["down"] = Encode(answer') \o <<LF>>
<1>1. PICK line : line = Head(lines)
  OBVIOUS
<1>2. /\ lines # <<>> /\ lines' = Tail(lines)
      /\ open' = (open /\ (line = <<>> \/ Decode(line).ok))
      /\ UNCHANGED <<peer, capacity, pipe, torn, closed, m_buf, sent, acc, code>>
      /\ line # <<>> /\ Decode(line).ok => OnMessage(Decode(line).v)
      /\ ~(line # <<>> /\ Decode(line).ok) => got' = got /\ todo' = todo /\ answer' = answer
  BY <1>1 DEF OnLine, peerVars, ctlVars
<1>3. lines \in Seq(Text) /\ peer \in {"agent", "ctl"} /\ got \in Seq(Messages(peer))
  BY DEF WireTypeOK
<1>4. PICK at, v, w : Up(at, v, w, peer, got, lines, Stream, todo["up"], sent, Intact)
  BY DEF UpInv
<1>5. Intact' = Intact
  BY <1>2 DEF Intact
<1>6. Intact => line # <<>> /\ Decode(line).ok
  <2> SUFFICES ASSUME Intact PROVE line # <<>> /\ Decode(line).ok
    OBVIOUS
  <2>1. Up(at, v, w, peer, got, lines, Stream, todo["up"], sent, TRUE)
    BY <1>4, UpWeaken
  <2> QED
    BY <2>1, <1>1, <1>2, <1>3, UpReadable
<1>7. Intact' => open'
  BY <1>2, <1>5, <1>6 DEF UpInv
<1>8. lines' \in Seq(Text) /\ open' \in BOOLEAN
  <2>1. lines' \in Seq(Text)
    BY <1>2, <1>3
  <2> QED
    BY <2>1, <1>2
<1>9. ASSUME todo'["up"] = todo["up"], todo' \in [Ends -> Text],
             got' \in Seq(Messages(peer)),
             NEW at2, NEW v2,
             Up(at2, v2, w, peer, got', Tail(lines), Stream, todo["up"], sent, Intact)
      PROVE  WireTypeOK' /\ UpInv'
  <2>1. Stream' = Stream
    BY <1>2, <1>9 DEF Stream
  <2>2. Up(at2, v2, w, peer', got', lines', Stream', todo'["up"], sent', Intact')
    BY <2>1, <1>2, <1>5, <1>9
  <2>3. closed' => todo'["up"] = <<>>
    BY <1>2, <1>9 DEF UpInv
  <2>4. UpInv'
    BY <2>2, <2>3, <1>7, UpMoves
  <2>5. WireTypeOK'
    BY <1>2, <1>8, <1>9 DEF WireTypeOK
  <2> QED
    BY <2>4, <2>5
<1>10. CASE line # <<>> /\ Decode(line).ok
  <2>1. PICK m : m = Decode(line).v
    OBVIOUS
  <2>2. OnMessage(m)
    BY <2>1, <1>2, <1>10
  <2>3. m \in Messages(peer) /\ (peer = "ctl" => got = <<>>)
    BY <2>1, <1>1, <1>2, <1>3, <1>4, <1>10, UpTake
  <2>4. PICK at2, v2 : Up(at2, v2, w, peer, Append(got, m), Tail(lines), Stream,
                          todo["up"], sent, Intact)
    BY <2>1, <1>1, <1>2, <1>3, <1>4, <1>10, UpTake
  <2>5. /\ todo' \in [Ends -> Text] /\ todo'["up"] = todo["up"]
        /\ got' = Append(got, m) /\ got' \in Seq(Messages(peer))
        /\ peer = "agent" => todo' = todo
        /\ peer = "ctl" =>
             answer' \in Replies /\ todo'["down"] = Encode(answer') \o <<LF>>
    BY <2>2, <2>3, Handled
  <2>6. Up(at2, v2, w, peer, got', Tail(lines), Stream, todo["up"], sent, Intact)
    BY <2>4, <2>5
  <2>7. WireTypeOK' /\ UpInv'
    BY <2>5, <2>6, <1>9
  <2>8. got' # <<>>
    BY <2>3, <2>5, <1>3
  <2> QED
    BY <2>3, <2>5, <2>7, <2>8, <1>3
<1>11. CASE ~(line # <<>> /\ Decode(line).ok)
  <2>1. got' = got /\ todo' = todo /\ answer' = answer
    BY <1>2, <1>11
  <2>2. ~Intact
    BY <1>6, <1>11
  <2>3. PICK v2 : Up(at, v2, w, peer, got, Tail(lines), Stream, todo["up"], sent, FALSE)
    BY <1>2, <1>3, <1>4, UpSkip
  <2>4. Up(at, v2, w, peer, got, Tail(lines), Stream, todo["up"], sent, Intact)
    BY <2>2, <2>3, UpWeaken
  <2>5. Up(at, v2, w, peer, got', Tail(lines), Stream, todo["up"], sent, Intact)
    BY <2>1, <2>4
  <2>6. todo' \in [Ends -> Text]
    BY <2>1 DEF WireTypeOK
  <2>7. WireTypeOK' /\ UpInv'
    BY <2>1, <2>5, <2>6, <1>3, <1>9
  <2> QED
    BY <2>1, <2>7
<1> QED
  BY <1>10, <1>11

\* The first peer connects.
LEMMA UpInit ==
  ASSUME WireInit
  PROVE  WireTypeOK /\ UpInv
<1>1. /\ peer \in {"agent", "ctl"} /\ capacity \in Capacities[peer] /\ got = <<>>
      /\ lines = <<>> /\ m_buf = <<>> /\ sent = <<>>
      /\ todo = [d \in Ends |-> <<>>] /\ pipe = [d \in Ends |-> <<>>]
      /\ torn = {} /\ closed = FALSE /\ open = TRUE /\ acc = <<>>
  BY DEF WireInit
<1>2. <<>> \in Text /\ <<>> \in Seq(Text) /\ <<>> \in Seq(Messages(peer))
  BY DEF Text
<1>3. capacity \in Nat
  BY <1>1, WireAssumption
<1>4. WireTypeOK
  BY <1>1, <1>2, <1>3 DEF WireTypeOK
<1>5. todo["up"] = <<>> /\ pipe["up"] = <<>>
  BY <1>1 DEF Ends
<1>6. <<>> \o <<>> = <<>>
  OBVIOUS
<1>7. Stream = <<>>
  BY <1>1, <1>5, <1>6 DEF Stream
<1>8. PICK at, v, w : Up(at, v, w, peer, <<>>, <<>>, <<>>, <<>>, <<>>, TRUE)
  BY <1>1, UpNew
<1>9. Up(at, v, w, peer, <<>>, <<>>, <<>>, <<>>, <<>>, Intact)
  BY <1>8, UpWeaken
<1>10. Up(at, v, w, peer, got, lines, Stream, todo["up"], sent, Intact)
  BY <1>1, <1>5, <1>7, <1>9
<1> QED
  BY <1>1, <1>4, <1>5, <1>10 DEF UpInv

-----------------------------------------------------------------------------
(* The way back *)

\* Before the daemon has decoded a request, and for an agent, no byte goes
\* back.
Silent == acc = <<>> /\ pipe["down"] = <<>> /\ todo["down"] = <<>>

\* What draind-ctl has read and will read is the beginning of the reply.
Echo == answer \in Replies /\ \E z \in Text : Back \o z = Encode(answer) \o <<LF>>

\* DownInv in these words, before and after a step.
LEMMA DownParts ==
  DownInv <=> /\ peer = "agent" \/ got = <<>> => Silent /\ code \notin {0, 4}
              /\ peer = "ctl" /\ got # <<>> => Echo
              /\ code \in {0, 4} =>
                   sent # <<>> /\ got = sent /\ (code = 0 <=> Flag(answer, "ok"))
BY DEF DownInv, Silent, Echo

LEMMA DownParts2 ==
  DownInv' <=> /\ peer' = "agent" \/ got' = <<>> => Silent' /\ code' \notin {0, 4}
               /\ peer' = "ctl" /\ got' # <<>> => Echo'
               /\ code' \in {0, 4} =>
                    sent' # <<>> /\ got' = sent' /\ (code' = 0 <=> Flag(answer', "ok"))
BY DEF DownInv, Silent, Echo

\* Steps of the bytes alone.
LEMMA DownMoves ==
  ASSUME DownInv, UNCHANGED <<peer, got, answer, code, sent>>,
         Silent => Silent', Echo => Echo'
  PROVE  DownInv'
<1>1. Flag(answer', "ok") = Flag(answer, "ok")
  OBVIOUS
<1> QED
  BY <1>1, DownParts, DownParts2

\* Steps that leave the way back alone.
LEMMA DownStays ==
  ASSUME DownInv, UNCHANGED <<peer, got, answer, code, sent, acc>>,
         pipe'["down"] = pipe["down"], todo'["down"] = todo["down"]
  PROVE  DownInv'
<1>1. Silent => Silent'
  BY DEF Silent
<1>2. Back' = Back
  BY DEF Back
<1>3. Echo => Echo'
  BY <1>2 DEF Echo
<1> QED
  BY <1>1, <1>3, DownMoves

\* write() moves a part of the reply.
LEMMA DownWriteSome ==
  ASSUME WireTypeOK, DownInv, NEW d \in Ends, WriteSome(d)
  PROVE  DownInv'
<1>1. UNCHANGED <<peer, got, answer, code, sent, acc>>
  BY DEF WriteSome, peerVars, ctlVars
<1>2. CASE d = "up"
  <2>1. pipe'["down"] = pipe["down"] /\ todo'["down"] = todo["down"]
    BY <1>2, BothEnds, WriteMoves
  <2> QED
    BY <2>1, <1>1, DownStays
<1>3. CASE d = "down"
  <2>1. PICK n \in Nat : /\ n <= Len(todo["down"]) /\ todo["down"] # <<>>
                         /\ todo'["down"] = From(todo["down"], n + 1)
                         /\ pipe'["down"] = pipe["down"] \o SubSeq(todo["down"], 1, n)
    BY <1>3, WriteMoves
  <2>2. acc \in Text /\ pipe["down"] \in Text /\ todo["down"] \in Text
    BY BothEnds DEF WireTypeOK
  <2>3. (acc \o (pipe["down"] \o SubSeq(todo["down"], 1, n))) \o From(todo["down"], n + 1)
        = (acc \o pipe["down"]) \o todo["down"]
    BY <2>1, <2>2, MovesOn
  <2>4. Back' = Back
    BY <2>1, <2>3, <1>1 DEF Back
  <2>5. Echo => Echo'
    BY <2>4, <1>1 DEF Echo
  <2>6. ~Silent
    BY <2>1 DEF Silent
  <2> QED
    BY <2>5, <2>6, <1>1, DownMoves
<1> QED
  BY <1>2, <1>3 DEF Ends

\* write_line cuts the reply off.
LEMMA DownWriteFails ==
  ASSUME WireTypeOK, DownInv, NEW d \in Ends, WriteFails(d)
  PROVE  DownInv'
<1>1. UNCHANGED <<peer, got, answer, code, sent, acc, pipe>>
  BY DEF WriteFails, peerVars, ctlVars
<1>2. CASE d = "up"
  <2>1. todo'["down"] = todo["down"]
    BY <1>2, BothEnds, FailMoves
  <2> QED
    BY <2>1, <1>1, DownStays
<1>3. CASE d = "down"
  <2>1. todo["down"] # <<>> /\ todo'["down"] = <<>>
    BY <1>3, FailMoves DEF WriteFails
  <2>2. acc \in Text /\ pipe["down"] \in Text /\ todo["down"] \in Text
    BY BothEnds DEF WireTypeOK
  <2>3. PICK U : acc \o pipe["down"] = U
    OBVIOUS
  <2>4. U \in Text
    BY <2>2, <2>3, Glued
  <2>5. U \o <<>> = U
    BY <2>4, ConcatEmptySeq DEF Text
  <2>6. Back = U \o todo["down"] /\ Back' = U
    BY <2>1, <2>3, <2>5, <1>1 DEF Back
  <2>7. ASSUME Echo PROVE Echo'
    <3>1. PICK z \in Text : Back \o z = Encode(answer) \o <<LF>>
      BY <2>7 DEF Echo
    <3>2. (U \o todo["down"]) \o z = U \o (todo["down"] \o z)
      BY <2>2, <2>4, <3>1, Associated
    <3>3. todo["down"] \o z \in Text
      BY <2>2, <3>1, Glued
    <3>4. Back' \o (todo["down"] \o z) = Encode(answer') \o <<LF>>
      BY <3>1, <3>2, <2>6, <1>1
    <3> QED
      BY <3>3, <3>4, <2>7, <1>1 DEF Echo
  <2>8. ~Silent
    BY <2>1 DEF Silent
  <2> QED
    BY <2>7, <2>8, <1>1, DownMoves
<1> QED
  BY <1>2, <1>3 DEF Ends

\* The reply begins when the request is handled.
LEMMA DownOnLine ==
  ASSUME WireTypeOK, UpInv, FileInv, DownInv, OnLine
  PROVE  DownInv'
<1>1. UNCHANGED <<peer, pipe, sent, acc, code>>
  BY DEF OnLine, peerVars, ctlVars
<1>2. CASE got' = got /\ todo' = todo /\ answer' = answer
  BY <1>1, <1>2, DownStays
<1>3. CASE peer = "agent" /\ todo' = todo
  <2>1. Silent' /\ code' \notin {0, 4} /\ peer' = "agent" /\ peer' # "ctl"
    BY <1>1, <1>3, DownParts DEF Silent
  <2> QED
    BY <2>1, DownParts2
<1>4. CASE /\ peer = "ctl" /\ got = <<>> /\ got' # <<>> /\ answer' \in Replies
           /\ todo'["down"] = Encode(answer') \o <<LF>>
  <2>1. acc = <<>> /\ pipe["down"] = <<>> /\ code \notin {0, 4}
    BY <1>4, DownParts DEF Silent
  <2>2. PICK x : Encode(answer') \o <<LF>> = x
    OBVIOUS
  <2>3. x \in Text /\ <<>> \in Text
    <3>1. x \in Text
      BY <2>2, <1>4, Line
    <3> QED
      BY <3>1 DEF Text
  <2>4. <<>> \o <<>> = <<>> /\ <<>> \o x = x /\ x \o <<>> = x
    BY <2>3, ConcatEmptySeq DEF Text
  <2>5. Back' = x
    BY <2>1, <2>2, <2>4, <1>1, <1>4 DEF Back
  <2>6. Echo'
    BY <2>2, <2>3, <2>4, <2>5, <1>4 DEF Echo
  <2>7. peer' = "ctl" /\ peer' # "agent" /\ got' # <<>> /\ code' \notin {0, 4}
    BY <2>1, <1>1, <1>4
  <2> QED
    BY <2>6, <2>7, DownParts2
<1> QED
  BY <1>2, <1>3, <1>4, UpOnLine

\* No exit code is out when a peer sends.
LEMMA DownSend ==
  ASSUME WireTypeOK, DownInv, NEW m, Send(m), peer = "agent" \/ sent = <<>>
  PROVE  DownInv'
<1>1. /\ UNCHANGED <<peer, pipe, got, answer, acc, code>>
      /\ todo' = [todo EXCEPT !["up"] = Encode(m) \o <<LF>>]
  BY DEF Send, peerVars, ctlVars
<1>2. todo'["down"] = todo["down"]
  BY <1>1, BothEnds
<1>3. code \notin {0, 4}
  BY DownParts
<1>4. Back' = Back
  BY <1>1, <1>2 DEF Back
<1>5. (Silent => Silent') /\ (Echo => Echo')
  BY <1>1, <1>2, <1>4 DEF Silent, Echo
<1> QED
  BY <1>1, <1>3, <1>5, DownParts, DownParts2

\* recv_line moves a part of the reply.
LEMMA DownCtlReads ==
  ASSUME WireTypeOK, UpInv, DownInv, CtlReads
  PROVE  DownInv'
<1>1. UNCHANGED <<peer, got, answer, code, sent>>
  BY DEF CtlReads, peerVars
<1>2. Back' = Back
  BY UpCtlReads
<1>3. Echo => Echo'
  BY <1>1, <1>2 DEF Echo
<1>4. ~Silent
  <2>1. Len(<<>>) = 0
    OBVIOUS
  <2>2. pipe["down"] # <<>>
    BY <2>1, WireAssumption DEF CtlReads, Least
  <2> QED
    BY <2>2 DEF Silent
<1> QED
  BY <1>1, <1>3, <1>4, DownMoves

\* The exit code follows from the beginning of a reply.
LEMMA Truthful ==
  ASSUME NEW a \in Replies, NEW x \in Text, NEW y \in Text, x \o y = Encode(a) \o <<LF>>
  PROVE  ExitCode(FirstLine(x)) \in {0, 4} =>
           (ExitCode(FirstLine(x)) = 0 <=> Flag(a, "ok"))
<1>1. PICK e : e = Encode(a)
  OBVIOUS
<1>2. /\ e \in Text /\ Clean(e, 1, Len(e)) /\ Len(e) \in Nat
      /\ Decode(e).ok /\ Decode(e).v = a
  BY <1>1, Coded
<1>3. PICK n \in 0 .. Len(e) : FirstLine(x) = SubSeq(e, 1, n)
  BY <1>1, <1>2, ReplyLine
<1>4. CASE n = 0
  <2>1. SubSeq(e, 1, 0) = <<>>
    BY <1>2, SubSeqEmpty DEF Text
  <2>2. ExitCode(FirstLine(x)) = 3
    BY <2>1, <1>3, <1>4 DEF ExitCode
  <2> QED
    BY <2>2
<1>5. CASE n \in 1 .. Len(e) - 1
  <2>1. ~Decode(SubSeq(e, 1, n)).ok
    BY <1>1, <1>5, CutAssumption
  <2>2. ExitCode(FirstLine(x)) = 3
    BY <2>1, <1>3 DEF ExitCode
  <2> QED
    BY <2>2
<1>6. CASE n = Len(e)
  <2>1. SubSeq(e, 1, Len(e)) = e
    BY <1>2, SubSeqFull DEF Text
  <2>2. FirstLine(x) = e
    BY <2>1, <1>3, <1>6
  <2>3. ExitCode(e) = 3 \/ ExitCode(e) = (IF Flag(a, "ok") THEN 0 ELSE 4)
    BY <1>2 DEF ExitCode
  <2> QED
    BY <2>2, <2>3
<1>7. n = 0 \/ n \in 1 .. Len(e) - 1 \/ n = Len(e)
  BY <1>2, <1>3
<1> QED
  BY <1>4, <1>5, <1>6, <1>7

\* The first of four texts is a beginning of all of them.
Leads(a, b, c, d) == \E y \in Text : ((a \o b) \o c) \o d = a \o y

LEMMA Regrouped ==
  ASSUME NEW a \in Text, NEW b \in Text, NEW c \in Text, NEW d \in Text
  PROVE  Leads(a, b, c, d)
<1>1. PICK e : e = b \o c
  OBVIOUS
<1>2. e \in Text
  BY <1>1, Glued
<1>3. (a \o b) \o c = a \o e
  BY <1>1, Associated
<1>4. (a \o e) \o d = a \o (e \o d)
  BY <1>2, Associated
<1>5. e \o d \in Text
  BY <1>2, Glued
<1> QED
  BY <1>3, <1>4, <1>5 DEF Leads

\* The exit code, with the whole reply or without.
LEMMA DownCtlExits ==
  ASSUME WireTypeOK, UpInv, DownInv, CtlExits
  PROVE  DownInv'
<1>1. /\ UNCHANGED <<peer, todo, pipe, sent, got, answer, acc>>
      /\ code' = ExitCode(FirstLine(acc)) /\ peer = "ctl"
  BY DEF CtlExits, Waiting, peerVars
<1>2. Back' = Back
  BY <1>1 DEF Back
<1>3. (Silent => Silent') /\ (Echo => Echo')
  BY <1>1, <1>2 DEF Silent, Echo
<1>4. CASE got = <<>>
  <2>1. Silent
    BY <1>4, DownParts
  <2>2. FirstLine(acc) = <<>>
    BY <2>1 DEF Silent, FirstLine, HasLine
  <2>3. code' = 3
    BY <2>2, <1>1 DEF ExitCode
  <2>4. code' \notin {0, 4}
    BY <2>3
  <2> QED
    BY <2>1, <2>4, <1>1, <1>3, <1>4, DownParts2
<1>5. CASE got # <<>>
  <2>1. Echo
    BY <1>1, <1>5, DownParts
  <2>2. PICK z \in Text : answer \in Replies /\ Back \o z = Encode(answer) \o <<LF>>
    BY <2>1 DEF Echo
  <2>3. acc \in Text /\ pipe["down"] \in Text /\ todo["down"] \in Text
    BY BothEnds DEF WireTypeOK
  <2>4. PICK b, c : b = pipe["down"] /\ c = todo["down"]
    OBVIOUS
  <2>5. acc \in Text /\ b \in Text /\ c \in Text /\ z \in Text
    BY <2>2, <2>3, <2>4
  <2>6. PICK y \in Text : ((acc \o b) \o c) \o z = acc \o y
    <3>1. Leads(acc, b, c, z)
      BY <2>5, Regrouped
    <3> QED
      BY <3>1 DEF Leads
  <2>7. acc \o y = Encode(answer) \o <<LF>>
    BY <2>2, <2>4, <2>6 DEF Back
  <2>8. code' \in {0, 4} => (code' = 0 <=> Flag(answer, "ok"))
    BY <2>2, <2>5, <2>6, <2>7, <1>1, Truthful
  <2>9. got = sent /\ sent # <<>>
    <3>1. PICK at, v, w : Up(at, v, w, "ctl", got, lines, Stream, todo["up"], sent, Intact)
      BY <1>1 DEF UpInv
    <3>2. got \in Seq(Messages("ctl"))
      BY <1>1 DEF WireTypeOK
    <3>3. got = sent
      BY <3>1, <3>2, <1>5, UpOne
    <3> QED
      BY <3>3, <1>5
  <2>10. Flag(answer', "ok") = Flag(answer, "ok") /\ peer' # "agent" /\ got' # <<>>
    BY <1>1, <1>5
  <2> QED
    BY <2>1, <2>8, <2>9, <2>10, <1>1, <1>3, DownParts2
<1> QED
  BY <1>4, <1>5

\* The next peer has got nothing yet.
LEMMA DownConnect ==
  ASSUME Connect
  PROVE  DownInv'
<1>1. /\ todo' = [d \in Ends |-> <<>>] /\ pipe' = [d \in Ends |-> <<>>]
      /\ acc' = <<>> /\ code' = Running /\ got' = <<>>
  BY DEF Connect
<1>2. Silent'
  BY <1>1 DEF Silent, Ends
<1>3. code' \notin {0, 4}
  BY <1>1 DEF Running
<1> QED
  BY <1>1, <1>2, <1>3, DownParts2

\* Neither has the first.
LEMMA DownInit ==
  ASSUME WireInit
  PROVE  DownInv
<1>1. /\ todo = [d \in Ends |-> <<>>] /\ pipe = [d \in Ends |-> <<>>]
      /\ acc = <<>> /\ code = Running /\ got = <<>>
  BY DEF WireInit
<1>2. Silent
  BY <1>1 DEF Silent, Ends
<1>3. code \notin {0, 4}
  BY <1>1 DEF Running
<1> QED
  BY <1>1, <1>2, <1>3, DownParts

-----------------------------------------------------------------------------
(* Every step *)

\* The invariant holds at the start.
LEMMA InvInit == WireInit => WireInv
BY UpInit, DownInit, FileInit DEF WireInv

\* Steps that do not touch the way back.
LEMMA DownOthers ==
  ASSUME WireTypeOK, UpInv, DownInv, Read \/ Extract \/ HandleEof \/ AgentEnds
  PROVE  DownInv'
<1>1. UNCHANGED <<peer, got, answer, code, sent, acc>>
  BY DEF Read, Extract, HandleEof, AgentEnds, peerVars, ctlVars
<1>2. pipe'["down"] = pipe["down"]
  BY UpRead DEF Extract, HandleEof, AgentEnds
<1>3. todo'["down"] = todo["down"]
  BY BothEnds DEF Read, Extract, HandleEof, AgentEnds
<1> QED
  BY <1>1, <1>2, <1>3, DownStays

\* A peer begins to write.
LEMMA InvSends ==
  ASSUME WireTypeOK, UpInv, DownInv, AgentSends \/ CtlAsks
  PROVE  WireTypeOK' /\ UpInv' /\ DownInv'
<1>1. CASE AgentSends
  <2>1. PICK m \in AgentMessages : Send(m)
    BY <1>1 DEF AgentSends
  <2>2. m \in Messages(peer) /\ Len(sent) < Limit(peer) /\ peer = "agent"
    BY <1>1, <2>1 DEF AgentSends, Messages, Limit
  <2> QED
    BY <2>1, <2>2, UpSendStep, DownSend
<1>2. CASE CtlAsks
  <2>1. PICK m \in Commands : Send(m)
    BY <1>2 DEF CtlAsks
  <2>2. Len(<<>>) = 0
    OBVIOUS
  <2>3. m \in Messages(peer) /\ Len(sent) < Limit(peer) /\ sent = <<>>
    BY <1>2, <2>1, <2>2 DEF CtlAsks, Messages, Limit
  <2> QED
    BY <2>1, <2>3, UpSendStep, DownSend
<1> QED
  BY <1>1, <1>2

\* Steps of others.
LEMMA InvStutters ==
  ASSUME WireInv, UNCHANGED wireVars
  PROVE  WireInv'
<1>1. /\ UNCHANGED <<peer, capacity, todo, pipe, torn, closed, open, m_buf, lines>>
      /\ UNCHANGED <<sent, got, answer, acc, code, file>>
  BY DEF wireVars, peerVars, ctlVars
<1>2. WireTypeOK'
  BY <1>1 DEF WireInv, WireTypeOK
<1>3. UpInv'
  <2>1. Stream' = Stream /\ Intact' = Intact
    BY <1>1 DEF Stream, Intact
  <2>2. closed' => todo["up"] = <<>>
    BY <1>1 DEF WireInv, UpInv
  <2> QED
    BY <2>1, <2>2, <1>1, UpStays DEF WireInv
<1>4. DownInv'
  BY <1>1, DownStays DEF WireInv
<1>5. FileInv'
  BY <1>1 DEF WireInv, FileInv
<1> QED
  BY <1>2, <1>3, <1>4, <1>5 DEF WireInv

\* Every step keeps the invariant.
LEMMA InvNext == WireInv /\ [WireNext]_wireVars => WireInv'
<1> SUFFICES ASSUME WireInv, WireNext PROVE WireInv'
  BY InvStutters
<1>1. WireTypeOK /\ UpInv /\ DownInv /\ FileInv
  BY DEF WireInv
<1>2. FileInv'
  BY <1>1, FileNext
<1> SUFFICES WireTypeOK' /\ UpInv' /\ DownInv'
  BY <1>2 DEF WireInv
<1>3. ASSUME NEW d \in Ends, WriteSome(d) PROVE WireTypeOK' /\ UpInv' /\ DownInv'
  BY <1>1, <1>3, WriteMoves, UpWriteSome, DownWriteSome
<1>4. ASSUME NEW d \in Ends, WriteFails(d) PROVE WireTypeOK' /\ UpInv' /\ DownInv'
  BY <1>1, <1>4, FailMoves, UpWriteFails, DownWriteFails
<1>5. CASE Read
  BY <1>1, <1>5, UpRead, DownOthers
<1>6. CASE Extract
  BY <1>1, <1>6, UpExtractStep, DownOthers
<1>7. CASE OnLine
  BY <1>1, <1>7, UpOnLine, DownOnLine
<1>8. CASE HandleEof
  BY <1>1, <1>8, UpHandleEof, DownOthers
<1>9. CASE AgentSends \/ CtlAsks
  BY <1>1, <1>9, InvSends
<1>10. CASE AgentEnds
  BY <1>1, <1>10, UpAgentEnds, DownOthers
<1>11. CASE CtlReads
  BY <1>1, <1>11, UpCtlReads, DownCtlReads
<1>12. CASE CtlExits
  BY <1>1, <1>12, UpCtlExits, DownCtlExits
<1>13. CASE Connect
  BY <1>1, <1>13, UpConnect, DownConnect
<1> QED
  BY <1>3, <1>4, <1>5, <1>6, <1>7, <1>8, <1>9, <1>10, <1>11, <1>12, <1>13 DEF WireNext

-----------------------------------------------------------------------------
(* What the invariant says *)

\* The messages decoded are those the witness at names.
LEMMA InvDelivered == WireInv => DeliveredInOrder
<1> SUFFICES ASSUME WireInv PROVE DeliveredInOrder
  OBVIOUS
<1>1. PICK at, v, w : Up(at, v, w, peer, got, lines, Stream, todo["up"], sent, Intact)
  BY DEF WireInv, UpInv
<1>2. /\ got \in Seq(Messages(peer)) /\ sent \in Seq(Messages(peer)) /\ Gotten(at, v[0], got, sent)
  BY <1>1 DEF WireInv, WireTypeOK, Up, IsLog
<1>3. DOMAIN got = 1 .. Len(got) /\ DOMAIN sent = 1 .. Len(sent)
  BY <1>2
<1>4. PICK f : f = [i \in DOMAIN got |-> at[i]]
  OBVIOUS
<1>5. f \in [DOMAIN got -> DOMAIN sent]
  BY <1>2, <1>3, <1>4 DEF Gotten
<1>6. \A i, j \in DOMAIN got : i < j => f[i] < f[j]
  BY <1>2, <1>3, <1>4 DEF Gotten
<1>7. \A i \in DOMAIN got : got[i] = sent[f[i]]
  BY <1>2, <1>3, <1>4 DEF Gotten
<1> QED
  BY <1>5, <1>6, <1>7 DEF DeliveredInOrder

\* The way back says what an exit code means.
LEMMA InvExitCode == WireInv => ExitCodeTruthful
BY DEF WireInv, DownInv, ExitCodeTruthful

\* The file says what was written to it.
LEMMA InvConfig == WireInv => ConfigWhole
BY FileReads DEF WireInv, ConfigWhole, Files

\* Without a failed write the witnesses count every message.
LEMMA InvNothingLost == WireInv => NothingLost
<1> SUFFICES ASSUME WireInv, Intact PROVE
      /\ open
      /\ todo["up"] = <<>> /\ pipe["up"] = <<>> /\ lines = <<>> /\ ~HasLine(m_buf)
           => got = sent
  BY DEF NothingLost, Intact
<1>1. open
  BY DEF WireInv, UpInv
<1>2. ASSUME todo["up"] = <<>>, pipe["up"] = <<>>, lines = <<>>, ~HasLine(m_buf)
      PROVE  got = sent
  <2>1. m_buf \in Text /\ got \in Seq(Messages(peer))
    BY DEF WireInv, WireTypeOK
  <2>2. m_buf \o <<>> = m_buf
    BY <2>1, ConcatEmptySeq DEF Text
  <2>3. Stream = m_buf
    BY <2>2, <1>2 DEF Stream
  <2>4. PICK at, v, w : Up(at, v, w, peer, got, <<>>, m_buf, <<>>, sent, Intact)
    BY <2>3, <1>2 DEF WireInv, UpInv
  <2>5. /\ Gotten(at, v[0], got, sent) /\ sent \in Seq(Messages(peer))
        /\ Whole(at, v, got, <<>>) /\ Exact(w, m_buf, sent) /\ v[Len(<<>>)] = w[0]
    BY <2>4 DEF Up, IsLog
  <2>6. LastMark(m_buf, 0)
    <3>1. DOMAIN m_buf = 1 .. Len(m_buf)
      BY <2>1 DEF Text
    <3> QED
      BY <3>1, <1>2 DEF LastMark, Mark, Clean, HasLine
  <2>7. 0 \in 0 .. Len(m_buf)
    BY <2>1 DEF Text
  <2>8. w[0] = Len(sent)
    BY <2>5, <2>6, <2>7 DEF Exact
  <2>9. Len(got) = Len(sent) /\ \A i \in 1 .. Len(got) : at[i] = i
    <3>1. Len(<<>>) = 0
      OBVIOUS
    <3>2. Len(got) = v[0] /\ \A i \in 1 .. Len(got) : at[i] = i
      BY <2>5 DEF Whole
    <3> QED
      BY <3>1, <3>2, <2>5, <2>8
  <2>10. \A i \in 1 .. Len(got) : got[i] = sent[i]
    BY <2>5, <2>9 DEF Gotten
  <2> QED
    BY <2>1, <2>5, <2>9, <2>10, SeqEqual
<1> QED
  BY <1>1, <1>2

-----------------------------------------------------------------------------
(* Theorems *)

\* In every reachable state the buffers hold characters and the daemon has
\* decoded nothing but messages of its peer's kind (write_line, LineBuffer,
\* handle_client, recv_line).
THEOREM WireTypeCorrect == WireSpec => []WireTypeOK
<1>1. WireInv => WireTypeOK
  BY DEF WireInv
<1> QED
  BY <1>1, InvInit, InvNext, PTL DEF WireSpec

\* The daemon decodes what was sent, in that order and at most once each,
\* whatever the sockets hold, the reads take and the failed writes leave
\* (write_line, LineBuffer::feed, handle_client).
THEOREM OrderKept == WireSpec => []DeliveredInOrder
  BY InvInit, InvNext, InvDelivered, PTL DEF WireSpec

\* A connection on which no write_line has failed stays open, and loses no
\* message (write_line, LineBuffer::feed, handle_client).
THEOREM NoMessageLost == WireSpec => []NothingLost
  BY InvInit, InvNext, InvNothingLost, PTL DEF WireSpec

\* draind-ctl exits with 0 or 4 only with what the daemon has answered to its
\* command, however much of the reply arrives (recv_line, main of draind-ctl).
THEOREM ExitCodeTrue == WireSpec => []ExitCodeTruthful
  BY InvInit, InvNext, InvExitCode, PTL DEF WireSpec

\* A configuration file that can be read is the administrator's, but for the
\* active profile, wherever the writes of it have ended (persist_active).
THEOREM ConfigKept == WireSpec => []ConfigWhole
  BY InvInit, InvNext, InvConfig, PTL DEF WireSpec
=============================================================================
