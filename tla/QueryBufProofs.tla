---------------------------- MODULE QueryBufProofs ----------------------------
(***************************************************************************)
(* The input of a client, for any requests, bounds and cuts of the stream: *)
(* the string of the query buffer, the state of the parser between reads,  *)
(* and the progress of processInputBuffer.  Last, with the output: the     *)
(* answers of a session.                                                   *)
(***************************************************************************)
EXTENDS Session, ReplyProofs

-----------------------------------------------------------------------------
\* The bytes of a stream.  Those that end a request are counted.
Marked == [byte : Bytes, cut : BOOLEAN, ends : {"no", "multibulk", "inline", "raw"}]
Unended == [byte : Bytes, cut : BOOLEAN, ends : {"no"}]

Ending(b) == {i \in DOMAIN b : b[i].ends \in {"multibulk", "inline"}}
Ends(b) == Cardinality(Ending(b))

\* A line with a number in it.
LEMMA NumberLine ==
  ASSUME NEW x \in Bytes, NEW m \in Seq(Bytes)
  PROVE  LET z == <<x>> \o m \o <<"CR", "LF">>
         IN  /\ z \in Seq(Bytes) /\ Len(z) = Len(m) + 3 /\ z[1] = x
             /\ \A i \in 1 .. Len(m) : z[1 + i] = m[i]
             /\ z[Len(m) + 2] = "CR" /\ z[Len(m) + 3] = "LF"
<1> DEFINE a == <<x>>
           b == <<"CR", "LF">>
           am == a \o m
           z == am \o b
<1>1. /\ a \in Seq(Bytes) /\ Len(a) = 1 /\ a[1] = x
      /\ b \in Seq(Bytes) /\ Len(b) = 2 /\ b[1] = "CR" /\ b[2] = "LF" /\ Len(m) \in Nat
  BY QueryAssumption
<1> HIDE DEF a, b
<1>2. /\ am \in Seq(Bytes) /\ Len(am) = 1 + Len(m) /\ am[1] = x
      /\ \A i \in 1 .. Len(m) : am[1 + i] = m[i]
  <2>1. am \in Seq(Bytes) /\ Joined(am, a, m)
    BY <1>1, JoinedIs
  <2>2. 1 \in 1 .. Len(a)
    BY <1>1
  <2> HIDE DEF am
  <2> QED BY <1>1, <2>1, <2>2 DEF Joined
<1> HIDE DEF am
<1>3. /\ z \in Seq(Bytes) /\ Len(z) = Len(am) + 2
      /\ \A i \in 1 .. Len(am) : z[i] = am[i]
      /\ z[Len(am) + 1] = b[1] /\ z[Len(am) + 2] = b[2]
  <2>1. z \in Seq(Bytes) /\ Joined(z, am, b)
    BY <1>1, <1>2, JoinedIs
  <2>2. 1 \in 1 .. Len(b) /\ 2 \in 1 .. Len(b)
    BY <1>1
  <2> HIDE DEF z
  <2> QED BY <1>1, <2>1, <2>2 DEF Joined
<1> HIDE DEF z
<1>4. \A i \in 1 .. Len(m) : z[1 + i] = m[i]
  BY <1>1, <1>2, <1>3
<1>5. /\ z \in Seq(Bytes) /\ Len(z) = Len(m) + 3 /\ z[1] = x
      /\ z[Len(m) + 2] = "CR" /\ z[Len(m) + 3] = "LF"
  BY <1>1, <1>2, <1>3
<1> QED BY <1>4, <1>5 DEF z, am, a, b

\* Bytes of which none ends a request.
LEMMA PlainType ==
  ASSUME NEW bytes \in Seq(Bytes), NEW cut \in BOOLEAN
  PROVE  Plain(bytes, cut) \in Seq(Unended)
<1>1. Len(bytes) \in Nat /\ DOMAIN bytes = 1 .. Len(bytes) /\ \A i \in 1 .. Len(bytes) : bytes[i] \in Bytes
  OBVIOUS
<1>2. \A i \in 1 .. Len(bytes) : [byte |-> bytes[i], cut |-> cut, ends |-> "no"] \in Unended
  BY <1>1 DEF Unended
<1> HIDE DEF Unended
<1> QED BY <1>1, <1>2 DEF Plain

\* The last byte is marked, and a cut is allowed after it.
LEMMA ClosedType ==
  ASSUME NEW b \in Seq(Unended), NEW kind \in {"no", "multibulk", "inline", "raw"}
  PROVE  /\ Closed(b, kind) \in Seq(Marked)
         /\ kind = "no" => Closed(b, kind) \in Seq(Unended)
         /\ DOMAIN Closed(b, kind) = 1 .. Len(b)
         /\ \A i \in 1 .. Len(b) : i # Len(b) => Closed(b, kind)[i].ends = "no"
<1> DEFINE z == Closed(b, kind)
           last == [byte |-> b[Len(b)].byte, cut |-> TRUE, ends |-> kind]
<1>1. Len(b) \in Nat /\ DOMAIN b = 1 .. Len(b) /\ \A i \in 1 .. Len(b) : b[i] \in Unended
  OBVIOUS
<1>2. \A i \in 1 .. Len(b) : (i < Len(b) \/ i = Len(b)) /\ ~(i < Len(b) /\ i = Len(b))
  <2>1. \A n \in Nat : \A i \in 1 .. n : (i < n \/ i = n) /\ ~(i < n /\ i = n)
    OBVIOUS
  <2> QED BY <1>1, <2>1
<1>3. DOMAIN z = 1 .. Len(b) /\ z = [i \in 1 .. Len(b) |-> z[i]]
  BY <1>1 DEF Closed
<1>4. \A i \in 1 .. Len(b) : z[i] = IF i = Len(b) THEN last ELSE b[i]
  BY <1>1, <1>2 DEF Closed
<1>5. \A r \in Unended : r \in Marked /\ r.ends = "no"
  BY DEF Marked, Unended
<1>6. 1 .. Len(b) # {} => last \in Marked /\ (kind = "no" => last \in Unended)
  <2>1. 1 .. Len(b) # {} => b[Len(b)] \in Unended
    BY <1>1
  <2> QED BY <2>1 DEF Marked, Unended
<1> HIDE DEF last, z
<1>7. \A i \in 1 .. Len(b) :
        z[i] \in Marked /\ (kind = "no" => z[i] \in Unended) /\ (i # Len(b) => z[i].ends = "no")
  BY <1>1, <1>4, <1>5, <1>6
<1>8. z \in Seq(Marked) /\ (kind = "no" => z \in Seq(Unended))
  <2> HIDE DEF Marked, Unended
  <2> QED BY <1>1, <1>3, <1>7
<1> QED BY <1>3, <1>7, <1>8 DEF z

\* One argument, with its length in front.
LEMMA BulkType ==
  ASSUME NEW text \in Seq(Bytes), Numeral(Len(text)) \in Seq(Bytes)
  PROVE  BulkBytes(text) \in Seq(Unended)
<1> DEFINE a == <<"$">> \o Numeral(Len(text)) \o <<"CR", "LF">>
           x == CutAtEnd(Plain(a, FALSE))
           y == Plain(text \o <<"CR">>, TRUE)
           z == Plain(<<"LF">>, FALSE)
<1>1. a \in Seq(Bytes) /\ <<"CR">> \in Seq(Bytes) /\ <<"LF">> \in Seq(Bytes)
  BY NumberLine, QueryAssumption
<1>2. text \o <<"CR">> \in Seq(Bytes)
  BY <1>1, ConcatProperties
<1>3. x \in Seq(Unended)
  <2>1. Plain(a, FALSE) \in Seq(Unended)
    BY <1>1, PlainType
  <2> HIDE DEF a
  <2> QED BY <2>1, ClosedType DEF CutAtEnd
<1>4. y \in Seq(Unended) /\ z \in Seq(Unended)
  BY <1>1, <1>2, PlainType
<1> HIDE DEF x, y, z
<1>5. x \o y \in Seq(Unended)
  BY <1>3, <1>4, ConcatProperties
<1>6. (x \o y) \o z \in Seq(Unended)
  <2> DEFINE xy == x \o y
  <2>1. xy \in Seq(Unended)
    BY <1>5
  <2> HIDE DEF xy
  <2>2. xy \o z \in Seq(Unended)
    BY <1>4, <2>1, ConcatProperties
  <2> QED BY <2>2 DEF xy
<1>7. BulkBytes(text) = (x \o y) \o z
  BY DEF BulkBytes, x, y, z
<1> QED BY <1>6, <1>7

\* A request of either kind.
LEMMA MultibulkType ==
  ASSUME NEW args \in Seq(Seq(Bytes)), Numeral(Len(args)) \in Seq(Bytes),
         \A j \in DOMAIN args : Numeral(Len(args[j])) \in Seq(Bytes)
  PROVE  MultibulkBytes(args) \in Seq(Unended)
<1> DEFINE a == <<"*">> \o Numeral(Len(args)) \o <<"CR", "LF">>
           p == Plain(a, FALSE)
           q1 == [i \in DOMAIN args |-> BulkBytes(args[i])]
           f == FlattenSeq(q1)
<1>1. a \in Seq(Bytes)
  BY NumberLine, QueryAssumption
<1>2. p \in Seq(Unended)
  BY <1>1, PlainType
<1>3. q1 \in Seq(Seq(Unended))
  <2>1. Len(args) \in Nat /\ DOMAIN args = 1 .. Len(args) /\ \A i \in 1 .. Len(args) : args[i] \in Seq(Bytes)
    OBVIOUS
  <2>2. \A i \in 1 .. Len(args) : BulkBytes(args[i]) \in Seq(Unended)
    BY <2>1, BulkType
  <2> QED BY <2>1, <2>2
<1>4. f \in Seq(Unended)
  <2> HIDE DEF q1
  <2> QED BY <1>3, FlattenType
<1>5. MultibulkBytes(args) = p \o f
  BY DEF MultibulkBytes
<1> HIDE DEF p, f
<1> QED BY <1>2, <1>4, <1>5, ConcatProperties

\* The words of an inline request, with a separator behind each.
LEMMA InlineType ==
  ASSUME NEW args \in Seq(Seq(Bytes))
  PROVE  InlineBytes(args) \in Seq(Unended)
<1> DEFINE w(i) == args[i] \o (IF i < Len(args) THEN <<"SP">> ELSE <<"CR", "LF">>)
           q1 == [i \in DOMAIN args |-> w(i)]
           f == FlattenSeq(q1)
<1>1. Len(args) \in Nat /\ DOMAIN args = 1 .. Len(args) /\ \A i \in 1 .. Len(args) : args[i] \in Seq(Bytes)
  OBVIOUS
<1>2. \A i \in 1 .. Len(args) : w(i) \in Seq(Bytes)
  <2> SUFFICES ASSUME NEW i \in 1 .. Len(args) PROVE w(i) \in Seq(Bytes)
    OBVIOUS
  <2> DEFINE x == IF i < Len(args) THEN <<"SP">> ELSE <<"CR", "LF">>
  <2>1. x \in Seq(Bytes)
    <3>1. <<"SP">> \in Seq(Bytes) /\ <<"CR", "LF">> \in Seq(Bytes)
      BY QueryAssumption
    <3> QED BY <3>1
  <2> HIDE DEF x
  <2>2. args[i] \o x \in Seq(Bytes)
    BY <1>1, <2>1, ConcatProperties
  <2> QED BY <2>2 DEF x
<1>3. q1 \in Seq(Seq(Bytes))
  <2> HIDE DEF w
  <2> QED BY <1>1, <1>2
<1>4. f \in Seq(Bytes)
  <2> HIDE DEF q1
  <2> QED BY <1>3, FlattenType
<1>5. InlineBytes(args) = Plain(f, FALSE)
  BY DEF InlineBytes
<1> HIDE DEF f
<1> QED BY <1>4, <1>5, PlainType

-----------------------------------------------------------------------------
\* How many bytes end a request.
LEMMA EndsNat ==
  ASSUME NEW b \in Seq(Marked)
  PROVE  IsFiniteSet(Ending(b)) /\ Ends(b) \in Nat /\ Ending(b) \subseteq 1 .. Len(b)
<1>1. DOMAIN b = 1 .. Len(b) /\ Len(b) \in Nat
  OBVIOUS
<1>2. IsFiniteSet(1 .. Len(b))
  BY <1>1, FS_Interval
<1>3. Ending(b) \subseteq 1 .. Len(b)
  BY <1>1 DEF Ending
<1> QED BY <1>2, <1>3, FS_Subset, FS_CardinalityType DEF Ends

\* The ends of two texts add up.
LEMMA EndsConcat ==
  ASSUME NEW a \in Seq(Marked), NEW b \in Seq(Marked)
  PROVE  Ends(a \o b) = Ends(a) + Ends(b)
<1> DEFINE m == Len(a)
           z == a \o b
           behind == Ending(z) \ Ending(a)
           shift == [i \in Ending(b) |-> i + m]
<1>1. /\ m \in Nat /\ Len(b) \in Nat /\ z \in Seq(Marked) /\ Len(z) = m + Len(b)
      /\ \A i \in 1 .. m + Len(b) : z[i] = IF i <= m THEN a[i] ELSE b[i - m]
      /\ DOMAIN a = 1 .. m /\ DOMAIN b = 1 .. Len(b) /\ DOMAIN z = 1 .. m + Len(b)
  BY ConcatProperties
<1>2. IsFiniteSet(Ending(a)) /\ IsFiniteSet(Ending(b)) /\ Ending(b) \subseteq 1 .. Len(b)
      /\ Ends(a) \in Nat /\ Ends(b) \in Nat /\ Ending(a) \subseteq 1 .. m
  BY EndsNat
<1> HIDE DEF z, m
<1>3. Ending(a) \subseteq Ending(z)
  BY <1>1 DEF Ending
<1>4. \A i \in Ending(b) : i + m \in behind
  BY <1>1 DEF Ending
<1>5. \A j \in behind : j - m \in Ending(b) /\ (j - m) + m = j
  BY <1>1 DEF Ending
<1>6. shift \in Bijection(Ending(b), behind)
  <2>1. shift \in [Ending(b) -> behind]
    <3> HIDE DEF behind
    <3> QED BY <1>4
  <2>2. \A i, j \in Ending(b) : shift[i] = shift[j] => i = j
    <3>1. \A i \in Ending(b) : i \in Int
      BY <1>2
    <3> QED BY <1>1, <3>1
  <2>3. \A j \in behind : \E i \in Ending(b) : shift[i] = j
    <3> HIDE DEF behind
    <3> QED BY <1>5
  <2> HIDE DEF shift, behind
  <2> QED BY <2>1, <2>2, <2>3 DEF Bijection, Injection, Surjection, IsInjective
<1>7. IsFiniteSet(behind) /\ Cardinality(behind) = Ends(b)
  <2> HIDE DEF shift, behind
  <2> QED BY <1>2, <1>6, FS_Bijection DEF ExistsBijection, Ends
<1>8. Ending(z) = Ending(a) \cup behind /\ Ending(a) \cap behind = {}
  BY <1>3
<1>9. Cardinality(Ending(a) \cup behind) = Cardinality(Ending(a)) + Cardinality(behind) - Cardinality(Ending(a) \cap behind)
  <2> HIDE DEF behind
  <2> QED BY <1>2, <1>7, FS_Union
<1>10. Cardinality({}) = 0
  BY FS_EmptySet
<1>11. Cardinality(Ending(z)) = Cardinality(Ending(a)) + Cardinality(behind) - 0
  BY <1>8, <1>9, <1>10
<1>12. Ends(z) = Ends(a) + Ends(b)
  <2> HIDE DEF behind
  <2> QED BY <1>2, <1>7, <1>11 DEF Ends
<1> QED BY <1>12 DEF z

\* A request has one end at most.
LEMMA EncodeType ==
  ASSUME NEW r \in Requests, WellFormed(r)
  PROVE  Encode(r) \in Seq(Marked) /\ Ends(Encode(r)) <= 1
<1>1. ASSUME NEW b \in Seq(Marked), \A i \in 1 .. Len(b) : i # Len(b) => b[i].ends \notin {"multibulk", "inline"}
      PROVE  Ends(b) <= 1
  <2>1. Ending(b) \subseteq {Len(b)}
    <3>1. DOMAIN b = 1 .. Len(b)
      OBVIOUS
    <3> QED BY <1>1, <3>1 DEF Ending
  <2>2. IsFiniteSet({Len(b)}) /\ Cardinality({Len(b)}) = 1
    BY FS_Singleton
  <2> QED BY <2>1, <2>2, FS_Subset DEF Ends
<1>2. ASSUME NEW b \in Seq(Unended), NEW kind \in {"multibulk", "inline"}
      PROVE  Closed(b, kind) \in Seq(Marked) /\ Ends(Closed(b, kind)) <= 1
  <2> DEFINE z == Closed(b, kind)
  <2>1. /\ z \in Seq(Marked) /\ DOMAIN z = 1 .. Len(b) /\ Len(b) \in Nat
        /\ \A i \in 1 .. Len(b) : i # Len(b) => z[i].ends = "no"
    BY ClosedType
  <2> HIDE DEF z
  <2>2. Len(z) = Len(b)
    BY <2>1
  <2>3. Ends(z) <= 1
    BY <1>1, <2>1, <2>2
  <2> QED BY <2>1, <2>3 DEF z
<1>3. CASE r.kind = "multibulk"
  <2>1. r.args \in Seq(Seq(Bytes))
    BY <1>3 DEF Requests
  <2>2. MultibulkBytes(r.args) \in Seq(Unended)
    BY <1>3, <2>1, MultibulkType DEF WellFormed, Written
  <2>3. Encode(r) = Closed(MultibulkBytes(r.args), "multibulk")
    BY <1>3 DEF Encode
  <2> QED BY <1>2, <2>2, <2>3
<1>4. CASE r.kind = "inline"
  <2>1. r.args \in Seq(Seq(Bytes))
    BY <1>4 DEF Requests
  <2>2. Encode(r) = Closed(InlineBytes(r.args), "inline")
    BY <1>4 DEF Encode
  <2> QED BY <1>2, <2>1, <2>2, InlineType
<1>5. CASE r.kind = "raw"
  <2> DEFINE z == [i \in DOMAIN r.bytes |-> [byte |-> r.bytes[i], cut |-> FALSE, ends |-> "raw"]]
  <2>1. r.bytes \in Seq(Bytes)
    BY <1>5 DEF Requests
  <2>2. /\ Len(r.bytes) \in Nat /\ DOMAIN r.bytes = 1 .. Len(r.bytes)
        /\ \A i \in 1 .. Len(r.bytes) : r.bytes[i] \in Bytes
    BY <2>1
  <2>3. \A i \in 1 .. Len(r.bytes) : [byte |-> r.bytes[i], cut |-> FALSE, ends |-> "raw"] \in Marked
    BY <2>2 DEF Marked
  <2>4. z \in Seq(Marked) /\ Len(z) = Len(r.bytes) /\ \A i \in 1 .. Len(r.bytes) : z[i].ends = "raw"
    BY <2>2, <2>3
  <2>5. Encode(r) = z
    BY <1>5 DEF Encode
  <2> HIDE DEF z
  <2>6. Ends(z) <= 1
    BY <1>1, <2>4
  <2> QED BY <2>4, <2>5, <2>6
<1>6. r.kind \in {"multibulk", "inline", "raw"}
  BY DEF Requests
<1> QED BY <1>3, <1>4, <1>5, <1>6

\* A stream has no more ends than requests.
LEMMA EndsFlatten ==
  ASSUME NEW b \in Seq(Seq(Marked)), \A i \in 1 .. Len(b) : Ends(b[i]) <= 1
  PROVE  FlattenSeq(b) \in Seq(Marked) /\ Ends(FlattenSeq(b)) <= Len(b)
<1>0. FlattenSeq(b) \in Seq(Marked) /\ Len(b) \in Nat /\ \A i \in 1 .. Len(b) : b[i] \in Seq(Marked)
  BY FlattenType
<1>1. CASE b = <<>>
  <2>1. FlattenSeq(b) = <<>> /\ Len(b) = 0
    BY <1>1 DEF FlattenSeq
  <2>2. Ending(<<>>) = {}
    BY DEF Ending
  <2> QED BY <1>0, <2>1, <2>2, FS_EmptySet DEF Ends
<1>2. CASE b # <<>>
  <2>1. PICK f : Flattens(f, b) /\ FlattenSeq(b) = f[Len(b)]
    BY <1>2, FlattenSeqIs
  <2>2. \A i \in 1 .. Len(b) : f[i] = IF i = 1 THEN b[i] ELSE f[i - 1] \o b[i]
    BY <2>1 DEF Flattens
  <2>3. \A x, y \in Seq(Marked) : x \o y \in Seq(Marked) /\ Ends(x \o y) = Ends(x) + Ends(y) /\ Ends(x) \in Nat
    BY EndsConcat, EndsNat, ConcatProperties
  <2> DEFINE Bad == {i \in 1 .. Len(b) : ~(f[i] \in Seq(Marked) /\ Ends(f[i]) <= i)}
  <2>4. SUFFICES ASSUME Bad # {} PROVE FALSE
    <3>1. Len(b) \in 1 .. Len(b)
      BY <1>0, <1>2
    <3> QED BY <1>0, <2>1, <3>1
  <2>5. PICK i \in Bad : \A j \in Bad : i <= j
    <3>1. Bad \in SUBSET Nat
      BY <1>0
    <3> HIDE DEF Bad
    <3> QED BY <2>4, <3>1, LeastNatural
  <2>6. i \in 1 .. Len(b) /\ ~(f[i] \in Seq(Marked) /\ Ends(f[i]) <= i)
    OBVIOUS
  <2>7. CASE i = 1
    BY <1>0, <2>2, <2>6, <2>7
  <2>8. CASE i # 1
    <3>1. i - 1 \in 1 .. Len(b) /\ i - 1 \notin Bad
      <4>1. i - 1 \in 1 .. Len(b) /\ ~(i <= i - 1)
        BY <1>0, <2>6, <2>8
      <4> HIDE DEF Bad
      <4> QED BY <2>5, <4>1
    <3>2. f[i - 1] \in Seq(Marked) /\ Ends(f[i - 1]) <= i - 1
      BY <3>1
    <3>3. f[i] = f[i - 1] \o b[i] /\ b[i] \in Seq(Marked) /\ Ends(b[i]) <= 1
      BY <1>0, <2>2, <2>6, <2>8
    <3>4. f[i] \in Seq(Marked) /\ Ends(f[i]) = Ends(f[i - 1]) + Ends(b[i]) /\ Ends(f[i - 1]) \in Nat /\ Ends(b[i]) \in Nat
      BY <2>3, <3>2, <3>3
    <3> QED BY <2>6, <3>2, <3>3, <3>4
  <2> QED BY <2>7, <2>8
<1> QED BY <1>1, <1>2


-----------------------------------------------------------------------------
\* The client, its string, and its parser.
Fields == {"buf", "len", "free", "reqtype", "multibulklen", "bulklen", "argv", "close", "error"}

\* The string keeps its room and its NUL.
Sds(s) ==
  /\ s.buf \in Seq(Bytes) /\ s.len \in Nat /\ s.free \in Nat
  /\ s.len + s.free < Len(s.buf) /\ s.buf[s.len + 1] = "NUL"

\* Only a multibulk request wants arguments, and only a wanted one has a length.
Parser(s) ==
  /\ s.reqtype \in {"none", "inline", "multibulk"} /\ s.multibulklen \in Nat
  /\ s.bulklen \in Nat \cup {-1} /\ s.close \in BOOLEAN /\ s.error \in BOOLEAN
  /\ s.multibulklen > 0 => s.reqtype = "multibulk"
  /\ s.multibulklen = 0 => s.bulklen = -1

Valid(s) == DOMAIN s = Fields /\ Sds(s) /\ Parser(s)

\* Between two requests nothing is left of the first one.
Between(s) == s.multibulklen = 0 /\ ~s.close => s.argv = <<>> /\ s.reqtype # "multibulk"

\* The functions on the string leave the parser alone.
SameParser(t, s) ==
  /\ DOMAIN t = Fields /\ t.reqtype = s.reqtype /\ t.multibulklen = s.multibulklen
  /\ t.bulklen = s.bulklen /\ t.argv = s.argv /\ t.close = s.close /\ t.error = s.error

\* A string that keeps its bounds under the same parser is as good as before.
LEMMA SameIsValid ==
  ASSUME NEW s, Valid(s), NEW t, SameParser(t, s), Sds(t)
  PROVE  Valid(t) /\ (Between(s) => Between(t))
BY DEF Valid, Parser, SameParser, Between

\* Both strings show the same bytes, d bytes further on in the second.
Shows(t, s, d, l) == \A i \in 1 .. l : t.buf[i] = s.buf[d + i]

\* sdsMakeRoomFor: the string has the room that was asked for.
LEMMA RoomMade ==
  ASSUME NEW s, DOMAIN s = Fields, Sds(s), NEW addlen \in Int
  PROVE  LET t == sdsMakeRoomFor(s, addlen)
         IN  Sds(t) /\ SameParser(t, s) /\ t.len = s.len /\ t.free >= addlen /\ Shows(t, s, 0, s.len)
<1> DEFINE more == Grown(s.len + addlen) - s.len
           b == s.buf \o Nuls(more)
           t == [s EXCEPT !.buf = b, !.free = more]
<1>1. s.buf \in Seq(Bytes) /\ s.len \in Nat /\ s.free \in Nat /\ s.len + s.free < Len(s.buf)
      /\ Len(s.buf) \in Nat /\ s.buf[s.len + 1] = "NUL"
  BY DEF Sds
<1>2. CASE s.free >= addlen
  <2>1. sdsMakeRoomFor(s, addlen) = s
    BY <1>2 DEF sdsMakeRoomFor
  <2>2. \A i \in 1 .. s.len : 0 + i = i
    BY <1>1
  <2> QED BY <1>2, <2>1, <2>2 DEF SameParser, Shows
<1>3. CASE ~(s.free >= addlen)
  <2>1. sdsMakeRoomFor(s, addlen) = t
    BY <1>3 DEF sdsMakeRoomFor
  <2>2. more \in Nat /\ more >= addlen
    <3>1. SDS_MAX_PREALLOC \in Nat /\ s.len + addlen \in Nat
      BY <1>1, <1>3, QueryAssumption
    <3>2. Grown(s.len + addlen) \in Nat /\ Grown(s.len + addlen) >= s.len + addlen
      <4> DEFINE n == s.len + addlen
      <4>1. n \in Nat
        BY <3>1
      <4> HIDE DEF n
      <4>2. Grown(n) \in Nat /\ Grown(n) >= n
        BY <3>1, <4>1 DEF Grown
      <4> QED BY <4>2 DEF n
    <3> QED BY <1>1, <1>3, <3>2
  <2> HIDE DEF more
  <2>3. Nuls(more) \in Seq(Bytes) /\ Len(Nuls(more)) = more
    BY <2>2, QueryAssumption DEF Nuls
  <2>4. /\ b \in Seq(Bytes) /\ Len(b) = Len(s.buf) + more /\ b[s.len + 1] = s.buf[s.len + 1]
        /\ \A j \in 1 .. s.len : b[j] = s.buf[0 + j]
    <3> DEFINE x == Nuls(more)
               i == s.len + 1
    <3>1. i \in 1 .. Len(s.buf) /\ i <= Len(s.buf)
      BY <1>1
    <3>2. x \in Seq(Bytes) /\ Len(x) = more
      BY <2>3
    <3> HIDE DEF x, i
    <3>3. /\ s.buf \o x \in Seq(Bytes) /\ Len(s.buf \o x) = Len(s.buf) + Len(x)
          /\ \A j \in 1 .. Len(s.buf) + Len(x) :
               (s.buf \o x)[j] = IF j <= Len(s.buf) THEN s.buf[j] ELSE x[j - Len(s.buf)]
      BY <1>1, <3>2, ConcatProperties
    <3>4. i \in 1 .. Len(s.buf) + Len(x)
      BY <1>1, <2>2, <3>1, <3>2
    <3>5. (s.buf \o x)[i] = s.buf[i]
      BY <3>1, <3>3, <3>4
    <3>6. \A j \in 1 .. s.len : j \in 1 .. Len(s.buf) + Len(x) /\ j <= Len(s.buf) /\ 0 + j = j
      BY <1>1, <2>2, <3>2
    <3>7. \A j \in 1 .. s.len : (s.buf \o x)[j] = s.buf[0 + j]
      BY <3>3, <3>6
    <3> QED BY <3>2, <3>3, <3>5, <3>7 DEF x, i
  <2> HIDE DEF b
  <2>5. t.buf = b /\ t.len = s.len /\ t.free = more /\ SameParser(t, s)
    BY DEF Fields, SameParser
  <2> HIDE DEF t
  <2>6. Sds(t)
    BY <1>1, <2>2, <2>4, <2>5 DEF Sds
  <2>7. Shows(t, s, 0, s.len)
    BY <2>4, <2>5 DEF Shows
  <2> QED BY <2>1, <2>2, <2>5, <2>6, <2>7
<1> QED BY <1>2, <1>3

\* sdsrange: bytes in front are consumed, the room behind grows.
LEMMA RangeMoved ==
  ASSUME NEW s, DOMAIN s = Fields, Sds(s), NEW start \in Nat
  PROVE  LET t == sdsrange(s, start)
         IN  /\ Sds(t) /\ SameParser(t, s) /\ t.len <= s.len
             /\ start > 0 => t.len = 0 \/ t.len < s.len
             /\ t.len = (IF 0 >= s.len - start THEN 0 ELSE s.len - start) /\ Shows(t, s, start, t.len)
<1> DEFINE n == Max({0, s.len - start})
           b == [i \in DOMAIN s.buf |-> IF i <= n THEN s.buf[i + start]
                                        ELSE IF i = n + 1 THEN "NUL" ELSE s.buf[i]]
           f == s.free + s.len - n
           t == [s EXCEPT !.buf = b, !.free = f, !.len = n]
<1>1. s.buf \in Seq(Bytes) /\ s.len \in Nat /\ s.free \in Nat /\ s.len + s.free < Len(s.buf)
      /\ Len(s.buf) \in Nat /\ DOMAIN s.buf = 1 .. Len(s.buf)
      /\ \A i \in 1 .. Len(s.buf) : s.buf[i] \in Bytes
  BY DEF Sds
<1>2. CASE s.len = 0
  <2>1. sdsrange(s, start) = s
    BY <1>2 DEF sdsrange
  <2> QED BY <1>1, <1>2, <2>1 DEF SameParser, Shows
<1>3. CASE s.len # 0
  <2>1. sdsrange(s, start) = t
    BY <1>3 DEF sdsrange
  <2>2. n = IF 0 >= s.len - start THEN 0 ELSE s.len - start
    <3> DEFINE d == s.len - start
    <3>1. d \in Int
      BY <1>1
    <3> HIDE DEF d
    <3>2. Max({0, d}) = IF 0 >= d THEN 0 ELSE d
      BY <3>1, MaxOfTwo
    <3> QED BY <3>2 DEF d
  <2>3. n \in Nat /\ n <= s.len /\ (n + start <= s.len \/ n = 0)
    <3> HIDE DEF n
    <3> QED BY <1>1, <2>2
  <2>4. n \in Nat /\ n <= s.len /\ (start > 0 => n < s.len)
    <3> HIDE DEF n
    <3> QED BY <1>1, <1>3, <2>2
  <2> HIDE DEF n
  <2>5. \A i \in 1 .. Len(s.buf) : b[i] \in Bytes
    <3>1. ASSUME NEW i \in 1 .. Len(s.buf) PROVE b[i] \in Bytes
      <4>1. i <= n => i + start \in 1 .. Len(s.buf)
        BY <1>1, <2>3, <2>4
      <4>2. "NUL" \in Bytes
        BY QueryAssumption
      <4> QED BY <1>1, <4>1, <4>2
    <3> QED BY <3>1
  <2>6. b \in Seq(Bytes) /\ Len(b) = Len(s.buf) /\ b[n + 1] = "NUL"
    <3>1. n + 1 \in 1 .. Len(s.buf) /\ ~(n + 1 <= n)
      BY <1>1, <2>4
    <3>2. b[n + 1] = "NUL"
      BY <1>1, <3>1
    <3>3. b = [i \in 1 .. Len(s.buf) |-> b[i]]
      BY <1>1
    <3> DEFINE m == Len(s.buf)
    <3>4. m \in Nat /\ b = [i \in 1 .. m |-> b[i]] /\ \A i \in 1 .. m : b[i] \in Bytes
      BY <1>1, <2>5, <3>3
    <3> HIDE DEF b, m
    <3>5. b \in Seq(Bytes) /\ Len(b) = m
      BY <3>4
    <3> QED BY <3>2, <3>5 DEF m
  <2>7. f \in Nat /\ n + f = s.len + s.free
    BY <1>1, <2>4
  <2>10. \A i \in 1 .. n : b[i] = s.buf[start + i]
    BY <1>1, <2>4
  <2> HIDE DEF b, f
  <2>8. t.buf = b /\ t.len = n /\ t.free = f /\ SameParser(t, s)
    BY DEF Fields, SameParser
  <2> HIDE DEF t
  <2>9. Sds(t)
    BY <1>1, <2>4, <2>6, <2>7, <2>8 DEF Sds
  <2>11. Shows(t, s, start, t.len)
    BY <2>8, <2>10 DEF Shows
  <2> QED BY <2>1, <2>2, <2>4, <2>8, <2>9, <2>11
<1> QED BY <1>2, <1>3

\* A read: the bytes go behind those in the buffer, into the room made for them.
LEMMA BytesReceived ==
  ASSUME NEW s, Valid(s), NEW bytes \in Seq(Bytes), Len(bytes) <= ReadLen(s), ReadLen(s) \in Int
  PROVE  LET t == Received(s, bytes)
         IN  /\ Sds(t) /\ SameParser(t, s) /\ t.len = s.len + Len(bytes) /\ Shows(t, s, 0, s.len)
             /\ \A i \in 1 .. Len(bytes) : t.buf[s.len + i] = bytes[i]
<1> DEFINE room == sdsMakeRoomFor(s, ReadLen(s))
           k == Len(bytes)
           b == [i \in DOMAIN room.buf |->
                   IF i \in s.len + 1 .. s.len + k THEN bytes[i - s.len] ELSE room.buf[i]]
           put == [room EXCEPT !.buf = b]
           d == [b EXCEPT ![s.len + k + 1] = "NUL"]
           t == [room EXCEPT !.buf = d, !.len = s.len + k, !.free = room.free - k]
<1>1. DOMAIN s = Fields /\ Sds(s) /\ s.len \in Nat /\ k \in Nat
  BY DEF Valid, Sds
<1>2. /\ Sds(room) /\ SameParser(room, s) /\ room.len = s.len /\ room.free >= ReadLen(s)
      /\ Shows(room, s, 0, s.len)
  BY <1>1, RoomMade
<1> HIDE DEF room
<1>3. /\ room.buf \in Seq(Bytes) /\ room.free \in Nat /\ s.len + room.free < Len(room.buf) /\ room.free >= k
      /\ Len(room.buf) \in Nat /\ DOMAIN room.buf = 1 .. Len(room.buf)
      /\ \A i \in 1 .. Len(room.buf) : room.buf[i] \in Bytes
  BY <1>1, <1>2 DEF Sds
<1>4. b \in Seq(Bytes) /\ Len(b) = Len(room.buf)
  <2>1. ASSUME NEW i \in 1 .. Len(room.buf) PROVE b[i] \in Bytes
    <3>1. i \in s.len + 1 .. s.len + k => i - s.len \in 1 .. k
      BY <1>1
    <3>2. \A j \in 1 .. k : bytes[j] \in Bytes
      OBVIOUS
    <3> QED BY <1>3, <3>1, <3>2
  <2>2. b = [i \in 1 .. Len(room.buf) |-> b[i]]
    BY <1>3
  <2> DEFINE m == Len(room.buf)
  <2>3. m \in Nat /\ b = [i \in 1 .. m |-> b[i]] /\ \A i \in 1 .. m : b[i] \in Bytes
    BY <1>3, <2>1, <2>2
  <2> HIDE DEF b, m
  <2>4. b \in Seq(Bytes) /\ Len(b) = m
    BY <2>3
  <2> QED BY <2>4 DEF m
<1>9. /\ \A i \in 1 .. s.len : i \in 1 .. Len(room.buf) /\ b[i] = s.buf[0 + i]
      /\ \A i \in 1 .. k : s.len + i \in 1 .. Len(room.buf) /\ b[s.len + i] = bytes[i]
  <2>1. ASSUME NEW i \in 1 .. s.len PROVE i \in 1 .. Len(room.buf) /\ b[i] = s.buf[0 + i]
    <3>1. i \in 1 .. Len(room.buf) /\ i \notin s.len + 1 .. s.len + k
      BY <1>1, <1>3
    <3>2. b[i] = room.buf[i]
      BY <1>3, <3>1
    <3> QED BY <1>2, <3>1, <3>2 DEF Shows
  <2>2. ASSUME NEW i \in 1 .. k PROVE s.len + i \in 1 .. Len(room.buf) /\ b[s.len + i] = bytes[i]
    <3> DEFINE j == s.len + i
    <3>1. j \in 1 .. Len(room.buf) /\ j \in s.len + 1 .. s.len + k /\ j - s.len = i
      BY <1>1, <1>3
    <3> HIDE DEF j
    <3>2. b[j] = bytes[i]
      BY <1>3, <3>1
    <3> QED BY <3>1, <3>2 DEF j
  <2> QED BY <2>1, <2>2
<1> HIDE DEF b
<1>5. d \in Seq(Bytes) /\ Len(d) = Len(room.buf) /\ d[s.len + k + 1] = "NUL"
  <2>1. s.len + k + 1 \in 1 .. Len(b)
    BY <1>1, <1>3, <1>4
  <2>2. "NUL" \in Bytes
    BY QueryAssumption
  <2> DEFINE j == s.len + k + 1
  <2>3. j \in 1 .. Len(b)
    BY <2>1
  <2> HIDE DEF j
  <2>4. [b EXCEPT ![j] = "NUL"] \in Seq(Bytes) /\ Len([b EXCEPT ![j] = "NUL"]) = Len(b)
        /\ [b EXCEPT ![j] = "NUL"][j] = "NUL"
    BY <1>4, <2>2, <2>3
  <2> QED BY <1>4, <2>4 DEF j
<1>6. Received(s, bytes) = t
  <2>1. put.len = s.len /\ put.free = room.free /\ put.buf = b
    BY <1>2 DEF SameParser, Fields
  <2>2. Received(s, bytes) = sdsIncrLen(put, k)
    BY DEF Received, room, b
  <2>3. sdsIncrLen(put, k) = [put EXCEPT !.len = @ + k, !.free = @ - k, !.buf[put.len + k + 1] = "NUL"]
    BY DEF sdsIncrLen
  <2> HIDE DEF put
  <2>4. [put EXCEPT !.len = @ + k, !.free = @ - k, !.buf[put.len + k + 1] = "NUL"]
          = [put EXCEPT !.len = s.len + k, !.free = room.free - k, !.buf = d]
    BY <2>1
  <2>5. [put EXCEPT !.len = s.len + k, !.free = room.free - k, !.buf = d] = t
    <3> HIDE DEF d
    <3> QED BY <1>2 DEF put, SameParser, Fields
  <2> QED BY <2>2, <2>3, <2>4, <2>5
<1>10. /\ \A i \in 1 .. s.len : d[i] = s.buf[0 + i]
       /\ \A i \in 1 .. k : d[s.len + i] = bytes[i]
  <2> DEFINE e == s.len + k + 1
  <2>1. \A i \in 1 .. Len(room.buf) : i # e => d[i] = b[i]
    <3>1. DOMAIN b = 1 .. Len(room.buf)
      BY <1>4
    <3> QED BY <3>1
  <2>2. /\ \A i \in 1 .. s.len : i # e
        /\ \A i \in 1 .. k : s.len + i # e
    BY <1>1
  <2> HIDE DEF e, d
  <2> QED BY <1>9, <2>1, <2>2
<1> HIDE DEF d
<1>7. t.buf = d /\ t.len = s.len + k /\ t.free = room.free - k /\ SameParser(t, room)
  BY <1>2 DEF Fields, SameParser
<1> HIDE DEF t
<1>8. Sds(t)
  <2>1. t.len \in Nat /\ t.free \in Nat /\ t.len + t.free < Len(t.buf)
    BY <1>1, <1>3, <1>5, <1>7
  <2>2. t.len + 1 = s.len + k + 1
    BY <1>7
  <2>3. t.buf[t.len + 1] = "NUL"
    BY <1>5, <1>7, <2>2
  <2> QED BY <1>5, <1>7, <2>1, <2>3 DEF Sds
<1>11. SameParser(t, s)
  BY <1>2, <1>7 DEF SameParser
<1>12. Shows(t, s, 0, s.len) /\ \A i \in 1 .. k : t.buf[s.len + i] = bytes[i]
  BY <1>7, <1>10 DEF Shows
<1>13. t.len = s.len + k
  BY <1>7
<1> QED BY <1>6, <1>8, <1>11, <1>12, <1>13


-----------------------------------------------------------------------------
\* A part of a text, which may be empty.
LEMMA PartOf ==
  ASSUME NEW S, NEW s \in Seq(S), NEW m \in Nat, m > 0, NEW n \in Int, n <= Len(s)
  PROVE  SubSeq(s, m, n) \in Seq(S) /\ Len(SubSeq(s, m, n)) = IF m <= n THEN n - m + 1 ELSE 0
<1>1. \A i \in m .. n : s[i] \in S
  <2>1. Len(s) \in Nat /\ \A i \in 1 .. Len(s) : s[i] \in S
    OBVIOUS
  <2>2. \A i \in m .. n : i \in 1 .. Len(s)
    BY <2>1
  <2> QED BY <2>1, <2>2
<1> QED BY <1>1, SubSeqProperties

\* string2ll: what is read of a text is a sequence of its bytes.
LEMMA StrippedType ==
  ASSUME NEW text \in Seq(Bytes), NEW bytes
  PROVE  Stripped(text, bytes) \in Seq(Bytes)
<1> DEFINE kept == {i \in DOMAIN text : text[i] \notin bytes}
<1>1. DOMAIN text = 1 .. Len(text) /\ Len(text) \in Nat
  OBVIOUS
<1>2. CASE kept = {}
  BY <1>2 DEF Stripped
<1>3. CASE kept # {}
  <2>1. kept \in SUBSET (0 .. Len(text)) /\ kept \in SUBSET Nat /\ kept \subseteq 1 .. Len(text)
    BY <1>1
  <2>2. Stripped(text, bytes) = SubSeq(text, Min(kept), Max(kept))
    BY <1>3 DEF Stripped
  <2> HIDE DEF kept
  <2>3. Min(kept) \in kept /\ Max(kept) \in kept
    BY <1>1, <1>3, <2>1, MinOfSet, MaxOfSet
  <2>4. Min(kept) \in 1 .. Len(text) /\ Max(kept) \in 1 .. Len(text)
    BY <2>1, <2>3
  <2> DEFINE m == Min(kept)
             n == Max(kept)
  <2>5. m \in Nat /\ m > 0 /\ n \in Int /\ n <= Len(text)
    BY <1>1, <2>4
  <2> HIDE DEF m, n
  <2>6. SubSeq(text, m, n) \in Seq(Bytes)
    BY <2>5, PartOf
  <2> QED BY <2>2, <2>6 DEF m, n
<1> QED BY <1>2, <1>3

\* The same for what string2ll reads as figures.
LEMMA FiguresType ==
  ASSUME NEW text \in Seq(Bytes)
  PROVE  Figures(text) \in Seq(Bytes)
<1>1. Stripped(text, {"NUL"}) \in Seq(Bytes)
  BY StrippedType
<1> DEFINE t == Stripped(text, {"NUL"})
<1>2. t \in Seq(Bytes)
  BY <1>1
<1> HIDE DEF t
<1>3. Stripped(t, White) \in Seq(Bytes)
  BY <1>2, StrippedType
<1> QED BY <1>3 DEF Figures, t

\* The value of the figures, one after the other.
Values(v, figures, n) ==
  v = [i \in 0 .. n |-> IF i = 0 THEN 0 ELSE WithFigure(v[i - 1], figures[i])]

\* The sum over the figures is defined for every number of them.
LEMMA ValuesExist ==
  ASSUME NEW figures, NEW n \in Nat
  PROVE  \E v : Values(v, figures, n)
<1> DEFINE Bad == {m \in 0 .. n : ~ \E v : Values(v, figures, m)}
<1>1. SUFFICES ASSUME Bad # {} PROVE FALSE
  OBVIOUS
<1>2. PICK m \in Bad : \A k \in Bad : m <= k
  <2>1. Bad \in SUBSET Nat
    OBVIOUS
  <2> HIDE DEF Bad
  <2> QED BY <1>1, <2>1, LeastNatural
<1>3. m # 0
  <2> DEFINE e == [i \in 0 .. 0 |-> 0]
  <2>1. e = [i \in 0 .. 0 |-> IF i = 0 THEN 0 ELSE WithFigure(e[i - 1], figures[i])]
    OBVIOUS
  <2> HIDE DEF e
  <2>2. Values(e, figures, 0)
    BY <2>1 DEF Values
  <2> QED BY <2>2
<1>4. m \in 0 .. n /\ m - 1 \in 0 .. n /\ m - 1 \notin Bad /\ m - 1 \in Nat
  <2>1. m \in 0 .. n
    OBVIOUS
  <2> HIDE DEF Bad
  <2> QED BY <1>2, <1>3, <2>1
<1>5. PICK v : Values(v, figures, m - 1)
  BY <1>4
<1> DEFINE last == WithFigure(v[m - 1], figures[m])
           w == [i \in 0 .. m |-> IF i = m THEN last ELSE v[i]]
<1>6. \A i \in 0 .. m - 1 : v[i] = IF i = 0 THEN 0 ELSE WithFigure(v[i - 1], figures[i])
  BY <1>5 DEF Values
<1>7. \A i \in 0 .. m : w[i] = IF i = 0 THEN 0 ELSE WithFigure(w[i - 1], figures[i])
  <2> SUFFICES ASSUME NEW i \in 0 .. m
               PROVE  w[i] = IF i = 0 THEN 0 ELSE WithFigure(w[i - 1], figures[i])
    OBVIOUS
  <2>1. CASE i = m
    <3>1. w[m] = last /\ w[m - 1] = v[m - 1]
      BY <1>3, <1>4
    <3> QED BY <1>3, <2>1, <3>1
  <2>2. CASE i # m
    <3>1. i \in 0 .. m - 1 /\ w[i] = v[i]
      BY <1>4, <2>2
    <3>2. i # 0 => i - 1 \in 0 .. m /\ i - 1 # m
      BY <1>4, <2>2
    <3>3. i # 0 => w[i - 1] = v[i - 1]
      BY <3>2
    <3> HIDE DEF w
    <3> QED BY <1>6, <3>1, <3>3
  <2> QED BY <2>1, <2>2
<1>8. Values(w, figures, m)
  <2> HIDE DEF last
  <2>1. w = [i \in 0 .. m |-> w[i]]
    OBVIOUS
  <2> HIDE DEF w
  <2> QED BY <2>1, <1>7 DEF Values
<1> QED BY <1>8, <1>2

\* The value of figures is a natural number.
LEMMA ValueType ==
  ASSUME NEW figures \in Seq(Bytes), IsLiteral(figures)
  PROVE  Value(figures) \in Nat
<1> DEFINE n == Len(figures)
<1>1. n \in Nat
  OBVIOUS
<1>2. \A d \in ToSet(Digits) : Digit(d) \in 0 .. 9
  <2> SUFFICES ASSUME NEW d \in ToSet(Digits) PROVE Digit(d) \in 0 .. 9
    OBVIOUS
  <2>1. \E k \in 1 .. 10 : Digits[k] = d
    BY DEF ToSet, Digits
  <2> DEFINE k == CHOOSE k \in 1 .. 10 : Digits[k] = d
  <2>2. k \in 1 .. 10
    BY <2>1
  <2> HIDE DEF k
  <2>3. k - 1 \in 0 .. 9
    BY <2>2
  <2> QED BY <2>3 DEF Digit, k
<1>3. \A i \in 1 .. n : figures[i] = "_" \/ figures[i] \in ToSet(Digits)
  <2>1. ToSet(figures) \subseteq ToSet(Digits) \cup {"_"}
    BY DEF IsLiteral
  <2>2. \A i \in 1 .. n : figures[i] \in ToSet(figures)
    BY DEF ToSet
  <2> QED BY <2>1, <2>2
<1>4. \A i \in 1 .. n : \A x \in Nat : WithFigure(x, figures[i]) \in Nat
  <2> SUFFICES ASSUME NEW i \in 1 .. n, NEW x \in Nat PROVE WithFigure(x, figures[i]) \in Nat
    OBVIOUS
  <2> DEFINE d == figures[i]
  <2>1. d = "_" \/ d \in ToSet(Digits)
    BY <1>3
  <2> HIDE DEF d
  <2>2. CASE d = "_"
    BY <2>2 DEF WithFigure, d
  <2>3. CASE d # "_"
    <3>1. Digit(d) \in 0 .. 9
      BY <1>2, <2>1, <2>3
    <3>2. WithFigure(x, d) = 10 * x + Digit(d)
      BY <2>3 DEF WithFigure
    <3>3. WithFigure(x, d) \in Nat
      BY <3>1, <3>2
    <3> QED BY <3>3 DEF d
  <2> QED BY <2>2, <2>3
<1> DEFINE v == CHOOSE v : Values(v, figures, n)
<1>5. Value(figures) = v[n]
  BY DEF Value, Values
<1>6. Values(v, figures, n)
  <2>1. \E u : Values(u, figures, n)
    BY <1>1, ValuesExist
  <2> QED BY <2>1
<1> HIDE DEF v
<1>7. \A i \in 0 .. n : v[i] = IF i = 0 THEN 0 ELSE WithFigure(v[i - 1], figures[i])
  BY <1>6 DEF Values
<1> DEFINE Bad == {i \in 0 .. n : v[i] \notin Nat}
<1>8. Bad = {}
  <2> SUFFICES ASSUME Bad # {} PROVE FALSE
    OBVIOUS
  <2>1. PICK i \in Bad : \A j \in Bad : i <= j
    <3>1. Bad \in SUBSET Nat
      <4>1. 0 .. n \subseteq Nat
        OBVIOUS
      <4> HIDE DEF n
      <4> QED BY <4>1
    <3> HIDE DEF Bad
    <3> QED BY <3>1, LeastNatural
  <2>2. i \in 0 .. n /\ v[i] \notin Nat
    OBVIOUS
  <2>3. i # 0
    BY <1>7, <2>2
  <2>4. i - 1 \in 0 .. n /\ i - 1 \notin Bad /\ i \in 1 .. n
    <3> HIDE DEF Bad
    <3> QED BY <1>1, <2>1, <2>2, <2>3
  <2>5. v[i - 1] \in Nat
    BY <2>4
  <2>6. v[i] = WithFigure(v[i - 1], figures[i])
    BY <1>7, <2>2, <2>3
  <2> QED BY <1>4, <2>2, <2>4, <2>5, <2>6
<1>9. n \in 0 .. n
  BY <1>1
<1> QED BY <1>5, <1>8, <1>9

\* The number of a text is an integer, which is 0 if the text is none.
LEMMA NumberType ==
  ASSUME NEW text \in Seq(Bytes)
  PROVE  Number(text) \in Int
<1> DEFINE u == Unsigned(text)
           f == Figures(text)
<1>1. f \in Seq(Bytes)
  BY FiguresType
<1>2. u \in Seq(Bytes)
  <2>1. u = IF Signed(f) THEN Tail(f) ELSE f
    BY DEF Unsigned
  <2> HIDE DEF f, u
  <2>2. Signed(f) => Tail(f) \in Seq(Bytes)
    BY <1>1, HeadTailProperties DEF Signed
  <2> QED BY <1>1, <2>1, <2>2
<1>3. CASE ~IsNumber(text)
  BY <1>3 DEF Number
<1>4. CASE IsNumber(text)
  <2>1. IsLiteral(u)
    BY <1>4 DEF IsNumber
  <2>2. Number(text) = IF f[1] = "-" THEN - Value(u) ELSE Value(u)
    BY <1>4 DEF Number, Amount
  <2> HIDE DEF u, f
  <2>3. Value(u) \in Nat
    BY <1>2, <2>1, ValueType
  <2> QED BY <2>2, <2>3
<1> QED BY <1>3, <1>4


-----------------------------------------------------------------------------
\* The inductive invariant: the string and the parser of the client, where the
\* handler is, and the bytes still to come.
QState ==
  /\ Valid(q) /\ pos \in Nat /\ at \in {"idle", "turn", "args", "dead", "reset"}
  /\ at \in {"idle", "turn"} => Between(q)
  /\ at = "args" /\ q.multibulklen = 0 /\ pos = 0 => q.len = 0

QStream ==
  /\ socket \in Seq(Marked) /\ sent \in Seq(Requests) /\ orderly \in BOOLEAN
  /\ arrived \in Nat /\ arrived + Ends(socket) <= Len(sent)

QInv == QState /\ QStream

\* What TurnsConsume says of a step.
Consumes == at # "idle" /\ at' = "turn" => q'.len < q.len \/ q'.len = 0 \/ q'.close

\* The pieces of the parser: none spoils the string or makes the buffer longer.
LEMMA TypedIs ==
  ASSUME Valid(q), Between(q), ~q.close
  PROVE  /\ Sds(Typed(q)) /\ Valid(Typed(q)) /\ Typed(q).len = q.len /\ Typed(q).argv = q.argv
         /\ Typed(q).multibulklen = q.multibulklen /\ Typed(q).close = q.close
         /\ Typed(q).buf = q.buf /\ Typed(q).bulklen = q.bulklen /\ Typed(q).error = q.error
         /\ ~IsMultibulk => q.multibulklen = 0 /\ q.argv = <<>> /\ Typed(q).reqtype = "inline"
         /\ IsMultibulk => Typed(q).reqtype = "multibulk"
         /\ IsMultibulk /\ q.multibulklen = 0 => q.argv = <<>> /\ q.buf[1] = "*"
<1> DEFINE t == Typed(q)
<1>1. /\ DOMAIN t = Fields /\ t.buf = q.buf /\ t.len = q.len /\ t.free = q.free
      /\ t.multibulklen = q.multibulklen /\ t.bulklen = q.bulklen /\ t.argv = q.argv
      /\ t.close = q.close /\ t.error = q.error
      /\ t.reqtype = IF IsMultibulk THEN "multibulk" ELSE "inline"
  BY DEF Valid, Fields, Typed
<1> HIDE DEF t
<1>2. ~IsMultibulk => q.multibulklen = 0
  BY DEF IsMultibulk, Valid, Parser
<1>3. q.multibulklen = 0 => q.argv = <<>> /\ q.reqtype # "multibulk"
  BY DEF Between
<1>4. IsMultibulk /\ q.multibulklen = 0 => q.buf[1] = "*"
  BY <1>3 DEF IsMultibulk
<1>5. Sds(t)
  BY <1>1 DEF Sds, Valid
<1>6. Parser(t)
  BY <1>1, <1>2 DEF Parser, Valid
<1> QED BY <1>1, <1>2, <1>3, <1>4, <1>5, <1>6 DEF Valid, t

\* A protocol error closes the client and makes the buffer no longer.
LEMMA ErrorIs ==
  ASSUME NEW s, Valid(s), NEW p \in Nat
  PROVE  LET t == setProtocolError(s, p)
         IN  /\ Valid(t) /\ Between(t) /\ t.close /\ t.len <= s.len
             /\ t.multibulklen = s.multibulklen /\ t.argv = s.argv /\ t.reqtype = s.reqtype
<1> DEFINE r == sdsrange(s, p)
           t == [r EXCEPT !.close = TRUE, !.error = TRUE]
<1>1. Sds(r) /\ SameParser(r, s) /\ r.len <= s.len
  BY RangeMoved DEF Valid
<1> HIDE DEF r
<1>2. /\ DOMAIN t = Fields /\ t.buf = r.buf /\ t.len = r.len /\ t.free = r.free
      /\ t.multibulklen = r.multibulklen /\ t.bulklen = r.bulklen /\ t.argv = r.argv
      /\ t.close = TRUE /\ t.error = TRUE /\ t.reqtype = r.reqtype
  BY <1>1 DEF SameParser, Fields
<1> HIDE DEF t
<1>3. Sds(t)
  BY <1>1, <1>2 DEF Sds
<1>4. Parser(t)
  BY <1>1, <1>2 DEF Parser, Valid, SameParser
<1>5. Valid(t) /\ Between(t) /\ t.close /\ t.len <= s.len
      /\ t.multibulklen = s.multibulklen /\ t.argv = s.argv /\ t.reqtype = s.reqtype
  BY <1>1, <1>2, <1>3, <1>4 DEF Valid, Between, SameParser
<1> QED BY <1>5 DEF t, r, setProtocolError

\* After a request the client is closed, or nothing is left of the request.
LEMMA ResetIs ==
  ASSUME NEW s, Valid(s)
  PROVE  Valid(resetClient(s)) /\ Between(resetClient(s)) /\ resetClient(s).len = s.len
<1> DEFINE t == resetClient(s)
<1>1. /\ DOMAIN t = Fields /\ t.buf = s.buf /\ t.len = s.len /\ t.free = s.free
      /\ t.multibulklen = 0 /\ t.bulklen = -1 /\ t.argv = <<>>
      /\ t.close = s.close /\ t.error = s.error /\ t.reqtype = "none"
  BY DEF Valid, Fields, resetClient
<1> HIDE DEF t
<1>2. Sds(t) /\ Parser(t) /\ Between(t)
  BY <1>1 DEF Sds, Parser, Valid, Between
<1> QED BY <1>1, <1>2 DEF Valid, t

\* The same for processCommand, which resets the client or closes it, unless it
\* ends the process.
LEMMA RunIs ==
  ASSUME NEW s, Valid(s)
  PROVE  /\ Valid(Run(s)) /\ Run(s).len = s.len
         /\ Raises(s.argv) \/ Between(Run(s))
<1>1. CASE s.argv[1] = Quit
  <2> DEFINE t == [s EXCEPT !.close = TRUE]
  <2>1. /\ DOMAIN t = Fields /\ t.buf = s.buf /\ t.len = s.len /\ t.free = s.free
        /\ t.multibulklen = s.multibulklen /\ t.bulklen = s.bulklen /\ t.argv = s.argv
        /\ t.close = TRUE /\ t.error = s.error /\ t.reqtype = s.reqtype
    BY DEF Valid, Fields
  <2>2. Run(s) = t
    BY <1>1 DEF Run
  <2> HIDE DEF t
  <2>3. Sds(t) /\ Parser(t) /\ Between(t)
    BY <2>1 DEF Sds, Parser, Valid, Between
  <2> QED BY <2>1, <2>2, <2>3 DEF Valid
<1>2. CASE s.argv[1] # Quit /\ Raises(s.argv)
  <2>1. Run(s) = s
    BY <1>2 DEF Run
  <2> QED BY <1>2, <2>1
<1>3. CASE s.argv[1] # Quit /\ ~Raises(s.argv)
  <2>1. Run(s) = resetClient(s)
    BY <1>3 DEF Run
  <2> QED BY <2>1, ResetIs
<1> QED BY <1>1, <1>2, <1>3

\* The first line end from a position on.
LEMMA LineEndIs ==
  ASSUME NEW s, NEW from \in Nat, LineEnds(s, from) # {}
  PROVE  Min(LineEnds(s, from)) \in LineEnds(s, from) /\ Min(LineEnds(s, from)) \in Nat
<1>1. LineEnds(s, from) \in SUBSET Nat
  BY DEF LineEnds
<1> QED BY <1>1, MinOfSet

\* The first line feed is at a position of the buffer.
LEMMA LineFeedIs ==
  ASSUME NEW s, LineFeeds(s) # {}
  PROVE  Min(LineFeeds(s)) \in Nat
<1>1. LineFeeds(s) \in SUBSET Nat
  BY DEF LineFeeds
<1> QED BY <1>1, MinOfSet

\* The line of a count has its star at least.
LEMMA CountIs ==
  ASSUME Valid(q), q.len > 0, q.buf[1] = "*"
  PROVE  Len(CountLine) \in Nat /\ ArgCount \in Int
<1>1. q.buf \in Seq(Bytes) /\ q.len \in Nat /\ q.free \in Nat /\ q.len + q.free < Len(q.buf) /\ Len(q.buf) \in Nat
  BY DEF Valid, Sds
<1>2. ASSUME NEW n \in Int, 0 < n, n <= Len(q.buf)
      PROVE  Slice(q, 0, n) \in Seq(Bytes) /\ Slice(q, 0, n) # <<>>
  <2>1. SubSeq(q.buf, 1, n) \in Seq(Bytes) /\ Len(SubSeq(q.buf, 1, n)) = n - 1 + 1
    BY <1>1, <1>2, PartOf
  <2>2. Slice(q, 0, n) = SubSeq(q.buf, 1, n)
    BY DEF Slice
  <2>3. Len(<<>>) = 0 /\ n - 1 + 1 # 0
    BY <1>2
  <2> QED BY <2>1, <2>2, <2>3
<1>3. CountLine \in Seq(Bytes) /\ CountLine # <<>>
  <2>1. CASE LineEnds(q, 0) = {}
    <3>1. CountLine = Slice(q, 0, Len(q.buf) - 1)
      BY <2>1 DEF CountLine
    <3> QED BY <1>1, <1>2, <3>1
  <2>2. CASE LineEnds(q, 0) # {}
    <3> DEFINE n == Min(LineEnds(q, 0))
    <3>1. n \in LineEnds(q, 0) /\ n \in Nat
      BY <2>2, LineEndIs
    <3>2. CountLine = Slice(q, 0, n)
      BY <2>2 DEF CountLine
    <3> HIDE DEF n
    <3>3. n \in 0 .. Len(q.buf) - 2 /\ q.buf[n + 1] = "CR"
      BY <3>1 DEF LineEnds
    <3>4. 0 < n /\ n <= Len(q.buf)
      BY <1>1, <3>1, <3>3
    <3> QED BY <1>2, <3>1, <3>2, <3>4
  <2> QED BY <2>1, <2>2
<1>4. Tail(CountLine) \in Seq(Bytes)
  BY <1>3, HeadTailProperties
<1>5. Len(CountLine) \in Nat
  BY <1>3
<1>6. ArgCount \in Int
  BY <1>4, NumberType DEF ArgCount
<1> QED BY <1>5, <1>6


-----------------------------------------------------------------------------
\* The actions on the parser, one by one.
LEMMA TurnIs ==
  ASSUME QState, Turn
  PROVE  Valid(q) /\ Between(q) /\ ~q.close /\ q.len > 0 /\ at = "turn"
BY DEF QState, Turn

\* The end of the loop of processInputBuffer.
LEMMA StopProcessingKeeps ==
  ASSUME QState, StopProcessing
  PROVE  QState' /\ Consumes
BY DEF QState, StopProcessing, Consumes, Valid, Sds, Parser, Between

\* An inline request without a line feed waits, or is too long.
LEMMA InlineWaitsKeeps ==
  ASSUME QState, InlineWaits
  PROVE  QState' /\ Consumes
<1>1. Turn /\ ~IsMultibulk /\ at' = "idle" /\ pos' = pos
      /\ q' = IF q.len > REDIS_INLINE_MAX_SIZE THEN setProtocolError(Typed(q), 0) ELSE Typed(q)
  BY DEF InlineWaits, InlineTurn
<1> DEFINE t == Typed(q)
           e == setProtocolError(t, 0)
<1>2. Valid(t) /\ t.argv = <<>> /\ t.reqtype = "inline"
  BY <1>1, TurnIs, TypedIs
<1>3. Valid(e) /\ Between(e)
  <2> HIDE DEF t
  <2> QED BY <1>2, ErrorIs
<1> HIDE DEF t, e
<1>4. Valid(q') /\ Between(q')
  BY <1>1, <1>2, <1>3 DEF Between, t, e
<1> QED BY <1>1, <1>4 DEF QState, Consumes, Valid, Sds, Parser, Between

\* A line without words is a protocol error.
LEMMA InlineEmptyKeeps ==
  ASSUME QState, InlineEmpty
  PROVE  QState' /\ Consumes
<1>1. Turn /\ at' = "idle" /\ pos' = pos /\ q' = setProtocolError(Typed(q), 0)
  BY DEF InlineEmpty, InlineTurn
<1>2. Valid(Typed(q))
  BY <1>1, TurnIs, TypedIs
<1>3. Valid(setProtocolError(Typed(q), 0)) /\ Between(setProtocolError(Typed(q), 0))
  <2> DEFINE t == Typed(q)
  <2>1. Valid(t)
    BY <1>2
  <2> HIDE DEF t
  <2>2. Valid(setProtocolError(t, 0)) /\ Between(setProtocolError(t, 0))
    BY <2>1, ErrorIs
  <2> QED BY <2>2 DEF t
<1>4. Valid(q') /\ Between(q')
  BY <1>1, <1>3
<1> QED BY <1>1, <1>4 DEF QState, Consumes, Valid, Sds, Parser, Between

\* A line whose last word has more than the NUL ends the process.
LEMMA InlineAssertsKeeps ==
  ASSUME QState, InlineAsserts
  PROVE  QState' /\ Consumes
BY DEF QState, InlineAsserts, Consumes, Valid, Sds, Parser

\* An inline request: its line is consumed.
LEMMA InlineRequestKeeps ==
  ASSUME QState, InlineRequest
  PROVE  QState' /\ Consumes
<1> DEFINE n == Min(LineFeeds(q)) + 2
           r == sdsrange(Typed(q), n)
           t == [r EXCEPT !.argv = Front(Words)]
<1>1. Turn /\ ~IsMultibulk /\ pos' = pos /\ q' = Run(t) /\ LineFeeds(q) # {}
      /\ at' = AfterRun(Front(Words))
  BY DEF InlineRequest, InlineTurn, NoLine
<1>2. Valid(Typed(q)) /\ Typed(q).len = q.len
  BY <1>1, TurnIs, TypedIs
<1>3. n \in Nat /\ n > 0
  BY <1>1, LineFeedIs
<1>4. Sds(r) /\ SameParser(r, Typed(q)) /\ (r.len = 0 \/ r.len < q.len)
  <2> DEFINE s == Typed(q)
  <2>1. DOMAIN s = Fields /\ Sds(s) /\ s.len = q.len
    BY <1>2 DEF Valid
  <2> HIDE DEF s, n
  <2>2. Sds(sdsrange(s, n)) /\ SameParser(sdsrange(s, n), s)
        /\ (sdsrange(s, n).len = 0 \/ sdsrange(s, n).len < s.len)
    BY <1>3, <2>1, RangeMoved
  <2> QED BY <2>1, <2>2 DEF s
<1>5. Valid(r)
  BY <1>2, <1>4, SameIsValid
<1> HIDE DEF n, r
<1>6. /\ DOMAIN t = Fields /\ t.buf = r.buf /\ t.len = r.len /\ t.free = r.free
      /\ t.multibulklen = r.multibulklen /\ t.bulklen = r.bulklen
      /\ t.close = r.close /\ t.error = r.error /\ t.reqtype = r.reqtype
      /\ t.argv = Front(Words)
  BY <1>5 DEF Valid, Fields
<1> HIDE DEF t
<1>7. Valid(t)
  BY <1>5, <1>6 DEF Valid, Sds, Parser
<1>8. Valid(q') /\ q'.len = r.len /\ (Raises(t.argv) \/ Between(q'))
  BY <1>1, <1>6, <1>7, RunIs
<1>9. Consumes
  BY <1>4, <1>8 DEF Consumes
<1>10. (at' = "turn" /\ Between(q')) \/ at' = "dead"
  BY <1>1, <1>6, <1>8 DEF AfterRun
<1> QED BY <1>1, <1>8, <1>9, <1>10 DEF QState, Valid, Sds, Parser, Between

\* A count of arguments: none consumes its line, any other is noted.
LEMMA MultibulkCountKeeps ==
  ASSUME QState, MultibulkCount
  PROVE  QState' /\ Consumes
<1> DEFINE s == IF CountBad THEN setProtocolError(Typed(q), 0) ELSE Typed(q)
           p == Len(CountLine) + 2
           r == sdsrange(s, p)
           t == [s EXCEPT !.multibulklen = ArgCount]
<1>1. /\ Turn /\ IsMultibulk /\ q.multibulklen = 0 /\ pos' = p
      /\ IF ArgCount <= 0 THEN q' = resetClient(r) /\ at' = at ELSE q' = t /\ at' = "args"
  BY DEF MultibulkCount, MultibulkTurn, EmptyMultibulk
<1>2. Valid(Typed(q)) /\ Typed(q).len = q.len /\ Typed(q).reqtype = "multibulk" /\ q.buf[1] = "*"
      /\ Typed(q).multibulklen = 0
  BY <1>1, TurnIs, TypedIs
<1>3. p \in Nat /\ p > 0 /\ ArgCount \in Int
  <2>1. Len(CountLine) \in Nat /\ ArgCount \in Int
    BY <1>1, <1>2, TurnIs, CountIs
  <2> HIDE DEF ArgCount
  <2> QED BY <2>1
<1>4. Valid(s) /\ s.len <= q.len /\ s.reqtype = "multibulk" /\ s.multibulklen = 0
  <2> DEFINE x == Typed(q)
             e == setProtocolError(x, 0)
  <2>1. Valid(x) /\ x.len = q.len /\ x.reqtype = "multibulk" /\ x.multibulklen = 0 /\ q.len \in Nat
    BY <1>2 DEF QState, Valid, Sds
  <2> HIDE DEF x
  <2>2. Valid(e) /\ e.len <= x.len /\ e.reqtype = x.reqtype /\ e.multibulklen = x.multibulklen
    BY <2>1, ErrorIs
  <2> QED BY <2>1, <2>2 DEF x
<1> HIDE DEF s, p
<1>5. CASE ArgCount <= 0
  <2>1. Sds(r) /\ SameParser(r, s) /\ (r.len = 0 \/ r.len < s.len)
    BY <1>3, <1>4, RangeMoved DEF Valid
  <2>2. Valid(r) /\ s.len \in Nat /\ r.len \in Nat /\ q.len \in Nat
    <3>1. Valid(r)
      BY <1>4, <2>1, SameIsValid
    <3> QED BY <1>4, <3>1 DEF Valid, Sds, QState
  <2> HIDE DEF r
  <2>3. q' = resetClient(r) /\ at' = "turn"
    BY <1>1, <1>5 DEF Turn
  <2>4. Valid(q') /\ Between(q') /\ q'.len = r.len
    BY <2>2, <2>3, ResetIs
  <2>5. Consumes
    BY <1>4, <2>1, <2>2, <2>4 DEF Consumes
  <2> QED BY <1>1, <1>3, <2>3, <2>4, <2>5 DEF QState, Valid, Sds, Parser, Between
<1>6. CASE ~(ArgCount <= 0)
  <2>1. q' = t /\ at' = "args"
    BY <1>1, <1>6
  <2> DEFINE n == ArgCount
  <2>2. n \in Nat /\ n > 0
    <3> HIDE DEF n
    <3>1. n \in Int /\ ~(n <= 0)
      BY <1>3, <1>6 DEF n
    <3> QED BY <3>1
  <2> HIDE DEF n
  <2>3. /\ DOMAIN t = Fields /\ t.buf = s.buf /\ t.len = s.len /\ t.free = s.free
        /\ t.multibulklen = n /\ t.bulklen = s.bulklen
        /\ t.close = s.close /\ t.error = s.error /\ t.reqtype = s.reqtype
    BY <1>4 DEF Valid, Fields, n
  <2> HIDE DEF t
  <2>4. Valid(t) /\ t.multibulklen # 0
    BY <1>4, <2>2, <2>3 DEF Valid, Sds, Parser
  <2>5. Valid(q') /\ q'.multibulklen # 0
    BY <2>1, <2>4
  <2> QED BY <1>1, <1>3, <2>1, <2>5 DEF QState, Consumes, Valid, Sds, Parser
<1> QED BY <1>5, <1>6

\* A request whose count has been read goes on.
LEMMA MultibulkResumedKeeps ==
  ASSUME QState, MultibulkResumed
  PROVE  QState' /\ Consumes
<1>1. q' = q /\ pos' = 0 /\ at' = "args" /\ q.multibulklen > 0
  BY DEF MultibulkResumed
<1>2. q.multibulklen # 0
  BY <1>1 DEF QState, Valid, Parser
<1> QED BY <1>1, <1>2 DEF QState, Consumes, Valid, Sds, Parser


\* A length line without end is an error once it is too long.
LEMMA BulkLengthTooLongKeeps ==
  ASSUME QState, BulkLengthTooLong
  PROVE  QState' /\ Consumes
<1>1. at' = "idle" /\ pos' = pos /\ q' = setProtocolError(q, 0) /\ Valid(q) /\ pos \in Nat
  BY DEF BulkLengthTooLong, QState
<1>2. Valid(setProtocolError(q, 0)) /\ Between(setProtocolError(q, 0))
  BY <1>1, ErrorIs
<1>3. Valid(q') /\ Between(q')
  BY <1>1, <1>2
<1> QED BY <1>1, <1>3 DEF QState, Consumes, Valid, Sds, Parser, Between

\* A length line that is no number, or one out of range, is an error.
LEMMA BulkLengthBadKeeps ==
  ASSUME QState, BulkLengthBad
  PROVE  QState' /\ Consumes
<1>1. at' = "idle" /\ pos' = pos /\ q' = setProtocolError(q, pos) /\ Valid(q) /\ pos \in Nat
  BY DEF BulkLengthBad, QState
<1>2. Valid(setProtocolError(q, pos)) /\ Between(setProtocolError(q, pos))
  BY <1>1, ErrorIs
<1>3. Valid(q') /\ Between(q')
  BY <1>1, <1>2
<1> QED BY <1>1, <1>3 DEF QState, Consumes, Valid, Sds, Parser, Between

\* The number of a length line: the sign in front is not a part of it.
LEMMA LengthIs ==
  ASSUME QState, LineEnds(q, pos) # {}
  PROVE  LengthEnd \in Nat /\ Number(LengthText) \in Int
<1> DEFINE n == Min(LineEnds(q, pos))
           m == pos + 1 + 1
<1>1. q.buf \in Seq(Bytes) /\ Len(q.buf) \in Nat /\ pos \in Nat
  BY DEF QState, Valid, Sds
<1>2. n \in LineEnds(q, pos) /\ n \in Nat
  BY <1>1, LineEndIs
<1>3. LengthEnd = n /\ LengthText = SubSeq(q.buf, m, n)
  BY DEF LengthEnd, LengthText, Slice
<1> HIDE DEF n
<1>4. n \in Int /\ n <= Len(q.buf) /\ m \in Nat /\ m > 0
  BY <1>1, <1>2 DEF LineEnds
<1> HIDE DEF m
<1>5. SubSeq(q.buf, m, n) \in Seq(Bytes)
  BY <1>1, <1>4, PartOf
<1> QED BY <1>2, <1>3, <1>5, NumberType

\* A length: a big argument is moved to the front, with room for it.
LEMMA BulkLengthKeeps ==
  ASSUME QState, BulkLength
  PROVE  QState' /\ Consumes
<1> DEFINE n == Number(LengthText)
           front == sdsrange(q, LengthEnd + 2)
           roomy == IF front.len < n + 2 THEN sdsMakeRoomFor(front, n + 2 - front.len) ELSE front
           big == [roomy EXCEPT !.bulklen = n]
           small == [q EXCEPT !.bulklen = n]
<1>1. /\ at = "args" /\ at' = at /\ q.multibulklen > 0 /\ LineEnds(q, pos) # {}
      /\ IF n >= REDIS_MBULK_BIG_ARG THEN q' = big /\ pos' = 0
                                     ELSE q' = small /\ pos' = LengthEnd + 2
  BY DEF BulkLength, LengthTurn
<1>2. LengthEnd \in Nat /\ n \in Nat
  <2>1. LengthEnd \in Nat /\ n \in Int /\ 0 <= n
    BY <1>1, LengthIs DEF BulkLength, LengthGood
  <2> HIDE DEF n
  <2> QED BY <2>1
<1>3. Valid(q) /\ q.multibulklen # 0
  BY <1>1 DEF QState, Valid, Parser
<1>4. ASSUME NEW s, Valid(s), s.multibulklen # 0
      PROVE  Valid([s EXCEPT !.bulklen = n]) /\ [s EXCEPT !.bulklen = n].multibulklen # 0
  <2> HIDE DEF n
  <2> DEFINE t == [s EXCEPT !.bulklen = n]
  <2>1. /\ DOMAIN t = Fields /\ t.buf = s.buf /\ t.len = s.len /\ t.free = s.free
        /\ t.multibulklen = s.multibulklen /\ t.bulklen = n
        /\ t.close = s.close /\ t.error = s.error /\ t.reqtype = s.reqtype
    BY <1>4 DEF Valid, Fields
  <2> HIDE DEF t
  <2>2. Valid(t) /\ t.multibulklen # 0
    BY <1>2, <1>4, <2>1 DEF Valid, Sds, Parser
  <2> QED BY <2>2 DEF t
<1>5. Valid(front) /\ front.multibulklen # 0 /\ front.len \in Nat
  <2> DEFINE e == LengthEnd + 2
  <2>1. e \in Nat
    BY <1>2
  <2> HIDE DEF e
  <2>2. Sds(sdsrange(q, e)) /\ SameParser(sdsrange(q, e), q)
    BY <1>3, <2>1, RangeMoved DEF Valid
  <2>3. Valid(sdsrange(q, e))
    BY <1>3, <2>2, SameIsValid
  <2>4. sdsrange(q, e).multibulklen # 0 /\ sdsrange(q, e).len \in Nat
    BY <1>3, <2>2 DEF SameParser, Sds
  <2> QED BY <2>3, <2>4 DEF e
<1> HIDE DEF front, n
<1>6. Valid(roomy) /\ roomy.multibulklen # 0
  <2> DEFINE k == n + 2 - front.len
             r == sdsMakeRoomFor(front, k)
  <2>1. k \in Int
    BY <1>2, <1>5
  <2> HIDE DEF k
  <2>2. Sds(r) /\ SameParser(r, front)
    BY <1>5, <2>1, RoomMade DEF Valid
  <2> HIDE DEF r
  <2>3. Valid(r) /\ r.multibulklen # 0
    <3>1. Valid(r)
      BY <1>5, <2>2, SameIsValid
    <3> QED BY <1>5, <2>2, <3>1 DEF SameParser
  <2>4. roomy = IF front.len < n + 2 THEN r ELSE front
    BY DEF r, k
  <2> HIDE DEF roomy
  <2> QED BY <1>5, <2>3, <2>4
<1> HIDE DEF roomy
<1>7. Valid(big) /\ big.multibulklen # 0
  BY <1>4, <1>6
<1>8. Valid(small) /\ small.multibulklen # 0
  BY <1>3, <1>4
<1> HIDE DEF big, small
<1>9. Valid(q') /\ q'.multibulklen # 0 /\ pos' \in Nat /\ at' = "args"
  BY <1>1, <1>2, <1>7, <1>8
<1> QED BY <1>9 DEF QState, Consumes, Valid, Sds, Parser

\* An argument: it is taken out of the buffer, or takes the buffer over.
LEMMA BulkArgumentKeeps ==
  ASSUME QState, BulkArgument
  PROVE  QState' /\ Consumes
<1>1. /\ at = "args" /\ at' = at /\ q.multibulklen > 0 /\ q.bulklen # -1
      /\ IF TakesBuffer
         THEN /\ q' = sdsMakeRoomFor(EmptySds(WithArgument(q, Slice(q, 0, q.bulklen))), q.bulklen + 2)
              /\ pos' = 0
         ELSE /\ q' = WithArgument(q, Slice(q, pos, pos + q.bulklen))
              /\ pos' = pos + q.bulklen + 2
  BY DEF BulkArgument, BulkTurn, AfterArgument
<1>2. Valid(q) /\ pos \in Nat /\ q.bulklen \in Nat /\ q.multibulklen \in Nat /\ q.reqtype = "multibulk"
  BY <1>1 DEF QState, Valid, Parser
<1>3. ASSUME NEW text PROVE Valid(WithArgument(q, text))
  <2> DEFINE t == WithArgument(q, text)
  <2>1. /\ DOMAIN t = Fields /\ t.buf = q.buf /\ t.len = q.len /\ t.free = q.free
        /\ t.multibulklen = q.multibulklen - 1 /\ t.bulklen = -1
        /\ t.close = q.close /\ t.error = q.error /\ t.reqtype = q.reqtype
    BY <1>2 DEF Valid, Fields, WithArgument
  <2> HIDE DEF t
  <2>2. q.multibulklen - 1 \in Nat
    BY <1>1, <1>2
  <2>3. Valid(t)
    BY <1>2, <2>1, <2>2 DEF Valid, Sds, Parser
  <2> QED BY <2>3 DEF t
<1>4. CASE TakesBuffer
  <2> DEFINE w == WithArgument(q, Slice(q, 0, q.bulklen))
             e == EmptySds(w)
             k == q.bulklen + 2
             t == sdsMakeRoomFor(e, k)
  <2>1. Valid(w)
    BY <1>3
  <2> HIDE DEF w
  <2>2. /\ DOMAIN e = Fields /\ e.buf = <<"NUL">> /\ e.len = 0 /\ e.free = 0
        /\ e.multibulklen = w.multibulklen /\ e.bulklen = w.bulklen
        /\ e.close = w.close /\ e.error = w.error /\ e.reqtype = w.reqtype
    BY <2>1 DEF Valid, Fields, EmptySds
  <2> HIDE DEF e
  <2>3. Sds(e)
    <3>1. <<"NUL">> \in Seq(Bytes) /\ Len(<<"NUL">>) = 1 /\ <<"NUL">>[1] = "NUL"
      BY QueryAssumption
    <3>2. e.len + e.free = 0 /\ e.len + 1 = 1 /\ e.len \in Nat /\ e.free \in Nat
      BY <2>2
    <3> QED BY <2>2, <3>1, <3>2 DEF Sds
  <2>4. Valid(e)
    BY <2>1, <2>2, <2>3 DEF Valid, Parser
  <2>5. k \in Int
    BY <1>2
  <2> HIDE DEF k
  <2>6. Sds(t) /\ SameParser(t, e) /\ t.len = e.len
    BY <2>2, <2>3, <2>5, RoomMade
  <2>7. Valid(t)
    BY <2>4, <2>6, SameIsValid
  <2>8. q' = t /\ pos' = 0
    BY <1>1, <1>4 DEF w, e, k
  <2> HIDE DEF t
  <2>9. Valid(q') /\ q'.len = 0
    BY <2>2, <2>6, <2>7, <2>8
  <2> QED BY <1>1, <2>8, <2>9 DEF QState, Consumes, Valid, Sds, Parser
<1>5. CASE ~TakesBuffer
  <2> DEFINE w == WithArgument(q, Slice(q, pos, pos + q.bulklen))
  <2>1. q' = w /\ pos' = pos + q.bulklen + 2
    BY <1>1, <1>5
  <2>2. Valid(w)
    BY <1>3
  <2> HIDE DEF w
  <2>3. pos' \in Nat /\ pos' # 0
    BY <1>2, <2>1
  <2>4. Valid(q')
    BY <2>1, <2>2
  <2> QED BY <1>1, <2>3, <2>4 DEF QState, Consumes, Valid, Sds, Parser
<1> QED BY <1>4, <1>5

\* The bytes in front of a position are dropped, if there are any.
LEMMA DroppedIs ==
  ASSUME QState
  PROVE  LET t == IF pos > 0 THEN sdsrange(q, pos) ELSE q
         IN  Sds(t) /\ SameParser(t, q) /\ Valid(t) /\ (pos > 0 => t.len = 0 \/ t.len < q.len)
<1> DEFINE r == sdsrange(q, pos)
<1>1. Valid(q) /\ pos \in Nat
  BY DEF QState
<1>2. Sds(r) /\ SameParser(r, q) /\ (pos > 0 => r.len = 0 \/ r.len < q.len)
  BY <1>1, RangeMoved DEF Valid
<1> HIDE DEF r
<1>3. Valid(r)
  BY <1>1, <1>2, SameIsValid
<1>4. SameParser(q, q) /\ Sds(q)
  BY <1>1 DEF SameParser, Valid
<1>5. CASE pos > 0
  BY <1>2, <1>3, <1>5 DEF r
<1>6. CASE ~(pos > 0)
  BY <1>1, <1>4, <1>6
<1> QED BY <1>5, <1>6

\* What is incomplete moves to the front and waits.
LEMMA MultibulkWaitsKeeps ==
  ASSUME QState, MultibulkWaits
  PROVE  QState' /\ Consumes
<1> DEFINE t == IF pos > 0 THEN sdsrange(q, pos) ELSE q
<1>1. q.multibulklen > 0 /\ q' = t /\ at' = "idle" /\ pos' = 0
  BY DEF MultibulkWaits, LengthTurn, BulkTurn
<1>2. Valid(t) /\ SameParser(t, q)
  BY DroppedIs
<1> HIDE DEF t
<1>3. Valid(q') /\ q'.multibulklen # 0
  <2>1. q.multibulklen # 0
    BY <1>1 DEF QState, Valid, Parser
  <2> QED BY <1>1, <1>2, <2>1 DEF SameParser
<1> QED BY <1>1, <1>3 DEF QState, Consumes, Valid, Sds, Parser, Between

\* A whole request: what it used is consumed, and it is executed.
LEMMA MultibulkRequestKeeps ==
  ASSUME QState, MultibulkRequest
  PROVE  QState' /\ Consumes
<1> DEFINE t == IF pos > 0 THEN sdsrange(q, pos) ELSE q
<1>1. at = "args" /\ q.multibulklen = 0 /\ q' = Run(t) /\ at' = AfterRun(q.argv) /\ pos' = 0
  BY DEF MultibulkRequest
<1>2. Valid(t) /\ SameParser(t, q) /\ (pos > 0 => t.len = 0 \/ t.len < q.len)
  BY DroppedIs
<1>3. pos = 0 => t.len = 0
  BY <1>1 DEF QState
<1> HIDE DEF t
<1>4. pos = 0 \/ pos > 0
  BY DEF QState
<1>5. Valid(q') /\ q'.len = t.len /\ (Raises(t.argv) \/ Between(q'))
  BY <1>1, <1>2, RunIs
<1>6. Consumes
  BY <1>2, <1>3, <1>4, <1>5 DEF Consumes
<1>7. t.argv = q.argv
  BY <1>2 DEF SameParser
<1>8. (at' = "turn" /\ Between(q')) \/ at' = "dead"
  BY <1>1, <1>5, <1>7 DEF AfterRun
<1> QED BY <1>1, <1>5, <1>6, <1>8 DEF QState, Valid, Sds, Parser, Between


-----------------------------------------------------------------------------
\* A read: a part of the stream, with as many ends as it has.
LEMMA StreamSplit ==
  ASSUME NEW b \in Seq(Marked), NEW k \in 1 .. Len(b)
  PROVE  /\ SubSeq(b, 1, k) \in Seq(Marked) /\ Len(SubSeq(b, 1, k)) = k
         /\ SubSeq(b, k + 1, Len(b)) \in Seq(Marked)
         /\ Ends(SubSeq(b, 1, k)) \in Nat /\ Ends(SubSeq(b, k + 1, Len(b))) \in Nat
         /\ Ends(SubSeq(b, 1, k)) + Ends(SubSeq(b, k + 1, Len(b))) = Ends(b)
<1> DEFINE x == SubSeq(b, 1, k)
           n == Len(b)
           j == k + 1
           y == SubSeq(b, j, n)
<1>1. n \in Nat /\ k \in Nat /\ k >= 1 /\ k <= n /\ j \in Nat /\ j > 0 /\ k \in Int /\ n \in Int
  OBVIOUS
<1>2. x \in Seq(Marked) /\ Len(x) = IF 1 <= k THEN k - 1 + 1 ELSE 0
  BY <1>1, PartOf
<1>3. y \in Seq(Marked)
  <2> HIDE DEF j
  <2> QED BY <1>1, PartOf
<1>4. Len(x) = k
  <2> HIDE DEF x
  <2> QED BY <1>1, <1>2
<1>5. x \o y = b
  <2>1. 1 \in 1 .. Len(b) + 1 /\ k \in 1 - 1 .. Len(b) /\ n \in k .. Len(b)
    BY <1>1
  <2>2. SubSeq(b, 1, k) \o SubSeq(b, k + 1, n) = SubSeq(b, 1, n)
    BY <2>1, ConcatAdjacentSubSeq
  <2>3. SubSeq(b, 1, n) = b
    OBVIOUS
  <2> QED BY <2>2, <2>3
<1> HIDE DEF x, y
<1>6. Ends(b) = Ends(x) + Ends(y) /\ Ends(x) \in Nat /\ Ends(y) \in Nat
  BY <1>2, <1>3, <1>5, EndsConcat, EndsNat
<1> QED BY <1>2, <1>3, <1>4, <1>6 DEF x, y, n, j

\* The number of bytes asked for.
LEMMA ReadLenType ==
  ASSUME QState
  PROVE  ReadLen(q) \in Int
<1>1. REDIS_IOBUF_LEN \in Int
  BY QueryAssumption
<1>2. q.bulklen + 2 - q.len \in Int
  BY DEF QState, Valid, Sds, Parser
<1> DEFINE m == q.bulklen + 2 - q.len
<1>3. m \in Int
  BY <1>2
<1> HIDE DEF m
<1>4. Min({REDIS_IOBUF_LEN, m}) \in Int
  BY <1>1, <1>3, MinOfTwo
<1> QED BY <1>1, <1>4 DEF ReadLen, m

\* A read that gets nothing or fails has made room, and no more.
LEMMA NoReadKeeps ==
  ASSUME QInv, readQueryEnd \/ readQueryFails
  PROVE  QInv' /\ Consumes
<1> DEFINE n == ReadLen(q)
           r == sdsMakeRoomFor(q, n)
<1>1. /\ q' = r /\ at = "idle" /\ at' \in {"idle", "reset"}
      /\ UNCHANGED <<pos, executed, socket, sent, arrived, orderly>>
  BY DEF readQueryEnd, readQueryFails, ghosts
<1>2. n \in Int /\ Valid(q) /\ Between(q)
  BY <1>1, ReadLenType DEF QInv, QState
<1> HIDE DEF n
<1>3. Sds(r) /\ SameParser(r, q)
  BY <1>2, RoomMade DEF Valid
<1> HIDE DEF r
<1>4. Valid(q') /\ Between(q')
  BY <1>1, <1>2, <1>3, SameIsValid
<1>5. QState'
  BY <1>1, <1>4 DEF QInv, QState, Valid, Sds, Parser, Between
<1>6. QStream'
  BY <1>1 DEF QInv, QStream, Ends, Ending, Marked, Requests
<1>7. Consumes
  BY <1>1 DEF Consumes
<1> QED BY <1>5, <1>6, <1>7 DEF QInv

\* A read takes from the stream what it puts behind the bytes of the buffer.
LEMMA ReadKeeps ==
  ASSUME QInv, readQueryFromClient
  PROVE  QInv' /\ Consumes
<1>1. PICK k \in 1 .. Min({ReadLen(q), Len(socket)}) :
        LET chunk == SubSeq(socket, 1, k)
            filled == Received(q, [i \in 1 .. k |-> chunk[i].byte])
        IN  /\ q' = filled
            /\ at' = IF filled.len > client_max_querybuf_len THEN "dead" ELSE "turn"
            /\ socket' = SubSeq(socket, k + 1, Len(socket))
            /\ orderly' = (orderly /\ Orderly(chunk))
            /\ arrived' = arrived + Cardinality({i \in 1 .. k : chunk[i].ends \in {"multibulk", "inline"}})
  BY DEF readQueryFromClient
<1>2. at = "idle" /\ UNCHANGED <<pos, sent, executed>>
  BY DEF readQueryFromClient
<1> DEFINE chunk == SubSeq(socket, 1, k)
           bytes == [i \in 1 .. k |-> chunk[i].byte]
           r == Received(q, bytes)
<1>3. ReadLen(q) \in Int /\ Len(socket) \in Nat /\ Valid(q)
  BY ReadLenType DEF QInv, QState, QStream
<1>4. k \in Nat /\ k >= 1 /\ k <= ReadLen(q) /\ k <= Len(socket)
  <2> DEFINE a == ReadLen(q)
             b == Len(socket)
  <2>1. a \in Int /\ b \in Int
    BY <1>3
  <2> HIDE DEF a, b
  <2>2. Min({a, b}) \in Int /\ Min({a, b}) <= a /\ Min({a, b}) <= b
    BY <2>1, MinOfTwo
  <2>3. k \in 1 .. Min({a, b})
    BY DEF a, b
  <2>4. k \in Nat /\ k >= 1 /\ k <= a /\ k <= b
    BY <2>1, <2>2, <2>3
  <2> QED BY <2>4 DEF a, b
<1>5. /\ chunk \in Seq(Marked) /\ Len(chunk) = k /\ Ends(chunk) \in Nat
      /\ socket' \in Seq(Marked) /\ Ends(socket') \in Nat
      /\ Ends(chunk) + Ends(socket') = Ends(socket)
  <2>1. socket \in Seq(Marked) /\ k \in 1 .. Len(socket)
    BY <1>3, <1>4 DEF QInv, QStream
  <2>2. socket' = SubSeq(socket, k + 1, Len(socket))
    BY <1>1
  <2>3. /\ SubSeq(socket, 1, k) \in Seq(Marked) /\ Len(SubSeq(socket, 1, k)) = k
        /\ SubSeq(socket, k + 1, Len(socket)) \in Seq(Marked)
        /\ Ends(SubSeq(socket, 1, k)) \in Nat /\ Ends(SubSeq(socket, k + 1, Len(socket))) \in Nat
        /\ Ends(SubSeq(socket, 1, k)) + Ends(SubSeq(socket, k + 1, Len(socket))) = Ends(socket)
    BY <2>1, StreamSplit
  <2> QED BY <2>2, <2>3
<1>6. arrived' = arrived + Ends(chunk)
  <2>1. arrived' = arrived + Cardinality({i \in 1 .. k : chunk[i].ends \in {"multibulk", "inline"}})
    BY <1>1
  <2>2. DOMAIN chunk = 1 .. k
    <3> HIDE DEF chunk
    <3> QED BY <1>5
  <2> QED BY <2>1, <2>2 DEF Ends, Ending
<1>7. q' = r /\ at' \in {"turn", "dead"} /\ orderly' \in BOOLEAN
  <2>1. q' = r /\ at' = IF r.len > client_max_querybuf_len THEN "dead" ELSE "turn"
    BY <1>1
  <2>2. orderly' = (orderly /\ Orderly(chunk))
    BY <1>1
  <2> HIDE DEF r
  <2>3. at' \in {"turn", "dead"}
    BY <2>1
  <2>4. orderly' \in BOOLEAN
    BY <2>2
  <2> QED BY <2>1, <2>3, <2>4
<1> HIDE DEF chunk
<1>8. bytes \in Seq(Bytes) /\ Len(bytes) = k
  <2>1. \A i \in 1 .. k : chunk[i] \in Marked
    BY <1>5
  <2>2. \A i \in 1 .. k : chunk[i].byte \in Bytes
    BY <2>1 DEF Marked
  <2> QED BY <1>4, <2>2
<1> HIDE DEF bytes
<1>9. Sds(r) /\ SameParser(r, q)
  BY <1>3, <1>4, <1>8, BytesReceived
<1> HIDE DEF r
<1>10. Valid(q') /\ Between(q')
  <2>1. Valid(q) /\ Between(q)
    BY <1>2 DEF QInv, QState
  <2> QED BY <1>7, <1>9, <2>1, SameIsValid
<1>11. QState'
  <2>1. pos' \in Nat
    BY <1>2 DEF QInv, QState
  <2> QED BY <1>7, <1>10, <2>1 DEF QState, Valid, Sds, Parser, Between
<1>12. QStream'
  <2>1. sent' = sent /\ arrived \in Nat /\ sent \in Seq(Requests) /\ arrived + Ends(socket) <= Len(sent)
        /\ Len(sent) \in Nat
    BY <1>2 DEF QInv, QStream
  <2>2. arrived' \in Nat /\ arrived' + Ends(socket') <= Len(sent')
    BY <1>5, <1>6, <2>1
  <2>3. Ends(socket') = Ends(socket)'
    BY DEF Ends, Ending
  <2> QED BY <1>5, <1>7, <2>1, <2>2, <2>3 DEF QStream, Marked, Requests
<1>13. Consumes
  BY <1>2 DEF Consumes
<1> QED BY <1>11, <1>12, <1>13 DEF QInv

\* At the start nothing has been read, and every request has one end at most.
LEMMA QInvInit == Init => QInv
<1> SUFFICES ASSUME Init PROVE QInv
  OBVIOUS
<1>1. sent \in Streams /\ q = Client /\ pos = 0 /\ at = "idle" /\ arrived = 0 /\ orderly = TRUE
      /\ socket = FlattenSeq([i \in DOMAIN sent |-> Encode(sent[i])])
  BY DEF Init
<1>2. Valid(Client) /\ Between(Client)
  <2>1. <<"NUL">> \in Seq(Bytes) /\ Len(<<"NUL">>) = 1 /\ <<"NUL">>[1] = "NUL"
    BY QueryAssumption
  <2> DEFINE s == Client
  <2>2. /\ DOMAIN s = Fields /\ s.buf = <<"NUL">> /\ s.len = 0 /\ s.free = 0
        /\ s.multibulklen = 0 /\ s.bulklen = -1 /\ s.argv = <<>>
        /\ s.close \in BOOLEAN /\ s.error \in BOOLEAN /\ s.reqtype = "none"
    BY DEF Client, Fields
  <2> HIDE DEF s
  <2>3. s.len + s.free = 0 /\ s.len + 1 = 1 /\ s.len \in Nat /\ s.free \in Nat
    BY <2>2
  <2>4. Sds(s)
    BY <2>1, <2>2, <2>3 DEF Sds
  <2>5. Between(s)
    BY <2>2 DEF Between
  <2>6. Parser(s)
    <3>1. s.multibulklen \in Nat /\ s.reqtype \in {"none", "inline", "multibulk"}
          /\ ~(s.multibulklen > 0) /\ s.close \in BOOLEAN /\ s.error \in BOOLEAN
      BY <2>2
    <3>2. s.bulklen = -1 /\ s.bulklen \in Nat \cup {-1}
      BY <2>2
    <3> QED BY <3>1, <3>2 DEF Parser
  <2> QED BY <2>2, <2>4, <2>5, <2>6 DEF Valid, s
<1>3. QState
  BY <1>1, <1>2 DEF QState
<1> DEFINE f == [i \in DOMAIN sent |-> Encode(sent[i])]
<1>4. sent \in Seq(Requests) /\ Len(sent) \in Nat /\ DOMAIN sent = 1 .. Len(sent)
  BY <1>1, QueryAssumption
<1>5. \A i \in 1 .. Len(sent) : Encode(sent[i]) \in Seq(Marked) /\ Ends(Encode(sent[i])) <= 1
  <2> SUFFICES ASSUME NEW i \in 1 .. Len(sent)
               PROVE  Encode(sent[i]) \in Seq(Marked) /\ Ends(Encode(sent[i])) <= 1
    OBVIOUS
  <2> DEFINE r == sent[i]
  <2>1. r \in Requests
    BY <1>4
  <2>2. WellFormed(r)
    BY <1>1, <1>4, QueryAssumption
  <2> HIDE DEF r
  <2>3. Encode(r) \in Seq(Marked) /\ Ends(Encode(r)) <= 1
    BY <2>1, <2>2, EncodeType
  <2> QED BY <2>3 DEF r
<1>6. f \in Seq(Seq(Marked)) /\ Len(f) = Len(sent) /\ \A i \in 1 .. Len(f) : Ends(f[i]) <= 1
  <2>1. f \in Seq(Seq(Marked)) /\ Len(f) = Len(sent)
    BY <1>4, <1>5
  <2>2. \A i \in 1 .. Len(f) : f[i] = Encode(sent[i])
    BY <1>4, <2>1
  <2> HIDE DEF f
  <2> QED BY <1>5, <2>1, <2>2
<1>7. socket = FlattenSeq(f)
  BY <1>1
<1> HIDE DEF f
<1>8. socket \in Seq(Marked) /\ Ends(socket) <= Len(sent)
  BY <1>6, <1>7, EndsFlatten
<1>9. Ends(socket) \in Nat
  BY <1>8, EndsNat
<1>10. QStream
  BY <1>1, <1>4, <1>8, <1>9 DEF QStream
<1> QED BY <1>3, <1>10 DEF QInv

\* Every step keeps the invariant, and a turn that goes round consumes.
LEMMA QInvNext == QInv /\ Next => QInv' /\ Consumes
<1> SUFFICES ASSUME QInv, Next PROVE QInv' /\ Consumes
  OBVIOUS
<1>1. CASE readQueryFromClient
  BY <1>1, ReadKeeps
<1>3. CASE readQueryEnd \/ readQueryFails
  BY <1>3, NoReadKeeps
<1>2. CASE Processing
  <2>1. QState
    BY DEF QInv
  <2>2. QState' /\ Consumes
    BY <1>2, <2>1, StopProcessingKeeps, InlineWaitsKeeps, InlineAssertsKeeps, InlineEmptyKeeps,
       InlineRequestKeeps, MultibulkCountKeeps, MultibulkResumedKeeps, BulkLengthTooLongKeeps,
       BulkLengthBadKeeps, BulkLengthKeeps, BulkArgumentKeeps, MultibulkWaitsKeeps,
       MultibulkRequestKeeps DEF Processing
  <2>3. UNCHANGED ghosts
    BY <1>2 DEF Processing, StopProcessing, InlineWaits, InlineAsserts, InlineEmpty, InlineRequest,
       MultibulkCount, MultibulkResumed, BulkLengthTooLong, BulkLengthBad, BulkLength, BulkArgument,
       MultibulkWaits, MultibulkRequest
  <2>4. QStream'
    BY <2>3 DEF QInv, QStream, ghosts, Ends, Ending, Marked, Requests
  <2> QED BY <2>2, <2>4 DEF QInv
<1> QED BY <1>1, <1>2, <1>3 DEF Next

\* A step of another part of the session changes nothing here.
LEMMA QInvStays == QInv /\ UNCHANGED vars => QInv'
<1> SUFFICES ASSUME QInv, UNCHANGED vars PROVE QInv'
  OBVIOUS
<1>1. QState'
  BY DEF vars, QInv, QState, Valid, Sds, Parser, Between
<1>2. QStream'
  BY DEF vars, QInv, QStream, Ends, Ending, Marked, Requests
<1> QED BY <1>1, <1>2 DEF QInv

\* The invariant holds of every behaviour of the input.
THEOREM QInvHolds == Spec => []QInv
BY QInvInit, QInvNext, QInvStays, PTL DEF Spec

-----------------------------------------------------------------------------
\* However the stream is cut: the string of the buffer keeps its room and its
\* NUL behind every read and every request that is taken from it, and the
\* fields of the parser keep their ranges (networking.py, sds.py).
THEOREM InputTypes == Spec => []TypeOK
<1>1. QInv => TypeOK
  <2> SUFFICES ASSUME QInv PROVE TypeOK
    OBVIOUS
  <2>1. Ends(socket) \in Nat /\ Len(sent) \in Nat
    BY EndsNat DEF QInv, QStream
  <2>2. arrived \in 0 .. Len(sent)
    BY <2>1 DEF QInv, QStream
  <2> QED BY <2>2 DEF QInv, QState, QStream, Valid, Sds, Parser, TypeOK
<1> QED BY <1>1, QInvHolds, PTL

\* The assertions of processMultibulkBuffer never fail: a request starts with
\* its star and without arguments left over from the one before.
THEOREM AssertionsNeverFail == Spec => []AssertionsHold
<1>1. QInv => AssertionsHold
  BY DEF QInv, QState, Valid, Parser, Between, Turn, IsMultibulk, AssertionsHold
<1> QED BY <1>1, QInvHolds, PTL

\* The loop of processInputBuffer makes progress: a turn that goes round has
\* consumed bytes, left none, or closes the client.
THEOREM EveryTurnConsumes == Spec => TurnsConsume
<1>1. QInv /\ [Next]_vars
        => [at # "idle" /\ at' = "turn" => q'.len < q.len \/ q'.len = 0 \/ q'.close]_vars
  BY QInvNext DEF Consumes
<1> QED BY <1>1, QInvHolds, PTL DEF Spec, TurnsConsume


-----------------------------------------------------------------------------
\* Where the parts of a request are in its code.

\* The bytes of a request by their position.
LEMMA PlainIs ==
  ASSUME NEW bytes \in Seq(Bytes), NEW cut \in BOOLEAN
  PROVE  /\ Len(Plain(bytes, cut)) = Len(bytes) /\ Len(bytes) \in Nat
         /\ \A i \in 1 .. Len(bytes) : /\ Plain(bytes, cut)[i].byte = bytes[i]
                                       /\ Plain(bytes, cut)[i].cut = cut
<1> DEFINE b(i) == [byte |-> bytes[i], cut |-> cut, ends |-> "no"]
<1>1. Len(bytes) \in Nat /\ DOMAIN bytes = 1 .. Len(bytes)
  OBVIOUS
<1>2. Plain(bytes, cut) = [i \in 1 .. Len(bytes) |-> b(i)]
  BY <1>1 DEF Plain
<1>3. \A i \in 1 .. Len(bytes) : b(i).byte = bytes[i] /\ b(i).cut = cut
  OBVIOUS
<1> HIDE DEF b
<1>4. Len(Plain(bytes, cut)) = Len(bytes) /\ \A i \in 1 .. Len(bytes) : Plain(bytes, cut)[i] = b(i)
  BY <1>1, <1>2
<1> QED BY <1>1, <1>3, <1>4

\* Only the last byte is marked.
LEMMA ClosedIs ==
  ASSUME NEW b \in Seq(Unended), NEW kind \in {"no", "multibulk", "inline", "raw"}
  PROVE  /\ Len(Closed(b, kind)) = Len(b) /\ Len(b) \in Nat
         /\ \A i \in 1 .. Len(b) : Closed(b, kind)[i].byte = b[i].byte
         /\ \A i \in 1 .. Len(b) : i # Len(b) => Closed(b, kind)[i].cut = b[i].cut
         /\ Len(b) > 0 => Closed(b, kind)[Len(b)].cut /\ Closed(b, kind)[Len(b)].ends = kind
<1> DEFINE last == [byte |-> b[Len(b)].byte, cut |-> TRUE, ends |-> kind]
<1>1. Len(b) \in Nat /\ DOMAIN b = 1 .. Len(b)
  OBVIOUS
<1>2. last.byte = b[Len(b)].byte /\ last.cut = TRUE /\ last.ends = kind
  OBVIOUS
<1>3. \A i \in 1 .. Len(b) : (i < Len(b)) <=> (i # Len(b))
  <2>1. \A n \in Nat : \A i \in 1 .. n : (i < n) <=> (i # n)
    OBVIOUS
  <2> QED BY <1>1, <2>1
<1> DEFINE z == Closed(b, kind)
<1>4. Len(z) = Len(b) /\ \A i \in 1 .. Len(b) : z[i] = IF i = Len(b) THEN last ELSE b[i]
  <2>1. z = [i \in 1 .. Len(b) |-> IF i < Len(b) THEN b[i] ELSE
                                   [byte |-> b[i].byte, cut |-> TRUE, ends |-> kind]]
    BY <1>1 DEF Closed
  <2>2. Len(z) = Len(b)
    BY <1>1, <2>1
  <2>3. \A i \in 1 .. Len(b) : z[i] = IF i = Len(b) THEN last ELSE b[i]
    BY <1>3, <2>1
  <2> QED BY <2>2, <2>3
<1> HIDE DEF z, last
<1>5. Len(b) > 0 => Len(b) \in 1 .. Len(b)
  BY <1>1
<1> QED BY <1>1, <1>2, <1>4, <1>5 DEF z

\* Where the parts of an argument are, k bytes into the text.
HasBulk(e, k, text) ==
  LET figures == Numeral(Len(text))
      m == Len(figures)
  IN  /\ e[k + 1].byte = "$" /\ \A i \in 1 .. m : e[k + 1 + i].byte = figures[i]
      /\ e[k + m + 2].byte = "CR" /\ e[k + m + 3].byte = "LF"
      /\ \A i \in 1 .. m + 2 : ~e[k + i].cut
      /\ \A i \in 1 .. Len(text) : e[k + m + 3 + i].byte = text[i]

BulkLen(text) == Len(Numeral(Len(text))) + Len(text) + 5

\* One argument, with its length in front.
LEMMA BulkIs ==
  ASSUME NEW text \in Seq(Bytes), Numeral(Len(text)) \in Seq(Bytes)
  PROVE  /\ Len(BulkBytes(text)) = BulkLen(text) /\ HasBulk(BulkBytes(text), 0, text)
         /\ ~BulkBytes(text)[BulkLen(text)].cut /\ BulkLen(text) \in Nat
<1> DEFINE f == Numeral(Len(text))
           a == <<"$">> \o f \o <<"CR", "LF">>
           p == Plain(a, FALSE)
           x == CutAtEnd(p)
           c == <<"CR">>
           tc == text \o c
           y == Plain(tc, TRUE)
           z == Plain(<<"LF">>, FALSE)
           xy == x \o y
           m == Len(f)
           t == Len(text)
<1>1. m \in Nat /\ t \in Nat /\ f \in Seq(Bytes)
  OBVIOUS
<1>2. /\ a \in Seq(Bytes) /\ Len(a) = m + 3 /\ a[1] = "$"
      /\ \A i \in 1 .. m : a[1 + i] = f[i]
      /\ a[m + 2] = "CR" /\ a[m + 3] = "LF"
  BY NumberLine, QueryAssumption
<1>3. c \in Seq(Bytes) /\ Len(c) = 1 /\ <<"LF">> \in Seq(Bytes) /\ Len(<<"LF">>) = 1
  BY QueryAssumption
<1> HIDE DEF f, a, c, m, t
<1>4. p \in Seq(Unended) /\ Len(p) = m + 3 /\ \A i \in 1 .. m + 3 : p[i].byte = a[i] /\ p[i].cut = FALSE
  BY <1>2, PlainType, PlainIs
<1> HIDE DEF p
<1>5. x \in Seq(Unended) /\ Len(x) = m + 3
      /\ \A i \in 1 .. m + 3 : x[i].byte = a[i] /\ (i # m + 3 => ~x[i].cut)
  <2>1. x = Closed(p, "no")
    BY DEF CutAtEnd
  <2>2. x \in Seq(Unended)
    BY <1>4, <2>1, ClosedType
  <2>3. /\ Len(x) = Len(p) /\ \A i \in 1 .. Len(p) : x[i].byte = p[i].byte
        /\ \A i \in 1 .. Len(p) : i # Len(p) => x[i].cut = p[i].cut
    BY <1>4, <2>1, ClosedIs
  <2> HIDE DEF x
  <2> QED BY <1>4, <2>2, <2>3
<1>6. tc \in Seq(Bytes) /\ Joined(tc, text, c)
  BY <1>3, JoinedIs
<1> HIDE DEF x, tc
<1>7. Len(tc) = t + 1 /\ \A i \in 1 .. t : tc[i] = text[i]
  BY <1>3, <1>6 DEF Joined, t
<1>8. y \in Seq(Unended) /\ Len(y) = t + 1 /\ \A i \in 1 .. t + 1 : y[i].byte = tc[i]
  BY <1>6, <1>7, PlainType, PlainIs
<1>9. z \in Seq(Unended) /\ Len(z) = 1 /\ 1 \in 1 .. 1 /\ z[1].cut = FALSE
  <2> DEFINE l == <<"LF">>
  <2>1. l \in Seq(Bytes) /\ Len(l) = 1 /\ 1 \in 1 .. Len(l) /\ z = Plain(l, FALSE)
    BY <1>3
  <2> HIDE DEF l, z
  <2>2. z \in Seq(Unended)
    BY <2>1, PlainType
  <2>3. Len(Plain(l, FALSE)) = Len(l) /\ \A i \in 1 .. Len(l) : Plain(l, FALSE)[i].cut = FALSE
    BY <2>1, PlainIs
  <2> QED BY <2>1, <2>2, <2>3
<1> HIDE DEF y, z
<1>10. xy \in Seq(Unended) /\ Joined(xy, x, y)
  BY <1>5, <1>8, JoinedIs
<1> HIDE DEF xy
<1>11. Joined(xy \o z, xy, z)
  BY <1>9, <1>10, JoinedIs
<1>12. BulkBytes(text) = xy \o z
  BY DEF BulkBytes, xy, x, y, z, p, a, f, tc, c
<1> DEFINE e == xy \o z
<1> HIDE DEF e
<1>13. Len(xy) = m + t + 4 /\ Len(e) = m + t + 5
  BY <1>1, <1>5, <1>8, <1>9, <1>10, <1>11 DEF Joined, e
<1>14. \A i \in 1 .. m + 3 : e[i] = x[i]
  <2>1. \A i \in 1 .. m + 3 : i \in 1 .. Len(x) /\ i \in 1 .. Len(xy)
    BY <1>1, <1>5, <1>13
  <2> QED BY <2>1, <1>10, <1>11 DEF Joined, e
<1>15. \A i \in 1 .. t + 1 : e[m + 3 + i] = y[i]
  <2>1. \A i \in 1 .. t + 1 : m + 3 + i \in 1 .. Len(xy) /\ i \in 1 .. Len(y)
    BY <1>1, <1>8, <1>13
  <2> QED BY <2>1, <1>5, <1>10, <1>11 DEF Joined, e
<1>16. e[m + t + 5] = z[1]
  <2>1. 1 \in 1 .. Len(z) /\ (m + t + 4) + 1 = m + t + 5
    BY <1>1, <1>9
  <2>2. e[Len(xy) + 1] = z[1]
    BY <2>1, <1>11 DEF Joined, e
  <2> QED BY <1>13, <2>1, <2>2
<1>17. HasBulk(e, 0, text)
  <2>1. 1 \in 1 .. m + 3 /\ m + 2 \in 1 .. m + 3 /\ m + 3 \in 1 .. m + 3 /\ m + 2 # m + 3
        /\ 0 + 1 = 1 /\ 0 + m + 2 = m + 2 /\ 0 + m + 3 = m + 3
    BY <1>1
  <2>2. e[0 + 1].byte = "$" /\ e[0 + m + 2].byte = "CR" /\ e[0 + m + 3].byte = "LF"
    BY <1>2, <1>5, <1>14, <2>1
  <2>3. \A i \in 1 .. m : e[0 + 1 + i].byte = f[i]
    <3>1. \A i \in 1 .. m : 1 + i \in 1 .. m + 3 /\ 0 + 1 + i = 1 + i
      BY <1>1
    <3> QED BY <1>2, <1>5, <1>14, <3>1
  <2>4. \A i \in 1 .. m + 2 : ~e[0 + i].cut
    <3>1. \A i \in 1 .. m + 2 : i \in 1 .. m + 3 /\ i # m + 3 /\ 0 + i = i
      BY <1>1
    <3> QED BY <1>5, <1>14, <3>1
  <2>5. \A i \in 1 .. t : e[0 + m + 3 + i].byte = text[i]
    <3>1. \A i \in 1 .. t : i \in 1 .. t + 1 /\ 0 + m + 3 + i = m + 3 + i
      BY <1>1
    <3> QED BY <1>7, <1>8, <1>15, <3>1
  <2> QED BY <2>2, <2>3, <2>4, <2>5 DEF HasBulk, f, m, t
<1>18. BulkLen(text) = m + t + 5 /\ m + t + 5 \in Nat
  BY <1>1 DEF BulkLen, m, t, f
<1> QED BY <1>9, <1>12, <1>13, <1>16, <1>17, <1>18 DEF e

\* The same at another place: only the last byte may be marked differently.
LEMMA BulkMoves ==
  ASSUME NEW text \in Seq(Bytes), Numeral(Len(text)) \in Seq(Bytes),
         NEW e, NEW k \in Nat, NEW b, NEW l \in Nat, HasBulk(b, l, text),
         \A i \in 1 .. BulkLen(text) : e[k + i].byte = b[l + i].byte,
         \A i \in 1 .. BulkLen(text) - 1 : e[k + i].cut = b[l + i].cut
  PROVE  HasBulk(e, k, text)
<1> DEFINE f == Numeral(Len(text))
           m == Len(f)
           t == Len(text)
<1>1. m \in Nat /\ t \in Nat /\ BulkLen(text) = m + t + 5
  BY DEF BulkLen
<1>2. /\ b[l + 1].byte = "$" /\ \A i \in 1 .. m : b[l + 1 + i].byte = f[i]
      /\ b[l + m + 2].byte = "CR" /\ b[l + m + 3].byte = "LF"
      /\ \A i \in 1 .. m + 2 : ~b[l + i].cut
      /\ \A i \in 1 .. t : b[l + m + 3 + i].byte = text[i]
  BY DEF HasBulk
<1> HIDE DEF f, m, t
<1>3. /\ \A i \in 1 .. m + t + 5 : e[k + i].byte = b[l + i].byte
      /\ \A i \in 1 .. m + t + 4 : e[k + i].cut = b[l + i].cut
  <2>1. (m + t + 5) - 1 = m + t + 4
    BY <1>1
  <2> QED BY <1>1, <2>1
<1>4. e[k + 1].byte = "$"
  <2>1. 1 \in 1 .. m + t + 5
    BY <1>1
  <2> QED BY <1>2, <1>3, <2>1
<1>5. e[k + m + 2].byte = "CR" /\ e[k + m + 3].byte = "LF"
  <2>1. m + 2 \in 1 .. m + t + 5 /\ m + 3 \in 1 .. m + t + 5
    BY <1>1
  <2>2. /\ k + (m + 2) = k + m + 2 /\ k + (m + 3) = k + m + 3
        /\ l + (m + 2) = l + m + 2 /\ l + (m + 3) = l + m + 3
    <3>1. \A x, y, c \in Nat : x + (y + c) = x + y + c
      OBVIOUS
    <3>2. k \in Nat /\ l \in Nat /\ m \in Nat /\ 2 \in Nat /\ 3 \in Nat
      BY <1>1
    <3> QED BY ONLY <3>1, <3>2
  <2>3. e[k + (m + 2)].byte = b[l + (m + 2)].byte /\ e[k + (m + 3)].byte = b[l + (m + 3)].byte
    BY <1>3, <2>1
  <2> QED BY <1>2, <2>2, <2>3
<1>6. ASSUME NEW i \in 1 .. m PROVE e[k + 1 + i].byte = f[i]
  <2>1. 1 + i \in 1 .. m + t + 5 /\ k + (1 + i) = k + 1 + i /\ l + (1 + i) = l + 1 + i
    BY <1>1
  <2>2. e[k + (1 + i)].byte = b[l + (1 + i)].byte
    BY <1>3, <2>1
  <2> QED BY <1>2, <2>1, <2>2
<1>7. ASSUME NEW i \in 1 .. m + 2 PROVE ~e[k + i].cut
  <2>1. i \in 1 .. m + t + 4
    BY <1>1
  <2> QED BY <1>2, <1>3, <2>1
<1>8. ASSUME NEW i \in 1 .. t PROVE e[k + m + 3 + i].byte = text[i]
  <2>1. m + 3 + i \in 1 .. m + t + 5 /\ k + (m + 3 + i) = k + m + 3 + i /\ l + (m + 3 + i) = l + m + 3 + i
    <3>1. \A x, y, c, d \in Nat : x + (y + c + d) = x + y + c + d
      OBVIOUS
    <3>2. k \in Nat /\ l \in Nat /\ m \in Nat /\ 3 \in Nat /\ i \in Nat
      BY <1>1
    <3>3. m + 3 + i \in 1 .. m + t + 5
      BY <1>1
    <3> QED BY ONLY <3>1, <3>2, <3>3
  <2>2. e[k + (m + 3 + i)].byte = b[l + (m + 3 + i)].byte
    BY <1>3, <2>1
  <2> QED BY <1>2, <2>1, <2>2
<1> QED BY <1>4, <1>5, <1>6, <1>7, <1>8 DEF HasBulk, f, m, t

Bulks(args) == [i \in DOMAIN args |-> BulkBytes(args[i])]
HeaderLen(args) == Len(Numeral(Len(args))) + 3

\* Where the argument after the first j begins.
BulkStart(args, j) == HeaderLen(args) + Offset(Bulks(args), j)

\* The count of the arguments in front of them.
HasHeader(e, args) ==
  LET figures == Numeral(Len(args))
      h == Len(figures)
  IN  /\ e[1].byte = "*" /\ \A i \in 1 .. h : e[1 + i].byte = figures[i]
      /\ e[h + 2].byte = "CR" /\ e[h + 3].byte = "LF"
      /\ \A i \in 1 .. h + 3 : i # Len(e) => ~e[i].cut

HasBulks(e, args) ==
  \A j \in 0 .. Len(args) - 1 :
    /\ BulkStart(args, j) \in Nat /\ BulkStart(args, j + 1) = BulkStart(args, j) + BulkLen(args[j + 1])
    /\ BulkLen(args[j + 1]) \in Nat /\ BulkStart(args, j + 1) <= Len(e)
    /\ HasBulk(e, BulkStart(args, j), args[j + 1])
    /\ BulkStart(args, j + 1) # Len(e) => ~e[BulkStart(args, j + 1)].cut

\* What a client may send as a multibulk request.
Sendable(args) ==
  /\ args \in Seq(Seq(Bytes)) /\ Numeral(Len(args)) \in Seq(Bytes)
  /\ \A j \in DOMAIN args : Numeral(Len(args[j])) \in Seq(Bytes)

\* A multibulk request: the header and the arguments.
LEMMA MultibulkIs ==
  ASSUME NEW args, Sendable(args)
  PROVE  LET e == MultibulkBytes(args)
         IN  /\ Len(e) = BulkStart(args, Len(args)) /\ HasHeader(e, args) /\ HasBulks(e, args)
             /\ BulkStart(args, 0) = HeaderLen(args) /\ Len(e) \in Nat
             /\ \A i \in 1 .. HeaderLen(args) : ~e[i].cut
             /\ \A j \in 0 .. Len(args) - 1 : ~e[BulkStart(args, j + 1)].cut
<1> DEFINE f == Numeral(Len(args))
           h == Len(f)
           a == <<"*">> \o f \o <<"CR", "LF">>
           p == Plain(a, FALSE)
           b == Bulks(args)
           z == FlattenSeq(b)
           e == p \o z
           n == Len(args)
<1>1. /\ n \in Nat /\ DOMAIN args = 1 .. n /\ f \in Seq(Bytes) /\ h \in Nat
      /\ \A i \in 1 .. n : args[i] \in Seq(Bytes) /\ Numeral(Len(args[i])) \in Seq(Bytes)
  BY DEF Sendable
<1>2. /\ a \in Seq(Bytes) /\ Len(a) = h + 3 /\ a[1] = "*"
      /\ \A i \in 1 .. h : a[1 + i] = f[i]
      /\ a[h + 2] = "CR" /\ a[h + 3] = "LF"
  BY <1>1, NumberLine, QueryAssumption
<1> HIDE DEF a, f, h
<1>3. p \in Seq(Unended) /\ Len(p) = h + 3 /\ \A i \in 1 .. h + 3 : p[i].byte = a[i] /\ p[i].cut = FALSE
  BY <1>2, PlainType, PlainIs
<1>4. ASSUME NEW i \in 1 .. n
      PROVE  BulkBytes(args[i]) \in Seq(Unended)
  BY <1>1, BulkType
<1>5. b \in Seq(Seq(Unended)) /\ Len(b) = n /\ \A i \in 1 .. n : b[i] = BulkBytes(args[i])
  <2>1. b = [i \in 1 .. n |-> BulkBytes(args[i])]
    BY <1>1 DEF Bulks
  <2> HIDE DEF b
  <2> QED BY <1>1, <1>4, <2>1
<1>6. MultibulkBytes(args) = e
  BY DEF MultibulkBytes, a, f, Bulks
<1> HIDE DEF p, b
<1>7. z \in Seq(Unended)
  BY <1>5, FlattenType
<1>8. Offset(b, 0) = 0 /\ Offset(b, n) = Len(z) /\ \A j \in 0 .. n : Offset(b, j) \in Nat
  BY <1>5, OffsetEnds
<1> HIDE DEF z
<1>9. Joined(e, p, z)
  BY <1>3, <1>7, JoinedIs
<1> HIDE DEF e
<1>10. HeaderLen(args) = h + 3 /\ \A j : BulkStart(args, j) = h + 3 + Offset(b, j)
  BY DEF HeaderLen, BulkStart, b, h, f
<1>11. Len(e) = BulkStart(args, n) /\ Len(e) = h + 3 + Len(z) /\ Len(e) \in Nat /\ Len(z) \in Nat
       /\ BulkStart(args, 0) = HeaderLen(args)
  <2>1. Len(e) = Len(p) + Len(z) /\ Len(z) \in Nat
    BY <1>9 DEF Joined
  <2>2. Len(e) = h + 3 + Len(z) /\ Len(e) \in Nat
    BY <1>1, <1>3, <2>1
  <2>3. Len(e) = BulkStart(args, n)
    BY <1>8, <1>10, <2>2
  <2>4. BulkStart(args, 0) = HeaderLen(args)
    BY <1>1, <1>8, <1>10
  <2> QED BY <2>1, <2>2, <2>3, <2>4
<1>12. \A i \in 1 .. h + 3 : e[i] = p[i]
  BY <1>3, <1>9 DEF Joined
<1>13. HasHeader(e, args) /\ \A i \in 1 .. HeaderLen(args) : ~e[i].cut
  <2>1. \A i \in 1 .. h + 3 : ~e[i].cut
    BY <1>3, <1>12
  <2>2. 1 \in 1 .. h + 3 /\ h + 2 \in 1 .. h + 3 /\ h + 3 \in 1 .. h + 3
    BY <1>1
  <2>3. e[1].byte = "*" /\ e[h + 2].byte = "CR" /\ e[h + 3].byte = "LF"
    BY <1>2, <1>3, <1>12, <2>2
  <2>4. \A i \in 1 .. h : e[1 + i].byte = f[i]
    <3>1. \A i \in 1 .. h : 1 + i \in 1 .. h + 3
      BY <1>1
    <3> QED BY <1>2, <1>3, <1>12, <3>1
  <2> QED BY <1>10, <2>1, <2>3, <2>4 DEF HasHeader, f, h
<1>14. ASSUME NEW j \in 0 .. n - 1
       PROVE  /\ BulkStart(args, j) \in Nat /\ BulkStart(args, j + 1) = BulkStart(args, j) + BulkLen(args[j + 1])
              /\ BulkLen(args[j + 1]) \in Nat /\ BulkStart(args, j + 1) <= Len(e)
              /\ HasBulk(e, BulkStart(args, j), args[j + 1])
              /\ ~e[BulkStart(args, j + 1)].cut
  <2> DEFINE text == args[j + 1]
             x == BulkBytes(text)
             k == BulkStart(args, j)
  <2>1. j \in Nat /\ j < n /\ j + 1 \in 1 .. n /\ j \in 0 .. n
    BY <1>1
  <2>2. text \in Seq(Bytes) /\ Numeral(Len(text)) \in Seq(Bytes)
    BY <1>1, <2>1
  <2> HIDE DEF text
  <2>3. Len(x) = BulkLen(text) /\ HasBulk(x, 0, text) /\ ~x[BulkLen(text)].cut /\ BulkLen(text) \in Nat
    BY <2>2, BulkIs
  <2>4. b[j + 1] = x
    BY <1>5, <2>1 DEF text
  <2>5. /\ Offset(b, j) \in Nat /\ Offset(b, j + 1) = Offset(b, j) + Len(b[j + 1])
        /\ Offset(b, j + 1) <= Len(z)
        /\ \A i \in 1 .. Len(b[j + 1]) : z[Offset(b, j) + i] = b[j + 1][i]
    <3>1. j < Len(b)
      BY <1>5, <2>1
    <3> QED BY <1>5, <2>1, <3>1, FlattenPlace DEF z
  <2> HIDE DEF x, k
  <2>6. k \in Nat /\ k = h + 3 + Offset(b, j) /\ BulkStart(args, j + 1) = k + BulkLen(text) /\ k + BulkLen(text) <= Len(e)
    BY <1>1, <1>10, <1>11, <2>1, <2>3, <2>4, <2>5 DEF k
  <2>7. ASSUME NEW i \in 1 .. BulkLen(text) PROVE e[k + i] = x[i]
    <3>1. Offset(b, j) + i \in 1 .. Len(z) /\ (h + 3) + (Offset(b, j) + i) = k + i
      <4> DEFINE o == Offset(b, j)
                 l == BulkLen(text)
                 w == Len(z)
      <4>1. o \in Nat /\ l \in Nat /\ w \in Nat /\ h \in Nat /\ o + l <= w /\ k = h + 3 + o /\ i \in 1 .. l
        BY <1>1, <1>11, <2>3, <2>4, <2>5, <2>6
      <4> HIDE DEF o, l, w
      <4>2. o + i \in 1 .. w /\ (h + 3) + (o + i) = k + i
        BY <4>1
      <4> QED BY <4>2 DEF o, w
    <3>2. e[(h + 3) + (Offset(b, j) + i)] = z[Offset(b, j) + i]
      BY <1>3, <1>9, <3>1 DEF Joined
    <3> QED BY <2>3, <2>4, <2>5, <3>1, <3>2
  <2>8. HasBulk(e, k, text)
    <3>1. \A i \in 1 .. BulkLen(text) : e[k + i].byte = x[0 + i].byte
      BY <2>7
    <3>2. \A i \in 1 .. BulkLen(text) - 1 : e[k + i].cut = x[0 + i].cut
      <4>1. \A i \in 1 .. BulkLen(text) - 1 : i \in 1 .. BulkLen(text) /\ 0 + i = i
        BY <2>3
      <4> QED BY <2>7, <4>1
    <3>3. 0 \in Nat
      OBVIOUS
    <3> QED BY <2>2, <2>3, <2>6, <3>1, <3>2, <3>3, BulkMoves
  <2>9. ~e[k + BulkLen(text)].cut
    <3>1. BulkLen(text) \in 1 .. BulkLen(text)
      BY <2>2, <2>3 DEF BulkLen
    <3> QED BY <2>3, <2>7, <3>1
  <2> QED BY <2>3, <2>6, <2>8, <2>9 DEF k, text
<1> HIDE DEF n
<1>15. HasBulks(e, args)
  BY <1>14 DEF HasBulks, n
<1> QED BY <1>6, <1>11, <1>13, <1>14, <1>15 DEF n

\* The words of an inline request with what separates them.
Separator(args, i) == IF i < Len(args) THEN <<"SP">> ELSE <<"CR", "LF">>
Separated(args) == [i \in DOMAIN args |-> args[i] \o Separator(args, i)]
InlineText(args) == FlattenSeq(Separated(args))

\* Where the words are.
HasWords(text, args) ==
  /\ text \in Seq(Bytes) /\ Len(text) \in Nat /\ Len(text) = Offset(Separated(args), Len(args))
  /\ Offset(Separated(args), 0) = 0 /\ Len(text) >= 2
  /\ text[Len(text)] = "LF" /\ text[Len(text) - 1] = "CR"
  /\ \A w \in 0 .. Len(args) - 1 :
       /\ Offset(Separated(args), w) \in Nat
       /\ Offset(Separated(args), w + 1) =
            Offset(Separated(args), w) + Len(args[w + 1]) + IF w + 1 < Len(args) THEN 1 ELSE 2
       /\ Offset(Separated(args), w + 1) <= Len(text)
       /\ \A i \in 1 .. Len(args[w + 1]) : text[Offset(Separated(args), w) + i] = args[w + 1][i]
       /\ text[Offset(Separated(args), w) + Len(args[w + 1]) + 1] =
            IF w + 1 < Len(args) THEN "SP" ELSE "CR"

\* The words and a line end.
LEMMA InlineIs ==
  ASSUME NEW args \in Seq(Seq(Bytes)), args # <<>>
  PROVE  HasWords(InlineText(args), args)
<1> DEFINE n == Len(args)
           s == Separated(args)
           text == InlineText(args)
<1>1. n \in Nat /\ n > 0 /\ DOMAIN args = 1 .. n /\ \A i \in 1 .. n : args[i] \in Seq(Bytes)
  OBVIOUS
<1>2. \A i \in 1 .. n : /\ Separator(args, i) \in Seq(Bytes)
                        /\ Len(Separator(args, i)) = (IF i < n THEN 1 ELSE 2)
                        /\ Separator(args, i)[1] = (IF i < n THEN "SP" ELSE "CR")
                        /\ ~(i < n) => Separator(args, i)[2] = "LF"
  <2>1. /\ <<"SP">> \in Seq(Bytes) /\ Len(<<"SP">>) = 1 /\ <<"SP">>[1] = "SP"
        /\ <<"CR", "LF">> \in Seq(Bytes) /\ Len(<<"CR", "LF">>) = 2
        /\ <<"CR", "LF">>[1] = "CR" /\ <<"CR", "LF">>[2] = "LF"
    BY QueryAssumption
  <2> SUFFICES ASSUME NEW i \in 1 .. n
               PROVE  /\ Separator(args, i) \in Seq(Bytes)
                      /\ Len(Separator(args, i)) = (IF i < n THEN 1 ELSE 2)
                      /\ Separator(args, i)[1] = (IF i < n THEN "SP" ELSE "CR")
                      /\ ~(i < n) => Separator(args, i)[2] = "LF"
    OBVIOUS
  <2>2. CASE i < n
    BY <2>1, <2>2 DEF Separator
  <2>3. CASE ~(i < n)
    BY <2>1, <2>3 DEF Separator
  <2> QED BY <2>2, <2>3
<1>3. \A i \in 1 .. n : /\ args[i] \o Separator(args, i) \in Seq(Bytes)
                        /\ Joined(args[i] \o Separator(args, i), args[i], Separator(args, i))
  BY <1>1, <1>2, JoinedIs
<1>4. s \in Seq(Seq(Bytes)) /\ Len(s) = n
      /\ \A i \in 1 .. n : s[i] \in Seq(Bytes) /\ Joined(s[i], args[i], Separator(args, i))
  <2>1. s = [i \in 1 .. n |-> args[i] \o Separator(args, i)]
    BY <1>1 DEF Separated
  <2> HIDE DEF s
  <2>2. \A i \in 1 .. n : s[i] = args[i] \o Separator(args, i)
    BY <2>1
  <2>3. s \in Seq(Seq(Bytes)) /\ Len(s) = n
    <3> DEFINE v(i) == args[i] \o Separator(args, i)
    <3>1. \A i \in 1 .. n : v(i) \in Seq(Bytes)
      BY <1>3
    <3>2. s = [i \in 1 .. n |-> v(i)]
      BY <2>1
    <3> HIDE DEF v
    <3> QED BY <1>1, <3>1, <3>2
  <2> QED BY <1>3, <2>2, <2>3
<1> HIDE DEF s
<1>5. text \in Seq(Bytes) /\ text = FlattenSeq(s)
  BY <1>4, FlattenType DEF InlineText, s
<1> HIDE DEF text
<1>6. Offset(s, 0) = 0 /\ Offset(s, n) = Len(text) /\ Len(text) \in Nat
  BY <1>4, <1>5, OffsetEnds
<1> HIDE DEF n
<1>7. ASSUME NEW w \in 0 .. n - 1
      PROVE  /\ Offset(s, w) \in Nat
             /\ Offset(s, w + 1) = Offset(s, w) + Len(args[w + 1]) + IF w + 1 < n THEN 1 ELSE 2
             /\ Offset(s, w + 1) <= Len(text)
             /\ \A i \in 1 .. Len(args[w + 1]) : text[Offset(s, w) + i] = args[w + 1][i]
             /\ text[Offset(s, w) + Len(args[w + 1]) + 1] = IF w + 1 < n THEN "SP" ELSE "CR"
             /\ w + 1 = n => text[Offset(s, w) + Len(args[w + 1]) + 2] = "LF"
  <2>1. w \in Nat /\ w < Len(s) /\ w + 1 \in 1 .. n
    BY <1>1, <1>4
  <2>2. /\ Offset(s, w) \in Nat /\ Offset(s, w + 1) = Offset(s, w) + Len(s[w + 1])
        /\ Offset(s, w + 1) <= Len(text)
        /\ \A k \in 1 .. Len(s[w + 1]) : text[Offset(s, w) + k] = s[w + 1][k]
    BY <1>4, <1>5, <2>1, FlattenPlace
  <2> DEFINE a == args[w + 1]
             b == Separator(args, w + 1)
             d == IF w + 1 < n THEN 1 ELSE 2
             o == Offset(s, w)
             l == Len(a)
             v == s[w + 1]
  <2>3. Joined(v, a, b) /\ Len(b) = d
    BY <1>2, <1>4, <2>1
  <2>4. b[1] = (IF w + 1 < n THEN "SP" ELSE "CR") /\ (w + 1 = n => b[2] = "LF" /\ d = 2)
    BY <1>1, <1>2, <2>1
  <2>5. d \in {1, 2}
    OBVIOUS
  <2>6. \A k \in 1 .. Len(v) : text[o + k] = v[k]
    BY <2>2
  <2>7. o \in Nat
    BY <2>2
  <2> HIDE DEF a, b, d, o, v
  <2>8. Len(v) = l + d /\ l \in Nat /\ \A i \in 1 .. l : v[i] = a[i]
    BY <2>3 DEF Joined
  <2>9. \A i \in 1 .. d : v[l + i] = b[i]
    BY <2>3 DEF Joined
  <2> HIDE DEF l
  <2>10. \A i \in 1 .. l : i \in 1 .. Len(v)
    BY <2>5, <2>8
  <2>11. \A i \in 1 .. d : l + i \in 1 .. Len(v) /\ o + (l + i) = o + l + i
    BY <2>5, <2>7, <2>8
  <2>12. 1 \in 1 .. d /\ (d = 2 => 2 \in 1 .. d)
    BY <2>5
  <2>13. \A i \in 1 .. d : text[o + l + i] = b[i]
    <3> SUFFICES ASSUME NEW i \in 1 .. d PROVE text[o + l + i] = b[i]
      OBVIOUS
    <3>1. text[o + (l + i)] = v[l + i]
      BY <2>6, <2>11
    <3> QED BY <2>9, <2>11, <3>1
  <2>14. text[o + l + 1] = (IF w + 1 < n THEN "SP" ELSE "CR") /\ (w + 1 = n => text[o + l + 2] = "LF")
    BY <2>4, <2>12, <2>13
  <2>15. \A i \in 1 .. l : text[o + i] = a[i]
    BY <2>6, <2>8, <2>10
  <2>16. Offset(s, w + 1) = o + l + d
    <3>1. Offset(s, w + 1) = o + Len(v)
      BY <2>2 DEF o, v
    <3> QED BY <2>5, <2>7, <2>8, <3>1
  <2> QED BY <2>2, <2>14, <2>15, <2>16 DEF a, b, d, o, l
<1>8. Len(text) >= 2 /\ text[Len(text)] = "LF" /\ text[Len(text) - 1] = "CR"
  <2> DEFINE w == n - 1
             o == Offset(s, w)
             l == Len(args[n])
  <2>1. w \in 0 .. n - 1 /\ w + 1 = n /\ ~(w + 1 < n) /\ l \in Nat
    BY <1>1 DEF n
  <2> HIDE DEF w
  <2>2. o \in Nat /\ Offset(s, w + 1) = o + l + 2
    <3>1. o \in Nat /\ Offset(s, w + 1) = o + Len(args[w + 1]) + IF w + 1 < n THEN 1 ELSE 2
      BY <1>7, <2>1
    <3>2. Len(args[w + 1]) = l
      BY <2>1
    <3> HIDE DEF o, l
    <3> QED BY <2>1, <3>1, <3>2
  <2>3. text[o + l + 1] = "CR" /\ text[o + l + 2] = "LF"
    BY <1>7, <2>1
  <2>4. Len(text) = o + l + 2
    BY <1>6, <2>1, <2>2
  <2> HIDE DEF o, l
  <2>5. Len(text) >= 2 /\ Len(text) - 1 = o + l + 1
    BY <2>1, <2>2, <2>4
  <2> QED BY <2>3, <2>4, <2>5
<1> QED BY <1>5, <1>6, <1>7, <1>8 DEF HasWords, n, s, text

\* What a request looks like in the stream, by position.
CodeOf(e, r) ==
  /\ e \in Seq(Marked) /\ Len(e) \in Nat /\ Len(e) > 0
  /\ r.kind = "raw" => \A i \in 1 .. Len(e) : e[i].ends = "raw" /\ ~e[i].cut
  /\ r.kind # "raw" => /\ \A i \in 1 .. Len(e) : i # Len(e) => e[i].ends = "no"
                       /\ e[Len(e)].ends = r.kind /\ e[Len(e)].cut
  /\ r.kind = "multibulk" =>
       /\ Sendable(r.args) /\ Len(e) = BulkStart(r.args, Len(r.args))
       /\ BulkStart(r.args, 0) = HeaderLen(r.args)
       /\ HasHeader(e, r.args) /\ HasBulks(e, r.args)
  /\ r.kind = "inline" =>
       /\ HasWords(InlineText(r.args), r.args) /\ Len(e) = Len(InlineText(r.args))
       /\ \A i \in 1 .. Len(e) : e[i].byte = InlineText(r.args)[i] /\ (i # Len(e) => ~e[i].cut)

\* Encode makes it look so.
LEMMA CodeIs ==
  ASSUME NEW r \in Requests, WellFormed(r)
  PROVE  CodeOf(Encode(r), r)
<1> DEFINE e == Encode(r)
           args == r.args
<1>1. e \in Seq(Marked) /\ Len(e) \in Nat
  BY EncodeType
<1>2. r.kind \in {"multibulk", "inline", "raw"}
  BY DEF Requests
<1>3. CASE r.kind = "raw"
  <2>1. r.bytes \in Seq(Bytes) /\ r.bytes # <<>>
    BY <1>3 DEF Requests, WellFormed
  <2>2. Len(r.bytes) \in Nat /\ Len(r.bytes) > 0 /\ DOMAIN r.bytes = 1 .. Len(r.bytes)
    BY <2>1
  <2>3. e = [i \in 1 .. Len(r.bytes) |-> [byte |-> r.bytes[i], cut |-> FALSE, ends |-> "raw"]]
    BY <1>3, <2>2 DEF Encode
  <2> HIDE DEF e
  <2>4. Len(e) = Len(r.bytes) /\ \A i \in 1 .. Len(e) : e[i].ends = "raw" /\ ~e[i].cut
    BY <2>2, <2>3
  <2> QED BY <1>1, <1>3, <2>2, <2>4 DEF CodeOf, e
<1>4. CASE r.kind = "multibulk"
  <2> DEFINE m == MultibulkBytes(args)
  <2>1. args \in Seq(Seq(Bytes)) /\ Len(args) \in Nat
    BY <1>4 DEF Requests
  <2>2. Sendable(args)
    BY <1>4, <2>1 DEF Sendable, WellFormed, Written
  <2>13. /\ DOMAIN args = 1 .. Len(args)
         /\ \A i \in 1 .. Len(args) : args[i] \in Seq(Bytes) /\ Numeral(Len(args[i])) \in Seq(Bytes)
    <3>1. DOMAIN args = 1 .. Len(args) /\ \A i \in 1 .. Len(args) : args[i] \in Seq(Bytes)
      BY <2>1
    <3>2. \A i \in DOMAIN args : Numeral(Len(args[i])) \in Seq(Bytes)
      BY <2>2 DEF Sendable
    <3> HIDE DEF args
    <3> QED BY <3>1, <3>2
  <2>3. /\ Len(m) = BulkStart(args, Len(args)) /\ HasHeader(m, args) /\ HasBulks(m, args)
        /\ BulkStart(args, 0) = HeaderLen(args) /\ Len(m) \in Nat
        /\ \A i \in 1 .. HeaderLen(args) : ~m[i].cut
        /\ \A j \in 0 .. Len(args) - 1 : ~m[BulkStart(args, j + 1)].cut
    BY <2>2, MultibulkIs
  <2>4. m \in Seq(Unended)
    BY <2>2, MultibulkType DEF Sendable
  <2>5. e = Closed(m, "multibulk")
    BY <1>4 DEF Encode
  <2> HIDE DEF e, m, args
  <2>6. /\ Len(e) = Len(m) /\ \A i \in 1 .. Len(m) : e[i].byte = m[i].byte
        /\ \A i \in 1 .. Len(m) : i # Len(m) => e[i].cut = m[i].cut
        /\ Len(m) > 0 => e[Len(m)].cut /\ e[Len(m)].ends = "multibulk"
    BY <2>4, <2>5, ClosedIs
  <2>7. \A i \in 1 .. Len(m) : i # Len(m) => e[i].ends = "no"
    BY <2>4, <2>5, ClosedType
  <2>8. HeaderLen(args) \in Nat /\ HeaderLen(args) >= 3 /\ HeaderLen(args) <= Len(m)
    <3> DEFINE h == Len(Numeral(Len(args)))
    <3>1. h \in Nat /\ HeaderLen(args) = h + 3
      BY <2>2 DEF Sendable, HeaderLen
    <3> HIDE DEF h
    <3>2. BulkStart(args, 0) \in Nat
      BY <2>3, <3>1
    <3>3. BulkStart(args, 0) <= BulkStart(args, Len(args))
      <4>1. CASE Len(args) = 0
        BY <2>3, <3>1, <4>1
      <4>2. CASE Len(args) # 0
        <5>1. \A j \in 0 .. Len(args) : Offset(Bulks(args), j) \in Nat
          <6>1. DOMAIN args = 1 .. Len(args)
            BY <2>1
          <6>2. \A i \in 1 .. Len(args) : BulkBytes(args[i]) \in Seq(Unended)
            BY <2>13, BulkType
          <6>3. Bulks(args) \in Seq(Seq(Unended)) /\ Len(Bulks(args)) = Len(args)
            BY <2>1, <6>1, <6>2 DEF Bulks
          <6> QED BY <6>3, OffsetEnds
        <5>2. Offset(Bulks(args), 0) = 0
          <6>1. BulkStart(args, 0) = HeaderLen(args) + Offset(Bulks(args), 0) /\ 0 \in 0 .. Len(args)
            BY <2>1 DEF BulkStart
          <6> QED BY <2>3, <3>1, <5>1, <6>1
        <5>3. Len(args) \in 0 .. Len(args)
          BY <2>1
        <5>4. Offset(Bulks(args), Len(args)) \in Nat
          BY <5>1, <5>3
        <5> QED BY <3>1, <5>2, <5>4 DEF BulkStart
      <4> QED BY <4>1, <4>2
    <3> QED BY <2>3, <3>1, <3>3
  <2>9. HasHeader(e, args)
    <3> DEFINE f == Numeral(Len(args))
               h == Len(f)
    <3>1. h \in Nat /\ HeaderLen(args) = h + 3
      BY <2>2 DEF Sendable, HeaderLen
    <3>2. /\ m[1].byte = "*" /\ \A i \in 1 .. h : m[1 + i].byte = f[i]
          /\ m[h + 2].byte = "CR" /\ m[h + 3].byte = "LF"
      BY <2>3 DEF HasHeader
    <3> HIDE DEF f, h
    <3>3. 1 \in 1 .. Len(m) /\ h + 2 \in 1 .. Len(m) /\ h + 3 \in 1 .. Len(m)
      BY <2>3, <2>8, <3>1
    <3>4. \A i \in 1 .. h : 1 + i \in 1 .. Len(m)
      BY <2>3, <2>8, <3>1
    <3>5. \A i \in 1 .. h + 3 : i \in 1 .. Len(m) /\ i \in 1 .. HeaderLen(args)
      BY <2>3, <2>8, <3>1
    <3>6. \A i \in 1 .. h + 3 : i # Len(e) => ~e[i].cut
      BY <2>3, <2>6, <3>5
    <3> QED BY <2>6, <3>2, <3>3, <3>4, <3>6 DEF HasHeader, f, h
  <2>10. HasBulks(e, args)
    <3> SUFFICES ASSUME NEW j \in 0 .. Len(args) - 1
                 PROVE  /\ BulkStart(args, j) \in Nat
                        /\ BulkStart(args, j + 1) = BulkStart(args, j) + BulkLen(args[j + 1])
                        /\ BulkLen(args[j + 1]) \in Nat /\ BulkStart(args, j + 1) <= Len(e)
                        /\ HasBulk(e, BulkStart(args, j), args[j + 1])
                        /\ BulkStart(args, j + 1) # Len(e) => ~e[BulkStart(args, j + 1)].cut
      BY DEF HasBulks
    <3> DEFINE k == BulkStart(args, j)
               l == BulkLen(args[j + 1])
               text == args[j + 1]
    <3>1. /\ k \in Nat /\ BulkStart(args, j + 1) = k + l /\ l \in Nat /\ k + l <= Len(m)
          /\ HasBulk(m, k, text) /\ ~m[k + l].cut
      BY <2>3 DEF HasBulks
    <3>2. text \in Seq(Bytes) /\ Numeral(Len(text)) \in Seq(Bytes) /\ l = BulkLen(text) /\ l > 0
      <4>1. j + 1 \in 1 .. Len(args)
        BY <2>1
      <4>2. text \in Seq(Bytes) /\ Numeral(Len(text)) \in Seq(Bytes) /\ l = BulkLen(text)
        BY <2>13, <4>1
      <4> HIDE DEF text, l
      <4> QED BY <4>2 DEF BulkLen
    <3> HIDE DEF k, l, text
    <3>3. \A i \in 1 .. l : k + i \in 1 .. Len(m)
      BY <2>3, <3>1
    <3>4. \A i \in 1 .. l - 1 : k + i \in 1 .. Len(m) /\ k + i # Len(m)
      BY <2>3, <3>1
    <3>5. HasBulk(e, k, text)
      <4>1. \A i \in 1 .. BulkLen(text) : e[k + i].byte = m[k + i].byte
        BY <2>6, <3>2, <3>3
      <4>2. \A i \in 1 .. BulkLen(text) - 1 : e[k + i].cut = m[k + i].cut
        BY <2>6, <3>2, <3>4
      <4> QED BY <3>1, <3>2, <4>1, <4>2, BulkMoves
    <3>6. k + l # Len(e) => ~e[k + l].cut
      <4>1. l \in 1 .. l
        BY <3>1, <3>2
      <4> QED BY <2>6, <3>1, <3>3, <4>1
    <3> QED BY <2>6, <3>1, <3>5, <3>6 DEF k, l, text
  <2>11. \A i \in 1 .. Len(e) : i # Len(e) => e[i].ends = "no"
    BY <2>6, <2>7
  <2>12. Len(e) > 0 /\ e[Len(e)].ends = "multibulk" /\ e[Len(e)].cut /\ Len(e) = BulkStart(args, Len(args))
    BY <2>3, <2>6, <2>8
  <2> QED BY <1>1, <1>4, <2>2, <2>3, <2>9, <2>10, <2>11, <2>12 DEF CodeOf, e, args
<1>5. CASE r.kind = "inline"
  <2> DEFINE text == InlineText(args)
             b == Plain(text, FALSE)
  <2>1. args \in Seq(Seq(Bytes)) /\ args # <<>>
    BY <1>5 DEF Requests, WellFormed
  <2>2. HasWords(text, args)
    BY <2>1, InlineIs
  <2>3. text \in Seq(Bytes) /\ Len(text) \in Nat /\ Len(text) >= 2
    BY <2>2 DEF HasWords
  <2>4. e = Closed(b, "inline")
    BY <1>5 DEF Encode, InlineBytes, InlineText, Separated, Separator
  <2> HIDE DEF e, args
  <2>5. b \in Seq(Unended) /\ Len(b) = Len(text) /\ \A i \in 1 .. Len(text) : b[i].byte = text[i] /\ b[i].cut = FALSE
    <3> HIDE DEF text
    <3> QED BY <2>3, PlainType, PlainIs
  <2> HIDE DEF b, text
  <2>6. /\ Len(e) = Len(b) /\ \A i \in 1 .. Len(b) : e[i].byte = b[i].byte
        /\ \A i \in 1 .. Len(b) : i # Len(b) => e[i].cut = b[i].cut
        /\ Len(b) > 0 => e[Len(b)].cut /\ e[Len(b)].ends = "inline"
    BY <2>4, <2>5, ClosedIs
  <2>7. \A i \in 1 .. Len(b) : i # Len(b) => e[i].ends = "no"
    BY <2>4, <2>5, ClosedType
  <2>8. Len(e) > 0 /\ Len(e) = Len(text)
    BY <2>3, <2>5, <2>6
  <2>9. \A i \in 1 .. Len(e) : e[i].byte = text[i] /\ (i # Len(e) => ~e[i].cut)
    BY <2>5, <2>6
  <2>10. /\ \A i \in 1 .. Len(e) : i # Len(e) => e[i].ends = "no"
         /\ e[Len(e)].ends = "inline" /\ e[Len(e)].cut
    BY <2>5, <2>6, <2>7, <2>8
  <2> QED BY <1>1, <1>5, <2>2, <2>8, <2>9, <2>10 DEF CodeOf, e, args, text
<1> QED BY <1>2, <1>3, <1>4, <1>5

-----------------------------------------------------------------------------
\* The words of an inline request.

\* A sequence of numbers that rises at every step rises between any two.
LEMMA StepsRise ==
  ASSUME NEW k \in Nat, NEW p \in [1 .. k -> Nat], \A i \in 1 .. k - 1 : p[i] < p[i + 1]
  PROVE  \A i, j \in 1 .. k : i < j => p[i] < p[j]
<1> SUFFICES ASSUME NEW i \in 1 .. k PROVE \A j \in 1 .. k : i < j => p[i] < p[j]
  OBVIOUS
<1> DEFINE Bad == {j \in 1 .. k : i < j /\ ~(p[i] < p[j])}
<1>1. SUFFICES ASSUME Bad # {} PROVE FALSE
  OBVIOUS
<1>2. PICK j \in Bad : \A l \in Bad : j <= l
  <2>1. Bad \in SUBSET Nat
    OBVIOUS
  <2> HIDE DEF Bad
  <2> QED BY <1>1, <2>1, LeastNatural
<1>3. j \in 1 .. k /\ i < j /\ ~(p[i] < p[j])
  OBVIOUS
<1>4. j - 1 \in 1 .. k - 1 /\ j - 1 \in 1 .. k /\ (j - 1) + 1 = j /\ j - 1 \notin Bad
  <2>1. j - 1 \in 1 .. k - 1 /\ j - 1 \in 1 .. k /\ (j - 1) + 1 = j /\ ~(j <= j - 1)
    BY <1>3
  <2> HIDE DEF Bad
  <2> QED BY <1>2, <2>1
<1>5. p[j - 1] < p[j]
  <2> DEFINE l == j - 1
  <2>1. l \in 1 .. k - 1 /\ l + 1 = j
    BY <1>4
  <2> HIDE DEF l
  <2>2. p[l] < p[l + 1]
    BY <2>1
  <2> QED BY <2>1, <2>2 DEF l
<1>6. i = j - 1 \/ p[i] < p[j - 1]
  BY <1>3, <1>4
<1>7. p[i] \in Nat /\ p[j] \in Nat /\ p[j - 1] \in Nat
  BY <1>3, <1>4
<1> QED BY <1>3, <1>5, <1>6, <1>7

\* The line that InlineRequest splits, with the NUL of sds in place of the line feed.
LineOf(line, text) ==
  /\ Len(line) = Len(text) /\ DOMAIN line = 1 .. Len(text) /\ line[Len(text)] = "NUL"
  /\ \A i \in 1 .. Len(text) - 1 : line[i] = text[i]

\* The words are in their places, and white space is between them only.
InPlaces(line, args, n) ==
  LET o(w) == Offset(Separated(args), w)
  IN  /\ \A w \in 0 .. Len(args) - 1 :
           /\ o(w) \in Nat /\ Len(args[w + 1]) \in Nat /\ Len(args[w + 1]) > 0
           /\ o(w) + Len(args[w + 1]) + 1 \in 1 .. n - 1
           /\ o(w) + Len(args[w + 1]) + 1 <= o(w + 1)
           /\ w + 1 < Len(args) => o(w) + Len(args[w + 1]) + 1 = o(w + 1)
           /\ w + 1 = Len(args) => o(w) + Len(args[w + 1]) + 2 = n
           /\ \A i \in 1 .. Len(args[w + 1]) :
                line[o(w) + i] = args[w + 1][i] /\ line[o(w) + i] \notin White
           /\ line[o(w) + Len(args[w + 1]) + 1] \in White
      /\ \A i \in 1 .. n - 1 : \E w \in 0 .. Len(args) - 1 :
           o(w) < i /\ i <= o(w) + Len(args[w + 1]) + 1
      /\ "NUL" \notin White /\ n \in Nat /\ n >= 2 /\ o(0) = 0

\* They are in the line of an inline request.
LEMMA WordPlaces ==
  ASSUME NEW args \in Seq(Seq(Bytes)), args # <<>>,
         \A w \in 1 .. Len(args) : args[w] # <<>> /\ ToSet(args[w]) \cap White = {},
         NEW text, HasWords(text, args), NEW line, LineOf(line, text)
  PROVE  InPlaces(line, args, Len(text))
<1> DEFINE s == Separated(args)
           k == Len(args)
           n == Len(text)
<1>1. /\ k \in Nat /\ k > 0
      /\ \A w \in 1 .. k : /\ args[w] \in Seq(Bytes) /\ Len(args[w]) \in Nat /\ Len(args[w]) > 0
                           /\ \A i \in 1 .. Len(args[w]) : args[w][i] \notin White
  <2>1. \A w \in 1 .. k : args[w] \in Seq(Bytes) /\ Len(args[w]) \in Nat /\ DOMAIN args[w] = 1 .. Len(args[w])
    OBVIOUS
  <2>2. \A w \in 1 .. k : Len(args[w]) > 0
    OBVIOUS
  <2>3. ASSUME NEW w \in 1 .. k, NEW i \in 1 .. Len(args[w]) PROVE args[w][i] \notin White
    <3>1. args[w][i] \in ToSet(args[w])
      BY <2>1 DEF ToSet
    <3> QED BY <3>1
  <2> QED BY <2>1, <2>2, <2>3
<1>2. /\ n \in Nat /\ n = Offset(s, k) /\ Offset(s, 0) = 0 /\ n >= 2
      /\ \A w \in 0 .. k - 1 :
           /\ Offset(s, w) \in Nat
           /\ Offset(s, w + 1) = Offset(s, w) + Len(args[w + 1]) + IF w + 1 < k THEN 1 ELSE 2
           /\ Offset(s, w + 1) <= n
           /\ \A i \in 1 .. Len(args[w + 1]) : text[Offset(s, w) + i] = args[w + 1][i]
           /\ text[Offset(s, w) + Len(args[w + 1]) + 1] = IF w + 1 < k THEN "SP" ELSE "CR"
  BY DEF HasWords
<1>3. \A i \in 1 .. n - 1 : line[i] = text[i]
  BY DEF LineOf
<1> HIDE DEF s, k, n
<1>4. "NUL" \notin White /\ "SP" \in White /\ "CR" \in White
  BY DEF White
<1>5. ASSUME NEW w \in 0 .. k - 1
      PROVE  LET o == Offset(s, w)
                 l == Len(args[w + 1])
             IN  /\ o \in Nat /\ l \in Nat /\ l > 0 /\ o + l + 1 \in 1 .. n - 1 /\ o + l + 1 <= Offset(s, w + 1)
                 /\ w + 1 < k => o + l + 1 = Offset(s, w + 1)
                 /\ w + 1 = k => o + l + 2 = n
                 /\ \A i \in 1 .. l : line[o + i] = args[w + 1][i] /\ line[o + i] \notin White
                 /\ line[o + l + 1] \in White
  <2> DEFINE o == Offset(s, w)
             a == args[w + 1]
             l == Len(a)
             d == IF w + 1 < k THEN 1 ELSE 2
             e == Offset(s, w + 1)
  <2>1. w + 1 \in 1 .. k /\ w \in Nat
    BY <1>1
  <2>2. l \in Nat /\ l > 0 /\ \A i \in 1 .. l : a[i] \notin White
    BY <1>1, <2>1
  <2>3. o \in Nat /\ e = o + l + d /\ e <= n /\ text[o + l + 1] = IF w + 1 < k THEN "SP" ELSE "CR"
    BY <1>2
  <2>4. \A i \in 1 .. l : text[o + i] = a[i]
    BY <1>2
  <2>5. d \in {1, 2} /\ (w + 1 < k => d = 1) /\ (w + 1 = k => d = 2)
    BY <1>1
  <2>6. w + 1 = k => e = n
    BY <1>2
  <2>7. w + 1 < k => e + 2 <= n
    <3> SUFFICES ASSUME w + 1 < k PROVE e + 2 <= n
      OBVIOUS
    <3> DEFINE v == w + 1
               g == Offset(s, v + 1)
               dd == IF v + 1 < k THEN 1 ELSE 2
               m == Len(args[v + 1])
    <3>1. v \in 0 .. k - 1 /\ v + 1 \in 1 .. k /\ e = Offset(s, v)
      BY <1>1, <2>1
    <3> HIDE DEF v
    <3>2. m \in Nat /\ m > 0
      BY <1>1, <3>1
    <3>3. g = Offset(s, v) + m + dd /\ g <= n /\ Offset(s, v) \in Nat
      BY <1>2, <3>1
    <3>4. dd \in {1, 2}
      OBVIOUS
    <3>5. n \in Nat
      BY <1>2
    <3> HIDE DEF g, m, dd, e
    <3>6. e \in Nat /\ g = e + m + dd
      BY <3>1, <3>3
    <3> QED BY <3>2, <3>3, <3>4, <3>5, <3>6
  <2> HIDE DEF o, a, l, d, e
  <2>8. o + l + 1 \in 1 .. n - 1 /\ o + l + 1 <= e
    <3>1. CASE w + 1 < k
      BY <1>2, <2>2, <2>3, <2>5, <2>7, <3>1
    <3>2. CASE ~(w + 1 < k)
      <4>1. w + 1 = k
        BY <1>1, <2>1, <3>2
      <4> QED BY <1>2, <2>2, <2>3, <2>5, <2>6, <4>1
    <3> QED BY <3>1, <3>2
  <2>9. ASSUME NEW i \in 1 .. l PROVE line[o + i] = a[i] /\ line[o + i] \notin White
    <3>1. o + i \in 1 .. n - 1
      BY <1>2, <2>2, <2>3, <2>8
    <3> QED BY <1>3, <2>2, <2>4, <3>1
  <2>10. line[o + l + 1] \in White
    <3>1. line[o + l + 1] = text[o + l + 1]
      BY <1>3, <2>8
    <3> QED BY <1>4, <2>3, <3>1
  <2>11. (w + 1 < k => o + l + 1 = e) /\ (w + 1 = k => o + l + 2 = n)
    BY <2>3, <2>5, <2>6
  <2> QED BY <2>2, <2>3, <2>8, <2>9, <2>10, <2>11 DEF o, a, l, e
<1>6. ASSUME NEW i \in 1 .. n - 1
      PROVE  \E w \in 0 .. k - 1 : Offset(s, w) < i /\ i <= Offset(s, w) + Len(args[w + 1]) + 1
  <2> DEFINE T == {w \in 0 .. k : i <= Offset(s, w)}
  <2>1. k \in T
    <3>1. k \in 0 .. k /\ i <= n
      BY <1>1, <1>2
    <3> QED BY <1>2, <3>1
  <2>2. PICK v \in T : \A u \in T : v <= u
    <3>1. T \in SUBSET Nat
      BY <1>1
    <3> HIDE DEF T
    <3> QED BY <2>1, <3>1, LeastNatural
  <2>3. v \in 0 .. k /\ i <= Offset(s, v)
    OBVIOUS
  <2>4. v # 0
    BY <1>2, <2>3
  <2> DEFINE w == v - 1
  <2>5. w \in 0 .. k - 1 /\ w \in 0 .. k /\ w + 1 = v /\ ~(v <= w)
    BY <1>1, <2>3, <2>4
  <2>6. w \notin T
    <3> HIDE DEF T, w
    <3> QED BY <2>2, <2>5
  <2>7. ~(i <= Offset(s, w))
    <3> HIDE DEF w
    <3> QED BY <2>5, <2>6
  <2> HIDE DEF w
  <2> DEFINE o == Offset(s, w)
             l == Len(args[w + 1])
  <2>8. /\ o \in Nat /\ l \in Nat /\ (w + 1 < k => o + l + 1 = Offset(s, w + 1))
        /\ (w + 1 = k => o + l + 2 = n)
    BY <1>5, <2>5
  <2>9. i \in Int /\ i < n /\ n \in Nat
    BY <1>2
  <2>10. o < i /\ i <= o + l + 1
    <3> HIDE DEF o, l
    <3>1. o < i
      BY <2>7, <2>8, <2>9 DEF o
    <3>2. CASE w + 1 < k
      BY <2>3, <2>5, <2>8, <3>1, <3>2
    <3>3. CASE ~(w + 1 < k)
      <4>1. w + 1 = k
        BY <1>1, <2>5, <3>3
      <4> QED BY <2>8, <2>9, <3>1, <4>1
    <3> QED BY <3>1, <3>2, <3>3
  <2> QED BY <2>5, <2>10
<1> QED BY <1>2, <1>4, <1>5, <1>6 DEF InPlaces, s, k, n

\* A part of a text that is another text.
LEMMA PartIs ==
  ASSUME NEW S, NEW s \in Seq(S), NEW t \in Seq(S), NEW o \in Nat, o + Len(t) <= Len(s),
         \A i \in 1 .. Len(t) : s[o + i] = t[i]
  PROVE  SubSeq(s, o + 1, o + Len(t)) = t
<1> DEFINE l == Len(t)
           x == SubSeq(s, o + 1, o + l)
<1>1. l \in Nat /\ Len(s) \in Nat
  OBVIOUS
<1>2. \A i \in o + 1 .. o + l : s[i] \in S
  BY <1>1
<1>3. /\ x \in Seq(S) /\ Len(x) = IF o + 1 <= o + l THEN (o + l) - (o + 1) + 1 ELSE 0
      /\ \A i \in 1 .. (o + l) - (o + 1) + 1 : x[i] = s[(o + 1) + i - 1]
  BY <1>1, <1>2, SubSeqProperties
<1>4. \A i \in 1 .. l : s[o + i] = t[i]
  OBVIOUS
<1> HIDE DEF x, l
<1>5. (o + l) - (o + 1) + 1 = l /\ \A i \in 1 .. l : (o + 1) + i - 1 = o + i
  BY <1>1
<1>6. Len(x) = l /\ \A i \in 1 .. l : x[i] = t[i]
  BY <1>1, <1>3, <1>4, <1>5
<1>7. Len(t) = l
  BY DEF l
<1>8. x = t
  BY <1>3, <1>6, <1>7, SeqEqual
<1> QED BY <1>8 DEF x, l

\* The words of a line are what the client has written, and the NUL.
LEMMA WordsAre ==
  ASSUME NEW args \in Seq(Seq(Bytes)), args # <<>>, NEW n, InPlaces(Line, args, n),
         Line \in Seq(Bytes), Len(Line) = n, Line[n] = "NUL"
  PROVE  Words = Append(args, <<"NUL">>)
<1> DEFINE k == Len(args)
           o(w) == Offset(Separated(args), w)
           l(w) == Len(args[w + 1])
           line == Line
           p == [w \in 1 .. k + 1 |-> IF w = k + 1 THEN n ELSE o(w - 1) + 1]
           W == {p[w] : w \in 1 .. k + 1}
<1>1. k \in Nat /\ k > 0 /\ DOMAIN args = 1 .. k /\ \A w \in 1 .. k : args[w] \in Seq(Bytes)
  OBVIOUS
<1>2. \A w \in 0 .. k - 1 :
        /\ o(w) \in Nat /\ l(w) \in Nat /\ l(w) > 0
        /\ o(w) + l(w) + 1 \in 1 .. n - 1
        /\ o(w) + l(w) + 1 <= o(w + 1)
        /\ w + 1 < k => o(w) + l(w) + 1 = o(w + 1)
        /\ w + 1 = k => o(w) + l(w) + 2 = n
        /\ \A i \in 1 .. l(w) : line[o(w) + i] = args[w + 1][i] /\ line[o(w) + i] \notin White
        /\ line[o(w) + l(w) + 1] \in White
  BY DEF InPlaces
<1>3. \A i \in 1 .. n - 1 : \E w \in 0 .. k - 1 : o(w) < i /\ i <= o(w) + l(w) + 1
  BY DEF InPlaces
<1>4. "NUL" \notin White /\ n \in Nat /\ n >= 2 /\ o(0) = 0 /\ line[n] \notin White
  BY DEF InPlaces
<1>5. line \in Seq(Bytes) /\ Len(line) = n /\ DOMAIN line = 1 .. n
  OBVIOUS
<1>6. WordStarts = {i \in 1 .. n : line[i] \notin White /\ (i = 1 \/ line[i - 1] \in White)}
  BY <1>5 DEF WordStarts
<1>7. \A i : WordEnd(i) = CHOOSE j \in i .. n : (\A m \in i .. j : line[m] \notin White)
                                               /\ (j = n \/ line[j + 1] \in White)
  BY <1>5 DEF WordEnd
<1> HIDE DEF k, o, l, line
<1>8. p \in [1 .. k + 1 -> Nat] /\ p[k + 1] = n /\ \A w \in 1 .. k : p[w] = o(w - 1) + 1
  <2>1. \A w \in 1 .. k + 1 : (IF w = k + 1 THEN n ELSE o(w - 1) + 1) \in Nat
    <3> SUFFICES ASSUME NEW w \in 1 .. k + 1 PROVE (IF w = k + 1 THEN n ELSE o(w - 1) + 1) \in Nat
      OBVIOUS
    <3>1. CASE w = k + 1
      BY <1>4, <3>1
    <3>2. CASE w # k + 1
      <4>1. w - 1 \in 0 .. k - 1
        BY <1>1, <3>2
      <4>2. o(w - 1) \in Nat
        BY <1>2, <4>1
      <4> QED BY <3>2, <4>2
    <3> QED BY <3>1, <3>2
  <2>2. k + 1 \in 1 .. k + 1 /\ \A w \in 1 .. k : w \in 1 .. k + 1 /\ w # k + 1
    BY <1>1
  <2> QED BY <2>1, <2>2
<1> HIDE DEF p
<1>9. \A w \in 1 .. (k + 1) - 1 : p[w] < p[w + 1]
  <2> SUFFICES ASSUME NEW w \in 1 .. k PROVE p[w] < p[w + 1]
    BY <1>1
  <2> DEFINE v == w - 1
  <2>1. v \in 0 .. k - 1 /\ v + 1 = w
    BY <1>1
  <2>2. p[w] = o(v) + 1
    BY <1>8
  <2> HIDE DEF v
  <2>3. o(v) \in Nat /\ l(v) \in Nat /\ l(v) > 0 /\ o(v) + l(v) + 1 \in 1 .. n - 1
        /\ (v + 1 < k => o(v) + l(v) + 1 = o(v + 1))
    BY <1>2, <2>1
  <2>4. CASE w = k
    BY <1>4, <1>8, <2>2, <2>3, <2>4
  <2>5. CASE w # k
    <3>1. w + 1 \in 1 .. k /\ (w + 1) - 1 = w /\ v + 1 < k
      BY <1>1, <2>1, <2>5
    <3>2. p[w + 1] = o(w) + 1
      BY <1>8, <3>1
    <3>3. o(w) = o(v) + l(v) + 1
      BY <2>1, <2>3, <3>1
    <3> QED BY <2>2, <2>3, <3>2, <3>3
  <2> QED BY <2>4, <2>5
<1>10. \A i, j \in 1 .. k + 1 : i < j => p[i] < p[j]
  <2>1. k + 1 \in Nat
    BY <1>1
  <2> QED BY <1>8, <1>9, <2>1, StepsRise
<1>11. ASSUME NEW w \in 1 .. k + 1 PROVE p[w] \in WordStarts
  <2>1. CASE w = k + 1
    <3> DEFINE v == k - 1
    <3>1. v \in 0 .. k - 1 /\ v + 1 = k
      BY <1>1
    <3> HIDE DEF v
    <3>2. o(v) + l(v) + 2 = n /\ line[o(v) + l(v) + 1] \in White /\ o(v) \in Nat /\ l(v) \in Nat
      BY <1>2, <3>1
    <3>3. o(v) + l(v) + 1 = n - 1
      <4>1. \A a, b, c \in Nat : a + b + 2 = c => a + b + 1 = c - 1
        OBVIOUS
      <4>2. n \in Nat
        BY <1>4
      <4> QED BY <3>2, <4>1, <4>2
    <3>4. n \in 1 .. n /\ line[n - 1] \in White
      BY <1>4, <3>2, <3>3
    <3> QED BY <1>4, <1>6, <1>8, <2>1, <3>4
  <2>2. CASE w # k + 1
    <3> DEFINE v == w - 1
    <3>1. w \in 1 .. k /\ v \in 0 .. k - 1 /\ v + 1 = w /\ (v = 0 \/ v - 1 \in 0 .. k - 1)
      BY <1>1, <2>2
    <3>2. p[w] = o(v) + 1
      BY <1>8, <3>1
    <3> HIDE DEF v
    <3>3. o(v) \in Nat /\ l(v) \in Nat /\ l(v) > 0 /\ o(v) + l(v) + 1 \in 1 .. n - 1
          /\ \A i \in 1 .. l(v) : line[o(v) + i] \notin White
      BY <1>2, <3>1
    <3>4. o(v) + 1 \in 1 .. n /\ line[o(v) + 1] \notin White
      <4>1. 1 \in 1 .. l(v)
        BY <3>3
      <4>2. o(v) + 1 \in 1 .. n
        BY <1>4, <3>3
      <4> QED BY <3>3, <4>1, <4>2
    <3>5. CASE v = 0
      <4>1. o(v) + 1 = 1
        BY <1>4, <3>5
      <4> QED BY <1>6, <3>2, <3>4, <4>1
    <3>6. CASE v # 0
      <4> DEFINE u == v - 1
      <4>1. u \in 0 .. k - 1 /\ u + 1 = v /\ u + 1 < k
        BY <1>1, <3>1, <3>6
      <4> HIDE DEF u
      <4>2. o(u) + l(u) + 1 = o(u + 1) /\ line[o(u) + l(u) + 1] \in White
        BY <1>2, <4>1
      <4>3. line[o(v)] \in White
        BY <4>1, <4>2
      <4>4. (o(v) + 1) - 1 = o(v)
        BY <3>3
      <4> QED BY <1>6, <3>2, <3>4, <4>3, <4>4
    <3> QED BY <3>5, <3>6
  <2> QED BY <2>1, <2>2
<1>12. ASSUME NEW i \in WordStarts PROVE i \in W
  <2>1. i \in 1 .. n /\ line[i] \notin White /\ (i = 1 \/ line[i - 1] \in White)
    BY <1>6
  <2>2. CASE i = n
    <3>1. k + 1 \in 1 .. k + 1
      BY <1>1
    <3> QED BY <1>8, <2>2, <3>1
  <2>3. CASE i # n
    <3>1. i \in 1 .. n - 1
      BY <1>4, <2>1, <2>3
    <3>2. PICK v \in 0 .. k - 1 : o(v) < i /\ i <= o(v) + l(v) + 1
      BY <1>3, <3>1
    <3>3. o(v) \in Nat /\ l(v) \in Nat /\ \A j \in 1 .. l(v) : line[o(v) + j] \notin White
      BY <1>2
    <3>4. line[o(v) + l(v) + 1] \in White
      BY <1>2
    <3>5. i # o(v) + l(v) + 1
      BY <2>1, <3>4
    <3>6. i = o(v) + 1
      <4> SUFFICES ASSUME i # o(v) + 1 PROVE FALSE
        OBVIOUS
      <4> DEFINE j == (i - 1) - o(v)
      <4>1. j \in 1 .. l(v) /\ o(v) + j = i - 1 /\ i # 1
        BY <3>1, <3>2, <3>3, <3>5
      <4> HIDE DEF j
      <4> QED BY <2>1, <3>3, <4>1
    <3>7. v + 1 \in 1 .. k /\ v + 1 \in 1 .. k + 1 /\ (v + 1) - 1 = v
      BY <1>1
    <3>8. p[v + 1] = i
      BY <1>8, <3>6, <3>7
    <3> QED BY <3>7, <3>8
  <2> QED BY <2>2, <2>3
<1>13. WordStarts = {p[w] : w \in 1 .. k + 1}
  <2> HIDE DEF W
  <2>1. \A i \in W : i \in WordStarts
    BY <1>11 DEF W
  <2>2. WordStarts = W
    BY <1>12, <2>1
  <2> QED BY <2>2 DEF W
<1>14. /\ Cardinality(WordStarts) = k + 1
       /\ \A w \in 1 .. k + 1 : WordStart(w) = p[w]
  <2>1. k + 1 \in Nat
    BY <1>1
  <2>2. /\ Cardinality(WordStarts) = k + 1
        /\ \A w \in 1 .. k + 1 : Ranked(WordStarts, w) = p[w]
    <3> DEFINE K == k + 1
               V == WordStarts
    <3>1. /\ K \in Nat /\ p \in [1 .. K -> Nat]
          /\ \A i, j \in 1 .. K : i < j => p[i] < p[j]
          /\ V = {p[i] : i \in 1 .. K}
      BY <1>8, <1>10, <1>13, <2>1
    <3> HIDE DEF K, V
    <3>2. Cardinality(V) = K /\ \A w \in 1 .. K : Ranked(V, w) = p[w]
      BY ONLY <3>1, RankOf
    <3> QED BY <3>2 DEF K, V
  <2>3. \A w : WordStart(w) = Ranked(WordStarts, w)
    BY DEF WordStart, Ranked
  <2> QED BY <2>2, <2>3
<1>15. ASSUME NEW i \in 1 .. n, NEW e \in i .. n, \A m \in i .. e : line[m] \notin White,
              e = n \/ line[e + 1] \in White
       PROVE  WordEnd(i) = e
  <2>1. ASSUME NEW j \in i .. n, \A m \in i .. j : line[m] \notin White,
               j = n \/ line[j + 1] \in White
        PROVE  j = e
    <3>1. CASE j < e
      <4>1. j + 1 \in i .. e /\ j # n
        BY <1>4, <3>1
      <4> QED BY <1>15, <2>1, <4>1
    <3>2. CASE e < j
      <4>1. e + 1 \in i .. j /\ e # n
        BY <1>4, <3>2
      <4> QED BY <1>15, <2>1, <4>1
    <3>3. j \in Int /\ e \in Int
      BY <1>4
    <3> QED BY <3>1, <3>2, <3>3
  <2>2. (CHOOSE j \in i .. n : (\A m \in i .. j : line[m] \notin White)
                              /\ (j = n \/ line[j + 1] \in White)) = e
    BY <1>15, <2>1
  <2> QED BY <1>7, <2>2
<1>16. ASSUME NEW w \in 1 .. k PROVE SubSeq(line, WordStart(w), WordEnd(WordStart(w))) = args[w]
  <2> DEFINE v == w - 1
  <2>1. w \in 1 .. k + 1 /\ v \in 0 .. k - 1 /\ v + 1 = w
    BY <1>1
  <2>2. WordStart(w) = o(v) + 1
    BY <1>8, <1>14, <2>1
  <2> HIDE DEF v
  <2>3. o(v) \in Nat /\ l(v) \in Nat /\ l(v) > 0 /\ o(v) + l(v) + 1 \in 1 .. n - 1
        /\ line[o(v) + l(v) + 1] \in White
        /\ \A i \in 1 .. l(v) : line[o(v) + i] = args[v + 1][i] /\ line[o(v) + i] \notin White
    BY <1>2, <2>1
  <2>4. WordEnd(o(v) + 1) = o(v) + l(v)
    <3>1. o(v) + 1 \in 1 .. n /\ o(v) + l(v) \in o(v) + 1 .. n
      BY <1>4, <2>3
    <3>2. ASSUME NEW m \in o(v) + 1 .. o(v) + l(v) PROVE line[m] \notin White
      <4> DEFINE i == m - o(v)
      <4>1. i \in 1 .. l(v) /\ o(v) + i = m
        BY <2>3
      <4> HIDE DEF i
      <4> QED BY <2>3, <4>1
    <3>3. line[(o(v) + l(v)) + 1] \in White
      BY <2>3
    <3> DEFINE i == o(v) + 1
               e == o(v) + l(v)
    <3>4. /\ i \in 1 .. n /\ e \in i .. n /\ (\A m \in i .. e : line[m] \notin White)
          /\ line[e + 1] \in White
      BY <3>1, <3>2, <3>3
    <3> HIDE DEF i, e
    <3>5. WordEnd(i) = e
      BY <1>15, <3>4
    <3> QED BY <3>5 DEF i, e
  <2>5. SubSeq(line, o(v) + 1, o(v) + Len(args[w])) = args[w]
    <3>1. args[w] \in Seq(Bytes) /\ Len(args[w]) = l(v)
      BY <1>1, <2>1 DEF l
    <3>2. o(v) + Len(args[w]) <= Len(line)
      BY <1>4, <1>5, <2>3, <3>1
    <3>3. \A i \in 1 .. Len(args[w]) : line[o(v) + i] = args[w][i]
      BY <2>1, <2>3, <3>1
    <3> QED BY <1>5, <2>3, <3>1, <3>2, <3>3, PartIs
  <2>6. l(v) = Len(args[w])
    BY <2>1 DEF l
  <2> QED BY <2>2, <2>4, <2>5, <2>6
<1>17. SubSeq(line, WordStart(k + 1), WordEnd(WordStart(k + 1))) = <<"NUL">>
  <2>1. k + 1 \in 1 .. k + 1
    BY <1>1
  <2>2. WordStart(k + 1) = n
    BY <1>8, <1>14, <2>1
  <2>3. WordEnd(n) = n
    <3>1. n \in 1 .. n /\ n \in n .. n /\ \A m \in n .. n : line[m] \notin White
      BY <1>4
    <3> QED BY <1>15, <3>1
  <2> DEFINE t == <<"NUL">>
             d == n - 1
  <2>4. t \in Seq(Bytes) /\ Len(t) = 1 /\ t[1] = "NUL"
    BY QueryAssumption
  <2>5. d \in Nat /\ d + 1 = n /\ line[n] = "NUL"
    BY <1>4 DEF line
  <2> HIDE DEF t, d
  <2>6. SubSeq(line, d + 1, d + Len(t)) = t
    <3>1. d + Len(t) <= Len(line)
      BY <1>4, <1>5, <2>4, <2>5
    <3>2. \A i \in 1 .. Len(t) : line[d + i] = t[i]
      BY <2>4, <2>5
    <3> QED BY <1>5, <2>4, <2>5, <3>1, <3>2, PartIs
  <2> QED BY <2>2, <2>3, <2>4, <2>5, <2>6 DEF t
<1>18. Words = [w \in 1 .. k + 1 |-> IF w = k + 1 THEN <<"NUL">> ELSE args[w]]
  <2>1. Words = [w \in 1 .. k + 1 |-> SubSeq(line, WordStart(w), WordEnd(WordStart(w)))]
    BY <1>14 DEF Words, line
  <2>2. \A w \in 1 .. k + 1 : SubSeq(line, WordStart(w), WordEnd(WordStart(w)))
                              = IF w = k + 1 THEN <<"NUL">> ELSE args[w]
    <3> SUFFICES ASSUME NEW w \in 1 .. k + 1
                 PROVE  SubSeq(line, WordStart(w), WordEnd(WordStart(w)))
                        = IF w = k + 1 THEN <<"NUL">> ELSE args[w]
      OBVIOUS
    <3>1. CASE w = k + 1
      BY <1>17, <3>1
    <3>2. CASE w # k + 1
      <4>1. w \in 1 .. k
        BY <1>1, <3>2
      <4> QED BY <1>16, <3>2, <4>1
    <3> QED BY <3>1, <3>2
  <2> QED BY <2>1, <2>2
<1>19. Append(args, <<"NUL">>) = [w \in 1 .. k + 1 |-> IF w = k + 1 THEN <<"NUL">> ELSE args[w]]
  <2> DEFINE t == <<"NUL">>
             x == Append(args, t)
  <2>1. /\ Len(x) = k + 1 /\ x[k + 1] = t /\ x \in Seq(Seq(Bytes)) /\ \A w \in 1 .. k : x[w] = args[w]
    <3>1. t \in Seq(Bytes)
      BY QueryAssumption
    <3> HIDE DEF t
    <3> QED BY <3>1, AppendProperties DEF k
  <2>2. x = [w \in 1 .. k + 1 |-> x[w]]
    BY <1>1, <2>1
  <2> HIDE DEF x, t
  <2>3. \A w \in 1 .. k + 1 : x[w] = IF w = k + 1 THEN t ELSE args[w]
    <3>1. \A w \in 1 .. k + 1 : w = k + 1 \/ w \in 1 .. k
      BY <1>1
    <3>2. \A w \in 1 .. k : w # k + 1
      BY <1>1
    <3> QED BY <2>1, <3>1, <3>2
  <2> QED BY <2>2, <2>3 DEF x, t
<1> QED BY <1>18, <1>19

-----------------------------------------------------------------------------
\* The inductive invariant: where the parser is in the stream.

\* The stream of the requests S: their codes, where each begins, and how many
\* requests have ended in its first m bytes.
CodesOf(S) == [i \in DOMAIN S |-> Encode(S[i])]
StreamOf(S) == FlattenSeq(CodesOf(S))
StartOf(S, n) == Offset(CodesOf(S), n)
Ended(D, m) == Ends(SubSeq(D, 1, m))

\* What the first n requests ask for.
AskedBy(S, i) == IF S[i].args = <<>> THEN <<>> ELSE <<S[i].args>>
AsksFor(S, n) == FlattenSeq([i \in 1 .. n |-> AskedBy(S, i)])

\* The bytes of the buffer from P on are those of the stream from c to r.
Held(D, s, P, r, c) ==
  s.len = P + (r - c) /\ \A i \in 1 .. r - c : s.buf[P + i] = D[c + i].byte

\* c bytes have been used, r have been read, and n requests are behind them.
Frame(S, x, r, n, c) ==
  LET D == StreamOf(S)
  IN  /\ n \in 0 .. Len(S) /\ c \in StartOf(S, n) .. r /\ r \in 0 .. Len(D)
      /\ Ended(D, StartOf(S, n)) = n
      /\ \A i \in 1 .. r : D[i].ends # "raw"
      /\ \A i \in c + 1 .. r - 1 : D[i].ends # "inline"
      /\ c < r => D[r].cut
      /\ x = AsksFor(S, n) /\ \A i \in DOMAIN x : ~Final(x[i])

\* Between two requests.
AtStart(S, s, a, r, n, c) ==
  /\ c = StartOf(S, n) /\ a # "args" /\ (a = "idle" => c = r)
  /\ s.reqtype = "none" /\ s.multibulklen = 0 /\ s.bulklen = -1 /\ s.argv = <<>>

\* Within a multibulk request, j arguments of which have been taken.
Within(S, s, n, j) ==
  LET A == S[n + 1].args
  IN  /\ n < Len(S) /\ S[n + 1].kind = "multibulk" /\ j \in 0 .. Len(A)
      /\ s.reqtype = "multibulk" /\ s.multibulklen = Len(A) - j
      /\ s.argv = SubSeq(A, 1, j)

\* The length of the next argument comes next.
AtLength(S, s, a, r, n, c, j) ==
  /\ Within(S, s, n, j) /\ a = "args" /\ s.bulklen = -1
  /\ j < Len(S[n + 1].args) /\ c = StartOf(S, n) + BulkStart(S[n + 1].args, j) /\ c < r

\* The next argument itself.
AtText(S, s, a, r, n, c, j) ==
  LET A == S[n + 1].args
      text == A[j + 1]
  IN  /\ Within(S, s, n, j) /\ j < Len(A) /\ s.bulklen = Len(text)
      /\ c = StartOf(S, n) + BulkStart(A, j) + Len(Numeral(Len(text))) + 3
      /\ a = "idle" => r - c < s.bulklen + 2

\* No argument any more.
AtEnd(S, s, a, n, c, j) ==
  /\ Within(S, s, n, j) /\ a = "args" /\ s.bulklen = -1
  /\ j = Len(S[n + 1].args) /\ j > 0 /\ c = StartOf(S, n + 1)

Parsing(S, s, a, r, n, c) ==
  \/ AtStart(S, s, a, r, n, c)
  \/ n < Len(S) /\ \E j \in 0 .. Len(S[n + 1].args) :
       AtLength(S, s, a, r, n, c, j) \/ AtText(S, s, a, r, n, c, j) \/ AtEnd(S, s, a, n, c, j)

Flows(S, s, p, a, x, r, n, c) ==
  /\ Frame(S, x, r, n, c) /\ Held(StreamOf(S), s, IF a = "args" THEN p ELSE 0, r, c)
  /\ Parsing(S, s, a, r, n, c) /\ ~s.close /\ ~s.error

\* After a QUIT, whatever comes, or after a name that ended the process.
Gone(S, s, a, x, r, n) ==
  /\ s.close \/ a = "dead"
  /\ ~s.error /\ a # "args"
  /\ n \in 1 .. Len(S) /\ n <= Ended(StreamOf(S), r)
  /\ x = AsksFor(S, n) /\ x # <<>> /\ Final(x[Len(x)])
  /\ \A i \in 1 .. Len(x) - 1 : ~Final(x[i])

Taken == Len(StreamOf(sent)) - Len(socket)
QSocket ==
  LET D == StreamOf(sent)
  IN  /\ sent \in Streams /\ Taken \in 0 .. Len(D)
      /\ \A i \in 1 .. Len(socket) : socket[i] = D[Taken + i]
      /\ arrived = Ended(D, Taken)

Follows(S, s, p, a, x, r) ==
  \/ \E n, c \in Nat : Flows(S, s, p, a, x, r, n, c)
  \/ \E n \in Nat : Gone(S, s, a, x, r, n)

\* A request may end the process where its name is decoded.
Undecoded(x) == x # <<>> /\ Raises(x[Len(x)])

QFlow ==
  orderly => /\ Follows(sent, q, pos, at, executed, Taken)
             /\ at = "dead" => q.len > client_max_querybuf_len \/ Undecoded(executed)

-----------------------------------------------------------------------------
\* The code of the request after the first n is in its place in the stream.
Placed(S, n) ==
  LET e == CodesOf(S)[n + 1]
      o == StartOf(S, n)
  IN  /\ o \in Nat /\ StartOf(S, n + 1) = o + Len(e) /\ StartOf(S, n + 1) <= Len(StreamOf(S))
      /\ CodeOf(e, S[n + 1]) /\ \A k \in 1 .. Len(e) : StreamOf(S)[o + k] = e[k]
Streamed(S) ==
  /\ StreamOf(S) \in Seq(Marked) /\ Len(StreamOf(S)) \in Nat /\ Len(S) \in Nat
  /\ StartOf(S, 0) = 0 /\ StartOf(S, Len(S)) = Len(StreamOf(S))
  /\ \A n \in 0 .. Len(S) : StartOf(S, n) \in Nat /\ StartOf(S, n) <= Len(StreamOf(S))
  /\ \A n \in 0 .. Len(S) - 1 : Placed(S, n)
  /\ \A i \in 1 .. Len(StreamOf(S)) : StreamOf(S)[i].ends = "raw" => ~StreamOf(S)[i].cut

\* Every stream of requests is a sequence of their codes.
LEMMA StreamIs ==
  ASSUME NEW S \in Seq(Requests), \A i \in 1 .. Len(S) : WellFormed(S[i])
  PROVE  Streamed(S)
<1> DEFINE C == CodesOf(S)
           Harmless == {m \in Marked : m.ends = "raw" => ~m.cut}
<1>1. Len(S) \in Nat /\ DOMAIN S = 1 .. Len(S) /\ \A i \in 1 .. Len(S) : S[i] \in Requests
  OBVIOUS
<1>2. DOMAIN C = 1 .. Len(S) /\ \A i \in 1 .. Len(S) : C[i] = Encode(S[i])
  BY <1>1 DEF CodesOf
<1>3. ASSUME NEW i \in 1 .. Len(S) PROVE CodeOf(C[i], S[i]) /\ C[i] \in Seq(Harmless)
  <2> DEFINE r == S[i]
             e == C[i]
  <2>1. r \in Requests /\ WellFormed(r) /\ e = Encode(r)
    BY <1>1, <1>2
  <2> HIDE DEF r, e
  <2>2. CodeOf(e, r)
    BY <2>1, CodeIs
  <2>3. e \in Seq(Harmless)
    <3>1. e \in Seq(Marked) /\ Len(e) \in Nat
      BY <2>2 DEF CodeOf
    <3>2. ASSUME NEW k \in 1 .. Len(e) PROVE e[k] \in Harmless
      <4>1. e[k] \in Marked
        BY <3>1
      <4>2. CASE r.kind = "raw"
        BY <2>2, <4>1, <4>2 DEF CodeOf
      <4>3. CASE r.kind # "raw"
        <5>1. r.kind \in {"multibulk", "inline"}
          BY <2>1, <4>3 DEF Requests
        <5>2. e[k].ends # "raw"
          BY <2>2, <4>3, <5>1 DEF CodeOf
        <5> QED BY <4>1, <5>2
      <4> QED BY <4>2, <4>3
    <3> HIDE DEF Harmless
    <3> QED BY <3>1, <3>2
  <2> QED BY <2>2, <2>3 DEF r, e
<1> HIDE DEF Harmless
<1>4. C \in Seq(Seq(Harmless)) /\ Len(C) = Len(S)
  <2>1. \A i \in 1 .. Len(S) : C[i] \in Seq(Harmless)
    BY <1>3
  <2>2. C = [i \in 1 .. Len(S) |-> C[i]]
    BY <1>1 DEF CodesOf
  <2> HIDE DEF C
  <2> QED BY <1>1, <2>1, <2>2
<1>5. FlattenSeq(C) \in Seq(Harmless)
  <2> HIDE DEF C
  <2> QED BY <1>4, FlattenType
<1>6. Harmless \subseteq Marked /\ \A m \in Harmless : m.ends = "raw" => ~m.cut
  BY DEF Harmless
<1>7. /\ FlattenSeq(C) \in Seq(Marked) /\ Len(FlattenSeq(C)) \in Nat
      /\ \A i \in 1 .. Len(FlattenSeq(C)) : FlattenSeq(C)[i].ends = "raw" => ~FlattenSeq(C)[i].cut
  <2> HIDE DEF C
  <2>1. \A i \in 1 .. Len(FlattenSeq(C)) : FlattenSeq(C)[i] \in Harmless
    BY <1>5
  <2> QED BY <1>5, <1>6, <2>1
<1>8. ASSUME NEW n \in 0 .. Len(S) - 1 PROVE Placed(S, n)
  <2>1. n \in Nat /\ n < Len(C) /\ n + 1 \in 1 .. Len(S)
    BY <1>1, <1>4
  <2>2. CodeOf(C[n + 1], S[n + 1])
    BY <1>3, <2>1
  <2>3. /\ Offset(C, n) \in Nat /\ Offset(C, n + 1) = Offset(C, n) + Len(C[n + 1])
        /\ Offset(C, n + 1) <= Len(FlattenSeq(C))
        /\ \A k \in 1 .. Len(C[n + 1]) : FlattenSeq(C)[Offset(C, n) + k] = C[n + 1][k]
    <3> HIDE DEF C
    <3> QED BY <1>4, <2>1, FlattenPlace
  <2> QED BY <2>2, <2>3 DEF Placed, StartOf, StreamOf
<1>9. /\ Offset(C, 0) = 0 /\ Offset(C, Len(C)) = Len(FlattenSeq(C))
      /\ \A m \in 0 .. Len(C) : Offset(C, m) \in Nat /\ Offset(C, m) <= Len(FlattenSeq(C))
  <2> HIDE DEF C
  <2> QED BY <1>4, OffsetEnds
<1> HIDE DEF C
<1> QED BY <1>1, <1>4, <1>7, <1>8, <1>9 DEF Streamed, StartOf, StreamOf, C

\* How many requests end between two places of the stream.
LEMMA EndedMore ==
  ASSUME NEW D \in Seq(Marked), NEW m \in Nat, NEW k \in Nat, m + k <= Len(D)
  PROVE  /\ Ended(D, m) \in Nat /\ Ends(SubSeq(D, m + 1, m + k)) \in Nat
         /\ Ended(D, m + k) = Ended(D, m) + Ends(SubSeq(D, m + 1, m + k))
<1> DEFINE a == SubSeq(D, 1, m)
           b == SubSeq(D, m + 1, m + k)
           z == SubSeq(D, 1, m + k)
<1>1. Len(D) \in Nat /\ \A i \in 1 .. Len(D) : D[i] \in Marked
  OBVIOUS
<1>2. a \in Seq(Marked) /\ Len(a) = m /\ \A i \in 1 .. m : a[i] = D[i]
  <2>1. \A i \in 1 .. m : D[i] \in Marked
    BY <1>1
  <2>2. /\ a \in Seq(Marked) /\ Len(a) = IF 1 <= m THEN m - 1 + 1 ELSE 0
        /\ \A i \in 1 .. m - 1 + 1 : a[i] = D[1 + i - 1]
    BY <2>1, SubSeqProperties
  <2> HIDE DEF a
  <2> QED BY <2>2
<1>3. b \in Seq(Marked) /\ Len(b) = k /\ \A i \in 1 .. k : b[i] = D[m + i]
  <2>1. \A i \in m + 1 .. m + k : D[i] \in Marked
    BY <1>1
  <2>2. /\ b \in Seq(Marked) /\ Len(b) = IF m + 1 <= m + k THEN (m + k) - (m + 1) + 1 ELSE 0
        /\ \A i \in 1 .. (m + k) - (m + 1) + 1 : b[i] = D[(m + 1) + i - 1]
    BY <2>1, SubSeqProperties
  <2> HIDE DEF b
  <2>3. (m + k) - (m + 1) + 1 = k /\ \A i \in 1 .. k : (m + 1) + i - 1 = m + i
    OBVIOUS
  <2> QED BY <2>2, <2>3
<1>4. z \in Seq(Marked) /\ Len(z) = m + k /\ \A i \in 1 .. m + k : z[i] = D[i]
  <2>1. \A i \in 1 .. m + k : D[i] \in Marked
    BY <1>1
  <2>2. /\ z \in Seq(Marked) /\ Len(z) = IF 1 <= m + k THEN (m + k) - 1 + 1 ELSE 0
        /\ \A i \in 1 .. (m + k) - 1 + 1 : z[i] = D[1 + i - 1]
    BY <2>1, SubSeqProperties
  <2> HIDE DEF z
  <2> QED BY <2>2
<1> HIDE DEF a, b, z
<1>5. z = a \o b
  <2> DEFINE y == a \o b
  <2>1. /\ y \in Seq(Marked) /\ Len(y) = m + k
        /\ \A i \in 1 .. m + k : y[i] = IF i <= m THEN a[i] ELSE b[i - m]
    BY <1>2, <1>3, ConcatProperties
  <2> HIDE DEF y
  <2>2. \A i \in 1 .. m + k : y[i] = z[i]
    <3> SUFFICES ASSUME NEW i \in 1 .. m + k PROVE y[i] = z[i]
      OBVIOUS
    <3>1. CASE i <= m
      BY <1>2, <1>4, <2>1, <3>1
    <3>2. CASE ~(i <= m)
      <4>1. i - m \in 1 .. k /\ m + (i - m) = i
        BY <3>2
      <4> QED BY <1>3, <1>4, <2>1, <3>2, <4>1
    <3> QED BY <3>1, <3>2
  <2>3. y = z
    BY <1>4, <2>1, <2>2, SeqEqual
  <2> QED BY <2>3 DEF y
<1>6. Ends(z) = Ends(a) + Ends(b) /\ Ends(a) \in Nat /\ Ends(b) \in Nat
  BY <1>2, <1>3, <1>5, EndsConcat, EndsNat
<1> QED BY <1>6 DEF Ended, a, b, z

\* Nothing ends in front of the first byte, nor where no byte is marked.
LEMMA EndedSame ==
  ASSUME NEW D \in Seq(Marked), NEW m \in Nat, NEW k \in Nat, m + k <= Len(D),
         \A i \in m + 1 .. m + k : D[i].ends \notin {"multibulk", "inline"}
  PROVE  Ended(D, 0) = 0 /\ Ended(D, m + k) = Ended(D, m)
<1> DEFINE b == SubSeq(D, m + 1, m + k)
           a == SubSeq(D, 1, 0)
<1>1. Len(D) \in Nat /\ \A i \in 1 .. Len(D) : D[i] \in Marked
  OBVIOUS
<1>2. b \in Seq(Marked) /\ Len(b) = k /\ \A i \in 1 .. k : b[i] = D[m + i]
  <2>1. \A i \in m + 1 .. m + k : D[i] \in Marked
    BY <1>1
  <2>2. /\ b \in Seq(Marked) /\ Len(b) = IF m + 1 <= m + k THEN (m + k) - (m + 1) + 1 ELSE 0
        /\ \A i \in 1 .. (m + k) - (m + 1) + 1 : b[i] = D[(m + 1) + i - 1]
    BY <2>1, SubSeqProperties
  <2> HIDE DEF b
  <2>3. (m + k) - (m + 1) + 1 = k /\ \A i \in 1 .. k : (m + 1) + i - 1 = m + i
    OBVIOUS
  <2> QED BY <2>2, <2>3
<1>3. Ending(b) = {}
  <2>1. DOMAIN b = 1 .. k /\ \A i \in 1 .. k : m + i \in m + 1 .. m + k
    BY <1>2
  <2> HIDE DEF b
  <2> QED BY <1>2, <2>1 DEF Ending
<1>4. Ends(b) = 0
  BY <1>3, FS_EmptySet DEF Ends
<1>5. Ended(D, 0) = 0
  <2>1. a = <<>>
    BY SubSeqEmpty
  <2>2. Ending(a) = {}
    BY <2>1 DEF Ending
  <2> QED BY <2>2, FS_EmptySet DEF Ended, Ends
<1>6. Ended(D, m) \in Nat /\ Ended(D, m + k) = Ended(D, m) + Ends(b)
  BY EndedMore
<1> QED BY <1>4, <1>5, <1>6

\* A request ends with its last byte and not before.
LEMMA RequestEnds ==
  ASSUME NEW S, Streamed(S), NEW n \in 0 .. Len(S) - 1, S[n + 1].kind \in {"multibulk", "inline"},
         Ended(StreamOf(S), StartOf(S, n)) = n
  PROVE  /\ Ended(StreamOf(S), StartOf(S, n + 1)) = n + 1
         /\ \A r \in StartOf(S, n) .. StartOf(S, n + 1) - 1 : Ended(StreamOf(S), r) = n
<1> DEFINE D == StreamOf(S)
           e == CodesOf(S)[n + 1]
           o == StartOf(S, n)
           l == Len(e)
<1>1. /\ o \in Nat /\ StartOf(S, n + 1) = o + l /\ o + l <= Len(D) /\ D \in Seq(Marked) /\ Len(D) \in Nat
      /\ CodeOf(e, S[n + 1]) /\ \A k \in 1 .. l : D[o + k] = e[k]
  BY DEF Streamed, Placed
<1>2. /\ e \in Seq(Marked) /\ l \in Nat /\ l > 0 /\ \A i \in 1 .. l : i # l => e[i].ends = "no"
      /\ e[l].ends \in {"multibulk", "inline"}
  BY <1>1 DEF CodeOf
<1> HIDE DEF D, e, o, l
<1>3. ASSUME NEW r \in o .. o + l - 1 PROVE Ended(D, r) = n
  <2> DEFINE k == r - o
  <2>1. k \in Nat /\ k < l /\ o + k = r
    BY <1>1, <1>2
  <2> HIDE DEF k
  <2>2. o + k <= Len(D)
    BY <1>1, <1>2, <2>1
  <2>3. \A i \in o + 1 .. o + k : D[i].ends \notin {"multibulk", "inline"}
    <3> SUFFICES ASSUME NEW i \in o + 1 .. o + k PROVE D[i].ends = "no"
      OBVIOUS
    <3>1. i - o \in 1 .. l /\ i - o # l /\ o + (i - o) = i
      BY <1>1, <1>2, <2>1
    <3> QED BY <1>1, <1>2, <3>1
  <2>4. Ended(D, o + k) = Ended(D, o)
    BY <1>1, <2>1, <2>2, <2>3, EndedSame
  <2> QED BY <2>1, <2>4 DEF D, o
<1>4. Ended(D, o + l) = n + 1
  <2> DEFINE b == SubSeq(D, o + 1, o + l)
  <2>1. b = e
    <3>1. o + Len(e) <= Len(D) /\ \A i \in 1 .. Len(e) : D[o + i] = e[i]
      BY <1>1 DEF l
    <3>2. SubSeq(D, o + 1, o + Len(e)) = e
      BY <1>1, <1>2, <3>1, PartIs
    <3> QED BY <3>2 DEF l
  <2>2. Ending(e) = {l}
    <3>1. DOMAIN e = 1 .. l
      BY <1>2 DEF l
    <3> QED BY <1>2, <3>1 DEF Ending
  <2>3. Ends(e) = 1
    BY <2>2, FS_Singleton DEF Ends
  <2>4. Ended(D, o + l) = Ended(D, o) + Ends(b)
    BY <1>1, <1>2, EndedMore
  <2>5. Ended(D, o) = n
    BY DEF D, o
  <2> QED BY <2>1, <2>3, <2>4, <2>5
<1> DEFINE t == StartOf(S, n + 1)
<1>7. t = o + l /\ o \in Nat /\ l \in Nat
  BY <1>1, <1>2
<1> HIDE DEF t
<1>5. \A r \in o .. t - 1 : Ended(D, r) = n
  <2> SUFFICES ASSUME NEW r \in o .. t - 1 PROVE Ended(D, r) = n
    OBVIOUS
  <2>1. r \in o .. o + l - 1
    BY <1>7
  <2> QED BY <1>3, <2>1
<1>6. Ended(D, t) = n + 1
  BY <1>4, <1>7
<1> QED BY <1>5, <1>6 DEF D, o, t

-----------------------------------------------------------------------------
\* What the stream asks for, and what is at the place that the parser has reached.

\* What the first requests ask for comes first, and a request asks for one thing at most.
AsksMore(S, n) ==
  AsksFor(S, n + 1) = IF S[n + 1].args = <<>> THEN AsksFor(S, n)
                      ELSE Append(AsksFor(S, n), S[n + 1].args)
\* Nothing to begin with, then request after request.
LEMMA AsksIs ==
  ASSUME NEW S \in Seq(Requests)
  PROVE  /\ AsksFor(S, 0) = <<>> /\ \A n \in 0 .. Len(S) : AsksFor(S, n) \in Seq(Seq(Seq(Bytes)))
         /\ \A n \in 0 .. Len(S) - 1 : AsksMore(S, n)
<1> DEFINE T == Seq(Seq(Bytes))
<1>1. Len(S) \in Nat /\ \A i \in 1 .. Len(S) : S[i] \in Requests /\ S[i].args \in T
  <2>1. Len(S) \in Nat /\ \A i \in 1 .. Len(S) : S[i] \in Requests
    OBVIOUS
  <2>2. \A r \in Requests : r.args \in T
    <3>1. <<>> \in T
      OBVIOUS
    <3> HIDE DEF T
    <3> QED BY <3>1 DEF Requests, T
  <2> QED BY <2>1, <2>2
<1> HIDE DEF T
<1>2. \A i \in 1 .. Len(S) : AskedBy(S, i) \in Seq(T)
  <2> SUFFICES ASSUME NEW i \in 1 .. Len(S) PROVE AskedBy(S, i) \in Seq(T)
    OBVIOUS
  <2>1. S[i].args \in T
    BY <1>1
  <2> DEFINE a == S[i].args
  <2>2. a \in T
    BY <2>1
  <2> HIDE DEF a
  <2>3. <<>> \in Seq(T) /\ <<a>> \in Seq(T)
    BY <2>2
  <2> QED BY <2>3 DEF AskedBy, a
<1>3. ASSUME NEW n \in 0 .. Len(S)
      PROVE  [i \in 1 .. n |-> AskedBy(S, i)] \in Seq(Seq(T))
  <2>1. n \in Nat /\ \A i \in 1 .. n : AskedBy(S, i) \in Seq(T)
    BY <1>1, <1>2
  <2> QED BY <2>1
<1>4. \A n \in 0 .. Len(S) : AsksFor(S, n) \in Seq(T)
  <2> SUFFICES ASSUME NEW n \in 0 .. Len(S) PROVE AsksFor(S, n) \in Seq(T)
    OBVIOUS
  <2> DEFINE g == [i \in 1 .. n |-> AskedBy(S, i)]
  <2>1. g \in Seq(Seq(T))
    BY <1>3
  <2> HIDE DEF g
  <2>2. FlattenSeq(g) \in Seq(T)
    BY <2>1, FlattenType
  <2> QED BY <2>2 DEF AsksFor, g
<1>5. AsksFor(S, 0) = <<>>
  <2> DEFINE g == [i \in 1 .. 0 |-> AskedBy(S, i)]
  <2>1. g = <<>>
    OBVIOUS
  <2> QED BY <2>1 DEF AsksFor, FlattenSeq
<1>6. ASSUME NEW n \in 0 .. Len(S) - 1 PROVE AsksMore(S, n)
  <2> DEFINE g == [i \in 1 .. n |-> AskedBy(S, i)]
             h == [i \in 1 .. n + 1 |-> AskedBy(S, i)]
             y == AskedBy(S, n + 1)
             w == Append(g, y)
  <2>1. n \in Nat /\ n \in 0 .. Len(S) /\ n + 1 \in 0 .. Len(S) /\ n + 1 \in 1 .. Len(S)
    BY <1>1
  <2>2. /\ g \in Seq(Seq(T)) /\ Len(g) = n /\ \A i \in 1 .. n : g[i] = AskedBy(S, i)
        /\ h \in Seq(Seq(T)) /\ Len(h) = n + 1 /\ \A i \in 1 .. n + 1 : h[i] = AskedBy(S, i)
    BY <1>3, <2>1
  <2>3. y \in Seq(T)
    BY <1>2, <2>1
  <2>9. \A i \in 1 .. n + 1 : i \in 1 .. n \/ i = n + 1
    BY <2>1
  <2>10. h[n + 1] = y
    BY <2>1, <2>2
  <2>11. \A i \in 1 .. n : h[i] = g[i]
    BY <2>1, <2>2
  <2> HIDE DEF g, h, y
  <2>4. /\ w \in Seq(Seq(T)) /\ Len(w) = n + 1 /\ w[n + 1] = y
        /\ \A i \in 1 .. n : w[i] = g[i]
    BY <2>2, <2>3, AppendProperties
  <2>12. FlattenSeq(w) = FlattenSeq(g) \o y
    BY <2>2, <2>3, FlattenAppend
  <2> HIDE DEF w
  <2>5. h = w
    <3>1. \A i \in 1 .. n + 1 : h[i] = w[i]
      BY <2>4, <2>9, <2>10, <2>11
    <3> QED BY <2>2, <2>4, <3>1, SeqEqual
  <2>6. AsksFor(S, n + 1) = AsksFor(S, n) \o y
    BY <2>5, <2>12 DEF AsksFor, g, h
  <2>7. AsksFor(S, n) \in Seq(T)
    BY <1>4, <2>1
  <2>8. S[n + 1].args \in T
    BY <1>1, <2>1
  <2> DEFINE x == AsksFor(S, n)
             a == S[n + 1].args
  <2>13. CASE a = <<>>
    <3>1. y = <<>>
      BY <2>13 DEF y, AskedBy
    <3>2. x \o <<>> = x
      BY <2>7, ConcatEmptySeq
    <3> QED BY <2>6, <2>13, <3>1, <3>2 DEF AsksMore
  <2>14. CASE a # <<>>
    <3>1. y = <<a>>
      BY <2>14 DEF y, AskedBy
    <3>2. \A u \in Seq(T), v \in T : u \o <<v>> = Append(u, v)
      OBVIOUS
    <3>3. x \o <<a>> = Append(x, a)
      BY <2>7, <2>8, <3>2
    <3> QED BY <2>6, <2>14, <3>1, <3>3 DEF AsksMore
  <2> QED BY <2>13, <2>14
<1> QED BY <1>4, <1>5, <1>6 DEF T

\* One list of requests is the first part of another.
FirstOf(x, y) == Len(x) <= Len(y) /\ \A i \in 1 .. Len(x) : x[i] = y[i]

\* What has been asked for stays in front.
LEMMA AsksGrow ==
  ASSUME NEW S \in Seq(Requests), NEW n \in 0 .. Len(S), NEW m \in n .. Len(S)
  PROVE  FirstOf(AsksFor(S, n), AsksFor(S, m))
<1> DEFINE Bad == {k \in n .. Len(S) : ~FirstOf(AsksFor(S, n), AsksFor(S, k))}
<1>1. Len(S) \in Nat /\ n \in Nat /\ n <= Len(S)
  OBVIOUS
<1>2. SUFFICES ASSUME Bad # {} PROVE FALSE
  OBVIOUS
<1>3. PICK k \in Bad : \A i \in Bad : k <= i
  <2>1. Bad \in SUBSET Nat
    BY <1>1
  <2> HIDE DEF Bad
  <2> QED BY <1>2, <2>1, LeastNatural
<1>4. k \in n .. Len(S) /\ ~FirstOf(AsksFor(S, n), AsksFor(S, k))
  OBVIOUS
<1>5. \A i \in 0 .. Len(S) : AsksFor(S, i) \in Seq(Seq(Seq(Bytes))) /\ Len(AsksFor(S, i)) \in Nat
  BY AsksIs
<1>6. k # n
  <2>1. Len(AsksFor(S, n)) \in Nat
    BY <1>1, <1>5
  <2>2. FirstOf(AsksFor(S, n), AsksFor(S, n))
    BY <2>1 DEF FirstOf
  <2> QED BY <1>4, <2>2
<1> DEFINE b == k - 1
<1>7. b \in n .. Len(S) /\ b \in 0 .. Len(S) - 1 /\ b + 1 = k /\ ~(k <= b)
  BY <1>1, <1>4, <1>6
<1>8. FirstOf(AsksFor(S, n), AsksFor(S, b))
  <2>1. b \notin Bad
    <3> HIDE DEF Bad, b
    <3> QED BY <1>3, <1>7
  <2> QED BY <1>7, <2>1
<1> HIDE DEF Bad, b
<1>9. AsksFor(S, k) = IF S[k].args = <<>> THEN AsksFor(S, b) ELSE Append(AsksFor(S, b), S[k].args)
  <2>1. AsksMore(S, b)
    BY <1>7, AsksIs
  <2> QED BY <1>7, <2>1 DEF AsksMore
<1> DEFINE x == AsksFor(S, n)
           y == AsksFor(S, b)
<1>10. x \in Seq(Seq(Seq(Bytes))) /\ y \in Seq(Seq(Seq(Bytes))) /\ Len(x) \in Nat /\ Len(y) \in Nat
  BY <1>1, <1>5, <1>7
<1>11. CASE S[k].args = <<>>
  BY <1>4, <1>8, <1>9, <1>11
<1>12. CASE S[k].args # <<>>
  <2> DEFINE a == S[k].args
             z == Append(y, a)
  <2>1. Len(z) = Len(y) + 1 /\ \A i \in 1 .. Len(y) : z[i] = y[i]
    <3>1. \A u \in Seq(Seq(Seq(Bytes))) : \A v : Len(Append(u, v)) = Len(u) + 1 /\ \A i \in 1 .. Len(u) : Append(u, v)[i] = u[i]
      OBVIOUS
    <3> HIDE DEF y, a
    <3> QED BY <1>10, <3>1
  <2>2. FirstOf(x, y)
    BY <1>8
  <2> HIDE DEF x, y, z
  <2>3. FirstOf(x, z)
    BY <1>10, <2>1, <2>2 DEF FirstOf
  <2> QED BY <1>4, <1>9, <1>12, <2>3 DEF x, y, z
<1> QED BY <1>11, <1>12

\* A line end m bytes behind a position, and none between.
LineEndAt(s, from, m) ==
  /\ from + m + 2 <= Len(s.buf) /\ s.buf[from + m + 1] = "CR" /\ s.buf[from + m + 2] = "LF"
  /\ \A i \in 1 .. m : s.buf[from + i] # "CR"
\* It is the first line end of the buffer from the position on.
LEMMA FirstLineEnd ==
  ASSUME NEW s, Sds(s), NEW from \in Nat, NEW m \in Nat, LineEndAt(s, from, m)
  PROVE  LineEnds(s, from) # {} /\ Min(LineEnds(s, from)) = from + m
<1> DEFINE L == LineEnds(s, from)
           e == from + m
<1>1. Len(s.buf) \in Nat
  BY DEF Sds
<1>2. e \in L
  <2>1. e \in from .. Len(s.buf) - 2 /\ e + 1 = from + m + 1 /\ e + 2 = from + m + 2
    BY <1>1 DEF LineEndAt
  <2> HIDE DEF e
  <2> QED BY <2>1 DEF LineEnds, LineEndAt
<1>3. ASSUME NEW i \in L PROVE i \in Nat /\ e <= i
  <2>1. i \in from .. Len(s.buf) - 2 /\ s.buf[i + 1] = "CR"
    BY DEF LineEnds
  <2>2. i \in Nat /\ from <= i
    BY <1>1, <2>1
  <2>3. ASSUME ~(e <= i) PROVE FALSE
    <3> DEFINE j == (i - from) + 1
    <3>1. j \in 1 .. m /\ from + j = i + 1
      BY <2>2, <2>3
    <3> HIDE DEF j
    <3> QED BY <2>1, <3>1 DEF LineEndAt
  <2> QED BY <2>2, <2>3
<1>4. Min(L) \in L /\ \A i \in L : Min(L) <= i
  <2>1. L \in SUBSET Nat /\ L # {}
    BY <1>2, <1>3
  <2> HIDE DEF L
  <2> QED BY <2>1, MinOfSet
<1> HIDE DEF L, e
<1>5. Min(L) = e
  <2>1. Min(L) <= e /\ e <= Min(L) /\ Min(L) \in Nat /\ e \in Nat
    BY <1>2, <1>3, <1>4
  <2> QED BY <2>1
<1> QED BY <1>2, <1>5 DEF L, e

\* The first line feed.
LEMMA FirstLineFeed ==
  ASSUME NEW s, Sds(s), NEW m \in Nat, m + 1 <= Len(s.buf), s.buf[m + 1] = "LF",
         \A i \in 1 .. m : s.buf[i] # "LF"
  PROVE  LineFeeds(s) # {} /\ Min(LineFeeds(s)) = m
<1> DEFINE L == LineFeeds(s)
<1>1. Len(s.buf) \in Nat
  BY DEF Sds
<1>2. m \in L
  BY <1>1 DEF LineFeeds
<1>3. ASSUME NEW i \in L PROVE i \in Nat /\ m <= i
  <2>1. i \in Nat /\ s.buf[i + 1] = "LF"
    BY <1>1 DEF LineFeeds
  <2>2. i + 1 \notin 1 .. m
    BY <2>1
  <2> QED BY <2>1, <2>2
<1>4. Min(L) \in L /\ \A i \in L : Min(L) <= i
  <2>1. L \in SUBSET Nat /\ L # {}
    BY <1>2, <1>3
  <2> HIDE DEF L
  <2> QED BY <2>1, MinOfSet
<1> HIDE DEF L
<1>5. Min(L) = m
  <2>1. Min(L) <= m /\ m <= Min(L) /\ Min(L) \in Nat
    BY <1>2, <1>3, <1>4
  <2> QED BY <2>1
<1> QED BY <1>2, <1>5 DEF L

\* A text found in the buffer.
LEMMA SliceIs ==
  ASSUME NEW s, Sds(s), NEW a \in Nat, NEW b \in Nat, NEW text \in Seq(Bytes),
         b = a + Len(text), b <= Len(s.buf), \A i \in 1 .. Len(text) : s.buf[a + i] = text[i]
  PROVE  Slice(s, a, b) = text
<1>1. s.buf \in Seq(Bytes)
  BY DEF Sds
<1>2. SubSeq(s.buf, a + 1, a + Len(text)) = text
  BY <1>1, PartIs
<1> QED BY <1>2 DEF Slice

\* The request that the next byte belongs to.  It is not malformed, for what has
\* been read is not, and where the reads have stopped they may.
Reading(S, r, n, c) ==
  LET e == CodesOf(S)[n + 1]
      o == StartOf(S, n)
  IN  /\ n \in 0 .. Len(S) - 1 /\ CodeOf(e, S[n + 1]) /\ S[n + 1].kind \in {"multibulk", "inline"}
      /\ o \in Nat /\ c \in o .. r /\ r \in Nat /\ StartOf(S, n + 1) = o + Len(e)
      /\ StartOf(S, n + 1) \in Nat
      /\ StartOf(S, n + 1) <= Len(StreamOf(S)) /\ \A k \in 1 .. Len(e) : StreamOf(S)[o + k] = e[k]
      /\ r \in o + 1 .. o + Len(e) => e[r - o].cut
      /\ Ended(StreamOf(S), o) = n

\* There is one as long as bytes are left.
LEMMA ReadingIs ==
  ASSUME NEW S \in Seq(Requests), Streamed(S), NEW x, NEW r \in Nat, NEW n \in Nat, NEW c \in Nat,
         Frame(S, x, r, n, c), c < r
  PROVE  Reading(S, r, n, c)
<1> DEFINE D == StreamOf(S)
           e == CodesOf(S)[n + 1]
           o == StartOf(S, n)
<1>1. /\ n \in 0 .. Len(S) /\ c \in o .. r /\ r <= Len(D) /\ Ended(D, o) = n /\ D[r].cut
      /\ \A i \in 1 .. r : D[i].ends # "raw"
  BY DEF Frame
<1>2. o \in Nat /\ StartOf(S, Len(S)) = Len(D) /\ Len(D) \in Nat /\ Len(S) \in Nat
  BY <1>1 DEF Streamed
<1>3. n \in 0 .. Len(S) - 1
  <2> HIDE DEF D
  <2>1. n # Len(S)
    BY <1>1, <1>2
  <2> QED BY <1>1, <1>2, <2>1
<1>4. /\ StartOf(S, n + 1) = o + Len(e) /\ o + Len(e) <= Len(D) /\ CodeOf(e, S[n + 1])
      /\ \A k \in 1 .. Len(e) : D[o + k] = e[k]
  <2>1. Placed(S, n)
    BY <1>3 DEF Streamed
  <2> QED BY <2>1 DEF Placed
<1>5. Len(e) \in Nat /\ Len(e) > 0
  BY <1>4 DEF CodeOf
<1> HIDE DEF D, e, o
<1>6. o + 1 \in 1 .. r /\ 1 \in 1 .. Len(e)
  BY <1>1, <1>2, <1>5
<1>7. S[n + 1].kind \in {"multibulk", "inline"}
  <2>1. S[n + 1].kind \in {"multibulk", "inline", "raw"}
    <3>1. n + 1 \in 1 .. Len(S)
      BY <1>2, <1>3
    <3>2. S[n + 1] \in Requests
      BY <3>1
    <3> DEFINE q1 == S[n + 1]
    <3> HIDE DEF q1
    <3>3. q1 \in Requests => q1.kind \in {"multibulk", "inline", "raw"}
      BY DEF Requests
    <3> QED BY <3>2, <3>3 DEF q1
  <2>2. ASSUME S[n + 1].kind = "raw" PROVE FALSE
    <3>1. e[1].ends = "raw"
      BY <1>4, <1>6, <2>2 DEF CodeOf
    <3> QED BY <1>1, <1>4, <1>6, <3>1
  <2> QED BY <2>1, <2>2
<1>8. ASSUME r \in o + 1 .. o + Len(e) PROVE e[r - o].cut
  <2>1. r - o \in 1 .. Len(e) /\ o + (r - o) = r
    BY <1>2, <1>5, <1>8
  <2> QED BY <1>1, <1>4, <2>1
<1>9. StartOf(S, n + 1) \in Nat
  BY <1>2, <1>4, <1>5
<1>10. StartOf(S, n + 1) <= Len(D)
  BY <1>4
<1> QED BY <1>1, <1>2, <1>3, <1>4, <1>7, <1>8, <1>9, <1>10 DEF Reading, D, e, o

\* One more request is behind the bytes that have been used.
LEMMA NextFrame ==
  ASSUME NEW S \in Seq(Requests), Streamed(S), NEW x, NEW r \in Nat, NEW n \in Nat, NEW c \in Nat,
         Frame(S, x, r, n, c), Reading(S, r, n, c), c < r,
         c <= StartOf(S, n + 1), StartOf(S, n + 1) <= r,
         NEW y, y = AsksFor(S, n + 1), \A i \in DOMAIN y : ~Final(y[i])
  PROVE  Frame(S, y, r, n + 1, StartOf(S, n + 1))
<1> DEFINE D == StreamOf(S)
           t == StartOf(S, n + 1)
<1>1. /\ n \in 0 .. Len(S) - 1 /\ Ended(D, StartOf(S, n)) = n /\ t \in Nat
      /\ S[n + 1].kind \in {"multibulk", "inline"}
  BY DEF Reading
<1>2. /\ r \in 0 .. Len(D) /\ \A i \in 1 .. r : D[i].ends # "raw"
      /\ \A i \in c + 1 .. r - 1 : D[i].ends # "inline"
      /\ c < r => D[r].cut
  BY DEF Frame
<1>3. Ended(D, t) = n + 1
  BY <1>1, RequestEnds
<1>4. Len(S) \in Nat
  OBVIOUS
<1> HIDE DEF D, t
<1>5. n + 1 \in 0 .. Len(S) /\ t \in t .. r
  BY <1>1, <1>4 DEF t
<1>6. \A i \in t + 1 .. r - 1 : D[i].ends # "inline"
  <2> SUFFICES ASSUME NEW i \in t + 1 .. r - 1 PROVE D[i].ends # "inline"
    OBVIOUS
  <2>1. c <= t
    BY DEF t
  <2>2. i \in c + 1 .. r - 1
    BY <1>1, <2>1
  <2> QED BY <1>2, <2>2
<1> QED BY <1>2, <1>3, <1>5, <1>6 DEF Frame, D, t

\* The whole request has been taken out of the buffer, and runs.
LEMMA RequestRuns ==
  ASSUME NEW S \in Seq(Requests), Streamed(S), NEW x, NEW r \in Nat, NEW n \in Nat, NEW c \in Nat,
         Frame(S, x, r, n, c), Reading(S, r, n, c), c < r,
         c <= StartOf(S, n + 1), StartOf(S, n + 1) <= r,
         NEW t, DOMAIN t = Fields, Held(StreamOf(S), t, 0, r, StartOf(S, n + 1)),
         ~t.close, ~t.error, t.argv = S[n + 1].args, S[n + 1].args # <<>>
  PROVE  /\ Follows(S, Run(t), 0, AfterRun(t.argv), Append(x, t.argv), r)
         /\ AfterRun(t.argv) = "dead" => Undecoded(Append(x, t.argv))
<1> DEFINE D == StreamOf(S)
           b == StartOf(S, n + 1)
           A == S[n + 1].args
           y == Append(x, A)
<1>1. /\ n \in 0 .. Len(S) - 1 /\ Ended(D, StartOf(S, n)) = n /\ b \in Nat
      /\ S[n + 1].kind \in {"multibulk", "inline"} /\ n + 1 \in 1 .. Len(S)
  <2>1. /\ n \in 0 .. Len(S) - 1 /\ Ended(D, StartOf(S, n)) = n /\ b \in Nat
        /\ S[n + 1].kind \in {"multibulk", "inline"}
    BY DEF Reading
  <2>2. Len(S) \in Nat
    OBVIOUS
  <2>3. n + 1 \in 1 .. Len(S)
    BY <2>1, <2>2
  <2> QED BY <2>1, <2>3
<1>2. x = AsksFor(S, n) /\ \A i \in DOMAIN x : ~Final(x[i])
  BY DEF Frame
<1>3. y = AsksFor(S, n + 1) /\ x \in Seq(Seq(Seq(Bytes)))
  <2>1. AsksMore(S, n) /\ AsksFor(S, n) \in Seq(Seq(Seq(Bytes)))
    BY <1>1, AsksIs
  <2> QED BY <1>2, <2>1 DEF AsksMore
<1>4. /\ Len(x) \in Nat /\ DOMAIN x = 1 .. Len(x) /\ DOMAIN y = 1 .. Len(x) + 1 /\ Len(y) = Len(x) + 1
      /\ \A i \in 1 .. Len(x) : y[i] = x[i]
      /\ y[Len(x) + 1] = A
  <2>1. \A u \in Seq(Seq(Seq(Bytes))) : \A v :
          /\ Len(u) \in Nat /\ DOMAIN u = 1 .. Len(u) /\ DOMAIN Append(u, v) = 1 .. Len(u) + 1
          /\ Len(Append(u, v)) = Len(u) + 1
          /\ \A i \in 1 .. Len(u) : Append(u, v)[i] = u[i]
          /\ Append(u, v)[Len(u) + 1] = v
    OBVIOUS
  <2>2. x \in Seq(Seq(Seq(Bytes)))
    BY <1>3
  <2> HIDE DEF A
  <2> QED BY ONLY <2>1, <2>2
<1>5. r \in 0 .. Len(D)
  BY DEF Frame
<1> HIDE DEF y, A, D, b
<1>6. CASE Final(A)
  <2> DEFINE u == Run(t)
             a == AfterRun(A)
  <2>2. (u.close \/ a = "dead") /\ ~u.error /\ a # "args" /\ (a = "dead" => Raises(A))
    <3>1. t.argv = A
      BY DEF A
    <3>2. CASE A[1] = Quit
      <4>1. u = [t EXCEPT !.close = TRUE] /\ a = "turn"
        BY <3>1, <3>2 DEF Run, AfterRun, Raises
      <4> HIDE DEF u, a
      <4> QED BY <4>1 DEF Fields
    <3>3. CASE A[1] # Quit
      <4>1. Raises(A)
        BY <1>6, <3>3 DEF Final
      <4>2. u = t /\ a = "dead"
        BY <3>1, <3>3, <4>1 DEF Run, AfterRun
      <4> HIDE DEF u, a
      <4> QED BY <4>1, <4>2
    <3> QED BY <3>2, <3>3
  <2> HIDE DEF u, a
  <2>3. Ended(D, b) = n + 1
    BY <1>1, RequestEnds DEF D, b
  <2>4. n + 1 <= Ended(D, r)
    <3> DEFINE k == r - b
    <3>1. k \in Nat /\ b + k = r /\ b + k <= Len(D) /\ D \in Seq(Marked)
      <4>1. b <= r
        BY DEF b
      <4>2. D \in Seq(Marked) /\ Len(D) \in Nat
        BY DEF Streamed, D
      <4> QED BY <1>1, <1>5, <4>1, <4>2
    <3> HIDE DEF k
    <3>2. /\ Ends(SubSeq(D, b + 1, b + k)) \in Nat
          /\ Ended(D, b + k) = Ended(D, b) + Ends(SubSeq(D, b + 1, b + k))
      BY <1>1, <3>1, EndedMore
    <3> DEFINE z == Ends(SubSeq(D, b + 1, b + k))
    <3>3. z \in Nat /\ Ended(D, r) = (n + 1) + z
      BY <2>3, <3>1, <3>2
    <3> HIDE DEF z
    <3> QED BY <3>3
  <2>5. y # <<>> /\ Final(y[Len(y)]) /\ (Raises(A) => Undecoded(y))
    <3>1. Len(<<>>) = 0 /\ Len(y) # 0
      BY <1>4
    <3> QED BY <1>4, <1>6, <3>1 DEF Undecoded
  <2>6. \A i \in 1 .. Len(y) - 1 : ~Final(y[i])
    <3>1. Len(y) - 1 = Len(x)
      BY <1>4
    <3> QED BY <1>2, <1>4, <3>1
  <2>7. Gone(S, u, a, y, r, n + 1)
    BY <1>1, <1>3, <2>2, <2>4, <2>5, <2>6 DEF Gone, D
  <2>8. n + 1 \in Nat
    OBVIOUS
  <2>9. Follows(S, u, 0, a, y, r) /\ (a = "dead" => Undecoded(y))
    BY <2>2, <2>5, <2>7, <2>8 DEF Follows
  <2> QED BY <2>9 DEF u, a, y, A
<1>7. CASE ~Final(A)
  <2> DEFINE u == resetClient(t)
  <2>1. Run(t) = u /\ AfterRun(A) = "turn"
    BY <1>7 DEF Run, AfterRun, Final, A
  <2>2. /\ u.close = t.close /\ u.error = t.error /\ u.len = t.len /\ u.buf = t.buf
        /\ u.reqtype = "none" /\ u.multibulklen = 0 /\ u.bulklen = -1 /\ u.argv = <<>>
    BY DEF Fields, resetClient
  <2> HIDE DEF u
  <2>3. \A i \in DOMAIN y : ~Final(y[i])
    <3> SUFFICES ASSUME NEW i \in 1 .. Len(x) + 1 PROVE ~Final(y[i])
      BY <1>4
    <3>1. CASE i = Len(x) + 1
      BY <1>4, <1>7, <3>1
    <3>2. CASE i # Len(x) + 1
      <4>1. i \in 1 .. Len(x)
        BY <1>4, <3>2
      <4> QED BY <1>2, <1>4, <4>1
    <3> QED BY <3>1, <3>2
  <2>4. Frame(S, y, r, n + 1, b)
    <3>1. y = AsksFor(S, n + 1) /\ \A i \in DOMAIN y : ~Final(y[i])
      BY <1>3, <2>3
    <3> QED BY <3>1, NextFrame DEF b
  <2>5. Held(D, u, 0, r, b)
    BY <2>2 DEF Held, D, b
  <2>6. AtStart(S, u, "turn", r, n + 1, b)
    BY <2>2 DEF AtStart, b
  <2>7. Flows(S, u, 0, "turn", y, r, n + 1, b)
    BY <2>2, <2>4, <2>5, <2>6 DEF Flows, Parsing, D
  <2>8. n + 1 \in Nat
    OBVIOUS
  <2> QED BY <1>1, <2>1, <2>7, <2>8 DEF Follows, y, A
<1> QED BY <1>6, <1>7

-----------------------------------------------------------------------------
\* The actions of the handler, one by one: the parser keeps its place.

\* In an inline request the line feed comes last.
LEMMA LastFeed ==
  ASSUME NEW args \in Seq(Seq(Bytes)), args # <<>>,
         \A w \in 1 .. Len(args) : args[w] # <<>> /\ ToSet(args[w]) \cap White = {},
         NEW text, HasWords(text, args)
  PROVE  \A i \in 1 .. Len(text) - 1 : text[i] # "LF"
<1> DEFINE l == Len(text)
           line == [i \in 1 .. l |-> IF i = l THEN "NUL" ELSE text[i]]
           k == Len(args)
           o(w) == Offset(Separated(args), w)
<1>1. l \in Nat /\ l >= 2 /\ text \in Seq(Bytes)
  BY DEF HasWords
<1>2. /\ Len(line) = l /\ DOMAIN line = 1 .. l /\ line[l] = "NUL"
      /\ \A i \in 1 .. l - 1 : line[i] = text[i]
  BY <1>1
<1> HIDE DEF line
<1>3. LineOf(line, text)
  BY <1>2 DEF LineOf
<1> HIDE DEF l
<1>4. InPlaces(line, args, l)
  BY <1>3, WordPlaces DEF l
<1>5. \A w \in 0 .. k - 1 : text[o(w) + Len(args[w + 1]) + 1] \in {"SP", "CR"}
  <2>1. \A w \in 0 .. k - 1 : text[o(w) + Len(args[w + 1]) + 1] = IF w + 1 < k THEN "SP" ELSE "CR"
    BY DEF HasWords
  <2> HIDE DEF k, o
  <2> QED BY <2>1
<1>6. /\ \A w \in 0 .. k - 1 : /\ o(w) \in Nat /\ Len(args[w + 1]) \in Nat
                               /\ \A i \in 1 .. Len(args[w + 1]) : line[o(w) + i] \notin White
      /\ \A i \in 1 .. l - 1 : \E w \in 0 .. k - 1 : o(w) < i /\ i <= o(w) + Len(args[w + 1]) + 1
  BY <1>4 DEF InPlaces
<1> HIDE DEF k, o
<1>7. ASSUME NEW i \in 1 .. l - 1 PROVE text[i] # "LF"
  <2>1. PICK w \in 0 .. k - 1 : o(w) < i /\ i <= o(w) + Len(args[w + 1]) + 1
    BY <1>6
  <2> DEFINE f == o(w)
             m == Len(args[w + 1])
  <2>2. /\ f \in Nat /\ m \in Nat /\ f < i /\ i <= f + m + 1
        /\ \A j \in 1 .. m : line[f + j] \notin White
        /\ text[f + m + 1] \in {"SP", "CR"}
    BY <1>5, <1>6, <2>1
  <2> HIDE DEF f, m
  <2>3. CASE i = f + m + 1
    BY <2>2, <2>3
  <2>4. CASE i # f + m + 1
    <3>1. i - f \in 1 .. m /\ f + (i - f) = i
      BY <1>1, <2>2, <2>4
    <3>2. line[i] \notin White
      BY <2>2, <3>1
    <3> QED BY <1>2, <3>2 DEF White
  <2> QED BY <2>3, <2>4
<1> QED BY <1>7 DEF l

\* What a client means for an inline request is one to processInlineBuffer: the
\* buffer holds it and nothing else, and its words are found.
InlineFound(S, s, r, n) ==
  LET args == S[n + 1].args
  IN  /\ args \in Seq(Seq(Bytes)) /\ args # <<>> /\ StartOf(S, n + 1) = r
      /\ S[n + 1].kind = "inline" /\ s.len < Min(LineFeeds(s)) + 2 /\ Min(LineFeeds(s)) \in Nat
\* An inline turn of a stream that is not malformed finds its line and its words.
LEMMA InlineFlows ==
  ASSUME Valid(q), NEW S \in Seq(Requests), Streamed(S), \A i \in 1 .. Len(S) : WellFormed(S[i]),
         NEW r \in Nat, NEW n \in Nat, NEW c \in Nat,
         Flows(S, q, pos, at, executed, r, n, c), InlineTurn
  PROVE  /\ ~NoLine /\ Words = Append(S[n + 1].args, <<"NUL">>)
         /\ InlineFound(S, q, r, n) /\ Reading(S, r, n, c) /\ c < r
<1> DEFINE D == StreamOf(S)
           e == CodesOf(S)[n + 1]
           o == StartOf(S, n)
           args == S[n + 1].args
           text == InlineText(args)
           l == Len(text)
<1>1. at = "turn" /\ q.len > 0 /\ ~q.close /\ q.reqtype # "multibulk" /\ (q.reqtype = "none" => q.buf[1] # "*")
  BY DEF InlineTurn, Turn, IsMultibulk
<1>2. Frame(S, executed, r, n, c) /\ Held(D, q, 0, r, c) /\ Parsing(S, q, at, r, n, c)
  BY <1>1 DEF Flows
<1>3. AtStart(S, q, at, r, n, c)
  BY <1>1, <1>2 DEF Parsing, AtLength, AtText, AtEnd, Within
<1>4. c = o /\ q.reqtype = "none"
  BY <1>3 DEF AtStart
<1>5. q.len = r - c /\ c < r /\ \A i \in 1 .. r - c : q.buf[i] = D[c + i].byte
  <2>1. q.len = 0 + (r - c) /\ \A i \in 1 .. r - c : q.buf[0 + i] = D[c + i].byte
    BY <1>2 DEF Held
  <2> HIDE DEF D
  <2> QED BY <1>1, <2>1
<1>6. Reading(S, r, n, c)
  BY <1>2, <1>5, ReadingIs
<1>7. /\ n \in 0 .. Len(S) - 1 /\ CodeOf(e, S[n + 1]) /\ S[n + 1].kind \in {"multibulk", "inline"}
      /\ o \in Nat /\ StartOf(S, n + 1) = o + Len(e)
      /\ \A i \in 1 .. Len(e) : D[o + i] = e[i]
      /\ r \in o + 1 .. o + Len(e) => e[r - o].cut
  BY <1>6 DEF Reading
<1>8. Sds(q) /\ q.buf \in Seq(Bytes) /\ Len(q.buf) \in Nat /\ q.len < Len(q.buf) /\ q.len \in Nat
  BY DEF Valid, Sds
<1>9. n + 1 \in 1 .. Len(S)
  <2>1. Len(S) \in Nat
    OBVIOUS
  <2> QED BY <1>7, <2>1
<1>10. S[n + 1].kind = "inline"
  <2> SUFFICES ASSUME S[n + 1].kind = "multibulk" PROVE FALSE
    BY <1>7
  <2>1. HasHeader(e, args) /\ Len(e) \in Nat /\ Len(e) > 0
    BY <1>7 DEF CodeOf
  <2>2. e[1].byte = "*"
    BY <2>1 DEF HasHeader
  <2> HIDE DEF e, D, o
  <2>3. 1 \in 1 .. Len(e) /\ 1 \in 1 .. r - c
    BY <1>5, <2>1
  <2>4. q.buf[1] = "*"
    BY <1>4, <1>5, <1>7, <2>2, <2>3
  <2> QED BY <1>1, <1>4, <2>4
<1>11. /\ args \in Seq(Seq(Bytes)) /\ args # <<>>
       /\ \A w \in 1 .. Len(args) : args[w] # <<>> /\ ToSet(args[w]) \cap White = {}
  <2>1. S[n + 1] \in Requests /\ WellFormed(S[n + 1])
    BY <1>9
  <2> DEFINE m == S[n + 1]
  <2> HIDE DEF m
  <2>2. ASSUME m \in Requests, WellFormed(m), m.kind = "inline"
        PROVE  /\ m.args \in Seq(Seq(Bytes)) /\ m.args # <<>>
               /\ \A w \in DOMAIN m.args : m.args[w] # <<>> /\ ToSet(m.args[w]) \cap White = {}
    <3>1. m.args \in Seq(Seq(Bytes))
      BY <2>2 DEF Requests
    <3> QED BY <2>2, <3>1 DEF WellFormed
  <2>3. \A z \in Seq(Seq(Bytes)) : DOMAIN z = 1 .. Len(z)
    OBVIOUS
  <2> QED BY <1>10, <2>1, <2>2, <2>3 DEF m
<1>12. /\ HasWords(text, args) /\ Len(e) = l
       /\ \A i \in 1 .. Len(e) : e[i].byte = text[i] /\ (i # Len(e) => ~e[i].cut)
       /\ e[Len(e)].ends = "inline"
  BY <1>7, <1>10 DEF CodeOf
<1>13. l \in Nat /\ l >= 2 /\ text \in Seq(Bytes) /\ text[l] = "LF"
  BY <1>12 DEF HasWords
<1>14. \A i \in 1 .. l - 1 : text[i] # "LF"
  BY <1>11, <1>12, LastFeed
<1> HIDE DEF D, e, o, args, text, l
<1>15. r = o + l
  <2>1. CASE r < o + l
    <3>1. r \in o + 1 .. o + Len(e) /\ r - o \in 1 .. Len(e) /\ r - o # Len(e)
      BY <1>4, <1>5, <1>7, <1>12, <1>13, <2>1
    <3> QED BY <1>7, <1>12, <3>1
  <2>2. CASE o + l < r
    <3>1. o + l \in c + 1 .. r - 1 /\ l \in 1 .. Len(e)
      BY <1>4, <1>5, <1>7, <1>12, <1>13, <2>2
    <3>2. D[o + l].ends = "inline"
      BY <1>7, <1>12, <3>1
    <3>3. \A i \in c + 1 .. r - 1 : D[i].ends # "inline"
      BY <1>2 DEF Frame, D
    <3> QED BY <3>1, <3>2, <3>3
  <2>3. o + l \in Nat
    BY <1>7, <1>13
  <2>4. r = o + l \/ r < o + l \/ o + l < r
    BY <2>3
  <2> QED BY <2>1, <2>2, <2>4
<1>16. q.len = l /\ \A i \in 1 .. l : q.buf[i] = text[i]
  <2>1. q.len = l
    BY <1>4, <1>5, <1>7, <1>13, <1>15
  <2>2. ASSUME NEW i \in 1 .. l PROVE q.buf[i] = text[i]
    <3>1. i \in 1 .. r - c /\ i \in 1 .. Len(e)
      BY <1>4, <1>7, <1>12, <1>13, <1>15
    <3>2. q.buf[i] = D[o + i].byte
      BY <1>4, <1>5, <3>1
    <3>3. D[o + i] = e[i] /\ e[i].byte = text[i]
      BY <1>7, <1>12, <3>1
    <3> QED BY <3>2, <3>3
  <2> QED BY <2>1, <2>2
<1> DEFINE m == l - 1
<1>17. m \in Nat /\ m > 0 /\ m + 1 = l /\ m + 1 <= Len(q.buf) /\ l \in 1 .. l /\ \A i \in 1 .. m : i \in 1 .. l - 1 /\ i \in 1 .. l
  BY <1>8, <1>13, <1>16
<1> HIDE DEF m
<1>18. LineFeeds(q) # {} /\ Min(LineFeeds(q)) = m
  <2>1. q.buf[m + 1] = "LF"
    BY <1>13, <1>16, <1>17
  <2>2. \A i \in 1 .. m : q.buf[i] # "LF"
    BY <1>14, <1>16, <1>17
  <2> QED BY <1>8, <1>17, <2>1, <2>2, FirstLineFeed
<1>19. ~NoLine
  <2>1. 0 \notin LineFeeds(q)
    <3>1. 1 \in 1 .. m
      BY <1>17
    <3>2. q.buf[1] # "LF"
      BY <1>14, <1>16, <1>17, <3>1
    <3>3. q.buf[0 + 1] # "LF"
      BY <3>2
    <3> QED BY <3>3 DEF LineFeeds
  <2> QED BY <1>18, <2>1 DEF NoLine
<1> DEFINE front == Slice(q, 0, m)
<1>20. front \in Seq(Bytes) /\ Len(front) = m /\ \A i \in 1 .. m : front[i] = text[i]
  <2>1. \A i \in 1 .. m : q.buf[i] \in Bytes
    <3>1. \A i \in 1 .. Len(q.buf) : q.buf[i] \in Bytes
      BY <1>8
    <3> QED BY <1>8, <1>17, <3>1
  <2>2. /\ SubSeq(q.buf, 1, m) \in Seq(Bytes) /\ Len(SubSeq(q.buf, 1, m)) = IF 1 <= m THEN m - 1 + 1 ELSE 0
        /\ \A i \in 1 .. m - 1 + 1 : SubSeq(q.buf, 1, m)[i] = q.buf[1 + i - 1]
    BY <1>17, <2>1, SubSeqProperties
  <2>3. front = SubSeq(q.buf, 1, m)
    BY DEF Slice
  <2> HIDE DEF front
  <2>4. m - 1 + 1 = m /\ \A i \in 1 .. m : 1 + i - 1 = i
    BY <1>17
  <2> QED BY <1>16, <1>17, <2>2, <2>3, <2>4
<1>21. Line = Append(front, "NUL")
  BY <1>18 DEF Line
<1> HIDE DEF front
<1>22. /\ Line \in Seq(Bytes) /\ Len(Line) = l /\ Line[l] = "NUL" /\ DOMAIN Line = 1 .. l
       /\ \A i \in 1 .. l - 1 : Line[i] = text[i]
  <2>1. "NUL" \in Bytes
    BY QueryAssumption
  <2>2. /\ Line \in Seq(Bytes) /\ Len(Line) = m + 1 /\ Line[m + 1] = "NUL"
        /\ \A i \in 1 .. m : Line[i] = front[i]
    BY <1>20, <1>21, <2>1, AppendProperties
  <2>3. DOMAIN Line = 1 .. Len(Line)
    BY <2>2
  <2>4. \A i \in 1 .. l - 1 : i \in 1 .. m
    BY <1>17
  <2> QED BY <1>17, <1>20, <2>2, <2>3, <2>4
<1>23. InPlaces(Line, args, l)
  <2>1. LineOf(Line, text)
    BY <1>22 DEF LineOf, l
  <2> QED BY <1>11, <1>12, <2>1, WordPlaces DEF l
<1>24. Words = Append(args, <<"NUL">>)
  BY <1>11, <1>22, <1>23, WordsAre
<1>25. InlineFound(S, q, r, n)
  <2>1. StartOf(S, n + 1) = r
    BY <1>7, <1>12, <1>15
  <2>2. q.len < Min(LineFeeds(q)) + 2 /\ Min(LineFeeds(q)) \in Nat
    BY <1>16, <1>17, <1>18
  <2> QED BY <1>10, <1>11, <2>1, <2>2 DEF InlineFound, args
<1> QED BY <1>5, <1>6, <1>19, <1>24, <1>25 DEF args

\* The last word is the NUL, the others are what the client has written.
LEMMA LastWord ==
  ASSUME NEW args \in Seq(Seq(Bytes)), args # <<>>, NEW z, z = Append(args, <<"NUL">>)
  PROVE  Last(z)[1] = "NUL" /\ Len(z) > 1 /\ Len(z) # 1 /\ Front(z) = args
<1> DEFINE t == <<"NUL">>
           T == Seq(Bytes)
<1>1. t \in T /\ t[1] = "NUL"
  BY QueryAssumption
<1>2. args \in Seq(T) /\ Len(args) \in Nat /\ Len(args) > 0
  OBVIOUS
<1>3. z = Append(args, t)
  OBVIOUS
<1> HIDE DEF t, T
<1>4. z \in Seq(T) /\ Len(z) = Len(args) + 1 /\ z[Len(args) + 1] = t /\ \A i \in 1 .. Len(args) : z[i] = args[i]
  <2>1. /\ Append(args, t) \in Seq(T) /\ Len(Append(args, t)) = Len(args) + 1
        /\ Append(args, t)[Len(args) + 1] = t
        /\ \A i \in 1 .. Len(args) : Append(args, t)[i] = args[i]
    BY <1>1, <1>2, AppendProperties
  <2> QED BY <1>3, <2>1
<1>5. z # <<>>
  <2>1. Len(<<>>) = 0 /\ Len(z) # 0
    BY <1>2, <1>4
  <2> QED BY <2>1
<1>6. /\ Front(z) \in Seq(T) /\ Last(z) = z[Len(z)] /\ Len(Front(z)) = Len(z) - 1
      /\ \A i \in 1 .. Len(z) - 1 : Front(z)[i] = z[i]
  BY <1>4, <1>5, LastOfList
<1>7. Len(z) - 1 = Len(args)
  BY <1>2, <1>4
<1> DEFINE y == Front(z)
<1>8. y \in Seq(T) /\ Len(y) = Len(args) /\ \A i \in 1 .. Len(args) : y[i] = args[i]
  BY <1>4, <1>6, <1>7
<1> HIDE DEF y
<1>9. y = args
  BY <1>2, <1>8, SeqEqual
<1>10. Last(z)[1] = "NUL"
  BY <1>1, <1>4, <1>6
<1> QED BY <1>2, <1>4, <1>9, <1>10 DEF y

\* The actions on an inline request: it is executed, and none of the others comes about.
LEMMA InlineSteps ==
  ASSUME QState, NEW S \in Seq(Requests), Streamed(S), \A i \in 1 .. Len(S) : WellFormed(S[i]),
         NEW r \in Nat, NEW n \in Nat, NEW c \in Nat,
         Flows(S, q, pos, at, executed, r, n, c),
         InlineWaits \/ InlineAsserts \/ InlineEmpty \/ InlineRequest
  PROVE  Follows(S, q', pos', at', executed', r) /\ (at' = "dead" => Undecoded(executed'))
<1> DEFINE args == S[n + 1].args
           f == Min(LineFeeds(q))
           b == StartOf(S, n + 1)
<1>1. InlineTurn
  BY DEF InlineWaits, InlineAsserts, InlineEmpty, InlineRequest
<1>2. Turn /\ ~IsMultibulk /\ Valid(q) /\ Between(q) /\ ~q.close /\ q.len > 0 /\ at = "turn"
  BY <1>1, TurnIs DEF InlineTurn
<1>3. /\ ~NoLine /\ Words = Append(args, <<"NUL">>) /\ Reading(S, r, n, c) /\ c < r
      /\ InlineFound(S, q, r, n)
  BY <1>1, <1>2, InlineFlows
<1>4. args \in Seq(Seq(Bytes)) /\ args # <<>> /\ b = r /\ q.len < f + 2 /\ f \in Nat
  BY <1>3 DEF InlineFound
<1> HIDE DEF args, f
<1>5. Last(Words)[1] = "NUL" /\ Len(Words) > 1 /\ Len(Words) # 1 /\ Front(Words) = args
  <2> DEFINE z == Words
  <2>1. z = Append(args, <<"NUL">>)
    BY <1>3
  <2> HIDE DEF z
  <2>2. Last(z)[1] = "NUL" /\ Len(z) > 1 /\ Len(z) # 1 /\ Front(z) = args
    BY <1>4, <2>1, LastWord
  <2> QED BY <2>2 DEF z
<1>6. InlineRequest
  <2>1. ~InlineWaits
    BY <1>3 DEF InlineWaits
  <2>2. ~InlineAsserts
    BY <1>5 DEF InlineAsserts
  <2>3. ~InlineEmpty
    <3>1. Len(Words) # 1
      BY <1>5
    <3> QED BY <3>1 DEF InlineEmpty
  <2> QED BY <2>1, <2>2, <2>3
<1> DEFINE s == Typed(q)
           m == f + 2
           t == [sdsrange(s, m) EXCEPT !.argv = args]
<1>7. q' = Run(t) /\ executed' = Append(executed, args) /\ pos' = pos /\ at' = AfterRun(args)
  BY <1>5, <1>6 DEF InlineRequest, f
<1>8. Valid(s) /\ s.len = q.len /\ s.close = q.close /\ s.error = q.error
  BY <1>2, TypedIs
<1>9. Frame(S, executed, r, n, c) /\ ~q.error
  BY DEF Flows
<1> HIDE DEF s
<1>10. SameParser(sdsrange(s, m), s) /\ sdsrange(s, m).len = 0
  <2>1. m \in Nat /\ DOMAIN s = Fields /\ Sds(s) /\ s.len \in Nat /\ 0 >= s.len - m
    BY <1>4, <1>8 DEF Valid, Sds
  <2> HIDE DEF m
  <2>2. /\ SameParser(sdsrange(s, m), s)
        /\ sdsrange(s, m).len = IF 0 >= s.len - m THEN 0 ELSE s.len - m
    BY <2>1, RangeMoved
  <2> QED BY <2>1, <2>2
<1>11. /\ DOMAIN t = Fields /\ t.argv = args /\ t.len = 0 /\ ~t.close /\ ~t.error
  <2> DEFINE w == sdsrange(s, m)
  <2>1. DOMAIN w = Fields /\ w.len = 0 /\ ~w.close /\ ~w.error
    BY <1>2, <1>8, <1>9, <1>10 DEF SameParser
  <2> HIDE DEF w
  <2>2. t = [w EXCEPT !.argv = args]
    BY DEF w
  <2> QED BY <2>1, <2>2 DEF Fields
<1> HIDE DEF t
<1>12. Held(StreamOf(S), t, 0, r, b)
  BY <1>4, <1>11 DEF Held
<1>13. /\ Follows(S, Run(t), 0, AfterRun(t.argv), Append(executed, t.argv), r)
       /\ AfterRun(t.argv) = "dead" => Undecoded(Append(executed, t.argv))
  <2>1. c <= StartOf(S, n + 1) /\ StartOf(S, n + 1) <= r
    BY <1>3, <1>4
  <2>2. t.argv = S[n + 1].args /\ S[n + 1].args # <<>>
    BY <1>4, <1>11 DEF args
  <2>3. Held(StreamOf(S), t, 0, r, StartOf(S, n + 1))
    BY <1>12
  <2> QED BY <1>3, <1>9, <1>11, <2>1, <2>2, <2>3, RequestRuns
<1>14. ASSUME NEW w, NEW y, NEW a, a # "args", Follows(S, w, 0, a, y, r)
       PROVE  Follows(S, w, pos, a, y, r)
  BY <1>14 DEF Follows, Flows
<1>15. AfterRun(args) # "args"
  BY DEF AfterRun
<1> QED BY <1>2, <1>7, <1>11, <1>13, <1>14, <1>15

\* The end of the loop of processInputBuffer: nothing is left, or the client is closed.
LEMMA StopSteps ==
  ASSUME NEW S, NEW r \in Nat, StopProcessing, Follows(S, q, pos, at, executed, r), q.len \in Nat
  PROVE  Follows(S, q', pos', at', executed', r) /\ at' # "dead"
<1>1. at = "turn" /\ at' = "idle" /\ q' = q /\ pos' = pos /\ executed' = executed /\ (q.len = 0 \/ q.close)
  BY DEF StopProcessing
<1>2. CASE \E n, c \in Nat : Flows(S, q, pos, at, executed, r, n, c)
  <2>1. PICK n \in Nat, c \in Nat : Flows(S, q, pos, at, executed, r, n, c)
    BY <1>2
  <2>2. /\ Frame(S, executed, r, n, c) /\ Held(StreamOf(S), q, 0, r, c) /\ Parsing(S, q, "turn", r, n, c)
        /\ ~q.close /\ ~q.error
    BY <1>1, <2>1 DEF Flows
  <2>3. c = r
    <3>1. q.len = 0 /\ q.len = 0 + (r - c)
      BY <1>1, <2>2 DEF Held
    <3> QED BY <3>1
  <2>4. Parsing(S, q, "idle", r, n, c)
    <3>1. CASE AtStart(S, q, "turn", r, n, c)
      BY <2>3, <3>1 DEF AtStart, Parsing
    <3>2. CASE n < Len(S) /\ \E j \in 0 .. Len(S[n + 1].args) : AtText(S, q, "turn", r, n, c, j)
      <4>1. PICK j \in 0 .. Len(S[n + 1].args) : AtText(S, q, "turn", r, n, c, j)
        BY <3>2
      <4>2. r - c < q.bulklen + 2
        <5> DEFINE text == S[n + 1].args[j + 1]
        <5>1. q.bulklen = Len(text) /\ Within(S, q, n, j)
          BY <4>1 DEF AtText
        <5>2. q.bulklen \in Nat
          BY <5>1
        <5> QED BY <2>3, <5>2
      <4>3. AtText(S, q, "idle", r, n, c, j)
        BY <4>1, <4>2 DEF AtText
      <4> QED BY <3>2, <4>3 DEF Parsing
    <3> QED BY <2>2, <3>1, <3>2 DEF Parsing, AtLength, AtEnd
  <2>5. Flows(S, q, pos, "idle", executed, r, n, c)
    BY <2>2, <2>4 DEF Flows
  <2> QED BY <1>1, <2>5 DEF Follows
<1>3. CASE \E n \in Nat : Gone(S, q, at, executed, r, n)
  <2>1. PICK n \in Nat : Gone(S, q, at, executed, r, n)
    BY <1>3
  <2>2. Gone(S, q, "idle", executed, r, n)
    BY <1>1, <2>1 DEF Gone
  <2> QED BY <1>1, <2>2 DEF Follows
<1> QED BY <1>1, <1>2, <1>3 DEF Follows

\* Bytes that have been used are behind, in the stream and in the buffer.
LEMMA FrameLater ==
  ASSUME NEW S, NEW x, NEW r \in Nat, NEW n \in Nat, NEW c \in Nat, Frame(S, x, r, n, c),
         NEW d \in Nat, c <= d, d <= r, StartOf(S, n) \in Nat
  PROVE  Frame(S, x, r, n, d)
<1>1. d \in StartOf(S, n) .. r /\ (d < r => c < r) /\ \A i \in d + 1 .. r - 1 : i \in c + 1 .. r - 1
  <2>1. c \in StartOf(S, n) .. r
    BY DEF Frame
  <2> QED BY <2>1
<1> QED BY <1>1 DEF Frame

\* The same for the buffer from another place on.
LEMMA HeldLater ==
  ASSUME NEW D, NEW s, NEW P \in Nat, NEW r \in Nat, NEW c \in Nat, Held(D, s, P, r, c),
         NEW d \in Nat, c + d <= r
  PROVE  Held(D, s, P + d, r, c + d)
<1>1. s.len = P + (r - c) /\ \A i \in 1 .. r - c : s.buf[P + i] = D[c + i].byte
  BY DEF Held
<1>2. s.len = (P + d) + (r - (c + d))
  BY <1>1
<1>3. ASSUME NEW i \in 1 .. r - (c + d) PROVE s.buf[(P + d) + i] = D[(c + d) + i].byte
  <2> DEFINE j == d + i
  <2>1. j \in 1 .. r - c /\ P + j = (P + d) + i /\ c + j = (c + d) + i
    OBVIOUS
  <2> HIDE DEF j
  <2> QED BY <1>1, <2>1
<1> QED BY <1>2, <1>3 DEF Held

\* sdsrange moves them to the front.
LEMMA RangeHolds ==
  ASSUME NEW D, NEW s, DOMAIN s = Fields, Sds(s), NEW P \in Nat, NEW r \in Nat, NEW c \in Nat,
         c <= r, Held(D, s, P, r, c)
  PROVE  Held(D, sdsrange(s, P), 0, r, c) /\ SameParser(sdsrange(s, P), s) /\ Sds(sdsrange(s, P))
<1> DEFINE t == sdsrange(s, P)
<1>1. s.len = P + (r - c) /\ \A i \in 1 .. r - c : s.buf[P + i] = D[c + i].byte
  BY DEF Held
<1>2. /\ SameParser(t, s) /\ t.len = (IF 0 >= s.len - P THEN 0 ELSE s.len - P) /\ Shows(t, s, P, t.len)
      /\ Sds(t)
  BY RangeMoved
<1> HIDE DEF t
<1>3. s.len - P = r - c /\ r - c >= 0
  BY <1>1
<1>4. t.len = 0 + (r - c)
  BY <1>2, <1>3
<1>5. \A i \in 1 .. r - c : t.buf[i] = s.buf[P + i]
  BY <1>2, <1>4 DEF Shows
<1>6. \A i \in 1 .. r - c : 0 + i = i
  OBVIOUS
<1> QED BY <1>1, <1>2, <1>4, <1>5, <1>6 DEF Held, t

\* What depends on the parser only through the bytes.
LEMMA HeldSame ==
  ASSUME NEW D, NEW s, NEW t, NEW P, NEW r, NEW c, Held(D, s, P, r, c), t.len = s.len, t.buf = s.buf
  PROVE  Held(D, t, P, r, c)
BY DEF Held

\* The numeral in a line of the buffer.
LEMMA LineNumber ==
  ASSUME NEW s, Sds(s), NEW a \in Nat, NEW b \in Nat, NEW f \in Seq(Bytes), b = a + Len(f) + 1,
         b <= Len(s.buf), \A i \in 1 .. Len(f) : s.buf[a + 1 + i] = f[i]
  PROVE  Tail(Slice(s, a, b)) = f /\ Len(Slice(s, a, b)) = Len(f) + 1
<1> DEFINE z == Slice(s, a, b)
           l == Len(f)
<1>1. s.buf \in Seq(Bytes) /\ Len(s.buf) \in Nat /\ l \in Nat /\ \A i \in 1 .. Len(s.buf) : s.buf[i] \in Bytes
  BY DEF Sds
<1> HIDE DEF l
<1>2. z \in Seq(Bytes) /\ Len(z) = l + 1 /\ \A i \in 1 .. l + 1 : z[i] = s.buf[a + i]
  <2>1. b = a + l + 1
    BY DEF l
  <2>2. \A i \in a + 1 .. b : s.buf[i] \in Bytes
    BY <1>1, <2>1
  <2>3. /\ SubSeq(s.buf, a + 1, b) \in Seq(Bytes)
        /\ Len(SubSeq(s.buf, a + 1, b)) = IF a + 1 <= b THEN b - (a + 1) + 1 ELSE 0
        /\ \A i \in 1 .. b - (a + 1) + 1 : SubSeq(s.buf, a + 1, b)[i] = s.buf[(a + 1) + i - 1]
    BY <2>2, SubSeqProperties
  <2>4. z = SubSeq(s.buf, a + 1, b)
    BY DEF Slice
  <2> HIDE DEF z
  <2>5. b - (a + 1) + 1 = l + 1 /\ a + 1 <= b /\ \A i \in 1 .. l + 1 : (a + 1) + i - 1 = a + i
    BY <1>1, <2>1
  <2> QED BY <2>3, <2>4, <2>5
<1> HIDE DEF z
<1>3. Tail(z) \in Seq(Bytes) /\ Len(Tail(z)) = l /\ \A i \in 1 .. l : Tail(z)[i] = z[i + 1]
  <2>1. z # <<>>
    <3>1. Len(<<>>) = 0 /\ Len(z) # 0
      BY <1>1, <1>2
    <3> QED BY <3>1
  <2> QED BY <1>1, <1>2, <2>1
<1>4. \A i \in 1 .. l : Tail(z)[i] = f[i]
  <2> SUFFICES ASSUME NEW i \in 1 .. l PROVE Tail(z)[i] = f[i]
    OBVIOUS
  <2>1. i + 1 \in 1 .. l + 1 /\ a + (i + 1) = a + 1 + i
    BY <1>1
  <2>2. s.buf[a + 1 + i] = f[i]
    BY DEF l
  <2> QED BY <1>2, <1>3, <2>1, <2>2
<1>5. Tail(z) = f
  <2>1. Len(f) = l
    BY DEF l
  <2> QED BY <1>3, <1>4, <2>1, SeqEqual
<1> QED BY <1>2, <1>5 DEF z, l

\* The lines of a request as the parser finds them.
LEMMA BulkStarts ==
  ASSUME NEW e, NEW args, Sendable(args), HasBulks(e, args), Len(e) = BulkStart(args, Len(args)),
         BulkStart(args, 0) = HeaderLen(args)
  PROVE  /\ HeaderLen(args) \in Nat /\ HeaderLen(args) = Len(Numeral(Len(args))) + 3
         /\ Numeral(Len(args)) \in Seq(Bytes) /\ Len(args) \in Nat /\ Len(Numeral(Len(args))) \in Nat
         /\ HeaderLen(args) <= Len(e) /\ (Len(args) > 0 => HeaderLen(args) < Len(e))
<1> DEFINE f == Numeral(Len(args))
           k == Len(args)
           h == Len(f)
<1>1. f \in Seq(Bytes) /\ k \in Nat /\ h \in Nat /\ HeaderLen(args) = h + 3
  BY DEF Sendable, HeaderLen
<1> HIDE DEF f, h
<1>2. CASE k = 0
  BY <1>1, <1>2 DEF f, h
<1>3. CASE k # 0
  <2> DEFINE t == args[0 + 1]
             u == BulkLen(t)
             v == BulkStart(args, 0 + 1)
  <2>1. 0 \in 0 .. k - 1 /\ 1 \in 1 .. k
    BY <1>1, <1>3
  <2>2. u \in Nat /\ v = BulkStart(args, 0) + u /\ v <= Len(e)
    BY <2>1 DEF HasBulks
  <2>3. u > 0
    <3>1. t \in Seq(Bytes) /\ Numeral(Len(t)) \in Seq(Bytes)
      <4>1. args \in Seq(Seq(Bytes)) /\ DOMAIN args = 1 .. k
        BY DEF Sendable
      <4>2. 0 + 1 \in 1 .. k
        BY <2>1
      <4>3. \A j \in DOMAIN args : args[j] \in Seq(Bytes) /\ Numeral(Len(args[j])) \in Seq(Bytes)
        BY <4>1 DEF Sendable
      <4>4. 0 + 1 \in DOMAIN args
        BY <4>1, <4>2
      <4> HIDE DEF k
      <4> QED BY <4>3, <4>4
    <3> HIDE DEF t
    <3> QED BY <3>1 DEF BulkLen
  <2> HIDE DEF u, v
  <2>4. HeaderLen(args) < Len(e)
    <3> DEFINE w == HeaderLen(args)
    <3>1. w \in Nat /\ v = w + u /\ v <= Len(e) /\ Len(e) = BulkStart(args, k)
      BY <1>1, <2>2
    <3> HIDE DEF w
    <3>2. Len(e) \in Nat
      OBVIOUS
    <3> QED BY <2>2, <2>3, <3>1, <3>2 DEF w
  <2>5. HeaderLen(args) <= Len(e)
    <3>1. Len(e) \in Nat
      OBVIOUS
    <3> QED BY <1>1, <2>4, <3>1
  <2> QED BY <1>1, <2>4, <2>5 DEF f, h
<1> QED BY <1>2, <1>3

\* What a client may send as a multibulk request is one to processMultibulkBuffer.
LEMMA MultibulkSent ==
  ASSUME NEW S \in Seq(Requests), Streamed(S), \A i \in 1 .. Len(S) : WellFormed(S[i]),
         NEW n \in 0 .. Len(S) - 1, S[n + 1].kind = "multibulk"
  PROVE  LET A == S[n + 1].args
             e == CodesOf(S)[n + 1]
         IN  /\ Sendable(A) /\ Len(A) <= MaxMultibulk /\ Written(Len(A)) /\ A \in Seq(Seq(Bytes))
             /\ \A j \in 1 .. Len(A) : /\ Written(Len(A[j])) /\ A[j] \in Seq(Bytes)
                                      /\ Len(A[j]) <= MaxBulk
             /\ HasHeader(e, A) /\ HasBulks(e, A) /\ Len(e) = BulkStart(A, Len(A))
             /\ BulkStart(A, 0) = HeaderLen(A) /\ Len(e) \in Nat /\ Len(e) > 0
<1> DEFINE A == S[n + 1].args
           e == CodesOf(S)[n + 1]
           m == S[n + 1]
<1>1. n + 1 \in 1 .. Len(S)
  <2>1. Len(S) \in Nat
    OBVIOUS
  <2> QED BY <2>1
<1>2. m \in Requests /\ WellFormed(m)
  BY <1>1
<1>3. CodeOf(e, m)
  <2>1. Placed(S, n)
    BY DEF Streamed
  <2> QED BY <2>1 DEF Placed
<1> HIDE DEF m, e
<1>4. m.kind = "multibulk" /\ m.args = A
  BY DEF m
<1> HIDE DEF A
<1>5. A \in Seq(Seq(Bytes))
  BY <1>2, <1>4 DEF Requests
<1>6. /\ Len(A) <= MaxMultibulk /\ Written(Len(A))
      /\ \A j \in DOMAIN A : Written(Len(A[j])) /\ Len(A[j]) <= MaxBulk
  BY <1>2, <1>4 DEF WellFormed
<1>7. /\ Sendable(A) /\ Len(e) = BulkStart(A, Len(A)) /\ BulkStart(A, 0) = HeaderLen(A)
      /\ HasHeader(e, A) /\ HasBulks(e, A) /\ Len(e) \in Nat /\ Len(e) > 0
  BY <1>3, <1>4 DEF CodeOf
<1>8. \A j \in 1 .. Len(A) : j \in DOMAIN A /\ A[j] \in Seq(Bytes)
  BY <1>5
<1> QED BY <1>5, <1>6, <1>7, <1>8 DEF A, e

\* A new multibulk request: the number of its arguments is found.
CountFound(S, s, r, n, c) ==
  LET A == S[n + 1].args
  IN  /\ Reading(S, r, n, c) /\ c < r /\ c = StartOf(S, n) /\ S[n + 1].kind = "multibulk"
      /\ AtStart(S, s, "turn", r, n, c) /\ HeaderLen(A) \in Nat /\ Len(A) \in Nat
      /\ c + HeaderLen(A) <= r /\ (Len(A) > 0 => c + HeaderLen(A) < r)
      /\ Held(StreamOf(S), s, 0, r, c)
\* A new multibulk turn of such a stream finds the line with the count.
LEMMA CountFlows ==
  ASSUME Valid(q), NEW S \in Seq(Requests), Streamed(S), \A i \in 1 .. Len(S) : WellFormed(S[i]),
         NEW r \in Nat, NEW n \in Nat, NEW c \in Nat,
         Flows(S, q, pos, at, executed, r, n, c), MultibulkTurn, q.multibulklen = 0
  PROVE  /\ CountFound(S, q, r, n, c) /\ ~CountBad /\ ArgCount = Len(S[n + 1].args)
         /\ Len(CountLine) + 2 = HeaderLen(S[n + 1].args)
<1> DEFINE D == StreamOf(S)
           e == CodesOf(S)[n + 1]
           o == StartOf(S, n)
           A == S[n + 1].args
           f == Numeral(Len(A))
           h == Len(f)
<1>1. at = "turn" /\ q.len > 0 /\ ~q.close /\ (q.reqtype = "none" => q.buf[1] = "*")
  BY DEF MultibulkTurn, Turn, IsMultibulk
<1>2. Frame(S, executed, r, n, c) /\ Held(D, q, 0, r, c) /\ Parsing(S, q, at, r, n, c)
  BY <1>1 DEF Flows
<1>3. AtStart(S, q, at, r, n, c)
  <2>1. ASSUME NEW j \in 0 .. Len(A), AtText(S, q, at, r, n, c, j) PROVE FALSE
    <3>1. j < Len(A) /\ q.multibulklen = Len(A) - j
      BY <2>1 DEF AtText, Within
    <3> QED BY <3>1
  <2> QED BY <1>1, <1>2, <2>1 DEF Parsing, AtLength, AtEnd
<1>4. c = o /\ q.reqtype = "none" /\ q.buf[1] = "*"
  BY <1>1, <1>3 DEF AtStart
<1>5. q.len = r - c /\ c < r /\ \A i \in 1 .. r - c : q.buf[i] = D[c + i].byte
  <2>1. q.len = 0 + (r - c) /\ \A i \in 1 .. r - c : q.buf[0 + i] = D[c + i].byte
    BY <1>2 DEF Held
  <2> HIDE DEF D
  <2> QED BY <1>1, <2>1
<1>6. Reading(S, r, n, c)
  BY <1>2, <1>5, ReadingIs
<1>7. /\ n \in 0 .. Len(S) - 1 /\ CodeOf(e, S[n + 1]) /\ S[n + 1].kind \in {"multibulk", "inline"}
      /\ o \in Nat /\ StartOf(S, n + 1) = o + Len(e)
      /\ \A i \in 1 .. Len(e) : D[o + i] = e[i]
      /\ r \in o + 1 .. o + Len(e) => e[r - o].cut
  BY <1>6 DEF Reading
<1>8. Sds(q) /\ q.buf \in Seq(Bytes) /\ Len(q.buf) \in Nat /\ q.len < Len(q.buf) /\ q.len \in Nat
  BY DEF Valid, Sds
<1>9. n + 1 \in 1 .. Len(S)
  <2>1. Len(S) \in Nat
    OBVIOUS
  <2> QED BY <1>7, <2>1
<1>10. S[n + 1].kind = "multibulk"
  <2> SUFFICES ASSUME S[n + 1].kind = "inline" PROVE FALSE
    BY <1>7
  <2> DEFINE text == InlineText(A)
             m == S[n + 1]
  <2>1. HasWords(text, A) /\ Len(e) = Len(text) /\ \A i \in 1 .. Len(e) : e[i].byte = text[i]
    BY <1>7 DEF CodeOf
  <2>2. A \in Seq(Seq(Bytes)) /\ A # <<>> /\ A[1][1] # "*" /\ A[1] # <<>>
    <3>1. m \in Requests /\ WellFormed(m)
      BY <1>9
    <3>2. m.kind = "inline" /\ m.args = A
      OBVIOUS
    <3> HIDE DEF m, A
    <3>3. A \in Seq(Seq(Bytes))
      BY <3>1, <3>2 DEF Requests
    <3>4. A # <<>> /\ A[1][1] # "*" /\ \A j \in DOMAIN A : A[j] # <<>>
      BY <3>1, <3>2 DEF WellFormed
    <3>5. 1 \in DOMAIN A
      BY <3>3, <3>4
    <3> QED BY <3>3, <3>4, <3>5
  <2>3. text[1] = A[1][1] /\ Len(text) >= 2
    <3> DEFINE z == Offset(Separated(A), 0)
    <3>1. 0 \in 0 .. Len(A) - 1 /\ 1 \in 1 .. Len(A[0 + 1]) /\ 0 + 1 = 1
      <4>1. Len(A) \in Nat /\ Len(A) > 0 /\ A[1] \in Seq(Bytes)
        BY <2>2
      <4>2. Len(A[1]) \in Nat /\ Len(A[1]) > 0
        BY <2>2, <4>1
      <4> QED BY <4>1, <4>2
    <3>2. z = 0 /\ Len(text) >= 2 /\ \A i \in 1 .. Len(A[0 + 1]) : text[z + i] = A[0 + 1][i]
      BY <2>1, <3>1 DEF HasWords
    <3> QED BY <3>1, <3>2
  <2> HIDE DEF e, D, o, text, A
  <2>4. 1 \in 1 .. Len(e) /\ 1 \in 1 .. r - c
    BY <1>5, <2>1, <2>3
  <2>5. q.buf[1] = text[1]
    <3>1. q.buf[1] = D[c + 1].byte
      BY <1>5, <2>4
    <3>2. D[o + 1] = e[1] /\ e[1].byte = text[1]
      BY <1>7, <2>1, <2>4
    <3> QED BY <1>4, <3>1, <3>2
  <2> QED BY <1>4, <2>2, <2>3, <2>5
<1>11. /\ Sendable(A) /\ Len(A) <= MaxMultibulk /\ Written(Len(A)) /\ HasHeader(e, A) /\ HasBulks(e, A)
       /\ Len(e) = BulkStart(A, Len(A)) /\ BulkStart(A, 0) = HeaderLen(A) /\ Len(e) \in Nat
  BY <1>7, <1>10, MultibulkSent
<1>12. /\ HeaderLen(A) \in Nat /\ HeaderLen(A) = h + 3 /\ f \in Seq(Bytes) /\ Len(A) \in Nat /\ h \in Nat
       /\ HeaderLen(A) <= Len(e) /\ (Len(A) > 0 => HeaderLen(A) < Len(e))
  BY <1>11, BulkStarts
<1>13. /\ e[1].byte = "*" /\ (\A i \in 1 .. h : e[1 + i].byte = f[i])
       /\ e[h + 2].byte = "CR" /\ e[h + 3].byte = "LF"
       /\ \A i \in 1 .. h + 3 : i # Len(e) => ~e[i].cut
  BY <1>11 DEF HasHeader
<1>14. /\ Number(f) = Len(A) /\ IsNumber(f) /\ "CR" \notin ToSet(f)
  BY <1>11 DEF Written
<1>15. \A i \in 1 .. h : f[i] # "CR"
  <2>1. DOMAIN f = 1 .. h
    BY <1>12
  <2> HIDE DEF f
  <2> QED BY <1>14, <2>1 DEF ToSet
<1> DEFINE l == HeaderLen(A)
<1> HIDE DEF D, e, o, A, f, h, l
<1>22. l = h + 3 /\ l <= Len(e) /\ (Len(A) > 0 => l < Len(e))
  BY <1>12 DEF l
<1>16. c + l <= r /\ (Len(A) > 0 => c + l < r)
  <2>1. ASSUME r < o + l \/ (r <= o + l /\ Len(A) > 0) PROVE FALSE
    <3> DEFINE i == r - o
    <3>1. i \in 1 .. h + 3 /\ i # Len(e) /\ r \in o + 1 .. o + Len(e)
      BY <1>4, <1>5, <1>7, <1>11, <1>12, <1>22, <2>1
    <3>2. e[i].cut
      BY <1>7, <3>1
    <3> HIDE DEF i
    <3> QED BY <1>13, <3>1, <3>2
  <2>2. o + l \in Nat
    BY <1>7, <1>12, <1>22
  <2> QED BY <1>4, <2>1, <2>2
<1>17. \A i \in 1 .. l : i \in 1 .. r - c /\ i \in 1 .. Len(e) /\ q.buf[i] = e[i].byte
  <2> SUFFICES ASSUME NEW i \in 1 .. l
               PROVE  i \in 1 .. r - c /\ i \in 1 .. Len(e) /\ q.buf[i] = e[i].byte
    OBVIOUS
  <2>1. i \in 1 .. r - c /\ i \in 1 .. Len(e)
    BY <1>4, <1>7, <1>11, <1>12, <1>16, <1>22
  <2>2. D[o + i] = e[i]
    BY <1>7, <2>1
  <2> QED BY <1>4, <1>5, <2>1, <2>2
<1>18. h + 3 <= q.len
  BY <1>4, <1>5, <1>7, <1>12, <1>16, <1>22
<1> DEFINE a == h + 1
<1>19. LineEnds(q, 0) # {} /\ Min(LineEnds(q, 0)) = a
  <2>1. a \in Nat /\ 0 + a + 2 <= Len(q.buf) /\ 0 + a + 1 = h + 2 /\ 0 + a + 2 = h + 3
        /\ h + 2 \in 1 .. l /\ h + 3 \in 1 .. l /\ 0 + a = a
    BY <1>8, <1>12, <1>18, <1>22
  <2>2. q.buf[0 + a + 1] = "CR" /\ q.buf[0 + a + 2] = "LF"
    BY <1>13, <1>17, <2>1
  <2>3. \A i \in 1 .. a : q.buf[0 + i] # "CR"
    <3> SUFFICES ASSUME NEW i \in 1 .. a PROVE q.buf[i] # "CR"
      OBVIOUS
    <3>1. i \in 1 .. l
      BY <1>12, <1>22
    <3>2. CASE i = 1
      BY <1>13, <1>17, <3>1, <3>2
    <3>3. CASE i # 1
      <4> DEFINE j == i - 1
      <4>1. j \in 1 .. h /\ 1 + j = i
        BY <1>12, <3>3
      <4> HIDE DEF j
      <4>2. q.buf[i] = f[j]
        BY <1>13, <1>17, <3>1, <4>1
      <4> QED BY <1>15, <4>1, <4>2
    <3> QED BY <3>2, <3>3
  <2> HIDE DEF a
  <2>4. LineEndAt(q, 0, a)
    BY <2>1, <2>2, <2>3 DEF LineEndAt
  <2>5. LineEnds(q, 0) # {} /\ Min(LineEnds(q, 0)) = 0 + a
    BY <1>8, <2>1, <2>4, FirstLineEnd
  <2> QED BY <2>1, <2>5
<1>20. Tail(CountLine) = f /\ Len(CountLine) = h + 1
  <2>1. CountLine = Slice(q, 0, a)
    BY <1>19 DEF CountLine
  <2>2. a \in Nat /\ a = 0 + Len(f) + 1 /\ a <= Len(q.buf)
    BY <1>8, <1>12, <1>18 DEF h
  <2>3. \A i \in 1 .. Len(f) : q.buf[0 + 1 + i] = f[i]
    <3> SUFFICES ASSUME NEW i \in 1 .. h PROVE q.buf[1 + i] = f[i]
      BY DEF h
    <3>1. 1 + i \in 1 .. l
      BY <1>12, <1>22
    <3> QED BY <1>13, <1>17, <3>1
  <2> HIDE DEF a
  <2>4. Sds(q) /\ f \in Seq(Bytes) /\ 0 \in Nat
    BY <1>8, <1>12
  <2>5. Tail(Slice(q, 0, a)) = f /\ Len(Slice(q, 0, a)) = Len(f) + 1
    BY <2>2, <2>3, <2>4, LineNumber, SMTT(60)
  <2> QED BY <2>1, <2>5 DEF h
<1>21. ArgCount = Len(A) /\ ~CountBad
  <2>1. ArgCount = Len(A)
    BY <1>14, <1>20 DEF ArgCount
  <2>2. ~(Len(A) > MaxMultibulk)
    BY <1>11, <1>12, QueryAssumption
  <2> QED BY <1>14, <1>20, <2>1, <2>2 DEF CountBad
<1>23. Len(CountLine) + 2 = l
  BY <1>12, <1>20, <1>22
<1>24. CountFound(S, q, r, n, c)
  BY <1>1, <1>2, <1>3, <1>4, <1>5, <1>6, <1>10, <1>12, <1>16 DEF CountFound, A, o, l, D
<1> QED BY <1>21, <1>23, <1>24 DEF A, l

\* A request without arguments is consumed, and asks for nothing.
LEMMA CountEmpty ==
  ASSUME NEW S \in Seq(Requests), Streamed(S), NEW x, NEW r \in Nat, NEW n \in Nat, NEW c \in Nat,
         NEW s, Sds(s), DOMAIN s = Fields, NEW g, CountFound(S, g, r, n, c),
         s.len = g.len, s.buf = g.buf, Frame(S, x, r, n, c),
         \A i \in 1 .. Len(S) : WellFormed(S[i]), Len(S[n + 1].args) = 0,
         NEW p, p = HeaderLen(S[n + 1].args), ~s.close, ~s.error, NEW y \in Nat
  PROVE  Follows(S, resetClient(sdsrange(s, p)), y, "turn", x, r)
<1> DEFINE D == StreamOf(S)
           b == StartOf(S, n + 1)
           t == sdsrange(s, p)
           u == resetClient(t)
           A == S[n + 1].args
<1>1. /\ Reading(S, r, n, c) /\ c < r /\ c = StartOf(S, n) /\ S[n + 1].kind = "multibulk" /\ p \in Nat
      /\ c + p <= r /\ Held(D, s, 0, r, c)
  BY HeldSame DEF CountFound
<1>2. n \in 0 .. Len(S) - 1 /\ b = c + Len(CodesOf(S)[n + 1])
  BY <1>1 DEF Reading
<1>3. Len(CodesOf(S)[n + 1]) = p
  <2>1. Len(CodesOf(S)[n + 1]) = BulkStart(A, Len(A)) /\ BulkStart(A, 0) = HeaderLen(A)
    BY <1>1, <1>2, MultibulkSent
  <2>2. Len(A) = 0
    OBVIOUS
  <2> HIDE DEF A
  <2>3. BulkStart(A, Len(A)) = BulkStart(A, 0)
    BY <2>2
  <2> QED BY <2>1, <2>3 DEF A
<1>4. b = c + p
  BY <1>2, <1>3
<1>5. A = <<>>
  <2>1. A \in Seq(Seq(Bytes)) /\ Len(A) = 0
    BY <1>1, <1>2, MultibulkSent
  <2> HIDE DEF A
  <2> QED BY <2>1
<1>6. x = AsksFor(S, n + 1)
  <2>1. AsksMore(S, n)
    BY <1>2, AsksIs
  <2>2. x = AsksFor(S, n)
    BY DEF Frame
  <2> QED BY <1>5, <2>1, <2>2 DEF AsksMore
<1>7. Frame(S, x, r, n + 1, b)
  <2>1. c <= b /\ b <= r
    BY <1>1, <1>4
  <2>2. \A i \in DOMAIN x : ~Final(x[i])
    BY DEF Frame
  <2> QED BY <1>1, <1>6, <2>1, <2>2, NextFrame
<1>8. Held(D, t, 0, r, b) /\ SameParser(t, s)
  <2>1. Held(D, s, 0 + p, r, c + p)
    BY <1>1, HeldLater
  <2>2. Held(D, s, p, r, b)
    BY <1>1, <1>4, <2>1
  <2>3. b \in Nat /\ b <= r
    BY <1>1, <1>4
  <2> QED BY <1>1, <2>2, <2>3, RangeHolds
<1>9. DOMAIN t = Fields /\ ~t.close /\ ~t.error
  BY <1>8 DEF SameParser
<1> HIDE DEF t
<1>10. /\ u.close = t.close /\ u.error = t.error /\ u.len = t.len /\ u.buf = t.buf
       /\ u.reqtype = "none" /\ u.multibulklen = 0 /\ u.bulklen = -1 /\ u.argv = <<>>
  BY <1>9 DEF Fields, resetClient
<1> HIDE DEF u
<1>11. Held(D, u, 0, r, b)
  BY <1>8, <1>10, HeldSame
<1>12. AtStart(S, u, "turn", r, n + 1, b)
  BY <1>10 DEF AtStart
<1>13. Flows(S, u, y, "turn", x, r, n + 1, b)
  BY <1>7, <1>9, <1>10, <1>11, <1>12 DEF Flows, Parsing
<1>14. n + 1 \in Nat /\ b \in Nat
  BY <1>1, <1>4
<1> QED BY <1>13, <1>14 DEF Follows, u, t

\* A request with arguments: the first of them comes next.
LEMMA CountBegins ==
  ASSUME NEW S \in Seq(Requests), Streamed(S), NEW x, NEW r \in Nat, NEW n \in Nat, NEW c \in Nat,
         NEW s, DOMAIN s = Fields, NEW g, CountFound(S, g, r, n, c),
         s.len = g.len, s.buf = g.buf, Frame(S, x, r, n, c),
         \A i \in 1 .. Len(S) : WellFormed(S[i]), Len(S[n + 1].args) > 0,
         s.argv = <<>>, s.bulklen = -1, ~s.close, ~s.error,
         NEW z, s.reqtype = "multibulk", z = [s EXCEPT !.multibulklen = Len(S[n + 1].args)],
         NEW p, p = HeaderLen(S[n + 1].args)
  PROVE  Follows(S, z, p, "args", x, r)
<1> DEFINE D == StreamOf(S)
           A == S[n + 1].args
           d == c + p
<1>1. /\ Reading(S, r, n, c) /\ c < r /\ c = StartOf(S, n) /\ S[n + 1].kind = "multibulk" /\ p \in Nat
      /\ d < r /\ Held(D, s, 0, r, c) /\ Len(A) \in Nat
  BY HeldSame DEF CountFound
<1>2. n \in 0 .. Len(S) - 1
  BY <1>1 DEF Reading
<1>3. A \in Seq(Seq(Bytes)) /\ BulkStart(A, 0) = p
  BY <1>1, <1>2, MultibulkSent
<1> HIDE DEF A
<1>4. /\ z.buf = s.buf /\ z.len = s.len /\ z.reqtype = "multibulk" /\ z.multibulklen = Len(A)
      /\ z.bulklen = -1 /\ z.argv = <<>> /\ ~z.close /\ ~z.error
  BY DEF Fields, A
<1>5. Frame(S, x, r, n, d)
  <2>1. d \in Nat /\ c <= d /\ d <= r /\ StartOf(S, n) \in Nat
    BY <1>1
  <2> QED BY <2>1, FrameLater
<1>6. Held(D, z, p, r, d)
  <2>3. c + p <= r
    BY <1>1
  <2>1. Held(D, s, 0 + p, r, c + p)
    BY <1>1, <2>3, HeldLater
  <2>2. Held(D, s, p, r, d)
    BY <1>1, <2>1
  <2> QED BY <1>4, <2>2, HeldSame
<1>7. Within(S, z, n, 0)
  <2>1. SubSeq(A, 1, 0) = <<>>
    BY SubSeqEmpty
  <2>2. n < Len(S) /\ 0 \in 0 .. Len(A) /\ Len(A) - 0 = Len(A)
    <3>1. Len(S) \in Nat
      OBVIOUS
    <3> QED BY <1>1, <1>2, <3>1
  <2> QED BY <1>1, <1>4, <2>1, <2>2 DEF Within, A
<1>8. AtLength(S, z, "args", r, n, d, 0)
  <2>1. 0 < Len(A) /\ d = StartOf(S, n) + BulkStart(A, 0)
    BY <1>1, <1>3 DEF A
  <2> QED BY <1>1, <1>4, <1>7, <2>1 DEF AtLength, A
<1>9. Parsing(S, z, "args", r, n, d)
  <2>1. n < Len(S) /\ 0 \in 0 .. Len(S[n + 1].args)
    BY <1>7 DEF Within
  <2> QED BY <1>8, <2>1 DEF Parsing
<1>10. d \in Nat
  BY <1>1
<1>11. Flows(S, z, p, "args", x, r, n, d)
  BY <1>4, <1>5, <1>6, <1>9 DEF Flows
<1> QED BY <1>10, <1>11 DEF Follows

\* The count of the arguments.
LEMMA CountSteps ==
  ASSUME QState, NEW S \in Seq(Requests), Streamed(S), \A i \in 1 .. Len(S) : WellFormed(S[i]),
         NEW r \in Nat, NEW n \in Nat, NEW c \in Nat,
         Flows(S, q, pos, at, executed, r, n, c), MultibulkCount
  PROVE  Follows(S, q', pos', at', executed', r) /\ at' # "dead"
<1> DEFINE s == Typed(q)
           A == S[n + 1].args
           p == Len(CountLine) + 2
<1>1. MultibulkTurn /\ q.multibulklen = 0
  BY DEF MultibulkCount
<1>2. Turn /\ IsMultibulk /\ Valid(q) /\ Between(q) /\ ~q.close /\ at = "turn"
  BY <1>1, TurnIs DEF MultibulkTurn
<1>3. CountFound(S, q, r, n, c) /\ ~CountBad /\ ArgCount = Len(A) /\ p = HeaderLen(A)
  BY <1>1, <1>2, CountFlows
<1>4. /\ Valid(s) /\ s.len = q.len /\ s.close = q.close /\ s.error = q.error /\ s.buf = q.buf
      /\ s.multibulklen = 0 /\ s.argv = <<>> /\ s.reqtype = "multibulk" /\ s.bulklen = q.bulklen
  BY <1>1, <1>2, TypedIs
<1>5. DOMAIN s = Fields /\ Sds(s)
  BY <1>4 DEF Valid
<1>6. /\ pos' = p /\ executed' = executed
      /\ ArgCount <= 0 => q' = resetClient(sdsrange(s, p)) /\ at' = at
      /\ ~(ArgCount <= 0) => q' = [s EXCEPT !.multibulklen = ArgCount] /\ at' = "args"
  BY <1>3 DEF MultibulkCount, EmptyMultibulk
<1> HIDE DEF s, p
<1>7. Frame(S, executed, r, n, c) /\ ~q.error
  BY DEF Flows
<1>8. AtStart(S, q, "turn", r, n, c) /\ Held(StreamOf(S), q, 0, r, c) /\ HeaderLen(A) \in Nat /\ Len(A) \in Nat
  BY <1>3 DEF CountFound
<1>9. s.bulklen = -1 /\ p \in Nat
  BY <1>3, <1>4, <1>8 DEF AtStart
<1>10. CASE Len(A) = 0
  <2>1. Follows(S, resetClient(sdsrange(s, p)), p, "turn", executed, r)
    <3>1. Len(S[n + 1].args) = 0 /\ p = HeaderLen(S[n + 1].args) /\ CountFound(S, q, r, n, c)
      BY <1>3, <1>10
    <3>2. ~s.close /\ ~s.error
      BY <1>2, <1>4, <1>7
    <3> QED BY <1>4, <1>5, <1>7, <1>9, <3>1, <3>2, CountEmpty
  <2>2. q' = resetClient(sdsrange(s, p)) /\ at' = "turn"
    <3>1. ArgCount <= 0
      BY <1>3, <1>10
    <3> QED BY <1>2, <1>6, <3>1
  <2> QED BY <1>6, <2>1, <2>2
<1>11. CASE Len(A) # 0
  <2> DEFINE z == [s EXCEPT !.multibulklen = Len(A)]
  <2>1. Follows(S, z, p, "args", executed, r)
    <3>1. Len(S[n + 1].args) > 0 /\ p = HeaderLen(S[n + 1].args) /\ CountFound(S, q, r, n, c)
      BY <1>3, <1>8, <1>11
    <3>2. ~s.close /\ ~s.error
      BY <1>2, <1>4, <1>7
    <3>3. z = [s EXCEPT !.multibulklen = Len(S[n + 1].args)]
      OBVIOUS
    <3> HIDE DEF z
    <3> QED BY <1>4, <1>5, <1>7, <1>9, <3>1, <3>2, <3>3, CountBegins
  <2>2. q' = z /\ at' = "args"
    <3>1. ~(ArgCount <= 0)
      BY <1>3, <1>8, <1>11
    <3> QED BY <1>3, <1>6, <3>1
  <2> QED BY <1>6, <2>1, <2>2
<1> QED BY <1>10, <1>11

\* A request whose count has been read goes on.
LEMMA ResumedSteps ==
  ASSUME NEW S, NEW r \in Nat, NEW n \in Nat, NEW c \in Nat,
         Flows(S, q, pos, at, executed, r, n, c), MultibulkResumed
  PROVE  Follows(S, q', pos', at', executed', r) /\ at' # "dead"
<1>1. /\ at = "turn" /\ q.multibulklen > 0 /\ pos' = 0 /\ at' = "args" /\ q' = q /\ executed' = executed
  BY DEF MultibulkResumed, MultibulkTurn, Turn
<1>2. /\ Frame(S, executed, r, n, c) /\ Held(StreamOf(S), q, 0, r, c) /\ Parsing(S, q, "turn", r, n, c)
      /\ ~q.close /\ ~q.error
  BY <1>1 DEF Flows
<1>3. n < Len(S) /\ \E j \in 0 .. Len(S[n + 1].args) : AtText(S, q, "turn", r, n, c, j)
  BY <1>1, <1>2 DEF Parsing, AtStart, AtLength, AtEnd
<1>4. PICK j \in 0 .. Len(S[n + 1].args) : AtText(S, q, "turn", r, n, c, j)
  BY <1>3
<1>5. AtText(S, q, "args", r, n, c, j)
  BY <1>4 DEF AtText
<1>6. Parsing(S, q, "args", r, n, c)
  BY <1>3, <1>5 DEF Parsing
<1>7. Flows(S, q, 0, "args", executed, r, n, c)
  BY <1>2, <1>6 DEF Flows
<1> QED BY <1>1, <1>7 DEF Follows

\* Where an argument is in the stream: its length line ends before the bytes do that
\* have been read, for no read ends within it.
LineFound(S, s, p, r, n, c, j) ==
  LET A == S[n + 1].args
      text == A[j + 1]
      f == Numeral(Len(text))
      D == StreamOf(S)
  IN  /\ A \in Seq(Seq(Bytes)) /\ text \in Seq(Bytes) /\ Len(text) \in Nat /\ f \in Seq(Bytes)
      /\ Len(f) \in Nat /\ Number(f) = Len(text) /\ IsNumber(f) /\ "CR" \notin ToSet(f)
      /\ Len(text) <= MaxBulk
      /\ c + Len(f) + 3 <= r /\ s.buf[p + 1] = "$" /\ s.len = p + (r - c)
      /\ \A i \in 1 .. Len(f) : s.buf[p + 1 + i] = f[i]
      /\ s.buf[p + Len(f) + 2] = "CR" /\ s.buf[p + Len(f) + 3] = "LF"
      /\ Held(D, s, p, r, c) /\ StartOf(S, n) \in Nat /\ c \in Nat
\* A parser that wants a length has the whole line in the buffer.
LEMMA LineIs ==
  ASSUME NEW S \in Seq(Requests), Streamed(S), \A i \in 1 .. Len(S) : WellFormed(S[i]),
         NEW x, NEW r \in Nat, NEW n \in Nat, NEW c \in Nat, NEW p \in Nat, NEW s,
         Frame(S, x, r, n, c), Held(StreamOf(S), s, p, r, c), NEW j \in Nat,
         AtLength(S, s, "args", r, n, c, j)
  PROVE  LineFound(S, s, p, r, n, c, j)
<1> DEFINE D == StreamOf(S)
           e == CodesOf(S)[n + 1]
           o == StartOf(S, n)
           A == S[n + 1].args
           text == A[j + 1]
           f == Numeral(Len(text))
           m == Len(f)
           k == BulkStart(A, j)
<1>1. /\ n < Len(S) /\ S[n + 1].kind = "multibulk" /\ j < Len(A) /\ c = o + k /\ c < r
  BY DEF AtLength, Within
<1>2. Reading(S, r, n, c)
  BY <1>1, ReadingIs
<1>3. /\ n \in 0 .. Len(S) - 1 /\ o \in Nat /\ StartOf(S, n + 1) = o + Len(e)
      /\ \A i \in 1 .. Len(e) : D[o + i] = e[i]
      /\ r \in o + 1 .. o + Len(e) => e[r - o].cut
  BY <1>2 DEF Reading
<1>4. /\ HasBulks(e, A) /\ A \in Seq(Seq(Bytes)) /\ Len(e) \in Nat
      /\ \A i \in 1 .. Len(A) : Written(Len(A[i])) /\ A[i] \in Seq(Bytes) /\ Len(A[i]) <= MaxBulk
  BY <1>1, <1>3, MultibulkSent
<1>5. /\ s.len = p + (r - c) /\ \A i \in 1 .. r - c : s.buf[p + i] = D[c + i].byte
  BY DEF Held
<1> HIDE DEF A, D, e, o
<1>6. j \in 0 .. Len(A) - 1 /\ j + 1 \in 1 .. Len(A)
  <2>1. Len(A) \in Nat
    BY <1>4
  <2> QED BY <1>1, <2>1
<1>7. /\ k \in Nat /\ BulkLen(text) \in Nat /\ HasBulk(e, k, text)
      /\ k + BulkLen(text) <= Len(e)
  <2>1. /\ BulkStart(A, j) \in Nat /\ BulkStart(A, j + 1) = BulkStart(A, j) + BulkLen(A[j + 1])
        /\ BulkLen(A[j + 1]) \in Nat /\ BulkStart(A, j + 1) <= Len(e)
        /\ HasBulk(e, BulkStart(A, j), A[j + 1])
    BY <1>4, <1>6 DEF HasBulks
  <2> QED BY <2>1
<1>8. text \in Seq(Bytes) /\ Written(Len(text)) /\ Len(text) \in Nat /\ Len(text) <= MaxBulk
  <2>1. text \in Seq(Bytes) /\ Written(Len(text)) /\ Len(text) <= MaxBulk
    BY <1>4, <1>6
  <2> HIDE DEF text
  <2> QED BY <2>1
<1>9. f \in Seq(Bytes) /\ m \in Nat /\ Number(f) = Len(text) /\ IsNumber(f) /\ "CR" \notin ToSet(f)
  <2>1. f \in Seq(Bytes) /\ Number(f) = Len(text) /\ IsNumber(f) /\ "CR" \notin ToSet(f)
    BY <1>8 DEF Written
  <2> HIDE DEF f
  <2> QED BY <2>1
<1>10. BulkLen(text) = m + Len(text) + 5
  BY DEF BulkLen
<1>11. /\ e[k + 1].byte = "$" /\ \A i \in 1 .. m : e[k + 1 + i].byte = f[i]
       /\ e[k + m + 2].byte = "CR" /\ e[k + m + 3].byte = "LF"
       /\ \A i \in 1 .. m + 2 : ~e[k + i].cut
  BY <1>7 DEF HasBulk
<1> HIDE DEF text, f, m, k
<1>12. k + m + 3 <= Len(e)
  BY <1>4, <1>7, <1>8, <1>9, <1>10
<1>13. c + m + 3 <= r
  <2> SUFFICES ASSUME ~(c + m + 3 <= r) PROVE FALSE
    OBVIOUS
  <2> DEFINE i == r - c
  <2>1. i \in 1 .. m + 2 /\ k + i = r - o /\ r \in o + 1 .. o + Len(e)
    BY <1>1, <1>3, <1>4, <1>7, <1>9, <1>12
  <2> HIDE DEF i
  <2> QED BY <1>3, <1>11, <2>1
<1>14. \A i \in 1 .. m + 3 : s.buf[p + i] = e[k + i].byte
  <2> SUFFICES ASSUME NEW i \in 1 .. m + 3 PROVE s.buf[p + i] = e[k + i].byte
    OBVIOUS
  <2> DEFINE h == k + i
  <2>3. c = o + k /\ c + m + 3 <= r /\ k + m + 3 <= Len(e) /\ o \in Nat /\ k \in Nat /\ m \in Nat
        /\ Len(e) \in Nat
    BY <1>1, <1>3, <1>4, <1>7, <1>9, <1>12, <1>13
  <2>4. i \in 1 .. r - c
    BY ONLY <2>3, r \in Nat, c \in Nat, i \in 1 .. m + 3
  <2>5. h \in 1 .. Len(e)
    BY ONLY <2>3, i \in 1 .. m + 3
  <2>1. i \in 1 .. r - c /\ h \in 1 .. Len(e) /\ o + h = c + i
    BY ONLY <2>3, <2>4, <2>5, i \in 1 .. m + 3
  <2> HIDE DEF h
  <2>2. D[c + i] = e[h]
    BY <1>3, <2>1
  <2> QED BY <1>5, <2>1, <2>2 DEF h
<1>15. s.buf[p + 1] = "$"
  <2>1. 1 \in 1 .. m + 3
    BY <1>9
  <2> QED BY <1>11, <1>14, <2>1
<1>16. ASSUME NEW i \in 1 .. m PROVE s.buf[p + 1 + i] = f[i]
  <2> DEFINE h == 1 + i
  <2>1. h \in 1 .. m + 3 /\ p + h = p + 1 + i /\ k + h = k + 1 + i
    BY <1>7, <1>9
  <2> HIDE DEF h
  <2> QED BY <1>11, <1>14, <2>1
<1>17. s.buf[p + m + 2] = "CR" /\ s.buf[p + m + 3] = "LF"
  <2> DEFINE h == m + 2
             g == m + 3
  <2>1. /\ h \in 1 .. m + 3 /\ p + h = p + m + 2 /\ k + h = k + m + 2
        /\ g \in 1 .. m + 3 /\ p + g = p + m + 3 /\ k + g = k + m + 3
    BY <1>7, <1>9
  <2> HIDE DEF h, g
  <2> QED BY <1>11, <1>14, <2>1
<1>18. Held(D, s, p, r, c)
  BY DEF D
<1> QED BY <1>3, <1>4, <1>5, <1>8, <1>9, <1>13, <1>15, <1>16, <1>17, <1>18
        DEF LineFound, A, D, o, text, f, m

\* The parser finds the length line, with the length in it.
LengthFound(s, p, text) ==
  LET m == Len(Numeral(Len(text)))
  IN  /\ LineEnds(s, p) # {} /\ Min(LineEnds(s, p)) = p + m + 1
      /\ Slice(s, p, p + 1) = <<"$">> /\ Slice(s, p + 1, p + m + 1) = Numeral(Len(text))
\* A line that is in the buffer is found.
LEMMA LengthIsFound ==
  ASSUME NEW S, NEW s, Sds(s), NEW p \in Nat, NEW r \in Nat, NEW n, NEW c, NEW j,
         LineFound(S, s, p, r, n, c, j)
  PROVE  LengthFound(s, p, S[n + 1].args[j + 1])
<1> DEFINE text == S[n + 1].args[j + 1]
           f == Numeral(Len(text))
           m == Len(f)
<1>1. /\ f \in Seq(Bytes) /\ m \in Nat /\ "CR" \notin ToSet(f) /\ c \in Nat
      /\ c + m + 3 <= r /\ s.buf[p + 1] = "$" /\ s.len = p + (r - c)
      /\ \A i \in 1 .. m : s.buf[p + 1 + i] = f[i]
      /\ s.buf[p + m + 2] = "CR" /\ s.buf[p + m + 3] = "LF"
  BY DEF LineFound
<1> HIDE DEF text, f
<1>2. Len(s.buf) \in Nat /\ s.len < Len(s.buf)
  BY DEF Sds
<1>3. \A i \in 1 .. m : f[i] # "CR"
  <2>1. DOMAIN f = 1 .. m
    BY <1>1
  <2> QED BY <1>1, <2>1 DEF ToSet
<1> HIDE DEF m
<1> DEFINE a == m + 1
<1>4. a \in Nat /\ p + a + 2 <= Len(s.buf) /\ p + a + 1 = p + m + 2 /\ p + a + 2 = p + m + 3 /\ p + a = p + m + 1
  BY <1>1, <1>2
<1>5. ASSUME NEW i \in 1 .. a PROVE s.buf[p + i] # "CR"
  <2>1. CASE i = 1
    BY <1>1, <2>1
  <2>2. CASE i # 1
    <3> DEFINE h == i - 1
    <3>1. h \in 1 .. m /\ p + 1 + h = p + i
      BY <1>1, <2>2
    <3> HIDE DEF h
    <3> QED BY <1>1, <1>3, <3>1
  <2> QED BY <2>1, <2>2
<1>6. LineEndAt(s, p, a)
  BY <1>1, <1>4, <1>5 DEF LineEndAt
<1> HIDE DEF a
<1>7. LineEnds(s, p) # {} /\ Min(LineEnds(s, p)) = p + a
  BY <1>4, <1>6, FirstLineEnd
<1>8. Slice(s, p, p + 1) = <<"$">>
  <2> DEFINE t == <<"$">>
             b == p + 1
  <2>1. t \in Seq(Bytes) /\ Len(t) = 1 /\ t[1] = "$"
    BY QueryAssumption
  <2> HIDE DEF t
  <2>2. b \in Nat /\ b = p + Len(t) /\ b <= Len(s.buf)
    <3>1. p + 1 <= Len(s.buf)
      BY <1>2, <1>4
    <3> QED BY <2>1, <3>1
  <2>3. \A i \in 1 .. Len(t) : s.buf[p + i] = t[i]
    <3> SUFFICES ASSUME NEW i \in 1 .. 1 PROVE s.buf[p + i] = t[i]
      BY <2>1
    <3>1. i = 1
      OBVIOUS
    <3> QED BY <1>1, <2>1, <3>1
  <2> HIDE DEF b
  <2>4. Slice(s, p, b) = t
    BY <2>1, <2>2, <2>3, SliceIs
  <2> QED BY <2>4 DEF t, b
<1>9. Slice(s, p + 1, p + m + 1) = f
  <2> DEFINE g == p + 1
             b == p + m + 1
  <2>1. g \in Nat /\ b \in Nat /\ b = g + Len(f) /\ b <= Len(s.buf)
    BY <1>1, <1>2, <1>4 DEF m
  <2>2. \A i \in 1 .. Len(f) : s.buf[g + i] = f[i]
    BY <1>1 DEF m
  <2> HIDE DEF g, b
  <2>3. Slice(s, g, b) = f
    BY <1>1, <2>1, <2>2, SliceIs
  <2> QED BY <2>3 DEF g, b
<1> QED BY <1>4, <1>7, <1>8, <1>9 DEF LengthFound, text, f, m

\* The argument comes next, at whatever place of the buffer.
LEMMA TextNext ==
  ASSUME NEW S, NEW x, NEW r \in Nat, NEW n \in Nat, NEW c \in Nat, NEW p \in Nat, NEW s, NEW j \in Nat,
         Frame(S, x, r, n, c), AtLength(S, s, "args", r, n, c, j), LineFound(S, s, p, r, n, c, j),
         NEW z, NEW b, Held(StreamOf(S), z, b, r, c + Len(Numeral(Len(S[n + 1].args[j + 1]))) + 3),
         z.bulklen = Len(S[n + 1].args[j + 1]), z.reqtype = s.reqtype, z.multibulklen = s.multibulklen,
         z.argv = s.argv, ~z.close, ~z.error
  PROVE  Follows(S, z, b, "args", x, r)
<1> DEFINE A == S[n + 1].args
           text == A[j + 1]
           m == Len(Numeral(Len(text)))
           d == c + m + 3
<1>1. m \in Nat /\ d \in Nat /\ c <= d /\ d <= r /\ StartOf(S, n) \in Nat
  <2>1. m \in Nat /\ c + m + 3 <= r /\ StartOf(S, n) \in Nat
    BY DEF LineFound
  <2> HIDE DEF m
  <2> QED BY <2>1
<1>2. Frame(S, x, r, n, d)
  <2> HIDE DEF d
  <2> QED BY <1>1, FrameLater
<1>3. Within(S, z, n, j)
  BY DEF AtLength, Within
<1>4. j < Len(A) /\ c = StartOf(S, n) + BulkStart(A, j)
  BY DEF AtLength
<1>5. d = StartOf(S, n) + BulkStart(A, j) + m + 3
  <2> HIDE DEF m
  <2> QED BY <1>4
<1>6. AtText(S, z, "args", r, n, d, j)
  <2> HIDE DEF d
  <2> QED BY <1>3, <1>4, <1>5 DEF AtText
<1>7. Parsing(S, z, "args", r, n, d)
  <2>1. n < Len(S) /\ j \in 0 .. Len(A)
    BY <1>3 DEF Within
  <2> HIDE DEF d
  <2> QED BY <1>6, <2>1 DEF Parsing
<1>8. Flows(S, z, b, "args", x, r, n, d)
  <2>1. Held(StreamOf(S), z, b, r, d)
    OBVIOUS
  <2> HIDE DEF d
  <2> QED BY <1>2, <1>7, <2>1 DEF Flows
<1> HIDE DEF d
<1> QED BY <1>1, <1>8 DEF Follows

\* The four actions on a length line: it is taken, and none of the others comes about.
LengthActions == BulkLengthTooLong \/ BulkLengthBad \/ BulkLength \/ (MultibulkWaits /\ LengthTurn)
\* So a length that is wanted is found.
LEMMA LengthFlows ==
  ASSUME QState, NEW S \in Seq(Requests), Streamed(S), \A i \in 1 .. Len(S) : WellFormed(S[i]),
         NEW r \in Nat, NEW n \in Nat, NEW c \in Nat,
         Flows(S, q, pos, at, executed, r, n, c), LengthTurn
  PROVE  \E j \in Nat : /\ AtLength(S, q, "args", r, n, c, j) /\ LineFound(S, q, pos, r, n, c, j)
                        /\ LengthFound(q, pos, S[n + 1].args[j + 1])
<1> DEFINE A == S[n + 1].args
<1>1. at = "args" /\ q.multibulklen > 0 /\ q.bulklen = -1
  BY DEF LengthTurn
<1>2. /\ Frame(S, executed, r, n, c) /\ Held(StreamOf(S), q, pos, r, c) /\ Parsing(S, q, "args", r, n, c)
  BY <1>1 DEF Flows
<1>3. Valid(q) /\ Sds(q) /\ pos \in Nat
  BY DEF QState, Valid
<1>4. PICK j \in 0 .. Len(A) :
        \/ AtLength(S, q, "args", r, n, c, j)
        \/ AtText(S, q, "args", r, n, c, j)
        \/ AtEnd(S, q, "args", n, c, j)
  BY <1>2 DEF Parsing, AtStart
<1>5. ASSUME AtText(S, q, "args", r, n, c, j) PROVE FALSE
  <2> DEFINE text == A[j + 1]
  <2>1. q.bulklen = Len(text) /\ j < Len(A) /\ n < Len(S) /\ S[n + 1].kind = "multibulk"
    BY <1>5 DEF AtText, Within
  <2>2. n \in 0 .. Len(S) - 1
    <3>1. Len(S) \in Nat
      OBVIOUS
    <3> QED BY <2>1, <3>1
  <2>3. A \in Seq(Seq(Bytes)) /\ \A i \in 1 .. Len(A) : A[i] \in Seq(Bytes)
    BY <2>1, <2>2, MultibulkSent
  <2> HIDE DEF A
  <2>4. j + 1 \in 1 .. Len(A)
    <3>1. Len(A) \in Nat
      BY <2>3
    <3> QED BY <2>1, <3>1
  <2>5. text \in Seq(Bytes)
    BY <2>3, <2>4
  <2> HIDE DEF text
  <2>6. Len(text) \in Nat
    BY <2>5
  <2> QED BY <1>1, <2>1, <2>6
<1>6. ASSUME AtEnd(S, q, "args", n, c, j) PROVE FALSE
  <2>1. j = Len(A) /\ q.multibulklen = Len(A) - j
    BY <1>6 DEF AtEnd, Within
  <2>2. j \in Int
    OBVIOUS
  <2> HIDE DEF A
  <2> QED BY <1>1, <2>1, <2>2
<1>7. AtLength(S, q, "args", r, n, c, j)
  BY <1>4, <1>5, <1>6
<1>8. j \in Nat
  OBVIOUS
<1>9. LineFound(S, q, pos, r, n, c, j)
  BY <1>2, <1>3, <1>7, <1>8, LineIs
<1>10. LengthFound(q, pos, A[j + 1])
  BY <1>3, <1>9, LengthIsFound
<1> QED BY <1>7, <1>8, <1>9, <1>10

\* A length is taken: the argument comes next, a big one at the front.
LEMMA LengthSteps ==
  ASSUME QState, NEW S \in Seq(Requests), Streamed(S), \A i \in 1 .. Len(S) : WellFormed(S[i]),
         NEW r \in Nat, NEW n \in Nat, NEW c \in Nat,
         Flows(S, q, pos, at, executed, r, n, c), LengthActions
  PROVE  Follows(S, q', pos', at', executed', r) /\ at' # "dead"
<1> DEFINE D == StreamOf(S)
           A == S[n + 1].args
<1>1. LengthTurn
  BY DEF LengthActions, BulkLengthTooLong, BulkLengthBad, BulkLength
<1>2. PICK j \in Nat : /\ AtLength(S, q, "args", r, n, c, j) /\ LineFound(S, q, pos, r, n, c, j)
                       /\ LengthFound(q, pos, A[j + 1])
  BY <1>1, LengthFlows
<1> DEFINE text == A[j + 1]
           f == Numeral(Len(text))
           m == Len(f)
           l == Len(text)
           d == c + m + 3
           e == pos + m + 3
<1>3. /\ LineEnds(q, pos) # {} /\ LengthEnd = pos + m + 1
      /\ Slice(q, pos, pos + 1) = <<"$">> /\ Slice(q, pos + 1, pos + m + 1) = f
  BY <1>2 DEF LengthFound, LengthEnd
<1>4. LengthText = f
  BY <1>3 DEF LengthText
<1>5. /\ Number(f) = l /\ IsNumber(f) /\ l \in Nat /\ l <= MaxBulk /\ m \in Nat /\ c + m + 3 <= r
      /\ Held(D, q, pos, r, c)
  BY <1>2 DEF LineFound
<1>6. BulkLength
  <2>1. ~BulkLengthTooLong /\ ~(MultibulkWaits /\ LengthTurn)
    BY <1>1, <1>3 DEF BulkLengthTooLong, MultibulkWaits, LengthTurn, BulkTurn
  <2>2. ~BulkLengthBad
    <3>1. 0 <= Number(f) /\ Number(f) <= MaxBulk
      <4> HIDE DEF f, l
      <4> QED BY <1>5
    <3>2. LengthGood
      BY <1>4, <1>5, <3>1 DEF LengthGood
    <3> QED BY <1>3, <3>2 DEF BulkLengthBad
  <2> QED BY <2>1, <2>2 DEF LengthActions
<1>7. Valid(q) /\ DOMAIN q = Fields /\ Sds(q) /\ pos \in Nat /\ at = "args" /\ ~q.close /\ ~q.error
      /\ Frame(S, executed, r, n, c)
  BY <1>1 DEF QState, Valid, Flows, LengthTurn
<1> HIDE DEF A, text, f, m, l
<1>8. /\ d \in Nat /\ e \in Nat /\ d <= r /\ LengthEnd + 2 = e /\ Number(LengthText) = l
  BY <1>3, <1>4, <1>5, <1>7
<1>9. Held(D, q, e, r, d)
  <2> DEFINE g == m + 3
  <2>1. g \in Nat /\ c + g <= r /\ c + g = d /\ pos + g = e
    BY <1>5, <1>7
  <2> HIDE DEF g, d, e
  <2>2. Held(D, q, pos + g, r, c + g)
    BY <1>5, <1>7, <2>1, HeldLater
  <2> QED BY <2>1, <2>2
<1>10. d = c + Len(Numeral(Len(S[n + 1].args[j + 1]))) + 3
  BY DEF A, text, f, m
<1> DEFINE front == sdsrange(q, e)
           roomy == IF front.len < l + 2 THEN sdsMakeRoomFor(front, l + 2 - front.len) ELSE front
           big == [roomy EXCEPT !.bulklen = l]
           small == [q EXCEPT !.bulklen = l]
<1> HIDE DEF d, e
<1>11. /\ at' = "args" /\ executed' = executed
       /\ l >= REDIS_MBULK_BIG_ARG => q' = big /\ pos' = 0
       /\ ~(l >= REDIS_MBULK_BIG_ARG) => q' = small /\ pos' = e
  BY <1>6, <1>7, <1>8 DEF BulkLength
<1>12. ASSUME NEW z, NEW b, Held(D, z, b, r, d), z.bulklen = l, z.reqtype = q.reqtype,
              z.multibulklen = q.multibulklen, z.argv = q.argv, ~z.close, ~z.error
       PROVE  Follows(S, z, b, "args", executed, r)
  <2>1. /\ Held(StreamOf(S), z, b, r, c + Len(Numeral(Len(S[n + 1].args[j + 1]))) + 3)
        /\ z.bulklen = Len(S[n + 1].args[j + 1])
    BY <1>10, <1>12 DEF l, text, A
  <2> QED BY <1>2, <1>7, <1>12, <2>1, TextNext
<1>13. CASE ~(l >= REDIS_MBULK_BIG_ARG)
  <2>1. /\ small.bulklen = l /\ small.reqtype = q.reqtype /\ small.multibulklen = q.multibulklen
        /\ small.argv = q.argv /\ ~small.close /\ ~small.error /\ small.len = q.len /\ small.buf = q.buf
    BY <1>7 DEF Fields
  <2> HIDE DEF small
  <2>2. Held(D, small, e, r, d)
    BY <1>9, <2>1, HeldSame
  <2>3. Follows(S, small, e, "args", executed, r)
    BY <1>12, <2>1, <2>2
  <2> QED BY <1>11, <1>13, <2>3
<1>14. CASE l >= REDIS_MBULK_BIG_ARG
  <2>1. Held(D, front, 0, r, d) /\ SameParser(front, q) /\ Sds(front)
    BY <1>7, <1>8, <1>9, RangeHolds
  <2> HIDE DEF front
  <2>2. Held(D, roomy, 0, r, d) /\ SameParser(roomy, q)
    <3> DEFINE k == l + 2 - front.len
               w == sdsMakeRoomFor(front, k)
    <3>1. k \in Int /\ DOMAIN front = Fields /\ front.len \in Nat
      BY <1>5, <2>1 DEF Sds, SameParser
    <3> HIDE DEF k
    <3>2. SameParser(w, front) /\ w.len = front.len /\ Shows(w, front, 0, front.len)
      BY <2>1, <3>1, RoomMade
    <3>3. roomy = IF front.len < l + 2 THEN w ELSE front
      BY DEF k
    <3> HIDE DEF w, roomy
    <3>4. Held(D, w, 0, r, d)
      <4>1. front.len = r - d /\ \A i \in 1 .. r - d : front.buf[i] = D[d + i].byte
        <5>1. front.len = 0 + (r - d) /\ \A i \in 1 .. r - d : front.buf[0 + i] = D[d + i].byte
          BY <2>1 DEF Held
        <5> HIDE DEF D
        <5> QED BY <1>8, <5>1
      <4>2. w.len = 0 + (r - d)
        BY <1>8, <3>2, <4>1
      <4>3. \A i \in 1 .. r - d : w.buf[i] = front.buf[0 + i] /\ 0 + i = i
        BY <3>2, <4>1 DEF Shows
      <4> HIDE DEF D
      <4> QED BY <4>1, <4>2, <4>3 DEF Held
    <3>5. SameParser(w, q)
      BY <2>1, <3>2 DEF SameParser
    <3> QED BY <2>1, <3>3, <3>4, <3>5
  <2> HIDE DEF roomy
  <2>3. /\ big.bulklen = l /\ big.reqtype = q.reqtype /\ big.multibulklen = q.multibulklen
        /\ big.argv = q.argv /\ ~big.close /\ ~big.error /\ big.len = roomy.len /\ big.buf = roomy.buf
    BY <1>7, <2>2 DEF Fields, SameParser
  <2> HIDE DEF big
  <2>4. Held(D, big, 0, r, d)
    BY <2>2, <2>3, HeldSame
  <2>5. Follows(S, big, 0, "args", executed, r)
    BY <1>12, <2>3, <2>4
  <2> QED BY <1>11, <1>14, <2>5
<1> QED BY <1>13, <1>14

\* While an argument is awaited, the parser is where it is in the stream.
LEMMA TextFlows ==
  ASSUME QState, NEW S, NEW r \in Nat, NEW n \in Nat, NEW c \in Nat,
         Flows(S, q, pos, at, executed, r, n, c), BulkTurn
  PROVE  \E j \in Nat : AtText(S, q, "args", r, n, c, j)
<1>1. at = "args" /\ q.multibulklen > 0 /\ q.bulklen # -1
  BY DEF BulkTurn
<1>2. Parsing(S, q, "args", r, n, c)
  BY <1>1 DEF Flows
<1>3. PICK j \in 0 .. Len(S[n + 1].args) :
        \/ AtLength(S, q, "args", r, n, c, j)
        \/ AtText(S, q, "args", r, n, c, j)
        \/ AtEnd(S, q, "args", n, c, j)
  BY <1>2 DEF Parsing, AtStart
<1>4. AtText(S, q, "args", r, n, c, j)
  BY <1>1, <1>3 DEF AtLength, AtEnd
<1> QED BY <1>4

\* Where the argument is, and what comes behind it.
TextPlaces(S, r, n, c, j) ==
  LET A == S[n + 1].args
      text == A[j + 1]
      o == StartOf(S, n)
      d == c + Len(text) + 2
  IN  /\ A \in Seq(Seq(Bytes)) /\ Len(A) \in Nat /\ j + 1 \in 1 .. Len(A)
      /\ text \in Seq(Bytes) /\ Len(text) \in Nat /\ o \in Nat
      /\ d = o + BulkStart(A, j + 1)
      /\ j + 1 = Len(A) => d = StartOf(S, n + 1)
      /\ j + 1 < Len(A) /\ d <= r => d < r
      /\ \A i \in 1 .. Len(text) : StreamOf(S)[c + i].byte = text[i]
\* An argument that is wanted is in those places.
LEMMA TextIs ==
  ASSUME NEW S \in Seq(Requests), Streamed(S), \A i \in 1 .. Len(S) : WellFormed(S[i]),
         NEW x, NEW r \in Nat, NEW n \in Nat, NEW c \in Nat, NEW s, NEW a, NEW j \in Nat,
         Frame(S, x, r, n, c), AtText(S, s, a, r, n, c, j)
  PROVE  TextPlaces(S, r, n, c, j)
<1> DEFINE D == StreamOf(S)
           e == CodesOf(S)[n + 1]
           o == StartOf(S, n)
           A == S[n + 1].args
           text == A[j + 1]
           m == Len(Numeral(Len(text)))
           k == BulkStart(A, j)
           l == Len(text)
<1>1. n < Len(S) /\ S[n + 1].kind = "multibulk" /\ j < Len(A) /\ c = o + k + m + 3
  BY DEF AtText, Within
<1>2. n \in 0 .. Len(S) - 1
  <2>1. Len(S) \in Nat
    OBVIOUS
  <2> QED BY <1>1, <2>1
<1>3. /\ HasBulks(e, A) /\ A \in Seq(Seq(Bytes)) /\ Len(e) \in Nat /\ Len(e) = BulkStart(A, Len(A))
      /\ \A i \in 1 .. Len(A) : Written(Len(A[i])) /\ A[i] \in Seq(Bytes)
  BY <1>1, <1>2, MultibulkSent
<1>4. /\ o \in Nat /\ StartOf(S, n + 1) = o + Len(e) /\ o + Len(e) <= Len(D)
      /\ \A i \in 1 .. Len(e) : D[o + i] = e[i]
  BY <1>2 DEF Streamed, Placed
<1> HIDE DEF A, D, e, o
<1>5. Len(A) \in Nat /\ j \in 0 .. Len(A) - 1 /\ j + 1 \in 1 .. Len(A)
  <2>1. Len(A) \in Nat
    BY <1>3
  <2> QED BY <1>1, <2>1
<1>6. ASSUME NEW h \in 0 .. Len(A) - 1
      PROVE  /\ BulkStart(A, h) \in Nat /\ BulkStart(A, h + 1) = BulkStart(A, h) + BulkLen(A[h + 1])
             /\ BulkLen(A[h + 1]) \in Nat /\ BulkStart(A, h + 1) <= Len(e)
             /\ HasBulk(e, BulkStart(A, h), A[h + 1])
             /\ BulkStart(A, h + 1) # Len(e) => ~e[BulkStart(A, h + 1)].cut
             /\ Len(A[h + 1]) \in Nat /\ Len(Numeral(Len(A[h + 1]))) \in Nat
  <2>1. h + 1 \in 1 .. Len(A)
    BY <1>5
  <2> DEFINE t == A[h + 1]
             g == Numeral(Len(t))
  <2>2. t \in Seq(Bytes) /\ g \in Seq(Bytes)
    BY <1>3, <2>1 DEF Written
  <2>3. Len(t) \in Nat /\ Len(g) \in Nat
    <3> HIDE DEF t, g
    <3> QED BY <2>2
  <2> QED BY <1>3, <2>3 DEF HasBulks
<1>7. text \in Seq(Bytes) /\ l \in Nat /\ m \in Nat /\ k \in Nat
  BY <1>3, <1>5, <1>6
<1>8. BulkStart(A, j + 1) = k + (m + l + 5) /\ BulkStart(A, j + 1) <= Len(e)
  BY <1>5, <1>6 DEF BulkLen
<1>9. \A i \in 1 .. l : e[k + m + 3 + i].byte = text[i]
  BY <1>5, <1>6 DEF HasBulk
<1>10. BulkStart(A, j + 1) # Len(e) => ~e[BulkStart(A, j + 1)].cut
  BY <1>5, <1>6
<1> DEFINE b == BulkStart(A, j + 1)
<1>11. j + 1 < Len(A) => b < Len(e)
  <2> SUFFICES ASSUME j + 1 < Len(A) PROVE b < Len(e)
    OBVIOUS
  <2> DEFINE h == j + 1
  <2>1. h \in 0 .. Len(A) - 1
    BY <1>5
  <2>2. /\ BulkStart(A, h) \in Nat /\ BulkStart(A, h + 1) = BulkStart(A, h) + BulkLen(A[h + 1])
        /\ BulkStart(A, h + 1) <= Len(e) /\ Len(A[h + 1]) \in Nat /\ Len(Numeral(Len(A[h + 1]))) \in Nat
    BY <1>6, <2>1
  <2> HIDE DEF h
  <2> DEFINE y == BulkLen(A[h + 1])
  <2>3. y \in Nat /\ y > 0
    <3> DEFINE u == Len(A[h + 1])
               v == Len(Numeral(u))
    <3>1. y = v + u + 5
      BY DEF BulkLen
    <3>2. u \in Nat /\ v \in Nat
      BY <2>2
    <3> HIDE DEF u, v, y
    <3> QED BY <3>1, <3>2
  <2> HIDE DEF y
  <2> DEFINE z == BulkStart(A, h)
  <2>4. z \in Nat /\ z + y <= Len(e)
    BY <2>2 DEF y
  <2>5. b = z
    BY DEF h
  <2> HIDE DEF z, b
  <2> QED BY <1>3, <2>3, <2>4, <2>5
<1>12. j + 1 = Len(A) => b = Len(e)
  BY <1>3
<1> HIDE DEF b, k, m, l, text
<1> DEFINE d == c + l + 2
<1>13. b = k + (m + l + 5) /\ b <= Len(e)
  BY <1>8 DEF b
<1>14. d = o + b
  BY <1>1, <1>4, <1>7, <1>13
<1>15. j + 1 = Len(A) => d = StartOf(S, n + 1)
  BY <1>4, <1>12, <1>14
<1>16. ASSUME j + 1 < Len(A), d <= r PROVE d < r
  <2> SUFFICES ASSUME d = r PROVE FALSE
    <3>1. d \in Nat
      BY <1>7
    <3> HIDE DEF d
    <3> QED BY <1>16, <3>1
  <2>1. c < r /\ b \in Nat /\ b < Len(e) /\ b > 0 /\ r = o + b /\ r \in o + 1 .. o + Len(e) /\ r - o = b
    <3>1. b < Len(e) /\ b \in Nat /\ b > 0
      BY <1>3, <1>7, <1>11, <1>13, <1>16
    <3>2. c < r
      BY <1>7
    <3>3. r = o + b
      BY <1>14
    <3> HIDE DEF d
    <3> QED BY <1>3, <1>4, <3>1, <3>2, <3>3
  <2>2. Reading(S, r, n, c)
    BY <2>1, ReadingIs
  <2>3. r \in o + 1 .. o + Len(e) => e[r - o].cut
    BY <2>2 DEF Reading, o, e
  <2> QED BY <1>10, <2>1, <2>3 DEF b
<1>17. ASSUME NEW i \in 1 .. l PROVE D[c + i].byte = text[i]
  <2> DEFINE h == k + m + 3 + i
  <2>1. h \in 1 .. Len(e) /\ o + h = c + i
    <3>1. h \in 1 .. Len(e)
      BY <1>3, <1>7, <1>13
    <3>2. o + h = c + i
      BY <1>1, <1>4, <1>7
    <3> QED BY <3>1, <3>2
  <2> HIDE DEF h
  <2>2. D[c + i] = e[h]
    BY <1>4, <2>1
  <2> QED BY <1>9, <2>2 DEF h
<1> QED BY <1>3, <1>4, <1>5, <1>7, <1>14, <1>15, <1>16, <1>17
        DEF TextPlaces, A, D, o, text, l, b

\* One argument more has been taken.
LEMMA OneMore ==
  ASSUME NEW S, NEW A \in Seq(S), NEW j \in Nat, j + 1 <= Len(A)
  PROVE  Append(SubSeq(A, 1, j), A[j + 1]) = SubSeq(A, 1, j + 1)
<1> DEFINE y == SubSeq(A, 1, j)
           z == SubSeq(A, 1, j + 1)
           u == Append(y, A[j + 1])
<1>1. Len(A) \in Nat /\ \A i \in 1 .. Len(A) : A[i] \in S
  OBVIOUS
<1>2. y \in Seq(S) /\ Len(y) = j /\ \A i \in 1 .. j : y[i] = A[i]
  <2>1. \A i \in 1 .. j : A[i] \in S
    BY <1>1
  <2>2. /\ y \in Seq(S) /\ Len(y) = IF 1 <= j THEN j - 1 + 1 ELSE 0
        /\ \A i \in 1 .. j - 1 + 1 : y[i] = A[1 + i - 1]
    BY <2>1, SubSeqProperties
  <2> HIDE DEF y
  <2> QED BY <2>2
<1>3. z \in Seq(S) /\ Len(z) = j + 1 /\ \A i \in 1 .. j + 1 : z[i] = A[i]
  <2> DEFINE k == j + 1
  <2>1. k \in Nat /\ \A i \in 1 .. k : A[i] \in S
    BY <1>1
  <2> HIDE DEF k
  <2> DEFINE w == SubSeq(A, 1, k)
  <2>2. /\ w \in Seq(S) /\ Len(w) = IF 1 <= k THEN k - 1 + 1 ELSE 0
        /\ \A i \in 1 .. k - 1 + 1 : w[i] = A[1 + i - 1]
    BY <2>1, SubSeqProperties
  <2> HIDE DEF w
  <2>3. w \in Seq(S) /\ Len(w) = k /\ \A i \in 1 .. k : w[i] = A[i]
    BY <2>1, <2>2
  <2> QED BY <2>3 DEF w, k
<1> HIDE DEF y, z
<1>4. A[j + 1] \in S
  BY <1>1
<1>5. /\ u \in Seq(S) /\ Len(u) = j + 1 /\ u[j + 1] = A[j + 1]
      /\ \A i \in 1 .. j : u[i] = y[i]
  BY <1>2, <1>4, AppendProperties
<1> HIDE DEF u
<1>6. \A i \in 1 .. j + 1 : u[i] = z[i]
  <2> SUFFICES ASSUME NEW i \in 1 .. j + 1 PROVE u[i] = z[i]
    OBVIOUS
  <2>1. CASE i = j + 1
    BY <1>3, <1>5, <2>1
  <2>2. CASE i # j + 1
    <3>1. i \in 1 .. j
      BY <2>2
    <3> QED BY <1>2, <1>3, <1>5, <3>1
  <2> QED BY <2>1, <2>2
<1>7. u = z
  BY <1>3, <1>5, <1>6, SeqEqual
<1> QED BY <1>7 DEF u, y, z

\* An argument has been taken: another one comes next, or the request is whole.
LEMMA TextTaken ==
  ASSUME NEW S \in Seq(Requests), NEW x, NEW r \in Nat, NEW n \in Nat, NEW c \in Nat, NEW s, NEW j \in Nat,
         Frame(S, x, r, n, c), AtText(S, s, "args", r, n, c, j), TextPlaces(S, r, n, c, j),
         NEW d, d = c + Len(S[n + 1].args[j + 1]) + 2, d <= r,
         NEW z, NEW b, Held(StreamOf(S), z, b, r, d),
         z.bulklen = -1, z.reqtype = s.reqtype, z.multibulklen = s.multibulklen - 1,
         z.argv = Append(s.argv, S[n + 1].args[j + 1]), ~z.close, ~z.error
  PROVE  Follows(S, z, b, "args", x, r)
<1> DEFINE A == S[n + 1].args
           l == Len(A[j + 1])
           o == StartOf(S, n)
<1>1. /\ A \in Seq(Seq(Bytes)) /\ Len(A) \in Nat /\ j + 1 \in 1 .. Len(A)
      /\ l \in Nat /\ o \in Nat /\ d = o + BulkStart(A, j + 1)
      /\ j + 1 = Len(A) => d = StartOf(S, n + 1)
      /\ j + 1 < Len(A) /\ d <= r => d < r
  BY DEF TextPlaces
<1>2. /\ n < Len(S) /\ S[n + 1].kind = "multibulk" /\ s.reqtype = "multibulk"
      /\ s.multibulklen = Len(A) - j /\ s.argv = SubSeq(A, 1, j)
  BY DEF AtText, Within
<1>9. d = c + l + 2
  OBVIOUS
<1> HIDE DEF A
<1>3. z.argv = SubSeq(A, 1, j + 1)
  <2>1. z.argv = Append(SubSeq(A, 1, j), A[j + 1])
    BY <1>2 DEF A
  <2> QED BY <1>1, <2>1, OneMore
<1> HIDE DEF l
<1>4. d \in Nat /\ c <= d
  <2>1. l \in Nat
    BY <1>1
  <2> QED BY ONLY <1>9, <2>1, c \in Nat
<1>5. Frame(S, x, r, n, d)
  BY <1>1, <1>4, FrameLater DEF o
<1>6. Within(S, z, n, j + 1)
  <2>1. j + 1 \in 0 .. Len(A) /\ z.multibulklen = Len(A) - (j + 1)
    BY <1>1, <1>2
  <2> QED BY <1>2, <1>3, <2>1 DEF Within, A
<1>7. CASE j + 1 < Len(A)
  <2>1. AtLength(S, z, "args", r, n, d, j + 1)
    BY <1>1, <1>6, <1>7 DEF AtLength, A, o
  <2>2. Parsing(S, z, "args", r, n, d)
    <3>1. j + 1 \in 0 .. Len(S[n + 1].args)
      BY <1>6 DEF Within
    <3> QED BY <1>2, <2>1, <3>1 DEF Parsing
  <2>3. Flows(S, z, b, "args", x, r, n, d)
    BY <1>5, <2>2 DEF Flows
  <2> QED BY <1>4, <2>3 DEF Follows
<1>8. CASE j + 1 = Len(A)
  <2>1. AtEnd(S, z, "args", n, d, j + 1)
    <3>1. j + 1 > 0 /\ d = StartOf(S, n + 1)
      BY <1>1, <1>8
    <3> QED BY <1>6, <1>8, <3>1 DEF AtEnd, A
  <2>2. Parsing(S, z, "args", r, n, d)
    <3>1. j + 1 \in 0 .. Len(S[n + 1].args)
      BY <1>6 DEF Within
    <3> QED BY <1>2, <2>1, <3>1 DEF Parsing
  <2>3. Flows(S, z, b, "args", x, r, n, d)
    BY <1>5, <2>2 DEF Flows
  <2> QED BY <1>4, <2>3 DEF Follows
<1> QED BY <1>1, <1>7, <1>8

\* An argument is taken out of the buffer, or the buffer is.
LEMMA ArgumentSteps ==
  ASSUME QState, NEW S \in Seq(Requests), Streamed(S), \A i \in 1 .. Len(S) : WellFormed(S[i]),
         NEW r \in Nat, NEW n \in Nat, NEW c \in Nat,
         Flows(S, q, pos, at, executed, r, n, c), BulkArgument
  PROVE  Follows(S, q', pos', at', executed', r) /\ at' # "dead"
<1>1. /\ at = "args" /\ at' = "args" /\ executed' = executed /\ BulkTurn /\ Whole
      /\ TakesBuffer => /\ q' = sdsMakeRoomFor(EmptySds(WithArgument(q, Slice(q, 0, q.bulklen))), q.bulklen + 2)
                        /\ pos' = 0
      /\ ~TakesBuffer => /\ q' = WithArgument(q, Slice(q, pos, pos + q.bulklen))
                         /\ pos' = AfterArgument(pos, q.bulklen)
  BY DEF BulkArgument, BulkTurn
<1>2. PICK j \in Nat : AtText(S, q, "args", r, n, c, j)
  BY <1>1, TextFlows
<1> DEFINE D == StreamOf(S)
           text == S[n + 1].args[j + 1]
           l == Len(text)
           d == c + l + 2
<1>3. Frame(S, executed, r, n, c) /\ Held(D, q, pos, r, c) /\ ~q.close /\ ~q.error
  BY <1>1 DEF Flows
<1>4. Valid(q) /\ DOMAIN q = Fields /\ Sds(q) /\ pos \in Nat
  BY DEF QState, Valid
<1>5. TextPlaces(S, r, n, c, j)
  BY <1>2, <1>3, TextIs
<1>6. text \in Seq(Bytes) /\ l \in Nat /\ (\A i \in 1 .. l : D[c + i].byte = text[i])
      /\ j + 1 \in 1 .. Len(S[n + 1].args)
      /\ (j + 1 < Len(S[n + 1].args) /\ d <= r => d < r)
  BY <1>5 DEF TextPlaces
<1>7. q.bulklen = l
  BY <1>2 DEF AtText
<1>8. q.len = pos + (r - c) /\ \A i \in 1 .. r - c : q.buf[pos + i] = D[c + i].byte
  BY <1>3 DEF Held
<1>9. q.len - pos >= q.bulklen + 2
  BY <1>1 DEF Whole
<1> HIDE DEF D, text, l
<1>10. d \in Nat /\ c <= d /\ d <= r /\ c \in Nat /\ r - c >= l + 2
  BY <1>4, <1>6, <1>7, <1>8, <1>9
<1>11. Len(q.buf) \in Nat /\ q.len \in Nat /\ q.len < Len(q.buf)
  BY <1>4 DEF Sds
<1>12. Slice(q, pos, pos + l) = text
  <2> DEFINE b == pos + l
  <2>1. b \in Nat /\ b = pos + Len(text) /\ b <= Len(q.buf)
    BY <1>4, <1>6, <1>8, <1>10, <1>11 DEF l
  <2> HIDE DEF b
  <2>2. \A i \in 1 .. Len(text) : q.buf[pos + i] = text[i]
    <3> SUFFICES ASSUME NEW i \in 1 .. l PROVE q.buf[pos + i] = text[i]
      BY DEF l
    <3>1. i \in 1 .. r - c
      BY <1>6, <1>10
    <3> QED BY <1>6, <1>8, <3>1
  <2>3. Slice(q, pos, b) = text
    BY <1>4, <1>6, <2>1, <2>2, SliceIs
  <2> QED BY <2>3 DEF b
<1> DEFINE w == WithArgument(q, text)
<1>13. /\ DOMAIN w = Fields /\ w.buf = q.buf /\ w.len = q.len /\ w.free = q.free
       /\ w.multibulklen = q.multibulklen - 1 /\ w.bulklen = -1 /\ w.argv = Append(q.argv, text)
       /\ w.close = q.close /\ w.error = q.error /\ w.reqtype = q.reqtype
  BY <1>4 DEF Fields, WithArgument
<1> HIDE DEF w
<1>14. ASSUME NEW z, NEW b, Held(D, z, b, r, d), z.bulklen = -1, z.reqtype = q.reqtype,
              z.multibulklen = q.multibulklen - 1, z.argv = Append(q.argv, text), ~z.close, ~z.error
       PROVE  Follows(S, z, b, "args", executed, r)
  <2>1. z.argv = Append(q.argv, S[n + 1].args[j + 1]) /\ d = c + Len(S[n + 1].args[j + 1]) + 2
    BY <1>14 DEF text, l
  <2>2. Held(StreamOf(S), z, b, r, d)
    BY <1>14 DEF D
  <2>3. j \in Nat
    OBVIOUS
  <2> HIDE DEF d
  <2> QED BY <1>2, <1>3, <1>5, <1>10, <1>14, <2>1, <2>2, <2>3, TextTaken
<1>15. CASE ~TakesBuffer
  <2> DEFINE p == pos + l + 2
  <2>1. q' = w /\ pos' = p
    BY <1>1, <1>7, <1>12, <1>15 DEF AfterArgument, w
  <2>2. Held(D, q, p, r, d)
    <3> DEFINE g == l + 2
    <3>1. g \in Nat /\ c + g <= r /\ c + g = d /\ pos + g = p
      <4>1. l \in Nat /\ pos \in Nat /\ c \in Nat /\ r - c >= l + 2
        BY <1>4, <1>6, <1>10
      <4> QED BY ONLY <4>1, r \in Nat
    <3> HIDE DEF g, d, p
    <3>2. Held(D, q, pos + g, r, c + g)
      BY <1>3, <1>4, <3>1, HeldLater
    <3> QED BY <3>1, <3>2
  <2> HIDE DEF p, d
  <2>3. Held(D, w, p, r, d)
    BY <1>13, <2>2, HeldSame
  <2>4. Follows(S, w, p, "args", executed, r)
    BY <1>3, <1>13, <1>14, <2>3
  <2> QED BY <1>1, <2>1, <2>4
<1>16. CASE TakesBuffer
  <2>1. pos = 0 /\ q.len = l + 2
    BY <1>7, <1>16 DEF TakesBuffer
  <2>2. d = r
    BY <1>6, <1>8, <1>10, <2>1
  <2> DEFINE e == EmptySds(w)
             k == l + 2
             t == sdsMakeRoomFor(e, k)
  <2>3. q' = t /\ pos' = 0
    <3>1. Slice(q, 0, q.bulklen) = text
      <4>1. pos + l = l
        BY <1>6, <2>1
      <4> QED BY <1>7, <1>12, <2>1, <4>1
    <3> QED BY <1>1, <1>7, <1>16, <3>1 DEF w
  <2>4. /\ DOMAIN e = Fields /\ e.buf = <<"NUL">> /\ e.len = 0 /\ e.free = 0
        /\ e.multibulklen = w.multibulklen /\ e.bulklen = w.bulklen /\ e.argv = w.argv
        /\ e.close = w.close /\ e.error = w.error /\ e.reqtype = w.reqtype
    BY <1>13 DEF Fields, EmptySds
  <2> HIDE DEF e
  <2>5. Sds(e)
    <3>1. <<"NUL">> \in Seq(Bytes) /\ Len(<<"NUL">>) = 1 /\ <<"NUL">>[1] = "NUL"
      BY QueryAssumption
    <3>2. e.len + e.free = 0 /\ e.len + 1 = 1 /\ e.len \in Nat /\ e.free \in Nat
      BY <2>4
    <3> QED BY <2>4, <3>1, <3>2 DEF Sds
  <2>6. k \in Int
    BY <1>6
  <2> HIDE DEF k
  <2>7. SameParser(t, e) /\ t.len = e.len
    BY <2>4, <2>5, <2>6, RoomMade
  <2> HIDE DEF t
  <2>8. /\ t.len = 0 /\ t.bulklen = -1 /\ t.reqtype = q.reqtype /\ t.multibulklen = q.multibulklen - 1
        /\ t.argv = Append(q.argv, text) /\ ~t.close /\ ~t.error
    BY <1>3, <1>13, <2>4, <2>7 DEF SameParser
  <2>9. Held(D, t, 0, r, d)
    <3>1. t.len = 0 + (r - d)
      BY <2>2, <2>8
    <3>2. \A i \in 1 .. r - d : FALSE
      BY <2>2
    <3> HIDE DEF d
    <3> QED BY <3>1, <3>2 DEF Held
  <2> HIDE DEF d
  <2>10. Follows(S, t, 0, "args", executed, r)
    BY <1>14, <2>8, <2>9
  <2> QED BY <1>1, <2>3, <2>10
<1> QED BY <1>15, <1>16

\* An argument that is not whole waits at the front.
LEMMA WaitSteps ==
  ASSUME QState, NEW S, NEW r \in Nat, NEW n \in Nat, NEW c \in Nat,
         Flows(S, q, pos, at, executed, r, n, c), MultibulkWaits, BulkTurn
  PROVE  Follows(S, q', pos', at', executed', r) /\ at' # "dead"
<1> DEFINE D == StreamOf(S)
           t == IF pos > 0 THEN sdsrange(q, pos) ELSE q
<1>1. /\ at = "args" /\ ~Whole /\ q' = t /\ at' = "idle" /\ pos' = 0 /\ executed' = executed
  BY DEF MultibulkWaits, BulkTurn, LengthTurn
<1>2. PICK j \in Nat : AtText(S, q, "args", r, n, c, j)
  BY TextFlows
<1>3. Frame(S, executed, r, n, c) /\ Held(D, q, pos, r, c) /\ ~q.close /\ ~q.error
  BY <1>1 DEF Flows
<1>4. Valid(q) /\ DOMAIN q = Fields /\ Sds(q) /\ pos \in Nat
  BY DEF QState, Valid
<1> HIDE DEF D
<1>5. c <= r
  <2>1. c \in StartOf(S, n) .. r
    BY <1>3 DEF Frame
  <2> QED BY <2>1
<1>6. Held(D, t, 0, r, c) /\ SameParser(t, q)
  <2>1. CASE pos > 0
    <3>1. t = sdsrange(q, pos)
      BY <2>1
    <3>2. Held(D, sdsrange(q, pos), 0, r, c) /\ SameParser(sdsrange(q, pos), q)
      BY <1>3, <1>4, <1>5, RangeHolds
    <3> QED BY <3>1, <3>2
  <2>2. CASE ~(pos > 0)
    <3>1. pos = 0 /\ t = q
      BY <1>4, <2>2
    <3> HIDE DEF t
    <3>2. SameParser(q, q)
      BY <1>4 DEF SameParser
    <3> QED BY <1>3, <3>1, <3>2
  <2> QED BY <2>1, <2>2
<1> HIDE DEF t
<1>7. r - c < q.bulklen + 2
  <2>1. ~(q.len - pos >= q.bulklen + 2) /\ q.len = pos + (r - c) /\ q.bulklen \in Int
    BY <1>1, <1>3, <1>4 DEF Whole, Held, Valid, Parser
  <2> QED BY <1>4, <2>1
<1>8. AtText(S, t, "idle", r, n, c, j)
  BY <1>2, <1>6, <1>7 DEF AtText, Within, SameParser
<1>9. Parsing(S, t, "idle", r, n, c)
  <2>1. n < Len(S) /\ j \in 0 .. Len(S[n + 1].args)
    BY <1>2 DEF AtText, Within
  <2> QED BY <1>8, <2>1 DEF Parsing
<1>10. ~t.close /\ ~t.error
  BY <1>3, <1>6 DEF SameParser
<1>11. Flows(S, t, 0, "idle", executed, r, n, c)
  BY <1>3, <1>6, <1>9, <1>10 DEF Flows, D
<1> QED BY <1>1, <1>11 DEF Follows

\* The bytes of a whole request were those between its places.
LEMMA FrameBack ==
  ASSUME NEW S \in Seq(Requests), Streamed(S), NEW x, NEW r \in Nat, NEW n \in Nat,
         n < Len(S), S[n + 1].kind = "multibulk", Frame(S, x, r, n, StartOf(S, n + 1))
  PROVE  /\ Frame(S, x, r, n, StartOf(S, n)) /\ StartOf(S, n) \in Nat /\ StartOf(S, n) < r
         /\ StartOf(S, n) <= StartOf(S, n + 1) /\ StartOf(S, n + 1) <= r
<1> DEFINE D == StreamOf(S)
           e == CodesOf(S)[n + 1]
           o == StartOf(S, n)
           b == StartOf(S, n + 1)
<1>1. n \in 0 .. Len(S) - 1
  <2>1. Len(S) \in Nat
    OBVIOUS
  <2> QED BY <2>1
<1>2. /\ o \in Nat /\ b = o + Len(e) /\ Len(e) \in Nat /\ Len(e) > 0
      /\ \A i \in 1 .. Len(e) : D[o + i] = e[i]
      /\ (\A i \in 1 .. Len(e) : i # Len(e) => e[i].ends = "no")
      /\ e[Len(e)].ends = "multibulk" /\ e[Len(e)].cut
  BY <1>1 DEF Streamed, Placed, CodeOf
<1>3. /\ n \in 0 .. Len(S) /\ b \in o .. r /\ r \in 0 .. Len(D) /\ Ended(D, o) = n
      /\ \A i \in 1 .. r : D[i].ends # "raw"
      /\ \A i \in b + 1 .. r - 1 : D[i].ends # "inline"
      /\ b < r => D[r].cut
      /\ x = AsksFor(S, n) /\ \A i \in DOMAIN x : ~Final(x[i])
  BY DEF Frame
<1> HIDE DEF D, e, o, b
<1>4. b \in Nat /\ b <= r /\ o < b /\ o < r /\ o \in o .. r
  BY <1>2, <1>3
<1>5. ASSUME NEW i \in o + 1 .. b PROVE D[i].ends # "inline" /\ (i = b => D[i].cut)
  <2> DEFINE h == i - o
  <2>1. h \in 1 .. Len(e) /\ o + h = i /\ (i = b <=> h = Len(e))
    BY <1>2
  <2> HIDE DEF h
  <2>2. D[i] = e[h]
    BY <1>2, <2>1
  <2> QED BY <1>2, <2>1, <2>2
<1>6. \A i \in o + 1 .. r - 1 : D[i].ends # "inline"
  <2> SUFFICES ASSUME NEW i \in o + 1 .. r - 1 PROVE D[i].ends # "inline"
    OBVIOUS
  <2>1. CASE i <= b
    <3>1. i \in o + 1 .. b
      BY <1>2, <1>4, <2>1
    <3> QED BY <1>5, <3>1
  <2>2. CASE ~(i <= b)
    <3>1. i \in b + 1 .. r - 1
      BY <1>2, <1>4, <2>2
    <3> QED BY <1>3, <3>1
  <2> QED BY <2>1, <2>2
<1>7. D[r].cut
  <2>1. CASE b < r
    BY <1>3, <2>1
  <2>2. CASE ~(b < r)
    <3>1. r \in o + 1 .. b /\ r = b
      BY <1>2, <1>4, <2>2
    <3> QED BY <1>5, <3>1
  <2> QED BY <2>1, <2>2
<1>8. Frame(S, x, r, n, o)
  BY <1>3, <1>4, <1>6, <1>7 DEF Frame, D, o
<1> QED BY <1>2, <1>4, <1>8 DEF o, b

\* A whole request leaves the buffer and runs.
LEMMA RequestSteps ==
  ASSUME QState, NEW S \in Seq(Requests), Streamed(S), \A i \in 1 .. Len(S) : WellFormed(S[i]),
         NEW r \in Nat, NEW n \in Nat, NEW c \in Nat,
         Flows(S, q, pos, at, executed, r, n, c), MultibulkRequest
  PROVE  Follows(S, q', pos', at', executed', r) /\ (at' = "dead" => Undecoded(executed'))
<1> DEFINE D == StreamOf(S)
           A == S[n + 1].args
           b == StartOf(S, n + 1)
           t == IF pos > 0 THEN sdsrange(q, pos) ELSE q
<1>1. /\ at = "args" /\ q.multibulklen = 0 /\ q' = Run(t) /\ at' = AfterRun(q.argv) /\ pos' = 0
      /\ executed' = Append(executed, q.argv)
  BY DEF MultibulkRequest
<1>2. /\ Frame(S, executed, r, n, c) /\ Held(D, q, pos, r, c) /\ ~q.close /\ ~q.error
      /\ Parsing(S, q, "args", r, n, c)
  BY <1>1 DEF Flows
<1>3. Valid(q) /\ DOMAIN q = Fields /\ Sds(q) /\ pos \in Nat
  BY DEF QState, Valid
<1>4. PICK j \in 0 .. Len(A) :
        \/ AtLength(S, q, "args", r, n, c, j)
        \/ AtText(S, q, "args", r, n, c, j)
        \/ AtEnd(S, q, "args", n, c, j)
  BY <1>2 DEF Parsing, AtStart
<1>5. AtEnd(S, q, "args", n, c, j)
  <2> SUFFICES ASSUME j < Len(A), Within(S, q, n, j) PROVE FALSE
    BY <1>4 DEF AtLength, AtText
  <2>1. q.multibulklen = Len(A) - j /\ n < Len(S) /\ S[n + 1].kind = "multibulk"
    BY DEF Within
  <2>2. n \in 0 .. Len(S) - 1
    <3>1. Len(S) \in Nat
      OBVIOUS
    <3> QED BY <2>1, <3>1
  <2>3. A \in Seq(Seq(Bytes))
    BY <2>1, <2>2, MultibulkSent
  <2> HIDE DEF A
  <2>4. Len(A) \in Nat
    BY <2>3
  <2> QED BY <1>1, <2>1, <2>4
<1>6. /\ n < Len(S) /\ S[n + 1].kind = "multibulk" /\ q.argv = SubSeq(A, 1, j)
      /\ j = Len(A) /\ j > 0 /\ c = b
  BY <1>5 DEF AtEnd, Within
<1>7. A \in Seq(Seq(Bytes)) /\ A # <<>> /\ q.argv = A
  <2>1. n \in 0 .. Len(S) - 1
    <3>1. Len(S) \in Nat
      OBVIOUS
    <3> QED BY <1>6, <3>1
  <2>2. A \in Seq(Seq(Bytes))
    BY <1>6, <2>1, MultibulkSent
  <2> HIDE DEF A
  <2>3. A # <<>>
    <3>1. Len(<<>>) = 0 /\ Len(A) > 0
      BY <1>6
    <3> QED BY <3>1
  <2>4. SubSeq(A, 1, Len(A)) = A
    <3> DEFINE z == 0
    <3>1. z \in Nat /\ z + Len(A) <= Len(A) /\ \A i \in 1 .. Len(A) : A[z + i] = A[i]
      BY <2>2
    <3> HIDE DEF z
    <3>2. SubSeq(A, z + 1, z + Len(A)) = A
      BY <2>2, <3>1, PartIs
    <3>3. z + 1 = 1 /\ z + Len(A) = Len(A)
      BY <2>2 DEF z
    <3> QED BY <3>2, <3>3
  <2> QED BY <1>6, <2>2, <2>3, <2>4
<1> HIDE DEF D, A
<1>8. /\ Frame(S, executed, r, n, StartOf(S, n)) /\ StartOf(S, n) \in Nat /\ StartOf(S, n) < r
      /\ StartOf(S, n) <= StartOf(S, n + 1) /\ StartOf(S, n + 1) <= r
  BY <1>2, <1>6, FrameBack
<1>9. Reading(S, r, n, StartOf(S, n))
  BY <1>8, ReadingIs
<1>10. b \in Nat /\ b <= r
  BY <1>6, <1>8
<1>11. Held(D, t, 0, r, b) /\ SameParser(t, q)
  <2>1. CASE pos > 0
    <3>1. t = sdsrange(q, pos)
      BY <2>1
    <3>2. Held(D, sdsrange(q, pos), 0, r, b) /\ SameParser(sdsrange(q, pos), q)
      BY <1>2, <1>3, <1>6, <1>10, RangeHolds
    <3> QED BY <3>1, <3>2
  <2>2. CASE ~(pos > 0)
    <3>1. pos = 0 /\ t = q
      BY <1>3, <2>2
    <3> HIDE DEF t
    <3>2. SameParser(q, q)
      BY <1>3 DEF SameParser
    <3> QED BY <1>2, <1>6, <3>1, <3>2
  <2> QED BY <2>1, <2>2
<1> HIDE DEF t
<1>12. DOMAIN t = Fields /\ ~t.close /\ ~t.error /\ t.argv = S[n + 1].args /\ S[n + 1].args # <<>>
  BY <1>2, <1>7, <1>11 DEF SameParser, A
<1>13. Held(StreamOf(S), t, 0, r, StartOf(S, n + 1))
  BY <1>11 DEF D
<1>14. /\ Follows(S, Run(t), 0, AfterRun(t.argv), Append(executed, t.argv), r)
       /\ AfterRun(t.argv) = "dead" => Undecoded(Append(executed, t.argv))
  BY <1>8, <1>9, <1>12, <1>13, RequestRuns
<1>15. t.argv = q.argv
  BY <1>7, <1>12 DEF A
<1> QED BY <1>1, <1>14, <1>15

\* After the last request that counts the parser does nothing more.
LEMMA GoneSteps ==
  ASSUME QState, NEW S, NEW r \in Nat, NEW n \in Nat, Gone(S, q, at, executed, r, n), Processing
  PROVE  StopProcessing
<1>1. (q.close \/ at = "dead") /\ at # "args"
  BY DEF Gone
<1> QED BY <1>1 DEF Processing, Turn, InlineWaits, InlineAsserts, InlineEmpty, InlineRequest, InlineTurn,
           MultibulkCount, MultibulkResumed, MultibulkTurn, BulkLengthTooLong, BulkLengthBad, BulkLength,
           LengthTurn, BulkArgument, BulkTurn, MultibulkWaits, MultibulkRequest

\* Whatever the handler does, the parser keeps its place in the stream.
LEMMA ProcessingFollows ==
  ASSUME QState, NEW S \in Seq(Requests), Streamed(S), \A i \in 1 .. Len(S) : WellFormed(S[i]),
         NEW r \in Nat, Follows(S, q, pos, at, executed, r), Processing
  PROVE  Follows(S, q', pos', at', executed', r) /\ (at' = "dead" => Undecoded(executed'))
<1>1. q.len \in Nat
  BY DEF QState, Valid, Sds
<1>2. CASE StopProcessing
  BY <1>1, <1>2, StopSteps
<1>3. CASE ~StopProcessing
  <2>1. \E n, c \in Nat : Flows(S, q, pos, at, executed, r, n, c)
    BY <1>3, GoneSteps DEF Follows
  <2>2. PICK n \in Nat, c \in Nat : Flows(S, q, pos, at, executed, r, n, c)
    BY <2>1
  <2>3. CASE InlineWaits \/ InlineAsserts \/ InlineEmpty \/ InlineRequest
    BY <2>2, <2>3, InlineSteps
  <2>4. CASE MultibulkCount
    BY <2>2, <2>4, CountSteps
  <2>5. CASE MultibulkResumed
    BY <2>2, <2>5, ResumedSteps
  <2>6. CASE LengthActions
    BY <2>2, <2>6, LengthSteps
  <2>7. CASE BulkArgument
    BY <2>2, <2>7, ArgumentSteps
  <2>8. CASE MultibulkWaits /\ BulkTurn
    BY <2>2, <2>8, WaitSteps
  <2>9. CASE MultibulkRequest
    BY <2>2, <2>9, RequestSteps
  <2>10. MultibulkWaits => LengthTurn \/ BulkTurn
    BY DEF MultibulkWaits
  <2> QED BY <1>3, <2>3, <2>4, <2>5, <2>6, <2>7, <2>8, <2>9, <2>10 DEF Processing, LengthActions
<1> QED BY <1>2, <1>3

-----------------------------------------------------------------------------
\* A read.

\* A read in order: the bytes it puts behind those in the buffer.
ReadIn(S, s, t, r, k) ==
  LET D == StreamOf(S)
  IN  /\ r + k <= Len(D) /\ SameParser(t, s) /\ t.len = s.len + k /\ Shows(t, s, 0, s.len)
      /\ \A i \in 1 .. k : t.buf[s.len + i] = D[r + i].byte
      /\ D[r + k].cut /\ \A i \in 1 .. k - 1 : D[r + i].ends \notin {"inline", "raw"}
\* Where the parser waits within a request, the stream has not come to its end.
LEMMA BeforeEnd ==
  ASSUME NEW S \in Seq(Requests), Streamed(S), \A i \in 1 .. Len(S) : WellFormed(S[i]),
         NEW x, NEW r \in Nat, NEW n \in Nat, NEW c \in Nat, NEW s,
         Frame(S, x, r, n, c), Parsing(S, s, "idle", r, n, c)
  PROVE  \/ c = StartOf(S, n) /\ c = r
         \/ /\ n \in 0 .. Len(S) - 1 /\ S[n + 1].kind = "multibulk"
            /\ r \in StartOf(S, n) .. StartOf(S, n + 1) - 1
<1> DEFINE e == CodesOf(S)[n + 1]
           o == StartOf(S, n)
           A == S[n + 1].args
<1>1. CASE AtStart(S, s, "idle", r, n, c)
  BY <1>1 DEF AtStart
<1>2. CASE ~AtStart(S, s, "idle", r, n, c)
  <2>1. PICK j \in 0 .. Len(A) : AtText(S, s, "idle", r, n, c, j)
    BY <1>2 DEF Parsing, AtLength, AtEnd
  <2>2. n < Len(S) /\ S[n + 1].kind = "multibulk" /\ r - c < Len(A[j + 1]) + 2
    BY <2>1 DEF AtText, Within
  <2>3. j \in Nat
    OBVIOUS
  <2>4. TextPlaces(S, r, n, c, j)
    BY <2>1, <2>3, TextIs
  <2>5. /\ A \in Seq(Seq(Bytes)) /\ j + 1 \in 1 .. Len(A) /\ Len(A[j + 1]) \in Nat /\ o \in Nat
        /\ c + Len(A[j + 1]) + 2 = o + BulkStart(A, j + 1) /\ Len(A) \in Nat
    BY <2>4 DEF TextPlaces
  <2>6. n \in 0 .. Len(S) - 1
    <3>1. Len(S) \in Nat
      OBVIOUS
    <3> QED BY <2>2, <3>1
  <2>7. StartOf(S, n + 1) = o + Len(e) /\ Len(e) \in Nat
    BY <2>6 DEF Streamed, Placed, CodeOf
  <2>8. HasBulks(e, A)
    BY <2>2, <2>6, MultibulkSent
  <2>9. c \in o .. r
    BY DEF Frame
  <2> HIDE DEF e, o, A
  <2> DEFINE l == Len(A[j + 1])
             b == BulkStart(A, j + 1)
  <2>10. b <= Len(e) /\ b \in Int
    <3>1. j \in 0 .. Len(A) - 1
      BY <2>5
    <3>2. /\ BulkStart(A, j) \in Nat /\ BulkLen(A[j + 1]) \in Nat
          /\ BulkStart(A, j + 1) = BulkStart(A, j) + BulkLen(A[j + 1]) /\ BulkStart(A, j + 1) <= Len(e)
      BY <2>8, <3>1 DEF HasBulks
    <3> DEFINE y == BulkStart(A, j)
               z == BulkLen(A[j + 1])
    <3>3. y \in Nat /\ z \in Nat /\ b = y + z /\ b <= Len(e)
      BY <3>2
    <3> HIDE DEF y, z, b
    <3> QED BY <3>3
  <2>11. l \in Nat /\ c + l + 2 = o + b /\ r - c < l + 2 /\ o \in Nat
    BY <2>2, <2>5
  <2> HIDE DEF l, b
  <2>12. r \in o .. o + Len(e) - 1
    BY <2>7, <2>9, <2>10, <2>11
  <2>13. r \in o .. StartOf(S, n + 1) - 1
    <3> DEFINE z == StartOf(S, n + 1)
    <3>1. z = o + Len(e)
      BY <2>7
    <3> HIDE DEF z
    <3>2. r \in o .. z - 1
      BY ONLY <2>7, <2>11, <2>12, <3>1
    <3> QED BY <3>2 DEF z
  <2> QED BY <2>2, <2>6, <2>13 DEF o
<1> QED BY <1>1, <1>2

\* So the last byte of what has been read ends nothing.
LEMMA LastByte ==
  ASSUME NEW S \in Seq(Requests), Streamed(S), \A i \in 1 .. Len(S) : WellFormed(S[i]),
         NEW x, NEW r \in Nat, NEW n \in Nat, NEW c \in Nat, NEW s,
         Frame(S, x, r, n, c), Parsing(S, s, "idle", r, n, c), c < r
  PROVE  StreamOf(S)[r].ends = "no"
<1> DEFINE D == StreamOf(S)
           e == CodesOf(S)[n + 1]
           o == StartOf(S, n)
           h == r - o
<1>1. n \in 0 .. Len(S) - 1 /\ S[n + 1].kind = "multibulk" /\ r \in o .. StartOf(S, n + 1) - 1
  BY BeforeEnd
<1>2. /\ o \in Nat /\ StartOf(S, n + 1) = o + Len(e) /\ Len(e) \in Nat
      /\ \A i \in 1 .. Len(e) : D[o + i] = e[i]
      /\ \A i \in 1 .. Len(e) : i # Len(e) => e[i].ends = "no"
  BY <1>1 DEF Streamed, Placed, CodeOf
<1>3. c \in o .. r
  BY DEF Frame
<1> HIDE DEF D, e, o
<1>4. r \in o .. o + Len(e) - 1
  BY <1>1, <1>2
<1>5. h \in 1 .. Len(e) /\ h # Len(e) /\ o + h = r
  BY <1>2, <1>3, <1>4
<1> HIDE DEF h
<1>6. D[r] = e[h]
  BY <1>2, <1>5
<1> QED BY <1>2, <1>5, <1>6 DEF D

\* A read in order leaves the parser where it is in the stream.
LEMMA ReadFollows ==
  ASSUME NEW S \in Seq(Requests), Streamed(S), \A i \in 1 .. Len(S) : WellFormed(S[i]),
         NEW x, NEW r \in Nat, NEW s, NEW t, NEW k \in Nat, k > 0, NEW p,
         Follows(S, s, p, "idle", x, r), r <= Len(StreamOf(S)), ReadIn(S, s, t, r, k),
         NEW a \in {"turn", "dead"}
  PROVE  Follows(S, t, p, a, x, r + k)
<1> DEFINE D == StreamOf(S)
           g == r + k
<1>1. /\ g <= Len(D) /\ SameParser(t, s) /\ t.len = s.len + k /\ Shows(t, s, 0, s.len)
      /\ (\A i \in 1 .. k : t.buf[s.len + i] = D[r + i].byte)
      /\ D[g].cut /\ \A i \in 1 .. k - 1 : D[r + i].ends \notin {"inline", "raw"}
  BY DEF ReadIn
<1>2. D \in Seq(Marked) /\ Len(D) \in Nat /\ \A i \in 1 .. Len(D) : D[i].ends = "raw" => ~D[i].cut
  BY DEF Streamed
<1>3. g \in Nat /\ r < g
  OBVIOUS
<1> HIDE DEF D
<1>4. \A i \in r + 1 .. g - 1 : D[i].ends \notin {"inline", "raw"}
  <2> SUFFICES ASSUME NEW i \in r + 1 .. g - 1 PROVE D[i].ends \notin {"inline", "raw"}
    OBVIOUS
  <2> DEFINE h == i - r
  <2>1. h \in 1 .. k - 1 /\ r + h = i
    OBVIOUS
  <2> HIDE DEF h
  <2> QED BY <1>1, <2>1
<1>5. D[g].ends # "raw"
  <2>1. g \in 1 .. Len(D)
    BY <1>1, <1>3
  <2> HIDE DEF g
  <2> QED BY <1>1, <1>2, <2>1
<1> HIDE DEF g
<1>6. CASE \E n, c \in Nat : Flows(S, s, p, "idle", x, r, n, c)
  <2>1. PICK n \in Nat, c \in Nat : Flows(S, s, p, "idle", x, r, n, c)
    BY <1>6
  <2>2. /\ Frame(S, x, r, n, c) /\ Held(D, s, 0, r, c) /\ Parsing(S, s, "idle", r, n, c)
        /\ ~s.close /\ ~s.error
    BY <2>1 DEF Flows, D
  <2>3. /\ n \in 0 .. Len(S) /\ c \in StartOf(S, n) .. r /\ r \in 0 .. Len(D) /\ Ended(D, StartOf(S, n)) = n
        /\ (\A i \in 1 .. r : D[i].ends # "raw")
        /\ (\A i \in c + 1 .. r - 1 : D[i].ends # "inline")
        /\ x = AsksFor(S, n) /\ \A i \in DOMAIN x : ~Final(x[i])
    BY <2>2 DEF Frame, D
  <2>4. StartOf(S, n) \in Nat
    BY <2>3 DEF Streamed
  <2> DEFINE o == StartOf(S, n)
  <2> HIDE DEF o
  <2>5. o \in Nat /\ o <= c /\ c <= r
    <3>1. c \in o .. r
      BY <2>3 DEF o
    <3> QED BY <2>4, <3>1 DEF o
  <2>6. c < r => D[r].ends # "inline"
    BY <2>2, LastByte DEF D
  <2>7. \A i \in 1 .. g : D[i].ends # "raw"
    <3> SUFFICES ASSUME NEW i \in 1 .. g PROVE D[i].ends # "raw"
      OBVIOUS
    <3>1. CASE i <= r
      <4>1. i \in 1 .. r
        BY <1>3, <3>1
      <4> QED BY <2>3, <4>1
    <3>2. CASE i = g
      BY <1>5, <3>2
    <3>3. CASE ~(i <= r) /\ i # g
      <4>1. i \in r + 1 .. g - 1
        BY <1>3, <3>3
      <4> QED BY <1>4, <4>1
    <3> QED BY <3>1, <3>2, <3>3
  <2>8. \A i \in c + 1 .. g - 1 : D[i].ends # "inline"
    <3> SUFFICES ASSUME NEW i \in c + 1 .. g - 1 PROVE D[i].ends # "inline"
      OBVIOUS
    <3>1. CASE i < r
      <4>1. i \in c + 1 .. r - 1
        BY <1>3, <3>1
      <4> QED BY <2>3, <4>1
    <3>2. CASE i = r
      <4>1. c < r
        BY <1>3, <3>2
      <4> QED BY <2>6, <3>2, <4>1
    <3>3. CASE i > r
      <4>1. i \in r + 1 .. g - 1
        BY <1>3, <3>3
      <4> QED BY <1>4, <4>1
    <3> QED BY <1>3, <3>1, <3>2, <3>3
  <2>9. Frame(S, x, g, n, c)
    <3>1. c \in o .. g /\ g \in 0 .. Len(D)
      BY <1>1, <1>3, <2>5
    <3> QED BY <1>1, <2>3, <2>7, <2>8, <3>1 DEF Frame, D, o
  <2>10. Held(D, t, 0, g, c)
    <3>1. s.len = r - c /\ \A i \in 1 .. r - c : s.buf[i] = D[c + i].byte
      <4>1. s.len = 0 + (r - c) /\ \A i \in 1 .. r - c : s.buf[0 + i] = D[c + i].byte
        BY <2>2 DEF Held
      <4> QED BY <4>1
    <3>2. t.len = 0 + (g - c)
      BY <1>1, <3>1 DEF g
    <3>3. ASSUME NEW i \in 1 .. g - c PROVE t.buf[0 + i] = D[c + i].byte
      <4>1. 0 + i = i
        OBVIOUS
      <4>2. CASE i <= r - c
        <5>1. i \in 1 .. r - c /\ i \in 1 .. s.len
          BY <3>1, <4>2
        <5>2. t.buf[i] = s.buf[0 + i]
          BY <1>1, <5>1 DEF Shows
        <5> QED BY <3>1, <4>1, <5>1, <5>2
      <4>3. CASE ~(i <= r - c)
        <5> DEFINE h == i - (r - c)
        <5>1. h \in 1 .. k /\ (r - c) + h = i /\ r + h = c + i
          BY <4>3 DEF g
        <5> HIDE DEF h
        <5>2. t.buf[s.len + h] = D[r + h].byte
          BY <1>1, <5>1
        <5> QED BY <3>1, <4>1, <5>1, <5>2
      <4> QED BY <4>2, <4>3
    <3> QED BY <3>2, <3>3 DEF Held
  <2>11. Parsing(S, t, a, g, n, c)
    <3>1. CASE AtStart(S, s, "idle", r, n, c)
      <4>1. AtStart(S, t, a, g, n, c)
        BY <1>1, <3>1 DEF AtStart, SameParser
      <4> QED BY <4>1 DEF Parsing
    <3>2. CASE n < Len(S) /\ \E j \in 0 .. Len(S[n + 1].args) : AtText(S, s, "idle", r, n, c, j)
      <4>1. PICK j \in 0 .. Len(S[n + 1].args) : AtText(S, s, "idle", r, n, c, j)
        BY <3>2
      <4>2. AtText(S, t, a, g, n, c, j)
        BY <1>1, <4>1 DEF AtText, Within, SameParser
      <4> QED BY <3>2, <4>2 DEF Parsing
    <3> QED BY <2>2, <3>1, <3>2 DEF Parsing, AtLength, AtEnd
  <2>12. Flows(S, t, p, a, x, g, n, c)
    <3>1. ~t.close /\ ~t.error /\ a # "args"
      BY <1>1, <2>2 DEF SameParser
    <3> QED BY <2>9, <2>10, <2>11, <3>1 DEF Flows, D
  <2> QED BY <2>12 DEF Follows, g
<1>7. CASE \E n \in Nat : Gone(S, s, "idle", x, r, n)
  <2>1. PICK n \in Nat : Gone(S, s, "idle", x, r, n)
    BY <1>7
  <2>2. n <= Ended(D, r) /\ Ended(D, r) <= Ended(D, g) /\ Ended(D, r) \in Nat /\ Ended(D, g) \in Nat
    <3>1. n <= Ended(D, r)
      BY <2>1 DEF Gone, D
    <3>2. r + k <= Len(D)
      BY <1>1 DEF g
    <3>3. /\ Ended(D, r) \in Nat /\ Ends(SubSeq(D, r + 1, r + k)) \in Nat
          /\ Ended(D, r + k) = Ended(D, r) + Ends(SubSeq(D, r + 1, r + k))
      BY <1>2, <3>2, EndedMore
    <3> DEFINE z == Ends(SubSeq(D, r + 1, r + k))
               y == Ended(D, r)
    <3>4. y \in Nat /\ z \in Nat /\ Ended(D, g) = y + z
      BY <3>3 DEF g
    <3> HIDE DEF z, y
    <3>5. y <= Ended(D, g) /\ Ended(D, g) \in Nat
      BY <3>4
    <3> QED BY <3>1, <3>4, <3>5 DEF y
  <2>3. n <= Ended(D, g)
    <3> DEFINE y == Ended(D, r)
               z == Ended(D, g)
    <3>1. n <= y /\ y <= z /\ y \in Nat /\ z \in Nat
      BY <2>2
    <3> HIDE DEF y, z
    <3>2. n <= z
      BY <3>1
    <3> QED BY <3>2 DEF z
  <2>4. Gone(S, t, a, x, g, n)
    BY <1>1, <2>1, <2>3 DEF Gone, SameParser, D
  <2> QED BY <2>4 DEF Follows, g
<1> QED BY <1>6, <1>7 DEF Follows

\* Nor does a read that gets nothing.
LEMMA NoReadFollows ==
  ASSUME NEW S, NEW x, NEW r \in Nat, NEW s, NEW t, NEW p, NEW a \in {"idle", "reset"},
         Follows(S, s, p, "idle", x, r), s.len \in Nat,
         SameParser(t, s), t.len = s.len, Shows(t, s, 0, s.len)
  PROVE  Follows(S, t, p, a, x, r)
<1> DEFINE D == StreamOf(S)
<1>1. CASE \E n, c \in Nat : Flows(S, s, p, "idle", x, r, n, c)
  <2>1. PICK n \in Nat, c \in Nat : Flows(S, s, p, "idle", x, r, n, c)
    BY <1>1
  <2>2. /\ Frame(S, x, r, n, c) /\ Held(D, s, 0, r, c) /\ Parsing(S, s, "idle", r, n, c)
        /\ ~s.close /\ ~s.error
    BY <2>1 DEF Flows, D
  <2> HIDE DEF D
  <2>3. Held(D, t, 0, r, c)
    <3>1. s.len = 0 + (r - c) /\ \A i \in 1 .. r - c : s.buf[0 + i] = D[c + i].byte
      BY <2>2 DEF Held
    <3>2. \A i \in 1 .. r - c : i \in 1 .. s.len /\ 0 + i = i
      BY <3>1
    <3> QED BY <3>1, <3>2 DEF Held, Shows
  <2>4. Parsing(S, t, a, r, n, c)
    <3>1. CASE AtStart(S, s, "idle", r, n, c)
      <4>1. AtStart(S, t, a, r, n, c)
        BY <3>1 DEF AtStart, SameParser
      <4> QED BY <4>1 DEF Parsing
    <3>2. CASE n < Len(S) /\ \E j \in 0 .. Len(S[n + 1].args) : AtText(S, s, "idle", r, n, c, j)
      <4>1. PICK j \in 0 .. Len(S[n + 1].args) : AtText(S, s, "idle", r, n, c, j)
        BY <3>2
      <4>2. AtText(S, t, a, r, n, c, j)
        BY <4>1 DEF AtText, Within, SameParser
      <4> QED BY <3>2, <4>2 DEF Parsing
    <3> QED BY <2>2, <3>1, <3>2 DEF Parsing, AtLength, AtEnd
  <2>5. Flows(S, t, p, a, x, r, n, c)
    BY <2>2, <2>3, <2>4 DEF Flows, SameParser, D
  <2> QED BY <2>5 DEF Follows
<1>2. CASE \E n \in Nat : Gone(S, s, "idle", x, r, n)
  <2>1. PICK n \in Nat : Gone(S, s, "idle", x, r, n)
    BY <1>2
  <2>2. Gone(S, t, a, x, r, n)
    BY <2>1 DEF Gone, SameParser
  <2> QED BY <2>2 DEF Follows
<1> QED BY <1>1, <1>2 DEF Follows

-----------------------------------------------------------------------------
\* Every step keeps the invariant.

\* What clients send is a stream of requests.
LEMMA SentIs ==
  ASSUME sent \in Streams
  PROVE  /\ sent \in Seq(Requests) /\ (\A i \in 1 .. Len(sent) : WellFormed(sent[i]))
         /\ Streamed(sent) /\ StreamOf(sent) \in Seq(Marked) /\ Len(StreamOf(sent)) \in Nat
<1>1. sent \in Seq(Requests) /\ \A i \in DOMAIN sent : WellFormed(sent[i])
  BY QueryAssumption
<1>2. \A i \in 1 .. Len(sent) : WellFormed(sent[i])
  <2>1. DOMAIN sent = 1 .. Len(sent)
    BY <1>1
  <2> QED BY <1>1, <2>1
<1>3. Streamed(sent)
  BY <1>1, <1>2, StreamIs
<1>4. StreamOf(sent) \in Seq(Marked) /\ Len(StreamOf(sent)) \in Nat
  BY <1>3 DEF Streamed
<1> QED BY <1>1, <1>2, <1>3, <1>4

\* At the start the parser is in front of the stream.
LEMMA FlowInit == Init => QSocket /\ QFlow
<1> SUFFICES ASSUME Init PROVE QSocket /\ QFlow
  OBVIOUS
<1> DEFINE D == StreamOf(sent)
<1>1. /\ sent \in Streams /\ q = Client /\ pos = 0 /\ at = "idle" /\ arrived = 0 /\ orderly = TRUE
      /\ executed = <<>> /\ socket = FlattenSeq([i \in DOMAIN sent |-> Encode(sent[i])])
  BY DEF Init
<1>2. socket = D
  BY <1>1 DEF StreamOf, CodesOf
<1>3. sent \in Seq(Requests) /\ Streamed(sent) /\ D \in Seq(Marked) /\ Len(D) \in Nat /\ Len(sent) \in Nat
  BY <1>1, SentIs DEF Streamed
<1>4. StartOf(sent, 0) = 0
  BY <1>3 DEF Streamed
<1> HIDE DEF D
<1>5. Taken = 0
  BY <1>2, <1>3 DEF Taken, D
<1>6. Ended(D, 0) = 0
  <2> DEFINE z == 0
  <2>1. z \in Nat /\ z + z <= Len(D) /\ \A i \in z + 1 .. z + z : FALSE
    BY <1>3
  <2> HIDE DEF z
  <2> QED BY <1>3, <2>1, EndedSame
<1>7. QSocket
  <2>1. 0 \in 0 .. Len(D) /\ \A i \in 1 .. Len(D) : 0 + i = i
    BY <1>3
  <2> QED BY <1>1, <1>2, <1>5, <1>6, <2>1 DEF QSocket, D
<1>8. Frame(sent, <<>>, 0, 0, 0)
  <2>1. AsksFor(sent, 0) = <<>>
    BY <1>3, AsksIs
  <2>2. 0 \in 0 .. Len(sent) /\ 0 \in 0 .. 0 /\ 0 \in 0 .. Len(D) /\ (\A i \in 1 .. 0 : FALSE)
        /\ (\A i \in 0 + 1 .. 0 - 1 : FALSE) /\ ~(0 < 0) /\ DOMAIN <<>> = {}
    BY <1>3
  <2> QED BY <1>4, <1>6, <2>1, <2>2 DEF Frame, D
<1> DEFINE s == Client
<1>9. /\ s.len = 0 /\ s.reqtype = "none" /\ s.multibulklen = 0 /\ s.bulklen = -1 /\ s.argv = <<>>
      /\ ~s.close /\ ~s.error
  BY DEF Client
<1> HIDE DEF s
<1>10. Held(D, s, 0, 0, 0)
  <2>1. s.len = 0 + (0 - 0) /\ \A i \in 1 .. 0 - 0 : FALSE
    BY <1>9
  <2> QED BY <2>1 DEF Held
<1>11. AtStart(sent, s, "idle", 0, 0, 0)
  BY <1>4, <1>9 DEF AtStart
<1>12. Flows(sent, s, 0, "idle", <<>>, 0, 0, 0)
  BY <1>8, <1>9, <1>10, <1>11 DEF Flows, Parsing, D
<1>13. QFlow
  <2>1. 0 \in Nat
    OBVIOUS
  <2> QED BY <1>1, <1>5, <1>12, <2>1 DEF QFlow, Follows, s
<1> QED BY <1>7, <1>13

\* A step of the handler other than a read leaves the stream alone.
LEMMA FlowProcessing ==
  ASSUME QInv, QSocket, QFlow, Processing
  PROVE  QSocket' /\ QFlow'
<1>1. sent' = sent /\ socket' = socket /\ arrived' = arrived /\ orderly' = orderly
  BY DEF Processing, StopProcessing, InlineWaits, InlineAsserts, InlineEmpty, InlineRequest,
     MultibulkCount, MultibulkResumed, BulkLengthTooLong, BulkLengthBad, BulkLength, BulkArgument,
     MultibulkWaits, MultibulkRequest, ghosts
<1>2. Taken' = Taken
  BY <1>1 DEF Taken
<1>3. QSocket'
  BY <1>1, <1>2 DEF QSocket
<1>4. QFlow'
  <2> SUFFICES ASSUME orderly
               PROVE  /\ Follows(sent, q', pos', at', executed', Taken)
                      /\ at' = "dead" => Undecoded(executed')
    BY <1>1, <1>2 DEF QFlow, Undecoded
  <2>1. Follows(sent, q, pos, at, executed, Taken)
    BY DEF QFlow
  <2>2. sent \in Streams /\ Taken \in Nat
    BY DEF QSocket
  <2>3. QState
    BY DEF QInv
  <2>4. sent \in Seq(Requests) /\ Streamed(sent) /\ \A i \in 1 .. Len(sent) : WellFormed(sent[i])
    BY <2>2, SentIs
  <2> QED BY <2>1, <2>2, <2>3, <2>4, ProcessingFollows
<1> QED BY <1>3, <1>4

\* A read that gets nothing leaves it alone as well.
LEMMA FlowNoRead ==
  ASSUME QInv, QSocket, QFlow, readQueryEnd \/ readQueryFails
  PROVE  QSocket' /\ QFlow'
<1> DEFINE n == ReadLen(q)
           t == sdsMakeRoomFor(q, n)
<1>1. /\ q' = t /\ at = "idle" /\ at' \in {"idle", "reset"}
      /\ UNCHANGED <<pos, executed, socket, sent, arrived, orderly>>
  BY DEF readQueryEnd, readQueryFails, ghosts
<1>2. n \in Int /\ Valid(q)
  BY ReadLenType DEF QInv, QState
<1> HIDE DEF n
<1>3. SameParser(t, q) /\ t.len = q.len /\ Shows(t, q, 0, q.len) /\ q.len \in Nat
  BY <1>2, RoomMade DEF Valid, Sds
<1> HIDE DEF t
<1>4. Taken' = Taken
  BY <1>1 DEF Taken
<1>5. QSocket'
  BY <1>1, <1>4 DEF QSocket
<1>6. QFlow'
  <2> SUFFICES ASSUME orderly PROVE Follows(sent, t, pos, at', executed, Taken)
    BY <1>1, <1>4 DEF QFlow
  <2>1. Follows(sent, q, pos, "idle", executed, Taken)
    BY <1>1 DEF QFlow
  <2>2. Taken \in Nat
    BY DEF QSocket
  <2> QED BY <1>1, <1>3, <2>1, <2>2, NoReadFollows
<1> QED BY <1>5, <1>6

\* A read takes the next bytes of the stream.
LEMMA FlowRead ==
  ASSUME QInv, QSocket, QFlow, readQueryFromClient
  PROVE  QSocket' /\ QFlow'
<1> DEFINE D == StreamOf(sent)
           r == Taken
<1>1. PICK k \in 1 .. Min({ReadLen(q), Len(socket)}) :
        LET chunk == SubSeq(socket, 1, k)
            filled == Received(q, [i \in 1 .. k |-> chunk[i].byte])
        IN  /\ q' = filled
            /\ at' = IF filled.len > client_max_querybuf_len THEN "dead" ELSE "turn"
            /\ socket' = SubSeq(socket, k + 1, Len(socket))
            /\ orderly' = (orderly /\ Orderly(chunk))
            /\ arrived' = arrived + Cardinality({i \in 1 .. k : chunk[i].ends \in {"multibulk", "inline"}})
  BY DEF readQueryFromClient
<1>2. at = "idle" /\ UNCHANGED <<pos, sent, executed>>
  BY DEF readQueryFromClient
<1> DEFINE chunk == SubSeq(socket, 1, k)
           bytes == [i \in 1 .. k |-> chunk[i].byte]
           t == Received(q, bytes)
<1>3. ReadLen(q) \in Int /\ Len(socket) \in Nat /\ Valid(q) /\ socket \in Seq(Marked)
  BY ReadLenType DEF QInv, QState, QStream
<1>4. k \in Nat /\ k >= 1 /\ k <= ReadLen(q) /\ k <= Len(socket)
  <2> DEFINE a == ReadLen(q)
             b == Len(socket)
  <2>1. a \in Int /\ b \in Int
    BY <1>3
  <2> HIDE DEF a, b
  <2>2. Min({a, b}) \in Int /\ Min({a, b}) <= a /\ Min({a, b}) <= b
    BY <2>1, MinOfTwo
  <2>3. k \in 1 .. Min({a, b})
    BY DEF a, b
  <2>4. k \in Nat /\ k >= 1 /\ k <= a /\ k <= b
    BY <2>1, <2>2, <2>3
  <2> QED BY <2>4 DEF a, b
<1>5. /\ sent \in Streams /\ r \in 0 .. Len(D) /\ (\A i \in 1 .. Len(socket) : socket[i] = D[r + i])
      /\ arrived = Ended(D, r)
  BY DEF QSocket
<1>6. /\ sent \in Seq(Requests) /\ Streamed(sent) /\ (\A i \in 1 .. Len(sent) : WellFormed(sent[i]))
      /\ D \in Seq(Marked) /\ Len(D) \in Nat
  BY <1>5, SentIs
<1>7. r \in Nat /\ r = Len(D) - Len(socket)
  BY <1>5, <1>6 DEF Taken
<1>8. /\ q' = t /\ at' \in {"turn", "dead"} /\ (at' = "dead" => t.len > client_max_querybuf_len)
      /\ socket' = SubSeq(socket, k + 1, Len(socket)) /\ orderly' = (orderly /\ Orderly(chunk))
      /\ arrived' = arrived + Cardinality({i \in 1 .. k : chunk[i].ends \in {"multibulk", "inline"}})
  BY <1>1
<1> HIDE DEF D, r, t
<1>9. chunk \in Seq(Marked) /\ Len(chunk) = k /\ \A i \in 1 .. k : chunk[i] = socket[i]
  <2>1. \A i \in 1 .. Len(socket) : socket[i] \in Marked
    BY <1>3
  <2>2. \A i \in 1 .. k : socket[i] \in Marked
    BY <1>3, <1>4, <2>1
  <2>3. /\ chunk \in Seq(Marked) /\ Len(chunk) = IF 1 <= k THEN k - 1 + 1 ELSE 0
        /\ \A i \in 1 .. k - 1 + 1 : chunk[i] = socket[1 + i - 1]
    BY <1>4, <2>2, SubSeqProperties
  <2> HIDE DEF chunk
  <2> QED BY <1>4, <2>3
<1>10. /\ socket' \in Seq(Marked) /\ Len(socket') = Len(socket) - k
       /\ \A i \in 1 .. Len(socket) - k : socket'[i] = socket[k + i]
  <2> DEFINE z == SubSeq(socket, k + 1, Len(socket))
  <2>1. \A i \in k + 1 .. Len(socket) : socket[i] \in Marked
    <3>1. \A i \in 1 .. Len(socket) : socket[i] \in Marked
      BY <1>3
    <3> QED BY <1>4, <3>1
  <2>2. /\ z \in Seq(Marked) /\ Len(z) = IF k + 1 <= Len(socket) THEN Len(socket) - (k + 1) + 1 ELSE 0
        /\ \A i \in 1 .. Len(socket) - (k + 1) + 1 : z[i] = socket[(k + 1) + i - 1]
    BY <1>3, <1>4, <2>1, SubSeqProperties
  <2>3. z = socket'
    BY <1>8
  <2> HIDE DEF z
  <2>4. Len(z) = Len(socket) - k
    BY <1>3, <1>4, <2>2
  <2>5. \A i \in 1 .. Len(socket) - k : z[i] = socket[k + i]
    <3>1. \A i \in 1 .. Len(socket) - k : i \in 1 .. Len(socket) - (k + 1) + 1 /\ (k + 1) + i - 1 = k + i
      BY <1>3, <1>4
    <3> QED BY <2>2, <3>1
  <2> QED BY <2>2, <2>3, <2>4, <2>5
<1> HIDE DEF chunk
<1>11. Taken' = r + k /\ r + k <= Len(D)
  <2>1. Taken' = Len(D) - Len(socket')
    BY <1>2 DEF Taken, D
  <2> QED BY <1>3, <1>4, <1>6, <1>7, <1>10, <2>1
<1>12. \A i \in 1 .. k : chunk[i] = D[r + i]
  <2>1. \A i \in 1 .. k : i \in 1 .. Len(socket)
    BY <1>3, <1>4
  <2> QED BY <1>5, <1>9, <2>1
<1>13. arrived' = Ended(D, r + k)
  <2> DEFINE b == SubSeq(D, r + 1, r + k)
  <2>1. b = chunk
    <3>1. r + Len(chunk) <= Len(D) /\ \A i \in 1 .. Len(chunk) : D[r + i] = chunk[i]
      BY <1>9, <1>11, <1>12
    <3>2. SubSeq(D, r + 1, r + Len(chunk)) = chunk
      BY <1>6, <1>7, <1>9, <3>1, PartIs
    <3> QED BY <1>9, <3>2
  <2>2. arrived' = arrived + Ends(chunk)
    <3>1. DOMAIN chunk = 1 .. k
      BY <1>9
    <3> QED BY <1>8, <3>1 DEF Ends, Ending
  <2>3. Ended(D, r + k) = Ended(D, r) + Ends(b)
    BY <1>4, <1>6, <1>7, <1>11, EndedMore
  <2> QED BY <1>5, <2>1, <2>2, <2>3
<1>14. QSocket'
  <2>1. \A i \in 1 .. Len(socket') : socket'[i] = D[(r + k) + i]
    <3> SUFFICES ASSUME NEW i \in 1 .. Len(socket) - k PROVE socket'[i] = D[(r + k) + i]
      BY <1>10
    <3> DEFINE h == k + i
    <3>1. h \in 1 .. Len(socket) /\ r + h = (r + k) + i
      BY <1>3, <1>4, <1>7
    <3> HIDE DEF h
    <3>2. socket'[i] = socket[h]
      BY <1>10 DEF h
    <3> QED BY <1>5, <3>1, <3>2
  <2>2. r + k \in 0 .. Len(D)
    BY <1>4, <1>6, <1>7, <1>11
  <2> QED BY <1>2, <1>5, <1>11, <1>13, <2>1, <2>2 DEF QSocket, D
<1>15. bytes \in Seq(Bytes) /\ Len(bytes) = k /\ \A i \in 1 .. k : bytes[i] = D[r + i].byte
  <2>1. \A i \in 1 .. k : chunk[i] \in Marked
    BY <1>9
  <2>2. \A i \in 1 .. k : chunk[i].byte \in Bytes
    BY <2>1 DEF Marked
  <2>3. \A i \in 1 .. k : bytes[i] = chunk[i].byte
    OBVIOUS
  <2>4. bytes \in Seq(Bytes) /\ Len(bytes) = k
    BY <1>4, <2>2
  <2> HIDE DEF bytes
  <2> QED BY <1>12, <2>3, <2>4
<1> HIDE DEF bytes
<1>16. /\ SameParser(t, q) /\ t.len = q.len + k /\ Shows(t, q, 0, q.len)
       /\ \A i \in 1 .. k : t.buf[q.len + i] = D[r + i].byte
  <2>1. /\ SameParser(t, q) /\ t.len = q.len + Len(bytes) /\ Shows(t, q, 0, q.len)
        /\ \A i \in 1 .. Len(bytes) : t.buf[q.len + i] = bytes[i]
    BY <1>3, <1>4, <1>15, BytesReceived DEF t
  <2> QED BY <1>15, <2>1
<1>17. QFlow'
  <2> SUFFICES ASSUME orderly, Orderly(chunk) PROVE Follows(sent, t, pos, at', executed, r + k)
    BY <1>2, <1>8, <1>11 DEF QFlow
  <2>1. Follows(sent, q, pos, "idle", executed, r)
    BY <1>2 DEF QFlow, r
  <2>2. D[r + k].cut /\ \A i \in 1 .. k - 1 : D[r + i].ends \notin {"inline", "raw"}
    <3>1. Last(chunk) = D[r + k]
      <4>1. chunk # <<>>
        <5>1. Len(<<>>) = 0 /\ Len(chunk) # 0
          BY <1>4, <1>9
        <5> QED BY <5>1
      <4>2. Last(chunk) = chunk[Len(chunk)]
        BY <1>9, <4>1, LastOfList
      <4>3. k \in 1 .. k
        BY <1>4
      <4> QED BY <1>9, <1>12, <4>2, <4>3
    <3>2. \A i \in 1 .. k - 1 : i \in 1 .. k
      BY <1>4
    <3> QED BY <1>9, <1>12, <3>1, <3>2 DEF Orderly
  <2>3. ReadIn(sent, q, t, r, k)
    BY <1>11, <1>16, <2>2 DEF ReadIn, D
  <2>4. r <= Len(StreamOf(sent)) /\ k > 0
    BY <1>4, <1>6, <1>7, <1>11 DEF D
  <2>5. at' \in {"turn", "dead"}
    BY <1>8
  <2> QED BY <1>4, <1>6, <1>7, <2>1, <2>3, <2>4, <2>5, ReadFollows
<1> QED BY <1>14, <1>17

-----------------------------------------------------------------------------
\* What the invariant says.

\* A list of requests up to the first that ends the input.
CutAt(u) ==
  LET finals == {i \in DOMAIN u : Final(u[i])}
  IN  IF finals = {} THEN u ELSE SubSeq(u, 1, Min(finals))

\* The first part of a list, element by element.
LEMMA FirstIsPrefix ==
  ASSUME NEW T, NEW x \in Seq(T), NEW y \in Seq(T), FirstOf(x, y)
  PROVE  IsPrefix(x, y) /\ SubSeq(y, 1, Len(x)) = x
<1>1. Len(x) \in Nat /\ Len(y) \in Nat /\ Len(x) <= Len(y) /\ \A i \in 1 .. Len(x) : x[i] = y[i]
  BY DEF FirstOf
<1> DEFINE z == 0
<1>2. z \in Nat /\ z + Len(x) <= Len(y) /\ z + Len(x) <= Len(x) /\ z + 1 = 1 /\ z + Len(x) = Len(x)
  BY <1>1
<1>3. (\A i \in 1 .. Len(x) : y[z + i] = x[i]) /\ \A i \in 1 .. Len(x) : x[z + i] = x[i]
  <2>1. \A i \in 1 .. Len(x) : z + i = i
    OBVIOUS
  <2> QED BY <1>1, <2>1
<1> HIDE DEF z
<1>4. SubSeq(y, z + 1, z + Len(x)) = x
  BY <1>2, <1>3, PartIs
<1>5. SubSeq(x, z + 1, z + Len(x)) = x
  BY <1>2, <1>3, PartIs
<1> QED BY <1>1, <1>2, <1>4, <1>5 DEF IsPrefix

\* Nothing has been cut off in front of it.
LEMMA BeforeFinal ==
  ASSUME NEW T, NEW x \in Seq(T), NEW y \in Seq(T), FirstOf(x, y), \A i \in DOMAIN x : ~Final(x[i])
  PROVE  IsPrefix(x, CutAt(y)) /\ CutAt(x) = x
<1> DEFINE finals == {i \in DOMAIN y : Final(y[i])}
           u == Min(finals)
<1>1. Len(x) \in Nat /\ Len(y) \in Nat /\ Len(x) <= Len(y) /\ \A i \in 1 .. Len(x) : x[i] = y[i]
  BY DEF FirstOf
<1>2. DOMAIN x = 1 .. Len(x) /\ DOMAIN y = 1 .. Len(y)
  OBVIOUS
<1>3. CutAt(x) = x
  <2>1. {i \in DOMAIN x : Final(x[i])} = {}
    OBVIOUS
  <2> QED BY <2>1 DEF CutAt
<1>4. CASE finals = {}
  <2>1. CutAt(y) = y
    BY <1>4 DEF CutAt
  <2> QED BY <1>3, <2>1, FirstIsPrefix
<1>5. CASE finals # {}
  <2>1. CutAt(y) = SubSeq(y, 1, u)
    BY <1>5 DEF CutAt
  <2>2. finals \in SUBSET Nat
    BY <1>2
  <2>3. \A i \in finals : i \in 1 .. Len(y) /\ Final(y[i])
    BY <1>2
  <2> HIDE DEF finals
  <2>4. u \in finals
    BY <1>5, <2>2, MinOfSet
  <2>5. u \in 1 .. Len(y) /\ Final(y[u])
    BY <2>3, <2>4
  <2> HIDE DEF u
  <2>6. u > Len(x)
    <3> SUFFICES ASSUME ~(u > Len(x)) PROVE FALSE
      OBVIOUS
    <3>1. u \in 1 .. Len(x)
      BY <1>1, <2>5
    <3> QED BY <1>1, <1>2, <2>5, <3>1
  <2> DEFINE w == SubSeq(y, 1, u)
  <2>7. w \in Seq(T) /\ Len(w) = u /\ \A i \in 1 .. u : w[i] = y[i]
    <3>1. u \in Nat /\ \A i \in 1 .. u : y[i] \in T
      <4>1. \A i \in 1 .. Len(y) : y[i] \in T
        OBVIOUS
      <4> QED BY <1>1, <2>5, <4>1
    <3>2. /\ w \in Seq(T) /\ Len(w) = IF 1 <= u THEN u - 1 + 1 ELSE 0
          /\ \A i \in 1 .. u - 1 + 1 : w[i] = y[1 + i - 1]
      BY <3>1, SubSeqProperties
    <3> HIDE DEF w
    <3> QED BY <2>5, <3>1, <3>2
  <2> HIDE DEF w
  <2>8. FirstOf(x, w)
    <3>1. Len(x) <= Len(w) /\ \A i \in 1 .. Len(x) : i \in 1 .. u
      BY <1>1, <2>5, <2>6, <2>7
    <3> QED BY <1>1, <2>7, <3>1 DEF FirstOf
  <2>9. IsPrefix(x, w)
    BY <2>7, <2>8, FirstIsPrefix
  <2> QED BY <1>3, <2>1, <2>9 DEF w
<1> QED BY <1>4, <1>5

\* The first of them is the last that counts.
LEMMA UpToFinal ==
  ASSUME NEW T, NEW x \in Seq(T), NEW y \in Seq(T), FirstOf(x, y), x # <<>>, Final(x[Len(x)]),
         \A i \in 1 .. Len(x) - 1 : ~Final(x[i])
  PROVE  CutAt(y) = x
<1> DEFINE finals == {i \in DOMAIN y : Final(y[i])}
           u == Min(finals)
           l == Len(x)
<1>1. Len(x) \in Nat /\ Len(y) \in Nat /\ Len(x) <= Len(y) /\ \A i \in 1 .. Len(x) : x[i] = y[i]
  BY DEF FirstOf
<1>2. DOMAIN y = 1 .. Len(y) /\ Len(x) > 0
  <2>1. Len(x) = 0 => x = <<>>
    OBVIOUS
  <2> QED BY <1>1, <2>1
<1>3. l \in 1 .. Len(x) /\ l \in finals
  BY <1>1, <1>2
<1>4. finals \in SUBSET Nat /\ \A i \in finals : i \in 1 .. Len(y) /\ Final(y[i])
  BY <1>2
<1>5. CutAt(y) = SubSeq(y, 1, u)
  <2>1. finals # {}
    BY <1>3
  <2> QED BY <2>1 DEF CutAt
<1> HIDE DEF finals
<1>6. u \in finals /\ u <= l
  BY <1>3, <1>4, MinOfSet
<1>7. u \in 1 .. Len(y) /\ Final(y[u])
  BY <1>4, <1>6
<1> HIDE DEF u
<1>8. u = l
  <2> SUFFICES ASSUME u # l PROVE FALSE
    OBVIOUS
  <2>1. u \in 1 .. Len(x) - 1 /\ u \in 1 .. Len(x)
    BY <1>1, <1>6, <1>7
  <2> QED BY <1>1, <1>7, <2>1
<1>9. SubSeq(y, 1, Len(x)) = x
  BY FirstIsPrefix
<1> QED BY <1>5, <1>8, <1>9

\* What the invariant says of the requests that have arrived.
LEMMA FlowExecutes ==
  ASSUME QInv, QSocket, QFlow
  PROVE  ArrivedAreExecuted
<1> SUFFICES ASSUME orderly
             PROVE  /\ at = "idle" => executed = Arrived
                    /\ IsPrefix(executed, Arrived) /\ ~q.error
                    /\ at = "dead" => \/ q.len > client_max_querybuf_len
                                      \/ executed # <<>> /\ Raises(Last(executed))
  BY DEF ArrivedAreExecuted
<1> DEFINE S == sent
           D == StreamOf(S)
           r == Taken
           m == arrived
           real == AsksFor(S, m)
           T == Seq(Seq(Bytes))
<1>1. /\ Follows(S, q, pos, at, executed, r)
      /\ at = "dead" => \/ q.len > client_max_querybuf_len
                        \/ executed # <<>> /\ Raises(Last(executed))
  BY DEF QFlow, Undecoded, Last
<1>2. S \in Streams /\ r \in 0 .. Len(D) /\ m = Ended(D, r)
  BY DEF QSocket
<1>3. /\ S \in Seq(Requests) /\ (\A i \in 1 .. Len(S) : WellFormed(S[i])) /\ Streamed(S)
      /\ D \in Seq(Marked) /\ Len(D) \in Nat /\ Len(S) \in Nat
  BY <1>2, SentIs DEF Streamed
<1>4. m \in 0 .. Len(S) /\ r \in Nat
  <2>1. m \in Nat /\ m + Ends(socket) <= Len(S) /\ socket \in Seq(Marked)
    BY DEF QInv, QStream
  <2>2. Ends(socket) \in Nat
    BY <2>1, EndsNat
  <2> DEFINE z == Ends(socket)
  <2>3. z \in Nat /\ m + z <= Len(S)
    BY <2>1, <2>2
  <2> HIDE DEF z
  <2>4. m \in 0 .. Len(S)
    BY <1>3, <2>1, <2>3
  <2> QED BY <1>2, <2>4
<1>5. Arrived = CutAt(real)
  <2>1. Requested(m) = real
    BY DEF Requested, AsksFor, AskedBy
  <2> QED BY <2>1 DEF Arrived, CutAt
<1>6. real \in Seq(T) /\ \A n \in 0 .. m : AsksFor(S, n) \in Seq(T) /\ FirstOf(AsksFor(S, n), real)
  <2>1. \A n \in 0 .. Len(S) : AsksFor(S, n) \in Seq(T)
    BY <1>3, AsksIs
  <2>2. ASSUME NEW n \in 0 .. m PROVE AsksFor(S, n) \in Seq(T) /\ FirstOf(AsksFor(S, n), real)
    <3>1. n \in 0 .. Len(S) /\ m \in n .. Len(S)
      BY <1>3, <1>4
    <3> QED BY <1>3, <2>1, <3>1, AsksGrow
  <2> QED BY <1>4, <2>1, <2>2
<1> HIDE DEF S, D, r, m, T
<1>7. CASE \E n, c \in Nat : Flows(S, q, pos, at, executed, r, n, c)
  <2>1. PICK n \in Nat, c \in Nat : Flows(S, q, pos, at, executed, r, n, c)
    BY <1>7
  <2>2. Frame(S, executed, r, n, c) /\ Parsing(S, q, at, r, n, c) /\ ~q.error
    BY <2>1 DEF Flows
  <2> DEFINE o == StartOf(S, n)
             x == executed
  <2>3. /\ n \in 0 .. Len(S) /\ c \in o .. r /\ Ended(D, o) = n
        /\ x = AsksFor(S, n) /\ \A i \in DOMAIN x : ~Final(x[i])
    BY <2>2 DEF Frame, D
  <2>4. o \in Nat
    BY <1>3, <2>3 DEF Streamed
  <2> HIDE DEF o
  <2>5. o <= c /\ c <= r
    BY <2>3, <2>4
  <2>6. n <= m
    <3> DEFINE k == r - o
    <3>1. k \in Nat /\ o + k = r /\ r <= Len(D)
      BY <1>2, <1>4, <2>4, <2>5
    <3> HIDE DEF k
    <3>2. o + k <= Len(D)
      BY <3>1
    <3> DEFINE z == Ends(SubSeq(D, o + 1, o + k))
    <3>3. z \in Nat /\ Ended(D, o + k) = Ended(D, o) + z
      BY <1>3, <2>4, <3>1, <3>2, EndedMore
    <3> HIDE DEF z
    <3>4. m = n + z
      BY <1>2, <2>3, <3>1, <3>3
    <3> QED BY <3>3, <3>4
  <2>7. n \in 0 .. m
    BY <1>4, <2>6
  <2>8. IsPrefix(x, CutAt(real)) /\ CutAt(x) = x
    <3>1. x \in Seq(T) /\ FirstOf(x, real)
      BY <1>6, <2>3, <2>7
    <3> HIDE DEF real, x
    <3> QED BY <1>6, <2>3, <3>1, BeforeFinal
  <2>9. ASSUME at = "idle" PROVE n = m
    <3>1. Parsing(S, q, "idle", r, n, c)
      BY <2>2, <2>9
    <3>2. CASE c = o /\ c = r
      BY <1>2, <2>3, <3>2
    <3>3. CASE ~(c = o /\ c = r)
      <4>1. /\ n \in 0 .. Len(S) - 1 /\ S[n + 1].kind = "multibulk"
            /\ r \in StartOf(S, n) .. StartOf(S, n + 1) - 1
        BY <1>3, <1>4, <2>2, <3>1, <3>3, BeforeEnd DEF o
      <4>2. Ended(StreamOf(S), r) = n
        BY <1>3, <2>3, <4>1, RequestEnds DEF o, D
      <4> QED BY <1>2, <4>2 DEF D
    <3> QED BY <3>2, <3>3
  <2>10. ASSUME at = "idle" PROVE executed = CutAt(real)
    <3>1. n = m
      BY <2>9, <2>10
    <3>2. x = real
      BY <2>3, <3>1
    <3> QED BY <2>8, <3>2
  <2> QED BY <1>1, <1>5, <2>2, <2>8, <2>10
<1>8. CASE \E n \in Nat : Gone(S, q, at, executed, r, n)
  <2>1. PICK n \in Nat : Gone(S, q, at, executed, r, n)
    BY <1>8
  <2> DEFINE x == executed
  <2>2. /\ ~q.error /\ n \in 1 .. Len(S) /\ n <= m
        /\ x = AsksFor(S, n) /\ x # <<>> /\ Final(x[Len(x)])
        /\ \A i \in 1 .. Len(x) - 1 : ~Final(x[i])
    BY <1>2, <2>1 DEF Gone, D
  <2>3. n \in 0 .. m
    BY <1>4, <2>2
  <2>4. x \in Seq(T) /\ FirstOf(x, real)
    BY <1>6, <2>2, <2>3
  <2> HIDE DEF x, real
  <2>5. CutAt(real) = x
    BY <1>6, <2>2, <2>4, UpToFinal
  <2>6. IsPrefix(x, x)
    <3>1. FirstOf(x, x)
      <4>1. Len(x) \in Nat
        BY <2>4
      <4> QED BY <4>1 DEF FirstOf
    <3> QED BY <2>4, <3>1, FirstIsPrefix
  <2> QED BY <1>1, <1>5, <2>2, <2>5, <2>6 DEF x, real
<1> QED BY <1>1, <1>7, <1>8 DEF Follows

\* Every step keeps the invariant.
LEMMA FlowNext == QInv /\ QSocket /\ QFlow /\ [Next]_vars => (QInv /\ QSocket /\ QFlow)'
<1> SUFFICES ASSUME QInv, QSocket, QFlow, [Next]_vars PROVE (QInv /\ QSocket /\ QFlow)'
  OBVIOUS
<1>1. QInv'
  BY QInvNext, QInvStays
<1>2. CASE readQueryFromClient
  BY <1>1, <1>2, FlowRead
<1>5. CASE readQueryEnd \/ readQueryFails
  BY <1>1, <1>5, FlowNoRead
<1>3. CASE Processing
  BY <1>1, <1>3, FlowProcessing
<1>4. CASE UNCHANGED vars
  <2>1. QSocket'
    BY <1>4 DEF QSocket, Taken, vars
  <2>2. QFlow'
    BY <1>4 DEF QFlow, Taken, Undecoded, vars
  <2> QED BY <1>1, <2>1, <2>2
<1> QED BY <1>2, <1>3, <1>4, <1>5 DEF Next

\* However the stream is cut into reads, as long as none loses the parser its
\* way: what processInputBuffer gives to processCommand is what the client has
\* asked for, in that order and with those arguments, up to a QUIT or a name that
\* is not UTF-8; between two reads nothing is left out; no protocol error is
\* found; and the process ends only over such a name, over a buffer that has
\* outgrown its limit, or over a read that fails (networking.py).
THEOREM RequestsAreExecuted == Spec => []ArrivedAreExecuted
<1> DEFINE I == QInv /\ QSocket /\ QFlow
<1>1. Init => I
  BY QInvInit, FlowInit
<1>2. I /\ [Next]_vars => I'
  BY FlowNext
<1>3. I => ArrivedAreExecuted
  BY FlowExecutes
<1> QED BY <1>1, <1>2, <1>3, PTL DEF Spec

\* A session is a behaviour of the input, so all of this holds of it.
THEOREM SessionReads == SessionSpec => Spec
<1>1. SessionInit => Init
  BY DEF SessionInit
<1>2. [SessionNext]_sessionVars => [Next]_vars
  BY DEF SessionNext, Read, Execute, Parse, Write, Next, Processing, sessionVars
<1> QED BY <1>1, <1>2, PTL DEF SessionSpec, Spec

-----------------------------------------------------------------------------
\* The map that answers.  Its states stay of their type.

\* What the map keeps has an object, and so has what a request stores.
ObjectTexts == {StoredText[o] : o \in DOMAIN StoredText}
Maps == UNION {[D -> ObjectTexts] : D \in SUBSET Seq(Bytes)}
Storable(a) == IsStore(a) => a[3] \in ObjectTexts
Calls == {a \in Seq(Seq(Bytes)) : Storable(a)}
MapStates == [map : Maps, bytes : Seq(Atoms)]
After(s, a) == [map |-> MapAfter(s.map, a), bytes |-> s.bytes \o AnswerTo(s.map, a)]
Begun == [map |-> Nothing, bytes |-> <<>>]

\* The texts that replies are made of.
LEMMA ReplyTexts ==
  /\ \A o \in DOMAIN SharedText : SharedText[o] \in Seq(Atoms)
  /\ {"ok", "crlf", "hdr", "nullbulk", "syntaxerr"} \subseteq DOMAIN SharedText
  /\ ErrorText \in Seq(Atoms)
  /\ \A t \in ObjectTexts : t \in Seq(Atoms) /\ HeaderText(Len(t)) \in Seq(Atoms)
<1>1. /\ \A o \in DOMAIN SharedText : SharedText[o] \in Seq(Atoms)
      /\ {"ok", "crlf", "hdr", "nullbulk", "syntaxerr"} \subseteq DOMAIN SharedText
  BY ReplyAssumption, SessionAssumption
<1>2. ErrorText \in Seq(Atoms)
  <2>1. {"err", "msg", "eol"} \subseteq Atoms
    BY ReplyAssumption
  <2> QED BY <2>1 DEF ErrorText
<1>3. ASSUME NEW t \in ObjectTexts PROVE t \in Seq(Atoms) /\ HeaderText(Len(t)) \in Seq(Atoms)
  <2>1. PICK o \in DOMAIN StoredText : t = StoredText[o]
    BY DEF ObjectTexts
  <2>2. /\ t \in Seq(Atoms) /\ REDIS_SHARED_BULKHDR_LEN \in Nat
        /\ \A k \in REDIS_SHARED_BULKHDR_LEN .. Len(t) : Header[k] \in Seq(Atoms)
    BY <2>1, ReplyAssumption
  <2>3. Len(t) \in Nat
    BY <2>2
  <2>4. Len(t) >= REDIS_SHARED_BULKHDR_LEN => Len(t) \in REDIS_SHARED_BULKHDR_LEN .. Len(t)
    BY <2>2, <2>3
  <2> QED BY <1>1, <2>2, <2>3, <2>4 DEF HeaderText
<1> QED BY <1>1, <1>2, <1>3

\* An answer is a text.
LEMMA AnswerType ==
  ASSUME NEW m \in Maps, NEW a
  PROVE  AnswerTo(m, a) \in Seq(Atoms)
<1>1. PICK D \in SUBSET Seq(Bytes) : m \in [D -> ObjectTexts]
  BY DEF Maps
<1>2. CASE a[1] # Quit /\ ~Raises(a) /\ a[1] = Get /\ Len(a) = 2 /\ a[2] \in DOMAIN m
  <2> DEFINE t == m[a[2]]
             h == HeaderText(Len(t))
             e == SharedText["crlf"]
  <2>1. t \in ObjectTexts
    BY <1>1, <1>2
  <2>2. h \in Seq(Atoms) /\ t \in Seq(Atoms) /\ e \in Seq(Atoms)
    BY <2>1, ReplyTexts
  <2>3. AnswerTo(m, a) = h \o t \o e
    BY <1>2 DEF AnswerTo
  <2> HIDE DEF t, h, e
  <2>4. h \o t \o e \in Seq(Atoms)
    BY <2>2
  <2> QED BY <2>3, <2>4
<1>3. CASE ~(a[1] # Quit /\ ~Raises(a) /\ a[1] = Get /\ Len(a) = 2 /\ a[2] \in DOMAIN m)
  <2>1. AnswerTo(m, a) \in {<<>>, SharedText["ok"], SharedText["nullbulk"], SharedText["syntaxerr"], ErrorText}
    BY <1>3 DEF AnswerTo
  <2>2. <<>> \in Seq(Atoms)
    OBVIOUS
  <2> QED BY <2>1, <2>2, ReplyTexts
<1> QED BY <1>2, <1>3

\* The map keeps its type.
LEMMA AfterType ==
  ASSUME NEW s \in MapStates, NEW a \in Calls
  PROVE  After(s, a) \in MapStates
<1>1. s.map \in Maps /\ s.bytes \in Seq(Atoms) /\ a \in Seq(Seq(Bytes)) /\ Storable(a)
  BY DEF MapStates, Calls
<1> DEFINE m == s.map
<1>2. PICK D \in SUBSET Seq(Bytes) : m \in [D -> ObjectTexts]
  BY <1>1 DEF Maps
<1> HIDE DEF m
<1>3. MapAfter(m, a) \in Maps
  <2>1. CASE Stores(m, a)
    <3> DEFINE E == D \cup {a[2]}
               f == [x \in E |-> IF x = a[2] THEN a[3] ELSE m[x]]
    <3>1. a[2] \in Seq(Bytes) /\ a[3] \in ObjectTexts
      <4>1. 2 \in 1 .. Len(a) /\ IsStore(a)
        BY <2>1 DEF Stores, IsStore
      <4> DEFINE T == Seq(Bytes)
      <4>2. a \in Seq(T)
        BY <1>1
      <4> HIDE DEF T
      <4>3. a[2] \in T
        BY <4>1, <4>2
      <4>4. a[3] \in ObjectTexts
        BY <1>1, <4>1 DEF Storable
      <4> QED BY <4>3, <4>4 DEF T
    <3>2. f \in [E -> ObjectTexts] /\ E \in SUBSET Seq(Bytes)
      BY <1>2, <3>1
    <3>3. MapAfter(m, a) = f
      BY <1>2, <2>1 DEF MapAfter
    <3> QED BY <3>2, <3>3 DEF Maps
  <2>2. CASE ~Stores(m, a)
    <3>1. MapAfter(m, a) = m
      BY <2>2 DEF MapAfter
    <3> QED BY <1>2, <3>1 DEF Maps
  <2> QED BY <2>1, <2>2
<1>4. AnswerTo(m, a) \in Seq(Atoms)
  BY <1>1, AnswerType DEF m
<1>5. s.bytes \o AnswerTo(s.map, a) \in Seq(Atoms)
  <2> DEFINE x == AnswerTo(s.map, a)
  <2>1. x \in Seq(Atoms)
    BY <1>4 DEF m
  <2> DEFINE b == s.bytes
  <2>2. b \in Seq(Atoms)
    BY <1>1
  <2> HIDE DEF x, b
  <2>3. b \o x \in Seq(Atoms)
    BY <2>1, <2>2
  <2> QED BY <2>3 DEF x, b
<1> QED BY <1>3, <1>5 DEF After, MapStates, m

\* The answers are those of one request after the other.
FollowsMap(f, y) ==
  /\ f \in [0 .. Len(y) -> MapStates] /\ f[0] = Begun
  /\ \A i \in 1 .. Len(y) : f[i] = After(f[i - 1], y[i])
\* The recursion of Answered has a solution, and it is Answered.
LEMMA AnsweredIs ==
  ASSUME NEW y \in Seq(Calls)
  PROVE  FollowsMap(Answered(y), y)
<1> DEFINE n == Len(y)
           G == [p \in (1 .. n) \X MapStates |-> After(p[2], y[p[1]])]
           Is(f) == f = [i \in 0 .. n |->
                          IF i = 0 THEN [map |-> Nothing, bytes |-> <<>>]
                          ELSE [map |-> MapAfter(f[i - 1].map, y[i]),
                                bytes |-> f[i - 1].bytes \o AnswerTo(f[i - 1].map, y[i])]]
           after == CHOOSE f : Is(f)
<1>1. n \in Nat /\ \A i \in 1 .. n : y[i] \in Calls
  OBVIOUS
<1>2. Begun \in MapStates
  <2>1. Nothing \in [{} -> ObjectTexts]
    BY DEF Nothing
  <2>2. Nothing \in Maps
    BY <2>1 DEF Maps
  <2> QED BY <2>2 DEF Begun, MapStates
<1>3. G \in [(1 .. n) \X MapStates -> MapStates]
  BY <1>1, AfterType
<1>4. PICK f \in [0 .. n -> MapStates] :
        \A i \in 0 .. n : f[i] = IF i = 0 THEN Begun ELSE G[<<i, f[i - 1]>>]
  <2> HIDE DEF G, n
  <2>1. \E f : Recurs(f, MapStates, Begun, n, G)
    BY ONLY <1>1, <1>2, <1>3, RecursionExists
  <2> QED BY <2>1 DEF Recurs
<1>5. \A i \in 0 .. n : f[i] = IF i = 0 THEN Begun ELSE After(f[i - 1], y[i])
  <2> TAKE i \in 0 .. n
  <2>1. CASE i # 0
    <3>1. i \in 1 .. n /\ i - 1 \in 0 .. n
      BY <1>1, <2>1
    <3>2. G[<<i, f[i - 1]>>] = After(f[i - 1], y[i])
      BY <3>1
    <3> QED BY <1>4, <2>1, <3>2
  <2>2. CASE i = 0
    BY <1>4, <2>2
  <2> QED BY <2>1, <2>2
<1> HIDE DEF n, G
<1>6. Is(f)
  <2>1. f = [i \in 0 .. n |-> f[i]]
    OBVIOUS
  <2> QED BY <1>5, <2>1 DEF Begun, After
<1>7. Is(after)
  <2> HIDE DEF Is
  <2> QED BY <1>6
<1>8. Answered(y) = after
  BY DEF Answered, n
<1> HIDE DEF after
<1>9. /\ DOMAIN after = 0 .. n
      /\ \A i \in 0 .. n : after[i] = IF i = 0 THEN Begun ELSE After(after[i - 1], y[i])
  BY <1>7 DEF Begun, After
<1> HIDE DEF Is
<1>10. \A i \in 0 .. n : after[i] = f[i]
  <2> DEFINE Bad == {i \in 0 .. n : after[i] # f[i]}
  <2>1. SUFFICES ASSUME Bad # {} PROVE FALSE
    OBVIOUS
  <2>2. PICK m \in Bad : \A k \in Bad : m <= k
    <3>1. Bad \in SUBSET Nat
      OBVIOUS
    <3> HIDE DEF Bad
    <3> QED BY <2>1, <3>1, LeastNatural
  <2>3. m \in 0 .. n /\ after[m] # f[m]
    OBVIOUS
  <2>4. m # 0
    BY <1>5, <1>9, <2>3
  <2>5. m - 1 \in 0 .. n /\ ~(m <= m - 1)
    BY <1>1, <2>3, <2>4
  <2>6. m - 1 \notin Bad
    <3> HIDE DEF Bad
    <3> QED BY <2>2, <2>5
  <2>7. after[m - 1] = f[m - 1]
    BY <2>5, <2>6
  <2> HIDE DEF Bad
  <2> QED BY <1>5, <1>9, <2>3, <2>4, <2>7
<1>11. after = f
  <2>1. DOMAIN f = 0 .. n /\ f = [i \in 0 .. n |-> f[i]]
    BY <1>4
  <2>2. after = [i \in 0 .. n |-> after[i]]
    BY <1>7, <1>9 DEF Is
  <2> QED BY <1>10, <2>1, <2>2
<1>12. f[0] = Begun /\ \A i \in 1 .. n : f[i] = After(f[i - 1], y[i])
  <2>1. 0 \in 0 .. n /\ \A i \in 1 .. n : i \in 0 .. n /\ i # 0
    BY <1>1
  <2> QED BY <1>5, <2>1
<1> QED BY <1>4, <1>8, <1>11, <1>12 DEF FollowsMap, n

-----------------------------------------------------------------------------
\* Fewer requests, fewer answers.

\* The first parts of sequences.
LEMMA FirstOfLonger ==
  ASSUME NEW T, NEW x \in Seq(T), NEW y \in Seq(T)
  PROVE  FirstOf(x, x \o y) /\ FirstOf(x, x)
<1>1. Len(x) \in Nat /\ Len(y) \in Nat /\ Len(x \o y) = Len(x) + Len(y)
      /\ \A i \in 1 .. Len(x) : (x \o y)[i] = x[i]
  BY ConcatProperties
<1> QED BY <1>1 DEF FirstOf

\* The first part of a first part.
LEMMA FirstOfFirst ==
  ASSUME NEW T, NEW x \in Seq(T), NEW y \in Seq(T), NEW z \in Seq(T), FirstOf(x, y), FirstOf(y, z)
  PROVE  FirstOf(x, z)
<1>1. Len(x) \in Nat /\ Len(y) \in Nat /\ Len(z) \in Nat
  OBVIOUS
<1> QED BY <1>1 DEF FirstOf

\* IsPrefix, read entry by entry.
LEMMA PrefixIsFirst ==
  ASSUME NEW T, NEW x \in Seq(T), NEW y \in Seq(T), IsPrefix(x, y)
  PROVE  FirstOf(x, y)
<1>1. Len(x) \in Nat /\ Len(y) \in Nat /\ Len(x) <= Len(y)
      /\ SubSeq(x, 1, Len(x)) = SubSeq(y, 1, Len(x))
  BY DEF IsPrefix
<1>2. ASSUME NEW i \in 1 .. Len(x) PROVE x[i] = y[i]
  <2>1. \A s \in Seq(T) : \A k \in 0 .. Len(s) : \A j \in 1 .. k : SubSeq(s, 1, k)[j] = s[j]
    OBVIOUS
  <2>2. Len(x) \in 0 .. Len(x) /\ Len(x) \in 0 .. Len(y)
    BY <1>1
  <2> QED BY <1>1, <2>1, <2>2
<1> QED BY <1>1, <1>2 DEF FirstOf

\* Answers depend on the requests so far.
LEMMA AnsweredFirst ==
  ASSUME NEW x \in Seq(Calls), NEW y \in Seq(Calls), FirstOf(x, y)
  PROVE  \A i \in 0 .. Len(x) : Answered(x)[i] = Answered(y)[i]
<1> DEFINE f == Answered(x)
           g == Answered(y)
           Bad == {i \in 0 .. Len(x) : f[i] # g[i]}
<1>1. Len(x) \in Nat /\ Len(y) \in Nat /\ Len(x) <= Len(y) /\ \A i \in 1 .. Len(x) : x[i] = y[i]
  BY DEF FirstOf
<1>2. /\ f[0] = Begun /\ \A i \in 1 .. Len(x) : f[i] = After(f[i - 1], x[i])
      /\ g[0] = Begun /\ \A i \in 1 .. Len(y) : g[i] = After(g[i - 1], y[i])
  BY AnsweredIs DEF FollowsMap
<1> HIDE DEF f, g
<1>3. SUFFICES ASSUME Bad # {} PROVE FALSE
  BY DEF f, g
<1>4. PICK m \in Bad : \A k \in Bad : m <= k
  <2>1. Bad \in SUBSET Nat
    OBVIOUS
  <2> HIDE DEF Bad
  <2> QED BY <1>3, <2>1, LeastNatural
<1>5. m \in 0 .. Len(x) /\ f[m] # g[m]
  OBVIOUS
<1>6. m # 0
  BY <1>2, <1>5
<1>7. m - 1 \in 0 .. Len(x) /\ ~(m <= m - 1) /\ m \in 1 .. Len(x) /\ m \in 1 .. Len(y)
  BY <1>1, <1>5, <1>6
<1>8. m - 1 \notin Bad
  <2> HIDE DEF Bad
  <2> QED BY <1>4, <1>7
<1>9. f[m - 1] = g[m - 1]
  BY <1>7, <1>8
<1> HIDE DEF Bad
<1>10. f[m] = After(f[m - 1], x[m]) /\ g[m] = After(g[m - 1], y[m]) /\ x[m] = y[m]
  BY <1>1, <1>2, <1>7
<1> QED BY <1>5, <1>9, <1>10

\* One request more.
LEMMA AnsweredMore ==
  ASSUME NEW x \in Seq(Calls), NEW a \in Calls
  PROVE  LET y == Append(x, a)
         IN  Answered(y)[Len(y)] = After(Answered(x)[Len(x)], a)
<1> DEFINE y == Append(x, a)
           n == Len(x)
<1>1. y \in Seq(Calls) /\ n \in Nat /\ Len(y) = n + 1 /\ y[n + 1] = a /\ \A i \in 1 .. n : y[i] = x[i]
  OBVIOUS
<1> HIDE DEF y
<1>2. FirstOf(x, y)
  BY <1>1 DEF FirstOf
<1>3. Answered(x)[n] = Answered(y)[n]
  <2>1. n \in 0 .. n
    BY <1>1
  <2> QED BY <1>1, <1>2, <2>1, AnsweredFirst
<1>4. Answered(y)[n + 1] = After(Answered(y)[n], y[n + 1])
  <2>1. n + 1 \in 1 .. Len(y) /\ n + 1 - 1 = n
    BY <1>1
  <2>2. FollowsMap(Answered(y), y)
    BY <1>1, AnsweredIs
  <2>3. Answered(y)[n + 1] = After(Answered(y)[n + 1 - 1], y[n + 1])
    BY <2>1, <2>2 DEF FollowsMap
  <2> QED BY <2>1, <2>3
<1> QED BY <1>1, <1>3, <1>4 DEF y

\* The last state reached.
LEMMA AnsweredType ==
  ASSUME NEW x \in Seq(Calls)
  PROVE  /\ Len(x) \in Nat /\ \A i \in 0 .. Len(x) : Answered(x)[i] \in MapStates
         /\ Answered(x)[Len(x)] \in MapStates /\ AnswersTo(x) \in Seq(Atoms)
<1>1. Len(x) \in Nat /\ Len(x) \in 0 .. Len(x)
  OBVIOUS
<1>2. \A i \in 0 .. Len(x) : Answered(x)[i] \in MapStates
  BY AnsweredIs DEF FollowsMap
<1>3. Answered(x)[Len(x)] \in MapStates
  BY <1>1, <1>2
<1> QED BY <1>1, <1>2, <1>3 DEF AnswersTo, MapStates

\* The first requests have the first answers.
LEMMA AnswersGrow ==
  ASSUME NEW x \in Seq(Calls), NEW y \in Seq(Calls), FirstOf(x, y)
  PROVE  FirstOf(AnswersTo(x), AnswersTo(y))
<1> DEFINE f == Answered(y)
           n == Len(x)
           b == f[n].bytes
           Bad == {i \in n .. Len(y) : ~FirstOf(b, f[i].bytes)}
<1>1. n \in Nat /\ Len(y) \in Nat /\ n <= Len(y)
  BY DEF FirstOf
<1>2. /\ \A i \in 0 .. Len(y) : f[i] \in MapStates /\ f[i].bytes \in Seq(Atoms)
      /\ \A i \in 1 .. Len(y) : f[i] = After(f[i - 1], y[i]) /\ y[i] \in Calls
  <2>1. FollowsMap(f, y)
    BY AnsweredIs
  <2> HIDE DEF f
  <2>2. \A i \in 0 .. Len(y) : f[i] \in MapStates
    BY <2>1 DEF FollowsMap
  <2> QED BY <2>1, <2>2 DEF FollowsMap, MapStates
<1>3. Answered(x)[n] = f[n]
  BY <1>1, AnsweredFirst
<1> HIDE DEF f
<1>4. b \in Seq(Atoms) /\ AnswersTo(x) = b /\ AnswersTo(y) = f[Len(y)].bytes
  <2>1. n \in 0 .. Len(y)
    BY <1>1
  <2> QED BY <1>2, <1>3, <2>1 DEF AnswersTo, f
<1>5. SUFFICES ASSUME Bad # {} PROVE FALSE
  <2>1. Bad = {}
    BY <1>5
  <2>2. Len(y) \in n .. Len(y)
    BY <1>1
  <2>3. FirstOf(b, f[Len(y)].bytes)
    BY <2>1, <2>2
  <2> QED BY <1>4, <2>3
<1> HIDE DEF b
<1>6. PICK m \in Bad : \A k \in Bad : m <= k
  <2>1. Bad \in SUBSET Nat
    BY <1>1
  <2> HIDE DEF Bad
  <2> QED BY <1>5, <2>1, LeastNatural
<1>7. m \in n .. Len(y) /\ ~FirstOf(b, f[m].bytes)
  OBVIOUS
<1>8. m # n
  <2>1. FirstOf(b, b)
    BY <1>4, FirstOfLonger
  <2> QED BY <1>7, <2>1 DEF b
<1>9. m - 1 \in n .. Len(y) /\ m - 1 \in 0 .. Len(y) /\ ~(m <= m - 1) /\ m \in 1 .. Len(y)
  BY <1>1, <1>7, <1>8
<1>10. FirstOf(b, f[m - 1].bytes)
  <2>1. m - 1 \notin Bad
    <3> HIDE DEF Bad
    <3> QED BY <1>6, <1>9
  <2> QED BY <1>9, <2>1
<1> HIDE DEF Bad
<1> DEFINE u == f[m - 1].bytes
           v == AnswerTo(f[m - 1].map, y[m])
           w == f[m].bytes
<1>11. u \in Seq(Atoms) /\ w \in Seq(Atoms) /\ v \in Seq(Atoms) /\ w = u \o v
  <2>1. f[m] = After(f[m - 1], y[m]) /\ f[m - 1] \in MapStates /\ y[m] \in Calls
    BY <1>2, <1>9
  <2>2. v \in Seq(Atoms)
    BY <2>1, AnswerType DEF MapStates
  <2>3. w = u \o v
    <3>1. \A s, a : After(s, a).bytes = s.bytes \o AnswerTo(s.map, a)
      BY DEF After
    <3> QED BY <2>1, <3>1
  <2>4. m \in 0 .. Len(y)
    BY <1>1, <1>9
  <2> QED BY <1>2, <1>9, <2>2, <2>3, <2>4
<1> HIDE DEF u, v, w
<1>12. FirstOf(u, w)
  BY <1>11, FirstOfLonger
<1>13. FirstOf(b, w)
  BY <1>4, <1>10, <1>11, <1>12, FirstOfFirst DEF u
<1> QED BY <1>7, <1>13 DEF w

-----------------------------------------------------------------------------
\* What arrives asks for texts that have an object.

\* What has been asked for stands in the stream.
LEMMA AskedOf ==
  ASSUME NEW S \in Seq(Requests), NEW n \in 0 .. Len(S)
  PROVE  \A i \in 1 .. Len(AsksFor(S, n)) : \E j \in 1 .. Len(S) : AsksFor(S, n)[i] = S[j].args
<1> DEFINE x(k) == AsksFor(S, k)
           Found(k) == \A i \in 1 .. Len(x(k)) : \E j \in 1 .. Len(S) : x(k)[i] = S[j].args
           Bad == {k \in 0 .. Len(S) : ~Found(k)}
           T == Seq(Seq(Bytes))
<1>1. /\ Len(S) \in Nat /\ \A k \in 0 .. Len(S) : x(k) \in Seq(T)
      /\ x(0) = <<>> /\ \A k \in 0 .. Len(S) - 1 : AsksMore(S, k)
  BY AsksIs
<1> HIDE DEF T
<1>2. SUFFICES ASSUME Bad # {} PROVE FALSE
  OBVIOUS
<1>3. PICK m \in Bad : \A k \in Bad : m <= k
  <2>1. Bad \in SUBSET Nat
    BY <1>1
  <2> HIDE DEF Bad
  <2> QED BY <1>2, <2>1, LeastNatural
<1>4. m \in 0 .. Len(S) /\ ~Found(m)
  OBVIOUS
<1>5. m # 0
  <2>1. Found(0)
    BY <1>1
  <2> HIDE DEF Found
  <2> QED BY <1>4, <2>1
<1> DEFINE b == m - 1
<1>6. b \in 0 .. Len(S) - 1 /\ b \in 0 .. Len(S) /\ b + 1 = m /\ ~(m <= b) /\ m \in 1 .. Len(S)
  BY <1>1, <1>4, <1>5
<1> HIDE DEF b
<1>7. Found(b)
  <2>1. b \notin Bad
    <3> HIDE DEF Bad
    <3> QED BY <1>3, <1>6
  <2> HIDE DEF Found
  <2> QED BY <1>6, <2>1
<1> HIDE DEF Bad
<1> DEFINE y == x(b)
           a == S[m].args
<1>8. x(m) = IF a = <<>> THEN y ELSE Append(y, a)
  <2>1. AsksMore(S, b)
    BY <1>1, <1>6
  <2> QED BY <1>6, <2>1 DEF AsksMore
<1>9. y \in Seq(T)
  BY <1>1, <1>6
<1>10. \A i \in 1 .. Len(y) : \E j \in 1 .. Len(S) : y[i] = S[j].args
  BY <1>7
<1> HIDE DEF y
<1>11. CASE a = <<>>
  BY <1>4, <1>8, <1>10, <1>11
<1>12. CASE a # <<>>
  <2> DEFINE z == Append(y, a)
  <2>1. Len(z) = Len(y) + 1 /\ Len(y) \in Nat /\ z[Len(y) + 1] = a /\ \A i \in 1 .. Len(y) : z[i] = y[i]
    BY <1>9
  <2> HIDE DEF z
  <2>2. ASSUME NEW i \in 1 .. Len(z) PROVE \E j \in 1 .. Len(S) : z[i] = S[j].args
    <3>1. CASE i = Len(y) + 1
      BY <1>6, <2>1, <3>1
    <3>2. CASE i # Len(y) + 1
      <4>1. i \in 1 .. Len(y)
        BY <2>1, <3>2
      <4> QED BY <1>10, <2>1, <4>1
    <3> QED BY <3>1, <3>2
  <2>3. x(m) = z
    BY <1>8, <1>12 DEF z
  <2> QED BY <1>4, <2>2, <2>3
<1> QED BY <1>11, <1>12

\* Of what an orderly stream asks for, the map can keep all that is to be kept.
LEMMA AskedAreCalls ==
  ASSUME NEW S \in Streams, NEW n \in 0 .. Len(S)
  PROVE  AsksFor(S, n) \in Seq(Calls)
<1> DEFINE x == AsksFor(S, n)
           T == Seq(Seq(Bytes))
<1>1. S \in Seq(Requests)
  BY QueryAssumption
<1>2. x \in Seq(T) /\ \A i \in 1 .. Len(x) : \E j \in 1 .. Len(S) : x[i] = S[j].args
  BY <1>1, AsksIs, AskedOf
<1> HIDE DEF x
<1>3. ASSUME NEW i \in 1 .. Len(x) PROVE x[i] \in Calls
  <2>1. x[i] \in T
    BY <1>2
  <2>2. PICK j \in 1 .. Len(S) : x[i] = S[j].args
    BY <1>2
  <2>3. j \in DOMAIN S
    BY <1>1
  <2>4. IsStore(S[j].args) => \E o \in DOMAIN StoredText : StoredText[o] = S[j].args[3]
    BY <2>3, SessionAssumption
  <2>5. Storable(x[i])
    BY <2>2, <2>4 DEF Storable, ObjectTexts
  <2> QED BY <2>1, <2>5 DEF Calls
<1>4. Len(x) \in Nat /\ x = [i \in 1 .. Len(x) |-> x[i]]
  BY <1>2
<1>5. x \in Seq(Calls)
  BY <1>3, <1>4
<1> QED BY <1>5 DEF x

\* The requests executed and those that have arrived, while the parser has its way.
LEMMA FlowCalls ==
  ASSUME QInv, QSocket, QFlow, orderly
  PROVE  /\ executed \in Seq(Calls) /\ Arrived \in Seq(Calls) /\ FirstOf(executed, Arrived)
         /\ at = "idle" => executed = Arrived
         /\ ~q.error
<1> DEFINE S == sent
           real == AsksFor(S, arrived)
<1>1. /\ at = "idle" => executed = Arrived
      /\ IsPrefix(executed, Arrived) /\ ~q.error
  BY FlowExecutes DEF ArrivedAreExecuted
<1>2. S \in Streams /\ S \in Seq(Requests) /\ arrived \in 0 .. Len(S)
  <2>1. S \in Streams /\ S \in Seq(Requests)
    BY QueryAssumption DEF QSocket
  <2>2. arrived \in Nat /\ arrived + Ends(socket) <= Len(S) /\ socket \in Seq(Marked)
    BY DEF QInv, QStream
  <2>3. Ends(socket) \in Nat
    BY <2>2, EndsNat
  <2> DEFINE z == Ends(socket)
  <2> HIDE DEF z
  <2>4. z \in Nat /\ arrived + z <= Len(S)
    BY <2>2, <2>3 DEF z
  <2> QED BY <2>1, <2>2, <2>4
<1>3. executed \in Seq(Calls)
  <2>1. Follows(S, q, pos, at, executed, Taken)
    BY DEF QFlow
  <2>2. PICK n \in 0 .. Len(S) : executed = AsksFor(S, n)
    <3>1. CASE \E n, c \in Nat : Flows(S, q, pos, at, executed, Taken, n, c)
      BY <3>1 DEF Flows, Frame
    <3>2. CASE \E n \in Nat : Gone(S, q, at, executed, Taken, n)
      <4>1. PICK n \in Nat : Gone(S, q, at, executed, Taken, n)
        BY <3>2
      <4>2. n \in 1 .. Len(S) /\ executed = AsksFor(S, n)
        BY <4>1 DEF Gone
      <4> QED BY <1>2, <4>2
    <3> QED BY <2>1, <3>1, <3>2 DEF Follows
  <2> QED BY <1>2, <2>2, AskedAreCalls
<1>4. Arrived \in Seq(Calls)
  <2>1. Arrived = CutAt(real)
    <3>1. Requested(arrived) = real
      BY DEF Requested, AsksFor, AskedBy
    <3> QED BY <3>1 DEF Arrived, CutAt
  <2>2. real \in Seq(Calls)
    BY <1>2, AskedAreCalls
  <2> HIDE DEF real
  <2> DEFINE finals == {i \in DOMAIN real : Final(real[i])}
             u == Min(finals)
  <2>3. CASE finals = {}
    BY <2>1, <2>2, <2>3 DEF CutAt
  <2>4. CASE finals # {}
    <3>1. finals \in SUBSET Nat /\ finals \subseteq 1 .. Len(real)
      BY <2>2
    <3> HIDE DEF finals
    <3>2. u \in finals
      BY <2>4, <3>1, MinOfSet
    <3>3. u \in 1 .. Len(real)
      BY <3>1, <3>2
    <3> HIDE DEF u
    <3>4. SubSeq(real, 1, u) \in Seq(Calls)
      BY <2>2, <3>3
    <3>5. CutAt(real) = SubSeq(real, 1, u)
      BY <2>4 DEF CutAt, finals, u
    <3> QED BY <2>1, <3>4, <3>5
  <2> QED BY <2>3, <2>4
<1>5. FirstOf(executed, Arrived)
  BY <1>1, <1>3, <1>4, PrefixIsFirst
<1> QED BY <1>1, <1>3, <1>4, <1>5

-----------------------------------------------------------------------------
\* What has been sent, and the rest of it.

\* Any shared reply.
LEMMA SharedKeeps ==
  ASSUME RInv, NEW o \in DOMAIN SharedText, Answer(addReply(out, o), SharedText[o])
  PROVE  RInv'
<1> DEFINE s == addReply(out, o)
           bytes == SharedText[o]
           p == PendingBytes(out)
<1>1. Answer(s, bytes) /\ bytes \in Seq(Atoms)
  BY ReplyAssumption
<1>2. Good(out, Permanent, 4, p)
  <2> HIDE DEF s, bytes
  <2> QED BY <1>1, ReadyGood
<1> HIDE DEF p
<1>3. Good(s, Permanent, 3, p \o bytes) /\ out.spoiled \subseteq s.spoiled
  <2>1. 3 \in Nat /\ Good(out, Permanent, 3 + 1, p)
    <3>1. 4 = 3 + 1
      OBVIOUS
    <3> QED BY <1>2, <3>1
  <2> QED BY <2>1, ReplySharedGood
<1> HIDE DEF s, bytes
<1> QED BY <1>1, <1>3, AnswerGood DEF p

\* Whatever was sent is the beginning of what the commands replied, also when
\* the process has ended in the middle of a write.
SentFirst == out.spoiled = {} => FirstOf(wire, expected)

\* The wire keeps to the replies, through every reply and every write.
LEMMA SentFirstKeeps ==
  ASSUME RInv, RInv', SentFirst, [ReplyNext]_outputVars \/ sender' # "dead"
  PROVE  SentFirst'
<1>0. \A x, y, z \in Seq(Atoms) : (x \o y) \o z = x \o (y \o z)
  BY Regroup
<1>1. /\ wire \in Seq(Atoms) /\ expected \in Seq(Atoms) /\ wire' \in Seq(Atoms) /\ expected' \in Seq(Atoms)
      /\ sender \in {"idle", "sending", "dead"} /\ WellTyped(out) /\ WellTyped(out)'
      /\ out.spoiled = {} /\ sender # "dead" => wire \o PendingBytes(out) = expected
      /\ out'.spoiled = {} /\ sender' # "dead" => wire' \o PendingBytes(out)' = expected'
  BY DEF RInv
<1>2. CASE sender' # "dead"
  <2>1. PendingBytes(out)' \in Seq(Atoms)
    <3>1. WellTyped(out')
      BY <1>1 DEF WellTyped, IntsStored, Allocated, Headed, TextOf
    <3>2. PendingBytes(out') \in Seq(Atoms)
      BY <3>1, ListedTexts DEF WellTyped
    <3> QED BY <3>2 DEF PendingBytes, TextOf
  <2> DEFINE p == PendingBytes(out)'
  <2> HIDE DEF p
  <2>2. FirstOf(wire', wire' \o p)
    BY <1>1, <2>1, FirstOfLonger DEF p
  <2> QED BY <1>1, <1>2, <2>2 DEF SentFirst, p, FirstOf
<1>3. CASE sender' = "dead" /\ (UNCHANGED outputVars \/ StopWriting)
  <2>1. wire' = wire /\ expected' = expected
    BY <1>3 DEF outputVars, StopWriting
  <2>2. out'.spoiled = out.spoiled
    <3>1. CASE UNCHANGED outputVars
      BY <3>1 DEF outputVars
    <3>2. CASE StopWriting
      <4>1. out' = [out EXCEPT !.watched = FALSE] \/ out' = out
        BY <3>2 DEF StopWriting
      <4>2. out \in Clients
        BY <1>1 DEF WellTyped
      <4> QED BY <4>1, <4>2 DEF Clients
    <3> QED BY <1>3, <3>1, <3>2
  <2> QED BY <2>1, <2>2 DEF SentFirst, FirstOf
<1>4. CASE WriteFails
  <2> DEFINE x == Outgoing(out)
             p == PendingBytes(out)
  <2>1. /\ sender = "sending" /\ Pending(out) /\ out' = out /\ expected' = expected
  BY <1>4 DEF WriteFails
  <2>2. PICK k \in 0 .. Len(x) - 1 : wire' = wire \o SubSeq(x, 1, k)
    BY <1>4 DEF WriteFails
  <2> SUFFICES ASSUME out.spoiled = {} PROVE FirstOf(wire', expected')
    BY <2>1 DEF SentFirst, FirstOf
  <2>3. wire \o p = expected
    BY <1>1, <2>1
  <2>4. PICK r \in Seq(Atoms) : p = x \o r /\ x \in Seq(Atoms)
    <3>1. /\ WellTyped(out) /\ Counted(out, Permanent) /\ (out.spoiled = {} => Untouched(out))
      BY DEF RInv
    <3>2. p = x \o PendingBytes(Sent(out)) /\ x \in Seq(Atoms) /\ WellTyped(Sent(out))
      <4>1. CASE out.buf # <<>>
        BY <3>1, <4>1, BufferSent
      <4>2. CASE out.buf = <<>>
        <5>1. out.reply # <<>>
          BY <2>1, <4>2 DEF Pending
        <5> QED BY <3>1, <4>2, <5>1, NodeSent
      <4> QED BY <4>1, <4>2
    <3>3. PendingBytes(Sent(out)) \in Seq(Atoms)
      BY <3>2, ListedTexts DEF WellTyped
    <3> QED BY <3>2, <3>3
  <2> HIDE DEF x, p
  <2>5. Len(x) \in Nat /\ k \in Nat /\ k <= Len(x)
    BY <2>2, <2>4
  <2> DEFINE y == SubSeq(x, 1, k)
             z == SubSeq(x, k + 1, Len(x))
  <2>6. y \in Seq(Atoms) /\ z \in Seq(Atoms) /\ y \o z = x
    <3>1. y \in Seq(Atoms) /\ z \in Seq(Atoms)
      BY <2>4, <2>5
    <3>2. y \o z = x
      BY <2>4, <2>5
    <3> QED BY <3>1, <3>2
  <2> HIDE DEF y, z
  <2>7. expected = (wire \o y) \o (z \o r) /\ wire \o y \in Seq(Atoms) /\ z \o r \in Seq(Atoms)
    <3>1. wire \in Seq(Atoms) /\ y \in Seq(Atoms) /\ z \in Seq(Atoms) /\ r \in Seq(Atoms)
      BY <1>1, <2>4, <2>6
    <3>2. expected = wire \o ((y \o z) \o r)
      BY <2>3, <2>4, <2>6
    <3> DEFINE s == z \o r
    <3>3. s \in Seq(Atoms) /\ wire \o y \in Seq(Atoms)
      BY <3>1, ConcatProperties
    <3>5. (y \o z) \o r = y \o s
      BY <1>0, <3>1
    <3> HIDE DEF s
    <3>6. wire \o (y \o s) = (wire \o y) \o s
      BY <1>0, <3>1, <3>3
    <3> QED BY <3>2, <3>3, <3>5, <3>6 DEF s
  <2>8. wire' = wire \o y
    BY <2>2 DEF y
  <2> DEFINE w == wire \o y
             v == z \o r
  <2>9. w \in Seq(Atoms) /\ v \in Seq(Atoms) /\ expected = w \o v /\ wire' = w
    BY <2>7, <2>8
  <2> HIDE DEF w, v
  <2>10. FirstOf(w, w \o v)
    BY <2>9, FirstOfLonger
  <2> QED BY <2>1, <2>9, <2>10
<1>5. CASE ReplyNext /\ ~WriteFails /\ ~StopWriting
  <2>1. sender' # "dead"
    BY <1>1, <1>5 DEF ReplyNext, ReplyOk, ReplyBulk, ReplyError, ReplyQuit, ReplyProtocolError, Answer,
       sendReplyToClient, WriteAll, WriteBlocked
  <2> QED BY <1>2, <2>1
<1> QED BY <1>2, <1>3, <1>4, <1>5

-----------------------------------------------------------------------------
\* The commands, against the map.

\* Every key has an object of the table, with the text the map has.
Kept == \A k \in DOMAIN dict : dict[k] \in DOMAIN StoredText
Agrees(d, m) == DOMAIN d = DOMAIN m /\ \A k \in DOMAIN d : StoredText[d[k]] = m[k]

\* A text has an object, and the one with its bytes if there is any.
LEMMA ObjectIs ==
  ASSUME NEW t
  PROVE  ObjectOf(t) \in DOMAIN StoredText /\ (t \in ObjectTexts => StoredText[ObjectOf(t)] = t)
<1>1. CASE \E o \in DOMAIN StoredText : StoredText[o] = t
  <2> DEFINE o == CHOOSE o \in DOMAIN StoredText : StoredText[o] = t
  <2>1. o \in DOMAIN StoredText /\ StoredText[o] = t
    BY <1>1
  <2>2. ObjectOf(t) = o
    BY <1>1 DEF ObjectOf
  <2> HIDE DEF o
  <2> QED BY <2>1, <2>2
<1>2. CASE ~ \E o \in DOMAIN StoredText : StoredText[o] = t
  BY <1>2, SessionAssumption DEF ObjectOf, ObjectTexts
<1> QED BY <1>1, <1>2

\* What the commands reply: one of five, or nothing for a name that is not decoded.
LEMMA CommandIs ==
  ASSUME NEW argv, processCommand(argv)
  PROVE  \/ argv[1] = Quit /\ ReplyQuit /\ dict' = dict
         \/ Raises(argv) /\ UNCHANGED outputVars /\ dict' = dict
         \/ argv[1] # Quit /\ ~Raises(argv) /\ ~Accepted(argv) /\ ReplyError /\ dict' = dict
         \/ /\ argv[1] = Get /\ Len(argv) = 2 /\ argv[2] \in DOMAIN dict /\ dict' = dict
            /\ LET o == dict[argv[2]]
               IN  Answer(addReplyBulk(out, o), HeaderText(Len(Text0(o))) \o Text0(o) \o SharedText["crlf"])
         \/ /\ argv[1] = Get /\ Len(argv) = 2 /\ argv[2] \notin DOMAIN dict /\ dict' = dict
            /\ Answer(addReply(out, "nullbulk"), SharedText["nullbulk"])
         \/ /\ argv[1] = Set /\ Len(argv) >= 3 /\ ~IsStore(argv) /\ dict' = dict
            /\ Answer(addReply(out, "syntaxerr"), SharedText["syntaxerr"])
         \/ /\ IsStore(argv) /\ Refused(Options(argv), argv[2], DOMAIN dict) /\ dict' = dict
            /\ Answer(addReply(out, "nullbulk"), SharedText["nullbulk"])
         \/ /\ IsStore(argv) /\ ~Refused(Options(argv), argv[2], DOMAIN dict)
            /\ dict' = setKey(dict, argv[2], ObjectOf(argv[3]))
            /\ Answer(addReply(out, "ok"), SharedText["ok"])
<1>0. <<"g">> # <<"s">> /\ Get # Set
  <2>1. <<"g">>[1] # <<"s">>[1]
    OBVIOUS
  <2> QED BY <2>1 DEF Get, Set
<1>1. CASE quit(argv)
  BY <1>1 DEF quit
<1>5. CASE undecoded(argv)
  BY <1>5 DEF undecoded
<1>2. CASE rejected(argv)
  BY <1>2 DEF rejected, ReplyError, ErrorText
<1>3. CASE getCommand(argv)
  BY <1>0, <1>3 DEF getCommand, Accepted
<1>4. CASE setCommand(argv)
  <2>1. argv[1] = Set /\ Len(argv) >= 3
    BY <1>0, <1>4 DEF setCommand, Accepted
  <2>2. CASE ~IsStore(argv)
    BY <1>4, <2>1, <2>2 DEF setCommand
  <2>3. CASE IsStore(argv) /\ Refused(Options(argv), argv[2], DOMAIN dict)
    BY <1>4, <2>3 DEF setCommand
  <2>4. CASE IsStore(argv) /\ ~Refused(Options(argv), argv[2], DOMAIN dict)
    BY <1>4, <2>4 DEF setCommand
  <2> QED BY <2>2, <2>3, <2>4
<1> QED BY <1>1, <1>2, <1>3, <1>4, <1>5 DEF processCommand

\* A command, whatever its words, keeps the output and the objects of the keys.
LEMMA CommandKeeps ==
  ASSUME NEW argv, RInv, SentFirst, Kept, processCommand(argv)
  PROVE  RInv' /\ SentFirst' /\ Kept'
<1>1. RInv' /\ Kept' /\ (UNCHANGED outputVars \/ sender' # "dead")
  <2>7. CASE UNCHANGED outputVars /\ dict' = dict
    <3>1. RInv'
      BY <2>7, NextCounted
    <3> QED BY <2>7, <3>1 DEF Kept
  <2>1. CASE ReplyQuit /\ dict' = dict
    BY <2>1, OkKeeps DEF Kept, ReplyQuit, Answer
  <2>2. CASE ReplyError /\ dict' = dict
    BY <2>2, ErrorKeeps DEF Kept, ReplyError, Answer
  <2>3. CASE /\ argv[2] \in DOMAIN dict /\ dict' = dict
             /\ LET o == dict[argv[2]]
                IN  Answer(addReplyBulk(out, o), HeaderText(Len(Text0(o))) \o Text0(o) \o SharedText["crlf"])
    <3>1. dict[argv[2]] \in DOMAIN StoredText
      BY <2>3 DEF Kept
    <3>2. ReplyBulk
      BY <2>3, <3>1 DEF ReplyBulk
    <3> QED BY <2>3, <3>2, BulkKeeps DEF Kept, Answer
  <2>4. ASSUME NEW o \in {"nullbulk", "syntaxerr", "ok"}, Answer(addReply(out, o), SharedText[o])
        PROVE  RInv' /\ sender' # "dead"
    <3>1. o \in DOMAIN SharedText
      BY <2>4, ReplyTexts
    <3>2. RInv'
      BY <2>4, <3>1, SharedKeeps
    <3> QED BY <2>4, <3>2 DEF Answer
  <2>5. CASE dict' = dict /\ \E o \in {"nullbulk", "syntaxerr"} : Answer(addReply(out, o), SharedText[o])
    BY <2>4, <2>5 DEF Kept
  <2>6. CASE /\ dict' = setKey(dict, argv[2], ObjectOf(argv[3]))
             /\ Answer(addReply(out, "ok"), SharedText["ok"])
    <3>1. ObjectOf(argv[3]) \in DOMAIN StoredText
      BY ObjectIs
    <3>2. Kept'
      BY <2>6, <3>1 DEF Kept, setKey
    <3> QED BY <2>4, <2>6, <3>2
  <2> QED BY <2>1, <2>2, <2>3, <2>5, <2>6, <2>7, CommandIs
<1> QED BY <1>1, SentFirstKeeps

\* What a command says and leaves is what a map says and becomes.
LEMMA CommandAnswers ==
  ASSUME NEW argv \in Calls, NEW m, RInv, Agrees(dict, m), Kept, processCommand(argv)
  PROVE  expected' = expected \o AnswerTo(m, argv) /\ Agrees(dict', MapAfter(m, argv))
<1>1. <<"g">> # <<"s">> /\ Get # Set /\ Quit # Get /\ Quit # Set
  <2>1. <<"g">>[1] # <<"s">>[1] /\ <<"q">>[1] # <<"g">>[1] /\ <<"q">>[1] # <<"s">>[1]
    OBVIOUS
  <2> QED BY <2>1 DEF Get, Set, Quit
<1>2. Storable(argv)
  BY DEF Calls
<1> DEFINE stores == Stores(m, argv)
<1>3. /\ IsStore(argv) => argv[1] = Set /\ Len(argv) >= 3
      /\ stores <=> IsStore(argv) /\ ~Refused(Options(argv), argv[2], DOMAIN dict)
      /\ Raises(argv) => argv[1] # Get /\ argv[1] # Set /\ argv[1] # Quit
  BY SessionAssumption DEF IsStore, Stores, Refused, Agrees, Raises
<1>4. ~stores => MapAfter(m, argv) = m
  BY DEF MapAfter
<1>11. CASE Raises(argv) /\ UNCHANGED outputVars /\ dict' = dict
  <2>1. AnswerTo(m, argv) = <<>> /\ ~stores
    BY <1>3, <1>11 DEF AnswerTo
  <2>2. expected \in Seq(Atoms) /\ expected' = expected
    BY <1>11 DEF RInv, outputVars
  <2>3. expected \o <<>> = expected
    BY <2>2
  <2> QED BY <1>4, <1>11, <2>1, <2>2, <2>3
<1>5. CASE argv[1] = Quit /\ ReplyQuit /\ dict' = dict
  <2>1. AnswerTo(m, argv) = SharedText["ok"] /\ ~stores
    BY <1>1, <1>3, <1>5 DEF AnswerTo
  <2> QED BY <1>4, <1>5, <2>1 DEF ReplyQuit, Answer
<1>6. CASE argv[1] # Quit /\ ~Raises(argv) /\ ~Accepted(argv) /\ ReplyError /\ dict' = dict
  <2>1. ~(argv[1] = Get /\ Len(argv) = 2) /\ ~(argv[1] = Set /\ Len(argv) >= 3)
    BY <1>6 DEF Accepted
  <2>2. AnswerTo(m, argv) = <<"err", "msg", "eol">> /\ ~stores
    BY <1>6, <1>3, <2>1 DEF AnswerTo, ErrorText
  <2> QED BY <1>4, <1>6, <2>2 DEF ReplyError, Answer
<1>7. CASE /\ argv[1] = Get /\ Len(argv) = 2 /\ argv[2] \in DOMAIN dict /\ dict' = dict
           /\ LET o == dict[argv[2]]
              IN  Answer(addReplyBulk(out, o), HeaderText(Len(Text0(o))) \o Text0(o) \o SharedText["crlf"])
  <2> DEFINE o == dict[argv[2]]
  <2>1. o \in DOMAIN StoredText /\ StoredText[o] = m[argv[2]] /\ argv[2] \in DOMAIN m
    BY <1>7 DEF Kept, Agrees
  <2>2. expected' = expected \o (HeaderText(Len(Text0(o))) \o Text0(o) \o SharedText["crlf"])
    BY <1>7 DEF Answer
  <2> HIDE DEF o
  <2>3. Text0(o) = m[argv[2]]
    BY <2>1, ReplyAssumption DEF Text0
  <2>4. AnswerTo(m, argv) = HeaderText(Len(m[argv[2]])) \o m[argv[2]] \o SharedText["crlf"] /\ ~stores
    BY <1>1, <1>3, <1>7, <2>1 DEF AnswerTo
  <2> QED BY <1>4, <1>7, <2>2, <2>3, <2>4
<1>8. CASE /\ argv[1] = Get /\ Len(argv) = 2 /\ argv[2] \notin DOMAIN dict /\ dict' = dict
           /\ Answer(addReply(out, "nullbulk"), SharedText["nullbulk"])
  <2>1. argv[2] \notin DOMAIN m
    BY <1>8 DEF Agrees
  <2>2. AnswerTo(m, argv) = SharedText["nullbulk"] /\ ~stores
    BY <1>1, <1>3, <1>8, <2>1 DEF AnswerTo
  <2> QED BY <1>4, <1>8, <2>2 DEF Answer
<1>9. CASE /\ argv[1] = Set /\ Len(argv) >= 3 /\ ~IsStore(argv) /\ dict' = dict
           /\ Answer(addReply(out, "syntaxerr"), SharedText["syntaxerr"])
  <2>1. AnswerTo(m, argv) = SharedText["syntaxerr"] /\ ~stores
    BY <1>1, <1>3, <1>9 DEF AnswerTo
  <2> QED BY <1>4, <1>9, <2>1 DEF Answer
<1>12. CASE /\ IsStore(argv) /\ Refused(Options(argv), argv[2], DOMAIN dict) /\ dict' = dict
            /\ Answer(addReply(out, "nullbulk"), SharedText["nullbulk"])
  <2>1. AnswerTo(m, argv) = SharedText["nullbulk"] /\ ~stores
    BY <1>1, <1>3, <1>12 DEF AnswerTo
  <2> QED BY <1>4, <1>12, <2>1 DEF Answer
<1>10. CASE /\ IsStore(argv) /\ ~Refused(Options(argv), argv[2], DOMAIN dict)
            /\ dict' = setKey(dict, argv[2], ObjectOf(argv[3]))
            /\ Answer(addReply(out, "ok"), SharedText["ok"])
  <2>1. stores /\ IsStore(argv)
    BY <1>3, <1>10
  <2>2. AnswerTo(m, argv) = SharedText["ok"]
    BY <1>1, <1>3, <2>1 DEF AnswerTo
  <2>3. StoredText[ObjectOf(argv[3])] = argv[3]
    BY <1>2, <2>1, ObjectIs DEF Storable
  <2> DEFINE w == ObjectOf(argv[3])
             d == dict'
             n == MapAfter(m, argv)
  <2>4. d = [x \in DOMAIN dict \cup {argv[2]} |-> IF x = argv[2] THEN w ELSE dict[x]]
    BY <1>10 DEF setKey
  <2>5. n = [k \in DOMAIN m \cup {argv[2]} |-> IF k = argv[2] THEN argv[3] ELSE m[k]]
    BY <2>1 DEF MapAfter
  <2> HIDE DEF w, d, n
  <2>6. DOMAIN d = DOMAIN n /\ DOMAIN n = DOMAIN dict \cup {argv[2]}
    BY <2>4, <2>5 DEF Agrees
  <2>7. ASSUME NEW k \in DOMAIN d PROVE StoredText[d[k]] = n[k]
    <3>1. CASE k = argv[2]
      <4>1. d[k] = w /\ n[k] = argv[3]
        BY <2>4, <2>5, <3>1
      <4> QED BY <2>3, <4>1 DEF w
    <3>2. CASE k # argv[2]
      <4>1. k \in DOMAIN dict /\ d[k] = dict[k] /\ n[k] = m[k]
        BY <2>4, <2>5, <2>6, <3>2 DEF Agrees
      <4> QED BY <4>1 DEF Agrees
    <3> QED BY <3>1, <3>2
  <2>8. Agrees(d, n)
    BY <2>6, <2>7 DEF Agrees
  <2> QED BY <1>10, <2>2, <2>8 DEF Answer, d, n
<1> QED BY <1>5, <1>6, <1>7, <1>8, <1>9, <1>10, <1>11, <1>12, CommandIs

-----------------------------------------------------------------------------
\* The session.

\* The answers so far, and the keys, are those of a map.
SInv ==
  /\ RInv /\ SentFirst /\ Kept
  /\ orderly => LET s == Answered(executed)[Len(executed)]
                IN  expected = s.bytes /\ Agrees(dict, s.map)

\* At first nothing has been asked.
LEMMA SessionBegins == SessionInit => SInv
<1> SUFFICES ASSUME SessionInit PROVE SInv
  OBVIOUS
<1>1. RInv
  BY InitCounted DEF SessionInit
<1>2. executed = <<>> /\ wire = <<>> /\ expected = <<>> /\ dict = Nothing
  BY DEF SessionInit, Init, ReplyInit
<1>3. <<>> \in Seq(Calls) /\ <<>> \in Seq(Atoms) /\ Len(<<>>) = 0
  OBVIOUS
<1>4. Answered(executed)[Len(executed)] = Begun
  BY <1>2, <1>3, AnsweredIs DEF FollowsMap
<1>5. SentFirst
  BY <1>2, <1>3, FirstOfLonger DEF SentFirst
<1>6. DOMAIN Nothing = {}
  BY DEF Nothing
<1>7. Kept /\ Agrees(dict, Nothing)
  BY <1>2, <1>6 DEF Kept, Agrees
<1> QED BY <1>1, <1>2, <1>4, <1>5, <1>7 DEF SInv, Begun

\* A step that executes nothing and replies nothing.
LEMMA SilentKeeps ==
  ASSUME SInv, executed' = executed, dict' = dict, expected' = expected, RInv', SentFirst',
         orderly' => orderly
  PROVE  SInv'
<1>1. Kept'
  BY DEF SInv, Kept
<1>2. ASSUME orderly'
      PROVE  LET s == Answered(executed')[Len(executed')] IN expected' = s.bytes /\ Agrees(dict', s.map)
  BY <1>2 DEF SInv
<1> QED BY <1>1, <1>2 DEF SInv, Answered, Agrees, MapAfter, AnswerTo, HeaderText

\* A request that is executed.
LEMMA ExecuteKeeps ==
  ASSUME SInv, Execute, orderly => executed \in Seq(Calls), orderly' => executed' \in Seq(Calls),
         orderly' => orderly
  PROVE  SInv'
<1> DEFINE a == Last(executed')
<1>1. processCommand(a) /\ \E b : executed' = Append(executed, b)
  BY DEF Execute, InlineRequest, MultibulkRequest
<1>2. RInv /\ SentFirst /\ Kept
  BY DEF SInv
<1> HIDE DEF a
<1>3. RInv' /\ SentFirst' /\ Kept'
  BY <1>1, <1>2, CommandKeeps
<1>4. ASSUME orderly'
      PROVE  LET s == Answered(executed')[Len(executed')] IN expected' = s.bytes /\ Agrees(dict', s.map)
  <2> DEFINE x == executed
             y == executed'
             s == Answered(x)[Len(x)]
             t == Answered(y)[Len(y)]
  <2>1. x \in Seq(Calls) /\ y \in Seq(Calls) /\ expected = s.bytes /\ Agrees(dict, s.map)
    BY <1>4 DEF SInv
  <2>2. PICK b : y = Append(x, b)
    BY <1>1
  <2> HIDE DEF y
  <2>3. Len(x) \in Nat /\ Len(y) = Len(x) + 1 /\ y[Len(x) + 1] = b /\ b \in Calls
    <3>1. Len(x) \in Nat /\ Len(y) = Len(x) + 1 /\ y[Len(x) + 1] = b
      BY <2>1, <2>2
    <3>2. Len(x) + 1 \in 1 .. Len(y)
      BY <3>1
    <3>3. y[Len(x) + 1] \in Calls
      BY <2>1, <3>2
    <3> QED BY <3>1, <3>3
  <2>4. a = b
    BY <2>1, <2>3 DEF a, Last, y
  <2>5. t = After(s, b)
    BY <2>1, <2>2, <2>3, AnsweredMore
  <2> HIDE DEF s, t
  <2>6. expected' = expected \o AnswerTo(s.map, b) /\ Agrees(dict', MapAfter(s.map, b))
    BY <1>1, <1>2, <2>1, <2>3, <2>4, CommandAnswers
  <2>7. t.bytes = s.bytes \o AnswerTo(s.map, b) /\ t.map = MapAfter(s.map, b)
    BY <2>5 DEF After
  <2> QED BY <2>1, <2>6, <2>7 DEF t, y
<1> QED BY <1>3, <1>4 DEF SInv, Answered, Agrees, MapAfter, AnswerTo, HeaderText, Stores

\* The map can keep all that orderly requests have it keep, before a step and after it.
OrderlyCalls == orderly => executed \in Seq(Calls) /\ ~q.error

\* While the input is orderly this follows from its invariants.
LEMMA FlowIsCalls == QInv /\ QSocket /\ QFlow => OrderlyCalls
<1> SUFFICES ASSUME QInv, QSocket, QFlow, orderly PROVE executed \in Seq(Calls) /\ ~q.error
  BY DEF OrderlyCalls
<1> QED BY FlowCalls

\* And after the step.
LEMMA FlowIsCallsNext == (QInv /\ QSocket /\ QFlow)' => OrderlyCalls'
<1>1. QInv /\ QSocket /\ QFlow => OrderlyCalls
  BY FlowIsCalls
<1> QED BY <1>1, PTL

\* Every step of a session.
LEMMA SessionKeeps ==
  ASSUME QInv, QSocket, QFlow, QInv', QSocket', QFlow', SInv, [SessionNext]_sessionVars
  PROVE  SInv'
<1>0. (orderly => executed \in Seq(Calls) /\ ~q.error) /\ (orderly' => executed' \in Seq(Calls) /\ ~q'.error)
  BY FlowIsCalls, FlowIsCallsNext DEF OrderlyCalls
<1>1. RInv /\ SentFirst /\ Kept
  BY DEF SInv
<1>2. CASE Read
  <2>1. /\ executed' = executed /\ dict' = dict /\ expected' = expected /\ UNCHANGED outputVars
        /\ orderly' => orderly
    <3>1. UNCHANGED outputVars /\ dict' = dict
      BY <1>2 DEF Read
    <3>2. expected' = expected
      BY <3>1 DEF outputVars
    <3>3. executed' = executed /\ (orderly' => orderly)
      <4>1. CASE readQueryFromClient
        BY <4>1 DEF readQueryFromClient
      <4>2. CASE readQueryEnd
        BY <4>2 DEF readQueryEnd, ghosts
      <4>3. CASE readQueryFails
        BY <4>3 DEF readQueryFails, ghosts
      <4> QED BY <1>2, <4>1, <4>2, <4>3 DEF Read
    <3> QED BY <3>1, <3>2, <3>3
  <2>2. RInv'
    BY <1>1, <2>1, NextCounted
  <2>3. SentFirst'
    BY <1>1, <2>1, <2>2, SentFirstKeeps
  <2> QED BY <2>1, <2>2, <2>3, SilentKeeps
<1>3. CASE Execute
  <2>1. orderly' = orderly
    BY <1>3 DEF Execute, InlineRequest, MultibulkRequest, ghosts
  <2> QED BY <1>0, <1>3, <2>1, ExecuteKeeps
<1>4. CASE Parse
  <2>1. executed' = executed /\ dict' = dict /\ orderly' = orderly
    BY <1>4 DEF Parse, Processing, StopProcessing, InlineWaits, InlineAsserts, InlineEmpty, InlineRequest,
       MultibulkCount, MultibulkResumed, BulkLengthTooLong, BulkLengthBad, BulkLength, BulkArgument,
       MultibulkWaits, MultibulkRequest, ghosts
  <2>2. ReplyProtocolError \/ UNCHANGED outputVars
    BY <1>4 DEF Parse
  <2>3. [ReplyNext]_outputVars
    BY <2>2 DEF ReplyNext
  <2>4. RInv'
    BY <1>1, <2>3, NextCounted
  <2>5. SentFirst'
    BY <1>1, <2>3, <2>4, SentFirstKeeps
  <2>6. CASE orderly
    <3>1. UNCHANGED outputVars
      BY <1>0, <1>4, <2>1, <2>6 DEF Parse
    <3> QED BY <2>1, <2>4, <2>5, <3>1, SilentKeeps DEF outputVars
  <2>7. CASE ~orderly
    <3>1. Kept'
      BY <1>1, <2>1 DEF Kept
    <3> QED BY <2>1, <2>4, <2>5, <2>7, <3>1 DEF SInv
  <2> QED BY <2>6, <2>7
<1>5. CASE Write
  <2>1. [ReplyNext]_outputVars /\ executed' = executed /\ dict' = dict /\ orderly' = orderly
    BY <1>5 DEF Write, ReplyNext, vars
  <2>2. expected' = expected
    BY <1>5 DEF Write, sendReplyToClient, WriteAll, WriteBlocked, WriteFails, StopWriting
  <2>3. RInv'
    BY <1>1, <2>1, NextCounted
  <2>4. SentFirst'
    BY <1>1, <2>1, <2>3, SentFirstKeeps
  <2> QED BY <2>1, <2>2, <2>3, <2>4, SilentKeeps
<1>6. CASE UNCHANGED sessionVars
  <2>1. /\ executed' = executed /\ dict' = dict /\ expected' = expected /\ UNCHANGED outputVars
        /\ orderly' = orderly
    BY <1>6 DEF sessionVars, vars, outputVars
  <2>2. RInv'
    BY <1>1, <2>1, NextCounted
  <2>3. SentFirst'
    BY <1>1, <2>1, <2>2, SentFirstKeeps
  <2> QED BY <2>1, <2>2, <2>3, SilentKeeps
<1> QED BY <1>2, <1>3, <1>4, <1>5, <1>6 DEF SessionNext

\* What the invariants say of the answers.
LEMMA SessionAnswers ==
  ASSUME QInv, QSocket, QFlow, SInv
  PROVE  AnswersInOrder
<1> SUFFICES ASSUME orderly, out.spoiled = {}
             PROVE  /\ IsPrefix(wire, AnswersTo(Arrived))
                    /\ at = "idle" /\ sender # "dead" =>
                         wire \o PendingBytes(out) = AnswersTo(Arrived)
  BY DEF AnswersInOrder
<1>1. /\ executed \in Seq(Calls) /\ Arrived \in Seq(Calls) /\ FirstOf(executed, Arrived)
      /\ at = "idle" => executed = Arrived
  BY FlowCalls
<1>2. expected = AnswersTo(executed) /\ RInv /\ FirstOf(wire, expected)
  BY DEF SInv, AnswersTo, SentFirst
<1>3. wire \in Seq(Atoms) /\ (sender # "dead" => wire \o PendingBytes(out) = expected)
  BY <1>2 DEF RInv
<1>4. FirstOf(expected, AnswersTo(Arrived)) /\ expected \in Seq(Atoms) /\ AnswersTo(Arrived) \in Seq(Atoms)
  BY <1>1, <1>2, AnswersGrow, AnsweredType
<1>5. FirstOf(wire, AnswersTo(Arrived))
  BY <1>2, <1>3, <1>4, FirstOfFirst
<1>6. IsPrefix(wire, AnswersTo(Arrived))
  BY <1>3, <1>4, <1>5, FirstIsPrefix
<1> QED BY <1>1, <1>2, <1>3, <1>6

\* For any streams without a word EX or PX, any texts and bounds, and however
\* reads, replies and writes take turns: what the client has received answers
\* its requests in order as a map from keys to texts would, the options NX and
\* XX included, and between two handlers no answer is missing (getCommand and
\* setCommand through processInputBuffer and sendReplyToClient).  Nothing is
\* answered from a name on that is not UTF-8, which ends the process.  A reply
\* that the socket took in part, another damage that Reply notes, or a read
\* that loses the parser its way ends the promise.
THEOREM AnswersAreInOrder == SessionSpec => []AnswersInOrder
<1> DEFINE I == QInv /\ QSocket /\ QFlow
<1>1. SessionInit => I /\ SInv
  BY QInvInit, FlowInit, SessionBegins DEF SessionInit
<1>2. I /\ SInv /\ [SessionNext]_sessionVars => (I /\ SInv)'
  <2> SUFFICES ASSUME I, SInv, [SessionNext]_sessionVars PROVE (I /\ SInv)'
    OBVIOUS
  <2>1. [Next]_vars
    BY DEF SessionNext, Read, Execute, Parse, Write, Next, Processing, sessionVars
  <2>2. I'
    BY <2>1, FlowNext
  <2>3. SInv'
    BY <2>2, SessionKeeps
  <2> QED BY <2>2, <2>3
<1>3. I /\ SInv => AnswersInOrder
  BY SessionAnswers
<1> QED BY <1>1, <1>2, <1>3, PTL DEF SessionSpec
=============================================================================
