--------------------------- MODULE LineReaderProofs ---------------------------
(***************************************************************************)
(* The lines the server reads are those of its input, for an input of any  *)
(* length, cut into chunks of any size, and any limit; and its buffer      *)
(* never holds more than the limit and one chunk.                          *)
(*                                                                         *)
(* What the loop has read so far ends at a line's end, or is the head of   *)
(* an oversized line: the invariant says which, in the coordinates of the  *)
(* whole input, so that one outcome more is the next line's.               *)
(***************************************************************************)
EXTENDS LineReader, FiniteSetTheorems, SequenceTheorems, TLAPS

-----------------------------------------------------------------------------
(* Sequences of bytes.                                                     *)

Bytes == Seq(Byte)

LEMMA MinIsLeast ==
  ASSUME NEW S, S \subseteq Nat, S # {}
  PROVE  Min(S) \in S /\ \A y \in S : Min(S) <= y
<1> DEFINE R == OpToRel(<, Nat)
<1>1. \A x, y \in Nat : y < x => <<y, x>> \in R
  BY DEF OpToRel
<1>2. IsWellFoundedOn(R, Nat)
  BY NatLessThanWellFounded
<1> HIDE DEF R
<1>3. \E x \in S : \A y \in S : x <= y
  <2>1. PICK x \in S : \A y \in S : <<y, x>> \notin R
    BY <1>2, WFMin
  <2>2. \A y \in S : ~(y < x) /\ x \in Nat /\ y \in Nat
    BY <1>1, <2>1
  <2> QED BY <2>2
<1> QED BY <1>3 DEF Min

LEMMA PieceIs ==
  ASSUME NEW s \in Bytes, NEW i \in 1..(Len(s) + 1), NEW j \in (i - 1)..Len(s)
  PROVE  /\ SubSeq(s, i, j) \in Bytes /\ Len(SubSeq(s, i, j)) = j - i + 1
         /\ \A k \in 1..(j - i + 1) : SubSeq(s, i, j)[k] = s[i + k - 1]
<1>1. \A k \in 1..Len(s) : s[k] \in Byte
  BY ElementOfSeq DEF Bytes
<1>2. Len(s) \in Nat /\ i \in Int /\ j \in Int
  BY LenProperties DEF Bytes
<1>3. \A k \in i..j : s[k] \in Byte
  BY <1>1, <1>2
<1>4. /\ SubSeq(s, i, j) \in Seq(Byte)
      /\ Len(SubSeq(s, i, j)) = IF i <= j THEN j - i + 1 ELSE 0
      /\ \A k \in 1..(j - i + 1) : SubSeq(s, i, j)[k] = s[i + k - 1]
  BY <1>2, <1>3, SubSeqProperties
<1> QED BY <1>2, <1>4 DEF Bytes

\* A sequence with the length and the bytes of a piece is that piece.
LEMMA IsPiece ==
  ASSUME NEW s \in Bytes, NEW i \in 1..(Len(s) + 1), NEW j \in (i - 1)..Len(s),
         NEW t \in Bytes, Len(t) = j - i + 1,
         \A k \in 1..(j - i + 1) : t[k] = s[i + k - 1]
  PROVE  t = SubSeq(s, i, j)
<1>1. /\ SubSeq(s, i, j) \in Bytes /\ Len(SubSeq(s, i, j)) = j - i + 1
      /\ \A k \in 1..(j - i + 1) : SubSeq(s, i, j)[k] = s[i + k - 1]
  BY PieceIs
<1> HIDE DEF Bytes
<1> DEFINE u == SubSeq(s, i, j)
<1>2. u \in Seq(Byte) /\ t \in Seq(Byte) /\ Len(u) = Len(t) /\ \A k \in 1..Len(t) : t[k] = u[k]
  BY <1>1 DEF Bytes
<1> HIDE DEF u
<1>3. t = u
  BY <1>2, SeqEqual
<1> QED BY <1>3 DEF u

\* What is before the first newline, or everything.
LEMMA BodyIs ==
  ASSUME NEW s \in Bytes
  PROVE  /\ Body(s) \in Bytes /\ Len(Body(s)) \in 0..Len(s)
         /\ \A k \in 1..Len(Body(s)) : Body(s)[k] = s[k] /\ s[k] # "newline"
         /\ \/ Newlines(s) = {} /\ Len(Body(s)) = Len(s) /\ Body(s) = s
            \/ Newlines(s) # {} /\ Len(Body(s)) < Len(s) /\ s[Len(Body(s)) + 1] = "newline"
<1>1. Len(s) \in Nat /\ DOMAIN s = 1..Len(s)
  BY LenProperties DEF Bytes
<1>2. CASE Newlines(s) = {}
  <2>1. Body(s) = s
    BY <1>2 DEF Body
  <2>2. \A k \in 1..Len(s) : s[k] # "newline"
    BY <1>1, <1>2 DEF Newlines
  <2> QED BY <1>1, <1>2, <2>1, <2>2
<1>3. CASE Newlines(s) # {}
  <2>1. Newlines(s) \subseteq Nat
    BY <1>1 DEF Newlines
  <2>2. PICK m \in Newlines(s) : m = Min(Newlines(s)) /\ \A y \in Newlines(s) : m <= y
    BY <1>3, <2>1, MinIsLeast
  <2>3. m \in 1..Len(s) /\ s[m] = "newline" /\ Body(s) = SubSeq(s, 1, m - 1)
    BY <1>1, <1>3, <2>2 DEF Body, Newlines
  <2>4. /\ SubSeq(s, 1, m - 1) \in Bytes /\ Len(SubSeq(s, 1, m - 1)) = m - 1
        /\ \A k \in 1..(m - 1) : SubSeq(s, 1, m - 1)[k] = s[k]
    <3>1. 1 \in 1..(Len(s) + 1) /\ m - 1 \in (1 - 1)..Len(s)
      BY <1>1, <2>3
    <3>2. /\ SubSeq(s, 1, m - 1) \in Bytes /\ Len(SubSeq(s, 1, m - 1)) = (m - 1) - 1 + 1
          /\ \A k \in 1..((m - 1) - 1 + 1) : SubSeq(s, 1, m - 1)[k] = s[1 + k - 1]
      BY <3>1, PieceIs
    <3> QED BY <2>3, <3>2
  <2>5. \A k \in 1..(m - 1) : s[k] # "newline"
    <3>1. TAKE k \in 1..(m - 1)
    <3>2. k \in DOMAIN s /\ ~(m <= k)
      BY <1>1, <2>3
    <3> QED BY <2>2, <3>2 DEF Newlines
  <2> QED BY <1>1, <1>3, <2>3, <2>4, <2>5
<1> QED BY <1>2, <1>3

\* The first n bytes.
LEMMA FirstIs ==
  ASSUME NEW s \in Bytes, NEW n \in Nat, n <= Len(s)
  PROVE  First(s, n) = SubSeq(s, 1, n)
<1>1. Len(s) \in Nat
  BY LenProperties DEF Bytes
<1>2. Min({n, Len(s)}) \in {n, Len(s)} /\ \A y \in {n, Len(s)} : Min({n, Len(s)}) <= y
  BY <1>1, MinIsLeast
<1>3. Min({n, Len(s)}) = n
  BY <1>1, <1>2
<1> QED BY <1>3 DEF First

-----------------------------------------------------------------------------
(* The lines of the input.                                                 *)

\* A line begins behind b.
Bound(b)    == b \in 0..Len(input) /\ (b = 0 \/ input[b] = "newline")
Clear(b, e) == \A i \in (b + 1)..e : input[i] # "newline"
\* The ends of lines, up to b.
Until(b)    == {d \in Ends : d <= b}
\* The line that begins behind b ends at e.
LineIn(b, e) == /\ Bound(b) /\ e \in (b + 1)..(Len(input) + 1) /\ Clear(b, e - 1)
                /\ e <= Len(input) => input[e] = "newline"
                /\ e = Len(input) + 1 => b < Len(input)

LEMMA InputIs ==
  ASSUME input \in Bytes
  PROVE  /\ Len(input) \in Nat /\ Ends \subseteq 1..(Len(input) + 1)
         /\ Newlines(input) = {i \in 1..Len(input) : input[i] = "newline"}
         /\ \A b : Until(b) \subseteq Ends
         /\ IsFiniteSet(Ends) /\ Cardinality(Ends) \in Nat
         /\ \A b : IsFiniteSet(Until(b)) /\ Cardinality(Until(b)) \in 0..Cardinality(Ends)
<1>1. Len(input) \in Nat /\ DOMAIN input = 1..Len(input)
  BY LenProperties DEF Bytes
<1>2. Newlines(input) = {i \in 1..Len(input) : input[i] = "newline"}
  BY <1>1 DEF Newlines
<1>3. Ends \subseteq 1..(Len(input) + 1)
  BY <1>1, <1>2 DEF Ends, LineEnds
<1>4. IsFiniteSet(Ends) /\ Cardinality(Ends) \in Nat
  <2>1. IsFiniteSet(1..(Len(input) + 1))
    BY <1>1, FS_Interval
  <2> QED BY <1>3, <2>1, FS_Subset, FS_CardinalityType
<1>5. \A b : Until(b) \subseteq Ends
  BY DEF Until
<1>6. ASSUME NEW b PROVE IsFiniteSet(Until(b)) /\ Cardinality(Until(b)) \in 0..Cardinality(Ends)
  <2>1. IsFiniteSet(Until(b)) /\ Cardinality(Until(b)) <= Cardinality(Ends)
    BY <1>4, <1>5, FS_Subset
  <2>2. Cardinality(Until(b)) \in Nat
    BY <2>1, FS_CardinalityType
  <2> QED BY <1>4, <2>1, <2>2
<1> QED BY <1>1, <1>2, <1>3, <1>4, <1>5, <1>6

\* No two ends have as many before them.
LEMMA EndIsCounted ==
  ASSUME input \in Bytes, NEW e \in Ends
  PROVE  EndOf(Cardinality(Until(e))) = e
<1> DEFINE k == Cardinality(Until(e))
<1>1. \A x : Cardinality({d \in Ends : d <= x}) = Cardinality(Until(x))
  BY DEF Until
<1>2. Ends \subseteq Nat
  BY InputIs
<1>3. ASSUME NEW x \in Ends, NEW y \in Ends, x < y
      PROVE  Cardinality(Until(x)) # Cardinality(Until(y))
  <2>1. Until(x) \subseteq Until(y) /\ y \in Until(y) /\ y \notin Until(x)
    <3>1. \A d \in Ends : d <= x => d <= y
      BY <1>2, <1>3
    <3>2. y <= y /\ ~(y <= x)
      BY <1>2, <1>3
    <3> QED BY <3>1, <3>2 DEF Until
  <2>2. IsFiniteSet(Until(y))
    BY InputIs
  <2> QED BY <2>1, <2>2, FS_Subset
<1>4. \A x \in Ends : Cardinality(Until(x)) = k => x = e
  <2>1. TAKE x \in Ends
  <2>2. x < e \/ e < x \/ x = e
    BY <1>2
  <2> QED BY <1>3, <2>2
<1>5. Cardinality({d \in Ends : d <= e}) = k
  BY <1>1
<1> HIDE DEF k
<1>6. \A x \in Ends : Cardinality({d \in Ends : d <= x}) = k => x = e
  BY <1>1, <1>4
<1>7. EndOf(k) = e
  BY <1>5, <1>6 DEF EndOf
<1> QED BY <1>7 DEF k

LEMMA LineEnding ==
  ASSUME input \in Bytes, NEW b, NEW e, LineIn(b, e)
  PROVE  /\ e \in Ends /\ Begins(e) = b + 1
         /\ Cardinality(Until(e)) = Cardinality(Until(b)) + 1
<1>1. /\ b \in 0..Len(input) /\ (b = 0 \/ input[b] = "newline")
      /\ e \in (b + 1)..(Len(input) + 1) /\ Clear(b, e - 1)
      /\ e <= Len(input) => input[e] = "newline"
      /\ e = Len(input) + 1 => b < Len(input)
      /\ Len(input) \in Nat
  BY InputIs DEF LineIn, Bound
<1>2. Newlines(input) = {i \in 1..Len(input) : input[i] = "newline"}
  BY InputIs
<1>3. \A i \in Newlines(input) : i < e => i <= b
  <2>1. TAKE i \in Newlines(input)
  <2>2. i \in 1..Len(input) /\ input[i] = "newline"
    BY <1>2
  <2>3. i \notin (b + 1)..(e - 1)
    BY <1>1, <2>2 DEF Clear
  <2> QED BY <1>1, <2>2, <2>3
<1>4. Begins(e) = b + 1
  <2> DEFINE S == {0} \cup {i \in Newlines(input) : i < e}
  <2>1. b \in S
    BY <1>1, <1>2
  <2>2. \A y \in S : b >= y /\ y \in Nat
    BY <1>1, <1>2, <1>3
  <2> HIDE DEF S
  <2>3. \A x \in S : (\A y \in S : x >= y) => x = b
    <3>1. TAKE x \in S
    <3>2. HAVE \A y \in S : x >= y
    <3>3. x >= b /\ b >= x /\ x \in Nat /\ b \in Nat
      BY <2>1, <2>2, <3>2
    <3> QED BY <3>3
  <2>4. Max(S) = b
    BY <2>1, <2>2, <2>3 DEF Max
  <2> QED BY <2>4 DEF Begins, S
<1>5. e \in LineEnds
  BY <1>1, <1>2 DEF LineEnds
<1>6. e \in Ends
  <2>1. e <= Len(input) \/ Begins(e) < e
    BY <1>1, <1>4
  <2> QED BY <1>5, <2>1 DEF Ends, IsLine
<1>7. Until(e) = Until(b) \cup {e}
  <2>1. ASSUME NEW d \in Ends, d <= e, d # e PROVE d <= b
    <3>1. d \in 1..(Len(input) + 1) /\ d \in Newlines(input) \cup {Len(input) + 1}
      BY InputIs DEF Ends, LineEnds
    <3>2. d < e /\ d \in Newlines(input)
      BY <1>1, <2>1, <3>1
    <3> QED BY <1>3, <3>2
  <2>2. \A d \in Ends : d <= b => d <= e
    <3>1. TAKE d \in Ends
    <3>2. d \in 1..(Len(input) + 1)
      BY InputIs
    <3> QED BY <1>1, <3>2
  <2>3. e <= e
    BY <1>1
  <2> QED BY <1>6, <2>1, <2>2, <2>3 DEF Until
<1>8. e \notin Until(b)
  BY <1>1 DEF Until
<1>9. Cardinality(Until(b) \cup {e}) = Cardinality(Until(b)) + 1
  <2>1. IsFiniteSet(Until(b))
    BY InputIs
  <2> QED BY <1>8, <2>1, FS_AddElement
<1> QED BY <1>4, <1>6, <1>7, <1>9

\* The outcome after those of the lines up to b is that of the line behind b.
LEMMA LineExpected ==
  ASSUME input \in Bytes, NEW b, NEW e, LineIn(b, e)
  PROVE  LET k == Cardinality(Until(b)) + 1
         IN  /\ k \in 1..Cardinality(Ends) /\ k = Cardinality(Until(e))
             /\ Expected[k] = Outcome(SubSeq(input, b + 1, e - 1))
<1> DEFINE k == Cardinality(Until(b)) + 1
<1>1. e \in Ends /\ Begins(e) = b + 1 /\ Cardinality(Until(e)) = k
  BY LineEnding
<1>2. k \in 1..Cardinality(Ends)
  <2>1. Cardinality(Until(e)) \in 0..Cardinality(Ends) /\ Cardinality(Until(b)) \in Nat
        /\ Cardinality(Ends) \in Nat
    BY InputIs
  <2> QED BY <1>1, <2>1
<1> HIDE DEF k
<1>3. EndOf(k) = e
  BY <1>1, EndIsCounted
<1>4. Expected[k] = Outcome(SubSeq(input, Begins(EndOf(k)), EndOf(k) - 1))
  BY <1>2 DEF Expected
<1> QED BY <1>1, <1>2, <1>3, <1>4 DEF k

\* Behind the last line there is no other.
LEMMA NoLineLeft ==
  ASSUME input \in Bytes, Bound(Len(input))
  PROVE  Cardinality(Until(Len(input))) = Cardinality(Ends)
<1> DEFINE n == Len(input)
<1>1. n \in Nat /\ Ends \subseteq 1..(n + 1) /\ (n = 0 \/ input[n] = "newline")
      /\ Newlines(input) = {i \in 1..n : input[i] = "newline"}
  BY InputIs DEF Bound
<1> HIDE DEF n
<1>2. Begins(n + 1) = n + 1
  <2> DEFINE S == {0} \cup {i \in Newlines(input) : i < n + 1}
  <2>1. n \in S /\ \A y \in S : n >= y /\ y \in Nat
    BY <1>1
  <2> HIDE DEF S
  <2>2. \A x \in S : (\A y \in S : x >= y) => x = n
    <3>1. TAKE x \in S
    <3>2. HAVE \A y \in S : x >= y
    <3>3. x >= n /\ n >= x /\ x \in Nat /\ n \in Nat
      BY <1>1, <2>1, <3>2
    <3> QED BY <3>3
  <2>3. Max(S) = n
    BY <2>1, <2>2 DEF Max
  <2> QED BY <2>3 DEF Begins, S
<1>3. n + 1 \notin Ends
  <2>1. ~(n + 1 <= n) /\ ~(n + 1 < n + 1)
    BY <1>1
  <2> QED BY <1>2, <2>1 DEF Ends, IsLine, n
<1>4. Until(n) = Ends
  <2>1. \A d \in Ends : d <= n
    <3>1. TAKE d \in Ends
    <3>2. d \in 1..(n + 1) /\ d # n + 1
      BY <1>1, <1>3
    <3> QED BY <1>1, <3>2
  <2> QED BY <2>1 DEF Until
<1> QED BY <1>4 DEF n

-----------------------------------------------------------------------------
(* The invariant.                                                          *)

\* How much of the input has left the buffer.
Consumed == arrived - Len(buffer)
Outcomes == {Outcome(s) : s \in Bytes}

BufferInv ==
  /\ input \in Bytes /\ buffer \in Bytes
  /\ arrived \in 0..Len(input) /\ Len(buffer) <= arrived
  /\ \A i \in 1..Len(buffer) : buffer[i] = input[Consumed + i]
  /\ eof => arrived = Len(input)
  /\ BufferIsBounded

OutInv ==
  /\ out \in Seq(Outcomes) /\ Len(out) <= Cardinality(Ends)
  /\ \A k \in 1..Len(out) : out[k] = Expected[k]

\* Every line up to b has given its outcome.
Upto(b) == Len(out) = Cardinality(Until(b))
AtLine  == Bound(Consumed) /\ Upto(Consumed)
AtLast  == eof /\ buffer = <<>> /\ Len(out) = Cardinality(Ends)
\* The line behind b is over the limit, and is being skipped.
InLong(b) ==
  /\ Bound(b) /\ Upto(b) /\ b <= Consumed /\ Clear(b, Consumed)
  /\ b + Limit + 1 <= arrived /\ Clear(b, b + Limit + 1)
  /\ id = IdOf(SubSeq(input, b + 1, b + IdHead))

CursorInv ==
  /\ pc = "line" => AtLine \/ AtLast
  /\ pc = "skip" => \E b : InLong(b)
  /\ pc = "ended" => Len(out) = Cardinality(Ends)

IInv == BufferInv /\ OutInv /\ CursorInv

LEMMA BufferFacts ==
  ASSUME BufferInv
  PROVE  /\ Len(input) \in Nat /\ Len(buffer) \in Nat /\ arrived \in Nat
         /\ Consumed \in 0..Len(input) /\ Consumed + Len(buffer) = arrived
         /\ Limit \in Nat \ {0} /\ IdHead \in Nat \ {0} /\ MaxChunk \in Nat \ {0}
         /\ IdHead <= Limit + 1
BY ReaderAssumption, LenProperties DEF BufferInv, Consumed, Bytes, ReaderAssumption

\* The body of the buffer is a piece of the input without a newline.
LEMMA BufferBody ==
  ASSUME BufferInv
  PROVE  LET l == Len(Body(buffer))
         IN  /\ l \in 0..Len(buffer) /\ Body(buffer) \in Bytes
             /\ Body(buffer) = SubSeq(input, Consumed + 1, Consumed + l)
             /\ Clear(Consumed, Consumed + l)
             /\ Newlines(buffer) = {} => l = Len(buffer) /\ Body(buffer) = buffer
             /\ Newlines(buffer) # {} => l < Len(buffer) /\ input[Consumed + l + 1] = "newline"
<1> DEFINE l == Len(Body(buffer))
<1>1. /\ input \in Bytes /\ buffer \in Bytes /\ arrived <= Len(input)
      /\ \A i \in 1..Len(buffer) : buffer[i] = input[Consumed + i]
  BY DEF BufferInv
<1>2. /\ Len(input) \in Nat /\ Len(buffer) \in Nat /\ arrived \in Nat
      /\ Consumed \in 0..Len(input) /\ Consumed + Len(buffer) = arrived
  BY BufferFacts
<1>3. /\ Body(buffer) \in Bytes /\ l \in 0..Len(buffer)
      /\ \A k \in 1..l : Body(buffer)[k] = buffer[k] /\ buffer[k] # "newline"
      /\ \/ Newlines(buffer) = {} /\ l = Len(buffer) /\ Body(buffer) = buffer
         \/ Newlines(buffer) # {} /\ l < Len(buffer) /\ buffer[l + 1] = "newline"
  BY <1>1, BodyIs
<1>4. Len(Body(buffer)) = l
  OBVIOUS
<1> HIDE DEF l
<1>5. Clear(Consumed, Consumed + l)
  <2>1. ASSUME NEW i \in (Consumed + 1)..(Consumed + l) PROVE input[i] # "newline"
    <3>1. i - Consumed \in 1..l /\ i - Consumed \in 1..Len(buffer) /\ Consumed + (i - Consumed) = i
      BY <1>2, <1>3
    <3>2. buffer[i - Consumed] # "newline" /\ buffer[i - Consumed] = input[i]
      BY <1>1, <1>3, <3>1
    <3> QED BY <3>2
  <2> QED BY <2>1 DEF Clear
<1>6. Body(buffer) = SubSeq(input, Consumed + 1, Consumed + l)
  <2>1. Consumed + 1 \in 1..(Len(input) + 1) /\ Consumed + l \in (Consumed + 1 - 1)..Len(input)
        /\ (Consumed + l) - (Consumed + 1) + 1 = l
    BY <1>1, <1>2, <1>3
  <2>2. \A k \in 1..l : Body(buffer)[k] = input[(Consumed + 1) + k - 1]
    <3>1. TAKE k \in 1..l
    <3>2. k \in 1..Len(buffer) /\ (Consumed + 1) + k - 1 = Consumed + k
      BY <1>2, <1>3
    <3> QED BY <1>1, <1>3, <3>2
  <2> DEFINE i == Consumed + 1
             j == Consumed + l
  <2>3. /\ i \in 1..(Len(input) + 1) /\ j \in (i - 1)..Len(input)
        /\ Len(Body(buffer)) = j - i + 1
        /\ \A k \in 1..(j - i + 1) : Body(buffer)[k] = input[i + k - 1]
    BY <1>4, <2>1, <2>2
  <2> HIDE DEF i, j
  <2>4. Body(buffer) = SubSeq(input, i, j)
    BY <1>1, <1>3, <2>3, IsPiece
  <2> QED BY <2>4 DEF i, j
<1>7. Newlines(buffer) # {} => l < Len(buffer) /\ input[Consumed + l + 1] = "newline"
  <2>1. l < Len(buffer) => l + 1 \in 1..Len(buffer) /\ Consumed + (l + 1) = Consumed + l + 1
    BY <1>2, <1>3
  <2> QED BY <1>1, <1>3, <2>1
<1> QED BY <1>3, <1>5, <1>6, <1>7 DEF l

\* Bytes leave the buffer at its front.
LEMMA Taken ==
  ASSUME BufferInv, NEW n \in 0..Len(buffer), Take(n), UNCHANGED <<input, arrived, eof>>
  PROVE  BufferInv' /\ Consumed' = Consumed + n /\ Len(buffer') = Len(buffer) - n
<1>1. /\ Len(input) \in Nat /\ Len(buffer) \in Nat /\ arrived \in Nat
      /\ Consumed \in 0..Len(input) /\ Consumed + Len(buffer) = arrived
      /\ Limit \in Nat /\ MaxChunk \in Nat
  BY BufferFacts
<1>2. /\ buffer' \in Bytes /\ Len(buffer') = Len(buffer) - n
      /\ \A k \in 1..(Len(buffer) - n) : buffer'[k] = buffer[n + k]
  <2>1. n + 1 \in 1..(Len(buffer) + 1) /\ Len(buffer) \in (n + 1 - 1)..Len(buffer)
    BY <1>1
  <2>2. /\ buffer' \in Bytes /\ Len(buffer') = Len(buffer) - (n + 1) + 1
        /\ \A k \in 1..(Len(buffer) - (n + 1) + 1) : buffer'[k] = buffer[(n + 1) + k - 1]
    BY <2>1, PieceIs DEF Take, BufferInv
  <2>3. Len(buffer) - (n + 1) + 1 = Len(buffer) - n
    BY <1>1
  <2>4. \A k \in 1..(Len(buffer) - n) : (n + 1) + k - 1 = n + k
    BY <1>1
  <2> QED BY <2>2, <2>3, <2>4
<1>3. Consumed' = Consumed + n
  BY <1>1, <1>2 DEF Consumed
<1>4. \A i \in 1..Len(buffer') : buffer'[i] = input[Consumed' + i]
  <2>1. TAKE i \in 1..Len(buffer')
  <2>2. i \in 1..(Len(buffer) - n) /\ n + i \in 1..Len(buffer) /\ Consumed' + i = Consumed + (n + i)
    BY <1>1, <1>2, <1>3
  <2> QED BY <1>2, <2>2 DEF BufferInv
<1>5. BufferIsBounded' /\ Len(buffer') <= arrived
  BY <1>1, <1>2 DEF BufferInv, BufferIsBounded
<1> QED BY <1>2, <1>3, <1>4, <1>5 DEF BufferInv

\* An outcome that is the one of the next line.
LEMMA Emitted ==
  ASSUME input \in Bytes, OutInv, NEW b, NEW e, Upto(b), LineIn(b, e),
         out' = Append(out, Outcome(SubSeq(input, b + 1, e - 1))), input' = input
  PROVE  OutInv' /\ Upto(e)'
<1> DEFINE line == SubSeq(input, b + 1, e - 1)
           k == Len(out) + 1
<1>1. input' = input /\ Ends' = Ends /\ Expected' = Expected /\ \A x : Until(x)' = Until(x)
  BY DEF Ends, LineEnds, IsLine, Begins, Newlines, Expected, EndOf, Until
<1>2. k \in 1..Cardinality(Ends) /\ k = Cardinality(Until(e)) /\ Expected[k] = Outcome(line)
  BY LineExpected DEF Upto
<1>3. line \in Bytes
  <2> DEFINE i == b + 1
             j == e - 1
  <2>1. i \in 1..(Len(input) + 1) /\ j \in (i - 1)..Len(input)
    BY InputIs DEF LineIn, Bound
  <2> HIDE DEF i, j
  <2>2. SubSeq(input, i, j) \in Bytes
    BY <2>1, PieceIs
  <2> QED BY <2>2 DEF i, j
<1>4. Outcome(line) \in Outcomes /\ out' = Append(out, Outcome(line))
  BY <1>3 DEF Outcomes
<1> HIDE DEF line
<1>5. /\ out' \in Seq(Outcomes) /\ Len(out') = k
      /\ \A j \in 1..Len(out) : out'[j] = out[j]
      /\ out'[k] = Outcome(line)
  BY <1>4, AppendProperties DEF OutInv
<1>6. Len(out) \in Nat
  BY LenProperties DEF OutInv
<1>7. \A j \in 1..k : out'[j] = Expected[j]
  <2>1. TAKE j \in 1..k
  <2>2. j \in 1..Len(out) \/ j = k
    BY <1>6
  <2> QED BY <1>2, <1>5, <2>2 DEF OutInv
<1>8. k <= Cardinality(Ends)
  <2>1. Cardinality(Ends) \in Nat
    BY InputIs
  <2> QED BY <1>2, <2>1
<1> HIDE DEF k
<1> QED BY <1>1, <1>2, <1>5, <1>7, <1>8 DEF OutInv, Upto

-----------------------------------------------------------------------------
(* The steps.                                                              *)

LEMMA InitInv == Init => IInv
<1> SUFFICES ASSUME Init PROVE IInv
  OBVIOUS
<1>1. /\ input \in Inputs /\ arrived = 0 /\ buffer = <<>> /\ eof = FALSE
      /\ pc = "line" /\ out = <<>>
  BY DEF Init
<1>2. input \in Bytes
  <2>1. PICK n \in 0..MaxBytes : input \in [1..n -> Byte]
    BY <1>1 DEF Inputs
  <2>2. n \in Nat
    BY ReaderAssumption DEF ReaderAssumption
  <2> QED BY <2>1, <2>2, SeqDef DEF Bytes
<1>3. Len(input) \in Nat /\ Len(buffer) = 0 /\ buffer \in Bytes /\ out \in Seq(Outcomes) /\ Len(out) = 0
  BY <1>1, <1>2, InputIs, EmptySeq DEF Bytes
<1>4. Limit \in Nat /\ MaxChunk \in Nat
  BY ReaderAssumption DEF ReaderAssumption
<1>5. BufferInv
  BY <1>1, <1>2, <1>3, <1>4 DEF BufferInv, Consumed, BufferIsBounded
<1>6. Cardinality(Until(0)) = 0 /\ Cardinality(Ends) \in Nat
  <2>1. Ends \subseteq 1..(Len(input) + 1) /\ Cardinality(Ends) \in Nat
    BY <1>2, InputIs
  <2>2. Until(0) = {}
    <3>1. \A d \in Ends : ~(d <= 0)
      BY <1>3, <2>1
    <3> QED BY <3>1 DEF Until
  <2> QED BY <2>1, <2>2, FS_EmptySet
<1>7. OutInv
  BY <1>3, <1>6 DEF OutInv
<1>8. AtLine
  <2>1. Consumed = 0
    <3>1. arrived = 0 /\ Len(buffer) = 0
      BY <1>1, <1>3
    <3> QED BY <3>1 DEF Consumed
  <2>2. Bound(0) /\ Upto(0)
    BY <1>3, <1>6 DEF Bound, Upto
  <2> QED BY <2>1, <2>2 DEF AtLine
<1> QED BY <1>1, <1>5, <1>7, <1>8 DEF IInv, CursorInv

\* What is said of the input and the outcomes only.
LEMMA InputStays ==
  ASSUME input' = input
  PROVE  /\ Ends' = Ends /\ Expected' = Expected
         /\ \A b : Until(b)' = Until(b) /\ (Bound(b)' <=> Bound(b))
         /\ \A b, e : (Clear(b, e)' <=> Clear(b, e))
         /\ out' = out => (OutInv' <=> OutInv) /\ \A b : Upto(b)' <=> Upto(b)
<1>1. /\ Ends' = Ends /\ Expected' = Expected
      /\ \A b : Until(b)' = Until(b) /\ (Bound(b)' <=> Bound(b))
      /\ \A b, e : (Clear(b, e)' <=> Clear(b, e))
  BY DEF Ends, LineEnds, IsLine, Begins, Newlines, Expected, EndOf, Until, Bound, Clear
<1> QED BY <1>1 DEF OutInv, Upto

LEMMA ArriveKeeps ==
  ASSUME IInv, NEW n \in 1..MaxChunk, Arrive(n)
  PROVE  IInv'
<1>1. /\ Waiting /\ n \in 1..(Len(input) - arrived) /\ arrived' = arrived + n
      /\ buffer' = buffer \o SubSeq(input, arrived + 1, arrived + n)
      /\ UNCHANGED <<input, eof, pc, id, out>>
  BY DEF Arrive
<1>2. /\ Len(input) \in Nat /\ Len(buffer) \in Nat /\ arrived \in Nat
      /\ Consumed \in 0..Len(input) /\ Consumed + Len(buffer) = arrived
      /\ Limit \in Nat /\ MaxChunk \in Nat /\ arrived <= Len(input)
  BY BufferFacts DEF IInv, BufferInv
<1>3. input \in Bytes /\ buffer \in Bytes /\ \A i \in 1..Len(buffer) : buffer[i] = input[Consumed + i]
  BY DEF IInv, BufferInv
<1> DEFINE new == SubSeq(input, arrived + 1, arrived + n)
<1>4. /\ new \in Bytes /\ Len(new) = n
      /\ \A k \in 1..n : new[k] = input[arrived + k]
  <2> DEFINE i == arrived + 1
             j == arrived + n
  <2>1. i \in 1..(Len(input) + 1) /\ j \in (i - 1)..Len(input) /\ j - i + 1 = n
    BY <1>1, <1>2
  <2>2. \A k \in 1..n : i + k - 1 = arrived + k
    BY <1>2
  <2> HIDE DEF i, j
  <2>3. /\ SubSeq(input, i, j) \in Bytes /\ Len(SubSeq(input, i, j)) = n
        /\ \A k \in 1..n : SubSeq(input, i, j)[k] = input[i + k - 1]
    BY <1>3, <2>1, PieceIs
  <2> QED BY <2>2, <2>3 DEF i, j
<1> HIDE DEF new
<1>5. /\ buffer' \in Bytes /\ Len(buffer') = Len(buffer) + n
      /\ \A k \in 1..(Len(buffer) + n) :
           buffer'[k] = IF k <= Len(buffer) THEN buffer[k] ELSE new[k - Len(buffer)]
  <2>1. buffer' = buffer \o new
    BY <1>1 DEF new
  <2> QED BY <1>3, <1>4, <2>1, ConcatProperties DEF Bytes
<1>6. Consumed' = Consumed
  BY <1>1, <1>2, <1>5 DEF Consumed
<1>7. \A i \in 1..Len(buffer') : buffer'[i] = input[Consumed + i]
  <2>1. TAKE i \in 1..Len(buffer')
  <2>2. CASE i <= Len(buffer)
    <3>1. i \in 1..Len(buffer) /\ i \in 1..(Len(buffer) + n)
      BY <1>2, <1>5, <2>2
    <3> QED BY <1>3, <1>5, <2>2, <3>1
  <2>3. CASE ~(i <= Len(buffer))
    <3>1. i - Len(buffer) \in 1..n /\ i \in 1..(Len(buffer) + n)
          /\ arrived + (i - Len(buffer)) = Consumed + i
      BY <1>2, <1>5, <2>3
    <3> QED BY <1>4, <1>5, <2>3, <3>1
  <2> QED BY <2>2, <2>3
\* The reader waits for more only while it has no newline and is within the limit.
<1>8. Len(buffer) <= Limit
  <2>1. ~TooLong /\ Newlines(buffer) = {}
    BY <1>1 DEF Waiting, Complete
  <2>2. Len(Body(buffer)) = Len(buffer)
    BY <1>3, <2>1, BodyIs
  <2> QED BY <1>2, <2>1, <2>2 DEF TooLong
<1>9. BufferInv'
  <2>1. BufferIsBounded'
    BY <1>2, <1>5, <1>8 DEF BufferIsBounded
  <2>2. arrived' \in 0..Len(input) /\ Len(buffer') <= arrived' /\ arrived < Len(input)
    BY <1>1, <1>2, <1>5
  <2>3. eof => FALSE
    BY <1>2, <2>2 DEF IInv, BufferInv
  <2> QED BY <1>1, <1>3, <1>5, <1>6, <1>7, <2>1, <2>2, <2>3 DEF BufferInv
<1>10. ASSUME NEW b, InLong(b) PROVE InLong(b)'
  <2>1. b + Limit + 1 <= arrived'
    BY <1>1, <1>2, <1>10 DEF InLong, Bound
  <2> QED BY <1>1, <1>6, <1>10, <2>1, InputStays DEF InLong
<1>11. CursorInv'
  <2>1. ~AtLast
    BY <1>1, <1>2 DEF AtLast, IInv, BufferInv
  <2>2. AtLine => AtLine'
    BY <1>1, <1>6, InputStays DEF AtLine
  <2> QED BY <1>1, <1>10, <2>1, <2>2, InputStays DEF IInv, CursorInv
<1> QED BY <1>1, <1>9, <1>11, InputStays DEF IInv

LEMMA InputEndsKeeps ==
  ASSUME IInv, InputEnds
  PROVE  IInv'
<1>1. arrived = Len(input) /\ eof' = TRUE /\ UNCHANGED <<input, arrived, buffer, pc, id, out>>
  BY DEF InputEnds
<1>2. Consumed' = Consumed
  BY <1>1 DEF Consumed
<1>3. BufferInv'
  BY <1>1, <1>2 DEF IInv, BufferInv, BufferIsBounded
<1>4. CursorInv'
  <2>1. \A b : InLong(b) => InLong(b)'
    BY <1>1, <1>2, InputStays DEF InLong
  <2>2. (AtLine => AtLine') /\ (AtLast => AtLast')
    BY <1>1, <1>2, InputStays DEF AtLine, AtLast
  <2> QED BY <1>1, <2>1, <2>2, InputStays DEF IInv, CursorInv
<1> QED BY <1>1, <1>3, <1>4, InputStays DEF IInv

\* A line within the limit, whole.
LEMMA ReadLineKeeps ==
  ASSUME IInv, ReadLine
  PROVE  IInv'
<1>0. PICK l, c, e : l = Len(Body(buffer)) /\ c = Consumed /\ e = c + l + 1
  OBVIOUS
<1>1. /\ pc = "line" /\ Newlines(buffer) # {} /\ ~(l > Limit) /\ Take(l + 1)
      /\ out' = Append(out, Line(Body(buffer)))
      /\ UNCHANGED <<input, arrived, eof, pc, id>>
  BY <1>0 DEF ReadLine, Complete, TooLong
<1>2. /\ l \in 0..Len(buffer) /\ l < Len(buffer) /\ Body(buffer) = SubSeq(input, c + 1, c + l)
      /\ Clear(c, c + l) /\ input[c + l + 1] = "newline"
  BY <1>0, <1>1, BufferBody DEF IInv
<1>3. /\ Len(input) \in Nat /\ Len(buffer) \in Nat /\ arrived <= Len(input)
      /\ c \in 0..Len(input) /\ c + Len(buffer) = arrived /\ Limit \in Nat /\ input \in Bytes
  BY <1>0, BufferFacts DEF IInv, BufferInv
<1>4. AtLine
  <2>1. buffer # <<>>
    BY <1>2, <1>3, EmptySeq
  <2> QED BY <1>1, <2>1 DEF IInv, CursorInv, AtLast
<1>5. Line(Body(buffer)) = Outcome(SubSeq(input, c + 1, c + l))
  <2>1. Len(Body(buffer)) <= Limit
    BY <1>0, <1>1, <1>2, <1>3
  <2>2. Outcome(Body(buffer)) = Line(Body(buffer))
    BY <2>1 DEF Outcome
  <2> QED BY <1>2, <2>2
<1>6. BufferInv' /\ Consumed' = c + (l + 1)
  <2>1. l + 1 \in 0..Len(buffer)
    BY <1>2, <1>3
  <2> QED BY <1>0, <1>1, <2>1, Taken DEF IInv
<1>7. LineIn(c, e) /\ e - 1 = c + l /\ c + (l + 1) = e /\ e \in 0..Len(input)
  BY <1>0, <1>2, <1>3, <1>4 DEF AtLine, LineIn, Bound
<1>8. input[e] = "newline"
  BY <1>0, <1>2
<1>9. OutInv' /\ Upto(e)'
  <2>1. out' = Append(out, Outcome(SubSeq(input, c + 1, e - 1)))
    BY <1>1, <1>5, <1>7
  <2>2. Upto(c)
    BY <1>0, <1>4 DEF AtLine
  <2> QED BY <1>1, <1>3, <1>7, <2>1, <2>2, Emitted DEF IInv
<1>10. AtLine'
  <2>1. Bound(e)'
    BY <1>1, <1>7, <1>8 DEF Bound
  <2>2. Consumed' = e
    BY <1>6, <1>7
  <2> QED BY <1>9, <2>1, <2>2 DEF AtLine, Upto, Bound, Until
<1> QED BY <1>1, <1>6, <1>9, <1>10 DEF IInv, CursorInv

\* The line that ends at the input's end, where every end is past.
LEMMA LastIs ==
  ASSUME BufferInv, eof, Newlines(buffer) = {}, NEW b, Bound(b), b <= Consumed,
         Clear(b, Consumed), b < Len(input)
  PROVE  /\ LineIn(b, Len(input) + 1)
         /\ Consumed + Len(buffer) = Len(input)
         /\ Until(Len(input) + 1) = Ends
<1>1. /\ Len(input) \in Nat /\ Len(buffer) \in Nat /\ arrived = Len(input)
      /\ Consumed \in 0..Len(input) /\ Consumed + Len(buffer) = arrived /\ input \in Bytes
  BY BufferFacts DEF BufferInv
<1>2. Clear(Consumed, Len(input))
  BY <1>1, BufferBody
<1>3. Clear(b, Len(input))
  <2>1. ASSUME NEW i \in (b + 1)..Len(input) PROVE input[i] # "newline"
    <3>1. i \in (b + 1)..Consumed \/ i \in (Consumed + 1)..Len(input)
      BY <1>1 DEF Bound
    <3> QED BY <1>2, <3>1 DEF Clear
  <2> QED BY <2>1 DEF Clear
<1>4. LineIn(b, Len(input) + 1)
  <2>1. (Len(input) + 1) - 1 = Len(input) /\ ~(Len(input) + 1 <= Len(input))
        /\ Len(input) + 1 \in (b + 1)..(Len(input) + 1)
    BY <1>1 DEF Bound
  <2> QED BY <1>3, <2>1 DEF LineIn
<1>5. Until(Len(input) + 1) = Ends
  <2>1. \A d \in Ends : d <= Len(input) + 1
    <3>1. TAKE d \in Ends
    <3>2. d \in 1..(Len(input) + 1)
      BY <1>1, InputIs
    <3> QED BY <1>1, <3>2
  <2> QED BY <2>1 DEF Until
<1> QED BY <1>1, <1>4, <1>5

\* What is left at the end is a line.
LEMMA ReadPartialKeeps ==
  ASSUME IInv, ReadPartial
  PROVE  IInv'
<1>0. PICK c, e : c = Consumed /\ e = Len(input) + 1
  OBVIOUS
<1>1. /\ pc = "line" /\ eof /\ Newlines(buffer) = {} /\ ~(Len(Body(buffer)) > Limit)
      /\ buffer # <<>> /\ Take(Len(buffer)) /\ out' = Append(out, Line(buffer))
      /\ UNCHANGED <<input, arrived, eof, pc, id>>
  BY DEF ReadPartial, AtEnd, TooLong
<1>2. /\ Len(input) \in Nat /\ Len(buffer) \in Nat \ {0} /\ arrived = Len(input)
      /\ c \in 0..Len(input) /\ c + Len(buffer) = arrived /\ Limit \in Nat /\ input \in Bytes
  <2>1. buffer \in Seq(Byte)
    BY DEF IInv, BufferInv, Bytes
  <2>2. Len(buffer) # 0
    BY <1>1, <2>1, EmptySeq
  <2> QED BY <1>0, <1>1, <2>2, BufferFacts DEF IInv, BufferInv
<1>3. /\ Len(Body(buffer)) = Len(buffer) /\ Body(buffer) = buffer
      /\ Body(buffer) = SubSeq(input, c + 1, c + Len(buffer))
  BY <1>0, <1>1, BufferBody DEF IInv
<1>4. Line(buffer) = Outcome(SubSeq(input, c + 1, e - 1))
  <2>1. c + Len(buffer) = e - 1
    BY <1>0, <1>2
  <2>2. buffer = SubSeq(input, c + 1, e - 1)
    BY <1>3, <2>1
  <2>3. Len(buffer) <= Limit
    BY <1>1, <1>2, <1>3
  <2> QED BY <2>2, <2>3 DEF Outcome
<1>5. AtLine
  BY <1>1 DEF IInv, CursorInv, AtLast
<1>6. LineIn(c, e) /\ Until(e) = Ends
  <2>1. c <= c /\ c < Len(input) /\ Clear(c, c) /\ Bound(c)
    BY <1>0, <1>2, <1>5 DEF Clear, AtLine
  <2> QED BY <1>0, <1>1, <2>1, LastIs DEF IInv
<1>7. BufferInv' /\ buffer' = <<>>
  <2>1. BufferInv' /\ Len(buffer') = Len(buffer) - Len(buffer)
    BY <1>1, <1>2, Taken DEF IInv
  <2>2. Len(buffer') = 0 /\ buffer' \in Seq(Byte)
    BY <1>2, <2>1 DEF BufferInv, Bytes
  <2> QED BY <2>1, <2>2, EmptySeq
<1>8. OutInv' /\ Upto(e)'
  <2>1. Upto(c)
    BY <1>0, <1>5 DEF AtLine
  <2> QED BY <1>1, <1>2, <1>4, <1>6, <2>1, Emitted DEF IInv
<1>9. AtLast'
  <2>1. Ends' = Ends /\ Until(e)' = Until(e)
    BY <1>1, InputStays
  <2> QED BY <1>1, <1>6, <1>7, <1>8, <2>1 DEF AtLast, Upto
<1> QED BY <1>1, <1>7, <1>8, <1>9 DEF IInv, CursorInv

LEMMA ReadNothingKeeps ==
  ASSUME IInv, ReadNothing
  PROVE  IInv'
<1>1. /\ pc = "line" /\ eof /\ buffer = <<>> /\ pc' = "ended"
      /\ UNCHANGED <<input, arrived, buffer, eof, id, out>>
  BY DEF ReadNothing, AtEnd
<1>2. Len(out) = Cardinality(Ends)
  <2>1. CASE AtLine
    <3>1. Consumed = Len(input) /\ input \in Bytes
      BY <1>1, BufferFacts, EmptySeq DEF IInv, BufferInv
    <3> QED BY <2>1, <3>1, NoLineLeft DEF AtLine, Upto
  <2>2. CASE AtLast
    BY <2>2 DEF AtLast
  <2> QED BY <1>1, <2>1, <2>2 DEF IInv, CursorInv
<1>3. BufferInv'
  BY <1>1 DEF IInv, BufferInv, Consumed, BufferIsBounded
<1>4. CursorInv'
  BY <1>1, <1>2, InputStays DEF CursorInv
<1> QED BY <1>1, <1>3, <1>4, InputStays DEF IInv

\* The first bytes of a piece of the input.
LEMMA HeadOfPiece ==
  ASSUME input \in Bytes, NEW b \in 0..Len(input), NEW j \in b..Len(input), NEW n \in Nat, b + n <= j
  PROVE  /\ First(SubSeq(input, b + 1, j), n) = SubSeq(input, b + 1, b + n)
         /\ Len(SubSeq(input, b + 1, b + n)) = n
         /\ Len(SubSeq(input, b + 1, j)) = j - b
<1> DEFINE i == b + 1
           p == SubSeq(input, i, j)
<1>1. Len(input) \in Nat /\ i \in 1..(Len(input) + 1) /\ j \in (i - 1)..Len(input) /\ j - i + 1 = j - b
      /\ j \in Nat /\ b \in Nat /\ i = b + 1
  BY InputIs
<1> HIDE DEF i
<1>2. /\ p \in Bytes /\ Len(p) = j - b /\ \A k \in 1..(j - b) : p[k] = input[i + k - 1]
  BY <1>1, PieceIs
<1> HIDE DEF p
<1>3. n <= Len(p)
  BY <1>1, <1>2
<1>4. First(p, n) = SubSeq(p, 1, n)
  BY <1>2, <1>3, FirstIs
<1> DEFINE q == SubSeq(p, 1, n)
<1>5. /\ q \in Bytes /\ Len(q) = n /\ \A k \in 1..n : q[k] = p[k]
  <2>1. 1 \in 1..(Len(p) + 1) /\ n \in (1 - 1)..Len(p) /\ n - 1 + 1 = n
    BY <1>1, <1>2, <1>3
  <2>2. /\ q \in Bytes /\ Len(q) = n - 1 + 1 /\ \A k \in 1..(n - 1 + 1) : q[k] = p[1 + k - 1]
    BY <1>2, <2>1, PieceIs
  <2> QED BY <2>1, <2>2
<1> HIDE DEF q
<1> DEFINE m == b + n
<1>6. /\ m \in (i - 1)..Len(input) /\ m - i + 1 = n
  BY <1>1
<1> HIDE DEF m
<1>7. \A k \in 1..(m - i + 1) : q[k] = input[i + k - 1]
  BY <1>1, <1>2, <1>5, <1>6
<1>8. q = SubSeq(input, i, m)
  BY <1>1, <1>5, <1>6, <1>7, IsPiece
<1> QED BY <1>2, <1>4, <1>5, <1>8 DEF i, m, p, q

\* A line over the limit: its head is read for the id.
LEMMA LineTooLongKeeps ==
  ASSUME IInv, LineTooLong
  PROVE  IInv'
<1>0. PICK l, c : l = Len(Body(buffer)) /\ c = Consumed
  OBVIOUS
<1>1. /\ pc = "line" /\ l > Limit /\ pc' = "skip"
      /\ id' = IdOf(First(Body(buffer), IdHead)) /\ Take(Len(First(Body(buffer), IdHead)))
      /\ UNCHANGED <<input, arrived, eof, out>>
  BY <1>0 DEF LineTooLong, TooLong
<1>2. /\ l \in 0..Len(buffer) /\ Body(buffer) = SubSeq(input, c + 1, c + l) /\ Clear(c, c + l)
  BY <1>0, BufferBody DEF IInv
<1>3. /\ Len(input) \in Nat /\ Len(buffer) \in Nat /\ arrived \in Nat /\ arrived <= Len(input)
      /\ c \in 0..Len(input) /\ c + Len(buffer) = arrived /\ input \in Bytes
      /\ Limit \in Nat /\ IdHead \in Nat \ {0} /\ IdHead <= Limit + 1
  BY <1>0, BufferFacts DEF IInv, BufferInv
<1>4. AtLine
  <2>1. Len(buffer) # 0
    BY <1>1, <1>2, <1>3
  <2>2. buffer # <<>>
    BY <2>1, EmptySeq
  <2> QED BY <1>1, <2>2 DEF IInv, CursorInv, AtLast
<1>5. /\ First(Body(buffer), IdHead) = SubSeq(input, c + 1, c + IdHead)
      /\ Len(First(Body(buffer), IdHead)) = IdHead
  <2>1. PICK j : j = c + l
    OBVIOUS
  <2>2. j \in c..Len(input) /\ c + IdHead <= j
    BY <1>1, <1>2, <1>3, <2>1
  <2>3. First(SubSeq(input, c + 1, j), IdHead) = SubSeq(input, c + 1, c + IdHead)
        /\ Len(SubSeq(input, c + 1, c + IdHead)) = IdHead
    BY <1>3, <2>2, HeadOfPiece
  <2> QED BY <1>2, <2>1, <2>3
<1>6. BufferInv' /\ Consumed' = c + IdHead
  <2>1. IdHead \in 0..Len(buffer)
    BY <1>1, <1>2, <1>3
  <2> QED BY <1>0, <1>1, <1>5, <2>1, Taken DEF IInv
<1>7. Clear(c, c + IdHead) /\ Clear(c, c + Limit + 1)
  BY <1>1, <1>2, <1>3 DEF Clear
<1>8. c + Limit + 1 <= arrived' /\ c <= Consumed'
  BY <1>1, <1>2, <1>3, <1>6
<1>9. InLong(c)'
  BY <1>0, <1>1, <1>4, <1>5, <1>6, <1>7, <1>8, InputStays DEF InLong, AtLine
<1>10. OutInv'
  BY <1>1, InputStays DEF IInv
<1> QED BY <1>1, <1>6, <1>9, <1>10 DEF IInv, CursorInv

\* A piece of an oversized line goes.
LEMMA SkipPieceKeeps ==
  ASSUME IInv, SkipPiece
  PROVE  IInv'
<1>0. PICK l, c : l = Len(Body(buffer)) /\ c = Consumed
  OBVIOUS
<1>1. /\ pc = "skip" /\ Take(l) /\ UNCHANGED <<input, arrived, eof, pc, id, out>>
  BY <1>0 DEF SkipPiece
<1>2. /\ l \in 0..Len(buffer) /\ Clear(c, c + l)
      /\ Len(buffer) \in Nat /\ c \in 0..Len(input) /\ Len(input) \in Nat
  BY <1>0, BufferBody, BufferFacts DEF IInv
<1>3. BufferInv' /\ Consumed' = c + l
  BY <1>0, <1>1, <1>2, Taken DEF IInv
<1>4. PICK b : InLong(b)
  BY <1>1 DEF IInv, CursorInv
<1>5. b \in Nat /\ b <= c /\ Clear(b, c) /\ b <= c + l
  BY <1>0, <1>2, <1>4 DEF InLong, Bound
<1>6. Clear(b, c + l)
  <2>1. ASSUME NEW i \in (b + 1)..(c + l) PROVE input[i] # "newline"
    <3>1. i \in (b + 1)..c \/ i \in (c + 1)..(c + l)
      BY <1>2, <1>5
    <3> QED BY <1>2, <1>5, <3>1 DEF Clear
  <2> QED BY <2>1 DEF Clear
<1>7. InLong(b)'
  BY <1>1, <1>3, <1>4, <1>5, <1>6, InputStays DEF InLong
<1> QED BY <1>1, <1>3, <1>7, InputStays DEF IInv, CursorInv

\* The end of an oversized line: its outcome is an error with the id of its head.
LEMMA LongOutcome ==
  ASSUME IInv, NEW b, InLong(b), NEW e, LineIn(b, e), e > b + Limit + 1
  PROVE  Oversized(id) = Outcome(SubSeq(input, b + 1, e - 1))
<1> DEFINE j == e - 1
<1>1. /\ Len(input) \in Nat /\ Limit \in Nat /\ IdHead \in Nat /\ IdHead <= Limit + 1 /\ input \in Bytes
  BY BufferFacts DEF IInv, BufferInv
<1>2. b \in 0..Len(input) /\ j \in b..Len(input) /\ b + IdHead <= j /\ j - b > Limit
  BY <1>1 DEF LineIn, Bound
<1> HIDE DEF j
<1>3. /\ First(SubSeq(input, b + 1, j), IdHead) = SubSeq(input, b + 1, b + IdHead)
      /\ Len(SubSeq(input, b + 1, j)) = j - b
  BY <1>1, <1>2, HeadOfPiece
<1>4. ~(Len(SubSeq(input, b + 1, j)) <= Limit)
  BY <1>1, <1>2, <1>3
<1>5. id = IdOf(First(SubSeq(input, b + 1, j), IdHead))
  BY <1>3 DEF InLong
<1> QED BY <1>4, <1>5 DEF Outcome, j

LEMMA SkipToNewlineKeeps ==
  ASSUME IInv, SkipToNewline
  PROVE  IInv'
<1>0. PICK l, c, e : l = Len(Body(buffer)) /\ c = Consumed /\ e = c + l + 1
  OBVIOUS
<1>1. /\ pc = "skip" /\ Newlines(buffer) # {} /\ Take(l + 1) /\ pc' = "line"
      /\ out' = Append(out, Oversized(id)) /\ UNCHANGED <<input, arrived, eof, id>>
  BY <1>0 DEF SkipToNewline, Skipped, Complete
<1>2. /\ l \in 0..Len(buffer) /\ l < Len(buffer) /\ Clear(c, c + l) /\ input[e] = "newline"
  BY <1>0, <1>1, BufferBody DEF IInv
<1>3. /\ Len(input) \in Nat /\ Len(buffer) \in Nat /\ arrived <= Len(input)
      /\ c \in 0..Len(input) /\ c + Len(buffer) = arrived /\ Limit \in Nat /\ input \in Bytes
  BY <1>0, BufferFacts DEF IInv, BufferInv
<1>4. PICK b : InLong(b)
  BY <1>1 DEF IInv, CursorInv
<1>5. /\ b \in 0..Len(input) /\ b <= c /\ Clear(b, c) /\ Bound(b) /\ Upto(b)
      /\ Clear(b, b + Limit + 1)
  BY <1>0, <1>4 DEF InLong, Bound
<1>6. Clear(b, e - 1)
  <2>1. ASSUME NEW i \in (b + 1)..(e - 1) PROVE input[i] # "newline"
    <3>1. i \in (b + 1)..c \/ i \in (c + 1)..(c + l)
      BY <1>0, <1>2, <1>3, <1>5
    <3> QED BY <1>2, <1>5, <3>1 DEF Clear
  <2> QED BY <2>1 DEF Clear
<1>7. e \in (b + 1)..Len(input)
  BY <1>0, <1>2, <1>3, <1>5
<1>8. e > b + Limit + 1
  <2>1. e \notin (b + 1)..(b + Limit + 1)
    BY <1>2, <1>5 DEF Clear
  <2> QED BY <1>3, <1>5, <1>7, <2>1
<1>9. LineIn(b, e)
  BY <1>2, <1>3, <1>5, <1>6, <1>7 DEF LineIn
<1>10. BufferInv' /\ Consumed' = e
  <2>1. l + 1 \in 0..Len(buffer) /\ c + (l + 1) = e
    BY <1>0, <1>2, <1>3
  <2> QED BY <1>0, <1>1, <2>1, Taken DEF IInv
<1>11. OutInv' /\ Upto(e)'
  <2>1. out' = Append(out, Outcome(SubSeq(input, b + 1, e - 1)))
    BY <1>1, <1>4, <1>8, <1>9, LongOutcome
  <2> QED BY <1>1, <1>3, <1>5, <1>9, <2>1, Emitted DEF IInv
<1>12. AtLine'
  <2>1. Bound(e)'
    BY <1>1, <1>2, <1>3, <1>5, <1>7 DEF Bound
  <2> QED BY <1>10, <1>11, <2>1 DEF AtLine, Upto, Bound, Until
<1> QED BY <1>1, <1>10, <1>11, <1>12 DEF IInv, CursorInv

LEMMA SkipToEndKeeps ==
  ASSUME IInv, SkipToEnd
  PROVE  IInv'
<1>0. PICK e : e = Len(input) + 1
  OBVIOUS
<1>1. /\ pc = "skip" /\ eof /\ Newlines(buffer) = {} /\ Take(Len(buffer)) /\ pc' = "line"
      /\ out' = Append(out, Oversized(id)) /\ UNCHANGED <<input, arrived, eof, id>>
  BY DEF SkipToEnd, Skipped, AtEnd
<1>2. /\ Len(input) \in Nat /\ Len(buffer) \in Nat /\ arrived = Len(input)
      /\ Limit \in Nat /\ input \in Bytes
  BY <1>1, BufferFacts DEF IInv, BufferInv
<1>3. PICK b : InLong(b)
  BY <1>1 DEF IInv, CursorInv
<1>4. /\ Bound(b) /\ Upto(b) /\ b <= Consumed /\ Clear(b, Consumed) /\ b < Len(input)
      /\ e > b + Limit + 1
  BY <1>0, <1>2, <1>3 DEF InLong, Bound
<1>5. LineIn(b, e) /\ Until(e) = Ends
  BY <1>0, <1>1, <1>4, LastIs DEF IInv
<1>6. BufferInv' /\ buffer' = <<>>
  <2>1. BufferInv' /\ Len(buffer') = Len(buffer) - Len(buffer)
    BY <1>1, <1>2, Taken DEF IInv
  <2>2. Len(buffer') = 0 /\ buffer' \in Seq(Byte)
    BY <1>2, <2>1 DEF BufferInv, Bytes
  <2> QED BY <2>1, <2>2, EmptySeq
<1>7. OutInv' /\ Upto(e)'
  <2>1. out' = Append(out, Outcome(SubSeq(input, b + 1, e - 1)))
    BY <1>1, <1>3, <1>4, <1>5, LongOutcome
  <2> QED BY <1>1, <1>2, <1>4, <1>5, <2>1, Emitted DEF IInv
<1>8. AtLast'
  <2>1. Ends' = Ends /\ Until(e)' = Until(e)
    BY <1>1, InputStays
  <2> QED BY <1>1, <1>5, <1>6, <1>7, <2>1 DEF AtLast, Upto
<1> QED BY <1>1, <1>6, <1>7, <1>8 DEF IInv, CursorInv

LEMMA Inductive == IInv /\ [Next]_vars => IInv'
<1> SUFFICES ASSUME IInv, [Next]_vars PROVE IInv'
  OBVIOUS
<1>1. CASE Reader
  BY <1>1, ReadLineKeeps, ReadPartialKeeps, ReadNothingKeeps, LineTooLongKeeps,
     SkipPieceKeeps, SkipToNewlineKeeps, SkipToEndKeeps DEF Reader
<1>2. CASE Feed
  BY <1>2, ArriveKeeps, InputEndsKeeps DEF Feed
<1>3. CASE UNCHANGED vars
  <2>1. UNCHANGED <<input, arrived, buffer, eof, pc, id, out>>
    BY <1>3 DEF vars
  <2>2. Consumed' = Consumed /\ BufferInv'
    BY <2>1 DEF IInv, BufferInv, Consumed, BufferIsBounded
  <2>3. \A b : InLong(b) => InLong(b)'
    BY <2>1, <2>2, InputStays DEF InLong
  <2>4. (AtLine => AtLine') /\ (AtLast => AtLast')
    BY <2>1, <2>2, InputStays DEF AtLine, AtLast
  <2> QED BY <2>1, <2>2, <2>3, <2>4, InputStays DEF IInv, CursorInv
<1> QED BY <1>1, <1>2, <1>3 DEF Next, Ended

-----------------------------------------------------------------------------
(* The theorems.                                                           *)

\* The reader's place in the input, its buffer and its outcomes agree.
THEOREM Invariance == Spec => []IInv
BY InitInv, Inductive, PTL DEF Spec

\* Every line of the input gives one outcome, in its order: a line within the limit
\* is returned, one over it is reported once, with the id in its head, and all of it
\* skipped (server.py 191-246), for any input, any chunks and any limit.
THEOREM LinesRead == Spec => []LinesAreExact
<1>1. IInv => LinesAreExact
  <2> SUFFICES ASSUME IInv PROVE LinesAreExact
    OBVIOUS
  <2>1. Cardinality(Ends) \in Nat
    BY InputIs DEF IInv, BufferInv
  <2> DEFINE n == Cardinality(Ends)
  <2>2. Len(Expected) = n
    <3> HIDE DEF n
    <3>1. Expected = [k \in 1..n |->
                        Outcome(SubSeq(input, Begins(EndOf(k)), EndOf(k) - 1))]
      BY DEF Expected, n
    <3>2. n \in Nat
      BY <2>1 DEF n
    <3> QED BY <3>1, <3>2
  <2>3. DOMAIN out = 1..Len(out) /\ Len(out) \in Nat
    BY LenProperties DEF IInv, OutInv
  <2> HIDE DEF n
  <2>4. pc = "ended" => Len(out) = n
    BY DEF IInv, CursorInv, n
  <2>5. Len(out) <= n /\ \A k \in 1..Len(out) : out[k] = Expected[k]
    BY DEF IInv, OutInv, n
  <2> QED BY <2>2, <2>3, <2>4, <2>5 DEF LinesAreExact
<1> QED BY <1>1, Invariance, PTL

\* Never is more held than the limit and one chunk (server.py 30-33).
THEOREM BufferStaysBounded == Spec => []BufferIsBounded
<1>1. IInv => BufferIsBounded
  BY DEF IInv, BufferInv
<1> QED BY <1>1, Invariance, PTL

=============================================================================
