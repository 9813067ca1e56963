-------------------------- MODULE OracleLoadProofs --------------------------
(***************************************************************************)
(* A LOAD of any file, with any batch size, however often its session is   *)
(* lost: no row is loaded twice or left out, and an error names the line   *)
(* of the first row that is wrong.                                         *)
(***************************************************************************)
EXTENDS OracleLoad, FiniteSetTheorems, SequenceTheorems, TLAPS

-----------------------------------------------------------------------------
(* Numbers and sequences.                                                  *)

\* A set of naturals that is not empty has a least one.
LEMMA MinIsLeast ==
  ASSUME NEW S, S \subseteq Nat, S # {}
  PROVE  Min(S) \in S /\ \A y \in S : Min(S) <= y
<1> DEFINE R == OpToRel(<, Nat)
<1>1. \A x, y \in Nat : y < x => <<y, x>> \in R
  BY DEF OpToRel
<1>2. IsWellFoundedOn(R, Nat)
  BY NatLessThanWellFounded
<1> HIDE DEF R
<1>3. \E x \in S : \A y \in S : x <= y
  <2>1. PICK x \in S : \A y \in S : <<y, x>> \notin R
    BY <1>2, WFMin
  <2>2. \A y \in S : ~(y < x) /\ x \in Nat /\ y \in Nat
    BY <1>1, <2>1
  <2> QED BY <2>2
<1> QED BY <1>3 DEF Min

Ordered(s)   == \A m, n \in DOMAIN s : m < n => s[m] < s[n]
Before(s, t) == \A m \in DOMAIN s : \A n \in DOMAIN t : s[m] < t[n]
Numbers      == Seq(Nat)

LEMMA ToSetConcat ==
  ASSUME NEW s \in Numbers, NEW t \in Numbers
  PROVE  /\ s \o t \in Numbers /\ Len(s \o t) = Len(s) + Len(t)
         /\ ToSet(s \o t) = ToSet(s) \cup ToSet(t)
<1> USE DEF Numbers
<1>1. /\ s \o t \in Seq(Nat) /\ Len(s \o t) = Len(s) + Len(t)
      /\ \A m \in 1..Len(s) + Len(t) : (s \o t)[m] = IF m <= Len(s) THEN s[m] ELSE t[m - Len(s)]
  BY ConcatProperties
<1>2. Len(s) \in Nat /\ Len(t) \in Nat /\ DOMAIN s = 1..Len(s) /\ DOMAIN t = 1..Len(t)
  BY LenProperties
<1>3. DOMAIN (s \o t) = 1..(Len(s) + Len(t))
  BY <1>1
<1>4. ASSUME NEW x \in ToSet(s \o t) PROVE x \in ToSet(s) \cup ToSet(t)
  <2>1. PICK m \in 1..(Len(s) + Len(t)) : x = (s \o t)[m]
    BY <1>3 DEF ToSet
  <2>2. CASE m <= Len(s)
    BY <1>1, <1>2, <2>1, <2>2 DEF ToSet
  <2>3. CASE m > Len(s)
    <3>1. m - Len(s) \in DOMAIN t /\ x = t[m - Len(s)]
      BY <1>1, <1>2, <2>1, <2>3
    <3> QED BY <3>1 DEF ToSet
  <2> QED BY <1>2, <2>2, <2>3
<1>5. ASSUME NEW x \in ToSet(s) PROVE x \in ToSet(s \o t)
  <2>1. PICK m \in DOMAIN s : x = s[m]
    BY DEF ToSet
  <2>2. m \in DOMAIN (s \o t) /\ x = (s \o t)[m]
    BY <1>1, <1>2, <1>3, <2>1
  <2> QED BY <2>2 DEF ToSet
<1>6. ASSUME NEW x \in ToSet(t) PROVE x \in ToSet(s \o t)
  <2>1. PICK m \in DOMAIN t : x = t[m]
    BY DEF ToSet
  <2>2. m + Len(s) \in DOMAIN (s \o t) /\ x = (s \o t)[m + Len(s)]
    BY <1>1, <1>2, <1>3, <2>1
  <2> QED BY <2>2 DEF ToSet
<1> QED BY <1>1, <1>4, <1>5, <1>6

LEMMA OrderedConcat ==
  ASSUME NEW s \in Numbers, NEW t \in Numbers, Ordered(s), Ordered(t), Before(s, t)
  PROVE  Ordered(s \o t)
<1> USE DEF Numbers
<1>1. /\ s \o t \in Seq(Nat) /\ Len(s \o t) = Len(s) + Len(t)
      /\ \A m \in 1..Len(s) + Len(t) : (s \o t)[m] = IF m <= Len(s) THEN s[m] ELSE t[m - Len(s)]
  BY ConcatProperties
<1>2. Len(s) \in Nat /\ Len(t) \in Nat /\ DOMAIN s = 1..Len(s) /\ DOMAIN t = 1..Len(t)
  BY LenProperties
<1>3. DOMAIN (s \o t) = 1..(Len(s) + Len(t))
  BY <1>1
<1>4. SUFFICES ASSUME NEW m \in 1..(Len(s) + Len(t)), NEW n \in 1..(Len(s) + Len(t)), m < n
               PROVE  (s \o t)[m] < (s \o t)[n]
  BY <1>3 DEF Ordered
<1>5. CASE n <= Len(s)
  <2>1. m \in DOMAIN s /\ n \in DOMAIN s
    BY <1>2, <1>4, <1>5
  <2>2. (s \o t)[m] = s[m] /\ (s \o t)[n] = s[n]
    BY <1>1, <1>2, <1>4, <1>5
  <2> QED BY <1>4, <2>1, <2>2 DEF Ordered
<1>6. CASE m > Len(s)
  <2>1. m - Len(s) \in DOMAIN t /\ n - Len(s) \in DOMAIN t /\ m - Len(s) < n - Len(s)
    BY <1>2, <1>4, <1>6
  <2>2. (s \o t)[m] = t[m - Len(s)] /\ (s \o t)[n] = t[n - Len(s)]
    BY <1>1, <1>2, <1>4, <1>6
  <2> QED BY <2>1, <2>2 DEF Ordered
<1>7. CASE m <= Len(s) /\ n > Len(s)
  <2>1. m \in DOMAIN s /\ n - Len(s) \in DOMAIN t
    BY <1>2, <1>4, <1>7
  <2>2. (s \o t)[m] = s[m] /\ (s \o t)[n] = t[n - Len(s)]
    BY <1>1, <1>2, <1>4, <1>7
  <2> QED BY <2>1, <2>2 DEF Before
<1> QED BY <1>2, <1>5, <1>6, <1>7

LEMMA OrderedAppend ==
  ASSUME NEW s \in Numbers, NEW n \in Nat, Ordered(s), \A x \in ToSet(s) : x < n
  PROVE  /\ Append(s, n) \in Numbers /\ Ordered(Append(s, n))
         /\ ToSet(Append(s, n)) = ToSet(s) \cup {n}
<1> USE DEF Numbers
<1>1. /\ Append(s, n) \in Seq(Nat) /\ Len(Append(s, n)) = Len(s) + 1
      /\ \A m \in 1..Len(s) : Append(s, n)[m] = s[m]
      /\ Append(s, n)[Len(s) + 1] = n
  BY AppendProperties
<1>2. Len(s) \in Nat /\ DOMAIN s = 1..Len(s) /\ DOMAIN Append(s, n) = 1..(Len(s) + 1)
  BY <1>1, LenProperties
<1>3. \A m \in DOMAIN s : s[m] < n
  BY DEF ToSet
<1>4. Ordered(Append(s, n))
  BY <1>1, <1>2, <1>3 DEF Ordered
<1>5. ASSUME NEW x \in ToSet(Append(s, n)) PROVE x \in ToSet(s) \cup {n}
  <2>1. PICK m \in 1..(Len(s) + 1) : x = Append(s, n)[m]
    BY <1>2 DEF ToSet
  <2>2. m \in DOMAIN s \/ m = Len(s) + 1
    BY <1>2
  <2> QED BY <1>1, <1>2, <2>1, <2>2 DEF ToSet
<1>6. ASSUME NEW x \in ToSet(s) PROVE x \in ToSet(Append(s, n))
  BY <1>1, <1>2 DEF ToSet
<1>7. n \in ToSet(Append(s, n))
  <2>1. Len(s) + 1 \in DOMAIN Append(s, n)
    BY <1>2
  <2> QED BY <1>1, <2>1 DEF ToSet
<1> QED BY <1>1, <1>4, <1>5, <1>6, <1>7

\* An ordered sequence lists every number once.
LEMMA OrderedLists ==
  ASSUME NEW s \in Numbers, Ordered(s)
  PROVE  /\ Cardinality(ToSet(s)) = Len(s)
         /\ \A i : Count(s, i) <= 1
<1> USE DEF Numbers
<1>1. Len(s) \in Nat /\ DOMAIN s = 1..Len(s) /\ s \in [1..Len(s) -> Nat]
  BY LenProperties
<1>2. \A m, n \in 1..Len(s) : s[m] = s[n] => m = n
  BY <1>1 DEF Ordered
<1>3. s \in Bijection(1..Len(s), ToSet(s))
  <2>1. s \in [1..Len(s) -> ToSet(s)]
    BY <1>1 DEF ToSet
  <2>2. \A x \in ToSet(s) : \E m \in 1..Len(s) : s[m] = x
    BY <1>1 DEF ToSet
  <2> QED BY <1>2, <2>1, <2>2 DEF Bijection, Injection, Surjection, IsInjective
<1>4. Cardinality(ToSet(s)) = Len(s)
  BY <1>1, <1>3, FS_CountingElements DEF ExistsBijection
<1>5. ASSUME NEW i PROVE Count(s, i) <= 1
  <2> DEFINE M == {n \in DOMAIN s : s[n] = i}
  <2>1. Count(s, i) = Cardinality(M)
    BY DEF Count
  <2>2. \A m, n \in M : m = n
    BY <1>1, <1>2
  <2> HIDE DEF M
  <2>3. Cardinality(M) <= 1
    <3>1. CASE M = {}
      BY <3>1, FS_EmptySet
    <3>2. CASE M # {}
      <4>1. PICK n \in M : M = {n}
        BY <2>2, <3>2
      <4>2. Cardinality({n}) = 1
        BY FS_Singleton
      <4> QED BY <4>1, <4>2
    <3> QED BY <3>1, <3>2
  <2> QED BY <2>1, <2>3
<1> QED BY <1>4, <1>5

-----------------------------------------------------------------------------
(* The type of the state.                                                  *)

Rows(s) == s \in Numbers /\ ToSet(s) \subseteq Data

TypeInv ==
  /\ file \in Seq([lines : Nat \ {0}, width : Nat, good : BOOLEAN])
  /\ Start \in Nat
  /\ pc \in {"reading", "sending", "lost", "done", "failed"}
  /\ at \in Nat /\ Start <= at /\ at <= Len(file)
  /\ loaded \in Nat /\ kept \in BOOLEAN /\ refused \in BOOLEAN
  /\ Rows(batch) /\ Rows(work) /\ Rows(table)

LEMMA EmptyRows == Rows(<<>>) /\ ToSet(<<>>) = {} /\ Ordered(<<>>)
BY DEF Rows, Numbers, ToSet, Ordered

LEMMA DataIsInFile == TypeInv => Data \subseteq 1..Len(file) /\ Data \subseteq Nat
BY DEF TypeInv, Data

LEMMA RowAppended ==
  ASSUME NEW s, Rows(s), NEW n \in Data, n \in Nat
  PROVE  Rows(Append(s, n))
<1>1. /\ s \in Seq(Nat) /\ DOMAIN s = 1..Len(s) /\ Len(s) \in Nat
      /\ \A m \in 1..Len(s) : s[m] \in Data
  <2>1. s \in Seq(Nat)
    BY DEF Rows, Numbers
  <2> QED BY <2>1 DEF Rows, ToSet
<1>2. /\ Append(s, n) \in Seq(Nat) /\ DOMAIN Append(s, n) = 1..(Len(s) + 1)
      /\ \A m \in 1..Len(s) : Append(s, n)[m] = s[m]
      /\ Append(s, n)[Len(s) + 1] = n
  BY <1>1, AppendProperties
<1>3. \A m \in 1..(Len(s) + 1) : Append(s, n)[m] \in Data
  <2>1. TAKE m \in 1..(Len(s) + 1)
  <2>2. m \in 1..Len(s) \/ m = Len(s) + 1
    BY <1>1
  <2> QED BY <1>1, <1>2, <2>2
<1>4. ToSet(Append(s, n)) \subseteq Data
  BY <1>2, <1>3 DEF ToSet
<1> QED BY <1>2, <1>4 DEF Rows, Numbers

\* The file and what the command says of it do not change.
LEMMA FileStays ==
  ASSUME [Next]_vars
  PROVE  /\ file' = file /\ options' = options
         /\ Start' = Start /\ Data' = Data /\ Width' = Width
         /\ refused' \in {refused, TRUE}
<1>1. file' = file /\ options' = options /\ refused' \in {refused, TRUE}
  <2>1. /\ Reads \/ Sends => UNCHANGED <<file, options>>
        /\ Reads => UNCHANGED refused
    BY DEF Reads, Sends
  <2>2. CASE Next
    BY <2>1, <2>2 DEF Next, SkipBlank, ReadRow, RowIsRagged, FileIsNoText, ReadEnd, _load_batch,
       BatchIsRejected, StatementFails, Cancel, LoseSession, RetryOnce, Commit, Rollback, EndTransaction
  <2> QED BY <2>2 DEF vars
<1>2. Start' = Start
  BY <1>1 DEF Start
<1>3. Data' = Data
  BY <1>1, <1>2 DEF Data, IsBlank
<1>4. Width' = Width
  BY <1>1, <1>3 DEF Width, HeaderAt, IsBlank
<1> QED BY <1>1, <1>2, <1>3, <1>4

LEMMA InitType == Init => TypeInv
<1> SUFFICES ASSUME Init PROVE TypeInv
  OBVIOUS
<1>1. file \in Seq([lines : Nat \ {0}, width : Nat, good : BOOLEAN])
  BY LoadAssumption DEF Init, LoadAssumption
<1>2. options.skip \in Nat /\ Len(file) \in Nat
  BY <1>1, LoadAssumption DEF Init, LoadAssumption
<1>3. Start \in Nat /\ Start <= Len(file)
  BY <1>2 DEF Start
<1>4. pc = "reading" /\ at = Start /\ loaded = 0 /\ kept = FALSE /\ refused = FALSE
  BY DEF Init
<1>5. Rows(batch) /\ Rows(work) /\ Rows(table)
  <2>1. batch = <<>> /\ work = <<>> /\ table = <<>>
    BY DEF Init
  <2> QED BY <2>1, EmptyRows
<1>6. at \in Nat /\ Start <= at /\ at <= Len(file)
  BY <1>3, <1>4
<1> QED BY <1>1, <1>3, <1>4, <1>5, <1>6 DEF TypeInv

\* What the database takes of a batch: all before the first row it rejects.
LEMMA AcceptedIs ==
  ASSUME TypeInv
  PROVE  /\ Rows(Accepted) /\ ToSet(Accepted) \subseteq ToSet(batch)
         /\ Len(Accepted) \in 0..Len(batch)
         /\ \A m \in 1..Len(Accepted) : Accepted[m] = batch[m] /\ file[batch[m]].good
         /\ Bad = {} => Accepted = batch
         /\ Bad # {} => /\ Len(Accepted) + 1 \in 1..Len(batch)
                       /\ ~file[batch[Len(Accepted) + 1]].good
<1>1. batch \in Seq(Nat) /\ ToSet(batch) \subseteq Data /\ Len(batch) \in Nat
      /\ DOMAIN batch = 1..Len(batch)
  BY DEF TypeInv, Rows, Numbers
<1>2. CASE Bad = {}
  <2>1. \A m \in 1..Len(batch) : file[batch[m]].good
    BY <1>1, <1>2 DEF Bad
  <2> QED BY <1>1, <1>2, <2>1 DEF Accepted, TypeInv
<1>3. CASE Bad # {}
  <2>1. Bad \subseteq Nat
    BY <1>1 DEF Bad
  <2>2. PICK k \in Bad : k = Min(Bad) /\ \A y \in Bad : k <= y
    BY <1>3, <2>1, MinIsLeast
  <2>3. k \in 1..Len(batch) /\ ~file[batch[k]].good
    BY <1>1 DEF Bad
  <2>4. \A m \in 1..(k - 1) : file[batch[m]].good
    <3>1. TAKE m \in 1..(k - 1)
    <3>2. m \in DOMAIN batch /\ ~(k <= m)
      BY <1>1, <2>3
    <3>3. m \notin Bad
      BY <2>2, <3>2
    <3> QED BY <3>2, <3>3 DEF Bad
  <2>5. Accepted = SubSeq(batch, 1, k - 1)
    BY <1>3, <2>2 DEF Accepted
  <2>6. /\ Accepted \in Seq(Nat) /\ Len(Accepted) = k - 1
        /\ \A m \in 1..(k - 1) : Accepted[m] = batch[m]
    BY <1>1, <2>3, <2>5, SubSeqProperties
  <2>7. ToSet(Accepted) \subseteq ToSet(batch)
    <3>1. DOMAIN Accepted = 1..(k - 1)
      BY <2>3, <2>6
    <3>2. SUFFICES ASSUME NEW x \in ToSet(Accepted) PROVE x \in ToSet(batch)
      OBVIOUS
    <3>3. PICK m \in 1..(k - 1) : x = Accepted[m]
      BY <3>1 DEF ToSet
    <3>4. m \in DOMAIN batch /\ x = batch[m]
      BY <1>1, <2>3, <2>6, <3>3
    <3> QED BY <3>4 DEF ToSet
  <2>8. Rows(Accepted)
    BY <1>1, <2>6, <2>7 DEF Rows, Numbers
  <2> QED BY <1>3, <2>3, <2>4, <2>6, <2>7, <2>8
<1> QED BY <1>2, <1>3

\* Rows are added to the transaction.
LEMMA WorkGrows ==
  ASSUME TypeInv
  PROVE  /\ Rows(work \o Accepted)
         /\ ToSet(work \o Accepted) = ToSet(work) \cup ToSet(Accepted)
         /\ Len(work \o batch) = Len(work) + Len(batch)
         /\ Rows(table \o work)
         /\ ToSet(table \o work) = ToSet(table) \cup ToSet(work)
<1>1. /\ work \in Numbers /\ batch \in Numbers /\ table \in Numbers /\ Accepted \in Numbers
      /\ ToSet(work) \subseteq Data /\ ToSet(table) \subseteq Data /\ ToSet(Accepted) \subseteq Data
  BY AcceptedIs DEF TypeInv, Rows
<1>2. /\ work \o Accepted \in Numbers /\ table \o work \in Numbers
      /\ ToSet(work \o Accepted) = ToSet(work) \cup ToSet(Accepted)
      /\ ToSet(table \o work) = ToSet(table) \cup ToSet(work)
      /\ Len(work \o batch) = Len(work) + Len(batch)
  BY <1>1, ToSetConcat
<1> QED BY <1>1, <1>2 DEF Rows

\* A nonblank record is read: it is a row of the file, the last one so far.
LEMMA RecordIsRow ==
  ASSUME TypeInv, ~AtEnd
  PROVE  /\ at + 1 \in 1..Len(file)
         /\ ~IsBlank(at + 1) => at + 1 \in Data
         /\ IsBlank(at + 1) => at + 1 \notin Data
BY DEF TypeInv, AtEnd, Data

\* The parts of the state an action may change, each with its type.
LEMMA TypeChanges ==
  ASSUME TypeInv, [Next]_vars,
         pc' \in {"reading", "sending", "lost", "done", "failed"},
         at' \in Nat, Start <= at', at' <= Len(file),
         loaded' \in Nat, kept' \in BOOLEAN,
         Rows(batch'), Rows(work'), Rows(table')
  PROVE  TypeInv'
<1>1. file' = file /\ Start' = Start /\ Data' = Data /\ refused' \in BOOLEAN
  BY FileStays DEF TypeInv
<1>2. Rows(batch)' /\ Rows(work)' /\ Rows(table)'
  BY <1>1 DEF Rows
<1>3. /\ (file \in Seq([lines : Nat \ {0}, width : Nat, good : BOOLEAN]))'
      /\ (Start \in Nat)'
  BY <1>1 DEF TypeInv
<1> QED BY <1>1, <1>2, <1>3 DEF TypeInv

LEMMA TypeNext ==
  ASSUME TypeInv, [Next]_vars
  PROVE  TypeInv'
<1> USE DEF Reads, Sends
<1>1. /\ pc \in {"reading", "sending", "lost", "done", "failed"}
      /\ Start \in Nat /\ at \in Nat /\ Start <= at /\ at <= Len(file) /\ Len(file) \in Nat
      /\ loaded \in Nat /\ kept \in BOOLEAN /\ Len(batch) \in Nat
      /\ Rows(batch) /\ Rows(work) /\ Rows(table)
  BY DEF TypeInv, Rows, Numbers
<1>2. Rows(<<>>) /\ Rows(work \o Accepted) /\ Rows(table \o work)
  BY EmptyRows, WorkGrows
<1>3. CASE SkipBlank
  <2>1. at + 1 <= Len(file)
    BY <1>3, RecordIsRow DEF SkipBlank
  <2> QED BY <1>1, <1>3, <2>1, TypeChanges DEF SkipBlank
<1>4. CASE ReadRow
  <2>1. at + 1 \in 1..Len(file) /\ at + 1 \in Data
    BY <1>4, RecordIsRow DEF ReadRow
  <2>2. Rows(Append(batch, at + 1))
    BY <1>1, <2>1, RowAppended
  <2> QED BY <1>1, <1>4, <2>1, <2>2, TypeChanges DEF ReadRow
<1>5. CASE RowIsRagged
  BY <1>1, <1>5, TypeChanges DEF RowIsRagged
<1>6. CASE FileIsNoText
  BY <1>1, <1>6, TypeChanges DEF FileIsNoText
<1>7. CASE ReadEnd
  BY <1>1, <1>7, TypeChanges DEF ReadEnd
<1>8. CASE _load_batch
  BY <1>1, <1>2, <1>8, TypeChanges DEF _load_batch
<1>9. CASE BatchIsRejected
  BY <1>1, <1>2, <1>9, TypeChanges DEF BatchIsRejected
<1>16. CASE StatementFails
  BY <1>1, <1>16, TypeChanges DEF StatementFails
<1>10. CASE Cancel
  <2>1. work' = work \/ work' = work \o Accepted
    BY <1>10 DEF Cancel
  <2>2. Rows(work')
    BY <1>1, <1>2, <2>1
  <2> QED BY <1>1, <1>10, <2>2, TypeChanges DEF Cancel
<1>11. CASE LoseSession
  BY <1>1, <1>2, <1>11, TypeChanges DEF LoseSession
<1>12. CASE RetryOnce
  BY <1>1, <1>2, <1>12, TypeChanges DEF RetryOnce, Begin
<1>13. CASE Commit
  BY <1>1, <1>2, <1>13, TypeChanges DEF Commit, EndTransaction
<1>14. CASE Rollback
  BY <1>1, <1>2, <1>14, TypeChanges DEF Rollback, EndTransaction
<1>15. CASE UNCHANGED vars
  BY <1>1, <1>15, TypeChanges DEF vars
<1> QED
  BY <1>3, <1>4, <1>5, <1>6, <1>7, <1>8, <1>9, <1>10, <1>11, <1>12, <1>13, <1>14, <1>15,
     <1>16 DEF Next

\* The places of records, and never one outside the file.
THEOREM TypeCorrect == Spec => []TypeInv
<1>1. Init => TypeInv
  BY InitType
<1>2. TypeInv /\ [Next]_vars => TypeInv'
  BY TypeNext
<1> QED BY <1>1, <1>2, PTL DEF Spec

-----------------------------------------------------------------------------
(* No row is loaded twice or left out.                                     *)

Running == pc \in {"reading", "sending"}
Seen    == {i \in Data : i <= at}

\* While it runs the transaction and the batch have every row read so far, once,
\* and a session lost takes all of it, so that the next attempt starts over.
OnceInv ==
  ~kept =>
    /\ Ordered(table) /\ Ordered(work)
    /\ table = <<>> \/ work = <<>>
    /\ Running => /\ table = <<>>
                  /\ Ordered(batch) /\ Before(work, batch)
                  /\ ToSet(work) \cup ToSet(batch) = Seen
                  /\ loaded = Len(work)
    /\ pc = "lost" => table = <<>> /\ work = <<>>
    /\ pc = "done" => /\ loaded = Cardinality(Data)
                      /\ ToSet(table) \in {{}, Data} /\ ToSet(work) \in {{}, Data}

\* What is taken of an ordered batch is ordered, and follows what is there.
LEMMA AcceptedFollows ==
  ASSUME TypeInv, Ordered(batch)
  PROVE  /\ Ordered(Accepted)
         /\ Before(work, batch) => Before(work, Accepted) /\ (Ordered(work) => Ordered(work \o Accepted))
<1>1. /\ work \in Numbers /\ Accepted \in Numbers
      /\ \A m \in DOMAIN Accepted : m \in DOMAIN batch /\ Accepted[m] = batch[m]
      /\ DOMAIN batch \subseteq Nat /\ DOMAIN Accepted \subseteq Nat
  <2>1. work \in Numbers /\ Accepted \in Numbers /\ batch \in Numbers
    BY AcceptedIs DEF TypeInv, Rows
  <2>2. /\ DOMAIN batch = 1..Len(batch) /\ DOMAIN Accepted = 1..Len(Accepted)
        /\ Len(Accepted) \in Nat /\ Len(batch) \in Nat
    BY <2>1, LenProperties DEF Numbers
  <2>3. /\ Len(Accepted) \in 0..Len(batch)
        /\ \A m \in 1..Len(Accepted) : Accepted[m] = batch[m]
    BY AcceptedIs
  <2> QED BY <2>1, <2>2, <2>3
<1>2. Ordered(Accepted)
  BY <1>1 DEF Ordered
<1>3. ASSUME Before(work, batch) PROVE Before(work, Accepted)
  BY <1>1, <1>3 DEF Before
<1> QED BY <1>1, <1>2, <1>3, OrderedConcat

LEMMA OnceInit == Init => OnceInv
<1> SUFFICES ASSUME Init PROVE OnceInv
  OBVIOUS
<1>1. /\ pc = "reading" /\ at = Start /\ batch = <<>> /\ loaded = 0
      /\ work = <<>> /\ table = <<>>
  BY DEF Init
<1>2. Seen = {}
  <2>1. Start \in Nat
    BY InitType DEF TypeInv
  <2> QED BY <1>1, <2>1 DEF Seen, Data
<1>3. Before(<<>>, <<>>)
  BY DEF Before
<1> QED BY <1>1, <1>2, <1>3, EmptyRows DEF OnceInv, Running

\* When everything read is in the transaction and the file is at its end, all of
\* the file's rows are there, and were counted.
LEMMA AllIsLoaded ==
  ASSUME TypeInv, AtEnd, NEW s \in Numbers, Ordered(s), ToSet(s) = Seen
  PROVE  ToSet(s) = Data /\ Len(s) = Cardinality(Data)
<1>1. Seen = Data
  BY DataIsInFile DEF TypeInv, AtEnd, Seen
<1> QED BY <1>1, OrderedLists

LEMMA OnceNext ==
  ASSUME TypeInv, OnceInv, [Next]_vars
  PROVE  OnceInv'
<1> SUFFICES ASSUME ~kept' PROVE OnceInv'
  BY DEF OnceInv
<1> USE DEF Reads, Sends
<1>1. Data' = Data /\ Start' = Start
  BY FileStays
<1>2. ~kept
  BY DEF Next, vars, SkipBlank, ReadRow, RowIsRagged, FileIsNoText, ReadEnd, _load_batch,
     BatchIsRejected, StatementFails, Cancel, LoseSession, RetryOnce, Commit, Rollback,
     EndTransaction
<1>3. /\ Ordered(table) /\ Ordered(work) /\ (table = <<>> \/ work = <<>>)
      /\ Running => /\ table = <<>> /\ Ordered(batch) /\ Before(work, batch)
                    /\ ToSet(work) \cup ToSet(batch) = Seen /\ loaded = Len(work)
      /\ pc = "lost" => table = <<>> /\ work = <<>>
      /\ pc = "done" => /\ loaded = Cardinality(Data)
                        /\ ToSet(table) \in {{}, Data} /\ ToSet(work) \in {{}, Data}
  BY <1>2 DEF OnceInv
<1>4. /\ work \in Numbers /\ batch \in Numbers /\ table \in Numbers /\ at \in Nat
      /\ ToSet(batch) \subseteq Data /\ Data \subseteq Nat
  BY DataIsInFile DEF TypeInv, Rows
<1>5. ToSet(<<>>) = {} /\ Ordered(<<>>) /\ \A s : Before(s, <<>>)
  BY EmptyRows DEF Before
<1>6. CASE SkipBlank
  <2>1. Seen' = Seen
    <3>1. at' = at + 1 /\ at + 1 \notin Data
      BY <1>6, RecordIsRow DEF SkipBlank
    <3>2. \A i \in Data : i <= at + 1 <=> i <= at
      BY <1>4, <3>1
    <3> QED BY <1>1, <3>1, <3>2 DEF Seen
  <2> QED BY <1>3, <1>6, <2>1 DEF SkipBlank, OnceInv, Running
<1>7. CASE ReadRow
  <2>1. at + 1 \in Data /\ batch' = Append(batch, at + 1) /\ at' = at + 1
    BY <1>7, RecordIsRow DEF ReadRow
  <2>2. Running /\ Running' /\ table' = table /\ work' = work /\ loaded' = loaded
        /\ pc' # "lost" /\ pc' # "done"
    BY <1>7 DEF ReadRow, Running
  <2>3. Seen' = Seen \cup {at + 1}
    <3>1. \A i \in Data : i <= at + 1 <=> i <= at \/ i = at + 1
      BY <1>4
    <3> QED BY <1>1, <2>1, <3>1 DEF Seen
  <2>4. \A x \in ToSet(work) \cup ToSet(batch) : x < at + 1
    <3>1. \A x \in Seen : x < at + 1
      BY <1>4 DEF Seen
    <3> QED BY <1>3, <2>2, <3>1
  <2>5. Ordered(batch') /\ ToSet(batch') = ToSet(batch) \cup {at + 1}
    BY <1>3, <1>4, <2>1, <2>2, <2>4, OrderedAppend
  <2>6. Before(work, batch')
    <3>1. /\ DOMAIN batch = 1..Len(batch) /\ DOMAIN batch' = 1..(Len(batch) + 1)
          /\ \A m \in 1..Len(batch) : batch'[m] = batch[m]
          /\ batch'[Len(batch) + 1] = at + 1 /\ Len(batch) \in Nat
      BY <1>4, <2>1, AppendProperties, LenProperties DEF Numbers
    <3>2. \A m \in DOMAIN work : work[m] < at + 1
      BY <2>4 DEF ToSet
    <3>3. ASSUME NEW m \in DOMAIN work, NEW n \in DOMAIN batch' PROVE work[m] < batch'[n]
      <4>1. CASE n \in DOMAIN batch
        BY <1>3, <2>2, <3>1, <4>1 DEF Before
      <4>2. CASE n = Len(batch) + 1
        BY <3>1, <3>2, <4>2
      <4> QED BY <3>1, <4>1, <4>2
    <3> QED BY <3>3 DEF Before
  <2>7. ToSet(work) \cup ToSet(batch') = Seen'
    BY <1>3, <2>2, <2>3, <2>5
  <2>8. table' = <<>> /\ Ordered(work) /\ loaded = Len(work)
    BY <1>3, <2>2
  <2> QED BY <1>3, <2>2, <2>5, <2>6, <2>7, <2>8 DEF OnceInv
<1>8. CASE RowIsRagged
  BY <1>3, <1>8 DEF RowIsRagged, OnceInv, Running
<1>9. CASE FileIsNoText
  BY <1>3, <1>9 DEF FileIsNoText, OnceInv, Running
<1>10. CASE ReadEnd
  <2>1. Running /\ table' = table /\ work' = work /\ loaded' = loaded /\ batch' = batch
        /\ Seen' = Seen /\ AtEnd
    BY <1>1, <1>10 DEF ReadEnd, Running, Seen
  <2>2. CASE batch = <<>>
    <3>1. ToSet(work) = Seen
      BY <1>3, <1>5, <2>1, <2>2
    <3>2. ToSet(work) = Data /\ Len(work) = Cardinality(Data)
      BY <1>3, <1>4, <2>1, <3>1, AllIsLoaded
    <3>3. pc' = "done"
      BY <1>10, <2>2 DEF ReadEnd
    <3> QED BY <1>1, <1>3, <1>5, <2>1, <3>2, <3>3 DEF OnceInv, Running
  <2>3. CASE batch # <<>>
    <3>1. pc' = "sending"
      BY <1>10, <2>3 DEF ReadEnd
    <3> QED BY <1>3, <2>1, <3>1 DEF OnceInv, Running
  <2> QED BY <2>2, <2>3
<1>11. CASE _load_batch
  <2>1. /\ Running /\ table' = table /\ batch' = <<>> /\ Accepted = batch
        /\ work' = work \o batch /\ loaded' = loaded + Len(batch) /\ at' = at
        /\ pc' = IF AtEnd THEN "done" ELSE "reading"
    BY <1>11, AcceptedIs DEF _load_batch, Running
  <2>2. Seen' = Seen
    BY <1>1, <2>1 DEF Seen
  <2>3. /\ work' \in Numbers /\ Ordered(work') /\ ToSet(work') = Seen
        /\ Len(work') = loaded'
    <3>1. /\ Ordered(batch) /\ Before(work, batch) /\ Ordered(work) /\ loaded = Len(work)
          /\ ToSet(work) \cup ToSet(batch) = Seen
      BY <1>3, <2>1
    <3>2. Ordered(work \o batch)
      BY <1>4, <3>1, OrderedConcat
    <3>3. /\ work \o batch \in Numbers /\ Len(work \o batch) = Len(work) + Len(batch)
          /\ ToSet(work \o batch) = ToSet(work) \cup ToSet(batch)
      BY <1>4, ToSetConcat
    <3> QED BY <2>1, <3>1, <3>2, <3>3
  <2>4. CASE AtEnd
    <3>1. ToSet(work') = Data /\ Len(work') = Cardinality(Data)
      BY <2>3, <2>4, AllIsLoaded
    <3> QED BY <1>1, <1>3, <1>5, <2>1, <2>3, <2>4, <3>1 DEF OnceInv, Running
  <2>5. CASE ~AtEnd
    BY <1>3, <1>5, <2>1, <2>2, <2>3, <2>5 DEF OnceInv, Running
  <2> QED BY <2>4, <2>5
<1>12. CASE BatchIsRejected
  <2>1. Running /\ table' = table /\ work' = work \o Accepted /\ pc' = "failed"
    BY <1>12 DEF BatchIsRejected, Running
  <2>2. Ordered(work')
    BY <1>3, <2>1, AcceptedFollows
  <2> QED BY <1>3, <2>1, <2>2 DEF OnceInv, Running
<1>18. CASE StatementFails
  BY <1>3, <1>18 DEF StatementFails, OnceInv, Running
<1>13. CASE Cancel
  <2>1. /\ table' = table /\ pc' = "failed" /\ table = <<>>
        /\ work' = work \/ (Running /\ work' = work \o Accepted)
    BY <1>3, <1>13 DEF Cancel, Running
  <2>2. Ordered(work')
    BY <1>3, <2>1, AcceptedFollows
  <2> QED BY <1>3, <2>1, <2>2 DEF OnceInv, Running
<1>14. CASE LoseSession
  <2>1. /\ table' = table /\ work' = <<>> /\ loaded' = loaded
        /\ pc' \in {"done", "failed", "lost"}
    BY <1>14 DEF LoseSession
  <2>2. pc' = "lost" => table = <<>>
    BY <1>3, <1>14 DEF LoseSession, Running
  <2>3. pc' = "done" => pc = "done"
    BY <1>14 DEF LoseSession
  <2> QED BY <1>1, <1>3, <1>5, <2>1, <2>2, <2>3 DEF OnceInv, Running
<1>15. CASE RetryOnce
  <2>1. /\ table' = <<>> /\ work' = <<>> /\ batch' = <<>> /\ loaded' = 0
        /\ at' = Start /\ pc' = "reading"
    BY <1>3, <1>15 DEF RetryOnce, Begin
  <2>2. Seen' = {}
    BY <1>1, <2>1 DEF Seen, Data, TypeInv
  <2> QED BY <1>5, <2>1, <2>2 DEF OnceInv, Running
<1>16. CASE EndTransaction /\ table' \in {table, table \o work}
  <2>1. pc' = pc /\ work' = <<>> /\ loaded' = loaded /\ pc \in {"done", "failed"}
    BY <1>16 DEF EndTransaction
  <2>2. table' \in {table, work}
    <3>1. table \o <<>> = table /\ <<>> \o work = work
      BY <1>4, ConcatEmptySeq DEF Numbers
    <3> QED BY <1>3, <1>16, <3>1
  <2> QED BY <1>1, <1>3, <1>5, <2>1, <2>2 DEF OnceInv, Running
<1>17. CASE UNCHANGED vars
  <2>1. Seen' = Seen
    BY <1>1, <1>17 DEF vars, Seen
  <2> QED BY <1>1, <1>3, <1>17, <2>1 DEF vars, OnceInv, Running
<1> QED
  BY <1>6, <1>7, <1>8, <1>9, <1>10, <1>11, <1>12, <1>13, <1>14, <1>15, <1>16, <1>17,
     <1>18 DEF Next, Commit, Rollback

\* The rows of the transaction, or of the table, are ordered: none is there twice.
LEMMA OnceIsOnce ==
  ASSUME TypeInv, OnceInv
  PROVE  LoadIsOnce
<1> SUFFICES ASSUME ~kept PROVE LoadIsOnce
  BY DEF LoadIsOnce
<1>1. work \in Numbers /\ table \in Numbers
  BY DEF TypeInv, Rows
<1>2. table \o work = table \/ table \o work = work
  BY <1>1, ConcatEmptySeq DEF Numbers, OnceInv
<1>3. \A i : Count(table \o work, i) <= 1
  BY <1>1, <1>2, OrderedLists DEF OnceInv
<1> QED BY <1>3 DEF LoadIsOnce, OnceInv

\* A LOAD the session was lost under starts over, and yet loads no row twice; one
\* that answered counted every row of the file, and they are committed all or none.
THEOREM LoadsOnce == Spec => []LoadIsOnce
<1>1. Init => TypeInv /\ OnceInv
  BY InitType, OnceInit
<1>2. TypeInv /\ OnceInv /\ [Next]_vars => (TypeInv /\ OnceInv)'
  BY TypeNext, OnceNext
<1>3. TypeInv /\ OnceInv => LoadIsOnce
  BY OnceIsOnce
<1> QED BY <1>1, <1>2, <1>3, PTL DEF Spec

-----------------------------------------------------------------------------
(* An error names the line of the first row that is wrong.                 *)

Wrong(i)    == file[i].width # Width \/ ~file[i].good
FineUpTo(n) == \A j \in Data : j <= n => ~Wrong(j)

\* All rows read have the width they should, and none is bad except in the batch;
\* what was inserted, in either attempt, has no bad row before it.
NamedInv ==
  /\ pc # "failed" => error = 0
  /\ \A n \in ToSet(table) \cup ToSet(work) : FineUpTo(n)
  /\ Running => /\ Ordered(batch) /\ ToSet(batch) \subseteq Seen
                /\ \A j \in Seen : file[j].width = Width
                /\ \A j \in Seen \ ToSet(batch) : ~Wrong(j)
  /\ LineIsNamed

Names(i) ==
  /\ i \in Data /\ Wrong(i)
  /\ error = line_num(file, i)
  /\ \A n \in ToSet(table) \cup ToSet(work) : n < i
  /\ \A j \in Data : j < i /\ Wrong(j) =>
       file[i].width # Width /\ file[j].width = Width /\ j \in ToSet(batch)

LEMMA LineIsNames ==
  ASSUME TypeInv
  PROVE  LineIsNamed <=> (error > 0 /\ ~refused => \E i : Names(i))
<1>1. ToSet(table \o work) = ToSet(table) \cup ToSet(work)
  BY WorkGrows
<1>2. Data \subseteq Nat
  BY DataIsInFile
<1> DEFINE wrong == {i \in Data : file[i].width # Width \/ ~file[i].good}
           First(i) == /\ error = line_num(file, i)
                       /\ \A n \in ToSet(table \o work) : n < i
                       /\ \A j \in {x \in wrong : x < i} :
                            file[i].width # Width /\ file[j].width = Width /\ j \in ToSet(batch)
<1>3. \A i : Names(i) <=> i \in wrong /\ First(i)
  BY <1>1 DEF Names, Wrong
<1>4. LineIsNamed <=> (error > 0 /\ ~refused => \E i \in wrong : First(i))
  BY DEF LineIsNamed
<1> HIDE DEF wrong, First
<1> QED BY <1>3, <1>4

LEMMA LineNext ==
  ASSUME TypeInv, [Next]_vars, \E i : Names(i)'
  PROVE  LineIsNamed'
<1>1. LineIsNamed' <=> (error > 0 /\ ~refused => \E i : Names(i))'
  BY TypeNext, LineIsNames, PTL
<1> QED BY <1>1

\* An error once given keeps its line: the rows loaded can only get fewer.
LEMMA LineStays ==
  ASSUME TypeInv, [Next]_vars, LineIsNamed, error' = error, batch' = batch,
         ToSet(table') \cup ToSet(work') \subseteq ToSet(table) \cup ToSet(work)
  PROVE  LineIsNamed'
<1>1. file' = file /\ Data' = Data /\ Width' = Width /\ refused' \in {refused, TRUE}
  BY FileStays
<1>2. LineIsNamed' <=> (error > 0 /\ ~refused => \E i : Names(i))'
  BY TypeNext, LineIsNames, PTL
<1>3. ASSUME NEW i, Names(i) PROVE Names(i)'
  BY <1>1, <1>3 DEF Names, Wrong
<1>4. ASSUME error' > 0, ~refused' PROVE \E i : Names(i)'
  <2>1. error > 0 /\ ~refused
    <3>1. error > 0
      BY <1>4
    <3>2. refused' = refused \/ refused' = TRUE
      BY <1>1
    <3>3. ~refused
      BY <1>4, <3>2, Zenon
    <3> QED BY <3>1, <3>3
  <2>2. PICK i : Names(i)
    BY <2>1, LineIsNames
  <2> QED BY <1>3, <2>2
<1> QED BY <1>2, <1>4

LEMMA NamedInit == Init => NamedInv
<1> SUFFICES ASSUME Init PROVE NamedInv
  OBVIOUS
<1>1. /\ pc = "reading" /\ at = Start /\ batch = <<>> /\ work = <<>> /\ table = <<>>
      /\ error = 0
  BY DEF Init
<1>2. Seen = {}
  <2>1. Start \in Nat
    BY InitType DEF TypeInv
  <2> QED BY <1>1, <2>1 DEF Seen, Data
<1>3. LineIsNamed
  BY <1>1 DEF LineIsNamed
<1> QED BY <1>1, <1>2, <1>3, EmptyRows DEF NamedInv

\* What the database takes of a batch has no bad row before it.
LEMMA AcceptedIsFine ==
  ASSUME TypeInv, NamedInv, Running
  PROVE  /\ \A n \in ToSet(Accepted) : FineUpTo(n)
         /\ Bad # {} => LET i == batch[Len(Accepted) + 1]
                        IN  /\ i \in Seen /\ Wrong(i)
                            /\ \A j \in Data : j < i => ~Wrong(j)
<1>1. /\ Ordered(batch) /\ ToSet(batch) \subseteq Seen
      /\ \A j \in Seen : file[j].width = Width
      /\ \A j \in Seen \ ToSet(batch) : ~Wrong(j)
  BY DEF NamedInv
<1>2. /\ Data \subseteq Nat /\ at \in Nat
      /\ batch \in Seq(Nat) /\ DOMAIN batch = 1..Len(batch) /\ Len(batch) \in Nat
      /\ \A m \in 1..Len(batch) : batch[m] \in ToSet(batch) /\ batch[m] \in Nat
  <2>1. batch \in Seq(Nat) /\ at \in Nat
    BY DEF TypeInv, Rows, Numbers
  <2>2. DOMAIN batch = 1..Len(batch) /\ Len(batch) \in Nat
    BY <2>1
  <2> QED BY <2>1, <2>2, DataIsInFile DEF ToSet
<1>3. /\ Accepted \in Numbers /\ Len(Accepted) \in 0..Len(batch)
      /\ \A m \in 1..Len(Accepted) : Accepted[m] = batch[m] /\ file[batch[m]].good
      /\ Bad = {} => Accepted = batch
      /\ Bad # {} => /\ Len(Accepted) + 1 \in 1..Len(batch)
                    /\ ~file[batch[Len(Accepted) + 1]].good
  BY AcceptedIs DEF Rows
\* A row wrong among those read is in the batch, past the accepted ones.
<1>4. ASSUME NEW j \in Data, NEW k \in 1..Len(batch), k <= Len(Accepted) + 1,
             j <= batch[k], Wrong(j)
      PROVE  k = Len(Accepted) + 1 /\ j = batch[k]
  <2>1. batch[k] \in Seen
    BY <1>1, <1>2
  <2>2. j \in Seen
    BY <1>2, <1>4, <2>1 DEF Seen
  <2>3. PICK m \in 1..Len(batch) : j = batch[m]
    BY <1>1, <1>2, <1>4, <2>2 DEF ToSet
  <2>4. ~file[batch[m]].good
    BY <1>1, <1>4, <2>2, <2>3 DEF Wrong
  <2>5. m > Len(Accepted)
    BY <1>2, <1>3, <2>4
  <2>6. ~(k < m)
    <3>1. k \in DOMAIN batch /\ m \in DOMAIN batch
      BY <1>2
    <3>2. k < m => batch[k] < batch[m]
      BY <1>1, <3>1 DEF Ordered
    <3>3. batch[k] \in Nat /\ batch[m] \in Nat /\ batch[m] <= batch[k]
      BY <1>2, <1>4, <2>3
    <3> QED BY <3>2, <3>3
  <2>7. k = Len(Accepted) + 1 /\ m = k
    BY <1>2, <1>3, <1>4, <2>5, <2>6
  <2> QED BY <2>3, <2>7
<1>5. ASSUME NEW n \in ToSet(Accepted) PROVE FineUpTo(n)
  <2>1. PICK k \in 1..Len(Accepted) : n = Accepted[k]
    <3>1. DOMAIN Accepted = 1..Len(Accepted)
      BY <1>3, LenProperties DEF Numbers
    <3> QED BY <3>1 DEF ToSet
  <2>2. k \in 1..Len(batch) /\ k <= Len(Accepted) + 1 /\ k # Len(Accepted) + 1 /\ n = batch[k]
    BY <1>2, <1>3, <2>1
  <2> QED BY <1>4, <2>2 DEF FineUpTo
<1>6. ASSUME Bad # {}
      PROVE  LET i == batch[Len(Accepted) + 1]
             IN  /\ i \in Seen /\ Wrong(i)
                 /\ \A j \in Data : j < i => ~Wrong(j)
  <2> DEFINE k == Len(Accepted) + 1
  <2>1. k \in 1..Len(batch) /\ ~file[batch[k]].good /\ k <= Len(Accepted) + 1
    BY <1>2, <1>3, <1>6
  <2> HIDE DEF k
  <2>2. batch[k] \in Seen /\ batch[k] \in Nat
    BY <1>1, <1>2, <2>1
  <2>3. Wrong(batch[k])
    BY <2>1 DEF Wrong
  <2>4. \A j \in Data : j < batch[k] => ~Wrong(j)
    BY <1>2, <1>4, <2>1, <2>2
  <2> QED BY <2>2, <2>3, <2>4 DEF k
<1> QED BY <1>5, <1>6

\* The LOAD is over, or between two attempts, and its error is the one it had.
LEMMA NamedStops ==
  ASSUME TypeInv, NamedInv, [Next]_vars, ~Running', error' = error, batch' = batch,
         pc = "failed" => pc' = "failed",
         \A n \in ToSet(table') \cup ToSet(work') : FineUpTo(n),
         error > 0 => ToSet(table') \cup ToSet(work') \subseteq ToSet(table) \cup ToSet(work)
  PROVE  NamedInv'
<1>1. file' = file /\ Data' = Data /\ Width' = Width
  BY FileStays
<1>2. \A n : FineUpTo(n)' <=> FineUpTo(n)
  BY <1>1 DEF FineUpTo, Wrong
<1>3. LineIsNamed'
  <2>1. CASE error > 0
    BY <2>1, LineStays DEF NamedInv
  <2>2. CASE ~(error > 0)
    BY <2>2 DEF LineIsNamed
  <2> QED BY <2>1, <2>2
<1>4. (pc # "failed" => error = 0)'
  BY DEF NamedInv
<1>5. \A n \in ToSet(table') \cup ToSet(work') : FineUpTo(n)'
  BY <1>2
<1> QED BY <1>3, <1>4, <1>5 DEF NamedInv

LEMMA NamedNext ==
  ASSUME TypeInv, NamedInv, [Next]_vars
  PROVE  NamedInv'
<1> USE DEF Reads, Sends
<1>1. file' = file /\ Data' = Data /\ Width' = Width /\ Start' = Start
  BY FileStays
<1>2. /\ \A n : FineUpTo(n)' <=> FineUpTo(n)
      /\ \A n : Wrong(n)' <=> Wrong(n)
  BY <1>1 DEF FineUpTo, Wrong
<1>3. /\ pc # "failed" => error = 0
      /\ \A n \in ToSet(table) \cup ToSet(work) : FineUpTo(n)
      /\ Running => /\ Ordered(batch) /\ ToSet(batch) \subseteq Seen
                    /\ \A j \in Seen : file[j].width = Width
                    /\ \A j \in Seen \ ToSet(batch) : ~Wrong(j)
      /\ LineIsNamed
  BY DEF NamedInv
<1>4. /\ batch \in Numbers /\ at \in Nat /\ Data \subseteq Nat
      /\ ToSet(work \o Accepted) = ToSet(work) \cup ToSet(Accepted)
      /\ ToSet(table \o work) = ToSet(table) \cup ToSet(work)
      /\ ToSet(<<>>) = {} /\ Ordered(<<>>)
  BY DataIsInFile, WorkGrows, EmptyRows DEF TypeInv, Rows
\* An action after which the LOAD still runs: it gives no error.
<1>5. ASSUME Running', error' = 0,
             \A n \in ToSet(table') \cup ToSet(work') : FineUpTo(n),
             Ordered(batch'), ToSet(batch') \subseteq Seen',
             \A j \in Seen' : file[j].width = Width,
             \A j \in Seen' \ ToSet(batch') : ~Wrong(j)
      PROVE  NamedInv'
  <2>1. LineIsNamed'
    BY <1>5 DEF LineIsNamed
  <2> QED BY <1>1, <1>2, <1>5, <2>1 DEF NamedInv
<1>6. CASE SkipBlank
  <2>1. Running /\ Running' /\ error' = 0 /\ UNCHANGED <<table, work, batch>>
    BY <1>3, <1>6 DEF SkipBlank, Running
  <2>2. Seen' = Seen
    <3>1. at' = at + 1 /\ at + 1 \notin Data
      BY <1>6, RecordIsRow DEF SkipBlank
    <3>2. \A i \in Data : i <= at + 1 <=> i <= at
      BY <1>4, <3>1
    <3> QED BY <1>1, <3>1, <3>2 DEF Seen
  <2> QED BY <1>3, <1>5, <2>1, <2>2
<1>7. CASE ReadRow
  <2>1. /\ at + 1 \in Data /\ batch' = Append(batch, at + 1) /\ at' = at + 1
        /\ file[at + 1].width = Width
    BY <1>7, RecordIsRow DEF ReadRow, Record
  <2>2. Running /\ Running' /\ error' = 0 /\ UNCHANGED <<table, work>>
    BY <1>3, <1>7 DEF ReadRow, Running
  <2>3. Seen' = Seen \cup {at + 1}
    <3>1. \A i \in Data : i <= at + 1 <=> i <= at \/ i = at + 1
      BY <1>4
    <3> QED BY <1>1, <2>1, <3>1 DEF Seen
  <2>4. \A x \in ToSet(batch) : x < at + 1
    <3>1. \A x \in Seen : x < at + 1
      BY <1>4 DEF Seen
    <3> QED BY <1>3, <2>2, <3>1
  <2>5. Ordered(batch') /\ ToSet(batch') = ToSet(batch) \cup {at + 1}
    BY <1>3, <1>4, <2>1, <2>2, <2>4, OrderedAppend
  <2> QED BY <1>3, <1>5, <2>1, <2>2, <2>3, <2>5
<1>8. CASE RowIsRagged
  <2>1. /\ Running /\ pc' = "failed" /\ error' = line_num(file, at + 1)
        /\ UNCHANGED <<table, work, batch, at>>
        /\ at + 1 \in Data /\ file[at + 1].width # Width
    BY <1>8, RecordIsRow DEF RowIsRagged, Running, Record
  <2>2. \A j \in Data : j < at + 1 => j \in Seen
    BY <1>4 DEF Seen
  <2>3. \A n \in ToSet(table) \cup ToSet(work) : n < at + 1
    <3>1. TAKE n \in ToSet(table) \cup ToSet(work)
    <3>2. FineUpTo(n) /\ n \in Nat
      BY <1>3, <1>4 DEF TypeInv, Rows
    <3>3. ~(at + 1 <= n)
      BY <2>1, <3>2 DEF FineUpTo, Wrong
    <3> QED BY <1>4, <3>2, <3>3
  <2>4. Names(at + 1)'
    <3>1. \A j \in Data : j < at + 1 /\ Wrong(j) => file[j].width = Width /\ j \in ToSet(batch)
      BY <1>3, <2>1, <2>2
    <3>2. Wrong(at + 1)
      BY <2>1 DEF Wrong
    <3> QED BY <1>1, <1>2, <2>1, <2>3, <3>1, <3>2 DEF Names
  <2>5. LineIsNamed'
    BY <2>4, LineNext
  <2> QED BY <1>2, <1>3, <2>1, <2>5 DEF NamedInv, Running
<1>9. CASE FileIsNoText
  BY <1>3, <1>9, NamedStops DEF FileIsNoText, Running
<1>10. CASE ReadEnd
  <2>1. /\ Running /\ error' = 0 /\ UNCHANGED <<table, work, batch>>
        /\ pc' \in {"sending", "done"} /\ pc # "failed" /\ error = 0
    BY <1>3, <1>10 DEF ReadEnd, Running
  <2>2. CASE pc' = "done"
    BY <1>3, <2>1, <2>2, NamedStops DEF Running
  <2>3. CASE pc' = "sending"
    <3>1. Seen' = Seen
      BY <1>1, <1>10 DEF ReadEnd, Seen
    <3>2. Running'
      BY <2>3 DEF Running
    <3> QED BY <1>3, <1>5, <2>1, <3>1, <3>2
  <2> QED BY <2>1, <2>2, <2>3
<1>11. CASE _load_batch
  <2>1. /\ Running /\ error = 0 /\ error' = 0 /\ table' = table /\ batch' = <<>> /\ at' = at
        /\ Accepted = batch /\ work' = work \o Accepted /\ pc' \in {"done", "reading"}
    BY <1>3, <1>11, AcceptedIs DEF _load_batch, Running
  <2>2. \A n \in ToSet(table') \cup ToSet(work') : FineUpTo(n)
    BY <1>3, <1>4, <2>1, AcceptedIsFine
  <2>3. \A j \in Seen : ~Wrong(j)
    <3>1. ASSUME NEW j \in ToSet(batch) PROVE ~Wrong(j)
      <4>1. FineUpTo(j) /\ j \in Data /\ j \in Nat
        BY <1>4, <2>1, AcceptedIsFine DEF TypeInv, Rows
      <4> QED BY <4>1 DEF FineUpTo
    <3> QED BY <1>3, <2>1, <3>1
  <2>4. LineIsNamed'
    BY <2>1 DEF LineIsNamed
  <2>5. Seen' = Seen
    BY <1>1, <2>1 DEF Seen
  <2> QED BY <1>1, <1>2, <1>3, <1>4, <2>1, <2>2, <2>3, <2>4, <2>5 DEF NamedInv
<1>12. CASE BatchIsRejected
  <2> DEFINE i == batch[Len(Accepted) + 1]
  <2>1. /\ Running /\ pc' = "failed" /\ error' = line_num(file, i)
        /\ UNCHANGED <<table, batch>> /\ work' = work \o Accepted /\ Bad # {}
    BY <1>12 DEF BatchIsRejected, Running
  <2>2. i \in Seen /\ Wrong(i) /\ \A j \in Data : j < i => ~Wrong(j)
    BY <2>1, AcceptedIsFine
  <2> HIDE DEF i
  <2>3. \A n \in ToSet(table') \cup ToSet(work') : FineUpTo(n) /\ n \in Nat
    <3>1. \A n \in ToSet(table') \cup ToSet(work') : FineUpTo(n)
      BY <1>3, <1>4, <2>1, AcceptedIsFine
    <3>2. Rows(table') /\ Rows(work')
      BY <2>1, WorkGrows DEF TypeInv
    <3> QED BY <1>4, <3>1, <3>2 DEF Rows
  <2>4. \A n \in ToSet(table') \cup ToSet(work') : n < i
    <3>1. TAKE n \in ToSet(table') \cup ToSet(work')
    <3>2. i \in Data /\ i \in Nat /\ n \in Nat
      BY <1>4, <2>2, <2>3 DEF Seen
    <3>3. ~(i <= n)
      BY <2>2, <2>3, <3>2 DEF FineUpTo
    <3> QED BY <3>2, <3>3
  <2>5. \E n : Names(n)'
    <3>1. i \in Data
      BY <2>2 DEF Seen
    <3>2. ASSUME NEW n, n = i PROVE Names(n)'
      BY <1>1, <1>2, <2>1, <2>2, <2>4, <3>1, <3>2 DEF Names
    <3> QED BY <3>2
  <2>6. LineIsNamed'
    BY <2>5, LineNext
  <2> QED BY <1>2, <2>1, <2>3, <2>6 DEF NamedInv, Running
<1>18. CASE StatementFails
  <2>1. /\ pc' = "failed" /\ refused' /\ UNCHANGED <<table, work>>
    BY <1>18 DEF StatementFails
  <2>2. LineIsNamed'
    BY <2>1 DEF LineIsNamed
  <2> QED BY <1>2, <1>3, <2>1, <2>2 DEF NamedInv, Running
<1>13. CASE Cancel
  <2>1. /\ error' = error /\ error = 0 /\ pc' = "failed" /\ UNCHANGED <<table, batch>>
        /\ work' = work \/ (Running /\ work' = work \o Accepted)
    BY <1>3, <1>13 DEF Cancel, Running
  <2>2. \A n \in ToSet(table') \cup ToSet(work') : FineUpTo(n)
    BY <1>3, <1>4, <2>1, AcceptedIsFine
  <2> QED BY <2>1, <2>2, NamedStops DEF Running
<1>14. CASE LoseSession
  <2>1. /\ error' = error /\ pc' \in {"failed", "lost", "done"} /\ UNCHANGED <<table, batch>>
        /\ work' = <<>>
        /\ pc = "failed" => pc' = "failed"
    BY <1>14 DEF LoseSession
  <2>2. ToSet(table') \cup ToSet(work') \subseteq ToSet(table) \cup ToSet(work)
    BY <1>4, <2>1
  <2> QED BY <1>3, <2>1, <2>2, NamedStops DEF Running
<1>15. CASE RetryOnce
  <2>1. /\ Running' /\ error' = 0 /\ UNCHANGED <<table, work>> /\ batch' = <<>>
        /\ at' = Start
    BY <1>3, <1>15 DEF RetryOnce, Begin, Running
  <2>2. Seen' = {}
    BY <1>1, <2>1 DEF Seen, Data, TypeInv
  <2> QED BY <1>3, <1>4, <1>5, <2>1, <2>2
<1>16. CASE EndTransaction /\ table' \in {table, table \o work}
  <2>1. /\ pc' = pc /\ UNCHANGED <<error, batch, at>> /\ work' = <<>>
    BY <1>16 DEF EndTransaction
  <2>2. ToSet(table') \cup ToSet(work') \subseteq ToSet(table) \cup ToSet(work)
    BY <1>4, <1>16, <2>1
  <2>3. CASE Running
    <3>1. Seen' = Seen /\ Running' /\ error' = 0
      BY <1>1, <1>3, <2>1, <2>3 DEF Seen, Running
    <3> QED BY <1>3, <1>5, <2>1, <2>2, <2>3, <3>1
  <2>4. CASE ~Running
    BY <1>3, <2>1, <2>2, <2>4, NamedStops DEF Running
  <2> QED BY <2>3, <2>4
<1>17. CASE UNCHANGED vars
  <2>1. LineIsNamed'
    BY <1>3, <1>17, LineStays DEF vars
  <2>2. Seen' = Seen
    BY <1>1, <1>17 DEF vars, Seen
  <2> QED BY <1>1, <1>2, <1>3, <1>17, <2>1, <2>2 DEF vars, NamedInv, Running
<1> QED
  BY <1>6, <1>7, <1>8, <1>9, <1>10, <1>11, <1>12, <1>13, <1>14, <1>15, <1>16, <1>17,
     <1>18 DEF Next, Commit, Rollback

\* The line an error names is that of the first row the table cannot take, whatever
\* the batch it was in and the attempt; no row after it was loaded.
THEOREM ErrorNamesLine == Spec => []LineIsNamed
<1>1. Init => TypeInv /\ NamedInv
  BY InitType, NamedInit
<1>2. TypeInv /\ NamedInv /\ [Next]_vars => (TypeInv /\ NamedInv)'
  BY TypeNext, NamedNext
<1>3. NamedInv => LineIsNamed
  BY DEF NamedInv
<1> QED BY <1>1, <1>2, <1>3, PTL DEF Spec

=============================================================================
