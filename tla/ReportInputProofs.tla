-------------------------- MODULE ReportInputProofs --------------------------
(***************************************************************************)
(* Proofs about ReportInput, for every set of records, every limit and any *)
(* number of writes at any time: what a comparison is about was in the     *)
(* file.                                                                   *)
(*                                                                         *)
(* The argument for a file that is only appended to: it grows, so what was *)
(* there and what was read are both beginnings of it, and the read ended   *)
(* where the file did, behind what was there.  That for the reader that    *)
(* looks twice: modification times do not fall, so one that did not rise   *)
(* was not exceeded by any write in between.                               *)
(*                                                                         *)
(* Then about History: the summary of an analysis is that of whole records *)
(* each counted once, while monitors append to the file or rotate it.  A   *)
(* record once read stays where it is, and one more is in every total.     *)
(***************************************************************************)
EXTENDS ReportInput, SequenceTheorems, FiniteSetTheorems, TLAPS

Halves == Records \X {1, 2}
Places == {"open", "read", "reinspect", "decode", "done"}

TypeOK ==
  /\ file \in Seq(Halves) /\ bytes \in Seq(Halves)
  /\ mtime \in Nat /\ now \in Nat /\ mtime <= now
  /\ strict \in BOOLEAN /\ pc \in Places
  /\ writes \in Seq([kind : {"append", "truncate", "overwrite"}, at : Nat])

\* IsPrefix, element by element.
Begins(s, t) == Len(s) <= Len(t) /\ \A i \in 1..Len(s) : s[i] = t[i]

\* What follows the first half of a record is the second half of it.
Paired(s) == \A i \in 2..Len(s) : s[i - 1][2] = 1 => s[i][1] = s[i - 1][1]

AllAppends == \A i \in 1..Len(writes) : writes[i].kind = "append"

\* Before the file is opened, nothing has been read or written.
OpenInv ==
  pc = "open" => Paired(file) /\ bytes = <<>> /\ writes = <<>> /\ result = None

\* The metadata is that of the file when it was opened, and every write
\* since then has a time between the two modification times.
InitialInv ==
  pc # "open" =>
    /\ initial.content \in Seq(Halves) /\ initial.len = Len(initial.content)
    /\ initial.mtime \in Nat /\ initial.mtime <= mtime
    /\ \A i \in 1..Len(writes) : initial.mtime <= writes[i].at /\ writes[i].at <= mtime
    /\ writes = <<>> => file = initial.content

\* A file that is only appended to begins with what it was and what was read.
GrowthInv ==
  pc # "open" /\ AllAppends =>
    Paired(file) /\ Begins(initial.content, file) /\ Begins(bytes, file)

\* The read has come to an end of the file.
WasRead == pc \in {"reinspect", "decode"} \/ (pc = "done" /\ result # Refused)
ReadInv == WasRead /\ AllAppends => Len(initial.content) <= Len(bytes)

\* The second look agreed with the first.
SameBytes ==
  bytes = initial.content \/ \A i \in 1..Len(writes) : writes[i].at = initial.mtime
LookInv == strict /\ WasRead /\ pc # "reinspect" => SameBytes

\* Only the bytes are ever decoded.
ResultInv ==
  /\ pc # "done" => result = None
  /\ pc = "done" => result \in {Refused, Decode(bytes)}

IInv ==
  /\ TypeOK /\ OpenInv /\ InitialInv /\ GrowthInv /\ ReadInv /\ LookInv /\ ResultInv

-----------------------------------------------------------------------------
(* Beginnings of sequences.                                                *)

\* Element by element is what IsPrefix means.
LEMMA BeginsIsPrefix ==
  ASSUME NEW S, NEW s \in Seq(S), NEW t \in Seq(S), Begins(s, t)
  PROVE  IsPrefix(s, t)
<1> DEFINE n == Len(s)
           a == SubSeq(s, 1, n)
           b == SubSeq(t, 1, n)
<1>1. n \in Nat /\ Len(t) \in Nat /\ n <= Len(t)
  BY DEF Begins
<1>2. /\ a \in Seq(S) /\ Len(a) = n /\ \A i \in 1..n : a[i] = s[i]
      /\ b \in Seq(S) /\ Len(b) = n /\ \A i \in 1..n : b[i] = t[i]
  <2>1. \A i \in 1..n : s[i] \in S /\ t[i] \in S
    <3>1. \A i \in 1..n : i \in 1..Len(t)
      BY <1>1
    <3> QED BY <3>1, ElementOfSeq
  <2>2. \A i \in 1..n : i + 1 - 1 = i
    BY <1>1
  <2> QED BY <1>1, <2>1, <2>2
<1>3. \A i \in 1..n : a[i] = b[i]
  BY <1>2 DEF Begins
<1>4. a = b
  <2> HIDE DEF a, b, n
  <2> QED BY <1>2, <1>3, SeqEqual
<1> QED BY <1>1, <1>4 DEF IsPrefix

\* Two beginnings of one sequence are ordered by their lengths.
LEMMA BeginningsCompare ==
  ASSUME NEW S, NEW s \in Seq(S), NEW t \in Seq(S), NEW u \in Seq(S),
         Begins(s, u), Begins(t, u), Len(s) <= Len(t)
  PROVE  Begins(s, t)
<1>1. Len(s) \in Nat /\ Len(t) \in Nat
  OBVIOUS
<1>2. \A i \in 1..Len(s) : i \in 1..Len(t)
  BY <1>1
<1> QED BY <1>2 DEF Begins

\* A beginning of the same length is the whole.
LEMMA BeginsWhole ==
  ASSUME NEW S, NEW s \in Seq(S), NEW t \in Seq(S), Begins(s, t), Len(s) = Len(t)
  PROVE  s = t
BY SeqEqual DEF Begins

\* What a sequence begins with, it begins with when it is longer.
LEMMA BeginsAppend ==
  ASSUME NEW S, NEW s \in Seq(S), NEW t \in Seq(S), NEW e \in S, Begins(s, t)
  PROVE  Begins(s, Append(t, e))
<1>1. Len(s) \in Nat /\ Len(t) \in Nat /\ Len(s) <= Len(t)
  BY DEF Begins
<1>2. Len(Append(t, e)) = Len(t) + 1 /\ \A i \in 1..Len(t) : Append(t, e)[i] = t[i]
  OBVIOUS
<1>3. \A i \in 1..Len(s) : i \in 1..Len(t)
  BY <1>1
<1> QED BY <1>1, <1>2, <1>3 DEF Begins

\* Reading on from where one is leaves a beginning of the file.
LEMMA BeginsRead ==
  ASSUME NEW S, NEW s \in Seq(S), NEW t \in Seq(S), NEW n \in Nat \ {0},
         Len(s) + n <= Len(t)
  PROVE  /\ s \o SubSeq(t, Len(s) + 1, Len(s) + n) \in Seq(S)
         /\ Begins(s, t) => Begins(s \o SubSeq(t, Len(s) + 1, Len(s) + n), t)
<1> DEFINE l == Len(s)
           part == SubSeq(t, l + 1, l + n)
<1>1. l \in Nat /\ Len(t) \in Nat
  OBVIOUS
<1>2. part \in Seq(S) /\ Len(part) = n /\ \A i \in 1..n : part[i] = t[l + i]
  <2>1. \A i \in (l + 1)..(l + n) : t[i] \in S
    <3>1. \A i \in (l + 1)..(l + n) : i \in 1..Len(t)
      BY <1>1
    <3> QED BY <3>1, ElementOfSeq
  <2>2. l + n - (l + 1) + 1 = n /\ l + 1 <= l + n + 1 /\ l + 1 \in Int /\ l + n \in Int
    BY <1>1
  <2>3. \A i \in 1..n : l + 1 + i - 1 = l + i
    BY <1>1
  <2> HIDE DEF l
  <2> QED BY <1>1, <2>1, <2>2, <2>3
<1> HIDE DEF part
<1>3. s \o part \in Seq(S) /\ Len(s \o part) = l + n
  <2>1. part \in Seq(S) /\ Len(part) = n
    BY <1>2
  <2> QED BY <2>1, ConcatProperties
<1>4. ASSUME Begins(s, t), NEW i \in 1..(l + n)
      PROVE  (s \o part)[i] = t[i]
  <2>1. CASE i <= l
    <3>1. i \in 1..l
      BY <1>1, <2>1
    <3> QED BY <1>2, <1>4, <3>1 DEF Begins
  <2>2. CASE ~(i <= l)
    <3>1. i - l \in 1..n /\ l + (i - l) = i
      BY <1>1, <2>2
    <3>2. (s \o part)[i] = part[i - l]
      BY <1>1, <1>2, <2>2
    <3> QED BY <1>2, <3>1, <3>2
  <2> QED BY <2>1, <2>2
<1> QED BY <1>3, <1>4 DEF Begins, part

-----------------------------------------------------------------------------
(* The invariant is inductive.                                             *)

\* At first the file holds at most one record, and nothing has been read.
LEMMA InitInv ==
  ASSUME Init
  PROVE  IInv
<1>1. file \in Seq(Halves) /\ Paired(file)
  <2>1. CASE file = <<>>
    BY <2>1 DEF Paired
  <2>2. ASSUME NEW r \in Records, file = <<<<r, 1>>>>
        PROVE  file \in Seq(Halves) /\ Paired(file)
    <3>1. <<r, 1>> \in Halves
      BY DEF Halves
    <3> QED BY <2>2, <3>1 DEF Paired
  <2>3. ASSUME NEW r \in Records, file = <<<<r, 1>>, <<r, 2>>>>
        PROVE  file \in Seq(Halves) /\ Paired(file)
    <3>1. <<r, 1>> \in Halves /\ <<r, 2>> \in Halves
      BY DEF Halves
    <3>2. file \in Seq(Halves) /\ Len(file) = 2 /\ file[1][1] = r /\ file[2][1] = r
      BY <2>3, <3>1
    <3>3. \A i \in 2..2 : i = 2 /\ i - 1 = 1
      OBVIOUS
    <3> QED BY <3>2, <3>3 DEF Paired
  <2> QED BY <2>1, <2>2, <2>3 DEF Init
<1> QED BY <1>1 DEF Init, IInv, TypeOK, Places, OpenInv, InitialInv, GrowthInv, ReadInv, WasRead,
                    LookInv, ResultInv

\* Opening takes the metadata down, and refuses a file that is too long.
LEMMA OpenStep ==
  ASSUME IInv, Open
  PROVE  IInv'
<1>1. /\ initial' = [len |-> Len(file), mtime |-> mtime, content |-> file]
      /\ pc = "open" /\ UNCHANGED <<file, mtime, now, strict, bytes, writes>>
      /\ \/ pc' = "done" /\ result' = Refused
         \/ pc' = "read" /\ result' = result
  BY DEF Open
<1>2. bytes = <<>> /\ writes = <<>> /\ Paired(file) /\ result = None /\ TypeOK
  BY <1>1 DEF IInv, OpenInv
<1>3. TypeOK' /\ OpenInv'
  BY <1>1, <1>2 DEF TypeOK, OpenInv, Places
<1>4. Len(bytes) = 0 /\ Len(writes) = 0 /\ Len(file) \in Nat /\ mtime \in Nat
  BY <1>2 DEF TypeOK
<1>5. InitialInv'
  BY <1>1, <1>2, <1>4 DEF InitialInv, TypeOK
<1>6. GrowthInv'
  BY <1>1, <1>2, <1>4 DEF GrowthInv, Begins, Paired
<1>7. ReadInv' /\ LookInv' /\ ResultInv'
  BY <1>1, <1>2 DEF ReadInv, LookInv, ResultInv, WasRead
<1> QED BY <1>3, <1>5, <1>6, <1>7 DEF IInv

\* Reading takes what follows in the file.
LEMMA ReadStep ==
  ASSUME IInv, NEW n \in Nat \ {0}, ReadSome(n)
  PROVE  IInv'
<1>1. /\ pc = "read" /\ Len(bytes) + n <= Len(file)
      /\ bytes' = bytes \o SubSeq(file, Len(bytes) + 1, Len(bytes) + n)
      /\ UNCHANGED <<file, mtime, now, strict, pc, initial, result, writes>>
  BY DEF ReadSome
<1>2. TypeOK /\ InitialInv /\ GrowthInv /\ ResultInv
  BY DEF IInv
<1>3. bytes' \in Seq(Halves) /\ (Begins(bytes, file) => Begins(bytes', file))
  BY <1>1, <1>2, BeginsRead DEF TypeOK
<1>4. TypeOK' /\ InitialInv'
  BY <1>1, <1>2, <1>3 DEF TypeOK, InitialInv
<1>5. GrowthInv'
  BY <1>1, <1>2, <1>3 DEF GrowthInv, AllAppends, Begins, Paired
<1>6. OpenInv' /\ ReadInv' /\ LookInv' /\ ResultInv'
  BY <1>1, <1>2 DEF OpenInv, ReadInv, LookInv, ResultInv, WasRead
<1> QED BY <1>4, <1>5, <1>6 DEF IInv

\* The read ends at an end of the file, or is refused.
LEMMA ReadEndsStep ==
  ASSUME InputAssumption, IInv, ReadEnds
  PROVE  IInv'
<1>1. /\ pc = "read" /\ (Len(bytes) >= Len(file) \/ Len(bytes) = MaxLength + 1)
      /\ UNCHANGED <<file, mtime, now, strict, initial, bytes, writes>>
      /\ \/ pc' = "done" /\ result' = Refused
         \/ /\ ~(Len(bytes) > MaxLength)
            /\ pc' = (IF strict THEN "reinspect" ELSE "decode") /\ result' = result
  BY DEF ReadEnds
<1>2. TypeOK /\ InitialInv /\ GrowthInv /\ ResultInv
  BY DEF IInv
<1>3. TypeOK' /\ OpenInv' /\ InitialInv' /\ GrowthInv'
  BY <1>1, <1>2 DEF TypeOK, OpenInv, InitialInv, GrowthInv, AllAppends, Begins, Paired, Places
<1>4. Len(bytes) \in Nat /\ Len(file) \in Nat /\ MaxLength \in Nat
  BY <1>2 DEF TypeOK, InputAssumption
<1>5. ReadInv'
  <2> SUFFICES ASSUME WasRead', AllAppends'
               PROVE  Len(initial.content) <= Len(bytes)
    BY <1>1 DEF ReadInv
  <2>1. Len(bytes) >= Len(file)
    BY <1>1, <1>4 DEF WasRead
  <2>2. Begins(initial.content, file)
    BY <1>1, <1>2 DEF GrowthInv, AllAppends
  <2>3. Len(initial.content) <= Len(file) /\ Len(initial.content) \in Nat
    BY <1>1, <1>2, <2>2 DEF Begins, InitialInv
  <2> QED BY <1>4, <2>1, <2>3
<1>6. LookInv' /\ ResultInv'
  BY <1>1, <1>2 DEF LookInv, ResultInv, WasRead
<1> QED BY <1>3, <1>5, <1>6 DEF IInv

\* The second look agrees, or the report is refused.
LEMMA ReinspectStep ==
  ASSUME IInv, Reinspect
  PROVE  IInv'
<1>1. /\ pc = "reinspect"
      /\ UNCHANGED <<file, mtime, now, strict, initial, bytes, writes>>
      /\ \/ pc' = "done" /\ result' = Refused
         \/ SameFile /\ pc' = "decode" /\ result' = result
  BY DEF Reinspect
<1>2. TypeOK /\ InitialInv /\ GrowthInv /\ ResultInv /\ ReadInv
  BY DEF IInv
<1>3. TypeOK' /\ OpenInv' /\ InitialInv' /\ GrowthInv'
  BY <1>1, <1>2 DEF TypeOK, OpenInv, InitialInv, GrowthInv, AllAppends, Begins, Paired, Places
<1>4. ReadInv' /\ ResultInv'
  BY <1>1, <1>2 DEF ReadInv, ResultInv, WasRead, AllAppends
<1>5. ASSUME SameFile
      PROVE  SameBytes
  <2>1. CASE writes = <<>>
    <3>1. AllAppends
      BY <2>1 DEF AllAppends
    <3>2. Begins(bytes, file) /\ file = initial.content /\ Len(bytes) = Len(file)
      BY <1>1, <1>2, <1>5, <2>1, <3>1 DEF GrowthInv, InitialInv, SameFile
    <3>3. bytes \in Seq(Halves) /\ file \in Seq(Halves)
      BY <1>2 DEF TypeOK
    <3>4. bytes = file
      BY <3>2, <3>3, BeginsWhole
    <3> QED BY <3>2, <3>4 DEF SameBytes
  <2>2. CASE writes # <<>>
    <3>1. mtime = initial.mtime /\ mtime \in Nat
      BY <1>2, <1>5 DEF SameFile, TypeOK
    <3>2. \A i \in 1..Len(writes) : writes[i].at \in Nat
      <4> DEFINE W == [kind : {"append", "truncate", "overwrite"}, at : Nat]
      <4>1. writes \in Seq(W) /\ \A w \in W : w.at \in Nat
        BY <1>2 DEF TypeOK
      <4> HIDE DEF W
      <4> QED BY <4>1, ElementOfSeq
    <3> QED BY <1>1, <1>2, <3>1, <3>2 DEF SameBytes, InitialInv
  <2> QED BY <2>1, <2>2
<1>6. LookInv'
  BY <1>1, <1>5 DEF LookInv, WasRead, SameBytes
<1> QED BY <1>3, <1>4, <1>6 DEF IInv

\* What is decoded is what was read.
LEMMA DecodeStep ==
  ASSUME IInv, DecodeLast
  PROVE  IInv'
<1>1. /\ pc = "decode" /\ pc' = "done" /\ result' = Decode(bytes)
      /\ UNCHANGED <<file, mtime, now, strict, initial, bytes, writes>>
  BY DEF DecodeLast
<1>2. TypeOK /\ InitialInv /\ GrowthInv /\ ReadInv /\ LookInv
  BY DEF IInv
<1>3. TypeOK' /\ OpenInv' /\ InitialInv' /\ GrowthInv'
  BY <1>1, <1>2 DEF TypeOK, OpenInv, InitialInv, GrowthInv, AllAppends, Begins, Paired, Places
<1>4. ReadInv' /\ LookInv'
  BY <1>1, <1>2 DEF ReadInv, LookInv, WasRead, AllAppends, SameBytes
<1>5. ResultInv'
  BY <1>1 DEF ResultInv, Decode
<1> QED BY <1>3, <1>4, <1>5 DEF IInv

\* A write has a time between the modification times.
LEMMA WriteTimes ==
  ASSUME IInv, pc # "open", NEW kind \in {"append", "truncate", "overwrite"},
         writes' = Append(writes, [kind |-> kind, at |-> now]), mtime' = now, initial' = initial
  PROVE  /\ writes' # <<>>
         /\ writes' \in Seq([kind : {"append", "truncate", "overwrite"}, at : Nat])
         /\ initial.mtime <= mtime'
         /\ \A i \in 1..Len(writes') : initial.mtime <= writes'[i].at /\ writes'[i].at <= mtime'
         /\ AllAppends' => AllAppends /\ kind = "append"
<1> DEFINE W == [kind : {"append", "truncate", "overwrite"}, at : Nat]
           w == [kind |-> kind, at |-> now]
           n == Len(writes)
<1>1. TypeOK /\ InitialInv
  BY DEF IInv
<1>2. writes \in Seq(W) /\ w \in W /\ w.at = now /\ w.kind = kind /\ \A x \in W : x.at \in Nat
  BY <1>1 DEF TypeOK
<1>3. now \in Nat /\ mtime \in Nat /\ mtime <= now /\ initial.mtime \in Nat
      /\ initial.mtime <= mtime
      /\ \A i \in 1..n : initial.mtime <= writes[i].at /\ writes[i].at <= mtime
  BY <1>1 DEF TypeOK, InitialInv
<1>4. writes' = Append(writes, w)
  OBVIOUS
<1> HIDE DEF W, w
<1>5. /\ n \in Nat /\ writes' \in Seq(W) /\ Len(writes') = n + 1
      /\ writes'[n + 1] = w /\ \A i \in 1..n : writes'[i] = writes[i]
  BY <1>2, <1>4
<1>6. \A i \in 1..n : writes[i].at \in Nat
  BY <1>2, ElementOfSeq
<1> HIDE DEF n
<1>7. \A i \in 1..Len(writes') : i \in 1..n \/ i = n + 1
  BY <1>5
<1>8. n + 1 \in 1..Len(writes') /\ \A i \in 1..n : i \in 1..Len(writes')
  BY <1>5
<1>9. \A i \in 1..Len(writes') : initial.mtime <= writes'[i].at /\ writes'[i].at <= mtime'
  <2> SUFFICES ASSUME NEW i \in 1..Len(writes')
               PROVE  initial.mtime <= writes'[i].at /\ writes'[i].at <= mtime'
    OBVIOUS
  <2>1. CASE i \in 1..n
    BY <1>3, <1>5, <1>6, <2>1
  <2>2. CASE i = n + 1
    BY <1>2, <1>3, <1>5, <2>2
  <2> QED BY <1>7, <2>1, <2>2
<1>10. AllAppends' => AllAppends /\ kind = "append"
  BY <1>2, <1>5, <1>8 DEF AllAppends, n
<1>11. writes' # <<>>
  <2>1. Len(writes') > 0
    BY <1>5
  <2> QED BY <2>1
<1> QED BY <1>3, <1>5, <1>9, <1>10, <1>11 DEF W

\* A record grows by its second half, or a new one by its first.
LEMMA AppendPairs ==
  ASSUME TypeOK, Paired(file), NEW r \in Records,
         LET begun == file # <<>> /\ Last(file)[2] = 1
         IN  file' = Append(file, IF begun THEN <<Last(file)[1], 2>> ELSE <<r, 1>>)
  PROVE  /\ Paired(file') /\ file' \in Seq(Halves)
         /\ \A s \in Seq(Halves) : Begins(s, file) => Begins(s, file')
<1> DEFINE n == Len(file)
           begun == file # <<>> /\ Last(file)[2] = 1
           e == IF begun THEN <<Last(file)[1], 2>> ELSE <<r, 1>>
<1>1. file \in Seq(Halves) /\ n \in Nat
  BY DEF TypeOK
<1>2. begun => n \in 1..n /\ Last(file) = file[n]
  BY <1>1 DEF Last
<1>3. e \in Halves
  <2>1. CASE begun
    <3>1. file[n] \in Halves
      BY <1>1, <1>2, <2>1, ElementOfSeq
    <3> QED BY <1>2, <2>1, <3>1 DEF Halves
  <2>2. CASE ~begun
    BY <2>2 DEF Halves
  <2> QED BY <2>1, <2>2
<1>4. n > 0 /\ file[n][2] = 1 => e[1] = file[n][1]
  <2>1. n > 0 => file # <<>> /\ Last(file) = file[n]
    BY <1>1 DEF Last
  <2> QED BY <2>1
<1>5. file' = Append(file, e)
  OBVIOUS
<1> HIDE DEF e, begun
<1>6. /\ file' \in Seq(Halves) /\ Len(file') = n + 1 /\ file'[n + 1] = e
      /\ \A i \in 1..n : file'[i] = file[i]
  BY <1>1, <1>3, <1>5
<1>7. Paired(file')
  <2> SUFFICES ASSUME NEW i \in 2..(n + 1), file'[i - 1][2] = 1
               PROVE  file'[i][1] = file'[i - 1][1]
    BY <1>6 DEF Paired
  <2>1. i - 1 \in 1..n /\ file'[i - 1] = file[i - 1]
    <3>1. i - 1 \in 1..n
      BY <1>1
    <3> QED BY <3>1, <1>6
  <2>2. CASE i = n + 1
    <3>1. i - 1 = n /\ n > 0
      BY <1>1, <2>1, <2>2
    <3> QED BY <1>4, <1>6, <2>1, <2>2, <3>1
  <2>3. CASE i # n + 1
    <3>1. i \in 2..n /\ i \in 1..n
      BY <1>1, <2>3
    <3>2. file'[i] = file[i]
      BY <3>1, <1>6
    <3> QED BY <2>1, <3>1, <3>2 DEF Paired
  <2> QED BY <2>2, <2>3
<1>8. \A s \in Seq(Halves) : Begins(s, file) => Begins(s, file')
  BY <1>1, <1>3, <1>5, BeginsAppend
<1> QED BY <1>6, <1>7, <1>8

\* Whatever is written, what a reader relies on stays true.
LEMMA WriteStep ==
  ASSUME IInv, NEW kind \in {"append", "truncate", "overwrite"}, NEW content,
         Written(kind, content), content \in Seq(Halves),
         Paired(file) /\ kind = "append" =>
           /\ Paired(content)
           /\ \A s \in Seq(Halves) : Begins(s, file) => Begins(s, content)
  PROVE  IInv'
<1>1. /\ pc \in {"open", "read", "reinspect"} /\ file' = content /\ mtime' = now
      /\ writes' = IF pc = "open" THEN writes ELSE Append(writes, [kind |-> kind, at |-> now])
      /\ (pc = "open" => kind = "append")
      /\ UNCHANGED <<now, strict, pc, initial, bytes, result>>
  BY DEF Written, IInv, TypeOK, Places
<1>2. TypeOK /\ OpenInv /\ InitialInv /\ GrowthInv /\ ReadInv /\ LookInv /\ ResultInv
  BY DEF IInv
<1>3. CASE pc = "open"
  <2>1. TypeOK'
    BY <1>1, <1>2, <1>3 DEF TypeOK
  <2>2. OpenInv'
    BY <1>1, <1>2, <1>3 DEF OpenInv
  <2>3. InitialInv' /\ GrowthInv' /\ ReadInv' /\ LookInv' /\ ResultInv'
    BY <1>1, <1>2, <1>3 DEF InitialInv, GrowthInv, ReadInv, LookInv, ResultInv, WasRead
  <2> QED BY <2>1, <2>2, <2>3 DEF IInv
<1>4. CASE pc # "open"
  <2>1. /\ writes' # <<>>
        /\ writes' \in Seq([kind : {"append", "truncate", "overwrite"}, at : Nat])
        /\ initial.mtime <= mtime'
        /\ \A i \in 1..Len(writes') : initial.mtime <= writes'[i].at /\ writes'[i].at <= mtime'
        /\ AllAppends' => AllAppends /\ kind = "append"
    BY <1>1, <1>4, WriteTimes
  <2>2. TypeOK'
    BY <1>1, <1>2, <2>1 DEF TypeOK
  <2>3. InitialInv'
    BY <1>1, <1>2, <1>4, <2>1 DEF InitialInv
  <2>4. GrowthInv'
    <3>1. initial.content \in Seq(Halves) /\ bytes \in Seq(Halves)
      BY <1>2, <1>4 DEF TypeOK, InitialInv
    <3> QED BY <1>1, <1>2, <1>4, <2>1, <3>1 DEF GrowthInv
  <2>5. ReadInv' /\ OpenInv'
    BY <1>1, <1>2, <1>4, <2>1 DEF ReadInv, WasRead, OpenInv
  <2>6. LookInv' /\ ResultInv'
    BY <1>1, <1>2, <1>4 DEF LookInv, ResultInv, WasRead
  <2> QED BY <2>2, <2>3, <2>4, <2>5, <2>6 DEF IInv
<1> QED BY <1>3, <1>4

\* Whoever writes the file appends to it, cuts it off or writes over it.
LEMMA WriterStep ==
  ASSUME IInv, \/ Truncate
               \/ \E r \in Records : AppendHalf(r) \/ \E i \in DOMAIN file : Overwrite(i, r)
  PROVE  IInv'
<1>1. TypeOK
  BY DEF IInv
<1>2. CASE Truncate
  <2>1. <<>> \in Seq(Halves)
    OBVIOUS
  <2> QED BY <1>2, <2>1, WriteStep DEF Truncate
<1>3. ASSUME NEW r \in Records, AppendHalf(r)
      PROVE  IInv'
  <2> DEFINE begun == file # <<>> /\ Last(file)[2] = 1
             content == Append(file, IF begun THEN <<Last(file)[1], 2>> ELSE <<r, 1>>)
  <2>1. Written("append", content)
    BY <1>3 DEF AppendHalf
  <2>2. content \in Seq(Halves)
    <3>1. file \in Seq(Halves) /\ Len(file) \in Nat
      BY <1>1 DEF TypeOK
    <3>2. CASE begun
      <4>1. Last(file) \in Halves
        <5>1. Len(file) \in 1..Len(file)
          BY <3>1, <3>2
        <5> QED BY <3>1, <5>1, ElementOfSeq DEF Last
      <4>2. <<Last(file)[1], 2>> \in Halves
        BY <4>1 DEF Halves
      <4> QED BY <3>1, <3>2, <4>2
    <3>3. CASE ~begun
      <4>1. <<r, 1>> \in Halves
        BY DEF Halves
      <4> QED BY <3>1, <3>3, <4>1
    <3> QED BY <3>2, <3>3
  <2>3. file' = content
    BY <2>1 DEF Written
  <2>4. Paired(file) => /\ Paired(content)
                       /\ \A s \in Seq(Halves) : Begins(s, file) => Begins(s, content)
    BY <1>1, <2>3, AppendPairs
  <2> HIDE DEF content
  <2> QED BY <2>1, <2>2, <2>4, WriteStep
<1>4. ASSUME NEW r \in Records, NEW i \in DOMAIN file, Overwrite(i, r)
      PROVE  IInv'
  <2> DEFINE content == [file EXCEPT ![i][1] = r]
  <2>1. Written("overwrite", content)
    BY <1>4 DEF Overwrite
  <2>2. content \in Seq(Halves)
    <3>1. file \in Seq(Halves) /\ DOMAIN file = 1..Len(file)
      BY <1>1 DEF TypeOK
    <3>2. file[i] \in Halves
      BY <3>1, ElementOfSeq
    <3>3. [file[i] EXCEPT ![1] = r] \in Halves
      BY <3>2 DEF Halves
    <3>4. content = [file EXCEPT ![i] = [file[i] EXCEPT ![1] = r]]
      OBVIOUS
    <3> QED BY <3>1, <3>3, <3>4, ExceptSeq
  <2> HIDE DEF content
  <2> QED BY <2>1, <2>2, WriteStep
<1> QED BY <1>2, <1>3, <1>4

\* The clock moves on.
LEMMA TickStep ==
  ASSUME IInv, Tick \/ UNCHANGED vars
  PROVE  IInv'
<1>1. /\ now' \in {now, now + 1}
      /\ UNCHANGED <<file, mtime, strict, pc, initial, bytes, result, writes>>
  BY DEF Tick, vars
<1>2. TypeOK'
  BY <1>1 DEF IInv, TypeOK
<1> QED BY <1>1, <1>2 DEF IInv, OpenInv, InitialInv, GrowthInv, ReadInv, LookInv, ResultInv,
                          WasRead, AllAppends, SameBytes

\* Every step keeps the invariant.
LEMMA NextInv ==
  ASSUME InputAssumption, IInv, [Next]_vars
  PROVE  IInv'
<1>1. ASSUME NEW n \in 1..(MaxLength + 1), ReadSome(n)
      PROVE  IInv'
  <2>1. n \in Nat \ {0}
    BY DEF InputAssumption
  <2> QED BY <1>1, <2>1, ReadStep
<1> QED BY <1>1, OpenStep, ReadEndsStep, ReinspectStep, DecodeStep, WriterStep, TickStep
        DEF Next, Done

\* The invariant holds throughout.
THEOREM InputInvariant ==
  ASSUME InputAssumption
  PROVE  Spec => []IInv
<1>1. Init => IInv
  BY InitInv
<1>2. IInv /\ [Next]_vars => IInv'
  BY NextInv
<1> QED BY <1>1, <1>2, PTL DEF Spec

-----------------------------------------------------------------------------
(* What a comparison is about.                                             *)

\* The record that was loaded was written, and the strict reader's file was
\* there at once.
LEMMA LoadedFacts ==
  ASSUME InputAssumption, IInv
  PROVE  LoadedWasWritten
<1> SUFFICES ASSUME result \notin {None, Refused}
             PROVE  /\ (\A i \in DOMAIN writes : writes[i].kind = "append") =>
                         /\ result[1] = result[2]
                         /\ IsPrefix(initial.content, bytes) /\ IsPrefix(bytes, file)
                    /\ strict => \/ bytes = initial.content
                                 \/ \A i \in DOMAIN writes : writes[i].at = initial.mtime
  BY DEF LoadedWasWritten
<1>1. pc = "done" /\ result = Decode(bytes) /\ WasRead /\ TypeOK
  BY DEF IInv, ResultInv, WasRead
<1>2. DOMAIN writes = 1..Len(writes)
  BY <1>1 DEF TypeOK
<1>3. ASSUME AllAppends
      PROVE  /\ result[1] = result[2]
             /\ IsPrefix(initial.content, bytes) /\ IsPrefix(bytes, file)
  <2>1. Paired(file) /\ Begins(initial.content, file) /\ Begins(bytes, file)
    BY <1>1, <1>3 DEF IInv, GrowthInv
  <2>2. /\ bytes \in Seq(Halves) /\ file \in Seq(Halves) /\ initial.content \in Seq(Halves)
        /\ Len(initial.content) <= Len(bytes)
    BY <1>1, <1>3 DEF IInv, TypeOK, InitialInv, ReadInv
  <2>3. Begins(initial.content, bytes)
    BY <2>1, <2>2, BeginningsCompare
  <2> DEFINE n == Len(bytes)
  <2>4. n >= 2 /\ bytes[n - 1][2] = 1 /\ result = <<bytes[n - 1][1], bytes[n][1]>>
    BY <1>1 DEF Decode
  <2>5. n \in 2..Len(file) /\ n \in 1..n /\ n - 1 \in 1..n
    <3>1. n \in Nat /\ Len(file) \in Nat /\ n <= Len(file)
      BY <2>1, <2>2 DEF Begins
    <3> HIDE DEF n
    <3> QED BY <2>4, <3>1
  <2>6. bytes[n] = file[n] /\ bytes[n - 1] = file[n - 1]
    BY <2>1, <2>5 DEF Begins
  <2>7. result[1] = result[2]
    <3>1. file[n][1] = file[n - 1][1]
      BY <2>1, <2>4, <2>5, <2>6 DEF Paired
    <3> QED BY <2>4, <2>6, <3>1
  <2> QED BY <2>1, <2>2, <2>3, <2>7, BeginsIsPrefix
<1>4. ASSUME strict
      PROVE  SameBytes
  BY <1>1, <1>4 DEF IInv, LookInv
<1> QED BY <1>2, <1>3, <1>4 DEF AllAppends, SameBytes

\* What a comparison is about was in the file.
THEOREM LoadedAlwaysWasWritten ==
  ASSUME InputAssumption
  PROVE  Spec => []LoadedWasWritten
<1>1. IInv => LoadedWasWritten
  BY LoadedFacts
<1> QED BY <1>1, InputInvariant, PTL
-----------------------------------------------------------------------------
(* A history that is analyzed while monitors append to it.                 *)

CONSTANTS Monitors, Collected, Foreign, Schema, MaxTokens
VARIABLES files, path, writer, reader, present

Analysis == INSTANCE History

\* A set that has 0, and with each number its successor, has every natural
\* number: else the map to the successor would put n numbers into n - 1 places.
LEMMA SetInduction ==
  ASSUME NEW S, 0 \in S, \A n \in Nat : n \in S => n + 1 \in S
  PROVE  Nat \subseteq S
<1> SUFFICES ASSUME NEW m \in Nat, m \notin S
             PROVE  FALSE
  OBVIOUS
<1> DEFINE T == {x \in 0..m : x \in S}
           f == [x \in T |-> x + 1]
<1>1. IsFiniteSet(T)
  BY FS_Interval, FS_Subset, 0 \in Int, m \in Int
<1>2. 0 \in T
  OBVIOUS
<1>3. IsFiniteSet(T \ {0}) /\ Cardinality(T \ {0}) = Cardinality(T) - 1
  BY <1>1, <1>2, FS_RemoveElement
<1>4. Cardinality(T) \in Nat
  BY <1>1, FS_CardinalityType
<1>5. f \in [T -> T \ {0}]
  <2> SUFFICES ASSUME NEW x \in T
               PROVE  x + 1 \in T \ {0}
    OBVIOUS
  <2> QED BY x # m
<1>6. \E x, y \in T : x # y /\ f[x] = f[y]
  <2> HIDE DEF T, f
  <2> QED BY <1>1, <1>3, <1>4, <1>5, FS_PigeonHole
<1> QED BY <1>6

\* A non-empty bounded set of numbers has a largest one.
LEMMA LargestExists ==
  ASSUME NEW n \in Nat, NEW T \in SUBSET (0..n), T # {}
  PROVE  \E x \in T : \A y \in T : y <= x
<1> DEFINE S == {k \in Nat : k <= n /\ (\E x \in T : x >= n - k)
                               => \E x \in T : \A y \in T : y <= x}
<1>1. 0 \in S
  OBVIOUS
<1>2. ASSUME NEW k \in Nat, k \in S
      PROVE  k + 1 \in S
  <2>0. k <= n /\ (\E x \in T : x >= n - k) => \E x \in T : \A y \in T : y <= x
    BY <1>2
  <2>1. ASSUME k + 1 <= n, NEW z \in T, z >= n - (k + 1)
        PROVE  \E x \in T : \A y \in T : y <= x
    <3>1. CASE \E x \in T : x >= n - k
      BY <3>1, <2>0, <2>1
    <3>2. CASE ~ \E x \in T : x >= n - k
      <4>1. \A y \in T : y <= z
        BY <3>2, <2>1
      <4> QED BY <4>1
    <3> QED BY <3>1, <3>2
  <2> QED BY <2>0, <2>1
<1>3. n \in S
  <2> HIDE DEF S
  <2> QED BY <1>1, <1>2, SetInduction
<1>4. \E x \in T : \A y \in T : y <= x
  <2>1. PICK x \in T : x \in 0..n
    OBVIOUS
  <2>2. n - n = 0 /\ n <= n
    OBVIOUS
  <2> QED BY <1>3, <2>1, <2>2
<1> QED BY <1>4

\* Max is the largest one.
LEMMA LargestOf ==
  ASSUME NEW n \in Nat, NEW T \in SUBSET (0..n), T # {}
  PROVE  Analysis!Max(T) \in T /\ \A x \in T : x <= Analysis!Max(T)
BY LargestExists DEF Analysis!Max

PeakStep(values, a, i) == Analysis!Updated(a, values[i])
PeakFold(peak, values, n, f) == [T \in SUBSET (1..n) |->
                              IF T = {} THEN peak
                              ELSE PeakStep(values, f[T \ {Analysis!Max(T)}], Analysis!Max(T))]

\* The function that FoldLeft chooses by its recursive equation exists.
LEMMA PeakFoldExists ==
  ASSUME NEW n \in Nat, NEW peak, NEW values
  PROVE  \E f : f = PeakFold(peak, values, n, f)
<1> DEFINE D == SUBSET (1..n)
           Size(T) == Cardinality(T)
           Value(f, T) == IF T = {} THEN peak
                          ELSE PeakStep(values, f[T \ {Analysis!Max(T)}], Analysis!Max(T))
           Upto(k) == \E f : \A T \in D : Size(T) <= k => f[T] = Value(f, T)
           N == {k \in Nat : Upto(k)}
<1>1. \A T \in D : IsFiniteSet(T) /\ Size(T) \in Nat /\ Size(T) <= Size(1..n)
  <2>1. IsFiniteSet(1..n)
    BY FS_Interval
  <2> QED BY <2>1, FS_Subset, FS_CardinalityType
<1>2. \A T \in D : T # {} => /\ T \ {Analysis!Max(T)} \in D
                             /\ Size(T \ {Analysis!Max(T)}) = Size(T) - 1
  <2> SUFFICES ASSUME NEW T \in D, T # {}
               PROVE  /\ T \ {Analysis!Max(T)} \in D
                      /\ Size(T \ {Analysis!Max(T)}) = Size(T) - 1
    OBVIOUS
  <2>1. T \in SUBSET (0..n)
    OBVIOUS
  <2>2. Analysis!Max(T) \in T
    BY <2>1, LargestOf
  <2> QED BY <1>1, <2>2, FS_RemoveElement
<1>3. {} \in D /\ Size({}) = 0 /\ 1..n \in D /\ \A T \in D : Size(T) = 0 => T = {}
  BY <1>1, FS_EmptySet
<1> HIDE DEF D, Size
<1>4. 0 \in N
  <2> DEFINE f == [T \in D |-> peak]
  <2>1. \A T \in D : Size(T) <= 0 => f[T] = Value(f, T)
    BY <1>1, <1>3
  <2> QED BY <2>1
<1>5. ASSUME NEW k \in Nat, k \in N
      PROVE  k + 1 \in N
  <2>1. PICK f : \A T \in D : Size(T) <= k => f[T] = Value(f, T)
    BY <1>5
  <2> DEFINE g == [T \in D |-> IF Size(T) = k + 1 THEN Value(f, T) ELSE f[T]]
  <2>2. ASSUME NEW T \in D, Size(T) <= k + 1
        PROVE  g[T] = Value(g, T)
    <3>1. CASE T = {}
      <4>1. Size(T) = 0 /\ Size(T) <= k /\ Size(T) # k + 1
        BY <1>3, <3>1
      <4>2. g[T] = f[T] /\ f[T] = Value(f, T)
        <5> HIDE DEF Value
        <5> QED BY <2>1, <4>1
      <4> HIDE DEF g
      <4> QED BY <3>1, <4>2
    <3>2. CASE T # {}
      <4> DEFINE U == T \ {Analysis!Max(T)}
      <4>1. U \in D /\ Size(U) = Size(T) - 1 /\ Size(T) \in Nat /\ Size(U) \in Nat
        BY <1>1, <1>2, <3>2
      <4>2. g[U] = f[U]
        <5> HIDE DEF U, Value
        <5> QED BY <4>1, <2>2
      <4>3. g[T] = Value(f, T)
        <5> HIDE DEF Value, U
        <5>1. CASE Size(T) = k + 1
          BY <5>1
        <5>2. CASE Size(T) # k + 1
          BY <5>2, <2>1, <2>2, <4>1
        <5> QED BY <5>1, <5>2
      <4> HIDE DEF g
      <4> QED BY <3>2, <4>2, <4>3
    <3> QED BY <3>1, <3>2
  <2>3. Upto(k + 1)
    <3> HIDE DEF Value, g
    <3> QED BY <2>2
  <2> HIDE DEF Upto
  <2> QED BY <2>3
<1>6. Size(1..n) \in N
  <2> HIDE DEF N
  <2> QED BY <1>1, <1>3, <1>4, <1>5, SetInduction
<1>7. PICK f : \A T \in D : f[T] = Value(f, T)
  <2> HIDE DEF Value
  <2> QED BY <1>1, <1>6
<1> DEFINE g == [T \in D |-> f[T]]
<1>8. \A T \in D : g[T] = Value(g, T)
  <2> SUFFICES ASSUME NEW T \in D
               PROVE  g[T] = Value(g, T)
    OBVIOUS
  <2>1. T # {} => g[T \ {Analysis!Max(T)}] = f[T \ {Analysis!Max(T)}]
    BY <1>2
  <2>2. g[T] = f[T] /\ f[T] = Value(f, T)
    <3> HIDE DEF Value
    <3> QED BY <1>7
  <2> HIDE DEF g
  <2> QED BY <2>1, <2>2
<1>9. g = [T \in D |-> Value(g, T)]
  <2> DEFINE h == [T \in D |-> Value(g, T)]
  <2>1. \A T \in D : g[T] = h[T]
    <3> HIDE DEF Value, g
    <3> QED BY <1>8
  <2> HIDE DEF Value
  <2> QED BY <2>1
<1>10. g = PeakFold(peak, values, n, g)
  BY <1>9 DEF D, PeakFold
<1> HIDE DEF g
<1> QED BY <1>10

\* A peak is what one gets value by value.
LEMMA PeakSteps ==
  ASSUME NEW n \in Nat, NEW peak, NEW values, DOMAIN values = 1..n
  PROVE  \E a : /\ a[0] = peak
                /\ \A k \in 1..n : a[k] = PeakStep(values, a[k - 1], k)
                /\ Analysis!Peak(peak, values) = a[n]
<1> DEFINE f == CHOOSE g : g = PeakFold(peak, values, n, g)
           a == [k \in 0..n |-> f[1..k]]
<1>1. f = PeakFold(peak, values, n, f)
  BY PeakFoldExists
<1>2. Analysis!Peak(peak, values) = f[1..n]
  BY DEF Analysis!Peak, Analysis!FoldLeft, Analysis!MapThenFoldSet, PeakStep, PeakFold
<1>3. f[{}] = peak
  <2> HIDE DEF f
  <2> QED BY <1>1 DEF PeakFold
<1>4. ASSUME NEW k \in 1..n
      PROVE  f[1..k] = PeakStep(values, f[1..(k - 1)], k)
  <2>1. 1..k \in SUBSET (1..n) /\ 1..k # {}
    <3>1. k \in Nat /\ 1 <= k /\ k <= n
      OBVIOUS
    <3>2. \A i \in 1..k : i \in 1..n
      BY <3>1
    <3>3. k \in 1..k
      BY <3>1
    <3> QED BY <3>2, <3>3
  <2>2. Analysis!Max(1..k) = k
    BY DEF Analysis!Max
  <2>3. (1..k) \ {k} = 1..(k - 1)
    OBVIOUS
  <2> HIDE DEF f
  <2> QED BY <1>1, <2>1, <2>2, <2>3 DEF PeakFold
<1> HIDE DEF f
<1>5. a[0] = peak
  BY <1>3, 1..0 = {}
<1>6. \A k \in 1..n : a[k] = PeakStep(values, a[k - 1], k)
  BY <1>4
<1>7. Analysis!Peak(peak, values) = a[n]
  BY <1>2
<1> HIDE DEF a
<1> QED BY <1>5, <1>6, <1>7

-----------------------------------------------------------------------------
(* What peaks are.                                                         *)

Values == Int \cup {None}

\* A peak is that of a set of measured values, each with its place.
IsPeak(peak, M) ==
  /\ IsFiniteSet(M) /\ \A v \in M : v[2] \in Int
  /\ peak = [max |-> peak.max, samples |-> Cardinality(M)]
  /\ IF M = {} THEN peak.max = None
     ELSE (\E v \in M : peak.max = v[2]) /\ \A v \in M : v[2] <= peak.max

\* The module that is instantiated counts the same.
LEMMA SameCount ==
  ASSUME NEW S
  PROVE  Analysis!Cardinality(S) = Cardinality(S)
BY DEF Analysis!Cardinality, Analysis!IsFiniteSet, Cardinality, IsFiniteSet

\* One more value.
LEMMA PeakGrows ==
  ASSUME Analysis!HistoryAssumption, NEW peak, NEW M, IsPeak(peak, M),
         NEW v, v \notin M, v[2] \in Int
  PROVE  IsPeak(Analysis!Updated(peak, v[2]), M \cup {v})
<1> DEFINE N == M \cup {v}
           new == Analysis!Updated(peak, v[2])
<1>1. None \notin Int
  BY DEF Analysis!HistoryAssumption
<1>2. IsFiniteSet(N) /\ Cardinality(N) = Cardinality(M) + 1 /\ Cardinality(M) \in Nat
  BY FS_AddElement, FS_CardinalityType DEF IsPeak
<1>3. peak.samples = Cardinality(M) /\ \A w \in M : w[2] \in Int
  BY DEF IsPeak
<1>4. new = [max |-> IF peak.max = None \/ v[2] > peak.max THEN v[2] ELSE peak.max,
             samples |-> Cardinality(N)]
  BY <1>1, <1>2, <1>3 DEF Analysis!Updated
<1>5. (\E w \in N : new.max = w[2]) /\ \A w \in N : w[2] <= new.max
  <2>1. CASE M = {}
    <3>1. new.max = v[2] /\ N = {v}
      BY <1>4, <2>1 DEF IsPeak
    <3> QED BY <3>1
  <2>2. CASE M # {}
    <3>1. PICK m \in M : peak.max = m[2]
      BY <2>2 DEF IsPeak
    <3>2. \A w \in M : w[2] <= peak.max
      BY <2>2 DEF IsPeak
    <3>3. peak.max \in Int /\ peak.max # None
      BY <1>1, <1>3, <3>1
    <3>4. CASE v[2] > peak.max
      <4>1. new.max = v[2]
        BY <1>4, <3>4
      <4> HIDE DEF new
      <4> QED BY <1>3, <3>2, <3>3, <3>4, <4>1
    <3>5. CASE ~(v[2] > peak.max)
      <4>1. new.max = peak.max
        BY <1>4, <3>3, <3>5
      <4> HIDE DEF new
      <4> QED BY <1>3, <3>1, <3>2, <3>3, <3>5, <4>1
    <3> QED BY <3>4, <3>5
  <2> QED BY <2>1, <2>2
<1>6. N # {} /\ \A w \in N : w[2] \in Int
  BY <1>3
<1>7. new = [max |-> new.max, samples |-> Cardinality(N)]
  BY <1>4
<1> HIDE DEF N, new
<1> QED BY <1>2, <1>5, <1>6, <1>7 DEF IsPeak, N, new

\* The values of one record.
Placed(e, values, k) == {<< <<e, i>>, values[i]>> : i \in {j \in 1..k : values[j] # None}}

\* One more record.
LEMMA PeakAdds ==
  ASSUME Analysis!HistoryAssumption, NEW peak, NEW M, IsPeak(peak, M),
         NEW n \in Nat, NEW values \in [1..n -> Values],
         NEW e, \A v \in M : v[1][1] # e
  PROVE  IsPeak(Analysis!Peak(peak, values), M \cup Placed(e, values, n))
<1>1. PICK a : /\ a[0] = peak
               /\ \A k \in 1..n : a[k] = PeakStep(values, a[k - 1], k)
               /\ Analysis!Peak(peak, values) = a[n]
  BY PeakSteps
<1> DEFINE S == {k \in Nat : k <= n => IsPeak(a[k], M \cup Placed(e, values, k))}
<1>2. 0 \in S
  <2>1. M \cup Placed(e, values, 0) = M
    BY DEF Placed
  <2> QED BY <1>1, <2>1
<1>3. ASSUME NEW k \in Nat, k \in S
      PROVE  k + 1 \in S
  <2> SUFFICES ASSUME k + 1 <= n
               PROVE  IsPeak(a[k + 1], M \cup Placed(e, values, k + 1))
    OBVIOUS
  <2>1. k + 1 \in 1..n /\ (k + 1) - 1 = k /\ IsPeak(a[k], M \cup Placed(e, values, k))
    BY <1>3
  <2>2. a[k + 1] = Analysis!Updated(a[k], values[k + 1])
    BY <1>1, <2>1 DEF PeakStep
  <2>3. CASE values[k + 1] = None
    <3>1. {j \in 1..(k + 1) : values[j] # None} = {j \in 1..k : values[j] # None}
      BY <2>3
    <3>2. Placed(e, values, k + 1) = Placed(e, values, k)
      BY <3>1 DEF Placed
    <3> QED BY <2>1, <2>2, <2>3, <3>2 DEF Analysis!Updated
  <2>4. CASE values[k + 1] # None
    <3> DEFINE v == << <<e, k + 1>>, values[k + 1]>>
    <3>1. v[2] \in Int /\ v[2] = values[k + 1]
      BY <2>1, <2>4 DEF Values
    <3>2. v \notin M \cup Placed(e, values, k)
      <4>1. v[1][1] = e /\ v[1][2] = k + 1
        OBVIOUS
      <4>2. \A w \in Placed(e, values, k) : w[1][2] \in 1..k
        BY DEF Placed
      <4> HIDE DEF v
      <4> QED BY <4>1, <4>2
    <3>3. {j \in 1..(k + 1) : values[j] # None} = {j \in 1..k : values[j] # None} \cup {k + 1}
      BY <2>4
    <3>4. Placed(e, values, k + 1) = Placed(e, values, k) \cup {v}
      BY <3>3 DEF Placed
    <3>5. M \cup Placed(e, values, k + 1) = (M \cup Placed(e, values, k)) \cup {v}
      BY <3>4
    <3> DEFINE P == M \cup Placed(e, values, k)
    <3> HIDE DEF v, P
    <3>6. IsPeak(Analysis!Updated(a[k], v[2]), P \cup {v})
      BY <2>1, <3>1, <3>2, PeakGrows DEF P
    <3> QED BY <2>2, <3>1, <3>5, <3>6 DEF P
  <2> QED BY <2>3, <2>4
<1>4. n \in S
  <2> HIDE DEF S
  <2> QED BY <1>2, <1>3, SetInduction
<1> QED BY <1>1, <1>4

\* A peak is what its values say.
LEMMA PeakIs ==
  ASSUME NEW peak, NEW M, IsPeak(peak, M)
  PROVE  peak = Analysis!PeakOf(M)
<1>1. peak = [max |-> peak.max, samples |-> Cardinality(M)]
  BY DEF IsPeak
<1>2. CASE M = {}
  <2>1. Cardinality(M) = 0 /\ peak.max = None
    BY <1>2, FS_EmptySet DEF IsPeak
  <2>2. Analysis!PeakOf(M) = Analysis!NoMax
    BY <1>2 DEF Analysis!PeakOf
  <2> QED BY <1>1, <2>1, <2>2 DEF Analysis!NoMax
<1>3. CASE M # {}
  <2> DEFINE S == {v[2] : v \in M}
  <2>1. peak.max \in S /\ \A y \in S : y <= peak.max /\ y \in Int
    BY <1>3 DEF IsPeak
  <2>2. Analysis!Top(S) = peak.max
    <3> HIDE DEF S
    <3>1. \A x \in S : (\A y \in S : y <= x) => x = peak.max
      BY <2>1
    <3> QED BY <2>1, <3>1 DEF Analysis!Top
  <2> QED BY <1>1, <1>3, <2>2, SameCount DEF Analysis!PeakOf
<1> QED BY <1>2, <1>3

-----------------------------------------------------------------------------
(* Lines and their records.                                                *)

Recs == {Analysis!Finalized(c) : c \in Collected}
          \cup {line.head : line \in Foreign \ {Analysis!Newline}}
Tokens == {Analysis!Newline} \cup {Analysis!Token("line", r, r) : r \in Recs}
            \cup {Analysis!Token("head", r, None) : r \in Recs}
            \cup {Analysis!Token("whole", r, None) : r \in Recs}
            \cup {Analysis!Token("tail", None, r) : r \in Recs}

\* What a reader has read lies behind line, and the last end is there.
Ended(ends, n) == ends \subseteq 0..n /\ 0 \in ends /\ n \in ends

\* A token that begins a record has it.
LEMMA TokenForms ==
  ASSUME NEW t \in Tokens, t.text \in {"line", "head", "whole"}
  PROVE  t.head \in Recs
BY DEF Tokens, Analysis!Newline, Analysis!Token

\* A non-empty set of numbers has a smallest one.
LEMMA SmallestOf ==
  ASSUME NEW T \in SUBSET Nat, T # {}
  PROVE  \E x \in T : \A y \in T : x <= y
<1> DEFINE S == {k \in Nat : (\E x \in T : x <= k) => \E x \in T : \A y \in T : x <= y}
<1>1. 0 \in S
  OBVIOUS
<1>2. ASSUME NEW k \in Nat, k \in S
      PROVE  k + 1 \in S
  <2>0. (\E x \in T : x <= k) => \E x \in T : \A y \in T : x <= y
    BY <1>2
  <2>1. ASSUME NEW z \in T, z <= k + 1
        PROVE  \E x \in T : \A y \in T : x <= y
    <3>1. CASE \E x \in T : x <= k
      BY <3>1, <2>0
    <3>2. CASE ~ \E x \in T : x <= k
      <4>1. \A y \in T : z <= y
        BY <3>2, <2>1
      <4> QED BY <4>1
    <3> QED BY <3>1, <3>2
  <2> QED BY <2>1
<1>3. \A k \in Nat : k \in S
  <2> HIDE DEF S
  <2> QED BY <1>1, <1>2, SetInduction
<1>4. PICK x \in T : x \in Nat
  OBVIOUS
<1>5. x <= x
  BY <1>4
<1> QED BY <1>3, <1>4, <1>5

\* The next line ends with its newline or with the file, and none ends in
\* between; what it parses to is a record.
LEMMA LineFacts ==
  ASSUME NEW tokens \in Seq(Tokens), NEW n \in Nat, n < Len(tokens)
  PROVE  LET e == Analysis!EndsAt(tokens, n + 1)
             line == SubSeq(tokens, n + 1, e)
         IN  /\ e \in (n + 1)..Len(tokens)
             /\ \A j \in (n + 1)..(e - 1) : ~Analysis!EndsLine(tokens[j])
             /\ Analysis!EndsLine(tokens[e]) \/ e = Len(tokens)
             /\ Analysis!Parse(line) # None => Analysis!Parse(line) \in Recs
<1> SUFFICES ASSUME NEW e, e = Analysis!EndsAt(tokens, n + 1),
                    NEW line, line = SubSeq(tokens, n + 1, e)
             PROVE  /\ e \in (n + 1)..Len(tokens)
                    /\ \A j \in (n + 1)..(e - 1) : ~Analysis!EndsLine(tokens[j])
                    /\ Analysis!EndsLine(tokens[e]) \/ e = Len(tokens)
                    /\ Analysis!Parse(line) # None => Analysis!Parse(line) \in Recs
  OBVIOUS
<1> DEFINE L == Len(tokens)
           ends == {i \in (n + 1)..L : Analysis!EndsLine(tokens[i])}
<1>1. L \in Nat /\ DOMAIN tokens = 1..L /\ \A i \in 1..L : tokens[i] \in Tokens
  OBVIOUS
<1>2. /\ e \in (n + 1)..L /\ \A j \in (n + 1)..(e - 1) : ~Analysis!EndsLine(tokens[j])
      /\ e \in ends \/ e = L
  <2>1. e = IF ends = {} THEN L ELSE CHOOSE i \in ends : \A j \in ends : i <= j
    BY DEF Analysis!EndsAt
  <2>2. CASE ends = {}
    <3>1. e = L
      BY <2>1, <2>2
    <3> QED BY <1>1, <2>2, <3>1
  <2>3. CASE ends # {}
    <3>1. ends \subseteq Nat
      BY <1>1
    <3>2. \E i \in ends : \A j \in ends : i <= j
      <4> HIDE DEF ends
      <4> QED BY <2>3, <3>1, SmallestOf
    <3>3. e \in ends /\ \A j \in ends : e <= j
      <4> HIDE DEF ends
      <4> QED BY <2>1, <2>3, <3>2
    <3>4. \A j \in (n + 1)..(e - 1) : j \notin ends /\ j \in (n + 1)..L
      BY <1>1, <3>3
    <3> QED BY <3>3, <3>4
  <2> QED BY <2>2, <2>3
<1>3. /\ Len(line) = e - n
      /\ \A i \in 1..(e - n) : line[i] = tokens[n + i] /\ n + i \in 1..L
  <2>1. n + 1 \in 1..(L + 1) /\ e \in n..L
    BY <1>1, <1>2
  <2> QED BY <1>1, <1>2, <2>1, SubSeqProperties
<1> HIDE DEF L
<1>4. line[1] = tokens[n + 1] /\ tokens[n + 1] \in Tokens
  BY <1>1, <1>2, <1>3
<1>5. ASSUME Analysis!Parse(line) # None
      PROVE  Analysis!Parse(line) \in Recs
  <2>1. Analysis!IsRecord(line) /\ Analysis!Parse(line) = line[1].head
    BY <1>5 DEF Analysis!Parse
  <2>2. line[1].text \in {"line", "head", "whole"}
    BY <2>1 DEF Analysis!IsRecord
  <2> QED BY <1>4, <2>1, <2>2, TokenForms
<1> QED BY <1>2, <1>5 DEF L

\* The largest member of a set is what Top chooses.
LEMMA TopIs ==
  ASSUME NEW S \in SUBSET Int, NEW m \in S, \A x \in S : x <= m
  PROVE  Analysis!Top(S) = m
<1>1. \A x \in S : (\A y \in S : y <= x) => x = m
  OBVIOUS
<1> QED BY <1>1 DEF Analysis!Top

\* The next line adds its record, and leaves the others.
LEMMA NextRecords ==
  ASSUME NEW tokens, NEW n \in Nat, NEW E, Ended(E, n), NEW e \in Nat, n < e
  PROVE  Analysis!RecordsOf(tokens, E \cup {e}) =
           Analysis!RecordsOf(tokens, E) \cup
             (IF Analysis!IsBlank(SubSeq(tokens, n + 1, e)) THEN {}
              ELSE {<<e, Analysis!Parse(SubSeq(tokens, n + 1, e))>>})
<1> DEFINE F == E \cup {e}
           Line(X, i) == Analysis!LineTo(tokens, X, i)
           Said(X) == {j \in X \ {0} : ~Analysis!IsBlank(Line(X, j))}
           line == SubSeq(tokens, n + 1, e)
<1>1. E \subseteq 0..n /\ n \in E /\ e \notin E /\ 0 \in E /\ e # 0
  BY DEF Ended
<1>2. ASSUME NEW i \in E
      PROVE  Line(F, i) = Line(E, i)
  <2>1. ~(e < i)
    BY <1>1
  <2>2. {j \in F : j < i} = {j \in E : j < i}
    BY <2>1
  <2> QED BY <2>2 DEF Analysis!LineTo
<1>3. Line(F, e) = line
  <2>1. {j \in F : j < e} = E
    <3>1. \A j \in E : j < e
      BY <1>1
    <3> QED BY <3>1
  <2>2. Analysis!Top(E) = n
    <3>1. E \in SUBSET Int /\ n \in E /\ \A x \in E : x <= n
      BY <1>1
    <3> QED BY <3>1, TopIs
  <2>3. Line(F, e) = SubSeq(tokens, 1 + Analysis!Top({j \in F : j < e}), e)
    BY DEF Analysis!LineTo
  <2>4. 1 + n = n + 1
    OBVIOUS
  <2> HIDE DEF F, Line
  <2> QED BY <2>1, <2>2, <2>3, <2>4
<1>4. /\ Analysis!RecordsOf(tokens, F) = {<<i, Analysis!Parse(Line(F, i))>> : i \in Said(F)}
      /\ Analysis!RecordsOf(tokens, E) = {<<i, Analysis!Parse(Line(E, i))>> : i \in Said(E)}
  BY DEF Analysis!RecordsOf
<1>5. /\ \A j : j \in F <=> j \in E \/ j = e
      /\ \A X, j : j \in Said(X) <=> j \in X /\ j # 0 /\ ~Analysis!IsBlank(Line(X, j))
  OBVIOUS
<1> HIDE DEF F, Line, Said, line
<1>6. Said(F) = Said(E) \cup (IF Analysis!IsBlank(line) THEN {} ELSE {e})
  <2>1. ASSUME NEW j
        PROVE  j \in Said(F) <=> j \in Said(E) \/ (j = e /\ ~Analysis!IsBlank(line))
    BY <1>1, <1>2, <1>3, <1>5
  <2> QED BY <2>1
<1>7. {<<i, Analysis!Parse(Line(F, i))>> : i \in Said(E)} =
        {<<i, Analysis!Parse(Line(E, i))>> : i \in Said(E)}
  BY <1>2, <1>5
<1> QED BY <1>3, <1>4, <1>6, <1>7 DEF F, line

\* What is appended behind a line changes no record before it.
LEMMA SameRecords ==
  ASSUME NEW tokens \in Seq(Tokens), NEW t \in Tokens, NEW n \in 0..Len(tokens),
         NEW E, Ended(E, n)
  PROVE  Analysis!RecordsOf(Append(tokens, t), E) = Analysis!RecordsOf(tokens, E)
<1> DEFINE new == Append(tokens, t)
           Line(s, i) == Analysis!LineTo(s, E, i)
           Said(s) == {j \in E \ {0} : ~Analysis!IsBlank(Line(s, j))}
<1>1. /\ new \in Seq(Tokens) /\ Len(new) = Len(tokens) + 1 /\ Len(tokens) \in Nat
      /\ \A i \in 1..Len(tokens) : new[i] = tokens[i]
      /\ n \in 0..Len(tokens)
  BY AppendProperties
<1>2. \A i \in 1..n : new[i] = tokens[i]
  BY <1>1
<1>3. E \subseteq 0..n /\ 0 \in E
  BY DEF Ended
<1>4. ASSUME NEW i \in E \ {0}
      PROVE  Line(new, i) = Line(tokens, i)
  <2> DEFINE m == Analysis!Top({j \in E : j < i})
  <2>1. i \in 1..n /\ 0 < i
    BY <1>3
  <2>2. m \in 0..n /\ m < i
    <3> DEFINE S == {j \in E : j < i}
    <3>1. S \in SUBSET (0..n) /\ S # {}
      BY <1>3, <2>1
    <3>2. \E x \in S : \A y \in S : y <= x
      <4>1. n \in Nat
        BY <1>1
      <4> HIDE DEF S
      <4> QED BY <3>1, <4>1, LargestExists
    <3>3. m \in S
      <4> HIDE DEF S
      <4> QED BY <3>2 DEF Analysis!Top, S
    <3> QED BY <3>1, <3>3
  <2> HIDE DEF m
  <2>3. SubSeq(new, 1 + m, i) = SubSeq(tokens, 1 + m, i)
    <3>1. 1 + m \in 1..(Len(tokens) + 1) /\ i \in m..Len(tokens) /\ i \in m..Len(new)
          /\ 1 + m \in 1..(Len(new) + 1) /\ (1 + m) - 1 = m
      BY <1>1, <2>1, <2>2
    <3> DEFINE a == SubSeq(new, 1 + m, i)
               b == SubSeq(tokens, 1 + m, i)
    <3>2. /\ a \in Seq(Tokens) /\ Len(a) = i - m
          /\ \A k \in 1..(i - m) : a[k] = new[m + k]
      <4> HIDE DEF new
      <4> QED BY <1>1, <2>1, <2>2, <3>1, SubSeqProperties
    <3>3. /\ b \in Seq(Tokens) /\ Len(b) = i - m
          /\ \A k \in 1..(i - m) : b[k] = tokens[m + k]
      BY <1>1, <2>1, <2>2, <3>1, SubSeqProperties
    <3>4. \A k \in 1..(i - m) : m + k \in 1..n
      BY <2>1, <2>2
    <3>5. \A k \in 1..(i - m) : a[k] = b[k]
      <4> HIDE DEF a, b, new
      <4> QED BY <1>2, <3>2, <3>3, <3>4
    <3> HIDE DEF a, b
    <3> QED BY <3>2, <3>3, <3>5, SeqEqual DEF a, b
  <2>4. Line(tokens, i) = SubSeq(tokens, 1 + m, i) /\ Line(new, i) = SubSeq(new, 1 + m, i)
    <3> HIDE DEF new
    <3> QED BY DEF Analysis!LineTo, m
  <2> QED BY <2>3, <2>4
<1> HIDE DEF new
<1>5. /\ Analysis!RecordsOf(new, E) = {<<i, Analysis!Parse(Line(new, i))>> : i \in Said(new)}
      /\ Analysis!RecordsOf(tokens, E) =
           {<<i, Analysis!Parse(Line(tokens, i))>> : i \in Said(tokens)}
  BY DEF Analysis!RecordsOf
<1>6. \A s, j : j \in Said(s) <=> j \in E \ {0} /\ ~Analysis!IsBlank(Line(s, j))
  OBVIOUS
<1> HIDE DEF Said, Line
<1>7. Said(new) = Said(tokens)
  BY <1>4, <1>6
<1>8. {<<i, Analysis!Parse(Line(new, i))>> : i \in Said(tokens)} =
        {<<i, Analysis!Parse(Line(tokens, i))>> : i \in Said(tokens)}
  BY <1>4, <1>6
<1> QED BY <1>5, <1>7, <1>8 DEF new

-----------------------------------------------------------------------------
(* What a summary says of the records read.                                *)

Kinds == {"used", "util", "waiting", "cache", "rate"}
Shown(kind, r) ==
  CASE kind = "used" -> Analysis!Used(r) [] kind = "util" -> Analysis!Util(r)
    [] kind = "waiting" -> Analysis!Waiting(r) [] kind = "cache" -> Analysis!Cache(r)
    [] kind = "rate" -> Analysis!Rate(r)
MeasuredBy(R, kind) ==
  {v \in UNION {{<< <<r[1], i>>, Shown(kind, r[2])[i]>> :
                   i \in DOMAIN Shown(kind, r[2])} : r \in R} :
     v[2] # None}
Criticals(R) == {r \in R : r[2].status = "critical"}

Summarized(R, n, schema, s) ==
  /\ IsFiniteSet(R) /\ s.records = Cardinality(R)
  /\ \A r \in R : r[1] \in 1..n /\ r[2] \in Recs /\ r[2].schema = schema /\ schema \in Int
  /\ R = {} => schema = None /\ s.first = None /\ s.last = None
  /\ R # {} => /\ {s.first, s.last} \subseteq {r[2].at : r \in R}
               /\ \A r \in R : s.first <= r[2].at /\ r[2].at <= s.last
  /\ \A kind \in Kinds : IsPeak(s[kind], MeasuredBy(R, kind))
  /\ s.critical = Cardinality(Criticals(R)) /\ s.warning \in 0..s.records

\* What the records are.
LEMMA RecFacts ==
  ASSUME Analysis!HistoryAssumption, NEW r \in Recs
  PROVE  Analysis!Typed(r) /\ r # None
<1>1. CASE \E c \in Collected : r = Analysis!Finalized(c)
  <2>1. PICK c \in Collected : r = Analysis!Finalized(c)
    BY <1>1
  <2>2. /\ r.at = c.at /\ r.findings = c.findings /\ r.gpus = c.gpus
        /\ r.endpoints = c.endpoints
    BY <2>1 DEF Analysis!Finalized
  <2>3. Analysis!Typed(c) /\ r # None
    BY <2>1 DEF Analysis!HistoryAssumption
  <2> QED BY <2>2, <2>3 DEF Analysis!Typed
<1>2. CASE \E line \in Foreign \ {Analysis!Newline} : r = line.head
  <2>1. PICK line \in Foreign \ {Analysis!Newline} : r = line.head
    BY <1>2
  <2>2. \/ line = Analysis!Newline
        \/ Analysis!Typed(line.head) /\ line.head # None
    BY DEF Analysis!HistoryAssumption
  <2> QED BY <2>1, <2>2
<1> QED BY <1>1, <1>2 DEF Recs

\* The values that a record shows.
LEMMA ShownTyped ==
  ASSUME NEW r, Analysis!Typed(r), NEW kind \in Kinds
  PROVE  \E n \in Nat : Shown(kind, r) \in [1..n -> Values]
<1>1. r.gpus \in Seq(Analysis!Gpus) /\ r.endpoints \in Seq(Analysis!Endpoints)
  BY DEF Analysis!Typed
<1> DEFINE g == Len(r.gpus)
           e == Len(r.endpoints)
<1>2. /\ g \in Nat /\ DOMAIN r.gpus = 1..g
      /\ \A i \in 1..g : r.gpus[i].used \in Int /\ r.gpus[i].util \in Int
  <2>1. \A x \in Analysis!Gpus : x.used \in Int /\ x.util \in Int
    BY DEF Analysis!Gpus
  <2>2. \A i \in 1..g : r.gpus[i] \in Analysis!Gpus
    BY <1>1
  <2> QED BY <1>1, <2>1, <2>2
<1>3. /\ e \in Nat /\ DOMAIN r.endpoints = 1..e
      /\ \A i \in 1..e : /\ r.endpoints[i].waiting \in Values /\ r.endpoints[i].cache \in Values
                         /\ r.endpoints[i].rate \in Values
  <2>1. \A x \in Analysis!Endpoints : x.waiting \in Values /\ x.cache \in Values /\ x.rate \in Values
    BY DEF Analysis!Endpoints, Analysis!Measurements, Values
  <2>2. \A i \in 1..e : r.endpoints[i] \in Analysis!Endpoints
    BY <1>1
  <2> QED BY <1>1, <2>1, <2>2
<1> HIDE DEF g, e
<1>4. CASE kind = "used"
  <2>1. Shown(kind, r) = Analysis!Used(r)
    BY <1>4 DEF Shown
  <2>2. Analysis!Used(r) \in [1..g -> Values]
    BY <1>2 DEF Analysis!Used, Values
  <2> QED BY <1>2, <2>1, <2>2
<1>5. CASE kind = "util"
  <2>1. Shown(kind, r) = Analysis!Util(r)
    BY <1>5 DEF Shown
  <2>2. Analysis!Util(r) \in [1..g -> Values]
    BY <1>2 DEF Analysis!Util, Values
  <2> QED BY <1>2, <2>1, <2>2
<1>6. CASE kind = "waiting"
  <2>1. Shown(kind, r) = Analysis!Waiting(r)
    BY <1>6 DEF Shown
  <2>2. Analysis!Waiting(r) \in [1..e -> Values]
    BY <1>3 DEF Analysis!Waiting
  <2> QED BY <1>3, <2>1, <2>2
<1>7. CASE kind = "cache"
  <2>1. Shown(kind, r) = Analysis!Cache(r)
    BY <1>7 DEF Shown
  <2>2. Analysis!Cache(r) \in [1..e -> Values]
    BY <1>3 DEF Analysis!Cache
  <2> QED BY <1>3, <2>1, <2>2
<1>8. CASE kind = "rate"
  <2>1. Shown(kind, r) = Analysis!Rate(r)
    BY <1>8 DEF Shown
  <2>2. Analysis!Rate(r) \in [1..e -> Values]
    BY <1>3 DEF Analysis!Rate
  <2> QED BY <1>3, <2>1, <2>2
<1> QED BY <1>4, <1>5, <1>6, <1>7, <1>8 DEF Kinds

\* One more record shows its own values besides.
LEMMA MeasuredAdds ==
  ASSUME NEW R, NEW e, NEW r, NEW kind, NEW n \in Nat, DOMAIN Shown(kind, r) = 1..n
  PROVE  MeasuredBy(R \cup {<<e, r>>}, kind) = MeasuredBy(R, kind) \cup Placed(e, Shown(kind, r), n)
<1> DEFINE Of(x) == {<< <<x[1], i>>, Shown(kind, x[2])[i]>> : i \in DOMAIN Shown(kind, x[2])}
           q == <<e, r>>
<1>1. UNION {Of(x) : x \in R \cup {q}} = (UNION {Of(x) : x \in R}) \cup Of(q)
  <2> HIDE DEF Of, q
  <2> QED OBVIOUS
<1>2. Of(q) = {<< <<e, i>>, Shown(kind, r)[i]>> : i \in 1..n}
  <2>1. q[1] = e /\ q[2] = r
    OBVIOUS
  <2> HIDE DEF q
  <2> QED BY <2>1
<1>3. {v \in Of(q) : v[2] # None} = Placed(e, Shown(kind, r), n)
  <2> DEFINE P(i) == << <<e, i>>, Shown(kind, r)[i]>>
  <2>1. \A i : P(i)[2] = Shown(kind, r)[i]
    OBVIOUS
  <2>2. Of(q) = {P(i) : i \in 1..n}
    BY <1>2
  <2>3. Placed(e, Shown(kind, r), n) = {P(i) : i \in {j \in 1..n : Shown(kind, r)[j] # None}}
    BY DEF Placed
  <2> HIDE DEF P, Of
  <2> QED BY <2>1, <2>2, <2>3
<1>4. /\ MeasuredBy(R \cup {q}, kind) = {v \in UNION {Of(x) : x \in R \cup {q}} : v[2] # None}
      /\ MeasuredBy(R, kind) = {v \in UNION {Of(x) : x \in R} : v[2] # None}
  BY DEF MeasuredBy
<1> HIDE DEF Of
<1> QED BY <1>1, <1>3, <1>4

\* The status of a sound record is that of its findings.
LEMMA CriticalMeans ==
  ASSUME NEW r, Analysis!Typed(r), r.summary = Analysis!Summary(r),
         r.status = Analysis!Status(r.summary) \/ Analysis!EmptyDefault(r)
  PROVE  (\E i \in DOMAIN r.findings : Analysis!Critical(r.findings[i])) <=> r.status = "critical"
<1> DEFINE S == {i \in DOMAIN r.findings : Analysis!Critical(r.findings[i])}
<1>1. r.summary.critical = Cardinality(S)
  <2>1. r.summary.critical = Analysis!Count(r.findings, Analysis!Critical)
    BY DEF Analysis!Summary
  <2>2. Analysis!Count(r.findings, Analysis!Critical) = Analysis!Cardinality(S)
    BY DEF Analysis!Count
  <2> QED BY <2>1, <2>2, SameCount
<1>2. IsFiniteSet(S)
  <2>1. DOMAIN r.findings = 1..Len(r.findings) /\ Len(r.findings) \in Nat
    BY DEF Analysis!Typed
  <2>2. IsFiniteSet(1..Len(r.findings))
    BY <2>1, FS_Interval
  <2>3. S \subseteq 1..Len(r.findings)
    BY <2>1
  <2> QED BY <2>2, <2>3, FS_Subset
<1>3. Cardinality(S) > 0 <=> S # {}
  <2> HIDE DEF S
  <2> QED BY <1>2, FS_EmptySet, FS_CardinalityType
<1>4. CASE r.status = Analysis!Status(r.summary)
  <2>1. ASSUME r.summary.critical > 0
        PROVE  r.status = "critical"
    BY <1>4, <2>1 DEF Analysis!Status
  <2>2. ASSUME ~(r.summary.critical > 0)
        PROVE  r.status # "critical"
    BY <1>4, <2>2 DEF Analysis!Status
  <2>3. r.status = "critical" <=> S # {}
    <3> HIDE DEF S
    <3> QED BY <1>1, <1>3, <2>1, <2>2
  <2> QED BY <2>3
<1>5. CASE Analysis!EmptyDefault(r)
  <2>1. r.status = "unknown" /\ r.findings = <<>>
    BY <1>5 DEF Analysis!EmptyDefault
  <2> QED BY <2>1
<1> QED BY <1>4, <1>5

\* One more record, of any value where nothing was read and of the same
\* schema otherwise, is in the summary with everything it says.
LEMMA SummarizedAdds ==
  ASSUME Analysis!HistoryAssumption,
         NEW R, NEW n \in Nat, NEW schema, NEW s, Summarized(R, n, schema, s),
         NEW e \in Nat, n < e, NEW r \in Recs, Analysis!Valid(r, schema)
  PROVE  Summarized(R \cup {<<e, r>>}, e, r.schema, Analysis!Observe(s, r))
<1> DEFINE q == <<e, r>>
           Q == R \cup {q}
           t == Analysis!Observe(s, r)
<1>1. q[1] = e /\ q[2] = r /\ q \notin R /\ q \in Q /\ R \subseteq Q
  <2>1. q[1] = e /\ q[2] = r
    OBVIOUS
  <2>2. \A x \in R : x[1] # e
    <3>1. \A x \in R : x[1] \in 1..n
      BY DEF Summarized
    <3> QED BY <3>1
  <2> HIDE DEF q
  <2> QED BY <2>1, <2>2
<1>2. Analysis!Typed(r) /\ r.at \in Int /\ None \notin Int
  BY RecFacts DEF Analysis!Typed, Analysis!HistoryAssumption
<1>3. /\ r.schema \in Int /\ schema \in {None, r.schema}
      /\ r.summary = Analysis!Summary(r)
      /\ r.status = Analysis!Status(r.summary) \/ Analysis!EmptyDefault(r)
  BY DEF Analysis!Valid, Analysis!HistoryAssumption
<1>4. IsFiniteSet(Q) /\ Cardinality(Q) = Cardinality(R) + 1 /\ Cardinality(R) \in Nat
  <2>1. IsFiniteSet(R)
    BY DEF Summarized
  <2> HIDE DEF q
  <2> QED BY <1>1, <2>1, FS_AddElement, FS_CardinalityType
<1>5. /\ t.records = s.records + 1
      /\ t.first = IF s.first = None \/ r.at < s.first THEN r.at ELSE s.first
      /\ t.last = IF s.last = None \/ r.at > s.last THEN r.at ELSE s.last
      /\ t.used = Analysis!Peak(s.used, Analysis!Used(r))
      /\ t.util = Analysis!Peak(s.util, Analysis!Util(r))
      /\ t.waiting = Analysis!Peak(s.waiting, Analysis!Waiting(r))
      /\ t.cache = Analysis!Peak(s.cache, Analysis!Cache(r))
      /\ t.rate = Analysis!Peak(s.rate, Analysis!Rate(r))
      /\ t.critical = s.critical + (IF \E i \in DOMAIN r.findings : Analysis!Critical(r.findings[i])
                                    THEN 1 ELSE 0)
      /\ t.warning \in {s.warning, s.warning + 1}
  <2>1. t.warning = s.warning + (IF \E i \in DOMAIN r.findings : Analysis!Warning(r.findings[i])
                                 THEN 1 ELSE 0)
    BY DEF Analysis!Observe
  <2>2. s.warning \in Int
    BY DEF Summarized
  <2>3. t.warning \in {s.warning, s.warning + 1}
    <3> HIDE DEF t
    <3> QED BY <2>1, <2>2
  <2> QED BY <2>3 DEF Analysis!Observe
<1>6. \A x \in Q : x[1] \in 1..e /\ x[2] \in Recs /\ x[2].schema = r.schema /\ r.schema \in Int
  <2>1. ASSUME NEW x \in R
        PROVE  x[1] \in 1..e /\ x[2] \in Recs /\ x[2].schema = r.schema
    <3>1. x[1] \in 1..n /\ x[2] \in Recs /\ x[2].schema = schema /\ schema \in Int
      BY DEF Summarized
    <3>2. schema = r.schema
      BY <1>2, <1>3, <3>1
    <3> QED BY <3>1, <3>2
  <2>2. e \in 1..e
    OBVIOUS
  <2> HIDE DEF q
  <2> QED BY <1>1, <1>3, <2>1, <2>2
<1>7. \A kind \in Kinds : IsPeak(t[kind], MeasuredBy(Q, kind))
  <2> SUFFICES ASSUME NEW kind \in Kinds
               PROVE  IsPeak(t[kind], MeasuredBy(Q, kind))
    OBVIOUS
  <2>1. t[kind] = Analysis!Peak(s[kind], Shown(kind, r))
    <3> HIDE DEF t
    <3>1. CASE kind = "used" BY <1>5, <3>1 DEF Shown
    <3>2. CASE kind = "util" BY <1>5, <3>2 DEF Shown
    <3>3. CASE kind = "waiting" BY <1>5, <3>3 DEF Shown
    <3>4. CASE kind = "cache" BY <1>5, <3>4 DEF Shown
    <3>5. CASE kind = "rate" BY <1>5, <3>5 DEF Shown
    <3> QED BY <3>1, <3>2, <3>3, <3>4, <3>5 DEF Kinds
  <2>2. PICK m \in Nat : Shown(kind, r) \in [1..m -> Values]
    BY <1>2, ShownTyped
  <2>3. MeasuredBy(Q, kind) = MeasuredBy(R, kind) \cup Placed(e, Shown(kind, r), m)
    BY <2>2, MeasuredAdds
  <2>4. \A v \in MeasuredBy(R, kind) : v[1][1] # e
    <3>1. \A x \in R : x[1] \in 1..n
      BY DEF Summarized
    <3>2. \A v \in MeasuredBy(R, kind) : \E x \in R : \E i \in DOMAIN Shown(kind, x[2]) :
            v = << <<x[1], i>>, Shown(kind, x[2])[i]>>
      BY DEF MeasuredBy
    <3>3. \A x, i, w : (<< <<x, i>>, w>>)[1][1] = x
      OBVIOUS
    <3>4. \A v \in MeasuredBy(R, kind) : \E x \in R : v[1][1] = x[1]
      BY <3>2, <3>3
    <3> QED BY <3>1, <3>4
  <2>5. IsPeak(s[kind], MeasuredBy(R, kind))
    BY DEF Summarized
  <2> DEFINE M == MeasuredBy(R, kind)
             shown == Shown(kind, r)
  <2> HIDE DEF t, Q, q, M, shown
  <2>6. IsPeak(Analysis!Peak(s[kind], shown), M \cup Placed(e, shown, m))
    <3>1. IsPeak(s[kind], M) /\ \A v \in M : v[1][1] # e
      BY <2>4, <2>5 DEF M
    <3>2. shown \in [1..m -> Values]
      BY <2>2 DEF shown
    <3> QED BY <3>1, <3>2, PeakAdds
  <2> QED BY <2>1, <2>3, <2>6 DEF M, shown
<1>8. t.critical = Cardinality(Criticals(Q))
  <2>1. IsFiniteSet(Criticals(R)) /\ Cardinality(Criticals(R)) \in Int /\ q \notin Criticals(R)
        /\ s.critical = Cardinality(Criticals(R))
    <3>1. Criticals(R) \subseteq R /\ IsFiniteSet(R)
      BY DEF Criticals, Summarized
    <3>2. s.critical = Cardinality(Criticals(R))
      BY DEF Summarized
    <3>3. IsFiniteSet(Criticals(R)) /\ Cardinality(Criticals(R)) \in Int
      BY <3>1, FS_Subset, FS_CardinalityType
    <3> QED BY <1>1, <3>1, <3>2, <3>3
  <2>2. CASE r.status = "critical"
    <3>1. Criticals(Q) = Criticals(R) \cup {q}
      <4> HIDE DEF q
      <4> QED BY <1>1, <2>2 DEF Criticals
    <3>2. t.critical = s.critical + 1
      BY <1>2, <1>3, <1>5, <2>2, CriticalMeans
    <3> HIDE DEF q, Q, t
    <3> QED BY <2>1, <3>1, <3>2, FS_AddElement
  <2>3. CASE r.status # "critical"
    <3>1. Criticals(Q) = Criticals(R)
      <4> HIDE DEF q
      <4> QED BY <1>1, <2>3 DEF Criticals
    <3>2. t.critical = s.critical + 0
      BY <1>2, <1>3, <1>5, <2>3, CriticalMeans
    <3> HIDE DEF q, Q, t
    <3> QED BY <2>1, <3>1, <3>2
  <2> QED BY <2>2, <2>3
<1>9. /\ {t.first, t.last} \subseteq {x[2].at : x \in Q}
      /\ \A x \in Q : t.first <= x[2].at /\ x[2].at <= t.last
  <2>1. CASE R = {}
    <3>1. t.first = r.at /\ t.last = r.at
      <4>1. s.first = None /\ s.last = None
        BY <2>1 DEF Summarized
      <4> HIDE DEF t
      <4> QED BY <1>5, <4>1
    <3>2. \A x \in Q : x[2] = r
      <4> HIDE DEF q
      <4> QED BY <1>1, <2>1
    <3> HIDE DEF t, Q, q
    <3> QED BY <1>1, <1>2, <3>1, <3>2
  <2>2. CASE R # {}
    <3>1. \A x \in R : x[2].at \in Int
      BY RecFacts DEF Summarized, Analysis!Typed
    <3>2. PICK a \in R, b \in R :
            /\ s.first = a[2].at /\ s.last = b[2].at
            /\ \A x \in R : s.first <= x[2].at /\ x[2].at <= s.last
      BY <2>2 DEF Summarized
    <3>3. s.first \in Int /\ s.last \in Int
      BY <3>1, <3>2
    <3>4. /\ t.first = IF r.at < s.first THEN r.at ELSE s.first
          /\ t.last = IF r.at > s.last THEN r.at ELSE s.last
      <4> HIDE DEF t
      <4> QED BY <1>2, <1>5, <3>3
    <3>5. /\ t.first \in {s.first, r.at} /\ t.first <= s.first /\ t.first <= r.at
          /\ t.last \in {s.last, r.at} /\ s.last <= t.last /\ r.at <= t.last
          /\ t.first \in Int /\ t.last \in Int
      <4> HIDE DEF t
      <4> QED BY <1>2, <3>3, <3>4
    <3>6. \A x \in Q : x \in R \/ x[2] = r
      <4> HIDE DEF q
      <4> QED BY <1>1
    <3>7. \A x \in Q : t.first <= x[2].at /\ x[2].at <= t.last
      <4> HIDE DEF t, Q
      <4> QED BY <1>2, <3>1, <3>2, <3>3, <3>5, <3>6
    <3>8. {t.first, t.last} \subseteq {x[2].at : x \in Q}
      <4>1. a \in Q /\ b \in Q
        BY <1>1
      <4> HIDE DEF t, Q, q
      <4> QED BY <1>1, <3>2, <3>5, <4>1
    <3> QED BY <3>7, <3>8
  <2> QED BY <2>1, <2>2
<1>10. t.records = Cardinality(Q) /\ t.warning \in 0..t.records /\ Q # {}
  <2>1. s.records = Cardinality(R) /\ s.warning \in 0..s.records
    BY DEF Summarized
  <2> HIDE DEF t, Q
  <2> QED BY <1>1, <1>4, <1>5, <2>1
<1> HIDE DEF t, Q
<1> QED BY <1>4, <1>6, <1>7, <1>8, <1>9, <1>10 DEF Summarized, Q, t

-----------------------------------------------------------------------------
(* The invariant of a history.                                             *)

Stages == {"opened", "checked", "head", "whole"}
Appends == [at : Stages, file : 1..2, record : Recs]

FilesInv ==
  /\ path \in 1..2 /\ files \in [1..2 -> Seq(Tokens)]
  /\ writer \in [Monitors -> {None} \cup Appends]

\* The analysis has read whole lines, and its summary is that of their records.
ReaderInv ==
  /\ reader = [at |-> reader.at, file |-> reader.file, line |-> reader.line,
               ends |-> reader.ends, schema |-> reader.schema, summary |-> reader.summary]
  /\ reader.at \in {"start", "reading", "done", "refused"}
  /\ reader.file \in 1..2 /\ reader.line \in Nat /\ Ended(reader.ends, reader.line)
  /\ reader.at = "start" =>
       /\ reader.line = 0 /\ reader.ends = {0} /\ reader.schema = None
       /\ reader.summary = Analysis!Nothing

\* The tokens up to n lie in lines with those ends.
Lines(tokens, ends, n, there) ==
  /\ n <= Len(tokens)
  /\ \A i \in 1..n : Analysis!EndsLine(tokens[i]) => i \in ends
  /\ \A i \in ends \ {0} : Analysis!EndsLine(tokens[i]) \/ there <= i
ScanInv ==
  reader.at \in {"reading", "done"} =>
    LET tokens == files[reader.file]
    IN  /\ Lines(tokens, reader.ends, reader.line, present)
        /\ Summarized(Analysis!RecordsOf(tokens, reader.ends), reader.line, reader.schema,
                      reader.summary)

\* What was there when the file was opened has been read in the end.
PresentInv ==
  /\ reader.at = "reading" => present <= Len(files[reader.file])
  /\ reader.at = "done" => present <= reader.line /\ reader.summary.records # 0
  /\ present \in Nat

HistoryInv == FilesInv /\ ReaderInv /\ ScanInv /\ PresentInv

\* A summary of nothing.
LEMMA NothingSummarized ==
  ASSUME NEW tokens
  PROVE  Summarized(Analysis!RecordsOf(tokens, {0}), 0, None, Analysis!Nothing)
<1>1. Analysis!RecordsOf(tokens, {0}) = {}
  BY DEF Analysis!RecordsOf
<1>2. \A kind \in Kinds : MeasuredBy({}, kind) = {}
  BY DEF MeasuredBy
<1>3. IsFiniteSet({}) /\ Cardinality({}) = 0 /\ Criticals({}) = {}
  BY FS_EmptySet DEF Criticals
<1>4. /\ Analysis!Nothing.records = 0 /\ Analysis!Nothing.first = None
      /\ Analysis!Nothing.last = None /\ Analysis!Nothing.critical = 0
      /\ Analysis!Nothing.warning = 0
      /\ \A kind \in Kinds : Analysis!Nothing[kind] = [max |-> None, samples |-> 0]
  BY DEF Analysis!Nothing, Analysis!NoMax, Kinds
<1>5. \A kind \in Kinds : IsPeak(Analysis!Nothing[kind], {})
  BY <1>3, <1>4 DEF IsPeak
<1> QED BY <1>1, <1>2, <1>3, <1>4, <1>5 DEF Summarized

\* A history begins empty, or with a line of someone else.
LEMMA HistoryInitially ==
  ASSUME Analysis!HistoryAssumption, Analysis!Init
  PROVE  HistoryInv
<1>1. PICK line \in Foreign \cup {None} :
        files = << IF line = None THEN <<>> ELSE <<line>>, <<>> >>
  BY DEF Analysis!Init
<1>2. (IF line = None THEN <<>> ELSE <<line>>) \in Seq(Tokens)
  <2>1. CASE line = None
    BY <2>1
  <2>2. CASE line # None
    <3>1. line \in Foreign
      BY <2>2
    <3>2. \/ line = Analysis!Newline
          \/ line # Analysis!Newline /\ line = Analysis!Token("line", line.head, line.head)
      BY <3>1 DEF Analysis!HistoryAssumption
    <3>3. line \in Tokens
      BY <3>1, <3>2 DEF Tokens, Recs
    <3> QED BY <2>2, <3>3
  <2> QED BY <2>1, <2>2
<1>3. files \in [1..2 -> Seq(Tokens)]
  <2> DEFINE a == IF line = None THEN <<>> ELSE <<line>>
  <2>1. files = <<a, <<>> >> /\ a \in Seq(Tokens) /\ <<>> \in Seq(Tokens)
    BY <1>1, <1>2
  <2>2. \A S : \A x, y \in S : <<x, y>> \in [1..2 -> S]
    OBVIOUS
  <2> HIDE DEF a
  <2> QED BY <2>1, <2>2
<1>4. /\ path = 1 /\ writer = [w \in Monitors |-> None] /\ present = 0
      /\ reader = [at |-> "start", file |-> 1, line |-> 0, ends |-> {0}, schema |-> None,
                   summary |-> Analysis!Nothing]
  BY DEF Analysis!Init
<1>5. FilesInv
  BY <1>3, <1>4 DEF FilesInv
<1>6. /\ reader.at = "start" /\ reader.file = 1 /\ reader.line = 0 /\ reader.schema = None
      /\ reader.summary = Analysis!Nothing /\ reader.ends = {0}
  BY <1>4
<1>7. Ended({0}, 0)
  BY DEF Ended
<1>8. ReaderInv /\ ScanInv /\ PresentInv
  BY <1>4, <1>6, <1>7 DEF ReaderInv, ScanInv, PresentInv
<1> QED BY <1>5, <1>8 DEF HistoryInv

\* What was read and what is known of it stay while others append.
LEMMA AppendedStays ==
  ASSUME HistoryInv, NEW f \in 1..2, NEW t \in Tokens,
         files' = [files EXCEPT ![f] = Append(@, t)], UNCHANGED <<path, reader, present>>,
         writer' \in [Monitors -> {None} \cup Appends]
  PROVE  HistoryInv'
<1>1. files \in [1..2 -> Seq(Tokens)] /\ path \in 1..2
  BY DEF HistoryInv, FilesInv
<1>2. files'[f] = Append(files[f], t) /\ \A g \in 1..2 : g # f => files'[g] = files[g]
  BY <1>1
<1>3. FilesInv'
  <2>1. Append(files[f], t) \in Seq(Tokens)
    BY <1>1, AppendProperties
  <2>2. files' \in [1..2 -> Seq(Tokens)]
    BY <1>1, <2>1
  <2> QED BY <1>1, <2>2 DEF FilesInv
<1>4. ReaderInv'
  BY DEF HistoryInv, ReaderInv
<1> DEFINE tokens == files[reader.file]
           later == files'[reader.file]
<1>5. /\ reader.file \in 1..2 /\ reader.line \in Nat /\ tokens \in Seq(Tokens)
      /\ Ended(reader.ends, reader.line)
  BY <1>1 DEF HistoryInv, ReaderInv
<1>6. later \in {tokens, Append(tokens, t)}
  <2>1. CASE reader.file = f
    BY <1>2, <2>1
  <2>2. CASE reader.file # f
    BY <1>2, <1>5, <2>2
  <2> QED BY <2>1, <2>2
<1>7. Len(tokens) \in Nat /\ Len(later) \in Nat /\ Len(tokens) <= Len(later)
  <2>1. Len(Append(tokens, t)) = Len(tokens) + 1 /\ Len(tokens) \in Nat
    BY <1>5, AppendProperties
  <2> HIDE DEF tokens, later
  <2> QED BY <1>6, <2>1
<1>8. ScanInv'
  <2> SUFFICES ASSUME reader.at \in {"reading", "done"}
               PROVE  /\ Lines(later, reader.ends, reader.line, present)
                      /\ Summarized(Analysis!RecordsOf(later, reader.ends), reader.line,
                                    reader.schema, reader.summary)
    BY DEF ScanInv
  <2>1. /\ Lines(tokens, reader.ends, reader.line, present)
        /\ Summarized(Analysis!RecordsOf(tokens, reader.ends), reader.line, reader.schema,
                      reader.summary)
    BY DEF HistoryInv, ScanInv
  <2>2. /\ Analysis!RecordsOf(Append(tokens, t), reader.ends)
             = Analysis!RecordsOf(tokens, reader.ends)
        /\ Lines(Append(tokens, t), reader.ends, reader.line, present)
    <3> HIDE DEF tokens
    <3>1. reader.line \in 0..Len(tokens)
      BY <1>5, <1>7, <2>1 DEF Lines
    <3>2. /\ Len(Append(tokens, t)) = Len(tokens) + 1
          /\ \A i \in 1..Len(tokens) : Append(tokens, t)[i] = tokens[i]
      BY <1>5, AppendProperties
    <3>3. \A i \in 1..reader.line : Append(tokens, t)[i] = tokens[i]
      BY <1>7, <3>1, <3>2
    <3>4. \A i \in reader.ends \ {0} : i \in 1..reader.line
      BY <1>5 DEF Ended
    <3>5. Lines(Append(tokens, t), reader.ends, reader.line, present)
      BY <1>7, <2>1, <3>1, <3>2, <3>3, <3>4 DEF Lines
    <3> QED BY <1>5, <3>1, <3>5, SameRecords
  <2> HIDE DEF tokens, later
  <2> QED BY <1>6, <2>1, <2>2
<1>9. PresentInv'
  <2>1. PresentInv
    BY DEF HistoryInv
  <2>2. /\ reader.at = "reading" => present <= Len(tokens)
        /\ reader.at = "done" => present <= reader.line /\ reader.summary.records # 0
        /\ present \in Nat
    BY <2>1 DEF PresentInv
  <2>3. reader.at = "reading" => present <= Len(later)
    <3> HIDE DEF tokens, later
    <3> QED BY <1>7, <2>2
  <2> QED BY <2>2, <2>3 DEF PresentInv
<1> QED BY <1>3, <1>4, <1>8, <1>9 DEF HistoryInv

\* Nothing is appended, and the analysis stands still.
LEMMA WriterStays ==
  ASSUME HistoryInv, UNCHANGED <<files, reader, present>>, path' \in 1..2,
         writer' \in [Monitors -> {None} \cup Appends]
  PROVE  HistoryInv'
<1>1. FilesInv' /\ ReaderInv' /\ PresentInv'
  BY DEF HistoryInv, FilesInv, ReaderInv, PresentInv
<1>2. ScanInv'
  BY DEF HistoryInv, ScanInv
<1> QED BY <1>1, <1>2 DEF HistoryInv

\* The steps of the monitors and of what happens around them.
LEMMA AppendStep ==
  ASSUME Analysis!HistoryAssumption, HistoryInv, NEW w \in Monitors,
         \/ Analysis!Open(w) \/ Analysis!Check(w) \/ Analysis!WriteAll(w)
         \/ Analysis!WriteHead(w) \/ Analysis!WriteTail(w) \/ Analysis!WriteNewline(w)
         \/ Analysis!GiveUp(w)
  PROVE  HistoryInv'
<1>1. /\ path \in 1..2 /\ files \in [1..2 -> Seq(Tokens)]
      /\ writer \in [Monitors -> {None} \cup Appends]
  BY DEF HistoryInv, FilesInv
<1>2. writer[w] # None =>
        /\ writer[w] \in Appends /\ writer[w].file \in 1..2 /\ writer[w].record \in Recs
        /\ \A at \in Stages : [writer[w] EXCEPT !.at = at] \in Appends
  <2>1. writer[w] # None => writer[w] \in Appends
    BY <1>1
  <2>2. \A x \in Appends :
          /\ x.file \in 1..2 /\ x.record \in Recs
          /\ \A at \in Stages : [x EXCEPT !.at = at] \in Appends
    BY DEF Appends
  <2> QED BY <2>1, <2>2
<1>3. \A x \in {None} \cup Appends : [writer EXCEPT ![w] = x] \in [Monitors -> {None} \cup Appends]
  BY <1>1
<1>4. ASSUME NEW t \in Tokens, NEW x \in {None} \cup Appends, writer[w] # None,
             Analysis!Put(w, t, x)
      PROVE  HistoryInv'
  <2>1. /\ files' = [files EXCEPT ![writer[w].file] = Append(@, t)]
        /\ writer' = [writer EXCEPT ![w] = x] /\ UNCHANGED <<path, reader, present>>
    BY <1>4 DEF Analysis!Put
  <2>2. writer' \in [Monitors -> {None} \cup Appends] /\ writer[w].file \in 1..2
    BY <1>2, <1>3, <1>4, <2>1
  <2> QED BY <2>1, <2>2, AppendedStays
<1>5. CASE Analysis!Open(w)
  <2>1. PICK report \in Collected :
          writer' = [writer EXCEPT ![w] = [at |-> "opened", file |-> path,
                                           record |-> Analysis!Finalized(report)]]
    BY <1>5 DEF Analysis!Open
  <2>2. Analysis!Finalized(report) \in Recs
    BY DEF Recs
  <2>3. [at |-> "opened", file |-> path, record |-> Analysis!Finalized(report)] \in Appends
    BY <1>1, <2>2 DEF Appends, Stages
  <2>4. writer' \in [Monitors -> {None} \cup Appends]
    BY <1>3, <2>1, <2>3
  <2>5. UNCHANGED <<files, path, reader, present>>
    BY <1>5 DEF Analysis!Open
  <2> QED BY <1>1, <2>4, <2>5, WriterStays
<1>6. CASE Analysis!Check(w)
  <2>1. /\ writer[w] # None /\ UNCHANGED <<files, path, reader, present>>
        /\ writer' = [writer EXCEPT ![w] = IF writer[w].file = path
                                           THEN [writer[w] EXCEPT !.at = "checked"] ELSE None]
    BY <1>1, <1>6 DEF Analysis!Check
  <2>2. (IF writer[w].file = path THEN [writer[w] EXCEPT !.at = "checked"] ELSE None)
          \in {None} \cup Appends
    BY <1>2, <2>1 DEF Stages
  <2>3. writer' \in [Monitors -> {None} \cup Appends]
    BY <1>3, <2>1, <2>2
  <2> QED BY <1>1, <2>1, <2>3, WriterStays
<1>7. CASE Analysis!WriteAll(w)
  <2>1. /\ writer[w] # None
        /\ Analysis!Put(w, Analysis!Token("line", writer[w].record, writer[w].record), None)
    BY <1>7 DEF Analysis!WriteAll
  <2>2. Analysis!Token("line", writer[w].record, writer[w].record) \in Tokens
    BY <1>2, <2>1 DEF Tokens
  <2> QED BY <1>4, <2>1, <2>2
<1>8. CASE Analysis!WriteHead(w)
  <2>1. PICK text \in {"head", "whole"} :
          /\ writer[w] # None
          /\ Analysis!Put(w, Analysis!Token(text, writer[w].record, None),
                          [writer[w] EXCEPT !.at = text])
    BY <1>8 DEF Analysis!WriteHead
  <2>2. Analysis!Token(text, writer[w].record, None) \in Tokens
    BY <1>2, <2>1 DEF Tokens
  <2>3. [writer[w] EXCEPT !.at = text] \in Appends
    BY <1>2, <2>1 DEF Stages
  <2> QED BY <1>4, <2>1, <2>2, <2>3
<1>9. CASE Analysis!WriteTail(w)
  <2>1. /\ writer[w] # None
        /\ Analysis!Put(w, Analysis!Token("tail", None, writer[w].record), None)
    BY <1>9 DEF Analysis!WriteTail
  <2>2. Analysis!Token("tail", None, writer[w].record) \in Tokens
    BY <1>2, <2>1 DEF Tokens
  <2> QED BY <1>4, <2>1, <2>2
<1>11. CASE Analysis!WriteNewline(w)
  <2>1. writer[w] # None /\ Analysis!Put(w, Analysis!Newline, None)
    BY <1>11 DEF Analysis!WriteNewline
  <2>2. Analysis!Newline \in Tokens
    BY DEF Tokens
  <2> QED BY <1>4, <2>1, <2>2
<1>10. CASE Analysis!GiveUp(w)
  <2>1. writer' = [writer EXCEPT ![w] = None] /\ UNCHANGED <<files, path, reader, present>>
    BY <1>10 DEF Analysis!GiveUp
  <2>2. writer' \in [Monitors -> {None} \cup Appends]
    BY <1>3, <2>1
  <2> QED BY <1>1, <2>1, <2>2, WriterStays
<1> QED BY <1>5, <1>6, <1>7, <1>8, <1>9, <1>10, <1>11

\* The analysis is somewhere else, in a file that stays.
LEMMA ReaderMoves ==
  ASSUME HistoryInv, UNCHANGED <<files, path, writer>>, ReaderInv', ScanInv', PresentInv'
  PROVE  HistoryInv'
<1>1. FilesInv'
  BY DEF HistoryInv, FilesInv
<1> QED BY <1>1 DEF HistoryInv

\* The file is opened.
LEMMA AnalyzeStep ==
  ASSUME HistoryInv, Analysis!Analyze
  PROVE  HistoryInv'
<1>1. /\ path \in 1..2 /\ files[path] \in Seq(Tokens) /\ ReaderInv
      /\ reader.at = "start" /\ UNCHANGED <<files, path, writer>>
      /\ present' = Len(files[path])
  BY DEF HistoryInv, FilesInv, Analysis!Analyze
<1>2. reader' = [at |-> "reading", file |-> path, line |-> reader.line, ends |-> reader.ends,
                 schema |-> reader.schema, summary |-> reader.summary]
  BY DEF HistoryInv, ReaderInv, Analysis!Analyze
<1>3. /\ reader'.at = "reading" /\ reader'.file = path /\ reader'.line = 0
      /\ reader'.ends = {0} /\ Ended({0}, 0) /\ reader'.schema = None /\ reader'.summary = Analysis!Nothing
  BY <1>1, <1>2 DEF ReaderInv, Ended
<1>4. ReaderInv'
  BY <1>1, <1>2, <1>3 DEF ReaderInv
<1>5. ScanInv'
  <2>1. Lines(files[path], {0}, 0, present')
    BY <1>1 DEF Lines
  <2> QED BY <1>1, <1>3, <2>1, NothingSummarized DEF ScanInv
<1>6. PresentInv'
  <2>1. present' \in Nat /\ present' <= Len(files[path])
    BY <1>1
  <2> QED BY <1>1, <1>3, <2>1 DEF PresentInv
<1> QED BY <1>1, <1>4, <1>5, <1>6, ReaderMoves

\* A line is read: passed over, counted, or refused.
LEMMA ReadLineStep ==
  ASSUME Analysis!HistoryAssumption, HistoryInv, Analysis!ReadLine
  PROVE  HistoryInv'
<1> DEFINE tokens == files[reader.file]
           n == reader.line
           E == reader.ends
           e == Analysis!EndsAt(tokens, n + 1)
           line == SubSeq(tokens, n + 1, e)
           r == Analysis!Parse(line)
           R == Analysis!RecordsOf(tokens, E)
<1>1. /\ reader.at = "reading" /\ reader.file \in 1..2 /\ n \in Nat /\ Ended(E, n)
      /\ n < Len(tokens) /\ tokens \in Seq(Tokens) /\ Len(tokens) \in Nat
      /\ UNCHANGED <<files, path, writer, present>>
  BY DEF HistoryInv, FilesInv, ReaderInv, Analysis!ReadLine
<1>2. Lines(tokens, E, n, present) /\ Summarized(R, n, reader.schema, reader.summary)
  BY <1>1 DEF HistoryInv, ScanInv
<1>3. /\ e \in (n + 1)..Len(tokens)
      /\ \A j \in (n + 1)..(e - 1) : ~Analysis!EndsLine(tokens[j])
      /\ Analysis!EndsLine(tokens[e]) \/ e = Len(tokens)
      /\ r # None => r \in Recs
  <2> HIDE DEF tokens, n
  <2>1. tokens \in Seq(Tokens) /\ n \in Nat /\ n < Len(tokens)
    BY <1>1
  <2> QED BY <2>1, LineFacts
<1>4. /\ reader = [at |-> reader.at, file |-> reader.file, line |-> n, ends |-> E,
                   schema |-> reader.schema, summary |-> reader.summary]
      /\ present \in Nat /\ present <= Len(tokens)
  BY <1>1 DEF HistoryInv, ReaderInv, PresentInv
<1>5. e \in Nat /\ n < e /\ Ended(E \cup {e}, e) /\ Lines(tokens, E \cup {e}, e, present)
  <2> HIDE DEF tokens, e, n, E
  <2>1. e \in Nat /\ n < e /\ e <= Len(tokens)
    BY <1>1, <1>3
  <2>2. Ended(E \cup {e}, e)
    BY <1>1, <2>1 DEF Ended
  <2>3. ASSUME NEW i \in 1..e, Analysis!EndsLine(tokens[i])
        PROVE  i \in E \cup {e}
    <3>1. i \in 1..n \/ i \in (n + 1)..(e - 1) \/ i = e
      BY <1>1, <2>1
    <3> QED BY <1>2, <1>3, <2>3, <3>1 DEF Lines
  <2>4. ASSUME NEW i \in (E \cup {e}) \ {0}
        PROVE  Analysis!EndsLine(tokens[i]) \/ present <= i
    BY <1>2, <1>3, <1>4 DEF Lines
  <2> QED BY <2>1, <2>2, <2>3, <2>4 DEF Lines
<1>6. CASE Analysis!IsBlank(line)
  <2>1. reader' = [reader EXCEPT !.line = e, !.ends = E \cup {e}]
    BY <1>6 DEF Analysis!ReadLine
  <2>2. reader' = [at |-> reader.at, file |-> reader.file, line |-> e, ends |-> E \cup {e},
                   schema |-> reader.schema, summary |-> reader.summary]
    <3> HIDE DEF e, E, n
    <3> QED BY <1>4, <2>1
  <2> HIDE DEF e, E, n
  <2>3. /\ reader'.at = "reading" /\ reader'.file = reader.file /\ reader'.line = e
        /\ reader'.ends = E \cup {e}
        /\ reader'.schema = reader.schema /\ reader'.summary = reader.summary
    BY <1>1, <2>2
  <2>4. ReaderInv'
    BY <1>1, <1>5, <2>2, <2>3 DEF ReaderInv
  <2>5. Analysis!RecordsOf(tokens, E \cup {e}) = R
    <3>1. Analysis!RecordsOf(tokens, E \cup {e}) = R \cup {}
      <4> HIDE DEF tokens
      <4> QED BY <1>1, <1>5, <1>6, NextRecords DEF R
    <3> QED BY <3>1
  <2>6. Summarized(R, e, reader.schema, reader.summary)
    <3>1. \A x \in R : x[1] \in 1..n
      BY <1>2 DEF Summarized
    <3>2. \A x \in R : x[1] \in 1..e
      <4> HIDE DEF R
      <4> QED BY <1>1, <1>5, <3>1
    <3> HIDE DEF R
    <3> QED BY <1>2, <3>2 DEF Summarized
  <2>7. ScanInv'
    BY <1>1, <1>5, <2>3, <2>5, <2>6 DEF ScanInv
  <2>8. PresentInv'
    BY <1>1, <1>4, <2>3 DEF PresentInv
  <2> QED BY <1>1, <2>4, <2>7, <2>8, ReaderMoves
<1>7. CASE ~Analysis!IsBlank(line) /\ (r = None \/ ~Analysis!Valid(r, reader.schema))
  <2>1. reader' = [reader EXCEPT !.at = "refused"]
    BY <1>7 DEF Analysis!ReadLine
  <2>2. reader' = [at |-> "refused", file |-> reader.file, line |-> n, ends |-> E,
                   schema |-> reader.schema, summary |-> reader.summary]
    BY <1>4, <2>1
  <2>3. /\ reader'.at = "refused" /\ reader'.file = reader.file /\ reader'.line = n
        /\ reader'.ends = E
        /\ reader'.schema = reader.schema /\ reader'.summary = reader.summary
    BY <2>2
  <2>4. ReaderInv' /\ ScanInv' /\ PresentInv'
    BY <1>1, <1>4, <2>2, <2>3 DEF ReaderInv, ScanInv, PresentInv
  <2> QED BY <1>1, <2>4, ReaderMoves
<1>8. CASE ~Analysis!IsBlank(line) /\ r # None /\ Analysis!Valid(r, reader.schema)
  <2> DEFINE s == Analysis!Observe(reader.summary, r)
  <2>1. reader' = [reader EXCEPT !.line = e, !.ends = E \cup {e}, !.schema = r.schema,
                                 !.summary = Analysis!Observe(reader.summary, r)]
    <3>1. reader' = [reader EXCEPT !.line = e, !.ends = @ \cup {e}, !.schema = r.schema,
                                   !.summary = Analysis!Observe(@, r)]
      BY <1>8 DEF Analysis!ReadLine
    <3> HIDE DEF e, r, n
    <3> QED BY <1>4, <3>1
  <2> HIDE DEF e, r, s, E, n
  <2>2. reader' = [at |-> reader.at, file |-> reader.file, line |-> e, ends |-> E \cup {e},
                   schema |-> r.schema, summary |-> s]
    BY <1>4, <2>1 DEF s
  <2>3. /\ reader'.at = "reading" /\ reader'.file = reader.file /\ reader'.line = e
        /\ reader'.ends = E \cup {e} /\ reader'.schema = r.schema /\ reader'.summary = s
    BY <1>1, <2>2
  <2>4. ReaderInv'
    BY <1>1, <1>5, <2>2, <2>3 DEF ReaderInv
  <2>5. Analysis!RecordsOf(tokens, E \cup {e}) = R \cup {<<e, r>>}
    <3> HIDE DEF tokens
    <3> QED BY <1>1, <1>5, <1>8, NextRecords DEF R, r, line
  <2>6. Summarized(R \cup {<<e, r>>}, e, r.schema, s)
    <3>1. r \in Recs /\ Analysis!Valid(r, reader.schema)
      BY <1>3, <1>8
    <3> HIDE DEF R
    <3> QED BY <1>1, <1>2, <1>5, <3>1, SummarizedAdds DEF s
  <2>7. ScanInv'
    BY <1>1, <1>5, <2>3, <2>5, <2>6 DEF ScanInv
  <2>8. PresentInv'
    BY <1>1, <1>4, <2>3 DEF PresentInv
  <2> QED BY <1>1, <2>4, <2>7, <2>8, ReaderMoves
<1> QED BY <1>6, <1>7, <1>8

\* The end of the file.
LEMMA ReadEndStep ==
  ASSUME HistoryInv, Analysis!ReadEnd
  PROVE  HistoryInv'
<1> DEFINE at == IF reader.summary.records = 0 THEN "refused" ELSE "done"
<1>1. /\ reader.at = "reading" /\ reader.line = Len(files[reader.file])
      /\ UNCHANGED <<files, path, writer, present>> /\ reader' = [reader EXCEPT !.at = at]
  BY DEF Analysis!ReadEnd
<1>2. ReaderInv /\ ScanInv /\ PresentInv
  BY DEF HistoryInv
<1>3. reader' = [at |-> at, file |-> reader.file, line |-> reader.line, ends |-> reader.ends,
                 schema |-> reader.schema, summary |-> reader.summary]
  BY <1>1, <1>2 DEF ReaderInv
<1>4. /\ reader'.at = at /\ reader'.file = reader.file /\ reader'.line = reader.line
      /\ reader'.ends = reader.ends
      /\ reader'.schema = reader.schema /\ reader'.summary = reader.summary
  BY <1>3
<1>5. at \in {"refused", "done"} /\ (at = "done" => reader.summary.records # 0)
  OBVIOUS
<1> HIDE DEF at
<1>6. ReaderInv'
  BY <1>1, <1>2, <1>3, <1>4, <1>5 DEF ReaderInv
<1>7. ScanInv'
  BY <1>1, <1>2, <1>4, <1>5 DEF ScanInv
<1>8. PresentInv'
  BY <1>1, <1>2, <1>4, <1>5 DEF PresentInv
<1> QED BY <1>1, <1>6, <1>7, <1>8, ReaderMoves

\* Every step.
LEMMA HistoryStep ==
  ASSUME Analysis!HistoryAssumption, HistoryInv, [Analysis!Next]_(Analysis!vars)
  PROVE  HistoryInv'
<1>1. CASE Analysis!Rotate
  <2>1. path' = 2 /\ UNCHANGED <<files, writer, reader, present>>
    BY <1>1 DEF Analysis!Rotate
  <2>2. writer' \in [Monitors -> {None} \cup Appends] /\ path' \in 1..2
    BY <2>1 DEF HistoryInv, FilesInv
  <2> QED BY <2>1, <2>2, WriterStays
<1>2. CASE UNCHANGED Analysis!vars
  <2>1. UNCHANGED <<files, path, writer, reader, present>>
    BY <1>2 DEF Analysis!vars
  <2>2. writer' \in [Monitors -> {None} \cup Appends] /\ path' \in 1..2
    BY <2>1 DEF HistoryInv, FilesInv
  <2> QED BY <2>1, <2>2, WriterStays
<1> QED BY <1>1, <1>2, AppendStep, AnalyzeStep, ReadLineStep, ReadEndStep DEF Analysis!Next

-----------------------------------------------------------------------------
(* What an analysis is about.                                              *)

\* The values of a kind are those that the property speaks of.
LEMMA MeasuredIs ==
  ASSUME NEW R
  PROVE  /\ Analysis!Measured(R, Analysis!Used) = MeasuredBy(R, "used")
         /\ Analysis!Measured(R, Analysis!Util) = MeasuredBy(R, "util")
         /\ Analysis!Measured(R, Analysis!Waiting) = MeasuredBy(R, "waiting")
         /\ Analysis!Measured(R, Analysis!Cache) = MeasuredBy(R, "cache")
         /\ Analysis!Measured(R, Analysis!Rate) = MeasuredBy(R, "rate")
<1>1. \A r : /\ Shown("used", r) = Analysis!Used(r) /\ Shown("util", r) = Analysis!Util(r)
             /\ Shown("waiting", r) = Analysis!Waiting(r) /\ Shown("cache", r) = Analysis!Cache(r)
             /\ Shown("rate", r) = Analysis!Rate(r)
  BY DEF Shown
<1>2. Analysis!Measured(R, Analysis!Used) = MeasuredBy(R, "used")
  BY <1>1 DEF Analysis!Measured, MeasuredBy
<1>3. Analysis!Measured(R, Analysis!Util) = MeasuredBy(R, "util")
  BY <1>1 DEF Analysis!Measured, MeasuredBy
<1>4. Analysis!Measured(R, Analysis!Waiting) = MeasuredBy(R, "waiting")
  BY <1>1 DEF Analysis!Measured, MeasuredBy
<1>5. Analysis!Measured(R, Analysis!Cache) = MeasuredBy(R, "cache")
  BY <1>1 DEF Analysis!Measured, MeasuredBy
<1>6. Analysis!Measured(R, Analysis!Rate) = MeasuredBy(R, "rate")
  BY <1>1 DEF Analysis!Measured, MeasuredBy
<1> QED BY <1>2, <1>3, <1>4, <1>5, <1>6

\* A summary that was returned is that of whole records, each counted once.
LEMMA AnalysisFacts ==
  ASSUME Analysis!HistoryAssumption, HistoryInv
  PROVE  Analysis!AnalysisIsPrefix
<1> SUFFICES ASSUME reader.at = "done"
             PROVE  Analysis!AnalysisIsPrefix
  BY DEF Analysis!AnalysisIsPrefix
<1> DEFINE tokens == files[reader.file]
           R == Analysis!RecordsOf(tokens, reader.ends)
           s == reader.summary
<1>1. /\ Lines(tokens, reader.ends, reader.line, present) /\ Ended(reader.ends, reader.line)
      /\ Summarized(R, reader.line, reader.schema, s)
      /\ present <= reader.line /\ s.records # 0 /\ reader.line \in Nat
  BY DEF HistoryInv, ReaderInv, ScanInv, PresentInv
<1> HIDE DEF tokens, R, s
<1>2. R # {}
  BY <1>1, FS_EmptySet DEF Summarized
<1>3. /\ reader.line \in reader.ends /\ reader.ends \subseteq 0..reader.line
      /\ \A i \in 1..reader.line : Analysis!EndsLine(tokens[i]) => i \in reader.ends
      /\ \A i \in reader.ends \ {0} : Analysis!EndsLine(tokens[i]) \/ present <= i
  BY <1>1 DEF Ended, Lines
<1>4. \A r \in R : r[2] # None
  BY <1>1, RecFacts DEF Summarized
<1>5. Analysis!Cardinality({r[2].schema : r \in R}) = 1
  <2>1. {r[2].schema : r \in R} = {reader.schema}
    BY <1>1, <1>2 DEF Summarized
  <2> QED BY <2>1, FS_Singleton, SameCount
<1>6. s.records = Analysis!Cardinality(R)
  BY <1>1, SameCount DEF Summarized
<1>7. /\ {s.first, s.last} \subseteq {r[2].at : r \in R}
      /\ \A r \in R : s.first <= r[2].at /\ r[2].at <= s.last
  BY <1>1, <1>2 DEF Summarized
<1>8. \A kind \in Kinds : s[kind] = Analysis!PeakOf(MeasuredBy(R, kind))
  BY <1>1, PeakIs DEF Summarized
<1>9. /\ s.used = Analysis!PeakOf(Analysis!Measured(R, Analysis!Used))
      /\ s.util = Analysis!PeakOf(Analysis!Measured(R, Analysis!Util))
      /\ s.waiting = Analysis!PeakOf(Analysis!Measured(R, Analysis!Waiting))
      /\ s.rate = Analysis!PeakOf(Analysis!Measured(R, Analysis!Rate))
      /\ s.cache = Analysis!PeakOf(Analysis!Measured(R, Analysis!Cache))
  <2>1. /\ s.used = Analysis!PeakOf(MeasuredBy(R, "used"))
        /\ s.util = Analysis!PeakOf(MeasuredBy(R, "util"))
        /\ s.waiting = Analysis!PeakOf(MeasuredBy(R, "waiting"))
        /\ s.rate = Analysis!PeakOf(MeasuredBy(R, "rate"))
        /\ s.cache = Analysis!PeakOf(MeasuredBy(R, "cache"))
    BY <1>8 DEF Kinds
  <2> QED BY <2>1, MeasuredIs
<1>10. s.critical = Analysis!Cardinality({r \in R : r[2].status = "critical"})
  BY <1>1, SameCount DEF Summarized, Criticals
<1>11. s.critical <= s.records /\ s.warning <= s.records
  <2>1. IsFiniteSet(R) /\ s.records = Cardinality(R) /\ s.warning \in 0..s.records
        /\ s.critical = Cardinality(Criticals(R)) /\ Criticals(R) \subseteq R
    BY <1>1 DEF Summarized, Criticals
  <2> QED BY <2>1, FS_Subset
<1> QED BY <1>1, <1>3, <1>4, <1>5, <1>6, <1>7, <1>9, <1>10, <1>11
        DEF Analysis!AnalysisIsPrefix, tokens, R, s

\* History.AnalysisIsPrefix for any monitors, records and histories found
\* (operations/history.rs): whatever is appended, torn or rotated meanwhile,
\* an analysis that returns speaks of whole, sound records, each counted once.
THEOREM AnalysisAlwaysIsPrefix ==
  ASSUME Analysis!HistoryAssumption
  PROVE  Analysis!Spec => []Analysis!AnalysisIsPrefix
<1>1. Analysis!Init => HistoryInv
  BY HistoryInitially
<1>2. HistoryInv /\ [Analysis!Next]_(Analysis!vars) => HistoryInv'
  BY HistoryStep
<1>3. HistoryInv => Analysis!AnalysisIsPrefix
  BY AnalysisFacts
<1> QED BY <1>1, <1>2, <1>3, PTL DEF Analysis!Spec
=============================================================================
