------------------------ MODULE HashChainStoreProofs ------------------------
(***************************************************************************)
(* For any payloads, any number of records, crashes and alterations: the   *)
(* store continues the chain that is on file, a recovery loses nothing a   *)
(* flush covered, and the timeline implements an append-only log.          *)
(***************************************************************************)
EXTENDS HashChainStore, SequenceTheorems, FiniteSetTheorems, WellFoundedInduction, TLAPS

USE DEF tails, copies

-----------------------------------------------------------------------------
\* Sequences of any elements

IsSeq(t) == Len(t) \in Nat /\ t = [i \in 1..Len(t) |-> t[i]]

ElementsOf(t) == {t[i] : i \in 1..Len(t)}

\* Such a sequence is one over the set of its elements.
LEMMA SeqOverElements ==
  ASSUME NEW t, IsSeq(t), NEW S, ElementsOf(t) \subseteq S
  PROVE  t \in Seq(S) /\ DOMAIN t = 1..Len(t)
<1>1. \A i \in 1..Len(t) : t[i] \in S
  BY DEF ElementsOf
<1>2. t \in [1..Len(t) -> S] /\ DOMAIN t = 1..Len(t)
  BY <1>1 DEF IsSeq
<1> QED
  BY <1>2 DEF IsSeq

\* A sequence over any set is one.
LEMMA SeqIsSeq ==
  ASSUME NEW S, NEW t \in Seq(S)
  PROVE  IsSeq(t)
BY LenProperties DEF IsSeq

\* A function on the first n numbers is one.
LEMMA FunctionIsSeq ==
  ASSUME NEW n \in Nat, NEW t, t = [i \in 1..n |-> t[i]]
  PROVE  IsSeq(t) /\ Len(t) = n
<1>1. PICK S : \A i \in 1..n : t[i] \in S
  <2>1. \A i \in 1..n : t[i] \in {t[j] : j \in 1..n}
    OBVIOUS
  <2> QED
    BY <2>1
<1>2. t \in [1..n -> S]
  BY <1>1
<1>3. t \in Seq(S) /\ Len(t) = n
  BY <1>2
<1> QED
  BY <1>3, SeqIsSeq

\* Two sequences put together.
Joins(w, t, u) ==
  /\ IsSeq(w)
  /\ Len(w) = Len(t) + Len(u)
  /\ \A i \in 1..Len(t) : w[i] = t[i]
  /\ \A i \in 1..Len(u) : w[Len(t) + i] = u[i]

\* Two sequences, one after the other.
LEMMA Concatenated ==
  ASSUME NEW t, IsSeq(t), NEW u, IsSeq(u)
  PROVE  Joins(t \o u, t, u)
<1> DEFINE S == ElementsOf(t) \cup ElementsOf(u)
<1>1. t \in Seq(S) /\ u \in Seq(S)
  BY SeqOverElements
<1> HIDE DEF S
<1>2. Len(t) \in Nat /\ Len(u) \in Nat
  BY DEF IsSeq
<1>3. /\ t \o u \in Seq(S)
      /\ Len(t \o u) = Len(t) + Len(u)
      /\ \A i \in 1..Len(t) + Len(u) : (t \o u)[i] = IF i <= Len(t) THEN t[i] ELSE u[i - Len(t)]
  BY <1>1, ConcatProperties
<1>4. \A i \in 1..Len(t) : (t \o u)[i] = t[i]
  BY <1>2, <1>3
<1>5. ASSUME NEW i \in 1..Len(u) PROVE (t \o u)[Len(t) + i] = u[i]
  BY <1>2, <1>3
<1>6. IsSeq(t \o u)
  BY <1>3, SeqIsSeq
<1> QED
  BY <1>3, <1>4, <1>5, <1>6 DEF Joins

\* A part of a sequence.
LEMMA Part ==
  ASSUME NEW t, IsSeq(t), NEW m \in Nat \ {0}, NEW n \in Nat, n <= Len(t)
  PROVE  /\ IsSeq(SubSeq(t, m, n))
         /\ Len(SubSeq(t, m, n)) = IF m <= n THEN n - m + 1 ELSE 0
         /\ \A i \in 1..(n - m + 1) : SubSeq(t, m, n)[i] = t[m + i - 1]
<1>1. \A i \in m..n : t[i] \in ElementsOf(t)
  BY DEF ElementsOf, IsSeq
<1>2. m \in Int /\ n \in Int
  OBVIOUS
<1>3. /\ SubSeq(t, m, n) \in Seq(ElementsOf(t))
      /\ Len(SubSeq(t, m, n)) = IF m <= n THEN n - m + 1 ELSE 0
      /\ \A i \in 1..(n - m + 1) : SubSeq(t, m, n)[i] = t[m + i - 1]
  BY <1>1, <1>2, SubSeqProperties
<1> QED
  BY <1>3, SeqIsSeq

\* The first n elements of a sequence.
LEMMA Prefix ==
  ASSUME NEW t, IsSeq(t), NEW n \in Nat, n <= Len(t)
  PROVE  /\ IsSeq(SubSeq(t, 1, n))
         /\ Len(SubSeq(t, 1, n)) = n
         /\ \A i \in 1..n : SubSeq(t, 1, n)[i] = t[i]
<1>1. /\ IsSeq(SubSeq(t, 1, n))
      /\ Len(SubSeq(t, 1, n)) = IF 1 <= n THEN n - 1 + 1 ELSE 0
      /\ \A i \in 1..(n - 1 + 1) : SubSeq(t, 1, n)[i] = t[1 + i - 1]
  BY Part
<1> QED
  BY <1>1

\* Sequences that agree everywhere are equal.
LEMMA SameSeq ==
  ASSUME NEW t, IsSeq(t), NEW u, IsSeq(u), Len(t) = Len(u), \A i \in 1..Len(t) : t[i] = u[i]
  PROVE  t = u
BY DEF IsSeq

\* Parts put together again.
LEMMA JoinedAgain ==
  ASSUME NEW t, IsSeq(t), NEW b, IsSeq(b)
  PROVE  /\ t \o <<>> = t
         /\ \A c : IsSeq(c) => (t \o b) \o c = t \o (b \o c)
         /\ \A k \in 0..Len(b) :
              /\ IsSeq(SubSeq(b, 1, k)) /\ IsSeq(SubSeq(b, k + 1, Len(b)))
              /\ (t \o SubSeq(b, 1, k)) \o SubSeq(b, k + 1, Len(b)) = t \o b
<1>1. t \o <<>> = t
  BY SeqOverElements, ConcatEmptySeq
<1>2. ASSUME NEW c, IsSeq(c) PROVE (t \o b) \o c = t \o (b \o c)
  <2> DEFINE S == ElementsOf(t) \cup ElementsOf(b) \cup ElementsOf(c)
  <2>1. t \in Seq(S) /\ b \in Seq(S) /\ c \in Seq(S)
    BY <1>2, SeqOverElements
  <2> HIDE DEF S
  <2> QED
    BY <2>1, ConcatAssociative
<1>3. ASSUME NEW k \in 0..Len(b)
      PROVE  /\ IsSeq(SubSeq(b, 1, k)) /\ IsSeq(SubSeq(b, k + 1, Len(b)))
             /\ (t \o SubSeq(b, 1, k)) \o SubSeq(b, k + 1, Len(b)) = t \o b
  <2>0. Len(b) \in Nat /\ k \in Nat /\ k + 1 \in Nat \ {0} /\ k <= Len(b)
    BY DEF IsSeq
  <2>1. IsSeq(SubSeq(b, 1, k)) /\ IsSeq(SubSeq(b, k + 1, Len(b)))
    BY <2>0, Part
  <2>2. PICK c, d : c = SubSeq(b, 1, k) /\ d = SubSeq(b, k + 1, Len(b))
    OBVIOUS
  <2>3. c \o d = b
    <3> DEFINE S == ElementsOf(b)
    <3>1. b \in Seq(S)
      BY SeqOverElements
    <3> HIDE DEF S
    <3>2. SubSeq(b, 1, k) \o SubSeq(b, k + 1, Len(b)) = SubSeq(b, 1, Len(b))
      <4>1. 1 \in 1..Len(b) + 1 /\ k \in 1 - 1..Len(b) /\ Len(b) \in k..Len(b)
        BY <2>0
      <4> QED
        BY <3>1, <4>1, ConcatAdjacentSubSeq
    <3>3. SubSeq(b, 1, Len(b)) = b
      BY <3>1, SubSeqFull
    <3> QED
      BY <2>2, <3>2, <3>3
  <2>4. (t \o c) \o d = t \o (c \o d)
    <3> DEFINE S == ElementsOf(t) \cup ElementsOf(c) \cup ElementsOf(d)
    <3>1. t \in Seq(S) /\ c \in Seq(S) /\ d \in Seq(S)
      BY <2>1, <2>2, SeqOverElements
    <3> HIDE DEF S
    <3> QED
      BY <3>1, ConcatAssociative
  <2> QED
    BY <2>1, <2>2, <2>3, <2>4
<1> QED
  BY <1>1, <1>2, <1>3

\* The empty sequence, and the two tokens of a line.
LEMMA ShortSeqs ==
  /\ IsSeq(<<>>) /\ Len(<<>>) = 0
  /\ \A t : IsSeq(t) /\ Len(t) = 0 => t = <<>>
  /\ \A a, b : IsSeq(<<a, b>>) /\ Len(<<a, b>>) = 2 /\ <<a, b>>[1] = a /\ <<a, b>>[2] = b
<1>1. IsSeq(<<>>) /\ Len(<<>>) = 0
  BY EmptySeq, SeqIsSeq
<1>2. ASSUME NEW t, IsSeq(t), Len(t) = 0 PROVE t = <<>>
  BY <1>1, <1>2, SameSeq
<1>3. ASSUME NEW a, NEW b PROVE IsSeq(<<a, b>>) /\ Len(<<a, b>>) = 2 /\ <<a, b>>[1] = a /\ <<a, b>>[2] = b
  <2>1. <<a, b>> \in Seq({a, b})
    OBVIOUS
  <2> QED
    BY <2>1, SeqIsSeq
<1> QED
  BY <1>1, <1>2, <1>3

\* Every non-empty set of numbers has a least one.
LEMMA Least ==
  ASSUME NEW T \in SUBSET Nat, T # {}
  PROVE  \E x \in T : \A y \in T : x <= y
<1> DEFINE Less == {s \in Nat \X Nat : s[1] < s[2]}
<1>1. IsWellFoundedOn(Less, Nat)
  BY NatLessThanWellFounded, Zenon DEF OpToRel
<1>2. PICK x \in T : \A y \in T : <<y, x>> \notin Less
  <2> HIDE DEF Less
  <2> QED BY <1>1, WFMin
<1>3. ASSUME NEW y \in T PROVE x <= y
  <2>1. <<y, x>> \notin Less /\ x \in Nat /\ y \in Nat /\ <<y, x>> \in Nat \X Nat
    BY <1>2
  <2>2. ~(<<y, x>>[1] < <<y, x>>[2])
    BY <2>1
  <2> QED
    BY <2>1, <2>2
<1> QED
  BY <1>3

\* Every position of a file is the first or the second of a line.
LEMMA Positions ==
  ASSUME NEW i \in Nat \ {0}
  PROVE  \E n \in Nat : i = 2 * n + 1 \/ i = 2 * n + 2
<1>1. (i - 1) \div 2 \in Nat
  OBVIOUS
<1>2. i = 2 * ((i - 1) \div 2) + 1 \/ i = 2 * ((i - 1) \div 2) + 2
  OBVIOUS
<1> QED
  BY <1>1, <1>2

-----------------------------------------------------------------------------
\* The inductive invariant

\* A record of the model's kind, and one of the two tokens of its line.
IsRecord(r) ==
  r = [sequence |-> r.sequence, previous_hash |-> r.previous_hash, payload |-> r.payload,
       record_hash |-> r.record_hash]

IsToken(x, part) == x = <<x[1], part>> /\ IsRecord(x[1])

\* Starts and ends of lines alternate, whatever was torn, cut or altered.
IsTokens(t) ==
  \A n \in 0..Len(t) :
    /\ 2 * n + 1 <= Len(t) => IsToken(t[2 * n + 1], "start")
    /\ 2 * n + 2 <= Len(t) => IsToken(t[2 * n + 2], "end")

HashAt(t, n) == IF n = 0 THEN ZeroHash ELSE t[2 * n][1].record_hash

\* Valid lines, and at most the start of one more.
Clean(t) == Len(t) <= 2 * ValidRecords(t) + 1

\* What is on file and what is still in the buffer.
Written == file \o buffer

Typed ==
  /\ IsSeq(file) /\ IsSeq(buffer)
  /\ synced \in Nat /\ sequence \in Nat /\ acked \in Nat /\ corruptions \in Nat
  /\ synced <= Len(file)
  /\ store \in {"closed", "quarantining", "finding", "open", "refused"}
  /\ writable \in BOOLEAN
  /\ unflushed \in Payloads \cup {Finding, NoPayload}

\* While the store is open the chain it continues is the one written; only
\* after a failed append the start of a line may follow it.
OpenInv ==
  store \in {"finding", "open"} =>
    /\ IsChain(Written, sequence)
    /\ previous_hash = HashAt(Written, sequence)
    /\ Len(Written) <= 2 * sequence + 1
    /\ writable => Len(Written) = 2 * sequence
    /\ store = "finding" => writable

\* Nothing is in the buffer of a store that is not open, and a flush is
\* awaited only while the daemon writes.
ClosedInv ==
  /\ store \in {"closed", "quarantining", "refused"} => buffer = <<>> /\ unflushed = NoPayload
  /\ unflushed # NoPayload => writable

QuarantineInv == store = "quarantining" => Rest(file) \in quarantined /\ ~Corrupt(file)

AckedInv == IsChain(file, acked) /\ 2 * acked <= synced

StoreInv ==
  /\ Typed
  /\ IsTokens(Written)
  /\ OpenInv
  /\ ClosedInv
  /\ QuarantineInv
  /\ corruptions = 0 => Clean(Written)
  /\ AckedInv

-----------------------------------------------------------------------------
\* Reading a file back

\* A part of a chain is a chain, also in a file that goes on differently.
LEMMA ChainPart ==
  ASSUME NEW t, NEW u, NEW n \in Nat, NEW m \in Nat, m <= n, IsChain(t, n),
         2 * m <= Len(u), \A i \in 1..(2 * m) : u[i] = t[i]
  PROVE  IsChain(u, m)
<1> SUFFICES ASSUME NEW i \in 1..m
             PROVE  LET r == u[2 * i][1]
                    IN /\ u[2 * i - 1] = <<r, "start">>
                       /\ u[2 * i] = <<r, "end">>
                       /\ ValidLine(r, i, IF i = 1 THEN ZeroHash ELSE u[2 * i - 2][1].record_hash)
  BY DEF IsChain
<1>1. i \in 1..n /\ 2 * i \in 1..(2 * m) /\ 2 * i - 1 \in 1..(2 * m)
      /\ (i # 1 => 2 * i - 2 \in 1..(2 * m))
  OBVIOUS
<1>2. u[2 * i] = t[2 * i] /\ u[2 * i - 1] = t[2 * i - 1] /\ (i # 1 => u[2 * i - 2] = t[2 * i - 2])
  BY <1>1
<1> QED
  BY <1>1, <1>2 DEF IsChain

\* ValidRecords is the length of the longest chain a file begins with.
LEMMA ValidRecordsFacts ==
  ASSUME NEW t, IsSeq(t)
  PROVE  /\ ValidRecords(t) \in Nat
         /\ IsChain(t, ValidRecords(t))
         /\ \A n \in Nat : IsChain(t, n) => n <= ValidRecords(t)
<1>0. Len(t) \in Nat
  BY DEF IsSeq
<1> DEFINE M == Len(t) \div 2
           T == {k \in Nat : k <= M /\ IsChain(t, M - k)}
<1>1. M \in Nat /\ 2 * M <= Len(t) /\ Len(t) <= 2 * M + 1
  BY <1>0
<1>2. \A n \in Nat : IsChain(t, n) => n \in 0..M
  BY <1>0, <1>1 DEF IsChain
<1>3. IsChain(t, 0)
  BY <1>0 DEF IsChain
<1>4. PICK k \in T : \A j \in T : k <= j
  <2>1. M - M = 0
    BY <1>1
  <2>2. M \in T
    BY <1>1, <1>3, <2>1
  <2> QED
    BY <2>2, Least
<1>5. /\ M - k \in 0..M /\ IsChain(t, M - k)
      /\ \A m \in 0..M : IsChain(t, m) => m <= M - k
  <2>1. M - k \in 0..M /\ IsChain(t, M - k)
    BY <1>1, <1>4
  <2>2. ASSUME NEW m \in 0..M, IsChain(t, m) PROVE m <= M - k
    <3>1. M - m \in Nat /\ M - m <= M /\ M - (M - m) = m
      BY <1>1
    <3>2. M - m \in T
      BY <2>2, <3>1
    <3>3. k <= M - m /\ k \in Nat
      BY <1>4, <3>2
    <3> QED
      BY <1>1, <3>3
  <2> QED
    BY <2>1, <2>2
<1>6. /\ ValidRecords(t) \in 0..M
      /\ IsChain(t, ValidRecords(t))
      /\ \A m \in 0..M : IsChain(t, m) => m <= ValidRecords(t)
  <2>1. \E n \in 0..M : IsChain(t, n) /\ \A m \in 0..M : IsChain(t, m) => m <= n
    BY <1>5
  <2> QED
    BY <2>1 DEF ValidRecords
<1> QED
  BY <1>1, <1>2, <1>6

\* A chain that cannot be one record longer is the longest.
LEMMA ValidRecordsIs ==
  ASSUME NEW t, IsSeq(t), NEW n \in Nat, IsChain(t, n), ~IsChain(t, n + 1)
  PROVE  ValidRecords(t) = n
<1>1. /\ ValidRecords(t) \in Nat
      /\ IsChain(t, ValidRecords(t))
      /\ n <= ValidRecords(t)
  BY ValidRecordsFacts
<1>2. CASE n + 1 <= ValidRecords(t)
  <2>1. Len(t) \in Nat /\ 2 * ValidRecords(t) <= Len(t)
    BY <1>1 DEF IsChain, IsSeq
  <2>2. 2 * (n + 1) <= Len(t)
    BY <1>1, <1>2, <2>1
  <2>3. IsChain(t, n + 1)
    BY <1>1, <1>2, <2>2, ChainPart
  <2> QED
    BY <2>3
<1> QED
  BY <1>1, <1>2

\* A file that ends with its chain, or with a start of a line after it.
LEMMA ChainToTheEnd ==
  ASSUME NEW t, IsSeq(t), NEW n \in Nat, IsChain(t, n), Len(t) <= 2 * n + 1
  PROVE  ValidRecords(t) = n
<1>1. ~IsChain(t, n + 1)
  BY DEF IsChain, IsSeq
<1> QED
  BY <1>1, ValidRecordsIs

\* One file is the beginning of another.
Begins(u, t) == IsSeq(u) /\ Len(u) <= Len(t) /\ \A i \in 1..Len(u) : u[i] = t[i]

\* The beginning of a file is made of tokens, has the same valid records as
\* far as it goes, and is clean when the file is.
LEMMA BeginningFacts ==
  ASSUME NEW t, IsSeq(t), NEW u, Begins(u, t)
  PROVE  /\ IsTokens(t) => IsTokens(u)
         /\ \A n \in Nat : IsChain(t, n) /\ 2 * n <= Len(u) => IsChain(u, n)
         /\ \A n \in Nat : IsChain(u, n) => IsChain(t, n)
         /\ ValidRecords(u) <= ValidRecords(t)
         /\ Clean(t) => Clean(u)
<1>0. Len(t) \in Nat /\ Len(u) \in Nat /\ IsSeq(u) /\ Len(u) <= Len(t)
      /\ \A i \in 1..Len(u) : u[i] = t[i]
  BY DEF Begins, IsSeq
<1>1. ASSUME IsTokens(t) PROVE IsTokens(u)
  <2>1. ASSUME NEW n \in 0..Len(u)
        PROVE  /\ 2 * n + 1 <= Len(u) => IsToken(u[2 * n + 1], "start")
               /\ 2 * n + 2 <= Len(u) => IsToken(u[2 * n + 2], "end")
    <3>1. n \in 0..Len(t)
      BY <1>0
    <3>2. ASSUME 2 * n + 1 <= Len(u) PROVE IsToken(u[2 * n + 1], "start")
      <4>1. u[2 * n + 1] = t[2 * n + 1] /\ 2 * n + 1 <= Len(t)
        BY <1>0, <3>2
      <4> QED
        BY <1>1, <3>1, <4>1 DEF IsTokens
    <3>3. ASSUME 2 * n + 2 <= Len(u) PROVE IsToken(u[2 * n + 2], "end")
      <4>1. u[2 * n + 2] = t[2 * n + 2] /\ 2 * n + 2 <= Len(t)
        BY <1>0, <3>3
      <4> QED
        BY <1>1, <3>1, <4>1 DEF IsTokens
    <3> QED
      BY <3>2, <3>3
  <2> QED
    BY <2>1 DEF IsTokens
<1>2. ASSUME NEW n \in Nat, IsChain(t, n), 2 * n <= Len(u) PROVE IsChain(u, n)
  <2>1. \A i \in 1..(2 * n) : u[i] = t[i]
    BY <1>0, <1>2
  <2> QED
    BY <1>2, <2>1, ChainPart
<1>3. ASSUME NEW n \in Nat, IsChain(u, n) PROVE IsChain(t, n)
  <2>1. 2 * n <= Len(u)
    BY <1>3 DEF IsChain
  <2>2. 2 * n <= Len(t) /\ \A i \in 1..(2 * n) : t[i] = u[i]
    BY <1>0, <2>1
  <2> QED
    BY <1>3, <2>2, ChainPart
<1>4. /\ ValidRecords(t) \in Nat /\ IsChain(t, ValidRecords(t))
      /\ \A n \in Nat : IsChain(t, n) => n <= ValidRecords(t)
  BY ValidRecordsFacts
<1>5. ValidRecords(u) \in Nat /\ IsChain(u, ValidRecords(u))
      /\ \A n \in Nat : IsChain(u, n) => n <= ValidRecords(u)
  BY <1>0, ValidRecordsFacts
<1>6. ValidRecords(u) <= ValidRecords(t)
  BY <1>3, <1>4, <1>5
<1>7. ASSUME Clean(t) PROVE Clean(u)
  <2>1. CASE 2 * ValidRecords(t) <= Len(u)
    <3>1. ValidRecords(t) <= ValidRecords(u)
      BY <1>2, <1>4, <1>5, <2>1
    <3> QED
      BY <1>0, <1>4, <1>5, <1>7, <3>1 DEF Clean
  <2>2. CASE Len(u) < 2 * ValidRecords(t)
    <3> DEFINE m == Len(u) \div 2
    <3>1. m \in Nat /\ 2 * m <= Len(u) /\ Len(u) <= 2 * m + 1
      BY <1>0
    <3> HIDE DEF m
    <3>2. m <= ValidRecords(t) /\ 2 * m <= Len(t)
      BY <1>0, <1>4, <2>2, <3>1
    <3>3. IsChain(t, m)
      BY <1>4, <3>1, <3>2, ChainPart
    <3>4. m <= ValidRecords(u)
      BY <1>2, <1>5, <3>1, <3>3
    <3> QED
      BY <1>0, <1>5, <3>1, <3>4 DEF Clean
  <2> QED
    BY <1>0, <1>4, <2>1, <2>2
<1> QED
  BY <1>1, <1>2, <1>3, <1>6, <1>7

\* A chain that fits into the beginning of a file is in it.
LEMMA BeginningChain ==
  ASSUME NEW t, IsSeq(t), NEW u, Begins(u, t), NEW n \in Nat, IsChain(t, n), 2 * n <= Len(u)
  PROVE  IsChain(u, n)
<1>1. \A m \in Nat : IsChain(t, m) /\ 2 * m <= Len(u) => IsChain(u, m)
  BY BeginningFacts, Zenon
<1> QED
  BY <1>1

\* What follows the valid records, and when it is taken for corruption.
LEMMA RestFacts ==
  ASSUME NEW t, IsSeq(t), IsTokens(t)
  PROVE  /\ Rest(t) = <<>> <=> Len(t) = 2 * ValidRecords(t)
         /\ Corrupt(t) <=> Len(t) >= 2 * ValidRecords(t) + 3
<1> DEFINE v == ValidRecords(t)
           rest == Rest(t)
<1>0. Len(t) \in Nat /\ v \in Nat /\ 2 * v <= Len(t)
  BY ValidRecordsFacts DEF IsChain, IsSeq
<1> SUFFICES /\ rest = <<>> <=> Len(t) = 2 * v
             /\ Corrupt(t) <=> Len(t) >= 2 * v + 3
  OBVIOUS
<1> HIDE DEF v
<1>1. /\ IsSeq(rest) /\ Len(rest) = Len(t) - 2 * v
      /\ \A i \in 1..Len(rest) : rest[i] = t[2 * v + i]
  <2>1. 2 * v + 1 \in Nat \ {0} /\ Len(t) <= Len(t)
    BY <1>0
  <2>2. /\ IsSeq(rest)
        /\ Len(rest) = IF 2 * v + 1 <= Len(t) THEN Len(t) - (2 * v + 1) + 1 ELSE 0
        /\ \A i \in 1..(Len(t) - (2 * v + 1) + 1) : rest[i] = t[(2 * v + 1) + i - 1]
    BY <1>0, <2>1, Part DEF Rest, v
  <2>3. Len(rest) = Len(t) - 2 * v
    <3> HIDE DEF rest
    <3>1. Len(rest) = IF 2 * v + 1 <= Len(t) THEN Len(t) - (2 * v + 1) + 1 ELSE 0
      BY <2>2
    <3>2. \A a, b \in Nat : 2 * b <= a => (IF 2 * b + 1 <= a THEN a - (2 * b + 1) + 1 ELSE 0) = a - 2 * b
      OBVIOUS
    <3> QED
      BY <1>0, <3>1, <3>2, Zenon
  <2>4. ASSUME NEW i \in 1..Len(rest) PROVE rest[i] = t[2 * v + i]
    <3>1. i \in 1..(Len(t) - (2 * v + 1) + 1) /\ (2 * v + 1) + i - 1 = 2 * v + i
      BY <1>0, <2>3
    <3> QED
      BY <2>2, <3>1
  <2> QED
    BY <2>2, <2>3, <2>4
<1> HIDE DEF rest
<1>2. DOMAIN rest = 1..Len(rest) /\ Len(rest) \in Nat
  BY <1>1 DEF IsSeq
<1>3. \A n \in Nat : 2 * n + 1 <= Len(rest) => rest[2 * n + 1][2] = "start"
  <2> SUFFICES ASSUME NEW n \in Nat, 2 * n + 1 <= Len(rest) PROVE rest[2 * n + 1][2] = "start"
    OBVIOUS
  <2>1. rest[2 * n + 1] = t[2 * (v + n) + 1] /\ 2 * (v + n) + 1 <= Len(t) /\ v + n \in 0..Len(t)
    BY <1>0, <1>1, <1>2
  <2> QED
    BY <2>1 DEF IsTokens, IsToken
<1>4. \A n \in Nat : 2 * n + 2 <= Len(rest) => rest[2 * n + 2][2] = "end"
  <2> SUFFICES ASSUME NEW n \in Nat, 2 * n + 2 <= Len(rest) PROVE rest[2 * n + 2][2] = "end"
    OBVIOUS
  <2>1. rest[2 * n + 2] = t[2 * (v + n) + 2] /\ 2 * (v + n) + 2 <= Len(t) /\ v + n \in 0..Len(t)
    BY <1>0, <1>1, <1>2
  <2> QED
    BY <2>1 DEF IsTokens, IsToken
<1>5. (rest = <<>>) <=> (Len(rest) = 0)
  BY <1>1, ShortSeqs
<1>6. /\ 1 <= Len(rest) => rest[1][2] = "start"
      /\ 2 <= Len(rest) => rest[2][2] = "end"
      /\ 3 <= Len(rest) => rest[3][2] = "start"
      /\ 4 <= Len(rest) => rest[4][2] = "end"
  <2>1. 2 * 0 + 1 = 1 /\ 2 * 0 + 2 = 2 /\ 2 * 1 + 1 = 3 /\ 2 * 1 + 2 = 4
    OBVIOUS
  <2> QED
    BY <1>3, <1>4, <2>1
<1>7. Newlines(rest) \subseteq 1..Len(rest) /\ IsFiniteSet(Newlines(rest))
  <2>1. Newlines(rest) \subseteq 1..Len(rest)
    BY <1>2 DEF Newlines
  <2>2. IsFiniteSet(1..Len(rest))
    BY <1>2, FS_Interval
  <2> QED
    BY <2>1, <2>2, FS_Subset
<1>12. Len(t) = 2 * v + Len(rest)
  <2>1. \A a, b, c \in Nat : c = a - 2 * b => a = 2 * b + c
    OBVIOUS
  <2> QED
    BY <1>0, <1>1, <1>2, <2>1
<1>8. CASE Len(rest) <= 1
  <2>1. Newlines(rest) = {}
    BY <1>2, <1>6, <1>8 DEF Newlines
  <2>2. Cardinality({}) = 0
    BY FS_EmptySet
  <2>3. ~Corrupt(t)
    BY <2>1, <2>2 DEF Corrupt, rest
  <2> QED
    BY <1>0, <1>1, <1>2, <1>5, <1>8, <2>3, <1>12
<1>9. CASE Len(rest) = 2
  <2>1. Newlines(rest) = {2}
    BY <1>2, <1>6, <1>9 DEF Newlines
  <2>2. Cardinality({2}) = 1
    BY FS_Singleton
  <2>3. ~(Cardinality(Newlines(rest)) > 1) /\ Len(rest) \in Newlines(rest)
    BY <2>1, <2>2, <1>9
  <2>4. ~Corrupt(t)
    BY <2>3 DEF Corrupt, rest
  <2> QED
    BY <1>0, <1>1, <1>2, <1>5, <1>9, <2>4, <1>12
<1>10. CASE Len(rest) = 3
  <2>1. 2 \in Newlines(rest) /\ 3 \notin Newlines(rest)
    BY <1>2, <1>6, <1>10 DEF Newlines
  <2>2. Corrupt(t)
    BY <1>10, <2>1 DEF Corrupt, rest
  <2> QED
    BY <1>0, <1>1, <1>2, <1>5, <1>10, <2>2, <1>12
<1>11. CASE Len(rest) >= 4
  <2>1. {2, 4} \subseteq Newlines(rest)
    BY <1>2, <1>6, <1>11 DEF Newlines
  <2>2. Cardinality({2, 4}) = 2
    <3>1. IsFiniteSet({2}) /\ Cardinality({2}) = 1 /\ 4 \notin {2} /\ {2, 4} = {2} \cup {4}
      BY FS_Singleton
    <3> QED
      BY <3>1, FS_AddElement
  <2>3. Cardinality(Newlines(rest)) \in Nat /\ Cardinality(Newlines(rest)) >= 2
    BY <1>7, <2>1, <2>2, FS_Subset, FS_CardinalityType
  <2>4. Corrupt(t)
    BY <2>3 DEF Corrupt, rest
  <2> QED
    BY <1>0, <1>1, <1>2, <1>5, <1>11, <2>4, <1>12
<1> QED
  BY <1>2, <1>8, <1>9, <1>10, <1>11

\* A line put after any file.
AddsLine(u, t, r) ==
  /\ IsSeq(u) /\ Len(u) = Len(t) + 2
  /\ \A i \in 1..Len(t) : u[i] = t[i]
  /\ u[Len(t) + 1] = <<r, "start">>
  /\ u[Len(t) + 2] = <<r, "end">>

\* A line written at the end of a file.
LEMMA LineAfter ==
  ASSUME NEW t, IsSeq(t), NEW r, NEW u, u = t \o Line(r)
  PROVE  AddsLine(u, t, r)
<1>1. PICK b : b = Line(r)
  OBVIOUS
<1>2. IsSeq(b) /\ Len(b) = 2 /\ b[1] = <<r, "start">> /\ b[2] = <<r, "end">>
  BY <1>1, ShortSeqs DEF Line
<1>3. Joins(u, t, b)
  BY <1>1, <1>2, Concatenated, Zenon
<1>4. 1 \in 1..Len(b) /\ 2 \in 1..Len(b)
  BY <1>2
<1>5. u[Len(t) + 1] = b[1] /\ u[Len(t) + 2] = b[2]
  BY <1>3, <1>4 DEF Joins
<1> QED
  BY <1>1, <1>2, <1>3, <1>5 DEF Joins, AddsLine

\* A line added to a file that ends with its chain continues the chain.
Continues(u, t, n, r) ==
  /\ IsSeq(Line(r)) /\ Len(Line(r)) = 2
  /\ IsSeq(u) /\ IsTokens(u) /\ Len(u) = 2 * n + 2
  /\ IsChain(u, n + 1)
  /\ HashAt(u, n + 1) = r.record_hash
  /\ u[2 * n + 2] = <<r, "end">>
  /\ \A i \in 1..(2 * n) : u[i] = t[i]

\* A record's line continues the chain it was computed for.
LEMMA LineAdded ==
  ASSUME NEW t, IsSeq(t), IsTokens(t), NEW n \in Nat, IsChain(t, n), Len(t) = 2 * n,
         NEW p, NEW r, r = ChainRecord(n + 1, HashAt(t, n), p), NEW u, AddsLine(u, t, r)
  PROVE  Continues(u, t, n, r) /\ r.payload = p
<1>1. IsRecord(r) /\ r.sequence = n + 1 /\ r.previous_hash = HashAt(t, n) /\ r.payload = p
      /\ r.record_hash = CalculateHash(n + 1, HashAt(t, n), p)
  BY DEF ChainRecord, IsRecord
<1>2. /\ IsSeq(Line(r)) /\ Len(Line(r)) = 2
      /\ Line(r)[1] = <<r, "start">> /\ Line(r)[2] = <<r, "end">>
  BY ShortSeqs DEF Line
<1>3. /\ IsSeq(u) /\ Len(u) = 2 * n + 2
      /\ \A i \in 1..(2 * n) : u[i] = t[i]
      /\ u[2 * n + 1] = <<r, "start">> /\ u[2 * n + 2] = <<r, "end">>
  BY DEF AddsLine
<1>5. IsTokens(u)
  <2> SUFFICES ASSUME NEW k \in 0..Len(u)
               PROVE  /\ 2 * k + 1 <= Len(u) => IsToken(u[2 * k + 1], "start")
                      /\ 2 * k + 2 <= Len(u) => IsToken(u[2 * k + 2], "end")
    BY DEF IsTokens
  <2>1. CASE k < n
    <3>1. k \in 0..Len(t) /\ u[2 * k + 1] = t[2 * k + 1] /\ u[2 * k + 2] = t[2 * k + 2]
          /\ 2 * k + 1 <= Len(t) /\ 2 * k + 2 <= Len(t)
      BY <1>3, <2>1
    <3> QED
      BY <3>1 DEF IsTokens
  <2>2. CASE k = n
    BY <1>1, <1>3, <2>2 DEF IsToken
  <2>3. CASE k > n
    BY <1>3, <2>3
  <2> QED
    BY <1>3, <2>1, <2>2, <2>3
<1>6. IsChain(u, n + 1)
  <2>1. IsChain(u, n)
    BY <1>3, ChainPart
  <2>2. ASSUME NEW i \in 1..(n + 1)
        PROVE  /\ u[2 * i - 1] = <<u[2 * i][1], "start">>
               /\ u[2 * i] = <<u[2 * i][1], "end">>
               /\ ValidLine(u[2 * i][1], i, IF i = 1 THEN ZeroHash ELSE u[2 * i - 2][1].record_hash)
    <3>1. CASE i \in 1..n
      BY <2>1, <3>1 DEF IsChain
    <3>2. CASE i = n + 1
      <4>1. 2 * i = 2 * n + 2 /\ 2 * i - 1 = 2 * n + 1 /\ 2 * i - 2 = 2 * n /\ (i = 1 <=> n = 0)
        BY <3>2
      <4>2. n # 0 => u[2 * n] = t[2 * n]
        BY <1>3
      <4>3. HashAt(t, n) = IF i = 1 THEN ZeroHash ELSE u[2 * i - 2][1].record_hash
        BY <4>1, <4>2 DEF HashAt
      <4> QED
        BY <1>1, <1>3, <3>2, <4>1, <4>3 DEF ValidLine
    <3> QED
      BY <3>1, <3>2
  <2>3. 2 * (n + 1) <= Len(u)
    BY <1>3
  <2> QED
    BY <2>2, <2>3 DEF IsChain
<1>7. HashAt(u, n + 1) = r.record_hash
  <2>1. 2 * (n + 1) = 2 * n + 2 /\ n + 1 # 0
    OBVIOUS
  <2> QED
    BY <1>3, <2>1 DEF HashAt
<1> QED
  BY <1>1, <1>2, <1>3, <1>5, <1>6, <1>7 DEF Continues

-----------------------------------------------------------------------------
\* What each action does to the invariant

\* What the invariant says about the file and the buffer.
LEMMA WrittenFacts ==
  ASSUME StoreInv
  PROVE  /\ Joins(Written, file, buffer) /\ IsSeq(Written) /\ IsSeq(file) /\ IsSeq(buffer)
         /\ Begins(file, Written) /\ IsTokens(file)
         /\ buffer = <<>> => Written = file
         /\ Len(file) \in Nat /\ Len(buffer) \in Nat /\ Len(Written) = Len(file) + Len(buffer)
<1>1. IsSeq(file) /\ IsSeq(buffer) /\ IsTokens(Written)
  BY DEF StoreInv, Typed
<1>2. Joins(Written, file, buffer)
  BY <1>1, Concatenated DEF Written
<1>3. buffer = <<>> => Written = file
  BY <1>1, JoinedAgain DEF Written
<1>4. Begins(file, Written) /\ IsSeq(Written)
  BY <1>1, <1>2 DEF Joins, Begins, IsSeq
<1>5. IsTokens(file)
  BY <1>1, <1>4, BeginningFacts
<1> QED
  BY <1>1, <1>2, <1>3, <1>4, <1>5 DEF IsSeq, Joins

\* A file the invariant allows, read by a store that is not open.
LEMMA ClosedFacts ==
  ASSUME StoreInv, store \in {"closed", "quarantining", "refused"}
  PROVE  /\ Written = file /\ buffer = <<>> /\ unflushed = NoPayload
         /\ ValidRecords(file) \in Nat /\ IsChain(file, ValidRecords(file))
         /\ LastHash(file) = HashAt(file, ValidRecords(file))
         /\ 2 * ValidRecords(file) <= Len(file)
         /\ acked <= ValidRecords(file)
<1>1. buffer = <<>> /\ unflushed = NoPayload /\ IsSeq(file) /\ Written = file
  BY WrittenFacts DEF StoreInv, ClosedInv
<1>2. /\ ValidRecords(file) \in Nat /\ IsChain(file, ValidRecords(file))
      /\ \A n \in Nat : IsChain(file, n) => n <= ValidRecords(file)
  BY <1>1, ValidRecordsFacts
<1>3. IsChain(file, acked) /\ acked \in Nat
  BY DEF StoreInv, AckedInv, Typed
<1> QED
  BY <1>1, <1>2, <1>3 DEF IsChain, LastHash, HashAt

\* An open that finds a clean timeline.
LEMMA RecoverCleanStep ==
  ASSUME StoreInv, RecoverClean
  PROVE  StoreInv' /\ UNCHANGED <<Written, acked, corruptions>>
<1>1. store = "closed" /\ Rest(file) = <<>> /\ store' = "open" /\ writable' = TRUE
      /\ UNCHANGED <<file, synced, buffer, unflushed, quarantined, acked, corruptions>>
      /\ sequence' = ValidRecords(file) /\ previous_hash' = LastHash(file)
  BY DEF RecoverClean, OpenAt, disk, faults
<1>2. /\ Written = file /\ unflushed = NoPayload
      /\ ValidRecords(file) \in Nat /\ IsChain(file, ValidRecords(file))
      /\ LastHash(file) = HashAt(file, ValidRecords(file))
  BY <1>1, ClosedFacts
<1>3. Len(file) = 2 * ValidRecords(file) /\ Len(file) \in Nat
  BY <1>1, WrittenFacts, RestFacts
<1>4. UNCHANGED Written
  BY <1>1 DEF Written
<1>5. Typed' /\ ClosedInv' /\ QuarantineInv' /\ AckedInv'
  BY <1>1, <1>2 DEF StoreInv, Typed, ClosedInv, QuarantineInv, AckedInv
<1>6. OpenInv'
  BY <1>1, <1>2, <1>3, <1>4 DEF OpenInv
<1>7. IsTokens(Written)' /\ (corruptions = 0 => Clean(Written))'
  BY <1>1, <1>4 DEF StoreInv
<1> QED
  BY <1>1, <1>4, <1>5, <1>6, <1>7 DEF StoreInv

\* An open that fails leaves the file as it found it.
LEMMA RecoverRefusedStep ==
  ASSUME StoreInv, RecoverRefused
  PROVE  StoreInv' /\ UNCHANGED <<Written, acked, corruptions>>
<1>1. store = "closed" /\ store' = "refused"
      /\ UNCHANGED <<file, synced, buffer, sequence, unflushed, writable, quarantined, acked, corruptions>>
  BY DEF RecoverRefused, disk, chain, flags, faults
<1>2. UNCHANGED Written
  BY <1>1 DEF Written
<1>3. Typed' /\ ClosedInv' /\ QuarantineInv' /\ AckedInv' /\ OpenInv'
  BY <1>1, <1>2 DEF StoreInv, Typed, ClosedInv, QuarantineInv, AckedInv, OpenInv
<1>4. IsTokens(Written)' /\ (corruptions = 0 => Clean(Written))'
  BY <1>1, <1>2 DEF StoreInv
<1> QED
  BY <1>1, <1>2, <1>3, <1>4 DEF StoreInv

\* The torn tail is set aside before anything is cut.
LEMMA QuarantineTailStep ==
  ASSUME StoreInv, QuarantineTail
  PROVE  StoreInv' /\ UNCHANGED <<Written, acked, corruptions>>
<1>1. store = "closed" /\ store' = "quarantining" /\ ~Corrupt(file)
      /\ Rest(file) \in quarantined'
      /\ UNCHANGED <<file, synced, buffer, sequence, unflushed, writable, acked, corruptions>>
  BY DEF QuarantineTail, Copied, disk, chain, flags, faults
<1>2. UNCHANGED Written
  BY <1>1 DEF Written
<1>3. Typed' /\ ClosedInv' /\ AckedInv' /\ OpenInv'
  BY <1>1, <1>2 DEF StoreInv, Typed, ClosedInv, AckedInv, OpenInv
<1>4. IsTokens(Written)' /\ (corruptions = 0 => Clean(Written))'
  BY <1>1, <1>2 DEF StoreInv
<1>5. QuarantineInv'
  BY <1>1 DEF QuarantineInv
<1> QED
  BY <1>1, <1>2, <1>3, <1>4, <1>5 DEF StoreInv

\* A copy that fails leaves the tail where it is.
LEMMA QuarantineFailsStep ==
  ASSUME StoreInv, QuarantineFails
  PROVE  StoreInv' /\ UNCHANGED <<Written, acked, corruptions>>
<1>1. store = "closed" /\ store' = store
      /\ UNCHANGED <<file, synced, buffer, sequence, unflushed, writable, acked, corruptions>>
  BY DEF QuarantineFails, disk, chain, flags, faults
<1>2. UNCHANGED Written
  BY <1>1 DEF Written
<1>3. Typed' /\ ClosedInv' /\ QuarantineInv' /\ AckedInv' /\ OpenInv'
  BY <1>1, <1>2 DEF StoreInv, Typed, ClosedInv, QuarantineInv, AckedInv, OpenInv
<1>4. IsTokens(Written)' /\ (corruptions = 0 => Clean(Written))'
  BY <1>1, <1>2 DEF StoreInv
<1> QED
  BY <1>1, <1>2, <1>3, <1>4 DEF StoreInv

\* The tail is cut off; the records stay.
LEMMA SetLenStep ==
  ASSUME StoreInv, SetLen
  PROVE  /\ StoreInv' /\ UNCHANGED <<acked, corruptions>>
         /\ IsSeq(Written') /\ Begins(Written', Written)
         /\ ValidRecords(Written') = ValidRecords(Written)
<1>1. store = "quarantining" /\ store' = "finding" /\ writable' = TRUE
      /\ UNCHANGED <<buffer, unflushed, quarantined, acked, corruptions>>
      /\ sequence' = ValidRecords(file) /\ previous_hash' = LastHash(file)
      /\ file' = SubSeq(file, 1, 2 * ValidRecords(file))
      /\ synced' = IF synced > 2 * ValidRecords(file) THEN 2 * ValidRecords(file) ELSE synced
  BY DEF SetLen, OpenAt, ValidTokens, faults
<1>2. /\ Written = file /\ buffer = <<>> /\ unflushed = NoPayload
      /\ ValidRecords(file) \in Nat /\ IsChain(file, ValidRecords(file))
      /\ LastHash(file) = HashAt(file, ValidRecords(file))
      /\ 2 * ValidRecords(file) <= Len(file) /\ acked <= ValidRecords(file)
  BY <1>1, ClosedFacts
<1>3. PICK f, g, v : f = file /\ g = file' /\ v = ValidRecords(file)
  OBVIOUS
<1>4. v \in Nat /\ IsSeq(f) /\ IsTokens(f) /\ 2 * v <= Len(f) /\ 2 * v \in Nat
      /\ IsChain(f, v) /\ g = SubSeq(f, 1, 2 * v)
  BY <1>1, <1>2, <1>3, WrittenFacts
<1>5. IsSeq(g) /\ Len(g) = 2 * v /\ \A i \in 1..(2 * v) : g[i] = f[i]
  BY <1>4, Prefix
<1>6. Begins(g, f)
  BY <1>4, <1>5 DEF Begins
<1>7. IsTokens(g) /\ IsChain(g, v)
  <2>1. IsTokens(g)
    BY <1>4, <1>6, BeginningFacts, Zenon
  <2>2. 2 * v <= Len(g)
    BY <1>4, <1>5
  <2>3. IsChain(g, v)
    BY <1>4, <1>6, <2>2, BeginningChain
  <2> QED
    BY <2>1, <2>3
<1>8. ValidRecords(g) = v
  <2>1. Len(g) <= 2 * v + 1
    BY <1>4, <1>5
  <2> QED
    BY <1>4, <1>5, <1>7, <2>1, ChainToTheEnd
<1>9. HashAt(g, v) = HashAt(f, v)
  <2>1. v # 0 => 2 * v \in 1..(2 * v)
    BY <1>4
  <2> QED
    BY <1>4, <1>5, <2>1 DEF HashAt
<1>10. Written' = g
  <2>1. g \o <<>> = g
    BY <1>5, JoinedAgain
  <2> QED
    BY <1>1, <1>2, <1>3, <2>1 DEF Written
<1>11. synced \in Nat /\ acked \in Nat /\ 2 * acked <= synced /\ IsChain(f, acked)
  BY <1>3 DEF StoreInv, AckedInv, Typed
<1>12. synced' \in Nat /\ synced' <= 2 * v /\ 2 * acked <= synced'
  BY <1>1, <1>2, <1>3, <1>4, <1>11
<1>13. Typed' /\ ClosedInv' /\ QuarantineInv'
  BY <1>1, <1>2, <1>3, <1>4, <1>5, <1>12 DEF StoreInv, Typed, ClosedInv, QuarantineInv
<1>14. AckedInv'
  <2>1. IsChain(g, acked)
    <3>1. 2 * acked <= Len(g)
      BY <1>2, <1>3, <1>4, <1>5, <1>11
    <3> QED
      BY <1>4, <1>6, <1>11, <3>1, BeginningChain
  <2> QED
    BY <1>1, <1>3, <1>12, <2>1 DEF AckedInv
<1>15. OpenInv'
  BY <1>1, <1>2, <1>3, <1>4, <1>5, <1>7, <1>9, <1>10 DEF OpenInv
<1>16. IsTokens(Written)' /\ (corruptions = 0 => Clean(Written))'
  BY <1>4, <1>5, <1>7, <1>8, <1>10 DEF Clean
<1>17. StoreInv'
  BY <1>13, <1>14, <1>15, <1>16 DEF StoreInv
<1> QED
  BY <1>1, <1>2, <1>3, <1>5, <1>6, <1>8, <1>10, <1>17

\* What the invariant says of an open store that may write.
LEMMA OpenFacts ==
  ASSUME StoreInv, store \in {"finding", "open"}
  PROVE  /\ sequence \in Nat /\ IsChain(Written, sequence) /\ ValidRecords(Written) = sequence
         /\ previous_hash = HashAt(Written, sequence)
         /\ writable => Len(Written) = 2 * sequence
<1>1. /\ sequence \in Nat /\ IsChain(Written, sequence) /\ Len(Written) <= 2 * sequence + 1
      /\ previous_hash = HashAt(Written, sequence)
      /\ writable => Len(Written) = 2 * sequence
  BY DEF StoreInv, OpenInv, Typed
<1>2. ValidRecords(Written) = sequence
  BY <1>1, WrittenFacts, ChainToTheEnd
<1> QED
  BY <1>1, <1>2

\* One more record, at the end of the chain.
LEMMA AppendStep ==
  ASSUME StoreInv, store \in {"finding", "open"}, writable,
         NEW p \in Payloads \cup {Finding}, AppendLine(p),
         UNCHANGED <<file, synced, store, writable, quarantined, acked, corruptions>>
  PROVE  /\ StoreInv'
         /\ IsSeq(Written') /\ Begins(Written, Written')
         /\ ValidRecords(Written') = ValidRecords(Written) + 1
         /\ Written'[2 * ValidRecords(Written')][1].payload = p
<1>1. PICK r : r = ChainRecord(sequence + 1, previous_hash, p)
  OBVIOUS
<1>2. buffer' = buffer \o Line(r) /\ sequence' = sequence + 1 /\ unflushed' = p
      /\ previous_hash' = r.record_hash
  BY <1>1 DEF AppendLine
<1>3. PICK w, u, n : w = Written /\ u = w \o Line(r) /\ n = sequence
  OBVIOUS
<1>4. /\ n \in Nat /\ IsSeq(w) /\ IsTokens(w) /\ IsChain(w, n) /\ Len(w) = 2 * n
      /\ r = ChainRecord(n + 1, HashAt(w, n), p) /\ ValidRecords(w) = n
  BY <1>1, <1>3, OpenFacts, WrittenFacts DEF StoreInv
<1>5. /\ IsSeq(Line(r))
      /\ IsSeq(u) /\ IsTokens(u) /\ Len(u) = 2 * n + 2
      /\ IsChain(u, n + 1)
      /\ HashAt(u, n + 1) = r.record_hash
      /\ u[2 * n + 2] = <<r, "end">> /\ r.payload = p
      /\ \A i \in 1..(2 * n) : u[i] = w[i]
  <2>1. r = ChainRecord(n + 1, HashAt(w, n), p) /\ u = w \o Line(r)
    BY <1>3, <1>4
  <2>2. AddsLine(u, w, r)
    BY <1>4, <2>1, LineAfter
  <2>3. Continues(u, w, n, r) /\ r.payload = p
    BY <1>4, <2>2, LineAdded
  <2> QED
    BY <2>3 DEF Continues
<1>6. Written' = u
  <2>1. (file \o buffer) \o Line(r) = file \o (buffer \o Line(r))
    <3>1. IsSeq(file) /\ IsSeq(buffer) /\ IsSeq(Line(r))
      BY <1>5, WrittenFacts
    <3>2. \A c : IsSeq(c) => (file \o buffer) \o c = file \o (buffer \o c)
      BY <3>1, JoinedAgain
    <3>3. PICK c : c = Line(r)
      OBVIOUS
    <3> QED
      BY <3>1, <3>2, <3>3
  <2> QED
    BY <1>2, <1>3, <2>1 DEF Written
<1>7. ValidRecords(u) = n + 1 /\ Len(u) <= 2 * (n + 1) + 1 /\ Len(u) = 2 * (n + 1) /\ n + 1 \in Nat
  <2>1. Len(u) <= 2 * (n + 1) + 1 /\ Len(u) = 2 * (n + 1) /\ n + 1 \in Nat
    BY <1>4, <1>5
  <2> QED
    BY <1>5, <2>1, ChainToTheEnd
<1>8. Begins(w, u)
  BY <1>4, <1>5 DEF Begins
<1>9. Typed' /\ ClosedInv' /\ QuarantineInv' /\ AckedInv'
  <2>1. IsSeq(buffer')
    BY <1>2, <1>5, WrittenFacts, Concatenated DEF Joins
  <2> QED
    BY <1>2, <1>3, <1>4, <2>1 DEF StoreInv, Typed, ClosedInv, QuarantineInv, AckedInv
<1>10. OpenInv'
  BY <1>2, <1>3, <1>5, <1>6, <1>7 DEF OpenInv
<1>11. IsTokens(Written)' /\ (corruptions = 0 => Clean(Written))'
  BY <1>5, <1>6, <1>7 DEF Clean
<1>12. StoreInv'
  BY <1>9, <1>10, <1>11 DEF StoreInv
<1>13. Written'[2 * ValidRecords(Written')][1].payload = p
  <2>1. 2 * (n + 1) = 2 * n + 2
    BY <1>4
  <2> QED
    BY <1>5, <1>6, <1>7, <2>1
<1> QED
  BY <1>3, <1>4, <1>5, <1>6, <1>7, <1>8, <1>12, <1>13

\* Everything written is on stable storage.
LEMMA FlushOkStep ==
  ASSUME StoreInv, FlushOk
  PROVE  /\ StoreInv'
         /\ UNCHANGED <<Written, corruptions>>
         /\ acked' = ValidRecords(Written)
<1>1. unflushed # NoPayload /\ file' = file \o buffer /\ synced' = Len(file') /\ buffer' = <<>>
      /\ unflushed' = NoPayload /\ acked' = sequence /\ store' = "open"
      /\ UNCHANGED <<sequence, previous_hash, writable, quarantined, corruptions>>
  BY DEF FlushOk, chain, flags, faults
<1>2. store \in {"finding", "open"} /\ writable
  BY <1>1 DEF StoreInv, ClosedInv, Typed
<1>3. PICK w, n : w = Written /\ n = sequence
  OBVIOUS
<1>4. /\ n \in Nat /\ IsSeq(w) /\ IsChain(w, n) /\ Len(w) = 2 * n /\ ValidRecords(w) = n
      /\ previous_hash = HashAt(w, n) /\ IsTokens(w)
  BY <1>2, <1>3, OpenFacts, WrittenFacts DEF StoreInv
<1>5. file' = w /\ Written' = w
  <2>1. w \o <<>> = w
    BY <1>4, JoinedAgain
  <2> QED
    BY <1>1, <1>3, <2>1 DEF Written
<1>6. Typed' /\ ClosedInv' /\ QuarantineInv'
  BY <1>1, <1>3, <1>4, <1>5, ShortSeqs DEF StoreInv, Typed, ClosedInv, QuarantineInv
<1>7. AckedInv'
  BY <1>1, <1>3, <1>4, <1>5 DEF AckedInv
<1>8. OpenInv'
  BY <1>1, <1>3, <1>4, <1>5 DEF OpenInv
<1>9. IsTokens(Written)' /\ (corruptions = 0 => Clean(Written))'
  BY <1>4, <1>5 DEF Clean
<1>10. StoreInv'
  BY <1>6, <1>7, <1>8, <1>9 DEF StoreInv
<1> QED
  BY <1>1, <1>3, <1>4, <1>5, <1>10

\* A part of the buffer reaches the file, the rest stays in the buffer.
LEMMA PartWrittenStep ==
  ASSUME StoreInv, store = "open", writable,
         NEW k \in 0..Len(buffer),
         file' = file \o SubSeq(buffer, 1, k),
         buffer' = SubSeq(buffer, k + 1, Len(buffer)),
         unflushed' = NoPayload, writable' \in BOOLEAN,
         UNCHANGED <<synced, sequence, previous_hash, store, quarantined, acked, corruptions>>
  PROVE  StoreInv' /\ UNCHANGED Written
<1>1. PICK c, f, g : c = SubSeq(buffer, 1, k) /\ f = file /\ g = file'
  OBVIOUS
<1>2. IsSeq(f) /\ IsSeq(c) /\ IsSeq(buffer') /\ Written' = Written
  BY <1>1, WrittenFacts, JoinedAgain DEF Written
<1>3. Joins(g, f, c)
  BY <1>1, <1>2, Concatenated
<1>4. IsSeq(g) /\ Begins(f, g) /\ Len(f) <= Len(g) /\ Len(f) \in Nat /\ Len(g) \in Nat
  BY <1>2, <1>3 DEF Joins, Begins, IsSeq
<1>5. IsChain(g, acked)
  <2>1. acked \in Nat /\ IsChain(f, acked)
    BY <1>1 DEF StoreInv, AckedInv, Typed
  <2>2. \A n \in Nat : IsChain(f, n) => IsChain(g, n)
    BY <1>4, BeginningFacts, Zenon
  <2> QED
    BY <2>1, <2>2
<1>6. Typed'
  BY <1>1, <1>2, <1>4 DEF StoreInv, Typed
<1>7. ClosedInv' /\ QuarantineInv' /\ AckedInv'
  BY <1>1, <1>5 DEF StoreInv, ClosedInv, QuarantineInv, AckedInv
<1>8. OpenInv'
  BY <1>2 DEF StoreInv, OpenInv
<1>9. IsTokens(Written)' /\ (corruptions = 0 => Clean(Written))'
  BY <1>2 DEF StoreInv
<1> QED
  BY <1>2, <1>6, <1>7, <1>8, <1>9 DEF StoreInv

\* A flush that fails passes part of the buffer on to the file.
LEMMA FlushFailsStep ==
  ASSUME StoreInv, FlushFails
  PROVE  StoreInv' /\ UNCHANGED <<Written, acked, corruptions>>
<1>1. store = "open" /\ unflushed # NoPayload /\ unflushed' = NoPayload /\ GiveUp
      /\ UNCHANGED <<synced, sequence, previous_hash, store, quarantined, acked, corruptions>>
  BY DEF FlushFails, chain, faults
<1>2. writable /\ writable \in BOOLEAN
  BY <1>1 DEF StoreInv, ClosedInv, Typed
<1>3. writable' \in BOOLEAN
  BY <1>1, <1>2 DEF GiveUp
<1>4. PICK k \in 0..Len(buffer) : /\ file' = file \o SubSeq(buffer, 1, k)
                                 /\ buffer' = SubSeq(buffer, k + 1, Len(buffer))
  BY DEF FlushFails
<1> QED
  BY <1>1, <1>2, <1>3, <1>4, PartWrittenStep

\* A line that goes past the buffer leaves its start at most, and ends the
\* writing.
LEMMA AppendTornStep ==
  ASSUME StoreInv, NEW p \in Payloads, AppendTorn(p)
  PROVE  /\ StoreInv' /\ UNCHANGED <<acked, corruptions>>
         /\ IsSeq(Written') /\ Begins(Written, Written')
         /\ ValidRecords(Written') = ValidRecords(Written)
<1>1. PICK r : r = ChainRecord(sequence + 1, previous_hash, p)
  OBVIOUS
<1>2. store = "open" /\ writable /\ unflushed = NoPayload /\ writable' = FALSE
      /\ UNCHANGED <<synced, sequence, previous_hash, store, unflushed, quarantined, acked, corruptions>>
  BY DEF AppendTorn, chain, faults
<1>3. \/ /\ \E k \in 0..1 : file' = file \o buffer \o SubSeq(Line(r), 1, k)
         /\ buffer' = <<>>
      \/ \E k \in 0..Len(buffer) :
           /\ file' = file \o SubSeq(buffer, 1, k)
           /\ buffer' = SubSeq(buffer, k + 1, Len(buffer))
  BY <1>1 DEF AppendTorn
<1>4. IsSeq(Written) /\ Begins(Written, Written)
  <2>1. IsSeq(Written) /\ Len(Written) \in Nat
    BY WrittenFacts DEF IsSeq
  <2> QED
    BY <2>1 DEF Begins
<1>5. CASE \E k \in 0..Len(buffer) : /\ file' = file \o SubSeq(buffer, 1, k)
                                     /\ buffer' = SubSeq(buffer, k + 1, Len(buffer))
  <2>1. StoreInv' /\ UNCHANGED Written
    BY <1>2, <1>5, PartWrittenStep
  <2> QED
    BY <1>2, <1>4, <2>1
<1>6. CASE buffer' = <<>> /\ \E k \in 0..1 : file' = file \o buffer \o SubSeq(Line(r), 1, k)
  <2>1. PICK k \in 0..1 : file' = file \o buffer \o SubSeq(Line(r), 1, k)
    BY <1>6
  <2>2. PICK w, n, g, c : w = Written /\ n = sequence /\ g = file' /\ c = SubSeq(Line(r), 1, k)
    OBVIOUS
  <2>3. /\ n \in Nat /\ IsSeq(w) /\ IsTokens(w) /\ IsChain(w, n) /\ Len(w) = 2 * n
        /\ r = ChainRecord(n + 1, HashAt(w, n), p) /\ ValidRecords(w) = n
        /\ HashAt(w, n) = previous_hash
    BY <1>1, <1>2, <2>2, OpenFacts, WrittenFacts DEF StoreInv
  <2>4. PICK u : AddsLine(u, w, r)
    <3>1. PICK u : u = w \o Line(r)
      OBVIOUS
    <3> QED
      BY <2>3, <3>1, LineAfter
  <2>5. Continues(u, w, n, r)
    BY <2>3, <2>4, LineAdded
  <2>6. IsSeq(c) /\ Len(c) = k /\ (k = 1 => c[1] = <<r, "start">>)
    <3>1. PICK b : b = Line(r)
      OBVIOUS
    <3>2. IsSeq(b) /\ Len(b) = 2 /\ b[1] = <<r, "start">>
      BY <3>1, ShortSeqs DEF Line
    <3>3. IsSeq(SubSeq(b, 1, k)) /\ Len(SubSeq(b, 1, k)) = k
          /\ \A i \in 1..k : SubSeq(b, 1, k)[i] = b[i]
      <4>1. k \in Nat /\ k <= Len(b)
        BY <3>2
      <4> QED
        BY <3>2, <4>1, Prefix
    <3> QED
      BY <2>2, <3>1, <3>2, <3>3
  <2>7. Joins(g, w, c)
    BY <2>1, <2>2, <2>3, <2>6, Concatenated DEF Written
  <2>8. /\ IsSeq(g) /\ Len(g) = 2 * n + k /\ \A i \in 1..(2 * n) : g[i] = w[i]
        /\ k = 1 => g[2 * n + 1] = <<r, "start">>
    BY <2>3, <2>6, <2>7 DEF Joins
  <2>9. Begins(w, g) /\ Begins(g, u)
    <3>1. Begins(w, g)
      BY <2>3, <2>8 DEF Begins
    <3>2. Len(u) = 2 * n + 2 /\ (\A i \in 1..(2 * n) : u[i] = w[i]) /\ u[2 * n + 1] = <<r, "start">>
      BY <2>3, <2>4 DEF AddsLine
    <3>3. ASSUME NEW i \in 1..Len(g) PROVE g[i] = u[i]
      <4>1. i \in 1..(2 * n) \/ (k = 1 /\ i = 2 * n + 1)
        BY <2>3, <2>8
      <4> QED
        BY <2>8, <3>2, <4>1
    <3> QED
      BY <2>3, <2>8, <3>1, <3>2, <3>3 DEF Begins
  <2>10. IsTokens(g)
    BY <2>5, <2>9, BeginningFacts, Zenon DEF Continues
  <2>11. IsChain(g, n)
    <3>1. \A m \in Nat : IsChain(w, m) => IsChain(g, m)
      BY <2>8, <2>9, BeginningFacts, Zenon
    <3> QED
      BY <2>3, <3>1
  <2>12. ValidRecords(g) = n /\ Len(g) <= 2 * n + 1
    <3>1. Len(g) <= 2 * n + 1
      BY <2>3, <2>8
    <3> QED
      BY <2>3, <2>8, <2>11, <3>1, ChainToTheEnd
  <2>13. HashAt(g, n) = HashAt(w, n)
    <3>1. n # 0 => 2 * n \in 1..(2 * n)
      BY <2>3
    <3> QED
      BY <2>8, <3>1 DEF HashAt
  <2>14. Written' = g
    BY <1>6, <2>2, <2>8, JoinedAgain DEF Written
  <2>15. IsChain(g, acked) /\ acked \in Nat /\ synced \in Nat /\ synced <= Len(g)
    <3>1. acked \in Nat /\ synced \in Nat /\ IsChain(file, acked) /\ synced <= Len(file)
      BY DEF StoreInv, AckedInv, Typed
    <3>2. IsSeq(w) /\ Begins(file, w) /\ Len(file) \in Nat
      BY <2>2, WrittenFacts
    <3>3. IsChain(w, acked)
      BY <3>1, <3>2, BeginningFacts
    <3>4. IsChain(g, acked)
      BY <2>8, <2>9, <3>1, <3>3, BeginningFacts
    <3> QED
      BY <2>3, <2>8, <3>1, <3>2, <3>4 DEF Begins
  <2>16. Typed' /\ ClosedInv' /\ QuarantineInv' /\ AckedInv'
    BY <1>2, <1>6, <2>2, <2>8, <2>15, ShortSeqs
       DEF StoreInv, Typed, ClosedInv, QuarantineInv, AckedInv
  <2>17. OpenInv'
    BY <1>2, <2>2, <2>3, <2>11, <2>12, <2>13, <2>14 DEF OpenInv
  <2>18. IsTokens(Written)' /\ (corruptions = 0 => Clean(Written))'
    BY <2>10, <2>12, <2>14 DEF Clean
  <2>19. StoreInv'
    BY <2>16, <2>17, <2>18 DEF StoreInv
  <2> QED
    BY <1>2, <2>2, <2>3, <2>8, <2>9, <2>12, <2>14, <2>19
<1> QED
  BY <1>3, <1>5, <1>6

\* What survives the end of the process is a beginning of what was written,
\* with everything a flush covered.
LEMMA StopStep ==
  ASSUME StoreInv, Stop
  PROVE  /\ StoreInv' /\ UNCHANGED <<acked, corruptions>>
         /\ IsSeq(Written') /\ Begins(Written', Written)
         /\ acked <= ValidRecords(Written')
<1>1. store' = "closed" /\ unflushed' = NoPayload /\ buffer' = <<>>
      /\ UNCHANGED <<sequence, previous_hash, writable, acked, corruptions>>
  BY DEF Stop, chain, flags
<1>2. PICK k \in 0..Len(buffer) :
        LET written == file \o SubSeq(buffer, 1, k)
        IN \/ file' = written /\ UNCHANGED synced
           \/ \E n \in synced..Len(written) : file' = SubSeq(written, 1, n) /\ synced' = n
  BY DEF Stop
<1>3. PICK f, b, c, w, d, g : /\ f = file /\ b = buffer /\ c = SubSeq(buffer, 1, k) /\ w = Written
                              /\ d = file \o SubSeq(buffer, 1, k) /\ g = file'
  OBVIOUS
<1>4. /\ IsSeq(f) /\ IsSeq(b) /\ IsSeq(w) /\ Len(f) \in Nat /\ Len(b) \in Nat /\ Joins(w, f, b)
      /\ IsTokens(w) /\ Begins(f, w)
  BY <1>3, WrittenFacts DEF StoreInv
<1>5. IsSeq(c) /\ Len(c) = k /\ k \in Nat /\ k <= Len(b) /\ \A i \in 1..k : c[i] = b[i]
  <2>1. k \in Nat /\ k <= Len(b) /\ c = SubSeq(b, 1, k)
    BY <1>3, <1>4
  <2> QED
    BY <1>4, <2>1, Prefix
<1>6. Joins(d, f, c)
  BY <1>3, <1>4, <1>5, Concatenated
<1>7. IsSeq(d) /\ Len(d) = Len(f) + k /\ Len(d) \in Nat
      /\ (\A i \in 1..Len(f) : d[i] = f[i]) /\ (\A i \in 1..k : d[Len(f) + i] = c[i])
  BY <1>4, <1>5, <1>6 DEF Joins
<1>8. Begins(d, w)
  <2>1. Len(w) = Len(f) + Len(b) /\ (\A i \in 1..Len(f) : w[i] = f[i])
        /\ (\A i \in 1..Len(b) : w[Len(f) + i] = b[i])
    BY <1>4 DEF Joins
  <2>2. ASSUME NEW i \in 1..Len(d) PROVE d[i] = w[i]
    <3>1. CASE i <= Len(f)
      BY <1>4, <1>7, <2>1, <3>1
    <3>2. CASE i > Len(f)
      <4>1. PICK j \in 1..k : i = Len(f) + j
        <5>1. i - Len(f) \in 1..k /\ i = Len(f) + (i - Len(f))
          BY <1>4, <1>5, <1>7, <3>2
        <5> QED
          BY <5>1
      <4>2. j \in 1..Len(b)
        BY <1>4, <1>5
      <4> QED
        BY <1>5, <1>7, <2>1, <4>1, <4>2
    <3> QED
      BY <1>4, <1>7, <3>1, <3>2
  <2> QED
    BY <1>4, <1>5, <1>7, <2>1, <2>2 DEF Begins
<1>9. synced \in Nat /\ acked \in Nat /\ 2 * acked <= synced /\ IsChain(f, acked) /\ synced <= Len(f)
  BY <1>3 DEF StoreInv, AckedInv, Typed
<1>10. /\ IsSeq(g) /\ Len(g) \in Nat /\ Len(g) <= Len(d) /\ \A i \in 1..Len(g) : g[i] = d[i]
       /\ synced' \in Nat /\ synced <= synced' /\ synced' <= Len(g)
  <2>1. CASE file' = d /\ UNCHANGED synced
    BY <1>3, <1>4, <1>5, <1>7, <1>9, <2>1
  <2>2. CASE \E n \in synced..Len(d) : file' = SubSeq(d, 1, n) /\ synced' = n
    <3>1. PICK n \in synced..Len(d) : file' = SubSeq(d, 1, n) /\ synced' = n
      BY <2>2
    <3>2. n \in Nat /\ n <= Len(d) /\ synced <= n
      BY <1>7, <1>9
    <3>3. IsSeq(SubSeq(d, 1, n)) /\ Len(SubSeq(d, 1, n)) = n
          /\ \A i \in 1..n : SubSeq(d, 1, n)[i] = d[i]
      BY <1>7, <3>2, Prefix
    <3>4. IsSeq(g) /\ Len(g) = n /\ \A i \in 1..n : g[i] = d[i]
      BY <1>3, <3>1, <3>3
    <3> QED
      BY <3>1, <3>2, <3>4
  <2> QED
    BY <1>2, <1>3, <2>1, <2>2
<1>11. Begins(g, w)
  <2>1. Len(d) <= Len(w) /\ Len(w) \in Nat /\ \A i \in 1..Len(d) : d[i] = w[i]
    BY <1>4, <1>8 DEF Begins, IsSeq
  <2>2. Len(g) <= Len(w)
    BY <1>7, <1>10, <2>1
  <2>3. ASSUME NEW i \in 1..Len(g) PROVE g[i] = w[i]
    <3>1. i \in 1..Len(d)
      BY <1>7, <1>10
    <3> QED
      BY <1>10, <2>1, <3>1
  <2> QED
    BY <1>10, <2>2, <2>3 DEF Begins
<1>12. IsChain(g, acked) /\ IsTokens(g) /\ (Clean(w) => Clean(g))
  <2>1. IsChain(w, acked)
    BY <1>4, <1>9, BeginningFacts
  <2>2. 2 * acked <= Len(g)
    BY <1>9, <1>10
  <2>3. IsChain(g, acked)
    BY <1>4, <1>9, <1>11, <2>1, <2>2, BeginningChain
  <2>4. IsTokens(g) /\ (Clean(w) => Clean(g))
    BY <1>4, <1>11, BeginningFacts, Zenon
  <2> QED
    BY <2>3, <2>4
<1>13. Written' = g
  BY <1>1, <1>3, <1>10, JoinedAgain DEF Written
<1>14. Typed' /\ ClosedInv' /\ QuarantineInv' /\ AckedInv' /\ OpenInv'
  BY <1>1, <1>3, <1>9, <1>10, <1>12, ShortSeqs
     DEF StoreInv, Typed, ClosedInv, QuarantineInv, AckedInv, OpenInv
<1>15. IsTokens(Written)' /\ (corruptions = 0 => Clean(Written))'
  BY <1>1, <1>3, <1>12, <1>13 DEF StoreInv
<1>16. acked <= ValidRecords(g)
  BY <1>9, <1>10, <1>12, ValidRecordsFacts
<1>17. StoreInv'
  BY <1>14, <1>15 DEF StoreInv
<1> QED
  BY <1>1, <1>3, <1>10, <1>11, <1>13, <1>16, <1>17

\* An altered token keeps its place and its part, and its hash is no hash.
LEMMA AlteredFacts ==
  ASSUME NEW x, NEW part, IsToken(x, part)
  PROVE  IsToken(AlteredToken(x), part) /\ IsAltered(AlteredToken(x))
<1>1. x = <<x[1], part>> /\ IsRecord(x[1])
  BY DEF IsToken
<1>2. PICK r : r = x[1]
  OBVIOUS
<1>3. PICK q : q = [r EXCEPT !.record_hash = ZeroHash]
  OBVIOUS
<1>4. r = [sequence |-> r.sequence, previous_hash |-> r.previous_hash, payload |-> r.payload,
           record_hash |-> r.record_hash]
  BY <1>1, <1>2 DEF IsRecord
<1>5. q = [sequence |-> r.sequence, previous_hash |-> r.previous_hash, payload |-> r.payload,
           record_hash |-> ZeroHash]
  BY <1>3, <1>4
<1>6. IsRecord(q) /\ q.record_hash = ZeroHash
  BY <1>5 DEF IsRecord
<1>7. AlteredToken(x) = <<q, part>>
  BY <1>1, <1>2, <1>3 DEF AlteredToken
<1> QED
  BY <1>6, <1>7 DEF IsToken, IsAltered

\* No valid line is an altered one.
LEMMA ValidIsNotAltered ==
  ASSUME NEW t, NEW n \in Nat, IsChain(t, n), NEW i \in 1..n
  PROVE  ~IsAltered(t[2 * i])
<1>1. ValidLine(t[2 * i][1], i, IF i = 1 THEN ZeroHash ELSE t[2 * i - 2][1].record_hash)
  BY DEF IsChain
<1>2. PICK a, b, c : t[2 * i][1].record_hash = <<a, b, c>>
  BY <1>1 DEF ValidLine, CalculateHash
<1>3. <<a, b, c>> # <<>>
  OBVIOUS
<1> QED
  BY <1>2, <1>3 DEF IsAltered, ZeroHash

\* The records before an altered one stay, and nothing else does.
LEMMA CorruptAtRestStep ==
  ASSUME StoreInv, CorruptAtRest
  PROVE  /\ StoreInv' /\ corruptions' = corruptions + 1
         /\ IsSeq(Written')
         /\ \E i \in 1..ValidRecords(Written) :
              /\ ValidRecords(Written') = i - 1
              /\ acked' = IF acked < i THEN acked ELSE i - 1
              /\ \A j \in 1..(2 * (i - 1)) : Written'[j] = Written[j]
<1>1. store = "closed" /\ corruptions' = corruptions + 1
      /\ UNCHANGED <<synced, buffer, sequence, previous_hash, store, unflushed, writable, quarantined>>
  BY DEF CorruptAtRest, chain, flags
<1>2. PICK i \in 1..ValidRecords(file) :
        /\ file' = [j \in DOMAIN file |->
                     IF j \in {2 * i - 1, 2 * i} THEN AlteredToken(file[j]) ELSE file[j]]
        /\ acked' = IF acked < i THEN acked ELSE i - 1
  BY DEF CorruptAtRest
<1>3. PICK f, g, v : f = file /\ g = file' /\ v = ValidRecords(file)
  OBVIOUS
<1>4. /\ Written = f /\ buffer = <<>> /\ v \in Nat /\ IsChain(f, v) /\ 2 * v <= Len(f)
      /\ IsSeq(f) /\ IsTokens(f) /\ Len(f) \in Nat
  BY <1>1, <1>3, ClosedFacts, WrittenFacts
<1>5. DOMAIN f = 1..Len(f)
  BY <1>4 DEF IsSeq
<1>6. i \in Nat /\ 1 <= i /\ i <= v /\ i - 1 \in Nat /\ (i - 1) + 1 = i
  BY <1>3, <1>4
<1>7. g = [j \in 1..Len(f) |-> IF j \in {2 * i - 1, 2 * i} THEN AlteredToken(f[j]) ELSE f[j]]
  BY <1>2, <1>3, <1>5
<1>8. /\ \A j \in 1..Len(f) : g[j] = IF j \in {2 * i - 1, 2 * i} THEN AlteredToken(f[j]) ELSE f[j]
      /\ g = [j \in 1..Len(f) |-> g[j]]
  BY <1>7
<1>9. Len(g) = Len(f) /\ IsSeq(g)
  BY <1>4, <1>8, FunctionIsSeq
<1>10. IsTokens(g)
  <2> SUFFICES ASSUME NEW n \in 0..Len(g)
               PROVE  /\ 2 * n + 1 <= Len(g) => IsToken(g[2 * n + 1], "start")
                      /\ 2 * n + 2 <= Len(g) => IsToken(g[2 * n + 2], "end")
    BY DEF IsTokens
  <2>1. ASSUME 2 * n + 1 <= Len(g) PROVE IsToken(g[2 * n + 1], "start")
    <3>1. 2 * n + 1 \in 1..Len(f) /\ IsToken(f[2 * n + 1], "start")
      BY <1>4, <1>9, <2>1 DEF IsTokens
    <3>2. g[2 * n + 1] = AlteredToken(f[2 * n + 1]) \/ g[2 * n + 1] = f[2 * n + 1]
      BY <1>8, <3>1
    <3> QED
      BY <3>1, <3>2, AlteredFacts
  <2>2. ASSUME 2 * n + 2 <= Len(g) PROVE IsToken(g[2 * n + 2], "end")
    <3>1. 2 * n + 2 \in 1..Len(f) /\ IsToken(f[2 * n + 2], "end")
      BY <1>4, <1>9, <2>2 DEF IsTokens
    <3>2. g[2 * n + 2] = AlteredToken(f[2 * n + 2]) \/ g[2 * n + 2] = f[2 * n + 2]
      BY <1>8, <3>1
    <3> QED
      BY <3>1, <3>2, AlteredFacts
  <2> QED
    BY <2>1, <2>2
<1>11. \A j \in 1..(2 * (i - 1)) : g[j] = f[j]
  <2> SUFFICES ASSUME NEW j \in 1..(2 * (i - 1)) PROVE g[j] = f[j]
    OBVIOUS
  <2>1. j \in 1..Len(f) /\ j \notin {2 * i - 1, 2 * i}
    BY <1>4, <1>6
  <2> QED
    BY <1>8, <2>1
<1>12. IsChain(g, i - 1)
  <2>1. 2 * (i - 1) <= Len(g) /\ i - 1 <= v
    BY <1>4, <1>6, <1>9
  <2> QED
    BY <1>4, <1>6, <1>11, <2>1, ChainPart
<1>13. ~IsChain(g, i)
  <2>1. 2 * i \in 1..Len(f) /\ 2 * i = 2 * (i - 1) + 2 /\ i - 1 \in 0..Len(f) /\ 2 * (i - 1) + 2 <= Len(f)
    BY <1>4, <1>6
  <2>2. IsToken(f[2 * i], "end")
    BY <1>4, <2>1 DEF IsTokens
  <2>3. g[2 * i] = AlteredToken(f[2 * i])
    BY <1>8, <2>1
  <2>4. IsAltered(g[2 * i])
    BY <2>2, <2>3, AlteredFacts
  <2>5. i \in 1..i
    BY <1>6
  <2> QED
    BY <1>6, <2>4, <2>5, ValidIsNotAltered
<1>14. ValidRecords(g) = i - 1
  BY <1>6, <1>9, <1>12, <1>13, ValidRecordsIs
<1>15. Written' = g
  BY <1>1, <1>3, <1>4, <1>9, JoinedAgain DEF Written
<1>16. acked \in Nat /\ synced \in Nat /\ corruptions \in Nat /\ synced <= Len(f) /\ 2 * acked <= synced
  BY <1>3 DEF StoreInv, Typed, AckedInv
<1>17. PICK a : a = acked' /\ a \in Nat /\ a <= acked /\ a <= i - 1
  BY <1>2, <1>6, <1>16
<1>18. IsChain(g, a) /\ 2 * a <= synced
  <2>1. 2 * a <= Len(g) /\ 2 * a <= synced
    <3>1. \A x, y, z, n \in Nat : x <= y /\ 2 * y <= z /\ z <= n => 2 * x <= n /\ 2 * x <= z
      OBVIOUS
    <3>2. Len(g) \in Nat /\ synced <= Len(g)
      BY <1>4, <1>9, <1>16
    <3> QED
      BY <1>16, <1>17, <3>1, <3>2
  <2> QED
    BY <1>6, <1>12, <1>17, <2>1, ChainPart
<1>19. Typed' /\ ClosedInv' /\ QuarantineInv' /\ AckedInv' /\ OpenInv'
  <2>1. Typed'
    BY <1>1, <1>3, <1>9, <1>16, <1>17 DEF StoreInv, Typed
  <2>2. ClosedInv' /\ QuarantineInv' /\ OpenInv'
    BY <1>1 DEF StoreInv, ClosedInv, QuarantineInv, OpenInv
  <2>3. AckedInv'
    BY <1>1, <1>3, <1>17, <1>18 DEF AckedInv
  <2> QED
    BY <2>1, <2>2, <2>3
<1>20. IsTokens(Written)' /\ (corruptions = 0 => Clean(Written))'
  BY <1>1, <1>10, <1>15, <1>16
<1>21. StoreInv'
  BY <1>19, <1>20 DEF StoreInv
<1> QED
  BY <1>1, <1>2, <1>3, <1>4, <1>6, <1>9, <1>11, <1>14, <1>15, <1>21

-----------------------------------------------------------------------------
\* The invariant holds

\* An empty timeline satisfies the invariant.
LEMMA StoreInitially == Init => StoreInv
<1> SUFFICES ASSUME Init PROVE StoreInv
  OBVIOUS
<1>1. /\ file = <<>> /\ buffer = <<>> /\ synced = 0 /\ sequence = 0 /\ store = "closed"
      /\ unflushed = NoPayload /\ writable = TRUE /\ acked = 0 /\ corruptions = 0
  BY DEF Init
<1>2. IsSeq(<<>>) /\ Len(<<>>) = 0
  BY ShortSeqs
<1>3. Written = <<>>
  BY <1>1, <1>2, JoinedAgain DEF Written
<1>4. PICK t : t = <<>>
  OBVIOUS
<1>5. IsSeq(t) /\ Len(t) = 0
  BY <1>2, <1>4
<1>6. IsChain(t, 0) /\ IsTokens(t)
  BY <1>5 DEF IsChain, IsTokens
<1>7. Clean(t)
  BY <1>5, ValidRecordsFacts DEF Clean
<1>8. Typed /\ ClosedInv /\ QuarantineInv /\ OpenInv /\ AckedInv
  BY <1>1, <1>2, <1>4, <1>5, <1>6 DEF Typed, ClosedInv, QuarantineInv, OpenInv, AckedInv
<1> QED
  BY <1>3, <1>4, <1>6, <1>7, <1>8 DEF StoreInv

\* A step that changes nothing.
LEMMA StoreUnchanged ==
  ASSUME StoreInv, UNCHANGED vars
  PROVE  StoreInv' /\ UNCHANGED <<Written, acked, corruptions>>
<1>1. UNCHANGED <<file, synced, buffer, sequence, previous_hash, store, unflushed, writable,
                  quarantined, acked, corruptions>>
  BY DEF vars
<1>2. UNCHANGED Written
  BY <1>1 DEF Written
<1>3. Typed' /\ ClosedInv' /\ QuarantineInv' /\ AckedInv' /\ OpenInv'
  BY <1>1, <1>2 DEF StoreInv, Typed, ClosedInv, QuarantineInv, AckedInv, OpenInv
<1>4. IsTokens(Written)' /\ (corruptions = 0 => Clean(Written))'
  BY <1>1, <1>2 DEF StoreInv
<1> QED
  BY <1>1, <1>2, <1>3, <1>4 DEF StoreInv

\* An append adds one record, with the payload it was given.
LEMMA AppendedStep ==
  ASSUME StoreInv, NEW p,
         (AppendFinding /\ p = Finding) \/ (p \in Payloads /\ AppendJson(p))
  PROVE  /\ StoreInv' /\ UNCHANGED <<acked, corruptions>> /\ p \in Payloads \cup {Finding}
         /\ IsSeq(Written') /\ Begins(Written, Written')
         /\ ValidRecords(Written') = ValidRecords(Written) + 1
         /\ Written'[2 * ValidRecords(Written')][1].payload = p
<1>1. /\ store \in {"finding", "open"} /\ AppendLine(p) /\ p \in Payloads \cup {Finding}
      /\ UNCHANGED <<file, synced, store, writable, quarantined, acked, corruptions>>
  BY DEF AppendFinding, AppendJson, disk, flags, faults
<1>2. writable
  BY DEF AppendFinding, AppendJson, StoreInv, OpenInv
<1> QED
  BY <1>1, <1>2, AppendStep

\* Every step keeps the invariant.
LEMMA StoreKept == StoreInv /\ [Next]_vars => StoreInv'
<1> SUFFICES ASSUME StoreInv, [Next]_vars PROVE StoreInv'
  OBVIOUS
<1>1. CASE RecoverClean
  BY <1>1, RecoverCleanStep
<1>2. CASE RecoverRefused
  BY <1>2, RecoverRefusedStep
<1>3. CASE QuarantineTail
  BY <1>3, QuarantineTailStep
<1>4. CASE SetLen
  BY <1>4, SetLenStep
<1>5. CASE AppendFinding
  BY <1>5, AppendedStep
<1>6. ASSUME NEW p \in Payloads, AppendJson(p) PROVE StoreInv'
  BY <1>6, AppendedStep
<1>7. ASSUME NEW p \in Payloads, AppendTorn(p) PROVE StoreInv'
  BY <1>7, AppendTornStep
<1>8. CASE FlushOk
  BY <1>8, FlushOkStep
<1>9. CASE FlushFails
  BY <1>9, FlushFailsStep
<1>10. CASE Stop
  BY <1>10, StopStep
<1>11. CASE CorruptAtRest
  BY <1>11, CorruptAtRestStep
<1>12. CASE QuarantineFails
  BY <1>12, QuarantineFailsStep
<1>13. CASE UNCHANGED vars
  BY <1>13, StoreUnchanged
<1> QED
  BY <1>1, <1>2, <1>3, <1>4, <1>5, <1>6, <1>7, <1>8, <1>9, <1>10, <1>11, <1>12, <1>13 DEF Next

\* The store's inductive invariant holds in every reachable state.
LEMMA StoreInvariant == Spec => []StoreInv
BY StoreInitially, StoreKept, PTL DEF Spec

-----------------------------------------------------------------------------
\* The theorems about states

\* ChainContinues is part of OpenInv.
LEMMA ContinuesByInv == StoreInv => ChainContinues
<1> SUFFICES ASSUME StoreInv, store = "open", writable
             PROVE  /\ Rest(Written) = <<>>
                    /\ sequence = ValidRecords(Written)
                    /\ previous_hash = LastHash(Written)
  BY DEF ChainContinues, Written
<1>1. /\ sequence \in Nat /\ ValidRecords(Written) = sequence /\ Len(Written) = 2 * sequence
      /\ previous_hash = HashAt(Written, sequence)
  BY OpenFacts
<1>2. Rest(Written) = <<>>
  BY <1>1, WrittenFacts, RestFacts DEF StoreInv
<1> QED
  BY <1>1, <1>2 DEF LastHash, HashAt

\* The file is a beginning of what was written, and as clean.
LEMMA RecoverableByInv == StoreInv => AckedIsRecoverable
<1> SUFFICES ASSUME StoreInv PROVE AckedIsRecoverable
  OBVIOUS
<1>1. IsSeq(file) /\ IsTokens(file) /\ IsSeq(Written) /\ Begins(file, Written) /\ Len(file) \in Nat
  BY WrittenFacts
<1>2. ValidRecords(file) \in Nat /\ \A n \in Nat : IsChain(file, n) => n <= ValidRecords(file)
  BY <1>1, ValidRecordsFacts
<1>3. acked \in Nat /\ acked <= ValidRecords(file)
  BY <1>2 DEF StoreInv, Typed, AckedInv
<1>4. ASSUME corruptions = 0 PROVE ~Corrupt(file)
  <2>1. Clean(Written)
    BY <1>4 DEF StoreInv
  <2>2. Clean(file)
    BY <1>1, <2>1, BeginningFacts
  <2>3. Corrupt(file) <=> Len(file) >= 2 * ValidRecords(file) + 3
    BY <1>1, RestFacts
  <2> QED
    BY <1>1, <1>2, <2>2, <2>3 DEF Clean
<1> QED
  BY <1>2, <1>3, <1>4 DEF AckedIsRecoverable

\* The store always continues the chain that is on file and in the buffer: no
\* failed flush, torn line, crash or quarantine makes append_json write a
\* record that create_or_recover would not accept.
THEOREM ChainSound == Spec => []ChainContinues
BY StoreInvariant, ContinuesByInv, PTL

\* Every record a successful flush covered is read back by every later
\* recovery, however often the process stops, unless it or one before it was
\* altered; and a file nobody altered is never refused.
THEOREM RecoverySound == Spec => []AckedIsRecoverable
BY StoreInvariant, RecoverableByInv, PTL

-----------------------------------------------------------------------------
\* The tails that were cut off

\* What is cached is in a quarantine file, and so is what was cut, or a power
\* loss has taken it since.
CopiesInv == cached \subseteq quarantined /\ CutTailsAreKept

\* Every step keeps the copies: a further copy takes none away, the only tail
\* ever cut is one whose copy is complete and was made in this very startup, and
\* what a power loss takes of the cut ones is counted.
LEMMA CopiesKept == StoreInv /\ CopiesInv /\ [Next]_vars => CopiesInv'
<1> SUFFICES ASSUME StoreInv, CopiesInv, [Next]_vars PROVE CopiesInv'
  OBVIOUS
<1>1. ASSUME NEW tail, Copied(tail), UNCHANGED <<cut, lost>> PROVE CopiesInv'
  BY <1>1 DEF Copied, CopiesInv, CutTailsAreKept
<1>2. CASE QuarantineTail
  BY <1>1, <1>2 DEF QuarantineTail
<1>3. CASE QuarantineFails
  BY <1>1, <1>3 DEF QuarantineFails
<1>4. CASE SetLen
  <2>1. Rest(file) \in quarantined
    BY <1>4 DEF SetLen, StoreInv, QuarantineInv
  <2>2. cut' = cut \cup {Rest(file)} /\ UNCHANGED <<quarantined, cached, lost>>
    BY <1>4 DEF SetLen
  <2> QED
    BY <2>1, <2>2 DEF CopiesInv, CutTailsAreKept
<1>5. CASE Stop
  <2>1. UNCHANGED <<quarantined, cached, lost>> \/ LoseCopies
    BY <1>5 DEF Stop
  <2>2. UNCHANGED cut
    BY <1>5 DEF Stop
  <2>3. ASSUME NEW gone \in SUBSET cached,
               quarantined' = quarantined \ gone, cached' = {}, lost' = lost \cup (gone \cap cut)
        PROVE  CopiesInv'
    BY <2>2, <2>3 DEF CopiesInv, CutTailsAreKept
  <2> QED
    BY <2>1, <2>2, <2>3 DEF LoseCopies, CopiesInv, CutTailsAreKept
<1>6. CASE UNCHANGED <<quarantined, cached, cut, lost>>
  BY <1>6 DEF CopiesInv, CutTailsAreKept
<1>7. RecoverClean \/ RecoverRefused \/ AppendFinding \/ FlushOk \/ FlushFails \/ CorruptAtRest
      \/ UNCHANGED vars \/ (\E p \in Payloads : AppendJson(p) \/ AppendTorn(p))
      => UNCHANGED <<quarantined, cached, cut, lost>>
  BY DEF RecoverClean, RecoverRefused, AppendFinding, FlushOk, FlushFails, CorruptAtRest, vars,
         AppendJson, AppendTorn
<1> QED
  BY <1>2, <1>3, <1>4, <1>5, <1>6, <1>7 DEF Next

\* The copies are as CopiesInv says in every reachable state.
LEMMA CopiesInvariant == Spec => []CopiesInv
<1>1. Init => CopiesInv
  BY DEF Init, CopiesInv, CutTailsAreKept
<1>2. StoreInv /\ CopiesInv /\ [Next]_vars => CopiesInv'
  BY CopiesKept
<1> QED
  BY <1>1, <1>2, StoreInvariant, PTL DEF Spec

\* Whatever create_or_recover cut off, in any of its runs, is on the disk, whole,
\* unless the power failed after the cut with the copy still unwritten.
THEOREM CutTailsSound == Spec => []CutTailsAreKept
<1>1. CopiesInv => CutTailsAreKept
  BY DEF CopiesInv
<1> QED
  BY <1>1, CopiesInvariant, PTL

-----------------------------------------------------------------------------
\* The theorems about steps

\* A record altered with bytes after it stops every recovery of the file: it
\* cannot be in the chain of an open store, validate_existing takes it for
\* corruption, and nothing but a further alteration changes the file.
THEOREM MiddleCorruptionSound == Spec => MiddleCorruptionFailsClosed
<1> DEFINE Broken == \E i \in DOMAIN file : i < Len(file) /\ file[i][2] = "end" /\ IsAltered(file[i])
           Goal == (file' = file \/ corruptions' > corruptions) /\ store' \in {"closed", "refused"}
<1>1. ASSUME StoreInv, Broken PROVE Len(file) >= 2 * ValidRecords(file) + 3
  <2>1. PICK i \in DOMAIN file : i < Len(file) /\ file[i][2] = "end" /\ IsAltered(file[i])
    BY <1>1
  <2>2. PICK f, v : f = file /\ v = ValidRecords(file)
    OBVIOUS
  <2>3. IsSeq(f) /\ IsTokens(f) /\ Len(f) \in Nat /\ DOMAIN f = 1..Len(f)
    BY <1>1, <2>2, WrittenFacts DEF IsSeq
  <2>4. v \in Nat /\ IsChain(f, v)
    BY <2>2, <2>3, ValidRecordsFacts
  <2>5. i \in 1..Len(f) /\ i \in Nat \ {0} /\ i < Len(f) /\ f[i][2] = "end" /\ IsAltered(f[i])
    BY <2>1, <2>2, <2>3
  <2>6. PICK n \in Nat : i = 2 * n + 1 \/ i = 2 * n + 2
    BY <2>5, Positions
  <2>7. i # 2 * n + 1
    <3> SUFFICES ASSUME i = 2 * n + 1 PROVE FALSE
      OBVIOUS
    <3>1. n \in 0..Len(f) /\ 2 * n + 1 <= Len(f)
      BY <2>3, <2>5
    <3>2. f[i] = <<f[i][1], "start">>
      BY <2>3, <3>1 DEF IsTokens, IsToken
    <3> QED
      BY <2>5, <3>2
  <2>8. ~(n + 1 <= v)
    <3> SUFFICES ASSUME n + 1 <= v PROVE FALSE
      OBVIOUS
    <3>1. n + 1 \in 1..v /\ i = 2 * (n + 1)
      BY <2>4, <2>6, <2>7
    <3>2. ~IsAltered(f[2 * (n + 1)])
      BY <2>4, <3>1, ValidIsNotAltered
    <3> QED
      BY <2>5, <3>1, <3>2
  <2> QED
    BY <2>2, <2>3, <2>4, <2>5, <2>6, <2>7, <2>8
<1>2. ASSUME StoreInv, Broken PROVE Corrupt(file) /\ Rest(file) # <<>>
  <2>1. Len(file) >= 2 * ValidRecords(file) + 3
    BY <1>1, <1>2
  <2>2. IsSeq(file) /\ IsTokens(file) /\ Len(file) \in Nat /\ ValidRecords(file) \in Nat
    BY <1>2, WrittenFacts, ValidRecordsFacts
  <2> QED
    BY <2>1, <2>2, RestFacts
<1>3. ASSUME StoreInv, Broken PROVE store \in {"closed", "refused"}
  <2>1. store # "quarantining"
    BY <1>2, <1>3 DEF StoreInv, QuarantineInv
  <2>2. ASSUME store \in {"finding", "open"} PROVE FALSE
    <3>1. Clean(Written)
      <4>1. ValidRecords(Written) = sequence
        BY <1>3, <2>2, OpenFacts
      <4> QED
        BY <1>3, <2>2, <4>1 DEF StoreInv, OpenInv, Clean
    <3>2. Clean(file)
      BY <1>3, <3>1, WrittenFacts, BeginningFacts
    <3>3. ValidRecords(file) \in Nat /\ Len(file) \in Nat
      BY <1>3, WrittenFacts, ValidRecordsFacts
    <3> QED
      BY <1>1, <1>3, <3>2, <3>3 DEF Clean
  <2> QED
    BY <1>3, <2>1, <2>2 DEF StoreInv, Typed
<1>4. ASSUME StoreInv, [Next]_vars, Broken PROVE Goal
  <2>1. Corrupt(file) /\ Rest(file) # <<>> /\ store \in {"closed", "refused"} /\ unflushed = NoPayload
    BY <1>2, <1>3, <1>4, ClosedFacts
  <2> HIDE DEF Broken
  <2>2. CASE RecoverRefused
    BY <2>1, <2>2 DEF RecoverRefused, disk
  <2>3. CASE CorruptAtRest
    <3>1. corruptions \in Nat /\ corruptions' = corruptions + 1 /\ store' = store
      BY <1>4, <2>3 DEF CorruptAtRest, StoreInv, Typed
    <3> QED
      BY <2>1, <3>1
  <2>4. CASE UNCHANGED vars
    BY <2>1, <2>4 DEF vars
  <2>5. /\ ~RecoverClean /\ ~QuarantineTail /\ ~QuarantineFails /\ ~SetLen
        /\ ~AppendFinding /\ ~FlushOk /\ ~FlushFails /\ ~Stop
        /\ \A p \in Payloads : ~AppendJson(p) /\ ~AppendTorn(p)
    BY <2>1 DEF RecoverClean, QuarantineTail, QuarantineFails, SetLen, AppendFinding, FlushOk, FlushFails, Stop,
                AppendJson, AppendTorn
  <2> QED
    BY <1>4, <2>2, <2>3, <2>4, <2>5 DEF Next
<1>5. ASSUME StoreInv, [Next]_vars
      PROVE  [Broken => /\ file' = file \/ corruptions' > corruptions
                        /\ store' \in {"closed", "refused"}]_vars
  BY <1>4, <1>5
<1> QED
  BY <1>5, StoreInvariant, PTL DEF Spec, MiddleCorruptionFailsClosed

-----------------------------------------------------------------------------
\* The refinement

\* What a reader gets from a file: the mapped log.
LogOf(t) == [i \in 1..ValidRecords(t) |-> t[2 * i][1].payload]

\* The log of a file that agrees with another as far as its records go.
LEMMA LogPart ==
  ASSUME NEW t, IsSeq(t), NEW u, IsSeq(u), ValidRecords(u) <= ValidRecords(t),
         \A j \in 1..(2 * ValidRecords(u)) : u[j] = t[j]
  PROVE  /\ IsSeq(LogOf(t)) /\ Len(LogOf(t)) = ValidRecords(t)
         /\ LogOf(u) = SubSeq(LogOf(t), 1, ValidRecords(u))
<1>1. PICK m, n : m = ValidRecords(u) /\ n = ValidRecords(t)
  OBVIOUS
<1>2. m \in Nat /\ n \in Nat /\ m <= n
  BY <1>1, ValidRecordsFacts
<1>3. PICK a, b : a = LogOf(t) /\ b = LogOf(u)
  OBVIOUS
<1>4. a = [i \in 1..n |-> t[2 * i][1].payload] /\ b = [i \in 1..m |-> u[2 * i][1].payload]
  BY <1>1, <1>3 DEF LogOf
<1>5. /\ \A i \in 1..n : a[i] = t[2 * i][1].payload
      /\ \A i \in 1..m : b[i] = u[2 * i][1].payload
      /\ a = [i \in 1..n |-> a[i]] /\ b = [i \in 1..m |-> b[i]]
  BY <1>4
<1>6. IsSeq(a) /\ Len(a) = n /\ IsSeq(b) /\ Len(b) = m
  BY <1>2, <1>5, FunctionIsSeq
<1>7. PICK c : c = SubSeq(a, 1, m)
  OBVIOUS
<1>8. IsSeq(c) /\ Len(c) = m /\ \A i \in 1..m : c[i] = a[i]
  BY <1>2, <1>6, <1>7, Prefix
<1>9. ASSUME NEW i \in 1..m PROVE b[i] = c[i]
  <2>1. i \in 1..n /\ 2 * i \in 1..(2 * m)
    BY <1>2
  <2>2. u[2 * i] = t[2 * i]
    BY <1>1, <2>1
  <2> QED
    <3>1. a[i] = t[2 * i][1].payload /\ b[i] = u[2 * i][1].payload
      BY <1>5, <2>1
    <3>2. c[i] = a[i]
      BY <1>8
    <3> QED
      BY <2>2, <3>1, <3>2
<1>10. b = c
  BY <1>6, <1>8, <1>9, SameSeq
<1> QED
  BY <1>1, <1>3, <1>6, <1>7, <1>10

\* The same log after a tail was added or cut off.
LEMMA LogKept ==
  ASSUME NEW t, IsSeq(t), NEW u, IsSeq(u), Begins(u, t), ValidRecords(u) = ValidRecords(t)
  PROVE  LogOf(u) = LogOf(t)
<1>1. PICK n : n = ValidRecords(t)
  OBVIOUS
<1>2. n \in Nat /\ 2 * n <= Len(u) /\ Len(u) \in Nat
  BY <1>1, ValidRecordsFacts DEF IsChain, IsSeq
<1>3. ASSUME NEW i \in 1..n PROVE u[2 * i] = t[2 * i]
  <2>1. 2 * i \in 1..Len(u)
    BY <1>2
  <2> QED
    BY <2>1 DEF Begins
<1>4. [i \in 1..n |-> u[2 * i][1].payload] = [i \in 1..n |-> t[2 * i][1].payload]
  BY <1>3
<1> QED
  BY <1>1, <1>4 DEF LogOf

\* One record more is one payload more.
LEMMA LogAppended ==
  ASSUME NEW t, IsSeq(t), NEW u, IsSeq(u), Begins(t, u),
         ValidRecords(u) = ValidRecords(t) + 1,
         NEW p, u[2 * ValidRecords(u)][1].payload = p
  PROVE  LogOf(u) = Append(LogOf(t), p)
<1>1. PICK n : n = ValidRecords(t)
  OBVIOUS
<1>2. n \in Nat /\ 2 * n <= Len(t) /\ Len(t) \in Nat /\ ValidRecords(u) = n + 1 /\ n + 1 \in Nat
  BY <1>1, ValidRecordsFacts DEF IsChain, IsSeq
<1>3. PICK a, b : a = LogOf(t) /\ b = LogOf(u)
  OBVIOUS
<1>4. a = [i \in 1..n |-> t[2 * i][1].payload] /\ b = [i \in 1..(n + 1) |-> u[2 * i][1].payload]
  BY <1>1, <1>2, <1>3 DEF LogOf
<1>5. /\ \A i \in 1..n : a[i] = t[2 * i][1].payload
      /\ \A i \in 1..(n + 1) : b[i] = u[2 * i][1].payload
      /\ a = [i \in 1..n |-> a[i]] /\ b = [i \in 1..(n + 1) |-> b[i]]
  BY <1>4
<1>6. IsSeq(a) /\ Len(a) = n /\ IsSeq(b) /\ Len(b) = n + 1
  BY <1>2, <1>5, FunctionIsSeq
<1>7. \A i \in 1..n : b[i] = a[i]
  <2> SUFFICES ASSUME NEW i \in 1..n PROVE b[i] = a[i]
    OBVIOUS
  <2>1. i \in 1..(n + 1) /\ 2 * i \in 1..Len(t)
    BY <1>2
  <2>2. t[2 * i] = u[2 * i]
    BY <2>1 DEF Begins
  <2> QED
    BY <1>5, <2>1, <2>2
<1>8. b[n + 1] = p
  <2>1. n + 1 \in 1..(n + 1)
    BY <1>2
  <2> QED
    BY <1>2, <1>5, <2>1
<1>9. b = Append(a, p)
  <2> DEFINE S == ElementsOf(a) \cup ElementsOf(b) \cup {p}
  <2>1. a \in Seq(S) /\ b \in Seq(S) /\ p \in S
    BY <1>6, SeqOverElements
  <2> HIDE DEF S
  <2>2. PICK c : c = Append(a, p)
    OBVIOUS
  <2>3. c \in Seq(S) /\ Len(c) = n + 1 /\ (\A i \in 1..n : c[i] = a[i]) /\ c[n + 1] = p
    BY <1>2, <1>6, <2>1, <2>2, AppendProperties
  <2>4. ASSUME NEW i \in 1..Len(b) PROVE b[i] = c[i]
    <3>1. i \in 1..n \/ i = n + 1
      BY <1>2, <1>6
    <3> QED
      BY <1>7, <1>8, <2>3, <3>1
  <2> QED
    BY <1>6, <2>1, <2>2, <2>3, <2>4, SeqEqual
<1> QED
  BY <1>3, <1>9

\* What a step does to the mapped variables.
LEMMA LogStep ==
  ASSUME StoreInv, [Next]_vars
  PROVE  \/ UNCHANGED <<LogOf(Written), acked, corruptions>>
         \/ /\ \E p \in Payloads \cup {Finding} : LogOf(Written)' = Append(LogOf(Written), p)
            /\ UNCHANGED <<acked, corruptions>>
         \/ /\ acked' = Len(LogOf(Written))
            /\ UNCHANGED <<LogOf(Written), corruptions>>
         \/ /\ \E n \in acked..Len(LogOf(Written)) : LogOf(Written)' = SubSeq(LogOf(Written), 1, n)
            /\ UNCHANGED <<acked, corruptions>>
         \/ /\ corruptions' = corruptions + 1
            /\ \E n \in 0..Len(LogOf(Written)) :
                 /\ LogOf(Written)' = SubSeq(LogOf(Written), 1, n)
                 /\ acked' = IF acked <= n THEN acked ELSE n
<1>0. PICK w, w1, v : w = Written /\ w1 = Written' /\ v = ValidRecords(Written)
  OBVIOUS
<1>1. IsSeq(w) /\ v \in Nat /\ v = ValidRecords(w) /\ IsChain(w, v) /\ Len(w) \in Nat
      /\ 2 * v <= Len(w)
  BY <1>0, WrittenFacts, ValidRecordsFacts DEF IsSeq, IsChain
<1>2. LogOf(Written) = LogOf(w) /\ LogOf(Written)' = LogOf(w1)
  BY <1>0
<1>3. Len(LogOf(w)) = v
  <2>1. ValidRecords(w) <= ValidRecords(w) /\ \A j \in 1..(2 * ValidRecords(w)) : w[j] = w[j]
    BY <1>1
  <2> QED
    BY <1>1, <2>1, LogPart
<1>4. CASE \/ RecoverClean \/ RecoverRefused \/ QuarantineTail \/ QuarantineFails \/ FlushFails
           \/ UNCHANGED vars
  <2>1. UNCHANGED <<Written, acked, corruptions>>
    BY <1>4, RecoverCleanStep, RecoverRefusedStep, QuarantineTailStep, QuarantineFailsStep,
       FlushFailsStep, StoreUnchanged
  <2> QED
    BY <1>0, <1>2, <2>1
<1>5. CASE SetLen
  <2>1. /\ UNCHANGED <<acked, corruptions>> /\ IsSeq(w1) /\ Begins(w1, w)
        /\ ValidRecords(w1) = ValidRecords(w)
    BY <1>0, <1>5, SetLenStep
  <2>2. LogOf(w1) = LogOf(w)
    BY <1>1, <2>1, LogKept
  <2> QED
    BY <1>2, <2>1, <2>2
<1>6. ASSUME NEW p \in Payloads, AppendTorn(p)
      PROVE  UNCHANGED <<LogOf(Written), acked, corruptions>>
  <2>1. /\ UNCHANGED <<acked, corruptions>> /\ IsSeq(w1) /\ Begins(w, w1)
        /\ ValidRecords(w1) = ValidRecords(w)
    BY <1>0, <1>6, AppendTornStep
  <2>2. LogOf(w1) = LogOf(w)
    BY <1>1, <2>1, LogKept
  <2> QED
    BY <1>2, <2>1, <2>2
<1>7. ASSUME NEW p, (AppendFinding /\ p = Finding) \/ (p \in Payloads /\ AppendJson(p))
      PROVE  /\ \E q \in Payloads \cup {Finding} : LogOf(Written)' = Append(LogOf(Written), q)
             /\ UNCHANGED <<acked, corruptions>>
  <2>1. /\ UNCHANGED <<acked, corruptions>> /\ p \in Payloads \cup {Finding}
        /\ IsSeq(w1) /\ Begins(w, w1) /\ ValidRecords(w1) = ValidRecords(w) + 1
        /\ w1[2 * ValidRecords(w1)][1].payload = p
    BY <1>0, <1>7, AppendedStep
  <2>2. LogOf(w1) = Append(LogOf(w), p)
    BY <1>1, <2>1, LogAppended
  <2> QED
    BY <1>2, <2>1, <2>2
<1>8. CASE FlushOk
  <2>1. UNCHANGED <<Written, corruptions>> /\ acked' = v
    BY <1>0, <1>8, FlushOkStep
  <2> QED
    BY <1>0, <1>2, <1>3, <2>1
<1>9. CASE Stop
  <2>1. /\ UNCHANGED <<acked, corruptions>> /\ IsSeq(w1) /\ Begins(w1, w)
        /\ acked <= ValidRecords(w1)
    BY <1>0, <1>9, StopStep
  <2>2. PICK n : n = ValidRecords(w1)
    OBVIOUS
  <2>3. n \in Nat /\ n <= v /\ 2 * n <= Len(w1) /\ Len(w1) \in Nat
    BY <1>1, <2>1, <2>2, ValidRecordsFacts, BeginningFacts DEF IsChain, IsSeq
  <2>4. \A j \in 1..(2 * n) : w1[j] = w[j]
    BY <2>1, <2>3 DEF Begins
  <2>5. LogOf(w1) = SubSeq(LogOf(w), 1, n)
    BY <1>1, <2>1, <2>2, <2>3, <2>4, LogPart
  <2>6. n \in acked..Len(LogOf(w))
    <3>1. acked \in Nat
      BY DEF StoreInv, Typed
    <3> QED
      BY <1>1, <1>3, <2>1, <2>2, <2>3, <3>1
  <2> QED
    BY <1>2, <2>1, <2>5, <2>6
<1>10. CASE CorruptAtRest
  <2>1. corruptions' = corruptions + 1 /\ IsSeq(w1)
    BY <1>0, <1>10, CorruptAtRestStep
  <2>2. PICK i \in 1..v : /\ ValidRecords(w1) = i - 1
                          /\ acked' = IF acked < i THEN acked ELSE i - 1
                          /\ \A j \in 1..(2 * (i - 1)) : w1[j] = w[j]
    BY <1>0, <1>10, CorruptAtRestStep
  <2>3. i \in Nat /\ i - 1 \in Nat /\ i - 1 <= v /\ acked \in Nat
    BY <1>1 DEF StoreInv, Typed
  <2>4. LogOf(w1) = SubSeq(LogOf(w), 1, i - 1)
    BY <1>1, <2>1, <2>2, <2>3, LogPart
  <2>5. acked' = (IF acked <= i - 1 THEN acked ELSE i - 1) /\ i - 1 \in 0..Len(LogOf(w))
    BY <1>1, <1>3, <2>2, <2>3
  <2> QED
    BY <1>2, <2>1, <2>4, <2>5
<1> QED
  BY <1>4, <1>5, <1>6, <1>7, <1>8, <1>9, <1>10 DEF Next

\* Appends, flushes, failed and torn writes, the end of the process at any
\* point and every recovery implement an append-only log: what a flush covered
\* is never lost, reordered or replaced, and an alteration costs the altered
\* record and those after it.
THEOREM StoreImplementsLog == Spec => ImplementsLog
<1> DEFINE log == [i \in 1..ValidRecords(file \o buffer) |-> (file \o buffer)[2 * i][1].payload]
<1>1. log = LogOf(Written) /\ log' = LogOf(Written)'
  BY DEF LogOf, Written
<1>2. Init => Log!Init
  <2> SUFFICES ASSUME Init PROVE log = <<>> /\ acked = 0 /\ corruptions = 0
    BY DEF Log!Init
  <2>1. acked = 0 /\ corruptions = 0 /\ file = <<>> /\ buffer = <<>>
    BY DEF Init
  <2>2. PICK t : t = Written
    OBVIOUS
  <2>3. t = <<>>
    BY <2>1, <2>2, ShortSeqs, JoinedAgain DEF Written
  <2>4. IsSeq(t) /\ Len(t) = 0
    BY <2>3, ShortSeqs
  <2>5. ValidRecords(t) = 0
    BY <2>4, ValidRecordsFacts DEF IsChain
  <2>6. LogOf(t) = <<>>
    <3>1. Len(LogOf(t)) = 0 /\ IsSeq(LogOf(t))
      <4>1. \A j \in 1..(2 * ValidRecords(t)) : t[j] = t[j]
        OBVIOUS
      <4> QED
        BY <2>4, <2>5, <4>1, LogPart
    <3> QED
      BY <3>1, ShortSeqs
  <2> QED
    BY <1>1, <2>1, <2>2, <2>6
<1>3. ASSUME StoreInv, [Next]_vars PROVE [Log!Next]_(Log!logVars)
  <2> HIDE DEF log
  <2>1. \/ UNCHANGED <<log, acked, corruptions>>
        \/ /\ \E p \in Payloads \cup {Finding} : log' = Append(log, p)
           /\ UNCHANGED <<acked, corruptions>>
        \/ /\ acked' = Len(log)
           /\ UNCHANGED <<log, corruptions>>
        \/ /\ \E n \in acked..Len(log) : log' = SubSeq(log, 1, n)
           /\ UNCHANGED <<acked, corruptions>>
        \/ /\ corruptions' = corruptions + 1
           /\ \E n \in 0..Len(log) :
                /\ log' = SubSeq(log, 1, n)
                /\ acked' = IF acked <= n THEN acked ELSE n
    BY <1>1, <1>3, LogStep
  <2> USE DEF log
  <2> QED
    BY <2>1 DEF Log!Next, Log!logVars, Log!Write, Log!MakeDurable, Log!Lose, Log!Damage
<1> QED
  BY <1>2, <1>3, StoreInvariant, PTL DEF Spec, ImplementsLog, Log!Spec

-----------------------------------------------------------------------------
\* The types: the records handed to write are numbered without a gap, and what
\* is written, recovered or flushed carries no other number

Numbers == {r.sequence : r \in appended}

NumberedTo(t, m) == \A i \in 1..Len(t) : t[i][1].sequence \in 1..m

CountsTo(m) ==
  /\ Numbers = 1..m
  /\ sequence <= m
  /\ acked <= m
  /\ NumberedTo(file, m)
  /\ NumberedTo(buffer, m)

BoundsInv ==
  /\ IsFiniteSet(appended)
  /\ Cardinality(appended) <= MaxRecords
  /\ \E m \in Nat : CountsTo(m)
  /\ paused \in BOOLEAN
  /\ crashes \in 0..MaxCrashes
  /\ corruptions \in 0..MaxCorruptions

\* Two numbered sequences put together, and a part of one.
LEMMA NumberedParts ==
  ASSUME NEW m \in Nat, NEW t, IsSeq(t), NumberedTo(t, m)
  PROVE  /\ \A u : IsSeq(u) /\ NumberedTo(u, m) => IsSeq(t \o u) /\ NumberedTo(t \o u, m)
         /\ \A j \in Nat \ {0}, k \in Nat :
              k <= Len(t) => IsSeq(SubSeq(t, j, k)) /\ NumberedTo(SubSeq(t, j, k), m)
         /\ \A n \in Nat : m <= n => NumberedTo(t, n)
<1>1. ASSUME NEW u, IsSeq(u), NumberedTo(u, m) PROVE IsSeq(t \o u) /\ NumberedTo(t \o u, m)
  <2>1. PICK w : w = t \o u
    OBVIOUS
  <2>2. Joins(w, t, u)
    BY <1>1, <2>1, Concatenated
  <2>3. ASSUME NEW i \in 1..Len(w) PROVE w[i][1].sequence \in 1..m
    <3>1. CASE i \in 1..Len(t)
      BY <2>2, <3>1 DEF Joins, NumberedTo
    <3>2. CASE i \notin 1..Len(t)
      <4>1. i - Len(t) \in 1..Len(u) /\ i = Len(t) + (i - Len(t))
        BY <1>1, <2>2, <3>2 DEF Joins, IsSeq
      <4> QED
        BY <1>1, <2>2, <4>1 DEF Joins, NumberedTo
    <3> QED
      BY <3>1, <3>2
  <2> QED
    BY <2>1, <2>2, <2>3 DEF Joins, NumberedTo
<1>2. ASSUME NEW j \in Nat \ {0}, NEW k \in Nat, k <= Len(t)
      PROVE  IsSeq(SubSeq(t, j, k)) /\ NumberedTo(SubSeq(t, j, k), m)
  <2>1. /\ IsSeq(SubSeq(t, j, k))
        /\ Len(SubSeq(t, j, k)) = IF j <= k THEN k - j + 1 ELSE 0
        /\ \A i \in 1..(k - j + 1) : SubSeq(t, j, k)[i] = t[j + i - 1]
    BY <1>2, Part
  <2>2. ASSUME NEW i \in 1..Len(SubSeq(t, j, k)) PROVE SubSeq(t, j, k)[i][1].sequence \in 1..m
    <3>1. i \in 1..(k - j + 1) /\ j + i - 1 \in 1..Len(t)
      BY <1>2, <2>1 DEF IsSeq
    <3> QED
      BY <2>1, <3>1 DEF NumberedTo
  <2> QED
    BY <2>1, <2>2 DEF NumberedTo
<1>3. ASSUME NEW n \in Nat, m <= n PROVE NumberedTo(t, n)
  BY <1>3 DEF NumberedTo
<1> QED
  BY <1>1, <1>2, <1>3

\* A chain's n-th record has the number n.
LEMMA ChainNumbered ==
  ASSUME NEW m \in Nat, NEW t, IsSeq(t), NumberedTo(t, m), NEW n \in Nat, IsChain(t, n)
  PROVE  n <= m
<1>1. CASE n = 0
  BY <1>1
<1>2. CASE n # 0
  <2>1. n \in 1..n /\ 2 * n \in 1..Len(t)
    BY <1>2 DEF IsChain, IsSeq
  <2>2. t[2 * n][1].sequence = n
    BY <2>1 DEF IsChain, ValidLine
  <2> QED
    BY <2>1, <2>2 DEF NumberedTo
<1> QED
  BY <1>1, <1>2

\* The numbers are no more than the records.
LEMMA NumbersBounded ==
  ASSUME NEW m \in Nat, Numbers = 1..m, IsFiniteSet(appended), Cardinality(appended) <= MaxRecords
  PROVE  m <= MaxRecords
<1> DEFINE f == [r \in appended |-> r.sequence]
<1>1. f \in Surjection(appended, 1..m)
  BY DEF Numbers, Surjection
<1>2. Cardinality(1..m) <= Cardinality(appended)
  BY <1>1, FS_Surjection
<1>3. Cardinality(1..m) = m
  BY FS_Interval
<1> QED
  BY <1>2, <1>3, FS_CardinalityType, StoreAssumption

\* Nothing is numbered yet.
LEMMA BoundsInitially == Init => BoundsInv
<1> SUFFICES ASSUME Init PROVE BoundsInv
  OBVIOUS
<1>1. IsFiniteSet(appended) /\ Cardinality(appended) = 0
  BY FS_EmptySet DEF Init
<1>2. CountsTo(0)
  <2>1. Numbers = 1..0
    BY DEF Init, Numbers
  <2>2. Len(file) = 0 /\ Len(buffer) = 0
    BY ShortSeqs DEF Init
  <2> QED
    BY <2>1, <2>2 DEF Init, CountsTo, NumberedTo
<1>3. 0 \in Nat /\ Cardinality(appended) <= MaxRecords
  BY <1>1, StoreAssumption
<1>4. paused \in BOOLEAN /\ crashes \in 0..MaxCrashes /\ corruptions \in 0..MaxCorruptions
  <2>1. paused \in BOOLEAN
    BY DEF Init
  <2>2. crashes = 0 /\ corruptions = 0
    BY DEF Init
  <2>3. crashes \in 0..MaxCrashes /\ corruptions \in 0..MaxCorruptions
    BY <2>2, StoreAssumption
  <2> QED
    BY <2>1, <2>3
<1> QED
  BY <1>1, <1>2, <1>3, <1>4 DEF BoundsInv

\* A record is handed to write: it has the number after the store's.
LEMMA NewNumber ==
  ASSUME BoundsInv, sequence \in Nat, NEW m \in Nat, CountsTo(m), NEW r,
         r.sequence = sequence + 1, appended' = appended \cup {r},
         Cardinality(appended) < MaxRecords
  PROVE  /\ IsFiniteSet(appended') /\ Cardinality(appended') <= MaxRecords
         /\ \E n \in Nat : m <= n /\ sequence + 1 <= n /\ Numbers' = 1..n
<1>1. IsFiniteSet(appended') /\ Cardinality(appended') <= Cardinality(appended) + 1
      /\ Cardinality(appended) \in Nat /\ Cardinality(appended') \in Nat
  <2>1. PICK A : A = appended
    OBVIOUS
  <2>2. IsFiniteSet(A) /\ Cardinality(A) \in Nat
    BY <2>1, FS_CardinalityType DEF BoundsInv
  <2>3. /\ IsFiniteSet(A \cup {r})
        /\ Cardinality(A \cup {r}) = IF r \in A THEN Cardinality(A) ELSE Cardinality(A) + 1
    BY <2>2, FS_AddElement
  <2>4. Cardinality(A \cup {r}) \in Nat
    BY <2>3, FS_CardinalityType
  <2> QED
    BY <2>1, <2>2, <2>3, <2>4
<1>2. Numbers' = Numbers \cup {sequence + 1}
  BY DEF Numbers
<1>3. Numbers = 1..m /\ sequence <= m
  BY DEF CountsTo
<1>4. Cardinality(appended') <= MaxRecords
  BY <1>1, StoreAssumption
<1>5. \E n \in Nat : m <= n /\ sequence + 1 <= n /\ Numbers' = 1..n
  <2>1. CASE sequence = m
    <3>1. Numbers' = 1..(m + 1)
      BY <1>2, <1>3, <2>1
    <3> QED
      BY <2>1, <3>1
  <2>2. CASE sequence < m
    <3>1. Numbers' = 1..m
      BY <1>2, <1>3, <2>2
    <3> QED
      BY <2>2, <3>1
  <2> QED
    BY <1>3, <2>1, <2>2
<1> QED
  BY <1>1, <1>4, <1>5

\* The line of a record has its number.
LEMMA LineNumbered ==
  ASSUME NEW r, NEW n \in Nat, r.sequence \in 1..n
  PROVE  IsSeq(Line(r)) /\ Len(Line(r)) = 2 /\ NumberedTo(Line(r), n)
<1>1. PICK b : b = Line(r)
  OBVIOUS
<1>2. IsSeq(b) /\ Len(b) = 2 /\ b[1] = <<r, "start">> /\ b[2] = <<r, "end">>
  BY <1>1, ShortSeqs DEF Line
<1>3. \A i \in 1..Len(b) : b[i][1] = r
  <2>1. \A i \in 1..Len(b) : i = 1 \/ i = 2
    BY <1>2
  <2> QED
    BY <1>2, <2>1
<1> QED
  BY <1>1, <1>2, <1>3 DEF NumberedTo

\* append_json: the line in the buffer has the new record's number.
LEMMA AppendBounds ==
  ASSUME StoreInv, BoundsInv, NEW p, AppendLine(p),
         UNCHANGED <<file, acked, paused, crashes, corruptions>>
  PROVE  BoundsInv'
<1>1. PICK r : r = ChainRecord(sequence + 1, previous_hash, p)
  OBVIOUS
<1>2. /\ Cardinality(appended) < MaxRecords /\ buffer' = buffer \o Line(r)
      /\ sequence' = sequence + 1 /\ appended' = appended \cup {r}
  BY <1>1 DEF AppendLine
<1>3. r.sequence = sequence + 1 /\ sequence \in Nat /\ IsSeq(file) /\ IsSeq(buffer) /\ acked \in Nat
  BY <1>1, WrittenFacts DEF ChainRecord, StoreInv, Typed
<1>4. PICK m \in Nat : CountsTo(m)
  BY DEF BoundsInv
<1>5. /\ IsFiniteSet(appended') /\ Cardinality(appended') <= MaxRecords
      /\ \E n \in Nat : m <= n /\ sequence + 1 <= n /\ Numbers' = 1..n
  BY <1>2, <1>3, <1>4, NewNumber
<1>6. PICK n \in Nat : m <= n /\ sequence + 1 <= n /\ Numbers' = 1..n
  BY <1>5
<1>7. NumberedTo(file, n) /\ NumberedTo(buffer, n)
  BY <1>3, <1>4, <1>6, NumberedParts DEF CountsTo
<1>8. IsSeq(Line(r)) /\ NumberedTo(Line(r), n)
  BY <1>3, <1>6, LineNumbered
<1>9. NumberedTo(buffer \o Line(r), n)
  BY <1>3, <1>7, <1>8, NumberedParts
<1>10. CountsTo(n)'
  <2>1. acked <= n
    BY <1>3, <1>4, <1>6 DEF CountsTo
  <2> QED
    BY <1>2, <1>6, <1>7, <1>9, <2>1 DEF CountsTo, NumberedTo
<1> QED
  BY <1>5, <1>10 DEF BoundsInv

\* A part of the buffer moves to the file.
LEMMA MovedNumbered ==
  ASSUME NEW m \in Nat, IsSeq(file), IsSeq(buffer), NumberedTo(file, m), NumberedTo(buffer, m),
         NEW k \in 0..Len(buffer)
  PROVE  /\ IsSeq(file \o SubSeq(buffer, 1, k)) /\ NumberedTo(file \o SubSeq(buffer, 1, k), m)
         /\ NumberedTo(SubSeq(buffer, k + 1, Len(buffer)), m)
<1>1. Len(buffer) \in Nat /\ k \in Nat /\ k + 1 \in Nat \ {0} /\ k <= Len(buffer)
  BY DEF IsSeq
<1>2. /\ IsSeq(SubSeq(buffer, 1, k)) /\ NumberedTo(SubSeq(buffer, 1, k), m)
      /\ NumberedTo(SubSeq(buffer, k + 1, Len(buffer)), m)
  BY <1>1, NumberedParts
<1> QED
  BY <1>2, NumberedParts

\* A torn write: the record has its number, the chain does not move.
LEMMA AppendTornBounds ==
  ASSUME StoreInv, BoundsInv, NEW p \in Payloads, AppendTorn(p)
  PROVE  BoundsInv'
<1>1. PICK r : r = ChainRecord(sequence + 1, previous_hash, p)
  OBVIOUS
<1>2. /\ Cardinality(appended) < MaxRecords /\ appended' = appended \cup {r}
      /\ UNCHANGED <<sequence, paused, acked, crashes, corruptions>>
  BY <1>1 DEF AppendTorn, chain, faults
<1>3. \/ /\ \E k \in 0..1 : file' = file \o buffer \o SubSeq(Line(r), 1, k)
         /\ buffer' = <<>>
      \/ \E k \in 0..Len(buffer) :
           /\ file' = file \o SubSeq(buffer, 1, k)
           /\ buffer' = SubSeq(buffer, k + 1, Len(buffer))
  BY <1>1 DEF AppendTorn
<1>4. r.sequence = sequence + 1 /\ sequence \in Nat /\ IsSeq(file) /\ IsSeq(buffer) /\ acked \in Nat
  BY <1>1, WrittenFacts DEF ChainRecord, StoreInv, Typed
<1>5. PICK m \in Nat : CountsTo(m)
  BY DEF BoundsInv
<1>6. /\ IsFiniteSet(appended') /\ Cardinality(appended') <= MaxRecords
      /\ \E n \in Nat : m <= n /\ sequence + 1 <= n /\ Numbers' = 1..n
  BY <1>2, <1>4, <1>5, NewNumber
<1>7. PICK n \in Nat : m <= n /\ sequence + 1 <= n /\ Numbers' = 1..n
  BY <1>6
<1>8. NumberedTo(file, n) /\ NumberedTo(buffer, n)
  BY <1>4, <1>5, <1>7, NumberedParts DEF CountsTo
<1>9. NumberedTo(file', n) /\ NumberedTo(buffer', n)
  <2>1. ASSUME NEW k \in 0..1, file' = file \o buffer \o SubSeq(Line(r), 1, k), buffer' = <<>>
        PROVE  NumberedTo(file', n) /\ NumberedTo(buffer', n)
    <3>1. IsSeq(Line(r)) /\ Len(Line(r)) = 2 /\ NumberedTo(Line(r), n)
      BY <1>4, <1>7, LineNumbered
    <3>2. k \in Nat /\ k <= Len(Line(r)) /\ 1 \in Nat \ {0}
      BY <3>1
    <3>3. IsSeq(SubSeq(Line(r), 1, k)) /\ NumberedTo(SubSeq(Line(r), 1, k), n)
      BY <3>1, <3>2, NumberedParts
    <3>4. IsSeq(file \o buffer) /\ NumberedTo(file \o buffer, n)
      BY <1>4, <1>8, NumberedParts
    <3>5. NumberedTo((file \o buffer) \o SubSeq(Line(r), 1, k), n)
      BY <3>3, <3>4, NumberedParts
    <3>6. Len(buffer') = 0
      BY <2>1, ShortSeqs
    <3>7. NumberedTo(buffer', n)
      BY <3>6 DEF NumberedTo
    <3>8. NumberedTo(file', n)
      BY <2>1, <3>5, Zenon
    <3> QED
      BY <3>7, <3>8
  <2>2. ASSUME NEW k \in 0..Len(buffer), file' = file \o SubSeq(buffer, 1, k),
               buffer' = SubSeq(buffer, k + 1, Len(buffer))
        PROVE  NumberedTo(file', n) /\ NumberedTo(buffer', n)
    BY <1>4, <1>8, <2>2, MovedNumbered
  <2> QED
    BY <1>3, <2>1, <2>2
<1>10. CountsTo(n)'
  <2>1. acked <= n /\ sequence <= n
    BY <1>4, <1>5, <1>7 DEF CountsTo
  <2> QED
    BY <1>2, <1>7, <1>9, <2>1 DEF CountsTo, NumberedTo
<1> QED
  BY <1>2, <1>6, <1>10 DEF BoundsInv

\* A recovery continues from the number of a record on file.
LEMMA RecoveredNumber ==
  ASSUME StoreInv, NEW m \in Nat, CountsTo(m)
  PROVE  ValidRecords(file) \in Nat /\ ValidRecords(file) <= m /\ 2 * ValidRecords(file) <= Len(file)
         /\ \A n \in Nat : IsChain(file, n) => n <= m
<1>1. IsSeq(file) /\ NumberedTo(file, m)
  BY WrittenFacts DEF CountsTo
<1>2. ValidRecords(file) \in Nat /\ IsChain(file, ValidRecords(file))
  BY <1>1, ValidRecordsFacts
<1> QED
  BY <1>1, <1>2, ChainNumbered DEF IsChain

\* Every token of a sequence of lines is a start or an end.
LEMMA TokenKinds ==
  ASSUME NEW t, IsSeq(t), IsTokens(t), NEW i \in 1..Len(t)
  PROVE  IsToken(t[i], "start") \/ IsToken(t[i], "end")
<1>1. i \in Nat \ {0} /\ i <= Len(t)
  BY DEF IsSeq
<1>2. PICK n \in Nat : i = 2 * n + 1 \/ i = 2 * n + 2
  BY <1>1, Positions
<1>3. n \in 0..Len(t)
  BY <1>1, <1>2 DEF IsSeq
<1> QED
  BY <1>1, <1>2, <1>3 DEF IsTokens

\* An altered record keeps its number.
LEMMA AlteredNumbered ==
  ASSUME StoreInv, CorruptAtRest, NEW m \in Nat, CountsTo(m)
  PROVE  NumberedTo(file', m) /\ NumberedTo(buffer', m)
<1>1. PICK f, i : f = file /\ file' = [j \in DOMAIN f |->
                     IF j \in {2 * i - 1, 2 * i} THEN AlteredToken(f[j]) ELSE f[j]]
  BY DEF CorruptAtRest
<1>2. IsSeq(f) /\ Len(f) \in Nat /\ IsTokens(f) /\ NumberedTo(f, m) /\ DOMAIN f = 1..Len(f)
  <2>1. IsSeq(file) /\ IsTokens(file) /\ Len(file) \in Nat /\ NumberedTo(file, m)
    BY WrittenFacts DEF CountsTo
  <2> QED
    BY <1>1, <2>1 DEF IsSeq
<1>3. PICK g : g = file'
  OBVIOUS
<1>4. g = [j \in 1..Len(f) |-> IF j \in {2 * i - 1, 2 * i} THEN AlteredToken(f[j]) ELSE f[j]]
  BY <1>1, <1>2, <1>3
<1>5. Len(g) = Len(f)
  <2>1. g = [j \in 1..Len(f) |-> g[j]]
    BY <1>4
  <2> QED
    BY <1>2, <2>1, FunctionIsSeq
<1>6. ASSUME NEW j \in 1..Len(g) PROVE g[j][1].sequence \in 1..m
  <2>1. f[j][1].sequence \in 1..m
    BY <1>2, <1>5 DEF NumberedTo
  <2>2. CASE g[j] = f[j]
    BY <2>1, <2>2
  <2>3. CASE g[j] = AlteredToken(f[j])
    <3>1. PICK part : IsToken(f[j], part)
      BY <1>2, <1>5, TokenKinds
    <3>2. PICK r : r = f[j][1] /\ IsRecord(r)
      BY <3>1 DEF IsToken
    <3>3. PICK q : q = [r EXCEPT !.record_hash = ZeroHash]
      OBVIOUS
    <3>4. q.sequence = r.sequence
      <4>1. r = [sequence |-> r.sequence, previous_hash |-> r.previous_hash, payload |-> r.payload,
                 record_hash |-> r.record_hash]
        BY <3>2 DEF IsRecord
      <4> QED
        BY <3>3, <4>1
    <3>5. g[j][1] = q
      BY <2>3, <3>2, <3>3 DEF AlteredToken
    <3> QED
      BY <2>1, <3>2, <3>4, <3>5
  <2> QED
    BY <1>4, <1>5, <2>2, <2>3
<1>7. UNCHANGED buffer /\ NumberedTo(buffer, m)
  BY DEF CorruptAtRest, CountsTo
<1> QED
  BY <1>3, <1>6, <1>7 DEF NumberedTo

\* The steps that hand no record to write.
LEMMA OtherBounds ==
  ASSUME StoreInv, BoundsInv,
         \/ RecoverClean \/ RecoverRefused \/ QuarantineTail \/ QuarantineFails \/ SetLen
         \/ FlushOk \/ FlushFails \/ Stop \/ CorruptAtRest \/ UNCHANGED vars
  PROVE  BoundsInv'
<1>1. PICK m \in Nat : CountsTo(m)
  BY DEF BoundsInv
<1>2. /\ IsSeq(file) /\ IsSeq(buffer) /\ Len(file) \in Nat /\ Len(buffer) \in Nat
      /\ NumberedTo(file, m) /\ NumberedTo(buffer, m)
      /\ sequence \in Nat /\ acked \in Nat /\ sequence <= m /\ acked <= m
  BY <1>1, WrittenFacts DEF StoreInv, Typed, CountsTo
<1>3. UNCHANGED appended
  BY DEF RecoverClean, RecoverRefused, QuarantineTail, QuarantineFails, SetLen, FlushOk, FlushFails, Stop,
         CorruptAtRest, vars
<1>4. paused' \in BOOLEAN /\ crashes' \in 0..MaxCrashes /\ corruptions' \in 0..MaxCorruptions
  <2>1. paused' \in BOOLEAN
    BY DEF BoundsInv, RecoverClean, RecoverRefused, QuarantineTail, QuarantineFails, SetLen, FlushOk, FlushFails,
           GiveUp, Stop, CorruptAtRest, vars, flags
  <2>2. crashes' \in 0..MaxCrashes /\ corruptions' \in 0..MaxCorruptions
    BY StoreAssumption
       DEF BoundsInv, RecoverClean, RecoverRefused, QuarantineTail, QuarantineFails, SetLen,
           FlushOk, FlushFails, Stop, CorruptAtRest, vars, faults
  <2> QED
    BY <2>1, <2>2
<1>5. sequence' <= m /\ acked' <= m
  <2>1. CASE RecoverClean \/ SetLen
    BY <1>1, <1>2, <2>1, RecoveredNumber DEF RecoverClean, SetLen, OpenAt
  <2>2. CASE RecoverRefused \/ QuarantineTail \/ QuarantineFails \/ FlushFails \/ Stop \/ UNCHANGED vars
    BY <1>2, <2>2 DEF RecoverRefused, QuarantineTail, QuarantineFails, FlushFails, Stop, vars, chain
  <2>3. CASE FlushOk
    BY <1>2, <2>3 DEF FlushOk, chain
  <2>4. CASE CorruptAtRest
    <3>1. PICK i \in 1..ValidRecords(file) : acked' = IF acked < i THEN acked ELSE i - 1
      BY <2>4 DEF CorruptAtRest
    <3>2. i \in Nat
      BY <1>1, RecoveredNumber
    <3>3. UNCHANGED sequence
      BY <2>4 DEF CorruptAtRest, chain
    <3> QED
      BY <1>2, <3>1, <3>2, <3>3
  <2> QED
    BY <2>1, <2>2, <2>3, <2>4
<1>6. NumberedTo(file', m) /\ NumberedTo(buffer', m)
  <2>1. CASE RecoverClean \/ RecoverRefused \/ QuarantineTail \/ QuarantineFails \/ UNCHANGED vars
    BY <1>2, <2>1 DEF RecoverClean, RecoverRefused, QuarantineTail, QuarantineFails, vars, disk
  <2>2. CASE SetLen
    <3>1. file' = SubSeq(file, 1, 2 * ValidRecords(file)) /\ UNCHANGED buffer
      BY <2>2 DEF SetLen, ValidTokens
    <3>2. 2 * ValidRecords(file) \in Nat /\ 2 * ValidRecords(file) <= Len(file) /\ 1 \in Nat \ {0}
      BY <1>1, RecoveredNumber
    <3> QED
      BY <1>2, <3>1, <3>2, NumberedParts
  <2>3. CASE FlushOk
    <3>1. file' = file \o buffer /\ buffer' = <<>>
      BY <2>3 DEF FlushOk
    <3>2. NumberedTo(file \o buffer, m)
      BY <1>2, NumberedParts
    <3>3. Len(buffer') = 0
      BY <3>1, ShortSeqs
    <3> QED
      BY <3>1, <3>2, <3>3 DEF NumberedTo
  <2>4. CASE FlushFails
    <3>1. PICK k \in 0..Len(buffer) : /\ file' = file \o SubSeq(buffer, 1, k)
                                      /\ buffer' = SubSeq(buffer, k + 1, Len(buffer))
      BY <2>4 DEF FlushFails
    <3> QED
      BY <1>2, <3>1, MovedNumbered
  <2>5. CASE Stop
    <3>1. PICK k \in 0..Len(buffer) :
            LET written == file \o SubSeq(buffer, 1, k)
            IN \/ file' = written /\ UNCHANGED synced
               \/ \E n \in synced..Len(written) : file' = SubSeq(written, 1, n) /\ synced' = n
      BY <2>5 DEF Stop
    <3>2. PICK d : d = file \o SubSeq(buffer, 1, k)
      OBVIOUS
    <3>3. IsSeq(d) /\ Len(d) \in Nat /\ NumberedTo(d, m)
      BY <1>2, <3>2, MovedNumbered DEF IsSeq
    <3>4. NumberedTo(file', m)
      <4>1. CASE file' = d
        BY <3>3, <4>1
      <4>2. ASSUME NEW n \in synced..Len(d), file' = SubSeq(d, 1, n) PROVE NumberedTo(file', m)
        <5>1. n \in Nat /\ n <= Len(d) /\ 1 \in Nat \ {0}
          BY <3>3 DEF StoreInv, Typed
        <5> QED
          BY <3>3, <4>2, <5>1, NumberedParts
      <4> QED
        BY <3>1, <3>2, <4>1, <4>2
    <3>5. Len(buffer') = 0
      BY <2>5, ShortSeqs DEF Stop
    <3> QED
      BY <3>4, <3>5 DEF NumberedTo
  <2>6. CASE CorruptAtRest
    BY <1>1, <2>6, AlteredNumbered
  <2> QED
    BY <2>1, <2>2, <2>3, <2>4, <2>5, <2>6
<1>7. CountsTo(m)'
  BY <1>1, <1>3, <1>5, <1>6 DEF CountsTo, Numbers, NumberedTo
<1> QED
  BY <1>3, <1>4, <1>7 DEF BoundsInv

\* Every step keeps the numbering.
LEMMA BoundsKept == StoreInv /\ BoundsInv /\ [Next]_vars => BoundsInv'
<1> SUFFICES ASSUME StoreInv, BoundsInv, [Next]_vars PROVE BoundsInv'
  OBVIOUS
<1>1. CASE AppendFinding
  BY <1>1, AppendBounds DEF AppendFinding, disk, flags, faults
<1>2. ASSUME NEW p \in Payloads, AppendJson(p) PROVE BoundsInv'
  BY <1>2, AppendBounds DEF AppendJson, disk, flags, faults
<1>3. ASSUME NEW p \in Payloads, AppendTorn(p) PROVE BoundsInv'
  BY <1>3, AppendTornBounds
<1>4. CASE \/ RecoverClean \/ RecoverRefused \/ QuarantineTail \/ QuarantineFails \/ SetLen
           \/ FlushOk \/ FlushFails \/ Stop \/ CorruptAtRest \/ UNCHANGED vars
  BY <1>4, OtherBounds
<1> QED
  BY <1>1, <1>2, <1>3, <1>4 DEF Next

\* TypeOK: the file and the buffer are sequences of tokens of lines.
LEMMA TypesByInv == StoreInv /\ BoundsInv /\ CopiesInv => TypeOK
<1> SUFFICES ASSUME StoreInv, BoundsInv, CopiesInv PROVE TypeOK
  OBVIOUS
<1>1. PICK m \in Nat : CountsTo(m)
  BY DEF BoundsInv
<1>2. m <= MaxRecords /\ MaxRecords \in Nat
  BY <1>1, NumbersBounded, StoreAssumption DEF BoundsInv, CountsTo
<1>3. /\ IsSeq(file) /\ IsSeq(buffer) /\ IsTokens(file) /\ NumberedTo(file, m)
      /\ NumberedTo(buffer, m) /\ Len(file) \in Nat
      /\ Joins(Written, file, buffer) /\ IsSeq(Written) /\ IsTokens(Written)
  BY <1>1, WrittenFacts DEF CountsTo, StoreInv
<1>4. ASSUME NEW i \in DOMAIN file
      PROVE  file[i][2] \in {"start", "end"} /\ file[i][1].sequence \in 1..MaxRecords
  <2>1. i \in 1..Len(file)
    BY <1>3 DEF IsSeq
  <2>2. file[i][1].sequence \in 1..MaxRecords
    BY <1>2, <1>3, <2>1 DEF NumberedTo
  <2>3. IsToken(file[i], "start") \/ IsToken(file[i], "end")
    BY <1>3, <2>1, TokenKinds
  <2> QED
    BY <2>2, <2>3 DEF IsToken
<1>5. ASSUME NEW i \in DOMAIN buffer
      PROVE  buffer[i][2] \in {"start", "end"} /\ buffer[i][1].sequence \in 1..MaxRecords
  <2>1. i \in 1..Len(buffer)
    BY <1>3 DEF IsSeq
  <2>2. buffer[i][1].sequence \in 1..MaxRecords
    BY <1>2, <1>3, <2>1 DEF NumberedTo
  <2>3. Written[Len(file) + i] = buffer[i] /\ Len(file) + i \in 1..Len(Written)
    BY <1>3, <2>1 DEF Joins, IsSeq
  <2>4. IsToken(buffer[i], "start") \/ IsToken(buffer[i], "end")
    BY <1>3, <2>3, TokenKinds
  <2> QED
    BY <2>2, <2>4 DEF IsToken
<1>6. synced \in 0..Len(file) /\ sequence \in 0..MaxRecords /\ acked \in 0..MaxRecords
  BY <1>1, <1>2, <1>3 DEF StoreInv, Typed, CountsTo
<1> QED
  BY <1>4, <1>5, <1>6 DEF TypeOK, StoreInv, Typed, BoundsInv, CopiesInv

\* The store's state has its type: no record is numbered past the number of
\* records handed to write, by append_json, by a torn write or by
\* create_or_recover, which takes the number to go on from out of the file.
THEOREM StoreTypeCorrect == Spec => []TypeOK
<1>1. BoundsInv /\ StoreInv /\ [Next]_vars => BoundsInv'
  BY BoundsKept
<1> QED
  BY <1>1, StoreInvariant, CopiesInvariant, BoundsInitially, TypesByInv, PTL DEF Spec
=============================================================================
