-------------------------- MODULE ConversionProofs --------------------------
(***************************************************************************)
(* Walks over a growing base and conversions to a JAM base are right for   *)
(* files, messages and mails of any number and length.                     *)
(***************************************************************************)
EXTENDS Conversion, FiniteSetTheorems, WellFoundedInduction, SequenceTheorems, TLAPS

\* A set of natural numbers that is not empty has a least one.
LEMMA LeastNumber ==
  ASSUME NEW T \in SUBSET Nat, T # {}
  PROVE  \E n \in T : \A m \in T : n <= m
<1> DEFINE F == {0 .. n : n \in T}
<1>1. IsWellFoundedOn(StrictSubsetOrdering(Nat), FiniteSubsetsOf(Nat))
  BY FS_StrictSubsetOrderingWellFounded
<1>2. F \subseteq FiniteSubsetsOf(Nat) /\ F # {}
  <2>1. \A n \in T : 0 .. n \in SUBSET Nat /\ IsFiniteSet(0 .. n)
    BY FS_Interval
  <2> QED BY <2>1 DEF FiniteSubsetsOf
<1>3. PICK x \in F : \A y \in F : ~ (<<y, x>> \in StrictSubsetOrdering(Nat))
  <2> HIDE DEF F
  <2> QED BY <1>1, <1>2, WFMin
<1>4. PICK n \in T : x = 0 .. n
  OBVIOUS
<1>5. ASSUME NEW m \in T, m < n PROVE FALSE
  <2>1. 0 .. m \in F /\ 0 .. m \subseteq Nat /\ 0 .. n \subseteq Nat
    OBVIOUS
  <2>2. 0 .. m \subseteq 0 .. n /\ n \in 0 .. n /\ n \notin 0 .. m
    BY <1>5
  <2> QED BY <1>3, <1>4, <2>1, <2>2 DEF StrictSubsetOrdering
<1> QED BY <1>5

\* The numbers of a finite set have an ascending sequence: each stands where
\* the number of those up to it says.
LEMMA AscendingExists ==
  ASSUME NEW S \in SUBSET Nat, IsFiniteSet(S)
  PROVE  \E s \in [1 .. Cardinality(S) -> S] : \A i, j \in DOMAIN s : i < j => s[i] < s[j]
<1> DEFINE c == Cardinality(S)
           Upto(x) == {y \in S : y <= x}
           rank == [x \in S |-> Cardinality(Upto(x))]
           s == [i \in 1 .. c |-> CHOOSE x \in S : rank[x] = i]
<1>1. c \in Nat /\ \A x \in S : x \in Nat
  BY FS_CardinalityType
<1>2. ASSUME NEW x \in S
      PROVE  IsFiniteSet(Upto(x)) /\ rank[x] \in 1 .. c
  <2>1. IsFiniteSet(Upto(x)) /\ Cardinality(Upto(x)) <= c
    BY FS_Subset
  <2>2. Cardinality(Upto(x)) \in Nat /\ Cardinality(Upto(x)) # 0
    BY <2>1, FS_CardinalityType, FS_EmptySet
  <2> QED BY <1>1, <2>1, <2>2
<1>3. ASSUME NEW x \in S, NEW y \in S, x < y
      PROVE  rank[x] < rank[y]
  <2>1. Upto(x) \in SUBSET Upto(y) /\ y \in Upto(y) /\ y \notin Upto(x)
    <3>1. x \in Nat /\ y \in Nat /\ \A z \in S : z <= x => z <= y
      BY <1>1, <1>3
    <3>2. y <= y /\ ~ (y <= x)
      BY <1>3, <3>1
    <3> QED BY <3>1, <3>2
  <2>2. Cardinality(Upto(x)) <= Cardinality(Upto(y)) /\ Cardinality(Upto(x)) # Cardinality(Upto(y))
    BY <1>2, <2>1, FS_Subset
  <2> QED BY <1>2, <2>2
<1>4. rank \in Surjection(S, 1 .. c)
  <2>1. \A x, y \in S : rank[x] = rank[y] => x = y
    <3>1. \A x, y \in S : x < y \/ y < x \/ x = y
      BY <1>1
    <3>2. \A x \in S : rank[x] \in Nat
      BY <1>1, <1>2
    <3> HIDE DEF rank
    <3> QED BY <1>3, <3>1, <3>2
  <2>2. rank \in [S -> 1 .. c]
    BY <1>2
  <2>3. rank \in Injection(S, 1 .. c)
    BY <2>1, <2>2 DEF Injection, IsInjective
  <2>4. IsFiniteSet(1 .. c) /\ Cardinality(1 .. c) = c
    BY <1>1, FS_Interval
  <2> QED BY <2>3, <2>4, FS_Injection
<1> HIDE DEF rank
<1>5. \A i \in 1 .. c : s[i] \in S /\ rank[s[i]] = i
  BY <1>4 DEF Surjection
<1>6. s \in [1 .. c -> S] /\ DOMAIN s = 1 .. c
  BY <1>5
<1> HIDE DEF s
<1>7. ASSUME NEW i \in 1 .. c, NEW j \in 1 .. c, i < j
      PROVE  s[i] < s[j]
  <2> DEFINE x == s[i]
             y == s[j]
  <2>1. x \in S /\ y \in S /\ rank[x] = i /\ rank[y] = j
    BY <1>5
  <2> HIDE DEF x, y
  <2>2. x \in Nat /\ y \in Nat /\ x # y
    BY <1>1, <1>7, <2>1
  <2>3. ~ (y < x)
    BY <1>1, <1>3, <1>7, <2>1
  <2>4. x < y
    BY <2>2, <2>3
  <2> QED BY <2>4 DEF x, y
<1> QED BY <1>6, <1>7

\* Ascending gives every number of a finite set, once, in order.
LEMMA AscendingIsSorted ==
  ASSUME NEW S \in SUBSET Nat, IsFiniteSet(S)
  PROVE  LET s == Ascending(S) IN
         /\ Cardinality(S) \in Nat /\ s \in [1 .. Cardinality(S) -> S]
         /\ \A i, j \in 1 .. Cardinality(S) : i < j => s[i] < s[j]
         /\ \A i, j \in 1 .. Cardinality(S) : s[i] = s[j] => i = j
         /\ \A x \in S : \E i \in 1 .. Cardinality(S) : s[i] = x
<1> DEFINE s == Ascending(S)
           c == Cardinality(S)
<1>1. c \in Nat /\ \A x \in S : x \in Nat
  BY FS_CardinalityType
<1>2. s \in [1 .. c -> S] /\ \A i, j \in DOMAIN s : i < j => s[i] < s[j]
  BY AscendingExists DEF Ascending
<1> HIDE DEF s
<1>3. \A i, j \in 1 .. c : i < j => s[i] < s[j]
  BY <1>2
<1>4. ASSUME NEW i \in 1 .. c, NEW j \in 1 .. c, s[i] = s[j]
      PROVE  i = j
  <2>1. s[i] \in S
    BY <1>2
  <2>2. s[i] \in Nat
    BY <1>1, <2>1
  <2>3. ~ (i < j) /\ ~ (j < i)
    BY <1>3, <1>4, <2>2
  <2> QED BY <1>1, <2>3
<1>5. s \in Surjection(1 .. c, S)
  <2>1. s \in Injection(1 .. c, S)
    BY <1>2, <1>4 DEF Injection, IsInjective
  <2>2. IsFiniteSet(1 .. c) /\ Cardinality(1 .. c) = c
    BY <1>1, FS_Interval
  <2> QED BY <2>1, <2>2, FS_Injection
<1> QED BY <1>1, <1>2, <1>3, <1>4, <1>5 DEF s, Surjection

\* What a sequence of known length adds to another.
LEMMA Appended ==
  ASSUME NEW S, NEW s \in Seq(S), NEW n \in Nat, NEW t \in [1 .. n -> S]
  PROVE  /\ s \o t \in Seq(S) /\ Len(s \o t) = Len(s) + n
         /\ DOMAIN s = 1 .. Len(s) /\ DOMAIN (s \o t) = 1 .. Len(s) + n
         /\ \A k \in 1 .. Len(s) : (s \o t)[k] = s[k]
         /\ \A k \in Len(s) + 1 .. Len(s) + n : (s \o t)[k] = t[k - Len(s)]
<1>1. t \in Seq(S)
  BY SeqDef
<1>2. Len(t) \in Nat /\ Len(s) \in Nat /\ DOMAIN t = 1 .. Len(t) /\ DOMAIN t = 1 .. n
  BY <1>1, LenProperties
<1>3. Len(t) = n
  BY <1>2
<1>4. /\ s \o t \in Seq(S) /\ Len(s \o t) = Len(s) + n
      /\ \A i \in 1 .. Len(s) + n : (s \o t)[i] = IF i <= Len(s) THEN s[i] ELSE t[i - Len(s)]
  BY <1>1, <1>3, ConcatProperties
<1>5. DOMAIN s = 1 .. Len(s) /\ DOMAIN (s \o t) = 1 .. Len(s) + n
  BY <1>4, LenProperties
<1> QED BY <1>2, <1>4, <1>5

-----------------------------------------------------------------------------
\* The layout of the file.
LEMMA HeadTypes ==
  ASSUME IterTypeOK
  PROVE  /\ Fixed \in Nat /\ Fixed >= 1
         /\ Len(heads) \in Nat /\ DOMAIN heads = 1 .. Len(heads)
         /\ Len(file) \in Nat /\ DOMAIN file = 1 .. Len(file)
         /\ Len(items) \in Nat /\ DOMAIN items = 1 .. Len(items)
         /\ \A m \in Msgs : m.tail \in Nat /\ Length(m) \in Nat /\ Length(m) >= 1
         /\ \A i \in DOMAIN heads :
              /\ heads[i] \in [msg : Msgs, at : Nat] /\ heads[i].at \in Nat /\ heads[i].msg \in Msgs
              /\ End(i) \in Nat /\ End(i) = heads[i].at + Length(heads[i].msg)
         /\ End(0) = 0
<1>1. /\ Fixed \in Nat /\ Fixed >= 1
      /\ \A m \in Msgs : m.tail \in Nat /\ Length(m) \in Nat /\ Length(m) >= 1
  BY FixedAssumption, MsgsAssumption DEF Length
<1>2. /\ Len(heads) \in Nat /\ DOMAIN heads = 1 .. Len(heads)
      /\ Len(file) \in Nat /\ DOMAIN file = 1 .. Len(file)
      /\ Len(items) \in Nat /\ DOMAIN items = 1 .. Len(items)
  BY LenProperties DEF IterTypeOK, Files, HeadLists
<1>3. ASSUME NEW i \in DOMAIN heads
      PROVE  /\ heads[i] \in [msg : Msgs, at : Nat] /\ heads[i].at \in Nat /\ heads[i].msg \in Msgs
             /\ End(i) \in Nat /\ End(i) = heads[i].at + Length(heads[i].msg)
  <2>1. heads[i] \in [msg : Msgs, at : Nat]
    BY <1>2, ElementOfSeq DEF IterTypeOK, HeadLists
  <2>2. heads[i].at \in Nat /\ heads[i].msg \in Msgs
    BY <2>1
  <2>3. i # 0
    BY <1>2
  <2> QED BY <1>1, <2>1, <2>2, <2>3 DEF End
<1> QED BY <1>1, <1>2, <1>3 DEF End

\* The end of each message of the file is a position.
LEMMA EndType == ASSUME IterTypeOK, NEW i \in 0 .. Len(heads) PROVE End(i) \in Nat
<1>1. CASE i = 0
  BY <1>1, HeadTypes
<1>2. CASE i # 0
  <2>1. i \in DOMAIN heads
    BY <1>2, HeadTypes
  <2> QED BY <2>1, HeadTypes
<1> QED BY <1>1, <1>2

\* No message begins before those in front of it end; none is empty.
LEMMA InOrder ==
  ASSUME IterTypeOK, Laid, NEW j \in DOMAIN heads
  PROVE  /\ j <= End(j) /\ heads[j].at = End(j - 1) /\ heads[j].at < End(j)
         /\ \A i \in 0 .. j - 1 : End(i) <= heads[j].at
<1> DEFINE Good(k) == k <= End(k) /\ \A i \in 0 .. k - 1 : End(i) <= heads[k].at
           T == {k \in Nat : k \in DOMAIN heads /\ ~Good(k)}
<1>1. ASSUME NEW k \in DOMAIN heads
      PROVE  heads[k].at = End(k - 1) /\ heads[k].at < End(k) /\ heads[k].at \in Nat /\ End(k) \in Nat
  <2>1. heads[k].at \in Nat /\ Length(heads[k].msg) \in Nat /\ Length(heads[k].msg) >= 1
    BY HeadTypes
  <2>2. End(k) = heads[k].at + Length(heads[k].msg) /\ heads[k].at = End(k - 1)
    BY HeadTypes DEF Laid
  <2> QED BY <2>1, <2>2
<1>2. T = {}
  <2> SUFFICES ASSUME T # {} PROVE FALSE
    OBVIOUS
  <2>1. PICK k \in T : \A l \in T : k <= l
    <3> HIDE DEF Good
    <3> QED BY LeastNumber
  <2>2. k \in Nat /\ k \in DOMAIN heads /\ ~Good(k) /\ k >= 1
    BY <2>1, HeadTypes
  <2>3. CASE k = 1
    <3>1. k - 1 = 0 /\ 0 .. k - 1 = {0} /\ End(0) = 0
      BY <2>3, HeadTypes
    <3>2. heads[k].at = 0
      BY <1>1, <2>2, <3>1
    <3> QED BY <1>1, <2>2, <2>3, <3>1, <3>2
  <2>4. CASE k > 1
    <3>1. k - 1 \in DOMAIN heads
      BY <2>2, <2>4, HeadTypes
    <3>2. Good(k - 1)
      BY <2>1, <2>2, <3>1
    <3>3. k <= End(k)
      BY <1>1, <2>2, <3>1, <3>2
    <3>4. ASSUME NEW i \in 0 .. k - 1 PROVE End(i) <= heads[k].at
      <4>1. CASE i = k - 1
        BY <1>1, <2>2, <3>1, <4>1
      <4>2. CASE i # k - 1
        <5>1. i \in 0 .. (k - 1) - 1
          BY <2>2, <4>2
        <5>2. End(i) <= heads[k - 1].at
          BY <3>2, <5>1
        <5>3. End(i) \in Nat
          <6>1. i \in 0 .. Len(heads)
            BY <2>2, HeadTypes
          <6> QED BY <6>1, EndType
        <5> QED BY <1>1, <2>2, <3>1, <5>2, <5>3
      <4> QED BY <4>1, <4>2
    <3> QED BY <2>2, <3>3, <3>4
  <2> QED BY <2>2, <2>3, <2>4
<1>3. Good(j)
  BY <1>2, HeadTypes
<1> QED BY <1>1, <1>3

\* Every whole message lies in the file, and the file ends where the last
\* ends but for its missing tail.
LEMMA WholeInFile ==
  ASSUME IterTypeOK, LaidOut, ~broken
  PROVE  /\ Laid /\ WholeCount \in Nat /\ WholeCount <= Len(heads)
         /\ \A i \in 0 .. WholeCount : End(i) <= Len(file)
         /\ growing = NoMsg => WholeCount = Len(heads) /\ Len(file) = End(Len(heads))
         /\ growing # NoMsg => /\ growing \in Msgs /\ growing.tail \in Nat
                               /\ WholeCount = Len(heads) - 1 /\ Len(heads) \in DOMAIN heads
                               /\ heads[Len(heads)].msg = growing
                               /\ Len(file) = heads[Len(heads)].at + Fixed
<1> DEFINE n == Len(heads)
<1>1. Laid /\ n \in Nat
  BY HeadTypes DEF LaidOut
<1>2. CASE growing = NoMsg
  <2>1. WholeCount = n /\ Len(file) = End(n)
    BY <1>1, <1>2, HeadTypes DEF WholeCount, LaidOut
  <2>2. ASSUME NEW i \in 0 .. n PROVE End(i) <= Len(file)
    <3>1. CASE i = n
      BY <2>1, <3>1, HeadTypes
    <3>2. CASE i < n
      <4>1. n \in DOMAIN heads /\ i \in 0 .. n - 1 /\ (i = 0 \/ i \in DOMAIN heads)
        BY <1>1, <3>2, HeadTypes
      <4>2. End(i) <= heads[n].at /\ heads[n].at < End(n)
        BY <1>1, <4>1, InOrder
      <4>3. End(i) \in Nat /\ heads[n].at \in Nat /\ End(n) \in Nat
        BY <4>1, HeadTypes
      <4> QED BY <2>1, <4>2, <4>3
    <3> QED BY <1>1, <3>1, <3>2
  <2> QED BY <1>1, <1>2, <2>1, <2>2
<1>3. CASE growing # NoMsg
  <2>1. n \in DOMAIN heads /\ WholeCount = n - 1 /\ growing \in Msgs /\ growing.tail \in Nat
    <3>1. n # 0
      BY <1>1, <1>3, EmptySeq DEF IterTypeOK, HeadLists
    <3> QED BY <1>1, <1>3, <3>1, HeadTypes DEF WholeCount, IterTypeOK
  <2>2. heads[n].msg = growing /\ Len(file) = End(n) - growing.tail
    BY <1>3 DEF LaidOut
  <2>3. End(n) = heads[n].at + (Fixed + growing.tail) /\ heads[n].at \in Nat
    BY <2>1, <2>2, HeadTypes DEF Length
  <2>4. Len(file) = heads[n].at + Fixed
    BY <2>1, <2>2, <2>3, HeadTypes
  <2>5. ASSUME NEW i \in 0 .. n - 1 PROVE End(i) <= Len(file)
    <3>1. End(i) <= heads[n].at
      BY <1>1, <2>1, InOrder
    <3>2. i \in 0 .. n
      BY <1>1
    <3>3. End(i) \in Nat
      BY <3>2, EndType
    <3> QED BY <2>3, <2>4, <3>1, <3>3, HeadTypes
  <2> QED BY <1>1, <1>3, <2>1, <2>2, <2>4, <2>5
<1> QED BY <1>2, <1>3
-----------------------------------------------------------------------------
\* What has been walked does not change when messages are appended.
LEMMA WalkSame ==
  ASSUME IterTypeOK, WalkInv, UNCHANGED readVars, InStep' => InStep,
         DOMAIN heads \subseteq DOMAIN heads', \A i \in DOMAIN heads : heads'[i] = heads[i],
         InStep' => /\ WholeCount \in Nat /\ WholeCount <= Len(heads) /\ Len(heads) <= Len(heads')
                    /\ Len(heads') \in Nat /\ WholeCount' \in Nat /\ WholeCount <= WholeCount'
                    /\ Len(file') \in Nat /\ Len(file) <= Len(file')
  PROVE  WalkInv'
<1> SUFFICES ASSUME InStep', mode' # "none"
             PROVE  /\ owed' <= WholeCount' /\ size' <= Len(file')
                    /\ (\A i \in 1 .. owed : End(i) <= size)' /\ ReaderStands'
  BY DEF WalkInv
<1>1. /\ owed <= WholeCount /\ size <= Len(file) /\ \A i \in 1 .. owed : End(i) <= size
      /\ ReaderStands /\ UNCHANGED <<mode, size, pos, items, owed>>
  BY DEF WalkInv, readVars
<1>2. /\ owed \in Nat /\ size \in Nat /\ Len(file) \in Nat /\ Len(heads) \in Nat
      /\ Len(items) \in Nat /\ DOMAIN heads = 1 .. Len(heads)
      /\ WholeCount \in Nat /\ WholeCount' \in Nat /\ WholeCount <= WholeCount'
      /\ Len(file') \in Nat /\ Len(file) <= Len(file')
      /\ WholeCount <= Len(heads) /\ Len(heads) <= Len(heads') /\ Len(heads') \in Nat
  BY HeadTypes DEF IterTypeOK
<1>3. owed' <= WholeCount' /\ size' <= Len(file')
  BY <1>1, <1>2
<1>4. ASSUME NEW i \in 0 .. Len(heads) PROVE End(i)' = End(i)
  BY <1>2 DEF End
<1>5. (\A i \in 1 .. owed : End(i) <= size)'
  BY <1>1, <1>2, <1>4
<1>7. ASSUME NEW n, Walked(n), n \in Nat PROVE n <= Len(heads) /\ Walked(n)'
  BY <1>1, <1>2, <1>7 DEF Walked
<1>8. ReaderStands'
  <2>1. CASE Walked(Len(items)) /\ pos = End(Len(items))
    <3>1. PICK n : n = Len(items)
      OBVIOUS
    <3>2. n \in Nat /\ n <= Len(heads) /\ Walked(n)' /\ n = Len(items')
      BY <1>1, <1>2, <1>7, <2>1, <3>1
    <3>3. pos' = End(n)'
      BY <1>1, <1>2, <1>4, <2>1, <3>1, <3>2
    <3> QED BY <1>1, <2>1, <3>1, <3>2, <3>3 DEF ReaderStands, EndsInErr
  <2>2. CASE /\ EndsInErr /\ Walked(Len(items) - 1) /\ Len(items) > owed /\ pos >= size
    <3>1. PICK n : n = Len(items) - 1
      OBVIOUS
    <3>2. n \in Nat /\ Walked(n)' /\ n = Len(items') - 1
      <4>1. Len(items) # 0
        BY <2>2, EmptySeq DEF EndsInErr, IterTypeOK
      <4>2. n \in Nat
        BY <1>2, <3>1, <4>1
      <4> QED BY <1>1, <1>7, <2>2, <3>1, <4>2
    <3> QED BY <1>1, <2>2, <3>2 DEF ReaderStands, EndsInErr
  <2> QED BY <1>1, <2>1, <2>2 DEF ReaderStands
<1> QED BY <1>3, <1>5, <1>8

\* The first part of a message is appended ...
LEMMA GrowBegins ==
  ASSUME IterTypeOK, LaidOut, WalkInv, growing = NoMsg, NEW m \in NewMsgs,
         growing' = m, file' = file \o FixedPart(m),
         heads' = Append(heads, [msg |-> m, at |-> Len(file)]), UNCHANGED <<broken, readVars>>
  PROVE  IterTypeOK' /\ LaidOut' /\ WalkInv'
<1> DEFINE n == Len(heads)
           l == Len(file)
           hd == [msg |-> m, at |-> l]
<1>1. m \in Msgs /\ m # NoMsg
  BY MsgsAssumption
<1>2. /\ n \in Nat /\ l \in Nat /\ Fixed \in Nat /\ Fixed >= 1
      /\ m.tail \in Nat /\ Length(m) \in Nat /\ Length(m) = Fixed + m.tail
      /\ DOMAIN heads = 1 .. n /\ DOMAIN file = 1 .. l
  BY <1>1, HeadTypes DEF Length
<1>3. hd \in [msg : Msgs, at : Nat] /\ hd.msg = m /\ hd.at = l
  BY <1>1, <1>2
<1>4. /\ heads' \in HeadLists /\ Len(heads') = n + 1 /\ DOMAIN heads' = 1 .. n + 1
      /\ \A i \in 1 .. n : heads'[i] = heads[i]
      /\ heads'[n + 1] = hd
  <2> HIDE DEF hd
  <2>1. heads' = Append(heads, hd)
    BY DEF hd
  <2> QED BY <1>2, <1>3, <2>1, AppendProperties, LenProperties DEF IterTypeOK, HeadLists
<1>5. /\ file' \in Files /\ Len(file') = l + Fixed /\ DOMAIN file' = 1 .. l + Fixed
      /\ \A k \in 1 .. l : file'[k] = file[k]
      /\ \A k \in l + 1 .. l + Fixed : file'[k] = Cell(m, k - l)
  <2>1. FixedPart(m) \in [1 .. Fixed -> [msg : Msgs, part : Nat]]
    BY <1>1, <1>2 DEF FixedPart, Cell
  <2>2. \A k \in 1 .. Fixed : FixedPart(m)[k] = Cell(m, k)
    BY DEF FixedPart
  <2>3. /\ file \o FixedPart(m) \in Files /\ Len(file \o FixedPart(m)) = l + Fixed
        /\ DOMAIN (file \o FixedPart(m)) = 1 .. l + Fixed
        /\ \A k \in 1 .. l : (file \o FixedPart(m))[k] = file[k]
        /\ \A k \in l + 1 .. l + Fixed : (file \o FixedPart(m))[k] = FixedPart(m)[k - l]
    <3> DEFINE S == [msg : Msgs, part : Nat]
           f == FixedPart(m)
  <3>1. file \in Seq(S) /\ f \in [1 .. Fixed -> S] /\ Fixed \in Nat
    BY <1>2, <2>1 DEF IterTypeOK, Files
  <3> HIDE DEF S, f
  <3>2. /\ file \o f \in Seq(S) /\ Len(file \o f) = l + Fixed /\ DOMAIN (file \o f) = 1 .. l + Fixed
        /\ \A k \in 1 .. l : (file \o f)[k] = file[k]
        /\ \A k \in l + 1 .. l + Fixed : (file \o f)[k] = f[k - l]
    BY <3>1, Appended
  <3> QED BY <3>2 DEF S, f, Files
  <2>4. \A k \in l + 1 .. l + Fixed : k - l \in 1 .. Fixed
    BY <1>2
  <2> QED BY <2>2, <2>3, <2>4
<1>6. IterTypeOK'
  <2>1. heads' # << >>
    BY <1>2, <1>4
  <2> QED BY <1>1, <1>4, <1>5, <2>1 DEF IterTypeOK, readVars
<1>7. ASSUME ~broken PROVE /\ l = End(n) /\ WholeCount = n
                          /\ \A i \in 0 .. n : End(i) <= l /\ End(i)' = End(i) /\ End(i) \in Nat
  <2>1. l = End(n) /\ WholeCount = n /\ \A i \in 0 .. n : End(i) <= l
    BY <1>7, WholeInFile
  <2>2. \A i \in 0 .. n : End(i)' = End(i)
    BY <1>2, <1>4 DEF End
  <2> QED BY <2>1, <2>2, EndType
<1>8. LaidOut'
  <2> SUFFICES ASSUME ~broken PROVE /\ Laid' /\ heads'[Len(heads')].msg = growing'
                                   /\ Len(file') = End(Len(heads))' - growing'.tail
    BY <1>1 DEF LaidOut
  <2>1. ASSUME NEW i \in 1 .. n
        PROVE  /\ heads'[i].at = End(i - 1)'
               /\ \A j \in 1 .. Length(heads'[i].msg) : heads'[i].at + j <= Len(file')
                    => file'[heads'[i].at + j] = Cell(heads'[i].msg, j)
    <3>1. heads'[i].at = End(i - 1)'
      <4>1. i - 1 \in 0 .. n
        BY <1>2
      <4>2. heads[i].at = End(i - 1)
        BY <1>2, WholeInFile DEF Laid
      <4> QED BY <1>4, <1>7, <4>1, <4>2
    <3>2. ASSUME NEW j \in 1 .. Length(heads[i].msg)
          PROVE  file'[heads[i].at + j] = Cell(heads[i].msg, j)
      <4>1. End(i) <= l /\ End(i) = heads[i].at + Length(heads[i].msg)
        <5>1. i \in 0 .. n /\ i \in DOMAIN heads
          BY <1>2
        <5> QED BY <1>7, <5>1, HeadTypes
      <4>2. heads[i].at \in Nat /\ Length(heads[i].msg) \in Nat
        BY <1>2, HeadTypes
      <4>3. heads[i].at + j \in 1 .. l
        BY <1>2, <4>1, <4>2, SMTT(30)
      <4>4. file[heads[i].at + j] = Cell(heads[i].msg, j)
        BY <1>2, <4>3, WholeInFile DEF Laid
      <4> QED BY <1>5, <4>3, <4>4
    <3> QED BY <1>4, <3>1, <3>2
  <2>2. ASSUME NEW i, i = n + 1
        PROVE  /\ heads'[i].at = End(i - 1)'
               /\ \A j \in 1 .. Length(heads'[i].msg) : heads'[i].at + j <= Len(file')
                    => file'[heads'[i].at + j] = Cell(heads'[i].msg, j)
    <3>1. heads'[i].at = l /\ heads'[i].msg = m
      BY <1>3, <1>4, <2>2
    <3>2. ASSUME NEW j \in 1 .. Length(m), l + j <= l + Fixed
          PROVE  file'[l + j] = Cell(m, j)
      <4>1. l + j \in l + 1 .. l + Fixed /\ (l + j) - l = j
        BY <1>2, <3>2
      <4> QED BY <1>5, <4>1
    <3>3. i - 1 = n /\ i - 1 \in 0 .. n
      BY <1>2, <2>2
    <3>4. End(i - 1)' = l
      BY <1>7, <3>3
    <3> QED BY <1>5, <2>2, <3>1, <3>2, <3>4
  <2>3. Laid'
    <3>1. \A i \in DOMAIN heads' : i \in 1 .. n \/ i = n + 1
      BY <1>2, <1>4
    <3> QED BY <2>1, <2>2, <3>1 DEF Laid
  <2>4. heads'[Len(heads')].msg = growing'
    BY <1>3, <1>4
  <2>5. Len(file') = End(Len(heads))' - growing'.tail
    <3>1. End(Len(heads))' = l + (Fixed + m.tail)
      BY <1>2, <1>3, <1>4 DEF End
    <3>2. growing'.tail = m.tail
      OBVIOUS
    <3>3. \A a, b, c \in Nat : a + b = (a + (b + c)) - c
      OBVIOUS
    <3>4. l + Fixed = (l + (Fixed + m.tail)) - m.tail
      BY <1>2, <3>3, Zenon
    <3> QED BY <1>5, <3>1, <3>2, <3>4, Zenon
  <2> QED BY <2>3, <2>4, <2>5
<1>9. WalkInv'
  <2>1. InStep' => InStep
    <3>1. \A i \in DOMAIN heads : i \in DOMAIN heads' /\ heads'[i] = heads[i]
      BY <1>2, <1>4
    <3> QED BY <3>1 DEF InStep
  <2>2. InStep' => WholeCount' = n + 1 - 1
    BY <1>1, <1>4 DEF WholeCount
  <2>3. DOMAIN heads \subseteq DOMAIN heads' /\ \A i \in DOMAIN heads : heads'[i] = heads[i]
    BY <1>2, <1>4
  <2>4. InStep => WholeCount = n
    BY <1>7 DEF InStep
  <2> QED BY <1>2, <1>4, <1>5, <2>1, <2>2, <2>3, <2>4, WalkSame
<1> QED BY <1>6, <1>8, <1>9

\* ... and then its tail, or none.
LEMMA GrowEnds ==
  ASSUME IterTypeOK, LaidOut, WalkInv, growing # NoMsg, growing' = NoMsg,
         \/ file' = file \o TailPart(growing) /\ UNCHANGED broken
         \/ UNCHANGED file /\ broken' = (broken \/ growing.tail > 0),
         UNCHANGED <<heads, readVars>>
  PROVE  IterTypeOK' /\ LaidOut' /\ WalkInv'
<1> DEFINE n == Len(heads)
           l == Len(file)
           t == growing.tail
<1>1. growing \in Msgs
  BY DEF IterTypeOK
<1>2. /\ n \in Nat /\ l \in Nat /\ Fixed \in Nat /\ t \in Nat
      /\ Length(growing) = Fixed + t
      /\ DOMAIN heads = 1 .. n /\ DOMAIN file = 1 .. l
  BY <1>1, HeadTypes DEF Length
<1>3. /\ file' \in Files /\ (file' = file \/ Len(file') = l + t) /\ Len(file') \in Nat /\ l <= Len(file')
      /\ \A k \in 1 .. l : file'[k] = file[k]
      /\ ~broken' => /\ ~broken /\ Len(file') = l + t
                     /\ \A k \in l + 1 .. l + t : file'[k] = Cell(growing, Fixed + (k - l))
  <2>1. CASE file' = file \o TailPart(growing) /\ UNCHANGED broken
    <3>1. TailPart(growing) \in [1 .. t -> [msg : Msgs, part : Nat]]
      BY <1>1, <1>2 DEF TailPart, Cell
    <3>2. \A k \in 1 .. t : TailPart(growing)[k] = Cell(growing, Fixed + k)
      BY DEF TailPart
    <3>3. /\ file \o TailPart(growing) \in Files /\ Len(file \o TailPart(growing)) = l + t
          /\ \A k \in 1 .. l : (file \o TailPart(growing))[k] = file[k]
          /\ \A k \in l + 1 .. l + t : (file \o TailPart(growing))[k] = TailPart(growing)[k - l]
      <4> DEFINE S == [msg : Msgs, part : Nat]
                 f == TailPart(growing)
      <4>1. file \in Seq(S) /\ f \in [1 .. t -> S] /\ t \in Nat
        BY <1>2, <3>1 DEF IterTypeOK, Files
      <4>3. l = Len(file)
        OBVIOUS
      <4> HIDE DEF S, f, l, t
      <4>2. /\ file \o f \in Seq(S) /\ Len(file \o f) = l + t /\ DOMAIN (file \o f) = 1 .. l + t
            /\ \A k \in 1 .. l : (file \o f)[k] = file[k]
            /\ \A k \in l + 1 .. l + t : (file \o f)[k] = f[k - l]
        BY <4>1, <4>3, Appended
      <4> QED BY <4>2 DEF S, f, t, Files
    <3>4. \A k \in l + 1 .. l + t : k - l \in 1 .. t
      BY <1>2
    <3> DEFINE f == file \o TailPart(growing)
    <3>5. \A k \in l + 1 .. l + t : f[k] = Cell(growing, Fixed + (k - l))
      <4> TAKE k \in l + 1 .. l + t
      <4> QED BY <3>2, <3>3, <3>4
    <3>6. f \in Files /\ Len(f) = l + t /\ l + t \in Nat /\ l <= l + t
      BY <1>2, <3>3
    <3>7. \A k \in 1 .. l : f[k] = file[k]
      BY <3>3
    <3> HIDE DEF f
    <3>8. file' = f /\ broken' = broken
      BY <2>1 DEF f
    <3> QED BY <3>5, <3>6, <3>7, <3>8
  <2>2. CASE UNCHANGED file /\ broken' = (broken \/ growing.tail > 0)
    <3>1. ~broken' => ~broken /\ t = 0
      <4>1. ~broken' => ~broken /\ ~ (t > 0)
        BY <2>2, Zenon
      <4> QED BY <1>2, <4>1
    <3>2. t = 0 => l + 1 .. l + t = {} /\ l + t = l
      BY <1>2
    <3> QED BY <1>2, <2>2, <3>1, <3>2 DEF IterTypeOK
  <2> QED BY <2>1, <2>2
<1>4. IterTypeOK'
  <2>1. broken' \in BOOLEAN
    BY DEF IterTypeOK
  <2> QED BY <1>3, <2>1 DEF IterTypeOK, readVars
<1>5. ASSUME ~broken'
      PROVE  /\ Laid /\ n \in DOMAIN heads /\ heads[n].msg = growing /\ l = heads[n].at + Fixed
             /\ heads[n].at \in Nat /\ End(n) = heads[n].at + Fixed + t
             /\ WholeCount = n - 1 /\ WholeCount' = n
  <2>1. /\ Laid /\ n \in DOMAIN heads /\ heads[n].msg = growing
        /\ l = heads[n].at + Fixed /\ WholeCount = n - 1
    BY <1>3, <1>5, WholeInFile
  <2>2. heads[n].at \in Nat /\ End(n) = heads[n].at + (Fixed + t)
    BY <1>2, <2>1, HeadTypes
  <2>3. WholeCount' = n
    BY <1>2 DEF WholeCount
  <2> QED BY <1>2, <2>1, <2>2, <2>3
<1>6. LaidOut'
  <2> SUFFICES ASSUME ~broken' PROVE Laid' /\ Len(file') = End(n)
    <3>1. End(Len(heads))' = End(n)
      BY DEF End
    <3>2. End(n) \in Nat
      BY <1>2, EndType
    <3> QED BY <3>1, <3>2 DEF LaidOut
  <2>1. ASSUME NEW i \in DOMAIN heads, NEW j \in 1 .. Length(heads[i].msg),
               heads[i].at + j <= Len(file')
        PROVE  file'[heads[i].at + j] = Cell(heads[i].msg, j)
    <3>1. heads[i].at \in Nat /\ Length(heads[i].msg) \in Nat
      BY HeadTypes
    <3>2. CASE heads[i].at + j <= l
      <4>1. heads[i].at + j \in 1 .. l
        BY <1>2, <3>1, <3>2
      <4> QED BY <1>3, <1>5, <3>2, <4>1 DEF Laid
    <3>3. CASE heads[i].at + j > l
      <4>1. i = n
        <5>1. CASE i < n
          <6>1. i \in 0 .. n - 1
            BY <1>2, <5>1
          <6>2. End(i) <= heads[n].at
            BY <1>5, <6>1, InOrder
          <6>3. End(i) = heads[i].at + Length(heads[i].msg)
            BY HeadTypes
          <6> QED BY <1>2, <1>5, <3>1, <3>3, <6>2, <6>3
        <5> QED BY <1>2, <5>1
      <4> DEFINE k == heads[i].at + j
      <4>2. k \in l + 1 .. l + t /\ Fixed + (k - l) = j
        <5>1. j \in 1 .. Fixed + t /\ heads[n].at + j <= Len(file') /\ k = heads[n].at + j
          BY <1>2, <1>5, <2>1, <4>1
        <5>2. k > l /\ l = heads[n].at + Fixed /\ heads[n].at \in Nat
          BY <1>5, <3>3
        <5> DEFINE a == heads[n].at
        <5>3. /\ a \in Nat /\ l \in Nat /\ t \in Nat /\ Fixed \in Nat
              /\ j \in 1 .. Fixed + t /\ k = a + j /\ k > l /\ l = a + Fixed
          BY <1>2, <5>1, <5>2
        <5> HIDE DEF k, a, l, t
        <5> QED BY <5>3
      <4> QED BY <1>3, <1>5, <4>1, <4>2
    <3> QED BY <1>2, <3>1, <3>2, <3>3
  <2>2. Len(file') = End(n)
    BY <1>2, <1>3, <1>5
  <2> QED BY <1>5, <2>1, <2>2 DEF Laid, End
<1>7. WalkInv'
  <2>1. InStep' => InStep
    BY <1>3 DEF InStep
  <2>2. InStep' => /\ WholeCount = n - 1 /\ WholeCount' = n /\ n >= 1
    BY <1>2, <1>5 DEF InStep
  <2> QED BY <1>2, <1>3, <2>1, <2>2, WalkSame
<1> QED BY <1>4, <1>6, <1>7

\* The other programs keep the file in order and leave the reader alone.
LEMMA GrowKeeps ==
  ASSUME IterTypeOK, LaidOut, WalkInv, Grow
  PROVE  IterTypeOK' /\ LaidOut' /\ WalkInv'
BY GrowBegins, GrowEnds DEF Grow
-----------------------------------------------------------------------------
\* A walk begins with nothing given and the whole messages in front of it.
LEMMA BeginKeeps ==
  ASSUME IterTypeOK, LaidOut, WalkInv, NEW how \in {"iter", "scan"}, Begin(how)
  PROVE  IterTypeOK' /\ LaidOut' /\ WalkInv' /\ mode' = how /\ items' = << >>
<1>1. /\ mode' = how /\ size' = Len(file) /\ pos' = 0 /\ items' = << >> /\ owed' = WholeCount
      /\ UNCHANGED <<file, growing, heads, broken>>
  BY DEF Begin, fileVars
<1>2. Len(file) \in Nat /\ Len(heads) \in Nat
  BY HeadTypes
<1>3. IterTypeOK'
  <2>1. growing # NoMsg => Len(heads) # 0
    BY <1>2, EmptySeq DEF IterTypeOK, HeadLists
  <2>2. owed' \in Nat
    BY <1>1, <1>2, <2>1 DEF WholeCount
  <2> QED BY <1>1, <1>2, <2>2 DEF IterTypeOK
<1>4. LaidOut'
  BY <1>1 DEF LaidOut, Laid, End
<1>5. WalkInv'
  <2>1. WholeCount' = WholeCount /\ Len(items') = 0 /\ Len(heads') = Len(heads)
    BY <1>1 DEF WholeCount
  <2> SUFFICES ASSUME ~broken
               PROVE  owed' <= WholeCount' /\ size' <= Len(file')
                      /\ (\A i \in 1 .. owed : End(i) <= size)' /\ ReaderStands'
    BY <1>1 DEF WalkInv, InStep
  <2>2. WholeCount \in Nat /\ \A i \in 0 .. WholeCount : End(i) <= Len(file)
    BY WholeInFile
  <2>3. \A i \in 1 .. WholeCount : End(i)' = End(i) /\ i \in 0 .. WholeCount
    BY <1>1, <2>2 DEF End
  <2>4. (\A i \in 1 .. owed : End(i) <= size)'
    BY <1>1, <2>2, <2>3
  <2>5. ReaderStands'
    <3>1. PICK n : n = Len(items')
      OBVIOUS
    <3>2. Walked(n)'
      BY <1>1, <1>2, <2>1, <3>1 DEF Walked
    <3>3. pos' = End(n)'
      BY <1>1, <2>1, <3>1 DEF End
    <3> QED BY <3>1, <3>2, <3>3 DEF ReaderStands
  <2> QED BY <1>1, <1>2, <2>1, <2>2, <2>4, <2>5
<1> QED BY <1>1, <1>3, <1>4, <1>5

\* A read gives an item and moves the reader.
LEMMA OutcomeType ==
  ASSUME IterTypeOK, NEW o \in Outcomes
  PROVE  o[1] \in Items /\ o[2] \in Nat
<1>1. Fixed \in Nat /\ Fixed >= 1 /\ Len(file) \in Nat /\ DOMAIN file = 1 .. Len(file) /\ pos \in Nat
  BY HeadTypes DEF IterTypeOK
<1>2. CASE pos + Fixed > Len(file)
  BY <1>1, <1>2 DEF Outcomes, Items
<1>3. CASE ~ (pos + Fixed > Len(file)) /\ ~Aligned(Fixed)
  <2>1. o \in {Err, Garbage} \X (pos + Fixed .. Len(file))
    BY <1>3 DEF Outcomes
  <2>2. o[1] \in {Err, Garbage} /\ o[2] \in pos + Fixed .. Len(file)
    BY <2>1
  <2>3. o[2] \in Nat
    BY <1>1, <2>2
  <2> QED BY <2>2, <2>3 DEF Items
<1>4. CASE ~ (pos + Fixed > Len(file)) /\ Aligned(Fixed)
  <2> DEFINE m == file[pos + 1].msg
  <2>1. m \in Msgs
    <3>1. pos + 1 \in 1 .. Len(file)
      BY <1>1, <1>4
    <3>2. file[pos + 1] \in [msg : Msgs, part : Nat]
      BY <3>1, ElementOfSeq DEF IterTypeOK, Files
    <3> QED BY <3>2
  <2>2. Length(m) \in Nat
    BY <2>1, HeadTypes
  <2>3. \/ o = <<Err, AfterRefused>>
        \/ o = <<Err, Len(file)>>
        \/ o[1] \in {Given(m), Err, Garbage} /\ o[2] = pos + Length(m)
    BY <1>4 DEF Outcomes
  <2> HIDE DEF m
  <2>4. pos + Fixed \in Nat /\ pos + Length(m) \in Nat
    BY <1>1, <2>2
  <2>5. Given(m) \in Items
    BY <2>1 DEF Given, Items
  <2>6. Err \in Items /\ Garbage \in Items
    BY DEF Items
  <2> QED BY <1>1, <2>1, <2>3, <2>4, <2>5, <2>6 DEF AfterRefused
<1> QED BY <1>2, <1>3, <1>4

\* A read in step gives the next message, or it meets the end of the file,
\* which a message that was whole when the walk began does not let it do.
LEMMA OutcomeInStep ==
  ASSUME IterTypeOK, LaidOut, WalkInv, InStep, mode \in {"iter", "scan"}, ~Ends,
         NEW o \in Outcomes
  PROVE  LET n == Len(items) IN
         /\ n \in Nat /\ n <= Len(file) /\ Walked(n) /\ pos = End(n)
         /\ \/ n < Len(heads) /\ o[1] = Given(heads[n + 1].msg) /\ o[2] = End(n + 1)
            \/ o[1] = Err /\ o[2] = Len(file) /\ n >= owed
<1> DEFINE n == Len(items)
<1>1. /\ Fixed \in Nat /\ Fixed >= 1 /\ Len(file) \in Nat /\ DOMAIN file = 1 .. Len(file)
      /\ pos \in Nat /\ n \in Nat /\ Len(heads) \in Nat /\ DOMAIN heads = 1 .. Len(heads)
      /\ owed \in Nat /\ size \in Nat
  BY HeadTypes DEF IterTypeOK
<1>2. /\ ~broken /\ Laid
      /\ owed <= WholeCount /\ size <= Len(file) /\ \A i \in 1 .. owed : End(i) <= size
  BY DEF WalkInv, InStep, LaidOut
<1>3. Walked(n) /\ pos = End(n) /\ n <= Len(heads)
  <2>1. ~ (EndsInErr /\ pos >= size)
    BY DEF Ends, AtEnd, EndsInErr
  <2>2. ReaderStands
    BY DEF WalkInv
  <2> QED BY <2>1, <2>2 DEF ReaderStands, Walked
<1>4. n <= Len(file)
  <2>1. CASE growing = NoMsg
    <3>1. CASE n = 0
      BY <1>1, <3>1
    <3>2. CASE n # 0
      <4>1. n \in DOMAIN heads /\ n \in 0 .. WholeCount
        BY <1>1, <1>2, <1>3, <2>1, <3>2, WholeInFile
      <4>2. n <= End(n) /\ End(n) <= Len(file) /\ End(n) \in Nat
        BY <1>2, <4>1, InOrder, WholeInFile, HeadTypes
      <4> QED BY <1>1, <4>2
    <3> QED BY <3>1, <3>2
  <2>2. CASE growing # NoMsg
    <3> DEFINE h == Len(heads)
    <3>1. h \in DOMAIN heads /\ Len(file) = heads[h].at + Fixed
      BY <1>2, <2>2, WholeInFile
    <3>2. heads[h].at = End(h - 1) /\ heads[h].at \in Nat
      BY <1>2, <3>1, InOrder, HeadTypes
    <3>3. h - 1 <= End(h - 1)
      <4>1. CASE h = 1
        <5>1. h - 1 = 0 /\ h - 1 \in 0 .. h
          BY <4>1
        <5>2. End(h - 1) \in Nat
          BY <1>2, <5>1, EndType
        <5>3. \A e \in Nat : 0 <= e
          OBVIOUS
        <5> QED BY <5>1, <5>2, <5>3
      <4>2. CASE h # 1
        <5>1. h - 1 \in DOMAIN heads
          BY <1>1, <3>1, <4>2
        <5> QED BY <1>2, <5>1, InOrder
      <4> QED BY <4>1, <4>2
    <3> QED BY <1>1, <1>3, <3>1, <3>2, <3>3
  <2> QED BY <2>1, <2>2
<1>5. ASSUME n < Len(heads)
      PROVE  LET m == heads[n + 1].msg IN
             /\ n + 1 \in DOMAIN heads /\ heads[n + 1].at = pos /\ m \in Msgs
             /\ Length(m) \in Nat /\ Length(m) >= Fixed /\ End(n + 1) = pos + Length(m)
             /\ (n < owed => End(n + 1) <= Len(file))
  <2>1. n + 1 \in DOMAIN heads /\ (n + 1) - 1 = n
    BY <1>1, <1>5
  <2>2. heads[n + 1].at = pos
    BY <1>2, <1>3, <2>1 DEF Laid
  <2>3. /\ heads[n + 1].msg \in Msgs /\ End(n + 1) = heads[n + 1].at + Length(heads[n + 1].msg)
        /\ End(n + 1) \in Nat
    BY <2>1, HeadTypes
  <2>4. /\ Length(heads[n + 1].msg) \in Nat /\ heads[n + 1].msg.tail \in Nat
        /\ Length(heads[n + 1].msg) = Fixed + heads[n + 1].msg.tail
    BY <2>3, HeadTypes DEF Length
  <2>5. Length(heads[n + 1].msg) >= Fixed
    <3>1. \A a, b \in Nat : a + b >= a
      OBVIOUS
    <3> QED BY <1>1, <2>4, <3>1
  <2>6. n < owed => End(n + 1) <= Len(file)
    <3>1. n < owed => n + 1 \in 1 .. owed
      BY <1>1
    <3> QED BY <1>1, <1>2, <2>3, <3>1
  <2> QED BY <2>1, <2>2, <2>3, <2>4, <2>5, <2>6
<1>6. n < owed => n < Len(heads)
  <2>1. WholeCount \in Nat /\ WholeCount <= Len(heads)
    BY <1>2, WholeInFile
  <2> QED BY <1>1, <1>2, <2>1
<1>7. CASE pos + Fixed > Len(file)
  <2>1. o = <<Err, Len(file)>>
    BY <1>7 DEF Outcomes
  <2>2. ASSUME n < owed PROVE FALSE
    BY <1>1, <1>5, <1>6, <1>7, <2>2
  <2> QED BY <1>1, <1>3, <1>4, <2>1, <2>2
<1>8. CASE ~ (pos + Fixed > Len(file))
  <2>1. n < Len(heads)
    <3>1. ASSUME n = Len(heads) PROVE FALSE
      <4>1. CASE growing = NoMsg
        BY <1>1, <1>2, <1>3, <1>8, <3>1, <4>1, WholeInFile
      <4>2. CASE growing # NoMsg
        <5>1. n \in DOMAIN heads /\ Len(file) = heads[n].at + Fixed
          BY <1>2, <3>1, <4>2, WholeInFile
        <5>2. heads[n].at < End(n) /\ heads[n].at \in Nat
          BY <1>2, <5>1, InOrder, HeadTypes
        <5> QED BY <1>1, <1>3, <1>8, <5>1, <5>2
      <4> QED BY <4>1, <4>2
    <3> QED BY <1>1, <1>3, <3>1
  <2> DEFINE m == heads[n + 1].msg
  <2>2. /\ n + 1 \in DOMAIN heads /\ heads[n + 1].at = pos /\ m \in Msgs
        /\ Length(m) \in Nat /\ Length(m) >= Fixed /\ End(n + 1) = pos + Length(m)
        /\ (n < owed => End(n + 1) <= Len(file))
    BY <1>5, <2>1
  <2>3. ASSUME NEW j \in 1 .. Length(m), pos + j <= Len(file) PROVE file[pos + j] = Cell(m, j)
    BY <1>2, <2>2, <2>3 DEF Laid
  <2>4. file[pos + 1].msg = m
    <3>1. file[pos + 1] = Cell(m, 1)
      BY <1>1, <1>8, <2>2, <2>3
    <3> QED BY <3>1 DEF Cell
  <2> HIDE DEF m
  <2>5. ASSUME NEW k \in Nat, k <= Length(m), pos + k <= Len(file) PROVE Aligned(k)
    BY <1>1, <2>2, <2>3, <2>4, <2>5 DEF Aligned
  <2>6. Aligned(Fixed)
    BY <1>1, <1>8, <2>2, <2>5
  <2>7. CASE ~m.sound
    <3>1. o = <<Err, AfterRefused>>
      BY <1>8, <2>4, <2>6, <2>7 DEF Outcomes
    <3>2. m.tail = 0
      BY <2>2, <2>7 DEF InStep, m
    <3>3. Length(m) = Fixed
      BY <1>1, <3>2 DEF Length
    <3> QED BY <1>3, <1>4, <1>1, <2>1, <2>2, <2>7, <3>1, <3>3 DEF Given, Readable, AfterRefused, m
  <2>8. CASE m.sound /\ pos + Length(m) > Len(file)
    <3>1. o = <<Err, Len(file)>>
      BY <1>8, <2>4, <2>6, <2>8 DEF Outcomes
    <3>2. ~ (n < owed)
      BY <1>1, <2>2, <2>8
    <3> QED BY <1>1, <1>3, <1>4, <3>1, <3>2
  <2>9. CASE m.sound /\ ~ (pos + Length(m) > Len(file))
    <3>1. Aligned(Length(m))
      BY <1>1, <2>2, <2>5, <2>9
    <3>2. o[1] = Given(m) /\ o[2] = pos + Length(m)
      BY <1>8, <2>4, <2>6, <2>9, <3>1 DEF Outcomes
    <3> QED BY <1>1, <1>3, <1>4, <2>1, <2>2, <3>2 DEF m
  <2> QED BY <2>7, <2>8, <2>9
<1> QED BY <1>7, <1>8

\* A step ends the walk or gives an item; in step no item is left out.
LEMMA StepGives ==
  ASSUME IterTypeOK, Step
  PROVE  /\ UNCHANGED <<file, growing, heads, broken, size, owed>> /\ mode \in {"iter", "scan"}
         /\ \/ Ends /\ mode' = "done" /\ UNCHANGED <<pos, items>>
            \/ /\ ~Ends /\ mode' = mode
               /\ \E o \in Outcomes :
                    /\ o[1] \in Items /\ pos' = o[2] /\ o[2] \in Nat
                    /\ items' = IF Len(items) > Len(file) THEN items ELSE Append(items, o[1])
<1>1. UNCHANGED <<file, growing, heads, broken, size, owed>> /\ mode \in {"iter", "scan"}
  BY DEF Step, fileVars
<1>2. CASE Ends
  BY <1>1, <1>2 DEF Step
<1>3. CASE ~Ends
  <2>1. mode' = mode
    BY <1>3 DEF Step
  <2>2. PICK o \in Outcomes :
          /\ items' = IF Len(items) > Len(file) THEN items ELSE Append(items, o[1])
          /\ pos' = o[2]
    BY <1>3 DEF Step
  <2>3. o[1] \in Items /\ o[2] \in Nat
    BY OutcomeType
  <2> QED BY <1>1, <1>3, <2>1, <2>2, <2>3
<1> QED BY <1>2, <1>3

\* What a walk gave stays in place when it gives one more.
LEMMA ItemsAppended ==
  ASSUME NEW it \in Items, items \in Seq(Items), items' = Append(items, it)
  PROVE  /\ items' \in Seq(Items) /\ Len(items) \in Nat /\ Len(items') = Len(items) + 1
         /\ DOMAIN items = 1 .. Len(items) /\ DOMAIN items' = 1 .. Len(items) + 1
         /\ items'[Len(items) + 1] = it /\ \A i \in 1 .. Len(items) : items'[i] = items[i]
         /\ items' # << >>
<1>1. /\ items' \in Seq(Items) /\ Len(items) \in Nat /\ Len(items') = Len(items) + 1
      /\ items'[Len(items) + 1] = it /\ \A i \in 1 .. Len(items) : items'[i] = items[i]
  BY AppendProperties, LenProperties
<1> QED BY <1>1, LenProperties

\* A step of a walk keeps the part of the invariant that is about walks.
LEMMA StepKeeps ==
  ASSUME IterTypeOK, LaidOut, WalkInv, Step
  PROVE  IterTypeOK' /\ LaidOut' /\ WalkInv'
<1>1. UNCHANGED <<file, growing, heads, broken, size, owed>> /\ mode \in {"iter", "scan"}
  BY StepGives
<1>2. /\ Len(heads) \in Nat /\ Len(file) \in Nat /\ Len(items) \in Nat /\ owed \in Nat
      /\ size \in Nat /\ pos \in Nat /\ DOMAIN heads = 1 .. Len(heads)
      /\ items \in Seq(Items)
  BY HeadTypes DEF IterTypeOK
<1>3. LaidOut'
  BY <1>1 DEF LaidOut, Laid, End
<1>4. IterTypeOK'
  <2>1. CASE Ends /\ mode' = "done" /\ UNCHANGED <<pos, items>>
    BY <1>1, <2>1 DEF IterTypeOK
  <2>2. ASSUME ~Ends, mode' = mode, NEW o \in Outcomes,
               o[1] \in Items, pos' = o[2], o[2] \in Nat,
               items' = IF Len(items) > Len(file) THEN items ELSE Append(items, o[1])
        PROVE  IterTypeOK'
    <3>1. items' \in Seq(Items)
      BY <1>2, <2>2, ItemsAppended
    <3> QED BY <1>1, <2>2, <3>1 DEF IterTypeOK
  <2> QED BY <2>1, <2>2, StepGives
<1>5. WalkInv'
  <2> SUFFICES ASSUME InStep
               PROVE  owed' <= WholeCount' /\ size' <= Len(file')
                      /\ (\A i \in 1 .. owed : End(i) <= size)' /\ ReaderStands'
    BY <1>1 DEF WalkInv, InStep
  <2>1. owed <= WholeCount /\ size <= Len(file) /\ \A i \in 1 .. owed : End(i) <= size
    BY <1>1 DEF WalkInv
  <2>2. owed' <= WholeCount' /\ size' <= Len(file')
    BY <1>1, <2>1 DEF WholeCount
  <2>3. (\A i \in 1 .. owed : End(i) <= size)'
    BY <1>1, <2>1 DEF End
  <2>4. CASE Ends /\ mode' = "done" /\ UNCHANGED <<pos, items>>
    <3>1. ReaderStands
      BY <1>1 DEF WalkInv
    <3>2. CASE EndsInErr /\ Walked(Len(items) - 1) /\ Len(items) > owed /\ pos >= size
      <4>1. PICK n : n = Len(items) - 1
        OBVIOUS
      <4>2. Walked(n)' /\ n = Len(items') - 1 /\ EndsInErr' /\ Len(items') > owed' /\ pos' >= size'
        BY <1>1, <2>4, <3>2, <4>1 DEF Walked, EndsInErr
      <4> QED BY <2>2, <2>3, <4>2 DEF ReaderStands
    <3>3. CASE Walked(Len(items)) /\ pos = End(Len(items))
      <4>1. PICK k : k = Len(items)
        OBVIOUS
      <4>2. Walked(k)' /\ k = Len(items') /\ pos' = End(k)'
        BY <1>1, <2>4, <3>3, <4>1 DEF Walked, End
      <4> QED BY <2>2, <2>3, <4>2 DEF ReaderStands
    <3> QED BY <2>2, <2>3, <3>1, <3>2, <3>3 DEF ReaderStands
  <2>5. ASSUME ~Ends, mode' = mode, NEW o \in Outcomes,
               o[1] \in Items, pos' = o[2], o[2] \in Nat,
               items' = IF Len(items) > Len(file) THEN items ELSE Append(items, o[1])
        PROVE  ReaderStands'
    <3> DEFINE n == Len(items)
    <3>1. /\ n \in Nat /\ n <= Len(file) /\ Walked(n) /\ pos = End(n)
          /\ \/ n < Len(heads) /\ o[1] = Given(heads[n + 1].msg) /\ o[2] = End(n + 1)
             \/ o[1] = Err /\ o[2] = Len(file) /\ n >= owed
      BY <1>1, <2>5, OutcomeInStep
    <3>2. items' = Append(items, o[1])
      BY <1>2, <2>5, <3>1
    <3>3. /\ Len(items') = n + 1 /\ items'[n + 1] = o[1] /\ items' # << >>
          /\ \A i \in 1 .. n : items'[i] = items[i]
      BY <1>2, <2>5, <3>2, ItemsAppended
    <3>5. CASE n < Len(heads) /\ o[1] = Given(heads[n + 1].msg) /\ o[2] = End(n + 1)
      <4>1. PICK k : k = n + 1
        OBVIOUS
      <4>2. Walked(k)'
        <5>1. k <= Len(heads') /\ \A i \in 1 .. k : i \in 1 .. n \/ i = k
          BY <1>1, <1>2, <3>5, <4>1
        <5>2. \A i \in 1 .. n : items'[i] = Given(heads'[i].msg)
          BY <1>1, <3>1, <3>3 DEF Walked
        <5>3. items'[k] = Given(heads'[k].msg)
          BY <1>1, <3>3, <3>5, <4>1
        <5> QED BY <5>1, <5>2, <5>3 DEF Walked
      <4>3. pos' = End(k)'
        BY <1>1, <2>5, <3>5, <4>1 DEF End
      <4> QED BY <3>3, <4>1, <4>2, <4>3 DEF ReaderStands
    <3>6. CASE o[1] = Err /\ o[2] = Len(file) /\ n >= owed
      <4>1. EndsInErr'
        BY <3>3, <3>6 DEF EndsInErr
      <4>2. PICK k : k = n
        OBVIOUS
      <4>3. Walked(k)' /\ Len(items') - 1 = k
        BY <1>1, <1>2, <3>1, <3>3, <4>2 DEF Walked
      <4>4. Len(items') > owed' /\ pos' >= size'
        BY <1>1, <1>2, <2>1, <2>5, <3>3, <3>6
      <4> QED BY <4>1, <4>3, <4>4 DEF ReaderStands
    <3> QED BY <3>1, <3>5, <3>6
  <2> QED BY <2>2, <2>3, <2>4, <2>5, StepGives
<1> QED BY <1>3, <1>4, <1>5

\* What the walk has given.
LEMMA WalkIsRight == IterTypeOK /\ WalkInv => WalkInOrder
<1> SUFFICES ASSUME IterTypeOK, WalkInv, InStep PROVE WalkInOrder
  BY DEF WalkInOrder
<1>1. Len(items) \in Nat /\ DOMAIN items = 1 .. Len(items) /\ owed \in Nat /\ Len(heads) \in Nat
  BY HeadTypes DEF IterTypeOK
<1>2. CASE mode = "none"
  <2>1. items = << >>
    BY <1>2 DEF IterTypeOK
  <2> QED BY <1>2, <2>1 DEF WalkInOrder
<1>3. CASE mode # "none"
  <2>1. ReaderStands
    BY <1>3 DEF WalkInv
  <2>2. CASE Walked(Len(items)) /\ pos = End(Len(items))
    BY <1>1, <2>2 DEF WalkInOrder, Walked
  <2>3. CASE EndsInErr /\ Walked(Len(items) - 1) /\ Len(items) > owed
    <3>1. \A i \in DOMAIN items : i = Len(items) \/ i \in 1 .. Len(items) - 1
      BY <1>1
    <3>2. \A i \in 1 .. Len(items) - 1 : i <= Len(heads)
      BY <1>1, <2>3 DEF Walked
    <3> QED BY <1>1, <2>3, <3>1, <3>2 DEF WalkInOrder, Walked, EndsInErr
  <2> QED BY <2>1, <2>2, <2>3 DEF ReaderStands
<1> QED BY <1>2, <1>3

\* When it is over: iter has come to the size it was given, behind all that was
\* whole; a loop "while let Ok" has met an error.
LEMMA WalkEndsRight ==
  ASSUME IterTypeOK, LaidOut, WalkInv, InStep, Step, mode' = "done"
  PROVE  \/ Len(items) >= owed
         \/ mode = "scan" /\ items # << >> /\ ~Readable(heads[Len(items)].msg)
<1> DEFINE n == Len(items)
<1>1. /\ Len(heads) \in Nat /\ n \in Nat /\ owed \in Nat /\ size \in Nat /\ pos \in Nat
      /\ DOMAIN heads = 1 .. Len(heads)
  BY HeadTypes DEF IterTypeOK
<1>2. Ends /\ mode \in {"iter", "scan"}
  BY StepGives
<1>3. owed <= WholeCount /\ size <= Len(file) /\ (\A i \in 1 .. owed : End(i) <= size) /\ ReaderStands
  BY <1>2 DEF WalkInv
<1>4. CASE n > owed
  BY <1>1, <1>4
<1>5. CASE Walked(n) /\ pos = End(n) /\ mode = "iter"
  <2>1. pos >= size
    BY <1>2, <1>5 DEF Ends, AtEnd
  <2>2. ASSUME n < owed PROVE FALSE
    <3>1. n + 1 \in DOMAIN heads /\ n + 1 \in 1 .. owed /\ (n + 1) - 1 = n
      <4>1. WholeCount \in Nat /\ WholeCount <= Len(heads)
        BY WholeInFile DEF InStep
      <4> QED BY <1>1, <1>3, <2>2, <4>1
    <3>2. heads[n + 1].at = End(n) /\ heads[n + 1].at < End(n + 1)
      BY <3>1, InOrder, WholeInFile DEF InStep
    <3>3. End(n + 1) \in Nat /\ End(n + 1) <= size
      BY <1>3, <3>1, HeadTypes
    <3> QED BY <1>1, <1>5, <2>1, <3>2, <3>3
  <2> QED BY <1>1, <2>2
<1>6. CASE Walked(n) /\ mode = "scan"
  <2>1. items # << >> /\ items[n] = Err
    BY <1>2, <1>6 DEF Ends
  <2>2. n # 0
    BY <2>1, EmptySeq DEF IterTypeOK
  <2>3. Given(heads[n].msg) = Err
    BY <1>1, <1>6, <2>1, <2>2 DEF Walked
  <2>4. \A m : Item(m) # Err
    <3>1. \A m : Item(m).ok /\ ~Err.ok
      BY DEF Item, Err
    <3> QED BY <3>1
  <2> QED BY <1>6, <2>1, <2>3, <2>4 DEF Given
<1> QED BY <1>2, <1>3, <1>4, <1>5, <1>6 DEF ReaderStands
-----------------------------------------------------------------------------
\* A message that is converted is one of a JAM base.
LEMMA JamMsgType ==
  ASSUME NEW m, NEW id \in Nat, m.num \in Nat, m.reply_to \in Nat, m.del \in BOOLEAN
  PROVE  /\ JamMsg(m, id) \in JamMsgs /\ JamMsg(m, id).num = m.num /\ JamMsg(m, id).id = id
         /\ JamMsg(m, id).del = m.del
         /\ JamMsg(m, id).reply_crc = 0 /\ JamMsg(m, id).reply1st = 0
BY DEF JamMsg, JamMsgs

\* The base that is there has one message.
LEMMA OldLogType ==
  /\ OldLog \in Seq(Dest!Entries) /\ Len(OldLog) = 1 /\ DOMAIN OldLog = {1}
  /\ OldLog[1].msg \in JamMsgs /\ OldLog[1].msg.id = 0
  /\ OldLog[1].deleted = FALSE /\ OldLog[1].msg.del = FALSE
<1> DEFINE m == CHOOSE m \in SourceMsgs : ~m.del
           e == [msg |-> JamMsg(m, 0), deleted |-> FALSE]
<1>1. m \in SourceMsgs /\ ~m.del
  BY SourceAssumption
<1> HIDE DEF m
<1>2. m.num \in Nat /\ m.reply_to \in Nat /\ m.del \in BOOLEAN
  BY <1>1, SourceAssumption
<1>3. m.del = FALSE
  BY <1>1, <1>2
<1>4. e \in Dest!Entries /\ e.msg = JamMsg(m, 0) /\ e.deleted = FALSE
  BY <1>2, JamMsgType DEF Dest!Entries
<1>5. e.msg \in JamMsgs /\ e.msg.id = 0 /\ e.msg.del = FALSE
  BY <1>2, <1>3, <1>4, JamMsgType
<1>6. OldLog = <<e>>
  BY DEF OldLog, m
<1> HIDE DEF e
<1> QED BY <1>4, <1>5, <1>6

ConvRest == Phases /\ SourceFirst /\ CallOK /\ MapsOK /\ LastKept /\ LinkInv /\ WriteInv

\* The invariant is that of the walks and that of the conversion.
LEMMA ConvInvParts == ConvInv <=> IterTypeOK /\ LaidOut /\ WalkInv /\ ConvRest
BY DEF ConvInv, ConvRest

\* Before a conversion begins there is little to say.
LEMMA InvInit == Init => ConvInv
<1> SUFFICES ASSUME Init PROVE ConvInv
  OBVIOUS
<1>1. /\ file \in Files /\ heads \in HeadLists /\ Laid /\ Len(file) = End(Len(heads))
      /\ growing = NoMsg /\ broken = FALSE
      /\ mode = "none" /\ size = 0 /\ pos = 0 /\ items = << >> /\ owed = 0
  BY DEF Init, IterInit
<1>2. IterTypeOK /\ WalkInv
  <2>1. items \in Seq(Items)
    BY <1>1
  <2>2. IterTypeOK
    BY <1>1, <2>1 DEF IterTypeOK
  <2> QED BY <1>1, <2>2 DEF WalkInv
<1>3. LaidOut
  <2>1. Len(heads) \in Nat /\ Len(heads) \in 0 .. Len(heads)
    BY <1>2, HeadTypes
  <2>2. End(Len(heads)) \in Nat
    BY <1>2, <2>1, EndType
  <2> QED BY <1>1, <2>2 DEF LaidOut
<1>4. /\ phase = "none" /\ queue = << >> /\ mails = << >>
      /\ jam_messages = << >> /\ message_ids = << >> /\ reply_next = << >>
      /\ dest = OldLog /\ call = [h \in {Me} |-> Dest!NoCall]
      /\ ret = [h \in {Me} |-> Dest!Answer("none", 0, "none")]
  BY DEF Init
<1>5. ret[Me].op = "none" /\ ret \in [{Me} -> Dest!Answers] /\ call[Me] = Dest!NoCall
  BY <1>4 DEF Dest!Answer, Dest!Answers, Dest!FlagOps
<1>6. ~Writing /\ Phases
  BY <1>1, <1>4, <1>5 DEF Writing, Phases, Before
<1>7. SourceFirst /\ LastKept /\ LinkInv
  BY <1>1, <1>4, <1>5, <1>6 DEF SourceFirst, LastKept, LinkInv
<1>8. CallOK
  BY <1>4, <1>5 DEF CallOK
<1>9. MapsOK
  <2>1. DOMAIN jam_messages = {} /\ DOMAIN message_ids = {} /\ IsFiniteSet({})
    BY <1>4, FS_EmptySet
  <2> QED BY <1>4, <2>1 DEF MapsOK
<1>10. WriteInv
  BY <1>4, <1>6, OldLogType DEF WriteInv
<1> QED BY <1>2, <1>3, <1>6, <1>7, <1>8, <1>9, <1>10 DEF ConvInv

\* The growth of the source does not touch the conversion.
LEMMA RestSame ==
  ASSUME ConvRest, UNCHANGED <<mode, items, phase, maps, queue, mails, destVars>>, InStep' => InStep
  PROVE  ConvRest'
<1>1. UNCHANGED <<mode, items, phase, jam_messages, message_ids, reply_next, queue, mails,
                  dest, call, ret>>
  BY DEF maps, destVars
<1>2. Writing' = Writing /\ Meant' = Meant
  BY <1>1 DEF Writing, Meant, LastOf
<1>3. Phases' /\ SourceFirst' /\ CallOK'
  BY <1>1, <1>2 DEF ConvRest, Phases, SourceFirst, CallOK
<1>4. MapsOK' /\ LastKept'
  BY <1>1, <1>2 DEF ConvRest, MapsOK, LastKept
<1>5. LinkInv'
  BY <1>1, <1>2 DEF ConvRest, LinkInv, Replies, Awaited, IsReply
<1>6. WriteInv'
  BY <1>1, <1>2 DEF ConvRest, WriteInv, Queued
<1> QED BY <1>3, <1>4, <1>5, <1>6 DEF ConvRest

\* What other programs append to the source disturbs nothing.
LEMMA OthersKeep == ASSUME ConvInv, Others PROVE ConvInv'
<1>1. IterTypeOK /\ LaidOut /\ WalkInv /\ ConvRest /\ Grow
      /\ UNCHANGED <<phase, maps, queue, mails, destVars>>
  BY ConvInvParts DEF Others
<1>2. IterTypeOK' /\ LaidOut' /\ WalkInv'
  BY <1>1, GrowKeeps
<1>3. UNCHANGED <<mode, items>>
  BY <1>1 DEF Grow, readVars
<1>4. InStep' => InStep
  <2>1. ~broken' => ~broken
    <3>1. broken \in BOOLEAN
      BY <1>1 DEF IterTypeOK
    <3> QED BY <1>1, <3>1 DEF Grow
  <2>2. \A i \in DOMAIN heads : i \in DOMAIN heads' /\ heads'[i] = heads[i]
    <3>1. CASE UNCHANGED heads
      BY <3>1
    <3>2. ASSUME NEW m \in NewMsgs, heads' = Append(heads, [msg |-> m, at |-> Len(file)])
          PROVE  \A i \in DOMAIN heads : i \in DOMAIN heads' /\ heads'[i] = heads[i]
      <4> DEFINE hd == [msg |-> m, at |-> Len(file)]
      <4>1. hd \in [msg : Msgs, at : Nat]
        BY <1>1, MsgsAssumption, HeadTypes
      <4>2. heads \in Seq([msg : Msgs, at : Nat]) /\ heads' = Append(heads, hd)
        BY <1>1, <3>2 DEF IterTypeOK, HeadLists
      <4> HIDE DEF hd
      <4> QED BY <4>1, <4>2, AppendProperties, LenProperties
    <3> QED BY <1>1, <3>1, <3>2 DEF Grow
  <2> QED BY <2>1, <2>2 DEF InStep
<1>5. ConvRest'
  BY <1>1, <1>3, <1>4, RestSame
<1> QED BY <1>2, <1>5, ConvInvParts DEF ConvInv, ConvRest

\* A reader begins ...
LEMMA StartKeeps == ASSUME ConvInv, StartRead \/ StartWalk PROVE ConvInv'
<1>1. PICK how \in {"iter", "scan"} :
        /\ Begin(how) /\ phase = "none" /\ phase' \in {"read", "walk"}
        /\ (phase' = "read" => how = "iter")
        /\ UNCHANGED <<jam_messages, message_ids, reply_next, queue, mails, dest, call, ret>>
  BY DEF StartRead, StartWalk, maps, destVars
<1>2. IterTypeOK' /\ LaidOut' /\ WalkInv' /\ mode' = how /\ items' = << >>
  BY <1>1, BeginKeeps DEF ConvInv
<1>3. ret[Me].op = "none" /\ dest = OldLog /\ DOMAIN jam_messages = {} /\ ~Writing /\ ~Writing'
  BY <1>1 DEF ConvInv, SourceFirst, Before, MapsOK, Writing
<1>4. Phases' /\ SourceFirst' /\ CallOK' /\ LinkInv'
  <2>1. Phases'
    BY <1>1, <1>2, <1>3 DEF Phases, Before
  <2>2. SourceFirst'
    BY <1>1, <1>2, <1>3 DEF SourceFirst, Before
  <2>3. CallOK'
    BY <1>1 DEF ConvInv, CallOK
  <2>4. LinkInv'
    BY <1>1, <1>3 DEF LinkInv
  <2> QED BY <2>1, <2>2, <2>3, <2>4
<1>5. MapsOK'
  BY <1>1, <1>3 DEF ConvInv, MapsOK
<1>6. LastKept'
  BY <1>1, <1>2, <1>3 DEF LastKept
<1>7. WriteInv'
  BY <1>1, <1>3 DEF ConvInv, WriteInv
<1> QED BY <1>2, <1>4, <1>5, <1>6, <1>7 DEF ConvInv

\* ... and walks.
LEMMA WalkKeeps == ASSUME ConvInv, Walk PROVE ConvInv'
<1>1. /\ Step /\ phase = "walk"
      /\ UNCHANGED <<phase, jam_messages, message_ids, reply_next, queue, mails, dest, call, ret>>
  BY DEF Walk, maps, destVars
<1>2. IterTypeOK' /\ LaidOut' /\ WalkInv'
  BY <1>1, StepKeeps DEF ConvInv
<1>3. ret[Me].op = "none" /\ dest = OldLog /\ ~Writing /\ ~Writing'
  BY <1>1 DEF ConvInv, SourceFirst, Before, Writing
<1>4. Phases' /\ SourceFirst' /\ LinkInv' /\ LastKept'
  BY <1>1, <1>3 DEF Phases, Before, SourceFirst, LinkInv, LastKept
<1>5. CallOK' /\ MapsOK' /\ WriteInv'
  BY <1>1, <1>3 DEF ConvInv, CallOK, MapsOK, WriteInv
<1> QED BY <1>2, <1>4, <1>5 DEF ConvInv

\* A message that was read is neither garbage nor an error.
LEMMA ItemIsNoGarbage == \A m : Item(m) # Garbage /\ Item(m) # Err
<1>1. "msg" \notin DOMAIN Garbage /\ "msg" \notin DOMAIN Err
  BY DEF Garbage, Err
<1>2. \A m : "msg" \in DOMAIN Item(m)
  BY DEF Item
<1> QED BY <1>1, <1>2

\* A message comes into both maps.
LEMMA MessageMapped ==
  ASSUME MapsOK, phase = "read", phase' = "read", NEW m \in SourceMsgs, NEW id \in Nat,
         jam_messages' = Insert(jam_messages, m.num, JamMsg(m, id)),
         message_ids' = Insert(message_ids, m.num, JamMsg(m, id).id)
  PROVE  /\ MapsOK' /\ DOMAIN jam_messages' = DOMAIN jam_messages \cup {m.num}
         /\ jam_messages'[m.num] = JamMsg(m, id)
         /\ \A n \in DOMAIN jam_messages \ {m.num} : jam_messages'[n] = jam_messages[n]
<1> DEFINE S == DOMAIN jam_messages
           k == m.num
           new == JamMsg(m, id)
<1>1. /\ S \in SUBSET Nat /\ IsFiniteSet(S)
      /\ jam_messages \in [S -> JamMsgs] /\ message_ids \in [S -> Nat]
      /\ \A n \in S : /\ jam_messages[n].num = n /\ message_ids[n] = jam_messages[n].id
                       /\ jam_messages[n].reply_crc = 0 /\ jam_messages[n].reply1st = 0
  BY DEF MapsOK
<1>2. /\ k \in Nat /\ new \in JamMsgs /\ new.num = k /\ new.id = id
      /\ new.reply_crc = 0 /\ new.reply1st = 0
  BY SourceAssumption, JamMsgType
<1>0. jam_messages' = Insert(jam_messages, k, new) /\ message_ids' = Insert(message_ids, k, id)
  BY <1>2
<1> HIDE DEF S, k, new
<1>3. /\ jam_messages' \in [S \cup {k} -> JamMsgs] /\ jam_messages'[k] = new
      /\ \A n \in S \ {k} : jam_messages'[n] = jam_messages[n]
  BY <1>0, <1>1, <1>2 DEF Insert
<1>4. /\ message_ids' \in [S \cup {k} -> Nat] /\ message_ids'[k] = id
      /\ \A n \in S \ {k} : message_ids'[n] = message_ids[n]
  BY <1>0, <1>1, <1>2 DEF Insert
<1>5. S \cup {k} \in SUBSET Nat /\ IsFiniteSet(S \cup {k})
  BY <1>1, <1>2, FS_AddElement
<1>6. DOMAIN jam_messages' = S \cup {k}
  BY <1>3
<1>7. \A n \in S \cup {k} :
        /\ jam_messages'[n].num = n /\ message_ids'[n] = jam_messages'[n].id
        /\ jam_messages'[n].reply_crc = 0 /\ jam_messages'[n].reply1st = 0
  BY <1>1, <1>2, <1>3, <1>4
<1>8. MapsOK'
  BY <1>3, <1>4, <1>5, <1>6, <1>7 DEF MapsOK
<1> QED BY <1>3, <1>6, <1>8 DEF S, k, new

\* A message of the source is read.
LEMMA ReadOneKeeps == ASSUME ConvInv, ReadOne PROVE ConvInv'
<1>1. /\ Step /\ phase = "read" /\ UNCHANGED <<queue, mails, dest, call, ret>>
  BY DEF ReadOne, destVars
<1>2. IterTypeOK /\ IterTypeOK' /\ LaidOut /\ LaidOut' /\ WalkInv /\ WalkInv'
  BY <1>1, StepKeeps DEF ConvInv
<1>3. /\ UNCHANGED <<file, growing, heads, broken, size, owed>>
      /\ \/ Ends /\ mode' = "done" /\ UNCHANGED <<pos, items>>
         \/ /\ ~Ends /\ mode' = mode
            /\ \E o \in Outcomes :
                 /\ o[1] \in Items /\ pos' = o[2] /\ o[2] \in Nat
                 /\ items' = IF Len(items) > Len(file) THEN items ELSE Append(items, o[1])
  BY <1>1, <1>2, StepGives
<1>4. /\ mode = "iter" /\ dest = OldLog /\ ret[Me].op = "none" /\ ~Writing /\ MapsOK /\ LastKept
      /\ \A i \in DOMAIN items : items[i] # Err
  BY <1>1 DEF ConvInv, Phases, SourceFirst, Before, Writing
<1>5. (InStep' <=> InStep) /\ items \in Seq(Items) /\ items' \in Seq(Items) /\ Len(file) \in Nat
  BY <1>2, <1>3, HeadTypes DEF InStep, IterTypeOK
<1>6. CASE mode' = "done" /\ phase' = "link" /\ UNCHANGED maps
  <2>1. UNCHANGED <<items, jam_messages, message_ids, reply_next>>
    BY <1>3, <1>4, <1>6 DEF maps
  <2>2. ~Writing' /\ Phases' /\ SourceFirst' /\ LinkInv'
    BY <1>1, <1>4, <1>6, <2>1 DEF Writing, Phases, SourceFirst, LinkInv, Before
  <2>3. CallOK' /\ MapsOK' /\ WriteInv'
    BY <1>1, <1>6, <2>1, <2>2 DEF ConvInv, CallOK, MapsOK, WriteInv
  <2>4. LastKept'
    BY <1>1, <1>4, <1>5, <1>6, <2>1 DEF LastKept, Before
  <2> QED BY <1>2, <2>2, <2>3, <2>4 DEF ConvInv
<1>7. CASE phase' = "failed" /\ mode' # "done" /\ UNCHANGED maps
  <2>1. UNCHANGED <<jam_messages, message_ids, reply_next>> /\ mode' = "iter"
    BY <1>3, <1>4, <1>7 DEF maps
  <2>2. ~Writing'
    BY <1>1, <1>4, <1>7 DEF Writing
  <2>3. Phases' /\ SourceFirst' /\ LinkInv' /\ LastKept'
    BY <1>1, <1>4, <1>7, <2>1, <2>2 DEF Phases, SourceFirst, LinkInv, LastKept, Before
  <2>4. CallOK' /\ MapsOK' /\ WriteInv'
    BY <1>1, <1>7, <2>1, <2>2 DEF ConvInv, CallOK, MapsOK, WriteInv
  <2> QED BY <1>2, <2>3, <2>4 DEF ConvInv
<1> DEFINE item == items'[Len(items')]
<1>8. ASSUME mode' # "done", item # Err, UNCHANGED <<phase, reply_next>>,
             NEW m \in IF item = Garbage THEN SourceMsgs ELSE {item.msg},
             jam_messages' = Insert(jam_messages, m.num, JamMsg(m, Len(items'))),
             message_ids' = Insert(message_ids, m.num, JamMsg(m, Len(items')).id)
      PROVE  ConvInv'
  <2>1. PICK o \in Outcomes :
          /\ o[1] \in Items
          /\ items' = IF Len(items) > Len(file) THEN items ELSE Append(items, o[1])
    BY <1>3, <1>8
  <2>2. ~Ends /\ mode' = "iter" /\ phase' = "read"
    BY <1>1, <1>3, <1>4, <1>8
  <2>3. Len(items') \in Nat /\ item \in Items /\ DOMAIN items' = 1 .. Len(items')
    <3>1. items' # << >>
      BY <1>5, <2>1, ItemsAppended
    <3> QED BY <1>5, <3>1, LenProperties, ElementOfSeq, EmptySeq
  <2>4. m \in SourceMsgs
    BY <1>8, <2>3, SourceAssumption DEF Items, Item
  <2>5. \A i \in DOMAIN items' : items'[i] # Err
    <3>1. CASE items' = items
      BY <1>4, <3>1
    <3>2. CASE items' = Append(items, o[1])
      BY <1>4, <1>5, <1>8, <2>1, <3>2, ItemsAppended
    <3> QED BY <2>1, <3>1, <3>2
  <2>6. /\ MapsOK' /\ DOMAIN jam_messages' = DOMAIN jam_messages \cup {m.num}
        /\ jam_messages'[m.num] = JamMsg(m, Len(items'))
        /\ \A n \in DOMAIN jam_messages \ {m.num} : jam_messages'[n] = jam_messages[n]
    <3> HIDE DEF item
    <3> QED BY <1>1, <1>4, <1>8, <2>2, <2>3, <2>4, MessageMapped
  <2>7. ~Writing' /\ Phases' /\ SourceFirst' /\ LinkInv'
    BY <1>1, <1>4, <2>2, <2>5 DEF Writing, Phases, SourceFirst, LinkInv, Before
  <2>8. CallOK' /\ WriteInv'
    BY <1>1, <2>2, <2>7 DEF ConvInv, CallOK, WriteInv
  <2>9. LastKept'
    <3> SUFFICES ASSUME InStep
                 PROVE  /\ DOMAIN jam_messages' = {items'[i].msg.num : i \in DOMAIN items'}
                        /\ \A n \in DOMAIN jam_messages' :
                             /\ jam_messages'[n].id \in DOMAIN items'
                             /\ items'[jam_messages'[n].id].msg.num = n
                             /\ \A j \in DOMAIN items' : items'[j].msg.num = n
                                  => j <= jam_messages'[n].id
                             /\ jam_messages'[n].del = items'[jam_messages'[n].id].msg.del
      BY <1>5 DEF LastKept
    <3> DEFINE l == Len(items)
    <3>1. /\ l \in Nat /\ l <= Len(file)
          /\ o[1] = Err \/ (l < Len(heads) /\ o[1] = Given(heads[l + 1].msg))
      BY <1>2, <1>4, <2>1, <2>2, OutcomeInStep
    <3>2. items' = Append(items, o[1])
      BY <1>5, <2>1, <3>1
    <3>3. /\ Len(items') = l + 1 /\ items'[l + 1] = o[1] /\ DOMAIN items = 1 .. l
          /\ DOMAIN items' = 1 .. l + 1 /\ \A i \in 1 .. l : items'[i] = items[i]
      BY <1>5, <2>1, <3>2, ItemsAppended
    <3>4. item = o[1] /\ item # Err
      BY <1>8, <3>3
    <3>5. item.msg = m
      <4>1. \E x : item = Item(x)
        BY <3>1, <3>4 DEF Given
      <4> HIDE DEF item
      <4> QED BY <1>8, <4>1, ItemIsNoGarbage
    <3> HIDE DEF item
    <3>6. items'[l + 1].msg = m
      BY <3>3, <3>4, <3>5
    <3>7. /\ DOMAIN jam_messages = {items[i].msg.num : i \in DOMAIN items}
          /\ \A n \in DOMAIN jam_messages :
               /\ jam_messages[n].id \in DOMAIN items /\ items[jam_messages[n].id].msg.num = n
               /\ \A j \in DOMAIN items : items[j].msg.num = n => j <= jam_messages[n].id
               /\ jam_messages[n].del = items[jam_messages[n].id].msg.del
      BY <1>1, <1>4 DEF LastKept, Before
    <3>8. DOMAIN jam_messages' = {items'[i].msg.num : i \in DOMAIN items'}
      <4>1. 1 .. l + 1 = (1 .. l) \cup {l + 1}
        BY <3>1
      <4>2. {items'[i].msg.num : i \in 1 .. l} = {items[i].msg.num : i \in 1 .. l}
        BY <3>3
      <4> QED BY <2>6, <3>3, <3>6, <3>7, <4>1, <4>2
    <3>9. ASSUME NEW n \in DOMAIN jam_messages'
          PROVE  /\ jam_messages'[n].id \in DOMAIN items'
                 /\ items'[jam_messages'[n].id].msg.num = n
                 /\ \A j \in DOMAIN items' : items'[j].msg.num = n => j <= jam_messages'[n].id
                 /\ jam_messages'[n].del = items'[jam_messages'[n].id].msg.del
      <4>1. CASE n = m.num
        <5>1. jam_messages'[n].id = l + 1 /\ jam_messages'[n].del = m.del
          <6>1. m.num \in Nat /\ m.reply_to \in Nat /\ m.del \in BOOLEAN /\ l + 1 \in Nat
            BY <2>4, <3>1, SourceAssumption
          <6>2. JamMsg(m, l + 1).id = l + 1 /\ JamMsg(m, l + 1).del = m.del
            BY <6>1, JamMsgType
          <6> QED BY <2>6, <3>3, <4>1, <6>2
        <5> QED BY <3>1, <3>3, <3>6, <4>1, <5>1
      <4>2. CASE n # m.num
        <5>1. n \in DOMAIN jam_messages /\ jam_messages'[n] = jam_messages[n]
          BY <2>6, <4>2
        <5>2. jam_messages[n].id \in 1 .. l
          BY <3>3, <3>7, <5>1
        <5>3. ASSUME NEW j \in DOMAIN items', items'[j].msg.num = n PROVE j <= jam_messages[n].id
          <6>1. j # l + 1
            BY <3>6, <4>2, <5>3
          <6>2. j \in 1 .. l
            BY <3>1, <3>3, <6>1
          <6> QED BY <3>3, <3>7, <5>1, <5>3, <6>2
        <5> QED BY <3>1, <3>3, <3>7, <5>1, <5>2, <5>3
      <4> QED BY <4>1, <4>2
    <3> QED BY <3>8, <3>9
  <2> QED BY <1>2, <2>6, <2>7, <2>8, <2>9 DEF ConvInv
<1> QED BY <1>6, <1>7, <1>8 DEF ReadOne

\* Linking changes the two fields of a message that it sets and no other.
LEMMA Edited ==
  ASSUME NEW m \in JamMsgs, NEW x \in Nat
  PROVE  /\ [m EXCEPT !.reply_crc = x] \in JamMsgs /\ [m EXCEPT !.reply1st = x] \in JamMsgs
         /\ [m EXCEPT !.reply_crc = x].reply_crc = x /\ [m EXCEPT !.reply1st = x].reply1st = x
         /\ [m EXCEPT !.reply1st = x].reply_crc = m.reply_crc
         /\ [m EXCEPT !.reply_crc = x].reply1st = m.reply1st
         /\ \A e \in {[m EXCEPT !.reply_crc = x], [m EXCEPT !.reply1st = x]} :
              e.num = m.num /\ e.reply_to = m.reply_to /\ e.id = m.id /\ e.del = m.del
BY DEF JamMsgs

\* Linking changes what the messages say of each other only.
LEMMA LinkFrame ==
  ASSUME ConvInv, phase \in {"link", "reply1st"}, phase' \in {"reply1st", "create"},
         UNCHANGED <<fileVars, readVars, message_ids, queue, mails, destVars>>,
         jam_messages' \in [DOMAIN jam_messages -> JamMsgs],
         \A n \in DOMAIN jam_messages :
           LET m == jam_messages[n] e == jam_messages'[n] IN
           e.num = m.num /\ e.reply_to = m.reply_to /\ e.id = m.id /\ e.del = m.del,
         LinkInv'
  PROVE  ConvInv' /\ Replies' = Replies /\ DOMAIN jam_messages' = DOMAIN jam_messages
<1>1. UNCHANGED <<file, growing, heads, broken, mode, size, pos, items, owed, message_ids, queue,
                  mails, dest, call, ret>>
  BY DEF fileVars, readVars, destVars
<1>2. IterTypeOK' /\ LaidOut'
  BY <1>1 DEF ConvInv, IterTypeOK, LaidOut, Laid, End
<1>3. (InStep' <=> InStep) /\ WalkInv'
  BY <1>1 DEF ConvInv, WalkInv, InStep, WholeCount, End, ReaderStands, Walked, EndsInErr
<1>4. mode = "done" /\ dest = OldLog /\ ret[Me].op = "none" /\ ~Writing /\ ~Writing'
  BY <1>1 DEF ConvInv, Phases, SourceFirst, Before, Writing
<1>5. Phases' /\ SourceFirst' /\ CallOK'
  <2>1. \A i \in DOMAIN items : items[i] # Err
    BY DEF ConvInv, SourceFirst, Before
  <2>2. call[Me] = Dest!NoCall
    BY DEF ConvInv, CallOK
  <2> QED BY <1>1, <1>4, <2>1, <2>2 DEF ConvInv, Phases, SourceFirst, Before, CallOK
<1>6. DOMAIN jam_messages' = DOMAIN jam_messages
  OBVIOUS
<1>7. MapsOK'
  BY <1>1, <1>6 DEF ConvInv, MapsOK
<1>8. LastKept'
  <2>1. LastKept /\ phase \in Before \ {"walk"}
    BY DEF ConvInv, Before
  <2> QED BY <1>1, <1>3, <1>4, <1>6, <2>1 DEF LastKept
<1>9. WriteInv'
  BY <1>1, <1>4 DEF ConvInv, WriteInv
<1>10. Replies' = Replies
  BY <1>1, <1>6 DEF Replies, IsReply
<1> QED BY <1>2, <1>3, <1>5, <1>6, <1>7, <1>8, <1>9, <1>10 DEF ConvInv

\* The replies are finitely many messages, each to another one that is there.
LEMMA RepliesFinite ==
  ASSUME MapsOK
  PROVE  /\ Replies \in SUBSET Nat /\ IsFiniteSet(Replies) /\ Replies \subseteq DOMAIN jam_messages
         /\ \A r \in Replies : /\ jam_messages[r].reply_to \in DOMAIN jam_messages
                               /\ jam_messages[r].reply_to # r /\ jam_messages[r].reply_to # 0
                               /\ message_ids[jam_messages[r].reply_to] \in Nat
<1>1. /\ DOMAIN jam_messages \in SUBSET Nat /\ IsFiniteSet(DOMAIN jam_messages)
      /\ message_ids \in [DOMAIN jam_messages -> Nat]
  BY DEF MapsOK
<1>2. Replies \subseteq DOMAIN jam_messages
  BY DEF Replies
<1>3. IsFiniteSet(Replies)
  BY <1>1, <1>2, FS_Subset
<1> QED BY <1>1, <1>2, <1>3 DEF Replies, IsReply

\* The first pass: every reply gets its id and waits for the second.
LEMMA LinkCrcsKeeps == ASSUME ConvInv, LinkCrcs PROVE ConvInv'
<1> DEFINE S == DOMAIN jam_messages
<1>1. /\ phase = "link" /\ phase' = "reply1st"
      /\ jam_messages' = [n \in S |->
             IF n \in Replies
             THEN [jam_messages[n] EXCEPT !.reply_crc = message_ids[jam_messages[n].reply_to]]
             ELSE jam_messages[n]]
      /\ reply_next' = Ascending(Replies)
      /\ UNCHANGED <<fileVars, readVars, message_ids, queue, mails, destVars>>
  BY DEF LinkCrcs, Replies
<1>2. /\ MapsOK /\ jam_messages \in [S -> JamMsgs]
      /\ \A n \in S : jam_messages[n].reply_crc = 0 /\ jam_messages[n].reply1st = 0
  BY <1>1 DEF ConvInv, MapsOK
<1>3. ASSUME NEW n \in S
      PROVE  LET m == jam_messages[n] e == jam_messages'[n] IN
             /\ e \in JamMsgs /\ e.reply1st = 0
             /\ e.num = m.num /\ e.reply_to = m.reply_to /\ e.id = m.id /\ e.del = m.del
             /\ e.reply_crc = IF n \in Replies THEN message_ids[m.reply_to] ELSE 0
  <2>1. CASE n \in Replies
    <3>1. PICK x \in Nat : x = message_ids[jam_messages[n].reply_to]
      BY <1>2, <2>1, RepliesFinite
    <3>2. jam_messages'[n] = [jam_messages[n] EXCEPT !.reply_crc = x]
      BY <1>1, <2>1, <3>1
    <3>3. jam_messages[n] \in JamMsgs /\ jam_messages[n].reply1st = 0
      BY <1>2
    <3> DEFINE m == jam_messages[n]
               e == [m EXCEPT !.reply_crc = x]
    <3>4. m \in JamMsgs /\ m.reply1st = 0
      BY <3>3
    <3> HIDE DEF m
    <3>5. /\ e \in JamMsgs /\ e.reply_crc = x /\ e.reply1st = m.reply1st
          /\ e.num = m.num /\ e.reply_to = m.reply_to /\ e.id = m.id /\ e.del = m.del
      BY <3>4, Edited
    <3>6. jam_messages'[n] = e
      BY <3>2 DEF m
    <3> HIDE DEF e
    <3> QED BY <2>1, <3>1, <3>4, <3>5, <3>6 DEF m
  <2>2. CASE n \notin Replies
    BY <1>1, <1>2, <2>2
  <2> QED BY <2>1, <2>2
<1>4. DOMAIN jam_messages' = S /\ jam_messages' \in [S -> JamMsgs]
  BY <1>1, <1>3
<1> DEFINE s == Ascending(Replies)
           c == Cardinality(Replies)
<1>5. /\ c \in Nat /\ s \in [1 .. c -> Replies] /\ DOMAIN s = 1 .. c
      /\ \A i, j \in 1 .. c : i < j => s[i] < s[j]
      /\ \A x \in Replies : \E i \in 1 .. c : s[i] = x
  BY <1>2, RepliesFinite, AscendingIsSorted
<1> HIDE DEF s, c
<1>6. reply_next' = s /\ Replies' = Replies
  BY <1>1, <1>3, <1>4 DEF s, Replies, IsReply
<1>7. s \in Seq(Replies) /\ {s[i] : i \in DOMAIN s} = Replies
  BY <1>5, SeqDef
<1>8. LinkInv'
  <2>1. Awaited' = Replies
    BY <1>6, <1>7 DEF Awaited
  <2>2. ASSUME NEW n \in S
        PROVE  /\ jam_messages'[n].reply_crc
                    = IF n \in Replies' THEN message_ids'[jam_messages'[n].reply_to] ELSE 0
               /\ {r \in Replies' \ (Awaited' \cup {0}) : jam_messages'[r].reply_to = n} = {}
               /\ jam_messages'[n].reply1st = 0
    BY <1>1, <1>3, <1>6, <2>1
  <2> QED BY <1>1, <1>4, <1>5, <1>6, <1>7, <2>1, <2>2 DEF LinkInv
<1>9. UNCHANGED <<fileVars, readVars, message_ids, queue, mails, destVars>>
  BY <1>1
<1> QED BY <1>1, <1>3, <1>4, <1>8, <1>9, LinkFrame

\* One reply of the second pass.
LEMMA LinkReplyKeeps == ASSUME ConvInv, LinkReply PROVE ConvInv'
<1> DEFINE S == DOMAIN jam_messages
           noted(n) == {r \in Replies \ (Awaited \cup {0}) : jam_messages[r].reply_to = n}
<1>1. phase = "reply1st" /\ UNCHANGED <<fileVars, readVars, message_ids, queue, mails, destVars>>
  BY DEF LinkReply
<1>2. MapsOK /\ jam_messages \in [S -> JamMsgs] /\ S \in SUBSET Nat
  BY DEF ConvInv, MapsOK
<1>3. /\ reply_next \in Seq(Replies)
      /\ \A i, j \in DOMAIN reply_next : i < j => reply_next[i] < reply_next[j]
      /\ \A r \in Replies \ Awaited, w \in Awaited : r < w
      /\ \A n \in S :
           /\ jam_messages[n].reply_crc
                 = IF n \in Replies THEN message_ids[jam_messages[n].reply_to] ELSE 0
           /\ noted(n) = {} => jam_messages[n].reply1st = 0
           /\ noted(n) # {} => /\ jam_messages[n].reply1st \in noted(n)
                               /\ \A r \in noted(n) : jam_messages[n].reply1st <= r
  BY <1>1 DEF ConvInv, LinkInv
<1>4. CASE reply_next = << >> /\ phase' = "create" /\ UNCHANGED <<reply_next, jam_messages>>
  <2>1. LinkInv'
    BY <1>1, <1>4 DEF ConvInv, LinkInv, Replies, Awaited, IsReply
  <2> QED BY <1>1, <1>2, <1>4, <2>1, LinkFrame
<1>5. CASE /\ reply_next # << >> /\ UNCHANGED phase /\ reply_next' = Tail(reply_next)
           /\ jam_messages' = FirstReply(Head(reply_next))
  <2> DEFINE l == Len(reply_next)
             h == reply_next[1]
             t == jam_messages[h].reply_to
  <2>1. /\ l \in Nat /\ l >= 1 /\ DOMAIN reply_next = 1 .. l /\ h = Head(reply_next)
        /\ \A i \in 1 .. l : reply_next[i] \in Replies /\ reply_next[i] \in Nat
        /\ \A i, j \in 1 .. l : i < j => reply_next[i] < reply_next[j]
    <3>1. l \in Nat /\ DOMAIN reply_next = 1 .. l
      BY <1>3, LenProperties
    <3>2. l # 0
      BY <1>3, <1>5, EmptySeq
    <3>3. \A i \in 1 .. l : reply_next[i] \in Replies
      BY <1>3, <3>1, ElementOfSeq
    <3>4. \A i \in 1 .. l : reply_next[i] \in Nat
      BY <1>2, <3>3, RepliesFinite
    <3>5. l >= 1
      BY <3>1, <3>2
    <3>6. h = Head(reply_next)
      BY <1>3, <1>5, HeadTailProperties
    <3>7. \A i, j \in 1 .. l : i < j => reply_next[i] < reply_next[j]
      BY <1>3, <3>1
    <3> HIDE DEF h, l
    <3> QED BY <3>1, <3>3, <3>4, <3>5, <3>6, <3>7
  <2>2. /\ reply_next' \in Seq(Replies) /\ Len(reply_next') = l - 1 /\ DOMAIN reply_next' = 1 .. l - 1
        /\ \A i \in 1 .. l - 1 : reply_next'[i] = reply_next[i + 1]
    BY <1>3, <1>5, <2>1, HeadTailProperties, LenProperties
  <2>3. h \in Replies /\ h \in Nat /\ h \in S /\ t \in S /\ t # 0 /\ t # h
    BY <1>2, <2>1, RepliesFinite
  <2> HIDE DEF h, t, l
  <2>4. jam_messages' = IF jam_messages[t].reply1st # 0 THEN jam_messages
                        ELSE [jam_messages EXCEPT ![t].reply1st = h]
    BY <1>5, <2>1 DEF FirstReply, t
  <2>5. ASSUME NEW n \in S
        PROVE  LET m == jam_messages[n] e == jam_messages'[n] IN
               /\ e \in JamMsgs /\ e.reply_crc = m.reply_crc
               /\ e.num = m.num /\ e.reply_to = m.reply_to /\ e.id = m.id /\ e.del = m.del
               /\ e.reply1st = IF n = t /\ m.reply1st = 0 THEN h ELSE m.reply1st
    <3> DEFINE m == jam_messages[n]
               e == [m EXCEPT !.reply1st = h]
    <3>1. m \in JamMsgs
      BY <1>2
    <3>2. CASE n = t /\ m.reply1st = 0
      <4>1. jam_messages'[n] = e
        BY <1>2, <2>4, <3>2
      <4> HIDE DEF m
      <4>2. /\ e \in JamMsgs /\ e.reply_crc = m.reply_crc /\ e.reply1st = h
            /\ e.num = m.num /\ e.reply_to = m.reply_to /\ e.id = m.id /\ e.del = m.del
        BY <2>3, <3>1, Edited
      <4> HIDE DEF e
      <4> QED BY <3>2, <4>1, <4>2 DEF m
    <3>3. CASE ~ (n = t /\ m.reply1st = 0)
      <4>1. jam_messages'[n] = m
        BY <1>2, <2>4, <3>3
      <4> QED BY <3>1, <3>3, <4>1
    <3> QED BY <3>2, <3>3
  <2>6. DOMAIN jam_messages' = S /\ jam_messages' \in [S -> JamMsgs]
    <3>1. DOMAIN jam_messages' = S /\ jam_messages' = [n \in S |-> jam_messages'[n]]
      BY <1>2, <2>4
    <3> QED BY <2>5, <3>1
  <2>7. Replies' = Replies
    BY <1>1, <2>5, <2>6 DEF Replies, IsReply
  <2>8. Awaited' = Awaited \ {h} /\ h \in Awaited /\ \A w \in Awaited \ {h} : h < w
    <3>1. Awaited = {reply_next[i] : i \in 1 .. l} /\ Awaited' = {reply_next[i + 1] : i \in 1 .. l - 1}
      BY <2>1, <2>2 DEF Awaited
    <3>2. \A i \in 1 .. l : i = 1 \/ (i > 1 /\ i - 1 \in 1 .. l - 1 /\ (i - 1) + 1 = i)
      BY <2>1
    <3>3. \A i \in 1 .. l - 1 : i + 1 \in 1 .. l /\ 1 < i + 1
      BY <2>1
    <3>4. \A i \in 1 .. l : i > 1 => h < reply_next[i] /\ h # reply_next[i]
      <4>1. 1 \in 1 .. l
        BY <2>1
      <4> QED BY <2>1, <2>3, <4>1 DEF h
    <3>5. h \in Awaited
      BY <2>1, <3>1 DEF h
    <3>6. ASSUME NEW w \in Awaited, w # h PROVE h < w /\ w \in Awaited'
      <4>1. PICK i \in 1 .. l : w = reply_next[i]
        BY <3>1
      <4>2. i > 1
        BY <3>2, <3>6, <4>1 DEF h
      <4>3. i - 1 \in 1 .. l - 1 /\ (i - 1) + 1 = i
        BY <3>2, <4>2
      <4>4. reply_next[(i - 1) + 1] = w
        BY <4>1, <4>3
      <4> QED BY <3>1, <3>4, <4>1, <4>2, <4>3, <4>4
    <3>7. ASSUME NEW w \in Awaited' PROVE w \in Awaited /\ w # h
      <4>1. PICK i \in 1 .. l - 1 : w = reply_next[i + 1]
        BY <3>1
      <4> QED BY <3>1, <3>3, <3>4, <4>1
    <3> QED BY <3>5, <3>6, <3>7
  <2>9. \A r \in Replies \ Awaited', w \in Awaited' : r < w
    BY <1>3, <2>8
  <2>10. ASSUME NEW n \in S
         PROVE  LET now == {r \in Replies' \ (Awaited' \cup {0}) : jam_messages'[r].reply_to = n} IN
                IF now = {} THEN jam_messages'[n].reply1st = 0
                ELSE /\ jam_messages'[n].reply1st \in now
                     /\ \A r \in now : jam_messages'[n].reply1st <= r
    <3> DEFINE now == {r \in Replies' \ (Awaited' \cup {0}) : jam_messages'[r].reply_to = n}
               f == jam_messages[n].reply1st
               g == jam_messages'[n].reply1st
    <3>1. now = {r \in Replies \ ((Awaited \ {h}) \cup {0}) : jam_messages[r].reply_to = n}
      <4>1. Replies \subseteq S
        BY <1>2, RepliesFinite
      <4> QED BY <2>5, <2>7, <2>8, <4>1
    <3>2. now = noted(n) \cup (IF n = t /\ h # 0 THEN {h} ELSE {})
      BY <2>3, <2>8, <3>1 DEF t
    <3>3. /\ noted(n) = {} => f = 0
          /\ noted(n) # {} => f \in noted(n) /\ f # 0 /\ \A r \in noted(n) : f <= r
          /\ noted(n) \subseteq Replies \ Awaited
      BY <1>3
    <3>4. g = IF n = t /\ f = 0 THEN h ELSE f
      BY <2>5
    <3>5. \A r \in Replies \ Awaited : r < h
      BY <1>3, <2>8
    <3>6. Replies \subseteq Nat
      BY <1>2, RepliesFinite
    <3> HIDE DEF noted, now, f, g
    <3>7. CASE noted(n) = {}
      BY <2>3, <3>2, <3>3, <3>4, <3>7 DEF now, g
    <3>8. CASE noted(n) # {}
      <4>1. f \in Nat /\ f < h /\ g = f
        BY <3>3, <3>4, <3>5, <3>6, <3>8
      <4>2. now # {} /\ f \in now /\ \A r \in now : f <= r
        BY <2>3, <3>2, <3>3, <3>8, <4>1
      <4> QED BY <4>1, <4>2 DEF now, g
    <3> QED BY <3>7, <3>8
  <2>11. \A i, j \in DOMAIN reply_next' : i < j => reply_next'[i] < reply_next'[j]
    BY <2>1, <2>2
  <2>12. ASSUME NEW n \in S
         PROVE  jam_messages'[n].reply_crc
                  = IF n \in Replies' THEN message_ids'[jam_messages'[n].reply_to] ELSE 0
    BY <1>1, <1>3, <2>5, <2>7
  <2>13. LinkInv'
    <3>1. phase' = "reply1st" /\ reply_next' \in Seq(Replies')
      BY <1>1, <1>5, <2>2, <2>7
    <3>2. (\A r \in Replies \ Awaited, w \in Awaited : r < w)'
      BY <2>7, <2>9
    <3> QED BY <2>6, <2>10, <2>11, <2>12, <3>1, <3>2 DEF LinkInv
  <2>14. phase' = "reply1st"
    BY <1>1, <1>5
  <2> QED BY <1>1, <2>5, <2>6, <2>13, <2>14, LinkFrame
<1> QED BY <1>4, <1>5 DEF LinkReply
-----------------------------------------------------------------------------
\* What is read and how it is walked do not change while the base is written.
LEMMA IterSame ==
  ASSUME ConvInv, UNCHANGED <<fileVars, readVars>>
  PROVE  /\ IterTypeOK' /\ LaidOut' /\ WalkInv' /\ (InStep' <=> InStep)
         /\ UNCHANGED <<mode, items>>
<1>1. UNCHANGED <<file, growing, heads, broken, mode, size, pos, items, owed>>
  BY DEF fileVars, readVars
<1>2. IterTypeOK' /\ LaidOut'
  BY <1>1 DEF ConvInv, IterTypeOK, LaidOut, Laid, End
<1>3. (InStep' <=> InStep) /\ WalkInv'
  BY <1>1 DEF ConvInv, WalkInv, InStep, WholeCount, End, ReaderStands, Walked, EndsInErr
<1> QED BY <1>1, <1>2, <1>3

\* The new base is empty and all messages are to be written.
LEMMA CreateKeeps == ASSUME ConvInv, Create, phase' = "write" PROVE ConvInv'
<1> DEFINE S == DOMAIN jam_messages
           s == Ascending(S)
           c == Cardinality(S)
<1>1. /\ phase = "create" /\ phase' = "write" /\ dest' = << >>
      /\ queue' = [i \in DOMAIN s |-> jam_messages[s[i]]]
      /\ UNCHANGED <<fileVars, readVars, jam_messages, message_ids, reply_next, mails, call, ret>>
  BY DEF Create, maps
<1>2. IterTypeOK' /\ LaidOut' /\ WalkInv' /\ (InStep' <=> InStep) /\ UNCHANGED <<mode, items>>
  BY <1>1, IterSame
<1>3. /\ mode = "done" /\ ret[Me].op = "none" /\ Writing' /\ call[Me] = Dest!NoCall
      /\ \A i \in DOMAIN items : items[i] # Err
  BY <1>1 DEF ConvInv, Phases, SourceFirst, CallOK, Before, Writing
<1>4. Phases' /\ SourceFirst' /\ CallOK'
  <2>1. Phases'
    BY <1>1, <1>2, <1>3 DEF Phases
  <2>2. SourceFirst'
    BY <1>1, <1>2, <1>3 DEF SourceFirst, Before
  <2>3. CallOK'
    BY <1>1, <1>3 DEF ConvInv, CallOK
  <2> QED BY <2>1, <2>2, <2>3
<1>5. MapsOK /\ MapsOK'
  BY <1>1 DEF ConvInv, MapsOK
<1>6. LastKept'
  BY <1>1, <1>2 DEF ConvInv, LastKept, Before
<1>7. LinkInv'
  BY <1>1 DEF ConvInv, LinkInv, Replies, Awaited, IsReply
<1>8. WriteInv'
  <2>1. /\ c \in Nat /\ s \in [1 .. c -> S] /\ DOMAIN s = 1 .. c /\ jam_messages \in [S -> JamMsgs]
    BY <1>5, AscendingIsSorted DEF MapsOK
  <2>2. s = Ascending(DOMAIN jam_messages)' /\ c = Cardinality(DOMAIN jam_messages)'
    BY <1>1
  <2> HIDE DEF s, c
  <2>3. queue' \in [1 .. c -> JamMsgs] /\ \A i \in 1 .. c : queue'[i] = jam_messages[s[i]]
    BY <1>1, <2>1
  <2>4. queue' \in Seq(JamMsgs) /\ Len(queue') = c /\ DOMAIN queue' = 1 .. c
    BY <2>1, <2>3, SeqDef, LenProperties
  <2>5. dest' \in Seq(Dest!Entries) /\ Len(dest') = 0 /\ DOMAIN dest' = {}
    BY <1>1
  <2>6. mails' \in Seq(SourceMsgs) /\ phase' # "done"
    BY <1>1 DEF ConvInv, WriteInv
  <2>7. Len(dest') + Len(queue') = c
    BY <2>1, <2>4, <2>5
  <2>8. ASSUME NEW i \in 1 .. c, NEW k, k = Len(dest') + i
        PROVE  Queued(k, queue[i])'
    <3>1. k = i
      BY <2>1, <2>5, <2>8
    <3> QED BY <1>1, <1>2, <1>3, <2>2, <2>3, <3>1 DEF Queued
  <2>9. \A i \in 1 .. c : Queued(Len(dest) + i, queue[i])'
    BY <2>8
  <2> QED BY <1>2, <1>3, <2>2, <2>4, <2>5, <2>6, <2>7, <2>9 DEF WriteInv
<1> QED BY <1>2, <1>4, <1>5, <1>6, <1>7, <1>8 DEF ConvInv

\* A create that fails ends the conversion when all has been read.
LEMMA FailedCreateKeeps == ASSUME ConvInv, Create, phase' # "write" PROVE ConvInv'
<1>1. /\ phase = "create" /\ phase' = "failed" /\ dest' \in {dest, << >>} /\ UNCHANGED queue
      /\ UNCHANGED <<fileVars, readVars, jam_messages, message_ids, reply_next, mails, call, ret>>
  BY DEF Create, maps
<1>2. IterTypeOK' /\ LaidOut' /\ WalkInv' /\ (InStep' <=> InStep) /\ UNCHANGED <<mode, items>>
  BY <1>1, IterSame
<1>3. /\ mode = "done" /\ ret[Me].op = "none" /\ ~Writing' /\ call[Me] = Dest!NoCall
      /\ \A i \in DOMAIN items : items[i] # Err
  BY <1>1 DEF ConvInv, Phases, SourceFirst, CallOK, Before, Writing
<1>4. Phases' /\ SourceFirst' /\ CallOK'
  BY <1>1, <1>2, <1>3 DEF ConvInv, Phases, SourceFirst, CallOK, Before
<1>5. MapsOK' /\ LastKept' /\ LinkInv'
  BY <1>1, <1>3 DEF ConvInv, MapsOK, LastKept, LinkInv, Before
<1>6. WriteInv'
  <2>1. dest' \in Seq(Dest!Entries)
    <3>1. dest \in Seq(Dest!Entries) /\ << >> \in Seq(Dest!Entries)
      BY DEF ConvInv, WriteInv
    <3> QED BY <1>1, <3>1
  <2> QED BY <1>1, <1>3, <2>1 DEF ConvInv, WriteInv
<1> QED BY <1>2, <1>4, <1>5, <1>6 DEF ConvInv

\* The mails are to be written behind what is in the base.
LEMMA StartQwkKeeps == ASSUME ConvInv, StartQwk PROVE ConvInv'
<1>1. /\ phase = "none" /\ phase' = "write" /\ mails' \in Mails
      /\ queue' = [i \in DOMAIN mails' |-> JamMsg([mails'[i] EXCEPT !.reply_to = 0], i)]
      /\ UNCHANGED <<fileVars, readVars, jam_messages, message_ids, reply_next, dest, call, ret>>
  BY DEF StartQwk, maps, destVars
<1>2. IterTypeOK' /\ LaidOut' /\ WalkInv' /\ (InStep' <=> InStep) /\ UNCHANGED <<mode, items>>
  BY <1>1, IterSame
<1>3. /\ mode = "none" /\ ret[Me].op = "none" /\ Writing' /\ call[Me] = Dest!NoCall
      /\ dest = OldLog /\ items = << >>
  BY <1>1 DEF ConvInv, Phases, SourceFirst, CallOK, Before, Writing, IterTypeOK
<1>4. Phases' /\ SourceFirst' /\ CallOK'
  <2>1. Phases'
    BY <1>1, <1>2, <1>3 DEF Phases
  <2>2. SourceFirst'
    BY <1>1, <1>2, <1>3 DEF SourceFirst, Before
  <2>3. CallOK'
    BY <1>1, <1>3 DEF ConvInv, CallOK
  <2> QED BY <2>1, <2>2, <2>3
<1>5. MapsOK'
  BY <1>1 DEF ConvInv, MapsOK
<1>6. LastKept' /\ LinkInv'
  BY <1>1, <1>2, <1>3 DEF LastKept, LinkInv, Before
<1>7. WriteInv'
  <2> DEFINE n == Len(mails')
  <2>1. mails' \in Seq(SourceMsgs) /\ n \in Nat /\ DOMAIN mails' = 1 .. n
    BY <1>1, SourceAssumption, LenProperties
  <2>2. ASSUME NEW i \in 1 .. n
        PROVE  /\ queue'[i] \in JamMsgs /\ queue'[i].id = i
               /\ queue'[i].num = mails'[i].num /\ queue'[i].del = mails'[i].del
    <3> DEFINE m == mails'[i]
               e == [m EXCEPT !.reply_to = 0]
    <3>1. m \in SourceMsgs /\ i \in Nat
      BY <2>1, ElementOfSeq
    <3>2. m.num \in Nat /\ m.reply_to \in Nat /\ m.del \in BOOLEAN
      BY <3>1, SourceAssumption
    <3>3. queue'[i] = JamMsg(e, i)
      BY <1>1, <2>1
    <3> HIDE DEF m
    <3>4. e.num = m.num /\ e.del = m.del /\ e.reply_to \in Nat
      BY <3>2
    <3> HIDE DEF e
    <3>5. e.num \in Nat /\ e.del \in BOOLEAN
      BY <3>2, <3>4
    <3>6. JamMsg(e, i) \in JamMsgs /\ JamMsg(e, i).num = e.num /\ JamMsg(e, i).id = i
          /\ JamMsg(e, i).del = e.del
      BY <3>1, <3>4, <3>5, JamMsgType
    <3> QED BY <3>3, <3>4, <3>6 DEF m
  <2>3. queue' \in Seq(JamMsgs) /\ Len(queue') = n /\ DOMAIN queue' = 1 .. n
    <3>1. queue' \in [1 .. n -> JamMsgs]
      BY <1>1, <2>1, <2>2
    <3> QED BY <2>1, <3>1, SeqDef, LenProperties
  <2>4. dest' \in Seq(Dest!Entries) /\ Len(dest') = 1 /\ DOMAIN dest' = {1} /\ dest' = OldLog
    BY <1>1, <1>3, OldLogType
  <2>5. /\ Meant'[1] = <<OldLog[1].msg.num, 0, OldLog[1].deleted>>
        /\ \A i \in 1 .. n : Meant'[1 + i] = <<mails'[i].num, i, mails'[i].del>>
    <3>1. Meant' = [i \in 1 .. 1 + n |->
                      IF i = 1 THEN <<OldLog[1].msg.num, 0, OldLog[1].deleted>>
                      ELSE <<mails'[i - 1].num, i - 1, mails'[i - 1].del>>]
      BY <1>2, <1>3 DEF Meant, OldLog
    <3>2. 1 \in 1 .. 1 + n
      BY <2>1
    <3>3. \A i \in 1 .. n : 1 + i \in 1 .. 1 + n /\ 1 + i # 1 /\ (1 + i) - 1 = i
      BY <2>1
    <3> QED BY <3>1, <3>2, <3>3
  <2>6. Queued(1, dest[1].msg)' /\ dest'[1].deleted = dest'[1].msg.del
    BY <1>2, <1>3, <2>4, <2>5, OldLogType DEF Queued
  <2>7. ASSUME NEW i \in 1 .. n, NEW k, k = Len(dest') + i
        PROVE  Queued(k, queue[i])'
    BY <1>2, <1>3, <2>2, <2>4, <2>5, <2>7 DEF Queued
  <2>8. \A i \in 1 .. n : Queued(Len(dest) + i, queue[i])'
    BY <2>7
  <2>9. Len(dest') + Len(queue') = 1 + Len(mails')
    BY <2>3, <2>4
  <2>10. mode' = "none" /\ phase' # "done"
    BY <1>1, <1>2, <1>3
  <2> QED BY <1>3, <2>1, <2>3, <2>4, <2>6, <2>8, <2>9, <2>10 DEF WriteInv
<1> QED BY <1>2, <1>4, <1>5, <1>6, <1>7 DEF ConvInv

\* What is read and linked stays while the base is written.
LEMMA WritingSame ==
  ASSUME ConvInv, phase = "write", phase' \in {"write", "done", "failed"},
         UNCHANGED <<fileVars, readVars, maps, mails>>
  PROVE  /\ IterTypeOK' /\ LaidOut' /\ WalkInv' /\ UNCHANGED <<mode, jam_messages, mails>>
         /\ Phases' /\ SourceFirst' /\ MapsOK' /\ LastKept' /\ LinkInv'
         /\ Meant' = Meant
<1>1. UNCHANGED <<jam_messages, message_ids, reply_next, mails>>
  BY DEF maps
<1>2. IterTypeOK' /\ LaidOut' /\ WalkInv' /\ (InStep' <=> InStep) /\ UNCHANGED <<mode, items>>
  BY IterSame
<1>3. Writing /\ mode \in {"none", "done"} /\ \A i \in DOMAIN items : items[i] # Err
  BY DEF ConvInv, Phases, SourceFirst, Writing
<1>4. phase' \notin Before /\ phase' \notin {"none", "read", "link", "reply1st", "create"}
  BY DEF Before
<1>5. Phases' /\ SourceFirst'
  BY <1>2, <1>3, <1>4 DEF Phases, SourceFirst
<1>6. MapsOK'
  BY <1>1, <1>4 DEF ConvInv, MapsOK
<1>7. LastKept'
  BY <1>1, <1>2, <1>3, <1>4 DEF ConvInv, LastKept
<1>8. LinkInv'
  BY <1>1, <1>2, <1>3, <1>4 DEF ConvInv, LinkInv, Replies, Awaited, IsReply
<1>9. Meant' = Meant
  BY <1>1, <1>2 DEF Meant, LastOf, OldLog
<1> QED BY <1>1, <1>2, <1>5, <1>6, <1>7, <1>8, <1>9

\* A message is handed to the base, arrives there, or its write fails.
LEMMA WriteKeeps == ASSUME ConvInv, Write PROVE ConvInv'
<1>1. /\ phase = "write" /\ phase' \in {"write", "failed"}
      /\ UNCHANGED <<fileVars, readVars, maps, mails>>
  BY DEF Write
<1>2. /\ IterTypeOK' /\ LaidOut' /\ WalkInv' /\ UNCHANGED <<mode, jam_messages, mails>>
      /\ Phases' /\ SourceFirst' /\ MapsOK' /\ LastKept' /\ LinkInv'
      /\ Meant' = Meant
  BY <1>1, WritingSame
<1>3. /\ CallOK /\ dest \in Seq(Dest!Entries) /\ queue \in Seq(JamMsgs) /\ mails \in Seq(SourceMsgs)
      /\ Len(dest) + Len(queue) = (IF mode = "none" THEN 1 + Len(mails)
                                   ELSE Cardinality(DOMAIN jam_messages))
      /\ \A i \in DOMAIN dest : Queued(i, dest[i].msg) /\ dest[i].deleted = dest[i].msg.del
      /\ \A i \in DOMAIN queue : Queued(Len(dest) + i, queue[i])
  BY <1>1 DEF ConvInv, WriteInv, Writing
<1>4. \A i, m : Queued(i, m) <=> IF mode' = "none" THEN <<m.num, m.id, m.del>> = Meant'[i]
                                 ELSE m = jam_messages'[Ascending(DOMAIN jam_messages')[i]]
  BY <1>2 DEF Queued
<1>5. ASSUME UNCHANGED <<queue, dest>> PROVE WriteInv'
  <2>1. \A i \in DOMAIN dest' : Queued(i, dest[i].msg)'
    BY <1>3, <1>4, <1>5 DEF Queued
  <2>2. \A i \in DOMAIN queue' : Queued(Len(dest) + i, queue[i])'
    BY <1>3, <1>4, <1>5 DEF Queued
  <2> QED BY <1>1, <1>2, <1>3, <1>5, <2>1, <2>2 DEF WriteInv
<1>6. CASE /\ queue # << >> /\ call' = [h \in {Me} |-> [op |-> "write", msg |-> Head(queue)]]
           /\ UNCHANGED <<phase, queue, dest, ret>>
  <2>1. Head(queue) \in JamMsgs
    BY <1>3, <1>6, HeadTailProperties
  <2>2. call'[Me] \in Dest!WriteCalls /\ call'[Me].msg = Head(queue)
    BY <1>6, <2>1 DEF Dest!WriteCalls
  <2>3. CallOK'
    BY <1>1, <1>3, <1>6, <2>2 DEF CallOK
  <2> QED BY <1>2, <1>5, <1>6, <2>3 DEF ConvInv
<1>7. CASE Dest!Written(Me) /\ queue' = Tail(queue) /\ UNCHANGED phase
  <2> DEFINE m == Head(queue)
             e == [msg |-> m, deleted |-> m.del]
             d == Len(dest)
             q == Len(queue)
  <2>1. call[Me] \in Dest!WriteCalls /\ call[Me] # Dest!NoCall
    BY <1>7 DEF Dest!Written, Dest!WriteCalls, Dest!NoCall
  <2>2. queue # << >> /\ call[Me].msg = m
    BY <1>3, <2>1 DEF CallOK
  <2>3. /\ dest' = Append(dest, e)
        /\ call' = [call EXCEPT ![Me] = Dest!NoCall]
        /\ ret' = [ret EXCEPT ![Me] = Dest!Answer("write", 0, "ok")]
    BY <1>7, <2>2 DEF Dest!Written, Dest!Return
  <2>4. /\ queue' \in Seq(JamMsgs) /\ m \in JamMsgs /\ m = queue[1] /\ q \in Nat /\ q >= 1
        /\ DOMAIN queue = 1 .. q /\ Len(queue') = q - 1 /\ DOMAIN queue' = 1 .. q - 1
        /\ \A i \in 1 .. q - 1 : queue'[i] = queue[i + 1]
    <3>1. queue' \in Seq(JamMsgs) /\ m \in JamMsgs /\ m = queue[1] /\ Len(queue') = q - 1
          /\ \A i \in 1 .. q - 1 : queue'[i] = queue[i + 1]
      BY <1>3, <1>7, <2>2, HeadTailProperties
    <3>2. q \in Nat /\ q # 0 /\ DOMAIN queue = 1 .. q
      BY <1>3, <2>2, LenProperties, EmptySeq
    <3>3. DOMAIN queue' = 1 .. q - 1
      BY <3>1, LenProperties
    <3> HIDE DEF m, q
    <3>4. q >= 1
      BY <3>2
    <3> QED BY <3>1, <3>2, <3>3, <3>4
  <2>5. e \in Dest!Entries /\ e.msg = m /\ e.deleted = m.del
    BY <2>4 DEF Dest!Entries, JamMsgs
  <2> HIDE DEF m, e, q
  <2>6. /\ dest' \in Seq(Dest!Entries) /\ d \in Nat /\ DOMAIN dest = 1 .. d
        /\ Len(dest') = d + 1 /\ DOMAIN dest' = 1 .. d + 1 /\ dest'[d + 1] = e
        /\ \A i \in 1 .. d : dest'[i] = dest[i]
    <3>1. /\ dest' \in Seq(Dest!Entries) /\ Len(dest') = d + 1 /\ dest'[d + 1] = e
          /\ \A i \in 1 .. d : dest'[i] = dest[i]
      BY <1>3, <2>3, <2>5, AppendProperties
    <3> QED BY <1>3, <3>1, LenProperties
  <2>7. CallOK'
    <3>1. call'[Me] = Dest!NoCall /\ call' \in [{Me} -> {Dest!NoCall} \cup Dest!WriteCalls]
      BY <1>3, <2>3 DEF CallOK
    <3>2. Dest!Answer("write", 0, "ok") \in Dest!Answers
      BY DEF Dest!Answer, Dest!Answers
    <3>3. ret' \in [{Me} -> Dest!Answers]
      BY <1>3, <2>3, <3>2 DEF CallOK
    <3> QED BY <3>1, <3>3 DEF CallOK
  <2>8. WriteInv'
    <3>1. Len(dest') + Len(queue') = Len(dest) + Len(queue)
      BY <2>4, <2>6 DEF q
    <3> HIDE DEF d
    <3>2. ASSUME NEW i \in 1 .. d + 1
          PROVE  Queued(i, dest[i].msg)' /\ dest'[i].deleted = dest'[i].msg.del
      <4>1. CASE i \in 1 .. d
        <5>1. Queued(i, dest[i].msg) /\ dest[i].deleted = dest[i].msg.del /\ dest'[i] = dest[i]
          BY <1>3, <2>6, <4>1
        <5> QED BY <1>4, <5>1 DEF Queued
      <4>2. CASE i = d + 1
        <5>1. 1 \in DOMAIN queue
          BY <2>4
        <5>2. Queued(d + 1, m)
          BY <1>3, <2>4, <5>1 DEF d
        <5> QED BY <1>4, <2>5, <2>6, <4>2, <5>2 DEF Queued
      <4> QED BY <2>6, <4>1, <4>2
    <3>3. ASSUME NEW i \in 1 .. q - 1, NEW k, k = Len(dest') + i
          PROVE  Queued(k, queue[i])'
      <4>1. i + 1 \in DOMAIN queue /\ k = d + (i + 1)
        <5>1. q \in Nat /\ d \in Nat /\ DOMAIN queue = 1 .. q /\ k = (d + 1) + i
          BY <2>4, <2>6, <3>3
        <5>2. i + 1 \in 1 .. q /\ (d + 1) + i = d + (i + 1)
          BY <5>1
        <5> QED BY <5>1, <5>2
      <4>2. Queued(k, queue'[i])
        BY <1>3, <2>4, <4>1 DEF d
      <4> QED BY <1>4, <4>2 DEF Queued
    <3>4. \A i \in 1 .. q - 1 : Queued(Len(dest) + i, queue[i])'
      BY <3>3
    <3> QED BY <1>1, <1>2, <1>3, <1>7, <2>4, <2>6, <3>1, <3>2, <3>4 DEF WriteInv
  <2> QED BY <1>2, <2>7, <2>8 DEF ConvInv
<1>8. CASE /\ call[Me] # Dest!NoCall /\ Dest!Failed(Me) /\ ret'[Me].op = "write"
           /\ phase' = "failed" /\ UNCHANGED queue
  <2>1. call[Me] \in Dest!WriteCalls
    BY <1>3, <1>8 DEF CallOK
  <2>2. UNCHANGED dest
    BY <1>8, <2>1 DEF Dest!Failed, Dest!Interrupted, Dest!WriteCalls, Dest!FlagCalls, Dest!FlagOps
  <2>3. PICK op \in {"write"} \cup Dest!FlagOps :
          /\ call' = [call EXCEPT ![Me] = Dest!NoCall]
          /\ ret' = [ret EXCEPT ![Me] = Dest!Answer(op, 0, "err")]
    BY <1>8 DEF Dest!Failed, Dest!Return
  <2>4. CallOK'
    <3>1. call'[Me] = Dest!NoCall /\ call' \in [{Me} -> {Dest!NoCall} \cup Dest!WriteCalls]
      BY <1>3, <2>3 DEF CallOK
    <3>2. Dest!Answer(op, 0, "err") \in Dest!Answers
      BY DEF Dest!Answer, Dest!Answers
    <3>3. ret' \in [{Me} -> Dest!Answers]
      BY <1>3, <2>3, <3>2 DEF CallOK
    <3> QED BY <3>1, <3>3 DEF CallOK
  <2> QED BY <1>2, <1>5, <1>8, <2>2, <2>4 DEF ConvInv
<1> QED BY <1>6, <1>7, <1>8 DEF Write

\* The header is written last.
LEMMA FlushKeeps == ASSUME ConvInv, Flush PROVE ConvInv'
<1>1. /\ phase = "write" /\ phase' \in {"done", "failed"} /\ queue = << >>
      /\ UNCHANGED <<fileVars, readVars, maps, mails, queue, dest, call, ret>>
  BY DEF Flush, destVars
<1>2. /\ IterTypeOK' /\ LaidOut' /\ WalkInv' /\ UNCHANGED <<mode, jam_messages, mails>>
      /\ Phases' /\ SourceFirst' /\ MapsOK' /\ LastKept' /\ LinkInv'
      /\ Meant' = Meant
  BY <1>1, WritingSame
<1>3. CallOK'
  BY <1>1 DEF ConvInv, CallOK
<1>4. WriteInv'
  BY <1>1, <1>2 DEF ConvInv, WriteInv, Writing, Queued
<1> QED BY <1>2, <1>3, <1>4 DEF ConvInv

\* Every step keeps the invariant.
LEMMA InvNext == ConvInv /\ [Next]_vars => ConvInv'
<1> SUFFICES ASSUME ConvInv, [Next]_vars PROVE ConvInv'
  OBVIOUS
<1>1. CASE UNCHANGED vars
  <2>1. UNCHANGED <<fileVars, readVars>>
        /\ UNCHANGED <<phase, maps, queue, mails, destVars>>
    BY <1>1 DEF vars
  <2>2. IterTypeOK' /\ LaidOut' /\ WalkInv' /\ (InStep' <=> InStep) /\ UNCHANGED <<mode, items>>
    BY <2>1, IterSame
  <2>3. ConvRest'
    BY <2>1, <2>2, ConvInvParts, RestSame
  <2> QED BY <2>2, <2>3 DEF ConvInv, ConvRest
<1>2. CASE StartRead \/ StartWalk
  BY <1>2, StartKeeps
<1>3. CASE Walk
  BY <1>3, WalkKeeps
<1>4. CASE ReadOne
  BY <1>4, ReadOneKeeps
<1>5. CASE LinkCrcs
  BY <1>5, LinkCrcsKeeps
<1>6. CASE LinkReply
  BY <1>6, LinkReplyKeeps
<1>7. CASE Create
  BY <1>7, CreateKeeps, FailedCreateKeeps
<1>8. CASE StartQwk
  BY <1>8, StartQwkKeeps
<1>9. CASE Write
  BY <1>9, WriteKeeps
<1>10. CASE Flush
  BY <1>10, FlushKeeps
<1>11. CASE Others
  BY <1>11, OthersKeep
<1> QED BY <1>1, <1>2, <1>3, <1>4, <1>5, <1>6, <1>7, <1>8, <1>9, <1>10, <1>11 DEF Next

\* What a walk, the maps of a conversion and the base it fills are at every
\* moment, for every source, every growth of it and every slice of mails.
THEOREM ConvInvariant == Spec => []ConvInv
<1>1. Init => ConvInv
  BY InvInit
<1>2. ConvInv /\ [Next]_vars => ConvInv'
  BY InvNext
<1> QED BY <1>1, <1>2, PTL DEF Spec

\* Of a walk that is in step every item stands for a message of the file, in
\* order.
THEOREM WalksInOrder == Spec => []WalkInOrder
<1>1. ConvInv => WalkInOrder
  BY WalkIsRight DEF ConvInv
<1> QED BY <1>1, ConvInvariant, PTL

\* A walk with iter ends behind all that was whole when it began, the messages
\* that cannot be read among it; a loop "while let Ok" that ends before that
\* ends at a message that cannot be read.
THEOREM WalksComplete == Spec => WalkComplete
<1> DEFINE A == InStep /\ mode \in {"iter", "scan"} /\ mode' = "done" =>
                  \/ Len(items) >= owed
                  \/ mode = "scan" /\ items # << >> /\ ~Readable(heads[Len(items)].msg)
<1>1. ConvInv /\ [Next]_vars => [A]_<<fileVars, readVars>>
  <2> SUFFICES ASSUME ConvInv, [Next]_vars, InStep, mode \in {"iter", "scan"}, mode' = "done"
               PROVE  A
    OBVIOUS
  <2>1. CASE Step
    BY <2>1, WalkEndsRight DEF ConvInv
  <2>2. CASE mode' = mode
    BY <2>2
  <2>3. CASE mode = "none"
    BY <2>3
  <2>4. Next \/ UNCHANGED vars
    OBVIOUS
  <2>5. Step \/ mode' = mode \/ mode = "none"
    BY <2>4 DEF Next, vars, StartRead, StartWalk, Walk, ReadOne, LinkCrcs, LinkReply, Create,
                StartQwk, Write, Flush, Others, Begin, Grow, readVars
  <2> QED BY <2>1, <2>2, <2>3, <2>5
<1> QED BY <1>1, ConvInvariant, PTL DEF Spec, WalkComplete

\* The JAM base is not touched before the source has been read to its end.
THEOREM SourcesReadFirst == Spec => []SourceReadFirst
<1>1. ConvInv => SourceReadFirst
  <2> SUFFICES ASSUME ConvInv, phase = "failed", Err \in {items[i] : i \in DOMAIN items}
               PROVE  dest = OldLog
    BY DEF SourceReadFirst
  <2> QED BY DEF ConvInv, SourceFirst
<1> QED BY <1>1, ConvInvariant, PTL
-----------------------------------------------------------------------------
\* The length of a function over the first numbers.
LEMMA LenOfFunction ==
  ASSUME NEW n \in Nat, NEW f, f = [i \in 1 .. n |-> f[i]]
  PROVE  Len(f) = n
<1> DEFINE S == {f[i] : i \in 1 .. n}
<1>1. f \in [1 .. n -> S]
  OBVIOUS
<1> HIDE DEF S
<1>2. f \in Seq(S) /\ DOMAIN f = 1 .. n
  BY <1>1, SeqDef
<1> QED BY <1>2, LenProperties

\* The index that a message has in the map is that of the last of its number.
LEMMA LastIsTheLast ==
  ASSUME NEW n, NEW k \in DOMAIN items, items \in Seq(Items), items[k].msg.num = n,
         \A j \in DOMAIN items : items[j].msg.num = n => j <= k
  PROVE  LastOf(n) = k
<1> DEFINE P(x) == /\ items[x].msg.num = n
                   /\ \A j \in DOMAIN items : items[j].msg.num = n => j =< x
<1>1. DOMAIN items \subseteq Nat
  BY LenProperties
<1>2. P(k)
  OBVIOUS
<1>3. LastOf(n) = CHOOSE x \in DOMAIN items : P(x)
  BY DEF LastOf
<1>4. ASSUME NEW x \in DOMAIN items, P(x) PROVE x = k
  BY <1>1, <1>2, <1>4
<1> HIDE DEF P
<1> QED BY <1>2, <1>3, <1>4

\* What has arrived is the beginning of what was meant.
LEMMA ArriveThen == ConvInv => ArriveInOrder
<1> SUFFICES ASSUME ConvInv, InStep, Writing
             PROVE  /\ Len(Arrived) <= Len(Meant)
                    /\ \A i \in DOMAIN Arrived : Arrived[i] = Meant[i]
                    /\ phase = "done" => Len(Arrived) = Len(Meant)
  BY DEF ArriveInOrder, Writing
<1> DEFINE d == Len(dest)
           q == Len(queue)
<1>1. /\ d \in Nat /\ q \in Nat /\ DOMAIN dest = 1 .. d
      /\ phase = "done" => q = 0
      /\ d + q = IF mode = "none" THEN 1 + Len(mails) ELSE Cardinality(DOMAIN jam_messages)
      /\ \A i \in 1 .. d : Queued(i, dest[i].msg) /\ dest[i].deleted = dest[i].msg.del
      /\ Len(mails) \in Nat /\ items \in Seq(Items)
  <2>1. dest \in Seq(Dest!Entries) /\ queue \in Seq(JamMsgs) /\ mails \in Seq(SourceMsgs)
        /\ items \in Seq(Items)
    BY DEF ConvInv, WriteInv, IterTypeOK
  <2>2. phase = "done" => q = 0
    BY DEF ConvInv, WriteInv
  <2>3. d \in Nat /\ q \in Nat /\ DOMAIN dest = 1 .. d /\ Len(mails) \in Nat
    BY <2>1, LenProperties
  <2> QED BY <2>1, <2>2, <2>3 DEF ConvInv, WriteInv
<1> HIDE DEF d, q
<1>2. /\ DOMAIN Arrived = 1 .. d /\ Len(Arrived) = d
      /\ \A i \in 1 .. d : Arrived[i] = <<dest[i].msg.num, dest[i].msg.id, dest[i].msg.del>>
  <2>1. /\ Arrived = [i \in 1 .. d |-> Arrived[i]]
        /\ \A i \in 1 .. d : Arrived[i] = <<dest[i].msg.num, dest[i].msg.id, dest[i].msg.del>>
    BY <1>1 DEF Arrived
  <2>2. DOMAIN Arrived = 1 .. d
    BY <2>1
  <2>3. Len(Arrived) = d
    BY <1>1, <2>1, LenOfFunction
  <2> QED BY <2>1, <2>2, <2>3
<1> HIDE DEF Arrived
<1>3. CASE mode = "none"
  <2> DEFINE n == 1 + Len(mails)
  <2>1. Len(Meant) = n
    <3>1. Meant = [i \in 1 .. n |-> Meant[i]] /\ n \in Nat
      BY <1>1, <1>3 DEF Meant
    <3> QED BY <3>1, LenOfFunction
  <2>2. \A i \in 1 .. d : Arrived[i] = Meant[i]
    BY <1>1, <1>2, <1>3 DEF Queued
  <2> QED BY <1>1, <1>2, <1>3, <2>1, <2>2
<1>4. CASE mode # "none"
  <2> DEFINE S == DOMAIN jam_messages
             c == Cardinality(S)
             s == Ascending(S)
  <2>1. /\ S = {items[i].msg.num : i \in DOMAIN items}
        /\ \A n \in S : LET m == jam_messages[n]
             IN /\ m.num = n
                /\ m.id \in DOMAIN items /\ items[m.id].msg.num = n
                /\ \A j \in DOMAIN items : items[j].msg.num = n => j <= m.id
                /\ m.del = items[m.id].msg.del
    BY <1>4 DEF ConvInv, LastKept, MapsOK
  <2>2. c \in Nat /\ s \in [1 .. c -> S] /\ DOMAIN s = 1 .. c
    BY AscendingIsSorted DEF ConvInv, MapsOK
  <2>3. Meant = [i \in 1 .. c |-> <<s[i], LastOf(s[i]), items[LastOf(s[i])].msg.del>>]
    BY <1>4, <2>1, <2>2 DEF Meant
  <2> HIDE DEF S, c, s
  <2>4. Len(Meant) = c
    <3>1. Meant = [i \in 1 .. c |-> Meant[i]]
      BY <2>3
    <3> QED BY <2>2, <3>1, LenOfFunction
  <2>5. d + q = c
    BY <1>1, <1>4 DEF S, c
  <2>6. ASSUME NEW i \in 1 .. d PROVE Arrived[i] = Meant[i]
    <3>1. i \in 1 .. c
      BY <1>1, <2>2, <2>5
    <3>2. dest[i].msg = jam_messages[s[i]]
      BY <1>1, <1>4 DEF Queued, S, s
    <3>3. s[i] \in S
      BY <2>2, <3>1
    <3> DEFINE m == jam_messages[s[i]]
    <3>4. LastOf(s[i]) = m.id
      BY <1>1, <2>1, <3>3, LastIsTheLast
    <3> QED BY <1>2, <2>1, <2>3, <3>1, <3>2, <3>3, <3>4
  <2> QED BY <1>1, <1>2, <2>2, <2>4, <2>5, <2>6
<1> QED BY <1>3, <1>4

\* Each message arrives once and in the order of the numbers, the last of
\* those with one number, and a write that fails leaves the first of them.
THEOREM MessagesArrive == Spec => []ArriveInOrder
<1> QED BY ArriveThen, ConvInvariant, PTL

\* The base of a finished conversion has the messages of the map, each once,
\* and all replies have been noted.
LEMMA DestIsMap ==
  ASSUME ConvInv, phase = "done", mode = "done"
  PROVE  LET S == DOMAIN jam_messages IN
         /\ \A i \in DOMAIN dest : /\ dest[i].msg.num \in S
                                   /\ dest[i].msg = jam_messages[dest[i].msg.num]
         /\ \A i, j \in DOMAIN dest : dest[i].msg.num = dest[j].msg.num => i = j
         /\ \A n \in S : \E i \in DOMAIN dest : dest[i].msg.num = n
         /\ DOMAIN message_ids = S /\ \A n \in S : message_ids[n] = jam_messages[n].id
         /\ \A n \in S : LET m == jam_messages[n] IN
              /\ m.reply_crc = IF n \in Replies THEN message_ids[m.reply_to] ELSE 0
              /\ LET noted == {r \in Replies \ {0} : jam_messages[r].reply_to = n}
                 IN IF noted = {} THEN m.reply1st = 0
                    ELSE m.reply1st \in noted /\ \A r \in noted : m.reply1st <= r
<1> DEFINE S == DOMAIN jam_messages
           c == Cardinality(S)
           s == Ascending(S)
<1>1. Writing /\ Len(queue) = 0
  BY DEF ConvInv, WriteInv, Writing
<1>2. /\ c \in Nat /\ s \in [1 .. c -> S] /\ DOMAIN s = 1 .. c
      /\ \A i, j \in 1 .. c : s[i] = s[j] => i = j
      /\ \A x \in S : \E i \in 1 .. c : s[i] = x
  BY AscendingIsSorted DEF ConvInv, MapsOK
<1>3. /\ DOMAIN message_ids = S
      /\ \A n \in S : jam_messages[n].num = n /\ message_ids[n] = jam_messages[n].id
  BY DEF ConvInv, MapsOK
<1>4. DOMAIN dest = 1 .. c /\ \A i \in 1 .. c : dest[i].msg = jam_messages[s[i]]
  <2>1. /\ dest \in Seq(Dest!Entries) /\ Len(dest) + Len(queue) = c
        /\ \A i \in DOMAIN dest : Queued(i, dest[i].msg)
    BY <1>1 DEF ConvInv, WriteInv
  <2>2. Len(dest) \in Nat /\ DOMAIN dest = 1 .. Len(dest)
    BY <2>1, LenProperties
  <2>3. Len(dest) = c
    BY <1>1, <1>2, <2>1, <2>2
  <2> QED BY <2>1, <2>2, <2>3 DEF Queued
<1>5. LinkInv /\ Awaited = {}
  <2>1. reply_next = << >>
    BY <1>1 DEF ConvInv, LinkInv
  <2> QED BY <2>1 DEF ConvInv, Awaited
<1>6. \A n \in S : LET m == jam_messages[n] IN
        /\ m.reply_crc = IF n \in Replies THEN message_ids[m.reply_to] ELSE 0
        /\ LET noted == {r \in Replies \ {0} : jam_messages[r].reply_to = n}
           IN IF noted = {} THEN m.reply1st = 0
              ELSE m.reply1st \in noted /\ \A r \in noted : m.reply1st <= r
  <2>1. \A n : {r \in Replies \ (Awaited \cup {0}) : jam_messages[r].reply_to = n}
               = {r \in Replies \ {0} : jam_messages[r].reply_to = n}
    BY <1>5
  <2> QED BY <1>1, <1>5, <2>1 DEF LinkInv
<1> HIDE DEF S, c, s
<1>7. \A i \in 1 .. c : dest[i].msg.num = s[i] /\ s[i] \in S
  BY <1>2, <1>3, <1>4
<1> QED BY <1>2, <1>3, <1>4, <1>6, <1>7 DEF S

\* A reply in the new base carries the id of the message it answers, and no
\* other message carries one.
THEOREM RepliesAreLinked == Spec => []RepliesLinked
<1>1. ConvInv => RepliesLinked
  <2> SUFFICES ASSUME ConvInv, phase = "done", mode = "done", NEW i \in DOMAIN dest
               PROVE  LET m == dest[i].msg
                          answered == {j \in DOMAIN dest \ {i} : dest[j].msg.num = m.reply_to}
                      IN IF m.reply_to = 0 \/ answered = {} THEN m.reply_crc = 0
                         ELSE \A j \in answered : m.reply_crc = dest[j].msg.id
    BY DEF RepliesLinked
  <2> DEFINE n == dest[i].msg.num
             r == dest[i].msg.reply_to
             answered == {j \in DOMAIN dest \ {i} : dest[j].msg.num = r}
  <2>1. /\ n \in DOMAIN jam_messages /\ dest[i].msg = jam_messages[n]
        /\ dest[i].msg.reply_crc = IF n \in Replies THEN message_ids[r] ELSE 0
    BY DestIsMap
  <2>2. n \in Replies <=> r # 0 /\ r # n /\ r \in DOMAIN jam_messages
    BY <2>1, DestIsMap DEF Replies, IsReply
  <2>3. r = 0 \/ answered = {} => n \notin Replies
    <3>1. r # 0 /\ r # n /\ r \in DOMAIN jam_messages => answered # {}
      BY DestIsMap
    <3> QED BY <2>2, <3>1
  <2>4. ASSUME NEW j \in answered, r # 0 PROVE dest[i].msg.reply_crc = dest[j].msg.id
    <3>1. j \in DOMAIN dest /\ j # i /\ dest[j].msg.num = r
      OBVIOUS
    <3>2. r # n /\ r \in DOMAIN jam_messages /\ dest[j].msg = jam_messages[r]
      BY <3>1, DestIsMap
    <3>3. message_ids[r] = dest[j].msg.id
      BY <3>2, DestIsMap
    <3> QED BY <2>1, <2>2, <2>4, <3>2, <3>3
  <2> QED BY <2>1, <2>3, <2>4
<1> QED BY <1>1, ConvInvariant, PTL

\* A message that was answered leads to the first of its replies.
THEOREM FirstRepliesFirst == Spec => []FirstReplyFirst
<1>1. ConvInv => FirstReplyFirst
  <2> SUFFICES ASSUME ConvInv, phase = "done", mode = "done", NEW i \in DOMAIN dest
               PROVE  LET n == dest[i].msg.num
                          replies == {dest[j].msg.num :
                                        j \in {k \in DOMAIN dest \ {i} : dest[k].msg.reply_to = n}}
                          first == dest[i].msg.reply1st
                      IN IF n = 0 \/ replies \subseteq {0} THEN first = 0
                         ELSE first \in replies \ {0} /\ \A r \in replies \ {0} : first =< r
    BY DEF FirstReplyFirst
  <2> DEFINE n == dest[i].msg.num
             first == dest[i].msg.reply1st
             replies == {dest[j].msg.num : j \in {k \in DOMAIN dest \ {i} : dest[k].msg.reply_to = n}}
             noted == {r \in Replies \ {0} : jam_messages[r].reply_to = n}
  <2>1. /\ n \in DOMAIN jam_messages /\ dest[i].msg = jam_messages[n]
        /\ IF noted = {} THEN first = 0 ELSE first \in noted /\ \A r \in noted : first <= r
    BY DestIsMap
  <2>2. \A r : r \in Replies <=> /\ r \in DOMAIN jam_messages /\ jam_messages[r].reply_to # 0
                                 /\ jam_messages[r].reply_to # r
                                 /\ jam_messages[r].reply_to \in DOMAIN jam_messages
    BY DestIsMap DEF Replies, IsReply
  <2>3. n = 0 => noted = {}
    BY <2>2
  <2>4. ASSUME NEW r \in noted PROVE r \in replies \ {0}
    <3>1. r \in DOMAIN jam_messages /\ jam_messages[r].reply_to = n /\ n # r /\ r # 0
      BY <2>2
    <3>2. PICK j \in DOMAIN dest : dest[j].msg.num = r
      BY <3>1, DestIsMap
    <3>3. dest[j].msg = jam_messages[r] /\ j # i
      BY <3>1, <3>2, DestIsMap
    <3> QED BY <3>1, <3>2, <3>3
  <2>5. ASSUME NEW r \in replies \ {0}, n # 0 PROVE r \in noted
    <3>1. PICK j \in DOMAIN dest \ {i} : dest[j].msg.reply_to = n /\ dest[j].msg.num = r
      OBVIOUS
    <3>2. r \in DOMAIN jam_messages /\ dest[j].msg = jam_messages[r] /\ r # n
      BY <3>1, DestIsMap
    <3> QED BY <2>1, <2>2, <2>5, <3>1, <3>2
  <2> HIDE DEF n, first, replies, noted
  <2>6. n # 0 => noted = replies \ {0}
    BY <2>4, <2>5
  <2>7. IF n = 0 \/ replies \subseteq {0} THEN first = 0
        ELSE first \in replies \ {0} /\ \A r \in replies \ {0} : first =< r
    BY <2>1, <2>3, <2>6
  <2> QED BY <2>7 DEF n, first, replies
<1> QED BY <1>1, ConvInvariant, PTL
=============================================================================
