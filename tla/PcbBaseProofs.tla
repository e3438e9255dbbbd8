--------------------------- MODULE PcbBaseProofs ---------------------------
(***************************************************************************)
(* read_message and the two indices of a PCBoard base are right for any    *)
(* handles, sizes of messages and width of the mantissa.                   *)
(***************************************************************************)
EXTENDS PcbBase, ArithmeticProofs

\* What the assumptions say of numbers and blocks: they fit a BASIC real.
LEMMA Bounds ==
  /\ MaxMsgs \in Nat /\ Hidden \in Nat /\ MaxMsgs < Hidden - 2 /\ Hidden - 3 \in Nat
  /\ \A n \in Sizes : n \in Nat \ {0} /\ MaxMsgs * n <= Hidden - 3
<1>1. Hidden \in Nat
  BY Sizes32
<1> QED BY <1>1, SizesAssumption

\* A block is a header or text.
LEMMA HeaderBlocks ==
  ASSUME NEW b \in Headers \cup Texts
  PROVE  "num" \in DOMAIN b <=> b \in Headers
BY DEF Headers, Texts

\* A block of text is not the header of a message.
LEMMA TextIsNoHeader == [text |-> TRUE] \notin Headers
<1>1. "num" \notin DOMAIN [text |-> TRUE]
  OBVIOUS
<1>2. \A b \in Headers : "num" \in DOMAIN b
  BY DEF Headers
<1> QED BY <1>1, <1>2

\* A message is read at a block that holds a header, and only there.
LEMMA MessageBlocks ==
  ASSUME TypeOK, NEW k \in Nat
  PROVE  IsMessage(k * BLOCK) <=> k \in DOMAIN blocks /\ blocks[k] \in Headers
<1>1. (k * BLOCK) % BLOCK = 0 /\ (k * BLOCK) \div BLOCK = k
  BY DEF BLOCK
<1>2. k \in DOMAIN blocks => blocks[k] \in Headers \cup Texts
  BY ElementOfSeq DEF TypeOK, FilesOK
<1> QED BY <1>1, <1>2, HeaderBlocks DEF IsMessage

\* With a message on disk there is room for one block number more.
LEMMA BlocksFit ==
  ASSUME TypeOK, BlocksWhole, Posted > 0
  PROVE  Len(blocks) <= Hidden - 3
<1>1. /\ MaxMsgs \in Nat /\ Len(blocks) \in Nat /\ Hidden - 3 \in Nat
      /\ Posted \in Nat /\ Posted <= MaxMsgs /\ Posted > 0
  BY Bounds, LenProperties DEF TypeOK, FilesOK, Posted
<1>2. MaxMsgs * Len(blocks) <= Posted * (Hidden - 3)
  BY DEF BlocksWhole
<1> DEFINE l == Len(blocks)
           r == Hidden - 3
           p == Posted
<1> HIDE DEF l, r, p
<1>3. /\ MaxMsgs \in Nat /\ l \in Nat /\ r \in Nat /\ p \in Nat /\ p <= MaxMsgs
      /\ p > 0 /\ MaxMsgs * l <= p * r
  BY <1>1, <1>2 DEF l, r, p
<1>4. p * r <= MaxMsgs * r
  BY <1>3
<1>5. MaxMsgs * l <= MaxMsgs * r
  BY <1>3, <1>4
<1>6. l <= r
  <2>1. ASSUME l > r PROVE FALSE
    <3>1. MaxMsgs * l >= MaxMsgs * (r + 1)
      BY <1>3, <2>1
    <3> QED BY <1>3, <1>5, <3>1
  <2> QED BY <1>3, <2>1
<1> QED BY <1>6 DEF l, r

\* What is in a file after so many blocks more.
LEMMA Appended ==
  ASSUME NEW S, NEW s \in Seq(S), NEW n \in Nat, NEW t \in [1 .. n -> S]
  PROVE  /\ s \o t \in Seq(S) /\ Len(s \o t) = Len(s) + n
         /\ DOMAIN s = 1 .. Len(s) /\ DOMAIN (s \o t) = 1 .. Len(s) + n
         /\ \A k \in 1 .. Len(s) : (s \o t)[k] = s[k]
         /\ \A k \in Len(s) + 1 .. Len(s) + n : (s \o t)[k] = t[k - Len(s)]
<1>1. t \in Seq(S)
  BY SeqDef
<1>2. Len(t) \in Nat /\ Len(s) \in Nat /\ DOMAIN t = 1 .. Len(t) /\ DOMAIN t = 1 .. n
  BY <1>1, LenProperties
<1>3. Len(t) = n
  BY <1>2
<1>4. /\ s \o t \in Seq(S) /\ Len(s \o t) = Len(s) + n
      /\ \A i \in 1 .. Len(s) + n : (s \o t)[i] = IF i <= Len(s) THEN s[i] ELSE t[i - Len(s)]
  BY <1>1, <1>3, ConcatProperties
<1>5. DOMAIN s = 1 .. Len(s) /\ DOMAIN (s \o t) = 1 .. Len(s) + n
  BY <1>4, LenProperties
<1> QED BY <1>2, <1>4, <1>5

\* The counts of a base fit their words.
LEMMA CountsType ==
  ASSUME NEW n \in 0 .. MaxMsgs
  PROVE  CountsFor(n) \in CountWords
<1>1. n \in Nat /\ n < Hidden - 1 /\ 1 \in Nat /\ 1 < Hidden - 1
  BY Bounds
<1>2. Real(n) \in Nat /\ Real(1) \in Nat
  BY <1>1, SmallExact DEF Real
<1> QED BY <1>2 DEF CountsFor, CountWords

\* A new base satisfies the invariant.
LEMMA InvInit == Init => PcbInv
<1> SUFFICES ASSUME Init PROVE PcbInv
  OBVIOUS
<1>1. TypeOK
  <2>1. FilesOK
    BY Bounds DEF Init, FilesOK
  <2>2. CountsFor(0) \in CountWords
    BY Bounds, CountsType
  <2> QED BY <2>1, <2>2 DEF Init, TypeOK
<1>2. BlocksWhole
  BY Bounds DEF Init, BlocksWhole, Posted
<1>3. IndexLeads /\ OldIndexFollows
  BY Bounds DEF Init, IndexLeads, OldIndexFollows, OldLen
<1>4. CountsBehind
  <2>1. BasicrealToU32(Real(0)) = 0
    BY Bounds, SmallExact DEF Real
  <2>2. Load(header).counts["high_msg_num"] = 0
    BY <2>1 DEF Init, Load, CountsFor, Counts
  <2> QED BY <2>2 DEF Init, CountsBehind, Closed
<1>5. ReadsBehind /\ NumbersRead
  BY DEF Init, ReadsBehind, NumbersRead, NoRead
<1> QED BY <1>1, <1>2, <1>3, <1>4, <1>5 DEF PcbInv
-----------------------------------------------------------------------------
\* The parts of the invariant that speak of some of the variables only.
LEMMA DiskSame ==
  ASSUME FilesOK, BlocksWhole, IndexLeads, OldIndexFollows,
         UNCHANGED <<blocks, index, old_index, posting>>
  PROVE  FilesOK' /\ BlocksWhole' /\ IndexLeads' /\ OldIndexFollows'
BY DEF FilesOK, BlocksWhole, IndexLeads, OldIndexFollows, OldLen, Posted, IsHeaderOf

\* What was read stays right while messages are only added.
LEMMA ReadsSame ==
  ASSUME ReadsBehind, NumbersRead, UNCHANGED reading, DOMAIN index \subseteq DOMAIN index',
         \A i \in DOMAIN index : index'[i] = index[i]
  PROVE  ReadsBehind' /\ NumbersRead'
BY DEF ReadsBehind, NumbersRead

\* Copies of the counts stay behind a base that only grows.
LEMMA CountsSame ==
  ASSUME TypeOK, TypeOK', CountsBehind, UNCHANGED <<header, copies>>, Len(index) <= Len(index')
  PROVE  CountsBehind'
<1>1. Len(index) \in Nat /\ Len(index') \in Nat
  BY LenProperties DEF TypeOK, FilesOK
<1>2. Load(header)' = Load(header)
  BY DEF Load
<1> QED BY <1>1, <1>2 DEF CountsBehind

\* The message comes first, ...
LEMMA PostMessage ==
  ASSUME PcbInv, NEW n \in Sizes, posting = "no", Len(index) < MaxMsgs,
         posting' = "index",
         blocks' = blocks \o [i \in 1 .. n |->
                       IF i = 1 THEN [num |-> Len(index) + 1, num_blocks |-> n]
                                ELSE [text |-> TRUE]],
         UNCHANGED <<header, index, old_index, copies, reading>>
  PROVE  PcbInv'
<1> USE DEF PcbInv
<1> DEFINE new == [i \in 1 .. n |->
                       IF i = 1 THEN [num |-> Len(index) + 1, num_blocks |-> n]
                                ELSE [text |-> TRUE]]
           l == Len(blocks)
<1>1. /\ n \in Nat \ {0} /\ MaxMsgs \in Nat /\ Hidden - 3 \in Nat
      /\ MaxMsgs * n <= Hidden - 3
  BY Bounds
<1>2. l \in Nat /\ Len(index) \in Nat /\ blocks \in Seq(Headers \cup Texts)
  BY LenProperties DEF TypeOK, FilesOK
<1>3. new \in [1 .. n -> Headers \cup Texts]
  <2>1. [num |-> Len(index) + 1, num_blocks |-> n] \in Headers /\ [text |-> TRUE] \in Texts
    BY <1>2 DEF Headers, Texts
  <2> QED BY <2>1
<1>4. /\ blocks' \in Seq(Headers \cup Texts) /\ Len(blocks') = l + n
      /\ DOMAIN blocks = 1 .. l /\ DOMAIN blocks' = 1 .. l + n
      /\ \A k \in 1 .. l : blocks'[k] = blocks[k]
      /\ \A k \in l + 1 .. l + n : blocks'[k] = new[k - l]
  <2>1. blocks' = blocks \o new
    BY DEF new
  <2> HIDE DEF new
  <2>2. n \in Nat
    BY <1>1
  <2>3. /\ blocks \o new \in Seq(Headers \cup Texts) /\ Len(blocks \o new) = Len(blocks) + n
        /\ DOMAIN blocks = 1 .. Len(blocks) /\ DOMAIN (blocks \o new) = 1 .. Len(blocks) + n
        /\ \A k \in 1 .. Len(blocks) : (blocks \o new)[k] = blocks[k]
        /\ \A k \in Len(blocks) + 1 .. Len(blocks) + n :
             (blocks \o new)[k] = new[k - Len(blocks)]
    BY <1>2, <1>3, <2>2, Appended
  <2> QED BY <2>1, <2>3
<1> HIDE DEF new
<1>5. TypeOK'
  BY <1>2, <1>4 DEF TypeOK, FilesOK
<1>6. BlocksWhole'
  <2>1. ASSUME NEW k \in DOMAIN blocks', blocks'[k] \in Headers
        PROVE  k + blocks'[k].num_blocks - 1 <= Len(blocks')
    <3>1. CASE k \in 1 .. l
      <4>1. blocks'[k] = blocks[k] /\ blocks[k] \in Headers
        BY <1>4, <2>1, <3>1
      <4>2. k + blocks[k].num_blocks - 1 <= l
        BY <1>4, <3>1, <4>1 DEF BlocksWhole
      <4>3. blocks[k].num_blocks \in Nat
        BY <4>1, Bounds DEF Headers
      <4> QED BY <1>1, <1>2, <1>4, <3>1, <4>1, <4>2, <4>3
    <3>2. CASE k \in l + 1 .. l + n
      <4>1. blocks'[k] = new[k - l] /\ k - l \in 1 .. n
        BY <1>1, <1>2, <1>4, <3>2, SMTT(30)
      <4>2. k - l = 1
        <5>1. k - l # 1 => new[k - l] = [text |-> TRUE]
          BY <4>1 DEF new
        <5> QED BY <2>1, <4>1, <5>1, TextIsNoHeader
      <4>3. new[1].num_blocks = n
        BY <1>1 DEF new
      <4>4. blocks'[k].num_blocks = n
        BY <4>1, <4>2, <4>3
      <4> QED BY <1>1, <1>2, <1>4, <4>2, <4>4
    <3> QED BY <1>1, <1>2, <1>4, <3>1, <3>2
  <2>2. MaxMsgs * Len(blocks') <= Posted' * (Hidden - 3)
    <3>1. Posted = Len(index) /\ Posted' = Len(index) + 1
      BY <1>2 DEF Posted
    <3>2. MaxMsgs * l <= Len(index) * (Hidden - 3)
      BY <3>1 DEF BlocksWhole
    <3> DEFINE r == Hidden - 3
               i == Len(index)
    <3> HIDE DEF r, i, l
    <3>3. MaxMsgs * (l + n) <= (i + 1) * r
      BY <1>1, <1>2, <3>2 DEF r, i
    <3> QED BY <1>4, <3>1, <3>3 DEF r, i
  <2> QED BY <2>1, <2>2 DEF BlocksWhole
<1>7. IndexLeads'
  <2>1. ASSUME NEW k \in DOMAIN blocks, NEW num, IsHeaderOf(k, num)
        PROVE  k \in DOMAIN blocks' /\ IsHeaderOf(k, num)'
    BY <1>1, <1>2, <1>4, <2>1 DEF IsHeaderOf
  <2>2. ASSUME NEW k, k = l + 1, NEW j, j = Len(index) + 1
        PROVE  k \in DOMAIN blocks' /\ IsHeaderOf(k, j)'
    <3> DEFINE b == new[1]
    <3>1. blocks'[l + 1] = b /\ l + 1 \in DOMAIN blocks'
      <4>1. l + 1 \in l + 1 .. l + n /\ (l + 1) - l = 1 /\ l + 1 \in 1 .. l + n
        BY <1>1, <1>2
      <4>2. blocks'[l + 1] = new[(l + 1) - l]
        BY <1>4, <4>1
      <4> QED BY <1>4, <4>1, <4>2
    <3>2. b = [num |-> Len(index) + 1, num_blocks |-> n]
      BY <1>1 DEF new
    <3> HIDE DEF b
    <3>3. b \in Headers /\ b.num = Len(index) + 1
      BY <1>2, <3>2 DEF Headers
    <3> QED BY <2>2, <3>1, <3>3 DEF IsHeaderOf
  <2>3. ASSUME NEW i \in DOMAIN index'
        PROVE  \E k \in DOMAIN blocks' : index'[i].offset = k * BLOCK /\ IsHeaderOf(k, i)'
    BY <2>1 DEF IndexLeads
  <2>4. (\E k \in DOMAIN blocks : IsHeaderOf(k, Len(index) + 1))'
    <3>1. PICK k : k = l + 1
      OBVIOUS
    <3>2. PICK j : j = Len(index) + 1
      OBVIOUS
    <3>3. k \in DOMAIN blocks' /\ IsHeaderOf(k, j)'
      BY <2>2, <3>1, <3>2
    <3> QED BY <3>2, <3>3 DEF IsHeaderOf
  <2> QED BY <2>3, <2>4 DEF IndexLeads
<1>8. OldIndexFollows'
  BY DEF OldIndexFollows, OldLen
<1>9. Len(index) <= Len(index')
  BY <1>2
<1> QED BY <1>5, <1>6, <1>7, <1>8, <1>9, CountsSame, ReadsSame

\* ... then its record in the index, ...
LEMMA PostIndex ==
  ASSUME PcbInv, posting = "index", posting' = "old_index",
         LET last == CHOOSE k \in DOMAIN blocks : /\ IsMessage(k * BLOCK)
                                                  /\ blocks[k].num = Len(index) + 1
         IN index' = Append(index, [offset |-> last * BLOCK, num |-> Len(index) + 1]),
         UNCHANGED <<header, blocks, old_index, copies, reading>>
  PROVE  PcbInv'
<1> USE DEF PcbInv
<1> DEFINE l == Len(index)
           last == CHOOSE k \in DOMAIN blocks : IsMessage(k * BLOCK) /\ blocks[k].num = l + 1
           record == [offset |-> last * BLOCK, num |-> l + 1]
<1>1. /\ l \in Nat /\ l < MaxMsgs /\ MaxMsgs \in Nat
      /\ index \in Seq([offset : Nat, num : Nat]) /\ DOMAIN index = 1 .. l
  BY Bounds, LenProperties DEF TypeOK, FilesOK
<1>2. DOMAIN blocks \subseteq Nat
  BY LenProperties DEF TypeOK, FilesOK
<1>3. last \in DOMAIN blocks /\ IsHeaderOf(last, l + 1)
  <2>1. PICK k \in DOMAIN blocks : IsHeaderOf(k, l + 1)
    BY DEF IndexLeads
  <2>2. IsMessage(k * BLOCK) /\ blocks[k].num = l + 1
    BY <1>2, <2>1, MessageBlocks DEF IsHeaderOf
  <2>3. last \in DOMAIN blocks /\ IsMessage(last * BLOCK) /\ blocks[last].num = l + 1
    BY <2>2
  <2> HIDE DEF last
  <2> QED BY <1>2, <2>3, MessageBlocks DEF IsHeaderOf
<1>4. index' = Append(index, record)
  OBVIOUS
<1> HIDE DEF last
<1>5. last * BLOCK \in Nat
  BY <1>2, <1>3 DEF BLOCK
<1>6. record \in [offset : Nat, num : Nat]
  BY <1>1, <1>5
<1>7. /\ index' \in Seq([offset : Nat, num : Nat]) /\ Len(index') = l + 1
      /\ DOMAIN index' = 1 .. l + 1 /\ index' # << >>
      /\ \A i \in 1 .. l : index'[i] = index[i]
      /\ index'[l + 1] = record
  <2> HIDE DEF record
  <2> QED BY <1>1, <1>4, <1>6, AppendProperties, LenProperties
<1>8. TypeOK'
  BY <1>1, <1>7 DEF TypeOK, FilesOK
<1>9. BlocksWhole'
  <2>1. Posted' = Posted
    BY <1>1, <1>7 DEF Posted
  <2> QED BY <2>1 DEF BlocksWhole
<1>10. IndexLeads'
  <2>1. ASSUME NEW i \in 1 .. l
        PROVE  \E k \in DOMAIN blocks' : index'[i].offset = k * BLOCK /\ IsHeaderOf(k, i)'
    BY <1>1, <1>7, <2>1 DEF IndexLeads, IsHeaderOf
  <2>2. ASSUME NEW i, i = l + 1
        PROVE  \E k \in DOMAIN blocks' : index'[i].offset = k * BLOCK /\ IsHeaderOf(k, i)'
    <3>1. PICK k \in DOMAIN blocks : k = last
      BY <1>3
    <3>2. index'[i].offset = k * BLOCK
      BY <1>7, <2>2, <3>1
    <3>3. IsHeaderOf(k, i)'
      BY <1>3, <2>2, <3>1 DEF IsHeaderOf
    <3> QED BY <3>2, <3>3
  <2>3. \A i \in DOMAIN index' : i \in 1 .. l \/ i = l + 1
    BY <1>1, <1>7
  <2> QED BY <2>1, <2>2, <2>3 DEF IndexLeads
<1>11. OldIndexFollows'
  <2>1. OldLen = l /\ OldLen' = l
    BY <1>1, <1>7 DEF OldLen
  <2>2. \A i \in 1 .. MaxMsgs : i <= l => index'[i] = index[i]
    BY <1>1, <1>7
  <2> HIDE DEF l
  <2> QED BY <2>1, <2>2 DEF OldIndexFollows
<1>12. Len(index) <= Len(index') /\ DOMAIN index \subseteq DOMAIN index'
  BY <1>1, <1>7
<1>13. CountsBehind'
  BY <1>8, <1>12, CountsSame
<1>14. ReadsBehind' /\ NumbersRead'
  BY <1>1, <1>7, <1>12, ReadsSame
<1> QED BY <1>8, <1>9, <1>10, <1>11, <1>13, <1>14

\* ... in the old index, ...
LEMMA PostOldIndex ==
  ASSUME PcbInv, posting = "old_index", posting' = "header",
         LET n == Len(index)
         IN old_index' = [old_index EXCEPT ![n] = Real(index[n].offset \div BLOCK + 1)],
         UNCHANGED <<header, blocks, index, copies, reading>>
  PROVE  PcbInv'
<1> USE DEF PcbInv
<1>1. Len(index) \in Nat /\ Len(index) <= MaxMsgs /\ Len(index) # 0 /\ MaxMsgs \in Nat
  BY Bounds, LenProperties, EmptySeq DEF TypeOK, FilesOK
<1>2. TypeOK'
  BY DEF TypeOK, FilesOK
<1>3. BlocksWhole' /\ IndexLeads'
  BY DEF BlocksWhole, IndexLeads, IsHeaderOf, Posted
<1>4. OldIndexFollows'
  <2>1. OldLen = Len(index) - 1 /\ OldLen' = Len(index)
    BY <1>1 DEF OldLen
  <2>2. ASSUME NEW i \in 1 .. MaxMsgs
        PROVE  old_index'[i] = IF i <= OldLen' THEN Real(index'[i].offset \div BLOCK + 1) ELSE 0
    <3>1. CASE i = Len(index)
      BY <1>1, <2>1, <3>1 DEF TypeOK, FilesOK
    <3>2. CASE i # Len(index)
      <4>1. old_index'[i] = old_index[i]
        BY <3>2 DEF TypeOK, FilesOK
      <4>2. i <= OldLen <=> i <= OldLen'
        BY <1>1, <2>1, <3>2
      <4> QED BY <4>1, <4>2 DEF OldIndexFollows
    <3> QED BY <3>1, <3>2
  <2> QED BY <2>2 DEF OldIndexFollows
<1>5. CountsBehind'
  BY <1>1, <1>2, CountsSame
<1>6. ReadsBehind' /\ NumbersRead'
  BY ReadsSame
<1> QED BY <1>2, <1>3, <1>4, <1>5, <1>6

\* ... and the counts.
LEMMA PostHeader ==
  ASSUME PcbInv, posting = "header", posting' = "no",
         header' = [header EXCEPT !.counts = CountsFor(Len(index))],
         UNCHANGED <<blocks, index, old_index, copies, reading>>
  PROVE  PcbInv'
<1> USE DEF PcbInv
<1>1. Len(index) \in Nat /\ Len(index) < Hidden - 1
  BY Bounds, LenProperties DEF TypeOK, FilesOK
<1>2. TypeOK'
  <2>1. Len(index) \in 0 .. MaxMsgs
    BY <1>1 DEF TypeOK, FilesOK
  <2>2. CountsFor(Len(index)) \in CountWords
    BY <2>1, CountsType
  <2> QED BY <2>2 DEF TypeOK, FilesOK
<1>6. BlocksWhole' /\ IndexLeads' /\ OldIndexFollows'
  BY DEF BlocksWhole, IndexLeads, OldIndexFollows, OldLen, Posted, IsHeaderOf
<1>3. Load(header)'.counts["high_msg_num"] = Len(index)
  <2>1. header'.counts["high_msg_num"] = Real(Len(index))
    BY DEF CountsFor, Counts, TypeOK
  <2>2. BasicrealToU32(Real(Len(index))) = Len(index)
    BY <1>1, SmallExact DEF Real
  <2>3. Load(header)'.counts["high_msg_num"] = BasicrealToU32(header'.counts["high_msg_num"])
    BY DEF Load, Counts
  <2> QED BY <2>1, <2>2, <2>3
<1>4. CountsBehind'
  BY <1>1, <1>3 DEF CountsBehind
<1>5. ReadsBehind' /\ NumbersRead'
  BY ReadsSame
<1> QED BY <1>2, <1>4, <1>5, <1>6
-----------------------------------------------------------------------------
\* What a handle loads are the words of the header.
LEMMA LoadType ==
  ASSUME TypeOK PROVE Load(header) \in Opened
<1>1. \A c \in Counts : BasicrealToU32(header.counts[c]) \in Nat
  BY DecodedType DEF TypeOK, CountWords
<1> QED BY <1>1 DEF Load, Opened, CountWords, TypeOK

\* A handle loads the counts.
LEMMA ReloadKeeps ==
  ASSUME PcbInv, NEW h \in Handles, Reload(h) PROVE PcbInv'
<1> USE DEF PcbInv
<1>1. UNCHANGED <<header, blocks, index, old_index, posting>>
  BY DEF Reload, files
<1>2. /\ copies' = [copies EXCEPT ![h] = Load(header)]
      /\ reading' = [reading EXCEPT ![h] = NoRead]
  BY DEF Reload
<1>3. FilesOK' /\ BlocksWhole' /\ IndexLeads' /\ OldIndexFollows'
  BY <1>1, DiskSame DEF TypeOK
<1>4. TypeOK'
  BY <1>1, <1>2, <1>3, LoadType DEF TypeOK
<1>5. CountsBehind'
  <2>1. Load(header)' = Load(header)
    BY <1>1 DEF Load
  <2> QED BY <1>1, <1>2, <2>1 DEF CountsBehind, TypeOK
<1>6. ReadsBehind' /\ NumbersRead'
  BY <1>1, <1>2 DEF ReadsBehind, NumbersRead, NoRead, TypeOK
<1> QED BY <1>3, <1>4, <1>5, <1>6

\* A handle writes its counts back, with the lock; a program that loads them
\* then takes them for BASIC reals and finds none.
LEMMA SetLockKeeps ==
  ASSUME PcbInv, NEW h \in Handles, NEW flag \in BOOLEAN, SetLock(h, flag) PROVE PcbInv'
<1> USE DEF PcbInv
<1>1. UNCHANGED <<blocks, index, old_index, posting>>
  BY DEF SetLock
<1>2. /\ copies[h].open
      /\ copies' = [copies EXCEPT ![h].locked = flag]
      /\ header' = Stored(copies'[h]) \/ header' = header
      /\ reading' = [reading EXCEPT ![h] = NoRead]
  BY DEF SetLock
<1>3. FilesOK' /\ BlocksWhole' /\ IndexLeads' /\ OldIndexFollows'
  BY <1>1, DiskSame DEF TypeOK
<1>4. copies[h] \in Opened
  BY <1>2 DEF TypeOK, Closed
<1>5. /\ copies'[h] \in Opened /\ copies'[h].counts = copies[h].counts
      /\ \A g \in Handles \ {h} : copies'[g] = copies[g]
      /\ copies' \in [Handles -> {Closed} \cup Opened]
  BY <1>2, <1>4 DEF TypeOK, Opened
<1>6. TypeOK'
  <2>1. Stored(copies'[h]) \in [counts : CountWords, locked : BOOLEAN]
    BY <1>5 DEF Stored, Opened
  <2> QED BY <1>2, <1>3, <1>5, <2>1 DEF TypeOK
<1>7. CountsBehind'
  <2>1. Len(index) \in Nat /\ Len(index) <= MaxMsgs /\ MaxMsgs < 2 * Hidden
    BY Bounds, LenProperties DEF TypeOK, FilesOK
  <2>2. ASSUME NEW g \in Handles, copies'[g].open
        PROVE  copies'[g].counts["high_msg_num"] \in 0 .. Len(index)
    BY <1>2, <1>5, <2>2 DEF CountsBehind
  <2>3. Load(header)'.counts["high_msg_num"] \in 0 .. Len(index)
    <3>1. CASE header' = header
      BY <3>1 DEF CountsBehind, Load
    <3>2. CASE header' = Stored(copies'[h])
      <4> DEFINE n == copies[h].counts["high_msg_num"]
      <4>1. n \in 0 .. Len(index) /\ header'.counts["high_msg_num"] = n
        BY <1>2, <1>5, <3>2 DEF CountsBehind, Stored
      <4> HIDE DEF n
      <4>2. n \in Nat /\ n < 2 * Hidden
        BY Bounds, <2>1, <4>1
      <4>3. BasicrealToU32(n) = 0
        BY <4>2, SmallIsNoReal
      <4>4. Load(header)'.counts["high_msg_num"] = 0
        BY <4>1, <4>3 DEF Load, Counts
      <4> QED BY <2>1, <4>4
    <3> QED BY <1>2, <3>1, <3>2
  <2> QED BY <1>1, <2>2, <2>3 DEF CountsBehind
<1>8. ReadsBehind' /\ NumbersRead'
  BY <1>1, <1>2 DEF ReadsBehind, NumbersRead, NoRead, TypeOK
<1> QED BY <1>3, <1>6, <1>7, <1>8

\* A number in the range of a handle has a record, whatever was posted or
\* locked since the handle loaded its counts.
LEMMA FindRecordKeeps ==
  ASSUME PcbInv, NEW h \in Handles, NEW num \in Numbers, FindRecord(h, num) PROVE PcbInv'
<1> USE DEF PcbInv
<1>1. UNCHANGED <<header, blocks, index, old_index, posting, copies>>
  BY DEF FindRecord, files
<1> DEFINE r == IF ~InRange(copies[h], num) THEN Answer(num, "range", 0)
                ELSE IF num = 0 THEN Answer(num, "underflow", 0)
                ELSE IF RecordOf(num) \notin DOMAIN index THEN Answer(num, "err", 0)
                ELSE [at |-> "index", num |-> num, offset |-> index[RecordOf(num)].offset]
<1>2. copies[h].open /\ reading' = [reading EXCEPT ![h] = r]
  BY DEF FindRecord
<1>3. /\ num \in Nat /\ Len(index) \in Nat /\ DOMAIN index = 1 .. Len(index)
      /\ index \in Seq([offset : Nat, num : Nat])
  BY Bounds, LenProperties DEF Numbers, TypeOK, FilesOK
<1>4. \/ r = Answer(num, "range", 0)
      \/ r = Answer(num, "underflow", 0) /\ num = 0
      \/ /\ r = [at |-> "index", num |-> num, offset |-> index[num].offset]
         /\ num \in DOMAIN index
  <2>1. ASSUME InRange(copies[h], num), num # 0 PROVE RecordOf(num) \in DOMAIN index
    BY <1>2, <1>3, <2>1 DEF InRange, RecordOf, CountsBehind
  <2> QED BY <2>1 DEF RecordOf
<1> HIDE DEF r
<1>5. r \in Reads
  <2>1. CASE r = Answer(num, "range", 0) \/ r = Answer(num, "underflow", 0)
    BY <1>3, <2>1 DEF Reads, Answer
  <2>2. CASE r = [at |-> "index", num |-> num, offset |-> index[num].offset] /\ num \in DOMAIN index
    <3>1. index[num] \in [offset : Nat, num : Nat]
      BY <1>3, <2>2, ElementOfSeq
    <3> QED BY <1>3, <2>2, <3>1 DEF Reads
  <2> QED BY <1>4, <2>1, <2>2
<1>6. FilesOK' /\ BlocksWhole' /\ IndexLeads' /\ OldIndexFollows'
  BY <1>1, DiskSame DEF TypeOK
<1>7. TypeOK'
  BY <1>1, <1>2, <1>5, <1>6 DEF TypeOK
<1>8. CountsBehind'
  BY <1>1, <1>3, <1>7, CountsSame
<1>9. \A g \in Handles : reading'[g] = IF g = h THEN r ELSE reading[g]
  BY <1>2 DEF TypeOK
<1>10. ReadsBehind'
  <2>1. r.at = "index" => r.num \in DOMAIN index /\ r.offset = index[r.num].offset
    BY <1>4 DEF Answer
  <2> QED BY <1>1, <1>9, <2>1 DEF ReadsBehind
<1>11. NumbersRead'
  <2>1. r.at = "answer" /\ r.num > 0 => r.result = "range"
    BY <1>3, <1>4 DEF Answer
  <2> QED BY <1>9, <2>1 DEF NumbersRead
<1> QED BY <1>6, <1>7, <1>8, <1>10, <1>11

\* The record found leads to the whole message of that number.
LEMMA ReadBlocksKeeps ==
  ASSUME PcbInv, NEW h \in Handles, ReadBlocks(h) PROVE PcbInv'
<1> USE DEF PcbInv
<1>1. UNCHANGED <<header, blocks, index, old_index, posting, copies>>
  BY DEF ReadBlocks, files
<1> DEFINE r == reading[h]
           num == r.num
           a == IF MessageWhole(r.offset) THEN Answer(num, "ok", blocks[r.offset \div BLOCK].num)
                ELSE Answer(num, "err", 0)
<1>2. reading[h].at = "index" /\ reading' = [reading EXCEPT ![h] = a]
  BY DEF ReadBlocks
<1>3. num \in DOMAIN index /\ r.offset = index[num].offset
  BY <1>2 DEF ReadsBehind
<1>4. PICK k \in DOMAIN blocks : r.offset = k * BLOCK /\ IsHeaderOf(k, num)
  BY <1>3 DEF IndexLeads
<1>5. k \in Nat /\ num \in Nat /\ Len(index) \in Nat
  BY <1>3, LenProperties DEF TypeOK, FilesOK
<1>6. a = Answer(num, "ok", num)
  <2>1. r.offset \div BLOCK = k
    BY <1>4, <1>5 DEF BLOCK
  <2>2. MessageWhole(r.offset) /\ blocks[k].num = num
    <3>1. IsMessage(k * BLOCK) /\ blocks[k] \in Headers /\ blocks[k].num = num
      BY <1>4, <1>5, MessageBlocks DEF IsHeaderOf
    <3>2. k + blocks[k].num_blocks - 1 <= Len(blocks)
      BY <3>1 DEF BlocksWhole
    <3> QED BY <1>4, <2>1, <3>1, <3>2 DEF MessageWhole
  <2> QED BY <2>1, <2>2
<1> HIDE DEF a
<1>7. a \in Reads
  BY <1>5, <1>6 DEF Answer, Reads
<1>8. FilesOK' /\ BlocksWhole' /\ IndexLeads' /\ OldIndexFollows'
  BY <1>1, DiskSame DEF TypeOK
<1>9. TypeOK'
  BY <1>1, <1>2, <1>7, <1>8 DEF TypeOK
<1>10. CountsBehind'
  BY <1>1, <1>5, <1>9, CountsSame
<1>11. \A g \in Handles : reading'[g] = IF g = h THEN a ELSE reading[g]
  BY <1>2 DEF TypeOK
<1>12. ReadsBehind'
  BY <1>1, <1>6, <1>11 DEF ReadsBehind, Answer
<1>13. NumbersRead'
  BY <1>6, <1>11 DEF NumbersRead, Answer
<1> QED BY <1>8, <1>9, <1>10, <1>12, <1>13

\* The invariant is inductive.
LEMMA InvNext == PcbInv /\ [Next]_vars => PcbInv'
<1> SUFFICES ASSUME PcbInv, [Next]_vars PROVE PcbInv'
  OBVIOUS
<1>1. CASE Post
  <2>1. CASE posting = "no"
    BY <1>1, <2>1, PostMessage DEF Post
  <2>2. CASE posting = "index"
    BY <1>1, <2>2, PostIndex DEF Post
  <2>3. CASE posting = "old_index"
    BY <1>1, <2>3, PostOldIndex DEF Post
  <2>4. CASE posting = "header"
    BY <1>1, <2>4, PostHeader DEF Post
  <2> QED BY <1>1, <2>1, <2>2, <2>3, <2>4 DEF Post
<1>2. ASSUME NEW h \in Handles, Reload(h) PROVE PcbInv'
  BY <1>2, ReloadKeeps
<1>3. ASSUME NEW h \in Handles, NEW flag \in BOOLEAN, SetLock(h, flag) PROVE PcbInv'
  BY <1>3, SetLockKeeps
<1>4. ASSUME NEW h \in Handles, NEW num \in Numbers, FindRecord(h, num) PROVE PcbInv'
  BY <1>4, FindRecordKeeps
<1>5. ASSUME NEW h \in Handles, ReadBlocks(h) PROVE PcbInv'
  BY <1>5, ReadBlocksKeeps
<1>6. CASE UNCHANGED vars
  <2>1. FilesOK' /\ BlocksWhole' /\ IndexLeads' /\ OldIndexFollows'
    BY <1>6, DiskSame DEF PcbInv, TypeOK, vars
  <2>2. TypeOK'
    BY <1>6, <2>1 DEF PcbInv, TypeOK, vars
  <2>3. CountsBehind'
    BY <1>6 DEF PcbInv, CountsBehind, Load, vars
  <2>4. ReadsBehind' /\ NumbersRead'
    BY <1>6, ReadsSame DEF PcbInv, vars
  <2> QED BY <2>1, <2>2, <2>3, <2>4 DEF PcbInv
<1> QED BY <1>1, <1>2, <1>3, <1>4, <1>5, <1>6 DEF Next

\* The files, the copies and the reads are what the invariant says, however
\* posting, locking and reading interleave.
THEOREM PcbInvariant == Spec => []PcbInv
<1> QED BY InvInit, InvNext, PTL DEF Spec

\* read_message finds every message in the range of its handle from number 1
\* on, and gives the message of that number.
THEOREM NumbersAreRead == Spec => []NumbersRead
<1>1. PcbInv => NumbersRead
  BY DEF PcbInv
<1> QED BY <1>1, PcbInvariant, PTL
-----------------------------------------------------------------------------
\* The block numbers of the old index are exact, and none is 0.
LEMMA OldOffsets ==
  ASSUME PcbInv, NEW i \in 1 .. OldLen
  PROVE  i \in DOMAIN index /\ old_index[i] # 0 /\ OldOffset(old_index[i]) = index[i].offset
<1> USE DEF PcbInv
<1>1. /\ Len(index) \in Nat /\ OldLen <= Len(index) /\ Len(index) <= MaxMsgs
      /\ MaxMsgs \in Nat /\ Hidden \in Nat /\ DOMAIN index = 1 .. Len(index)
  BY Bounds, LenProperties DEF TypeOK, FilesOK, OldLen
<1>2. i \in DOMAIN index /\ i \in 1 .. MaxMsgs
  BY <1>1 DEF OldLen
<1>3. PICK k \in DOMAIN blocks : index[i].offset = k * BLOCK
  BY <1>2 DEF IndexLeads
<1>4. k \in Nat /\ k >= 1 /\ k + 1 < Hidden - 1
  <2>1. Posted > 0
    BY <1>1, <1>2 DEF Posted
  <2>2. Len(blocks) <= Hidden - 3
    BY <2>1, BlocksFit
  <2>3. Len(blocks) \in Nat /\ DOMAIN blocks = 1 .. Len(blocks)
    BY LenProperties DEF TypeOK, FilesOK
  <2> QED BY <1>1, <1>3, <2>2, <2>3
<1>5. old_index[i] = Real(k + 1)
  <2>1. index[i].offset \div BLOCK = k
    BY <1>3, <1>4 DEF BLOCK
  <2> QED BY <1>2, <2>1 DEF OldIndexFollows
<1>6. BasicrealToU32(old_index[i]) = k + 1
  <2>1. k + 1 \in Nat
    BY <1>4
  <2> QED BY <1>4, <1>5, <2>1, SmallExact DEF Real
<1>7. OldOffset(old_index[i]) = index[i].offset
  BY <1>3, <1>4, <1>6 DEF OldOffset
<1>8. old_index[i] # 0
  <2>1. BasicrealToU32(0) = 0
    BY Bounds, SmallIsNoReal
  <2> QED BY <1>4, <1>6, <2>1
<1> QED BY <1>2, <1>7, <1>8

\* read_old_index ends behind the last record that was written.
LEMMA OldIndexEnds ==
  ASSUME PcbInv
  PROVE  /\ OldLen \in Nat /\ OldLen <= Len(index)
         /\ ReadOldIndex = [i \in 1 .. OldLen |-> OldOffset(old_index[i])]
<1> USE DEF PcbInv
<1>1. /\ Len(index) \in Nat /\ Len(index) <= MaxMsgs /\ MaxMsgs \in Nat
      /\ OldLen \in Nat /\ OldLen <= Len(index)
  BY Bounds, LenProperties, EmptySeq DEF TypeOK, FilesOK, OldLen
<1> DEFINE used == {n \in 0 .. MaxMsgs : \A i \in 1 .. n : old_index[i] # 0}
           last == CHOOSE m \in used : \A k \in used : k <= m
<1>2. OldLen \in used
  BY <1>1, OldOffsets
<1>3. \A n \in used : n <= OldLen
  <2>1. ASSUME NEW n \in used, n > OldLen PROVE FALSE
    <3>1. OldLen + 1 \in 1 .. n /\ OldLen + 1 \in 1 .. MaxMsgs /\ ~(OldLen + 1 <= OldLen)
      BY <1>1, <2>1
    <3>2. old_index[OldLen + 1] = 0
      BY <3>1 DEF OldIndexFollows
    <3> QED BY <2>1, <3>1, <3>2
  <2> QED BY <1>1, <2>1
<1>4. \A m \in used : (\A k \in used : k <= m) => m = OldLen
  BY <1>1, <1>2, <1>3
<1>5. last = OldLen
  BY <1>2, <1>3, <1>4
<1>6. ReadOldIndex = [i \in 1 .. last |-> OldOffset(old_index[i])]
  BY DEF ReadOldIndex
<1> HIDE DEF last
<1> QED BY <1>1, <1>5, <1>6

\* Both indices agree but for the record that is being posted.
LEMMA BothAgree == PcbInv => OldIndexAgrees
<1> SUFFICES ASSUME PcbInv PROVE OldIndexAgrees
  OBVIOUS
<1> DEFINE o == ReadOldIndex
           x == ReadIndex
<1>1. /\ OldLen \in Nat /\ OldLen <= Len(index) /\ Len(index) \in Nat
      /\ o = [i \in 1 .. OldLen |-> OldOffset(old_index[i])]
      /\ DOMAIN index = 1 .. Len(index)
  BY OldIndexEnds, LenProperties DEF PcbInv, TypeOK, FilesOK
<1>2. x = [i \in 1 .. Len(index) |-> index[i].offset]
  BY <1>1 DEF ReadIndex
<1> HIDE DEF o, x
<1>3. Len(o) = OldLen /\ DOMAIN o = 1 .. OldLen
  BY <1>1
<1>4. Len(x) = Len(index)
  BY <1>1, <1>2
<1>5. PICK n \in 0 .. 1 : Len(x) = Len(o) + n
  BY <1>1, <1>3, <1>4 DEF OldLen
<1>6. \A i \in DOMAIN o : o[i] = x[i]
  BY <1>1, <1>2, <1>3, OldOffsets
<1> QED BY <1>5, <1>6 DEF OldIndexAgrees, o, x

\* The old index leads to the messages that the index leads to, whichever
\* record PCBoard is at: the conversion of offsets to BASIC reals is exact.
THEOREM OldIndexIsRight == Spec => []OldIndexAgrees
<1> QED BY BothAgree, PcbInvariant, PTL
=============================================================================
