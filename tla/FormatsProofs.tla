--------------------------- MODULE FormatsProofs ---------------------------
(***************************************************************************)
(* What the formats promise for every input, not only for those that a run *)
(* enumerates.                                                             *)
(***************************************************************************)
EXTENDS MCFormats, ArithmeticProofs

(* What the inputs of the run are. *)

InputInv ==
  /\ input.kind = "real" => input.word \in Words
  /\ input.kind = "body" => input \in Layouts
  /\ input.kind = "mail" => input.starts \in Starts /\ input.conference \in BoundedSeq(1 .. 3, 3)
  /\ input.kind = "control" => input.control \in Controls
  /\ input.kind = "status" => input.msg \in Statuses
  /\ input.kind = "buffer" => input.buf \in Buffers
  /\ input.kind = "address" => input.address \in Addresses
  /\ input.kind = "text" => input.text \in AddressTexts
  /\ input.kind = "header" => input.header \in JamHeaders
  /\ input.kind = "names" => input.from \in Contents /\ input.to \in Contents /\ input.subject \in Contents
  /\ input.kind = "subfields" => input.data \in SubfieldData
  /\ input.kind = "fold" => input.headers \in BoundedSeq(ExtendedOf, 4)
  /\ input.kind = "qwk" => input.msg \in QwkMessages /\ input.long \in {<< >>, <<"to", "subj">>}

\* The first input of a run is one of those the run enumerates.
LEMMA InputInit == Init => InputInv
  BY DEF Init, InputInv

\* The kinds of input that InputInv speaks of.
KindsOfInv ==
  {"real", "body", "mail", "control", "status", "buffer", "address", "text", "header", "names",
   "subfields", "fold", "qwk"}

\* An input of another kind.
LEMMA OtherKind ==
  ASSUME input'.kind \notin KindsOfInv PROVE InputInv'
  BY DEF InputInv, KindsOfInv

\* So is each further one.
LEMMA InputStep == InputInv /\ [Next]_input => InputInv'
<1> SUFFICES ASSUME InputInv, [Next]_input PROVE InputInv'
  OBVIOUS
<1>1. CASE UNCHANGED input
  BY <1>1 DEF InputInv
<1>2. CASE Take([kind : {"real"}, word : Words])
  BY <1>2 DEF InputInv, Take
<1>3. CASE Take(Layouts)
  <2>1. input' \in Layouts
    BY <1>3 DEF Take
  <2>2. \A layout \in Layouts : layout.kind = "body"
    BY DEF Layouts, Layout
  <2> QED BY <2>1, <2>2 DEF InputInv
<1>4. CASE Take([kind : {"mail"}, starts : Starts, conference : BoundedSeq(1 .. 3, 3)])
  BY <1>4 DEF InputInv, Take
<1>5. CASE Take([kind : {"control"}, control : Controls])
  BY <1>5 DEF InputInv, Take
<1>6. CASE Take([kind : {"status"}, msg : Statuses])
  BY <1>6 DEF InputInv, Take
<1>7. CASE Take([kind : {"buffer"}, buf : Buffers])
  BY <1>7 DEF InputInv, Take
<1>8. CASE Take([kind : {"address"}, address : Addresses])
  BY <1>8 DEF InputInv, Take
<1>9. CASE Take([kind : {"text"}, text : AddressTexts])
  BY <1>9 DEF InputInv, Take
<1>10. CASE Take([kind : {"header"}, header : JamHeaders])
  BY <1>10 DEF InputInv, Take
<1>11. CASE Take([kind : {"names"}, from : Contents, to : Contents, subject : Contents])
  BY <1>11 DEF InputInv, Take
<1>12. CASE Take([kind : {"subfields"}, data : SubfieldData])
  BY <1>12 DEF InputInv, Take
<1>13. CASE Take([kind : {"fold"}, headers : BoundedSeq(ExtendedOf, 4)])
  BY <1>13 DEF InputInv, Take
<1>14. CASE Take([kind : {"qwk"}, msg : QwkMessages, long : {<< >>, <<"to", "subj">>}])
  BY <1>14 DEF InputInv, Take
<1>15. CASE Take([kind : {"password"}, set : Passwords, given : Passwords])
  <2>1. input'.kind \notin KindsOfInv
    BY <1>15 DEF Take, KindsOfInv
  <2> QED BY <2>1, OtherKind
<1> QED BY <1>1, <1>2, <1>3, <1>4, <1>5, <1>6, <1>7, <1>8, <1>9, <1>10, <1>11, <1>12, <1>13, <1>14, <1>15
        DEF Next

\* So every input is of the sets that MCFormats names.
LEMMA InputAlways == Spec => []InputInv
  BY InputInit, InputStep, PTL DEF Spec
-----------------------------------------------------------------------------
(* BASIC reals. *)

\* Every word that the run takes, at any width of the mantissa, keeps its
\* leading bits when it is written as a BASIC real and read again.
THEOREM RealsAreKept == Spec => []RealsKeepLeading
<1>1. InputInv => RealsKeepLeading
  BY NumbersKeepLeading DEF InputInv, RealsKeepLeading
<1> QED BY <1>1, InputAlways, PTL

\* basicreal_to_u32 reads every word of the run as what it stands for.
THEOREM RealsAreDecoded == Spec => []RealsDecode
<1>1. InputInv => RealsDecode
  BY WordsDecodeWhole DEF InputInv, RealsDecode
<1> QED BY <1>1, InputAlways, PTL

-----------------------------------------------------------------------------
(* Sequences. *)

-----------------------------------------------------------------------------
(* The extended headers and the text of a PCBoard message. *)

\* Where the units of a message stand in its area.
LEMMA UnitsOf ==
  ASSUME NEW S, NEW headers \in Seq(S)
  PROVE  /\ Units(headers) \in Seq(S \cup {Filler})
         /\ Len(Units(headers)) = 9 * Len(headers)
         /\ \A k \in 1 .. Len(headers) : Units(headers)[9 * (k - 1) + 1] = headers[k]
<1> DEFINE n == Len(headers)
<1>1. n \in Nat /\ \A k \in 1 .. n : headers[k] \in S
  BY ElementOfSeq
<1>2. ASSUME NEW i \in 1 .. 9 * n, i % 9 = 1 PROVE i \div 9 + 1 \in 1 .. n
  BY <1>1, <1>2
<1> HIDE DEF n
<1>3. Units(headers) = [i \in 1 .. 9 * n |-> IF i % 9 = 1 THEN headers[i \div 9 + 1] ELSE Filler]
  BY DEF Units, ExtendedUnits, n
<1>4. Units(headers) \in [1 .. 9 * n -> S \cup {Filler}]
  BY <1>1, <1>2, <1>3
<1>5. 9 * n \in Nat
  BY <1>1
<1>6. Units(headers) \in Seq(S \cup {Filler})
  BY <1>4, <1>5, SeqDef
<1>7. Len(Units(headers)) = 9 * n
  BY <1>3, <1>5, <1>6, LenProperties
<1>8. ASSUME NEW k \in 1 .. n PROVE Units(headers)[9 * (k - 1) + 1] = headers[k]
  <2> DEFINE i == 9 * (k - 1) + 1
  <2>1. i \in 1 .. 9 * n /\ i % 9 = 1 /\ i \div 9 + 1 = k
    BY <1>1
  <2> HIDE DEF i
  <2>2. Units(headers)[i] = headers[k]
    BY <1>3, <2>1
  <2> QED BY <2>2 DEF i
<1> QED BY <1>6, <1>7, <1>8 DEF n

\* Blocks are filled.
LEMMA WholeBlocks ==
  ASSUME NEW m \in Nat
  PROVE  /\ (16 - (m % 16)) % 16 \in Nat
         /\ (m + ((16 - (m % 16)) % 16)) % 16 = 0
  OBVIOUS

\* So they can be counted.
LEMMA CountBlocks == \A m \in Nat : m % 16 = 0 => m \div 16 \in Nat /\ m = 16 * (m \div 16)
  OBVIOUS

\* Behind the extended headers nothing looks like one.
LEMMA HeadersCounted ==
  ASSUME NEW area, NEW n \in Nat, Len(area) \in Nat, 9 * n <= Len(area),
         \A k \in 1 .. n : IsExtended(area[9 * (k - 1) + 1]),
         9 * n < Len(area) => ~IsExtended(area[9 * n + 1])
  PROVE  NumHeaders(area) = n
<1> DEFINE Is(i) == /\ \A k \in 1 .. i : StartsHeader(area, k)
                    /\ ~StartsHeader(area, i + 1)
<1>1. \A k \in Nat : HeaderAt(k + 1) = 9 * k
  BY DEF HeaderAt, ExtendedUnits
<1>2. \A k \in 1 .. n : StartsHeader(area, k)
  BY DEF StartsHeader, HeaderAt, ExtendedUnits
<1>3. ~StartsHeader(area, n + 1)
  BY <1>1 DEF StartsHeader
<1>4. n \in 0 .. Len(area) /\ Is(n)
  BY <1>2, <1>3
<1>5. ASSUME NEW i \in 0 .. Len(area), Is(i) PROVE i = n
  <2>1. ~(i < n)
    BY <1>2, <1>5
  <2>2. ~(n < i)
    BY <1>3, <1>5
  <2> QED BY <2>1, <2>2
<1>6. NumHeaders(area) = CHOOSE i \in 0 .. Len(area) : Is(i)
  BY DEF NumHeaders
<1> HIDE DEF Is
<1> QED BY <1>4, <1>5, <1>6

\* A message with any number of extended headers, each with a function that
\* PCBoard knows, and any text is read as its headers and its text, wherever
\* the headers cross the blocks.
THEOREM BodiesAreLaidOut ==
  ASSUME NEW S, \A hd \in S : IsExtended(hd) /\ hd.function \in ExtendedFunctions,
         NEW T, \A unit \in T : ~IsExtended(unit),
         NEW headers \in Seq(S), NEW text \in Seq(T)
  PROVE  BodyIsLaidOut(headers, text)
<1> DEFINE n == Len(headers)
           units == Units(headers)
           used == units \o text
           gap == (16 - (Len(used) % 16)) % 16
           fill == [i \in 1 .. gap |-> [text |-> "fill"]]
           area == used \o fill
           U == S \cup {Filler} \cup T \cup {[text |-> "fill"]}
<1>1. /\ n \in Nat /\ units \in Seq(U) /\ Len(units) = 9 * n /\ Len(text) \in Nat
      /\ \A k \in 1 .. n : units[9 * (k - 1) + 1] = headers[k] /\ headers[k] \in S
  <2>1. S \cup {Filler} \subseteq U
    OBVIOUS
  <2>2. Units(headers) \in Seq(U)
    BY <2>1, UnitsOf, SeqMonotonic
  <2> QED BY <2>2, UnitsOf, ElementOfSeq, SMTT(30)
<1>2. text \in Seq(U)
  <2>1. T \subseteq U
    OBVIOUS
  <2> HIDE DEF U
  <2> QED BY <2>1, SeqMonotonic
<1> HIDE DEF units, n
<1>3. /\ used \in Seq(U) /\ Len(used) = 9 * n + Len(text) /\ Len(used) \in Nat
      /\ \A i \in 1 .. 9 * n : used[i] = units[i]
      /\ \A i \in 1 .. Len(text) : used[9 * n + i] = text[i]
  <2> HIDE DEF U
  <2>1. /\ used \in Seq(U) /\ Len(used) = Len(units) + Len(text)
        /\ \A i \in 1 .. Len(units) : used[i] = units[i]
        /\ \A i \in 1 .. Len(text) : used[Len(units) + i] = text[i]
    <3>1. units \in Seq(U) /\ text \in Seq(U)
      BY <1>1, <1>2
    <3> QED BY <3>1, Joined
  <2> HIDE DEF used
  <2> QED BY <1>1, <2>1
<1> HIDE DEF used
<1>4. gap \in Nat /\ (Len(used) + gap) % 16 = 0
  BY <1>3, WholeBlocks
<1> HIDE DEF gap
<1>5. /\ fill \in Seq(U) /\ Len(fill) = gap
      /\ \A i \in 1 .. gap : fill[i] = [text |-> "fill"]
  <2>1. fill \in [1 .. gap -> U]
    OBVIOUS
  <2>2. fill \in Seq(U)
    BY <1>4, <2>1, SeqDef
  <2>3. DOMAIN fill = 1 .. gap
    OBVIOUS
  <2>4. Len(fill) = gap
    BY <1>4, <2>2, <2>3, LenProperties
  <2> QED BY <2>2, <2>4
<1> HIDE DEF fill
<1>6. /\ area \in Seq(U) /\ Len(area) = Len(used) + gap /\ Len(area) \in Nat
      /\ \A i \in 1 .. Len(used) : area[i] = used[i]
      /\ \A i \in 1 .. gap : area[Len(used) + i] = fill[i]
  <2> HIDE DEF U
  <2>1. /\ area \in Seq(U) /\ Len(area) = Len(used) + Len(fill)
        /\ \A i \in 1 .. Len(used) : area[i] = used[i]
        /\ \A i \in 1 .. Len(fill) : area[Len(used) + i] = fill[i]
    <3>1. used \in Seq(U) /\ fill \in Seq(U)
      BY <1>3, <1>5
    <3> QED BY <3>1, Joined
  <2> HIDE DEF area
  <2> QED BY <1>3, <1>4, <1>5, <2>1
<1>7. area = Padded(Units(headers) \o text)
  BY DEF area, fill, gap, used, units, Padded, BlockUnits
<1> HIDE DEF area
<1>8. Len(area) = AreaUnits(Len(area) \div BlockUnits + 1)
  <2> DEFINE q == Len(area) \div 16
  <2>1. q \in Nat /\ Len(area) = 16 * q
    <3>1. Len(area) \in Nat /\ Len(area) % 16 = 0
      BY <1>4, <1>6
    <3> QED BY <3>1, CountBlocks
  <2>2. q + 1 # 0 /\ q + 1 - 1 = q
    BY <2>1
  <2> HIDE DEF q
  <2>3. AreaUnits(q + 1) = 16 * q
    BY <2>1, <2>2 DEF AreaUnits, BlockUnits
  <2> QED BY <2>1, <2>3 DEF q, BlockUnits
<1>9. /\ 9 * n <= Len(area)
      /\ \A i \in 1 .. 9 * n : area[i] = units[i]
      /\ \A k \in 1 .. n : area[9 * (k - 1) + 1] = headers[k]
  <2>1. 9 * n <= Len(area) /\ \A i \in 1 .. 9 * n : area[i] = units[i]
    BY <1>1, <1>3, <1>4, <1>6
  <2>2. \A k \in 1 .. n : 9 * (k - 1) + 1 \in 1 .. 9 * n
    BY <1>1
  <2> QED BY <1>1, <2>1, <2>2
<1>10. 9 * n < Len(area) => ~IsExtended(area[9 * n + 1])
  <2>1. CASE Len(text) > 0
    <3>1. 1 \in 1 .. Len(text) /\ 9 * n + 1 \in 1 .. Len(used)
      BY <1>1, <1>3, <2>1
    <3>2. area[9 * n + 1] = used[9 * n + 1] /\ used[9 * n + 1] = text[1]
      BY <1>3, <1>6, <3>1
    <3>3. text[1] \in T
      BY <3>1, ElementOfSeq
    <3> QED BY <3>2, <3>3
  <2>2. CASE Len(text) = 0
    <3> SUFFICES ASSUME 9 * n < Len(area) PROVE ~IsExtended(area[9 * n + 1])
      OBVIOUS
    <3>1. Len(used) = 9 * n /\ 1 \in 1 .. gap
      BY <1>1, <1>3, <1>4, <1>6, <2>2
    <3>2. area[9 * n + 1] = [text |-> "fill"]
      BY <1>5, <1>6, <3>1
    <3> QED BY <3>2 DEF IsExtended
  <2> QED BY <1>1, <2>1, <2>2
<1>11. NumHeaders(area) = n
  BY <1>1, <1>6, <1>9, <1>10, HeadersCounted
<1>12. ~\E k \in 1 .. n : \/ area[HeaderAt(k) + 1].function \notin ExtendedFunctions
                          \/ HeaderAt(k) + ExtendedUnits > Len(area)
  <2> SUFFICES ASSUME NEW k \in 1 .. n
               PROVE  /\ area[HeaderAt(k) + 1].function \in ExtendedFunctions
                      /\ HeaderAt(k) + ExtendedUnits <= Len(area)
    BY <1>6, <1>1 DEF HeaderAt, ExtendedUnits
  <2>1. area[HeaderAt(k) + 1] = headers[k] /\ headers[k] \in S
    BY <1>1, <1>9 DEF HeaderAt, ExtendedUnits
  <2>2. HeaderAt(k) + ExtendedUnits <= Len(area)
    BY <1>1, <1>6, <1>9 DEF HeaderAt, ExtendedUnits
  <2> QED BY <2>1, <2>2
<1> DEFINE rest == SubSeq(area, HeaderAt(n + 1) + 1, Len(area))
           found == [k \in 1 .. n |-> area[HeaderAt(k) + 1]]
<1>13. ReadBody(area) = Body(found, rest)
  BY <1>11, <1>12 DEF ReadBody
<1>14. found = headers
  <2>1. \A k \in 1 .. n : area[HeaderAt(k) + 1] = headers[k]
    BY <1>9 DEF HeaderAt, ExtendedUnits
  <2>2. headers = [k \in 1 .. n |-> headers[k]]
    BY DEF n
  <2> QED BY <2>1, <2>2
<1>15. units \o rest = area
  <2> DEFINE m == Len(area) - 9 * n
  <2>1. m \in Nat /\ HeaderAt(n + 1) = 9 * n
    BY <1>1, <1>6, <1>9 DEF HeaderAt, ExtendedUnits
  <2>2. /\ rest \in Seq(U) /\ Len(rest) = m
        /\ \A j \in 1 .. m : rest[j] = area[9 * n + j]
    <3> HIDE DEF U
    <3>1. \A i \in 9 * n + 1 .. Len(area) : area[i] \in U
      BY <1>1, <1>6, ElementOfSeq
    <3>2. rest = SubSeq(area, 9 * n + 1, Len(area))
      BY <2>1
    <3> HIDE DEF rest
    <3> DEFINE a == 9 * n + 1
               b == Len(area)
    <3>3. a \in Int /\ b \in Int
      BY <1>1, <1>6
    <3>4. /\ SubSeq(area, a, b) \in Seq(U)
          /\ Len(SubSeq(area, a, b)) = IF a <= b THEN b - a + 1 ELSE 0
          /\ \A i \in 1 .. b - a + 1 : SubSeq(area, a, b)[i] = area[a + i - 1]
      BY <3>1, <3>3, SubSeqProperties
    <3> HIDE DEF a, b
    <3>5. rest = SubSeq(area, a, b)
      BY <3>2 DEF a, b
    <3>6. rest \in Seq(U) /\ Len(rest) = (IF a <= b THEN b - a + 1 ELSE 0)
          /\ \A i \in 1 .. b - a + 1 : rest[i] = area[a + i - 1]
      BY <3>4, <3>5
    <3>7. a = 9 * n + 1 /\ b = Len(area) /\ n \in Nat /\ b - a + 1 = m
      BY <1>1, <1>6 DEF a, b
    <3>8. \A j \in 1 .. m : a + j - 1 = 9 * n + j
      BY <2>1, <3>7
    <3>9. Len(rest) = m
      <4>1. a <= b => Len(rest) = m
        BY <3>6, <3>7
      <4>2. ~(a <= b) => m = 0
        BY <1>1, <1>6, <2>1, <3>7
      <4> QED BY <3>6, <4>1, <4>2
    <3> HIDE DEF m
    <3> QED BY <3>6, <3>7, <3>8, <3>9
  <2> HIDE DEF rest
  <2>3. /\ units \o rest \in Seq(U) /\ Len(units \o rest) = 9 * n + m
        /\ \A i \in 1 .. 9 * n : (units \o rest)[i] = units[i]
        /\ \A j \in 1 .. m : (units \o rest)[9 * n + j] = rest[j]
    <3> HIDE DEF m, U
    <3> DEFINE both == units \o rest
    <3>1. /\ both \in Seq(U) /\ Len(both) = Len(units) + Len(rest)
          /\ \A i \in 1 .. Len(units) : both[i] = units[i]
          /\ \A i \in 1 .. Len(rest) : both[Len(units) + i] = rest[i]
      <4>1. units \in Seq(U) /\ rest \in Seq(U)
        BY <1>1, <2>2
      <4> QED BY <4>1, Joined
    <3> HIDE DEF both
    <3>2. /\ both \in Seq(U) /\ Len(both) = 9 * n + m
          /\ \A i \in 1 .. 9 * n : both[i] = units[i]
          /\ \A j \in 1 .. m : both[9 * n + j] = rest[j]
      BY <1>1, <2>2, <3>1
    <3> QED BY <3>2 DEF both
  <2> DEFINE both == units \o rest
  <2>4. Len(both) = Len(area)
    BY <1>1, <1>6, <2>3
  <2>5. ASSUME NEW i \in 1 .. Len(area) PROVE both[i] = area[i]
    <3>1. CASE i <= 9 * n
      BY <1>1, <1>9, <2>3, <3>1
    <3>2. CASE i > 9 * n
      <4> DEFINE j == i - 9 * n
      <4>1. j \in 1 .. m /\ i = 9 * n + j
        BY <1>1, <1>6, <3>2
      <4> HIDE DEF j, m, both
      <4>2. both[9 * n + j] = area[9 * n + j]
        BY <2>2, <2>3, <4>1 DEF both
      <4>3. both[i] = area[i]
        BY <4>1, <4>2
      <4> QED BY <4>3 DEF both
    <3> HIDE DEF both, m
    <3> QED BY <1>1, <1>6, <3>1, <3>2
  <2> HIDE DEF both
  <2>6. both = area
    BY <1>6, <2>3, <2>4, <2>5, SeqEqual DEF both
  <2> QED BY <2>6 DEF both
<1> HIDE DEF found, rest
<1> QED
  BY <1>7, <1>8, <1>13, <1>14, <1>15 DEF BodyIsLaidOut, Body, units

\* PCBoardMessage::read takes every layout of the run as it was laid out.
THEOREM BodiesAreRead == Spec => []BodiesRead
<1>1. InputInv => BodiesRead
  <2> SUFFICES ASSUME InputInv, input.kind = "body"
               PROVE  BodyIsLaidOut(input.headers, input.text)
    BY DEF BodiesRead
  <2> DEFINE S == {ExtendedHeader("To", <<1>>), ExtendedHeader("Attach", <<2>>)}
             T == {[text |-> "words"]}
  <2>1. input.headers \in BoundedSeq(S, 4) /\ \E n \in Nat : input.text \in [1 .. n -> T]
    <3>1. input \in Layouts
      BY DEF InputInv
    <3>2. PICK hs \in BoundedSeq(S, 4), n \in {0, 1, 6, 7, 8, 16} :
            input = Layout(hs, n)
      BY <3>1 DEF Layouts
    <3> QED BY <3>2 DEF Layout
  <2>2. \A hd \in S : IsExtended(hd) /\ hd.function \in ExtendedFunctions
    BY DEF ExtendedHeader, IsExtended, ExtendedFunctions
  <2>3. \A unit \in T : ~IsExtended(unit)
    BY DEF IsExtended
  <2> HIDE DEF S, T
  <2>4. input.headers \in Seq(S)
    BY <2>1, BoundedIsSeq
  <2>5. input.text \in Seq(T)
    BY <2>1, SeqDef
  <2> QED BY <2>2, <2>3, <2>4, <2>5, BodiesAreLaidOut
<1> QED BY <1>1, InputAlways, PTL
-----------------------------------------------------------------------------
(* The index of a conference and the messages it leads to. *)

\* A number with no more bits than a BASIC real has is exact, but for the one
\* at which the loops of u32_to_basicreal meet.
LEMMA RealExact ==
  ASSUME NEW n \in Nat, n < 2 * Hidden, n # Hidden - 1
  PROVE  BasicrealToU32(U32ToBasicreal(n)) = n
<1>1. Hidden \in Nat \ {0} /\ MantBits \in Nat \ {0}
  BY Sizes32
<1>2. CASE n < Hidden - 1
  BY <1>2, SmallExact
<1>3. CASE n >= Hidden
  <2> DEFINE w == U32ToBasicreal(n)
  <2>1. n \in Words /\ Signed(n) = n /\ Magnitude(n) = n /\ n # 0
    BY <1>1, <1>3, Sizes32 DEF Words, Signed, Magnitude
  <2>2. n \div 2 ^ 0 = n /\ IsExcess(n, 0)
    <3>1. 2 ^ 0 = 1 /\ n \div 1 = n
      OBVIOUS
    <3> QED BY <3>1 DEF IsExcess
  <2>3. Normal(Magnitude(n)) = <<n, 0>>
    BY <1>1, <1>3, <2>1, <2>2, ExcessChosen
  <2>4. /\ Exponent(w) = ExpOfOne + 0 /\ Value(w) = n
        /\ ~IsNegative(w)
    BY <1>1, <1>3, <2>1, <2>3, Encoded
  <2>5. Exponent(w) - ExpOfOne = 0 /\ Exponent(w) \notin {0, 128}
    BY <1>1, <2>4 DEF ExpOfOne
  <2>6. WrappingShl(n, 0) = n * 2 ^ 0 /\ n * 2 ^ 0 = n
    <3>1. 2 ^ 0 = 1 /\ n * 1 = n
      OBVIOUS
    <3>2. n * 2 ^ 0 = n
      BY <3>1, Zenon
    <3>3. 0 \in 0 .. MantBits + 8 /\ n * 2 ^ 0 < 256 * Hidden
      BY <1>1, <3>2
    <3> QED BY <3>2, <3>3, Shl
  <2>7. Shifted(w) = n
    BY <2>4, <2>5, <2>6 DEF Shifted
  <2> HIDE DEF w
  <2>8. BasicrealToU32(w) = n
    BY <1>1, <2>4, <2>5, <2>7, Decoded
  <2> QED BY <2>8 DEF w
<1> QED BY <1>1, <1>2, <1>3

\* The block of a message, counted from 0 or from 1.
LEMMA NextBlock ==
  \A h \in Nat, b \in Nat \ {0} :
    b + 1 < 2 * h /\ b # h - 1 /\ b # h - 2 =>
      \A c \in {0, 1} : b + c \in Nat \ {0} /\ b + c < 2 * h /\ b + c # h - 1
  OBVIOUS

\* The mail of a conference is that of its index, in the order of the index and
\* however often a message is in it, wherever the messages of the packet
\* begin, as long as their blocks have numbers that a BASIC real holds.
THEOREM MailIsThatOfTheIndex ==
  ASSUME NEW starts \in Seq(Nat \ {0}),
         \A i, j \in DOMAIN starts : starts[i] = starts[j] => i = j,
         \A i \in DOMAIN starts : /\ starts[i] + 1 < 2 * Hidden
                                  /\ starts[i] \notin {Hidden - 1, Hidden - 2},
         NEW conference \in Seq(DOMAIN starts)
  PROVE  ConferenceMailIs(starts, conference)
<1> SUFFICES ASSUME NEW bug \in BOOLEAN
             PROVE  LET words == [i \in DOMAIN conference |->
                                    U32ToBasicreal(starts[conference[i]] + (IF bug THEN 0 ELSE 1))]
                    IN ReadConferenceMail(MessagesAt(starts), words, 0, bug)
                         = [ok |-> TRUE, mail |-> conference]
  BY DEF ConferenceMailIs
<1> DEFINE start(i) == starts[conference[i]]
           block(i) == start(i) + (IF bug THEN 0 ELSE 1)
           words == [i \in DOMAIN conference |-> U32ToBasicreal(block(i))]
           index == ConvertQwkIndex(words, 0)
<1>1. Hidden \in Nat \ {0}
  BY Sizes32
<1>2. ASSUME NEW i \in DOMAIN conference
      PROVE  /\ conference[i] \in DOMAIN starts /\ start(i) \in Nat \ {0}
             /\ BasicrealToU32(U32ToBasicreal(block(i))) = block(i)
             /\ block(i) \in Nat \ {0} /\ BlockAt(block(i), bug) = start(i)
  <2>1. conference[i] \in DOMAIN starts /\ start(i) \in Nat \ {0}
    BY ElementOfSeq
  <2>2. start(i) + 1 < 2 * Hidden /\ start(i) \notin {Hidden - 1, Hidden - 2}
    BY <2>1
  <2> HIDE DEF start
  <2>3. block(i) \in Nat \ {0} /\ block(i) < 2 * Hidden /\ block(i) # Hidden - 1
    <3> DEFINE b == start(i)
    <3>1. b \in Nat \ {0} /\ b + 1 < 2 * Hidden /\ b # Hidden - 1 /\ b # Hidden - 2
      BY <2>1, <2>2
    <3> HIDE DEF b
    <3>2. \A c \in {0, 1} : b + c \in Nat \ {0} /\ b + c < 2 * Hidden /\ b + c # Hidden - 1
      BY <1>1, <3>1, NextBlock
    <3> QED BY <3>2 DEF b
  <2>4. BlockAt(block(i), bug) = start(i)
    BY <2>1 DEF BlockAt
  <2> HIDE DEF block
  <2> QED BY <2>1, <2>3, <2>4, RealExact
<1>3. index = [ok |-> TRUE, blocks |-> [i \in DOMAIN conference |-> block(i)]]
  <2>1. DOMAIN words = DOMAIN conference
    OBVIOUS
  <2>2. \A i \in DOMAIN conference : BasicrealToU32(words[i]) = block(i)
    BY <1>2
  <2> HIDE DEF words, block
  <2> QED BY <2>1, <2>2 DEF ConvertQwkIndex
<1> DEFINE at(i) == BlockAt(index.blocks[i], bug)
<1>4. \A i \in DOMAIN conference : index.blocks[i] # 0 /\ at(i) = start(i)
  <2> TAKE i \in DOMAIN conference
  <2>1. index.blocks[i] = block(i)
    <3> HIDE DEF index, block
    <3> QED BY <1>3
  <2> HIDE DEF index, block, start
  <2> QED BY <1>2, <2>1
<1>5. index.ok /\ DOMAIN words = DOMAIN conference
  <2> HIDE DEF index, block
  <2> QED BY <1>3
<1>6. ASSUME NEW i \in DOMAIN conference
      PROVE  start(i) \in DOMAIN MessagesAt(starts) /\ MessagesAt(starts)[start(i)] = conference[i]
  <2>1. conference[i] \in DOMAIN starts
    BY <1>2
  <2> QED BY <2>1 DEF MessagesAt
<1> HIDE DEF index, words, start
<1>7. ~\E i \in DOMAIN words : index.blocks[i] = 0 \/ at(i) \notin DOMAIN MessagesAt(starts)
  BY <1>4, <1>5, <1>6
<1>8. ReadConferenceMail(MessagesAt(starts), words, 0, bug)
        = [ok |-> TRUE, mail |-> [i \in DOMAIN words |-> MessagesAt(starts)[at(i)]]]
  BY <1>5, <1>7 DEF ReadConferenceMail, index
<1>9. [i \in DOMAIN words |-> MessagesAt(starts)[at(i)]] = conference
  <2>1. \A i \in DOMAIN conference : MessagesAt(starts)[at(i)] = conference[i]
    BY <1>4, <1>6
  <2>2. conference = [i \in DOMAIN conference |-> conference[i]]
    OBVIOUS
  <2> QED BY <1>5, <2>1, <2>2
<1> QED BY <1>8, <1>9 DEF words, start

\* read_conference_mail gives the mail of every packet of the run, when a
\* BASIC real holds the numbers of its blocks.
THEOREM ConferencesAreRead == ASSUME Hidden > 11 PROVE Spec => []ConferencesRead
<1>1. InputInv => ConferencesRead
  <2> SUFFICES ASSUME InputInv, input.kind = "mail"
               PROVE  ConferenceMailIs(input.starts, input.conference)
    BY DEF ConferencesRead
  <2>1. PICK n \in 1 .. 4, m \in 1 .. 4 : input.starts = <<1, 1 + n, 1 + n + m>>
    BY DEF InputInv, Starts
  <2> DEFINE starts == <<1, 1 + n, 1 + n + m>>
  <2>2. starts \in Seq(Nat \ {0}) /\ DOMAIN starts = 1 .. 3
    OBVIOUS
  <2>3. \A i, j \in 1 .. 3 : starts[i] = starts[j] => i = j
    OBVIOUS
  <2>4. \A i \in 1 .. 3 : starts[i] \in 1 .. 9
    OBVIOUS
  <2>5. \A i \in 1 .. 3 : starts[i] + 1 < 2 * Hidden /\ starts[i] \notin {Hidden - 1, Hidden - 2}
    <3> HIDE DEF starts
    <3> QED BY <2>4, Sizes32
  <2>6. input.conference \in Seq(1 .. 3)
    BY BoundedIsSeq DEF InputInv
  <2> HIDE DEF starts
  <2>7. ConferenceMailIs(starts, input.conference)
    BY <2>2, <2>3, <2>5, <2>6, MailIsThatOfTheIndex
  <2> QED BY <2>1, <2>7 DEF starts
<1> QED BY <1>1, InputAlways, PTL
-----------------------------------------------------------------------------
(* control.dat. *)

ControlDat(Lines) ==
  [texts : [1 .. 8 -> Lines], zero_line : Lines \cup {NumberLine(k) : k \in Nat}, message_count : Nat,
   conferences : Seq([number : Nat, name : Lines]), screens : [1 .. 3 -> Lines]]

\* Of two lines each, those of the c-th are an odd one and the even one after it.
LEMMA TwoEach ==
  ASSUME NEW n \in Nat, NEW c \in 1 .. n
  PROVE  /\ 2 * c - 1 \in 1 .. 2 * n /\ (2 * c - 1) % 2 = 1 /\ ((2 * c - 1) + 1) \div 2 = c
         /\ 2 * c \in 1 .. 2 * n /\ (2 * c) % 2 = 0 /\ (2 * c + 1) \div 2 = c
<1>1. 2 * c - 1 \in 1 .. 2 * n /\ 2 * c \in 1 .. 2 * n
  OBVIOUS
<1>2. (2 * c - 1) % 2 = 1 /\ (2 * c) % 2 = 0
  OBVIOUS
<1>3. ((2 * c - 1) + 1) \div 2 = c /\ (2 * c + 1) \div 2 = c
  OBVIOUS
<1> QED BY <1>1, <1>2, <1>3

\* The two lines of each conference.
LEMMA ConferenceLinesOf ==
  ASSUME NEW Lines, NEW cs \in Seq([number : Nat, name : Lines])
  PROVE  /\ ConferenceLines(cs) \in Seq(Lines \cup {NumberLine(k) : k \in Nat})
         /\ Len(ConferenceLines(cs)) = 2 * Len(cs)
         /\ \A c \in 1 .. Len(cs) :
              /\ ConferenceLines(cs)[2 * c - 1] = NumberLine(cs[c].number)
              /\ ConferenceLines(cs)[2 * c] = cs[c].name
<1> DEFINE n == Len(cs)
           L == Lines \cup {NumberLine(k) : k \in Nat}
           rows == ConferenceLines(cs)
<1>1. n \in Nat /\ \A c \in 1 .. n : cs[c].number \in Nat /\ cs[c].name \in Lines
  <2>1. \A c \in 1 .. n : cs[c] \in [number : Nat, name : Lines]
    BY ElementOfSeq
  <2> QED BY <2>1
<1> HIDE DEF n
<1>2. \A i \in 1 .. 2 * n : (i + 1) \div 2 \in 1 .. n
  BY <1>1
<1>3. rows = [i \in 1 .. 2 * n |->
                IF i % 2 = 1 THEN NumberLine(cs[(i + 1) \div 2].number)
                             ELSE cs[(i + 1) \div 2].name]
  BY DEF ConferenceLines, n
<1>4. rows \in [1 .. 2 * n -> L]
  <2>1. ASSUME NEW i \in 1 .. 2 * n
        PROVE  (IF i % 2 = 1 THEN NumberLine(cs[(i + 1) \div 2].number)
                             ELSE cs[(i + 1) \div 2].name) \in L
    <3> DEFINE c == (i + 1) \div 2
    <3>1. c \in 1 .. n
      BY <1>2
    <3> HIDE DEF c
    <3>2. NumberLine(cs[c].number) \in L /\ cs[c].name \in L
      BY <1>1, <3>1
    <3> QED BY <3>2 DEF c
  <2> HIDE DEF rows, L
  <2> QED BY <1>3, <2>1
<1> HIDE DEF rows
<1>5. rows \in Seq(L) /\ Len(rows) = 2 * n
  <2>1. 2 * n \in Nat
    BY <1>1
  <2> HIDE DEF L
  <2> QED BY <1>4, <2>1, RowIsSeq
<1>6. ASSUME NEW c \in 1 .. n
      PROVE  rows[2 * c - 1] = NumberLine(cs[c].number) /\ rows[2 * c] = cs[c].name
  <2>1. /\ 2 * c - 1 \in 1 .. 2 * n /\ (2 * c - 1) % 2 = 1 /\ ((2 * c - 1) + 1) \div 2 = c
        /\ 2 * c \in 1 .. 2 * n /\ (2 * c) % 2 = 0 /\ (2 * c + 1) \div 2 = c
    BY <1>1, TwoEach
  <2> DEFINE a == 2 * c - 1
             b == 2 * c
  <2>2. /\ a \in 1 .. 2 * n /\ a % 2 = 1 /\ (a + 1) \div 2 = c
        /\ b \in 1 .. 2 * n /\ b % 2 = 0 /\ (b + 1) \div 2 = c
    BY <2>1
  <2> HIDE DEF a, b
  <2>3. rows[a] = NumberLine(cs[c].number) /\ rows[b] = cs[c].name
    BY <1>3, <2>2
  <2> QED BY <2>3 DEF a, b
<1> QED BY <1>5, <1>6 DEF rows, n

\* control.dat is read as it was written but for its zero_line, which is 0
\* whatever it was, with any number of conferences that its u16 can count and
\* whatever the texts are.
THEOREM ControlsAreKept ==
  ASSUME NEW Lines, NEW d \in ControlDat(Lines), Len(d.conferences) < ConferenceCounts
  PROVE  ControlRoundTrip(d)
<1> DEFINE n == Len(d.conferences)
           L == Lines \cup {NumberLine(k) : k \in Nat}
           counts == <<NumberLine(0), NumberLine(d.message_count), NumberLine(n % ConferenceCounts)>>
           cl == ConferenceLines(d.conferences)
           s1 == d.texts \o counts
           s2 == s1 \o cl
           lines == s2 \o d.screens
<1>1. /\ d.texts \in [1 .. 8 -> Lines] /\ d.message_count \in Nat
      /\ d.conferences \in Seq([number : Nat, name : Lines]) /\ d.screens \in [1 .. 3 -> Lines]
      /\ n \in Nat /\ ConferenceCounts \in Nat \ {0}
  BY PacketAssumption DEF ControlDat
<1>2. n % ConferenceCounts = n
  <2>1. \A a \in Nat, b \in Nat \ {0} : a < b => a % b = a
    OBVIOUS
  <2>2. n < ConferenceCounts
    OBVIOUS
  <2> HIDE DEF n
  <2> QED BY <1>1, <2>1, <2>2
<1>3. /\ d.texts \in Seq(L) /\ Len(d.texts) = 8
      /\ d.screens \in Seq(L) /\ Len(d.screens) = 3
  <2>1. d.texts \in [1 .. 8 -> L] /\ d.screens \in [1 .. 3 -> L]
    BY <1>1
  <2> HIDE DEF L
  <2>2. d.texts \in Seq(L) /\ Len(d.texts) = 8
    <3>1. d.texts \in [1 .. 8 -> L] /\ 8 \in Nat
      BY <2>1
    <3> QED BY <3>1, RowIsSeq
  <2>3. d.screens \in Seq(L) /\ Len(d.screens) = 3
    BY <2>1, RowIsSeq
  <2> QED BY <2>2, <2>3
<1>4. cl \in Seq(L) /\ Len(cl) = 2 * n
  BY <1>1, ConferenceLinesOf
<1>5. \A c \in 1 .. n : /\ cl[2 * c - 1] = NumberLine(d.conferences[c].number)
                        /\ cl[2 * c] = d.conferences[c].name
  BY <1>1, ConferenceLinesOf
<1>6. /\ counts \in Seq(L) /\ Len(counts) = 3
      /\ counts[1] = NumberLine(0) /\ counts[2] = NumberLine(d.message_count)
      /\ counts[3] = NumberLine(n)
  <2>1. NumberLine(0) \in L /\ NumberLine(d.message_count) \in L /\ NumberLine(n) \in L
    BY <1>1
  <2> HIDE DEF L
  <2> QED BY <1>2, <2>1
<1> HIDE DEF L, counts, cl
<1>7. /\ s1 \in Seq(L) /\ Len(s1) = 11
      /\ \A i \in 1 .. 8 : s1[i] = d.texts[i]
      /\ s1[9] = counts[1] /\ s1[10] = counts[2] /\ s1[11] = counts[3]
  <2>1. /\ s1 \in Seq(L) /\ Len(s1) = Len(d.texts) + Len(counts)
        /\ \A i \in 1 .. Len(d.texts) : s1[i] = d.texts[i]
        /\ \A i \in 1 .. Len(counts) : s1[Len(d.texts) + i] = counts[i]
    <3>1. d.texts \in Seq(L) /\ counts \in Seq(L)
      BY <1>3, <1>6
    <3> QED BY <3>1, Joined
  <2> HIDE DEF s1
  <2>2. s1[8 + 1] = counts[1] /\ s1[8 + 2] = counts[2] /\ s1[8 + 3] = counts[3]
    BY <1>3, <1>6, <2>1
  <2> QED BY <1>3, <1>6, <2>1, <2>2
<1> HIDE DEF s1
<1>8. /\ s2 \in Seq(L) /\ Len(s2) = 11 + 2 * n
      /\ \A i \in 1 .. 11 : s2[i] = s1[i]
      /\ \A i \in 1 .. 2 * n : s2[11 + i] = cl[i]
  <2>1. /\ s2 \in Seq(L) /\ Len(s2) = Len(s1) + Len(cl)
        /\ \A i \in 1 .. Len(s1) : s2[i] = s1[i]
        /\ \A i \in 1 .. Len(cl) : s2[Len(s1) + i] = cl[i]
    <3>1. s1 \in Seq(L) /\ cl \in Seq(L)
      BY <1>4, <1>7
    <3> QED BY <3>1, Joined
  <2> HIDE DEF s2
  <2> QED BY <1>4, <1>7, <2>1
<1> HIDE DEF s2
<1>9. /\ lines \in Seq(L) /\ Len(lines) = 14 + 2 * n
      /\ \A i \in 1 .. 11 + 2 * n : lines[i] = s2[i]
      /\ \A i \in 1 .. 3 : lines[11 + 2 * n + i] = d.screens[i]
  <2>1. /\ lines \in Seq(L) /\ Len(lines) = Len(s2) + Len(d.screens)
        /\ \A i \in 1 .. Len(s2) : lines[i] = s2[i]
        /\ \A i \in 1 .. Len(d.screens) : lines[Len(s2) + i] = d.screens[i]
    <3>1. s2 \in Seq(L) /\ d.screens \in Seq(L)
      BY <1>3, <1>8
    <3> QED BY <3>1, Joined
  <2> HIDE DEF lines
  <2> QED BY <1>1, <1>3, <1>8, <2>1
<1>10. lines = WriteControl(d)
  BY DEF lines, s2, s1, counts, cl, WriteControl
<1> HIDE DEF lines
<1>11. \A i \in 1 .. 14 + 2 * n : LineAt(lines, i) = lines[i]
  BY <1>1, <1>9 DEF LineAt
<1>12. /\ \A i \in 1 .. 8 : lines[i] = d.texts[i]
       /\ lines[9] = NumberLine(0) /\ lines[10] = NumberLine(d.message_count)
       /\ lines[11] = NumberLine(n)
  <2>1. \A i \in 1 .. 11 : lines[i] = s1[i]
    <3> TAKE i \in 1 .. 11
    <3>1. i \in 1 .. 11 + 2 * n
      BY <1>1
    <3> QED BY <1>8, <1>9, <3>1
  <2> QED BY <1>6, <1>7, <2>1
<1>13. ASSUME NEW c \in 1 .. n
       PROVE  /\ ConferenceLine(c) \in 1 .. 14 + 2 * n /\ ConferenceLine(c) + 1 \in 1 .. 14 + 2 * n
              /\ lines[ConferenceLine(c)] = NumberLine(d.conferences[c].number)
              /\ lines[ConferenceLine(c) + 1] = d.conferences[c].name
  <2> DEFINE a == 2 * c - 1
             b == 2 * c
  <2>1. /\ a \in 1 .. 2 * n /\ b \in 1 .. 2 * n
        /\ ConferenceLine(c) = 11 + a /\ ConferenceLine(c) + 1 = 11 + b
    BY <1>1 DEF ConferenceLine
  <2>2. cl[a] = NumberLine(d.conferences[c].number) /\ cl[b] = d.conferences[c].name
    BY <1>5
  <2> HIDE DEF a, b
  <2>3. lines[11 + a] = cl[a] /\ lines[11 + b] = cl[b]
    <3>1. 11 + a \in 1 .. 11 + 2 * n /\ 11 + b \in 1 .. 11 + 2 * n
      BY <1>1, <2>1
    <3>2. lines[11 + a] = s2[11 + a] /\ lines[11 + b] = s2[11 + b]
      BY <1>9, <3>1
    <3> QED BY <1>8, <2>1, <3>2
  <2>4. 11 + a \in 1 .. 14 + 2 * n /\ 11 + b \in 1 .. 14 + 2 * n
    BY <1>1, <2>1
  <2> QED BY <2>1, <2>2, <2>3, <2>4
<1>14. \A k : IsNumberLine(NumberLine(k)) /\ NumberLine(k).number = k
  BY DEF IsNumberLine, NumberLine
<1> DEFINE r == [ok |-> TRUE, texts |-> [i \in 1 .. 8 |-> LineAt(lines, i)],
                 zero_line |-> LineAt(lines, 9), message_count |-> lines[10].number,
                 conferences |-> [c \in 1 .. n |-> [number |-> lines[ConferenceLine(c)].number,
                                                    name |-> LineAt(lines, ConferenceLine(c) + 1)]],
                 screens |-> [i \in 1 .. 3 |-> LineAt(lines, 11 + 2 * n + i)]]
<1>15. ReadControl(lines) = r
  <2>1. LineAt(lines, 11) = NumberLine(n) /\ LineAt(lines, 10) = NumberLine(d.message_count)
    BY <1>1, <1>11, <1>12
  <2>2. LineAt(lines, 11).number = n /\ IsNumberLine(LineAt(lines, 11))
        /\ IsNumberLine(LineAt(lines, 10))
    BY <1>14, <2>1
  <2>3. ~\E c \in 1 .. n : ~IsNumberLine(LineAt(lines, ConferenceLine(c)))
    <3> SUFFICES ASSUME NEW c \in 1 .. n PROVE IsNumberLine(LineAt(lines, ConferenceLine(c)))
      OBVIOUS
    <3>1. LineAt(lines, ConferenceLine(c)) = NumberLine(d.conferences[c].number)
      BY <1>11, <1>13
    <3> QED BY <1>14, <3>1
  <2>4. ~(n >= ConferenceCounts)
    BY <1>1
  <2> HIDE DEF n
  <2> QED BY <2>2, <2>3, <2>4 DEF ReadControl
<1>16. r.texts = d.texts
  <2>1. \A i \in 1 .. 8 : LineAt(lines, i) = d.texts[i]
    <3> TAKE i \in 1 .. 8
    <3>1. i \in 1 .. 14 + 2 * n
      BY <1>1
    <3>2. LineAt(lines, i) = lines[i]
      BY <1>11, <3>1
    <3> QED BY <1>12, <3>2
  <2> QED BY <1>1, <2>1
<1>17. r.message_count = d.message_count /\ r.zero_line = NumberLine(0)
  BY <1>1, <1>11, <1>12, <1>14
<1>18. r.conferences = d.conferences
  <2>1. \A c \in 1 .. n : /\ lines[ConferenceLine(c)].number = d.conferences[c].number
                          /\ LineAt(lines, ConferenceLine(c) + 1) = d.conferences[c].name
    BY <1>11, <1>13, <1>14
  <2>2. \A c \in 1 .. n :
          d.conferences[c] = [number |-> d.conferences[c].number, name |-> d.conferences[c].name]
    <3> TAKE c \in 1 .. n
    <3>1. d.conferences[c] \in [number : Nat, name : Lines]
      BY <1>1, ElementOfSeq
    <3> QED BY <3>1
  <2>3. d.conferences = [c \in 1 .. n |-> d.conferences[c]]
    BY <1>1
  <2> HIDE DEF n
  <2> QED BY <2>1, <2>2, <2>3
<1>19. r.screens = d.screens
  <2>1. \A i \in 1 .. 3 : 11 + 2 * n + i \in 1 .. 14 + 2 * n
    BY <1>1
  <2>2. \A i \in 1 .. 3 : LineAt(lines, 11 + 2 * n + i) = d.screens[i]
    BY <1>9, <1>11, <2>1
  <2> QED BY <1>1, <2>2
<1>20. DOMAIN d = {"texts", "zero_line", "message_count", "conferences", "screens"} /\ r.ok
  BY DEF ControlDat
<1> HIDE DEF r
<1> QED
  BY <1>10, <1>15, <1>16, <1>17, <1>18, <1>19, <1>20 DEF ControlRoundTrip

\* control.dat is read as it was written but for its zero_line, for all that
\* the run writes.
THEOREM ControlsAreRead == ASSUME ConferenceCounts > 3 PROVE Spec => []ControlsRoundTrip
<1>1. InputInv => ControlsRoundTrip
  <2> SUFFICES ASSUME InputInv, input.kind = "control" PROVE ControlRoundTrip(input.control)
    BY DEF ControlsRoundTrip
  <2>1. PICK z \in {0, 7}, n \in {0, 999}, k \in 0 .. 3 :
          input.control = Control(NumberLine(z), n, k)
    BY DEF InputInv, Controls
  <2> DEFINE Lines == {TextLine(t) : t \in {<<"line", i>> : i \in 1 .. 8}}
                        \cup {TextLine(t) : t \in {<<"name", i>> : i \in 1 .. 3}}
                        \cup {TextLine(t) : t \in {<<"screen", i>> : i \in 1 .. 3}}
             cs == [c \in 1 .. k |-> [number |-> 10 * c, name |-> TextLine(<<"name", c>>)]]
  <2>2. cs \in Seq([number : Nat, name : Lines]) /\ Len(cs) = k
    <3>1. cs \in [1 .. k -> [number : Nat, name : Lines]] /\ k \in Nat
      OBVIOUS
    <3> HIDE DEF cs, Lines
    <3> QED BY <3>1, RowIsSeq
  <2>3. Control(NumberLine(z), n, k) \in ControlDat(Lines)
    <3>2. NumberLine(z) \in {NumberLine(j) : j \in Nat}
      OBVIOUS
    <3>1. /\ [i \in 1 .. 8 |-> TextLine(<<"line", i>>)] \in [1 .. 8 -> Lines]
          /\ [i \in 1 .. 3 |-> TextLine(<<"screen", i>>)] \in [1 .. 3 -> Lines]
      OBVIOUS
    <3> HIDE DEF Lines
    <3> QED BY <2>2, <3>1, <3>2 DEF ControlDat, Control, cs
  <2>4. Len(Control(NumberLine(z), n, k).conferences) < ConferenceCounts
    BY <2>2, PacketAssumption DEF Control, cs
  <2> QED BY <2>1, <2>3, <2>4, ControlsAreKept
<1> QED BY <1>1, InputAlways, PTL
-----------------------------------------------------------------------------
(* The status of a PCBoard message. *)

\* The attributes of a converted message say what its status says, for every
\* character of the table, an unread comment to the sysop excepted, and every
\* combination of the other flags.
LEMMA StatusIsKept == \A m : m.active \in BOOLEAN /\ m.status # "none" => StatusKept(m)
<1> TAKE m
<1> HAVE m.active \in BOOLEAN /\ m.status # "none"
<1> SUFFICES ASSUME NEW row \in StatusTable, m.status \in {row.unread, row.read}
             PROVE  /\ StatusOf(m.status) = row.type
                    /\ m.status = row.read => "MSG_READ" \in JamAttributes(m)
                    /\ m.status = row.unread /\ row.type # "CommentToSysop" =>
                         "MSG_READ" \notin JamAttributes(m)
                    /\ "MSG_PRIVATE" \in JamAttributes(m) <=> row.type \in {"Private", "CommentToSysop"}
                    /\ "MSG_DELETED" \in JamAttributes(m) <=> ~m.active
  BY DEF StatusKept
<1>1. "MSG_DELETED" \in JamAttributes(m) <=> ~m.active
  BY DEF JamAttributes
<1>2. "MSG_READ" \in JamAttributes(m) <=> IsRead(m.status)
  BY DEF JamAttributes
<1>3. "MSG_PRIVATE" \in JamAttributes(m) <=> StatusOf(m.status) \in {"Private", "CommentToSysop"}
  BY DEF JamAttributes
<1>4. /\ StatusOf(m.status) = row.type
      /\ m.status = row.read => IsRead(m.status)
      /\ m.status = row.unread /\ row.type # "CommentToSysop" => ~IsRead(m.status)
  <2>1. CASE row = [type |-> "Private", unread |-> "star", read |-> "plus"]
    <3>1. row.type = "Private" /\ row.unread = "star" /\ row.read = "plus"
      BY <2>1
    <3> QED BY <3>1 DEF StatusOf, IsRead
  <2>2. CASE row = [type |-> "CommentToSysop", unread |-> "tilde", read |-> "grave"]
    <3>1. row.type = "CommentToSysop" /\ row.unread = "tilde" /\ row.read = "grave"
      BY <2>2
    <3> QED BY <3>1 DEF StatusOf, IsRead
  <2>3. CASE row = [type |-> "SenderPassword", unread |-> "percent", read |-> "caret"]
    <3>1. row.type = "SenderPassword" /\ row.unread = "percent" /\ row.read = "caret"
      BY <2>3
    <3> QED BY <3>1 DEF StatusOf, IsRead
  <2>4. CASE row = [type |-> "GroupPassword", unread |-> "bang", read |-> "hash"]
    <3>1. row.type = "GroupPassword" /\ row.unread = "bang" /\ row.read = "hash"
      BY <2>4
    <3> QED BY <3>1 DEF StatusOf, IsRead
  <2>5. CASE row = [type |-> "Public", unread |-> "blank", read |-> "minus"]
    <3>1. row.type = "Public" /\ row.unread = "blank" /\ row.read = "minus"
      BY <2>5
    <3> QED BY <3>1 DEF StatusOf, IsRead
  <2>6. CASE row = [type |-> "GroupPasswordMessageToAll", unread |-> "dollar", read |-> "none"]
    <3>1. row.type = "GroupPasswordMessageToAll" /\ row.unread = "dollar" /\ row.read = "none"
      BY <2>6
    <3> QED BY <3>1 DEF StatusOf, IsRead
  <2> QED BY <2>1, <2>2, <2>3, <2>4, <2>5, <2>6, Zenon DEF StatusTable
<1> QED BY <1>1, <1>2, <1>3, <1>4

\* The conversion keeps the status of every PCBoard message of the run, but for
\* an unread comment to the sysop, which becomes a message that was read.
THEOREM StatusesAreKept == Spec => []StatusesKept
<1>1. InputInv => StatusesKept
  <2> SUFFICES ASSUME InputInv, input.kind = "status" PROVE StatusKept(input.msg)
    BY DEF StatusesKept
  <2>1. input.msg.active \in BOOLEAN /\ input.msg.status # "none"
    BY DEF InputInv, Statuses
  <2> QED BY <2>1, StatusIsKept, Zenon
<1> QED BY <1>1, InputAlways, PTL

-----------------------------------------------------------------------------
(***************************************************************************)
(* The CRCs of the run.                                                    *)
(***************************************************************************)

\* So it does for the buffers of the run.
THEOREM BuffersAlwaysSummed == Spec => []CrcOfBuffers
<1>1. \A buf \in Buffers : buf \in Seq(Int)
  <2> TAKE buf \in Buffers
  <2>1. PICK n \in 0 .. 35, s \in {0, 101} : buf = [i \in 1 .. n |-> (37 * i + s) % 256]
    BY DEF Buffers
  <2>2. n \in Nat /\ s \in Int
    OBVIOUS
  <2>3. \A i \in 1 .. n : ((37 * i + s) % 256) \in Int
    BY <2>2
  <2>4. buf \in [1 .. n -> Int]
    BY <2>1, <2>3
  <2> QED BY <2>2, <2>4, RowIsSeq
<1>2. InputInv => CrcOfBuffers
  BY <1>1, CrcIsThatOfPolynomial DEF InputInv, CrcOfBuffers
<1> QED BY <1>2, InputAlways, PTL

-----------------------------------------------------------------------------
(***************************************************************************)
(* JAM headers. Words are read back from the four bytes they are written   *)
(* as.                                                                     *)
(***************************************************************************)

\* What a byte holds, and a word of four.
Bytes == 0 .. ByteValues - 1
WordRange == 0 .. WordValues - 1

\* A number is put together of a quotient and a remainder.
LEMMA Divided ==
  ASSUME NEW a \in Nat, NEW b \in Nat \ {0}
  PROVE  a \div b \in Nat /\ a % b \in 0 .. b - 1 /\ a = b * (a \div b) + (a % b)
<1> DEFINE q == a \div b
           r == a % b
<1>1. b \in Nat /\ b > 0
  OBVIOUS
<1>2. q \in Nat /\ r \in Nat /\ r < b /\ a = b * q + r
  BY <1>1
<1> HIDE DEF q, r
<1>3. r \in 0 .. b - 1
  BY <1>1, <1>2
<1>4. q \in Nat /\ r \in 0 .. b - 1 /\ a = b * q + r
  BY <1>2, <1>3
<1> QED BY <1>4, Zenon DEF q, r

\* A quotient is as much smaller.
LEMMA QuotientBelow ==
  ASSUME NEW a \in Nat, NEW b \in Nat \ {0}, NEW c \in Nat, a < c * b
  PROVE  a \div b < c
<1>1. b \in Nat /\ b > 0
  OBVIOUS
<1> DEFINE q == a \div b
<1>2. q \in Nat /\ (q >= c <=> a >= c * b)
  BY <1>1, DivBound
<1> HIDE DEF q
<1>3. c * b \in Nat
  BY <1>1
<1>4. q < c
  BY <1>2, <1>3
<1> QED BY <1>4 DEF q

\* What is left of a word once its low bytes are written.
LEMMA BytesOfWord ==
  ASSUME NEW n \in Nat, NEW k \in Nat
  PROVE  \E rest \in [0 .. k -> Nat] :
           /\ rest[0] = n
           /\ \A i \in 1 .. k : rest[i] = rest[i - 1] \div ByteValues
           /\ LeBytes(n, k) = [i \in 1 .. k |-> rest[i - 1] % ByteValues]
<1> DEFINE g == [p \in (0 .. k) \X Nat |-> p[2] \div ByteValues]
           Rhs(f) == [i \in 0 .. k |-> IF i = 0 THEN n ELSE f[i - 1] \div ByteValues]
           rest == CHOOSE f : f = Rhs(f)
<1>1. ByteValues \in Nat \ {0}
  BY CodecAssumption
<1>2. PICK f \in [0 .. k -> Nat] : f[0] = n /\ \A i \in 1 .. k : f[i] = g[<<i, f[i - 1]>>]
  <2>1. g \in [(0 .. k) \X Nat -> Nat]
    BY <1>1, Divided
  <2>2. Steps(k, Nat, n, g)
    BY <2>1 DEF Steps
  <2> HIDE DEF g
  <2> QED BY <2>2, Iterate
<1>3. \A i \in 1 .. k : f[i] = f[i - 1] \div ByteValues
  <2> TAKE i \in 1 .. k
  <2>1. i - 1 \in 0 .. k /\ i \in 0 .. k
    OBVIOUS
  <2>2. <<i, f[i - 1]>> \in (0 .. k) \X Nat
    BY <1>2, <2>1
  <2> QED BY <1>2, <2>2
<1>4. f = Rhs(f)
  <2>1. \A i \in 0 .. k : f[i] = IF i = 0 THEN n ELSE f[i - 1] \div ByteValues
    BY <1>2, <1>3
  <2> QED BY <1>2, <2>1
<1>5. LeBytes(n, k) = [i \in 1 .. k |-> rest[i - 1] % ByteValues]
  BY DEF LeBytes
<1> HIDE DEF g, Rhs
<1>6. rest = Rhs(rest)
  BY <1>4
<1> HIDE DEF rest
<1>7. rest[0] = n /\ \A i \in 1 .. k : rest[i] = rest[i - 1] \div ByteValues
  BY <1>6 DEF Rhs
<1>8. rest \in [0 .. k -> Nat]
  <2> DEFINE P == {i \in Nat : i <= k => rest[i] \in Nat}
  <2>1. 0 \in P
    BY <1>7
  <2>2. ASSUME NEW i \in Nat, i \in P PROVE i + 1 \in P
    <3> SUFFICES ASSUME i + 1 <= k PROVE rest[i + 1] \in Nat
      OBVIOUS
    <3>1. i + 1 \in 1 .. k /\ (i + 1) - 1 = i /\ i <= k
      OBVIOUS
    <3>2. rest[i] \in Nat
      BY <2>2, <3>1
    <3>3. rest[i + 1] = rest[i] \div ByteValues
      BY <1>7, <3>1, Zenon
    <3> QED BY <1>1, <3>2, <3>3, Divided
  <2> HIDE DEF P
  <2>3. Nat \subseteq P
    BY <2>1, <2>2, NatInduct
  <2>4. \A i \in 0 .. k : rest[i] \in Nat
    BY <2>3 DEF P
  <2> QED BY <1>6, <2>4 DEF Rhs
<1> QED BY <1>5, <1>7, <1>8

\* A word is the lowest of its bytes and ByteValues times what the others make.
LEMMA WordOfBytes ==
  ASSUME NEW data \in Seq(Nat), NEW k \in Nat, k <= Len(data)
  PROVE  \E w \in [0 .. k -> Nat] :
           /\ w[k] = 0
           /\ \A i \in 1 .. k : w[i - 1] = data[i] + ByteValues * w[i]
           /\ LeWord(data, k) = w[0]
<1> DEFINE seq == SubSeq(data, 1, k)
           g == [p \in (0 .. k) \X Nat |-> IF p[1] = 0 THEN 0 ELSE seq[p[1]] + ByteValues * p[2]]
           Rhs(f) == [s \in SUBSET (1 .. k) |->
                         IF s = {} THEN 0 ELSE seq[Min(s)] + ByteValues * f[s \ {Min(s)}]]
           ff == CHOOSE f : f = Rhs(f)
<1>1. ByteValues \in Nat \ {0}
  BY CodecAssumption
<1>2. DOMAIN seq = 1 .. k /\ \A i \in 1 .. k : seq[i] = data[i] /\ seq[i] \in Nat
  <2>1. \A i \in 1 .. k : data[i] \in Nat
    BY ElementOfSeq, LenProperties
  <2> QED BY <2>1
<1>3. PICK h \in [SUBSET (1 .. k) -> Nat] :
        /\ h[{}] = 0
        /\ \A s \in SUBSET (1 .. k) : s # {} =>
             Min(s) \in 1 .. k /\ h[s] = g[<<Min(s), h[s \ {Min(s)}]>>]
  <2>1. g \in [(0 .. k) \X Nat -> Nat]
    <3>1. \A i \in 0 .. k, v \in Nat : i # 0 => seq[i] + ByteValues * v \in Nat
      <4> TAKE i \in 0 .. k, v \in Nat
      <4> HAVE i # 0
      <4>1. seq[i] \in Nat
        BY <1>2
      <4>2. ByteValues * v \in Nat
        BY <1>1
      <4> QED BY <4>1, <4>2
    <3> HIDE DEF seq
    <3> QED BY <3>1
  <2>2. Steps(k, Nat, 0, g)
    BY <2>1 DEF Steps
  <2> HIDE DEF g
  <2>3. PICK h : IsRightFold(h, k, Nat, 0, g)
    BY <2>2, FoldsRight
  <2> QED BY <2>3 DEF IsRightFold
<1>4. \A s \in SUBSET (1 .. k) : s # {} =>
        /\ Min(s) \in 1 .. k
        /\ h[s] = seq[Min(s)] + ByteValues * h[s \ {Min(s)}]
  <2> TAKE s \in SUBSET (1 .. k)
  <2> HAVE s # {}
  <2>1. Min(s) \in 0 .. k /\ Min(s) # 0 /\ h[s \ {Min(s)}] \in Nat
    <3>1. Min(s) \in 1 .. k /\ s \ {Min(s)} \in SUBSET (1 .. k)
      BY <1>3
    <3> QED BY <1>3, <3>1
  <2>2. <<Min(s), h[s \ {Min(s)}]>> \in (0 .. k) \X Nat
    BY <2>1
  <2> HIDE DEF seq
  <2> QED BY <1>3, <2>1, <2>2
<1>5. LeWord(data, k) = ff[1 .. k]
  BY <1>2 DEF LeWord, FoldRight, MapThenFoldSet
<1> HIDE DEF seq, g
<1>6. ff = Rhs(ff)
  <2>1. h = Rhs(h)
    <3>1. \A s \in SUBSET (1 .. k) :
            h[s] = IF s = {} THEN 0 ELSE seq[Min(s)] + ByteValues * h[s \ {Min(s)}]
      BY <1>3, <1>4
    <3> QED BY <1>3, <3>1
  <2> HIDE DEF Rhs
  <2> QED BY <2>1
<1> HIDE DEF ff
<1> DEFINE w == [i \in 0 .. k |-> ff[i + 1 .. k]]
<1>7. w[k] = 0 /\ w[0] = ff[1 .. k]
  <2>1. k + 1 .. k = {} /\ {} \in SUBSET (1 .. k) /\ k \in 0 .. k /\ 0 \in 0 .. k
    OBVIOUS
  <2>2. ff[{}] = 0
    BY <1>6, <2>1
  <2> QED BY <2>1, <2>2
<1>8. ASSUME NEW i \in 1 .. k PROVE w[i - 1] = data[i] + ByteValues * w[i]
  <2>1. i .. k \in SUBSET (1 .. k) /\ i .. k # {} /\ i - 1 \in 0 .. k /\ (i - 1) + 1 = i /\ i \in 0 .. k
    <3>1. i \in i .. k /\ i - 1 \in 0 .. k /\ (i - 1) + 1 = i /\ i \in 0 .. k
      OBVIOUS
    <3>2. \A j \in i .. k : j \in 1 .. k
      OBVIOUS
    <3> QED BY <3>1, <3>2
  <2>2. Min(i .. k) = i /\ (i .. k) \ {i} = i + 1 .. k
    BY MinOfSuffix
  <2>3. ff[i .. k] = seq[Min(i .. k)] + ByteValues * ff[(i .. k) \ {Min(i .. k)}]
    BY <1>6, <2>1
  <2>4. w[i - 1] = ff[i .. k] /\ w[i] = ff[i + 1 .. k]
    BY <2>1
  <2> HIDE DEF w
  <2> QED BY <1>2, <2>2, <2>3, <2>4
<1> DEFINE P == {j \in Nat : j <= k => w[k - j] \in Nat}
<1> HIDE DEF w
<1>9. 0 \in P
  BY <1>7
<1>10. ASSUME NEW j \in Nat, j \in P PROVE j + 1 \in P
  <2> SUFFICES ASSUME j + 1 <= k PROVE w[k - (j + 1)] \in Nat
    OBVIOUS
  <2>1. k - j \in 1 .. k /\ (k - j) - 1 = k - (j + 1) /\ w[k - j] \in Nat
    BY <1>10
  <2>2. w[k - (j + 1)] = data[k - j] + ByteValues * w[k - j] /\ data[k - j] \in Nat
    BY <1>2, <1>8, <2>1
  <2>3. ByteValues * w[k - j] \in Nat
    BY <1>1, <2>1
  <2> QED BY <2>2, <2>3
<1> HIDE DEF P
<1>11. \A i \in 0 .. k : w[i] \in Nat
  <2> TAKE i \in 0 .. k
  <2>1. Nat \subseteq P
    BY <1>9, <1>10, NatInduct
  <2>2. k - i \in Nat /\ k - i <= k /\ k - (k - i) = i
    OBVIOUS
  <2> QED BY <2>1, <2>2 DEF P
<1>12. w \in [0 .. k -> Nat]
  BY <1>11 DEF w
<1> QED BY <1>5, <1>7, <1>8, <1>12

\* What is written of a word is what is left of it, byte by byte.
LEMMA BytesType ==
  ASSUME NEW n \in Nat, NEW k \in Nat
  PROVE  LeBytes(n, k) \in Seq(Bytes) /\ LeBytes(n, k) \in Seq(Nat) /\ Len(LeBytes(n, k)) = k
<1>1. PICK rest \in [0 .. k -> Nat] :
        /\ rest[0] = n
        /\ \A i \in 1 .. k : rest[i] = rest[i - 1] \div ByteValues
        /\ LeBytes(n, k) = [i \in 1 .. k |-> rest[i - 1] % ByteValues]
  BY BytesOfWord
<1>2. ByteValues \in Nat \ {0} /\ Bytes \subseteq Nat
  BY CodecAssumption DEF Bytes
<1>3. \A i \in 1 .. k : rest[i - 1] % ByteValues \in Bytes
  <2> TAKE i \in 1 .. k
  <2>1. i - 1 \in 0 .. k
    OBVIOUS
  <2>2. rest[i - 1] \in Nat
    BY <1>1, <2>1
  <2> QED BY <1>2, <2>2, Divided DEF Bytes
<1>4. LeBytes(n, k) \in [1 .. k -> Bytes]
  BY <1>1, <1>3
<1>5. LeBytes(n, k) \in Seq(Bytes) /\ Len(LeBytes(n, k)) = k
  BY <1>4, RowIsSeq
<1> QED BY <1>2, <1>5, SeqMonotonic

\* A word that its bytes can hold is read back.
LEMMA WordReadBack ==
  ASSUME NEW n \in Nat, NEW k \in Nat, NEW data \in Seq(Nat), k <= Len(data),
         \A i \in 1 .. k : data[i] = LeBytes(n, k)[i],
         \/ k = 4 /\ n < WordValues
         \/ k = 2 /\ n < ByteValues
  PROVE  LeWord(data, k) = n
<1>1. ByteValues \in Nat \ {0}
  BY CodecAssumption
<1>2. PICK rest \in [0 .. k -> Nat] :
        /\ rest[0] = n
        /\ \A i \in 1 .. k : rest[i] = rest[i - 1] \div ByteValues
        /\ LeBytes(n, k) = [i \in 1 .. k |-> rest[i - 1] % ByteValues]
  BY BytesOfWord
<1>3. PICK w \in [0 .. k -> Nat] :
        /\ w[k] = 0
        /\ \A i \in 1 .. k : w[i - 1] = data[i] + ByteValues * w[i]
        /\ LeWord(data, k) = w[0]
  BY WordOfBytes
<1>4. rest[k] = 0
  <2> DEFINE B == ByteValues
  <2> HIDE DEF B
  <2>1. B \in Nat \ {0}
    BY <1>1 DEF B
  <2>2. \A i \in 1 .. k, c \in Nat : rest[i - 1] < c * B => rest[i] < c
    <3> TAKE i \in 1 .. k, c \in Nat
    <3> HAVE rest[i - 1] < c * B
    <3>1. i - 1 \in 0 .. k
      OBVIOUS
    <3>2. rest[i - 1] \in Nat /\ rest[i] = rest[i - 1] \div B
      BY <1>2, <3>1 DEF B
    <3> QED BY <2>1, <3>2, QuotientBelow
  <2>3. CASE k = 4 /\ n < WordValues
    <3> DEFINE B2 == B * B
               B3 == B2 * B
    <3>1. B2 \in Nat /\ B3 \in Nat /\ rest[0] < B3 * B
      BY <1>2, <2>1, <2>3 DEF WordValues, B
    <3> HIDE DEF B3
    <3>2. 1 \in 1 .. k /\ 2 \in 1 .. k /\ 3 \in 1 .. k /\ 4 \in 1 .. k
      BY <2>3
    <3>3. rest[1] < B3
      <4>1. 1 - 1 = 0
        OBVIOUS
      <4> QED BY <2>2, <3>1, <3>2, <4>1
    <3>4. rest[2] < B2
      <4>1. rest[2 - 1] < B2 * B
        BY <3>3 DEF B3
      <4> QED BY <2>2, <3>1, <3>2, <4>1
    <3>5. rest[3] < B
      <4>1. rest[3 - 1] < B * B
        BY <3>4
      <4> QED BY <2>1, <2>2, <3>2, <4>1
    <3>6. rest[4] < 1
      <4>1. rest[4 - 1] < 1 * B
        BY <2>1, <3>5
      <4> QED BY <2>2, <3>2, <4>1
    <3>7. rest[4] \in Nat
      BY <1>2, <3>2
    <3> QED BY <2>3, <3>6, <3>7
  <2>4. CASE k = 2 /\ n < ByteValues
    <3>1. 1 \in 1 .. k /\ 2 \in 1 .. k
      BY <2>4
    <3>2. rest[1] < 1
      <4>1. rest[1 - 1] < 1 * B
        BY <1>2, <2>1, <2>4 DEF B
      <4> QED BY <2>2, <3>1, <4>1
    <3>3. rest[2] < 1
      <4>1. rest[2 - 1] < 1 * B
        BY <2>1, <3>1, <3>2, <1>2
      <4> QED BY <2>2, <3>1, <4>1
    <3>4. rest[2] \in Nat
      BY <1>2, <3>1
    <3> QED BY <2>4, <3>3, <3>4
  <2> QED BY <2>3, <2>4
<1> DEFINE P == {j \in Nat : j <= k => w[k - j] = rest[k - j]}
<1>5. 0 \in P
  BY <1>3, <1>4
<1>6. ASSUME NEW j \in Nat, j \in P PROVE j + 1 \in P
  <2> SUFFICES ASSUME j + 1 <= k PROVE w[k - (j + 1)] = rest[k - (j + 1)]
    OBVIOUS
  <2> DEFINE i == k - j
  <2>1. i \in 1 .. k /\ i - 1 = k - (j + 1) /\ i - 1 \in 0 .. k
    OBVIOUS
  <2>2. w[i] = rest[i]
    BY <1>6
  <2> HIDE DEF i
  <2>3. /\ w[i - 1] = data[i] + ByteValues * w[i] /\ data[i] = LeBytes(n, k)[i]
        /\ rest[i] = rest[i - 1] \div ByteValues /\ LeBytes(n, k)[i] = rest[i - 1] % ByteValues
        /\ rest[i - 1] \in Nat
    BY <1>2, <1>3, <2>1
  <2>4. rest[i - 1] = ByteValues * (rest[i - 1] \div ByteValues) + (rest[i - 1] % ByteValues)
        /\ rest[i - 1] \div ByteValues \in Nat /\ rest[i - 1] % ByteValues \in Nat
    <3> DEFINE x == rest[i - 1]
    <3>1. x \in Nat
      BY <2>3
    <3> HIDE DEF x
    <3>2. x \div ByteValues \in Nat /\ x % ByteValues \in 0 .. ByteValues - 1
          /\ x = ByteValues * (x \div ByteValues) + (x % ByteValues)
      BY <1>1, <3>1, Divided
    <3>3. x % ByteValues \in Nat
      <4>1. \A y \in 0 .. ByteValues - 1 : y \in Nat
        BY <1>1
      <4> QED BY <3>2, <4>1
    <3> QED BY <3>2, <3>3 DEF x
  <2>5. w[i - 1] = (rest[i - 1] % ByteValues) + ByteValues * (rest[i - 1] \div ByteValues)
    BY <2>2, <2>3
  <2>6. \A x, y \in Nat : x + y = y + x
    OBVIOUS
  <2>7. ByteValues * (rest[i - 1] \div ByteValues) \in Nat
    <3> DEFINE q == rest[i - 1] \div ByteValues
    <3>1. q \in Nat
      BY <2>4
    <3> HIDE DEF q
    <3>2. ByteValues * q \in Nat
      BY <1>1, <3>1
    <3> QED BY <3>2 DEF q
  <2>8. w[i - 1] = rest[i - 1]
    BY <2>4, <2>5, <2>6, <2>7
  <2> QED BY <2>1, <2>8
<1> HIDE DEF P
<1>7. k \in P
  BY <1>5, <1>6, NatInduct
<1>8. k - k = 0
  OBVIOUS
<1> QED BY <1>2, <1>3, <1>7, <1>8 DEF P

\* One more byte.
LEMMA ByteAbove ==
  ASSUME NEW b \in Nat, NEW d \in Nat, NEW x \in Nat, NEW m \in Nat, d < b, x < m
  PROVE  d + b * x \in Nat /\ d + b * x < b * m
<1>1. PICK c \in Nat : m = (x + 1) + c
  <2>1. m - (x + 1) \in Nat /\ m = (x + 1) + (m - (x + 1))
    OBVIOUS
  <2> QED BY <2>1
<1>2. b * ((x + 1) + c) = b * x + b + b * c /\ b * c \in Nat /\ b * x \in Nat
  OBVIOUS
<1> QED BY <1>1, <1>2

\* Four bytes are less than the words there are.
LEMMA FourBytes ==
  ASSUME NEW b \in Nat \ {0}, NEW d1 \in Nat, NEW d2 \in Nat, NEW d3 \in Nat, NEW d4 \in Nat,
         d1 < b, d2 < b, d3 < b, d4 < b
  PROVE  d1 + b * (d2 + b * (d3 + b * d4)) < b * b * b * b
<1> DEFINE x3 == d3 + b * d4
           x2 == d2 + b * x3
           b2 == b * b
           b3 == b * b2
<1>1. b \in Nat
  OBVIOUS
<1>2. x3 \in Nat /\ x3 < b2
  BY <1>1, ByteAbove
<1>3. b2 \in Nat
  BY <1>1
<1> HIDE DEF x3, b2
<1>4. x2 \in Nat /\ x2 < b3
  BY <1>1, <1>2, <1>3, ByteAbove
<1>5. b3 \in Nat
  BY <1>1, <1>3
<1> HIDE DEF x2, b3
<1>6. d1 + b * x2 < b * b3
  BY <1>1, <1>4, <1>5, ByteAbove
<1>7. b * b3 = b * b * b * b
  BY <1>1 DEF b3, b2
<1> QED BY <1>6, <1>7 DEF x2, x3

\* A word of bytes is written as them, and is one that a u32 can be.
LEMMA BytesReadBack ==
  ASSUME NEW data \in Seq(Bytes), NEW k \in Nat, k <= Len(data)
  PROVE  /\ LeWord(data, k) \in Nat
         /\ k = 4 => LeWord(data, k) < WordValues
         /\ LeBytes(LeWord(data, k), k) = [i \in 1 .. k |-> data[i]]
<1>1. ByteValues \in Nat \ {0} /\ Bytes \subseteq Nat
  BY CodecAssumption DEF Bytes
<1>2. data \in Seq(Nat) /\ \A i \in 1 .. k : data[i] \in Bytes
  <2>1. \A i \in 1 .. k : i \in 1 .. Len(data)
    BY LenProperties
  <2> QED BY <1>1, <2>1, SeqMonotonic, ElementOfSeq
<1>3. PICK w \in [0 .. k -> Nat] :
        /\ w[k] = 0
        /\ \A i \in 1 .. k : w[i - 1] = data[i] + ByteValues * w[i]
        /\ LeWord(data, k) = w[0]
  BY <1>2, WordOfBytes
<1>4. w[0] \in Nat
  BY <1>3
<1>5. PICK rest \in [0 .. k -> Nat] :
        /\ rest[0] = w[0]
        /\ \A i \in 1 .. k : rest[i] = rest[i - 1] \div ByteValues
        /\ LeBytes(w[0], k) = [i \in 1 .. k |-> rest[i - 1] % ByteValues]
  BY <1>4, BytesOfWord
<1>6. \A i \in 1 .. k : w[i - 1] \div ByteValues = w[i] /\ w[i - 1] % ByteValues = data[i]
  <2> TAKE i \in 1 .. k
  <2>1. w[i] \in Nat /\ data[i] \in Nat /\ data[i] < ByteValues /\ w[i - 1] = data[i] + ByteValues * w[i]
    <3>1. i \in 0 .. k
      OBVIOUS
    <3>2. w[i] \in Nat /\ w[i - 1] = data[i] + ByteValues * w[i] /\ data[i] \in Bytes
      BY <1>2, <1>3, <3>1
    <3>3. \A x \in Bytes : x \in Nat /\ x < ByteValues
      BY <1>1 DEF Bytes
    <3> QED BY <3>2, <3>3
  <2> DEFINE q == w[i]
             r == data[i]
             b == ByteValues
  <2> HIDE DEF q, r, b
  <2>2. q \in Nat /\ r \in Nat /\ r < b /\ b \in Nat /\ w[i - 1] = r + b * q
    BY <1>1, <2>1 DEF q, r, b
  <2>3. w[i - 1] = b * q + r
    <3>1. b * q \in Nat
      BY <2>2
    <3> QED BY <2>2, <3>1
  <2>4. (b * q + r) \div b = q /\ (b * q + r) % b = r
    BY <2>2, Quotient
  <2> QED BY <2>3, <2>4 DEF q, r, b
<1> DEFINE P == {i \in Nat : i <= k => rest[i] = w[i]}
<1>7. 0 \in P
  BY <1>5
<1>8. ASSUME NEW i \in Nat, i \in P PROVE i + 1 \in P
  <2> SUFFICES ASSUME i + 1 <= k PROVE rest[i + 1] = w[i + 1]
    OBVIOUS
  <2>1. i + 1 \in 1 .. k /\ (i + 1) - 1 = i /\ i <= k
    OBVIOUS
  <2>2. rest[i] = w[i]
    BY <1>8, <2>1
  <2>3. rest[i + 1] = rest[i] \div ByteValues /\ w[i] \div ByteValues = w[i + 1]
    BY <1>5, <1>6, <2>1, Zenon
  <2> QED BY <2>2, <2>3
<1> HIDE DEF P
<1>9. \A i \in 0 .. k : rest[i] = w[i]
  <2>1. Nat \subseteq P
    BY <1>7, <1>8, NatInduct
  <2> QED BY <2>1 DEF P
<1>10. \A i \in 1 .. k : rest[i - 1] % ByteValues = data[i]
  <2> TAKE i \in 1 .. k
  <2>1. i - 1 \in 0 .. k
    OBVIOUS
  <2> QED BY <1>6, <1>9, <2>1
<1>11. LeBytes(w[0], k) = [i \in 1 .. k |-> data[i]]
  BY <1>5, <1>10
<1>12. ASSUME k = 4 PROVE w[0] < WordValues
  <2> DEFINE b == ByteValues
  <2>1. \A i \in 1 .. 4 : data[i] \in Nat /\ data[i] < b
    <3>1. \A x \in Bytes : x \in Nat /\ x < b
      BY <1>1 DEF Bytes
    <3> QED BY <1>2, <1>12, <3>1
  <2>2. \A i \in 1 .. 4 : w[i - 1] = data[i] + b * w[i]
    BY <1>3, <1>12
  <2>3. w[4] = 0
    BY <1>3, <1>12
  <2> HIDE DEF b
  <2>4. /\ w[3] = data[4] + b * w[4] /\ w[2] = data[3] + b * w[3]
        /\ w[1] = data[2] + b * w[2] /\ w[0] = data[1] + b * w[1]
    <3>1. 1 - 1 = 0 /\ 2 - 1 = 1 /\ 3 - 1 = 2 /\ 4 - 1 = 3
      OBVIOUS
    <3>2. /\ w[4 - 1] = data[4] + b * w[4] /\ w[3 - 1] = data[3] + b * w[3]
          /\ w[2 - 1] = data[2] + b * w[2] /\ w[1 - 1] = data[1] + b * w[1]
      BY <2>2
    <3> QED BY <3>1, <3>2
  <2>5. b \in Nat \ {0}
    BY <1>1 DEF b
  <2>6. w[3] = data[4]
    <3>1. b * 0 = 0
      BY <2>5
    <3> QED BY <2>1, <2>3, <2>4, <3>1
  <2> DEFINE d1 == data[1]
             d2 == data[2]
             d3 == data[3]
             d4 == data[4]
  <2>7. /\ d1 \in Nat /\ d2 \in Nat /\ d3 \in Nat /\ d4 \in Nat
        /\ d1 < b /\ d2 < b /\ d3 < b /\ d4 < b
    BY <2>1
  <2>8. w[0] = d1 + b * (d2 + b * (d3 + b * d4))
    BY <2>4, <2>6
  <2> HIDE DEF d1, d2, d3, d4
  <2>9. d1 + b * (d2 + b * (d3 + b * d4)) < b * b * b * b
    BY <2>5, <2>7, FourBytes
  <2> QED BY <2>8, <2>9 DEF WordValues, b
<1> QED BY <1>3, <1>4, <1>11, <1>12

-----------------------------------------------------------------------------
(***************************************************************************)
(* Subfields: a type, a length and the content. Data are walked from head  *)
(* to head, and are those of subfields if the last one ends where the data *)
(* do.                                                                     *)
(***************************************************************************)

\* No code and no name is known twice.
LEMMA KnownOnce == \A s, t \in KnownTypes : s[1] = t[1] \/ s[2] = t[2] => s = t
  BY DEF KnownTypes

\* The code of a type that a code stands for is that code.
LEMMA CodeOfType == \A c : CodeOf(TypeFrom(c)) = c
<1> TAKE c
<1>1. CASE \E t \in KnownTypes : t[1] = c
  <2> DEFINE k == CHOOSE t \in KnownTypes : t[1] = c
             n == CHOOSE t \in KnownTypes : t[2] = k[2]
  <2>1. k \in KnownTypes /\ k[1] = c
    BY <1>1
  <2>2. n \in KnownTypes /\ n[2] = k[2]
    BY <2>1
  <2>3. n = k
    BY <2>1, <2>2, KnownOnce
  <2>4. TypeFrom(c) = [known |-> k[2]]
    BY <1>1 DEF TypeFrom
  <2> HIDE DEF k
  <2>5. CodeOf([known |-> k[2]]) = n[1]
    BY DEF CodeOf
  <2> QED BY <2>1, <2>3, <2>4, <2>5
<1>2. CASE ~\E t \in KnownTypes : t[1] = c
  BY <1>2 DEF TypeFrom, Unknown, CodeOf
<1> QED BY <1>1, <1>2

\* The types a code is read as, and the subfields a length can be written of.
SubfieldTypesRead == {TypeFrom(c) : c \in WordRange}
SubfieldSet == [type : SubfieldTypesRead, content : {c \in Seq(Bytes) : Len(c) < WordValues}]

\* A subfield is written as its code, the length of its content, and that.
LEMMA BytesOfSubfield ==
  ASSUME NEW sf \in SubfieldSet
  PROVE  /\ SubfieldBytes(sf) \in Seq(Bytes)
         /\ Len(SubfieldBytes(sf)) = 8 + Len(sf.content)
         /\ Len(sf.content) \in Nat /\ CodeOf(sf.type) \in WordRange
         /\ TypeFrom(CodeOf(sf.type)) = sf.type
         /\ \A j \in 1 .. 4 : SubfieldBytes(sf)[j] = LeBytes(CodeOf(sf.type), 4)[j]
         /\ \A j \in 1 .. 4 : SubfieldBytes(sf)[4 + j] = LeBytes(Len(sf.content), 4)[j]
         /\ \A j \in 1 .. Len(sf.content) : SubfieldBytes(sf)[8 + j] = sf.content[j]
<1> DEFINE code == CodeOf(sf.type)
           n == Len(sf.content)
           a == LeBytes(code, 4)
           b == LeBytes(n, 4)
           ab == a \o b
           c == sf.content
           abc == ab \o c
<1>1. c \in Seq(Bytes) /\ n \in Nat /\ n = Len(c)
  BY LenProperties DEF SubfieldSet
<1>2. code \in WordRange /\ TypeFrom(code) = sf.type
  <2>1. PICK k \in WordRange : sf.type = TypeFrom(k)
    BY DEF SubfieldSet, SubfieldTypesRead
  <2> QED BY <2>1, CodeOfType
<1>3. code \in Nat
  <2>1. WordValues \in Nat
    BY CodecAssumption DEF WordValues
  <2> QED BY <1>2, <2>1 DEF WordRange
<1>4. a \in Seq(Bytes) /\ Len(a) = 4 /\ b \in Seq(Bytes) /\ Len(b) = 4
  BY <1>1, <1>3, BytesType
<1> HIDE DEF a, b, c, n
<1>5. /\ ab \in Seq(Bytes) /\ Len(ab) = 8
      /\ \A j \in 1 .. 4 : ab[j] = a[j]
      /\ \A j \in 1 .. 4 : ab[4 + j] = b[j]
  <2>1. /\ ab \in Seq(Bytes) /\ Len(ab) = Len(a) + Len(b)
        /\ \A j \in 1 .. Len(a) : ab[j] = a[j]
        /\ \A j \in 1 .. Len(b) : ab[Len(a) + j] = b[j]
    <3>1. a \in Seq(Bytes) /\ b \in Seq(Bytes)
      BY <1>4
    <3> QED BY <3>1, Joined
  <2> HIDE DEF ab
  <2> QED BY <1>4, <2>1
<1> HIDE DEF ab
<1>6. /\ abc \in Seq(Bytes) /\ Len(abc) = 8 + n
      /\ \A j \in 1 .. 8 : abc[j] = ab[j]
      /\ \A j \in 1 .. n : abc[8 + j] = c[j]
  <2>1. /\ abc \in Seq(Bytes) /\ Len(abc) = Len(ab) + Len(c)
        /\ \A j \in 1 .. Len(ab) : abc[j] = ab[j]
        /\ \A j \in 1 .. Len(c) : abc[Len(ab) + j] = c[j]
    <3>1. ab \in Seq(Bytes) /\ c \in Seq(Bytes)
      BY <1>1, <1>5
    <3> QED BY <3>1, Joined
  <2> HIDE DEF abc
  <2> QED BY <1>1, <1>5, <2>1
<1>7. SubfieldBytes(sf) = abc
  BY DEF SubfieldBytes, abc, ab, a, b, c, n
<1> HIDE DEF abc
<1>8. \A j \in 1 .. 4 : abc[j] = a[j] /\ abc[4 + j] = b[j]
  <2> TAKE j \in 1 .. 4
  <2>1. j \in 1 .. 8 /\ 4 + j \in 1 .. 8
    OBVIOUS
  <2> QED BY <1>5, <1>6, <2>1
<1> QED BY <1>1, <1>2, <1>6, <1>7, <1>8 DEF a, b, c, n

\* What is left of the data.
LEMMA Dropped ==
  ASSUME NEW S, NEW data \in Seq(S), NEW k \in 0 .. Len(data)
  PROVE  /\ DropBytes(data, k) \in Seq(S) /\ Len(DropBytes(data, k)) = Len(data) - k
         /\ \A j \in 1 .. Len(data) - k : DropBytes(data, k)[j] = data[k + j]
<1> DEFINE n == Len(data)
<1>1. n \in Nat /\ \A i \in 1 .. n : data[i] \in S
  BY LenProperties, ElementOfSeq
<1> HIDE DEF n
<1>2. k \in 0 .. n /\ DropBytes(data, k) = SubSeq(data, k + 1, n)
  BY DEF DropBytes, n
<1>3. \A i \in k + 1 .. n : data[i] \in S
  BY <1>1, <1>2
<1>4. /\ SubSeq(data, k + 1, n) \in Seq(S)
      /\ Len(SubSeq(data, k + 1, n)) = IF k + 1 <= n THEN n - (k + 1) + 1 ELSE 0
      /\ \A i \in 1 .. n - (k + 1) + 1 : SubSeq(data, k + 1, n)[i] = data[k + 1 + i - 1]
  BY <1>1, <1>2, <1>3, SubSeqProperties
<1>5. n - (k + 1) + 1 = n - k /\ (k + 1 <= n \/ n - k = 0)
      /\ \A i \in 1 .. n - k : k + 1 + i - 1 = k + i
  BY <1>1, <1>2
<1> QED BY <1>2, <1>4, <1>5 DEF n

\* A piece of the data.
LEMMA Cut ==
  ASSUME NEW S, NEW data \in Seq(S), NEW k \in Nat, NEW m \in Nat, k + m <= Len(data)
  PROVE  /\ SubSeq(data, k + 1, k + m) \in Seq(S) /\ Len(SubSeq(data, k + 1, k + m)) = m
         /\ \A j \in 1 .. m : SubSeq(data, k + 1, k + m)[j] = data[k + j]
<1> DEFINE n == Len(data)
<1>1. n \in Nat /\ \A i \in 1 .. n : data[i] \in S
  BY LenProperties, ElementOfSeq
<1> HIDE DEF n
<1>2. k + m <= n
  BY DEF n
<1>3. \A i \in k + 1 .. k + m : data[i] \in S
  BY <1>1, <1>2
<1>4. /\ SubSeq(data, k + 1, k + m) \in Seq(S)
      /\ Len(SubSeq(data, k + 1, k + m)) = IF k + 1 <= k + m THEN (k + m) - (k + 1) + 1 ELSE 0
      /\ \A i \in 1 .. (k + m) - (k + 1) + 1 :
           SubSeq(data, k + 1, k + m)[i] = data[k + 1 + i - 1]
  <2>1. k + 1 \in Int /\ k + m \in Int
    OBVIOUS
  <2> QED BY <1>3, <2>1, SubSeqProperties
<1>5. (k + m) - (k + 1) + 1 = m /\ (k + 1 <= k + m \/ m = 0)
      /\ \A i \in 1 .. m : k + 1 + i - 1 = k + i
  OBVIOUS
<1> QED BY <1>4, <1>5

\* The length that the subfield at byte idx says its content has, where it
\* ends, and what it is read as.
LenAt(data, idx) == LeWord(DropBytes(DropBytes(data, idx), 4), 4)
EndAt(data, idx) == idx + SubfieldHead + LenAt(data, idx)
SubfieldAt(data, idx) ==
  Subfield(TypeFrom(LeWord(DropBytes(data, idx), 4)),
           SubSeq(DropBytes(data, idx), SubfieldHead + 1, SubfieldHead + LenAt(data, idx)))
HasHead(data, idx) == idx + SubfieldHead <= Len(data)
IsWhole(data, idx) == HasHead(data, idx) /\ EndAt(data, idx) <= Len(data)

\* What a head in the data says, and a whole subfield.
LEMMA HeadOf ==
  ASSUME NEW data \in Seq(Bytes), NEW idx \in 0 .. Len(data), HasHead(data, idx)
  PROVE  /\ LenAt(data, idx) \in Nat /\ LenAt(data, idx) < WordValues
         /\ \A j \in 1 .. 4 : data[idx + 4 + j] = LeBytes(LenAt(data, idx), 4)[j]
         /\ IsWhole(data, idx) =>
              /\ SubfieldAt(data, idx) \in SubfieldSet
              /\ EndAt(data, idx) \in idx + SubfieldHead .. Len(data)
              /\ SubfieldBytes(SubfieldAt(data, idx))
                   = SubSeq(data, idx + 1, EndAt(data, idx))
              /\ Len(SubfieldAt(data, idx).content) = LenAt(data, idx)
<1> DEFINE n == Len(data)
           rest == DropBytes(data, idx)
           tail == DropBytes(rest, 4)
           len == LeWord(tail, 4)
           code == LeWord(rest, 4)
<1>1. n \in Nat /\ idx \in Nat /\ idx + 8 <= n
  BY LenProperties DEF HasHead, SubfieldHead
<1>2. /\ rest \in Seq(Bytes) /\ Len(rest) = n - idx
      /\ \A j \in 1 .. n - idx : rest[j] = data[idx + j]
  BY Dropped
<1> HIDE DEF n, rest
<1>3. /\ tail \in Seq(Bytes) /\ Len(tail) = Len(rest) - 4
      /\ \A j \in 1 .. Len(rest) - 4 : tail[j] = rest[4 + j]
  <2>1. 4 \in 0 .. Len(rest)
    BY <1>1, <1>2
  <2> QED BY <1>2, <2>1, Dropped
<1> HIDE DEF tail
<1>4. /\ len \in Nat /\ len < WordValues /\ LeBytes(len, 4) = [i \in 1 .. 4 |-> tail[i]]
      /\ code \in Nat /\ code < WordValues /\ LeBytes(code, 4) = [i \in 1 .. 4 |-> rest[i]]
  <2>1. 4 <= Len(tail) /\ 4 <= Len(rest) /\ 4 \in Nat
    BY <1>1, <1>2, <1>3
  <2> QED BY <1>2, <1>3, <2>1, BytesReadBack
<1>5. LenAt(data, idx) = len
  BY DEF LenAt, rest, tail
<1> HIDE DEF len, code
<1>6. \A j \in 1 .. 4 : data[idx + 4 + j] = LeBytes(len, 4)[j]
  <2> TAKE j \in 1 .. 4
  <2>1. j \in 1 .. Len(rest) - 4 /\ 4 + j \in 1 .. n - idx /\ idx + (4 + j) = idx + 4 + j
    BY <1>1, <1>2
  <2>2. LeBytes(len, 4)[j] = tail[j]
    BY <1>4
  <2> QED BY <1>2, <1>3, <2>1, <2>2
<1>7. ASSUME IsWhole(data, idx)
      PROVE  /\ SubfieldAt(data, idx) \in SubfieldSet
             /\ EndAt(data, idx) \in idx + SubfieldHead .. n
             /\ SubfieldBytes(SubfieldAt(data, idx)) = SubSeq(data, idx + 1, EndAt(data, idx))
             /\ Len(SubfieldAt(data, idx).content) = len
  <2> DEFINE content == SubSeq(rest, 8 + 1, 8 + len)
             sf == SubfieldAt(data, idx)
             piece == SubSeq(data, idx + 1, idx + (8 + len))
  <2>1. idx + 8 + len <= n /\ EndAt(data, idx) = idx + 8 + len
    BY <1>5, <1>7 DEF IsWhole, EndAt, SubfieldHead, n
  <2>2. /\ content \in Seq(Bytes) /\ Len(content) = len
        /\ \A j \in 1 .. len : content[j] = rest[8 + j]
    <3> DEFINE head == 8
    <3>1. rest \in Seq(Bytes)
      BY <1>2
    <3>2. head \in Nat /\ len \in Nat /\ head + len <= Len(rest)
      BY <1>1, <1>2, <1>4, <2>1
    <3> HIDE DEF head
    <3>3. /\ SubSeq(rest, head + 1, head + len) \in Seq(Bytes)
          /\ Len(SubSeq(rest, head + 1, head + len)) = len
          /\ \A j \in 1 .. len : SubSeq(rest, head + 1, head + len)[j] = rest[head + j]
      BY <3>1, <3>2, Cut
    <3> QED BY <3>3 DEF head
  <2>3. /\ piece \in Seq(Bytes) /\ Len(piece) = 8 + len
        /\ \A j \in 1 .. 8 + len : piece[j] = data[idx + j]
    <3>1. 8 + len \in Nat /\ idx + (8 + len) <= Len(data)
      BY <1>1, <1>4, <2>1 DEF n
    <3> QED BY <1>1, <3>1, Cut
  <2>4. sf = [type |-> TypeFrom(code), content |-> content]
    BY <1>5 DEF SubfieldAt, Subfield, SubfieldHead, code, rest
  <2> HIDE DEF content, piece, sf
  <2>5. sf \in SubfieldSet /\ sf.content = content /\ CodeOf(sf.type) = code
    <3>1. code \in WordRange
      <4>1. WordValues \in Nat
        BY CodecAssumption DEF WordValues
      <4> QED BY <1>4, <4>1 DEF WordRange
    <3>2. TypeFrom(code) \in SubfieldTypesRead
      BY <3>1 DEF SubfieldTypesRead
    <3> QED BY <1>4, <2>2, <2>4, <3>2, CodeOfType DEF SubfieldSet
  <2>6. /\ SubfieldBytes(sf) \in Seq(Bytes) /\ Len(SubfieldBytes(sf)) = 8 + len
        /\ \A j \in 1 .. 4 : SubfieldBytes(sf)[j] = LeBytes(code, 4)[j]
        /\ \A j \in 1 .. 4 : SubfieldBytes(sf)[4 + j] = LeBytes(len, 4)[j]
        /\ \A j \in 1 .. len : SubfieldBytes(sf)[8 + j] = content[j]
    BY <2>2, <2>5, BytesOfSubfield
  <2>7. \A j \in 1 .. 8 + len : SubfieldBytes(sf)[j] = piece[j]
    <3> TAKE j \in 1 .. 8 + len
    <3>1. CASE j \in 1 .. 4
      <4>1. j \in 1 .. n - idx
        BY <1>1, <3>1
      <4> QED BY <1>2, <1>4, <2>3, <2>6, <3>1, <4>1
    <3>2. CASE j \in 5 .. 8
      <4> DEFINE k == j - 4
      <4>1. k \in 1 .. 4 /\ 4 + k = j /\ idx + 4 + k = idx + j
        BY <1>1, <3>2
      <4> HIDE DEF k
      <4>2. SubfieldBytes(sf)[4 + k] = LeBytes(len, 4)[k] /\ data[idx + 4 + k] = LeBytes(len, 4)[k]
        BY <1>6, <2>6, <4>1
      <4> QED BY <2>3, <4>1, <4>2
    <3>3. CASE j \in 9 .. 8 + len
      <4> DEFINE k == j - 8
      <4>1. k \in 1 .. len /\ 8 + k = j /\ 8 + k \in 1 .. n - idx
        BY <1>1, <1>4, <2>1, <3>3
      <4> HIDE DEF k
      <4>2. SubfieldBytes(sf)[8 + k] = content[k] /\ content[k] = rest[8 + k]
            /\ rest[8 + k] = data[idx + (8 + k)]
        BY <1>2, <2>2, <2>6, <4>1
      <4> QED BY <2>3, <4>1, <4>2
    <3>4. j \in 1 .. 4 \/ j \in 5 .. 8 \/ j \in 9 .. 8 + len
      BY <1>4
    <3> QED BY <3>1, <3>2, <3>3, <3>4
  <2>8. SubfieldBytes(sf) = piece
    BY <2>3, <2>6, <2>7, SeqEqual
  <2>9. idx + (8 + len) = idx + 8 + len /\ idx + 8 + len \in idx + 8 .. n
    BY <1>1, <1>4, <2>1
  <2> QED BY <2>1, <2>2, <2>5, <2>8, <2>9 DEF piece, sf, SubfieldHead
<1> QED BY <1>4, <1>5, <1>6, <1>7 DEF n

\* The loop from byte idx on, when walk is what it gives from further on.
WalkStep(walk, data, idx) ==
  IF idx = Len(data) THEN [ok |-> TRUE, sub_fields |-> << >>]
  ELSE IF ~IsWhole(data, idx) \/ ~walk[EndAt(data, idx)].ok THEN ReadErr
  ELSE [walk[EndAt(data, idx)] EXCEPT !.sub_fields = <<SubfieldAt(data, idx)>> \o @]

\* What reading gives: subfields, or an error.
Read(s) == [ok |-> TRUE, sub_fields |-> s]
Walks == {ReadErr} \cup {Read(s) : s \in Seq(SubfieldSet)}

\* It gives an error or subfields.
LEMMA WalkTyped ==
  ASSUME NEW data \in Seq(Bytes), NEW walk, NEW idx \in 0 .. Len(data),
         IsWhole(data, idx) => walk[EndAt(data, idx)] \in Walks
  PROVE  /\ WalkStep(walk, data, idx) \in Walks
         /\ idx # Len(data) /\ IsWhole(data, idx) => \A s \in Seq(SubfieldSet) :
              walk[EndAt(data, idx)] = Read(s) =>
                WalkStep(walk, data, idx) = Read(<<SubfieldAt(data, idx)>> \o s)
<1> DEFINE x == SubfieldAt(data, idx)
           more == walk[EndAt(data, idx)]
<1>1. << >> \in Seq(SubfieldSet)
  BY EmptySeq
<1>2. IsWhole(data, idx) => x \in SubfieldSet
  BY HeadOf DEF IsWhole
<1>3. ASSUME IsWhole(data, idx), NEW s \in Seq(SubfieldSet) PROVE <<x>> \o s \in Seq(SubfieldSet)
  <2>1. <<x>> \in Seq(SubfieldSet)
    BY <1>2, <1>3
  <2> HIDE DEF x
  <2> QED BY <2>1, ConcatProperties
<1> HIDE DEF x
<1>4. WalkStep(walk, data, idx) =
        IF idx = Len(data) THEN Read(<< >>)
        ELSE IF ~IsWhole(data, idx) \/ ~more.ok THEN ReadErr
        ELSE [more EXCEPT !.sub_fields = <<x>> \o @]
  BY DEF WalkStep, Read, x
<1> HIDE DEF more
<1>5. ASSUME IsWhole(data, idx), NEW s \in Seq(SubfieldSet), more = Read(s)
      PROVE  more.ok /\ [more EXCEPT !.sub_fields = <<x>> \o @] = Read(<<x>> \o s)
  <2> DEFINE y == <<x>> \o s
  <2>1. more = [ok |-> TRUE, sub_fields |-> s]
    BY <1>5 DEF Read
  <2>2. more.ok /\ more.sub_fields = s
    BY <2>1
  <2>3. [more EXCEPT !.sub_fields = <<x>> \o @] = [more EXCEPT !.sub_fields = y]
    BY <2>2
  <2> HIDE DEF y
  <2>4. [more EXCEPT !.sub_fields = y] = [ok |-> TRUE, sub_fields |-> y]
    <3>1. \A b : [[ok |-> b, sub_fields |-> s] EXCEPT !.sub_fields = y] = [ok |-> b, sub_fields |-> y]
      OBVIOUS
    <3> QED BY <2>1, <3>1, Zenon
  <2> QED BY <2>2, <2>3, <2>4 DEF Read, y
<1>6. \A s \in Seq(SubfieldSet) : Read(s) \in Walks
  BY DEF Walks
<1>7. ~ReadErr.ok /\ ReadErr \in Walks
  BY DEF ReadErr, Walks
<1>8. WalkStep(walk, data, idx) \in Walks
  <2>1. CASE idx = Len(data)
    BY <1>1, <1>4, <1>6, <2>1
  <2>2. CASE idx # Len(data) /\ (~IsWhole(data, idx) \/ ~more.ok)
    BY <1>4, <1>7, <2>2
  <2>3. CASE idx # Len(data) /\ IsWhole(data, idx) /\ more.ok
    <3>1. more \in Walks
      BY <2>3 DEF more
    <3>2. PICK s \in Seq(SubfieldSet) : more = Read(s)
      BY <1>7, <2>3, <3>1 DEF Walks
    <3>3. WalkStep(walk, data, idx) = Read(<<x>> \o s)
      BY <1>4, <1>5, <2>3, <3>2
    <3> QED BY <1>3, <1>6, <2>3, <3>3
  <2> QED BY <2>1, <2>2, <2>3
<1> QED BY <1>4, <1>5, <1>8 DEF x, more

\* So the loop is this function.
LEMMA Walked ==
  ASSUME NEW data \in Seq(Bytes)
  PROVE  \A idx \in 0 .. Len(data) :
           /\ SubfieldsFrom(data)[idx] = WalkStep(SubfieldsFrom(data), data, idx)
           /\ SubfieldsFrom(data)[idx] \in Walks
<1> DEFINE n == Len(data)
           D == 0 .. n
           Rhs(walk) == [idx \in 0 .. Len(data) |->
             LET rest == DropBytes(data, idx)
                 len == LeWord(DropBytes(rest, 4), 4)
             IN CASE rest = << >> -> [ok |-> TRUE, sub_fields |-> << >>]
                  [] Len(rest) \in 1 .. SubfieldHead - 1 -> ReadErr
                  [] OTHER ->
                       IF ~SubfieldFits(rest, len) THEN ReadErr
                       ELSE LET more == walk[idx + SubfieldHead + len]
                            IN IF ~more.ok THEN ReadErr
                               ELSE [more EXCEPT !.sub_fields =
                                       <<Subfield(TypeFrom(LeWord(rest, 4)),
                                                  SubSeq(rest, SubfieldHead + 1, SubfieldHead + len))>> \o @]]
           W == CHOOSE walk : walk = Rhs(walk)
<1>1. SubfieldsFrom(data) = W
  BY DEF SubfieldsFrom
<1>2. n \in Nat
  BY LenProperties
<1>3. ASSUME NEW walk, NEW idx \in D PROVE Rhs(walk)[idx] = WalkStep(walk, data, idx)
  <2> DEFINE rest == DropBytes(data, idx)
  <2>1. rest \in Seq(Bytes) /\ Len(rest) = n - idx
    BY Dropped
  <2>2. rest = << >> <=> idx = Len(data)
    <3>1. rest = << >> <=> Len(rest) = 0
      BY <2>1, EmptySeq
    <3> QED BY <1>2, <2>1, <3>1
  <2>3. idx # Len(data) => (Len(rest) \in 1 .. SubfieldHead - 1 <=> ~HasHead(data, idx))
    BY <1>2, <2>1 DEF HasHead, SubfieldHead
  <2>4. ASSUME HasHead(data, idx)
        PROVE  /\ SubfieldFits(rest, LenAt(data, idx)) <=> IsWhole(data, idx)
               /\ idx # Len(data)
    <3>1. LenAt(data, idx) \in Nat
      BY <2>4, HeadOf
    <3> QED BY <1>2, <2>1, <2>4, <3>1 DEF SubfieldFits, IsWhole, EndAt, HasHead, SubfieldHead
  <2>5. idx \in 0 .. Len(data) /\ (IsWhole(data, idx) => HasHead(data, idx))
    BY DEF IsWhole
  <2> HIDE DEF rest, D, n
  <2>6. Rhs(walk)[idx] =
          IF rest = << >> THEN [ok |-> TRUE, sub_fields |-> << >>]
          ELSE IF Len(rest) \in 1 .. SubfieldHead - 1 THEN ReadErr
          ELSE IF ~SubfieldFits(rest, LenAt(data, idx)) THEN ReadErr
          ELSE IF ~walk[EndAt(data, idx)].ok THEN ReadErr
          ELSE [walk[EndAt(data, idx)] EXCEPT !.sub_fields = <<SubfieldAt(data, idx)>> \o @]
    BY <2>2, <2>3, <2>4, <2>5 DEF EndAt, SubfieldAt, LenAt, rest
  <2> HIDE DEF Rhs
  <2> QED BY <2>2, <2>3, <2>4, <2>5, <2>6 DEF WalkStep
<1>4. \A walk : Rhs(walk) = [idx \in D |-> WalkStep(walk, data, idx)]
  <2> TAKE walk
  <2>1. \A idx \in D : Rhs(walk)[idx] = WalkStep(walk, data, idx)
    BY <1>3
  <2>2. Rhs(walk) = [idx \in D |-> Rhs(walk)[idx]]
    OBVIOUS
  <2> HIDE DEF Rhs, D
  <2> QED BY <2>1, <2>2
<1> HIDE DEF Rhs
<1>5. ASSUME NEW idx \in D, IsWhole(data, idx) PROVE EndAt(data, idx) \in D /\ EndAt(data, idx) > idx
  <2>1. HasHead(data, idx)
    BY <1>5 DEF IsWhole
  <2>2. EndAt(data, idx) \in idx + SubfieldHead .. Len(data)
    BY <1>5, <2>1, HeadOf
  <2> QED BY <1>2, <2>2 DEF SubfieldHead
<1>6. PICK h \in [D -> Walks] : h = Rhs(h)
  <2> DEFINE stop == {idx \in D : idx = n \/ ~IsWhole(data, idx)}
             base == [idx \in D |-> IF idx = n THEN Read(<< >>) ELSE ReadErr]
             next == [idx \in D |-> IF IsWhole(data, idx) THEN EndAt(data, idx) ELSE idx]
             mu == [idx \in D |-> n - idx]
             one(idx, more) == WalkStep([k \in {EndAt(data, idx)} |-> more], data, idx)
             g == [p \in D \X Walks |-> one(p[1], p[2])]
  <2>1. base \in [D -> Walks]
    <3>1. Read(<< >>) \in Walks /\ ReadErr \in Walks
      BY EmptySeq DEF Walks
    <3> QED BY <3>1
  <2>2. \A idx \in D, more \in Walks : one(idx, more) \in Walks
    <3> TAKE idx \in D, more \in Walks
    <3> DEFINE walk == [k \in {EndAt(data, idx)} |-> more]
    <3>1. walk[EndAt(data, idx)] \in Walks
      OBVIOUS
    <3> HIDE DEF walk
    <3>2. WalkStep(walk, data, idx) \in Walks
      BY <3>1, WalkTyped
    <3> QED BY <3>2 DEF walk
  <2>3. g \in [D \X Walks -> Walks]
    <3> HIDE DEF one, D
    <3> QED BY <2>2
  <2>4. next \in [D -> D] /\ stop \in SUBSET D
    <3> HIDE DEF D
    <3> QED BY <1>5
  <2>5. /\ mu \in [D -> Nat] /\ (\A idx \in D : mu[idx] <= n)
        /\ \A idx \in D \ stop : mu[next[idx]] < mu[idx]
    <3>1. mu \in [D -> Nat] /\ \A idx \in D : mu[idx] <= n
      BY <1>2
    <3>2. ASSUME NEW idx \in D \ stop PROVE mu[next[idx]] < mu[idx]
      <4>1. IsWhole(data, idx) /\ next[idx] = EndAt(data, idx)
        OBVIOUS
      <4> DEFINE e == EndAt(data, idx)
      <4>2. e \in D /\ e > idx /\ mu[next[idx]] = n - e /\ mu[idx] = n - idx
        <5>1. e \in D /\ e > idx /\ next[idx] = e
          BY <1>5, <4>1
        <5> HIDE DEF next, e
        <5> QED BY <5>1
      <4> HIDE DEF e, mu, next
      <4> QED BY <1>2, <4>2
    <3> QED BY <3>1, <3>2
  <2>6. GoesDown(D, Walks, base, g, stop, next, mu, n)
    <3> HIDE DEF D, base, g, stop, next, mu
    <3> QED BY <1>2, <2>1, <2>3, <2>4, <2>5 DEF GoesDown
  <2>7. PICK h \in [D -> Walks] :
          \A idx \in D : h[idx] = IF idx \in stop THEN base[idx] ELSE g[<<idx, h[next[idx]]>>]
    <3> HIDE DEF D, base, g, stop, next, mu
    <3> QED BY <2>6, Recursion
  <2>8. ASSUME NEW idx \in D PROVE h[idx] = WalkStep(h, data, idx)
    <3>1. CASE idx = n
      <4>1. h[idx] = Read(<< >>)
        BY <2>7, <3>1
      <4> QED BY <3>1, <4>1 DEF WalkStep, Read
    <3>2. CASE idx # n /\ ~IsWhole(data, idx)
      <4>1. h[idx] = ReadErr
        BY <2>7, <3>2
      <4> QED BY <3>2, <4>1 DEF WalkStep
    <3>3. CASE idx # n /\ IsWhole(data, idx)
      <4> DEFINE e == EndAt(data, idx)
      <4>1. e \in D /\ h[e] \in Walks /\ idx \notin stop /\ next[idx] = e
        <5>1. e \in D
          BY <1>5, <3>3
        <5>2. h[e] \in Walks
          <6> HIDE DEF D, e
          <6> QED BY <2>7, <5>1
        <5> QED BY <3>3, <5>1, <5>2
      <4>2. h[idx] = g[<<idx, h[e]>>]
        <5> HIDE DEF D, base, g, stop, next, mu, e
        <5> QED BY <2>7, <4>1
      <4>3. g[<<idx, h[e]>>] = one(idx, h[e])
        <5> HIDE DEF D, one, e
        <5> QED BY <4>1
      <4>4. one(idx, h[e]) = WalkStep(h, data, idx)
        BY DEF WalkStep
      <4> QED BY <4>2, <4>3, <4>4
    <3> QED BY <3>1, <3>2, <3>3
  <2>9. h = [idx \in D |-> WalkStep(h, data, idx)]
    <3> HIDE DEF D
    <3> QED BY <2>7, <2>8
  <2> QED BY <1>4, <2>7, <2>9
<1>7. W = Rhs(W)
  BY <1>6
<1> HIDE DEF W
<1>8. \A idx \in D : W[idx] = WalkStep(W, data, idx)
  <2>1. W = [idx \in D |-> WalkStep(W, data, idx)]
    BY <1>4, <1>7
  <2> HIDE DEF D
  <2> QED BY <2>1
<1> DEFINE P == {m \in Nat : \A idx \in D : n - idx < m => W[idx] \in Walks}
<1>9. 0 \in P
  BY <1>2
<1>10. ASSUME NEW m \in Nat, m \in P PROVE m + 1 \in P
  <2> SUFFICES ASSUME NEW idx \in D, n - idx < m + 1 PROVE W[idx] \in Walks
    OBVIOUS
  <2>1. IsWhole(data, idx) => W[EndAt(data, idx)] \in Walks
    <3> SUFFICES ASSUME IsWhole(data, idx) PROVE W[EndAt(data, idx)] \in Walks
      OBVIOUS
    <3> DEFINE e == EndAt(data, idx)
    <3>1. e \in D /\ e > idx
      BY <1>5
    <3> HIDE DEF e
    <3>2. n - e < m
      BY <1>2, <3>1
    <3>3. W[e] \in Walks
      BY <1>10, <3>1, <3>2
    <3> QED BY <3>3 DEF e
  <2>2. WalkStep(W, data, idx) \in Walks
    BY <2>1, WalkTyped
  <2> QED BY <1>8, <2>2
<1> HIDE DEF P
<1>11. \A idx \in D : W[idx] \in Walks
  <2> TAKE idx \in D
  <2>1. n + 1 \in Nat /\ n - idx < n + 1
    BY <1>2
  <2>2. n + 1 \in P
    BY <1>9, <1>10, <2>1, NatInduct
  <2> QED BY <2>1, <2>2 DEF P
<1> QED BY <1>1, <1>8, <1>11

\* The first of a row of sequences stands before the others.
LEMMA FlattenCons ==
  ASSUME NEW S, NEW a \in Seq(S), NEW ss \in Seq(Seq(S))
  PROVE  FlattenSeq(<<a>> \o ss) = a \o FlattenSeq(ss)
<1> DEFINE n == Len(ss)
           more == <<a>> \o ss
<1>1. n \in Nat /\ \A i \in 1 .. n : ss[i] \in Seq(S)
  BY LenProperties, ElementOfSeq
<1>2. more \in Seq(Seq(S)) /\ Len(more) = n + 1 /\ more[1] = a /\ \A i \in 1 .. n : more[i + 1] = ss[i]
  <2> DEFINE one == <<a>>
  <2>1. one \in Seq(Seq(S)) /\ Len(one) = 1 /\ one[1] = a
    OBVIOUS
  <2> HIDE DEF one
  <2>2. one \in Seq(Seq(S)) /\ ss \in Seq(Seq(S))
    BY <2>1
  <2>3. /\ one \o ss \in Seq(Seq(S)) /\ Len(one \o ss) = Len(one) + Len(ss)
        /\ \A i \in 1 .. Len(one) : (one \o ss)[i] = one[i]
        /\ \A i \in 1 .. Len(ss) : (one \o ss)[Len(one) + i] = ss[i]
    BY <2>2, Joined
  <2> DEFINE m == one \o ss
  <2>4. more = m
    BY DEF one
  <2> HIDE DEF m, more, n
  <2>5. \A i \in 1 .. n : 1 + i = i + 1
    BY <1>1
  <2> QED BY <1>1, <2>1, <2>3, <2>4, <2>5 DEF m, n
<1>3. PICK F \in [0 .. n -> Seq(S)] :
        F[0] = << >> /\ (\A i \in 1 .. n : F[i] = F[i - 1] \o ss[i]) /\ FlattenSeq(ss) = F[n]
  BY Flattened
<1> HIDE DEF more
<1>4. PICK G \in [0 .. Len(more) -> Seq(S)] :
        G[0] = << >> /\ (\A i \in 1 .. Len(more) : G[i] = G[i - 1] \o more[i])
        /\ FlattenSeq(more) = G[Len(more)]
  BY <1>2, Flattened
<1> HIDE DEF n
<1> DEFINE P == {i \in Nat : i <= n => G[i + 1] = a \o F[i]}
<1>5. 0 \in P
  <2>1. 1 \in 1 .. Len(more) /\ 1 - 1 = 0 /\ 0 + 1 = 1
    BY <1>1, <1>2
  <2>2. G[1] = << >> \o a
    BY <1>2, <1>4, <2>1
  <2>3. << >> \o a = a /\ a \o << >> = a
    BY ConcatEmptySeq
  <2> QED BY <1>3, <2>1, <2>2, <2>3
<1>6. ASSUME NEW k \in Nat, k \in P PROVE k + 1 \in P
  <2> SUFFICES ASSUME k + 1 <= n PROVE G[(k + 1) + 1] = a \o F[k + 1]
    OBVIOUS
  <2>1. k + 1 \in 1 .. n /\ (k + 1) + 1 \in 1 .. Len(more) /\ ((k + 1) + 1) - 1 = k + 1 /\ (k + 1) - 1 = k
        /\ k \in 0 .. n
    BY <1>1, <1>2
  <2>2. G[k + 1] = a \o F[k] /\ F[k] \in Seq(S) /\ ss[k + 1] \in Seq(S)
    BY <1>1, <1>3, <1>6, <2>1
  <2>3. G[(k + 1) + 1] = G[k + 1] \o more[(k + 1) + 1] /\ more[(k + 1) + 1] = ss[k + 1]
        /\ F[k + 1] = F[k] \o ss[k + 1]
    BY <1>2, <1>3, <1>4, <2>1, Zenon
  <2> DEFINE s == F[k]
             t == ss[k + 1]
  <2>4. s \in Seq(S) /\ t \in Seq(S)
    BY <2>2
  <2> HIDE DEF s, t
  <2>5. (a \o s) \o t = a \o (s \o t)
    <3>1. a \in Seq(S)
      OBVIOUS
    <3> QED BY <2>4, <3>1, ConcatAssociative
  <2> QED BY <2>2, <2>3, <2>5 DEF s, t
<1> HIDE DEF P
<1>7. n \in P
  BY <1>1, <1>5, <1>6, NatInduct
<1>8. n \in Nat /\ Len(more) = n + 1
  BY <1>1, <1>2
<1>9. G[n + 1] = a \o F[n]
  BY <1>7, <1>8 DEF P
<1>10. FlattenSeq(more) = a \o FlattenSeq(ss)
  BY <1>3, <1>4, <1>8, <1>9, Zenon
<1> QED BY <1>10 DEF more

\* The bytes of a row of subfields.
BytesOf(sfs) == [i \in DOMAIN sfs |-> SubfieldBytes(sfs[i])]

\* The bytes of each subfield, in their order.
LEMMA BytesOfRow ==
  ASSUME NEW sfs \in Seq(SubfieldSet)
  PROVE  /\ BytesOf(sfs) \in Seq(Seq(Bytes)) /\ Len(BytesOf(sfs)) = Len(sfs)
         /\ \A i \in 1 .. Len(sfs) : sfs[i] \in SubfieldSet /\ BytesOf(sfs)[i] = SubfieldBytes(sfs[i])
         /\ SubfieldsBytes(sfs) = FlattenSeq(BytesOf(sfs))
<1> DEFINE n == Len(sfs)
<1>1. n \in Nat /\ DOMAIN sfs = 1 .. n /\ \A i \in 1 .. n : sfs[i] \in SubfieldSet
  BY LenProperties, ElementOfSeq
<1>2. \A i \in 1 .. n : SubfieldBytes(sfs[i]) \in Seq(Bytes)
  BY <1>1, BytesOfSubfield
<1>3. BytesOf(sfs) = [i \in 1 .. n |-> SubfieldBytes(sfs[i])]
  BY <1>1 DEF BytesOf
<1> HIDE DEF n
<1>4. BytesOf(sfs) \in [1 .. n -> Seq(Bytes)] /\ \A i \in 1 .. n : BytesOf(sfs)[i] = SubfieldBytes(sfs[i])
  BY <1>2, <1>3
<1>5. BytesOf(sfs) \in Seq(Seq(Bytes)) /\ Len(BytesOf(sfs)) = n
  BY <1>1, <1>4, RowIsSeq
<1> QED BY <1>1, <1>4, <1>5 DEF SubfieldsBytes, BytesOf, n

\* The bytes of a first subfield stand before those of the others.
LEMMA BytesOfCons ==
  ASSUME NEW x \in SubfieldSet, NEW sfs \in Seq(SubfieldSet)
  PROVE  SubfieldsBytes(<<x>> \o sfs) = SubfieldBytes(x) \o SubfieldsBytes(sfs)
<1> DEFINE one == <<x>>
           a == SubfieldBytes(x)
           more == <<a>> \o BytesOf(sfs)
<1>1. one \in Seq(SubfieldSet) /\ Len(one) = 1 /\ one[1] = x
  OBVIOUS
<1>2. a \in Seq(Bytes) /\ BytesOf(sfs) \in Seq(Seq(Bytes)) /\ Len(BytesOf(sfs)) = Len(sfs)
  BY BytesOfSubfield, BytesOfRow
<1> HIDE DEF a
<1>3. <<a>> \in Seq(Seq(Bytes)) /\ Len(<<a>>) = 1 /\ <<a>>[1] = a
  BY <1>2
<1> HIDE DEF one
<1>4. /\ one \o sfs \in Seq(SubfieldSet) /\ Len(one \o sfs) = 1 + Len(sfs)
      /\ (one \o sfs)[1] = x
      /\ \A i \in 1 .. Len(sfs) : (one \o sfs)[1 + i] = sfs[i]
  <2>1. one \in Seq(SubfieldSet) /\ sfs \in Seq(SubfieldSet)
    BY <1>1
  <2> DEFINE m == one \o sfs
  <2>2. /\ m \in Seq(SubfieldSet) /\ Len(m) = Len(one) + Len(sfs)
        /\ \A i \in 1 .. Len(one) : m[i] = one[i]
        /\ \A i \in 1 .. Len(sfs) : m[Len(one) + i] = sfs[i]
    BY <2>1, Joined
  <2> HIDE DEF m
  <2>3. 1 \in 1 .. Len(one)
    BY <1>1
  <2>4. m[1] = x /\ Len(m) = 1 + Len(sfs) /\ \A i \in 1 .. Len(sfs) : m[1 + i] = sfs[i]
    BY <1>1, <2>2, <2>3
  <2> QED BY <2>2, <2>4 DEF m
<1>5. /\ more \in Seq(Seq(Bytes)) /\ Len(more) = 1 + Len(sfs)
      /\ more[1] = a
      /\ \A i \in 1 .. Len(sfs) : more[1 + i] = BytesOf(sfs)[i]
  <2> DEFINE head == <<a>>
             tail == BytesOf(sfs)
             m == head \o tail
  <2>1. head \in Seq(Seq(Bytes)) /\ tail \in Seq(Seq(Bytes)) /\ Len(head) = 1 /\ head[1] = a
    BY <1>2, <1>3
  <2> HIDE DEF head, tail
  <2>5. head \in Seq(Seq(Bytes)) /\ tail \in Seq(Seq(Bytes))
    BY <2>1
  <2>2. /\ m \in Seq(Seq(Bytes)) /\ Len(m) = Len(head) + Len(tail)
        /\ \A i \in 1 .. Len(head) : m[i] = head[i]
        /\ \A i \in 1 .. Len(tail) : m[Len(head) + i] = tail[i]
    BY <2>5, Joined
  <2> HIDE DEF m
  <2>3. 1 \in 1 .. Len(head) /\ Len(tail) = Len(sfs)
    BY <1>2, <2>1 DEF tail
  <2>4. m[1] = a /\ Len(m) = 1 + Len(sfs) /\ \A i \in 1 .. Len(sfs) : m[1 + i] = tail[i]
    BY <2>1, <2>2, <2>3
  <2> QED BY <2>2, <2>4 DEF m, head, tail
<1> HIDE DEF more
<1>6. /\ BytesOf(one \o sfs) \in Seq(Seq(Bytes)) /\ Len(BytesOf(one \o sfs)) = 1 + Len(sfs)
      /\ \A i \in 1 .. 1 + Len(sfs) : BytesOf(one \o sfs)[i] = SubfieldBytes((one \o sfs)[i])
      /\ SubfieldsBytes(one \o sfs) = FlattenSeq(BytesOf(one \o sfs))
  <2> DEFINE m == one \o sfs
  <2>1. m \in Seq(SubfieldSet) /\ Len(m) = 1 + Len(sfs)
    BY <1>4
  <2> HIDE DEF m
  <2>2. /\ BytesOf(m) \in Seq(Seq(Bytes)) /\ Len(BytesOf(m)) = 1 + Len(sfs)
        /\ \A i \in 1 .. 1 + Len(sfs) : BytesOf(m)[i] = SubfieldBytes(m[i])
        /\ SubfieldsBytes(m) = FlattenSeq(BytesOf(m))
    BY <2>1, BytesOfRow
  <2> QED BY <2>2 DEF m
<1>7. \A i \in 1 .. 1 + Len(sfs) : BytesOf(one \o sfs)[i] = more[i]
  <2> TAKE i \in 1 .. 1 + Len(sfs)
  <2>1. CASE i = 1
    BY <1>4, <1>5, <1>6, <2>1 DEF a
  <2>2. CASE i # 1
    <3> DEFINE k == i - 1
    <3>1. k \in 1 .. Len(sfs) /\ 1 + k = i
      BY <2>2, LenProperties
    <3> HIDE DEF k
    <3>2. BytesOf(one \o sfs)[1 + k] = SubfieldBytes(sfs[k]) /\ more[1 + k] = BytesOf(sfs)[k]
      BY <1>4, <1>5, <1>6, <3>1
    <3>3. BytesOf(sfs)[k] = SubfieldBytes(sfs[k])
      BY <3>1, BytesOfRow
    <3> QED BY <3>1, <3>2, <3>3
  <2> QED BY <2>1, <2>2
<1>8. BytesOf(one \o sfs) = more
  <2> DEFINE s == BytesOf(one \o sfs)
  <2>1. s \in Seq(Seq(Bytes)) /\ Len(s) = Len(more) /\ \A i \in 1 .. Len(s) : s[i] = more[i]
    BY <1>5, <1>6, <1>7
  <2> HIDE DEF s
  <2>2. s = more
    BY <1>5, <2>1, SeqEqual
  <2> QED BY <2>2 DEF s
<1>9. FlattenSeq(more) = a \o FlattenSeq(BytesOf(sfs))
  BY <1>2, FlattenCons DEF more
<1>10. SubfieldsBytes(sfs) = FlattenSeq(BytesOf(sfs))
  BY BytesOfRow
<1> QED BY <1>6, <1>8, <1>9, <1>10 DEF one, a

\* What the walk finds from a byte on stands for the bytes from there on.
LEMMA WalkKeeps ==
  ASSUME NEW data \in Seq(Bytes)
  PROVE  \A idx \in 0 .. Len(data) :
           SubfieldsFrom(data)[idx].ok =>
             /\ SubfieldsFrom(data)[idx].sub_fields \in Seq(SubfieldSet)
             /\ SubfieldsBytes(SubfieldsFrom(data)[idx].sub_fields) = DropBytes(data, idx)
<1> DEFINE n == Len(data)
           W == SubfieldsFrom(data)
           Keeps(idx) == \E s \in Seq(SubfieldSet) :
             W[idx] = Read(s) /\ SubfieldsBytes(s) = DropBytes(data, idx)
           P == {m \in Nat : \A idx \in 0 .. n : n - idx < m /\ W[idx].ok => Keeps(idx)}
<1>1. n \in Nat
  BY LenProperties
<1>2. \A idx \in 0 .. n : W[idx] = WalkStep(W, data, idx) /\ W[idx] \in Walks
  BY Walked
<1> HIDE DEF W
<1>3. ASSUME NEW idx \in 0 .. n, W[idx].ok,
             IsWhole(data, idx) /\ W[EndAt(data, idx)].ok => Keeps(EndAt(data, idx))
      PROVE  Keeps(idx)
  <2>1. CASE idx = n
    <3>1. W[idx] = Read(<< >>)
      BY <1>2, <2>1 DEF WalkStep, Read
    <3>2. << >> \in Seq(SubfieldSet) /\ SubfieldsBytes(<< >>) = << >>
      <4>1. << >> \in Seq(SubfieldSet) /\ Len(<< >>) = 0
        BY EmptySeq
      <4>2. /\ BytesOf(<< >>) \in Seq(Seq(Bytes)) /\ Len(BytesOf(<< >>)) = 0
            /\ SubfieldsBytes(<< >>) = FlattenSeq(BytesOf(<< >>))
        <5> DEFINE none == << >>
        <5>1. none \in Seq(SubfieldSet) /\ Len(none) = 0
          BY <4>1
        <5> HIDE DEF none
        <5>2. /\ BytesOf(none) \in Seq(Seq(Bytes)) /\ Len(BytesOf(none)) = 0
              /\ SubfieldsBytes(none) = FlattenSeq(BytesOf(none))
          BY <5>1, BytesOfRow
        <5> QED BY <5>2 DEF none
      <4>3. FlattenSeq(BytesOf(<< >>)) = << >>
        <5> DEFINE b == BytesOf(<< >>)
        <5>1. b \in Seq(Seq(Bytes)) /\ Len(b) = 0
          BY <4>2
        <5> HIDE DEF b
        <5>2. PICK F \in [0 .. Len(b) -> Seq(Bytes)] : F[0] = << >> /\ FlattenSeq(b) = F[Len(b)]
          BY <5>1, Flattened
        <5> QED BY <5>1, <5>2 DEF b
      <4> QED BY <4>1, <4>2, <4>3
    <3>3. DropBytes(data, idx) = << >>
      <4>1. DropBytes(data, idx) \in Seq(Bytes) /\ Len(DropBytes(data, idx)) = 0
        BY <1>1, <2>1, Dropped
      <4> QED BY <4>1, EmptySeq
    <3> QED BY <3>1, <3>2, <3>3
  <2>2. CASE idx # n
    <3> DEFINE e == EndAt(data, idx)
               x == SubfieldAt(data, idx)
    <3>1. IsWhole(data, idx) /\ W[e].ok
      <4>1. ~ReadErr.ok
        BY DEF ReadErr
      <4>2. ~(~IsWhole(data, idx) \/ ~W[e].ok)
        <5> SUFFICES ASSUME ~IsWhole(data, idx) \/ ~W[e].ok PROVE FALSE
          OBVIOUS
        <5>1. WalkStep(W, data, idx) = ReadErr
          BY <2>2, Zenon DEF WalkStep
        <5>2. W[idx] = ReadErr
          BY <1>2, <5>1
        <5> QED BY <1>3, <4>1, <5>2
      <4> QED BY <4>2
    <3>2. PICK s \in Seq(SubfieldSet) : W[e] = Read(s) /\ SubfieldsBytes(s) = DropBytes(data, e)
      BY <1>3, <3>1
    <3>3. HasHead(data, idx)
      BY <3>1 DEF IsWhole
    <3>4. /\ x \in SubfieldSet /\ SubfieldBytes(x) = SubSeq(data, idx + 1, e)
          /\ e \in idx + SubfieldHead .. n
      BY <3>1, <3>3, HeadOf
    <3>5. W[idx] = Read(<<x>> \o s)
      <4>1. WalkStep(W, data, idx) = Read(<<x>> \o s)
        <5>1. W[e] \in Walks
          BY <3>2 DEF Walks
        <5>2. \A t \in Seq(SubfieldSet) : W[e] = Read(t) => WalkStep(W, data, idx) = Read(<<x>> \o t)
          BY <2>2, <3>1, <5>1, WalkTyped
        <5> QED BY <3>2, <5>2
      <4> QED BY <1>2, <4>1
    <3>6. SubfieldsBytes(<<x>> \o s) = SubSeq(data, idx + 1, e) \o SubSeq(data, e + 1, n)
      <4>1. SubfieldsBytes(<<x>> \o s) = SubfieldBytes(x) \o SubfieldsBytes(s)
        BY <3>4, BytesOfCons
      <4> QED BY <3>2, <3>4, <4>1 DEF DropBytes
    <3>7. <<x>> \o s \in Seq(SubfieldSet)
      <4> DEFINE one == <<x>>
      <4>1. one \in Seq(SubfieldSet) /\ s \in Seq(SubfieldSet)
        BY <3>4
      <4> HIDE DEF one
      <4>2. one \o s \in Seq(SubfieldSet)
        BY <4>1, ConcatProperties
      <4> QED BY <4>2 DEF one
    <3> HIDE DEF e, x
    <3>8. SubSeq(data, idx + 1, e) \o SubSeq(data, e + 1, n) = SubSeq(data, idx + 1, n)
      <4> DEFINE m == idx + 1
                 l == n
      <4>1. m \in 1 .. Len(data) + 1 /\ e \in m - 1 .. Len(data) /\ l \in e .. Len(data)
        BY <1>1, <2>2, <3>4 DEF SubfieldHead
      <4> HIDE DEF m, l, n
      <4>2. SubSeq(data, m, e) \o SubSeq(data, e + 1, l) = SubSeq(data, m, l)
        BY <4>1, ConcatAdjacentSubSeq
      <4> QED BY <4>2 DEF m, l
    <3> QED BY <3>5, <3>6, <3>7, <3>8 DEF DropBytes
  <2> QED BY <2>1, <2>2
<1> HIDE DEF Keeps
<1>4. 0 \in P
  BY <1>1
<1>5. ASSUME NEW m \in Nat, m \in P PROVE m + 1 \in P
  <2> SUFFICES ASSUME NEW idx \in 0 .. n, n - idx < m + 1, W[idx].ok PROVE Keeps(idx)
    OBVIOUS
  <2>1. ASSUME IsWhole(data, idx), W[EndAt(data, idx)].ok PROVE Keeps(EndAt(data, idx))
    <3> DEFINE e == EndAt(data, idx)
    <3>1. HasHead(data, idx)
      BY <2>1 DEF IsWhole
    <3>2. e \in idx + SubfieldHead .. n
      BY <2>1, <3>1, HeadOf
    <3> HIDE DEF e
    <3>3. e \in 0 .. n /\ n - e < m
      BY <1>1, <3>2 DEF SubfieldHead
    <3>4. W[e].ok
      BY <2>1 DEF e
    <3>5. Keeps(e)
      BY <1>5, <3>3, <3>4
    <3> QED BY <3>5 DEF e
  <2> QED BY <1>3, <2>1
<1> HIDE DEF P
<1>6. ASSUME NEW idx \in 0 .. n, W[idx].ok PROVE Keeps(idx)
  <2>1. n + 1 \in Nat /\ n - idx < n + 1
    BY <1>1
  <2>2. n + 1 \in P
    BY <1>4, <1>5, <2>1, NatInduct
  <2> QED BY <1>6, <2>1, <2>2 DEF P
<1>7. \A s : Read(s).sub_fields = s
  BY DEF Read
<1> QED BY <1>6, <1>7 DEF Keeps, W, n

\* Where subfields with contents of these lengths start.
Starts8(start, lens) ==
  /\ start \in [1 .. Len(lens) + 1 -> Nat] /\ start[1] = 0
  /\ \A i \in 1 .. Len(lens) : start[i + 1] = start[i] + SubfieldHead + lens[i]

\* The data is a row of subfields with contents of these lengths.
LEMMA RowStarts ==
  ASSUME NEW data, NEW lens \in Seq(Nat)
  PROVE  \E start :
           /\ Starts8(start, lens)
           /\ IsRow(data, lens) <=>
                /\ start[Len(lens) + 1] = Len(data)
                /\ \A i \in 1 .. Len(lens) : LeWord(DropBytes(data, start[i] + 4), 4) = lens[i]
<1> DEFINE n == Len(lens)
           g == [p \in (0 .. n) \X Nat |-> IF p[1] = 0 THEN p[2] ELSE p[2] + SubfieldHead + lens[p[1]]]
           Rhs(f) == [i \in 1 .. Len(lens) + 1 |->
                        IF i = 1 THEN 0 ELSE f[i - 1] + SubfieldHead + lens[i - 1]]
           start == CHOOSE f : f = Rhs(f)
<1>1. n \in Nat /\ DOMAIN lens = 1 .. n /\ \A i \in 1 .. n : lens[i] \in Nat
  BY LenProperties, ElementOfSeq
<1>2. IsRow(data, lens) <=>
        /\ start[n + 1] = Len(data)
        /\ \A i \in 1 .. n : LeWord(DropBytes(data, start[i] + 4), 4) = lens[i]
  BY <1>1 DEF IsRow
<1> HIDE DEF n
<1>3. g \in [(0 .. n) \X Nat -> Nat]
  BY <1>1 DEF SubfieldHead
<1>4. \A i \in 1 .. n, k \in Nat : g[<<i, k>>] = k + SubfieldHead + lens[i]
  <2> TAKE i \in 1 .. n, k \in Nat
  <2>1. i \in 0 .. n /\ i # 0
    BY <1>1
  <2> QED BY <2>1
<1> HIDE DEF g
<1>5. PICK f \in [0 .. n -> Nat] : f[0] = 0 /\ \A i \in 1 .. n : f[i] = g[<<i, f[i - 1]>>]
  <2>1. Steps(n, Nat, 0, g)
    BY <1>1, <1>3 DEF Steps
  <2> QED BY <2>1, Iterate
<1> DEFINE h == [i \in 1 .. n + 1 |-> f[i - 1]]
<1>6. h = Rhs(h)
  <2>1. ASSUME NEW i \in 1 .. n + 1
        PROVE f[i - 1] = IF i = 1 THEN 0 ELSE h[i - 1] + SubfieldHead + lens[i - 1]
    <3>1. CASE i = 1
      BY <1>5, <3>1
    <3>2. CASE i # 1
      <4> DEFINE j == i - 1
      <4>1. j \in 1 .. n /\ j \in 1 .. n + 1 /\ j - 1 \in 0 .. n
        BY <1>1, <3>2
      <4> HIDE DEF j
      <4>2. f[j - 1] \in Nat /\ h[j] = f[j - 1]
        BY <1>5, <4>1
      <4>3. f[j] = g[<<j, f[j - 1]>>]
        BY <1>5, <4>1
      <4> QED BY <1>4, <3>2, <4>1, <4>2, <4>3 DEF j
    <3> QED BY <3>1, <3>2
  <2>2. h = [i \in 1 .. n + 1 |-> IF i = 1 THEN 0 ELSE h[i - 1] + SubfieldHead + lens[i - 1]]
    BY <2>1
  <2> HIDE DEF h
  <2> QED BY <2>2 DEF n
<1> HIDE DEF Rhs, h
<1>7. start = Rhs(start)
  BY <1>6
<1> HIDE DEF start
<1>8. /\ start = [i \in 1 .. n + 1 |-> start[i]]
      /\ start[1] = 0
      /\ \A i \in 1 .. n : start[i + 1] = start[i] + SubfieldHead + lens[i]
  <2>1. start = [i \in 1 .. n + 1 |->
                   IF i = 1 THEN 0 ELSE start[i - 1] + SubfieldHead + lens[i - 1]]
    BY <1>7 DEF Rhs, n
  <2>2. \A i \in 1 .. n + 1 :
          start[i] = IF i = 1 THEN 0 ELSE start[i - 1] + SubfieldHead + lens[i - 1]
    BY <2>1
  <2>3. 1 \in 1 .. n + 1
    BY <1>1
  <2>4. ASSUME NEW i \in 1 .. n PROVE start[i + 1] = start[i] + SubfieldHead + lens[i]
    <3> DEFINE j == i + 1
    <3>1. j \in 1 .. n + 1 /\ j # 1 /\ j - 1 = i
      BY <1>1
    <3> HIDE DEF j
    <3>2. start[j] = start[j - 1] + SubfieldHead + lens[j - 1]
      BY <2>2, <3>1
    <3> QED BY <3>1, <3>2 DEF j
  <2> QED BY <2>1, <2>2, <2>3, <2>4
<1> DEFINE P == {i \in Nat : i <= n => start[i + 1] \in Nat}
<1>9. 0 \in P
  BY <1>8
<1>10. ASSUME NEW i \in Nat, i \in P PROVE i + 1 \in P
  <2> SUFFICES ASSUME i + 1 <= n PROVE start[(i + 1) + 1] \in Nat
    OBVIOUS
  <2>1. i + 1 \in 1 .. n /\ i <= n
    BY <1>1
  <2>2. start[i + 1] \in Nat /\ start[(i + 1) + 1] = start[i + 1] + SubfieldHead + lens[i + 1]
    BY <1>8, <1>10, <2>1
  <2>3. lens[i + 1] \in Nat
    BY <1>1, <2>1
  <2> QED BY <2>2, <2>3 DEF SubfieldHead
<1> HIDE DEF P
<1>11. \A i \in 1 .. n + 1 : start[i] \in Nat
  <2>1. Nat \subseteq P
    BY <1>9, <1>10, NatInduct
  <2> TAKE i \in 1 .. n + 1
  <2> DEFINE j == i - 1
  <2>2. j \in Nat /\ j <= n /\ j + 1 = i
    BY <1>1
  <2> HIDE DEF j
  <2> QED BY <2>1, <2>2 DEF P
<1>12. Starts8(start, lens)
  <2>1. start \in [1 .. n + 1 -> Nat]
    BY <1>8, <1>11
  <2> QED BY <1>8, <2>1 DEF Starts8, n
<1> QED BY <1>2, <1>12 DEF n

\* They go up, by a head and a content at least.
LEMMA StartsGoUp ==
  ASSUME NEW lens \in Seq(Nat), NEW start, Starts8(start, lens)
  PROVE  \A k \in 1 .. Len(lens) + 1 : \A i \in 1 .. k :
           /\ start[k] >= SubfieldHead * (k - 1)
           /\ start[k] >= start[i]
           /\ i < k => start[k] >= SubfieldHead * (k - 1) + lens[i]
<1> DEFINE n == Len(lens)
           Up(k, i) == /\ start[k] >= SubfieldHead * (k - 1)
                       /\ start[k] >= start[i]
                       /\ i < k => start[k] >= SubfieldHead * (k - 1) + lens[i]
           P == {m \in Nat : m <= n => \A i \in 1 .. m + 1 : Up(m + 1, i)}
<1>1. n \in Nat /\ \A i \in 1 .. n : lens[i] \in Nat
  BY LenProperties, ElementOfSeq
<1>2. /\ \A i \in 1 .. n + 1 : start[i] \in Nat
      /\ start[1] = 0
      /\ \A i \in 1 .. n : start[i + 1] = start[i] + 8 + lens[i]
  BY DEF Starts8, SubfieldHead
<1> HIDE DEF n
<1>3. 0 \in P
  <2>1. Up(1, 1)
    BY <1>2 DEF SubfieldHead
  <2>2. 0 + 1 = 1 /\ \A i \in 1 .. 1 : i = 1
    OBVIOUS
  <2> HIDE DEF Up
  <2> QED BY <2>1, <2>2
<1>4. ASSUME NEW m \in Nat, m \in P PROVE m + 1 \in P
  <2> SUFFICES ASSUME m + 1 <= n, NEW i \in 1 .. (m + 1) + 1 PROVE Up((m + 1) + 1, i)
    OBVIOUS
  <2> DEFINE k == m + 1
  <2>1. k \in 1 .. n /\ m <= n /\ i \in 1 .. k + 1 /\ k \in Nat /\ m = k - 1
    BY <1>1
  <2>2. \A j \in 1 .. k : Up(k, j)
    BY <1>4, <2>1
  <2> HIDE DEF k
  <2>3. start[k] \in Nat /\ start[k + 1] = start[k] + 8 + lens[k] /\ lens[k] \in Nat
    BY <1>1, <1>2, <2>1
  <2>4. start[k] >= 8 * (k - 1)
    BY <2>1, <2>2 DEF SubfieldHead
  <2>5. Up(k + 1, i)
    <3>1. CASE i = k + 1
      BY <2>1, <2>3, <2>4, <3>1 DEF SubfieldHead
    <3>2. CASE i = k
      BY <2>1, <2>3, <2>4, <3>2 DEF SubfieldHead
    <3>3. CASE i \in 1 .. k - 1
      <4>1. /\ start[k] >= start[i] /\ start[k] >= 8 * (k - 1) + lens[i]
            /\ start[i] \in Nat /\ lens[i] \in Nat
        <5>1. i \in 1 .. k /\ i < k /\ i \in 1 .. n + 1 /\ i \in 1 .. n
          BY <1>1, <2>1, <3>3
        <5> QED BY <1>1, <1>2, <2>2, <5>1 DEF SubfieldHead
      <4>2. /\ start[k + 1] >= 8 * ((k + 1) - 1) /\ start[k + 1] >= start[i]
            /\ start[k + 1] >= 8 * ((k + 1) - 1) + lens[i]
        <5> DEFINE a == start[k]
                   b == start[k + 1]
                   c == lens[k]
                   d == start[i]
                   l == lens[i]
        <5>1. /\ a \in Nat /\ c \in Nat /\ d \in Nat /\ l \in Nat /\ k \in Nat /\ b = a + 8 + c
              /\ a >= d /\ a >= 8 * (k - 1) + l
          BY <2>1, <2>3, <4>1
        <5> HIDE DEF a, b, c, d, l
        <5>2. b >= 8 * ((k + 1) - 1) /\ b >= d /\ b >= 8 * ((k + 1) - 1) + l
          BY <5>1
        <5> QED BY <5>2 DEF a, b, d, l
      <4> QED BY <4>2 DEF SubfieldHead
    <3> QED BY <2>1, <3>1, <3>2, <3>3
  <2> QED BY <2>5 DEF k
<1> HIDE DEF P, Up
<1>5. \A k \in 1 .. n + 1 : \A i \in 1 .. k : Up(k, i)
  <2>1. Nat \subseteq P
    BY <1>3, <1>4, NatInduct
  <2> TAKE k \in 1 .. n + 1
  <2> DEFINE m == k - 1
  <2>2. m \in Nat /\ m <= n /\ m + 1 = k
    BY <1>1
  <2> HIDE DEF m
  <2> QED BY <2>1, <2>2 DEF P
<1> QED BY <1>5 DEF Up, n

\* What is left after what is left.
LEMMA DropTwice ==
  ASSUME NEW data \in Seq(Bytes), NEW idx \in Nat, idx + 8 <= Len(data)
  PROVE  DropBytes(DropBytes(data, idx), 4) = DropBytes(data, idx + 4)
<1> DEFINE n == Len(data)
           rest == DropBytes(data, idx)
           a == DropBytes(rest, 4)
           m == idx + 4
           b == DropBytes(data, m)
<1>1. n \in Nat /\ idx \in 0 .. n /\ m \in 0 .. n
  BY LenProperties
<1>2. /\ rest \in Seq(Bytes) /\ Len(rest) = n - idx
      /\ \A j \in 1 .. n - idx : rest[j] = data[idx + j]
  BY <1>1, Dropped
<1>3. m = idx + 4 /\ idx + 8 <= n
  OBVIOUS
<1> HIDE DEF rest, m
<1>4. b \in Seq(Bytes) /\ Len(b) = n - m /\ \A j \in 1 .. n - m : b[j] = data[m + j]
  BY <1>1, Dropped
<1>5. /\ a \in Seq(Bytes) /\ Len(a) = Len(rest) - 4
      /\ \A j \in 1 .. Len(rest) - 4 : a[j] = rest[4 + j]
  <2>1. 4 \in 0 .. Len(rest)
    BY <1>1, <1>2, <1>3
  <2> QED BY <1>2, <2>1, Dropped
<1> HIDE DEF a, b, n
<1>6. \A j \in 1 .. Len(a) : a[j] = b[j]
  <2> TAKE j \in 1 .. Len(a)
  <2>1. j \in 1 .. n - m /\ j \in 1 .. Len(rest) - 4 /\ 4 + j \in 1 .. n - idx /\ idx + (4 + j) = m + j
    BY <1>1, <1>2, <1>3, <1>5
  <2> QED BY <1>2, <1>4, <1>5, <2>1
<1>7. Len(a) = Len(b)
  BY <1>1, <1>2, <1>3, <1>4, <1>5
<1>8. a = b
  BY <1>4, <1>5, <1>6, <1>7, SeqEqual
<1> QED BY <1>8 DEF a, b, m, rest

\* A row of subfields is read as they stand.
LEMMA RowIsRead ==
  ASSUME NEW data \in Seq(Bytes), NEW lens \in Seq(Nat), NEW start, Starts8(start, lens),
         start[Len(lens) + 1] = Len(data),
         \A i \in 1 .. Len(lens) : LeWord(DropBytes(data, start[i] + 4), 4) = lens[i]
  PROVE  /\ ReadSubfields(data) = Read([j \in 1 .. Len(lens) |-> SubfieldAt(data, start[j])])
         /\ \A j \in 1 .. Len(lens) : /\ start[j] \in 0 .. Len(data) /\ IsWhole(data, start[j])
                                      /\ LenAt(data, start[j]) = lens[j]
<1> DEFINE n == Len(lens)
           W == SubfieldsFrom(data)
           Row(i) == [j \in 1 .. n + 1 - i |-> SubfieldAt(data, start[i + j - 1])]
           P == {m \in Nat : m <= n => W[start[n + 1 - m]] = Read(Row(n + 1 - m))}
<1>1. n \in Nat /\ \A i \in 1 .. n : lens[i] \in Nat
  BY LenProperties, ElementOfSeq
<1>2. /\ \A i \in 1 .. n + 1 : start[i] \in Nat
      /\ start[1] = 0 /\ start[n + 1] = Len(data)
      /\ \A i \in 1 .. n : start[i + 1] = start[i] + 8 + lens[i]
  BY DEF Starts8, SubfieldHead
<1>3. \A i \in 1 .. n + 1 : start[i] \in 0 .. Len(data)
  <2> TAKE i \in 1 .. n + 1
  <2>1. n + 1 \in 1 .. Len(lens) + 1 /\ i \in 1 .. n + 1
    BY <1>1
  <2>2. start[n + 1] >= start[i]
    BY <2>1, StartsGoUp
  <2> HIDE DEF n
  <2> QED BY <1>1, <1>2, <2>2
<1> HIDE DEF n
<1>4. ASSUME NEW i \in 1 .. n
      PROVE  /\ HasHead(data, start[i]) /\ LenAt(data, start[i]) = lens[i]
             /\ EndAt(data, start[i]) = start[i + 1]
             /\ IsWhole(data, start[i]) /\ SubfieldAt(data, start[i]) \in SubfieldSet
  <2>1. i + 1 \in 1 .. n + 1 /\ i \in 1 .. n + 1
    BY <1>1
  <2>2. start[i] \in Nat /\ start[i + 1] \in 0 .. Len(data) /\ lens[i] \in Nat
        /\ start[i + 1] = start[i] + 8 + lens[i]
    BY <1>1, <1>2, <1>3, <2>1
  <2>3. start[i] + 8 <= Len(data) /\ Len(data) \in Nat
    BY <2>2, LenProperties
  <2>4. LenAt(data, start[i]) = lens[i]
    <3>1. DropBytes(DropBytes(data, start[i]), 4) = DropBytes(data, start[i] + 4)
      BY <2>2, <2>3, DropTwice
    <3> QED BY <3>1 DEF LenAt, n
  <2>5. HasHead(data, start[i]) /\ EndAt(data, start[i]) = start[i + 1] /\ IsWhole(data, start[i])
    BY <2>2, <2>3, <2>4 DEF HasHead, EndAt, IsWhole, SubfieldHead
  <2>6. start[i] \in 0 .. Len(data)
    BY <1>3, <2>1
  <2>7. SubfieldAt(data, start[i]) \in SubfieldSet
    BY <2>5, <2>6, HeadOf
  <2> QED BY <2>4, <2>5, <2>7
<1>5. \A idx \in 0 .. Len(data) : W[idx] = WalkStep(W, data, idx) /\ W[idx] \in Walks
  BY Walked
<1>6. ReadSubfields(data) = W[0]
  BY DEF ReadSubfields
<1> HIDE DEF W
<1>7. 0 \in P
  <2>1. n + 1 - 0 = n + 1 /\ n + 1 + 1 - (n + 1) = 1 /\ n + 1 \in 1 .. n + 1
    BY <1>1
  <2>2. W[start[n + 1]] = Read(<< >>)
    <3>1. Len(data) \in 0 .. Len(data)
      BY LenProperties
    <3>2. W[Len(data)] = WalkStep(W, data, Len(data))
      BY <1>5, <3>1
    <3> QED BY <1>2, <3>2 DEF WalkStep, Read
  <2>3. Row(n + 1) = << >>
    <3>1. n + 1 - (n + 1) = 0
      BY <1>1
    <3>2. Row(n + 1) \in [1 .. 0 -> SubfieldSet] /\ 0 \in Nat
      BY <3>1
    <3>3. Row(n + 1) \in Seq(SubfieldSet) /\ Len(Row(n + 1)) = 0
      <4> DEFINE f == Row(n + 1)
      <4>1. f \in [1 .. 0 -> SubfieldSet] /\ 0 \in Nat
        BY <3>2
      <4> HIDE DEF f
      <4>2. f \in Seq(SubfieldSet) /\ Len(f) = 0
        BY <4>1, RowIsSeq
      <4> QED BY <4>2 DEF f
    <3> QED BY <3>3, EmptySeq
  <2> QED BY <2>1, <2>2, <2>3
<1>8. ASSUME NEW m \in Nat, m \in P PROVE m + 1 \in P
  <2> SUFFICES ASSUME m + 1 <= n PROVE W[start[n + 1 - (m + 1)]] = Read(Row(n + 1 - (m + 1)))
    OBVIOUS
  <2> DEFINE i == n + 1 - (m + 1)
  <2>1. i \in 1 .. n /\ n + 1 - m = i + 1 /\ m <= n /\ i \in 1 .. n + 1
    BY <1>1
  <2> HIDE DEF i
  <2>2. W[start[i + 1]] = Read(Row(i + 1))
    BY <1>8, <2>1
  <2> DEFINE x == SubfieldAt(data, start[i])
             more == Row(i + 1)
             one == <<x>>
             all == Row(i)
  <2>3. all \in Seq(SubfieldSet) /\ Len(all) = n + 1 - i
        /\ \A j \in 1 .. n + 1 - i : all[j] = SubfieldAt(data, start[i + j - 1])
    <3>1. ASSUME NEW j \in 1 .. n + 1 - i PROVE SubfieldAt(data, start[i + j - 1]) \in SubfieldSet
      <4> DEFINE k == i + j - 1
      <4>1. k \in 1 .. n
        BY <1>1, <2>1
      <4> HIDE DEF k
      <4>2. SubfieldAt(data, start[k]) \in SubfieldSet
        BY <1>4, <4>1
      <4> QED BY <4>2 DEF k
    <3>2. /\ all = [j \in 1 .. n + 1 - i |-> SubfieldAt(data, start[i + j - 1])]
          /\ n + 1 - i \in Nat
      BY <1>1, <2>1
    <3> HIDE DEF all
    <3>3. all \in [1 .. n + 1 - i -> SubfieldSet]
      BY <3>1, <3>2
    <3>4. all \in Seq(SubfieldSet) /\ Len(all) = n + 1 - i
      <4> DEFINE l == n + 1 - i
      <4>1. l \in Nat /\ all \in [1 .. l -> SubfieldSet]
        BY <3>2, <3>3
      <4> HIDE DEF l
      <4>2. all \in Seq(SubfieldSet) /\ Len(all) = l
        BY <4>1, RowIsSeq
      <4> QED BY <4>2 DEF l
    <3> QED BY <3>2, <3>4
  <2>4. more \in Seq(SubfieldSet) /\ Len(more) = n - i
        /\ \A j \in 1 .. n - i : more[j] = SubfieldAt(data, start[i + j])
    <3>1. n + 1 - (i + 1) = n - i /\ n - i \in Nat
      BY <1>1, <2>1
    <3>2. ASSUME NEW j \in 1 .. n - i
          PROVE /\ SubfieldAt(data, start[i + j]) \in SubfieldSet
                /\ (i + 1) + j - 1 = i + j
      <4> DEFINE k == i + j
      <4>1. k \in 1 .. n /\ (i + 1) + j - 1 = k
        BY <1>1, <2>1
      <4> HIDE DEF k
      <4>2. SubfieldAt(data, start[k]) \in SubfieldSet
        BY <1>4, <4>1
      <4> QED BY <4>1, <4>2 DEF k
    <3>3. more = [j \in 1 .. n - i |-> SubfieldAt(data, start[i + j])]
      BY <3>1, <3>2
    <3> HIDE DEF more
    <3>4. more \in [1 .. n - i -> SubfieldSet]
      BY <3>2, <3>3
    <3>5. more \in Seq(SubfieldSet) /\ Len(more) = n - i
      <4> DEFINE l == n - i
      <4>1. l \in Nat /\ more \in [1 .. l -> SubfieldSet]
        BY <3>1, <3>4
      <4> HIDE DEF l
      <4>2. more \in Seq(SubfieldSet) /\ Len(more) = l
        BY <4>1, RowIsSeq
      <4> QED BY <4>2 DEF l
    <3> QED BY <3>3, <3>5
  <2> HIDE DEF all, more, Row
  <2>5. x \in SubfieldSet /\ EndAt(data, start[i]) = start[i + 1] /\ IsWhole(data, start[i])
        /\ start[i] \in 0 .. Len(data) /\ start[i] # Len(data)
    <3>1. HasHead(data, start[i]) /\ Len(data) \in Nat /\ start[i] \in 0 .. Len(data)
      BY <1>3, <1>4, <2>1, LenProperties
    <3> QED BY <1>4, <2>1, <3>1 DEF HasHead, SubfieldHead
  <2>6. W[start[i]] = Read(<<x>> \o more)
    <3>1. W[EndAt(data, start[i])] = Read(more)
      BY <2>2, <2>5 DEF more
    <3>2. Read(more) \in Walks
      BY <2>4 DEF Walks
    <3>3. WalkStep(W, data, start[i]) = Read(<<x>> \o more)
      <4> DEFINE at == start[i]
      <4>1. /\ at \in 0 .. Len(data) /\ (IsWhole(data, at) => W[EndAt(data, at)] \in Walks)
            /\ at # Len(data) /\ IsWhole(data, at) /\ W[EndAt(data, at)] = Read(more)
            /\ more \in Seq(SubfieldSet)
        BY <2>4, <2>5, <3>1, <3>2
      <4> HIDE DEF at
      <4>2. WalkStep(W, data, at) = Read(<<SubfieldAt(data, at)>> \o more)
        BY <4>1, WalkTyped
      <4> QED BY <4>2 DEF at
    <3> QED BY <1>5, <2>5, <3>3
  <2>7. one \o more = all
    <3>1. one \in Seq(SubfieldSet) /\ more \in Seq(SubfieldSet) /\ Len(one) = 1 /\ one[1] = x
      BY <2>4, <2>5
    <3> HIDE DEF one
    <3> DEFINE m2 == one \o more
    <3>2. one \in Seq(SubfieldSet) /\ more \in Seq(SubfieldSet)
      BY <3>1
    <3>3. /\ m2 \in Seq(SubfieldSet) /\ Len(m2) = Len(one) + Len(more)
          /\ \A j \in 1 .. Len(one) : m2[j] = one[j]
          /\ \A j \in 1 .. Len(more) : m2[Len(one) + j] = more[j]
      BY <3>2, Joined
    <3> HIDE DEF m2
    <3>4. Len(m2) = Len(all)
      BY <1>1, <2>1, <2>3, <2>4, <3>1, <3>3
    <3>5. ASSUME NEW j \in 1 .. Len(m2) PROVE m2[j] = all[j]
      <4>1. j \in 1 .. n + 1 - i
        BY <2>3, <3>4
      <4>2. CASE j = 1
        <5>1. i + 1 - 1 = i /\ 1 \in 1 .. Len(one)
          BY <2>1, <3>1
        <5>2. m2[1] = x
          BY <3>1, <3>3, <5>1
        <5>3. all[1] = SubfieldAt(data, start[i + 1 - 1])
          BY <2>3, <4>1, <4>2
        <5> QED BY <4>2, <5>1, <5>2, <5>3
      <4>3. CASE j # 1
        <5> DEFINE k == j - 1
        <5>1. k \in 1 .. n - i /\ 1 + k = j /\ i + j - 1 = i + k
          BY <1>1, <2>1, <4>1, <4>3
        <5> HIDE DEF k
        <5>2. m2[1 + k] = more[k]
          BY <2>4, <3>1, <3>3, <5>1
        <5>3. more[k] = SubfieldAt(data, start[i + k]) /\ all[j] = SubfieldAt(data, start[i + j - 1])
          BY <2>3, <2>4, <4>1, <5>1
        <5> QED BY <5>1, <5>2, <5>3
      <4> QED BY <4>2, <4>3
    <3>6. m2 = all
      BY <2>3, <3>3, <3>4, <3>5, SeqEqual
    <3> QED BY <3>6 DEF m2
  <2> QED BY <2>6, <2>7 DEF i, all, one
<1> HIDE DEF P
<1>9. W[0] = Read([j \in 1 .. n |-> SubfieldAt(data, start[j])])
  <2>1. n \in P
    BY <1>1, <1>7, <1>8, NatInduct
  <2>2. n + 1 - n = 1 /\ n + 1 - 1 = n
    BY <1>1
  <2>3. W[start[1]] = Read(Row(1))
    BY <1>1, <2>1, <2>2 DEF P
  <2>4. Row(1) = [j \in 1 .. n |-> SubfieldAt(data, start[j])]
    <3>1. \A j \in 1 .. n : 1 + j - 1 = j
      BY <1>1
    <3> QED BY <2>2, <3>1
  <2> HIDE DEF Row
  <2> QED BY <1>2, <2>3, <2>4
<1>10. \A j \in 1 .. n : j \in 1 .. n + 1
  BY <1>1
<1> QED BY <1>3, <1>4, <1>6, <1>9, <1>10 DEF n

\* The lengths say where the subfields start.
LEMMA StartsOnce ==
  ASSUME NEW lens \in Seq(Nat), NEW s, NEW t, Starts8(s, lens), Starts8(t, lens)
  PROVE  s = t
<1> DEFINE n == Len(lens)
           P == {m \in Nat : m <= n => s[m + 1] = t[m + 1]}
<1>1. n \in Nat
  BY LenProperties
<1>2. /\ s \in [1 .. n + 1 -> Nat] /\ t \in [1 .. n + 1 -> Nat] /\ s[1] = 0 /\ t[1] = 0
      /\ \A i \in 1 .. n : s[i + 1] = s[i] + SubfieldHead + lens[i]
      /\ \A i \in 1 .. n : t[i + 1] = t[i] + SubfieldHead + lens[i]
  BY DEF Starts8
<1> HIDE DEF n
<1>3. 0 \in P
  BY <1>2
<1>4. ASSUME NEW m \in Nat, m \in P PROVE m + 1 \in P
  <2> SUFFICES ASSUME m + 1 <= n PROVE s[(m + 1) + 1] = t[(m + 1) + 1]
    OBVIOUS
  <2>1. m + 1 \in 1 .. n /\ m <= n
    BY <1>1
  <2>2. s[m + 1] = t[m + 1]
    BY <1>4, <2>1
  <2> QED BY <1>2, <2>1, <2>2
<1> HIDE DEF P
<1>5. \A k \in 1 .. n + 1 : s[k] = t[k]
  <2>1. Nat \subseteq P
    BY <1>3, <1>4, NatInduct
  <2> TAKE k \in 1 .. n + 1
  <2> DEFINE m == k - 1
  <2>2. m \in Nat /\ m <= n /\ m + 1 = k
    BY <1>1
  <2> HIDE DEF m
  <2> QED BY <2>1, <2>2 DEF P
<1>6. s = [k \in 1 .. n + 1 |-> s[k]] /\ t = [k \in 1 .. n + 1 |-> t[k]]
  BY <1>2
<1> QED BY <1>5, <1>6

\* The lengths of the contents of subfields.
LensOf(sfs) == [i \in 1 .. Len(sfs) |-> Len(sfs[i].content)]

\* The bytes of subfields are a row, in which each is found again.
LEMMA RowOfSubfields ==
  ASSUME NEW sfs \in Seq(SubfieldSet)
  PROVE  /\ SubfieldsBytes(sfs) \in Seq(Bytes)
         /\ LensOf(sfs) \in Seq(Nat) /\ Len(LensOf(sfs)) = Len(sfs)
         /\ \E start :
              /\ Starts8(start, LensOf(sfs))
              /\ start[Len(sfs) + 1] = Len(SubfieldsBytes(sfs))
              /\ \A i \in 1 .. Len(sfs) :
                   /\ LeWord(DropBytes(SubfieldsBytes(sfs), start[i] + 4), 4) = LensOf(sfs)[i]
                   /\ LenAt(SubfieldsBytes(sfs), start[i]) = LensOf(sfs)[i]
                        => SubfieldAt(SubfieldsBytes(sfs), start[i]) = sfs[i]
<1> DEFINE n == Len(sfs)
           data == SubfieldsBytes(sfs)
           lens == LensOf(sfs)
           ss == BytesOf(sfs)
<1>1. n \in Nat /\ \A i \in 1 .. n : sfs[i] \in SubfieldSet
  BY LenProperties, ElementOfSeq
<1>2. ASSUME NEW i \in 1 .. n
      PROVE  /\ sfs[i].content \in Seq(Bytes) /\ Len(sfs[i].content) \in Nat
             /\ Len(sfs[i].content) < WordValues
             /\ sfs[i].type \in SubfieldTypesRead
             /\ sfs[i] = [type |-> sfs[i].type, content |-> sfs[i].content]
  BY <1>1, LenProperties DEF SubfieldSet
<1>3. lens \in Seq(Nat) /\ Len(lens) = n /\ \A i \in 1 .. n : lens[i] = Len(sfs[i].content)
  <2>1. lens = [i \in 1 .. n |-> Len(sfs[i].content)]
    BY DEF LensOf
  <2> HIDE DEF lens, n
  <2>2. lens \in [1 .. n -> Nat]
    BY <1>2, <2>1
  <2> QED BY <1>1, <2>1, <2>2, RowIsSeq
<1>4. ss \in Seq(Seq(Bytes)) /\ Len(ss) = n /\ (\A i \in 1 .. n : ss[i] = SubfieldBytes(sfs[i]))
      /\ data = FlattenSeq(ss)
  BY BytesOfRow
<1> HIDE DEF n, data, lens, ss
<1>5. data \in Seq(Bytes)
  <2>1. FlattenSeq(ss) \in Seq(Bytes)
    BY <1>4, Pieces
  <2> QED BY <1>4, <2>1
<1>6. PICK at \in [0 .. n -> Nat] :
        /\ at[0] = 0 /\ at[n] = Len(data)
        /\ \A i \in 1 .. n :
             /\ at[i] = at[i - 1] + Len(ss[i])
             /\ at[i] <= Len(data)
             /\ \A j \in 1 .. Len(ss[i]) : data[at[i - 1] + j] = ss[i][j]
  <2>1. \E at \in [0 .. Len(ss) -> Nat] :
          /\ at[0] = 0 /\ at[Len(ss)] = Len(FlattenSeq(ss))
          /\ \A i \in 1 .. Len(ss) :
               /\ at[i] = at[i - 1] + Len(ss[i])
               /\ at[i] <= Len(FlattenSeq(ss))
               /\ \A j \in 1 .. Len(ss[i]) : FlattenSeq(ss)[at[i - 1] + j] = ss[i][j]
    <3>1. ss \in Seq(Seq(Bytes))
      BY <1>4
    <3> QED BY <3>1, Pieces
  <2> QED BY <1>4, <2>1
<1> DEFINE start == [i \in 1 .. n + 1 |-> at[i - 1]]
<1>7. \A i \in 1 .. n + 1 : i - 1 \in 0 .. n /\ start[i] = at[i - 1]
  BY <1>1
<1>8. ASSUME NEW i \in 1 .. n
      PROVE  /\ start[i] \in Nat /\ start[i + 1] = start[i] + 8 + lens[i] /\ lens[i] \in Nat
             /\ start[i] + 8 + lens[i] <= Len(data)
             /\ \A j \in 1 .. 4 : data[start[i] + j] = LeBytes(CodeOf(sfs[i].type), 4)[j]
             /\ \A j \in 1 .. 4 : data[start[i] + (4 + j)] = LeBytes(lens[i], 4)[j]
             /\ \A j \in 1 .. lens[i] : data[start[i] + (8 + j)] = sfs[i].content[j]
  <2>1. i \in 1 .. n + 1 /\ i + 1 \in 1 .. n + 1 /\ (i + 1) - 1 = i /\ i - 1 \in 0 .. n
    BY <1>1
  <2>2. start[i] = at[i - 1] /\ start[i + 1] = at[i] /\ at[i - 1] \in Nat
    BY <1>6, <2>1
  <2> DEFINE sf == sfs[i]
             b == ss[i]
             l == lens[i]
  <2>3. /\ Len(b) = 8 + l
        /\ \A j \in 1 .. 4 : b[j] = LeBytes(CodeOf(sf.type), 4)[j]
        /\ \A j \in 1 .. 4 : b[4 + j] = LeBytes(l, 4)[j]
        /\ \A j \in 1 .. l : b[8 + j] = sf.content[j]
    <3>1. sf \in SubfieldSet /\ b = SubfieldBytes(sf) /\ l = Len(sf.content)
      BY <1>1, <1>3, <1>4
    <3> HIDE DEF sf, b, l
    <3> QED BY <3>1, BytesOfSubfield
  <2>4. l \in Nat
    BY <1>2, <1>3
  <2>5. /\ at[i] = at[i - 1] + Len(b) /\ at[i] <= Len(data)
        /\ \A j \in 1 .. Len(b) : data[at[i - 1] + j] = b[j]
    BY <1>6
  <2> HIDE DEF start, sf, b, l
  <2>6. \A j \in 1 .. 8 + l : data[start[i] + j] = b[j]
    BY <2>2, <2>3, <2>5
  <2>7. \A j \in 1 .. 4 : j \in 1 .. 8 + l /\ 4 + j \in 1 .. 8 + l
    BY <2>4
  <2>8. \A j \in 1 .. l : 8 + j \in 1 .. 8 + l
    BY <2>4
  <2>9. start[i + 1] = start[i] + 8 + l /\ start[i] + 8 + l <= Len(data)
    <3>1. Len(data) \in Nat
      BY <1>5, LenProperties
    <3>2. /\ start[i] \in Nat /\ start[i + 1] = start[i] + Len(b) /\ start[i + 1] <= Len(data)
          /\ Len(b) = 8 + l
      BY <2>2, <2>3, <2>5
    <3> DEFINE x == start[i]
               y == start[i + 1]
               z == Len(data)
    <3> HIDE DEF x, y, z
    <3>3. x \in Nat /\ y = x + (8 + l) /\ y <= z /\ z \in Nat
      BY <3>1, <3>2 DEF x, y, z
    <3>4. y = x + 8 + l /\ x + 8 + l <= z
      BY <2>4, <3>3
    <3> QED BY <3>4 DEF x, y, z
  <2> QED BY <2>2, <2>3, <2>4, <2>6, <2>7, <2>8, <2>9 DEF sf, l
<1>9. Starts8(start, lens) /\ start[n + 1] = Len(data)
  <2>1. start[1] = 0 /\ start[n + 1] = Len(data)
    <3>1. 1 \in 1 .. n + 1 /\ n + 1 \in 1 .. n + 1 /\ 1 - 1 = 0 /\ (n + 1) - 1 = n
      BY <1>1
    <3> QED BY <1>6, <1>7, <3>1
  <2>2. start \in [1 .. n + 1 -> Nat]
    BY <1>6, <1>7
  <2> HIDE DEF start
  <2> QED BY <1>3, <1>8, <2>1, <2>2 DEF Starts8, SubfieldHead
<1> HIDE DEF start
<1>10. ASSUME NEW i \in 1 .. n
       PROVE  /\ LeWord(DropBytes(data, start[i] + 4), 4) = lens[i]
              /\ LenAt(data, start[i]) = lens[i] => SubfieldAt(data, start[i]) = sfs[i]
  <2> DEFINE a == start[i]
             l == lens[i]
             m == a + 4
             rest == DropBytes(data, a)
             four == DropBytes(data, m)
             code == CodeOf(sfs[i].type)
             c == sfs[i].content
  <2>1. /\ a \in Nat /\ l \in Nat /\ a + 8 + l <= Len(data) /\ Len(data) \in Nat
        /\ \A j \in 1 .. 4 : data[a + j] = LeBytes(code, 4)[j]
        /\ \A j \in 1 .. 4 : data[a + (4 + j)] = LeBytes(l, 4)[j]
        /\ \A j \in 1 .. l : data[a + (8 + j)] = c[j]
    BY <1>5, <1>8, LenProperties
  <2>2. l < WordValues /\ l = Len(c) /\ c \in Seq(Bytes)
    BY <1>2, <1>3
  <2>3. code \in Nat /\ code < WordValues /\ TypeFrom(code) = sfs[i].type
    <3> DEFINE sf == sfs[i]
    <3>1. sf \in SubfieldSet
      BY <1>1
    <3> HIDE DEF sf
    <3>2. CodeOf(sf.type) \in WordRange /\ TypeFrom(CodeOf(sf.type)) = sf.type
      BY <3>1, BytesOfSubfield
    <3>3. WordValues \in Nat
      BY CodecAssumption DEF WordValues
    <3> QED BY <3>2, <3>3 DEF WordRange, sf
  <2> HIDE DEF a, l, c, code
  <2>4. a \in 0 .. Len(data) /\ m \in 0 .. Len(data)
    BY <2>1
  <2>5. m = a + 4
    OBVIOUS
  <2>6. /\ rest \in Seq(Bytes) /\ Len(rest) = Len(data) - a
        /\ \A j \in 1 .. Len(data) - a : rest[j] = data[a + j]
    BY <1>5, <2>4, Dropped
  <2> HIDE DEF m, rest
  <2>7. /\ four \in Seq(Bytes) /\ Len(four) = Len(data) - m
        /\ \A j \in 1 .. Len(data) - m : four[j] = data[m + j]
    BY <1>5, <2>4, Dropped
  <2> HIDE DEF four
  <2>8. Bytes \subseteq Nat
    BY CodecAssumption DEF Bytes
  <2>9. LeWord(four, 4) = l
    <3>1. \A j \in 1 .. 4 : four[j] = LeBytes(l, 4)[j]
      <4> TAKE j \in 1 .. 4
      <4>1. j \in 1 .. Len(data) - m /\ m + j = a + (4 + j)
        BY <2>1, <2>5
      <4> QED BY <2>1, <2>7, <4>1
    <3>2. 4 <= Len(four)
      BY <2>1, <2>5, <2>7
    <3>3. four \in Seq(Nat)
      BY <2>7, <2>8, SeqMonotonic
    <3> QED BY <2>1, <2>2, <3>1, <3>2, <3>3, WordReadBack
  <2>10. LeWord(rest, 4) = code
    <3>1. \A j \in 1 .. 4 : rest[j] = LeBytes(code, 4)[j]
      <4> TAKE j \in 1 .. 4
      <4>1. j \in 1 .. Len(data) - a
        BY <2>1
      <4> QED BY <2>1, <2>6, <4>1
    <3>2. 4 <= Len(rest)
      <4>1. a \in Nat /\ l \in Nat /\ Len(data) \in Nat /\ a + 8 + l <= Len(data)
        BY <2>1
      <4>2. Len(rest) = Len(data) - a
        BY <2>6
      <4> QED BY <4>1, <4>2
    <3>3. rest \in Seq(Nat)
      BY <2>6, <2>8, SeqMonotonic
    <3> QED BY <2>3, <3>1, <3>2, <3>3, WordReadBack
  <2>11. ASSUME LenAt(data, a) = l PROVE SubfieldAt(data, a) = sfs[i]
    <3> DEFINE head == 8
               piece == SubSeq(rest, head + 1, head + l)
    <3>1. head \in Nat /\ head + l <= Len(rest)
      BY <2>1, <2>6
    <3>2. head = 8
      OBVIOUS
    <3> HIDE DEF head
    <3>3. piece \in Seq(Bytes) /\ Len(piece) = l /\ \A j \in 1 .. l : piece[j] = rest[head + j]
      <4>1. rest \in Seq(Bytes)
        BY <2>6
      <4>2. head \in Nat /\ l \in Nat /\ head + l <= Len(rest)
        BY <2>1, <3>1
      <4>3. /\ SubSeq(rest, head + 1, head + l) \in Seq(Bytes)
            /\ Len(SubSeq(rest, head + 1, head + l)) = l
            /\ \A j \in 1 .. l : SubSeq(rest, head + 1, head + l)[j] = rest[head + j]
        BY <4>1, <4>2, Cut
      <4> QED BY <4>3
    <3> HIDE DEF piece
    <3>4. \A j \in 1 .. l : piece[j] = c[j]
      <4> TAKE j \in 1 .. l
      <4>1. 8 + j \in 1 .. Len(data) - a
        BY <2>1
      <4> QED BY <2>1, <2>6, <3>2, <3>3, <4>1
    <3>5. piece = c
      BY <2>2, <3>3, <3>4, SeqEqual
    <3>6. SubfieldAt(data, a) = [type |-> TypeFrom(LeWord(rest, 4)), content |-> piece]
      BY <2>11, <3>2 DEF SubfieldAt, Subfield, SubfieldHead, piece, rest
    <3> QED BY <1>2, <2>3, <2>10, <3>5, <3>6 DEF c
  <2> QED BY <2>9, <2>11 DEF a, l, four, m
<1> QED BY <1>3, <1>5, <1>9, <1>10 DEF n, data, lens

\* Subfields are read back as they were written.
LEMMA SubfieldsReadBack ==
  ASSUME NEW sfs \in Seq(SubfieldSet)
  PROVE  ReadSubfields(SubfieldsBytes(sfs)) = Read(sfs)
<1> DEFINE n == Len(sfs)
           data == SubfieldsBytes(sfs)
           lens == LensOf(sfs)
<1>1. data \in Seq(Bytes) /\ lens \in Seq(Nat) /\ Len(lens) = n /\ n \in Nat
  BY RowOfSubfields, LenProperties
<1>2. PICK start :
        /\ Starts8(start, lens)
        /\ start[n + 1] = Len(data)
        /\ \A i \in 1 .. n :
             /\ LeWord(DropBytes(data, start[i] + 4), 4) = lens[i]
             /\ LenAt(data, start[i]) = lens[i] => SubfieldAt(data, start[i]) = sfs[i]
  BY RowOfSubfields
<1> HIDE DEF data, lens, n
<1>3. /\ ReadSubfields(data) = Read([j \in 1 .. Len(lens) |-> SubfieldAt(data, start[j])])
      /\ \A j \in 1 .. Len(lens) : LenAt(data, start[j]) = lens[j]
  BY <1>1, <1>2, RowIsRead
<1>4. \A j \in 1 .. n : SubfieldAt(data, start[j]) = sfs[j]
  BY <1>1, <1>2, <1>3
<1>5. [j \in 1 .. Len(lens) |-> SubfieldAt(data, start[j])] = sfs
  <2>1. sfs = [j \in 1 .. n |-> sfs[j]]
    BY LenProperties DEF n
  <2> QED BY <1>1, <1>4, <2>1
<1> QED BY <1>3, <1>5 DEF data

\* SubfieldWalk, for any data.
THEOREM SubfieldsAreWhole == \A data \in Seq(Bytes) : SubfieldWalk(data)
<1> TAKE data \in Seq(Bytes)
<1> DEFINE r == ReadSubfields(data)
<1>1. Len(data) \in Nat /\ 0 \in 0 .. Len(data)
  BY LenProperties
<1>2. DropBytes(data, 0) = data
  <2>1. DropBytes(data, 0) = SubSeq(data, 1, Len(data))
    BY DEF DropBytes
  <2> QED BY <2>1, SubSeqFull
<1>3. r = SubfieldsFrom(data)[0]
  BY DEF ReadSubfields
<1>4. ASSUME r.ok PROVE r.sub_fields \in Seq(SubfieldSet) /\ SubfieldsBytes(r.sub_fields) = data
  BY <1>1, <1>2, <1>3, <1>4, WalkKeeps
<1> HIDE DEF r
<1>5. ASSUME r.ok PROVE Cuttable(data)
  <2> DEFINE sfs == r.sub_fields
             n == Len(sfs)
             lens == LensOf(sfs)
  <2>1. sfs \in Seq(SubfieldSet) /\ data = SubfieldsBytes(sfs)
    BY <1>4, <1>5
  <2> HIDE DEF sfs
  <2>2. lens \in Seq(Nat) /\ Len(lens) = n /\ n \in Nat
    BY <2>1, RowOfSubfields, LenProperties
  <2>3. PICK start :
          /\ Starts8(start, lens)
          /\ start[n + 1] = Len(data)
          /\ \A i \in 1 .. n : LeWord(DropBytes(data, start[i] + 4), 4) = lens[i]
    BY <2>1, RowOfSubfields
  <2> HIDE DEF lens, n
  <2>4. IsRow(data, lens)
    <3>1. PICK t : /\ Starts8(t, lens)
                   /\ IsRow(data, lens) <=>
                        /\ t[Len(lens) + 1] = Len(data)
                        /\ \A i \in 1 .. Len(lens) : LeWord(DropBytes(data, t[i] + 4), 4) = lens[i]
      BY <2>2, RowStarts
    <3>2. t = start
      BY <2>2, <2>3, <3>1, StartsOnce
    <3> QED BY <2>2, <2>3, <3>1, <3>2
  <2>5. /\ 8 * n <= Len(data)
        /\ \A i \in 1 .. n : lens[i] \in Nat /\ lens[i] <= Len(data) - n * SubfieldHead
    <3>1. n + 1 \in 1 .. Len(lens) + 1
      BY <2>2
    <3>2. \A i \in 1 .. n + 1 : /\ start[n + 1] >= SubfieldHead * ((n + 1) - 1)
                                /\ i < n + 1 => start[n + 1] >= SubfieldHead * ((n + 1) - 1) + lens[i]
      BY <2>2, <2>3, <3>1, StartsGoUp
    <3>3. \A i \in 1 .. n : lens[i] \in Nat /\ i \in 1 .. n + 1 /\ i < n + 1
      BY <2>2, ElementOfSeq
    <3>4. 1 \in 1 .. n + 1
      BY <2>2
    <3>5. 8 * n <= Len(data)
      BY <1>1, <2>2, <2>3, <3>2, <3>4 DEF SubfieldHead
    <3>6. ASSUME NEW i \in 1 .. n PROVE lens[i] <= Len(data) - n * SubfieldHead
      <4> DEFINE l == lens[i]
                 m == Len(data)
      <4>1. l \in Nat /\ m \in Nat /\ m >= SubfieldHead * ((n + 1) - 1) + l
        BY <1>1, <2>3, <3>2, <3>3
      <4> HIDE DEF l, m
      <4>2. l <= m - n * SubfieldHead
        BY <2>2, <4>1 DEF SubfieldHead
      <4> QED BY <4>2 DEF l, m
    <3> QED BY <3>3, <3>5, <3>6
  <2>6. n \in 0 .. Len(data) \div SubfieldHead
    <3> DEFINE m == Len(data)
    <3>1. m \in Nat
      BY <1>1
    <3>2. 8 * n <= m
      BY <2>5
    <3> HIDE DEF m
    <3>3. m \div 8 >= n
      BY <2>2, <3>1, <3>2
    <3> QED BY <2>2, <3>1, <3>3 DEF SubfieldHead, m
  <2>7. lens \in [1 .. n -> 0 .. Len(data) - n * SubfieldHead]
    <3>1. lens \in [1 .. n -> Nat]
      BY <2>2, LenProperties
    <3>2. \A i \in 1 .. n : lens[i] \in 0 .. Len(data) - n * SubfieldHead
      BY <1>1, <2>2, <2>5 DEF SubfieldHead
    <3> QED BY <3>1, <3>2
  <2> QED BY <2>4, <2>6, <2>7 DEF Cuttable
<1>6. ASSUME Cuttable(data) PROVE r.ok
  <2>1. PICK n \in 0 .. Len(data) \div SubfieldHead :
          \E lens \in [1 .. n -> 0 .. Len(data) - n * SubfieldHead] : IsRow(data, lens)
    BY <1>6 DEF Cuttable
  <2>2. PICK lens \in [1 .. n -> 0 .. Len(data) - n * SubfieldHead] : IsRow(data, lens)
    BY <2>1
  <2>3. n \in Nat /\ lens \in [1 .. n -> Nat]
    OBVIOUS
  <2>4. lens \in Seq(Nat) /\ Len(lens) = n
    BY <2>3, RowIsSeq
  <2>5. PICK start : /\ Starts8(start, lens)
                     /\ start[Len(lens) + 1] = Len(data)
                     /\ \A i \in 1 .. Len(lens) : LeWord(DropBytes(data, start[i] + 4), 4) = lens[i]
    BY <2>2, <2>4, RowStarts
  <2>6. r = Read([j \in 1 .. Len(lens) |-> SubfieldAt(data, start[j])])
    BY <2>4, <2>5, RowIsRead DEF r
  <2> QED BY <2>6 DEF Read
<1> QED BY <1>4, <1>5, <1>6 DEF SubfieldWalk, r

-----------------------------------------------------------------------------
(***************************************************************************)
(* Headers, and the names and subject the builder puts into one.           *)
(***************************************************************************)

\* The length written before the subfields, one by one.
LEMMA SubfieldLenSteps ==
  ASSUME NEW sfs \in Seq(SubfieldSet)
  PROVE  \E w \in [0 .. Len(sfs) -> Nat] :
           /\ w[0] = 0
           /\ \A i \in 1 .. Len(sfs) : w[i] = w[i - 1] + SubfieldHead + Len(sfs[i].content)
           /\ SubfieldLen(sfs) = w[Len(sfs)]
<1> DEFINE n == Len(sfs)
           g == [p \in (0 .. n) \X Nat |->
                   IF p[1] = 0 THEN 0 ELSE p[2] + SubfieldHead + Len(sfs[p[1]].content)]
           Rhs(f) == [s \in SUBSET (1 .. n) |->
             IF s = {} THEN 0 ELSE f[s \ {Max(s)}] + SubfieldHead + Len(sfs[Max(s)].content)]
           ff == CHOOSE f : f = Rhs(f)
<1>1. n \in Nat /\ DOMAIN sfs = 1 .. n /\ \A i \in 1 .. n : Len(sfs[i].content) \in Nat
  <2>1. \A i \in 1 .. n : sfs[i] \in SubfieldSet
    BY ElementOfSeq
  <2> QED BY <2>1, BytesOfSubfield, LenProperties
<1>2. SubfieldLen(sfs) = ff[1 .. n]
  BY <1>1 DEF SubfieldLen, FoldLeft, MapThenFoldSet
<1> HIDE DEF n
<1>3. Steps(n, Nat, 0, g)
  <2>1. g \in [(0 .. n) \X Nat -> Nat]
    BY <1>1 DEF SubfieldHead
  <2> HIDE DEF g
  <2> QED BY <1>1, <2>1 DEF Steps
<1>4. \A i \in 1 .. n, v \in Nat : g[<<i, v>>] = v + SubfieldHead + Len(sfs[i].content)
  <2> TAKE i \in 1 .. n, v \in Nat
  <2>1. i \in 0 .. n /\ i # 0
    BY <1>1
  <2>2. <<i, v>> \in (0 .. n) \X Nat
    BY <2>1
  <2> QED BY <2>1, <2>2
<1> HIDE DEF g
<1>5. PICK h : IsLeftFold(h, n, Nat, 0, g)
  BY <1>3, FoldsLeft
<1>6. h = Rhs(h)
  <2>1. h \in [SUBSET (1 .. n) -> Nat] /\ h[{}] = 0
    BY <1>5 DEF IsLeftFold
  <2>2. ASSUME NEW s \in SUBSET (1 .. n), s # {}
        PROVE h[s] = h[s \ {Max(s)}] + SubfieldHead + Len(sfs[Max(s)].content)
    <3>1. Max(s) \in 1 .. n /\ h[s] = g[<<Max(s), h[s \ {Max(s)}]>>]
      BY <1>5, <2>2 DEF IsLeftFold
    <3>2. h[s \ {Max(s)}] \in Nat
      BY <2>1
    <3> QED BY <1>4, <3>1, <3>2
  <2>3. h = [s \in SUBSET (1 .. n) |->
               IF s = {} THEN 0 ELSE h[s \ {Max(s)}] + SubfieldHead + Len(sfs[Max(s)].content)]
    BY <2>1, <2>2
  <2> QED BY <2>3
<1>7. ff = Rhs(ff)
  <2> HIDE DEF Rhs
  <2> QED BY <1>6
<1> HIDE DEF ff
<1>8. FoldsBy(ff, n, Nat, 0, g)
  <2>1. ff[{}] = 0
    BY <1>7
  <2>2. ASSUME NEW i \in 1 .. n, ff[1 .. i - 1] \in Nat PROVE ff[1 .. i] = g[<<i, ff[1 .. i - 1]>>]
    <3>1. /\ 1 .. i \in SUBSET (1 .. n) /\ 1 .. i # {}
          /\ Max(1 .. i) = i /\ (1 .. i) \ {i} = 1 .. i - 1
      BY <1>1, FoldOfPrefix
    <3>2. ff[1 .. i] = ff[(1 .. i) \ {Max(1 .. i)}] + SubfieldHead + Len(sfs[Max(1 .. i)].content)
      BY <1>7, <3>1
    <3> QED BY <1>4, <2>2, <3>1, <3>2
  <2> QED BY <1>3, <2>1, <2>2 DEF FoldsBy
<1>9. PICK w : IsSteps(w, n, Nat, 0, g) /\ ff[1 .. n] = w[n]
  BY <1>8, FoldSteps
<1>10. w \in [0 .. n -> Nat] /\ w[0] = 0
  BY <1>9 DEF IsSteps
<1>11. \A i \in 1 .. n : w[i] = w[i - 1] + SubfieldHead + Len(sfs[i].content)
  <2> TAKE i \in 1 .. n
  <2>1. w[i - 1] \in Nat
    BY <1>1, <1>10
  <2> QED BY <1>4, <1>9, <2>1 DEF IsSteps
<1> QED BY <1>2, <1>9, <1>10, <1>11 DEF n

\* It is the length of the subfields.
LEMMA SubfieldLenIs ==
  ASSUME NEW sfs \in Seq(SubfieldSet)
  PROVE  SubfieldLen(sfs) = Len(SubfieldsBytes(sfs))
<1> DEFINE n == Len(sfs)
           lens == LensOf(sfs)
<1>1. n \in Nat /\ lens \in Seq(Nat) /\ Len(lens) = n
  BY RowOfSubfields, LenProperties
<1>2. \A i \in 1 .. n : lens[i] = Len(sfs[i].content)
  BY DEF LensOf
<1>3. PICK start : Starts8(start, lens) /\ start[n + 1] = Len(SubfieldsBytes(sfs))
  BY RowOfSubfields
<1>4. PICK w \in [0 .. n -> Nat] :
        /\ w[0] = 0
        /\ \A i \in 1 .. n : w[i] = w[i - 1] + SubfieldHead + Len(sfs[i].content)
        /\ SubfieldLen(sfs) = w[n]
  BY SubfieldLenSteps
<1> HIDE DEF n, lens
<1> DEFINE t == [i \in 1 .. n + 1 |-> w[i - 1]]
<1>5. Starts8(t, lens)
  <2>1. \A i \in 1 .. n + 1 : t[i] = w[i - 1] /\ i - 1 \in 0 .. n
    BY <1>1
  <2>2. t \in [1 .. n + 1 -> Nat]
    BY <2>1
  <2>3. t[1] = 0
    BY <1>1, <1>4
  <2>4. ASSUME NEW i \in 1 .. n PROVE t[i + 1] = t[i] + SubfieldHead + lens[i]
    <3>1. t[i + 1] = w[i] /\ t[i] = w[i - 1]
      BY <1>1
    <3> HIDE DEF t
    <3> QED BY <1>2, <1>4, <3>1
  <2> HIDE DEF t
  <2> QED BY <1>1, <2>2, <2>3, <2>4 DEF Starts8
<1>6. t = start
  BY <1>1, <1>3, <1>5, StartsOnce
<1>7. t[n + 1] = w[n]
  BY <1>1
<1> QED BY <1>3, <1>4, <1>6, <1>7 DEF n

\* What a header has under its names.
LEMMA HeaderNames ==
  /\ DOMAIN Fields = 1 .. 16 /\ Range(Fields) = {Fields[i] : i \in 1 .. 16}
  /\ "sub_fields" \notin Range(Fields)
  /\ \A i, j \in 1 .. 16 : Fields[i] = Fields[j] => i = j
<1>1. DOMAIN Fields = 1 .. 16
  BY DEF Fields
<1>2. Range(Fields) = {Fields[i] : i \in 1 .. 16}
  BY DEF Range, Fields
<1>3. "sub_fields" \notin Range(Fields)
  BY DEF Range, Fields
<1>4. \A i, j \in 1 .. 16 : Fields[i] = Fields[j] => i = j
  BY DEF Fields
<1> QED BY <1>1, <1>2, <1>3, <1>4

\* The words of a header, one a field.
HeaderWords == [Range(Fields) -> WordRange]

\* A header is its words and its subfields.
LEMMA HeaderParts ==
  ASSUME NEW words, NEW sfs
  PROVE  /\ HeaderOf(words, sfs).sub_fields = sfs
         /\ \A f \in Range(Fields) : HeaderOf(words, sfs)[f] = words[f]
<1>1. \A f \in Range(Fields) : f # "sub_fields"
  BY HeaderNames
<1> QED BY <1>1 DEF HeaderOf

\* The words of a header in the bytes they are written as.
AreFields(ss, words) == ss = [i \in 1 .. 16 |-> LeBytes(words[Fields[i]], 4)]

\* The words of a header stand one after the other.
LEMMA FieldBytes ==
  ASSUME NEW words \in HeaderWords, NEW ss, AreFields(ss, words)
  PROVE  /\ FlattenSeq(ss) \in Seq(Bytes) /\ Len(FlattenSeq(ss)) = 64
         /\ \A i \in 1 .. 16 : \A j \in 1 .. 4 :
              FlattenSeq(ss)[4 * (i - 1) + j] = LeBytes(words[Fields[i]], 4)[j]
<1> DEFINE flat == FlattenSeq(ss)
<1>1. WordValues \in Nat
  BY CodecAssumption DEF WordValues
<1>2. \A i \in 1 .. 16 : words[Fields[i]] \in Nat
  <2>1. \A i \in 1 .. 16 : Fields[i] \in Range(Fields)
    BY HeaderNames
  <2>2. \A i \in 1 .. 16 : words[Fields[i]] \in WordRange
    BY <2>1 DEF HeaderWords
  <2> QED BY <1>1, <2>2 DEF WordRange
<1>3. \A i \in 1 .. 16 : ss[i] \in Seq(Bytes) /\ Len(ss[i]) = 4
  <2> TAKE i \in 1 .. 16
  <2>1. LeBytes(words[Fields[i]], 4) \in Seq(Bytes) /\ Len(LeBytes(words[Fields[i]], 4)) = 4
    BY <1>2, BytesType
  <2>2. ss[i] = LeBytes(words[Fields[i]], 4)
    BY DEF AreFields
  <2> QED BY <2>1, <2>2
<1>4. ss \in Seq(Seq(Bytes)) /\ Len(ss) = 16
  <2>1. ss \in [1 .. 16 -> Seq(Bytes)] /\ 16 \in Nat
    BY <1>3 DEF AreFields
  <2> QED BY <2>1, RowIsSeq
<1>5. flat \in Seq(Bytes) /\ Len(flat) \in Nat
  BY <1>4, Pieces, LenProperties
<1>6. PICK at \in [0 .. 16 -> Nat] :
        /\ at[0] = 0 /\ at[16] = Len(flat)
        /\ \A i \in 1 .. 16 :
             /\ at[i] = at[i - 1] + 4
             /\ \A j \in 1 .. 4 : flat[at[i - 1] + j] = ss[i][j]
  <2>1. \E at \in [0 .. Len(ss) -> Nat] :
          /\ at[0] = 0 /\ at[Len(ss)] = Len(FlattenSeq(ss))
          /\ \A i \in 1 .. Len(ss) :
               /\ at[i] = at[i - 1] + Len(ss[i])
               /\ at[i] <= Len(FlattenSeq(ss))
               /\ \A j \in 1 .. Len(ss[i]) : FlattenSeq(ss)[at[i - 1] + j] = ss[i][j]
    <3>1. ss \in Seq(Seq(Bytes))
      BY <1>4
    <3> QED BY <3>1, Pieces
  <2>2. Len(ss) = 16 /\ \A i \in 1 .. 16 : Len(ss[i]) = 4
    BY <1>3, <1>4
  <2>3. PICK at \in [0 .. Len(ss) -> Nat] :
          /\ at[0] = 0 /\ at[Len(ss)] = Len(FlattenSeq(ss))
          /\ \A i \in 1 .. Len(ss) :
               /\ at[i] = at[i - 1] + Len(ss[i])
               /\ at[i] <= Len(FlattenSeq(ss))
               /\ \A j \in 1 .. Len(ss[i]) : FlattenSeq(ss)[at[i - 1] + j] = ss[i][j]
    BY <2>1
  <2>4. at \in [0 .. 16 -> Nat] /\ at[0] = 0 /\ at[16] = Len(flat)
    BY <2>2, <2>3
  <2>5. ASSUME NEW i \in 1 .. 16
        PROVE  at[i] = at[i - 1] + 4 /\ \A j \in 1 .. 4 : flat[at[i - 1] + j] = ss[i][j]
    <3>1. i \in 1 .. Len(ss) /\ Len(ss[i]) = 4
      BY <2>2
    <3>2. /\ at[i] = at[i - 1] + Len(ss[i])
          /\ \A j \in 1 .. Len(ss[i]) : flat[at[i - 1] + j] = ss[i][j]
      BY <2>3, <3>1
    <3> QED BY <3>1, <3>2
  <2> QED BY <2>4, <2>5
<1> HIDE DEF flat
<1> DEFINE P == {i \in Nat : i <= 16 => at[i] = 4 * i}
<1>7. 0 \in P
  BY <1>6
<1>8. ASSUME NEW i \in Nat, i \in P PROVE i + 1 \in P
  <2> SUFFICES ASSUME i + 1 <= 16 PROVE at[i + 1] = 4 * (i + 1)
    OBVIOUS
  <2>1. i + 1 \in 1 .. 16 /\ (i + 1) - 1 = i /\ at[i] = 4 * i
    BY <1>8
  <2>2. at[i + 1] = at[i] + 4
    BY <1>6, <2>1
  <2> QED BY <2>1, <2>2
<1> HIDE DEF P
<1>9. \A i \in 0 .. 16 : at[i] = 4 * i
  <2>1. Nat \subseteq P
    BY <1>7, <1>8, NatInduct
  <2> QED BY <2>1 DEF P
<1>10. \A i \in 1 .. 16 : \A j \in 1 .. 4 : flat[4 * (i - 1) + j] = LeBytes(words[Fields[i]], 4)[j]
  <2> TAKE i \in 1 .. 16
  <2> TAKE j \in 1 .. 4
  <2>1. at[i - 1] = 4 * (i - 1)
    BY <1>9
  <2>2. flat[at[i - 1] + j] = ss[i][j]
    BY <1>6
  <2>3. ss[i] = LeBytes(words[Fields[i]], 4)
    BY DEF AreFields
  <2> QED BY <2>1, <2>2, <2>3
<1>11. Len(flat) = 64
  <2>1. 16 \in 0 .. 16 /\ 4 * 16 = 64
    OBVIOUS
  <2>2. at[16] = 64
    BY <1>9, <2>1
  <2>3. at[16] = Len(flat)
    BY <1>6
  <2> QED BY <2>2, <2>3
<1> QED BY <1>5, <1>10, <1>11 DEF flat

\* Bytes of a known length, and bytes that are put behind them.
Behind(a, k, b) == a \in Seq(Bytes) /\ k \in Nat /\ Len(a) = k /\ b \in Seq(Bytes)

\* What is put behind something of a known length stands there.
LEMMA PutBehind ==
  ASSUME NEW a, NEW k, NEW b, Behind(a, k, b)
  PROVE  /\ a \o b \in Seq(Bytes) /\ Len(a \o b) = k + Len(b)
         /\ \A j \in 1 .. k : (a \o b)[j] = a[j]
         /\ \A j \in 1 .. Len(b) : (a \o b)[k + j] = b[j]
<1> DEFINE ab == a \o b
<1>1. a \in Seq(Bytes) /\ b \in Seq(Bytes)
  BY DEF Behind
<1>2. /\ ab \in Seq(Bytes) /\ Len(ab) = Len(a) + Len(b)
      /\ \A j \in 1 .. Len(a) : ab[j] = a[j]
      /\ \A j \in 1 .. Len(b) : ab[Len(a) + j] = b[j]
  BY <1>1, Joined
<1> HIDE DEF ab
<1>3. Len(a) = k
  BY DEF Behind
<1>4. /\ ab \in Seq(Bytes) /\ Len(ab) = k + Len(b)
      /\ \A j \in 1 .. k : ab[j] = a[j]
      /\ \A j \in 1 .. Len(b) : ab[k + j] = b[j]
  BY <1>2, <1>3
<1> QED BY <1>4 DEF ab

\* Where everything stands in a header that is written.
LEMMA HeaderLaidOut ==
  ASSUME NEW words \in HeaderWords, NEW sfs \in Seq(SubfieldSet)
  PROVE  LET data == WriteHeader(HeaderOf(words, sfs))
             body == SubfieldsBytes(sfs)
         IN /\ data \in Seq(Bytes) /\ Len(data) = 76 + Len(body)
            /\ \A j \in 1 .. 4 : data[j] = JAM_SIGNATURE[j]
            /\ \A j \in 1 .. 2 : data[4 + j] = LeBytes(1, 2)[j]
            /\ \A j \in 1 .. 4 : data[8 + j] = LeBytes(Len(body), 4)[j]
            /\ \A i \in 1 .. 16 : \A j \in 1 .. 4 :
                 data[8 + 4 * i + j] = LeBytes(words[Fields[i]], 4)[j]
            /\ \A j \in 1 .. Len(body) : data[76 + j] = body[j]
<1> DEFINE body == SubfieldsBytes(sfs)
           l == Len(body)
           ss == [i \in 1 .. 16 |-> LeBytes(words[Fields[i]], 4)]
           flat == FlattenSeq(ss)
           v == LeBytes(1, 2)
           z == LeBytes(0, 2)
           m == LeBytes(l, 4)
           sig == JAM_SIGNATURE
           a6 == sig \o v
           a8 == a6 \o z
           a12 == a8 \o m
           a76 == a12 \o flat
           data == a76 \o body
<1>1. body \in Seq(Bytes) /\ l \in Nat
  BY RowOfSubfields, LenProperties
<1>2. WriteHeader(HeaderOf(words, sfs)) = data
  <2> DEFINE h == HeaderOf(words, sfs)
  <2>1. h.sub_fields = sfs /\ \A f \in Range(Fields) : h[f] = words[f]
    BY HeaderParts
  <2>2. SubfieldLen(sfs) = l
    BY SubfieldLenIs
  <2>3. DOMAIN Fields = 1 .. 16 /\ \A i \in 1 .. 16 : Fields[i] \in Range(Fields)
    BY HeaderNames
  <2> HIDE DEF h, l
  <2>4. [i \in DOMAIN Fields |-> LeBytes(h[Fields[i]], 4)] = ss
    BY <2>1, <2>3
  <2>5. WriteHeader(h) = sig \o v \o z \o LeBytes(SubfieldLen(sfs), 4)
          \o FlattenSeq([i \in DOMAIN Fields |-> LeBytes(h[Fields[i]], 4)]) \o SubfieldsBytes(sfs)
    BY <2>1, Zenon DEF WriteHeader
  <2> QED BY <2>2, <2>4, <2>5 DEF h
<1>3. flat \in Seq(Bytes) /\ Len(flat) = 64
      /\ \A i \in 1 .. 16 : \A j \in 1 .. 4 :
           flat[4 * (i - 1) + j] = LeBytes(words[Fields[i]], 4)[j]
  <2> HIDE DEF ss
  <2>1. AreFields(ss, words)
    BY DEF ss, AreFields
  <2> QED BY <2>1, FieldBytes
<1>4. /\ v \in Seq(Bytes) /\ Len(v) = 2 /\ z \in Seq(Bytes) /\ Len(z) = 2
      /\ m \in Seq(Bytes) /\ Len(m) = 4
  <2>1. v \in Seq(Bytes) /\ Len(v) = 2
    BY BytesType
  <2>2. z \in Seq(Bytes) /\ Len(z) = 2
    BY BytesType
  <2>3. m \in Seq(Bytes) /\ Len(m) = 4
    <3> HIDE DEF l
    <3> QED BY <1>1, BytesType
  <2> QED BY <2>1, <2>2, <2>3
<1>5. sig \in Seq(Bytes) /\ Len(sig) = 4
  <2>1. sig \in [1 .. 4 -> Bytes] /\ 4 \in Nat
    BY CodecAssumption DEF Bytes
  <2> HIDE DEF sig
  <2> QED BY <2>1, RowIsSeq
<1> HIDE DEF body, l, ss, flat, v, z, m, sig
<1>6. /\ a6 \in Seq(Bytes) /\ Len(a6) = 6
      /\ \A j \in 1 .. 4 : a6[j] = sig[j]
      /\ \A j \in 1 .. 2 : a6[4 + j] = v[j]
  <2>1. Behind(sig, 4, v)
    BY <1>4, <1>5 DEF Behind
  <2>2. /\ a6 \in Seq(Bytes) /\ Len(a6) = 4 + Len(v)
        /\ \A j \in 1 .. 4 : a6[j] = sig[j]
        /\ \A j \in 1 .. Len(v) : a6[4 + j] = v[j]
    BY <2>1, PutBehind
  <2> HIDE DEF a6
  <2> QED BY <1>4, <2>2
<1> HIDE DEF a6
<1>7. a8 \in Seq(Bytes) /\ Len(a8) = 8 /\ \A j \in 1 .. 6 : a8[j] = a6[j]
  <2>1. Behind(a6, 6, z)
    BY <1>4, <1>6 DEF Behind
  <2>2. a8 \in Seq(Bytes) /\ Len(a8) = 6 + Len(z) /\ \A j \in 1 .. 6 : a8[j] = a6[j]
    BY <2>1, PutBehind
  <2> HIDE DEF a8
  <2> QED BY <1>4, <2>2
<1> HIDE DEF a8
<1>8. /\ a12 \in Seq(Bytes) /\ Len(a12) = 12
      /\ \A j \in 1 .. 8 : a12[j] = a8[j]
      /\ \A j \in 1 .. 4 : a12[8 + j] = m[j]
  <2>1. Behind(a8, 8, m)
    BY <1>4, <1>7 DEF Behind
  <2>2. /\ a12 \in Seq(Bytes) /\ Len(a12) = 8 + Len(m)
        /\ \A j \in 1 .. 8 : a12[j] = a8[j]
        /\ \A j \in 1 .. Len(m) : a12[8 + j] = m[j]
    BY <2>1, PutBehind
  <2> HIDE DEF a12
  <2> QED BY <1>4, <2>2
<1> HIDE DEF a12
<1>9. /\ a76 \in Seq(Bytes) /\ Len(a76) = 76
      /\ \A j \in 1 .. 12 : a76[j] = a12[j]
      /\ \A j \in 1 .. 64 : a76[12 + j] = flat[j]
  <2>1. Behind(a12, 12, flat)
    BY <1>3, <1>8 DEF Behind
  <2>2. /\ a76 \in Seq(Bytes) /\ Len(a76) = 12 + Len(flat)
        /\ \A j \in 1 .. 12 : a76[j] = a12[j]
        /\ \A j \in 1 .. Len(flat) : a76[12 + j] = flat[j]
    BY <2>1, PutBehind
  <2> HIDE DEF a76
  <2> QED BY <1>3, <2>2
<1> HIDE DEF a76
<1>10. /\ data \in Seq(Bytes) /\ Len(data) = 76 + l
       /\ \A j \in 1 .. 76 : data[j] = a76[j]
       /\ \A j \in 1 .. l : data[76 + j] = body[j]
  <2> DEFINE k == 76
  <2>1. Behind(a76, k, body)
    BY <1>1, <1>9 DEF Behind
  <2> HIDE DEF k
  <2>2. /\ data \in Seq(Bytes) /\ Len(data) = k + Len(body)
        /\ \A j \in 1 .. k : data[j] = a76[j]
        /\ \A j \in 1 .. Len(body) : data[k + j] = body[j]
    <3>1. data = a76 \o body
      OBVIOUS
    <3>2. /\ a76 \o body \in Seq(Bytes) /\ Len(a76 \o body) = k + Len(body)
          /\ \A j \in 1 .. k : (a76 \o body)[j] = a76[j]
          /\ \A j \in 1 .. Len(body) : (a76 \o body)[k + j] = body[j]
      <4>1. a76 \in Seq(Bytes) /\ body \in Seq(Bytes) /\ k \in Nat
        BY <2>1 DEF Behind
      <4> QED BY <2>1, <4>1, PutBehind
    <3> HIDE DEF data
    <3> QED BY <3>1, <3>2
  <2> QED BY <2>2 DEF l, k
<1> HIDE DEF data
<1>15. /\ \A j \in 1 .. 8 : data[j] = a8[j]
       /\ \A j \in 1 .. 12 : data[j] = a12[j]
  <2>1. \A j \in 1 .. 12 : data[j] = a76[j]
    <3> TAKE j \in 1 .. 12
    <3>1. j \in 1 .. 76
      OBVIOUS
    <3> QED BY <1>10, <3>1, Zenon
  <2>2. \A j \in 1 .. 12 : data[j] = a12[j]
    BY <1>9, <2>1
  <2>3. \A j \in 1 .. 8 : data[j] = a12[j]
    BY <2>2
  <2> QED BY <1>8, <2>2, <2>3
<1>16. \A j \in 1 .. 6 : data[j] = a6[j]
  <2>1. \A j \in 1 .. 6 : data[j] = a8[j]
    BY <1>15
  <2> QED BY <1>7, <2>1
<1>11. \A j \in 1 .. 4 : data[j] = sig[j]
  <2>1. \A j \in 1 .. 4 : data[j] = a6[j]
    BY <1>16
  <2> QED BY <1>6, <2>1
<1>12. \A j \in 1 .. 2 : data[4 + j] = v[j]
  <2> TAKE j \in 1 .. 2
  <2>1. 4 + j \in 1 .. 6
    OBVIOUS
  <2>2. data[4 + j] = a6[4 + j]
    BY <1>16, <2>1
  <2> QED BY <1>6, <2>2
<1>13. \A j \in 1 .. 4 : data[8 + j] = m[j]
  <2> TAKE j \in 1 .. 4
  <2>1. 8 + j \in 1 .. 12
    OBVIOUS
  <2>2. data[8 + j] = a12[8 + j]
    BY <1>15, <2>1
  <2> QED BY <1>8, <2>2
<1>14. \A i \in 1 .. 16 : \A j \in 1 .. 4 : data[8 + 4 * i + j] = LeBytes(words[Fields[i]], 4)[j]
  <2> TAKE i \in 1 .. 16
  <2> TAKE j \in 1 .. 4
  <2> DEFINE k == 4 * (i - 1) + j
  <2>1. k \in 1 .. 64 /\ 12 + k = 8 + 4 * i + j /\ 12 + k \in 1 .. 76
    OBVIOUS
  <2>2. flat[k] = LeBytes(words[Fields[i]], 4)[j]
    BY <1>3
  <2> HIDE DEF k
  <2>3. data[12 + k] = flat[k]
    BY <1>9, <1>10, <2>1
  <2> QED BY <2>1, <2>2, <2>3
<1> QED BY <1>2, <1>10, <1>11, <1>12, <1>13, <1>14 DEF body, l, v, m, sig

\* A word that stands somewhere in the data is read from there.
LEMMA WordAt ==
  ASSUME NEW data \in Seq(Bytes), NEW idx \in Nat, NEW k \in Nat, idx + k <= Len(data),
         NEW w \in Nat, \A j \in 1 .. k : data[idx + j] = LeBytes(w, k)[j],
         \/ k = 4 /\ w < WordValues
         \/ k = 2 /\ w < ByteValues
  PROVE  LeWord(DropBytes(data, idx), k) = w
<1> DEFINE n == Len(data)
           rest == DropBytes(data, idx)
<1>1. n \in Nat /\ idx \in 0 .. n /\ Bytes \subseteq Nat
  BY LenProperties, CodecAssumption DEF Bytes
<1>2. rest \in Seq(Bytes) /\ Len(rest) = n - idx /\ \A j \in 1 .. n - idx : rest[j] = data[idx + j]
  BY <1>1, Dropped
<1>3. idx + k <= n
  OBVIOUS
<1> HIDE DEF rest, n
<1>4. k <= Len(rest) /\ \A j \in 1 .. k : j \in 1 .. n - idx
  BY <1>1, <1>2, <1>3
<1>5. rest \in Seq(Nat)
  BY <1>1, <1>2, SeqMonotonic
<1>6. \A j \in 1 .. k : rest[j] = LeBytes(w, k)[j]
  BY <1>2, <1>4
<1>7. LeWord(rest, k) = w
  BY <1>4, <1>5, <1>6, WordReadBack
<1> QED BY <1>7 DEF rest

\* HeaderRoundTrip, for any header.
THEOREM HeadersAreReadBack ==
  ASSUME NEW words \in HeaderWords, NEW sfs \in Seq(SubfieldSet), SubfieldLen(sfs) < WordValues
  PROVE  HeaderRoundTrip(HeaderOf(words, sfs))
<1> DEFINE data == WriteHeader(HeaderOf(words, sfs))
           body == SubfieldsBytes(sfs)
           l == Len(body)
           read == ReadJamHeader(data)
<1>1. /\ data \in Seq(Bytes) /\ Len(data) = 76 + l
      /\ \A j \in 1 .. 4 : data[j] = JAM_SIGNATURE[j]
      /\ \A j \in 1 .. 2 : data[4 + j] = LeBytes(1, 2)[j]
      /\ \A j \in 1 .. 4 : data[8 + j] = LeBytes(l, 4)[j]
      /\ \A i \in 1 .. 16 : \A j \in 1 .. 4 : data[8 + 4 * i + j] = LeBytes(words[Fields[i]], 4)[j]
      /\ \A j \in 1 .. l : data[76 + j] = body[j]
  BY HeaderLaidOut
<1>12. data \in Seq(Bytes) /\ Len(data) = 76 + l
  BY <1>1
<1>13. \A j \in 1 .. 4 : data[j] = JAM_SIGNATURE[j]
  BY <1>1
<1>14. \A j \in 1 .. 2 : data[4 + j] = LeBytes(1, 2)[j]
  BY <1>1
<1>15. \A j \in 1 .. 4 : data[8 + j] = LeBytes(l, 4)[j]
  BY <1>1
<1>16. \A i \in 1 .. 16 : \A j \in 1 .. 4 : data[8 + 4 * i + j] = LeBytes(words[Fields[i]], 4)[j]
  BY <1>1
<1>17. \A j \in 1 .. l : data[76 + j] = body[j]
  BY <1>1
<1>2. body \in Seq(Bytes) /\ l \in Nat
  BY RowOfSubfields, LenProperties
<1>3. l < WordValues
  BY SubfieldLenIs
<1>4. ReadSubfields(body) = Read(sfs)
  BY SubfieldsReadBack
<1> HIDE DEF data, body, l
<1>5. SubSeq(data, 1, 4) = JAM_SIGNATURE
  <2> DEFINE k == 0
             four == 4
             s == SubSeq(data, k + 1, k + four)
  <2>1. k \in Nat /\ four \in Nat /\ k + four <= Len(data)
    BY <1>2, <1>12
  <2>2. k + 1 = 1 /\ k + four = 4 /\ four = 4 /\ k = 0
    OBVIOUS
  <2> HIDE DEF k, four
  <2>3. s \in Seq(Bytes) /\ Len(s) = four /\ \A j \in 1 .. four : s[j] = data[k + j]
    <3>1. data \in Seq(Bytes)
      BY <1>12
    <3>2. /\ SubSeq(data, k + 1, k + four) \in Seq(Bytes)
          /\ Len(SubSeq(data, k + 1, k + four)) = four
          /\ \A j \in 1 .. four : SubSeq(data, k + 1, k + four)[j] = data[k + j]
      BY <2>1, <3>1, Cut
    <3> QED BY <3>2
  <2>4. s = SubSeq(data, 1, 4)
    BY <2>2
  <2> HIDE DEF s
  <2>5. JAM_SIGNATURE \in [1 .. 4 -> Bytes]
    BY CodecAssumption DEF Bytes
  <2>6. s \in [1 .. 4 -> Bytes]
    BY <2>2, <2>3, LenProperties
  <2>7. \A j \in 1 .. 4 : s[j] = JAM_SIGNATURE[j]
    <3>1. \A j \in 1 .. 4 : s[j] = data[0 + j] /\ 0 + j = j
      BY <2>2, <2>3
    <3> QED BY <1>13, <3>1
  <2> QED BY <2>4, <2>5, <2>6, <2>7
<1>6. LeWord(DropBytes(data, 4), 2) = 1
  <2>1. 1 < ByteValues /\ 4 + 2 <= Len(data)
    BY <1>2, <1>12, CodecAssumption
  <2>2. data \in Seq(Bytes) /\ 4 \in Nat /\ 2 \in Nat /\ 1 \in Nat
    BY <1>12
  <2> QED BY <1>14, <2>1, <2>2, WordAt
<1>7. LeWord(DropBytes(data, 8), 4) = l
  <2>1. 8 + 4 <= Len(data)
    BY <1>2, <1>12
  <2>2. data \in Seq(Bytes) /\ 8 \in Nat /\ 4 \in Nat /\ l \in Nat
    BY <1>2, <1>12
  <2> QED BY <1>3, <1>15, <2>1, <2>2, WordAt
<1>8. SubSeq(data, 76 + 1, 76 + l) = body
  <2> DEFINE k == 76
             s == SubSeq(data, k + 1, k + l)
  <2>1. k \in Nat /\ k + l <= Len(data)
    BY <1>2, <1>12
  <2>2. k = 76
    OBVIOUS
  <2> HIDE DEF k
  <2>3. s \in Seq(Bytes) /\ Len(s) = l /\ \A j \in 1 .. l : s[j] = data[k + j]
    <3>1. data \in Seq(Bytes) /\ l \in Nat
      BY <1>2, <1>12
    <3>2. /\ SubSeq(data, k + 1, k + l) \in Seq(Bytes) /\ Len(SubSeq(data, k + 1, k + l)) = l
          /\ \A j \in 1 .. l : SubSeq(data, k + 1, k + l)[j] = data[k + j]
      BY <2>1, <3>1, Cut
    <3> QED BY <3>2
  <2> HIDE DEF s
  <2>4. \A j \in 1 .. l : s[j] = body[j]
    BY <1>17, <2>2, <2>3
  <2>5. s = body
    BY <1>2, <2>3, <2>4, SeqEqual DEF l
  <2> QED BY <2>5 DEF s, k
<1>9. \A i \in 1 .. 16 : FieldAt(data, i) = words[Fields[i]] /\ words[Fields[i]] \in WordRange
  <2> TAKE i \in 1 .. 16
  <2> DEFINE w == words[Fields[i]]
             idx == 8 + 4 * i
  <2>1. w \in WordRange
    BY HeaderNames DEF HeaderWords
  <2>2. w \in Nat /\ w < WordValues
    <3>1. WordValues \in Nat
      BY CodecAssumption DEF WordValues
    <3> HIDE DEF w
    <3> QED BY <2>1, <3>1 DEF WordRange
  <2>3. idx \in Nat /\ idx + 4 <= Len(data)
    BY <1>2, <1>12
  <2>4. \A j \in 1 .. 4 : data[idx + j] = LeBytes(w, 4)[j]
    BY <1>16
  <2>5. FieldAt(data, i) = LeWord(DropBytes(data, idx), 4)
    BY DEF FieldAt
  <2> HIDE DEF w, idx
  <2>6. LeWord(DropBytes(data, idx), 4) = w
    <3>1. data \in Seq(Bytes) /\ 4 \in Nat
      BY <1>12
    <3> QED BY <2>2, <2>3, <2>4, <3>1, WordAt
  <2> QED BY <2>1, <2>5, <2>6 DEF w
<1>10. [f \in Range(Fields) |-> FieldAt(data, CHOOSE i \in DOMAIN Fields : Fields[i] = f)] = words
  <2>1. ASSUME NEW f \in Range(Fields)
        PROVE  FieldAt(data, CHOOSE i \in DOMAIN Fields : Fields[i] = f) = words[f]
    <3>1. \E i \in DOMAIN Fields : Fields[i] = f
      BY HeaderNames
    <3> DEFINE i == CHOOSE k \in DOMAIN Fields : Fields[k] = f
    <3>2. i \in 1 .. 16 /\ Fields[i] = f
      BY <3>1, HeaderNames
    <3> HIDE DEF i
    <3>3. FieldAt(data, i) = words[f]
      BY <1>9, <3>2
    <3> QED BY <3>3 DEF i
  <2>2. words = [f \in Range(Fields) |-> words[f]]
    BY DEF HeaderWords
  <2> QED BY <2>1, <2>2
<1>11. read = [ok |-> TRUE, header |-> HeaderOf(words, sfs)]
  <2>1. /\ ~(Len(data) < FIXED_HEADER_SIZE) /\ Len(data) >= FIXED_HEADER_SIZE
        /\ ~(FIXED_HEADER_SIZE + l > Len(data))
    BY <1>2, <1>12 DEF FIXED_HEADER_SIZE
  <2>2. ReadSubfields(SubSeq(data, FIXED_HEADER_SIZE + 1, FIXED_HEADER_SIZE + l)) = Read(sfs)
    BY <1>4, <1>8 DEF FIXED_HEADER_SIZE
  <2>3. Read(sfs).ok /\ Read(sfs).sub_fields = sfs
    BY DEF Read
  <2> HIDE DEF read
  <2>4. read = [ok |-> TRUE, header |-> HeaderOf(
                  [f \in Range(Fields) |-> FieldAt(data, CHOOSE i \in DOMAIN Fields : Fields[i] = f)],
                  Read(sfs).sub_fields)]
    BY <1>5, <1>6, <1>7, <2>1, <2>2, <2>3 DEF ReadJamHeader, read
  <2> QED BY <1>10, <2>3, <2>4
<1> QED BY <1>11 DEF HeaderRoundTrip, read, data

\* There are enough words for every code that is known.
LEMMA WordsAreMany == WordValues \in Nat /\ WordValues > 2400
<1> DEFINE b == ByteValues
           b2 == b * b
           b3 == b2 * b
           b4 == b3 * b
<1>1. b \in Nat /\ b >= 7
  BY CodecAssumption
<1> HIDE DEF b
<1>2. b2 \in Nat /\ b2 >= 49
  <2>1. b * b >= 7 * b
    BY <1>1
  <2> QED BY <1>1, <2>1
<1> HIDE DEF b2
<1>3. b3 \in Nat /\ b3 >= 343
  <2>1. b2 * b >= 49 * b
    BY <1>1, <1>2
  <2> QED BY <1>1, <1>2, <2>1
<1> HIDE DEF b3
<1>4. b4 \in Nat /\ b4 >= 2401
  <2>1. b3 * b >= 343 * b
    BY <1>1, <1>3
  <2> QED BY <1>1, <1>3, <2>1
<1>5. WordValues = b4
  BY DEF WordValues, b4, b3, b2, b
<1> QED BY <1>4, <1>5

\* A type that has a code is one that is read.
LEMMA KnownIsRead ==
  ASSUME NEW k \in KnownTypes PROVE [known |-> k[2]] \in SubfieldTypesRead
<1>1. k[1] \in Nat /\ k[1] <= 2204
  BY DEF KnownTypes
<1>2. k[1] \in WordRange
  BY <1>1, WordsAreMany DEF WordRange
<1> DEFINE t == CHOOSE t \in KnownTypes : t[1] = k[1]
<1>3. t \in KnownTypes /\ t[1] = k[1]
  OBVIOUS
<1>4. t = k
  BY <1>3, KnownOnce
<1>5. TypeFrom(k[1]) = [known |-> t[2]]
  BY DEF TypeFrom
<1> HIDE DEF t
<1> QED BY <1>2, <1>4, <1>5 DEF SubfieldTypesRead

\* Types the builder and the run use are those of codes.
LEMMA SomeAreRead ==
  /\ [known |-> "MsgID"] \in SubfieldTypesRead /\ [known |-> "SenderName"] \in SubfieldTypesRead
  /\ [known |-> "RecvName"] \in SubfieldTypesRead /\ [known |-> "Subject"] \in SubfieldTypesRead
  /\ [known |-> "TZUTCInfo"] \in SubfieldTypesRead /\ Unknown(2004) \in SubfieldTypesRead
<1>1. /\ <<4, "MsgID">> \in KnownTypes /\ <<2, "SenderName">> \in KnownTypes
      /\ <<3, "RecvName">> \in KnownTypes /\ <<6, "Subject">> \in KnownTypes
      /\ <<2204, "TZUTCInfo">> \in KnownTypes
  BY DEF KnownTypes
<1>2. \A c, s : <<c, s>>[2] = s
  OBVIOUS
<1>3. \A c, s : <<c, s>> \in KnownTypes => [known |-> s] \in SubfieldTypesRead
  BY <1>2, KnownIsRead
<1>4. Unknown(2004) \in SubfieldTypesRead
  <2>1. ~\E t \in KnownTypes : t[1] = 2004
    BY DEF KnownTypes
  <2>2. TypeFrom(2004) = Unknown(2004)
    BY <2>1 DEF TypeFrom
  <2>3. 2004 \in WordRange
    BY WordsAreMany DEF WordRange
  <2> QED BY <2>2, <2>3 DEF SubfieldTypesRead
<1> QED BY <1>1, <1>3, <1>4

\* A header in which one field is changed.
LEMMA HeaderChanged ==
  ASSUME NEW words, words = [f \in Range(Fields) |-> words[f]], NEW sfs
  PROVE  /\ \A f \in Range(Fields) : \A v :
              [HeaderOf(words, sfs) EXCEPT ![f] = v] = HeaderOf([words EXCEPT ![f] = v], sfs)
         /\ \A s : [HeaderOf(words, sfs) EXCEPT !.sub_fields = s] = HeaderOf(words, s)
<1> DEFINE D == Range(Fields) \cup {"sub_fields"}
           h == HeaderOf(words, sfs)
<1>1. h = [f \in D |-> IF f = "sub_fields" THEN sfs ELSE words[f]]
  BY DEF HeaderOf
<1>2. \A f \in Range(Fields) : f # "sub_fields"
  BY HeaderNames
<1> HIDE DEF h
<1>3. ASSUME NEW f \in Range(Fields), NEW v
      PROVE  [h EXCEPT ![f] = v] = HeaderOf([words EXCEPT ![f] = v], sfs)
  <2>1. [h EXCEPT ![f] = v] = [x \in D |-> IF x = f THEN v ELSE h[x]]
    BY <1>1
  <2>2. \A x \in D : (IF x = f THEN v ELSE h[x])
                       = IF x = "sub_fields" THEN sfs ELSE [words EXCEPT ![f] = v][x]
    BY <1>1, <1>2
  <2>3. HeaderOf([words EXCEPT ![f] = v], sfs)
          = [x \in D |-> IF x = "sub_fields" THEN sfs ELSE [words EXCEPT ![f] = v][x]]
    BY DEF HeaderOf
  <2> QED BY <2>1, <2>2, <2>3
<1>4. ASSUME NEW s PROVE [h EXCEPT !.sub_fields = s] = HeaderOf(words, s)
  <2>1. [h EXCEPT !.sub_fields = s] = [x \in D |-> IF x = "sub_fields" THEN s ELSE h[x]]
    BY <1>1
  <2>2. \A x \in D : (IF x = "sub_fields" THEN s ELSE h[x]) = IF x = "sub_fields" THEN s ELSE words[x]
    BY <1>1
  <2>3. HeaderOf(words, s) = [x \in D |-> IF x = "sub_fields" THEN s ELSE words[x]]
    BY DEF HeaderOf
  <2> QED BY <2>1, <2>2, <2>3
<1> QED BY <1>3, <1>4 DEF h

\* The words of a message that is built.
NewWords(number, idCrc, now) ==
  [f \in Range(Fields) |->
     CASE f = "message_number" -> number [] f = "msgid_crc" -> idCrc [] f = "date_written" -> now
       [] f \in {"replycrc", "password_crc"} -> CrcSeedWord [] OTHER -> 0]

\* A new message has these words, and its id for a subfield.
LEMMA MessageBuilt ==
  ASSUME NEW number \in WordRange, NEW id, NEW idCrc \in WordRange, NEW now \in WordRange
  PROVE  /\ NewWords(number, idCrc, now) \in HeaderWords
         /\ NewMessage(number, id, idCrc, now)
              = HeaderOf(NewWords(number, idCrc, now), <<Subfield([known |-> "MsgID"], id)>>)
<1> DEFINE w0 == [f \in Range(Fields) |->
                    IF f \in {"msgid_crc", "replycrc", "password_crc"} THEN CrcSeedWord ELSE 0]
           w1 == [w0 EXCEPT !.message_number = number]
           w2 == [w1 EXCEPT !.msgid_crc = idCrc]
           w3 == [w2 EXCEPT !.date_written = now]
           none == << >>
           sfs == <<Subfield([known |-> "MsgID"], id)>>
<1>1. "message_number" \in Range(Fields) /\ "msgid_crc" \in Range(Fields) /\ "date_written" \in Range(Fields)
  <2>1. Fields[10] = "message_number" /\ Fields[2] = "msgid_crc" /\ Fields[7] = "date_written"
    BY DEF Fields
  <2> QED BY <2>1, HeaderNames
<1>2. /\ w0 = [f \in Range(Fields) |-> w0[f]] /\ w1 = [f \in Range(Fields) |-> w1[f]]
      /\ w2 = [f \in Range(Fields) |-> w2[f]]
  OBVIOUS
<1>3. w3 = NewWords(number, idCrc, now)
  <2>1. w3 = [f \in Range(Fields) |->
               IF f = "date_written" THEN now ELSE IF f = "msgid_crc" THEN idCrc
               ELSE IF f = "message_number" THEN number ELSE w0[f]]
    BY <1>1
  <2> QED BY <2>1 DEF NewWords
<1>4. DefaultHeader = HeaderOf(w0, none)
  BY DEF DefaultHeader
<1> HIDE DEF w0, none, sfs
<1>5. [HeaderOf(w0, none) EXCEPT !.message_number = number] = HeaderOf(w1, none)
  <2>1. w0 = [f \in Range(Fields) |-> w0[f]]
    BY <1>2
  <2>2. w1 = [w0 EXCEPT !.message_number = number]
    OBVIOUS
  <2> HIDE DEF w0, w1
  <2>3. \A f \in Range(Fields) : \A v :
          [HeaderOf(w0, none) EXCEPT ![f] = v] = HeaderOf([w0 EXCEPT ![f] = v], none)
    BY <2>1, HeaderChanged
  <2> QED BY <1>1, <2>2, <2>3
<1>6. [HeaderOf(w1, none) EXCEPT !.msgid_crc = idCrc] = HeaderOf(w2, none)
  <2>1. w1 = [f \in Range(Fields) |-> w1[f]]
    BY <1>2
  <2>2. w2 = [w1 EXCEPT !.msgid_crc = idCrc]
    OBVIOUS
  <2> HIDE DEF w1, w2
  <2>3. \A f \in Range(Fields) : \A v :
          [HeaderOf(w1, none) EXCEPT ![f] = v] = HeaderOf([w1 EXCEPT ![f] = v], none)
    BY <2>1, HeaderChanged
  <2> QED BY <1>1, <2>2, <2>3
<1>7. [HeaderOf(w2, none) EXCEPT !.date_written = now] = HeaderOf(w3, none)
  <2>1. w2 = [f \in Range(Fields) |-> w2[f]]
    BY <1>2
  <2>2. w3 = [w2 EXCEPT !.date_written = now]
    OBVIOUS
  <2> HIDE DEF w2, w3
  <2>3. \A f \in Range(Fields) : \A v :
          [HeaderOf(w2, none) EXCEPT ![f] = v] = HeaderOf([w2 EXCEPT ![f] = v], none)
    BY <2>1, HeaderChanged
  <2> QED BY <1>1, <2>2, <2>3
<1>8. [HeaderOf(w3, none) EXCEPT !.sub_fields = sfs] = HeaderOf(w3, sfs)
  <2>1. w3 = [f \in Range(Fields) |-> w3[f]]
    BY <1>2
  <2> HIDE DEF w3
  <2> QED BY <2>1, HeaderChanged
<1> HIDE DEF w1, w2, w3
<1>9. NewMessage(number, id, idCrc, now) = HeaderOf(w3, sfs)
  <2>1. NewMessage(number, id, idCrc, now) =
          [[[[DefaultHeader EXCEPT !.message_number = number] EXCEPT !.msgid_crc = idCrc]
             EXCEPT !.date_written = now] EXCEPT !.sub_fields = sfs]
    BY DEF NewMessage, sfs
  <2> QED BY <1>4, <1>5, <1>6, <1>7, <1>8, <2>1
<1>10. NewWords(number, idCrc, now) \in HeaderWords
  <2>1. CrcSeedWord \in WordRange /\ 0 \in WordRange
    BY WordsAreMany DEF CrcSeedWord, WordRange
  <2> QED BY <2>1 DEF NewWords, HeaderWords
<1> QED BY <1>3, <1>9, <1>10 DEF sfs

\* The first subfield of a type that only the k-th has.
LEMMA Selected ==
  ASSUME NEW words, NEW sfs, Len(sfs) = 4, NEW name, NEW k \in 1 .. 4,
         \A i \in 1 .. 4 : sfs[i].type = [known |-> name] <=> i = k
  PROVE  SelectSubfield(HeaderOf(words, sfs), name) = sfs[k].content
<1> DEFINE I == {i \in 1 .. Len(sfs) : sfs[i].type = [known |-> name]}
<1>1. HeaderOf(words, sfs).sub_fields = sfs
  BY HeaderParts
<1>2. SelectSubfield(HeaderOf(words, sfs), name) = sfs[IF I # {} THEN Min(I) ELSE 0].content
  BY <1>1 DEF SelectSubfield, SelectInSeq
<1>3. I = {k}
  OBVIOUS
<1>4. Min({k}) = k
  BY DEF Min
<1> HIDE DEF I
<1> QED BY <1>2, <1>3, <1>4

\* The builder puts a subfield behind the others.
LEMMA SubfieldPut ==
  ASSUME NEW words \in HeaderWords, NEW sfs, NEW type, NEW content
  PROVE  WithSubfield(HeaderOf(words, sfs), type, content)
           = HeaderOf(words, Append(sfs, Subfield([known |-> type], content)))
<1> DEFINE h == HeaderOf(words, sfs)
           more == Append(sfs, Subfield([known |-> type], content))
<1>1. h.sub_fields = sfs
  BY HeaderParts
<1>2. words = [f \in Range(Fields) |-> words[f]]
  BY DEF HeaderWords
<1>3. \A s : [h EXCEPT !.sub_fields = s] = HeaderOf(words, s)
  BY <1>2, HeaderChanged
<1> HIDE DEF h
<1>4. WithSubfield(h, type, content) = [h EXCEPT !.sub_fields = more]
  BY <1>1 DEF WithSubfield
<1> HIDE DEF more
<1>5. WithSubfield(h, type, content) = HeaderOf(words, more)
  BY <1>3, <1>4
<1> QED BY <1>5 DEF h, more

\* The k-th of four subfields is the only one of its name.
OnlyOne(sfs, name, k) ==
  Len(sfs) = 4 /\ \A i \in 1 .. 4 : sfs[i].type = [known |-> name] <=> i = k

\* The subfield that is the only one of its name is the one that is found.
LEMMA OneIsSelected ==
  ASSUME NEW words, NEW sfs, NEW name, NEW k \in 1 .. 4, OnlyOne(sfs, name, k)
  PROVE  SelectSubfield(HeaderOf(words, sfs), name) = sfs[k].content
<1>1. Len(sfs) = 4 /\ \A i \in 1 .. 4 : sfs[i].type = [known |-> name] <=> i = k
  BY DEF OnlyOne
<1> QED BY <1>1, Selected

\* A sequence with one element more.
OneLonger(s, t, e) ==
  Len(t) = Len(s) + 1 /\ t[Len(s) + 1] = e /\ \A i \in 1 .. Len(s) : t[i] = s[i]

\* It is the sequence with the element appended.
LEMMA OneIsPut ==
  ASSUME NEW S, NEW s \in Seq(S), NEW t \in Seq(S), NEW e \in S, OneLonger(s, t, e)
  PROVE  Append(s, e) = t
<1> DEFINE n == Len(s)
           more == Append(s, e)
<1>1. n \in Nat
  OBVIOUS
<1>2. more \in Seq(S) /\ Len(more) = n + 1 /\ more[n + 1] = e /\ \A i \in 1 .. n : more[i] = s[i]
  BY AppendProperties
<1>3. Len(t) = n + 1 /\ t[n + 1] = e /\ \A i \in 1 .. n : t[i] = s[i]
  BY DEF OneLonger
<1> HIDE DEF n, more
<1>4. \A i \in 1 .. n + 1 : i = n + 1 \/ i \in 1 .. n
  BY <1>1
<1>5. \A i \in 1 .. Len(more) : more[i] = t[i]
  BY <1>2, <1>3, <1>4
<1>6. Len(more) = Len(t)
  BY <1>2, <1>3
<1>7. more = t
  BY <1>2, <1>5, <1>6, SeqEqual
<1> QED BY <1>7 DEF more

\* A sequence built in four steps.
LEMMA FourPut ==
  ASSUME NEW a, NEW b, NEW c, NEW d
  PROVE  Append(Append(Append(<<a>>, b), c), d) = <<a, b, c, d>>
<1> DEFINE S == {a, b, c, d}
<1>1. a \in S /\ b \in S /\ c \in S /\ d \in S
  OBVIOUS
<1> HIDE DEF S
<1>2. Append(<<a>>, b) = <<a, b>>
  <2> DEFINE s == <<a>>
             t == <<a, b>>
  <2>1. s \in Seq(S) /\ Len(s) = 1 /\ s[1] = a
    BY <1>1
  <2>2. t \in Seq(S) /\ Len(t) = 2 /\ t[1] = a /\ t[2] = b
    BY <1>1
  <2> HIDE DEF s, t
  <2>3. OneLonger(s, t, b)
    BY <2>1, <2>2 DEF OneLonger
  <2>4. s \in Seq(S) /\ t \in Seq(S)
    BY <2>1, <2>2
  <2>5. Append(s, b) = t
    BY <1>1, <2>3, <2>4, OneIsPut
  <2> QED BY <2>5 DEF s, t
<1>3. Append(<<a, b>>, c) = <<a, b, c>>
  <2> DEFINE s == <<a, b>>
             t == <<a, b, c>>
  <2>1. s \in Seq(S) /\ Len(s) = 2 /\ s[1] = a /\ s[2] = b
    BY <1>1
  <2>2. t \in Seq(S) /\ Len(t) = 3 /\ t[1] = a /\ t[2] = b /\ t[3] = c
    BY <1>1
  <2> HIDE DEF s, t
  <2>3. OneLonger(s, t, c)
    BY <2>1, <2>2 DEF OneLonger
  <2>4. s \in Seq(S) /\ t \in Seq(S)
    BY <2>1, <2>2
  <2>5. Append(s, c) = t
    BY <1>1, <2>3, <2>4, OneIsPut
  <2> QED BY <2>5 DEF s, t
<1>4. Append(<<a, b, c>>, d) = <<a, b, c, d>>
  <2> DEFINE s == <<a, b, c>>
             t == <<a, b, c, d>>
  <2>1. s \in Seq(S) /\ Len(s) = 3 /\ s[1] = a /\ s[2] = b /\ s[3] = c
    BY <1>1
  <2>2. t \in Seq(S) /\ Len(t) = 4 /\ t[1] = a /\ t[2] = b /\ t[3] = c /\ t[4] = d
    BY <1>1
  <2> HIDE DEF s, t
  <2>3. OneLonger(s, t, d)
    BY <2>1, <2>2 DEF OneLonger
  <2>4. s \in Seq(S) /\ t \in Seq(S)
    BY <2>1, <2>2
  <2>5. Append(s, d) = t
    BY <1>1, <2>3, <2>4, OneIsPut
  <2> QED BY <2>5 DEF s, t
<1> QED BY <1>2, <1>3, <1>4

\* NamesReadBack, for any names that fit a header.
LEMMA NamesAreReadBack ==
  ASSUME NEW from \in Seq(Bytes), NEW to \in Seq(Bytes), NEW subject \in Seq(Bytes),
         Len(from) + Len(to) + Len(subject) + 33 < WordValues
  PROVE  NamesReadBack(from, to, subject)
<1> DEFINE s1 == Subfield([known |-> "MsgID"], <<1>>)
           s2 == Subfield([known |-> "SenderName"], from)
           s3 == Subfield([known |-> "RecvName"], to)
           s4 == Subfield([known |-> "Subject"], subject)
           sfs == <<s1, s2, s3, s4>>
           words == NewWords(1, 2, 3)
           named == WithSubfield(WithSubfield(WithSubfield(NewMessage(1, <<1>>, 2, 3),
                      "SenderName", from), "RecvName", to), "Subject", subject)
<1>1. words \in HeaderWords /\ NewMessage(1, <<1>>, 2, 3) = HeaderOf(words, <<s1>>)
  <2>1. 1 \in WordRange /\ 2 \in WordRange /\ 3 \in WordRange
    BY WordsAreMany DEF WordRange
  <2> QED BY <2>1, MessageBuilt
<1>2. /\ Len(from) \in Nat /\ Len(to) \in Nat /\ Len(subject) \in Nat
      /\ <<1>> \in Seq(Bytes) /\ Len(<<1>>) = 1
  <2>1. 1 \in Bytes
    BY CodecAssumption DEF Bytes
  <2> QED BY <2>1, LenProperties
<1>3. /\ s1 = [type |-> [known |-> "MsgID"], content |-> <<1>>]
      /\ s2 = [type |-> [known |-> "SenderName"], content |-> from]
      /\ s3 = [type |-> [known |-> "RecvName"], content |-> to]
      /\ s4 = [type |-> [known |-> "Subject"], content |-> subject]
  BY DEF Subfield
<1>4. Len(from) < WordValues /\ Len(to) < WordValues /\ Len(subject) < WordValues /\ 1 < WordValues
  BY <1>2, WordsAreMany
<1>5. s1 \in SubfieldSet /\ s2 \in SubfieldSet /\ s3 \in SubfieldSet /\ s4 \in SubfieldSet
  <2>1. \A t \in SubfieldTypesRead : \A c \in Seq(Bytes) :
          Len(c) < WordValues => [type |-> t, content |-> c] \in SubfieldSet
    BY DEF SubfieldSet
  <2> HIDE DEF s1, s2, s3, s4
  <2>2. s1 \in SubfieldSet
    <3> DEFINE id == <<1>>
    <3>1. id \in Seq(Bytes) /\ Len(id) < WordValues /\ s1 = [type |-> [known |-> "MsgID"], content |-> id]
      BY <1>2, <1>3, <1>4
    <3> HIDE DEF id
    <3> QED BY <2>1, <3>1, SomeAreRead
  <2>3. s2 \in SubfieldSet
    BY <1>3, <1>4, <2>1, SomeAreRead
  <2>4. s3 \in SubfieldSet
    BY <1>3, <1>4, <2>1, SomeAreRead
  <2>5. s4 \in SubfieldSet
    BY <1>3, <1>4, <2>1, SomeAreRead
  <2> QED BY <2>2, <2>3, <2>4, <2>5
<1>6. /\ s1.content = <<1>> /\ s2.content = from /\ s3.content = to /\ s4.content = subject
      /\ s1.type = [known |-> "MsgID"] /\ s2.type = [known |-> "SenderName"]
      /\ s3.type = [known |-> "RecvName"] /\ s4.type = [known |-> "Subject"]
  BY <1>3
<1>7. named = HeaderOf(words, sfs)
  <2>1. WithSubfield(HeaderOf(words, <<s1>>), "SenderName", from) = HeaderOf(words, Append(<<s1>>, s2))
    BY <1>1, SubfieldPut
  <2>2. WithSubfield(HeaderOf(words, Append(<<s1>>, s2)), "RecvName", to)
          = HeaderOf(words, Append(Append(<<s1>>, s2), s3))
    BY <1>1, SubfieldPut
  <2>3. WithSubfield(HeaderOf(words, Append(Append(<<s1>>, s2), s3)), "Subject", subject)
          = HeaderOf(words, Append(Append(Append(<<s1>>, s2), s3), s4))
    BY <1>1, SubfieldPut
  <2> HIDE DEF s1, s2, s3, s4, words
  <2>4. Append(Append(Append(<<s1>>, s2), s3), s4) = sfs
    BY FourPut
  <2> HIDE DEF sfs
  <2> QED BY <1>1, <2>1, <2>2, <2>3, <2>4
<1> HIDE DEF s1, s2, s3, s4, words, named
<1>8. sfs \in Seq(SubfieldSet) /\ Len(sfs) = 4
      /\ sfs[1] = s1 /\ sfs[2] = s2 /\ sfs[3] = s3 /\ sfs[4] = s4
  BY <1>5
<1> HIDE DEF sfs
<1>9. SubfieldLen(sfs) < WordValues
  <2>1. PICK w \in [0 .. 4 -> Nat] :
          /\ w[0] = 0
          /\ \A i \in 1 .. 4 : w[i] = w[i - 1] + SubfieldHead + Len(sfs[i].content)
          /\ SubfieldLen(sfs) = w[4]
    BY <1>8, SubfieldLenSteps
  <2>2. /\ w[1] = 0 + 8 + 1 /\ w[2] = w[1] + 8 + Len(from) /\ w[3] = w[2] + 8 + Len(to)
        /\ w[4] = w[3] + 8 + Len(subject)
    <3>1. /\ 1 - 1 = 0 /\ 2 - 1 = 1 /\ 3 - 1 = 2 /\ 4 - 1 = 3
          /\ 1 \in 1 .. 4 /\ 2 \in 1 .. 4 /\ 3 \in 1 .. 4 /\ 4 \in 1 .. 4
      OBVIOUS
    <3>2. w[1] = w[0] + SubfieldHead + Len(sfs[1].content)
      BY <2>1, <3>1
    <3>3. w[2] = w[1] + SubfieldHead + Len(sfs[2].content)
      BY <2>1, <3>1
    <3>4. w[3] = w[2] + SubfieldHead + Len(sfs[3].content)
      BY <2>1, <3>1
    <3>5. w[4] = w[3] + SubfieldHead + Len(sfs[4].content)
      BY <2>1, <3>1
    <3>6. /\ sfs[1].content = <<1>> /\ sfs[2].content = from /\ sfs[3].content = to
          /\ sfs[4].content = subject /\ w[0] = 0 /\ Len(<<1>>) = 1
      BY <1>2, <1>6, <1>8, <2>1
    <3> QED BY <3>2, <3>3, <3>4, <3>5, <3>6 DEF SubfieldHead
  <2>3. w[4] = Len(from) + Len(to) + Len(subject) + 33
    BY <1>2, <2>2
  <2> QED BY <2>1, <2>3
<1>10. HeaderRoundTrip(HeaderOf(words, sfs))
  BY <1>1, <1>8, <1>9, HeadersAreReadBack
<1> DEFINE header == ReadJamHeader(WriteHeader(named)).header
<1>11. header = HeaderOf(words, sfs)
  BY <1>7, <1>10 DEF HeaderRoundTrip
<1> HIDE DEF header
<1>12. \A i \in 1 .. 4 : /\ sfs[i].type = [known |-> "SenderName"] <=> i = 2
                         /\ sfs[i].type = [known |-> "RecvName"] <=> i = 3
                         /\ sfs[i].type = [known |-> "Subject"] <=> i = 4
  <2>1. \A a, b : [known |-> a] = [known |-> b] => a = b
    <3> TAKE a, b
    <3>1. [known |-> a].known = a /\ [known |-> b].known = b
      OBVIOUS
    <3> QED BY <3>1
  <2>2. /\ [known |-> "MsgID"] # [known |-> "SenderName"] /\ [known |-> "MsgID"] # [known |-> "RecvName"]
        /\ [known |-> "MsgID"] # [known |-> "Subject"]
        /\ [known |-> "SenderName"] # [known |-> "RecvName"]
        /\ [known |-> "SenderName"] # [known |-> "Subject"]
        /\ [known |-> "RecvName"] # [known |-> "Subject"]
    <3>1. /\ "MsgID" # "SenderName" /\ "MsgID" # "RecvName" /\ "MsgID" # "Subject"
          /\ "SenderName" # "RecvName" /\ "SenderName" # "Subject" /\ "RecvName" # "Subject"
      OBVIOUS
    <3> QED BY <2>1, <3>1
  <2> TAKE i \in 1 .. 4
  <2>3. i = 1 \/ i = 2 \/ i = 3 \/ i = 4
    OBVIOUS
  <2>4. /\ sfs[1].type = [known |-> "MsgID"] /\ sfs[2].type = [known |-> "SenderName"]
        /\ sfs[3].type = [known |-> "RecvName"] /\ sfs[4].type = [known |-> "Subject"]
    BY <1>6, <1>8
  <2>5. CASE i = 1
    BY <2>2, <2>4, <2>5
  <2>6. CASE i = 2
    BY <2>2, <2>4, <2>6
  <2>7. CASE i = 3
    BY <2>2, <2>4, <2>7
  <2>8. CASE i = 4
    BY <2>2, <2>4, <2>8
  <2> QED BY <2>3, <2>5, <2>6, <2>7, <2>8
<1>13. /\ SelectSubfield(HeaderOf(words, sfs), "SenderName") = sfs[2].content
       /\ SelectSubfield(HeaderOf(words, sfs), "RecvName") = sfs[3].content
       /\ SelectSubfield(HeaderOf(words, sfs), "Subject") = sfs[4].content
  <2>1. 2 \in 1 .. 4 /\ 3 \in 1 .. 4 /\ 4 \in 1 .. 4
    OBVIOUS
  <2>2. SelectSubfield(HeaderOf(words, sfs), "SenderName") = sfs[2].content
    <3>1. OnlyOne(sfs, "SenderName", 2)
      BY <1>8, <1>12 DEF OnlyOne
    <3> QED BY <2>1, <3>1, OneIsSelected
  <2>3. SelectSubfield(HeaderOf(words, sfs), "RecvName") = sfs[3].content
    <3>1. OnlyOne(sfs, "RecvName", 3)
      BY <1>8, <1>12 DEF OnlyOne
    <3> QED BY <2>1, <3>1, OneIsSelected
  <2>4. SelectSubfield(HeaderOf(words, sfs), "Subject") = sfs[4].content
    <3>1. OnlyOne(sfs, "Subject", 4)
      BY <1>8, <1>12 DEF OnlyOne
    <3> QED BY <2>1, <3>1, OneIsSelected
  <2> QED BY <2>2, <2>3, <2>4
<1>14. /\ SelectSubfield(header, "SenderName") = from /\ SelectSubfield(header, "RecvName") = to
       /\ SelectSubfield(header, "Subject") = subject
  BY <1>6, <1>8, <1>11, <1>13
<1> QED BY <1>14 DEF NamesReadBack, header, named

\* The headers of the run are headers.
LEMMA HeadersOfRun ==
  ASSUME NEW h \in JamHeaders
  PROVE  HeaderRoundTrip(h)
<1> DEFINE words == [f \in Range(Fields) |-> CHOOSE i \in DOMAIN Fields : Fields[i] = f]
<1>1. PICK sfs \in BoundedSeq(Subfields, 2) : h = HeaderOf(words, sfs)
  BY DEF JamHeaders
<1>2. words \in HeaderWords
  <2>1. ASSUME NEW f \in Range(Fields) PROVE (CHOOSE i \in DOMAIN Fields : Fields[i] = f) \in 1 .. 16
    BY HeaderNames
  <2>2. \A i \in 1 .. 16 : i \in WordRange
    BY WordsAreMany DEF WordRange
  <2> QED BY <2>1, <2>2 DEF HeaderWords
<1> HIDE DEF words
<1>3. \A sf \in Subfields : sf \in SubfieldSet /\ Len(sf.content) <= 2
  <2>1. \A c \in Contents : c \in Seq(Bytes) /\ Len(c) \in Nat /\ Len(c) <= 2
    <3>1. 1 \in Bytes /\ 2 \in Bytes /\ 3 \in Bytes
      BY CodecAssumption DEF Bytes
    <3>2. << >> \in Seq(Bytes) /\ <<1>> \in Seq(Bytes) /\ <<2, 3>> \in Seq(Bytes)
      BY <3>1
    <3>3. Len(<< >>) = 0 /\ Len(<<1>>) = 1 /\ Len(<<2, 3>>) = 2
      OBVIOUS
    <3> TAKE c \in Contents
    <3>4. c = << >> \/ c = <<1>> \/ c = <<2, 3>>
      BY DEF Contents
    <3>5. CASE c = << >>
      BY <3>2, <3>3, <3>5
    <3>6. CASE c = <<1>>
      BY <3>2, <3>3, <3>6
    <3>7. CASE c = <<2, 3>>
      BY <3>2, <3>3, <3>7
    <3> QED BY <3>4, <3>5, <3>6, <3>7
  <2>2. SubfieldTypes \subseteq SubfieldTypesRead
    BY SomeAreRead DEF SubfieldTypes
  <2>3. ASSUME NEW t \in SubfieldTypes, NEW c \in Contents
        PROVE Subfield(t, c) \in SubfieldSet /\ Subfield(t, c).content = c
    <3>1. Len(c) < WordValues
      BY <2>1, WordsAreMany
    <3>2. t \in SubfieldTypesRead
      BY <2>2
    <3> QED BY <2>1, <3>1, <3>2 DEF Subfield, SubfieldSet
  <2> QED BY <2>1, <2>3 DEF Subfields
<1>4. sfs \in Seq(SubfieldSet) /\ Len(sfs) \in 0 .. 2 /\ \A i \in 1 .. Len(sfs) : Len(sfs[i].content) <= 2
  <2>1. sfs \in Seq(Subfields)
    BY BoundedIsSeq
  <2>2. PICK m \in 0 .. 2 : sfs \in [1 .. m -> Subfields]
    BY Zenon DEF BoundedSeq, SeqOf
  <2>3. Len(sfs) = m
    <3>1. m \in Nat
      OBVIOUS
    <3> QED BY <2>2, <3>1, RowIsSeq
  <2>4. \A i \in 1 .. Len(sfs) : sfs[i] \in Subfields
    BY <2>1, ElementOfSeq
  <2>5. Subfields \subseteq SubfieldSet
    BY <1>3
  <2>6. sfs \in Seq(SubfieldSet)
    BY <2>1, <2>5, SeqMonotonic
  <2> QED BY <1>3, <2>3, <2>4, <2>6
<1>5. SubfieldLen(sfs) < WordValues
  <2> DEFINE n == Len(sfs)
  <2>1. n \in 0 .. 2
    BY <1>4
  <2>2. PICK w \in [0 .. n -> Nat] :
          /\ w[0] = 0
          /\ \A i \in 1 .. n : w[i] = w[i - 1] + SubfieldHead + Len(sfs[i].content)
          /\ SubfieldLen(sfs) = w[n]
    BY <1>4, SubfieldLenSteps
  <2>3. \A i \in 1 .. n : Len(sfs[i].content) \in Nat /\ Len(sfs[i].content) <= 2
    <3>1. \A i \in 1 .. n : sfs[i] \in SubfieldSet
      BY <1>4, ElementOfSeq
    <3> QED BY <1>4, <3>1, BytesOfSubfield
  <2> HIDE DEF n
  <2>4. ASSUME NEW i \in 1 .. n PROVE w[i] <= w[i - 1] + 10
    <3> DEFINE l == Len(sfs[i].content)
    <3>1. w[i] = w[i - 1] + SubfieldHead + l /\ l \in Nat /\ l <= 2 /\ w[i - 1] \in Nat
      BY <2>1, <2>2, <2>3
    <3> HIDE DEF l
    <3> QED BY <3>1 DEF SubfieldHead
  <2>5. w[n] <= 20 /\ w[n] \in Nat
    <3>1. CASE n = 0
      BY <2>2, <3>1
    <3>2. CASE n = 1
      <4>1. w[1] <= w[0] + 10 /\ w[1] \in Nat
        BY <2>2, <2>4, <3>2
      <4> QED BY <2>2, <3>2, <4>1
    <3>3. CASE n = 2
      <4>1. w[1] <= w[0] + 10 /\ w[2] <= w[1] + 10 /\ w[1] \in Nat /\ w[2] \in Nat
        BY <2>2, <2>4, <3>3
      <4> QED BY <2>2, <3>3, <4>1
    <3> QED BY <2>1, <3>1, <3>2, <3>3
  <2> QED BY <2>2, <2>5, WordsAreMany
<1> QED BY <1>1, <1>2, <1>4, <1>5, HeadersAreReadBack

\* Zeros are bytes.
LEMMA ZerosAreBytes ==
  ASSUME NEW n \in Nat PROVE [i \in 1 .. n |-> 0] \in Seq(Bytes)
<1>1. 0 \in Bytes
  BY CodecAssumption DEF Bytes
<1>2. [i \in 1 .. n |-> 0] \in [1 .. n -> Bytes]
  BY <1>1
<1> QED BY <1>2, RowIsSeq

\* The head of a subfield of the run, and what it is filled with.
HeadOfRun(c, n) == LeBytes(c, 4) \o LeBytes(n, 4)
WithZeros(hd, n) == hd \o [i \in 1 .. n |-> 0]

\* The subfield data of the run is of bytes.
LEMMA SubfieldDataIsBytes == SubfieldData \subseteq Seq(Bytes)
<1>1. SubfieldHeads \subseteq Seq(Bytes)
  <2> SUFFICES ASSUME NEW hd \in SubfieldHeads PROVE hd \in Seq(Bytes)
    OBVIOUS
  <2>0. SubfieldHeads = {HeadOfRun(c, n) : c \in {3, 2004}, n \in {0, 1, 2, 9, 10, 200}}
    BY DEF SubfieldHeads, HeadOfRun
  <2> PICK c \in {3, 2004}, n \in {0, 1, 2, 9, 10, 200} : hd = HeadOfRun(c, n)
    BY <2>0
  <2>1. c \in Nat /\ n \in Nat /\ 4 \in Nat
    OBVIOUS
  <2>2. LeBytes(c, 4) \in Seq(Bytes)
    BY <2>1, BytesType
  <2>3. LeBytes(n, 4) \in Seq(Bytes)
    BY <2>1, BytesType
  <2> QED BY <2>2, <2>3, Joined DEF HeadOfRun
<1>2. \A n \in 0 .. 10 : [i \in 1 .. n |-> 0] \in Seq(Bytes)
  <2>1. \A n \in 0 .. 10 : n \in Nat
    OBVIOUS
  <2> QED BY <2>1, ZerosAreBytes
<1>3. OneSubfield \subseteq Seq(Bytes)
  <2> SUFFICES ASSUME NEW data \in OneSubfield PROVE data \in Seq(Bytes)
    OBVIOUS
  <2>0. OneSubfield = {WithZeros(hd, n) : hd \in SubfieldHeads, n \in 0 .. 10}
    BY DEF OneSubfield, WithZeros
  <2> PICK hd \in SubfieldHeads, n \in 0 .. 10 : data = WithZeros(hd, n)
    BY <2>0
  <2> DEFINE zeros == [i \in 1 .. n |-> 0]
  <2>1. hd \in Seq(Bytes) /\ zeros \in Seq(Bytes)
    BY <1>1, <1>2
  <2> HIDE DEF zeros
  <2>2. hd \o zeros \in Seq(Bytes)
    BY <2>1, Joined
  <2>3. data = hd \o zeros
    BY DEF zeros, WithZeros
  <2> QED BY <2>2, <2>3
<1>4. \A a \in OneSubfield, b \in OneSubfield : a \o b \in Seq(Bytes)
  BY <1>3, Joined
<1> SUFFICES ASSUME NEW data \in SubfieldData PROVE data \in Seq(Bytes)
  OBVIOUS
<1>5. \/ data \in OneSubfield
      \/ \E a \in {d \in OneSubfield : Len(d) <= 10}, b \in OneSubfield : data = a \o b
      \/ \E n \in 0 .. 10 : data = [i \in 1 .. n |-> 0]
  BY DEF SubfieldData
<1>6. \A a \in {d \in OneSubfield : Len(d) <= 10} : a \in OneSubfield
  BY Zenon
<1> HIDE DEF SubfieldData
<1>7. CASE data \in OneSubfield
  BY <1>3, <1>7
<1>8. CASE \E a \in {d \in OneSubfield : Len(d) <= 10}, b \in OneSubfield : data = a \o b
  BY <1>4, <1>6, <1>8, Zenon
<1>9. CASE \E n \in 0 .. 10 : data = [i \in 1 .. n |-> 0]
  BY <1>2, <1>9, Zenon
<1> QED BY <1>5, <1>7, <1>8, <1>9

\* Subfields are accepted if they fill their data, and nothing of them is lost.
THEOREM SubfieldsAlwaysFill == Spec => []SubfieldsFill
<1>1. InputInv => SubfieldsFill
  BY SubfieldsAreWhole, SubfieldDataIsBytes DEF InputInv, SubfieldsFill
<1> QED BY <1>1, InputAlways, PTL

\* A header that is written is read back, and the names a message was built with.
THEOREM HeadersAlwaysRoundTrip == Spec => []HeadersRoundTrip
<1>1. \A c \in Contents : c \in Seq(Bytes) /\ Len(c) \in Nat /\ Len(c) <= 2
  <2>1. 1 \in Bytes /\ 2 \in Bytes /\ 3 \in Bytes
    BY CodecAssumption DEF Bytes
  <2>2. << >> \in Seq(Bytes) /\ <<1>> \in Seq(Bytes) /\ <<2, 3>> \in Seq(Bytes)
    BY <2>1
  <2>3. Len(<< >>) = 0 /\ Len(<<1>>) = 1 /\ Len(<<2, 3>>) = 2
    OBVIOUS
  <2> TAKE c \in Contents
  <2>4. c = << >> \/ c = <<1>> \/ c = <<2, 3>>
    BY DEF Contents
  <2>5. CASE c = << >>
    BY <2>2, <2>3, <2>5
  <2>6. CASE c = <<1>>
    BY <2>2, <2>3, <2>6
  <2>7. CASE c = <<2, 3>>
    BY <2>2, <2>3, <2>7
  <2> QED BY <2>4, <2>5, <2>6, <2>7
<1>2. ASSUME NEW from \in Contents, NEW to \in Contents, NEW subject \in Contents
      PROVE NamesReadBack(from, to, subject)
  <2>1. Len(from) + Len(to) + Len(subject) + 33 < WordValues
    BY <1>1, WordsAreMany
  <2> QED BY <1>1, <2>1, NamesAreReadBack
<1>3. InputInv => HeadersRoundTrip
  BY <1>2, HeadersOfRun DEF InputInv, HeadersRoundTrip
<1> QED BY <1>3, InputAlways, PTL

-----------------------------------------------------------------------------
(***************************************************************************)
(* Addresses. Digits are a number in base MaxDigit + 1.                    *)
(***************************************************************************)

\* The base of the numbers in an address.
Base == MaxDigit + 1

\* The number that a text stands for, digit by digit.
LEMMA NumberSteps ==
  ASSUME NEW text \in Seq(Int)
  PROVE  \E w : /\ w \in [0 .. Len(text) -> Int] /\ w[0] = 0
                /\ \A i \in 1 .. Len(text) : w[i] = (w[i - 1] * (MaxDigit + 1) + text[i])
                /\ NumberOf(text) = w[Len(text)]
<1> DEFINE n == Len(text)
           g == [p \in (0 .. n) \X Int |-> IF p[1] = 0 THEN 0 ELSE (p[2] * (MaxDigit + 1) + text[p[1]])]
           Rhs(f) == [s \in SUBSET (1 .. n) |->
             IF s = {} THEN 0 ELSE (f[s \ {Max(s)}] * (MaxDigit + 1) + text[Max(s)])]
           ff == CHOOSE f : f = Rhs(f)
<1>1. n \in Nat /\ 0 \in Int
  OBVIOUS
<1>2. \A i \in 1 .. n : \A v \in Int : (v * (MaxDigit + 1) + text[i]) \in Int
  <2> TAKE i \in 1 .. n
  <2> TAKE v \in Int
  <2>1. text[i] \in Int /\ MaxDigit + 1 \in Int
    BY AddressAssumption, ElementOfSeq
  <2>2. \A x \in Int : \A y \in Int : \A z \in Int : (x * y + z) \in Int
    OBVIOUS
  <2> QED BY <2>1, <2>2
<1>3. NumberOf(text) = ff[1 .. n]
  <2>1. DOMAIN text = 1 .. n
    OBVIOUS
  <2> QED BY <1>1, <2>1 DEF NumberOf, FoldLeft, MapThenFoldSet
<1> HIDE DEF n
<1>4. Steps(n, Int, 0, g)
  <2>1. g \in [(0 .. n) \X Int -> Int]
    <3>1. \A p \in (0 .. n) \X Int : p[1] # 0 => p[1] \in 1 .. n /\ p[2] \in Int
      BY <1>1
    <3>2. \A p \in (0 .. n) \X Int :
            (IF p[1] = 0 THEN 0 ELSE (p[2] * (MaxDigit + 1) + text[p[1]])) \in Int
      BY <1>1, <1>2, <3>1
    <3> QED BY <3>2
  <2> HIDE DEF g
  <2> QED BY <1>1, <2>1 DEF Steps
<1>5. \A i \in 1 .. n : \A v \in Int : g[<<i, v>>] = (v * (MaxDigit + 1) + text[i])
  <2> TAKE i \in 1 .. n
  <2> TAKE v \in Int
  <2>1. i \in 0 .. n /\ i # 0
    BY <1>1
  <2>2. <<i, v>> \in (0 .. n) \X Int
    BY <2>1
  <2> QED BY <2>1, <2>2
<1> HIDE DEF g
<1>6. PICK h : IsLeftFold(h, n, Int, 0, g)
  BY <1>4, FoldsLeft
<1>7. h = Rhs(h)
  <2>1. h \in [SUBSET (1 .. n) -> Int] /\ h[{}] = 0
    BY <1>6 DEF IsLeftFold
  <2>2. ASSUME NEW s \in SUBSET (1 .. n), s # {}
        PROVE h[s] = (h[s \ {Max(s)}] * (MaxDigit + 1) + text[Max(s)])
    <3>1. Max(s) \in 1 .. n /\ h[s] = g[<<Max(s), h[s \ {Max(s)}]>>]
      BY <1>6, <2>2 DEF IsLeftFold
    <3>2. h[s \ {Max(s)}] \in Int
      BY <2>1
    <3> QED BY <1>5, <3>1, <3>2
  <2>3. h = [s \in SUBSET (1 .. n) |->
               IF s = {} THEN 0 ELSE (h[s \ {Max(s)}] * (MaxDigit + 1) + text[Max(s)])]
    BY <2>1, <2>2
  <2> QED BY <2>3
<1>8. ff = Rhs(ff)
  <2> HIDE DEF Rhs
  <2> QED BY <1>7
<1> HIDE DEF ff
<1>9. FoldsBy(ff, n, Int, 0, g)
  <2>1. ff[{}] = 0
    BY <1>8
  <2>2. ASSUME NEW i \in 1 .. n, ff[1 .. i - 1] \in Int PROVE ff[1 .. i] = g[<<i, ff[1 .. i - 1]>>]
    <3>1. /\ 1 .. i \in SUBSET (1 .. n) /\ 1 .. i # {}
          /\ Max(1 .. i) = i /\ (1 .. i) \ {i} = 1 .. i - 1
      BY <1>1, FoldOfPrefix
    <3>2. ff[1 .. i] = (ff[(1 .. i) \ {Max(1 .. i)}] * (MaxDigit + 1) + text[Max(1 .. i)])
      BY <1>8, <3>1
    <3> QED BY <1>5, <2>2, <3>1, <3>2
  <2> QED BY <1>4, <2>1, <2>2 DEF FoldsBy
<1>10. PICK w : IsSteps(w, n, Int, 0, g) /\ ff[1 .. n] = w[n]
  BY <1>9, FoldSteps
<1>11. w \in [0 .. n -> Int] /\ w[0] = 0
  BY <1>10 DEF IsSteps
<1>12. \A i \in 1 .. n : w[i] = (w[i - 1] * (MaxDigit + 1) + text[i])
  <2> TAKE i \in 1 .. n
  <2>1. w[i - 1] \in Int
    BY <1>1, <1>11
  <2> QED BY <1>5, <1>10, <2>1 DEF IsSteps
<1> QED BY <1>3, <1>10, <1>11, <1>12 DEF n

\* It is a number.
LEMMA NumberType == ASSUME NEW text \in Seq(Int) PROVE NumberOf(text) \in Int
<1> DEFINE n == Len(text)
<1>1. n \in Nat
  OBVIOUS
<1>2. PICK v : /\ v \in [0 .. n -> Int] /\ v[0] = 0
               /\ \A i \in 1 .. n : v[i] = (v[i - 1] * (MaxDigit + 1) + text[i])
               /\ NumberOf(text) = v[n]
  BY NumberSteps, Zenon
<1> HIDE DEF n
<1>3. n \in 0 .. n
  BY <1>1
<1> QED BY <1>2, <1>3

\* One digit more.
LEMMA NumberAppended ==
  ASSUME NEW text \in Seq(Int), NEW d \in Int
  PROVE  NumberOf(Append(text, d)) = NumberOf(text) * Base + d
<1> DEFINE n == Len(text)
           more == Append(text, d)
<1>1. n \in Nat /\ more \in Seq(Int) /\ Len(more) = n + 1
      /\ more[n + 1] = d /\ \A i \in 1 .. n : more[i] = text[i]
  BY AppendProperties, LenProperties
<1>2. PICK v : /\ v \in [0 .. n -> Int] /\ v[0] = 0
               /\ \A i \in 1 .. n : v[i] = (v[i - 1] * (MaxDigit + 1) + text[i])
               /\ NumberOf(text) = v[n]
  BY NumberSteps, Zenon
<1> HIDE DEF more
<1>3. PICK w : /\ w \in [0 .. Len(more) -> Int] /\ w[0] = 0
               /\ \A i \in 1 .. Len(more) : w[i] = (w[i - 1] * (MaxDigit + 1) + more[i])
               /\ NumberOf(more) = w[Len(more)]
  BY <1>1, NumberSteps, Zenon
<1> HIDE DEF n
<1>4. /\ \A i \in 1 .. n + 1 : w[i] = (w[i - 1] * (MaxDigit + 1) + more[i])
      /\ NumberOf(more) = w[n + 1]
  BY <1>1, <1>3
<1> DEFINE P == {i \in Nat : i <= n => w[i] = v[i]}
<1>5. 0 \in P
  BY <1>2, <1>3
<1>6. ASSUME NEW i \in Nat, i \in P PROVE i + 1 \in P
  <2> SUFFICES ASSUME i + 1 <= n PROVE w[i + 1] = v[i + 1]
    OBVIOUS
  <2>1. i + 1 \in 1 .. n /\ i + 1 \in 1 .. n + 1 /\ (i + 1) - 1 = i /\ i <= n
    BY <1>1
  <2>2. w[i] = v[i] /\ more[i + 1] = text[i + 1]
    BY <1>1, <1>6, <2>1
  <2> QED BY <1>2, <1>4, <2>1, <2>2
<1> HIDE DEF P
<1>7. n \in P
  BY <1>1, <1>5, <1>6, NatInduct
<1>8. w[n] = v[n]
  BY <1>1, <1>7 DEF P
<1>9. n + 1 \in 1 .. n + 1 /\ (n + 1) - 1 = n
  BY <1>1
<1> QED BY <1>1, <1>2, <1>4, <1>8, <1>9 DEF more, Base

\* No digits stand for 0.
LEMMA NumberOfNothing == NumberOf(<< >>) = 0
<1> DEFINE none == << >>
<1>1. none \in Seq(Int) /\ Len(none) = 0
  BY EmptySeq
<1> HIDE DEF none
<1>2. PICK v : /\ v \in [0 .. Len(none) -> Int] /\ v[0] = 0
               /\ \A i \in 1 .. Len(none) : v[i] = (v[i - 1] * (MaxDigit + 1) + none[i])
               /\ NumberOf(none) = v[Len(none)]
  BY <1>1, NumberSteps, Zenon
<1>3. NumberOf(none) = 0
  BY <1>1, <1>2
<1> QED BY <1>3 DEF none

\* The number that the characters of a text from a + 1 to i stand for.
NumberBetween(text, a, i) == NumberOf(SubSeq(text, a + 1, i))

\* A number grows by a digit at a time.
LEMMA NumbersGrow ==
  ASSUME NEW text \in Seq(Int), NEW a \in Nat, a <= Len(text)
  PROVE  /\ NumberBetween(text, a, a) = 0
         /\ \A i \in Nat : a <= i /\ i < Len(text) =>
              NumberBetween(text, a, i + 1) = NumberBetween(text, a, i) * Base + text[i + 1]
<1> DEFINE n == Len(text)
<1>1. n \in Nat /\ a <= n
  OBVIOUS
<1>2. SubSeq(text, a + 1, a) = << >>
  <2>1. a + 1 \in 1 .. n + 1 /\ a \in (a + 1) - 1 .. n /\ a - (a + 1) + 1 = 0
    BY <1>1
  <2>2. SubSeq(text, a + 1, a) \in Seq(Int) /\ Len(SubSeq(text, a + 1, a)) = a - (a + 1) + 1
    BY <2>1, SubSeqProperties
  <2> QED BY <2>1, <2>2, EmptySeq
<1>3. ASSUME NEW i \in Nat, a <= i, i < n
      PROVE  NumberBetween(text, a, i + 1) = NumberBetween(text, a, i) * Base + text[i + 1]
  <2> DEFINE s == SubSeq(text, a + 1, i)
             t == SubSeq(text, a + 1, i + 1)
             d == text[i + 1]
             m == i - a
  <2>1. /\ a + 1 \in 1 .. n + 1 /\ i \in (a + 1) - 1 .. n /\ i - (a + 1) + 1 = m /\ m \in Nat
        /\ i + 1 \in (a + 1) - 1 .. n /\ (i + 1) - (a + 1) + 1 = m + 1 /\ i + 1 \in 1 .. n
        /\ (a + 1) + (m + 1) - 1 = i + 1
    BY <1>1, <1>3
  <2>2. d \in Int
    BY <2>1, ElementOfSeq
  <2> HIDE DEF m
  <2>3. s \in Seq(Int) /\ Len(s) = m /\ \A j \in 1 .. m : s[j] = text[(a + 1) + j - 1]
    <3>1. /\ SubSeq(text, a + 1, i) \in Seq(Int) /\ Len(SubSeq(text, a + 1, i)) = i - (a + 1) + 1
          /\ \A j \in 1 .. i - (a + 1) + 1 : SubSeq(text, a + 1, i)[j] = text[(a + 1) + j - 1]
      BY <2>1, SubSeqProperties
    <3> QED BY <2>1, <3>1
  <2>4. t \in Seq(Int) /\ Len(t) = m + 1 /\ \A j \in 1 .. m + 1 : t[j] = text[(a + 1) + j - 1]
    <3>1. /\ SubSeq(text, a + 1, i + 1) \in Seq(Int)
          /\ Len(SubSeq(text, a + 1, i + 1)) = (i + 1) - (a + 1) + 1
          /\ \A j \in 1 .. (i + 1) - (a + 1) + 1 : SubSeq(text, a + 1, i + 1)[j] = text[(a + 1) + j - 1]
      BY <2>1, SubSeqProperties
    <3> QED BY <2>1, <3>1
  <2> HIDE DEF s, t, d
  <2> DEFINE u == Append(s, d)
  <2>5. /\ u \in Seq(Int) /\ Len(u) = m + 1 /\ u[m + 1] = d
        /\ \A j \in 1 .. m : u[j] = s[j]
    BY <2>2, <2>3, AppendProperties
  <2>6. \A j \in 1 .. m + 1 : t[j] = u[j]
    <3> TAKE j \in 1 .. m + 1
    <3>1. CASE j = m + 1
      BY <2>1, <2>4, <2>5, <3>1 DEF d
    <3>2. CASE j # m + 1
      <4>1. j \in 1 .. m
        BY <2>1, <3>2
      <4> QED BY <2>3, <2>4, <2>5, <4>1
    <3> QED BY <3>1, <3>2
  <2> HIDE DEF u
  <2>7. t = u
    BY <2>4, <2>5, <2>6, SeqEqual
  <2>8. NumberOf(t) = NumberOf(s) * Base + d
    BY <2>2, <2>3, <2>7, NumberAppended DEF u
  <2> QED BY <2>8 DEF s, t, d, NumberBetween
<1>4. NumberBetween(text, a, a) = 0
  BY <1>2, NumberOfNothing DEF NumberBetween
<1> QED BY <1>3, <1>4

\* Digits make a number, which is none the smaller for having more of them.
LEMMA NumbersDoNotFall ==
  ASSUME NEW text \in Seq(Int), NEW a \in Nat, NEW b \in Nat, a <= b, b <= Len(text),
         \A i \in a + 1 .. b : text[i] \in Digits
  PROVE  /\ NumberBetween(text, a, b) \in Nat
         /\ \A i \in a .. b : NumberBetween(text, a, i) \in Nat
                              /\ NumberBetween(text, a, i) <= NumberBetween(text, a, b)
<1> DEFINE n == Len(text)
           v(i) == NumberBetween(text, a, i)
           P == {i \in Nat : a + i <= b => v(a + i) \in Nat /\ \A j \in a .. a + i : v(j) <= v(a + i)}
<1>1. n \in Nat /\ v(a) = 0 /\ \A i \in Nat : a <= i /\ i < n => v(i + 1) = v(i) * Base + text[i + 1]
  BY NumbersGrow
<1> HIDE DEF n, v
<1>2. 0 \in P
  BY <1>1
<1>3. ASSUME NEW i \in Nat, i \in P PROVE i + 1 \in P
  <2> SUFFICES ASSUME a + (i + 1) <= b
               PROVE  v(a + (i + 1)) \in Nat /\ \A j \in a .. a + (i + 1) : v(j) <= v(a + (i + 1))
    OBVIOUS
  <2> DEFINE k == a + i
  <2>1. k \in Nat /\ a + (i + 1) = k + 1 /\ k + 1 <= b /\ a <= k /\ k < b /\ k + 1 \in a + 1 .. b
    OBVIOUS
  <2>2. v(k) \in Nat /\ \A j \in a .. k : v(j) <= v(k)
    BY <1>3, <2>1
  <2>3. k < n
    BY <2>1 DEF n
  <2>4. v(k + 1) = v(k) * Base + text[k + 1]
    BY <1>1, <2>1, <2>3
  <2>5. text[k + 1] \in Nat /\ Base \in Nat /\ Base >= 1
    BY <2>1, AddressAssumption DEF Digits, Base
  <2> HIDE DEF k
  <2>6. \A x \in Nat : \A y \in Nat : \A z \in Nat : y >= 1 => (x * y + z) \in Nat /\ x <= x * y + z
    <3> TAKE x \in Nat
    <3> TAKE y \in Nat
    <3> TAKE z \in Nat
    <3> HAVE y >= 1
    <3>1. y - 1 \in Nat /\ x * y = x * (y - 1) + x
      OBVIOUS
    <3>2. x * (y - 1) \in Nat
      BY <3>1
    <3> QED BY <3>1, <3>2
  <2>7. v(k + 1) \in Nat /\ v(k) <= v(k + 1)
    <3>1. v(k) * Base + text[k + 1] \in Nat /\ v(k) <= v(k) * Base + text[k + 1]
      BY <2>2, <2>5, <2>6, Zenon
    <3> QED BY <2>4, <3>1
  <2>8. \A j \in a .. k + 1 : j \in a .. k \/ j = k + 1
    BY <2>1
  <2>9. \A x \in Nat : \A j \in a .. k : v(j) <= v(k) /\ v(k) <= x => v(j) <= x
    <3>1. \A j \in a .. k : v(j) \in Int
      <4> TAKE j \in a .. k
      <4>1. SubSeq(text, a + 1, j) \in Seq(Int)
        <5>1. a + 1 \in 1 .. Len(text) + 1 /\ j \in (a + 1) - 1 .. Len(text)
          BY <2>1
        <5> QED BY <5>1, SubSeqProperties
      <4> QED BY <4>1, NumberType DEF v, NumberBetween
    <3> QED BY <2>2, <3>1
  <2> QED BY <2>1, <2>2, <2>7, <2>8, <2>9
<1> HIDE DEF P
<1>4. \A i \in Nat : i \in P
  BY <1>2, <1>3, NatInduct
<1>5. ASSUME NEW i \in a .. b PROVE v(i) \in Nat
  <2>1. i - a \in Nat /\ a + (i - a) = i /\ i <= b
    OBVIOUS
  <2> QED BY <1>4, <2>1 DEF P
<1>6. \A j \in a .. b : v(j) <= v(b)
  <2>1. b - a \in Nat /\ a + (b - a) = b /\ b <= b
    OBVIOUS
  <2> QED BY <1>4, <2>1 DEF P
<1>7. b \in a .. b
  OBVIOUS
<1> QED BY <1>5, <1>6, <1>7 DEF v

-----------------------------------------------------------------------------
(***************************************************************************)
(* The parser reads a text character by character. After each it knows     *)
(* which part it reads and what the parts are so far; Reads says so in     *)
(* terms of where the separators stand.                                    *)
(***************************************************************************)

\* What the parser of an address keeps.
ParserStates == [at : 0 .. 4, parts : [1 .. 4 -> 0 .. MaxPart], gotNumber : BOOLEAN]

\* A parser begins in a state, and no address is one.
LEMMA ParserBegins == ParserStart \in ParserStates /\ NoAddress \in ParserStates /\ NoAddress.at = 0
<1>1. 0 \in 0 .. MaxPart /\ 0 \in 0 .. 4 /\ 1 \in 0 .. 4
  BY AddressAssumption
<1>2. <<0, 0, 0, 0>> \in [1 .. 4 -> 0 .. MaxPart]
  BY <1>1
<1>3. NoAddress = [at |-> 0, parts |-> <<0, 0, 0, 0>>, gotNumber |-> FALSE]
  BY DEF NoAddress
<1>4. ParserStart = [at |-> 1, parts |-> <<0, 0, 0, 0>>, gotNumber |-> FALSE]
  <2> DEFINE z == <<0, 0, 0, 0>>
  <2>1. PICK no : no = FALSE
    OBVIOUS
  <2>2. NoAddress = [at |-> 0, parts |-> z, gotNumber |-> FALSE]
    BY <1>3
  <2> HIDE DEF z
  <2>3. ParserStart = [[at |-> 0, parts |-> z, gotNumber |-> FALSE] EXCEPT !.at = 1]
    BY <2>2, Zenon DEF ParserStart
  <2>4. [[at |-> 0, parts |-> z, gotNumber |-> FALSE] EXCEPT !.at = 1]
          = [at |-> 1, parts |-> z, gotNumber |-> FALSE]
    <3>1. [[at |-> 0, parts |-> z, gotNumber |-> no] EXCEPT !.at = 1]
            = [at |-> 1, parts |-> z, gotNumber |-> no]
      OBVIOUS
    <3> QED BY <2>1, <3>1, Zenon
  <2> QED BY <2>3, <2>4, Zenon DEF z
<1> QED BY <1>1, <1>2, <1>3, <1>4 DEF ParserStates

\* A digit goes into the number of the part.
LEMMA DigitIs ==
  ASSUME NEW p \in ParserStates, NEW d \in Digits, p.at # 0
  PROVE  LET next == p.parts[p.at] * Base + d IN
         /\ next > MaxPart => Digit(p, d) = NoAddress
         /\ ~(next > MaxPart) =>
              Digit(p, d) = [at |-> p.at, parts |-> [p.parts EXCEPT ![p.at] = next], gotNumber |-> TRUE]
         /\ next \in Nat
<1> DEFINE next == p.parts[p.at] * Base + d
<1>1. p.at \in 1 .. 4 /\ p.parts \in [1 .. 4 -> 0 .. MaxPart] /\ p.gotNumber \in BOOLEAN
  BY DEF ParserStates
<1>2. d \in Nat /\ Base \in Nat /\ p.parts[p.at] \in Nat
  BY <1>1, AddressAssumption DEF Digits, Base
<1>3. \A x \in Nat : \A y \in Nat : \A z \in Nat : x * y + z \in Nat
  OBVIOUS
<1>4. next \in Nat
  BY <1>2, <1>3, Zenon
<1>5. Digit(p, d) = IF next > MaxPart THEN NoAddress
                    ELSE [[p EXCEPT !.parts = [p.parts EXCEPT ![p.at] = next]] EXCEPT !.gotNumber = TRUE]
  BY DEF Digit, Base
<1> HIDE DEF next
<1>6. [[p EXCEPT !.parts = [p.parts EXCEPT ![p.at] = next]] EXCEPT !.gotNumber = TRUE]
        = [at |-> p.at, parts |-> [p.parts EXCEPT ![p.at] = next], gotNumber |-> TRUE]
  <2> DEFINE x == [p.parts EXCEPT ![p.at] = next]
  <2> HIDE DEF x
  <2>1. [p EXCEPT !.parts = x] = [at |-> p.at, parts |-> x, gotNumber |-> p.gotNumber]
    BY DEF ParserStates
  <2>2. \A y : [[at |-> p.at, parts |-> x, gotNumber |-> p.gotNumber] EXCEPT !.gotNumber = y]
                 = [at |-> p.at, parts |-> x, gotNumber |-> y]
    OBVIOUS
  <2>3. [[at |-> p.at, parts |-> x, gotNumber |-> p.gotNumber] EXCEPT !.gotNumber = TRUE]
          = [at |-> p.at, parts |-> x, gotNumber |-> TRUE]
    BY <2>2, Zenon
  <2> QED BY <2>1, <2>3, Zenon DEF x
<1> QED BY <1>4, <1>5, <1>6 DEF next

\* The character behind a part ends it if it has a number.
LEMMA EndPartIs ==
  ASSUME NEW p \in ParserStates
  PROVE  /\ p.gotNumber => EndPart(p) = [at |-> p.at + 1, parts |-> p.parts, gotNumber |-> FALSE]
         /\ ~p.gotNumber => EndPart(p) = NoAddress
<1>1. EndPart(p) = IF p.gotNumber THEN [[p EXCEPT !.at = p.at + 1] EXCEPT !.gotNumber = FALSE]
                   ELSE NoAddress
  BY DEF EndPart
<1>2. [[p EXCEPT !.at = p.at + 1] EXCEPT !.gotNumber = FALSE]
        = [at |-> p.at + 1, parts |-> p.parts, gotNumber |-> FALSE]
  <2> DEFINE x == p.at + 1
  <2> HIDE DEF x
  <2>1. [p EXCEPT !.at = x] = [at |-> x, parts |-> p.parts, gotNumber |-> p.gotNumber]
    BY DEF ParserStates
  <2>2. \A y : [[at |-> x, parts |-> p.parts, gotNumber |-> p.gotNumber] EXCEPT !.gotNumber = y]
                 = [at |-> x, parts |-> p.parts, gotNumber |-> y]
    OBVIOUS
  <2>3. [[at |-> x, parts |-> p.parts, gotNumber |-> p.gotNumber] EXCEPT !.gotNumber = FALSE]
          = [at |-> x, parts |-> p.parts, gotNumber |-> FALSE]
    BY <2>2, Zenon
  <2> QED BY <2>1, <2>3, Zenon DEF x
<1> QED BY <1>1, <1>2

\* A character is a separator, a digit or the end of the parse.
LEMMA ParseCharIs ==
  ASSUME NEW p \in ParserStates, NEW c
  PROVE  /\ p.at \in 1 .. 3 /\ c = Separators[p.at] => ParseChar(p, c) = EndPart(p) /\ c \notin Digits
         /\ p.at # 0 /\ c \in Digits => ParseChar(p, c) = Digit(p, c)
         /\ ~(p.at \in 1 .. 3 /\ c = Separators[p.at]) /\ ~(p.at # 0 /\ c \in Digits) =>
              ParseChar(p, c) = NoAddress
<1>1. p.at \in 0 .. 4
  BY DEF ParserStates
<1>2. p.at \in 1 .. 3 /\ c = Separators[p.at] => c \notin Digits
  BY AddressAssumption DEF Digits
<1>3. p.at # 0 <=> p.at \in 1 .. 4
  BY <1>1
<1> QED BY <1>2, <1>3 DEF ParseChar

\* It leaves a state of the parser.
LEMMA ParserType == ASSUME NEW p \in ParserStates, NEW c PROVE ParseChar(p, c) \in ParserStates
<1>1. p.at \in 0 .. 4 /\ p.parts \in [1 .. 4 -> 0 .. MaxPart]
  BY DEF ParserStates
<1>2. CASE p.at \in 1 .. 3 /\ c = Separators[p.at]
  <2>1. ParseChar(p, c) = EndPart(p)
    BY <1>2, ParseCharIs
  <2>2. [at |-> p.at + 1, parts |-> p.parts, gotNumber |-> FALSE] \in ParserStates
    BY <1>1, <1>2 DEF ParserStates
  <2> QED BY <2>1, <2>2, EndPartIs, ParserBegins
<1>3. CASE p.at # 0 /\ c \in Digits
  <2> DEFINE next == p.parts[p.at] * Base + c
  <2>1. ParseChar(p, c) = Digit(p, c)
    BY <1>3, ParseCharIs
  <2>2. /\ next > MaxPart => Digit(p, c) = NoAddress
        /\ ~(next > MaxPart) =>
             Digit(p, c) = [at |-> p.at, parts |-> [p.parts EXCEPT ![p.at] = next], gotNumber |-> TRUE]
        /\ next \in Nat
    BY <1>3, DigitIs
  <2> HIDE DEF next
  <2>3. ~(next > MaxPart) => next \in 0 .. MaxPart
    BY <2>2, AddressAssumption
  <2>4. ~(next > MaxPart) => [p.parts EXCEPT ![p.at] = next] \in [1 .. 4 -> 0 .. MaxPart]
    BY <1>1, <2>3
  <2>5. ~(next > MaxPart) =>
          [at |-> p.at, parts |-> [p.parts EXCEPT ![p.at] = next], gotNumber |-> TRUE] \in ParserStates
    BY <1>1, <2>4 DEF ParserStates
  <2> QED BY <2>1, <2>2, <2>5, ParserBegins
<1> QED BY <1>2, <1>3, ParseCharIs, ParserBegins

\* The state behind the last character.
ParserEnd(text) == FoldLeft(ParseChar, ParserStart, text)

\* The parser takes one character after the other.
LEMMA ParserSteps ==
  ASSUME NEW text \in Seq(Int)
  PROVE  \E w : /\ w \in [0 .. Len(text) -> ParserStates] /\ w[0] = ParserStart
                /\ \A i \in 1 .. Len(text) : w[i] = ParseChar(w[i - 1], text[i])
                /\ ParserEnd(text) = w[Len(text)]
<1> DEFINE n == Len(text)
           g == [p \in (0 .. n) \X ParserStates |-> IF p[1] = 0 THEN ParserStart ELSE ParseChar(p[2], text[p[1]])]
           Rhs(f) == [s \in SUBSET (1 .. n) |->
             IF s = {} THEN ParserStart ELSE ParseChar(f[s \ {Max(s)}], text[Max(s)])]
           ff == CHOOSE f : f = Rhs(f)
<1>1. n \in Nat /\ ParserStart \in ParserStates
  BY ParserBegins
<1>2. \A i \in 1 .. n : \A v \in ParserStates : ParseChar(v, text[i]) \in ParserStates
  BY ParserType
<1>3. ParserEnd(text) = ff[1 .. n]
  <2>1. DOMAIN text = 1 .. n
    OBVIOUS
  <2> QED BY <1>1, <2>1 DEF ParserEnd, FoldLeft, MapThenFoldSet
<1> HIDE DEF n
<1>4. Steps(n, ParserStates, ParserStart, g)
  <2>1. g \in [(0 .. n) \X ParserStates -> ParserStates]
    <3>1. \A p \in (0 .. n) \X ParserStates : p[1] # 0 => p[1] \in 1 .. n /\ p[2] \in ParserStates
      BY <1>1
    <3>2. \A p \in (0 .. n) \X ParserStates :
            (IF p[1] = 0 THEN ParserStart ELSE ParseChar(p[2], text[p[1]])) \in ParserStates
      BY <1>1, <1>2, <3>1
    <3> QED BY <3>2
  <2> HIDE DEF g
  <2> QED BY <1>1, <2>1 DEF Steps
<1>5. \A i \in 1 .. n : \A v \in ParserStates : g[<<i, v>>] = ParseChar(v, text[i])
  <2> TAKE i \in 1 .. n
  <2> TAKE v \in ParserStates
  <2>1. i \in 0 .. n /\ i # 0
    BY <1>1
  <2>2. <<i, v>> \in (0 .. n) \X ParserStates
    BY <2>1
  <2> QED BY <2>1, <2>2
<1> HIDE DEF g
<1>6. PICK h : IsLeftFold(h, n, ParserStates, ParserStart, g)
  BY <1>4, FoldsLeft
<1>7. h = Rhs(h)
  <2>1. h \in [SUBSET (1 .. n) -> ParserStates] /\ h[{}] = ParserStart
    BY <1>6 DEF IsLeftFold
  <2>2. ASSUME NEW s \in SUBSET (1 .. n), s # {}
        PROVE h[s] = ParseChar(h[s \ {Max(s)}], text[Max(s)])
    <3>1. Max(s) \in 1 .. n /\ h[s] = g[<<Max(s), h[s \ {Max(s)}]>>]
      BY <1>6, <2>2 DEF IsLeftFold
    <3>2. h[s \ {Max(s)}] \in ParserStates
      BY <2>1
    <3> QED BY <1>5, <3>1, <3>2
  <2>3. h = [s \in SUBSET (1 .. n) |->
               IF s = {} THEN ParserStart ELSE ParseChar(h[s \ {Max(s)}], text[Max(s)])]
    BY <2>1, <2>2
  <2> QED BY <2>3
<1>8. ff = Rhs(ff)
  <2> HIDE DEF Rhs
  <2> QED BY <1>7
<1> HIDE DEF ff
<1>9. FoldsBy(ff, n, ParserStates, ParserStart, g)
  <2>1. ff[{}] = ParserStart
    BY <1>8
  <2>2. ASSUME NEW i \in 1 .. n, ff[1 .. i - 1] \in ParserStates PROVE ff[1 .. i] = g[<<i, ff[1 .. i - 1]>>]
    <3>1. /\ 1 .. i \in SUBSET (1 .. n) /\ 1 .. i # {}
          /\ Max(1 .. i) = i /\ (1 .. i) \ {i} = 1 .. i - 1
      BY <1>1, FoldOfPrefix
    <3>2. ff[1 .. i] = ParseChar(ff[(1 .. i) \ {Max(1 .. i)}], text[Max(1 .. i)])
      BY <1>8, <3>1
    <3> QED BY <1>5, <2>2, <3>1, <3>2
  <2> QED BY <1>4, <2>1, <2>2 DEF FoldsBy
<1>10. PICK w : IsSteps(w, n, ParserStates, ParserStart, g) /\ ff[1 .. n] = w[n]
  BY <1>9, FoldSteps
<1>11. w \in [0 .. n -> ParserStates] /\ w[0] = ParserStart
  BY <1>10 DEF IsSteps
<1>12. \A i \in 1 .. n : w[i] = ParseChar(w[i - 1], text[i])
  <2> TAKE i \in 1 .. n
  <2>1. w[i - 1] \in ParserStates
    BY <1>1, <1>11
  <2> QED BY <1>5, <1>10, <2>1 DEF IsSteps
<1> QED BY <1>3, <1>10, <1>11, <1>12 DEF n

\* The parser has read i characters of a text and is in its part m; the parts
\* that it has behind it end in front of the places that c gives.
Reads(text, i, p, m, c) ==
  /\ p \in ParserStates /\ p.at = m /\ m \in 1 .. 4
  /\ c \in [0 .. 3 -> Nat] /\ c[0] = 0 /\ c[m - 1] <= i
  /\ \A j \in 1 .. m - 1 :
       /\ text[c[j]] = Separators[j] /\ c[j - 1] + 1 < c[j] /\ c[j] <= i
       /\ \A x \in c[j - 1] + 1 .. c[j] - 1 : text[x] \in Digits
       /\ p.parts[j] = NumberBetween(text, c[j - 1], c[j] - 1)
  /\ \A x \in c[m - 1] + 1 .. i : text[x] \in Digits
  /\ p.parts[m] = NumberBetween(text, c[m - 1], i)
  /\ p.gotNumber <=> c[m - 1] < i
  /\ \A j \in m + 1 .. 4 : p.parts[j] = 0

\* A digit makes the number of the part longer, as long as that fits.
LEMMA ReadDigit ==
  ASSUME NEW text \in Seq(Int), NEW i \in Nat, i < Len(text), NEW p, NEW m, NEW c, Reads(text, i, p, m, c),
         text[i + 1] \in Digits
  PROVE  /\ NumberBetween(text, c[m - 1], i + 1) <= MaxPart =>
              Reads(text, i + 1, ParseChar(p, text[i + 1]), m, c)
         /\ ~(NumberBetween(text, c[m - 1], i + 1) <= MaxPart) => ParseChar(p, text[i + 1]) = NoAddress
<1> DEFINE d == text[i + 1]
           a == c[m - 1]
           next == p.parts[p.at] * Base + d
           q == ParseChar(p, d)
<1>1. /\ p \in ParserStates /\ p.at = m /\ m \in 1 .. 4 /\ m - 1 \in 0 .. 3 /\ p.at # 0
      /\ c \in [0 .. 3 -> Nat] /\ c[0] = 0 /\ a <= i /\ a \in Nat
      /\ p.parts[m] = NumberBetween(text, a, i)
  BY DEF Reads
<1>2. d \in Digits
  OBVIOUS
<1>3. NumberBetween(text, a, i + 1) = NumberBetween(text, a, i) * Base + d
  BY <1>1, NumbersGrow
<1>4. next = NumberBetween(text, a, i + 1)
  BY <1>1, <1>3
<1>5. q = Digit(p, d)
  BY <1>1, <1>2, ParseCharIs
<1>6. /\ next > MaxPart => Digit(p, d) = NoAddress
      /\ ~(next > MaxPart) =>
           Digit(p, d) = [at |-> p.at, parts |-> [p.parts EXCEPT ![p.at] = next], gotNumber |-> TRUE]
      /\ next \in Nat
  BY <1>1, <1>2, DigitIs
<1>7. q \in ParserStates
  BY <1>1, ParserType
<1> HIDE DEF d, next, q
<1>8. ~(NumberBetween(text, a, i + 1) <= MaxPart) => q = NoAddress
  BY <1>4, <1>5, <1>6, AddressAssumption
<1>9. ASSUME NumberBetween(text, a, i + 1) <= MaxPart
      PROVE  Reads(text, i + 1, q, m, c)
  <2>1. ~(next > MaxPart)
    BY <1>4, <1>6, <1>9, AddressAssumption
  <2>2. q = [at |-> p.at, parts |-> [p.parts EXCEPT ![p.at] = next], gotNumber |-> TRUE]
    BY <1>5, <1>6, <2>1
  <2>3. p.parts \in [1 .. 4 -> 0 .. MaxPart]
    BY <1>1 DEF ParserStates
  <2>4. q.at = m /\ q.gotNumber /\ q.parts[m] = next /\ \A j \in 1 .. 4 : j # m => q.parts[j] = p.parts[j]
    BY <1>1, <2>2, <2>3
  <2>5. \A x \in a + 1 .. i + 1 : text[x] \in Digits
    <3> TAKE x \in a + 1 .. i + 1
    <3>1. CASE x = i + 1
      BY <1>2, <3>1 DEF d
    <3>2. CASE x # i + 1
      <4>1. x \in a + 1 .. i
        BY <1>1, <3>2
      <4> QED BY <4>1 DEF Reads
    <3> QED BY <3>1, <3>2
  <2>6. \A j \in 1 .. m - 1 :
          /\ text[c[j]] = Separators[j] /\ c[j - 1] + 1 < c[j] /\ c[j] <= i + 1
          /\ \A x \in c[j - 1] + 1 .. c[j] - 1 : text[x] \in Digits
          /\ q.parts[j] = NumberBetween(text, c[j - 1], c[j] - 1)
    <3> TAKE j \in 1 .. m - 1
    <3>1. j \in 1 .. 4 /\ j # m /\ j \in 0 .. 3 /\ j - 1 \in 0 .. 3
      <4>1. m \in 1 .. 4
        BY <1>1
      <4> QED BY <4>1
    <3>2. c[j] \in Nat /\ c[j] <= i
      BY <1>1, <3>1 DEF Reads
    <3>3. c[j] <= i + 1
      BY <3>2
    <3>4. /\ text[c[j]] = Separators[j] /\ c[j - 1] + 1 < c[j]
          /\ \A x \in c[j - 1] + 1 .. c[j] - 1 : text[x] \in Digits
          /\ p.parts[j] = NumberBetween(text, c[j - 1], c[j] - 1)
      BY DEF Reads
    <3> QED BY <2>4, <3>1, <3>3, <3>4
  <2>7. \A j \in m + 1 .. 4 : q.parts[j] = 0
    <3> TAKE j \in m + 1 .. 4
    <3>1. j \in 1 .. 4 /\ j # m
      BY <1>1
    <3>2. p.parts[j] = 0
      BY DEF Reads
    <3> QED BY <2>4, <3>1, <3>2
  <2>8. a <= i + 1 /\ a < i + 1
    BY <1>1
  <2> QED BY <1>1, <1>4, <1>7, <2>4, <2>5, <2>6, <2>7, <2>8 DEF Reads
<1> QED BY <1>8, <1>9 DEF q, d

\* A separator ends the part, if there is a number in front of it.
LEMMA ReadSeparator ==
  ASSUME NEW text \in Seq(Int), NEW i \in Nat, i < Len(text), NEW p, NEW m, NEW c, Reads(text, i, p, m, c),
         m # 4, text[i + 1] = Separators[m]
  PROVE  /\ c[m - 1] < i =>
              Reads(text, i + 1, ParseChar(p, text[i + 1]), m + 1, [c EXCEPT ![m] = i + 1])
         /\ ~(c[m - 1] < i) => ParseChar(p, text[i + 1]) = NoAddress
<1> DEFINE e == text[i + 1]
           a == c[m - 1]
           q == ParseChar(p, e)
           b == [c EXCEPT ![m] = i + 1]
<1>1. /\ p \in ParserStates /\ p.at = m /\ m \in 1 .. 4 /\ m \in 1 .. 3 /\ m - 1 \in 0 .. 3 /\ m \in 0 .. 3
      /\ c \in [0 .. 3 -> Nat] /\ c[0] = 0 /\ a <= i /\ a \in Nat
      /\ p.parts[m] = NumberBetween(text, a, i)
      /\ (p.gotNumber <=> a < i)
  BY DEF Reads
<1>2. q = EndPart(p)
  BY <1>1, ParseCharIs
<1>3. /\ p.gotNumber => EndPart(p) = [at |-> p.at + 1, parts |-> p.parts, gotNumber |-> FALSE]
      /\ ~p.gotNumber => EndPart(p) = NoAddress
  BY <1>1, EndPartIs
<1>4. q \in ParserStates
  BY <1>1, ParserType
<1> HIDE DEF e, q
<1>5. ~(a < i) => q = NoAddress
  BY <1>1, <1>2, <1>3
<1>6. ASSUME a < i PROVE Reads(text, i + 1, q, m + 1, b)
  <2>1. q = [at |-> p.at + 1, parts |-> p.parts, gotNumber |-> FALSE]
    BY <1>1, <1>2, <1>3, <1>6
  <2>2. q.at = m + 1 /\ ~q.gotNumber /\ q.parts = p.parts
    BY <1>1, <2>1
  <2>3. b \in [0 .. 3 -> Nat] /\ b[m] = i + 1 /\ \A j \in 0 .. 3 : j # m => b[j] = c[j]
    BY <1>1
  <2>4. m + 1 \in 1 .. 4 /\ (m + 1) - 1 = m /\ b[0] = 0 /\ i + 1 \in Nat
    BY <1>1, <2>3
  <2> HIDE DEF b
  <2>5. \A j \in 1 .. m :
          /\ text[b[j]] = Separators[j] /\ b[j - 1] + 1 < b[j] /\ b[j] <= i + 1
          /\ \A x \in b[j - 1] + 1 .. b[j] - 1 : text[x] \in Digits
          /\ q.parts[j] = NumberBetween(text, b[j - 1], b[j] - 1)
    <3> TAKE j \in 1 .. m
    <3>1. CASE j = m
      <4>1. b[j] = i + 1 /\ b[j - 1] = a /\ b[j] - 1 = i /\ a + 1 < i + 1 /\ i + 1 <= i + 1
        <5>1. a \in Nat /\ b[m] = i + 1
          BY <1>1, <2>3
        <5>2. b[m - 1] = c[m - 1]
          <6>1. m \in 1 .. 4 /\ m - 1 \in 0 .. 3
            BY <1>1
          <6>2. m - 1 # m
            BY <6>1
          <6> QED BY <2>3, <6>1, <6>2
        <5> QED BY <1>6, <3>1, <5>1, <5>2
      <4>2. \A x \in a + 1 .. i : text[x] \in Digits
        BY DEF Reads
      <4>3. q.parts[j] = NumberBetween(text, a, i)
        BY <1>1, <2>2, <3>1
      <4> QED BY <3>1, <4>1, <4>2, <4>3
    <3>2. CASE j # m
      <4>1. j \in 1 .. m - 1 /\ j \in 0 .. 3 /\ j - 1 \in 0 .. 3 /\ j - 1 # m
        BY <1>1, <3>2
      <4>2. b[j] = c[j] /\ b[j - 1] = c[j - 1]
        BY <2>3, <3>2, <4>1
      <4>3. /\ text[c[j]] = Separators[j] /\ c[j - 1] + 1 < c[j] /\ c[j] <= i
            /\ \A x \in c[j - 1] + 1 .. c[j] - 1 : text[x] \in Digits
            /\ p.parts[j] = NumberBetween(text, c[j - 1], c[j] - 1)
        BY <4>1 DEF Reads
      <4>4. c[j] \in Nat
        BY <1>1, <4>1
      <4>5. c[j] <= i + 1
        BY <4>3, <4>4
      <4> QED BY <2>2, <4>2, <4>3, <4>5
    <3> QED BY <3>1, <3>2
  <2>6. \A x \in b[m] + 1 .. i + 1 : text[x] \in Digits
    BY <2>3
  <2>7. q.parts[m + 1] = NumberBetween(text, b[m], i + 1)
    <3>1. p.parts[m + 1] = 0
      <4>1. m + 1 \in m + 1 .. 4
        BY <1>1
      <4> QED BY <4>1 DEF Reads
    <3>2. NumberBetween(text, i + 1, i + 1) = 0
      <4>1. i + 1 <= Len(text)
        OBVIOUS
      <4> QED BY <2>4, <4>1, NumbersGrow
    <3> QED BY <2>2, <2>3, <3>1, <3>2
  <2>8. \A j \in (m + 1) + 1 .. 4 : q.parts[j] = 0
    <3> TAKE j \in (m + 1) + 1 .. 4
    <3>1. j \in m + 1 .. 4
      BY <1>1
    <3> QED BY <2>2, <3>1 DEF Reads
  <2>9. b[m] <= i + 1 /\ ~(b[m] < i + 1)
    BY <2>3
  <2> QED BY <1>4, <2>2, <2>3, <2>4, <2>5, <2>6, <2>7, <2>8, <2>9 DEF Reads
<1> QED BY <1>5, <1>6 DEF q, e

\* Nothing else goes on.
LEMMA ReadsOn ==
  ASSUME NEW text \in Seq(Int), NEW i \in Nat, i < Len(text), NEW p, NEW m, NEW c, Reads(text, i, p, m, c),
         ParseChar(p, text[i + 1]) # NoAddress
  PROVE  \E n, b : Reads(text, i + 1, ParseChar(p, text[i + 1]), n, b)
<1>1. p \in ParserStates /\ p.at = m /\ m \in 1 .. 4
  BY DEF Reads
<1>2. CASE m # 4 /\ text[i + 1] = Separators[m]
  BY <1>2, ReadSeparator
<1>3. CASE text[i + 1] \in Digits
  BY <1>3, ReadDigit
<1>4. m # 4 <=> m \in 1 .. 3
  BY <1>1
<1>5. p.at # 0
  BY <1>1
<1> QED BY <1>1, <1>2, <1>3, <1>4, <1>5, ParseCharIs

\* The states of the parser along a text.
IsParse(text, w) ==
  /\ w \in [0 .. Len(text) -> ParserStates] /\ w[0] = ParserStart
  /\ \A i \in 1 .. Len(text) : w[i] = ParseChar(w[i - 1], text[i])

\* Nothing is read before the first character.
LEMMA ReadsFromStart ==
  ASSUME NEW text \in Seq(Int), NEW c \in [0 .. 3 -> Nat], c[0] = 0
  PROVE  Reads(text, 0, ParserStart, 1, c)
<1>1. ParserStart \in ParserStates
  BY ParserBegins
<1>2. ParserStart.at = 1 /\ ~ParserStart.gotNumber /\ \A j \in 1 .. 4 : ParserStart.parts[j] = 0
  <2>1. NoAddress = [at |-> 0, parts |-> <<0, 0, 0, 0>>, gotNumber |-> FALSE]
    BY DEF NoAddress
  <2>2. ParserStart.at = 1
    BY <2>1 DEF ParserStart
  <2>3. ParserStart.gotNumber = NoAddress.gotNumber /\ ParserStart.parts = NoAddress.parts
    BY <2>1 DEF ParserStart
  <2>4. \A j \in 1 .. 4 : j = 1 \/ j = 2 \/ j = 3 \/ j = 4
    OBVIOUS
  <2>5. NoAddress.parts = <<0, 0, 0, 0>> /\ ~NoAddress.gotNumber
    BY <2>1
  <2>6. \A j \in 1 .. 4 : NoAddress.parts[j] = 0
    BY <2>4, <2>5
  <2> QED BY <2>2, <2>3, <2>5, <2>6
<1>3. NumberBetween(text, 0, 0) = 0
  <2>1. 0 <= Len(text) /\ 0 \in Nat
    BY LenProperties
  <2> QED BY <2>1, NumbersGrow
<1>4. /\ 1 \in 1 .. 4 /\ 1 - 1 = 0 /\ 1 + 1 = 2 /\ 1 .. 0 = {} /\ 0 + 1 .. 0 = {} /\ 0 <= 0 /\ ~(0 < 0)
      /\ \A j \in 2 .. 4 : j \in 1 .. 4
  OBVIOUS
<1> QED BY <1>1, <1>2, <1>3, <1>4 DEF Reads

\* As long as the parser goes on it has read what is behind it.
LEMMA ParserReads ==
  ASSUME NEW text \in Seq(Int), NEW w, IsParse(text, w)
  PROVE  \A i \in 0 .. Len(text) : w[i] = NoAddress \/ \E m, c : Reads(text, i, w[i], m, c)
<1> DEFINE n == Len(text)
           Good(i) == w[i] = NoAddress \/ \E m, c : Reads(text, i, w[i], m, c)
           P == {i \in Nat : i <= n => Good(i)}
<1>1. n \in Nat /\ w[0] = ParserStart /\ \A i \in 1 .. n : w[i] = ParseChar(w[i - 1], text[i])
  BY DEF IsParse
<1>2. 0 \in P
  <2> DEFINE c == [j \in 0 .. 3 |-> 0]
  <2>1. c \in [0 .. 3 -> Nat] /\ c[0] = 0
    OBVIOUS
  <2> HIDE DEF c
  <2>2. Reads(text, 0, w[0], 1, c)
    BY <1>1, <2>1, ReadsFromStart
  <2> QED BY <2>2
<1>3. ASSUME NEW i \in Nat, i \in P PROVE i + 1 \in P
  <2> SUFFICES ASSUME i + 1 <= n PROVE Good(i + 1)
    OBVIOUS
  <2>1. i + 1 \in 1 .. n /\ (i + 1) - 1 = i /\ i <= n /\ i < n
    BY <1>1
  <2>2. Good(i)
    BY <1>3, <2>1
  <2>3. w[i + 1] = ParseChar(w[i], text[i + 1])
    BY <1>1, <2>1
  <2>4. CASE w[i] = NoAddress
    <3>1. w[i + 1] = NoAddress
      <4>1. NoAddress.at \notin 1 .. 3 /\ NoAddress.at = 0
        BY ParserBegins
      <4> QED BY <2>3, <2>4, <4>1, ParserBegins, ParseCharIs
    <3> QED BY <3>1
  <2>5. CASE w[i] # NoAddress
    <3>1. PICK m, c : Reads(text, i, w[i], m, c)
      BY <2>2, <2>5
    <3>2. ParseChar(w[i], text[i + 1]) # NoAddress
            => \E m1, c1 : Reads(text, i + 1, ParseChar(w[i], text[i + 1]), m1, c1)
      BY <2>1, <3>1, ReadsOn
    <3> QED BY <2>3, <3>2
  <2> QED BY <2>4, <2>5
<1> HIDE DEF P, Good
<1>4. \A i \in Nat : i \in P
  BY <1>2, <1>3, NatInduct
<1>5. \A i \in 0 .. n : Good(i)
  BY <1>1, <1>4 DEF P
<1> QED BY <1>5 DEF n, Good

\* A text of k numbers that fit, which end in front of the places of c.
CutsFit(text, k, c) ==
  /\ c \in [0 .. 3 -> Nat] /\ c[0] = 0
  /\ \A j \in 1 .. k - 1 :
       /\ text[c[j]] = Separators[j] /\ c[j - 1] + 1 < c[j] /\ c[j] <= Len(text)
       /\ \A x \in c[j - 1] + 1 .. c[j] - 1 : text[x] \in Digits
       /\ NumberBetween(text, c[j - 1], c[j] - 1) <= MaxPart
  /\ c[k - 1] < Len(text)
  /\ \A x \in c[k - 1] + 1 .. Len(text) : text[x] \in Digits
  /\ NumberBetween(text, c[k - 1], Len(text)) <= MaxPart

\* What the parser has read is such a text.
LEMMA ReadsFit ==
  ASSUME NEW text \in Seq(Int), NEW p, NEW m, NEW c, Reads(text, Len(text), p, m, c), p.gotNumber
  PROVE  CutsFit(text, m, c)
<1>1. /\ m \in 1 .. 4 /\ c \in [0 .. 3 -> Nat] /\ c[0] = 0
  BY DEF Reads
<1>2. \A j \in 1 .. 4 : p.parts[j] \in 0 .. MaxPart
  <2>1. p \in ParserStates
    BY DEF Reads
  <2> QED BY <2>1 DEF ParserStates
<1>3. \A j \in 1 .. 4 : p.parts[j] <= MaxPart
  BY <1>2
<1>4. ASSUME NEW j \in 1 .. m - 1
      PROVE  /\ text[c[j]] = Separators[j] /\ c[j - 1] + 1 < c[j] /\ c[j] <= Len(text)
             /\ \A x \in c[j - 1] + 1 .. c[j] - 1 : text[x] \in Digits
             /\ NumberBetween(text, c[j - 1], c[j] - 1) <= MaxPart
  <2>1. j \in 1 .. 4
    BY <1>1
  <2>2. p.parts[j] = NumberBetween(text, c[j - 1], c[j] - 1)
    BY DEF Reads
  <2>3. NumberBetween(text, c[j - 1], c[j] - 1) <= MaxPart
    BY <1>3, <2>1, <2>2
  <2>4. /\ text[c[j]] = Separators[j] /\ c[j - 1] + 1 < c[j] /\ c[j] <= Len(text)
        /\ \A x \in c[j - 1] + 1 .. c[j] - 1 : text[x] \in Digits
    BY DEF Reads
  <2> QED BY <2>3, <2>4
<1>5. /\ c[m - 1] < Len(text)
      /\ \A x \in c[m - 1] + 1 .. Len(text) : text[x] \in Digits
      /\ p.parts[m] = NumberBetween(text, c[m - 1], Len(text))
  BY DEF Reads
<1>6. NumberBetween(text, c[m - 1], Len(text)) <= MaxPart
  BY <1>1, <1>3, <1>5
<1> QED BY <1>1, <1>4, <1>5, <1>6 DEF CutsFit

\* The parser reads every such text to its end.
LEMMA FitsAreRead ==
  ASSUME NEW text \in Seq(Int), NEW w, IsParse(text, w), NEW k \in 1 .. 4, NEW c, CutsFit(text, k, c)
  PROVE  Reads(text, Len(text), w[Len(text)], k, c)
<1> DEFINE n == Len(text)
           Good(i) == \E m \in 1 .. k : c[m - 1] <= i /\ (m < k => i < c[m]) /\ Reads(text, i, w[i], m, c)
           P == {i \in Nat : i <= n => Good(i)}
<1>1. n \in Nat /\ w[0] = ParserStart /\ \A i \in 1 .. n : w[i] = ParseChar(w[i - 1], text[i])
  BY DEF IsParse
<1>2. c \in [0 .. 3 -> Nat] /\ c[0] = 0
  BY DEF CutsFit
<1>3. ASSUME NEW j \in 1 .. k - 1
      PROVE  /\ text[c[j]] = Separators[j] /\ c[j - 1] + 1 < c[j] /\ c[j] <= n
             /\ \A x \in c[j - 1] + 1 .. c[j] - 1 : text[x] \in Digits
             /\ NumberBetween(text, c[j - 1], c[j] - 1) <= MaxPart
             /\ c[j] \in Nat /\ c[j - 1] \in Nat
  <2>1. j \in 0 .. 3 /\ j - 1 \in 0 .. 3
    OBVIOUS
  <2>2. c[j] \in Nat /\ c[j - 1] \in Nat
    BY <1>2, <2>1
  <2> QED BY <2>2 DEF CutsFit
<1>4. /\ c[k - 1] < n /\ \A x \in c[k - 1] + 1 .. n : text[x] \in Digits
      /\ NumberBetween(text, c[k - 1], n) <= MaxPart /\ c[k - 1] \in Nat
  <2>1. k - 1 \in 0 .. 3
    OBVIOUS
  <2> QED BY <1>2, <2>1 DEF CutsFit
<1>5. 0 \in P
  <2>1. Reads(text, 0, w[0], 1, c)
    BY <1>1, <1>2, ReadsFromStart
  <2>2. 1 \in 1 .. k /\ c[1 - 1] <= 0
    BY <1>2
  <2>3. 1 < k => 0 < c[1]
    <3>1. 1 < k => 1 \in 1 .. k - 1 /\ 1 - 1 = 0
      OBVIOUS
    <3> QED BY <1>2, <1>3, <3>1
  <2> QED BY <2>1, <2>2, <2>3
<1>6. ASSUME NEW i \in Nat, i \in P PROVE i + 1 \in P
  <2> SUFFICES ASSUME i + 1 <= n PROVE Good(i + 1)
    OBVIOUS
  <2>1. i + 1 \in 1 .. n /\ (i + 1) - 1 = i /\ i <= n /\ i < n /\ i + 1 \in Nat
    BY <1>1
  <2>2. PICK m \in 1 .. k : c[m - 1] <= i /\ (m < k => i < c[m]) /\ Reads(text, i, w[i], m, c)
    BY <1>6, <2>1
  <2>3. w[i + 1] = ParseChar(w[i], text[i + 1])
    BY <1>1, <2>1
  <2>4. m - 1 \in 0 .. 3 /\ c[m - 1] \in Nat /\ c[m - 1] <= i + 1 /\ c[m - 1] + 1 <= i + 1
    <3>1. m - 1 \in 0 .. 3
      OBVIOUS
    <3>2. c[m - 1] \in Nat
      BY <1>2, <3>1
    <3> QED BY <2>2, <3>1, <3>2
  <2>5. CASE m < k /\ i + 1 = c[m]
    <3>1. m \in 1 .. k - 1 /\ m # 4
      BY <2>5
    <3>2. text[i + 1] = Separators[m] /\ c[m - 1] < i
      <4>1. text[c[m]] = Separators[m] /\ c[m - 1] + 1 < c[m]
        BY <1>3, <3>1
      <4> QED BY <2>4, <2>5, <4>1
    <3>3. Reads(text, i + 1, ParseChar(w[i], text[i + 1]), m + 1, [c EXCEPT ![m] = i + 1])
      BY <2>1, <2>2, <3>1, <3>2, ReadSeparator
    <3>4. [c EXCEPT ![m] = i + 1] = c
      BY <1>2, <2>5
    <3>5. Reads(text, i + 1, w[i + 1], m + 1, c)
      BY <2>3, <3>3, <3>4
    <3>6. m + 1 \in 1 .. k /\ (m + 1) - 1 = m /\ c[m] <= i + 1
      BY <2>1, <2>5
    <3>7. m + 1 < k => i + 1 < c[m + 1]
      <4>1. m + 1 < k => m + 1 \in 1 .. k - 1
        BY <3>6
      <4>2. m + 1 < k => c[(m + 1) - 1] + 1 < c[m + 1] /\ c[(m + 1) - 1] \in Nat /\ c[m + 1] \in Nat
        BY <1>3, <4>1
      <4> QED BY <2>5, <3>6, <4>2
    <3> QED BY <3>5, <3>6, <3>7
  <2>6. CASE ~(m < k /\ i + 1 = c[m])
    <3> DEFINE a == c[m - 1]
               b == IF m = k THEN n ELSE c[m] - 1
    <3>1. /\ b \in Nat /\ i + 1 <= b /\ b <= n
          /\ \A x \in a + 1 .. b : text[x] \in Digits
          /\ NumberBetween(text, a, b) <= MaxPart
      <4>1. CASE m = k
        BY <1>1, <1>4, <2>1, <4>1
      <4>2. CASE m # k
        <5>1. m \in 1 .. k - 1 /\ m < k
          BY <4>2
        <5>2. /\ c[m] <= n /\ c[m] \in Nat /\ i < c[m]
              /\ \A x \in a + 1 .. c[m] - 1 : text[x] \in Digits
              /\ NumberBetween(text, a, c[m] - 1) <= MaxPart
          BY <1>3, <2>2, <5>1
        <5>3. i + 1 # c[m]
          BY <2>6, <5>1
        <5>4. c[m] - 1 \in Nat /\ i + 1 <= c[m] - 1 /\ c[m] - 1 <= n
          BY <1>1, <5>2, <5>3
        <5> QED BY <4>2, <5>2, <5>4
      <4> QED BY <4>1, <4>2
    <3>2. a \in Nat /\ a <= b /\ i + 1 \in a + 1 .. b /\ i + 1 \in a .. b
      BY <2>4, <3>1
    <3> HIDE DEF b
    <3>3. text[i + 1] \in Digits
      BY <3>1, <3>2
    <3>4. NumberBetween(text, a, i + 1) \in Nat /\ NumberBetween(text, a, b) \in Nat
          /\ NumberBetween(text, a, i + 1) <= NumberBetween(text, a, b)
      BY <3>1, <3>2, NumbersDoNotFall
    <3>5. NumberBetween(text, a, i + 1) <= MaxPart
      BY <3>1, <3>4, AddressAssumption
    <3>6. Reads(text, i + 1, w[i + 1], m, c)
      BY <2>1, <2>2, <2>3, <3>3, <3>5, ReadDigit
    <3>7. m < k => i + 1 < c[m]
      <4>1. m < k => m \in 1 .. k - 1
        OBVIOUS
      <4>2. m < k => c[m] \in Nat /\ i < c[m] /\ i + 1 # c[m]
        BY <1>3, <2>2, <2>6, <4>1
      <4> QED BY <4>2
    <3> QED BY <2>4, <3>6, <3>7
  <2> QED BY <2>5, <2>6
<1> HIDE DEF P, Good
<1>7. \A i \in Nat : i \in P
  BY <1>5, <1>6, NatInduct
<1>8. Good(n)
  BY <1>1, <1>7 DEF P
<1>9. PICK m \in 1 .. k : c[m - 1] <= n /\ (m < k => n < c[m]) /\ Reads(text, n, w[n], m, c)
  BY <1>8 DEF Good
<1>10. m = k
  <2>1. m < k => m \in 1 .. k - 1
    OBVIOUS
  <2>2. m < k => c[m] <= n /\ c[m] \in Nat
    BY <1>3, <2>1
  <2> QED BY <1>1, <1>9, <2>2
<1> QED BY <1>9, <1>10 DEF n

\* When the characters from a + 1 to b are a number that fits.
LEMMA NumberText ==
  ASSUME NEW text \in Seq(Int), NEW a \in Nat, NEW b \in Nat, a <= b, b <= Len(text)
  PROVE  IsNumber(SubSeq(text, a + 1, b)) <=>
           a < b /\ (\A x \in a + 1 .. b : text[x] \in Digits) /\ NumberBetween(text, a, b) <= MaxPart
<1> DEFINE s == SubSeq(text, a + 1, b)
           m == b - a
<1>1. m \in Nat /\ (m = 0 <=> a = b)
  OBVIOUS
<1>2. s \in Seq(Int) /\ Len(s) = m /\ \A j \in 1 .. m : s[j] = text[a + j]
  <2>1. a + 1 \in 1 .. Len(text) + 1 /\ b \in (a + 1) - 1 .. Len(text) /\ b - (a + 1) + 1 = m
    BY LenProperties
  <2> HIDE DEF m
  <2>2. /\ SubSeq(text, a + 1, b) \in Seq(Int) /\ Len(SubSeq(text, a + 1, b)) = b - (a + 1) + 1
        /\ \A j \in 1 .. b - (a + 1) + 1 : SubSeq(text, a + 1, b)[j] = text[(a + 1) + j - 1]
    BY <2>1, SubSeqProperties
  <2>3. \A j \in 1 .. m : (a + 1) + j - 1 = a + j
    BY <1>1
  <2> QED BY <2>1, <2>2, <2>3
<1>3. NumberOf(s) = NumberBetween(text, a, b)
  BY DEF NumberBetween
<1> HIDE DEF s
<1>4. s # << >> <=> a < b
  <2>1. s = << >> <=> Len(s) = 0
    BY <1>2, EmptySeq
  <2>2. a < b <=> a # b
    OBVIOUS
  <2> QED BY <1>1, <1>2, <2>1, <2>2
<1>5. DOMAIN s = 1 .. m
  BY <1>2, LenProperties
<1>6. Range(s) \subseteq Digits <=> \A j \in 1 .. m : s[j] \in Digits
  BY <1>5 DEF Range
<1>7. (\A j \in 1 .. m : s[j] \in Digits) <=> \A x \in a + 1 .. b : text[x] \in Digits
  <2>1. ASSUME \A j \in 1 .. m : s[j] \in Digits, NEW x \in a + 1 .. b PROVE text[x] \in Digits
    <3>1. x - a \in 1 .. m /\ a + (x - a) = x
      OBVIOUS
    <3> HIDE DEF m
    <3> QED BY <1>2, <2>1, <3>1
  <2>2. ASSUME \A x \in a + 1 .. b : text[x] \in Digits, NEW j \in 1 .. m PROVE s[j] \in Digits
    <3>1. a + j \in a + 1 .. b
      OBVIOUS
    <3> HIDE DEF m
    <3> QED BY <1>2, <2>2, <3>1
  <2> QED BY <2>1, <2>2
<1> QED BY <1>3, <1>4, <1>6, <1>7 DEF IsNumber, s

\* A part of a text that is cut into k parts.
LEMMA PartIs ==
  ASSUME NEW text \in Seq(Int), NEW k \in {3, 4}, NEW cuts, cuts \in [1 .. k - 1 -> DOMAIN text],
         NEW i \in 1 .. k
  PROVE  Part(text, cuts, i) = SubSeq(text, (IF i = 1 THEN 0 ELSE cuts[i - 1]) + 1,
                                            IF i = k THEN Len(text) ELSE cuts[i] - 1)
<1>1. Len(cuts) = k - 1
  <2>1. k - 1 \in Nat
    OBVIOUS
  <2> QED BY <2>1, RowIsSeq
<1>2. i > Len(cuts) <=> i = k
  BY <1>1
<1> QED BY <1>2 DEF Part

\* The places of the cuts, as CutsFit wants them.
CutsOf(cuts, k) == [j \in 0 .. 3 |-> IF j \in 1 .. k - 1 THEN cuts[j] ELSE 0]

\* The end of the j-th part.
PartEnd(text, k, c, j) == IF j = k THEN Len(text) ELSE c[j] - 1

\* A split of the grammar is a text that the parser reads.
LEMMA SplitFits ==
  ASSUME NEW text \in Seq(Int), NEW k \in {3, 4}, NEW cuts \in Splits(text, k)
  PROVE  /\ CutsFit(text, k, CutsOf(cuts, k))
         /\ \A j \in 1 .. k :
              NumberOf(Part(text, cuts, j)) =
                NumberBetween(text, CutsOf(cuts, k)[j - 1], PartEnd(text, k, CutsOf(cuts, k), j))
<1> DEFINE c == CutsOf(cuts, k)
           n == Len(text)
<1>1. /\ cuts \in [1 .. k - 1 -> DOMAIN text]
      /\ \A i \in 1 .. k - 2 : cuts[i] < cuts[i + 1]
      /\ \A i \in 1 .. k - 1 : text[cuts[i]] = Separators[i]
      /\ \A i \in 1 .. k : IsNumber(Part(text, cuts, i))
  BY DEF Splits
<1>2. n \in Nat /\ \A i \in 1 .. k - 1 : cuts[i] \in 1 .. n
  BY <1>1, LenProperties
<1>3. c \in [0 .. 3 -> Nat] /\ c[0] = 0 /\ \A j \in 1 .. k - 1 : c[j] = cuts[j]
  <2>1. \A j \in 1 .. k - 1 : cuts[j] \in Nat /\ j \in 0 .. 3
    BY <1>2
  <2> QED BY <2>1 DEF CutsOf
<1> HIDE DEF c, n
<1>4. ASSUME NEW j \in 1 .. k
      PROVE  LET a == c[j - 1]
                 b == IF j = k THEN n ELSE c[j] - 1
             IN /\ a \in Nat /\ b \in Nat /\ a < b /\ b <= n
                /\ \A x \in a + 1 .. b : text[x] \in Digits
                /\ NumberBetween(text, a, b) <= MaxPart
                /\ NumberOf(Part(text, cuts, j)) = NumberBetween(text, a, b)
  <2> DEFINE a == c[j - 1]
             b == IF j = k THEN n ELSE c[j] - 1
  <2>1. j - 1 \in 0 .. 3 /\ (j # k => j \in 1 .. k - 1) /\ (j # 1 => j - 1 \in 1 .. k - 1)
    OBVIOUS
  <2>2. a \in Nat
    BY <1>3, <2>1
  <2>3. b \in Nat /\ b <= n
    <3>1. CASE j = k
      BY <1>2, <3>1
    <3>2. CASE j # k
      <4>1. c[j] \in 1 .. n
        BY <1>2, <1>3, <2>1, <3>2
      <4> QED BY <1>2, <3>2, <4>1
    <3> QED BY <3>1, <3>2
  <2>4. a <= b
    <3>1. CASE j = 1
      <4>1. a = 0
        BY <1>3, <3>1
      <4> QED BY <2>3, <4>1
    <3>2. CASE j # 1 /\ j = k
      <4>1. c[j - 1] \in 1 .. n
        BY <1>2, <1>3, <2>1, <3>2
      <4> QED BY <1>2, <3>2, <4>1
    <3>3. CASE j # 1 /\ j # k
      <4>1. j - 1 \in 1 .. k - 2 /\ (j - 1) + 1 = j
        BY <3>3
      <4>2. cuts[j - 1] < cuts[j]
        BY <1>1, <4>1
      <4>3. c[j - 1] = cuts[j - 1] /\ c[j] = cuts[j] /\ cuts[j - 1] \in 1 .. n /\ cuts[j] \in 1 .. n
        BY <1>2, <1>3, <2>1, <3>3
      <4> QED BY <1>2, <3>3, <4>2, <4>3
    <3> QED BY <3>1, <3>2, <3>3
  <2>5. Part(text, cuts, j) = SubSeq(text, a + 1, b)
    <3>1. Part(text, cuts, j) = SubSeq(text, (IF j = 1 THEN 0 ELSE cuts[j - 1]) + 1,
                                             IF j = k THEN Len(text) ELSE cuts[j] - 1)
      BY <1>1, PartIs
    <3>2. (IF j = 1 THEN 0 ELSE cuts[j - 1]) = a
      BY <1>3, <2>1
    <3>3. (IF j = k THEN Len(text) ELSE cuts[j] - 1) = b
      BY <1>3, <2>1 DEF n
    <3> QED BY <3>1, <3>2, <3>3
  <2>6. IsNumber(SubSeq(text, a + 1, b))
    BY <1>1, <2>5
  <2> HIDE DEF a, b
  <2>7. a < b /\ (\A x \in a + 1 .. b : text[x] \in Digits) /\ NumberBetween(text, a, b) <= MaxPart
    BY <2>2, <2>3, <2>4, <2>6, NumberText DEF n
  <2>8. NumberOf(Part(text, cuts, j)) = NumberBetween(text, a, b)
    BY <2>5 DEF NumberBetween
  <2> QED BY <2>2, <2>3, <2>7, <2>8 DEF a, b
<1>5. ASSUME NEW j \in 1 .. k - 1
      PROVE  /\ text[c[j]] = Separators[j] /\ c[j - 1] + 1 < c[j] /\ c[j] <= n
             /\ \A x \in c[j - 1] + 1 .. c[j] - 1 : text[x] \in Digits
             /\ NumberBetween(text, c[j - 1], c[j] - 1) <= MaxPart
  <2>1. j \in 1 .. k /\ j # k
    OBVIOUS
  <2>2. /\ c[j - 1] \in Nat /\ c[j] - 1 \in Nat /\ c[j - 1] < c[j] - 1
        /\ \A x \in c[j - 1] + 1 .. c[j] - 1 : text[x] \in Digits
        /\ NumberBetween(text, c[j - 1], c[j] - 1) <= MaxPart
    BY <1>4, <2>1
  <2>3. c[j] = cuts[j] /\ c[j] \in 1 .. n
    BY <1>2, <1>3
  <2>4. c[j - 1] + 1 < c[j] /\ c[j] <= n
    BY <1>2, <2>2, <2>3
  <2> QED BY <1>1, <2>2, <2>3, <2>4
<1>6. /\ c[k - 1] < n /\ \A x \in c[k - 1] + 1 .. n : text[x] \in Digits
      /\ NumberBetween(text, c[k - 1], n) <= MaxPart
  <2>1. k \in 1 .. k
    OBVIOUS
  <2> QED BY <1>4, <2>1
<1>7. CutsFit(text, k, c)
  BY <1>3, <1>5, <1>6 DEF CutsFit, n
<1>8. \A j \in 1 .. k : NumberOf(Part(text, cuts, j)) = NumberBetween(text, c[j - 1], PartEnd(text, k, c, j))
  BY <1>4 DEF PartEnd, n
<1> QED BY <1>7, <1>8 DEF c

\* What the parser reads is a split of the grammar.
LEMMA FitsSplit ==
  ASSUME NEW text \in Seq(Int), NEW k \in {3, 4}, NEW c, CutsFit(text, k, c)
  PROVE  [j \in 1 .. k - 1 |-> c[j]] \in Splits(text, k)
<1> DEFINE cuts == [j \in 1 .. k - 1 |-> c[j]]
           n == Len(text)
<1>1. n \in Nat /\ DOMAIN text = 1 .. n
  BY LenProperties
<1>2. c \in [0 .. 3 -> Nat] /\ c[0] = 0
  BY DEF CutsFit
<1>3. ASSUME NEW j \in 1 .. k - 1
      PROVE  /\ text[c[j]] = Separators[j] /\ c[j - 1] + 1 < c[j] /\ c[j] <= n
             /\ \A x \in c[j - 1] + 1 .. c[j] - 1 : text[x] \in Digits
             /\ NumberBetween(text, c[j - 1], c[j] - 1) <= MaxPart
             /\ c[j] \in Nat /\ c[j - 1] \in Nat /\ c[j] \in 1 .. n
  <2>1. j \in 0 .. 3 /\ j - 1 \in 0 .. 3
    OBVIOUS
  <2>2. c[j] \in Nat /\ c[j - 1] \in Nat
    BY <1>2, <2>1
  <2>3. c[j - 1] + 1 < c[j] /\ c[j] <= n
    BY DEF CutsFit
  <2>4. c[j] \in 1 .. n
    BY <1>1, <2>2, <2>3
  <2> QED BY <2>2, <2>4 DEF CutsFit
<1>4. /\ c[k - 1] < n /\ \A x \in c[k - 1] + 1 .. n : text[x] \in Digits
      /\ NumberBetween(text, c[k - 1], n) <= MaxPart /\ c[k - 1] \in Nat
  <2>1. k - 1 \in 0 .. 3
    OBVIOUS
  <2> QED BY <1>2, <2>1 DEF CutsFit
<1> HIDE DEF n
<1>5. cuts \in [1 .. k - 1 -> DOMAIN text]
  BY <1>1, <1>3
<1>6. \A i \in 1 .. k - 1 : cuts[i] = c[i]
  OBVIOUS
<1> HIDE DEF cuts
<1>7. \A i \in 1 .. k - 2 : cuts[i] < cuts[i + 1]
  <2> TAKE i \in 1 .. k - 2
  <2>1. i \in 1 .. k - 1 /\ i + 1 \in 1 .. k - 1 /\ (i + 1) - 1 = i
    OBVIOUS
  <2>2. c[i] \in Nat /\ c[i + 1] \in Nat /\ c[(i + 1) - 1] + 1 < c[i + 1]
    BY <1>3, <2>1
  <2> QED BY <1>6, <2>1, <2>2
<1>8. \A i \in 1 .. k - 1 : text[cuts[i]] = Separators[i]
  BY <1>3, <1>6
<1>9. \A i \in 1 .. k : IsNumber(Part(text, cuts, i))
  <2> TAKE i \in 1 .. k
  <2> DEFINE a == c[i - 1]
             b == IF i = k THEN n ELSE c[i] - 1
  <2>1. (i # k => i \in 1 .. k - 1) /\ (i # 1 => i - 1 \in 1 .. k - 1)
    OBVIOUS
  <2>2. /\ a \in Nat /\ b \in Nat /\ a < b /\ b <= n
        /\ \A x \in a + 1 .. b : text[x] \in Digits
        /\ NumberBetween(text, a, b) <= MaxPart
    <3>1. CASE i = k
      BY <1>1, <1>4, <3>1
    <3>2. CASE i # k
      <4>1. i \in 1 .. k - 1
        BY <2>1, <3>2
      <4>2. c[i] - 1 \in Nat /\ a \in Nat /\ a < c[i] - 1 /\ c[i] - 1 <= n
        BY <1>1, <1>3, <4>1
      <4> QED BY <1>3, <3>2, <4>1, <4>2
    <3> QED BY <3>1, <3>2
  <2>3. Part(text, cuts, i) = SubSeq(text, a + 1, b)
    <3>1. Part(text, cuts, i) = SubSeq(text, (IF i = 1 THEN 0 ELSE cuts[i - 1]) + 1,
                                             IF i = k THEN Len(text) ELSE cuts[i] - 1)
      BY <1>5, PartIs
    <3>2. (IF i = 1 THEN 0 ELSE cuts[i - 1]) = a
      BY <1>2, <1>6, <2>1
    <3>3. (IF i = k THEN Len(text) ELSE cuts[i] - 1) = b
      BY <1>6, <2>1 DEF n
    <3> QED BY <3>1, <3>2, <3>3
  <2> HIDE DEF a, b
  <2>4. a <= b
    BY <2>2
  <2>5. IsNumber(SubSeq(text, a + 1, b))
    BY <2>2, <2>4, NumberText DEF n
  <2> QED BY <2>3, <2>5
<1>10. cuts \in Splits(text, k)
  BY <1>5, <1>7, <1>8, <1>9 DEF Splits
<1> QED BY <1>10 DEF cuts

\* The states that the fold of the parser goes through.
LEMMA ParseExists ==
  ASSUME NEW text \in Seq(Int)
  PROVE  \E w : /\ IsParse(text, w)
                /\ ParseAddress(text) = IF w[Len(text)].gotNumber /\ w[Len(text)].at \in {3, 4}
                                          THEN w[Len(text)] ELSE NoAddress
<1> DEFINE n == Len(text)
<1>1. PICK w : /\ w \in [0 .. n -> ParserStates] /\ w[0] = ParserStart
               /\ \A i \in 1 .. n : w[i] = ParseChar(w[i - 1], text[i])
               /\ ParserEnd(text) = w[n]
  BY ParserSteps, Zenon
<1>2. IsParse(text, w)
  BY <1>1, Zenon DEF IsParse
<1>3. ParseAddress(text) = IF ParserEnd(text).gotNumber /\ ParserEnd(text).at \in {3, 4}
                             THEN ParserEnd(text) ELSE NoAddress
  BY DEF ParseAddress, ParserEnd
<1>4. ParseAddress(text) = IF w[n].gotNumber /\ w[n].at \in {3, 4} THEN w[n] ELSE NoAddress
  BY <1>1, <1>3
<1> QED BY <1>2, <1>4

\* The parts of a text that fits are those of its address.
LEMMA FitsAreParsed ==
  ASSUME NEW text \in Seq(Int), NEW k \in {3, 4}, NEW c, CutsFit(text, k, c)
  PROVE  /\ ParseAddress(text) # NoAddress /\ ParseAddress(text) \in ParserStates
         /\ \A i \in 1 .. k :
              ParseAddress(text).parts[i] = NumberBetween(text, c[i - 1], PartEnd(text, k, c, i))
         /\ \A i \in k + 1 .. 4 : ParseAddress(text).parts[i] = 0
<1> DEFINE n == Len(text)
<1>1. PICK w : /\ IsParse(text, w)
               /\ ParseAddress(text) = IF w[n].gotNumber /\ w[n].at \in {3, 4} THEN w[n] ELSE NoAddress
  BY ParseExists
<1>2. k \in 1 .. 4
  OBVIOUS
<1>3. Reads(text, n, w[n], k, c)
  BY <1>1, <1>2, FitsAreRead
<1>4. c[k - 1] < n
  BY DEF CutsFit
<1> DEFINE p == w[n]
<1> HIDE DEF n
<1>5. /\ p \in ParserStates /\ p.at = k /\ p.gotNumber
      /\ p.parts[k] = NumberBetween(text, c[k - 1], n)
      /\ \A j \in k + 1 .. 4 : p.parts[j] = 0
  BY <1>3, <1>4 DEF Reads
<1>6. \A j \in 1 .. k - 1 : p.parts[j] = NumberBetween(text, c[j - 1], c[j] - 1)
  BY <1>3 DEF Reads
<1> HIDE DEF p
<1>7. ParseAddress(text) = p
  BY <1>1, <1>5 DEF p
<1>8. p # NoAddress
  BY <1>2, <1>5, ParserBegins
<1>9. \A i \in 1 .. k : p.parts[i] = NumberBetween(text, c[i - 1], PartEnd(text, k, c, i))
  <2> TAKE i \in 1 .. k
  <2>1. CASE i = k
    <3>1. PartEnd(text, k, c, i) = n
      BY <2>1 DEF PartEnd, n
    <3> QED BY <1>5, <2>1, <3>1
  <2>2. CASE i # k
    <3>1. i \in 1 .. k - 1
      BY <2>2
    <3>2. PartEnd(text, k, c, i) = c[i] - 1
      BY <2>2 DEF PartEnd
    <3> QED BY <1>6, <3>1, <3>2
  <2> QED BY <2>1, <2>2
<1> QED BY <1>5, <1>7, <1>8, <1>9

\* So are those of each split of the grammar.
LEMMA SplitIsParsed ==
  ASSUME NEW text \in Seq(Int), NEW k \in {3, 4}, NEW cuts \in Splits(text, k)
  PROVE  /\ ParseAddress(text) # NoAddress
         /\ \A i \in 1 .. k : ParseAddress(text).parts[i] = NumberOf(Part(text, cuts, i))
<1> DEFINE c == CutsOf(cuts, k)
<1>1. CutsFit(text, k, c)
  BY SplitFits
<1>2. \A j \in 1 .. k : NumberOf(Part(text, cuts, j)) = NumberBetween(text, c[j - 1], PartEnd(text, k, c, j))
  BY SplitFits
<1> HIDE DEF c
<1>3. /\ ParseAddress(text) # NoAddress
      /\ \A i \in 1 .. k :
           ParseAddress(text).parts[i] = NumberBetween(text, c[i - 1], PartEnd(text, k, c, i))
  BY <1>1, FitsAreParsed
<1> QED BY <1>2, <1>3

\* EchomailAddress::parse accepts exactly the texts of the grammar, whatever
\* their length and their characters, and gives the numbers they are made of:
\* a number that no u16 holds is no part of an address.
THEOREM ParsesTheGrammar ==
  ASSUME NEW text \in Seq(Int)
  PROVE  AddressGrammar(text)
<1> DEFINE n == Len(text)
<1>1. ASSUME ParseAddress(text) # NoAddress PROVE Splits(text, 3) \cup Splits(text, 4) # {}
  <2>1. PICK w : /\ IsParse(text, w)
                 /\ ParseAddress(text) = IF w[n].gotNumber /\ w[n].at \in {3, 4} THEN w[n] ELSE NoAddress
    BY ParseExists
  <2>2. w[n].gotNumber /\ w[n].at \in {3, 4} /\ w[n] # NoAddress
    BY <1>1, <2>1
  <2>3. PICK m, c : Reads(text, n, w[n], m, c)
    <3>1. n \in 0 .. n
      BY LenProperties
    <3> QED BY <2>1, <2>2, <3>1, ParserReads
  <2>4. m \in {3, 4}
    BY <2>2, <2>3 DEF Reads
  <2>5. CutsFit(text, m, c)
    BY <2>2, <2>3, ReadsFit
  <2>6. [j \in 1 .. m - 1 |-> c[j]] \in Splits(text, m)
    BY <2>4, <2>5, FitsSplit
  <2> QED BY <2>4, <2>6
<1>2. ASSUME Splits(text, 3) \cup Splits(text, 4) # {} PROVE ParseAddress(text) # NoAddress
  <2>1. PICK cuts : cuts \in Splits(text, 3) \/ cuts \in Splits(text, 4)
    BY <1>2
  <2>2. 3 \in {3, 4} /\ 4 \in {3, 4}
    OBVIOUS
  <2> QED BY <2>1, <2>2, SplitIsParsed
<1>3. \A k \in {3, 4} : \A cuts \in Splits(text, k) :
        \A i \in 1 .. k : ParseAddress(text).parts[i] = NumberOf(Part(text, cuts, i))
  BY SplitIsParsed
<1> QED BY <1>1, <1>2, <1>3 DEF AddressGrammar

\* So it does for the texts of the run.
THEOREM AddressesAlwaysParse == Spec => []AddressesParse
<1>1. AddressChars \subseteq Int
  <2>1. DOMAIN AddressSeparators = 1 .. 3 /\ \A i \in 1 .. 3 : AddressSeparators[i] \in Int
    <3>1. AddressSeparators \in Seq(Int) /\ Len(AddressSeparators) = 3
      BY DEF AddressSeparators
    <3> QED BY <3>1, LenProperties, ElementOfSeq
  <2> QED BY <2>1 DEF AddressChars, Range
<1>2. ASSUME NEW n \in Nat, NEW t \in [1 .. n -> AddressChars] PROVE t \in Seq(Int)
  <2>1. t \in [1 .. n -> Int]
    BY <1>1
  <2> QED BY <2>1, RowIsSeq
<1>3. \A text \in AddressTexts : text \in Seq(Int)
  <2> TAKE text \in AddressTexts
  <2> DEFINE A == UNION {[1 .. n -> AddressChars] : n \in 0 .. 5}
             B == {<<1, -1>> \o t : t \in [1 .. 5 -> AddressChars]}
  <2>1. CASE text \in A
    <3>1. PICK n \in 0 .. 5 : text \in [1 .. n -> AddressChars]
      BY <2>1
    <3>2. n \in Nat
      OBVIOUS
    <3> QED BY <1>2, <3>1, <3>2
  <2>2. CASE text \in B
    <3>1. PICK t \in [1 .. 5 -> AddressChars] : text = <<1, -1>> \o t
      BY <2>2
    <3>2. t \in Seq(Int)
      <4>1. 5 \in Nat
        OBVIOUS
      <4> QED BY <1>2, <4>1
    <3>3. <<1, -1>> \in Seq(Int)
      OBVIOUS
    <3> QED BY <3>1, <3>2, <3>3, ConcatProperties
  <2>3. AddressTexts = A \cup B
    BY DEF AddressTexts
  <2> HIDE DEF A, B
  <2> QED BY <2>1, <2>2, <2>3
<1>4. InputInv => AddressesParse
  BY <1>3, ParsesTheGrammar DEF InputInv, AddressesParse
<1> QED BY <1>4, InputAlways, PTL

-----------------------------------------------------------------------------
(***************************************************************************)
(* The digits a part is displayed as stand for it, so an address is read   *)
(* back from its text.                                                     *)
(***************************************************************************)

\* All digits of a number but the last are those of a smaller number.
LEMMA LastDigit ==
  ASSUME NEW m \in Nat, ~(m <= MaxDigit)
  PROVE  /\ m \div Base \in Nat /\ m \div Base < m /\ m % Base \in Digits
         /\ m = (m \div Base) * Base + (m % Base)
<1>1. Base \in Nat /\ Base >= 2 /\ MaxDigit = Base - 1 /\ m >= Base
  BY AddressAssumption DEF Base
<1>2. \A b \in Nat : b >= 2 => /\ m \div b \in Int /\ m % b \in 0 .. b - 1
                               /\ m = (m \div b) * b + (m % b)
  OBVIOUS
<1>3. /\ m \div Base \in Int /\ m % Base \in 0 .. Base - 1
      /\ m = (m \div Base) * Base + (m % Base)
  BY <1>1, <1>2
<1> DEFINE q == m \div Base
           r == m % Base
<1> HIDE DEF q, r
<1>4. \A x \in Int : \A b \in Nat : \A e \in 0 .. b - 1 : b >= 2 /\ x * b + e >= b => x >= 1 /\ x < x * b + e
  <2> TAKE x \in Int
  <2> TAKE b \in Nat
  <2> TAKE e \in 0 .. b - 1
  <2> HAVE b >= 2 /\ x * b + e >= b
  <2>1. x >= 1
    <3> SUFFICES ASSUME x <= 0 PROVE FALSE
      OBVIOUS
    <3>1. x * b <= 0
      OBVIOUS
    <3> QED BY <3>1
  <2>2. x * b = x * (b - 2) + x + x /\ x * (b - 2) >= 0
    BY <2>1
  <2> QED BY <2>1, <2>2
<1>5. q \in Int /\ r \in 0 .. Base - 1 /\ m = q * Base + r
  BY <1>3 DEF q, r
<1>6. q >= 1 /\ q < m
  <2>1. q * Base + r >= Base
    BY <1>1, <1>5
  <2>2. q >= 1 /\ q < q * Base + r
    BY <1>1, <1>4, <1>5, <2>1, Zenon
  <2> QED BY <1>5, <2>2
<1>7. r \in Digits
  BY <1>1, <1>5 DEF Digits
<1> QED BY <1>5, <1>6, <1>7 DEF q, r

\* A number is displayed as digits that stand for it.
LEMMA DigitsStand ==
  ASSUME NEW n \in Nat
  PROVE  /\ DigitsOf(n) \in Seq(Digits) /\ Len(DigitsOf(n)) > 0 /\ NumberOf(DigitsOf(n)) = n
<1> DEFINE D == 0 .. n
           S == Seq(Int)
           Step(f, m) == IF m <= MaxDigit THEN <<m>> ELSE Append(f[m \div Base], m % Base)
           Rhs(f) == [m \in D |-> IF m <= MaxDigit THEN <<m>> ELSE Append(f[m \div (MaxDigit + 1)], m % (MaxDigit + 1))]
           ff == CHOOSE f : f = Rhs(f)
           Good(s, m) == s \in Seq(Digits) /\ Len(s) > 0 /\ NumberOf(s) = m
<1>1. DigitsOf(n) = ff[n]
  BY DEF DigitsOf
<1>2. MaxDigit \in Nat /\ Digits \subseteq Int /\ Base \in Nat
  BY AddressAssumption DEF Digits, Base
<1>3. \A m \in D : m \in Nat /\ (~(m <= MaxDigit) => m \div Base \in D)
  <2> TAKE m \in D
  <2>1. ~(m <= MaxDigit) => m \div Base \in Nat /\ m \div Base < m
    BY LastDigit
  <2> QED BY <2>1
<1>4. PICK h : h = Rhs(h)
  <2> DEFINE stop == {m \in D : m <= MaxDigit}
             base == [m \in D |-> <<m>>]
             next == [m \in D |-> IF m <= MaxDigit THEN m ELSE m \div Base]
             mu == [m \in D |-> m]
             g == [p \in D \X S |-> Append(p[2], p[1] % Base)]
  <2>1. base \in [D -> S]
    <3>1. \A m \in Int : <<m>> \in Seq(Int)
      OBVIOUS
    <3> QED BY <3>1
  <2>2. g \in [D \X S -> S]
    <3>1. \A p \in D \X S : p[1] \in Nat /\ p[2] \in Seq(Int)
      BY <1>3
    <3>2. Base > 0 /\ \A m \in Nat : m % Base \in Int
      BY <1>2, AddressAssumption DEF Base
    <3>3. \A p \in D \X S : p[1] % Base \in Int
      BY <3>1, <3>2
    <3>4. \A p \in D \X S : Append(p[2], p[1] % Base) \in Seq(Int)
      BY <3>1, <3>3, AppendProperties
    <3> HIDE DEF D
    <3> QED BY <3>4
  <2>3. stop \in SUBSET D /\ next \in [D -> D] /\ mu \in [D -> Nat] /\ \A m \in D : mu[m] <= n
    BY <1>3
  <2>4. \A m \in D \ stop : mu[next[m]] < mu[m]
    <3> TAKE m \in D \ stop
    <3>1. m \in Nat /\ ~(m <= MaxDigit) /\ next[m] = m \div Base /\ mu[m] = m
      OBVIOUS
    <3>2. m \div Base \in D /\ m \div Base < m
      BY <1>3, <3>1, LastDigit
    <3> DEFINE q == m \div Base
    <3>3. mu[q] = q
      BY <3>2
    <3> QED BY <3>1, <3>2, <3>3
  <2>5. GoesDown(D, S, base, g, stop, next, mu, n)
    <3> HIDE DEF D, S, base, g, stop, next, mu
    <3> QED BY <2>1, <2>2, <2>3, <2>4 DEF GoesDown
  <2>6. PICK f \in [D -> S] : \A m \in D : f[m] = IF m \in stop THEN base[m] ELSE g[<<m, f[next[m]]>>]
    <3> HIDE DEF D, S, base, g, stop, next, mu
    <3> QED BY <2>5, Recursion
  <2>7. ASSUME NEW m \in D PROVE f[m] = Step(f, m)
    <3>1. CASE m <= MaxDigit
      BY <2>6, <3>1
    <3>2. CASE ~(m <= MaxDigit)
      <4> DEFINE q == m \div Base
      <4>1. q \in D /\ m \notin stop /\ next[m] = q
        BY <1>3, <3>2
      <4>2. f[q] \in S
        <5> HIDE DEF D, S, q
        <5> QED BY <2>6, <4>1
      <4>3. f[m] = g[<<m, f[q]>>]
        <5> HIDE DEF D, S, base, g, stop, next, mu, q
        <5> QED BY <2>6, <4>1
      <4>4. g[<<m, f[q]>>] = Append(f[q], m % Base)
        <5> HIDE DEF D, S, q
        <5> QED BY <4>2
      <4> QED BY <3>2, <4>3, <4>4
    <3> QED BY <3>1, <3>2
  <2>8. f = [m \in D |-> Step(f, m)]
    <3> HIDE DEF D, S, Step
    <3> QED BY <2>6, <2>7
  <2> QED BY <2>8 DEF Base
<1>5. ff = Rhs(ff)
  <2> HIDE DEF Rhs
  <2> QED BY <1>4
<1>6. \A m \in D : ff[m] = Step(ff, m)
  <2> HIDE DEF ff, D
  <2> QED BY <1>5 DEF Base
<1> HIDE DEF ff
<1> DEFINE P == {k \in Nat : \A m \in D : m < k => Good(ff[m], m)}
<1>7. 0 \in P
  BY <1>3
<1>8. ASSUME NEW k \in Nat, k \in P PROVE k + 1 \in P
  <2> SUFFICES ASSUME NEW m \in D, m < k + 1 PROVE Good(ff[m], m)
    OBVIOUS
  <2>1. CASE m <= MaxDigit
    <3> DEFINE none == << >>
    <3>1. ff[m] = <<m>> /\ m \in Digits /\ m \in Int
      <4>1. m \in Nat
        BY <1>3
      <4>2. m \in Digits
        BY <2>1, <4>1 DEF Digits
      <4>3. ff[m] = Step(ff, m)
        <5> HIDE DEF Step, D
        <5> QED BY <1>6
      <4> QED BY <2>1, <4>1, <4>2, <4>3
    <3>2. <<m>> \in Seq(Digits) /\ Len(<<m>>) = 1 /\ <<m>> = Append(none, m)
      BY <3>1
    <3>3. none \in Seq(Int) /\ NumberOf(none) = 0
      BY NumberOfNothing
    <3> HIDE DEF none
    <3>4. NumberOf(Append(none, m)) = NumberOf(none) * Base + m
      BY <3>1, <3>3, NumberAppended
    <3>5. NumberOf(<<m>>) = m
      <4>1. \A b \in Nat : 0 * b + m = m
        BY <3>1
      <4> QED BY <1>2, <3>2, <3>3, <3>4, <4>1
    <3> QED BY <3>1, <3>2, <3>5
  <2>2. CASE ~(m <= MaxDigit)
    <3> DEFINE q == m \div Base
               r == m % Base
               s == ff[q]
    <3>1. m \in Nat /\ q \in D /\ q < m /\ q \in Nat /\ r \in Digits /\ m = q * Base + r
      BY <1>3, <2>2, LastDigit
    <3>2. ff[m] = Append(s, r)
      BY <1>6, <2>2
    <3> HIDE DEF q, r
    <3>3. q < k
      BY <3>1
    <3>4. s \in Seq(Digits) /\ Len(s) > 0 /\ NumberOf(s) = q
      <4> HIDE DEF D
      <4> QED BY <1>8, <3>1, <3>3
    <3> HIDE DEF s
    <3>5. /\ Append(s, r) \in Seq(Digits) /\ Len(Append(s, r)) = Len(s) + 1 /\ Len(s) \in Nat
      BY <3>1, <3>4, AppendProperties, LenProperties
    <3>6. s \in Seq(Int) /\ r \in Int
      BY <1>2, <3>1, <3>4, SeqMonotonic
    <3>7. NumberOf(Append(s, r)) = NumberOf(s) * Base + r
      BY <3>6, NumberAppended
    <3>8. Len(Append(s, r)) > 0
      BY <3>5
    <3>9. Good(Append(s, r), m)
      BY <3>1, <3>4, <3>5, <3>7, <3>8
    <3> QED BY <3>2, <3>9
  <2> QED BY <2>1, <2>2
<1> HIDE DEF P
<1>9. \A k \in Nat : k \in P
  BY <1>7, <1>8, NatInduct
<1>10. n + 1 \in Nat /\ n < n + 1 /\ n \in D
  OBVIOUS
<1>11. Good(ff[n], n)
  <2> HIDE DEF D, Good
  <2> QED BY <1>9, <1>10 DEF P
<1> QED BY <1>1, <1>11

\* A row of characters that is found in a text stands for its number there.
LEMMA NumberFound ==
  ASSUME NEW text \in Seq(Int), NEW s \in Seq(Int), NEW a \in Nat, NEW b \in Nat,
         b = a + Len(s), b <= Len(text), \A x \in 1 .. Len(s) : text[a + x] = s[x]
  PROVE  NumberBetween(text, a, b) = NumberOf(s)
<1> DEFINE l == Len(s)
           t == SubSeq(text, a + 1, b)
<1>1. l \in Nat
  BY LenProperties
<1>2. t \in Seq(Int) /\ Len(t) = l /\ \A x \in 1 .. l : t[x] = text[a + x]
  <2>1. a + 1 \in 1 .. Len(text) + 1 /\ b \in (a + 1) - 1 .. Len(text) /\ b - (a + 1) + 1 = l
    BY <1>1, LenProperties
  <2>2. /\ SubSeq(text, a + 1, b) \in Seq(Int) /\ Len(SubSeq(text, a + 1, b)) = b - (a + 1) + 1
        /\ \A j \in 1 .. b - (a + 1) + 1 : SubSeq(text, a + 1, b)[j] = text[(a + 1) + j - 1]
    BY <2>1, SubSeqProperties
  <2> HIDE DEF l
  <2>3. \A j \in 1 .. l : (a + 1) + j - 1 = a + j
    BY <1>1
  <2> QED BY <2>1, <2>2, <2>3
<1> HIDE DEF t
<1>3. \A x \in 1 .. l : t[x] = s[x]
  BY <1>2
<1>4. t = s
  BY <1>2, <1>3, SeqEqual
<1> QED BY <1>4 DEF t, NumberBetween

\* A part as it is displayed, with the separator in front of it.
Piece(a, i) == (IF i = 1 THEN << >> ELSE <<Separators[i - 1]>>) \o DigitsOf(a[i])

\* A piece is a separator, but before the zone, and the digits of the part.
LEMMA PieceIs ==
  ASSUME NEW a \in Addresses, NEW i \in 1 .. 4
  PROVE  LET h == IF i = 1 THEN 0 ELSE 1
             s == DigitsOf(a[i])
         IN /\ Piece(a, i) \in Seq(Int) /\ Len(Piece(a, i)) = h + Len(s)
            /\ s \in Seq(Int) /\ Len(s) \in Nat /\ Len(s) > 0 /\ NumberOf(s) = a[i]
            /\ \A x \in 1 .. Len(s) : Piece(a, i)[h + x] = s[x] /\ s[x] \in Digits
            /\ i # 1 => Piece(a, i)[1] = Separators[i - 1]
<1> DEFINE h == IF i = 1 THEN 0 ELSE 1
           s == DigitsOf(a[i])
           hd == IF i = 1 THEN << >> ELSE <<Separators[i - 1]>>
<1>1. a[i] \in Nat
  BY AddressAssumption DEF Addresses
<1>2. s \in Seq(Digits) /\ Len(s) > 0 /\ NumberOf(s) = a[i]
  BY <1>1, DigitsStand
<1> HIDE DEF s
<1>3. s \in Seq(Int) /\ Len(s) \in Nat /\ \A x \in 1 .. Len(s) : s[x] \in Digits
  <2>1. Digits \subseteq Int
    BY AddressAssumption DEF Digits
  <2> QED BY <1>2, <2>1, SeqMonotonic, LenProperties, ElementOfSeq
<1>4. hd \in Seq(Int) /\ Len(hd) = h /\ (i # 1 => hd[1] = Separators[i - 1])
  <2>1. CASE i = 1
    BY <2>1, EmptySeq
  <2>2. CASE i # 1
    <3>1. Separators[i - 1] \in Int
      <4>1. i - 1 \in 1 .. 3
        BY <2>2
      <4> QED BY <4>1, AddressAssumption, ElementOfSeq
    <3> DEFINE e == Separators[i - 1]
    <3> HIDE DEF e
    <3>2. <<e>> \in Seq(Int) /\ Len(<<e>>) = 1 /\ <<e>>[1] = e
      BY <3>1 DEF e
    <3> QED BY <2>2, <3>2 DEF e
  <2> QED BY <2>1, <2>2
<1>5. Piece(a, i) = hd \o s
  BY DEF Piece, s
<1> HIDE DEF hd, h
<1>6. /\ hd \o s \in Seq(Int) /\ Len(hd \o s) = h + Len(s)
      /\ \A x \in 1 .. h : (hd \o s)[x] = hd[x]
      /\ \A x \in 1 .. Len(s) : (hd \o s)[h + x] = s[x]
  <2>1. hd \in Seq(Int) /\ s \in Seq(Int)
    BY <1>3, <1>4
  <2>2. /\ hd \o s \in Seq(Int) /\ Len(hd \o s) = Len(hd) + Len(s)
        /\ \A x \in 1 .. Len(hd) : (hd \o s)[x] = hd[x]
        /\ \A x \in 1 .. Len(s) : (hd \o s)[Len(hd) + x] = s[x]
    BY <2>1, Joined
  <2> QED BY <1>4, <2>2
<1>7. i # 1 => (hd \o s)[1] = Separators[i - 1]
  <2>1. i # 1 => 1 \in 1 .. h
    BY DEF h
  <2> QED BY <1>4, <1>6, <2>1
<1> QED BY <1>2, <1>3, <1>5, <1>6, <1>7 DEF h, s

\* Every address that is displayed is parsed as the same address, whatever u16
\* its parts are, with a point or without.
THEOREM AddressesAreReadBack ==
  ASSUME NEW a \in Addresses
  PROVE  AddressRoundTrip(a)
<1> DEFINE k == DisplayParts(a)
           ss == [i \in 1 .. k |-> Piece(a, i)]
           text == Display(a)
           l(i) == Len(DigitsOf(a[i]))
<1>1. k \in {3, 4} /\ (k = 3 => a[4] = 0) /\ k \in Nat
  BY DEF DisplayParts
<1>2. text = FlattenSeq(ss)
  BY DEF Display, Piece
<1> HIDE DEF k, text
<1>3. \A i \in 1 .. k : i \in 1 .. 4
  BY <1>1
<1>4. ss \in Seq(Seq(Int)) /\ Len(ss) = k /\ \A i \in 1 .. k : ss[i] = Piece(a, i)
  <2>1. ss \in [1 .. k -> Seq(Int)]
    BY <1>3, PieceIs
  <2>2. ss \in Seq(Seq(Int)) /\ Len(ss) = k
    BY <1>1, <2>1, RowIsSeq
  <2> QED BY <2>2
<1> HIDE DEF ss
<1>5. text \in Seq(Int)
  <2>1. FlattenSeq(ss) \in Seq(Int)
    BY <1>4, Pieces
  <2> QED BY <1>2, <2>1
<1>6. PICK at \in [0 .. k -> Nat] :
        /\ at[0] = 0 /\ at[k] = Len(text)
        /\ \A i \in 1 .. k : /\ at[i] = at[i - 1] + Len(ss[i]) /\ at[i] <= Len(text)
                             /\ \A j \in 1 .. Len(ss[i]) : text[at[i - 1] + j] = ss[i][j]
  <2>1. \E at \in [0 .. Len(ss) -> Nat] :
          /\ at[0] = 0 /\ at[Len(ss)] = Len(FlattenSeq(ss))
          /\ \A i \in 1 .. Len(ss) :
               /\ at[i] = at[i - 1] + Len(ss[i])
               /\ at[i] <= Len(FlattenSeq(ss))
               /\ \A j \in 1 .. Len(ss[i]) : FlattenSeq(ss)[at[i - 1] + j] = ss[i][j]
    <3>1. ss \in Seq(Seq(Int))
      BY <1>4
    <3> QED BY <3>1, Pieces
  <2> QED BY <1>2, <1>4, <2>1
<1> DEFINE c == [j \in 0 .. 3 |-> IF j \in 1 .. k - 1 THEN at[j] + 1 ELSE 0]
           n == Len(text)
<1>7. c \in [0 .. 3 -> Nat] /\ c[0] = 0 /\ \A j \in 1 .. k - 1 : c[j] = at[j] + 1 /\ at[j] \in Nat
  <2>1. \A j \in 1 .. k - 1 : at[j] \in Nat /\ j \in 0 .. 3
    BY <1>1, <1>6
  <2> QED BY <2>1
<1> HIDE DEF c, n
<1>8. ASSUME NEW i \in 1 .. k
      PROVE  /\ c[i - 1] \in Nat /\ at[i] \in Nat /\ at[i] = c[i - 1] + l(i) /\ at[i] <= n
             /\ l(i) \in Nat /\ l(i) > 0
             /\ \A x \in 1 .. l(i) : text[c[i - 1] + x] = DigitsOf(a[i])[x]
             /\ \A x \in c[i - 1] + 1 .. at[i] : text[x] \in Digits
             /\ i # 1 => text[c[i - 1]] = Separators[i - 1]
             /\ NumberBetween(text, c[i - 1], at[i]) = a[i]
  <2> DEFINE h == IF i = 1 THEN 0 ELSE 1
             s == DigitsOf(a[i])
             m == l(i)
             o == at[i - 1]
             b == c[i - 1]
  <2>1. i \in 1 .. 4 /\ i - 1 \in 0 .. k /\ i \in 0 .. k /\ i - 1 \in 0 .. 3
    BY <1>1
  <2>2. /\ Len(ss[i]) = h + m /\ m \in Nat /\ m > 0 /\ s \in Seq(Int) /\ NumberOf(s) = a[i]
        /\ \A x \in 1 .. m : ss[i][h + x] = s[x] /\ s[x] \in Digits
        /\ i # 1 => ss[i][1] = Separators[i - 1]
    <3>1. /\ Len(Piece(a, i)) = h + m /\ m \in Nat /\ m > 0 /\ s \in Seq(Int) /\ NumberOf(s) = a[i]
          /\ \A x \in 1 .. m : Piece(a, i)[h + x] = s[x] /\ s[x] \in Digits
          /\ i # 1 => Piece(a, i)[1] = Separators[i - 1]
      BY <2>1, PieceIs
    <3>2. ss[i] = Piece(a, i)
      BY <1>4
    <3> QED BY <3>1, <3>2, Zenon
  <2>3. o \in Nat /\ at[i] \in Nat /\ at[i] = o + Len(ss[i]) /\ at[i] <= n
        /\ \A j \in 1 .. Len(ss[i]) : text[o + j] = ss[i][j]
    BY <1>6, <2>1 DEF n
  <2>4. b = o + h /\ b \in Nat
    <3>1. CASE i = 1
      BY <1>6, <1>7, <3>1
    <3>2. CASE i # 1
      <4>1. i - 1 \in 1 .. k - 1
        BY <1>1, <3>2
      <4> QED BY <1>7, <3>2, <4>1
    <3> QED BY <3>1, <3>2
  <2>5. h \in Nat /\ (i # 1 => h = 1)
    OBVIOUS
  <2>6. m = Len(s)
    OBVIOUS
  <2> HIDE DEF h, m, s, o, b
  <2>7. at[i] = b + m
    BY <2>2, <2>3, <2>4, <2>5
  <2>8. \A x \in 1 .. m : text[b + x] = s[x] /\ text[b + x] \in Digits
    <3> TAKE x \in 1 .. m
    <3>1. h + x \in 1 .. Len(ss[i]) /\ o + (h + x) = b + x
      BY <2>2, <2>3, <2>4, <2>5
    <3> QED BY <2>2, <2>3, <3>1
  <2>9. \A x \in b + 1 .. at[i] : text[x] \in Digits
    <3> TAKE x \in b + 1 .. at[i]
    <3>1. x - b \in 1 .. m /\ b + (x - b) = x
      BY <2>2, <2>4, <2>7
    <3> QED BY <2>8, <3>1
  <2>10. i # 1 => text[b] = Separators[i - 1]
    <3>1. i # 1 => 1 \in 1 .. Len(ss[i]) /\ o + 1 = b
      BY <2>2, <2>3, <2>4, <2>5
    <3> QED BY <2>2, <2>3, <3>1
  <2>11. NumberBetween(text, b, at[i]) = a[i]
    <3>1. /\ b \in Nat /\ at[i] \in Nat /\ at[i] = b + Len(s) /\ at[i] <= Len(text)
          /\ \A x \in 1 .. Len(s) : text[b + x] = s[x]
      BY <2>3, <2>4, <2>6, <2>7, <2>8 DEF n
    <3>2. NumberBetween(text, b, at[i]) = NumberOf(s)
      BY <1>5, <2>2, <3>1, NumberFound
    <3> QED BY <2>2, <3>2
  <2> QED BY <2>2, <2>3, <2>4, <2>7, <2>8, <2>9, <2>10, <2>11 DEF b, m, s
<1>9. \A j \in 1 .. k : a[j] <= MaxPart
  BY <1>3, AddressAssumption DEF Addresses
<1>10. ASSUME NEW j \in 1 .. k - 1
       PROVE  /\ text[c[j]] = Separators[j] /\ c[j - 1] + 1 < c[j] /\ c[j] <= n
              /\ \A x \in c[j - 1] + 1 .. c[j] - 1 : text[x] \in Digits
              /\ NumberBetween(text, c[j - 1], c[j] - 1) <= MaxPart
  <2>1. j \in 1 .. k /\ j + 1 \in 1 .. k /\ (j + 1) - 1 = j /\ j + 1 # 1
    BY <1>1
  <2>2. c[j] - 1 = at[j]
    BY <1>7
  <2>3. text[c[j]] = Separators[j]
    BY <1>8, <2>1
  <2>4. c[j - 1] + 1 < c[j]
    <3>1. c[j - 1] \in Nat /\ at[j] = c[j - 1] + l(j) /\ l(j) \in Nat /\ l(j) > 0
      BY <1>8, <2>1
    <3> HIDE DEF l
    <3> QED BY <1>7, <3>1
  <2>5. c[j] <= n
    <3>1. c[(j + 1) - 1] \in Nat /\ at[j + 1] = c[(j + 1) - 1] + l(j + 1) /\ l(j + 1) \in Nat
          /\ at[j + 1] <= n
      BY <1>8, <2>1
    <3>2. n \in Nat
      BY <1>5, LenProperties DEF n
    <3> HIDE DEF l
    <3> QED BY <2>1, <3>1, <3>2
  <2>6. /\ \A x \in c[j - 1] + 1 .. at[j] : text[x] \in Digits
        /\ NumberBetween(text, c[j - 1], at[j]) <= MaxPart
    BY <1>8, <1>9, <2>1
  <2> QED BY <2>2, <2>3, <2>4, <2>5, <2>6
<1>11. /\ c[k - 1] < n /\ \A x \in c[k - 1] + 1 .. n : text[x] \in Digits
       /\ NumberBetween(text, c[k - 1], n) <= MaxPart
  <2>1. k \in 1 .. k /\ at[k] = n
    BY <1>1, <1>6 DEF n
  <2>2. c[k - 1] \in Nat /\ at[k] = c[k - 1] + l(k) /\ l(k) \in Nat /\ l(k) > 0
    BY <1>8, <2>1
  <2> HIDE DEF l
  <2>3. c[k - 1] < n
    BY <2>1, <2>2
  <2> QED BY <1>8, <1>9, <2>1, <2>3
<1>12. CutsFit(text, k, c)
  BY <1>7, <1>10, <1>11 DEF CutsFit, n
<1> DEFINE p == ParseAddress(text)
<1>13. /\ p \in ParserStates
       /\ \A i \in 1 .. k : p.parts[i] = NumberBetween(text, c[i - 1], PartEnd(text, k, c, i))
       /\ \A i \in k + 1 .. 4 : p.parts[i] = 0
  BY <1>1, <1>5, <1>12, FitsAreParsed
<1> HIDE DEF p
<1>14. \A i \in 1 .. k : p.parts[i] = a[i]
  <2> TAKE i \in 1 .. k
  <2>1. PartEnd(text, k, c, i) = at[i]
    <3>1. CASE i = k
      BY <1>6, <3>1 DEF PartEnd
    <3>2. CASE i # k
      <4>1. i \in 1 .. k - 1
        BY <1>1, <3>2
      <4>2. c[i] - 1 = at[i]
        BY <1>7, <4>1
      <4> QED BY <3>2, <4>2 DEF PartEnd
    <3> QED BY <3>1, <3>2
  <2> QED BY <1>8, <1>13, <2>1
<1>15. \A i \in 1 .. 4 : p.parts[i] = a[i]
  <2> TAKE i \in 1 .. 4
  <2>1. CASE i \in 1 .. k
    BY <1>14, <2>1
  <2>2. CASE i \notin 1 .. k
    <3>1. k = 3 /\ i = 4 /\ i \in k + 1 .. 4
      BY <1>1, <2>2
    <3> QED BY <1>1, <1>13, <3>1
  <2> QED BY <2>1, <2>2
<1>16. p.parts = a
  <2>1. p.parts \in [1 .. 4 -> 0 .. MaxPart]
    BY <1>13 DEF ParserStates
  <2>2. a \in [1 .. 4 -> 0 .. MaxPart]
    BY DEF Addresses
  <2> QED BY <1>15, <2>1, <2>2
<1> QED BY <1>16 DEF AddressRoundTrip, p, text

\* So is every address of the run.
THEOREM AddressesAlwaysRoundTrip == Spec => []AddressesRoundTrip
<1>1. InputInv => AddressesRoundTrip
  BY AddressesAreReadBack DEF InputInv, AddressesRoundTrip
<1> QED BY <1>1, InputAlways, PTL

-----------------------------------------------------------------------------
(***************************************************************************)
(* The recipients of a message whose names stand in extended headers.      *)
(***************************************************************************)

\* The names of a message, and an extended header of it.
NameSet(X) == [from : Seq(X), to : Seq(X), subject : Seq(X)]
HeaderSet(F, X) == [function : F, content : Seq(X)]

\* An extended header leaves names, and of the recipient what it says.
LEMMA NamesAre ==
  ASSUME NEW F, NEW X, NEW names \in NameSet(X), NEW hd \in HeaderSet(F, X)
  PROVE  /\ NamesAfter(names, hd) \in NameSet(X)
         /\ hd.function = "To" => NamesAfter(names, hd).to = hd.content
         /\ hd.function # "To" => NamesAfter(names, hd).to = names.to \o SecondPart(hd)
<1> DEFINE f == names.from
           t == names.to
           s == names.subject
           c == hd.content
           r(a, b, d) == [from |-> a, to |-> b, subject |-> d]
<1>1. f \in Seq(X) /\ t \in Seq(X) /\ s \in Seq(X) /\ c \in Seq(X)
  BY DEF NameSet, HeaderSet
<1>2. t \o c \in Seq(X) /\ f \o c \in Seq(X)
  BY <1>1, ConcatProperties
<1>3. t \o << >> = t
  BY <1>1, ConcatEmptySeq
<1>4. /\ \A x : [names EXCEPT !.to = x] = r(f, x, s)
      /\ \A x : [names EXCEPT !.from = x] = r(x, t, s)
      /\ \A x : [names EXCEPT !.subject = x] = r(f, t, x)
      /\ names = r(f, t, s)
  BY DEF NameSet
<1>5. \A a \in Seq(X) : \A b \in Seq(X) : \A d \in Seq(X) : r(a, b, d) \in NameSet(X) /\ r(a, b, d).to = b
  BY DEF NameSet
<1>6. hd.function = "To" => NamesAfter(names, hd) = r(f, c, s)
  <2>1. hd.function = "To" => NamesAfter(names, hd) = [names EXCEPT !.to = c]
    BY DEF NamesAfter
  <2> QED BY <1>4, <2>1
<1>7. hd.function = "To2" => NamesAfter(names, hd) = r(f, t \o c, s) /\ SecondPart(hd) = c
  <2>1. hd.function = "To2" => NamesAfter(names, hd) = [names EXCEPT !.to = t \o c]
    BY DEF NamesAfter
  <2> QED BY <1>4, <2>1 DEF SecondPart
<1>8. hd.function = "From" => NamesAfter(names, hd) = r(c, t, s)
  <2>1. hd.function = "From" => NamesAfter(names, hd) = [names EXCEPT !.from = c]
    BY DEF NamesAfter
  <2> QED BY <1>4, <2>1
<1>9. hd.function = "From2" => NamesAfter(names, hd) = r(f \o c, t, s)
  <2>1. hd.function = "From2" => NamesAfter(names, hd) = [names EXCEPT !.from = f \o c]
    BY DEF NamesAfter
  <2> QED BY <1>4, <2>1
<1>10. hd.function = "Subject" => NamesAfter(names, hd) = r(f, t, c)
  <2>1. hd.function = "Subject" => NamesAfter(names, hd) = [names EXCEPT !.subject = c]
    BY DEF NamesAfter
  <2> QED BY <1>4, <2>1
<1>11. hd.function \notin {"To", "To2", "From", "From2", "Subject"} => NamesAfter(names, hd) = r(f, t, s)
  <2>1. hd.function \notin {"To", "To2", "From", "From2", "Subject"} => NamesAfter(names, hd) = names
    BY DEF NamesAfter
  <2> QED BY <1>4, <2>1
<1>12. hd.function # "To2" => SecondPart(hd) = << >>
  BY DEF SecondPart
<1> HIDE DEF r, f, t, s, c
<1>13. t \o << >> = t /\ << >> = << >>
  BY <1>3
<1>14. CASE hd.function = "To"
  BY <1>1, <1>5, <1>6, <1>14 DEF c
<1>15. CASE hd.function = "To2"
  <2>1. NamesAfter(names, hd) \in NameSet(X) /\ NamesAfter(names, hd).to = t \o c
    <3>1. r(f, t \o c, s) \in NameSet(X) /\ r(f, t \o c, s).to = t \o c
      BY <1>1, <1>2, <1>5, Zenon
    <3> QED BY <1>7, <1>15, <3>1
  <2>2. hd.function # "To"
    BY <1>15
  <2> QED BY <1>7, <1>15, <2>1, <2>2 DEF t
<1>16. CASE hd.function \notin {"To", "To2"}
  <2>1. SecondPart(hd) = << >>
    BY <1>12, <1>16
  <2>2. NamesAfter(names, hd) \in NameSet(X) /\ NamesAfter(names, hd).to = t
    <3>1. \A a \in Seq(X) : \A d \in Seq(X) : r(a, t, d) \in NameSet(X) /\ r(a, t, d).to = t
      BY <1>1, <1>5, Zenon
    <3>2. CASE hd.function = "From"
      BY <1>1, <1>8, <3>1, <3>2
    <3>3. CASE hd.function = "From2"
      BY <1>1, <1>2, <1>9, <3>1, <3>3
    <3>4. CASE hd.function = "Subject"
      BY <1>1, <1>10, <3>1, <3>4
    <3>5. CASE hd.function \notin {"From", "From2", "Subject"}
      BY <1>1, <1>11, <1>16, <3>1, <3>5
    <3> QED BY <3>2, <3>3, <3>4, <3>5
  <2>3. names.to \o SecondPart(hd) = t
    BY <1>3, <2>1 DEF t
  <2> QED BY <1>16, <2>2, <2>3
<1> QED BY <1>14, <1>15, <1>16

\* The names of a message, header by header.
LEMMA NameSteps ==
  ASSUME NEW F, NEW X, NEW fields \in NameSet(X), NEW headers \in Seq(HeaderSet(F, X))
  PROVE  \E w : /\ w \in [0 .. Len(headers) -> NameSet(X)] /\ w[0] = fields
                /\ \A i \in 1 .. Len(headers) : w[i] = NamesAfter(w[i - 1], headers[i])
                /\ JamNames(fields, headers) = w[Len(headers)]
<1> DEFINE n == Len(headers)
           g == [p \in (0 .. n) \X NameSet(X) |-> IF p[1] = 0 THEN fields ELSE NamesAfter(p[2], headers[p[1]])]
           Rhs(f) == [s \in SUBSET (1 .. n) |->
             IF s = {} THEN fields ELSE NamesAfter(f[s \ {Max(s)}], headers[Max(s)])]
           ff == CHOOSE f : f = Rhs(f)
<1>1. n \in Nat /\ fields \in NameSet(X)
  OBVIOUS
<1>2. \A i \in 1 .. n : \A v \in NameSet(X) : NamesAfter(v, headers[i]) \in NameSet(X)
  <2> TAKE i \in 1 .. n
  <2> TAKE v \in NameSet(X)
  <2>1. headers[i] \in HeaderSet(F, X)
    BY ElementOfSeq
  <2> QED BY <2>1, NamesAre
<1>3. JamNames(fields, headers) = ff[1 .. n]
  <2>1. DOMAIN headers = 1 .. n
    OBVIOUS
  <2> QED BY <1>1, <2>1 DEF JamNames, FoldLeft, MapThenFoldSet
<1> HIDE DEF n
<1>4. Steps(n, NameSet(X), fields, g)
  <2>1. g \in [(0 .. n) \X NameSet(X) -> NameSet(X)]
    <3>1. \A p \in (0 .. n) \X NameSet(X) : p[1] # 0 => p[1] \in 1 .. n /\ p[2] \in NameSet(X)
      BY <1>1
    <3>2. \A p \in (0 .. n) \X NameSet(X) :
            (IF p[1] = 0 THEN fields ELSE NamesAfter(p[2], headers[p[1]])) \in NameSet(X)
      BY <1>1, <1>2, <3>1
    <3> QED BY <3>2
  <2> HIDE DEF g
  <2> QED BY <1>1, <2>1 DEF Steps
<1>5. \A i \in 1 .. n : \A v \in NameSet(X) : g[<<i, v>>] = NamesAfter(v, headers[i])
  <2> TAKE i \in 1 .. n
  <2> TAKE v \in NameSet(X)
  <2>1. i \in 0 .. n /\ i # 0
    BY <1>1
  <2>2. <<i, v>> \in (0 .. n) \X NameSet(X)
    BY <2>1
  <2> QED BY <2>1, <2>2
<1> HIDE DEF g
<1>6. PICK h : IsLeftFold(h, n, NameSet(X), fields, g)
  BY <1>4, FoldsLeft
<1>7. h = Rhs(h)
  <2>1. h \in [SUBSET (1 .. n) -> NameSet(X)] /\ h[{}] = fields
    BY <1>6 DEF IsLeftFold
  <2>2. ASSUME NEW s \in SUBSET (1 .. n), s # {}
        PROVE h[s] = NamesAfter(h[s \ {Max(s)}], headers[Max(s)])
    <3>1. Max(s) \in 1 .. n /\ h[s] = g[<<Max(s), h[s \ {Max(s)}]>>]
      BY <1>6, <2>2 DEF IsLeftFold
    <3>2. h[s \ {Max(s)}] \in NameSet(X)
      BY <2>1
    <3> QED BY <1>5, <3>1, <3>2
  <2>3. h = [s \in SUBSET (1 .. n) |->
               IF s = {} THEN fields ELSE NamesAfter(h[s \ {Max(s)}], headers[Max(s)])]
    BY <2>1, <2>2
  <2> QED BY <2>3
<1>8. ff = Rhs(ff)
  <2> HIDE DEF Rhs
  <2> QED BY <1>7
<1> HIDE DEF ff
<1>9. FoldsBy(ff, n, NameSet(X), fields, g)
  <2>1. ff[{}] = fields
    BY <1>8
  <2>2. ASSUME NEW i \in 1 .. n, ff[1 .. i - 1] \in NameSet(X) PROVE ff[1 .. i] = g[<<i, ff[1 .. i - 1]>>]
    <3>1. /\ 1 .. i \in SUBSET (1 .. n) /\ 1 .. i # {}
          /\ Max(1 .. i) = i /\ (1 .. i) \ {i} = 1 .. i - 1
      BY <1>1, FoldOfPrefix
    <3>2. ff[1 .. i] = NamesAfter(ff[(1 .. i) \ {Max(1 .. i)}], headers[Max(1 .. i)])
      BY <1>8, <3>1
    <3> QED BY <1>5, <2>2, <3>1, <3>2
  <2> QED BY <1>4, <2>1, <2>2 DEF FoldsBy
<1>10. PICK w : IsSteps(w, n, NameSet(X), fields, g) /\ ff[1 .. n] = w[n]
  BY <1>9, FoldSteps
<1>11. w \in [0 .. n -> NameSet(X)] /\ w[0] = fields
  BY <1>10 DEF IsSteps
<1>12. \A i \in 1 .. n : w[i] = NamesAfter(w[i - 1], headers[i])
  <2> TAKE i \in 1 .. n
  <2>1. w[i - 1] \in NameSet(X)
    BY <1>1, <1>11
  <2> QED BY <1>5, <1>10, <2>1 DEF IsSteps
<1> QED BY <1>3, <1>10, <1>11, <1>12 DEF n

\* The recipient of a converted message is what the last "To" among its
\* extended headers says, or the field of its header, and every second part
\* behind that, however many headers there are and whatever else they are.
THEOREM RecipientsAreWhole ==
  ASSUME NEW F, NEW X, NEW fields \in NameSet(X), NEW headers \in Seq(HeaderSet(F, X))
  PROVE  RecipientWhole(fields, headers)
<1> DEFINE n == Len(headers)
           I == {i \in 1 .. n : headers[i].function = "To"}
           last == IF I # {} THEN Max(I) ELSE 0
           m == n - last
           first == IF last = 0 THEN fields.to ELSE headers[last].content
           ps == [i \in 1 .. m |-> SecondPart(headers[last + i])]
<1>1. n \in Nat /\ \A i \in 1 .. n : headers[i] \in HeaderSet(F, X)
  BY LenProperties, ElementOfSeq
<1>2. SelectLastInSeq(headers, LAMBDA hd : hd.function = "To") = last
  BY DEF SelectLastInSeq
<1>3. PICK w : /\ w \in [0 .. n -> NameSet(X)] /\ w[0] = fields
               /\ \A i \in 1 .. n : w[i] = NamesAfter(w[i - 1], headers[i])
               /\ JamNames(fields, headers) = w[n]
  BY NameSteps
<1>4. /\ last \in 0 .. n /\ (last # 0 => headers[last].function = "To")
      /\ \A i \in last + 1 .. n : headers[i].function # "To"
  <2> HIDE DEF n
  <2>1. I \in SUBSET (1 .. n) /\ \A i \in I : headers[i].function = "To"
    OBVIOUS
  <2>2. \A i \in 1 .. n : headers[i].function = "To" => i \in I
    OBVIOUS
  <2> HIDE DEF I
  <2>3. I # {} => Max(I) \in I /\ \A i \in I : i <= Max(I)
    BY <1>1, <2>1, MaxOf
  <2>4. CASE I = {}
    <3>1. last = 0
      BY <2>4
    <3> QED BY <1>1, <2>2, <2>4, <3>1
  <2>5. CASE I # {}
    <3>1. last = Max(I) /\ last \in I /\ \A i \in I : i <= last
      BY <2>3, <2>5
    <3>2. last \in 1 .. n
      BY <2>1, <3>1
    <3> HIDE DEF last
    <3>3. \A i \in last + 1 .. n : i \in 1 .. n /\ ~(i <= last)
      BY <1>1, <3>2
    <3> QED BY <2>1, <2>2, <3>1, <3>2, <3>3
  <2> QED BY <2>4, <2>5
<1> HIDE DEF n, I, last, m
<1>5. m \in Nat /\ last + m = n /\ last \in Nat /\ \A i \in 1 .. m : last + i \in 1 .. n
  BY <1>1, <1>4 DEF m
<1>6. ps \in Seq(Seq(X)) /\ Len(ps) = m /\ \A i \in 1 .. m : ps[i] = SecondPart(headers[last + i])
  <2>1. ASSUME NEW hd \in HeaderSet(F, X) PROVE SecondPart(hd) \in Seq(X)
    BY EmptySeq DEF SecondPart, HeaderSet
  <2>2. ps \in [1 .. m -> Seq(X)]
    BY <1>1, <1>5, <2>1
  <2>3. \A i \in 1 .. m : ps[i] = SecondPart(headers[last + i])
    OBVIOUS
  <2> HIDE DEF ps
  <2> QED BY <1>5, <2>2, <2>3, RowIsSeq
<1>7. first \in Seq(X) /\ w[last].to = first
  <2>1. CASE last = 0
    BY <1>3, <2>1 DEF NameSet
  <2>2. CASE last # 0
    <3>1. last \in 1 .. n /\ last - 1 \in 0 .. n /\ headers[last].function = "To"
      BY <1>1, <1>4, <2>2
    <3>2. w[last - 1] \in NameSet(X) /\ headers[last] \in HeaderSet(F, X)
      BY <1>1, <1>3, <3>1
    <3>3. w[last] = NamesAfter(w[last - 1], headers[last])
      BY <1>3, <3>1
    <3>4. w[last].to = headers[last].content
      <4> DEFINE v == w[last - 1]
                 hd == headers[last]
      <4>1. v \in NameSet(X) /\ hd \in HeaderSet(F, X) /\ hd.function = "To" /\ w[last] = NamesAfter(v, hd)
        BY <3>1, <3>2, <3>3
      <4> HIDE DEF v, hd
      <4>2. NamesAfter(v, hd).to = hd.content
        BY <4>1, NamesAre
      <4> QED BY <4>1, <4>2 DEF hd
    <3>5. headers[last].content \in Seq(X)
      BY <3>2 DEF HeaderSet
    <3> QED BY <2>2, <3>4, <3>5
  <2> QED BY <2>1, <2>2
<1> HIDE DEF first, ps
<1>8. PICK flat \in [0 .. m -> Seq(X)] :
        flat[0] = << >> /\ (\A i \in 1 .. m : flat[i] = flat[i - 1] \o ps[i]) /\ FlattenSeq(ps) = flat[m]
  <2>1. \E flat \in [0 .. Len(ps) -> Seq(X)] :
          /\ flat[0] = << >>
          /\ \A i \in 1 .. Len(ps) : flat[i] = flat[i - 1] \o ps[i]
          /\ FlattenSeq(ps) = flat[Len(ps)]
    <3>1. ps \in Seq(Seq(X))
      BY <1>6
    <3> QED BY <3>1, Flattened
  <2> QED BY <1>6, <2>1, Zenon
<1> DEFINE P == {i \in Nat : i <= m => w[last + i].to = first \o flat[i]}
<1>9. 0 \in P
  <2>1. first \o << >> = first
    BY <1>7, ConcatEmptySeq
  <2>2. last + 0 = last
    BY <1>5
  <2>3. w[last + 0].to = first \o flat[0]
    BY <1>7, <1>8, <2>1, <2>2
  <2> QED BY <2>3
<1>10. ASSUME NEW i \in Nat, i \in P PROVE i + 1 \in P
  <2> SUFFICES ASSUME i + 1 <= m PROVE w[last + (i + 1)].to = first \o flat[i + 1]
    OBVIOUS
  <2> DEFINE j == last + i
             k == i + 1
             a == first
             b == flat[i]
             c == ps[k]
  <2>1. /\ k \in 1 .. m /\ k - 1 = i /\ i <= m /\ i \in 0 .. m /\ last + k = j + 1 /\ (j + 1) - 1 = j
        /\ j + 1 \in last + 1 .. n /\ j + 1 \in 1 .. n /\ j \in 0 .. n
    BY <1>1, <1>5
  <2>2. w[j].to = a \o b
    BY <1>10, <2>1
  <2> HIDE DEF j, k
  <2>3. c = SecondPart(headers[j + 1]) /\ c \in Seq(X) /\ b \in Seq(X) /\ a \in Seq(X)
    <3>1. c = SecondPart(headers[j + 1])
      BY <1>6, <2>1
    <3>2. c \in Seq(X)
      BY <1>6, <2>1, ElementOfSeq
    <3>3. b \in Seq(X)
      BY <1>8, <2>1
    <3> QED BY <1>7, <3>1, <3>2, <3>3
  <2>4. w[j + 1] = NamesAfter(w[j], headers[j + 1]) /\ headers[j + 1].function # "To"
    BY <1>3, <1>4, <2>1
  <2>5. w[j] \in NameSet(X) /\ headers[j + 1] \in HeaderSet(F, X)
    BY <1>1, <1>3, <2>1
  <2>6. w[j + 1].to = w[j].to \o SecondPart(headers[j + 1])
    <3> DEFINE v == w[j]
               hd == headers[j + 1]
    <3>1. v \in NameSet(X) /\ hd \in HeaderSet(F, X) /\ hd.function # "To"
      BY <2>4, <2>5
    <3>2. w[j + 1] = NamesAfter(v, hd)
      BY <2>4
    <3> HIDE DEF v, hd
    <3>3. NamesAfter(v, hd).to = v.to \o SecondPart(hd)
      BY <3>1, NamesAre
    <3> QED BY <3>2, <3>3 DEF v, hd
  <2>7. flat[k] = b \o c
    BY <1>8, <2>1
  <2> HIDE DEF a, b, c
  <2>8. (a \o b) \o c = a \o (b \o c)
    BY <2>3, ConcatAssociative
  <2>9. w[last + k].to = a \o flat[k]
    BY <2>1, <2>2, <2>3, <2>6, <2>7, <2>8
  <2> QED BY <2>9 DEF a, k
<1> HIDE DEF P
<1>11. \A i \in Nat : i \in P
  BY <1>9, <1>10, NatInduct
<1>12. w[last + m].to = first \o flat[m]
  BY <1>5, <1>11 DEF P
<1>13. JamNames(fields, headers).to = first \o FlattenSeq(ps)
  BY <1>3, <1>5, <1>8, <1>12
<1> QED BY <1>2, <1>13 DEF RecipientWhole, first, ps, m, n

\* So are the recipients of the run.
THEOREM RecipientsAlwaysWhole == Spec => []RecipientsWhole
<1> DEFINE F == {"To", "To2", "Attach"}
           nine == <<9>>
           fields == [to |-> nine, from |-> nine, subject |-> nine]
<1>1. nine \in Seq(Nat)
  OBVIOUS
<1> HIDE DEF nine
<1>2. fields \in NameSet(Nat)
  BY <1>1 DEF NameSet
<1>3. \A c \in {<<1>>, <<2>>} : c \in Seq(Nat)
  <2>1. \A k \in Nat : <<k>> \in Seq(Nat)
    OBVIOUS
  <2>2. <<1>> \in Seq(Nat) /\ <<2>> \in Seq(Nat)
    BY <2>1
  <2> QED BY <2>2, Zenon
<1>4. ExtendedOf \subseteq HeaderSet(F, Nat)
  <2> DEFINE C == {<<1>>, <<2>>}
  <2>1. \A c \in C : c \in Seq(Nat)
    BY <1>3
  <2>2. ExtendedOf = {ExtendedHeader(f, c) : f \in F, c \in C}
    BY DEF ExtendedOf
  <2> HIDE DEF C, F
  <2>3. ASSUME NEW f \in F, NEW c \in C PROVE ExtendedHeader(f, c) \in HeaderSet(F, Nat)
    BY <2>1 DEF ExtendedHeader, HeaderSet
  <2> QED BY <2>2, <2>3
<1> HIDE DEF F
<1>5. \A headers \in BoundedSeq(ExtendedOf, 4) : headers \in Seq(HeaderSet(F, Nat))
  BY <1>4, BoundedIsSeq, SeqMonotonic
<1> HIDE DEF fields
<1>6. \A headers \in BoundedSeq(ExtendedOf, 4) : RecipientWhole(fields, headers)
  BY <1>2, <1>5, RecipientsAreWhole
<1>7. InputInv => RecipientsWhole
  BY <1>6 DEF InputInv, RecipientsWhole, fields, nine
<1> QED BY <1>7, InputAlways, PTL

-----------------------------------------------------------------------------
(***************************************************************************)
(* Messages of a mail door's packet. Numbers are digits at the left of a   *)
(* field.                                                                  *)
(***************************************************************************)

\* What parse_qwk_number makes of digits.
ValueOf(digits) == FoldLeft(LAMBDA n, b : 10 * n + b - 48, 0, digits)

\* It takes one after the other.
LEMMA ValueSteps ==
  ASSUME NEW digits \in Seq(Int)
  PROVE  \E w : /\ w \in [0 .. Len(digits) -> Int] /\ w[0] = 0
                /\ \A i \in 1 .. Len(digits) : w[i] = 10 * w[i - 1] + digits[i] - 48
                /\ ValueOf(digits) = w[Len(digits)]
<1> DEFINE n == Len(digits)
           g == [p \in (0 .. n) \X Int |-> IF p[1] = 0 THEN 0 ELSE 10 * p[2] + digits[p[1]] - 48]
           Rhs(f) == [s \in SUBSET (1 .. n) |->
             IF s = {} THEN 0 ELSE 10 * f[s \ {Max(s)}] + digits[Max(s)] - 48]
           ff == CHOOSE f : f = Rhs(f)
<1>1. n \in Nat /\ 0 \in Int
  OBVIOUS
<1>2. \A i \in 1 .. n : \A v \in Int : 10 * v + digits[i] - 48 \in Int
  <2> TAKE i \in 1 .. n
  <2> TAKE v \in Int
  <2>1. digits[i] \in Int
    BY ElementOfSeq
  <2> QED BY <2>1
<1>3. ValueOf(digits) = ff[1 .. n]
  <2>1. DOMAIN digits = 1 .. n
    OBVIOUS
  <2> QED BY <1>1, <2>1 DEF ValueOf, FoldLeft, MapThenFoldSet
<1> HIDE DEF n
<1>4. Steps(n, Int, 0, g)
  <2>1. g \in [(0 .. n) \X Int -> Int]
    <3>1. \A p \in (0 .. n) \X Int : p[1] # 0 => p[1] \in 1 .. n /\ p[2] \in Int
      BY <1>1
    <3>2. \A p \in (0 .. n) \X Int :
            (IF p[1] = 0 THEN 0 ELSE 10 * p[2] + digits[p[1]] - 48) \in Int
      BY <1>1, <1>2, <3>1
    <3> QED BY <3>2
  <2> HIDE DEF g
  <2> QED BY <1>1, <2>1 DEF Steps
<1>5. \A i \in 1 .. n : \A v \in Int : g[<<i, v>>] = 10 * v + digits[i] - 48
  <2> TAKE i \in 1 .. n
  <2> TAKE v \in Int
  <2>1. i \in 0 .. n /\ i # 0
    BY <1>1
  <2>2. <<i, v>> \in (0 .. n) \X Int
    BY <2>1
  <2> QED BY <2>1, <2>2
<1> HIDE DEF g
<1>6. PICK h : IsLeftFold(h, n, Int, 0, g)
  BY <1>4, FoldsLeft
<1>7. h = Rhs(h)
  <2>1. h \in [SUBSET (1 .. n) -> Int] /\ h[{}] = 0
    BY <1>6 DEF IsLeftFold
  <2>2. ASSUME NEW s \in SUBSET (1 .. n), s # {}
        PROVE h[s] = 10 * h[s \ {Max(s)}] + digits[Max(s)] - 48
    <3>1. Max(s) \in 1 .. n /\ h[s] = g[<<Max(s), h[s \ {Max(s)}]>>]
      BY <1>6, <2>2 DEF IsLeftFold
    <3>2. h[s \ {Max(s)}] \in Int
      BY <2>1
    <3> QED BY <1>5, <3>1, <3>2
  <2>3. h = [s \in SUBSET (1 .. n) |->
               IF s = {} THEN 0 ELSE 10 * h[s \ {Max(s)}] + digits[Max(s)] - 48]
    BY <2>1, <2>2
  <2> QED BY <2>3
<1>8. ff = Rhs(ff)
  <2> HIDE DEF Rhs
  <2> QED BY <1>7
<1> HIDE DEF ff
<1>9. FoldsBy(ff, n, Int, 0, g)
  <2>1. ff[{}] = 0
    BY <1>8
  <2>2. ASSUME NEW i \in 1 .. n, ff[1 .. i - 1] \in Int PROVE ff[1 .. i] = g[<<i, ff[1 .. i - 1]>>]
    <3>1. /\ 1 .. i \in SUBSET (1 .. n) /\ 1 .. i # {}
          /\ Max(1 .. i) = i /\ (1 .. i) \ {i} = 1 .. i - 1
      BY <1>1, FoldOfPrefix
    <3>2. ff[1 .. i] = 10 * ff[(1 .. i) \ {Max(1 .. i)}] + digits[Max(1 .. i)] - 48
      BY <1>8, <3>1
    <3> QED BY <1>5, <2>2, <3>1, <3>2
  <2> QED BY <1>4, <2>1, <2>2 DEF FoldsBy
<1>10. PICK w : IsSteps(w, n, Int, 0, g) /\ ff[1 .. n] = w[n]
  BY <1>9, FoldSteps
<1>11. w \in [0 .. n -> Int] /\ w[0] = 0
  BY <1>10 DEF IsSteps
<1>12. \A i \in 1 .. n : w[i] = 10 * w[i - 1] + digits[i] - 48
  <2> TAKE i \in 1 .. n
  <2>1. w[i - 1] \in Int
    BY <1>1, <1>11
  <2> QED BY <1>5, <1>10, <2>1 DEF IsSteps
<1> QED BY <1>3, <1>10, <1>11, <1>12 DEF n

\* One digit more.
LEMMA ValueAppended ==
  ASSUME NEW digits \in Seq(Int), NEW d \in Int
  PROVE  ValueOf(Append(digits, d)) = 10 * ValueOf(digits) + d - 48
<1> DEFINE n == Len(digits)
           more == Append(digits, d)
<1>1. n \in Nat /\ more \in Seq(Int) /\ Len(more) = n + 1
      /\ more[n + 1] = d /\ \A i \in 1 .. n : more[i] = digits[i]
  BY AppendProperties, LenProperties
<1>2. PICK v : /\ v \in [0 .. n -> Int] /\ v[0] = 0
               /\ \A i \in 1 .. n : v[i] = 10 * v[i - 1] + digits[i] - 48
               /\ ValueOf(digits) = v[n]
  BY ValueSteps
<1> HIDE DEF more
<1>3. PICK w : /\ w \in [0 .. Len(more) -> Int] /\ w[0] = 0
               /\ \A i \in 1 .. Len(more) : w[i] = 10 * w[i - 1] + more[i] - 48
               /\ ValueOf(more) = w[Len(more)]
  BY <1>1, ValueSteps
<1> HIDE DEF n
<1>4. /\ \A i \in 1 .. n + 1 : w[i] = 10 * w[i - 1] + more[i] - 48
      /\ ValueOf(more) = w[n + 1]
  BY <1>1, <1>3
<1> DEFINE P == {i \in Nat : i <= n => w[i] = v[i]}
<1>5. 0 \in P
  BY <1>2, <1>3
<1>6. ASSUME NEW i \in Nat, i \in P PROVE i + 1 \in P
  <2> SUFFICES ASSUME i + 1 <= n PROVE w[i + 1] = v[i + 1]
    OBVIOUS
  <2>1. i + 1 \in 1 .. n /\ i + 1 \in 1 .. n + 1 /\ (i + 1) - 1 = i /\ i <= n
    BY <1>1
  <2>2. w[i] = v[i] /\ more[i + 1] = digits[i + 1]
    BY <1>1, <1>6, <2>1
  <2> QED BY <1>2, <1>4, <2>1, <2>2
<1> HIDE DEF P
<1>7. n \in P
  BY <1>1, <1>5, <1>6, NatInduct
<1>8. w[n] = v[n]
  BY <1>1, <1>7 DEF P
<1>9. n + 1 \in 1 .. n + 1 /\ (n + 1) - 1 = n
  BY <1>1
<1> QED BY <1>1, <1>2, <1>4, <1>8, <1>9 DEF more

\* No digits are 0.
LEMMA ValueOfNothing == ValueOf(<< >>) = 0
<1> DEFINE none == << >>
<1>1. none \in Seq(Int) /\ Len(none) = 0
  BY EmptySeq
<1> HIDE DEF none
<1>2. PICK v : /\ v \in [0 .. Len(none) -> Int] /\ v[0] = 0
               /\ \A i \in 1 .. Len(none) : v[i] = 10 * v[i - 1] + none[i] - 48
               /\ ValueOf(none) = v[Len(none)]
  BY <1>1, ValueSteps
<1>3. ValueOf(none) = 0
  BY <1>1, <1>2
<1> QED BY <1>3 DEF none

\* The digits of a number, from those of its tenth.
LEMMA DecimalSteps ==
  ASSUME NEW n \in Nat
  PROVE  \E f : /\ DecimalText(n) = f[n]
                /\ \A m \in 0 .. n : f[m] = IF m < 10 THEN <<48 + m>> ELSE Append(f[m \div 10], 48 + (m % 10))
<1> DEFINE D == 0 .. n
           S == Seq(Int)
           Step(f, m) == IF m < 10 THEN <<48 + m>> ELSE Append(f[m \div 10], 48 + (m % 10))
           Rhs(f) == [m \in D |-> IF m < 10 THEN <<48 + m>> ELSE Append(f[m \div 10], 48 + (m % 10))]
           ff == CHOOSE f : f = Rhs(f)
<1>1. DecimalText(n) = ff[n]
  BY DEF DecimalText
<1>2. \A m \in D : m \in Nat /\ (~(m < 10) => m \div 10 \in D /\ m \div 10 < m)
  OBVIOUS
<1>3. PICK h : h = Rhs(h)
  <2> DEFINE stop == {m \in D : m < 10}
             base == [m \in D |-> <<48 + m>>]
             next == [m \in D |-> IF m < 10 THEN m ELSE m \div 10]
             mu == [m \in D |-> m]
             g == [p \in D \X S |-> Append(p[2], 48 + (p[1] % 10))]
  <2>1. base \in [D -> S]
    <3>1. \A m \in Int : <<m>> \in Seq(Int)
      OBVIOUS
    <3> QED BY <3>1
  <2>2. g \in [D \X S -> S]
    <3>1. \A p \in D \X S : p[1] \in Nat /\ p[2] \in Seq(Int)
      BY <1>2
    <3>2. \A m \in Nat : 48 + (m % 10) \in Int
      OBVIOUS
    <3>3. \A p \in D \X S : 48 + (p[1] % 10) \in Int
      BY <3>1, <3>2
    <3>4. \A p \in D \X S : Append(p[2], 48 + (p[1] % 10)) \in Seq(Int)
      BY <3>1, <3>3, AppendProperties
    <3> HIDE DEF D
    <3> QED BY <3>4
  <2>3. stop \in SUBSET D /\ next \in [D -> D] /\ mu \in [D -> Nat] /\ \A m \in D : mu[m] <= n
    BY <1>2
  <2>4. \A m \in D \ stop : mu[next[m]] < mu[m]
    <3> TAKE m \in D \ stop
    <3>1. m \in Nat /\ ~(m < 10) /\ next[m] = m \div 10 /\ mu[m] = m
      OBVIOUS
    <3>2. m \div 10 \in D /\ m \div 10 < m
      BY <1>2, <3>1
    <3> DEFINE q == m \div 10
    <3>3. mu[q] = q
      BY <3>2
    <3> QED BY <3>1, <3>2, <3>3
  <2>5. GoesDown(D, S, base, g, stop, next, mu, n)
    <3> HIDE DEF D, S, base, g, stop, next, mu
    <3> QED BY <2>1, <2>2, <2>3, <2>4 DEF GoesDown
  <2>6. PICK f \in [D -> S] : \A m \in D : f[m] = IF m \in stop THEN base[m] ELSE g[<<m, f[next[m]]>>]
    <3> HIDE DEF D, S, base, g, stop, next, mu
    <3> QED BY <2>5, Recursion
  <2>7. ASSUME NEW m \in D PROVE f[m] = Step(f, m)
    <3>1. CASE m < 10
      BY <2>6, <3>1
    <3>2. CASE ~(m < 10)
      <4> DEFINE q == m \div 10
      <4>1. q \in D /\ m \notin stop /\ next[m] = q
        BY <1>2, <3>2
      <4>2. f[q] \in S
        <5> HIDE DEF D, S, q
        <5> QED BY <2>6, <4>1
      <4>3. f[m] = g[<<m, f[q]>>]
        <5> HIDE DEF D, S, base, g, stop, next, mu, q
        <5> QED BY <2>6, <4>1
      <4>4. g[<<m, f[q]>>] = Append(f[q], 48 + (m % 10))
        <5> HIDE DEF D, S, q
        <5> QED BY <4>2
      <4> QED BY <3>2, <4>3, <4>4
    <3> QED BY <3>1, <3>2
  <2>8. f = [m \in D |-> Step(f, m)]
    <3> HIDE DEF D, S, Step
    <3> QED BY <2>6, <2>7
  <2> QED BY <2>8
<1>4. ff = Rhs(ff)
  <2> HIDE DEF Rhs
  <2> QED BY <1>3
<1> HIDE DEF ff
<1>5. \A m \in D : ff[m] = Step(ff, m)
  <2> HIDE DEF D
  <2> QED BY <1>4
<1> QED BY <1>1, <1>5

\* Digits in a text, and the number they are.
IsDecimal(s, m) == s \in Seq(DigitBytes) /\ Len(s) \in Nat /\ Len(s) > 0 /\ ValueOf(s) = m

\* A number is written as digits that are read as it.
LEMMA DecimalDigits ==
  ASSUME NEW n \in Nat
  PROVE  \E f : /\ DecimalText(n) = f[n]
                /\ \A m \in 0 .. n : f[m] = IF m < 10 THEN <<48 + m>> ELSE Append(f[m \div 10], 48 + (m % 10))
                /\ \A m \in 0 .. n : IsDecimal(f[m], m)
<1> DEFINE D == 0 .. n
<1>1. PICK f : /\ DecimalText(n) = f[n]
               /\ \A m \in D : f[m] = IF m < 10 THEN <<48 + m>> ELSE Append(f[m \div 10], 48 + (m % 10))
  BY DecimalSteps
<1>2. \A m \in D : /\ m \in Nat
                   /\ ~(m < 10) => m \div 10 \in D /\ m \div 10 < m /\ m % 10 \in 0 .. 9
                                   /\ m = 10 * (m \div 10) + (m % 10)
  OBVIOUS
<1>3. DigitBytes \subseteq Int /\ \A m \in 0 .. 9 : 48 + m \in DigitBytes
  BY DEF DigitBytes
<1> DEFINE P == {k \in Nat : \A m \in D : m < k => IsDecimal(f[m], m)}
<1>4. 0 \in P
  BY <1>2
<1>5. ASSUME NEW k \in Nat, k \in P PROVE k + 1 \in P
  <2> SUFFICES ASSUME NEW m \in D, m < k + 1 PROVE IsDecimal(f[m], m)
    OBVIOUS
  <2>1. CASE m < 10
    <3> DEFINE none == << >>
               d == 48 + m
    <3>1. f[m] = <<d>> /\ d \in DigitBytes /\ d \in Int
      <4>1. m \in 0 .. 9
        BY <1>2, <2>1
      <4>2. d \in DigitBytes /\ d \in Int
        BY <1>3, <4>1
      <4>3. f[m] = <<d>>
        <5> HIDE DEF D
        <5> QED BY <1>1, <2>1
      <4> QED BY <4>2, <4>3
    <3>2. d - 48 = m
      BY <1>2
    <3> HIDE DEF d
    <3>3. <<d>> \in Seq(DigitBytes) /\ Len(<<d>>) = 1 /\ <<d>> = Append(none, d)
      BY <3>1
    <3>4. none \in Seq(Int) /\ ValueOf(none) = 0
      BY ValueOfNothing
    <3> HIDE DEF none
    <3>5. ValueOf(Append(none, d)) = 10 * ValueOf(none) + d - 48
      BY <3>1, <3>4, ValueAppended
    <3>6. ValueOf(<<d>>) = m
      <4>1. ValueOf(Append(none, d)) = m
        BY <3>1, <3>2, <3>4, <3>5
      <4> QED BY <3>3, <4>1, Zenon
    <3> QED BY <3>1, <3>3, <3>6 DEF IsDecimal
  <2>2. CASE ~(m < 10)
    <3> DEFINE q == m \div 10
               r == 48 + (m % 10)
               s == f[q]
    <3>1. m \in Nat /\ q \in D /\ q < m /\ q \in Nat /\ r \in DigitBytes /\ m = 10 * q + r - 48
      BY <1>2, <1>3, <2>2
    <3>2. f[m] = Append(s, r)
      BY <1>1, <2>2
    <3> HIDE DEF q, r
    <3>3. q < k
      BY <3>1
    <3>4. IsDecimal(s, q)
      <4> HIDE DEF D
      <4> QED BY <1>5, <3>1, <3>3
    <3> HIDE DEF s
    <3>5. s \in Seq(DigitBytes) /\ Len(s) \in Nat /\ ValueOf(s) = q
      BY <3>4 DEF IsDecimal
    <3>6. Append(s, r) \in Seq(DigitBytes) /\ Len(Append(s, r)) = Len(s) + 1
      BY <3>1, <3>5, AppendProperties
    <3>7. s \in Seq(Int) /\ r \in Int
      BY <1>3, <3>1, <3>5, SeqMonotonic
    <3>8. ValueOf(Append(s, r)) = 10 * ValueOf(s) + r - 48
      BY <3>7, ValueAppended
    <3>9. IsDecimal(Append(s, r), m)
      BY <3>1, <3>5, <3>6, <3>8 DEF IsDecimal
    <3> QED BY <3>2, <3>9
  <2> QED BY <2>1, <2>2
<1> HIDE DEF P
<1>6. \A k \in Nat : k \in P
  BY <1>4, <1>5, NatInduct
<1>7. \A m \in D : IsDecimal(f[m], m)
  <2>1. \A m \in D : m + 1 \in Nat /\ m < m + 1
    OBVIOUS
  <2> HIDE DEF D
  <2> QED BY <1>6, <2>1 DEF P
<1> QED BY <1>1, <1>7

\* In particular the whole of it.
LEMMA DecimalReadBack == ASSUME NEW n \in Nat PROVE IsDecimal(DecimalText(n), n)
<1>1. n \in 0 .. n
  OBVIOUS
<1> QED BY <1>1, DecimalDigits

\* A number below 10^7 has at most seven digits, one below 10 has one.
LEMMA DecimalLen ==
  ASSUME NEW n \in Nat
  PROVE  /\ n < 10 => Len(DecimalText(n)) <= 1
         /\ n < 10000000 => Len(DecimalText(n)) <= 7
<1> DEFINE D == 0 .. n
<1>1. PICK f : /\ DecimalText(n) = f[n]
               /\ \A m \in D : f[m] = IF m < 10 THEN <<48 + m>> ELSE Append(f[m \div 10], 48 + (m % 10))
               /\ \A m \in D : IsDecimal(f[m], m)
  BY DecimalDigits
<1> DEFINE L(m) == Len(f[m])
<1>2. \A m \in D : m < 10 => L(m) = 1
  <2> TAKE m \in D
  <2> HAVE m < 10
  <2>1. f[m] = <<48 + m>>
    <3> HIDE DEF D
    <3> QED BY <1>1
  <2> DEFINE d == 48 + m
  <2> HIDE DEF d
  <2>2. Len(<<d>>) = 1
    OBVIOUS
  <2> QED BY <2>1, <2>2 DEF d
<1>3. \A m \in D : ~(m < 10) => m \div 10 \in D /\ L(m) = L(m \div 10) + 1
  <2> TAKE m \in D
  <2> HAVE ~(m < 10)
  <2> DEFINE q == m \div 10
             d == 48 + (m % 10)
  <2>1. q \in D /\ d \in Int
    OBVIOUS
  <2>2. f[m] = Append(f[q], d)
    <3> HIDE DEF D
    <3> QED BY <1>1
  <2>3. f[q] \in Seq(DigitBytes)
    <3> HIDE DEF D, q
    <3> QED BY <1>1, <2>1 DEF IsDecimal
  <2>4. f[q] \in Seq(Int)
    <3>1. DigitBytes \subseteq Int
      BY DEF DigitBytes
    <3> QED BY <2>3, <3>1, SeqMonotonic
  <2> HIDE DEF d, q
  <2>5. Len(Append(f[q], d)) = Len(f[q]) + 1
    BY <2>1, <2>4, AppendProperties
  <2> QED BY <2>1, <2>2, <2>5 DEF q
<1>4. \A m \in D : m \in Nat /\ (m < 100 => m \div 10 < 10) /\ (m < 1000 => m \div 10 < 100)
        /\ (m < 10000 => m \div 10 < 1000) /\ (m < 100000 => m \div 10 < 10000)
        /\ (m < 1000000 => m \div 10 < 100000) /\ (m < 10000000 => m \div 10 < 1000000)
  BY SMT
<1>5. n \in D
  OBVIOUS
<1> HIDE DEF D, L
<1>6. \A m \in D : m < 10 => L(m) \in 0 .. 1
  BY <1>2
<1>7. \A m \in D : m < 100 => L(m) \in 0 .. 2
  BY <1>3, <1>4, <1>6, SMT
<1>8. \A m \in D : m < 1000 => L(m) \in 0 .. 3
  BY <1>3, <1>4, <1>6, <1>7, SMT
<1>9. \A m \in D : m < 10000 => L(m) \in 0 .. 4
  BY <1>3, <1>4, <1>6, <1>8, SMT
<1>10. \A m \in D : m < 100000 => L(m) \in 0 .. 5
  BY <1>3, <1>4, <1>6, <1>9, SMT
<1>11. \A m \in D : m < 1000000 => L(m) \in 0 .. 6
  BY <1>3, <1>4, <1>6, <1>10, SMT
<1>12. \A m \in D : m < 10000000 => L(m) \in 0 .. 7
  BY <1>3, <1>4, <1>6, <1>11, SMT
<1>13. (n < 10 => L(n) \in 0 .. 1) /\ (n < 10000000 => L(n) \in 0 .. 7)
  BY <1>5, <1>6, <1>12, SMT
<1>14. Len(DecimalText(n)) = L(n)
  BY <1>1 DEF L
<1> HIDE DEF L
<1> QED BY <1>13, <1>14, SMT

\* A field of n bytes that holds s at its left, and blanks behind it.
IsAligned(a, s, n) ==
  /\ a \in Seq(Int) /\ s \in Seq(Int) /\ n \in Nat /\ Len(s) \in Nat /\ Len(a) = n /\ Len(s) <= n
  /\ \A i \in 1 .. Len(s) : a[i] = s[i]
  /\ \A i \in Len(s) + 1 .. n : a[i] = Space

\* Blanks are a sequence of them.
LEMMA BlanksAre ==
  ASSUME NEW n \in Nat
  PROVE  Blanks(n) \in Seq(Int) /\ Len(Blanks(n)) = n /\ \A i \in 1 .. n : Blanks(n)[i] = Space
<1> DEFINE b == Blanks(n)
<1>1. b \in [1 .. n -> Int] /\ \A i \in 1 .. n : b[i] = Space
  BY DEF Blanks, Space
<1> HIDE DEF b
<1>2. b \in Seq(Int) /\ Len(b) = n
  BY <1>1, RowIsSeq
<1> QED BY <1>1, <1>2 DEF b

\* Texts are aligned in this way.
LEMMA AlignedIs ==
  ASSUME NEW s \in Seq(Int), NEW n \in Nat, Len(s) <= n
  PROVE  IsAligned(LeftAligned(s, n), s, n)
<1> DEFINE k == Len(s)
           m == n - k
           b == Blanks(m)
           a == s \o b
<1>1. k \in Nat /\ m \in Nat /\ k + m = n
  OBVIOUS
<1>2. LeftAligned(s, n) = a
  BY DEF LeftAligned
<1> HIDE DEF m
<1>3. b \in Seq(Int) /\ Len(b) = m /\ \A i \in 1 .. m : b[i] = Space
  BY <1>1, BlanksAre
<1> HIDE DEF b
<1>4. /\ a \in Seq(Int) /\ Len(a) = k + Len(b)
      /\ \A i \in 1 .. k : a[i] = s[i]
      /\ \A i \in 1 .. Len(b) : a[k + i] = b[i]
  BY <1>3, Joined
<1> HIDE DEF a
<1>5. \A i \in k + 1 .. n : a[i] = Space
  <2> TAKE i \in k + 1 .. n
  <2>1. i - k \in 1 .. m /\ k + (i - k) = i
    BY <1>1
  <2> QED BY <1>3, <1>4, <2>1
<1>6. Len(a) = n
  BY <1>1, <1>3, <1>4
<1> HIDE DEF k
<1>7. IsAligned(a, s, n)
  BY <1>1, <1>4, <1>5, <1>6 DEF IsAligned, k
<1> QED BY <1>2, <1>7

\* So are those that resize fills up; it cuts the others.
LEMMA ResizedIs ==
  ASSUME NEW s \in Seq(Int), NEW n \in Nat
  PROVE  /\ Resized(s, n) \in Seq(Int) /\ Len(Resized(s, n)) = n
         /\ Len(s) <= n => IsAligned(Resized(s, n), s, n)
<1> DEFINE k == Len(s)
           b == Blanks(n)
           c == s \o b
           a == SubSeq(c, 1, n)
<1>1. k \in Nat /\ Resized(s, n) = a
  BY DEF Resized
<1>2. b \in Seq(Int) /\ Len(b) = n /\ \A i \in 1 .. n : b[i] = Space
  BY BlanksAre
<1> HIDE DEF b
<1>3. /\ c \in Seq(Int) /\ Len(c) = k + n
      /\ \A i \in 1 .. k : c[i] = s[i]
      /\ \A i \in 1 .. n : c[k + i] = b[i]
  <2>1. /\ c \in Seq(Int) /\ Len(c) = k + Len(b)
        /\ \A i \in 1 .. k : c[i] = s[i]
        /\ \A i \in 1 .. Len(b) : c[k + i] = b[i]
    <3>1. b \in Seq(Int)
      BY <1>2
    <3> QED BY <3>1, Joined
  <2> HIDE DEF c
  <2> QED BY <1>2, <2>1
<1> HIDE DEF c, k
<1>4. \A i \in 1 .. n : c[i] \in Int
  <2>1. \A i \in 1 .. n : i \in 1 .. Len(c)
    BY <1>1, <1>3
  <2> QED BY <1>3, <2>1, ElementOfSeq
<1>5. a \in Seq(Int) /\ Len(a) = n /\ \A i \in 1 .. n : a[i] = c[i]
  <2>1. 1 \in Int /\ n \in Int /\ n - 1 + 1 = n /\ (IF 1 <= n THEN n - 1 + 1 ELSE 0) = n
        /\ \A i \in 1 .. n : 1 + i - 1 = i
    OBVIOUS
  <2>2. /\ a \in Seq(Int)
        /\ Len(a) = IF 1 <= n THEN n - 1 + 1 ELSE 0
        /\ \A i \in 1 .. n - 1 + 1 : a[i] = c[1 + i - 1]
    BY <1>4, <2>1, SubSeqProperties
  <2> HIDE DEF a
  <2> QED BY <2>1, <2>2
<1> HIDE DEF a
<1>6. ASSUME k <= n PROVE IsAligned(a, s, n)
  <2>1. \A i \in 1 .. k : a[i] = s[i]
    BY <1>1, <1>3, <1>5, <1>6
  <2>2. \A i \in k + 1 .. n : a[i] = Space
    <3> TAKE i \in k + 1 .. n
    <3>1. i - k \in 1 .. n /\ k + (i - k) = i /\ i \in 1 .. n
      BY <1>1
    <3> QED BY <1>2, <1>3, <1>5, <3>1
  <2> QED BY <1>1, <1>5, <1>6, <2>1, <2>2 DEF IsAligned, k
<1> QED BY <1>1, <1>5, <1>6 DEF k

\* What stands in a field as long as it does is what the field begins with.
LEMMA AlignedStart ==
  ASSUME NEW a, NEW s, NEW n, IsAligned(a, s, n)
  PROVE  SubSeq(a, 1, Len(s)) = s
<1> DEFINE k == Len(s)
           c == SubSeq(a, 1, k)
<1>1. k \in Nat /\ s \in Seq(Int) /\ a \in Seq(Int) /\ \A i \in 1 .. k : a[i] = s[i] /\ a[i] \in Int
  <2>1. \A i \in 1 .. k : i \in 1 .. Len(a)
    BY DEF IsAligned
  <2> QED BY <2>1, ElementOfSeq DEF IsAligned
<1>2. c \in Seq(Int) /\ Len(c) = k /\ \A i \in 1 .. k : c[i] = a[i]
  <2> HIDE DEF k
  <2>1. 1 \in Int /\ k \in Int /\ k - 1 + 1 = k /\ (IF 1 <= k THEN k - 1 + 1 ELSE 0) = k
        /\ \A i \in 1 .. k : 1 + i - 1 = i
    BY <1>1
  <2>2. /\ c \in Seq(Int)
        /\ Len(c) = IF 1 <= k THEN k - 1 + 1 ELSE 0
        /\ \A i \in 1 .. k - 1 + 1 : c[i] = a[1 + i - 1]
    BY <1>1, <2>1, SubSeqProperties
  <2> HIDE DEF c
  <2> QED BY <2>1, <2>2
<1> HIDE DEF c
<1>3. c = s
  BY <1>1, <1>2, SeqEqual
<1> QED BY <1>3 DEF c

\* parse_qwk_number reads the number that stands at the left of a field.
LEMMA NumberIsRead ==
  ASSUME NEW a, NEW s, NEW n, NEW m, IsAligned(a, s, n), IsDecimal(s, m)
  PROVE  IsQwkNumber(a) /\ ParseQwkNumber(a) = m
<1> DEFINE k == Len(s)
           I == {i \in 1 .. Len(a) : a[i] \in {Space, 0}}
           end == IF I # {} THEN Min(I) ELSE 0
<1>1. /\ k \in Nat /\ n \in Nat /\ k <= n /\ Len(a) = n /\ a \in Seq(Int)
      /\ \A i \in 1 .. k : a[i] = s[i]
      /\ \A i \in k + 1 .. n : a[i] = Space
  BY DEF IsAligned
<1>2. s \in Seq(DigitBytes) /\ ValueOf(s) = m
  BY DEF IsDecimal
<1>3. \A i \in 1 .. k : a[i] \notin {Space, 0}
  <2>1. \A i \in 1 .. k : s[i] \in DigitBytes
    BY <1>2, ElementOfSeq
  <2>2. \A x \in DigitBytes : x \notin {Space, 0}
    BY DEF DigitBytes, Space
  <2> QED BY <1>1, <2>1, <2>2
<1>4. SelectInSeq(a, LAMBDA b : b \in {Space, 0}) = end
  BY DEF SelectInSeq
<1> HIDE DEF k
<1>5. (IF end = 0 THEN Len(a) ELSE end - 1) = k
  <2>1. CASE k = n
    <3>1. I = {}
      BY <1>1, <1>3, <2>1
    <3> QED BY <1>1, <2>1, <3>1
  <2>2. CASE k # n
    <3>1. k + 1 \in 1 .. n /\ k + 1 \in k + 1 .. n
      BY <1>1, <2>2
    <3>2. k + 1 \in I /\ I \in SUBSET (1 .. n) /\ \A i \in I : k + 1 <= i
      BY <1>1, <1>3, <3>1
    <3> HIDE DEF I
    <3>3. Min(I) \in I /\ \A x \in I : Min(I) <= x
      <4>1. I # {}
        BY <3>2
      <4> QED BY <1>1, <3>2, <4>1, MinOf
    <3>4. Min(I) = k + 1
      <4> DEFINE x == Min(I)
      <4>0. x \in I /\ \A i \in I : x <= i
        BY <3>3
      <4> HIDE DEF x
      <4>1. k + 1 <= x /\ x <= k + 1 /\ x \in 1 .. n
        BY <3>2, <4>0
      <4> QED BY <1>1, <4>1 DEF x
    <3>5. end = k + 1
      BY <3>2, <3>4
    <3> QED BY <1>1, <3>5
  <2> QED BY <2>1, <2>2
<1> HIDE DEF end
<1>6. NumberDigits(a) = SubSeq(a, 1, k)
  BY <1>4, <1>5 DEF NumberDigits
<1>7. NumberDigits(a) = s
  BY <1>6, AlignedStart DEF k
<1>8. IsQwkNumber(a)
  <2>1. ToSet(s) \subseteq DigitBytes
    BY <1>2 DEF ToSet
  <2> QED BY <1>7, <2>1 DEF IsQwkNumber
<1>9. ParseQwkNumber(a) = ValueOf(NumberDigits(a))
  BY DEF ParseQwkNumber, ValueOf
<1> QED BY <1>2, <1>7, <1>8, <1>9

\* convert_pcboard_str gives what stands at the left of a field.
LEMMA NameIsRead ==
  ASSUME NEW a, NEW s, NEW n, IsAligned(a, s, n), Len(s) > 0 => s[Len(s)] # Space
  PROVE  TrimmedName(a) = s
<1> DEFINE k == Len(s)
           I == {i \in 1 .. Len(a) : a[i] # Space}
           last == IF I # {} THEN Max(I) ELSE 0
<1>1. /\ k \in Nat /\ n \in Nat /\ k <= n /\ Len(a) = n /\ a \in Seq(Int)
      /\ \A i \in 1 .. k : a[i] = s[i]
      /\ \A i \in k + 1 .. n : a[i] = Space
  BY DEF IsAligned
<1>2. k > 0 => a[k] # Space
  <2>1. k > 0 => k \in 1 .. k
    BY <1>1
  <2> QED BY <1>1, <2>1
<1>3. SelectLastInSeq(a, LAMBDA b : b # Space) = last
  BY DEF SelectLastInSeq
<1> HIDE DEF k
<1>4. I \in SUBSET (1 .. n) /\ (\A i \in I : i <= k) /\ (k > 0 => k \in I)
  <2>1. \A i \in I : i \in 1 .. n /\ i \notin k + 1 .. n
    BY <1>1
  <2>2. \A i \in I : i <= k
    BY <1>1, <2>1
  <2>3. k > 0 => k \in 1 .. Len(a)
    BY <1>1
  <2> QED BY <1>2, <2>1, <2>2, <2>3
<1> HIDE DEF I
<1>5. last = k
  <2>1. CASE I = {}
    BY <1>1, <1>4, <2>1
  <2>2. CASE I # {}
    <3>1. Max(I) \in I /\ \A x \in I : x <= Max(I)
      BY <1>1, <1>4, <2>2, MaxOf
    <3>2. Max(I) <= k /\ Max(I) \in 1 .. n
      BY <1>4, <3>1
    <3>3. k \in I
      BY <1>1, <1>4, <3>2
    <3>4. k <= Max(I)
      BY <3>1, <3>3
    <3> QED BY <1>1, <2>2, <3>2, <3>4
  <2> QED BY <2>1, <2>2
<1> HIDE DEF last
<1>6. TrimmedName(a) = SubSeq(a, 1, k)
  BY <1>3, <1>5 DEF TrimmedName
<1> QED BY <1>6, AlignedStart DEF k

-----------------------------------------------------------------------------
(***************************************************************************)
(* Fields of known lengths, one behind the other, are read where they      *)
(* stand.                                                                  *)
(***************************************************************************)

\* A piece of n bytes.
IsPiece(p, n) == p \in Seq(Int) /\ n \in Nat /\ Len(p) = n

\* One that stands in the data behind the first bytes.
Stands(data, first, p) ==
  /\ data \in Seq(Int) /\ p \in Seq(Int) /\ first \in Nat /\ first + Len(p) <= Len(data)
  /\ \A j \in 1 .. Len(p) : data[first + j] = p[j]

\* A piece that is put behind others leaves them where they stand.
LEMMA StandsOn ==
  ASSUME NEW d, NEW first, NEW q, Stands(d, first, q), NEW p \in Seq(Int)
  PROVE  Stands(d \o p, first, q)
<1> DEFINE c == d \o p
<1>1. d \in Seq(Int) /\ q \in Seq(Int) /\ first \in Nat /\ Len(q) \in Nat /\ Len(d) \in Nat /\ Len(p) \in Nat
  BY LenProperties DEF Stands
<1>2. c \in Seq(Int) /\ Len(c) = Len(d) + Len(p) /\ \A i \in 1 .. Len(d) : c[i] = d[i]
  BY <1>1, Joined
<1> HIDE DEF c
<1>3. first + Len(q) <= Len(d) /\ \A j \in 1 .. Len(q) : d[first + j] = q[j]
  BY DEF Stands
<1>4. first + Len(q) <= Len(c)
  BY <1>1, <1>2, <1>3
<1>5. \A j \in 1 .. Len(q) : c[first + j] = q[j]
  <2> TAKE j \in 1 .. Len(q)
  <2>1. first + j \in 1 .. Len(d)
    BY <1>1, <1>3
  <2> QED BY <1>2, <1>3, <2>1
<1> QED BY <1>1, <1>2, <1>4, <1>5 DEF Stands, c

\* It stands behind them.
LEMMA StandsBehind ==
  ASSUME NEW d \in Seq(Int), NEW p \in Seq(Int)
  PROVE  Stands(d \o p, Len(d), p)
<1>1. Len(d) \in Nat /\ Len(p) \in Nat
  OBVIOUS
<1>2. d \o p \in Seq(Int) /\ Len(d \o p) = Len(d) + Len(p) /\ \A i \in 1 .. Len(p) : (d \o p)[Len(d) + i] = p[i]
  BY Joined
<1> QED BY <1>1, <1>2 DEF Stands

\* l bytes of data, with the pieces in R.
Laid(d, l, R) ==
  /\ d \in Seq(Int) /\ l \in Nat /\ Len(d) = l
  /\ \A r \in R : Stands(d, r[1], r[2])

\* Data are laid out piece by piece.
LEMMA LaidOn ==
  ASSUME NEW d, NEW l, NEW R, NEW p, NEW n, Laid(d, l, R), IsPiece(p, n)
  PROVE  Laid(d \o p, l + n, R \cup {<<l, p>>})
<1> DEFINE c == d \o p
<1>1. d \in Seq(Int) /\ p \in Seq(Int) /\ l \in Nat /\ n \in Nat
  BY DEF Laid, IsPiece
<1>2. \A r \in R : Stands(c, r[1], r[2])
  BY <1>1, StandsOn DEF Laid
<1>3. Len(d) = l /\ Len(p) = n
  BY DEF Laid, IsPiece
<1>4. Stands(c, l, p)
  BY <1>1, <1>3, StandsBehind
<1>5. c \in Seq(Int) /\ Len(c) = l + n
  BY <1>1, <1>3, ConcatProperties
<1> HIDE DEF c
<1>6. \A r \in R \cup {<<l, p>>} : Stands(c, r[1], r[2])
  <2>1. \A x, y : <<x, y>>[1] = x /\ <<x, y>>[2] = y
    OBVIOUS
  <2> DEFINE e == <<l, p>>
  <2>2. e[1] = l /\ e[2] = p
    BY <2>1
  <2> HIDE DEF e
  <2>3. \A r \in R \cup {e} : Stands(c, r[1], r[2])
    BY <1>2, <1>4, <2>2
  <2> QED BY <2>3 DEF e
<1>7. l + n \in Nat
  BY <1>1
<1> QED BY <1>5, <1>6, <1>7 DEF Laid, c

\* n bytes of the data behind the first ones.
At(data, first, n) == SubSeq(data, first + 1, first + n)

\* A piece is what is read where it stands.
LEMMA PieceIsRead ==
  ASSUME NEW data, NEW first, NEW p, NEW n, Stands(data, first, p), IsPiece(p, n)
  PROVE  At(data, first, n) = p
<1> DEFINE c == At(data, first, n)
<1>1. /\ data \in Seq(Int) /\ p \in Seq(Int) /\ first \in Nat /\ n \in Nat /\ Len(data) \in Nat
      /\ Len(p) = n /\ first + n <= Len(data) /\ \A j \in 1 .. n : data[first + j] = p[j]
  BY LenProperties DEF Stands, IsPiece
<1>2. /\ first + 1 \in Int /\ first + n \in Int /\ (first + n) - (first + 1) + 1 = n
      /\ (IF first + 1 <= first + n THEN (first + n) - (first + 1) + 1 ELSE 0) = n
      /\ \A j \in 1 .. n : (first + 1) + j - 1 = first + j
      /\ \A i \in first + 1 .. first + n : i \in 1 .. Len(data)
  <2>1. first \in Nat /\ n \in Nat /\ Len(data) \in Nat /\ first + n <= Len(data)
    BY <1>1
  <2> DEFINE l == Len(data)
  <2> HIDE DEF l
  <2>2. \A i \in first + 1 .. first + n : i \in 1 .. l
    BY <2>1 DEF l
  <2>3. /\ first + 1 \in Int /\ first + n \in Int /\ (first + n) - (first + 1) + 1 = n
        /\ (IF first + 1 <= first + n THEN (first + n) - (first + 1) + 1 ELSE 0) = n
        /\ \A j \in 1 .. n : (first + 1) + j - 1 = first + j
    BY <2>1
  <2> QED BY <2>2, <2>3 DEF l
<1>3. \A i \in first + 1 .. first + n : data[i] \in Int
  <2>1. data \in Seq(Int)
    BY <1>1
  <2> QED BY <1>2, <2>1, ElementOfSeq
<1>4. /\ c \in Seq(Int)
      /\ Len(c) = IF first + 1 <= first + n THEN (first + n) - (first + 1) + 1 ELSE 0
      /\ \A j \in 1 .. (first + n) - (first + 1) + 1 : c[j] = data[(first + 1) + j - 1]
  <2>1. first + 1 \in Int /\ first + n \in Int
    BY <1>2
  <2> QED BY <1>3, <2>1, SubSeqProperties DEF At
<1> HIDE DEF c
<1>5. Len(c) = n /\ \A j \in 1 .. n : c[j] = p[j]
  BY <1>1, <1>2, <1>4
<1>6. c = p
  BY <1>1, <1>4, <1>5, SeqEqual
<1> QED BY <1>6 DEF c

\* The fourteen pieces of a message, the last of them its text.
ArePieces(p1, p2, p3, p4, p5, p6, p7, p8, p9, p10, p11, p12, p13, p14, k) ==
  /\ IsPiece(p1, 1) /\ IsPiece(p2, 7) /\ IsPiece(p3, 13) /\ IsPiece(p4, 25)
  /\ IsPiece(p5, 25) /\ IsPiece(p6, 25) /\ IsPiece(p7, 12) /\ IsPiece(p8, 8)
  /\ IsPiece(p9, 6) /\ IsPiece(p10, 1) /\ IsPiece(p11, 2) /\ IsPiece(p12, 2)
  /\ IsPiece(p13, 1) /\ IsPiece(p14, k)

\* One behind the other, they are the message.
AllPieces(p1, p2, p3, p4, p5, p6, p7, p8, p9, p10, p11, p12, p13, p14) ==
  p1 \o p2 \o p3 \o p4 \o p5 \o p6 \o p7 \o p8 \o p9 \o p10 \o p11 \o p12 \o p13 \o p14

\* Each of them is read where the fields of a message are.
LEMMA PiecesAreRead ==
  ASSUME NEW p1, NEW p2, NEW p3, NEW p4, NEW p5, NEW p6, NEW p7,
         NEW p8, NEW p9, NEW p10, NEW p11, NEW p12, NEW p13, NEW p14, NEW k,
         ArePieces(p1, p2, p3, p4, p5, p6, p7, p8, p9, p10, p11, p12, p13, p14, k)
  PROVE  LET d == AllPieces(p1, p2, p3, p4, p5, p6, p7, p8, p9, p10, p11, p12, p13, p14)
         IN /\ d \in Seq(Int) /\ k \in Nat /\ Len(d) = 128 + k
            /\ At(d, 0, 1) = p1 /\ At(d, 1, 7) = p2 /\ At(d, 8, 13) = p3 /\ At(d, 21, 25) = p4
            /\ At(d, 46, 25) = p5 /\ At(d, 71, 25) = p6 /\ At(d, 96, 12) = p7 /\ At(d, 108, 8) = p8
            /\ At(d, 116, 6) = p9 /\ At(d, 122, 1) = p10 /\ At(d, 123, 2) = p11 /\ At(d, 125, 2) = p12
            /\ At(d, 127, 1) = p13 /\ At(d, 128, k) = p14
            /\ d[1] = p1[1] /\ d[123] = p10[1] /\ d[128] = p13[1]
<1> DEFINE d1 == p1
           d2 == d1 \o p2
           d3 == d2 \o p3
           d4 == d3 \o p4
           d5 == d4 \o p5
           d6 == d5 \o p6
           d7 == d6 \o p7
           d8 == d7 \o p8
           d9 == d8 \o p9
           d10 == d9 \o p10
           d11 == d10 \o p11
           d12 == d11 \o p12
           d13 == d12 \o p13
           d14 == d13 \o p14
           R1 == {<<0, p1>>}
           R2 == R1 \cup {<<1, p2>>}
           R3 == R2 \cup {<<8, p3>>}
           R4 == R3 \cup {<<21, p4>>}
           R5 == R4 \cup {<<46, p5>>}
           R6 == R5 \cup {<<71, p6>>}
           R7 == R6 \cup {<<96, p7>>}
           R8 == R7 \cup {<<108, p8>>}
           R9 == R8 \cup {<<116, p9>>}
           R10 == R9 \cup {<<122, p10>>}
           R11 == R10 \cup {<<123, p11>>}
           R12 == R11 \cup {<<125, p12>>}
           R13 == R12 \cup {<<127, p13>>}
           R14 == R13 \cup {<<128, p14>>}
<1>0. /\ IsPiece(p1, 1) /\ IsPiece(p2, 7) /\ IsPiece(p3, 13) /\ IsPiece(p4, 25)
      /\ IsPiece(p5, 25) /\ IsPiece(p6, 25) /\ IsPiece(p7, 12) /\ IsPiece(p8, 8)
      /\ IsPiece(p9, 6) /\ IsPiece(p10, 1) /\ IsPiece(p11, 2) /\ IsPiece(p12, 2)
      /\ IsPiece(p13, 1) /\ IsPiece(p14, k)
  BY DEF ArePieces
<1> DEFINE d == AllPieces(p1, p2, p3, p4, p5, p6, p7, p8, p9, p10, p11, p12, p13, p14)
<1>d. d = d14
  BY DEF AllPieces
<1> HIDE DEF d
<1>1. Laid(d1, 1, R1)
  <2>1. p1 \in Seq(Int) /\ Len(p1) = 1
    BY <1>0 DEF IsPiece
  <2>2. \A x, y : <<x, y>>[1] = x /\ <<x, y>>[2] = y
    OBVIOUS
  <2> DEFINE e == <<0, p1>>
  <2>3. e[1] = 0 /\ e[2] = p1
    BY <2>2
  <2>4. Stands(p1, 0, p1)
    BY <2>1 DEF Stands
  <2> HIDE DEF e
  <2>5. \A r \in {e} : Stands(p1, r[1], r[2])
    BY <2>3, <2>4
  <2> QED BY <2>1, <2>5 DEF Laid, e
<1> HIDE DEF d1, R1
<1>2. Laid(d2, 8, R2)
  <2>1. Laid(d1 \o p2, 1 + 7, R1 \cup {<<1, p2>>})
    BY <1>0, <1>1, LaidOn
  <2>2. 1 + 7 = 8
    OBVIOUS
  <2> QED BY <2>1, <2>2
<1> HIDE DEF d2, R2
<1>3. Laid(d3, 21, R3)
  <2>1. Laid(d2 \o p3, 8 + 13, R2 \cup {<<8, p3>>})
    BY <1>0, <1>2, LaidOn
  <2>2. 8 + 13 = 21
    OBVIOUS
  <2> QED BY <2>1, <2>2
<1> HIDE DEF d3, R3
<1>4. Laid(d4, 46, R4)
  <2>1. Laid(d3 \o p4, 21 + 25, R3 \cup {<<21, p4>>})
    BY <1>0, <1>3, LaidOn
  <2>2. 21 + 25 = 46
    OBVIOUS
  <2> QED BY <2>1, <2>2
<1> HIDE DEF d4, R4
<1>5. Laid(d5, 71, R5)
  <2>1. Laid(d4 \o p5, 46 + 25, R4 \cup {<<46, p5>>})
    BY <1>0, <1>4, LaidOn
  <2>2. 46 + 25 = 71
    OBVIOUS
  <2> QED BY <2>1, <2>2
<1> HIDE DEF d5, R5
<1>6. Laid(d6, 96, R6)
  <2>1. Laid(d5 \o p6, 71 + 25, R5 \cup {<<71, p6>>})
    BY <1>0, <1>5, LaidOn
  <2>2. 71 + 25 = 96
    OBVIOUS
  <2> QED BY <2>1, <2>2
<1> HIDE DEF d6, R6
<1>7. Laid(d7, 108, R7)
  <2>1. Laid(d6 \o p7, 96 + 12, R6 \cup {<<96, p7>>})
    BY <1>0, <1>6, LaidOn
  <2>2. 96 + 12 = 108
    OBVIOUS
  <2> QED BY <2>1, <2>2
<1> HIDE DEF d7, R7
<1>8. Laid(d8, 116, R8)
  <2>1. Laid(d7 \o p8, 108 + 8, R7 \cup {<<108, p8>>})
    BY <1>0, <1>7, LaidOn
  <2>2. 108 + 8 = 116
    OBVIOUS
  <2> QED BY <2>1, <2>2
<1> HIDE DEF d8, R8
<1>9. Laid(d9, 122, R9)
  <2>1. Laid(d8 \o p9, 116 + 6, R8 \cup {<<116, p9>>})
    BY <1>0, <1>8, LaidOn
  <2>2. 116 + 6 = 122
    OBVIOUS
  <2> QED BY <2>1, <2>2
<1> HIDE DEF d9, R9
<1>10. Laid(d10, 123, R10)
  <2>1. Laid(d9 \o p10, 122 + 1, R9 \cup {<<122, p10>>})
    BY <1>0, <1>9, LaidOn
  <2>2. 122 + 1 = 123
    OBVIOUS
  <2> QED BY <2>1, <2>2
<1> HIDE DEF d10, R10
<1>11. Laid(d11, 125, R11)
  <2>1. Laid(d10 \o p11, 123 + 2, R10 \cup {<<123, p11>>})
    BY <1>0, <1>10, LaidOn
  <2>2. 123 + 2 = 125
    OBVIOUS
  <2> QED BY <2>1, <2>2
<1> HIDE DEF d11, R11
<1>12. Laid(d12, 127, R12)
  <2>1. Laid(d11 \o p12, 125 + 2, R11 \cup {<<125, p12>>})
    BY <1>0, <1>11, LaidOn
  <2>2. 125 + 2 = 127
    OBVIOUS
  <2> QED BY <2>1, <2>2
<1> HIDE DEF d12, R12
<1>13. Laid(d13, 128, R13)
  <2>1. Laid(d12 \o p13, 127 + 1, R12 \cup {<<127, p13>>})
    BY <1>0, <1>12, LaidOn
  <2>2. 127 + 1 = 128
    OBVIOUS
  <2> QED BY <2>1, <2>2
<1> HIDE DEF d13, R13
<1>14. Laid(d14, 128 + k, R14)
  BY <1>0, <1>13, LaidOn
<1> HIDE DEF d14, R14
<1>15. \A r \in R14 : Stands(d, r[1], r[2])
  BY <1>d, <1>14 DEF Laid
<1>16. Stands(d, 0, p1)
  <2> DEFINE e == <<0, p1>>
  <2>1. e[1] = 0 /\ e[2] = p1
    OBVIOUS
  <2>2. e \in R14
    BY DEF R1, R2, R3, R4, R5, R6, R7, R8, R9, R10, R11, R12, R13, R14
  <2> HIDE DEF e
  <2> QED BY <1>15, <2>1, <2>2
<1>17. Stands(d, 1, p2)
  <2> DEFINE e == <<1, p2>>
  <2>1. e[1] = 1 /\ e[2] = p2
    OBVIOUS
  <2>2. e \in R14
    BY DEF R2, R3, R4, R5, R6, R7, R8, R9, R10, R11, R12, R13, R14
  <2> HIDE DEF e
  <2> QED BY <1>15, <2>1, <2>2
<1>18. Stands(d, 8, p3)
  <2> DEFINE e == <<8, p3>>
  <2>1. e[1] = 8 /\ e[2] = p3
    OBVIOUS
  <2>2. e \in R14
    BY DEF R3, R4, R5, R6, R7, R8, R9, R10, R11, R12, R13, R14
  <2> HIDE DEF e
  <2> QED BY <1>15, <2>1, <2>2
<1>19. Stands(d, 21, p4)
  <2> DEFINE e == <<21, p4>>
  <2>1. e[1] = 21 /\ e[2] = p4
    OBVIOUS
  <2>2. e \in R14
    BY DEF R4, R5, R6, R7, R8, R9, R10, R11, R12, R13, R14
  <2> HIDE DEF e
  <2> QED BY <1>15, <2>1, <2>2
<1>20. Stands(d, 46, p5)
  <2> DEFINE e == <<46, p5>>
  <2>1. e[1] = 46 /\ e[2] = p5
    OBVIOUS
  <2>2. e \in R14
    BY DEF R5, R6, R7, R8, R9, R10, R11, R12, R13, R14
  <2> HIDE DEF e
  <2> QED BY <1>15, <2>1, <2>2
<1>21. Stands(d, 71, p6)
  <2> DEFINE e == <<71, p6>>
  <2>1. e[1] = 71 /\ e[2] = p6
    OBVIOUS
  <2>2. e \in R14
    BY DEF R6, R7, R8, R9, R10, R11, R12, R13, R14
  <2> HIDE DEF e
  <2> QED BY <1>15, <2>1, <2>2
<1>22. Stands(d, 96, p7)
  <2> DEFINE e == <<96, p7>>
  <2>1. e[1] = 96 /\ e[2] = p7
    OBVIOUS
  <2>2. e \in R14
    BY DEF R7, R8, R9, R10, R11, R12, R13, R14
  <2> HIDE DEF e
  <2> QED BY <1>15, <2>1, <2>2
<1>23. Stands(d, 108, p8)
  <2> DEFINE e == <<108, p8>>
  <2>1. e[1] = 108 /\ e[2] = p8
    OBVIOUS
  <2>2. e \in R14
    BY DEF R8, R9, R10, R11, R12, R13, R14
  <2> HIDE DEF e
  <2> QED BY <1>15, <2>1, <2>2
<1>24. Stands(d, 116, p9)
  <2> DEFINE e == <<116, p9>>
  <2>1. e[1] = 116 /\ e[2] = p9
    OBVIOUS
  <2>2. e \in R14
    BY DEF R9, R10, R11, R12, R13, R14
  <2> HIDE DEF e
  <2> QED BY <1>15, <2>1, <2>2
<1>25. Stands(d, 122, p10)
  <2> DEFINE e == <<122, p10>>
  <2>1. e[1] = 122 /\ e[2] = p10
    OBVIOUS
  <2>2. e \in R14
    BY DEF R10, R11, R12, R13, R14
  <2> HIDE DEF e
  <2> QED BY <1>15, <2>1, <2>2
<1>26. Stands(d, 123, p11)
  <2> DEFINE e == <<123, p11>>
  <2>1. e[1] = 123 /\ e[2] = p11
    OBVIOUS
  <2>2. e \in R14
    BY DEF R11, R12, R13, R14
  <2> HIDE DEF e
  <2> QED BY <1>15, <2>1, <2>2
<1>27. Stands(d, 125, p12)
  <2> DEFINE e == <<125, p12>>
  <2>1. e[1] = 125 /\ e[2] = p12
    OBVIOUS
  <2>2. e \in R14
    BY DEF R12, R13, R14
  <2> HIDE DEF e
  <2> QED BY <1>15, <2>1, <2>2
<1>28. Stands(d, 127, p13)
  <2> DEFINE e == <<127, p13>>
  <2>1. e[1] = 127 /\ e[2] = p13
    OBVIOUS
  <2>2. e \in R14
    BY DEF R13, R14
  <2> HIDE DEF e
  <2> QED BY <1>15, <2>1, <2>2
<1>29. Stands(d, 128, p14)
  <2> DEFINE e == <<128, p14>>
  <2>1. e[1] = 128 /\ e[2] = p14
    OBVIOUS
  <2>2. e \in R14
    BY DEF R14
  <2> HIDE DEF e
  <2> QED BY <1>15, <2>1, <2>2
<1>30. d \in Seq(Int) /\ k \in Nat /\ Len(d) = 128 + k
  BY <1>0, <1>d, <1>14 DEF Laid, IsPiece
<1>31. At(d, 0, 1) = p1
  BY <1>0, <1>16, PieceIsRead
<1>32. At(d, 1, 7) = p2
  BY <1>0, <1>17, PieceIsRead
<1>33. At(d, 8, 13) = p3
  BY <1>0, <1>18, PieceIsRead
<1>34. At(d, 21, 25) = p4
  BY <1>0, <1>19, PieceIsRead
<1>35. At(d, 46, 25) = p5
  BY <1>0, <1>20, PieceIsRead
<1>36. At(d, 71, 25) = p6
  BY <1>0, <1>21, PieceIsRead
<1>37. At(d, 96, 12) = p7
  BY <1>0, <1>22, PieceIsRead
<1>38. At(d, 108, 8) = p8
  BY <1>0, <1>23, PieceIsRead
<1>39. At(d, 116, 6) = p9
  BY <1>0, <1>24, PieceIsRead
<1>40. At(d, 122, 1) = p10
  BY <1>0, <1>25, PieceIsRead
<1>41. At(d, 123, 2) = p11
  BY <1>0, <1>26, PieceIsRead
<1>42. At(d, 125, 2) = p12
  BY <1>0, <1>27, PieceIsRead
<1>43. At(d, 127, 1) = p13
  BY <1>0, <1>28, PieceIsRead
<1>44. At(d, 128, k) = p14
  BY <1>0, <1>29, PieceIsRead
<1>45. d[1] = p1[1] /\ d[123] = p10[1] /\ d[128] = p13[1]
  <2>1. \A f \in {0, 122, 127} : \A q : Stands(d, f, q) /\ IsPiece(q, 1) => d[f + 1] = q[1]
    <3> TAKE f \in {0, 122, 127}
    <3> TAKE q
    <3> HAVE Stands(d, f, q) /\ IsPiece(q, 1)
    <3>1. Len(q) = 1 /\ \A j \in 1 .. Len(q) : d[f + j] = q[j]
      BY DEF Stands, IsPiece
    <3> QED BY <3>1
  <2>2. d[0 + 1] = p1[1] /\ d[122 + 1] = p10[1] /\ d[127 + 1] = p13[1]
    BY <1>0, <1>16, <1>25, <1>28, <2>1
  <2>3. 0 + 1 = 1 /\ 122 + 1 = 123 /\ 127 + 1 = 128
    OBVIOUS
  <2> QED BY <2>2, <2>3
<1> QED BY <1>30, <1>31, <1>32, <1>33, <1>34, <1>35, <1>36, <1>37, <1>38, <1>39, <1>40, <1>41, <1>42, <1>43, <1>44, <1>45 DEF d

-----------------------------------------------------------------------------
(***************************************************************************)
(* The text: kludges, each on a line of its own, and what the message      *)
(* says. The loop over them takes one line a step, and its text is what is *)
(* behind that line.                                                       *)
(***************************************************************************)

\* A replaced text is as long, byte for byte.
LEMMA ReplacedIs ==
  ASSUME NEW s \in Seq(Int), NEW old \in Int, NEW new \in Int
  PROVE  /\ ReplaceBytes(s, old, new) \in Seq(Int) /\ Len(ReplaceBytes(s, old, new)) = Len(s)
         /\ \A i \in 1 .. Len(s) : ReplaceBytes(s, old, new)[i] = IF s[i] = old THEN new ELSE s[i]
<1> DEFINE n == Len(s)
           r == [i \in 1 .. n |-> IF s[i] = old THEN new ELSE s[i]]
<1>1. n \in Nat /\ DOMAIN s = 1 .. n /\ \A i \in 1 .. n : s[i] \in Int
  BY LenProperties, ElementOfSeq
<1>2. ReplaceBytes(s, old, new) = r
  BY <1>1 DEF ReplaceBytes
<1> HIDE DEF n
<1>3. r \in [1 .. n -> Int] /\ \A i \in 1 .. n : r[i] = IF s[i] = old THEN new ELSE s[i]
  BY <1>1
<1> HIDE DEF r
<1>4. r \in Seq(Int) /\ Len(r) = n
  BY <1>1, <1>3, RowIsSeq
<1> QED BY <1>2, <1>3, <1>4 DEF n

\* Two texts are replaced one by one.
LEMMA ReplacedJoin ==
  ASSUME NEW a \in Seq(Int), NEW b \in Seq(Int), NEW old \in Int, NEW new \in Int
  PROVE  ReplaceBytes(a \o b, old, new) = ReplaceBytes(a, old, new) \o ReplaceBytes(b, old, new)
<1> DEFINE c == a \o b
           ra == ReplaceBytes(a, old, new)
           rb == ReplaceBytes(b, old, new)
           l == ReplaceBytes(c, old, new)
           r == ra \o rb
<1>1. Len(a) \in Nat /\ Len(b) \in Nat
  OBVIOUS
<1>2. /\ c \in Seq(Int) /\ Len(c) = Len(a) + Len(b)
      /\ \A i \in 1 .. Len(a) : c[i] = a[i]
      /\ \A i \in 1 .. Len(b) : c[Len(a) + i] = b[i]
  BY Joined
<1> HIDE DEF c
<1>3. /\ ra \in Seq(Int) /\ Len(ra) = Len(a)
      /\ \A i \in 1 .. Len(a) : ra[i] = IF a[i] = old THEN new ELSE a[i]
  BY ReplacedIs
<1>4. /\ rb \in Seq(Int) /\ Len(rb) = Len(b)
      /\ \A i \in 1 .. Len(b) : rb[i] = IF b[i] = old THEN new ELSE b[i]
  BY ReplacedIs
<1>5. /\ l \in Seq(Int) /\ Len(l) = Len(c)
      /\ \A i \in 1 .. Len(c) : l[i] = IF c[i] = old THEN new ELSE c[i]
  <2>1. c \in Seq(Int)
    BY <1>2
  <2> QED BY <2>1, ReplacedIs
<1> HIDE DEF ra, rb, l
<1>6. /\ r \in Seq(Int) /\ Len(r) = Len(ra) + Len(rb)
      /\ \A i \in 1 .. Len(ra) : r[i] = ra[i]
      /\ \A i \in 1 .. Len(rb) : r[Len(ra) + i] = rb[i]
  <2>1. ra \in Seq(Int) /\ rb \in Seq(Int)
    BY <1>3, <1>4
  <2> QED BY <2>1, Joined
<1> HIDE DEF r
<1>7. ASSUME NEW i \in 1 .. Len(l) PROVE l[i] = r[i]
  <2>1. CASE i <= Len(a)
    <3>1. i \in 1 .. Len(a) /\ i \in 1 .. Len(c)
      BY <1>1, <1>2, <1>5, <2>1
    <3> QED BY <1>2, <1>3, <1>5, <1>6, <3>1
  <2>2. CASE ~(i <= Len(a))
    <3> DEFINE k == i - Len(a)
    <3>1. k \in 1 .. Len(b) /\ i \in 1 .. Len(c) /\ i = Len(a) + k
      BY <1>1, <1>2, <1>5, <2>2
    <3> HIDE DEF k
    <3>2. c[i] = b[k] /\ l[i] = IF c[i] = old THEN new ELSE c[i]
      BY <1>2, <1>5, <3>1
    <3>3. r[i] = rb[k] /\ rb[k] = IF b[k] = old THEN new ELSE b[k]
      BY <1>3, <1>4, <1>6, <3>1
    <3> QED BY <3>2, <3>3
  <2> QED BY <2>1, <2>2
<1>8. l = r
  <2>1. Len(l) = Len(r) /\ l \in Seq(Int) /\ r \in Seq(Int)
    BY <1>2, <1>3, <1>4, <1>5, <1>6
  <2> QED BY <1>7, <2>1, SeqEqual
<1> QED BY <1>8 DEF l, r, ra, rb, c

\* A text without the byte stays as it is.
LEMMA ReplacedNone ==
  ASSUME NEW s \in Seq(Int), NEW old \in Int, NEW new \in Int, \A i \in 1 .. Len(s) : s[i] # old
  PROVE  ReplaceBytes(s, old, new) = s
<1> DEFINE r == ReplaceBytes(s, old, new)
<1>1. /\ r \in Seq(Int) /\ Len(r) = Len(s)
      /\ \A i \in 1 .. Len(s) : r[i] = IF s[i] = old THEN new ELSE s[i]
  BY ReplacedIs
<1> HIDE DEF r
<1>2. r = s
  BY <1>1, SeqEqual
<1> QED BY <1>2 DEF r

\* What is replaced is replaced back, where the new byte does not occur.
LEMMA ReplacedBack ==
  ASSUME NEW s \in Seq(Int), NEW old \in Int, NEW new \in Int, \A i \in 1 .. Len(s) : s[i] # new
  PROVE  ReplaceBytes(ReplaceBytes(s, old, new), new, old) = s
<1> DEFINE r == ReplaceBytes(s, old, new)
           q == ReplaceBytes(r, new, old)
<1>1. /\ r \in Seq(Int) /\ Len(r) = Len(s)
      /\ \A i \in 1 .. Len(s) : r[i] = IF s[i] = old THEN new ELSE s[i]
  BY ReplacedIs
<1> HIDE DEF r
<1>2. /\ q \in Seq(Int) /\ Len(q) = Len(r)
      /\ \A i \in 1 .. Len(r) : q[i] = IF r[i] = new THEN old ELSE r[i]
  <2>1. r \in Seq(Int)
    BY <1>1
  <2> QED BY <2>1, ReplacedIs
<1> HIDE DEF q
<1>3. q = s
  BY <1>1, <1>2, SeqEqual
<1> QED BY <1>3 DEF q, r

\* A row of sequences and what stands behind them, from each of them on.
IsTails(T, S, ss, base) ==
  /\ T \in [0 .. Len(ss) -> Seq(S)]
  /\ T[0] = FlattenSeq(ss) \o base /\ T[Len(ss)] = base
  /\ \A i \in 1 .. Len(ss) : T[i - 1] = ss[i] \o T[i]

\* Joining is associative.
LEMMA Associates ==
  ASSUME NEW S
  PROVE  \A a, b, c \in Seq(S) : (a \o b) \o c = a \o (b \o c)
<1> TAKE a, b, c \in Seq(S)
<1> QED BY ConcatAssociative

\* There are such tails.
LEMMA Tails ==
  ASSUME NEW S, NEW ss \in Seq(Seq(S)), NEW base \in Seq(S)
  PROVE  \E T : IsTails(T, S, ss, base)
<1> DEFINE n == Len(ss)
           g == [p \in (0 .. n) \X Seq(S) |-> IF p[1] = 0 THEN p[2] ELSE ss[(n + 1) - p[1]] \o p[2]]
<1>1. n \in Nat /\ \A i \in 1 .. n : ss[i] \in Seq(S)
  BY LenProperties, ElementOfSeq
<1> HIDE DEF n
<1>2. \A i \in 1 .. n : (n + 1) - i \in 1 .. n /\ i \in 0 .. n /\ i # 0
  BY <1>1
<1>3. g \in [(0 .. n) \X Seq(S) -> Seq(S)]
  <2>1. \A i \in 1 .. n, s \in Seq(S) : ss[(n + 1) - i] \o s \in Seq(S)
    BY <1>1, <1>2, ConcatProperties
  <2>2. \A i \in 0 .. n : i # 0 => i \in 1 .. n
    BY <1>1
  <2> QED BY <2>1, <2>2
<1>4. \A i \in 1 .. n, s \in Seq(S) : g[<<i, s>>] = ss[(n + 1) - i] \o s
  BY <1>2
<1> HIDE DEF g
<1>5. PICK f \in [0 .. n -> Seq(S)] : f[0] = base /\ \A i \in 1 .. n : f[i] = g[<<i, f[i - 1]>>]
  <2>1. Steps(n, Seq(S), base, g)
    BY <1>1, <1>3 DEF Steps
  <2> QED BY <2>1, Iterate
<1> DEFINE T == [i \in 0 .. n |-> f[n - i]]
<1>6. T \in [0 .. n -> Seq(S)]
  <2>1. \A i \in 0 .. n : n - i \in 0 .. n
    BY <1>1
  <2> QED BY <1>5, <2>1
<1>7. T[n] = base
  <2>1. n \in 0 .. n /\ n - n = 0
    BY <1>1
  <2> QED BY <1>5, <2>1
<1>8. ASSUME NEW i \in 1 .. n PROVE T[i - 1] = ss[i] \o T[i]
  <2> DEFINE k == (n + 1) - i
  <2>1. /\ k \in 1 .. n /\ k - 1 \in 0 .. n /\ (n + 1) - k = i /\ n - (i - 1) = k /\ n - i = k - 1
        /\ i - 1 \in 0 .. n /\ i \in 0 .. n
    BY <1>1
  <2> HIDE DEF k
  <2>2. f[k] = ss[(n + 1) - k] \o f[k - 1]
    <3>1. f[k - 1] \in Seq(S)
      BY <1>5, <2>1
    <3> QED BY <1>4, <1>5, <2>1, <3>1
  <2> QED BY <2>1, <2>2
<1> HIDE DEF T
<1>9. PICK F \in [0 .. n -> Seq(S)] :
        F[0] = << >> /\ (\A i \in 1 .. n : F[i] = F[i - 1] \o ss[i]) /\ FlattenSeq(ss) = F[n]
  <2>1. PICK F \in [0 .. Len(ss) -> Seq(S)] :
          F[0] = << >> /\ (\A i \in 1 .. Len(ss) : F[i] = F[i - 1] \o ss[i]) /\ FlattenSeq(ss) = F[Len(ss)]
    BY Flattened
  <2> QED BY <2>1 DEF n
<1> DEFINE P == {i \in Nat : i <= n => F[i] \o T[i] = T[0]}
<1>10. 0 \in P
  <2>1. T[0] \in Seq(S)
    BY <1>1, <1>6
  <2>2. << >> \o T[0] = T[0]
    BY <2>1, ConcatEmptySeq
  <2> QED BY <1>9, <2>2
<1>11. ASSUME NEW i \in Nat, i \in P PROVE i + 1 \in P
  <2> DEFINE k == i + 1
  <2> SUFFICES ASSUME k <= n PROVE F[k] \o T[k] = T[0]
    <3>1. k \in Nat
      OBVIOUS
    <3> HIDE DEF k
    <3>2. k \in P
      BY <3>1
    <3> QED BY <3>2 DEF k
  <2>1. k \in 1 .. n /\ k - 1 = i /\ i <= n /\ i \in 0 .. n /\ k \in 0 .. n
    BY <1>1
  <2>2. F[i] \o T[i] = T[0]
    BY <1>11, <2>1
  <2> HIDE DEF k
  <2>3. F[k] = F[i] \o ss[k] /\ T[i] = ss[k] \o T[k]
    BY <1>8, <1>9, <2>1
  <2>4. F[i] \in Seq(S) /\ ss[k] \in Seq(S) /\ T[k] \in Seq(S)
    BY <1>1, <1>6, <1>9, <2>1
  <2>5. (F[i] \o ss[k]) \o T[k] = F[i] \o (ss[k] \o T[k])
    <3> DEFINE a == F[i]
               b == ss[k]
               c == T[k]
    <3>1. a \in Seq(S) /\ b \in Seq(S) /\ c \in Seq(S)
      BY <2>4
    <3> HIDE DEF a, b, c, P
    <3>2. \A x, y, z \in Seq(S) : (x \o y) \o z = x \o (y \o z)
      BY Associates
    <3>3. (a \o b) \o c = a \o (b \o c)
      BY <3>1, <3>2
    <3> QED BY <3>3 DEF a, b, c
  <2> QED BY <2>2, <2>3, <2>5
<1> HIDE DEF P
<1>12. n \in P
  BY <1>1, <1>10, <1>11, NatInduct
<1>13. FlattenSeq(ss) \o base = T[0]
  <2>1. F[n] \o T[n] = T[0]
    BY <1>1, <1>12 DEF P
  <2> QED BY <1>7, <1>9, <2>1
<1>14. IsTails(T, S, ss, base)
  BY <1>6, <1>7, <1>8, <1>13 DEF IsTails, n
<1> QED BY <1>14

\* The heads of the kludges begin with three different bytes, and none has an
\* end of a line.
LEMMA HeadsAre ==
  /\ DOMAIN KludgeHeads = {"to", "from", "subj"}
  /\ \A k \in DOMAIN KludgeHeads :
       /\ KludgeHeads[k] \in Seq(Int) /\ Len(KludgeHeads[k]) \in Nat \ {0}
       /\ \A i \in 1 .. Len(KludgeHeads[k]) : KludgeHeads[k][i] \notin {NewLine, CarriageReturn, PCB_TXT_EOL}
       /\ KludgeHeads[k][1] \in {84, 70, 83}
  /\ \A j, k \in DOMAIN KludgeHeads : KludgeHeads[j][1] = KludgeHeads[k][1] => j = k
<1> DEFINE a == <<84, 111, 58, 32>>
           b == <<70, 114, 111, 109, 58, 32>>
           c == <<83, 117, 98, 106, 101, 99, 116, 58, 32>>
           heads == [to |-> a, from |-> b, subj |-> c]
<1>1. a \in Seq(Int) /\ Len(a) = 4 /\ a[1] = 84 /\ \A i \in 1 .. 4 : a[i] \notin {10, 13, 227}
  OBVIOUS
<1>2. b \in Seq(Int) /\ Len(b) = 6 /\ b[1] = 70 /\ \A i \in 1 .. 6 : b[i] \notin {10, 13, 227}
  OBVIOUS
<1>3. c \in Seq(Int) /\ Len(c) = 9 /\ c[1] = 83 /\ \A i \in 1 .. 9 : c[i] \notin {10, 13, 227}
  OBVIOUS
<1>4. KludgeHeads = heads
  BY DEF KludgeHeads
<1> HIDE DEF a, b, c
<1>5. DOMAIN heads = {"to", "from", "subj"} /\ heads["to"] = a /\ heads["from"] = b /\ heads["subj"] = c
  OBVIOUS
<1> HIDE DEF heads
<1>6. \A k \in DOMAIN heads :
       /\ heads[k] \in Seq(Int) /\ Len(heads[k]) \in Nat \ {0}
       /\ \A i \in 1 .. Len(heads[k]) : heads[k][i] \notin {10, 13, 227}
  <2>1. a \in Seq(Int) /\ Len(a) \in Nat \ {0} /\ \A i \in 1 .. Len(a) : a[i] \notin {10, 13, 227}
    BY <1>1
  <2>2. b \in Seq(Int) /\ Len(b) \in Nat \ {0} /\ \A i \in 1 .. Len(b) : b[i] \notin {10, 13, 227}
    BY <1>2
  <2>3. c \in Seq(Int) /\ Len(c) \in Nat \ {0} /\ \A i \in 1 .. Len(c) : c[i] \notin {10, 13, 227}
    BY <1>3
  <2> TAKE k \in DOMAIN heads
  <2>4. heads[k] = a \/ heads[k] = b \/ heads[k] = c
    BY <1>5
  <2> QED BY <2>1, <2>2, <2>3, <2>4
<1>7. \A k \in DOMAIN heads : heads[k][1] \in {84, 70, 83}
  BY <1>1, <1>2, <1>3, <1>5
<1>8. \A j, k \in DOMAIN heads : heads[j][1] = heads[k][1] => j = k
  BY <1>1, <1>2, <1>3, <1>5
<1> QED BY <1>4, <1>5, <1>6, <1>7, <1>8 DEF NewLine, CarriageReturn, PCB_TXT_EOL

\* A line of a kludge: its head, the name and the end.
KludgeLine(k, c) == (KludgeHeads[k] \o c) \o <<NewLine>>

\* A name that does not end its line.
NoLineEnd(s) == \A i \in 1 .. Len(s) : s[i] \notin {NewLine, CarriageReturn}

\* Where its pieces stand.
LEMMA LineStands ==
  ASSUME NEW k \in DOMAIN KludgeHeads, NEW c \in Seq(Int), NEW rest \in Seq(Int)
  PROVE  LET t == KludgeLine(k, c) \o rest
             h == Len(KludgeHeads[k])
         IN /\ t \in Seq(Int) /\ Len(t) = h + Len(c) + 1 + Len(rest)
            /\ Stands(t, 0, KludgeHeads[k]) /\ Stands(t, h, c)
            /\ t[h + Len(c) + 1] = NewLine /\ Stands(t, h + Len(c) + 1, rest)
<1> DEFINE d == KludgeHeads[k]
           h == Len(d)
           n == Len(c)
           m == Len(rest)
           e == <<NewLine>>
           d2 == d \o c
           d3 == d2 \o e
           t == d3 \o rest
<1>1. d \in Seq(Int) /\ h \in Nat /\ n \in Nat /\ m \in Nat
  BY HeadsAre
<1>2. KludgeLine(k, c) = d3
  BY DEF KludgeLine
<1>3. e \in Seq(Int) /\ Len(e) = 1 /\ e[1] = NewLine
  BY DEF NewLine
<1> HIDE DEF d, e
<1>4. d2 \in Seq(Int) /\ Len(d2) = h + n /\ Stands(d, 0, d) /\ Stands(d2, h, c)
  <2>1. Stands(d2, h, c) /\ d2 \in Seq(Int) /\ Len(d2) = h + n
    BY <1>1, StandsBehind, Joined
  <2>2. Stands(d, 0, d)
    BY <1>1 DEF Stands
  <2> QED BY <2>1, <2>2
<1>5. Stands(d2, 0, d)
  BY <1>4, StandsOn
<1> HIDE DEF d2
<1>6. d3 \in Seq(Int) /\ Len(d3) = (h + n) + 1
  <2>1. d2 \in Seq(Int) /\ e \in Seq(Int)
    BY <1>3, <1>4
  <2>2. d3 \in Seq(Int) /\ Len(d3) = Len(d2) + Len(e)
    BY <2>1, Joined
  <2> QED BY <1>3, <1>4, <2>2
<1>7. Stands(d3, 0, d) /\ Stands(d3, h, c) /\ Stands(d3, h + n, e)
  <2>1. d2 \in Seq(Int) /\ e \in Seq(Int)
    BY <1>3, <1>4
  <2>2. Stands(d3, 0, d) /\ Stands(d3, h, c)
    BY <1>4, <1>5, <2>1, StandsOn
  <2>3. Stands(d3, Len(d2), e)
    BY <2>1, StandsBehind
  <2> QED BY <1>4, <2>2, <2>3
<1> HIDE DEF d3
<1>8. t \in Seq(Int) /\ Len(t) = ((h + n) + 1) + m
  <2>1. d3 \in Seq(Int)
    BY <1>6
  <2>2. t \in Seq(Int) /\ Len(t) = Len(d3) + m
    BY <2>1, Joined
  <2> QED BY <1>6, <2>2
<1>9. Stands(t, 0, d) /\ Stands(t, h, c) /\ Stands(t, h + n, e) /\ Stands(t, (h + n) + 1, rest)
  <2>1. d3 \in Seq(Int)
    BY <1>6
  <2>2. Stands(t, 0, d) /\ Stands(t, h, c) /\ Stands(t, h + n, e)
    BY <1>7, StandsOn
  <2>3. Stands(t, Len(d3), rest)
    BY <2>1, StandsBehind
  <2> QED BY <1>6, <2>2, <2>3
<1> HIDE DEF t
<1>10. t[(h + n) + 1] = NewLine
  <2>1. \A j \in 1 .. 1 : t[(h + n) + j] = e[j]
    BY <1>3, <1>9 DEF Stands
  <2> QED BY <1>3, <2>1
<1>11. h + n + 1 = (h + n) + 1
  BY <1>1
<1> QED BY <1>2, <1>8, <1>9, <1>10, <1>11 DEF t, d

\* What a text begins with, it begins with at its first byte.
LEMMA PrefixFirst ==
  ASSUME NEW o, NEW t, o \in Seq(Int), Len(o) \in Nat, Len(o) # 0, t \in Seq(Int), IsPrefix(o, t)
  PROVE  t[1] = o[1]
<1> DEFINE l == Len(o)
           a == SubSeq(o, 1, l)
           b == SubSeq(t, 1, l)
<1>1. l \in Nat /\ l # 0 /\ l <= Len(t) /\ a = b
  BY DEF IsPrefix
<1>2. \A s \in Seq(Int) : l <= Len(s) => SubSeq(s, 1, l)[1] = s[1]
  <2> TAKE s \in Seq(Int)
  <2> HAVE l <= Len(s)
  <2>1. \A i \in 1 .. l : s[i] \in Int
    <3>1. \A i \in 1 .. l : i \in 1 .. Len(s)
      BY <1>1
    <3> QED BY <3>1, ElementOfSeq
  <2>2. 1 \in Int /\ l \in Int /\ 1 \in 1 .. l - 1 + 1 /\ 1 + 1 - 1 = 1
    BY <1>1
  <2> HIDE DEF l
  <2>3. \A i \in 1 .. l - 1 + 1 : SubSeq(s, 1, l)[i] = s[1 + i - 1]
    BY <2>1, <2>2, SubSeqProperties
  <2> QED BY <2>2, <2>3
<1>3. a[1] = o[1] /\ b[1] = t[1]
  BY <1>1, <1>2
<1> QED BY <1>1, <1>3

\* The loop takes the kludge of the line, its name, and the text behind it.
LEMMA LineIsRead ==
  ASSUME NEW k \in DOMAIN KludgeHeads, NEW c \in Seq(Int), NoLineEnd(c), NEW rest \in Seq(Int)
  PROVE  LET t == KludgeLine(k, c) \o rest
         IN /\ KludgeOf(t) = {k} /\ FirstLineEnd(t) # 0
            /\ SubSeq(t, Len(KludgeHeads[k]) + 1, LineLen(t)) = c
            /\ AfterLine(t) = rest
<1> DEFINE d == KludgeHeads[k]
           h == Len(d)
           n == Len(c)
           m == Len(rest)
           t == KludgeLine(k, c) \o rest
           end == (h + n) + 1
<1>1. d \in Seq(Int) /\ h \in Nat /\ h # 0 /\ n \in Nat /\ m \in Nat /\ end \in Nat /\ h + n + 1 = end
      /\ \A i \in 1 .. h : d[i] \notin {NewLine, CarriageReturn}
  BY HeadsAre
<1>2. /\ t \in Seq(Int) /\ Len(t) = end + m
      /\ Stands(t, 0, d) /\ Stands(t, h, c) /\ t[end] = NewLine /\ Stands(t, end, rest)
  BY <1>1, LineStands
<1> HIDE DEF t, n, m, d
<1>3. \A i \in 1 .. h : t[i] = d[i]
  <2>1. \A i \in 1 .. h : t[0 + i] = d[i] /\ 0 + i = i
    BY <1>2 DEF Stands
  <2> QED BY <2>1
<1>4. \A i \in 1 .. n : t[h + i] = c[i] /\ c[i] \notin {NewLine, CarriageReturn}
  BY <1>2 DEF Stands, NoLineEnd, n
<1>5. \A i \in 1 .. Len(t) : t[i] = NewLine => end <= i
  <2> SUFFICES ASSUME NEW i \in 1 .. Len(t), ~(end <= i) PROVE t[i] # NewLine
    BY <1>1, <1>2
  <2>1. CASE i <= h
    <3>1. i \in 1 .. h
      BY <1>1, <2>1
    <3> QED BY <1>1, <1>3, <3>1
  <2>2. CASE ~(i <= h)
    <3> DEFINE j == i - h
    <3>1. j \in 1 .. n /\ h + j = i
      BY <1>1, <2>2
    <3> HIDE DEF j
    <3> QED BY <1>4, <3>1
  <2> QED BY <2>1, <2>2
<1>6. FirstLineEnd(t) = end
  <2> DEFINE I == {i \in 1 .. Len(t) : t[i] = NewLine}
  <2>1. FirstLineEnd(t) = IF I # {} THEN Min(I) ELSE 0
    BY DEF FirstLineEnd, SelectInSeq
  <2>2. end \in I /\ \A i \in I : end <= i
    BY <1>1, <1>2, <1>5
  <2>3. Min(I) \in I /\ \A x \in I : Min(I) <= x
    <3> DEFINE l == Len(t)
    <3>1. l \in Nat
      BY <1>1, <1>2
    <3>2. I \in SUBSET (1 .. l)
      OBVIOUS
    <3>3. I # {}
      BY <2>2
    <3> HIDE DEF I, l
    <3> QED BY <3>1, <3>2, <3>3, MinOf
  <2> DEFINE x == Min(I)
  <2>4. x \in Int
    BY <2>3
  <2> HIDE DEF I
  <2>5. x <= end /\ end <= x
    BY <2>2, <2>3
  <2> HIDE DEF x
  <2>6. x = end
    <3>1. end \in Nat
      BY <1>1
    <3> HIDE DEF end
    <3> QED BY <2>4, <2>5, <3>1
  <2> QED BY <2>1, <2>2, <2>6 DEF x
<1>7. SubSeq(t, h + 1, end - 1) = c
  <2>1. IsPiece(c, n)
    BY <1>1 DEF IsPiece, n
  <2>2. At(t, h, n) = c
    BY <1>2, <2>1, PieceIsRead
  <2>3. end - 1 = h + n
    BY <1>1
  <2> QED BY <2>2, <2>3 DEF At
<1>14. LineLen(t) = end - 1 /\ (end - 1) + 2 = end + 1
  <2>1. end > 1 /\ end - 1 = h + n
    BY <1>1
  <2>2. t[h + n] # CarriageReturn
    <3>1. CASE n = 0
      <4>1. h \in 1 .. h /\ h + n = h
        BY <1>1, <3>1
      <4> QED BY <1>1, <1>3, <4>1
    <3>2. CASE n # 0
      <4>1. n \in 1 .. n
        BY <1>1, <3>2
      <4> QED BY <1>4, <4>1
    <3> QED BY <3>1, <3>2
  <2>3. (end - 1) + 2 = end + 1
    BY <1>1
  <2> HIDE DEF end
  <2> QED BY <1>6, <2>1, <2>2, <2>3 DEF LineLen
<1>8. AfterLine(t) = rest
  <2>1. IsPiece(rest, m)
    BY <1>1 DEF IsPiece, m
  <2>2. At(t, end, m) = rest
    BY <1>2, <2>1, PieceIsRead
  <2>3. AfterLine(t) = SubSeq(t, end + 1, Len(t))
    BY <1>14 DEF AfterLine
  <2> QED BY <1>2, <2>2, <2>3 DEF At
<1>9. IsPrefix(d, t)
  <2>1. IsPiece(d, h)
    BY <1>1 DEF IsPiece
  <2>2. At(t, 0, h) = d
    BY <1>2, <2>1, PieceIsRead
  <2>3. 0 + 1 = 1 /\ 0 + h = h /\ h <= Len(t)
    BY <1>1, <1>2
  <2>4. SubSeq(t, 1, h) = d
    BY <2>2, <2>3 DEF At
  <2>5. SubSeq(d, 1, h) = d
    <3>1. Stands(d, 0, d)
      BY <1>1 DEF Stands
    <3>2. At(d, 0, h) = d
      BY <2>1, <3>1, PieceIsRead
    <3> QED BY <2>3, <3>2 DEF At
  <2> QED BY <2>3, <2>4, <2>5 DEF IsPrefix
<1>10. ASSUME NEW j \in DOMAIN KludgeHeads, IsPrefix(KludgeHeads[j], t) PROVE j = k
  <2> DEFINE o == KludgeHeads[j]
  <2>1. o \in Seq(Int) /\ Len(o) \in Nat /\ Len(o) # 0 /\ IsPrefix(o, t)
    BY <1>10, HeadsAre
  <2> HIDE DEF o
  <2>2. t[1] = o[1]
    BY <1>2, <2>1, PrefixFirst
  <2>3. t[1] = d[1]
    BY <1>1, <1>3
  <2> QED BY <2>2, <2>3, HeadsAre DEF o, d
<1>11. KludgeOf(t) = {k}
  <2>1. IsPrefix(KludgeHeads[k], t)
    BY <1>9 DEF d
  <2>2. KludgeOf(t) = {j \in DOMAIN KludgeHeads : IsPrefix(KludgeHeads[j], t)}
    BY DEF KludgeOf
  <2> QED BY <1>10, <2>1, <2>2, Zenon
<1> HIDE DEF end
<1>12. FirstLineEnd(t) # 0
  BY <1>1, <1>6
<1>13. SubSeq(t, h + 1, LineLen(t)) = c
  BY <1>7, <1>14
<1> QED BY <1>8, <1>11, <1>12, <1>13 DEF t, d

\* The text has an end of a line more than what is behind its first line.
LEMMA LineCounts ==
  ASSUME NEW k \in DOMAIN KludgeHeads, NEW c \in Seq(Int), NEW rest \in Seq(Int)
  PROVE  /\ NumLines(rest) \in Nat \ {0}
         /\ NumLines(KludgeLine(k, c) \o rest) \in Nat
         /\ NumLines(rest) < NumLines(KludgeLine(k, c) \o rest)
<1> DEFINE h == Len(KludgeHeads[k])
           t == KludgeLine(k, c) \o rest
           end == (h + Len(c)) + 1
           m == Len(rest)
           l == Len(t)
           A == {i \in 1 .. m : rest[i] = NewLine}
           B == {i \in 1 .. l : t[i] = NewLine}
           C == B \ {end}
           f == [i \in A |-> end + i]
<1>1. h \in Nat /\ m \in Nat /\ end \in Nat \ {0} /\ h + Len(c) + 1 = end
  BY HeadsAre
<1>2. t \in Seq(Int) /\ l = end + m /\ t[end] = NewLine /\ Stands(t, end, rest)
  BY <1>1, LineStands
<1> HIDE DEF t
<1>3. \A i \in 1 .. m : t[end + i] = rest[i]
  BY <1>2 DEF Stands
<1>4. NumLines(rest) = Cardinality(A) + 1 /\ NumLines(t) = Cardinality(B) + 1
  <2>1. DOMAIN rest = 1 .. m /\ DOMAIN t = 1 .. l
    BY <1>2
  <2> QED BY <2>1 DEF NumLines
<1> HIDE DEF h, end, m, l
<1>5. end \in B /\ end \in 1 .. l
  BY <1>1, <1>2
<1>6. \A i \in A : end + i \in C /\ i \in Int
  BY <1>1, <1>2, <1>3
<1>7. IsFiniteSet(A) /\ IsFiniteSet(B)
  <2>1. l \in Nat
    BY <1>1, <1>2
  <2>2. IsFiniteSet(1 .. m) /\ IsFiniteSet(1 .. l)
    <3>1. m \in Int /\ l \in Int /\ 1 \in Int
      BY <1>1, <2>1
    <3>2. IsFiniteSet(1 .. m)
      BY <3>1, FS_Interval
    <3>3. IsFiniteSet(1 .. l)
      BY <3>1, FS_Interval
    <3> QED BY <3>2, <3>3
  <2>3. A \in SUBSET (1 .. m) /\ B \in SUBSET (1 .. l)
    OBVIOUS
  <2> HIDE DEF A, B
  <2> QED BY <2>2, <2>3, FS_Subset
<1> HIDE DEF A, B
<1>8. IsFiniteSet(C) /\ Cardinality(C) = Cardinality(B) - 1
  BY <1>5, <1>7, FS_RemoveElement
<1> HIDE DEF C
<1>9. f \in Injection(A, C)
  <2>1. f \in [A -> C] /\ \A i, j \in A : f[i] = f[j] => i = j
    BY <1>1, <1>6
  <2> HIDE DEF f
  <2> QED BY <2>1 DEF Injection, IsInjective
<1>10. Cardinality(A) <= Cardinality(C)
  BY <1>8, <1>9, FS_Injection
<1>11. Cardinality(A) \in Nat /\ Cardinality(B) \in Nat
  BY <1>7, FS_CardinalityType
<1>12. NumLines(rest) \in Nat \ {0} /\ NumLines(t) \in Nat /\ NumLines(rest) < NumLines(t)
  BY <1>4, <1>8, <1>10, <1>11
<1> QED BY <1>12 DEF t

\* What the loop over the kludges does once.
KludgeStep(r) ==
  IF r = QwkErr \/ KludgeOf(r.text) = {} THEN r
  ELSE IF FirstLineEnd(r.text) = 0 THEN QwkErr
  ELSE LET k == CHOOSE x \in KludgeOf(r.text) : TRUE
       IN [r EXCEPT ![k] = SubSeq(r.text, Len(KludgeHeads[k]) + 1, LineLen(r.text)),
                    !.text = AfterLine(r.text)]

\* A message whose text has the kludges of long, with these names; T[i] is what
\* is behind the i-th.
HasKludges(long, names, T, plain) ==
  /\ long \in Seq(DOMAIN KludgeHeads)
  /\ names \in [DOMAIN KludgeHeads -> Seq(Int)] /\ \A i \in 1 .. Len(long) : NoLineEnd(names[long[i]])
  /\ T \in [0 .. Len(long) -> Seq(Int)]
  /\ \A i \in 1 .. Len(long) : T[i - 1] = KludgeLine(long[i], names[long[i]]) \o T[i]
  /\ KludgeOf(T[Len(long)]) = {}
  /\ plain = [f \in DOMAIN plain |-> plain[f]] /\ DOMAIN KludgeHeads \cup {"ok", "text"} \subseteq DOMAIN plain
  /\ plain.ok = TRUE /\ plain.text = T[0]

\* The message when i of them are taken.
TakenTo(long, names, T, plain, i) ==
  [f \in DOMAIN plain |-> IF f = "text" THEN T[i]
                          ELSE IF \E j \in 1 .. i : long[j] = f THEN names[f] ELSE plain[f]]

\* A message that is no error, and its text.
IsTaken(r, text) == r # QwkErr /\ r.text = text

\* The text is what is behind the kludges that are taken.
LEMMA TakenIs ==
  ASSUME NEW long, NEW names, NEW T, NEW plain, HasKludges(long, names, T, plain), NEW i \in 0 .. Len(long)
  PROVE  IsTaken(TakenTo(long, names, T, plain, i), T[i])
<1> DEFINE r == TakenTo(long, names, T, plain, i)
<1>1. "ok" \in DOMAIN plain /\ "text" \in DOMAIN plain /\ plain.ok = TRUE
  BY DEF HasKludges
<1>2. \A j \in 1 .. i : long[j] # "ok"
  <2>1. \A j \in 1 .. i : j \in 1 .. Len(long)
    <3>1. Len(long) \in Nat
      BY LenProperties DEF HasKludges
    <3> QED BY <3>1
  <2>2. \A j \in 1 .. Len(long) : long[j] \in DOMAIN KludgeHeads
    BY ElementOfSeq DEF HasKludges
  <2>3. "ok" \notin DOMAIN KludgeHeads
    BY HeadsAre
  <2> QED BY <2>1, <2>2, <2>3
<1>3. r["text"] = T[i]
  BY <1>1 DEF TakenTo
<1>4. r["ok"] = TRUE
  BY <1>1, <1>2 DEF TakenTo
<1>5. QwkErr.ok = FALSE
  BY DEF QwkErr
<1> HIDE DEF r
<1>6. r # QwkErr
  BY <1>4, <1>5
<1>7. IsTaken(r, T[i])
  BY <1>3, <1>6 DEF IsTaken
<1> QED BY <1>7 DEF r

\* A step takes the next one.
LEMMA StepTakes ==
  ASSUME NEW long, NEW names, NEW T, NEW plain, HasKludges(long, names, T, plain), NEW i \in 1 .. Len(long)
  PROVE  KludgeStep(TakenTo(long, names, T, plain, i - 1)) = TakenTo(long, names, T, plain, i)
<1> DEFINE n == Len(long)
           h == i - 1
           r == TakenTo(long, names, T, plain, h)
           s == TakenTo(long, names, T, plain, i)
           k == long[i]
           c == names[k]
<1>0. n \in Nat
  BY LenProperties DEF HasKludges
<1>1. h \in 0 .. n /\ i \in 0 .. n /\ i = h + 1 /\ h \in Nat
  BY <1>0
<1>2. r # QwkErr /\ r.text = T[h] /\ "text" \in DOMAIN plain
  <2> HIDE DEF h
  <2>1. h \in 0 .. Len(long)
    BY <1>1
  <2>2. IsTaken(TakenTo(long, names, T, plain, h), T[h])
    BY <2>1, TakenIs
  <2> HIDE DEF r
  <2>3. r # QwkErr /\ r.text = T[h]
    BY <2>2 DEF IsTaken, r
  <2>4. "text" \in DOMAIN plain
    BY DEF HasKludges
  <2> QED BY <2>3, <2>4
<1>3. k \in DOMAIN KludgeHeads /\ c \in Seq(Int) /\ NoLineEnd(c) /\ T[i] \in Seq(Int) /\ k \in DOMAIN plain /\ k # "text"
  <2>1. k \in DOMAIN KludgeHeads
    BY ElementOfSeq DEF HasKludges
  <2>2. c \in Seq(Int) /\ T[i] \in Seq(Int)
    BY <1>1, <2>1 DEF HasKludges
  <2>3. NoLineEnd(c) /\ k \in DOMAIN plain
    BY <2>1 DEF HasKludges
  <2>4. k # "text"
    BY <2>1, HeadsAre
  <2> QED BY <2>1, <2>2, <2>3, <2>4
<1> DEFINE t == KludgeLine(k, c) \o T[i]
<1>4. T[h] = t
  BY DEF HasKludges
<1> HIDE DEF r, h, c
<1>5. KludgeOf(t) = {k} /\ FirstLineEnd(t) # 0 /\ SubSeq(t, Len(KludgeHeads[k]) + 1, LineLen(t)) = c
      /\ AfterLine(t) = T[i]
  <2> DEFINE rest == T[i]
             key == k
  <2>1. key \in DOMAIN KludgeHeads /\ c \in Seq(Int) /\ NoLineEnd(c) /\ rest \in Seq(Int)
    BY <1>3
  <2> HIDE DEF rest, key, k
  <2>2. LET u == KludgeLine(key, c) \o rest
        IN /\ KludgeOf(u) = {key} /\ FirstLineEnd(u) # 0
           /\ SubSeq(u, Len(KludgeHeads[key]) + 1, LineLen(u)) = c
           /\ AfterLine(u) = rest
    BY <2>1, LineIsRead
  <2> QED BY <2>2 DEF rest, key
<1>6. r.text = t
  BY <1>2, <1>4
<1> HIDE DEF t
<1>7. (CHOOSE x \in {k} : TRUE) = k
  OBVIOUS
<1>8. KludgeStep(r) = [r EXCEPT ![k] = c, !.text = T[i]]
  <2> DEFINE q == CHOOSE x \in KludgeOf(r.text) : TRUE
  <2>1. q = k
    BY <1>5, <1>6, <1>7
  <2>2. KludgeOf(r.text) # {} /\ FirstLineEnd(r.text) # 0
    BY <1>5, <1>6
  <2>3. KludgeStep(r) = [r EXCEPT ![q] = SubSeq(r.text, Len(KludgeHeads[q]) + 1, LineLen(r.text)),
                                  !.text = AfterLine(r.text)]
    BY <1>2, <2>2 DEF KludgeStep
  <2> HIDE DEF q
  <2>4. SubSeq(r.text, Len(KludgeHeads[q]) + 1, LineLen(r.text)) = c /\ AfterLine(r.text) = T[i]
    BY <1>5, <1>6, <2>1
  <2> QED BY <2>1, <2>3, <2>4
<1>9. [r EXCEPT ![k] = c, !.text = T[i]] = s
  <2> DEFINE a == [r EXCEPT ![k] = c, !.text = T[i]]
             D == DOMAIN plain
  <2>1. r = [f \in D |-> IF f = "text" THEN T[h] ELSE IF \E j \in 1 .. h : long[j] = f THEN names[f] ELSE plain[f]]
    BY DEF r, TakenTo
  <2>2. s = [f \in D |-> IF f = "text" THEN T[i] ELSE IF \E j \in 1 .. i : long[j] = f THEN names[f] ELSE plain[f]]
    BY DEF TakenTo
  <2> HIDE DEF D
  <2>3. a = [f \in D |-> IF f = "text" THEN T[i] ELSE IF f = k THEN c ELSE r[f]]
    <3>1. DOMAIN r = D
      BY <2>1
    <3>2. k # "text"
      BY <1>3
    <3> HIDE DEF k
    <3> QED BY <3>1, <3>2
  <2>4. ASSUME NEW f \in D, f # "text", f # k
        PROVE  (\E j \in 1 .. i : long[j] = f) <=> (\E j \in 1 .. h : long[j] = f)
    <3>1. \A j \in 1 .. i : j \in 1 .. h \/ j = i
      BY <1>1
    <3>2. \A j \in 1 .. h : j \in 1 .. i
      BY <1>1
    <3> QED BY <2>4, <3>1, <3>2
  <2>5. ASSUME NEW f \in D
        PROVE  (IF f = "text" THEN T[i] ELSE IF f = k THEN c ELSE r[f])
                 = IF f = "text" THEN T[i] ELSE IF \E j \in 1 .. i : long[j] = f THEN names[f] ELSE plain[f]
    <3>1. CASE f = "text"
      BY <3>1
    <3>2. CASE f # "text" /\ f = k
      <4>1. \E j \in 1 .. i : long[j] = f
        <5>1. i \in 1 .. i
          BY <1>1
        <5> QED BY <3>2, <5>1
      <4> QED BY <3>2, <4>1 DEF c
    <3>3. CASE f # "text" /\ f # k
      <4>1. r[f] = IF \E j \in 1 .. h : long[j] = f THEN names[f] ELSE plain[f]
        BY <2>1, <3>3
      <4> QED BY <2>4, <3>3, <4>1
    <3> QED BY <3>1, <3>2, <3>3
  <2> HIDE DEF k, c, r
  <2> QED BY <2>2, <2>3, <2>5
<1> QED BY <1>8, <1>9 DEF r, h

\* The loop takes them all, one by one, and stays there.
LEMMA KludgesAreTaken ==
  ASSUME NEW long, NEW names, NEW T, NEW plain, HasKludges(long, names, T, plain),
         NumLines(plain.text) \in Nat, Len(long) <= NumLines(plain.text)
  PROVE  TakeKludges(plain) = TakenTo(long, names, T, plain, Len(long))
<1> DEFINE n == Len(long)
           At0(i) == TakenTo(long, names, T, plain, i)
           Rhs(f) == [i \in Nat |-> IF i = 0 THEN plain ELSE KludgeStep(f[i - 1])]
           take == CHOOSE f : f = Rhs(f)
           m == NumLines(plain.text)
           g == [i \in Nat |-> At0(IF i <= n THEN i ELSE n)]
<1>1. n \in Nat /\ m \in Nat /\ n <= m
  BY LenProperties DEF HasKludges
<1>2. TakeKludges(plain) = take[m]
  BY DEF TakeKludges, KludgeStep
<1> HIDE DEF m
<1>3. At0(0) = plain
  <2> DEFINE D == DOMAIN plain
  <2>1. plain = [f \in D |-> plain[f]] /\ plain["text"] = T[0]
    BY DEF HasKludges
  <2>2. At0(0) = [f \in D |-> IF f = "text" THEN T[0]
                              ELSE IF \E j \in 1 .. 0 : long[j] = f THEN names[f] ELSE plain[f]]
    BY DEF TakenTo
  <2> HIDE DEF D, At0
  <2>3. \A f \in D : (IF f = "text" THEN T[0]
                      ELSE IF \E j \in 1 .. 0 : long[j] = f THEN names[f] ELSE plain[f]) = plain[f]
    BY <2>1
  <2> QED BY <2>1, <2>2, <2>3
<1>4. \A i \in 1 .. n : KludgeStep(At0(i - 1)) = At0(i)
  BY StepTakes
<1>5. KludgeStep(At0(n)) = At0(n)
  <2>1. n \in 0 .. Len(long)
    BY <1>1
  <2>2. IsTaken(At0(n), T[n])
    BY <2>1, TakenIs
  <2>3. KludgeOf(T[n]) = {}
    BY DEF HasKludges
  <2> DEFINE r == At0(n)
  <2>4. IsTaken(r, T[n])
    BY <2>2
  <2> HIDE DEF At0, r
  <2>5. r.text = T[n]
    BY <2>4 DEF IsTaken
  <2>6. KludgeStep(r) = r
    BY <2>3, <2>5 DEF KludgeStep
  <2> QED BY <2>6 DEF r
<1> HIDE DEF n, At0
<1>6. g = Rhs(g)
  <2>1. ASSUME NEW i \in Nat PROVE g[i] = IF i = 0 THEN plain ELSE KludgeStep(g[i - 1])
    <3>1. CASE i = 0
      <4>1. g[i] = At0(0)
        BY <1>1, <3>1
      <4> QED BY <1>3, <3>1, <4>1
    <3>2. CASE i # 0 /\ i <= n
      <4>1. i - 1 \in Nat /\ i - 1 <= n /\ i \in 1 .. n
        BY <1>1, <3>2
      <4>2. g[i] = At0(i) /\ g[i - 1] = At0(i - 1)
        BY <3>2, <4>1
      <4> QED BY <1>4, <3>2, <4>1, <4>2
    <3>3. CASE i # 0 /\ ~(i <= n)
      <4>1. i - 1 \in Nat /\ (i - 1 <= n => i - 1 = n)
        BY <1>1, <3>3
      <4>2. g[i] = At0(n) /\ g[i - 1] = At0(n)
        BY <3>3, <4>1
      <4> QED BY <1>5, <3>3, <4>2
    <3> QED BY <3>1, <3>2, <3>3
  <2> QED BY <2>1
<1>7. g[m] = At0(n)
  BY <1>1
<1> HIDE DEF g
<1>8. take = Rhs(take)
  <2> HIDE DEF Rhs
  <2> QED BY <1>6
<1> HIDE DEF take
<1> DEFINE P == {i \in Nat : take[i] = g[i]}
<1>9. 0 \in P
  <2>1. take[0] = plain /\ g[0] = plain
    BY <1>6, <1>8
  <2> QED BY <2>1
<1>10. ASSUME NEW i \in Nat, i \in P PROVE i + 1 \in P
  <2> DEFINE j == i + 1
  <2>1. j \in Nat /\ j # 0 /\ j - 1 = i
    OBVIOUS
  <2>2. take[i] = g[i]
    BY <1>10
  <2> HIDE DEF j
  <2>3. take[j] = KludgeStep(take[i]) /\ g[j] = KludgeStep(g[i])
    BY <1>6, <1>8, <2>1
  <2>4. j \in P
    BY <2>1, <2>2, <2>3
  <2> QED BY <2>4 DEF j
<1> HIDE DEF P
<1>11. m \in P
  BY <1>1, <1>9, <1>10, NatInduct
<1>12. take[m] = g[m]
  BY <1>11 DEF P
<1> QED BY <1>2, <1>7, <1>12 DEF At0, n

-----------------------------------------------------------------------------
(***************************************************************************)
(* A message, laid out and read. Its fields are read first, then the       *)
(* kludges.                                                                *)
(***************************************************************************)

\* Texts are filled up with blanks to whole blocks.
LEMMA Filled ==
  ASSUME NEW s \in Seq(Int)
  PROVE  /\ FillBlock(s) \in Seq(Int)
         /\ Len(FillBlock(s)) \div Block \in Nat
         /\ Len(FillBlock(s)) = Block * (Len(FillBlock(s)) \div Block)
         /\ Len(FillBlock(s)) < Len(s) + Block
         /\ \E x \in Nat : FillBlock(s) = s \o Blanks(x)
<1> DEFINE l == Len(s)
           x == (128 - (l % 128)) % 128
           b == Blanks(x)
           t == s \o b
           q == (l + x) \div 128
<1>1. l \in Nat
  OBVIOUS
<1>2. FillBlock(s) = t
  BY DEF FillBlock, Block
<1> HIDE DEF l
<1>3. x \in Nat /\ x < 128 /\ q \in Nat /\ l + x = 128 * q
  BY <1>1, SMT
<1> HIDE DEF x, q
<1>4. b \in Seq(Int) /\ Len(b) = x
  BY <1>3, BlanksAre
<1>5. t \in Seq(Int) /\ Len(t) = l + x
  <2>1. b \in Seq(Int)
    BY <1>4
  <2> HIDE DEF b
  <2>2. t \in Seq(Int) /\ Len(t) = l + Len(b)
    BY <2>1, Joined DEF l
  <2> QED BY <1>4, <2>2
<1>6. Len(t) = 128 * q /\ Len(t) \div 128 = q
  BY <1>3, <1>5 DEF q
<1>7. Len(t) < Len(s) + 128
  BY <1>1, <1>3, <1>5 DEF l
<1> HIDE DEF t
<1>8. t = s \o Blanks(x)
  BY DEF t
<1> QED BY <1>2, <1>3, <1>5, <1>6, <1>7, <1>8 DEF Block

\* What fits into a field, and is not cut short as its blanks are.
FitsField(s, n) == s \in Seq(Int) /\ Len(s) <= n /\ (Len(s) > 0 => s[Len(s)] # Space)

\* A name that ends its line neither in memory nor in the file.
NoEnds(s) == \A i \in 1 .. Len(s) : s[i] \notin {NewLine, CarriageReturn, PCB_TXT_EOL}

\* The fields of a message.
DoorFields == {"status", "msg_number", "date_time", "to", "from", "subj", "password", "ref_msg_number",
               "active_flag", "conference", "logical", "net_tag", "text"}

\* A message a mail door lays out: its fields fit, but for the names that have
\* a kludge, no such name has a line feed or a carriage return, the text has no
\* byte that stands for one in the file and does not begin as a kludge does.  A
\* blank line behind the kludges is the first line of the text.
IsDoorMessage(m, long) ==
  /\ DOMAIN m = DoorFields /\ long \in Seq(DOMAIN KludgeHeads)
  /\ m.status \in Int /\ m.active_flag \in Int /\ m.net_tag \in Int
  /\ m.msg_number \in Nat /\ Len(DecimalText(m.msg_number)) <= 7
  /\ m.ref_msg_number \in Nat /\ Len(DecimalText(m.ref_msg_number)) <= 8
  /\ FitsField(m.date_time, 13) /\ FitsField(m.password, 12)
  /\ m.conference \in Seq(Int) /\ Len(m.conference) = 2
  /\ m.logical \in Seq(Int) /\ Len(m.logical) = 2
  /\ \A k \in DOMAIN KludgeHeads :
       m[k] \in Seq(Int) /\ (FitsField(m[k], NameLen) \/ \E i \in 1 .. Len(long) : long[i] = k)
  /\ \A i \in 1 .. Len(long) : NoEnds(m[long[i]])
  /\ m.text \in Seq(Int) /\ \A i \in 1 .. Len(m.text) : m.text[i] # PCB_TXT_EOL
  /\ \A n \in Nat : KludgeOf(m.text \o Blanks(n)) = {}
  /\ Len(DecimalText(Len(FillBlock(DoorText(m, long))) \div Block + 1)) <= 6

\* The line of a kludge, as it is in the file and as it is read.
LEMMA LineReplaced ==
  ASSUME NEW k \in DOMAIN KludgeHeads, NEW c \in Seq(Int), NoEnds(c)
  PROVE  LET s == KludgeHeads[k] \o c \o <<PCB_TXT_EOL>>
         IN s \in Seq(Int) /\ ReplaceBytes(s, PCB_TXT_EOL, NewLine) = KludgeLine(k, c)
<1> DEFINE d == KludgeHeads[k]
           e == <<PCB_TXT_EOL>>
           a == d \o c
           s == a \o e
           R(u) == ReplaceBytes(u, PCB_TXT_EOL, NewLine)
<1>1. /\ d \in Seq(Int) /\ PCB_TXT_EOL \in Int /\ NewLine \in Int /\ e \in Seq(Int)
      /\ \A i \in 1 .. Len(d) : d[i] # PCB_TXT_EOL
      /\ \A i \in 1 .. Len(c) : c[i] # PCB_TXT_EOL
  <2>1. PCB_TXT_EOL \in Int /\ NewLine \in Int
    BY DEF PCB_TXT_EOL, NewLine
  <2>2. e \in Seq(Int)
    BY <2>1
  <2>3. d \in Seq(Int) /\ \A i \in 1 .. Len(d) : d[i] # PCB_TXT_EOL
    BY HeadsAre
  <2>4. \A i \in 1 .. Len(c) : c[i] # PCB_TXT_EOL
    BY DEF NoEnds
  <2> QED BY <2>1, <2>2, <2>3, <2>4
<1> HIDE DEF d
<1>2. a \in Seq(Int) /\ s \in Seq(Int)
  BY <1>1, ConcatProperties
<1>3. R(s) = R(a) \o R(e)
  <2> HIDE DEF a, e
  <2> QED BY <1>1, <1>2, ReplacedJoin
<1>4. R(a) = R(d) \o R(c)
  BY <1>1, ReplacedJoin
<1>5. R(d) = d /\ R(c) = c
  BY <1>1, ReplacedNone
<1>6. R(e) = <<NewLine>>
  BY DEF ReplaceBytes, PCB_TXT_EOL, NewLine
<1>7. R(s) = (d \o c) \o <<NewLine>>
  BY <1>3, <1>4, <1>5, <1>6
<1> QED BY <1>2, <1>7 DEF KludgeLine, d

\* The text of a message as it is read: kludge by kludge, then its own.
IsText(T, m, long) ==
  /\ T \in [0 .. Len(long) -> Seq(Int)]
  /\ FillBlock(DoorText(m, long)) \in Seq(Int)
  /\ T[0] = ReplaceBytes(FillBlock(DoorText(m, long)), PCB_TXT_EOL, NewLine)
  /\ \A i \in 1 .. Len(long) : T[i - 1] = KludgeLine(long[i], m[long[i]]) \o T[i]
  /\ \E x \in Nat : T[Len(long)] = m.text \o Blanks(x)

\* The text of a door's message is read so, and is whole blocks in the file.
LEMMA DoorTextIs ==
  ASSUME NEW m, NEW long, IsDoorMessage(m, long)
  PROVE  /\ \E T : IsText(T, m, long)
         /\ Len(FillBlock(DoorText(m, long))) \div Block \in Nat
         /\ Len(FillBlock(DoorText(m, long))) = Block * (Len(FillBlock(DoorText(m, long))) \div Block)
<1> DEFINE n == Len(long)
           line(i) == KludgeHeads[long[i]] \o m[long[i]] \o <<PCB_TXT_EOL>>
           ss == [i \in 1 .. n |-> line(i)]
           own == ReplaceBytes(m.text, NewLine, PCB_TXT_EOL)
           flat == FlattenSeq(ss)
           s == flat \o own
           R(u) == ReplaceBytes(u, PCB_TXT_EOL, NewLine)
<1>1. /\ n \in Nat /\ DOMAIN long = 1 .. n /\ m.text \in Seq(Int)
      /\ \A i \in 1 .. n : /\ long[i] \in DOMAIN KludgeHeads /\ m[long[i]] \in Seq(Int)
                           /\ NoEnds(m[long[i]])
  <2>1. long \in Seq(DOMAIN KludgeHeads)
    BY DEF IsDoorMessage
  <2>2. n \in Nat /\ DOMAIN long = 1 .. n /\ \A i \in 1 .. n : long[i] \in DOMAIN KludgeHeads
    BY <2>1, LenProperties, ElementOfSeq
  <2> QED BY <2>2 DEF IsDoorMessage
<1>2. PCB_TXT_EOL \in Int /\ NewLine \in Int
  BY DEF PCB_TXT_EOL, NewLine
<1>3. DoorText(m, long) = s
  BY <1>1 DEF DoorText
<1> HIDE DEF n
<1>4. \A i \in 1 .. n : line(i) \in Seq(Int) /\ R(line(i)) = KludgeLine(long[i], m[long[i]])
  <2> TAKE i \in 1 .. n
  <2> DEFINE k == long[i]
             c == m[k]
  <2>1. k \in DOMAIN KludgeHeads /\ c \in Seq(Int) /\ NoEnds(c)
    BY <1>1
  <2> HIDE DEF k, c
  <2>2. LET u == KludgeHeads[k] \o c \o <<PCB_TXT_EOL>>
        IN u \in Seq(Int) /\ ReplaceBytes(u, PCB_TXT_EOL, NewLine) = KludgeLine(k, c)
    BY <2>1, LineReplaced
  <2> QED BY <2>2 DEF k, c
<1> HIDE DEF line
<1>5. ss \in Seq(Seq(Int)) /\ Len(ss) = n /\ \A i \in 1 .. n : ss[i] = line(i)
  <2>1. ss \in [1 .. n -> Seq(Int)] /\ \A i \in 1 .. n : ss[i] = line(i)
    BY <1>4
  <2> HIDE DEF ss
  <2> QED BY <1>1, <2>1, RowIsSeq
<1> HIDE DEF ss
<1>6. own \in Seq(Int) /\ R(own) = m.text
  <2>1. \A i \in 1 .. Len(m.text) : m.text[i] # PCB_TXT_EOL
    BY DEF IsDoorMessage
  <2> DEFINE t == m.text
  <2>2. t \in Seq(Int) /\ \A i \in 1 .. Len(t) : t[i] # PCB_TXT_EOL
    BY <1>1, <2>1
  <2> HIDE DEF t
  <2>3. ReplaceBytes(t, NewLine, PCB_TXT_EOL) \in Seq(Int)
    BY <1>2, <2>2, ReplacedIs
  <2>4. ReplaceBytes(ReplaceBytes(t, NewLine, PCB_TXT_EOL), PCB_TXT_EOL, NewLine) = t
    BY <1>2, <2>2, ReplacedBack
  <2> QED BY <2>3, <2>4 DEF t
<1> HIDE DEF own
<1>7. flat \in Seq(Int)
  <2>1. FlattenSeq(ss) \in Seq(Int)
    BY <1>5, Pieces
  <2> QED BY <2>1
<1> HIDE DEF flat
<1>8. s \in Seq(Int)
  BY <1>6, <1>7, ConcatProperties
<1> HIDE DEF s
<1>9. PICK x \in Nat : FillBlock(s) = s \o Blanks(x)
  BY <1>8, Filled
<1> DEFINE b == Blanks(x)
           base == own \o b
<1>10. b \in Seq(Int) /\ base \in Seq(Int)
  <2>1. b \in Seq(Int)
    BY BlanksAre
  <2> HIDE DEF b
  <2> QED BY <1>6, <2>1, ConcatProperties
<1>11. FillBlock(s) = flat \o base
  <2>1. FillBlock(s) = (flat \o own) \o b
    BY <1>9 DEF s
  <2>2. (flat \o own) \o b = flat \o (own \o b)
    <3>1. b \in Seq(Int)
      BY <1>10
    <3> HIDE DEF b
    <3>2. flat \in Seq(Int) /\ own \in Seq(Int) /\ b \in Seq(Int)
      BY <1>6, <1>7, <3>1
    <3> QED BY <3>2, ConcatAssociative
  <2> QED BY <2>1, <2>2
<1>12. R(base) = m.text \o b
  <2>1. R(base) = R(own) \o R(b)
    <3>1. b \in Seq(Int)
      BY <1>10
    <3> HIDE DEF b
    <3> QED BY <1>2, <1>6, <3>1, ReplacedJoin
  <2>2. R(b) = b
    <3>1. b \in Seq(Int) /\ \A i \in 1 .. Len(b) : b[i] = Space
      BY BlanksAre
    <3>2. Space # PCB_TXT_EOL
      BY DEF Space, PCB_TXT_EOL
    <3> HIDE DEF b
    <3>3. \A i \in 1 .. Len(b) : b[i] # PCB_TXT_EOL
      BY <3>1, <3>2
    <3> QED BY <1>2, <3>1, <3>3, ReplacedNone
  <2> QED BY <1>6, <2>1, <2>2
<1> HIDE DEF base
<1>13. PICK U : IsTails(U, Int, ss, base)
  <2>1. base \in Seq(Int) /\ ss \in Seq(Seq(Int))
    BY <1>5, <1>10
  <2> QED BY <2>1, Tails
<1>14. /\ U \in [0 .. n -> Seq(Int)] /\ U[0] = flat \o base /\ U[n] = base
       /\ \A i \in 1 .. n : U[i - 1] = ss[i] \o U[i]
  BY <1>5, <1>13 DEF IsTails, flat
<1> DEFINE T == [i \in 0 .. n |-> R(U[i])]
<1>15. T \in [0 .. n -> Seq(Int)] /\ \A i \in 0 .. n : T[i] = R(U[i])
  <2>1. \A i \in 0 .. n : R(U[i]) \in Seq(Int)
    <3> TAKE i \in 0 .. n
    <3> DEFINE u == U[i]
    <3>1. u \in Seq(Int)
      BY <1>14
    <3> HIDE DEF u
    <3>2. R(u) \in Seq(Int)
      BY <1>2, <3>1, ReplacedIs
    <3> QED BY <3>2 DEF u
  <2> HIDE DEF R
  <2> QED BY <2>1
<1> HIDE DEF T
<1>16. \A i \in 1 .. n : T[i - 1] = KludgeLine(long[i], m[long[i]]) \o T[i]
  <2> TAKE i \in 1 .. n
  <2> DEFINE a == line(i)
             u == U[i]
  <2>1. i \in 0 .. n /\ i - 1 \in 0 .. n
    BY <1>1
  <2>2. a \in Seq(Int) /\ u \in Seq(Int) /\ U[i - 1] = a \o u
    BY <1>4, <1>5, <1>14, <2>1
  <2>3. T[i - 1] = R(U[i - 1]) /\ T[i] = R(u) /\ R(a) = KludgeLine(long[i], m[long[i]])
    BY <1>4, <1>15, <2>1
  <2> HIDE DEF a, u
  <2>4. R(a \o u) = R(a) \o R(u)
    BY <1>2, <2>2, ReplacedJoin
  <2> HIDE DEF R
  <2> QED BY <2>2, <2>3, <2>4
<1>17. T[0] = R(FillBlock(s)) /\ T[n] = m.text \o Blanks(x)
  <2>1. 0 \in 0 .. n /\ n \in 0 .. n
    BY <1>1
  <2> HIDE DEF R
  <2> QED BY <1>11, <1>12, <1>14, <1>15, <2>1
<1>18. /\ FillBlock(s) \in Seq(Int) /\ Len(FillBlock(s)) \div Block \in Nat
       /\ Len(FillBlock(s)) = Block * (Len(FillBlock(s)) \div Block)
  BY <1>8, Filled
<1>19. IsText(T, m, long)
  BY <1>3, <1>15, <1>16, <1>17, <1>18 DEF IsText, n
<1> QED BY <1>3, <1>18, <1>19

\* The message that is read before the loop over the kludges.
PlainRead(d, k) ==
  [ok |-> TRUE, status |-> d[1], msg_number |-> ParseQwkNumber(At(d, 1, 7)),
   date_time |-> TrimmedName(At(d, 8, 13)), to |-> TrimmedName(At(d, 21, 25)),
   from |-> TrimmedName(At(d, 46, 25)), subj |-> TrimmedName(At(d, 71, 25)),
   password |-> TrimmedName(At(d, 96, 12)), ref_msg_number |-> ParseQwkNumber(At(d, 108, 8)),
   active_flag |-> d[123], conference |-> At(d, 123, 2), logical |-> At(d, 125, 2),
   net_tag |-> d[128], text |-> ReplaceBytes(At(d, Block, k), PCB_TXT_EOL, NewLine)]

\* It is read as long as its numbers are numbers and its blocks are there.
LEMMA ReadIs ==
  ASSUME NEW d, NEW k, Len(d) \in Nat, k \in Nat, Len(d) = 128 + k,
         \A f \in {At(d, 1, 7), At(d, 108, 8), At(d, 116, 6)} : IsQwkNumber(f),
         NEW q \in Nat, k = Block * q, ParseQwkNumber(At(d, 116, 6)) = q + 1
  PROVE  ReadQwk(d, TRUE) = TakeKludges(PlainRead(d, k))
<1> DEFINE at(first, n) == SubSeq(d, first + 1, first + n)
           number == ParseQwkNumber(at(116, 6))
           textLen == Block * (IF number = 0 THEN 0 ELSE number - 1)
<1>1. \A first, n : at(first, n) = At(d, first, n)
  BY DEF At
<1>2. textLen = k
  <2>1. number = q + 1
    BY <1>1
  <2> HIDE DEF number
  <2>2. (IF number = 0 THEN 0 ELSE number - 1) = q
    BY <2>1
  <2> QED BY <2>2
<1>3. ~(Len(d) < Block) /\ ~(Block + textLen > Len(d))
  BY <1>2 DEF Block
<1>4. ~(\E f \in {at(1, 7), at(108, 8), at(116, 6)} : ~IsQwkNumber(f))
  BY <1>1
<1>5. ReadQwk(d, TRUE) =
        TakeKludges([ok |-> TRUE, status |-> d[1], msg_number |-> ParseQwkNumber(at(1, 7)),
                date_time |-> TrimmedName(at(8, 13)), to |-> TrimmedName(at(21, 25)),
                from |-> TrimmedName(at(46, 25)), subj |-> TrimmedName(at(71, 25)),
                password |-> TrimmedName(at(96, 12)), ref_msg_number |-> ParseQwkNumber(at(108, 8)),
                active_flag |-> d[123], conference |-> at(123, 2), logical |-> at(125, 2),
                net_tag |-> d[128],
                text |-> ReplaceBytes(at(Block, textLen), PCB_TXT_EOL, NewLine)])
  BY <1>3, <1>4, Zenon DEF ReadQwk
<1> HIDE DEF textLen
<1> QED BY <1>2, <1>5 DEF PlainRead, At

\* A number at the left of its field.
LEMMA NumberField ==
  ASSUME NEW v \in Nat, NEW n \in Nat, Len(DecimalText(v)) <= n
  PROVE  LET a == LeftAligned(DecimalText(v), n)
         IN IsPiece(a, n) /\ IsQwkNumber(a) /\ ParseQwkNumber(a) = v
<1> DEFINE s == DecimalText(v)
           a == LeftAligned(s, n)
<1>1. IsDecimal(s, v)
  BY DecimalReadBack
<1>2. s \in Seq(Int)
  <2>1. DigitBytes \subseteq Int
    BY DEF DigitBytes
  <2>2. s \in Seq(DigitBytes)
    BY <1>1 DEF IsDecimal
  <2> HIDE DEF s
  <2> QED BY <2>1, <2>2, SeqMonotonic
<1>3. Len(s) <= n
  OBVIOUS
<1> HIDE DEF s
<1>4. IsAligned(a, s, n)
  BY <1>2, <1>3, AlignedIs
<1> HIDE DEF a
<1>5. IsPiece(a, n)
  BY <1>4 DEF IsAligned, IsPiece
<1>6. IsQwkNumber(a) /\ ParseQwkNumber(a) = v
  BY <1>1, <1>4, NumberIsRead
<1> QED BY <1>5, <1>6 DEF a, s

\* A name at the left of its field.
LEMMA NameField ==
  ASSUME NEW s, NEW n \in Nat, FitsField(s, n)
  PROVE  LET a == LeftAligned(s, n) IN IsPiece(a, n) /\ TrimmedName(a) = s
<1> DEFINE a == LeftAligned(s, n)
<1>1. IsAligned(a, s, n)
  BY AlignedIs DEF FitsField
<1> HIDE DEF a
<1>2. IsPiece(a, n)
  BY <1>1 DEF IsAligned, IsPiece
<1>3. TrimmedName(a) = s
  BY <1>1, NameIsRead DEF FitsField
<1> QED BY <1>2, <1>3 DEF a

\* A name that resize fits into its field.
LEMMA ResizedField ==
  ASSUME NEW s \in Seq(Int), NEW n \in Nat
  PROVE  LET a == Resized(s, n) IN IsPiece(a, n) /\ (FitsField(s, n) => TrimmedName(a) = s)
<1> DEFINE a == Resized(s, n)
<1>1. a \in Seq(Int) /\ Len(a) = n /\ (Len(s) <= n => IsAligned(a, s, n))
  BY ResizedIs
<1> HIDE DEF a
<1>2. IsPiece(a, n)
  BY <1>1 DEF IsPiece
<1>3. ASSUME FitsField(s, n) PROVE TrimmedName(a) = s
  <2>1. IsAligned(a, s, n)
    BY <1>1, <1>3 DEF FitsField
  <2> QED BY <1>3, <2>1, NameIsRead DEF FitsField
<1> QED BY <1>2, <1>3 DEF a

\* The fields of a door's message, but for the text and the names that have a
\* kludge.
IsPlain(p, m, text) ==
  /\ p = [f \in DOMAIN p |-> p[f]] /\ DOMAIN p = DoorFields \cup {"ok"}
  /\ p.ok = TRUE /\ p.text = text
  /\ \A f \in DoorFields \ {"text"} : f \notin DOMAIN KludgeHeads => p[f] = m[f]
  /\ \A f \in DOMAIN KludgeHeads : FitsField(m[f], NameLen) => p[f] = m[f]

\* Every field of a door's message is read where it was laid out.
LEMMA DoorFieldsAreRead ==
  ASSUME NEW m, NEW long, IsDoorMessage(m, long)
  PROVE  \E p : /\ ReadQwk(DoorBytes(m, long), TRUE) = TakeKludges(p)
                /\ IsPlain(p, m, ReplaceBytes(FillBlock(DoorText(m, long)), PCB_TXT_EOL, NewLine))
<1> DEFINE text == FillBlock(DoorText(m, long))
           q == Len(text) \div Block
           k == Len(text)
           p1 == <<m.status>>
           p2 == LeftAligned(DecimalText(m.msg_number), 7)
           p3 == LeftAligned(m.date_time, 13)
           p4 == Resized(m.to, NameLen)
           p5 == Resized(m.from, NameLen)
           p6 == Resized(m.subj, NameLen)
           p7 == LeftAligned(m.password, 12)
           p8 == LeftAligned(DecimalText(m.ref_msg_number), 8)
           p9 == LeftAligned(DecimalText(q + 1), 6)
           p10 == <<m.active_flag>>
           p11 == m.conference
           p12 == m.logical
           p13 == <<m.net_tag>>
           d == AllPieces(p1, p2, p3, p4, p5, p6, p7, p8, p9, p10, p11, p12, p13, text)
           p == PlainRead(d, k)
<1>1. DoorBytes(m, long) = d
  BY DEF DoorBytes, AllPieces
<1>2. text \in Seq(Int) /\ k \in Nat /\ q \in Nat /\ k = Block * q
  <2>1. text \in Seq(Int)
    BY DoorTextIs DEF IsText
  <2> QED BY <2>1, LenProperties, DoorTextIs
<1>3. Len(DecimalText(q + 1)) <= 6
  BY DEF IsDoorMessage
<1> HIDE DEF text, q, k
<1>4. /\ m.status \in Int /\ m.active_flag \in Int /\ m.net_tag \in Int
      /\ m.conference \in Seq(Int) /\ Len(m.conference) = 2
      /\ m.logical \in Seq(Int) /\ Len(m.logical) = 2
  BY DEF IsDoorMessage
<1>5. IsPiece(p1, 1) /\ p1[1] = m.status
  BY <1>4 DEF IsPiece
<1>6. IsPiece(p2, 7) /\ IsQwkNumber(p2) /\ ParseQwkNumber(p2) = m.msg_number
  <2>1. m.msg_number \in Nat /\ Len(DecimalText(m.msg_number)) <= 7
    BY DEF IsDoorMessage
  <2> QED BY <2>1, NumberField
<1>7. IsPiece(p3, 13) /\ TrimmedName(p3) = m.date_time
  <2>1. FitsField(m.date_time, 13)
    BY DEF IsDoorMessage
  <2> QED BY <2>1, NameField
<1>8. NameLen = 25 /\ \A f \in DOMAIN KludgeHeads : m[f] \in Seq(Int)
  BY DEF IsDoorMessage, NameLen
<1>9. \A f \in DOMAIN KludgeHeads : IsPiece(Resized(m[f], NameLen), 25)
                                    /\ (FitsField(m[f], NameLen) => TrimmedName(Resized(m[f], NameLen)) = m[f])
  BY <1>8, ResizedField
<1>10. IsPiece(p4, 25) /\ IsPiece(p5, 25) /\ IsPiece(p6, 25)
  BY <1>9, HeadsAre
<1>11. IsPiece(p7, 12) /\ TrimmedName(p7) = m.password
  <2>1. FitsField(m.password, 12)
    BY DEF IsDoorMessage
  <2> QED BY <2>1, NameField
<1>12. IsPiece(p8, 8) /\ IsQwkNumber(p8) /\ ParseQwkNumber(p8) = m.ref_msg_number
  <2>1. m.ref_msg_number \in Nat /\ Len(DecimalText(m.ref_msg_number)) <= 8
    BY DEF IsDoorMessage
  <2> QED BY <2>1, NumberField
<1>13. IsPiece(p9, 6) /\ IsQwkNumber(p9) /\ ParseQwkNumber(p9) = q + 1
  <2>1. q + 1 \in Nat
    BY <1>2
  <2> QED BY <1>3, <2>1, NumberField
<1>14. IsPiece(p10, 1) /\ p10[1] = m.active_flag /\ IsPiece(p13, 1) /\ p13[1] = m.net_tag
  BY <1>4 DEF IsPiece
<1>15. IsPiece(p11, 2) /\ IsPiece(p12, 2)
  BY <1>4 DEF IsPiece
<1>16. IsPiece(text, k)
  BY <1>2 DEF IsPiece, k
<1> HIDE DEF p1, p2, p3, p4, p5, p6, p7, p8, p9, p10, p11, p12, p13
<1>17. ArePieces(p1, p2, p3, p4, p5, p6, p7, p8, p9, p10, p11, p12, p13, text, k)
  BY <1>5, <1>6, <1>7, <1>10, <1>11, <1>12, <1>13, <1>14, <1>15, <1>16 DEF ArePieces
<1>18. /\ d \in Seq(Int) /\ Len(d) = 128 + k
       /\ At(d, 1, 7) = p2 /\ At(d, 8, 13) = p3 /\ At(d, 21, 25) = p4
       /\ At(d, 46, 25) = p5 /\ At(d, 71, 25) = p6 /\ At(d, 96, 12) = p7 /\ At(d, 108, 8) = p8
       /\ At(d, 116, 6) = p9 /\ At(d, 123, 2) = p11 /\ At(d, 125, 2) = p12
       /\ At(d, 128, k) = text
       /\ d[1] = p1[1] /\ d[123] = p10[1] /\ d[128] = p13[1]
  BY <1>17, PiecesAreRead
<1> HIDE DEF d
<1>19. ReadQwk(d, TRUE) = TakeKludges(p)
  <2>1. Len(d) \in Nat
    BY <1>18, LenProperties
  <2>2. \A f \in {At(d, 1, 7), At(d, 108, 8), At(d, 116, 6)} : IsQwkNumber(f)
    BY <1>6, <1>12, <1>13, <1>18
  <2>3. ParseQwkNumber(At(d, 116, 6)) = q + 1
    BY <1>13, <1>18
  <2> QED BY <1>2, <1>18, <2>1, <2>2, <2>3, ReadIs
<1>20. DOMAIN p = DoorFields \cup {"ok"} /\ p = [f \in DOMAIN p |-> p[f]]
  BY DEF PlainRead, DoorFields
<1>21. p.ok = TRUE /\ p.text = ReplaceBytes(text, PCB_TXT_EOL, NewLine)
  <2>1. At(d, Block, k) = text
    BY <1>18 DEF Block
  <2> QED BY <2>1 DEF PlainRead
<1>22. /\ p["status"] = m.status /\ p["msg_number"] = m.msg_number /\ p["date_time"] = m.date_time
       /\ p["password"] = m.password /\ p["ref_msg_number"] = m.ref_msg_number
       /\ p["active_flag"] = m.active_flag /\ p["conference"] = m.conference /\ p["logical"] = m.logical
       /\ p["net_tag"] = m.net_tag
  BY <1>5, <1>6, <1>7, <1>11, <1>12, <1>14, <1>18 DEF PlainRead, p11, p12
<1>23. p["to"] = TrimmedName(p4) /\ p["from"] = TrimmedName(p5) /\ p["subj"] = TrimmedName(p6)
  BY <1>18 DEF PlainRead
<1>24. \A f \in DOMAIN KludgeHeads : FitsField(m[f], NameLen) => p[f] = m[f]
  <2>1. \A f \in DOMAIN KludgeHeads : p[f] = TrimmedName(Resized(m[f], NameLen))
    BY <1>23, HeadsAre DEF p4, p5, p6
  <2> HIDE DEF p
  <2> QED BY <1>9, <2>1
<1> HIDE DEF p
<1>25. \A f \in DoorFields \ {"text"} : f \notin DOMAIN KludgeHeads => p[f] = m[f]
  <2>1. DOMAIN KludgeHeads = {"to", "from", "subj"}
    BY HeadsAre
  <2> QED BY <1>22, <2>1 DEF DoorFields
<1>26. IsPlain(p, m, ReplaceBytes(text, PCB_TXT_EOL, NewLine))
  BY <1>20, <1>21, <1>24, <1>25 DEF IsPlain
<1> QED BY <1>1, <1>19, <1>26 DEF text

\* There are as many lines as kludges, so the loop takes them all.
LEMMA LinesEnough ==
  ASSUME NEW m, NEW long, IsDoorMessage(m, long), NEW T, IsText(T, m, long)
  PROVE  NumLines(T[0]) \in Nat /\ Len(long) <= NumLines(T[0])
<1> DEFINE n == Len(long)
           P == {i \in Nat : i <= n => NumLines(T[n - i]) \in Nat /\ NumLines(T[n - i]) > i}
<1>1. /\ n \in Nat /\ T \in [0 .. n -> Seq(Int)]
      /\ \A i \in 1 .. n : long[i] \in DOMAIN KludgeHeads /\ m[long[i]] \in Seq(Int)
                           /\ T[i - 1] = KludgeLine(long[i], m[long[i]]) \o T[i]
  <2>1. long \in Seq(DOMAIN KludgeHeads)
    BY DEF IsDoorMessage
  <2>2. n \in Nat /\ \A i \in 1 .. n : long[i] \in DOMAIN KludgeHeads
    BY <2>1, LenProperties, ElementOfSeq
  <2> QED BY <2>2 DEF IsDoorMessage, IsText
<1> HIDE DEF n
<1>2. \A rest \in Seq(Int) : NumLines(rest) \in Nat \ {0}
  <2> TAKE rest \in Seq(Int)
  <2> DEFINE none == << >>
  <2>1. none \in Seq(Int) /\ "to" \in DOMAIN KludgeHeads
    BY HeadsAre
  <2> HIDE DEF none
  <2> QED BY <2>1, LineCounts
<1>3. 0 \in P
  <2>1. n - 0 = n /\ n \in 0 .. n
    BY <1>1
  <2>2. NumLines(T[n]) \in Nat \ {0}
    BY <1>1, <1>2, <2>1
  <2>3. NumLines(T[n - 0]) \in Nat /\ NumLines(T[n - 0]) > 0
    BY <2>1, <2>2
  <2> QED BY <2>3
<1>4. ASSUME NEW i \in Nat, i \in P PROVE i + 1 \in P
  <2> DEFINE j == i + 1
  <2>1. j \in Nat
    OBVIOUS
  <2>2. ASSUME j <= n PROVE NumLines(T[n - j]) \in Nat /\ NumLines(T[n - j]) > j
    <3> DEFINE h == n - i
               a == NumLines(T[h])
               b == NumLines(T[n - j])
    <3>1. h \in 1 .. n /\ h \in 0 .. n /\ h - 1 = n - j /\ i <= n
      BY <1>1, <2>2
    <3>2. a \in Nat /\ a > i
      BY <1>4, <3>1
    <3> HIDE DEF h, j
    <3>3. T[n - j] = KludgeLine(long[h], m[long[h]]) \o T[h]
      BY <1>1, <3>1
    <3>4. b \in Nat /\ a < b
      <4> DEFINE k == long[h]
                 c == m[k]
                 rest == T[h]
      <4>1. k \in DOMAIN KludgeHeads /\ c \in Seq(Int) /\ rest \in Seq(Int)
        BY <1>1, <3>1
      <4> HIDE DEF k, c, rest
      <4>2. /\ NumLines(KludgeLine(k, c) \o rest) \in Nat
            /\ NumLines(rest) < NumLines(KludgeLine(k, c) \o rest)
        BY <4>1, LineCounts
      <4> QED BY <3>3, <4>2 DEF k, c, rest
    <3> HIDE DEF a, b
    <3>5. b > i + 1
      BY <3>2, <3>4
    <3> QED BY <3>4, <3>5 DEF b, j
  <2> HIDE DEF j
  <2>3. j \in P
    BY <2>1, <2>2
  <2> QED BY <2>3 DEF j
<1> HIDE DEF P
<1>5. n \in P
  BY <1>1, <1>3, <1>4, NatInduct
<1>6. NumLines(T[n - n]) \in Nat /\ NumLines(T[n - n]) > n
  BY <1>1, <1>5 DEF P
<1>7. n - n = 0
  BY <1>1
<1> QED BY <1>1, <1>6, <1>7 DEF n

\* The text that is read is that of the message, with blanks behind it.
OnlyBlanksBehind(m, long) ==
  \E x \in Nat : ReadQwk(DoorBytes(m, long), TRUE).text = m.text \o Blanks(x)

\* QWKMessage::read gives every such message as it was laid out: each field,
\* whatever the number and order of its kludges, and the whole text with nothing
\* behind it but blanks.  A blank line that ends the kludges it does not take
\* for one: it is read as the first line of the text.
THEOREM DoorMessagesAreRead ==
  ASSUME NEW m, NEW long, IsDoorMessage(m, long)
  PROVE  /\ DoorMessageRead(m, long)
         /\ OnlyBlanksBehind(m, long)
<1> DEFINE n == Len(long)
           text == ReplaceBytes(FillBlock(DoorText(m, long)), PCB_TXT_EOL, NewLine)
           names == [k \in DOMAIN KludgeHeads |-> m[k]]
           all == DoorBytes(m, long)
<1>1. PICK T : IsText(T, m, long)
  BY DoorTextIs
<1>2. PICK p : ReadQwk(all, TRUE) = TakeKludges(p) /\ IsPlain(p, m, text)
  BY DoorFieldsAreRead
<1> DEFINE r == TakenTo(long, names, T, p, n)
<1>3. /\ n \in Nat /\ T \in [0 .. n -> Seq(Int)] /\ T[0] = text
      /\ \A i \in 1 .. n : long[i] \in DOMAIN KludgeHeads /\ NoEnds(m[long[i]])
                           /\ T[i - 1] = KludgeLine(long[i], m[long[i]]) \o T[i]
  <2>1. long \in Seq(DOMAIN KludgeHeads)
    BY DEF IsDoorMessage
  <2>2. n \in Nat /\ \A i \in 1 .. n : long[i] \in DOMAIN KludgeHeads
    BY <2>1, LenProperties, ElementOfSeq
  <2> QED BY <1>1, <2>2 DEF IsDoorMessage, IsText
<1>4. PICK x \in Nat : T[n] = m.text \o Blanks(x)
  BY <1>1 DEF IsText
<1> HIDE DEF text, all
<1>5. HasKludges(long, names, T, p)
  <2>1. long \in Seq(DOMAIN KludgeHeads) /\ \A k \in DOMAIN KludgeHeads : m[k] \in Seq(Int)
    BY DEF IsDoorMessage
  <2>2. names \in [DOMAIN KludgeHeads -> Seq(Int)] /\ \A i \in 1 .. n : names[long[i]] = m[long[i]]
    BY <1>3, <2>1
  <2>3. KludgeOf(T[n]) = {}
    BY <1>4 DEF IsDoorMessage
  <2>4. p = [f \in DOMAIN p |-> p[f]] /\ DOMAIN KludgeHeads \cup {"ok", "text"} \subseteq DOMAIN p
    BY <1>2, HeadsAre DEF IsPlain, DoorFields
  <2>5. p.ok = TRUE /\ p.text = T[0]
    BY <1>2, <1>3 DEF IsPlain
  <2>6. \A i \in 1 .. n : NoLineEnd(names[long[i]])
    BY <1>3, <2>2 DEF NoLineEnd, NoEnds
  <2> HIDE DEF names
  <2>7. \A i \in 1 .. n : T[i - 1] = KludgeLine(long[i], names[long[i]]) \o T[i]
    BY <1>3, <2>2
  <2> QED BY <1>3, <2>1, <2>2, <2>3, <2>4, <2>5, <2>6, <2>7 DEF HasKludges
<1>6. ReadQwk(all, TRUE) = r
  <2>1. p.text = T[0]
    BY <1>2, <1>3 DEF IsPlain
  <2>2. NumLines(p.text) \in Nat /\ Len(long) <= NumLines(p.text)
    BY <1>1, <2>1, LinesEnough
  <2> HIDE DEF names
  <2>3. TakeKludges(p) = TakenTo(long, names, T, p, Len(long))
    BY <1>5, <2>2, KludgesAreTaken
  <2> QED BY <1>2, <2>3
<1>7. r = [f \in DOMAIN p |-> IF f = "text" THEN T[n]
                              ELSE IF \E j \in 1 .. n : long[j] = f THEN names[f] ELSE p[f]]
  BY DEF TakenTo
<1>8. DOMAIN p = DoorFields \cup {"ok"} /\ p["ok"] = TRUE /\ DOMAIN KludgeHeads = {"to", "from", "subj"}
  BY <1>2, HeadsAre DEF IsPlain
<1> HIDE DEF r
<1>9. r["ok"] = TRUE
  <2>1. ~(\E j \in 1 .. n : long[j] = "ok")
    BY <1>3, <1>8
  <2> HIDE DEF names
  <2> QED BY <1>7, <1>8, <2>1
<1>10. \A f \in DOMAIN m \ {"text"} : r[f] = m[f]
  <2>1. DOMAIN m = DoorFields
    BY DEF IsDoorMessage
  <2> SUFFICES ASSUME NEW f \in DoorFields, f # "text" PROVE r[f] = m[f]
    BY <2>1
  <2>2. r[f] = IF \E j \in 1 .. n : long[j] = f THEN names[f] ELSE p[f]
    BY <1>7, <1>8
  <2>3. CASE \E j \in 1 .. n : long[j] = f
    <3>1. f \in DOMAIN KludgeHeads
      BY <1>3, <2>3
    <3>2. names[f] = m[f]
      BY <3>1
    <3> QED BY <2>2, <2>3, <3>2
  <2>4. CASE ~(\E j \in 1 .. n : long[j] = f)
    <3>1. f \in DOMAIN KludgeHeads => FitsField(m[f], NameLen)
      BY <2>4 DEF IsDoorMessage
    <3>2. p[f] = m[f]
      BY <1>2, <3>1 DEF IsPlain
    <3> HIDE DEF names
    <3> QED BY <2>2, <2>4, <3>2
  <2> QED BY <2>3, <2>4
<1>11. r["text"] = m.text \o Blanks(x)
  <2>1. "text" \in DOMAIN p
    BY <1>8 DEF DoorFields
  <2> HIDE DEF names
  <2> QED BY <1>4, <1>7, <2>1
<1> DEFINE s == m.text
           b == Blanks(x)
           t == s \o b
<1>12. s \in Seq(Int) /\ b \in Seq(Int) /\ Len(s) \in Nat /\ \A i \in 1 .. Len(b) : b[i] = Space
  BY BlanksAre, LenProperties DEF IsDoorMessage
<1> HIDE DEF s, b
<1>13. /\ t \in Seq(Int) /\ Len(t) = Len(s) + Len(b)
       /\ \A i \in 1 .. Len(s) : t[i] = s[i]
       /\ \A i \in 1 .. Len(b) : t[Len(s) + i] = b[i]
  BY <1>12, Joined
<1>14. IsPrefix(s, t)
  <2>1. Len(s) <= Len(t)
    BY <1>12, <1>13, LenProperties
  <2> DEFINE l == Len(s)
  <2>2. IsPiece(s, l) /\ Stands(s, 0, s) /\ Stands(t, 0, s)
    BY <1>12, <1>13, <2>1 DEF IsPiece, Stands
  <2> HIDE DEF t
  <2>3. At(s, 0, l) = s /\ At(t, 0, l) = s
    BY <2>2, PieceIsRead
  <2>4. 0 + 1 = 1 /\ 0 + l = l
    BY <1>12
  <2> QED BY <2>1, <2>3, <2>4 DEF IsPrefix, At
<1>15. ToSet(t) \subseteq ToSet(s) \cup {Space}
  <2> DEFINE l == Len(s)
             k == Len(b)
  <2>1. l \in Nat /\ k \in Nat /\ DOMAIN t = 1 .. l + k /\ DOMAIN s = 1 .. l
    BY <1>12, <1>13, LenProperties
  <2>2. \A i \in 1 .. l : t[i] = s[i]
    BY <1>13
  <2>3. \A i \in 1 .. k : t[l + i] = Space
    BY <1>12, <1>13
  <2> HIDE DEF t, l, k
  <2>4. \A i \in 1 .. l + k : t[i] \in {s[j] : j \in 1 .. l} \cup {Space}
    <3> TAKE i \in 1 .. l + k
    <3>1. CASE i <= l
      <4>1. i \in 1 .. l
        BY <2>1, <3>1
      <4> QED BY <2>2, <4>1
    <3>2. CASE ~(i <= l)
      <4> DEFINE j == i - l
      <4>1. j \in 1 .. k /\ l + j = i
        BY <2>1, <3>2
      <4> HIDE DEF j
      <4> QED BY <2>3, <4>1
    <3> QED BY <3>1, <3>2
  <2> QED BY <2>1, <2>4 DEF ToSet
<1>16. r.ok /\ r.text = t
  BY <1>9, <1>11 DEF t, s, b
<1>17. DoorMessageRead(m, long)
  BY <1>6, <1>10, <1>14, <1>15, <1>16 DEF DoorMessageRead, all, s
<1>18. ReadQwk(DoorBytes(m, long), TRUE).text = m.text \o Blanks(x)
  BY <1>6, <1>16 DEF all, t, s, b
<1> HIDE DEF n, names
<1> QED BY <1>17, <1>18 DEF OnlyBlanksBehind

-----------------------------------------------------------------------------
(***************************************************************************)
(* The messages of the run.                                                *)
(***************************************************************************)

\* The words of the run: no byte of theirs is a blank or an end of a line.
LEMMA WordIs ==
  ASSUME NEW n \in Nat
  PROVE  /\ Word(n) \in Seq(Int) /\ Len(Word(n)) = n
         /\ \A i \in 1 .. n : Word(n)[i] \in 65 .. 90
         /\ n > 0 => Word(n)[1] = 66
<1> DEFINE w == [i \in 1 .. n |-> 65 + (i % 26)]
<1>1. \A i \in 1 .. n : 65 + (i % 26) \in 65 .. 90
  BY SMT
<1>2. w \in [1 .. n -> Int] /\ \A i \in 1 .. n : w[i] \in 65 .. 90
  BY <1>1
<1>3. n > 0 => w[1] = 66
  <2>1. 65 + (1 % 26) = 66
    BY SMT
  <2> QED BY <2>1
<1> HIDE DEF w
<1>4. w \in Seq(Int) /\ Len(w) = n
  BY <1>2, RowIsSeq
<1>5. Word(n) = w
  BY DEF Word, w
<1> QED BY <1>2, <1>3, <1>4, <1>5

\* They fit into the fields of a message, and have no end of a line.
LEMMA WordFits ==
  ASSUME NEW n \in Nat
  PROVE  /\ Word(n) \in Seq(Int) /\ NoEnds(Word(n))
         /\ \A k \in Nat : n <= k => FitsField(Word(n), k)
<1> DEFINE w == Word(n)
<1>1. w \in Seq(Int) /\ Len(w) = n /\ \A i \in 1 .. n : w[i] \in 65 .. 90
  BY WordIs
<1> HIDE DEF w
<1>2. \A i \in 65 .. 90 : i \notin {NewLine, CarriageReturn, PCB_TXT_EOL} /\ i # Space
  BY DEF NewLine, CarriageReturn, PCB_TXT_EOL, Space
<1>3. NoEnds(w)
  BY <1>1, <1>2 DEF NoEnds
<1>4. n > 0 => w[n] # Space
  <2>1. n > 0 => n \in 1 .. n
    OBVIOUS
  <2> QED BY <1>1, <1>2, <2>1
<1>5. \A k \in Nat : n <= k => FitsField(w, k)
  BY <1>1, <1>4 DEF FitsField
<1> QED BY <1>1, <1>3, <1>5 DEF w

\* A text that begins with no first byte of a kludge begins with no kludge.
LEMMA NoKludgeBegins ==
  ASSUME NEW t \in Seq(Int), Len(t) > 0, t[1] \notin {84, 70, 83}
  PROVE  \A x \in Nat : KludgeOf(t \o Blanks(x)) = {}
<1> TAKE x \in Nat
<1> DEFINE b == Blanks(x)
           c == t \o b
<1>1. t \in Seq(Int) /\ b \in Seq(Int)
  BY BlanksAre
<1> HIDE DEF b
<1>2. c \in Seq(Int) /\ c[1] = t[1]
  <2>1. c \in Seq(Int) /\ \A i \in 1 .. Len(t) : c[i] = t[i]
    BY <1>1, Joined
  <2>2. 1 \in 1 .. Len(t)
    OBVIOUS
  <2> QED BY <2>1, <2>2
<1> HIDE DEF c
<1>3. ASSUME NEW k \in DOMAIN KludgeHeads, IsPrefix(KludgeHeads[k], c) PROVE FALSE
  <2> DEFINE o == KludgeHeads[k]
  <2>1. o \in Seq(Int) /\ Len(o) \in Nat /\ Len(o) # 0 /\ o[1] \in {84, 70, 83} /\ IsPrefix(o, c)
    BY <1>3, HeadsAre
  <2> HIDE DEF o
  <2>2. c[1] = o[1]
    BY <1>2, <2>1, PrefixFirst
  <2> QED BY <1>2, <2>1, <2>2
<1> QED BY <1>3 DEF KludgeOf, c, b

\* A text of n bytes and the end of a line, which is not to be taken for a
\* kludge, whatever blanks fill its block.
IsOneLine(t, n) ==
  /\ t \in Seq(Int) /\ Len(t) = n + 1
  /\ \A i \in 1 .. Len(t) : t[i] # PCB_TXT_EOL
  /\ \A x \in Nat : KludgeOf(t \o Blanks(x)) = {}

\* The one-line texts of the run are such texts.
LEMMA RunTextIs ==
  ASSUME NEW n \in Nat
  PROVE  IsOneLine(Append(Word(n), NewLine), n)
<1> DEFINE w == Word(n)
           t == Append(w, NewLine)
<1>1. w \in Seq(Int) /\ Len(w) = n /\ \A i \in 1 .. n : w[i] \in 65 .. 90
  BY WordIs
<1>2. n > 0 => w[1] = 66
  BY WordIs
<1> HIDE DEF w
<1>3. NewLine = 10 /\ PCB_TXT_EOL = 227
  BY DEF NewLine, PCB_TXT_EOL
<1>4. /\ t \in Seq(Int) /\ Len(t) = n + 1 /\ t[n + 1] = NewLine
      /\ \A i \in 1 .. n : t[i] = w[i]
  <2>1. NewLine \in Int
    BY <1>3
  <2>2. t \in Seq(Int) /\ Len(t) = Len(w) + 1 /\ \A i \in 1 .. Len(w) : t[i] = w[i]
    BY <1>1, <2>1, AppendProperties
  <2>3. t[Len(w) + 1] = NewLine
    BY <1>1, <2>1, AppendProperties
  <2> HIDE DEF t
  <2> QED BY <1>1, <2>2, <2>3
<1> HIDE DEF t
<1>5. \A i \in 1 .. n + 1 : t[i] # PCB_TXT_EOL
  <2>1. \A i \in 1 .. n + 1 : i \in 1 .. n \/ i = n + 1
    OBVIOUS
  <2>2. \A i \in 1 .. n : t[i] # PCB_TXT_EOL
    <3> TAKE i \in 1 .. n
    <3>1. w[i] \in 65 .. 90 /\ t[i] = w[i]
      BY <1>1, <1>4
    <3> QED BY <1>3, <3>1
  <2>3. t[n + 1] # PCB_TXT_EOL
    BY <1>3, <1>4
  <2> QED BY <2>1, <2>2, <2>3
<1>6. t[1] \in {10, 66}
  <2>1. n = 0 \/ 1 \in 1 .. n
    OBVIOUS
  <2>2. n = 0 => n + 1 = 1
    OBVIOUS
  <2> QED BY <1>2, <1>3, <1>4, <2>1, <2>2
<1>7. \A x \in Nat : KludgeOf(t \o Blanks(x)) = {}
  <2>1. Len(t) > 0 /\ t[1] \notin {84, 70, 83}
    BY <1>4, <1>6
  <2> QED BY <1>4, <2>1, NoKludgeBegins
<1>8. IsOneLine(t, n)
  BY <1>4, <1>5, <1>7 DEF IsOneLine
<1> QED BY <1>8 DEF t, w

\* A text that a message of the run may have: short enough, in one piece, and
\* not to be taken for a kludge, whatever blanks fill its block.
IsRunText(text) ==
  /\ text \in Seq(Int) /\ Len(text) <= 257
  /\ \A i \in 1 .. Len(text) : text[i] # PCB_TXT_EOL
  /\ \A x \in Nat : KludgeOf(text \o Blanks(x)) = {}

\* Every text of the run is one, with a blank line at its head or without.
LEMMA MailTextsAre == \A text \in MailTexts : IsRunText(text)
<1> DEFINE blank == <<NewLine>>
<1>1. NewLine = 10 /\ PCB_TXT_EOL = 227
  BY DEF NewLine, PCB_TXT_EOL
<1>2. blank \in Seq(Int) /\ Len(blank) = 1 /\ blank[1] = 10
  BY <1>1
<1> HIDE DEF blank
<1>3. \A text \in OneLines : /\ IsRunText(text) /\ Len(text) \in Nat /\ Len(text) <= 256
  <2> TAKE text \in OneLines
  <2>1. PICK n \in {0, 126, 127, 128, 255} : text = Append(Word(n), NewLine)
    BY DEF OneLines
  <2>2. n \in Nat /\ n + 1 \in Nat /\ n + 1 <= 256
    OBVIOUS
  <2>3. IsOneLine(text, n)
    BY <2>1, <2>2, RunTextIs
  <2>4. Len(text) \in Nat /\ Len(text) <= 256 /\ Len(text) <= 257
    BY <2>2, <2>3 DEF IsOneLine
  <2> QED BY <2>3, <2>4 DEF IsRunText, IsOneLine
<1>4. ASSUME NEW s \in OneLines PROVE IsRunText(blank \o s)
  <2> DEFINE t == blank \o s
  <2>1. s \in Seq(Int) /\ Len(s) \in Nat /\ Len(s) <= 256 /\ \A i \in 1 .. Len(s) : s[i] # PCB_TXT_EOL
    BY <1>3 DEF IsRunText
  <2>2. /\ t \in Seq(Int) /\ Len(t) = Len(blank) + Len(s)
        /\ \A i \in 1 .. Len(blank) : t[i] = blank[i]
        /\ \A i \in 1 .. Len(s) : t[Len(blank) + i] = s[i]
    <3>1. blank \in Seq(Int) /\ s \in Seq(Int)
      BY <1>2, <2>1
    <3> QED BY <3>1, Joined
  <2> HIDE DEF t
  <2>3. Len(t) = 1 + Len(s) /\ t[1] = 10 /\ \A i \in 1 .. Len(s) : t[1 + i] = s[i]
    BY <1>2, <2>2
  <2>4. \A i \in 1 .. Len(t) : t[i] # PCB_TXT_EOL
    <3> TAKE i \in 1 .. Len(t)
    <3>1. CASE i = 1
      BY <1>1, <2>3, <3>1
    <3>2. CASE i # 1
      <4>1. i - 1 \in 1 .. Len(s) /\ 1 + (i - 1) = i
        BY <2>1, <2>3, <3>2
      <4>2. t[1 + (i - 1)] = s[i - 1] /\ s[i - 1] # PCB_TXT_EOL
        BY <2>1, <2>3, <4>1
      <4> QED BY <4>1, <4>2
    <3> QED BY <3>1, <3>2
  <2>5. \A x \in Nat : KludgeOf(t \o Blanks(x)) = {}
    <3>1. Len(t) > 0 /\ t[1] \notin {84, 70, 83}
      BY <2>1, <2>3
    <3> QED BY <2>2, <3>1, NoKludgeBegins
  <2>6. Len(t) <= 257
    BY <2>1, <2>3
  <2> QED BY <2>2, <2>4, <2>5, <2>6 DEF IsRunText, t
<1> QED BY <1>3, <1>4 DEF MailTexts, blank

\* A message of the run, with these names and this text.
RunMessage(num, to, subj, text) ==
  [status |-> Space, msg_number |-> num, date_time |-> Word(13), to |-> to, from |-> Word(3),
   subj |-> subj, password |-> << >>, ref_msg_number |-> 7, active_flag |-> 225,
   conference |-> <<1, 0>>, logical |-> <<2, 0>>, net_tag |-> Space, text |-> text]

\* Its text, with its kludges, is a few blocks.
LEMMA RunTextFits ==
  ASSUME NEW m, NEW long, long \in {<< >>, <<"to", "subj">>}, m.text \in Seq(Int), Len(m.text) <= 257,
         \A k \in {"to", "subj"} : m[k] \in Seq(Int) /\ Len(m[k]) <= 41
  PROVE  Len(DecimalText(Len(FillBlock(DoorText(m, long))) \div Block + 1)) <= 6
<1> DEFINE n == Len(long)
           line(i) == KludgeHeads[long[i]] \o m[long[i]] \o <<PCB_TXT_EOL>>
           ss == [i \in DOMAIN long |-> line(i)]
           own == ReplaceBytes(m.text, NewLine, PCB_TXT_EOL)
           flat == FlattenSeq(ss)
           s == flat \o own
<1>1. DoorText(m, long) = s
  BY DEF DoorText
<1>2. n \in 0 .. 2 /\ DOMAIN long = 1 .. n /\ \A i \in 1 .. n : long[i] \in {"to", "subj"}
  <2>1. CASE long = << >>
    <3>1. Len(<< >>) = 0 /\ DOMAIN << >> = 1 .. 0
      OBVIOUS
    <3> QED BY <2>1, <3>1
  <2>2. CASE long = <<"to", "subj">>
    <3> DEFINE l == <<"to", "subj">>
    <3>1. Len(l) = 2 /\ DOMAIN l = 1 .. 2 /\ l[1] = "to" /\ l[2] = "subj"
      OBVIOUS
    <3> HIDE DEF l
    <3>2. \A i \in 1 .. 2 : i = 1 \/ i = 2
      OBVIOUS
    <3>3. long = l
      BY <2>2 DEF l
    <3>4. \A i \in 1 .. 2 : l[i] \in {"to", "subj"}
      BY <3>1, <3>2
    <3>5. Len(l) \in 0 .. 2 /\ DOMAIN l = 1 .. Len(l) /\ \A i \in 1 .. Len(l) : l[i] \in {"to", "subj"}
      BY <3>1, <3>4
    <3> QED BY <3>3, <3>5
  <2> QED BY <2>1, <2>2
<1> HIDE DEF n
<1>3. \A k \in {"to", "subj"} : KludgeHeads[k] \in Seq(Int) /\ Len(KludgeHeads[k]) <= 9
  <2> DEFINE x == <<84, 111, 58, 32>>
             y == <<83, 117, 98, 106, 101, 99, 116, 58, 32>>
  <2>1. x \in Seq(Int) /\ Len(x) <= 9
    OBVIOUS
  <2>2. y \in Seq(Int) /\ Len(y) <= 9
    OBVIOUS
  <2>3. KludgeHeads["to"] = x /\ KludgeHeads["subj"] = y
    BY DEF KludgeHeads
  <2> HIDE DEF x, y
  <2> QED BY <2>1, <2>2, <2>3
<1>4. \A i \in 1 .. n : line(i) \in Seq(Int) /\ Len(line(i)) <= 51
  <2> TAKE i \in 1 .. n
  <2> DEFINE a == KludgeHeads[long[i]]
             b == m[long[i]]
             e == <<PCB_TXT_EOL>>
             c == a \o b
  <2>1. a \in Seq(Int) /\ Len(a) <= 9
    BY <1>2, <1>3
  <2>2. b \in Seq(Int) /\ Len(b) <= 41
    BY <1>2
  <2>3. e \in Seq(Int) /\ Len(e) = 1
    BY DEF PCB_TXT_EOL
  <2> HIDE DEF a, b, e
  <2>4. c \in Seq(Int) /\ Len(c) <= 50
    BY <2>1, <2>2, ConcatProperties
  <2> HIDE DEF c
  <2>5. c \o e \in Seq(Int) /\ Len(c \o e) <= 51
    <3>1. c \o e \in Seq(Int) /\ Len(c \o e) = Len(c) + Len(e)
      <4>1. c \in Seq(Int) /\ e \in Seq(Int)
        BY <2>3, <2>4
      <4> QED BY <4>1, Joined
    <3>2. Len(c) \in Nat
      BY <2>4, LenProperties
    <3> QED BY <2>3, <2>4, <3>1, <3>2
  <2> QED BY <2>5 DEF a, b, c, e
<1> HIDE DEF line
<1>5. ss \in Seq(Seq(Int)) /\ Len(ss) = n /\ \A i \in 1 .. n : ss[i] = line(i)
  <2>1. ss \in [1 .. n -> Seq(Int)] /\ \A i \in 1 .. n : ss[i] = line(i)
    BY <1>2, <1>4
  <2>2. n \in Nat
    BY <1>2
  <2> HIDE DEF ss
  <2> QED BY <2>1, <2>2, RowIsSeq
<1> HIDE DEF ss
<1>6. flat \in Seq(Int) /\ Len(flat) <= 102
  <2>1. flat \in Seq(Int)
    BY <1>5, Pieces
  <2>2. PICK at \in [0 .. Len(ss) -> Nat] :
          /\ at[0] = 0 /\ at[Len(ss)] = Len(flat)
          /\ \A i \in 1 .. Len(ss) : at[i] = at[i - 1] + Len(ss[i])
    <3> HIDE DEF flat
    <3> QED BY <1>5, Pieces DEF flat
  <2>3. at[0] = 0 /\ at[n] = Len(flat) /\ \A i \in 1 .. n : at[i] = at[i - 1] + Len(ss[i])
    BY <1>5, <2>2
  <2>4. \A i \in 1 .. n : Len(ss[i]) \in Nat /\ Len(ss[i]) <= 51
    <3> TAKE i \in 1 .. n
    <3> DEFINE e == line(i)
    <3>1. e \in Seq(Int) /\ Len(e) <= 51 /\ ss[i] = e
      BY <1>4, <1>5
    <3> HIDE DEF e
    <3>2. Len(e) \in Nat
      BY <3>1
    <3> QED BY <3>1, <3>2
  <2>5. n >= 1 => at[1] <= 51
    <3>1. n >= 1 => 1 \in 1 .. n /\ 1 - 1 = 0
      BY <1>2
    <3> QED BY <2>3, <2>4, <3>1
  <2>6. n = 2 => at[2] <= 102
    <3>1. n = 2 => 2 \in 1 .. n /\ 2 - 1 = 1 /\ n >= 1 /\ 1 \in 0 .. n
      BY <1>2
    <3>2. n = 2 => at[1] \in Nat /\ at[2] = at[1] + Len(ss[2]) /\ Len(ss[2]) <= 51 /\ Len(ss[2]) \in Nat
      BY <1>5, <2>2, <2>3, <2>4, <3>1
    <3> QED BY <2>5, <3>1, <3>2
  <2>7. at[n] <= 102
    <3>1. n = 0 \/ n = 1 \/ n = 2
      BY <1>2
    <3>2. n = 1 => at[1] \in Nat
      BY <1>5, <2>2
    <3>3. n = 0 => at[n] = 0
      BY <2>3
    <3>4. n = 1 => at[n] <= 102
      BY <2>5, <3>2
    <3> QED BY <2>6, <3>1, <3>3, <3>4
  <2> QED BY <2>1, <2>3, <2>7
<1> HIDE DEF flat
<1>7. own \in Seq(Int) /\ Len(own) <= 257
  <2> DEFINE t == m.text
  <2>1. t \in Seq(Int) /\ Len(t) <= 257 /\ PCB_TXT_EOL \in Int /\ NewLine \in Int
    BY DEF PCB_TXT_EOL, NewLine
  <2> HIDE DEF t
  <2>2. ReplaceBytes(t, NewLine, PCB_TXT_EOL) \in Seq(Int)
        /\ Len(ReplaceBytes(t, NewLine, PCB_TXT_EOL)) = Len(t)
    BY <2>1, ReplacedIs
  <2> QED BY <2>1, <2>2 DEF t
<1> HIDE DEF own
<1>8. s \in Seq(Int) /\ Len(s) \in Nat /\ Len(s) <= 359
  <2>1. s \in Seq(Int) /\ Len(s) = Len(flat) + Len(own)
    BY <1>6, <1>7, Joined
  <2>2. Len(flat) \in Nat /\ Len(own) \in Nat
    BY <1>6, <1>7, LenProperties
  <2> HIDE DEF s
  <2> QED BY <1>6, <1>7, <2>1, <2>2
<1> HIDE DEF s
<1> DEFINE q == Len(FillBlock(s)) \div Block
<1>9. q \in Nat /\ Len(FillBlock(s)) = 128 * q /\ Len(FillBlock(s)) < Len(s) + 128
  BY <1>8, Filled DEF Block
<1> HIDE DEF q
<1>10. q + 1 \in Nat /\ q + 1 < 10
  BY <1>8, <1>9
<1>11. Len(DecimalText(q + 1)) <= 1
  BY <1>10, DecimalLen
<1>12. Len(DecimalText(q + 1)) \in Nat
  BY <1>10, DecimalReadBack DEF IsDecimal
<1> QED BY <1>1, <1>11, <1>12 DEF q

\* Every message of the run is one a mail door lays out.
LEMMA RunMessageIs ==
  ASSUME NEW num \in Nat, Len(DecimalText(num)) <= 7, NEW a \in Nat, NEW b \in Nat,
         NEW text, IsRunText(text),
         NEW long, \/ long = << >> /\ a <= 25 /\ b <= 25
                   \/ long = <<"to", "subj">> /\ a <= 41 /\ b <= 41
  PROVE  IsDoorMessage(RunMessage(num, Word(a), Word(b), text), long)
<1> DEFINE w == Word(a)
           v == Word(b)
           f == Word(3)
           m == RunMessage(num, w, v, text)
<1>1. /\ text \in Seq(Int) /\ Len(text) <= 257
      /\ \A i \in 1 .. Len(text) : text[i] # PCB_TXT_EOL
      /\ \A x \in Nat : KludgeOf(text \o Blanks(x)) = {}
  BY DEF IsRunText
<1>2. w \in Seq(Int) /\ Len(w) = a /\ NoEnds(w) /\ (a <= 25 => FitsField(w, 25))
  BY WordIs, WordFits
<1>3. v \in Seq(Int) /\ Len(v) = b /\ NoEnds(v) /\ (b <= 25 => FitsField(v, 25))
  BY WordIs, WordFits
<1>4. f \in Seq(Int) /\ FitsField(f, 25) /\ FitsField(Word(13), 13)
  <2>1. 3 \in Nat /\ 13 \in Nat /\ 25 \in Nat /\ 3 <= 25 /\ 13 <= 13
    OBVIOUS
  <2> QED BY <2>1, WordFits
<1> HIDE DEF w, v, f
<1>5. /\ m.status = Space /\ m.msg_number = num /\ m.date_time = Word(13) /\ m["to"] = w /\ m["from"] = f
      /\ m["subj"] = v /\ m.password = << >> /\ m.ref_msg_number = 7 /\ m.active_flag = 225
      /\ m.conference = <<1, 0>> /\ m.logical = <<2, 0>> /\ m.net_tag = Space /\ m.text = text
      /\ DOMAIN m = DoorFields
  BY DEF RunMessage, DoorFields, f
<1> HIDE DEF m
<1>6. long \in Seq(DOMAIN KludgeHeads) /\ long \in {<< >>, <<"to", "subj">>}
      /\ (long = << >> => Len(long) = 0)
      /\ (long = <<"to", "subj">> => Len(long) = 2 /\ long[1] = "to" /\ long[2] = "subj")
  <2>1. "to" \in DOMAIN KludgeHeads /\ "subj" \in DOMAIN KludgeHeads
    BY HeadsAre
  <2> DEFINE none == << >>
             both == <<"to", "subj">>
             D == DOMAIN KludgeHeads
  <2>2. none \in Seq(D) /\ Len(none) = 0
    OBVIOUS
  <2> HIDE DEF D
  <2>3. both \in Seq(D) /\ Len(both) = 2 /\ both[1] = "to" /\ both[2] = "subj"
    BY <2>1 DEF D
  <2>4. long = none \/ long = both
    OBVIOUS
  <2> HIDE DEF none, both
  <2>5. long \in Seq(D) /\ (long = none => Len(long) = 0)
        /\ (long = both => Len(long) = 2 /\ long[1] = "to" /\ long[2] = "subj")
    BY <2>2, <2>3, <2>4
  <2> QED BY <2>4, <2>5 DEF none, both, D
<1>7. Len(DecimalText(num)) <= 7 /\ Len(DecimalText(7)) <= 8 /\ num \in Nat
  <2>1. 7 \in Nat /\ 7 < 10
    OBVIOUS
  <2>2. Len(DecimalText(7)) <= 1
    BY <2>1, DecimalLen
  <2>3. Len(DecimalText(7)) \in Nat
    BY <2>1, DecimalReadBack DEF IsDecimal
  <2> DEFINE l == Len(DecimalText(7))
  <2> HIDE DEF l
  <2>4. l <= 8
    BY <2>2, <2>3 DEF l
  <2> QED BY <2>1, <2>2, <2>4 DEF l
<1>8. FitsField(<< >>, 12)
  BY DEF FitsField
<1>9. <<1, 0>> \in Seq(Int) /\ Len(<<1, 0>>) = 2 /\ <<2, 0>> \in Seq(Int) /\ Len(<<2, 0>>) = 2 /\ Space \in Int
  BY DEF Space
<1>10. Len(DecimalText(Len(FillBlock(DoorText(m, long))) \div Block + 1)) <= 6
  <2>1. Len(w) <= 41 /\ Len(v) <= 41
    BY <1>2, <1>3
  <2>2. \A k \in {"to", "subj"} : m[k] \in Seq(Int) /\ Len(m[k]) <= 41
    BY <1>2, <1>3, <1>5, <2>1
  <2>3. m.text \in Seq(Int) /\ Len(m.text) <= 257
    BY <1>1, <1>5
  <2> QED BY <1>6, <2>2, <2>3, RunTextFits
<1>11. \A k \in DOMAIN KludgeHeads :
         m[k] \in Seq(Int) /\ (FitsField(m[k], NameLen) \/ \E i \in 1 .. Len(long) : long[i] = k)
  <2>1. m["to"] \in Seq(Int) /\ m["from"] \in Seq(Int) /\ m["subj"] \in Seq(Int)
    BY <1>2, <1>3, <1>4, <1>5
  <2>2. FitsField(m["from"], 25)
    BY <1>4, <1>5
  <2>3. CASE long = << >>
    <3>1. FitsField(m["to"], 25) /\ FitsField(m["subj"], 25)
      <4>1. a <= 25 /\ b <= 25
        <5>1. << >> # <<"to", "subj">>
          OBVIOUS
        <5> QED BY <2>3, <5>1
      <4> QED BY <1>2, <1>3, <1>5, <4>1
    <3> QED BY <2>1, <2>2, <3>1, HeadsAre DEF NameLen
  <2>4. CASE long = <<"to", "subj">>
    <3> DEFINE l == Len(long)
    <3>1. l = 2 /\ long[1] = "to" /\ long[2] = "subj"
      BY <1>6, <2>4
    <3> HIDE DEF l
    <3>2. (\E i \in 1 .. l : long[i] = "to") /\ (\E i \in 1 .. l : long[i] = "subj")
      <4>1. 1 \in 1 .. l /\ 2 \in 1 .. l
        BY <3>1
      <4> QED BY <3>1, <4>1
    <3> QED BY <2>1, <2>2, <3>2, HeadsAre DEF NameLen, l
  <2> QED BY <1>6, <2>3, <2>4
<1>12. \A i \in 1 .. Len(long) : NoEnds(m[long[i]])
  <2> DEFINE l == Len(long)
  <2>1. l = 0 \/ (l = 2 /\ long[1] = "to" /\ long[2] = "subj")
    BY <1>6
  <2> HIDE DEF l
  <2>2. \A i \in 1 .. l : long[i] = "to" \/ long[i] = "subj"
    BY <2>1
  <2> QED BY <1>2, <1>3, <1>5, <2>2 DEF l
<1>13. IsDoorMessage(m, long)
  BY <1>1, <1>4, <1>5, <1>6, <1>7, <1>8, <1>9, <1>10, <1>11, <1>12 DEF IsDoorMessage
<1> QED BY <1>13 DEF m, w, v

\* A message with long names is one with other names.
LEMMA KludgedIs ==
  ASSUME NEW num, NEW to, NEW subj, NEW text
  PROVE  Kludged(RunMessage(num, to, subj, text)) = RunMessage(num, Word(30), Word(41), text)
<1> DEFINE w == Word(30)
           v == Word(41)
           d == Word(13)
           f == Word(3)
<1>1. RunMessage(num, to, subj, text) =
        [status |-> Space, msg_number |-> num, date_time |-> d, to |-> to, from |-> f,
         subj |-> subj, password |-> << >>, ref_msg_number |-> 7, active_flag |-> 225,
         conference |-> <<1, 0>>, logical |-> <<2, 0>>, net_tag |-> Space, text |-> text]
  BY DEF RunMessage
<1>2. RunMessage(num, w, v, text) =
        [status |-> Space, msg_number |-> num, date_time |-> d, to |-> w, from |-> f,
         subj |-> v, password |-> << >>, ref_msg_number |-> 7, active_flag |-> 225,
         conference |-> <<1, 0>>, logical |-> <<2, 0>>, net_tag |-> Space, text |-> text]
  BY DEF RunMessage
<1>3. Kludged(RunMessage(num, to, subj, text)) =
        [RunMessage(num, to, subj, text) EXCEPT !.to = w, !.subj = v]
  BY DEF Kludged
<1> DEFINE r == RunMessage(num, to, subj, text)
           k == RunMessage(num, w, v, text)
           e == [r EXCEPT !.to = w, !.subj = v]
           D == DOMAIN r
<1> HIDE DEF w, v, d, f
<1>5. D = DoorFields /\ DOMAIN k = DoorFields
  BY <1>1, <1>2 DEF DoorFields
<1>6. k = [x \in D |-> k[x]]
  BY <1>2, <1>5 DEF DoorFields
<1>7. e = [x \in D |-> IF x = "subj" THEN v ELSE IF x = "to" THEN w ELSE r[x]]
  <2>1. r = [x \in D |-> r[x]]
    BY <1>1 
  <2> HIDE DEF r, D
  <2> QED BY <2>1, <1>5 DEF DoorFields
<1>8. \A x \in D : k[x] = IF x = "subj" THEN v ELSE IF x = "to" THEN w ELSE r[x]
  BY <1>1, <1>2, <1>5 DEF DoorFields
<1> HIDE DEF k, r, D
<1>4. e = k
  BY <1>6, <1>7, <1>8
<1> QED BY <1>3, <1>4 DEF r, k, w, v

\* So QWKMessage::read reads every message of the run.
LEMMA RunMessagesRead ==
  ASSUME NEW msg \in QwkMessages, NEW long \in {<< >>, <<"to", "subj">>}
  PROVE  DoorMessageRead(IF long = << >> THEN msg ELSE Kludged(msg), long)
<1>1. PICK num \in {5, 1234567}, a \in {3, 25}, b \in {1, 25}, text \in MailTexts :
        msg = RunMessage(num, Word(a), Word(b), text)
  BY DEF QwkMessages, RunMessage
<1>0. num \in Nat /\ num < 10000000
  BY SMT
<1>2. num \in Nat /\ Len(DecimalText(num)) <= 7
  BY <1>0, DecimalLen, SMT
<1>5. a \in Nat /\ a <= 25 /\ b \in Nat /\ b <= 25
  BY SMT
<1>6. IsRunText(text)
  BY MailTextsAre, SMT
<1>3. CASE long = << >>
  <2>1. IsDoorMessage(msg, long)
    BY <1>1, <1>2, <1>3, <1>5, <1>6, RunMessageIs, SMT
  <2>2. DoorMessageRead(msg, long)
    BY <2>1, DoorMessagesAreRead, SMT
  <2> QED BY <1>3, <2>2
<1>4. CASE long = <<"to", "subj">>
  <2>1. << >> # <<"to", "subj">>
    OBVIOUS
  <2> DEFINE w == Word(a)
             v == Word(b)
             m == RunMessage(num, Word(30), Word(41), text)
  <2>2. Kludged(msg) = m
    <3>1. msg = RunMessage(num, w, v, text)
      BY <1>1
    <3> HIDE DEF w, v
    <3> QED BY <3>1, KludgedIs, SMT
  <2>3. IsDoorMessage(m, long)
    <3>1. 30 \in Nat /\ 30 <= 41 /\ 41 \in Nat /\ 41 <= 41
      OBVIOUS
    <3> QED BY <1>2, <1>4, <1>6, <3>1, RunMessageIs, SMT
  <2> HIDE DEF m
  <2>4. DoorMessageRead(m, long)
    BY <2>3, DoorMessagesAreRead, SMT
  <2> QED BY <1>4, <2>1, <2>2, <2>4
<1> QED BY <1>3, <1>4

\* So are the messages of the run, with kludges or without, and with a blank
\* line before their text or none.
THEOREM DoorMessagesAlwaysRead == Spec => []DoorMessagesRead
<1>1. InputInv => DoorMessagesRead
  BY RunMessagesRead DEF InputInv, DoorMessagesRead
<1> QED BY <1>1, InputAlways, PTL

=============================================================================
