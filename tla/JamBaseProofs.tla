--------------------------- MODULE JamBaseProofs ---------------------------
(***************************************************************************)
(* Theorems about JamBase, for any set of handles, messages and bounds:    *)
(* types, what is on disk, the fixed header, and that it implements JamLog. *)
(***************************************************************************)
EXTENDS JamBaseInductive, SequenceTheorems, TLAPS

-----------------------------------------------------------------------------
(* Arithmetic that the files' offsets and records need. *)

\* A remainder is a whole number.
LEMMA ModType == ASSUME NEW a \in Nat, NEW n \in Nat \ {0}
                 PROVE  a % n \in Nat
  OBVIOUS

\* A number below the modulus is its own remainder.
LEMMA ModSmall == ASSUME NEW a \in Nat, NEW n \in Nat, a < n
                  PROVE  a % n = a
  OBVIOUS

\* A number of words is so many records, and perhaps half of one.
LEMMA Halves == ASSUME NEW n \in Nat
                PROVE  /\ n \div 2 \in Nat
                       /\ n % 2 \in {0, 1}
                       /\ n = 2 * (n \div 2) + (n % 2)
  OBVIOUS

\* The words of a record lie within the index file.
LEMMA RecordWords ==
  ASSUME TypeOK, NEW r \in 1 .. NumRecords
  PROVE  /\ NumRecords \in Nat /\ 2 * r \in 1 .. Len(jdx) /\ 2 * r - 1 \in 1 .. Len(jdx)
         /\ IndexOffset(r) \in Nat /\ IndexCrc(r) \in Nat
<1>1. jdx \in Seq(Nat) /\ Len(jdx) \in Nat
  BY DEF TypeOK
<1>2. Len(jdx) \div 2 \in Nat /\ 2 * (Len(jdx) \div 2) <= Len(jdx)
  BY <1>1
<1>3. 2 * r \in 1 .. Len(jdx) /\ 2 * r - 1 \in 1 .. Len(jdx)
  BY <1>1, <1>2 DEF NumRecords
<1> QED
  BY <1>1, <1>2, <1>3, ElementOfSeq DEF IndexOffset, IndexCrc, NumRecords

\* The CRC of a recipient is a number.
LEMMA RecipientCrcType ==
  ASSUME NEW m \in Msgs PROVE RecipientCrc(m) \in Nat
  BY NamesAssumption, MsgsAssumption DEF RecipientCrc

\* What a message holds.
LEMMA MsgType ==
  ASSUME NEW m \in Msgs PROVE m.txt \in Seq(Cells) /\ m.del \in BOOLEAN
  BY MsgsAssumption

\* A header that was located is a header of the file.
LEMMA LocatedType ==
  ASSUME TypeOK, NEW h \in Handles, NEW n \in MsgNumbers, Located(header_info[h], n)
  PROVE  /\ RecordOf(header_info[h], n) \in 1 .. NumRecords
         /\ IndexOffset(RecordOf(header_info[h], n)) \in Nat
         /\ IndexOffset(RecordOf(header_info[h], n)) + 1 \in 1 .. Len(hdrs)
         /\ Located_header(header_info[h], n) \in Headers
<1> DEFINE r == RecordOf(header_info[h], n)
<1>1. n \in Nat /\ header_info[h].base_msg_num \in Nat
  BY BoundsAssumption DEF TypeOK, MsgNumbers, JHRHeaderInfo
<1>2. r \in 1 .. NumRecords
  BY <1>1 DEF Located, InRange, RecordOf, NumRecords, TypeOK
<1>3. IndexOffset(r) \in Nat /\ IndexOffset(r) < Len(hdrs)
  BY <1>2, RecordWords DEF Located, Readable
<1>4. IndexOffset(r) + 1 \in 1 .. Len(hdrs) /\ hdrs \in Seq(Headers)
  BY <1>3 DEF TypeOK
<1>5. hdrs[IndexOffset(r) + 1] \in Headers
  BY <1>4, ElementOfSeq
<1> QED
  BY <1>2, <1>3, <1>4, <1>5 DEF Located_header
-----------------------------------------------------------------------------
(* Type correctness. *)

Busy == WritePcs \cup FlagOps

TypeInv == TypeOK /\ \A h \in Handles : pc[h] \in Busy => header[h] \in Headers

\* A new base is well formed.
LEMMA TypeInit == Init => TypeInv
  BY BoundsAssumption
  DEF Init, TypeInv, TypeOK, JHRHeaderInfo, NoInfo, Pcs, Busy, WritePcs, FlagOps,
      Answers, Answer

\* Ending a call keeps the types of what it resets.
LEMMA EndCallType ==
  ASSUME TypeInv, NEW h \in Handles, NEW where \in {"idle", "closed"}, EndCall(h, where)
  PROVE  /\ pc' \in [Handles -> Pcs]
         /\ header' \in [Handles -> Headers \cup {NoHeader}]
         /\ offset' \in [Handles -> Nat]
         /\ record' \in [Handles -> Nat]
         /\ \A g \in Handles : pc'[g] \in Busy => header'[g] \in Headers
  BY DEF TypeInv, TypeOK, EndCall, Pcs, Busy, WritePcs, FlagOps

\* The answers of the calls are well formed.
LEMMA AnswerType ==
  ASSUME NEW op \in {"none", "write", "delete", "restore"}, NEW r \in Nat,
         NEW res \in {"none", "ok", "err"}
  PROVE  Answer(op, r, res) \in Answers
  BY DEF Answer, Answers, FlagOps

\* Counting mod_counter up keeps it in its word.
LEMMA NextCounterType ==
  ASSUME NEW info \in JHRHeaderInfo PROVE NextCounter(info) \in JHRHeaderInfo
<1>1. (info.mod_counter + 1) % Counters \in 0 .. Counters - 1
  BY BoundsAssumption DEF JHRHeaderInfo
<1> QED
  BY <1>1 DEF NextCounter, JHRHeaderInfo

\* Counting a message keeps the header information well formed.
LEMMA CountUpType ==
  ASSUME NEW info \in JHRHeaderInfo
  PROVE  [info EXCEPT !.active_msgs = info.active_msgs + 1] \in JHRHeaderInfo
<1>1. info.active_msgs + 1 \in Nat
  BY DEF JHRHeaderInfo
<1> QED
  BY <1>1 DEF JHRHeaderInfo

\* Writing a header back keeps the type of the header file.
LEMMA RewriteType ==
  ASSUME TypeInv, NEW h \in Handles, pc[h] \in Busy, Rewrite(h)
  PROVE  hdrs' \in Seq(Headers) /\ Len(hdrs') = Len(hdrs)
<1>1. hdrs \in Seq(Headers) /\ header[h] \in Headers /\ offset[h] \in Nat
  BY DEF TypeInv, TypeOK
<1>2. CASE offset[h] + 1 \in 1 .. Len(hdrs)
  BY <1>1, <1>2, ExceptSeq DEF Rewrite
<1>3. CASE offset[h] + 1 \notin 1 .. Len(hdrs)
  <2>1. hdrs' = hdrs
    BY <1>1, <1>3, LenProperties DEF Rewrite
  <2> QED BY <1>1, <2>1
<1> QED BY <1>2, <1>3

\* Whatever a fault cuts, the files keep their types.
LEMMA CutType ==
  ASSUME TypeInv, NEW h \in Handles, Cut(h)
  PROVE  /\ jhr' \in JHRHeaderInfo /\ hdrs' \in Seq(Headers)
         /\ jdt' \in Seq(Cells) /\ jdx' \in Seq(Nat)
<1> USE DEF TypeInv, TypeOK
<1>1. CASE UNCHANGED disk
  BY <1>1 DEF disk
<1>2. CASE CutText(h)
  <2>1. header[h] \in Headers
    BY <1>2 DEF CutText, Busy, WritePcs
  <2> DEFINE txt == header[h].msg.txt
  <2>2. txt \in Seq(Cells)
    BY <2>1, MsgType DEF Headers
  <2>3. PICK k \in 1 .. Len(txt) : jdt' = jdt \o SubSeq(txt, 1, k)
    BY <1>2 DEF CutText
  <2>4. SubSeq(txt, 1, k) \in Seq(Cells)
    BY <2>2, <2>3, SMTT(30)
  <2> QED
    BY <1>2, <2>3, <2>4 DEF CutText
<1>3. CASE CutHeader(h)
  <2>1. CASE pc[h] = "header" /\ hdrs' = Append(hdrs, [header[h] EXCEPT !.whole = FALSE])
    <3>1. header[h] \in Headers
      BY <2>1 DEF Busy, WritePcs
    <3>2. [header[h] EXCEPT !.whole = FALSE] \in Headers
      BY <3>1 DEF Headers
    <3> QED BY <1>3, <2>1, <3>2 DEF CutHeader
  <2>2. CASE pc[h] \in FlagOps /\ Rewrite(h)
    BY <1>3, <2>2, RewriteType DEF CutHeader, Busy
  <2> QED BY <1>3, <2>1, <2>2 DEF CutHeader
<1> QED BY <1>1, <1>2, <1>3 DEF Cut

\* The steps of write_message keep the state well formed.
LEMMA WriteType ==
  ASSUME TypeInv, NEW h \in Handles, WriteNext(h)
  PROVE  TypeInv'
<1> USE DEF TypeInv, TypeOK
<1>h. pc[h] \in Busy => header[h] \in Headers /\ header[h].msg \in Msgs
  BY DEF Headers
<1>1. ASSUME NEW m \in Msgs, WriteMessage(h, m) PROVE TypeInv'
  <2>1. Len(jdt) % Offsets \in Nat
    BY ModType, BoundsAssumption
  <2>2. [msg |-> m, offset |-> Len(jdt) % Offsets, deleted |-> m.del, whole |-> TRUE] \in Headers
    BY <2>1, MsgType DEF Headers
  <2>3. header_info' \in [Handles -> JHRHeaderInfo]
    <3> DEFINE info == [header_info[h] EXCEPT !.active_msgs = header_info[h].active_msgs + 1]
    <3>1. header_info[h] \in JHRHeaderInfo
      OBVIOUS
    <3>2. info \in JHRHeaderInfo
      BY <3>1, CountUpType
    <3>3. header_info' = [header_info EXCEPT ![h] = info]
      BY <1>1 DEF WriteMessage
    <3> HIDE DEF info
    <3> QED BY <3>2, <3>3
  <2>4. /\ pc' \in [Handles -> Pcs] /\ header' \in [Handles -> Headers \cup {NoHeader}]
        /\ \A g \in Handles : pc'[g] \in Busy => header'[g] \in Headers
    BY <1>1, <2>2 DEF WriteMessage, Go, Pcs, WritePcs
  <2>5. ret' \in [Handles -> Answers]
    BY <1>1, AnswerType DEF WriteMessage
  <2> QED
    BY <1>1, <2>3, <2>4, <2>5 DEF WriteMessage, disk
<1>2. CASE AppendText(h)
  <2>1. jdt' \in Seq(Cells)
    BY <1>h, <1>2, MsgType DEF AppendText, Go, Busy, WritePcs
  <2> QED
    BY <1>2, <2>1 DEF AppendText, Go, locals, Pcs, Busy, WritePcs
<1>3. CASE ReadHdrLen(h)
  <2>1. Len(hdrs) % Offsets \in Nat
    BY ModType, BoundsAssumption
  <2> QED
    BY <1>3, <2>1 DEF ReadHdrLen, Go, disk, Pcs, Busy, WritePcs
<1>4. CASE AppendHeader(h)
  <2>1. hdrs' \in Seq(Headers)
    BY <1>h, <1>4 DEF AppendHeader, Go, Busy, WritePcs
  <2> QED
    BY <1>4, <2>1 DEF AppendHeader, Go, locals, Pcs, Busy, WritePcs
<1>5. CASE AppendCrc(h)
  <2>1. jdx' \in Seq(Nat)
    BY <1>h, <1>5, RecipientCrcType DEF AppendCrc, Go, Busy, WritePcs
  <2> QED
    BY <1>5, <2>1 DEF AppendCrc, Go, locals, Pcs, Busy, WritePcs
<1>6. CASE AppendOffset(h)
  <2>1. EndCall(h, "idle") /\ ret' = [ret EXCEPT ![h] = Answer("write", 0, "ok")]
    BY <1>6 DEF AppendOffset, Return
  <2>2. ret' \in [Handles -> Answers]
    BY <2>1, AnswerType
  <2>3. jdx' \in Seq(Nat)
    BY <1>6 DEF AppendOffset
  <2> QED
    BY <1>6, <2>1, <2>2, <2>3, EndCallType DEF AppendOffset
<1> QED
  BY <1>1, <1>2, <1>3, <1>4, <1>5, <1>6 DEF WriteNext

\* So do those of delete_message and restore_message.
LEMMA FlagType ==
  ASSUME TypeInv, NEW h \in Handles, FlagNext(h)
  PROVE  TypeInv'
<1> USE DEF TypeInv, TypeOK
<1>1. ASSUME NEW op \in FlagOps, NEW n \in MsgNumbers,
             \/ FlagRefused(h, op, n)
             \/ AlreadyFlagged(h, op, n)
      PROVE  TypeInv'
  <2>1. PICK r \in Nat, res \in {"ok", "err"} : Return(h, Answer(op, r, res))
    <3>1. CASE FlagRefused(h, op, n)
      BY <3>1 DEF FlagRefused
    <3>2. CASE AlreadyFlagged(h, op, n)
      <4>1. RecordOf(header_info[h], n) \in Nat
        BY <3>2, LocatedType, RecordWords DEF AlreadyFlagged
      <4> QED BY <3>2, <4>1 DEF AlreadyFlagged
    <3> QED BY <1>1, <3>1, <3>2
  <2>2. ret' \in [Handles -> Answers]
    BY <2>1, AnswerType DEF Return, FlagOps
  <2>3. UNCHANGED <<disk, header_info, faults>>
    BY <1>1 DEF FlagRefused, AlreadyFlagged
  <2> QED
    BY <2>1, <2>2, <2>3, EndCallType DEF Return, disk
<1>2. ASSUME NEW op \in FlagOps, NEW n \in MsgNumbers, FlagStart(h, op, n)
      PROVE  TypeInv'
  <2> DEFINE r == RecordOf(header_info[h], n)
             hd == Located_header(header_info[h], n)
  <2>1. r \in Nat /\ IndexOffset(r) \in Nat /\ hd \in Headers
    BY <1>2, LocatedType, RecordWords, SMTT(30) DEF FlagStart
  <2>2. [hd EXCEPT !.deleted = Wanted(op)] \in Headers
    BY <2>1 DEF Headers, Wanted
  <2>3. /\ header' = [header EXCEPT ![h] = [hd EXCEPT !.deleted = Wanted(op)]]
        /\ offset' = [offset EXCEPT ![h] = IndexOffset(r)]
        /\ record' = [record EXCEPT ![h] = r]
        /\ pc' = [pc EXCEPT ![h] = op]
    BY <1>2 DEF FlagStart, Go
  <2>4. ret' \in [Handles -> Answers]
    BY <1>2, AnswerType DEF FlagStart
  <2>5. UNCHANGED <<disk, header_info, faults>>
    BY <1>2 DEF FlagStart
  <2>6. pc' \in [Handles -> Pcs]
    BY <2>3 DEF Pcs, FlagOps
  <2> HIDE DEF r, hd
  <2> QED
    BY <2>1, <2>2, <2>3, <2>4, <2>5, <2>6 DEF disk, Busy
<1>3. CASE FlagWrite(h)
  <2>1. pc[h] \in FlagOps /\ Rewrite(h) /\ Return(h, Answer(pc[h], record[h], "ok"))
    BY <1>3 DEF FlagWrite
  <2>2. ret' \in [Handles -> Answers]
    BY <2>1, AnswerType DEF Return, FlagOps
  <2> QED
    BY <1>3, <2>1, <2>2, RewriteType, EndCallType DEF FlagWrite, Return, Busy
<1> QED
  BY <1>1, <1>2, <1>3 DEF FlagNext

\* So do open, drop and the calls on the fixed header.
LEMMA InfoType ==
  ASSUME TypeInv, NEW h \in Handles, InfoNext(h)
  PROVE  TypeInv'
<1> USE DEF TypeInv, TypeOK
<1>1. CASE Open(h)
  BY <1>1, AnswerType DEF Open, Go, disk, locals, Pcs, Busy, WritePcs, FlagOps
<1>2. CASE Drop(h)
  BY <1>2, AnswerType, BoundsAssumption DEF Drop, Go, disk, locals, Pcs, Busy, WritePcs, FlagOps,
                          NoInfo, JHRHeaderInfo
<1>3. CASE WriteJhrHeader(h)
  <2>1. NextCounter(header_info[h]) \in JHRHeaderInfo
    BY NextCounterType
  <2> QED
    BY <1>3, <2>1 DEF WriteJhrHeader, locals
<1>4. CASE ReadJhrHeader(h)
  BY <1>4 DEF ReadJhrHeader, disk, locals
<1> QED
  BY <1>1, <1>2, <1>3, <1>4 DEF InfoNext

\* So do failed operations and crashes.
LEMMA FaultType ==
  ASSUME TypeInv, NEW h \in Handles, FaultNext(h)
  PROVE  TypeInv'
<1> USE DEF TypeInv, TypeOK
<1>f. ASSUME NEW f, Fault(f) PROVE faults' \in 0 .. MaxFaults
  BY <1>f, BoundsAssumption DEF Fault
<1>1. CASE Fail(h)
  <2>1. Cut(h) /\ Return(h, Answer(OpOf(h), 0, "err")) /\ pc[h] \in WritePcs \cup FlagOps
    BY <1>1 DEF Fail
  <2>2. ret' \in [Handles -> Answers]
    BY <2>1, AnswerType DEF Return, OpOf, FlagOps
  <2> QED
    BY <1>1, <1>f, <2>1, <2>2, CutType, EndCallType DEF Fail, Return
<1>2. CASE FlushFails(h)
  <2>1. NextCounter(header_info[h]) \in JHRHeaderInfo
    BY NextCounterType
  <2> QED
    BY <1>2, <1>f, <2>1 DEF FlushFails, disk, locals
<1>3. CASE RestoreLost(h)
  <2>1. ret' \in [Handles -> Answers]
    BY <1>3, AnswerType DEF RestoreLost, Return
  <2> QED
    BY <1>3, <1>f, <2>1, EndCallType DEF RestoreLost, Return, disk
<1>4. CASE Crash(h)
  <2>1. ret' \in [Handles -> Answers]
    BY <1>4, AnswerType DEF Crash
  <2>2. header_info' \in [Handles -> JHRHeaderInfo]
    BY <1>4, BoundsAssumption DEF Crash, NoInfo, JHRHeaderInfo
  <2> QED
    BY <1>4, <1>f, <2>1, <2>2, CutType, EndCallType DEF Crash
<1> QED
  BY <1>1, <1>2, <1>3, <1>4 DEF FaultNext

\* Every step keeps the state well formed.
LEMMA TypeStep == TypeInv /\ [Next]_vars => TypeInv'
<1> SUFFICES ASSUME TypeInv, [Next]_vars PROVE TypeInv'
  OBVIOUS
<1>1. CASE UNCHANGED vars
  BY <1>1 DEF TypeInv, TypeOK, vars, disk, locals
<1>2. CASE Next
  BY <1>2, WriteType, FlagType, InfoType, FaultType DEF Next
<1> QED BY <1>1, <1>2

\* In every reachable state of every base the variables have their types: in
\* particular a call in progress always holds a header it can write.
THEOREM TypeCorrect == Spec => []TypeOK
<1>1. TypeInv => TypeOK
  BY DEF TypeInv
<1> QED
  BY <1>1, TypeInit, TypeStep, PTL DEF Spec

-----------------------------------------------------------------------------
(* What a step that only adds to the files keeps. *)

\* What a step appends leaves the text of a header where it is.
LEMMA GrowsText ==
  ASSUME TypeInv, TypeInv', Grows, NEW hd \in Headers, HoldsText(hd)
  PROVE  /\ hd.offset + Len(hd.msg.txt) <= Len(jdt')
         /\ \A k \in 1 .. Len(hd.msg.txt) : jdt'[hd.offset + k] = hd.msg.txt[k]
<1>1. hd.offset \in Nat /\ Len(hd.msg.txt) \in Nat
  BY MsgType DEF Headers
<1>2. Len(jdt) \in Nat /\ Len(jdt') \in Nat
  BY DEF TypeInv, TypeOK
<1>3. ASSUME NEW k \in 1 .. Len(hd.msg.txt) PROVE jdt'[hd.offset + k] = hd.msg.txt[k]
  <2>1. hd.offset + k \in 1 .. Len(jdt)
    BY <1>1, <1>2 DEF HoldsText
  <2>2. jdt'[hd.offset + k] = jdt[hd.offset + k]
    BY <2>1 DEF Grows
  <2> QED BY <2>2 DEF HoldsText
<1> QED
  BY <1>1, <1>2, <1>3 DEF HoldsText, Grows

\* The records that are there keep their words and lead to the same headers.
LEMMA IndexKept ==
  ASSUME TypeInv, TypeInv', IndexSound, Grows, NEW r \in 1 .. NumRecords
  PROVE  /\ r \in 1 .. NumRecords'
         /\ jdx'[2 * r] = IndexOffset(r) /\ jdx'[2 * r - 1] = IndexCrc(r)
         /\ IndexOffset(r) \in Nat
         /\ IndexOffset(r) + 1 \in 1 .. Len(hdrs)
         /\ IndexOffset(r) + 1 \in 1 .. Len(hdrs')
         /\ hdrs'[IndexOffset(r) + 1].whole
         /\ hdrs'[IndexOffset(r) + 1].msg = hdrs[IndexOffset(r) + 1].msg
<1>1. /\ NumRecords \in Nat /\ 2 * r \in 1 .. Len(jdx) /\ 2 * r - 1 \in 1 .. Len(jdx)
      /\ IndexOffset(r) \in Nat
  BY RecordWords DEF TypeInv
<1>2. Len(jdx) \in Nat /\ Len(jdx') \in Nat /\ Len(hdrs) \in Nat /\ Len(hdrs') \in Nat
  BY DEF TypeInv, TypeOK
<1>3. Len(jdx) \div 2 <= Len(jdx') \div 2 /\ Len(jdx') \div 2 \in Nat
  BY <1>2, Halves DEF Grows
<1>4. Readable(IndexOffset(r))
  BY DEF IndexSound
<1>5. r \in 1 .. NumRecords'
  BY <1>1, <1>3 DEF NumRecords
<1>6. jdx'[2 * r] = IndexOffset(r) /\ jdx'[2 * r - 1] = IndexCrc(r)
  BY <1>1 DEF Grows, IndexOffset, IndexCrc
<1> DEFINE o == IndexOffset(r)
<1>7. o + 1 \in 1 .. Len(hdrs) /\ o + 1 \in 1 .. Len(hdrs') /\ hdrs[o + 1].whole
  BY <1>1, <1>2, <1>4 DEF Readable, Grows
<1>8. SameButDeleted(hdrs[o + 1], hdrs'[o + 1])
  BY <1>7 DEF Grows
<1> QED
  BY <1>1, <1>5, <1>6, <1>7, <1>8 DEF SameButDeleted

\* A step that completes no record keeps the index sound.
LEMMA IndexSoundKept ==
  ASSUME TypeInv, TypeInv', IndexSound, Grows, NumRecords' = NumRecords
  PROVE  IndexSound'
<1>1. \A r \in 1 .. NumRecords' :
        Readable(IndexOffset(r))' /\ (IndexCrc(r) = RecipientCrc(hdrs[IndexOffset(r) + 1].msg))'
  <2> TAKE r \in 1 .. NumRecords'
  <2>1. r \in 1 .. NumRecords
    OBVIOUS
  <2>2. /\ jdx'[2 * r] = IndexOffset(r) /\ jdx'[2 * r - 1] = IndexCrc(r)
        /\ IndexOffset(r) \in Nat /\ IndexOffset(r) + 1 \in 1 .. Len(hdrs')
        /\ hdrs'[IndexOffset(r) + 1].whole
        /\ hdrs'[IndexOffset(r) + 1].msg = hdrs[IndexOffset(r) + 1].msg
    BY <2>1, IndexKept
  <2>3. IndexCrc(r) = RecipientCrc(hdrs[IndexOffset(r) + 1].msg)
    BY <2>1 DEF IndexSound
  <2>4. IndexOffset(r)' = IndexOffset(r) /\ IndexCrc(r)' = IndexCrc(r)
    BY <2>2 DEF IndexOffset, IndexCrc
  <2>5. Len(hdrs') \in Nat
    BY DEF TypeInv, TypeOK
  <2>6. Readable(IndexOffset(r))'
    BY <2>2, <2>4, <2>5 DEF Readable
  <2>7. RecipientCrc(hdrs[IndexOffset(r) + 1].msg)' = RecipientCrc(hdrs[IndexOffset(r) + 1].msg)
    BY <2>2, <2>4 DEF RecipientCrc
  <2> QED
    BY <2>3, <2>4, <2>6, <2>7
<1>2. \A r, s \in 1 .. NumRecords' : r < s => IndexOffset(r)' < IndexOffset(s)'
  BY IndexKept DEF IndexSound, IndexOffset
<1> QED
  BY <1>1, <1>2 DEF IndexSound

\* The calls of the other handles.
OthersKeep(h) ==
  \A g \in Handles \ {h} : /\ pc'[g] = pc[g] /\ header'[g] = header[g]
                           /\ offset'[g] = offset[g] /\ record'[g] = record[g]

\* While another handle writes a message, this one changes flags at most.
Harmless(h) ==
  (\E g \in Handles \ {h} : pc[g] \in WritePcs) =>
     /\ jdt' = jdt /\ jdx' = jdx /\ Len(hdrs') = Len(hdrs)
     /\ \A i \in 1 .. Len(hdrs) :
          hdrs'[i] = hdrs[i] \/ \E r \in 1 .. NumRecords : i = IndexOffset(r) + 1

\* A step that only appends leaves what the other handles are about to do right.
LEMMA OthersSound ==
  ASSUME TypeInv, TypeInv', IInv, Grows, NEW h \in Handles, OthersKeep(h), Harmless(h),
         NEW g \in Handles \ {h}
  PROVE  WriterSound(g)' /\ FlagSound(g)'
<1>1. /\ pc'[g] = pc[g] /\ header'[g] = header[g]
      /\ offset'[g] = offset[g] /\ record'[g] = record[g]
  BY DEF OthersKeep
<1>2. WriterSound(g)'
  <2>1. CASE pc[g] \notin WritePcs
    BY <1>1, <2>1 DEF WriterSound, WritePcs
  <2>2. CASE pc[g] \in WritePcs
    <3>1. /\ jdt' = jdt /\ jdx' = jdx /\ Len(hdrs') = Len(hdrs)
          /\ \A i \in 1 .. Len(hdrs) :
               hdrs'[i] = hdrs[i] \/ \E r \in 1 .. NumRecords : i = IndexOffset(r) + 1
      BY <2>2 DEF Harmless
    <3>2. WriterSound(g) /\ offset[g] \in Nat /\ Len(hdrs) \in Nat
      BY DEF IInv, TypeInv, TypeOK
    <3>3. HoldsText(header[g])' <=> HoldsText(header[g])
      BY <1>1, <3>1 DEF HoldsText
    <3>4. pc[g] \in {"crc", "off"} =>
            /\ offset[g] < Len(hdrs)
            /\ hdrs'[offset[g] + 1] = header[g]
            /\ \A r \in 1 .. NumRecords : IndexOffset(r) < offset[g]
      <4> HAVE pc[g] \in {"crc", "off"}
      <4>1. /\ offset[g] < Len(hdrs)
            /\ hdrs[offset[g] + 1] = header[g]
            /\ \A r \in 1 .. NumRecords : IndexOffset(r) < offset[g]
        BY <3>2 DEF WriterSound
      <4>2. \A r \in 1 .. NumRecords : IndexOffset(r) \in Nat
        BY RecordWords DEF TypeInv
      <4> QED BY <3>1, <3>2, <4>1, <4>2
    <3> QED
      BY <1>1, <3>1, <3>2, <3>3, <3>4 DEF WriterSound, NumRecords, IndexOffset
  <2> QED BY <2>1, <2>2
<1>3. FlagSound(g)'
  <2> SUFFICES ASSUME pc[g] \in FlagOps
               PROVE  /\ record[g] \in 1 .. NumRecords'
                      /\ offset[g] = jdx'[2 * record[g]]
                      /\ header[g] = [hdrs'[offset[g] + 1] EXCEPT !.deleted = Wanted(pc[g])]
    BY <1>1 DEF FlagSound, IndexOffset
  <2>1. /\ record[g] \in 1 .. NumRecords
        /\ offset[g] = IndexOffset(record[g])
        /\ header[g] = [hdrs[offset[g] + 1] EXCEPT !.deleted = Wanted(pc[g])]
    BY DEF IInv, FlagSound
  <2>2. /\ record[g] \in 1 .. NumRecords' /\ jdx'[2 * record[g]] = offset[g]
        /\ offset[g] + 1 \in 1 .. Len(hdrs) /\ offset[g] + 1 \in 1 .. Len(hdrs')
    BY <2>1, IndexKept DEF IInv
  <2>3. hdrs[offset[g] + 1] \in Headers /\ hdrs'[offset[g] + 1] \in Headers
    BY <2>2, ElementOfSeq DEF TypeInv, TypeOK
  <2>4. SameButDeleted(hdrs[offset[g] + 1], hdrs'[offset[g] + 1])
    BY <2>2 DEF Grows
  <2> QED
    BY <2>1, <2>2, <2>3, <2>4 DEF SameButDeleted, Headers
<1> QED BY <1>2, <1>3

\* A call that ends leaves the other handles alone.
LEMMA EndKeeps ==
  ASSUME TypeInv, NEW h \in Handles, NEW where \in {"idle", "closed"}, EndCall(h, where)
  PROVE  OthersKeep(h) /\ pc'[h] = where /\ pc'[h] \notin Busy
  BY DEF TypeInv, TypeOK, EndCall, OthersKeep, Busy, WritePcs, FlagOps

\* The index stays aligned while nobody starts or leaves a record.
LEMMA AlignedKept ==
  ASSUME IndexAligned, NEW h \in Handles, OthersKeep(h), jdx' = jdx,
         pc[h] # "off", pc'[h] # "off"
  PROVE  IndexAligned'
<1>1. (\E g \in Handles : pc[g] = "off") <=> (\E g \in Handles : pc'[g] = "off")
  BY DEF OthersKeep
<1> QED
  BY <1>1 DEF IndexAligned

\* The invariant after a step of h, part by part.
LEMMA Assemble ==
  ASSUME TypeInv, TypeInv', IInv, Grows, NEW h \in Handles, OthersKeep(h), Harmless(h),
         pc'[h] \in WritePcs => \A g \in Handles \ {h} : pc[g] \notin WritePcs,
         FilesFit', TextsHeld', IndexAligned', IndexSound', WriterSound(h)', FlagSound(h)'
  PROVE  IInv'
<1>1. OneWriter'
  BY DEF IInv, OneWriter, OthersKeep
<1>2. \A g \in Handles : WriterSound(g)' /\ FlagSound(g)'
  BY OthersSound
<1>3. TypeOK'
  BY DEF TypeInv
<1> QED
  BY <1>1, <1>2, <1>3 DEF IInv

\* A step that leaves the index alone and after which h has no call.
LEMMA EndSound ==
  ASSUME TypeInv, TypeInv', IInv, Grows, NEW h \in Handles, OthersKeep(h), Harmless(h),
         pc[h] # "off", pc'[h] \notin Busy, jdx' = jdx, FilesFit', TextsHeld'
  PROVE  IInv'
<1>1. IndexAligned'
  BY AlignedKept DEF IInv, Busy, WritePcs
<1>2. IndexSound'
  BY IndexSoundKept DEF IInv, NumRecords
<1>3. WriterSound(h)' /\ FlagSound(h)'
  BY DEF WriterSound, FlagSound, Busy, WritePcs
<1> QED
  BY <1>1, <1>2, <1>3, Assemble DEF Busy

\* ... in particular one that leaves the three files alone.
LEMMA QuietEnd ==
  ASSUME TypeInv, TypeInv', IInv, NEW h \in Handles, OthersKeep(h),
         pc[h] # "off", pc'[h] \notin Busy, hdrs' = hdrs, jdt' = jdt, jdx' = jdx
  PROVE  Grows /\ IInv'
<1>1. Grows
  BY DEF Grows, SameButDeleted, TypeInv, TypeOK
<1>2. Harmless(h)
  BY DEF Harmless
<1>3. FilesFit' /\ TextsHeld'
  BY DEF IInv, FilesFit, TextsHeld, HoldsText
<1> QED
  BY <1>1, <1>2, <1>3, EndSound
-----------------------------------------------------------------------------
(* The steps of write_message. *)

\* The handle that writes is the only one.
LEMMA AloneWriting ==
  ASSUME IInv, NEW h \in Handles, pc[h] \in WritePcs
  PROVE  Harmless(h) /\ \A g \in Handles \ {h} : pc[g] \notin WritePcs
  BY DEF IInv, OneWriter, Harmless

\* write_message begins: the offset of its text is noted.
LEMMA WriteMessageSound ==
  ASSUME Discipline, TypeInv, TypeInv', IInv, NEW h \in Handles, NEW m \in Msgs,
         WriteMessage(h, m)
  PROVE  Grows /\ IInv'
<1>1. /\ pc[h] = "idle" /\ pc'[h] = "text" /\ OthersKeep(h)
      /\ header'[h] = [msg |-> m, offset |-> Len(jdt) % Offsets,
                       deleted |-> m.del, whole |-> TRUE]
  BY DEF WriteMessage, Go, OthersKeep, TypeInv, TypeOK
<1>2. hdrs' = hdrs /\ jdt' = jdt /\ jdx' = jdx
  BY DEF WriteMessage, disk
<1>3. Grows
  BY <1>2 DEF Grows, SameButDeleted, TypeInv, TypeOK
<1>4. Harmless(h) /\ \A g \in Handles \ {h} : pc[g] \notin WritePcs
  BY DEF WriteMessage, Harmless, Discipline
<1>5. FilesFit' /\ TextsHeld'
  BY <1>2 DEF IInv, FilesFit, TextsHeld, HoldsText
<1>6. IndexAligned'
  BY <1>1, <1>2, AlignedKept DEF IInv
<1>7. IndexSound'
  BY <1>2, <1>3, IndexSoundKept DEF IInv, NumRecords
<1>8. FlagSound(h)'
  BY <1>1 DEF FlagSound, FlagOps
<1>9. WriterSound(h)'
  <2>1. Len(hdrs) < MaxHdrs /\ Len(jdt) + Len(m.txt) <= MaxText
    BY DEF WriteMessage
  <2>2. Len(jdt) \in Nat /\ Len(m.txt) \in Nat /\ Offsets \in Nat /\ MaxText \in Nat
    BY MsgType, BoundsAssumption DEF TypeInv, TypeOK
  <2>3. Len(jdt) < Offsets
    BY <2>1, <2>2 DEF Discipline
  <2>4. Len(jdt) % Offsets = Len(jdt)
    BY <2>2, <2>3, ModSmall
  <2>5. header'[h] \in Headers
    BY <1>1 DEF TypeInv, Busy, WritePcs
  <2>6. /\ header'[h].whole /\ header'[h].offset = Len(jdt)
        /\ header'[h].msg = m /\ header'[h].deleted = m.del
    BY <1>1, <2>4
  <2> QED
    BY <1>1, <1>2, <2>1, <2>5, <2>6 DEF WriterSound
<1> QED
  BY <1>1, <1>3, <1>4, <1>5, <1>6, <1>7, <1>8, <1>9, Assemble

\* The text is appended, whole.
LEMMA AppendTextSound ==
  ASSUME Discipline, TypeInv, TypeInv', IInv, NEW h \in Handles, AppendText(h)
  PROVE  Grows /\ IInv'
<1> DEFINE txt == header[h].msg.txt
<1>1. /\ pc[h] = "text" /\ pc'[h] = "hdrlen" /\ OthersKeep(h)
      /\ hdrs' = hdrs /\ jdt' = jdt \o txt /\ jdx' = jdx /\ header' = header
  BY DEF AppendText, Go, OthersKeep, locals, TypeInv, TypeOK
<1>2. /\ header[h] \in Headers /\ header[h].whole /\ header[h].offset = Len(jdt)
      /\ header[h].deleted = header[h].msg.del
      /\ Len(jdt) + Len(txt) <= MaxText /\ Len(hdrs) < MaxHdrs
  BY <1>1 DEF IInv, WriterSound, WritePcs
<1>3. jdt \in Seq(Cells) /\ txt \in Seq(Cells)
  BY <1>2, MsgType DEF TypeInv, TypeOK, Headers
<1>4. /\ Len(jdt') = Len(jdt) + Len(txt) /\ Len(jdt) \in Nat /\ Len(txt) \in Nat
      /\ \A i \in 1 .. Len(jdt) + Len(txt) :
           jdt'[i] = IF i <= Len(jdt) THEN jdt[i] ELSE txt[i - Len(jdt)]
  BY <1>1, <1>3, ConcatProperties
<1>5. Grows
  BY <1>1, <1>4 DEF Grows, SameButDeleted, TypeInv, TypeOK
<1>6. Harmless(h) /\ \A g \in Handles \ {h} : pc[g] \notin WritePcs
  BY <1>1, AloneWriting DEF WritePcs
<1>7. FilesFit'
  BY <1>1, <1>2, <1>4 DEF IInv, FilesFit
<1>8. TextsHeld'
  <2> SUFFICES ASSUME NEW i \in DOMAIN hdrs, hdrs[i].whole PROVE HoldsText(hdrs[i])'
    BY <1>1 DEF TextsHeld
  <2>1. hdrs[i] \in Headers
    BY ElementOfSeq DEF TypeInv, TypeOK
  <2> QED
    BY <1>1, <1>5, <2>1, GrowsText DEF IInv, TextsHeld, HoldsText
<1>9. IndexAligned' /\ IndexSound'
  BY <1>1, <1>5, AlignedKept, IndexSoundKept DEF IInv, NumRecords
<1>10. FlagSound(h)'
  BY <1>1 DEF FlagSound, FlagOps
<1>11. WriterSound(h)'
  <2>1. HoldsText(header[h])'
    BY <1>1, <1>2, <1>4 DEF HoldsText
  <2> QED
    BY <1>1, <1>2, <2>1 DEF WriterSound
<1> QED
  BY <1>1, <1>5, <1>6, <1>7, <1>8, <1>9, <1>10, <1>11, Assemble

\* The length of the header file is read, for the record to come.
LEMMA ReadHdrLenSound ==
  ASSUME Discipline, TypeInv, TypeInv', IInv, NEW h \in Handles, ReadHdrLen(h)
  PROVE  Grows /\ IInv'
<1>1. /\ pc[h] = "hdrlen" /\ pc'[h] = "header" /\ OthersKeep(h) /\ header' = header
      /\ hdrs' = hdrs /\ jdt' = jdt /\ jdx' = jdx /\ offset'[h] = Len(hdrs) % Offsets
  BY DEF ReadHdrLen, Go, OthersKeep, disk, TypeInv, TypeOK
<1>2. /\ header[h] \in Headers /\ header[h].whole /\ HoldsText(header[h])
      /\ header[h].deleted = header[h].msg.del
      /\ Len(hdrs) < MaxHdrs
  BY <1>1 DEF IInv, WriterSound, WritePcs
<1>3. offset'[h] = Len(hdrs)
  <2>1. Len(hdrs) \in Nat /\ Offsets \in Nat /\ MaxHdrs \in Nat
    BY BoundsAssumption DEF TypeInv, TypeOK
  <2>2. Len(hdrs) < Offsets
    BY <1>2, <2>1 DEF Discipline
  <2> QED BY <1>1, <2>1, <2>2, ModSmall
<1>4. Grows
  BY <1>1 DEF Grows, SameButDeleted, TypeInv, TypeOK
<1>5. Harmless(h) /\ \A g \in Handles \ {h} : pc[g] \notin WritePcs
  BY <1>1, AloneWriting DEF WritePcs
<1>6. FilesFit' /\ TextsHeld'
  BY <1>1 DEF IInv, FilesFit, TextsHeld, HoldsText
<1>7. IndexAligned' /\ IndexSound'
  BY <1>1, <1>4, AlignedKept, IndexSoundKept DEF IInv, NumRecords
<1>8. FlagSound(h)'
  BY <1>1 DEF FlagSound, FlagOps
<1>9. WriterSound(h)'
  BY <1>1, <1>2, <1>3 DEF WriterSound, HoldsText
<1> QED
  BY <1>1, <1>4, <1>5, <1>6, <1>7, <1>8, <1>9, Assemble

\* A header, whole or cut, at the end of the header file.
LEMMA HeaderAdded ==
  ASSUME TypeInv, TypeInv', IInv, NEW hd \in Headers,
         hdrs' = Append(hdrs, hd), jdt' = jdt, jdx' = jdx,
         hd.whole => HoldsText(hd), Len(hdrs) < MaxHdrs
  PROVE  /\ Grows /\ FilesFit' /\ TextsHeld' /\ IndexSound'
         /\ Len(hdrs') = Len(hdrs) + 1 /\ hdrs'[Len(hdrs) + 1] = hd
<1>1. hdrs \in Seq(Headers) /\ Len(hdrs) \in Nat /\ MaxHdrs \in Nat
  BY BoundsAssumption DEF TypeInv, TypeOK
<1>2. /\ Len(hdrs') = Len(hdrs) + 1 /\ hdrs'[Len(hdrs) + 1] = hd
      /\ \A i \in 1 .. Len(hdrs) : hdrs'[i] = hdrs[i]
  BY <1>1, AppendProperties
<1>3. Grows
  BY <1>1, <1>2 DEF Grows, SameButDeleted, TypeInv, TypeOK
<1>4. FilesFit'
  BY <1>1, <1>2 DEF IInv, FilesFit
<1>5. TextsHeld'
  <2> SUFFICES ASSUME NEW i \in 1 .. Len(hdrs'), hdrs'[i].whole
               PROVE  HoldsText(hdrs'[i])
    <3>1. DOMAIN hdrs' = 1 .. Len(hdrs')
      BY DEF TypeInv, TypeOK
    <3> QED BY <3>1 DEF TextsHeld, HoldsText
  <2>1. CASE i = Len(hdrs) + 1
    BY <1>2, <2>1
  <2>2. CASE i \in 1 .. Len(hdrs)
    <3>1. DOMAIN hdrs = 1 .. Len(hdrs)
      BY <1>1
    <3> QED BY <1>2, <2>2, <3>1 DEF IInv, TextsHeld
  <2> QED BY <1>1, <1>2, <2>1, <2>2
<1>6. IndexSound'
  BY <1>3, IndexSoundKept DEF IInv, NumRecords
<1> QED
  BY <1>2, <1>3, <1>4, <1>5, <1>6

\* The header is appended, behind its text.
LEMMA AppendHeaderSound ==
  ASSUME Discipline, TypeInv, TypeInv', IInv, NEW h \in Handles, AppendHeader(h)
  PROVE  Grows /\ IInv'
<1>1. /\ pc[h] = "header" /\ pc'[h] = "crc" /\ OthersKeep(h)
      /\ header' = header /\ offset' = offset
      /\ hdrs' = Append(hdrs, header[h]) /\ jdt' = jdt /\ jdx' = jdx
  BY DEF AppendHeader, Go, OthersKeep, locals, TypeInv, TypeOK
<1>2. /\ header[h] \in Headers /\ header[h].whole /\ HoldsText(header[h])
      /\ header[h].deleted = header[h].msg.del
      /\ Len(hdrs) < MaxHdrs /\ offset[h] = Len(hdrs)
  BY <1>1 DEF IInv, WriterSound, WritePcs
<1>3. /\ Grows /\ FilesFit' /\ TextsHeld' /\ IndexSound'
      /\ Len(hdrs') = Len(hdrs) + 1 /\ hdrs'[Len(hdrs) + 1] = header[h]
  BY <1>1, <1>2, HeaderAdded
<1>4. Harmless(h) /\ \A g \in Handles \ {h} : pc[g] \notin WritePcs
  BY <1>1, AloneWriting DEF WritePcs
<1>5. IndexAligned'
  BY <1>1, AlignedKept DEF IInv
<1>6. FlagSound(h)'
  BY <1>1 DEF FlagSound, FlagOps
<1>7. WriterSound(h)'
  <2>1. \A r \in 1 .. NumRecords : IndexOffset(r) \in Nat /\ IndexOffset(r) < Len(hdrs)
    BY RecordWords DEF IInv, IndexSound, Readable, TypeInv
  <2>2. offset'[h] < Len(hdrs') /\ hdrs'[offset'[h] + 1] = header'[h]
    BY <1>1, <1>2, <1>3 DEF TypeInv, TypeOK
  <2>3. \A r \in 1 .. NumRecords' : IndexOffset(r)' < offset'[h]
    BY <1>1, <1>2, <2>1 DEF NumRecords, IndexOffset
  <2>4. HoldsText(header[h])'
    BY <1>1, <1>2 DEF HoldsText
  <2> QED
    BY <1>1, <1>2, <2>2, <2>3, <2>4 DEF WriterSound
<1> QED
  BY <1>1, <1>3, <1>4, <1>5, <1>6, <1>7, Assemble

\* A word at the end of the index file.
LEMMA WordAdded ==
  ASSUME TypeInv, NEW w \in Nat, hdrs' = hdrs, jdt' = jdt, jdx' = Append(jdx, w)
  PROVE  /\ Grows
         /\ Len(jdx) \in Nat /\ Len(jdx') = Len(jdx) + 1 /\ jdx'[Len(jdx) + 1] = w
         /\ \A k \in 1 .. Len(jdx) : jdx'[k] = jdx[k]
<1>1. jdx \in Seq(Nat) /\ Len(jdx) \in Nat
  BY DEF TypeInv, TypeOK
<1>2. /\ Len(jdx') = Len(jdx) + 1 /\ jdx'[Len(jdx) + 1] = w
      /\ \A k \in 1 .. Len(jdx) : jdx'[k] = jdx[k]
  BY <1>1, AppendProperties
<1> QED
  BY <1>1, <1>2 DEF Grows, SameButDeleted, TypeInv, TypeOK

\* The first word of the index record is appended.
LEMMA AppendCrcSound ==
  ASSUME Discipline, TypeInv, TypeInv', IInv, NEW h \in Handles, AppendCrc(h)
  PROVE  Grows /\ IInv'
<1>1. /\ pc[h] = "crc" /\ pc'[h] = "off" /\ OthersKeep(h)
      /\ header' = header /\ offset' = offset
      /\ jdx' = Append(jdx, RecipientCrc(header[h].msg)) /\ jdt' = jdt /\ hdrs' = hdrs
  BY DEF AppendCrc, Go, OthersKeep, locals, TypeInv, TypeOK
<1>2. /\ header[h] \in Headers /\ header[h].whole /\ HoldsText(header[h])
      /\ header[h].deleted = header[h].msg.del
      /\ offset[h] < Len(hdrs) /\ hdrs[offset[h] + 1] = header[h]
      /\ \A r \in 1 .. NumRecords : IndexOffset(r) < offset[h]
  BY <1>1 DEF IInv, WriterSound, WritePcs
<1>3. RecipientCrc(header[h].msg) \in Nat
  BY <1>2, RecipientCrcType DEF Headers
<1>4. /\ Grows
      /\ Len(jdx) \in Nat /\ Len(jdx') = Len(jdx) + 1
      /\ jdx'[Len(jdx) + 1] = RecipientCrc(header[h].msg)
  BY <1>1, <1>3, WordAdded
<1>5. Harmless(h) /\ \A g \in Handles \ {h} : pc[g] \notin WritePcs
  BY <1>1, AloneWriting DEF WritePcs
<1>6. Len(jdx) % 2 = 0
  <2>1. \A g \in Handles : pc[g] # "off"
    BY <1>1, <1>5 DEF WritePcs
  <2> QED BY <2>1 DEF IInv, IndexAligned
<1>7. NumRecords' = NumRecords /\ Len(jdx') % 2 = 1
  BY <1>4, <1>6, Halves DEF NumRecords
<1>8. FilesFit' /\ TextsHeld'
  BY <1>1 DEF IInv, FilesFit, TextsHeld, HoldsText
<1>9. IndexAligned'
  BY <1>1, <1>7 DEF IndexAligned
<1>10. IndexSound'
  BY <1>4, <1>7, IndexSoundKept DEF IInv
<1>11. FlagSound(h)'
  BY <1>1 DEF FlagSound, FlagOps
<1>12. WriterSound(h)'
  <2>1. \A r \in 1 .. NumRecords' : IndexOffset(r)' = IndexOffset(r)
    BY <1>4, <1>7, IndexKept DEF IInv, IndexOffset
  <2>2. \A r \in 1 .. NumRecords' : IndexOffset(r)' < offset'[h]
    BY <1>1, <1>2, <1>7, <2>1
  <2>3. HoldsText(header[h])'
    BY <1>1, <1>2 DEF HoldsText
  <2>4. jdx'[Len(jdx')] = RecipientCrc(header'[h].msg)
    BY <1>1, <1>4
  <2>5. RecipientCrc(header[h].msg)' = RecipientCrc(header'[h].msg)
    BY DEF RecipientCrc
  <2> QED
    BY <1>1, <1>2, <2>2, <2>3, <2>4, <2>5 DEF WriterSound
<1> QED
  BY <1>1, <1>4, <1>5, <1>8, <1>9, <1>10, <1>11, <1>12, Assemble

\* The second word completes the record.
LEMMA AppendOffsetSound ==
  ASSUME Discipline, TypeInv, TypeInv', IInv, NEW h \in Handles, AppendOffset(h)
  PROVE  Grows /\ IInv'
<1>1. pc[h] = "off" /\ jdx' = Append(jdx, offset[h]) /\ jdt' = jdt /\ hdrs' = hdrs
  BY DEF AppendOffset
<1>2. OthersKeep(h) /\ pc'[h] = "idle"
  BY EndKeeps DEF AppendOffset, Return
<1>3. /\ header[h].whole /\ offset[h] < Len(hdrs) /\ hdrs[offset[h] + 1] = header[h]
      /\ \A r \in 1 .. NumRecords : IndexOffset(r) < offset[h]
      /\ jdx[Len(jdx)] = RecipientCrc(header[h].msg)
  BY <1>1 DEF IInv, WriterSound, WritePcs
<1>4. offset[h] \in Nat
  BY DEF TypeInv, TypeOK
<1>5. /\ Grows
      /\ Len(jdx) \in Nat /\ Len(jdx') = Len(jdx) + 1 /\ jdx'[Len(jdx) + 1] = offset[h]
      /\ \A k \in 1 .. Len(jdx) : jdx'[k] = jdx[k]
  BY <1>1, <1>4, WordAdded
<1>6. Harmless(h) /\ \A g \in Handles \ {h} : pc[g] \notin WritePcs
  BY <1>1, AloneWriting DEF WritePcs
<1>7. Len(jdx) % 2 = 1
  BY <1>1 DEF IInv, IndexAligned
<1>8. /\ NumRecords \in Nat /\ NumRecords' = NumRecords + 1
      /\ Len(jdx') % 2 = 0 /\ 2 * NumRecords' = Len(jdx) + 1
  BY <1>5, <1>7, Halves DEF NumRecords
<1>9. FilesFit' /\ TextsHeld'
  BY <1>1 DEF IInv, FilesFit, TextsHeld, HoldsText
<1>10. IndexAligned'
  <2>1. \A g \in Handles : pc'[g] # "off"
    BY <1>2, <1>6 DEF OthersKeep, WritePcs
  <2> QED BY <1>8, <2>1 DEF IndexAligned
<1> DEFINE R == NumRecords + 1
<1>11. /\ jdx'[2 * R] = offset[h]
       /\ jdx'[2 * R - 1] = RecipientCrc(header[h].msg)
  <2>1. 2 * R = Len(jdx) + 1 /\ 2 * R - 1 = Len(jdx) /\ Len(jdx) \in 1 .. Len(jdx)
    BY <1>5, <1>7, <1>8
  <2> QED BY <1>3, <1>5, <2>1
<1>12. IndexSound'
  <2>1. ASSUME NEW r \in 1 .. NumRecords
        PROVE  /\ jdx'[2 * r] = IndexOffset(r) /\ jdx'[2 * r - 1] = IndexCrc(r)
               /\ IndexOffset(r) \in Nat /\ IndexOffset(r) + 1 \in 1 .. Len(hdrs)
               /\ hdrs[IndexOffset(r) + 1].whole
               /\ IndexCrc(r) = RecipientCrc(hdrs[IndexOffset(r) + 1].msg)
    BY <1>1, <1>5, IndexKept DEF IInv, IndexSound
  <2>2. Len(hdrs) \in Nat
    BY DEF TypeInv, TypeOK
  <2>3. ASSUME NEW r \in 1 .. R
        PROVE  /\ jdx'[2 * r] < Len(hdrs) /\ hdrs[jdx'[2 * r] + 1].whole
               /\ jdx'[2 * r - 1] = RecipientCrc(hdrs[jdx'[2 * r] + 1].msg)
    <3>1. CASE r \in 1 .. NumRecords
      BY <2>1, <2>2, <3>1
    <3>2. CASE r = R
      BY <1>3, <1>11, <3>2
    <3> QED BY <1>8, <3>1, <3>2
  <2>4. ASSUME NEW r \in 1 .. R, NEW s \in 1 .. R, r < s
        PROVE  jdx'[2 * r] < jdx'[2 * s]
    <3>1. r \in 1 .. NumRecords
      BY <1>8, <2>4
    <3>2. CASE s \in 1 .. NumRecords
      BY <2>1, <2>4, <3>1, <3>2 DEF IInv, IndexSound
    <3>3. CASE s = R
      BY <1>3, <1>11, <2>1, <3>1, <3>3
    <3> QED BY <1>8, <3>2, <3>3
  <2>5. \A o : Readable(o)' <=> Readable(o)
    BY <1>1 DEF Readable
  <2>6. \A m : RecipientCrc(m)' = RecipientCrc(m)
    BY DEF RecipientCrc
  <2> HIDE DEF R
  <2>7. \A r \in 1 .. R : /\ Readable(jdx'[2 * r])
                          /\ jdx'[2 * r - 1] = RecipientCrc(hdrs[jdx'[2 * r] + 1].msg)
    BY <2>3 DEF Readable
  <2> QED
    BY <1>1, <1>8, <2>4, <2>5, <2>6, <2>7 DEF IndexSound, IndexOffset, IndexCrc, R, Readable
<1>13. WriterSound(h)' /\ FlagSound(h)'
  BY <1>2 DEF WriterSound, FlagSound, WritePcs, FlagOps
<1> QED
  BY <1>2, <1>5, <1>6, <1>9, <1>10, <1>12, <1>13, Assemble
-----------------------------------------------------------------------------
(* The steps of delete_message and restore_message. *)

\* delete_message and restore_message read the header they will change.
LEMMA FlagStartSound ==
  ASSUME TypeInv, TypeInv', IInv, NEW h \in Handles, NEW op \in FlagOps,
         NEW n \in MsgNumbers, FlagStart(h, op, n)
  PROVE  Grows /\ IInv'
<1> DEFINE r == RecordOf(header_info[h], n)
           hd == Located_header(header_info[h], n)
<1>1. /\ pc[h] = "idle" /\ pc'[h] = op /\ OthersKeep(h)
      /\ header'[h] = [hd EXCEPT !.deleted = Wanted(op)]
      /\ offset'[h] = IndexOffset(r) /\ record'[h] = r
      /\ hdrs' = hdrs /\ jdt' = jdt /\ jdx' = jdx
  BY DEF FlagStart, Go, OthersKeep, disk, TypeInv, TypeOK
<1>2. r \in 1 .. NumRecords /\ hd = hdrs[IndexOffset(r) + 1]
  BY LocatedType DEF FlagStart, TypeInv, Located_header
<1>3. Grows
  BY <1>1 DEF Grows, SameButDeleted, TypeInv, TypeOK
<1>4. Harmless(h)
  BY <1>1 DEF Harmless
<1>5. FilesFit' /\ TextsHeld'
  BY <1>1 DEF IInv, FilesFit, TextsHeld, HoldsText
<1>6. IndexAligned' /\ IndexSound'
  BY <1>1, <1>3, AlignedKept, IndexSoundKept DEF IInv, NumRecords, FlagOps
<1>7. WriterSound(h)'
  BY <1>1 DEF WriterSound, WritePcs, FlagOps
<1>8. FlagSound(h)'
  <2>1. NumRecords' = NumRecords
    BY <1>1 DEF NumRecords
  <2>2. Wanted(pc[h])' = Wanted(op)
    BY <1>1 DEF Wanted
  <2> HIDE DEF r, hd
  <2> QED
    BY <1>1, <1>2, <2>1, <2>2 DEF FlagSound, IndexOffset
<1>9. pc'[h] \notin WritePcs
  BY <1>1 DEF FlagOps, WritePcs
<1> QED
  BY <1>1, <1>3, <1>4, <1>5, <1>6, <1>7, <1>8, <1>9, Assemble

\* Writing the header back changes its flag and nothing else, and leaves the
\* header of a message that is being written alone.
LEMMA RewriteSound ==
  ASSUME TypeInv, TypeInv', IInv, NEW h \in Handles, pc[h] \in FlagOps,
         Rewrite(h), jdt' = jdt, jdx' = jdx
  PROVE  Grows /\ Harmless(h) /\ FilesFit' /\ TextsHeld'
<1>1. /\ record[h] \in 1 .. NumRecords
      /\ offset[h] = IndexOffset(record[h])
      /\ header[h] = [hdrs[offset[h] + 1] EXCEPT !.deleted = Wanted(pc[h])]
  BY DEF IInv, FlagSound
<1>2. hdrs \in Seq(Headers) /\ header[h] \in Headers /\ Len(hdrs) \in Nat
  BY DEF TypeInv, TypeOK, Busy
<1>3. offset[h] + 1 \in 1 .. Len(hdrs)
  <2>1. offset[h] \in Nat /\ offset[h] < Len(hdrs)
    BY <1>1, RecordWords DEF IInv, IndexSound, Readable, TypeInv
  <2> QED BY <1>2, <2>1
<1>4. /\ Len(hdrs') = Len(hdrs)
      /\ \A j \in 1 .. Len(hdrs) : hdrs'[j] = IF j = offset[h] + 1 THEN header[h] ELSE hdrs[j]
  BY <1>2, <1>3, ExceptSeq DEF Rewrite
<1>5. SameButDeleted(hdrs[offset[h] + 1], header[h])
  <2>1. hdrs[offset[h] + 1] \in Headers
    BY <1>2, <1>3, ElementOfSeq
  <2> QED BY <1>1, <2>1 DEF SameButDeleted, Headers
<1>6. \A j \in 1 .. Len(hdrs) : SameButDeleted(hdrs[j], hdrs'[j])
  BY <1>4, <1>5 DEF SameButDeleted
<1>7. Grows
  BY <1>4, <1>6 DEF Grows, TypeInv, TypeOK
<1>8. Harmless(h)
  BY <1>1, <1>4 DEF Harmless
<1>9. FilesFit'
  BY <1>4 DEF IInv, FilesFit
<1>10. TextsHeld'
  <2> SUFFICES ASSUME NEW i \in 1 .. Len(hdrs), hdrs'[i].whole
               PROVE  HoldsText(hdrs'[i])
    <3>1. DOMAIN hdrs' = 1 .. Len(hdrs')
      BY DEF TypeInv, TypeOK
    <3> QED BY <1>4, <3>1 DEF TextsHeld, HoldsText
  <2>1. HoldsText(hdrs[i])
    BY <1>2, <1>6 DEF IInv, TextsHeld, SameButDeleted
  <2> QED
    BY <1>6, <2>1 DEF HoldsText, SameButDeleted
<1> QED BY <1>7, <1>8, <1>9, <1>10

\* They write it back over itself.
LEMMA FlagWriteSound ==
  ASSUME TypeInv, TypeInv', IInv, NEW h \in Handles, FlagWrite(h)
  PROVE  Grows /\ IInv'
<1>1. pc[h] \in FlagOps /\ Rewrite(h) /\ jdt' = jdt /\ jdx' = jdx
  BY DEF FlagWrite
<1>2. OthersKeep(h) /\ pc'[h] \notin Busy
  BY EndKeeps DEF FlagWrite, Return
<1> QED
  BY <1>1, <1>2, RewriteSound, EndSound DEF FlagOps

-----------------------------------------------------------------------------
(* Faults. *)

\* What a cut leaves on disk when h has no call afterwards.
LEMMA CutSound ==
  ASSUME Discipline, TypeInv, TypeInv', IInv, NEW h \in Handles, Cut(h),
         OthersKeep(h), pc'[h] \notin Busy
  PROVE  Grows /\ IInv'
<1>1. CASE UNCHANGED disk /\ (pc[h] = "off" => "index" \in Cuts)
  BY <1>1, QuietEnd DEF Discipline, disk
<1>2. CASE CutText(h)
  <2> DEFINE txt == header[h].msg.txt
  <2>1. pc[h] = "text" /\ hdrs' = hdrs /\ jdx' = jdx
    BY <1>2 DEF CutText
  <2>2. header[h] \in Headers /\ Len(jdt) + Len(txt) <= MaxText
    BY <2>1 DEF IInv, WriterSound, WritePcs
  <2>3. txt \in Seq(Cells) /\ jdt \in Seq(Cells) /\ Len(txt) \in Nat /\ Len(jdt) \in Nat
    BY <2>2, MsgType DEF Headers, TypeInv, TypeOK
  <2>4. PICK k \in 1 .. Len(txt) : jdt' = jdt \o SubSeq(txt, 1, k)
    BY <1>2 DEF CutText
  <2>5. SubSeq(txt, 1, k) \in Seq(Cells) /\ Len(SubSeq(txt, 1, k)) = k
    BY <2>3, <2>4
  <2>6. Len(jdt') = Len(jdt) + k /\ \A i \in 1 .. Len(jdt) : jdt'[i] = jdt[i]
    BY <2>3, <2>4, <2>5, ConcatProperties
  <2>7. Grows
    BY <2>1, <2>3, <2>6 DEF Grows, SameButDeleted, TypeInv, TypeOK
  <2>8. Harmless(h)
    BY <2>1, AloneWriting DEF WritePcs
  <2>9. FilesFit'
    BY <2>1, <2>2, <2>3, <2>6, BoundsAssumption DEF IInv, FilesFit
  <2>10. TextsHeld'
    <3> SUFFICES ASSUME NEW i \in DOMAIN hdrs, hdrs[i].whole PROVE HoldsText(hdrs[i])'
      BY <2>1 DEF TextsHeld
    <3>1. hdrs[i] \in Headers
      BY ElementOfSeq DEF TypeInv, TypeOK
    <3> QED
      BY <2>1, <2>7, <3>1, GrowsText DEF IInv, TextsHeld, HoldsText
  <2> QED
    BY <2>1, <2>7, <2>8, <2>9, <2>10, EndSound
<1>3. CASE CutHeader(h)
  <2>1. CASE pc[h] = "header" /\ hdrs' = Append(hdrs, [header[h] EXCEPT !.whole = FALSE])
    <3> DEFINE hd == [header[h] EXCEPT !.whole = FALSE]
    <3>1. header[h] \in Headers /\ Len(hdrs) < MaxHdrs
      BY <2>1 DEF IInv, WriterSound, WritePcs
    <3>2. hd \in Headers /\ ~hd.whole
      BY <3>1 DEF Headers
    <3>3. jdt' = jdt /\ jdx' = jdx
      BY <1>3 DEF CutHeader
    <3> HIDE DEF hd
    <3>4. Grows /\ FilesFit' /\ TextsHeld'
      BY <2>1, <3>1, <3>2, <3>3, HeaderAdded DEF hd
    <3>5. Harmless(h)
      BY <2>1, AloneWriting DEF WritePcs
    <3> QED
      BY <2>1, <3>3, <3>4, <3>5, EndSound
  <2>2. CASE pc[h] \in FlagOps /\ Rewrite(h)
    <3>1. jdt' = jdt /\ jdx' = jdx
      BY <1>3 DEF CutHeader
    <3> QED
      BY <2>2, <3>1, RewriteSound, EndSound DEF FlagOps
  <2> QED BY <1>3, <2>1, <2>2 DEF CutHeader
<1> QED BY <1>1, <1>2, <1>3 DEF Cut

\* A step that leaves the three files and all calls alone.
LEMMA QuietStep ==
  ASSUME TypeInv, TypeInv', IInv, UNCHANGED <<hdrs, jdt, jdx, pc, locals>>
  PROVE  Grows /\ IInv'
<1>1. Grows
  BY DEF Grows, SameButDeleted, TypeInv, TypeOK
<1>2. IndexSound'
  BY <1>1, IndexSoundKept DEF IInv, NumRecords
<1>3. \A h \in Handles : WriterSound(h)' /\ FlagSound(h)'
  <2> TAKE h \in Handles
  <2>1. WriterSound(h) /\ FlagSound(h)
    BY DEF IInv
  <2>2. RecipientCrc(header[h].msg)' = RecipientCrc(header[h].msg)
    BY DEF RecipientCrc, locals
  <2> QED
    BY <2>1, <2>2 DEF WriterSound, FlagSound, HoldsText, NumRecords, IndexOffset, locals
<1>4. OneWriter' /\ FilesFit' /\ TextsHeld' /\ IndexAligned'
  BY DEF IInv, OneWriter, FilesFit, TextsHeld, HoldsText, IndexAligned
<1> QED
  BY <1>1, <1>2, <1>3, <1>4 DEF IInv, TypeInv

\* The fixed header is read and written: no message is touched.
LEMMA InfoSound ==
  ASSUME TypeInv, TypeInv', IInv, NEW h \in Handles, InfoNext(h)
  PROVE  Grows /\ IInv'
<1>1. CASE Open(h) \/ Drop(h)
  <2>1. /\ pc[h] # "off" /\ pc'[h] \notin Busy /\ OthersKeep(h)
        /\ hdrs' = hdrs /\ jdt' = jdt /\ jdx' = jdx
    BY <1>1 DEF Open, Drop, Go, OthersKeep, disk, locals, Busy, WritePcs, FlagOps,
                TypeInv, TypeOK
  <2> QED BY <2>1, QuietEnd
<1>2. CASE WriteJhrHeader(h) \/ ReadJhrHeader(h)
  BY <1>2, QuietStep DEF WriteJhrHeader, ReadJhrHeader, disk
<1> QED BY <1>1, <1>2 DEF InfoNext

\* An operation that fails, or a crash, may cut what it was appending.
LEMMA FaultSound ==
  ASSUME Discipline, TypeInv, TypeInv', IInv, NEW h \in Handles, FaultNext(h)
  PROVE  Grows /\ IInv'
<1>1. CASE Fail(h)
  BY <1>1, EndKeeps, CutSound DEF Fail, Return
<1>2. CASE FlushFails(h)
  BY <1>2, QuietStep DEF FlushFails, disk
<1>3. CASE RestoreLost(h)
  BY <1>3, EndKeeps, QuietEnd DEF RestoreLost, Return, disk
<1>4. CASE Crash(h)
  BY <1>4, EndKeeps, CutSound DEF Crash
<1> QED BY <1>1, <1>2, <1>3, <1>4 DEF FaultNext

\* Either step of delete_message and restore_message.
LEMMA FlagNextSound ==
  ASSUME TypeInv, TypeInv', IInv, NEW h \in Handles, FlagNext(h)
  PROVE  Grows /\ IInv'
<1>1. ASSUME NEW op \in FlagOps, NEW n \in MsgNumbers,
             FlagRefused(h, op, n) \/ AlreadyFlagged(h, op, n)
      PROVE  Grows /\ IInv'
  <2>1. pc[h] # "off" /\ EndCall(h, "idle") /\ hdrs' = hdrs /\ jdt' = jdt /\ jdx' = jdx
    BY <1>1 DEF FlagRefused, AlreadyFlagged, Return, disk
  <2> QED BY <2>1, EndKeeps, QuietEnd
<1> QED BY <1>1, FlagStartSound, FlagWriteSound DEF FlagNext
-----------------------------------------------------------------------------
(* The theorems. *)

\* A new base satisfies the inductive invariant.
LEMMA InvInit == Init => IInv
<1> SUFFICES ASSUME Init PROVE IInv
  OBVIOUS
<1>1. TypeOK
  BY TypeInit DEF TypeInv
<1>2. \A h \in Handles : pc[h] = "closed"
  BY DEF Init
<1>3. Len(hdrs) = 0 /\ Len(jdt) = 0 /\ Len(jdx) = 0 /\ DOMAIN hdrs = {}
  BY DEF Init
<1>4. NumRecords = 0 /\ Len(jdx) % 2 = 0
  BY <1>3 DEF NumRecords
<1>5. OneWriter /\ \A h \in Handles : WriterSound(h) /\ FlagSound(h)
  BY <1>2 DEF OneWriter, WriterSound, FlagSound, WritePcs, FlagOps
<1>6. FilesFit /\ TextsHeld
  BY <1>3, BoundsAssumption DEF FilesFit, TextsHeld
<1>7. IndexAligned /\ IndexSound
  BY <1>2, <1>4 DEF IndexAligned, IndexSound
<1> QED BY <1>1, <1>5, <1>6, <1>7 DEF IInv

\* Every step appends only and keeps the inductive invariant.
LEMMA StepSound ==
  ASSUME Discipline, TypeInv, TypeInv', IInv, [Next]_vars
  PROVE  Grows /\ IInv'
<1>1. CASE UNCHANGED vars
  BY <1>1, QuietStep DEF vars, disk
<1>2. CASE Next
  <2> PICK h \in Handles : WriteNext(h) \/ FlagNext(h) \/ InfoNext(h) \/ FaultNext(h)
    BY <1>2 DEF Next
  <2>1. CASE WriteNext(h)
    BY <2>1, WriteMessageSound, AppendTextSound, ReadHdrLenSound, AppendHeaderSound,
       AppendCrcSound, AppendOffsetSound DEF WriteNext
  <2> QED BY <2>1, FlagNextSound, InfoSound, FaultSound
<1> QED BY <1>1, <1>2

\* The inductive invariant: where every call stands and what it has put on
\* disk, in every reachable state of a base whose writers exclude each other.
THEOREM Inductive == ASSUME Discipline PROVE Spec => []IInv
<1>1. TypeInv /\ TypeInv' /\ IInv /\ [Next]_vars => IInv'
  BY StepSound
<1> QED
  BY <1>1, InvInit, TypeInit, TypeStep, PTL DEF Spec

\* Every record of the index leads to the header of the message it was
\* written for, in the order of the messages.
THEOREM IndexIsSound == ASSUME Discipline PROVE Spec => []IndexSound
<1>1. IInv => IndexSound
  BY DEF IInv
<1> QED BY <1>1, Inductive, PTL

\* No step takes back or overwrites what is on disk, whatever the handles do
\* at the same time and whatever faults strike.
THEOREM FilesOnlyGrow == ASSUME Discipline PROVE Spec => FilesGrow
<1>1. TypeInv /\ TypeInv' /\ IInv /\ [Next]_vars => Grows
  BY StepSound
<1>2. Spec => []TypeInv
  BY TypeInit, TypeStep, PTL DEF Spec
<1>3. TypeInv /\ TypeInv' /\ IInv /\ [Next]_vars => [Grows]_vars
  BY <1>1
<1> QED BY <1>2, <1>3, Inductive, PTL DEF Spec, FilesGrow

\* The cells of a part of a sequence.
LEMMA Slice ==
  ASSUME NEW S, NEW t \in Seq(S), NEW o \in Nat, NEW n \in Nat, o + n <= Len(t)
  PROVE  /\ SubSeq(t, o + 1, o + n) \in Seq(S)
         /\ Len(SubSeq(t, o + 1, o + n)) = n
         /\ \A k \in 1 .. n : SubSeq(t, o + 1, o + n)[k] = t[o + k]
<1>1. \A k \in o + 1 .. o + n : t[k] \in S
  BY ElementOfSeq
<1>2. /\ SubSeq(t, o + 1, o + n) \in Seq(S)
      /\ Len(SubSeq(t, o + 1, o + n)) = IF o + 1 <= o + n THEN (o + n) - (o + 1) + 1 ELSE 0
      /\ \A i \in 1 .. (o + n) - (o + 1) + 1 : SubSeq(t, o + 1, o + n)[i] = t[o + 1 + i - 1]
  BY <1>1, SubSeqProperties
<1>3. (o + n) - (o + 1) + 1 = n /\ (o + 1 <= o + n <=> n > 0)
  OBVIOUS
<1> DEFINE s == SubSeq(t, o + 1, o + n)
<1>4. Len(s) = IF n > 0 THEN n ELSE 0
  BY <1>2, <1>3, Zenon
<1>5. \A i \in 1 .. n : s[i] = t[o + 1 + i - 1]
  BY <1>2, <1>3, Zenon
<1>6. s \in Seq(S)
  BY <1>2
<1> HIDE DEF s
<1>7. Len(s) = n
  BY <1>4
<1>8. ASSUME NEW k \in 1 .. n PROVE s[k] = t[o + k]
  <2>1. o + 1 + k - 1 = o + k
    OBVIOUS
  <2>2. s[k] = t[o + 1 + k - 1]
    BY <1>5, Zenon
  <2> QED BY <2>1, <2>2
<1> QED BY <1>6, <1>7, <1>8 DEF s

\* Whatever faults strike, a message header that can be read leads to the text
\* it was written for.
THEOREM HeadersOwnTheirText == ASSUME Discipline PROVE Spec => []HeadersOwnText
<1>1. TypeInv /\ IInv => HeadersOwnText
  <2> SUFFICES ASSUME TypeInv, IInv, NEW i \in DOMAIN hdrs, hdrs[i].whole
               PROVE  TextReadable(hdrs[i]) /\ ReadMsgText(hdrs[i]) = hdrs[i].msg.txt
    BY DEF HeadersOwnText
  <2> DEFINE hd == hdrs[i]
             txt == hd.msg.txt
  <2>1. hd \in Headers /\ Len(jdt) \in Nat /\ jdt \in Seq(Cells)
    BY ElementOfSeq DEF TypeInv, TypeOK
  <2>2. txt \in Seq(Cells) /\ Len(txt) \in Nat /\ hd.offset \in Nat
    BY <2>1, MsgType DEF Headers
  <2>3. HoldsText(hd)
    BY DEF IInv, TextsHeld
  <2>4. TxtLen(hd) = Len(txt)
    <3>1. Len(txt) < Offsets /\ Offsets \in Nat
      BY <2>1, <2>2, <2>3, BoundsAssumption DEF HoldsText, IInv, FilesFit, Discipline
    <3> QED BY <2>2, <3>1, ModSmall DEF TxtLen
  <2> DEFINE s == SubSeq(jdt, hd.offset + 1, hd.offset + Len(txt))
  <2>6. /\ s \in Seq(Cells) /\ Len(s) = Len(txt)
        /\ \A k \in 1 .. Len(txt) : s[k] = jdt[hd.offset + k]
    <3> DEFINE o == hd.offset
               n == Len(txt)
    <3>1. o + n <= Len(jdt) /\ o \in Nat /\ n \in Nat
      BY <2>2, <2>3 DEF HoldsText
    <3> HIDE DEF o, n
    <3>2. /\ SubSeq(jdt, o + 1, o + n) \in Seq(Cells)
          /\ Len(SubSeq(jdt, o + 1, o + n)) = n
          /\ \A k \in 1 .. n : SubSeq(jdt, o + 1, o + n)[k] = jdt[o + k]
      BY <2>1, <3>1, Slice
    <3> QED BY <3>2 DEF o, n
  <2>7. s = txt
    BY <2>2, <2>3, <2>6, SeqEqual DEF HoldsText
  <2> QED
    BY <2>3, <2>4, <2>7 DEF TextReadable, ReadMsgText, HoldsText
<1>2. Spec => []TypeInv
  BY TypeInit, TypeStep, PTL DEF Spec
<1> QED BY <1>1, <1>2, Inductive, PTL
-----------------------------------------------------------------------------
(* The copies of the fixed header.                                         *)

\* What a step of h does to the fixed header and its copies.
InfoOutcome(h) ==
  \/ UNCHANGED <<jhr, header_info>> /\ (pc[h] = "closed" => pc'[h] = "closed")
  \/ /\ pc[h] = "idle" /\ jhr' = jhr
     /\ header_info' = [header_info EXCEPT ![h].active_msgs = header_info[h].active_msgs + 1]
  \/ jhr' = jhr /\ header_info' = [header_info EXCEPT ![h] = jhr]
  \/ jhr' = jhr /\ pc'[h] = "closed" /\ header_info' = [header_info EXCEPT ![h] = NoInfo]
  \/ /\ pc[h] = "idle"
     /\ header_info[h].mod_counter < MaxCounter
     /\ CheckedFlush => header_info[h].mod_counter = jhr.mod_counter
     /\ header_info' = [header_info EXCEPT ![h] = NextCounter(header_info[h])]
     /\ jhr' = header_info'[h] \/ (jhr' = jhr /\ "flush" \in Faults)

OthersStay(h) == \A g \in Handles \ {h} : pc'[g] = pc[g]

\* These are all the outcomes.
LEMMA InfoChange ==
  ASSUME TypeInv, NEW h \in Handles,
         WriteNext(h) \/ FlagNext(h) \/ InfoNext(h) \/ FaultNext(h)
  PROVE  OthersStay(h) /\ InfoOutcome(h)
<1>t. pc \in [Handles -> Pcs]
  BY DEF TypeInv, TypeOK
<1>e. ASSUME NEW where, EndCall(h, where) PROVE OthersStay(h) /\ pc'[h] = where
  BY <1>t, <1>e DEF EndCall, OthersStay
<1>g. ASSUME NEW from, NEW to, Go(h, from, to)
      PROVE  OthersStay(h) /\ pc[h] = from /\ pc'[h] = to
  BY <1>t, <1>g DEF Go, OthersStay
<1>1. CASE WriteNext(h)
  <2>1. CASE AppendOffset(h)
    BY <2>1, <1>e DEF AppendOffset, Return, InfoOutcome
  <2>2. ASSUME NEW m \in Msgs, WriteMessage(h, m) PROVE OthersStay(h) /\ InfoOutcome(h)
    BY <2>2, <1>g DEF WriteMessage, InfoOutcome, disk
  <2>3. CASE AppendText(h) \/ ReadHdrLen(h) \/ AppendHeader(h) \/ AppendCrc(h)
    BY <2>3, <1>g DEF AppendText, ReadHdrLen, AppendHeader, AppendCrc, InfoOutcome, disk
  <2> QED BY <1>1, <2>1, <2>2, <2>3 DEF WriteNext
<1>2. CASE FlagNext(h)
  <2>1. ASSUME NEW op \in FlagOps, NEW n \in MsgNumbers,
               FlagRefused(h, op, n) \/ AlreadyFlagged(h, op, n)
        PROVE  OthersStay(h) /\ InfoOutcome(h)
    BY <2>1, <1>e DEF FlagRefused, AlreadyFlagged, Return, disk, InfoOutcome
  <2>2. ASSUME NEW op \in FlagOps, NEW n \in MsgNumbers, FlagStart(h, op, n)
        PROVE  OthersStay(h) /\ InfoOutcome(h)
    BY <2>2, <1>g DEF FlagStart, disk, InfoOutcome
  <2>3. CASE FlagWrite(h)
    BY <2>3, <1>e DEF FlagWrite, Return, InfoOutcome, FlagOps
  <2> QED BY <1>2, <2>1, <2>2, <2>3 DEF FlagNext
<1>3. CASE InfoNext(h)
  <2>1. CASE Open(h) \/ Drop(h)
    BY <2>1, <1>g DEF Open, Drop, disk, InfoOutcome
  <2>2. CASE WriteJhrHeader(h) \/ ReadJhrHeader(h)
    BY <2>2 DEF WriteJhrHeader, ReadJhrHeader, disk, InfoOutcome, OthersStay
  <2> QED BY <1>3, <2>1, <2>2 DEF InfoNext
<1>4. CASE FaultNext(h)
  <2>1. CASE FlushFails(h)
    BY <2>1 DEF FlushFails, Fault, disk, InfoOutcome, OthersStay
  <2>2. CASE Fail(h)
    <3>1. jhr' = jhr /\ UNCHANGED header_info /\ EndCall(h, "idle") /\ pc[h] # "closed"
      BY <2>2 DEF Fail, Cut, CutText, CutHeader, disk, Return, WritePcs, FlagOps
    <3> QED BY <3>1, <1>e DEF InfoOutcome
  <2>3. CASE RestoreLost(h)
    BY <2>3, <1>e DEF RestoreLost, Return, disk, InfoOutcome
  <2>4. CASE Crash(h)
    <3>1. jhr' = jhr /\ EndCall(h, "closed")
      BY <2>4 DEF Crash, Cut, CutText, CutHeader, disk
    <3> QED BY <2>4, <3>1, <1>e DEF Crash, InfoOutcome
  <2> QED BY <1>4, <2>1, <2>2, <2>3, <2>4 DEF FaultNext
<1> QED BY <1>1, <1>2, <1>3, <1>4

\* A counted message in a copy.
LEMMA CountedUp ==
  ASSUME TypeInv, NEW h \in Handles,
         header_info' = [header_info EXCEPT ![h].active_msgs = header_info[h].active_msgs + 1]
  PROVE  /\ header_info'[h].mod_counter = header_info[h].mod_counter
         /\ header_info'[h].active_msgs = header_info[h].active_msgs + 1
         /\ header_info'[h].base_msg_num = header_info[h].base_msg_num
         /\ \A g \in Handles \ {h} : header_info'[g] = header_info[g]
<1> DEFINE info == header_info[h]
<1>1. info \in JHRHeaderInfo /\ header_info \in [Handles -> JHRHeaderInfo]
  BY DEF TypeInv, TypeOK
<1>2. /\ header_info'[h] = [info EXCEPT !.active_msgs = info.active_msgs + 1]
      /\ \A g \in Handles \ {h} : header_info'[g] = header_info[g]
  BY <1>1
<1> HIDE DEF info
<1>3. /\ [info EXCEPT !.active_msgs = info.active_msgs + 1].mod_counter = info.mod_counter
      /\ [info EXCEPT !.active_msgs = info.active_msgs + 1].active_msgs = info.active_msgs + 1
      /\ [info EXCEPT !.active_msgs = info.active_msgs + 1].base_msg_num = info.base_msg_num
  BY <1>1 DEF JHRHeaderInfo
<1> QED BY <1>2, <1>3 DEF info

\* A copy whose counter moves on.
LEMMA CounterUp ==
  ASSUME NEW info \in JHRHeaderInfo
  PROVE  /\ NextCounter(info).active_msgs = info.active_msgs
         /\ NextCounter(info).base_msg_num = info.base_msg_num
         /\ info.mod_counter + 1 < Counters =>
              NextCounter(info).mod_counter = info.mod_counter + 1
<1>1. /\ NextCounter(info).active_msgs = info.active_msgs
      /\ NextCounter(info).base_msg_num = info.base_msg_num
      /\ NextCounter(info).mod_counter = (info.mod_counter + 1) % Counters
  BY DEF NextCounter, JHRHeaderInfo
<1>2. info.mod_counter + 1 \in Nat /\ Counters \in Nat \ {0}
  BY BoundsAssumption DEF JHRHeaderInfo
<1> QED BY <1>1, <1>2, ModSmall

\* No copy gets ahead of the disk, none that is level misses a message, and
\* the count on disk does not fall.
LEMMA CopyStep ==
  ASSUME FlushDiscipline, TypeInv, CopyInv, [Next]_vars
  PROVE  CopyInv' /\ jhr'.active_msgs >= jhr.active_msgs
<1>t. /\ jhr.active_msgs \in Nat /\ jhr.mod_counter \in Nat /\ MaxCounter < Counters
      /\ Counters \in Nat /\ MaxCounter \in Nat
      /\ header_info \in [Handles -> JHRHeaderInfo]
      /\ \A h \in Handles : /\ header_info[h] \in JHRHeaderInfo
                            /\ header_info[h].active_msgs \in Nat
                            /\ header_info[h].mod_counter \in Nat
  BY BoundsAssumption DEF TypeInv, TypeOK, JHRHeaderInfo, FlushDiscipline
<1>1. CASE UNCHANGED vars
  BY <1>t, <1>1 DEF CopyInv, vars, disk
<1>2. CASE Next
  <2>1. PICK h \in Handles : WriteNext(h) \/ FlagNext(h) \/ InfoNext(h) \/ FaultNext(h)
    BY <1>2 DEF Next
  <2>2. OthersStay(h) /\ InfoOutcome(h)
    BY <2>1, InfoChange
  <2>3. CASE UNCHANGED <<jhr, header_info>> /\ (pc[h] = "closed" => pc'[h] = "closed")
    BY <1>t, <2>2, <2>3 DEF CopyInv, OthersStay
  <2>4. CASE /\ pc[h] = "idle" /\ jhr' = jhr
             /\ header_info' =
                  [header_info EXCEPT ![h].active_msgs = header_info[h].active_msgs + 1]
    <3>1. /\ header_info'[h].mod_counter = header_info[h].mod_counter
          /\ header_info'[h].active_msgs = header_info[h].active_msgs + 1
          /\ \A g \in Handles \ {h} : header_info'[g] = header_info[g]
      BY <2>4, CountedUp
    <3> QED BY <1>t, <2>2, <2>4, <3>1 DEF CopyInv, OthersStay
  <2>5. CASE jhr' = jhr /\ header_info' = [header_info EXCEPT ![h] = jhr]
    <3>1. header_info'[h] = jhr /\ \A g \in Handles \ {h} : header_info'[g] = header_info[g]
      BY <1>t, <2>5
    <3> QED BY <1>t, <2>2, <2>5, <3>1 DEF CopyInv, OthersStay
  <2>6. CASE /\ jhr' = jhr /\ pc'[h] = "closed"
             /\ header_info' = [header_info EXCEPT ![h] = NoInfo]
    <3>1. \A g \in Handles \ {h} : header_info'[g] = header_info[g]
      BY <1>t, <2>6
    <3> QED BY <1>t, <2>2, <2>6, <3>1 DEF CopyInv, OthersStay
  <2>7. CASE /\ pc[h] = "idle"
             /\ header_info[h].mod_counter < MaxCounter
             /\ CheckedFlush => header_info[h].mod_counter = jhr.mod_counter
             /\ header_info' = [header_info EXCEPT ![h] = NextCounter(header_info[h])]
             /\ jhr' = header_info'[h] \/ (jhr' = jhr /\ "flush" \in Faults)
    <3>1. /\ header_info'[h] = NextCounter(header_info[h])
          /\ \A g \in Handles \ {h} : header_info'[g] = header_info[g]
      BY <1>t, <2>7
    <3>2. jhr' = header_info'[h] /\ header_info[h].mod_counter = jhr.mod_counter
      BY <2>7 DEF FlushDiscipline
    <3>3. header_info[h].mod_counter + 1 < Counters
      BY <1>t, <2>7
    <3>4. /\ header_info'[h].mod_counter = header_info[h].mod_counter + 1
          /\ header_info'[h].active_msgs = header_info[h].active_msgs
      BY <1>t, <3>1, <3>3, CounterUp
    <3>5. header_info[h].active_msgs >= jhr.active_msgs
      BY <2>7, <3>2 DEF CopyInv
    <3> QED BY <1>t, <2>2, <3>1, <3>2, <3>4, <3>5 DEF CopyInv, OthersStay
  <2> QED BY <2>2, <2>3, <2>4, <2>5, <2>6, <2>7 DEF InfoOutcome
<1> QED BY <1>1, <1>2

\* However many programs share a base, if they flush as JAM.txt asks and no
\* flush fails half-way, no flush takes a message out of the count on disk.
THEOREM CountIsKept == ASSUME FlushDiscipline PROVE Spec => FlushKeepsCount
<1>1. Init => CopyInv
  BY DEF Init, CopyInv
<1>2. TypeInv /\ CopyInv /\ [Next]_vars => CopyInv'
  BY CopyStep
<1>3. TypeInv /\ CopyInv /\ [Next]_vars => [jhr'.active_msgs >= jhr.active_msgs]_vars
  BY CopyStep
<1> QED
  BY <1>1, <1>2, <1>3, TypeInit, TypeStep, PTL DEF Spec, FlushKeepsCount

\* Among such programs mod_counter tells: a copy with the counter that is on
\* disk counts every message that any of them has counted there.
THEOREM ChangesAreDetected == ASSUME FlushDiscipline PROVE Spec => []ModDetectsChange
<1>1. Init => CopyInv
  BY DEF Init, CopyInv
<1>2. TypeInv /\ CopyInv /\ [Next]_vars => CopyInv'
  BY CopyStep
<1>3. CopyInv => ModDetectsChange
  BY DEF CopyInv, ModDetectsChange
<1> QED
  BY <1>1, <1>2, <1>3, TypeInit, TypeStep, PTL DEF Spec

\* Every copy keeps the number that the base starts with.
LEMMA BaseStep ==
  ASSUME TypeInv, BaseKept, [Next]_vars PROVE BaseKept'
<1>t. /\ header_info \in [Handles -> JHRHeaderInfo]
      /\ \A h \in Handles : header_info[h] \in JHRHeaderInfo
  BY DEF TypeInv, TypeOK
<1>1. CASE UNCHANGED vars
  BY <1>1 DEF BaseKept, vars, disk
<1>2. CASE Next
  <2>1. PICK h \in Handles : WriteNext(h) \/ FlagNext(h) \/ InfoNext(h) \/ FaultNext(h)
    BY <1>2 DEF Next
  <2>2. OthersStay(h) /\ InfoOutcome(h)
    BY <2>1, InfoChange
  <2>3. CASE UNCHANGED <<jhr, header_info>> /\ (pc[h] = "closed" => pc'[h] = "closed")
    BY <2>2, <2>3 DEF BaseKept, OthersStay
  <2>4. CASE /\ pc[h] = "idle" /\ jhr' = jhr
             /\ header_info' =
                  [header_info EXCEPT ![h].active_msgs = header_info[h].active_msgs + 1]
    <3>1. /\ header_info'[h].base_msg_num = header_info[h].base_msg_num
          /\ \A g \in Handles \ {h} : header_info'[g] = header_info[g]
      BY <2>4, CountedUp
    <3> QED BY <2>2, <2>4, <3>1 DEF BaseKept, OthersStay
  <2>5. CASE jhr' = jhr /\ header_info' = [header_info EXCEPT ![h] = jhr]
    <3>1. header_info'[h] = jhr /\ \A g \in Handles \ {h} : header_info'[g] = header_info[g]
      BY <1>t, <2>5
    <3> QED BY <2>2, <2>5, <3>1 DEF BaseKept, OthersStay
  <2>6. CASE /\ jhr' = jhr /\ pc'[h] = "closed"
             /\ header_info' = [header_info EXCEPT ![h] = NoInfo]
    <3>1. \A g \in Handles \ {h} : header_info'[g] = header_info[g]
      BY <1>t, <2>6
    <3> QED BY <2>2, <2>6, <3>1 DEF BaseKept, OthersStay
  <2>7. CASE /\ pc[h] = "idle"
             /\ header_info' = [header_info EXCEPT ![h] = NextCounter(header_info[h])]
             /\ jhr' = header_info'[h] \/ jhr' = jhr
    <3>1. /\ header_info'[h] = NextCounter(header_info[h])
          /\ \A g \in Handles \ {h} : header_info'[g] = header_info[g]
      BY <1>t, <2>7
    <3>2. header_info'[h].base_msg_num = header_info[h].base_msg_num
      BY <1>t, <3>1, CounterUp
    <3> QED BY <2>2, <2>7, <3>1, <3>2 DEF BaseKept, OthersStay
  <2> QED BY <2>2, <2>3, <2>4, <2>5, <2>6, <2>7 DEF InfoOutcome
<1> QED BY <1>1, <1>2
-----------------------------------------------------------------------------
(* What read_header answers.                                               *)

\* The header file is the same after a step, or a header was written back, or
\* one was appended.
LEMMA HeadersChange ==
  ASSUME TypeInv, NEW h \in Handles,
         WriteNext(h) \/ FlagNext(h) \/ InfoNext(h) \/ FaultNext(h)
  PROVE  \/ hdrs' = hdrs
         \/ pc[h] \in FlagOps /\ Rewrite(h)
         \/ \E hd \in Headers : hdrs' = Append(hdrs, hd)
<1>1. CASE WriteNext(h)
  <2>1. CASE AppendHeader(h)
    BY <2>1 DEF AppendHeader, Go, TypeInv, Busy, WritePcs
  <2> QED BY <1>1, <2>1 DEF WriteNext, WriteMessage, AppendText, ReadHdrLen, AppendCrc,
                            AppendOffset, disk
<1>2. CASE FlagNext(h)
  BY <1>2 DEF FlagNext, FlagRefused, AlreadyFlagged, FlagStart, FlagWrite, disk
<1>3. CASE InfoNext(h)
  BY <1>3 DEF InfoNext, Open, Drop, WriteJhrHeader, ReadJhrHeader, disk
<1>4. CASE FaultNext(h)
  <2>1. CASE CutHeader(h)
    <3>1. CASE pc[h] = "header" /\ hdrs' = Append(hdrs, [header[h] EXCEPT !.whole = FALSE])
      <4>1. header[h] \in Headers
        BY <3>1 DEF TypeInv, Busy, WritePcs
      <4>2. [header[h] EXCEPT !.whole = FALSE] \in Headers
        BY <4>1 DEF Headers
      <4> QED BY <3>1, <4>2
    <3> QED BY <2>1, <3>1 DEF CutHeader
  <2>2. CASE ~CutHeader(h)
    BY <1>4, <2>2 DEF FaultNext, Fail, FlushFails, RestoreLost, Crash, Cut, CutText, disk
  <2> QED BY <2>1, <2>2
<1> QED BY <1>1, <1>2, <1>3, <1>4

\* The flag of a message changes only under a call on its own record.
LEMMA FlagChange ==
  ASSUME TypeInv, IInv, [Next]_vars, NEW r \in 1 .. NumRecords,
         hdrs'[IndexOffset(r) + 1].deleted # hdrs[IndexOffset(r) + 1].deleted
  PROVE  \E g \in Handles : /\ pc[g] \in FlagOps /\ record[g] = r
                            /\ hdrs'[IndexOffset(r) + 1].deleted = Wanted(pc[g])
<1>1. /\ IndexOffset(r) \in Nat /\ IndexOffset(r) + 1 \in 1 .. Len(hdrs)
      /\ hdrs \in Seq(Headers)
  BY RecordWords DEF IInv, IndexSound, Readable, TypeInv, TypeOK
<1>2. hdrs' # hdrs
  OBVIOUS
<1>3. PICK h \in Handles : WriteNext(h) \/ FlagNext(h) \/ InfoNext(h) \/ FaultNext(h)
  BY <1>2 DEF Next, vars, disk
<1>4. ASSUME NEW hd \in Headers, hdrs' = Append(hdrs, hd) PROVE FALSE
  BY <1>1, <1>4, AppendProperties
<1>5. pc[h] \in FlagOps /\ Rewrite(h)
  BY <1>2, <1>3, <1>4, HeadersChange
<1>6. /\ record[h] \in 1 .. NumRecords /\ offset[h] = IndexOffset(record[h])
      /\ header[h] = [hdrs[offset[h] + 1] EXCEPT !.deleted = Wanted(pc[h])]
  BY <1>5 DEF IInv, FlagSound
<1>7. offset[h] \in Nat /\ offset[h] + 1 \in 1 .. Len(hdrs) /\ header[h] \in Headers
  <2>1. IndexOffset(record[h]) \in Nat
    BY <1>6, RecordWords DEF IInv
  <2>2. IndexOffset(record[h]) < Len(hdrs) /\ Len(hdrs) \in Nat
    BY <1>1, <1>6 DEF IInv, IndexSound, Readable
  <2>3. header[h] \in Headers
    BY <1>5 DEF TypeInv, Busy
  <2> QED BY <1>6, <2>1, <2>2, <2>3
<1>8. \A j \in 1 .. Len(hdrs) : hdrs'[j] = IF j = offset[h] + 1 THEN header[h] ELSE hdrs[j]
  BY <1>1, <1>5, <1>7, ExceptSeq DEF Rewrite
<1>9. IndexOffset(r) = offset[h]
  <2>1. IndexOffset(r) + 1 = offset[h] + 1
    BY <1>1, <1>8
  <2> QED BY <1>1, <1>7, <2>1
<1>10. record[h] = r
  <2>1. record[h] \in Nat /\ r \in Nat
    BY <1>6 DEF TypeInv, TypeOK
  <2>2. ~(r < record[h]) /\ ~(record[h] < r)
    BY <1>1, <1>6, <1>9 DEF IInv, IndexSound
  <2> QED BY <2>1, <2>2
<1>11. hdrs[offset[h] + 1] \in Headers
  BY <1>1, <1>7, ElementOfSeq
<1>12. hdrs'[IndexOffset(r) + 1].deleted = Wanted(pc[h])
  BY <1>6, <1>7, <1>8, <1>9, <1>11 DEF Headers
<1> QED BY <1>5, <1>10, <1>12

\* A step keeps the answer to a number that a handle covers.
LEMMA AnswerStep ==
  ASSUME TypeInv, TypeInv', IInv, Grows, BaseKept, BaseKept', [Next]_vars,
         NEW h \in Handles, NEW n \in MsgNumbers,
         pc[h] # "closed", pc'[h] # "closed", InRange(header_info'[h], n)
  PROVE  AnswerStays(h, n)
<1> DEFINE answer == ReadHeader(header_info[h], n)
           r == RecordOf(header_info[h], n)
           o == IndexOffset(r)
<1> SUFFICES ASSUME answer # "err" PROVE AnswerStays(h, n)
  BY DEF AnswerStays
<1>1. Located(header_info[h], n)
  BY DEF ReadHeader
<1>2. header_info'[h].base_msg_num = header_info[h].base_msg_num
  BY DEF BaseKept
<1>3. r \in 1 .. NumRecords /\ RecordOf(header_info[h], n)' = r
  BY <1>1, <1>2, LocatedType DEF TypeInv, RecordOf
<1>4. /\ r \in 1 .. NumRecords' /\ jdx'[2 * r] = o /\ o \in Nat
      /\ o + 1 \in 1 .. Len(hdrs) /\ o + 1 \in 1 .. Len(hdrs') /\ hdrs'[o + 1].whole
  BY <1>3, IndexKept DEF IInv
<1>5. IndexOffset(r)' = o
  BY <1>3, <1>4 DEF IndexOffset
<1>6. Located(header_info[h], n)'
  BY <1>3, <1>4, <1>5 DEF Located, Readable, NumRecords, TypeInv, TypeOK
<1>7. /\ Located_header(header_info[h], n) = hdrs[o + 1]
      /\ Located_header(header_info[h], n)' = hdrs'[o + 1]
  BY <1>3, <1>5 DEF Located_header
<1>8. SameButDeleted(hdrs[o + 1], hdrs'[o + 1])
  BY <1>4 DEF Grows
<1>9. ReadHeader(header_info[h], n)' # "err"
  BY <1>6 DEF ReadHeader
<1>10. ASSUME ReadHeader(header_info[h], n)' # answer
       PROVE  \E g \in Handles : pc[g] = FlippedBy(answer) /\ record[g] = r
  <2>1. /\ answer = IF hdrs[o + 1].deleted THEN "MessageDeleted" ELSE "ok"
        /\ ReadHeader(header_info[h], n)' =
             IF hdrs'[o + 1].deleted THEN "MessageDeleted" ELSE "ok"
    BY <1>1, <1>6, <1>7 DEF ReadHeader
  <2>2. hdrs[o + 1].deleted \in BOOLEAN /\ hdrs'[o + 1].deleted \in BOOLEAN
    <3>1. hdrs[o + 1] \in Headers /\ hdrs'[o + 1] \in Headers
      BY <1>4, ElementOfSeq DEF TypeInv, TypeOK
    <3> QED BY <3>1 DEF Headers
  <2>3. hdrs'[o + 1].deleted # hdrs[o + 1].deleted
    BY <1>10, <2>1, <2>2
  <2>4. PICK g \in Handles : /\ pc[g] \in FlagOps /\ record[g] = r
                             /\ hdrs'[o + 1].deleted = Wanted(pc[g])
    BY <1>3, <2>3, FlagChange
  <2>5. pc[g] = FlippedBy(answer)
    BY <2>1, <2>2, <2>3, <2>4 DEF Wanted, FlagOps, FlippedBy
  <2> QED BY <2>4, <2>5
<1> QED BY <1>7, <1>8, <1>9, <1>10 DEF AnswerStays

\* A message that was read once under a number can be read again under it in
\* every handle that covers it, unless a delete of its own record hides it.
THEOREM AnswersAreKept == ASSUME Discipline PROVE Spec => AnswersStay
<1>1. Init => BaseKept
  BY DEF Init, BaseKept
<1>2. TypeInv /\ BaseKept /\ [Next]_vars => BaseKept'
  BY BaseStep
<1>3. TypeInv /\ TypeInv' /\ IInv /\ BaseKept /\ BaseKept' /\ [Next]_vars
        => [\A h \in Handles, n \in MsgNumbers :
              pc[h] # "closed" /\ pc'[h] # "closed" /\ InRange(header_info'[h], n)
                => AnswerStays(h, n)]_vars
  BY StepSound, AnswerStep
<1>4. Spec => []TypeInv
  BY TypeInit, TypeStep, PTL DEF Spec
<1>5. Spec => []BaseKept
  BY <1>1, <1>2, <1>4, PTL DEF Spec
<1> QED BY <1>3, <1>4, <1>5, Inductive, PTL DEF Spec, AnswersStay
-----------------------------------------------------------------------------
(* JamBase implements JamLog: the index makes a message visible in one     *)
(* step, the last of write_message, and what a call answers is true of the *)
(* log.  restore_message that loses its write is left out by assumption:   *)
(* it answers Ok without an effect.                                        *)

\* Everything JamLog promises holds but for a restore whose write is lost.
Reliable == Discipline /\ "lost" \notin Faults

call == [h \in Handles |-> CallView(h)]

\* The base seen through its index is a log of messages.
LEMMA LogType ==
  ASSUME TypeInv, IndexSound
  PROVE  /\ NumRecords \in Nat
         /\ LogView \in Seq(Log!Entries) /\ Len(LogView) = NumRecords
         /\ DOMAIN LogView = 1 .. NumRecords
<1>1. NumRecords \in Nat
  BY Halves DEF NumRecords, TypeInv, TypeOK
<1>2. ASSUME NEW r \in 1 .. NumRecords
      PROVE  [msg |-> hdrs[IndexOffset(r) + 1].msg,
              deleted |-> hdrs[IndexOffset(r) + 1].deleted] \in Log!Entries
  <2>1. IndexOffset(r) + 1 \in 1 .. Len(hdrs) /\ hdrs \in Seq(Headers)
    BY RecordWords DEF IndexSound, Readable, TypeInv, TypeOK
  <2>2. hdrs[IndexOffset(r) + 1] \in Headers
    BY <2>1, ElementOfSeq
  <2> QED BY <2>2 DEF Headers, Log!Entries
<1>3. LogView \in [1 .. NumRecords -> Log!Entries]
  BY <1>2 DEF LogView
<1>4. LogView \in Seq(Log!Entries)
  BY <1>1, <1>3, SeqDef
<1>5. DOMAIN LogView = 1 .. NumRecords
  BY <1>3
<1>6. Len(LogView) = NumRecords
  BY <1>1, <1>4, <1>5, LenProperties
<1> QED BY <1>1, <1>4, <1>5, <1>6

\* The log is the same when no record is added and no flag changes.
LEMMA LogSame ==
  ASSUME TypeInv, TypeInv', IndexSound, Grows, NumRecords' = NumRecords,
         \A r \in 1 .. NumRecords :
           hdrs'[IndexOffset(r) + 1].deleted = hdrs[IndexOffset(r) + 1].deleted
  PROVE  LogView' = LogView
<1>1. \A r \in 1 .. NumRecords :
        /\ IndexOffset(r)' = IndexOffset(r)
        /\ hdrs'[IndexOffset(r) + 1].msg = hdrs[IndexOffset(r) + 1].msg
  BY IndexKept DEF IndexOffset
<1> QED
  BY <1>1 DEF LogView

\* What leaves headers and index alone leaves the log alone.
LEMMA LogUnmoved ==
  ASSUME hdrs' = hdrs, jdx' = jdx PROVE LogView' = LogView
  BY DEF LogView, NumRecords, IndexOffset

\* The flag of one record changes.
LEMMA LogFlagged ==
  ASSUME TypeInv, TypeInv', IInv, NEW h \in Handles, pc[h] \in FlagOps,
         Rewrite(h), jdt' = jdt, jdx' = jdx
  PROVE  /\ record[h] \in DOMAIN LogView
         /\ LogView' = [LogView EXCEPT ![record[h]].deleted = Wanted(pc[h])]
<1>1. /\ record[h] \in 1 .. NumRecords
      /\ offset[h] = IndexOffset(record[h])
      /\ header[h] = [hdrs[offset[h] + 1] EXCEPT !.deleted = Wanted(pc[h])]
  BY DEF IInv, FlagSound
<1>2. DOMAIN LogView = 1 .. NumRecords /\ NumRecords \in Nat
  BY LogType DEF IInv
<1>3. ASSUME NEW r \in 1 .. NumRecords
      PROVE  IndexOffset(r) \in Nat /\ IndexOffset(r) + 1 \in 1 .. Len(hdrs)
  <2>1. IndexOffset(r) \in Nat /\ Len(hdrs) \in Nat
    BY RecordWords DEF TypeInv, TypeOK
  <2>2. IndexOffset(r) < Len(hdrs)
    BY DEF IInv, IndexSound, Readable
  <2> QED BY <2>1, <2>2
<1>4. hdrs \in Seq(Headers) /\ header[h] \in Headers
  BY DEF TypeInv, TypeOK, Busy
<1>5. /\ Len(hdrs') = Len(hdrs)
      /\ \A j \in 1 .. Len(hdrs) : hdrs'[j] = IF j = offset[h] + 1 THEN header[h] ELSE hdrs[j]
  BY <1>1, <1>3, <1>4, ExceptSeq DEF Rewrite
<1>6. hdrs[offset[h] + 1] \in Headers
  BY <1>1, <1>3, <1>4, ElementOfSeq
<1>7. ASSUME NEW r \in 1 .. NumRecords, r # record[h]
      PROVE  hdrs'[IndexOffset(r) + 1] = hdrs[IndexOffset(r) + 1]
  <2>1. IndexOffset(r) # offset[h]
    BY <1>1, <1>2, <1>3, <1>7 DEF IInv, IndexSound
  <2> QED BY <1>1, <1>3, <1>5, <2>1
<1>8. /\ hdrs'[offset[h] + 1].msg = hdrs[offset[h] + 1].msg
      /\ hdrs'[offset[h] + 1].deleted = Wanted(pc[h])
  BY <1>1, <1>3, <1>5, <1>6 DEF Headers
<1>9. NumRecords' = NumRecords /\ \A r : IndexOffset(r)' = IndexOffset(r)
  BY DEF NumRecords, IndexOffset
<1> DEFINE entry(r) == [msg |-> hdrs[IndexOffset(r) + 1].msg,
                        deleted |-> hdrs[IndexOffset(r) + 1].deleted]
           entryp(r) == [msg |-> hdrs'[IndexOffset(r) + 1].msg,
                         deleted |-> hdrs'[IndexOffset(r) + 1].deleted]
<1>10. LogView = [r \in 1 .. NumRecords |-> entry(r)]
  BY DEF LogView
<1>11. LogView' = [r \in 1 .. NumRecords |-> entryp(r)]
  BY <1>9 DEF LogView
<1>12. \A r \in 1 .. NumRecords :
         entryp(r) = IF r = record[h] THEN [entry(r) EXCEPT !.deleted = Wanted(pc[h])] ELSE entry(r)
  BY <1>1, <1>7, <1>8
<1> HIDE DEF entry, entryp
<1>13. [LogView EXCEPT ![record[h]].deleted = Wanted(pc[h])]
         = [r \in 1 .. NumRecords |->
              IF r = record[h] THEN [entry(r) EXCEPT !.deleted = Wanted(pc[h])] ELSE entry(r)]
  BY <1>1, <1>10
<1>14. LogView' = [LogView EXCEPT ![record[h]].deleted = Wanted(pc[h])]
  BY <1>11, <1>12, <1>13
<1> QED BY <1>1, <1>2, <1>14

-----------------------------------------------------------------------------
(* How the calls map. *)

\* A handle in no call has nothing going on in the log.
LEMMA CallIdle ==
  ASSUME NEW h \in Handles, pc[h] \notin Busy PROVE call[h] = Log!NoCall
  BY DEF call, CallView, Busy, Log!NoCall

\* A handle in write_message is writing its message to the log.
LEMMA CallWrites ==
  ASSUME NEW h \in Handles, pc[h] \in WritePcs
  PROVE  call[h] = [op |-> "write", msg |-> header[h].msg]
  BY DEF call, CallView, WritePcs, FlagOps

\* A handle in delete_message or restore_message is flagging its record.
LEMMA CallFlags ==
  ASSUME NEW h \in Handles, pc[h] \in FlagOps
  PROVE  call[h] = [op |-> pc[h], record |-> record[h]]
  BY DEF call, CallView, WritePcs, FlagOps

\* Only the call of h changes, to c.
LEMMA CallSet ==
  ASSUME NEW h \in Handles, OthersKeep(h), NEW c, CallView(h)' = c
  PROVE  call' = [call EXCEPT ![h] = c]
<1>1. \A g \in Handles \ {h} : CallView(g)' = CallView(g)
  BY DEF OthersKeep, CallView
<1> QED
  BY <1>1 DEF call

\* A call that ends, ends in the log.
LEMMA CallEnds ==
  ASSUME TypeInv, NEW h \in Handles, NEW where \in {"idle", "closed"}, EndCall(h, where)
  PROVE  call' = [call EXCEPT ![h] = Log!NoCall]
<1>1. OthersKeep(h) /\ pc'[h] \notin Busy
  BY EndKeeps
<1>2. CallView(h)' = Log!NoCall
  BY <1>1 DEF CallView, Busy, Log!NoCall
<1> QED BY <1>1, <1>2, CallSet

\* A step of h that goes on with its write.
LEMMA CallGoesOn ==
  ASSUME NEW h \in Handles, OthersKeep(h), pc[h] \in WritePcs, pc'[h] \in WritePcs,
         header' = header
  PROVE  call' = call
<1>1. \A g \in Handles : CallView(g)' = CallView(g)
  BY DEF CallView, OthersKeep, WritePcs, FlagOps
<1> QED
  BY <1>1 DEF call
-----------------------------------------------------------------------------
(* Every step maps to a step of JamLog or to a stutter. *)

LogStep == [Log!Next]_<<LogView, call, ret>>

\* A step of write_message is the append of the log, or no step of it.
LEMMA WriteRefines ==
  ASSUME Discipline, TypeInv, TypeInv', IInv, IInv', Grows, NEW h \in Handles, WriteNext(h)
  PROVE  LogStep
<1>1. ASSUME NEW m \in Msgs, WriteMessage(h, m) PROVE LogStep
  <2>1. /\ pc[h] = "idle" /\ pc'[h] = "text" /\ OthersKeep(h)
        /\ header'[h].msg = m /\ hdrs' = hdrs /\ jdx' = jdx
        /\ ret' = [ret EXCEPT ![h] = Answer("none", 0, "none")]
    BY <1>1 DEF WriteMessage, Go, OthersKeep, disk, TypeInv, TypeOK
  <2>2. CallView(h)' = [op |-> "write", msg |-> m]
    BY <2>1 DEF CallView, WritePcs, FlagOps
  <2>3. call' = [call EXCEPT ![h] = [op |-> "write", msg |-> m]]
    BY <2>1, <2>2, CallSet
  <2>4. call[h] = Log!NoCall
    BY <2>1, CallIdle DEF Busy, WritePcs, FlagOps
  <2>5. LogView' = LogView
    BY <2>1, LogUnmoved
  <2>6. Log!Start(h)
    BY <2>1, <2>3, <2>4, <2>5 DEF Log!Start, call, Answer, Log!Answer
  <2> QED BY <2>6 DEF LogStep, Log!Next
<1>2. ASSUME AppendText(h) \/ ReadHdrLen(h) \/ AppendHeader(h) \/ AppendCrc(h) PROVE LogStep
  <2>1. /\ pc[h] \in WritePcs /\ pc'[h] \in WritePcs /\ OthersKeep(h)
        /\ header' = header /\ ret' = ret
    BY <1>2 DEF AppendText, ReadHdrLen, AppendHeader, AppendCrc, Go, OthersKeep, locals,
                WritePcs, TypeInv, TypeOK
  <2>2. call' = call
    BY <2>1, CallGoesOn
  <2>3. LogView' = LogView
    <3>1. CASE AppendText(h) \/ ReadHdrLen(h)
      BY <3>1, LogUnmoved DEF AppendText, ReadHdrLen, disk
    <3>2. CASE AppendHeader(h)
      <4>1. hdrs' = Append(hdrs, header[h]) /\ NumRecords' = NumRecords
        BY <3>2 DEF AppendHeader, NumRecords
      <4>2. \A r \in 1 .. NumRecords : IndexOffset(r) + 1 \in 1 .. Len(hdrs)
        BY IndexKept DEF IInv
      <4>3. hdrs \in Seq(Headers) /\ header[h] \in Headers
        BY <2>1 DEF TypeInv, TypeOK, Busy
      <4>4. \A r \in 1 .. NumRecords : hdrs'[IndexOffset(r) + 1] = hdrs[IndexOffset(r) + 1]
        BY <4>1, <4>2, <4>3, AppendProperties
      <4> QED BY <4>1, <4>4, LogSame DEF IInv
    <3>3. CASE AppendCrc(h)
      <4>1. hdrs' = hdrs /\ jdx' = Append(jdx, RecipientCrc(header[h].msg)) /\ pc[h] = "crc"
        BY <3>3 DEF AppendCrc, Go
      <4>2. Len(jdx') = Len(jdx) + 1 /\ Len(jdx) \in Nat
        BY <4>1 DEF TypeInv, TypeOK
      <4>3. Len(jdx) % 2 = 0
        <5>1. \A g \in Handles : pc[g] # "off"
          BY <4>1, AloneWriting DEF WritePcs
        <5> QED BY <5>1 DEF IInv, IndexAligned
      <4>4. NumRecords' = NumRecords
        BY <4>2, <4>3, Halves DEF NumRecords
      <4> QED BY <4>1, <4>4, LogSame DEF IInv
    <3> QED BY <1>2, <3>1, <3>2, <3>3
  <2> QED BY <2>1, <2>2, <2>3 DEF LogStep
<1>3. CASE AppendOffset(h)
  <2>1. /\ pc[h] = "off" /\ jdx' = Append(jdx, offset[h]) /\ hdrs' = hdrs
        /\ EndCall(h, "idle") /\ ret' = [ret EXCEPT ![h] = Answer("write", 0, "ok")]
    BY <1>3 DEF AppendOffset, Return
  <2>2. hdrs[offset[h] + 1] = header[h] /\ header[h] \in Headers /\ offset[h] \in Nat
    BY <2>1 DEF IInv, WriterSound, WritePcs, TypeInv, TypeOK
  <2>3. call[h] = [op |-> "write", msg |-> header[h].msg] /\ call[h] \in Log!WriteCalls
    <3>1. pc[h] \in WritePcs
      BY <2>1 DEF WritePcs
    <3>2. call[h] = [op |-> "write", msg |-> header[h].msg]
      BY <3>1, CallWrites
    <3>3. header[h].msg \in Msgs
      BY <2>2 DEF Headers
    <3> QED BY <3>2, <3>3 DEF Log!WriteCalls
  <2>4. call' = [call EXCEPT ![h] = Log!NoCall]
    BY <2>1, CallEnds
  <2>5. /\ NumRecords' = NumRecords + 1 /\ jdx'[2 * (NumRecords + 1)] = offset[h]
    <3>1. /\ Len(jdx') = Len(jdx) + 1 /\ jdx'[Len(jdx) + 1] = offset[h] /\ Len(jdx) \in Nat
      BY <2>1, <2>2 DEF TypeInv, TypeOK
    <3>2. Len(jdx) % 2 = 1
      BY <2>1 DEF IInv, IndexAligned
    <3>3. NumRecords' = NumRecords + 1 /\ 2 * (NumRecords + 1) = Len(jdx) + 1
      BY <3>1, <3>2, Halves DEF NumRecords
    <3> QED BY <3>1, <3>3
  <2>6. header[h].deleted = header[h].msg.del
    BY <2>1 DEF IInv, WriterSound, WritePcs
  <2> DEFINE e == [msg |-> header[h].msg, deleted |-> header[h].msg.del]
  <2>7. LogView' = Append(LogView, e)
    <3> DEFINE N == NumRecords
               A == Append(LogView, e)
    <3>1. LogView \in Seq(Log!Entries) /\ Len(LogView) = N /\ N \in Nat
      BY LogType DEF IInv
    <3>2. e \in Log!Entries
      BY <2>2, MsgType DEF Headers, Log!Entries
    <3>3. LogView' = [r \in 1 .. N + 1 |-> [msg |-> hdrs[jdx'[2 * r] + 1].msg,
                                           deleted |-> hdrs[jdx'[2 * r] + 1].deleted]]
      BY <2>1, <2>5 DEF LogView, IndexOffset
    <3>4. ASSUME NEW r \in 1 .. N PROVE LogView'[r] = LogView[r]
      <4>1. jdx'[2 * r] = IndexOffset(r)
        BY IndexKept DEF IInv
      <4>2. LogView[r] = [msg |-> hdrs[IndexOffset(r) + 1].msg,
                          deleted |-> hdrs[IndexOffset(r) + 1].deleted]
        BY DEF LogView
      <4>3. r \in 1 .. N + 1
        BY <3>1
      <4> QED BY <3>3, <4>1, <4>2, <4>3
    <3> HIDE DEF N
    <3>5. LogView'[N + 1] = e
      BY <2>2, <2>5, <2>6, <3>1, <3>3 DEF N
    <3> HIDE DEF e
    <3>6. /\ A \in Seq(Log!Entries) /\ Len(A) = N + 1 /\ A[N + 1] = e
          /\ \A r \in 1 .. N : A[r] = LogView[r]
      BY <3>1, <3>2, AppendProperties
    <3> HIDE DEF A
    <3>7. \A r \in 1 .. N + 1 : LogView'[r] = A[r]
      BY <3>1, <3>4, <3>5, <3>6
    <3>8. A = [r \in 1 .. N + 1 |-> A[r]]
      BY <3>6, LenProperties
    <3>9. LogView' = [r \in 1 .. N + 1 |-> LogView'[r]]
      BY <3>3
    <3> QED BY <3>7, <3>8, <3>9 DEF A
  <2>8. Log!Written(h)
    BY <2>1, <2>3, <2>4, <2>7 DEF Log!Written, Log!Return, call, Answer, Log!Answer
  <2> QED BY <2>8 DEF LogStep, Log!Next
<1> QED BY <1>1, <1>2, <1>3 DEF WriteNext

\* A step of delete_message or restore_message is one of the log, or none.
LEMMA FlagRefines ==
  ASSUME TypeInv, TypeInv', IInv, NEW h \in Handles, FlagNext(h)
  PROVE  LogStep
<1>1. ASSUME NEW op \in FlagOps, NEW n \in MsgNumbers, FlagRefused(h, op, n)
      PROVE  LogStep
  <2>1. /\ EndCall(h, "idle") /\ ret' = [ret EXCEPT ![h] = Answer(op, 0, "err")]
        /\ hdrs' = hdrs /\ jdx' = jdx
    BY <1>1 DEF FlagRefused, Return, disk
  <2>2. call' = [call EXCEPT ![h] = Log!NoCall] /\ LogView' = LogView
    BY <2>1, CallEnds, LogUnmoved
  <2>3. Log!Failed(h)
    BY <2>1, <2>2 DEF Log!Failed, Log!Interrupted, Log!Return, call, Answer, Log!Answer,
                      FlagOps, Log!FlagOps
  <2> QED BY <2>3 DEF LogStep, Log!Next
<1>2. ASSUME NEW op \in FlagOps, NEW n \in MsgNumbers, AlreadyFlagged(h, op, n)
      PROVE  LogStep
  <2> DEFINE r == RecordOf(header_info[h], n)
  <2>1. /\ EndCall(h, "idle") /\ ret' = [ret EXCEPT ![h] = Answer(op, r, "ok")]
        /\ hdrs' = hdrs /\ jdx' = jdx /\ pc[h] = "idle"
        /\ Located_header(header_info[h], n).deleted = Wanted(op)
    BY <1>2 DEF AlreadyFlagged, Return, disk
  <2>2. call' = [call EXCEPT ![h] = Log!NoCall] /\ LogView' = LogView
    BY <2>1, CallEnds, LogUnmoved
  <2>3. call[h] = Log!NoCall
    BY <2>1, CallIdle DEF Busy, WritePcs, FlagOps
  <2>4. r \in 1 .. NumRecords
    BY <1>2, LocatedType DEF AlreadyFlagged, TypeInv
  <2>5. r \in DOMAIN LogView /\ LogView[r].deleted = Wanted(op)
    BY <2>1, <2>4 DEF LogView, Located_header
  <2> HIDE DEF r
  <2>6. Log!AlreadyFlagged(h)
    BY <2>1, <2>2, <2>3, <2>5 DEF Log!AlreadyFlagged, Log!Return, call, Answer, Log!Answer,
                                  FlagOps, Log!FlagOps, Wanted, Log!Wanted
  <2> QED BY <2>6 DEF LogStep, Log!Next
<1>3. ASSUME NEW op \in FlagOps, NEW n \in MsgNumbers, FlagStart(h, op, n)
      PROVE  LogStep
  <2> DEFINE r == RecordOf(header_info[h], n)
  <2>1. /\ pc[h] = "idle" /\ pc'[h] = op /\ OthersKeep(h) /\ record'[h] = r
        /\ hdrs' = hdrs /\ jdx' = jdx
        /\ ret' = [ret EXCEPT ![h] = Answer("none", 0, "none")]
    BY <1>3 DEF FlagStart, Go, OthersKeep, disk, TypeInv, TypeOK
  <2>2. r \in 1 .. NumRecords
    BY <1>3, LocatedType DEF FlagStart, TypeInv
  <2>3. r \in DOMAIN LogView
    BY <2>2 DEF LogView
  <2> HIDE DEF r
  <2>4. CallView(h)' = [op |-> op, record |-> r]
    BY <2>1 DEF CallView, WritePcs, FlagOps
  <2>5. call' = [call EXCEPT ![h] = [op |-> op, record |-> r]]
    BY <2>1, <2>4, CallSet
  <2>6. call[h] = Log!NoCall
    BY <2>1, CallIdle DEF Busy, WritePcs, FlagOps
  <2>7. LogView' = LogView
    BY <2>1, LogUnmoved
  <2>8. Log!Start(h)
    BY <2>1, <2>3, <2>5, <2>6, <2>7 DEF Log!Start, call, Answer, Log!Answer,
                                        FlagOps, Log!FlagOps
  <2> QED BY <2>8 DEF LogStep, Log!Next
<1>4. CASE FlagWrite(h)
  <2>1. /\ pc[h] \in FlagOps /\ Rewrite(h) /\ jdt' = jdt /\ jdx' = jdx
        /\ EndCall(h, "idle") /\ ret' = [ret EXCEPT ![h] = Answer(pc[h], record[h], "ok")]
    BY <1>4 DEF FlagWrite, Return
  <2>2. call' = [call EXCEPT ![h] = Log!NoCall]
    BY <2>1, CallEnds
  <2>3. call[h] = [op |-> pc[h], record |-> record[h]]
    BY <2>1, CallFlags
  <2>4. record[h] \in 1 .. NumRecords /\ NumRecords \in Nat
    BY <2>1, LogType DEF IInv, FlagSound
  <2>5. call[h] \in Log!FlagCalls
    BY <2>1, <2>3, <2>4 DEF Log!FlagCalls, Log!FlagOps, FlagOps, Log!Records
  <2>6. Log!Flag(call[h])
    BY <2>1, <2>3, LogFlagged DEF Log!Flag, Log!Wanted, Wanted
  <2>7. ret' = [ret EXCEPT ![h] = Log!Answer(call[h].op, call[h].record, "ok")]
    BY <2>1, <2>3 DEF Answer, Log!Answer
  <2>8. Log!Return(h, Log!Answer(call[h].op, call[h].record, "ok"))
    BY <2>2, <2>7 DEF Log!Return, call
  <2>9. Log!Flagged(h)
    BY <2>5, <2>6, <2>8 DEF Log!Flagged, call
  <2> QED BY <2>9 DEF LogStep, Log!Next
<1> QED BY <1>1, <1>2, <1>3, <1>4 DEF FlagNext

\* Opening, closing and the fixed header do not show in the log.
LEMMA InfoRefines ==
  ASSUME TypeInv, NEW h \in Handles, InfoNext(h)
  PROVE  LogStep
<1>1. CASE Open(h) \/ Drop(h)
  <2>1. /\ pc'[h] \notin Busy /\ OthersKeep(h) /\ hdrs' = hdrs /\ jdx' = jdx
        /\ ret' = [ret EXCEPT ![h] = Answer("none", 0, "none")]
    BY <1>1 DEF Open, Drop, Go, OthersKeep, disk, locals, Busy, WritePcs, FlagOps,
                TypeInv, TypeOK
  <2>2. CallView(h)' = Log!NoCall
    BY <2>1 DEF CallView, Busy, Log!NoCall
  <2>3. call' = [call EXCEPT ![h] = Log!NoCall] /\ LogView' = LogView
    BY <2>1, <2>2, CallSet, LogUnmoved
  <2>4. Log!Reset(h)
    BY <2>1, <2>3 DEF Log!Reset, Log!Interrupted, Log!Return, call, Answer, Log!Answer
  <2> QED BY <2>4 DEF LogStep, Log!Next
<1>2. CASE WriteJhrHeader(h) \/ ReadJhrHeader(h)
  <2>1. UNCHANGED <<hdrs, jdx, pc, locals, ret>>
    BY <1>2 DEF WriteJhrHeader, ReadJhrHeader, disk
  <2>2. call' = call
    BY <2>1 DEF call, CallView, locals
  <2> QED BY <2>1, <2>2, LogUnmoved DEF LogStep
<1> QED BY <1>1, <1>2 DEF InfoNext

\* What a cut call leaves in the log.
LEMMA CutRefines ==
  ASSUME Discipline, TypeInv, TypeInv', IInv, Grows, NEW h \in Handles, Cut(h)
  PROVE  Log!Interrupted(h)
<1>1. CASE UNCHANGED disk
  BY <1>1, LogUnmoved DEF Log!Interrupted, disk
<1>2. CASE CutText(h)
  BY <1>2, LogUnmoved DEF CutText, Log!Interrupted
<1>3. CASE CutHeader(h)
  <2>1. jdt' = jdt /\ jdx' = jdx
    BY <1>3 DEF CutHeader
  <2>2. CASE pc[h] = "header" /\ hdrs' = Append(hdrs, [header[h] EXCEPT !.whole = FALSE])
    <3>1. NumRecords' = NumRecords
      BY <2>1 DEF NumRecords
    <3>2. \A r \in 1 .. NumRecords : IndexOffset(r) + 1 \in 1 .. Len(hdrs)
      BY IndexKept DEF IInv
    <3>3. hdrs \in Seq(Headers) /\ [header[h] EXCEPT !.whole = FALSE] \in Headers
      BY <2>2 DEF TypeInv, TypeOK, Busy, WritePcs, Headers
    <3>4. \A r \in 1 .. NumRecords : hdrs'[IndexOffset(r) + 1] = hdrs[IndexOffset(r) + 1]
      BY <2>2, <3>2, <3>3, AppendProperties
    <3> QED BY <3>1, <3>4, LogSame DEF IInv, Log!Interrupted
  <2>3. CASE pc[h] \in FlagOps /\ Rewrite(h)
    <3>1. call[h] = [op |-> pc[h], record |-> record[h]]
      BY <2>3, CallFlags
    <3>2. record[h] \in 1 .. NumRecords /\ NumRecords \in Nat
      BY <2>3, LogType DEF IInv, FlagSound
    <3>3. call[h] \in Log!FlagCalls
      BY <2>3, <3>1, <3>2 DEF Log!FlagCalls, Log!FlagOps, FlagOps, Log!Records
    <3>4. Log!Flag(call[h])
      BY <2>1, <2>3, <3>1, LogFlagged DEF Log!Flag, Log!Wanted, Wanted
    <3> QED BY <3>3, <3>4 DEF Log!Interrupted, call
  <2> QED BY <1>3, <2>2, <2>3 DEF CutHeader
<1> QED BY <1>1, <1>2, <1>3 DEF Cut

\* A call that fails or is cut off ends in the log, its effect done or not.
LEMMA FaultRefines ==
  ASSUME Reliable, TypeInv, TypeInv', IInv, Grows, NEW h \in Handles, FaultNext(h)
  PROVE  LogStep
<1>1. CASE Fail(h)
  <2>1. /\ Cut(h) /\ EndCall(h, "idle") /\ pc[h] \in WritePcs \cup FlagOps
        /\ ret' = [ret EXCEPT ![h] = Answer(OpOf(h), 0, "err")]
    BY <1>1 DEF Fail, Return
  <2>2. Log!Interrupted(h) /\ call' = [call EXCEPT ![h] = Log!NoCall]
    BY <2>1, CutRefines, CallEnds DEF Reliable
  <2>3. OpOf(h) \in {"write"} \cup Log!FlagOps
    BY <2>1 DEF OpOf, FlagOps, Log!FlagOps
  <2>4. Log!Failed(h)
    BY <2>1, <2>2, <2>3 DEF Log!Failed, Log!Return, call, Answer, Log!Answer
  <2> QED BY <2>4 DEF LogStep, Log!Next
<1>2. CASE FlushFails(h)
  <2>1. UNCHANGED <<hdrs, jdx, pc, locals, ret>>
    BY <1>2 DEF FlushFails, disk
  <2>2. call' = call
    BY <2>1 DEF call, CallView, locals
  <2> QED BY <2>1, <2>2, LogUnmoved DEF LogStep
<1>3. CASE RestoreLost(h)
  BY <1>3 DEF RestoreLost, Fault, Reliable
<1>4. CASE Crash(h)
  <2>1. /\ Cut(h) /\ EndCall(h, "closed")
        /\ ret' = [ret EXCEPT ![h] = Answer("none", 0, "none")]
    BY <1>4 DEF Crash
  <2>2. Log!Interrupted(h) /\ call' = [call EXCEPT ![h] = Log!NoCall]
    BY <2>1, CutRefines, CallEnds DEF Reliable
  <2>3. Log!Reset(h)
    BY <2>1, <2>2 DEF Log!Reset, Log!Return, call, Answer, Log!Answer
  <2> QED BY <2>3 DEF LogStep, Log!Next
<1> QED BY <1>1, <1>2, <1>3, <1>4 DEF FaultNext

\* A new base is an empty log.
LEMMA InitRefines == Init => Log!Init
<1> SUFFICES ASSUME Init PROVE Log!Init
  OBVIOUS
<1>1. TypeInv /\ IndexSound /\ NumRecords = 0
  BY TypeInit, InvInit DEF IInv, Init, NumRecords
<1>2. LogView = << >>
  BY <1>1, LogType
<1>3. call = [h \in Handles |-> Log!NoCall]
  BY DEF Init, call, CallView, WritePcs, FlagOps, Log!NoCall
<1> QED
  BY <1>2, <1>3 DEF Init, Log!Init, call, Answer, Log!Answer

\* The message base is the log of messages that JamLog describes: messages
\* appear in one step, keep their numbers, and every answer is true, whatever
\* the handles do at the same time and whatever faults strike.
THEOREM ImplementsLog == ASSUME Reliable PROVE Spec => LogSpec
<1>1. TypeInv /\ TypeInv' /\ IInv /\ IInv' /\ [Next]_vars => LogStep
  <2> SUFFICES ASSUME TypeInv, TypeInv', IInv, IInv', [Next]_vars PROVE LogStep
    OBVIOUS
  <2>1. Grows
    BY StepSound DEF Reliable
  <2>2. CASE UNCHANGED vars
    <3>1. UNCHANGED <<hdrs, jdx, pc, locals, ret>>
      BY <2>2 DEF vars, disk
    <3>2. call' = call
      BY <3>1 DEF call, CallView, locals
    <3> QED BY <3>1, <3>2, LogUnmoved DEF LogStep
  <2>3. CASE Next
    <3> PICK h \in Handles : WriteNext(h) \/ FlagNext(h) \/ InfoNext(h) \/ FaultNext(h)
      BY <2>3 DEF Next
    <3> QED BY <2>1, WriteRefines, FlagRefines, InfoRefines, FaultRefines DEF Reliable
  <2> QED BY <2>2, <2>3
<1>2. Discipline
  BY DEF Reliable
<1>3. Spec => []TypeInv
  BY TypeInit, TypeStep, PTL DEF Spec
<1>4. Spec => []IInv
  BY <1>2, Inductive
<1>5. TypeInv /\ TypeInv' /\ IInv /\ IInv' /\ [Next]_vars => [Log!Next]_(Log!vars)
  BY <1>1 DEF LogStep, Log!vars, call
<1> QED
  BY InitRefines, <1>3, <1>4, <1>5, PTL DEF Spec, LogSpec, Log!Spec
=============================================================================
