------------------------------ MODULE JamBase ------------------------------
(***************************************************************************)
(* A JAM message base and the JamMessageBase values (handles) that         *)
(* programs have open on it: src/jam/mod.rs, src/jam/jhr_header.rs and     *)
(* src/jam/msg_header.rs.  The .JHR, .JDT and .JDX files are shared; every *)
(* handle keeps its own copy of the fixed header.  One action is one file  *)
(* operation, so the calls of different handles interleave, and a fault    *)
(* can strike between any two operations.                                  *)
(*                                                                         *)
(* A message header is a slot of the .JHR file after its fixed header, and *)
(* the offset of a header is the number of slots before it.  The text file *)
(* is a sequence of cells and an offset in it counts cells.                *)
(*                                                                         *)
(* A definition X_Y under a comment that starts with "Mutant" is X with a  *)
(* bug; nothing here uses it.  It shows that a property can fail.          *)
(***************************************************************************)
EXTENDS Integers, Sequences, FiniteSets

CONSTANTS
  Handles,      \* the JamMessageBase values
  Names,        \* recipients' names
  NoName,       \* the recipient of a message without a RecvName subfield
  Crc,          \* get_crc of a name; different names may share a value
  CRC_SEED,     \* the CRC of no name
  Cells,        \* what a text is made of
  Msgs,         \* the messages that are written: recipient, text, deleted flag
  NoHeader,     \* no header in memory
  Offsets,      \* values of a u32 offset: 2^32
  Counters,     \* values of mod_counter: 2^32
  BaseMsgNum,   \* base_msg_num of the .JHR file; above 1 once the base was packed
  SingleWriter, \* do the programs see to it that write_message calls exclude each other?
  CheckedFlush, \* do the programs flush only a copy that mod_counter shows to be current?
  Faults,       \* which faults happen: "error", "flush", "crash", "lost"
  Cuts,         \* which file operations a fault can cut in two: "text", "header", "index"
  MaxHdrs,      \* bound on message headers
  MaxText,      \* bound on the cells of the text file
  MaxCounter,   \* bound on mod_counter; Counters is none, less keeps it from wrapping
  MaxFaults     \* bound on the number of faults

ASSUME NamesAssumption == /\ CRC_SEED \in Nat
                          /\ Crc \in [Names -> Nat]
ASSUME MsgsAssumption ==
  \A m \in Msgs : m \in [to : Names \cup {NoName}, txt : Seq(Cells), del : BOOLEAN]
ASSUME BoundsAssumption ==
  /\ Offsets \in Nat \ {0} /\ Counters \in Nat \ {0}
  /\ BaseMsgNum \in Nat \ {0} /\ MaxHdrs \in Nat /\ MaxText \in Nat /\ MaxFaults \in Nat
  /\ MaxCounter \in Nat
  /\ SingleWriter \in BOOLEAN /\ CheckedFlush \in BOOLEAN

VARIABLES
  jhr,          \* the fixed header on disk
  hdrs,         \* the message headers of the .JHR file
  jdt,          \* the text file
  jdx,          \* the index file: the words of its records, CRC and offset in turn
  pc,           \* where each handle is
  header_info,  \* each handle's copy of the fixed header
  header,       \* the message header a call is about to write
  offset,       \* the header offset a call works with
  record,       \* the index record a delete or restore works on, counted from 1
  ret,          \* the answer of each handle's last message call
  faults        \* how many faults have struck

disk == <<jhr, hdrs, jdt, jdx>>
locals == <<header, offset, record>>
vars == <<disk, pc, header_info, locals, ret, faults>>
-----------------------------------------------------------------------------
JHRHeaderInfo == [mod_counter : 0 .. Counters - 1, active_msgs : Nat, base_msg_num : Nat]
NoInfo == [mod_counter |-> 0, active_msgs |-> 0, base_msg_num |-> 0]

\* A header whose writing was cut short is not whole: it cannot be read.
Headers == [msg : Msgs, offset : Nat, deleted : BOOLEAN, whole : BOOLEAN]

FlagOps == {"delete", "restore"}
WritePcs == {"text", "hdrlen", "header", "crc", "off"}
Pcs == {"closed", "idle"} \cup WritePcs \cup FlagOps
Answers == [op : {"none", "write"} \cup FlagOps, record : Nat,
            result : {"none", "ok", "err"}]
Answer(op, r, res) == [op |-> op, record |-> r, result |-> res]

TypeOK ==
  /\ jhr \in JHRHeaderInfo
  /\ hdrs \in Seq(Headers)
  /\ jdt \in Seq(Cells)
  /\ jdx \in Seq(Nat)
  /\ pc \in [Handles -> Pcs]
  /\ header_info \in [Handles -> JHRHeaderInfo]
  /\ header \in [Handles -> Headers \cup {NoHeader}]
  /\ offset \in [Handles -> Nat]
  /\ record \in [Handles -> Nat]
  /\ ret \in [Handles -> Answers]
  /\ faults \in 0 .. MaxFaults
-----------------------------------------------------------------------------
\* What the operations read.

\* The bounds that read_header, delete_message and restore_message check.
InRange(info, n) == info.base_msg_num <= n /\ n <= info.active_msgs

\* The index record of a message number, counted from 1.
RecordOf(info, n) == n - info.base_msg_num + 1

NumRecords == Len(jdx) \div 2
IndexCrc(r) == jdx[2 * r - 1]
IndexOffset(r) == jdx[2 * r]

\* JamMessageHeader::read at offset o succeeds.
Readable(o) == o < Len(hdrs) /\ hdrs[o + 1].whole

\* The message n is found in the index and its header is read.
Located(info, n) ==
  /\ InRange(info, n)
  /\ RecordOf(info, n) <= NumRecords
  /\ Readable(IndexOffset(RecordOf(info, n)))

Located_header(info, n) == hdrs[IndexOffset(RecordOf(info, n)) + 1]

\* read_header of message n: a deleted message is refused, too.
ReadHeader(info, n) ==
  CASE ~Located(info, n) -> "err"
    [] Located(info, n) /\ Located_header(info, n).deleted -> "MessageDeleted"
    [] OTHER -> "ok"

TxtLen(hd) == Len(hd.msg.txt) % Offsets

\* read_msg_text finds the bytes it asks for.
TextReadable(hd) == hd.offset + TxtLen(hd) <= Len(jdt)
ReadMsgText(hd) == SubSeq(jdt, hd.offset + 1, hd.offset + TxtLen(hd))

\* The little-endian word at byte position p of the index file.
IndexByte(p) == (jdx[p \div 4 + 1] \div 256 ^ (p % 4)) % 256
IndexWord(p) ==
  IndexByte(p) + 256 * (IndexByte(p + 1) + 256 * (IndexByte(p + 2) + 256 * IndexByte(p + 3)))

\* search_message_index, when the length of the index file is a multiple of
\* 8: the filter finds the CRC at byte 8 * i, the map reads at byte i + 4.
SearchMessageIndex(c) ==
  {IndexWord(i + 4) : i \in {j \in 0 .. NumRecords - 1 : IndexWord(8 * j) = c}}

\* get_crc of the recipient, CRC_SEED for a message that names none.
RecipientCrc(m) == IF m.to = NoName THEN CRC_SEED ELSE Crc[m.to]
-----------------------------------------------------------------------------
Init ==
  /\ jhr = [mod_counter |-> 0, active_msgs |-> 0, base_msg_num |-> BaseMsgNum]
  /\ hdrs = << >>
  /\ jdt = << >>
  /\ jdx = << >>
  /\ pc = [h \in Handles |-> "closed"]
  /\ header_info = [h \in Handles |-> NoInfo]
  /\ header = [h \in Handles |-> NoHeader]
  /\ offset = [h \in Handles |-> 0]
  /\ record = [h \in Handles |-> 0]
  /\ ret = [h \in Handles |-> Answer("none", 0, "none")]
  /\ faults = 0

\* The handle has no call in progress any more.
EndCall(h, where) ==
  /\ pc' = [pc EXCEPT ![h] = where]
  /\ header' = [header EXCEPT ![h] = NoHeader]
  /\ offset' = [offset EXCEPT ![h] = 0]
  /\ record' = [record EXCEPT ![h] = 0]

Return(h, a) == EndCall(h, "idle") /\ ret' = [ret EXCEPT ![h] = a]

Go(h, from, to) == pc[h] = from /\ pc' = [pc EXCEPT ![h] = to]
-----------------------------------------------------------------------------
\* JamMessageBase::open reads the fixed header.
Open(h) ==
  /\ Go(h, "closed", "idle")
  /\ header_info' = [header_info EXCEPT ![h] = jhr]
  /\ ret' = [ret EXCEPT ![h] = Answer("none", 0, "none")]
  /\ UNCHANGED <<disk, locals, faults>>

\* The handle is dropped: nothing is written.
Drop(h) ==
  /\ Go(h, "idle", "closed")
  /\ header_info' = [header_info EXCEPT ![h] = NoInfo]
  /\ ret' = [ret EXCEPT ![h] = Answer("none", 0, "none")]
  /\ UNCHANGED <<disk, locals, faults>>

\* write_message, first part: the count in memory goes up before anything is
\* written, then the length of the text file becomes the text's offset.
WriteMessage(h, m) ==
  /\ Go(h, "idle", "text")
  /\ SingleWriter => \A g \in Handles : pc[g] \notin WritePcs
  /\ Len(hdrs) < MaxHdrs /\ Len(jdt) + Len(m.txt) <= MaxText
  /\ header_info' = [header_info EXCEPT ![h].active_msgs = @ + 1]
  /\ header' = [header EXCEPT ![h] =
       [msg |-> m, offset |-> Len(jdt) % Offsets, deleted |-> m.del, whole |-> TRUE]]
  /\ ret' = [ret EXCEPT ![h] = Answer("none", 0, "none")]
  /\ UNCHANGED <<disk, offset, record, faults>>

\* Mutant: the text file is opened to write, not to append.
AppendText_Overwrites(h) ==
  LET txt == header[h].msg.txt
  IN /\ Go(h, "text", "hdrlen")
     /\ jdt' = txt \o SubSeq(jdt, Len(txt) + 1, Len(jdt))
     /\ UNCHANGED <<jhr, hdrs, jdx, header_info, locals, ret, faults>>

AppendText(h) ==
  /\ Go(h, "text", "hdrlen")
  /\ jdt' = jdt \o header[h].msg.txt
  /\ UNCHANGED <<jhr, hdrs, jdx, header_info, locals, ret, faults>>

\* Mutant: the length the file has once the header is written.
ReadHdrLen_After(h) ==
  /\ Go(h, "hdrlen", "header")
  /\ offset' = [offset EXCEPT ![h] = (Len(hdrs) + 1) % Offsets]
  /\ UNCHANGED <<disk, header_info, header, record, ret, faults>>

\* The length of the header file becomes the offset in the index.
ReadHdrLen(h) ==
  /\ Go(h, "hdrlen", "header")
  /\ offset' = [offset EXCEPT ![h] = Len(hdrs) % Offsets]
  /\ UNCHANGED <<disk, header_info, header, record, ret, faults>>

\* Mutant: the header file is opened to write, not to append.
AppendHeader_Overwrites(h) ==
  /\ Go(h, "header", "crc")
  /\ hdrs' = <<header[h]>> \o SubSeq(hdrs, 2, Len(hdrs))
  /\ UNCHANGED <<jhr, jdt, jdx, header_info, locals, ret, faults>>

AppendHeader(h) ==
  /\ Go(h, "header", "crc")
  /\ hdrs' = Append(hdrs, header[h])
  /\ UNCHANGED <<jhr, jdt, jdx, header_info, locals, ret, faults>>

AppendCrc(h) ==
  /\ Go(h, "crc", "off")
  /\ jdx' = Append(jdx, RecipientCrc(header[h].msg))
  /\ UNCHANGED <<jhr, hdrs, jdt, header_info, locals, ret, faults>>

\* Mutant: the CRC is written twice.
AppendOffset_Crc(h) ==
  /\ pc[h] = "off"
  /\ jdx' = Append(jdx, RecipientCrc(header[h].msg))
  /\ Return(h, Answer("write", 0, "ok"))
  /\ UNCHANGED <<jhr, hdrs, jdt, header_info, faults>>

AppendOffset(h) ==
  /\ pc[h] = "off"
  /\ jdx' = Append(jdx, offset[h])
  /\ Return(h, Answer("write", 0, "ok"))
  /\ UNCHANGED <<jhr, hdrs, jdt, header_info, faults>>

\* The message numbers that are asked for.
MsgNumbers == 0 .. BaseMsgNum + MaxHdrs

\* Mutant: restore_message sets the flag like delete_message.
Wanted_Copied(op) == op \in FlagOps

\* The deleted flag a call is to leave.
Wanted(op) == op = "delete"

\* delete_message and restore_message read the index record and the header;
\* when the flag has to change they go on to write the header back.
FlagRefused(h, op, n) ==
  /\ pc[h] = "idle"
  /\ ~Located(header_info[h], n)
  /\ Return(h, Answer(op, 0, "err"))
  /\ UNCHANGED <<disk, header_info, faults>>

AlreadyFlagged(h, op, n) ==
  /\ pc[h] = "idle"
  /\ Located(header_info[h], n)
  /\ Located_header(header_info[h], n).deleted = Wanted(op)
  /\ Return(h, Answer(op, RecordOf(header_info[h], n), "ok"))
  /\ UNCHANGED <<disk, header_info, faults>>

FlagStart(h, op, n) ==
  /\ Go(h, "idle", op)
  /\ Located(header_info[h], n)
  /\ LET r == RecordOf(header_info[h], n)
         hd == Located_header(header_info[h], n)
     IN /\ hd.deleted # Wanted(op)
        /\ header' = [header EXCEPT ![h] = [hd EXCEPT !.deleted = Wanted(op)]]
        /\ offset' = [offset EXCEPT ![h] = IndexOffset(r)]
        /\ record' = [record EXCEPT ![h] = r]
  /\ ret' = [ret EXCEPT ![h] = Answer("none", 0, "none")]
  /\ UNCHANGED <<disk, header_info, faults>>

\* Mutant: the record number is taken for the place of the header.
Rewrite_AtRecord(h) == hdrs' = [hdrs EXCEPT ![record[h]] = header[h]]

\* The whole header goes back to where it was read from.
Rewrite(h) == hdrs' = [hdrs EXCEPT ![offset[h] + 1] = header[h]]

FlagWrite(h) ==
  /\ pc[h] \in FlagOps
  /\ Rewrite(h)
  /\ Return(h, Answer(pc[h], record[h], "ok"))
  /\ UNCHANGED <<jhr, jdt, jdx, header_info, faults>>

\* Mutant: the counter is not moved.
NextCounter_Same(info) == info

NextCounter(info) == [info EXCEPT !.mod_counter = (@ + 1) % Counters]

\* write_jhr_header: the counter goes up in memory, then mod_counter,
\* active_msgs and base_msg_num go to disk in one write.  JAM.txt (Updating
\* message base files) asks the program to have locked the base and to find on
\* disk the counter that it read the header with.
WriteJhrHeader(h) ==
  /\ pc[h] = "idle"
  /\ CheckedFlush => header_info[h].mod_counter = jhr.mod_counter
  /\ header_info[h].mod_counter < MaxCounter
  /\ header_info' = [header_info EXCEPT ![h] = NextCounter(@)]
  /\ jhr' = header_info'[h]
  /\ UNCHANGED <<hdrs, jdt, jdx, pc, locals, ret, faults>>

\* Mutant: only the counter is taken over.
ReadJhrHeader_Counter(h) ==
  /\ pc[h] = "idle"
  /\ header_info' = [header_info EXCEPT ![h].mod_counter = jhr.mod_counter]
  /\ UNCHANGED <<disk, pc, locals, ret, faults>>

ReadJhrHeader(h) ==
  /\ pc[h] = "idle"
  /\ header_info' = [header_info EXCEPT ![h] = jhr]
  /\ UNCHANGED <<disk, pc, locals, ret, faults>>
-----------------------------------------------------------------------------
\* Faults.  A file operation may fail (the call returns Err through ?), the
\* program may die.  What the operation that is cut short leaves on disk:
CutText(h) ==
  /\ pc[h] = "text" /\ "text" \in Cuts
  /\ \E k \in 1 .. Len(header[h].msg.txt) :
       jdt' = jdt \o SubSeq(header[h].msg.txt, 1, k)
  /\ UNCHANGED <<jhr, hdrs, jdx>>

CutHeader(h) ==
  /\ "header" \in Cuts
  /\ \/ pc[h] = "header" /\ hdrs' = Append(hdrs, [header[h] EXCEPT !.whole = FALSE])
     \/ pc[h] \in FlagOps /\ Rewrite(h)
  /\ UNCHANGED <<jhr, jdt, jdx>>

\* Between the two words of an index record a fault counts as a cut: it
\* leaves half a record.
Cut(h) ==
  \/ UNCHANGED disk /\ (pc[h] = "off" => "index" \in Cuts)
  \/ CutText(h)
  \/ CutHeader(h)

\* Fault and OpOf are no code: the bound on faults, and the operation whose
\* answer ret keeps.
Fault(f) == f \in Faults /\ faults < MaxFaults /\ faults' = faults + 1

OpOf(h) == IF pc[h] \in WritePcs THEN "write" ELSE pc[h]

Fail(h) ==
  /\ Fault("error")
  /\ pc[h] \in WritePcs \cup FlagOps
  /\ Cut(h)
  /\ Return(h, Answer(OpOf(h), 0, "err"))
  /\ UNCHANGED header_info

\* write_jhr_header fails after update has counted.
FlushFails(h) ==
  /\ Fault("flush")
  /\ pc[h] = "idle"
  /\ CheckedFlush => header_info[h].mod_counter = jhr.mod_counter
  /\ header_info[h].mod_counter < MaxCounter
  /\ header_info' = [header_info EXCEPT ![h] = NextCounter(@)]
  /\ UNCHANGED <<disk, pc, locals, ret>>

\* restore_message does not flush: the buffer is written when the BufWriter
\* is dropped, and an error of that write is dropped with it.
RestoreLost(h) ==
  /\ Fault("lost")
  /\ pc[h] = "restore"
  /\ Return(h, Answer("restore", record[h], "ok"))
  /\ UNCHANGED <<disk, header_info>>

Crash(h) ==
  /\ Fault("crash")
  /\ pc[h] # "closed"
  /\ Cut(h)
  /\ EndCall(h, "closed")
  /\ header_info' = [header_info EXCEPT ![h] = NoInfo]
  /\ ret' = [ret EXCEPT ![h] = Answer("none", 0, "none")]
-----------------------------------------------------------------------------
WriteNext(h) ==
  \/ \E m \in Msgs : WriteMessage(h, m)
  \/ AppendText(h)
  \/ ReadHdrLen(h)
  \/ AppendHeader(h)
  \/ AppendCrc(h)
  \/ AppendOffset(h)

FlagNext(h) ==
  \/ \E op \in FlagOps, n \in MsgNumbers : \/ FlagRefused(h, op, n)
                                           \/ AlreadyFlagged(h, op, n)
                                           \/ FlagStart(h, op, n)
  \/ FlagWrite(h)

InfoNext(h) ==
  \/ Open(h)
  \/ Drop(h)
  \/ WriteJhrHeader(h)
  \/ ReadJhrHeader(h)

FaultNext(h) ==
  \/ Fail(h)
  \/ FlushFails(h)
  \/ RestoreLost(h)
  \/ Crash(h)

Next == \E h \in Handles : WriteNext(h) \/ FlagNext(h) \/ InfoNext(h) \/ FaultNext(h)

Spec == Init /\ [][Next]_vars
-----------------------------------------------------------------------------
(***************************************************************************)
(* Properties.                                                             *)
(***************************************************************************)
\* read_msg_text on any header that can be read returns the text the header
\* was written for, whatever faults struck between the two appends of
\* write_message.
HeadersOwnText ==
  \A i \in DOMAIN hdrs :
    hdrs[i].whole => TextReadable(hdrs[i]) /\ ReadMsgText(hdrs[i]) = hdrs[i].msg.txt

\* Every index record leads to a header that can be read and carries the CRC
\* of its recipient, and the records are in the order of their headers: the
\* seek to record * 8 + 4 of read_header never lands on a CRC.
IndexSound ==
  /\ \A r \in 1 .. NumRecords :
       /\ Readable(IndexOffset(r))
       /\ IndexCrc(r) = RecipientCrc(hdrs[IndexOffset(r) + 1].msg)
  /\ \A r, s \in 1 .. NumRecords : r < s => IndexOffset(r) < IndexOffset(s)

\* The base seen through its index is a log to which a write_message that
\* returns Ok adds its message in one step and a write_message that fails
\* adds nothing, and in which a delete or restore that returns Ok holds.
LogView ==
  [r \in 1 .. NumRecords |->
     LET hd == hdrs[IndexOffset(r) + 1]
     IN [msg |-> hd.msg, deleted |-> hd.deleted]]

CallView(h) ==
  CASE pc[h] \in WritePcs -> [op |-> "write", msg |-> header[h].msg]
    [] pc[h] \in FlagOps -> [op |-> pc[h], record |-> record[h]]
    [] OTHER -> [op |-> "none"]

Log == INSTANCE JamLog WITH log <- LogView,
                            call <- [h \in Handles |-> CallView(h)]
LogSpec == Log!Spec

\* Every number that the range check of read_header accepts has an index
\* record: the valid range that MessageNumberOutOfRange reports is valid.
NumbersAreRecords ==
  \A h \in Handles : pc[h] = "idle" =>
    \A n \in MsgNumbers : InRange(header_info[h], n) =>
                            RecordOf(header_info[h], n) <= NumRecords

\* No step takes anything back that is on disk: the three files only grow, and
\* of a header that is there nothing changes but its deleted flag, although
\* delete_message writes back the whole header it read some steps ago.
SameButDeleted(hd1, hd2) ==
  hd1.msg = hd2.msg /\ hd1.offset = hd2.offset /\ hd1.whole = hd2.whole

Grows ==
  /\ Len(jdt) <= Len(jdt') /\ \A k \in 1 .. Len(jdt) : jdt'[k] = jdt[k]
  /\ Len(jdx) <= Len(jdx') /\ \A k \in 1 .. Len(jdx) : jdx'[k] = jdx[k]
  /\ Len(hdrs) <= Len(hdrs')
  /\ \A i \in 1 .. Len(hdrs) : SameButDeleted(hdrs[i], hdrs'[i])

FilesGrow == [][Grows]_vars

\* The call that turns one answer of read_header into the other.
FlippedBy(answer) == IF answer = "ok" THEN "delete" ELSE "restore"

\* A number that read_header has answered with a message, or refused because
\* the message is deleted, keeps leading to that message in every handle whose
\* count covers it, whatever the other programs write, delete, fail to flush
\* or lose meanwhile; and only a delete of its own record hides it, only a
\* restore of its own record gives it back ("read_header will never return a
\* deleted message. But it's still there and can be recovered").
AnswerStays(h, n) ==
  LET answer == ReadHeader(header_info[h], n)
  IN answer # "err" =>
       /\ ReadHeader(header_info[h], n)' # "err"
       /\ SameButDeleted(Located_header(header_info[h], n), Located_header(header_info[h], n)')
       /\ ReadHeader(header_info[h], n)' # answer =>
            \E g \in Handles : pc[g] = FlippedBy(answer) /\ record[g] = RecordOf(header_info[h], n)

AnswersStay ==
  [][\A h \in Handles, n \in MsgNumbers :
       pc[h] # "closed" /\ pc'[h] # "closed" /\ InRange(header_info'[h], n)
         => AnswerStays(h, n)]_vars

\* write_jhr_header takes no message out of the count on disk: no operation
\* removes a message, so a count that falls was overwritten from a stale copy.
FlushKeepsCount == [][jhr'.active_msgs >= jhr.active_msgs]_vars

\* A program that compares mod_counter with the one on disk and finds them
\* equal has missed no message that another program has counted there
\* (read_jhr_header: "only for outside changes detected").
ModDetectsChange ==
  \A h \in Handles :
    pc[h] # "closed" /\ header_info[h].mod_counter = jhr.mod_counter =>
      header_info[h].active_msgs >= jhr.active_msgs

\* search_message_index gives back the offset words of the records that hold
\* the CRC, as the single-threaded version kept in a comment beside it does.
SearchGivesOffsets ==
  Len(jdx) % 2 = 0 =>
    \A c \in {RecipientCrc(m) : m \in Msgs} :
      SearchMessageIndex(c)
        = {IndexOffset(r) : r \in {s \in 1 .. NumRecords : IndexCrc(s) = c}}
=============================================================================
