------------------------------ MODULE PcbBase ------------------------------
(***************************************************************************)
(* A PCBoard message base, src/pcboard/mod.rs, base_header.rs and          *)
(* message_index.rs: the PCBoardMessageBase values (handles) that programs *)
(* have open on it, and PCBoard itself, which posts messages while they    *)
(* read.  The file begins with a block of counts, BASIC reals on disk, of  *)
(* which every handle has a decoded copy; then come the messages, a header *)
(* block and blocks of text each.  The index has an offset per message,    *)
(* the old index a block number, a BASIC real, in a table of fixed length. *)
(***************************************************************************)
EXTENDS BasicReal, Sequences

CONSTANTS Handles,   \* the PCBoardMessageBase values
          Sizes,     \* num_blocks of the messages that are posted
          MaxMsgs    \* bound on messages, and the length of the old index

\* MaxMsgs messages of any size have block numbers that a BASIC real holds exactly.
ASSUME SizesAssumption == /\ MaxMsgs \in Nat /\ MaxMsgs < Hidden - 2
                          /\ \A n \in Sizes : n \in Nat \ {0} /\ MaxMsgs * n < Hidden - 2

VARIABLES header,    \* the first block on disk: the counts as words, the lock
          blocks,    \* the blocks that follow
          index,     \* the index file: the offset and the number of each record
          old_index, \* the old index file: words
          posting,   \* where PCBoard is while it posts
          copies,    \* each handle's header_info
          reading    \* the read_message of each handle: under way, or its answer

vars == <<header, blocks, index, old_index, posting, copies, reading>>
files == <<header, blocks, index, old_index>>

BLOCK == 128
Counts == {"high_msg_num", "low_msg_num", "active_msgs", "callers"}
Closed == [open |-> FALSE]
NoRead == [at |-> "none"]
Numbers == 0 .. MaxMsgs + 1
-----------------------------------------------------------------------------
\* Mutant: the words are taken for the counts.
Load_Words(hd) == [open |-> TRUE, locked |-> hd.locked, counts |-> hd.counts]

\* PCBoardMessageBaseHeader::load.
Load(hd) == [open |-> TRUE, locked |-> hd.locked,
             counts |-> [c \in Counts |-> BasicrealToU32(hd.counts[c])]]

\* write_header_to writes the numbers, not BASIC reals of them.
Stored(copy) == [counts |-> copy.counts, locked |-> copy.locked]

IsMessage(o) == /\ o % BLOCK = 0 /\ o \div BLOCK \in DOMAIN blocks
                /\ "num" \in DOMAIN blocks[o \div BLOCK]

\* PCBoardMessage::read gets the header and all the blocks it counts.
MessageWhole(o) == IsMessage(o) /\ o \div BLOCK + blocks[o \div BLOCK].num_blocks - 1 <= Len(blocks)

\* Mutant: message numbers are taken to start at 0.
RecordOf_Zero(num) == num + 1

\* The record, counted from 1, that read_message seeks, by its 64 bytes.
RecordOf(num) == num

\* read_message's range check.
InRange(copy, num) ==
  copy.counts["low_msg_num"] <= num /\ num <= copy.counts["high_msg_num"]

\* Mutant: the blocks are counted from the first behind the header.
OldOffset_First(w) == BasicrealToU32(w) * BLOCK

OldOffset(w) == (BasicrealToU32(w) - 1) * BLOCK

\* read_old_index ends at the first word that is 0, read_index where the file ends.
ReadOldIndex ==
  LET used == {n \in 0 .. MaxMsgs : \A i \in 1 .. n : old_index[i] # 0}
      n == CHOOSE m \in used : \A k \in used : k <= m
  IN [i \in 1 .. n |-> OldOffset(old_index[i])]
ReadIndex == [i \in DOMAIN index |-> index[i].offset]
-----------------------------------------------------------------------------
Real(n) == U32ToBasicreal(n)
CountsFor(n) == [c \in Counts |-> IF c \in {"low_msg_num", "callers"} THEN Real(1) ELSE Real(n)]

Init ==
  /\ header = [counts |-> CountsFor(0), locked |-> FALSE]
  /\ blocks = << >>
  /\ index = << >>
  /\ old_index = [i \in 1 .. MaxMsgs |-> 0]
  /\ posting = "no"
  /\ copies = [h \in Handles |-> Closed]
  /\ reading = [h \in Handles |-> NoRead]

\* PCBoard posts when it does not find the base locked: the message, its
\* records in both indices, the counts.
Post ==
  \/ /\ posting = "no" /\ ~header.locked /\ Len(index) < MaxMsgs
     /\ posting' = "index"
     /\ \E n \in Sizes :
          blocks' = blocks \o [i \in 1 .. n |->
                       IF i = 1 THEN [num |-> Len(index) + 1, num_blocks |-> n]
                                ELSE [text |-> TRUE]]
     /\ UNCHANGED <<header, index, old_index, copies, reading>>
  \/ /\ posting = "index" /\ posting' = "old_index"
     /\ LET last == CHOOSE k \in DOMAIN blocks : /\ IsMessage(k * BLOCK)
                                                 /\ blocks[k].num = Len(index) + 1
        IN index' = Append(index, [offset |-> last * BLOCK, num |-> Len(index) + 1])
     /\ UNCHANGED <<header, blocks, old_index, copies, reading>>
  \/ /\ posting = "old_index" /\ posting' = "header"
     /\ LET n == Len(index)
        IN old_index' = [old_index EXCEPT ![n] = Real(index[n].offset \div BLOCK + 1)]
     /\ UNCHANGED <<header, blocks, index, copies, reading>>
  \/ /\ posting = "header" /\ posting' = "no"
     /\ header' = [header EXCEPT !.counts = CountsFor(Len(index))]
     /\ UNCHANGED <<blocks, index, old_index, copies, reading>>

\* open, and is_locked, which loads the header again.
Reload(h) ==
  /\ reading[h].at # "index"
  /\ copies' = [copies EXCEPT ![h] = Load(header)]
  /\ reading' = [reading EXCEPT ![h] = NoRead]
  /\ UNCHANGED <<files, posting>>

\* lock and unlock write back the copy; they do not look at the file.  The
\* BufWriter is not flushed: an error of its last write is dropped.
SetLock(h, flag) ==
  /\ copies[h].open /\ reading[h].at # "index"
  /\ copies' = [copies EXCEPT ![h].locked = flag]
  /\ header' \in {Stored(copies'[h]), header}
  /\ reading' = [reading EXCEPT ![h] = NoRead]
  /\ UNCHANGED <<blocks, index, old_index, posting>>

Answer(num, result, got) ==
  [at |-> "answer", num |-> num, result |-> result, got |-> got]

\* read_message: a number in the copy's range has its record read ...
FindRecord(h, num) ==
  /\ copies[h].open /\ reading[h].at # "index"
  /\ reading' = [reading EXCEPT ![h] =
       IF ~InRange(copies[h], num) THEN Answer(num, "range", 0)
       ELSE IF num = 0 THEN Answer(num, "underflow", 0)
       ELSE IF RecordOf(num) \notin DOMAIN index THEN Answer(num, "err", 0)
       ELSE [at |-> "index", num |-> num, offset |-> index[RecordOf(num)].offset]]
  /\ UNCHANGED <<files, posting, copies>>

\* ... and then the message at the offset.
ReadBlocks(h) ==
  /\ reading[h].at = "index"
  /\ LET r == reading[h]
     IN reading' = [reading EXCEPT ![h] =
          IF MessageWhole(r.offset) THEN Answer(r.num, "ok", blocks[r.offset \div BLOCK].num)
          ELSE Answer(r.num, "err", 0)]
  /\ UNCHANGED <<files, posting, copies>>

Next ==
  \/ Post
  \/ \E h \in Handles : \/ Reload(h)
                        \/ \E flag \in BOOLEAN : SetLock(h, flag)
                        \/ \E num \in Numbers : FindRecord(h, num)
                        \/ ReadBlocks(h)

Spec == Init /\ [][Next]_vars
-----------------------------------------------------------------------------
\* read_message finds every message from number 1 on that the handle says
\* there is, and gives the message of that number, while PCBoard posts and
\* other handles lock and unlock with counts they read long ago.
NumbersRead ==
  \A h \in Handles :
    reading[h].at = "answer" /\ reading[h].num > 0 /\ reading[h].result # "range"
      => reading[h].result = "ok" /\ reading[h].got = reading[h].num

\* Both indices lead to the same messages, as test_index has it; the index
\* has at most the record of the message that is being posted more.
OldIndexAgrees ==
  \E n \in 0 .. 1 : /\ Len(ReadIndex) = Len(ReadOldIndex) + n
                    /\ \A i \in DOMAIN ReadOldIndex : ReadOldIndex[i] = ReadIndex[i]

\* The lock leaves the counts that the next program loads as they are
\* (base_header.rs: high_msg_num is the "Highest message number in index
\* file"; test_open_base calls is_locked and goes on to use the counts).
LockKeepsCounts ==
  [][header'.locked # header.locked => Load(header').counts = Load(header).counts]_vars
-----------------------------------------------------------------------------
\* What NumbersRead and OldIndexAgrees rest on.
Headers == [num : Nat, num_blocks : Sizes]
Texts == [text : {TRUE}]
FilesOK ==
  /\ blocks \in Seq(Headers \cup Texts)
  /\ index \in Seq([offset : Nat, num : Nat]) /\ Len(index) <= MaxMsgs
  /\ DOMAIN old_index = 1 .. MaxMsgs
  /\ posting \in {"no", "index", "old_index", "header"}
  /\ posting = "index" => Len(index) < MaxMsgs
  /\ posting = "old_index" => index # << >>

CountWords == [Counts -> Nat]
Opened == [open : {TRUE}, locked : BOOLEAN, counts : CountWords]
Reads ==
  [at : {"index"}, num : Nat, offset : Nat]
    \cup [at : {"answer"}, num : Nat, result : {"ok", "err", "range", "underflow"}, got : Nat]
TypeOK ==
  /\ FilesOK
  /\ header \in [counts : CountWords, locked : BOOLEAN]
  /\ copies \in [Handles -> {Closed} \cup Opened]
  /\ reading \in [Handles -> {NoRead} \cup Reads]

\* The messages on disk: those of the index and one that is being posted.
Posted == Len(index) + (IF posting = "index" THEN 1 ELSE 0)

\* All blocks of a message are there, and no message is longer than it may be.
BlocksWhole ==
  /\ \A k \in DOMAIN blocks : blocks[k] \in Headers => k + blocks[k].num_blocks - 1 <= Len(blocks)
  /\ MaxMsgs * Len(blocks) <= Posted * (Hidden - 3)

IsHeaderOf(k, num) == k \in DOMAIN blocks /\ blocks[k] \in Headers /\ blocks[k].num = num

\* Each record leads to the header of its message; the one that is being
\* posted has a header before it has a record.
IndexLeads ==
  /\ \A i \in DOMAIN index : \E k \in DOMAIN blocks : /\ index[i].offset = k * BLOCK
                                                      /\ IsHeaderOf(k, i)
  /\ posting = "index" => \E k \in DOMAIN blocks : IsHeaderOf(k, Len(index) + 1)

\* The old index lags behind the index while a message is posted.
OldLen == Len(index) - (IF posting = "old_index" THEN 1 ELSE 0)
OldIndexFollows ==
  \A i \in 1 .. MaxMsgs :
    old_index[i] = IF i <= OldLen THEN Real(index[i].offset \div BLOCK + 1) ELSE 0

\* The counts on disk and every copy of them know no message that the index
\* does not have, be they BASIC reals or the numbers that a lock has written.
CountsBehind ==
  /\ Load(header).counts["high_msg_num"] \in 0 .. Len(index)
  /\ \A h \in Handles :
       copies[h].open => copies[h].counts["high_msg_num"] \in 0 .. Len(index)

\* A read under way holds the offset of its number.
ReadsBehind ==
  \A h \in Handles : reading[h].at = "index" =>
    /\ reading[h].num \in DOMAIN index
    /\ reading[h].offset = index[reading[h].num].offset

\* The files agree with each other but for the message that is being posted,
\* and nobody knows a message that the index does not have.
PcbInv ==
  /\ TypeOK /\ BlocksWhole /\ IndexLeads /\ OldIndexFollows
  /\ CountsBehind /\ ReadsBehind /\ NumbersRead
=============================================================================
