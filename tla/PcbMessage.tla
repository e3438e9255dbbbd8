----------------------------- MODULE PcbMessage -----------------------------
(***************************************************************************)
(* What follows the header of a PCBoard message, src/pcboard/mod.rs and    *)
(* src/pcboard/message_header.rs, and what the conversion to JAM makes of  *)
(* it, src/conversion/pcboard_to_jam.rs.  Extended headers and blocks are  *)
(* multiples of 8 bytes long, so a unit here is 8 bytes: an extended       *)
(* header begins with a unit that has its function and its content, any    *)
(* other unit is a piece of text.                                          *)
(***************************************************************************)
EXTENDS Integers, SequencesExt

BlockUnits == 16     \* 128 bytes
ExtendedUnits == 9   \* 0x48 bytes
\* ExtendedHeaderInformation::from_data knows these.
ExtendedFunctions ==
  {"To", "From", "Subject", "Attach", "List", "Route", "Origin", "Reqrr", "Ackrr", "Ackname",
   "Packout", "To2", "From2", "Forward", "Ufollow", "Unewsgr"}

ExtendedHeader(f, content) == [function |-> f, content |-> content]
IsExtended(unit) == "function" \in DOMAIN unit
Filler == [text |-> "rest of an extended header"]

\* The text and the extended headers of a message that was read.
Body(headers, text) == [ok |-> TRUE, headers |-> headers, text |-> text]
\* deserialize unwraps the answer of from_data and slices past the buffer.
Panic == [ok |-> FALSE]

AreaUnits(num_blocks) == BlockUnits * (IF num_blocks = 0 THEN 0 ELSE num_blocks - 1)

\* Mutant: an extended header is taken to be 64 bytes long.
HeaderAt_Short(k) == 8 * (k - 1)

\* The loop adds the length of an extended header to its position each time:
\* where it is when it looks for the k-th.
HeaderAt(k) == ExtendedUnits * (k - 1)

StartsHeader(area, k) == HeaderAt(k) < Len(area) /\ IsExtended(area[HeaderAt(k) + 1])

\* It ends where no extended header starts.
NumHeaders(area) ==
  CHOOSE n \in 0 .. Len(area) : /\ \A k \in 1 .. n : StartsHeader(area, k)
                                /\ ~StartsHeader(area, n + 1)

\* PCBoardMessage::read behind the header, over the area of its blocks.
ReadBody(area) ==
  LET n == NumHeaders(area)
      header(k) == area[HeaderAt(k) + 1]
  IN IF \E k \in 1 .. n : \/ header(k).function \notin ExtendedFunctions
                          \/ HeaderAt(k) + ExtendedUnits > Len(area)
     THEN Panic
     ELSE Body([k \in 1 .. n |-> header(k)], SubSeq(area, HeaderAt(n + 1) + 1, Len(area)))
-----------------------------------------------------------------------------
\* get_status, for the character of the status byte.
StatusOf(c) ==
  CASE c \in {"star", "plus"} -> "Private"
    [] c \in {"tilde", "grave"} -> "CommentToSysop"
    [] c \in {"percent", "caret"} -> "SenderPassword"
    [] c \in {"bang", "hash"} -> "GroupPassword"
    [] c = "dollar" -> "GroupPasswordMessageToAll"
    [] OTHER -> "Public"

IsRead(c) == c \in {"plus", "tilde", "grave", "caret", "hash", "minus"}

\* Mutant: only messages marked private are private.
JamAttributes_Comments(m) ==
  (IF StatusOf(m.status) = "Private" THEN {"MSG_PRIVATE"} ELSE {})
    \cup (IF IsRead(m.status) THEN {"MSG_READ"} ELSE {})
    \cup (IF m.active THEN {} ELSE {"MSG_DELETED"})
    \cup (IF m.attach THEN {"MSG_FILEATTACH"} ELSE {})
    \cup (IF m.reqrr THEN {"MSG_RECEIPTREQ"} ELSE {})

\* get_jam_attributes; active, attach and reqrr are the active flag and two
\* bits of the extended status.
JamAttributes(m) ==
  (IF StatusOf(m.status) \in {"Private", "CommentToSysop"} THEN {"MSG_PRIVATE"} ELSE {})
    \cup (IF IsRead(m.status) THEN {"MSG_READ"} ELSE {})
    \cup (IF m.active THEN {} ELSE {"MSG_DELETED"})
    \cup (IF m.attach THEN {"MSG_FILEATTACH"} ELSE {})
    \cup (IF m.reqrr THEN {"MSG_RECEIPTREQ"} ELSE {})

\* Mutant: a second part replaces the first.
NamesAfter_Replaced(names, hd) ==
  CASE hd.function \in {"To", "To2"} -> [names EXCEPT !.to = hd.content]
    [] hd.function \in {"From", "From2"} -> [names EXCEPT !.from = hd.content]
    [] hd.function = "Subject" -> [names EXCEPT !.subject = hd.content]
    [] OTHER -> names

\* One extended header: it replaces a name or goes behind it.  The names of
\* attached files are collected, but no message gets them.
NamesAfter(names, hd) ==
  CASE hd.function = "To" -> [names EXCEPT !.to = hd.content]
    [] hd.function = "From" -> [names EXCEPT !.from = hd.content]
    [] hd.function = "Subject" -> [names EXCEPT !.subject = hd.content]
    [] hd.function = "To2" -> [names EXCEPT !.to = @ \o hd.content]
    [] hd.function = "From2" -> [names EXCEPT !.from = @ \o hd.content]
    [] OTHER -> names

JamNames(fields, headers) == FoldLeft(NamesAfter, fields, headers)
-----------------------------------------------------------------------------
\* A message as PCBoard lays it out: its extended headers, its text, and
\* whatever fills the last block.
Units(headers) ==
  [i \in 1 .. ExtendedUnits * Len(headers) |->
     IF i % ExtendedUnits = 1 THEN headers[i \div ExtendedUnits + 1] ELSE Filler]
Padded(units) ==
  units \o [i \in 1 .. (BlockUnits - (Len(units) % BlockUnits)) % BlockUnits |-> [text |-> "fill"]]

\* All of its extended headers are found, in order, and everything behind
\* them is text, wherever the block boundaries fall; none of it panics.
BodyIsLaidOut(headers, text) ==
  LET area == Padded(Units(headers) \o text)
      body == ReadBody(area)
  IN /\ Len(area) = AreaUnits(Len(area) \div BlockUnits + 1)
     /\ body.ok
     /\ body.headers = headers
     /\ Units(body.headers) \o body.text = area

\* The table above PCBoardMessageHeader.status: unread and read mark of each
\* type; the last has no read mark.
StatusTable ==
  {[type |-> "Private", unread |-> "star", read |-> "plus"],
   [type |-> "CommentToSysop", unread |-> "tilde", read |-> "grave"],
   [type |-> "SenderPassword", unread |-> "percent", read |-> "caret"],
   [type |-> "GroupPassword", unread |-> "bang", read |-> "hash"],
   [type |-> "Public", unread |-> "blank", read |-> "minus"],
   [type |-> "GroupPasswordMessageToAll", unread |-> "dollar", read |-> "none"]}

\* A message keeps what its status says: who may read it, that it was read, and,
\* if it is no comment to the sysop, that it was not.
StatusKept(m) ==
  \A row \in StatusTable : m.status \in {row.unread, row.read} =>
    /\ StatusOf(m.status) = row.type
    /\ m.status = row.read => "MSG_READ" \in JamAttributes(m)
    /\ m.status = row.unread /\ row.type # "CommentToSysop" => "MSG_READ" \notin JamAttributes(m)
    /\ "MSG_PRIVATE" \in JamAttributes(m) <=> row.type \in {"Private", "CommentToSysop"}
    /\ "MSG_DELETED" \in JamAttributes(m) <=> ~m.active

\* What an extended header adds to the recipient.
SecondPart(hd) == IF hd.function = "To2" THEN hd.content ELSE << >>

\* The recipient is what the last "To" says, or the field of the header, and
\* then each second part that comes after it; other headers do not matter.
RecipientWhole(fields, headers) ==
  LET last == SelectLastInSeq(headers, LAMBDA hd : hd.function = "To")
      first == IF last = 0 THEN fields.to ELSE headers[last].content
  IN JamNames(fields, headers).to =
       first \o FlattenSeq([i \in 1 .. Len(headers) - last |-> SecondPart(headers[last + i])])
=============================================================================
