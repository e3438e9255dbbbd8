----------------------------- MODULE QwkPacket -----------------------------
(***************************************************************************)
(* A QWK packet: the messages of messages.dat, src/qwk/qwk_message.rs, the *)
(* index files and read_conference_mail, src/qwk/mod.rs, and control.dat,  *)
(* src/qwk/control.rs.  A message is a sequence of bytes, here of bytes    *)
(* that are themselves, blanks, digits and ends of lines.                  *)
(***************************************************************************)
EXTENDS BasicReal, SequencesExt

CONSTANT ConferenceCounts \* values of the u16 that counts the conferences: 2^16

ASSUME PacketAssumption == ConferenceCounts \in Nat \ {0}

Space == 32
DigitBytes == 48 .. 57
NewLine == 10
CarriageReturn == 13
PCB_TXT_EOL == 227
Block == 128
Blanks(n) == [i \in 1 .. n |-> Space]
KludgeHeads == [to |-> <<84, 111, 58, 32>>, from |-> <<70, 114, 111, 109, 58, 32>>,
                subj |-> <<83, 117, 98, 106, 101, 99, 116, 58, 32>>]
Kludges == <<"to", "from", "subj">>
NameLen == 25
ReplaceBytes(s, old, new) == [i \in DOMAIN s |-> IF s[i] = old THEN new ELSE s[i]]
DecimalText(n) ==
  LET f[m \in 0 .. n] == IF m < 10 THEN <<48 + m>> ELSE Append(f[m \div 10], 48 + (m % 10))
  IN f[n]
QwkErr == [ok |-> FALSE]

\* parse_qwk_number stops at the first blank or zero.
NumberDigits(data) ==
  LET end == SelectInSeq(data, LAMBDA b : b \in {Space, 0})
  IN SubSeq(data, 1, IF end = 0 THEN Len(data) ELSE end - 1)
IsQwkNumber(data) == ToSet(NumberDigits(data)) \subseteq DigitBytes
ParseQwkNumber(data) == FoldLeft(LAMBDA n, b : 10 * n + b - 48, 0, NumberDigits(data))

\* convert_pcboard_str takes the blanks at the end away.
TrimmedName(data) ==
  LET last == SelectLastInSeq(data, LAMBDA b : b # Space) IN SubSeq(data, 1, last)

KludgeOf(text) == {k \in DOMAIN KludgeHeads : IsPrefix(KludgeHeads[k], text)}
FirstLineEnd(text) == SelectInSeq(text, LAMBDA b : b = NewLine)

\* The length of the first line: lines() takes a carriage return before its end
\* for a part of the end.
LineLen(text) ==
  LET end == FirstLineEnd(text)
  IN IF end > 1 /\ text[end - 1] = CarriageReturn THEN end - 2 ELSE end - 1

\* Mutant: the byte that ends the line stays.
AfterLine_End(text) == SubSeq(text, LineLen(text) + 1, Len(text))

\* The text behind its first line and one byte more, which of a carriage return
\* and an end of a line is the first.
AfterLine(text) == SubSeq(text, LineLen(text) + 2, Len(text))

NumLines(text) == Cardinality({i \in DOMAIN text : text[i] = NewLine}) + 1

\* The loop over the kludges at the head of the text, each with its line.  A
\* kludge's line that nothing ends makes the slice behind it panic.
TakeKludges(m) ==
  LET take[n \in Nat] ==
        IF n = 0 THEN m
        ELSE LET r == take[n - 1]
             IN IF r = QwkErr \/ KludgeOf(r.text) = {} THEN r
                ELSE IF FirstLineEnd(r.text) = 0 THEN QwkErr
                ELSE LET k == CHOOSE x \in KludgeOf(r.text) : TRUE
                     IN [r EXCEPT ![k] = SubSeq(r.text, Len(KludgeHeads[k]) + 1, LineLen(r.text)),
                                  !.text = AfterLine(r.text)]
  IN take[NumLines(m.text)]

\* QWKMessage::read, with the offsets of its fields.
ReadQwk(data, is_extended) ==
  LET at(first, n) == SubSeq(data, first + 1, first + n)
      textLen == Block * (IF ParseQwkNumber(at(116, 6)) = 0 THEN 0 ELSE ParseQwkNumber(at(116, 6)) - 1)
      plain == [ok |-> TRUE, status |-> data[1], msg_number |-> ParseQwkNumber(at(1, 7)),
                date_time |-> TrimmedName(at(8, 13)), to |-> TrimmedName(at(21, 25)),
                from |-> TrimmedName(at(46, 25)), subj |-> TrimmedName(at(71, 25)),
                password |-> TrimmedName(at(96, 12)), ref_msg_number |-> ParseQwkNumber(at(108, 8)),
                active_flag |-> data[123], conference |-> at(123, 2), logical |-> at(125, 2),
                net_tag |-> data[128],
                text |-> ReplaceBytes(at(Block, textLen), PCB_TXT_EOL, NewLine)]
  IN IF Len(data) < Block THEN QwkErr
     ELSE IF \E f \in {at(1, 7), at(108, 8), at(116, 6)} : ~IsQwkNumber(f) THEN QwkErr
     ELSE IF Block + textLen > Len(data) THEN QwkErr
     ELSE IF is_extended THEN TakeKludges(plain) ELSE plain

\* resize(n, b' ') cuts what is longer.
Resized(s, n) == SubSeq(s \o Blanks(n), 1, n)
RightAligned(digits, n) == Blanks(n - Len(digits)) \o digits
KludgeLines(m) ==
  LET long == SelectSeq(Kludges, LAMBDA k : Len(m[k]) > NameLen)
  IN FlattenSeq([i \in DOMAIN long |-> KludgeHeads[long[i]] \o m[long[i]] \o <<PCB_TXT_EOL>>])
       \o (IF long = << >> THEN << >> ELSE <<PCB_TXT_EOL>>)

\* QWKMessage::write: the message number is as long as its digits, the other
\* numbers stand at the right of their fields.
WriteQwk(m, is_extended) ==
  <<m.status>> \o DecimalText(m.msg_number) \o m.date_time
    \o Resized(m.to, NameLen) \o Resized(m.from, NameLen) \o Resized(m.subj, NameLen)
    \o Resized(m.password, 12) \o RightAligned(DecimalText(m.ref_msg_number), 8)
    \o RightAligned(DecimalText(Len(m.text) \div Block + 1), 6) \o <<m.active_flag>>
    \o m.conference \o m.logical \o <<m.net_tag>>
    \o (IF is_extended THEN KludgeLines(m) ELSE << >>) \o ReplaceBytes(m.text, NewLine, PCB_TXT_EOL)
-----------------------------------------------------------------------------
\* The index of a conference: 5 bytes for each message, a BASIC real that
\* counts blocks and the conference's number.  The loop takes 5 bytes as long
\* as there are any.
ConvertQwkIndex(words, extraBytes) ==
  IF extraBytes # 0 THEN QwkErr
  ELSE [ok |-> TRUE, blocks |-> [i \in DOMAIN words |-> BasicrealToU32(words[i])]]

\* Mutant: the header block is counted in.
BlockAt_Counted(block, index_offset_bug) == block

\* The block, counted from 0, that read_conference_mail seeks.
BlockAt(block, index_offset_bug) == IF index_offset_bug THEN block ELSE block - 1

\* It ends with the first message that cannot be read; block - 1 for a
\* record of 0 panics, or leads behind the end of the file.
ReadConferenceMail(messagesAt, words, extraBytes, index_offset_bug) ==
  LET index == ConvertQwkIndex(words, extraBytes)
      at(i) == BlockAt(index.blocks[i], index_offset_bug)
  IN IF ~index.ok \/ \E i \in DOMAIN words : index.blocks[i] = 0 \/ at(i) \notin DOMAIN messagesAt
     THEN QwkErr
     ELSE [ok |-> TRUE, mail |-> [i \in DOMAIN words |-> messagesAt[at(i)]]]
-----------------------------------------------------------------------------
\* control.dat as its lines.  A line that is missing is empty.
ControlTexts == <<"bbs_name", "bbs_city_and_state", "bbs_phone_number", "bbs_sysop_name", "bbs_id",
                  "creation_time", "qmail_user_name", "qmail_menu_name">>
ControlScreens == <<"welcome_screen", "news_screen", "logoff_screen">>
TextLine(t) == [text |-> t]
NoLine == TextLine("")
LineAt(lines, i) == IF i \in DOMAIN lines THEN lines[i] ELSE NoLine
IsNumberLine(line) == "number" \in DOMAIN line
NumberLine(n) == [number |-> n]

\* Mutant: a conference takes one line.
ConferenceLine_NoName(c) == 11 + c

\* The number of the c-th conference; its name is the line behind it.
ConferenceLine(c) == 10 + 2 * c

ReadControl(lines) ==
  LET count == LineAt(lines, 11)
      n == IF IsNumberLine(count) THEN count.number ELSE 0
      screen(i) == LineAt(lines, 11 + 2 * n + i)
  IN IF \/ ~IsNumberLine(LineAt(lines, 10)) \/ ~IsNumberLine(count) \/ n >= ConferenceCounts
        \/ \E c \in 1 .. n : ~IsNumberLine(LineAt(lines, ConferenceLine(c)))
     THEN QwkErr
     ELSE [ok |-> TRUE, texts |-> [i \in 1 .. 8 |-> LineAt(lines, i)], zero_line |-> LineAt(lines, 9),
           message_count |-> lines[10].number,
           conferences |-> [c \in 1 .. n |-> [number |-> lines[ConferenceLine(c)].number,
                                              name |-> LineAt(lines, ConferenceLine(c) + 1)]],
           screens |-> [i \in 1 .. 3 |-> screen(i)]]

\* Two lines for each conference.
ConferenceLines(conferences) ==
  [i \in 1 .. 2 * Len(conferences) |->
     LET c == conferences[(i + 1) \div 2] IN IF i % 2 = 1 THEN NumberLine(c.number) ELSE c.name]

\* ControlDat::write: of the ninth line, zero_line, it writes 0, whatever d has.
WriteControl(d) ==
  d.texts \o <<NumberLine(0), NumberLine(d.message_count),
               NumberLine(Len(d.conferences) % ConferenceCounts)>>
    \o ConferenceLines(d.conferences) \o d.screens
-----------------------------------------------------------------------------
\* A message as a mail door lays it out: numbers at the left of their fields,
\* whole blocks of text, and before it a kludge for each name in long.  A blank
\* line behind the kludges is here the first line of the text.
LeftAligned(s, n) == s \o Blanks(n - Len(s))
FillBlock(s) == s \o Blanks((Block - (Len(s) % Block)) % Block)
DoorText(m, long) ==
  FlattenSeq([i \in DOMAIN long |-> KludgeHeads[long[i]] \o m[long[i]] \o <<PCB_TXT_EOL>>])
    \o ReplaceBytes(m.text, NewLine, PCB_TXT_EOL)
DoorBytes(m, long) ==
  LET text == FillBlock(DoorText(m, long))
  IN <<m.status>> \o LeftAligned(DecimalText(m.msg_number), 7) \o LeftAligned(m.date_time, 13)
       \o Resized(m.to, NameLen) \o Resized(m.from, NameLen) \o Resized(m.subj, NameLen)
       \o LeftAligned(m.password, 12) \o LeftAligned(DecimalText(m.ref_msg_number), 8)
       \o LeftAligned(DecimalText(Len(text) \div Block + 1), 6) \o <<m.active_flag>>
       \o m.conference \o m.logical \o <<m.net_tag>> \o text

\* A message of a door's packet is read with every field and its whole text,
\* and a name that a kludge carries takes the place of the one in the header.
\* A blank line behind the kludges stays in the text.
DoorMessageRead(m, long) ==
  LET r == ReadQwk(DoorBytes(m, long), TRUE)
  IN /\ r.ok
     /\ \A f \in DOMAIN m \ {"text"} : r[f] = m[f]
     /\ IsPrefix(m.text, r.text) /\ ToSet(r.text) \subseteq ToSet(m.text) \cup {Space}

\* What QWKMessage::write has written is read back, in a field of 7 bytes for
\* the message number (src/qwk/qwk_message.rs:34).
WrittenReadBack(m) == ReadQwk(WriteQwk(m, FALSE), FALSE) = [ok |-> TRUE] @@ m

\* The messages of a packet by the blocks, counted from 0, at which they begin.
MessagesAt(starts) ==
  [b \in {starts[i] : i \in DOMAIN starts} |-> CHOOSE i \in DOMAIN starts : starts[i] = b]

\* With an index that counts blocks from 1, or from 0 and index_offset_bug
\* set, the mail of a conference is that of its index, in order.
ConferenceMailIs(starts, conference) ==
  \A bug \in BOOLEAN :
    LET words == [i \in DOMAIN conference |->
                    U32ToBasicreal(starts[conference[i]] + (IF bug THEN 0 ELSE 1))]
    IN ReadConferenceMail(MessagesAt(starts), words, 0, bug) = [ok |-> TRUE, mail |-> conference]

\* All of a control.dat is read as it was written but for zero_line: that is 0.
ControlRoundTrip(d) ==
  LET r == ReadControl(WriteControl(d))
  IN /\ r.ok
     /\ \A f \in DOMAIN d \ {"zero_line"} : r[f] = d[f]
     /\ r.zero_line = NumberLine(0)
=============================================================================
