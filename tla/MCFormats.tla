----------------------------- MODULE MCFormats -----------------------------
(***************************************************************************)
(* Inputs for the formats, one in each state: the properties of the pure   *)
(* modules, over every word of a narrow BASIC real, buffers on both sides  *)
(* of the lengths at which the CRC changes its loop, every short text that *)
(* could be an address, headers and subfield data, layouts of PCBoard and  *)
(* QWK messages.                                                           *)
(***************************************************************************)
EXTENDS Crc32, EchomailAddress, JamHeaderCodec, PcbMessage, QwkPacket

VARIABLE input

Signature == <<10, 1, 13, 0>>
AddressSeparators == <<-1, -2, -3>>

\* Bytes that spread over the tables, and letters of both cases.
Buffers == {[i \in 1 .. n |-> (37 * i + s) % 256] : n \in 0 .. 35, s \in {0, 101}}
\* The last are a byte longer than a round of the CRC.
Passwords ==
  {<< >>, <<97>>, <<65>>, <<97, 98>>, <<65, 66>>, <<98>>, <<64>>, <<96>>, <<91>>, <<123>>}
    \cup {[i \in 1 .. 17 |-> 97], [i \in 1 .. 17 |-> 65], [i \in 1 .. 17 |-> IF i = 1 THEN 98 ELSE 97]}

\* Short texts of two digits and the separators, longer ones that begin well.
AddressChars == Range(AddressSeparators) \cup {1, 2}
AddressTexts ==
  (UNION {[1 .. n -> AddressChars] : n \in 0 .. 5})
    \cup {<<1, -1>> \o t : t \in [1 .. 5 -> AddressChars]}

Contents == {<< >>, <<1>>, <<2, 3>>}
SubfieldTypes == {[known |-> "RecvName"], [known |-> "TZUTCInfo"], Unknown(2004)}
Subfields == {Subfield(t, c) : t \in SubfieldTypes, c \in Contents}
JamHeaders ==
  {HeaderOf([f \in Range(Fields) |-> CHOOSE i \in DOMAIN Fields : Fields[i] = f], sfs) :
     sfs \in BoundedSeq(Subfields, 2)}
SubfieldHeads == {LeBytes(c, 4) \o LeBytes(n, 4) : c \in {3, 2004}, n \in {0, 1, 2, 9, 10, 200}}
OneSubfield == {hd \o [i \in 1 .. n |-> 0] : hd \in SubfieldHeads, n \in 0 .. 10}
SubfieldData ==
  OneSubfield \cup {a \o b : a \in {d \in OneSubfield : Len(d) <= 10}, b \in OneSubfield}
    \cup {[i \in 1 .. n |-> 0] : n \in 0 .. 10}

ExtendedOf == {ExtendedHeader(f, c) : f \in {"To", "To2", "Attach"}, c \in {<<1>>, <<2>>}}
Layout(hs, n) == [kind |-> "body", headers |-> hs, text |-> [i \in 1 .. n |-> [text |-> "words"]]]
Layouts ==
  {Layout(hs, n) : hs \in BoundedSeq({ExtendedHeader("To", <<1>>), ExtendedHeader("Attach", <<2>>)}, 4),
                   n \in {0, 1, 6, 7, 8, 16}}
Statuses == [status : {"star", "plus", "tilde", "grave", "percent", "caret", "bang", "hash", "blank",
                       "minus", "dollar"},
             active : BOOLEAN, attach : BOOLEAN, reqrr : BOOLEAN]

Word(n) == [i \in 1 .. n |-> 65 + (i % 26)]
\* Texts on both sides of the end of a block, and of two, without and with a
\* blank line at their head.
OneLines == {Append(Word(n), NewLine) : n \in {0, 126, 127, 128, 255}}
MailTexts == OneLines \cup {<<NewLine>> \o text : text \in OneLines}
QwkMessages ==
  {[status |-> Space, msg_number |-> num, date_time |-> Word(13), to |-> Word(t), from |-> Word(3),
    subj |-> Word(s), password |-> << >>, ref_msg_number |-> 7, active_flag |-> 225,
    conference |-> <<1, 0>>, logical |-> <<2, 0>>, net_tag |-> Space, text |-> text] :
     num \in {5, 1234567}, t \in {3, 25}, s \in {1, 25}, text \in MailTexts}
\* Two names for the kludges, which replace those of the header.
Kludged(m) == [m EXCEPT !.to = Word(30), !.subj = Word(41)]
PlainMessages == {m \in QwkMessages : m.msg_number = 1234567}

\* Three messages of up to four blocks behind the packet's header.
Starts == {<<1, 1 + n, 1 + n + m>> : n \in 1 .. 4, m \in 1 .. 4}

Control(zero, n, k) ==
  [texts |-> [i \in 1 .. 8 |-> TextLine(<<"line", i>>)], zero_line |-> zero, message_count |-> n,
   conferences |-> [c \in 1 .. k |-> [number |-> 10 * c, name |-> TextLine(<<"name", c>>)]],
   screens |-> [i \in 1 .. 3 |-> TextLine(<<"screen", i>>)]]
Controls == {Control(NumberLine(z), n, k) : z \in {0, 7}, n \in {0, 999}, k \in 0 .. 3}

Init == input = [kind |-> "none"]

Take(S) == input.kind = "none" /\ input' \in S

Next ==
  \/ Take([kind : {"real"}, word : Words])
  \/ Take([kind : {"buffer"}, buf : Buffers])
  \/ Take([kind : {"password"}, set : Passwords, given : Passwords])
  \/ Take([kind : {"address"}, address : Addresses])
  \/ Take([kind : {"text"}, text : AddressTexts])
  \/ Take([kind : {"header"}, header : JamHeaders])
  \/ Take([kind : {"names"}, from : Contents, to : Contents, subject : Contents])
  \/ Take([kind : {"subfields"}, data : SubfieldData])
  \/ Take(Layouts)
  \/ Take([kind : {"status"}, msg : Statuses])
  \/ Take([kind : {"fold"}, headers : BoundedSeq(ExtendedOf, 4)])
  \/ Take([kind : {"qwk"}, msg : QwkMessages, long : {<< >>, <<"to", "subj">>}])
  \/ Take([kind : {"mail"}, starts : Starts, conference : BoundedSeq(1 .. 3, 3)])
  \/ Take([kind : {"control"}, control : Controls])

Spec == Init /\ [][Next]_input

\* The run whose packets this program writes itself.
WriteNext == Take([kind : {"written"}, msg : PlainMessages])
WriteSpec == Init /\ [][WriteNext]_input
-----------------------------------------------------------------------------
\* A number that goes through u32_to_basicreal and basicreal_to_u32 keeps its
\* sign and as many leading bits as a BASIC real has.
RealsKeepLeading == input.kind = "real" => KeepsLeading(input.word)

\* basicreal_to_u32 gives the whole part of what a word stands for.
RealsDecode == input.kind = "real" => DecodesWhole(input.word)

\* get_crc32, in rounds of 16 bytes and what they leave, is the CRC-32.
CrcOfBuffers == input.kind = "buffer" => CrcSlices(input.buf)

\* is_password_valid takes the password of create_with_password in any case
\* of its letters, and no other.
PasswordsHold == input.kind = "password" => PasswordAgrees(input.set, input.given)

\* EchomailAddress::parse gives back what is displayed.
AddressesRoundTrip == input.kind = "address" => AddressRoundTrip(input.address)

\* It accepts the texts of the grammar, and none with a part past u16.
AddressesParse == input.kind = "text" => AddressGrammar(input.text)

\* JamMessageHeader::read gives back what write has written, and the names a
\* JamMessage was built with.
HeadersRoundTrip ==
  /\ input.kind = "header" => HeaderRoundTrip(input.header)
  /\ input.kind = "names" => NamesReadBack(input.from, input.to, input.subject)

\* Subfields are accepted if they fill their data, and lose nothing.
SubfieldsFill == input.kind = "subfields" => SubfieldWalk(input.data)

\* PCBoardMessage::read finds every extended header and the text behind them.
BodiesRead == input.kind = "body" => BodyIsLaidOut(input.headers, input.text)

\* The JAM attributes of a PCBoard message say what its status says, but for
\* an unread comment to the sysop.
StatusesKept == input.kind = "status" => StatusKept(input.msg)

\* The recipient of a converted message is that of its extended headers.
RecipientsWhole ==
  input.kind = "fold" => RecipientWhole([to |-> <<9>>, from |-> <<9>>, subject |-> <<9>>], input.headers)

\* A message of a mail door's packet is read whole, with its kludges; a blank
\* line behind them becomes the first of its text.
DoorMessagesRead ==
  input.kind = "qwk" =>
    DoorMessageRead(IF input.long = << >> THEN input.msg ELSE Kludged(input.msg), input.long)

\* read_conference_mail gives the messages of the index.
ConferencesRead == input.kind = "mail" => ConferenceMailIs(input.starts, input.conference)

\* control.dat is read as it was written, but for zero_line.
ControlsRoundTrip == input.kind = "control" => ControlRoundTrip(input.control)

\* A message that is written is read back.  It is not: the numbers are
\* written at the right of their fields and read up to the first blank.
QwkWrittenReadBack == input.kind = "written" => WrittenReadBack(input.msg)
=============================================================================
