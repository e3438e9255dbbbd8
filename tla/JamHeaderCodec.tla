--------------------------- MODULE JamHeaderCodec ---------------------------
(***************************************************************************)
(* How a JamMessageHeader is written and read, src/jam/msg_header.rs, and  *)
(* built, JamMessage in src/jam/mod.rs.  A file is a sequence of bytes; a  *)
(* byte is below ByteValues, a word of four bytes below WordValues.        *)
(***************************************************************************)
EXTENDS Integers, SequencesExt

CONSTANTS ByteValues,    \* 256
          JAM_SIGNATURE  \* the four bytes a header starts with

ASSUME CodecAssumption ==
  /\ ByteValues \in Nat /\ ByteValues > 6 \* 2204 is a word
  /\ JAM_SIGNATURE \in [1 .. 4 -> 0 .. ByteValues - 1]

WordValues == ByteValues * ByteValues * ByteValues * ByteValues
LeBytes(n, k) ==
  LET rest[i \in 0 .. k] == IF i = 0 THEN n ELSE rest[i - 1] \div ByteValues
  IN [i \in 1 .. k |-> rest[i - 1] % ByteValues]
\* convert_u16, convert_u32: the word of k bytes at the head of data.
LeWord(data, k) == FoldRight(LAMBDA b, n : b + ByteValues * n, SubSeq(data, 1, k), 0)
DropBytes(data, k) == SubSeq(data, k + 1, Len(data))

FIXED_HEADER_SIZE == 76
SubfieldHead == 8

\* The words of the fixed header after the length of the subfields.
Fields ==
  <<"times_read", "msgid_crc", "replycrc", "reply_to", "reply1st", "replynext", "date_written",
    "date_received", "date_processed", "message_number", "attributes", "attributes2", "offset",
    "txt_len", "password_crc", "cost">>

\* JamMessageHeader: the fields by their names.
HeaderOf(words, sub_fields) ==
  [f \in Range(Fields) \cup {"sub_fields"} |-> IF f = "sub_fields" THEN sub_fields ELSE words[f]]

\* SubfieldType: a name for each code that is known, the code for others.
KnownTypes == {
  <<0, "Address0">>, <<1, "AddressD">>, <<2, "SenderName">>, <<3, "RecvName">>, <<4, "MsgID">>,
  <<5, "ReplyID">>, <<6, "Subject">>, <<7, "PID">>, <<8, "Trace">>, <<9, "EnclFile">>,
  <<10, "EnclFwAlias">>, <<11, "EnclFreq">>, <<12, "EnclFieleWc">>, <<13, "EnclIndFile">>,
  <<1000, "EmbInDat">>, <<2000, "FTSKludge">>, <<2001, "SeenBy2D">>, <<2002, "Path2D">>,
  <<2003, "Flags">>, <<2204, "TZUTCInfo">>}
Unknown(code) == [unknown |-> code]

TypeFrom(code) ==
  IF \E t \in KnownTypes : t[1] = code
  THEN [known |-> (CHOOSE t \in KnownTypes : t[1] = code)[2]] ELSE Unknown(code)

CodeOf(type) ==
  IF "known" \in DOMAIN type THEN (CHOOSE t \in KnownTypes : t[2] = type.known)[1]
  ELSE type.unknown

Subfield(type, content) == [type |-> type, content |-> content]
SubfieldBytes(sf) == LeBytes(CodeOf(sf.type), 4) \o LeBytes(Len(sf.content), 4) \o sf.content
SubfieldsBytes(sub_fields) ==
  FlattenSeq([i \in DOMAIN sub_fields |-> SubfieldBytes(sub_fields[i])])
SubfieldLen(sub_fields) ==
  FoldLeft(LAMBDA n, sf : n + SubfieldHead + Len(sf.content), 0, sub_fields)

WriteHeader(h) ==
  JAM_SIGNATURE \o LeBytes(1, 2) \o LeBytes(0, 2) \o LeBytes(SubfieldLen(h.sub_fields), 4)
    \o FlattenSeq([i \in DOMAIN Fields |-> LeBytes(h[Fields[i]], 4)])
    \o SubfieldsBytes(h.sub_fields)

ReadErr == [ok |-> FALSE]

\* Mutant: a subfield must not reach the end of the data.
SubfieldFits_Before(data, len) == SubfieldHead + len < Len(data)

\* MessageSubfield::deserialize finds a head at data and all of its content.
SubfieldFits(data, len) == SubfieldHead + len <= Len(data)

\* The loop over the subfields, from each byte idx on.
SubfieldsFrom(data) ==
  LET walk[idx \in 0 .. Len(data)] ==
        LET rest == DropBytes(data, idx)
            len == LeWord(DropBytes(rest, 4), 4)
        IN CASE rest = << >> -> [ok |-> TRUE, sub_fields |-> << >>]
             [] Len(rest) \in 1 .. SubfieldHead - 1 -> ReadErr
             [] OTHER ->
                  IF ~SubfieldFits(rest, len) THEN ReadErr
                  ELSE LET more == walk[idx + SubfieldHead + len]
                       IN IF ~more.ok THEN ReadErr
                          ELSE [more EXCEPT !.sub_fields =
                                  <<Subfield(TypeFrom(LeWord(rest, 4)),
                                             SubSeq(rest, SubfieldHead + 1, SubfieldHead + len))>> \o @]
  IN walk

ReadSubfields(data) == SubfieldsFrom(data)[0]

\* Mutant: the two words of attributes are taken in the other order.
FieldAt_Swapped(data, i) ==
  LeWord(DropBytes(data, 8 + 4 * (IF i = 11 THEN 12 ELSE IF i = 12 THEN 11 ELSE i)), 4)

\* The fields stand one after the other behind the length of the subfields.
FieldAt(data, i) == LeWord(DropBytes(data, 8 + 4 * i), 4)

\* JamMessageHeader::read at the head of data.
ReadJamHeader(data) ==
  LET len == LeWord(DropBytes(data, 8), 4)
      subs == ReadSubfields(SubSeq(data, FIXED_HEADER_SIZE + 1, FIXED_HEADER_SIZE + len))
      words == [f \in Range(Fields) |-> FieldAt(data, CHOOSE i \in DOMAIN Fields : Fields[i] = f)]
  IN CASE Len(data) < FIXED_HEADER_SIZE -> ReadErr
       [] Len(data) >= FIXED_HEADER_SIZE ->
            IF \/ SubSeq(data, 1, 4) # JAM_SIGNATURE
               \/ LeWord(DropBytes(data, 4), 2) # 1
               \/ FIXED_HEADER_SIZE + len > Len(data)
               \/ ~subs.ok
            THEN ReadErr
            ELSE [ok |-> TRUE, header |-> HeaderOf(words, subs.sub_fields)]

\* JamMessageHeader::default, and JamMessage::new for a message id.
CrcSeedWord == WordValues - 1
DefaultHeader ==
  HeaderOf([f \in Range(Fields) |->
              IF f \in {"msgid_crc", "replycrc", "password_crc"} THEN CrcSeedWord ELSE 0], << >>)
NewMessage(number, id, idCrc, now) ==
  [DefaultHeader EXCEPT !.message_number = number, !.msgid_crc = idCrc, !.date_written = now,
                        !.sub_fields = <<Subfield([known |-> "MsgID"], id)>>]

\* with_from, with_to and with_subject each put one subfield behind the others.
WithSubfield(h, type, content) ==
  [h EXCEPT !.sub_fields = Append(@, Subfield([known |-> type], content))]

\* get_to, get_from and get_subject take the first subfield of their type.
SelectSubfield(h, type) ==
  h.sub_fields[SelectInSeq(h.sub_fields, LAMBDA sf : sf.type = [known |-> type])].content
-----------------------------------------------------------------------------
\* A header whose subfields have the types their codes stand for is read back
\* as it was written.
HeaderRoundTrip(h) ==
  LET r == ReadJamHeader(WriteHeader(h)) IN r.ok /\ r.header = h

\* A message that is built, written and read has the names it was built with.
NamesReadBack(from, to, subject) ==
  LET named == WithSubfield(WithSubfield(WithSubfield(NewMessage(1, <<1>>, 2, 3),
                 "SenderName", from), "RecvName", to), "Subject", subject)
      header == ReadJamHeader(WriteHeader(named)).header
  IN /\ SelectSubfield(header, "SenderName") = from
     /\ SelectSubfield(header, "RecvName") = to
     /\ SelectSubfield(header, "Subject") = subject

\* The data is a row of subfields with contents of the lengths lens.
IsRow(data, lens) ==
  LET start[i \in 1 .. Len(lens) + 1] ==
        IF i = 1 THEN 0 ELSE start[i - 1] + SubfieldHead + lens[i - 1]
  IN /\ start[Len(lens) + 1] = Len(data)
     /\ \A i \in DOMAIN lens : LeWord(DropBytes(data, start[i] + 4), 4) = lens[i]

Cuttable(data) ==
  \E n \in 0 .. Len(data) \div SubfieldHead :
    \E lens \in [1 .. n -> 0 .. Len(data) - n * SubfieldHead] : IsRow(data, lens)

\* Subfield data is accepted exactly if it is a row of whole subfields, with
\* none of its bytes left; and what it is read as stands for the same bytes,
\* whether the types are known or not.
SubfieldWalk(data) ==
  LET r == ReadSubfields(data)
  IN /\ r.ok <=> Cuttable(data)
     /\ r.ok => SubfieldsBytes(r.sub_fields) = data
=============================================================================
