----------------------------- MODULE MessageIter -----------------------------
(***************************************************************************)
(* How the messages of a base are walked while others append to the file:  *)
(* JamMessageBase::iter, read_headers and read_last_read_file,             *)
(* src/jam/mod.rs, and PCBoardMessageBase::iter and read_index,            *)
(* src/pcboard/mod.rs.  The file is a sequence of cells.  A message is a   *)
(* fixed part of Fixed cells, which says how long the message is, and its  *)
(* tail; an append brings the two one after the other, or the first alone  *)
(* when the program dies.                                                  *)
(***************************************************************************)
EXTENDS Integers, Sequences

CONSTANTS Fixed,     \* cells of the fixed part
          Msgs,      \* messages; field tail is the length of the tail, sound and
                     \* parses say whether the fixed part and the tail can be
                     \* understood
          NewMsgs,   \* those that are appended
          MaxCells   \* bound on the cells of a file that is appended to

NoMsg == [none |-> TRUE]

ASSUME FixedAssumption == Fixed \in Nat \ {0} /\ MaxCells \in Nat
ASSUME MsgsAssumption == /\ \A m \in Msgs : m.tail \in Nat /\ {m.sound, m.parses} \subseteq BOOLEAN
                         /\ NewMsgs \subseteq Msgs /\ NoMsg \notin Msgs

VARIABLES file,      \* the cells behind the base's own header
          growing,   \* the message of which the fixed part has been appended, if any
          heads,     \* history: the messages whose first cell is in the file, and
                     \* the number of cells before it
          broken,    \* history: an append was cut short
          mode,      \* how the reader walks: "iter", "scan"; "done"; "none" before
          size,      \* the size of the file when iter was called
          pos,       \* the position of the reader
          items,     \* what the reader has got: messages and errors
          owed       \* history: the whole messages there were when it began

fileVars == <<file, growing, heads, broken>>
readVars == <<mode, size, pos, items, owed>>

Err == [ok |-> FALSE]
Item(m) == [ok |-> TRUE, msg |-> m]
\* Read from cells that are not those of one message.
Garbage == [ok |-> TRUE, garbage |-> TRUE]

Cell(m, i) == [msg |-> m, part |-> i]
Length(m) == Fixed + m.tail
FixedPart(m) == [i \in 1 .. Fixed |-> Cell(m, i)]
TailPart(m) == [i \in 1 .. m.tail |-> Cell(m, Fixed + i)]

\* Where message i ends, when no append was cut short.
End(i) == IF i = 0 THEN 0 ELSE heads[i].at + Length(heads[i].msg)

\* Each message begins where the one before it ends, and its cells are there
\* as far as the file goes.
Laid == \A i \in DOMAIN heads :
          /\ heads[i].at = End(i - 1)
          /\ \A j \in 1 .. Length(heads[i].msg) :
               heads[i].at + j <= Len(file) => file[heads[i].at + j] = Cell(heads[i].msg, j)

Files == Seq([msg : Msgs, part : Nat])
HeadLists == Seq([msg : Msgs, at : Nat])

IterInit ==
  /\ file \in Files /\ heads \in HeadLists
  /\ Laid /\ Len(file) = End(Len(heads))
  /\ growing = NoMsg /\ broken = FALSE
  /\ mode = "none" /\ size = 0 /\ pos = 0 /\ items = << >> /\ owed = 0

\* The other programs.
Grow ==
  /\ \/ /\ growing = NoMsg
        /\ \E m \in NewMsgs : /\ Len(file) + Length(m) <= MaxCells
                              /\ growing' = m /\ file' = file \o FixedPart(m)
                              /\ heads' = Append(heads, [msg |-> m, at |-> Len(file)])
        /\ UNCHANGED broken
     \/ /\ growing # NoMsg
        /\ growing' = NoMsg
        /\ \/ file' = file \o TailPart(growing) /\ UNCHANGED broken
           \/ UNCHANGED file /\ broken' = (broken \/ growing.tail > 0)
        /\ UNCHANGED heads
  /\ UNCHANGED readVars
-----------------------------------------------------------------------------
\* The messages that are whole, when no append was cut short.
WholeCount == Len(heads) - (IF growing = NoMsg THEN 0 ELSE 1)

\* The reader opens the file; iter takes its size.
Begin(how) ==
  /\ mode = "none"
  /\ mode' = how
  /\ size' = Len(file) /\ pos' = 0 /\ items' = << >>
  /\ owed' = WholeCount
  /\ UNCHANGED fileVars

\* Mutant: the end of the file is looked up again each time.
AtEnd_Live == pos >= Len(file)

\* The size at the time of the call bounds the walk.
AtEnd == pos >= size

\* n cells of one message, from its first, stand at pos.
Aligned(n) == \A i \in 1 .. n : file[pos + i] = Cell(file[pos + 1].msg, i)

\* Mutant: a header that is not understood is left where it is.
AfterRefused_Stays == pos

\* The bytes of a header that is not understood have been consumed.
AfterRefused == pos + Fixed

\* Both parts can be understood.
Readable(m) == m.sound /\ m.parses

\* What comes out of a message: itself, or an error for a part that cannot be
\* understood.
Given(m) == IF Readable(m) THEN Item(m) ELSE Err

\* JamMessageHeader::read and PCBoardMessage::read: what comes out, and where
\* the reader stands then.  A read_exact that meets the end of the file has
\* consumed what there was; a tail, subfields or extended headers, has been
\* consumed before it is looked at.
Outcomes ==
  IF pos + Fixed > Len(file) THEN {<<Err, Len(file)>>}
  ELSE IF ~Aligned(Fixed) THEN {Err, Garbage} \X (pos + Fixed .. Len(file))
  ELSE LET m == file[pos + 1].msg
           end == pos + Length(m)
       IN IF ~m.sound THEN {<<Err, AfterRefused>>}
          ELSE IF end > Len(file) THEN {<<Err, Len(file)>>}
          ELSE (IF Aligned(Length(m)) THEN {Given(m)} ELSE {Err, Garbage}) \X {end}

\* Mutant: the walk of iter ends at an error, too.
Ends_AtError == \/ mode = "iter" /\ AtEnd
                \/ items # << >> /\ items[Len(items)] = Err

\* iter goes on behind an error until it is past the size it was given; the
\* loops "while let Ok" know no size and end at an error, as there is one at
\* the end of the file.
Ends == \/ mode = "iter" /\ AtEnd
        \/ mode = "scan" /\ items # << >> /\ items[Len(items)] = Err

\* One call of next, or one turn of a loop.  (items has no more entries than
\* the file has cells.)
Step ==
  /\ mode \in {"iter", "scan"}
  /\ IF Ends THEN mode' = "done" /\ UNCHANGED <<pos, items>>
     ELSE /\ UNCHANGED mode
          /\ \E outcome \in Outcomes :
               /\ items' = IF Len(items) > Len(file) THEN items ELSE Append(items, outcome[1])
               /\ pos' = outcome[2]
  /\ UNCHANGED <<fileVars, size, owed>>
-----------------------------------------------------------------------------
\* No append was cut short, and no message of which the fixed part is not
\* understood has a tail.  Behind either the reader is out of step for good.
InStep == ~broken /\ \A i \in DOMAIN heads : heads[i].msg.sound \/ heads[i].msg.tail = 0

\* What the walk gives is message by message what is in the file, in the order
\* of the file; nothing but its last item, an error, can stand for a message
\* that was being written.
WalkInOrder ==
  InStep => \A i \in DOMAIN items :
    \/ i <= Len(heads) /\ items[i] = Given(heads[i].msg)
    \/ i = Len(items) /\ i > owed /\ items[i] = Err

\* A walk with iter that ends has given every message that was whole when it
\* began, or the error of one that cannot be read; a loop "while let Ok" that
\* ends before has met such an error.
WalkComplete ==
  [][InStep /\ mode \in {"iter", "scan"} /\ mode' = "done" =>
       \/ Len(items) >= owed
       \/ mode = "scan" /\ items # << >> /\ ~Readable(heads[Len(items)].msg)
    ]_<<fileVars, readVars>>
-----------------------------------------------------------------------------
\* What WalkInOrder and WalkComplete rest on.
Items == {Err, Garbage} \cup {Item(m) : m \in {x \in Msgs : Readable(x)}}
IterTypeOK ==
  /\ file \in Files /\ heads \in HeadLists
  /\ growing \in {NoMsg} \cup Msgs /\ broken \in BOOLEAN
  /\ growing # NoMsg => heads # << >>
  /\ mode \in {"none", "iter", "scan", "done"}
  /\ size \in Nat /\ pos \in Nat /\ items \in Seq(Items) /\ owed \in Nat
  /\ mode = "none" => items = << >>

\* Nothing but the tail of the message that is being appended is missing.
LaidOut ==
  ~broken =>
    /\ Laid
    /\ growing # NoMsg => heads[Len(heads)].msg = growing
    /\ Len(file) = End(Len(heads)) - (IF growing = NoMsg THEN 0 ELSE growing.tail)

\* The first n messages have been given.
Walked(n) == n <= Len(heads) /\ \A i \in 1 .. n : items[i] = Given(heads[i].msg)

EndsInErr == items # << >> /\ items[Len(items)] = Err

\* The reader stands behind the messages it has given, or has met the end of
\* the file in a message that was not whole when it began.
ReaderStands ==
  \/ Walked(Len(items)) /\ pos = End(Len(items))
  \/ /\ EndsInErr /\ Walked(Len(items) - 1)
     /\ Len(items) > owed /\ pos >= size

WalkInv ==
  InStep /\ mode # "none" =>
    /\ owed <= WholeCount /\ size <= Len(file) /\ \A i \in 1 .. owed : End(i) <= size
    /\ ReaderStands
=============================================================================
