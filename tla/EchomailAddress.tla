-------------------------- MODULE EchomailAddress --------------------------
(***************************************************************************)
(* EchomailAddress, src/util/echmoail.rs: zone:net/node.point.  A text is  *)
(* a sequence of characters; a digit is the number it stands for.          *)
(***************************************************************************)
EXTENDS Integers, SequencesExt

CONSTANTS
  MaxPart,   \* the largest number a part holds: u16::MAX
  MaxDigit,  \* the largest digit: 9
  Separators \* the characters that end a zone, a net and a node: ":", "/", "."

ASSUME AddressAssumption ==
  /\ MaxPart \in Nat /\ MaxDigit \in Nat \ {0}
  /\ Separators \in Seq(Int) /\ Len(Separators) = 3
  /\ \A i \in 1 .. 3 : Separators[i] < 0

Digits == 0 .. MaxDigit
Addresses == [1 .. 4 -> 0 .. MaxPart] \* zone, net, node, point

\* The parts in the order of EchoParser's states; at is the state.
NoAddress == [at |-> 0, parts |-> <<0, 0, 0, 0>>, gotNumber |-> FALSE]
ParserStart == [NoAddress EXCEPT !.at = 1]

\* Mutant: a digit is added without a check, and the sum cut to its width.
Digit_Wraps(p, d) ==
  [p EXCEPT !.parts[p.at] = (@ * (MaxDigit + 1) + d) % (MaxPart + 1), !.gotNumber = TRUE]

\* checked_mul and checked_add.
Digit(p, d) ==
  LET next == p.parts[p.at] * (MaxDigit + 1) + d
  IN IF next > MaxPart THEN NoAddress
     ELSE [p EXCEPT !.parts[p.at] = next, !.gotNumber = TRUE]

EndPart(p) ==
  IF p.gotNumber THEN [p EXCEPT !.at = @ + 1, !.gotNumber = FALSE] ELSE NoAddress

\* One character; NoAddress stands for a parse that has returned None.
ParseChar(p, c) ==
  CASE p.at \in 1 .. 3 /\ c = Separators[p.at] -> EndPart(p)
    [] p.at \in 1 .. 4 /\ c \in Digits -> Digit(p, c)
    [] OTHER -> NoAddress

ParseAddress(text) ==
  LET p == FoldLeft(ParseChar, ParserStart, text)
  IN IF p.gotNumber /\ p.at \in {3, 4} THEN p ELSE NoAddress

\* Display leaves out a point of 0.
DigitsOf(n) ==
  LET f[m \in 0 .. n] == IF m <= MaxDigit THEN <<m>>
                         ELSE Append(f[m \div (MaxDigit + 1)], m % (MaxDigit + 1))
  IN f[n]

\* Mutant: without a point the node is left out, too.
DisplayParts_Net(a) == IF a[4] = 0 THEN 2 ELSE 4

DisplayParts(a) == IF a[4] = 0 THEN 3 ELSE 4

Display(a) ==
  FlattenSeq([i \in 1 .. DisplayParts(a) |->
                (IF i = 1 THEN << >> ELSE <<Separators[i - 1]>>) \o DigitsOf(a[i])])
-----------------------------------------------------------------------------
\* What is displayed is parsed as the same address.
AddressRoundTrip(a) == ParseAddress(Display(a)).parts = a

\* The number that a text of digits stands for.
NumberOf(text) == FoldLeft(LAMBDA n, d : n * (MaxDigit + 1) + d, 0, text)
IsNumber(text) == text # << >> /\ Range(text) \subseteq Digits /\ NumberOf(text) <= MaxPart

\* A text of k numbers with the separators between them, cut at the places cuts.
Part(text, cuts, i) ==
  SubSeq(text, (IF i = 1 THEN 0 ELSE cuts[i - 1]) + 1,
               IF i > Len(cuts) THEN Len(text) ELSE cuts[i] - 1)
Splits(text, k) ==
  {cuts \in [1 .. k - 1 -> DOMAIN text] :
     /\ \A i \in 1 .. k - 2 : cuts[i] < cuts[i + 1]
     /\ \A i \in 1 .. k - 1 : text[cuts[i]] = Separators[i]
     /\ \A i \in 1 .. k : IsNumber(Part(text, cuts, i))}

\* A text is an address exactly if it is three or four numbers that each fit
\* a part, with their separators between them; and those are its parts.
AddressGrammar(text) ==
  /\ ParseAddress(text) # NoAddress <=> Splits(text, 3) \cup Splits(text, 4) # {}
  /\ \A k \in {3, 4} : \A cuts \in Splits(text, k) :
       \A i \in 1 .. k : ParseAddress(text).parts[i] = NumberOf(Part(text, cuts, i))
=============================================================================
