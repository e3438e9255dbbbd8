----------------------------- MODULE MCJamBase -----------------------------
(* Small instances of JamBase for TLC. *)
EXTENDS JamBaseInductive, TLC

CONSTANTS h1, h2, ann, bob

\* Two names that share a CRC, and CRCs that are no offset of a header.
MCCrc == [n \in {ann, bob} |-> 100]
MCSeed == 101

ToAnn == [to |-> ann, txt |-> <<1>>, del |-> FALSE]
ToBob == [to |-> bob, txt |-> <<2, 3>>, del |-> FALSE]
ToNobody == [to |-> NoName, txt |-> <<4>>, del |-> TRUE]

TwoMsgs == {ToBob, ToNobody}
LiveMsgs == {ToAnn, ToBob}

Symmetry == Permutations({h1, h2})
=============================================================================
