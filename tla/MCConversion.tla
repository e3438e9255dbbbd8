---------------------------- MODULE MCConversion ----------------------------
(* Small instances of Conversion for TLC. *)
EXTENDS Conversion, SequencesExt

\* Messages of numbers 1 to 3, with and without a tail, that answer nothing,
\* themselves or each other, and one of number 0.
Msg(n, r) == [num |-> n, reply_to |-> r, del |-> n = 2, tail |-> n % 2, sound |-> TRUE,
             parses |-> TRUE]
SourceSet == {Msg(n, r) : n \in 1 .. 3, r \in 0 .. 3} \cup {Msg(0, 1)}
Unsound(t) == [Msg(1, 0) EXCEPT !.tail = t, !.sound = FALSE]
AllMsgs == SourceSet \cup {Unsound(0), Unsound(1), [Msg(1, 0) EXCEPT !.parses = FALSE]}
LateMsgs == {Msg(1, 0), Msg(2, 3)}

TwoMails == {<<Msg(3, 1), Msg(1, 0)>>, <<Msg(2, 0), Msg(2, 2)>>, << >>}

FileOf(ms) == FlattenSeq([i \in DOMAIN ms |-> FixedPart(ms[i]) \o TailPart(ms[i])])
HeadsOf(ms) == [i \in DOMAIN ms |-> [msg |-> ms[i], at |-> Len(FileOf(SubSeq(ms, 1, i - 1)))]]
MCInit == /\ \E n \in 0 .. 3 : \E ms \in [1 .. n -> AllMsgs] :
               file = FileOf(ms) /\ heads = HeadsOf(ms)
          /\ Init
MCSpec == MCInit /\ [][Next]_vars /\ WF_vars(Walk)
=============================================================================
