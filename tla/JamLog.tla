------------------------------- MODULE JamLog -------------------------------
(***************************************************************************)
(* What a JAM message base promises to the programs that share it: an      *)
(* append-only log of messages, each with a deleted flag.  A call takes    *)
(* its whole effect in the step in which it returns, or leaves the log as  *)
(* it was.  Files, offsets and index records do not appear here; JamBase   *)
(* is shown to implement this.                                             *)
(***************************************************************************)
EXTENDS Integers, Sequences

CONSTANTS Handles,  \* the JamMessageBase values that programs have open
          Msgs      \* the messages; field del is the flag one is written with

VARIABLES log,      \* the messages in the order of their numbers
          call,     \* the call each handle is in the middle of
          ret       \* what the last message call of each handle returned

vars == <<log, call, ret>>

FlagOps == {"delete", "restore"}
Records == Nat \ {0}
NoCall == [op |-> "none"]
WriteCalls == [op : {"write"}, msg : Msgs]
FlagCalls == [op : FlagOps, record : Records]
Entries == [msg : Msgs, deleted : BOOLEAN]
Answers == [op : {"none", "write"} \cup FlagOps, record : Nat,
            result : {"none", "ok", "err"}]
Answer(op, r, res) == [op |-> op, record |-> r, result |-> res]

TypeOK ==
  /\ log \in Seq(Entries)
  /\ call \in [Handles -> {NoCall} \cup WriteCalls \cup FlagCalls]
  /\ ret \in [Handles -> Answers]

Init ==
  /\ log = << >>
  /\ call = [h \in Handles |-> NoCall]
  /\ ret = [h \in Handles |-> Answer("none", 0, "none")]

Return(h, a) ==
  /\ call' = [call EXCEPT ![h] = NoCall]
  /\ ret' = [ret EXCEPT ![h] = a]

\* The flag that a delete or a restore asks for.
Wanted(op) == op = "delete"

Flag(c) == /\ c.record \in DOMAIN log
           /\ log' = [log EXCEPT ![c.record].deleted = Wanted(c.op)]

Start(h) ==
  /\ call[h] = NoCall
  /\ \/ \E m \in Msgs : call' = [call EXCEPT ![h] = [op |-> "write", msg |-> m]]
     \/ \E op \in FlagOps, r \in DOMAIN log :
          call' = [call EXCEPT ![h] = [op |-> op, record |-> r]]
  /\ ret' = [ret EXCEPT ![h] = Answer("none", 0, "none")]
  /\ UNCHANGED log

\* A write that returns Ok has put its message at the end of the log.
Written(h) ==
  /\ call[h] \in WriteCalls
  /\ log' = Append(log, [msg |-> call[h].msg, deleted |-> call[h].msg.del])
  /\ Return(h, Answer("write", 0, "ok"))

\* A delete or a restore that returns Ok has set the flag of its message ...
Flagged(h) ==
  /\ call[h] \in FlagCalls
  /\ Flag(call[h])
  /\ Return(h, Answer(call[h].op, call[h].record, "ok"))

\* ... or found it set.
AlreadyFlagged(h) ==
  /\ call[h] = NoCall
  /\ \E op \in FlagOps, r \in DOMAIN log :
       /\ log[r].deleted = Wanted(op)
       /\ Return(h, Answer(op, r, "ok"))
  /\ UNCHANGED log

\* A call that ends without an answer, or with Err, leaves the log as it was,
\* but the interrupted rewrite of a header may have set its flag before.
Interrupted(h) ==
  \/ UNCHANGED log
  \/ call[h] \in FlagCalls /\ Flag(call[h])

Failed(h) ==
  /\ Interrupted(h)
  /\ \E op \in {"write"} \cup FlagOps : Return(h, Answer(op, 0, "err"))

\* The handle is opened, or dies with its process.
Reset(h) ==
  /\ Interrupted(h)
  /\ Return(h, Answer("none", 0, "none"))

Next == \E h \in Handles : \/ Start(h)
                           \/ Written(h)
                           \/ Flagged(h)
                           \/ AlreadyFlagged(h)
                           \/ Failed(h)
                           \/ Reset(h)

Spec == Init /\ [][Next]_vars
=============================================================================
