----------------------------- MODULE Conversion -----------------------------
(***************************************************************************)
(* convert_pcboard_to_jam and convert_qwk_to_jam, src/conversion: messages *)
(* are read from a PCBoard base, which may grow meanwhile, or come as a    *)
(* slice of QWK mails, and are written to a JAM base.  The JAM base is a   *)
(* JamLog, the promise that JamBase is shown to keep.  A reader that only  *)
(* walks a base, MessageIter, is here, too.                                *)
(*                                                                         *)
(* A message has a number num, the number reply_to of the one it answers,  *)
(* 0 for none, and del, its deleted flag.                                  *)
(***************************************************************************)
EXTENDS MessageIter, FiniteSets

CONSTANTS SourceMsgs, \* the messages of PCBoard bases; those of a JAM base are like them
          Mails       \* slices of QWK mails

ASSUME SourceAssumption ==
  /\ \A m \in SourceMsgs : m.num \in Nat /\ m.reply_to \in Nat /\ m.del \in BOOLEAN
  /\ {m \in Msgs : Readable(m)} \subseteq SourceMsgs
  /\ \E m \in SourceMsgs : ~m.del
  /\ \A ms \in Mails : ms \in Seq(SourceMsgs)

VARIABLES phase,        \* where the conversion is
          jam_messages, \* the messages by number: the code's BTreeMap
          message_ids,  \* the CRC of the message id by number
          reply_next,   \* the numbers of the replies that are still to be linked
          queue,        \* what is still to be written
          mails,        \* the slice that convert_qwk_to_jam was given
          dest,         \* the JAM base, a JamLog
          call, ret     \* its write_message in progress, and its last answer

maps == <<jam_messages, message_ids, reply_next>>
destVars == <<dest, call, ret>>
vars == <<fileVars, readVars, phase, maps, queue, mails, destVars>>

Me == "conversion"
JamMsgs == [num : Nat, reply_to : Nat, id : Nat, del : BOOLEAN, reply_crc : Nat, reply1st : Nat]
Dest == INSTANCE JamLog WITH Handles <- {Me}, Msgs <- JamMsgs, log <- dest

\* Mutant: the deleted flag is lost.
JamMsg_NoFlag(m, id) == [num |-> m.num, reply_to |-> m.reply_to, id |-> id, del |-> FALSE,
                         reply_crc |-> 0, reply1st |-> 0]

\* JamMessage::new gives each message an id of its own.
JamMsg(m, id) == [num |-> m.num, reply_to |-> m.reply_to, id |-> id, del |-> m.del,
                  reply_crc |-> 0, reply1st |-> 0]

\* What was in the JAM base before.
OldLog == <<[msg |-> JamMsg(CHOOSE m \in SourceMsgs : ~m.del, 0), deleted |-> FALSE]>>

Init ==
  /\ IterInit
  /\ phase = "none" /\ queue = << >> /\ mails = << >>
  /\ jam_messages = << >> /\ message_ids = << >> /\ reply_next = << >>
  /\ dest = OldLog
  /\ call = [h \in {Me} |-> Dest!NoCall]
  /\ ret = [h \in {Me} |-> Dest!Answer("none", 0, "none")]

\* The keys of a BTreeMap as its iterators give them.
Ascending(nums) == CHOOSE s \in [1 .. Cardinality(nums) -> nums] :
                     \A i, j \in DOMAIN s : i < j => s[i] < s[j]

\* Mutant: of two messages with one number the first is kept.
Insert_First(map, k, v) ==
  [n \in DOMAIN map \cup {k} |-> IF n \in DOMAIN map THEN map[n] ELSE v]

\* BTreeMap and HashMap insert: the later of two replaces the earlier.
Insert(map, k, v) == [n \in DOMAIN map \cup {k} |-> IF n = k THEN v ELSE map[n]]
-----------------------------------------------------------------------------
\* Mutant: the JAM base is created before the PCBoard base is read.
StartRead_Creates ==
  /\ phase = "none" /\ phase' = "read"
  /\ Begin("iter")
  /\ dest' = << >>
  /\ UNCHANGED <<maps, queue, mails, call, ret>>

StartRead ==
  /\ phase = "none" /\ phase' = "read"
  /\ Begin("iter")
  /\ UNCHANGED <<maps, queue, mails, destVars>>

\* A reader that is no conversion.
StartWalk ==
  /\ phase = "none" /\ phase' = "walk"
  /\ \E how \in {"iter", "scan"} : Begin(how)
  /\ UNCHANGED <<maps, queue, mails, destVars>>

Walk == phase = "walk" /\ Step /\ UNCHANGED <<phase, maps, queue, mails, destVars>>

\* One turn of the loop over iter: a message goes into both maps, an error
\* ends the conversion.  Cells of two messages make a message of any content.
ReadOne ==
  /\ phase = "read" /\ Step
  /\ LET item == items'[Len(items')]
     IN \/ mode' = "done" /\ phase' = "link" /\ UNCHANGED maps
        \/ mode' # "done" /\ item = Err /\ phase' = "failed" /\ UNCHANGED maps
        \/ /\ mode' # "done" /\ item # Err /\ UNCHANGED phase
           /\ \E m \in IF item = Garbage THEN SourceMsgs ELSE {item.msg} :
                LET new == JamMsg(m, Len(items'))
                IN /\ jam_messages' = Insert(jam_messages, m.num, new)
                   /\ message_ids' = Insert(message_ids, m.num, new.id)
           /\ UNCHANGED reply_next
  /\ UNCHANGED <<queue, mails, destVars>>

\* Mutant: only messages that came before are looked for.
IsReply_Back(n, r) == r # 0 /\ r < n /\ r \in DOMAIN message_ids

\* The message of number n replies to one of number r that is there.
IsReply(n, r) == r # 0 /\ r # n /\ r \in DOMAIN message_ids

\* The first pass, over the messages in the order of their numbers, gives
\* each reply the id of the message it answers and notes its number.
LinkCrcs ==
  /\ phase = "link" /\ phase' = "reply1st"
  /\ LET replies == {n \in DOMAIN jam_messages : IsReply(n, jam_messages[n].reply_to)}
     IN /\ jam_messages' = [n \in DOMAIN jam_messages |->
             IF n \in replies
             THEN [jam_messages[n] EXCEPT !.reply_crc = message_ids[jam_messages[n].reply_to]]
             ELSE jam_messages[n]]
        /\ reply_next' = Ascending(replies)
  /\ UNCHANGED <<fileVars, readVars, message_ids, queue, mails, destVars>>

\* Mutant: the last reply is kept.
FirstReply_Last(n) == [jam_messages EXCEPT ![jam_messages[n].reply_to].reply1st = n]

\* A reply is noted with the message it answers unless one is noted already.
FirstReply(n) ==
  LET r == jam_messages[n].reply_to
  IN IF jam_messages[r].reply1st # 0 THEN jam_messages
     ELSE [jam_messages EXCEPT ![r].reply1st = n]

\* One turn of the second pass, over the replies.
LinkReply ==
  /\ phase = "reply1st"
  /\ \/ reply_next = << >> /\ phase' = "create" /\ UNCHANGED <<reply_next, jam_messages>>
     \/ /\ reply_next # << >> /\ UNCHANGED phase
        /\ reply_next' = Tail(reply_next)
        /\ jam_messages' = FirstReply(Head(reply_next))
  /\ UNCHANGED <<fileVars, readVars, message_ids, queue, mails, destVars>>

\* JamMessageBase::create empties a base that is there, file by file, and opens
\* it.  A step of it that fails ends the conversion; the old messages are there
\* still or are gone.
Create ==
  /\ phase = "create"
  /\ \/ /\ phase' = "write" /\ dest' = << >>
        /\ LET nums == Ascending(DOMAIN jam_messages)
           IN queue' = [i \in DOMAIN nums |-> jam_messages[nums[i]]]
     \/ phase' = "failed" /\ dest' \in {dest, << >>} /\ UNCHANGED queue
  /\ UNCHANGED <<fileVars, readVars, maps, mails, call, ret>>

\* convert_qwk_to_jam adds to an open base.  The mails' texts and their
\* references to other mails are left behind.
StartQwk ==
  /\ phase = "none" /\ phase' = "write"
  /\ mails' \in Mails
  /\ queue' = [i \in DOMAIN mails' |-> JamMsg([mails'[i] EXCEPT !.reply_to = 0], i)]
  /\ UNCHANGED <<fileVars, readVars, maps, destVars>>

Write ==
  /\ phase = "write"
  /\ \/ /\ queue # << >> /\ call[Me] = Dest!NoCall
        /\ call' = [h \in {Me} |-> [op |-> "write", msg |-> Head(queue)]]
        /\ UNCHANGED <<phase, queue, dest, ret>>
     \/ Dest!Written(Me) /\ queue' = Tail(queue) /\ UNCHANGED phase
     \/ call[Me] # Dest!NoCall /\ Dest!Failed(Me) /\ ret'[Me].op = "write"
        /\ phase' = "failed" /\ UNCHANGED queue
  /\ UNCHANGED <<fileVars, readVars, maps, mails>>

\* write_jhr_header.
Flush ==
  /\ phase = "write" /\ queue = << >>
  /\ phase' \in {"done", "failed"}
  /\ UNCHANGED <<fileVars, readVars, maps, queue, mails, destVars>>

Others == Grow /\ UNCHANGED <<phase, maps, queue, mails, destVars>>

Next == \/ StartRead \/ StartWalk \/ Walk \/ ReadOne \/ LinkCrcs \/ LinkReply \/ Create
        \/ StartQwk \/ Write \/ Flush \/ Others

\* A reader that walks a base does not stop on the way.
Spec == Init /\ [][Next]_vars /\ WF_vars(Walk)
-----------------------------------------------------------------------------
\* A walk with iter comes to its end, whatever is in the file and however it
\* grows: every item moves it on, an error too.
WalkEnds == (phase = "walk" /\ mode = "iter") ~> (mode = "done")

\* What a conversion is to write, by the items it has got: of the messages of
\* a number the last, in the order of the numbers; QWK mails as they come.
LastOf(n) == CHOOSE i \in DOMAIN items :
               /\ items[i].msg.num = n
               /\ \A j \in DOMAIN items : items[j].msg.num = n => j =< i
Meant ==
  IF mode = "none"
  THEN [i \in 1 .. 1 + Len(mails) |->
          IF i = 1 THEN <<OldLog[1].msg.num, 0, OldLog[1].deleted>>
          ELSE <<mails[i - 1].num, i - 1, mails[i - 1].del>>]
  ELSE LET nums == Ascending({items[i].msg.num : i \in DOMAIN items})
       IN [i \in DOMAIN nums |->
             <<nums[i], LastOf(nums[i]), items[LastOf(nums[i])].msg.del>>]
Arrived == [i \in DOMAIN dest |-> <<dest[i].msg.num, dest[i].msg.id, dest[i].deleted>>]

\* Each message arrives once and in order; a conversion that fails while it
\* writes leaves the first of them.
ArriveInOrder ==
  InStep /\ (phase \in {"write", "done"} \/ (phase = "failed" /\ ret[Me].op # "none")) =>
    /\ Len(Arrived) <= Len(Meant) /\ \A i \in DOMAIN Arrived : Arrived[i] = Meant[i]
    /\ phase = "done" => Len(Arrived) = Len(Meant)

\* In the new base a reply carries the id of the message that has the number
\* it answers, before it or after it, and no other message does.
RepliesLinked ==
  phase = "done" /\ mode = "done" => \A i \in DOMAIN dest :
    LET m == dest[i].msg
        answered == {j \in DOMAIN dest \ {i} : dest[j].msg.num = m.reply_to}
    IN IF m.reply_to = 0 \/ answered = {} THEN m.reply_crc = 0
       ELSE \A j \in answered : m.reply_crc = dest[j].msg.id

\* A message that was answered leads to the reply with the least number; a
\* message of number 0 is no reply and has none.
FirstReplyFirst ==
  phase = "done" /\ mode = "done" => \A i \in DOMAIN dest :
    LET n == dest[i].msg.num
        replies == {dest[j].msg.num : j \in {k \in DOMAIN dest \ {i} : dest[k].msg.reply_to = n}}
        first == dest[i].msg.reply1st
    IN IF n = 0 \/ replies \subseteq {0} THEN first = 0
       ELSE first \in replies \ {0} /\ \A r \in replies \ {0} : first =< r

\* A PCBoard base that cannot be read to its end costs the JAM base nothing.
SourceReadFirst ==
  phase = "failed" /\ Err \in {items[i] : i \in DOMAIN items} => dest = OldLog
-----------------------------------------------------------------------------
\* What these properties rest on.
Before == {"none", "walk", "read", "link", "reply1st", "create"}
Writing == phase \in {"write", "done"} \/ (phase = "failed" /\ ret[Me].op # "none")

Phases ==
  /\ phase \in Before \cup {"write", "done", "failed"}
  /\ phase = "none" => mode = "none"
  /\ phase = "read" => mode = "iter"
  /\ phase \in {"link", "reply1st", "create"} => mode = "done"
  /\ Writing => mode \in {"none", "done"}

\* Nothing is written before all is read.
SourceFirst ==
  /\ phase \in Before => dest = OldLog /\ ret[Me].op = "none"
  /\ (phase \in Before \ {"walk"} \/ Writing) => \A i \in DOMAIN items : items[i] # Err
  /\ phase = "failed" /\ ~Writing => dest = OldLog \/ \A i \in DOMAIN items : items[i] # Err

\* The call under way writes the first message of the queue.
CallOK ==
  /\ call \in [{Me} -> {Dest!NoCall} \cup Dest!WriteCalls] /\ ret \in [{Me} -> Dest!Answers]
  /\ call[Me] # Dest!NoCall => phase = "write" /\ queue # << >> /\ call[Me].msg = Head(queue)

MapsOK ==
  LET nums == DOMAIN jam_messages
  IN /\ nums \in SUBSET Nat /\ IsFiniteSet(nums)
     /\ jam_messages \in [nums -> JamMsgs] /\ message_ids \in [nums -> Nat]
     /\ \A n \in nums : jam_messages[n].num = n /\ message_ids[n] = jam_messages[n].id
     /\ phase = "none" => nums = {}
     /\ phase \in {"read", "link"} =>
          \A n \in nums : jam_messages[n].reply_crc = 0 /\ jam_messages[n].reply1st = 0

\* The map has the last message of each number.
LastKept ==
  InStep /\ mode # "none" /\ (phase \in Before \ {"walk"} \/ Writing) =>
    /\ DOMAIN jam_messages = {items[i].msg.num : i \in DOMAIN items}
    /\ \A n \in DOMAIN jam_messages : LET m == jam_messages[n]
         IN /\ m.id \in DOMAIN items /\ items[m.id].msg.num = n
            /\ \A j \in DOMAIN items : items[j].msg.num = n => j <= m.id
            /\ m.del = items[m.id].msg.del

\* Of the replies all but those of reply_next have been noted.
Replies == {n \in DOMAIN jam_messages : IsReply(n, jam_messages[n].reply_to)}
Awaited == {reply_next[i] : i \in DOMAIN reply_next}
LinkInv ==
  phase \in {"reply1st", "create"} \/ (Writing /\ mode = "done") =>
    /\ phase # "reply1st" => reply_next = << >>
    /\ reply_next \in Seq(Replies)
    /\ \A i, j \in DOMAIN reply_next : i < j => reply_next[i] < reply_next[j]
    /\ \A r \in Replies \ Awaited, w \in Awaited : r < w
    /\ \A n \in DOMAIN jam_messages : LET m == jam_messages[n]
         IN /\ m.reply_crc = IF n \in Replies THEN message_ids[m.reply_to] ELSE 0
            /\ LET noted == {r \in Replies \ (Awaited \cup {0}) : jam_messages[r].reply_to = n}
               IN IF noted = {} THEN m.reply1st = 0
                  ELSE m.reply1st \in noted /\ \A r \in noted : m.reply1st <= r

\* The messages that have been written and those of the queue are, one behind
\* the other, what is to be written.
Queued(i, m) ==
  IF mode = "none" THEN <<m.num, m.id, m.del>> = Meant[i]
  ELSE m = jam_messages[Ascending(DOMAIN jam_messages)[i]]
WriteInv ==
  /\ dest \in Seq(Dest!Entries) /\ queue \in Seq(JamMsgs)
  /\ mails \in Seq(SourceMsgs)
  /\ phase = "done" => queue = << >>
  /\ Writing =>
       /\ Len(dest) + Len(queue) = IF mode = "none" THEN 1 + Len(mails)
                                   ELSE Cardinality(DOMAIN jam_messages)
       /\ \A i \in DOMAIN dest : Queued(i, dest[i].msg) /\ dest[i].deleted = dest[i].msg.del
       /\ \A i \in DOMAIN queue : Queued(Len(dest) + i, queue[i])

\* What holds of a walk, of the maps of a conversion and of what it has written.
ConvInv ==
  /\ IterTypeOK /\ LaidOut /\ WalkInv
  /\ Phases /\ SourceFirst /\ CallOK /\ MapsOK /\ LastKept /\ LinkInv /\ WriteInv
=============================================================================
