---------------------------- MODULE JamLifecycle ----------------------------
(***************************************************************************)
(* The four files of a JAM message base, from create to                    *)
(* delete_message_base, src/jam/mod.rs, and the last-read file of its      *)
(* users, find_last_read and src/jam/last_read_storage.rs.  One action is  *)
(* one file operation; a program may fail or die between any two.  What    *)
(* is in the header, text and index files is the matter of JamBase; here   *)
(* they are there or not.                                                  *)
(***************************************************************************)
EXTENDS Integers, Sequences

CONSTANTS Handles,   \* the JamMessageBase values of the programs
          Users,     \* the CRC and the id of the users who read the base
          Marks,     \* message numbers
          AtRecords, \* do the programs put a new record behind the last whole one?
          MaxWords   \* bound on the words of the last-read file

ASSUME UsersAssumption == Users \subseteq [user_crc : Nat, user_id : Nat]
ASSUME MarksAssumption == Marks \subseteq Nat /\ MaxWords \in Nat /\ AtRecords \in BOOLEAN

VARIABLES files,            \* the files that exist
          torn,             \* is there a .JHR file that cannot be loaded?
          at,               \* the call each handle is in and the step it has reached
          jlr,              \* the words of the last-read file
          last_read_record, \* the record each handle has found last, or -1
          cut,              \* history: the last create has not returned Ok
          gone,             \* history: delete_message_base returned Ok, no create since
          update,           \* the record that is being written, if any
          kept              \* history: what each user's program has stored last

base == <<files, torn, cut, gone>>
reads == <<jlr, last_read_record, update, kept>>
vars == <<base, at, reads>>

Exts == {"jhr", "jdt", "jdx", "jlr"}
Ops == {"closed", "idle", "create", "delete", "write", "update"}
Nothing == << >>

TypeOK ==
  /\ files \in SUBSET Exts
  /\ torn \in BOOLEAN /\ cut \in BOOLEAN /\ gone \in BOOLEAN
  /\ at \in [Handles -> [op : Ops, step : 0 .. 5]]
  /\ jlr \in Seq(Nat)
  /\ kept \in [Users -> Seq(Nat)]

Init ==
  /\ files = {} /\ torn = FALSE
  /\ at = [h \in Handles |-> [op |-> "closed", step |-> 0]]
  /\ jlr = << >>
  /\ last_read_record = [h \in Handles |-> -1]
  /\ cut = FALSE /\ gone = TRUE
  /\ update = Nothing
  /\ kept = [u \in Users |-> Nothing]

Go(h, op, step) == at' = [at EXCEPT ![h] = [op |-> op, step |-> step]]
In(h, op, step) == at[h] = [op |-> op, step |-> step]

\* Programs see to it that a create, a delete or an update of the last-read
\* file has the base for itself, but for calls that write messages.
Solo == {"create", "delete", "update"}
Alone == \A h \in Handles : at[h].op \notin Solo

\* JHRHeaderInfo::load finds its signature.
Loadable == "jhr" \in files /\ ~torn

Created == <<"jhr", "jdt", "jdx", "jlr">>

\* Mutant: the header, by which a base is known, is removed last.
Removed_Reversed == <<"jlr", "jdx", "jdt", "jhr">>

Removed == <<"jhr", "jdt", "jdx", "jlr">>
Appended == <<"jdt", "jhr", "jdx">>
-----------------------------------------------------------------------------
Open(h) ==
  /\ In(h, "closed", 0) /\ Loadable
  /\ Go(h, "idle", 0)
  /\ UNCHANGED <<base, reads>>

Drop(h) ==
  /\ In(h, "idle", 0)
  /\ Go(h, "closed", 0)
  /\ last_read_record' = [last_read_record EXCEPT ![h] = -1]
  /\ UNCHANGED <<base, jlr, update, kept>>

\* A .JLR file that is emptied or removed has nobody's mark.
Forget(f) ==
  IF f = "jlr" THEN jlr' = << >> /\ kept' = [u \in Users |-> Nothing]
               ELSE UNCHANGED <<jlr, kept>>

\* create writes the files anew, one by one, whatever was there, and opens
\* the base.
Create(h) ==
  \/ /\ In(h, "closed", 0) /\ Alone
     /\ Go(h, "create", 1)
     /\ cut' = TRUE /\ gone' = FALSE
     /\ UNCHANGED <<files, torn, reads>>
  \/ \E n \in 1 .. 4 :
       /\ In(h, "create", n)
       /\ Go(h, "create", n + 1)
       /\ files' = files \cup {Created[n]}
       /\ torn' = (torn /\ n # 1)
       /\ Forget(Created[n])
       /\ UNCHANGED <<cut, gone, last_read_record, update>>
  \/ /\ In(h, "create", 5) /\ Loadable
     /\ Go(h, "idle", 0)
     /\ cut' = FALSE
     /\ UNCHANGED <<files, torn, gone, reads>>

\* delete_message_base removes the files one by one and gives up at the first
\* that it cannot remove.  The handle does not notice.
Delete(h) ==
  \/ In(h, "idle", 0) /\ Alone /\ Go(h, "delete", 1) /\ UNCHANGED <<base, reads>>
  \/ \E n \in 1 .. 4 :
       /\ In(h, "delete", n) /\ Removed[n] \in files
       /\ IF n = 4 THEN Go(h, "idle", 0) ELSE Go(h, "delete", n + 1)
       /\ files' = files \ {Removed[n]}
       /\ torn' = (torn /\ Removed[n] # "jhr")
       /\ Forget(Removed[n])
       /\ gone' = (n = 4)
       /\ UNCHANGED <<cut, last_read_record, update>>
  \/ \E n \in 1 .. 4 :
       /\ In(h, "delete", n) /\ Removed[n] \notin files
       /\ Go(h, "idle", 0)
       /\ UNCHANGED <<base, reads>>

\* Mutant: a file that is not there is created.
OpenAppend_Creates(f) == files' = files \cup {f}

\* OpenOptions::append without create.
OpenAppend(f) == f \in files /\ UNCHANGED files

\* write_message opens and appends to three files in turn; one that is not
\* there ends it.
Write(h) ==
  \/ In(h, "idle", 0) /\ Go(h, "write", 1) /\ UNCHANGED <<base, reads>>
  \/ \E n \in 1 .. 3 :
       /\ In(h, "write", n)
       /\ \/ /\ OpenAppend(Appended[n])
             /\ IF n = 3 THEN Go(h, "idle", 0) ELSE Go(h, "write", n + 1)
          \/ /\ Appended[n] \notin files /\ UNCHANGED files
             /\ Go(h, "idle", 0)
       /\ UNCHANGED <<torn, cut, gone, reads>>
-----------------------------------------------------------------------------
\* Mutant: users are told apart by the CRC of their names alone.
IsOf_Crc(r, u) == jlr[4 * r + 1] = u.user_crc

\* The first two words of record r, counted from 0, are the needle.
IsOf(r, u) == jlr[4 * r + 1] = u.user_crc /\ jlr[4 * r + 2] = u.user_id

RecordsOf(u) == {r \in 0 .. Len(jlr) \div 4 - 1 : IsOf(r, u)}

\* find_last_read finds the user's first record; one cut short ends the search.
Found(u) == RecordsOf(u) # {}
FirstOf(u) == CHOOSE r \in RecordsOf(u) : \A s \in RecordsOf(u) : r <= s
MarksOf(u) == SubSeq(jlr, 4 * FirstOf(u) + 3, 4 * FirstOf(u) + 4)

\* The handle keeps the number of the record, and keeps it when a later
\* search finds nothing.
FindLastRead(h, u) ==
  last_read_record' = [last_read_record EXCEPT ![h] = IF Found(u) THEN FirstOf(u) ELSE @]

Find(h, u) ==
  /\ In(h, "idle", 0) /\ "jlr" \in files
  /\ FindLastRead(h, u)
  /\ UNCHANGED <<base, at, jlr, update, kept>>

\* Where a program writes its user's record is its own affair: where it is, and
\* a new one behind the last whole record or at the end of the file.
NewPlace == IF AtRecords THEN 4 * (Len(jlr) \div 4) ELSE Len(jlr)
Place(u) == IF Found(u) THEN 4 * FirstOf(u) ELSE NewPlace

StartUpdate(h, u, mark) ==
  /\ In(h, "idle", 0) /\ Alone /\ "jlr" \in files
  /\ Place(u) + 4 <= MaxWords
  /\ Go(h, "update", 1)
  /\ FindLastRead(h, u)
  /\ update' = [user |-> u, place |-> Place(u),
                words |-> <<u.user_crc, u.user_id, mark, mark>>]
  /\ kept' = [kept EXCEPT ![u] = Nothing]
  /\ UNCHANGED <<base, jlr>>

\* Mutant: the file is opened to append, wherever the record is.
Put_Appends(p, w) == Append(jlr, w)

\* JamLastReadStorage::write, word by word.
Put(p, w) == IF p <= Len(jlr) THEN [jlr EXCEPT ![p] = w] ELSE Append(jlr, w)

Store(h) ==
  /\ "jlr" \in files
  /\ \E n \in 1 .. 4 :
       /\ In(h, "update", n)
       /\ jlr' = Put(update.place + n, update.words[n])
       /\ IF n = 4 THEN Go(h, "idle", 0) ELSE Go(h, "update", n + 1)
       /\ kept' = IF n = 4
                  THEN [kept EXCEPT ![update.user] = SubSeq(update.words, 3, 4)]
                  ELSE kept
       /\ update' = IF n = 4 THEN Nothing ELSE update
  /\ UNCHANGED <<base, last_read_record>>
-----------------------------------------------------------------------------
\* A file operation fails, which ends the call, or the program dies.  The
\* file that create was writing may be there, empty or cut short, or not.
Interrupt(h, where) ==
  /\ at[h].op \in Ops \ {"closed"}
  /\ where = "closed" \/ at[h].op # "idle"
  /\ Go(h, where, 0)
  /\ \/ UNCHANGED <<files, torn, jlr>>
     \/ \E n \in 1 .. 4 :
          /\ In(h, "create", n)
          /\ files' = files \cup {Created[n]}
          /\ torn' = (torn \/ n = 1)
          /\ jlr' = IF n = 4 THEN << >> ELSE jlr
  /\ kept' = IF jlr' # jlr THEN [u \in Users |-> Nothing] ELSE kept
  /\ update' = IF at[h].op = "update" THEN Nothing ELSE update
  /\ last_read_record' = [last_read_record EXCEPT ![h] = IF where = "closed" THEN -1 ELSE @]
  /\ UNCHANGED <<cut, gone>>

Fail(h) == Interrupt(h, IF at[h].op = "create" THEN "closed" ELSE "idle")
Crash(h) == Interrupt(h, "closed")

Next == \E h \in Handles :
  \/ Open(h) \/ Drop(h) \/ Create(h) \/ Delete(h) \/ Write(h)
  \/ \E u \in Users : Find(h, u) \/ \E m \in Marks : StartUpdate(h, u, m)
  \/ Store(h)
  \/ Fail(h) \/ Crash(h)

Spec == Init /\ [][Next]_vars
-----------------------------------------------------------------------------
\* A base that can be opened has its other files too, wherever a delete of it
\* or a create but the last was cut short.  (create makes the header first, so
\* a base whose last create was cut short can be opened without the others.)
OpenableIsWhole == Loadable /\ ~cut => files = Exts

\* Once delete_message_base has returned Ok nothing of the base is left, and
\* programs that were writing to it, or that still have a handle, do not bring
\* a file of it back.
DeletedIsGone == gone => files = {}

\* find_last_read gives what the user's program has stored last with Ok,
\* whoever else stores, and wherever a program died while it did ("A user's
\* lastread record may appear anywhere in the file and must be searched for").
LastReadKept ==
  \A u \in Users : kept[u] # Nothing => Found(u) /\ MarksOf(u) = kept[u]
-----------------------------------------------------------------------------
\* What the proofs need besides.
StepsKnown ==
  \A h \in Handles : /\ at[h].op = "create" => at[h].step \in 1 .. 5
                     /\ at[h].op \in {"delete", "update"} => at[h].step \in 1 .. 4
OneAtATime ==
  \A g, h \in Handles : at[g].op \in Solo /\ at[h].op \in Solo => g = h

\* What a create has made and a delete has removed stays as it is while they
\* go on.
Progress ==
  \A h \in Handles :
    /\ at[h].op = "create" =>
         cut /\ ~gone /\ \A i \in 1 .. 4 : i < at[h].step => Created[i] \in files
    /\ at[h].op = "delete" => \A i \in 1 .. 4 : i < at[h].step => Removed[i] \notin files

IsFirst(r, u) ==
  4 * r + 4 <= Len(jlr) /\ IsOf(r, u) /\ \A s \in 0 .. r - 1 : ~IsOf(s, u)

MarksFound ==
  \A u \in Users : AtRecords /\ kept[u] # Nothing =>
    \E r \in 0 .. Len(jlr) : IsFirst(r, u) /\ kept[u] = <<jlr[4 * r + 3], jlr[4 * r + 4]>>

\* The first n - 1 words of a record of user u are in place: no earlier one
\* is the user's, and it is either new, at the end of the file, maybe over the
\* words of one that was cut short, or it was the user's before.
UpdateSound(u, place, words, n) ==
  /\ u \in Users /\ place \in Nat /\ words \in Seq(Nat) /\ Len(words) = 4
  /\ words[1] = u.user_crc /\ words[2] = u.user_id
  /\ kept[u] = Nothing
  /\ place + n - 1 <= Len(jlr)
  /\ \A i \in 1 .. 4 : i < n => jlr[place + i] = words[i]
  /\ AtRecords => place % 4 = 0
  /\ place % 4 = 0 => \A s \in 0 .. place \div 4 - 1 : ~IsOf(s, u)
  /\ \/ Len(jlr) = place + n - 1
     \/ place % 4 = 0 /\ (place + 4 <= Len(jlr) => IsOf(place \div 4, u))

UpdatesSound ==
  \A h \in Handles : at[h].op = "update" =>
    UpdateSound(update.user, update.place, update.words, at[h].step)

\* The inductive invariant: of the files, and of the last-read file, src/jam/mod.rs.
FilesInv == StepsKnown /\ OneAtATime /\ Progress /\ OpenableIsWhole /\ DeletedIsGone
LifecycleInv == TypeOK /\ FilesInv /\ MarksFound /\ UpdatesSound
=============================================================================
