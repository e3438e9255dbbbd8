------------------------- MODULE JamLifecycleProofs -------------------------
(* What JamLifecycle promises, for any handles, users and marks. *)
EXTENDS JamLifecycle, TLAPS, WellFoundedInduction, SequenceTheorems

USE UsersAssumption, MarksAssumption

\* Among numbers there is a least one.
LEMMA LeastNumber ==
  ASSUME NEW S, S \subseteq Nat, S # {}
  PROVE  \E m \in S : \A k \in S : m <= k
<1> DEFINE less == {ss \in Nat \X Nat : ss[1] < ss[2]}
<1>1. OpToRel(<, Nat) = less
  BY Zenon DEF OpToRel
<1>2. IsWellFoundedOn(less, Nat)
  BY <1>1, NatLessThanWellFounded, Zenon
<1>3. \E m \in S : \A k \in S : ~(<<k, m>> \in less)
  <2> HIDE DEF less
  <2> QED BY <1>2, WFMin
<1>4. \A k, m \in Nat : k < m => <<k, m>> \in less
  OBVIOUS
<1>5. QED
  <2> HIDE DEF less
  <2>1. PICK m \in S : \A k \in S : ~(<<k, m>> \in less)
    BY <1>3
  <2>2. ASSUME NEW k \in S PROVE ~(k < m)
    BY <1>4, <2>1, Zenon
  <2>3. m \in Nat /\ \A k \in S : k \in Nat
    OBVIOUS
  <2>4. \A k \in S : m <= k
    BY <2>2, <2>3
  <2> QED BY <2>4

\* Two words of a file.
LEMMA TwoWords ==
  ASSUME NEW s \in Seq(Nat), NEW k \in Nat \ {0}, k + 1 <= Len(s)
  PROVE  SubSeq(s, k, k + 1) = <<s[k], s[k + 1]>>
<1> DEFINE t == SubSeq(s, k, k + 1)
<1>1. /\ t \in Seq(Nat) /\ Len(t) = 2
      /\ \A i \in 1 .. 2 : t[i] = s[k + i - 1]
  BY SubSeqProperties
<1>2. t[1] = s[k] /\ t[2] = s[k + 1]
  BY <1>1
<1>3. QED
  <2> HIDE DEF t
  <2>1. t = <<t[1], t[2]>> BY <1>1
  <2>2. QED BY <1>2, <2>1 DEF t

\* A word that is overwritten, and one that is appended.
LEMMA OverwrittenWord ==
  ASSUME NEW s \in Seq(Nat), NEW i \in 1 .. Len(s), NEW w \in Nat, NEW t, t = [s EXCEPT ![i] = w]
  PROVE  /\ t \in Seq(Nat) /\ Len(t) = Len(s) /\ t[i] = w
         /\ \A p \in 1 .. Len(s) : p # i => t[p] = s[p]
BY ExceptSeq

\* What a sequence of words is after one more.
LEMMA AppendedWord ==
  ASSUME NEW s \in Seq(Nat), NEW w \in Nat, NEW t, t = Append(s, w)
  PROVE  /\ t \in Seq(Nat) /\ Len(t) = Len(s) + 1 /\ t[Len(s) + 1] = w
         /\ \A p \in 1 .. Len(s) : t[p] = s[p]
BY AppendProperties

\* find_last_read finds the first record of a user who has one.
LEMMA FirstIsFirst ==
  ASSUME NEW u, jlr \in Seq(Nat), Found(u)
  PROVE  FirstOf(u) \in 0 .. Len(jlr) /\ IsFirst(FirstOf(u), u)
<1>1. RecordsOf(u) \subseteq Nat /\ RecordsOf(u) # {}
  BY DEF Found, RecordsOf
<1>2. \E r \in RecordsOf(u) : \A s \in RecordsOf(u) : r <= s
  BY <1>1, LeastNumber
<1>3. FirstOf(u) \in RecordsOf(u) /\ \A s \in RecordsOf(u) : FirstOf(u) <= s
  BY <1>2 DEF FirstOf
<1>4. FirstOf(u) \in 0 .. Len(jlr) /\ 4 * FirstOf(u) + 4 <= Len(jlr) /\ IsOf(FirstOf(u), u)
  BY <1>3 DEF RecordsOf
<1>5. ASSUME NEW s \in 0 .. FirstOf(u) - 1 PROVE ~IsOf(s, u)
  <2>1. s \in 0 .. Len(jlr) \div 4 - 1 BY <1>4
  <2>2. QED BY <1>3, <1>4, <2>1 DEF RecordsOf
<1>6. QED BY <1>4, <1>5 DEF IsFirst

\* The search of the last-read file stops at the first record of a user.
LEMMA FirstIsFound ==
  ASSUME NEW u, NEW r \in Nat, jlr \in Seq(Nat), IsFirst(r, u)
  PROVE  Found(u) /\ FirstOf(u) = r
<1>1. r \in RecordsOf(u) BY DEF IsFirst, RecordsOf
<1>2. Found(u) BY <1>1 DEF Found
<1>3. IsFirst(FirstOf(u), u) /\ FirstOf(u) \in Nat BY <1>2, FirstIsFirst
<1>4. QED BY <1>2, <1>3 DEF IsFirst
-----------------------------------------------------------------------------
\* A mark that stands in the first record of its user is what is found.
LEMMA MarksAreFound == AtRecords /\ TypeOK /\ MarksFound => LastReadKept
<1> SUFFICES ASSUME AtRecords, TypeOK, MarksFound, NEW u \in Users, kept[u] # Nothing
             PROVE  Found(u) /\ MarksOf(u) = kept[u]
  BY DEF LastReadKept
<1>1. jlr \in Seq(Nat) BY DEF TypeOK
<1>2. PICK r \in 0 .. Len(jlr) : IsFirst(r, u) /\ kept[u] = <<jlr[4 * r + 3], jlr[4 * r + 4]>>
  BY DEF MarksFound
<1>3. Found(u) /\ FirstOf(u) = r BY <1>1, <1>2, FirstIsFound
<1>4. SubSeq(jlr, 4 * r + 3, 4 * r + 4) = <<jlr[4 * r + 3], jlr[4 * r + 4]>>
  <2>1. 4 * r + 3 \in Nat \ {0} /\ (4 * r + 3) + 1 = 4 * r + 4 /\ 4 * r + 4 <= Len(jlr)
    BY <1>2 DEF IsFirst
  <2>2. QED BY <1>1, <2>1, TwoWords
<1>5. QED BY <1>2, <1>3, <1>4 DEF MarksOf
-----------------------------------------------------------------------------
USE DEF LifecycleInv, FilesInv

\* Where nothing exists, the invariant holds.
LEMMA InvInit == Init => LifecycleInv
<1> SUFFICES ASSUME Init PROVE LifecycleInv
  OBVIOUS
<1> USE DEF Init
<1>1. TypeOK
  <2>1. << >> \in Seq(Nat)
    OBVIOUS
  <2>2. jlr \in Seq(Nat) /\ kept \in [Users -> Seq(Nat)]
    BY <2>1 DEF Nothing
  <2>3. at \in [Handles -> [op : Ops, step : 0 .. 5]]
    BY DEF Ops
  <2> QED BY <2>2, <2>3 DEF TypeOK
<1>2. FilesInv
  BY DEF StepsKnown, OneAtATime, Solo, Progress, OpenableIsWhole, DeletedIsGone, Loadable
<1>3. MarksFound /\ UpdatesSound
  BY DEF MarksFound, UpdatesSound
<1> QED BY <1>1, <1>2, <1>3

\* A step that leaves the files of the base alone, and takes a handle into no
\* step of a create or delete but the first of a delete.
LEMMA FilesLeft ==
  ASSUME LifecycleInv, NEW h \in Handles, UNCHANGED base,
         NEW op, NEW step, Go(h, op, step),
         op # "create", op = "delete" => step = 1, op = "update" => step \in 1 .. 4,
         op \in Solo => at[h].op \in Solo \/ Alone
  PROVE  FilesInv'
<1> USE DEF TypeOK, Go, base
<1>1. at'[h] = [op |-> op, step |-> step] /\ \A g \in Handles \ {h} : at'[g] = at[g]
  OBVIOUS
<1>2. StepsKnown'
  BY <1>1 DEF StepsKnown
<1>3. OneAtATime'
  BY <1>1 DEF OneAtATime, Alone
<1>4. Progress'
  BY <1>1 DEF Progress
<1>5. OpenableIsWhole' /\ DeletedIsGone'
  BY DEF OpenableIsWhole, DeletedIsGone, Loadable
<1> QED BY <1>2, <1>3, <1>4, <1>5

\* A step that leaves the last-read file alone, and starts and goes on with no
\* update.
LEMMA MarksLeft ==
  ASSUME LifecycleInv, UNCHANGED <<jlr, kept>>,
         \A h \in Handles : at'[h].op = "update" => at'[h] = at[h] /\ UNCHANGED update
  PROVE  MarksFound' /\ UpdatesSound'
<1>1. MarksFound'
  BY DEF MarksFound, IsFirst, IsOf
<1>2. ASSUME NEW h \in Handles, at'[h].op = "update"
      PROVE  UpdateSound(update.user, update.place, update.words, at[h].step)'
  BY <1>2 DEF UpdatesSound, UpdateSound, IsOf
<1> QED BY <1>1, <1>2 DEF UpdatesSound

\* A step that empties the last-read file, when nobody updates it.
LEMMA MarksForgotten ==
  ASSUME jlr' = << >>, kept' = [u \in Users |-> Nothing],
         \A h \in Handles : at'[h].op # "update"
  PROVE  MarksFound' /\ UpdatesSound'
BY DEF MarksFound, UpdatesSound
-----------------------------------------------------------------------------
\* Forget empties the last-read file or leaves it.
LEMMA ForgetTypes ==
  ASSUME TypeOK, NEW f, Forget(f)
  PROVE  jlr' \in Seq(Nat) /\ kept' \in [Users -> Seq(Nat)]
<1>1. << >> \in Seq(Nat)
  OBVIOUS
<1> QED BY <1>1 DEF TypeOK, Forget, Nothing

\* A step of a handle that is neither in an update nor starts one, while
\* Forget is at work only if nobody updates.
LEMMA ForgetKeepsMarks ==
  ASSUME LifecycleInv, NEW h \in Handles, NEW op \in Ops \ {"update"}, NEW step \in 0 .. 5,
         Go(h, op, step), NEW f, Forget(f), UNCHANGED update, at[h].op \in Solo
  PROVE  MarksFound' /\ UpdatesSound'
<1>1. \A g \in Handles : at'[g].op = "update" => at'[g] = at[g]
  BY DEF TypeOK, Go
<1>2. \A g \in Handles : at'[g].op # "update"
  BY DEF OneAtATime, Solo, TypeOK, Go
<1>3. CASE f = "jlr"
  BY <1>2, <1>3, MarksForgotten DEF Forget
<1>4. CASE f # "jlr"
  BY <1>1, <1>4, MarksLeft DEF Forget
<1> QED BY <1>3, <1>4

\* Each file that create makes keeps the invariant.
LEMMA CreateStep ==
  ASSUME LifecycleInv, NEW h \in Handles, Create(h)
  PROVE  LifecycleInv'
<1> USE DEF In
<1>1. CASE /\ In(h, "closed", 0) /\ Alone /\ Go(h, "create", 1)
           /\ cut' = TRUE /\ gone' = FALSE /\ UNCHANGED <<files, torn, reads>>
  <2> USE <1>1
  <2>1. TypeOK'
    <3>1. at' \in [Handles -> [op : Ops, step : 0 .. 5]]
      BY DEF TypeOK, Ops, Go
    <3> QED BY <3>1 DEF TypeOK, reads
  <2>2. StepsKnown' /\ OneAtATime'
    BY DEF StepsKnown, OneAtATime, Alone, Ops, TypeOK, Go
  <2>3. Progress'
    BY DEF Progress, Alone, Ops, Solo, TypeOK, Go
  <2>4. OpenableIsWhole' /\ DeletedIsGone'
    BY DEF OpenableIsWhole, DeletedIsGone
  <2>5. MarksFound' /\ UpdatesSound'
    <3>1. \A g \in Handles : at'[g].op = "update" => at'[g] = at[g]
      BY DEF Ops, TypeOK, Go
    <3> QED BY <3>1, MarksLeft DEF reads
  <2> QED BY <2>1, <2>2, <2>3, <2>4, <2>5
<1>2. ASSUME NEW n \in 1 .. 4, In(h, "create", n), Go(h, "create", n + 1),
             files' = files \cup {Created[n]}, torn' = (torn /\ n # 1), Forget(Created[n]),
             UNCHANGED <<cut, gone, last_read_record, update>>
      PROVE  LifecycleInv'
  <2> USE <1>2
  <2>1. /\ at' \in [Handles -> [op : Ops, step : 0 .. 5]]
        /\ at'[h] = [op |-> "create", step |-> n + 1]
        /\ \A g \in Handles \ {h} : at'[g] = at[g] /\ at[g].op \notin Solo
    <3>1. "create" \in Ops /\ n + 1 \in 0 .. 5
      BY DEF Ops
    <3> QED BY <3>1 DEF OneAtATime, Solo, TypeOK, Go
  <2>2. Created[n] \in Exts
    BY DEF Created, Exts
  <2>3. TypeOK'
    BY <2>1, <2>2, ForgetTypes DEF TypeOK
  <2>4. StepsKnown' /\ OneAtATime'
    BY <2>1 DEF StepsKnown, OneAtATime
  <2>5. cut /\ ~gone /\ \A i \in 1 .. 4 : i < n => Created[i] \in files
    BY DEF Progress
  <2>6. Progress'
    <3>1. \A i \in 1 .. 4 : i < n + 1 => Created[i] \in files'
      BY <2>5
    <3> QED BY <2>1, <2>5, <3>1 DEF Progress, Solo
  <2>7. OpenableIsWhole' /\ DeletedIsGone'
    BY <2>5 DEF OpenableIsWhole, DeletedIsGone
  <2>8. MarksFound' /\ UpdatesSound'
    <3>1. "create" \in Ops \ {"update"} /\ n + 1 \in 0 .. 5 /\ at[h].op \in Solo
      BY DEF Ops, Solo
    <3> QED BY <3>1, ForgetKeepsMarks
  <2> QED BY <2>3, <2>4, <2>6, <2>7, <2>8
<1>3. CASE /\ In(h, "create", 5) /\ Loadable /\ Go(h, "idle", 0)
           /\ cut' = FALSE /\ UNCHANGED <<files, torn, gone, reads>>
  <2> USE <1>3
  <2>1. /\ at' \in [Handles -> [op : Ops, step : 0 .. 5]]
        /\ at'[h] = [op |-> "idle", step |-> 0]
        /\ \A g \in Handles \ {h} : at'[g] = at[g] /\ at[g].op \notin Solo
    <3>1. "idle" \in Ops /\ 0 \in 0 .. 5
      BY DEF Ops
    <3> QED BY <3>1 DEF OneAtATime, Solo, TypeOK, Go
  <2>2. TypeOK'
    BY <2>1 DEF TypeOK, reads
  <2>3. StepsKnown' /\ OneAtATime'
    BY <2>1 DEF StepsKnown, OneAtATime, Solo
  <2>4. Progress'
    BY <2>1 DEF Progress, OneAtATime, Solo
  <2>5. \A i \in 1 .. 4 : Created[i] \in files
    BY DEF Progress
  <2>6. files = Exts
    <3>1. Created[1] \in files /\ Created[2] \in files /\ Created[3] \in files /\ Created[4] \in files
      BY <2>5
    <3> QED BY <3>1 DEF Created, Exts, TypeOK
  <2>7. OpenableIsWhole' /\ DeletedIsGone'
    BY <2>6 DEF OpenableIsWhole, DeletedIsGone
  <2>8. MarksFound' /\ UpdatesSound'
    <3>1. \A g \in Handles : at'[g].op = "update" => at'[g] = at[g]
      BY <2>1
    <3> QED BY <3>1, MarksLeft DEF reads
  <2> QED BY <2>2, <2>3, <2>4, <2>7, <2>8
<1> QED BY <1>1, <1>2, <1>3 DEF Create

\* So does each file that delete_message_base removes.
LEMMA DeleteStep ==
  ASSUME LifecycleInv, NEW h \in Handles, Delete(h)
  PROVE  LifecycleInv'
<1> USE DEF In

\* The handle starts or gives up.
<1>1. ASSUME UNCHANGED <<base, reads>>,
             \/ Alone /\ Go(h, "delete", 1)
             \/ Go(h, "idle", 0)
      PROVE  LifecycleInv'
  <2>1. TypeOK'
    <3>1. at' \in [Handles -> [op : Ops, step : 0 .. 5]]
      <4>1. at \in [Handles -> [op : Ops, step : 0 .. 5]]
        BY DEF TypeOK
      <4>2. CASE Go(h, "delete", 1)
        BY <4>1, <4>2 DEF Ops, Go
      <4>3. CASE Go(h, "idle", 0)
        BY <4>1, <4>3 DEF Ops, Go
      <4> QED BY <1>1, <4>2, <4>3
    <3> QED BY <1>1, <3>1 DEF TypeOK, base, reads
  <2>2. FilesInv'
    BY <1>1, FilesLeft DEF Solo
  <2>3. \A g \in Handles : at'[g].op = "update" => at'[g] = at[g]
    BY <1>1 DEF TypeOK, Go
  <2>4. MarksFound' /\ UpdatesSound'
    BY <1>1, <2>3, MarksLeft DEF reads
  <2> QED BY <2>1, <2>2, <2>4
<1>2. ASSUME NEW n \in 1 .. 4, In(h, "delete", n),
             IF n = 4 THEN Go(h, "idle", 0) ELSE Go(h, "delete", n + 1),
             files' = files \ {Removed[n]}, torn' = (torn /\ Removed[n] # "jhr"),
             Forget(Removed[n]), gone' = (n = 4), UNCHANGED <<cut, last_read_record, update>>
      PROVE  LifecycleInv'
  <2> USE <1>2
  <2>1. PICK op \in {"idle", "delete"}, step \in 0 .. 5 :
          Go(h, op, step) /\ (op = "idle" <=> n = 4) /\ (op = "delete" => step = n + 1)
    OBVIOUS
  <2>2. /\ at' \in [Handles -> [op : Ops, step : 0 .. 5]]
        /\ at'[h] = [op |-> op, step |-> step]
        /\ \A g \in Handles \ {h} : at'[g] = at[g] /\ at[g].op \notin Solo
    BY <2>1 DEF OneAtATime, Solo, TypeOK, Go, Ops
  <2>3. TypeOK'
    BY <2>2, ForgetTypes DEF TypeOK
  <2>4. StepsKnown' /\ OneAtATime'
    BY <2>1, <2>2 DEF StepsKnown, OneAtATime, Solo
  <2>5. \A i \in 1 .. 4 : i < n + 1 => Removed[i] \notin files'
    BY DEF Progress
  <2>6. Progress'
    BY <2>1, <2>2, <2>5 DEF Progress, Solo
  <2>7. "jhr" \notin files'
    BY <2>5 DEF Removed
  <2>8. n = 4 => files' = {}
    <3>1. n = 4 => /\ Removed[1] \notin files' /\ Removed[2] \notin files'
                  /\ Removed[3] \notin files' /\ Removed[4] \notin files'
      BY <2>5
    <3> QED BY <3>1 DEF Removed, Exts, TypeOK
  <2>9. OpenableIsWhole' /\ DeletedIsGone'
    BY <2>7, <2>8 DEF OpenableIsWhole, DeletedIsGone, Loadable
  <2>10. MarksFound' /\ UpdatesSound'
    <3>1. op \in Ops \ {"update"} /\ at[h].op \in Solo
      BY DEF Ops, Solo
    <3> QED BY <2>1, <3>1, ForgetKeepsMarks
  <2> QED BY <2>3, <2>4, <2>6, <2>9, <2>10
<1> QED BY <1>1, <1>2 DEF Delete

\* So does each file that a write appends to.
LEMMA WriteStep ==
  ASSUME LifecycleInv, NEW h \in Handles, Write(h)
  PROVE  LifecycleInv'
<1>1. PICK op \in {"idle", "write"}, step \in 0 .. 5 :
        Go(h, op, step) /\ UNCHANGED <<base, reads>>
  BY DEF Write, OpenAppend, base
<1>2. TypeOK'
  <2>1. at' \in [Handles -> [op : Ops, step : 0 .. 5]]
    BY <1>1 DEF TypeOK, Ops, Go
  <2> QED BY <1>1, <2>1 DEF TypeOK, base, reads
<1>3. FilesInv'
  BY <1>1, FilesLeft DEF Solo
<1>4. \A g \in Handles : at'[g].op = "update" => at'[g] = at[g]
  BY <1>1 DEF TypeOK, Go
<1>5. MarksFound' /\ UpdatesSound'
  BY <1>1, <1>4, MarksLeft DEF reads
<1> QED BY <1>2, <1>3, <1>5

\* So do open and drop.
LEMMA OpenStep ==
  ASSUME LifecycleInv, NEW h \in Handles, Open(h) \/ Drop(h)
  PROVE  LifecycleInv'
<1>1. PICK op \in {"idle", "closed"} : Go(h, op, 0) /\ UNCHANGED <<base, jlr, update, kept>>
  BY DEF Open, Drop, reads
<1>2. TypeOK'
  <2>1. at' \in [Handles -> [op : Ops, step : 0 .. 5]]
    BY <1>1 DEF TypeOK, Ops, Go
  <2> QED BY <1>1, <2>1 DEF TypeOK, base
<1>3. FilesInv'
  BY <1>1, FilesLeft DEF Solo
<1>4. \A g \in Handles : at'[g].op = "update" => at'[g] = at[g]
  BY <1>1 DEF TypeOK, Go
<1>5. MarksFound' /\ UpdatesSound'
  BY <1>1, <1>4, MarksLeft
<1> QED BY <1>2, <1>3, <1>5

\* What neither the files nor the updates change keeps the invariant.
LEMMA NothingChanges ==
  ASSUME LifecycleInv, UNCHANGED <<base, at, jlr, update, kept>>
  PROVE  LifecycleInv'
<1> USE DEF base
<1>1. TypeOK'
  BY DEF TypeOK
<1>2. StepsKnown' /\ OneAtATime' /\ Progress'
  BY DEF StepsKnown, OneAtATime, Progress
<1>3. OpenableIsWhole' /\ DeletedIsGone'
  BY DEF OpenableIsWhole, DeletedIsGone, Loadable
<1>4. MarksFound' /\ UpdatesSound'
  BY MarksLeft
<1> QED BY <1>1, <1>2, <1>3, <1>4

\* The search that begins an update finds the record of its user, if there is one.
LEMMA StartUpdateStep ==
  ASSUME LifecycleInv, NEW h \in Handles, NEW u \in Users, NEW mark \in Marks,
         StartUpdate(h, u, mark)
  PROVE  LifecycleInv'
<1> DEFINE words == <<u.user_crc, u.user_id, mark, mark>>
<1>1. /\ Alone /\ Go(h, "update", 1) /\ UNCHANGED <<base, jlr>>
      /\ kept' = [kept EXCEPT ![u] = Nothing]
      /\ update' = [user |-> u, place |-> Place(u), words |-> words]
  BY DEF StartUpdate
<1>2. TypeOK'
  <2>1. at' \in [Handles -> [op : Ops, step : 0 .. 5]]
    BY <1>1 DEF TypeOK, Ops, Go
  <2>2. << >> \in Seq(Nat)
    OBVIOUS
  <2>3. kept' \in [Users -> Seq(Nat)]
    BY <1>1, <2>2 DEF TypeOK, Nothing
  <2> QED BY <1>1, <2>1, <2>3 DEF TypeOK, base
<1>3. FilesInv'
  BY <1>1, FilesLeft DEF Solo
<1>4. jlr \in Seq(Nat) /\ jlr' = jlr
  BY <1>1 DEF TypeOK
<1>5. MarksFound'
  <2> SUFFICES ASSUME AtRecords, NEW v \in Users, kept'[v] # Nothing
               PROVE  \E r \in 0 .. Len(jlr') : /\ IsFirst(r, v)'
                                              /\ kept'[v] = <<jlr'[4 * r + 3], jlr'[4 * r + 4]>>
    BY DEF MarksFound
  <2>1. kept'[v] = kept[v]
    BY <1>1 DEF TypeOK
  <2> QED BY <1>4, <2>1 DEF MarksFound, IsFirst, IsOf
<1>6. PICK place \in Nat :
        /\ place = Place(u) /\ place <= Len(jlr)
        /\ AtRecords => place % 4 = 0
        /\ place % 4 = 0 => \A s \in 0 .. place \div 4 - 1 : ~IsOf(s, u)
        /\ \/ Len(jlr) = place
           \/ place % 4 = 0 /\ (place + 4 <= Len(jlr) => IsOf(place \div 4, u))
  <2>1. CASE Found(u)
    <3>1. PICK r \in 0 .. Len(jlr) : r = FirstOf(u) /\ IsFirst(r, u) /\ Place(u) = 4 * r
      BY <1>4, <2>1, FirstIsFirst DEF Place
    <3>2. /\ 4 * r \in Nat /\ (4 * r) % 4 = 0 /\ (4 * r) \div 4 = r /\ 4 * r + 4 <= Len(jlr)
          /\ 4 * r <= Len(jlr)
      BY <1>4, <3>1 DEF IsFirst
    <3>3. IsOf(r, u) /\ \A s \in 0 .. r - 1 : ~IsOf(s, u)
      BY <3>1 DEF IsFirst
    <3> QED BY <3>1, <3>2, <3>3
  <2>2. CASE ~Found(u)
    <3>1. Place(u) = NewPlace /\ Len(jlr) \in Nat
      BY <1>4, <2>2 DEF Place
    <3>2. \A s \in 0 .. Len(jlr) \div 4 - 1 : ~IsOf(s, u)
      BY <2>2 DEF Found, RecordsOf
    <3>3. CASE AtRecords
      <4>1. PICK q \in Nat : q = Len(jlr) \div 4 /\ NewPlace = 4 * q
        BY <3>1, <3>3 DEF NewPlace
      <4>2. 4 * q <= Len(jlr) /\ ~(4 * q + 4 <= Len(jlr)) /\ (4 * q) % 4 = 0 /\ (4 * q) \div 4 = q
        BY <3>1, <4>1
      <4> QED BY <3>1, <3>2, <4>1, <4>2
    <3>4. CASE ~AtRecords
      BY <3>1, <3>2, <3>4 DEF NewPlace
    <3> QED BY <3>3, <3>4
  <2> QED BY <2>1, <2>2
<1>7. UpdateSound(u, place, words, 1)'
  <2>1. /\ words \in Seq(Nat) /\ Len(words) = 4
        /\ words[1] = u.user_crc /\ words[2] = u.user_id
    OBVIOUS
  <2>2. kept'[u] = Nothing
    BY <1>1 DEF TypeOK
  <2> QED BY <1>4, <1>6, <2>1, <2>2 DEF UpdateSound, IsOf
<1>8. UpdatesSound'
  <2>1. at'[h].step = 1 /\ \A g \in Handles \ {h} : at'[g].op # "update"
    BY <1>1 DEF TypeOK, Go, Alone, Solo
  <2>2. update'.user = u /\ update'.place = place /\ update'.words = words
    BY <1>1, <1>6
  <2> HIDE DEF words
  <2>3. UpdateSound(update.user, update.place, update.words, at[h].step)'
    BY <1>7, <2>1, <2>2 DEF UpdateSound
  <2> QED BY <2>1, <2>3 DEF UpdatesSound
<1> QED BY <1>2, <1>3, <1>5, <1>8

\* So does a call that fails or is cut off, whatever it leaves behind.
LEMMA InterruptStep ==
  ASSUME LifecycleInv, NEW h \in Handles, NEW where \in {"idle", "closed"}, Interrupt(h, where)
  PROVE  LifecycleInv'
<1>1. /\ Go(h, where, 0) /\ UNCHANGED <<cut, gone>>
      /\ update' = IF at[h].op = "update" THEN Nothing ELSE update
      /\ kept' = IF jlr' # jlr THEN [u \in Users |-> Nothing] ELSE kept
  BY DEF Interrupt
<1>2. /\ at' \in [Handles -> [op : Ops, step : 0 .. 5]]
      /\ at'[h] = [op |-> where, step |-> 0] /\ \A g \in Handles \ {h} : at'[g] = at[g]
  BY <1>1 DEF TypeOK, Ops, Go
<1>3. CASE UNCHANGED <<files, torn, jlr>>
  <2>1. TypeOK'
    BY <1>1, <1>2, <1>3 DEF TypeOK
  <2>2. FilesInv'
    BY <1>1, <1>3, FilesLeft DEF Solo, base
  <2>3. \A g \in Handles : at'[g].op = "update" => at'[g] = at[g] /\ UNCHANGED update
    BY <1>1, <1>2 DEF OneAtATime, Solo
  <2>4. MarksFound' /\ UpdatesSound'
    BY <1>1, <1>3, <2>3, MarksLeft
  <2> QED BY <2>1, <2>2, <2>4
<1>4. ASSUME NEW n \in 1 .. 4, In(h, "create", n), files' = files \cup {Created[n]},
             torn' = (torn \/ n = 1), jlr' = IF n = 4 THEN << >> ELSE jlr
      PROVE  LifecycleInv'
  <2> USE <1>4
  <2>1. /\ at[h].op = "create" /\ cut /\ ~gone
        /\ \A g \in Handles : at'[g].op \notin Solo
    BY <1>2 DEF In, OneAtATime, Solo, Progress
  <2>2. TypeOK'
    <3>1. << >> \in Seq(Nat)
      OBVIOUS
    <3>2. jlr' \in Seq(Nat) /\ kept' \in [Users -> Seq(Nat)]
      BY <1>1, <3>1 DEF TypeOK, Nothing
    <3>3. Created[n] \in Exts
      BY DEF Created, Exts
    <3>4. files' \in SUBSET Exts
      BY <3>3 DEF TypeOK
    <3> QED BY <1>1, <1>2, <3>2, <3>4 DEF TypeOK
  <2>3. StepsKnown' /\ OneAtATime' /\ Progress'
    BY <2>1 DEF StepsKnown, OneAtATime, Progress, Solo
  <2>4. OpenableIsWhole' /\ DeletedIsGone'
    BY <1>1, <2>1 DEF OpenableIsWhole, DeletedIsGone
  <2>5. MarksFound' /\ UpdatesSound'
    <3>1. \A g \in Handles : at'[g].op # "update"
      BY <2>1 DEF Solo
    <3>2. CASE jlr' = jlr
      BY <1>1, <3>1, <3>2, MarksLeft
    <3>3. CASE jlr' # jlr
      BY <1>1, <3>1, <3>3, MarksForgotten
    <3> QED BY <3>2, <3>3
  <2> QED BY <2>2, <2>3, <2>4, <2>5
<1> QED BY <1>3, <1>4 DEF Interrupt

\* The record that an update stores keeps the marks of all other users.
LEMMA StoreStep ==
  ASSUME LifecycleInv, NEW h \in Handles, Store(h)
  PROVE  LifecycleInv'
<1>1. PICK n \in 1 .. 4 :
        /\ In(h, "update", n)
        /\ jlr' = Put(update.place + n, update.words[n])
        /\ IF n = 4 THEN Go(h, "idle", 0) ELSE Go(h, "update", n + 1)
        /\ kept' = IF n = 4
                   THEN [kept EXCEPT ![update.user] = SubSeq(update.words, 3, 4)] ELSE kept
        /\ update' = IF n = 4 THEN Nothing ELSE update
        /\ UNCHANGED base
  BY DEF Store
<1>2. PICK u \in Users, place \in Nat, words \in Seq(Nat) :
        /\ u = update.user /\ place = update.place /\ words = update.words
        /\ UpdateSound(u, place, words, n)
  <2>1. UpdateSound(update.user, update.place, update.words, n)
    BY <1>1 DEF In, UpdatesSound
  <2>2. update.user \in Users /\ update.place \in Nat /\ update.words \in Seq(Nat)
    BY <2>1 DEF UpdateSound
  <2> QED BY <2>1, <2>2
<1>3. /\ Len(words) = 4 /\ words[1] = u.user_crc /\ words[2] = u.user_id /\ kept[u] = Nothing
      /\ place + n - 1 <= Len(jlr)
      /\ \A i \in 1 .. 4 : i < n => jlr[place + i] = words[i]
      /\ AtRecords => place % 4 = 0
      /\ place % 4 = 0 => \A s \in 0 .. place \div 4 - 1 : ~IsOf(s, u)
      /\ \/ Len(jlr) = place + n - 1
         \/ place % 4 = 0 /\ (place + 4 <= Len(jlr) => IsOf(place \div 4, u))
  BY <1>2 DEF UpdateSound
<1>4. jlr \in Seq(Nat) /\ Len(jlr) \in Nat
  BY DEF TypeOK

\* The file afterwards: it has word n in its place, and what was there.
<1>5. /\ jlr' \in Seq(Nat) /\ Len(jlr') >= Len(jlr) /\ Len(jlr') >= place + n
      /\ jlr'[place + n] = words[n]
      /\ \A p \in 1 .. Len(jlr) : p # place + n => jlr'[p] = jlr[p]
      /\ \/ Len(jlr') = place + n
         \/ /\ place % 4 = 0 /\ Len(jlr') = Len(jlr)
            /\ place + 4 <= Len(jlr) => IsOf(place \div 4, u)
  <2>1. jlr' = Put(place + n, words[n]) /\ words[n] \in Nat
    <3>1. n \in 1 .. Len(words)
      BY <1>3
    <3> QED BY <1>1, <1>2, <3>1, ElementOfSeq
  <2>2. CASE place + n <= Len(jlr)
    <3>1. jlr' = [jlr EXCEPT ![place + n] = words[n]] /\ place + n \in 1 .. Len(jlr)
      BY <2>1, <2>2, <1>4 DEF Put
    <3>2. jlr' \in Seq(Nat) /\ Len(jlr') = Len(jlr)
      BY <1>4, <2>1, <3>1, OverwrittenWord
    <3>3. place % 4 = 0 /\ (place + 4 <= Len(jlr) => IsOf(place \div 4, u))
      BY <1>3, <1>4, <2>2
    <3>4. jlr'[place + n] = words[n] /\ \A p \in 1 .. Len(jlr) : p # place + n => jlr'[p] = jlr[p]
      BY <1>4, <2>1, <3>1, OverwrittenWord
    <3> QED BY <2>2, <3>2, <3>3, <3>4
  <2>3. CASE ~(place + n <= Len(jlr))
    <3>1. jlr' = Append(jlr, words[n]) /\ Len(jlr) + 1 = place + n
      BY <1>3, <1>4, <2>1, <2>3 DEF Put
    <3>2. /\ jlr' \in Seq(Nat) /\ Len(jlr') = Len(jlr) + 1 /\ jlr'[Len(jlr) + 1] = words[n]
          /\ \A p \in 1 .. Len(jlr) : jlr'[p] = jlr[p]
      <4>1. words[n] \in Nat /\ jlr \in Seq(Nat) /\ jlr' = Append(jlr, words[n])
        BY <1>4, <2>1, <3>1
      <4> QED BY <4>1, AppendedWord
    <3>3. Len(jlr') = place + n /\ jlr'[place + n] = words[n]
      BY <3>1, <3>2
    <3>4. Len(jlr') >= Len(jlr) /\ Len(jlr') >= place + n
      BY <1>4, <3>2, <3>3
    <3>5. \A p \in 1 .. Len(jlr) : p # place + n => jlr'[p] = jlr[p]
      BY <3>2
    <3>6. jlr' \in Seq(Nat)
      BY <3>2
    <3> QED BY <3>3, <3>4, <3>5, <3>6
  <2> QED BY <2>2, <2>3

\* A record that was there is whose it was.
<1>6. ASSUME NEW r \in Nat, 4 * r + 4 <= Len(jlr)
      PROVE  jlr'[4 * r + 1] = jlr[4 * r + 1] /\ jlr'[4 * r + 2] = jlr[4 * r + 2]
  <2>1. 4 * r + 1 \in 1 .. Len(jlr) /\ 4 * r + 2 \in 1 .. Len(jlr)
    BY <1>4, <1>6
  <2>2. CASE Len(jlr) = place + n - 1
    <3>1. \A p \in 1 .. Len(jlr) : p # place + n
      BY <1>4, <2>2
    <3> QED BY <1>5, <2>1, <3>1
  <2>4. CASE place % 4 = 0 /\ ~(place + 4 <= Len(jlr))
    <3>1. PICK q \in Nat : place = 4 * q
      BY <2>4
    <3>2. 4 * r + 2 <= place
      BY <1>4, <1>6, <2>4, <3>1
    <3>3. 4 * r + 1 # place + n /\ 4 * r + 2 # place + n
      BY <3>2
    <3> QED BY <1>5, <2>1, <3>3
  <2>3. CASE place % 4 = 0 /\ place + 4 <= Len(jlr) /\ IsOf(place \div 4, u)
    <3>1. PICK q \in Nat : place = 4 * q /\ IsOf(q, u)
      BY <2>3
    <3>2. jlr[place + 1] = words[1] /\ jlr[place + 2] = words[2]
      BY <1>3, <3>1 DEF IsOf
    <3>3. CASE n \in {1, 2}
      <4>1. \A p \in 1 .. Len(jlr) : jlr'[p] = jlr[p]
        BY <1>5, <3>2, <3>3
      <4> QED BY <2>1, <4>1
    <3>4. CASE n \in {3, 4}
      <4>1. 4 * r + 1 # place + n /\ 4 * r + 2 # place + n
        BY <1>6, <3>1, <3>4
      <4> QED BY <1>5, <2>1, <4>1
    <3> QED BY <3>3, <3>4
  <2> QED BY <1>3, <2>2, <2>3, <2>4
<1>7. \A r \in Nat : \A v \in Users : 4 * r + 4 <= Len(jlr) => (IsOf(r, v)' <=> IsOf(r, v))
  BY <1>6 DEF IsOf

\* No other user's mark is touched.
<1>8. ASSUME AtRecords, NEW v \in Users \ {u}, kept[v] # Nothing
      PROVE  \E r \in 0 .. Len(jlr') :
               IsFirst(r, v)' /\ kept[v] = <<jlr'[4 * r + 3], jlr'[4 * r + 4]>>
  <2>1. PICK r \in 0 .. Len(jlr) : IsFirst(r, v) /\ kept[v] = <<jlr[4 * r + 3], jlr[4 * r + 4]>>
    BY <1>8 DEF MarksFound
  <2>2. r \in Nat /\ 4 * r + 4 <= Len(jlr) /\ IsOf(r, v) /\ \A s \in 0 .. r - 1 : ~IsOf(s, v)
    BY <2>1 DEF IsFirst
  <2>3. \A s \in 0 .. r - 1 : ~IsOf(s, v)'
    BY <1>4, <1>7, <2>2
  <2>4. IsFirst(r, v)'
    BY <1>4, <1>5, <1>7, <2>2, <2>3 DEF IsFirst
  <2>5. jlr'[4 * r + 3] = jlr[4 * r + 3] /\ jlr'[4 * r + 4] = jlr[4 * r + 4]
    <3>1. 4 * r + 3 \in 1 .. Len(jlr) /\ 4 * r + 4 \in 1 .. Len(jlr)
      BY <1>4, <2>2
    <3>2. CASE Len(jlr) = place + n - 1
      <4>1. \A p \in 1 .. Len(jlr) : p # place + n
        BY <1>4, <3>2
      <4> QED BY <1>5, <3>1, <4>1
    <3>4. CASE place % 4 = 0 /\ ~(place + 4 <= Len(jlr))
      <4>1. PICK q \in Nat : place = 4 * q
        BY <3>4
      <4>2. 4 * r + 4 <= place
        BY <1>4, <2>2, <3>4, <4>1
      <4>3. 4 * r + 3 # place + n /\ 4 * r + 4 # place + n
        BY <4>2
      <4> QED BY <1>5, <3>1, <4>3
    <3>3. CASE place % 4 = 0 /\ place + 4 <= Len(jlr) /\ IsOf(place \div 4, u)
      <4>1. PICK q \in Nat : place = 4 * q /\ IsOf(q, u)
        BY <3>3, SMTT(30)
      <4>2. u = v => FALSE
        OBVIOUS
      <4>3. u \in [user_crc : Nat, user_id : Nat] /\ v \in [user_crc : Nat, user_id : Nat]
        OBVIOUS
      <4>4. ~(u.user_crc = v.user_crc /\ u.user_id = v.user_id)
        BY <4>2, <4>3
      <4>5. r # q
        BY <2>2, <4>1, <4>4 DEF IsOf
      <4>6. 4 * r + 3 # place + n /\ 4 * r + 4 # place + n
        BY <2>2, <4>1, <4>5
      <4> QED BY <1>5, <3>1, <4>6
    <3> QED BY <1>3, <3>2, <3>3, <3>4
  <2>6. r \in 0 .. Len(jlr')
    BY <1>4, <1>5, <2>1
  <2> QED BY <2>1, <2>4, <2>5, <2>6

\* The words of the record that are in place, and that no earlier one is the user's.
<1>9. /\ \A i \in 1 .. 4 : i <= n => jlr'[place + i] = words[i]
      /\ place % 4 = 0 => \A s \in 0 .. place \div 4 - 1 : ~IsOf(s, u)'
  <2>1. ASSUME NEW i \in 1 .. 4, i <= n PROVE jlr'[place + i] = words[i]
    <3>1. CASE i = n
      BY <1>5, <3>1
    <3>2. CASE i # n
      <4>1. i < n /\ place + i \in 1 .. Len(jlr) /\ place + i # place + n
        <5>1. i < n
          BY <2>1, <3>2
        <5>2. Len(jlr) \in Nat /\ place + n - 1 <= Len(jlr)
          BY <1>3, <1>4
        <5> QED BY <5>1, <5>2
      <4> QED BY <1>3, <1>5, <4>1
    <3> QED BY <3>1, <3>2
  <2>2. ASSUME place % 4 = 0, NEW s \in 0 .. place \div 4 - 1 PROVE ~IsOf(s, u)'
    <3>1. s \in Nat /\ 4 * s + 4 <= place
      BY <2>2
    <3>2. Len(jlr) \in Nat /\ place + n - 1 <= Len(jlr)
      BY <1>3, <1>4
    <3>3. 4 * s + 4 <= Len(jlr)
      BY <3>1, <3>2
    <3>4. ~IsOf(s, u)
      BY <1>3, <2>2
    <3> QED BY <1>7, <3>1, <3>3, <3>4
  <2> QED BY <2>1, <2>2
<1>10. CASE n # 4
  <2>1. Go(h, "update", n + 1) /\ kept' = kept /\ update' = update
    BY <1>1, <1>10
  <2>2. TypeOK'
    <3>1. at' \in [Handles -> [op : Ops, step : 0 .. 5]]
      BY <1>10, <2>1 DEF TypeOK, Ops, Go
    <3> QED BY <1>1, <1>5, <2>1, <3>1 DEF TypeOK, base
  <2>3. FilesInv'
    BY <1>1, <1>10, <2>1, FilesLeft DEF In, Solo
  <2>4. MarksFound'
    BY <1>3, <1>8, <2>1 DEF MarksFound
  <2>5. UpdateSound(u, place, words, n + 1)'
    <3>1. place % 4 = 0 /\ place + 4 <= Len(jlr) => (IsOf(place \div 4, u)' <=> IsOf(place \div 4, u))
      BY <1>7
    <3>2. place + (n + 1) - 1 <= Len(jlr') /\ \A i \in 1 .. 4 : i < n + 1 => jlr'[place + i] = words[i]
      <4>1. Len(jlr') \in Nat /\ place + n <= Len(jlr') /\ place + (n + 1) - 1 = place + n
        BY <1>5
      <4>2. \A i \in 1 .. 4 : i < n + 1 <=> i <= n
        OBVIOUS
      <4> QED BY <1>9, <4>1, <4>2
    <3>3. \/ Len(jlr') = place + (n + 1) - 1
          \/ place % 4 = 0 /\ (place + 4 <= Len(jlr') => IsOf(place \div 4, u)')
      <4>1. Len(jlr') \in Nat
        BY <1>5
      <4> QED BY <1>4, <1>5, <3>1, <4>1
    <3> QED BY <1>2, <1>3, <1>9, <2>1, <3>2, <3>3 DEF UpdateSound
  <2>6. UpdatesSound'
    <3>1. at'[h].step = n + 1 /\ \A g \in Handles \ {h} : at'[g].op # "update"
      BY <1>1, <2>1 DEF TypeOK, Go, In, OneAtATime, Solo
    <3>2. UpdateSound(update.user, update.place, update.words, at[h].step)'
      BY <1>2, <2>1, <2>5, <3>1 DEF UpdateSound
    <3> QED BY <3>1, <3>2 DEF UpdatesSound
  <2> QED BY <2>2, <2>3, <2>4, <2>6
<1>11. CASE n = 4
  <2>1. Go(h, "idle", 0) /\ at[h].op = "update"
    BY <1>1, <1>11 DEF In
  <2>2. SubSeq(words, 3, 4) = <<words[3], words[4]>>
    <3>1. 3 \in Nat \ {0} /\ 3 + 1 <= Len(words) /\ 3 + 1 = 4
      BY <1>3
    <3> QED BY <3>1, TwoWords
  <2>3. kept' = [kept EXCEPT ![u] = <<words[3], words[4]>>]
    BY <1>1, <1>2, <1>11, <2>2
  <2>4. TypeOK'
    <3>1. at' \in [Handles -> [op : Ops, step : 0 .. 5]]
      BY <2>1 DEF TypeOK, Ops, Go
    <3>2. <<words[3], words[4]>> \in Seq(Nat)
      <4>1. 3 \in 1 .. Len(words) /\ 4 \in 1 .. Len(words)
        BY <1>3
      <4>2. words[3] \in Nat /\ words[4] \in Nat
        BY <4>1, ElementOfSeq
      <4> QED BY <4>2
    <3>3. kept' \in [Users -> Seq(Nat)]
      BY <2>3, <3>2 DEF TypeOK
    <3> QED BY <1>1, <1>5, <3>1, <3>3 DEF TypeOK, base
  <2>5. FilesInv'
    BY <1>1, <2>1, FilesLeft DEF Solo
  <2>6. \A g \in Handles : at'[g].op # "update"
    BY <2>1 DEF TypeOK, Go, OneAtATime, Solo
  <2>7. place % 4 = 0 => \E r \in 0 .. Len(jlr') :
          IsFirst(r, u)' /\ <<words[3], words[4]>> = <<jlr'[4 * r + 3], jlr'[4 * r + 4]>>
    <3> SUFFICES ASSUME place % 4 = 0
                 PROVE  \E r \in 0 .. Len(jlr') :
                          IsFirst(r, u)' /\ <<words[3], words[4]>> = <<jlr'[4 * r + 3], jlr'[4 * r + 4]>>
      OBVIOUS
    <3>1. PICK q \in Nat : place = 4 * q /\ q = place \div 4
      OBVIOUS
    <3>2. /\ jlr'[4 * q + 1] = words[1] /\ jlr'[4 * q + 2] = words[2]
          /\ jlr'[4 * q + 3] = words[3] /\ jlr'[4 * q + 4] = words[4]
      BY <1>9, <1>11, <3>1
    <3>3. 4 * q + 4 <= Len(jlr') /\ q \in 0 .. Len(jlr')
      BY <1>4, <1>5, <1>11, <3>1
    <3>4. IsFirst(q, u)'
      BY <1>3, <1>9, <3>1, <3>2, <3>3 DEF IsFirst, IsOf
    <3> QED BY <3>2, <3>3, <3>4
  <2>8. MarksFound'
    <3> SUFFICES ASSUME AtRecords, NEW v \in Users, kept'[v] # Nothing
                 PROVE  \E r \in 0 .. Len(jlr') :
                          IsFirst(r, v)' /\ kept'[v] = <<jlr'[4 * r + 3], jlr'[4 * r + 4]>>
      BY DEF MarksFound
    <3>1. CASE v = u
      BY <1>3, <2>3, <2>7, <3>1 DEF TypeOK
    <3>2. CASE v # u
      BY <1>8, <2>3, <3>2 DEF TypeOK
    <3> QED BY <3>1, <3>2
  <2>9. UpdatesSound'
    BY <2>6 DEF UpdatesSound
  <2> QED BY <2>4, <2>5, <2>8, <2>9
<1> QED BY <1>10, <1>11
-----------------------------------------------------------------------------
\* Every step keeps the invariant.
LEMMA InvStep == LifecycleInv /\ [Next]_vars => LifecycleInv'
<1> SUFFICES ASSUME LifecycleInv, [Next]_vars PROVE LifecycleInv'
  OBVIOUS
<1>1. ASSUME NEW h \in Handles, Create(h) PROVE LifecycleInv'
  BY <1>1, CreateStep
<1>2. ASSUME NEW h \in Handles, Delete(h) PROVE LifecycleInv'
  BY <1>2, DeleteStep
<1>3. ASSUME NEW h \in Handles, Write(h) PROVE LifecycleInv'
  BY <1>3, WriteStep
<1>4. ASSUME NEW h \in Handles, Open(h) \/ Drop(h) PROVE LifecycleInv'
  BY <1>4, OpenStep
<1>5. ASSUME NEW h \in Handles, NEW u \in Users, Find(h, u) PROVE LifecycleInv'
  BY <1>5, NothingChanges DEF Find
<1>6. ASSUME NEW h \in Handles, NEW u \in Users, NEW m \in Marks, StartUpdate(h, u, m)
      PROVE  LifecycleInv'
  BY <1>6, StartUpdateStep
<1>7. ASSUME NEW h \in Handles, Store(h) PROVE LifecycleInv'
  BY <1>7, StoreStep
<1>8. ASSUME NEW h \in Handles, Fail(h) PROVE LifecycleInv'
  BY <1>8, InterruptStep DEF Fail
<1>9. ASSUME NEW h \in Handles, Crash(h) PROVE LifecycleInv'
  BY <1>9, InterruptStep DEF Crash
<1>10. CASE UNCHANGED vars
  BY <1>10, NothingChanges DEF vars, reads
<1> QED BY <1>1, <1>2, <1>3, <1>4, <1>5, <1>6, <1>7, <1>8, <1>9, <1>10 DEF Next

\* The inductive invariant holds of every base and its last-read file.
THEOREM Inductive == Spec => []LifecycleInv
BY InvInit, InvStep, PTL DEF Spec

\* A base whose header is in place has all its files, wherever its deletes and
\* all its creates but the last were cut short; nothing is said of a base whose
\* last create did not return Ok.
THEOREM OpenableStaysWhole == Spec => []OpenableIsWhole
<1>1. LifecycleInv => OpenableIsWhole
  OBVIOUS
<1> QED BY <1>1, Inductive, PTL

\* What delete_message_base has removed does not come back.
THEOREM DeletedStaysGone == Spec => []DeletedIsGone
<1>1. LifecycleInv => DeletedIsGone
  OBVIOUS
<1> QED BY <1>1, Inductive, PTL

\* If the programs put new records behind the last whole one, find_last_read
\* finds every mark that was stored with Ok, however long the last-read file
\* is, whoever else stores and whatever was cut short in it.
THEOREM LastReadStays == ASSUME AtRecords PROVE Spec => []LastReadKept
<1>1. LifecycleInv => LastReadKept
  BY MarksAreFound
<1> QED BY <1>1, Inductive, PTL
=============================================================================
