# A verification of jamjam

jamjam is a Rust library for three families of BBS message files: JAM message
bases (read and written), PCBoard message bases (read, locked) and QWK packets
(read and written), with converters from the last two to the first. This
directory holds TLA+ modules translated from its source, TLC configurations that
check them on small instances and TLAPS proofs for every instance.

`PROJECT.json` says which lines each definition stands for, what each run checks,
which hazards of the code it is aimed at, and which disagreements between code
and documentation it shows.

## The system

| part | source | state | operations |
|---|---|---|---|
| JAM messages | `src/jam/mod.rs` | .JHR, .JDT, .JDX | `write_message`, `delete_message`, `restore_message`, `read_header`, `read_headers`, `read_msg_text`, `search_message_index`, `iter` |
| JAM fixed header | `src/jam/jhr_header.rs` | first 1024 bytes of .JHR; a copy in each handle | `create`, `load`, `update` |
| JAM base on disk | `src/jam/mod.rs` | four files | `create*`, `open`, `delete_message_base` |
| JAM lock | `src/jam/mod.rs` | one flag in each handle | `lock`, `unlock` |
| JAM last read | `src/jam/last_read_storage.rs` | .JLR; `last_read_record` in the handle | `read_last_read_file`, `find_last_read` |
| JAM header codec | `src/jam/msg_header.rs` | none | `read`, `write`, subfields, builder |
| PCBoard base | `src/pcboard/` | base file with counts and lock bytes, index; a copy of the counts in each handle | `open`, `lock`, `unlock`, `is_locked`, `read_message`, `iter` |
| QWK packet | `src/qwk/` | CONTROL.DAT, MESSAGES.DAT, *.NDX | `open`, `read_conference_mail`, `iter`, message and control writers |
| conversions | `src/conversion/` | maps from message numbers | `convert_pcboard_to_jam`, `convert_qwk_to_jam` |
| utilities | `src/util/` | none | BASIC reals, CRC-32, echomail addresses |

The parts meet in files. A program that opens a JAM base gets a
`JamMessageBase`, called a handle here: a path, a copy of the fixed header, and
a lock flag. Every call opens the files anew. Handles of one program or of
several share nothing but the files. The converters are programs that write
each message with `write_message` and then call `write_jhr_header` once.

What is hard here:

- **Several operations for one effect.** `write_message` appends to three files
  in five operations after it has counted the message in memory. A failure or a
  crash can stop it anywhere, and other handles run between any two.
- **Stale copies.** The range check of every lookup uses the handle's copy of
  the count, and `write_jhr_header` writes that copy back whole. `delete_message`
  writes back a whole message header it has read before.
- **Positions taken before they are used.** The offsets of a text and a header
  are file lengths read before the append.
- **Files that come and go one by one.** A base is four files; a create or a
  delete that is cut short leaves some of them, and handles that were opened
  before do not notice.
- **Readers beside writers.** An iterator takes the size of a file once and reads
  on while messages arrive in two pieces; what it cannot understand it steps over
  or stops at.
- **Numbers in 32 bits.** Offsets, lengths, counters; BASIC reals in PCBoard and
  QWK files; block counts in a byte.

What makes each part correct:

- JAM messages: a header keeps its text; an index record leads to its header; what
  a number has led to it goes on leading to; a successful write adds exactly one
  message, a failed one none; a deleted message can be restored; a scan finds what
  is counted.
- Fixed header: counts never go back, and a program that finds its `mod_counter` on
  disk has missed no message; each counted message has a valid number.
- Base on disk: what can be opened is whole; what was deleted does not come back.
- Last read: a user finds the mark that was stored last, wherever another store was
  cut short.
- Lock: one thread of a handle at a time, and of those that spin one gets in when
  the holder leaves.
- Iterators: every message that was whole at the call, or the error of one that
  cannot be read, in order, nothing else, and an end.
- PCBoard base: locking keeps the counts; a number in range leads to its message.
- Codecs: what is written is read back; every input ends in a value or an error.
- Conversions: each message arrives once, in order, linked to what it replies to; a source that cannot be read leaves the destination alone.

## Modules

| module | what it is |
|---|---|
| `JamLog` | what a base promises: an append-only log of messages with deleted flags; a call takes effect in the step in which it returns, or not at all |
| `JamBase` | the base, file operation by file operation, with several handles, faults and crashes; its properties stand at the end |
| `JamBaseInductive` | the inductive invariants and the assumptions they hold under |
| `JamBaseProofs` | type correctness, the invariant and what follows from it; answers that stay; the counts of programs that flush current copies; `JamBase` implements `JamLog` |
| `JamLock`, `JamLockProofs` | the flag of each handle and the threads that spin on it; the lock of a handle admits one thread at a time |
| `JamLifecycle`, `JamLifecycleProofs` | the four files from `create` to `delete_message_base`, the last-read file, and the proofs about both |
| `JamHeaderCodec` | message headers and subfields as bytes, and the builder of messages |
| `MessageIter` | a walk over the messages of a growing file: the iterators of JAM, PCBoard and QWK bases and the loops that read until an error |
| `Conversion`, `ConversionProofs` | both converters; extends `MessageIter` for what they read and instantiates `JamLog` for what they write; the proofs about walks and conversions |
| `PcbBase`, `PcbBaseProofs` | a PCBoard base with its indices and lock, handles with decoded copies of its counts, and PCBoard posting; its invariant and the proofs |
| `PcbMessage` | extended headers and text of a PCBoard message; status, attributes and names on the way to JAM |
| `QwkPacket` | QWK messages, indices and control.dat, read and written |
| `BasicReal`, `Crc32`, `EchomailAddress` | the pure algorithms of `src/util` |
| `Crc32Tables` | the 4096 words that `crc32.rs` spells out, as they stand there, and what each is to be |
| `ArithmeticProofs` | powers of two and BASIC reals of any width; recursion and folds; the CRC of any bytes |
| `FormatsProofs` | what the other pure modules compute, for any input and for those of the run |
| `MCJamBase`, `MCJamLock`, `MCJamLifecycle`, `MCConversion`, `MCFormats`, `MCTables` | small instances for TLC; `MCFormats` has one input per state, and `MCTables` adds the words of `Crc32Tables` to it |

How they meet: `PcbBase` and `QwkPacket` extend `BasicReal`, because counts, index
words and block numbers are BASIC reals there; `Conversion` is composed of a
reader (`MessageIter`) and a writer that is a client of `JamLog`, which `JamBase`
is proved to implement, so that files need not appear in it twice.

In `JamLock`, `locked[h]` is the `AtomicBool` of handle `h`, `at[t]` where a thread
is. `Call` enters `lock`; `Swap` is the swap that finds the flag clear (one that
finds it set changes nothing); `Unlock` is `unlock` by a thread that has locked.

### JamBase and the code

| in `JamBase` | in the code |
|---|---|
| `jhr`, `hdrs` | the .JHR file: fixed header, message headers |
| `jdt`, `jdx` | the .JDT file; the words of the .JDX file |
| `header_info[h]` | `JamMessageBase::header_info` of handle `h` |
| `pc[h]`, `header[h]`, `offset[h]`, `record[h]` | where a call of `h` is, and its locals |
| `ret[h]`, `faults` | the answer of the last call; how many faults have struck |
| `WriteMessage`, `AppendText`, `ReadHdrLen`, `AppendHeader`, `AppendCrc`, `AppendOffset` | `write_message`, one action for each operation on a file |
| `FlagRefused`, `AlreadyFlagged`, `FlagStart`, `FlagWrite` | `delete_message` and `restore_message`: lookup, then rewrite of the header |
| `Open`, `Drop`, `WriteJhrHeader`, `ReadJhrHeader` | the calls of those names, and the end of a handle |
| `Fail`, `FlushFails`, `RestoreLost`, `Crash` | an operation that returns `Err` through `?`, one whose error is lost in a dropped buffer, a program that dies |
| `Located`, `ReadHeader`, `ReadMsgText`, `SearchMessageIndex` | the reading calls; `ReadHeader` adds the refusal of a deleted message; `read_headers`, which reads until an error, is a walk of `MessageIter` |

Abstractions, and why they lose nothing the properties tell apart:

- A message is its recipient, its text and the deleted flag it is written with.
  The other fields travel with it unread.
- A header is one slot of `hdrs`; its offset counts slots. A header whose write
  was cut short stays as a slot that is not `whole`. The model takes it that such
  a fragment never reads as a header; in the file it might, if what follows
  completed it, but no index record ever points there.
- A text is a sequence of cells. A cut leaves any non-empty part of it.
- The words of an index record are numbers, and `search_message_index` reads
  their little-endian bytes (`IndexWord`), because it does not read them at word
  boundaries.
- A header is rewritten in place in one step: between the two versions one bit
  differs, so a torn rewrite is one of them. `BufWriter` passes the fixed
  header, 16 bytes, in one write.
- The lookup of `delete_message` (index, then header) is one step. Between the
  two reads other handles can only append, or change the flag that is read last.
- A call that fails before its first effect changes nothing, and is no step.
- `ret` and `faults`, with `Fault` and `OpOf`, are history and a bound: no code.
- An error while a `BufWriter` is dropped after a failed flush may still write
  what was left; those outcomes are among the ones `Cut` allows.
- `Offsets` and `Counters` stand for 2^32. `active_msgs` is a natural number: it
  grows by at most `MaxHdrs + MaxFaults`.

Environment, as constants: `SingleWriter` says that the programs keep
`write_message` calls apart; the code does not, because its lock is a flag in each
handle, and JAM.txt asks it of the programs. `CheckedFlush` says that they call
`write_jhr_header` only while their `mod_counter` is the one on disk, which JAM.txt
asks of them as well; the code compares nothing. `Faults` and `Cuts` say what can go
wrong; `MaxCounter` keeps `mod_counter` from wrapping where a run or a theorem says so.
`BaseMsgNum` above 1 stands for a base that another program has packed.

A definition named `X_Y` below the word "Mutant" is `X` with a bug. Replacing
`X` by it makes the property that is paired with it in `PROJECT.json` fail.

### JamLifecycle and the code

| in `JamLifecycle` | in the code |
|---|---|
| `files`, `torn` | which of the four files exist; a .JHR file cut short before its signature |
| `at[h]` | the call of handle `h` and the file operation it has reached |
| `jlr`, `last_read_record[h]` | the words of the .JLR file; the field of that name |
| `Create`, `Delete` | `create_with_passwordcrc`: four writes and `open`; `delete_message_base`: four removals that end at the first error |
| `Write` | `write_message` as far as it needs its files: it opens three to append, and one that is missing ends it |
| `Find` | `find_last_read` |
| `StartUpdate`, `Store` | a program that stores a mark with `JamLastReadStorage::write`, word by word, over the user's record or at `NewPlace` (the library has the write, not the choice of the place) |
| `Fail`, `Crash` | an operation that fails, a program that dies; the file `create` was writing is there, empty, or not |

`cut`, `gone`, `kept` and `update` are history: has the last create returned, has a
delete returned since, what did each user store last, what is being stored.
`AtRecords` says that programs put a new record behind the last whole one, over what
is left of one that was cut short; without it they append at the end of the file.
`Alone` is what the programs have to see to: creates, deletes and updates of the
last-read file exclude each other. Calls of `write_message` do not take part in
it. Without it two creates or a create and a delete meet half-way and leave any of
the files.

### MessageIter, Conversion and the code

A file is a sequence of cells; a message is a fixed part, which says how long the
message is, and a tail: header and subfields of a JAM message, header and blocks of a
PCBoard or QWK message. `Grow` is another program: it appends the fixed part, then the
tail, or dies between the two. `Begin` opens the file and takes its size; `Step`
is one call of `next` or one turn of a loop `while let Ok`. `Outcomes` says what a
read gives and where it leaves the reader: `read_exact` at the end of the file
takes what is left; a header whose fixed part is refused has been consumed but not its
tail; subfields or extended headers that are refused have been consumed; and cells
that are no message are read as anything. `sound` and `parses` say which of a message's
two parts can be understood. `heads` is history: which message begins at which cell. What a read makes of cells
that are no message is why `InStep` is a precondition of the properties about order: behind
half a message, or a refused fixed part that has a tail, the readers of this code are out
of step for good.

`Conversion`: `StartRead`, `ReadOne`, `LinkCrcs` and `LinkReply` are
`convert_pcboard_to_jam` up to the JAM base, with the `BTreeMap` and the `HashMap` as
functions. `LinkCrcs` is the first pass, over all messages, and collects the replies in
`reply_next`; each `LinkReply` takes the next of them and may set the `reply1st` of what it
answers. `Create` empties the destination, or fails and may have emptied it; `Write` puts the
messages into a `JamLog`, any of whose writes may fail; `Flush` is
`write_jhr_header`. `StartQwk` is `convert_qwk_to_jam`, which adds to an open base and
leaves texts and references behind. The number 0 stands for "none" in `reply_to` and
`reply1st`, as it does in the code. `StartWalk` and `Walk` are a reader that only reads.

### PcbBase and the code

| in `PcbBase` | in the code |
|---|---|
| `header` | the first block: four words, BASIC reals, and the lock bytes |
| `blocks`, `index`, `old_index` | message file, .IDX, .NDX |
| `copies[h]` | `PCBoardMessageBase::header_info` of handle `h` |
| `Reload` | `open` and `is_locked` |
| `SetLock` | `lock`, `unlock`: the copy is written, decoded as it is, or the unflushed buffer loses it |
| `FindRecord`, `ReadBlocks` | `read_message`: range check and index record, then the message |
| `ReadOldIndex`, `ReadIndex` | the calls of those names |
| `Post` | PCBoard itself, which posts when the base is not locked (external) |

### The pure modules

Each translates functions and adds a definition of what they ought to compute:

| module | width | reference |
|---|---|---|
| `BasicReal` | any mantissa (`MantBits`), a word is 9 bits wider; 23 in the code | the leading bits and the sign of a number; the value of a word |
| `Crc32` | as in the code, the tables computed; `Crc32Tables` has the literals | the register divided bit by bit by the polynomial |
| `EchomailAddress` | any largest part and base; u16 and 10 in the code | three or four numbers with the separators between them |
| `JamHeaderCodec` | any number of byte values; 256 in the code | the same header; a row of whole subfields |
| `PcbMessage` | units of 8 bytes, as extended headers are 9 and blocks 16 of them | the layout that PCBoard writes |
| `QwkPacket` | bytes | the layout that a mail door writes |

## Runs

| run | instance | states | shows |
|---|---|---|---|
| `flush` | 2 handles that flush current copies only; failing calls, crashes, lost restores | 968 000 | `FlushKeepsCount`, the count on disk never falls; `ModDetectsChange`, an equal `mod_counter` means that no message was missed |
| `shared` | 2 handles, writers apart; failing calls and flushes, crashes, cut texts and headers | 178 000 | `HeadersOwnText`, `IndexSound`, `FilesGrow`; `AnswersStay`: what a number leads to stays, until it is deleted or restored; `LogSpec`, the refinement of `JamLog`; the inductive invariant `IInv` |
| `lock` | 3 threads on one handle, 2 on another | 160 | `Exclusion`; `SpinnersGetIn`, one spinning thread after the other gets in |
| `life` | 2 handles, 2 users whose names share a CRC, 2 marks, 8 words | 584 000 | `OpenableIsWhole`, `DeletedIsGone`, `LastReadKept`; the inductive invariant `LifecycleInv` |
| `pcb` | 2 handles, messages of 1 and 3 blocks, 3 of them | 982 000 | `NumbersRead`, `OldIndexAgrees`; the inductive invariant `PcbInv` |
| `convert` | files of up to 3 messages that answer nothing, themselves, earlier or later ones, or of which a part is refused; a create and writes that fail; appends up to 8 cells | 2 115 000 | `WalkInOrder`, `WalkComplete`, `WalkEnds`; `ArriveInOrder`, `RepliesLinked`, `FirstReplyFirst`, `SourceReadFirst`; the inductive invariant `ConvInv` |
| `formats` | one input per state | 35 400 | `RealsKeepLeading`, `RealsDecode`, `CrcOfBuffers`, `PasswordsHold`, `AddressesRoundTrip`, `AddressesParse`, `HeadersRoundTrip`, `SubfieldsFill`, `BodiesRead`, `StatusesKept`, `RecipientsWhole`, `DoorMessagesRead`, `ConferencesRead`, `ControlsRoundTrip`; of the 4096 words of `CRC32_TABLE`, `TablesArePolynomial` |

All but `convert` and `formats`, which end, check for no deadlock too.

### Bounds

- `JamBase`: two headers make an order of records, a predecessor and a successor,
  and a rewrite that hits the wrong one. Four text cells hold two texts and a
  fragment. One fault at a time reaches each of the states a fault leaves, and the
  calls that run over it; more faults repeat them. `Offsets = 8` is above every
  offset in use. `Counters = 1` removes `mod_counter` where nothing depends on it;
  in `flush` four values, of which the last starts
  no flush, give each handle more than one between two of the other's.
  Two names share a CRC. The handles are symmetric: no property names one.
- `JamLifecycle`: `MaxWords = 8` holds two records, or one and a half that was cut
  short with a record behind it. Files are created and deleted again and again
  without a bound.
- `PcbBase`: `MantBits = 5` keeps every count and block number exact, as 23 does in
  the code; messages of three blocks put the next one where no multiple of a size
  leads. `MaxMsgs` is also the length of the old index, so it is seen full.
- `Conversion`: three numbers let a reply come before, after and between what it
  answers, two messages share a number, and chains close. `Fixed = 2` lets a read
  end inside a fixed part. A late append fits behind files of one or two messages.
- `formats`: every word of a BASIC real of 14 bits; buffers of 0 to 35 bytes, which
  is 0, 1 and 2 rounds and every remainder; every text of up to 5 characters that
  could be an address, and longer ones that begin well, with parts up to 7 in base 3;
  passwords that differ in case, in one letter, in length, and of 17 bytes, which go
  through a round of 16; texts of a QWK message with a blank line first and without;
  up to two subfields with known and unknown types; subfield data with lengths below,
  at and past the end; up to four extended headers, 36 units, which cross
  two block boundaries; text that ends before, at and behind the end of a block.

### Fairness

`JamBase`, `JamLifecycle` and `PcbBase` have none: their properties are about what
a step may do, a program may stop at any time, and no call waits for another.
`JamLock` has weak fairness of `Swap` and `Unlock` for each thread. A spinning thread
runs again and again, so it cannot pass over a flag that stays clear; weak
fairness asks no more. A strong fairness of `Swap` would promise each thread its
turn, which the code does not: the swap may find the flag set every time. That
holders unlock is what the comment of `lock` asks of its users, and `SpinnersGetIn`
needs it: with a holder that stays in nobody passes. `Conversion` has
weak fairness of `Walk`: a loop over an iterator, once begun, calls `next` again.
That it comes to its end although others append for ever hangs on the size that
`iter` takes once.

### Preconditions in the properties

Each leaves out inputs for which the code gives something else, and says so above its
definition: `KeepsLeading` the number 0x7F_FFFF, at which neither loop normalises,
and `i32::MIN`; `DecodesWhole` words of 32 bits and more; `StatusesKept` the unread comment, which is
of the table and is marked read; `ControlsRoundTrip` the `zero_line`
that `write` replaces by 0; `NumbersRead` the number 0, for which
`num - 1` underflows when the counts allow it; `ConferenceMailIs` index words of 0;
`OpenableIsWhole` a base whose last create was cut short. `LastReadKept` holds under
`AtRecords`, `FlushKeepsCount` and `ModDetectsChange` under `CheckedFlush` (`stale_flush`
shows why) and while no flush fails.

### Runs that end in a violation

Each is a disagreement between the code and what it says:

| run | what TLC finds |
|---|---|
| `failed_write` | after a failed `write_message` the valid range holds a number without a record |
| `search_offsets` | from the second record on `search_message_index` reads across two words |
| `pcb_lock` | `lock` writes counts as plain numbers that the next `load` decodes as BASIC reals |
| `qwk_write` | a QWK message that was written is read with other numbers and without its text |
| `stale_flush` | two programs that opened the same header and both flush leave one `mod_counter` for two different counts |

More are visible in the models and have no run:

- A flush that fails has counted in memory. With `"flush"` in `Faults`, `ModDetectsChange`
  and `FlushKeepsCount` fail under `CheckedFlush`, too: after a flush of another program
  the stale copy passes for current, and takes the count back.
- One header that a crash cut short, or any other that is refused, ends the loop of
  `read_headers` (a scan in `MessageIter`): all later messages are missing from what it
  returns, though `active_msgs` counts them and `read_header` finds them.
  `src/src/jam/tests.rs:18` takes the two for equal.
- `restore_message` writes through a `BufWriter` that it never flushes (`mod.rs:373`): it
  returns `Ok`, the write is lost in the drop, and the message is still deleted. With
  `"lost"` in `Faults`, `LogSpec` fails at `RestoreLost`.
- On a base that another program has packed (`BaseMsgNum` 2, one message) `read_header`
  compares the number with the count alone (`mod.rs:270`) and refuses 2, the only one
  there; the comment at `mod.rs:107` has `base_msg_num` for the lowest number.
- A mark appended behind a record of the last-read file that was cut short is not found:
  with `AtRecords` FALSE, `LastReadKept` fails.
- A comment to the sysop that nobody has read arrives as read (`src/src/pcboard/mod.rs:115`
  against `src/src/pcboard/message_header.rs:29`); `StatusesKept` names it.
- TZUTCINFO is 2004 in `src/doc/jam/JAM.txt:356` and 2204 in the code, which reads 2004 as
  an unknown subfield (`CodeOf`).
- The blank line that ends the kludges of a QWK message (`qwk_message.rs:212`, and
  `src/doc/qwk/qwke.txt:49-50`) is read as the first line of the text, as
  `DoorMessagesRead` says.
- `zero_line` of a control.dat, which `control.rs:39-44` keeps because some doors use it,
  is written as 0 (line 173), as `ControlsRoundTrip` says.
- `delete_message` leaves `active_msgs`, the "Number of active (not deleted) msgs",
  as it is; the field is also the upper bound of the valid numbers.
- `search_message_index` returns what stands in the index file, not message numbers.
- Two handles, each locked by its own flag, write at once; without `SingleWriter` a
  header gets the other's text.
- With `"index"` in `Cuts` (a fault between the two `write_all` of an index record)
  every later record is read one word off, and `IndexSound` fails.
- With a text file past 2^32 bytes the offset is cut (`as u32`) and `HeadersOwnText`
  fails.
- `restore_message`, `lock` and `unlock` of PCBoard and the writer of last-read
  records are not atomic; what a crash leaves is in `Cut`, `SetLock` and `Store`.
- An extended header with an unknown function, and a QWK kludge without an end of
  line, make the reader panic (`Panic` and `QwkErr` in the models).
- An iterator over a base that another program empties meanwhile gives errors for
  ever: its size is that of the old file. Files only grow in `MessageIter`.

## Proofs

All theorems hold for any sets of handles, names, users, messages and faults, and
any bounds.

| theorem | under | says |
|---|---|---|
| `JamBaseProofs!TypeCorrect` | | `Spec => []TypeOK` |
| `JamBaseProofs!Inductive` | `Discipline` | `Spec => []IInv` |
| `IndexIsSound` | `Discipline` | every index record leads to a whole header with its CRC, in order |
| `HeadersOwnTheirText` | `Discipline` | every whole header keeps its text |
| `FilesOnlyGrow` | `Discipline` | no step takes back what is on disk but the deleted flag |
| `AnswersAreKept` | `Discipline` | what `read_header` has answered a handle goes on answering, until that record is deleted or restored; cut headers and lost restores included |
| `CountIsKept` | `FlushDiscipline` | the count on disk never falls, however many programs flush |
| `ChangesAreDetected` | `FlushDiscipline` | a handle whose `mod_counter` is the one on disk has missed no message counted there |
| `ImplementsLog` | `Reliable` | `Spec => LogSpec` |
| `LockExcludes` | | threads that share a handle are past its lock one at a time |
| `JamLifecycleProofs!Inductive` | | `Spec => []LifecycleInv` |
| `OpenableStaysWhole` | | once a create has returned, a base that opens is whole, wherever deletes are cut short; one whose last create was cut short is excepted |
| `DeletedStaysGone` | | nothing of a deleted base comes back |
| `LastReadStays` | `AtRecords` | a mark that was stored is found, wherever other stores were cut short |
| `PcbInvariant` | | `Spec => []PcbInv` |
| `NumbersAreRead` | | a number that a handle counts is read as the message of that number |
| `OldIndexIsRight` | | both indices lead to the same messages, a posting apart |
| `ConvInvariant` | | `Spec => []ConvInv` |
| `WalksInOrder`, `WalksComplete` | | a walk in step gives what is in the file, in order; `iter` ends when it has given all that was whole when it began, with errors for what cannot be read, and a loop ends before only at such an error |
| `SourcesReadFirst` | | a source that cannot be read costs the destination nothing |
| `MessagesArrive` | | each message arrives once, in order; a failed write leaves the first of them |
| `RepliesAreLinked`, `FirstRepliesFirst` | | a reply carries the id of what it answers; what is answered leads to its first reply |
| `NumbersKeepLeading`, `WordsDecodeWhole` | | BASIC reals of any width keep the leading bits of a number; a word is read as its whole part |
| `BodiesAreLaidOut` | the headers have known functions, the text does not look like one | any extended headers and any text are read as they were laid out |
| `MailIsThatOfTheIndex` | block numbers are ones that a BASIC real holds | the mail of a conference is that of its index, of any messages anywhere |
| `ControlsAreKept` | fewer conferences than `ConferenceCounts` | control.dat is read as it was written, whatever its lines are, but for its `zero_line` |
| `CrcIsThatOfPolynomial` | | rounds of 16 bytes and the loop over the rest give the CRC-32 of any sequence |
| `SubfieldsAreWhole` | | any bytes are subfields from end to end and lose nothing, or are refused |
| `HeadersAreReadBack` | | a header of any words and any subfields that fit is read as it was written |
| `ParsesTheGrammar` | | any text is parsed as an address exactly if the grammar has it and its parts fit |
| `AddressesAreReadBack` | | any address is parsed from the text it is displayed as |
| `RecipientsAreWhole` | | any extended headers give the recipient their last "To" and what follows it say |
| `DoorMessagesAreRead` | `IsDoorMessage`: fields fit or have a kludge, no name that goes into a kludge has a line feed, a carriage return or a `PCB_TXT_EOL` in it, the text does not begin as a kludge does and has no `PCB_TXT_EOL` | any message of a mail door is read as it was, with any kludges in any order; behind its text are blanks only; a blank line behind the kludges is the first line of that text |
| `RealsAreKept`, `RealsAreDecoded`, `BodiesAreRead`, `ConferencesAreRead`, `ControlsAreRead`, `StatusesAreKept`, `BuffersAlwaysSummed`, `SubfieldsAlwaysFill`, `HeadersAlwaysRoundTrip`, `AddressesAlwaysParse`, `AddressesAlwaysRoundTrip`, `RecipientsAlwaysWhole`, `DoorMessagesAlwaysRead` | `Hidden > 11` for the mail, `ConferenceCounts > 3` for control.dat | the properties of the same inputs that the run checks, for any mantissa, count, byte, digit and part |

Every theorem also rests on the named assumptions that a module makes on its
constants, which TLC evaluates in each run: `SizesAssumption`, that the blocks of
a PCBoard base have numbers a BASIC real holds exactly; `MsgsAssumption` and
`SourceAssumption`, what a message is; the types of users, marks and handles.

`Discipline`: writers exclude each other, no fault separates the two words of an
index record, the files stay within the offsets. `Reliable` adds that no restore is
lost. Each is needed, as the list above says. `FlushDiscipline`: a program flushes only
a copy with the counter of the disk, no flush fails half-way, and `mod_counter`, 2^32
values in the code, does not come round while a handle is open. The run `stale_flush` shows
what the first is for.

`IndexSound` is not inductive: it says nothing of a call half-way. `IInv` adds

- `OneWriter`, at most one handle inside `write_message`;
- `FilesFit`, which keeps `% Offsets` from cutting an offset;
- `TextsHeld`, each whole header's text is in the text file cell by cell (a form
  that an append visibly keeps; `HeadersOwnText` follows by comparing slices);
- `WriterSound`, what the writer has done: its text ends the file, its header is
  at its offset beyond all indexed ones, its CRC is the odd word at the end;
- `IndexAligned`, the index has half a record exactly while a writer is between
  its two words;
- `FlagSound`, a header about to be written back is the one on disk but for the
  flag: headers change in nothing else, so a stale copy does no harm.

Each action has a lemma for each part it can disturb; the refinement maps each
action to a step of `JamLog` or to a stutter: `AppendOffset` is `Written`,
everything before it in `write_message` is invisible.

`OpenableIsWhole` and `DeletedIsGone` become inductive with `Progress`, which says
what a create has made and a delete has removed so far, and `OneAtATime`, by which
nobody else undoes it: the other calls only append to files that are there. The
header comes first in `Created` and in `Removed`, and that is the whole of the
argument for the first property: while a file is missing, either `cut` holds or the
header is gone.

`LastReadKept` speaks of the first record of a user by `CHOOSE`. `MarksFound` says
it, for programs that keep to `AtRecords`, with a witness, `IsFirst`: a record that is
the user's, none before it is. The
two are tied by one lemma, whose only difficulty is that a set of record numbers
that is not empty has a least one (`WellFoundedInduction`). `UpdateSound` says what a store under
way has written: the words so far are in place, and either they end the file, or
they lie over a record that was the user's already. So a store never turns the
record of one user into the record of another, and a record it adds comes
after every record that was found.

The counts rest on `CopyInv`: the counter of a copy is never ahead of the one on disk,
and a copy that is level with the disk counts at least what is counted there. A flush of
a level copy moves the disk one ahead of every other copy, `Open` and `ReadJhrHeader`
make a copy level by taking all of it, and `write_message` only adds. `AnswersAreKept`
rests on `IInv`, `FilesGrow` and `BaseKept`, by which every copy numbers messages like
the disk: the record of a number stays, so does its header but for the flag, and the
flag is changed by `FlagWrite` alone, at the record that `FlagSound` says.

`NumbersRead` becomes inductive as `PcbInv`. `IndexLeads` follows a posting: the
message has its blocks before it has an index record. `CountsBehind` says that no
count, on disk or in a copy, decoded or not, names a message that the index does
not have: `lock` and `unlock` store plain numbers where BASIC reals belong, and such a
number is read as 0 (`SmallIsNoReal`), which does no harm to reading. `BlocksWhole`
keeps block numbers small enough to be exact in the old index, by `SmallExact`.

`ConvInv` has three parts. Of a walk: the cells of the file are those of `heads`
(`LaidOut`), and the reader stands where the last message it gave ends, or has met the
end of the file (`WalkInv`). Of the maps: each number has the last message of that
number (`LastKept`), and after `n` turns of the second pass each `reply1st` is the least
of the replies noted so far, because the ones not yet noted are greater (`LinkInv`). Of
the writes: what is in the destination and what is still queued are, one behind the
other, the messages that are meant (`WriteInv`). That a set of numbers has one
ascending order, which `Ascending` chooses, is a lemma of its own.

BASIC reals are proved from powers of two, whose laws come from counting subsets:
shifts that stay inside the word are products and quotients; the loops of
`u32_to_basicreal` stop at one place, which `Excess` and the room on the left
determine; `Encoded` and `Decoded` put sign and exponent on and take them off.

For the lock, `Exclusion` is strengthened by "whoever is past the lock has left the
flag set".

A recursive function or a fold is defined by `CHOOSE`, so nothing is known of it
before some function is shown to satisfy its equation. `Recursion` shows that for
any function of smaller arguments, by induction over finite sets (`LeastNumber`,
`NatInduct`); `FoldsLeft` and `FoldsRight` follow, since a fold is a function of the
set of indices that are left. A fold takes an operator, which no lemma here can
have for a parameter: each use derives its own steps (`SlowSteps`, `NumberSteps`,
`ParserSteps`, `NameSteps` and others) and goes on by induction over them.

- CRC: a byte goes through the register by eight shifts, and shifts go through
  exclusive or (`EightShiftsLinear`). So the table `k` is `k` times eight shifts of a
  byte (`TableOfPowers`), and after `i` of the 16 look-ups of a round what is left to
  do to the register is the same as byte by byte (`RoundKept`).
- Subfields: `ReadSubfields` walks from head to head; `WalkKeeps` says that what a
  walk reads is written as the bytes it went over. The other way, `RowIsRead`: heads
  that lead to one another up to the end are read as they stand, so what is
  written is read back (`SubfieldsReadBack`), and a header with it.
- Addresses: `Reads` says what the parser knows after each character in terms of
  where separators stand (`IsParse`, `ReadsOn`). A text that splits is one that fits
  (`SplitFits`, `FitsSplit`), and digits stand for their number (`DigitsStand`).
- Recipients: after the last "To" each header appends its `SecondPart` to what is there.
- Door messages: pieces of known lengths are read where they stand (`PiecesAreRead`);
  what `Resized` or a door has filled with blanks is trimmed again (`NameIsRead`), and
  digits are read as their number (`NumberIsRead`). The text is the lines of the kludges
  and what is behind each of them (`DoorTextIs`, with `Tails`). After `i` turns of the loop
  the message is `TakenTo(i)`: the first `i` kludges are in its fields, its text is what is
  behind the `i`-th (`StepTakes`). The loop is over after `Len(long)` turns, and there
  are lines enough for as many (`LinesEnough`). `RunMessageIs` shows that the messages of
  the run are of the kind the theorem is about.

Only model-checked: `SpinnersGetIn` and `WalkEnds`, which are liveness under
fairness and out of the prover's reach; `PasswordsHold`, which is not true of
all passwords: two may have one CRC, and those of the run are checked to have none
in common; and `TablesArePolynomial`, which has no constants: the run looks at every
word there is. The theorems about the CRC speak of the computed tables, and
that property ties these to the literals.

## Not modelled

- The buffers of `BufReader`: a read goes to the file as it is. A buffer that was
  filled before an append shows an older state of a file that only grows; a header
  that is rewritten meanwhile shows its old deleted flag.
- Creates, deletes and last-read updates of several programs at once (`Alone`), and
  creates over a base that others write messages to, as far as the contents of the
  files go: `JamLifecycle` knows only that they are there.
- The fields of headers that no operation decides on: dates, times, echo flags,
  net tags, creation dates. They travel unread. Wording of errors, display, logging.
- The text of messages below the level of cells, units or bytes, and the parsing of
  dates by `chrono`.
- `unlock` by a thread that has not locked, which the code leaves to its users.
- `src/examples/read_jam.rs`, which prints a base and keeps no state.

## Next

What could be proved further: that the CRC tells two passwords of one length apart
if they differ in one letter, since a byte goes through the register one-to-one.
