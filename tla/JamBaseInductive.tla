-------------------------- MODULE JamBaseInductive --------------------------
(***************************************************************************)
(* The inductive invariant behind IndexSound and HeadersOwnText.  It says  *)
(* how far every call has come and what it has put on disk so far; TLC     *)
(* checks it on small instances and JamBaseProofs proves it.               *)
(***************************************************************************)
EXTENDS JamBase

\* What the programs and the disk have to see to: write_message calls exclude
\* each other, no fault comes between the two words of an index record, and
\* the files stay within the offsets that a u32 can hold.
Discipline ==
  /\ SingleWriter
  /\ "index" \notin Cuts
  /\ MaxHdrs <= Offsets
  /\ MaxText < Offsets

OneWriter ==
  \A g, h \in Handles : pc[g] \in WritePcs /\ pc[h] \in WritePcs => g = h

FilesFit == Len(jdt) <= MaxText /\ Len(hdrs) <= MaxHdrs

\* The text of a header is in the text file, cell by cell.
HoldsText(hd) ==
  /\ hd.offset + Len(hd.msg.txt) <= Len(jdt)
  /\ \A k \in 1 .. Len(hd.msg.txt) : jdt[hd.offset + k] = hd.msg.txt[k]

TextsHeld == \A i \in DOMAIN hdrs : hdrs[i].whole => HoldsText(hdrs[i])

\* Where write_message stands.
WriterSound(h) ==
  /\ pc[h] \in WritePcs => /\ header[h] \in Headers /\ header[h].whole
                           /\ header[h].deleted = header[h].msg.del
  /\ pc[h] = "text" => /\ header[h].offset = Len(jdt)
                       /\ Len(jdt) + Len(header[h].msg.txt) <= MaxText
  /\ pc[h] \in WritePcs \ {"text"} => HoldsText(header[h])
  /\ pc[h] \in {"text", "hdrlen", "header"} => Len(hdrs) < MaxHdrs
  /\ pc[h] = "header" => offset[h] = Len(hdrs)
  /\ pc[h] \in {"crc", "off"} =>
       /\ offset[h] < Len(hdrs)
       /\ hdrs[offset[h] + 1] = header[h]
       /\ \A r \in 1 .. NumRecords : IndexOffset(r) < offset[h]
  /\ pc[h] = "off" => jdx[Len(jdx)] = RecipientCrc(header[h].msg)

\* Half a record is at the end of the index only while its writer is about to
\* complete it.
IndexAligned == Len(jdx) % 2 = IF \E h \in Handles : pc[h] = "off" THEN 1 ELSE 0

\* The header that delete_message or restore_message is about to write back is
\* still the header at that place, but for the deleted flag.
FlagSound(h) ==
  pc[h] \in FlagOps =>
    /\ record[h] \in 1 .. NumRecords
    /\ offset[h] = IndexOffset(record[h])
    /\ header[h] = [hdrs[offset[h] + 1] EXCEPT !.deleted = Wanted(pc[h])]

IInv ==
  /\ TypeOK
  /\ OneWriter
  /\ FilesFit
  /\ TextsHeld
  /\ IndexAligned
  /\ IndexSound
  /\ \A h \in Handles : WriterSound(h) /\ FlagSound(h)
-----------------------------------------------------------------------------
(* The fixed header of a base whose programs keep to JAM.txt: they flush   *)
(* only a copy with the counter of the disk, no flush fails half-way, and  *)
(* the counter does not come round while a handle is open.                 *)

FlushDiscipline ==
  /\ CheckedFlush
  /\ "flush" \notin Faults
  /\ MaxCounter < Counters

\* The counter of a copy is never ahead of the disk, and a copy that is level
\* with the disk counts at least what is counted there.
CopyInv ==
  \A h \in Handles : pc[h] # "closed" =>
    /\ header_info[h].mod_counter <= jhr.mod_counter
    /\ header_info[h].mod_counter = jhr.mod_counter =>
         header_info[h].active_msgs >= jhr.active_msgs

\* Every copy numbers the messages like the disk.
BaseKept ==
  /\ jhr.base_msg_num = BaseMsgNum
  /\ \A h \in Handles : pc[h] # "closed" => header_info[h].base_msg_num = BaseMsgNum
=============================================================================
