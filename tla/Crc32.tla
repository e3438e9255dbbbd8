------------------------------- MODULE Crc32 -------------------------------
(***************************************************************************)
(* get_crc32 of src/util/crc32.rs and what the message base makes of it:   *)
(* get_crc and the password checks of src/jam/mod.rs.  A register is the   *)
(* set of its bits that are 1, so that xor is symmetric difference; a byte *)
(* of a buffer is a number.                                                *)
(***************************************************************************)
EXTENDS Integers, SequencesExt

CRC_SEED == 0 .. 31
Poly == {31 - i : i \in {0, 1, 2, 4, 5, 7, 8, 10, 11, 12, 16, 22, 23, 26}} \* 0xEDB8_8320
ByteSets == SUBSET (0 .. 7)
Bits(b) == {i \in 0 .. 7 : (b \div 2 ^ i) % 2 = 1}

RegByte(r, j) == {i - 8 * j : i \in r \cap (8 * j) .. (8 * j + 7)}
ShiftByte(r) == {i - 8 : i \in r \ (0 .. 7)}
ShiftBit(r) ==
  SymDiff({i - 1 : i \in r \ {0}}, IF 0 \in r THEN Poly ELSE {})
EightShifts(r) ==
  ShiftBit(ShiftBit(ShiftBit(ShiftBit(ShiftBit(ShiftBit(ShiftBit(ShiftBit(r))))))))

\* CRC32_TABLE: the first table takes a byte through the register, each
\* further one takes it through one more byte of zeros.
FirstTable == [b \in ByteSets |-> EightShifts(b)]
NextTable(t) ==
  [b \in ByteSets |-> LET e == t[b] IN SymDiff(ShiftByte(e), FirstTable[RegByte(e, 0)])]
CRC32_TABLE ==
  LET table[k \in 1 .. 16] == IF k = 1 THEN FirstTable ELSE NextTable(table[k - 1]) IN table

\* One round of the unrolled loop, for 16 bytes: byte j goes through the
\* table for the 15 - j bytes that follow it, the first four with the register.
UnrolledRound(r, buf) ==
  FoldLeft(LAMBDA acc, j :
             SymDiff(acc, CRC32_TABLE[17 - j][IF j <= 4 THEN SymDiff(Bits(buf[j]), RegByte(r, j - 1))
                                                         ELSE Bits(buf[j])]),
           {}, [j \in 1 .. 16 |-> j])

\* update_slow, without the two complements that cancel the caller's.
UpdateSlow(r, buf) ==
  FoldLeft(LAMBDA acc, b : SymDiff(FirstTable[SymDiff(RegByte(acc, 0), Bits(b))], ShiftByte(acc)),
           r, buf)

\* Mutant: the rounds start from the seed each.
Rounds_Seed(buf) ==
  FoldLeft(LAMBDA r, k : UnrolledRound(CRC_SEED, SubSeq(buf, 16 * k - 15, 16 * k)),
           CRC_SEED, [k \in 1 .. Len(buf) \div 16 |-> k])

Rounds(buf) ==
  FoldLeft(LAMBDA r, k : UnrolledRound(r, SubSeq(buf, 16 * k - 15, 16 * k)),
           CRC_SEED, [k \in 1 .. Len(buf) \div 16 |-> k])

GetCrc32(buf) ==
  CRC_SEED \ UpdateSlow(Rounds(buf), SubSeq(buf, 16 * (Len(buf) \div 16) + 1, Len(buf)))

Lowercase(name) ==
  [i \in DOMAIN name |-> IF name[i] \in 65 .. 90 THEN name[i] + 32 ELSE name[i]]

\* Mutant: the name is taken as it is.
GetCrc_Cased(name) == SymDiff(GetCrc32(name), CRC_SEED)

GetCrc(name) == SymDiff(GetCrc32(Lowercase(name)), CRC_SEED)

\* create_with_password keeps the CRC of the password; a base with the CRC
\* of no password asks for none.
NeedsPassword(password_crc) == password_crc # CRC_SEED
IsPasswordValid(password_crc, password) ==
  NeedsPassword(password_crc) => password_crc = GetCrc(password)
-----------------------------------------------------------------------------
\* The CRC of a buffer as its polynomial defines it: a byte is added to the
\* register, and each of the eight bits that leave it is divided on its own.
ByteThrough(r, b) ==
  LET x == SymDiff(r, Bits(b))
  IN FoldSet(LAMBDA i, acc : SymDiff(acc, EightShifts({i})), ShiftByte(x), RegByte(x, 0))
BitwiseCrc(buf) == CRC_SEED \ FoldLeft(ByteThrough, CRC_SEED, buf)

\* The unrolled loop and the loop over what it leaves compute the CRC of the
\* whole buffer, whatever its length.
CrcSlices(buf) == GetCrc32(buf) = BitwiseCrc(buf)

\* A base takes its password in upper or lower case and no other password.
PasswordAgrees(set, given) ==
  IsPasswordValid(GetCrc(set), given) <=> set = << >> \/ Lowercase(set) = Lowercase(given)
=============================================================================
