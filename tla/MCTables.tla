------------------------------ MODULE MCTables ------------------------------
(***************************************************************************)
(* The inputs of MCFormats, and the words of the sixteen tables of the CRC *)
(* as the source has them.  The theorems are about MCFormats: thousands of *)
(* words are no help to a prover.                                          *)
(***************************************************************************)
EXTENDS MCFormats, Crc32Tables

\* All words of CRC32_TABLE are those of the polynomial, so that what is shown
\* of get_crc32 with computed tables is so with the tables of the source.  The
\* tables are no input: they are looked at once, before there is any.
TablesArePolynomial ==
  input.kind = "none" => \A k \in 0 .. 15, b \in 0 .. 255 : WordIsPolynomial(k, b)
=============================================================================
