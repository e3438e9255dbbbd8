--------------------------- MODULE MCJamLifecycle ---------------------------
(* Small instances of JamLifecycle for TLC. *)
EXTENDS JamLifecycle, TLC

CONSTANTS h1, h2

\* Two users whose names have the same CRC.
TwoUsers == {[user_crc |-> 11, user_id |-> 21], [user_crc |-> 11, user_id |-> 22]}

Symmetry == Permutations({h1, h2})
=============================================================================
