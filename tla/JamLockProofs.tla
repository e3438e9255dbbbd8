--------------------------- MODULE JamLockProofs ---------------------------
(***************************************************************************)
(* The lock of a handle admits one thread at a time.                       *)
(***************************************************************************)
EXTENDS JamLock, TLAPS

\* Exclusion is not inductive: it needs that whoever is past the lock has left
\* the flag set.
FlagHeld == \A t \in Threads : at[t] = "in" => locked[HandleOf[t]]
LInv == TypeOK /\ FlagHeld /\ Exclusion

\* At first nobody has locked.
LEMMA LInvInit == Init => LInv
BY DEF Init, LInv, TypeOK, FlagHeld, Exclusion

\* Every step keeps the invariant of the lock.
LEMMA LInvStep == LInv /\ [Next]_vars => LInv'
<1> SUFFICES ASSUME LInv, [Next]_vars PROVE LInv'
  OBVIOUS
<1> USE HandleOfAssumption DEF LInv, TypeOK, FlagHeld, Exclusion, Go, Set
<1>1. ASSUME NEW t \in Threads, Call(t) PROVE LInv'
  BY <1>1 DEF Call
<1>2. ASSUME NEW t \in Threads, Swap(t) PROVE LInv'
  <2>1. \A s \in Threads : HandleOf[s] = HandleOf[t] => at[s] # "in"
    BY <1>2 DEF Swap
  <2> QED BY <1>2, <2>1 DEF Swap
<1>3. ASSUME NEW t \in Threads, Unlock(t) PROVE LInv'
  <2>1. \A s \in Threads \ {t} : HandleOf[s] = HandleOf[t] => at'[s] # "in"
    BY <1>3 DEF Unlock
  <2> QED BY <1>3, <2>1 DEF Unlock
<1>4. CASE UNCHANGED vars
  BY <1>4 DEF vars
<1> QED BY <1>1, <1>2, <1>3, <1>4 DEF Next

\* Threads that share a handle and make their calls between lock and unlock
\* never make two at a time.
THEOREM LockExcludes == Spec => []Exclusion
<1>1. LInv => Exclusion
  BY DEF LInv
<1> QED BY <1>1, LInvInit, LInvStep, PTL DEF Spec
=============================================================================
