------------------------------ MODULE JamLock ------------------------------
(***************************************************************************)
(* JamMessageBase::lock and unlock, src/jam/mod.rs: a flag in each handle, *)
(* and threads that spin on the flag of the handle they share.             *)
(***************************************************************************)
CONSTANTS Threads,
          Handles,   \* JamMessageBase values
          HandleOf   \* the handle each thread works with

ASSUME HandleOfAssumption == HandleOf \in [Threads -> Handles]

VARIABLES locked,    \* the flag of each handle
          at         \* where each thread is: outside, in lock, or past it

vars == <<locked, at>>

TypeOK == /\ locked \in [Handles -> BOOLEAN]
          /\ at \in [Threads -> {"out", "spin", "in"}]

Init == /\ locked = [h \in Handles |-> FALSE]
        /\ at = [t \in Threads |-> "out"]

Set(t, flag) == locked' = [locked EXCEPT ![HandleOf[t]] = flag]
Go(t, from, to) == at[t] = from /\ at' = [at EXCEPT ![t] = to]

Call(t) == Go(t, "out", "spin") /\ UNCHANGED locked

\* Mutant: the old value of the flag is not looked at.
Swap_Blind(t) == Go(t, "spin", "in") /\ Set(t, TRUE)

\* The swap that finds the flag clear ends lock; one that finds it set changes
\* nothing, and the thread spins on.
Swap(t) == ~locked[HandleOf[t]] /\ Go(t, "spin", "in") /\ Set(t, TRUE)

\* Mutant: the flag stays set.
Unlock_Keeps(t) == Go(t, "in", "out") /\ UNCHANGED locked

\* Users are responsible for unlocking; here those do who have locked.
Unlock(t) == Go(t, "in", "out") /\ Set(t, FALSE)

Next == \E t \in Threads : Call(t) \/ Swap(t) \/ Unlock(t)

\* A thread in lock keeps spinning, and whoever has locked unlocks in the end.
Fairness == \A t \in Threads : WF_vars(Swap(t)) /\ WF_vars(Unlock(t))

Spec == Init /\ [][Next]_vars /\ Fairness
-----------------------------------------------------------------------------
\* No two threads that share a handle are past its lock at a time.
Exclusion ==
  \A s, t \in Threads :
    at[s] = "in" /\ at[t] = "in" /\ HandleOf[s] = HandleOf[t] => s = t

\* While threads spin on a handle, one spinning thread after the other gets in:
\* whoever is in leaves, and the flag that it clears lets a thread that was
\* spinning pass.  (That each of them gets in is not promised.)
Spinning(h) == \E t \in Threads : HandleOf[t] = h /\ at[t] = "spin"
GetsIn(h) == \E t \in Threads : HandleOf[t] = h /\ at[t] = "spin" /\ at'[t] = "in"

SpinnersGetIn == \A h \in Handles : <>[]Spinning(h) => []<><<GetsIn(h)>>_vars
=============================================================================
