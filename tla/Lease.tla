------------------------------- MODULE Lease -------------------------------
(***************************************************************************)
(* What every lock file of the system promises: at most one process holds  *)
(* the lease, only the holder gives it up, and nobody takes it from a      *)
(* holder that is still alive.                                             *)
(***************************************************************************)
CONSTANTS Proc,   \* processes that may ever ask for the lease
          NoProc  \* not a process

VARIABLES holder,  \* the process that owns the lease, or NoProc
          dead     \* processes that have terminated
vars == <<holder, dead>>

TypeOK == holder \in Proc \cup {NoProc} /\ dead \in SUBSET Proc

Init == holder = NoProc /\ dead = {}

Grant(p) ==
  /\ p \notin dead
  /\ holder = NoProc
  /\ holder' = p
  /\ UNCHANGED dead

Release(p) ==
  /\ p \notin dead
  /\ holder = p
  /\ holder' = NoProc
  /\ UNCHANGED dead

Die(p) ==
  /\ dead' = dead \cup {p}
  /\ UNCHANGED holder

\* Some contender frees the lease of a holder that died.
Reclaim ==
  /\ holder \in dead
  /\ holder' = NoProc
  /\ UNCHANGED dead

Next ==
  \/ \E p \in Proc : Grant(p) \/ Release(p) \/ Die(p)
  \/ Reclaim

Spec == Init /\ [][Next]_vars
=============================================================================
