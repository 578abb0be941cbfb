------------------------------ MODULE GraphLock ------------------------------
(***************************************************************************)
(* The lock that SyncService, SnapshotManager and AnalysisService share:   *)
(* internal/snapshot/graphlock.go, a wrapper around one Go sync.RWMutex.   *)
(*                                                                         *)
(* The RWMutex is writer preferring: Lock() first wins an inner mutex      *)
(* among the writers, then announces itself, after which RLock() blocks,   *)
(* then waits for the readers that were already inside to drain.  Unlock() *)
(* admits every reader that blocked meanwhile, and only then lets the next *)
(* writer compete.  One variable says where each goroutine stands.         *)
(***************************************************************************)
CONSTANT Procs      \* the goroutines that use the lock

VARIABLE lk         \* lk[p]: where goroutine p stands with the lock

LockStates == {"none", "waitR", "read", "waitW", "drain", "write"}

\* No writer holds the inner mutex of the RWMutex.
NoWriter == \A q \in Procs : lk[q] \notin {"drain", "write"}

\* RLock(): enter at once, or block behind the announced writer.
RLock(p) ==
    /\ lk[p] = "none"
    /\ lk' = [lk EXCEPT ![p] = IF NoWriter THEN "read" ELSE "waitR"]

RUnlock(p) ==
    /\ lk[p] = "read"
    /\ lk' = [lk EXCEPT ![p] = "none"]

\* Lock(): join the writers competing for the inner mutex ...
Lock(p) ==
    /\ lk[p] = "none"
    /\ lk' = [lk EXCEPT ![p] = "waitW"]

\* ... win it and announce the writer, which shuts out new readers ...
Announce(p) ==
    /\ lk[p] = "waitW"
    /\ NoWriter
    /\ lk' = [lk EXCEPT ![p] = "drain"]

\* ... and enter once the readers inside have left.
EnterWrite(p) ==
    /\ lk[p] = "drain"
    /\ \A q \in Procs : lk[q] # "read"
    /\ lk' = [lk EXCEPT ![p] = "write"]

\* Unlock(): every reader blocked so far is let in before the next writer.
Unlock(p) ==
    /\ lk[p] = "write"
    /\ lk' = [q \in Procs |-> IF q = p THEN "none"
                              ELSE IF lk[q] = "waitR" THEN "read"
                              ELSE lk[q]]

LockInit == lk = [p \in Procs |-> "none"]

\* What the lock promises: a writer inside is alone, writers are announced
\* one at a time, and readers never block unless a writer is announced.
Exclusion ==
    /\ \A p, q \in Procs :
          lk[p] = "write" /\ lk[q] \in {"read", "drain", "write"} => p = q
    /\ \A p, q \in Procs : lk[p] = "drain" /\ lk[q] = "drain" => p = q
    /\ (\E p \in Procs : lk[p] = "waitR") => ~NoWriter
=============================================================================
