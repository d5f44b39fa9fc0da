------------------------------ MODULE TestNset -------------------------------
(***************************************************************************)
(* The test-and-set register of cep_registers.scala: a few locks, and one  *)
(* request register shared by every core.  A bus write puts a request in   *)
(* the register; in the next cycle the request is tried against its lock   *)
(* and clears itself, unless that very cycle writes the next request.      *)
(* Nobody is told how it went: software reads the locks back.              *)
(***************************************************************************)
EXTENDS Naturals

CONSTANTS
  NumCores,       \* processor cores, four in the code
  NumLocks        \* locks, four in the code

ASSUME LocksAssumption == NumCores \in Nat \ {0} /\ NumLocks \in Nat \ {0}

Cores == 0 .. NumCores - 1
Locks == 0 .. NumLocks - 1

VARIABLES
  lock,           \* lock0 .. lock3
  request         \* reqLock, releaseLock, lockNum and reqId

lockVars == <<lock, request>>

Free      == [isLocked |-> FALSE, coreId |-> 0]
HeldBy(c) == [isLocked |-> TRUE, coreId |-> c]

NoRequest         == [op |-> "none", lockNum |-> 0, reqId |-> 0]
ReqLock(c, l)     == [op |-> "reqLock", lockNum |-> l, reqId |-> c]
ReleaseLock(c, l) == [op |-> "releaseLock", lockNum |-> l, reqId |-> c]

LocksInit == lock = [l \in Locks |-> Free] /\ request = NoRequest

\* Mutant of Granted: a lock is granted though it is taken.
GrantedAlways(l) == request.op = "reqLock" /\ request.lockNum = l

\* A free lock is granted to whoever asks; a taken one stays as it is.
Granted(l) ==
  /\ request.op = "reqLock" /\ request.lockNum = l
  /\ ~lock[l].isLocked

\* Only the core that has a lock can release it.
Released(l) ==
  /\ request.op = "releaseLock" /\ request.lockNum = l
  /\ lock[l].isLocked /\ lock[l].coreId = request.reqId

\* A clock edge: the pending request is tried, and next comes in its place.
LocksEdge(next) ==
  /\ lock' = [l \in Locks |->
       IF Granted(l) THEN HeldBy(request.reqId)
       ELSE IF Released(l) THEN [isLocked |-> FALSE, coreId |-> lock[l].coreId]
       ELSE lock[l]]
  /\ request' = next
==============================================================================
