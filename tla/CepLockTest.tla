----------------------------- MODULE CepLockTest -----------------------------
(***************************************************************************)
(* The lock tests of cepLockTest.cc.  Inside a lock a core fills the       *)
(* scratch registers of that lock with data of its own, reads them back,   *)
(* and counts what differs.  runTest does this with one lock, runTest2     *)
(* with all of them in turn.  After an error a core leaves with the lock   *)
(* still taken; runTest2 then goes on with its next loop.                  *)
(***************************************************************************)
EXTENDS CepApis

CONSTANTS
  Loops,          \* times round, two in the code
  Faulty          \* cores that may read wrong data or fail a playback

ASSUME LockTestAssumption == Loops \in Nat \ {0} /\ Faulty \subseteq Cores

VARIABLES
  allLocks,       \* runTest2 is running, not runTest
  loop,           \* i of the loop
  pattern,        \* whose data the scratch registers of a lock hold
  err             \* the causes counted in errCnt

lockTestVars == <<allLocks, loop, pattern>>

LockTestInit ==
  /\ allLocks \in BOOLEAN
  /\ loop = [c \in Cores |-> 0]
  /\ pattern = [l \in Locks |-> 0]
  /\ err = [c \in Cores |-> {}]

\* Mutant of NextLoop: once round too often.
NextLoopOnceMore(c) ==
  \/ loop[c] < Loops /\ loop' = [loop EXCEPT ![c] = @ + 1] /\ GetLock(c, 0)
  \/ loop[c] = Loops /\ Goto(c, "done") /\ Stay /\ UNCHANGED loop

\* The outer loop: once more from lock 0, or out of the test.
NextLoop(c) ==
  \/ /\ loop[c] + 1 < Loops
     /\ loop' = [loop EXCEPT ![c] = @ + 1]
     /\ GetLock(c, 0)
  \/ /\ loop[c] + 1 = Loops
     /\ Goto(c, "done") /\ Stay /\ UNCHANGED loop

\* break on errCnt, without cep_release_lock.
Break(c) ==
  \/ allLocks /\ NextLoop(c)
  \/ ~allLocks /\ Goto(c, "done") /\ Stay /\ UNCHANGED loop

CountError(c, cause) == err' = [err EXCEPT ![c] = @ \cup {cause}]

WritePattern(c) ==
  /\ pc[c] = "inside"
  /\ pattern' = [pattern EXCEPT ![lockNum[c]] = c]
  /\ Goto(c, "compare")
  /\ QuietCycle /\ Stay /\ UNCHANGED <<allLocks, loop, err>>

CompareGood(c) ==
  /\ pc[c] = "compare" /\ pattern[lockNum[c]] = c
  /\ \/ err[c] = {} /\ Goto(c, "release") /\ Stay /\ UNCHANGED loop
     \/ err[c] # {} /\ Break(c)
  /\ QuietCycle /\ UNCHANGED <<allLocks, pattern, err>>

CompareBad(c) ==
  /\ pc[c] = "compare" /\ (pattern[lockNum[c]] # c \/ c \in Faulty)
  /\ CountError(c, "mismatch")
  /\ Break(c)
  /\ QuietCycle /\ UNCHANGED <<allLocks, pattern>>

NoLock(c) ==
  /\ pc[c] = "gaveUp"
  /\ CountError(c, "timeout")
  /\ Break(c)
  /\ QuietCycle /\ UNCHANGED <<allLocks, pattern>>

AfterRelease(c) ==
  /\ pc[c] = "released"
  /\ \/ /\ allLocks /\ lockNum[c] + 1 \in Locks
        /\ GetLock(c, lockNum[c] + 1) /\ UNCHANGED loop
     \/ /\ allLocks => lockNum[c] + 1 \notin Locks
        /\ NextLoop(c)
  /\ QuietCycle /\ UNCHANGED <<allLocks, pattern, err>>

LockTestStep(c) ==
  \/ ApiStep(c) /\ UNCHANGED <<lockTestVars, err>>
  \/ WritePattern(c) \/ CompareGood(c) \/ CompareBad(c)
  \/ NoLock(c) \/ AfterRelease(c)
==============================================================================
