------------------------------- MODULE CepApis -------------------------------
(***************************************************************************)
(* The lock calls of cep_apis.cc, as the steps of a core that makes them.  *)
(* Every step of the model is a clock cycle of the register block, and a   *)
(* cycle carries at most one bus access.                                   *)
(*                                                                         *)
(* A program calls cep_get_lock by going to "getLock" and goes on from     *)
(* "inside" or from "gaveUp"; it calls cep_release_lock by going to        *)
(* "release" and goes on from "released".                                  *)
(***************************************************************************)
EXTENDS TestNset

CONSTANT
  GetTries        \* timeOut of cep_get_lock, 50000 or 100 in the code

ASSUME TriesAssumption == GetTries \in Nat \ {0}

VARIABLES
  pc,             \* where each core is
  lockNum,        \* the lock of its current or last call
  tries,          \* timeOut left in cep_get_lock, GetTries outside a call
  held            \* the locks it has got and not released

apiVars == <<pc, lockNum, tries, held>>

ApiInit ==
  /\ lockNum = [c \in Cores |-> 0]
  /\ tries = [c \in Cores |-> GetTries]
  /\ held = [c \in Cores |-> {}]

\* A bus write is answered over the fabric, so the register has worked off
\* the request before its core can send the read that follows it.
Acked == [c \in Cores |-> IF pc[c] = "written" THEN "check" ELSE pc[c]]

Goto(c, label) == pc' = [Acked EXCEPT ![c] = label]

\* Calls cep_get_lock for lock l.
GetLock(c, l) ==
  /\ Goto(c, "getLock")
  /\ lockNum' = [lockNum EXCEPT ![c] = l]
  /\ UNCHANGED tries

Stay == UNCHANGED <<lockNum, tries>>

\* Mutant of WriteRequest: the last try is not read back.
WriteRequestLastUnread(c) ==
  /\ pc[c] = "getLock"
  /\ Goto(c, IF tries[c] = 1 THEN "gaveUp" ELSE "written")
  /\ LocksEdge(ReqLock(c, lockNum[c]))
  /\ Stay /\ UNCHANGED held

WriteRequest(c) ==
  /\ pc[c] = "getLock"
  /\ Goto(c, "written")
  /\ LocksEdge(ReqLock(c, lockNum[c]))
  /\ Stay /\ UNCHANGED held

\* Mutant of ReadGot: the core's own number is not compared.
ReadGotAnyOwner(c) ==
  /\ pc[c] = "check" /\ lock[lockNum[c]].isLocked
  /\ Goto(c, "inside")
  /\ held' = [held EXCEPT ![c] = @ \cup {lockNum[c]}]
  /\ tries' = [tries EXCEPT ![c] = GetTries]
  /\ LocksEdge(NoRequest) /\ UNCHANGED lockNum

ReadGot(c) ==
  /\ pc[c] = "check" /\ lock[lockNum[c]] = HeldBy(c)
  /\ Goto(c, "inside")
  /\ held' = [held EXCEPT ![c] = @ \cup {lockNum[c]}]
  /\ tries' = [tries EXCEPT ![c] = GetTries]
  /\ LocksEdge(NoRequest) /\ UNCHANGED lockNum

\* Mutant of ReadMissed: the tries are not counted down.
ReadMissedForEver(c) ==
  /\ pc[c] = "check" /\ lock[lockNum[c]] # HeldBy(c)
  /\ Goto(c, "getLock")
  /\ LocksEdge(NoRequest) /\ Stay /\ UNCHANGED held

\* Not this core's: wait (DUT_RUNCLK) and ask again, timeOut times in all.
ReadMissed(c) ==
  /\ pc[c] = "check" /\ lock[lockNum[c]] # HeldBy(c)
  /\ \/ /\ tries[c] > 1
        /\ tries' = [tries EXCEPT ![c] = @ - 1]
        /\ Goto(c, "getLock")
     \/ /\ tries[c] = 1
        /\ tries' = [tries EXCEPT ![c] = GetTries]
        /\ Goto(c, "gaveUp")
  /\ LocksEdge(NoRequest)
  /\ UNCHANGED <<lockNum, held>>

WriteRelease(c) ==
  /\ pc[c] = "release"
  /\ Goto(c, "released")
  /\ held' = [held EXCEPT ![c] = @ \ {lockNum[c]}]
  /\ LocksEdge(ReleaseLock(c, lockNum[c])) /\ Stay

ApiStep(c) == WriteRequest(c) \/ ReadGot(c) \/ ReadMissed(c) \/ WriteRelease(c)

\* A cycle in which the bus does not touch the lock register.
QuietCycle == LocksEdge(NoRequest) /\ UNCHANGED held
==============================================================================
