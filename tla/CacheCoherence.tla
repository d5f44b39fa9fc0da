--------------------------- MODULE CacheCoherence ----------------------------
(***************************************************************************)
(* The cacheCoherence test of the bare-metal programs.  The cores stand in *)
(* a ring.  In every round a core writes its words of a few cache blocks,  *)
(* waits to see its partner's words of that round in each, and checks that *)
(* its own are still there.  The memory is coherent: a write is seen by    *)
(* every later read.                                                       *)
(***************************************************************************)
EXTENDS CepLockTest, BareStatus

CONSTANTS
  MaxBlocks,      \* max_blocks, eight in the code
  PartnerTries    \* to, 1000 in the code

ASSUME CoherenceAssumption == MaxBlocks \in Nat \ {0} /\ PartnerTries \in Nat \ {0}

Blocks     == 0 .. MaxBlocks - 1
Partner(c) == (c + 1) % NumCores

VARIABLES
  cell,           \* the round a word was written in, counted from 1
  block,          \* b
  to              \* tries left, PartnerTries outside the wait

coherenceVars == <<cell, block, to>>

CoherenceInit ==
  /\ cell = [c \in Cores |-> [b \in Blocks |-> 0]]
  /\ block = [c \in Cores |-> 0]
  /\ to = [c \in Cores |-> PartnerTries]

\* What is in memory is the word of the round that core c is in.
Current(c, owner) == cell[owner][block[c]] = loop[c] + 1

\* The next block at the same place, or the next place.
NextBlock(c, here, after) ==
  \/ block[c] + 1 \in Blocks /\ block' = [block EXCEPT ![c] = @ + 1] /\ Goto(c, here)
  \/ block[c] + 1 \notin Blocks /\ block' = [block EXCEPT ![c] = 0] /\ Goto(c, after)

Start(c) ==
  /\ pc[c] = "start"
  /\ SetStatus(c, "running") /\ Goto(c, "store")
  /\ QuietCycle /\ Stay /\ UNCHANGED <<coherenceVars, loop, err>>

Store(c) ==
  /\ pc[c] = "store"
  /\ cell' = [cell EXCEPT ![c][block[c]] = loop[c] + 1]
  /\ NextBlock(c, "store", "partner")
  /\ QuietCycle /\ Stay /\ UNCHANGED <<statusVars, to, loop, err>>

SeePartner(c) ==
  /\ pc[c] = "partner" /\ Current(c, Partner(c))
  /\ to' = [to EXCEPT ![c] = PartnerTries]
  /\ NextBlock(c, "partner", "mine")
  /\ QuietCycle /\ Stay /\ UNCHANGED <<statusVars, cell, loop, err>>

\* Not there: read again, up to the time-out, which ends the test.
MissPartner(c) ==
  /\ pc[c] = "partner" /\ ~Current(c, Partner(c))
  /\ to' = [to EXCEPT ![c] = @ - 1]
  /\ \/ to[c] > 1 /\ Goto(c, "partner") /\ UNCHANGED err
     \/ to[c] = 1 /\ Goto(c, "report") /\ CountError(c, "noPartner")
  /\ QuietCycle /\ Stay /\ UNCHANGED <<statusVars, cell, block, loop>>

CheckMine(c) ==
  /\ pc[c] = "mine" /\ Current(c, c)
  /\ \/ /\ block[c] + 1 \in Blocks
        /\ block' = [block EXCEPT ![c] = @ + 1] /\ Goto(c, "mine") /\ UNCHANGED loop
     \/ /\ block[c] + 1 \notin Blocks
        /\ block' = [block EXCEPT ![c] = 0]
        /\ \/ loop[c] + 1 < Loops /\ loop' = [loop EXCEPT ![c] = @ + 1] /\ Goto(c, "store")
           \/ loop[c] + 1 = Loops /\ Goto(c, "report") /\ UNCHANGED loop
  /\ QuietCycle /\ Stay /\ UNCHANGED <<statusVars, cell, to, err>>

LostMine(c) ==
  /\ pc[c] = "mine" /\ (~Current(c, c) \/ c \in Faulty)
  /\ CountError(c, "mismatch") /\ Goto(c, "report")
  /\ QuietCycle /\ Stay /\ UNCHANGED <<statusVars, coherenceVars, loop>>

\* set_status, and a loop that never ends.
Report(c) ==
  /\ pc[c] = "report"
  /\ SetStatus(c, IF err[c] = {} THEN "good" ELSE "bad") /\ Goto(c, "done")
  /\ QuietCycle /\ Stay /\ UNCHANGED <<coherenceVars, loop, err>>

CoherenceStep(c) ==
  \/ Start(c) \/ Store(c) \/ SeePartner(c) \/ MissPartner(c)
  \/ CheckMine(c) \/ LostMine(c) \/ Report(c)

WatchStep(c) == (Poll(c) \/ PutInReset(c)) /\ UNCHANGED <<coherenceVars, loop, err>>
==============================================================================
