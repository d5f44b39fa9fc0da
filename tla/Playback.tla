------------------------------ MODULE Playback -------------------------------
(***************************************************************************)
(* The playback team of bfmTests/playback/c_module.cc: every core replays  *)
(* every captured test, but two cores must not replay the same one at the  *)
(* same time, for a test is a core's registers.  findATest2Run, under lock *)
(* 0, drops the core's old claim, looks for a test that it has not done    *)
(* and that no core claims, and claims it in the core's scratch register.  *)
(***************************************************************************)
EXTENDS CepLockTest

CONSTANTS
  MaxTests,       \* maxTests, nine in the code
  FindTries       \* timeOut of the search, 1000 and then 100 in the code

ASSUME PlaybackAssumption == MaxTests \in Nat \ {0} /\ FindTries \in Nat \ {0}

Tests  == 0 .. MaxTests - 1
NoTest == MaxTests

VARIABLES
  claim,          \* scratch register of each core: the test it claims
  doneMask,       \* the tests a core has done
  test2Run,       \* what findATest2Run is looking at, then its result
  other,          \* whose claim it reads next
  patience,       \* timeOut left in the search
  leaving         \* the call made after the loop to drop the claim

playbackVars == <<claim, doneMask, test2Run, other, patience, leaving>>

PlaybackInit ==
  /\ claim = [c \in Cores |-> NoTest]
  /\ doneMask = [c \in Cores |-> {}]
  /\ test2Run = [c \in Cores |-> NoTest]
  /\ other = [c \in Cores |-> 0]
  /\ patience = [c \in Cores |-> FindTries]
  /\ leaving = [c \in Cores |-> FALSE]

\* Mutant of LookAt: the scan leaves out core 0's scratch register.
LookAtFromOne(c, t) ==
  /\ test2Run' = [test2Run EXCEPT ![c] = t]
  /\ other' = [other EXCEPT ![c] = 1]
  /\ Goto(c, IF t = NoTest THEN "release" ELSE "scan")

\* On to test t, or out of the loop when there is none left.
LookAt(c, t) ==
  /\ test2Run' = [test2Run EXCEPT ![c] = t]
  /\ other' = [other EXCEPT ![c] = 0]
  /\ Goto(c, IF t = NoTest THEN "release" ELSE "scan")

\* The loop condition, then the search again or the call that clears the claim.
Loop(c, mask, errors) ==
  /\ leaving' = [leaving EXCEPT ![c] = mask = Tests \/ errors # {}]
  /\ GetLock(c, 0)

DropClaim(c) ==
  /\ pc[c] = "inside"
  /\ claim' = [claim EXCEPT ![c] = NoTest]
  /\ LookAt(c, 0)
  /\ QuietCycle /\ Stay /\ UNCHANGED <<doneMask, patience, leaving, err>>

\* A test not done is looked for in the scratch registers, one at a time.
Scan(c) ==
  /\ pc[c] = "scan"
  /\ \/ /\ test2Run[c] \in doneMask[c] \/ claim[other[c]] = test2Run[c]
        /\ LookAt(c, test2Run[c] + 1)
     \/ /\ test2Run[c] \notin doneMask[c] /\ claim[other[c]] # test2Run[c]
        /\ \/ /\ other[c] + 1 \in Cores
              /\ other' = [other EXCEPT ![c] = @ + 1]
              /\ Goto(c, "scan")
           \/ /\ other[c] + 1 \notin Cores
              /\ other' = [other EXCEPT ![c] = 0]
              /\ Goto(c, "claim")
        /\ UNCHANGED test2Run
  /\ QuietCycle /\ Stay /\ UNCHANGED <<claim, doneMask, patience, leaving, err>>

Claim(c) ==
  /\ pc[c] = "claim"
  /\ claim' = [claim EXCEPT ![c] = test2Run[c]]
  /\ Goto(c, "release")
  /\ QuietCycle /\ Stay
  /\ UNCHANGED <<doneMask, test2Run, other, patience, leaving, err>>

\* findATest2Run returned a test: it is replayed.
Run(c) ==
  /\ pc[c] = "released" /\ ~leaving[c] /\ test2Run[c] # NoTest
  /\ patience' = [patience EXCEPT ![c] = FindTries]
  /\ Goto(c, "playback")
  /\ QuietCycle /\ Stay
  /\ UNCHANGED <<claim, doneMask, test2Run, other, leaving, err>>

\* cep_playback ends, after an error or not.
Played(c) ==
  /\ pc[c] = "playback"
  /\ err' \in {err} \cup
       (IF c \in Faulty THEN {[err EXCEPT ![c] = @ \cup {"playback"}]} ELSE {})
  /\ doneMask' = [doneMask EXCEPT ![c] = @ \cup {test2Run[c]}]
  /\ test2Run' = [test2Run EXCEPT ![c] = NoTest]
  /\ Loop(c, doneMask'[c], err'[c])
  /\ QuietCycle /\ UNCHANGED <<claim, other, patience>>

\* findATest2Run returned -1, for want of a test or of the lock.
NotFound(c) ==
  /\ ~leaving[c]
  /\ pc[c] = "gaveUp" \/ (pc[c] = "released" /\ test2Run[c] = NoTest)
  /\ patience' = [patience EXCEPT ![c] = @ - 1]
  /\ \/ patience[c] > 1 /\ UNCHANGED err
     \/ patience[c] = 1 /\ CountError(c, "cannotFind")
  /\ Loop(c, doneMask[c], err'[c])
  /\ QuietCycle /\ UNCHANGED <<claim, doneMask, test2Run, other>>

\* Whatever the last call returned, the core is done.
Leave(c) ==
  /\ pc[c] \in {"gaveUp", "released"} /\ leaving[c]
  /\ Goto(c, "done")
  /\ QuietCycle /\ Stay /\ UNCHANGED <<playbackVars, err>>

PlaybackStep(c) ==
  \/ ApiStep(c) /\ UNCHANGED <<playbackVars, err>>
  \/ DropClaim(c) \/ Scan(c) \/ Claim(c) \/ Run(c)
  \/ Played(c) \/ NotFound(c) \/ Leave(c)
==============================================================================
