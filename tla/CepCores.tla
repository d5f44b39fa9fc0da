------------------------------ MODULE CepCores -------------------------------
(***************************************************************************)
(* The cores of the processor, all with the same program: the lock tests   *)
(* or the playback team on the lock register, or the coherence test in the *)
(* memory, with the threads of the C side that watch it.                   *)
(***************************************************************************)
EXTENDS Playback, CacheCoherence

CONSTANT
  Mask            \* the cores that run each program; the others stay idle

Programs == {"lockTest", "playback", "coherence"}

ASSUME MaskAssumption == Mask \in [Programs -> SUBSET Cores]

VARIABLE program

bareVars == <<statusVars, coherenceVars>>

vars == <<lockVars, apiVars, lockTestVars, err, playbackVars, bareVars, program>>

Init ==
  /\ LocksInit /\ ApiInit /\ LockTestInit /\ PlaybackInit /\ StatusInit /\ CoherenceInit
  /\ program \in Programs
  /\ program # "lockTest" => ~allLocks
  /\ pc = [c \in Cores |-> IF c \notin Mask[program] THEN "done"
                           ELSE IF program = "coherence" THEN "start" ELSE "getLock"]

CoreStep(c) ==
  /\ \/ program = "lockTest" /\ LockTestStep(c) /\ UNCHANGED <<playbackVars, bareVars>>
     \/ program = "playback" /\ PlaybackStep(c) /\ UNCHANGED <<lockTestVars, bareVars>>
     \/ program = "coherence" /\ CoherenceStep(c) /\ UNCHANGED <<allLocks, pattern, playbackVars>>
  /\ UNCHANGED program

\* The thread of a core on the C side.
HostStep(c) ==
  /\ program = "coherence" /\ WatchStep(c)
  /\ UNCHANGED <<allLocks, pattern, playbackVars, program>>

\* A cycle without an access: an answer may arrive, a request is tried.
Idle ==
  /\ pc' = Acked /\ QuietCycle /\ Stay
  /\ UNCHANGED <<lockTestVars, err, playbackVars, bareVars, program>>

Next == Idle \/ \E c \in Cores : CoreStep(c) \/ HostStep(c)

\* The clock never stops, and no core is held up for ever.
Spec == Init /\ [][Next]_vars /\ WF_vars(Idle) /\ \A c \in Cores : WF_vars(CoreStep(c))

------------------------------------------------------------------------------
Labels == {"getLock", "written", "check", "inside", "compare", "gaveUp",
           "release", "released", "scan", "claim", "playback", "done",
           "start", "store", "partner", "mine", "report"}

Causes == {"mismatch", "timeout", "playback", "cannotFind", "noPartner"}

LocksTypeOK ==
  /\ lock \in [Locks -> [isLocked : BOOLEAN, coreId : Cores]]
  /\ request \in [op : {"none", "reqLock", "releaseLock"}, lockNum : Locks, reqId : Cores]
  /\ pc \in [Cores -> Labels]
  /\ lockNum \in [Cores -> Locks] /\ tries \in [Cores -> 0 .. GetTries]
  /\ held \in [Cores -> SUBSET Locks]
  /\ program \in Programs /\ allLocks \in BOOLEAN
  /\ loop \in [Cores -> 0 .. Loops - 1] /\ pattern \in [Locks -> Cores]
  /\ err \in [Cores -> SUBSET Causes]
  /\ claim \in [Cores -> Tests \cup {NoTest}] /\ doneMask \in [Cores -> SUBSET Tests]
  /\ test2Run \in [Cores -> Tests \cup {NoTest}] /\ other \in [Cores -> Cores]
  /\ patience \in [Cores -> 0 .. FindTries] /\ leaving \in [Cores -> BOOLEAN]

BareTypeOK ==
  /\ status \in [Cores -> {"none", "running", "good", "bad"}]
  /\ watch \in [Cores -> {"off", "poll", "reset", "over"}]
  /\ polls \in [Cores -> 0 .. MaxPolls] /\ errCnt \in [Cores -> 0 .. 2]
  /\ cell \in [Cores -> [Blocks -> 0 .. Loops]]
  /\ block \in [Cores -> Blocks] /\ to \in [Cores -> 0 .. PartnerTries]

\* Every variable has its type.
TypeOK == LocksTypeOK /\ BareTypeOK

\* A lock the register shows as taken has an owner that knows or will know:
\* the core has it, or is about to read the answer to its request, or its
\* release is on the way.  A core that gave up is never granted the lock late.
NoOrphanLock ==
  \A l \in Locks : lock[l].isLocked =>
    LET c == lock[l].coreId IN
    \/ l \in held[c]
    \/ pc[c] \in {"written", "check"} /\ lockNum[c] = l
    \/ request = ReleaseLock(c, l)

\* The lock test and the coherence test report a difference only when the
\* registers or the memory are at fault: no interleaving of the cores puts
\* another core's data, or data of another round, under a comparison.
NoFalseMismatch == \A c \in Cores : "mismatch" \in err[c] => c \in Faulty

\* Two cores never replay the same test, that is use the same block, at once.
NoSharedTest ==
  \A c, d \in Cores :
    pc[c] = "playback" /\ pc[d] = "playback" /\ test2Run[c] = test2Run[d] => c = d

\* A thread that counts no error for its core has the core's word that it
\* passed, and the partner's data of the last round is in the memory.
NoFalsePass ==
  \A c \in Cores : watch[c] = "over" /\ errCnt[c] = 0 =>
    /\ status[c] = "good" /\ err[c] = {}
    /\ \A b \in Blocks : cell[Partner(c)][b] = Loops

\* "read and wait we see the partners do the same" (riscv_wrapper.cc:67): a core
\* that runs out of tries has a partner that did not get as far as this round.
PartnerNotMissed ==
  [][\A c \in Cores : "noPartner" \in err'[c] \ err[c] =>
       cell[Partner(c)][block[c]] <= loop[c]]_vars

\* The locks implement the lock service.
Service == INSTANCE LockService
ImplementsLockService == Service!Spec

\* Every core comes to an end, whatever locks the others leave behind.
EveryCoreEnds == <>(\A c \in Cores : pc[c] = "done")
==============================================================================
