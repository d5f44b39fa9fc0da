--------------------------- MODULE CepCores_proofs ---------------------------
(***************************************************************************)
(* Proofs about CepCores for any number of cores, locks and tests: the     *)
(* types, the link between the lock register and what the cores believe,   *)
(* and from it the lock service, the lock test and the playback team.      *)
(***************************************************************************)
EXTENDS CepCores, TLAPS

USE LocksAssumption, TriesAssumption, LockTestAssumption, PlaybackAssumption,
    MaskAssumption, PollsAssumption, CoherenceAssumption

\* The places of the coherence test.
BarePlaces == {"start", "store", "partner", "mine", "report", "done"}

\* A search is at a test, and only the playback program searches.
SearchOK ==
  /\ \A c \in Cores : pc[c] \in {"scan", "claim", "playback"} => test2Run[c] \in Tests
  /\ program = "lockTest" => \A c \in Cores : pc[c] \notin {"scan", "claim", "playback"}
  /\ program = "playback" => \A c \in Cores : lockNum[c] = 0 /\ pc[c] # "compare"
  /\ program = "coherence" => \A c \in Cores : pc[c] \in BarePlaces

TypeInv == LocksTypeOK /\ SearchOK

\* What a move of core c does to every program counter.
LEMMA GotoMoves ==
  ASSUME LocksTypeOK, NEW c \in Cores, NEW label \in Labels, Goto(c, label)
  PROVE  /\ pc' \in [Cores -> Labels]
         /\ pc'[c] = label
         /\ \A d \in Cores \ {c} :
              pc'[d] = IF pc[d] = "written" THEN "check" ELSE pc[d]
BY DEF LocksTypeOK, Goto, Acked, Labels

\* The lock register keeps its type at a clock edge.
LEMMA EdgeType ==
  ASSUME LocksTypeOK, NEW next, LocksEdge(next),
         next \in [op : {"none", "reqLock", "releaseLock"}, lockNum : Locks, reqId : Cores]
  PROVE  /\ lock' \in [Locks -> [isLocked : BOOLEAN, coreId : Cores]]
         /\ request' \in [op : {"none", "reqLock", "releaseLock"}, lockNum : Locks, reqId : Cores]
<1>1. HeldBy(request.reqId) \in [isLocked : BOOLEAN, coreId : Cores]
  BY DEF LocksTypeOK, HeldBy
<1>2. \A l \in Locks : [isLocked |-> FALSE, coreId |-> lock[l].coreId] \in [isLocked : BOOLEAN, coreId : Cores]
  BY DEF LocksTypeOK
<1> QED BY <1>1, <1>2 DEF LocksTypeOK, LocksEdge

\* What may be written to the request register.
LEMMA RequestType ==
  /\ NoRequest \in [op : {"none", "reqLock", "releaseLock"}, lockNum : Locks, reqId : Cores]
  /\ \A c \in Cores, l \in Locks :
       /\ ReqLock(c, l) \in [op : {"none", "reqLock", "releaseLock"}, lockNum : Locks, reqId : Cores]
       /\ ReleaseLock(c, l) \in [op : {"none", "reqLock", "releaseLock"}, lockNum : Locks, reqId : Cores]
BY DEF NoRequest, ReqLock, ReleaseLock, Cores, Locks

LEMMA TypeInit == Init => TypeInv
BY DEF Init, LocksInit, ApiInit, LockTestInit, PlaybackInit, TypeInv, LocksTypeOK, SearchOK,
       Free, NoRequest, Cores, Locks, Tests, NoTest, Labels, Programs, BarePlaces, Causes

\* One step of a core keeps the types: the lock calls.
LEMMA TypeApi ==
  ASSUME TypeInv, NEW c \in Cores, ApiStep(c), program # "coherence",
         UNCHANGED <<lockTestVars, err, playbackVars, program>>
  PROVE  TypeInv'
<1> USE DEF TypeInv
<1>1. UNCHANGED <<allLocks, loop, pattern, err, claim, doneMask, test2Run, other,
                  patience, leaving, program>>
  BY DEF lockTestVars, playbackVars
<1>2. lockNum[c] \in Locks
  BY DEF LocksTypeOK
<1>3. CASE WriteRequest(c)
  <2>1. Goto(c, "written") /\ LocksEdge(ReqLock(c, lockNum[c]))
    BY <1>3 DEF WriteRequest
  <2>2. UNCHANGED <<lockNum, tries, held>>
    BY <1>3 DEF WriteRequest, Stay
  <2> QED BY <1>1, <1>2, <2>1, <2>2, GotoMoves, EdgeType, RequestType, ZenonT(60)
             DEF LocksTypeOK, SearchOK, Labels
<1>4. CASE ReadGot(c)
  <2>1. Goto(c, "inside") /\ LocksEdge(NoRequest)
    BY <1>4 DEF ReadGot
  <2>2. /\ UNCHANGED lockNum
        /\ tries' \in [Cores -> 0 .. GetTries]
        /\ held' \in [Cores -> SUBSET Locks]
    BY <1>2, <1>4 DEF ReadGot, LocksTypeOK
  <2> QED BY <1>1, <2>1, <2>2, GotoMoves, EdgeType, RequestType, ZenonT(60)
             DEF LocksTypeOK, SearchOK, Labels
<1>5. CASE ReadMissed(c)
  <2>1. PICK label \in {"getLock", "gaveUp"} : Goto(c, label)
    BY <1>5 DEF ReadMissed
  <2>2. LocksEdge(NoRequest) /\ UNCHANGED <<lockNum, held>>
    BY <1>5 DEF ReadMissed
  <2>3. tries' \in [Cores -> 0 .. GetTries]
    <3>1. tries \in [Cores -> 0 .. GetTries]
      BY DEF LocksTypeOK
    <3>2. CASE tries[c] > 1 /\ tries' = [tries EXCEPT ![c] = @ - 1]
      <4>1. tries[c] - 1 \in 0 .. GetTries
        BY <3>1, <3>2
      <4> QED BY <3>1, <3>2, <4>1
    <3>3. CASE tries' = [tries EXCEPT ![c] = GetTries]
      BY <3>1, <3>3
    <3> QED BY <1>5, <3>2, <3>3 DEF ReadMissed
  <2>4. /\ pc' \in [Cores -> Labels]
        /\ pc'[c] \notin {"scan", "claim", "playback", "compare"}
        /\ \A d \in Cores \ {c} : pc'[d] = IF pc[d] = "written" THEN "check" ELSE pc[d]
    BY <2>1, GotoMoves DEF Labels
  <2> QED BY <1>1, <2>2, <2>3, <2>4, EdgeType, RequestType DEF LocksTypeOK, SearchOK
<1>6. CASE WriteRelease(c)
  <2>1. Goto(c, "released") /\ LocksEdge(ReleaseLock(c, lockNum[c]))
    BY <1>6 DEF WriteRelease
  <2>2. /\ UNCHANGED <<lockNum, tries>>
        /\ held' \in [Cores -> SUBSET Locks]
    BY <1>6 DEF WriteRelease, Stay, LocksTypeOK
  <2> QED BY <1>1, <1>2, <2>1, <2>2, GotoMoves, EdgeType, RequestType, ZenonT(60)
             DEF LocksTypeOK, SearchOK, Labels
<1> QED BY <1>3, <1>4, <1>5, <1>6 DEF ApiStep

\* Every way out of a lock test's loop body: to the next request, or the end.
LEMMA LeavesBody ==
  ASSUME LocksTypeOK, NEW c \in Cores, NextLoop(c) \/ Break(c)
  PROVE  /\ \E label \in {"getLock", "done"} : Goto(c, label)
         /\ lockNum' \in [Cores -> Locks] /\ UNCHANGED tries
         /\ \A d \in Cores \ {c} : lockNum'[d] = lockNum[d]
         /\ loop' \in [Cores -> 0 .. Loops - 1]
<1>1. CASE NextLoop(c)
  <2>1. CASE loop[c] + 1 < Loops /\ loop' = [loop EXCEPT ![c] = @ + 1] /\ GetLock(c, 0)
    <3>1. loop \in [Cores -> 0 .. Loops - 1]
      BY DEF LocksTypeOK
    <3>2. loop[c] + 1 \in 0 .. Loops - 1
      BY <2>1, <3>1
    <3>3. loop' \in [Cores -> 0 .. Loops - 1]
      BY <2>1, <3>1, <3>2
    <3>4. 0 \in Locks
      BY DEF Locks
    <3> QED BY <2>1, <3>3, <3>4 DEF GetLock, LocksTypeOK
  <2>2. CASE Goto(c, "done") /\ Stay /\ UNCHANGED loop
    BY <2>2 DEF Stay, LocksTypeOK
  <2> QED BY <1>1, <2>1, <2>2 DEF NextLoop
<1>2. CASE ~allLocks /\ Goto(c, "done") /\ Stay /\ UNCHANGED loop
  BY <1>2 DEF Stay, LocksTypeOK
<1> QED BY <1>1, <1>2 DEF Break

\* One step of a core keeps the types: the lock test.
LEMMA TypeLockTest ==
  ASSUME TypeInv, NEW c \in Cores, program = "lockTest", LockTestStep(c),
         UNCHANGED <<playbackVars, program>>
  PROVE  TypeInv'
<1> USE DEF TypeInv
<1>1. UNCHANGED <<claim, doneMask, test2Run, other, patience, leaving, program>>
  BY DEF playbackVars
<1>2. CASE ApiStep(c) /\ UNCHANGED <<lockTestVars, err>>
  BY <1>2, TypeApi
<1>3. ASSUME NEW label \in Labels \ {"scan", "claim", "playback"}, Goto(c, label), QuietCycle,
             lockNum' \in [Cores -> Locks], UNCHANGED <<tries, allLocks>>,
             loop' \in [Cores -> 0 .. Loops - 1], pattern' \in [Locks -> Cores],
             err' \in [Cores -> SUBSET Causes]
      PROVE  TypeInv'
  <2>1. LocksEdge(NoRequest) /\ UNCHANGED held
    BY <1>3 DEF QuietCycle
  <2> QED BY <1>1, <1>3, <2>1, GotoMoves, EdgeType, RequestType, ZenonT(60)
             DEF LocksTypeOK, SearchOK, Programs
<1>4. \A l \in Locks : [pattern EXCEPT ![l] = c] \in [Locks -> Cores]
  BY DEF LocksTypeOK
<1>5. ASSUME NEW cause \in {"mismatch", "timeout"}, CountError(c, cause)
      PROVE  err' \in [Cores -> SUBSET Causes]
  BY <1>5 DEF CountError, LocksTypeOK, Causes
<1>6. CASE WritePattern(c)
  <2>1. UNCHANGED <<lockNum, tries, allLocks, loop, err>> /\ QuietCycle
    BY <1>6 DEF WritePattern, Stay
  <2>2. pattern' \in [Locks -> Cores] /\ Goto(c, "compare")
    BY <1>4, <1>6 DEF WritePattern, LocksTypeOK
  <2> QED BY <1>3, <2>1, <2>2 DEF LocksTypeOK, Labels
<1>7. CASE CompareGood(c)
  <2>1. UNCHANGED <<allLocks, pattern, err>> /\ QuietCycle
    BY <1>7 DEF CompareGood
  <2>2. CASE Goto(c, "release") /\ Stay /\ UNCHANGED loop
    BY <1>3, <2>1, <2>2 DEF Stay, LocksTypeOK, Labels
  <2>3. CASE Break(c)
    <3>1. PICK label \in {"getLock", "done"} : Goto(c, label)
      BY <2>3, LeavesBody
    <3> QED BY <1>3, <2>1, <2>3, <3>1, LeavesBody DEF LocksTypeOK, Labels
  <2> QED BY <1>7, <2>2, <2>3 DEF CompareGood
<1>8. CASE CompareBad(c) \/ NoLock(c)
  <2>1. Break(c) /\ UNCHANGED <<allLocks, pattern>> /\ QuietCycle
    BY <1>8 DEF CompareBad, NoLock
  <2>2. PICK label \in {"getLock", "done"} : Goto(c, label)
    BY <2>1, LeavesBody
  <2>3. err' \in [Cores -> SUBSET Causes]
    BY <1>5, <1>8 DEF CompareBad, NoLock
  <2> QED BY <1>3, <2>1, <2>2, <2>3, LeavesBody DEF LocksTypeOK, Labels
<1>9. CASE AfterRelease(c)
  <2>1. UNCHANGED <<allLocks, pattern, err>> /\ QuietCycle
    BY <1>9 DEF AfterRelease
  <2>2. CASE lockNum[c] + 1 \in Locks /\ GetLock(c, lockNum[c] + 1) /\ UNCHANGED loop
    BY <1>3, <2>1, <2>2 DEF GetLock, LocksTypeOK, Labels
  <2>3. CASE NextLoop(c)
    <3>1. PICK label \in {"getLock", "done"} : Goto(c, label)
      BY <2>3, LeavesBody
    <3> QED BY <1>3, <2>1, <2>3, <3>1, LeavesBody DEF LocksTypeOK, Labels
  <2> QED BY <1>9, <2>2, <2>3 DEF AfterRelease
<1> QED BY <1>2, <1>6, <1>7, <1>8, <1>9 DEF LockTestStep

\* One step of a core keeps the types: the playback team.
LEMMA TypePlayback ==
  ASSUME TypeInv, NEW c \in Cores, program = "playback", PlaybackStep(c),
         UNCHANGED <<lockTestVars, program>>
  PROVE  TypeInv'
<1> USE DEF TypeInv
<1>1. UNCHANGED <<allLocks, loop, pattern, program>>
  BY DEF lockTestVars
<1>2. CASE ApiStep(c) /\ UNCHANGED <<playbackVars, err>>
  BY <1>2, TypeApi
<1>3. ASSUME NEW label \in Labels \ {"compare"}, Goto(c, label), QuietCycle,
             lockNum' = [lockNum EXCEPT ![c] = 0] \/ UNCHANGED lockNum, UNCHANGED tries,
             claim' \in [Cores -> Tests \cup {NoTest}], doneMask' \in [Cores -> SUBSET Tests],
             test2Run' \in [Cores -> Tests \cup {NoTest}], other' \in [Cores -> Cores],
             \A d \in Cores \ {c} : test2Run'[d] = test2Run[d],
             label \in {"scan", "claim", "playback"} => test2Run'[c] \in Tests,
             patience' \in [Cores -> 0 .. FindTries], leaving' \in [Cores -> BOOLEAN],
             err' \in [Cores -> SUBSET Causes]
      PROVE  TypeInv'
  <2>1. LocksEdge(NoRequest) /\ UNCHANGED held
    BY <1>3 DEF QuietCycle
  <2>2. lockNum' \in [Cores -> Locks] /\ \A d \in Cores : lockNum'[d] = 0
    <3>1. lockNum \in [Cores -> Locks] /\ \A d \in Cores : lockNum[d] = 0
      BY DEF LocksTypeOK, SearchOK
    <3>2. 0 \in Locks
      BY DEF Locks
    <3> QED BY <1>3, <3>1, <3>2
  <2>3. SearchOK'
    <3>1. pc'[c] = label /\ \A d \in Cores \ {c} : pc'[d] \in {pc[d], "check"}
      BY <1>3, GotoMoves
    <3>2. \A d \in Cores : pc'[d] \in {"scan", "claim", "playback"} => test2Run'[d] \in Tests
      BY <1>3, <3>1 DEF SearchOK
    <3>3. \A d \in Cores : pc'[d] # "compare"
      BY <1>3, <3>1 DEF SearchOK
    <3>4. program' = "playback" /\ program' # "lockTest"
      BY <1>1
    <3> QED BY <2>2, <3>2, <3>3, <3>4 DEF SearchOK
  <2> QED BY <1>1, <1>3, <2>1, <2>2, <2>3, GotoMoves, EdgeType, RequestType, ZenonT(60)
             DEF LocksTypeOK
<1>4. ASSUME NEW t \in Tests \cup {NoTest}, LookAt(c, t)
      PROVE  /\ Goto(c, IF t = NoTest THEN "release" ELSE "scan")
             /\ test2Run' \in [Cores -> Tests \cup {NoTest}] /\ test2Run'[c] = t
             /\ \A d \in Cores \ {c} : test2Run'[d] = test2Run[d]
             /\ other' \in [Cores -> Cores]
  <2>1. 0 \in Cores
    BY DEF Cores
  <2> QED BY <1>4, <2>1 DEF LookAt, LocksTypeOK
<1>5. ASSUME NEW mask, NEW errors, Loop(c, mask, errors)
      PROVE  /\ leaving' \in [Cores -> BOOLEAN] /\ Goto(c, "getLock") /\ UNCHANGED tries
             /\ lockNum' = [lockNum EXCEPT ![c] = 0]
  BY <1>5 DEF Loop, GetLock, LocksTypeOK
<1>6. CASE DropClaim(c)
  <2>1. /\ LookAt(c, 0) /\ QuietCycle /\ UNCHANGED <<lockNum, tries, doneMask, patience, leaving, err>>
        /\ claim' \in [Cores -> Tests \cup {NoTest}]
    BY <1>6 DEF DropClaim, Stay, LocksTypeOK
  <2>2. 0 \in Tests /\ 0 # NoTest
    BY DEF Tests, NoTest
  <2>3. Goto(c, "scan")
    BY <1>4, <2>1, <2>2
  <2> QED BY <1>3, <1>4, <2>1, <2>2, <2>3 DEF LocksTypeOK, Labels
<1>7. CASE Scan(c)
  <2>1. QuietCycle /\ UNCHANGED <<lockNum, tries, claim, doneMask, patience, leaving, err>>
    BY <1>7 DEF Scan, Stay
  <2>2. test2Run[c] \in Tests /\ test2Run[c] \in Nat
    BY <1>7 DEF Scan, SearchOK, Tests
  <2>3. CASE LookAt(c, test2Run[c] + 1)
    <3>1. test2Run[c] + 1 \in Tests \cup {NoTest}
      BY <2>2 DEF Tests, NoTest
    <3>2. CASE test2Run[c] + 1 = NoTest
      <4>1. Goto(c, "release")
        BY <1>4, <2>3, <3>1, <3>2
      <4> QED BY <1>3, <1>4, <2>1, <2>3, <3>1, <4>1 DEF LocksTypeOK, Labels
    <3>3. CASE test2Run[c] + 1 # NoTest
      <4>1. Goto(c, "scan") /\ test2Run[c] + 1 \in Tests
        BY <1>4, <2>3, <3>1, <3>3
      <4> QED BY <1>3, <1>4, <2>1, <2>3, <3>1, <4>1 DEF LocksTypeOK, Labels
    <3> QED BY <3>2, <3>3
  <2>4. CASE UNCHANGED test2Run
    <3>1. PICK label \in {"scan", "claim"} : Goto(c, label)
      BY <1>7, <2>4, <2>2, <2>3 DEF Scan, LookAt, LocksTypeOK
    <3>2. other' \in [Cores -> Cores]
      <4>1. 0 \in Cores
        BY DEF Cores
      <4> QED BY <1>7, <4>1, ZenonT(60) DEF Scan, LookAt, LocksTypeOK
    <3> QED BY <1>3, <2>1, <2>2, <2>4, <3>1, <3>2 DEF LocksTypeOK, Labels
  <2> QED BY <1>7, <2>3, <2>4 DEF Scan
<1>8. CASE Claim(c)
  <2>1. /\ Goto(c, "release") /\ QuietCycle
        /\ UNCHANGED <<lockNum, tries, doneMask, test2Run, other, patience, leaving, err>>
        /\ claim' \in [Cores -> Tests \cup {NoTest}]
    BY <1>8 DEF Claim, Stay, LocksTypeOK
  <2> QED BY <1>3, <2>1 DEF LocksTypeOK, Labels
<1>9. CASE Run(c)
  <2>1. /\ Goto(c, "playback") /\ QuietCycle
        /\ UNCHANGED <<lockNum, tries, claim, doneMask, test2Run, other, leaving, err>>
        /\ patience' \in [Cores -> 0 .. FindTries]
    BY <1>9 DEF Run, Stay, LocksTypeOK
  <2>2. test2Run[c] \in Tests
    BY <1>9 DEF Run, LocksTypeOK
  <2> QED BY <1>3, <2>1, <2>2 DEF LocksTypeOK, Labels
<1>10. CASE Played(c)
  <2>1. Loop(c, doneMask'[c], err'[c]) /\ QuietCycle /\ UNCHANGED <<claim, other, patience>>
    BY <1>10 DEF Played
  <2>2. err' \in [Cores -> SUBSET Causes]
    <3>1. [err EXCEPT ![c] = @ \cup {"playback"}] \in
            [Cores -> SUBSET Causes]
      BY DEF LocksTypeOK, Causes
    <3> QED BY <1>10, <3>1 DEF Played, LocksTypeOK
  <2>3. /\ test2Run' \in [Cores -> Tests \cup {NoTest}]
        /\ \A d \in Cores \ {c} : test2Run'[d] = test2Run[d]
    BY <1>10 DEF Played, LocksTypeOK
  <2>4. doneMask' \in [Cores -> SUBSET Tests]
    BY <1>10 DEF Played, LocksTypeOK, SearchOK
  <2> QED BY <1>3, <1>5, <2>1, <2>2, <2>3, <2>4 DEF LocksTypeOK, Labels
<1>11. CASE NotFound(c)
  <2>1. Loop(c, doneMask[c], err'[c]) /\ QuietCycle /\ UNCHANGED <<claim, doneMask, test2Run, other>>
    BY <1>11 DEF NotFound
  <2>2. err' \in [Cores -> SUBSET Causes]
    <3>1. \A cause \in {"cannotFind"} : [err EXCEPT ![c] = @ \cup {cause}]
            \in [Cores -> SUBSET Causes]
      BY DEF LocksTypeOK, Causes
    <3> QED BY <1>11, <3>1 DEF NotFound, CountError, LocksTypeOK
  <2>3. patience' \in [Cores -> 0 .. FindTries]
    <3>1. patience \in [Cores -> 0 .. FindTries]
      BY DEF LocksTypeOK
    <3>2. patience[c] - 1 \in 0 .. FindTries
      BY <1>11, <3>1 DEF NotFound
    <3> QED BY <1>11, <3>1, <3>2 DEF NotFound
  <2> QED BY <1>3, <1>5, <2>1, <2>2, <2>3 DEF LocksTypeOK, Labels
<1>12. CASE Leave(c)
  <2>1. /\ Goto(c, "done") /\ QuietCycle
        /\ UNCHANGED <<lockNum, tries, claim, doneMask, test2Run, other, patience, leaving, err>>
    BY <1>12 DEF Leave, Stay, playbackVars
  <2> QED BY <1>3, <2>1 DEF LocksTypeOK, Labels
<1> QED BY <1>2, <1>6, <1>7, <1>8, <1>9, <1>10, <1>11, <1>12 DEF PlaybackStep

\* What the coherence test and the threads that watch it do: a step moves its
\* core inside the test and leaves the lock register alone.
BareStep(c) ==
  /\ program = "coherence" /\ (CoherenceStep(c) \/ WatchStep(c))
  /\ UNCHANGED <<allLocks, pattern, playbackVars, program>>

LEMMA Steps ==
  ASSUME NEW c \in Cores, CoreStep(c) \/ HostStep(c)
  PROVE  \/ program = "lockTest" /\ LockTestStep(c) /\ UNCHANGED <<playbackVars, bareVars, program>>
         \/ program = "playback" /\ PlaybackStep(c) /\ UNCHANGED <<lockTestVars, bareVars, program>>
         \/ BareStep(c)
BY DEF CoreStep, HostStep, BareStep

LEMMA BareMoves ==
  ASSUME TypeInv, NEW c \in Cores, BareStep(c)
  PROVE  /\ QuietCycle /\ Stay /\ \E label \in BarePlaces : Goto(c, label)
         /\ pc[c] \in BarePlaces
         /\ loop' \in [Cores -> 0 .. Loops - 1] /\ err' \in [Cores -> SUBSET Causes]
         /\ \A d \in Cores : "mismatch" \in err'[d] \ err[d] => d = c /\ LostMine(c)
<1> USE DEF TypeInv
<1>1. pc[c] \in BarePlaces /\ pc \in [Cores -> Labels]
  BY DEF BareStep, SearchOK, LocksTypeOK
<1>2. loop \in [Cores -> 0 .. Loops - 1] /\ err \in [Cores -> SUBSET Causes]
  BY DEF LocksTypeOK
<1>3. ASSUME NEW cause \in Causes, CountError(c, cause)
      PROVE  err' \in [Cores -> SUBSET Causes] /\ \A d \in Cores : cause \in err'[d] \ err[d] => d = c
  BY <1>2, <1>3 DEF CountError
<1>4. CASE Start(c) \/ Store(c) \/ SeePartner(c) \/ Report(c)
  <2>1. QuietCycle /\ Stay /\ UNCHANGED <<loop, err>>
    BY <1>4 DEF Start, Store, SeePartner, Report
  <2>2. \E label \in BarePlaces : Goto(c, label)
    BY <1>4 DEF Start, Store, SeePartner, Report, NextBlock, BarePlaces
  <2> QED BY <1>1, <1>2, <2>1, <2>2
<1>5. CASE MissPartner(c)
  <2>1. QuietCycle /\ Stay /\ UNCHANGED loop /\ \E label \in BarePlaces : Goto(c, label)
    BY <1>5 DEF MissPartner, BarePlaces
  <2>2. UNCHANGED err \/ err' = [err EXCEPT ![c] = @ \cup {"noPartner"}]
    BY <1>5 DEF MissPartner, CountError
  <2>3. /\ err' \in [Cores -> SUBSET Causes]
        /\ \A d \in Cores : "mismatch" \in err'[d] => "mismatch" \in err[d]
    BY <1>2, <2>2 DEF Causes
  <2> QED BY <1>1, <1>2, <2>1, <2>3
<1>6. CASE CheckMine(c)
  <2>1. QuietCycle /\ Stay /\ UNCHANGED err /\ \E label \in BarePlaces : Goto(c, label)
    BY <1>6 DEF CheckMine, BarePlaces
  <2>2. loop' \in [Cores -> 0 .. Loops - 1]
    <3>1. loop' = loop \/ (loop[c] + 1 < Loops /\ loop' = [loop EXCEPT ![c] = @ + 1])
      BY <1>6 DEF CheckMine
    <3>2. loop[c] \in Nat
      BY <1>2
    <3> QED BY <1>2, <3>1, <3>2
  <2> QED BY <1>1, <1>2, <2>1, <2>2
<1>7. CASE LostMine(c)
  <2>1. QuietCycle /\ Stay /\ UNCHANGED loop /\ Goto(c, "report") /\ CountError(c, "mismatch")
    BY <1>7 DEF LostMine
  <2> QED BY <1>1, <1>2, <1>3, <1>7, <2>1 DEF BarePlaces, Causes
<1>8. CASE Poll(c) /\ UNCHANGED <<loop, err>>
  <2>1. QuietCycle /\ Stay /\ pc' = Acked
    BY <1>8 DEF Poll
  <2>2. Goto(c, pc[c])
    BY <1>1, <2>1 DEF Goto, Acked, BarePlaces
  <2> QED BY <1>1, <1>2, <1>8, <2>1, <2>2
<1>9. CASE PutInReset(c) /\ UNCHANGED <<loop, err>>
  <2>1. QuietCycle /\ Stay /\ Goto(c, "done")
    BY <1>9 DEF PutInReset
  <2> QED BY <1>1, <1>2, <1>9, <2>1 DEF BarePlaces
<1> QED BY <1>4, <1>5, <1>6, <1>7, <1>8, <1>9 DEF BareStep, CoherenceStep, WatchStep

LEMMA TypeBare ==
  ASSUME TypeInv, NEW c \in Cores, BareStep(c)
  PROVE  TypeInv'
<1>1. /\ QuietCycle /\ Stay /\ loop' \in [Cores -> 0 .. Loops - 1]
      /\ err' \in [Cores -> SUBSET Causes]
  BY BareMoves
<1>2. PICK label \in BarePlaces : Goto(c, label)
  BY BareMoves
<1>3. /\ UNCHANGED <<lockNum, tries, held, allLocks, pattern, claim, doneMask, test2Run, other,
                     patience, leaving, program>>
      /\ LocksEdge(NoRequest) /\ program = "coherence"
  BY <1>1 DEF BareStep, QuietCycle, Stay, playbackVars
<1>4. /\ pc' \in [Cores -> Labels]
      /\ \A d \in Cores : pc'[d] \in BarePlaces
  BY <1>2, <1>3, GotoMoves DEF TypeInv, SearchOK, BarePlaces, Labels
<1>5. LocksTypeOK'
  BY <1>1, <1>3, <1>4, EdgeType, RequestType DEF TypeInv, LocksTypeOK
<1>6. SearchOK'
  BY <1>3, <1>4 DEF SearchOK, BarePlaces
<1> QED BY <1>5, <1>6 DEF TypeInv

LEMMA TypeStep == TypeInv /\ [Next]_vars => TypeInv'
<1> SUFFICES ASSUME TypeInv, [Next]_vars PROVE TypeInv'
  OBVIOUS
<1>1. ASSUME NEW c \in Cores, CoreStep(c) \/ HostStep(c) PROVE TypeInv'
  BY <1>1, Steps, TypeLockTest, TypePlayback, TypeBare
<1>2. CASE Idle
  <2>1. /\ UNCHANGED <<lockNum, tries, held, allLocks, loop, pattern, err, claim, doneMask,
                       test2Run, other, patience, leaving, program>>
        /\ LocksEdge(NoRequest)
    BY <1>2 DEF Idle, Stay, QuietCycle, lockTestVars, playbackVars
  <2>2. pc' \in [Cores -> Labels] /\ \A d \in Cores : pc'[d] \in {pc[d], "check"}
    BY <1>2 DEF Idle, Acked, TypeInv, LocksTypeOK, Labels
  <2>3. LocksTypeOK'
    BY <2>1, <2>2, EdgeType, RequestType DEF TypeInv, LocksTypeOK
  <2>4. \A d \in Cores : pc[d] \in BarePlaces => pc'[d] = pc[d]
    BY <1>2 DEF Idle, Acked, BarePlaces
  <2> QED BY <2>1, <2>2, <2>3, <2>4 DEF TypeInv, SearchOK
<1>3. CASE UNCHANGED vars
  BY <1>3 DEF vars, lockVars, apiVars, lockTestVars, playbackVars, TypeInv, LocksTypeOK, SearchOK
<1> QED BY <1>1, <1>2, <1>3 DEF Next

\* Types and the places of a search, for any number of cores, locks and tests.
THEOREM TypeCorrect == Spec => []TypeInv
BY TypeInit, TypeStep, PTL DEF Spec

------------------------------------------------------------------------------
\* The coherence test.  The cores have written the blocks up to the one they are
\* at, and have seen their partners' there; a partner may be ahead, never behind.
Written(c, n) == \A b \in 0 .. n - 1 : cell[c][b] = loop[c] + 1
Seen(c, n)    == \A b \in 0 .. n - 1 : cell[Partner(c)][b] > loop[c]

RoundInv(c) ==
  /\ \A b \in Blocks : cell[c][b] <= loop[c] + 1
  /\ pc[c] = "start" => block[c] = 0
  /\ pc[c] = "store" => Written(c, block[c])
  /\ pc[c] \in {"partner", "mine"} => Written(c, MaxBlocks)
  /\ pc[c] = "partner" => Seen(c, block[c])
  /\ pc[c] = "mine" => Seen(c, MaxBlocks)
  /\ pc[c] = "report" /\ err[c] = {} => loop[c] = Loops - 1 /\ Seen(c, MaxBlocks)
  /\ status[c] = "good" =>
       pc[c] = "done" /\ err[c] = {} /\ loop[c] = Loops - 1 /\ Seen(c, MaxBlocks)

\* A thread leaves its core without an error only on the core's word.
VerdictInv(c) ==
  /\ program # "coherence" => watch[c] \notin {"reset", "over"}
  /\ watch[c] = "poll" => errCnt[c] = 0 /\ polls[c] < MaxPolls
  /\ watch[c] \in {"reset", "over"} /\ errCnt[c] = 0 => status[c] = "good"

BareInv ==
  /\ BareTypeOK
  /\ program = "coherence" => \A c \in Cores : RoundInv(c)
  /\ \A c \in Cores : VerdictInv(c)

LEMMA PartnerType == \A c \in Cores : Partner(c) \in Cores
BY DEF Partner, Cores

LEMMA BareInit == Init => BareInv
<1> SUFFICES ASSUME Init PROVE BareInv
  OBVIOUS
<1>1. /\ cell = [c \in Cores |-> [b \in Blocks |-> 0]] /\ block = [c \in Cores |-> 0]
      /\ loop = [c \in Cores |-> 0] /\ status = [c \in Cores |-> "none"]
      /\ to = [c \in Cores |-> PartnerTries] /\ polls = [c \in Cores |-> 0]
      /\ errCnt = [c \in Cores |-> 0]
      /\ watch = [c \in Cores |-> IF c \in Watched THEN "poll" ELSE "off"]
      /\ 0 \in Blocks
  BY DEF Init, LockTestInit, StatusInit, CoherenceInit, Blocks
<1>2. BareTypeOK
  BY <1>1 DEF BareTypeOK
<1>3. ASSUME program = "coherence", NEW c \in Cores PROVE RoundInv(c)
  <2>1. pc[c] \in {"done", "start"}
    BY <1>3 DEF Init
  <2> QED BY <1>1, <2>1 DEF RoundInv
<1>4. \A c \in Cores : VerdictInv(c)
  BY <1>1 DEF VerdictInv
<1> QED BY <1>2, <1>3, <1>4 DEF BareInv

\* A core that does not move keeps its part, whatever its partner writes.
LEMMA RoundKept ==
  ASSUME TypeInv, BareTypeOK, BareTypeOK', NEW d \in Cores, RoundInv(d), program = "coherence",
         pc'[d] \in {pc[d], "check"}, loop'[d] = loop[d], block'[d] = block[d], status'[d] = status[d],
         err'[d] = err[d], cell'[d] = cell[d], status[d] = "good" => pc'[d] = pc[d],
         \A b \in Blocks : cell'[Partner(d)][b] >= cell[Partner(d)][b]
  PROVE  RoundInv(d)'
<1>1. /\ loop[d] \in Nat /\ block[d] \in Blocks /\ block[d] \in Nat
      /\ \A b \in Blocks : cell[Partner(d)][b] \in Nat /\ cell'[Partner(d)][b] \in Nat
  <2>1. /\ Partner(d) \in Cores /\ Blocks' = Blocks
        /\ cell \in [Cores -> [Blocks -> 0 .. Loops]] /\ cell' \in [Cores -> [Blocks' -> 0 .. Loops]]
        /\ loop[d] \in 0 .. Loops - 1 /\ block[d] \in Blocks
    <3>1. Blocks' = Blocks
      BY DEF Blocks
    <3> QED BY <3>1, PartnerType DEF TypeInv, LocksTypeOK, BareTypeOK
  <2>2. \A b \in Blocks : cell[Partner(d)][b] \in 0 .. Loops /\ cell'[Partner(d)][b] \in 0 .. Loops
    BY <2>1
  <2>3. block[d] \in Nat
    BY <2>1 DEF Blocks
  <2> QED BY <2>1, <2>2, <2>3
<1>2. ASSUME NEW n \in 0 .. MaxBlocks, Seen(d, n) PROVE Seen(d, n)'
  <2>1. Partner(d)' = Partner(d)
    BY DEF Partner
  <2>2. ASSUME NEW b \in 0 .. n - 1 PROVE cell'[Partner(d)][b] > loop'[d]
    <3>1. b \in Blocks /\ cell[Partner(d)][b] > loop[d]
      BY <1>2, <2>2 DEF Seen, Blocks
    <3> QED BY <1>1, <3>1
  <2> QED BY <2>1, <2>2 DEF Seen
<1>3. \A n \in 0 .. MaxBlocks : Written(d, n) => Written(d, n)'
  BY DEF Written
<1>4. block[d] \in 0 .. MaxBlocks /\ MaxBlocks \in 0 .. MaxBlocks
  BY <1>1 DEF Blocks
<1> QED BY <1>2, <1>3, <1>4 DEF RoundInv, Blocks, Seen, Written, Partner

\* The types of the coherence test and of the threads.
LEMMA BareTypeStep ==
  ASSUME TypeInv, BareInv, NEW c \in Cores, BareStep(c)
  PROVE  BareTypeOK'
<1>1. /\ status \in [Cores -> {"none", "running", "good", "bad"}]
      /\ watch \in [Cores -> {"off", "poll", "reset", "over"}]
      /\ polls \in [Cores -> 0 .. MaxPolls] /\ errCnt \in [Cores -> 0 .. 2]
      /\ cell \in [Cores -> [Blocks -> 0 .. Loops]]
      /\ block \in [Cores -> Blocks] /\ to \in [Cores -> 0 .. PartnerTries]
      /\ loop[c] \in 0 .. Loops - 1
  BY DEF BareInv, BareTypeOK, TypeInv, LocksTypeOK
<1>2. ASSUME NEW here, NEW after, NextBlock(c, here, after) PROVE block' \in [Cores -> Blocks]
  <2>1. 0 \in Blocks
    BY DEF Blocks
  <2> QED BY <1>1, <1>2, <2>1 DEF NextBlock
<1>3. CASE Start(c)
  BY <1>1, <1>3 DEF Start, SetStatus, coherenceVars, BareTypeOK
<1>4. CASE Store(c)
  <2>1. UNCHANGED <<statusVars, to>> /\ block' \in [Cores -> Blocks]
    BY <1>2, <1>4 DEF Store
  <2>2. cell' \in [Cores -> [Blocks -> 0 .. Loops]]
    <3>1. loop[c] + 1 \in 0 .. Loops
      BY <1>1
    <3>2. [cell[c] EXCEPT ![block[c]] = loop[c] + 1] \in [Blocks -> 0 .. Loops]
      BY <1>1, <3>1
    <3>3. cell' = [cell EXCEPT ![c] = [cell[c] EXCEPT ![block[c]] = loop[c] + 1]]
      BY <1>1, <1>4 DEF Store
    <3> QED BY <1>1, <3>2, <3>3
  <2> QED BY <1>1, <2>1, <2>2 DEF statusVars, BareTypeOK
<1>5. CASE SeePartner(c)
  <2>1. UNCHANGED <<statusVars, cell>> /\ block' \in [Cores -> Blocks]
    BY <1>2, <1>5 DEF SeePartner
  <2>2. to' \in [Cores -> 0 .. PartnerTries]
    BY <1>1, <1>5 DEF SeePartner
  <2> QED BY <1>1, <2>1, <2>2 DEF statusVars, BareTypeOK
<1>6. CASE MissPartner(c)
  <2>1. UNCHANGED <<statusVars, cell, block>> /\ to' = [to EXCEPT ![c] = @ - 1] /\ to[c] >= 1
    BY <1>1, <1>6 DEF MissPartner
  <2>2. to[c] - 1 \in 0 .. PartnerTries
    BY <1>1, <2>1
  <2> QED BY <1>1, <2>1, <2>2 DEF statusVars, BareTypeOK
<1>7. CASE CheckMine(c)
  <2>1. UNCHANGED <<statusVars, cell, to>>
    BY <1>7 DEF CheckMine
  <2>2. block' \in [Cores -> Blocks]
    <3>1. 0 \in Blocks
      BY DEF Blocks
    <3> QED BY <1>1, <1>7, <3>1 DEF CheckMine
  <2> QED BY <1>1, <2>1, <2>2 DEF statusVars, BareTypeOK
<1>8. CASE LostMine(c)
  BY <1>1, <1>8 DEF LostMine, statusVars, coherenceVars, BareTypeOK
<1>9. CASE Report(c)
  BY <1>1, <1>9 DEF Report, SetStatus, coherenceVars, BareTypeOK
<1>10. CASE Poll(c) /\ UNCHANGED coherenceVars
  <2>1. errCnt[c] = 0 /\ polls[c] \in Nat /\ polls[c] < MaxPolls
    BY <1>1, <1>10 DEF Poll, BareInv, VerdictInv
  <2>2. polls' \in [Cores -> 0 .. MaxPolls]
    BY <1>1, <1>10, <2>1 DEF Poll
  <2>3. errCnt' \in [Cores -> 0 .. 2]
    <3>1. errCnt' = [errCnt EXCEPT ![c] =
             @ + (IF status[c] = "bad" THEN 1 ELSE 0) + (IF LastPoll(c) THEN 1 ELSE 0)]
      BY <1>10 DEF Poll
    <3>2. errCnt[c] + (IF status[c] = "bad" THEN 1 ELSE 0) + (IF LastPoll(c) THEN 1 ELSE 0) \in 0 .. 2
      BY <2>1
    <3> QED BY <1>1, <3>1, <3>2
  <2>4. watch' \in [Cores -> {"off", "poll", "reset", "over"}] /\ UNCHANGED <<status, cell, block, to>>
    BY <1>1, <1>10 DEF Poll, coherenceVars
  <2> QED BY <1>1, <2>2, <2>3, <2>4 DEF BareTypeOK
<1>11. CASE PutInReset(c) /\ UNCHANGED coherenceVars
  BY <1>1, <1>11 DEF PutInReset, coherenceVars, BareTypeOK
<1> QED BY <1>3, <1>4, <1>5, <1>6, <1>7, <1>8, <1>9, <1>10, <1>11
        DEF BareStep, CoherenceStep, WatchStep

\* Where its own step takes a core.
LEMMA RoundMove ==
  ASSUME TypeInv, BareInv, BareTypeOK', NEW c \in Cores, BareStep(c)
  PROVE  RoundInv(c)'
<1> DEFINE p == Partner(c)
<1>1. /\ p \in Cores /\ Partner(c)' = p
      /\ loop \in [Cores -> 0 .. Loops - 1] /\ block \in [Cores -> Blocks]
      /\ status \in [Cores -> {"none", "running", "good", "bad"}]
      /\ cell \in [Cores -> [Blocks -> 0 .. Loops]] /\ err \in [Cores -> SUBSET Causes]
      /\ cell' \in [Cores -> [Blocks -> 0 .. Loops]] /\ pc \in [Cores -> Labels]
  <2>1. Partner(c)' = p
    BY DEF Partner
  <2> QED BY <2>1, PartnerType DEF TypeInv, LocksTypeOK, BareInv, BareTypeOK
<1> HIDE DEF p
<1>2. RoundInv(c) /\ block[c] \in Nat /\ loop[c] \in Nat /\ Blocks = 0 .. MaxBlocks - 1
  BY <1>1 DEF BareInv, BareStep, Blocks
<1>0. /\ \A b \in Blocks : cell[c][b] \in Nat /\ cell[c][b] <= loop[c] + 1
      /\ block[c] + 1 \notin Blocks => block[c] = MaxBlocks - 1
  <2>1. \A b \in Blocks : cell[c][b] \in 0 .. Loops
    BY <1>1
  <2>2. block[c] \in 0 .. MaxBlocks - 1
    BY <1>1, <1>2
  <2> QED BY <1>2, <2>1, <2>2 DEF RoundInv
<1>3. ASSUME NEW label \in Labels, Goto(c, label) PROVE pc'[c] = label
  BY <1>3, GotoMoves DEF TypeInv
<1>4. pc[c] \in BarePlaces
  BY DEF BareStep, TypeInv, SearchOK
<1>5. status[c] = "good" => pc[c] = "done"
  BY <1>2 DEF RoundInv
<1>6. Seen(c, MaxBlocks) <=> \A b \in Blocks : cell[p][b] > loop[c]
  BY <1>2 DEF Seen, p
<1>7. CASE Start(c)
  <2>1. /\ pc[c] = "start" /\ Goto(c, "store") /\ UNCHANGED <<cell, block, loop, err>>
        /\ status' = [status EXCEPT ![c] = "running"]
    BY <1>7 DEF Start, SetStatus, coherenceVars
  <2>2. pc'[c] = "store" /\ block'[c] = 0 /\ status'[c] = "running"
    BY <1>1, <1>2, <1>3, <2>1 DEF Labels, RoundInv
  <2> QED BY <1>2, <2>1, <2>2 DEF RoundInv, Written
<1>8. CASE Store(c)
  <2>1. /\ pc[c] = "store" /\ UNCHANGED <<status, loop, err>>
        /\ cell' = [cell EXCEPT ![c][block[c]] = loop[c] + 1]
        /\ NextBlock(c, "store", "partner")
    BY <1>8 DEF Store, statusVars
  <2>2. /\ cell'[c][block[c]] = loop[c] + 1
        /\ \A b \in Blocks \ {block[c]} : cell'[c][b] = cell[c][b]
    BY <1>1, <2>1
  <2>3. \A b \in 0 .. block[c] : cell'[c][b] = loop[c] + 1
    <3>1. Written(c, block[c])
      BY <1>2, <2>1 DEF RoundInv
    <3>2. block[c] \in 0 .. MaxBlocks - 1
      BY <1>1, <1>2
    <3>3. ASSUME NEW b \in 0 .. block[c], b # block[c] PROVE b \in Blocks /\ b \in 0 .. block[c] - 1
      BY <1>2, <3>2, <3>3
    <3> QED BY <2>2, <3>1, <3>3 DEF Written
  <2>4. \A b \in Blocks : cell'[c][b] <= loop[c] + 1
    <3>1. loop[c] + 1 <= loop[c] + 1
      BY <1>2
    <3> QED BY <1>0, <2>2, <3>1
  <2>5. CASE block[c] + 1 \in Blocks /\ block' = [block EXCEPT ![c] = @ + 1] /\ Goto(c, "store")
    <3>1. pc'[c] = "store" /\ block'[c] = block[c] + 1
      BY <1>1, <1>3, <2>5 DEF Labels
    <3>2. Written(c, block[c])'
      BY <1>2, <2>1, <2>3, <3>1, SMTT(30) DEF Written
    <3> QED BY <1>5, <2>1, <2>4, <3>1, <3>2 DEF RoundInv
  <2>6. CASE block[c] + 1 \notin Blocks /\ block' = [block EXCEPT ![c] = 0] /\ Goto(c, "partner")
    <3>1. pc'[c] = "partner" /\ block'[c] = 0 /\ block[c] = MaxBlocks - 1
      BY <1>0, <1>1, <1>3, <2>6 DEF Labels
    <3>2. Written(c, MaxBlocks)' /\ Seen(c, block[c])'
      BY <1>2, <2>1, <2>3, <3>1 DEF Written, Seen
    <3> QED BY <1>5, <2>1, <2>4, <3>1, <3>2 DEF RoundInv
  <2> QED BY <2>1, <2>5, <2>6 DEF NextBlock
\* From here on no step of this core writes to memory.
<1>9. ASSUME UNCHANGED <<cell, loop>>
      PROVE  /\ \A b \in Blocks : cell'[c][b] <= loop'[c] + 1
             /\ \A n \in 0 .. MaxBlocks : Written(c, n)' <=> Written(c, n)
             /\ \A n \in 0 .. MaxBlocks : Seen(c, n)' <=> Seen(c, n)
  BY <1>1, <1>2, <1>9 DEF RoundInv, Written, Seen, p
<1>10. CASE SeePartner(c)
  <2>1. /\ pc[c] = "partner" /\ UNCHANGED <<cell, status, loop, err>>
        /\ cell[p][block[c]] = loop[c] + 1 /\ NextBlock(c, "partner", "mine")
    BY <1>10 DEF SeePartner, statusVars, Current, p
  <2>2. \A b \in 0 .. block[c] : cell[p][b] > loop[c]
    BY <1>2, <2>1 DEF RoundInv, Seen, p
  <2>3. Written(c, MaxBlocks)' /\ status'[c] # "good"
    BY <1>2, <1>5, <1>9, <2>1 DEF RoundInv, Written
  <2>4. CASE block[c] + 1 \in Blocks /\ block' = [block EXCEPT ![c] = @ + 1] /\ Goto(c, "partner")
    <3>1. pc'[c] = "partner" /\ block'[c] = block[c] + 1
      BY <1>1, <1>3, <2>4 DEF Labels
    <3>2. Seen(c, block[c])'
      <4>1. Partner(c)' = p /\ cell' = cell /\ loop' = loop
        BY <1>1, <2>1
      <4>2. block'[c] - 1 = block[c]
        BY <1>2, <3>1
      <4> QED BY <2>2, <4>1, <4>2 DEF Seen
    <3> QED BY <1>9, <2>1, <2>3, <3>1, <3>2 DEF RoundInv
  <2>5. CASE block[c] + 1 \notin Blocks /\ block' = [block EXCEPT ![c] = 0] /\ Goto(c, "mine")
    <3>1. pc'[c] = "mine" /\ block[c] = MaxBlocks - 1
      BY <1>0, <1>1, <1>3, <2>5 DEF Labels
    <3>2. Seen(c, MaxBlocks)'
      <4>1. Partner(c)' = p /\ cell' = cell /\ loop' = loop
        BY <1>1, <2>1
      <4> QED BY <2>2, <3>1, <4>1 DEF Seen
    <3> QED BY <1>9, <2>1, <2>3, <3>1, <3>2 DEF RoundInv
  <2> QED BY <2>1, <2>4, <2>5 DEF NextBlock
<1>11. CASE MissPartner(c)
  <2>1. pc[c] = "partner" /\ UNCHANGED <<cell, block, status, loop>>
    BY <1>11 DEF MissPartner, statusVars
  <2>2. status'[c] # "good" /\ Written(c, MaxBlocks)' /\ Seen(c, block[c])'
    BY <1>2, <1>5, <1>9, <2>1 DEF RoundInv, Written, Seen, p
  <2>3. CASE Goto(c, "partner") /\ UNCHANGED err
    BY <1>3, <1>9, <2>1, <2>2, <2>3 DEF RoundInv, Labels
  <2>4. CASE Goto(c, "report") /\ CountError(c, "noPartner")
    <3>1. pc'[c] = "report" /\ err'[c] # {}
      BY <1>1, <1>3, <2>4 DEF CountError, Labels
    <3> QED BY <1>9, <2>1, <2>2, <3>1 DEF RoundInv
  <2> QED BY <1>11, <2>3, <2>4 DEF MissPartner
<1>12. CASE CheckMine(c)
  <2>1. pc[c] = "mine" /\ UNCHANGED <<cell, status, err>>
    BY <1>12 DEF CheckMine, statusVars
  <2>2. status'[c] # "good" /\ Written(c, MaxBlocks) /\ Seen(c, MaxBlocks)
    BY <1>2, <1>5, <2>1 DEF RoundInv
  <2>3. CASE Goto(c, "mine") /\ UNCHANGED loop
    <3>1. pc'[c] = "mine" /\ Written(c, MaxBlocks)' /\ Seen(c, MaxBlocks)'
      BY <1>3, <1>9, <2>1, <2>2, <2>3 DEF Labels
    <3> QED BY <1>9, <2>1, <2>2, <2>3, <3>1 DEF RoundInv
  <2>4. CASE /\ block' = [block EXCEPT ![c] = 0] /\ loop[c] + 1 < Loops
             /\ loop' = [loop EXCEPT ![c] = @ + 1] /\ Goto(c, "store")
    <3>1. pc'[c] = "store" /\ block'[c] = 0 /\ loop'[c] = loop[c] + 1
      BY <1>1, <1>3, <2>4 DEF Labels
    <3>2. \A b \in Blocks : cell'[c][b] <= loop'[c] + 1
      BY <1>0, <1>2, <2>1, <3>1
    <3> QED BY <2>2, <3>1, <3>2 DEF RoundInv, Written
  <2>5. CASE loop[c] + 1 = Loops /\ Goto(c, "report") /\ UNCHANGED loop
    <3>1. pc'[c] = "report" /\ Seen(c, MaxBlocks)' /\ loop'[c] = Loops - 1
      BY <1>2, <1>3, <1>9, <2>1, <2>2, <2>5 DEF Labels
    <3> QED BY <1>9, <2>1, <2>2, <2>5, <3>1 DEF RoundInv
  <2> QED BY <1>12, <2>3, <2>4, <2>5 DEF CheckMine
<1>13. CASE LostMine(c)
  <2>1. pc[c] = "mine" /\ UNCHANGED <<cell, loop, status>> /\ Goto(c, "report") /\ CountError(c, "mismatch")
    BY <1>13 DEF LostMine, statusVars, coherenceVars
  <2>2. pc'[c] = "report" /\ err'[c] # {} /\ status'[c] # "good"
    BY <1>1, <1>3, <1>5, <2>1 DEF CountError, Labels
  <2> QED BY <1>9, <2>1, <2>2 DEF RoundInv
<1>14. CASE Report(c)
  <2>1. /\ pc[c] = "report" /\ UNCHANGED <<cell, loop, err>> /\ Goto(c, "done")
        /\ status' = [status EXCEPT ![c] = IF err[c] = {} THEN "good" ELSE "bad"]
    BY <1>14 DEF Report, SetStatus, coherenceVars
  <2>2. pc'[c] = "done" /\ (status'[c] = "good" => err[c] = {})
    BY <1>1, <1>3, <2>1 DEF Labels
  <2>3. err[c] = {} => loop[c] = Loops - 1 /\ Seen(c, MaxBlocks)'
    BY <1>2, <1>9, <2>1 DEF RoundInv
  <2> QED BY <1>9, <2>1, <2>2, <2>3 DEF RoundInv
<1>15. CASE Poll(c) /\ UNCHANGED <<coherenceVars, loop, err>>
  <2>1. UNCHANGED <<cell, block, status, loop, err>> /\ pc'[c] = pc[c]
    BY <1>1, <1>4, <1>15 DEF Poll, Acked, coherenceVars, BarePlaces
  <2>2. block[c] \in 0 .. MaxBlocks /\ MaxBlocks \in 0 .. MaxBlocks
    BY <1>1 DEF Blocks
  <2>3. (Written(c, block[c])' <=> Written(c, block[c])) /\ (Seen(c, block[c])' <=> Seen(c, block[c]))
    BY <2>1 DEF Written, Seen, Partner
  <2> QED BY <1>2, <1>9, <2>1, <2>2, <2>3 DEF RoundInv
<1>16. CASE PutInReset(c) /\ UNCHANGED <<coherenceVars, loop, err>>
  <2>1. UNCHANGED <<cell, block, status, loop, err>> /\ pc'[c] = "done"
    BY <1>3, <1>16 DEF PutInReset, coherenceVars, Labels
  <2> QED BY <1>2, <1>9, <2>1 DEF RoundInv
<1> QED BY <1>7, <1>8, <1>10, <1>11, <1>12, <1>13, <1>14, <1>15, <1>16
        DEF BareStep, CoherenceStep, WatchStep

LEMMA VerdictMove ==
  ASSUME TypeInv, BareInv, NEW c \in Cores, BareStep(c), NEW d \in Cores
  PROVE  VerdictInv(d)'
<1>1. /\ status \in [Cores -> {"none", "running", "good", "bad"}]
      /\ watch \in [Cores -> {"off", "poll", "reset", "over"}]
      /\ polls \in [Cores -> 0 .. MaxPolls] /\ errCnt \in [Cores -> 0 .. 2]
      /\ VerdictInv(d) /\ program' = "coherence"
      /\ status[d] = "good" => pc[d] = "done"
  BY DEF BareInv, BareTypeOK, BareStep, RoundInv
<1>2. CASE Poll(c)
  <2>1. /\ watch[c] = "poll" /\ UNCHANGED status
        /\ polls' = [polls EXCEPT ![c] = @ + 1]
        /\ errCnt' = [errCnt EXCEPT ![c] =
             @ + (IF status[c] = "bad" THEN 1 ELSE 0) + (IF LastPoll(c) THEN 1 ELSE 0)]
        /\ watch' = [watch EXCEPT ![c] = IF Reported(c) \/ LastPoll(c) THEN "reset" ELSE "poll"]
    BY <1>2 DEF Poll
  <2>2. CASE d # c
    BY <1>1, <2>1, <2>2 DEF VerdictInv
  <2>3. CASE d = c
    <3>1. errCnt[c] = 0 /\ polls[c] \in Nat /\ polls[c] < MaxPolls
      BY <1>1, <2>1, <2>3 DEF VerdictInv
    <3>2. /\ polls'[c] = polls[c] + 1
          /\ errCnt'[c] = (IF status[c] = "bad" THEN 1 ELSE 0) + (IF LastPoll(c) THEN 1 ELSE 0)
          /\ watch'[c] = IF Reported(c) \/ LastPoll(c) THEN "reset" ELSE "poll"
      BY <1>1, <2>1, <3>1
    <3>3. CASE LastPoll(c)
      BY <1>1, <2>3, <3>2, <3>3 DEF VerdictInv
    <3>4. CASE ~LastPoll(c)
      <4>1. polls[c] + 1 < MaxPolls
        BY <3>1, <3>4 DEF LastPoll
      <4>2. Reported(c) => status[c] = "good" \/ errCnt'[c] = 1
        BY <3>2, <3>4 DEF Reported
      <4>3. ~Reported(c) => errCnt'[c] = 0
        BY <3>2, <3>4 DEF Reported
      <4> QED BY <1>1, <2>1, <2>3, <3>2, <3>4, <4>1, <4>2, <4>3 DEF VerdictInv
    <3> QED BY <3>3, <3>4
  <2> QED BY <2>2, <2>3
<1>3. CASE PutInReset(c)
  BY <1>1, <1>3 DEF PutInReset, VerdictInv
<1>4. CASE CoherenceStep(c)
  <2>1. UNCHANGED <<watch, polls, errCnt>>
    BY <1>4 DEF CoherenceStep, Start, Store, SeePartner, MissPartner, CheckMine, LostMine,
                Report, SetStatus, statusVars
  <2>2. status'[d] = status[d] \/ (d = c /\ pc[c] \in {"start", "report"})
    BY <1>1, <1>4 DEF CoherenceStep, Start, Store, SeePartner, MissPartner, CheckMine, LostMine,
                      Report, SetStatus, statusVars
  <2>3. status[d] = "good" => status'[d] = "good"
    BY <1>1, <2>2
  <2> QED BY <1>1, <2>1, <2>3 DEF VerdictInv
<1> QED BY <1>2, <1>3, <1>4 DEF BareStep, WatchStep

\* Steps that are not the test's.
LEMMA BareKept ==
  ASSUME TypeInv, BareInv, UNCHANGED <<bareVars, program>>,
         program = "coherence" =>
           UNCHANGED <<loop, err>> /\ \A d \in Cores : pc'[d] = pc[d]
  PROVE  BareInv'
<1>1. /\ UNCHANGED <<status, watch, polls, errCnt, cell, block, to, program>>
      /\ Blocks' = Blocks /\ Cores' = Cores
  BY DEF bareVars, statusVars, coherenceVars, Blocks, Cores
<1>2. BareTypeOK'
  BY <1>1 DEF BareInv, BareTypeOK
<1>3. ASSUME program = "coherence", NEW d \in Cores PROVE RoundInv(d)'
  BY <1>1, <1>3 DEF BareInv, RoundInv, Written, Seen, Partner
<1>4. \A d \in Cores : VerdictInv(d)'
  BY <1>1 DEF BareInv, VerdictInv
<1> QED BY <1>1, <1>2, <1>3, <1>4 DEF BareInv

LEMMA BareInvStep == TypeInv /\ BareInv /\ [Next]_vars => BareInv'
<1> SUFFICES ASSUME TypeInv, BareInv, [Next]_vars PROVE BareInv'
  OBVIOUS
<1>1. CASE UNCHANGED vars
  BY <1>1, BareKept DEF vars, apiVars, lockTestVars
<1>2. CASE Idle
  <2>1. program = "coherence" => \A d \in Cores : pc'[d] = pc[d]
    BY <1>2 DEF Idle, Acked, TypeInv, SearchOK, BarePlaces
  <2> QED BY <1>2, <2>1, BareKept DEF Idle, lockTestVars
<1>3. ASSUME NEW c \in Cores, CoreStep(c) \/ HostStep(c) PROVE BareInv'
  <2>1. CASE program # "coherence"
    BY <1>3, <2>1, Steps, BareKept DEF BareStep
  <2>2. CASE BareStep(c)
    <3>1. BareTypeOK' /\ RoundInv(c)' /\ \A d \in Cores : VerdictInv(d)'
      BY <2>2, BareTypeStep, RoundMove, VerdictMove
    <3>2. ASSUME NEW d \in Cores, d # c PROVE RoundInv(d)'
      <4>1. /\ BareTypeOK /\ RoundInv(d) /\ RoundInv(c) /\ program = "coherence"
            /\ pc[d] \in BarePlaces /\ Partner(d) \in Cores
        BY <2>2, PartnerType DEF BareInv, BareStep, TypeInv, SearchOK
      <4>2. pc'[d] = pc[d]
        <5>1. PICK label \in BarePlaces : Goto(c, label)
          BY <2>2, BareMoves
        <5> QED BY <3>2, <4>1, <5>1, GotoMoves DEF TypeInv, BarePlaces, Labels
      <4>3. loop'[d] = loop[d] /\ err'[d] = err[d] /\ block'[d] = block[d] /\ status'[d] = status[d]
        BY <2>2, <3>2, <4>1, SMTT(30)
           DEF BareStep, CoherenceStep, WatchStep, Start, Store, SeePartner,
             MissPartner, CheckMine, LostMine, Report, Poll, PutInReset, SetStatus, NextBlock,
             CountError, statusVars, coherenceVars, BareTypeOK, TypeInv, LocksTypeOK
      <4>4. \/ UNCHANGED cell
            \/ cell' = [cell EXCEPT ![c][block[c]] = loop[c] + 1]
        BY <2>2 DEF BareStep, CoherenceStep, WatchStep, Start, Store, SeePartner,
             MissPartner, CheckMine, LostMine, Report, coherenceVars
      <4>5. cell'[d] = cell[d]
        BY <3>2, <4>1, <4>4 DEF BareTypeOK
      <4>6. \A b \in Blocks : cell'[Partner(d)][b] >= cell[Partner(d)][b]
        <5>1. /\ cell \in [Cores -> [Blocks -> 0 .. Loops]] /\ block[c] \in Blocks
              /\ \A b \in Blocks : cell[Partner(d)][b] \in 0 .. Loops /\ cell[c][b] \in 0 .. Loops
              /\ \A b \in Blocks : cell[c][b] <= loop[c] + 1
          BY <4>1 DEF BareTypeOK, RoundInv
        <5>2. loop[c] + 1 \in Nat
          BY DEF TypeInv, LocksTypeOK
        <5>3. \A b \in Blocks : cell'[Partner(d)][b] = cell[Partner(d)][b]
                \/ (Partner(d) = c /\ cell'[Partner(d)][b] = loop[c] + 1)
          BY <4>1, <4>4, <5>1
        <5> QED BY <5>1, <5>2, <5>3
      <4> QED BY <3>1, <4>1, <4>2, <4>3, <4>5, <4>6, RoundKept
    <3>3. program' = "coherence"
      BY <2>2 DEF BareStep
    <3> QED BY <3>1, <3>2, <3>3 DEF BareInv
  <2> QED BY <1>3, <2>1, <2>2, Steps
<1> QED BY <1>1, <1>2, <1>3 DEF Next

------------------------------------------------------------------------------
\* What ties the register to the cores: a lock that a core believes it has
\* shows that core and no release of it is on the way; a request on the way
\* belongs to a core that has not gone on yet.
LockInv ==
  /\ \A c \in Cores : \A l \in held[c] :
       lock[l] = HeldBy(c) /\ request # ReleaseLock(c, l)
  /\ request.op = "releaseLock" => pc[request.reqId] = "released"
  /\ request.op = "reqLock" =>
       pc[request.reqId] = "written" /\ lockNum[request.reqId] = request.lockNum

\* The places between cep_get_lock and cep_release_lock.
Critical == {"inside", "compare", "scan", "claim", "release"}

InsideInv == \A c \in Cores : pc[c] \in Critical => lockNum[c] \in held[c]

\* While a core compares, the scratch registers hold what it wrote.
PatternInv == \A c \in Cores : pc[c] = "compare" => pattern[lockNum[c]] = c

\* A core that searches has no claim and has looked at the cores before other;
\* a core that replays a test claims it; no two claims are the same.
ClaimInv ==
  program = "playback" =>
    /\ \A c \in Cores :
         /\ pc[c] = "scan" => claim[c] = NoTest /\ \A d \in 0 .. other[c] - 1 : claim[d] # test2Run[c]
         /\ pc[c] = "claim" => claim[c] = NoTest /\ \A d \in Cores : claim[d] # test2Run[c]
         /\ pc[c] = "playback" => claim[c] = test2Run[c]
         /\ pc[c] \in {"release", "released"} /\ test2Run[c] # NoTest => claim[c] = test2Run[c]
    /\ \A c, d \in Cores : claim[c] = claim[d] /\ claim[c] # NoTest => c = d

CoresInv ==
  /\ TypeInv /\ LockInv /\ InsideInv /\ NoOrphanLock
  /\ PatternInv /\ NoFalseMismatch /\ ClaimInv /\ BareInv

\* The steps that touch neither the register nor a belief: a core moves on from
\* a place outside the lock calls, and stays critical only if it was.
Quiet(c) ==
  /\ request' = NoRequest /\ LocksEdge(NoRequest) /\ held' = held
  /\ pc[c] \notin {"written", "check"}
  /\ \E label \in Labels \ {"written", "inside", "released"} :
       /\ Goto(c, label)
       /\ label \in Critical => pc[c] \in Critical /\ lockNum' = lockNum
  /\ \A d \in Cores \ {c} : lockNum'[d] = lockNum[d]

LEMMA QuietOrApi ==
  ASSUME TypeInv, TypeInv', NEW c \in Cores, CoreStep(c) \/ HostStep(c)
  PROVE  ApiStep(c) \/ Quiet(c)
<1>1. ASSUME NEW label \in Labels \ {"written", "inside", "released"}, Goto(c, label), QuietCycle,
             label \in Critical => pc[c] \in Critical /\ lockNum' = lockNum,
             \A d \in Cores \ {c} : lockNum'[d] = lockNum[d], pc[c] \notin {"written", "check"}
      PROVE  Quiet(c)
  BY <1>1 DEF Quiet, QuietCycle, LocksEdge
<1>2. CASE LockTestStep(c) /\ ~ApiStep(c)
  <2>1. QuietCycle /\ pc[c] \in {"inside", "compare", "gaveUp", "released"}
    BY <1>2 DEF LockTestStep, WritePattern, CompareGood, CompareBad, NoLock, AfterRelease
  <2>2. CASE \E label \in {"getLock", "done"} :
               Goto(c, label) /\ \A d \in Cores \ {c} : lockNum'[d] = lockNum[d]
    BY <1>1, <2>1, <2>2 DEF Labels, Critical
  <2>3. CASE NextLoop(c) \/ Break(c)
    BY <2>2, <2>3, LeavesBody DEF TypeInv
  <2>4. CASE WritePattern(c)
    BY <1>1, <2>1, <2>4 DEF WritePattern, Stay, Labels, Critical
  <2>5. CASE CompareGood(c)
    <3>1. CASE Goto(c, "release") /\ Stay
      BY <1>1, <2>1, <2>5, <3>1 DEF CompareGood, Stay, Labels, Critical
    <3> QED BY <2>3, <2>5, <3>1 DEF CompareGood
  <2>6. CASE CompareBad(c) \/ NoLock(c)
    BY <2>3, <2>6 DEF CompareBad, NoLock
  <2>7. CASE AfterRelease(c)
    <3>1. CASE GetLock(c, lockNum[c] + 1)
      BY <2>2, <3>1 DEF GetLock, TypeInv, LocksTypeOK
    <3> QED BY <2>3, <2>7, <3>1 DEF AfterRelease
  <2> QED BY <1>2, <2>4, <2>5, <2>6, <2>7 DEF LockTestStep
<1>3. CASE PlaybackStep(c) /\ ~ApiStep(c)
  <2>1. QuietCycle /\ pc[c] \in {"inside", "scan", "claim", "released", "playback", "gaveUp"}
    BY <1>3 DEF PlaybackStep, DropClaim, Scan, Claim, Run, Played, NotFound, Leave
  <2>2. ASSUME NEW t, LookAt(c, t), pc[c] \in {"inside", "scan"}, Stay
        PROVE  Quiet(c)
    <3>1. PICK label \in {"release", "scan"} : Goto(c, label)
      BY <2>2 DEF LookAt
    <3> QED BY <1>1, <2>1, <2>2, <3>1 DEF Stay, Labels, Critical
  <2>3. ASSUME NEW mask, NEW errors, Loop(c, mask, errors) PROVE Quiet(c)
    BY <1>1, <2>1, <2>3 DEF Loop, GetLock, Labels, Critical, TypeInv, LocksTypeOK
  <2>4. CASE DropClaim(c)
    BY <2>2, <2>4 DEF DropClaim
  <2>5. CASE Scan(c)
    <3>1. CASE LookAt(c, test2Run[c] + 1)
      BY <2>2, <2>5, <3>1 DEF Scan
    <3>2. CASE \E label \in {"scan", "claim"} : Goto(c, label)
      BY <1>1, <2>1, <2>5, <3>2 DEF Scan, Stay, Labels, Critical
    <3> QED BY <2>5, <3>1, <3>2 DEF Scan
  <2>6. CASE Claim(c)
    BY <1>1, <2>1, <2>6 DEF Claim, Stay, Labels, Critical
  <2>7. CASE Run(c)
    BY <1>1, <2>1, <2>7 DEF Run, Stay, Labels, Critical
  <2>8. CASE Played(c) \/ NotFound(c)
    BY <2>3, <2>8 DEF Played, NotFound
  <2>9. CASE Leave(c)
    BY <1>1, <2>1, <2>9 DEF Leave, Stay, Labels, Critical
  <2> QED BY <1>3, <2>4, <2>5, <2>6, <2>7, <2>8, <2>9 DEF PlaybackStep
<1>4. CASE BareStep(c)
  <2>1. QuietCycle /\ Stay /\ pc[c] \in BarePlaces
    BY <1>4, BareMoves
  <2>2. PICK label \in BarePlaces : Goto(c, label)
    BY <1>4, BareMoves
  <2> QED BY <1>1, <2>1, <2>2 DEF BarePlaces, Labels, Critical, Stay
<1> QED BY <1>2, <1>3, <1>4, Steps

\* The two facts the register gives: a lock somebody has stays his unless he
\* releases it, and a lock that becomes taken goes to the core that asked.
LEMMA EdgeKeeps ==
  ASSUME TypeInv, NEW next, LocksEdge(next), NEW l \in Locks
  PROVE  /\ \A c \in Cores : lock[l] = HeldBy(c) /\ request # ReleaseLock(c, l) => lock'[l] = HeldBy(c)
         /\ lock'[l].isLocked =>
              \/ lock'[l] = lock[l] /\ lock[l].isLocked /\ request # ReleaseLock(lock[l].coreId, l)
              \/ request = ReqLock(request.reqId, l) /\ lock'[l] = HeldBy(request.reqId)
<1>1. lock[l] \in [isLocked : BOOLEAN, coreId : Cores]
  BY DEF TypeInv, LocksTypeOK
<1>2. request \in [op : {"none", "reqLock", "releaseLock"}, lockNum : Locks, reqId : Cores]
  BY DEF TypeInv, LocksTypeOK
<1>3. lock'[l] = IF Granted(l) THEN HeldBy(request.reqId)
                 ELSE IF Released(l) THEN [isLocked |-> FALSE, coreId |-> lock[l].coreId]
                 ELSE lock[l]
  BY DEF LocksEdge
<1> QED BY <1>1, <1>2, <1>3 DEF Granted, Released, HeldBy, ReleaseLock, ReqLock

LockPart == LockInv /\ InsideInv /\ NoOrphanLock

\* A step of core c, or of none, keeps LockPart if it moves no other core
\* except to "check" and treats its own request, belief and place as follows.
LEMMA LockKept ==
  ASSUME TypeInv, TypeInv', LockPart, NEW next, LocksEdge(next),
         NEW c \in Cores,
         \A d \in Cores \ {c} :
           /\ pc'[d] = IF pc[d] = "written" THEN "check" ELSE pc[d]
           /\ lockNum'[d] = lockNum[d] /\ held'[d] = held[d],
         \* what it asks
         next.op = "releaseLock" =>
           next = ReleaseLock(c, next.lockNum) /\ pc'[c] = "released" /\ next.lockNum \notin held'[c],
         next.op = "reqLock" => next.reqId = c /\ pc'[c] = "written" /\ lockNum'[c] = next.lockNum,
         \* what it believes
         \A l \in held'[c] : l \in held[c] \/ (lock[l] = HeldBy(c) /\ pc[c] = "check"),
         \A l \in held[c] \ held'[c] : next = ReleaseLock(c, l),
         \* where it is
         pc'[c] \in Critical => lockNum'[c] \in held'[c],
         pc[c] = "written" => pc'[c] = "check" /\ lockNum'[c] = lockNum[c],
         pc[c] = "check" /\ lock[lockNum[c]] = HeldBy(c) =>
           lockNum[c] \in held'[c] \/ (pc'[c] = "check" /\ lockNum'[c] = lockNum[c])
  PROVE  LockPart'
<1>1. \A d \in Cores : held[d] \subseteq Locks /\ held'[d] \subseteq Locks
  BY DEF TypeInv, LocksTypeOK
<1>2. request' = next
  BY DEF LocksEdge
<1>3. request \in [op : {"none", "reqLock", "releaseLock"}, lockNum : Locks, reqId : Cores]
  BY DEF TypeInv, LocksTypeOK
<1>4. \A d \in Cores : \A l \in held'[d] : lock'[l] = HeldBy(d)
  <2> SUFFICES ASSUME NEW d \in Cores, NEW l \in held'[d] PROVE lock'[l] = HeldBy(d)
    OBVIOUS
  <2>1. CASE l \in held[d]
    <3>1. lock[l] = HeldBy(d) /\ request # ReleaseLock(d, l)
      BY <2>1 DEF LockPart, LockInv
    <3> QED BY <1>1, <3>1, EdgeKeeps
  <2>2. CASE l \notin held[d]
    <3>1. d = c /\ lock[l] = HeldBy(c) /\ pc[c] = "check"
      BY <2>2
    <3>2. request # ReleaseLock(c, l)
      BY <3>1 DEF LockPart, LockInv, ReleaseLock
    <3> QED BY <1>1, <3>1, <3>2, EdgeKeeps
  <2> QED BY <2>1, <2>2
<1>5. \A d \in Cores : \A l \in held'[d] : request' # ReleaseLock(d, l)
  BY <1>2 DEF ReleaseLock
<1>6. LockInv'
  <2>1. request'.op = "releaseLock" => pc'[request'.reqId] = "released"
    BY <1>2 DEF ReleaseLock
  <2>2. request'.op = "reqLock" =>
          pc'[request'.reqId] = "written" /\ lockNum'[request'.reqId] = request'.lockNum
    BY <1>2
  <2>3. \A d \in Cores : \A l \in held'[d] : HeldBy(d)' = HeldBy(d) /\ ReleaseLock(d, l)' = ReleaseLock(d, l)
    BY DEF HeldBy, ReleaseLock
  <2> QED BY <1>4, <1>5, <2>1, <2>2 DEF LockInv, HeldBy, ReleaseLock
<1>7. InsideInv'
  BY DEF LockPart, InsideInv, Critical
<1>8. NoOrphanLock'
  <2> SUFFICES ASSUME NEW l \in Locks, lock'[l].isLocked,
                      NEW d, d = lock'[l].coreId
               PROVE  \/ l \in held'[d]
                      \/ pc'[d] \in {"written", "check"} /\ lockNum'[d] = l
                      \/ request' = ReleaseLock(d, l)
    BY DEF NoOrphanLock, ReleaseLock
  <2>1. CASE request = ReqLock(request.reqId, l) /\ lock'[l] = HeldBy(request.reqId)
    <3>1. d = request.reqId /\ d \in Cores /\ request.op = "reqLock" /\ request.lockNum = l
      BY <1>3, <2>1 DEF HeldBy, ReqLock
    <3>2. pc[d] = "written" /\ lockNum[d] = l
      BY <3>1 DEF LockPart, LockInv
    <3> QED BY <3>1, <3>2
  <2>2. CASE lock'[l] = lock[l] /\ lock[l].isLocked /\ request # ReleaseLock(lock[l].coreId, l)
    <3>1. d = lock[l].coreId /\ d \in Cores /\ lock[l] = HeldBy(d)
      BY <2>2 DEF TypeInv, LocksTypeOK, HeldBy
    <3>2. l \in held[d] \/ (pc[d] \in {"written", "check"} /\ lockNum[d] = l)
      BY <2>2, <3>1 DEF LockPart, NoOrphanLock
    <3>3. CASE d # c
      BY <3>1, <3>2, <3>3
    <3>4. CASE d = c
      <4>1. CASE l \in held[c]
        BY <1>2, <3>4, <4>1 DEF ReleaseLock
      <4>2. CASE pc[c] = "written" /\ lockNum[c] = l
        BY <3>4, <4>2
      <4>3. CASE pc[c] = "check" /\ lockNum[c] = l
        BY <3>1, <3>4, <4>3
      <4> QED BY <3>2, <3>4, <4>1, <4>2, <4>3
    <3> QED BY <3>3, <3>4
  <2> QED BY <2>1, <2>2, EdgeKeeps
<1> QED BY <1>6, <1>7, <1>8 DEF LockPart

LEMMA LockStep == TypeInv /\ LockPart /\ [Next]_vars => LockPart'
<1> SUFFICES ASSUME TypeInv, LockPart, [Next]_vars PROVE LockPart'
  OBVIOUS
<1>0. TypeInv'
  BY TypeStep
<1>1. ASSUME NEW c \in Cores, CoreStep(c) \/ HostStep(c) PROVE LockPart'
  <2> USE <1>0
  <2>1. ASSUME NEW label \in Labels, Goto(c, label)
        PROVE  /\ pc'[c] = label
               /\ \A d \in Cores \ {c} : pc'[d] = IF pc[d] = "written" THEN "check" ELSE pc[d]
    BY <2>1, GotoMoves DEF TypeInv
  <2>2. CASE WriteRequest(c)
    <3>1. /\ LocksEdge(ReqLock(c, lockNum[c])) /\ UNCHANGED <<lockNum, held>>
          /\ pc[c] = "getLock" /\ Goto(c, "written")
      BY <2>2 DEF WriteRequest, Stay
    <3> QED BY <2>1, <3>1, LockKept DEF ReqLock, Labels, Critical
  <2>3. CASE ReadGot(c)
    <3>1. /\ LocksEdge(NoRequest) /\ UNCHANGED lockNum /\ Goto(c, "inside")
          /\ pc[c] = "check" /\ lock[lockNum[c]] = HeldBy(c)
          /\ held' = [held EXCEPT ![c] = @ \cup {lockNum[c]}]
      BY <2>3 DEF ReadGot
    <3>2. held'[c] = held[c] \cup {lockNum[c]} /\ \A d \in Cores \ {c} : held'[d] = held[d]
      BY <3>1 DEF TypeInv, LocksTypeOK
    <3> QED BY <2>1, <3>1, <3>2, LockKept DEF NoRequest, Labels, Critical
  <2>4. CASE ReadMissed(c)
    <3>1. /\ LocksEdge(NoRequest) /\ UNCHANGED <<lockNum, held>>
          /\ pc[c] = "check" /\ lock[lockNum[c]] # HeldBy(c)
          /\ \E label \in {"getLock", "gaveUp"} : Goto(c, label)
      BY <2>4 DEF ReadMissed
    <3> QED BY <2>1, <3>1, LockKept DEF NoRequest, Labels, Critical
  <2>5. CASE WriteRelease(c)
    <3>1. /\ LocksEdge(ReleaseLock(c, lockNum[c])) /\ UNCHANGED lockNum /\ Goto(c, "released")
          /\ pc[c] = "release" /\ held' = [held EXCEPT ![c] = @ \ {lockNum[c]}]
      BY <2>5 DEF WriteRelease, Stay
    <3>2. held'[c] = held[c] \ {lockNum[c]} /\ \A d \in Cores \ {c} : held'[d] = held[d]
      BY <3>1 DEF TypeInv, LocksTypeOK
    <3>3. ReleaseLock(c, lockNum[c]).op = "releaseLock" /\ ReleaseLock(c, lockNum[c]).lockNum = lockNum[c]
      BY DEF ReleaseLock
    <3> QED BY <2>1, <3>1, <3>2, <3>3, LockKept DEF Labels, Critical
  <2>6. CASE Quiet(c)
    <3>1. /\ LocksEdge(NoRequest) /\ held' = held /\ pc[c] \notin {"written", "check"}
          /\ \A d \in Cores \ {c} : lockNum'[d] = lockNum[d]
      BY <2>6 DEF Quiet
    <3>2. PICK label \in Labels \ {"written", "inside", "released"} :
            Goto(c, label) /\ (label \in Critical => pc[c] \in Critical /\ lockNum' = lockNum)
      BY <2>6 DEF Quiet
    <3>3. pc'[c] \in Critical => lockNum'[c] \in held'[c]
      BY <2>1, <3>1, <3>2 DEF LockPart, InsideInv
    <3> QED BY <2>1, <3>1, <3>2, <3>3, LockKept DEF NoRequest
  <2> QED BY <1>1, <2>2, <2>3, <2>4, <2>5, <2>6, QuietOrApi DEF ApiStep
<1>2. CASE Idle
  <2>1. LocksEdge(NoRequest) /\ UNCHANGED <<lockNum, held>> /\ pc' = Acked
    BY <1>2 DEF Idle, Stay, QuietCycle
  <2>2. \A d \in Cores : pc'[d] = IF pc[d] = "written" THEN "check" ELSE pc[d]
    BY <2>1 DEF Acked
  <2>3. 0 \in Cores
    BY DEF Cores
  <2>4. pc'[0] \in Critical => lockNum'[0] \in held'[0]
    BY <2>1, <2>2, <2>3 DEF LockPart, InsideInv, Critical
  <2> QED BY <1>0, <2>1, <2>2, <2>3, <2>4, LockKept DEF NoRequest
<1>3. CASE UNCHANGED vars
  BY <1>3 DEF vars, lockVars, apiVars, LockPart, LockInv, InsideInv, NoOrphanLock, HeldBy, ReleaseLock
<1> QED BY <1>1, <1>2, <1>3 DEF Next

\* Two cores never believe that they have the same lock.
LEMMA Exclusion ==
  ASSUME LockInv, NEW c \in Cores, NEW d \in Cores, NEW l, l \in held[c], l \in held[d]
  PROVE  c = d
<1>1. lock[l] = HeldBy(c) /\ lock[l] = HeldBy(d)
  BY DEF LockInv
<1>2. HeldBy(c).coreId = c /\ HeldBy(d).coreId = d
  BY DEF HeldBy
<1> QED BY <1>1, <1>2

LEMMA LockTestPart ==
  ASSUME TypeInv, LockPart, PatternInv, NoFalseMismatch, BareInv, [Next]_vars
  PROVE  PatternInv' /\ NoFalseMismatch'
<1>1. \A d \in Cores : pc[d] = "compare" => lockNum[d] \in held[d] /\ pattern[lockNum[d]] = d
  BY DEF LockPart, InsideInv, PatternInv, Critical
<1>2. ASSUME \A d \in Cores : pc'[d] = "compare" => pc[d] = "compare" /\ lockNum'[d] = lockNum[d],
             UNCHANGED pattern
      PROVE  PatternInv'
  BY <1>1, <1>2 DEF PatternInv
<1>3. CASE UNCHANGED vars
  BY <1>3 DEF vars, apiVars, lockTestVars, PatternInv, NoFalseMismatch
<1>4. CASE Idle
  BY <1>2, <1>4 DEF Idle, Acked, Stay, lockTestVars, NoFalseMismatch
<1>5. ASSUME NEW c \in Cores, CoreStep(c) \/ HostStep(c) PROVE PatternInv' /\ NoFalseMismatch'
  <2>0. TypeInv'
    BY TypeStep
  <2>1. ASSUME NEW label \in Labels, Goto(c, label)
        PROVE  /\ pc'[c] = label
               /\ \A d \in Cores \ {c} : pc'[d] = IF pc[d] = "written" THEN "check" ELSE pc[d]
    BY <2>1, GotoMoves DEF TypeInv
  <2>2. ASSUME ApiStep(c), UNCHANGED <<pattern, err>> PROVE PatternInv' /\ NoFalseMismatch'
    <3>1. PICK label \in {"written", "inside", "getLock", "gaveUp", "released"} : Goto(c, label)
      BY <2>2 DEF ApiStep, WriteRequest, ReadGot, ReadMissed, WriteRelease
    <3>2. UNCHANGED lockNum
      BY <2>2 DEF ApiStep, WriteRequest, ReadGot, ReadMissed, WriteRelease, Stay
    <3>3. pc'[c] = label /\ \A d \in Cores \ {c} : pc'[d] = IF pc[d] = "written" THEN "check" ELSE pc[d]
      BY <2>1, <3>1 DEF Labels
    <3>4. NoFalseMismatch'
      BY <2>2 DEF NoFalseMismatch
    <3> QED BY <1>2, <2>2, <3>2, <3>3, <3>4
  <2>3. CASE program = "lockTest" /\ LockTestStep(c)
    <3>1. CASE ApiStep(c) /\ UNCHANGED <<lockTestVars, err>>
      BY <2>2, <3>1 DEF lockTestVars
    <3>2. CASE WritePattern(c)
      <4>1. /\ pc[c] = "inside" /\ Goto(c, "compare") /\ UNCHANGED <<lockNum, err>>
            /\ pattern' = [pattern EXCEPT ![lockNum[c]] = c]
        BY <3>2 DEF WritePattern, Stay
      <4>2. lockNum[c] \in held[c] /\ lockNum[c] \in Locks
        BY <4>1 DEF LockPart, InsideInv, Critical, TypeInv, LocksTypeOK
      <4>3. pattern'[lockNum[c]] = c
        BY <4>1, <4>2 DEF TypeInv, LocksTypeOK
      <4>4. ASSUME NEW d \in Cores \ {c}, pc'[d] = "compare" PROVE pattern'[lockNum'[d]] = d
        <5>1. pc[d] = "compare" /\ lockNum[d] \in held[d] /\ pattern[lockNum[d]] = d
          BY <1>1, <2>1, <4>1, <4>4 DEF Labels
        <5>2. lockNum[d] # lockNum[c]
          BY <4>2, <5>1, Exclusion DEF LockPart
        <5>3. lockNum[d] \in Locks
          BY DEF TypeInv, LocksTypeOK
        <5> QED BY <4>1, <5>1, <5>2, <5>3 DEF TypeInv, LocksTypeOK
      <4> QED BY <4>1, <4>3, <4>4 DEF PatternInv, NoFalseMismatch
    <3>3. ASSUME UNCHANGED pattern, \E label \in Labels \ {"compare"} : Goto(c, label),
                 \A d \in Cores \ {c} : lockNum'[d] = lockNum[d]
          PROVE  PatternInv'
      BY <1>2, <2>1, <3>3
    <3>4. CASE CompareGood(c)
      <4>1. UNCHANGED <<pattern, err>>
        BY <3>4 DEF CompareGood
      <4>2. \E label \in Labels \ {"compare"} :
              Goto(c, label) /\ \A d \in Cores \ {c} : lockNum'[d] = lockNum[d]
        BY <3>4, LeavesBody DEF CompareGood, Stay, TypeInv, Labels
      <4> QED BY <3>3, <4>1, <4>2 DEF NoFalseMismatch
    <3>5. CASE CompareBad(c)
      <4>1. UNCHANGED pattern /\ c \in Faulty /\ err' = [err EXCEPT ![c] = @ \cup {"mismatch"}]
        BY <1>1, <3>5 DEF CompareBad, CountError
      <4>2. \E label \in Labels \ {"compare"} :
              Goto(c, label) /\ \A d \in Cores \ {c} : lockNum'[d] = lockNum[d]
        BY <3>5, LeavesBody DEF CompareBad, TypeInv, Labels
      <4>3. NoFalseMismatch'
        BY <4>1 DEF NoFalseMismatch, TypeInv, LocksTypeOK
      <4> QED BY <3>3, <4>1, <4>2, <4>3
    <3>6. CASE NoLock(c)
      <4>1. UNCHANGED pattern /\ err' = [err EXCEPT ![c] = @ \cup {"timeout"}]
        BY <3>6 DEF NoLock, CountError
      <4>2. \E label \in Labels \ {"compare"} :
              Goto(c, label) /\ \A d \in Cores \ {c} : lockNum'[d] = lockNum[d]
        BY <3>6, LeavesBody DEF NoLock, TypeInv, Labels
      <4>3. NoFalseMismatch'
        BY <4>1 DEF NoFalseMismatch, TypeInv, LocksTypeOK
      <4> QED BY <3>3, <4>1, <4>2, <4>3
    <3>7. CASE AfterRelease(c)
      <4>1. UNCHANGED <<pattern, err>>
        BY <3>7 DEF AfterRelease
      <4>2. \E label \in Labels \ {"compare"} :
              Goto(c, label) /\ \A d \in Cores \ {c} : lockNum'[d] = lockNum[d]
        BY <3>7, LeavesBody DEF AfterRelease, GetLock, TypeInv, LocksTypeOK, Labels
      <4> QED BY <3>3, <4>1, <4>2 DEF NoFalseMismatch
    <3> QED BY <2>3, <3>1, <3>2, <3>4, <3>5, <3>6, <3>7 DEF LockTestStep
  <2>4. CASE program = "playback" /\ PlaybackStep(c) /\ UNCHANGED lockTestVars
    <3>1. PatternInv'
      <4>1. program' = "playback"
        BY <1>5, <2>4, Steps DEF BareStep
      <4>2. \A d \in Cores : pc'[d] # "compare"
        BY <2>0, <4>1 DEF TypeInv, SearchOK
      <4> QED BY <4>2 DEF PatternInv
    <3>2. \A d \in Cores : "mismatch" \in err'[d] => "mismatch" \in err[d]
      <4>1. err \in [Cores -> SUBSET Causes]
        BY DEF TypeInv, LocksTypeOK
      <4>2. \/ err' = err
            \/ err' = [err EXCEPT ![c] = @ \cup {"playback"}]
            \/ err' = [err EXCEPT ![c] = @ \cup {"cannotFind"}]
        BY <2>4 DEF PlaybackStep, DropClaim, Scan, Claim, Run, Played, NotFound, Leave, CountError
      <4> QED BY <4>1, <4>2
    <3> QED BY <3>1, <3>2 DEF NoFalseMismatch
  <2>5. CASE BareStep(c)
    <3>1. PatternInv'
      <4>1. \A d \in Cores : pc'[d] # "compare"
        BY <2>0, <2>5 DEF BareStep, TypeInv, SearchOK, BarePlaces
      <4> QED BY <4>1 DEF PatternInv
    <3>2. LostMine(c) => c \in Faulty
      <4>1. SUFFICES ASSUME LostMine(c) PROVE Current(c, c) \/ c \in Faulty
        BY DEF LostMine
      <4>2. pc[c] = "mine" /\ RoundInv(c) /\ block[c] \in 0 .. MaxBlocks - 1
        BY <2>5, <4>1 DEF LostMine, BareStep, BareInv, BareTypeOK, Blocks
      <4> QED BY <4>2 DEF RoundInv, Written, Current
    <3>3. \A d \in Cores : "mismatch" \in err'[d] \ err[d] => d = c /\ LostMine(c)
      BY <2>5, BareMoves
    <3> QED BY <3>1, <3>2, <3>3 DEF NoFalseMismatch
  <2> QED BY <1>5, <2>3, <2>4, <2>5, Steps
<1> QED BY <1>3, <1>4, <1>5 DEF Next

\* Only one core at a time is between cep_get_lock and cep_release_lock of lock 0.
LEMMA OneSearcher ==
  ASSUME TypeInv, LockPart, program = "playback",
         NEW c \in Cores, pc[c] \in Critical, NEW d \in Cores, pc[d] \in Critical
  PROVE  c = d
<1>1. 0 \in held[c] /\ 0 \in held[d]
  BY DEF LockPart, InsideInv, TypeInv, SearchOK
<1> QED BY <1>1, Exclusion DEF LockPart

LEMMA ClaimStep ==
  ASSUME TypeInv, LockPart, ClaimInv, [Next]_vars
  PROVE  ClaimInv'
<1>0. SUFFICES ASSUME program = "playback" PROVE ClaimInv'
  BY DEF ClaimInv, Next, Idle, CoreStep, HostStep, vars
<1>1. /\ claim \in [Cores -> Tests \cup {NoTest}] /\ test2Run \in [Cores -> Tests \cup {NoTest}]
      /\ other \in [Cores -> Cores] /\ pc \in [Cores -> Labels]
  BY DEF TypeInv, LocksTypeOK
<1>2. /\ \A c \in Cores :
           /\ pc[c] = "scan" => claim[c] = NoTest /\ \A d \in 0 .. other[c] - 1 : claim[d] # test2Run[c]
           /\ pc[c] = "claim" => claim[c] = NoTest /\ \A d \in Cores : claim[d] # test2Run[c]
           /\ pc[c] = "playback" => claim[c] = test2Run[c]
           /\ pc[c] \in {"release", "released"} /\ test2Run[c] # NoTest => claim[c] = test2Run[c]
      /\ \A c, d \in Cores : claim[c] = claim[d] /\ claim[c] # NoTest => c = d
  BY <1>0 DEF ClaimInv
<1>3. CASE UNCHANGED vars
  BY <1>2, <1>3 DEF vars, apiVars, playbackVars, ClaimInv, NoTest
<1>4. CASE Idle
  BY <1>2, <1>4 DEF Idle, Acked, playbackVars, ClaimInv, NoTest
<1>5. ASSUME NEW c \in Cores, CoreStep(c) \/ HostStep(c) PROVE ClaimInv'
  <2>1. ASSUME NEW label \in Labels, Goto(c, label)
        PROVE  /\ pc'[c] = label
               /\ \A d \in Cores \ {c} : pc'[d] = IF pc[d] = "written" THEN "check" ELSE pc[d]
    BY <2>1, GotoMoves DEF TypeInv
  \* Nothing but c's own part is left to show when no claim changes.
  <2>2. ASSUME NEW label \in Labels, Goto(c, label), UNCHANGED claim,
               \A d \in Cores \ {c} : test2Run'[d] = test2Run[d] /\ other'[d] = other[d],
               label = "scan" => claim[c] = NoTest /\ \A d \in 0 .. other'[c] - 1 : claim[d] # test2Run'[c],
               label = "claim" => claim[c] = NoTest /\ \A d \in Cores : claim[d] # test2Run'[c],
               label = "playback" => claim[c] = test2Run'[c],
               label \in {"release", "released"} /\ test2Run'[c] # NoTest => claim[c] = test2Run'[c]
        PROVE  ClaimInv'
    <3>1. pc'[c] = label /\ \A d \in Cores \ {c} : pc'[d] \in {pc[d], "check"}
      BY <2>1, <2>2
    <3>2. NoTest' = NoTest
      BY DEF NoTest
    <3> QED BY <1>2, <2>2, <3>1, <3>2 DEF ClaimInv
  \* A claim changes inside the lock, where no other core is.
  <2>3. ASSUME pc[c] \in Critical, NEW t \in Tests \cup {NoTest}, claim' = [claim EXCEPT ![c] = t],
               NEW label \in Labels, Goto(c, label),
               \A d \in Cores \ {c} : test2Run'[d] = test2Run[d] /\ other'[d] = other[d]
        PROVE  /\ pc'[c] = label /\ claim'[c] = t
               /\ \A d \in Cores \ {c} : pc'[d] \notin Critical /\ pc'[d] \in {pc[d], "check"}
                                         /\ claim'[d] = claim[d]
    <3>1. \A d \in Cores \ {c} : pc[d] \notin Critical
      BY <1>0, <2>3, OneSearcher
    <3> QED BY <1>1, <2>1, <2>3, <3>1 DEF Critical
  <2>4. CASE ApiStep(c) /\ UNCHANGED <<playbackVars, err>>
    <3>1. UNCHANGED <<claim, test2Run, other>>
      BY <2>4 DEF playbackVars
    <3>2. CASE \E label \in {"written", "inside", "getLock", "gaveUp"} : Goto(c, label)
      BY <2>2, <3>1, <3>2 DEF Labels
    <3>3. CASE pc[c] = "release" /\ Goto(c, "released")
      BY <1>2, <2>2, <3>1, <3>3 DEF Labels
    <3> QED BY <2>4, <3>2, <3>3 DEF ApiStep, WriteRequest, ReadGot, ReadMissed, WriteRelease
  <2>5. CASE DropClaim(c)
    <3>1. /\ pc[c] = "inside" /\ claim' = [claim EXCEPT ![c] = NoTest]
          /\ test2Run' = [test2Run EXCEPT ![c] = 0] /\ other' = [other EXCEPT ![c] = 0]
          /\ Goto(c, "scan")
      BY <2>5 DEF DropClaim, LookAt, NoTest
    <3>2. /\ pc'[c] = "scan" /\ claim'[c] = NoTest /\ other'[c] = 0
          /\ \A d \in Cores \ {c} : /\ pc'[d] \notin Critical /\ pc'[d] \in {pc[d], "check"}
                                    /\ claim'[d] = claim[d] /\ test2Run'[d] = test2Run[d]
      BY <1>1, <2>3, <3>1 DEF Labels, Critical
    <3>3. 0 .. other'[c] - 1 = {}
      BY <3>2
    <3>4. NoTest' = NoTest
      BY DEF NoTest
    <3> QED BY <1>2, <3>2, <3>3, <3>4 DEF ClaimInv, Critical
  <2>6. CASE Scan(c)
    <3>1. pc[c] = "scan" /\ UNCHANGED claim /\ claim[c] = NoTest
      BY <1>2, <2>6 DEF Scan
    <3>2. CASE LookAt(c, test2Run[c] + 1)
      <4>1. /\ test2Run' = [test2Run EXCEPT ![c] = test2Run[c] + 1] /\ other' = [other EXCEPT ![c] = 0]
            /\ Goto(c, IF test2Run[c] + 1 = NoTest THEN "release" ELSE "scan")
        BY <3>2 DEF LookAt
      <4>2. /\ other'[c] = 0 /\ test2Run'[c] = test2Run[c] + 1
            /\ \A d \in Cores \ {c} : test2Run'[d] = test2Run[d] /\ other'[d] = other[d]
        BY <1>1, <4>1
      <4>3. 0 .. other'[c] - 1 = {}
        BY <4>2
      <4>4. CASE test2Run[c] + 1 = NoTest
        BY <2>2, <3>1, <4>1, <4>2, <4>4 DEF Labels
      <4>5. CASE test2Run[c] + 1 # NoTest
        BY <2>2, <3>1, <4>1, <4>2, <4>3, <4>5 DEF Labels
      <4> QED BY <4>4, <4>5
    <3>3. CASE /\ claim[other[c]] # test2Run[c] /\ UNCHANGED test2Run
               /\ other[c] + 1 \in Cores
               /\ other' = [other EXCEPT ![c] = @ + 1] /\ Goto(c, "scan")
      <4>1. other'[c] = other[c] + 1 /\ \A d \in Cores \ {c} : other'[d] = other[d]
        BY <1>1, <3>3
      <4>2. other[c] \in Nat
        BY <1>1 DEF Cores
      <4>3. \A d \in 0 .. other'[c] - 1 : d \in 0 .. other[c] - 1 \/ d = other[c]
        BY <4>1, <4>2
      <4>4. \A d \in 0 .. other'[c] - 1 : claim[d] # test2Run'[c]
        BY <1>2, <3>1, <3>3, <4>3
      <4> QED BY <2>2, <3>1, <3>3, <4>1, <4>4 DEF Labels
    <3>4. CASE /\ claim[other[c]] # test2Run[c] /\ UNCHANGED test2Run
               /\ other[c] + 1 \notin Cores
               /\ other' = [other EXCEPT ![c] = 0] /\ Goto(c, "claim")
      <4>1. \A d \in Cores \ {c} : other'[d] = other[d]
        BY <1>1, <3>4
      <4>2. other[c] \in Cores
        BY <1>1
      <4>3. \A d \in Cores : d \in 0 .. other[c] - 1 \/ d = other[c]
        BY <3>4, <4>2 DEF Cores
      <4>4. \A d \in Cores : claim[d] # test2Run'[c]
        BY <1>2, <3>1, <3>4, <4>3
      <4> QED BY <2>2, <3>1, <3>4, <4>1, <4>4 DEF Labels
    <3> QED BY <2>6, <3>2, <3>3, <3>4 DEF Scan
  <2>7. CASE Claim(c)
    <3>1. /\ pc[c] = "claim" /\ claim' = [claim EXCEPT ![c] = test2Run[c]]
          /\ Goto(c, "release") /\ UNCHANGED <<test2Run, other>>
      BY <2>7 DEF Claim
    <3>2. \A d \in Cores : claim[d] # test2Run[c]
      BY <1>2, <3>1
    <3>3. /\ pc'[c] = "release" /\ claim'[c] = test2Run[c]
          /\ \A d \in Cores \ {c} : /\ pc'[d] \notin Critical /\ pc'[d] \in {pc[d], "check"}
                                    /\ claim'[d] = claim[d] /\ test2Run'[d] = test2Run[d]
      BY <1>1, <2>3, <3>1 DEF Labels, Critical
    <3>4. NoTest' = NoTest
      BY DEF NoTest
    <3>5. \A d, e \in Cores : claim'[d] = claim'[e] /\ claim'[d] # NoTest => d = e
      BY <1>2, <3>2, <3>3
    <3> QED BY <1>2, <3>1, <3>3, <3>4, <3>5 DEF ClaimInv, Critical
  <2>8. CASE Run(c)
    <3>1. /\ pc[c] = "released" /\ test2Run[c] # NoTest /\ Goto(c, "playback")
          /\ UNCHANGED <<claim, test2Run, other>>
      BY <2>8 DEF Run
    <3> QED BY <1>2, <2>2, <3>1 DEF Labels
  <2>9. CASE Played(c) \/ NotFound(c) \/ Leave(c)
    <3>1. UNCHANGED <<claim, other>> /\ \E label \in {"getLock", "done"} : Goto(c, label)
      BY <2>9 DEF Played, NotFound, Leave, Loop, GetLock, playbackVars
    <3>2. \A d \in Cores \ {c} : test2Run'[d] = test2Run[d]
      BY <1>1, <2>9 DEF Played, NotFound, Leave, playbackVars
    <3> QED BY <2>2, <3>1, <3>2 DEF Labels
  <2>10. PlaybackStep(c)
    BY <1>0, <1>5, Steps DEF BareStep
  <2> QED BY <2>4, <2>5, <2>6, <2>7, <2>8, <2>9, <2>10 DEF PlaybackStep
<1> QED BY <1>3, <1>4, <1>5 DEF Next

------------------------------------------------------------------------------
LEMMA InvInit == Init => CoresInv
<1> SUFFICES ASSUME Init PROVE CoresInv
  OBVIOUS
<1>1. TypeInv
  BY TypeInit
<1>2. LockInv /\ NoOrphanLock
  BY DEF Init, LocksInit, ApiInit, LockInv, NoOrphanLock, Free, NoRequest
<1>3. InsideInv /\ PatternInv /\ NoFalseMismatch
  BY DEF Init, LockTestInit, InsideInv, PatternInv, NoFalseMismatch, Critical
<1>4. ClaimInv
  BY DEF Init, PlaybackInit, ClaimInv
<1> QED BY <1>1, <1>2, <1>3, <1>4, BareInit DEF CoresInv

LEMMA InvStep == CoresInv /\ [Next]_vars => CoresInv'
BY TypeStep, LockStep, LockTestPart, ClaimStep, BareInvStep DEF CoresInv, LockPart

\* The inductive invariant: what ties register, beliefs, data and claims together.
THEOREM CoresCorrect == Spec => []CoresInv
BY InvInit, InvStep, PTL DEF Spec

\* Types, for any number of cores, locks and tests.
THEOREM CoresTypeCorrect == Spec => []TypeOK
<1>1. CoresInv => TypeOK
  BY DEF CoresInv, TypeInv, BareInv, TypeOK
<1> QED BY <1>1, CoresCorrect, PTL

\* cep_get_lock never leaves a lock behind that nobody knows of.
THEOREM NoLockOrphaned == Spec => []NoOrphanLock
BY CoresCorrect, PTL DEF CoresInv

\* What the lock test reports as a difference is one.
THEOREM LockTestTruthful == Spec => []NoFalseMismatch
BY CoresCorrect, PTL DEF CoresInv

\* The thread's word that a core passed can be relied on: the core has compared
\* all there is to compare, and what its partner wrote last is in the memory.
THEOREM PassTruthful == Spec => []NoFalsePass
<1>1. CoresInv => NoFalsePass
  <2> SUFFICES ASSUME CoresInv, NEW c \in Cores, watch[c] = "over", errCnt[c] = 0
               PROVE  /\ status[c] = "good" /\ err[c] = {}
                      /\ \A b \in Blocks : cell[Partner(c)][b] = Loops
    BY DEF NoFalsePass
  <2>1. status[c] = "good" /\ RoundInv(c) /\ BareTypeOK /\ Partner(c) \in Cores
    BY PartnerType DEF CoresInv, BareInv, VerdictInv
  <2>2. err[c] = {} /\ loop[c] = Loops - 1 /\ \A b \in Blocks : cell[Partner(c)][b] > loop[c]
    BY <2>1 DEF RoundInv, Seen, Blocks
  <2>3. \A b \in Blocks : cell[Partner(c)][b] \in 0 .. Loops
    BY <2>1 DEF BareTypeOK
  <2> QED BY <2>1, <2>2, <2>3
<1> QED BY <1>1, CoresCorrect, PTL

\* The playback team shares no test.
THEOREM TestsApart == Spec => []NoSharedTest
<1>1. CoresInv => NoSharedTest
  <2> SUFFICES ASSUME CoresInv, NEW c \in Cores, NEW d \in Cores, pc[c] = "playback",
                      pc[d] = "playback", test2Run[c] = test2Run[d]
               PROVE  c = d
    BY DEF NoSharedTest
  <2>1. program = "playback" /\ test2Run[c] \in Tests
    BY DEF CoresInv, TypeInv, LocksTypeOK, SearchOK, Programs, BarePlaces
  <2>2. claim[c] = test2Run[c] /\ claim[d] = test2Run[d]
    BY <2>1 DEF CoresInv, ClaimInv
  <2>3. test2Run[c] # NoTest
    BY <2>1 DEF Tests, NoTest
  <2> QED BY <2>1, <2>2, <2>3 DEF CoresInv, ClaimInv
<1> QED BY <1>1, CoresCorrect, PTL

\* The shared request register and the two calls of cep_apis.cc implement
\* locks: what a core takes, no other core believes it has.
THEOREM LocksImplementService == Spec => ImplementsLockService
<1>1. Init => Service!Init
  BY DEF Init, ApiInit, Service!Init
<1>2. CoresInv /\ [Next]_vars => [Service!Next]_held
  <2> SUFFICES ASSUME CoresInv, [Next]_vars PROVE Service!Next \/ UNCHANGED held
    OBVIOUS
  <2>1. CASE Idle \/ UNCHANGED vars
    BY <2>1 DEF Idle, QuietCycle, vars, apiVars
  <2>2. ASSUME NEW c \in Cores, CoreStep(c) \/ HostStep(c) PROVE Service!Next \/ UNCHANGED held
    <3>1. lockNum[c] \in Locks
      BY DEF CoresInv, TypeInv, LocksTypeOK
    <3>2. CASE ReadGot(c)
      <4>1. lock[lockNum[c]] = HeldBy(c) /\ held' = [held EXCEPT ![c] = @ \cup {lockNum[c]}]
        BY <3>2 DEF ReadGot
      <4>2. ASSUME NEW d \in Cores \ {c}, lockNum[c] \in held[d] PROVE FALSE
        <5>1. lock[lockNum[c]] = HeldBy(d)
          BY <4>2 DEF CoresInv, LockInv
        <5>2. HeldBy(c).coreId = c /\ HeldBy(d).coreId = d
          BY DEF HeldBy
        <5> QED BY <4>1, <5>1, <5>2
      <4>3. Service!Take(c, lockNum[c])
        BY <4>1, <4>2 DEF Service!Take
      <4> QED BY <3>1, <4>3 DEF Service!Next
    <3>3. CASE WriteRelease(c)
      <4>1. pc[c] = "release" /\ held' = [held EXCEPT ![c] = @ \ {lockNum[c]}]
        BY <3>3 DEF WriteRelease
      <4>2. lockNum[c] \in held[c]
        BY <4>1 DEF CoresInv, InsideInv, Critical
      <4>3. Service!GiveBack(c, lockNum[c])
        BY <4>1, <4>2 DEF Service!GiveBack
      <4> QED BY <3>1, <4>3 DEF Service!Next
    <3>4. CASE WriteRequest(c) \/ ReadMissed(c)
      BY <3>4 DEF WriteRequest, ReadMissed
    <3>5. CASE Quiet(c)
      BY <3>5 DEF Quiet
    <3>6. TypeInv /\ TypeInv'
      BY TypeStep DEF CoresInv
    <3> QED BY <2>2, <3>2, <3>3, <3>4, <3>5, <3>6, QuietOrApi DEF ApiStep
  <2> QED BY <2>1, <2>2 DEF Next
<1> QED BY <1>1, <1>2, CoresCorrect, PTL DEF Spec, ImplementsLockService, Service!Spec
==============================================================================
