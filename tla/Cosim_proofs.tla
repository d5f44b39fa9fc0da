---------------------------- MODULE Cosim_proofs -----------------------------
(***************************************************************************)
(* Proofs about Cosim for any number of cores, any data and any captured   *)
(* sequences: the types, the order of start-up and shutdown, that the      *)
(* mailboxes are remote calls, and that every test's verdict is exact and  *)
(* counted once in the total.                                              *)
(***************************************************************************)
EXTENDS Cosim, FiniteSetTheorems, WellFoundedInduction, TLAPS

USE ShIpcAssumption, ClocksAssumption

SlotType == [valid : BOOLEAN, status : Statuses, cmd : Commands \cup {NoCommand},
             par : Values, errCnt : Nat, threadDone : BOOLEAN, startFlag : BOOLEAN]

LEMMA CallerTypes ==
  /\ Callers = Cores \cup {System} /\ System \notin Cores /\ Nobody \notin Callers
  /\ \A c \in Cores : c \in Nat /\ c # System
BY DEF Callers, Cores, System, Nobody

LEMMA CommandTypes ==
  /\ NoCommand \notin Commands
  /\ \A v \in Values : Write(v) \in Commands
  /\ \A op \in {"read", "runClk", "print", "writeDvt", "shutdown"} : Plain(op) \in Commands
  /\ \A cmd \in Commands \cup {NoCommand} : cmd.dat \in Values
<1>1. ASSUME NEW cmd \in Commands PROVE cmd.op # "none" /\ cmd.dat \in Values
  BY DEF Commands, Write, Plain
<1>2. NoCommand.op = "none" /\ NoCommand.dat = 0
  BY DEF NoCommand
<1>3. /\ \A v \in Values : Write(v) \in Commands
      /\ \A op \in {"read", "runClk", "print", "writeDvt", "shutdown"} : Plain(op) \in Commands
  BY DEF Commands
<1> QED BY <1>1, <1>2, <1>3

LEMMA InitSlotTypes == InitMe \in SlotType /\ Stale \in SlotType
BY DEF InitMe, Stale, SlotType, Statuses

\* A command of a sequence.
LEMMA CaptureTypes ==
  ASSUME NEW seq \in Captures
  PROVE  \A n \in DOMAIN seq : seq[n] \in CaptureCommand
<1>1. seq \in Seq(CaptureCommand)
  BY CaptureAssumption
<1>2. ASSUME NEW T, NEW s \in Seq(T) PROVE \A n \in DOMAIN s : s[n] \in T
  OBVIOUS
<1> QED BY <1>1, <1>2

IpcTypeOK ==
  /\ keyFile \in BOOLEAN /\ slot \in [Callers -> SlotType]
  /\ call \in [Callers -> {"none", "posted", "waiting"}] /\ rdDat \in [Callers -> Values]

CTypeOK ==
  /\ place \in [Callers -> Places \cup MainPlaces] /\ cmdSeq \in [Cores -> Captures]
  /\ c1 \in [Cores -> Nat] /\ timeOut \in [Cores -> Nat] /\ errCnt \in [Cores -> Nat]
  /\ next \in 0 .. NumCores /\ active \subseteq Cores /\ allDone \in BOOLEAN /\ mErrCnt \in Nat

SimTypeOK ==
  /\ driver \in [Callers -> {"off", "attached", "poll", "empty", "busy", "answer", "stopped"}]
  /\ inProgress \in [Callers -> BOOLEAN] /\ clocks \in [Callers -> 0 .. MaxClocks]
  /\ control \in Callers \cup {Nobody} /\ device \in [Callers -> Values]
  /\ time2Shutdown \in BOOLEAN /\ finished \in BOOLEAN

LEMMA TypeParts == TypeOK <=> IpcTypeOK /\ CTypeOK /\ SimTypeOK
BY DEF TypeOK, IpcTypeOK, CTypeOK, SimTypeOK, SlotType

\* The cores whose thread has been forked.
Forked ==
  IF Main \in {"setTheKey", "initSlots"} THEN {}
  ELSE IF Main = "fork" THEN 0 .. next - 1
  ELSE IF Main \in {"watch", "setActive"} THEN 0 .. next ELSE Cores

SlotsReady == Main \notin {"setTheKey", "initSlots"}

\* Start-up: a driver attaches, and a thread begins, on slots that are initialised.
StartInv ==
  /\ Main \in MainPlaces /\ (Main \in {"fork", "watch", "setActive"} => next \in Cores)
  /\ Main = "dumpWave" => next = 0
  /\ ~SlotsReady => next = 0 /\ active = {} /\ \A c \in Callers : driver[c] = "off" /\ call[c] = "none"
  /\ driver[System] = "off" => \A c \in Callers : driver[c] = "off"
  /\ \A c \in Cores : place[c] \in Places /\ (place[c] = "unborn" <=> c \notin Forked)

\* Where a thread is while a call of its is under way, and what it may ask.
CoreCallInv ==
  \A c \in Cores : call[c] # "none" =>
    /\ place[c] \in {"calibrate", "complain", "report", "playback"}
    /\ place[c] = "playback" => InPlayback(c) /\ Due(c)
    /\ slot[c].cmd \in Commands /\ slot[c].cmd.op # "shutdown"

MainCallInv ==
  call[System] # "none" =>
    /\ Main \in {"dumpWave", "result", "shutdown"}
    /\ slot[System].cmd \in Commands
    /\ slot[System].cmd.op = "shutdown" <=> Main = "shutdown"

\* The flag is up only while the caller waits, and while a driver is at work.
MailInv ==
  \A c \in Callers :
    /\ slot[c].valid => call[c] = "waiting"
    /\ driver[c] \in {"busy", "answer"} => slot[c].valid

\* A thread that is done, or taken for one, makes no call any more.
DoneInv ==
  SlotsReady => \A c \in Cores :
    slot[c].threadDone \/ slot[c].status = "inactive" => place[c] \in {"inactive", "ended"}

ActiveInv == \A c \in Cores : c \in active \/ place[c] \in {"unborn", "inactive", "ended"}

\* Shutdown: the threads are all found done, then the last command is sent, and
\* the simulator ends when it has answered it.
EndInv ==
  /\ Main = "scan" /\ allDone => \A c \in Cores : c < next => c \notin active
  /\ Main \in {"result", "shutdown", "exit"} => active = {}
  /\ time2Shutdown => \/ Main = "exit" /\ call[System] = "none"
                      \/ Main = "shutdown" /\ call[System] = "waiting"
  /\ time2Shutdown => \/ ~slot[System].valid
                      \/ driver[System] = "answer" /\ control = System
  /\ finished => time2Shutdown /\ ~slot[System].valid

CosimInv ==
  /\ IpcTypeOK /\ CTypeOK /\ SimTypeOK
  /\ StartInv /\ CoreCallInv /\ MainCallInv /\ MailInv
  /\ DoneInv /\ ActiveInv /\ NoneLeftBehind /\ EndInv

LEMMA TimeOutTypes ==
  ASSUME CTypeOK, NEW c \in Cores, NEW n
  PROVE  TimeOutAt(c, n) \in Nat
<1>1. cmdSeq[c] \in Captures
  BY DEF CTypeOK
<1>2. CASE n \in DOMAIN cmdSeq[c]
  <2>1. cmdSeq[c][n] \in CaptureCommand
    BY <1>1, <1>2, CaptureTypes
  <2> QED BY <1>2, <2>1 DEF TimeOutAt, CaptureCommand
<1>3. CASE n \notin DOMAIN cmdSeq[c]
  BY <1>3 DEF TimeOutAt
<1> QED BY <1>2, <1>3

LEMMA InvInit == Init => CosimInv
<1> SUFFICES ASSUME Init PROVE CosimInv
  OBVIOUS
<1> USE CallerTypes
<1>1. IpcTypeOK
  BY InitSlotTypes DEF Init, IpcInit, IpcTypeOK
<1>2. CTypeOK
  <2>1. \A c \in Cores : TimeOutAt(c, 1) \in Nat
    <3> SUFFICES ASSUME NEW c \in Cores PROVE TimeOutAt(c, 1) \in Nat
      OBVIOUS
    <3>1. cmdSeq[c] \in Captures
      BY DEF Init, ModuleInit
    <3>2. 1 \in DOMAIN cmdSeq[c] => cmdSeq[c][1] \in CaptureCommand
      BY <3>1, CaptureTypes
    <3> QED BY <3>2 DEF TimeOutAt, CaptureCommand
  <2>2. c1 \in [Cores -> Nat] /\ timeOut \in [Cores -> Nat] /\ errCnt \in [Cores -> Nat] /\ cmdSeq \in [Cores -> Captures]
    BY <2>1 DEF Init, ModuleInit
  <2>3. next \in 0 .. NumCores /\ active \subseteq Cores /\ mErrCnt \in Nat
    BY DEF Init, MainInit
  <2>4. allDone \in BOOLEAN
    BY DEF Init, MainInit
  <2>5. place \in [Callers -> Places \cup MainPlaces]
    BY DEF Init, MainInit, Places, MainPlaces
  <2> QED BY <2>2, <2>3, <2>4, <2>5 DEF CTypeOK
<1>3. SimTypeOK
  <2>1. time2Shutdown \in BOOLEAN /\ finished \in BOOLEAN
    BY DEF Init, SimInit
  <2>2. /\ driver \in [Callers -> {"off", "attached", "poll", "empty", "busy", "answer", "stopped"}]
        /\ inProgress \in [Callers -> BOOLEAN] /\ clocks \in [Callers -> 0 .. MaxClocks]
        /\ control \in Callers \cup {Nobody} /\ device \in [Callers -> Values]
    BY DEF Init, SimInit
  <2> QED BY <2>1, <2>2 DEF SimTypeOK
<1>4. /\ Main = "setTheKey" /\ next = 0 /\ active = {} /\ ~time2Shutdown /\ ~finished
      /\ \A c \in Cores : place[c] = "unborn"
      /\ \A c \in Callers : driver[c] = "off" /\ call[c] = "none" /\ ~slot[c].valid
  <2>1. ~time2Shutdown /\ ~finished
    BY DEF Init, SimInit
  <2>2. /\ Main = "setTheKey" /\ next = 0 /\ active = {}
        /\ \A c \in Cores : place[c] = "unborn"
    BY DEF Init, MainInit, Main
  <2>3. \A c \in Callers : driver[c] = "off" /\ call[c] = "none"
    BY DEF Init, IpcInit, SimInit
  <2>4. ~InitMe.valid /\ ~Stale.valid
    BY DEF InitMe, Stale
  <2>5. \A c \in Callers : ~slot[c].valid
    BY <2>4 DEF Init, IpcInit
  <2> QED BY <2>1, <2>2, <2>3, <2>5
<1>5. StartInv /\ CoreCallInv /\ MainCallInv /\ MailInv
  BY <1>4 DEF StartInv, CoreCallInv, MainCallInv, MailInv, SlotsReady, Forked, Places, MainPlaces
<1>6. DoneInv /\ ActiveInv /\ NoneLeftBehind /\ EndInv
  BY <1>4 DEF DoneInv, ActiveInv, NoneLeftBehind, EndInv, SlotsReady
<1> QED BY <1>1, <1>2, <1>3, <1>5, <1>6 DEF CosimInv

------------------------------------------------------------------------------
\* A store in the slot of caller c changes a field of it and nothing else.
LEMMA SlotFields ==
  ASSUME NEW s \in SlotType
  PROVE  /\ \A v \in BOOLEAN : [s EXCEPT !.valid = v] \in SlotType
         /\ \A v \in Statuses : [s EXCEPT !.status = v] \in SlotType
         /\ \A v \in Values : [s EXCEPT !.par = v] \in SlotType
         /\ \A v \in Nat : [s EXCEPT !.errCnt = v] \in SlotType
         /\ \A v \in BOOLEAN : [s EXCEPT !.threadDone = v] \in SlotType
         /\ \A v \in BOOLEAN : [s EXCEPT !.startFlag = v] \in SlotType
         /\ \A v \in Commands : [s EXCEPT !.cmd = v] \in SlotType
BY DEF SlotType

LEMMA SlotStore ==
  ASSUME slot \in [Callers -> SlotType], NEW c \in Callers, NEW s \in SlotType,
         slot' = [slot EXCEPT ![c] = s]
  PROVE  /\ slot' \in [Callers -> SlotType] /\ slot'[c] = s
         /\ \A d \in Callers \ {c} : slot'[d] = slot[d]
OBVIOUS

\* The three stores of a call, and its return.
LEMMA CallEffect ==
  ASSUME IpcTypeOK, NEW c \in Callers, NEW command \in Commands, Call(c, command)
  PROVE  /\ slot' \in [Callers -> SlotType] /\ call' \in [Callers -> {"none", "posted", "waiting"}]
         /\ \A d \in Callers \ {c} : slot'[d] = slot[d] /\ call'[d] = call[d]
         /\ call[c] = "none" /\ call'[c] = "posted" /\ rdDat' = rdDat
         /\ slot'[c] = [slot[c] EXCEPT !.cmd = command, !.status = "pending"]
<1> DEFINE s == [slot[c] EXCEPT !.cmd = command, !.status = "pending"]
<1>1. slot \in [Callers -> SlotType] /\ slot[c] \in SlotType
  BY DEF IpcTypeOK
<1>2. s \in SlotType
  BY <1>1 DEF SlotType, Statuses
<1>3. slot' = [slot EXCEPT ![c] = s]
  BY DEF Call
<1>4. /\ call' \in [Callers -> {"none", "posted", "waiting"}] /\ call[c] = "none"
      /\ call'[c] = "posted" /\ rdDat' = rdDat
      /\ \A d \in Callers \ {c} : call'[d] = call[d]
  BY DEF Call, IpcTypeOK
<1> HIDE DEF s
<1>5. /\ slot' \in [Callers -> SlotType] /\ slot'[c] = s
      /\ \A d \in Callers \ {c} : slot'[d] = slot[d]
  BY <1>1, <1>2, <1>3, SlotStore
<1> QED BY <1>4, <1>5 DEF s

LEMMA RaiseEffect ==
  ASSUME IpcTypeOK, NEW c \in Callers, Raise(c)
  PROVE  /\ slot' \in [Callers -> SlotType] /\ call' \in [Callers -> {"none", "posted", "waiting"}]
         /\ \A d \in Callers \ {c} : slot'[d] = slot[d] /\ call'[d] = call[d]
         /\ call[c] = "posted" /\ call'[c] = "waiting" /\ rdDat' = rdDat
         /\ slot'[c] = [slot[c] EXCEPT !.valid = TRUE]
<1>1. slot \in [Callers -> SlotType] /\ slot[c] \in SlotType
  BY DEF IpcTypeOK
<1>2. [slot[c] EXCEPT !.valid = TRUE] \in SlotType
  BY <1>1, SlotFields
<1>3. slot' = [slot EXCEPT ![c] = [slot[c] EXCEPT !.valid = TRUE]]
  BY DEF Raise
<1>4. /\ call' \in [Callers -> {"none", "posted", "waiting"}] /\ call[c] = "posted"
      /\ call'[c] = "waiting" /\ rdDat' = rdDat
      /\ \A d \in Callers \ {c} : call'[d] = call[d]
  BY DEF Raise, IpcTypeOK
<1> QED BY <1>1, <1>2, <1>3, <1>4, SlotStore

LEMMA ReturnEffect ==
  ASSUME IpcTypeOK, NEW c \in Callers, Return(c)
  PROVE  /\ slot' \in [Callers -> SlotType] /\ call' \in [Callers -> {"none", "posted", "waiting"}]
         /\ \A d \in Callers \ {c} : slot'[d] = slot[d] /\ call'[d] = call[d] /\ rdDat'[d] = rdDat[d]
         /\ call[c] = "waiting" /\ call'[c] = "none" /\ ~slot[c].valid
         /\ slot' = slot /\ rdDat' \in [Callers -> Values]
         /\ rdDat' = [rdDat EXCEPT ![c] = IF slot[c].cmd.op = "read" THEN slot[c].par ELSE @]
<1>1. slot \in [Callers -> SlotType] /\ slot[c] \in SlotType /\ ~slot[c].valid
  BY DEF IpcTypeOK, Return
<1>2. slot' = slot
  <2>1. slot' = [slot EXCEPT ![c] = [slot[c] EXCEPT !.errCnt = slot[c].errCnt]]
    BY <1>1 DEF Return
  <2>2. [slot[c] EXCEPT !.errCnt = slot[c].errCnt] = slot[c]
    BY <1>1 DEF SlotType
  <2> QED BY <1>1, <2>1, <2>2
<1>3. /\ call' \in [Callers -> {"none", "posted", "waiting"}] /\ call[c] = "waiting"
      /\ call'[c] = "none"
      /\ \A d \in Callers \ {c} : call'[d] = call[d]
  BY DEF Return, IpcTypeOK
<1>4. slot[c].par \in Values
  BY <1>1 DEF SlotType
<1>5. /\ rdDat' = [rdDat EXCEPT ![c] = IF slot[c].cmd.op = "read" THEN slot[c].par ELSE @]
      /\ rdDat \in [Callers -> Values]
  BY DEF Return, IpcTypeOK
<1> QED BY <1>1, <1>2, <1>3, <1>4, <1>5

------------------------------------------------------------------------------
\* One core's part of the invariants that a step of its thread can disturb.
CallPart(c) ==
  /\ call[c] # "none" =>
       /\ place[c] \in {"calibrate", "complain", "report", "playback"}
       /\ place[c] = "playback" => InPlayback(c) /\ Due(c)
       /\ slot[c].cmd \in Commands /\ slot[c].cmd.op # "shutdown"
  /\ slot[c].valid => call[c] = "waiting"
  /\ driver[c] \in {"busy", "answer"} => slot[c].valid

\* A step of thread c touches its own slot, place and variables only; what is
\* left to show is c's part.
LEMMA ThreadFrame ==
  ASSUME CosimInv, NEW c \in Cores, UNCHANGED <<keyFile, mainVars, simVars, cmdSeq>>,
         NEW label \in Places \ {"unborn"}, place' = [place EXCEPT ![c] = label],
         place[c] # "unborn", place[c] \in {"inactive", "ended"} => label \in {"inactive", "ended"},
         slot' \in [Callers -> SlotType], call' \in [Callers -> {"none", "posted", "waiting"}],
         rdDat' \in [Callers -> Values], c1' \in [Cores -> Nat],
         timeOut' \in [Cores -> Nat], errCnt' \in [Cores -> Nat],
         \A d \in Callers \ {c} : slot'[d] = slot[d] /\ call'[d] = call[d],
         \A d \in Cores \ {c} : c1'[d] = c1[d] /\ timeOut'[d] = timeOut[d],
         CallPart(c)',
         slot'[c].threadDone \/ slot'[c].status = "inactive" =>
           \/ label \in {"inactive", "ended"}
           \/ slot[c].threadDone \/ slot[c].status = "inactive"
  PROVE  CosimInv'
<1> USE CallerTypes
<1>1. /\ UNCHANGED <<next, active, allDone, mErrCnt, driver, inProgress, clocks, control, device,
                     time2Shutdown, finished>>
      /\ place \in [Callers -> Places \cup MainPlaces]
  BY DEF mainVars, simVars, CosimInv, CTypeOK
<1>2. place'[c] = label /\ (\A d \in Callers \ {c} : place'[d] = place[d]) /\ Main' = Main
  BY <1>1 DEF Main
<1>3. IpcTypeOK'
  BY DEF CosimInv, IpcTypeOK
<1>4. CTypeOK'
  <2>1. place' \in [Callers -> Places \cup MainPlaces]
    BY <1>1
  <2> QED BY <1>1, <2>1 DEF CosimInv, CTypeOK
<1>5. SimTypeOK'
  BY <1>1 DEF CosimInv, SimTypeOK
<1>6. StartInv'
  <2>1. Forked' = Forked /\ SlotsReady' = SlotsReady
    BY <1>1, <1>2 DEF Forked, SlotsReady
  <2>2. \A d \in Cores : place'[d] \in Places /\ (place'[d] = "unborn" <=> d \notin Forked')
    BY <1>2, <2>1 DEF CosimInv, StartInv
  <2>3. SlotsReady
    BY DEF CosimInv, StartInv, Forked, SlotsReady
  <2> QED BY <1>1, <1>2, <2>1, <2>2, <2>3 DEF CosimInv, StartInv
<1>7. CoreCallInv'
  <2> SUFFICES ASSUME NEW d \in Cores, call'[d] # "none"
               PROVE  /\ place'[d] \in {"calibrate", "complain", "report", "playback"}
                      /\ place'[d] = "playback" => InPlayback(d)' /\ Due(d)'
                      /\ slot'[d].cmd \in Commands /\ slot'[d].cmd.op # "shutdown"
    BY DEF CoreCallInv
  <2>1. CASE d = c
    BY <2>1 DEF CallPart
  <2>2. CASE d # c
    BY <1>2, <2>2 DEF CosimInv, CoreCallInv, InPlayback, Due
  <2> QED BY <2>1, <2>2
<1>8. MainCallInv'
  BY <1>2 DEF CosimInv, MainCallInv
<1>9. MailInv'
  BY <1>1 DEF CosimInv, MailInv, CallPart
<1>10. DoneInv'
  BY <1>2 DEF CosimInv, DoneInv, SlotsReady
<1>11. ActiveInv' /\ NoneLeftBehind'
  BY <1>1, <1>2 DEF CosimInv, ActiveInv, NoneLeftBehind
<1>12. EndInv'
  BY <1>1, <1>2 DEF CosimInv, EndInv
<1> QED BY <1>3, <1>4, <1>5, <1>6, <1>7, <1>8, <1>9, <1>10, <1>11, <1>12 DEF CosimInv

LEMMA ThreadInv ==
  ASSUME CosimInv, NEW c \in Cores, ThreadRuns(c)
  PROVE  CosimInv'
<1> USE CallerTypes
<1>1. /\ IpcTypeOK /\ slot \in [Callers -> SlotType] /\ slot[c] \in SlotType
      /\ call \in [Callers -> {"none", "posted", "waiting"}] /\ rdDat \in [Callers -> Values]
      /\ c1 \in [Cores -> Nat] /\ timeOut \in [Cores -> Nat] /\ errCnt \in [Cores -> Nat]
      /\ place \in [Callers -> Places \cup MainPlaces] /\ place[c] \in Places
      /\ CallPart(c)
  BY DEF CosimInv, IpcTypeOK, CTypeOK, StartInv, CoreCallInv, MailInv, CallPart
<1>2. UNCHANGED <<keyFile, mainVars, simVars, cmdSeq>>
  <2>1. ThreadStep(c) => UNCHANGED cmdSeq
    BY DEF ThreadStep, NotifyAlive, SetStartFlag, FrameCall, FrameReturn, PassOver, Access,
           AccessReturn, EndPlayback, RaiseFlag, SetError, SetThreadDone, SetInactive, moduleVars
  <2> QED BY <2>1 DEF ThreadRuns, Wake, ipcVars, moduleVars
<1>3. driver'[c] = driver[c]
  BY <1>2 DEF simVars
\* No call is under way, and the thread's own slot is not touched: it moves.
<1>4. ASSUME NEW label \in Places \ {"unborn"}, place' = [place EXCEPT ![c] = label],
             place[c] # "unborn", place[c] \in {"inactive", "ended"} => label \in {"inactive", "ended"},
             call[c] = "none", UNCHANGED <<slot, call, rdDat>>,
             c1' \in [Cores -> Nat], timeOut' \in [Cores -> Nat], errCnt' \in [Cores -> Nat],
             \A d \in Cores \ {c} : c1'[d] = c1[d] /\ timeOut'[d] = timeOut[d]
      PROVE  CosimInv'
  <2>1. CallPart(c)'
    BY <1>1, <1>3, <1>4 DEF CallPart
  <2> QED BY <1>1, <1>2, <1>4, <2>1, ThreadFrame
\* No call is under way, and the thread stores something in its slot.
<1>5. ASSUME NEW label \in Places \ {"unborn"}, place' = [place EXCEPT ![c] = label],
             place[c] # "unborn", place[c] \in {"inactive", "ended"} => label \in {"inactive", "ended"},
             call[c] = "none", UNCHANGED <<call, rdDat, moduleVars>>,
             NEW s \in SlotType, slot' = [slot EXCEPT ![c] = s], s.valid = slot[c].valid,
             s.threadDone \/ s.status = "inactive" =>
               \/ label \in {"inactive", "ended"}
               \/ slot[c].threadDone \/ slot[c].status = "inactive"
      PROVE  CosimInv'
  <2>1. /\ slot' \in [Callers -> SlotType] /\ slot'[c] = s
        /\ \A d \in Callers \ {c} : slot'[d] = slot[d]
    BY <1>1, <1>5, SlotStore
  <2>2. UNCHANGED <<c1, timeOut, errCnt>>
    BY <1>5 DEF moduleVars
  <2>3. CallPart(c)'
    BY <1>1, <1>3, <1>5, <2>1 DEF CallPart
  <2> QED BY <1>1, <1>2, <1>5, <2>1, <2>2, <2>3, ThreadFrame
\* A thread outside the places of calls has none under way.
<1>6. place[c] \notin {"calibrate", "complain", "report", "playback"} => call[c] = "none"
  BY <1>1 DEF CallPart
<1>7. ASSUME UNCHANGED place PROVE place' = [place EXCEPT ![c] = place[c]]
  BY <1>1, <1>7
<1>8. CASE Wake(c)
  <2>1. /\ place[c] = "asleep" /\ place' = [place EXCEPT ![c] = "calibrate"]
        /\ UNCHANGED <<slot, call, rdDat, c1, timeOut, errCnt>>
    BY <1>8 DEF Wake, Goto, ipcVars, moduleVars
  <2> QED BY <1>1, <1>4, <1>6, <2>1 DEF Places
<1>9. CASE NotifyAlive(c)
  <2>1. /\ place[c] = "born" /\ place' = [place EXCEPT ![c] = "alive"]
        /\ UNCHANGED <<call, rdDat, moduleVars>>
        /\ slot' = [slot EXCEPT ![c] = [slot[c] EXCEPT !.status = "alive"]]
    BY <1>9 DEF NotifyAlive, SetStatus, Goto
  <2>2. [slot[c] EXCEPT !.status = "alive"] \in SlotType
    BY <1>1, SlotFields DEF Statuses
  <2>3. /\ [slot[c] EXCEPT !.status = "alive"].valid = slot[c].valid
        /\ [slot[c] EXCEPT !.status = "alive"].threadDone = slot[c].threadDone
        /\ [slot[c] EXCEPT !.status = "alive"].status = "alive"
    BY <1>1 DEF SlotType
  <2> QED BY <1>5, <1>6, <2>1, <2>2, <2>3 DEF Places
<1>10. CASE SetStartFlag(c)
  <2>1. /\ place[c] = "alive" /\ place' = [place EXCEPT ![c] = "asleep"]
        /\ UNCHANGED <<call, rdDat, moduleVars>>
        /\ slot' = [slot EXCEPT ![c] = [slot[c] EXCEPT !.startFlag = TRUE]]
    BY <1>10 DEF SetStartFlag, Goto
  <2>2. [slot[c] EXCEPT !.startFlag = TRUE] \in SlotType
    BY <1>1, SlotFields
  <2>3. /\ [slot[c] EXCEPT !.startFlag = TRUE].valid = slot[c].valid
        /\ [slot[c] EXCEPT !.startFlag = TRUE].threadDone = slot[c].threadDone
        /\ [slot[c] EXCEPT !.startFlag = TRUE].status = slot[c].status
    BY <1>1 DEF SlotType
  <2> QED BY <1>5, <1>6, <2>1, <2>2, <2>3 DEF Places
\* A call begins, its flag goes up, or it returns.
<1>11. ASSUME NEW command \in Commands, Call(c, command), command.op # "shutdown",
              place[c] \in {"calibrate", "complain", "report", "playback"},
              place[c] = "playback" => InPlayback(c) /\ Due(c), UNCHANGED <<place, moduleVars>>
       PROVE  CosimInv'
  <2>1. /\ slot' \in [Callers -> SlotType] /\ call' \in [Callers -> {"none", "posted", "waiting"}]
        /\ \A d \in Callers \ {c} : slot'[d] = slot[d] /\ call'[d] = call[d]
        /\ call[c] = "none" /\ rdDat' = rdDat
        /\ slot'[c] = [slot[c] EXCEPT !.cmd = command, !.status = "pending"]
    BY <1>1, <1>11, CallEffect
  <2>2. /\ slot'[c].cmd = command /\ slot'[c].status = "pending"
        /\ slot'[c].threadDone = slot[c].threadDone /\ slot'[c].valid = slot[c].valid
    BY <1>1, <2>1 DEF SlotType
  <2>3. UNCHANGED <<c1, timeOut, errCnt>>
    BY <1>11 DEF moduleVars
  <2>4. place[c] = "playback" => InPlayback(c)' /\ Due(c)'
    BY <1>2, <1>11, <2>3 DEF InPlayback, Due
  <2>5. CallPart(c)'
    BY <1>1, <1>3, <1>11, <2>1, <2>2, <2>4 DEF CallPart
  <2> QED BY <1>1, <1>2, <1>7, <1>11, <2>1, <2>2, <2>3, <2>5, ThreadFrame, ZenonT(60)
<1>12. CASE RaiseFlag(c)
  <2>1. /\ slot' \in [Callers -> SlotType] /\ call' \in [Callers -> {"none", "posted", "waiting"}]
        /\ \A d \in Callers \ {c} : slot'[d] = slot[d] /\ call'[d] = call[d]
        /\ call[c] = "posted" /\ call'[c] = "waiting" /\ rdDat' = rdDat
        /\ slot'[c] = [slot[c] EXCEPT !.valid = TRUE]
    BY <1>1, <1>12, RaiseEffect DEF RaiseFlag
  <2>2. /\ slot'[c].cmd = slot[c].cmd /\ slot'[c].status = slot[c].status
        /\ slot'[c].threadDone = slot[c].threadDone /\ slot'[c].valid
    BY <1>1, <2>1 DEF SlotType
  <2>3. UNCHANGED <<place, c1, timeOut, errCnt>>
    BY <1>12 DEF RaiseFlag, moduleVars
  <2>4. InPlayback(c)' = InPlayback(c) /\ Due(c)' = Due(c)
    BY <1>2, <2>3 DEF InPlayback, Due
  <2>5. CallPart(c)'
    BY <1>1, <1>3, <2>1, <2>2, <2>3, <2>4 DEF CallPart
  <2>6. place[c] \in {"calibrate", "complain", "report", "playback"}
    BY <1>1, <2>1 DEF CallPart
  <2>7. PICK label \in Places \ {"unborn"} :
          /\ place' = [place EXCEPT ![c] = label] /\ place[c] # "unborn"
          /\ place[c] \notin {"inactive", "ended"}
    BY <1>1, <1>7, <2>3, <2>6
  <2>8. slot'[c].threadDone \/ slot'[c].status = "inactive" =>
          slot[c].threadDone \/ slot[c].status = "inactive"
    BY <2>2
  <2> QED BY <1>1, <1>2, <2>1, <2>3, <2>5, <2>7, <2>8, ThreadFrame
<1>13. ASSUME Return(c), NEW label \in Places \ {"unborn"}, place' = [place EXCEPT ![c] = label],
              c1' \in [Cores -> Nat], timeOut' \in [Cores -> Nat], errCnt' \in [Cores -> Nat],
              \A d \in Cores \ {c} : c1'[d] = c1[d] /\ timeOut'[d] = timeOut[d]
       PROVE  CosimInv'
  <2>1. /\ slot' = slot /\ call' \in [Callers -> {"none", "posted", "waiting"}]
        /\ \A d \in Callers \ {c} : call'[d] = call[d]
        /\ call[c] = "waiting" /\ call'[c] = "none" /\ ~slot[c].valid
        /\ rdDat' \in [Callers -> Values]
    BY <1>1, <1>13, ReturnEffect
  <2>2. CallPart(c)'
    BY <1>1, <1>3, <2>1 DEF CallPart
  <2>3. place[c] \in {"calibrate", "complain", "report", "playback"}
    BY <1>1, <2>1 DEF CallPart
  <2> QED BY <1>1, <1>2, <1>13, <2>1, <2>2, <2>3, ThreadFrame
<1>14. CASE FrameCall(c)
  <2>1. Plain("runClk") \in Commands /\ Plain("print") \in Commands
    BY CommandTypes
  <2>2. Plain("runClk").op = "runClk" /\ Plain("print").op = "print"
    BY DEF Plain
  <2> QED BY <1>11, <1>14, <2>1, <2>2 DEF FrameCall
<1>15. CASE Access(c)
  <2>1. PICK command \in Commands : Call(c, command) /\ command.op # "shutdown"
    <3>1. /\ InPlayback(c) /\ Due(c) /\ c1[c] \in DOMAIN cmdSeq[c] /\ cmdSeq[c] \in Captures
          /\ Call(c, IF cmdSeq[c][c1[c]].op = "WRITE" THEN Write(cmdSeq[c][c1[c]].dat) ELSE Plain("read"))
      BY <1>15 DEF Access, InPlayback, CosimInv, CTypeOK
    <3>2. cmdSeq[c][c1[c]].dat \in Values
      BY <3>1, CaptureTypes DEF CaptureCommand
    <3>3. /\ Write(cmdSeq[c][c1[c]].dat) \in Commands /\ Plain("read") \in Commands
          /\ Write(cmdSeq[c][c1[c]].dat).op = "write" /\ Plain("read").op = "read"
      BY <3>2, CommandTypes DEF Write, Plain
    <3> QED BY <3>1, <3>3
  <2>2. InPlayback(c) /\ Due(c) /\ place[c] = "playback" /\ UNCHANGED <<place, moduleVars>>
    BY <1>15 DEF Access, InPlayback
  <2> QED BY <1>11, <2>1, <2>2
\* The loop over the sequence.
<1>16. ASSUME NextCommand(c)
       PROVE  /\ c1' \in [Cores -> Nat] /\ timeOut' \in [Cores -> Nat]
              /\ \A d \in Cores \ {c} : c1'[d] = c1[d] /\ timeOut'[d] = timeOut[d]
  <2>1. TimeOutAt(c, c1[c] + 1) \in Nat
    BY TimeOutTypes DEF CosimInv
  <2>2. c1[c] + 1 \in Nat
    BY <1>1
  <2> QED BY <1>1, <1>16, <2>1, <2>2 DEF NextCommand
<1>17. CASE FrameReturn(c)
  <2>1. CASE \E label \in {"playback", "setError"} : Goto(c, label) /\ UNCHANGED moduleVars
    <3>1. PICK label \in {"playback", "setError"} : Goto(c, label) /\ UNCHANGED moduleVars
      BY <2>1
    <3>2. Return(c) /\ place' = [place EXCEPT ![c] = label] /\ UNCHANGED <<c1, timeOut, errCnt>>
      BY <1>17, <3>1 DEF FrameReturn, Goto, moduleVars
    <3> QED BY <1>1, <1>13, <3>2 DEF Places
  <2>2. CASE /\ errCnt' = [errCnt EXCEPT ![c] = c1[c]]
             /\ \/ Goto(c, "report") /\ Loop(c)
                \/ Goto(c, "playback") /\ NextCommand(c)
    <3>1. errCnt' \in [Cores -> Nat] /\ Return(c)
      BY <1>1, <1>17, <2>2 DEF FrameReturn
    <3>2. CASE Goto(c, "report") /\ Loop(c)
      BY <1>1, <1>13, <3>1, <3>2 DEF Goto, Loop, Places
    <3>3. CASE Goto(c, "playback") /\ NextCommand(c)
      BY <1>1, <1>13, <1>16, <3>1, <3>3 DEF Goto, Places
    <3> QED BY <2>2, <3>2, <3>3
  <2> QED BY <1>17, <2>1, <2>2 DEF FrameReturn
<1>18. CASE PassOver(c)
  <2>1. /\ NextCommand(c) /\ call[c] = "none" /\ place[c] = "playback"
        /\ UNCHANGED <<slot, call, rdDat, place, errCnt>>
    BY <1>18 DEF PassOver, InPlayback
  <2> QED BY <1>1, <1>4, <1>7, <1>16, <2>1 DEF Places
<1>19. CASE AccessReturn(c)
  <2>1. /\ InPlayback(c) /\ Return(c) /\ UNCHANGED errCnt /\ place[c] = "playback"
        /\ cmdSeq[c][c1[c]].op = "RDSPIN" => timeOut[c] > 0
    <3>1. InPlayback(c) /\ Return(c) /\ UNCHANGED errCnt
      BY <1>19 DEF AccessReturn
    <3>2. call[c] # "none" /\ place[c] = "playback"
      BY <3>1 DEF Return, InPlayback
    <3> QED BY <1>1, <3>1, <3>2 DEF CallPart, Due
  <2>2. CASE NextCommand(c) /\ UNCHANGED place
    BY <1>1, <1>7, <1>13, <1>16, <2>1, <2>2 DEF Places
  <2>3. CASE Goto(c, "complain") /\ Loop(c)
    BY <1>1, <1>13, <2>1, <2>3 DEF Goto, Loop, Places
  <2>4. CASE /\ cmdSeq[c][c1[c]].op = "RDSPIN"
             /\ timeOut' = [timeOut EXCEPT ![c] = @ - 1] /\ UNCHANGED c1
             /\ IF timeOut'[c] = 0 THEN Goto(c, "complain") ELSE UNCHANGED place
    <3>1. timeOut[c] - 1 \in Nat
      BY <1>1, <2>1, <2>4
    <3>2. timeOut' \in [Cores -> Nat] /\ \A d \in Cores \ {c} : timeOut'[d] = timeOut[d]
      BY <1>1, <2>4, <3>1
    <3>3. \E label \in {"complain", "playback"} : place' = [place EXCEPT ![c] = label]
      BY <1>7, <2>1, <2>4 DEF Goto
    <3> QED BY <1>1, <1>13, <2>1, <2>4, <3>2, <3>3 DEF Places
  <2> QED BY <1>19, <2>2, <2>3, <2>4 DEF AccessReturn
<1>20. CASE EndPlayback(c)
  <2>1. /\ place[c] = "playback" /\ place' = [place EXCEPT ![c] = "report"] /\ ~InPlayback(c)
        /\ UNCHANGED <<slot, call, rdDat, c1, timeOut, errCnt>>
    BY <1>20 DEF EndPlayback, Goto, moduleVars, InPlayback
  <2>2. call[c] = "none"
    BY <1>1, <2>1 DEF CallPart
  <2> QED BY <1>1, <1>4, <2>1, <2>2 DEF Places
<1>21. CASE SetError(c)
  <2>1. /\ place[c] = "setError" /\ place' = [place EXCEPT ![c] = "threadDone"]
        /\ UNCHANGED <<call, rdDat, moduleVars>>
        /\ slot' = [slot EXCEPT ![c] = [slot[c] EXCEPT !.errCnt = slot[c].errCnt + errCnt[c]]]
    BY <1>21 DEF SetError, Goto
  <2>2. slot[c].errCnt + errCnt[c] \in Nat
    BY <1>1 DEF SlotType
  <2> DEFINE s == [slot[c] EXCEPT !.errCnt = slot[c].errCnt + errCnt[c]]
  <2>3. s \in SlotType
    BY <1>1, <2>2, SlotFields
  <2>4. s.valid = slot[c].valid /\ s.threadDone = slot[c].threadDone /\ s.status = slot[c].status
    BY <1>1 DEF SlotType
  <2> HIDE DEF s
  <2>5. slot' = [slot EXCEPT ![c] = s]
    BY <2>1 DEF s
  <2> QED BY <1>5, <1>6, <2>1, <2>3, <2>4, <2>5 DEF Places
<1>22. CASE SetThreadDone(c)
  <2>1. /\ place[c] = "threadDone" /\ place' = [place EXCEPT ![c] = "inactive"]
        /\ UNCHANGED <<call, rdDat, moduleVars>>
        /\ slot' = [slot EXCEPT ![c] = [slot[c] EXCEPT !.threadDone = TRUE]]
    BY <1>22 DEF SetThreadDone, Goto
  <2>2. /\ [slot[c] EXCEPT !.threadDone = TRUE] \in SlotType
        /\ [slot[c] EXCEPT !.threadDone = TRUE].valid = slot[c].valid
    BY <1>1, SlotFields DEF SlotType
  <2> QED BY <1>5, <1>6, <2>1, <2>2 DEF Places
<1>23. CASE SetInactive(c)
  <2>1. /\ place[c] = "inactive" /\ place' = [place EXCEPT ![c] = "ended"]
        /\ UNCHANGED <<call, rdDat, moduleVars>>
        /\ slot' = [slot EXCEPT ![c] = [slot[c] EXCEPT !.status = "inactive"]]
    BY <1>23 DEF SetInactive, SetStatus, Goto
  <2>2. [slot[c] EXCEPT !.status = "inactive"] \in SlotType
    BY <1>1, SlotFields DEF Statuses
  <2>3. [slot[c] EXCEPT !.status = "inactive"].valid = slot[c].valid
    BY <1>1 DEF SlotType
  <2> QED BY <1>5, <1>6, <2>1, <2>2, <2>3 DEF Places
<1> QED BY <1>8, <1>9, <1>10, <1>12, <1>14, <1>15, <1>17, <1>18, <1>19, <1>20, <1>21, <1>22, <1>23
        DEF ThreadRuns, ThreadStep

------------------------------------------------------------------------------
\* A step of the main program leaves the calls of the threads as they are.
LEMMA MainFrame ==
  ASSUME CosimInv, UNCHANGED <<moduleVars, simVars>>, IpcTypeOK',
         place' \in [Callers -> Places \cup MainPlaces],
         \A c \in Cores :
           /\ place'[c] = place[c] \/ (place[c] = "unborn" /\ place'[c] = "born" /\ c \in active')
           /\ call'[c] = call[c] /\ (slot'[c].valid <=> slot[c].valid)
           /\ call[c] # "none" => slot'[c].cmd = slot[c].cmd
           /\ SlotsReady' /\ (slot'[c].threadDone \/ slot'[c].status = "inactive") =>
                SlotsReady /\ (slot[c].threadDone \/ slot[c].status = "inactive")
           /\ c \in active => c \in active' \/ place[c] \in {"inactive", "ended"},
         next' \in 0 .. NumCores, active' \subseteq Cores, allDone' \in BOOLEAN, mErrCnt' \in Nat,
         slot'[System].valid => call'[System] = "waiting",
         slot[System].valid => slot'[System].valid,
         StartInv', MainCallInv', EndInv'
  PROVE  CosimInv'
<1> USE CallerTypes
<1>1. /\ UNCHANGED <<cmdSeq, c1, timeOut, errCnt, driver, inProgress, clocks, control, device,
                     time2Shutdown, finished>>
  BY DEF moduleVars, simVars
<1>2. CTypeOK' /\ SimTypeOK'
  BY <1>1 DEF CosimInv, CTypeOK, SimTypeOK
<1>3. CoreCallInv'
  <2> SUFFICES ASSUME NEW d \in Cores, call'[d] # "none"
               PROVE  /\ place'[d] \in {"calibrate", "complain", "report", "playback"}
                      /\ place'[d] = "playback" => InPlayback(d)' /\ Due(d)'
                      /\ slot'[d].cmd \in Commands /\ slot'[d].cmd.op # "shutdown"
    BY DEF CoreCallInv
  <2>1. /\ place[d] \in {"calibrate", "complain", "report", "playback"}
        /\ place[d] = "playback" => InPlayback(d) /\ Due(d)
        /\ slot[d].cmd \in Commands /\ slot[d].cmd.op # "shutdown"
    BY DEF CosimInv, CoreCallInv
  <2>2. place'[d] = place[d] /\ slot'[d].cmd = slot[d].cmd
    BY <2>1
  <2> QED BY <1>1, <2>1, <2>2 DEF InPlayback, Due
<1>4. MailInv'
  BY <1>1 DEF CosimInv, MailInv
<1>5. DoneInv'
  BY DEF CosimInv, DoneInv
<1>6. ActiveInv' /\ NoneLeftBehind'
  BY <1>1 DEF CosimInv, ActiveInv, NoneLeftBehind
<1> QED BY <1>2, <1>3, <1>4, <1>5, <1>6 DEF CosimInv

LEMMA MainInv ==
  ASSUME CosimInv, MainRuns
  PROVE  CosimInv'
<1> USE CallerTypes
<1>1. /\ IpcTypeOK /\ slot \in [Callers -> SlotType] /\ keyFile \in BOOLEAN
      /\ call \in [Callers -> {"none", "posted", "waiting"}] /\ rdDat \in [Callers -> Values]
      /\ place \in [Callers -> Places \cup MainPlaces] /\ Main \in MainPlaces
      /\ next \in 0 .. NumCores /\ active \subseteq Cores /\ allDone \in BOOLEAN /\ mErrCnt \in Nat
      /\ StartInv /\ MainCallInv /\ EndInv /\ MailInv /\ ActiveInv /\ DoneInv
  BY DEF CosimInv, IpcTypeOK, CTypeOK, StartInv
<1>2. UNCHANGED <<moduleVars, simVars, driver, time2Shutdown, finished, control>>
  BY DEF MainRuns, simVars
<1>3. ASSUME NEW label \in MainPlaces, Goto(System, label)
      PROVE  /\ place' \in [Callers -> Places \cup MainPlaces] /\ Main' = label
             /\ \A c \in Cores : place'[c] = place[c]
  BY <1>1, <1>3 DEF Goto, Main
<1>4. SlotsReady <=> Main \notin {"setTheKey", "initSlots"}
  BY DEF SlotsReady
\* Steps that touch no slot: the main program's control only.
<1>5. ASSUME NEW label \in MainPlaces, place' \in [Callers -> Places \cup MainPlaces],
             Main' = label, \A c \in Cores : place'[c] = place[c], UNCHANGED <<slot, call, rdDat>>,
             keyFile' \in BOOLEAN, label \notin {"setTheKey", "initSlots"} => SlotsReady,
             next' \in 0 .. NumCores, active' \subseteq Cores, allDone' \in BOOLEAN, mErrCnt' \in Nat,
             \A c \in Cores : c \in active => c \in active' \/ place[c] \in {"inactive", "ended"},
             StartInv', MainCallInv', EndInv'
      PROVE  CosimInv'
  <2>1. IpcTypeOK'
    BY <1>1, <1>5 DEF IpcTypeOK
  <2>2. SlotsReady' => SlotsReady
    BY <1>5 DEF SlotsReady
  <2> QED BY <1>1, <1>2, <1>5, <2>1, <2>2, MainFrame DEF MailInv
<1>6. CASE SetTheKey
  <2>1. /\ Main = "setTheKey" /\ keyFile' = TRUE /\ UNCHANGED <<slot, call, rdDat, next, active, allDone, mErrCnt>>
        /\ Main' = "initSlots" /\ place' \in [Callers -> Places \cup MainPlaces]
        /\ \A c \in Cores : place'[c] = place[c]
    BY <1>3, <1>6 DEF SetTheKey, mainVars, MainPlaces
  <2>2. StartInv' /\ MainCallInv' /\ EndInv'
    BY <1>1, <1>2, <2>1 DEF StartInv, MainCallInv, EndInv, SlotsReady, Forked, MainPlaces
  <2> QED BY <1>1, <1>5, <2>1, <2>2 DEF MainPlaces
<1>7. CASE SeeAlive
  <2>1. /\ Main = "watch" /\ UNCHANGED <<keyFile, slot, call, rdDat, next, active, allDone, mErrCnt>>
        /\ Main' = "setActive" /\ place' \in [Callers -> Places \cup MainPlaces]
        /\ \A c \in Cores : place'[c] = place[c]
    BY <1>3, <1>7 DEF SeeAlive, mainVars, ipcVars, MainPlaces
  <2>2. StartInv' /\ MainCallInv' /\ EndInv'
    BY <1>1, <1>2, <2>1 DEF StartInv, MainCallInv, EndInv, SlotsReady, Forked, MainPlaces
  <2> QED BY <1>1, <1>4, <1>5, <2>1, <2>2 DEF MainPlaces
<1>8. CASE Look
  <2>1. /\ Main = "scan" /\ next \in Cores /\ next' = next + 1
        /\ UNCHANGED <<keyFile, slot, call, rdDat, place>>
        /\ \/ next \notin active /\ UNCHANGED <<active, allDone, mErrCnt>>
           \/ /\ next \in active /\ slot[next].threadDone
              /\ active' = active \ {next}
              /\ mErrCnt' = mErrCnt + slot[next].errCnt /\ UNCHANGED allDone
           \/ /\ next \in active /\ ~slot[next].threadDone
              /\ allDone' = FALSE /\ UNCHANGED <<active, mErrCnt>>
    BY <1>8 DEF Look, ipcVars
  <2>2. Main' = "scan" /\ next' \in 0 .. NumCores
    BY <2>1 DEF Main, Cores
  <2>3. slot[next].errCnt \in Nat
    BY <1>1, <2>1 DEF SlotType
  <2>4. active' \subseteq active /\ mErrCnt' \in Nat
    BY <1>1, <2>1, <2>3
  <2>9. allDone' \in BOOLEAN
    BY <1>1, <2>1
  <2>5. ASSUME NEW c \in Cores, c \in active, c \notin active' PROVE place[c] \in {"inactive", "ended"}
    BY <1>1, <1>4, <2>1, <2>5 DEF DoneInv
  <2>6. StartInv' /\ MainCallInv'
    BY <1>1, <1>2, <2>1, <2>2 DEF StartInv, MainCallInv, SlotsReady, Forked
  <2>7. allDone' => \A c \in Cores : c < next' => c \notin active'
    <3> SUFFICES ASSUME allDone', NEW c \in Cores, c < next' PROVE c \notin active'
      OBVIOUS
    <3>1. c < next \/ c = next
      BY <2>1 DEF Cores
    <3>2. allDone /\ (c < next => c \notin active)
      BY <1>1, <2>1 DEF EndInv
    <3> QED BY <2>1, <3>1, <3>2
  <2>8. EndInv'
    BY <1>1, <1>2, <2>1, <2>2, <2>7 DEF EndInv
  <2> QED BY <1>1, <1>4, <1>5, <2>1, <2>2, <2>4, <2>5, <2>6, <2>8, <2>9
<1>9. CASE EndScan
  <2>1. /\ Main = "scan" /\ next \notin Cores /\ next' = 0
        /\ UNCHANGED <<keyFile, slot, call, rdDat, active, mErrCnt>>
        /\ \/ allDone /\ Goto(System, "result") /\ UNCHANGED allDone
           \/ ~allDone /\ allDone' = TRUE /\ UNCHANGED place
    BY <1>9 DEF EndScan, ipcVars
  <2>2. PICK label \in {"scan", "result"} :
          /\ place' \in [Callers -> Places \cup MainPlaces] /\ Main' = label
          /\ \A c \in Cores : place'[c] = place[c]
          /\ label = "result" => allDone
    BY <1>1, <1>3, <2>1 DEF Main, MainPlaces
  <2>3. label = "result" => active' = {}
    <3>1. \A c \in Cores : c < next
      BY <1>1, <2>1 DEF Cores
    <3> QED BY <1>1, <2>1, <2>2, <3>1 DEF EndInv
  <2>4. StartInv' /\ MainCallInv'
    BY <1>1, <1>2, <2>1, <2>2 DEF StartInv, MainCallInv, SlotsReady, Forked, MainPlaces
  <2>5. \A c \in Cores : ~(c < next')
    BY <2>1 DEF Cores
  <2>6. EndInv'
    BY <1>1, <1>2, <2>1, <2>2, <2>3, <2>5 DEF EndInv
  <2>7. allDone' \in BOOLEAN
    BY <1>1, <2>1
  <2>10. next' \in 0 .. NumCores
    BY <2>1
  <2>8. SlotsReady /\ label \in MainPlaces
    BY <1>4, <2>1 DEF MainPlaces
  <2>9. /\ keyFile' \in BOOLEAN /\ UNCHANGED <<slot, call, rdDat>>
        /\ active' \subseteq Cores /\ mErrCnt' \in Nat /\ active' = active
    BY <1>1, <2>1
  <2> QED BY <1>5, <2>2, <2>4, <2>6, <2>7, <2>8, <2>9, <2>10
<1>10. CASE InitSlots
  <2>1. /\ Main = "initSlots" /\ slot' = [c \in Callers |-> InitMe]
        /\ UNCHANGED <<keyFile, call, rdDat, next, active, allDone, mErrCnt>>
        /\ Main' = "fork" /\ place' \in [Callers -> Places \cup MainPlaces]
        /\ \A c \in Cores : place'[c] = place[c]
    BY <1>3, <1>10 DEF InitSlots, mainVars, MainPlaces
  <2>2. /\ ~InitMe.valid /\ ~InitMe.threadDone /\ InitMe.status = "success"
    BY DEF InitMe
  <2>3. /\ \A c \in Callers : slot'[c] = InitMe /\ call[c] = "none" /\ ~slot[c].valid
        /\ next = 0 /\ active = {}
    BY <1>1, <2>1 DEF StartInv, SlotsReady, MailInv
  <2>4. IpcTypeOK'
    BY <1>1, <2>1, InitSlotTypes DEF IpcTypeOK
  <2>5. 0 \in Cores /\ 0 .. next - 1 = {}
    BY <2>3 DEF Cores
  <2>6. StartInv'
    BY <1>1, <1>2, <2>1, <2>3, <2>5 DEF StartInv, SlotsReady, Forked, MainPlaces
  <2>7. MainCallInv' /\ EndInv'
    BY <1>1, <1>2, <2>1, <2>2, <2>3 DEF MainCallInv, EndInv
  <2>8. \A c \in Cores :
          /\ place'[c] = place[c] /\ call'[c] = call[c] /\ (slot'[c].valid <=> slot[c].valid)
          /\ call[c] = "none" /\ ~slot'[c].threadDone /\ slot'[c].status # "inactive"
          /\ c \notin active
    BY <2>1, <2>2, <2>3
  <2>9. ~slot'[System].valid /\ ~slot[System].valid
    BY <2>2, <2>3
  <2>10. next' \in 0 .. NumCores /\ active' \subseteq Cores /\ mErrCnt' \in Nat
    BY <1>1, <2>1
  <2>11. allDone' \in BOOLEAN
    BY <1>1, <2>1
  <2> QED BY <1>2, <2>1, <2>4, <2>6, <2>7, <2>8, <2>9, <2>10, <2>11, MainFrame
<1>11. CASE Fork
  <2>1. /\ Main = "fork" /\ place' = [place EXCEPT ![next] = "born", ![System] = "watch"]
        /\ active' = active \cup {next} /\ UNCHANGED <<keyFile, slot, call, rdDat, next, allDone, mErrCnt>>
    BY <1>11 DEF Fork, ipcVars
  <2>2. next \in Cores /\ place[next] = "unborn" /\ SlotsReady
    <3>1. next \in Cores /\ next \notin 0 .. next - 1
      BY <1>1, <2>1 DEF StartInv, Cores
    <3> QED BY <1>1, <1>4, <2>1, <3>1 DEF StartInv, Forked
  <2>3. /\ place' \in [Callers -> Places \cup MainPlaces] /\ Main' = "watch" /\ place'[next] = "born"
        /\ \A c \in Cores \ {next} : place'[c] = place[c]
    BY <1>1, <2>1, <2>2 DEF Main, Places, MainPlaces
  <2>4. IpcTypeOK'
    BY <1>1, <2>1 DEF IpcTypeOK
  <2>5. StartInv'
    <3>1. Forked = 0 .. next - 1 /\ Forked' = 0 .. next
      BY <2>1, <2>3 DEF Forked
    <3>2. \A c \in Cores : c \in 0 .. next <=> (c \in 0 .. next - 1 \/ c = next)
      BY <2>2 DEF Cores
    <3>3. \A c \in Cores : place'[c] \in Places /\ (place'[c] = "unborn" <=> c \notin Forked')
      BY <1>1, <2>3, <3>1, <3>2 DEF StartInv, Places
    <3> QED BY <1>1, <1>2, <2>1, <2>2, <2>3, <3>3 DEF StartInv, SlotsReady, MainPlaces
  <2>6. MainCallInv' /\ EndInv'
    BY <1>1, <1>2, <2>1, <2>3 DEF MainCallInv, EndInv
  <2>7. \A c \in Cores : place'[c] = place[c] \/ (place[c] = "unborn" /\ place'[c] = "born" /\ c \in active')
    BY <2>1, <2>2, <2>3
  <2> QED BY <1>1, <1>2, <2>1, <2>2, <2>3, <2>4, <2>5, <2>6, <2>7, MainFrame DEF MailInv
<1>12. CASE SetActive
  <2>1. /\ Main = "setActive" /\ next \in Cores /\ slot[next] \in SlotType
        /\ slot' = [slot EXCEPT ![next] = [slot[next] EXCEPT !.status = "active"]]
        /\ UNCHANGED <<keyFile, call, rdDat, active, allDone, mErrCnt>>
        /\ \/ next + 1 \in Cores /\ next' = next + 1 /\ Goto(System, "fork")
           \/ next + 1 \notin Cores /\ next' = 0 /\ Goto(System, "dumpWave")
    BY <1>1, <1>12 DEF SetActive, SetStatus, StartInv
  <2>2. [slot[next] EXCEPT !.status = "active"] \in SlotType
    BY <2>1, SlotFields DEF Statuses
  <2>3. /\ slot' \in [Callers -> SlotType] /\ slot'[next] = [slot[next] EXCEPT !.status = "active"]
        /\ \A d \in Callers \ {next} : slot'[d] = slot[d]
    BY <1>1, <2>1, <2>2, SlotStore
  <2>4. /\ slot'[next].status = "active" /\ (slot'[next].valid <=> slot[next].valid)
        /\ slot'[next].cmd = slot[next].cmd /\ (slot'[next].threadDone <=> slot[next].threadDone)
    BY <2>1, <2>3 DEF SlotType
  <2>5. IpcTypeOK'
    BY <1>1, <2>1, <2>3 DEF IpcTypeOK
  <2>6. /\ place' \in [Callers -> Places \cup MainPlaces] /\ \A c \in Cores : place'[c] = place[c]
        /\ \/ next' = next + 1 /\ next' \in Cores /\ Main' = "fork"
           \/ next + 1 \notin Cores /\ next' = 0 /\ Main' = "dumpWave"
    BY <1>3, <2>1 DEF MainPlaces
  <2>7. Forked = 0 .. next /\ \A c \in Cores : c \in Forked' <=> c \in Forked
    <3>1. Forked = 0 .. next
      BY <2>1 DEF Forked
    <3>2. CASE next' = next + 1 /\ Main' = "fork"
      <4>1. Forked' = 0 .. next' - 1 /\ next' - 1 = next
        BY <2>1, <3>2 DEF Forked, Cores
      <4> QED BY <3>1, <4>1
    <3>3. CASE next + 1 \notin Cores /\ Main' = "dumpWave"
      <4>1. Forked' = Cores' /\ Cores' = Cores /\ \A c \in Cores : c \in 0 .. next
        BY <2>1, <3>3 DEF Forked, Cores
      <4> QED BY <3>1, <4>1
    <3> QED BY <2>6, <3>1, <3>2, <3>3
  <2>8. StartInv'
    BY <1>1, <1>2, <2>1, <2>6, <2>7 DEF StartInv, SlotsReady, MainPlaces
  <2>9. MainCallInv' /\ EndInv'
    BY <1>1, <1>2, <2>1, <2>3, <2>6 DEF MainCallInv, EndInv
  <2>10. next' \in 0 .. NumCores /\ SlotsReady
    BY <1>4, <2>1, <2>6 DEF Cores
  <2>11. \A c \in Callers :
           /\ (slot'[c].valid <=> slot[c].valid) /\ slot'[c].cmd = slot[c].cmd
           /\ slot'[c].threadDone <=> slot[c].threadDone
           /\ slot'[c].status = "inactive" => slot[c].status = "inactive"
    BY <2>3, <2>4
  <2>12. /\ call' = call
         /\ slot'[System].valid => call'[System] = "waiting"
         /\ active' = active /\ allDone' = allDone /\ mErrCnt' = mErrCnt
    BY <1>1, <2>1, <2>11 DEF MailInv
  <2>13. \A c \in Cores :
           /\ place'[c] = place[c] /\ call'[c] = call[c] /\ (slot'[c].valid <=> slot[c].valid)
           /\ slot'[c].cmd = slot[c].cmd
           /\ c \in active => c \in active'
           /\ slot'[c].threadDone \/ slot'[c].status = "inactive" =>
                slot[c].threadDone \/ slot[c].status = "inactive"
    BY <2>6, <2>11, <2>12
  <2>14. slot[System].valid => slot'[System].valid
    BY <2>11
  <2>15. active' \subseteq Cores /\ mErrCnt' \in Nat
    BY <1>1, <2>12
  <2>16. allDone' \in BOOLEAN
    BY <1>1, <2>12
  <2> QED BY <1>2, <2>5, <2>6, <2>8, <2>9, <2>10, <2>12, <2>13, <2>14, <2>15, <2>16, MainFrame
\* The main program's own calls.
<1>13. ASSUME slot' \in [Callers -> SlotType], call' \in [Callers -> {"none", "posted", "waiting"}],
              rdDat' \in [Callers -> Values], UNCHANGED <<keyFile, next, active, mErrCnt>>,
              \A c \in Cores : slot'[c] = slot[c] /\ call'[c] = call[c],
              Main \in {"dumpWave", "result", "shutdown"}, NEW label \in MainPlaces,
              label \in {Main, "scan", "exit"} \/ (Main = "result" /\ label = "shutdown"),
              label = "scan" <=> Main = "dumpWave" /\ label # Main, label = "exit" => Main = "shutdown",
              Goto(System, label) \/ (UNCHANGED place /\ label = Main),
              allDone' \in BOOLEAN, slot'[System].valid => call'[System] = "waiting",
              slot[System].valid => slot'[System].valid, MainCallInv',
              time2Shutdown => \/ Main = "shutdown" /\ label = "exit" /\ call'[System] = "none"
                               \/ Main = "shutdown" /\ label = "shutdown" /\ call'[System] = "waiting",
              time2Shutdown \/ finished => slot'[System] = slot[System]
       PROVE  CosimInv'
  <2>1. /\ place' \in [Callers -> Places \cup MainPlaces] /\ Main' = label
        /\ \A c \in Cores : place'[c] = place[c]
    BY <1>1, <1>3, <1>13 DEF Main
  <2>2. SlotsReady /\ SlotsReady' /\ Forked = Cores /\ Forked' = Cores
    BY <1>13, <2>1 DEF SlotsReady, Forked, Cores
  <2>3. StartInv'
    BY <1>1, <1>2, <1>13, <2>1, <2>2 DEF StartInv
  <2>4. EndInv'
    <3>1. Main' = "scan" => \A c \in Cores : ~(c < next')
      BY <1>1, <1>13, <2>1 DEF StartInv, Cores
    <3>2. Main' \in {"result", "shutdown", "exit"} => active' = {}
      BY <1>1, <1>13, <2>1 DEF EndInv
    <3> QED BY <1>1, <1>2, <1>13, <2>1, <3>1, <3>2 DEF EndInv
  <2>5. IpcTypeOK'
    BY <1>1, <1>13 DEF IpcTypeOK
  <2> QED BY <1>1, <1>2, <1>13, <2>1, <2>2, <2>3, <2>4, <2>5, MainFrame
<1>14. CASE MainCall
  <2>1. PICK command \in Commands :
          /\ Call(System, command) /\ Main \in {"dumpWave", "result", "shutdown"}
          /\ command.op = "shutdown" <=> Main = "shutdown"
    <3>1. /\ Plain("writeDvt") \in Commands /\ Plain("print") \in Commands /\ Plain("shutdown") \in Commands
          /\ Plain("writeDvt").op = "writeDvt" /\ Plain("print").op = "print"
          /\ Plain("shutdown").op = "shutdown"
      BY CommandTypes DEF Plain
    <3> QED BY <1>14, <3>1 DEF MainCall
  <2>2. /\ slot' \in [Callers -> SlotType] /\ call' \in [Callers -> {"none", "posted", "waiting"}]
        /\ \A d \in Cores : slot'[d] = slot[d] /\ call'[d] = call[d]
        /\ call[System] = "none" /\ call'[System] = "posted" /\ rdDat' = rdDat
        /\ slot'[System] = [slot[System] EXCEPT !.cmd = command, !.status = "pending"]
    BY <1>1, <2>1, CallEffect, ZenonT(60)
  <2>3. slot'[System].cmd = command /\ slot'[System].valid = slot[System].valid /\ ~slot[System].valid
    BY <1>1, <2>2 DEF SlotType, MailInv
  <2>4. UNCHANGED <<keyFile, place, next, active, allDone, mErrCnt>> /\ Main' = Main
    BY <1>14 DEF MainCall, mainVars, Main
  <2>5. ~time2Shutdown /\ ~finished
    BY <1>1, <2>1, <2>2 DEF EndInv
  <2>6. MainCallInv'
    BY <2>1, <2>3, <2>4 DEF MainCallInv
  <2> QED BY <1>1, <1>13, <2>1, <2>2, <2>3, <2>4, <2>5, <2>6
<1>15. CASE MainRaise
  <2>1. /\ slot' \in [Callers -> SlotType] /\ call' \in [Callers -> {"none", "posted", "waiting"}]
        /\ \A d \in Cores : slot'[d] = slot[d] /\ call'[d] = call[d]
        /\ call[System] = "posted" /\ call'[System] = "waiting" /\ rdDat' = rdDat
        /\ slot'[System] = [slot[System] EXCEPT !.valid = TRUE]
    BY <1>1, <1>15, RaiseEffect DEF MainRaise
  <2>2. slot'[System].cmd = slot[System].cmd /\ slot'[System].valid
    BY <1>1, <2>1 DEF SlotType
  <2>3. UNCHANGED <<keyFile, place, next, active, allDone, mErrCnt>> /\ Main' = Main
    BY <1>15 DEF MainRaise, mainVars, Main
  <2>4. ~time2Shutdown /\ ~finished
    BY <1>1, <2>1 DEF EndInv
  <2>5. MainCallInv' /\ Main \in {"dumpWave", "result", "shutdown"}
    BY <1>1, <2>1, <2>2, <2>3 DEF MainCallInv
  <2> QED BY <1>1, <1>13, <2>1, <2>2, <2>3, <2>4, <2>5
<1>16. CASE MainReturn
  <2>1. /\ slot' = slot /\ call' \in [Callers -> {"none", "posted", "waiting"}]
        /\ \A d \in Cores : call'[d] = call[d]
        /\ call[System] = "waiting" /\ call'[System] = "none" /\ ~slot[System].valid
        /\ rdDat' \in [Callers -> Values]
    BY <1>1, <1>16, ReturnEffect DEF MainReturn
  <2>2. /\ UNCHANGED <<keyFile, next, active, mErrCnt>> /\ allDone' \in BOOLEAN
        /\ \/ Main = "dumpWave" /\ Goto(System, "scan")
           \/ Main = "result" /\ Goto(System, "shutdown")
           \/ Main = "shutdown" /\ Goto(System, "exit")
    BY <1>1, <1>16 DEF MainReturn
  <2>3. time2Shutdown => Main = "shutdown"
    BY <1>1, <2>1 DEF EndInv
  <2>4. MainCallInv'
    BY <2>1 DEF MainCallInv
  <2> QED BY <1>1, <1>13, <2>1, <2>2, <2>3, <2>4 DEF MainPlaces
<1> QED BY <1>6, <1>7, <1>8, <1>9, <1>10, <1>11, <1>12, <1>14, <1>15, <1>16 DEF MainRuns, MainStep

------------------------------------------------------------------------------
\* A step of the simulator takes flags down and raises none, and leaves the
\* commands alone; the C side does not move.
LEMMA SimFrame ==
  ASSUME CosimInv, UNCHANGED cSide, slot' \in [Callers -> SlotType], SimTypeOK', EndInv',
         \A d \in Callers :
           /\ call[d] # "none" => slot'[d].cmd = slot[d].cmd
           /\ slot'[d].valid => slot[d].valid
           /\ driver'[d] \in {"busy", "answer"} => slot'[d].valid,
         \A c \in Cores :
           /\ slot'[c].threadDone \/ slot'[c].status = "inactive" =>
                slot[c].threadDone \/ slot[c].status = "inactive"
           /\ driver'[c] = "stopped" => driver[c] = "stopped" \/ place[c] \in {"inactive", "ended"},
         \/ driver'[System] # "off" /\ SlotsReady
         \/ \A d \in Callers : driver'[d] = driver[d]
  PROVE  CosimInv'
<1> USE CallerTypes
<1>1. /\ UNCHANGED <<keyFile, call, rdDat, place, cmdSeq, c1, timeOut, errCnt, next, active, allDone, mErrCnt>>
      /\ Main' = Main
  BY DEF cSide, moduleVars, mainVars, Main
<1>2. IpcTypeOK' /\ CTypeOK'
  BY <1>1 DEF CosimInv, IpcTypeOK, CTypeOK
<1>3. StartInv'
  <2>1. Forked' = Forked /\ SlotsReady' = SlotsReady
    BY <1>1 DEF Forked, SlotsReady
  <2>2. driver'[System] = "off" => \A d \in Callers : driver'[d] = "off"
    BY DEF CosimInv, StartInv
  <2>3. ~SlotsReady => \A d \in Callers : driver'[d] = "off"
    BY DEF CosimInv, StartInv
  <2> QED BY <1>1, <2>1, <2>2, <2>3 DEF CosimInv, StartInv
<1>4. CoreCallInv'
  BY <1>1 DEF CosimInv, CoreCallInv, InPlayback, Due
<1>5. MainCallInv'
  BY <1>1 DEF CosimInv, MainCallInv
<1>6. MailInv'
  BY <1>1 DEF CosimInv, MailInv
<1>7. DoneInv' /\ ActiveInv' /\ NoneLeftBehind'
  BY <1>1 DEF CosimInv, DoneInv, ActiveInv, NoneLeftBehind, SlotsReady
<1> QED BY <1>2, <1>3, <1>4, <1>5, <1>6, <1>7 DEF CosimInv

LEMMA EndKept ==
  ASSUME CosimInv, UNCHANGED cSide, time2Shutdown' = time2Shutdown,
         finished' => time2Shutdown, time2Shutdown => ~slot'[System].valid
  PROVE  EndInv'
<1>1. UNCHANGED <<call, place, next, active, allDone>> /\ Main' = Main
  BY DEF cSide, mainVars, Main
<1> QED BY <1>1 DEF CosimInv, EndInv

LEMMA SimInv ==
  ASSUME CosimInv, SimStep
  PROVE  CosimInv'
<1> USE CallerTypes
<1>1. /\ IpcTypeOK /\ SimTypeOK /\ slot \in [Callers -> SlotType] /\ call \in [Callers -> {"none", "posted", "waiting"}]
      /\ driver \in [Callers -> {"off", "attached", "poll", "empty", "busy", "answer", "stopped"}]
      /\ StartInv /\ CoreCallInv /\ MainCallInv /\ MailInv /\ DoneInv /\ EndInv /\ NoneLeftBehind
  BY DEF CosimInv, IpcTypeOK, SimTypeOK
<1>2. UNCHANGED cSide
  BY DEF SimStep, DriverStep, Attach, Tick, PollNothing, TakeControl, WaitTilStart, PollPrint,
         PollCommand, PollShutdown, PollEmpty, PollDone, ProcessCmd, AckCmdNdone
\* Nothing but the clocks and the control changes.
<1>3. CASE Tick
  <2>1. /\ UNCHANGED <<slot, driver, inProgress, device, time2Shutdown>>
        /\ finished' => time2Shutdown
    BY <1>1, <1>3 DEF Tick, EndInv
  <2>2. time2Shutdown => ~slot'[System].valid
    BY <1>1, <1>3 DEF Tick, EndInv
  <2>3. EndInv'
    BY <1>2, <2>1, <2>2, EndKept
  <2>4. clocks' \in [Callers -> 0 .. MaxClocks] /\ control' \in Callers \cup {Nobody}
    BY <1>1, <1>3 DEF Tick, SimTypeOK
  <2>5. time2Shutdown' \in BOOLEAN /\ finished' \in BOOLEAN
    BY <1>1, <1>3 DEF Tick, SimTypeOK
  <2>6. SimTypeOK'
    BY <1>1, <2>1, <2>4, <2>5 DEF SimTypeOK
  <2> QED BY <1>1, <1>2, <2>1, <2>3, <2>6, SimFrame DEF MailInv
<1>4. CASE Attach
  <2>1. /\ SlotsReady /\ UNCHANGED <<slot, inProgress, control, device, time2Shutdown, finished>>
        /\ driver' = [d \in Callers |-> IF d = System THEN "poll" ELSE "attached"]
        /\ clocks' = [d \in Callers |-> 1] /\ driver[System] = "off"
    BY <1>4 DEF Attach, SlotsInitialised, SlotsReady
  <2>2. SimTypeOK'
    <3>1. /\ driver' \in [Callers -> {"off", "attached", "poll", "empty", "busy", "answer", "stopped"}]
          /\ clocks' \in [Callers -> 0 .. MaxClocks]
      BY <2>1
    <3> QED BY <1>1, <2>1, <3>1 DEF SimTypeOK
  <2>3. EndInv'
    BY <1>1, <1>2, <2>1, EndKept DEF EndInv
  <2> QED BY <1>1, <1>2, <2>1, <2>2, <2>3, SimFrame
\* A driver's own step: what it does to its slot, and where it goes.
<1>5. ASSUME NEW d \in Callers, driver[d] # "off", NEW s \in SlotType, slot' = [slot EXCEPT ![d] = s],
             NEW label \in {"attached", "poll", "empty", "busy", "answer", "stopped"},
             driver' = [driver EXCEPT ![d] = label],
             call[d] # "none" => s.cmd = slot[d].cmd, s.valid => slot[d].valid,
             label \in {"busy", "answer"} => s.valid,
             d \in Cores => (s.threadDone \/ s.status = "inactive" =>
                               slot[d].threadDone \/ slot[d].status = "inactive"),
             d \in Cores => (label = "stopped" => driver[d] = "stopped" \/ place[d] \in {"inactive", "ended"}),
             inProgress' \in [Callers -> BOOLEAN], clocks' \in [Callers -> 0 .. MaxClocks],
             control' \in Callers \cup {Nobody}, device' \in [Callers -> Values],
             time2Shutdown' \in BOOLEAN, finished' = finished, EndInv'
      PROVE  CosimInv'
  <2>1. /\ slot' \in [Callers -> SlotType] /\ slot'[d] = s
        /\ \A e \in Callers \ {d} : slot'[e] = slot[e]
    BY <1>1, <1>5, SlotStore
  <2>2. /\ driver' \in [Callers -> {"off", "attached", "poll", "empty", "busy", "answer", "stopped"}]
        /\ driver'[d] = label /\ \A e \in Callers \ {d} : driver'[e] = driver[e]
    BY <1>1, <1>5
  <2>3. SimTypeOK'
    BY <1>1, <1>5, <2>2 DEF SimTypeOK
  <2>4. driver'[System] # "off" /\ SlotsReady
    BY <1>1, <1>5, <2>2 DEF StartInv
  <2>5. \A e \in Callers :
          /\ call[e] # "none" => slot'[e].cmd = slot[e].cmd
          /\ slot'[e].valid => slot[e].valid
          /\ driver'[e] \in {"busy", "answer"} => slot'[e].valid
    BY <1>1, <1>5, <2>1, <2>2 DEF MailInv
  <2>6. \A c \in Cores :
          /\ slot'[c].threadDone \/ slot'[c].status = "inactive" =>
               slot[c].threadDone \/ slot[c].status = "inactive"
          /\ driver'[c] = "stopped" => driver[c] = "stopped" \/ place[c] \in {"inactive", "ended"}
    BY <1>5, <2>1, <2>2
  <2>7. EndInv'
    BY <1>5
  <2> QED BY <1>2, <2>1, <2>3, <2>4, <2>5, <2>6, <2>7, SimFrame
<1>6. time2Shutdown => ~slot[System].valid \/ (driver[System] = "answer" /\ control = System)
  BY <1>1 DEF EndInv
<1>7. finished => time2Shutdown
  BY <1>1 DEF EndInv
\* The same of a driver that does not touch its slot.
<1>8. ASSUME NEW d \in Callers, driver[d] # "off", UNCHANGED <<slot, device, time2Shutdown, finished>>,
             NEW label \in {"attached", "poll", "empty", "busy", "answer", "stopped"},
             driver' = [driver EXCEPT ![d] = label],
             label \in {"busy", "answer"} => slot[d].valid,
             d \in Cores => (label = "stopped" => driver[d] = "stopped" \/ place[d] \in {"inactive", "ended"}),
             inProgress' \in [Callers -> BOOLEAN], clocks' \in [Callers -> 0 .. MaxClocks],
             control' \in Callers \cup {Nobody},
             control = Nobody \/ (control = d /\ driver[d] # "answer")
      PROVE  CosimInv'
  <2>1. slot[d] \in SlotType /\ slot' = [slot EXCEPT ![d] = slot[d]]
    BY <1>1, <1>8
  <2>2. time2Shutdown => ~slot'[System].valid
    BY <1>6, <1>8
  <2>3. EndInv'
    BY <1>2, <1>7, <1>8, <2>2, EndKept
  <2>4. device' \in [Callers -> Values] /\ finished' = finished
    BY <1>1, <1>8 DEF SimTypeOK
  <2>5. time2Shutdown' \in BOOLEAN
    BY <1>1, <1>8 DEF SimTypeOK
  <2> QED BY <1>5, <1>8, <2>1, <2>3, <2>4, <2>5
<1>9. ASSUME NEW d \in Callers, TakeControl(d) \/ WaitTilStart(d) PROVE CosimInv'
  <2>1. /\ driver[d] \in {"attached", "poll", "empty", "busy", "answer", "stopped"}
        /\ UNCHANGED <<slot, inProgress, device, time2Shutdown, finished>>
        /\ control = Nobody \/ (control = d /\ driver[d] = "attached")
        /\ driver' = [driver EXCEPT ![d] = driver[d]] \/ driver' = [driver EXCEPT ![d] = "poll"]
    BY <1>1, <1>9 DEF TakeControl, Ready, WaitTilStart, Become
  <2>2. clocks' \in [Callers -> 0 .. MaxClocks] /\ control' \in Callers \cup {Nobody}
    BY <1>1, <1>9 DEF TakeControl, WaitTilStart, Wait, SimTypeOK
  <2>3. inProgress' \in [Callers -> BOOLEAN] /\ (driver[d] \in {"busy", "answer"} => slot[d].valid)
    BY <1>1, <2>1 DEF SimTypeOK, MailInv
  <2>4. PICK label \in {"attached", "poll", "empty", "busy", "answer", "stopped"} :
          /\ driver' = [driver EXCEPT ![d] = label]
          /\ label = driver[d] \/ label = "poll"
    BY <2>1
  <2>5. label = "stopped" => driver[d] = "stopped"
    BY <2>4
  <2>6. label \in {"busy", "answer"} => slot[d].valid
    BY <2>3, <2>4
  <2>7. control = Nobody \/ (control = d /\ driver[d] # "answer")
    BY <2>1
  <2>8. driver[d] # "off" /\ UNCHANGED <<slot, device, time2Shutdown, finished>>
    BY <2>1
  <2> QED BY <1>8, <2>2, <2>3, <2>4, <2>5, <2>6, <2>7, <2>8
<1>10. ASSUME NEW d \in Callers, PollCommand(d) PROVE CosimInv'
  <2>1. /\ driver[d] = "poll" /\ control = d /\ slot[d].valid
        /\ UNCHANGED <<slot, device, time2Shutdown, finished>>
        /\ driver' = [driver EXCEPT ![d] = "busy"]
    BY <1>10 DEF PollCommand, Polls, Become
  <2>2. clocks' \in [Callers -> 0 .. MaxClocks] /\ control' \in Callers \cup {Nobody}
    BY <1>1, <1>10 DEF PollCommand, Wait, SimTypeOK
  <2>3. inProgress' \in [Callers -> BOOLEAN]
    BY <1>1, <1>10 DEF PollCommand, SimTypeOK
  <2> QED BY <1>8, <2>1, <2>2, <2>3
<1>11. ASSUME NEW d \in Callers, PollDone(d) PROVE CosimInv'
  <2>1. /\ driver[d] = "empty" /\ control = d /\ IsDone(d) /\ control' = Nobody
        /\ UNCHANGED <<slot, clocks, device, time2Shutdown, finished>>
        /\ driver' = [driver EXCEPT ![d] = "stopped"]
    BY <1>11 DEF PollDone, FoundEmpty, Become
  <2>2. clocks' \in [Callers -> 0 .. MaxClocks] /\ inProgress' \in [Callers -> BOOLEAN]
    BY <1>1, <1>11 DEF PollDone, SimTypeOK
  <2>3. SlotsReady
    BY <1>1, <2>1 DEF StartInv
  <2>4. d \in Cores => place[d] \in {"inactive", "ended"}
    BY <1>1, <2>1, <2>3 DEF DoneInv, IsDone
  <2> QED BY <1>8, <2>1, <2>2, <2>4
\* The two halves of a poll that finds nothing.
<1>16. ASSUME NEW d \in Callers, PollEmpty(d) \/ PollNothing(d) PROVE CosimInv'
  <2>1. /\ driver[d] \in {"poll", "empty"} /\ control = d
        /\ UNCHANGED <<slot, inProgress, device, time2Shutdown, finished>>
    BY <1>16 DEF PollEmpty, PollNothing, Polls, FoundEmpty
  <2>2. PICK label \in {"poll", "empty"} : driver' = [driver EXCEPT ![d] = label]
    BY <1>16 DEF PollEmpty, PollNothing, Become
  <2>3. clocks' \in [Callers -> 0 .. MaxClocks] /\ control' \in Callers \cup {Nobody}
    BY <1>1, <1>16, ClocksAssumption DEF PollEmpty, PollNothing, Wait, SimTypeOK
  <2>4. inProgress' \in [Callers -> BOOLEAN]
    BY <1>1, <2>1 DEF SimTypeOK
  <2>5. label \in {"attached", "poll", "empty", "busy", "answer", "stopped"}
        /\ label \notin {"busy", "answer", "stopped"}
    BY <2>2
  <2> QED BY <1>8, <2>1, <2>2, <2>3, <2>4, <2>5
\* The steps that store in the slot.
<1>12. ASSUME NEW d \in Callers, PollPrint(d) PROVE CosimInv'
  <2> DEFINE s == [slot[d] EXCEPT !.status = "success", !.valid = FALSE]
  <2>1. /\ driver[d] = "poll" /\ control = d /\ slot' = [slot EXCEPT ![d] = s]
        /\ UNCHANGED <<driver, inProgress, clocks, control, device, time2Shutdown, finished>>
    BY <1>12 DEF PollPrint, Polls, simVars
  <2>2. slot[d] \in SlotType
    BY <1>1
  <2>3. s \in SlotType
    BY <2>2 DEF SlotType, Statuses
  <2>4. s.cmd = slot[d].cmd /\ ~s.valid /\ s.status = "success" /\ (s.threadDone <=> slot[d].threadDone)
    BY <2>2 DEF SlotType
  <2> HIDE DEF s
  <2>5. slot' = [slot EXCEPT ![d] = s] /\ slot'[d] = s /\ \A e \in Callers \ {d} : slot'[e] = slot[e]
    BY <1>1, <2>1, <2>3, SlotStore
  <2>6. time2Shutdown => ~slot'[System].valid
    BY <1>6, <2>1, <2>4, <2>5
  <2>7. EndInv'
    BY <1>2, <1>7, <2>1, <2>6, EndKept
  <2>8. driver' = [driver EXCEPT ![d] = "poll"] /\ UNCHANGED <<inProgress, clocks, control, device, finished>>
    BY <1>1, <2>1
  <2>9. time2Shutdown' \in BOOLEAN /\ inProgress' \in [Callers -> BOOLEAN]
    BY <1>1, <2>1 DEF SimTypeOK
  <2>10. clocks' \in [Callers -> 0 .. MaxClocks] /\ control' \in Callers \cup {Nobody} /\ device' \in [Callers -> Values]
    BY <1>1, <2>1 DEF SimTypeOK
  <2> QED BY <1>5, <2>1, <2>3, <2>4, <2>5, <2>7, <2>8, <2>9, <2>10
<1>13. ASSUME NEW d \in Callers, AckCmdNdone(d) PROVE CosimInv'
  <2> DEFINE s == [slot[d] EXCEPT !.status = "success", !.valid = FALSE]
  <2>1. /\ driver[d] = "answer" /\ control = d /\ slot' = [slot EXCEPT ![d] = s]
        /\ UNCHANGED <<inProgress, clocks, control, device, time2Shutdown, finished>>
        /\ driver' = [driver EXCEPT ![d] = "poll"]
    BY <1>13 DEF AckCmdNdone, Become
  <2>2. slot[d] \in SlotType
    BY <1>1
  <2>3. s \in SlotType
    BY <2>2 DEF SlotType, Statuses
  <2>4. s.cmd = slot[d].cmd /\ ~s.valid /\ s.status = "success" /\ (s.threadDone <=> slot[d].threadDone)
    BY <2>2 DEF SlotType
  <2> HIDE DEF s
  <2>5. slot' = [slot EXCEPT ![d] = s] /\ slot'[d] = s /\ \A e \in Callers \ {d} : slot'[e] = slot[e]
    BY <1>1, <2>1, <2>3, SlotStore
  <2>6. time2Shutdown => ~slot'[System].valid
    BY <1>6, <2>1, <2>4, <2>5
  <2>7. EndInv'
    BY <1>2, <1>7, <2>1, <2>6, EndKept
  <2>9. time2Shutdown' \in BOOLEAN /\ inProgress' \in [Callers -> BOOLEAN]
    BY <1>1, <2>1 DEF SimTypeOK
  <2>10. clocks' \in [Callers -> 0 .. MaxClocks] /\ control' \in Callers \cup {Nobody} /\ device' \in [Callers -> Values]
    BY <1>1, <2>1 DEF SimTypeOK
  <2> QED BY <1>5, <2>1, <2>3, <2>4, <2>5, <2>7, <2>9, <2>10
<1>14. ASSUME NEW d \in Callers, PollShutdown(d) PROVE CosimInv'
  <2> DEFINE s == [slot[d] EXCEPT !.threadDone = TRUE, !.status = "inactive"]
  <2>1. /\ driver[d] = "poll" /\ control = d /\ slot' = [slot EXCEPT ![d] = s]
        /\ slot[d].valid /\ slot[d].cmd.op = "shutdown" /\ driver' = [driver EXCEPT ![d] = "busy"]
        /\ UNCHANGED <<clocks, control, device, time2Shutdown, finished>>
    BY <1>14 DEF PollShutdown, Polls, Become
  <2>2. slot[d] \in SlotType /\ inProgress' \in [Callers -> BOOLEAN]
    BY <1>1, <1>14 DEF PollShutdown, SimTypeOK
  <2>3. d = System
    BY <1>1, <2>1 DEF MailInv, CoreCallInv
  <2>4. s \in SlotType
    BY <2>2 DEF SlotType, Statuses
  <2>5. s.cmd = slot[d].cmd /\ s.valid
    BY <2>1, <2>2 DEF SlotType
  <2> HIDE DEF s
  <2>6. ~time2Shutdown
    BY <1>6, <2>1, <2>3
  <2>7. EndInv'
    BY <1>2, <1>7, <2>1, <2>6, EndKept
  <2>8. time2Shutdown' \in BOOLEAN
    BY <1>1, <2>1 DEF SimTypeOK
  <2>9. slot[d].valid /\ d \notin Cores
    BY <2>1, <2>3
  <2>10. clocks' \in [Callers -> 0 .. MaxClocks] /\ control' \in Callers \cup {Nobody} /\ device' \in [Callers -> Values]
    BY <1>1, <2>1 DEF SimTypeOK
  <2> QED BY <1>5, <2>1, <2>2, <2>4, <2>5, <2>7, <2>8, <2>9, <2>10
<1>15. ASSUME NEW d \in Callers, ProcessCmd(d) PROVE CosimInv'
  <2>1. PICK v : /\ v = (IF slot[d].cmd.op = "read" THEN device[d] ELSE slot[d].par)
                 /\ slot' = [slot EXCEPT ![d] = [slot[d] EXCEPT !.par = v]]
    BY <1>15 DEF ProcessCmd
  <2>2. /\ driver[d] = "busy" /\ control = d /\ driver' = [driver EXCEPT ![d] = "answer"]
        /\ UNCHANGED <<inProgress, clocks, control, finished>>
        /\ time2Shutdown' <=> time2Shutdown \/ slot[d].cmd.op = "shutdown"
        /\ device' = [device EXCEPT ![d] = IF slot[d].cmd.op = "write" THEN slot[d].cmd.dat ELSE @]
    BY <1>15 DEF ProcessCmd, Become
  <2> DEFINE s == [slot[d] EXCEPT !.par = v]
  <2>3. slot[d] \in SlotType /\ device[d] \in Values /\ slot[d].valid /\ call[d] = "waiting"
    BY <1>1, <2>2 DEF SimTypeOK, MailInv
  <2>4. slot[d].cmd.dat \in Values /\ v \in Values
    BY <2>1, <2>3, CommandTypes DEF SlotType
  <2>5. s \in SlotType
    BY <2>3, <2>4, SlotFields
  <2>6. s.cmd = slot[d].cmd /\ s.valid /\ s.status = slot[d].status /\ (s.threadDone <=> slot[d].threadDone)
    BY <2>3 DEF SlotType
  <2>7. slot' = [slot EXCEPT ![d] = s]
    BY <2>1
  <2> HIDE DEF s
  <2>8. d \in Cores => ~time2Shutdown' \/ ~slot'[System].valid
    <3>1. ASSUME d \in Cores PROVE slot'[System] = slot[System] /\ slot[d].cmd.op # "shutdown"
      BY <1>1, <2>3, <2>7, <3>1 DEF CoreCallInv
    <3> QED BY <1>6, <2>2, <3>1
  <2>9. d = System => (slot[d].cmd.op = "shutdown" <=> Main = "shutdown")
    BY <1>1, <2>3 DEF MainCallInv
  <2>10. d \in Cores => slot[d].cmd.op # "shutdown"
    BY <1>1, <2>3 DEF CoreCallInv
  <2>11. UNCHANGED <<call, place, next, active, allDone>> /\ Main' = Main
    BY <1>2 DEF cSide, mainVars, Main
  <2>12. finished => ~time2Shutdown \/ d \in Cores
    BY <1>6, <2>2, <2>3
  <2>13. finished' => time2Shutdown' /\ ~slot'[System].valid
    BY <1>7, <2>2, <2>8, <2>12
  <2>14. time2Shutdown' => \/ Main' = "exit" /\ call'[System] = "none"
                           \/ Main' = "shutdown" /\ call'[System] = "waiting"
    BY <1>1, <2>2, <2>3, <2>9, <2>10, <2>11 DEF EndInv
  <2>15. time2Shutdown' => \/ ~slot'[System].valid
                           \/ driver'[System] = "answer" /\ control' = System
    BY <1>1, <2>2, <2>8
  <2>16. EndInv'
    BY <1>1, <2>11, <2>13, <2>14, <2>15 DEF EndInv
  <2>17. device' \in [Callers -> Values] /\ inProgress' \in [Callers -> BOOLEAN]
    BY <1>1, <2>2, <2>4 DEF SimTypeOK
  <2>18. clocks' \in [Callers -> 0 .. MaxClocks] /\ control' \in Callers \cup {Nobody}
    BY <1>1, <2>2 DEF SimTypeOK
  <2>19. time2Shutdown' \in BOOLEAN
    BY <1>15 DEF ProcessCmd
  <2> QED BY <1>5, <2>2, <2>3, <2>5, <2>6, <2>7, <2>16, <2>17, <2>18, <2>19
<1> QED BY <1>3, <1>4, <1>9, <1>10, <1>11, <1>12, <1>13, <1>14, <1>15, <1>16 DEF SimStep, DriverStep

LEMMA CosimInvariant == Spec => []CosimInv
<1>1. CosimInv /\ [Next]_vars => CosimInv'
  <2> SUFFICES ASSUME CosimInv, [Next]_vars PROVE CosimInv'
    OBVIOUS
  <2>1. CASE UNCHANGED vars
    <3>1. UNCHANGED <<keyFile, slot, call, rdDat, place>>
      BY <2>1 DEF vars, ipcVars
    <3>2. UNCHANGED <<cmdSeq, c1, timeOut, errCnt, next, active, allDone, mErrCnt>>
      BY <2>1 DEF vars, moduleVars, mainVars
    <3>3. UNCHANGED <<driver, inProgress, clocks, control, device, time2Shutdown, finished>>
      BY <2>1 DEF vars, simVars
    <3>4. UNCHANGED cSide
      BY <3>1, <3>2 DEF cSide, moduleVars, mainVars
    <3>5. time2Shutdown' \in BOOLEAN /\ finished' \in BOOLEAN
      BY <3>3 DEF CosimInv, SimTypeOK
    <3>6. SimTypeOK'
      BY <3>3, <3>5 DEF CosimInv, SimTypeOK
    <3>7. EndInv'
      BY <3>1, <3>2, <3>3 DEF CosimInv, EndInv, Main
    <3>8. slot' \in [Callers -> SlotType]
      BY <3>1 DEF CosimInv, IpcTypeOK
    <3> QED BY <3>1, <3>3, <3>4, <3>6, <3>7, <3>8, SimFrame DEF CosimInv, MailInv
  <2>2. CASE MainRuns
    BY <2>2, MainInv
  <2>3. CASE SimStep
    BY <2>3, SimInv
  <2>4. ASSUME NEW c \in Cores, ThreadRuns(c) PROVE CosimInv'
    BY <2>4, ThreadInv
  <2> QED BY <2>1, <2>2, <2>3, <2>4 DEF Next
<1> QED BY InvInit, <1>1, PTL DEF Spec

------------------------------------------------------------------------------
\* Every variable of the co-simulation keeps its type.
THEOREM CosimTypeCorrect == Spec => []TypeOK
<1>1. CosimInv => TypeOK
  BY TypeParts DEF CosimInv
<1> QED BY <1>1, CosimInvariant, PTL

\* driver_common.incl: a driver leaves its polling loop only when its thread
\* will not call again, so that no thread waits for an answer that never comes.
THEOREM StopsLate == Spec => []NoneLeftBehind
<1>1. CosimInv => NoneLeftBehind
  BY DEF CosimInv
<1> QED BY <1>1, CosimInvariant, PTL

\* sys_common.incl: $finish comes when every thread is done and the main
\* program's last command is answered.
THEOREM FinishesLast == Spec => []FinishIsLast
<1>1. CosimInv => FinishIsLast
  <2> SUFFICES ASSUME CosimInv, finished PROVE FinishIsLast
    BY DEF FinishIsLast
  <2>1. Main \in {"shutdown", "exit"} /\ ~slot[System].valid /\ active = {}
    BY DEF CosimInv, EndInv
  <2>2. Forked = Cores
    BY <2>1 DEF Forked
  <2>3. \A c \in Cores : place[c] \in {"inactive", "ended"}
    BY <2>1, <2>2 DEF CosimInv, ActiveInv, StartInv
  <2>4. slot[System].valid \in BOOLEAN
    BY CallerTypes DEF CosimInv, IpcTypeOK, SlotType
  <2> QED BY <2>1, <2>3, <2>4 DEF FinishIsLast
<1> QED BY <1>1, CosimInvariant, PTL

------------------------------------------------------------------------------
\* What the abstract calls see of caller c.
Req(c) == IF Calling(c) THEN slot[c].cmd ELSE NoCommand
Rep(c) == IF Executed(c) /\ slot[c].cmd.op = "read" THEN slot[c].par ELSE 0
Same(c) == Req(c)' = Req(c) /\ Executed(c)' = Executed(c) /\ Rep(c)' = Rep(c)

LEMMA SameCaller ==
  ASSUME NEW c, call'[c] = call[c], slot'[c].valid = slot[c].valid, slot'[c].par = slot[c].par,
         call[c] # "none" => slot'[c].cmd = slot[c].cmd,
         driver'[c] = "answer" <=> driver[c] = "answer"
  PROVE  Same(c)
<1>1. Executed(c)' = Executed(c)
  BY DEF Executed
<1>2. Req(c)' = Req(c)
  BY DEF Req, Calling
<1>3. CASE Executed(c)
  <2>1. slot'[c].cmd = slot[c].cmd
    BY <1>3 DEF Executed
  <2> QED BY <1>1, <1>2, <2>1 DEF Same, Rep
<1>4. CASE ~Executed(c)
  BY <1>1, <1>2, <1>4 DEF Same, Rep
<1> QED BY <1>3, <1>4

LEMMA CallsStutter ==
  ASSUME \A c \in Callers : Same(c), UNCHANGED <<rdDat, device>>
  PROVE  UNCHANGED Mailbox!callVars
<1>1. [c \in Callers |-> Req(c)]' = [c \in Callers |-> Req(c)]
  BY DEF Same
<1>2. [c \in Callers |-> Executed(c)]' = [c \in Callers |-> Executed(c)]
  BY DEF Same
<1>3. [c \in Callers |-> Rep(c)]' = [c \in Callers |-> Rep(c)]
  BY DEF Same
<1> QED BY <1>1, <1>2, <1>3 DEF Mailbox!callVars, Req, Rep

\* A step that changes what is seen of one caller.
LEMMA OneCaller ==
  ASSUME NEW c \in Callers, \A d \in Callers \ {c} : Same(d)
  PROVE  /\ [d \in Callers |-> Req(d)]' = [[d \in Callers |-> Req(d)] EXCEPT ![c] = Req(c)']
         /\ [d \in Callers |-> Executed(d)]' = [[d \in Callers |-> Executed(d)] EXCEPT ![c] = Executed(c)']
         /\ [d \in Callers |-> Rep(d)]' = [[d \in Callers |-> Rep(d)] EXCEPT ![c] = Rep(c)']
BY DEF Same

\* The commands of the calls under way are commands.
LEMMA CommandsInSlots ==
  ASSUME CosimInv, NEW c \in Callers, call[c] # "none"
  PROVE  slot[c].cmd \in Commands /\ Req(c) = slot[c].cmd /\ Req(c) # NoCommand
BY CallerTypes, CommandTypes DEF CosimInv, CoreCallInv, MainCallInv, Req, Calling

LEMMA BeginsCall ==
  ASSUME CosimInv, NEW c \in Callers, NEW command \in Commands, Call(c, command),
         UNCHANGED <<driver, device>>
  PROVE  Mailbox!Next
<1>1. /\ call[c] = "none" /\ call'[c] = "posted" /\ rdDat' = rdDat
      /\ slot'[c] = [slot[c] EXCEPT !.cmd = command, !.status = "pending"]
      /\ \A d \in Callers \ {c} : slot'[d] = slot[d] /\ call'[d] = call[d]
  BY CallEffect DEF CosimInv
<1>2. slot'[c].cmd = command
  BY <1>1 DEF CosimInv, IpcTypeOK, SlotType
<1>3. \A d \in Callers \ {c} : Same(d)
  BY <1>1, SameCaller
<1>4. /\ Req(c) = NoCommand /\ Req(c)' = command
      /\ ~Executed(c) /\ ~Executed(c)' /\ Rep(c) = 0 /\ Rep(c)' = 0
  BY <1>1, <1>2 DEF Req, Rep, Calling, Executed
<1>5. Executed(c)' = Executed(c)
  BY <1>4 DEF Executed
<1>6. /\ [d \in Callers |-> Req(d)]' = [[d \in Callers |-> Req(d)] EXCEPT ![c] = command]
      /\ [d \in Callers |-> Executed(d)]' = [d \in Callers |-> Executed(d)]
      /\ [d \in Callers |-> Rep(d)]' = [d \in Callers |-> Rep(d)]
  BY <1>3, <1>4, <1>5, OneCaller DEF Same
<1>7. Mailbox!Call(c, command)
  BY <1>1, <1>4, <1>6 DEF Mailbox!Call, Req, Rep
<1> QED BY <1>7 DEF Mailbox!Next

LEMMA Returns ==
  ASSUME CosimInv, NEW c \in Callers, Return(c), UNCHANGED <<driver, device>>
  PROVE  Mailbox!Next
<1>1. /\ call[c] = "waiting" /\ call'[c] = "none" /\ ~slot[c].valid /\ slot' = slot
      /\ rdDat' = [rdDat EXCEPT ![c] = IF slot[c].cmd.op = "read" THEN slot[c].par ELSE @]
      /\ \A d \in Callers \ {c} : call'[d] = call[d]
  BY ReturnEffect DEF CosimInv
<1>2. \A d \in Callers \ {c} : Same(d)
  BY <1>1, SameCaller
<1>3. /\ Req(c) = slot[c].cmd /\ Req(c)' = NoCommand /\ Executed(c) /\ ~Executed(c)'
      /\ Rep(c)' = 0 /\ (slot[c].cmd.op = "read" => Rep(c) = slot[c].par)
  BY <1>1 DEF Req, Rep, Calling, Executed
<1>4. Executed(c)' = FALSE
  BY <1>3 DEF Executed
<1>5. /\ [d \in Callers |-> Req(d)]' = [[d \in Callers |-> Req(d)] EXCEPT ![c] = NoCommand]
      /\ [d \in Callers |-> Executed(d)]' = [[d \in Callers |-> Executed(d)] EXCEPT ![c] = FALSE]
      /\ [d \in Callers |-> Rep(d)]' = [[d \in Callers |-> Rep(d)] EXCEPT ![c] = 0]
  BY <1>2, <1>3, <1>4, OneCaller
<1>6. rdDat' = [rdDat EXCEPT ![c] = IF Req(c).op = "read" THEN Rep(c) ELSE @]
  BY <1>1, <1>3
<1>7. Mailbox!Return(c)
  BY <1>3, <1>5, <1>6 DEF Mailbox!Return, Req, Rep
<1> QED BY <1>7 DEF Mailbox!Next

\* The step at which the driver of c has done the command.
LEMMA Executes ==
  ASSUME CosimInv, NEW c \in Callers, call[c] = "waiting", ~Executed(c), Executed(c)',
         UNCHANGED <<call, rdDat>>, slot'[c].cmd = slot[c].cmd,
         slot[c].cmd.op = "read" => slot'[c].par = device[c],
         device' = [device EXCEPT ![c] = IF slot[c].cmd.op = "write" THEN slot[c].cmd.dat ELSE @],
         \A d \in Callers \ {c} : slot'[d] = slot[d] /\ driver'[d] = driver[d]
  PROVE  Mailbox!Next
<1>1. \A d \in Callers \ {c} : Same(d)
  BY SameCaller
<1>2. /\ Req(c) = slot[c].cmd /\ Req(c) # NoCommand /\ Req(c)' = Req(c)
      /\ Rep(c) = 0 /\ Rep(c)' = IF slot[c].cmd.op = "read" THEN device[c] ELSE Rep(c)
  BY CommandsInSlots DEF Req, Rep, Calling
<1>3. Executed(c)' = TRUE
  BY DEF Executed
<1>4. /\ [d \in Callers |-> Req(d)]' = [d \in Callers |-> Req(d)]
      /\ [d \in Callers |-> Executed(d)]' = [[d \in Callers |-> Executed(d)] EXCEPT ![c] = TRUE]
      /\ [d \in Callers |-> Rep(d)]' =
           [[d \in Callers |-> Rep(d)] EXCEPT ![c] = IF Req(c).op = "read" THEN device[c] ELSE @]
  BY <1>1, <1>2, <1>3, OneCaller DEF Same
<1>5. Mailbox!Execute(c)
  BY <1>2, <1>4 DEF Mailbox!Execute, Req, Rep
<1> QED BY <1>5 DEF Mailbox!Next

\* The flag goes up: the call goes on.
LEMMA RaiseStutters ==
  ASSUME CosimInv, NEW c \in Callers, Raise(c), UNCHANGED <<driver, device>>
  PROVE  UNCHANGED Mailbox!callVars
<1>1. /\ call[c] = "posted" /\ call'[c] = "waiting" /\ rdDat' = rdDat
      /\ slot'[c] = [slot[c] EXCEPT !.valid = TRUE]
      /\ \A d \in Callers \ {c} : slot'[d] = slot[d] /\ call'[d] = call[d]
  BY RaiseEffect DEF CosimInv
<1>2. slot'[c].valid /\ slot'[c].cmd = slot[c].cmd
  BY <1>1 DEF CosimInv, IpcTypeOK, SlotType
<1>3. driver[c] # "answer"
  BY <1>1 DEF CosimInv, MailInv
<1>4. Executed(c)' = Executed(c) /\ ~Executed(c)
  BY <1>1, <1>2, <1>3 DEF Executed
<1>5. Same(c)
  BY <1>1, <1>2, <1>4 DEF Same, Req, Rep, Calling
<1>6. \A d \in Callers : Same(d)
  BY <1>1, <1>5, SameCaller
<1> QED BY <1>1, <1>6, CallsStutter

LEMMA ThreadMaps ==
  ASSUME CosimInv, NEW c \in Cores, ThreadRuns(c)
  PROVE  Mailbox!Next \/ UNCHANGED Mailbox!callVars
<1> USE CallerTypes
<1>1. slot \in [Callers -> SlotType] /\ slot[c] \in SlotType
  BY DEF CosimInv, IpcTypeOK
<1>2. UNCHANGED <<driver, device>>
  BY DEF ThreadRuns, Wake, simVars
<1>3. CASE FrameCall(c)
  <2>1. Plain("runClk") \in Commands /\ Plain("print") \in Commands
    BY CommandTypes
  <2> QED BY <1>2, <1>3, <2>1, BeginsCall DEF FrameCall
<1>4. CASE Access(c)
  <2>1. /\ c1[c] \in DOMAIN cmdSeq[c] /\ cmdSeq[c] \in Captures
        /\ Call(c, IF cmdSeq[c][c1[c]].op = "WRITE" THEN Write(cmdSeq[c][c1[c]].dat) ELSE Plain("read"))
    BY <1>4 DEF Access, InPlayback, CosimInv, CTypeOK
  <2>2. cmdSeq[c][c1[c]].dat \in Values
    BY <2>1, CaptureTypes DEF CaptureCommand
  <2>3. Write(cmdSeq[c][c1[c]].dat) \in Commands /\ Plain("read") \in Commands
    BY <2>2, CommandTypes
  <2> QED BY <1>2, <2>1, <2>3, BeginsCall
<1>5. CASE FrameReturn(c) \/ AccessReturn(c)
  BY <1>2, <1>5, Returns DEF FrameReturn, AccessReturn
<1>6. CASE RaiseFlag(c)
  BY <1>2, <1>6, RaiseStutters DEF RaiseFlag
\* The other steps of a thread leave calls and commands alone.
<1>7. ASSUME UNCHANGED <<call, rdDat>>, NEW s, slot' = slot \/ slot' = [slot EXCEPT ![c] = s],
             s.cmd = slot[c].cmd, s.par = slot[c].par, s.valid = slot[c].valid
      PROVE  UNCHANGED Mailbox!callVars
  <2>1. \A d \in Callers : /\ slot'[d].cmd = slot[d].cmd /\ slot'[d].par = slot[d].par
                           /\ slot'[d].valid = slot[d].valid
    BY <1>1, <1>7
  <2>2. \A d \in Callers : Same(d)
    BY <1>2, <1>7, <2>1, SameCaller
  <2> QED BY <1>2, <1>7, <2>2, CallsStutter
<1>8. CASE NotifyAlive(c) \/ SetInactive(c)
  <2>1. PICK status : /\ slot' = [slot EXCEPT ![c] = [slot[c] EXCEPT !.status = status]]
                      /\ UNCHANGED <<call, rdDat>>
    BY <1>8 DEF NotifyAlive, SetInactive, SetStatus
  <2> DEFINE s == [slot[c] EXCEPT !.status = status]
  <2>2. s.cmd = slot[c].cmd /\ s.par = slot[c].par /\ s.valid = slot[c].valid
    BY <1>1 DEF SlotType
  <2> HIDE DEF s
  <2>3. slot' = [slot EXCEPT ![c] = s]
    BY <2>1 DEF s
  <2> QED BY <1>7, <2>1, <2>2, <2>3
<1>9. CASE SetStartFlag(c)
  <2> DEFINE s == [slot[c] EXCEPT !.startFlag = TRUE]
  <2>1. slot' = [slot EXCEPT ![c] = s] /\ UNCHANGED <<call, rdDat>>
    BY <1>9 DEF SetStartFlag
  <2>2. s.cmd = slot[c].cmd /\ s.par = slot[c].par /\ s.valid = slot[c].valid
    BY <1>1 DEF SlotType
  <2> HIDE DEF s
  <2> QED BY <1>7, <2>1, <2>2
<1>10. CASE SetThreadDone(c)
  <2> DEFINE s == [slot[c] EXCEPT !.threadDone = TRUE]
  <2>1. slot' = [slot EXCEPT ![c] = s] /\ UNCHANGED <<call, rdDat>>
    BY <1>10 DEF SetThreadDone
  <2>2. s.cmd = slot[c].cmd /\ s.par = slot[c].par /\ s.valid = slot[c].valid
    BY <1>1 DEF SlotType
  <2> HIDE DEF s
  <2> QED BY <1>7, <2>1, <2>2
<1>11. CASE SetError(c)
  <2> DEFINE s == [slot[c] EXCEPT !.errCnt = slot[c].errCnt + errCnt[c]]
  <2>1. slot' = [slot EXCEPT ![c] = s] /\ UNCHANGED <<call, rdDat>>
    BY <1>11 DEF SetError
  <2>2. s.cmd = slot[c].cmd /\ s.par = slot[c].par /\ s.valid = slot[c].valid
    BY <1>1 DEF SlotType
  <2> HIDE DEF s
  <2> QED BY <1>7, <2>1, <2>2
<1>12. CASE Wake(c) \/ PassOver(c) \/ EndPlayback(c)
  <2>1. UNCHANGED <<slot, call, rdDat>>
    BY <1>12 DEF Wake, PassOver, EndPlayback, ipcVars
  <2>2. \A d \in Callers : Same(d)
    BY <1>2, <2>1, SameCaller
  <2> QED BY <1>2, <2>1, <2>2, CallsStutter
<1> QED BY <1>3, <1>4, <1>5, <1>6, <1>8, <1>9, <1>10, <1>11, <1>12 DEF ThreadRuns, ThreadStep

LEMMA MainMaps ==
  ASSUME CosimInv, MainRuns
  PROVE  Mailbox!Next \/ UNCHANGED Mailbox!callVars
<1> USE CallerTypes
<1>1. slot \in [Callers -> SlotType] /\ System \in Callers
  BY DEF CosimInv, IpcTypeOK
<1>2. UNCHANGED <<driver, device>>
  BY DEF MainRuns, simVars
<1>3. CASE MainCall
  <2>1. Plain("writeDvt") \in Commands /\ Plain("print") \in Commands /\ Plain("shutdown") \in Commands
    BY CommandTypes
  <2> QED BY <1>1, <1>2, <1>3, <2>1, BeginsCall DEF MainCall
<1>4. CASE MainReturn
  BY <1>1, <1>2, <1>4, Returns DEF MainReturn
<1>5. CASE MainRaise
  BY <1>1, <1>2, <1>5, RaiseStutters DEF MainRaise
<1>6. CASE InitSlots
  <2>1. UNCHANGED <<call, rdDat>> /\ \A c \in Callers : call[c] = "none"
    BY <1>6 DEF InitSlots, CosimInv, StartInv, SlotsReady
  <2>2. \A c \in Callers : /\ Req(c)' = NoCommand /\ Req(c) = NoCommand
                           /\ Rep(c)' = 0 /\ Rep(c) = 0
    BY <2>1 DEF Req, Rep, Calling, Executed
  <2>3. \A c \in Callers : Executed(c)' = Executed(c)
    BY <2>1 DEF Executed
  <2> QED BY <1>2, <2>1, <2>2, <2>3, CallsStutter DEF Same
<1>7. CASE SetActive
  <2> DEFINE s == [slot[next] EXCEPT !.status = "active"]
  <2>1. /\ slot' = [slot EXCEPT ![next] = s] /\ UNCHANGED <<call, rdDat>> /\ next \in Cores
    BY <1>7 DEF SetActive, SetStatus, CosimInv, StartInv
  <2>2. s.cmd = slot[next].cmd /\ s.par = slot[next].par /\ s.valid = slot[next].valid
    BY <1>1, <2>1 DEF SlotType
  <2> HIDE DEF s
  <2>3. \A d \in Callers : /\ slot'[d].cmd = slot[d].cmd /\ slot'[d].par = slot[d].par
                           /\ slot'[d].valid = slot[d].valid
    BY <1>1, <2>1, <2>2
  <2>4. \A d \in Callers : Same(d)
    BY <1>2, <2>1, <2>3, SameCaller
  <2> QED BY <1>2, <2>1, <2>4, CallsStutter
<1>8. CASE SetTheKey \/ Fork \/ SeeAlive \/ Look \/ EndScan
  <2>1. UNCHANGED <<slot, call, rdDat>>
    BY <1>8 DEF SetTheKey, Fork, SeeAlive, Look, EndScan, ipcVars
  <2>2. \A d \in Callers : Same(d)
    BY <1>2, <2>1, SameCaller
  <2> QED BY <1>2, <2>1, <2>2, CallsStutter
<1> QED BY <1>3, <1>4, <1>5, <1>6, <1>7, <1>8 DEF MainRuns, MainStep

LEMMA SimMaps ==
  ASSUME CosimInv, SimStep
  PROVE  Mailbox!Next \/ UNCHANGED Mailbox!callVars
<1> USE CallerTypes
<1>1. slot \in [Callers -> SlotType] /\ device \in [Callers -> Values] /\ MailInv
      /\ driver \in [Callers -> {"off", "attached", "poll", "empty", "busy", "answer", "stopped"}]
  BY DEF CosimInv, IpcTypeOK, SimTypeOK
<1>2. UNCHANGED <<call, rdDat>>
  BY DEF SimStep, DriverStep, Attach, Tick, PollNothing, TakeControl, WaitTilStart, PollPrint,
         PollCommand, PollShutdown, PollEmpty, PollDone, ProcessCmd, AckCmdNdone, cSide
\* Steps of drivers that are not about to answer.
<1>3. ASSUME UNCHANGED <<slot, device>>,
             \A d \in Callers : driver'[d] = "answer" <=> driver[d] = "answer"
      PROVE  UNCHANGED Mailbox!callVars
  <2>1. \A d \in Callers : Same(d)
    BY <1>2, <1>3, SameCaller
  <2> QED BY <1>2, <1>3, <2>1, CallsStutter
<1>4. CASE Tick
  BY <1>3, <1>4 DEF Tick
<1>5. CASE Attach
  <2>1. \A d \in Callers : driver'[d] # "answer" /\ driver[d] # "answer"
    BY <1>5 DEF Attach, CosimInv, StartInv
  <2> QED BY <1>3, <1>5, <2>1 DEF Attach
<1>6. ASSUME NEW d \in Callers,
             \/ TakeControl(d) \/ WaitTilStart(d) \/ PollCommand(d)
             \/ PollEmpty(d) \/ PollDone(d) \/ PollNothing(d)
      PROVE  UNCHANGED Mailbox!callVars
  <2>1. UNCHANGED <<slot, device>> /\ \A e \in Callers : driver'[e] = "answer" <=> driver[e] = "answer"
    BY <1>1, <1>6 DEF TakeControl, WaitTilStart, PollCommand, PollEmpty, PollDone, PollNothing,
                      Polls, FoundEmpty, Become
  <2> QED BY <1>3, <2>1
<1>7. ASSUME NEW d \in Callers, PollShutdown(d) PROVE UNCHANGED Mailbox!callVars
  <2>1. /\ slot' = [slot EXCEPT ![d] = [slot[d] EXCEPT !.threadDone = TRUE, !.status = "inactive"]]
        /\ device' = device /\ driver[d] = "poll" /\ driver' = [driver EXCEPT ![d] = "busy"]
    BY <1>7 DEF PollShutdown, Polls, Become
  <2>2. slot[d] \in SlotType
    BY <1>1
  <2>3. \A e \in Callers : /\ slot'[e].cmd = slot[e].cmd /\ slot'[e].par = slot[e].par
                           /\ slot'[e].valid = slot[e].valid
    BY <1>1, <2>1, <2>2 DEF SlotType
  <2>4. \A e \in Callers : driver'[e] = "answer" <=> driver[e] = "answer"
    BY <1>1, <2>1
  <2>5. \A e \in Callers : Same(e)
    BY <1>2, <2>3, <2>4, SameCaller
  <2> QED BY <1>2, <2>1, <2>5, CallsStutter
<1>8. ASSUME NEW d \in Callers, PollPrint(d) PROVE Mailbox!Next
  <2>1. /\ slot' = [slot EXCEPT ![d] = [slot[d] EXCEPT !.status = "success", !.valid = FALSE]]
        /\ UNCHANGED <<device, driver>> /\ driver[d] = "poll" /\ slot[d].valid /\ slot[d].cmd.op = "print"
    BY <1>8 DEF PollPrint, Polls, simVars
  <2>2. slot[d] \in SlotType /\ call[d] = "waiting"
    BY <1>1, <2>1 DEF MailInv
  <2>3. ~slot'[d].valid /\ slot'[d].cmd = slot[d].cmd /\ \A e \in Callers \ {d} : slot'[e] = slot[e]
    BY <1>1, <2>1, <2>2 DEF SlotType
  <2>4. ~Executed(d) /\ Executed(d)'
    BY <1>2, <2>1, <2>2, <2>3 DEF Executed
  <2>5. device' = [device EXCEPT ![d] = IF slot[d].cmd.op = "write" THEN slot[d].cmd.dat ELSE @]
    BY <1>1, <2>1
  <2> QED BY <1>2, <2>1, <2>2, <2>3, <2>4, <2>5, Executes
<1>9. ASSUME NEW d \in Callers, ProcessCmd(d) PROVE Mailbox!Next
  <2>1. PICK v : /\ v = (IF slot[d].cmd.op = "read" THEN device[d] ELSE slot[d].par)
                 /\ slot' = [slot EXCEPT ![d] = [slot[d] EXCEPT !.par = v]]
    BY <1>9 DEF ProcessCmd
  <2>2. /\ driver[d] = "busy" /\ driver' = [driver EXCEPT ![d] = "answer"]
        /\ device' = [device EXCEPT ![d] = IF slot[d].cmd.op = "write" THEN slot[d].cmd.dat ELSE @]
    BY <1>9 DEF ProcessCmd, Become
  <2>3. slot[d] \in SlotType /\ call[d] = "waiting" /\ slot[d].valid
    BY <1>1, <2>2 DEF MailInv
  <2>4. slot'[d].par = v /\ slot'[d].cmd = slot[d].cmd /\ \A e \in Callers \ {d} : slot'[e] = slot[e]
    BY <1>1, <2>1, <2>3 DEF SlotType
  <2>5. ~Executed(d) /\ Executed(d)' /\ \A e \in Callers \ {d} : driver'[e] = driver[e]
    BY <1>1, <1>2, <2>2, <2>3 DEF Executed
  <2> QED BY <1>2, <2>1, <2>2, <2>3, <2>4, <2>5, Executes
<1>10. ASSUME NEW d \in Callers, AckCmdNdone(d) PROVE UNCHANGED Mailbox!callVars
  <2>1. /\ slot' = [slot EXCEPT ![d] = [slot[d] EXCEPT !.status = "success", !.valid = FALSE]]
        /\ device' = device /\ driver[d] = "answer" /\ driver' = [driver EXCEPT ![d] = "poll"]
    BY <1>10 DEF AckCmdNdone, Become
  <2>2. slot[d] \in SlotType /\ call[d] = "waiting"
    BY <1>1, <2>1 DEF MailInv
  <2>3. /\ slot'[d].cmd = slot[d].cmd /\ slot'[d].par = slot[d].par /\ ~slot'[d].valid
        /\ \A e \in Callers \ {d} : slot'[e] = slot[e] /\ driver'[e] = driver[e]
    BY <1>1, <2>1, <2>2 DEF SlotType
  <2>4. Executed(d) /\ Executed(d)' = Executed(d)
    BY <1>2, <2>1, <2>2, <2>3 DEF Executed
  <2>5. Same(d)
    BY <1>2, <2>3, <2>4 DEF Same, Req, Rep, Calling
  <2>6. \A e \in Callers : Same(e)
    BY <1>2, <2>3, <2>5, SameCaller
  <2> QED BY <1>2, <2>1, <2>6, CallsStutter
<1> QED BY <1>4, <1>5, <1>6, <1>7, <1>8, <1>9, <1>10 DEF SimStep, DriverStep

\* The mailboxes are remote calls: a command is executed once, on the caller's
\* own block, before the call returns, and a read returns what it found there.
THEOREM MailboxesAreCalls == Spec => ImplementsRemoteCall
<1>1. Init => Mailbox!Init
  <2> SUFFICES ASSUME Init PROVE Mailbox!Init
    OBVIOUS
  <2>1. /\ rdDat = [c \in Callers |-> 0] /\ device = [c \in Callers |-> 0]
        /\ \A c \in Callers : call[c] = "none"
    BY DEF Init, IpcInit, SimInit
  <2>2. \A c \in Callers : ~Calling(c) /\ Executed(c) = FALSE
    BY <2>1 DEF Calling, Executed
  <2> QED BY <2>1, <2>2 DEF Mailbox!Init
<1>2. CosimInv /\ [Next]_vars => [Mailbox!Next]_(Mailbox!callVars)
  <2> SUFFICES ASSUME CosimInv, [Next]_vars PROVE Mailbox!Next \/ UNCHANGED Mailbox!callVars
    OBVIOUS
  <2>1. CASE UNCHANGED vars
    <3>1. UNCHANGED <<slot, call, rdDat, driver, device>>
      BY <2>1 DEF vars, ipcVars, simVars
    <3>2. \A c \in Callers : Same(c)
      BY <3>1, SameCaller
    <3> QED BY <3>1, <3>2, CallsStutter
  <2> QED BY <2>1, MainMaps, SimMaps, ThreadMaps DEF Next
<1> QED BY <1>1, <1>2, CosimInvariant, PTL DEF Spec, ImplementsRemoteCall, Mailbox!Spec

------------------------------------------------------------------------------
(* The verdict of a core's test is that of its sequence on a block of its   *)
(* own: what the thread has counted, what its block holds and what the      *)
(* answer to its command carries, at every place of cep_playback.           *)
Reporting == {"report", "setError", "threadDone", "inactive", "ended"}

AtCommand(c) == cmdSeq[c][c1[c]]

CommandCall(cmd) == IF cmd.op = "WRITE" THEN Write(cmd.dat) ELSE Plain("read")

\* Of the commands passed, errCnt is the last that failed, and no compare did.
Tallied(c) ==
  /\ c1[c] \in 1 .. Len(cmdSeq[c]) + 1
  /\ \A m \in 1 .. c1[c] - 1 :
       Fails(cmdSeq[c], m) => cmdSeq[c][m].op = "RDSPIN" /\ m <= errCnt[c]
  /\ errCnt[c] # 0 => errCnt[c] \in 1 .. c1[c] - 1 /\ Fails(cmdSeq[c], errCnt[c])

\* An RDSPIN that had no tries is passed over, any other has one left.
TriesLeft(c) ==
  c1[c] \in DOMAIN cmdSeq[c] => (timeOut[c] > 0 <=> AtCommand(c).timeOut > 0)

\* The simulator has executed the command, but the thread has not moved on.
Accessed(c) == place[c] = "playback" /\ Executed(c)

BlockHolds(c) ==
  device[c] = IF Accessed(c) /\ AtCommand(c).op = "WRITE" THEN AtCommand(c).dat
              ELSE InForce(cmdSeq[c], c1[c])

AsksForCommand(c) ==
  call[c] # "none" => IF place[c] = "playback" THEN slot[c].cmd = CommandCall(AtCommand(c))
                      ELSE slot[c].cmd.op # "write"

AnswerIsBlock(c) == Accessed(c) /\ AtCommand(c).op # "WRITE" => slot[c].par = device[c]

Complaint(c) ==
  IF place[c] = "complain" THEN c1[c] \in DOMAIN cmdSeq[c] /\ Fails(cmdSeq[c], c1[c])
  ELSE TriesLeft(c)

Testing(c) ==
  Tallied(c) /\ BlockHolds(c) /\ AsksForCommand(c) /\ AnswerIsBlock(c) /\ Complaint(c)

TestInv(c) ==
  IF place[c] \in Reporting THEN errCnt[c] = Verdict(cmdSeq[c]) ELSE Testing(c)

LEMMA Sequence ==
  ASSUME NEW seq \in Captures
  PROVE  /\ Len(seq) \in Nat /\ DOMAIN seq = 1 .. Len(seq)
         /\ \A n \in DOMAIN seq : seq[n] \in CaptureCommand
<1>1. seq \in Seq(CaptureCommand)
  BY CaptureAssumption
<1> QED BY <1>1, CaptureTypes

LEMMA InForceFirst == \A seq : InForce(seq, 1) = 0
<1>1. 1 .. 1 - 1 = {}
  OBVIOUS
<1> QED BY <1>1 DEF InForce

LEMMA InForceNext ==
  ASSUME NEW seq \in Captures, NEW n \in DOMAIN seq
  PROVE  InForce(seq, n + 1) = IF seq[n].op = "WRITE" /\ seq[n].inRange THEN seq[n].dat
                               ELSE InForce(seq, n)
<1> DEFINE writes(k) == {m \in 1 .. k - 1 : seq[m].op = "WRITE" /\ seq[m].inRange}
<1>1. n \in Nat /\ n >= 1
  BY Sequence
<1>2. InForce(seq, n) = (IF writes(n) = {} THEN 0 ELSE seq[Max(writes(n))].dat)
  BY DEF InForce
<1>3. InForce(seq, n + 1) = (IF writes(n + 1) = {} THEN 0 ELSE seq[Max(writes(n + 1))].dat)
  BY DEF InForce
<1>4. CASE seq[n].op = "WRITE" /\ seq[n].inRange
  <2>1. n \in writes(n + 1) /\ \A m \in writes(n + 1) : n >= m /\ (m >= n => m = n)
    BY <1>1, <1>4
  <2> HIDE DEF writes
  <2>2. Max(writes(n + 1)) = n
    <3>1. \E x \in writes(n + 1) : \A y \in writes(n + 1) : x >= y
      BY <2>1
    <3>2. /\ Max(writes(n + 1)) \in writes(n + 1)
          /\ \A y \in writes(n + 1) : Max(writes(n + 1)) >= y
      BY <3>1 DEF Max
    <3> QED BY <2>1, <3>2
  <2> QED BY <1>3, <1>4, <2>1, <2>2
<1>5. CASE ~(seq[n].op = "WRITE" /\ seq[n].inRange)
  <2>1. \A m : m \in 1 .. n <=> m \in 1 .. n - 1 \/ m = n
    BY <1>1
  <2>2. \A m : m \in 1 .. (n + 1) - 1 <=> m \in 1 .. n
    BY <1>1
  <2>3. writes(n + 1) = writes(n)
    BY <1>5, <2>1, <2>2
  <2> HIDE DEF writes
  <2> QED BY <1>2, <1>3, <1>5, <2>3
<1> QED BY <1>4, <1>5

\* The first compare that fails is the verdict.
LEMMA VerdictOfMismatch ==
  ASSUME NEW seq \in Captures, NEW n \in DOMAIN seq, Fails(seq, n), seq[n].op = "RDnCMP",
         \A m \in 1 .. n - 1 : Fails(seq, m) => seq[m].op = "RDSPIN"
  PROVE  Verdict(seq) = n
<1> DEFINE failing == {m \in DOMAIN seq : Fails(seq, m)}
           mismatches == {m \in failing : seq[m].op = "RDnCMP"}
<1>1. n \in mismatches
  OBVIOUS
<1>2. \A m \in mismatches : n <= m /\ (m <= n => m = n)
  BY Sequence
<1>3. Verdict(seq) = Min(mismatches)
  BY <1>1 DEF Verdict
<1> HIDE DEF mismatches
<1>4. \E x \in mismatches : \A y \in mismatches : x =< y
  BY <1>1, <1>2
<1>5. Min(mismatches) \in mismatches /\ \A y \in mismatches : Min(mismatches) =< y
  BY <1>4 DEF Min
<1> QED BY <1>1, <1>2, <1>3, <1>5

\* Without one it is the last read that ran out of tries.
LEMMA VerdictOfTallied ==
  ASSUME NEW seq \in Captures, NEW e \in Nat,
         \A m \in DOMAIN seq : Fails(seq, m) => seq[m].op = "RDSPIN" /\ m <= e,
         e # 0 => e \in DOMAIN seq /\ Fails(seq, e)
  PROVE  Verdict(seq) = e
<1> DEFINE failing == {m \in DOMAIN seq : Fails(seq, m)}
<1>1. {m \in failing : seq[m].op = "RDnCMP"} = {}
  OBVIOUS
<1>2. Verdict(seq) = IF failing # {} THEN Max(failing) ELSE 0
  BY <1>1 DEF Verdict
<1>3. CASE e = 0
  <2>1. \A m \in DOMAIN seq : ~(m <= 0)
    BY Sequence
  <2> QED BY <1>2, <1>3, <2>1
<1>4. CASE e # 0
  <2>1. e \in failing /\ \A m \in failing : m \in Nat /\ e >= m /\ (m >= e => m = e)
    BY <1>4, Sequence
  <2> HIDE DEF failing
  <2>2. \E x \in failing : \A y \in failing : x >= y
    BY <2>1
  <2>3. Max(failing) \in failing /\ \A y \in failing : Max(failing) >= y
    BY <2>2 DEF Max
  <2> QED BY <1>2, <2>1, <2>3
<1> QED BY <1>3, <1>4

\* Nothing a core's test depends on has changed.
LEMMA TestKept ==
  ASSUME NEW c \in Cores, TestInv(c),
         c1'[c] = c1[c], timeOut'[c] = timeOut[c], errCnt'[c] = errCnt[c],
         cmdSeq'[c] = cmdSeq[c], device'[c] = device[c],
         \/ place'[c] = place[c]
         \/ place[c] \in Reporting /\ place'[c] \in Reporting
         \/ place[c] \notin Reporting \cup {"complain"} /\ place'[c] \notin Reporting \cup {"complain"},
         place'[c] \notin Reporting => AsksForCommand(c)',
         Accessed(c)' <=> Accessed(c), Accessed(c) => slot'[c].par = slot[c].par
  PROVE  TestInv(c)'
<1>1. CASE place[c] \in Reporting
  BY <1>1 DEF TestInv
<1>2. CASE place[c] \notin Reporting
  <2>1. Testing(c) /\ place'[c] \notin Reporting /\ AsksForCommand(c)'
    BY <1>2 DEF TestInv
  <2>2. AtCommand(c)' = AtCommand(c)
    BY DEF AtCommand
  <2>3. Tallied(c)'
    BY <2>1 DEF Testing, Tallied
  <2>4. BlockHolds(c)'
    BY <2>1, <2>2 DEF Testing, BlockHolds
  <2>5. AnswerIsBlock(c)'
    BY <2>1, <2>2 DEF Testing, AnswerIsBlock
  <2>6. Complaint(c)'
    BY <1>2, <2>1, <2>2 DEF Testing, Complaint, TriesLeft
  <2> QED BY <2>1, <2>3, <2>4, <2>5, <2>6 DEF Testing, TestInv
<1> QED BY <1>1, <1>2

\* A command is behind the thread, and nothing else of the sequence has begun.
LEMMA PassedOn ==
  ASSUME NEW c \in Cores, TestInv(c), CTypeOK, place[c] \in {"playback", "complain"},
         c1[c] \in DOMAIN cmdSeq[c], c1'[c] = c1[c] + 1, cmdSeq' = cmdSeq,
         timeOut'[c] = TimeOutAt(c, c1[c] + 1), place'[c] = "playback", call'[c] = "none",
         device'[c] = InForce(cmdSeq[c], c1[c] + 1),
         Fails(cmdSeq[c], c1[c]) => AtCommand(c).op = "RDSPIN" /\ errCnt'[c] = c1[c],
         ~Fails(cmdSeq[c], c1[c]) => errCnt'[c] = errCnt[c]
  PROVE  TestInv(c)'
<1> DEFINE seq == cmdSeq[c]
           n == c1[c]
<1>1. /\ seq \in Captures /\ n \in Nat /\ errCnt[c] \in Nat
      /\ Len(seq) \in Nat /\ DOMAIN seq = 1 .. Len(seq) /\ n \in 1 .. Len(seq)
  BY Sequence DEF CTypeOK
<1>2. Testing(c) /\ place'[c] \notin Reporting
  BY DEF TestInv, Reporting
<1>3. ~Accessed(c)'
  BY DEF Accessed, Executed
<1>4. Tallied(c)'
  <2>1. /\ \A m \in 1 .. n - 1 : Fails(seq, m) => seq[m].op = "RDSPIN" /\ m <= errCnt[c]
        /\ errCnt[c] # 0 => errCnt[c] \in 1 .. n - 1 /\ Fails(seq, errCnt[c])
    BY <1>2 DEF Testing, Tallied
  <2>2. /\ Fails(seq, n) => seq[n].op = "RDSPIN" /\ errCnt'[c] = n
        /\ ~Fails(seq, n) => errCnt'[c] = errCnt[c]
    BY DEF AtCommand
  <2>3. \A m \in 1 .. n : m \in 1 .. n - 1 \/ m = n
    BY <1>1
  <2>4. n + 1 \in 1 .. Len(seq) + 1 /\ (n + 1) - 1 = n
    BY <1>1
  <2> HIDE DEF seq, n
  <2>5. \A m \in 1 .. n : Fails(seq, m) => seq[m].op = "RDSPIN" /\ m <= errCnt'[c]
    <3> SUFFICES ASSUME NEW m \in 1 .. n, Fails(seq, m)
                 PROVE  seq[m].op = "RDSPIN" /\ m <= errCnt'[c]
      OBVIOUS
    <3>1. CASE m = n
      BY <1>1, <2>2, <3>1
    <3>2. CASE m \in 1 .. n - 1
      BY <1>1, <2>1, <2>2, <3>2
    <3> QED BY <2>3, <3>1, <3>2
  <2>6. errCnt'[c] # 0 => errCnt'[c] \in 1 .. n /\ Fails(seq, errCnt'[c])
    BY <1>1, <2>1, <2>2
  <2>7. c1'[c] = n + 1 /\ cmdSeq'[c] = seq
    BY DEF seq, n
  <2>8. Tallied(c)' <=>
          /\ c1'[c] \in 1 .. Len(cmdSeq'[c]) + 1
          /\ \A m \in 1 .. c1'[c] - 1 :
               Fails(cmdSeq'[c], m) => cmdSeq'[c][m].op = "RDSPIN" /\ m <= errCnt'[c]
          /\ errCnt'[c] # 0 => errCnt'[c] \in 1 .. c1'[c] - 1 /\ Fails(cmdSeq'[c], errCnt'[c])
    BY DEF Tallied
  <2> QED BY <2>4, <2>5, <2>6, <2>7, <2>8
<1>5. BlockHolds(c)' /\ AnswerIsBlock(c)' /\ AsksForCommand(c)'
  BY <1>3 DEF BlockHolds, AnswerIsBlock, AsksForCommand, InForce
<1>6. Complaint(c)'
  BY DEF Complaint, TriesLeft, AtCommand, TimeOutAt
<1> QED BY <1>2, <1>4, <1>5, <1>6 DEF Testing, TestInv

\* A thread touches nothing of another core's test.
LEMMA OthersData ==
  ASSUME CosimInv, NEW c \in Cores, ThreadRuns(c), NEW d \in Cores \ {c}
  PROVE  /\ place'[d] = place[d] /\ slot'[d] = slot[d] /\ call'[d] = call[d] /\ c1'[d] = c1[d]
         /\ timeOut'[d] = timeOut[d] /\ errCnt'[d] = errCnt[d]
<1> USE CallerTypes
<1>1. /\ slot \in [Callers -> SlotType] /\ call \in [Callers -> {"none", "posted", "waiting"}]
      /\ place \in [Callers -> Places \cup MainPlaces]
      /\ c1 \in [Cores -> Nat] /\ timeOut \in [Cores -> Nat] /\ errCnt \in [Cores -> Nat]
  BY DEF CosimInv, IpcTypeOK, CTypeOK
<1>2. /\ \A label : Goto(c, label) => place'[d] = place[d]
      /\ \A status : SetStatus(c, status) => slot'[d] = slot[d]
      /\ \A command : Call(c, command) => slot'[d] = slot[d] /\ call'[d] = call[d]
      /\ Raise(c) \/ Return(c) => slot'[d] = slot[d] /\ call'[d] = call[d]
      /\ NextCommand(c) \/ Loop(c) => c1'[d] = c1[d] /\ timeOut'[d] = timeOut[d]
  BY <1>1 DEF Goto, SetStatus, Call, Raise, Return, NextCommand, Loop
<1>3. CASE Wake(c) \/ NotifyAlive(c) \/ SetStartFlag(c) \/ EndPlayback(c)
  BY <1>1, <1>2, <1>3 DEF Wake, NotifyAlive, SetStartFlag, EndPlayback, ipcVars, moduleVars
<1>4. CASE FrameCall(c) \/ Access(c) \/ RaiseFlag(c)
  BY <1>1, <1>2, <1>4 DEF FrameCall, Access, RaiseFlag, moduleVars
<1>5. CASE FrameReturn(c)
  BY <1>1, <1>2, <1>5 DEF FrameReturn, moduleVars
<1>6. CASE PassOver(c) \/ AccessReturn(c)
  BY <1>1, <1>2, <1>6 DEF PassOver, AccessReturn
<1>7. CASE SetError(c) \/ SetThreadDone(c) \/ SetInactive(c)
  BY <1>1, <1>2, <1>7 DEF SetError, SetThreadDone, SetInactive, moduleVars
<1> QED BY <1>3, <1>4, <1>5, <1>6, <1>7 DEF ThreadRuns, ThreadStep

\* The answer to a command that is returned, and what the command was.
LEMMA AnswerReturned ==
  ASSUME CosimInv, NEW c \in Cores, TestInv(c), place[c] = "playback", Return(c)
  PROVE  /\ c1[c] \in DOMAIN cmdSeq[c] /\ AtCommand(c) \in CaptureCommand /\ Due(c)
         /\ AtCommand(c).op = "WRITE" => device[c] = AtCommand(c).dat
         /\ AtCommand(c).op # "WRITE" =>
              device[c] = InForce(cmdSeq[c], c1[c]) /\ rdDat'[c] = InForce(cmdSeq[c], c1[c])
         /\ call'[c] = "none" /\ slot' = slot
<1> USE CallerTypes
<1>1. /\ call[c] = "waiting" /\ ~slot[c].valid /\ call'[c] = "none" /\ slot' = slot
      /\ rdDat' = [rdDat EXCEPT ![c] = IF slot[c].cmd.op = "read" THEN slot[c].par ELSE @]
  BY ReturnEffect DEF CosimInv
<1>2. Accessed(c) /\ Testing(c)
  BY <1>1 DEF Accessed, Executed, TestInv, Reporting
<1>3. InPlayback(c) /\ Due(c)
  BY <1>1 DEF CosimInv, CoreCallInv
<1>4. c1[c] \in DOMAIN cmdSeq[c] /\ AtCommand(c) \in CaptureCommand
  BY <1>3, Sequence DEF InPlayback, AtCommand, CosimInv, CTypeOK
<1>5. slot[c].cmd = CommandCall(AtCommand(c))
  BY <1>1, <1>2 DEF Testing, AsksForCommand
<1>6. AtCommand(c).op # "WRITE" => slot[c].cmd.op = "read" /\ rdDat'[c] = slot[c].par
  BY <1>1, <1>5 DEF CommandCall, Plain, CosimInv, IpcTypeOK
<1> QED BY <1>1, <1>2, <1>3, <1>4, <1>6 DEF Testing, BlockHolds, AnswerIsBlock

LEMMA ThreadTest ==
  ASSUME CosimInv, NEW c \in Cores, ThreadRuns(c), TestInv(c)
  PROVE  TestInv(c)'
<1> USE CallerTypes
<1>1. /\ IpcTypeOK /\ CTypeOK /\ slot \in [Callers -> SlotType] /\ slot[c] \in SlotType
      /\ call \in [Callers -> {"none", "posted", "waiting"}]
      /\ place \in [Callers -> Places \cup MainPlaces]
      /\ c1 \in [Cores -> Nat] /\ timeOut \in [Cores -> Nat] /\ errCnt \in [Cores -> Nat]
      /\ c1[c] \in Nat /\ timeOut[c] \in Nat /\ cmdSeq[c] \in Captures
  BY DEF CosimInv, IpcTypeOK, CTypeOK
<1>2. UNCHANGED <<device, driver, cmdSeq>>
  <2>1. ThreadStep(c) => UNCHANGED cmdSeq
    BY DEF ThreadStep, NotifyAlive, SetStartFlag, FrameCall, FrameReturn, PassOver, Access,
           AccessReturn, EndPlayback, RaiseFlag, SetError, SetThreadDone, SetInactive, moduleVars
  <2> QED BY <2>1 DEF ThreadRuns, Wake, moduleVars, simVars
<1>3. call[c] # "none" => place[c] \in {"calibrate", "complain", "report", "playback"}
  BY DEF CosimInv, CoreCallInv
<1>4. ASSUME NEW label, Goto(c, label) PROVE place'[c] = label
  BY <1>1, <1>4 DEF Goto
\* No call is under way before nor after.
<1>5. ASSUME call[c] = "none", call' = call, UNCHANGED <<c1, timeOut, errCnt>>,
             \/ place'[c] = place[c]
             \/ place[c] \in Reporting /\ place'[c] \in Reporting
             \/ place[c] \notin Reporting \cup {"complain"} /\ place'[c] \notin Reporting \cup {"complain"}
      PROVE  TestInv(c)'
  <2>1. ~Accessed(c) /\ ~Accessed(c)' /\ AsksForCommand(c)'
    BY <1>5 DEF Accessed, Executed, AsksForCommand
  <2> QED BY <1>2, <1>5, <2>1, TestKept
<1>6. CASE Wake(c) \/ NotifyAlive(c) \/ SetStartFlag(c)
  <2>1. /\ place[c] \in {"asleep", "born", "alive"} /\ place'[c] \in {"calibrate", "alive", "asleep"}
        /\ call' = call /\ UNCHANGED <<c1, timeOut, errCnt>>
    BY <1>4, <1>6 DEF Wake, NotifyAlive, SetStartFlag, ipcVars, moduleVars
  <2>2. call[c] = "none"
    BY <1>3, <2>1
  <2> QED BY <1>5, <2>1, <2>2 DEF Reporting
<1>7. CASE SetError(c) \/ SetThreadDone(c) \/ SetInactive(c)
  <2>1. /\ place[c] \in {"setError", "threadDone", "inactive"}
        /\ place'[c] \in {"threadDone", "inactive", "ended"}
        /\ call' = call /\ UNCHANGED <<c1, timeOut, errCnt>>
    BY <1>4, <1>7 DEF SetError, SetThreadDone, SetInactive, moduleVars
  <2>2. call[c] = "none"
    BY <1>3, <2>1
  <2> QED BY <1>5, <2>1, <2>2 DEF Reporting
<1>8. CASE RaiseFlag(c)
  <2>1. /\ call[c] = "posted" /\ call'[c] = "waiting" /\ slot'[c] = [slot[c] EXCEPT !.valid = TRUE]
        /\ place' = place /\ UNCHANGED <<c1, timeOut, errCnt>>
    BY <1>1, <1>8, RaiseEffect DEF RaiseFlag, moduleVars
  <2>2. slot'[c].valid /\ slot'[c].cmd = slot[c].cmd
    BY <1>1, <2>1 DEF SlotType
  <2>3. driver[c] # "answer"
    BY <2>1 DEF CosimInv, MailInv
  <2>4. ~Accessed(c) /\ ~Accessed(c)'
    BY <1>2, <2>1, <2>2, <2>3 DEF Accessed, Executed
  <2>5. place[c] \notin Reporting => AsksForCommand(c)
    BY DEF TestInv, Testing
  <2>6. AtCommand(c)' = AtCommand(c)
    BY <1>2, <2>1 DEF AtCommand
  <2>7. place'[c] \notin Reporting => AsksForCommand(c)'
    BY <2>1, <2>2, <2>5, <2>6 DEF AsksForCommand
  <2> QED BY <1>2, <2>1, <2>4, <2>7, TestKept
<1>9. ASSUME NEW command \in Commands, Call(c, command), UNCHANGED <<place, moduleVars>>,
             place[c] = "playback" => command = CommandCall(AtCommand(c)),
             place[c] # "playback" => command.op # "write"
      PROVE  TestInv(c)'
  <2>1. /\ call[c] = "none" /\ call'[c] = "posted"
        /\ slot'[c] = [slot[c] EXCEPT !.cmd = command, !.status = "pending"]
        /\ UNCHANGED <<c1, timeOut, errCnt>>
    BY <1>1, <1>9, CallEffect DEF moduleVars
  <2>2. slot'[c].cmd = command
    BY <1>1, <2>1 DEF SlotType
  <2>3. ~Accessed(c) /\ ~Accessed(c)'
    BY <2>1 DEF Accessed, Executed
  <2>4. AtCommand(c)' = AtCommand(c)
    BY <1>2, <2>1 DEF AtCommand
  <2>5. AsksForCommand(c)'
    BY <1>9, <2>2, <2>4 DEF AsksForCommand
  <2> QED BY <1>2, <1>9, <2>1, <2>3, <2>5, TestKept
<1>10. CASE FrameCall(c)
  <2>1. /\ Plain("runClk") \in Commands /\ Plain("print") \in Commands
        /\ Plain("runClk").op = "runClk" /\ Plain("print").op = "print"
    BY CommandTypes DEF Plain
  <2>2. PICK command \in {Plain("runClk"), Plain("print")} :
          Call(c, command) /\ place[c] \in {"calibrate", "complain", "report"}
    BY <1>10 DEF FrameCall
  <2>3. UNCHANGED <<place, moduleVars>>
    BY <1>10 DEF FrameCall
  <2> QED BY <1>9, <2>1, <2>2, <2>3
<1>11. CASE Access(c)
  <2>1. /\ InPlayback(c) /\ Call(c, CommandCall(AtCommand(c))) /\ UNCHANGED <<place, moduleVars>>
    BY <1>11 DEF Access, CommandCall, AtCommand
  <2>2. AtCommand(c) \in CaptureCommand
    BY <1>1, <2>1, Sequence DEF InPlayback, AtCommand
  <2>3. CommandCall(AtCommand(c)) \in Commands
    BY <2>2, CommandTypes DEF CommandCall, CaptureCommand
  <2> QED BY <1>9, <2>1, <2>3 DEF InPlayback
<1>12. CASE PassOver(c)
  <2>1. /\ place[c] = "playback" /\ c1[c] \in DOMAIN cmdSeq[c] /\ ~Due(c) /\ call[c] = "none"
        /\ place' = place /\ call' = call /\ errCnt' = errCnt
        /\ c1'[c] = c1[c] + 1 /\ timeOut'[c] = TimeOutAt(c, c1[c] + 1)
    BY <1>1, <1>12 DEF PassOver, InPlayback, NextCommand
  <2>2. Testing(c) /\ ~Accessed(c)
    BY <2>1 DEF TestInv, Reporting, Accessed, Executed
  <2>3. AtCommand(c) \in CaptureCommand
    BY <1>1, <2>1, Sequence DEF AtCommand
  <2>4. ~AtCommand(c).inRange \/ (AtCommand(c).op = "RDSPIN" /\ ~(AtCommand(c).timeOut > 0))
    BY <2>1, <2>2 DEF Due, AtCommand, Testing, Complaint, TriesLeft
  <2>5. ~Fails(cmdSeq[c], c1[c])
    BY <2>4 DEF Fails, AtCommand
  <2>6. device[c] = InForce(cmdSeq[c], c1[c] + 1)
    <3>1. device[c] = InForce(cmdSeq[c], c1[c])
      BY <2>2 DEF Testing, BlockHolds
    <3>2. ~(cmdSeq[c][c1[c]].op = "WRITE" /\ cmdSeq[c][c1[c]].inRange)
      BY <2>4 DEF AtCommand
    <3> QED BY <1>1, <2>1, <3>1, <3>2, InForceNext
  <2> QED BY <1>1, <1>2, <2>1, <2>5, <2>6, PassedOn
<1>13. CASE AccessReturn(c)
  <2>1. /\ place[c] = "playback" /\ Return(c) /\ errCnt' = errCnt
        /\ LET cmd == AtCommand(c)
               matches == cmd.op = "WRITE" \/ rdDat'[c] = cmd.dat IN
           \/ matches /\ NextCommand(c) /\ UNCHANGED place
           \/ ~matches /\ cmd.op = "RDnCMP" /\ Goto(c, "complain") /\ Loop(c)
           \/ /\ ~matches /\ cmd.op = "RDSPIN"
              /\ timeOut' = [timeOut EXCEPT ![c] = @ - 1] /\ UNCHANGED c1
              /\ IF timeOut'[c] = 0 THEN Goto(c, "complain") ELSE UNCHANGED place
    BY <1>13 DEF AccessReturn, InPlayback, AtCommand
  <2>2. /\ c1[c] \in DOMAIN cmdSeq[c] /\ AtCommand(c) \in CaptureCommand /\ Due(c)
        /\ AtCommand(c).op = "WRITE" => device[c] = AtCommand(c).dat
        /\ AtCommand(c).op # "WRITE" =>
             device[c] = InForce(cmdSeq[c], c1[c]) /\ rdDat'[c] = InForce(cmdSeq[c], c1[c])
        /\ call'[c] = "none" /\ slot' = slot
    BY <2>1, AnswerReturned
  <2>3. AtCommand(c).inRange /\ (AtCommand(c).op = "RDSPIN" => timeOut[c] > 0)
    BY <2>2 DEF Due, AtCommand
  <2>4. Testing(c) /\ Tallied(c) /\ TriesLeft(c)
    BY <2>1 DEF TestInv, Reporting, Testing, Complaint
  <2>5. CASE (AtCommand(c).op = "WRITE" \/ rdDat'[c] = AtCommand(c).dat) /\ NextCommand(c) /\ UNCHANGED place
    <3>1. c1'[c] = c1[c] + 1 /\ timeOut'[c] = TimeOutAt(c, c1[c] + 1)
      BY <1>1, <2>5 DEF NextCommand
    <3>2. ~Fails(cmdSeq[c], c1[c])
      BY <2>2, <2>5 DEF Fails, AtCommand
    <3>3. device[c] = InForce(cmdSeq[c], c1[c] + 1)
      BY <1>1, <2>2, <2>3, InForceNext DEF AtCommand
    <3> QED BY <1>1, <1>2, <2>1, <2>2, <2>5, <3>1, <3>2, <3>3, PassedOn
  <2>6. ASSUME ~(AtCommand(c).op = "WRITE" \/ rdDat'[c] = AtCommand(c).dat), c1'[c] = c1[c],
               \/ place'[c] = "complain" /\ (AtCommand(c).op = "RDSPIN" => timeOut[c] > 0)
               \/ place'[c] = "playback" /\ (timeOut'[c] > 0 <=> timeOut[c] > 0)
        PROVE  TestInv(c)'
    <3>1. AtCommand(c)' = AtCommand(c) /\ cmdSeq' = cmdSeq
      BY <1>2, <2>6 DEF AtCommand
    <3>2. Tallied(c)'
      BY <2>1, <2>4, <2>6, <3>1 DEF Tallied
    <3>3. ~Accessed(c)'
      BY <2>2 DEF Accessed, Executed
    <3>4. BlockHolds(c)'
      BY <1>2, <2>2, <2>6, <3>1, <3>3 DEF BlockHolds
    <3>5. AsksForCommand(c)' /\ AnswerIsBlock(c)'
      BY <2>2, <3>3 DEF AsksForCommand, AnswerIsBlock
    <3>6. CASE place'[c] = "complain" /\ (AtCommand(c).op = "RDSPIN" => timeOut[c] > 0)
      <4>1. Fails(cmdSeq[c], c1[c])
        BY <2>2, <2>3, <2>4, <2>6, <3>6 DEF Fails, AtCommand, TriesLeft
      <4>2. Complaint(c)'
        BY <2>2, <2>6, <3>1, <3>6, <4>1 DEF Complaint
      <4> QED BY <3>2, <3>4, <3>5, <3>6, <4>2 DEF TestInv, Testing, Reporting
    <3>7. CASE place'[c] = "playback" /\ (timeOut'[c] > 0 <=> timeOut[c] > 0)
      <4>1. Complaint(c)'
        BY <2>4, <2>6, <3>1, <3>7 DEF Complaint, TriesLeft
      <4> QED BY <3>2, <3>4, <3>5, <3>7, <4>1 DEF TestInv, Testing, Reporting
    <3> QED BY <2>6, <3>6, <3>7
  <2>7. CASE /\ ~(AtCommand(c).op = "WRITE" \/ rdDat'[c] = AtCommand(c).dat)
             /\ AtCommand(c).op = "RDnCMP" /\ Goto(c, "complain") /\ Loop(c)
    BY <1>4, <2>6, <2>7 DEF Loop
  <2>8. CASE /\ ~(AtCommand(c).op = "WRITE" \/ rdDat'[c] = AtCommand(c).dat)
             /\ AtCommand(c).op = "RDSPIN"
             /\ timeOut' = [timeOut EXCEPT ![c] = @ - 1] /\ UNCHANGED c1
             /\ IF timeOut'[c] = 0 THEN Goto(c, "complain") ELSE UNCHANGED place
    <3>1. timeOut'[c] = timeOut[c] - 1 /\ timeOut[c] > 0
      BY <1>1, <2>3, <2>8
    <3>2. IF timeOut'[c] = 0 THEN place'[c] = "complain" ELSE place'[c] = "playback" /\ timeOut'[c] > 0
      BY <1>1, <1>4, <2>1, <2>8, <3>1
    <3>3. /\ ~(AtCommand(c).op = "WRITE" \/ rdDat'[c] = AtCommand(c).dat) /\ c1'[c] = c1[c]
          /\ \/ place'[c] = "complain" /\ (AtCommand(c).op = "RDSPIN" => timeOut[c] > 0)
             \/ place'[c] = "playback" /\ (timeOut'[c] > 0 <=> timeOut[c] > 0)
      BY <2>8, <3>1, <3>2
    <3> QED BY <2>6, <3>3
  <2> QED BY <2>1, <2>5, <2>7, <2>8
<1>14. CASE EndPlayback(c)
  <2>1. /\ place[c] = "playback" /\ c1[c] \notin DOMAIN cmdSeq[c] /\ place'[c] = "report"
        /\ errCnt' = errCnt
    BY <1>4, <1>14 DEF EndPlayback, moduleVars
  <2>2. Tallied(c)
    BY <2>1 DEF TestInv, Reporting, Testing
  <2>3. c1[c] - 1 = Len(cmdSeq[c]) /\ DOMAIN cmdSeq[c] = 1 .. Len(cmdSeq[c])
    BY <1>1, <2>1, <2>2, Sequence DEF Tallied
  <2>4. /\ \A m \in DOMAIN cmdSeq[c] :
             Fails(cmdSeq[c], m) => cmdSeq[c][m].op = "RDSPIN" /\ m <= errCnt[c]
        /\ errCnt[c] # 0 => errCnt[c] \in DOMAIN cmdSeq[c] /\ Fails(cmdSeq[c], errCnt[c])
    BY <2>2, <2>3 DEF Tallied
  <2>5. Verdict(cmdSeq[c]) = errCnt[c]
    BY <1>1, <2>4, VerdictOfTallied
  <2> QED BY <1>2, <2>1, <2>5 DEF TestInv, Reporting
<1>15. CASE FrameReturn(c)
  <2>1. call[c] = "waiting" /\ call'[c] = "none" /\ slot' = slot
    BY <1>1, <1>15, ReturnEffect DEF FrameReturn
  <2>2. CASE place[c] = "calibrate" /\ Goto(c, "playback") /\ UNCHANGED moduleVars
    <3>1. place'[c] = "playback" /\ UNCHANGED <<c1, timeOut, errCnt>>
      BY <1>4, <2>2 DEF moduleVars
    <3>2. ~Accessed(c) /\ ~Accessed(c)' /\ AsksForCommand(c)'
      BY <2>1, <2>2 DEF Accessed, Executed, AsksForCommand
    <3> QED BY <1>2, <2>2, <3>1, <3>2, TestKept DEF Reporting
  <2>3. CASE place[c] = "report" /\ Goto(c, "setError") /\ UNCHANGED moduleVars
    <3>1. place'[c] = "setError" /\ errCnt' = errCnt
      BY <1>4, <2>3 DEF moduleVars
    <3> QED BY <1>2, <2>3, <3>1 DEF TestInv, Reporting
  <2>4. CASE /\ place[c] = "complain" /\ errCnt' = [errCnt EXCEPT ![c] = c1[c]]
             /\ \/ cmdSeq[c][c1[c]].op = "RDnCMP" /\ Goto(c, "report") /\ Loop(c)
                \/ cmdSeq[c][c1[c]].op = "RDSPIN" /\ Goto(c, "playback") /\ NextCommand(c)
    <3>1. /\ Testing(c) /\ Tallied(c) /\ errCnt'[c] = c1[c]
          /\ c1[c] \in DOMAIN cmdSeq[c] /\ Fails(cmdSeq[c], c1[c])
      BY <1>1, <2>4 DEF TestInv, Reporting, Testing, Complaint
    <3>2. CASE cmdSeq[c][c1[c]].op = "RDnCMP" /\ Goto(c, "report") /\ Loop(c)
      <4>1. \A m \in 1 .. c1[c] - 1 : Fails(cmdSeq[c], m) => cmdSeq[c][m].op = "RDSPIN"
        BY <3>1 DEF Tallied
      <4>2. Verdict(cmdSeq[c]) = c1[c]
        BY <1>1, <3>1, <3>2, <4>1, VerdictOfMismatch
      <4> QED BY <1>2, <1>4, <3>1, <3>2, <4>2 DEF TestInv, Reporting
    <3>3. CASE cmdSeq[c][c1[c]].op = "RDSPIN" /\ Goto(c, "playback") /\ NextCommand(c)
      <4>1. place'[c] = "playback" /\ c1'[c] = c1[c] + 1 /\ timeOut'[c] = TimeOutAt(c, c1[c] + 1)
        BY <1>1, <1>4, <3>3 DEF NextCommand
      <4>2. device[c] = InForce(cmdSeq[c], c1[c])
        BY <2>4, <3>1 DEF Testing, BlockHolds, Accessed
      <4>3. device[c] = InForce(cmdSeq[c], c1[c] + 1)
        BY <1>1, <3>1, <3>3, <4>2, InForceNext
      <4> QED BY <1>1, <1>2, <2>1, <2>4, <3>1, <3>3, <4>1, <4>3, PassedOn DEF AtCommand
    <3> QED BY <2>4, <3>2, <3>3
  <2> QED BY <1>15, <2>2, <2>3, <2>4 DEF FrameReturn
<1> QED BY <1>6, <1>7, <1>8, <1>10, <1>11, <1>12, <1>13, <1>14, <1>15 DEF ThreadRuns, ThreadStep

\* SetError adds to a count that was zero.
Reported(c) ==
  slot[c].errCnt = IF place[c] \in {"threadDone", "inactive", "ended"} THEN errCnt[c] ELSE 0

LEMMA ThreadReports ==
  ASSUME CosimInv, NEW c \in Cores, ThreadRuns(c), TestInv(c), Reported(c)
  PROVE  Reported(c)'
<1> USE CallerTypes
<1>1. /\ IpcTypeOK /\ slot \in [Callers -> SlotType] /\ slot[c] \in SlotType
      /\ place \in [Callers -> Places \cup MainPlaces] /\ errCnt \in [Cores -> Nat]
      /\ c1 \in [Cores -> Nat] /\ slot[c].errCnt \in Nat /\ errCnt[c] \in Nat
  BY DEF CosimInv, IpcTypeOK, CTypeOK, SlotType
<1>2. ASSUME NEW label, Goto(c, label) PROVE place'[c] = label
  BY <1>1, <1>2 DEF Goto
<1>3. /\ \A v : SetStatus(c, v) => slot'[c].errCnt = slot[c].errCnt
      /\ slot' = [slot EXCEPT ![c].startFlag = TRUE] => slot'[c].errCnt = slot[c].errCnt
      /\ slot' = [slot EXCEPT ![c].threadDone = TRUE] => slot'[c].errCnt = slot[c].errCnt
      /\ \A v : slot' = [slot EXCEPT ![c].errCnt = v] => slot'[c].errCnt = v
      /\ slot' = slot => slot'[c].errCnt = slot[c].errCnt
  <2>1. ASSUME NEW v, SetStatus(c, v) PROVE slot'[c].errCnt = slot[c].errCnt
    BY <1>1, <2>1 DEF SetStatus, SlotType
  <2>2. ASSUME slot' = [slot EXCEPT ![c].startFlag = TRUE] PROVE slot'[c].errCnt = slot[c].errCnt
    BY <1>1, <2>2 DEF SlotType
  <2>3. ASSUME slot' = [slot EXCEPT ![c].threadDone = TRUE] PROVE slot'[c].errCnt = slot[c].errCnt
    BY <1>1, <2>3 DEF SlotType
  <2>4. ASSUME NEW v, slot' = [slot EXCEPT ![c].errCnt = v] PROVE slot'[c].errCnt = v
    BY <1>1, <2>4 DEF SlotType
  <2> QED BY <2>1, <2>2, <2>3, <2>4
<1>4. CASE Wake(c) \/ NotifyAlive(c) \/ SetStartFlag(c) \/ EndPlayback(c)
  <2>1. /\ place[c] \in {"asleep", "born", "alive", "playback"}
        /\ place'[c] \in {"calibrate", "alive", "asleep", "report"} /\ errCnt' = errCnt
        /\ slot'[c].errCnt = slot[c].errCnt
    BY <1>2, <1>3, <1>4 DEF Wake, NotifyAlive, SetStartFlag, EndPlayback, ipcVars, moduleVars
  <2> QED BY <2>1 DEF Reported
<1>5. CASE FrameCall(c) \/ Access(c) \/ RaiseFlag(c) \/ PassOver(c)
  <2>1. /\ place' = place /\ errCnt' = errCnt
        /\ slot' = slot \/ Raise(c) \/ \E command : Call(c, command)
    BY <1>5 DEF FrameCall, Access, RaiseFlag, PassOver, moduleVars
  <2>2. ASSUME NEW command, Call(c, command) PROVE slot'[c].errCnt = slot[c].errCnt
    BY <1>1, <2>2 DEF Call, SlotType
  <2>3. ASSUME Raise(c) PROVE slot'[c].errCnt = slot[c].errCnt
    BY <1>1, <2>3 DEF Raise, SlotType
  <2>4. slot'[c].errCnt = slot[c].errCnt
    BY <2>1, <2>2, <2>3
  <2> QED BY <2>1, <2>4 DEF Reported
<1>6. CASE FrameReturn(c) \/ AccessReturn(c)
  <2>1. slot' = slot
    BY <1>1, <1>6, ReturnEffect DEF FrameReturn, AccessReturn
  <2>2. /\ place[c] \notin {"threadDone", "inactive", "ended"}
        /\ place'[c] \notin {"threadDone", "inactive", "ended"}
    BY <1>1, <1>2, <1>6 DEF FrameReturn, AccessReturn, InPlayback
  <2> QED BY <2>1, <2>2 DEF Reported
<1>7. CASE SetError(c)
  <2>1. /\ place[c] = "setError" /\ place'[c] = "threadDone" /\ errCnt' = errCnt
        /\ slot'[c].errCnt = slot[c].errCnt + errCnt[c]
    BY <1>2, <1>3, <1>7 DEF SetError, moduleVars
  <2> QED BY <1>1, <2>1 DEF Reported
<1>8. CASE SetThreadDone(c) \/ SetInactive(c)
  <2>1. /\ place[c] \in {"threadDone", "inactive"} /\ place'[c] \in {"inactive", "ended"}
        /\ errCnt' = errCnt /\ slot'[c].errCnt = slot[c].errCnt
    BY <1>2, <1>3, <1>8 DEF SetThreadDone, SetInactive, moduleVars
  <2> QED BY <2>1 DEF Reported
<1> QED BY <1>4, <1>5, <1>6, <1>7, <1>8 DEF ThreadRuns, ThreadStep

\* The main program changes a core's slot before its thread is born, and its
\* status when it is seen alive.
LEMMA MainTest ==
  ASSUME CosimInv, MainRuns, NEW c \in Cores, TestInv(c), Reported(c)
  PROVE  TestInv(c)' /\ Reported(c)'
<1> USE CallerTypes
<1>1. /\ IpcTypeOK /\ slot \in [Callers -> SlotType] /\ slot[c] \in SlotType
      /\ place \in [Callers -> Places \cup MainPlaces]
      /\ call \in [Callers -> {"none", "posted", "waiting"}]
  BY DEF CosimInv, IpcTypeOK, CTypeOK
<1>2. UNCHANGED <<cmdSeq, c1, timeOut, errCnt, device, driver>>
  BY DEF MainRuns, moduleVars, simVars
<1>3. ASSUME place'[c] = place[c] \/ (place[c] = "unborn" /\ place'[c] = "born"),
             call'[c] = call[c],
             \/ /\ slot'[c].cmd = slot[c].cmd /\ slot'[c].par = slot[c].par
                /\ (slot'[c].valid <=> slot[c].valid) /\ slot'[c].errCnt = slot[c].errCnt
             \/ call[c] = "none" /\ place[c] = "unborn" /\ slot'[c].errCnt = 0
      PROVE  TestInv(c)' /\ Reported(c)'
  <2>1. Reported(c)'
    BY <1>2, <1>3 DEF Reported
  <2>2. place[c] = "unborn" => call[c] = "none"
    BY DEF CosimInv, CoreCallInv
  <2>3. (Accessed(c)' <=> Accessed(c)) /\ (Accessed(c) => slot'[c].par = slot[c].par)
    BY <1>2, <1>3, <2>2 DEF Accessed, Executed
  <2>4. AtCommand(c)' = AtCommand(c)
    BY <1>2 DEF AtCommand
  <2>5. place[c] \notin Reporting => AsksForCommand(c)
    BY DEF TestInv, Testing
  <2>6. place'[c] \notin Reporting => AsksForCommand(c)'
    BY <1>3, <2>2, <2>4, <2>5 DEF AsksForCommand, Reporting
  <2>7. \/ place'[c] = place[c]
        \/ place[c] \notin Reporting \cup {"complain"} /\ place'[c] \notin Reporting \cup {"complain"}
    BY <1>3 DEF Reporting
  <2>8. TestInv(c)'
    BY <1>2, <2>3, <2>6, <2>7, TestKept
  <2> QED BY <2>1, <2>8
<1>4. ASSUME NEW label, Goto(System, label) PROVE place'[c] = place[c]
  BY <1>1, <1>4 DEF Goto
<1>5. CASE SetTheKey \/ SeeAlive \/ Look \/ EndScan
  <2>1. UNCHANGED <<slot, call>> /\ place'[c] = place[c]
    BY <1>4, <1>5 DEF SetTheKey, SeeAlive, Look, EndScan, ipcVars
  <2> QED BY <1>3, <2>1
<1>6. CASE InitSlots
  <2>1. Main = "initSlots" /\ slot'[c] = InitMe /\ call' = call /\ place'[c] = place[c]
    BY <1>4, <1>6 DEF InitSlots
  <2>2. call[c] = "none" /\ place[c] = "unborn"
    BY <2>1 DEF CosimInv, StartInv, SlotsReady, Forked
  <2>3. slot'[c].errCnt = 0
    BY <2>1 DEF InitMe
  <2> QED BY <1>3, <2>1, <2>2, <2>3
<1>7. CASE Fork
  <2>1. /\ Main = "fork" /\ place' = [place EXCEPT ![next] = "born", ![System] = "watch"]
        /\ slot' = slot /\ call' = call
    BY <1>7 DEF Fork, ipcVars
  <2>2. c = next => place[c] = "unborn"
    <3>1. next \notin 0 .. next - 1
      BY DEF CosimInv, CTypeOK
    <3> QED BY <2>1, <3>1 DEF CosimInv, StartInv, Forked
  <2>3. place'[c] = place[c] \/ (place[c] = "unborn" /\ place'[c] = "born")
    BY <1>1, <2>1, <2>2
  <2> QED BY <1>3, <2>1, <2>3
<1>8. CASE SetActive
  <2>1. /\ slot' = [slot EXCEPT ![next].status = "active"] /\ call' = call
        /\ place'[c] = place[c]
    BY <1>4, <1>8 DEF SetActive, SetStatus
  <2>2. /\ slot'[c].cmd = slot[c].cmd /\ slot'[c].par = slot[c].par
        /\ (slot'[c].valid <=> slot[c].valid) /\ slot'[c].errCnt = slot[c].errCnt
    <3>1. slot'[c] = slot[c] \/ slot'[c] = [slot[c] EXCEPT !.status = "active"]
      BY <1>1, <2>1
    <3> QED BY <1>1, <3>1 DEF SlotType
  <2> QED BY <1>3, <2>1, <2>2
<1>9. CASE MainCall \/ MainRaise \/ MainReturn
  <2>1. place'[c] = place[c]
    BY <1>4, <1>9 DEF MainCall, MainRaise, MainReturn
  <2>2. slot'[c] = slot[c] /\ call'[c] = call[c]
    BY <1>1, <1>9 DEF MainCall, MainRaise, MainReturn, Call, Raise, Return
  <2> QED BY <1>3, <2>1, <2>2
<1> QED BY <1>5, <1>6, <1>7, <1>8, <1>9 DEF MainRuns, MainStep

\* The simulator executes one command of the core's, on the core's block.
LEMMA SimTest ==
  ASSUME CosimInv, SimStep, NEW c \in Cores, TestInv(c), Reported(c)
  PROVE  TestInv(c)' /\ Reported(c)'
<1> USE CallerTypes
<1>1. /\ IpcTypeOK /\ SimTypeOK /\ slot \in [Callers -> SlotType] /\ slot[c] \in SlotType
      /\ driver \in [Callers -> {"off", "attached", "poll", "empty", "busy", "answer", "stopped"}]
      /\ device \in [Callers -> Values] /\ c \in Callers
  BY DEF CosimInv, IpcTypeOK, SimTypeOK
<1>2. UNCHANGED <<call, place, cmdSeq, c1, timeOut, errCnt>>
  <2>1. UNCHANGED cSide
    BY DEF SimStep, DriverStep, Attach, Tick, PollNothing, TakeControl, WaitTilStart, PollPrint,
           PollCommand, PollShutdown, PollEmpty, PollDone, ProcessCmd, AckCmdNdone
  <2> QED BY <2>1 DEF cSide, moduleVars
<1>3. /\ slot[c].valid => call[c] = "waiting"
      /\ driver[c] \in {"busy", "answer"} => slot[c].valid
      /\ call[c] # "none" => slot[c].cmd.op # "shutdown"
  BY DEF CosimInv, MailInv, CoreCallInv
<1>4. place[c] \notin Reporting =>
        Testing(c) /\ (call[c] # "none" => IF place[c] = "playback" THEN slot[c].cmd = CommandCall(AtCommand(c))
                                           ELSE slot[c].cmd.op # "write")
  BY DEF TestInv, Testing, AsksForCommand
<1>5. AtCommand(c)' = AtCommand(c)
  BY <1>2 DEF AtCommand
\* The slot keeps the command and the block what it holds.
<1>6. ASSUME slot'[c].cmd = slot[c].cmd, slot'[c].par = slot[c].par,
             slot'[c].errCnt = slot[c].errCnt, device'[c] = device[c],
             Accessed(c)' <=> Accessed(c)
      PROVE  TestInv(c)' /\ Reported(c)'
  <2>1. place'[c] \notin Reporting => AsksForCommand(c)'
    BY <1>2, <1>4, <1>5, <1>6 DEF AsksForCommand
  <2>2. TestInv(c)'
    BY <1>2, <1>6, <2>1, TestKept
  <2> QED BY <1>2, <1>6, <2>2 DEF Reported
<1>7. ASSUME slot' = slot, device' = device, driver'[c] = "answer" <=> driver[c] = "answer"
      PROVE  TestInv(c)' /\ Reported(c)'
  BY <1>2, <1>6, <1>7 DEF Accessed, Executed
<1>8. CASE Attach
  <2>1. /\ slot' = slot /\ device' = device /\ driver[System] = "off"
        /\ driver' = [d \in Callers |-> IF d = System THEN "poll" ELSE "attached"]
    BY <1>8 DEF Attach
  <2>2. driver[c] = "off" /\ driver'[c] = "attached"
    BY <1>1, <2>1 DEF CosimInv, StartInv
  <2> QED BY <1>7, <2>1, <2>2
<1>9. CASE Tick
  BY <1>7, <1>9 DEF Tick
<1>10. ASSUME NEW d \in Callers, DriverStep(d) PROVE TestInv(c)' /\ Reported(c)'
  <2>1. CASE d # c
    <3>1. slot'[c] = slot[c] /\ device'[c] = device[c] /\ driver'[c] = driver[c]
      BY <1>1, <1>10, <2>1 DEF DriverStep, TakeControl, WaitTilStart, PollPrint, PollCommand,
         PollShutdown, PollEmpty, PollDone, PollNothing, ProcessCmd, AckCmdNdone, Become, simVars
    <3> QED BY <1>2, <1>6, <3>1 DEF Accessed, Executed
  <2>2. CASE d = c
    <3>1. CASE \/ TakeControl(c) \/ WaitTilStart(c) \/ PollCommand(c)
               \/ PollEmpty(c) \/ PollDone(c) \/ PollNothing(c)
      <4>1. /\ slot' = slot /\ device' = device
            /\ driver'[c] = "answer" <=> driver[c] = "answer"
        BY <1>1, <3>1 DEF TakeControl, WaitTilStart, PollCommand, PollEmpty, PollDone, PollNothing,
                          Polls, FoundEmpty, Become
      <4> QED BY <1>7, <4>1
    <3>2. CASE PollShutdown(c)
      BY <1>3, <3>2 DEF PollShutdown
    <3>3. CASE PollPrint(c)
      <4>1. /\ slot[c].valid /\ slot[c].cmd.op = "print" /\ driver[c] = "poll"
            /\ slot' = [slot EXCEPT ![c] = [slot[c] EXCEPT !.status = "success", !.valid = FALSE]]
            /\ driver' = driver /\ device' = device
        BY <3>3 DEF PollPrint, Polls, simVars
      <4>2. /\ slot'[c].cmd = slot[c].cmd /\ slot'[c].par = slot[c].par
            /\ slot'[c].errCnt = slot[c].errCnt
        BY <1>1, <4>1 DEF SlotType
      <4>3. CommandCall(AtCommand(c)).op # "print"
        BY DEF CommandCall, Write, Plain
      <4>4. place[c] # "playback"
        BY <1>3, <1>4, <4>1, <4>3 DEF Reporting
      <4> QED BY <1>2, <1>6, <4>1, <4>2, <4>4 DEF Accessed
    <3>4. CASE AckCmdNdone(c)
      <4>1. /\ driver[c] = "answer"
            /\ slot' = [slot EXCEPT ![c] = [slot[c] EXCEPT !.status = "success", !.valid = FALSE]]
            /\ device' = device
        BY <3>4 DEF AckCmdNdone
      <4>2. /\ slot'[c].cmd = slot[c].cmd /\ slot'[c].par = slot[c].par
            /\ slot'[c].errCnt = slot[c].errCnt /\ ~slot'[c].valid
        BY <1>1, <4>1 DEF SlotType
      <4>3. Accessed(c)' <=> Accessed(c)
        BY <1>2, <4>1, <4>2 DEF Accessed, Executed
      <4> QED BY <1>6, <4>1, <4>2, <4>3
    <3>5. CASE ProcessCmd(c)
      <4>1. /\ driver[c] = "busy" /\ driver'[c] = "answer"
            /\ device'[c] = IF slot[c].cmd.op = "write" THEN slot[c].cmd.dat ELSE device[c]
            /\ slot' = [slot EXCEPT ![c] = [slot[c] EXCEPT
                          !.par = IF slot[c].cmd.op = "read" THEN device[c] ELSE slot[c].par]]
        BY <1>1, <3>5 DEF ProcessCmd, Become
      <4>2. /\ slot'[c].cmd = slot[c].cmd /\ slot'[c].errCnt = slot[c].errCnt
            /\ slot'[c].par = IF slot[c].cmd.op = "read" THEN device[c] ELSE slot[c].par
        BY <1>1, <4>1 DEF SlotType
      <4>3. call[c] = "waiting" /\ slot[c].valid
        BY <1>3, <4>1
      <4>4. ~Accessed(c) /\ (Accessed(c)' <=> place[c] = "playback")
        BY <1>2, <4>1, <4>3 DEF Accessed, Executed
      <4>5. Reported(c)'
        BY <1>2, <4>2 DEF Reported
      <4>6. CASE place[c] \in Reporting
        BY <1>2, <4>5, <4>6 DEF TestInv
      <4>7. CASE place[c] \notin Reporting
        <5>1. /\ Testing(c) /\ call'[c] # "none"
              /\ IF place[c] = "playback" THEN slot[c].cmd = CommandCall(AtCommand(c))
                 ELSE slot[c].cmd.op # "write"
              /\ device[c] = InForce(cmdSeq[c], c1[c])
          BY <1>2, <1>4, <4>3, <4>4, <4>7 DEF Testing, BlockHolds
        <5>2. /\ CommandCall(AtCommand(c)).op \in {"write", "read"}
              /\ CommandCall(AtCommand(c)).op = "write" <=> AtCommand(c).op = "WRITE"
              /\ AtCommand(c).op = "WRITE" => CommandCall(AtCommand(c)).dat = AtCommand(c).dat
          BY DEF CommandCall, Write, Plain
        <5>3. BlockHolds(c)'
          BY <1>2, <1>5, <4>1, <4>4, <5>1, <5>2 DEF BlockHolds
        <5>4. AnswerIsBlock(c)'
          BY <1>2, <1>5, <4>1, <4>2, <4>4, <5>1, <5>2 DEF AnswerIsBlock
        <5>5. AsksForCommand(c)'
          BY <1>2, <1>5, <4>2, <5>1 DEF AsksForCommand
        <5>6. Tallied(c)' /\ Complaint(c)'
          BY <1>2, <1>5, <5>1 DEF Testing, Tallied, Complaint, TriesLeft
        <5> QED BY <1>2, <4>5, <4>7, <5>3, <5>4, <5>5, <5>6 DEF TestInv, Testing
      <4> QED BY <4>6, <4>7
    <3> QED BY <1>10, <2>2, <3>1, <3>2, <3>3, <3>4, <3>5 DEF DriverStep
  <2> QED BY <2>1, <2>2
<1> QED BY <1>8, <1>9, <1>10 DEF SimStep

TestsInv == \A c \in Cores : TestInv(c) /\ Reported(c)

LEMMA TestsInit == Init => TestsInv
<1> SUFFICES ASSUME Init, NEW c \in Cores PROVE TestInv(c) /\ Reported(c)
  BY DEF TestsInv
<1> USE CallerTypes
<1>1. /\ place[c] = "unborn" /\ c1[c] = 1 /\ errCnt[c] = 0 /\ device[c] = 0 /\ call[c] = "none"
      /\ timeOut[c] = TimeOutAt(c, 1) /\ cmdSeq[c] \in Captures
  BY DEF Init, MainInit, ModuleInit, SimInit, IpcInit
<1>2. slot[c].errCnt = 0
  <2>1. InitMe.errCnt = 0 /\ Stale.errCnt = 0
    BY DEF InitMe, Stale
  <2> QED BY <2>1 DEF Init, IpcInit
<1>3. Tallied(c)
  BY <1>1, Sequence DEF Tallied
<1>4. ~Accessed(c) /\ BlockHolds(c) /\ AsksForCommand(c) /\ AnswerIsBlock(c)
  BY <1>1, InForceFirst DEF Accessed, BlockHolds, AsksForCommand, AnswerIsBlock
<1>5. Complaint(c)
  BY <1>1 DEF Complaint, TriesLeft, TimeOutAt, AtCommand
<1> QED BY <1>1, <1>2, <1>3, <1>4, <1>5 DEF TestInv, Testing, Reporting, Reported

LEMMA TestUntouched ==
  ASSUME NEW c \in Cores, TestInv(c), Reported(c),
         place'[c] = place[c], slot'[c] = slot[c], call'[c] = call[c], c1'[c] = c1[c],
         timeOut'[c] = timeOut[c], errCnt'[c] = errCnt[c],
         device' = device, driver' = driver, cmdSeq' = cmdSeq
  PROVE  TestInv(c)' /\ Reported(c)'
<1>1. Accessed(c)' <=> Accessed(c)
  BY DEF Accessed, Executed
<1>2. AtCommand(c)' = AtCommand(c)
  BY DEF AtCommand
<1>3. place'[c] \notin Reporting => AsksForCommand(c)'
  BY <1>2 DEF TestInv, Testing, AsksForCommand
<1>4. TestInv(c)'
  BY <1>1, <1>3, TestKept
<1> QED BY <1>4 DEF Reported

LEMMA TestsNext == CosimInv /\ TestsInv /\ [Next]_vars => TestsInv'
<1> SUFFICES ASSUME CosimInv, TestsInv, [Next]_vars, NEW c \in Cores
             PROVE  TestInv(c)' /\ Reported(c)'
  BY DEF TestsInv
<1>1. TestInv(c) /\ Reported(c)
  BY DEF TestsInv
<1>2. CASE MainRuns
  BY <1>1, <1>2, MainTest
<1>3. CASE SimStep
  BY <1>1, <1>3, SimTest
<1>4. ASSUME NEW d \in Cores, ThreadRuns(d) PROVE TestInv(c)' /\ Reported(c)'
  <2>1. CASE d = c
    BY <1>1, <1>4, <2>1, ThreadTest, ThreadReports
  <2>2. CASE d # c
    <3>1. /\ place'[c] = place[c] /\ slot'[c] = slot[c] /\ call'[c] = call[c] /\ c1'[c] = c1[c]
          /\ timeOut'[c] = timeOut[c] /\ errCnt'[c] = errCnt[c]
      BY <1>4, <2>2, OthersData
    <3>2. UNCHANGED <<device, driver, cmdSeq>>
      <4>1. ThreadStep(d) => UNCHANGED cmdSeq
        BY DEF ThreadStep, NotifyAlive, SetStartFlag, FrameCall, FrameReturn, PassOver, Access,
               AccessReturn, EndPlayback, RaiseFlag, SetError, SetThreadDone, SetInactive, moduleVars
      <4> QED BY <1>4, <4>1 DEF ThreadRuns, Wake, moduleVars, simVars
    <3> QED BY <1>1, <3>1, <3>2, TestUntouched
  <2> QED BY <2>1, <2>2
<1>5. CASE UNCHANGED vars
  <2>1. /\ place' = place /\ slot' = slot /\ call' = call /\ c1' = c1 /\ timeOut' = timeOut
        /\ errCnt' = errCnt /\ device' = device /\ driver' = driver /\ cmdSeq' = cmdSeq
    BY <1>5 DEF vars, ipcVars, moduleVars, simVars
  <2> QED BY <1>1, <2>1, TestUntouched
<1> QED BY <1>2, <1>3, <1>4, <1>5 DEF Next

(* A core's test gives the verdict of its sequence on a block of its own,   *)
(* for every number of cores and every captured sequence, whatever the      *)
(* other threads, the main program and the simulator do in the meantime.    *)
THEOREM VerdictsExact == Spec => []VerdictExact
<1>1. TestsInv => VerdictExact
  BY DEF TestsInv, TestInv, VerdictExact, Reporting
<1>2. Init => TestsInv
  BY TestsInit
<1>3. CosimInv /\ TestsInv /\ [Next]_vars => TestsInv'
  BY TestsNext
<1> QED BY <1>1, <1>2, <1>3, CosimInvariant, PTL DEF Spec
------------------------------------------------------------------------------
\* The sum of the errors.  It is counted here as the size of a set, which
\* needs no recursion.
\* One element for each of the errors that v counts for a member of S.
Errors(v, S) == {p \in S \X Nat : p[2] < v[p[1]]}
Total(v, S)  == Cardinality(Errors(v, S))

LEMMA ErrorsAdd ==
  ASSUME NEW v, NEW S, IsFiniteSet(Errors(v, S)), NEW x, x \notin S, v[x] \in Nat
  PROVE  /\ IsFiniteSet(Errors(v, S \cup {x}))
         /\ Total(v, S \cup {x}) = v[x] + Total(v, S)
<1>1. Errors(v, S \cup {x}) = Errors(v, S) \cup Errors(v, {x})
  BY DEF Errors
<1>2. Errors(v, S) \cap Errors(v, {x}) = {}
  BY DEF Errors
<1>3. Errors(v, {x}) = {x} \X (0 .. v[x] - 1)
  BY DEF Errors
<1>4. IsFiniteSet({x}) /\ Cardinality({x}) = 1
  BY FS_Singleton
<1>5. IsFiniteSet(0 .. v[x] - 1) /\ Cardinality(0 .. v[x] - 1) = v[x]
  BY FS_Interval, SMTT(30)
<1>6. IsFiniteSet(Errors(v, {x})) /\ Cardinality(Errors(v, {x})) = v[x]
  <2>1. /\ IsFiniteSet({x} \X (0 .. v[x] - 1))
        /\ Cardinality({x} \X (0 .. v[x] - 1)) = Cardinality({x}) * Cardinality(0 .. v[x] - 1)
    BY <1>4, <1>5, FS_Product
  <2>2. /\ IsFiniteSet(Errors(v, {x}))
        /\ Cardinality(Errors(v, {x})) = Cardinality({x}) * Cardinality(0 .. v[x] - 1)
    BY <1>3, <2>1, Zenon
  <2> QED BY <1>4, <1>5, <2>2
<1>7. Cardinality({}) = 0 /\ Cardinality(Errors(v, S)) \in Nat
  BY FS_EmptySet, FS_CardinalityType
<1>8. /\ IsFiniteSet(Errors(v, S) \cup Errors(v, {x}))
      /\ Cardinality(Errors(v, S) \cup Errors(v, {x})) =
           Cardinality(Errors(v, S)) + Cardinality(Errors(v, {x}))
             - Cardinality(Errors(v, S) \cap Errors(v, {x}))
  <2> HIDE DEF Errors
  <2> QED BY <1>6, FS_Union
<1>9. /\ IsFiniteSet(Errors(v, S \cup {x}))
      /\ Cardinality(Errors(v, S \cup {x})) = Cardinality(Errors(v, S)) + v[x] - 0
  BY <1>1, <1>2, <1>6, <1>7, <1>8, Zenon
<1> QED BY <1>7, <1>9 DEF Total

\* A set of subsets of a finite set has a member with no smaller one in it.
LEMMA Smallest ==
  ASSUME NEW S, IsFiniteSet(S), NEW Bad, Bad \subseteq SUBSET S, Bad # {}
  PROVE  \E T \in Bad : \A x \in T : T \ {x} \notin Bad
<1>1. Bad \subseteq FiniteSubsetsOf(S)
  BY FS_Subset DEF FiniteSubsetsOf
<1>2. PICK T \in Bad : \A R \in Bad : <<R, T>> \notin StrictSubsetOrdering(S)
  BY <1>1, FS_StrictSubsetOrderingWellFounded, WFMin
<1>3. ASSUME NEW x \in T PROVE T \ {x} \notin Bad
  BY <1>2, <1>3 DEF StrictSubsetOrdering
<1> QED BY <1>2, <1>3

LEMMA ErrorsFinite ==
  ASSUME NEW S, IsFiniteSet(S), NEW v \in [S -> Nat]
  PROVE  \A T \in SUBSET S : IsFiniteSet(Errors(v, T))
<1> DEFINE Bad == {T \in SUBSET S : ~IsFiniteSet(Errors(v, T))}
<1>1. SUFFICES ASSUME Bad # {} PROVE FALSE
  OBVIOUS
<1>2. PICK T \in Bad : \A x \in T : T \ {x} \notin Bad
  BY <1>1, Smallest
<1>3. CASE T = {}
  <2>1. Errors(v, T) = {}
    BY <1>3 DEF Errors
  <2> QED BY <2>1, FS_EmptySet
<1>4. CASE T # {}
  <2>1. PICK x \in T : TRUE
    BY <1>4
  <2>2. IsFiniteSet(Errors(v, T \ {x}))
    BY <1>2
  <2>3. T = (T \ {x}) \cup {x} /\ v[x] \in Nat
    OBVIOUS
  <2> QED BY <2>2, <2>3, ErrorsAdd
<1> QED BY <1>3, <1>4

\* The sum of the verdicts, as the fold of the community modules defines it.
FirstOf(s) == CHOOSE x \in s : TRUE
AddsUp(seqs, S, iter) ==
  iter = [s \in SUBSET S |-> IF s = {} THEN 0
                             ELSE Verdict(seqs[FirstOf(s)]) + iter[s \ {FirstOf(s)}]]
SumOf(seqs, S) == (CHOOSE iter : AddsUp(seqs, S, iter))[S]

\* What the fold adds up is the number of errors.
LEMMA SumIsTotal ==
  ASSUME NEW S, IsFiniteSet(S), NEW v \in [S -> Nat], NEW seqs,
         \A c \in S : Verdict(seqs[c]) = v[c]
  PROVE  SumOf(seqs, S) = Total(v, S)
<1>1. ASSUME NEW s \in SUBSET S, s # {}
      PROVE  /\ FirstOf(s) \in s /\ s \ {FirstOf(s)} \in SUBSET S
             /\ Total(v, s) = Verdict(seqs[FirstOf(s)]) + Total(v, s \ {FirstOf(s)})
  <2>1. FirstOf(s) \in s
    BY <1>1 DEF FirstOf
  <2>2. s = (s \ {FirstOf(s)}) \cup {FirstOf(s)} /\ v[FirstOf(s)] \in Nat /\ s \ {FirstOf(s)} \in SUBSET S
    BY <2>1
  <2>3. IsFiniteSet(Errors(v, s \ {FirstOf(s)}))
    BY <2>2, ErrorsFinite
  <2> QED BY <2>1, <2>2, <2>3, ErrorsAdd
<1>2. Total(v, {}) = 0
  <2>1. Errors(v, {}) = {}
    BY DEF Errors
  <2> QED BY <2>1, FS_EmptySet DEF Total
<1>3. AddsUp(seqs, S, [s \in SUBSET S |-> Total(v, s)])
  BY <1>1, <1>2 DEF AddsUp
<1>4. ASSUME NEW iter, AddsUp(seqs, S, iter) PROVE iter[S] = Total(v, S)
  <2> DEFINE Bad == {s \in SUBSET S : iter[s] # Total(v, s)}
  <2>1. SUFFICES ASSUME Bad # {} PROVE FALSE
    OBVIOUS
  <2>2. PICK s \in Bad : \A x \in s : s \ {x} \notin Bad
    BY <2>1, Smallest
  <2>3. iter[s] = IF s = {} THEN 0 ELSE Verdict(seqs[FirstOf(s)]) + iter[s \ {FirstOf(s)}]
    BY <1>4 DEF AddsUp
  <2>4. CASE s = {}
    BY <1>2, <2>3, <2>4
  <2>5. CASE s # {}
    <3>1. /\ FirstOf(s) \in s /\ s \ {FirstOf(s)} \in SUBSET S
          /\ Total(v, s) = Verdict(seqs[FirstOf(s)]) + Total(v, s \ {FirstOf(s)})
      BY <1>1, <2>5
    <3>2. iter[s \ {FirstOf(s)}] = Total(v, s \ {FirstOf(s)})
      BY <2>2, <3>1
    <3> QED BY <2>3, <2>5, <3>1, <3>2
  <2> QED BY <2>4, <2>5
<1>5. AddsUp(seqs, S, CHOOSE iter : AddsUp(seqs, S, iter))
  BY <1>3
<1> QED BY <1>4, <1>5 DEF SumOf

LEMMA SameTotal ==
  ASSUME NEW v, NEW w, NEW S, \A x \in S : v[x] = w[x]
  PROVE  Total(v, S) = Total(w, S)
<1>1. Errors(v, S) = Errors(w, S)
  BY DEF Errors
<1> QED BY <1>1 DEF Total

\* The threads whose errors the main program has added up.
Counted == {c \in Cores : place[c] # "unborn" /\ c \notin active}

\* A thread that runs has been born, and is not unborn again.
LEMMA ThreadsLive ==
  ASSUME CosimInv, NEW d \in Cores, ThreadRuns(d)
  PROVE  \A c \in Cores : (place'[c] = "unborn" <=> place[c] = "unborn")
<1>1. Main' = Main /\ next' = next
  <2>1. place' = place \/ \E label : Goto(d, label)
    BY DEF ThreadRuns, ThreadStep, Wake, NotifyAlive, SetStartFlag, FrameCall, FrameReturn, PassOver,
       Access, AccessReturn, EndPlayback, RaiseFlag, SetError, SetThreadDone, SetInactive
  <2>2. place'[System] = place[System]
    BY <2>1, CallerTypes DEF Goto, CosimInv, CTypeOK
  <2> QED BY <2>2 DEF ThreadRuns, Wake, mainVars, Main
<1>2. CosimInv'
  BY ThreadInv
<1>3. Forked' = Forked
  BY <1>1 DEF Forked
<1> QED BY <1>2, <1>3 DEF CosimInv, StartInv

SumInv == mErrCnt = Total(errCnt, Counted)

LEMMA SumInit == Init => SumInv
<1> SUFFICES ASSUME Init PROVE SumInv
  OBVIOUS
<1> USE CallerTypes
<1>1. Counted = {} /\ mErrCnt = 0
  BY DEF Init, MainInit, Counted
<1>2. Errors(errCnt, {}) = {}
  BY DEF Errors
<1> QED BY <1>1, <1>2, FS_EmptySet DEF SumInv, Total

\* A count is added once, when its thread leaves the active ones.
LEMMA SumNext == CosimInv /\ TestsInv /\ SumInv /\ [Next]_vars => SumInv'
<1> SUFFICES ASSUME CosimInv, TestsInv, SumInv, [Next]_vars PROVE SumInv'
  OBVIOUS
<1> USE CallerTypes
<1>1. /\ place \in [Callers -> Places \cup MainPlaces] /\ errCnt \in [Cores -> Nat]
      /\ active \subseteq Cores /\ next \in 0 .. NumCores
  BY DEF CosimInv, CTypeOK
<1>2. ASSUME mErrCnt' = mErrCnt, active' = active,
             \A c \in Cores : (place'[c] = "unborn" <=> place[c] = "unborn"),
             \A c \in Counted : errCnt'[c] = errCnt[c]
      PROVE  SumInv'
  <2>1. Counted' = Counted
    BY <1>2 DEF Counted
  <2>2. Total(errCnt', Counted) = Total(errCnt, Counted)
    BY <1>2, SameTotal
  <2> QED BY <1>2, <2>1, <2>2 DEF SumInv
<1>3. ASSUME NEW label, Goto(System, label) PROVE \A c \in Cores : place'[c] = place[c]
  BY <1>1, <1>3 DEF Goto
<1>4. MainRuns => errCnt' = errCnt
  BY DEF MainRuns, moduleVars
<1>5. CASE MainRuns /\ ~Fork /\ ~Look
  <2>1. SetTheKey \/ InitSlots \/ SeeAlive \/ SetActive \/ MainCall \/ MainRaise \/ MainReturn \/ EndScan
    BY <1>5 DEF MainRuns, MainStep
  <2>2. mErrCnt' = mErrCnt /\ active' = active
    BY <2>1 DEF SetTheKey, InitSlots, SeeAlive, SetActive, MainCall, MainRaise, MainReturn, EndScan,
       mainVars
  <2>3. \A c \in Cores : place'[c] = place[c]
    BY <1>3, <2>1 DEF SetTheKey, InitSlots, SeeAlive, SetActive, MainCall, MainRaise, MainReturn, EndScan
  <2> QED BY <1>2, <1>4, <1>5, <2>2, <2>3
<1>6. CASE MainRuns /\ Fork
  <2>1. /\ Main = "fork" /\ place' = [place EXCEPT ![next] = "born", ![System] = "watch"]
        /\ active' = active \cup {next} /\ mErrCnt' = mErrCnt
    BY <1>6 DEF Fork
  <2>2. place[next] = "unborn" /\ next \in Cores
    <3>1. next \notin 0 .. next - 1
      BY <1>1
    <3> QED BY <2>1, <3>1 DEF CosimInv, StartInv, Forked
  <2>3. Counted' = Counted
    BY <1>1, <2>1, <2>2 DEF Counted
  <2> QED BY <1>4, <1>6, <2>1, <2>3 DEF SumInv
<1>7. CASE MainRuns /\ Look
  <2>1. Main = "scan" /\ next \in Cores /\ place' = place /\ errCnt' = errCnt
    BY <1>4, <1>7 DEF Look
  <2>2. CASE UNCHANGED <<active, mErrCnt>>
    BY <1>2, <2>1, <2>2
  <2>3. CASE /\ next \in active /\ slot[next].threadDone /\ active' = active \ {next}
             /\ mErrCnt' = mErrCnt + slot[next].errCnt
    <3>1. place[next] \in {"inactive", "ended"}
      BY <2>1, <2>3 DEF CosimInv, DoneInv, SlotsReady
    <3>2. slot[next].errCnt = errCnt[next] /\ errCnt[next] \in Nat
      BY <1>1, <2>1, <3>1 DEF TestsInv, Reported
    <3>3. Counted' = Counted \cup {next} /\ next \notin Counted
      BY <1>1, <2>1, <2>3, <3>1 DEF Counted
    <3>4. IsFiniteSet(Errors(errCnt, Counted))
      <4>1. IsFiniteSet(Cores) /\ Counted \in SUBSET Cores
        BY FS_Interval DEF Cores, Counted
      <4> QED BY <1>1, <4>1, ErrorsFinite
    <3>5. Total(errCnt, Counted \cup {next}) = errCnt[next] + Total(errCnt, Counted)
      BY <3>2, <3>3, <3>4, ErrorsAdd
    <3>6. mErrCnt \in Nat
      BY DEF CosimInv, CTypeOK
    <3> QED BY <2>1, <2>3, <3>2, <3>3, <3>5, <3>6 DEF SumInv
  <2> QED BY <1>7, <2>2, <2>3 DEF Look
<1>8. CASE SimStep
  <2>1. UNCHANGED cSide
    BY <1>8 DEF SimStep, DriverStep, Attach, Tick, PollNothing, TakeControl, WaitTilStart, PollPrint,
           PollCommand, PollShutdown, PollEmpty, PollDone, ProcessCmd, AckCmdNdone
  <2> QED BY <1>2, <2>1 DEF cSide, moduleVars, mainVars
<1>9. ASSUME NEW d \in Cores, ThreadRuns(d) PROVE SumInv'
  <2>1. mErrCnt' = mErrCnt /\ active' = active /\ next' = next
    BY <1>9 DEF ThreadRuns, Wake, mainVars
  <2>2. \A c \in Cores : c # d => place'[c] = place[c] /\ errCnt'[c] = errCnt[c]
    BY <1>9, OthersData
  <2>3. \A c \in Cores : (place'[c] = "unborn" <=> place[c] = "unborn")
    BY <1>9, ThreadsLive
  <2>5. CASE place[d] \in {"inactive", "ended"}
    <3>1. ~Wake(d) /\ ~NotifyAlive(d) /\ ~SetStartFlag(d) /\ ~FrameCall(d) /\ ~FrameReturn(d)
          /\ ~PassOver(d) /\ ~Access(d) /\ ~AccessReturn(d) /\ ~EndPlayback(d)
          /\ ~SetError(d) /\ ~SetThreadDone(d)
      BY <2>5 DEF Wake, NotifyAlive, SetStartFlag, FrameCall, FrameReturn, PassOver, Access,
         AccessReturn, EndPlayback, SetError, SetThreadDone, InPlayback
    <3>2. SetInactive(d) \/ RaiseFlag(d)
      BY <1>9, <3>1 DEF ThreadRuns, ThreadStep
    <3>3. errCnt' = errCnt
      BY <3>2 DEF SetInactive, RaiseFlag, moduleVars
    <3> QED BY <1>2, <2>1, <2>3, <3>3
  <2>6. CASE place[d] \notin {"inactive", "ended"}
    <3>1. d \notin Counted
      BY <2>6 DEF Counted, CosimInv, ActiveInv
    <3>2. Counted' = Counted
      BY <2>1, <2>3 DEF Counted
    <3>3. \A c \in Counted : errCnt'[c] = errCnt[c]
      BY <2>2, <3>1 DEF Counted
    <3>4. Total(errCnt', Counted) = Total(errCnt, Counted)
      BY <3>3, SameTotal
    <3> QED BY <2>1, <3>2, <3>4 DEF SumInv
  <2> QED BY <2>5, <2>6
<1>10. CASE UNCHANGED vars
  BY <1>2, <1>10 DEF vars, mainVars, moduleVars
<1> QED BY <1>5, <1>6, <1>7, <1>8, <1>9, <1>10 DEF Next

\* When the main program reports, every thread is done and has been counted
\* once: its sum is the sum of the verdicts, for every number of cores.
THEOREM NoErrorIsLost == Spec => []NoErrorLost
<1>1. CosimInv /\ TestsInv /\ SumInv => NoErrorLost
  <2> SUFFICES ASSUME CosimInv, TestsInv, SumInv, Main \in {"result", "shutdown", "exit"}
               PROVE  mErrCnt = MapThenSumSet(LAMBDA c : Verdict(cmdSeq[c]), Cores)
    BY DEF NoErrorLost
  <2>1. active = {}
    BY DEF CosimInv, EndInv
  <2>2. \A c \in Cores : place[c] \in {"inactive", "ended"}
    BY <2>1 DEF CosimInv, ActiveInv, StartInv, Forked
  <2>3. Counted = Cores
    BY <2>1, <2>2 DEF Counted
  <2>4. \A c \in Cores : Verdict(cmdSeq[c]) = errCnt[c]
    BY <2>2 DEF TestsInv, TestInv, Reporting
  <2>5. errCnt \in [Cores -> Nat]
    BY DEF CosimInv, CTypeOK
  <2>6. IsFiniteSet(Cores)
    BY FS_Interval DEF Cores
  <2>7. SumOf(cmdSeq, Cores) = Total(errCnt, Cores)
    BY <2>4, <2>5, <2>6, SumIsTotal
  <2>8. MapThenSumSet(LAMBDA c : Verdict(cmdSeq[c]), Cores) = SumOf(cmdSeq, Cores)
    BY DEF MapThenSumSet, MapThenFoldSet, SumOf, AddsUp, FirstOf
  <2> QED BY <2>3, <2>7, <2>8 DEF SumInv
<1>2. Init => TestsInv /\ SumInv
  BY TestsInit, SumInit
<1>3. CosimInv /\ (TestsInv /\ SumInv) /\ [Next]_vars => (TestsInv /\ SumInv)'
  BY TestsNext, SumNext
<1> QED BY <1>1, <1>2, <1>3, CosimInvariant, PTL DEF Spec
==============================================================================
