-------------------------------- MODULE Cosim --------------------------------
(***************************************************************************)
(* The co-simulation: the threads of the C side and the simulator, on the  *)
(* mailboxes between them.                                                 *)
(***************************************************************************)
EXTENDS SimDrivers, FiniteSetsExt

vars == <<ipcVars, place, moduleVars, mainVars, simVars>>

Init == IpcInit /\ ModuleInit /\ MainInit /\ SimInit

\* sleep(1) gives the main program the time to see the thread's ALIVE, which
\* its first command overwrites.  Nothing but time sees to that.
SeenAlive(c) == c < next \/ Main \notin {"fork", "watch"}

\* Mutant of Wake: the thread does not wait to be seen alive.
WakeAtOnce(c) ==
  /\ place[c] = "asleep"
  /\ Goto(c, "calibrate")
  /\ UNCHANGED <<ipcVars, moduleVars, mainVars, simVars>>

Wake(c) ==
  /\ place[c] = "asleep" /\ SeenAlive(c)
  /\ Goto(c, "calibrate")
  /\ UNCHANGED <<ipcVars, moduleVars, mainVars, simVars>>

ThreadRuns(c) ==
  \/ Wake(c)
  \/ ThreadStep(c) /\ UNCHANGED <<keyFile, mainVars, simVars>>

MainRuns == MainStep /\ UNCHANGED <<moduleVars, simVars>>

Next == MainRuns \/ SimStep \/ \E c \in Cores : ThreadRuns(c)

\* The operating system runs every thread and the simulator.
Spec == /\ Init /\ [][Next]_vars
        /\ WF_vars(MainRuns) /\ WF_vars(SimStep)
        /\ \A c \in Cores : WF_vars(ThreadRuns(c))

------------------------------------------------------------------------------
Places == {"unborn", "born", "alive", "asleep", "calibrate", "playback", "complain",
           "report", "setError", "threadDone", "inactive", "ended"}
MainPlaces == {"setTheKey", "initSlots", "fork", "watch", "setActive", "dumpWave",
               "scan", "result", "shutdown", "exit"}

\* Every variable has its type.
TypeOK ==
  /\ keyFile \in BOOLEAN
  /\ slot \in [Callers -> [valid : BOOLEAN, status : Statuses, cmd : Commands \cup {NoCommand},
                           par : Values, errCnt : Nat, threadDone : BOOLEAN, startFlag : BOOLEAN]]
  /\ call \in [Callers -> {"none", "posted", "waiting"}] /\ rdDat \in [Callers -> Values]
  /\ place \in [Callers -> Places \cup MainPlaces] /\ cmdSeq \in [Cores -> Captures]
  /\ c1 \in [Cores -> Nat] /\ timeOut \in [Cores -> Nat] /\ errCnt \in [Cores -> Nat]
  /\ next \in 0 .. NumCores /\ active \subseteq Cores /\ allDone \in BOOLEAN /\ mErrCnt \in Nat
  /\ driver \in [Callers -> {"off", "attached", "poll", "empty", "busy", "answer", "stopped"}]
  /\ inProgress \in [Callers -> BOOLEAN] /\ clocks \in [Callers -> 0 .. MaxClocks]
  /\ control \in Callers \cup {Nobody} /\ device \in [Callers -> Values]
  /\ time2Shutdown \in BOOLEAN /\ finished \in BOOLEAN

\* What a captured sequence finds: the data of the last write before command n.
InForce(seq, n) ==
  LET writes == {m \in 1 .. n - 1 : seq[m].op = "WRITE" /\ seq[m].inRange}
  IN  IF writes = {} THEN 0 ELSE seq[Max(writes)].dat

Fails(seq, n) ==
  /\ seq[n].inRange /\ seq[n].op # "WRITE" /\ seq[n].dat # InForce(seq, n)
  /\ seq[n].op = "RDSPIN" => seq[n].timeOut > 0

\* The command that cep_playback reports: the first that compares wrong, or
\* else the last that ran out of tries.
Verdict(seq) ==
  LET failing    == {n \in DOMAIN seq : Fails(seq, n)}
      mismatches == {n \in failing : seq[n].op = "RDnCMP"}
  IN  IF mismatches # {} THEN Min(mismatches)
      ELSE IF failing # {} THEN Max(failing) ELSE 0

\* Whatever the threads and the simulator do in the meantime, a core's test
\* gives the verdict that its sequence has on a block of its own.
VerdictExact ==
  \A c \in Cores : place[c] \in {"report", "setError", "threadDone", "inactive", "ended"}
                     => errCnt[c] = Verdict(cmdSeq[c])

\* The main program reports when every thread is done, and counts what each
\* of them found exactly once.
NoErrorLost ==
  Main \in {"result", "shutdown", "exit"} =>
    mErrCnt = MapThenSumSet(LAMBDA c : Verdict(cmdSeq[c]), Cores)

\* A core's driver stops only when its thread will never call again: no
\* command is left without an answer.
NoneLeftBehind ==
  \A c \in Cores : driver[c] = "stopped" => place[c] \in {"inactive", "ended"}

\* The simulator ends after the last command of the C side, never before.
FinishIsLast ==
  finished => /\ \A c \in Cores : place[c] \in {"inactive", "ended"}
              /\ slot[System].valid = FALSE

\* The mailboxes implement calls that are executed once and return their own data.
Calling(c)  == call[c] # "none"
Executed(c) == call[c] = "waiting" /\ (~slot[c].valid \/ driver[c] = "answer")

Mailbox == INSTANCE RemoteCall WITH
  request  <- [c \in Callers |-> IF Calling(c) THEN slot[c].cmd ELSE NoCommand],
  executed <- [c \in Callers |-> Executed(c)],
  reply    <- [c \in Callers |->
                 IF Executed(c) /\ slot[c].cmd.op = "read" THEN slot[c].par ELSE 0],
  got      <- rdDat

ImplementsRemoteCall == Mailbox!Spec

\* Every test ends: the simulator stops and the main program exits.
Terminates == <>(finished /\ Main = "exit")
==============================================================================
