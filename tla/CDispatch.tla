----------------------------- MODULE CDispatch -------------------------------
(***************************************************************************)
(* The main program of c_dispatch.cc over shPthread: it sets up the shared *)
(* memory, forks a thread for every core and waits to see each alive, goes *)
(* round the threads until all are done, adds up their errors, and shuts   *)
(* the simulator down.  Its own calls go through the system slot.          *)
(***************************************************************************)
EXTENDS CModule

VARIABLES
  next,           \* i of the loop it is in
  active,         \* globalThreadStatus: the threads not seen to be done
  allDone,        \* allDone of AllThreadDone
  mErrCnt         \* the errors added up so far

mainVars == <<next, active, allDone, mErrCnt>>

MainInit ==
  /\ place = [c \in Callers |-> IF c = System THEN "setTheKey" ELSE "unborn"]
  /\ next = 0 /\ active = {} /\ allDone = FALSE /\ mErrCnt = 0

Main == place[System]

\* shMemInit: the key goes to the file before the slots are initialised.
SetTheKey ==
  /\ Main = "setTheKey"
  /\ keyFile' = TRUE /\ Goto(System, "initSlots")
  /\ UNCHANGED <<slot, call, rdDat, mainVars>>

InitSlots ==
  /\ Main = "initSlots"
  /\ slot' = [c \in Callers |-> InitMe] /\ Goto(System, "fork")
  /\ UNCHANGED <<keyFile, call, rdDat, mainVars>>

\* ForkAThread, up to the loop that waits for the thread's ALIVE.
Fork ==
  /\ Main = "fork"
  /\ place' = [place EXCEPT ![next] = "born", ![System] = "watch"]
  /\ active' = active \cup {next}
  /\ UNCHANGED <<ipcVars, next, allDone, mErrCnt>>

SeeAlive ==
  /\ Main = "watch" /\ slot[next].status = "alive"
  /\ Goto(System, "setActive")
  /\ UNCHANGED <<ipcVars, mainVars>>

\* SetActiveStatus; the next thread, or on to dump_wave.
SetActive ==
  /\ Main = "setActive"
  /\ SetStatus(next, "active")
  /\ \/ next + 1 \in Cores /\ next' = next + 1 /\ Goto(System, "fork")
     \/ next + 1 \notin Cores /\ next' = 0 /\ Goto(System, "dumpWave")
  /\ UNCHANGED <<keyFile, call, rdDat, active, allDone, mErrCnt>>

MainCall ==
  /\ \/ Main = "dumpWave" /\ Call(System, Plain("writeDvt"))
     \/ Main = "result" /\ Call(System, Plain("print"))
     \/ Main = "shutdown" /\ Call(System, Plain("shutdown"))
  /\ UNCHANGED <<keyFile, place, mainVars>>

MainRaise == Raise(System) /\ UNCHANGED <<keyFile, place, mainVars>>

MainReturn ==
  /\ Return(System)
  /\ \/ Main = "dumpWave" /\ Goto(System, "scan") /\ allDone' = TRUE
     \/ Main = "result" /\ Goto(System, "shutdown") /\ UNCHANGED allDone
     \/ Main = "shutdown" /\ Goto(System, "exit") /\ UNCHANGED allDone
  /\ UNCHANGED <<keyFile, next, active, mErrCnt>>

\* Mutant of Look: the last thread decides.
LookLastDecides ==
  /\ Main = "scan" /\ next \in Cores
  /\ \/ next \notin active /\ allDone' = TRUE /\ UNCHANGED <<active, mErrCnt>>
     \/ /\ next \in active /\ slot[next].threadDone
        /\ active' = active \ {next} /\ allDone' = TRUE
        /\ mErrCnt' = mErrCnt + slot[next].errCnt
     \/ /\ next \in active /\ ~slot[next].threadDone
        /\ allDone' = FALSE /\ UNCHANGED <<active, mErrCnt>>
  /\ next' = next + 1
  /\ UNCHANGED <<ipcVars, place>>

\* AllThreadDone looks at one thread, and counts its errors when it is done.
Look ==
  /\ Main = "scan" /\ next \in Cores
  /\ \/ next \notin active /\ UNCHANGED <<active, allDone, mErrCnt>>
     \/ /\ next \in active /\ slot[next].threadDone
        /\ active' = active \ {next}
        /\ mErrCnt' = mErrCnt + slot[next].errCnt /\ UNCHANGED allDone
     \/ /\ next \in active /\ ~slot[next].threadDone
        /\ allDone' = FALSE /\ UNCHANGED <<active, mErrCnt>>
  /\ next' = next + 1
  /\ UNCHANGED <<ipcVars, place>>

EndScan ==
  /\ Main = "scan" /\ next \notin Cores
  /\ \/ allDone /\ Goto(System, "result") /\ UNCHANGED allDone
     \/ ~allDone /\ allDone' = TRUE /\ UNCHANGED place
  /\ next' = 0
  /\ UNCHANGED <<ipcVars, active, mErrCnt>>

MainStep ==
  \/ SetTheKey \/ InitSlots \/ Fork \/ SeeAlive \/ SetActive
  \/ MainCall \/ MainRaise \/ MainReturn \/ Look \/ EndScan
==============================================================================
