------------------------------ MODULE CModule --------------------------------
(***************************************************************************)
(* The thread of a core on the C side: the frame that every c_module.cc    *)
(* shares, and cep_playback of cep_apis.cc as the test that runs in it.    *)
(* A command of a captured sequence writes, reads and compares, or reads   *)
(* until the data is there; one outside the address range is passed over.  *)
(***************************************************************************)
EXTENDS ShIpc, Sequences

CONSTANT
  Captures        \* command sequences that a core may be given

CaptureCommand == [op : {"WRITE", "RDnCMP", "RDSPIN"}, inRange : BOOLEAN, dat : Values, timeOut : Nat]

ASSUME CaptureAssumption == Captures \subseteq Seq(CaptureCommand)

VARIABLES
  place,          \* where each thread is, the main program among them
  cmdSeq,         \* the sequence that a core replays
  c1,             \* c of the loop over it
  timeOut,        \* TO of an RDSPIN
  errCnt          \* errCnt of cep_playback

moduleVars == <<cmdSeq, c1, timeOut, errCnt>>

TimeOutAt(c, n) == IF n \in DOMAIN cmdSeq[c] THEN cmdSeq[c][n].timeOut ELSE 0

ModuleInit ==
  /\ cmdSeq \in [Cores -> Captures]
  /\ c1 = [c \in Cores |-> 1]
  /\ timeOut = [c \in Cores |-> TimeOutAt(c, 1)]
  /\ errCnt = [c \in Cores |-> 0]

Goto(c, label) == place' = [place EXCEPT ![c] = label]

NextCommand(c) ==
  /\ c1' = [c1 EXCEPT ![c] = @ + 1]
  /\ timeOut' = [timeOut EXCEPT ![c] = TimeOutAt(c, c1[c] + 1)]

Loop(c) == UNCHANGED <<c1, timeOut>>

\* SetAliveStatus is two stores; then the thread sleeps for a second.
NotifyAlive(c) ==
  /\ place[c] = "born"
  /\ SetStatus(c, "alive") /\ Goto(c, "alive")
  /\ UNCHANGED <<call, rdDat, moduleVars>>

SetStartFlag(c) ==
  /\ place[c] = "alive"
  /\ slot' = [slot EXCEPT ![c].startFlag = TRUE] /\ Goto(c, "asleep")
  /\ UNCHANGED <<call, rdDat, moduleVars>>

\* The frame's own commands: clocks before the test, the report after it.
FrameCall(c) ==
  /\ \/ place[c] = "calibrate" /\ Call(c, Plain("runClk"))
     \/ place[c] \in {"complain", "report"} /\ Call(c, Plain("print"))
  /\ UNCHANGED <<place, moduleVars>>

FrameReturn(c) ==
  /\ Return(c)
  /\ \/ place[c] = "calibrate" /\ Goto(c, "playback") /\ UNCHANGED moduleVars
     \/ place[c] = "report" /\ Goto(c, "setError") /\ UNCHANGED moduleVars
     \/ \* the error message of cep_playback, which a mismatch ends
        /\ place[c] = "complain"
        /\ errCnt' = [errCnt EXCEPT ![c] = c1[c]]
        /\ \/ cmdSeq[c][c1[c]].op = "RDnCMP" /\ Goto(c, "report") /\ Loop(c)
           \/ cmdSeq[c][c1[c]].op = "RDSPIN" /\ Goto(c, "playback") /\ NextCommand(c)
        /\ UNCHANGED cmdSeq

InPlayback(c) == place[c] = "playback" /\ c1[c] \in DOMAIN cmdSeq[c]
\* Mutant of Due: the address range is not looked at.
DueAnywhere(c) == cmdSeq[c][c1[c]].op = "RDSPIN" => timeOut[c] > 0

Due(c) ==
  LET cmd == cmdSeq[c][c1[c]] IN cmd.inRange /\ (cmd.op = "RDSPIN" => timeOut[c] > 0)

PassOver(c) ==
  /\ InPlayback(c) /\ ~Due(c) /\ call[c] = "none"
  /\ NextCommand(c)
  /\ UNCHANGED <<slot, call, rdDat, place, cmdSeq, errCnt>>

Access(c) ==
  /\ InPlayback(c) /\ Due(c)
  /\ Call(c, IF cmdSeq[c][c1[c]].op = "WRITE" THEN Write(cmdSeq[c][c1[c]].dat) ELSE Plain("read"))
  /\ UNCHANGED <<place, moduleVars>>

\* A write is done; a read is compared, and an RDSPIN read may be repeated.
AccessReturn(c) ==
  /\ InPlayback(c) /\ Return(c)
  /\ LET cmd     == cmdSeq[c][c1[c]]
         matches == cmd.op = "WRITE" \/ rdDat'[c] = cmd.dat IN
     \/ matches /\ NextCommand(c) /\ UNCHANGED place
     \/ ~matches /\ cmd.op = "RDnCMP" /\ Goto(c, "complain") /\ Loop(c)
     \/ /\ ~matches /\ cmd.op = "RDSPIN"
        /\ timeOut' = [timeOut EXCEPT ![c] = @ - 1] /\ UNCHANGED c1
        /\ IF timeOut'[c] = 0 THEN Goto(c, "complain") ELSE UNCHANGED place
  /\ UNCHANGED <<cmdSeq, errCnt>>

EndPlayback(c) ==
  /\ place[c] = "playback" /\ c1[c] \notin DOMAIN cmdSeq[c]
  /\ Goto(c, "report")
  /\ UNCHANGED <<slot, call, rdDat, moduleVars>>

\* SetError, then the two stores of SetThreadDone.
SetError(c) ==
  /\ place[c] = "setError"
  /\ slot' = [slot EXCEPT ![c].errCnt = @ + errCnt[c]] /\ Goto(c, "threadDone")
  /\ UNCHANGED <<call, rdDat, moduleVars>>

SetThreadDone(c) ==
  /\ place[c] = "threadDone"
  /\ slot' = [slot EXCEPT ![c].threadDone = TRUE] /\ Goto(c, "inactive")
  /\ UNCHANGED <<call, rdDat, moduleVars>>

SetInactive(c) ==
  /\ place[c] = "inactive"
  /\ SetStatus(c, "inactive") /\ Goto(c, "ended")
  /\ UNCHANGED <<call, rdDat, moduleVars>>

RaiseFlag(c) == Raise(c) /\ UNCHANGED <<place, moduleVars>>

ThreadStep(c) ==
  \/ NotifyAlive(c) \/ SetStartFlag(c) \/ FrameCall(c) \/ FrameReturn(c)
  \/ PassOver(c) \/ Access(c) \/ AccessReturn(c) \/ EndPlayback(c) \/ RaiseFlag(c)
  \/ SetError(c) \/ SetThreadDone(c) \/ SetInactive(c)
==============================================================================
