----------------------------- MODULE SimDrivers ------------------------------
(***************************************************************************)
(* The simulator's side: a driver for every core (driver_common.incl) and  *)
(* one for the main program (sys_common.incl), which poll their slots with *)
(* get_v2c_mail and answer with send_v2c_mail.  The simulator is a single  *)
(* thread: a driver keeps control until it waits for a clock, and a core's *)
(* driver polls without waiting, so time stands still until its thread has *)
(* sent a command or is done.                                              *)
(***************************************************************************)
EXTENDS CDispatch

CONSTANT
  MaxClocks       \* bound on the clocks that a command takes

ASSUME ClocksAssumption == MaxClocks \in Nat \ {0}

VARIABLES
  driver,         \* where each driver is
  inProgress,     \* __shIpc_InProgress: it has taken a command
  clocks,         \* clocks it waits for
  control,        \* the driver that the simulator runs, or Nobody
  device,         \* the block of each core
  time2Shutdown,  \* __shIpc_Time2Shutdown of the system driver
  finished        \* $finish

Nobody == NumCores + 1

simVars == <<driver, inProgress, clocks, control, device, time2Shutdown, finished>>

SimInit ==
  /\ driver = [d \in Callers |-> "off"]
  /\ inProgress = [d \in Callers |-> FALSE]
  /\ clocks = [d \in Callers |-> 0]
  /\ control = Nobody
  /\ device = [d \in Callers |-> 0]
  /\ time2Shutdown = FALSE /\ finished = FALSE

cSide == <<keyFile, call, rdDat, place, moduleVars, mainVars>>

Become(d, label) == driver' = [driver EXCEPT ![d] = label]

\* Gives control away for n clocks; none keeps it.
Wait(d, n) ==
  /\ clocks' = [clocks EXCEPT ![d] = n]
  /\ control' = IF n = 0 THEN control ELSE Nobody

\* The drivers attach when the key is there, at the start of the simulation.
\* That the slots are initialised by then is a matter of time, not of the code.
SlotsInitialised == Main \notin {"setTheKey", "initSlots"}

Attach ==
  /\ driver[System] = "off" /\ keyFile /\ SlotsInitialised
  /\ driver' = [d \in Callers |-> IF d = System THEN "poll" ELSE "attached"]
  /\ clocks' = [d \in Callers |-> 1]
  /\ UNCHANGED <<cSide, slot, inProgress, control, device, time2Shutdown, finished>>

Ready(d) == driver[d] \notin {"off", "stopped"} /\ clocks[d] = 0

TakeControl(d) ==
  /\ control = Nobody /\ Ready(d) /\ ~finished
  /\ control' = d
  /\ UNCHANGED <<cSide, slot, driver, inProgress, clocks, device, time2Shutdown, finished>>

\* Mutant of Tick: counts on below zero.
TickBelowZero ==
  /\ control = Nobody /\ driver[System] # "off" /\ ~finished
  /\ \A d \in Callers : ~Ready(d)
  /\ clocks' = [d \in Callers |-> clocks[d] - 1]
  /\ finished' = time2Shutdown
  /\ UNCHANGED <<cSide, slot, driver, inProgress, control, device, time2Shutdown>>

Tick ==
  /\ control = Nobody /\ driver[System] # "off" /\ ~finished
  /\ \A d \in Callers : ~Ready(d)
  /\ clocks' = [d \in Callers |-> IF clocks[d] = 0 THEN 0 ELSE clocks[d] - 1]
  /\ finished' = time2Shutdown
  /\ UNCHANGED <<cSide, slot, driver, inProgress, control, device, time2Shutdown>>

\* WaitTilStart blocks; then a clock, and the driver is enabled.
WaitTilStart(d) ==
  /\ control = d /\ driver[d] = "attached" /\ slot[d].startFlag
  /\ Become(d, "poll") /\ Wait(d, 1)
  /\ UNCHANGED <<cSide, slot, inProgress, device, time2Shutdown, finished>>

Polls(d) == control = d /\ driver[d] = "poll"

\* A print is done by get_v2c_mail itself; the driver does not hear of it.
PollPrint(d) ==
  /\ Polls(d) /\ slot[d].valid /\ slot[d].cmd.op = "print"
  /\ slot' = [slot EXCEPT ![d].status = "success", ![d].valid = FALSE]
  /\ UNCHANGED <<cSide, simVars>>

\* Mutant of PollCommand: the flag is lowered when the command is taken.
PollCommandLowersFlag(d) ==
  /\ Polls(d) /\ slot[d].valid /\ slot[d].cmd.op \notin {"print", "shutdown"}
  /\ slot' = [slot EXCEPT ![d].valid = FALSE]
  /\ inProgress' = [inProgress EXCEPT ![d] = TRUE]
  /\ Become(d, "busy")
  /\ \E n \in 0 .. MaxClocks : Wait(d, n)
  /\ UNCHANGED <<cSide, device, time2Shutdown, finished>>

PollCommand(d) ==
  /\ Polls(d) /\ slot[d].valid /\ slot[d].cmd.op \notin {"print", "shutdown"}
  /\ inProgress' = [inProgress EXCEPT ![d] = TRUE]
  /\ Become(d, "busy")
  /\ \E n \in 0 .. MaxClocks : Wait(d, n)
  /\ UNCHANGED <<cSide, slot, device, time2Shutdown, finished>>

PollShutdown(d) ==
  /\ Polls(d) /\ slot[d].valid /\ slot[d].cmd.op = "shutdown"
  /\ slot' = [slot EXCEPT ![d].threadDone = TRUE, ![d].status = "inactive"]
  /\ inProgress' = [inProgress EXCEPT ![d] = TRUE]
  /\ Become(d, "busy")
  /\ UNCHANGED <<cSide, clocks, control, device, time2Shutdown, finished>>

\* The flag is found down; the status is looked at later, and the thread stores on.
PollEmpty(d) ==
  /\ Polls(d) /\ ~slot[d].valid
  /\ Become(d, "empty")
  /\ UNCHANGED <<cSide, slot, inProgress, clocks, control, device, time2Shutdown, finished>>

FoundEmpty(d) == control = d /\ driver[d] = "empty"

IsDone(d) == slot[d].status = "inactive" \/ slot[d].threadDone

\* Mutant of PollDone: a driver stops when it finds no command.
PollDoneEarly(d) ==
  /\ FoundEmpty(d) /\ inProgress[d]
  /\ Become(d, "stopped") /\ inProgress' = [inProgress EXCEPT ![d] = FALSE]
  /\ control' = Nobody
  /\ UNCHANGED <<cSide, slot, clocks, device, time2Shutdown, finished>>

\* No command from a thread that is done: the driver's loop ends, if it has
\* ever had a command.
PollDone(d) ==
  /\ FoundEmpty(d) /\ IsDone(d) /\ inProgress[d]
  /\ Become(d, "stopped") /\ inProgress' = [inProgress EXCEPT ![d] = FALSE]
  /\ control' = Nobody
  /\ UNCHANGED <<cSide, slot, clocks, device, time2Shutdown, finished>>

\* No command yet: the system driver waits for a clock, any other polls on.
PollNothing(d) ==
  /\ FoundEmpty(d) /\ ~(IsDone(d) /\ inProgress[d])
  /\ Become(d, "poll") /\ Wait(d, IF d = System THEN 1 ELSE 0)
  /\ UNCHANGED <<cSide, slot, inProgress, device, time2Shutdown, finished>>

\* processCmd, and the data of the answer.
ProcessCmd(d) ==
  /\ control = d /\ driver[d] = "busy"
  /\ LET cmd == slot[d].cmd IN
     /\ device' = [device EXCEPT ![d] = IF cmd.op = "write" THEN cmd.dat ELSE @]
     /\ slot' = [slot EXCEPT ![d].par = IF cmd.op = "read" THEN device[d] ELSE @]
     /\ time2Shutdown' = (time2Shutdown \/ cmd.op = "shutdown")
  /\ Become(d, "answer")
  /\ UNCHANGED <<cSide, inProgress, clocks, control, finished>>

AckCmdNdone(d) ==
  /\ control = d /\ driver[d] = "answer"
  /\ slot' = [slot EXCEPT ![d].status = "success", ![d].valid = FALSE]
  /\ Become(d, "poll")
  /\ UNCHANGED <<cSide, inProgress, clocks, control, device, time2Shutdown, finished>>

DriverStep(d) ==
  \/ TakeControl(d) \/ WaitTilStart(d) \/ PollPrint(d) \/ PollCommand(d)
  \/ PollShutdown(d) \/ PollEmpty(d) \/ PollDone(d) \/ PollNothing(d)
  \/ ProcessCmd(d) \/ AckCmdNdone(d)

SimStep == Attach \/ Tick \/ \E d \in Callers : DriverStep(d)
==============================================================================
