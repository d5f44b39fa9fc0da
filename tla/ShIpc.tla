------------------------------- MODULE ShIpc ---------------------------------
(***************************************************************************)
(* The shared memory between the C program and the simulator: a slot for   *)
(* every thread of the C side (shIpc), and the call that a thread makes    *)
(* through its slot, SendCmdNwait, store by store.                         *)
(***************************************************************************)
EXTENDS Naturals

CONSTANTS
  NumCores,       \* cores whose bit is in the active mask
  Values          \* data that is written and read, with 0

ASSUME ShIpcAssumption == NumCores \in Nat \ {0} /\ 0 \in Values

Cores   == 0 .. NumCores - 1
System  == NumCores                  \* the slot of the main program
Callers == Cores \cup {System}

VARIABLES
  keyFile,        \* C2VKeyFile is there for the simulator to read
  slot,           \* the slots of the segment
  call,           \* how far each thread is in SendCmdNwait
  rdDat           \* what its last read returned

ipcVars == <<keyFile, slot, call, rdDat>>

NoCommand == [op |-> "none", dat |-> 0]
Write(v)  == [op |-> "write", dat |-> v]
Plain(op) == [op |-> op, dat |-> 0]
Commands  == {Write(v) : v \in Values} \cup
             {Plain(op) : op \in {"read", "runClk", "print", "writeDvt", "shutdown"}}

Statuses == {"inactive", "active", "pending", "success", "alive"}

\* InitMe; and what a program that ended leaves in the segment (one that was
\* killed may leave a flag up too).
InitMe == [valid |-> FALSE, status |-> "success", cmd |-> NoCommand, par |-> 0,
           errCnt |-> 0, threadDone |-> FALSE, startFlag |-> FALSE]
Stale  == [InitMe EXCEPT !.status = "inactive", !.threadDone = TRUE, !.startFlag = TRUE]

IpcInit ==
  /\ keyFile = FALSE
  /\ \E s \in {InitMe, Stale} : slot = [c \in Callers |-> s]
  /\ call = [c \in Callers |-> "none"]
  /\ rdDat = [c \in Callers |-> 0]

SetStatus(c, status) == slot' = [slot EXCEPT ![c].status = status]

\* SendCmdNwait: arguments, status and command first, then the flag, then the wait.
Call(c, command) ==
  /\ call[c] = "none"
  /\ slot' = [slot EXCEPT ![c].cmd = command, ![c].status = "pending"]
  /\ call' = [call EXCEPT ![c] = "posted"]
  /\ UNCHANGED rdDat

Raise(c) ==
  /\ call[c] = "posted"
  /\ slot' = [slot EXCEPT ![c].valid = TRUE]
  /\ call' = [call EXCEPT ![c] = "waiting"]
  /\ UNCHANGED rdDat

\* Mutant of Return: every status but SUCCESS is an error.
ReturnStrict(c) ==
  /\ call[c] = "waiting" /\ ~slot[c].valid
  /\ slot' = [slot EXCEPT ![c].errCnt = IF slot[c].status # "success" THEN @ + 1 ELSE @]
  /\ call' = [call EXCEPT ![c] = "none"]
  /\ rdDat' = [rdDat EXCEPT ![c] = IF slot[c].cmd.op = "read" THEN slot[c].par ELSE @]

\* The flag is down again: CheckCmdOK, and the data of a read.
Return(c) ==
  /\ call[c] = "waiting" /\ ~slot[c].valid
  /\ slot' = [slot EXCEPT ![c].errCnt =
                IF slot[c].status # "success" /\ slot[c].valid THEN @ + 1 ELSE @]
  /\ call' = [call EXCEPT ![c] = "none"]
  /\ rdDat' = [rdDat EXCEPT ![c] = IF slot[c].cmd.op = "read" THEN slot[c].par ELSE @]
==============================================================================
