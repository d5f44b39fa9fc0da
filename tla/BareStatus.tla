----------------------------- MODULE BareStatus ------------------------------
(***************************************************************************)
(* How a bare-metal program and the simulation agree on its end: the core  *)
(* writes its status register (set_cur_status, set_status of cep_apis.cc), *)
(* the core's thread on the C side polls it, counts what is wrong and puts *)
(* the core in reset (check_bare_status).                                  *)
(***************************************************************************)
EXTENDS CepApis

CONSTANTS
  Watched,        \* the active mask: the cores that have a thread
  MaxPolls        \* maxTimeOut of check_bare_status, 500 in the code

ASSUME PollsAssumption == Watched \subseteq Cores /\ MaxPolls \in Nat \ {0}

VARIABLES
  status,         \* core0_status .. core3_status
  watch,          \* where the thread of each core is
  polls,          \* i of check_bare_status
  errCnt          \* errCnt of check_bare_status

statusVars == <<status, watch, polls, errCnt>>

StatusInit ==
  /\ status = [c \in Cores |-> "none"]
  /\ watch = [c \in Cores |-> IF c \in Watched THEN "poll" ELSE "off"]
  /\ polls = [c \in Cores |-> 0]
  /\ errCnt = [c \in Cores |-> 0]

SetStatus(c, value) ==
  /\ status' = [status EXCEPT ![c] = value]
  /\ UNCHANGED <<watch, polls, errCnt>>

Reported(c) == status[c] \in {"good", "bad"}
LastPoll(c) == polls[c] + 1 = MaxPolls

\* Mutant of Poll: running out of polls is not counted.
PollForgivesTimeOut(c) ==
  /\ watch[c] = "poll"
  /\ polls' = [polls EXCEPT ![c] = @ + 1]
  /\ errCnt' = [errCnt EXCEPT ![c] = IF status[c] = "bad" THEN @ + 1 ELSE @]
  /\ watch' = [watch EXCEPT ![c] = IF Reported(c) \/ LastPoll(c) THEN "reset" ELSE "poll"]
  /\ QuietCycle /\ pc' = Acked /\ Stay /\ UNCHANGED status

\* BAD counts, and so does the last poll, whatever it finds.
Poll(c) ==
  /\ watch[c] = "poll"
  /\ polls' = [polls EXCEPT ![c] = @ + 1]
  /\ errCnt' = [errCnt EXCEPT ![c] =
       @ + (IF status[c] = "bad" THEN 1 ELSE 0) + (IF LastPoll(c) THEN 1 ELSE 0)]
  /\ watch' = [watch EXCEPT ![c] = IF Reported(c) \/ LastPoll(c) THEN "reset" ELSE "poll"]
  /\ QuietCycle /\ pc' = Acked /\ Stay /\ UNCHANGED status

\* A core in reset does nothing any more, like one that is done.
PutInReset(c) ==
  /\ watch[c] = "reset"
  /\ watch' = [watch EXCEPT ![c] = "over"]
  /\ Goto(c, "done")
  /\ QuietCycle /\ Stay /\ UNCHANGED <<status, polls, errCnt>>
==============================================================================
