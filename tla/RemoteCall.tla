----------------------------- MODULE RemoteCall ------------------------------
(***************************************************************************)
(* What the mailboxes promise to the C side: a call is executed once, on   *)
(* the caller's own block of the device, and returns what that execution   *)
(* found there.                                                            *)
(***************************************************************************)
CONSTANTS
  Callers,        \* the threads of the C side
  Commands,       \* what they may ask for, records with op and dat
  NoCommand

VARIABLES
  request,        \* the call under way, or NoCommand
  executed,       \* whether it has been executed
  reply,          \* what the execution of a read found
  got,            \* what the caller's last read returned
  device          \* the block of each caller

callVars == <<request, executed, reply, got, device>>

Init ==
  /\ request = [c \in Callers |-> NoCommand]
  /\ executed = [c \in Callers |-> FALSE]
  /\ reply = [c \in Callers |-> 0]
  /\ got = [c \in Callers |-> 0]
  /\ device = [c \in Callers |-> 0]

Call(c, command) ==
  /\ request[c] = NoCommand
  /\ request' = [request EXCEPT ![c] = command]
  /\ UNCHANGED <<executed, reply, got, device>>

Execute(c) ==
  /\ request[c] # NoCommand /\ ~executed[c]
  /\ executed' = [executed EXCEPT ![c] = TRUE]
  /\ device' = [device EXCEPT ![c] = IF request[c].op = "write" THEN request[c].dat ELSE @]
  /\ reply' = [reply EXCEPT ![c] = IF request[c].op = "read" THEN device[c] ELSE @]
  /\ UNCHANGED <<request, got>>

Return(c) ==
  /\ executed[c]
  /\ request' = [request EXCEPT ![c] = NoCommand]
  /\ executed' = [executed EXCEPT ![c] = FALSE]
  /\ got' = [got EXCEPT ![c] = IF request[c].op = "read" THEN reply[c] ELSE @]
  /\ reply' = [reply EXCEPT ![c] = 0]
  /\ UNCHANGED device

Next ==
  \E c \in Callers :
    (\E command \in Commands : Call(c, command)) \/ Execute(c) \/ Return(c)

Spec == Init /\ [][Next]_callVars
==============================================================================
