------------------------------ MODULE SrotAlone ------------------------------
(***************************************************************************)
(* The SRoT between a processor and an arbitrary bus: in every cycle the   *)
(* bus may grant, raise an error and answer, asked or not.  What holds     *)
(* here holds whatever the fabric and the LLKI-PP do.                      *)
(***************************************************************************)
EXTENDS Driver

CONSTANT BusResponses      \* what a response of the bus may carry

ASSUME BusAssumption ==
  \A rsp \in BusResponses :
    rsp.msg_id \in Byte /\ rsp.status \in Byte /\ rsp.msg_len \in Byte

vars == <<srotVars, driverVars>>

Init ==
  /\ keyindexram = [s \in IndexSlots |-> InvalidEntry]
  /\ keyram = [s \in KeySlots |-> ZeroWord]
  /\ SrotInit /\ DriverInit

BusCycle ==
  \E gnt, err \in BOOLEAN, rsp \in BusResponses \cup {None} : Stm(gnt, err, rsp)

Next ==
  \E acc \in DriverAccesses :
    /\ DriverStep(acc)
    /\ Ports(acc)
    /\ BusCycle

Spec == Init /\ [][Next]_vars
-----------------------------------------------------------------------------
TypeOK ==
  /\ srot_state \in SrotStates
  /\ msg.msg_id \in Byte /\ msg.status \in Byte /\ msg.msg_len \in Byte
  /\ current_pointer \in 0 .. PointerSpan - 1 /\ srot_wait \in Byte
  /\ keyindexram_b_addr \in IndexSlots
  /\ keyram_b_addr \in KeySlots
  /\ Len(reqfifo) <= FIFO_DEPTH /\ Len(respfifo) <= FIFO_DEPTH
  /\ resp_waiting \in BOOLEAN /\ write_error \in BOOLEAN
  /\ reqfifo_clr \in BOOLEAN /\ reqfifo_rready \in BOOLEAN

(* Once a mode bit is set nothing reaches either RAM any more, although a   *)
(* write reaches its RAM a cycle after the mode was tested: no write tested *)
(* in debug mode may still be on its way when the mode bit goes up.         *)
KeyRamFrozen == [][RamsFrozen]_vars

(* In an operational mode a load never leaves its key: the end of the load  *)
(* is not latched but read from the Key Index RAM after every word, and the *)
(* test is for equality, so a pointer once past the end would run on through *)
(* the whole Key RAM.                                                       *)
LoadStaysInside ==
  [][ /\ Operational
      /\ \/ srot_state = "RETRIEVE_KEY_INDEX" /\ Entry = keyindexram[keyindexram_b_addr]
         \/ srot_state \in Loading /\ InsideKey
      => (srot_state' \in Loading => InsideKey') ]_vars

(* A request written to a full FIFO is reported to the processor: a write   *)
(* answered without an error found room.                                    *)
NoSilentDrop == [][SentHadRoom]_vars
=============================================================================
