-------------------------- MODULE SrotAlone_proofs ---------------------------
(***************************************************************************)
(* Proofs about SrotAlone: they hold for every size of the memories, every *)
(* driver and everything the bus may do.  Driver_proofs has the lemmas     *)
(* about the parts of a step.                                              *)
(***************************************************************************)
EXTENDS SrotAlone, Driver_proofs

(* No RAM write is on its way while a mode bit is set.                      *)
LEMMA NoLateWriteInvariant == Spec => []NoLateWrite
<1>1. Init => NoLateWrite
  BY DEF Init, SrotInit, NoLateWrite, Operational
<1>2. NoLateWrite /\ [Next]_vars => NoLateWrite'
  <2> SUFFICES ASSUME NoLateWrite, [Next]_vars PROVE NoLateWrite'
    OBVIOUS
  <2>1. CASE Next
    BY <2>1, WriteDecodeStep DEF Next, Ports
  <2>2. CASE UNCHANGED vars
    BY <2>2 DEF vars, srotVars, decodeVars, NoLateWrite, Operational
  <2> QED
    BY <2>1, <2>2
<1> QED
  BY <1>1, <1>2, PTL DEF Spec

(* With a mode bit set neither RAM ever changes, whatever the processor     *)
(* writes and whatever the bus answers.                                     *)
THEOREM KeysFrozen == Spec => KeyRamFrozen
<1>1. NoLateWrite /\ [Next]_vars => [RamsFrozen]_vars
  <2> SUFFICES ASSUME NoLateWrite, Next, Operational
               PROVE  keyindexram' = keyindexram /\ keyram' = keyram
    BY DEF RamsFrozen
  <2> QED
    BY FrozenStep DEF Next, Ports
<1> QED
  BY <1>1, NoLateWriteInvariant, PTL DEF Spec, KeyRamFrozen
-----------------------------------------------------------------------------
(* TypeOK is not inductive: TypeInv adds what the memories hold.            *)
LEMMA TypeInvariant == Spec => []TypeInv
<1>1. Init => TypeInv
  BY TypeInit DEF Init, Reset
<1>2. TypeInv /\ [Next]_vars => TypeInv'
  <2> SUFFICES ASSUME TypeInv, [Next]_vars PROVE TypeInv'
    OBVIOUS
  <2>1. CASE Next
    <3> PICK acc \in DriverAccesses : DriverStep(acc) /\ Ports(acc) /\ BusCycle
      BY <2>1 DEF Next
    <3> PICK gnt \in BOOLEAN, err \in BOOLEAN, rsp \in BusResponses \cup {None} :
               Stm(gnt, err, rsp)
      BY DEF BusCycle
    <3>1. AnswerTyped(rsp)
      BY BusAssumption DEF AnswerTyped
    <3> QED
      BY <3>1, TypeStep
  <2>2. CASE UNCHANGED vars
    BY <2>2, TypeStutter DEF vars
  <2> QED
    BY <2>1, <2>2
<1> QED
  BY <1>1, <1>2, PTL DEF Spec

(* The state machine stays among its states, its pointers inside the RAMs,  *)
(* its messages made of bytes, and both FIFOs keep within their depth.      *)
THEOREM TypeCorrect == Spec => []TypeOK
<1>1. TypeInv => TypeOK
  BY DEF TypeInv, StmTypes, DecodeTypes, MemoryTypes, TypeOK, C2Message
<1> QED
  BY <1>1, TypeInvariant, PTL
-----------------------------------------------------------------------------
(* Whatever the bus does and however many requests are queued, a processor  *)
(* that polled the status register and saw RESP_WAITING reads a response.   *)
THEOREM PollsAreRight == Spec => []PolledMeansThere
<1>1. Init => PollInv
  BY DEF Init, SrotInit, DriverInit, PollInv, BitOutlivesRead, PolledMeansThere
<1>2. TypeInv /\ PollInv /\ [Next]_vars => PollInv'
  <2> SUFFICES ASSUME TypeInv, PollInv, [Next]_vars PROVE PollInv'
    OBVIOUS
  <2>1. CASE Next
    BY <2>1, PollStep DEF Next
  <2>2. CASE UNCHANGED vars
    BY <2>2 DEF vars, srotVars, decodeVars, memVars, driverVars, PollInv,
                BitOutlivesRead, PolledMeansThere
  <2> QED
    BY <2>1, <2>2
<1>3. PollInv => PolledMeansThere
  BY DEF PollInv
<1> QED
  BY <1>1, <1>2, <1>3, TypeInvariant, PTL DEF Spec
-----------------------------------------------------------------------------
(* In an operational mode the words a load puts on the bus are those of its *)
(* key, for every content of the Key Index RAM and everything the bus does. *)
THEOREM LoadsStayInside == Spec => LoadStaysInside
<1>1. TypeInv /\ NoLateWrite /\ [Next]_vars =>
        [ /\ Operational
          /\ \/ srot_state = "RETRIEVE_KEY_INDEX" /\ Entry = keyindexram[keyindexram_b_addr]
             \/ srot_state \in Loading /\ InsideKey
          => (srot_state' \in Loading => InsideKey') ]_vars
  BY LoadStep DEF Next, Ports, BusCycle
<1> QED
  BY <1>1, TypeInvariant, NoLateWriteInvariant, PTL DEF Spec, LoadStaysInside
-----------------------------------------------------------------------------
(* As long as the processor keeps no more requests unanswered than a FIFO   *)
(* holds, requests are neither lost, duplicated nor reordered between the   *)
(* write of the register and the read of the response, for every request,   *)
(* every depth and whatever the bus does.                                   *)
THEOREM RequestsInOrder ==
  ASSUME Window <= FIFO_DEPTH
  PROVE  Spec => []RequestsConserved
<1>1. Init => OrderInv
  BY OrderInit DEF Init, Reset
<1>2. OrderInv /\ [Next]_vars => OrderInv'
  <2> SUFFICES ASSUME OrderInv, [Next]_vars PROVE OrderInv'
    OBVIOUS
  <2>1. CASE Next
    <3> PICK acc \in DriverAccesses : DriverStep(acc) /\ Ports(acc) /\ BusCycle
      BY <2>1 DEF Next
    <3> PICK gnt \in BOOLEAN, err \in BOOLEAN, rsp \in BusResponses \cup {None} :
               Stm(gnt, err, rsp)
      BY DEF BusCycle
    <3>1. AnswerTyped(rsp)
      BY BusAssumption DEF AnswerTyped
    <3> QED
      BY <3>1, QueueInvStep
  <2>2. CASE UNCHANGED vars
    BY <2>2, OrderStutter DEF vars
  <2> QED
    BY <2>1, <2>2
<1> QED
  BY <1>1, <1>2, OrderKept, PTL DEF Spec
=============================================================================
