--------------------------- MODULE KlTarget_proofs ---------------------------
(***************************************************************************)
(* Proofs about KlTarget, for every set of bus words and every load time   *)
(* of the TSS.  The invariant is that of the pair, PairInv, and what the   *)
(* adapter adds to it.                                                     *)
(***************************************************************************)
EXTENDS KlTarget, PpTss_proofs

\* While a response that was read is still up, the adapter is busy with that read.
Inv ==
  /\ PairInv
  /\ adapter_busy \in BOOLEAN
  /\ ResponseTaken => adapter_busy

(* What an access can be, and that the words it carries are words.          *)
LEMMA AccessType ==
  ASSUME NEW acc \in Accesses
  PROVE  IsWrite(acc) => acc.data \in Word
BY BusWordsAssumption
   DEF Accesses, NoAccess, ReadSendRecv, ReadCtrlSts, Write, IsWrite

LEMMA InvInit == Init => Inv
  BY PairInit DEF Init, Inv

(* The invariant is kept by every step.                                      *)
LEMMA InvStep == Inv /\ [Next]_vars => Inv'
<1> SUFFICES ASSUME Inv, [Next]_vars PROVE Inv'
  OBVIOUS
<1>1. CASE UNCHANGED vars
  BY <1>1, PairStutter DEF vars, Inv
<1>2. CASE Next
  <2> PICK acc \in Accesses : Edge(acc)
    BY <1>2 DEF Next
  <2>1. PairInv' /\ (ResponseTaken' => acc # NoAccess)
    BY AccessType, PairStep DEF Edge, Adapter, Inv
  <2> QED
    BY <2>1 DEF Edge, Adapter, Inv
<1> QED
  BY <1>1, <1>2
-----------------------------------------------------------------------------
THEOREM Invariance == Spec => []Inv
  BY InvInit, InvStep, PTL DEF Spec

(* Every register of the target keeps its width and its state encoding.      *)
THEOREM TypeCorrect == Spec => []TypeOK
<1>1. Inv => TypeOK
  BY DEF Inv, PairInv, TypeOK
<1> QED
  BY <1>1, Invariance, PTL

(* A clear acknowledgement is never given while the TSS holds a key word,    *)
(* whatever the bus master writes and however long the TSS takes to clear.   *)
THEOREM ClearAckSafe == Spec => []ClearAckMeansCleared
<1>1. Inv => ClearAckMeansCleared
  BY DEF Inv, PairInv
<1> QED
  BY <1>1, Invariance, PTL

(* A KEY_PRESENT answer is true as long as it can be read.                   *)
THEOREM PresentSafe == Spec => []PresentMeansLoaded
<1>1. Inv => PresentMeansLoaded
  BY DEF Inv, PairInv
<1> QED
  BY <1>1, Invariance, PTL

(* A master that polls the status register never takes the RESP_WAITING bit  *)
(* of the previous response for that of its own request.                     *)
THEOREM ResponseBitFresh == Spec => []NoStaleResponseBit
<1>1. Inv => NoStaleResponseBit
  BY DEF Inv, PairInv
<1> QED
  BY <1>1, Invariance, PTL

(* A response that is shown stays, unchanged, until it is read.              *)
THEOREM ResponseHeld == Spec => ResponseStable
<1>1. Inv /\ [Next]_vars =>
        [pp_state = "RESPONSE" /\ pp_response_waiting
           => pp_response_waiting' /\ pp_response_word' = pp_response_word]_vars
  BY ShownStays DEF Next, Edge, Inv
<1> QED
  BY <1>1, Invariance, PTL DEF Spec, ResponseStable
=============================================================================
