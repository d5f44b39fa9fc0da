------------------------------ MODULE KlTarget -------------------------------
(***************************************************************************)
(* An LLKI-KL target: one LLKI-PP and the mock TSS behind it, clocked      *)
(* together, driven by an arbitrary bus master.  Any master with access to *)
(* the core's LLKI address range (the SRoT, but also a processor) is an    *)
(* instance of it, so what holds here holds whatever the master does.      *)
(***************************************************************************)
EXTENDS PpTss

CONSTANT BusWords       \* the words the master may write to SENDRECV

ASSUME BusWordsAssumption == BusWords \subseteq Word

VARIABLE adapter_busy   \* the register adapter owes the bus a response

vars == <<pairVars, adapter_busy>>

Init == PpInit /\ TssInit /\ adapter_busy = FALSE

Accesses == {NoAccess, ReadSendRecv, ReadCtrlSts} \cup { Write(w) : w \in BusWords }

\* tlul_adapter_reg: an access is answered before the next one is accepted, so
\* two accesses are never in consecutive cycles.
Adapter(acc) ==
  /\ adapter_busy => acc = NoAccess
  /\ adapter_busy' = (acc # NoAccess)

Edge(acc) == Adapter(acc) /\ PairEdge(acc)

Next == \E acc \in Accesses : Edge(acc)

\* The clock never stops; the master may.
Spec == Init /\ [][Next]_vars /\ WF_vars(Next)
-----------------------------------------------------------------------------
TypeOK == PairTypes /\ adapter_busy \in BOOLEAN

(* Once a response word is shown it does not change until the master has    *)
(* read it: a master that polls and reads later gets the word it polled for.*)
ResponseStable ==
  [][pp_state = "RESPONSE" /\ pp_response_waiting
       => pp_response_waiting' /\ pp_response_word' = pp_response_word]_vars

(* A clear request is always answered, in whatever state the TSS is when it *)
(* arrives: no state of the TSS loses the clear level.                      *)
ClearIsAnswered == pp_state = "CLEAR_KEY" ~> Answering(LLKI_MID_KLCLEARKEYACK)
=============================================================================
