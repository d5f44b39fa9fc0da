-------------------------------- MODULE PpTss --------------------------------
(***************************************************************************)
(* An LLKI-PP and the mock TSS behind it, clocked together: what the two   *)
(* promise whoever is on the other side of the LLKI-PP's registers.        *)
(***************************************************************************)
EXTENDS LlkiPp, MockTss

\* One rising edge of the clock for both.
PairEdge(acc) == PpEdge(acc) /\ TssEdge

pairVars == <<ppVars, tssVars, discreteWires>>
-----------------------------------------------------------------------------
PairTypes ==
  /\ pp_state \in PpStates
  /\ pp_msg_id \in Byte /\ pp_status \in Byte /\ pp_msg_len \in Byte
  /\ pp_response_waiting \in BOOLEAN
  /\ pp_response_word \in Word
  /\ pp_ctrlstatus \in [resp_waiting : BOOLEAN, ready_for_key : BOOLEAN]
  /\ llkid_key_data \in Word
  /\ llkid_key_valid \in BOOLEAN /\ llkid_clear_key \in BOOLEAN
  /\ llkid_key_ready \in BOOLEAN /\ llkid_key_complete \in BOOLEAN
  /\ llkid_clear_key_ack \in BOOLEAN
  /\ tss_state \in TssStates
  /\ tss_key \in Word \X Word
  /\ tss_wait \in Byte

Answering(id) == pp_state = "RESPONSE" /\ pp_msg_id = id

(* A clear-key acknowledgement is never given early: from the moment the    *)
(* LLKI-PP decides to answer KLCLEARKEYACK until the answer is read, the    *)
(* TSS holds no key word and reports none, although clear_key_ack is a      *)
(* registered signal the LLKI-PP could have seen left over from before.     *)
ClearAckMeansCleared ==
  Answering(LLKI_MID_KLCLEARKEYACK) =>
    tss_state = "IDLE" /\ tss_key = NoKey /\ ~llkid_key_complete

(* A KEY_PRESENT answer is true for as long as it waits to be read: the TSS *)
(* holds a complete key, although key_complete is sampled a cycle late.     *)
PresentMeansLoaded ==
  Answering(LLKI_MID_KLKEYSTATUSRESP) /\ pp_status = LLKI_STATUS_KEY_PRESENT =>
    tss_state = "KEY1_LOADED"

(* While the LLKI-PP works on a request, its status register never shows    *)
(* the RESP_WAITING bit of the previous one: the bit lags the response by   *)
(* two cycles, which the turnaround of the bus adapter has to cover.        *)
NoStaleResponseBit ==
  pp_state \in { "MESSAGE_CHECK", "LOAD_KEY_WORDS", "CLEAR_KEY" } =>
    ~pp_ctrlstatus.resp_waiting
=============================================================================
