----------------------------- MODULE PpTss_proofs -----------------------------
(***************************************************************************)
(* Proofs about one clock edge of an LLKI-PP and its TSS, for every load   *)
(* time of the TSS and everything the bus may do.  What TLC checks of them *)
(* is not inductive: it is kept together with the conjuncts of PairInv     *)
(* below, which say when each wire of the LLKI-Discrete interface can be up.*)
(***************************************************************************)
EXTENDS PpTss, TLAPS

Working == { "MESSAGE_CHECK", "LOAD_KEY_WORDS", "CLEAR_KEY" }

\* An idle or cleared TSS holds nothing, and only an idle one acknowledges.
TssHolds ==
  /\ tss_state \in { "IDLE", "WAIT_STATE2" } => tss_key = NoKey
  /\ tss_state = "IDLE" => ~llkid_key_complete
  /\ llkid_clear_key_ack => tss_state = "IDLE"

\* The LLKI-PP raises a wire only while it processes the matching request.
WiresHaveAReason ==
  /\ llkid_key_valid =>
       pp_state = "LOAD_KEY_WORDS" \/ Answering(LLKI_MID_KLLOADKEYACK)
  /\ llkid_clear_key =>
       pp_state = "CLEAR_KEY" \/ Answering(LLKI_MID_KLCLEARKEYACK)

\* A response is up only while it is answered and in the cycle after it was read,
\* and it shows what was decided.
ResponseUp ==
  /\ pp_state \in Working => ~pp_response_waiting
  /\ pp_state = "RESPONSE" /\ pp_response_waiting =>
       pp_response_word = [msg_id |-> pp_msg_id, status |-> pp_status, msg_len |-> 1]

\* When the message check samples key_complete, it is not about to fall.
CompleteIsCurrent ==
  pp_state = "MESSAGE_CHECK" /\ llkid_key_complete => tss_state = "KEY1_LOADED"

PairInv ==
  /\ PairTypes
  /\ TssHolds
  /\ WiresHaveAReason
  /\ ResponseUp
  /\ NoStaleResponseBit
  /\ CompleteIsCurrent
  /\ ClearAckMeansCleared
  /\ PresentMeansLoaded
\* The cycle after a response was read.
ResponseTaken == pp_state = "IDLE" /\ pp_response_waiting
-----------------------------------------------------------------------------
USE DEF LLKI_MID_KLLOADKEYREQ, LLKI_MID_KLCLEARKEYREQ, LLKI_MID_KLKEYSTATUSREQ,
        LLKI_MID_KLLOADKEYACK, LLKI_MID_KLCLEARKEYACK, LLKI_MID_KLKEYSTATUSRESP,
        LLKI_MID_KLERRORRESP

(* An 8-bit down counter stays in its width.                                *)
LEMMA Dec8Byte == ASSUME NEW n \in Byte PROVE Dec8(n) \in Byte
BY DEF Dec8, Byte

(* The statuses the LLKI-PP answers with fit their byte.                    *)
LEMMA StatusBytes ==
  /\ LLKI_STATUS_GOOD \in Byte /\ LLKI_STATUS_KEY_PRESENT \in Byte
  /\ LLKI_STATUS_KEY_NOT_PRESENT \in Byte
  /\ LLKI_STATUS_KL_REQ_BAD_MSG_ID \in Byte /\ LLKI_STATUS_KL_REQ_BAD_MSG_LEN \in Byte
  /\ LLKI_STATUS_KL_LOSS_OF_SYNC \in Byte
BY DEF Byte, LLKI_STATUS_GOOD, LLKI_STATUS_KEY_PRESENT, LLKI_STATUS_KEY_NOT_PRESENT,
       LLKI_STATUS_KL_REQ_BAD_MSG_ID, LLKI_STATUS_KL_REQ_BAD_MSG_LEN,
       LLKI_STATUS_KL_LOSS_OF_SYNC

LEMMA ZeroWordType == ZeroWord \in Word
BY DEF ZeroWord, Word, Byte

(* A clock edge of the LLKI-PP keeps its registers in their types.          *)
LEMMA PpType ==
  ASSUME PairTypes, NEW acc, IsWrite(acc) => acc.data \in Word, PpEdge(acc)
  PROVE  /\ pp_state' \in PpStates
         /\ pp_msg_id' \in Byte /\ pp_status' \in Byte /\ pp_msg_len' \in Byte
         /\ pp_response_waiting' \in BOOLEAN /\ pp_response_word' \in Word
         /\ pp_ctrlstatus' \in [resp_waiting : BOOLEAN, ready_for_key : BOOLEAN]
         /\ llkid_key_data' \in Word
         /\ llkid_key_valid' \in BOOLEAN /\ llkid_clear_key' \in BOOLEAN
<1>1. pp_ctrlstatus' \in [resp_waiting : BOOLEAN, ready_for_key : BOOLEAN]
  BY DEF PpEdge, StatusLag, PairTypes
<1> DEFINE Goal ==
         /\ pp_state' \in PpStates
         /\ pp_msg_id' \in Byte /\ pp_status' \in Byte /\ pp_msg_len' \in Byte
         /\ pp_response_waiting' \in BOOLEAN /\ pp_response_word' \in Word
         /\ llkid_key_data' \in Word
         /\ llkid_key_valid' \in BOOLEAN /\ llkid_clear_key' \in BOOLEAN
<1> SUFFICES Goal
  BY <1>1
<1>2. CASE PpIdle(acc)
  <2>1. Quiet /\ NoResponse
    BY <1>2 DEF PpIdle
  <2>2. IsWrite(acc) => acc.data.msg_id \in Byte /\ acc.data.status \in Byte
                        /\ acc.data.msg_len \in Byte
    BY DEF Word
  <2>3. /\ pp_state' \in PpStates
        /\ pp_msg_id' \in Byte /\ pp_status' \in Byte /\ pp_msg_len' \in Byte
    BY <1>2, <2>2 DEF PpIdle, PpStates, Byte
  <2> QED
    BY <2>1, <2>3, ZeroWordType DEF Quiet, Discrete, NoResponse
<1>3. CASE PpMessageCheck
  <2>1. Quiet /\ NoResponse
    BY <1>3 DEF PpMessageCheck
  <2>2. /\ pp_state' \in PpStates
        /\ pp_msg_id' \in Byte /\ pp_status' \in Byte /\ pp_msg_len' \in Byte
    BY <1>3, StatusBytes, SMTT(30)
       DEF PpMessageCheck, CheckLoadKey, CheckClearKey, CheckKeyStatus, CheckOther,
           Answer, Goto, PpStates, PairTypes, Byte
  <2> QED
    BY <2>1, <2>2, ZeroWordType DEF Quiet, Discrete, NoResponse
<1>4. CASE PpLoadKeyWords(acc)
  <2>1. NoResponse
    BY <1>4 DEF PpLoadKeyWords
  <2>2. /\ pp_state' \in PpStates
        /\ pp_msg_id' \in Byte /\ pp_status' \in Byte /\ pp_msg_len' \in Byte
    <3>1. Dec8(pp_msg_len) \in Byte
      BY Dec8Byte DEF PairTypes
    <3>2. /\ LLKI_MID_KLERRORRESP \in Byte /\ LLKI_MID_KLLOADKEYACK \in Byte
      BY DEF Byte
    <3>3. \/ Goto("LOAD_KEY_WORDS")
          \/ Answer(LLKI_MID_KLERRORRESP, LLKI_STATUS_KL_LOSS_OF_SYNC)
          \/ Answer(LLKI_MID_KLLOADKEYACK, LLKI_STATUS_GOOD)
          \/ pp_msg_len' = Dec8(pp_msg_len) /\ UNCHANGED <<pp_state, pp_msg_id, pp_status>>
      BY <1>4 DEF PpLoadKeyWords
    <3> QED
      BY <3>1, <3>2, <3>3, StatusBytes DEF Goto, Answer, PpStates, PairTypes
  <2>3. /\ llkid_key_data' \in Word
        /\ llkid_key_valid' \in BOOLEAN /\ llkid_clear_key' \in BOOLEAN
    <3>1. CASE Quiet
      BY <3>1, ZeroWordType DEF Quiet, Discrete
    <3>2. CASE IsWrite(acc) /\ Discrete(acc.data, TRUE, FALSE)
      BY <3>2 DEF Discrete
    <3> QED
      BY <1>4, <3>1, <3>2 DEF PpLoadKeyWords
  <2> QED
    BY <2>1, <2>2, <2>3, ZeroWordType DEF NoResponse
<1>5. CASE PpClearKey
  <2>1. NoResponse /\ Discrete(ZeroWord, FALSE, TRUE)
    BY <1>5 DEF PpClearKey
  <2>2. /\ pp_state' \in PpStates
        /\ pp_msg_id' \in Byte /\ pp_status' \in Byte /\ pp_msg_len' \in Byte
    BY <1>5, StatusBytes, SMTT(30) DEF PpClearKey, Goto, Answer, PpStates, PairTypes, Byte
  <2> QED
    BY <2>1, <2>2, ZeroWordType DEF NoResponse, Discrete
<1>6. CASE PpResponse(acc)
  <2>1. pp_response_word' \in Word
    BY <1>6 DEF PpResponse, Word, PairTypes, Byte
  <2> QED
    BY <1>6, <2>1, ZeroWordType
       DEF PpResponse, Quiet, Discrete, Goto, PpStates, PairTypes
<1> QED
  BY <1>2, <1>3, <1>4, <1>5, <1>6 DEF PpEdge

(* A clock edge of the TSS keeps its registers in their types.              *)
LEMMA TssType ==
  ASSUME PairTypes, TssEdge
  PROVE  /\ tss_state' \in TssStates
         /\ tss_key' \in Word \X Word
         /\ tss_wait' \in Byte
         /\ llkid_key_ready' \in BOOLEAN /\ llkid_key_complete' \in BOOLEAN
         /\ llkid_clear_key_ack' \in BOOLEAN
<1>1. NoKey \in Word \X Word
  BY ZeroWordType DEF NoKey
<1>2. /\ tss_state' \in TssStates
      /\ tss_wait' \in Byte
  BY MockTssAssumption, Dec8Byte
     DEF TssEdge, TssIdle, TssWaitState0, TssWaitState1, TssLoadDelay, TssKey0Loaded,
         TssKey1Loaded, TssClearKey, TssWaitState2, ResetWait, TssStates, PairTypes
<1>3. tss_key' \in Word \X Word
  <2>1. \/ tss_key' = NoKey \/ tss_key' = tss_key
        \/ tss_key' = <<llkid_key_data, ZeroWord>>
        \/ tss_key' = [tss_key EXCEPT ![1] = llkid_key_data]
        \/ tss_key' = [tss_key EXCEPT ![2] = llkid_key_data]
    BY DEF TssEdge, TssIdle, TssWaitState0, TssWaitState1, TssLoadDelay, TssKey0Loaded,
           TssKey1Loaded, TssClearKey, TssWaitState2
  <2>2. llkid_key_data \in Word /\ tss_key \in Word \X Word
    BY DEF PairTypes
  <2>3. /\ [tss_key EXCEPT ![1] = llkid_key_data] \in Word \X Word
        /\ [tss_key EXCEPT ![2] = llkid_key_data] \in Word \X Word
    BY <2>2
  <2> QED
    BY <1>1, <2>1, <2>2, <2>3, ZeroWordType
<1>4. /\ llkid_key_ready' \in BOOLEAN /\ llkid_key_complete' \in BOOLEAN
      /\ llkid_clear_key_ack' \in BOOLEAN
  BY DEF TssEdge, TssIdle, TssWaitState0, TssWaitState1, TssLoadDelay, TssKey0Loaded,
         TssKey1Loaded, TssClearKey, TssWaitState2, TssOutputs
<1> QED
  BY <1>2, <1>3, <1>4
-----------------------------------------------------------------------------
(* The initial state satisfies the invariant.                               *)
LEMMA PairInit == PpInit /\ TssInit => PairInv /\ ~ResponseTaken
<1> SUFFICES ASSUME PpInit, TssInit PROVE PairInv /\ ~ResponseTaken
  OBVIOUS
<1>1. PairTypes
  <2>1. NoKey \in Word \X Word
    BY ZeroWordType DEF NoKey
  <2>2. 0 \in Byte
    BY DEF Byte
  <2> QED
    BY <2>1, <2>2, MockTssAssumption, ZeroWordType
       DEF PpInit, TssInit, PairTypes, PpStates, TssStates
<1> QED
  BY <1>1
     DEF PpInit, TssInit, PairInv, TssHolds, WiresHaveAReason, ResponseUp, Working,
         NoStaleResponseBit, CompleteIsCurrent, ClearAckMeansCleared,
         PresentMeansLoaded, Answering, ResponseTaken

(* TssHolds is kept: the TSS enters IDLE and WAIT_STATE2 with no key, and    *)
(* with key_complete low.  The one way to break it is a key word taken in    *)
(* IDLE, which leaves IDLE.                                                  *)
LEMMA TssHoldsStep ==
  ASSUME TssHolds, TssEdge
  PROVE  TssHolds'
<1>1. CASE TssIdle
  BY <1>1 DEF TssHolds, TssIdle, TssOutputs
<1>2. CASE TssWaitState0 \/ TssWaitState1
  BY <1>2 DEF TssHolds, TssWaitState0, TssWaitState1, TssLoadDelay, TssOutputs
<1>3. CASE TssKey0Loaded
  BY <1>3 DEF TssHolds, TssKey0Loaded, TssOutputs
<1>4. CASE TssKey1Loaded
  BY <1>4 DEF TssHolds, TssKey1Loaded, TssOutputs
<1>5. CASE TssClearKey
  BY <1>5 DEF TssHolds, TssClearKey, TssOutputs
<1>6. CASE TssWaitState2
  BY <1>6 DEF TssHolds, TssWaitState2, TssOutputs
<1> QED
  BY <1>1, <1>2, <1>3, <1>4, <1>5, <1>6 DEF TssEdge

(* WiresHaveAReason is kept by every state of the LLKI-PP by itself.         *)
LEMMA WiresStep ==
  ASSUME NEW acc, PpEdge(acc)
  PROVE  WiresHaveAReason'
<1> USE DEF WiresHaveAReason, Answering
<1>1. CASE PpIdle(acc)
  BY <1>1 DEF PpIdle, Quiet, Discrete
<1>2. CASE PpMessageCheck
  BY <1>2 DEF PpMessageCheck, Quiet, Discrete
<1>3. CASE PpLoadKeyWords(acc)
  BY <1>3 DEF PpLoadKeyWords, Quiet, Discrete, Goto, Answer
<1>4. CASE PpClearKey
  BY <1>4 DEF PpClearKey, Discrete, Goto, Answer
<1>5. CASE PpResponse(acc)
  BY <1>5 DEF PpResponse, Quiet, Discrete
<1> QED
  BY <1>1, <1>2, <1>3, <1>4, <1>5 DEF PpEdge

(* ResponseUp and NoStaleResponseBit are kept, if the adapter, busy with the *)
(* read that took a response, lets no access through in the next cycle: by   *)
(* the time a request is accepted the response has gone down.                *)
LEMMA ResponseStep ==
  ASSUME PairTypes, ResponseUp, NoStaleResponseBit, NEW acc, PpEdge(acc),
         ResponseTaken => acc = NoAccess
  PROVE  /\ ResponseUp' /\ NoStaleResponseBit'
         /\ ResponseTaken' => acc # NoAccess
<1>0. pp_ctrlstatus'.resp_waiting = pp_response_waiting
  BY DEF PpEdge, StatusLag
<1> USE DEF ResponseUp, NoStaleResponseBit, Working, ResponseTaken
<1>1. CASE PpIdle(acc)
  <2>1. ~pp_response_waiting'
    BY <1>1 DEF PpIdle, NoResponse
  <2>2. pp_state' \in {"IDLE", "MESSAGE_CHECK"}
    BY <1>1 DEF PpIdle
  <2>3. pp_state' = "MESSAGE_CHECK" => ~pp_response_waiting
    BY <1>1 DEF PpIdle, IsWrite, NoAccess
  <2> QED
    BY <1>0, <2>1, <2>2, <2>3
<1>2. CASE PpMessageCheck
  <2>1. ~pp_response_waiting' /\ ~pp_response_waiting
    BY <1>2 DEF PpMessageCheck, NoResponse
  <2>2. pp_state' # "IDLE"
    BY <1>2 DEF PpMessageCheck, CheckLoadKey, CheckClearKey, CheckKeyStatus, CheckOther,
                Goto, Answer
  <2> QED
    BY <1>0, <2>1, <2>2
<1>3. CASE PpLoadKeyWords(acc)
  <2>1. ~pp_response_waiting' /\ ~pp_response_waiting
    BY <1>3 DEF PpLoadKeyWords, NoResponse
  <2>2. pp_state' # "IDLE"
    BY <1>3 DEF PpLoadKeyWords, Goto, Answer
  <2> QED
    BY <1>0, <2>1, <2>2
<1>4. CASE PpClearKey
  <2>1. ~pp_response_waiting' /\ ~pp_response_waiting
    BY <1>4 DEF PpClearKey, NoResponse
  <2>2. pp_state' # "IDLE"
    BY <1>4 DEF PpClearKey, Goto, Answer
  <2> QED
    BY <1>0, <2>1, <2>2
<1>5. CASE PpResponse(acc)
  <2>1. /\ pp_state' \in {"IDLE", "RESPONSE"}
        /\ pp_state' = "IDLE" => acc # NoAccess
    BY <1>5 DEF PpResponse, Goto, IsRead, NoAccess
  <2>2. pp_response_word' =
          [msg_id |-> pp_msg_id', status |-> pp_status', msg_len |-> 1]
    BY <1>5 DEF PpResponse, Goto
  <2> QED
    BY <2>1, <2>2
<1> QED
  BY <1>1, <1>2, <1>3, <1>4, <1>5 DEF PpEdge

(* With no clear and no key word on the wires the TSS keeps its key, and     *)
(* key_complete does not rise unless the key is loaded.                      *)
LEMMA TssUndisturbed ==
  ASSUME TssEdge, ~llkid_clear_key, ~llkid_key_valid
  PROVE  /\ tss_state = "KEY1_LOADED" => tss_state' = "KEY1_LOADED"
         /\ llkid_key_complete' => tss_state' = "KEY1_LOADED"
         /\ tss_state = "IDLE" => tss_state' = "IDLE"
BY DEF TssEdge, TssIdle, TssWaitState0, TssWaitState1, TssLoadDelay, TssKey0Loaded,
       TssKey1Loaded, TssClearKey, TssWaitState2, TssOutputs

(* What the LLKI-PP was doing one edge before it answers or checks.          *)
LEMMA AnswerOrigin ==
  ASSUME NEW acc, PpEdge(acc)
  PROVE  /\ pp_state' = "MESSAGE_CHECK" => pp_state = "IDLE"
         /\ Answering(LLKI_MID_KLCLEARKEYACK)' =>
              \/ Answering(LLKI_MID_KLCLEARKEYACK)
              \/ pp_state = "CLEAR_KEY" /\ llkid_clear_key_ack
         /\ Answering(LLKI_MID_KLKEYSTATUSRESP)' /\ pp_status' = LLKI_STATUS_KEY_PRESENT =>
              \/ Answering(LLKI_MID_KLKEYSTATUSRESP) /\ pp_status = LLKI_STATUS_KEY_PRESENT
              \/ pp_state = "MESSAGE_CHECK" /\ llkid_key_complete
<1> USE DEF Answering
<1>1. CASE PpIdle(acc)
  BY <1>1 DEF PpIdle
<1>2. CASE PpMessageCheck
  <2>1. /\ pp_state = "MESSAGE_CHECK"
        /\ pp_state' # "MESSAGE_CHECK" /\ ~Answering(LLKI_MID_KLCLEARKEYACK)'
    BY <1>2 DEF PpMessageCheck, CheckLoadKey, CheckClearKey, CheckKeyStatus, CheckOther,
                Goto, Answer
  <2>2. Answering(LLKI_MID_KLKEYSTATUSRESP)' =>
          pp_status' = IF llkid_key_complete THEN LLKI_STATUS_KEY_PRESENT
                                             ELSE LLKI_STATUS_KEY_NOT_PRESENT
    BY <1>2 DEF PpMessageCheck, CheckLoadKey, CheckClearKey, CheckKeyStatus, CheckOther,
                Goto, Answer
  <2>3. LLKI_STATUS_KEY_PRESENT # LLKI_STATUS_KEY_NOT_PRESENT
    BY DEF LLKI_STATUS_KEY_PRESENT, LLKI_STATUS_KEY_NOT_PRESENT
  <2> QED
    BY <2>1, <2>2, <2>3
<1>3. CASE PpLoadKeyWords(acc)
  <2>1. /\ pp_state' # "MESSAGE_CHECK"
        /\ pp_state' = "RESPONSE" =>
             pp_msg_id' \in {LLKI_MID_KLERRORRESP, LLKI_MID_KLLOADKEYACK}
    BY <1>3 DEF PpLoadKeyWords, Goto, Answer
  <2> QED
    BY <2>1
<1>4. CASE PpClearKey
  BY <1>4 DEF PpClearKey, Goto, Answer
<1>5. CASE PpResponse(acc)
  BY <1>5 DEF PpResponse, Goto
<1> QED
  BY <1>1, <1>2, <1>3, <1>4, <1>5 DEF PpEdge

(* The three conjuncts that relate the LLKI-PP and the TSS are kept: in each *)
(* of them the wires are known to be quiet, so the TSS stays where it is.    *)
LEMMA CrossStep ==
  ASSUME PairInv, NEW acc, PpEdge(acc), TssEdge, TssHolds'
  PROVE  CompleteIsCurrent' /\ ClearAckMeansCleared' /\ PresentMeansLoaded'
<1> USE DEF PairInv, WiresHaveAReason, Answering
<1>1. CompleteIsCurrent'
  BY AnswerOrigin, TssUndisturbed DEF CompleteIsCurrent
<1>2. ClearAckMeansCleared'
  <2> SUFFICES ASSUME Answering(LLKI_MID_KLCLEARKEYACK)'
               PROVE  tss_state' = "IDLE"
    BY DEF ClearAckMeansCleared, TssHolds
  <2>1. tss_state = "IDLE" /\ ~llkid_key_valid
    BY AnswerOrigin DEF ClearAckMeansCleared, TssHolds
  <2> QED
    BY <2>1 DEF TssEdge, TssIdle, TssWaitState0, TssWaitState1, TssLoadDelay,
                TssKey0Loaded, TssKey1Loaded, TssClearKey, TssWaitState2
<1>3. PresentMeansLoaded'
  BY AnswerOrigin, TssUndisturbed DEF PresentMeansLoaded, CompleteIsCurrent
<1> QED
  BY <1>1, <1>2, <1>3

(* The invariant is kept by every clock edge.                                *)
LEMMA PairStep ==
  ASSUME PairInv, NEW acc, IsWrite(acc) => acc.data \in Word, PairEdge(acc),
         ResponseTaken => acc = NoAccess
  PROVE  PairInv' /\ (ResponseTaken' => acc # NoAccess)
<1>1. PpEdge(acc) /\ TssEdge
  BY DEF PairEdge
<1>2. PairTypes'
  BY <1>1, PpType, TssType DEF PairInv, PairTypes
<1>3. TssHolds'
  BY <1>1, TssHoldsStep DEF PairInv
<1>4. WiresHaveAReason'
  BY <1>1, WiresStep
<1>5. ResponseUp' /\ NoStaleResponseBit' /\ (ResponseTaken' => acc # NoAccess)
  BY <1>1, ResponseStep DEF PairInv
<1>6. CompleteIsCurrent' /\ ClearAckMeansCleared' /\ PresentMeansLoaded'
  BY <1>1, <1>3, CrossStep
<1> QED
  BY <1>2, <1>3, <1>4, <1>5, <1>6 DEF PairInv

LEMMA PairStutter ==
  ASSUME PairInv, UNCHANGED pairVars
  PROVE  PairInv' /\ (ResponseTaken' <=> ResponseTaken)
BY DEF pairVars, ppVars, tssVars, discreteWires, ppWires, tssWires, PairInv, PairTypes,
       TssHolds, WiresHaveAReason, ResponseUp, Working, NoStaleResponseBit,
       CompleteIsCurrent, ClearAckMeansCleared, PresentMeansLoaded, Answering, ResponseTaken

(* A response that is shown stays, unchanged, until it is read.              *)
LEMMA ShownStays ==
  ASSUME PairInv, NEW acc, PairEdge(acc), pp_state = "RESPONSE", pp_response_waiting
  PROVE  pp_response_waiting' /\ pp_response_word' = pp_response_word
<1>1. PpResponse(acc)
  BY DEF PairEdge, PpEdge, PpIdle, PpMessageCheck, PpLoadKeyWords, PpClearKey
<1> QED
  BY <1>1 DEF PpResponse, PairInv, ResponseUp
=============================================================================
