------------------------------- MODULE LlkiPp --------------------------------
(***************************************************************************)
(* The LLKI Protocol Processing block of llki_pp_wrapper.sv: it turns the  *)
(* LLKI-KL messages the SRoT writes to its SENDRECV register into the      *)
(* LLKI-Discrete handshake of its TSS, and leaves one response word for    *)
(* the SRoT to read.  It has no FIFO.                                      *)
(*                                                                         *)
(* Every action is one rising clock edge, with the register access acc the *)
(* TileLink adapter presents in the cycle that ends at that edge.          *)
(* Accesses to other addresses only pulse write_error or read_error and    *)
(* change no state: they are the access NoAccess here.                     *)
(***************************************************************************)
EXTENDS LlkiPkg, LlkiDiscrete

VARIABLES
  pp_state,             \* llkipp_current_state
  pp_msg_id,            \* msg_id, status and msg_len: the message being
  pp_status,            \*   processed, then the response being built;
  pp_msg_len,           \*   pp_msg_len also counts the words to come
  pp_response_waiting,  \* llkipp_response_waiting
  pp_response_word,     \* llkipp_response_word
  pp_ctrlstatus         \* llkipp_ctrlstatus_register, its two used bits

ppVars == <<pp_state, pp_msg_id, pp_status, pp_msg_len, pp_response_waiting,
            pp_response_word, pp_ctrlstatus>>

PpStates == { "IDLE", "MESSAGE_CHECK", "LOAD_KEY_WORDS", "CLEAR_KEY", "RESPONSE" }

IsWrite(acc) == acc.op = "write"
IsRead(acc)  == acc.op = "read_sendrecv"

PpInit ==
  /\ pp_state = "IDLE"
  /\ pp_msg_id = 0 /\ pp_status = 0 /\ pp_msg_len = 0
  /\ pp_response_waiting = FALSE
  /\ pp_response_word = ZeroWord
  /\ pp_ctrlstatus = [resp_waiting |-> FALSE, ready_for_key |-> FALSE]
  /\ llkid_key_data = ZeroWord
  /\ llkid_key_valid = FALSE
  /\ llkid_clear_key = FALSE

\* The status bits are copies of the live signals, one cycle late.
StatusLag ==
  pp_ctrlstatus' = [resp_waiting |-> pp_response_waiting,
                    ready_for_key |-> llkid_key_ready]

Discrete(data, valid, clear) ==
  /\ llkid_key_data' = data
  /\ llkid_key_valid' = valid
  /\ llkid_clear_key' = clear

Quiet == Discrete(ZeroWord, FALSE, FALSE)

NoResponse ==
  /\ pp_response_waiting' = FALSE
  /\ pp_response_word' = ZeroWord

\* Leave for RESPONSE with the answer in msg_id and status.
Answer(id, st) ==
  /\ pp_msg_id' = id
  /\ pp_status' = st
  /\ pp_state' = "RESPONSE"
  /\ UNCHANGED pp_msg_len

Goto(state) ==
  /\ pp_state' = state
  /\ UNCHANGED <<pp_msg_id, pp_status, pp_msg_len>>

\* Mutant of PpIdle: the response of the last request is left up.
PpIdleKeepsResponse(acc) ==
  /\ pp_state = "IDLE"
  /\ Quiet /\ UNCHANGED <<pp_response_waiting, pp_response_word>>
  /\ IF IsWrite(acc)
     THEN /\ pp_msg_id' = acc.data.msg_id
          /\ pp_status' = acc.data.status
          /\ pp_msg_len' = acc.data.msg_len
          /\ pp_state' = "MESSAGE_CHECK"
     ELSE Goto("IDLE")

PpIdle(acc) ==
  /\ pp_state = "IDLE"
  /\ Quiet /\ NoResponse
  /\ \/ /\ IsWrite(acc)
        /\ pp_msg_id' = acc.data.msg_id
        /\ pp_status' = acc.data.status
        /\ pp_msg_len' = acc.data.msg_len
        /\ pp_state' = "MESSAGE_CHECK"
     \/ /\ ~IsWrite(acc)
        /\ pp_msg_id' = 0 /\ pp_status' = 0 /\ pp_msg_len' = 0
        /\ pp_state' = "IDLE"

CheckLoadKey ==
  /\ pp_msg_id = LLKI_MID_KLLOADKEYREQ
  /\ IF pp_msg_len <= 1
     THEN Answer(LLKI_MID_KLERRORRESP, LLKI_STATUS_KL_REQ_BAD_MSG_LEN)
     ELSE Goto("LOAD_KEY_WORDS")

CheckClearKey ==
  /\ pp_msg_id = LLKI_MID_KLCLEARKEYREQ
  /\ IF pp_msg_len # 1
     THEN Answer(LLKI_MID_KLERRORRESP, LLKI_STATUS_KL_REQ_BAD_MSG_LEN)
     ELSE Goto("CLEAR_KEY")

\* Mutant of CheckKeyStatus: a TSS that is not busy is taken for a loaded one.
CheckKeyStatusReady ==
  /\ pp_msg_id = LLKI_MID_KLKEYSTATUSREQ
  /\ Answer(LLKI_MID_KLKEYSTATUSRESP,
            IF llkid_key_ready THEN LLKI_STATUS_KEY_PRESENT
                               ELSE LLKI_STATUS_KEY_NOT_PRESENT)

CheckKeyStatus ==
  /\ pp_msg_id = LLKI_MID_KLKEYSTATUSREQ
  /\ IF pp_msg_len # 1
     THEN Answer(LLKI_MID_KLERRORRESP, LLKI_STATUS_KL_REQ_BAD_MSG_LEN)
     ELSE Answer(LLKI_MID_KLKEYSTATUSRESP,
                 IF llkid_key_complete THEN LLKI_STATUS_KEY_PRESENT
                                       ELSE LLKI_STATUS_KEY_NOT_PRESENT)

CheckOther ==
  /\ pp_msg_id \notin { LLKI_MID_KLLOADKEYREQ, LLKI_MID_KLCLEARKEYREQ,
                        LLKI_MID_KLKEYSTATUSREQ }
  /\ Answer(LLKI_MID_KLERRORRESP, LLKI_STATUS_KL_REQ_BAD_MSG_ID)

PpMessageCheck ==
  /\ pp_state = "MESSAGE_CHECK"
  /\ Quiet /\ NoResponse
  /\ CheckLoadKey \/ CheckClearKey \/ CheckKeyStatus \/ CheckOther

\* A key word reaches the TSS only if the TSS was ready in this cycle.
PpLoadKeyWords(acc) ==
  /\ pp_state = "LOAD_KEY_WORDS"
  /\ NoResponse
  /\ \/ /\ ~IsWrite(acc)
        /\ Quiet
        /\ Goto("LOAD_KEY_WORDS")
     \/ /\ IsWrite(acc) /\ ~llkid_key_ready
        /\ Quiet
        /\ Answer(LLKI_MID_KLERRORRESP, LLKI_STATUS_KL_LOSS_OF_SYNC)
     \/ /\ IsWrite(acc) /\ llkid_key_ready /\ pp_msg_len = 2
        /\ Discrete(acc.data, TRUE, FALSE)
        /\ Answer(LLKI_MID_KLLOADKEYACK, LLKI_STATUS_GOOD)
     \/ /\ IsWrite(acc) /\ llkid_key_ready /\ pp_msg_len # 2
        /\ Discrete(acc.data, TRUE, FALSE)
        /\ pp_msg_len' = Dec8(pp_msg_len)
        /\ UNCHANGED <<pp_state, pp_msg_id, pp_status>>

PpClearKey ==
  /\ pp_state = "CLEAR_KEY"
  /\ NoResponse
  /\ Discrete(ZeroWord, FALSE, TRUE)
  /\ IF llkid_clear_key_ack
     THEN Answer(LLKI_MID_KLCLEARKEYACK, LLKI_STATUS_GOOD)
     ELSE Goto("CLEAR_KEY")

\* Mutant of PpResponse: a write also ends the response.
PpResponseHasty(acc) ==
  /\ pp_state = "RESPONSE"
  /\ Quiet
  /\ pp_response_word' = [msg_id |-> pp_msg_id, status |-> pp_status, msg_len |-> 1]
  /\ pp_response_waiting' = ~IsWrite(acc)
  /\ Goto(IF IsRead(acc) \/ IsWrite(acc) THEN "IDLE" ELSE "RESPONSE")

\* The response is held until it is read.
PpResponse(acc) ==
  /\ pp_state = "RESPONSE"
  /\ Quiet
  /\ pp_response_word' = [msg_id |-> pp_msg_id, status |-> pp_status, msg_len |-> 1]
  /\ pp_response_waiting' = TRUE
  /\ Goto(IF IsRead(acc) THEN "IDLE" ELSE "RESPONSE")

\* One rising edge of the clock.
PpEdge(acc) ==
  /\ StatusLag
  /\ \/ PpIdle(acc)
     \/ PpMessageCheck
     \/ PpLoadKeyWords(acc)
     \/ PpClearKey
     \/ PpResponse(acc)
=============================================================================
