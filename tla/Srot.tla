-------------------------------- MODULE Srot ---------------------------------
(***************************************************************************)
(* The Surrogate Root of Trust of srot_wrapper.sv.  It takes LLKI-C2       *)
(* requests a processor queues in a FIFO, one at a time, looks the key up  *)
(* in the Key Index RAM, drives the LLKI-KL exchange with the LLKI-PP of   *)
(* the target core as a bus master, and queues one LLKI-C2 response.       *)
(*                                                                         *)
(* One action per state of the machine, each one rising clock edge.  The   *)
(* inputs of an edge are parameters: acc, the processor's register access; *)
(* gnt, err, rsp: host_gnt_o, host_err_o and host_valid_o with its data.   *)
(***************************************************************************)
EXTENDS LlkiPkg, Integers, Sequences

CONSTANTS
  FIFO_DEPTH,                     \* depth of both message FIFOs
  SROT_WAIT_STATE_COUNTER_INIT,   \* cycles between two polls of the LLKI-PP
  SROT_KEYINDEXRAM_ADDR, SROT_KEYINDEXRAM_SIZE,   \* addresses and sizes in
  SROT_KEYRAM_ADDR, SROT_KEYRAM_SIZE,             \*   64-bit words
  PointerSpan,                    \* 2^16: the pointers into the Key RAM wrap here
  RegisteredRam                   \* are the read ports of the RAMs clocked?

ASSUME SrotAssumption ==
  /\ FIFO_DEPTH \in Nat \ {0}
  /\ SROT_WAIT_STATE_COUNTER_INIT \in Byte
  /\ SROT_KEYINDEXRAM_SIZE \in 1 .. 256 /\ SROT_KEYRAM_SIZE \in 1 .. 256
  /\ SROT_KEYINDEXRAM_ADDR \in Nat /\ SROT_KEYINDEXRAM_ADDR > 1
  /\ SROT_KEYRAM_ADDR \in Nat /\ SROT_KEYRAM_ADDR > 1
  /\ PointerSpan \in Nat /\ PointerSpan >= SROT_KEYRAM_SIZE
  /\ RegisteredRam \in BOOLEAN

SROT_CTRLSTS_ADDR == 0
SROT_LLKIC2_SENDRECV_ADDR == 1

\* $high(LLKI_CORE_INDEX_ARRAY): the only core with an LLKI-PP is core 0.
HighCore == 0

VARIABLES
  srot_state,           \* srot_current_state
  msg,                  \* msg_id, status, msg_len, key_index, rsvd
  current_pointer,      \* the Key RAM word being loaded
  srot_wait,            \* wait_state_counter
  host,                 \* host_req_i, host_we_i, host_addr_i, host_wdata_i
  keyindexram_b_addr, keyram_b_addr,
  keyindexram_q, keyram_q,        \* the clocked read ports, when there are
  reqfifo_clr, reqfifo_rready,    \* llkic2_reqfifo_clr_i, _rready_i
  respfifo_w,           \* llkic2_respfifo_wvalid_i and _wdata_i
  mode,                 \* the mode bits that are set
  resp_waiting,         \* the SROT_CTRLSTS_RESP_WAITING status bit
  reqfifo_w,            \* llkic2_reqfifo_wvalid_i and _wdata_i
  ram_w,                \* the two RAM A ports: write enable, address, data
  write_error,
  reqfifo, respfifo, keyindexram, keyram

stmVars == <<srot_state, msg, current_pointer, srot_wait, host, keyindexram_b_addr,
             keyram_b_addr, reqfifo_clr, reqfifo_rready, respfifo_w>>
decodeVars == <<mode, resp_waiting, reqfifo_w, ram_w, write_error>>
memVars == <<reqfifo, respfifo, keyindexram, keyram, keyindexram_q, keyram_q>>
srotVars == <<stmVars, decodeVars, memVars>>

None == [none |-> TRUE]
ZeroMsg == [msg_id |-> 0, status |-> 0, msg_len |-> 0, key_index |-> 0, rsvd |-> 0]
InvalidEntry == [valid |-> FALSE, core |-> 0, high |-> 0, low |-> 0]

IndexSlots == 0 .. SROT_KEYINDEXRAM_SIZE - 1
KeySlots   == 0 .. SROT_KEYRAM_SIZE - 1

SrotInit ==
  /\ srot_state = "IDLE" /\ msg = ZeroMsg
  /\ current_pointer = 0 /\ srot_wait = SROT_WAIT_STATE_COUNTER_INIT
  /\ host = NoAccess
  /\ keyindexram_b_addr = 0 /\ keyram_b_addr = 0
  /\ reqfifo_clr = FALSE /\ reqfifo_rready = FALSE /\ respfifo_w = None
  /\ mode = {} /\ resp_waiting = FALSE /\ reqfifo_w = None
  /\ ram_w = None /\ write_error = FALSE
  /\ reqfifo = <<>> /\ respfifo = <<>>
  /\ keyindexram_q = keyindexram[0] /\ keyram_q = keyram[0]
-----------------------------------------------------------------------------
(* The processor side: write and read decode.  An access is                *)
(* [op |-> "write", addr |-> a, data |-> d], [op |-> "read", addr |-> a]    *)
(* or NoAccess.                                                             *)

\* The Key RAM is decoded first: where the two ranges overlap it wins.
InKeyRam(a) == a \in SROT_KEYRAM_ADDR .. SROT_KEYRAM_ADDR + SROT_KEYRAM_SIZE - 1

InKeyIndexRam(a) ==
  /\ ~InKeyRam(a)
  /\ a \in SROT_KEYINDEXRAM_ADDR .. SROT_KEYINDEXRAM_ADDR + SROT_KEYINDEXRAM_SIZE - 1

Operational == mode # {}

ReqFifoFull == Len(reqfifo) = FIFO_DEPTH

\* Mutant of DecodeRamWrite: the Key Index RAM is not protected by the mode.
DecodeRamWriteAnyMode(acc) ==
  ram_w' = IF acc.op = "write" /\ ~Operational /\ InKeyRam(acc.addr)
           THEN [ram |-> "key", slot |-> acc.addr - SROT_KEYRAM_ADDR, data |-> acc.data]
           ELSE IF acc.op = "write" /\ InKeyIndexRam(acc.addr)
           THEN [ram |-> "index", slot |-> acc.addr - SROT_KEYINDEXRAM_ADDR, data |-> acc.data]
           ELSE None

DecodeRamWrite(acc) ==
  ram_w' = IF acc.op = "write" /\ ~Operational /\ InKeyRam(acc.addr)
           THEN [ram |-> "key", slot |-> acc.addr - SROT_KEYRAM_ADDR, data |-> acc.data]
           ELSE IF acc.op = "write" /\ ~Operational /\ InKeyIndexRam(acc.addr)
           THEN [ram |-> "index", slot |-> acc.addr - SROT_KEYINDEXRAM_ADDR, data |-> acc.data]
           ELSE None

\* Mode bits are set only.
DecodeCtrlSts(acc) ==
  mode' = IF acc.op = "write" /\ acc.addr = SROT_CTRLSTS_ADDR
          THEN mode \cup acc.data ELSE mode

IsRequestWrite(acc) == acc.op = "write" /\ acc.addr = SROT_LLKIC2_SENDRECV_ADDR

\* A request written to a full FIFO is dropped; write_error follows a cycle later.
DecodeSendRecv(acc) ==
  /\ reqfifo_w' = IF IsRequestWrite(acc) /\ ~ReqFifoFull THEN acc.data ELSE None
  /\ write_error' =
       \/ IsRequestWrite(acc) /\ ReqFifoFull
       \/ /\ acc.op = "write"
          /\ ~InKeyRam(acc.addr) /\ ~InKeyIndexRam(acc.addr)
          /\ acc.addr \notin {SROT_CTRLSTS_ADDR, SROT_LLKIC2_SENDRECV_ADDR}

\* Mutant of WriteDecode: RESP_WAITING is sticky, like the mode bits.
WriteDecodeSticky(acc) ==
  /\ DecodeRamWrite(acc)
  /\ DecodeCtrlSts(acc)
  /\ DecodeSendRecv(acc)
  /\ resp_waiting' = (resp_waiting \/ respfifo # <<>>)

WriteDecode(acc) ==
  /\ DecodeRamWrite(acc)
  /\ DecodeCtrlSts(acc)
  /\ DecodeSendRecv(acc)
  /\ resp_waiting' = (respfifo # <<>>)

\* Reading SENDRECV takes a response out of the FIFO, if there is one.
TakesResponse(acc) ==
  acc.op = "read" /\ acc.addr = SROT_LLKIC2_SENDRECV_ADDR /\ respfifo # <<>>

ReadError(acc) ==
  /\ acc.op = "read"
  /\ \/ acc.addr = SROT_LLKIC2_SENDRECV_ADDR /\ respfifo = <<>>
     \/ /\ ~InKeyRam(acc.addr) /\ ~InKeyIndexRam(acc.addr)
        /\ acc.addr \notin {SROT_CTRLSTS_ADDR, SROT_LLKIC2_SENDRECV_ADDR}

\* reg_error_i, as the adapter sees it in the cycle of the access.
AccessError(acc) == ReadError(acc) \/ write_error
-----------------------------------------------------------------------------
(* prim_fifo_sync and prim_generic_ram_2p.                                  *)

\* A clear wins over a push; a push into a full FIFO is refused.
FifoStep(fifo, clr, push, pop) ==
  LET rest == IF pop /\ fifo # <<>> THEN Tail(fifo) ELSE fifo
  IN  IF clr THEN <<>>
      ELSE IF push # None /\ Len(fifo) < FIFO_DEPTH THEN Append(rest, push)
      ELSE rest

RamStep(mem, name) ==
  IF ram_w # None /\ ram_w.ram = name THEN [mem EXCEPT ![ram_w.slot] = ram_w.data] ELSE mem

Memories(acc) ==
  /\ reqfifo'  = FifoStep(reqfifo, reqfifo_clr, reqfifo_w, reqfifo_rready)
  /\ respfifo' = FifoStep(respfifo, FALSE, respfifo_w, TakesResponse(acc))
  /\ keyindexram' = RamStep(keyindexram, "index")
  /\ keyram' = RamStep(keyram, "key")
  /\ keyindexram_q' = keyindexram[keyindexram_b_addr]
  /\ keyram_q' = keyram[keyram_b_addr]

\* The Key Index RAM entry and the Key RAM word the read ports show in this cycle.
Entry   == IF RegisteredRam THEN keyindexram_q ELSE keyindexram[keyindexram_b_addr]
KeyWord == IF RegisteredRam THEN keyram_q ELSE keyram[keyram_b_addr]
-----------------------------------------------------------------------------
(* The state machine.  Every state gives its registers default values and   *)
(* then overrides some; the defaults most states share are named here.      *)

C2Requests == { LLKI_MID_C2LOADKEYREQ, LLKI_MID_C2CLEARKEYREQ, LLKI_MID_C2KEYSTATUSREQ }

ResetSrotWait == srot_wait' = SROT_WAIT_STATE_COUNTER_INIT

\* Neither FIFO is touched.
FifosIdle == reqfifo_rready' = FALSE /\ respfifo_w' = None

Advance(state) == srot_state' = state /\ UNCHANGED <<msg, reqfifo_clr>>

\* An error of the request itself: the request FIFO is told to clear.
Reject(st) ==
  /\ reqfifo_clr' = TRUE
  /\ msg' = [msg EXCEPT !.status = st]
  /\ srot_state' = "C2_RESPONSE"

\* A TileLink error on the LLKI-KL side.
BusFailed ==
  /\ msg' = [msg EXCEPT !.msg_id = LLKI_MID_C2ERRORRESP,
                        !.status = LLKI_STATUS_KL_TILELINK_ERROR, !.msg_len = 1]
  /\ srot_state' = "C2_RESPONSE"
  /\ UNCHANGED reqfifo_clr

\* Mutant of SrotIdle: the request is read and not taken out of the FIFO.
SrotIdlePeeks ==
  /\ srot_state = "IDLE"
  /\ host' = NoAccess /\ keyindexram_b_addr' = 0 /\ keyram_b_addr' = 0
  /\ FifosIdle /\ current_pointer' = 0 /\ ResetSrotWait
  /\ msg' = IF reqfifo # <<>> THEN [Head(reqfifo) EXCEPT !.status = 0] ELSE ZeroMsg
  /\ srot_state' = IF reqfifo # <<>> THEN "MESSAGE_CHECK" ELSE "IDLE"
  /\ UNCHANGED reqfifo_clr

SrotIdle ==
  /\ srot_state = "IDLE"
  /\ host' = NoAccess /\ keyindexram_b_addr' = 0 /\ keyram_b_addr' = 0
  /\ respfifo_w' = None /\ current_pointer' = 0 /\ ResetSrotWait
  /\ IF reqfifo # <<>>
     THEN /\ msg' = [Head(reqfifo) EXCEPT !.status = 0]
          /\ reqfifo_rready' = TRUE
          /\ srot_state' = "MESSAGE_CHECK"
     ELSE /\ msg' = ZeroMsg
          /\ reqfifo_rready' = FALSE
          /\ srot_state' = "IDLE"
  /\ UNCHANGED reqfifo_clr

\* Three checks in sequence; the last that fails names the error.
SrotMessageCheck ==
  /\ srot_state = "MESSAGE_CHECK"
  /\ host' = NoAccess /\ keyram_b_addr' = 0 /\ FifosIdle
  /\ current_pointer' = 0 /\ ResetSrotWait
  /\ keyindexram_b_addr' =
       IF msg.msg_id \in C2Requests THEN msg.key_index % SROT_KEYINDEXRAM_SIZE ELSE 0
  /\ \/ /\ msg.key_index >= SROT_KEYINDEXRAM_SIZE
        /\ Reject(LLKI_STATUS_KEY_INDX_EXCEED)
     \/ /\ msg.key_index < SROT_KEYINDEXRAM_SIZE /\ msg.msg_len # 1
        /\ Reject(LLKI_STATUS_BAD_MSG_LEN)
     \/ /\ msg.key_index < SROT_KEYINDEXRAM_SIZE /\ msg.msg_len = 1
        /\ msg.msg_id \notin C2Requests
        /\ Reject(LLKI_STATUS_BAD_MSG_ID)
     \/ /\ msg.key_index < SROT_KEYINDEXRAM_SIZE /\ msg.msg_len = 1
        /\ msg.msg_id \in C2Requests
        /\ Advance("RETRIEVE_KEY_INDEX")

BadPointers(e) ==
  e.low >= SROT_KEYRAM_SIZE \/ e.high >= SROT_KEYRAM_SIZE \/ e.low > e.high

SrotRetrieveKeyIndex ==
  /\ srot_state = "RETRIEVE_KEY_INDEX"
  /\ host' = NoAccess /\ keyram_b_addr' = 0 /\ FifosIdle /\ ResetSrotWait
  /\ \/ /\ ~Entry.valid
        /\ Reject(LLKI_STATUS_KEY_INDEX_INVALID) /\ current_pointer' = 0
     \/ /\ Entry.valid /\ BadPointers(Entry)
        /\ Reject(LLKI_STATUS_BAD_POINTER_PAIR) /\ current_pointer' = 0
     \/ /\ Entry.valid /\ ~BadPointers(Entry) /\ Entry.core > HighCore
        /\ Reject(LLKI_STATUS_BAD_CORE_INDEX) /\ current_pointer' = 0
     \/ /\ Entry.valid /\ ~BadPointers(Entry) /\ Entry.core <= HighCore
        /\ Advance("KL_REQ_HEADER") /\ current_pointer' = Entry.low
  /\ UNCHANGED keyindexram_b_addr

\* Mutant of KlHeader: the header itself is not counted.
KlHeaderShort ==
  CASE msg.msg_id = LLKI_MID_C2LOADKEYREQ ->
         Header(LLKI_MID_KLLOADKEYREQ, ((Entry.high - Entry.low) + 1) % 256)
    [] msg.msg_id = LLKI_MID_C2CLEARKEYREQ -> Header(LLKI_MID_KLCLEARKEYREQ, 1)
    [] OTHER -> Header(LLKI_MID_KLKEYSTATUSREQ, 1)

\* The length byte of a load counts the header and the key words, modulo 256.
KlHeader ==
  CASE msg.msg_id = LLKI_MID_C2LOADKEYREQ ->
         Header(LLKI_MID_KLLOADKEYREQ, ((Entry.high - Entry.low) + 2) % 256)
    [] msg.msg_id = LLKI_MID_C2CLEARKEYREQ -> Header(LLKI_MID_KLCLEARKEYREQ, 1)
    [] OTHER -> Header(LLKI_MID_KLKEYSTATUSREQ, 1)

SrotReqHeader ==
  /\ srot_state = "KL_REQ_HEADER"
  /\ host' = Write(KlHeader)
  /\ keyram_b_addr' = 0 /\ FifosIdle /\ ResetSrotWait
  /\ Advance("KL_REQ_ISSUE")
  /\ UNCHANGED <<current_pointer, keyindexram_b_addr>>

SrotReqIssue(gnt, err) ==
  /\ srot_state = "KL_REQ_ISSUE"
  /\ keyram_b_addr' = 0 /\ FifosIdle /\ ResetSrotWait
  /\ \/ ~gnt /\ Advance("KL_REQ_ISSUE") /\ UNCHANGED host
     \/ gnt /\ err /\ BusFailed /\ host' = NoAccess
     \/ gnt /\ ~err /\ Advance("KL_REQ_WAIT_FOR_ACK") /\ host' = NoAccess
  /\ UNCHANGED <<current_pointer, keyindexram_b_addr>>

SrotReqWaitForAck(rsp) ==
  /\ srot_state = "KL_REQ_WAIT_FOR_ACK"
  /\ host' = NoAccess /\ keyram_b_addr' = 0 /\ FifosIdle /\ ResetSrotWait
  /\ \/ rsp = None /\ Advance("KL_REQ_WAIT_FOR_ACK")
     \/ /\ rsp # None /\ msg.msg_id = LLKI_MID_C2LOADKEYREQ
        /\ Advance("KL_READ_READY_STATUS")
     \/ /\ rsp # None /\ msg.msg_id # LLKI_MID_C2LOADKEYREQ
        /\ Advance("KL_READ_RESP_STATUS")
  /\ UNCHANGED <<current_pointer, keyindexram_b_addr>>

\* Mutant of SrotReadReadyStatus: the Key RAM is not pointed at the next word.
SrotReadReadyStatusNoPointer(gnt, err) ==
  /\ srot_state = "KL_READ_READY_STATUS"
  /\ host' = ReadCtrlSts
  /\ FifosIdle /\ ResetSrotWait
  /\ \/ err /\ BusFailed
     \/ ~err /\ gnt /\ Advance("KL_CHECK_READY_STATUS")
     \/ ~err /\ ~gnt /\ Advance("KL_READ_READY_STATUS")
  /\ UNCHANGED <<current_pointer, keyindexram_b_addr, keyram_b_addr>>

\* The grant is looked at in the very cycle the request is being raised, so the
\* request is up for one more cycle in the next state.
SrotReadReadyStatus(gnt, err) ==
  /\ srot_state = "KL_READ_READY_STATUS"
  /\ host' = ReadCtrlSts
  /\ FifosIdle /\ ResetSrotWait
  /\ \/ err /\ BusFailed /\ keyram_b_addr' = 0
     \/ ~err /\ gnt /\ Advance("KL_CHECK_READY_STATUS")
           /\ keyram_b_addr' = current_pointer % SROT_KEYRAM_SIZE
     \/ ~err /\ ~gnt /\ Advance("KL_READ_READY_STATUS") /\ keyram_b_addr' = 0
  /\ UNCHANGED <<current_pointer, keyindexram_b_addr>>

\* Mutant of SrotCheckReadyStatus: a key word is sent ready or not.
SrotCheckReadyStatusBlind(rsp) ==
  /\ srot_state = "KL_CHECK_READY_STATUS"
  /\ FifosIdle /\ ResetSrotWait
  /\ \/ rsp = None /\ Advance("KL_CHECK_READY_STATUS") /\ host' = NoAccess
     \/ rsp # None /\ Advance("KL_LOAD_KEY_WORD") /\ host' = Write(KeyWord)
  /\ UNCHANGED <<current_pointer, keyindexram_b_addr, keyram_b_addr>>

SrotCheckReadyStatus(rsp) ==
  /\ srot_state = "KL_CHECK_READY_STATUS"
  /\ FifosIdle /\ ResetSrotWait
  /\ \/ rsp = None /\ Advance("KL_CHECK_READY_STATUS") /\ host' = NoAccess
     \/ /\ rsp # None /\ rsp.ready_for_key
        /\ Advance("KL_LOAD_KEY_WORD") /\ host' = Write(KeyWord)
     \/ /\ rsp # None /\ ~rsp.ready_for_key
        /\ Advance("KL_READY_WAIT_STATE") /\ host' = NoAccess
  /\ UNCHANGED <<current_pointer, keyindexram_b_addr, keyram_b_addr>>

\* Wait before polling again; the two poll loops share this shape.
WaitThenPoll(state, poll, err) ==
  /\ srot_state = state
  /\ host' = NoAccess /\ FifosIdle
  /\ srot_wait' = Dec8(srot_wait)
  /\ \/ err /\ BusFailed
     \/ ~err /\ srot_wait = 0 /\ Advance(poll)
     \/ ~err /\ srot_wait # 0 /\ Advance(state)
  /\ UNCHANGED keyindexram_b_addr

SrotReadyWaitState(err) ==
  /\ WaitThenPoll("KL_READY_WAIT_STATE", "KL_READ_READY_STATUS", err)
  /\ UNCHANGED <<current_pointer, keyram_b_addr>>

\* Mutant of SrotLoadKeyWord: the request is not taken down when it is granted.
SrotLoadKeyWordTwice(gnt) ==
  /\ srot_state = "KL_LOAD_KEY_WORD"
  /\ FifosIdle /\ ResetSrotWait
  /\ host' = Write(KeyWord)
  /\ IF gnt THEN Advance("KL_LOAD_KEY_WORD_WAIT_FOR_ACK") ELSE Advance("KL_LOAD_KEY_WORD")
  /\ UNCHANGED <<current_pointer, keyindexram_b_addr, keyram_b_addr>>

SrotLoadKeyWord(gnt) ==
  /\ srot_state = "KL_LOAD_KEY_WORD"
  /\ FifosIdle /\ ResetSrotWait
  /\ \/ gnt /\ Advance("KL_LOAD_KEY_WORD_WAIT_FOR_ACK") /\ host' = NoAccess
     \/ ~gnt /\ Advance("KL_LOAD_KEY_WORD") /\ host' = Write(KeyWord)
  /\ UNCHANGED <<current_pointer, keyindexram_b_addr, keyram_b_addr>>

\* Mutant of SrotLoadKeyWordWaitForAck: the end is tested after the increment.
SrotLoadKeyWordWaitForAckLate(rsp) ==
  /\ srot_state = "KL_LOAD_KEY_WORD_WAIT_FOR_ACK"
  /\ host' = NoAccess /\ FifosIdle /\ ResetSrotWait
  /\ \/ /\ rsp = None
        /\ Advance("KL_LOAD_KEY_WORD_WAIT_FOR_ACK") /\ UNCHANGED current_pointer
     \/ /\ rsp # None /\ current_pointer = Entry.high + 1
        /\ Advance("KL_READ_RESP_STATUS") /\ UNCHANGED current_pointer
     \/ /\ rsp # None /\ current_pointer # Entry.high + 1
        /\ Advance("KL_READ_READY_STATUS")
        /\ current_pointer' = (current_pointer + 1) % PointerSpan
  /\ UNCHANGED <<keyindexram_b_addr, keyram_b_addr>>

SrotLoadKeyWordWaitForAck(rsp) ==
  /\ srot_state = "KL_LOAD_KEY_WORD_WAIT_FOR_ACK"
  /\ host' = NoAccess /\ FifosIdle /\ ResetSrotWait
  /\ \/ /\ rsp = None
        /\ Advance("KL_LOAD_KEY_WORD_WAIT_FOR_ACK") /\ UNCHANGED current_pointer
     \/ /\ rsp # None /\ current_pointer = Entry.high
        /\ Advance("KL_READ_RESP_STATUS") /\ UNCHANGED current_pointer
     \/ /\ rsp # None /\ current_pointer # Entry.high
        /\ Advance("KL_READ_READY_STATUS")
        /\ current_pointer' = (current_pointer + 1) % PointerSpan
  /\ UNCHANGED <<keyindexram_b_addr, keyram_b_addr>>

SrotReadRespStatus(gnt, err) ==
  /\ srot_state = "KL_READ_RESP_STATUS"
  /\ host' = ReadCtrlSts
  /\ keyram_b_addr' = 0 /\ FifosIdle /\ current_pointer' = 0 /\ ResetSrotWait
  /\ \/ err /\ BusFailed
     \/ ~err /\ gnt /\ Advance("KL_CHECK_RESP_STATUS")
     \/ ~err /\ ~gnt /\ Advance("KL_READ_RESP_STATUS")
  /\ UNCHANGED keyindexram_b_addr

SrotCheckRespStatus(rsp) ==
  /\ srot_state = "KL_CHECK_RESP_STATUS"
  /\ keyram_b_addr' = 0 /\ FifosIdle /\ current_pointer' = 0 /\ ResetSrotWait
  /\ \/ rsp = None /\ Advance("KL_CHECK_RESP_STATUS") /\ host' = NoAccess
     \/ /\ rsp # None /\ rsp.resp_waiting
        /\ Advance("KL_RESP_READ") /\ host' = ReadSendRecv
     \/ /\ rsp # None /\ ~rsp.resp_waiting
        /\ Advance("KL_RESP_WAIT_STATE") /\ host' = NoAccess
  /\ UNCHANGED keyindexram_b_addr

SrotRespWaitState(err) ==
  /\ WaitThenPoll("KL_RESP_WAIT_STATE", "KL_READ_RESP_STATUS", err)
  /\ keyram_b_addr' = 0 /\ current_pointer' = 0

SrotRespRead(err, rsp) ==
  /\ srot_state = "KL_RESP_READ"
  /\ host' = NoAccess
  /\ keyram_b_addr' = 0 /\ FifosIdle /\ current_pointer' = 0 /\ ResetSrotWait
  /\ \/ err /\ BusFailed
     \/ /\ ~err /\ rsp # None
        /\ msg' = [msg EXCEPT !.msg_id = rsp.msg_id, !.status = rsp.status,
                              !.msg_len = rsp.msg_len]
        /\ srot_state' = "C2_RESPONSE"
        /\ UNCHANGED reqfifo_clr
     \/ ~err /\ rsp = None /\ Advance("KL_RESP_READ")
  /\ UNCHANGED keyindexram_b_addr

C2Word(id, st) == [msg_id |-> id, status |-> st, rsvd |-> msg.rsvd]

ExpectedErrors ==
  { LLKI_STATUS_BAD_MSG_ID, LLKI_STATUS_BAD_MSG_LEN, LLKI_STATUS_KEY_INDX_EXCEED,
    LLKI_STATUS_KEY_INDEX_INVALID, LLKI_STATUS_BAD_POINTER_PAIR,
    LLKI_STATUS_BAD_CORE_INDEX, LLKI_STATUS_KL_REQ_BAD_MSG_ID,
    LLKI_STATUS_KL_REQ_BAD_MSG_LEN, LLKI_STATUS_KL_RESP_BAD_MSG_ID,
    LLKI_STATUS_KL_TILELINK_ERROR }

C2Answer ==
  CASE msg.status \in GoodStatus /\ msg.msg_id = LLKI_MID_KLLOADKEYACK ->
         C2Word(LLKI_MID_C2LOADKEYACK, msg.status)
    [] msg.status \in GoodStatus /\ msg.msg_id = LLKI_MID_KLCLEARKEYACK ->
         C2Word(LLKI_MID_C2CLEARKEYACK, msg.status)
    [] msg.status \in GoodStatus /\ msg.msg_id = LLKI_MID_KLKEYSTATUSRESP ->
         C2Word(LLKI_MID_C2KEYSTATUSRESP, msg.status)
    [] msg.status \in GoodStatus /\ msg.msg_id \notin
         { LLKI_MID_KLLOADKEYACK, LLKI_MID_KLCLEARKEYACK, LLKI_MID_KLKEYSTATUSRESP } ->
         C2Word(LLKI_MID_KLERRORRESP, LLKI_STATUS_KL_RESP_BAD_MSG_ID)
    [] msg.status \in ExpectedErrors -> C2Word(LLKI_MID_C2ERRORRESP, msg.status)
    [] OTHER -> C2Word(LLKI_MID_C2ERRORRESP, LLKI_STATUS_UNKNOWN_ERROR)

\* The response is pushed whether or not the response FIFO has room.
SrotC2Response ==
  /\ srot_state = "C2_RESPONSE"
  /\ host' = NoAccess /\ keyindexram_b_addr' = 0 /\ keyram_b_addr' = 0
  /\ reqfifo_rready' = FALSE /\ current_pointer' = 0 /\ ResetSrotWait
  /\ respfifo_w' = C2Answer
  /\ msg' = [msg EXCEPT !.key_index = 0]
  /\ srot_state' = "IDLE"
  /\ UNCHANGED reqfifo_clr

Stm(gnt, err, rsp) ==
  \/ SrotIdle
  \/ SrotMessageCheck
  \/ SrotRetrieveKeyIndex
  \/ SrotReqHeader
  \/ SrotReqIssue(gnt, err)
  \/ SrotReqWaitForAck(rsp)
  \/ SrotReadReadyStatus(gnt, err)
  \/ SrotCheckReadyStatus(rsp)
  \/ SrotReadyWaitState(err)
  \/ SrotLoadKeyWord(gnt)
  \/ SrotLoadKeyWordWaitForAck(rsp)
  \/ SrotReadRespStatus(gnt, err)
  \/ SrotCheckRespStatus(rsp)
  \/ SrotRespWaitState(err)
  \/ SrotRespRead(err, rsp)
  \/ SrotC2Response

\* Everything else a rising edge of the clock does.
Ports(acc) == WriteDecode(acc) /\ Memories(acc)
-----------------------------------------------------------------------------
SrotStates ==
  { "IDLE", "MESSAGE_CHECK", "RETRIEVE_KEY_INDEX", "KL_REQ_HEADER", "KL_REQ_ISSUE",
    "KL_REQ_WAIT_FOR_ACK", "KL_READ_READY_STATUS", "KL_CHECK_READY_STATUS",
    "KL_READY_WAIT_STATE", "KL_LOAD_KEY_WORD", "KL_LOAD_KEY_WORD_WAIT_FOR_ACK",
    "KL_READ_RESP_STATUS", "KL_CHECK_RESP_STATUS", "KL_RESP_WAIT_STATE",
    "KL_RESP_READ", "C2_RESPONSE" }

\* The states in which current_pointer stands for a word of the key.
Loading ==
  { "KL_REQ_HEADER", "KL_REQ_ISSUE", "KL_REQ_WAIT_FOR_ACK", "KL_READ_READY_STATUS",
    "KL_CHECK_READY_STATUS", "KL_READY_WAIT_STATE", "KL_LOAD_KEY_WORD",
    "KL_LOAD_KEY_WORD_WAIT_FOR_ACK" }

\* The word the load has reached belongs to its key, and the Key RAM is
\* pointed at it while it is put on the bus.
InsideKey ==
  LET entry == keyindexram[keyindexram_b_addr]
  IN  /\ ~BadPointers(entry) /\ Entry = entry
      /\ current_pointer \in entry.low .. entry.high
      /\ srot_state \in {"KL_CHECK_READY_STATUS", "KL_LOAD_KEY_WORD"} =>
           keyram_b_addr = current_pointer
=============================================================================
