---------------------------- MODULE Driver_proofs ----------------------------
(***************************************************************************)
(* Proofs about one clock edge of the processor and the SRoT, for every    *)
(* size of the memories, every driver and everything the bus may do.  They *)
(* are lemmas about the parts of a step, for the modules that put a whole  *)
(* step together.                                                          *)
(***************************************************************************)
EXTENDS Driver, SequenceTheorems, TLAPS

\* No RAM write is on its way while a mode bit is set.
NoLateWrite == Operational => ram_w = None

(* A register access is tested against the mode bits that hold before it,   *)
(* and the access that sets a mode bit is itself no RAM write.              *)
LEMMA WriteDecodeStep ==
  ASSUME NoLateWrite, NEW acc, WriteDecode(acc)
  PROVE  NoLateWrite'
<1>1. ASSUME ram_w' # None
      PROVE  /\ mode = {}
             /\ acc.op = "write"
             /\ InKeyRam(acc.addr) \/ InKeyIndexRam(acc.addr)
  BY <1>1 DEF WriteDecode, DecodeRamWrite, Operational
<1>2. ~InKeyRam(SROT_CTRLSTS_ADDR) /\ ~InKeyIndexRam(SROT_CTRLSTS_ADDR)
  BY SrotAssumption DEF InKeyRam, InKeyIndexRam, SROT_CTRLSTS_ADDR
<1>3. ASSUME ram_w' # None PROVE mode' = {}
  BY <1>1, <1>2, <1>3 DEF WriteDecode, DecodeCtrlSts
<1> QED
  BY <1>3 DEF NoLateWrite, Operational

LEMMA FrozenStep ==
  ASSUME NoLateWrite, Operational, NEW acc, Memories(acc)
  PROVE  keyindexram' = keyindexram /\ keyram' = keyram
  BY DEF NoLateWrite, Memories, RamStep

-----------------------------------------------------------------------------
(* Type correctness: what the FIFOs, the Key Index RAM and their registered *)
(* ports hold has to be known as well.                                      *)

C2Response == [msg_id : Byte, status : Byte, rsvd : Nat]

StmTypes ==
  /\ srot_state \in SrotStates /\ msg \in C2Message
  /\ current_pointer \in 0 .. PointerSpan - 1 /\ srot_wait \in Byte
  /\ keyindexram_b_addr \in IndexSlots /\ keyram_b_addr \in KeySlots
  /\ reqfifo_clr \in BOOLEAN /\ reqfifo_rready \in BOOLEAN
  /\ respfifo_w \in C2Response \cup {None}

DecodeTypes ==
  /\ reqfifo_w \in C2Message \cup {None}
  /\ resp_waiting \in BOOLEAN /\ write_error \in BOOLEAN
  /\ ram_w # None /\ ram_w.ram = "index" => ram_w.data \in IndexEntry

MemoryTypes ==
  /\ reqfifo \in Seq(C2Message) /\ Len(reqfifo) <= FIFO_DEPTH
  /\ respfifo \in Seq(C2Response) /\ Len(respfifo) <= FIFO_DEPTH
  /\ keyindexram \in [IndexSlots -> IndexEntry]
  /\ keyindexram_q \in IndexEntry

DriverTypes == drv_tag \in Nat /\ drv_setup \in 0 .. Len(Setup)

TypeInv == StmTypes /\ DecodeTypes /\ MemoryTypes /\ DriverTypes

LEMMA ModRange ==
  ASSUME NEW a \in Int, NEW n \in Nat \ {0} PROVE a % n \in 0 .. n - 1
OBVIOUS

LEMMA ModSmall ==
  ASSUME NEW n \in Nat \ {0}, NEW a \in 0 .. n - 1 PROVE a % n = a
OBVIOUS

\* What the Key Index RAM shows is an entry, clocked read port or not.
LEMMA EntryTyped == TypeInv => Entry \in IndexEntry
  BY DEF TypeInv, StmTypes, MemoryTypes, Entry

\* A FIFO keeps its depth and the type of what it holds; without a pop and a
\* clear it does not become empty.
LEMMA FifoTyped ==
  ASSUME NEW T, NEW fifo \in Seq(T), Len(fifo) <= FIFO_DEPTH,
         NEW clr \in BOOLEAN, NEW pop \in BOOLEAN, NEW push \in T \cup {None}
  PROVE  /\ FifoStep(fifo, clr, push, pop) \in Seq(T)
         /\ Len(FifoStep(fifo, clr, push, pop)) <= FIFO_DEPTH
         /\ fifo # <<>> /\ ~pop /\ ~clr => FifoStep(fifo, clr, push, pop) # <<>>
<1> DEFINE rest == IF pop /\ fifo # <<>> THEN Tail(fifo) ELSE fifo
<1>1. rest \in Seq(T) /\ Len(rest) <= Len(fifo)
  OBVIOUS
<1>2. CASE clr
  BY <1>2, SrotAssumption DEF FifoStep
<1>3. CASE ~clr /\ push # None /\ Len(fifo) < FIFO_DEPTH
  <2>1. FifoStep(fifo, clr, push, pop) = Append(rest, push) /\ push \in T
    BY <1>3 DEF FifoStep
  <2> HIDE DEF rest
  <2> QED
    BY <1>1, <1>3, <2>1, SrotAssumption
<1>4. CASE ~clr /\ ~(push # None /\ Len(fifo) < FIFO_DEPTH)
  BY <1>1, <1>4, SrotAssumption DEF FifoStep
<1> QED
  BY <1>2, <1>3, <1>4

\* A write of the driver carries a request or, to the Key Index RAM, an entry.
AccessTyped(acc) ==
  /\ IsRequestWrite(acc) => acc.data \in C2Message
  /\ acc.op = "write" => IsEntryIfForIndexRam(acc)

LEMMA DriverAccess ==
  ASSUME TypeInv, NEW acc \in DriverAccesses, DriverStep(acc)
  PROVE  AccessTyped(acc) /\ DriverTypes'
<1>1. ASSUME NEW r \in Requests PROVE AccessTyped(Request(r, drv_tag))
  <2>1. [r EXCEPT !.rsvd = drv_tag] \in C2Message
    BY DriverAssumption DEF TypeInv, DriverTypes, C2Message
  <2>2. ~InKeyIndexRam(SROT_LLKIC2_SENDRECV_ADDR)
    BY SrotAssumption DEF InKeyIndexRam, SROT_LLKIC2_SENDRECV_ADDR
  <2> QED
    BY <2>1, <2>2 DEF AccessTyped, Request, RegWrite, IsEntryIfForIndexRam
<1>2. AccessTyped(acc)
  <2>1. CASE acc \in {NoAccess, PollStatus, ReadMsg}
    BY <2>1 DEF NoAccess, PollStatus, ReadMsg, RegRead, AccessTyped, IsRequestWrite
  <2>2. CASE acc \in StrayWrites \cup { Setup[i] : i \in DOMAIN Setup }
    BY <2>2, DriverAssumption DEF AccessTyped, IsRequestWrite
  <2> QED
    BY <1>1, <2>1, <2>2 DEF DriverAccesses
<1>3. drv_tag' \in Nat
  <2>1. (drv_tag + 1) % (Window + 1) \in Nat
    BY ModRange, DriverAssumption DEF TypeInv, DriverTypes
  <2> QED
    BY <2>1 DEF TypeInv, DriverTypes, DriverStep, DriverIdle, DriverSetup, DriverStrayWrite, DriverSend,
                DriverPoll, DriverReadMsg
<1>4. drv_setup' \in 0 .. Len(Setup)
  <2>1. CASE DriverSetup(acc)
    BY <2>1, DriverAssumption DEF TypeInv, DriverTypes, DriverSetup, SetupDone
  <2>2. CASE drv_setup' = drv_setup
    BY <2>2 DEF TypeInv, DriverTypes
  <2> QED
    BY <2>1, <2>2 DEF DriverStep, DriverIdle, DriverStrayWrite, DriverSend, DriverPoll,
                      DriverReadMsg
<1> QED
  BY <1>2, <1>3, <1>4 DEF DriverTypes

LEMMA DecodeTyped ==
  ASSUME NEW acc, AccessTyped(acc), WriteDecode(acc)
  PROVE  DecodeTypes'
<1>1. reqfifo_w' \in C2Message \cup {None}
  BY DEF AccessTyped, WriteDecode, DecodeSendRecv
<1>2. resp_waiting' \in BOOLEAN /\ write_error' \in BOOLEAN
  BY DEF WriteDecode, DecodeSendRecv
<1>3. ram_w' # None /\ ram_w'.ram = "index" => ram_w'.data \in IndexEntry
  BY DEF AccessTyped, WriteDecode, DecodeRamWrite, IsEntryIfForIndexRam
<1> QED
  BY <1>1, <1>2, <1>3 DEF DecodeTypes

LEMMA MemoriesTyped ==
  ASSUME TypeInv, NEW acc, Memories(acc)
  PROVE  MemoryTypes'
<1>1. reqfifo' \in Seq(C2Message) /\ Len(reqfifo') <= FIFO_DEPTH
  BY FifoTyped DEF TypeInv, StmTypes, DecodeTypes, MemoryTypes, Memories
<1>2. respfifo' \in Seq(C2Response) /\ Len(respfifo') <= FIFO_DEPTH
  BY FifoTyped DEF TypeInv, StmTypes, MemoryTypes, Memories, TakesResponse
<1>3. keyindexram' \in [IndexSlots -> IndexEntry]
  BY DEF TypeInv, DecodeTypes, MemoryTypes, Memories, RamStep
<1>4. keyindexram_q' \in IndexEntry
  BY DEF TypeInv, StmTypes, MemoryTypes, Memories
<1> QED
  BY <1>1, <1>2, <1>3, <1>4 DEF MemoryTypes

LEMMA MsgTyped ==
  ASSUME NEW m \in C2Message, NEW id \in Byte, NEW st \in Byte, NEW len \in Byte
  PROVE  /\ [m EXCEPT !.msg_id = id, !.status = st, !.msg_len = len] \in C2Message
         /\ [m EXCEPT !.status = st] \in C2Message
         /\ [m EXCEPT !.key_index = 0] \in C2Message
  BY DEF C2Message

LEMMA Literals ==
  /\ {0, 1} \subseteq Byte
  /\ { LLKI_MID_C2ERRORRESP, LLKI_STATUS_KL_TILELINK_ERROR, LLKI_STATUS_KEY_INDX_EXCEED,
       LLKI_STATUS_BAD_MSG_LEN, LLKI_STATUS_BAD_MSG_ID, LLKI_STATUS_KEY_INDEX_INVALID,
       LLKI_STATUS_BAD_POINTER_PAIR, LLKI_STATUS_BAD_CORE_INDEX } \subseteq Byte
  BY DEF Byte, LLKI_MID_C2ERRORRESP, LLKI_STATUS_KL_TILELINK_ERROR,
         LLKI_STATUS_KEY_INDX_EXCEED, LLKI_STATUS_BAD_MSG_LEN, LLKI_STATUS_BAD_MSG_ID,
         LLKI_STATUS_KEY_INDEX_INVALID, LLKI_STATUS_BAD_POINTER_PAIR,
         LLKI_STATUS_BAD_CORE_INDEX

\* What the bus answers to the read of a response is made of bytes.
AnswerTyped(rsp) ==
  srot_state = "KL_RESP_READ" /\ rsp # None =>
    rsp.msg_id \in Byte /\ rsp.status \in Byte /\ rsp.msg_len \in Byte

(* One step of the state machine, whatever else the bus answers.            *)
LEMMA StmTyped ==
  ASSUME TypeInv, NEW gnt \in BOOLEAN, NEW err \in BOOLEAN,
         NEW rsp, AnswerTyped(rsp), Stm(gnt, err, rsp)
  PROVE  StmTypes'
<1> USE SrotAssumption DEF TypeInv, StmTypes, SrotStates, IndexSlots, KeySlots,
          FifosIdle, ResetSrotWait, Advance
<1>0. 0 \in IndexSlots /\ 0 \in KeySlots /\ 0 \in 0 .. PointerSpan - 1
  OBVIOUS
<1>1. ASSUME NEW st \in Byte, Reject(st)
      PROVE  msg' \in C2Message /\ srot_state' \in SrotStates /\ reqfifo_clr' \in BOOLEAN
  BY <1>1, MsgTyped, Literals DEF Reject
<1>2. ASSUME BusFailed
      PROVE  msg' \in C2Message /\ srot_state' \in SrotStates /\ reqfifo_clr' \in BOOLEAN
  BY <1>2, MsgTyped, Literals DEF BusFailed
<1>3. CASE SrotIdle
  <2>1. reqfifo # <<>> => [Head(reqfifo) EXCEPT !.status = 0] \in C2Message
    <3>1. reqfifo # <<>> => Head(reqfifo) \in C2Message
      BY DEF MemoryTypes
    <3> QED
      BY <3>1, MsgTyped, Literals
  <2>2. ZeroMsg \in C2Message
    BY DEF ZeroMsg, C2Message, Byte
  <2> QED
    BY <1>0, <1>3, <2>1, <2>2 DEF SrotIdle
<1>4. CASE SrotMessageCheck
  <2>1. msg.key_index % SROT_KEYINDEXRAM_SIZE \in IndexSlots
    <3>1. msg.key_index \in Int /\ SROT_KEYINDEXRAM_SIZE \in Nat \ {0}
      BY DEF C2Message
    <3>2. msg.key_index % SROT_KEYINDEXRAM_SIZE \in 0 .. SROT_KEYINDEXRAM_SIZE - 1
      BY <3>1, ModRange
    <3> QED
      BY <3>2
  <2>2. msg' \in C2Message /\ srot_state' \in SrotStates /\ reqfifo_clr' \in BOOLEAN
    BY <1>1, <1>4, Literals DEF SrotMessageCheck
  <2> QED
    BY <1>0, <1>4, <2>1, <2>2 DEF SrotMessageCheck
<1>5. CASE SrotRetrieveKeyIndex
  <2>1. msg' \in C2Message /\ srot_state' \in SrotStates /\ reqfifo_clr' \in BOOLEAN
    BY <1>1, <1>5, Literals DEF SrotRetrieveKeyIndex
  <2>2. current_pointer' \in 0 .. PointerSpan - 1
    BY <1>0, <1>5, EntryTyped DEF SrotRetrieveKeyIndex, BadPointers, IndexEntry
  <2> QED
    BY <1>0, <1>5, <2>1, <2>2 DEF SrotRetrieveKeyIndex
<1>6. CASE SrotReqHeader \/ SrotReqIssue(gnt, err) \/ SrotReqWaitForAck(rsp)
  BY <1>0, <1>2, <1>6 DEF SrotReqHeader, SrotReqIssue, SrotReqWaitForAck
<1>7. CASE SrotReadReadyStatus(gnt, err)
  <2>1. current_pointer % SROT_KEYRAM_SIZE \in KeySlots
    BY ModRange
  <2> QED
    BY <1>0, <1>2, <1>7, <2>1 DEF SrotReadReadyStatus
<1>8. CASE SrotCheckReadyStatus(rsp) \/ SrotLoadKeyWord(gnt)
  BY <1>8 DEF SrotCheckReadyStatus, SrotLoadKeyWord
<1>9. CASE SrotReadyWaitState(err) \/ SrotRespWaitState(err)
  <2>1. Dec8(srot_wait) \in Byte
    BY DEF Dec8, Byte
  <2>2. \A state, poll \in SrotStates :
          WaitThenPoll(state, poll, err) => /\ msg' \in C2Message
                                            /\ srot_state' \in SrotStates
                                            /\ reqfifo_clr' \in BOOLEAN
    BY <1>2 DEF WaitThenPoll
  <2>3. msg' \in C2Message /\ srot_state' \in SrotStates /\ reqfifo_clr' \in BOOLEAN
    BY <1>9, <2>2 DEF SrotReadyWaitState, SrotRespWaitState
  <2> QED
    BY <1>0, <1>9, <2>1, <2>3 DEF SrotReadyWaitState, SrotRespWaitState, WaitThenPoll
<1>10. CASE SrotLoadKeyWordWaitForAck(rsp)
  <2>1. (current_pointer + 1) % PointerSpan \in 0 .. PointerSpan - 1
    BY ModRange
  <2> QED
    BY <1>10, <2>1 DEF SrotLoadKeyWordWaitForAck
<1>11. CASE SrotReadRespStatus(gnt, err) \/ SrotCheckRespStatus(rsp)
  BY <1>0, <1>2, <1>11 DEF SrotReadRespStatus, SrotCheckRespStatus
<1>12. CASE SrotRespRead(err, rsp)
  <2>1. rsp # None => [msg EXCEPT !.msg_id = rsp.msg_id, !.status = rsp.status,
                                  !.msg_len = rsp.msg_len] \in C2Message
    BY <1>12, MsgTyped DEF SrotRespRead, AnswerTyped
  <2>2. msg' \in C2Message /\ srot_state' \in SrotStates /\ reqfifo_clr' \in BOOLEAN
    BY <1>2, <1>12, <2>1 DEF SrotRespRead
  <2> QED
    BY <1>0, <1>12, <2>2 DEF SrotRespRead
<1>13. CASE SrotC2Response
  <2>1. C2Answer \in C2Response
    BY DEF C2Answer, C2Word, C2Response, C2Message, Byte, LLKI_MID_C2LOADKEYACK,
           LLKI_MID_C2CLEARKEYACK, LLKI_MID_C2KEYSTATUSRESP, LLKI_MID_KLERRORRESP,
           LLKI_MID_C2ERRORRESP, LLKI_STATUS_KL_RESP_BAD_MSG_ID, LLKI_STATUS_UNKNOWN_ERROR
  <2>2. [msg EXCEPT !.key_index = 0] \in C2Message
    BY MsgTyped, Literals
  <2> QED
    BY <1>0, <1>13, <2>1, <2>2 DEF SrotC2Response
<1> QED
  BY <1>3, <1>4, <1>5, <1>6, <1>7, <1>8, <1>9, <1>10, <1>11, <1>12, <1>13 DEF Stm

\* The state after reset.
Reset ==
  /\ keyindexram = [s \in IndexSlots |-> InvalidEntry]
  /\ keyram = [s \in KeySlots |-> ZeroWord]
  /\ SrotInit /\ DriverInit

LEMMA TypeInit == Reset => TypeInv
<1> SUFFICES ASSUME Reset PROVE TypeInv
  OBVIOUS
<1>1. InvalidEntry \in IndexEntry
  BY DEF InvalidEntry, IndexEntry
<1>2. keyindexram \in [IndexSlots -> IndexEntry] /\ keyindexram_q \in IndexEntry
  BY <1>1, SrotAssumption DEF Reset, SrotInit, IndexSlots
<1>3. DecodeTypes
  BY DEF Reset, SrotInit, DecodeTypes
<1>4. MemoryTypes
  BY <1>2, SrotAssumption DEF Reset, SrotInit, MemoryTypes
<1>5. ZeroMsg \in C2Message
  BY DEF ZeroMsg, C2Message, Byte
<1>6. StmTypes
  BY <1>5, SrotAssumption DEF Reset, SrotInit, StmTypes, SrotStates, IndexSlots, KeySlots
<1>7. DriverTypes
  BY DriverAssumption DEF Reset, DriverInit, DriverTypes
<1> QED
  BY <1>3, <1>4, <1>6, <1>7 DEF TypeInv

LEMMA TypeStep ==
  ASSUME TypeInv, NEW acc \in DriverAccesses, DriverStep(acc), Ports(acc),
         NEW gnt \in BOOLEAN, NEW err \in BOOLEAN,
         NEW rsp, AnswerTyped(rsp), Stm(gnt, err, rsp)
  PROVE  TypeInv'
<1>1. StmTypes'
  BY StmTyped
<1>2. DecodeTypes' /\ MemoryTypes' /\ DriverTypes'
  BY DriverAccess, DecodeTyped, MemoriesTyped DEF Ports
<1> QED
  BY <1>1, <1>2 DEF TypeInv

LEMMA TypeStutter ==
  ASSUME TypeInv, UNCHANGED <<srotVars, driverVars>>
  PROVE  TypeInv'
BY DEF srotVars, stmVars, decodeVars, memVars, driverVars,
       TypeInv, StmTypes, DecodeTypes, MemoryTypes, DriverTypes
-----------------------------------------------------------------------------
(* A poll is right although RESP_WAITING is a cycle older than the FIFO:    *)
(* the only cycle in which the bit outlives the response is the turnaround  *)
(* of the adapter after the read that took it.                              *)
BitOutlivesRead == resp_waiting /\ respfifo = <<>> => slave_busy

PollInv == BitOutlivesRead /\ PolledMeansThere

LEMMA PollStep ==
  ASSUME TypeInv, PollInv, NEW acc \in DriverAccesses, DriverStep(acc), Ports(acc)
  PROVE  PollInv'
<1>1. TakesResponse(acc) => acc = ReadMsg
  <2>1. acc.op = "read" => acc \in {PollStatus, ReadMsg}
    BY DriverAssumption DEF DriverAccesses, NoAccess, Request, RegWrite
  <2> QED
    BY <2>1 DEF TakesResponse, PollStatus, RegRead, SROT_CTRLSTS_ADDR,
                SROT_LLKIC2_SENDRECV_ADDR
<1>2. acc # ReadMsg /\ respfifo # <<>> => respfifo' # <<>>
  BY <1>1, FifoTyped DEF TypeInv, StmTypes, MemoryTypes, Ports, Memories, TakesResponse
<1>3. ReadMsg # NoAccess
  BY DEF ReadMsg, RegRead, NoAccess
<1>4. BitOutlivesRead'
  BY <1>2, <1>3 DEF BitOutlivesRead, DriverStep, Ports, WriteDecode
<1>5. ASSUME seen' PROVE respfifo # <<>> /\ acc # ReadMsg
  <2>1. CASE DriverPoll(acc)
    <3>1. respfifo # <<>>
      BY <1>5, <2>1 DEF PollInv, BitOutlivesRead, DriverPoll, DriverStep, PollStatus,
                        RegRead, NoAccess
    <3> QED
      BY <2>1, <3>1 DEF DriverPoll, PollStatus, ReadMsg, RegRead, SROT_CTRLSTS_ADDR,
                        SROT_LLKIC2_SENDRECV_ADDR
  <2>2. CASE DriverIdle(acc) \/ DriverSetup(acc) \/ DriverStrayWrite(acc) \/ DriverSend(acc)
    <3>1. seen
      BY <1>5, <2>2 DEF DriverIdle, DriverSetup, DriverStrayWrite, DriverSend
    <3>2. acc.op # "read"
      <4>1. CASE DriverSetup(acc)
        <5>1. drv_setup + 1 \in DOMAIN Setup
          BY <4>1, DriverAssumption DEF TypeInv, DriverTypes, DriverSetup, SetupDone
        <5> QED
          BY <4>1, <5>1, DriverAssumption DEF DriverSetup
      <4>2. CASE DriverIdle(acc) \/ DriverStrayWrite(acc) \/ DriverSend(acc)
        BY <4>2, DriverAssumption DEF DriverIdle, DriverStrayWrite, DriverSend,
             NoAccess, Request, RegWrite
      <4> QED
        BY <2>2, <4>1, <4>2
    <3>3. acc # ReadMsg
      BY <3>2 DEF ReadMsg, RegRead
    <3> QED
      BY <3>1, <3>3 DEF PollInv, PolledMeansThere
  <2>3. CASE DriverReadMsg(acc)
    BY <1>5, <2>3 DEF DriverReadMsg
  <2> QED
    BY <2>1, <2>2, <2>3 DEF DriverStep
<1>6. PolledMeansThere'
  BY <1>2, <1>5 DEF PolledMeansThere
<1> QED
  BY <1>4, <1>6 DEF PollInv

-----------------------------------------------------------------------------
(* The address of the entry is not moved during a load, and in an           *)
(* operational mode the entry itself does not change.                       *)
LEMMA SameEntry ==
  ASSUME TypeInv, NoLateWrite, Operational, NEW acc, Memories(acc),
         keyindexram_b_addr' = keyindexram_b_addr
  PROVE  /\ Entry' = keyindexram[keyindexram_b_addr]
         /\ (keyindexram[keyindexram_b_addr])' = keyindexram[keyindexram_b_addr]
<1>1. keyindexram' = keyindexram
  BY FrozenStep
<1> QED
  BY <1>1 DEF Memories, Entry

LEMMA LoadStep ==
  ASSUME TypeInv, NoLateWrite, Operational, NEW acc, Memories(acc),
         NEW gnt, NEW err, NEW rsp, Stm(gnt, err, rsp),
         \/ srot_state = "RETRIEVE_KEY_INDEX" /\ Entry = keyindexram[keyindexram_b_addr]
         \/ srot_state \in Loading /\ InsideKey,
         srot_state' \in Loading
  PROVE  InsideKey'
<1> DEFINE entry == keyindexram[keyindexram_b_addr]
           Within(p) == ~BadPointers(entry) /\ p \in entry.low .. entry.high
           Pointed == srot_state' \in {"KL_CHECK_READY_STATUS", "KL_LOAD_KEY_WORD"} =>
                        keyram_b_addr' = current_pointer'
<1> USE DEF FifosIdle, ResetSrotWait, Advance
<1>1. entry \in IndexEntry
  BY DEF TypeInv, StmTypes, MemoryTypes
<1>2. SUFFICES keyindexram_b_addr' = keyindexram_b_addr /\ Within(current_pointer') /\ Pointed
  <2>1. ASSUME keyindexram_b_addr' = keyindexram_b_addr
        PROVE  Entry' = entry /\ entry' = entry
    BY <2>1, SameEntry
  <2>2. ASSUME keyindexram_b_addr' = keyindexram_b_addr, Within(current_pointer'), Pointed
        PROVE  InsideKey'
    <3>1. Entry' = entry /\ entry' = entry
      BY <2>1, <2>2
    <3>2. (~BadPointers(entry))' /\ entry'.low = entry.low /\ entry'.high = entry.high
      BY <2>2, <3>1 DEF BadPointers
    <3> QED
      BY <2>2, <3>1, <3>2 DEF InsideKey
  <2> QED
    BY <2>2
<1>3. CASE SrotRetrieveKeyIndex
  <2>1. srot_state' = "KL_REQ_HEADER" /\ ~BadPointers(Entry) /\ current_pointer' = Entry.low
    BY <1>3 DEF SrotRetrieveKeyIndex, Reject, Loading
  <2>2. Entry = entry
    BY <1>3 DEF SrotRetrieveKeyIndex, Loading
  <2> QED
    BY <1>1, <1>3, <2>1, <2>2 DEF SrotRetrieveKeyIndex, BadPointers, IndexEntry
<1>4. ASSUME srot_state # "RETRIEVE_KEY_INDEX"
      PROVE  Within(current_pointer) /\ srot_state \in Loading
  BY <1>4 DEF InsideKey
<1>5. CASE SrotReqHeader \/ SrotReqIssue(gnt, err) \/ SrotReqWaitForAck(rsp)
             \/ SrotReadyWaitState(err)
  BY <1>4, <1>5 DEF SrotReqHeader, SrotReqIssue, SrotReqWaitForAck, SrotReadyWaitState,
                    WaitThenPoll, BusFailed, Loading
<1>6. CASE SrotReadReadyStatus(gnt, err)
  <2>1. Within(current_pointer)
    BY <1>4, <1>6 DEF SrotReadReadyStatus
  <2>2. current_pointer \in 0 .. SROT_KEYRAM_SIZE - 1
    BY <1>1, <2>1, SrotAssumption DEF BadPointers, IndexEntry
  <2>3. current_pointer % SROT_KEYRAM_SIZE = current_pointer
    BY <2>2, ModSmall, SrotAssumption
  <2> QED
    BY <1>6, <2>1, <2>3 DEF SrotReadReadyStatus, BusFailed, Loading
<1>7. CASE SrotCheckReadyStatus(rsp) \/ SrotLoadKeyWord(gnt)
  BY <1>4, <1>7 DEF SrotCheckReadyStatus, SrotLoadKeyWord, InsideKey
<1>8. CASE SrotLoadKeyWordWaitForAck(rsp)
  <2>1. Within(current_pointer) /\ Entry = entry
    BY <1>4, <1>8 DEF SrotLoadKeyWordWaitForAck, InsideKey
  <2>2. CASE UNCHANGED current_pointer
    BY <1>8, <2>1, <2>2 DEF SrotLoadKeyWordWaitForAck, Loading
  <2>3. CASE current_pointer # entry.high
             /\ current_pointer' = (current_pointer + 1) % PointerSpan
    <3>1. current_pointer + 1 \in entry.low .. entry.high
      BY <1>1, <2>1, <2>3 DEF IndexEntry
    <3>2. (current_pointer + 1) % PointerSpan = current_pointer + 1
      <4>1. entry.high < SROT_KEYRAM_SIZE /\ entry.low \in Nat /\ entry.high \in Nat
        BY <1>1, <2>1, SrotAssumption DEF BadPointers, IndexEntry
      <4>2. current_pointer + 1 \in 0 .. PointerSpan - 1
        BY <3>1, <4>1, SrotAssumption
      <4> QED
        BY <4>2, ModSmall, SrotAssumption
    <3> QED
      BY <1>8, <2>1, <2>3, <3>1, <3>2 DEF SrotLoadKeyWordWaitForAck, Loading
  <2> QED
    BY <1>8, <2>1, <2>2, <2>3 DEF SrotLoadKeyWordWaitForAck
<1>9. ~( \/ SrotIdle \/ SrotMessageCheck \/ SrotReadRespStatus(gnt, err)
         \/ SrotCheckRespStatus(rsp) \/ SrotRespWaitState(err)
         \/ SrotRespRead(err, rsp) \/ SrotC2Response )
  BY DEF SrotIdle, SrotMessageCheck, SrotReadRespStatus, SrotCheckRespStatus,
         SrotRespWaitState, WaitThenPoll, SrotRespRead, SrotC2Response, Loading
<1> QED
  BY <1>3, <1>5, <1>6, <1>7, <1>8, <1>9 DEF Stm
-----------------------------------------------------------------------------
(* Requests and responses.  A FIFO whose write port is registered is one    *)
(* queue, and so is one whose read port is: Responses and Queue.  The order *)
(* of requests is stated about these queues.                                *)

\* Requests answered or taken up by the state machine.
Placed == Len(Responses) + (IF srot_state = "IDLE" THEN 0 ELSE 1)

\* The states in which msg is still the request.
Deciding == SrotStates \ {"IDLE", "C2_RESPONSE"}

\* When the registered ports of the FIFOs and the error bit can be up.
PortsInv ==
  /\ reqfifo_rready => srot_state = "MESSAGE_CHECK" /\ reqfifo # <<>>
  /\ respfifo_w # None => srot_state = "IDLE"
  /\ reqfifo_clr /\ srot_state # "C2_RESPONSE" => reqfifo = <<>>
  /\ write_error => slave_busy

\* The queue q is the end of the list u, behind its first p elements.
InPlace(q, u, p) ==
  p + Len(q) = Len(u) /\ \A i \in 1 .. Len(q) : q[i] = u[p + i]

\* What the processor believes to be unanswered is what the SRoT has.
QueueInv ==
  /\ unanswered \in Seq(C2Message) /\ Len(unanswered) <= Window
  /\ Placed <= Len(unanswered)
  /\ \A i \in 1 .. Len(Responses) : Responses[i].rsvd = unanswered[i].rsvd
  /\ srot_state # "IDLE" => msg.rsvd = Current.rsvd
  /\ srot_state \in Deciding =>
       msg.msg_id = Current.msg_id /\ msg.key_index = Current.key_index
  /\ ~reqfifo_clr => InPlace(Queue, unanswered, Placed)

OrderInv == TypeInv /\ PollInv /\ PortsInv /\ QueueInv

LEMMA FifoQueue ==
  ASSUME NEW T, NEW fifo \in Seq(T), NEW pop \in BOOLEAN, NEW push \in T \cup {None},
         pop => fifo # <<>>, push # None => Len(fifo) < FIFO_DEPTH
  PROVE  FifoStep(fifo, FALSE, push, pop) = (IF pop THEN Tail(fifo) ELSE fifo) \o Slot(push)
<1> DEFINE rest == IF pop THEN Tail(fifo) ELSE fifo
<1>1. rest \in Seq(T)
  OBVIOUS
<1>2. FifoStep(fifo, FALSE, push, pop) = IF push # None THEN Append(rest, push) ELSE rest
  BY DEF FifoStep
<1>3. CASE push # None
  <2>1. Append(rest, push) = rest \o <<push>>
    BY <1>1, <1>3
  <2> QED
    BY <1>2, <1>3, <2>1 DEF Slot
<1>4. CASE push = None
  <2>1. rest \o <<>> = rest
    BY <1>1
  <2> QED
    BY <1>2, <1>4, <2>1 DEF Slot
<1> QED
  BY <1>3, <1>4

LEMMA SlotTyped ==
  ASSUME NEW T, NEW e \in T \cup {None}
  PROVE  Slot(e) \in Seq(T) /\ Len(Slot(e)) = (IF e = None THEN 0 ELSE 1)
BY DEF Slot

LEMMA Joined ==
  ASSUME NEW T, NEW s \in Seq(T), NEW t \in Seq(T)
  PROVE  /\ s \o t \in Seq(T) /\ Len(s \o t) = Len(s) + Len(t)
         /\ \A i \in 1 .. Len(s) : (s \o t)[i] = s[i]
         /\ \A i \in 1 .. Len(t) : (s \o t)[Len(s) + i] = t[i]
OBVIOUS

LEMMA QueuesTyped ==
  ASSUME TypeInv, PortsInv
  PROVE  /\ Responses \in Seq(C2Response) /\ Queue \in Seq(C2Message)
         /\ Len(Responses) = Len(respfifo) + (IF respfifo_w = None THEN 0 ELSE 1)
         /\ Len(Queue) = Len(reqfifo) + (IF reqfifo_w = None THEN 0 ELSE 1)
                                      - (IF reqfifo_rready THEN 1 ELSE 0)
<1>1. /\ respfifo \in Seq(C2Response) /\ reqfifo \in Seq(C2Message)
      /\ respfifo_w \in C2Response \cup {None} /\ reqfifo_w \in C2Message \cup {None}
  BY DEF TypeInv, StmTypes, DecodeTypes, MemoryTypes
<1>2. /\ Slot(respfifo_w) \in Seq(C2Response)
      /\ Len(Slot(respfifo_w)) = (IF respfifo_w = None THEN 0 ELSE 1)
  BY <1>1, SlotTyped
<1>3. /\ Slot(reqfifo_w) \in Seq(C2Message)
      /\ Len(Slot(reqfifo_w)) = (IF reqfifo_w = None THEN 0 ELSE 1)
  BY <1>1, SlotTyped
<1> DEFINE rest == IF reqfifo_rready THEN Tail(reqfifo) ELSE reqfifo
<1>4. rest \in Seq(C2Message) /\ Len(rest) = Len(reqfifo) - (IF reqfifo_rready THEN 1 ELSE 0)
  BY <1>1 DEF PortsInv
<1> HIDE DEF rest
<1>5. Responses \in Seq(C2Response) /\ Len(Responses) = Len(respfifo) + Len(Slot(respfifo_w))
  BY <1>1, <1>2, Joined DEF Responses
<1>6. rest \o Slot(reqfifo_w) \in Seq(C2Message)
      /\ Len(rest \o Slot(reqfifo_w)) = Len(rest) + Len(Slot(reqfifo_w))
  BY <1>3, <1>4, Joined
<1>7. Queue = rest \o Slot(reqfifo_w)
  BY DEF Queue, rest
<1>8. Len(reqfifo) \in Nat
  BY <1>1
<1> QED
  BY <1>2, <1>3, <1>4, <1>5, <1>6, <1>7, <1>8

\* One step of such a queue: what is at its head may leave, e may join it.
MoveOn(s, pop, e) == (IF pop THEN Tail(s) ELSE s) \o Slot(e)

HasMovedOn(T, s, pop, e, r) ==
  LET k == IF pop THEN 1 ELSE 0
  IN  /\ r \in Seq(T)
      /\ Len(r) = Len(s) - k + (IF e = None THEN 0 ELSE 1)
      /\ \A i \in 1 .. Len(s) - k : r[i] = s[i + k]
      /\ e # None => r[Len(r)] = e

LEMMA Moved ==
  ASSUME NEW T, NEW s \in Seq(T), NEW pop \in BOOLEAN, NEW e \in T \cup {None},
         pop => s # <<>>
  PROVE  HasMovedOn(T, s, pop, e, MoveOn(s, pop, e))
<1> DEFINE r == MoveOn(s, pop, e)
<1> DEFINE rest == IF pop THEN Tail(s) ELSE s
           k == IF pop THEN 1 ELSE 0
<1>1. /\ rest \in Seq(T) /\ Len(rest) = Len(s) - k
      /\ \A i \in 1 .. Len(s) - k : rest[i] = s[i + k]
  OBVIOUS
<1>2. Slot(e) \in Seq(T) /\ Len(Slot(e)) = (IF e = None THEN 0 ELSE 1)
  BY SlotTyped
<1>3. e # None => Slot(e)[1] = e
  BY DEF Slot
<1>4. r = rest \o Slot(e)
  BY DEF MoveOn
<1>5. k \in {0, 1} /\ Len(s) \in Nat
  OBVIOUS
<1> HIDE DEF rest, k, r
<1>6. /\ r \in Seq(T) /\ Len(r) = Len(rest) + Len(Slot(e))
      /\ \A i \in 1 .. Len(rest) : r[i] = rest[i]
      /\ \A i \in 1 .. Len(Slot(e)) : r[Len(rest) + i] = Slot(e)[i]
  <2> DEFINE slot == Slot(e)
  <2> HIDE DEF slot
  <2>1. slot \in Seq(T) /\ r = rest \o slot
    BY <1>2, <1>4 DEF slot
  <2> DEFINE all == rest \o slot
  <2>2. /\ all \in Seq(T) /\ Len(all) = Len(rest) + Len(slot)
        /\ \A i \in 1 .. Len(rest) : all[i] = rest[i]
        /\ \A i \in 1 .. Len(slot) : all[Len(rest) + i] = slot[i]
    <3>1. rest \in Seq(T)
      BY <1>1
    <3> QED
      BY <2>1, <3>1, Joined
  <2>3. all = r
    BY <2>1
  <2> HIDE DEF all
  <2>4. /\ r \in Seq(T) /\ Len(r) = Len(rest) + Len(slot)
        /\ \A i \in 1 .. Len(rest) : r[i] = rest[i]
        /\ \A i \in 1 .. Len(slot) : r[Len(rest) + i] = slot[i]
    BY <2>2, <2>3
  <2> QED
    BY <2>4 DEF slot
<1>7. /\ Len(r) = Len(s) - k + (IF e = None THEN 0 ELSE 1)
      /\ \A i \in 1 .. Len(s) - k : r[i] = s[i + k]
      /\ e # None => r[Len(r)] = e
  BY <1>1, <1>2, <1>3, <1>5, <1>6, SMTT(30)
<1> QED
  BY <1>6, <1>7 DEF k, r, HasMovedOn

\* What a step of the state machine does to the ports of the FIFOs.
LEMMA StmPorts ==
  ASSUME TypeInv, NEW gnt \in BOOLEAN, NEW err \in BOOLEAN, NEW rsp, Stm(gnt, err, rsp)
  PROVE  /\ srot_state = "IDLE" =>
              /\ respfifo_w' = None /\ reqfifo_clr' = reqfifo_clr
              /\ IF reqfifo # <<>>
                 THEN /\ srot_state' = "MESSAGE_CHECK" /\ reqfifo_rready' = TRUE
                      /\ msg' = [Head(reqfifo) EXCEPT !.status = 0]
                 ELSE srot_state' = "IDLE" /\ reqfifo_rready' = FALSE
         /\ srot_state = "C2_RESPONSE" =>
              /\ srot_state' = "IDLE" /\ reqfifo_rready' = FALSE
              /\ respfifo_w' = C2Answer /\ reqfifo_clr' = reqfifo_clr
         /\ srot_state \in Deciding =>
              /\ srot_state' # "IDLE" /\ reqfifo_rready' = FALSE /\ respfifo_w' = None
              /\ msg'.rsvd = msg.rsvd
              /\ reqfifo_clr => reqfifo_clr'
              /\ srot_state' # "C2_RESPONSE" => msg' = msg /\ reqfifo_clr' = reqfifo_clr
<1> USE DEF FifosIdle, Advance, Reject, BusFailed
<1>1. msg \in C2Message
  BY DEF TypeInv, StmTypes
<1>2. CASE SrotIdle \/ SrotC2Response
  BY <1>2 DEF SrotIdle, SrotC2Response, Deciding
<1> DEFINE Works == srot_state \notin {"IDLE", "C2_RESPONSE"}
           Kept == /\ srot_state' # "IDLE" /\ FifosIdle
                   /\ \/ UNCHANGED <<msg, reqfifo_clr>>
                      \/ /\ srot_state' = "C2_RESPONSE" /\ msg'.rsvd = msg.rsvd
                         /\ reqfifo_clr => reqfifo_clr'
<1>3. FifosIdle /\ ((\E st : Reject(st)) \/ BusFailed) => Kept
  <2>1. ASSUME NEW st, Reject(st) PROVE srot_state' = "C2_RESPONSE" /\ msg'.rsvd = msg.rsvd
                                        /\ reqfifo_clr'
    BY <1>1, <2>1 DEF C2Message
  <2>0. (\E st : Reject(st)) => srot_state' = "C2_RESPONSE" /\ msg'.rsvd = msg.rsvd /\ reqfifo_clr'
    <3> HIDE DEF Reject
    <3> QED
      BY <2>1
  <2>2. ASSUME BusFailed PROVE srot_state' = "C2_RESPONSE" /\ msg'.rsvd = msg.rsvd
                               /\ reqfifo_clr' = reqfifo_clr
    BY <1>1, <2>2 DEF C2Message
  <2> HIDE DEF Reject, BusFailed
  <2> QED
    BY <2>0, <2>2
<1>4. CASE SrotMessageCheck \/ SrotRetrieveKeyIndex
  <2>1. FifosIdle /\ Works /\ ((\E st : Reject(st)) \/ Kept)
    BY <1>4 DEF SrotMessageCheck, SrotRetrieveKeyIndex
  <2> QED
    BY <1>3, <2>1
<1>5. CASE SrotReqHeader \/ SrotReqIssue(gnt, err) \/ SrotReqWaitForAck(rsp)
             \/ SrotReadReadyStatus(gnt, err) \/ SrotCheckReadyStatus(rsp)
  <2>1. FifosIdle /\ Works /\ (BusFailed \/ Kept)
    BY <1>5 DEF SrotReqHeader, SrotReqIssue, SrotReqWaitForAck, SrotReadReadyStatus,
                SrotCheckReadyStatus
  <2> QED
    BY <1>3, <2>1
<1>6. CASE SrotReadyWaitState(err) \/ SrotRespWaitState(err)
  <2>1. FifosIdle /\ Works /\ (BusFailed \/ Kept)
    BY <1>6 DEF SrotReadyWaitState, SrotRespWaitState, WaitThenPoll
  <2> QED
    BY <1>3, <2>1
<1>7. CASE SrotLoadKeyWord(gnt) \/ SrotLoadKeyWordWaitForAck(rsp)
             \/ SrotReadRespStatus(gnt, err) \/ SrotCheckRespStatus(rsp)
  <2>1. FifosIdle /\ Works /\ (BusFailed \/ Kept)
    BY <1>7 DEF SrotLoadKeyWord, SrotLoadKeyWordWaitForAck, SrotReadRespStatus,
                SrotCheckRespStatus
  <2> QED
    BY <1>3, <2>1
<1>8. CASE SrotRespRead(err, rsp)
  <2>1. FifosIdle /\ Works
    BY <1>8 DEF SrotRespRead
  <2>2. CASE UNCHANGED reqfifo_clr /\ srot_state' = "C2_RESPONSE" /\ ~BusFailed
    BY <1>1, <1>8, <2>1, <2>2 DEF SrotRespRead, C2Message
  <2>3. CASE BusFailed
    BY <1>3, <2>1, <2>3
  <2>4. CASE UNCHANGED <<msg, reqfifo_clr>> /\ srot_state' = "KL_RESP_READ"
    BY <1>8, <2>1, <2>4
  <2> QED
    BY <1>8, <2>1, <2>2, <2>3, <2>4 DEF SrotRespRead
<1> QED
  BY <1>2, <1>4, <1>5, <1>6, <1>7, <1>8 DEF Stm

\* What the processor does to its list of unanswered requests.  The write of
\* a request is never answered with an error: the error bit is that of the
\* access before, and the adapter's turnaround lies between.
LEMMA DriverEffect ==
  ASSUME TypeInv, PortsInv, PollInv, NEW acc \in DriverAccesses, DriverStep(acc)
  PROVE  /\ TakesResponse(acc) <=> acc = ReadMsg
         /\ \/ acc = ReadMsg /\ ~IsRequestWrite(acc) /\ unanswered' = Tail(unanswered)
            \/ /\ acc # ReadMsg /\ IsRequestWrite(acc) /\ acc.data \in C2Message
               /\ Len(unanswered) < Window
               /\ unanswered' = Append(unanswered, acc.data)
            \/ acc # ReadMsg /\ ~IsRequestWrite(acc) /\ unanswered' = unanswered
<1>1. IsRequestWrite(acc) => acc.data \in C2Message
  BY DriverAccess DEF AccessTyped
<1>2. ~IsRequestWrite(ReadMsg) /\ ReadMsg.op = "read" /\ ReadMsg # NoAccess
      /\ ReadMsg # PollStatus
  BY DEF IsRequestWrite, ReadMsg, PollStatus, RegRead, NoAccess, SROT_CTRLSTS_ADDR,
         SROT_LLKIC2_SENDRECV_ADDR
<1>3. CASE DriverIdle(acc)
  BY <1>2, <1>3 DEF DriverIdle, NoAccess, IsRequestWrite, TakesResponse
<1>4. CASE DriverSetup(acc)
  <2>0. drv_setup \in 0 .. Len(Setup) /\ drv_setup # Len(Setup)
    BY <1>4 DEF TypeInv, DriverTypes, DriverSetup, SetupDone
  <2>1. drv_setup + 1 \in DOMAIN Setup
    <3> DEFINE n == Len(Setup)
    <3>1. n \in Nat /\ DOMAIN Setup = 1 .. n
      BY DriverAssumption
    <3>2. drv_setup \in 0 .. n /\ drv_setup # n
      BY <2>0
    <3> HIDE DEF n
    <3> QED
      BY <3>1, <3>2
  <2> QED
    BY <1>2, <1>4, <2>1, DriverAssumption DEF DriverSetup, IsRequestWrite, TakesResponse
<1>5. CASE DriverStrayWrite(acc)
  BY <1>2, <1>5, DriverAssumption DEF DriverStrayWrite, IsRequestWrite, TakesResponse
<1>6. CASE DriverSend(acc)
  <2>1. PICK r \in Requests : acc = Request(r, drv_tag)
    BY <1>6 DEF DriverSend
  <2>2. IsRequestWrite(acc) /\ acc.op # "read" /\ acc # NoAccess
    BY <2>1 DEF Request, RegWrite, IsRequestWrite, NoAccess
  <2>3. ~AccessError(acc)
    BY <2>2 DEF AccessError, ReadError, PortsInv, DriverStep
  <2> QED
    BY <1>1, <1>2, <1>6, <2>2, <2>3 DEF DriverSend, TakesResponse
<1>7. CASE DriverPoll(acc)
  BY <1>2, <1>7 DEF DriverPoll, PollStatus, RegRead, IsRequestWrite, TakesResponse,
       SROT_CTRLSTS_ADDR, SROT_LLKIC2_SENDRECV_ADDR
<1>8. CASE DriverReadMsg(acc)
  BY <1>2, <1>8 DEF DriverReadMsg, TakesResponse, PollInv, PolledMeansThere, ReadMsg, RegRead
<1> QED
  BY <1>3, <1>4, <1>5, <1>6, <1>7, <1>8 DEF DriverStep

LEMMA PortsStep ==
  ASSUME TypeInv, PollInv, PortsInv, NEW acc \in DriverAccesses, DriverStep(acc), Ports(acc),
         NEW gnt \in BOOLEAN, NEW err \in BOOLEAN, NEW rsp, Stm(gnt, err, rsp)
  PROVE  PortsInv'
<1>1. reqfifo_rready' => srot_state' = "MESSAGE_CHECK" /\ srot_state = "IDLE" /\ reqfifo # <<>>
  BY StmPorts DEF TypeInv, StmTypes, Deciding
<1>2. reqfifo_rready' => reqfifo' # <<>>
  <2> SUFFICES ASSUME srot_state = "IDLE", reqfifo # <<>> PROVE reqfifo' # <<>>
    BY <1>1
  <2>1. reqfifo_rready = FALSE /\ reqfifo_clr = FALSE
    BY DEF PortsInv, TypeInv, StmTypes
  <2> QED
    BY <2>1, FifoTyped DEF TypeInv, DecodeTypes, MemoryTypes, Ports, Memories
<1>3. respfifo_w' # None => srot_state' = "IDLE"
  BY StmPorts DEF TypeInv, StmTypes, Deciding
<1>4. reqfifo_clr' /\ srot_state' # "C2_RESPONSE" => reqfifo' = <<>>
  <2>1. reqfifo_clr' /\ srot_state' # "C2_RESPONSE" => reqfifo_clr
    BY StmPorts DEF TypeInv, StmTypes, Deciding
  <2> QED
    BY <2>1 DEF Ports, Memories, FifoStep
<1>5. write_error' => slave_busy'
  <2>1. write_error' => acc.op = "write"
    BY DEF Ports, WriteDecode, DecodeSendRecv, IsRequestWrite
  <2>2. NoAccess.op # "write"
    BY DEF NoAccess
  <2> QED
    BY <2>1, <2>2 DEF DriverStep
<1> QED
  BY <1>1, <1>2, <1>3, <1>4, <1>5 DEF PortsInv

\* With no more requests unanswered than fit into a FIFO neither FIFO ever
\* refuses what its port offers, so each works as one queue.
LEMMA ResponsesStep ==
  ASSUME TypeInv, PollInv, PortsInv, QueueInv, Window <= FIFO_DEPTH,
         NEW acc \in DriverAccesses, DriverStep(acc), Ports(acc)
  PROVE  Responses' = MoveOn(Responses, acc = ReadMsg, respfifo_w')
<1>1. /\ respfifo \in Seq(C2Response) /\ respfifo_w \in C2Response \cup {None}
      /\ Slot(respfifo_w) \in Seq(C2Response)
  BY SlotTyped DEF TypeInv, StmTypes, MemoryTypes
<1>2. TakesResponse(acc) <=> acc = ReadMsg
  BY DriverEffect
<1>3. TakesResponse(acc) => respfifo # <<>>
  BY DEF TakesResponse
<1>4. respfifo_w # None => Len(respfifo) < FIFO_DEPTH
  <2>1. Len(Responses) = Len(respfifo) + (IF respfifo_w = None THEN 0 ELSE 1)
    BY QueuesTyped
  <2>2. Len(Responses) <= Len(unanswered) /\ Len(unanswered) <= Window /\ Len(Responses) \in Nat
    BY QueuesTyped DEF QueueInv, Placed
  <2>3. Len(respfifo) \in Nat /\ Len(unanswered) \in Nat /\ Window \in Nat /\ FIFO_DEPTH \in Nat
    BY <1>1, DriverAssumption, SrotAssumption DEF QueueInv
  <2> QED
    BY <2>1, <2>2, <2>3
<1>5. TakesResponse(acc) \in BOOLEAN
  BY DEF TakesResponse
<1>6. respfifo' = (IF TakesResponse(acc) THEN Tail(respfifo) ELSE respfifo) \o Slot(respfifo_w)
  BY <1>1, <1>3, <1>4, <1>5, FifoQueue DEF Ports, Memories
<1>7. TakesResponse(acc) => Tail(respfifo) \o Slot(respfifo_w) = Tail(Responses)
  <2> DEFINE slot == Slot(respfifo_w)
  <2> HIDE DEF slot
  <2>1. ASSUME respfifo # <<>> PROVE Tail(respfifo) \o slot = Tail(respfifo \o slot)
    BY <1>1, <2>1 DEF slot
  <2> QED
    BY <1>3, <2>1 DEF slot, Responses
<1>8. respfifo' = IF acc = ReadMsg THEN Tail(Responses) ELSE Responses
  BY <1>2, <1>6, <1>7 DEF Responses
<1> QED
  BY <1>8 DEF Responses, MoveOn

LEMMA QueueStep ==
  ASSUME TypeInv, PortsInv, QueueInv, Window <= FIFO_DEPTH, ~reqfifo_clr,
         NEW acc, Ports(acc)
  PROVE  /\ reqfifo' = Queue
         /\ Queue' = MoveOn(Queue, reqfifo_rready', reqfifo_w')
         /\ IsRequestWrite(acc) /\ Len(unanswered) < Window => reqfifo_w' = acc.data
         /\ ~IsRequestWrite(acc) => reqfifo_w' = None
<1>1. /\ reqfifo \in Seq(C2Message) /\ reqfifo_w \in C2Message \cup {None}
      /\ reqfifo_rready \in BOOLEAN /\ reqfifo_clr = FALSE
  BY DEF TypeInv, StmTypes, DecodeTypes, MemoryTypes
<1>2. reqfifo_rready => reqfifo # <<>>
  BY DEF PortsInv
<1>3. /\ Placed + Len(Queue) = Len(unanswered) /\ Len(unanswered) <= FIFO_DEPTH
      /\ Len(unanswered) < Window => Len(unanswered) < FIFO_DEPTH
      /\ Len(unanswered) \in Nat /\ Len(reqfifo) \in Nat
  BY <1>1, DriverAssumption, SrotAssumption DEF QueueInv, InPlace
<1>4. Len(Queue) = Len(reqfifo) + (IF reqfifo_w = None THEN 0 ELSE 1)
                     - (IF reqfifo_rready THEN 1 ELSE 0)
  BY QueuesTyped
<1>5. Placed \in Nat /\ (reqfifo_rready => Placed >= 1)
  <2>1. Len(Responses) \in Nat
    BY QueuesTyped
  <2> QED
    BY <2>1 DEF Placed, PortsInv
<1>6. /\ reqfifo_w # None => Len(reqfifo) < FIFO_DEPTH
      /\ Len(unanswered) < Window => Len(reqfifo) < FIFO_DEPTH
  BY <1>3, <1>4, <1>5, SrotAssumption
<1>7. reqfifo' = Queue
  BY <1>1, <1>2, <1>6, FifoQueue DEF Ports, Memories, Queue
<1>8. Queue' = MoveOn(Queue, reqfifo_rready', reqfifo_w')
  BY <1>7 DEF Queue, MoveOn
<1>9. IsRequestWrite(acc) /\ Len(unanswered) < Window => reqfifo_w' = acc.data
  BY <1>6, <1>1, SrotAssumption DEF Ports, WriteDecode, DecodeSendRecv, ReqFifoFull
<1>10. ~IsRequestWrite(acc) => reqfifo_w' = None
  BY DEF Ports, WriteDecode, DecodeSendRecv
<1> QED
  BY <1>7, <1>8, <1>9, <1>10

\* The three facts about two such queues in step that the order rests on.
LEMMA KeepsPlace ==
  ASSUME NEW T, NEW u \in Seq(T), NEW pop \in BOOLEAN, NEW e, NEW u2,
         HasMovedOn(T, u, pop, e, u2),
         NEW i \in 1 .. Len(u), ~pop \/ i # 1
  PROVE  u2[i - (IF pop THEN 1 ELSE 0)] = u[i]
<1>1. Len(u) \in Nat
  OBVIOUS
<1>2. CASE pop
  <2>1. \A j \in 1 .. Len(u) - 1 : u2[j] = u[j + 1]
    BY <1>2 DEF HasMovedOn
  <2>2. i - 1 \in 1 .. Len(u) - 1 /\ (i - 1) + 1 = i
    BY <1>1, <1>2
  <2> QED
    BY <1>2, <2>1, <2>2
<1>3. CASE ~pop
  <2>1. \A j \in 1 .. Len(u) - 0 : u2[j] = u[j + 0]
    BY <1>3 DEF HasMovedOn
  <2>2. i - 0 = i /\ i + 0 = i /\ Len(u) - 0 = Len(u)
    BY <1>1
  <2> QED
    BY <1>3, <2>1, <2>2
<1> QED
  BY <1>2, <1>3

LEMMA KeepsTags ==
  ASSUME NEW T, NEW S, NEW u \in Seq(T), NEW r \in Seq(S), NEW pop \in BOOLEAN,
         NEW e, NEW a, NEW u2, NEW r2,
         HasMovedOn(T, u, pop, e, u2), HasMovedOn(S, r, pop, a, r2),
         Len(r) <= Len(u), pop => Len(r) >= 1,
         a # None => Len(r) < Len(u) /\ a.rsvd = u[Len(r) + 1].rsvd,
         \A i \in 1 .. Len(r) : r[i].rsvd = u[i].rsvd
  PROVE  \A i \in 1 .. Len(r2) : r2[i].rsvd = u2[i].rsvd
<1> DEFINE k == IF pop THEN 1 ELSE 0
<1>1. Len(u) \in Nat /\ Len(r) \in Nat /\ k \in {0, 1} /\ (pop <=> k = 1)
  OBVIOUS
<1>2. /\ Len(r2) = Len(r) - k + (IF a = None THEN 0 ELSE 1)
      /\ \A i \in 1 .. Len(r) - k : r2[i] = r[i + k]
      /\ a # None => r2[Len(r2)] = a
  BY DEF HasMovedOn
<1>3. \A i \in 1 .. Len(u) : ~pop \/ i # 1 => u2[i - k] = u[i]
  BY KeepsPlace
<1> HIDE DEF k
<1> TAKE i \in 1 .. Len(r2)
<1>4. CASE i <= Len(r) - k
  <2>1. i + k \in 1 .. Len(r) /\ i + k \in 1 .. Len(u) /\ (~pop \/ i + k # 1)
        /\ (i + k) - k = i
    BY <1>1, <1>2, <1>4
  <2>2. r2[i] = r[i + k] /\ u2[i] = u[i + k]
    BY <1>2, <1>3, <1>4, <2>1
  <2> QED
    BY <2>1, <2>2
<1>5. CASE i > Len(r) - k
  <2>1. a # None /\ i = Len(r2) /\ i = Len(r) + 1 - k
    BY <1>1, <1>2, <1>5
  <2>2. Len(r) + 1 \in 1 .. Len(u) /\ (~pop \/ Len(r) + 1 # 1) /\ (Len(r) + 1) - k = i
    BY <1>1, <2>1
  <2>3. u2[i] = u[Len(r) + 1]
    BY <1>3, <2>2
  <2> QED
    BY <1>2, <2>1, <2>3
<1> QED
  BY <1>1, <1>2, <1>4, <1>5

LEMMA KeepsQueue ==
  ASSUME NEW T, NEW u \in Seq(T), NEW q \in Seq(T), NEW pop \in BOOLEAN, NEW take \in BOOLEAN,
         NEW e, NEW u2, NEW q2,
         HasMovedOn(T, u, pop, e, u2), HasMovedOn(T, q, take, e, q2),
         NEW p \in Nat, NEW p2, p2 = p - (IF pop THEN 1 ELSE 0) + (IF take THEN 1 ELSE 0),
         pop => p >= 1, take => Len(q) >= 1,
         InPlace(q, u, p)
  PROVE  InPlace(q2, u2, p2)
<1> DEFINE k == IF pop THEN 1 ELSE 0
           t == IF take THEN 1 ELSE 0
           n == IF e = None THEN 0 ELSE 1
<1>1. /\ Len(u) \in Nat /\ Len(q) \in Nat /\ k \in {0, 1} /\ (pop <=> k = 1)
      /\ t \in {0, 1} /\ (take <=> t = 1) /\ n \in {0, 1} /\ (e # None <=> n = 1)
  OBVIOUS
<1>2. /\ Len(q2) = Len(q) - t + n /\ Len(u2) = Len(u) - k + n
      /\ \A i \in 1 .. Len(q) - t : q2[i] = q[i + t]
      /\ e # None => q2[Len(q2)] = e /\ u2[Len(u2)] = e
  BY DEF HasMovedOn
<1>3. \A i \in 1 .. Len(u) : ~pop \/ i # 1 => u2[i - k] = u[i]
  BY KeepsPlace
<1>4. p2 = p - k + t
  OBVIOUS
<1>0. p + Len(q) = Len(u) /\ \A i \in 1 .. Len(q) : q[i] = u[p + i]
  BY DEF InPlace
<1> HIDE DEF k, t, n
<1>5. p2 + Len(q2) = Len(u2)
  <2> DEFINE lu == Len(u)
             lq == Len(q)
  <2>1. lu \in Nat /\ lq \in Nat /\ k \in Int /\ t \in Int /\ n \in Int
    BY <1>1
  <2>2. /\ p + lq = lu /\ p2 = p - k + t
        /\ Len(q2) = lq - t + n /\ Len(u2) = lu - k + n
    BY <1>0, <1>2, <1>4
  <2> HIDE DEF lu, lq
  <2> QED
    BY <2>1, <2>2
<1>6. ASSUME NEW i \in 1 .. Len(q2) PROVE q2[i] = u2[p2 + i]
  <2>1. CASE i <= Len(q) - t
    <3>1. i + t \in 1 .. Len(q) /\ p + (i + t) \in 1 .. Len(u) /\ (~pop \/ p + (i + t) # 1)
          /\ (p + (i + t)) - k = p2 + i
      BY <1>0, <1>1, <1>2, <1>4, <2>1
    <3>2. q2[i] = q[i + t] /\ q[i + t] = u[p + (i + t)]
      BY <1>0, <1>2, <2>1, <3>1
    <3>3. u2[p2 + i] = u[p + (i + t)]
      BY <1>3, <3>1
    <3> QED
      BY <3>2, <3>3
  <2>2. CASE i > Len(q) - t
    <3>1. e # None /\ i = Len(q2)
      BY <1>1, <1>2, <2>2
    <3> QED
      BY <1>2, <1>5, <3>1
  <2> QED
    BY <1>1, <1>2, <2>1, <2>2
<1> QED
  BY <1>5, <1>6 DEF InPlace

\* Requests and responses move on together: at most one enters, at most one
\* leaves, and the state machine moves at most one from the one queue to the other.
LEMMA QueueInvStep ==
  ASSUME OrderInv, Window <= FIFO_DEPTH,
         NEW acc \in DriverAccesses, DriverStep(acc), Ports(acc),
         NEW gnt \in BOOLEAN, NEW err \in BOOLEAN, NEW rsp, AnswerTyped(rsp),
         Stm(gnt, err, rsp)
  PROVE  /\ OrderInv'
         /\ srot_state # "IDLE" /\ srot_state' # "IDLE" => Current' = Current
<1> USE DEF OrderInv
<1>1. TypeInv' /\ PollInv' /\ PortsInv'
  BY TypeStep, PollStep, PortsStep
<1> DEFINE read == acc = ReadMsg
           sent == IF IsRequestWrite(acc) THEN acc.data ELSE None
<1>2. /\ Responses \in Seq(C2Response) /\ Queue \in Seq(C2Message)
      /\ unanswered \in Seq(C2Message)
      /\ Len(Responses) \in Nat /\ Len(Queue) \in Nat /\ Len(unanswered) \in Nat
  BY QueuesTyped DEF QueueInv
<1>3. sent \in C2Message \cup {None} /\ (sent # None <=> IsRequestWrite(acc))
  <2>1. IsRequestWrite(acc) => acc.data \in C2Message
    BY DriverEffect
  <2>2. None \notin C2Message
    BY DEF None, C2Message
  <2> QED
    BY <2>1, <2>2
<1>4. read => Responses # <<>> /\ unanswered # <<>>
  <2>1. read => respfifo # <<>>
    BY DriverEffect DEF TakesResponse
  <2>2. Len(Responses) = Len(respfifo) + (IF respfifo_w = None THEN 0 ELSE 1)
        /\ Len(respfifo) \in Nat /\ Len(Responses) \in Nat
    BY QueuesTyped DEF TypeInv, MemoryTypes
  <2>3. read => Len(Responses) > 0
    BY <2>1, <2>2 DEF TypeInv, MemoryTypes
  <2>4. Len(Responses) <= Len(unanswered)
    BY <1>2 DEF QueueInv, Placed
  <2> QED
    BY <1>2, <2>2, <2>3, <2>4
<1>5. unanswered' = MoveOn(unanswered, read, sent)
  <2>1. CASE read
    <3>1. sent = None /\ unanswered' = Tail(unanswered)
      BY <2>1, <1>3, DriverEffect
    <3>2. Tail(unanswered) \o <<>> = Tail(unanswered)
      BY <1>2, <1>4, <2>1
    <3> QED
      BY <2>1, <3>1, <3>2 DEF Slot, MoveOn
  <2>2. CASE ~read /\ IsRequestWrite(acc)
    <3>1. unanswered' = Append(unanswered, acc.data) /\ sent = acc.data /\ sent # None
      BY <2>2, <1>3, DriverEffect
    <3>2. Append(unanswered, sent) = unanswered \o <<sent>>
      BY <1>2, <1>3, <3>1
    <3> QED
      BY <2>2, <3>1, <3>2 DEF Slot, MoveOn
  <2>3. CASE ~read /\ ~IsRequestWrite(acc)
    <3>1. sent = None /\ unanswered' = unanswered
      BY <2>3, <1>3, DriverEffect
    <3>2. unanswered \o <<>> = unanswered
      BY <1>2
    <3> QED
      BY <2>3, <3>1, <3>2 DEF Slot, MoveOn
  <2> QED
    BY <2>1, <2>2, <2>3
<1>6. read \in BOOLEAN
  OBVIOUS
<1>7. HasMovedOn(C2Message, unanswered, read, sent, unanswered')
  <2> HIDE DEF read, sent
  <2> QED
    BY <1>2, <1>3, <1>4, <1>5, <1>6, Moved
<1>8. HasMovedOn(C2Response, Responses, read, respfifo_w', Responses')
  <2>1. respfifo_w' \in C2Response \cup {None}
    BY <1>1 DEF TypeInv, StmTypes
  <2>2. Responses' = MoveOn(Responses, read, respfifo_w')
    BY ResponsesStep
  <2> HIDE DEF read
  <2> QED
    BY <1>2, <1>4, <1>6, <2>1, <2>2, Moved
<1>9. ~reqfifo_clr =>
        /\ HasMovedOn(C2Message, Queue, reqfifo_rready', sent, Queue')
        /\ reqfifo_rready' => Head(reqfifo) = Queue[1] /\ reqfifo # <<>> /\ Queue # <<>>
  <2> SUFFICES ASSUME ~reqfifo_clr
               PROVE  /\ HasMovedOn(C2Message, Queue, reqfifo_rready', sent, Queue')
                      /\ reqfifo_rready' => Head(reqfifo) = Queue[1] /\ reqfifo # <<>> /\ Queue # <<>>
    OBVIOUS
  <2>1. reqfifo_w' = sent
    BY QueueStep, DriverEffect
  <2>2. Queue' = MoveOn(Queue, reqfifo_rready', sent)
    BY <2>1, QueueStep
  <2>3. reqfifo_rready' \in BOOLEAN
    BY <1>1 DEF TypeInv, StmTypes
  <2>4. reqfifo_rready' => srot_state = "IDLE" /\ reqfifo # <<>>
    BY StmPorts DEF TypeInv, StmTypes, Deciding
  <2>5. reqfifo_rready' => Queue # <<>> /\ Queue[1] = Head(reqfifo)
    <3>1. reqfifo \in Seq(C2Message) /\ reqfifo_w \in C2Message \cup {None}
          /\ reqfifo_rready \in BOOLEAN /\ Slot(reqfifo_w) \in Seq(C2Message)
      BY SlotTyped DEF TypeInv, StmTypes, DecodeTypes, MemoryTypes
    <3>2. reqfifo_rready' => Queue = reqfifo \o Slot(reqfifo_w)
      BY <2>4, <3>1 DEF Queue, PortsInv
    <3> DEFINE slot == Slot(reqfifo_w)
    <3>3. slot \in Seq(C2Message)
      BY <3>1
    <3> HIDE DEF slot
    <3>4. reqfifo # <<>> => (reqfifo \o slot) # <<>> /\ (reqfifo \o slot)[1] = Head(reqfifo)
      BY <3>1, <3>3
    <3> QED
      BY <2>4, <3>2, <3>4 DEF slot
  <2> HIDE DEF sent
  <2> QED
    BY <1>2, <1>3, <2>2, <2>3, <2>4, <2>5, Moved
<1>10. /\ srot_state = "IDLE" => reqfifo_rready' = (srot_state' # "IDLE")
       /\ srot_state # "IDLE" => reqfifo_rready' = FALSE
       /\ srot_state # "C2_RESPONSE" => respfifo_w' = None
  BY StmPorts DEF TypeInv, StmTypes, Deciding
<1>11. ~reqfifo_clr' => ~reqfifo_clr
  BY StmPorts DEF TypeInv, StmTypes, Deciding
<1>12. Placed \in Nat /\ Placed >= Len(Responses) /\ (read => Placed >= 1)
  BY <1>2, <1>4 DEF Placed
<1>13. Placed' = Placed - (IF read THEN 1 ELSE 0) + (IF reqfifo_rready' THEN 1 ELSE 0)
  <2>1. Len(Responses') = Len(Responses) - (IF read THEN 1 ELSE 0)
                           + (IF respfifo_w' = None THEN 0 ELSE 1)
    BY <1>8 DEF HasMovedOn
  <2>2. srot_state = "C2_RESPONSE" => respfifo_w' # None /\ srot_state' = "IDLE"
    <3>1. \A id, st : C2Word(id, st) # None
      BY DEF C2Word, None
    <3>2. \E id, st : C2Answer = C2Word(id, st)
      BY DEF C2Answer
    <3> QED
      BY <3>1, <3>2, StmPorts
  <2>3. srot_state \notin {"IDLE", "C2_RESPONSE"} => srot_state' # "IDLE"
    BY StmPorts DEF TypeInv, StmTypes, Deciding
  <2> DEFINE k == IF read THEN 1 ELSE 0
             r == Len(Responses)
  <2>4. k \in Nat /\ r \in Nat
    BY <1>2
  <2>5. Len(Responses') = r - k + (IF respfifo_w' = None THEN 0 ELSE 1)
    BY <2>1
  <2>6. /\ Placed = r + (IF srot_state = "IDLE" THEN 0 ELSE 1)
        /\ Placed' = Len(Responses') + (IF srot_state' = "IDLE" THEN 0 ELSE 1)
    BY DEF Placed
  <2> HIDE DEF k, r
  <2>7. Placed' = Placed - k + (IF reqfifo_rready' THEN 1 ELSE 0)
    <3>1. CASE srot_state = "IDLE"
      <4>1. respfifo_w' = None /\ (reqfifo_rready' <=> srot_state' # "IDLE")
        BY <1>10, <3>1
      <4> QED
        BY <2>4, <2>5, <2>6, <3>1, <4>1
    <3>2. CASE srot_state = "C2_RESPONSE"
      BY <1>10, <2>2, <2>4, <2>5, <2>6, <3>2
    <3>3. CASE srot_state \notin {"IDLE", "C2_RESPONSE"}
      BY <1>10, <2>3, <2>4, <2>5, <2>6, <3>3
    <3> QED
      BY <3>1, <3>2, <3>3
  <2> QED
    BY <2>7 DEF k
<1>14. Len(unanswered') <= Window
  <2>1. sent # None => Len(unanswered) < Window
    BY <1>3, DriverEffect
  <2>2. Len(unanswered') = Len(unanswered) - (IF read THEN 1 ELSE 0)
                            + (IF sent = None THEN 0 ELSE 1)
    BY <1>7 DEF HasMovedOn
  <2>3. Len(unanswered) <= Window /\ Window \in Nat /\ Len(unanswered) \in Nat
    BY <1>2, DriverAssumption DEF QueueInv
  <2> HIDE DEF read, sent
  <2> QED
    BY <2>1, <2>2, <2>3
<1>15. \A i \in 1 .. Len(Responses') : Responses'[i].rsvd = unanswered'[i].rsvd
  <2>1. Len(Responses) <= Len(unanswered)
    BY <1>2, <1>12 DEF QueueInv
  <2>2. read => Len(Responses) >= 1
    BY <1>2, <1>4
  <2>3. respfifo_w' # None =>
          /\ Len(Responses) < Len(unanswered)
          /\ respfifo_w'.rsvd = unanswered[Len(Responses) + 1].rsvd
    <3>1. respfifo_w' # None => srot_state = "C2_RESPONSE" /\ respfifo_w' = C2Answer
      BY <1>10, StmPorts
    <3>2. C2Answer.rsvd = msg.rsvd
      BY DEF C2Answer, C2Word
    <3>3. srot_state = "C2_RESPONSE" => Placed = Len(Responses) + 1
      BY DEF Placed
    <3> QED
      BY <1>2, <3>1, <3>2, <3>3 DEF QueueInv, Current
  <2>4. \A i \in 1 .. Len(Responses) : Responses[i].rsvd = unanswered[i].rsvd
    BY DEF QueueInv
  <2> HIDE DEF read, sent
  <2> QED
    BY <1>2, <1>6, <1>7, <1>8, <2>1, <2>2, <2>3, <2>4, KeepsTags
<1>16. ~reqfifo_clr => InPlace(Queue', unanswered', Placed')
  <2>1. reqfifo_rready' \in BOOLEAN
    BY <1>1 DEF TypeInv, StmTypes
  <2>2. ~reqfifo_clr /\ reqfifo_rready' => Len(Queue) >= 1
    <3>1. Queue # <<>> => Len(Queue) >= 1
      BY <1>2
    <3> QED
      BY <1>9, <3>1
  <2>3. ~reqfifo_clr => InPlace(Queue, unanswered, Placed)
    BY DEF QueueInv
  <2> HIDE DEF read, sent
  <2> QED
    BY <1>2, <1>6, <1>7, <1>9, <1>12, <1>13, <2>1, <2>2, <2>3, KeepsQueue
<1>17. reqfifo_rready' => /\ ~reqfifo_clr /\ srot_state = "IDLE" /\ Queue # <<>>
                          /\ msg' = [Queue[1] EXCEPT !.status = 0]
  <2>1. reqfifo_rready' => srot_state = "IDLE" /\ reqfifo # <<>>
    BY StmPorts DEF TypeInv, StmTypes, Deciding
  <2>2. reqfifo_rready' => ~reqfifo_clr
    BY <2>1 DEF PortsInv
  <2>3. reqfifo_rready' => msg' = [Head(reqfifo) EXCEPT !.status = 0]
    BY <2>1, StmPorts
  <2> QED
    BY <1>9, <2>1, <2>2, <2>3
<1>18. Placed' <= Len(unanswered')
  <2>1. CASE reqfifo_rready'
    <3>1. HasMovedOn(C2Message, Queue, reqfifo_rready', sent, Queue')
          /\ InPlace(Queue', unanswered', Placed')
      BY <1>9, <1>11, <1>16, <1>17, <2>1
    <3>2. Len(Queue') \in Nat /\ Len(unanswered') \in Nat
      BY <1>7, <3>1 DEF HasMovedOn
    <3>3. Placed' \in Int
      BY <1>12, <1>13
    <3>4. Placed' + Len(Queue') = Len(unanswered')
      BY <3>1 DEF InPlace
    <3> QED
      BY <3>2, <3>3, <3>4
  <2>2. CASE ~reqfifo_rready'
    <3>1. Placed <= Len(unanswered)
      BY DEF QueueInv
    <3>2. Len(unanswered') = Len(unanswered) - (IF read THEN 1 ELSE 0)
                              + (IF sent = None THEN 0 ELSE 1)
      BY <1>7 DEF HasMovedOn
    <3> HIDE DEF read, sent
    <3> QED
      BY <1>2, <1>12, <1>13, <2>2, <3>1, <3>2
  <2> QED
    BY <2>1, <2>2
<1>19. srot_state' # "IDLE" =>
         Current' = unanswered[Len(Responses) + 1] /\ Len(Responses) < Len(unanswered)
  <2> SUFFICES ASSUME srot_state' # "IDLE"
               PROVE  Current' = unanswered[Len(Responses) + 1]
                      /\ Len(Responses) < Len(unanswered)
    OBVIOUS
  <2>1. respfifo_w' = None
    BY <1>10, StmPorts
  <2>2. Len(Responses') = Len(Responses) - (IF read THEN 1 ELSE 0)
    BY <1>2, <1>8, <2>1 DEF HasMovedOn
  <2>3. Len(Responses) < Len(unanswered)
    <3>1. CASE srot_state = "IDLE"
      <4>1. Queue # <<>> /\ ~reqfifo_clr /\ Placed = Len(Responses)
        <5>1. reqfifo_rready'
          BY <1>10, <3>1
        <5> QED
          BY <1>17, <3>1, <5>1 DEF Placed
      <4>2. Placed + Len(Queue) = Len(unanswered)
        BY <4>1 DEF QueueInv, InPlace
      <4>3. Len(Queue) >= 1
        BY <1>2, <4>1
      <4> QED
        BY <1>2, <4>1, <4>2, <4>3
    <3>2. CASE srot_state # "IDLE"
      BY <1>2, <3>2 DEF QueueInv, Placed
    <3> QED
      BY <3>1, <3>2
  <2>4. unanswered'[(Len(Responses) + 1) - (IF read THEN 1 ELSE 0)] = unanswered[Len(Responses) + 1]
    <3>1. Len(Responses) + 1 \in 1 .. Len(unanswered)
      BY <1>2, <2>3
    <3>2. ~read \/ Len(Responses) + 1 # 1
      BY <1>2, <1>4
    <3> HIDE DEF read, sent
    <3> QED
      BY <1>2, <1>6, <1>7, <3>1, <3>2, KeepsPlace
  <2>5. (Len(Responses) + 1) - (IF read THEN 1 ELSE 0) = Len(Responses') + 1
    BY <1>2, <2>2
  <2> QED
    BY <2>3, <2>4, <2>5 DEF Current
<1>20. srot_state' # "IDLE" =>
         /\ msg'.rsvd = Current'.rsvd
         /\ srot_state' \in Deciding => /\ msg'.msg_id = Current'.msg_id
                                        /\ msg'.key_index = Current'.key_index
  <2> SUFFICES ASSUME srot_state' # "IDLE"
               PROVE  /\ msg'.rsvd = Current'.rsvd
                      /\ srot_state' \in Deciding => /\ msg'.msg_id = Current'.msg_id
                                                     /\ msg'.key_index = Current'.key_index
    OBVIOUS
  <2>1. CASE srot_state = "IDLE"
    <3>1. reqfifo_rready'
      BY <1>10, <2>1
    <3>2. /\ msg' = [Queue[1] EXCEPT !.status = 0]
          /\ Queue # <<>> /\ ~reqfifo_clr /\ Placed = Len(Responses)
      BY <1>17, <2>1, <3>1 DEF Placed
    <3>3. Queue[1] \in C2Message /\ 1 \in 1 .. Len(Queue)
      BY <1>2, <3>2
    <3>4. Queue[1] = unanswered[Len(Responses) + 1]
      BY <3>2, <3>3 DEF QueueInv, InPlace
    <3>5. Current' = Queue[1]
      BY <1>19, <3>4
    <3> QED
      BY <3>2, <3>3, <3>5 DEF C2Message
  <2>2. CASE srot_state # "IDLE"
    <3>1. srot_state \in Deciding
      BY <2>2, StmPorts DEF TypeInv, StmTypes, Deciding
    <3>2. Current' = Current
      BY <1>19 DEF Current
    <3>3. msg'.rsvd = msg.rsvd /\ (srot_state' # "C2_RESPONSE" => msg' = msg)
      BY <3>1, StmPorts
    <3> QED
      BY <2>2, <3>1, <3>2, <3>3 DEF QueueInv, Deciding
  <2> QED
    BY <2>1, <2>2
<1>21. QueueInv'
  <2>1. unanswered' \in Seq(C2Message)
    BY <1>7 DEF HasMovedOn
  <2> HIDE DEF read, sent
  <2> QED
    BY <1>11, <1>14, <1>15, <1>16, <1>18, <1>20, <2>1 DEF QueueInv, Deciding
<1> QED
  BY <1>1, <1>19, <1>21 DEF Current

LEMMA OrderInit == Reset => OrderInv
<1> SUFFICES ASSUME Reset PROVE OrderInv
  OBVIOUS
<1>1. PollInv
  BY DEF Reset, SrotInit, DriverInit, PollInv, BitOutlivesRead, PolledMeansThere
<1>2. PortsInv
  BY DEF Reset, SrotInit, DriverInit, PortsInv
<1>3. Responses = <<>> /\ Queue = <<>>
  BY DEF Reset, SrotInit, Responses, Queue, Slot
<1>4. QueueInv
  BY <1>3, DriverAssumption DEF Reset, SrotInit, DriverInit, QueueInv, Placed, InPlace, Deciding
<1> QED
  BY <1>1, <1>2, <1>4, TypeInit DEF OrderInv

LEMMA OrderStutter ==
  ASSUME OrderInv, UNCHANGED <<srotVars, driverVars>>
  PROVE  OrderInv'
<1>1. TypeInv'
  BY TypeStutter DEF OrderInv
<1>2. PollInv' /\ PortsInv'
  BY DEF srotVars, stmVars, decodeVars, memVars, driverVars, OrderInv, PollInv, PortsInv,
         BitOutlivesRead, PolledMeansThere
<1>3. /\ Responses' = Responses /\ Queue' = Queue /\ Placed' = Placed /\ Current' = Current
  BY DEF srotVars, stmVars, decodeVars, memVars, driverVars, Responses, Queue, Placed, Current
<1>4. QueueInv'
  BY <1>3 DEF srotVars, stmVars, decodeVars, memVars, driverVars, OrderInv, QueueInv
<1> QED
  BY <1>1, <1>2, <1>4 DEF OrderInv

\* Where the queue s is the beginning of the list u, in length and in tags.
Begins(s, u) == Len(s) <= Len(u) /\ \A i \in 1 .. Len(s) : s[i].rsvd = u[i].rsvd

LEMMA TagsPrefix ==
  ASSUME NEW T, NEW S, NEW s \in Seq(S), NEW u \in Seq(T), Begins(s, u),
         \A x \in S \cup T : x.rsvd \in Nat
  PROVE  /\ Len(TagsOf(s)) = Len(s) /\ Len(TagsOf(u)) = Len(u)
         /\ TagsOf(s) = SubSeq(TagsOf(u), 1, Len(s))
<1> DEFINE ts == TagsOf(s)
           tu == TagsOf(u)
           sub == SubSeq(tu, 1, Len(s))
<1>1. /\ Len(s) \in Nat /\ DOMAIN s = 1 .. Len(s)
      /\ Len(u) \in Nat /\ DOMAIN u = 1 .. Len(u)
  OBVIOUS
<1>2. \A i \in 1 .. Len(s) : s[i].rsvd \in Nat
  OBVIOUS
<1>3. \A i \in 1 .. Len(u) : u[i].rsvd \in Nat
  OBVIOUS
<1>4. ts \in Seq(Nat) /\ Len(ts) = Len(s) /\ \A i \in 1 .. Len(s) : ts[i] = s[i].rsvd
  BY <1>1, <1>2 DEF TagsOf
<1>5. tu \in Seq(Nat) /\ Len(tu) = Len(u) /\ \A i \in 1 .. Len(u) : tu[i] = u[i].rsvd
  BY <1>1, <1>3 DEF TagsOf
<1> HIDE DEF ts, tu
<1>6. /\ sub \in Seq(Nat) /\ Len(sub) = Len(s)
      /\ \A i \in 1 .. Len(s) : sub[i] = tu[i]
  <2>1. 1 \in Int /\ Len(s) \in Int /\ \A i \in 1 .. Len(s) : tu[i] \in Nat
    BY <1>1, <1>3, <1>5 DEF Begins
  <2>2. /\ sub \in Seq(Nat) /\ Len(sub) = IF 1 <= Len(s) THEN Len(s) - 1 + 1 ELSE 0
        /\ \A i \in 1 .. Len(s) - 1 + 1 : sub[i] = tu[1 + i - 1]
    BY <2>1, SubSeqProperties
  <2> HIDE DEF sub
  <2> QED
    BY <1>1, <2>2
<1>7. \A i \in 1 .. Len(s) : ts[i] = sub[i]
  BY <1>1, <1>4, <1>5, <1>6 DEF Begins
<1> HIDE DEF sub
<1>8. ts = sub
  BY <1>4, <1>6, <1>7, SeqEqual
<1> QED
  BY <1>4, <1>5, <1>8 DEF ts, tu, sub

LEMMA BeginsJoined ==
  ASSUME NEW T, NEW S, NEW s \in Seq(S), NEW t \in Seq(S), NEW u \in Seq(T),
         Begins(s, u), Len(s) + Len(t) <= Len(u),
         \A i \in 1 .. Len(t) : t[i].rsvd = u[Len(s) + i].rsvd
  PROVE  Begins(s \o t, u)
<1>1. /\ Len(s \o t) = Len(s) + Len(t) /\ Len(s) \in Nat /\ Len(t) \in Nat
      /\ \A i \in 1 .. Len(s) : (s \o t)[i] = s[i]
      /\ \A i \in 1 .. Len(t) : (s \o t)[Len(s) + i] = t[i]
  BY Joined
<1>2. ASSUME NEW i \in 1 .. Len(s) + Len(t)
      PROVE  (s \o t)[i].rsvd = u[i].rsvd
  <2>1. CASE i <= Len(s)
    BY <1>1, <2>1 DEF Begins
  <2>2. CASE i > Len(s)
    <3>1. i - Len(s) \in 1 .. Len(t) /\ Len(s) + (i - Len(s)) = i
      BY <1>1, <2>2
    <3> QED
      BY <1>1, <3>1
  <2> QED
    BY <1>1, <2>1, <2>2
<1> QED
  BY <1>1, <1>2 DEF Begins

\* The order of the three parts of InFlight is that of the list they are parts of.
LEMMA OrderKept == OrderInv => RequestsConserved
<1> SUFFICES ASSUME OrderInv PROVE RequestsConserved
  OBVIOUS
<1> DEFINE Tagged == C2Response \cup C2Message
           busy == IF srot_state = "IDLE" THEN <<>> ELSE <<msg>>
           queue == IF reqfifo_clr THEN <<>> ELSE Queue
<1>1. /\ Responses \in Seq(Tagged) /\ busy \in Seq(Tagged) /\ queue \in Seq(Tagged)
      /\ unanswered \in Seq(C2Message)
  <2>1. Responses \in Seq(C2Response) /\ Queue \in Seq(C2Message)
    BY QueuesTyped DEF OrderInv
  <2>2. msg \in C2Message
    BY DEF OrderInv, TypeInv, StmTypes
  <2>3. Responses \in Seq(Tagged) /\ Queue \in Seq(Tagged)
    BY <2>1
  <2>4. busy \in Seq(Tagged)
    <3>1. msg \in Tagged
      BY <2>2
    <3> HIDE DEF Tagged
    <3>2. <<msg>> \in Seq(Tagged) /\ <<>> \in Seq(Tagged)
      BY <3>1
    <3> QED
      BY <3>2
  <2>5. unanswered \in Seq(C2Message)
    BY DEF OrderInv, QueueInv
  <2>6. queue \in Seq(Tagged)
    BY <2>3
  <2> QED
    BY <2>3, <2>4, <2>5, <2>6
<1>2. \A x \in Tagged \cup C2Message : x.rsvd \in Nat
  BY DEF C2Response, C2Message
<1>3. Len(busy) = (IF srot_state = "IDLE" THEN 0 ELSE 1) /\ (Len(busy) = 1 => busy[1] = msg)
  OBVIOUS
<1>4. Placed = Len(Responses) + Len(busy) /\ Placed <= Len(unanswered)
  BY <1>3 DEF Placed, OrderInv, QueueInv
<1> HIDE DEF Tagged, busy, queue
<1>5. Len(Responses) \in Nat /\ Len(busy) \in Nat /\ Len(queue) \in Nat /\ Len(unanswered) \in Nat
  BY <1>1
<1>6. Begins(Responses, unanswered)
  BY <1>4, <1>5 DEF Begins, OrderInv, QueueInv
<1> DEFINE placed == Responses \o busy
<1>7. placed \in Seq(Tagged) /\ Len(placed) = Placed
  BY <1>1, <1>4, Joined
<1>8. Begins(placed, unanswered)
  <2>1. \A i \in 1 .. Len(busy) : busy[i].rsvd = unanswered[Len(Responses) + i].rsvd
    BY <1>3 DEF OrderInv, QueueInv, Current
  <2> QED
    BY <1>1, <1>4, <1>6, <2>1, BeginsJoined
<1> HIDE DEF placed
<1>9. Begins(placed \o queue, unanswered) /\ placed \o queue \in Seq(Tagged)
      /\ Len(placed \o queue) = Placed + Len(queue)
  <2>1. /\ Placed + Len(queue) <= Len(unanswered)
        /\ \A i \in 1 .. Len(queue) : queue[i].rsvd = unanswered[Placed + i].rsvd
    <3>1. CASE reqfifo_clr
      <4>1. Len(queue) = 0
        BY <3>1 DEF queue
      <4> QED
        BY <1>4, <1>5, <4>1
    <3>2. CASE ~reqfifo_clr
      <4>1. queue = Queue
        BY <3>2 DEF queue
      <4> QED
        BY <1>5, <3>2, <4>1 DEF OrderInv, QueueInv, InPlace
    <3> QED
      BY <3>1, <3>2
  <2> QED
    BY <1>1, <1>7, <1>8, <2>1, BeginsJoined, Joined
<1>10. InFlight = placed \o queue
  BY DEF InFlight, placed, busy, queue
<1>11. ~reqfifo_clr => Len(InFlight) = Len(unanswered)
  BY <1>9, <1>10 DEF queue, OrderInv, QueueInv, InPlace
<1>12. Begins(InFlight, unanswered) /\ InFlight \in Seq(Tagged)
  BY <1>9, <1>10
<1>13. /\ Len(TagsOf(InFlight)) = Len(InFlight)
       /\ Len(TagsOf(unanswered)) = Len(unanswered)
       /\ TagsOf(InFlight) = SubSeq(TagsOf(unanswered), 1, Len(InFlight))
  BY <1>1, <1>2, <1>12, TagsPrefix
<1> QED
  BY <1>11, <1>12, <1>13 DEF RequestsConserved, Begins
=============================================================================
