----------------------------- MODULE Llki_proofs ------------------------------
(***************************************************************************)
(* Proofs about Llki, for every size of the memories, every driver and any *)
(* latency of the fabric: each bus transaction is under way exactly once,  *)
(* and the state machines of the SRoT and the LLKI-PP stay in step.        *)
(*                                                                         *)
(* They suppose an adapter that grants whenever no request is waiting      *)
(* (StableGrant), which the SRoT relies on, and what the software has to   *)
(* keep to (Disciplined).  Each of these hypotheses is violated in a run   *)
(* of its own: an adapter that withdraws its grant, a key longer than the  *)
(* length byte counts, a second key behind a clocked RAM.                  *)
(***************************************************************************)
EXTENDS Llki, Driver_proofs, PpTss_proofs

CtrlWord == [resp_waiting : BOOLEAN, ready_for_key : BOOLEAN]

\* The places of the one bus transaction: put up by the SRoT, carried by the
\* fabric, answered by the LLKI-PP.
Raised(a)  == host = a /\ fab_req = <<>> /\ fab_rsp = None
Carried(a) == host = NoAccess /\ fab_req = <<a>> /\ fab_rsp = None
Asked(a)   == Raised(a) \/ Carried(a)
Answered   == host = NoAccess /\ fab_req = <<>> /\ fab_rsp # None
BusQuiet   == host = NoAccess /\ fab_req = <<>> /\ fab_rsp = None

\* Where the transaction is, and what it is, in every state of the SRoT.
BusInv ==
  /\ srot_state \in {"KL_REQ_ISSUE", "KL_LOAD_KEY_WORD"} =>
       \E w \in Word : Raised(Write(w))
  /\ srot_state \in {"KL_REQ_WAIT_FOR_ACK", "KL_LOAD_KEY_WORD_WAIT_FOR_ACK"} =>
       \/ \E w \in Word : Carried(Write(w))
       \/ Answered
  /\ srot_state \in {"KL_CHECK_READY_STATUS", "KL_CHECK_RESP_STATUS"} =>
       \/ Asked(ReadCtrlSts)
       \/ Answered /\ fab_rsp \in CtrlWord
  /\ srot_state = "KL_RESP_READ" =>
       \/ Asked(ReadSendRecv)
       \/ Answered /\ fab_rsp \in Word
  /\ srot_state \notin AwaitsBus => BusQuiet

\* The Key RAM and what is on its way into it and out of it are words.
KeyTypes ==
  /\ keyram \in [KeySlots -> Word]
  /\ keyram_q \in Word
  /\ ram_w # None /\ ram_w.ram = "key" => ram_w.data \in Word

\* While a response that was read is still up, the fabric holds that response.
TakenIsHeld == ResponseTaken => fab_rsp # None

PartsInv == TypeInv /\ KeyTypes /\ PairInv /\ BusInv /\ TakenIsHeld
-----------------------------------------------------------------------------
LEMMA Accesses ==
  /\ \A w : /\ Write(w) # NoAccess /\ IsWrite(Write(w)) /\ Write(w).data = w
            /\ RegisterValue(Write(w)) = WriteAck
  /\ ReadCtrlSts # NoAccess /\ ~IsWrite(ReadCtrlSts) /\ ~IsRead(ReadCtrlSts)
  /\ RegisterValue(ReadCtrlSts) = pp_ctrlstatus
  /\ ReadSendRecv # NoAccess /\ ~IsWrite(ReadSendRecv) /\ IsRead(ReadSendRecv)
  /\ RegisterValue(ReadSendRecv) = pp_response_word
  /\ ~IsWrite(NoAccess) /\ ~IsRead(NoAccess)
BY DEF Write, ReadCtrlSts, ReadSendRecv, NoAccess, IsWrite, IsRead, RegisterValue

\* None is not a response.
LEMMA NotNone ==
  /\ WriteAck # None
  /\ \A r \in CtrlWord : r # None
  /\ \A r \in Word : r # None
BY DEF WriteAck, None, CtrlWord, Word

LEMMA OneElement ==
  ASSUME NEW a
  PROVE  /\ <<>> \o <<a>> = <<a>> /\ <<a>> \o <<>> = <<a>>
         /\ Head(<<a>>) = a /\ Tail(<<a>>) = <<>>
OBVIOUS

(* With a stable grant a request that is put up is accepted in that cycle,  *)
(* and the one transaction moves on or stays where it is.                   *)
LEMMA FabricStep ==
  ASSUME NEW gnt, gnt = (fab_req = <<>>), NEW deliver \in BOOLEAN, NEW respond \in BOOLEAN,
         Fabric(gnt, deliver, respond)
  PROVE  /\ \A a : a # NoAccess /\ Asked(a) =>
              /\ Returned(respond) = None
              /\ \/ /\ Delivered(gnt, deliver) = NoAccess
                    /\ fab_req' = <<a>> /\ fab_rsp' = None
                 \/ /\ Delivered(gnt, deliver) = a
                    /\ fab_req' = <<>> /\ fab_rsp' = RegisterValue(a)
         /\ Answered =>
              /\ Delivered(gnt, deliver) = NoAccess /\ fab_req' = <<>>
              /\ \/ Returned(respond) = None /\ fab_rsp' = fab_rsp
                 \/ Returned(respond) = fab_rsp /\ fab_rsp' = None
         /\ BusQuiet =>
              /\ Delivered(gnt, deliver) = NoAccess /\ Returned(respond) = None
              /\ fab_req' = <<>> /\ fab_rsp' = None
<1>1. ASSUME NEW a, a # NoAccess, Asked(a)
      PROVE  /\ Returned(respond) = None
             /\ \/ /\ Delivered(gnt, deliver) = NoAccess
                   /\ fab_req' = <<a>> /\ fab_rsp' = None
                \/ /\ Delivered(gnt, deliver) = a
                   /\ fab_req' = <<>> /\ fab_rsp' = RegisterValue(a)
  <2>1. Pending(gnt) = <<a>>
    <3>1. CASE Raised(a)
      BY <1>1, <3>1, OneElement DEF Raised, Pending
    <3>2. CASE Carried(a)
      BY <3>2, OneElement DEF Carried, Pending
    <3> QED
      BY <1>1, <3>1, <3>2 DEF Asked
  <2>2. fab_rsp = None /\ ~respond
    BY <1>1 DEF Asked, Raised, Carried, Fabric
  <2>3. Head(<<a>>) = a /\ Tail(<<a>>) = <<>>
    BY OneElement
  <2>4. CASE deliver
    BY <2>1, <2>2, <2>3, <2>4 DEF Fabric, Delivered, Returned
  <2>5. CASE ~deliver
    BY <2>1, <2>2, <2>5 DEF Fabric, Delivered, Returned
  <2> QED
    BY <2>4, <2>5
<1>2. ASSUME Answered \/ BusQuiet
      PROVE  Pending(gnt) = <<>>
  BY <1>2 DEF Answered, BusQuiet, Pending
<1>3. ASSUME Answered
      PROVE  /\ Delivered(gnt, deliver) = NoAccess /\ fab_req' = <<>>
             /\ \/ Returned(respond) = None /\ fab_rsp' = fab_rsp
                \/ Returned(respond) = fab_rsp /\ fab_rsp' = None
  BY <1>2, <1>3 DEF Answered, Fabric, Delivered, Returned
<1>4. ASSUME BusQuiet
      PROVE  /\ Delivered(gnt, deliver) = NoAccess /\ Returned(respond) = None
             /\ fab_req' = <<>> /\ fab_rsp' = None
  BY <1>2, <1>4 DEF BusQuiet, Fabric, Delivered, Returned
<1> QED
  BY <1>1, <1>3, <1>4

(* What the SRoT writes to the LLKI-PP is a word.                           *)
LEMMA WordsWritten ==
  ASSUME TypeInv, KeyTypes
  PROVE  KlHeader \in Word /\ KeyWord \in Word
<1>1. ASSUME NEW id \in Byte, NEW len \in Byte PROVE Header(id, len) \in Word
  BY DEF Header, Word, Byte
<1>2. ((Entry.high - Entry.low) + 2) % 256 \in Byte
  <2>1. (Entry.high - Entry.low) + 2 \in Int
    BY EntryTyped DEF IndexEntry
  <2>2. ((Entry.high - Entry.low) + 2) % 256 \in 0 .. 255
    BY <2>1
  <2> QED
    BY <2>2 DEF Byte
<1>3. 1 \in Byte /\ LLKI_MID_KLLOADKEYREQ \in Byte /\ LLKI_MID_KLCLEARKEYREQ \in Byte
        /\ LLKI_MID_KLKEYSTATUSREQ \in Byte
  BY DEF Byte, LLKI_MID_KLLOADKEYREQ, LLKI_MID_KLCLEARKEYREQ, LLKI_MID_KLKEYSTATUSREQ
<1>4. KlHeader \in Word
  BY <1>1, <1>2, <1>3 DEF KlHeader
<1>5. KeyWord \in Word
  BY DEF KeyWord, KeyTypes, TypeInv, StmTypes
<1> QED
  BY <1>4, <1>5

LEMMA KeyTypesStep ==
  ASSUME TypeInv, KeyTypes, NEW acc \in DriverAccesses, Ports(acc)
  PROVE  KeyTypes'
<1>1. acc.op = "write" => acc \in StrayWrites \cup { Setup[i] : i \in DOMAIN Setup }
                       \/ acc.addr = SROT_LLKIC2_SENDRECV_ADDR
  BY DEF DriverAccesses, NoAccess, PollStatus, ReadMsg, RegRead, Request, RegWrite
<1>2. ~InKeyRam(SROT_LLKIC2_SENDRECV_ADDR)
  BY SrotAssumption DEF InKeyRam, SROT_LLKIC2_SENDRECV_ADDR
<1>3. acc.op = "write" /\ InKeyRam(acc.addr) => acc.data \in Word
  BY <1>1, <1>2, LlkiAssumption DEF KeyWordIfForKeyRam
<1>4. ram_w' # None /\ ram_w'.ram = "key" => ram_w'.data \in Word
  BY <1>3 DEF Ports, WriteDecode, DecodeRamWrite
<1>5. keyram' \in [KeySlots -> Word]
  BY DEF Ports, Memories, RamStep, KeyTypes
<1>6. keyram_q' \in Word
  BY DEF Ports, Memories, KeyTypes, TypeInv, StmTypes
<1> QED
  BY <1>4, <1>5, <1>6 DEF KeyTypes

(* The transaction is where the SRoT takes it to be.                        *)
LEMMA BusStep ==
  ASSUME TypeInv, KeyTypes, PairTypes, BusInv,
         NEW gnt, gnt = (fab_req = <<>>), NEW deliver \in BOOLEAN, NEW respond \in BOOLEAN,
         Fabric(gnt, deliver, respond), Stm(gnt, FALSE, Returned(respond))
  PROVE  BusInv'
<1> DEFINE rsp == Returned(respond)
<1> USE FabricStep, Accesses, NotNone DEF FifosIdle, ResetSrotWait, Advance, AwaitsBus
<1>1. PairTypes => pp_ctrlstatus \in CtrlWord /\ pp_response_word \in Word
  BY DEF PairTypes, CtrlWord
<1>2. CASE SrotIdle \/ SrotMessageCheck \/ SrotRetrieveKeyIndex \/ SrotC2Response
  BY <1>2 DEF SrotIdle, SrotMessageCheck, SrotRetrieveKeyIndex, SrotC2Response, Reject,
              BusInv, BusQuiet
<1>3. CASE SrotReqHeader
  BY <1>3, WordsWritten DEF SrotReqHeader, BusInv, BusQuiet, Raised
<1>4. CASE SrotReqIssue(gnt, FALSE)
  <2>1. PICK w \in Word : Raised(Write(w))
    BY <1>4 DEF SrotReqIssue, BusInv
  <2>2. gnt /\ Asked(Write(w))
    BY <2>1 DEF Raised, Asked
  <2>3. host' = NoAccess /\ srot_state' = "KL_REQ_WAIT_FOR_ACK"
    BY <1>4, <2>2 DEF SrotReqIssue
  <2> QED
    BY <2>2, <2>3 DEF BusInv, Carried, Answered
<1>5. CASE SrotReqWaitForAck(rsp)
  BY <1>5 DEF SrotReqWaitForAck, BusInv, Asked, Carried, Answered, BusQuiet
<1>6. CASE SrotReadReadyStatus(gnt, FALSE) \/ SrotReadRespStatus(gnt, FALSE)
  BY <1>6 DEF SrotReadReadyStatus, SrotReadRespStatus, BusInv, BusQuiet, Asked, Raised
<1>7. CASE SrotCheckReadyStatus(rsp)
  BY <1>1, <1>7, WordsWritten DEF SrotCheckReadyStatus, BusInv, Asked, Raised, Carried,
                                   Answered, BusQuiet
<1>8. CASE SrotReadyWaitState(FALSE) \/ SrotRespWaitState(FALSE)
  BY <1>8 DEF SrotReadyWaitState, SrotRespWaitState, WaitThenPoll, BusInv, BusQuiet
<1>9. CASE SrotLoadKeyWord(gnt)
  <2>1. PICK w \in Word : Raised(Write(w))
    BY <1>9 DEF SrotLoadKeyWord, BusInv
  <2>2. gnt /\ Asked(Write(w))
    BY <2>1 DEF Raised, Asked
  <2>3. host' = NoAccess /\ srot_state' = "KL_LOAD_KEY_WORD_WAIT_FOR_ACK"
    BY <1>9, <2>2 DEF SrotLoadKeyWord
  <2> QED
    BY <2>2, <2>3 DEF BusInv, Carried, Answered
<1>10. CASE SrotLoadKeyWordWaitForAck(rsp)
  BY <1>10 DEF SrotLoadKeyWordWaitForAck, BusInv, Asked, Carried, Answered, BusQuiet
<1>11. CASE SrotCheckRespStatus(rsp)
  BY <1>1, <1>11 DEF SrotCheckRespStatus, BusInv, Asked, Raised, Carried, Answered, BusQuiet
<1>12. CASE SrotRespRead(FALSE, rsp)
  BY <1>1, <1>12 DEF SrotRespRead, BusInv, Asked, Raised, Carried, Answered, BusQuiet
<1> QED
  BY <1>2, <1>3, <1>4, <1>5, <1>6, <1>7, <1>8, <1>9, <1>10, <1>11, <1>12 DEF Stm

(* What the LLKI-PP and the SRoT get over the fabric is what they expect.   *)
LEMMA Exchanged ==
  ASSUME PairTypes, BusInv,
         NEW gnt, gnt = (fab_req = <<>>), NEW deliver \in BOOLEAN, NEW respond \in BOOLEAN,
         Fabric(gnt, deliver, respond)
  PROVE  /\ IsWrite(Delivered(gnt, deliver)) => Delivered(gnt, deliver).data \in Word
         /\ fab_rsp # None => Delivered(gnt, deliver) = NoAccess
         /\ Delivered(gnt, deliver) # NoAccess => fab_rsp' # None
         /\ AnswerTyped(Returned(respond))
<1> USE FabricStep, Accesses, NotNone
<1>1. pp_ctrlstatus \in CtrlWord /\ pp_response_word \in Word
  BY DEF PairTypes, CtrlWord
<1>2. CASE srot_state \in {"KL_REQ_ISSUE", "KL_LOAD_KEY_WORD"}
  BY <1>2 DEF BusInv, Asked, Raised, AnswerTyped
<1>3. CASE srot_state \in {"KL_REQ_WAIT_FOR_ACK", "KL_LOAD_KEY_WORD_WAIT_FOR_ACK"}
  BY <1>3 DEF BusInv, Asked, Carried, Answered, AnswerTyped
<1>4. CASE srot_state \in {"KL_CHECK_READY_STATUS", "KL_CHECK_RESP_STATUS"}
  BY <1>1, <1>4 DEF BusInv, Asked, Raised, Carried, Answered, AnswerTyped
<1>5. CASE srot_state = "KL_RESP_READ"
  <2>1. Asked(ReadSendRecv) \/ (Answered /\ fab_rsp \in Word)
    BY <1>5 DEF BusInv
  <2>2. CASE Asked(ReadSendRecv)
    BY <1>1, <2>2 DEF Asked, Raised, Carried, AnswerTyped
  <2>3. CASE Answered /\ fab_rsp \in Word
    BY <2>3 DEF Answered, AnswerTyped, Word
  <2> QED
    BY <2>1, <2>2, <2>3
<1>6. CASE srot_state \notin AwaitsBus
  BY <1>6 DEF BusInv, BusQuiet, AnswerTyped, AwaitsBus
<1> QED
  BY <1>2, <1>3, <1>4, <1>5, <1>6 DEF AwaitsBus
-----------------------------------------------------------------------------
LEMMA PartsInit == Init => PartsInv
<1> SUFFICES ASSUME Init PROVE PartsInv
  OBVIOUS
<1>1. TypeInv
  BY TypeInit DEF Init, Reset
<1>2. KeyTypes
  BY ZeroWordType, SrotAssumption DEF Init, SrotInit, KeyTypes, KeySlots
<1>3. PairInv /\ TakenIsHeld
  BY PairInit DEF Init, TakenIsHeld
<1>4. BusInv
  BY DEF Init, SrotInit, BusInv, BusQuiet, AwaitsBus
<1> QED
  BY <1>1, <1>2, <1>3, <1>4 DEF PartsInv

\* A grant the adapter may give, when it is stable.
LEMMA StableGrants == StableGrant => \A gnt \in Grants : gnt = (fab_req = <<>>) /\ gnt \in BOOLEAN
  BY DEF Grants

LEMMA PartsStep ==
  ASSUME PartsInv, NEW acc \in DriverAccesses,
         NEW gnt \in BOOLEAN, gnt = (fab_req = <<>>),
         NEW deliver \in BOOLEAN, NEW respond \in BOOLEAN,
         Cycle(acc, gnt, deliver, respond)
  PROVE  PartsInv'
<1> USE DEF PartsInv
<1>1. /\ Fabric(gnt, deliver, respond) /\ DriverStep(acc) /\ Ports(acc)
      /\ Stm(gnt, FALSE, Returned(respond)) /\ PairEdge(Delivered(gnt, deliver))
  BY DEF Cycle
<1>2. PairTypes
  BY DEF PairInv
<1>3. TypeInv'
  BY <1>1, <1>2, Exchanged, TypeStep, ZenonT(60)
<1>4. KeyTypes'
  BY <1>1, KeyTypesStep
<1>5. BusInv'
  BY <1>1, <1>2, BusStep
<1>6. PairInv' /\ TakenIsHeld'
  BY <1>1, <1>2, Exchanged, PairStep DEF TakenIsHeld
<1> QED
  BY <1>3, <1>4, <1>5, <1>6

LEMMA PartsStutter == PartsInv /\ UNCHANGED vars => PartsInv'
<1> SUFFICES ASSUME PartsInv, UNCHANGED vars PROVE PartsInv'
  OBVIOUS
<1>1. TypeInv'
  BY TypeStutter DEF PartsInv, vars
<1>2. PairInv' /\ (ResponseTaken' <=> ResponseTaken)
  BY PairStutter DEF PartsInv, vars
<1>3. KeyTypes' /\ BusInv' /\ TakenIsHeld'
  BY <1>2 DEF PartsInv, vars, srotVars, stmVars, decodeVars, memVars, fabricVars, KeyTypes,
              BusInv, TakenIsHeld, Raised, Carried, Asked, Answered, BusQuiet
<1> QED
  BY <1>1, <1>2, <1>3 DEF PartsInv

LEMMA PartsInvariant == ASSUME StableGrant PROVE Spec => []PartsInv
<1>1. PartsInv /\ [Next]_vars => PartsInv'
  BY StableGrants, PartsStep, PartsStutter DEF Next
<1> QED
  BY <1>1, PartsInit, PTL DEF Spec

(* The SRoT waits for a bus transaction exactly when there is one, whatever *)
(* the latency of the fabric and whatever the processor does.               *)
THEOREM TransactionsTracked == ASSUME StableGrant PROVE Spec => []OneTransaction
<1>1. PartsInv => OneTransaction
  <2> SUFFICES ASSUME PartsInv PROVE OneTransaction
    OBVIOUS
  <2>1. BusInv /\ Len(Slot(fab_rsp)) = (IF fab_rsp = None THEN 0 ELSE 1)
    BY DEF PartsInv, Slot
  <2>2. CASE srot_state \notin AwaitsBus
    BY <2>1, <2>2 DEF BusInv, BusQuiet, OneTransaction
  <2>3. CASE srot_state \in AwaitsBus
    <3>1. \/ \E a : a # NoAccess /\ (Raised(a) \/ Carried(a))
          \/ Answered
      BY <2>1, <2>3, Accesses DEF BusInv, AwaitsBus, Asked, Raised, Carried
    <3>2. CASE Answered
      BY <2>1, <2>3, <3>2 DEF Answered, OneTransaction
    <3>3. ASSUME NEW a, a # NoAccess, Raised(a) \/ Carried(a)
          PROVE  OneTransaction
      <4>1. fab_rsp = None /\ Len(Slot(fab_rsp)) = 0
        BY <2>1, <3>3 DEF Raised, Carried
      <4>2. CASE Raised(a)
        BY <2>3, <3>3, <4>1, <4>2 DEF Raised, OneTransaction
      <4>3. CASE Carried(a)
        BY <2>3, <4>1, <4>3 DEF Carried, OneTransaction
      <4> QED
        BY <3>3, <4>2, <4>3
    <3> QED
      BY <3>1, <3>2, <3>3
  <2> QED
    BY <2>2, <2>3
<1> QED
  BY <1>1, PartsInvariant, PTL
-----------------------------------------------------------------------------
ShortEntry(e) == e.high - e.low <= 253

\* The length byte of a load request can count the words of every key.
ShortKeys ==
  \A w \in StrayWrites \cup { Setup[i] : i \in DOMAIN Setup } :
    InKeyIndexRam(w.addr) => ShortEntry(w.data)

\* Before the first request the software leaves the mode in which it can
\* change the RAMs.
SetsMode(w) == w.addr = SROT_CTRLSTS_ADDR /\ w.data # {}
ModeIsSet == \E i \in DOMAIN Setup : SetsMode(Setup[i])

\* The SRoT looks at the Key Index RAM a cycle before a clocked RAM has fetched
\* the slot asked for: what it sees is slot 0.
Follows(m) == RegisteredRam /\ m.msg_id = LLKI_MID_C2LOADKEYREQ => m.key_index = 0
FirstKeyOnly == \A r \in Requests : Follows(r)

Disciplined == StableGrant /\ ShortKeys /\ ModeIsSet /\ FirstKeyOnly
-----------------------------------------------------------------------------
IsLoad == msg.msg_id = LLKI_MID_C2LOADKEYREQ

\* Words of the key behind the one the load has reached.
Left == Entry.high - current_pointer

\* The message the LLKI-PP is sent for the request, and what it answers.
KlRequest ==
  CASE IsLoad -> Header(LLKI_MID_KLLOADKEYREQ, Left + 2)
    [] msg.msg_id = LLKI_MID_C2CLEARKEYREQ -> Header(LLKI_MID_KLCLEARKEYREQ, 1)
    [] OTHER -> Header(LLKI_MID_KLKEYSTATUSREQ, 1)

KlAnswer ==
  CASE IsLoad -> LLKI_MID_KLLOADKEYACK
    [] msg.msg_id = LLKI_MID_C2CLEARKEYREQ -> LLKI_MID_KLCLEARKEYACK
    [] OTHER -> LLKI_MID_KLKEYSTATUSRESP

\* What the LLKI-PP can be doing about the request.
Checking(req) == /\ pp_state = "MESSAGE_CHECK"
                 /\ pp_msg_id = req.msg_id /\ pp_msg_len = req.msg_len
Receiving(n)  == pp_state = "LOAD_KEY_WORDS" /\ pp_msg_len = n
Finishing(id) == \/ Answering(id)
                 \/ pp_state = "CLEAR_KEY" /\ id = LLKI_MID_KLCLEARKEYACK
Shown == pp_state = "RESPONSE" /\ pp_response_waiting

Resting == {"IDLE", "MESSAGE_CHECK", "RETRIEVE_KEY_INDEX", "KL_REQ_HEADER", "C2_RESPONSE"}
Sending == {"KL_READ_READY_STATUS", "KL_CHECK_READY_STATUS", "KL_READY_WAIT_STATE",
            "KL_LOAD_KEY_WORD"}
Asking  == {"KL_READ_RESP_STATUS", "KL_CHECK_RESP_STATUS", "KL_RESP_WAIT_STATE"}

\* What the LLKI-PP is doing in every state of the SRoT.
StepInv ==
  /\ srot_state \in Resting => pp_state = "IDLE"
  /\ srot_state = "KL_REQ_ISSUE" => pp_state = "IDLE" /\ Raised(Write(KlRequest))
  /\ srot_state = "KL_REQ_WAIT_FOR_ACK" =>
       \/ pp_state = "IDLE" /\ Carried(Write(KlRequest))
       \/ Answered /\ (Checking(KlRequest)
                        \/ (IF IsLoad THEN Receiving(Left + 2) ELSE Finishing(KlAnswer)))
  /\ srot_state \in Sending => Receiving(Left + 2)
  /\ srot_state = "KL_LOAD_KEY_WORD_WAIT_FOR_ACK" =>
       \/ ~Answered /\ Receiving(Left + 2)
       \/ Answered /\ (IF Left = 0 THEN Finishing(KlAnswer) ELSE Receiving(Left + 1))
  /\ srot_state \in Asking => Finishing(KlAnswer)
  /\ srot_state = "KL_CHECK_RESP_STATUS" /\ Answered /\ fab_rsp.resp_waiting => Shown
  /\ srot_state = "KL_RESP_READ" =>
       \/ ~Answered /\ Finishing(KlAnswer) /\ Shown
       \/ Answered /\ pp_state = "IDLE" /\ fab_rsp.msg_id = KlAnswer

\* What else is true of the LLKI-PP and its TSS, whoever drives them.
PairSync ==
  /\ tss_state \in {"CLEAR_KEY", "WAIT_STATE2"} => pp_state = "CLEAR_KEY"
  /\ tss_state \in {"WAIT_STATE0", "WAIT_STATE1"} => ~llkid_key_ready
  /\ pp_ctrlstatus.resp_waiting /\ pp_state = "RESPONSE" => pp_response_waiting

\* When the TSS can take a word, and when the status register lags behind it.
ReadyInv ==
  /\ llkid_key_valid => srot_state = "KL_LOAD_KEY_WORD_WAIT_FOR_ACK" /\ Answered
  /\ pp_ctrlstatus.ready_for_key /\ ~llkid_key_ready =>
       \/ pp_state = "CLEAR_KEY" \/ Answering(LLKI_MID_KLCLEARKEYACK)
       \/ srot_state \in {"KL_LOAD_KEY_WORD_WAIT_FOR_ACK", "KL_READ_READY_STATUS",
                          "KL_READ_RESP_STATUS"}
  /\ srot_state = "KL_CHECK_READY_STATUS" /\ Answered /\ fab_rsp.ready_for_key =>
       llkid_key_ready
  /\ srot_state \in {"KL_LOAD_KEY_WORD", "KL_LOAD_KEY_WORD_WAIT_FOR_ACK"} /\ ~Answered =>
       llkid_key_ready

\* Requests come in an operational mode, and every entry is short.
RequestInv ==
  /\ NoLateWrite
  /\ (\E i \in 1 .. drv_setup : SetsMode(Setup[i])) => Operational
  /\ srot_state # "IDLE" \/ reqfifo # <<>> \/ reqfifo_w # None => Operational
  /\ srot_state = "MESSAGE_CHECK" => Follows(msg)
  /\ \A i \in 1 .. Len(reqfifo) : Follows(reqfifo[i])
  /\ reqfifo_w # None => Follows(reqfifo_w)
  /\ \A s \in IndexSlots : ShortEntry(keyindexram[s])
  /\ ram_w # None /\ ram_w.ram = "index" => ShortEntry(ram_w.data)

\* The request is one the SRoT accepted, and its entry is where it looks for it.
KeyInv ==
  /\ srot_state \notin {"IDLE", "MESSAGE_CHECK", "C2_RESPONSE"} => msg.msg_id \in C2Requests
  /\ srot_state \in Sending \cup {"KL_LOAD_KEY_WORD_WAIT_FOR_ACK"} => IsLoad
  /\ srot_state = "MESSAGE_CHECK" => keyindexram_b_addr = 0
  /\ srot_state = "RETRIEVE_KEY_INDEX" /\ IsLoad => Entry = keyindexram[keyindexram_b_addr]
  /\ srot_state \in Loading /\ IsLoad => InsideKey
  /\ srot_state = "KL_REQ_HEADER" /\ IsLoad => current_pointer = Entry.low

SyncInv == PartsInv /\ RequestInv /\ KeyInv /\ PairSync /\ StepInv /\ ReadyInv
-----------------------------------------------------------------------------
USE DEF LLKI_MID_KLLOADKEYREQ, LLKI_MID_KLCLEARKEYREQ, LLKI_MID_KLKEYSTATUSREQ,
        LLKI_MID_KLLOADKEYACK, LLKI_MID_KLCLEARKEYACK, LLKI_MID_KLKEYSTATUSRESP

(* What one clock edge takes the LLKI-PP to.                                *)
LEMMA PpMoves ==
  ASSUME NEW acc, PpEdge(acc)
  PROVE  /\ pp_state = "IDLE" =>
              IF IsWrite(acc) THEN Checking(acc.data)' ELSE pp_state' = "IDLE"
         /\ \A n \in Nat : Checking(Header(LLKI_MID_KLLOADKEYREQ, n)) /\ n > 1 => Receiving(n)'
         /\ Checking(Header(LLKI_MID_KLCLEARKEYREQ, 1)) => pp_state' = "CLEAR_KEY"
         /\ Checking(Header(LLKI_MID_KLKEYSTATUSREQ, 1)) =>
              Answering(LLKI_MID_KLKEYSTATUSRESP)'
         /\ \A n : Receiving(n) /\ ~IsWrite(acc) => Receiving(n)'
         /\ \A n \in Nat : Receiving(n) /\ IsWrite(acc) /\ llkid_key_ready /\ n >= 2 =>
              IF n = 2 THEN Answering(LLKI_MID_KLLOADKEYACK)' ELSE Receiving(n - 1)'
         /\ \A id : Finishing(id) /\ ~IsRead(acc) => Finishing(id)'
         /\ pp_state = "RESPONSE" =>
              IF IsRead(acc) THEN pp_state' = "IDLE" ELSE Shown'
<1> USE DEF PpEdge, Checking, Receiving, Answering, Goto, Answer
<1>1. pp_state = "IDLE" => IF IsWrite(acc) THEN Checking(acc.data)' ELSE pp_state' = "IDLE"
  BY DEF PpIdle, PpMessageCheck, PpLoadKeyWords, PpClearKey, PpResponse
<1>2. pp_state = "MESSAGE_CHECK" =>
        CheckLoadKey \/ CheckClearKey \/ CheckKeyStatus \/ CheckOther
  BY DEF PpIdle, PpMessageCheck, PpLoadKeyWords, PpClearKey, PpResponse
<1>3. ASSUME NEW n \in Nat, Checking(Header(LLKI_MID_KLLOADKEYREQ, n)), n > 1
      PROVE  Receiving(n)'
  BY <1>2, <1>3 DEF CheckLoadKey, CheckClearKey, CheckKeyStatus, CheckOther, Header
<1>4. Checking(Header(LLKI_MID_KLCLEARKEYREQ, 1)) => pp_state' = "CLEAR_KEY"
  BY <1>2 DEF CheckLoadKey, CheckClearKey, CheckKeyStatus, CheckOther, Header
<1>5. Checking(Header(LLKI_MID_KLKEYSTATUSREQ, 1)) => Answering(LLKI_MID_KLKEYSTATUSRESP)'
  BY <1>2 DEF CheckLoadKey, CheckClearKey, CheckKeyStatus, CheckOther, Header
<1>6. pp_state = "LOAD_KEY_WORDS" => PpLoadKeyWords(acc)
  BY DEF PpIdle, PpMessageCheck, PpClearKey, PpResponse
<1>7. ASSUME NEW n, Receiving(n), ~IsWrite(acc) PROVE Receiving(n)'
  BY <1>6, <1>7 DEF PpLoadKeyWords
<1>8. ASSUME NEW n \in Nat, Receiving(n), IsWrite(acc), llkid_key_ready, n >= 2
      PROVE  IF n = 2 THEN Answering(LLKI_MID_KLLOADKEYACK)' ELSE Receiving(n - 1)'
  <2>1. Dec8(n) = n - 1
    BY <1>8 DEF Dec8
  <2> QED
    BY <1>6, <1>8, <2>1 DEF PpLoadKeyWords
<1>9. ASSUME NEW id, Finishing(id), ~IsRead(acc) PROVE Finishing(id)'
  <2>1. CASE Answering(id)
    BY <1>9, <2>1 DEF Finishing, PpIdle, PpMessageCheck, PpLoadKeyWords, PpClearKey, PpResponse
  <2>2. CASE pp_state = "CLEAR_KEY" /\ id = LLKI_MID_KLCLEARKEYACK
    <3>1. PpClearKey
      BY <2>2 DEF PpIdle, PpMessageCheck, PpLoadKeyWords, PpResponse
    <3> QED
      BY <2>2, <3>1 DEF Finishing, PpClearKey
  <2> QED
    BY <1>9, <2>1, <2>2 DEF Finishing
<1>10. pp_state = "RESPONSE" => IF IsRead(acc) THEN pp_state' = "IDLE" ELSE Shown'
  BY DEF Shown, PpIdle, PpMessageCheck, PpLoadKeyWords, PpClearKey, PpResponse
<1> QED
  BY <1>1, <1>3, <1>4, <1>5, <1>7, <1>8, <1>9, <1>10

(* A key word is offered to the TSS only when one was written to the LLKI-PP.*)
LEMMA WordOffered ==
  ASSUME NEW acc, PpEdge(acc)
  PROVE  llkid_key_valid' => IsWrite(acc) /\ pp_state = "LOAD_KEY_WORDS"
BY DEF PpEdge, PpIdle, PpMessageCheck, PpLoadKeyWords, PpClearKey, PpResponse, Quiet, Discrete

(* A TSS that is ready stays ready until it gets a word or is cleared.      *)
LEMMA ReadyFalls ==
  ASSUME PairInv, PairSync, TssEdge, llkid_key_ready, ~llkid_key_ready'
  PROVE  llkid_key_valid \/ pp_state = "CLEAR_KEY"
BY DEF PairInv, PairTypes, PairSync, TssEdge, TssIdle, TssWaitState0, TssKey0Loaded,
       TssWaitState1, TssKey1Loaded, TssClearKey, TssWaitState2, TssLoadDelay, TssOutputs

LEMMA PairSyncStep ==
  ASSUME PairInv, PairSync, NEW acc, PairEdge(acc)
  PROVE  PairSync'
<1> USE DEF PairEdge
<1>1. tss_state' \in {"CLEAR_KEY", "WAIT_STATE2"} => pp_state' = "CLEAR_KEY"
  <2> SUFFICES ASSUME tss_state' \in {"CLEAR_KEY", "WAIT_STATE2"}
               PROVE  pp_state' = "CLEAR_KEY"
    OBVIOUS
  <2>1. tss_state # "IDLE" /\ (llkid_clear_key \/ tss_state \in {"CLEAR_KEY", "WAIT_STATE2"})
    BY DEF TssEdge, TssIdle, TssWaitState0, TssKey0Loaded, TssWaitState1, TssKey1Loaded,
           TssClearKey, TssWaitState2, TssLoadDelay
  <2>2. pp_state = "CLEAR_KEY" /\ ~llkid_clear_key_ack
    BY <2>1 DEF PairInv, PairSync, TssHolds, WiresHaveAReason, ClearAckMeansCleared
  <2> QED
    BY <2>2 DEF PpEdge, PpIdle, PpMessageCheck, PpLoadKeyWords, PpClearKey, PpResponse, Goto
<1>2. tss_state' \in {"WAIT_STATE0", "WAIT_STATE1"} => ~llkid_key_ready'
  BY DEF TssEdge, TssIdle, TssWaitState0, TssKey0Loaded, TssWaitState1, TssKey1Loaded,
         TssClearKey, TssWaitState2, TssLoadDelay, TssOutputs
<1>3. pp_ctrlstatus'.resp_waiting /\ pp_state' = "RESPONSE" => pp_response_waiting'
  <2>1. pp_ctrlstatus'.resp_waiting = pp_response_waiting
    BY DEF PpEdge, StatusLag
  <2>2. pp_state' = "RESPONSE" => pp_state \in Working \cup {"RESPONSE"}
    BY DEF PpEdge, PpIdle, PpMessageCheck, PpLoadKeyWords, PpClearKey, PpResponse, Working
  <2>3. pp_state \in Working => ~pp_response_waiting
    BY DEF PairInv, ResponseUp
  <2>4. pp_state = "RESPONSE" => pp_response_waiting'
    BY DEF PpEdge, PpIdle, PpMessageCheck, PpLoadKeyWords, PpClearKey, PpResponse
  <2> QED
    BY <2>1, <2>2, <2>3, <2>4
<1> QED
  BY <1>1, <1>2, <1>3 DEF PairSync
-----------------------------------------------------------------------------
(* How the SRoT gets from one state to the next, as far as the request and  *)
(* its entry go.                                                            *)
LEMMA Flow ==
  ASSUME NEW gnt, NEW rsp, Stm(gnt, FALSE, rsp)
  PROVE  /\ srot_state' = "MESSAGE_CHECK" =>
              /\ srot_state = "IDLE" /\ reqfifo # <<>>
              /\ msg' = [Head(reqfifo) EXCEPT !.status = 0] /\ keyindexram_b_addr' = 0
         /\ srot_state' \notin {"IDLE", "MESSAGE_CHECK", "C2_RESPONSE"} =>
              msg' = msg /\ srot_state \notin {"IDLE", "C2_RESPONSE"}
         /\ srot_state = "IDLE" /\ srot_state' # "IDLE" => reqfifo # <<>>
         /\ srot_state' = "RETRIEVE_KEY_INDEX" =>
              /\ srot_state = "MESSAGE_CHECK" /\ msg.msg_id \in C2Requests
              /\ keyindexram_b_addr' = msg.key_index % SROT_KEYINDEXRAM_SIZE
         /\ srot_state' = "KL_REQ_HEADER" =>
              /\ srot_state = "RETRIEVE_KEY_INDEX" /\ current_pointer' = Entry.low
              /\ keyindexram_b_addr' = keyindexram_b_addr
         /\ srot_state = "MESSAGE_CHECK" =>
              srot_state' \in {"RETRIEVE_KEY_INDEX", "C2_RESPONSE"}
         /\ srot_state' \in Loading =>
              srot_state = "RETRIEVE_KEY_INDEX" \/ srot_state \in Loading
         /\ srot_state' \in Sending \cup {"KL_LOAD_KEY_WORD_WAIT_FOR_ACK"} =>
              \/ srot_state \in Sending \cup {"KL_LOAD_KEY_WORD_WAIT_FOR_ACK"}
              \/ srot_state = "KL_REQ_WAIT_FOR_ACK" /\ IsLoad
<1> USE DEF Loading, Sending, Advance, Reject
<1>1. CASE SrotIdle
  BY <1>1 DEF SrotIdle
<1>2. CASE SrotMessageCheck
  BY <1>2 DEF SrotMessageCheck
<1>3. CASE SrotRetrieveKeyIndex
  BY <1>3 DEF SrotRetrieveKeyIndex
<1>4. CASE SrotReqHeader \/ SrotReqIssue(gnt, FALSE)
  BY <1>4 DEF SrotReqHeader, SrotReqIssue
<1>5. CASE SrotReqWaitForAck(rsp)
  BY <1>5 DEF SrotReqWaitForAck, IsLoad
<1>6. CASE SrotReadReadyStatus(gnt, FALSE) \/ SrotCheckReadyStatus(rsp)
  BY <1>6 DEF SrotReadReadyStatus, SrotCheckReadyStatus
<1>7. CASE SrotReadyWaitState(FALSE) \/ SrotRespWaitState(FALSE)
  BY <1>7 DEF SrotReadyWaitState, SrotRespWaitState, WaitThenPoll
<1>8. CASE SrotLoadKeyWord(gnt) \/ SrotLoadKeyWordWaitForAck(rsp)
  BY <1>8 DEF SrotLoadKeyWord, SrotLoadKeyWordWaitForAck
<1>9. CASE SrotReadRespStatus(gnt, FALSE) \/ SrotCheckRespStatus(rsp)
  BY <1>9 DEF SrotReadRespStatus, SrotCheckRespStatus
<1>10. CASE SrotRespRead(FALSE, rsp) \/ SrotC2Response
  BY <1>10 DEF SrotRespRead, SrotC2Response
<1> QED
  BY <1>1, <1>2, <1>3, <1>4, <1>5, <1>6, <1>7, <1>8, <1>9, <1>10 DEF Stm

(* Once the setup is done a mode bit is set, and only then a request comes. *)
LEMMA RequestsCome ==
  ASSUME TypeInv, RequestInv, ModeIsSet, FirstKeyOnly,
         NEW acc \in DriverAccesses, DriverStep(acc)
  PROVE  IsRequestWrite(acc) => Operational /\ Follows(acc.data)
<1> SUFFICES ASSUME IsRequestWrite(acc) PROVE Operational /\ Follows(acc.data)
  OBVIOUS
<1>1. /\ acc \notin StrayWrites /\ acc # NoAccess /\ acc # PollStatus /\ acc # ReadMsg
      /\ \A i \in DOMAIN Setup : acc # Setup[i]
  BY DriverAssumption DEF IsRequestWrite, NoAccess, PollStatus, ReadMsg, RegRead
<1>2. drv_setup + 1 \in DOMAIN Setup \/ SetupDone
  BY DriverAssumption DEF TypeInv, DriverTypes, SetupDone
<1>3. DriverSend(acc)
  BY <1>1, <1>2 DEF DriverStep, DriverIdle, DriverSetup, DriverStrayWrite, DriverPoll,
                    DriverReadMsg
<1>4. PICK r \in Requests : acc = Request(r, drv_tag)
  BY <1>3 DEF DriverSend
<1>5. acc.data.msg_id = r.msg_id /\ acc.data.key_index = r.key_index
  <2>1. r \in C2Message
    BY DriverAssumption
  <2> QED
    BY <1>4, <2>1 DEF Request, RegWrite, C2Message
<1>6. Operational
  BY <1>3, DriverAssumption DEF DriverSend, SetupDone, ModeIsSet, RequestInv
<1> QED
  BY <1>5, <1>6 DEF FirstKeyOnly, Follows

LEMMA RequestStep ==
  ASSUME TypeInv, RequestInv, ShortKeys, ModeIsSet, FirstKeyOnly,
         NEW acc \in DriverAccesses, DriverStep(acc), Ports(acc),
         NEW gnt, NEW rsp, Stm(gnt, FALSE, rsp)
  PROVE  RequestInv'
<1>1. NoLateWrite'
  BY WriteDecodeStep DEF Ports, RequestInv
<1>2. Operational => Operational'
  BY DEF Ports, WriteDecode, DecodeCtrlSts, Operational
<1>3. (\E i \in 1 .. drv_setup' : SetsMode(Setup[i])) => Operational'
  <2> SUFFICES ASSUME NEW i \in 1 .. drv_setup', SetsMode(Setup[i])
               PROVE  Operational'
    OBVIOUS
  <2>1. CASE i \in 1 .. drv_setup
    BY <1>2, <2>1 DEF RequestInv
  <2>2. CASE i \notin 1 .. drv_setup
    <3>1. DriverSetup(acc) /\ i = drv_setup + 1
      BY <2>2 DEF TypeInv, DriverTypes, DriverStep, DriverIdle, DriverStrayWrite, DriverSend,
                  DriverPoll, DriverReadMsg, DriverSetup
    <3>2. acc = Setup[i] /\ acc.op = "write"
      BY <3>1, DriverAssumption DEF DriverSetup, SetupDone, TypeInv, DriverTypes
    <3> QED
      BY <3>2 DEF SetsMode, Ports, WriteDecode, DecodeCtrlSts, Operational
  <2> QED
    BY <2>1, <2>2
<1>4. reqfifo_w' # None => Operational /\ Follows(reqfifo_w')
  BY RequestsCome DEF Ports, WriteDecode, DecodeSendRecv
<1>5. reqfifo' # <<>> => Operational
  BY DEF Ports, Memories, FifoStep, RequestInv
<1>6. srot_state' # "IDLE" => Operational
  BY Flow DEF RequestInv
<1>7. srot_state' = "MESSAGE_CHECK" => Follows(msg')
  <2> SUFFICES ASSUME srot_state' = "MESSAGE_CHECK" PROVE Follows(msg')
    OBVIOUS
  <2>1. reqfifo # <<>> /\ msg' = [Head(reqfifo) EXCEPT !.status = 0]
    BY Flow
  <2>2. 1 \in 1 .. Len(reqfifo) /\ reqfifo[1] \in C2Message
    BY <2>1 DEF TypeInv, MemoryTypes
  <2>3. Follows(reqfifo[1])
    BY <2>2 DEF RequestInv
  <2> QED
    <3>1. Head(reqfifo) = reqfifo[1]
      BY <2>1 DEF TypeInv, MemoryTypes
    <3> QED
      BY <2>1, <2>2, <2>3, <3>1 DEF Follows, C2Message
<1>8. \A i \in 1 .. Len(reqfifo') : Follows(reqfifo'[i])
  <2> DEFINE T == { m \in C2Message : Follows(m) }
  <2>1. reqfifo \in Seq(T)
    <3>1. \A i \in 1 .. Len(reqfifo) : reqfifo[i] \in T
      BY DEF TypeInv, MemoryTypes, RequestInv
    <3> HIDE DEF T
    <3> QED
      BY <3>1 DEF TypeInv, MemoryTypes
  <2>2. reqfifo_w \in T \cup {None}
    BY DEF TypeInv, DecodeTypes, RequestInv
  <2>3. reqfifo' \in Seq(T)
    <3> HIDE DEF T
    <3> QED
      BY <2>1, <2>2, FifoTyped DEF Ports, Memories, TypeInv, StmTypes, MemoryTypes
  <2> QED
    BY <2>3
<1>9. \A s \in IndexSlots : ShortEntry(keyindexram'[s])
  BY DEF Ports, Memories, RamStep, RequestInv, TypeInv, MemoryTypes
<1>10. ram_w' # None /\ ram_w'.ram = "index" => ShortEntry(ram_w'.data)
  <2> SUFFICES ASSUME ram_w' # None, ram_w'.ram = "index" PROVE ShortEntry(ram_w'.data)
    OBVIOUS
  <2>1. acc.op = "write" /\ InKeyIndexRam(acc.addr) /\ ram_w'.data = acc.data
    BY DEF Ports, WriteDecode, DecodeRamWrite
  <2>2. acc \in StrayWrites \cup { Setup[i] : i \in DOMAIN Setup }
    <3>1. ~InKeyIndexRam(SROT_LLKIC2_SENDRECV_ADDR)
      BY SrotAssumption DEF InKeyIndexRam, SROT_LLKIC2_SENDRECV_ADDR
    <3> QED
      BY <2>1, <3>1 DEF DriverAccesses, NoAccess, PollStatus, ReadMsg, RegRead, Request, RegWrite
  <2> QED
    BY <2>1, <2>2 DEF ShortKeys
<1> QED
  BY <1>1, <1>2, <1>3, <1>4, <1>5, <1>6, <1>7, <1>8, <1>9, <1>10 DEF RequestInv

(* In the states of a load the entry stays what it is, and the words left   *)
(* of the key are few enough for the length byte.                           *)
LEMMA LoadEntry ==
  ASSUME TypeInv, RequestInv, KeyInv, IsLoad, srot_state \in Loading, NEW acc, Memories(acc)
  PROVE  /\ keyindexram_b_addr' = keyindexram_b_addr => Entry' = Entry
         /\ Left \in 0 .. 253
         /\ Entry.high - Entry.low \in 0 .. 253
         /\ Left # 0 <=> current_pointer # Entry.high
         /\ Left # 0 => (current_pointer + 1) % PointerSpan = current_pointer + 1
<1> DEFINE entry == keyindexram[keyindexram_b_addr]
<1>1. Operational /\ NoLateWrite /\ InsideKey
  BY DEF RequestInv, KeyInv, Loading
<1>2. Entry = entry /\ ~BadPointers(entry) /\ current_pointer \in entry.low .. entry.high
  BY <1>1 DEF InsideKey
<1>3. entry \in IndexEntry /\ ShortEntry(entry)
  BY DEF TypeInv, StmTypes, MemoryTypes, RequestInv
<1>4. keyindexram_b_addr' = keyindexram_b_addr => Entry' = Entry
  BY <1>1, <1>2, SameEntry
<1> HIDE DEF entry
<1>5. /\ entry.low \in Nat /\ entry.high \in Nat /\ entry.high - entry.low <= 253
      /\ entry.high < SROT_KEYRAM_SIZE
  BY <1>2, <1>3, SrotAssumption DEF IndexEntry, ShortEntry, BadPointers
<1>6. Left \in 0 .. 253 /\ entry.high - entry.low \in 0 .. 253
      /\ (Left # 0 <=> current_pointer # entry.high)
  <2>1. Left = entry.high - current_pointer
    BY <1>2 DEF Left
  <2>2. /\ current_pointer \in Nat
        /\ entry.low <= current_pointer /\ current_pointer <= entry.high
    BY <1>2, <1>5
  <2> QED
    BY <1>5, <2>1, <2>2
<1>7. ASSUME Left # 0 PROVE (current_pointer + 1) % PointerSpan = current_pointer + 1
  <2>1. current_pointer + 1 \in 0 .. PointerSpan - 1
    BY <1>2, <1>5, <1>6, <1>7, SrotAssumption
  <2> QED
    BY <2>1, ModSmall, SrotAssumption
<1> QED
  BY <1>2, <1>4, <1>6, <1>7

LEMMA KeyStep ==
  ASSUME TypeInv, RequestInv, KeyInv, NEW acc, Ports(acc),
         NEW gnt, NEW rsp, Stm(gnt, FALSE, rsp)
  PROVE  KeyInv'
<1>1. Memories(acc)
  BY DEF Ports
<1>2. srot_state' \notin {"IDLE", "MESSAGE_CHECK", "C2_RESPONSE"} => msg'.msg_id \in C2Requests
  <2>1. srot_state = "MESSAGE_CHECK" => srot_state' \in {"RETRIEVE_KEY_INDEX", "C2_RESPONSE"}
    BY Flow
  <2> QED
    BY <2>1, Flow DEF KeyInv
<1>3. srot_state' \in Sending \cup {"KL_LOAD_KEY_WORD_WAIT_FOR_ACK"} => IsLoad'
  <2> SUFFICES ASSUME srot_state' \in Sending \cup {"KL_LOAD_KEY_WORD_WAIT_FOR_ACK"}
               PROVE  IsLoad'
    OBVIOUS
  <2>1. msg' = msg
    BY Flow DEF Sending
  <2>2. IsLoad
    BY Flow DEF KeyInv
  <2> QED
    BY <2>1, <2>2 DEF IsLoad
<1>4. srot_state' = "MESSAGE_CHECK" => keyindexram_b_addr' = 0
  BY Flow
<1>5. srot_state' = "RETRIEVE_KEY_INDEX" /\ IsLoad' =>
        Entry' = keyindexram'[keyindexram_b_addr']
  <2> SUFFICES ASSUME srot_state' = "RETRIEVE_KEY_INDEX", IsLoad', RegisteredRam
               PROVE  Entry' = keyindexram'[keyindexram_b_addr']
    BY DEF Entry
  <2>1. /\ srot_state = "MESSAGE_CHECK" /\ msg' = msg
        /\ keyindexram_b_addr' = msg.key_index % SROT_KEYINDEXRAM_SIZE
    BY Flow
  <2>2. msg.key_index = 0 /\ keyindexram_b_addr = 0 /\ Operational /\ NoLateWrite
    BY <2>1 DEF RequestInv, KeyInv, Follows, IsLoad
  <2>3. keyindexram_b_addr' = 0
    BY <2>1, <2>2, SrotAssumption
  <2>4. Entry' = keyindexram[0] /\ keyindexram' = keyindexram
    BY <1>1, <2>2, FrozenStep DEF Entry, Memories
  <2> QED
    BY <2>3, <2>4
<1>6. srot_state' \in Loading /\ IsLoad' => InsideKey'
  <2> SUFFICES ASSUME srot_state' \in Loading, IsLoad' PROVE InsideKey'
    OBVIOUS
  <2>1. msg' = msg
    BY Flow DEF Loading
  <2>2. IsLoad
    BY <2>1 DEF IsLoad
  <2>3. srot_state = "RETRIEVE_KEY_INDEX" \/ srot_state \in Loading
    BY Flow
  <2>4. Operational /\ NoLateWrite
    BY <2>3 DEF RequestInv, Loading
  <2>5. \/ srot_state = "RETRIEVE_KEY_INDEX" /\ Entry = keyindexram[keyindexram_b_addr]
        \/ srot_state \in Loading /\ InsideKey
    BY <2>2, <2>3 DEF KeyInv
  <2> QED
    BY <1>1, <2>4, <2>5, LoadStep
<1>7. srot_state' = "KL_REQ_HEADER" /\ IsLoad' => current_pointer' = Entry'.low
  <2> SUFFICES ASSUME srot_state' = "KL_REQ_HEADER", IsLoad' PROVE current_pointer' = Entry'.low
    OBVIOUS
  <2>1. /\ srot_state = "RETRIEVE_KEY_INDEX" /\ current_pointer' = Entry.low /\ msg' = msg
        /\ keyindexram_b_addr' = keyindexram_b_addr
    BY Flow
  <2>2. Entry = keyindexram[keyindexram_b_addr] /\ Operational /\ NoLateWrite
    BY <2>1 DEF KeyInv, RequestInv, IsLoad
  <2>3. Entry' = Entry
    BY <1>1, <2>1, <2>2, SameEntry
  <2> QED
    BY <2>1, <2>3
<1> QED
  BY <1>2, <1>3, <1>4, <1>5, <1>6, <1>7 DEF KeyInv
-----------------------------------------------------------------------------
(* What the request of the SRoT to the LLKI-PP depends on.                  *)
LEMMA RequestKept ==
  ASSUME msg' = msg, IsLoad => Entry' = Entry /\ current_pointer' = current_pointer
  PROVE  /\ IsLoad' = IsLoad /\ KlAnswer' = KlAnswer /\ KlRequest' = KlRequest
         /\ IsLoad => Left' = Left
<1>1. IsLoad' = IsLoad /\ KlAnswer' = KlAnswer
  BY DEF IsLoad, KlAnswer
<1>2. IsLoad => Left' = Left
  BY DEF Left
<1>3. KlRequest' = KlRequest
  BY <1>1, <1>2 DEF KlRequest, Header
<1> QED
  BY <1>1, <1>2, <1>3

(* The header put up is the request, because the length does not wrap.      *)
LEMMA HeaderIsRequest ==
  ASSUME TypeInv, RequestInv, KeyInv, srot_state = "KL_REQ_HEADER", NEW acc, Memories(acc)
  PROVE  KlHeader = KlRequest
<1>1. CASE IsLoad
  <2>1. Entry.high - Entry.low \in 0 .. 253 /\ current_pointer = Entry.low
    BY <1>1, LoadEntry DEF Loading, KeyInv
  <2>2. ((Entry.high - Entry.low) + 2) % 256 = (Entry.high - Entry.low) + 2
    BY <2>1
  <2> QED
    BY <1>1, <2>1, <2>2 DEF KlHeader, KlRequest, IsLoad, Left
<1>2. CASE ~IsLoad
  BY <1>2 DEF KlHeader, KlRequest, IsLoad
<1> QED
  BY <1>1, <1>2

(* The answer of the LLKI-PP to the message the SRoT sends.                 *)
LEMMA RequestServed ==
  ASSUME TypeInv, RequestInv, KeyInv, srot_state = "KL_REQ_WAIT_FOR_ACK",
         NEW acc, Memories(acc), NEW a, ~IsWrite(a), ~IsRead(a), PpEdge(a),
         Checking(KlRequest) \/ (IF IsLoad THEN Receiving(Left + 2) ELSE Finishing(KlAnswer))
  PROVE  IF IsLoad THEN pp_state' = "LOAD_KEY_WORDS" /\ pp_msg_len' = Left + 2
         ELSE \/ pp_state' = "RESPONSE" /\ pp_msg_id' = KlAnswer
              \/ pp_state' = "CLEAR_KEY" /\ KlAnswer = LLKI_MID_KLCLEARKEYACK
<1>1. CASE IsLoad
  <2>1. Left + 2 \in Nat /\ Left + 2 > 1
    BY <1>1, LoadEntry DEF Loading
  <2>2. KlRequest = Header(LLKI_MID_KLLOADKEYREQ, Left + 2)
    BY <1>1 DEF KlRequest, IsLoad, LLKI_MID_C2LOADKEYREQ, LLKI_MID_C2CLEARKEYREQ
  <2> DEFINE n == Left + 2
  <2>3. Receiving(n) \/ Checking(Header(LLKI_MID_KLLOADKEYREQ, n))
    BY <1>1, <2>2
  <2>4. n \in Nat /\ n > 1
    BY <2>1
  <2>5. ASSUME NEW m \in Nat, m > 1, Receiving(m) \/ Checking(Header(LLKI_MID_KLLOADKEYREQ, m))
        PROVE  pp_state' = "LOAD_KEY_WORDS" /\ pp_msg_len' = m
    BY <2>5, PpMoves DEF Receiving
  <2> HIDE DEF n
  <2>6. pp_state' = "LOAD_KEY_WORDS" /\ pp_msg_len' = n
    BY <2>3, <2>4, <2>5
  <2> QED
    BY <1>1, <2>6 DEF n
<1>2. CASE ~IsLoad /\ msg.msg_id = LLKI_MID_C2CLEARKEYREQ
  <2>1. KlRequest = Header(LLKI_MID_KLCLEARKEYREQ, 1) /\ KlAnswer = LLKI_MID_KLCLEARKEYACK
    BY <1>2 DEF KlRequest, KlAnswer
  <2>2. Checking(Header(LLKI_MID_KLCLEARKEYREQ, 1)) => pp_state' = "CLEAR_KEY"
    BY PpMoves
  <2>3. Finishing(LLKI_MID_KLCLEARKEYACK) =>
          pp_state' = "CLEAR_KEY" \/ (pp_state' = "RESPONSE" /\ pp_msg_id' = LLKI_MID_KLCLEARKEYACK)
    BY PpMoves DEF Finishing, Answering
  <2> QED
    BY <1>2, <2>1, <2>2, <2>3
<1>3. CASE ~IsLoad /\ msg.msg_id # LLKI_MID_C2CLEARKEYREQ
  <2>1. KlRequest = Header(LLKI_MID_KLKEYSTATUSREQ, 1) /\ KlAnswer = LLKI_MID_KLKEYSTATUSRESP
    BY <1>3 DEF KlRequest, KlAnswer
  <2>2. Checking(Header(LLKI_MID_KLKEYSTATUSREQ, 1)) =>
          pp_state' = "RESPONSE" /\ pp_msg_id' = LLKI_MID_KLKEYSTATUSRESP
    BY PpMoves DEF Answering
  <2>3. Finishing(LLKI_MID_KLKEYSTATUSRESP) =>
          pp_state' = "RESPONSE" /\ pp_msg_id' = LLKI_MID_KLKEYSTATUSRESP
    BY PpMoves DEF Finishing, Answering
  <2> QED
    BY <1>3, <2>1, <2>2, <2>3
<1> QED
  BY <1>1, <1>2, <1>3

(* An answer stays until it is read.                                        *)
LEMMA AnswerKept ==
  ASSUME NEW a, ~IsRead(a), PpEdge(a), Finishing(KlAnswer)
  PROVE  \/ pp_state' = "RESPONSE" /\ pp_msg_id' = KlAnswer
         \/ pp_state' = "CLEAR_KEY" /\ KlAnswer = LLKI_MID_KLCLEARKEYACK
<1>1. ASSUME NEW id, Finishing(id)
      PROVE  \/ pp_state' = "RESPONSE" /\ pp_msg_id' = id
             \/ pp_state' = "CLEAR_KEY" /\ id = LLKI_MID_KLCLEARKEYACK
  BY <1>1, PpMoves DEF Finishing, Answering
<1> QED
  BY <1>1

(* A word written to the LLKI-PP while the TSS is ready is the next of the  *)
(* key.                                                                     *)
LEMMA WordTaken ==
  ASSUME NEW a, PpEdge(a), Left \in 0 .. 253, Receiving(Left + 2),
         IsWrite(a) => llkid_key_ready
  PROVE  IF ~IsWrite(a) THEN pp_state' = "LOAD_KEY_WORDS" /\ pp_msg_len' = Left + 2
         ELSE IF Left = 0 THEN pp_state' = "RESPONSE" /\ pp_msg_id' = LLKI_MID_KLLOADKEYACK
         ELSE pp_state' = "LOAD_KEY_WORDS" /\ pp_msg_len' = Left + 1
<1>1. ASSUME NEW n \in Nat, n >= 2, Receiving(n)
      PROVE  IF ~IsWrite(a) THEN pp_state' = "LOAD_KEY_WORDS" /\ pp_msg_len' = n
             ELSE IF n = 2 THEN pp_state' = "RESPONSE" /\ pp_msg_id' = LLKI_MID_KLLOADKEYACK
             ELSE pp_state' = "LOAD_KEY_WORDS" /\ pp_msg_len' = n - 1
  BY <1>1, PpMoves DEF Receiving, Answering
<1> DEFINE n == Left + 2
<1>2. n \in Nat /\ n >= 2 /\ (n = 2 <=> Left = 0) /\ n - 1 = Left + 1 /\ Receiving(n)
  OBVIOUS
<1>3. n = Left + 2
  OBVIOUS
<1> HIDE DEF n
<1> QED
  BY <1>1, <1>2, <1>3

LEMMA StepStep ==
  ASSUME SyncInv, NEW acc,
         NEW gnt \in BOOLEAN, gnt = (fab_req = <<>>),
         NEW deliver \in BOOLEAN, NEW respond \in BOOLEAN,
         Fabric(gnt, deliver, respond), Memories(acc), Stm(gnt, FALSE, Returned(respond)),
         PairEdge(Delivered(gnt, deliver))
  PROVE  StepInv'
<1> DEFINE rsp == Returned(respond)
           a   == Delivered(gnt, deliver)
<1> USE Accesses DEF Advance
<1>1. TypeInv /\ RequestInv /\ KeyInv /\ BusInv /\ PairInv /\ PpEdge(a) /\ PairSync
  BY DEF SyncInv, PartsInv, PairEdge
<1>2. ASSUME srot_state' \in Resting, pp_state' = "IDLE"
      PROVE  StepInv'
  BY <1>2 DEF StepInv, Resting, Sending, Asking
<1>3. ASSUME srot_state' \in Sending, pp_state' = "LOAD_KEY_WORDS", pp_msg_len' = Left' + 2
      PROVE  StepInv'
  BY <1>3 DEF StepInv, Resting, Sending, Asking, Receiving
<1>4. ASSUME BusQuiet
      PROVE  /\ a = NoAccess /\ rsp = None /\ fab_req' = <<>> /\ fab_rsp' = None
             /\ pp_state = "IDLE" => pp_state' = "IDLE"
  BY <1>1, <1>4, FabricStep, PpMoves
<1>5. CASE SrotIdle \/ SrotMessageCheck \/ SrotRetrieveKeyIndex \/ SrotC2Response
  <2>1. srot_state \in Resting /\ srot_state \notin AwaitsBus /\ srot_state' \in Resting
    BY <1>5 DEF SrotIdle, SrotMessageCheck, SrotRetrieveKeyIndex, SrotC2Response, Reject,
                Resting, AwaitsBus
  <2>2. BusQuiet /\ pp_state = "IDLE"
    BY <1>1, <2>1 DEF BusInv, SyncInv, StepInv
  <2> QED
    BY <1>2, <1>4, <2>1, <2>2
<1>6. CASE SrotReqHeader
  <2>1. /\ srot_state = "KL_REQ_HEADER" /\ srot_state' = "KL_REQ_ISSUE" /\ msg' = msg
        /\ host' = Write(KlHeader) /\ UNCHANGED <<current_pointer, keyindexram_b_addr>>
    BY <1>6 DEF SrotReqHeader
  <2>2. BusQuiet /\ pp_state = "IDLE"
    BY <1>1, <2>1 DEF BusInv, SyncInv, StepInv, AwaitsBus, Resting
  <2>3. KlHeader = KlRequest
    BY <1>1, <2>1, HeaderIsRequest
  <2>4. KlRequest' = KlRequest
    BY <1>1, <2>1, LoadEntry, RequestKept DEF Loading
  <2>5. Raised(Write(KlRequest))' /\ pp_state' = "IDLE"
    BY <1>4, <2>1, <2>2, <2>3, <2>4 DEF Raised
  <2> QED
    BY <2>1, <2>5 DEF StepInv, Resting, Sending, Asking
<1>7. ASSUME srot_state \in {"KL_REQ_ISSUE", "KL_REQ_WAIT_FOR_ACK"},
             pp_state = "IDLE", Asked(Write(KlRequest)),
             srot_state' = "KL_REQ_WAIT_FOR_ACK", host' = NoAccess, msg' = msg,
             UNCHANGED <<current_pointer, keyindexram_b_addr>>
      PROVE  StepInv'
  <2>1. KlRequest' = KlRequest
    BY <1>1, <1>7, LoadEntry, RequestKept DEF Loading
  <2>2. CASE a = NoAccess
    <3>1. fab_req' = <<Write(KlRequest)>> /\ fab_rsp' = None /\ pp_state' = "IDLE"
      BY <1>1, <1>7, <2>2, FabricStep, PpMoves
    <3>2. Carried(Write(KlRequest))'
      BY <1>7, <2>1, <3>1 DEF Carried
    <3> QED
      BY <1>7, <3>1, <3>2 DEF StepInv, Resting, Sending, Asking
  <2>3. CASE a # NoAccess
    <3>1. a = Write(KlRequest) /\ fab_req' = <<>> /\ fab_rsp' = WriteAck
      BY <1>7, <2>3, FabricStep
    <3>2. Checking(KlRequest)'
      BY <1>1, <1>7, <2>1, <3>1, PpMoves DEF Checking
    <3>3. Answered'
      BY <1>7, <3>1, NotNone DEF Answered
    <3> QED
      BY <1>7, <3>2, <3>3 DEF StepInv, Resting, Sending, Asking
  <2> QED
    BY <2>2, <2>3
<1>8. CASE SrotReqIssue(gnt, FALSE)
  <2>1. pp_state = "IDLE" /\ Raised(Write(KlRequest)) /\ srot_state = "KL_REQ_ISSUE"
    BY <1>8 DEF SrotReqIssue, SyncInv, StepInv
  <2>2. gnt
    BY <2>1 DEF Raised
  <2> QED
    BY <1>7, <1>8, <2>1, <2>2 DEF SrotReqIssue, Asked
<1>9. CASE SrotReqWaitForAck(rsp)
  <2>1. /\ srot_state = "KL_REQ_WAIT_FOR_ACK" /\ host' = NoAccess /\ msg' = msg
        /\ UNCHANGED <<current_pointer, keyindexram_b_addr>>
    BY <1>9 DEF SrotReqWaitForAck
  <2>2. CASE Carried(Write(KlRequest)) /\ pp_state = "IDLE"
    BY <1>7, <1>9, <2>1, <2>2, FabricStep DEF SrotReqWaitForAck, Asked
  <2>3. CASE /\ Answered
             /\ \/ Checking(KlRequest)
                \/ IF IsLoad THEN Receiving(Left + 2) ELSE Finishing(KlAnswer)
    <3>1. a = NoAccess /\ fab_req' = <<>> /\ (fab_rsp' = fab_rsp \/ rsp = fab_rsp)
          /\ (rsp = None => fab_rsp' = fab_rsp)
      BY <2>3, FabricStep DEF Answered
    <3>2. KlAnswer' = KlAnswer /\ IsLoad' = IsLoad /\ (IsLoad => Left' = Left)
      BY <1>1, <2>1, LoadEntry, RequestKept DEF Loading
    <3>3. IF IsLoad THEN pp_state' = "LOAD_KEY_WORDS" /\ pp_msg_len' = Left' + 2
          ELSE Finishing(KlAnswer)'
      BY <1>1, <2>1, <2>3, <3>1, <3>2, RequestServed DEF Finishing, Answering
    <3>4. CASE rsp = None
      <4>1. srot_state' = "KL_REQ_WAIT_FOR_ACK" /\ Answered'
        BY <1>9, <2>1, <2>3, <3>1, <3>4 DEF SrotReqWaitForAck, Answered
      <4> QED
        BY <3>2, <3>3, <4>1 DEF StepInv, Resting, Sending, Asking, Receiving
    <3>5. CASE rsp # None /\ IsLoad
      <4>1. srot_state' = "KL_READ_READY_STATUS"
        BY <1>9, <3>5 DEF SrotReqWaitForAck, IsLoad
      <4> QED
        BY <1>3, <3>3, <3>5, <4>1 DEF Sending
    <3>6. CASE rsp # None /\ ~IsLoad
      <4>1. srot_state' = "KL_READ_RESP_STATUS"
        BY <1>9, <3>6 DEF SrotReqWaitForAck, IsLoad
      <4> QED
        BY <3>3, <3>6, <4>1 DEF StepInv, Resting, Sending, Asking
    <3> QED
      BY <3>4, <3>5, <3>6
  <2> QED
    BY <2>1, <2>2, <2>3 DEF SyncInv, StepInv
<1>10. CASE SrotReadReadyStatus(gnt, FALSE) \/ SrotCheckReadyStatus(rsp)
              \/ SrotReadyWaitState(FALSE)
  <2>1. /\ srot_state \in Sending \ {"KL_LOAD_KEY_WORD"} /\ srot_state' \in Sending
        /\ msg' = msg /\ UNCHANGED <<current_pointer, keyindexram_b_addr>>
    BY <1>10 DEF SrotReadReadyStatus, SrotCheckReadyStatus, SrotReadyWaitState, WaitThenPoll,
                 Sending
  <2>2. Receiving(Left + 2) /\ IsLoad
    BY <1>1, <2>1 DEF SyncInv, StepInv, KeyInv
  <2>3. ~IsWrite(a)
    BY <1>1, <2>1, FabricStep DEF BusInv, Sending, AwaitsBus
  <2>4. Left \in 0 .. 253 /\ Left' = Left
    BY <1>1, <2>1, <2>2, LoadEntry, RequestKept DEF Loading, Sending
  <2>5. pp_state' = "LOAD_KEY_WORDS" /\ pp_msg_len' = Left + 2
    BY <1>1, <2>2, <2>3, <2>4, WordTaken
  <2> QED
    BY <1>3, <2>1, <2>4, <2>5
<1>11. ASSUME srot_state \in {"KL_LOAD_KEY_WORD", "KL_LOAD_KEY_WORD_WAIT_FOR_ACK"},
              NEW w, Asked(Write(w)), Receiving(Left + 2), llkid_key_ready, IsLoad,
              srot_state' = "KL_LOAD_KEY_WORD_WAIT_FOR_ACK", host' = NoAccess, msg' = msg,
              UNCHANGED <<current_pointer, keyindexram_b_addr>>
       PROVE  StepInv'
  <2>1. Left \in 0 .. 253 /\ Left' = Left
    BY <1>1, <1>11, LoadEntry, RequestKept DEF Loading
  <2>2. KlAnswer' = LLKI_MID_KLLOADKEYACK
    BY <1>11 DEF KlAnswer, IsLoad, LLKI_MID_C2LOADKEYREQ, LLKI_MID_C2CLEARKEYREQ
  <2>3. CASE a = NoAccess
    <3>1. fab_rsp' = None
      BY <1>11, <2>3, FabricStep
    <3>2. pp_state' = "LOAD_KEY_WORDS" /\ pp_msg_len' = Left + 2
      BY <1>1, <1>11, <2>1, <2>3, WordTaken
    <3> QED
      BY <1>11, <2>1, <3>1, <3>2 DEF StepInv, Resting, Sending, Asking, Receiving, Answered
  <2>4. CASE a # NoAccess
    <3>1. a = Write(w) /\ fab_req' = <<>> /\ fab_rsp' = WriteAck
      BY <1>11, <2>4, FabricStep
    <3>2. IF Left = 0 THEN pp_state' = "RESPONSE" /\ pp_msg_id' = LLKI_MID_KLLOADKEYACK
          ELSE pp_state' = "LOAD_KEY_WORDS" /\ pp_msg_len' = Left + 1
      BY <1>1, <1>11, <2>1, <3>1, WordTaken
    <3>3. Answered'
      BY <1>11, <3>1, NotNone DEF Answered
    <3> QED
      BY <1>11, <2>1, <2>2, <3>2, <3>3
         DEF StepInv, Resting, Sending, Asking, Receiving, Finishing, Answering
  <2> QED
    BY <2>3, <2>4
<1>12. CASE SrotLoadKeyWord(gnt)
  <2>1. PICK w \in Word : Raised(Write(w))
    BY <1>1, <1>12 DEF SrotLoadKeyWord, BusInv
  <2>2. srot_state = "KL_LOAD_KEY_WORD" /\ gnt /\ ~Answered
    BY <1>12, <2>1 DEF SrotLoadKeyWord, Raised, Answered
  <2>3. Receiving(Left + 2) /\ llkid_key_ready /\ IsLoad
    BY <1>1, <2>2 DEF SyncInv, StepInv, ReadyInv, KeyInv, Sending
  <2> QED
    BY <1>11, <1>12, <2>1, <2>2, <2>3 DEF SrotLoadKeyWord, Asked
<1>13. CASE SrotLoadKeyWordWaitForAck(rsp)
  <2>1. srot_state = "KL_LOAD_KEY_WORD_WAIT_FOR_ACK" /\ IsLoad /\ host' = NoAccess /\ msg' = msg
        /\ keyindexram_b_addr' = keyindexram_b_addr
    BY <1>1, <1>13 DEF SrotLoadKeyWordWaitForAck, KeyInv
  <2>2. CASE ~Answered
    <3>1. PICK w \in Word : Carried(Write(w))
      BY <1>1, <2>1, <2>2 DEF BusInv
    <3>2. Asked(Write(w)) /\ Receiving(Left + 2) /\ llkid_key_ready
      BY <2>1, <2>2, <3>1 DEF SyncInv, StepInv, ReadyInv, Asked
    <3>3. rsp = None
      BY <3>2, FabricStep
    <3> QED
      BY <1>11, <1>13, <2>1, <3>2, <3>3 DEF SrotLoadKeyWordWaitForAck
  <2>3. CASE Answered
    <3>1. a = NoAccess /\ fab_req' = <<>> /\ (rsp = None => fab_rsp' = fab_rsp)
      BY <2>3, FabricStep DEF Answered
    <3>2. IF Left = 0 THEN Finishing(KlAnswer) ELSE Receiving(Left + 1)
      BY <2>1, <2>3 DEF SyncInv, StepInv
    <3>3. /\ Entry' = Entry /\ Left \in 0 .. 253 /\ (Left # 0 <=> current_pointer # Entry.high)
          /\ (Left # 0 => (current_pointer + 1) % PointerSpan = current_pointer + 1)
      BY <1>1, <2>1, LoadEntry DEF Loading
    <3>4. KlAnswer' = KlAnswer /\ IsLoad'
      BY <2>1 DEF KlAnswer, IsLoad
    <3>5. Left = 0 => Finishing(KlAnswer)'
      BY <1>1, <3>1, <3>2, <3>4, AnswerKept DEF Finishing, Answering
    <3>6. Left # 0 => pp_state' = "LOAD_KEY_WORDS" /\ pp_msg_len' = Left + 1
      BY <1>1, <3>1, <3>2, PpMoves DEF Receiving
    <3>7. CASE rsp = None
      <4>1. srot_state' = srot_state /\ current_pointer' = current_pointer /\ Answered'
        BY <1>13, <2>1, <2>3, <3>1, <3>7 DEF SrotLoadKeyWordWaitForAck, Answered
      <4>2. Left' = Left
        BY <3>3, <4>1 DEF Left
      <4> QED
        BY <2>1, <3>5, <3>6, <4>1, <4>2 DEF StepInv, Resting, Sending, Asking, Receiving
    <3>8. CASE rsp # None /\ Left = 0
      <4>1. srot_state' = "KL_READ_RESP_STATUS"
        BY <1>13, <3>3, <3>8 DEF SrotLoadKeyWordWaitForAck
      <4> QED
        BY <3>5, <3>8, <4>1 DEF StepInv, Resting, Sending, Asking
    <3>9. CASE rsp # None /\ Left # 0
      <4>1. srot_state' = "KL_READ_READY_STATUS" /\ current_pointer' = current_pointer + 1
        BY <1>13, <3>3, <3>9 DEF SrotLoadKeyWordWaitForAck
      <4>2. current_pointer \in Nat /\ Entry.high \in Nat
        BY <1>1, EntryTyped, SrotAssumption DEF TypeInv, StmTypes, IndexEntry
      <4>3. Left' + 2 = Left + 1
        BY <3>3, <4>1, <4>2 DEF Left
      <4> QED
        BY <1>3, <3>6, <3>9, <4>1, <4>3 DEF Sending
    <3> QED
      BY <3>7, <3>8, <3>9
  <2> QED
    BY <2>2, <2>3
<1>14. CASE SrotReadRespStatus(gnt, FALSE) \/ SrotRespWaitState(FALSE) \/ SrotCheckRespStatus(rsp)
  <2>1. srot_state \in Asking /\ msg' = msg /\ srot_state' \in Asking \cup {"KL_RESP_READ"}
    BY <1>14 DEF SrotReadRespStatus, SrotRespWaitState, SrotCheckRespStatus, WaitThenPoll, Asking
  <2>2. Finishing(KlAnswer) /\ KlAnswer' = KlAnswer
    BY <2>1 DEF SyncInv, StepInv, KlAnswer, IsLoad
  <2>3. ~IsWrite(a) /\ ~IsRead(a)
    BY <1>1, <2>1, FabricStep DEF BusInv, Asking, AwaitsBus
  <2>4. Finishing(KlAnswer)'
    BY <1>1, <2>2, <2>3, AnswerKept DEF Finishing, Answering
  <2>5. Shown => Shown'
    BY <1>1, <2>3, PpMoves DEF Shown
  <2>6. srot_state' = "KL_CHECK_RESP_STATUS" /\ Answered' /\ fab_rsp'.resp_waiting => Shown'
    <3> SUFFICES ASSUME srot_state' = "KL_CHECK_RESP_STATUS", Answered', fab_rsp'.resp_waiting
                 PROVE  Shown'
      OBVIOUS
    <3>1. CASE srot_state # "KL_CHECK_RESP_STATUS"
      <4>1. BusQuiet
        BY <1>1, <2>1, <3>1 DEF BusInv, Asking, AwaitsBus
      <4> QED
        BY <1>4, <4>1 DEF Answered
    <3>2. CASE srot_state = "KL_CHECK_RESP_STATUS" /\ Answered
      <4>1. fab_rsp' = fab_rsp
        BY <3>2, FabricStep DEF Answered
      <4> QED
        BY <2>5, <3>2, <4>1 DEF SyncInv, StepInv
    <3>3. CASE srot_state = "KL_CHECK_RESP_STATUS" /\ Asked(ReadCtrlSts)
      <4>1. fab_rsp' = pp_ctrlstatus
        BY <3>3, FabricStep DEF Answered
      <4>2. pp_state # "CLEAR_KEY"
        BY <1>1, <4>1 DEF PairInv, NoStaleResponseBit
      <4>3. Shown
        BY <1>1, <2>2, <4>1, <4>2 DEF PairSync, Shown, Finishing, Answering
      <4> QED
        BY <2>5, <4>3
    <3> QED
      BY <1>1, <3>1, <3>2, <3>3 DEF BusInv
  <2>7. srot_state' = "KL_RESP_READ" => Shown' /\ ~Answered'
    <3> SUFFICES ASSUME srot_state' = "KL_RESP_READ" PROVE Shown' /\ ~Answered'
      OBVIOUS
    <3>1. /\ srot_state = "KL_CHECK_RESP_STATUS" /\ rsp # None /\ rsp.resp_waiting
          /\ host' = ReadSendRecv
      BY <1>14, Accesses DEF SrotReadRespStatus, SrotRespWaitState, SrotCheckRespStatus,
                             WaitThenPoll
    <3>2. Answered /\ rsp = fab_rsp
      BY <1>1, <3>1, FabricStep DEF BusInv
    <3> QED
      BY <2>5, <3>1, <3>2 DEF SyncInv, StepInv, Answered
  <2> QED
    BY <2>1, <2>4, <2>6, <2>7 DEF StepInv, Resting, Sending, Asking
<1>15. CASE SrotRespRead(FALSE, rsp)
  <2>1. srot_state = "KL_RESP_READ" /\ host' = NoAccess
    BY <1>15 DEF SrotRespRead
  <2>2. CASE ~Answered
    <3>1. Asked(ReadSendRecv) /\ Finishing(KlAnswer) /\ Shown
      BY <1>1, <2>1, <2>2 DEF BusInv, SyncInv, StepInv
    <3>2. rsp = None
      BY <3>1, FabricStep
    <3>3. srot_state' = "KL_RESP_READ" /\ KlAnswer' = KlAnswer
      BY <1>15, <3>2 DEF SrotRespRead, KlAnswer, IsLoad
    <3>4. CASE a = NoAccess
      <4>1. fab_rsp' = None
        BY <3>1, <3>4, FabricStep
      <4>2. Finishing(KlAnswer)' /\ Shown'
        BY <1>1, <3>1, <3>3, <3>4, AnswerKept, PpMoves DEF Finishing, Answering, Shown
      <4> QED
        BY <3>3, <4>1, <4>2 DEF StepInv, Resting, Sending, Asking, Answered
    <3>5. CASE a # NoAccess
      <4>1. IsRead(a) /\ fab_req' = <<>> /\ fab_rsp' = pp_response_word
        BY <3>1, <3>5, FabricStep
      <4>2. pp_response_word.msg_id = KlAnswer /\ pp_response_word \in Word
        BY <1>1, <3>1 DEF PairInv, PairTypes, ResponseUp, Shown, Finishing, Answering
      <4>3. pp_state' = "IDLE"
        BY <1>1, <3>1, <4>1, PpMoves DEF Shown
      <4>4. Answered'
        BY <2>1, <4>1, <4>2, NotNone DEF Answered
      <4> QED
        BY <3>3, <4>1, <4>2, <4>3, <4>4 DEF StepInv, Resting, Sending, Asking
    <3> QED
      BY <3>4, <3>5
  <2>3. CASE Answered
    <3>1. /\ a = NoAccess /\ fab_req' = <<>> /\ (rsp = None => fab_rsp' = fab_rsp)
          /\ pp_state = "IDLE" /\ fab_rsp.msg_id = KlAnswer
      BY <2>1, <2>3, FabricStep DEF Answered, SyncInv, StepInv
    <3>2. pp_state' = "IDLE"
      BY <1>1, <3>1, PpMoves
    <3>3. CASE rsp = None
      <4>1. srot_state' = "KL_RESP_READ" /\ KlAnswer' = KlAnswer
        BY <1>15, <3>3 DEF SrotRespRead, KlAnswer, IsLoad
      <4> QED
        BY <2>1, <2>3, <3>1, <3>2, <3>3, <4>1
           DEF StepInv, Resting, Sending, Asking, Answered
    <3>4. CASE rsp # None
      <4>1. srot_state' = "C2_RESPONSE"
        BY <1>15, <3>4 DEF SrotRespRead
      <4> QED
        BY <1>2, <3>2, <4>1 DEF Resting
    <3> QED
      BY <3>3, <3>4
  <2> QED
    BY <2>2, <2>3
<1> QED
  BY <1>5, <1>6, <1>8, <1>9, <1>10, <1>12, <1>13, <1>14, <1>15 DEF Stm

(* A word is written to the LLKI-PP only by the states that load a word.    *)
LEMMA WritesWords ==
  ASSUME SyncInv, NEW gnt \in BOOLEAN, gnt = (fab_req = <<>>),
         NEW deliver \in BOOLEAN, NEW respond \in BOOLEAN,
         Fabric(gnt, deliver, respond), Stm(gnt, FALSE, Returned(respond)),
         IsWrite(Delivered(gnt, deliver)), pp_state = "LOAD_KEY_WORDS"
  PROVE  srot_state' = "KL_LOAD_KEY_WORD_WAIT_FOR_ACK" /\ Answered'
<1> DEFINE rsp == Returned(respond)
           a   == Delivered(gnt, deliver)
<1> USE Accesses, FabricStep
<1>1. BusInv /\ StepInv
  BY DEF SyncInv, PartsInv
<1>2. srot_state \in {"KL_LOAD_KEY_WORD", "KL_LOAD_KEY_WORD_WAIT_FOR_ACK"}
  <2>1. srot_state \in AwaitsBus
    BY <1>1 DEF BusInv
  <2>2. srot_state \notin {"KL_CHECK_READY_STATUS", "KL_CHECK_RESP_STATUS", "KL_RESP_READ"}
    BY <1>1 DEF BusInv
  <2>3. srot_state # "KL_REQ_ISSUE" /\ ~(srot_state = "KL_REQ_WAIT_FOR_ACK" /\ ~Answered)
    BY <1>1 DEF StepInv
  <2>4. ~Answered
    OBVIOUS
  <2> QED
    BY <2>1, <2>2, <2>3, <2>4 DEF AwaitsBus
<1>3. PICK w \in Word : Raised(Write(w)) \/ Carried(Write(w))
  BY <1>1, <1>2 DEF BusInv
<1>4. /\ rsp = None /\ fab_req' = <<>> /\ fab_rsp' = WriteAck
      /\ srot_state = "KL_LOAD_KEY_WORD" => gnt
  <2>1. Asked(Write(w))
    BY <1>3 DEF Asked
  <2>2. srot_state = "KL_LOAD_KEY_WORD" => fab_req = <<>>
    BY <1>1 DEF BusInv, Raised
  <2>3. Write(w) # NoAccess /\ IsWrite(a) /\ ~IsWrite(NoAccess)
    OBVIOUS
  <2>4. rsp = None /\ a = Write(w) /\ fab_req' = <<>> /\ fab_rsp' = RegisterValue(Write(w))
    BY <2>1, <2>3
  <2> QED
    BY <2>2, <2>4
<1>5. srot_state' = "KL_LOAD_KEY_WORD_WAIT_FOR_ACK" /\ host' = NoAccess
  <2>1. SrotLoadKeyWord(gnt) \/ SrotLoadKeyWordWaitForAck(rsp)
    BY <1>2 DEF Stm, SrotIdle, SrotMessageCheck, SrotRetrieveKeyIndex, SrotReqHeader,
           SrotReqIssue, SrotReqWaitForAck, SrotReadReadyStatus, SrotCheckReadyStatus,
           SrotReadyWaitState, SrotReadRespStatus, SrotCheckRespStatus, SrotRespWaitState,
           WaitThenPoll, SrotRespRead, SrotC2Response
  <2> QED
    BY <1>4, <2>1 DEF SrotLoadKeyWord, SrotLoadKeyWordWaitForAck, Advance
<1> QED
  BY <1>4, <1>5, NotNone DEF Answered

LEMMA ReadyStep ==
  ASSUME SyncInv, NEW acc,
         NEW gnt \in BOOLEAN, gnt = (fab_req = <<>>),
         NEW deliver \in BOOLEAN, NEW respond \in BOOLEAN,
         Fabric(gnt, deliver, respond), Memories(acc), Stm(gnt, FALSE, Returned(respond)),
         PairEdge(Delivered(gnt, deliver))
  PROVE  ReadyInv'
<1> DEFINE rsp == Returned(respond)
           a   == Delivered(gnt, deliver)
<1>1. BusInv /\ PairInv /\ PairSync /\ StepInv /\ ReadyInv /\ PpEdge(a) /\ TssEdge
  BY DEF SyncInv, PartsInv, PairEdge
<1>2. llkid_key_valid' => srot_state' = "KL_LOAD_KEY_WORD_WAIT_FOR_ACK" /\ Answered'
  BY <1>1, WordOffered, WritesWords
<1>3. llkid_key_ready /\ ~llkid_key_ready' =>
        \/ srot_state = "KL_LOAD_KEY_WORD_WAIT_FOR_ACK" /\ Answered
        \/ pp_state = "CLEAR_KEY"
  BY <1>1, ReadyFalls DEF ReadyInv
<1>4. pp_ctrlstatus'.ready_for_key /\ ~llkid_key_ready' =>
        \/ pp_state' = "CLEAR_KEY" \/ Answering(LLKI_MID_KLCLEARKEYACK)'
        \/ srot_state' \in {"KL_LOAD_KEY_WORD_WAIT_FOR_ACK", "KL_READ_READY_STATUS",
                            "KL_READ_RESP_STATUS"}
  <2> SUFFICES ASSUME pp_ctrlstatus'.ready_for_key, ~llkid_key_ready'
               PROVE  \/ pp_state' = "CLEAR_KEY" \/ Answering(LLKI_MID_KLCLEARKEYACK)'
                      \/ srot_state' \in {"KL_LOAD_KEY_WORD_WAIT_FOR_ACK",
                                          "KL_READ_READY_STATUS", "KL_READ_RESP_STATUS"}
    OBVIOUS
  <2>1. llkid_key_ready
    BY <1>1 DEF PpEdge, StatusLag
  <2>2. CASE srot_state = "KL_LOAD_KEY_WORD_WAIT_FOR_ACK"
    <3>1. SrotLoadKeyWordWaitForAck(rsp)
      BY <2>2 DEF Stm, SrotIdle, SrotMessageCheck, SrotRetrieveKeyIndex, SrotReqHeader,
           SrotReqIssue, SrotReqWaitForAck, SrotReadReadyStatus, SrotCheckReadyStatus,
           SrotReadyWaitState, SrotReadRespStatus, SrotCheckRespStatus, SrotRespWaitState,
           WaitThenPoll, SrotRespRead, SrotC2Response, SrotLoadKeyWord
    <3> QED
      BY <3>1 DEF SrotLoadKeyWordWaitForAck, Advance
  <2>3. CASE pp_state = "CLEAR_KEY"
    BY <1>1, <2>3 DEF PpEdge, PpIdle, PpMessageCheck, PpLoadKeyWords, PpClearKey, PpResponse,
                      Answer, Goto, Answering
  <2> QED
    BY <1>3, <2>1, <2>2, <2>3
<1>5. srot_state' = "KL_CHECK_READY_STATUS" /\ Answered' /\ fab_rsp'.ready_for_key =>
        llkid_key_ready'
  <2> SUFFICES ASSUME srot_state' = "KL_CHECK_READY_STATUS", Answered', fab_rsp'.ready_for_key
               PROVE  llkid_key_ready'
    OBVIOUS
  <2>1. SrotReadReadyStatus(gnt, FALSE) \/ SrotCheckReadyStatus(rsp)
    BY DEF Stm, SrotIdle, SrotMessageCheck, SrotRetrieveKeyIndex, SrotReqHeader,
           SrotReqIssue, SrotReqWaitForAck, SrotReadReadyStatus, SrotCheckReadyStatus,
           SrotReadyWaitState, SrotReadRespStatus, SrotCheckRespStatus, SrotRespWaitState,
           WaitThenPoll, SrotRespRead, SrotC2Response, SrotLoadKeyWord,
           SrotLoadKeyWordWaitForAck, Advance, Reject
  <2>2. srot_state = "KL_CHECK_READY_STATUS"
    <3> SUFFICES ASSUME SrotReadReadyStatus(gnt, FALSE) PROVE FALSE
      BY <2>1 DEF SrotCheckReadyStatus
    <3>1. BusQuiet
      BY <1>1 DEF SrotReadReadyStatus, BusInv, AwaitsBus
    <3> QED
      BY <3>1, FabricStep DEF Answered
  <2>3. pp_state = "LOAD_KEY_WORDS"
    BY <1>1, <2>2 DEF StepInv, Sending, Receiving
  <2>4. llkid_key_ready
    <3>1. CASE Answered
      <4>1. fab_rsp' = fab_rsp
        BY <3>1, FabricStep DEF Answered
      <4> QED
        BY <1>1, <2>2, <3>1, <4>1 DEF ReadyInv
    <3>2. CASE Asked(ReadCtrlSts)
      <4>1. fab_rsp' = pp_ctrlstatus
        BY <3>2, FabricStep, Accesses DEF Answered
      <4> QED
        BY <1>1, <2>2, <2>3, <4>1 DEF ReadyInv, Answering
    <3> QED
      BY <1>1, <2>2, <3>1, <3>2 DEF BusInv
  <2> QED
    BY <1>3, <2>2, <2>3, <2>4
<1>6. srot_state' \in {"KL_LOAD_KEY_WORD", "KL_LOAD_KEY_WORD_WAIT_FOR_ACK"} /\ ~Answered' =>
        llkid_key_ready'
  <2> SUFFICES ASSUME srot_state' \in {"KL_LOAD_KEY_WORD", "KL_LOAD_KEY_WORD_WAIT_FOR_ACK"},
                      ~Answered'
               PROVE  llkid_key_ready'
    OBVIOUS
  <2>1. SrotCheckReadyStatus(rsp) \/ SrotLoadKeyWord(gnt) \/ SrotLoadKeyWordWaitForAck(rsp)
    BY DEF Stm, SrotIdle, SrotMessageCheck, SrotRetrieveKeyIndex, SrotReqHeader,
           SrotReqIssue, SrotReqWaitForAck, SrotReadReadyStatus,
           SrotReadyWaitState, SrotReadRespStatus, SrotCheckRespStatus, SrotRespWaitState,
           WaitThenPoll, SrotRespRead, SrotC2Response, Advance, Reject
  <2>2. CASE SrotCheckReadyStatus(rsp)
    <3>1. srot_state = "KL_CHECK_READY_STATUS" /\ rsp # None /\ rsp.ready_for_key
      BY <2>2 DEF SrotCheckReadyStatus, Advance
    <3>2. Answered /\ rsp = fab_rsp
      BY <1>1, <3>1, FabricStep, Accesses DEF BusInv
    <3>3. llkid_key_ready /\ pp_state # "CLEAR_KEY"
      BY <1>1, <3>1, <3>2 DEF ReadyInv, StepInv, Sending, Receiving
    <3> QED
      BY <1>3, <3>1, <3>3
  <2>3. CASE SrotLoadKeyWord(gnt)
    <3>1. srot_state = "KL_LOAD_KEY_WORD"
      BY <2>3 DEF SrotLoadKeyWord
    <3>2. ~Answered /\ pp_state # "CLEAR_KEY"
      BY <1>1, <3>1 DEF BusInv, Raised, Answered, StepInv, Sending, Receiving
    <3> QED
      BY <1>1, <1>3, <3>1, <3>2 DEF ReadyInv
  <2>4. CASE SrotLoadKeyWordWaitForAck(rsp)
    <3>1. srot_state = "KL_LOAD_KEY_WORD_WAIT_FOR_ACK" /\ host' = NoAccess
          /\ (rsp # None => srot_state' \notin {"KL_LOAD_KEY_WORD", "KL_LOAD_KEY_WORD_WAIT_FOR_ACK"})
      BY <2>4 DEF SrotLoadKeyWordWaitForAck, Advance
    <3>2. ~Answered
      <4> SUFFICES ASSUME Answered PROVE FALSE
        OBVIOUS
      <4>1. fab_req' = <<>> /\ fab_rsp' = fab_rsp
        BY <3>1, FabricStep DEF Answered
      <4> QED
        BY <3>1, <4>1 DEF Answered
    <3>3. llkid_key_ready /\ pp_state # "CLEAR_KEY"
      BY <1>1, <3>1, <3>2 DEF ReadyInv, StepInv, Receiving
    <3> QED
      BY <1>3, <3>2, <3>3
  <2> QED
    BY <2>1, <2>2, <2>3, <2>4
<1> QED
  BY <1>2, <1>4, <1>5, <1>6 DEF ReadyInv
-----------------------------------------------------------------------------
LEMMA SyncInit == Init => SyncInv
<1> SUFFICES ASSUME Init PROVE SyncInv
  OBVIOUS
<1>1. PartsInv
  BY PartsInit
<1>2. RequestInv
  BY SrotAssumption DEF Init, SrotInit, DriverInit, RequestInv, NoLateWrite, Operational,
                        ShortEntry, InvalidEntry
<1>3. KeyInv
  BY DEF Init, SrotInit, KeyInv, Loading, Sending
<1>4. PairSync /\ StepInv /\ ReadyInv
  BY DEF Init, SrotInit, PpInit, TssInit, PairSync, StepInv, ReadyInv, Resting, Sending, Asking
<1> QED
  BY <1>1, <1>2, <1>3, <1>4 DEF SyncInv

LEMMA SyncStutter == SyncInv /\ UNCHANGED vars => SyncInv'
<1> SUFFICES ASSUME SyncInv, UNCHANGED vars PROVE SyncInv'
  OBVIOUS
<1> USE DEF vars, srotVars, stmVars, decodeVars, memVars, driverVars, fabricVars, pairVars, ppVars,
            tssVars, discreteWires, ppWires, tssWires
<1>1. PartsInv'
  BY PartsStutter DEF SyncInv
<1>2. RequestInv'
  BY DEF SyncInv, RequestInv, NoLateWrite, Operational
<1>3. Entry' = Entry
  BY DEF Entry
<1>4. KeyInv'
  BY <1>3 DEF SyncInv, KeyInv, InsideKey, IsLoad
<1>5. KlAnswer' = KlAnswer /\ KlRequest' = KlRequest /\ Left' = Left /\ IsLoad' = IsLoad
  BY <1>3 DEF KlAnswer, KlRequest, Left, IsLoad, Header
<1>6. StepInv'
  BY <1>5 DEF SyncInv, StepInv, Raised, Carried, Answered, Checking, Receiving, Finishing,
              Answering, Shown
<1>7. PairSync' /\ ReadyInv'
  BY DEF SyncInv, PairSync, ReadyInv, Answered, Answering
<1> QED
  BY <1>1, <1>2, <1>4, <1>6, <1>7 DEF SyncInv

LEMMA SyncStep ==
  ASSUME SyncInv, ShortKeys, ModeIsSet, FirstKeyOnly, NEW acc \in DriverAccesses,
         NEW gnt \in BOOLEAN, gnt = (fab_req = <<>>),
         NEW deliver \in BOOLEAN, NEW respond \in BOOLEAN,
         Cycle(acc, gnt, deliver, respond)
  PROVE  SyncInv'
<1>1. /\ Fabric(gnt, deliver, respond) /\ DriverStep(acc) /\ Ports(acc) /\ Memories(acc)
      /\ Stm(gnt, FALSE, Returned(respond)) /\ PairEdge(Delivered(gnt, deliver))
  BY DEF Cycle, Ports
<1>2. PartsInv /\ TypeInv /\ RequestInv /\ KeyInv /\ PairInv /\ PairSync
  BY DEF SyncInv, PartsInv
<1>3. PartsInv'
  BY <1>2, PartsStep
<1>4. RequestInv'
  BY <1>1, <1>2, RequestStep
<1>5. KeyInv'
  BY <1>1, <1>2, KeyStep
<1>6. PairSync'
  BY <1>1, <1>2, PairSyncStep
<1>7. StepInv' /\ ReadyInv'
  BY <1>1, StepStep, ReadyStep
<1> QED
  BY <1>3, <1>4, <1>5, <1>6, <1>7 DEF SyncInv

LEMMA SyncInvariant == ASSUME Disciplined PROVE Spec => []SyncInv
<1>1. SyncInv /\ [Next]_vars => SyncInv'
  BY StableGrants, SyncStep, SyncStutter DEF Next, Disciplined
<1> QED
  BY <1>1, SyncInit, PTL DEF Spec

LEMMA InSync == SyncInv => NoLossOfSync
<1> SUFFICES ASSUME SyncInv, Answering(LLKI_MID_KLERRORRESP) PROVE FALSE
  BY DEF NoLossOfSync, Answering
<1>1. /\ srot_state \in SrotStates /\ StepInv
  BY DEF SyncInv, PartsInv, TypeInv, StmTypes
<1>2. Finishing(KlAnswer)
  BY <1>1 DEF StepInv, SrotStates, Resting, Sending, Asking, Answering, Checking, Receiving,
              Finishing
<1> QED
  BY <1>2 DEF Finishing, Answering, KlAnswer, LLKI_MID_KLERRORRESP

(* The LLKI-PP never answers KLERRORRESP to the SRoT: whatever the length of*)
(* the key, the latency of the fabric and the load time of the TSS, a key   *)
(* word is written only when the TSS can take it.                           *)
THEOREM NeverOutOfSync == ASSUME Disciplined PROVE Spec => []NoLossOfSync
BY InSync, SyncInvariant, PTL
=============================================================================
