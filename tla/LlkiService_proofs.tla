-------------------------- MODULE LlkiService_proofs --------------------------
(***************************************************************************)
(* What the processor may rely on, for every program of setup writes, any  *)
(* window and any latency of the fabric: a load that is acknowledged has   *)
(* left its key in the TSS, the key status is true when it is told, and    *)
(* the whole LLKI is a KeyService.                                         *)
(***************************************************************************)
EXTENDS Llki_proofs

USE DEF LLKI_MID_KLLOADKEYREQ, LLKI_MID_KLCLEARKEYREQ, LLKI_MID_KLKEYSTATUSREQ,
        LLKI_MID_KLLOADKEYACK, LLKI_MID_KLCLEARKEYACK, LLKI_MID_KLKEYSTATUSRESP
-----------------------------------------------------------------------------
(* What the software programs.  Its writes to the RAMs count up to the first*)
(* one that sets a mode bit, and the last to an address wins.               *)
Usable(e) == e.valid /\ ~BadPointers(e)

LastWrite(i, n) == i \in 1 .. n /\ \A j \in i + 1 .. n : Setup[j].addr # Setup[i].addr

FirstMode(m) ==
  m \in DOMAIN Setup /\ SetsMode(Setup[m]) /\ \A k \in 1 .. m - 1 : ~SetsMode(Setup[k])

\* Every usable entry names a key of two words, and Keys says which they are.
TwoWordKeys ==
  \A m \in DOMAIN Setup, i \in DOMAIN Setup :
    /\ FirstMode(m) /\ LastWrite(i, m - 1)
    /\ InKeyIndexRam(Setup[i].addr) /\ Usable(Setup[i].data)
    => LET e == Setup[i].data
       IN  /\ e.high = e.low + 1
           /\ \E j, k \in 1 .. m - 1 :
                /\ LastWrite(j, m - 1) /\ Setup[j].addr = SROT_KEYRAM_ADDR + e.low
                /\ LastWrite(k, m - 1) /\ Setup[k].addr = SROT_KEYRAM_ADDR + e.high
                /\ Keys[Setup[i].addr - SROT_KEYINDEXRAM_ADDR] = <<Setup[j].data, Setup[k].data>>

\* The RAMs, with the write on its way, hold what the first n setup writes put there.
IndexProgrammed(n, ram) ==
  \A s \in IndexSlots : Usable(ram[s]) =>
    \E i \in 1 .. n : /\ LastWrite(i, n) /\ InKeyIndexRam(Setup[i].addr)
                      /\ Setup[i].addr = SROT_KEYINDEXRAM_ADDR + s /\ Setup[i].data = ram[s]

SlotsProgrammed(n, ram) ==
  \A i \in 1 .. n : LastWrite(i, n) /\ InKeyIndexRam(Setup[i].addr) =>
    ram[Setup[i].addr - SROT_KEYINDEXRAM_ADDR] = Setup[i].data

KeysProgrammed(n, ram) ==
  \A i \in 1 .. n : LastWrite(i, n) /\ InKeyRam(Setup[i].addr) =>
    ram[Setup[i].addr - SROT_KEYRAM_ADDR] = Setup[i].data

Programmed(n) ==
  /\ \A k \in 1 .. n : ~SetsMode(Setup[k])
  /\ IndexProgrammed(n, RamStep(keyindexram, "index"))
  /\ SlotsProgrammed(n, RamStep(keyindexram, "index"))
  /\ KeysProgrammed(n, RamStep(keyram, "key"))

ProgInv ==
  /\ ~Operational => Programmed(drv_setup)
  /\ Operational => \E m \in 1 .. drv_setup : FirstMode(m) /\ Programmed(m - 1)

(* One more setup write that is no mode write.                              *)
LEMMA WriteProgrammed ==
  ASSUME NEW n \in Nat, n + 1 \in DOMAIN Setup,
         NEW index \in [IndexSlots -> IndexEntry], IndexProgrammed(n, index),
         SlotsProgrammed(n, index),
         NEW keys \in [KeySlots -> Word], KeysProgrammed(n, keys),
         NEW index2, index2 = IF InKeyIndexRam(Setup[n + 1].addr)
           THEN [index EXCEPT ![Setup[n + 1].addr - SROT_KEYINDEXRAM_ADDR] = Setup[n + 1].data]
           ELSE index,
         NEW keys2, keys2 = IF InKeyRam(Setup[n + 1].addr)
           THEN [keys EXCEPT ![Setup[n + 1].addr - SROT_KEYRAM_ADDR] = Setup[n + 1].data]
           ELSE keys
  PROVE  /\ IndexProgrammed(n + 1, index2) /\ SlotsProgrammed(n + 1, index2)
         /\ KeysProgrammed(n + 1, keys2)
<1> DEFINE w == Setup[n + 1]
<1>1. w.addr \in Nat /\ \A i \in 1 .. n : Setup[i].addr \in Nat
  BY DriverAssumption
<1>2. LastWrite(n + 1, n + 1)
  BY DEF LastWrite
<1>3. \A i \in 1 .. n : LastWrite(i, n) /\ w.addr # Setup[i].addr => LastWrite(i, n + 1)
  BY DEF LastWrite
<1>4. \A i \in 1 .. n : LastWrite(i, n + 1) => LastWrite(i, n) /\ w.addr # Setup[i].addr
  BY DEF LastWrite
<1>5. IndexProgrammed(n + 1, index2)
  <2> SUFFICES ASSUME NEW s \in IndexSlots, Usable(index2[s])
               PROVE  \E i \in 1 .. n + 1 :
                        /\ LastWrite(i, n + 1) /\ InKeyIndexRam(Setup[i].addr)
                        /\ Setup[i].addr = SROT_KEYINDEXRAM_ADDR + s /\ Setup[i].data = index2[s]
    BY DEF IndexProgrammed
  <2>1. CASE InKeyIndexRam(w.addr) /\ w.addr = SROT_KEYINDEXRAM_ADDR + s
    <3>1. w.addr - SROT_KEYINDEXRAM_ADDR = s
      BY <2>1, SrotAssumption DEF IndexSlots
    <3>2. index2[s] = w.data
      BY <2>1, <3>1
    <3> QED
      BY <1>2, <2>1, <3>2
  <2>2. CASE ~(InKeyIndexRam(w.addr) /\ w.addr = SROT_KEYINDEXRAM_ADDR + s)
    <3>1. index2[s] = index[s]
      <4>1. InKeyIndexRam(w.addr) => w.addr - SROT_KEYINDEXRAM_ADDR # s
        <5>1. w.addr \in Nat /\ SROT_KEYINDEXRAM_ADDR \in Nat /\ s \in Int
          BY <1>1, SrotAssumption DEF IndexSlots
        <5> HIDE DEF w
        <5> QED
          BY <2>2, <5>1
      <4> QED
        BY <4>1
    <3>2. PICK i \in 1 .. n : /\ LastWrite(i, n) /\ InKeyIndexRam(Setup[i].addr)
                              /\ Setup[i].addr = SROT_KEYINDEXRAM_ADDR + s
                              /\ Setup[i].data = index[s]
      BY <3>1 DEF IndexProgrammed
    <3>3. LastWrite(i, n + 1)
      BY <1>3, <2>2, <3>2
    <3> QED
      BY <3>1, <3>2, <3>3
  <2> QED
    BY <2>1, <2>2
<1>6. KeysProgrammed(n + 1, keys2)
  <2> SUFFICES ASSUME NEW i \in 1 .. n + 1, LastWrite(i, n + 1), InKeyRam(Setup[i].addr)
               PROVE  keys2[Setup[i].addr - SROT_KEYRAM_ADDR] = Setup[i].data
    BY DEF KeysProgrammed
  <2>1. Setup[i].addr - SROT_KEYRAM_ADDR \in KeySlots
    <3>1. Setup[i].addr \in SROT_KEYRAM_ADDR .. SROT_KEYRAM_ADDR + SROT_KEYRAM_SIZE - 1
      BY DEF InKeyRam
    <3> HIDE DEF w
    <3> QED
      BY <3>1, SrotAssumption DEF KeySlots
  <2>2. CASE i = n + 1
    BY <2>1, <2>2
  <2>3. CASE i # n + 1
    <3>1. i \in 1 .. n /\ LastWrite(i, n) /\ w.addr # Setup[i].addr
      BY <1>4, <2>3
    <3>2. keys[Setup[i].addr - SROT_KEYRAM_ADDR] = Setup[i].data
      BY <3>1 DEF KeysProgrammed
    <3>3. w.addr - SROT_KEYRAM_ADDR # Setup[i].addr - SROT_KEYRAM_ADDR
      BY <1>1, <3>1, SrotAssumption
    <3> QED
      BY <3>2, <3>3, <2>1
  <2> QED
    BY <2>2, <2>3
<1>7. SlotsProgrammed(n + 1, index2)
  <2> SUFFICES ASSUME NEW i \in 1 .. n + 1, LastWrite(i, n + 1), InKeyIndexRam(Setup[i].addr)
               PROVE  index2[Setup[i].addr - SROT_KEYINDEXRAM_ADDR] = Setup[i].data
    BY DEF SlotsProgrammed
  <2>1. Setup[i].addr - SROT_KEYINDEXRAM_ADDR \in IndexSlots
    <3>1. Setup[i].addr \in SROT_KEYINDEXRAM_ADDR .. SROT_KEYINDEXRAM_ADDR + SROT_KEYINDEXRAM_SIZE - 1
      BY DEF InKeyIndexRam
    <3> HIDE DEF w
    <3> QED
      BY <3>1, SrotAssumption DEF IndexSlots
  <2>2. CASE i = n + 1
    BY <2>1, <2>2
  <2>3. CASE i # n + 1
    <3>1. i \in 1 .. n /\ LastWrite(i, n) /\ w.addr # Setup[i].addr
      BY <1>4, <2>3
    <3>2. index[Setup[i].addr - SROT_KEYINDEXRAM_ADDR] = Setup[i].data
      BY <3>1 DEF SlotsProgrammed
    <3>3. w.addr - SROT_KEYINDEXRAM_ADDR # Setup[i].addr - SROT_KEYINDEXRAM_ADDR
      BY <1>1, <3>1, SrotAssumption
    <3> QED
      BY <3>2, <3>3, <2>1
  <2> QED
    BY <2>2, <2>3
<1> QED
  BY <1>5, <1>6, <1>7

\* What is on its way into the RAMs, a cycle later.
LEMMA RamsMove ==
  ASSUME TypeInv, KeyTypes, NoLateWrite, NEW acc, Memories(acc)
  PROVE  /\ keyindexram' = RamStep(keyindexram, "index") /\ keyram' = RamStep(keyram, "key")
         /\ keyindexram' \in [IndexSlots -> IndexEntry] /\ keyram' \in [KeySlots -> Word]
         /\ Operational => RamStep(keyindexram, "index") = keyindexram
                           /\ RamStep(keyram, "key") = keyram
         /\ ram_w' = None => /\ RamStep(keyindexram, "index")' = RamStep(keyindexram, "index")
                             /\ RamStep(keyram, "key")' = RamStep(keyram, "key")
BY DEF Memories, RamStep, TypeInv, MemoryTypes, DecodeTypes, KeyTypes, NoLateWrite

LEMMA ProgStep ==
  ASSUME TypeInv, KeyTypes, RequestInv, ProgInv, ModeIsSet,
         NEW acc \in DriverAccesses, DriverStep(acc), Ports(acc)
  PROVE  ProgInv'
<1>1. Memories(acc) /\ NoLateWrite
  BY DEF Ports, RequestInv
<1>2. ASSUME ram_w' = None, NEW n, Programmed(n) PROVE Programmed(n)'
  BY <1>1, <1>2, RamsMove DEF Programmed, IndexProgrammed, SlotsProgrammed, KeysProgrammed
<1>3. drv_setup \in 0 .. Len(Setup) /\ drv_setup' >= drv_setup /\ drv_setup' \in Nat
  BY DriverAssumption DEF TypeInv, DriverTypes, DriverStep, DriverIdle, DriverSetup,
         DriverStrayWrite, DriverSend, DriverPoll, DriverReadMsg
<1>4. CASE Operational
  <2>1. Operational' /\ ram_w' = None
    BY <1>4 DEF Ports, WriteDecode, DecodeCtrlSts, DecodeRamWrite, Operational
  <2>2. PICK m \in 1 .. drv_setup : FirstMode(m) /\ Programmed(m - 1)
    BY <1>4 DEF ProgInv
  <2>3. m \in 1 .. drv_setup' /\ Programmed(m - 1)'
    BY <1>2, <1>3, <2>1, <2>2
  <2> QED
    BY <2>1, <2>2, <2>3 DEF ProgInv
<1>5. CASE ~Operational /\ DriverSetup(acc)
  <2>0. PICK n : n = drv_setup
    OBVIOUS
  <2>1. /\ n \in Nat /\ n + 1 \in DOMAIN Setup /\ acc = Setup[n + 1] /\ drv_setup' = n + 1
        /\ acc.op = "write" /\ acc.addr \in Nat
    <3>1. n \in 0 .. Len(Setup) /\ n # Len(Setup) /\ drv_setup' = n + 1 /\ acc = Setup[n + 1]
      BY <1>3, <1>5, <2>0 DEF DriverSetup, SetupDone
    <3>2. n + 1 \in 1 .. Len(Setup)
      <4>1. Len(Setup) \in Nat
        BY DriverAssumption
      <4>2. \A k \in Nat : \A i \in 0 .. k : i # k => i + 1 \in 1 .. k
        OBVIOUS
      <4>3. n \in 0 .. Len(Setup) /\ n # Len(Setup)
        BY <3>1
      <4> QED
        BY <4>1, <4>2, <4>3
    <3>3. n + 1 \in DOMAIN Setup
      <4>1. DOMAIN Setup = 1 .. Len(Setup)
        BY DriverAssumption
      <4> QED
        BY <3>2, <4>1
    <3>4. Setup[n + 1].op = "write" /\ Setup[n + 1].addr \in Nat
      BY <3>3, DriverAssumption
    <3> QED
      BY <3>1, <3>3, <3>4
  <2>2. Programmed(n)
    BY <1>5, <2>0 DEF ProgInv
  <2>3. mode' = IF acc.addr = SROT_CTRLSTS_ADDR THEN mode \cup acc.data ELSE mode
    BY <2>1 DEF Ports, WriteDecode, DecodeCtrlSts
  <2>4. CASE SetsMode(acc)
    <3>1. Operational'
      BY <2>3, <2>4 DEF SetsMode, Operational
    <3>2. ram_w' = None
      BY <2>4, SrotAssumption DEF SetsMode, Ports, WriteDecode, DecodeRamWrite, InKeyRam,
                                  InKeyIndexRam, SROT_CTRLSTS_ADDR
    <3>3. FirstMode(n + 1) /\ n + 1 \in 1 .. drv_setup' /\ (n + 1) - 1 = n
      BY <2>1, <2>2, <2>4 DEF Programmed, FirstMode
    <3>4. Programmed(n)'
      BY <1>2, <2>2, <3>2
    <3> QED
      BY <3>1, <3>3, <3>4 DEF ProgInv
  <2>5. CASE ~SetsMode(acc)
    <3>1. ~Operational'
      BY <1>5, <2>3, <2>5 DEF SetsMode, Operational
    <3>2. \A k \in 1 .. n + 1 : ~SetsMode(Setup[k])
      BY <2>1, <2>2, <2>5 DEF Programmed
    <3>3. /\ RamStep(keyindexram, "index")' =
               IF InKeyIndexRam(acc.addr)
               THEN [keyindexram' EXCEPT ![acc.addr - SROT_KEYINDEXRAM_ADDR] = acc.data]
               ELSE keyindexram'
          /\ RamStep(keyram, "key")' =
               IF InKeyRam(acc.addr)
               THEN [keyram' EXCEPT ![acc.addr - SROT_KEYRAM_ADDR] = acc.data]
               ELSE keyram'
      BY <1>5, <2>1 DEF Ports, WriteDecode, DecodeRamWrite, RamStep, None, InKeyIndexRam
    <3>4. /\ IndexProgrammed(n, keyindexram') /\ SlotsProgrammed(n, keyindexram')
          /\ keyindexram' \in [IndexSlots -> IndexEntry]
          /\ KeysProgrammed(n, keyram') /\ keyram' \in [KeySlots -> Word]
      BY <1>1, <2>2, RamsMove DEF Programmed
    <3>5. /\ IndexProgrammed(n + 1, RamStep(keyindexram, "index")')
          /\ SlotsProgrammed(n + 1, RamStep(keyindexram, "index")')
          /\ KeysProgrammed(n + 1, RamStep(keyram, "key")')
      BY <2>1, <3>3, <3>4, WriteProgrammed
    <3>6. Programmed(n + 1)'
      BY <3>2, <3>5 DEF Programmed, IndexProgrammed, SlotsProgrammed, KeysProgrammed
    <3> QED
      BY <2>1, <3>1, <3>6 DEF ProgInv
  <2> QED
    BY <2>4, <2>5
<1>6. CASE ~Operational /\ ~DriverSetup(acc)
  <2>1. ~SetupDone
    BY <1>6, DriverAssumption DEF ModeIsSet, SetupDone, RequestInv
  <2>2. acc \in {NoAccess, PollStatus, ReadMsg} /\ drv_setup' = drv_setup
    BY <1>6, <2>1 DEF DriverStep, DriverIdle, DriverStrayWrite, DriverSend, DriverPoll,
                      DriverReadMsg
  <2>3. acc.op # "write"
    BY <2>2 DEF NoAccess, PollStatus, ReadMsg, RegRead
  <2>4. ram_w' = None /\ mode' = mode
    BY <2>3 DEF Ports, WriteDecode, DecodeRamWrite, DecodeCtrlSts
  <2>5. Programmed(drv_setup)
    BY <1>6 DEF ProgInv
  <2>6. Programmed(drv_setup)'
    <3>1. PICK n : n = drv_setup
      OBVIOUS
    <3>2. Programmed(n) /\ n = drv_setup'
      BY <2>2, <2>5, <3>1
    <3> QED
      BY <1>2, <2>4, <3>2
  <2> QED
    BY <1>6, <2>4, <2>6 DEF ProgInv, Operational
<1> QED
  BY <1>4, <1>5, <1>6

LEMMA ProgInit == Init => ProgInv
<1> SUFFICES ASSUME Init PROVE ProgInv
  OBVIOUS
<1>1. ~Operational /\ drv_setup = 0 /\ RamStep(keyindexram, "index") = keyindexram
  BY DEF Init, SrotInit, DriverInit, Operational, RamStep
<1>2. Programmed(0)
  BY <1>1 DEF Init, Programmed, IndexProgrammed, SlotsProgrammed, KeysProgrammed, Usable,
              InvalidEntry
<1> QED
  BY <1>1, <1>2 DEF ProgInv

(* Where the words of the key of a usable slot are.                         *)
LEMMA KeyWords ==
  ASSUME TypeInv, RequestInv, ProgInv, TwoWordKeys, Operational,
         NEW s \in IndexSlots, Usable(keyindexram[s])
  PROVE  /\ keyindexram[s].high = keyindexram[s].low + 1
         /\ Keys[s] = <<keyram[keyindexram[s].low], keyram[keyindexram[s].high]>>
<1> DEFINE e == keyindexram[s]
<1>1. RamStep(keyindexram, "index") = keyindexram /\ RamStep(keyram, "key") = keyram
  BY DEF RequestInv, NoLateWrite, RamStep
<1>2. PICK m \in 1 .. drv_setup : FirstMode(m) /\ Programmed(m - 1)
  BY DEF ProgInv
<1>3. IndexProgrammed(m - 1, keyindexram) /\ KeysProgrammed(m - 1, keyram)
  BY <1>1, <1>2 DEF Programmed
<1>4. PICK i \in 1 .. m - 1 : /\ LastWrite(i, m - 1) /\ InKeyIndexRam(Setup[i].addr)
                              /\ Setup[i].addr = SROT_KEYINDEXRAM_ADDR + s /\ Setup[i].data = e
  BY <1>3 DEF IndexProgrammed
<1>5. Setup[i].addr - SROT_KEYINDEXRAM_ADDR = s /\ i \in DOMAIN Setup
  BY <1>2, <1>4, SrotAssumption, DriverAssumption DEF IndexSlots, FirstMode
<1>6. /\ e.high = e.low + 1
      /\ \E j, k \in 1 .. m - 1 :
           /\ LastWrite(j, m - 1) /\ Setup[j].addr = SROT_KEYRAM_ADDR + e.low
           /\ LastWrite(k, m - 1) /\ Setup[k].addr = SROT_KEYRAM_ADDR + e.high
           /\ Keys[s] = <<Setup[j].data, Setup[k].data>>
  BY <1>2, <1>4, <1>5, SMTT(30) DEF TwoWordKeys, FirstMode
<1>7. PICK j, k \in 1 .. m - 1 :
           /\ LastWrite(j, m - 1) /\ Setup[j].addr = SROT_KEYRAM_ADDR + e.low
           /\ LastWrite(k, m - 1) /\ Setup[k].addr = SROT_KEYRAM_ADDR + e.high
           /\ Keys[s] = <<Setup[j].data, Setup[k].data>>
  BY <1>6
<1>8. e.low \in 0 .. SROT_KEYRAM_SIZE - 1 /\ e.high \in 0 .. SROT_KEYRAM_SIZE - 1
  <2>1. e \in IndexEntry /\ ~BadPointers(e)
    BY DEF TypeInv, MemoryTypes, Usable
  <2> HIDE DEF e
  <2> QED
    BY <2>1, SrotAssumption DEF IndexEntry, BadPointers
<1> HIDE DEF e
<1>9. ASSUME NEW l \in 1 .. m - 1, NEW p \in 0 .. SROT_KEYRAM_SIZE - 1,
             LastWrite(l, m - 1), Setup[l].addr = SROT_KEYRAM_ADDR + p
      PROVE  keyram[p] = Setup[l].data
  <2>1. InKeyRam(Setup[l].addr) /\ Setup[l].addr - SROT_KEYRAM_ADDR = p
    BY <1>9, SrotAssumption DEF InKeyRam
  <2> QED
    BY <1>3, <1>9, <2>1 DEF KeysProgrammed
<1>10. keyram[e.low] = Setup[j].data /\ keyram[e.high] = Setup[k].data
  BY <1>7, <1>8, <1>9
<1> QED
  BY <1>6, <1>7, <1>10 DEF e
-----------------------------------------------------------------------------
(* Where the words of the key are while a load goes on.                     *)
TheKey   == Keys[msg.key_index]
NextWord == TheKey[2 - Left]

\* The TSS waits for the first word, has been given it, has been given both.
Fresh == ~llkid_key_valid /\ tss_state \notin {"WAIT_STATE0", "KEY0_LOADED"}

Half ==
  \/ /\ llkid_key_valid /\ llkid_key_data = TheKey[1]
     /\ tss_state \in {"IDLE", "KEY1_LOADED"}
  \/ /\ ~llkid_key_valid /\ tss_key[1] = TheKey[1]
     /\ tss_state \in {"WAIT_STATE0", "KEY0_LOADED"}

Whole ==
  \/ /\ llkid_key_valid /\ llkid_key_data = TheKey[2]
     /\ tss_state = "KEY0_LOADED" /\ tss_key[1] = TheKey[1]
  \/ /\ ~llkid_key_valid /\ tss_key = TheKey
     /\ tss_state \in {"WAIT_STATE1", "KEY1_LOADED"}

\* The entry in use is the one the request names.
EntryHeld ==
  /\ srot_state \in Loading \cup {"RETRIEVE_KEY_INDEX"} => keyindexram_b_addr = msg.key_index
  /\ srot_state \in Loading /\ IsLoad => Entry.valid
  /\ srot_state \in {"KL_REQ_ISSUE", "KL_REQ_WAIT_FOR_ACK"} /\ IsLoad =>
       current_pointer = Entry.low

\* The word on the bus is the next of the key.
WordSent ==
  /\ srot_state = "KL_CHECK_READY_STATUS" /\ host = NoAccess => KeyWord = keyram[current_pointer]
  /\ srot_state \in {"KL_LOAD_KEY_WORD", "KL_LOAD_KEY_WORD_WAIT_FOR_ACK"} /\ ~Answered =>
       Asked(Write(NextWord))

\* The TSS has the words that were acknowledged, and the answer is to the request.
WordsHeld ==
  /\ \/ srot_state \in Sending
     \/ srot_state = "KL_LOAD_KEY_WORD_WAIT_FOR_ACK" /\ ~Answered
     => IF Left = 0 THEN Half ELSE Fresh
  /\ srot_state = "KL_LOAD_KEY_WORD_WAIT_FOR_ACK" /\ Answered =>
       IF Left = 0 THEN Whole ELSE Half
  /\ srot_state \in Asking \cup {"KL_RESP_READ"} /\ IsLoad => Whole
  /\ Reports(LLKI_MID_KLLOADKEYACK) =>
       /\ Whole /\ Current.msg_id = LLKI_MID_C2LOADKEYREQ
       /\ Current.key_index = msg.key_index
  /\ srot_state \notin Sending \cup {"KL_LOAD_KEY_WORD_WAIT_FOR_ACK"} => Fresh

LoadInv == SyncInv /\ OrderInv /\ ProgInv /\ EntryHeld /\ WordSent /\ WordsHeld

LEMMA EntryFlow ==
  ASSUME TypeInv, NEW gnt, NEW rsp, Stm(gnt, FALSE, rsp)
  PROVE  /\ srot_state' = "RETRIEVE_KEY_INDEX" =>
              msg' = msg /\ keyindexram_b_addr' = msg.key_index
         /\ srot_state' \in Loading =>
              msg' = msg /\ keyindexram_b_addr' = keyindexram_b_addr
         /\ srot_state = "RETRIEVE_KEY_INDEX" /\ srot_state' \in Loading => Entry.valid
         /\ srot_state' \in {"KL_REQ_ISSUE", "KL_REQ_WAIT_FOR_ACK"} =>
              /\ srot_state \in {"KL_REQ_HEADER", "KL_REQ_ISSUE", "KL_REQ_WAIT_FOR_ACK"}
              /\ current_pointer' = current_pointer
<1> USE DEF Loading, Advance, Reject
<1>1. CASE SrotIdle
  BY <1>1 DEF SrotIdle
<1>2. CASE SrotMessageCheck
  <2>1. msg.key_index \in Nat
    BY DEF TypeInv, StmTypes, C2Message
  <2>2. msg.key_index < SROT_KEYINDEXRAM_SIZE => msg.key_index % SROT_KEYINDEXRAM_SIZE = msg.key_index
    BY <2>1, ModSmall, SrotAssumption
  <2> QED
    BY <1>2, <2>2 DEF SrotMessageCheck
<1>3. CASE SrotRetrieveKeyIndex
  BY <1>3 DEF SrotRetrieveKeyIndex
<1>4. CASE SrotReqHeader \/ SrotReqIssue(gnt, FALSE)
  BY <1>4 DEF SrotReqHeader, SrotReqIssue
<1>5. CASE SrotReqWaitForAck(rsp)
  BY <1>5 DEF SrotReqWaitForAck
<1>6. CASE SrotReadReadyStatus(gnt, FALSE) \/ SrotCheckReadyStatus(rsp)
  BY <1>6 DEF SrotReadReadyStatus, SrotCheckReadyStatus
<1>7. CASE SrotReadyWaitState(FALSE) \/ SrotRespWaitState(FALSE)
  BY <1>7 DEF SrotReadyWaitState, SrotRespWaitState, WaitThenPoll
<1>8. CASE SrotLoadKeyWord(gnt) \/ SrotLoadKeyWordWaitForAck(rsp)
  BY <1>8 DEF SrotLoadKeyWord, SrotLoadKeyWordWaitForAck
<1>9. CASE SrotReadRespStatus(gnt, FALSE) \/ SrotCheckRespStatus(rsp)
  BY <1>9 DEF SrotReadRespStatus, SrotCheckRespStatus
<1>10. CASE SrotRespRead(FALSE, rsp) \/ SrotC2Response
  BY <1>10 DEF SrotRespRead, SrotC2Response
<1> QED
  BY <1>1, <1>2, <1>3, <1>4, <1>5, <1>6, <1>7, <1>8, <1>9, <1>10 DEF Stm

LEMMA EntryStep ==
  ASSUME TypeInv, RequestInv, KeyInv, EntryHeld, KeyInv', NEW acc, Memories(acc),
         NEW gnt, NEW rsp, Stm(gnt, FALSE, rsp)
  PROVE  EntryHeld'
<1>1. srot_state' \in Loading \cup {"RETRIEVE_KEY_INDEX"} => keyindexram_b_addr' = msg'.key_index
  BY Flow, EntryFlow DEF EntryHeld
<1>2. ASSUME srot_state' \in Loading, IsLoad'
      PROVE  /\ IsLoad
             /\ srot_state \in Loading => Entry' = Entry
             /\ Entry'.valid
  <2>1. /\ msg' = msg /\ keyindexram_b_addr' = keyindexram_b_addr
        /\ srot_state = "RETRIEVE_KEY_INDEX" \/ srot_state \in Loading
    BY <1>2, Flow, EntryFlow
  <2>2. IsLoad
    BY <1>2, <2>1 DEF IsLoad
  <2>3. CASE srot_state \in Loading
    BY <2>1, <2>2, <2>3, LoadEntry DEF EntryHeld
  <2>4. CASE srot_state = "RETRIEVE_KEY_INDEX"
    <3>1. Entry = keyindexram[keyindexram_b_addr] /\ Entry.valid /\ Operational /\ NoLateWrite
      BY <1>2, <2>2, <2>4, EntryFlow DEF KeyInv, RequestInv
    <3>2. Entry' = keyindexram[keyindexram_b_addr]
      BY <2>1, <3>1, SameEntry
    <3> QED
      BY <2>2, <2>4, <3>1, <3>2 DEF Loading
  <2> QED
    BY <2>1, <2>3, <2>4
<1>3. ASSUME srot_state' \in {"KL_REQ_ISSUE", "KL_REQ_WAIT_FOR_ACK"}, IsLoad'
      PROVE  current_pointer' = Entry'.low
  <2>1. /\ srot_state \in {"KL_REQ_HEADER", "KL_REQ_ISSUE", "KL_REQ_WAIT_FOR_ACK"}
        /\ current_pointer' = current_pointer
    BY <1>3, EntryFlow
  <2>2. IsLoad /\ Entry' = Entry
    BY <1>2, <1>3, <2>1 DEF Loading
  <2> QED
    BY <2>1, <2>2 DEF KeyInv, EntryHeld
<1> QED
  BY <1>1, <1>2, <1>3 DEF EntryHeld

(* A key has two words, and the one the load has reached is the next.       *)
LEMMA KeyPlace ==
  ASSUME TypeInv, RequestInv, KeyInv, ProgInv, TwoWordKeys, EntryHeld,
         IsLoad, srot_state \in Loading
  PROVE  /\ Left \in {0, 1} /\ (current_pointer = Entry.low => Left = 1)
         /\ TheKey = <<TheKey[1], TheKey[2]>>
         /\ keyram[current_pointer] = NextWord
<1> DEFINE s == keyindexram_b_addr
           e == keyindexram[s]
<1>1. Entry = e /\ ~BadPointers(e) /\ current_pointer \in e.low .. e.high
  BY DEF KeyInv, InsideKey
<1>2. Operational
  BY DEF RequestInv, Loading
<1>3. s \in IndexSlots /\ e \in IndexEntry /\ Usable(e)
  BY <1>1 DEF TypeInv, StmTypes, MemoryTypes, EntryHeld, Usable
<1>4. e.high = e.low + 1 /\ Keys[s] = <<keyram[e.low], keyram[e.high]>>
  BY <1>2, <1>3, KeyWords
<1>5. TheKey = Keys[s]
  BY DEF EntryHeld, TheKey
<1> HIDE DEF e, s
<1>6. /\ Left \in {0, 1} /\ (current_pointer = e.low => Left = 1)
      /\ (Left = 1 => current_pointer = e.low) /\ (Left = 0 => current_pointer = e.high)
  <2>1. e.low \in Nat /\ e.high \in Nat
    BY <1>3 DEF IndexEntry
  <2> QED
    BY <1>1, <1>4, <2>1 DEF Left
<1>7. TheKey[1] = keyram[e.low] /\ TheKey[2] = keyram[e.high] /\ TheKey = <<TheKey[1], TheKey[2]>>
  BY <1>4, <1>5
<1>8. keyram[current_pointer] = NextWord
  <2>1. CASE Left = 1
    BY <1>6, <1>7, <2>1 DEF NextWord
  <2>2. CASE Left = 0
    BY <1>6, <1>7, <2>2 DEF NextWord
  <2> QED
    BY <1>6, <2>1, <2>2
<1> QED
  BY <1>1, <1>6, <1>7, <1>8

\* What the load depends on stays while no word is acknowledged.
LEMMA PlaceKept ==
  ASSUME TypeInv, RequestInv, KeyInv, IsLoad, srot_state \in Loading, NEW acc, Memories(acc),
         msg' = msg, UNCHANGED <<current_pointer, keyindexram_b_addr>>
  PROVE  Left' = Left /\ NextWord' = NextWord /\ TheKey' = TheKey /\ Entry' = Entry
<1>1. Entry' = Entry
  BY LoadEntry
<1>2. Left' = Left
  BY <1>1 DEF Left
<1>3. TheKey' = TheKey
  BY DEF TheKey
<1> QED
  BY <1>1, <1>2, <1>3 DEF NextWord

LEMMA WordStep ==
  ASSUME LoadInv, TwoWordKeys, NEW acc, Memories(acc),
         NEW gnt \in BOOLEAN, gnt = (fab_req = <<>>),
         NEW deliver \in BOOLEAN, NEW respond \in BOOLEAN,
         Fabric(gnt, deliver, respond), Stm(gnt, FALSE, Returned(respond))
  PROVE  WordSent'
<1> DEFINE rsp == Returned(respond)
<1>1. TypeInv /\ RequestInv /\ KeyInv /\ BusInv /\ ProgInv /\ EntryHeld /\ WordSent
  BY DEF LoadInv, SyncInv, PartsInv
<1>2. ASSUME srot_state' = "KL_CHECK_READY_STATUS", host' = NoAccess
      PROVE  KeyWord' = keyram'[current_pointer']
  <2>1. srot_state = "KL_CHECK_READY_STATUS" /\ UNCHANGED <<current_pointer, keyram_b_addr>>
    BY <1>2, Accesses
       DEF Stm, SrotIdle, SrotMessageCheck, SrotRetrieveKeyIndex, SrotReqHeader, SrotReqIssue,
           SrotReqWaitForAck, SrotReadReadyStatus, SrotCheckReadyStatus, SrotReadyWaitState,
           SrotReadRespStatus, SrotCheckRespStatus, SrotRespWaitState, WaitThenPoll, SrotRespRead,
           SrotC2Response, SrotLoadKeyWord, SrotLoadKeyWordWaitForAck, Advance, Reject
  <2>2. /\ IsLoad /\ InsideKey /\ keyram_b_addr = current_pointer /\ Operational /\ NoLateWrite
    BY <1>1, <2>1 DEF KeyInv, RequestInv, Sending, Loading, InsideKey
  <2>3. keyram' = keyram /\ keyram_q' = keyram[keyram_b_addr]
    BY <2>2, FrozenStep DEF Memories
  <2> QED
    BY <2>1, <2>2, <2>3 DEF KeyWord
<1>3. ASSUME srot_state' \in {"KL_LOAD_KEY_WORD", "KL_LOAD_KEY_WORD_WAIT_FOR_ACK"}, ~Answered'
      PROVE  Asked(Write(NextWord))'
  <2>1. SrotCheckReadyStatus(rsp) \/ SrotLoadKeyWord(gnt) \/ SrotLoadKeyWordWaitForAck(rsp)
    BY <1>3 DEF Stm, SrotIdle, SrotMessageCheck, SrotRetrieveKeyIndex, SrotReqHeader,
           SrotReqIssue, SrotReqWaitForAck, SrotReadReadyStatus,
           SrotReadyWaitState, SrotReadRespStatus, SrotCheckRespStatus, SrotRespWaitState,
           WaitThenPoll, SrotRespRead, SrotC2Response, Advance, Reject
  <2>2. /\ srot_state \in {"KL_CHECK_READY_STATUS", "KL_LOAD_KEY_WORD",
                           "KL_LOAD_KEY_WORD_WAIT_FOR_ACK"}
        /\ msg' = msg /\ keyindexram_b_addr' = keyindexram_b_addr
        /\ srot_state \in Loading
    BY <2>1 DEF SrotCheckReadyStatus, SrotLoadKeyWord, SrotLoadKeyWordWaitForAck, Advance, Loading
  <2>3. IsLoad
    BY <1>1, <2>2 DEF KeyInv, Sending
  <2>4. current_pointer' = current_pointer => NextWord' = NextWord
    BY <1>1, <2>2, <2>3, PlaceKept
  <2>5. CASE srot_state = "KL_CHECK_READY_STATUS"
    <3>1. /\ rsp # None /\ host' = Write(KeyWord) /\ current_pointer' = current_pointer
      BY <1>3, <2>1, <2>5 DEF SrotCheckReadyStatus, SrotLoadKeyWord, SrotLoadKeyWordWaitForAck,
                              Advance
    <3>2. Answered
      BY <1>1, <2>5, <3>1, FabricStep, Accesses DEF BusInv
    <3>3. fab_req' = <<>> /\ fab_rsp' = None
      BY <3>1, <3>2, FabricStep DEF Answered
    <3>4. KeyWord = NextWord
      BY <1>1, <2>2, <2>3, <2>5, <3>2, KeyPlace DEF WordSent, Answered
    <3> QED
      BY <2>4, <3>1, <3>3, <3>4 DEF Asked, Raised
  <2>6. CASE srot_state # "KL_CHECK_READY_STATUS" /\ ~Answered
    <3>1. Asked(Write(NextWord))
      BY <1>1, <2>2, <2>6 DEF WordSent
    <3>2. PICK w : w = NextWord
      OBVIOUS
    <3>3. Asked(Write(w)) /\ rsp = None
      BY <3>1, <3>2, FabricStep, Accesses
    <3>4. srot_state = "KL_LOAD_KEY_WORD" => gnt
      BY <1>1 DEF BusInv, Raised
    <3>5. host' = NoAccess /\ current_pointer' = current_pointer
      BY <2>1, <2>6, <3>3, <3>4
         DEF SrotCheckReadyStatus, SrotLoadKeyWord, SrotLoadKeyWordWaitForAck, Advance
    <3>6. fab_req' = <<Write(w)>> /\ fab_rsp' = None
      BY <1>3, <3>3, <3>5, FabricStep, Accesses, NotNone DEF Answered
    <3> QED
      BY <2>4, <3>2, <3>5, <3>6 DEF Asked, Carried
  <2>7. CASE srot_state # "KL_CHECK_READY_STATUS" /\ Answered
    <3>1. srot_state = "KL_LOAD_KEY_WORD_WAIT_FOR_ACK"
      BY <1>1, <2>2, <2>7 DEF BusInv, Raised, Answered
    <3>2. rsp = None /\ host' = NoAccess
      BY <1>3, <2>1, <3>1
         DEF SrotCheckReadyStatus, SrotLoadKeyWord, SrotLoadKeyWordWaitForAck, Advance
    <3> QED
      BY <1>3, <2>7, <3>2, FabricStep DEF Answered
  <2> QED
    BY <2>5, <2>6, <2>7
<1> QED
  BY <1>2, <1>3 DEF WordSent

(* A clock edge that offers the TSS no word.                                *)
LEMMA NoWord ==
  ASSUME PairInv, PairSync, TssEdge, ~llkid_key_valid'
  PROVE  /\ Fresh => Fresh'
         /\ ~llkid_clear_key /\ TheKey' = TheKey =>
              /\ Half => Half'
              /\ Whole /\ TheKey = <<TheKey[1], TheKey[2]>> => Whole' /\ Fresh'
              /\ Whole /\ ~llkid_key_valid => Whole'
<1>1. Fresh => Fresh'
  BY DEF Fresh, TssEdge, TssIdle, TssWaitState0, TssKey0Loaded, TssWaitState1, TssKey1Loaded,
         TssClearKey, TssWaitState2, TssLoadDelay
<1> SUFFICES ASSUME ~llkid_clear_key, TheKey' = TheKey
             PROVE  /\ Half => Half'
                    /\ Whole /\ TheKey = <<TheKey[1], TheKey[2]>> => Whole' /\ Fresh'
                    /\ Whole /\ ~llkid_key_valid => Whole'
  BY <1>1
<1>2. tss_key \in Word \X Word
  BY DEF PairInv, PairTypes
<1>3. ASSUME Half PROVE Half'
  <2>1. CASE llkid_key_valid /\ llkid_key_data = TheKey[1] /\ tss_state = "IDLE"
    <3>1. TssIdle
      BY <2>1 DEF TssEdge, TssWaitState0, TssKey0Loaded, TssWaitState1, TssKey1Loaded,
         TssClearKey, TssWaitState2, TssLoadDelay
    <3>2. tss_state' = "WAIT_STATE0" /\ tss_key' = <<TheKey[1], ZeroWord>>
      BY <2>1, <3>1 DEF TssIdle
    <3> QED
      BY <3>2 DEF Half
  <2>2. CASE llkid_key_valid /\ llkid_key_data = TheKey[1] /\ tss_state = "KEY1_LOADED"
    <3>1. TssKey1Loaded
      BY <2>2 DEF TssEdge, TssIdle, TssWaitState0, TssKey0Loaded, TssWaitState1,
         TssClearKey, TssWaitState2, TssLoadDelay
    <3>2. tss_state' = "WAIT_STATE0" /\ tss_key' = [tss_key EXCEPT ![1] = TheKey[1]]
      BY <2>2, <3>1 DEF TssKey1Loaded
    <3> QED
      BY <1>2, <3>2 DEF Half
  <2>3. CASE /\ ~llkid_key_valid /\ tss_key[1] = TheKey[1]
             /\ tss_state \in {"WAIT_STATE0", "KEY0_LOADED"}
    BY <2>3 DEF Half, TssEdge, TssIdle, TssWaitState0, TssKey0Loaded, TssWaitState1,
         TssKey1Loaded, TssClearKey, TssWaitState2, TssLoadDelay
  <2> QED
    BY <1>3, <2>1, <2>2, <2>3 DEF Half
<1>4. Whole /\ ~llkid_key_valid => Whole' /\ Fresh'
  BY DEF Whole, Fresh, TssEdge, TssIdle, TssWaitState0, TssKey0Loaded, TssWaitState1,
         TssKey1Loaded, TssClearKey, TssWaitState2, TssLoadDelay
<1>5. ASSUME Whole, llkid_key_valid, TheKey = <<TheKey[1], TheKey[2]>>
      PROVE  Whole' /\ Fresh'
  <2>1. tss_state' = "WAIT_STATE1" /\ tss_key' = [tss_key EXCEPT ![2] = TheKey[2]]
    BY <1>5 DEF Whole, TssEdge, TssIdle, TssWaitState0, TssKey0Loaded, TssWaitState1,
         TssKey1Loaded, TssClearKey, TssWaitState2, TssLoadDelay
  <2>2. tss_key' = TheKey
    BY <1>2, <1>5, <2>1 DEF Whole
  <2> QED
    BY <2>1, <2>2 DEF Whole, Fresh
<1> QED
  BY <1>3, <1>4, <1>5

(* A clock edge at which the next word of a key is written to the LLKI-PP.  *)
LEMMA WordGiven ==
  ASSUME PairInv, PairSync, PpEdge(Write(NextWord)), TssEdge,
         pp_state = "LOAD_KEY_WORDS", llkid_key_ready, ~llkid_key_valid, TheKey' = TheKey
  PROVE  /\ Fresh /\ Left = 1 => Half'
         /\ Half /\ Left = 0 => Whole'
<1>1. llkid_key_valid' /\ llkid_key_data' = NextWord
  BY Accesses DEF PpEdge, PpIdle, PpMessageCheck, PpLoadKeyWords, PpClearKey, PpResponse, Discrete
<1>2. ~llkid_clear_key
  BY DEF PairInv, WiresHaveAReason, Answering
<1>3. tss_state \in {"IDLE", "KEY0_LOADED", "KEY1_LOADED"}
  BY DEF PairInv, PairTypes, TssStates, PairSync
<1>4. /\ tss_state' = tss_state
      /\ tss_state # "IDLE" => tss_key' = tss_key
  BY <1>2, <1>3 DEF TssEdge, TssIdle, TssWaitState0, TssKey0Loaded, TssWaitState1, TssKey1Loaded,
         TssClearKey, TssWaitState2, TssLoadDelay
<1>5. ASSUME Left = 1 PROVE NextWord = TheKey[1]
  BY <1>5 DEF NextWord
<1>6. ASSUME Left = 0 PROVE NextWord = TheKey[2]
  BY <1>6 DEF NextWord
<1> QED
  BY <1>1, <1>3, <1>4, <1>5, <1>6 DEF Fresh, Half, Whole

LEMMA LoadFlow ==
  ASSUME TypeInv, NEW gnt, NEW rsp, Stm(gnt, FALSE, rsp)
  PROVE  /\ srot_state' = "KL_LOAD_KEY_WORD_WAIT_FOR_ACK" =>
              srot_state \in {"KL_LOAD_KEY_WORD", "KL_LOAD_KEY_WORD_WAIT_FOR_ACK"}
         /\ srot_state' \in Sending =>
              \/ srot_state \in Sending \cup {"KL_LOAD_KEY_WORD_WAIT_FOR_ACK"}
              \/ /\ srot_state = "KL_REQ_WAIT_FOR_ACK" /\ IsLoad /\ msg' = msg
                 /\ UNCHANGED <<current_pointer, keyindexram_b_addr>>
         /\ srot_state' \in Asking \cup {"KL_RESP_READ"} =>
              /\ msg' = msg
              /\ \/ srot_state \in Asking \cup {"KL_RESP_READ", "KL_LOAD_KEY_WORD_WAIT_FOR_ACK"}
                 \/ srot_state = "KL_REQ_WAIT_FOR_ACK" /\ ~IsLoad
         /\ srot_state \in Sending /\ (srot_state = "KL_LOAD_KEY_WORD" => gnt) =>
              /\ msg' = msg /\ UNCHANGED <<current_pointer, keyindexram_b_addr>>
              /\ IF srot_state = "KL_LOAD_KEY_WORD"
                 THEN srot_state' = "KL_LOAD_KEY_WORD_WAIT_FOR_ACK" ELSE srot_state' \in Sending
         /\ srot_state' = "C2_RESPONSE" =>
              \/ msg'.status \notin GoodStatus
              \/ /\ srot_state = "KL_RESP_READ" /\ rsp # None
                 /\ msg' = [msg EXCEPT !.msg_id = rsp.msg_id, !.status = rsp.status,
                                       !.msg_len = rsp.msg_len]
<1> USE DEF Sending, Asking, Advance
<1>0. ASSUME NEW st \in {LLKI_STATUS_KEY_INDX_EXCEED, LLKI_STATUS_BAD_MSG_LEN,
                         LLKI_STATUS_BAD_MSG_ID, LLKI_STATUS_KEY_INDEX_INVALID,
                         LLKI_STATUS_BAD_POINTER_PAIR, LLKI_STATUS_BAD_CORE_INDEX},
             Reject(st)
      PROVE  srot_state' = "C2_RESPONSE" /\ msg'.status \notin GoodStatus
  <2>1. st \notin GoodStatus
    BY DEF GoodStatus, LLKI_STATUS_GOOD, LLKI_STATUS_KEY_PRESENT, LLKI_STATUS_KEY_NOT_PRESENT,
           LLKI_STATUS_KEY_INDX_EXCEED, LLKI_STATUS_BAD_MSG_LEN, LLKI_STATUS_BAD_MSG_ID,
           LLKI_STATUS_KEY_INDEX_INVALID, LLKI_STATUS_BAD_POINTER_PAIR,
           LLKI_STATUS_BAD_CORE_INDEX
  <2> QED
    BY <1>0, <2>1 DEF Reject, TypeInv, StmTypes, C2Message
<1>1. CASE SrotIdle \/ SrotC2Response
  BY <1>1 DEF SrotIdle, SrotC2Response
<1>2. CASE SrotMessageCheck
  BY <1>0, <1>2 DEF SrotMessageCheck
<1>3. CASE SrotRetrieveKeyIndex
  BY <1>0, <1>3 DEF SrotRetrieveKeyIndex
<1>4. CASE SrotReqHeader \/ SrotReqIssue(gnt, FALSE)
  BY <1>4 DEF SrotReqHeader, SrotReqIssue
<1>5. CASE SrotReqWaitForAck(rsp)
  BY <1>5 DEF SrotReqWaitForAck, IsLoad
<1>6. CASE SrotReadReadyStatus(gnt, FALSE) \/ SrotCheckReadyStatus(rsp)
  BY <1>6 DEF SrotReadReadyStatus, SrotCheckReadyStatus
<1>7. CASE SrotReadyWaitState(FALSE) \/ SrotRespWaitState(FALSE)
  BY <1>7 DEF SrotReadyWaitState, SrotRespWaitState, WaitThenPoll
<1>8. CASE SrotLoadKeyWord(gnt) \/ SrotLoadKeyWordWaitForAck(rsp)
  BY <1>8 DEF SrotLoadKeyWord, SrotLoadKeyWordWaitForAck
<1>9. CASE SrotReadRespStatus(gnt, FALSE) \/ SrotCheckRespStatus(rsp)
  BY <1>9 DEF SrotReadRespStatus, SrotCheckRespStatus
<1>10. CASE SrotRespRead(FALSE, rsp)
  BY <1>10 DEF SrotRespRead
<1> QED
  BY <1>1, <1>2, <1>3, <1>4, <1>5, <1>6, <1>7, <1>8, <1>9, <1>10 DEF Stm

LEMMA HeldStep ==
  ASSUME LoadInv, TwoWordKeys, SyncInv',
         srot_state # "IDLE" /\ srot_state' # "IDLE" => Current' = Current,
         NEW acc, Memories(acc),
         NEW gnt \in BOOLEAN, gnt = (fab_req = <<>>),
         NEW deliver \in BOOLEAN, NEW respond \in BOOLEAN,
         Fabric(gnt, deliver, respond), Stm(gnt, FALSE, Returned(respond)),
         PairEdge(Delivered(gnt, deliver))
  PROVE  WordsHeld'
<1> DEFINE rsp == Returned(respond)
           a   == Delivered(gnt, deliver)
           Wait == "KL_LOAD_KEY_WORD_WAIT_FOR_ACK"
<1>1. /\ TypeInv /\ RequestInv /\ KeyInv /\ BusInv /\ ProgInv /\ EntryHeld /\ WordSent
      /\ PairInv /\ PairSync /\ StepInv /\ ReadyInv /\ WordsHeld /\ QueueInv
      /\ PpEdge(a) /\ TssEdge
  BY DEF LoadInv, SyncInv, PartsInv, OrderInv, PairEdge
<1>2. llkid_key_valid' => srot_state' = Wait /\ Answered'
  BY DEF SyncInv, ReadyInv
<1>3. ASSUME srot_state \in Sending \cup {Wait} \/ (srot_state \in Asking /\ IsLoad)
      PROVE  ~llkid_clear_key
  <2>1. pp_state = "LOAD_KEY_WORDS" \/ Answering(LLKI_MID_KLLOADKEYACK)
    <3>1. IsLoad => KlAnswer = LLKI_MID_KLLOADKEYACK
      BY DEF KlAnswer, IsLoad, LLKI_MID_C2LOADKEYREQ, LLKI_MID_C2CLEARKEYREQ
    <3>2. IsLoad
      BY <1>1, <1>3 DEF KeyInv
    <3> QED
      BY <1>1, <1>3, <3>1, <3>2 DEF StepInv, Finishing, Receiving
  <2> QED
    BY <1>1, <2>1 DEF PairInv, WiresHaveAReason, Answering
<1>4. CASE srot_state \notin Sending \cup {Wait}
  <2>1. srot_state' # Wait /\ ~llkid_key_valid' /\ ~llkid_key_valid
    BY <1>1, <1>2, <1>4, LoadFlow DEF Sending, ReadyInv
  <2>2. Fresh /\ Fresh'
    BY <1>1, <1>4, <2>1, NoWord DEF WordsHeld
  <2>3. srot_state' \in Sending => Left' # 0
    <3> SUFFICES ASSUME srot_state' \in Sending PROVE Left' # 0
      OBVIOUS
    <3>1. /\ srot_state = "KL_REQ_WAIT_FOR_ACK" /\ IsLoad /\ msg' = msg
          /\ UNCHANGED <<current_pointer, keyindexram_b_addr>>
      BY <1>1, <1>4, LoadFlow
    <3>2. Left = 1
      BY <1>1, <3>1, KeyPlace DEF EntryHeld, Loading
    <3> QED
      BY <1>1, <3>1, <3>2, PlaceKept DEF Loading
  <2>4. srot_state' \in Asking \cup {"KL_RESP_READ"} /\ IsLoad' => Whole'
    <3> SUFFICES ASSUME srot_state' \in Asking \cup {"KL_RESP_READ"}, IsLoad' PROVE Whole'
      OBVIOUS
    <3>1. msg' = msg /\ IsLoad /\ srot_state \in Asking \cup {"KL_RESP_READ"}
      BY <1>1, <1>4, LoadFlow DEF IsLoad
    <3>2. Whole /\ TheKey' = TheKey
      BY <1>1, <3>1 DEF WordsHeld, TheKey
    <3>3. ~llkid_clear_key
      <4>1. CASE srot_state \in Asking
        BY <1>3, <3>1, <4>1
      <4>2. CASE srot_state = "KL_RESP_READ"
        <5>1. IsLoad => KlAnswer = LLKI_MID_KLLOADKEYACK
          BY DEF KlAnswer, IsLoad, LLKI_MID_C2LOADKEYREQ, LLKI_MID_C2CLEARKEYREQ
        <5>2. pp_state = "IDLE" \/ Answering(LLKI_MID_KLLOADKEYACK)
          BY <1>1, <3>1, <4>2, <5>1 DEF StepInv, Finishing
        <5> QED
          BY <1>1, <5>2 DEF PairInv, WiresHaveAReason, Answering
      <4> QED
        BY <3>1, <4>1, <4>2
    <3> QED
      BY <1>1, <2>1, <3>2, <3>3, NoWord
  <2>5. Reports(LLKI_MID_KLLOADKEYACK)' =>
          /\ Whole' /\ Current'.msg_id = LLKI_MID_C2LOADKEYREQ
          /\ Current'.key_index = msg'.key_index
    <3> SUFFICES ASSUME Reports(LLKI_MID_KLLOADKEYACK)'
                 PROVE  /\ Whole' /\ Current'.msg_id = LLKI_MID_C2LOADKEYREQ
                        /\ Current'.key_index = msg'.key_index
      OBVIOUS
    <3>1. /\ srot_state = "KL_RESP_READ" /\ rsp # None
          /\ msg' = [msg EXCEPT !.msg_id = rsp.msg_id, !.status = rsp.status,
                                !.msg_len = rsp.msg_len]
          /\ srot_state' = "C2_RESPONSE"
      BY <1>1, LoadFlow DEF Reports
    <3>2. Answered /\ rsp = fab_rsp
      BY <1>1, <3>1, FabricStep, Accesses DEF BusInv
    <3>3. pp_state = "IDLE" /\ KlAnswer = LLKI_MID_KLLOADKEYACK /\ msg'.key_index = msg.key_index
      BY <1>1, <3>1, <3>2 DEF StepInv, Reports, TypeInv, StmTypes, C2Message
    <3>4. IsLoad /\ ~llkid_clear_key
      BY <1>1, <3>3 DEF KlAnswer, PairInv, WiresHaveAReason, Answering
    <3>5. Whole /\ TheKey' = TheKey
      BY <1>1, <3>1, <3>3, <3>4 DEF WordsHeld, TheKey
    <3>6. Whole'
      BY <1>1, <2>1, <3>4, <3>5, NoWord
    <3>7. Current' = Current
      BY <3>1
    <3>8. Current.msg_id = msg.msg_id /\ Current.key_index = msg.key_index
      BY <1>1, <3>1 DEF QueueInv, Deciding, SrotStates
    <3> QED
      BY <3>3, <3>4, <3>6, <3>7, <3>8 DEF IsLoad
  <2> QED
    BY <2>1, <2>2, <2>3, <2>4, <2>5 DEF WordsHeld
<1>5. ASSUME srot_state' \in Sending \cup {Wait} PROVE ~Reports(LLKI_MID_KLLOADKEYACK)'
  BY <1>5 DEF Reports, Sending
<1>6. CASE srot_state \in Sending \cup {Wait} /\ ~Answered
  <2>1. /\ IsLoad /\ srot_state \in Loading /\ (srot_state = "KL_LOAD_KEY_WORD" => gnt)
        /\ ~llkid_clear_key /\ ~llkid_key_valid
        /\ IF Left = 0 THEN Half ELSE Fresh
    BY <1>1, <1>3, <1>6 DEF KeyInv, Loading, Sending, BusInv, Raised, ReadyInv, WordsHeld
  <2>2. srot_state \in {"KL_LOAD_KEY_WORD", Wait} => rsp = None
    <3>1. PICK w : w = NextWord
      OBVIOUS
    <3> QED
      BY <1>1, <1>6, <3>1, FabricStep, Accesses DEF WordSent
  <2>3. /\ msg' = msg /\ UNCHANGED <<current_pointer, keyindexram_b_addr>>
        /\ IF srot_state \in {"KL_LOAD_KEY_WORD", Wait} THEN srot_state' = Wait
           ELSE srot_state' \in Sending
    <3>1. CASE srot_state = Wait
      <4>1. SrotLoadKeyWordWaitForAck(rsp)
        BY <3>1 DEF Stm, SrotIdle, SrotMessageCheck, SrotRetrieveKeyIndex, SrotReqHeader,
             SrotReqIssue, SrotReqWaitForAck, SrotReadReadyStatus, SrotCheckReadyStatus,
             SrotReadyWaitState, SrotReadRespStatus, SrotCheckRespStatus, SrotRespWaitState,
             WaitThenPoll, SrotRespRead, SrotC2Response, SrotLoadKeyWord
      <4> QED
        BY <2>2, <3>1, <4>1 DEF SrotLoadKeyWordWaitForAck, Advance
    <3>2. CASE srot_state # Wait
      BY <1>1, <1>6, <2>1, <3>2, LoadFlow
    <3> QED
      BY <3>1, <3>2
  <2>4. Left \in {0, 1} /\ Left' = Left /\ TheKey' = TheKey
        /\ TheKey = <<TheKey[1], TheKey[2]>>
    BY <1>1, <2>1, <2>3, KeyPlace, PlaceKept
  <2>5. CASE ~llkid_key_valid'
    <3>1. IF Left = 0 THEN Half' ELSE Fresh'
      BY <1>1, <2>1, <2>4, <2>5, NoWord
    <3>2. srot_state' = Wait => ~Answered'
      <4> SUFFICES ASSUME srot_state' = Wait, Answered' PROVE FALSE
        OBVIOUS
      <4>1. srot_state \in {"KL_LOAD_KEY_WORD", Wait}
        BY <2>3 DEF Sending
      <4>2. PICK w : w = NextWord
        OBVIOUS
      <4>3. Asked(Write(w))
        BY <1>1, <1>6, <4>1, <4>2 DEF WordSent
      <4>4. a = Write(w)
        BY <4>3, FabricStep, Accesses DEF Answered
      <4>5. pp_state = "LOAD_KEY_WORDS" /\ llkid_key_ready
        BY <1>1, <1>6, <4>1 DEF StepInv, ReadyInv, Sending, Receiving
      <4>6. llkid_key_valid'
        BY <1>1, <4>4, <4>5, Accesses
           DEF PpEdge, PpIdle, PpMessageCheck, PpLoadKeyWords, PpClearKey, PpResponse, Discrete
      <4> QED
        BY <2>5, <4>6
    <3> QED
      BY <1>5, <2>3, <2>4, <3>1, <3>2 DEF WordsHeld, Sending, Asking
  <2>6. CASE llkid_key_valid'
    <3>1. srot_state' = Wait /\ Answered' /\ srot_state \in {"KL_LOAD_KEY_WORD", Wait}
      BY <1>2, <2>3, <2>6 DEF Sending
    <3>2. PICK w : w = NextWord
      OBVIOUS
    <3>3. Asked(Write(w))
      BY <1>1, <1>6, <3>1, <3>2 DEF WordSent
    <3>4. a = Write(NextWord)
      BY <3>1, <3>2, <3>3, FabricStep, Accesses DEF Answered
    <3>5. pp_state = "LOAD_KEY_WORDS" /\ llkid_key_ready
      BY <1>1, <1>6, <3>1 DEF StepInv, ReadyInv, Sending, Receiving
    <3>6. IF Left = 0 THEN Whole' ELSE Half'
      BY <1>1, <2>1, <2>4, <3>4, <3>5, WordGiven
    <3> QED
      BY <1>5, <2>4, <3>1, <3>6 DEF WordsHeld, Sending, Asking
  <2> QED
    BY <2>5, <2>6
<1>7. CASE srot_state \in Sending \cup {Wait} /\ Answered /\ srot_state # Wait
  <2>1. /\ IsLoad /\ srot_state \in Loading /\ srot_state # "KL_LOAD_KEY_WORD"
        /\ ~llkid_clear_key
        /\ IF Left = 0 THEN Half ELSE Fresh
    BY <1>1, <1>3, <1>7 DEF KeyInv, Loading, Sending, BusInv, Raised, Answered, WordsHeld
  <2>2. /\ msg' = msg /\ UNCHANGED <<current_pointer, keyindexram_b_addr>>
        /\ srot_state' \in Sending
    BY <1>1, <1>7, <2>1, LoadFlow
  <2>3. Left' = Left /\ TheKey' = TheKey
    BY <1>1, <2>1, <2>2, PlaceKept
  <2>4. IF Left = 0 THEN Half' ELSE Fresh'
    BY <1>1, <1>2, <2>1, <2>2, <2>3, NoWord DEF Sending
  <2> QED
    BY <1>5, <2>2, <2>3, <2>4 DEF WordsHeld, Sending, Asking
<1>8. CASE srot_state = Wait /\ Answered
  <2>1. SrotLoadKeyWordWaitForAck(rsp)
    BY <1>8 DEF Stm, SrotIdle, SrotMessageCheck, SrotRetrieveKeyIndex, SrotReqHeader,
         SrotReqIssue, SrotReqWaitForAck, SrotReadReadyStatus, SrotCheckReadyStatus,
         SrotReadyWaitState, SrotReadRespStatus, SrotCheckRespStatus, SrotRespWaitState,
         WaitThenPoll, SrotRespRead, SrotC2Response, SrotLoadKeyWord
  <2>2. /\ msg' = msg /\ host' = NoAccess /\ keyindexram_b_addr' = keyindexram_b_addr
        /\ IsLoad /\ srot_state \in Loading /\ TheKey' = TheKey
    BY <1>1, <1>8, <2>1 DEF SrotLoadKeyWordWaitForAck, Advance, KeyInv, Loading, TheKey
  <2>3. /\ a = NoAccess /\ fab_req' = <<>> /\ (rsp = None => fab_rsp' = fab_rsp)
    BY <1>8, FabricStep DEF Answered
  <2>4. ~llkid_key_valid' /\ ~llkid_clear_key
    BY <1>1, <1>3, <1>8, <2>3, WordOffered, Accesses
  <2>5. /\ Left \in {0, 1} /\ TheKey = <<TheKey[1], TheKey[2]>>
        /\ Entry' = Entry /\ (Left # 0 <=> current_pointer # Entry.high)
        /\ (Left # 0 => (current_pointer + 1) % PointerSpan = current_pointer + 1)
    BY <1>1, <2>2, KeyPlace, LoadEntry
  <2>6. IF Left = 0 THEN Whole' /\ Fresh' ELSE Half'
    BY <1>1, <1>8, <2>2, <2>4, <2>5, NoWord DEF WordsHeld
  <2>7. CASE rsp = None
    <3>1. srot_state' = Wait /\ Answered' /\ current_pointer' = current_pointer
      BY <1>8, <2>1, <2>2, <2>3, <2>7 DEF SrotLoadKeyWordWaitForAck, Advance, Answered
    <3>2. Left' = Left
      BY <2>5, <3>1 DEF Left
    <3> QED
      BY <1>5, <2>6, <3>1, <3>2 DEF WordsHeld, Sending, Asking
  <2>8. CASE rsp # None /\ Left = 0
    <3>1. srot_state' = "KL_READ_RESP_STATUS"
      BY <2>1, <2>5, <2>8 DEF SrotLoadKeyWordWaitForAck, Advance
    <3> QED
      BY <2>6, <2>8, <3>1 DEF WordsHeld, Sending, Asking, Reports
  <2>9. CASE rsp # None /\ Left # 0
    <3>1. srot_state' = "KL_READ_READY_STATUS" /\ current_pointer' = current_pointer + 1
      BY <2>1, <2>5, <2>9 DEF SrotLoadKeyWordWaitForAck, Advance
    <3>2. current_pointer \in Nat /\ Entry.high \in Nat
      BY <1>1, EntryTyped, SrotAssumption DEF TypeInv, StmTypes, IndexEntry
    <3>3. Left' = 0
      BY <2>5, <2>9, <3>1, <3>2 DEF Left
    <3> QED
      BY <1>5, <2>6, <2>9, <3>1, <3>3 DEF WordsHeld, Sending, Asking
  <2> QED
    BY <2>7, <2>8, <2>9
<1> QED
  BY <1>4, <1>6, <1>7, <1>8
-----------------------------------------------------------------------------
LEMMA LoadInit == Init => LoadInv
<1> SUFFICES ASSUME Init PROVE LoadInv
  OBVIOUS
<1>1. SyncInv /\ OrderInv /\ ProgInv
  BY SyncInit, OrderInit, ProgInit DEF Init, Reset
<1>2. EntryHeld /\ WordSent /\ WordsHeld
  BY DEF Init, SrotInit, PpInit, TssInit, EntryHeld, WordSent, WordsHeld, Loading, Sending, Asking,
         Reports, Fresh
<1> QED
  BY <1>1, <1>2 DEF LoadInv

LEMMA LoadInvStutter == LoadInv /\ UNCHANGED vars => LoadInv'
<1> SUFFICES ASSUME LoadInv, UNCHANGED vars PROVE LoadInv'
  OBVIOUS
<1> USE DEF vars, srotVars, stmVars, decodeVars, memVars, driverVars, fabricVars, pairVars, ppVars,
            tssVars, discreteWires, ppWires, tssWires
<1>1. SyncInv' /\ OrderInv'
  BY SyncStutter, OrderStutter DEF LoadInv
<1>2. ProgInv'
  BY DEF LoadInv, ProgInv, Programmed, IndexProgrammed, SlotsProgrammed, KeysProgrammed, RamStep,
         Operational
<1>3. /\ Entry' = Entry /\ KeyWord' = KeyWord /\ TheKey' = TheKey /\ IsLoad' = IsLoad
      /\ Current' = Current
  BY DEF Entry, KeyWord, TheKey, IsLoad, Current, Responses
<1>4. Left' = Left /\ NextWord' = NextWord
  BY <1>3 DEF Left, NextWord
<1>5. EntryHeld' /\ WordSent'
  BY <1>3, <1>4 DEF LoadInv, EntryHeld, WordSent, Answered, Asked, Raised, Carried
<1>6. WordsHeld'
  BY <1>3, <1>4 DEF LoadInv, WordsHeld, Answered, Fresh, Half, Whole, Reports
<1> QED
  BY <1>1, <1>2, <1>5, <1>6 DEF LoadInv

LEMMA LoadInvStep ==
  ASSUME LoadInv, ShortKeys, ModeIsSet, FirstKeyOnly, TwoWordKeys, Window <= FIFO_DEPTH,
         NEW acc \in DriverAccesses,
         NEW gnt \in BOOLEAN, gnt = (fab_req = <<>>),
         NEW deliver \in BOOLEAN, NEW respond \in BOOLEAN,
         Cycle(acc, gnt, deliver, respond)
  PROVE  LoadInv'
<1>1. /\ Fabric(gnt, deliver, respond) /\ DriverStep(acc) /\ Ports(acc) /\ Memories(acc)
      /\ Stm(gnt, FALSE, Returned(respond)) /\ PairEdge(Delivered(gnt, deliver))
  BY DEF Cycle, Ports
<1>2. /\ TypeInv /\ KeyTypes /\ RequestInv /\ KeyInv /\ PairTypes /\ BusInv /\ EntryHeld
      /\ SyncInv /\ OrderInv /\ ProgInv
  BY DEF LoadInv, SyncInv, PartsInv, PairInv
<1>3. SyncInv'
  BY <1>2, SyncStep
<1>4. KeyInv'
  BY <1>3 DEF SyncInv
<1>5. OrderInv' /\ (srot_state # "IDLE" /\ srot_state' # "IDLE" => Current' = Current)
  BY <1>1, <1>2, Exchanged, QueueInvStep, ZenonT(60)
<1>6. ProgInv'
  BY <1>1, <1>2, ProgStep
<1>7. EntryHeld'
  BY <1>1, <1>2, <1>4, EntryStep
<1>8. WordSent'
  BY <1>1, WordStep
<1>9. WordsHeld'
  BY <1>1, <1>3, <1>5, HeldStep
<1> QED
  BY <1>3, <1>5, <1>6, <1>7, <1>8, <1>9 DEF LoadInv

LEMMA LoadedIsKey == LoadInv => LoadAckMeansLoaded
BY DEF LoadInv, WordsHeld, LoadAckMeansLoaded, Reports, Fresh, Whole, TheKey, Sending

(* A load is acknowledged only when the TSS holds both words of the key that*)
(* the request at the head of the queue asked for, however many requests    *)
(* the processor queues, whatever the programmed RAM layout, the latency of *)
(* the fabric and the load time of the TSS.                                 *)
THEOREM AcknowledgedIsLoaded ==
  ASSUME Disciplined, TwoWordKeys, Window <= FIFO_DEPTH
  PROVE  Spec => []LoadAckMeansLoaded
<1>1. LoadInv /\ [Next]_vars => LoadInv'
  BY StableGrants, LoadInvStep, LoadInvStutter DEF Next, Disciplined
<1> QED
  BY <1>1, LoadedIsKey, LoadInit, PTL DEF Spec
-----------------------------------------------------------------------------
(* The refinement.  Requests that the SRoT has no reason to reject, all for *)
(* one key, whose entry the setup programs: with two, a status request for  *)
(* the one would be answered PRESENT when the core holds the other.         *)
WellFormed(m) ==
  /\ m.msg_id \in C2Requests /\ m.msg_len = 1 /\ m.key_index \in IndexSlots
  /\ RegisteredRam => m.key_index = 0

HasEntry(s) ==
  \A m \in DOMAIN Setup : FirstMode(m) =>
    \E i \in 1 .. m - 1 :
      /\ LastWrite(i, m - 1) /\ InKeyIndexRam(Setup[i].addr)
      /\ Setup[i].addr = SROT_KEYINDEXRAM_ADDR + s
      /\ Usable(Setup[i].data) /\ Setup[i].data.core <= HighCore

Served == \A r \in Requests : WellFormed(r) /\ HasEntry(r.key_index)
OneKey == Served /\ \A r, q \in Requests : r.key_index = q.key_index

\* Requests with their tag.
Sent == { [r EXCEPT !.rsvd = t] : r \in Requests, t \in 0 .. Window }

\* Every request is accepted by the SRoT.
AcceptedInv ==
  /\ drv_tag \in 0 .. Window
  /\ \A i \in 1 .. Len(unanswered) : unanswered[i] \in Sent
  /\ ~reqfifo_clr
  /\ srot_state = "MESSAGE_CHECK" => msg.msg_len = 1
  /\ srot_state = "RETRIEVE_KEY_INDEX" => Entry = keyindexram[msg.key_index]

\* What the TSS holds of the key once the words have been handed over.
KeyHeld ==
  \A r \in Requests :
    /\ tss_state \in {"WAIT_STATE0", "KEY0_LOADED"} => tss_key[1] = Keys[r.key_index][1]
    /\ tss_state \in {"WAIT_STATE1", "KEY1_LOADED"} => tss_key = Keys[r.key_index]

\* The load delay in the TSS is shorter than the way from the last word of a key
\* to the next key status request.  Software that waits for every answer before it
\* sends the next request makes it two cycles longer.
Slack  == IF Window = 1 THEN 2 ELSE 0
Timely == MOCKTSS_WAIT_STATE_COUNTER_INIT <= 9 + Slack

\* The TSS has the whole key, and says so, in at most n cycles.
Within(n) ==
  /\ llkid_key_valid => MOCKTSS_WAIT_STATE_COUNTER_INIT + 3 <= n
  /\ tss_state = "WAIT_STATE1" => tss_wait + 2 <= n
  /\ tss_state = "KEY1_LOADED" => llkid_key_complete \/ 1 <= n

\* The states in which the SRoT has no word to send any more, and the cycles
\* from there, at least, to the one in which the LLKI-PP checks the next message.
AllSent ==
  \/ srot_state \notin Sending \cup {"KL_LOAD_KEY_WORD_WAIT_FOR_ACK"}
  \/ srot_state = "KL_LOAD_KEY_WORD_WAIT_FOR_ACK" /\ Answered /\ Left = 0

Cycles ==
  CASE srot_state = "KL_LOAD_KEY_WORD_WAIT_FOR_ACK" -> 12 + Slack
    [] srot_state = "KL_READ_RESP_STATUS"           -> 11 + Slack
    [] srot_state = "KL_RESP_WAIT_STATE"            -> 10 + Slack
    [] srot_state = "KL_CHECK_RESP_STATUS"          -> (IF Answered THEN 9 ELSE 10) + Slack
    [] srot_state = "KL_RESP_READ"                  -> (IF Answered THEN 7 ELSE 8) + Slack
    [] srot_state = "C2_RESPONSE"                   -> 6 + Slack
    [] srot_state = "IDLE" -> IF reqfifo # <<>> THEN 5 ELSE IF reqfifo_w # None THEN 6 ELSE 7
    [] srot_state = "MESSAGE_CHECK"                 -> 4
    [] srot_state = "RETRIEVE_KEY_INDEX"            -> 3
    [] srot_state = "KL_REQ_HEADER"                 -> 2
    [] srot_state = "KL_REQ_ISSUE"                  -> 1
    [] srot_state = "KL_REQ_WAIT_FOR_ACK"           -> 0

InTime == AllSent => Within(Cycles)

\* An answer of the LLKI-PP that is true of the TSS as it is.
IsAnswer(id, st) ==
  \/ id \in {LLKI_MID_KLLOADKEYACK, LLKI_MID_KLCLEARKEYACK} /\ st = LLKI_STATUS_GOOD
  \/ /\ id = LLKI_MID_KLKEYSTATUSRESP
     /\ st \in {LLKI_STATUS_KEY_PRESENT, LLKI_STATUS_KEY_NOT_PRESENT}

TrueAnswer(id, st) ==
  /\ IsAnswer(id, st)
  /\ id = LLKI_MID_KLCLEARKEYACK => tss_state = "IDLE"
  /\ id = LLKI_MID_KLKEYSTATUSRESP /\ st = LLKI_STATUS_KEY_PRESENT => tss_state = "KEY1_LOADED"
  /\ Timely /\ id = LLKI_MID_KLKEYSTATUSRESP /\ st = LLKI_STATUS_KEY_NOT_PRESENT =>
       tss_state = "IDLE"

AnswerTo(id) ==
  CASE id = LLKI_MID_C2LOADKEYREQ -> LLKI_MID_KLLOADKEYACK
    [] id = LLKI_MID_C2CLEARKEYREQ -> LLKI_MID_KLCLEARKEYACK
    [] OTHER -> LLKI_MID_KLKEYSTATUSRESP

\* It is true from the decision until the SRoT passes it on.
AnswerInv ==
  /\ pp_state = "RESPONSE" => IsAnswer(pp_msg_id, pp_status)
  /\ Timely /\ Answering(LLKI_MID_KLKEYSTATUSRESP) /\ pp_status = LLKI_STATUS_KEY_NOT_PRESENT =>
       tss_state = "IDLE"
  /\ srot_state = "KL_RESP_READ" /\ Answered => TrueAnswer(fab_rsp.msg_id, fab_rsp.status)
  /\ srot_state = "C2_RESPONSE" =>
       TrueAnswer(msg.msg_id, msg.status) /\ msg.msg_id = AnswerTo(Current.msg_id)

TruthInv == LoadInv /\ AcceptedInv /\ AnswerInv /\ (Timely => InTime)

ServiceInv == TruthInv /\ KeyHeld

LEMMA SentWell ==
  ASSUME Served, NEW m \in Sent
  PROVE  /\ m \in C2Message /\ WellFormed(m) /\ HasEntry(m.key_index)
         /\ OneKey => \A r \in Requests : r.key_index = m.key_index
<1>1. PICK r \in Requests, t \in 0 .. Window : m = [r EXCEPT !.rsvd = t]
  BY DEF Sent
<1>2. r \in C2Message
  BY DriverAssumption
<1>3. /\ m \in C2Message /\ m.msg_id = r.msg_id /\ m.msg_len = r.msg_len
      /\ m.key_index = r.key_index
  BY <1>1, <1>2 DEF C2Message
<1> QED
  BY <1>3 DEF Served, OneKey, WellFormed

\* The request being processed.
LEMMA CurrentSent ==
  ASSUME OrderInv, AcceptedInv, srot_state # "IDLE"
  PROVE  Len(Responses) \in Nat /\ Len(Responses) + 1 \in 1 .. Len(unanswered) /\ Current \in Sent
<1>1. Len(Responses) \in Nat
  BY QueuesTyped DEF OrderInv
<1>2. Len(unanswered) \in Nat /\ Len(Responses) + 1 <= Len(unanswered)
  BY <1>1 DEF OrderInv, QueueInv, Placed
<1> QED
  BY <1>1, <1>2 DEF AcceptedInv, Current

\* The request about to be taken up.
LEMMA NextSent ==
  ASSUME OrderInv, AcceptedInv, srot_state = "IDLE", reqfifo # <<>>
  PROVE  Head(reqfifo) \in Sent
<1>1. ~reqfifo_rready /\ reqfifo \in Seq(C2Message)
  BY DEF OrderInv, PortsInv, TypeInv, MemoryTypes
<1>2. Queue = reqfifo \o Slot(reqfifo_w) /\ Slot(reqfifo_w) \in Seq(C2Message)
  BY <1>1, SlotTyped DEF Queue, OrderInv, TypeInv, DecodeTypes
<1>3. Queue[1] = Head(reqfifo) /\ Len(Queue) \in Nat /\ Len(Queue) >= 1
  BY <1>1, <1>2
<1>4. Placed \in Nat /\ Placed + Len(Queue) = Len(unanswered) /\ Queue[1] = unanswered[Placed + 1]
  <2>1. Placed = Len(Responses) /\ Len(Responses) \in Nat
    BY QueuesTyped DEF Placed, OrderInv
  <2> QED
    BY <1>3, <2>1 DEF OrderInv, QueueInv, InPlace, AcceptedInv
<1>5. Placed + 1 \in 1 .. Len(unanswered)
  BY <1>3, <1>4
<1> QED
  BY <1>3, <1>4, <1>5 DEF AcceptedInv

\* Software asks in an operational mode, when the entry of its key is there.
LEMMA EntryServes ==
  ASSUME ProgInv, RequestInv, Operational, NEW s \in IndexSlots, HasEntry(s)
  PROVE  Usable(keyindexram[s]) /\ keyindexram[s].core <= HighCore
<1>1. RamStep(keyindexram, "index") = keyindexram
  BY DEF RequestInv, NoLateWrite, RamStep
<1>2. PICK m \in 1 .. drv_setup : FirstMode(m) /\ Programmed(m - 1)
  BY DEF ProgInv
<1>3. SlotsProgrammed(m - 1, keyindexram) /\ m \in DOMAIN Setup
  BY <1>1, <1>2 DEF Programmed, FirstMode
<1>4. PICK i \in 1 .. m - 1 :
        /\ LastWrite(i, m - 1) /\ InKeyIndexRam(Setup[i].addr)
        /\ Setup[i].addr = SROT_KEYINDEXRAM_ADDR + s
        /\ Usable(Setup[i].data) /\ Setup[i].data.core <= HighCore
  BY <1>2, <1>3 DEF HasEntry
<1>5. Setup[i].addr - SROT_KEYINDEXRAM_ADDR = s
  BY <1>4, SrotAssumption DEF IndexSlots
<1>6. keyindexram[s] = Setup[i].data
  BY <1>3, <1>4, <1>5 DEF SlotsProgrammed
<1> QED
  BY <1>4, <1>6

\* What is known of the request while the SRoT decides on it.
LEMMA Decided ==
  ASSUME OrderInv, AcceptedInv, Served, srot_state \in Deciding
  PROVE  /\ msg.msg_id \in C2Requests /\ msg.msg_id = Current.msg_id
         /\ msg.key_index \in IndexSlots /\ msg.key_index = Current.key_index
         /\ HasEntry(msg.key_index) /\ (RegisteredRam => msg.key_index = 0)
         /\ OneKey => \A r \in Requests : r.key_index = msg.key_index
<1>1. srot_state # "IDLE" /\ msg.msg_id = Current.msg_id /\ msg.key_index = Current.key_index
  BY DEF OrderInv, QueueInv, Deciding
<1>2. Current \in Sent
  BY <1>1, CurrentSent
<1> QED
  BY <1>1, <1>2, SentWell DEF WellFormed

LEMMA NeverRejected ==
  ASSUME LoadInv, AcceptedInv, Served, NEW gnt, NEW rsp, Stm(gnt, FALSE, rsp)
  PROVE  /\ ~reqfifo_clr'
         /\ srot_state' = "C2_RESPONSE" =>
              /\ srot_state = "KL_RESP_READ" /\ rsp # None
              /\ msg' = [msg EXCEPT !.msg_id = rsp.msg_id, !.status = rsp.status,
                                    !.msg_len = rsp.msg_len]
<1> DEFINE Goal == /\ reqfifo_clr' = FALSE
                   /\ srot_state' = "C2_RESPONSE" =>
                        /\ srot_state = "KL_RESP_READ" /\ rsp # None
                        /\ msg' = [msg EXCEPT !.msg_id = rsp.msg_id, !.status = rsp.status,
                                              !.msg_len = rsp.msg_len]
<1>1. reqfifo_clr = FALSE /\ OrderInv /\ ProgInv /\ RequestInv
  BY DEF AcceptedInv, LoadInv, SyncInv, PartsInv, TypeInv, StmTypes
<1> USE DEF Advance
<1>2. CASE SrotIdle
  BY <1>1, <1>2 DEF SrotIdle
<1>3. CASE SrotMessageCheck
  <2>1. srot_state = "MESSAGE_CHECK" /\ msg.msg_len = 1
    BY <1>3 DEF SrotMessageCheck, AcceptedInv
  <2>2. msg.msg_id \in C2Requests /\ msg.key_index \in IndexSlots
    BY <1>1, <2>1, Decided DEF Deciding, SrotStates
  <2>3. ~(msg.key_index >= SROT_KEYINDEXRAM_SIZE)
    BY <2>2, SrotAssumption DEF IndexSlots
  <2> QED
    BY <1>1, <1>3, <2>1, <2>2, <2>3 DEF SrotMessageCheck
<1>4. CASE SrotRetrieveKeyIndex
  <2>1. srot_state = "RETRIEVE_KEY_INDEX" /\ Entry = keyindexram[msg.key_index]
    BY <1>4 DEF SrotRetrieveKeyIndex, AcceptedInv
  <2>2. msg.key_index \in IndexSlots /\ HasEntry(msg.key_index)
    BY <1>1, <2>1, Decided DEF Deciding, SrotStates
  <2>3. Operational
    BY <1>1, <2>1 DEF RequestInv
  <2>4. Usable(Entry) /\ Entry.core <= HighCore
    BY <1>1, <2>1, <2>2, <2>3, EntryServes
  <2>5. Entry.core \in Nat
    BY <1>1, EntryTyped DEF OrderInv, IndexEntry
  <2>6. ~(Entry.core > HighCore)
    BY <2>4, <2>5 DEF HighCore
  <2> QED
    BY <1>1, <1>4, <2>1, <2>4, <2>6 DEF SrotRetrieveKeyIndex, Usable
<1>5. CASE SrotReqHeader \/ SrotReqIssue(gnt, FALSE)
  BY <1>1, <1>5 DEF SrotReqHeader, SrotReqIssue
<1>6. CASE SrotReqWaitForAck(rsp)
  BY <1>1, <1>6 DEF SrotReqWaitForAck
<1>7. CASE SrotReadReadyStatus(gnt, FALSE) \/ SrotCheckReadyStatus(rsp)
  BY <1>1, <1>7 DEF SrotReadReadyStatus, SrotCheckReadyStatus
<1>8. CASE SrotReadyWaitState(FALSE) \/ SrotRespWaitState(FALSE)
  BY <1>1, <1>8 DEF SrotReadyWaitState, SrotRespWaitState, WaitThenPoll
<1>9. CASE SrotLoadKeyWord(gnt) \/ SrotLoadKeyWordWaitForAck(rsp)
  BY <1>1, <1>9 DEF SrotLoadKeyWord, SrotLoadKeyWordWaitForAck
<1>10. CASE SrotReadRespStatus(gnt, FALSE) \/ SrotCheckRespStatus(rsp)
  BY <1>1, <1>10 DEF SrotReadRespStatus, SrotCheckRespStatus
<1>11. CASE SrotRespRead(FALSE, rsp)
  BY <1>1, <1>11 DEF SrotRespRead
<1>12. CASE SrotC2Response
  BY <1>1, <1>12 DEF SrotC2Response
<1> QED
  BY <1>2, <1>3, <1>4, <1>5, <1>6, <1>7, <1>8, <1>9, <1>10, <1>11, <1>12 DEF Stm

LEMMA AcceptedStep ==
  ASSUME LoadInv, AcceptedInv, Served, NEW acc \in DriverAccesses, DriverStep(acc), Ports(acc),
         NEW gnt, NEW rsp, Stm(gnt, FALSE, rsp)
  PROVE  AcceptedInv'
<1>1. TypeInv /\ OrderInv /\ RequestInv /\ KeyInv /\ PortsInv /\ PollInv /\ QueueInv
  BY DEF LoadInv, SyncInv, PartsInv, OrderInv
<1>2. drv_tag' \in 0 .. Window
  <2>1. drv_tag' = drv_tag \/ drv_tag' = (drv_tag + 1) % (Window + 1)
    BY DEF DriverStep, DriverIdle, DriverSetup, DriverStrayWrite, DriverSend, DriverPoll,
           DriverReadMsg
  <2>2. drv_tag \in 0 .. Window /\ Window \in Nat \ {0}
    BY DriverAssumption DEF AcceptedInv
  <2>3. (drv_tag + 1) % (Window + 1) \in 0 .. Window
    BY <2>2
  <2> QED
    BY <2>1, <2>2, <2>3
<1>3. ASSUME NEW i \in 1 .. Len(unanswered') PROVE unanswered'[i] \in Sent
  <2>1. unanswered \in Seq(C2Message) /\ \A k \in 1 .. Len(unanswered) : unanswered[k] \in Sent
    BY <1>1 DEF QueueInv, AcceptedInv
  <2>2. CASE unanswered' = unanswered
    BY <1>3, <2>1, <2>2
  <2>3. CASE unanswered' = Tail(unanswered) /\ unanswered # <<>>
    <3>1. unanswered'[i] = unanswered[i + 1] /\ i + 1 \in 1 .. Len(unanswered)
      BY <1>3, <2>1, <2>3
    <3> QED
      BY <2>1, <3>1
  <2>4. CASE DriverSend(acc) /\ unanswered' = Append(unanswered, acc.data)
    <3>1. PICK r \in Requests : acc = Request(r, drv_tag)
      BY <2>4 DEF DriverSend
    <3>2. acc.data = [r EXCEPT !.rsvd = drv_tag]
      BY <3>1 DEF Request, RegWrite
    <3>3. acc.data \in Sent
      BY <3>2 DEF Sent, AcceptedInv
    <3>4. CASE i \in 1 .. Len(unanswered)
      <4>1. unanswered'[i] = unanswered[i]
        BY <2>1, <2>4, <3>4
      <4> QED
        BY <2>1, <3>4, <4>1
    <3>5. CASE i \notin 1 .. Len(unanswered)
      <4>1. unanswered'[i] = acc.data
        BY <1>3, <2>1, <2>4, <3>5
      <4> QED
        BY <3>3, <4>1
    <3> QED
      BY <3>4, <3>5
  <2>5. seen => unanswered # <<>>
    <3>1. seen => Len(Responses) >= 1 /\ Len(Responses) \in Nat
      BY <1>1, QueuesTyped DEF PollInv, PolledMeansThere, TypeInv, MemoryTypes
    <3> QED
      BY <1>1, <3>1 DEF QueueInv, Placed
  <2> QED
    BY <2>2, <2>3, <2>4, <2>5 DEF DriverStep, DriverIdle, DriverSetup, DriverStrayWrite,
                                  DriverSend, DriverPoll, DriverReadMsg
<1>4. srot_state' = "MESSAGE_CHECK" => msg'.msg_len = 1
  <2> SUFFICES ASSUME srot_state' = "MESSAGE_CHECK" PROVE msg'.msg_len = 1
    OBVIOUS
  <2>1. srot_state = "IDLE" /\ reqfifo # <<>> /\ msg' = [Head(reqfifo) EXCEPT !.status = 0]
    BY Flow
  <2>2. Head(reqfifo) \in C2Message /\ WellFormed(Head(reqfifo))
    BY <1>1, <2>1, NextSent, SentWell
  <2> QED
    BY <2>1, <2>2 DEF C2Message, WellFormed
<1>5. srot_state' = "RETRIEVE_KEY_INDEX" => Entry' = keyindexram'[msg'.key_index]
  <2> SUFFICES ASSUME srot_state' = "RETRIEVE_KEY_INDEX" PROVE Entry' = keyindexram'[msg'.key_index]
    OBVIOUS
  <2>1. /\ srot_state = "MESSAGE_CHECK" /\ msg' = msg
        /\ keyindexram_b_addr' = msg.key_index % SROT_KEYINDEXRAM_SIZE
    BY Flow
  <2>2. msg.key_index \in IndexSlots /\ (RegisteredRam => msg.key_index = 0)
    BY <1>1, <2>1, Decided DEF Deciding, SrotStates
  <2>3. keyindexram_b_addr' = msg.key_index
    BY <2>1, <2>2, ModSmall, SrotAssumption DEF IndexSlots
  <2>4. keyindexram_b_addr = 0 /\ NoLateWrite /\ Operational
    BY <1>1, <2>1 DEF KeyInv, RequestInv
  <2>5. keyindexram' = keyindexram /\ keyindexram_q' = keyindexram[keyindexram_b_addr]
    BY <2>4, FrozenStep DEF Ports, Memories
  <2> QED
    BY <2>1, <2>2, <2>3, <2>4, <2>5 DEF Entry
<1>6. ~reqfifo_clr'
  BY NeverRejected
<1> QED
  BY <1>2, <1>3, <1>4, <1>5, <1>6 DEF AcceptedInv
-----------------------------------------------------------------------------
(* What happens to the key.  It changes only for the request being processed*)
LEMMA WordIsOfKey ==
  ASSUME LoadInv, TwoWordKeys, llkid_key_valid
  PROVE  /\ srot_state = "KL_LOAD_KEY_WORD_WAIT_FOR_ACK" /\ IsLoad /\ ~llkid_clear_key
         /\ TheKey = <<TheKey[1], TheKey[2]>>
         /\ \/ tss_state \in {"IDLE", "KEY1_LOADED"} /\ llkid_key_data = TheKey[1]
            \/ /\ tss_state = "KEY0_LOADED" /\ llkid_key_data = TheKey[2]
               /\ tss_key[1] = TheKey[1]
<1>1. /\ TypeInv /\ RequestInv /\ KeyInv /\ ProgInv /\ EntryHeld /\ StepInv /\ ReadyInv
      /\ PairInv /\ WordsHeld
  BY DEF LoadInv, SyncInv, PartsInv
<1>2. srot_state = "KL_LOAD_KEY_WORD_WAIT_FOR_ACK" /\ Answered
  BY <1>1 DEF ReadyInv
<1>3. IsLoad /\ srot_state \in Loading
  BY <1>1, <1>2 DEF KeyInv, Loading
<1>4. TheKey = <<TheKey[1], TheKey[2]>>
  BY <1>1, <1>3, KeyPlace
<1>5. IF Left = 0 THEN Whole ELSE Half
  BY <1>1, <1>2 DEF WordsHeld
<1>6. ~llkid_clear_key
  BY <1>1 DEF PairInv, WiresHaveAReason, Answering
<1> QED
  BY <1>2, <1>3, <1>4, <1>5, <1>6 DEF Whole, Half

LEMMA ClearIsAsked ==
  ASSUME SyncInv, pp_state = "CLEAR_KEY"
  PROVE  srot_state \in Deciding /\ msg.msg_id = LLKI_MID_C2CLEARKEYREQ
<1>1. srot_state \in SrotStates /\ StepInv
  BY DEF SyncInv, PartsInv, TypeInv, StmTypes
<1>2. srot_state \in Deciding /\ KlAnswer = LLKI_MID_KLCLEARKEYACK
  BY <1>1 DEF StepInv, SrotStates, Deciding, Resting, Sending, Asking, Answering, Checking, Receiving,
              Finishing, Shown
<1> QED
  BY <1>2 DEF KlAnswer, IsLoad

LEMMA KeyChange ==
  ASSUME LoadInv, AcceptedInv, KeyHeld, OneKey, TwoWordKeys, TssEdge
  PROVE  /\ KeyHeld'
         /\ \/ tss_key' = tss_key
            \/ /\ srot_state \in Deciding /\ IsLoad
               /\ \E w \in {1, 2} : tss_key' = [tss_key EXCEPT ![w] = TheKey[w]]
            \/ /\ srot_state \in Deciding /\ msg.msg_id = LLKI_MID_C2CLEARKEYREQ
               /\ tss_key' = NoKey
<1>1. PairInv /\ PairSync /\ SyncInv /\ OrderInv /\ tss_key \in Word \X Word
  BY DEF LoadInv, SyncInv, PartsInv, PairInv, PairTypes
<1>2. ASSUME llkid_key_valid
      PROVE  /\ srot_state \in Deciding /\ IsLoad /\ ~llkid_clear_key
             /\ TheKey = <<TheKey[1], TheKey[2]>>
             /\ \A r \in Requests : Keys[r.key_index] = TheKey
             /\ \/ tss_state \in {"IDLE", "KEY1_LOADED"} /\ llkid_key_data = TheKey[1]
                \/ /\ tss_state = "KEY0_LOADED" /\ llkid_key_data = TheKey[2]
                   /\ tss_key[1] = TheKey[1]
  <2>1. srot_state \in Deciding
    BY <1>2, WordIsOfKey DEF Deciding, SrotStates
  <2>2. \A r \in Requests : r.key_index = msg.key_index
    BY <1>1, <2>1, Decided DEF OneKey
  <2> QED
    BY <1>2, <2>1, <2>2, WordIsOfKey DEF TheKey
<1>3. CASE TssIdle
  <2>1. tss_state = "IDLE" /\ tss_key = NoKey /\ tss_state' \in {"IDLE", "WAIT_STATE0"}
    BY <1>1, <1>3 DEF TssIdle, PairInv, TssHolds
  <2>2. CASE ~llkid_key_valid \/ llkid_clear_key
    <3>1. tss_key' = tss_key /\ tss_state' = "IDLE"
      BY <1>3, <2>1, <2>2 DEF TssIdle
    <3> QED
      BY <3>1 DEF KeyHeld
  <2>3. CASE llkid_key_valid /\ ~llkid_clear_key
    <3>1. tss_key' = <<llkid_key_data, ZeroWord>> /\ tss_state' = "WAIT_STATE0"
      BY <1>3, <2>3 DEF TssIdle
    <3>2. srot_state \in Deciding /\ IsLoad /\ llkid_key_data = TheKey[1]
          /\ \A r \in Requests : Keys[r.key_index] = TheKey
      BY <1>2, <2>1, <2>3
    <3>3. tss_key' = [tss_key EXCEPT ![1] = TheKey[1]] /\ tss_key'[1] = TheKey[1]
      BY <2>1, <3>1, <3>2 DEF NoKey
    <3>4. KeyHeld'
      BY <3>1, <3>2, <3>3 DEF KeyHeld
    <3> QED
      BY <3>2, <3>3, <3>4
  <2> QED
    BY <2>2, <2>3
<1>4. CASE TssWaitState0 \/ TssWaitState1 \/ TssWaitState2
  <2>1. /\ tss_key' = tss_key
        /\ tss_state' \in {"WAIT_STATE0", "KEY0_LOADED"} =>
             tss_state \in {"WAIT_STATE0", "KEY0_LOADED"}
        /\ tss_state' \in {"WAIT_STATE1", "KEY1_LOADED"} =>
             tss_state \in {"WAIT_STATE1", "KEY1_LOADED"}
    BY <1>4 DEF TssWaitState0, TssWaitState1, TssWaitState2, TssLoadDelay
  <2> QED
    BY <2>1 DEF KeyHeld
<1>5. CASE TssKey0Loaded \/ TssKey1Loaded
  <2>1. CASE llkid_clear_key \/ ~llkid_key_valid
    <3>1. tss_key' = tss_key /\ tss_state' \in {tss_state, "CLEAR_KEY"}
      BY <1>5, <2>1 DEF TssKey0Loaded, TssKey1Loaded
    <3> QED
      BY <3>1 DEF KeyHeld
  <2>2. CASE ~llkid_clear_key /\ llkid_key_valid /\ tss_state = "KEY0_LOADED"
    <3>1. tss_key' = [tss_key EXCEPT ![2] = llkid_key_data] /\ tss_state' = "WAIT_STATE1"
      BY <1>5, <2>2 DEF TssKey0Loaded, TssKey1Loaded
    <3>2. /\ srot_state \in Deciding /\ IsLoad /\ llkid_key_data = TheKey[2]
          /\ tss_key[1] = TheKey[1] /\ TheKey = <<TheKey[1], TheKey[2]>>
          /\ \A r \in Requests : Keys[r.key_index] = TheKey
      BY <1>2, <2>2
    <3>3. tss_key' = <<TheKey[1], TheKey[2]>>
      BY <1>1, <3>1, <3>2
    <3>4. KeyHeld'
      BY <3>1, <3>2, <3>3 DEF KeyHeld
    <3> QED
      BY <3>1, <3>2, <3>4
  <2>3. CASE ~llkid_clear_key /\ llkid_key_valid /\ tss_state = "KEY1_LOADED"
    <3>1. tss_key' = [tss_key EXCEPT ![1] = llkid_key_data] /\ tss_state' = "WAIT_STATE0"
      BY <1>5, <2>3 DEF TssKey0Loaded, TssKey1Loaded
    <3>2. /\ srot_state \in Deciding /\ IsLoad /\ llkid_key_data = TheKey[1]
          /\ \A r \in Requests : Keys[r.key_index] = TheKey
      BY <1>2, <2>3
    <3>3. tss_key'[1] = TheKey[1]
      BY <1>1, <3>1, <3>2
    <3>4. KeyHeld'
      BY <3>1, <3>2, <3>3 DEF KeyHeld
    <3> QED
      BY <3>1, <3>2, <3>4
  <2> QED
    BY <1>5, <2>1, <2>2, <2>3 DEF TssKey0Loaded, TssKey1Loaded
<1>6. CASE TssClearKey
  <2>1. tss_state = "CLEAR_KEY" /\ tss_key' = NoKey /\ tss_state' = "WAIT_STATE2"
    BY <1>6 DEF TssClearKey
  <2>2. srot_state \in Deciding /\ msg.msg_id = LLKI_MID_C2CLEARKEYREQ
    BY <1>1, <2>1, ClearIsAsked DEF PairSync
  <2> QED
    BY <2>1, <2>2 DEF KeyHeld
<1> QED
  BY <1>3, <1>4, <1>5, <1>6 DEF TssEdge
-----------------------------------------------------------------------------
(* An answer stays true on its way.                                         *)
LEMMA TssStays ==
  ASSUME TssEdge, ~llkid_key_valid
  PROVE  /\ tss_state = "IDLE" => tss_state' = "IDLE"
         /\ tss_state = "KEY1_LOADED" /\ ~llkid_clear_key => tss_state' = "KEY1_LOADED"
BY DEF TssEdge, TssIdle, TssWaitState0, TssKey0Loaded, TssWaitState1, TssKey1Loaded, TssClearKey,
       TssWaitState2, TssLoadDelay

LEMMA PpAnswers ==
  ASSUME NEW acc, PpEdge(acc), pp_state' = "RESPONSE", pp_msg_id' # LLKI_MID_KLERRORRESP,
         pp_state = "RESPONSE" => IsAnswer(pp_msg_id, pp_status)
  PROVE  IsAnswer(pp_msg_id', pp_status')
<1> USE DEF IsAnswer, Answer, Goto
<1>1. CASE PpIdle(acc)
  BY <1>1 DEF PpIdle
<1>2. CASE PpMessageCheck
  BY <1>2 DEF PpMessageCheck, CheckLoadKey, CheckClearKey, CheckKeyStatus, CheckOther
<1>3. CASE PpLoadKeyWords(acc)
  BY <1>3 DEF PpLoadKeyWords
<1>4. CASE PpClearKey
  BY <1>4 DEF PpClearKey
<1>5. CASE PpResponse(acc)
  BY <1>5 DEF PpResponse
<1> QED
  BY <1>1, <1>2, <1>3, <1>4, <1>5 DEF PpEdge

(* When the LLKI-PP checks a message, a TSS that reports no key has none.    *)
LEMMA EmptyAtCheck ==
  ASSUME LoadInv, InTime, pp_state = "MESSAGE_CHECK", ~llkid_key_complete
  PROVE  tss_state = "IDLE"
<1>1. /\ PairInv /\ PairSync /\ StepInv /\ WordsHeld
      /\ srot_state \in SrotStates /\ tss_state \in TssStates /\ tss_wait \in Byte
      /\ MOCKTSS_WAIT_STATE_COUNTER_INIT \in Byte
  BY MockTssAssumption DEF LoadInv, SyncInv, PartsInv, PairInv, PairTypes, TypeInv, StmTypes
<1>2. srot_state = "KL_REQ_WAIT_FOR_ACK"
  BY <1>1 DEF StepInv, SrotStates, Resting, Sending, Asking, Answering, Checking, Receiving,
              Finishing, Shown
<1>3. Within(0)
  BY <1>2 DEF InTime, AllSent, Cycles, Sending
<1>4. tss_state \notin {"WAIT_STATE1", "KEY1_LOADED"}
  BY <1>1, <1>3 DEF Within, Byte
<1>5. tss_state \notin {"WAIT_STATE0", "KEY0_LOADED"}
  BY <1>1, <1>2 DEF WordsHeld, Fresh, Sending
<1>6. tss_state \notin {"CLEAR_KEY", "WAIT_STATE2"}
  BY <1>1 DEF PairSync
<1> QED
  BY <1>1, <1>4, <1>5, <1>6 DEF TssStates

\* How the LLKI-PP comes to answer NOT_PRESENT.
LEMMA NotPresent ==
  ASSUME NEW acc, PpEdge(acc), Answering(LLKI_MID_KLKEYSTATUSRESP)',
         pp_status' = LLKI_STATUS_KEY_NOT_PRESENT
  PROVE  \/ pp_state = "MESSAGE_CHECK" /\ ~llkid_key_complete
         \/ Answering(LLKI_MID_KLKEYSTATUSRESP) /\ pp_status = LLKI_STATUS_KEY_NOT_PRESENT
<1> USE DEF Answering, Answer, Goto
<1>1. CASE PpIdle(acc)
  BY <1>1 DEF PpIdle
<1>2. CASE PpMessageCheck
  BY <1>2 DEF PpMessageCheck, CheckLoadKey, CheckClearKey, CheckKeyStatus, CheckOther,
              LLKI_MID_KLERRORRESP, LLKI_STATUS_KEY_PRESENT, LLKI_STATUS_KEY_NOT_PRESENT
<1>3. CASE PpLoadKeyWords(acc)
  BY <1>3 DEF PpLoadKeyWords, LLKI_MID_KLERRORRESP
<1>4. CASE PpClearKey
  BY <1>4 DEF PpClearKey
<1>5. CASE PpResponse(acc)
  BY <1>5 DEF PpResponse
<1> QED
  BY <1>1, <1>2, <1>3, <1>4, <1>5 DEF PpEdge

LEMMA EmptyStays ==
  ASSUME LoadInv, AnswerInv, Timely, InTime, TssEdge,
         \/ pp_state = "MESSAGE_CHECK" /\ ~llkid_key_complete
         \/ Answering(LLKI_MID_KLKEYSTATUSRESP) /\ pp_status = LLKI_STATUS_KEY_NOT_PRESENT
  PROVE  tss_state' = "IDLE"
<1>1. tss_state = "IDLE"
  BY EmptyAtCheck DEF AnswerInv
<1>2. ~llkid_key_valid
  BY DEF LoadInv, SyncInv, PartsInv, PairInv, WiresHaveAReason, Answering
<1> QED
  BY <1>1, <1>2, TssStays

LEMMA AnswerStep ==
  ASSUME LoadInv, SyncInv', AcceptedInv, AnswerInv, Timely => InTime, Served,
         srot_state # "IDLE" /\ srot_state' # "IDLE" => Current' = Current,
         NEW gnt \in BOOLEAN, gnt = (fab_req = <<>>),
         NEW deliver \in BOOLEAN, NEW respond \in BOOLEAN,
         Fabric(gnt, deliver, respond), Stm(gnt, FALSE, Returned(respond)),
         PairEdge(Delivered(gnt, deliver))
  PROVE  AnswerInv'
<1> DEFINE rsp == Returned(respond)
           a   == Delivered(gnt, deliver)
<1>1. /\ TypeInv /\ OrderInv /\ BusInv /\ PairInv /\ StepInv /\ ReadyInv /\ PpEdge(a) /\ TssEdge
  BY DEF LoadInv, SyncInv, PartsInv, PairEdge
<1>2. pp_state' = "RESPONSE" => IsAnswer(pp_msg_id', pp_status')
  <2>1. NoLossOfSync'
    BY InSync, PTL
  <2> QED
    BY <1>1, <2>1, PpAnswers DEF NoLossOfSync, AnswerInv
<1>3. ASSUME srot_state = "KL_RESP_READ"
      PROVE  /\ ~llkid_key_valid
             /\ ~Answered => /\ Asked(ReadSendRecv) /\ Answering(KlAnswer)
                             /\ pp_response_word.msg_id = pp_msg_id
                             /\ pp_response_word.status = pp_status
             /\ Answered => pp_state = "IDLE" /\ fab_rsp.msg_id = KlAnswer /\ ~llkid_clear_key
  <2>1. ~llkid_key_valid
    BY <1>1, <1>3 DEF ReadyInv
  <2>2. ASSUME ~Answered
        PROVE  /\ Asked(ReadSendRecv) /\ Answering(KlAnswer)
               /\ pp_response_word = [msg_id |-> pp_msg_id, status |-> pp_status, msg_len |-> 1]
    BY <1>1, <1>3, <2>2 DEF BusInv, StepInv, Finishing, Shown, Answering, PairInv, ResponseUp
  <2>3. ASSUME Answered PROVE pp_state = "IDLE" /\ fab_rsp.msg_id = KlAnswer
    BY <1>1, <1>3, <2>3 DEF StepInv
  <2>4. pp_state = "IDLE" => ~llkid_clear_key
    BY <1>1 DEF PairInv, WiresHaveAReason, Answering
  <2> QED
    BY <2>1, <2>2, <2>3, <2>4
<1>4. ASSUME srot_state = "KL_RESP_READ", ~Answered
      PROVE  /\ TrueAnswer(pp_response_word.msg_id, pp_response_word.status)
             /\ pp_response_word.msg_id = LLKI_MID_KLKEYSTATUSRESP => ~llkid_clear_key
  BY <1>1, <1>3, <1>4 DEF AnswerInv, TrueAnswer, Answering, PairInv, ClearAckMeansCleared,
                          PresentMeansLoaded, WiresHaveAReason, LLKI_STATUS_KEY_PRESENT,
                          LLKI_STATUS_KEY_NOT_PRESENT
<1>5. srot_state' = "KL_RESP_READ" /\ Answered' => TrueAnswer(fab_rsp.msg_id, fab_rsp.status)'
  <2> SUFFICES ASSUME srot_state' = "KL_RESP_READ", Answered'
               PROVE  TrueAnswer(fab_rsp.msg_id, fab_rsp.status)'
    OBVIOUS
  <2>1. srot_state = "KL_RESP_READ" /\ rsp = None
    <3>1. SrotCheckRespStatus(rsp) \/ SrotRespRead(FALSE, rsp)
      BY DEF Stm, Advance, Reject, SrotIdle, SrotMessageCheck, SrotRetrieveKeyIndex, SrotReqHeader,
             SrotReqIssue, SrotReqWaitForAck, SrotReadReadyStatus, SrotCheckReadyStatus,
             SrotReadyWaitState, SrotLoadKeyWord, SrotLoadKeyWordWaitForAck, SrotReadRespStatus,
             SrotRespWaitState, WaitThenPoll, SrotC2Response, BusFailed
    <3>2. CASE SrotCheckRespStatus(rsp)
      <4>1. host' = ReadSendRecv
        BY <3>2 DEF SrotCheckRespStatus, Advance
      <4> QED
        BY <4>1, Accesses DEF Answered
    <3>3. CASE SrotRespRead(FALSE, rsp)
      BY <3>3 DEF SrotRespRead, Advance
    <3> QED
      BY <3>1, <3>2, <3>3
  <2>2. CASE Answered
    <3>1. fab_rsp' = fab_rsp
      BY <2>1, <2>2, FabricStep DEF Answered
    <3>2. TrueAnswer(fab_rsp.msg_id, fab_rsp.status)
      BY <2>1, <2>2 DEF AnswerInv
    <3> QED
      BY <1>1, <1>3, <2>1, <2>2, <3>1, <3>2, TssStays DEF TrueAnswer
  <2>3. CASE ~Answered
    <3>1. fab_rsp' = pp_response_word
      BY <1>3, <2>1, <2>3, FabricStep, Accesses DEF Answered
    <3> QED
      BY <1>1, <1>3, <1>4, <2>1, <2>3, <3>1, TssStays DEF TrueAnswer
  <2> QED
    BY <2>2, <2>3
<1>6. srot_state' = "C2_RESPONSE" =>
        TrueAnswer(msg.msg_id, msg.status)' /\ msg'.msg_id = AnswerTo(Current'.msg_id)
  <2> SUFFICES ASSUME srot_state' = "C2_RESPONSE"
               PROVE  TrueAnswer(msg.msg_id, msg.status)' /\ msg'.msg_id = AnswerTo(Current'.msg_id)
    OBVIOUS
  <2>1. /\ srot_state = "KL_RESP_READ" /\ rsp # None
        /\ msg' = [msg EXCEPT !.msg_id = rsp.msg_id, !.status = rsp.status,
                              !.msg_len = rsp.msg_len]
    BY NeverRejected
  <2>2. Answered /\ rsp = fab_rsp
    BY <1>1, <2>1, FabricStep, Accesses DEF BusInv
  <2>3. msg'.msg_id = fab_rsp.msg_id /\ msg'.status = fab_rsp.status
    BY <1>1, <2>1, <2>2 DEF TypeInv, StmTypes, C2Message
  <2>4. TrueAnswer(fab_rsp.msg_id, fab_rsp.status)
    BY <2>1, <2>2 DEF AnswerInv
  <2>5. TrueAnswer(msg.msg_id, msg.status)'
    BY <1>1, <1>3, <2>1, <2>2, <2>3, <2>4, TssStays DEF TrueAnswer
  <2>6. msg.msg_id = Current.msg_id /\ Current' = Current
    BY <1>1, <2>1, Decided DEF Deciding, SrotStates
  <2>7. KlAnswer = AnswerTo(Current.msg_id)
    BY <2>6 DEF KlAnswer, IsLoad, AnswerTo
  <2> QED
    BY <1>3, <2>1, <2>2, <2>3, <2>5, <2>6, <2>7
<1>7. Timely /\ Answering(LLKI_MID_KLKEYSTATUSRESP)' /\ pp_status' = LLKI_STATUS_KEY_NOT_PRESENT =>
        tss_state' = "IDLE"
  BY <1>1, NotPresent, EmptyStays DEF AnswerInv
<1> QED
  BY <1>2, <1>5, <1>6, <1>7 DEF AnswerInv

(* Counting the cycles.  One clock edge brings the end of the load nearer.  *)
LEMMA Closer ==
  ASSUME PairTypes, TssEdge, ~llkid_key_valid', NEW n \in Nat, NEW k \in Nat, n <= k + 1,
         Within(n)
  PROVE  Within(k)'
<1> DEFINE W == MOCKTSS_WAIT_STATE_COUNTER_INIT
<1>1. W \in Nat /\ tss_wait \in 0 .. 255
  BY MockTssAssumption DEF PairTypes, Byte
<1>2. tss_wait # 0 => Dec8(tss_wait) = tss_wait - 1
  BY <1>1 DEF Dec8
<1>3. ASSUME tss_state' = "WAIT_STATE1" PROVE tss_wait' + 2 <= k
  <2>1. \/ llkid_key_valid /\ tss_wait' = W
        \/ tss_state = "WAIT_STATE1" /\ tss_wait # 0 /\ tss_wait' = Dec8(tss_wait)
    BY <1>3 DEF TssEdge, TssIdle, TssWaitState0, TssKey0Loaded, TssWaitState1, TssKey1Loaded,
                TssClearKey, TssWaitState2, TssLoadDelay, ResetWait
  <2>2. \/ W + 3 <= n /\ tss_wait' = W
        \/ tss_wait + 2 <= n /\ tss_wait' = tss_wait - 1
    BY <1>2, <2>1 DEF Within
  <2> HIDE DEF W
  <2> QED
    BY <1>1, <2>2
<1>4. ASSUME tss_state' = "KEY1_LOADED" PROVE llkid_key_complete' \/ 1 <= k
  <2>1. \/ tss_state = "WAIT_STATE1" /\ tss_wait = 0
        \/ llkid_key_complete' = TRUE
    BY <1>4 DEF TssEdge, TssIdle, TssWaitState0, TssKey0Loaded, TssWaitState1, TssKey1Loaded,
                TssClearKey, TssWaitState2, TssLoadDelay, TssOutputs
  <2>2. tss_state = "WAIT_STATE1" /\ tss_wait = 0 => 2 <= n
    BY DEF Within
  <2> QED
    BY <2>1, <2>2
<1> QED
  BY <1>3, <1>4 DEF Within

(* With one request at a time none is queued when its response is.          *)
LEMMA NoneQueued ==
  ASSUME OrderInv, AcceptedInv, srot_state = "C2_RESPONSE", Window = 1,
         NEW acc \in DriverAccesses, DriverStep(acc), Ports(acc)
  PROVE  reqfifo' = <<>> /\ reqfifo_w' = None
<1>1. TypeInv /\ PollInv /\ PortsInv /\ QueueInv /\ ~reqfifo_clr /\ ~reqfifo_rready
  BY DEF OrderInv, AcceptedInv, PortsInv
<1>2. Len(Responses) \in Nat /\ Len(Queue) \in Nat
      /\ Len(Queue) = Len(reqfifo) + (IF reqfifo_w = None THEN 0 ELSE 1)
  BY <1>1, QueuesTyped
<1>3. Placed + Len(Queue) = Len(unanswered) /\ Len(unanswered) <= 1
      /\ Placed = Len(Responses) + 1 /\ Len(unanswered) \in Nat
  BY <1>1 DEF QueueInv, InPlace, Placed
<1>4. Len(Queue) = 0 /\ ~(Len(unanswered) < 1)
  <2>1. \A r, q, u \in Nat : r + 1 + q = u /\ u <= 1 => q = 0 /\ ~(u < 1)
    OBVIOUS
  <2> QED
    BY <1>2, <1>3, <2>1
<1>5. reqfifo \in Seq(C2Message)
  BY <1>1 DEF TypeInv, MemoryTypes
<1>6. reqfifo = <<>> /\ reqfifo_w = None
  <2>1. Len(reqfifo) \in Nat
    BY <1>5
  <2>2. \A l \in Nat : l + 1 # 0
    OBVIOUS
  <2>3. reqfifo_w = None
    BY <1>2, <1>4, <2>1, <2>2
  <2>4. Len(reqfifo) = 0
    BY <1>2, <1>4, <2>1, <2>3
  <2> QED
    BY <1>5, <2>3, <2>4
<1>7. ~IsRequestWrite(acc)
  BY <1>1, <1>4, DriverEffect
<1> QED
  BY <1>1, <1>6, <1>7 DEF Ports, WriteDecode, DecodeSendRecv, Memories, FifoStep

\* The next stage is at most one cycle nearer to the check.
LEMMA NextStage ==
  ASSUME LoadInv, AcceptedInv, SyncInv', NEW acc \in DriverAccesses, DriverStep(acc), Ports(acc),
         NEW gnt \in BOOLEAN, gnt = (fab_req = <<>>),
         NEW deliver \in BOOLEAN, NEW respond \in BOOLEAN,
         Fabric(gnt, deliver, respond), Stm(gnt, FALSE, Returned(respond)),
         AllSent', srot_state' # "KL_LOAD_KEY_WORD_WAIT_FOR_ACK"
  PROVE  AllSent /\ Cycles <= Cycles' + 1
<1> DEFINE rsp == Returned(respond)
<1>1. /\ TypeInv /\ OrderInv /\ BusInv /\ KeyInv /\ srot_state' \in SrotStates
      /\ Slack \in {0, 2}
  BY DEF LoadInv, SyncInv, PartsInv, TypeInv, StmTypes, Slack
<1>2. srot_state' \notin Sending
  BY DEF AllSent
<1> USE DEF Cycles, Advance, Reject, Sending
<1>3. CASE SrotIdle
  <2>1. srot_state = "IDLE" /\ AllSent
    BY <1>3 DEF SrotIdle, AllSent
  <2>2. CASE reqfifo # <<>>
    BY <1>3, <2>1, <2>2 DEF SrotIdle
  <2>3. CASE reqfifo = <<>> /\ reqfifo_w # None
    BY <1>3, <2>1, <2>3 DEF SrotIdle
  <2>4. CASE reqfifo = <<>> /\ reqfifo_w = None
    <3>1. reqfifo' = <<>> /\ srot_state' = "IDLE"
      BY <1>3, <2>4 DEF SrotIdle, Ports, Memories, FifoStep
    <3> QED
      BY <2>1, <2>4, <3>1
  <2> QED
    BY <2>2, <2>3, <2>4
<1>4. CASE SrotMessageCheck
  BY <1>1, <1>4 DEF SrotMessageCheck, AllSent
<1>5. CASE SrotRetrieveKeyIndex
  BY <1>1, <1>5 DEF SrotRetrieveKeyIndex, AllSent
<1>6. CASE SrotReqHeader \/ SrotReqIssue(gnt, FALSE)
  BY <1>6 DEF SrotReqHeader, SrotReqIssue, AllSent
<1>7. CASE SrotReqWaitForAck(rsp)
  BY <1>1, <1>2, <1>7 DEF SrotReqWaitForAck, AllSent
<1>8. CASE SrotReadReadyStatus(gnt, FALSE) \/ SrotCheckReadyStatus(rsp)
             \/ SrotReadyWaitState(FALSE) \/ SrotLoadKeyWord(gnt)
  BY <1>2, <1>8 DEF SrotReadReadyStatus, SrotCheckReadyStatus, SrotReadyWaitState, WaitThenPoll,
                    SrotLoadKeyWord
<1>9. CASE SrotLoadKeyWordWaitForAck(rsp)
  <2>1. /\ srot_state = "KL_LOAD_KEY_WORD_WAIT_FOR_ACK" /\ srot_state' = "KL_READ_RESP_STATUS"
        /\ rsp # None /\ current_pointer = Entry.high
    BY <1>2, <1>9 DEF SrotLoadKeyWordWaitForAck
  <2>2. Answered
    BY <1>1, <2>1, FabricStep, Accesses DEF BusInv, Asked
  <2>3. Left = 0
    BY <1>1, <2>1, EntryTyped DEF IndexEntry, Left
  <2> QED
    BY <1>1, <2>1, <2>2, <2>3 DEF AllSent
<1>10. CASE SrotReadRespStatus(gnt, FALSE)
  <2>1. /\ srot_state = "KL_READ_RESP_STATUS" /\ host' = ReadCtrlSts
        /\ srot_state' \in {"KL_READ_RESP_STATUS", "KL_CHECK_RESP_STATUS"}
    BY <1>10 DEF SrotReadRespStatus
  <2>2. ~Answered'
    BY <2>1, Accesses DEF Answered
  <2> QED
    BY <1>1, <2>1, <2>2 DEF AllSent
<1>11. CASE SrotCheckRespStatus(rsp)
  <2>1. srot_state = "KL_CHECK_RESP_STATUS" /\ AllSent
    BY <1>11 DEF SrotCheckRespStatus, AllSent
  <2>2. rsp # None => Answered
    BY <1>1, <2>1, FabricStep, Accesses DEF BusInv
  <2>3. CASE rsp = None
    <3>1. srot_state' = "KL_CHECK_RESP_STATUS"
      BY <1>11, <2>3 DEF SrotCheckRespStatus
    <3> QED
      BY <1>1, <2>1, <3>1
  <2>4. CASE rsp # None /\ rsp.resp_waiting
    <3>1. srot_state' = "KL_RESP_READ" /\ host' = ReadSendRecv
      BY <1>11, <2>4 DEF SrotCheckRespStatus
    <3>2. ~Answered'
      BY <3>1, Accesses DEF Answered
    <3> QED
      BY <1>1, <2>1, <2>2, <2>4, <3>1, <3>2
  <2>5. CASE rsp # None /\ ~rsp.resp_waiting
    <3>1. srot_state' = "KL_RESP_WAIT_STATE"
      BY <1>11, <2>5 DEF SrotCheckRespStatus
    <3> QED
      BY <1>1, <2>1, <2>2, <2>5, <3>1
  <2> QED
    BY <2>3, <2>4, <2>5
<1>12. CASE SrotRespWaitState(FALSE)
  BY <1>1, <1>12 DEF SrotRespWaitState, WaitThenPoll, AllSent
<1>13. CASE SrotRespRead(FALSE, rsp)
  <2>1. srot_state = "KL_RESP_READ" /\ AllSent
    BY <1>13 DEF SrotRespRead, AllSent
  <2>2. rsp # None => Answered
    BY <1>1, <2>1, FabricStep, Accesses DEF BusInv
  <2>3. CASE rsp # None
    <3>1. srot_state' = "C2_RESPONSE"
      BY <1>13, <2>3 DEF SrotRespRead
    <3> QED
      BY <1>1, <2>1, <2>2, <2>3, <3>1
  <2>4. CASE rsp = None
    <3>1. srot_state' = "KL_RESP_READ"
      BY <1>13, <2>4 DEF SrotRespRead
    <3> QED
      BY <1>1, <2>1, <3>1
  <2> QED
    BY <2>3, <2>4
<1>14. CASE SrotC2Response
  <2>1. srot_state = "C2_RESPONSE" /\ srot_state' = "IDLE" /\ AllSent
    BY <1>14 DEF SrotC2Response, AllSent
  <2>2. CASE Window = 1
    <3>1. reqfifo' = <<>> /\ reqfifo_w' = None
      BY <1>1, <2>1, <2>2, NoneQueued
    <3> QED
      BY <2>1, <2>2, <3>1 DEF Slack
  <2>3. CASE Window # 1
    BY <2>1, <2>3 DEF Slack
  <2> QED
    BY <2>2, <2>3
<1> QED
  BY <1>3, <1>4, <1>5, <1>6, <1>7, <1>8, <1>9, <1>10, <1>11, <1>12, <1>13, <1>14 DEF Stm

\* While a word is on its way the load stays where it is.
LEMMA SameWord ==
  ASSUME TypeInv, RequestInv, KeyInv, NEW acc, Memories(acc), NEW gnt, NEW rsp, Stm(gnt, FALSE, rsp),
         srot_state' = "KL_LOAD_KEY_WORD_WAIT_FOR_ACK"
  PROVE  /\ srot_state \in {"KL_LOAD_KEY_WORD", "KL_LOAD_KEY_WORD_WAIT_FOR_ACK"}
         /\ Left' = Left
<1>1. SrotLoadKeyWord(gnt) \/ SrotLoadKeyWordWaitForAck(rsp)
  BY DEF Stm, SrotIdle, SrotMessageCheck, SrotRetrieveKeyIndex, SrotReqHeader,
         SrotReqIssue, SrotReqWaitForAck, SrotReadReadyStatus, SrotCheckReadyStatus,
         SrotReadyWaitState, SrotReadRespStatus, SrotCheckRespStatus, SrotRespWaitState,
         WaitThenPoll, SrotRespRead, SrotC2Response, Advance, Reject
<1>2. /\ srot_state \in {"KL_LOAD_KEY_WORD", "KL_LOAD_KEY_WORD_WAIT_FOR_ACK"}
      /\ msg' = msg /\ UNCHANGED <<current_pointer, keyindexram_b_addr>>
  BY <1>1 DEF SrotLoadKeyWord, SrotLoadKeyWordWaitForAck, Advance
<1>3. IsLoad /\ srot_state \in Loading
  BY <1>2 DEF KeyInv, Sending, Loading
<1> QED
  BY <1>2, <1>3, PlaceKept

LEMMA TimeStep ==
  ASSUME LoadInv, LoadInv', AcceptedInv, Timely, InTime,
         NEW acc \in DriverAccesses, DriverStep(acc), Ports(acc),
         NEW gnt \in BOOLEAN, gnt = (fab_req = <<>>),
         NEW deliver \in BOOLEAN, NEW respond \in BOOLEAN,
         Fabric(gnt, deliver, respond), Stm(gnt, FALSE, Returned(respond)),
         PairEdge(Delivered(gnt, deliver))
  PROVE  InTime'
<1> DEFINE Wait == "KL_LOAD_KEY_WORD_WAIT_FOR_ACK"
<1> SUFFICES ASSUME AllSent' PROVE Within(Cycles)'
  BY DEF InTime
<1>1. /\ TypeInv /\ RequestInv /\ KeyInv /\ BusInv /\ PairInv /\ PairTypes /\ ReadyInv /\ WordsHeld
      /\ TssEdge /\ PpEdge(Delivered(gnt, deliver)) /\ Memories(acc)
      /\ srot_state \in SrotStates /\ srot_state' \in SrotStates
      /\ SyncInv' /\ ReadyInv' /\ WordsHeld'
  BY DEF LoadInv, SyncInv, PartsInv, PairInv, TypeInv, StmTypes, PairEdge, Ports
<1>2. ASSUME AllSent, Cycles <= Cycles' + 1, ~llkid_key_valid' PROVE Within(Cycles)'
  <2>1. Cycles \in Nat /\ Cycles' \in Nat
    BY <1>1, <1>2 DEF SrotStates, AllSent, Sending, Cycles, Slack
  <2>2. Within(Cycles)
    BY <1>2 DEF InTime
  <2>3. PICK n \in Nat, k \in Nat : n = Cycles /\ k = Cycles'
    BY <2>1
  <2>4. Within(k)'
    BY <1>1, <1>2, <2>2, <2>3, Closer
  <2> QED
    BY <2>3, <2>4 DEF Within
<1>3. CASE srot_state' # Wait
  <2>1. ~llkid_key_valid'
    BY <1>1, <1>3 DEF ReadyInv
  <2> QED
    BY <1>1, <1>2, <1>3, <2>1, NextStage
<1>4. CASE srot_state' = Wait
  <2>1. Answered' /\ Left' = 0 /\ Left = 0 /\ srot_state \in {"KL_LOAD_KEY_WORD", Wait}
    BY <1>1, <1>4, SameWord DEF AllSent, Sending
  <2>2. Cycles' = 12 + Slack
    BY <1>4 DEF Cycles, Slack
  <2>3. CASE Answered
    <3>1. srot_state = Wait
      BY <1>1, <2>1, <2>3 DEF BusInv, Raised, Answered
    <3>2. AllSent /\ Cycles = 12 + Slack
      BY <2>1, <2>3, <3>1 DEF AllSent, Cycles, Slack
    <3>3. ~llkid_key_valid'
      BY <1>1, <2>3, FabricStep, WordOffered, Accesses
    <3> QED
      BY <1>2, <2>2, <3>2, <3>3 DEF Slack
  <2>4. CASE ~Answered
    <3>1. Half /\ ~llkid_key_valid
      BY <1>1, <2>1, <2>4 DEF WordsHeld, Sending, ReadyInv
    <3>2. tss_state' \notin {"WAIT_STATE1", "KEY1_LOADED"}
      BY <1>1, <3>1 DEF Half, TssEdge, TssIdle, TssWaitState0, TssKey0Loaded, TssWaitState1,
                        TssKey1Loaded, TssClearKey, TssWaitState2, TssLoadDelay
    <3>3. MOCKTSS_WAIT_STATE_COUNTER_INIT + 3 <= 12 + Slack
      BY MockTssAssumption DEF Timely, Slack, Byte
    <3> QED
      BY <2>2, <3>2, <3>3 DEF Within
  <2> QED
    BY <2>3, <2>4
<1> QED
  BY <1>3, <1>4
-----------------------------------------------------------------------------
LEMMA TruthInit == Init => TruthInv
<1> SUFFICES ASSUME Init PROVE TruthInv
  OBVIOUS
<1>1. LoadInv
  BY LoadInit
<1>2. drv_tag \in 0 .. Window
  BY DriverAssumption DEF Init, DriverInit
<1>3. AcceptedInv /\ AnswerInv /\ InTime
  BY <1>2 DEF Init, SrotInit, DriverInit, PpInit, TssInit, AcceptedInv, AnswerInv, Answering,
              InTime, Within
<1> QED
  BY <1>1, <1>3 DEF TruthInv

LEMMA TruthStutter == TruthInv /\ UNCHANGED vars => TruthInv'
<1> SUFFICES ASSUME TruthInv, UNCHANGED vars PROVE TruthInv'
  OBVIOUS
<1> USE DEF vars, srotVars, stmVars, decodeVars, memVars, driverVars, fabricVars, pairVars, ppVars,
            tssVars, discreteWires, ppWires, tssWires
<1>1. LoadInv'
  BY LoadInvStutter DEF TruthInv
<1>2. Entry' = Entry /\ Current' = Current
  BY DEF Entry, Current, Responses
<1>3. AcceptedInv'
  BY <1>2 DEF TruthInv, AcceptedInv
<1>4. AnswerInv'
  BY <1>2 DEF TruthInv, AnswerInv, Answered, Answering, TrueAnswer, AnswerTo
<1>5. (Timely => InTime)'
  <2>1. Left' = Left /\ Answered' = Answered
    BY <1>2 DEF Left, Answered
  <2>2. Cycles' = Cycles /\ (AllSent' <=> AllSent)
    BY <2>1 DEF Cycles, AllSent
  <2> QED
    BY <2>2 DEF TruthInv, InTime, Within
<1> QED
  BY <1>1, <1>3, <1>4, <1>5 DEF TruthInv

LEMMA TruthStep ==
  ASSUME TruthInv, ShortKeys, ModeIsSet, FirstKeyOnly, TwoWordKeys, Served, Window <= FIFO_DEPTH,
         NEW acc \in DriverAccesses,
         NEW gnt \in BOOLEAN, gnt = (fab_req = <<>>),
         NEW deliver \in BOOLEAN, NEW respond \in BOOLEAN,
         Cycle(acc, gnt, deliver, respond)
  PROVE  TruthInv'
<1>1. /\ Fabric(gnt, deliver, respond) /\ DriverStep(acc) /\ Ports(acc)
      /\ Stm(gnt, FALSE, Returned(respond)) /\ PairEdge(Delivered(gnt, deliver))
  BY DEF Cycle
<1>2. /\ LoadInv /\ AcceptedInv /\ AnswerInv /\ (Timely => InTime)
      /\ OrderInv /\ PairTypes /\ BusInv
  BY DEF TruthInv, LoadInv, SyncInv, PartsInv, PairInv
<1>3. LoadInv' /\ SyncInv'
  <2>1. LoadInv'
    BY <1>2, LoadInvStep
  <2> QED
    BY <2>1 DEF LoadInv
<1>4. srot_state # "IDLE" /\ srot_state' # "IDLE" => Current' = Current
  BY <1>1, <1>2, Exchanged, QueueInvStep, ZenonT(60)
<1>5. AcceptedInv'
  BY <1>1, <1>2, AcceptedStep
<1>6. AnswerInv'
  BY <1>1, <1>2, <1>3, <1>4, AnswerStep
<1>7. Timely => InTime'
  BY <1>1, <1>2, <1>3, TimeStep
<1> QED
  BY <1>3, <1>5, <1>6, <1>7 DEF TruthInv, Timely, Slack

LEMMA ServiceInit == Init => ServiceInv
BY TruthInit DEF Init, TssInit, ServiceInv, KeyHeld

LEMMA ServiceStutter == ServiceInv /\ UNCHANGED vars => ServiceInv'
BY TruthStutter DEF ServiceInv, KeyHeld, vars, pairVars, tssVars

LEMMA ServiceInvStep ==
  ASSUME ServiceInv, ShortKeys, ModeIsSet, FirstKeyOnly, TwoWordKeys, OneKey, Window <= FIFO_DEPTH,
         NEW acc \in DriverAccesses,
         NEW gnt \in BOOLEAN, gnt = (fab_req = <<>>),
         NEW deliver \in BOOLEAN, NEW respond \in BOOLEAN,
         Cycle(acc, gnt, deliver, respond)
  PROVE  ServiceInv'
<1>1. TruthInv'
  BY TruthStep DEF ServiceInv, OneKey
<1>2. LoadInv /\ AcceptedInv /\ KeyHeld /\ TssEdge
  BY DEF ServiceInv, TruthInv, Cycle, PairEdge
<1>3. KeyHeld'
  BY <1>2, KeyChange
<1> QED
  BY <1>1, <1>3 DEF ServiceInv

(* Whatever the SRoT reports of the key is so, in the cycle it reports it.   *)
LEMMA ReportedIsSo ==
  ASSUME TruthInv, Served, Timely PROVE StatusTruthful
<1> SUFFICES ASSUME Reports(LLKI_MID_KLKEYSTATUSRESP)
             PROVE  /\ Current.msg_id = LLKI_MID_C2KEYSTATUSREQ
                    /\ msg.status = LLKI_STATUS_KEY_PRESENT => tss_state = "KEY1_LOADED"
                    /\ msg.status = LLKI_STATUS_KEY_NOT_PRESENT => tss_key = NoKey
  BY DEF StatusTruthful
<1>1. /\ TrueAnswer(LLKI_MID_KLKEYSTATUSRESP, msg.status)
      /\ LLKI_MID_KLKEYSTATUSRESP = AnswerTo(Current.msg_id)
  BY DEF Reports, TruthInv, AnswerInv
<1>2. TssHolds /\ AcceptedInv /\ OrderInv /\ srot_state # "IDLE"
  BY DEF TruthInv, LoadInv, SyncInv, PartsInv, PairInv, Reports
<1>3. tss_state = "IDLE" => tss_key = NoKey
  BY <1>2 DEF TssHolds
<1>4. Current.msg_id \in C2Requests
  BY <1>2, CurrentSent, SentWell DEF WellFormed
<1> QED
  BY <1>1, <1>3, <1>4 DEF TrueAnswer, AnswerTo, C2Requests

(* The key status tells the truth both ways: PRESENT is said only of a      *)
(* complete key, NOT_PRESENT only of an empty TSS, whatever the latency of  *)
(* the fabric and the requests, as long as the load delay of the TSS is     *)
(* shorter than the way of the next request: the 10 cycles of the code are, *)
(* if every answer is awaited before the next request is sent.              *)
THEOREM StatusIsTrue ==
  ASSUME Disciplined, TwoWordKeys, Served, Window <= FIFO_DEPTH, Timely
  PROVE  Spec => []StatusTruthful
<1>1. TruthInv /\ [Next]_vars => TruthInv'
  BY StableGrants, TruthStep, TruthStutter DEF Next, Disciplined
<1>2. TruthInv => StatusTruthful
  BY ReportedIsSo
<1> QED
  BY <1>1, <1>2, TruthInit, PTL DEF Spec
-----------------------------------------------------------------------------
(* The requests behind the n oldest.                                        *)
Behind(u, n) == SubSeq(u, n + 1, Len(u))

LEMMA LessOrEqual ==
  ASSUME NEW n \in Nat, NEW l \in Nat, n <= l
  PROVE  n < l \/ n = l
OBVIOUS

LEMMA BehindIs ==
  ASSUME NEW T, NEW u \in Seq(T), NEW n \in Nat, n <= Len(u)
  PROVE  /\ Behind(u, n) \in Seq(T) /\ Len(Behind(u, n)) = Len(u) - n
         /\ \A i \in 1 .. Len(u) - n : Behind(u, n)[i] = u[n + i]
<1>1. Len(u) \in Nat /\ DOMAIN u = 1 .. Len(u)
  OBVIOUS
<1>2. CASE n < Len(u)
  <2> DEFINE s == SubSeq(u, n + 1, Len(u))
  <2>1. /\ s \in Seq(T) /\ Len(s) = Len(u) - (n + 1) + 1
        /\ \A i \in 1 .. Len(u) - (n + 1) + 1 : s[i] = u[(n + 1) + i - 1]
    <3>1. PICK p : p = n + 1
      OBVIOUS
    <3>2. PICK l : l = Len(u)
      OBVIOUS
    <3>3. p \in Int /\ l \in Int /\ p <= l /\ \A i \in p .. l : u[i] \in T
      BY <1>1, <1>2, <3>1, <3>2
    <3>4. /\ SubSeq(u, p, l) \in Seq(T)
          /\ Len(SubSeq(u, p, l)) = IF p <= l THEN l - p + 1 ELSE 0
          /\ \A i \in 1 .. l - p + 1 : SubSeq(u, p, l)[i] = u[p + i - 1]
      BY <3>3, SubSeqProperties
    <3> QED
      BY <3>1, <3>2, <3>3, <3>4
  <2> HIDE DEF s
  <2>2. Len(s) = Len(u) - n
    BY <1>1, <2>1
  <2>3. ASSUME NEW i \in 1 .. Len(u) - n PROVE s[i] = u[n + i]
    <3>1. i \in 1 .. Len(u) - (n + 1) + 1 /\ (n + 1) + i - 1 = n + i
      BY <1>1
    <3> QED
      BY <2>1, <3>1
  <2> QED
    BY <2>1, <2>2, <2>3 DEF Behind, s
<1>3. CASE n = Len(u)
  <2>1. Behind(u, n) = <<>>
    BY <1>1, <1>3, SubSeqEmpty DEF Behind
  <2> QED
    BY <1>1, <1>3, <2>1
<1>4. n < Len(u) \/ n = Len(u)
  BY <1>1, LessOrEqual, ZenonT(60)
<1> QED
  BY <1>2, <1>3, <1>4

LEMMA SameSequence ==
  ASSUME NEW T, NEW s \in Seq(T), NEW t \in Seq(T), Len(s) = Len(t),
         \A i \in 1 .. Len(s) : s[i] = t[i]
  PROVE  s = t
BY SeqEqual

LEMMA BehindGrows ==
  ASSUME NEW T, NEW u \in Seq(T), NEW n \in Nat, n <= Len(u), NEW d \in T
  PROVE  Behind(Append(u, d), n) = Behind(u, n) \o <<d>>
<1> DEFINE v == Append(u, d)
           s == Behind(v, n)
           b == Behind(u, n)
           t == b \o <<d>>
<1>1. v \in Seq(T) /\ Len(v) = Len(u) + 1 /\ Len(u) \in Nat
      /\ (\A i \in 1 .. Len(u) : v[i] = u[i]) /\ v[Len(u) + 1] = d
  OBVIOUS
<1> HIDE DEF v
<1>2. /\ s \in Seq(T) /\ Len(s) = Len(u) + 1 - n
      /\ \A i \in 1 .. Len(u) + 1 - n : s[i] = v[n + i]
  <2>1. n <= Len(v)
    BY <1>1
  <2>2. /\ Behind(v, n) \in Seq(T) /\ Len(Behind(v, n)) = Len(v) - n
        /\ \A i \in 1 .. Len(v) - n : Behind(v, n)[i] = v[n + i]
    <3>1. v \in Seq(T)
      BY <1>1
    <3> QED
      BY <2>1, <3>1, BehindIs, ZenonT(60)
  <2> QED
    BY <1>1, <2>2
<1>3. b \in Seq(T) /\ Len(b) = Len(u) - n /\ \A i \in 1 .. Len(u) - n : b[i] = u[n + i]
  BY BehindIs, ZenonT(60)
<1> HIDE DEF s, b
<1>4. /\ t \in Seq(T) /\ Len(t) = Len(b) + 1 /\ t[Len(b) + 1] = d
      /\ \A i \in 1 .. Len(b) : t[i] = b[i]
  BY <1>3
<1> HIDE DEF t
<1>5. ASSUME NEW i \in 1 .. Len(s) PROVE s[i] = t[i]
  <2>1. i \in 1 .. Len(u) + 1 - n /\ s[i] = v[n + i]
    BY <1>2
  <2>2. CASE i \in 1 .. Len(u) - n
    <3>1. n + i \in 1 .. Len(u) /\ i \in 1 .. Len(b)
      BY <1>1, <1>3, <2>2
    <3> QED
      BY <1>1, <1>3, <1>4, <2>1, <2>2, <3>1
  <2>3. CASE i \notin 1 .. Len(u) - n
    <3>1. i = Len(b) + 1 /\ n + i = Len(u) + 1
      BY <1>1, <1>3, <2>1, <2>3
    <3> QED
      BY <1>1, <1>4, <2>1, <3>1
  <2> QED
    BY <2>2, <2>3
<1>6. s = t
  <2>1. Len(s) = Len(t)
    BY <1>1, <1>2, <1>3, <1>4
  <2> QED
    BY <1>2, <1>4, <1>5, <2>1, SameSequence
<1> QED
  BY <1>6 DEF s, t, v, b

LEMMA BehindTail ==
  ASSUME NEW T, NEW u \in Seq(T), NEW n \in Nat \ {0}, n <= Len(u)
  PROVE  Behind(Tail(u), n - 1) = Behind(u, n)
<1> DEFINE v == Tail(u)
           s == Behind(v, n - 1)
           t == Behind(u, n)
<1>1. v \in Seq(T) /\ Len(v) = Len(u) - 1 /\ Len(u) \in Nat
      /\ \A i \in 1 .. Len(u) - 1 : v[i] = u[i + 1]
  OBVIOUS
<1> HIDE DEF v
<1>2. s \in Seq(T) /\ Len(s) = Len(u) - n /\ \A i \in 1 .. Len(u) - n : s[i] = v[n - 1 + i]
  <2>1. PICK k \in Nat : k = n - 1
    OBVIOUS
  <2>2. k <= Len(v) /\ Len(v) - k = Len(u) - n
    BY <1>1, <2>1
  <2>3. /\ Behind(v, k) \in Seq(T) /\ Len(Behind(v, k)) = Len(v) - k
        /\ \A i \in 1 .. Len(v) - k : Behind(v, k)[i] = v[k + i]
    BY <1>1, <2>2, BehindIs, ZenonT(60)
  <2> QED
    BY <2>1, <2>2, <2>3
<1>3. t \in Seq(T) /\ Len(t) = Len(u) - n /\ \A i \in 1 .. Len(u) - n : t[i] = u[n + i]
  BY BehindIs, ZenonT(60)
<1> HIDE DEF s, t
<1>4. ASSUME NEW i \in 1 .. Len(s) PROVE s[i] = t[i]
  <2>1. /\ i \in 1 .. Len(u) - n /\ n - 1 + i \in 1 .. Len(u) - 1
        /\ (n - 1 + i) + 1 = n + i
    BY <1>1, <1>2
  <2>2. s[i] = v[n - 1 + i] /\ t[i] = u[n + i]
    BY <1>2, <1>3, <2>1
  <2>3. v[n - 1 + i] = u[(n - 1 + i) + 1]
    BY <1>1, <2>1
  <2> QED
    BY <2>1, <2>2, <2>3
<1>5. s = t
  BY <1>2, <1>3, <1>4, SameSequence
<1> QED
  BY <1>5 DEF s, t, v

LEMMA BehindNext ==
  ASSUME NEW T, NEW u \in Seq(T), NEW n \in Nat, n < Len(u)
  PROVE  /\ Behind(u, n) # <<>> /\ Head(Behind(u, n)) = u[n + 1]
         /\ Tail(Behind(u, n)) = Behind(u, n + 1)
<1> DEFINE s == Behind(u, n)
           t == Behind(u, n + 1)
           r == Tail(s)
<1>1. Len(u) \in Nat /\ n + 1 \in Nat /\ n + 1 <= Len(u)
  OBVIOUS
<1>2. s \in Seq(T) /\ Len(s) = Len(u) - n /\ \A i \in 1 .. Len(u) - n : s[i] = u[n + i]
  <2>1. n <= Len(u)
    BY <1>1
  <2> QED
    BY <2>1, BehindIs, ZenonT(60)
<1>3. /\ t \in Seq(T) /\ Len(t) = Len(u) - (n + 1)
      /\ \A i \in 1 .. Len(u) - (n + 1) : t[i] = u[(n + 1) + i]
  BY <1>1, BehindIs, ZenonT(60)
<1> HIDE DEF s, t
<1>4. s # <<>> /\ Head(s) = u[n + 1]
  BY <1>1, <1>2
<1>5. r \in Seq(T) /\ Len(r) = Len(s) - 1 /\ \A i \in 1 .. Len(s) - 1 : r[i] = s[i + 1]
  BY <1>2, <1>4
<1> HIDE DEF r
<1>6. ASSUME NEW i \in 1 .. Len(r) PROVE r[i] = t[i]
  <2>1. i + 1 \in 1 .. Len(u) - n /\ i \in 1 .. Len(s) - 1 /\ i \in 1 .. Len(u) - (n + 1)
    BY <1>1, <1>2, <1>5, <1>6
  <2>2. n + (i + 1) = (n + 1) + i
    BY <2>1
  <2> QED
    BY <1>2, <1>3, <1>5, <2>1, <2>2
<1>7. r = t
  BY <1>1, <1>2, <1>3, <1>5, <1>6, SameSequence
<1> QED
  BY <1>4, <1>7 DEF s, t, r

(* Requests enter at the end of the queue; a response that is read and an   *)
(* answer that is given both move its front.                                *)
Waiting == Behind(unanswered, Len(Responses))

LEMMA RequestIsSent ==
  ASSUME drv_tag \in 0 .. Window, NEW acc \in DriverAccesses, IsRequestWrite(acc)
  PROVE  acc.data \in Sent
<1>1. acc.op = "write" /\ acc.addr = SROT_LLKIC2_SENDRECV_ADDR
  BY DEF IsRequestWrite
<1>2. acc \in { Request(r, drv_tag) : r \in Requests }
  BY <1>1, DriverAssumption DEF DriverAccesses, NoAccess, PollStatus, ReadMsg, RegRead
<1> QED
  BY <1>2 DEF Request, RegWrite, Sent

\* u becomes v: its first k go, d is added.
Becomes(u, v, k, d) ==
  \/ k = 1 /\ v = Tail(u) /\ d = <<>>
  \/ k = 0 /\ v = u /\ d = <<>>
  \/ k = 0 /\ \E r \in C2Message : v = Append(u, r) /\ d = <<r>>

MovesTo(u, v, k, d, m) == Behind(v, m - k) = Behind(u, m) \o d

LEMMA WaitingMoves ==
  ASSUME NEW u \in Seq(C2Message), NEW v, NEW k \in {0, 1}, NEW d,
         NEW m \in Nat, m <= Len(u), k <= m, Becomes(u, v, k, d)
  PROVE  MovesTo(u, v, k, d, m)
<1> USE DEF MovesTo
<1> DEFINE b == Behind(u, m)
<1>1. b \in Seq(C2Message)
  BY BehindIs, ZenonT(60)
<1>2. b \o <<>> = b
  <2> HIDE DEF b
  <2> QED
    BY <1>1
<1>3. CASE k = 1 /\ v = Tail(u) /\ d = <<>>
  <2>1. m \in Nat \ {0}
    BY <1>3
  <2>2. Behind(Tail(u), m - 1) = b
    BY <2>1, BehindTail
  <2> QED
    BY <1>2, <1>3, <2>2
<1>4. CASE k = 0 /\ v = u /\ d = <<>>
  <2>1. m - k = m
    BY <1>4
  <2> QED
    BY <1>2, <1>4, <2>1
<1>5. CASE k = 0 /\ \E r \in C2Message : v = Append(u, r) /\ d = <<r>>
  <2>1. m - k = m
    BY <1>5
  <2>2. PICK r \in C2Message : v = Append(u, r) /\ d = <<r>>
    BY <1>5
  <2>3. Behind(Append(u, r), m) = b \o <<r>>
    BY BehindGrows
  <2> QED
    BY <2>1, <2>2, <2>3
<1> QED
  BY <1>3, <1>4, <1>5 DEF Becomes

LEMMA QueueMoves ==
  ASSUME OrderInv, AcceptedInv, Window <= FIFO_DEPTH,
         NEW acc \in DriverAccesses, DriverStep(acc), Ports(acc),
         respfifo_w' \in C2Response \cup {None},
         respfifo_w' # None => srot_state # "IDLE"
  PROVE  \E sent \in { <<>> } \cup { <<r>> : r \in Sent }, left \in Seq(C2Response) :
           /\ left = Responses \/ (Responses # <<>> /\ left = Tail(Responses))
           /\ IF respfifo_w' = None
              THEN Waiting' = Waiting \o sent /\ Responses' = left
              ELSE /\ Waiting # <<>> /\ Head(Waiting) = Current
                   /\ Waiting' = Tail(Waiting) \o sent
                   /\ Responses' = Append(left, respfifo_w')
<1> DEFINE n    == Len(Responses)
           k    == IF acc = ReadMsg THEN 1 ELSE 0
           left == IF acc = ReadMsg THEN Tail(Responses) ELSE Responses
           sent == IF IsRequestWrite(acc) THEN <<acc.data>> ELSE <<>>
<1>1. TypeInv /\ PollInv /\ PortsInv /\ QueueInv /\ drv_tag \in 0 .. Window
  BY DEF OrderInv, AcceptedInv
<1>2. Responses \in Seq(C2Response) /\ n \in Nat
  BY <1>1, QueuesTyped
<1>3. /\ unanswered \in Seq(C2Message) /\ n <= Len(unanswered) /\ Len(unanswered) \in Nat
      /\ respfifo_w' # None => n + 1 <= Len(unanswered)
  BY <1>1, <1>2 DEF QueueInv, Placed
<1>4. acc = ReadMsg => Responses # <<>>
  <2>1. acc = ReadMsg => respfifo # <<>>
    BY <1>1, DriverEffect DEF TakesResponse
  <2>2. respfifo # <<>> => Len(respfifo) > 0
    BY <1>1 DEF TypeInv, MemoryTypes
  <2>3. Len(Responses) = Len(respfifo) + (IF respfifo_w = None THEN 0 ELSE 1)
        /\ Len(respfifo) \in Nat
    BY <1>1, QueuesTyped DEF TypeInv, MemoryTypes
  <2>4. acc = ReadMsg => Len(Responses) # 0
    BY <2>1, <2>2, <2>3
  <2> QED
    BY <2>4
<1>5. left \in Seq(C2Response) /\ Len(left) = n - k /\ k \in {0, 1} /\ k <= n
  BY <1>2, <1>4
<1>6. sent \in { <<>> } \cup { <<r>> : r \in Sent }
  BY <1>1, RequestIsSent
<1>7. Responses' = left \o Slot(respfifo_w')
  BY <1>1, ResponsesStep DEF MoveOn
<1>8. Becomes(unanswered, unanswered', k, sent)
  BY <1>1, DriverEffect DEF Becomes
<1>9. left = Responses \/ (Responses # <<>> /\ left = Tail(Responses))
  BY <1>4
<1> HIDE DEF n, k, left, sent
<1>10. ASSUME NEW m \in Nat, n <= m, m <= Len(unanswered)
       PROVE  MovesTo(unanswered, unanswered', k, sent, m)
  <2>1. k <= m
    BY <1>2, <1>5, <1>10
  <2> QED
    BY <1>3, <1>5, <1>8, <1>10, <2>1, WaitingMoves
<1>11. Waiting = Behind(unanswered, n) /\ Waiting' = Behind(unanswered', Len(Responses'))
  BY DEF Waiting, n, Behind
<1>12. CASE respfifo_w' = None
  <2>1. Responses' = left
    BY <1>5, <1>7, <1>12 DEF Slot
  <2>2. Waiting' = Waiting \o sent
    <3>1. Len(Responses') = n - k
      BY <1>5, <2>1
    <3>2. Behind(unanswered', n - k) = Behind(unanswered, n) \o sent
      BY <1>2, <1>3, <1>10 DEF MovesTo
    <3> QED
      BY <1>11, <3>1, <3>2
  <2> QED
    BY <1>5, <1>6, <1>9, <1>12, <2>1, <2>2
<1>13. CASE respfifo_w' # None
  <2>1. Responses' = Append(left, respfifo_w') /\ Len(Responses') = (n + 1) - k
    <3>1. Slot(respfifo_w') = <<respfifo_w'>> /\ respfifo_w' \in C2Response
      BY <1>13 DEF Slot
    <3>2. PICK w \in C2Response : w = respfifo_w'
      BY <3>1
    <3>3. left \o <<w>> = Append(left, w) /\ Len(Append(left, w)) = Len(left) + 1
      BY <1>5
    <3> QED
      BY <1>2, <1>5, <1>7, <3>1, <3>2, <3>3
  <2>2. n + 1 \in Nat /\ n < Len(unanswered) /\ n <= n + 1 /\ n + 1 <= Len(unanswered)
    BY <1>2, <1>3, <1>13
  <2>3. /\ Waiting # <<>> /\ Head(Waiting) = Current
        /\ Tail(Waiting) = Behind(unanswered, n + 1)
    BY <1>2, <1>3, <1>11, <2>2, BehindNext DEF Current, n
  <2>4. Waiting' = Tail(Waiting) \o sent
    <3>1. MovesTo(unanswered, unanswered', k, sent, n + 1)
      BY <1>10, <2>2
    <3> QED
      BY <1>11, <2>1, <2>3, <3>1 DEF MovesTo
  <2> QED
    BY <1>5, <1>6, <1>9, <1>13, <2>1, <2>3, <2>4
<1> QED
  BY <1>12, <1>13
-----------------------------------------------------------------------------
(* The steps of the service.                                                *)
LEMMA FrontIsCurrent ==
  ASSUME ServiceInv, srot_state # "IDLE"
  PROVE  Waiting # <<>> /\ Head(Waiting) = Current /\ Current \in Sent
<1>1. OrderInv /\ AcceptedInv
  BY DEF ServiceInv, TruthInv, LoadInv
<1>2. Len(Responses) \in Nat /\ Len(Responses) + 1 \in 1 .. Len(unanswered) /\ Current \in Sent
  BY <1>1, CurrentSent
<1>3. unanswered \in Seq(C2Message) /\ Len(Responses) < Len(unanswered)
  BY <1>1, <1>2 DEF OrderInv, QueueInv
<1> QED
  BY <1>2, <1>3, BehindNext DEF Waiting, Current

LEMMA GoodAnswers ==
  ASSUME msg.status \in GoodStatus
  PROVE  /\ msg.msg_id = LLKI_MID_KLLOADKEYACK =>
              C2Answer = C2Word(LLKI_MID_C2LOADKEYACK, msg.status)
         /\ msg.msg_id = LLKI_MID_KLCLEARKEYACK =>
              C2Answer = C2Word(LLKI_MID_C2CLEARKEYACK, msg.status)
         /\ msg.msg_id = LLKI_MID_KLKEYSTATUSRESP =>
              C2Answer = C2Word(LLKI_MID_C2KEYSTATUSRESP, msg.status)
<1>1. msg.status \notin ExpectedErrors
  BY DEF GoodStatus, ExpectedErrors, LLKI_STATUS_GOOD, LLKI_STATUS_KEY_PRESENT,
         LLKI_STATUS_KEY_NOT_PRESENT, LLKI_STATUS_BAD_MSG_ID, LLKI_STATUS_BAD_MSG_LEN,
         LLKI_STATUS_KEY_INDX_EXCEED, LLKI_STATUS_KEY_INDEX_INVALID,
         LLKI_STATUS_BAD_POINTER_PAIR, LLKI_STATUS_BAD_CORE_INDEX,
         LLKI_STATUS_KL_REQ_BAD_MSG_ID, LLKI_STATUS_KL_REQ_BAD_MSG_LEN,
         LLKI_STATUS_KL_RESP_BAD_MSG_ID, LLKI_STATUS_KL_TILELINK_ERROR
<1> QED
  BY <1>1 DEF C2Answer

\* What the SRoT passes on may be said by a key service.
LEMMA AnswerAllowed ==
  ASSUME ServiceInv, OneKey, srot_state = "C2_RESPONSE"
  PROVE  \E id, st \in Byte :
           /\ Service!MayAnswer(Current, id, st)
           /\ C2Answer = [msg_id |-> id, status |-> st, rsvd |-> Current.rsvd]
<1> USE DEF LLKI_MID_C2LOADKEYREQ, LLKI_MID_C2CLEARKEYREQ, LLKI_MID_C2KEYSTATUSREQ,
            LLKI_MID_C2LOADKEYACK, LLKI_MID_C2CLEARKEYACK, LLKI_MID_C2KEYSTATUSRESP,
            LLKI_STATUS_GOOD, LLKI_STATUS_KEY_PRESENT, LLKI_STATUS_KEY_NOT_PRESENT, Byte
<1> USE DEF Service!LLKI_MID_C2LOADKEYREQ, Service!LLKI_MID_C2CLEARKEYREQ,
            Service!LLKI_MID_C2KEYSTATUSREQ, Service!LLKI_MID_C2LOADKEYACK,
            Service!LLKI_MID_C2CLEARKEYACK, Service!LLKI_MID_C2KEYSTATUSRESP,
            Service!LLKI_STATUS_GOOD, Service!LLKI_STATUS_KEY_PRESENT,
            Service!LLKI_STATUS_KEY_NOT_PRESENT,
            Service!IsLoad, Service!IsClear, Service!IsStatus
<1>1. LoadInv /\ AnswerInv /\ KeyHeld /\ OrderInv /\ TssHolds
  BY DEF ServiceInv, TruthInv, LoadInv, SyncInv, PartsInv, PairInv
<1>2. Current.msg_id \in C2Requests /\ \A r \in Requests : r.key_index = Current.key_index
  BY FrontIsCurrent, SentWell DEF OneKey, WellFormed
<1>3. /\ TrueAnswer(msg.msg_id, msg.status) /\ msg.msg_id = AnswerTo(Current.msg_id)
      /\ msg.rsvd = Current.rsvd
  BY <1>1 DEF AnswerInv, OrderInv, QueueInv
<1>4. msg.status \in GoodStatus
  BY <1>3 DEF TrueAnswer, IsAnswer, GoodStatus
<1>5. CASE Current.msg_id = LLKI_MID_C2LOADKEYREQ
  <2>1. msg.msg_id = LLKI_MID_KLLOADKEYACK /\ msg.status = LLKI_STATUS_GOOD
    BY <1>3, <1>5 DEF AnswerTo, TrueAnswer, IsAnswer
  <2>2. tss_key = Keys[Current.key_index]
    BY <1>1, <1>4, <2>1, LoadedIsKey DEF LoadAckMeansLoaded, Reports
  <2>3. C2Answer = [msg_id |-> LLKI_MID_C2LOADKEYACK, status |-> LLKI_STATUS_GOOD,
                    rsvd |-> Current.rsvd]
    BY <1>3, <1>4, <2>1, GoodAnswers DEF C2Word
  <2>4. Service!MayAnswer(Current, LLKI_MID_C2LOADKEYACK, LLKI_STATUS_GOOD)
    BY <1>5, <2>2 DEF Service!MayAnswer
  <2> WITNESS LLKI_MID_C2LOADKEYACK \in Byte, LLKI_STATUS_GOOD \in Byte
  <2> QED
    BY <2>3, <2>4
<1>6. CASE Current.msg_id = LLKI_MID_C2CLEARKEYREQ
  <2>1. /\ msg.msg_id = LLKI_MID_KLCLEARKEYACK /\ msg.status = LLKI_STATUS_GOOD
        /\ tss_state = "IDLE"
    BY <1>3, <1>6 DEF AnswerTo, TrueAnswer, IsAnswer
  <2>2. tss_key = Service!Unlocked
    BY <1>1, <2>1 DEF TssHolds, NoKey, ZeroWord, Service!Unlocked, Service!ZeroWord
  <2>3. C2Answer = [msg_id |-> LLKI_MID_C2CLEARKEYACK, status |-> LLKI_STATUS_GOOD,
                    rsvd |-> Current.rsvd]
    BY <1>3, <1>4, <2>1, GoodAnswers DEF C2Word
  <2>4. Service!MayAnswer(Current, LLKI_MID_C2CLEARKEYACK, LLKI_STATUS_GOOD)
    BY <1>6, <2>2 DEF Service!MayAnswer
  <2> WITNESS LLKI_MID_C2CLEARKEYACK \in Byte, LLKI_STATUS_GOOD \in Byte
  <2> QED
    BY <2>3, <2>4
<1>7. CASE Current.msg_id = LLKI_MID_C2KEYSTATUSREQ
  <2>1. /\ msg.msg_id = LLKI_MID_KLKEYSTATUSRESP
        /\ msg.status \in {LLKI_STATUS_KEY_PRESENT, LLKI_STATUS_KEY_NOT_PRESENT}
        /\ msg.status = LLKI_STATUS_KEY_PRESENT => tss_state = "KEY1_LOADED"
    BY <1>3, <1>7 DEF AnswerTo, TrueAnswer, IsAnswer
  <2>2. msg.status = LLKI_STATUS_KEY_PRESENT => tss_key = Keys[Current.key_index]
    <3>1. PICK r \in Requests : r.key_index = Current.key_index
      BY FrontIsCurrent, <1>2 DEF Sent
    <3> QED
      BY <1>1, <2>1, <3>1 DEF KeyHeld
  <2>3. C2Answer = [msg_id |-> LLKI_MID_C2KEYSTATUSRESP, status |-> msg.status,
                    rsvd |-> Current.rsvd]
    BY <1>3, <1>4, <2>1, GoodAnswers DEF C2Word
  <2>4. Service!MayAnswer(Current, LLKI_MID_C2KEYSTATUSRESP, msg.status)
    BY <1>7, <2>1, <2>2 DEF Service!MayAnswer
  <2>5. msg.status \in Byte
    BY <2>1
  <2> WITNESS LLKI_MID_C2KEYSTATUSRESP \in Byte, msg.status \in Byte
  <2> QED
    BY <2>3, <2>4
<1> QED
  BY <1>2, <1>5, <1>6, <1>7 DEF C2Requests

\* A change of the key is one the request in front allows.
LEMMA WorkAllowed ==
  ASSUME ServiceInv, OneKey, TwoWordKeys, TssEdge
  PROVE  \/ tss_key' = tss_key
         \/ /\ Waiting # <<>> /\ Head(Waiting) = Current
            /\ srot_state \in Deciding /\ Service!ChangesKey(Current)
<1>1. LoadInv /\ AcceptedInv /\ KeyHeld /\ OrderInv
  BY DEF ServiceInv, TruthInv, LoadInv
<1>2. ASSUME srot_state \in Deciding
      PROVE  /\ Waiting # <<>> /\ Head(Waiting) = Current
             /\ msg.msg_id = Current.msg_id /\ msg.key_index = Current.key_index
  <2>1. srot_state # "IDLE"
    BY <1>2 DEF Deciding
  <2> QED
    BY <1>1, <1>2, <2>1, FrontIsCurrent, Decided DEF OneKey
<1>3. CASE tss_key' = tss_key
  BY <1>3
<1>4. CASE /\ srot_state \in Deciding /\ IsLoad
           /\ \E w \in {1, 2} : tss_key' = [tss_key EXCEPT ![w] = TheKey[w]]
  BY <1>2, <1>4 DEF IsLoad, TheKey, Service!ChangesKey, Service!IsLoad, LLKI_MID_C2LOADKEYREQ,
                    Service!LLKI_MID_C2LOADKEYREQ
<1>5. CASE srot_state \in Deciding /\ msg.msg_id = LLKI_MID_C2CLEARKEYREQ /\ tss_key' = NoKey
  BY <1>2, <1>5 DEF NoKey, ZeroWord, Service!ChangesKey, Service!IsClear, Service!Unlocked,
                    Service!ZeroWord, LLKI_MID_C2CLEARKEYREQ, Service!LLKI_MID_C2CLEARKEYREQ
<1> QED
  BY <1>1, <1>3, <1>4, <1>5, KeyChange

LEMMA AnswerTaken ==
  ASSUME TypeInv, TypeInv', NEW gnt \in BOOLEAN, NEW rsp, Stm(gnt, FALSE, rsp)
  PROVE  /\ respfifo_w' \in C2Response \cup {None}
         /\ IF srot_state = "C2_RESPONSE" THEN respfifo_w' = C2Answer /\ respfifo_w' # None
            ELSE respfifo_w' = None
<1>1. respfifo_w' \in C2Response \cup {None}
  BY DEF TypeInv, StmTypes
<1>2. srot_state = "C2_RESPONSE" => respfifo_w' = C2Answer
  BY StmPorts
<1>3. C2Answer # None
  <2>1. \A id, st : C2Word(id, st) # None
    BY DEF C2Word, None
  <2>2. \E id, st : C2Answer = C2Word(id, st)
    BY DEF C2Answer
  <2> QED
    BY <2>1, <2>2
<1>4. srot_state # "C2_RESPONSE" => respfifo_w' = None
  BY StmPorts DEF TypeInv, StmTypes, Deciding
<1> QED
  BY <1>1, <1>2, <1>3, <1>4

LEMMA ServiceStep ==
  ASSUME ServiceInv, ServiceInv', TwoWordKeys, OneKey, Window <= FIFO_DEPTH,
         NEW acc \in DriverAccesses,
         NEW gnt \in BOOLEAN, NEW deliver \in BOOLEAN, NEW respond \in BOOLEAN,
         Cycle(acc, gnt, deliver, respond)
  PROVE  Service!Next
<1>1. /\ DriverStep(acc) /\ Ports(acc) /\ TssEdge /\ Stm(gnt, FALSE, Returned(respond))
  BY DEF Cycle, PairEdge
<1>2. OrderInv /\ AcceptedInv /\ TypeInv /\ TypeInv'
  BY DEF ServiceInv, TruthInv, LoadInv, OrderInv
<1>3. /\ respfifo_w' \in C2Response \cup {None}
      /\ srot_state = "C2_RESPONSE" => respfifo_w' = C2Answer /\ respfifo_w' # None
      /\ srot_state # "C2_RESPONSE" => respfifo_w' = None
  BY <1>1, <1>2, AnswerTaken
<1>4. PICK sent \in { <<>> } \cup { <<r>> : r \in Sent }, left \in Seq(C2Response) :
        /\ left = Responses \/ (Responses # <<>> /\ left = Tail(Responses))
        /\ IF respfifo_w' = None
           THEN Waiting' = Waiting \o sent /\ Responses' = left
           ELSE /\ Waiting # <<>> /\ Head(Waiting) = Current
                /\ Waiting' = Tail(Waiting) \o sent
                /\ Responses' = Append(left, respfifo_w')
  BY <1>1, <1>2, <1>3, QueueMoves
<1>5. tss_key' = tss_key \/ (/\ Waiting # <<>> /\ Head(Waiting) = Current
                             /\ srot_state \in Deciding /\ Service!ChangesKey(Current))
  BY <1>1, WorkAllowed
<1> DEFINE Stepped == \/ Service!Step(sent, Responses)
                      \/ Responses # <<>> /\ Service!Step(sent, Tail(Responses))
<1>6. ASSUME srot_state = "C2_RESPONSE" PROVE Stepped
  <2>1. tss_key' = tss_key
    BY <1>5, <1>6 DEF Deciding
  <2>2. /\ Waiting # <<>> /\ Head(Waiting) = Current
        /\ Waiting' = Tail(Waiting) \o sent /\ Responses' = Append(left, C2Answer)
    BY <1>3, <1>4, <1>6
  <2>3. left = Responses => Service!Reply(sent, Responses)
    BY <1>6, <2>1, <2>2, AnswerAllowed DEF Service!Reply, Waiting, Behind, Byte, Service!Byte
  <2>4. left = Tail(Responses) => Service!Reply(sent, Tail(Responses))
    BY <1>6, <2>1, <2>2, AnswerAllowed DEF Service!Reply, Waiting, Behind, Byte, Service!Byte
  <2> QED
    BY <1>4, <2>3, <2>4 DEF Service!Step
<1>7. ASSUME srot_state # "C2_RESPONSE" PROVE Stepped
  <2>1. Waiting' = Waiting \o sent /\ Responses' = left
    BY <1>3, <1>4, <1>7
  <2>2. left = Responses => Service!Work(sent, Responses)
    BY <1>5, <2>1 DEF Service!Work, Waiting, Behind
  <2>3. left = Tail(Responses) => Service!Work(sent, Tail(Responses))
    BY <1>5, <2>1 DEF Service!Work, Waiting, Behind
  <2> QED
    BY <1>4, <2>2, <2>3 DEF Service!Step
<1>8. Stepped
  BY <1>6, <1>7
<1> QED
  BY <1>8 DEF Service!Next, Sent

(* The LLKI is a KeyService: in every behaviour the requests, the responses *)
(* and the key in the TSS change as one server that takes the requests in   *)
(* order would change them, answers each once, under its own tag, and only  *)
(* with what is true of the key at that moment.                             *)
THEOREM LlkiImplementsKeyService ==
  ASSUME Disciplined, TwoWordKeys, OneKey, Window <= FIFO_DEPTH
  PROVE  Spec => ImplementsKeyService
<1>1. ServiceInv /\ [Next]_vars => ServiceInv'
  BY StableGrants, ServiceInvStep, ServiceStutter DEF Next, Disciplined
<1>2. Init => Service!Init
  BY DEF Init, SrotInit, DriverInit, TssInit, Service!Init, Responses, Slot, NoKey, ZeroWord,
         Service!Unlocked, Service!ZeroWord
<1>3. ServiceInv /\ ServiceInv' /\ [Next]_vars => [Service!Next]_(Service!serviceVars)
  <2>1. ASSUME ServiceInv, ServiceInv', Next PROVE Service!Next
    BY <2>1, StableGrants, ServiceStep DEF Next, Disciplined
  <2>2. ASSUME UNCHANGED vars PROVE UNCHANGED Service!serviceVars
    BY <2>2 DEF vars, srotVars, stmVars, memVars, driverVars, pairVars, tssVars, Responses,
                Service!serviceVars
  <2> QED
    BY <2>1, <2>2
<1> QED
  BY <1>1, <1>2, <1>3, ServiceInit, PTL DEF Spec, ImplementsKeyService, Service!Spec
=============================================================================
