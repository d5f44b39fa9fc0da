------------------------------- MODULE MCLlki --------------------------------
(***************************************************************************)
(* TLC instances of Llki.  The setup is that of cepSrotTest.cc: the whole  *)
(* Key Index RAM cleared, the key words, one valid entry, the mode bits.   *)
(* The key words look like LLKI-KL headers, so that a state machine out of *)
(* step would act on them.                                                 *)
(***************************************************************************)
EXTENDS Llki

KeyA == Header(LLKI_MID_KLCLEARKEYREQ, 1)
KeyB == Header(LLKI_MID_KLLOADKEYREQ, 3)

Req(id, index) ==
  [msg_id |-> id, status |-> 0, msg_len |-> 1, key_index |-> index, rsvd |-> 0]

MCRequests == { Req(LLKI_MID_C2LOADKEYREQ, 0), Req(LLKI_MID_C2CLEARKEYREQ, 0),
                Req(LLKI_MID_C2KEYSTATUSREQ, 0) }

Entry2(low, high) == [valid |-> TRUE, core |-> 0, high |-> high, low |-> low]

IndexWrite(slot, entry) == RegWrite(SROT_KEYINDEXRAM_ADDR + slot, entry)
KeyWrite(slot, word)    == RegWrite(SROT_KEYRAM_ADDR + slot, word)
SetMode == RegWrite(SROT_CTRLSTS_ADDR, {0, 1})

MCSetup ==
  << IndexWrite(0, InvalidEntry), IndexWrite(1, InvalidEntry),
     KeyWrite(1, KeyA), KeyWrite(2, KeyB), IndexWrite(0, Entry2(1, 2)), SetMode >>

MCKeys == [s \in {0} |-> <<KeyA, KeyB>>]

\* A late attempt to change the key, which the operational mode must refuse.
MCStrayWrites == { KeyWrite(1, KeyB) }
MCNoWrites == {}

\* A request of a length the SRoT rejects, among good ones.
MCFaultyRequests ==
  { [Req(LLKI_MID_C2KEYSTATUSREQ, 0) EXCEPT !.msg_len = 2], Req(LLKI_MID_C2KEYSTATUSREQ, 0) }

\* Two keys, two valid entries.
KeyC == Header(LLKI_MID_KLLOADKEYACK, 1)
KeyD == Header(LLKI_MID_KLCLEARKEYACK, 1)

MCTwoKeysSetup ==
  << KeyWrite(0, KeyA), KeyWrite(1, KeyB), KeyWrite(2, KeyC), KeyWrite(3, KeyD),
     IndexWrite(0, Entry2(0, 1)), IndexWrite(1, Entry2(2, 3)), SetMode >>

MCTwoKeys == [s \in {0, 1} |-> IF s = 0 THEN <<KeyA, KeyB>> ELSE <<KeyC, KeyD>>]

MCTwoKeysRequests == { Req(LLKI_MID_C2LOADKEYREQ, 0), Req(LLKI_MID_C2LOADKEYREQ, 1) }

\* One key that fills the Key RAM.
MCLongSetup == << IndexWrite(0, Entry2(0, SROT_KEYRAM_SIZE - 1)), SetMode >>
=============================================================================
