----------------------------- MODULE MCSrotAlone -----------------------------
(***************************************************************************)
(* TLC instance of SrotAlone.  Two index slots and two key words, with a   *)
(* valid entry, entries of every kind of error, and requests of every kind *)
(* the message check tells apart.                                          *)
(***************************************************************************)
EXTENDS SrotAlone

MCNoSetup == <<>>

\* An entry for key index 5, at its place in the address map of llki_pkg.sv.
MCIndexSetup == << RegWrite(SROT_KEYINDEXRAM_ADDR + 5,
                            [valid |-> TRUE, core |-> 0, high |-> 1, low |-> 0]) >>

MCNoWrites == {}

Req(id, len, index) ==
  [msg_id |-> id, status |-> 0, msg_len |-> len, key_index |-> index, rsvd |-> 0]

MCRequests == { Req(LLKI_MID_C2LOADKEYREQ, 1, 0), Req(LLKI_MID_C2CLEARKEYREQ, 1, 0),
                Req(LLKI_MID_C2LOADKEYREQ, 2, 0), Req(LLKI_MID_C2ERRORRESP, 1, 0),
                Req(LLKI_MID_C2KEYSTATUSREQ, 1, 2) }

EntryWrite(slot, core, high, low) ==
  RegWrite(SROT_KEYINDEXRAM_ADDR + slot,
           [valid |-> TRUE, core |-> core, high |-> high, low |-> low])

MCStrayWrites ==
  { EntryWrite(0, 0, 1, 0), EntryWrite(0, 1, 1, 0), EntryWrite(0, 0, 2, 1),
    RegWrite(SROT_CTRLSTS_ADDR, {0}) }

Answered(ready, waiting, id, st) ==
  [ready_for_key |-> ready, resp_waiting |-> waiting,
   msg_id |-> id, status |-> st, msg_len |-> 1]

MCBusResponses ==
  { Answered(TRUE, TRUE, LLKI_MID_KLLOADKEYACK, LLKI_STATUS_GOOD),
    Answered(FALSE, FALSE, LLKI_MID_KLERRORRESP, LLKI_STATUS_KL_LOSS_OF_SYNC) }
=============================================================================
