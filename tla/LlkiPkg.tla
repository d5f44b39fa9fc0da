------------------------------- MODULE LlkiPkg -------------------------------
(***************************************************************************)
(* The constants of llki_pkg.sv that travel in LLKI messages, and the      *)
(* 64-bit message word shared by the LLKI-C2 and LLKI-KL interfaces.       *)
(*                                                                         *)
(* A word keeps the three bytes both state machines decode: MSG ID [7:0],  *)
(* STATUS [15:8] and MSG LEN [23:16].  A key word travels over the same    *)
(* wires, so it is such a word too, and a state machine that is out of     *)
(* step with its peer decodes a key word as a header just as the RTL does. *)
(***************************************************************************)
EXTENDS Naturals

Byte == 0 .. 255

LLKI_MID_C2LOADKEYREQ    == 0
LLKI_MID_C2CLEARKEYREQ   == 1
LLKI_MID_C2KEYSTATUSREQ  == 2
LLKI_MID_C2LOADKEYACK    == 3
LLKI_MID_C2CLEARKEYACK   == 4
LLKI_MID_C2KEYSTATUSRESP == 5
LLKI_MID_C2ERRORRESP     == 6
LLKI_MID_KLLOADKEYREQ    == 7
LLKI_MID_KLCLEARKEYREQ   == 8
LLKI_MID_KLKEYSTATUSREQ  == 9
LLKI_MID_KLLOADKEYACK    == 10
LLKI_MID_KLCLEARKEYACK   == 11
LLKI_MID_KLKEYSTATUSRESP == 12
LLKI_MID_KLERRORRESP     == 6    \* the same code as LLKI_MID_C2ERRORRESP

LLKI_STATUS_GOOD               == 0
LLKI_STATUS_KEY_PRESENT        == 1
LLKI_STATUS_KEY_NOT_PRESENT    == 2
LLKI_STATUS_BAD_MSG_ID         == 32
LLKI_STATUS_BAD_MSG_LEN        == 33
LLKI_STATUS_KEY_INDX_EXCEED    == 34
LLKI_STATUS_KEY_INDEX_INVALID  == 35
LLKI_STATUS_BAD_POINTER_PAIR   == 36
LLKI_STATUS_BAD_CORE_INDEX     == 37
LLKI_STATUS_KL_REQ_BAD_MSG_ID  == 38
LLKI_STATUS_KL_REQ_BAD_MSG_LEN == 39
LLKI_STATUS_KL_RESP_BAD_MSG_ID == 40
LLKI_STATUS_KL_TILELINK_ERROR  == 41
LLKI_STATUS_KL_LOSS_OF_SYNC    == 48
LLKI_STATUS_UNKNOWN_ERROR      == 255

\* The answers a request can end with when nothing went wrong.
GoodStatus == { LLKI_STATUS_GOOD, LLKI_STATUS_KEY_PRESENT, LLKI_STATUS_KEY_NOT_PRESENT }

Word == [msg_id : Byte, status : Byte, msg_len : Byte]

ZeroWord == [msg_id |-> 0, status |-> 0, msg_len |-> 0]

Header(id, len) == [msg_id |-> id, status |-> 0, msg_len |-> len]

\* A register access on an LLKI-KL target: it has one read/write message register
\* (SENDRECV) and one status register (CTRLSTS).
NoAccess     == [op |-> "none"]
Write(word)  == [op |-> "write", data |-> word]
ReadSendRecv == [op |-> "read_sendrecv"]
ReadCtrlSts  == [op |-> "read_ctrlsts"]

\* Mutant of Dec8: a counter wider than its register.
Dec8NoWrap(n) == n - 1

\* An 8-bit down counter: counting below zero wraps to 255.
Dec8(n) == IF n = 0 THEN 255 ELSE n - 1
=============================================================================
