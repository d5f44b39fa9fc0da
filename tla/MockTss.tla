------------------------------- MODULE MockTss -------------------------------
(***************************************************************************)
(* The mock Technique Specific Shim of aes_192_mock_tss.sv: a state        *)
(* machine that takes a two-word key, artificially slow, and clears it.    *)
(* One action per state of the machine; each is one rising clock edge, and *)
(* constrains only the registers of the TSS, from its inputs               *)
(* llkid_key_valid, llkid_key_data and llkid_clear_key.                    *)
(***************************************************************************)
EXTENDS LlkiPkg, LlkiDiscrete

CONSTANT MOCKTSS_WAIT_STATE_COUNTER_INIT   \* cycles a key word takes to load

ASSUME MockTssAssumption == MOCKTSS_WAIT_STATE_COUNTER_INIT \in Byte

VARIABLES
  tss_state,            \* current_state
  tss_key,              \* llkid_key_register, its two words
  tss_wait              \* wait_state_counter

tssVars == <<tss_state, tss_key, tss_wait>>

TssStates == { "IDLE", "WAIT_STATE0", "KEY0_LOADED", "WAIT_STATE1",
               "KEY1_LOADED", "CLEAR_KEY", "WAIT_STATE2" }

NoKey == <<ZeroWord, ZeroWord>>

TssInit ==
  /\ tss_state = "IDLE"
  /\ tss_key = NoKey
  /\ tss_wait = MOCKTSS_WAIT_STATE_COUNTER_INIT
  /\ llkid_key_ready = TRUE
  /\ llkid_key_complete = FALSE
  /\ llkid_clear_key_ack = FALSE

TssOutputs(ready, complete, ack) ==
  /\ llkid_key_ready' = ready
  /\ llkid_key_complete' = complete
  /\ llkid_clear_key_ack' = ack

ResetWait == tss_wait' = MOCKTSS_WAIT_STATE_COUNTER_INIT

\* A clear request in IDLE is acknowledged at once; it also wins over a key word.
TssIdle ==
  /\ tss_state = "IDLE"
  /\ ResetWait
  /\ \/ /\ llkid_clear_key
        /\ TssOutputs(TRUE, FALSE, TRUE)
        /\ tss_key' = NoKey
        /\ tss_state' = "IDLE"
     \/ /\ ~llkid_clear_key /\ llkid_key_valid
        /\ TssOutputs(FALSE, FALSE, FALSE)
        /\ tss_key' = <<llkid_key_data, ZeroWord>>
        /\ tss_state' = "WAIT_STATE0"
     \/ /\ ~llkid_clear_key /\ ~llkid_key_valid
        /\ TssOutputs(TRUE, FALSE, FALSE)
        /\ tss_key' = NoKey
        /\ tss_state' = "IDLE"

\* The two load delays differ only in the state they lead to.  The end of the
\* delay wins over a clear request, which the next state then serves.
TssLoadDelay(from, to) ==
  /\ tss_state = from
  /\ TssOutputs(FALSE, FALSE, FALSE)
  /\ tss_wait' = Dec8(tss_wait)
  /\ tss_state' = IF tss_wait = 0 THEN to
                  ELSE IF llkid_clear_key THEN "CLEAR_KEY" ELSE from
  /\ UNCHANGED tss_key

TssWaitState0 == TssLoadDelay("WAIT_STATE0", "KEY0_LOADED")

\* Mutant of TssWaitState1: it leads where the first delay leads.
TssWaitState1Again == TssLoadDelay("WAIT_STATE1", "KEY0_LOADED")

TssWaitState1 == TssLoadDelay("WAIT_STATE1", "KEY1_LOADED")

\* Mutant of TssKey0Loaded: a half-loaded TSS does not look at the clear wire.
TssKey0LoadedDeaf ==
  /\ tss_state = "KEY0_LOADED"
  /\ ResetWait
  /\ IF llkid_key_valid
     THEN /\ TssOutputs(FALSE, FALSE, FALSE)
          /\ tss_key' = [tss_key EXCEPT ![2] = llkid_key_data]
          /\ tss_state' = "WAIT_STATE1"
     ELSE /\ TssOutputs(TRUE, FALSE, FALSE)
          /\ UNCHANGED <<tss_state, tss_key>>

TssKey0Loaded ==
  /\ tss_state = "KEY0_LOADED"
  /\ ResetWait
  /\ \/ /\ llkid_clear_key
        /\ TssOutputs(TRUE, FALSE, FALSE)
        /\ tss_state' = "CLEAR_KEY"
        /\ UNCHANGED tss_key
     \/ /\ ~llkid_clear_key /\ llkid_key_valid
        /\ TssOutputs(FALSE, FALSE, FALSE)
        /\ tss_key' = [tss_key EXCEPT ![2] = llkid_key_data]
        /\ tss_state' = "WAIT_STATE1"
     \/ /\ ~llkid_clear_key /\ ~llkid_key_valid
        /\ TssOutputs(TRUE, FALSE, FALSE)
        /\ UNCHANGED <<tss_state, tss_key>>

\* Mutant of TssKey1Loaded: the clear is acknowledged before it is done.
TssKey1LoadedEarlyAck ==
  /\ tss_state = "KEY1_LOADED"
  /\ ResetWait
  /\ \/ /\ llkid_clear_key
        /\ TssOutputs(TRUE, TRUE, TRUE)
        /\ tss_state' = "CLEAR_KEY"
        /\ UNCHANGED tss_key
     \/ /\ ~llkid_clear_key /\ llkid_key_valid
        /\ TssOutputs(FALSE, TRUE, FALSE)
        /\ tss_key' = [tss_key EXCEPT ![1] = llkid_key_data]
        /\ tss_state' = "WAIT_STATE0"
     \/ /\ ~llkid_clear_key /\ ~llkid_key_valid
        /\ TssOutputs(TRUE, TRUE, FALSE)
        /\ UNCHANGED <<tss_state, tss_key>>

\* The key is complete.  A further key word starts a reload: it replaces the
\* first word and keeps the second.
TssKey1Loaded ==
  /\ tss_state = "KEY1_LOADED"
  /\ ResetWait
  /\ \/ /\ llkid_clear_key
        /\ TssOutputs(TRUE, TRUE, FALSE)
        /\ tss_state' = "CLEAR_KEY"
        /\ UNCHANGED tss_key
     \/ /\ ~llkid_clear_key /\ llkid_key_valid
        /\ TssOutputs(FALSE, TRUE, FALSE)
        /\ tss_key' = [tss_key EXCEPT ![1] = llkid_key_data]
        /\ tss_state' = "WAIT_STATE0"
     \/ /\ ~llkid_clear_key /\ ~llkid_key_valid
        /\ TssOutputs(TRUE, TRUE, FALSE)
        /\ UNCHANGED <<tss_state, tss_key>>

TssClearKey ==
  /\ tss_state = "CLEAR_KEY"
  /\ ResetWait
  /\ TssOutputs(FALSE, FALSE, FALSE)
  /\ tss_key' = NoKey
  /\ tss_state' = "WAIT_STATE2"

\* Mutant of TssWaitState2: the end of the clear is not acknowledged.
TssWaitState2NoAck ==
  /\ tss_state = "WAIT_STATE2"
  /\ tss_wait' = Dec8(tss_wait)
  /\ TssOutputs(FALSE, FALSE, FALSE)
  /\ tss_state' = IF tss_wait = 0 THEN "CLEAR_KEY" ELSE "WAIT_STATE2"
  /\ UNCHANGED tss_key

TssWaitState2 ==
  /\ tss_state = "WAIT_STATE2"
  /\ tss_wait' = Dec8(tss_wait)
  /\ TssOutputs(FALSE, FALSE, tss_wait = 0)
  /\ tss_state' = IF tss_wait = 0 THEN "IDLE" ELSE "WAIT_STATE2"
  /\ UNCHANGED tss_key

\* One rising edge of the clock.
TssEdge ==
  \/ TssIdle
  \/ TssWaitState0
  \/ TssKey0Loaded
  \/ TssWaitState1
  \/ TssKey1Loaded
  \/ TssClearKey
  \/ TssWaitState2
=============================================================================
