---------------------------- MODULE LlkiDiscrete -----------------------------
(***************************************************************************)
(* The LLKI-Discrete wires between an LLKI Protocol Processing block and   *)
(* the Technique Specific Shim (TSS) of its core.  The LLKI-PP drives the  *)
(* first three registers, the TSS the last three.                          *)
(***************************************************************************)
VARIABLES
  llkid_key_data,       \* key word offered to the TSS
  llkid_key_valid,      \* the key word is valid
  llkid_clear_key,      \* the TSS is told to clear its key
  llkid_key_ready,      \* the TSS can take a key word
  llkid_key_complete,   \* the TSS holds every key word it needs
  llkid_clear_key_ack   \* the TSS has cleared its key

ppWires  == <<llkid_key_data, llkid_key_valid, llkid_clear_key>>
tssWires == <<llkid_key_ready, llkid_key_complete, llkid_clear_key_ack>>
discreteWires == <<ppWires, tssWires>>
=============================================================================
