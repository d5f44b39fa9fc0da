----------------------------- MODULE MCKlTarget ------------------------------
(***************************************************************************)
(* TLC instance of KlTarget.  The words are a header of every kind the     *)
(* message check tells apart; each of them can also be met as a key word.  *)
(***************************************************************************)
EXTENDS KlTarget

MCBusWords == { Header(LLKI_MID_KLLOADKEYREQ, 1), Header(LLKI_MID_KLLOADKEYREQ, 2),
                Header(LLKI_MID_KLLOADKEYREQ, 3), Header(LLKI_MID_KLCLEARKEYREQ, 1),
                Header(LLKI_MID_KLKEYSTATUSREQ, 1), Header(LLKI_MID_KLKEYSTATUSREQ, 2),
                Header(LLKI_MID_KLCLEARKEYREQ, 2), Header(LLKI_MID_KLLOADKEYACK, 1) }
=============================================================================
