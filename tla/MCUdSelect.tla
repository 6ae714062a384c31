----------------------------- MODULE MCUdSelect -----------------------------
(***************************************************************************)
(* Small instances of ud_select for TLC.                                   *)
(***************************************************************************)
EXTENDS UdSelect

NoListener == {}
FirstListens == {0}
=============================================================================
