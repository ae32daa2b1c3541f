----------------------------- MODULE MCCompMgr ------------------------------
(* Small instances of CompMgr for TLC.                                     *)
EXTENDS CompMgr
=============================================================================
