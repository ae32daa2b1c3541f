------------------------------ MODULE MCMemMgr ------------------------------
(* An instance of MemMgr with two threads: the exchange may fail.          *)
EXTENDS MemMgr
=============================================================================
