---------------------------- MODULE MCFiscalSync ----------------------------
(* A small instance of FiscalSync.                                         *)
EXTENDS FiscalSync
=============================================================================
