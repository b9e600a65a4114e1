---------------------------- MODULE MCAutomation ----------------------------
(* Small instances of Automation.                                          *)
EXTENDS Automation, TLC
=============================================================================
