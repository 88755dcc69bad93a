------------------------------ MODULE MCSender ------------------------------
(* An instance of Sender for TLC: every sender, a case with a soundtrack.   *)
EXTENDS Sender

MCSenders == AllSenders
=============================================================================
