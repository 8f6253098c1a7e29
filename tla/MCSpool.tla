------------------------------- MODULE MCSpool -------------------------------
(***************************************************************************)
(* One message between a sender and the receivers that bind the spool.     *)
(* Every file of the protocol is named for its message and no step reads   *)
(* two messages' files, so one message meets every interleaving of the two *)
(* sides; what several share, the courier's order and the inbox's queue,   *)
(* is settled in module Inbox.                                             *)
(***************************************************************************)
EXTENDS Spool

AllClocks == {"acknowledged", "then taken", "unverifiable"}
SharedClock == {"acknowledged"}

\* Every operation the file system can refuse, but the writing of an answer.
ButAnswers ==
  {"withdrawal", "claim", "acknowledgement", "expiry", "release", "deadline", "close"}
OnlyAnswers == {"answer"}
=============================================================================
