----------------------------- MODULE MCMonitor -----------------------------
(* Small instances of Monitor: a few requests, one slot too few for them. *)
EXTENDS Monitor

\* One message in the hands of runLoop, a full msgCh, and one that Write waits with.
MCNumMsgs == MsgBuf + 2
=============================================================================
