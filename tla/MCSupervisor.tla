---------------------------- MODULE MCSupervisor -----------------------------
(* A session with every optional part: a development session on a terminal  *)
(* of its own, with a private bus and --vnc.                                 *)
EXTENDS Supervisor

EveryPart == Optional
==============================================================================
