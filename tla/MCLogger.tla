------------------------------ MODULE MCLogger ------------------------------
(***************************************************************************)
(* Logger with a handler and a service that log at some of the levels.     *)
(***************************************************************************)
EXTENDS Logger

SomeLevels == {Debug, Error, DPanic, Panic}
=============================================================================
