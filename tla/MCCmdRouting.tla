----------------------------- MODULE MCCmdRouting -----------------------------
(***************************************************************************)
(* CmdRouting for TLC with access lists that disagree: a query both sides  *)
(* may send, a command only MQTT may send, and one that is blocked for     *)
(* both although its prefix is allowed.                                    *)
(***************************************************************************)
EXTENDS CmdRouting

MCAtCmds == {"query", "webu", "update"}
MCAllow == [mqtt |-> MCAtCmds, tsun |-> {"query", "update"}]
MCBlock == [mqtt |-> {"update"}, tsun |-> {"update"}]
==============================================================================
