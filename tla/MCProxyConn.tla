----------------------------- MODULE MCProxyConn -----------------------------
(***************************************************************************)
(* ProxyConn for TLC: the inverter connection outlives MaxConn connections  *)
(* to the cloud, so an old client task meets a newer one.                   *)
(***************************************************************************)
EXTENDS ProxyConn
==============================================================================
