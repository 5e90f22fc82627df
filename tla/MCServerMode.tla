----------------------------- MODULE MCServerMode -----------------------------
(***************************************************************************)
(* Inverters that connect to the proxy, for TLC: the GEN3 protocol of one  *)
(* of them (Talent), and the daily counters of two over two midnights      *)
(* (DailyReset).  The two share no state: a behaviour is one of `part',    *)
(* the other rests in its initial state.                                   *)
(***************************************************************************)
EXTENDS Talent, DailyReset

VARIABLE part

MCConfig == <<"inv1", "inv2">>

MCInit == part \in {"talent", "daily"} /\ Init /\ DailyInit

MCNext ==
    \/ part = "talent" /\ Next /\ UNCHANGED <<part, dailyVars>>
    \/ part = "daily" /\ DailyNext /\ UNCHANGED <<part, vars>>

MCSpec == MCInit /\ [][MCNext]_<<part, vars, dailyVars>>

\* The type invariants of both modules.
MCTypeOK == TypeOK /\ DailyTypeOK
==============================================================================
