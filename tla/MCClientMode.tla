----------------------------- MODULE MCClientMode -----------------------------
(***************************************************************************)
(* Client mode for TLC: the session of one inverter (SensorDetect), the    *)
(* tasks that connect and reconnect (ModbusTcp), and the emulated logger   *)
(* (SolarmanEmu).  They share no state, so their interleavings say nothing *)
(* new: a behaviour is one of `part', the others rest in their initial     *)
(* state.  The inverter has the list tested last; a list it may be taken   *)
(* for has several register blocks.  A tick is 2 s for the detection and   *)
(* 20 s for the emulated logger.                                           *)
(***************************************************************************)
EXTENDS SensorDetect, ModbusTcp, SolarmanEmu

VARIABLE part

MCScanReg == <<"02b0", "1097", "3026">>
MCBlocks == [l \in Lists |-> IF l = "1097" THEN 3 ELSE 1]
MCSlowBlocks ==
    [l \in Lists |->
        CASE l = "02b0" -> 1 [] l = "1097" -> 2 [] l = "3026" -> 0]

MCInit == part \in {"detect", "loop", "emu"} /\ Init /\ LoopInit /\ EmuInit

MCNext ==
    \/ part = "detect" /\ Next /\ UNCHANGED <<part, loopVars, emuVars>>
    \/ part = "loop" /\ LoopNext /\ UNCHANGED <<part, vars, emuVars>>
    \/ part = "emu" /\ EmuNext /\ UNCHANGED <<part, vars, loopVars>>

MCSpec ==
    /\ MCInit /\ [][MCNext]_<<part, vars, loopVars, emuVars>>
    /\ part = "detect" => Fairness

\* The type invariants of the modules.
MCTypeOK == TypeOK /\ LoopTypeOK /\ EmuTypeOK

\* SensorDetect: the detection ends.
MCDetectionEnds == part = "detect" => DetectionEnds
==============================================================================
