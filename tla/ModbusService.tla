---------------------------- MODULE ModbusService ----------------------------
(***************************************************************************)
(* What class Modbus (app/src/modbus.py) promises to its users, without    *)
(* timers, retransmissions or answers: a bounded first-in first-out server *)
(* that works on exactly one request at a time.  The head of `jobs' is the *)
(* request being served, `outcome' tells how each finished one ended.      *)
(***************************************************************************)
EXTENDS Naturals, Sequences

CONSTANTS Frames,    \* the Modbus RTU requests clients may hand in
          QueCap     \* places in the waiting queue

VARIABLES jobs, outcome, down

abstractVars == <<jobs, outcome, down>>

AInit == jobs = <<>> /\ outcome = <<>> /\ down = FALSE

\* A client hands in a request; it waits behind all the earlier ones.
Accept(f) ==
    /\ ~down
    /\ Len(jobs) <= QueCap
    /\ jobs' = Append(jobs, f)
    /\ UNCHANGED <<outcome, down>>

\* The request being served gets its answer or is given up.
Finish(o) ==
    /\ jobs # <<>>
    /\ jobs' = Tail(jobs)
    /\ outcome' = Append(outcome, o)
    /\ UNCHANGED down

\* The connection is torn down: what is still waiting is forgotten.
Shut ==
    /\ jobs' = <<>>
    /\ down' = TRUE
    /\ UNCHANGED outcome

ANext ==
    \/ \E f \in Frames : Accept(f)
    \/ \E o \in {"answered", "timeout", "raised"} : Finish(o)
    \/ Shut

ASpec == AInit /\ [][ANext]_abstractVars
==============================================================================
