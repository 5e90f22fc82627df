------------------------------ MODULE CmdRouting ------------------------------
(***************************************************************************)
(* AT+ and DCU commands to a GEN3PLUS inverter and the way their responses *)
(* take (SolarmanV5, app/src/gen3plus/solarman_v5.py; the flags live in    *)
(* InverterG3P, app/src/gen3plus/inverter_g3p.py).  Commands come from the *)
(* MQTT broker and from the TSUN cloud over two connections that share the *)
(* inverter.  A response names no sender: a flag that the latest command   *)
(* has set decides whether it is published or forwarded to the cloud.      *)
(*                                                                         *)
(* A command of the MQTT broker is written to the inverter at once.  One   *)
(* of the cloud is stored in fwd_fifo of its connection and written when   *)
(* all of the received data has been handled -- unless the handler of a    *)
(* later message raises: then it waits for the next data of the cloud.     *)
(***************************************************************************)
EXTENDS Naturals, Sequences

CONSTANTS
    AtCmds,       \* AT+ commands
    Allow,        \* at_acl[connection]['allow']: the commands with such a
    Block,        \* prefix; at_acl[connection]['block'] likewise
    MaxCmd        \* model bound: commands accepted in a behaviour

Conns == {"mqtt", "tsun"}

ASSUME AclAssumption ==
    Allow \in [Conns -> SUBSET AtCmds] /\ Block \in [Conns -> SUBSET AtCmds]
ASSUME MaxCmdAssumption == MaxCmd \in Nat

Kinds == {"at", "dcu"}

VARIABLES
    up,       \* state = State.up of the inverter connection
    dcu,      \* sensor_list = 0x3026
    flag,     \* forward_at_cmd_resp, forward_dcu_cmd_resp: where to
    fwd,      \* fwd_fifo of the cloud connection
    line,     \* commands the inverter has received and not yet answered
    acc,      \* history: the accepted commands
    out       \* history: the responses and where they went

vars == <<up, dcu, flag, fwd, line, acc, out>>

\* forward_dcu_cmd_resp is not initialised in InverterG3P.__init__
Init ==
    /\ up = FALSE /\ dcu \in BOOLEAN
    /\ flag = [at |-> "mqtt", dcu |-> "unset"]
    /\ fwd = <<>> /\ line = <<>> /\ acc = <<>> /\ out = <<>>

----------------------------------------------------------------------------
\* new_state_up, on a heartbeat or data of the inverter
NewStateUp ==
    /\ ~up /\ up' = TRUE
    /\ UNCHANGED <<dcu, flag, fwd, line, acc, out>>

\* Mutant: a prefix on the block list does not win.
ForbiddenUnlessAllowed(cmd, conn) == cmd \notin Allow[conn]

at_cmd_forbidden(cmd, conn) == cmd \notin Allow[conn] \/ cmd \in Block[conn]

Id == Len(acc) + 1
Accept(kind, conn, cmd) ==
    /\ Len(acc) < MaxCmd
    /\ acc' = Append(acc, [kind |-> kind, from |-> conn, cmd |-> cmd])
    /\ flag' = [flag EXCEPT ![kind] = conn]

\* tx_flush: written to the inverter at once; if writing fails the command is
\* gone, the flag stays as it is.
WriteNow(kind) ==
    /\ \/ line' = Append(line, [id |-> Id, kind |-> kind])
       \/ UNCHANGED line
    /\ UNCHANGED fwd

\* Mutant: the flag is set before the command is checked.
SendAtCmdFlagFirst(cmd) ==
    /\ up
    /\ \/ /\ ~at_cmd_forbidden(cmd, "mqtt")
          /\ Accept("at", "mqtt", cmd) /\ WriteNow("at")
       \/ /\ at_cmd_forbidden(cmd, "mqtt")
          /\ flag' = [flag EXCEPT !.at = "mqtt"]
          /\ UNCHANGED <<acc, line, fwd>>
    /\ UNCHANGED <<up, dcu, out>>

\* send_at_cmd.  A forbidden command, or one while the state is not up, is
\* refused and changes nothing.
send_at_cmd(cmd) ==
    /\ up /\ ~at_cmd_forbidden(cmd, "mqtt")
    /\ Accept("at", "mqtt", cmd) /\ WriteNow("at")
    /\ UNCHANGED <<up, dcu, out>>

send_dcu_cmd ==
    /\ dcu /\ up
    /\ Accept("dcu", "mqtt", "-") /\ WriteNow("dcu")
    /\ UNCHANGED <<up, dcu, out>>

\* Mutant: the fifo is not emptied.
WritePeek(q) == fwd' = q /\ line' = line \o q /\ Len(line') < 2 * MaxCmd

\* __async_forward writes the whole fifo, which is lost if that fails.
Write(q) == fwd' = <<>> /\ line' \in {line, line \o q}

\* msg_command_req: what is not blocked is stored and, in general, written.
Forward(kind) ==
    LET q == Append(fwd, [id |-> Id, kind |-> kind])
    IN  Write(q) \/ (fwd' = q /\ UNCHANGED line)

msg_command_req_at(cmd) ==
    /\ ~at_cmd_forbidden(cmd, "tsun")
    /\ Accept("at", "tsun", cmd) /\ Forward("at")
    /\ UNCHANGED <<up, dcu, out>>

msg_command_req_dcu ==
    /\ Accept("dcu", "tsun", "-") /\ Forward("dcu")
    /\ UNCHANGED <<up, dcu, out>>

\* More data of the cloud is handled, and what was left is written.
async_forward ==
    /\ fwd # <<>> /\ Write(fwd)
    /\ UNCHANGED <<up, dcu, flag, acc, out>>

\* The inverter answers its commands one after the other: msg_command_rsp.
msg_command_rsp ==
    /\ line # <<>> /\ line' = Tail(line)
    /\ out' = Append(out,
         [id |-> Head(line).id, to |-> flag[Head(line).kind],
          seen |-> Len(acc)])
    /\ UNCHANGED <<up, dcu, flag, fwd, acc>>

\* The inverter leaves a command unanswered, or the answer is lost.
Unanswered ==
    /\ line # <<>> /\ line' = Tail(line)
    /\ UNCHANGED <<up, dcu, flag, fwd, acc, out>>

Next ==
    \/ NewStateUp
    \/ \E cmd \in AtCmds : send_at_cmd(cmd)
    \/ \E cmd \in AtCmds : msg_command_req_at(cmd)
    \/ send_dcu_cmd \/ msg_command_req_dcu
    \/ async_forward \/ msg_command_rsp \/ Unanswered

Spec == Init /\ [][Next]_vars

----------------------------------------------------------------------------
(* Properties                                                              *)

(* A command reaches the inverter at most once and is answered at most      *)
(* once, and those of one connection keep their order.                      *)
InFlight == [i \in 1..Len(out) |-> out[i].id]
            \o [i \in 1..Len(line) |-> line[i].id]
            \o [i \in 1..Len(fwd) |-> fwd[i].id]
OnceInOrder ==
    \A i, j \in 1..Len(InFlight) :
        i < j => /\ InFlight[i] # InFlight[j]
                 /\ acc[InFlight[i]].from = acc[InFlight[j]].from
                        => InFlight[i] < InFlight[j]

(* Only commands that the list of their connection allows and does not      *)
(* block are ever on their way to the inverter.                             *)
AclHeld ==
    \A i \in 1..Len(InFlight) :
        LET c == acc[InFlight[i]] IN
        c.kind = "at" => c.cmd \in Allow[c.from] \ Block[c.from]

(* "Flag if response for the last at command must be send to the cloud"     *)
(* (inverter_g3p.py:13): a response goes to the wrong side only if that     *)
(* side has had a command of this kind accepted while the answer was        *)
(* outstanding.  Commands that do not overlap, and refused ones, never      *)
(* disturb the routing; and forward_dcu_cmd_resp, which nothing initialises *)
(* ("unset"), is never read before it is set (solarman_v5.py:836).          *)
StrayNeedsOverlap ==
    \A i \in 1..Len(out) :
        out[i].to # acc[out[i].id].from =>
            \E j \in (out[i].id + 1)..out[i].seen :
                /\ acc[j].from = out[i].to
                /\ acc[j].kind = acc[out[i].id].kind
==============================================================================
