----------------------------- MODULE MCSolarmanRx -----------------------------
(***************************************************************************)
(* SolarmanRx for TLC: a good frame of each type, long for the heartbeat,  *)
(* and one frame for each way to be broken.                                *)
(***************************************************************************)
EXTENDS SolarmanRx

K(b, l) == [control |-> "data_ind", start |-> TRUE, stop |-> TRUE,
            crc |-> TRUE, known |-> TRUE, len |-> l, body |-> b]

MCKinds ==
    {[K(1, 1) EXCEPT !.control = c] : c \in Controls \ {"hbeat_ind"}} \cup
    {
        [K(2, 2) EXCEPT !.control = "hbeat_ind"],
        [K(1, 1) EXCEPT !.start = FALSE],
        [K(1, 1) EXCEPT !.stop = FALSE],
        [K(1, 1) EXCEPT !.crc = FALSE],
        [K(1, 1) EXCEPT !.known = FALSE],
        K(2, 1),              \* announces less than it has
        K(1, 2)               \* announces more than it has
    }
==============================================================================
