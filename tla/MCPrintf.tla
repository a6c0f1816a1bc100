------------------------------ MODULE MCPrintf ------------------------------
(***************************************************************************)
(* Formats of up to six characters, so that a directive can have a flag, a *)
(* width, a precision and a length; machine integers of 2, 3, 5 and 8 bits *)
(* and a digit buffer of 5, in the order of 8, 16, 32, 64 and 32.          *)
(***************************************************************************)
EXTENDS Printf

MCGadgets == {[function |-> TRUE, max_chars |-> 1000],
              [function |-> FALSE, max_chars |-> 0],
              [function |-> FALSE, max_chars |-> 1],
              [function |-> FALSE, max_chars |-> 2],
              [function |-> FALSE, max_chars |-> 3]}
MCRoom == 0 .. 3
MCValues == {-128, -16, 0, 10, 127}
MCLengths == {-1, 0, 3}
MCStars == {-2, 3}

=============================================================================
