----------------------------- MODULE MCCLibrary -----------------------------
(***************************************************************************)
(* Five characters of memory holding NUL, ' ', '-', '0', '9' and 'x': the  *)
(* string "-0x9" with its terminator fills it.                             *)
(***************************************************************************)
EXTENDS CLibrary

MCNumbers ==
  {INT_MIN, INT_MIN + 1, -2147483640, -10, -1, 0, 1, 9, 10, 100, 2147483647}

=============================================================================
