----------------------------- MODULE MCNumbers ------------------------------
(* Words of six bits and ints of three, so that ints from 4 are negative;  *)
(* decimal numbers in base 3 have up to four digits, hexadecimal ones in   *)
(* base 4 have three.  The clock's numbers have up to three digits.        *)
EXTENDS Numbers

MCValues == {0, 3, 6, 61}
MCClockTimes == {<<2>>, <<0, 3, 1>>}

=============================================================================
