------------------------------- MODULE MCBoot -------------------------------
(* The timer, the keyboard and the real-time clock.  A loader has left     *)
(* open everything, everything but the cascade, the timer, or nothing.     *)
EXTENDS Boot

MCDevices == {0, 1, 8}
MCLoaderMasks == {<<0, 0>>, <<4, 0>>, <<254, 255>>, <<255, 255>>}

=============================================================================
