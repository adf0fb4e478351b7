----------------------------- MODULE MCNextWork -----------------------------
(* NextWork with digits below 16: targets of up to six digits, limit 3fffff,
   whose compact form is 63ff, and minimum difficulty 63fe.  The first bits
   are the minimum, one just below the sign, one just above it after a shift,
   and the limit itself. *)
EXTENDS NextWork

MCFirstBits == {6 * 4096 + 1022, 5 * 4096 + 2046, 5 * 4096 + 129, 6 * 4096 + 1023}
MCGap == {-30, 20, 52, 53, 67, 68, 121, 400}
MCClock == {-30, 60, 120, 121}
=============================================================================
