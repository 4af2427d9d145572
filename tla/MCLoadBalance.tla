---------------------------- MODULE MCLoadBalance ----------------------------
(* Three servers, two names, a 3-bit int and a 6-bit size_t: ten lookups   *)
(* take the counter of a name past its wrap at 3 and back to 2.            *)
EXTENDS LoadBalance

MCIntMax == 3
MCSizeMod == 64
=============================================================================
