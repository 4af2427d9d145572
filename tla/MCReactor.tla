----------------------------- MODULE MCReactor -----------------------------
(* Both modes of both kinds of socket, and the mode of conf/net_data.conf. *)
EXTENDS Reactor

AllModes == BOOLEAN \X BOOLEAN
ShippedMode == {<<TRUE, TRUE>>}
=============================================================================
