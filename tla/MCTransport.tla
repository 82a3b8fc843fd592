---------------------------- MODULE MCTransport ----------------------------
(* One connection, with a thread of the application's own and one lane. *)
EXTENDS Transport, TLC

CONSTANTS app, lane

One == lane :> 1
Two == lane :> 2
Three == lane :> 3
=============================================================================
