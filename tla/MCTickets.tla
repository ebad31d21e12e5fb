------------------------------ MODULE MCTickets ------------------------------
(***************************************************************************)
(* Tickets on small sets.  Two ticks make a second, so that captured times *)
(* have a fraction that the ticket's times lose; a renewable lifetime of   *)
(* two ticket lifetimes leaves room for one renewal.                       *)
(***************************************************************************)
EXTENDS Tickets

ApBehind == -1      \* the application server's clock is one tick late
=============================================================================
