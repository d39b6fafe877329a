--------------------------- MODULE MCRouteService ---------------------------
(* Model values for the runs of RouteService. *)
EXTENDS RouteService
CONSTANTS d1, d2, m1, m2
=============================================================================
