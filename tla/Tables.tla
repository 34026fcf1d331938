------------------------------- MODULE Tables -------------------------------
(* Two tables as one, the first before the second: @@ of TLC, in a form that *)
(* the provers have a definition of.                                         *)
f ++ g == [x \in DOMAIN f \cup DOMAIN g |-> IF x \in DOMAIN f THEN f[x] ELSE g[x]]
=============================================================================
