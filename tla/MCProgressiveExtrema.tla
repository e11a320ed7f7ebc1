------------------------ MODULE MCProgressiveExtrema -------------------------
(* Hosts under progressive extrema; the means are below, between, at and   *)
(* above the thresholds.                                                   *)
EXTENDS ProgressiveExtrema

CONSTANTS h1, h2, h3
==============================================================================
