------------------------------ MODULE MCExtrema ------------------------------
(* Hosts under extrema; the means are below, between, at and above the     *)
(* thresholds.                                                             *)
EXTENDS Extrema

CONSTANTS h1, h2, h3
==============================================================================
