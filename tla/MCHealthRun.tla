---------------------------- MODULE MCHealthRun ----------------------------
(* HealthRun for TLC: an AG pair and a standalone node, two slots.  With    *)
(* five checks a report, one that cannot run is exactly a tenth of two      *)
(* reports and less than a tenth of three.                                  *)
EXTENDS HealthRun

CONSTANTS a, b, alone

MCTarget   == {a, b, alone}
MCTargets  == <<a, alone, b>>
MCPartners == [t \in MCTarget |-> CASE t = a -> {b} [] t = b -> {a} [] OTHER -> {}]
=============================================================================
