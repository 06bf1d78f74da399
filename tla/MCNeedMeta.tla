------------------------------ MODULE MCNeedMeta ------------------------------
\* A chain: `make` and `mid` are optional, and `use` declares or amends what
\* `mid` makes, or neither.
EXTENDS NeedMeta, TLC

CONSTANTS make, mid, use

MCStep == {make, mid, use}
MCNeeds == (make :> {OPTIONAL} @@ mid :> {OPTIONAL} @@ use :> {OPTIONAL, DEFAULT})
MCInps == (make :> {{}} @@ mid :> {{make}} @@ use :> {{}, {mid}})
MCAmends == (make :> {{}} @@ mid :> {{}} @@ use :> {{}, {mid}})
MCUnits == (make :> 0 @@ mid :> 1 @@ use :> 1)
MCTargetSets == {{}, {mid}}
===============================================================================
