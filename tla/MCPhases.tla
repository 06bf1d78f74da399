------------------------------ MODULE MCPhases ------------------------------
(***************************************************************************)
(* Two steps that use a static file, one of which does not end by itself.  *)
(***************************************************************************)
EXTENDS Phases
CONSTANTS c1, c2, s1, s2, f1
Clients == {c1, c2}
Steps == {s1, s2}
Files == {f1}
AllUse == [s \in Steps |-> Files]
OneStubborn == {s2}
NoStubborn == {}
AllModes == {"build", "watch", "first"}
WatchFirst == {"first"}
=============================================================================
