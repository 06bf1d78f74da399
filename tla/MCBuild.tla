------------------------------- MODULE MCBuild -------------------------------
(***************************************************************************)
(* Build on workflows of two and three steps.                              *)
(***************************************************************************)
EXTENDS Build

CONSTANTS p, c, d,        \* steps
          src, ext,       \* static files
          a, b, e         \* the outputs of p, c and d

TwoSteps == {p, c}
ThreeSteps == {p, c, d}
ThreeFiles == {src, a, b}
FiveFiles == {src, a, b, e}
OnlySrc == {src}
BothStatic == {src, ext}

MakerOf(files) == [f \in files |-> CASE f = a -> p [] f = b -> c [] f = e -> d [] OTHER -> Static]
ThreeMaker == MakerOf(ThreeFiles)
FiveMaker == MakerOf(FiveFiles)

\* src -> p -> a -> c -> b, src -> d -> e, and d amends b
LateInp == [s \in ThreeSteps |-> IF s = c THEN {a} ELSE {src}]
LateDyn == [s \in ThreeSteps |-> IF s = d THEN {b} ELSE {}]

\* src -> p -> a, src -> c -> b, and c amends a
AmendInp == [s \in TwoSteps |-> {src}]
AmendDyn == [s \in TwoSteps |-> IF s = c THEN {a} ELSE {}]
NoDyn == [s \in TwoSteps |-> {}]

\* src -> p -> a, and c -> b amends src
SharedInp == [s \in TwoSteps |-> IF s = p THEN {src} ELSE {}]
SharedDyn == [s \in TwoSteps |-> IF s = c THEN {src} ELSE {}]

\* ext -> p -> a, src -> d -> e, and c -> b amends a and src
MixedFiles == {src, ext, a, b, e}
MixedMaker == MakerOf(MixedFiles)
MixedInp == [s \in ThreeSteps |-> CASE s = p -> {ext} [] s = d -> {src} [] s = c -> {}]
MixedDyn == [s \in ThreeSteps |-> IF s = c THEN {a, src} ELSE {}]
=============================================================================
