------------------------------ MODULE MCJobLoop ------------------------------
(***************************************************************************)
(* A plan that declares two static files and defines three steps: two that *)
(* amend themselves with files of a static tree, one they share, and one   *)
(* that uses a static file and a file of the tree.                         *)
(***************************************************************************)
EXTENDS JobLoop
CONSTANTS plan, s1, s2, s3, f1, f2, t1, t2
Steps == {plan, s1, s2, s3}
Files == {f1, f2, t1, t2}
InTree == {t1, t2}
JustS1 == {s1}
JustF2 == {f2}
JustT2 == {t2}
Only(s, S) == [r \in Steps |-> IF r = s THEN S ELSE {}]
PlanDeclares == Only(plan, {f1, f2})
PlanCreates == Only(plan, {s1, s2, s3})
StepUses == [r \in Steps |-> IF r = s3 THEN {f1, t1} ELSE {}]
StepAmends == [r \in Steps |-> CASE r = s1 -> {t1} [] r = s2 -> {t1, t2, f2} [] OTHER -> {}]

=============================================================================
