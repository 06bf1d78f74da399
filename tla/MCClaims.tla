-------------------------------- MODULE MCClaims --------------------------------
EXTENDS Claims

CONSTANTS plan, sub, work, data, part, prod, dir, pat

MCStep == {plan, sub, work}
MCFile == {data, part, prod}

\* The directory dir holds data and part; the pattern pat matches data.
MCUnder == [t \in {dir} |-> {data, part}]
MCInside == [t \in {dir} |-> {}]
MCMatches == [g \in {pat} |-> {data}]

\* The plan may declare the tree, alone or with the pattern and what it matches,
\* call glob(), and define sub and work;
\* sub may declare part, which is in the tree, and the output of work as its
\* own volatile output; work may amend itself with part.
MCStatics == [s \in MCStep |->
  CASE s = plan -> {[files |-> {}, trees |-> {dir}, globs |-> {}],
                    [files |-> {}, trees |-> {dir}, globs |-> {pat}]}
    [] s = sub -> {[files |-> {part}, trees |-> {}, globs |-> {}]}
    [] OTHER -> {}]
MCGlobs == [s \in MCStep |-> IF s = plan THEN {pat} ELSE {}]

Work == [step |-> work, inp |-> {data}, out |-> {prod}, vol |-> {}]
MCDefines == [s \in MCStep |->
  CASE s = plan -> {Work, [step |-> sub, inp |-> {}, out |-> {}, vol |-> {}]}
    [] OTHER -> {}]
MCAmends == [s \in MCStep |->
  CASE s = work -> {[inp |-> {part}, out |-> {}, vol |-> {}]}
    [] s = sub -> {[inp |-> {}, out |-> {}, vol |-> {prod}]}
    [] OTHER -> {}]
=============================================================================
