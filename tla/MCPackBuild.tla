---------------------------- MODULE MCPackBuild ----------------------------
EXTENDS PackBuild, TLC

CONSTANTS a, b

\* Two files with one clip and a third that is missing or has another.
MCInitFiles ==
    {[g \in Groups |-> IF g = 1 THEN a ELSE IF g = 2 THEN a ELSE None],
     [g \in Groups |-> IF g = 1 THEN a ELSE IF g = 2 THEN b ELSE a]}
=============================================================================
