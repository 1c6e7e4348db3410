---------------------------- MODULE MCWorkbench -----------------------------
\* Two clients on one machine, one of them followed, and two tasks.
EXTENDS Workbench

CONSTANTS p1, p2, indented, broken, greet, margin, h

\* What it prints is right for the task whose output is indented, once the
\* carriage return and the blanks at the end are off, and wrong for the other.
MCPrints == [c \in Builds |-> <<Space, h, Space, CR, Newline>>]

MCExpected == [t \in Task |-> IF t = greet THEN <<h>> ELSE <<Space, h, Newline>>]

\* The text that does not build is what the first task wants to be printed.
MCTyped == [c \in Code |-> IF c = broken THEN <<h, Newline>> ELSE <<h, Space, h>>]
=============================================================================
