------------------------------ MODULE MCShcRun ------------------------------
\* Two submissions to one account for TLC: one with the bootstrap's own kill
\* switch, one with the bounded key's timer.
EXTENDS ShcRun

CONSTANTS a, b

OwnSwitch == [r \in Run |-> IF r = a THEN "loop" ELSE "timer"]
=============================================================================
