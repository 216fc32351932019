------------------------------ MODULE MCOutbox ------------------------------
EXTENDS Outbox, TLC

CONSTANTS e1, e2, r1, r2

\* Two runs that end at different times, each owing one event.
MCOwes == r1 :> <<e1>> @@ r2 :> <<e2>>
=============================================================================
