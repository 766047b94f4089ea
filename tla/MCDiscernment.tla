----------------------------- MODULE MCDiscernment ----------------------------
EXTENDS DiscernmentProperties, TLC

Busy == [costs |-> <<3, 4, 6>>, scores |-> <<9, 9, 5>>, executions |-> 2]

NoCustom  == {{}}
OneStore  == {Busy}

CONSTANT f1
Retire   == [target |-> f1, action |-> "retire"]
Optimize == [target |-> f1, action |-> "optimize"]
Keep     == [target |-> f1, action |-> "keep"]

Some == {<< >>, <<Keep>>, <<Retire>>, <<Optimize, Retire>>}
=============================================================================
