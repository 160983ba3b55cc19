---------------------------- MODULE MCEmailSequences ----------------------------
\* Three enrollments, the first two of one contact.
EXTENDS EmailSequences
CONSTANTS e1, e2, e3, a, b

MCContactOf == [e \in Enrollment |-> IF e = e3 THEN b ELSE a]
MCPlans == {<<"send">>, <<"send", "send">>, <<"draft", "hasty">>}
=============================================================================
