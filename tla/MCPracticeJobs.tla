--------------------------- MODULE MCPracticeJobs ---------------------------
(* Instances of PracticeJobs for TLC.                                       *)
EXTENDS PracticeJobs

CONSTANTS r1, k1, k2

\* A coaching request, a request for measurements only on the same recording,
\* and a second coaching request.
Coached  == [key |-> k1, recording |-> r1, coaching |-> TRUE,  amount |-> 0]
Measured == [key |-> k2, recording |-> r1, coaching |-> FALSE, amount |-> 0]
Second   == [key |-> k2, recording |-> r1, coaching |-> TRUE,  amount |-> 0]

MCRequests      == {Coached, Measured}
MCPaidRequests  == {Coached, Second}

MCMonth == [t \in 0..MaxTime |-> t \div 3]
=============================================================================
