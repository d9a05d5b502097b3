-------------------------- MODULE MCPracticeUploads --------------------------
(* Instances of PracticeUploads for TLC.                                    *)
EXTENDS PracticeUploads, TLC

CONSTANTS r1, k1, k2

\* A take, and a second upload of it under another key.
FirstTake == [key |-> k1, recording |-> r1, bytes |-> 1, audio |-> TRUE]
Again     == [key |-> k2, recording |-> r1, bytes |-> 1, audio |-> TRUE]

MCOneTake == {FirstTake, Again}

\* A take of each recording, under a key of its own.
MCTakes == {[key |-> r, recording |-> r, bytes |-> 1, audio |-> TRUE] : r \in Recordings}

\* Bound of the run on the cap: it goes no further once a deletion is answered or two
\* requests have met on one recording.
MCApart == deleteAcked = {} /\ overlapped = {}

MCAlike == Permutations(Recordings) \union Permutations(Calls)
=============================================================================
