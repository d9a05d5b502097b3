--------------------------- MODULE MCMediaJournal ---------------------------
(***************************************************************************)
(* MediaJournal on small instances: two captures, a photo or timed round (r1) *)
(* and the rounds the free practice screen would create (f1, f2); quotas that  *)
(* hold one full take, a full one and a small one, and two.                    *)
(***************************************************************************)
EXTENDS MediaJournal, TLC

CONSTANTS t1, t2, r1, f1, f2

MCQuotaBytes == "small" :> 2 @@ "default" :> 3 @@ "large" :> 5
MCFreeRound  == t1 :> f1 @@ t2 :> f2

=============================================================================
