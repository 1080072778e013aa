------------------------------ MODULE MCLimiter ------------------------------
(***************************************************************************)
(* A small instance of Limiter: two callers, one target with every kind of *)
(* limit, in units of a third of a minute.                                 *)
(***************************************************************************)
EXTENDS Limiter, TLC

CONSTANTS c1, c2, solo

OneKey == [t \in Target |-> "k"]
SoloMaxConcurrency == [t \in Target |-> 1]
SoloRpm == [t \in Target |-> 2]
SoloTpm == [t \in Target |-> 3]
SoloRpd == [t \in Target |-> 3]
SoloTokens == (c1 :> 1) @@ (c2 :> 2)
=============================================================================
