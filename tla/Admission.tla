------------------------------ MODULE Admission ------------------------------
(***************************************************************************)
(* What internal/execution promises of the calls it makes: a gate that     *)
(* remembers every call it ever let through and counts them by the limits  *)
(* of their targets.  The limiter decides on less: a counter per key, the  *)
(* events it has not pruned, and what a restart could load.                *)
(***************************************************************************)
EXTENDS Integers, FiniteSets, FiniteSetsExt

CONSTANTS Caller, Target, NoTarget, MaxConcurrency, Rpm, Tpm, Rpd, Tokens, Minute, Day,
          Id  \* what tells two calls of one moment apart

VARIABLES
  clock,
  calls,     \* the target each caller is calling
  admitted   \* calls ever let through to a target with a budget

admissionVars == <<clock, calls, admitted>>
-----------------------------------------------------------------------------
AdmissionInit == clock = 0 /\ calls = [c \in Caller |-> NoTarget] /\ admitted = {}

CallsTo(t) == {c \in Caller : calls[c] = t}
LastMinute(t) == {e \in admitted : e.target = t /\ e.at > clock - Minute}
Today(t) == {e \in admitted : e.target = t /\ e.at \div Day = clock \div Day}

TokensOf(S) == MapThenSumSet(LAMBDA e : e.tokens, S)

HasRoom(t) == MaxConcurrency[t] > 0 => Cardinality(CallsTo(t)) < MaxConcurrency[t]
HasBudget(t, n) ==
  /\ Rpm[t] > 0 => Cardinality(LastMinute(t)) < Rpm[t]
  /\ Tpm[t] > 0 => TokensOf(LastMinute(t)) + n <= Tpm[t]
  /\ Rpd[t] > 0 => Cardinality(Today(t)) < Rpd[t]
Budgeted(t) == Rpm[t] > 0 \/ Tpm[t] > 0 \/ Rpd[t] > 0

Admit(c, t) ==
  /\ calls[c] = NoTarget /\ HasRoom(t) /\ HasBudget(t, Tokens[c])
  /\ calls' = [calls EXCEPT ![c] = t]
  /\ IF Budgeted(t)
     THEN \E n \in Id :
            LET e == [id |-> n, target |-> t, at |-> clock, tokens |-> Tokens[c]]
            IN  e \notin admitted /\ admitted' = admitted \cup {e}
     ELSE UNCHANGED admitted
  /\ UNCHANGED clock
CallEnds(c) == calls[c] # NoTarget /\ calls' = [calls EXCEPT ![c] = NoTarget] /\ UNCHANGED <<clock, admitted>>
AllCallsLost == calls' = [c \in Caller |-> NoTarget] /\ UNCHANGED <<clock, admitted>>
TimePasses == clock' = clock + 1 /\ UNCHANGED <<calls, admitted>>

AdmissionNext ==
  \/ \E c \in Caller : CallEnds(c) \/ \E t \in Target : Admit(c, t)
  \/ AllCallsLost \/ TimePasses
AdmissionSpec == AdmissionInit /\ [][AdmissionNext]_admissionVars
=============================================================================
