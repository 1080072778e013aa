------------------------------ MODULE Rotation ------------------------------
(***************************************************************************)
(* How a round-robin profile spreads its requests when every call          *)
(* succeeds: each request takes the next rotation of the list (s.rotation, *)
(* under s.mu) and is served by the first target that is switched on.      *)
(***************************************************************************)
EXTENDS TargetOrder

CONSTANTS Listed, Level, \* targets, and the priorities they may have
          MaxRequests    \* bound on the requests served

ASSUME RotationAssumption == IsFiniteSet(Listed) /\ Level \subseteq Nat /\ MaxRequests \in Nat

VARIABLES list,     \* profile.Targets
          priority, \* of the targets
          disabled, \* the targets switched off
          offset,   \* s.rotation[profile.ID]
          served    \* history: requests each target served

rotationVars == <<list, priority, disabled, offset, served>>
-----------------------------------------------------------------------------
\* NormalizeExecutionProfiles sorted the list; nothing orders it within a tier.
\* A list of one target is not rotated and left out.
RotationInit ==
  /\ priority \in [Listed -> Level]
  /\ \E n \in 2..Cardinality(Listed) : list \in [1..n -> Listed]
  /\ \A i, j \in DOMAIN list :
       i < j => list[i] # list[j] /\ priority[list[i]] <= priority[list[j]]
  /\ disabled \in SUBSET {list[i] : i \in DOMAIN list}
  /\ offset = 0
  /\ served = [t \in Listed |-> 0]

Order == TargetsFor(list, priority, TRUE, offset)

\* Where the loop of tryTargets stops: its first target that is on.
Serving == {i \in DOMAIN Order : Order[i] \notin disabled /\ \A j \in 1..(i - 1) : Order[j] \in disabled}

Serve ==
  /\ offset < MaxRequests
  /\ offset' = IF CountsRotation(list, TRUE) THEN offset + 1 ELSE offset
  /\ served' = [t \in Listed |-> IF t \in {Order[i] : i \in Serving} THEN served[t] + 1 ELSE served[t]]
  /\ UNCHANGED <<list, priority, disabled>>

RotationSpec == RotationInit /\ [][Serve]_rotationVars
-----------------------------------------------------------------------------
\* Whatever the offset, each place of the order holds a target of the tier that
\* had it: "rotate ... while retaining ordered fallback across priority tiers"
\* (README.md:297).
TiersKept == \A i \in DOMAIN list : priority[Order[i]] = priority[list[i]]

\* No rotation loses a target of the list or tries one twice.
EveryTargetInOrder == {Order[i] : i \in DOMAIN list} = {list[i] : i \in DOMAIN list}

\* While all targets of the best tier are on, no two of them are ever more than
\* one request apart.
FairWhenAllOn ==
  LET best == {list[i] : i \in {j \in DOMAIN list : priority[list[j]] = priority[list[1]]}}
  IN  best \cap disabled = {} =>
        \A s, t \in best : served[s] - served[t] \in -1..1

=============================================================================
