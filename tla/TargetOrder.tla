----------------------------- MODULE TargetOrder -----------------------------
(***************************************************************************)
(* The order in which one execution tries a profile's targets: targetsFor  *)
(* in internal/execution/limiter.go.  The list it is given is sorted by    *)
(* priority (NormalizeExecutionProfiles), so a tier is an interval of it.  *)
(***************************************************************************)
EXTENDS Integers, Sequences, FiniteSets, FiniteSetsExt

\* The positions of the tier that position i of list belongs to.
Tier(list, priority, i) == {j \in DOMAIN list : priority[list[j]] = priority[list[i]]}

\* Mutant: rotates the whole list, across tiers.
RotatedAcross(list, priority, offset) ==
  [i \in DOMAIN list |-> list[((i - 1 + offset) % Len(list)) + 1]]

\* Mutant: the shift wraps with the list instead of with the tier.
RotatedByList(list, priority, offset) ==
  [i \in DOMAIN list |->
     LET tier  == Tier(list, priority, i)
         first == Min(tier)
     IN  list[first + ((i - first + (offset % Len(list))) % Cardinality(tier))]]

\* Every tier rotated left by offset; tiers keep their places.
Rotated(list, priority, offset) ==
  [i \in DOMAIN list |->
     LET tier  == Tier(list, priority, i)
         first == Min(tier)
     IN  list[first + ((i - first + offset) % Cardinality(tier))]]

\* targetsFor: an ordered profile, or one with a single target, is not rotated
\* and does not count.
TargetsFor(list, priority, roundRobin, offset) ==
  IF roundRobin /\ Len(list) >= 2 THEN Rotated(list, priority, offset) ELSE list

CountsRotation(list, roundRobin) == roundRobin /\ Len(list) >= 2
=============================================================================
