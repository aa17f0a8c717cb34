----------------------------- MODULE MCRetention -----------------------------
(***************************************************************************)
(* A two-platform image tagged latest and an older image tagged v1.  A day *)
(* of a policy is longer than any run of the model: what is there at first *)
(* is old, what is pushed meanwhile is young.                              *)
(***************************************************************************)
EXTENDS Retention, TLC

CONSTANTS image, arm, older, latest, v1, first, second, e1, e2

MCDigests == {image, arm, older}
MCTags == {latest, v1}
MCPlatformsOf == (image :> <<arm>>) @@ (arm :> <<arm>>) @@ (older :> <<older>>)
MCSubjectOf == [d \in Digests |-> NoSubject]
MCInitialTags == (latest :> image) @@ (v1 :> older)
LongAgo == -10
MCInitialRows ==
  [d \in Digests |-> [state |-> IF d = arm THEN "untagged" ELSE "active", at |-> LongAgo,
                      since |-> IF d = arm THEN LongAgo ELSE Never]]
MCItemOrder == <<arm, image, older>>
MCPushable == {<<older, latest>>, <<arm, v1>>}
NoPushes == {}
Interchangeable == Permutations({e1, e2}) \cup Permutations({first, second})

Policy == [type |-> "retention", enabled |-> TRUE, patterns |-> {}, exclude |-> FALSE,
           preventDeletion |-> FALSE, keepLast |-> Off, expireAfter |-> Off, grace |-> Off]
Expiring == [Policy EXCEPT !.expireAfter = 5]
Keeping == [Policy EXCEPT !.type = "tag_protection", !.patterns = {v1}, !.exclude = TRUE]
MCPolicySets == {{Expiring}, {Expiring, Keeping}}

\* The latest artifact is kept, and what has been untagged for five days goes.
GracePolicySets == {{[Policy EXCEPT !.keepLast = 2, !.grace = 5]}}
=============================================================================
