------------------------- MODULE MCArtifactDeletion -------------------------
(***************************************************************************)
(* A two-platform image tagged latest; a second index and a signature that *)
(* clients may push; another tag that may come to point at anything.       *)
(***************************************************************************)
EXTENDS ArtifactDeletion, TLC

CONSTANTS image, arm, amd, other, signature, latest, stable, c1, admin

MCDigests == {image, arm, amd, other, signature}
MCTags == {latest, stable}
MCPlatformsOf == (image :> <<arm, amd>>) @@ (other :> <<arm>>)
                 @@ [d \in {arm, amd, signature} |-> <<d>>]
\* The signature is about the image.
MCSubjectOf == [d \in Digests |-> IF d = signature THEN image ELSE NoSubject]
MCInitialLive == {image, arm, amd}
MCInitialTags == (latest :> image) @@ (stable :> Nothing)
MCReferences == {latest, image}

\* Without the signature, for the runs in which pushes overlap.
PlainDigests == MCDigests \ {signature}
PlainPlatformsOf == [d \in PlainDigests |-> MCPlatformsOf[d]]
PlainInitialLive == MCInitialLive
StableOnly == {stable}
LatestOnly == {latest}
ChildOnly == {arm}

\* A nested index that the target lists after the leaf they share.
NestedDigests == MCDigests
NestedPlatformsOf == (image :> <<arm, other>>) @@ (other :> <<arm>>)
                     @@ [d \in {arm, amd, signature} |-> <<d>>]
NestedInitialLive == {image, arm, other}

\* Every phase but those between the last reads and a delete.
OutsideWindow == Reading \cup {"livetags", "mark"}

Interchangeable == Permutations(Jobs)

\* Bounds what deletion_overlap explores: two pushes during the three handlers
\* of one administrator, or four handlers of two administrators and no push.
PushesOrTwoAdministrators ==
  pushes > 0 =>
    /\ starts <= 3
    /\ Cardinality({j \in Jobs : job[j] # NoJob \/ record[j] # NoRecord}) <= 1
=============================================================================
