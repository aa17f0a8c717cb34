----------------------- MODULE MCInventoryTransactions -----------------------
(***************************************************************************)
(* An image of one platform, tagged; another manifest, and another tag.    *)
(***************************************************************************)
EXTENDS InventoryTransactions, TLC

CONSTANTS image, arm, other, latest, stable

MCDigests == {image, arm, other}
MCPlatformsOf == (image :> <<arm>>) @@ [d \in {arm, other} |-> <<d>>]
MCSubjectOf == [d \in Digests |-> NoSubject]
MCInitialTags == (latest :> image) @@ (stable :> Nothing)

Interchangeable == Permutations(Handlers)
=============================================================================
