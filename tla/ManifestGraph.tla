---------------------------- MODULE ManifestGraph ----------------------------
(***************************************************************************)
(* What a manifest deletion may take with it, as a function of the         *)
(* inventory of one repository:                                            *)
(* backend/internal/registry/application/manifest_deletion.go.             *)
(*                                                                         *)
(* An inventory is a function from the digests that have a row to rows     *)
(*   [state, tagged, subject, platforms]                                   *)
(* where "tagged" says whether a tag row that is not detached points at    *)
(* the manifest, and "platforms" lists the digests of the platform rows: a *)
(* leaf has one row that names itself, an index one row per child.         *)
(***************************************************************************)
EXTENDS Integers, Sequences, FiniteSets

CONSTANTS Digests,    \* manifest digests
          NoSubject   \* the manifest refers to no subject

ASSUME GraphAssumption == NoSubject \notin Digests /\ IsFiniteSet(Digests)

States == {"active", "untagged", "missing", "deleted"}

Rows == [state : States,
         tagged : BOOLEAN,
         subject : Digests \cup {NoSubject},
         platforms : Seq(Digests)]

IsInventory(inv) == DOMAIN inv \subseteq Digests /\ \A d \in DOMAIN inv : inv[d] \in Rows

\* A missing or deleted row is history: Distribution no longer has it.
IsHistory(row) == row.state \in {"missing", "deleted"}

PlatformSet(row) == {row.platforms[i] : i \in DOMAIN row.platforms}

\* The manifests an index lists; a leaf lists itself, which is no edge.
Children(inv, d) == PlatformSet(inv[d]) \ {d}

\* S holds every manifest its known members list.  The walk goes through
\* history rows too, but a digest without a row leads nowhere.
ClosedUnderChildren(inv, S) ==
  \A d \in S \cap DOMAIN inv : Children(inv, d) \subseteq S

\* The manifests the walk from target can find, target among them.
Descendants(inv, target) ==
  {d \in Digests : \A S \in SUBSET Digests :
                     target \in S /\ ClosedUnderChildren(inv, S) => d \in S}

\* hasExternalManifestReference: a live row refers to d as its subject, or a
\* live row outside the deletion lists d.
HasExternalReference(inv, d, deletion) ==
  \E m \in DOMAIN inv :
    /\ ~IsHistory(inv[m])
    /\ \/ inv[m].subject = d
       \/ m \notin deletion /\ d \in PlatformSet(inv[m])

\* May d go when the manifests of deletion go together?
Removable(inv, d, deletion) ==
  /\ d \in DOMAIN inv
  /\ ~IsHistory(inv[d])
  /\ ~inv[d].tagged
  /\ inv[d].subject = NoSubject
  /\ ~HasExternalReference(inv, d, deletion)

\* Sets of descendants that can all go together with target.
SafePlans(inv, target) ==
  {S \in SUBSET (Descendants(inv, target) \ {target}) :
     \A d \in S : Removable(inv, d, S \cup {target})}

\* The children to delete with target: the largest safe plan.  A union of
\* safe plans is a safe plan, since a larger deletion only has fewer
\* references from outside.
DeletionPlan(inv, target) == UNION SafePlans(inv, target)

-----------------------------------------------------------------------------
(***************************************************************************)
(* The order of the plan: breadth first, in the order of the platform rows.*)
(***************************************************************************)
InSeq(d, seq) == \E i \in DOMAIN seq : seq[i] = d

\* found[n] is the worklist once the first n platforms of d were looked at.
AppendNew(seq, platforms) ==
  LET found[n \in 0 .. Len(platforms)] ==
        IF n = 0 THEN seq
        ELSE IF InSeq(platforms[n], found[n - 1]) THEN found[n - 1]
             ELSE Append(found[n - 1], platforms[n])
  IN found[Len(platforms)]

\* The worklist after each of its members was expanded.
Discovery(inv, target) ==
  LET walk[n \in 0 .. Cardinality(Digests)] ==
        IF n = 0 THEN <<target>>
        ELSE IF n > Len(walk[n - 1]) \/ walk[n - 1][n] \notin DOMAIN inv
             THEN walk[n - 1]
             ELSE AppendNew(walk[n - 1], inv[walk[n - 1][n]].platforms)
  IN walk[Cardinality(Digests)]

\* The members of S in seq, in the order of seq; kept[n] is what the first n
\* positions leave.
Within(seq, S) ==
  LET kept[n \in 0 .. Len(seq)] ==
        IF n = 0 THEN <<>>
        ELSE IF seq[n] \in S THEN Append(kept[n - 1], seq[n])
             ELSE kept[n - 1]
  IN kept[Len(seq)]

\* deletionChildDigests as a function: the plan, in order of discovery.
PlannedChildren(inv, target) ==
  Within(Tail(Discovery(inv, target)), DeletionPlan(inv, target) \cup {target})
=============================================================================
