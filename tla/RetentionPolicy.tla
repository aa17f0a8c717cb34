--------------------------- MODULE RetentionPolicy ---------------------------
(***************************************************************************)
(* What the retention policies of a repository select, as a function of    *)
(* its inventory and the time: evaluateLifecycle of                        *)
(* backend/internal/registry/application/lifecycle_service.go.             *)
(*                                                                         *)
(* A row carries, besides what ManifestGraph needs, its attached tags, the *)
(* time of its last push (or of its first sighting) and the time since     *)
(* which it is untagged, or Never.  A criterion of a policy is a limit, or *)
(* Off when it is not enabled.                                             *)
(***************************************************************************)
EXTENDS ManifestGraph

CONSTANTS Never,   \* no time
          Off      \* a criterion that is not enabled

\* matchesAnyTag: no pattern at all matches every tag.
Matches(policy, tag) == policy.patterns = {} \/ tag \in policy.patterns

Retaining(policies) == {p \in policies : p.enabled /\ p.type = "retention"}

\* Policies that keep the tags they name out of retention; without patterns
\* they keep none.
KeepsOut(p) == p.enabled /\ (p.exclude \/ (p.type = "tag_protection" /\ p.preventDeletion))

\* Digests with a tag that some policy keeps out of retention.
Protected(policies, inv) ==
  {d \in DOMAIN inv : \E p \in policies : KeepsOut(p) /\ inv[d].tags \cap p.patterns # {}}

\* Subjects of rows that are not deleted; a missing referrer still counts.
Subjects(inv) == {inv[m].subject : m \in {x \in DOMAIN inv : inv[x].state # "deleted"}}

\* The tagged manifests a policy is about.
Matching(p, inv) ==
  {d \in DOMAIN inv : ~IsHistory(inv[d]) /\ \E t \in inv[d].tags : Matches(p, t)}

\* The sets that may be "the latest keepLast artifacts": the sort is by time
\* alone, so manifests of one time may come in either order.
LatestSets(p, inv) ==
  LET all == Matching(p, inv)
      size == IF p.keepLast = Off THEN 0
              ELSE IF p.keepLast < Cardinality(all) THEN p.keepLast ELSE Cardinality(all)
  IN {K \in SUBSET all : /\ Cardinality(K) = size
                         /\ \A k \in K, d \in all \ K : inv[k].at >= inv[d].at}

Untagged(inv) == {d \in DOMAIN inv : inv[d].state = "untagged" /\ inv[d].since # Never}

\* The manifests policy p gives a reason to keep, its latest ones being K.
Keeps(p, inv, now, K) ==
  K \cup {d \in Matching(p, inv) \ K :
            p.expireAfter # Off /\ inv[d].at > now - p.expireAfter}
    \cup {d \in Untagged(inv) : p.grace # Off /\ inv[d].since > now - p.grace}

\* The manifests policy p gives a reason to delete.
Selects(p, inv, now, K) ==
  {d \in Matching(p, inv) \ K :
     IF p.expireAfter # Off THEN inv[d].at <= now - p.expireAfter ELSE p.keepLast # Off}
  \cup {d \in Untagged(inv) : p.grace # Off /\ inv[d].since <= now - p.grace}

\* Fault: one policy that selects a manifest is enough.
EligibleForAny(policies, inv, now, latest) ==
  {d \in DOMAIN inv :
     /\ ~IsHistory(inv[d])
     /\ \E p \in Retaining(policies) : d \in Selects(p, inv, now, latest[p])
     /\ d \notin Protected(policies, inv)
     /\ inv[d].subject = NoSubject
     /\ d \notin Subjects(inv)}

\* Some policy selects it, none keeps it, and nothing blocks it.  The other
\* decisions, retained and blocked, differ in what is shown only.
Eligible(policies, inv, now, latest) ==
  {d \in DOMAIN inv :
     /\ ~IsHistory(inv[d])
     /\ \E p \in Retaining(policies) : d \in Selects(p, inv, now, latest[p])
     /\ \A p \in Retaining(policies) : d \notin Keeps(p, inv, now, latest[p])
     /\ d \notin Protected(policies, inv)
     /\ inv[d].subject = NoSubject
     /\ d \notin Subjects(inv)}

\* One choice of the latest artifacts per retention policy.
Rankings(policies, inv) ==
  {f \in [Retaining(policies) -> SUBSET DOMAIN inv] :
     \A p \in Retaining(policies) : f[p] \in LatestSets(p, inv)}

\* The eligible digests with their tags, in every way ties can fall.  Without
\* an enabled retention policy there is no evaluation.
Evaluations(policies, inv, now) ==
  {[d \in Eligible(policies, inv, now, f) |-> inv[d].tags] : f \in Rankings(policies, inv)}
=============================================================================
