----------------------- MODULE ArtifactDeletionProofs -----------------------
(***************************************************************************)
(* Proofs about the inventory of a repository and about deletions, for     *)
(* every set of manifests, tags, clients and handlers, every shape of the  *)
(* manifests, and pushes, failures and lost observations at every step     *)
(* unless a theorem says otherwise.  Transactions are those of SQLite:     *)
(* each is one step of ArtifactDeletion.                                   *)
(*                                                                         *)
(* ActiveIffTagged alone is not inductive: a reconciliation commits the    *)
(* tags it fetched many steps ago, so the invariant IInv says of a handler *)
(* in the middle of one that each tag it found leads to a manifest it has  *)
(* seen.  ReconcileHeals needs that, as long as Distribution did not       *)
(* change, what a handler has read is what Distribution has.               *)
(*                                                                         *)
(* The properties of deletions relate what a handler read to the registry  *)
(* at its delete, many steps later.  DInv carries each of these facts from *)
(* the read to the delete, for the phases in which no client may push: the *)
(* tags of a round (WindowOK), the review and the referrers (ReviewOK),    *)
(* and, when all pushes fall between handlers, that the inventory a        *)
(* deletion lists accounts for all that is served (ListingOK), for which a *)
(* sweep must see all of it (SweepOK, LiveKnown).                          *)
(***************************************************************************)
EXTENDS ArtifactDeletion, ManifestGraphProofs, TLAPS

\* The local variables of a handler.
Fields == DOMAIN NoJob

IsHandler(h) == h = [f \in Fields |-> h[f]]

Shaped == job = [j \in Jobs |-> job[j]] /\ \A j \in Jobs : IsHandler(job[j])

\* The phases in which a handler holds what a reconciliation reads.
Sweeping == {"fetch", "probe", "commit"}

TypedRegistry == live \subseteq Digests /\ tagOf \in [Tags -> Digests \cup {Nothing}]

TypedInventory ==
  /\ row \in [Digests -> States \cup {"none"}]
  /\ tagRow \in [Tags -> Digests \cup {Nothing}]
  /\ attached \subseteq Tags

TypedPushes ==
  /\ push \in [Pushers -> [phase : {"idle", "pushed", "fetched"},
                           digest : Digests \cup {Nothing},
                           tag : Tags \cup {Nothing}]]
  /\ \A p \in Pushers : push[p].phase # "idle" => push[p].digest \in Digests

FoundIsSeen ==
  \A j \in Jobs : job[j].phase \in Sweeping =>
    /\ job[j].found \in [Tags -> Digests \cup {Nothing}]
    /\ job[j].seen \subseteq Digests
    /\ \A t \in Tags : job[j].found[t] # Nothing => job[j].found[t] \in job[j].seen

FoundIsCurrent ==
  \A j \in Jobs : job[j].phase \in Sweeping /\ ~job[j].dirty =>
    /\ job[j].seen \subseteq live
    /\ \A t \in Tags : (job[j].phase = "fetch" /\ t \in job[j].todo)
                       \/ job[j].found[t] = tagOf[t]

IInv == /\ TypedRegistry
        /\ TypedInventory
        /\ TypedPushes
        /\ Shaped
        /\ ActiveIffTagged
        /\ FoundIsSeen
        /\ FoundIsCurrent

-----------------------------------------------------------------------------
(***************************************************************************)
(* Facts about trees, referrers and handlers                               *)
(***************************************************************************)
\* A manifest belongs to its own tree, and a tree consists of manifests.
LEMMA TreeFacts == ASSUME NEW d \in Digests
                   PROVE d \in Tree[d] /\ Tree[d] \subseteq Digests
  BY DEF Tree, Descendants

\* The sweep over the referrers loses nothing it started from.
LEMMA SweepKeeps == ASSUME NEW S, S \subseteq Digests
                    PROVE S \subseteq WithReferrers(S) /\ WithReferrers(S) \subseteq Digests
  BY DEF WithReferrers

\* If every referrer the sweep meets can be fetched, it ends with manifests
\* that are served when it starts from such.
LEMMA SweepIsLive ==
  ASSUME NEW S, S \subseteq Digests, S \subseteq live, TypedRegistry,
         \A d \in WithReferrers(S) : \A r \in Referrers(d) : Fetchable(r)
  PROVE  WithReferrers(S) \subseteq live
<1> DEFINE all == WithReferrers(S)
           X == all \cap live
<1>1. X \in SUBSET Digests /\ S \subseteq X
  BY SweepKeeps
<1>2. ASSUME NEW s \in X, NEW r \in Referrers(s) PROVE Tree[r] \subseteq X
  <2>1. r \in Digests /\ Tree[r] \subseteq live
    BY <1>2 DEF Fetchable
  <2>2. Tree[r] \subseteq Digests
    BY <2>1, TreeFacts
  <2>3. ASSUME NEW Y \in SUBSET Digests, S \subseteq Y,
               \A s2 \in Y : \A r2 \in Referrers(s2) : Tree[r2] \subseteq Y
        PROVE  Tree[r] \subseteq Y
    <3>1. s \in Y
      BY <2>3 DEF WithReferrers
    <3> QED
      BY <3>1, <2>3, <1>2
  <2>4. Tree[r] \subseteq all
    BY <2>2, <2>3 DEF WithReferrers
  <2> QED
    BY <2>1, <2>4
<1>3. all \subseteq X
  BY <1>1, <1>2 DEF WithReferrers
<1> QED
  BY <1>3

LEMMA FieldNames ==
  Fields = {"phase", "goal", "reference", "todo", "found", "seen", "dirty", "view",
            "digest", "tags", "reviewed", "rest", "deleted", "outcome"}
  BY DEF Fields, NoJob

-----------------------------------------------------------------------------
(***************************************************************************)
(* The initial states                                                      *)
(***************************************************************************)
LEMMA InitIInv == Init => IInv
<1> SUFFICES ASSUME Init PROVE IInv
  OBVIOUS
<1> USE DeletionAssumption, ContentAssumption DEF Init
<1>1. TypedRegistry
  BY DEF TypedRegistry
<1>2. TypedInventory
  BY <1>1 DEF TypedRegistry, TypedInventory, States
<1>3. TypedPushes
  BY DEF TypedPushes, NoPush
<1>4. IsHandler(NoJob) /\ NoJob.phase = "idle"
  BY FieldNames DEF IsHandler, NoJob
<1>5. Shaped /\ FoundIsSeen /\ FoundIsCurrent
  BY <1>4 DEF Shaped, FoundIsSeen, FoundIsCurrent, Sweeping
<1>6. ActiveIffTagged
  BY <1>1 DEF ActiveIffTagged, TypedRegistry
<1> QED
  BY <1>1, <1>2, <1>3, <1>5, <1>6 DEF IInv

-----------------------------------------------------------------------------
(***************************************************************************)
(* Pushes                                                                  *)
(***************************************************************************)
\* When Distribution changes, running handlers are marked and stay as they
\* were otherwise.
LEMMA MarkDirtyFacts ==
  ASSUME Shaped
  PROVE  /\ MarkDirty = [j \in Jobs |-> MarkDirty[j]]
         /\ \A j \in Jobs :
              /\ IsHandler(MarkDirty[j])
              /\ MarkDirty[j].phase = job[j].phase
              /\ MarkDirty[j].found = job[j].found
              /\ MarkDirty[j].seen = job[j].seen
              /\ job[j].phase \in Sweeping => MarkDirty[j].dirty
<1>1. ASSUME NEW j \in Jobs, Running(j)
      PROVE  /\ IsHandler(MarkDirty[j])
             /\ MarkDirty[j].phase = job[j].phase
             /\ MarkDirty[j].found = job[j].found
             /\ MarkDirty[j].seen = job[j].seen
             /\ MarkDirty[j].dirty
  BY <1>1, FieldNames DEF Shaped, IsHandler, MarkDirty
<1>2. ASSUME NEW j \in Jobs, ~Running(j)
      PROVE  MarkDirty[j] = job[j] /\ job[j].phase \notin Sweeping
  BY <1>2 DEF MarkDirty, Running, Sweeping
<1>3. MarkDirty = [j \in Jobs |-> MarkDirty[j]]
  BY DEF MarkDirty
<1> QED
  BY <1>1, <1>2, <1>3 DEF Shaped

\* A push changes Distribution, not the tables: handlers in the middle of a
\* reconciliation become dirty.
LEMMA PublishIInv ==
  ASSUME IInv, NEW p \in Pushers, NEW d \in Digests, NEW t \in Tags \cup {Nothing},
         Publish(p, d, t)
  PROVE  IInv'
<1> USE DEF IInv
<1>1. TypedRegistry'
  BY DEF TypedRegistry, Publish
<1>2. TypedInventory' /\ ActiveIffTagged'
  BY DEF TypedInventory, ActiveIffTagged, Publish, inventory
<1>3. TypedPushes'
  BY DEF TypedPushes, Publish
<1>4. job' = MarkDirty
  BY DEF Publish
<1>5. Shaped' /\ FoundIsSeen' /\ FoundIsCurrent'
  BY <1>4, MarkDirtyFacts DEF Shaped, FoundIsSeen, FoundIsCurrent
<1> QED
  BY <1>1, <1>2, <1>3, <1>5

\* Reading a pushed manifest back, and losing an observation, touch only the
\* push.
LEMMA ObserveFetchIInv == ASSUME IInv, NEW p \in Pushers, ObserveFetch(p) PROVE IInv'
<1> USE DEF IInv
<1>1. TypedPushes'
  BY DEF TypedPushes, ObserveFetch, NoPush
<1> QED
  BY <1>1 DEF ObserveFetch, registry, inventory, TypedRegistry, TypedInventory, Shaped,
              ActiveIffTagged, FoundIsSeen, FoundIsCurrent

LEMMA ObservationLostIInv ==
  ASSUME IInv, NEW p \in Pushers, ObservationLost(p) PROVE IInv'
<1> USE DEF IInv
<1>1. TypedPushes'
  BY DEF TypedPushes, ObservationLost, NoPush
<1> QED
  BY <1>1 DEF ObservationLost, registry, inventory, TypedRegistry, TypedInventory, Shaped,
              ActiveIffTagged, FoundIsSeen, FoundIsCurrent

\* An observation that commits moves a tag row, and refreshes the manifest
\* the tag points at and the one it pointed at before.
LEMMA ObserveCommitIInv == ASSUME IInv, NEW p \in Pushers, ObserveCommit(p) PROVE IInv'
<1> USE DEF IInv
<1> DEFINE d == push[p].digest
           t == push[p].tag
<1>1. d \in Digests /\ t \in Tags \cup {Nothing}
  BY DEF ObserveCommit, TypedPushes
<1>2. d \in Tree[d] /\ Tree[d] \subseteq Digests
  BY <1>1, TreeFacts
<1>3. TypedRegistry' /\ Shaped' /\ FoundIsSeen' /\ FoundIsCurrent'
  BY DEF ObserveCommit, registry, TypedRegistry, Shaped, FoundIsSeen, FoundIsCurrent
<1>4. TypedPushes'
  BY DEF TypedPushes, ObserveCommit, NoPush
<1>5. tagRow' \in [Tags -> Digests \cup {Nothing}] /\ attached' \subseteq Tags
  BY <1>1 DEF TypedInventory, ObserveCommit
<1>6. ASSUME NEW x \in Digests
      PROVE  /\ row'[x] \in States \cup {"none"}
             /\ row'[x] = "active" <=> \E s \in attached' : tagRow'[s] = x
  <2>1. CASE x \in Tree[d]
    BY <1>1, <2>1 DEF ObserveCommit, Refreshed, States
  <2>2. CASE x \notin Tree[d] /\ t = Nothing
    BY <1>1, <1>2, <2>2, ContentAssumption
    DEF ObserveCommit, Refreshed, States, TypedInventory, ActiveIffTagged
  <2>3. CASE x \notin Tree[d] /\ t \in Tags /\ t # Nothing
    <3>1. \A s \in attached' : tagRow'[s] = x <=> s # t /\ s \in attached /\ tagRow[s] = x
      BY <1>1, <1>2, <2>3 DEF ObserveCommit, TypedInventory
    <3>2. (\E s \in attached' : tagRow'[s] = x) => row[x] = "active"
      BY <3>1 DEF ActiveIffTagged
    <3>3. CASE x = tagRow[t]
      BY <1>1, <2>3, <3>2, <3>3 DEF ObserveCommit, Refreshed, States, TypedInventory
    <3>4. CASE x # tagRow[t]
      <4>1. row'[x] = row[x]
        BY <1>1, <2>3, <3>4 DEF ObserveCommit, Refreshed
      <4>2. \A s \in attached : tagRow[s] = x => s # t /\ s \in attached'
        BY <2>3, <3>4 DEF ObserveCommit
      <4> QED
        BY <3>1, <4>1, <4>2 DEF ActiveIffTagged, TypedInventory
    <3> QED
      BY <3>3, <3>4
  <2> QED
    BY <1>1, <2>1, <2>2, <2>3
<1>7. row' \in [Digests -> States \cup {"none"}]
  <2>1. row' = [x \in Digests |-> row'[x]]
    BY DEF ObserveCommit, Refreshed
  <2> QED
    BY <1>6, <2>1
<1>8. TypedInventory' /\ ActiveIffTagged'
  BY <1>5, <1>6, <1>7 DEF TypedInventory, ActiveIffTagged
<1> QED
  BY <1>3, <1>4, <1>8

-----------------------------------------------------------------------------
(***************************************************************************)
(* Steps of one handler outside of a reconciliation's reads                *)
(***************************************************************************)
\* Handler j steps, the others stay, and j holds no reads of a sweep.
Outside(j) ==
  /\ job' = [k \in Jobs |-> IF k = j THEN job'[j] ELSE job[k]]
  /\ IsHandler(job'[j])
  /\ job'[j].phase \notin Sweeping

\* Such a step keeps the invariant when it leaves the stores alone.
LEMMA OutsideIInv ==
  ASSUME IInv, NEW j \in Jobs, Outside(j), UNCHANGED <<registry, inventory, push>>
  PROVE  IInv'
<1> USE DEF IInv
<1>1. TypedRegistry' /\ TypedInventory' /\ TypedPushes' /\ ActiveIffTagged'
  BY DEF registry, inventory, TypedRegistry, TypedInventory, TypedPushes, ActiveIffTagged
<1>2. \A k \in Jobs : job'[k] = IF k = j THEN job'[j] ELSE job[k]
  BY DEF Outside
<1>3. Shaped'
  BY <1>2 DEF Outside, Shaped
<1>4. FoundIsSeen' /\ FoundIsCurrent'
  BY <1>2 DEF Outside, FoundIsSeen, FoundIsCurrent, registry
<1> QED
  BY <1>1, <1>3, <1>4

LEMMA GaveUpOutside ==
  ASSUME Shaped, NEW j \in Jobs, job' = [job EXCEPT ![j] = GaveUp(j)]
  PROVE  Outside(j)
<1>1. IsHandler(GaveUp(j)) /\ GaveUp(j).phase \notin Sweeping
  BY FieldNames DEF IsHandler, GaveUp, NoJob, Sweeping
<1>2. job'[j] = GaveUp(j)
  BY DEF Shaped
<1> QED
  BY <1>1, <1>2 DEF Shaped, Outside

LEMMA HoldOutside ==
  ASSUME Shaped, NEW j \in Jobs, NEW next, IsHandler(next), next.phase \notin Sweeping,
         Hold(j, next)
  PROVE  Outside(j) /\ UNCHANGED <<registry, inventory, push>>
  BY DEF Hold, Shaped, Outside

LEMMA GiveUpOutside ==
  ASSUME Shaped, NEW j \in Jobs, GiveUp(j)
  PROVE  Outside(j) /\ UNCHANGED <<registry, inventory, push>>
  BY GaveUpOutside DEF GiveUp, Hold

LEMMA StartOutside ==
  ASSUME Shaped, NEW j \in Jobs, NEW goal, NEW reference, Start(j, goal, reference)
  PROVE  Outside(j) /\ UNCHANGED <<registry, inventory, push>>
<1> DEFINE next == [NoJob EXCEPT !.phase = "tags", !.goal = goal, !.reference = reference,
                                 !.reviewed = job[j].reviewed]
<1>1. IsHandler(next) /\ next.phase = "tags"
  BY FieldNames DEF IsHandler, NoJob
<1>2. job' = [job EXCEPT ![j] = next]
  BY DEF Start
<1> HIDE DEF next
<1> QED
  BY <1>1, <1>2 DEF Start, Shaped, Outside, Sweeping

\* The reads of a preview.
LEMMA PreviewOutside ==
  ASSUME Shaped, NEW j \in Jobs,
         ReadView(j) \/ ResolveTarget(j) \/ ReadAliases(j) \/ ListInventory(j)
  PROVE  Outside(j) /\ UNCHANGED <<registry, inventory, push>>
<1> USE FieldNames DEF Shaped, IsHandler, Outside, Hold, Sweeping
<1>1. CASE ReadView(j)
  BY <1>1 DEF ReadView
<1>2. CASE ResolveTarget(j)
  <2>1. CASE GiveUp(j)
    BY <2>1, GiveUpOutside
  <2>2. CASE ~GiveUp(j)
    <3>1. PICK digest : Hold(j, [job[j] EXCEPT !.phase = "aliases", !.digest = digest])
      BY <1>2, <2>2 DEF ResolveTarget
    <3>2. IsHandler([job[j] EXCEPT !.phase = "aliases", !.digest = digest])
      OBVIOUS
    <3> QED
      BY <3>1, <3>2
  <2> QED
    BY <2>1, <2>2
<1>3. CASE ReadAliases(j)
  <2>1. CASE GiveUp(j)
    BY <2>1, GiveUpOutside
  <2>2. CASE ~GiveUp(j)
    BY <1>3, <2>2 DEF ReadAliases
  <2> QED
    BY <2>1, <2>2
<1>4. CASE ListInventory(j)
  BY <1>4 DEF ListInventory
<1> QED
  BY <1>1, <1>2, <1>3, <1>4

\* The end of a preview, and the comparison with the one that was reviewed.
LEMMA ReadRelationsOutside ==
  ASSUME Shaped, NEW j \in Jobs, ReadRelations(j)
  PROVE  Outside(j) /\ UNCHANGED <<registry, inventory, push>>
<1> DEFINE d == job[j].digest
           children == PlannedChildren(job[j].view, d)
           preview == [digest |-> d, tags |-> job[j].tags, children |-> Elements(children)]
           reviewed == [NoJob EXCEPT !.phase = "reviewed", !.reviewed = preview,
                                     !.reference = job[j].reference]
           listing == [job[j] EXCEPT !.phase = "list", !.view = <<>>,
                                     !.rest = DeletionOrder(d, children)]
<1>1. GiveUp(j) \/ Hold(j, reviewed) \/ Hold(j, listing)
  BY DEF ReadRelations
<1>2. CASE GiveUp(j)
  BY <1>2, GiveUpOutside
<1>3. CASE Hold(j, reviewed)
  <2>1. IsHandler(reviewed) /\ reviewed.phase = "reviewed"
    BY FieldNames DEF IsHandler, NoJob
  <2> HIDE DEF reviewed
  <2> QED
    BY <1>3, <2>1, HoldOutside DEF Sweeping
<1>4. CASE Hold(j, listing)
  <2>1. IsHandler(listing) /\ listing.phase = "list"
    BY FieldNames DEF IsHandler, Shaped
  <2> HIDE DEF listing
  <2> QED
    BY <1>4, <2>1, HoldOutside DEF Sweeping
<1> QED
  BY <1>1, <1>2, <1>3, <1>4

\* What deleteManifestTree reads, and what it answers when it stops.
LEMMA FailedOutside ==
  ASSUME Shaped, NEW j \in Jobs, Failed(j)
  PROVE  Outside(j) /\ UNCHANGED <<registry, inventory, push>>
  BY FieldNames DEF Shaped, IsHandler, Outside, Hold, Sweeping, Failed

LEMMA RevalidationOutside ==
  ASSUME Shaped, NEW j \in Jobs,
         RecordStart(j) \/ ReadLiveTags(j) \/ Revalidate(j) \/ TargetVanished(j)
  PROVE  Outside(j) /\ UNCHANGED <<registry, inventory, push>>
<1> USE FieldNames DEF Shaped, IsHandler, Outside, Hold, Sweeping
<1>1. CASE RecordStart(j)
  BY <1>1 DEF RecordStart
<1>2. CASE ReadLiveTags(j)
  BY <1>2 DEF ReadLiveTags
<1>3. CASE Revalidate(j)
  <2>1. CASE Failed(j)
    BY <2>1, FailedOutside
  <2>2. CASE ~Failed(j)
    BY <1>3, <2>2 DEF Revalidate
  <2> QED
    BY <2>1, <2>2
<1>4. CASE TargetVanished(j)
  BY <1>4, FailedOutside DEF TargetVanished
<1> QED
  BY <1>1, <1>2, <1>3, <1>4

\* The record is completed, or something fails, where nothing is deleted.
LEMMA EndOutside ==
  ASSUME Shaped, NEW j \in Jobs,
         Complete(j) \/ ReadFails(j) \/ AuditFails(j) \/ DeleteFails(j) \/ MarkFails(j)
         \/ Crash(j)
  PROVE  Outside(j) /\ UNCHANGED <<registry, inventory, push>>
<1>1. CASE Complete(j)
  <2>1. IsHandler(NoJob) /\ NoJob.phase = "idle"
    BY FieldNames DEF IsHandler, NoJob
  <2> QED
    BY <1>1, <2>1 DEF Complete, Shaped, Outside, Sweeping
<1>2. CASE ReadFails(j) \/ Crash(j)
  BY <1>2, GiveUpOutside DEF ReadFails, Crash
<1>3. CASE AuditFails(j)
  BY <1>3, GaveUpOutside DEF AuditFails
<1>4. CASE DeleteFails(j)
  BY <1>4, FailedOutside DEF DeleteFails
<1>5. CASE MarkFails(j)
  <2>1. PICK todo : Hold(j, [job[j] EXCEPT !.outcome = "failed", !.todo = todo])
    BY <1>5 DEF MarkFails
  <2>2. job[j].phase = "mark"
    BY <1>5 DEF MarkFails
  <2> QED
    BY <2>1, <2>2, FieldNames DEF Shaped, IsHandler, Outside, Hold, Sweeping
<1> QED
  BY <1>1, <1>2, <1>3, <1>4, <1>5

-----------------------------------------------------------------------------
(***************************************************************************)
(* The reads of a reconciliation                                           *)
(***************************************************************************)
\* A step after which handler j holds reads that satisfy the invariant.
LEMMA HoldSweeping ==
  ASSUME IInv, NEW j \in Jobs, NEW next, IsHandler(next), Hold(j, next),
         next.found \in [Tags -> Digests \cup {Nothing}],
         next.seen \subseteq Digests,
         \A t \in Tags : next.found[t] # Nothing => next.found[t] \in next.seen,
         ~next.dirty => /\ next.seen \subseteq live
                        /\ \A t \in Tags : (next.phase = "fetch" /\ t \in next.todo)
                                           \/ next.found[t] = tagOf[t]
  PROVE  IInv'
<1> USE DEF IInv
<1>1. TypedRegistry' /\ TypedInventory' /\ TypedPushes' /\ ActiveIffTagged'
  BY DEF Hold, registry, inventory, TypedRegistry, TypedInventory, TypedPushes,
         ActiveIffTagged
<1>2. job' = [k \in Jobs |-> IF k = j THEN next ELSE job[k]]
  BY DEF Hold, Shaped
<1>3. Shaped'
  BY <1>2 DEF Shaped
<1>4. FoundIsSeen' /\ FoundIsCurrent'
  BY <1>2 DEF FoundIsSeen, FoundIsCurrent, Hold, registry
<1> QED
  BY <1>1, <1>3, <1>4

LEMMA GiveUpIInv == ASSUME IInv, NEW j \in Jobs, GiveUp(j) PROVE IInv'
  BY GiveUpOutside, OutsideIInv DEF IInv

\* The list of the tags: nothing is found yet, and what is not on the list
\* is not a tag.
LEMMA ListTagsIInv == ASSUME IInv, NEW j \in Jobs, ListTags(j) PROVE IInv'
<1> DEFINE next == [job[j] EXCEPT !.phase = "fetch",
                                  !.todo = {t \in Tags : tagOf[t] # Nothing},
                                  !.found = [t \in Tags |-> Nothing],
                                  !.seen = {}, !.dirty = FALSE]
<1>1. /\ IsHandler(next)
      /\ next.phase = "fetch" /\ next.todo = {t \in Tags : tagOf[t] # Nothing}
      /\ next.found = [t \in Tags |-> Nothing] /\ next.seen = {}
  BY FieldNames DEF IInv, Shaped, IsHandler
<1>2. Hold(j, next)
  BY DEF ListTags
<1> HIDE DEF next
<1> QED
  BY <1>1, <1>2, HoldSweeping

\* A tag and its tree.
LEMMA FetchTagIInv ==
  ASSUME IInv, NEW j \in Jobs, NEW t \in Tags, FetchTag(j, t) PROVE IInv'
<1> DEFINE next == [job[j] EXCEPT !.todo = @ \ {t},
                                  !.found[t] = tagOf[t],
                                  !.seen = @ \cup Tree[tagOf[t]]]
<1>1. CASE ~Fetchable(tagOf[t])
  BY <1>1, GiveUpIInv DEF FetchTag
<1>2. CASE Fetchable(tagOf[t])
  <2>1. /\ IsHandler(next)
        /\ next.phase = job[j].phase /\ next.todo = job[j].todo \ {t}
        /\ next.found = [job[j].found EXCEPT ![t] = tagOf[t]]
        /\ next.seen = job[j].seen \cup Tree[tagOf[t]]
        /\ next.dirty = job[j].dirty
    BY FieldNames DEF IInv, Shaped, IsHandler
  <2>2. Hold(j, next)
    BY <1>2 DEF FetchTag
  <2>3. job[j].phase = "fetch"
    BY DEF FetchTag
  <2>4. tagOf[t] \in Digests /\ Tree[tagOf[t]] \subseteq live
    BY <1>2 DEF Fetchable
  <2>5. tagOf[t] \in Tree[tagOf[t]] /\ Tree[tagOf[t]] \subseteq Digests
    BY <2>4, TreeFacts
  <2>6. /\ job[j].found \in [Tags -> Digests \cup {Nothing}]
        /\ job[j].seen \subseteq Digests
        /\ \A s \in Tags : job[j].found[s] # Nothing => job[j].found[s] \in job[j].seen
    BY <2>3 DEF IInv, FoundIsSeen, Sweeping
  <2>7. ~job[j].dirty => /\ job[j].seen \subseteq live
                         /\ \A s \in Tags : s \in job[j].todo \/ job[j].found[s] = tagOf[s]
    BY <2>3 DEF IInv, FoundIsCurrent, Sweeping
  <2> HIDE DEF next
  <2>8. /\ next.found \in [Tags -> Digests \cup {Nothing}]
        /\ next.seen \subseteq Digests
        /\ \A s \in Tags : next.found[s] # Nothing => next.found[s] \in next.seen
    BY <2>1, <2>4, <2>5, <2>6
  <2>9. ~next.dirty => /\ next.seen \subseteq live
                       /\ \A s \in Tags : (next.phase = "fetch" /\ s \in next.todo)
                                          \/ next.found[s] = tagOf[s]
    BY <2>1, <2>3, <2>4, <2>6, <2>7
  <2> QED
    BY <2>1, <2>2, <2>8, <2>9, HoldSweeping
<1> QED
  BY <1>1, <1>2

\* Known manifests that no tag led to are looked up next.
LEMMA ListKnownIInv == ASSUME IInv, NEW j \in Jobs, ListKnown(j) PROVE IInv'
<1>1. PICK todo : Hold(j, [job[j] EXCEPT !.phase = "probe", !.todo = todo])
  BY DEF ListKnown
<1> DEFINE next == [job[j] EXCEPT !.phase = "probe", !.todo = todo]
<1>2. /\ IsHandler(next)
      /\ next.phase = "probe" /\ next.found = job[j].found
      /\ next.seen = job[j].seen /\ next.dirty = job[j].dirty
  BY FieldNames DEF IInv, Shaped, IsHandler
<1>3. job[j].phase = "fetch" /\ job[j].todo = {}
  BY DEF ListKnown
<1>4. Hold(j, next)
  BY <1>1
<1> HIDE DEF next
<1> QED
  BY <1>2, <1>3, <1>4, HoldSweeping DEF IInv, FoundIsSeen, FoundIsCurrent, Sweeping

\* A manifest looked up by its digest.
LEMMA ProbeIInv ==
  ASSUME IInv, NEW j \in Jobs, NEW d \in Digests, Probe(j, d) PROVE IInv'
<1>1. CASE GiveUp(j)
  BY <1>1, GiveUpIInv
<1>2. CASE ~GiveUp(j)
  <2>1. PICK more \in {{}, Tree[d]} :
          /\ more = {} \/ Fetchable(d)
          /\ \/ Hold(j, [job[j] EXCEPT !.todo = @ \ {d}, !.seen = @ \cup more])
             \/ more = {} /\ Hold(j, [job[j] EXCEPT !.todo = @ \ {d}])
    BY <1>2 DEF Probe
  <2> DEFINE IsNext(next) ==
               /\ IsHandler(next) /\ Hold(j, next)
               /\ next.phase = job[j].phase /\ next.found = job[j].found
               /\ next.seen = job[j].seen \cup more /\ next.dirty = job[j].dirty
             fetched == [job[j] EXCEPT !.todo = @ \ {d}, !.seen = @ \cup more]
             skipped == [job[j] EXCEPT !.todo = @ \ {d}]
  <2>2. PICK next : IsNext(next)
    <3>1. Hold(j, fetched) => IsNext(fetched)
      BY FieldNames DEF IInv, Shaped, IsHandler
    <3>2. more = {} /\ Hold(j, skipped) => IsNext(skipped)
      BY FieldNames DEF IInv, Shaped, IsHandler
    <3> QED
      BY <2>1, <3>1, <3>2
  <2>3. job[j].phase = "probe"
    BY DEF Probe
  <2>4. more \subseteq Digests /\ more \subseteq live
    BY <2>1, TreeFacts DEF Fetchable
  <2> QED
    BY <2>2, <2>3, <2>4, HoldSweeping DEF IInv, FoundIsSeen, FoundIsCurrent, Sweeping
<1> QED
  BY <1>1, <1>2

\* The sweep over the referrers.
LEMMA SweepReferrersIInv == ASSUME IInv, NEW j \in Jobs, SweepReferrers(j) PROVE IInv'
<1> DEFINE all == WithReferrers(job[j].seen)
           next == [job[j] EXCEPT !.phase = "commit", !.seen = all]
<1>1. CASE GiveUp(j)
  BY <1>1, GiveUpIInv
<1>2. CASE ~GiveUp(j)
  <2>1. /\ IsHandler(next)
        /\ next.phase = "commit" /\ next.found = job[j].found
        /\ next.seen = all /\ next.dirty = job[j].dirty
    BY FieldNames DEF IInv, Shaped, IsHandler
  <2>2. Hold(j, next) /\ \A d \in all : \A r \in Referrers(d) : Fetchable(r)
    BY <1>2 DEF SweepReferrers
  <2>3. job[j].phase = "probe"
    BY DEF SweepReferrers
  <2>4. job[j].seen \subseteq Digests
    BY <2>3 DEF IInv, FoundIsSeen, Sweeping
  <2>5. job[j].seen \subseteq all /\ all \subseteq Digests
    BY <2>4, SweepKeeps
  <2>6. ~job[j].dirty => all \subseteq live
    BY <2>2, <2>3, <2>4, SweepIsLive DEF IInv, FoundIsCurrent, Sweeping
  <2> HIDE DEF next, all
  <2> QED
    BY <2>1, <2>2, <2>3, <2>5, <2>6, HoldSweeping
    DEF IInv, FoundIsSeen, FoundIsCurrent, Sweeping
<1> QED
  BY <1>1, <1>2

-----------------------------------------------------------------------------
(***************************************************************************)
(* The steps that change the tables or Distribution                        *)
(***************************************************************************)
\* Such a step keeps what is said of the handlers when only handler j moves.
LEMMA OutsideKeepsHandlers ==
  ASSUME IInv, NEW j \in Jobs, Outside(j), UNCHANGED registry
  PROVE  Shaped' /\ FoundIsSeen' /\ FoundIsCurrent'
<1> USE DEF IInv
<1>1. \A k \in Jobs : job'[k] = IF k = j THEN job'[j] ELSE job[k]
  BY DEF Outside
<1>2. Shaped'
  BY <1>1 DEF Outside, Shaped
<1> QED
  BY <1>1, <1>2 DEF Outside, FoundIsSeen, FoundIsCurrent, registry

LEMMA CommitOutside ==
  ASSUME Shaped, NEW j \in Jobs, CommitReconcile(j) PROVE Outside(j)
<1> DEFINE next == IF job[j].goal = "sweep" THEN NoJob
                   ELSE [job[j] EXCEPT !.phase = "view", !.found = <<>>, !.seen = {}]
<1>1. job' = [job EXCEPT ![j] = next]
  BY DEF CommitReconcile
<1>2. CASE job[j].goal = "sweep"
  <2>1. IsHandler(NoJob) /\ NoJob.phase = "idle"
    BY FieldNames DEF IsHandler, NoJob
  <2> QED
    BY <1>1, <1>2, <2>1 DEF Shaped, Outside, Sweeping
<1>3. CASE job[j].goal # "sweep"
  BY <1>1, <1>3, FieldNames DEF Shaped, Outside, Sweeping, IsHandler
<1> QED
  BY <1>2, <1>3

\* A commit of a reconciliation: the tag rows that stay attached lead to
\* manifests it has seen, and those are refreshed.
LEMMA CommitIInv == ASSUME IInv, NEW j \in Jobs, CommitReconcile(j) PROVE IInv'
<1> USE DEF IInv
<1> DEFINE found == job[j].found
           seen == job[j].seen
           kept == {t \in Tags : found[t] # Nothing}
<1>1. TypedRegistry' /\ TypedPushes' /\ Shaped' /\ FoundIsSeen' /\ FoundIsCurrent'
  <2>1. Shaped' /\ FoundIsSeen' /\ FoundIsCurrent'
    BY CommitOutside, OutsideKeepsHandlers DEF CommitReconcile
  <2> QED
    BY <2>1 DEF CommitReconcile, registry, TypedRegistry, TypedPushes
<1>2. /\ found \in [Tags -> Digests \cup {Nothing}]
      /\ seen \subseteq Digests
      /\ \A t \in kept : found[t] \in seen
  BY DEF CommitReconcile, FoundIsSeen, Sweeping
<1>3. attached' = kept /\ tagRow' \in [Tags -> Digests \cup {Nothing}]
  BY <1>2 DEF CommitReconcile, TypedInventory
<1>4. \A t \in kept : tagRow'[t] = found[t]
  BY DEF CommitReconcile
<1>5. ASSUME NEW x \in Digests
      PROVE  /\ row'[x] \in States \cup {"none"}
             /\ row'[x] = "active" <=> \E t \in attached' : tagRow'[t] = x
  <2>1. CASE x \in seen
    BY <2>1 DEF CommitReconcile, Refreshed, States
  <2>2. CASE x \notin seen
    <3>1. ~ \E t \in attached' : tagRow'[t] = x
      BY <1>2, <1>3, <1>4, <2>2
    <3>2. row'[x] \in {"none", "deleted", "missing"}
      BY <2>2 DEF CommitReconcile, Refreshed
    <3> QED
      BY <3>1, <3>2 DEF States
  <2> QED
    BY <2>1, <2>2
<1>6. row' = [x \in Digests |-> row'[x]]
  BY DEF CommitReconcile, Refreshed
<1>7. TypedInventory' /\ ActiveIffTagged'
  BY <1>3, <1>5, <1>6 DEF TypedInventory, ActiveIffTagged
<1> QED
  BY <1>1, <1>7

\* What a deletion removes is marked: the tag rows of the manifest are
\* detached as its row leaves the active state.
LEMMA MarkDeletedIInv ==
  ASSUME IInv, NEW j \in Jobs, NEW d \in Digests, MarkDeleted(j, d) PROVE IInv'
<1> USE DEF IInv
<1>1. Outside(j)
  BY FieldNames DEF MarkDeleted, Shaped, IsHandler, Outside, Sweeping
<1>2. TypedRegistry' /\ TypedPushes' /\ Shaped' /\ FoundIsSeen' /\ FoundIsCurrent'
  BY <1>1, OutsideKeepsHandlers
  DEF MarkDeleted, registry, TypedRegistry, TypedPushes
<1>3. TypedInventory'
  BY DEF MarkDeleted, TypedInventory, States
<1>4. ASSUME NEW x \in Digests
      PROVE  row'[x] = "active" <=> \E t \in attached' : tagRow'[t] = x
  BY DEF MarkDeleted, TypedInventory, ActiveIffTagged
<1> QED
  BY <1>2, <1>3, <1>4 DEF ActiveIffTagged

\* A manifest leaves Distribution, and its tags with it: handlers in the
\* middle of a reconciliation become dirty.
LEMMA RemovalIInv ==
  ASSUME IInv, NEW j \in Jobs, NEW d, NEW next,
         IsHandler(next), next.phase \notin Sweeping,
         live' = live \ {d},
         tagOf' = [t \in Tags |-> IF tagOf[t] = d THEN Nothing ELSE tagOf[t]],
         job' = [MarkDirty EXCEPT ![j] = next],
         UNCHANGED <<inventory, push>>
  PROVE  IInv'
<1> USE DEF IInv
<1>1. TypedRegistry' /\ TypedInventory' /\ TypedPushes' /\ ActiveIffTagged'
  BY DEF inventory, TypedRegistry, TypedInventory, TypedPushes, ActiveIffTagged
<1>2. job' = [k \in Jobs |-> IF k = j THEN next ELSE MarkDirty[k]]
  BY MarkDirtyFacts
<1>3. Shaped'
  BY <1>2, MarkDirtyFacts DEF Shaped
<1>4. FoundIsSeen' /\ FoundIsCurrent'
  BY <1>2, MarkDirtyFacts DEF FoundIsSeen, FoundIsCurrent
<1> QED
  BY <1>1, <1>3, <1>4

LEMMA RemoveIInv == ASSUME IInv, NEW j \in Jobs, Remove(j) PROVE IInv'
<1> DEFINE d == Head(job[j].rest)
           rest == Tail(job[j].rest)
           deleted == job[j].deleted \cup ({d} \cap live)
           last == [job[j] EXCEPT !.phase = "mark", !.rest = rest, !.deleted = deleted,
                                  !.todo = deleted, !.outcome = "completed"]
           more == [job[j] EXCEPT !.phase = "livetags", !.rest = rest, !.deleted = deleted]
           next == IF rest = <<>> THEN last ELSE more
<1>1. IsHandler(last) /\ last.phase = "mark" /\ IsHandler(more) /\ more.phase = "livetags"
  BY FieldNames DEF IInv, Shaped, IsHandler
<1>2. /\ live' = live \ {d}
      /\ tagOf' = [t \in Tags |-> IF tagOf[t] = d THEN Nothing ELSE tagOf[t]]
      /\ job' = [MarkDirty EXCEPT ![j] = next]
      /\ UNCHANGED <<inventory, push>>
  BY DEF Remove
<1> HIDE DEF last, more, d, rest
<1>3. IsHandler(next) /\ next.phase \notin Sweeping
  BY <1>1 DEF Sweeping
<1> QED
  BY <1>2, <1>3, RemovalIInv

LEMMA DeleteAnswerLostIInv ==
  ASSUME IInv, NEW j \in Jobs, DeleteAnswerLost(j) PROVE IInv'
<1> DEFINE d == Head(job[j].rest)
           next == [job[j] EXCEPT !.phase = "mark", !.outcome = "failed",
                                  !.todo = job[j].deleted]
<1>1. IsHandler(next) /\ next.phase = "mark"
  BY FieldNames DEF IInv, Shaped, IsHandler
<1>2. /\ live' = live \ {d}
      /\ tagOf' = [t \in Tags |-> IF tagOf[t] = d THEN Nothing ELSE tagOf[t]]
      /\ job' = [MarkDirty EXCEPT ![j] = next]
      /\ UNCHANGED <<inventory, push>>
  BY DEF DeleteAnswerLost
<1> HIDE DEF next, d
<1> QED
  BY <1>1, <1>2, RemovalIInv DEF Sweeping

-----------------------------------------------------------------------------
(***************************************************************************)
(* The theorems about the inventory                                        *)
(***************************************************************************)
LEMMA StepIInv == IInv /\ [Next]_vars => IInv'
<1> SUFFICES ASSUME IInv, [Next]_vars PROVE IInv'
  OBVIOUS
<1>1. CASE UNCHANGED vars
  BY <1>1 DEF vars, registry, inventory, IInv, TypedRegistry, TypedInventory, TypedPushes,
              Shaped, ActiveIffTagged, FoundIsSeen, FoundIsCurrent
<1>2. ASSUME NEW p \in Pushers, Observe(p) PROVE IInv'
  BY <1>2, ObserveFetchIInv, ObserveCommitIInv, ObservationLostIInv DEF Observe
<1>3. ASSUME NEW p \in Pushers, NEW d \in Digests, NEW t \in Tags \cup {Nothing},
             Publish(p, d, t)
      PROVE  IInv'
  BY <1>3, PublishIInv
<1>4. ASSUME NEW j \in Jobs, Reconcile(j) PROVE IInv'
  BY <1>4, ListTagsIInv, FetchTagIInv, ListKnownIInv, ProbeIInv, SweepReferrersIInv,
     CommitIInv
  DEF Reconcile
<1>5. ASSUME NEW j \in Jobs, NEW goal, NEW r, Start(j, goal, r) PROVE IInv'
  BY <1>5, StartOutside, OutsideIInv DEF IInv
<1>6. ASSUME NEW j \in Jobs, Delete(j) PROVE IInv'
  <2>1. CASE Outside(j) /\ UNCHANGED <<registry, inventory, push>>
    BY <2>1, OutsideIInv
  <2>2. CASE Remove(j) \/ \E d \in Digests : MarkDeleted(j, d)
    BY <2>2, RemoveIInv, MarkDeletedIInv
  <2> QED
    BY <1>6, <2>1, <2>2, PreviewOutside, ReadRelationsOutside, RevalidationOutside, EndOutside
    DEF Delete, IInv
<1>7. ASSUME NEW j \in Jobs, Fail(j) PROVE IInv'
  <2>1. CASE Outside(j) /\ UNCHANGED <<registry, inventory, push>>
    BY <2>1, OutsideIInv
  <2>2. CASE DeleteAnswerLost(j)
    BY <2>2, DeleteAnswerLostIInv
  <2> QED
    BY <1>7, <2>1, <2>2, EndOutside DEF Fail, IInv
<1> QED
  BY <1>1, <1>2, <1>3, <1>4, <1>5, <1>6, <1>7 DEF Next

LEMMA SpecIInv == Spec => []IInv
  BY InitIInv, StepIInv, PTL DEF Spec

\* With transactions that do not overlap, those of SQLite, the two tables
\* agree in every reachable state, however the handlers' reads of Distribution,
\* their transactions and failures interleave: a manifest is active exactly
\* when a tag row that is not detached points at it.  On PostgreSQL it is not
\* so, see MissingDisappeared of InventoryTransactions.
THEOREM TablesAgree == Spec => []ActiveIffTagged
<1>1. IInv => ActiveIffTagged
  BY DEF IInv
<1> QED
  BY SpecIInv, <1>1, PTL

\* A reconciliation during which Distribution did not change leaves the tag
\* rows as the tags are and accounts only for manifests that are served,
\* whatever state earlier losses, overlaps and crashes left the tables in; its
\* transaction too overlaps no other.
THEOREM ReconciliationHeals == Spec => ReconcileHeals
<1> DEFINE Healed(j) ==
      /\ \A t \in Tags : IF t \in attached' THEN tagRow'[t] = tagOf[t]
                                            ELSE tagOf[t] = Nothing
      /\ \A d \in Digests : row'[d] \in {"active", "untagged"} => d \in live
<1>1. ASSUME IInv, NEW j \in Jobs, CommitReconcile(j), ~job[j].dirty PROVE Healed(j)
  <2> DEFINE found == job[j].found
             seen == job[j].seen
             kept == {t \in Tags : found[t] # Nothing}
  <2>1. /\ \A t \in Tags : found[t] = tagOf[t]
        /\ seen \subseteq live
        /\ \A t \in kept : found[t] \in seen
    BY <1>1 DEF IInv, CommitReconcile, FoundIsCurrent, FoundIsSeen, Sweeping
  <2>2. attached' = kept /\ \A t \in kept : tagRow'[t] = found[t]
    BY <1>1 DEF CommitReconcile
  <2>3. ASSUME NEW d \in Digests, d \notin seen PROVE row'[d] \notin {"active", "untagged"}
    BY <1>1, <2>3 DEF CommitReconcile, Refreshed
  <2> QED
    BY <2>1, <2>2, <2>3
<1>2. IInv => [\A j \in Jobs : CommitReconcile(j) /\ ~job[j].dirty => Healed(j)]_vars
  BY <1>1
<1> QED
  BY SpecIInv, <1>2, PTL DEF ReconcileHeals

-----------------------------------------------------------------------------
(***************************************************************************)
(* Deletions                                                               *)
(*                                                                         *)
(* What a handler has read is worth something at its delete only if        *)
(* nothing was pushed since.  Each part of the invariant is claimed for    *)
(* the constants under which clients do not push in the phases it is       *)
(* about; other handlers may delete meanwhile, which only takes away.      *)
(***************************************************************************)
\* Between the last look at the tags and the delete; from the comparison with
\* the review to the last delete.
Window == {"check", "remove"}
Planned == {"list", "record"} \cup Deleting

\* No client pushes while a handler is in one of these phases.
Undisturbed(phases) == OverlapPhases \cap phases = {}

\* One handler at a time, pushes between handlers, and none goes unobserved.
Quiet == OverlapPhases = {} /\ ~LoseObservations

Pending(p) == push[p].phase # "idle"

\* ToRevalidate, of the handler's local variables.
Round(h) == IF Head(h.rest) = h.digest THEN Elements(h.rest) \ {h.digest}
            ELSE {Head(h.rest)}

JobTyped(h) ==
  /\ h.phase \in Phases
  /\ h.goal \in {"none", "sweep", "preview", "execute"}
  /\ h.outcome \in {"none", "failed", "completed"}
  /\ h.seen \subseteq Digests /\ h.deleted \subseteq Digests
  /\ h.rest \in Seq(Digests)
  /\ IsInventory(h.view)
  /\ h.digest \in Digests \cup {Nothing}
  /\ h.phase \in {"aliases", "relations"} \cup Planned => h.digest \in Digests
  /\ h.phase \in Planned => h.rest # <<>> /\ h.goal = "execute"

\* What was read of the tags is still all there is, and what may go is not
\* below any of them but the target.
WindowOK(h) ==
  /\ h.phase \in Window => \A t \in Tags : tagOf[t] = Nothing \/ tagOf[t] \in h.seen
  /\ h.phase = "remove" =>
       \A c \in Round(h) :
         /\ c \notin h.seen
         /\ \A r \in (h.seen \ {h.digest}) \cap live : c \in Tree[r] => c = r

\* The target has no tags but the reviewed ones and no referrers, and what
\* may go has no referrers either.
ReviewOK(h) ==
  /\ h.phase \in {"relations"} \cup Planned =>
       /\ \A t \in Tags : tagOf[t] = h.digest => t \in h.tags
       /\ h.tags \cap ProtectedTags = {}
  /\ h.phase \in Planned => Referrers(h.digest) = {} /\ h.tags = h.reviewed.tags
  /\ h.phase = "remove" => \A c \in Round(h) : Referrers(c) = {}

\* What a sweep has still to see.
SweepOK(h) ==
  /\ h.phase = "probe" => live \subseteq h.seen \cup h.todo
  /\ h.phase = "commit" => live \subseteq h.seen

\* What was deleted is gone, and had a row.
GoneOK(h) ==
  /\ h.deleted \cap live = {}
  /\ \A d \in h.deleted : row[d] # "none"
  /\ h.phase = "mark" => h.todo \subseteq h.deleted

\* The inventory a deletion has listed accounts for all that is served, the
\* target goes first, and what goes is listed by nothing that is served.
ListingOK(h) ==
  /\ h.phase \in {"record"} \cup Deleting =>
       \A m \in live : /\ m \in DOMAIN h.view /\ ~IsHistory(h.view[m])
                       /\ h.view[m].platforms = PlatformsOf[m]
  /\ h.phase \in {"list", "record"} => Head(h.rest) = h.digest
  /\ h.phase \in Deleting => Head(h.rest) = h.digest \/ h.digest \notin live
  /\ h.phase = "remove" => Round(h) \subseteq live
  /\ h.phase = "remove" /\ Head(h.rest) # h.digest =>
       \A m \in live : Head(h.rest) \notin Children(Content, m)

\* What the record names is deleted or still to be deleted.
RecordOK(j, h) ==
  LET named == {record[j].digest} \cup record[j].children
  IN /\ h.phase \in Deleting => named \subseteq h.deleted \cup Elements(h.rest)
     /\ h.phase = "mark" /\ h.outcome = "completed" =>
          /\ named \subseteq h.deleted
          /\ \A d \in named : d \in h.todo \/ row[d] = "deleted"

QuietOK(j, h) == SweepOK(h) /\ GoneOK(h) /\ ListingOK(h) /\ RecordOK(j, h)

\* While a handler runs it is alone and no push is pending.
Alone ==
  \A j \in Jobs : Running(j) =>
    /\ \A k \in Jobs : k # j => ~Running(k)
    /\ \A p \in Pushers : ~Pending(p)

\* What is served is accounted for, or its push is still to be observed.
LiveKnown ==
  \A d \in live : row[d] \notin {"active", "untagged"} =>
    \E p \in Pushers : Pending(p) /\ d \in Tree[push[p].digest]

PushedStays == \A p \in Pushers : Pending(p) => Fetchable(push[p].digest)

RecordsTyped ==
  record \in [Jobs -> [status : {"none", "running", "failed", "completed"},
                       digest : Digests \cup {Nothing},
                       children : SUBSET Digests]]

DInv ==
  /\ RecordsTyped
  /\ \A j \in Jobs : JobTyped(job[j])
  /\ Undisturbed(Window) => \A j \in Jobs : WindowOK(job[j])
  /\ Undisturbed({"relations"} \cup Planned) => \A j \in Jobs : ReviewOK(job[j])
  /\ Quiet => /\ Alone /\ LiveKnown /\ PushedStays
              /\ \A j \in Jobs : Running(j) => QuietOK(j, job[j])

-----------------------------------------------------------------------------
(***************************************************************************)
(* What a handler holds                                                    *)
(***************************************************************************)
\* What is claimed of handler j when its local variables are h.
Good(j, h) ==
  /\ JobTyped(h)
  /\ Undisturbed(Window) => WindowOK(h)
  /\ Undisturbed({"relations"} \cup Planned) => ReviewOK(h)
  /\ Quiet /\ h.phase \notin {"idle", "reviewed"} => QuietOK(j, h)

\* All local variables but the mark are the same.
SameWork(g, h) == \A f \in Fields \ {"dirty"} : g[f] = h[f]

LEMMA SameFields ==
  ASSUME NEW g, NEW h, SameWork(g, h)
  PROVE  /\ g.phase = h.phase /\ g.goal = h.goal /\ g.todo = h.todo /\ g.seen = h.seen
         /\ g.view = h.view /\ g.digest = h.digest /\ g.tags = h.tags
         /\ g.reviewed = h.reviewed /\ g.rest = h.rest /\ g.deleted = h.deleted
         /\ g.outcome = h.outcome
  BY FieldNames DEF SameWork

LEMMA SameTyped ==
  ASSUME NEW g, NEW h, SameWork(g, h), JobTyped(h)
  PROVE  JobTyped(g)
  BY SameFields DEF JobTyped

LEMMA MarkDirtySame ==
  ASSUME Shaped, NEW k \in Jobs PROVE SameWork(MarkDirty[k], job[k])
  BY FieldNames DEF Shaped, IsHandler, MarkDirty, SameWork

\* The rest of a deletion is its head and what follows.
LEMMA RestFacts ==
  ASSUME NEW rest \in Seq(Digests), rest # <<>>
  PROVE  /\ Head(rest) \in Digests /\ Tail(rest) \in Seq(Digests)
         /\ Elements(rest) = {Head(rest)} \cup Elements(Tail(rest))
         /\ Elements(rest) \subseteq Digests
<1>1. Head(rest) \in Digests /\ Tail(rest) \in Seq(Digests)
  OBVIOUS
<1>2. /\ Len(rest) \in Nat /\ Len(rest) >= 1 /\ DOMAIN rest = 1 .. Len(rest)
      /\ rest[1] = Head(rest)
      /\ DOMAIN Tail(rest) = 1 .. Len(rest) - 1
      /\ \A i \in 1 .. Len(rest) - 1 : Tail(rest)[i] = rest[i + 1]
  OBVIOUS
<1>3. ASSUME NEW i \in 1 .. Len(rest)
      PROVE  rest[i] \in {Head(rest)} \cup Elements(Tail(rest))
  <2>1. CASE i = 1
    BY <1>2, <2>1
  <2>2. CASE i # 1
    <3>1. i - 1 \in 1 .. Len(rest) - 1 /\ (i - 1) + 1 = i
      BY <1>2, <2>2
    <3> QED
      BY <1>2, <3>1 DEF Elements
  <2> QED
    BY <2>1, <2>2
<1>4. ASSUME NEW i \in 1 .. Len(rest) - 1 PROVE Tail(rest)[i] \in Elements(rest)
  <2>1. i + 1 \in 1 .. Len(rest)
    BY <1>2
  <2> QED
    BY <1>2, <2>1 DEF Elements
<1>5. Head(rest) \in Elements(rest)
  BY <1>2 DEF Elements
<1>6. Elements(rest) \subseteq Digests
  BY DEF Elements
<1> QED
  BY <1>1, <1>2, <1>3, <1>4, <1>5, <1>6 DEF Elements

\* What a handler may know of the inventory is an inventory.
LEMMA ViewTyped == ASSUME IInv PROVE IsInventory(View)
<1> SUFFICES ASSUME NEW d \in Digests, row[d] # "none"
             PROVE  [state |-> row[d],
                     tagged |-> \E t \in attached : tagRow[t] = d,
                     subject |-> SubjectOf[d],
                     platforms |-> PlatformsOf[d]] \in Rows
  BY DEF IsInventory, View
<1>1. row[d] \in States
  BY DEF IInv, TypedInventory
<1>2. SubjectOf[d] \in Digests \cup {NoSubject} /\ PlatformsOf[d] \in Seq(Digests)
  BY ContentAssumption
<1>3. (\E t \in attached : tagRow[t] = d) \in BOOLEAN
  OBVIOUS
<1> QED
  BY <1>1, <1>2, <1>3 DEF Rows

\* A manifest that another lists is in its tree.
LEMMA ChildInTree ==
  ASSUME NEW m \in Digests, NEW c \in Children(Content, m)
  PROVE  c \in Digests /\ c # m /\ c \in Tree[m]
<1>1. PlatformsOf[m] \in Seq(Digests) /\ Content[m].platforms = PlatformsOf[m]
  BY ContentAssumption DEF Content
<1>2. c \in Digests /\ c # m
  BY <1>1 DEF Children, PlatformSet
<1>3. ASSUME NEW S \in SUBSET Digests, m \in S, ClosedUnderChildren(Content, S)
      PROVE  c \in S
  <2>1. m \in S \cap DOMAIN Content
    BY <1>3 DEF Content
  <2> QED
    BY <1>3, <2>1 DEF ClosedUnderChildren
<1> QED
  BY <1>2, <1>3 DEF Tree, Descendants

\* In the phases without a claim, the types and what was deleted are enough.
LEMMA PlainGood ==
  ASSUME DInv, NEW j \in Jobs, NEW next, JobTyped(next),
         next.phase \in {"idle", "reviewed", "tags", "fetch", "view", "resolve", "aliases"},
         next.deleted = {} \/ (Running(j) /\ next.deleted = job[j].deleted)
  PROVE  Good(j, next)
<1>1. WindowOK(next)
  BY DEF WindowOK, Window
<1>2. ReviewOK(next)
  BY DEF ReviewOK, Planned, Deleting
<1>3. ASSUME Quiet PROVE QuietOK(j, next)
  <2>1. GoneOK(next)
    BY <1>3 DEF DInv, QuietOK, GoneOK
  <2> QED
    BY <2>1 DEF QuietOK, SweepOK, ListingOK, RecordOK, Planned, Deleting
<1> QED
  BY <1>1, <1>2, <1>3 DEF Good

\* Handler j moves, the others and the stores stay.
LEMMA HandlerMoves ==
  ASSUME IInv, DInv, NEW j \in Jobs, NEW next,
         job' = [job EXCEPT ![j] = next],
         UNCHANGED <<registry, inventory, push>>,
         RecordsTyped',
         Running(j) \/ (Quiet => /\ \A k \in Jobs \ {j} : ~Running(k)
                                 /\ \A p \in Pushers : ~Pending(p)),
         Good(j, next)'
  PROVE  DInv'
<1>1. \A k \in Jobs : job'[k] = IF k = j THEN next ELSE job[k]
  BY DEF IInv, Shaped
<1>2. \A k \in Jobs : JobTyped(job'[k])
  BY <1>1 DEF DInv, Good, JobTyped
<1>3. ASSUME Undisturbed(Window), NEW k \in Jobs PROVE WindowOK(job[k])'
  BY <1>1, <1>3 DEF DInv, Good, WindowOK, registry, Round
<1>4. ASSUME Undisturbed({"relations"} \cup Planned), NEW k \in Jobs PROVE ReviewOK(job[k])'
  BY <1>1, <1>4 DEF DInv, Good, ReviewOK, registry, Round, Referrers
<1>5. ASSUME Quiet PROVE Alone' /\ LiveKnown' /\ PushedStays'
  <2>1. Alone'
    BY <1>1, <1>5 DEF DInv, Alone, Running, Pending
  <2>2. LiveKnown' /\ PushedStays'
    BY <1>5 DEF DInv, LiveKnown, PushedStays, Pending, registry, inventory, Fetchable
  <2> QED
    BY <2>1, <2>2
<1>6. ASSUME Quiet, NEW k \in Jobs, Running(k)' PROVE QuietOK(k, job[k])'
  <2>1. CASE k = j
    BY <1>1, <1>6, <2>1 DEF Good, Running
  <2>2. CASE k # j
    <3>1. Running(k) /\ ~Running(j)
      BY <1>1, <1>6, <2>2 DEF DInv, Alone, Running
    <3> QED
      BY <1>6, <2>2, <3>1
  <2> QED
    BY <2>1, <2>2
<1> QED
  BY <1>2, <1>3, <1>4, <1>5, <1>6 DEF DInv

LEMMA StoresStay ==
  ASSUME IInv, DInv, NEW j \in Jobs, NEW next,
         job' = [job EXCEPT ![j] = next],
         UNCHANGED <<registry, inventory, push, record>>,
         Running(j) \/ (Quiet => /\ \A k \in Jobs \ {j} : ~Running(k)
                                 /\ \A p \in Pushers : ~Pending(p)),
         Good(j, next)
  PROVE  DInv'
<1>1. RecordsTyped'
  BY DEF DInv, RecordsTyped
<1>2. Good(j, next)'
  BY DEF Good, JobTyped, WindowOK, ReviewOK, QuietOK, SweepOK, GoneOK, ListingOK,
         RecordOK, Round, Referrers, registry, inventory
<1> QED
  BY <1>1, <1>2, HandlerMoves

LEMMA HoldMoves ==
  ASSUME IInv, DInv, NEW j \in Jobs, NEW next, Hold(j, next), Running(j), Good(j, next)
  PROVE  DInv'
  BY StoresStay DEF Hold

\* The handler answers with an error, and holds nothing.
LEMMA GaveUpGood == ASSUME DInv, NEW j \in Jobs PROVE Good(j, GaveUp(j))
<1>1. /\ GaveUp(j).phase \in {"idle", "reviewed"} /\ GaveUp(j).goal = "none"
      /\ GaveUp(j).outcome = "none"
      /\ GaveUp(j).seen = {} /\ GaveUp(j).deleted = {} /\ GaveUp(j).rest = <<>>
      /\ GaveUp(j).view = <<>> /\ GaveUp(j).digest = Nothing
  BY DEF GaveUp, NoJob
<1>2. JobTyped(GaveUp(j))
  BY <1>1 DEF JobTyped, Phases, IsInventory, Planned, Deleting
<1> QED
  BY <1>1, <1>2, PlainGood

LEMMA GiveUpMoves == ASSUME IInv, DInv, NEW j \in Jobs, Running(j), GiveUp(j) PROVE DInv'
  BY GaveUpGood, HoldMoves DEF GiveUp

\* A handler starts when, in a quiet repository, none runs and every push was
\* observed.
LEMMA StartMoves ==
  ASSUME IInv, DInv, NEW j \in Jobs, NEW goal \in {"sweep", "preview", "execute"},
         NEW reference, Start(j, goal, reference)
  PROVE  DInv'
<1> DEFINE next == [NoJob EXCEPT !.phase = "tags", !.goal = goal, !.reference = reference,
                                 !.reviewed = job[j].reviewed]
<1>1. /\ next.phase = "tags" /\ next.goal = goal /\ next.outcome = "none"
      /\ next.seen = {} /\ next.deleted = {}
      /\ next.rest = <<>> /\ next.view = <<>> /\ next.digest = Nothing
  BY DEF NoJob
<1>2. job' = [job EXCEPT ![j] = next]
  BY DEF Start
<1> HIDE DEF next
<1>3. JobTyped(next)
  BY <1>1 DEF JobTyped, Phases, IsInventory, Planned, Deleting, Reading
<1>4. Good(j, next)
  BY <1>1, <1>3, PlainGood
<1>5. /\ UNCHANGED <<registry, inventory, push, record>>
      /\ Quiet => /\ \A k \in Jobs \ {j} : ~Running(k)
                  /\ \A p \in Pushers : ~Pending(p)
  BY DEF Start, Quiet, Pending
<1> QED
  BY <1>2, <1>4, <1>5, StoresStay

\* A step that leaves all but the phase and what is read in a sweep.
LEMMA SweepGood ==
  ASSUME DInv, NEW j \in Jobs, NEW next, Running(j),
         next.phase \in {"fetch", "probe", "commit"},
         next.seen \subseteq Digests,
         next.goal = job[j].goal, next.outcome = job[j].outcome,
         next.deleted = job[j].deleted, next.rest = job[j].rest,
         next.view = job[j].view, next.digest = job[j].digest,
         Quiet => SweepOK(next)
  PROVE  Good(j, next)
<1>1. JobTyped(next)
  BY DEF DInv, JobTyped, Phases, Planned, Deleting, Reading
<1>2. WindowOK(next) /\ ReviewOK(next)
  BY DEF WindowOK, ReviewOK, Window, Planned, Deleting
<1>3. ASSUME Quiet PROVE QuietOK(j, next)
  <2>1. GoneOK(next)
    BY <1>3 DEF DInv, QuietOK, GoneOK
  <2> QED
    BY <1>3, <2>1 DEF QuietOK, ListingOK, RecordOK, Planned, Deleting
<1> QED
  BY <1>1, <1>2, <1>3 DEF Good

LEMMA ListTagsMoves == ASSUME IInv, DInv, NEW j \in Jobs, ListTags(j) PROVE DInv'
<1> DEFINE next == [job[j] EXCEPT !.phase = "fetch",
                                  !.todo = {t \in Tags : tagOf[t] # Nothing},
                                  !.found = [t \in Tags |-> Nothing],
                                  !.seen = {}, !.dirty = FALSE]
<1>1. /\ next.phase = "fetch" /\ next.seen = {}
      /\ next.goal = job[j].goal /\ next.outcome = job[j].outcome
      /\ next.deleted = job[j].deleted /\ next.rest = job[j].rest
      /\ next.view = job[j].view /\ next.digest = job[j].digest
  BY FieldNames DEF IInv, Shaped, IsHandler
<1>2. Hold(j, next) /\ Running(j)
  BY DEF ListTags, Running
<1> HIDE DEF next
<1>3. Good(j, next)
  BY <1>1, <1>2, SweepGood DEF SweepOK
<1> QED
  BY <1>2, <1>3, HoldMoves

LEMMA FetchTagMoves ==
  ASSUME IInv, DInv, NEW j \in Jobs, NEW t \in Tags, FetchTag(j, t) PROVE DInv'
<1> DEFINE next == [job[j] EXCEPT !.todo = @ \ {t}, !.found[t] = tagOf[t],
                                  !.seen = @ \cup Tree[tagOf[t]]]
<1>1. Running(j) /\ job[j].phase = "fetch"
  BY DEF FetchTag, Running
<1>2. CASE GiveUp(j)
  BY <1>1, <1>2, GiveUpMoves
<1>3. CASE ~GiveUp(j)
  <2>1. Hold(j, next) /\ Fetchable(tagOf[t])
    BY <1>3 DEF FetchTag
  <2>2. /\ next.phase = "fetch" /\ next.seen = job[j].seen \cup Tree[tagOf[t]]
        /\ next.goal = job[j].goal /\ next.outcome = job[j].outcome
        /\ next.deleted = job[j].deleted
        /\ next.rest = job[j].rest
        /\ next.view = job[j].view /\ next.digest = job[j].digest
    BY <1>1, FieldNames DEF IInv, Shaped, IsHandler
  <2> HIDE DEF next
  <2>3. next.seen \subseteq Digests
    BY <2>1, <2>2, TreeFacts DEF Fetchable, DInv, JobTyped
  <2>4. Good(j, next)
    BY <1>1, <2>2, <2>3, SweepGood DEF SweepOK
  <2> QED
    BY <1>1, <2>1, <2>4, HoldMoves
<1> QED
  BY <1>2, <1>3

\* In a quiet repository what is served has a row that is not history while
\* a handler runs.
LEMMA QuietRows ==
  ASSUME IInv, DInv, Quiet, NEW j \in Jobs, Running(j), NEW d \in live
  PROVE  row[d] \in {"active", "untagged"}
  BY DEF DInv, Alone, LiveKnown

LEMMA ListKnownMoves == ASSUME IInv, DInv, NEW j \in Jobs, ListKnown(j) PROVE DInv'
<1> DEFINE unseen == {d \in Digests : row[d] \notin {"none", "deleted"}} \ job[j].seen
           known == {d \in unseen : row[d] # "missing"}
<1>1. PICK todo : /\ known \subseteq todo
                  /\ Hold(j, [job[j] EXCEPT !.phase = "probe", !.todo = todo])
  <2>1. PICK probed \in SUBSET {d \in unseen : row[d] = "missing"} :
          Hold(j, [job[j] EXCEPT !.phase = "probe", !.todo = known \cup probed])
    BY Zenon DEF ListKnown
  <2>2. PICK todo : todo = known \cup probed
    OBVIOUS
  <2>3. known \subseteq todo /\ Hold(j, [job[j] EXCEPT !.phase = "probe", !.todo = todo])
    BY <2>1, <2>2
  <2> HIDE DEF known, unseen
  <2> QED
    BY <2>3
<1> DEFINE next == [job[j] EXCEPT !.phase = "probe", !.todo = todo]
<1>2. Running(j)
  BY DEF ListKnown, Running
<1>3. /\ next.phase = "probe" /\ next.seen = job[j].seen
      /\ next.todo = todo
      /\ next.goal = job[j].goal /\ next.outcome = job[j].outcome
      /\ next.deleted = job[j].deleted /\ next.rest = job[j].rest
      /\ next.view = job[j].view /\ next.digest = job[j].digest
  BY FieldNames DEF IInv, Shaped, IsHandler
<1> HIDE DEF next
<1>4. ASSUME Quiet PROVE SweepOK(next)
  <2> SUFFICES ASSUME NEW d \in live, d \notin next.seen PROVE d \in next.todo
    BY <1>3 DEF SweepOK
  <2>1. row[d] \in {"active", "untagged"} /\ d \in Digests
    BY <1>2, <1>4, QuietRows DEF IInv, TypedRegistry
  <2>2. d \in known
    BY <1>3, <2>1
  <2> QED
    BY <1>1, <1>3, <2>2
<1>5. next.seen \subseteq Digests
  BY <1>3 DEF DInv, JobTyped
<1>6. Good(j, next)
  BY <1>2, <1>3, <1>4, <1>5, SweepGood
<1> QED
  BY <1>1, <1>2, <1>6, HoldMoves DEF next

LEMMA ProbeMoves ==
  ASSUME IInv, DInv, NEW j \in Jobs, NEW d \in Digests, Probe(j, d) PROVE DInv'
<1>1. Running(j) /\ job[j].phase = "probe"
  BY DEF Probe, Running
<1>2. CASE GiveUp(j)
  BY <1>1, <1>2, GiveUpMoves
<1>3. CASE ~GiveUp(j)
  <2> DEFINE fetched == [job[j] EXCEPT !.todo = @ \ {d}, !.seen = @ \cup Tree[d]]
             skipped == [job[j] EXCEPT !.todo = @ \ {d}]
             Rest(next) == /\ next.phase = "probe" /\ next.todo = job[j].todo \ {d}
                           /\ next.goal = job[j].goal /\ next.outcome = job[j].outcome
        /\ next.deleted = job[j].deleted
                           /\ next.rest = job[j].rest
                           /\ next.view = job[j].view /\ next.digest = job[j].digest
  <2>1. \/ Hold(j, fetched)
        \/ Hold(j, skipped) /\ (d \in job[j].seen \/ d \notin live)
    BY <1>3 DEF Probe
  <2>2. /\ Rest(fetched) /\ fetched.seen = job[j].seen \cup Tree[d]
        /\ Rest(skipped) /\ skipped.seen = job[j].seen
    BY <1>1, FieldNames DEF IInv, Shaped, IsHandler
  <2>3. PICK next : /\ Hold(j, next) /\ Rest(next)
                    /\ next.seen \subseteq Digests
                    /\ job[j].seen \subseteq next.seen
                    /\ d \in next.seen \/ d \notin live
    <3> HIDE DEF fetched, skipped
    <3>1. job[j].seen \subseteq Digests /\ d \in Tree[d] /\ Tree[d] \subseteq Digests
      BY TreeFacts DEF DInv, JobTyped
    <3> QED
      BY <2>1, <2>2, <3>1
  <2>4. ASSUME Quiet PROVE SweepOK(next)
    <3>1. live \subseteq job[j].seen \cup job[j].todo
      BY <1>1, <2>4 DEF DInv, QuietOK, SweepOK
    <3> QED
      BY <2>3, <3>1 DEF SweepOK
  <2>5. Good(j, next)
    BY <1>1, <2>3, <2>4, SweepGood
  <2> QED
    BY <1>1, <2>3, <2>5, HoldMoves
<1> QED
  BY <1>2, <1>3

LEMMA SweepReferrersMoves == ASSUME IInv, DInv, NEW j \in Jobs, SweepReferrers(j) PROVE DInv'
<1> DEFINE all == WithReferrers(job[j].seen)
           next == [job[j] EXCEPT !.phase = "commit", !.seen = all]
<1>1. Running(j) /\ job[j].phase = "probe" /\ job[j].todo = {}
  BY DEF SweepReferrers, Running
<1>2. CASE GiveUp(j)
  BY <1>1, <1>2, GiveUpMoves
<1>3. CASE ~GiveUp(j)
  <2>1. Hold(j, next)
    BY <1>3 DEF SweepReferrers
  <2>2. /\ next.phase = "commit" /\ next.seen = all
        /\ next.goal = job[j].goal /\ next.outcome = job[j].outcome
        /\ next.deleted = job[j].deleted
        /\ next.rest = job[j].rest
        /\ next.view = job[j].view /\ next.digest = job[j].digest
    BY FieldNames DEF IInv, Shaped, IsHandler
  <2>3. job[j].seen \subseteq all /\ all \subseteq Digests
    BY SweepKeeps DEF DInv, JobTyped
  <2> HIDE DEF next, all
  <2>4. ASSUME Quiet PROVE SweepOK(next)
    <3>1. live \subseteq job[j].seen
      BY <1>1, <2>4 DEF DInv, QuietOK, SweepOK
    <3> QED
      BY <2>2, <2>3, <3>1 DEF SweepOK
  <2>5. Good(j, next)
    BY <1>1, <2>2, <2>3, <2>4, SweepGood
  <2> QED
    BY <1>1, <2>1, <2>5, HoldMoves
<1> QED
  BY <1>2, <1>3

-----------------------------------------------------------------------------
(***************************************************************************)
(* The end of a reconciliation                                             *)
(***************************************************************************)
\* After a reconciliation in a quiet repository all that is served has a row
\* that is not history; no row disappears.
LEMMA CommitRows ==
  ASSUME IInv, NEW j \in Jobs, CommitReconcile(j)
  PROVE  /\ \A d \in job[j].seen : row'[d] \in {"active", "untagged"}
         /\ \A d \in Digests : row[d] # "none" => row'[d] # "none"
<1> DEFINE seen == job[j].seen
           now == [d \in Digests |-> IF d \in seen THEN "untagged"
                                     ELSE IF row[d] \in {"none", "deleted"} THEN row[d]
                                     ELSE "missing"]
<1>1. row' = Refreshed(seen, now)
  BY DEF CommitReconcile
<1>2. seen \subseteq Digests
  BY DEF CommitReconcile, IInv, FoundIsSeen, Sweeping
<1>3. ASSUME NEW d \in Digests
      PROVE  row'[d] = IF d \notin seen \/ now[d] = "none" THEN now[d]
                       ELSE IF \E t \in attached' : tagRow'[t] = d THEN "active"
                       ELSE IF now[d] = "deleted" THEN "deleted" ELSE "untagged"
  BY <1>1 DEF Refreshed
<1>4. ASSUME NEW d \in seen PROVE row'[d] \in {"active", "untagged"}
  BY <1>2, <1>3, <1>4
<1>5. ASSUME NEW d \in Digests, row[d] # "none" PROVE row'[d] # "none"
  BY <1>3, <1>4, <1>5
<1> QED
  BY <1>4, <1>5

LEMMA CommitMoves == ASSUME IInv, DInv, NEW j \in Jobs, CommitReconcile(j) PROVE DInv'
<1>1. Running(j) /\ job[j].phase = "commit"
  BY DEF CommitReconcile, Running
<1>2. UNCHANGED <<registry, push, record>>
  BY DEF CommitReconcile
<1>3. PICK next : next = IF job[j].goal = "sweep" THEN NoJob
                         ELSE [job[j] EXCEPT !.phase = "view", !.found = <<>>, !.seen = {}]
  OBVIOUS
<1>4. job' = [job EXCEPT ![j] = next]
  BY <1>3 DEF CommitReconcile
<1>5. /\ next.phase \in {"idle", "view"} /\ next.seen = {}
      /\ next.goal \in {"none", "sweep", "preview", "execute"}
      /\ next.outcome \in {"none", "failed", "completed"}
      /\ next.deleted = {} \/ next.deleted = job[j].deleted
      /\ next.rest \in Seq(Digests) /\ IsInventory(next.view)
      /\ next.digest \in Digests \cup {Nothing}
  <2>1. CASE job[j].goal = "sweep"
    BY <1>3, <2>1 DEF NoJob, IsInventory
  <2>2. CASE job[j].goal # "sweep"
    <3>1. next = [job[j] EXCEPT !.phase = "view", !.found = <<>>, !.seen = {}]
      BY <1>3, <2>2
    <3>2. /\ next.phase = "view" /\ next.seen = {} /\ next.goal = job[j].goal
          /\ next.outcome = job[j].outcome
          /\ next.deleted = job[j].deleted /\ next.rest = job[j].rest
          /\ next.view = job[j].view /\ next.digest = job[j].digest
      BY <3>1, FieldNames DEF IInv, Shaped, IsHandler
    <3> QED
      BY <3>2 DEF DInv, JobTyped
  <2> QED
    BY <2>1, <2>2
<1>6. JobTyped(next)
  <2>1. next.deleted \subseteq Digests
    BY <1>5 DEF DInv, JobTyped
  <2> QED
    BY <1>5, <2>1 DEF JobTyped, Phases, Planned, Deleting, Reading
<1>7. \A k \in Jobs : job'[k] = IF k = j THEN next ELSE job[k]
  BY <1>4 DEF IInv, Shaped
<1>8. RecordsTyped'
  BY <1>2 DEF DInv, RecordsTyped
<1>9. ASSUME NEW k \in Jobs PROVE JobTyped(job[k])'
  BY <1>6, <1>7 DEF DInv, JobTyped
<1>10. ASSUME Undisturbed(Window), NEW k \in Jobs PROVE WindowOK(job[k])'
  <2>1. CASE k = j
    BY <1>5, <1>7, <2>1 DEF WindowOK, Window
  <2>2. CASE k # j
    BY <1>2, <1>7, <1>10, <2>2 DEF DInv, WindowOK, registry, Round
  <2> QED
    BY <2>1, <2>2
<1>11. ASSUME Undisturbed({"relations"} \cup Planned), NEW k \in Jobs PROVE ReviewOK(job[k])'
  <2>1. CASE k = j
    BY <1>5, <1>7, <2>1 DEF ReviewOK, Planned, Deleting
  <2>2. CASE k # j
    BY <1>2, <1>7, <1>11, <2>2 DEF DInv, ReviewOK, registry, Round, Referrers
  <2> QED
    BY <2>1, <2>2
<1>12. ASSUME Quiet PROVE Alone' /\ LiveKnown' /\ PushedStays'
  <2>1. Alone'
    BY <1>1, <1>2, <1>7, <1>12 DEF DInv, Alone, Running, Pending
  <2>2. PushedStays'
    BY <1>2, <1>12 DEF DInv, PushedStays, Pending, registry, Fetchable
  <2>3. live \subseteq job[j].seen
    BY <1>1, <1>12 DEF DInv, QuietOK, SweepOK
  <2>4. LiveKnown'
    BY <1>2, <2>3, CommitRows DEF LiveKnown, registry
  <2> QED
    BY <2>1, <2>2, <2>4
<1>13. ASSUME Quiet, NEW k \in Jobs, Running(k)' PROVE QuietOK(k, job[k])'
  <2>1. k = j /\ next.phase = "view"
    BY <1>1, <1>5, <1>7, <1>13 DEF DInv, Alone, Running
  <2>2. /\ job[j].deleted \cap live = {} /\ \A d \in job[j].deleted : row[d] # "none"
        /\ job[j].deleted \subseteq Digests
    BY <1>1, <1>13 DEF DInv, QuietOK, GoneOK, JobTyped
  <2>3. \A d \in job[j].deleted : row'[d] # "none"
    BY <2>2, CommitRows
  <2>4. GoneOK(next)'
    BY <1>2, <1>5, <2>1, <2>2, <2>3 DEF GoneOK, registry
  <2>5. QuietOK(j, next)'
    BY <2>1, <2>4 DEF QuietOK, SweepOK, ListingOK, RecordOK, Planned, Deleting
  <2> QED
    BY <1>7, <2>1, <2>5
<1> QED
  BY <1>8, <1>9, <1>10, <1>11, <1>12, <1>13 DEF DInv

-----------------------------------------------------------------------------
(***************************************************************************)
(* The preview                                                             *)
(***************************************************************************)
LEMMA ReadViewMoves == ASSUME IInv, DInv, NEW j \in Jobs, ReadView(j) PROVE DInv'
<1>1. Running(j) /\ job[j].phase = "view"
  BY DEF ReadView, Running
<1>2. PICK next : next = [job[j] EXCEPT !.phase = "resolve", !.view = View]
  OBVIOUS
<1>3. Hold(j, next)
  BY <1>2 DEF ReadView
<1>4. /\ next.phase = "resolve" /\ next.view = View
      /\ next.seen = job[j].seen /\ next.goal = job[j].goal /\ next.outcome = job[j].outcome
      /\ next.deleted = job[j].deleted /\ next.rest = job[j].rest
      /\ next.digest = job[j].digest
  BY <1>2, FieldNames DEF IInv, Shaped, IsHandler
<1>5. JobTyped(next)
  BY <1>4, ViewTyped DEF DInv, JobTyped, Phases, Planned, Deleting, Reading
<1> QED
  BY <1>1, <1>3, <1>4, <1>5, PlainGood, HoldMoves

LEMMA ResolveMoves == ASSUME IInv, DInv, NEW j \in Jobs, ResolveTarget(j) PROVE DInv'
<1>1. Running(j) /\ job[j].phase = "resolve"
  BY DEF ResolveTarget, Running
<1>2. CASE GiveUp(j)
  BY <1>1, <1>2, GiveUpMoves
<1>3. CASE ~GiveUp(j)
  <2>1. PICK d \in live : Hold(j, [job[j] EXCEPT !.phase = "aliases", !.digest = d])
    BY <1>3 DEF ResolveTarget
  <2>2. PICK next : next = [job[j] EXCEPT !.phase = "aliases", !.digest = d]
    OBVIOUS
  <2>3. /\ next.phase = "aliases" /\ next.view = job[j].view
        /\ next.seen = job[j].seen /\ next.goal = job[j].goal /\ next.outcome = job[j].outcome
        /\ next.deleted = job[j].deleted /\ next.rest = job[j].rest
        /\ next.digest = d
    BY <2>2, FieldNames DEF IInv, Shaped, IsHandler
  <2>4. d \in Digests
    BY DEF IInv, TypedRegistry
  <2>5. JobTyped(next)
    BY <2>3, <2>4 DEF DInv, JobTyped, Phases, Planned, Deleting, Reading
  <2> QED
    BY <1>1, <2>1, <2>2, <2>3, <2>5, PlainGood, HoldMoves
<1> QED
  BY <1>2, <1>3

\* The aliases are all the tags of the target, and none is protected.
LEMMA ReadAliasesMoves == ASSUME IInv, DInv, NEW j \in Jobs, ReadAliases(j) PROVE DInv'
<1>1. Running(j) /\ job[j].phase = "aliases"
  BY DEF ReadAliases, Running
<1>2. CASE GiveUp(j)
  BY <1>1, <1>2, GiveUpMoves
<1>3. CASE ~GiveUp(j)
  <2>1. PICK aliases : /\ aliases = {t \in Tags : tagOf[t] = job[j].digest}
                       /\ aliases \cap ProtectedTags = {}
                       /\ Hold(j, [job[j] EXCEPT !.phase = "relations", !.tags = aliases])
    BY <1>3 DEF ReadAliases
  <2>2. PICK next : next = [job[j] EXCEPT !.phase = "relations", !.tags = aliases]
    OBVIOUS
  <2>3. /\ next.phase = "relations" /\ next.tags = aliases /\ next.view = job[j].view
        /\ next.seen = job[j].seen /\ next.goal = job[j].goal /\ next.outcome = job[j].outcome
        /\ next.deleted = job[j].deleted /\ next.rest = job[j].rest
        /\ next.digest = job[j].digest
    BY <2>2, FieldNames DEF IInv, Shaped, IsHandler
  <2>4. JobTyped(next)
    BY <1>1, <2>3 DEF DInv, JobTyped, Phases, Planned, Deleting, Reading
  <2>5. WindowOK(next) /\ ReviewOK(next)
    BY <2>1, <2>3 DEF WindowOK, ReviewOK, Window, Planned, Deleting
  <2>6. ASSUME Quiet PROVE QuietOK(j, next)
    <3>1. GoneOK(next)
      BY <1>1, <2>3, <2>6 DEF DInv, QuietOK, GoneOK
    <3> QED
      BY <2>3, <3>1 DEF QuietOK, SweepOK, ListingOK, RecordOK, Planned, Deleting
  <2>7. Good(j, next)
    BY <2>4, <2>5, <2>6 DEF Good
  <2> QED
    BY <1>1, <2>1, <2>2, <2>7, HoldMoves
<1> QED
  BY <1>2, <1>3

\* A preview ends with what the administrator is shown; an execution goes on
\* only with what was reviewed, target first, when nothing refers to it.
LEMMA ReadRelationsMoves == ASSUME IInv, DInv, NEW j \in Jobs, ReadRelations(j) PROVE DInv'
<1>1. Running(j) /\ job[j].phase = "relations"
  BY DEF ReadRelations, Running
<1> DEFINE d == job[j].digest
           children == PlannedChildren(job[j].view, d)
           preview == [digest |-> d, tags |-> job[j].tags, children |-> Elements(children)]
<1>2. CASE GiveUp(j)
  BY <1>1, <1>2, GiveUpMoves
<1>3. CASE Hold(j, [NoJob EXCEPT !.phase = "reviewed", !.reviewed = preview,
                                 !.reference = job[j].reference])
  <2> HIDE DEF preview
  <2>1. PICK next : next = [NoJob EXCEPT !.phase = "reviewed", !.reviewed = preview,
                                         !.reference = job[j].reference]
    OBVIOUS
  <2>2. /\ next.phase = "reviewed" /\ next.goal = "none" /\ next.outcome = "none"
        /\ next.seen = {} /\ next.deleted = {} /\ next.rest = <<>> /\ next.view = <<>>
        /\ next.digest = Nothing
    BY <2>1 DEF NoJob
  <2>3. JobTyped(next)
    BY <2>2 DEF JobTyped, Phases, IsInventory, Planned, Deleting
  <2> QED
    BY <1>1, <1>3, <2>1, <2>2, <2>3, PlainGood, HoldMoves
<1>4. CASE /\ job[j].goal = "execute" /\ AgreesWithReview(j, preview) /\ ~Blocked(d)
           /\ Hold(j, [job[j] EXCEPT !.phase = "list", !.view = <<>>,
                                     !.rest = DeletionOrder(d, children)])
  <2>1. IsInventory(job[j].view) /\ d \in Digests
    BY <1>1 DEF DInv, JobTyped
  <2>2. children \in Seq(Digests)
    BY <2>1, PlannedFacts
  <2>3. PICK rest : rest = DeletionOrder(d, children)
    OBVIOUS
  <2>4. rest \in Seq(Digests) /\ rest # <<>> /\ Head(rest) = d
    <3> HIDE DEF d, children
    <3> QED
      BY <2>1, <2>2, <2>3 DEF DeletionOrder
  <2>5. PICK next : next = [job[j] EXCEPT !.phase = "list", !.view = <<>>, !.rest = rest]
    OBVIOUS
  <2>6. /\ next.phase = "list" /\ next.view = <<>> /\ next.rest = rest
        /\ next.tags = job[j].tags /\ next.reviewed = job[j].reviewed
        /\ next.seen = job[j].seen /\ next.goal = job[j].goal /\ next.outcome = job[j].outcome
        /\ next.deleted = job[j].deleted /\ next.digest = d
    BY <2>5, FieldNames DEF IInv, Shaped, IsHandler
  <2>7. Hold(j, next)
    BY <1>4, <2>3, <2>5
  <2>8. job[j].reviewed.tags = job[j].tags
    BY <1>4 DEF AgreesWithReview
  <2>9. Referrers(d) = {}
    BY <1>4 DEF Blocked
  <2> HIDE DEF d, children, preview
  <2>10. JobTyped(next)
    BY <1>4, <2>1, <2>4, <2>6 DEF DInv, JobTyped, Phases, Planned, Deleting, Reading,
                                  IsInventory
  <2>11. WindowOK(next)
    BY <2>6 DEF WindowOK, Window
  <2>12. ASSUME Undisturbed({"relations"} \cup Planned) PROVE ReviewOK(next)
    <3>1. /\ \A t \in Tags : tagOf[t] = d => t \in job[j].tags
          /\ job[j].tags \cap ProtectedTags = {}
      BY <1>1, <2>12 DEF DInv, ReviewOK, d
    <3> QED
      BY <2>6, <2>8, <2>9, <3>1 DEF ReviewOK
  <2>13. ASSUME Quiet PROVE QuietOK(j, next)
    <3>1. GoneOK(next)
      BY <1>1, <2>6, <2>13 DEF DInv, QuietOK, GoneOK
    <3> QED
      BY <2>4, <2>6, <3>1 DEF QuietOK, SweepOK, ListingOK, RecordOK, Planned, Deleting
  <2>14. Good(j, next)
    BY <2>10, <2>11, <2>12, <2>13 DEF Good
  <2> QED
    BY <1>1, <2>7, <2>14, HoldMoves
<1> QED
  BY <1>2, <1>3, <1>4 DEF ReadRelations

\* In a quiet repository the inventory a deletion lists is all that is served.
LEMMA ListInventoryMoves == ASSUME IInv, DInv, NEW j \in Jobs, ListInventory(j) PROVE DInv'
<1>1. Running(j) /\ job[j].phase = "list"
  BY DEF ListInventory, Running
<1>2. PICK next : next = [job[j] EXCEPT !.phase = "record", !.view = View]
  OBVIOUS
<1>3. Hold(j, next)
  BY <1>2 DEF ListInventory
<1>4. /\ next.phase = "record" /\ next.view = View /\ next.rest = job[j].rest
      /\ next.tags = job[j].tags /\ next.reviewed = job[j].reviewed
      /\ next.seen = job[j].seen /\ next.goal = job[j].goal /\ next.outcome = job[j].outcome
      /\ next.deleted = job[j].deleted /\ next.digest = job[j].digest
  BY <1>2, FieldNames DEF IInv, Shaped, IsHandler
<1>5. JobTyped(next)
  BY <1>1, <1>4, ViewTyped DEF DInv, JobTyped, Phases, Planned, Deleting, Reading
<1>6. WindowOK(next)
  BY <1>4 DEF WindowOK, Window
<1>7. ASSUME Undisturbed({"relations"} \cup Planned) PROVE ReviewOK(next)
  BY <1>1, <1>4, <1>7 DEF DInv, ReviewOK, Planned
<1>8. ASSUME Quiet PROVE QuietOK(j, next)
  <2>1. GoneOK(next)
    BY <1>1, <1>4, <1>8 DEF DInv, QuietOK, GoneOK
  <2>2. Head(next.rest) = next.digest
    BY <1>1, <1>4, <1>8 DEF DInv, QuietOK, ListingOK
  <2>3. ASSUME NEW m \in live
        PROVE  /\ m \in DOMAIN next.view /\ ~IsHistory(next.view[m])
               /\ next.view[m].platforms = PlatformsOf[m]
    <3>1. m \in Digests /\ row[m] \in {"active", "untagged"}
      BY <1>1, <1>8, QuietRows DEF IInv, TypedRegistry
    <3>2. m \in DOMAIN View /\ View[m].state = row[m] /\ View[m].platforms = PlatformsOf[m]
      BY <3>1 DEF View
    <3> QED
      BY <1>4, <3>1, <3>2 DEF IsHistory
  <2>4. ListingOK(next)
    BY <1>4, <2>2, <2>3 DEF ListingOK, Deleting
  <2> QED
    BY <1>4, <2>1, <2>4 DEF QuietOK, SweepOK, RecordOK, Deleting
<1>9. Good(j, next)
  BY <1>5, <1>6, <1>7, <1>8 DEF Good
<1> QED
  BY <1>1, <1>3, <1>9, HoldMoves

\* The record names the target and what is to go with it.
LEMMA RecordStartMoves == ASSUME IInv, DInv, NEW j \in Jobs, RecordStart(j) PROVE DInv'
<1>1. Running(j) /\ job[j].phase = "record"
  BY DEF RecordStart, Running
<1>2. PICK next : next = [job[j] EXCEPT !.phase = "livetags"]
  OBVIOUS
<1>3. /\ job' = [job EXCEPT ![j] = next]
      /\ UNCHANGED <<registry, inventory, push>>
  BY <1>2 DEF RecordStart
<1>4. /\ next.phase = "livetags" /\ next.view = job[j].view /\ next.rest = job[j].rest
      /\ next.tags = job[j].tags /\ next.reviewed = job[j].reviewed
      /\ next.seen = job[j].seen /\ next.goal = job[j].goal /\ next.outcome = job[j].outcome
      /\ next.deleted = job[j].deleted /\ next.digest = job[j].digest
  BY <1>2, FieldNames DEF IInv, Shaped, IsHandler
<1>5. JobTyped(next)
  BY <1>1, <1>4 DEF DInv, JobTyped, Phases, Planned, Deleting, Reading
<1> DEFINE opened == [status |-> "running", digest |-> job[j].digest,
                      children |-> Elements(job[j].rest) \ {job[j].digest}]
<1>6. record' = [record EXCEPT ![j] = opened]
  BY DEF RecordStart
<1>7. /\ job[j].digest \in Digests /\ Elements(job[j].rest) \subseteq Digests
      /\ Head(job[j].rest) \in Elements(job[j].rest)
  <2>1. job[j].digest \in Digests /\ job[j].rest \in Seq(Digests) /\ job[j].rest # <<>>
    BY <1>1 DEF DInv, JobTyped, Planned
  <2> QED
    BY <2>1, RestFacts
<1>8. RecordsTyped'
  <2>1. opened \in [status : {"none", "running", "failed", "completed"},
                    digest : Digests \cup {Nothing}, children : SUBSET Digests]
    BY <1>7
  <2> HIDE DEF opened
  <2> QED
    BY <1>6, <2>1 DEF DInv, RecordsTyped
<1>9. ASSUME Quiet PROVE QuietOK(j, next)'
  <2>1. GoneOK(next)'
    BY <1>1, <1>3, <1>4, <1>9 DEF DInv, QuietOK, GoneOK, registry, inventory
  <2>2. Head(job[j].rest) = job[j].digest
    BY <1>1, <1>9 DEF DInv, QuietOK, ListingOK
  <2>3. ListingOK(next)'
    BY <1>1, <1>3, <1>4, <1>9, <2>2 DEF DInv, QuietOK, ListingOK, registry, Deleting
  <2>4. record'[j] = opened
    BY <1>6 DEF DInv, RecordsTyped
  <2>5. {record'[j].digest} \cup record'[j].children \subseteq Elements(next.rest)
    BY <1>4, <1>7, <2>2, <2>4
  <2>6. RecordOK(j, next)'
    BY <1>4, <2>5 DEF RecordOK
  <2> QED
    BY <1>4, <2>1, <2>3, <2>6 DEF QuietOK, SweepOK
<1>10. WindowOK(next)'
  BY <1>4 DEF WindowOK, Window
<1>11. ASSUME Undisturbed({"relations"} \cup Planned) PROVE ReviewOK(next)'
  BY <1>1, <1>3, <1>4, <1>11 DEF DInv, ReviewOK, Planned, registry, Referrers
<1>12. Good(j, next)'
  <2>1. JobTyped(next)'
    BY <1>5 DEF JobTyped
  <2> QED
    BY <1>9, <1>10, <1>11, <2>1 DEF Good
<1> QED
  BY <1>1, <1>3, <1>8, <1>12, HandlerMoves

-----------------------------------------------------------------------------
(***************************************************************************)
(* The deletion of the tree                                                *)
(***************************************************************************)
\* Handler j reads the tags, or decides on a round: what it is deleting and
\* what it has deleted stay.
SamePlan(g, h) ==
  /\ g.goal = h.goal /\ g.outcome = h.outcome /\ g.view = h.view
  /\ g.digest = h.digest /\ g.tags = h.tags
  /\ g.reviewed = h.reviewed /\ g.rest = h.rest /\ g.deleted = h.deleted

LEMMA DeletingGood ==
  ASSUME DInv, NEW j \in Jobs, NEW next, job[j].phase \in Deleting,
         next.phase \in Window, next.seen \subseteq Digests, SamePlan(next, job[j]),
         Undisturbed(Window) => WindowOK(next),
         next.phase = "remove" =>
           /\ \A c \in Round(next) : Referrers(c) = {}
           /\ Quiet => /\ Round(next) \subseteq live
                       /\ Head(next.rest) # next.digest =>
                            \A m \in live : Head(next.rest) \notin Children(Content, m)
  PROVE  Good(j, next)
<1>1. Running(j)
  BY DEF Running, Deleting
<1>2. JobTyped(next)
  BY DEF DInv, JobTyped, SamePlan, Phases, Planned, Deleting, Window
<1>3. ASSUME Undisturbed({"relations"} \cup Planned) PROVE ReviewOK(next)
  BY <1>3 DEF DInv, ReviewOK, SamePlan, Planned
<1>4. ASSUME Quiet PROVE QuietOK(j, next)
  <2>1. GoneOK(job[j]) /\ ListingOK(job[j]) /\ RecordOK(j, job[j])
    BY <1>1, <1>4 DEF DInv, QuietOK
  <2>2. /\ next.phase \in Deleting
        /\ next.phase \notin {"list", "record", "probe", "commit", "mark"}
    BY DEF Window, Deleting
  <2>3. GoneOK(next)
    BY <2>1, <2>2 DEF GoneOK, SamePlan
  <2>4. ListingOK(next)
    BY <1>4, <2>1, <2>2 DEF ListingOK, SamePlan
  <2>5. RecordOK(j, next)
    BY <2>1, <2>2 DEF RecordOK, SamePlan
  <2> QED
    BY <2>2, <2>3, <2>4, <2>5 DEF QuietOK, SweepOK
<1> QED
  BY <1>2, <1>3, <1>4 DEF Good

LEMMA ReadLiveTagsMoves == ASSUME IInv, DInv, NEW j \in Jobs, ReadLiveTags(j) PROVE DInv'
<1>1. Running(j) /\ job[j].phase \in Deleting
  BY DEF ReadLiveTags, Running, Deleting
<1>2. PICK seen : seen = {tagOf[t] : t \in Tags} \ {Nothing}
  OBVIOUS
<1>3. PICK next : next = [job[j] EXCEPT !.phase = "check", !.seen = seen]
  OBVIOUS
<1>4. Hold(j, next)
  BY <1>2, <1>3 DEF ReadLiveTags
<1>5. next.phase = "check" /\ next.seen = seen /\ SamePlan(next, job[j])
  BY <1>3, FieldNames DEF IInv, Shaped, IsHandler, SamePlan
<1>6. seen \subseteq Digests
  BY <1>2 DEF IInv, TypedRegistry
<1>7. WindowOK(next)
  BY <1>2, <1>5 DEF WindowOK
<1>8. Good(j, next)
  BY <1>1, <1>5, <1>6, <1>7, DeletingGood DEF Window
<1> QED
  BY <1>1, <1>4, <1>8, HoldMoves

\* A round in which a child may go: it is served, without tags or referrers,
\* below no other tagged manifest, and listed by no row that still counts.
LEMMA RevalidateMoves ==
  ASSUME IInv, DInv, NEW j \in Jobs, job[j].phase = "check", MayGo(j, ToRevalidate(j)),
         Hold(j, [job[j] EXCEPT !.phase = "remove"])
  PROVE  DInv'
<1>1. Running(j) /\ job[j].phase \in Deleting
  BY DEF Running, Deleting
<1>2. PICK next : next = [job[j] EXCEPT !.phase = "remove"]
  OBVIOUS
<1>3. Hold(j, next)
  BY <1>2
<1>4. next.phase = "remove" /\ next.seen = job[j].seen /\ SamePlan(next, job[j])
  BY <1>2, FieldNames DEF IInv, Shaped, IsHandler, SamePlan
<1>5. PICK children : children = Round(job[j])
  OBVIOUS
<1>6. Round(next) = children
  BY <1>4, <1>5 DEF Round, SamePlan
<1>7. /\ job[j].rest \in Seq(Digests) /\ job[j].rest # <<>>
      /\ job[j].seen \subseteq Digests /\ job[j].digest \in Digests
  BY <1>1 DEF DInv, JobTyped, Planned
<1>8. children \subseteq Digests
  BY <1>5, <1>7, RestFacts DEF Round
<1>9. StillUnneeded(job[j].view, job[j].seen, job[j].digest, children)
  BY <1>5 DEF MayGo, ToRevalidate, Round
<1>10. ASSUME NEW c \in children
       PROVE  /\ c \notin job[j].seen /\ Fetchable(c) /\ Referrers(c) = {}
              /\ \A r \in (job[j].seen \ {job[j].digest}) \cap live : c \in Tree[r] => c = r
  BY <1>9 DEF StillUnneeded
<1>11. ASSUME Undisturbed(Window) PROVE WindowOK(next)
  <2>1. \A t \in Tags : tagOf[t] = Nothing \/ tagOf[t] \in job[j].seen
    BY <1>11 DEF DInv, WindowOK, Window
  <2> QED
    BY <1>4, <1>6, <1>10, <2>1 DEF WindowOK, SamePlan
<1>12. children \subseteq live
  <2> SUFFICES ASSUME NEW c \in children PROVE c \in live
    OBVIOUS
  <2>1. c \in Tree[c] /\ Tree[c] \subseteq live
    BY <1>8, <1>10, TreeFacts DEF Fetchable
  <2> QED
    BY <2>1
<1>13. ASSUME Quiet, Head(job[j].rest) # job[j].digest, NEW m \in live,
              Head(job[j].rest) \in Children(Content, m)
       PROVE  FALSE
  <2> DEFINE c == Head(job[j].rest)
  <2>1. children = {c} /\ c \in Digests
    BY <1>5, <1>7, <1>13 DEF Round
  <2>2. /\ m \in DOMAIN job[j].view /\ ~IsHistory(job[j].view[m])
        /\ job[j].view[m].platforms = PlatformsOf[m]
        /\ job[j].digest \notin live
    BY <1>1, <1>13 DEF DInv, QuietOK, ListingOK
  <2>3. m \in Digests /\ Content[m].platforms = PlatformsOf[m]
    BY DEF IInv, TypedRegistry, Content
  <2>4. c # m /\ c \in Tree[m]
    BY <1>13, <2>3, ChildInTree
  <2>5. PlatformSet(job[j].view[m]) = PlatformSet(Content[m])
    BY <2>2, <2>3 DEF PlatformSet
  <2>6. c \in PlatformSet(job[j].view[m])
    BY <1>13, <2>5 DEF Children
  <2>7. m \in DOMAIN job[j].view \ (children \cup {job[j].digest})
    BY <2>1, <2>2, <2>4
  <2> HIDE DEF c
  <2>8. (Tree[m] \ {m}) \cap children = {}
    BY <1>9, <2>1, <2>2, <2>6, <2>7 DEF StillUnneeded
  <2> QED
    BY <2>1, <2>4, <2>8
<1>14. Good(j, next)
  <2>1. Head(next.rest) = Head(job[j].rest) /\ next.digest = job[j].digest
    BY <1>4 DEF SamePlan
  <2> QED
    BY <1>1, <1>4, <1>6, <1>7, <1>10, <1>11, <1>12, <1>13, <2>1, DeletingGood DEF Window
<1> QED
  BY <1>1, <1>3, <1>14, HoldMoves

\* In the last phase no more than what was deleted is marked.
LEMMA MarkingGood ==
  ASSUME DInv, NEW j \in Jobs, NEW next, Running(j),
         next.phase = "mark", next.outcome = "failed",
         next.goal = job[j].goal, next.seen = job[j].seen, next.view = job[j].view,
         next.digest = job[j].digest, next.rest \in Seq(Digests),
         next.deleted = job[j].deleted, Quiet => next.todo \subseteq job[j].deleted
  PROVE  Good(j, next)
<1>1. JobTyped(next)
  BY DEF DInv, JobTyped, Phases, Planned, Deleting
<1>2. WindowOK(next) /\ ReviewOK(next)
  BY DEF WindowOK, ReviewOK, Window, Planned, Deleting
<1>3. ASSUME Quiet PROVE QuietOK(j, next)
  <2>1. GoneOK(next)
    BY <1>3 DEF DInv, QuietOK, GoneOK
  <2> QED
    BY <2>1 DEF QuietOK, SweepOK, ListingOK, RecordOK, Deleting
<1> QED
  BY <1>1, <1>2, <1>3 DEF Good

LEMMA FailedMoves == ASSUME IInv, DInv, NEW j \in Jobs, Running(j), Failed(j) PROVE DInv'
<1>1. PICK next : next = [job[j] EXCEPT !.phase = "mark", !.outcome = "failed",
                                        !.todo = job[j].deleted]
  OBVIOUS
<1>2. Hold(j, next)
  BY <1>1 DEF Failed
<1>3. /\ next.phase = "mark" /\ next.outcome = "failed" /\ next.todo = job[j].deleted
      /\ next.goal = job[j].goal /\ next.seen = job[j].seen /\ next.view = job[j].view
      /\ next.digest = job[j].digest /\ next.rest = job[j].rest
      /\ next.deleted = job[j].deleted
  BY <1>1, FieldNames DEF IInv, Shaped, IsHandler
<1>4. next.rest \in Seq(Digests)
  BY <1>3 DEF DInv, JobTyped
<1>5. Good(j, next)
  BY <1>3, <1>4, MarkingGood
<1> QED
  BY <1>2, <1>5, HoldMoves

LEMMA MarkFailsMoves == ASSUME IInv, DInv, NEW j \in Jobs, MarkFails(j) PROVE DInv'
<1>1. PICK todo : /\ todo \subseteq job[j].todo
                  /\ Hold(j, [job[j] EXCEPT !.outcome = "failed", !.todo = todo])
  <2>1. PICK d \in job[j].todo :
          Hold(j, [job[j] EXCEPT !.outcome = "failed",
                                 !.todo = IF job[j].outcome = "failed" THEN @ \ {d} ELSE {}])
    BY DEF MarkFails
  <2>2. PICK todo : todo = IF job[j].outcome = "failed" THEN job[j].todo \ {d} ELSE {}
    OBVIOUS
  <2>3. Hold(j, [job[j] EXCEPT !.outcome = "failed", !.todo = todo])
    BY <2>1, <2>2, FieldNames DEF IInv, Shaped, IsHandler
  <2>4. todo \subseteq job[j].todo
    BY <2>2
  <2> QED
    BY <2>3, <2>4
<1>2. PICK next : next = [job[j] EXCEPT !.outcome = "failed", !.todo = todo]
  OBVIOUS
<1>3. Running(j) /\ job[j].phase = "mark"
  BY DEF MarkFails, Running
<1>4. /\ next.phase = "mark" /\ next.outcome = "failed" /\ next.todo = todo
      /\ next.goal = job[j].goal /\ next.seen = job[j].seen /\ next.view = job[j].view
      /\ next.digest = job[j].digest /\ next.rest = job[j].rest
      /\ next.deleted = job[j].deleted
  BY <1>2, <1>3, FieldNames DEF IInv, Shaped, IsHandler
<1>5. next.rest \in Seq(Digests)
  BY <1>4 DEF DInv, JobTyped
<1>6. ASSUME Quiet PROVE next.todo \subseteq job[j].deleted
  BY <1>1, <1>3, <1>4, <1>6 DEF DInv, QuietOK, GoneOK
<1>7. Good(j, next)
  BY <1>3, <1>4, <1>5, <1>6, MarkingGood
<1> QED
  BY <1>1, <1>2, <1>3, <1>7, HoldMoves


LEMMA CompleteMoves == ASSUME IInv, DInv, NEW j \in Jobs, Complete(j) PROVE DInv'
<1>1. Running(j) /\ job[j].phase = "mark"
  BY DEF Complete, Running
<1>2. /\ job' = [job EXCEPT ![j] = NoJob]
      /\ UNCHANGED <<registry, inventory, push>>
      /\ record' = [record EXCEPT ![j].status = job[j].outcome]
  BY DEF Complete
<1>3. RecordsTyped'
  <2>1. PICK closed : closed = [record[j] EXCEPT !.status = job[j].outcome]
    OBVIOUS
  <2>2. closed \in [status : {"none", "running", "failed", "completed"},
                    digest : Digests \cup {Nothing}, children : SUBSET Digests]
    <3>1. job[j].outcome \in {"none", "failed", "completed"}
      BY DEF DInv, JobTyped
    <3> QED
      BY <2>1, <3>1 DEF DInv, RecordsTyped
  <2>3. record' = [record EXCEPT ![j] = closed]
    BY <1>2, <2>1
  <2> QED
    BY <2>2, <2>3 DEF DInv, RecordsTyped
<1>4. Good(j, NoJob)'
  <2>1. /\ NoJob.phase = "idle" /\ NoJob.goal = "none" /\ NoJob.outcome = "none"
        /\ NoJob.seen = {} /\ NoJob.deleted = {} /\ NoJob.rest = <<>>
        /\ NoJob.view = <<>> /\ NoJob.digest = Nothing
    BY DEF NoJob
  <2>2. JobTyped(NoJob)'
    BY <2>1 DEF JobTyped, Phases, IsInventory, Planned, Deleting
  <2> QED
    BY <2>1, <2>2 DEF Good, WindowOK, ReviewOK, Window, Planned, Deleting
<1> QED
  BY <1>1, <1>2, <1>3, <1>4, HandlerMoves

LEMMA AuditFailsMoves == ASSUME IInv, DInv, NEW j \in Jobs, AuditFails(j) PROVE DInv'
<1>1. Running(j)
  BY DEF AuditFails, Running
<1>2. PICK next : next = GaveUp(j)
  OBVIOUS
<1>3. /\ job' = [job EXCEPT ![j] = next]
      /\ UNCHANGED <<registry, inventory, push>>
      /\ record' = [record EXCEPT ![j].status = "failed"]
  BY <1>2 DEF AuditFails
<1>4. RecordsTyped'
  BY <1>3 DEF DInv, RecordsTyped
<1>5. /\ next.phase \in {"idle", "reviewed"} /\ Good(j, next)
  BY <1>2, GaveUpGood DEF GaveUp, NoJob
<1>6. Good(j, next)'
  BY <1>3, <1>5 DEF Good, JobTyped, WindowOK, ReviewOK, Round, Referrers, registry
<1> QED
  BY <1>1, <1>3, <1>4, <1>6, HandlerMoves

\* A manifest leaves Distribution, and its tags with it.
LEMMA RemovalMoves ==
  ASSUME IInv, DInv, NEW j \in Jobs, NEW d, NEW next, Running(j),
         live' = live \ {d},
         tagOf' = [t \in Tags |-> IF tagOf[t] = d THEN Nothing ELSE tagOf[t]],
         job' = [MarkDirty EXCEPT ![j] = next],
         UNCHANGED <<inventory, push, record>>,
         JobTyped(next), next.phase \in {"livetags", "mark"},
         Undisturbed({"relations"} \cup Planned) => ReviewOK(next)',
         Quiet => QuietOK(j, next)'
  PROVE  DInv'
<1>1. job'[j] = next
  BY DEF IInv, Shaped, MarkDirty
<1>2. ASSUME NEW k \in Jobs, k # j PROVE SameWork(job'[k], job[k])
  <2>1. job'[k] = MarkDirty[k]
    BY <1>2 DEF MarkDirty
  <2> QED
    BY <2>1, MarkDirtySame DEF IInv
<1>3. RecordsTyped'
  BY DEF DInv, RecordsTyped
<1>4. ASSUME NEW k \in Jobs PROVE JobTyped(job[k])'
  <2>1. CASE k = j
    BY <1>1, <2>1 DEF JobTyped
  <2>2. CASE k # j
    <3>1. JobTyped(job'[k])
      BY <1>2, <2>2, SameTyped DEF DInv
    <3> QED
      BY <3>1 DEF JobTyped
  <2> QED
    BY <2>1, <2>2
<1>5. \A t \in Tags : tagOf'[t] = Nothing \/ tagOf'[t] = tagOf[t]
  OBVIOUS
<1>6. ASSUME Undisturbed(Window), NEW k \in Jobs PROVE WindowOK(job[k])'
  <2>1. CASE k = j
    BY <1>1, <2>1 DEF WindowOK, Window
  <2>2. CASE k # j
    <3>1. WindowOK(job[k])
      BY <1>6 DEF DInv
    <3>2. /\ job'[k].phase = job[k].phase /\ job'[k].seen = job[k].seen
          /\ job'[k].digest = job[k].digest /\ job'[k].rest = job[k].rest
      BY <1>2, <2>2, SameFields
    <3> QED
      BY <1>5, <3>1, <3>2 DEF WindowOK, Round
  <2> QED
    BY <2>1, <2>2
<1>7. ASSUME Undisturbed({"relations"} \cup Planned), NEW k \in Jobs PROVE ReviewOK(job[k])'
  <2>1. CASE k = j
    BY <1>1, <1>7, <2>1
  <2>2. CASE k # j
    <3>1. ReviewOK(job[k])
      BY <1>7 DEF DInv
    <3>2. /\ job'[k].phase = job[k].phase /\ job'[k].tags = job[k].tags
          /\ job'[k].digest = job[k].digest /\ job'[k].rest = job[k].rest
          /\ job'[k].reviewed = job[k].reviewed
      BY <1>2, <2>2, SameFields
    <3>3. job[k].phase \in {"relations"} \cup Planned => job[k].digest # Nothing
      BY ContentAssumption DEF DInv, JobTyped
    <3>4. \A x : Referrers(x)' \subseteq Referrers(x)
      BY DEF Referrers
    <3> QED
      BY <1>5, <3>1, <3>2, <3>3, <3>4 DEF ReviewOK, Round
  <2> QED
    BY <2>1, <2>2
<1>8. ASSUME Quiet PROVE Alone' /\ LiveKnown' /\ PushedStays'
  <2>1. Alone
    BY <1>8 DEF DInv
  <2>2. ASSUME NEW k \in Jobs, k # j PROVE ~Running(k)'
    BY <1>2, <2>1, <2>2, SameFields DEF Alone, Running
  <2>3. \A p \in Pushers : ~Pending(p)'
    BY <2>1 DEF Alone, Pending
  <2>4. Alone'
    BY <2>2, <2>3 DEF Alone
  <2>5. LiveKnown'
    BY <1>8 DEF DInv, LiveKnown, inventory, Pending
  <2> QED
    BY <2>3, <2>4, <2>5 DEF PushedStays
<1>9. ASSUME Quiet, NEW k \in Jobs, Running(k)' PROVE QuietOK(k, job[k])'
  <2>1. k = j
    BY <1>2, <1>9, SameFields DEF DInv, Alone, Running
  <2> QED
    BY <1>1, <1>9, <2>1
<1> QED
  BY <1>3, <1>4, <1>6, <1>7, <1>8, <1>9 DEF DInv

\* A handler deletes the head of what is left.
LEMMA RemoveMoves == ASSUME IInv, DInv, NEW j \in Jobs, Remove(j) PROVE DInv'
<1>1. PICK d : d = Head(job[j].rest)
  OBVIOUS
<1>2. PICK rest : rest = Tail(job[j].rest)
  OBVIOUS
<1>3. PICK deleted : deleted = job[j].deleted \cup ({d} \cap live)
  OBVIOUS
<1>5. PICK next : next = IF rest = <<>>
                         THEN [job[j] EXCEPT !.phase = "mark", !.rest = rest,
                                             !.deleted = deleted,
                                             !.todo = deleted, !.outcome = "completed"]
                         ELSE [job[j] EXCEPT !.phase = "livetags", !.rest = rest,
                                             !.deleted = deleted]
  OBVIOUS
<1>6. /\ live' = live \ {d}
      /\ tagOf' = [t \in Tags |-> IF tagOf[t] = d THEN Nothing ELSE tagOf[t]]
      /\ job' = [MarkDirty EXCEPT ![j] = next]
      /\ UNCHANGED <<inventory, push, record>>
  BY <1>1, <1>2, <1>3, <1>5 DEF Remove
<1>7. /\ next.goal = job[j].goal /\ next.seen = job[j].seen /\ next.view = job[j].view
      /\ next.digest = job[j].digest /\ next.tags = job[j].tags
      /\ next.reviewed = job[j].reviewed /\ next.rest = rest /\ next.deleted = deleted
      /\ rest = <<>> => /\ next.phase = "mark" /\ next.todo = deleted
                        /\ next.outcome = "completed"
      /\ rest # <<>> => next.phase = "livetags" /\ next.outcome = job[j].outcome
  <2>1. CASE rest = <<>>
    BY <1>5, <2>1, FieldNames DEF IInv, Shaped, IsHandler
  <2>2. CASE rest # <<>>
    BY <1>5, <2>2, FieldNames DEF IInv, Shaped, IsHandler
  <2> QED
    BY <2>1, <2>2
<1>8. Running(j) /\ job[j].phase = "remove"
  BY DEF Remove, Running
<1>9. /\ job[j].rest \in Seq(Digests) /\ job[j].rest # <<>>
      /\ job[j].goal = "execute" /\ job[j].digest \in Digests
      /\ job[j].deleted \subseteq Digests
  BY <1>8 DEF DInv, JobTyped, Planned, Deleting
<1>10. /\ d \in Digests /\ rest \in Seq(Digests)
       /\ Elements(job[j].rest) = {d} \cup Elements(rest)
  BY <1>1, <1>2, <1>9, RestFacts
<1>11. JobTyped(next)
  BY <1>3, <1>7, <1>9, <1>10 DEF DInv, JobTyped, Phases, Planned, Deleting
<1>12. \A t \in Tags : tagOf'[t] = Nothing \/ tagOf'[t] = tagOf[t]
  BY <1>6
<1>13. ASSUME Undisturbed({"relations"} \cup Planned) PROVE ReviewOK(next)'
  <2>1. ReviewOK(job[j]) /\ job[j].phase \in Planned
    BY <1>8, <1>13 DEF DInv, Planned, Deleting
  <2>2. job[j].digest # Nothing
    BY <1>9, ContentAssumption
  <2>3. \A x : Referrers(x)' \subseteq Referrers(x)
    BY <1>6 DEF Referrers
  <2>4. next.phase # "remove"
    BY <1>7
  <2> QED
    BY <1>7, <1>12, <2>1, <2>2, <2>3, <2>4 DEF ReviewOK
<1>14. ASSUME Quiet PROVE QuietOK(j, next)'
  <2>1. GoneOK(job[j]) /\ ListingOK(job[j]) /\ RecordOK(j, job[j])
    BY <1>8, <1>14 DEF DInv, QuietOK
  <2>2. d \in live /\ deleted = job[j].deleted \cup {d}
    <3>1. CASE d = job[j].digest
      BY <1>1, <1>3, <3>1 DEF Remove
    <3>2. CASE d # job[j].digest
      BY <1>1, <1>3, <1>8, <2>1, <3>2 DEF ListingOK, Round
    <3> QED
      BY <3>1, <3>2
  <2>3. GoneOK(next)'
    <3>1. row[d] # "none"
      BY <1>8, <1>14, <2>2, QuietRows
    <3>2. deleted \cap live' = {}
      BY <1>6, <2>2, <2>1 DEF GoneOK
    <3>3. \A x \in deleted : row'[x] # "none"
      BY <1>6, <2>2, <2>1, <3>1 DEF GoneOK, inventory
    <3> QED
      BY <1>7, <3>2, <3>3 DEF GoneOK
  <2>4. job[j].digest \notin live'
    <3>1. d = job[j].digest \/ job[j].digest \notin live
      BY <1>1, <1>8, <2>1 DEF ListingOK, Deleting
    <3> QED
      BY <1>6, <3>1
  <2>5. ListingOK(next)'
    <3>1. \A m \in live' : /\ m \in DOMAIN job[j].view /\ ~IsHistory(job[j].view[m])
                           /\ job[j].view[m].platforms = PlatformsOf[m]
      BY <1>6, <1>8, <2>1 DEF ListingOK, Deleting
    <3>2. next.phase \notin {"list", "record", "remove"}
      BY <1>7
    <3> QED
      BY <1>7, <2>4, <3>1, <3>2 DEF ListingOK
  <2>6. RecordOK(j, next)'
    <3>1. {record[j].digest} \cup record[j].children \subseteq deleted \cup Elements(rest)
      BY <1>8, <1>10, <2>2, <2>1 DEF RecordOK, Deleting
    <3>2. CASE rest = <<>>
      <4>1. Elements(rest) = {}
        BY <3>2 DEF Elements
      <4> QED
        BY <1>6, <1>7, <3>1, <3>2, <4>1 DEF RecordOK, Deleting
    <3>3. CASE rest # <<>>
      BY <1>6, <1>7, <3>1, <3>3 DEF RecordOK
    <3> QED
      BY <3>2, <3>3
  <2>7. SweepOK(next)'
    BY <1>7 DEF SweepOK
  <2> QED
    BY <2>3, <2>5, <2>6, <2>7 DEF QuietOK
<1>15. next.phase \in {"livetags", "mark"}
  BY <1>7
<1> QED
  BY <1>6, <1>8, <1>11, <1>13, <1>14, <1>15, RemovalMoves

\* The delete reached Distribution, and Grom does not know.
LEMMA AnswerLostMoves == ASSUME IInv, DInv, NEW j \in Jobs, DeleteAnswerLost(j) PROVE DInv'
<1>1. Running(j) /\ job[j].phase = "remove"
  BY DEF DeleteAnswerLost, Running
<1>2. PICK d : d = Head(job[j].rest)
  OBVIOUS
<1>3. PICK next : next = [job[j] EXCEPT !.phase = "mark", !.outcome = "failed",
                                        !.todo = job[j].deleted]
  OBVIOUS
<1>4. /\ live' = live \ {d}
      /\ tagOf' = [t \in Tags |-> IF tagOf[t] = d THEN Nothing ELSE tagOf[t]]
      /\ job' = [MarkDirty EXCEPT ![j] = next]
      /\ UNCHANGED <<inventory, push, record>>
  BY <1>2, <1>3 DEF DeleteAnswerLost
<1>5. /\ next.phase = "mark" /\ next.outcome = "failed" /\ next.todo = job[j].deleted
      /\ next.goal = job[j].goal /\ next.seen = job[j].seen /\ next.view = job[j].view
      /\ next.digest = job[j].digest /\ next.rest = job[j].rest
      /\ next.deleted = job[j].deleted
  BY <1>3, FieldNames DEF IInv, Shaped, IsHandler
<1>6. JobTyped(next)
  BY <1>5 DEF DInv, JobTyped, Phases, Planned, Deleting
<1>7. ReviewOK(next)'
  BY <1>5 DEF ReviewOK, Planned, Deleting
<1>8. ASSUME Quiet PROVE QuietOK(j, next)'
  <2>1. GoneOK(next)'
    BY <1>1, <1>4, <1>5, <1>8 DEF DInv, QuietOK, GoneOK, inventory
  <2> QED
    BY <1>5, <2>1 DEF QuietOK, SweepOK, ListingOK, RecordOK, Deleting
<1> QED
  BY <1>1, <1>4, <1>5, <1>6, <1>7, <1>8, RemovalMoves

\* A manifest that was deleted becomes history in the inventory.
LEMMA MarkDeletedMoves ==
  ASSUME IInv, DInv, NEW j \in Jobs, NEW d \in Digests, MarkDeleted(j, d) PROVE DInv'
<1>1. Running(j) /\ job[j].phase = "mark" /\ d \in job[j].todo
  BY DEF MarkDeleted, Running
<1>2. PICK next : next = [job[j] EXCEPT !.todo = job[j].todo \ {d}]
  OBVIOUS
<1>3. /\ job' = [job EXCEPT ![j] = next]
      /\ row' = [row EXCEPT ![d] = IF @ = "none" THEN "none" ELSE "deleted"]
      /\ UNCHANGED <<registry, push, record>>
  BY <1>2 DEF MarkDeleted
<1>4. /\ next.phase = "mark" /\ next.outcome = job[j].outcome
      /\ next.todo = job[j].todo \ {d}
      /\ next.goal = job[j].goal /\ next.seen = job[j].seen /\ next.view = job[j].view
      /\ next.digest = job[j].digest /\ next.rest = job[j].rest
      /\ next.deleted = job[j].deleted
  BY <1>1, <1>2, FieldNames DEF IInv, Shaped, IsHandler
<1>5. \A k \in Jobs : job'[k] = IF k = j THEN next ELSE job[k]
  BY <1>3 DEF IInv, Shaped
<1>6. \A x \in Digests :
        row'[x] = IF x = d THEN (IF row[d] = "none" THEN "none" ELSE "deleted") ELSE row[x]
  BY <1>3 DEF IInv, TypedInventory
<1>7. RecordsTyped'
  BY <1>3 DEF DInv, RecordsTyped
<1>8. ASSUME NEW k \in Jobs PROVE JobTyped(job[k])'
  <2>1. JobTyped(next)
    BY <1>4 DEF DInv, JobTyped, Phases, Planned, Deleting
  <2> QED
    BY <1>5, <2>1 DEF DInv, JobTyped
<1>9. ASSUME Undisturbed(Window), NEW k \in Jobs PROVE WindowOK(job[k])'
  <2>1. CASE k = j
    BY <1>4, <1>5, <2>1 DEF WindowOK, Window
  <2>2. CASE k # j
    BY <1>3, <1>5, <1>9, <2>2 DEF DInv, WindowOK, registry, Round
  <2> QED
    BY <2>1, <2>2
<1>10. ASSUME Undisturbed({"relations"} \cup Planned), NEW k \in Jobs PROVE ReviewOK(job[k])'
  <2>1. CASE k = j
    BY <1>4, <1>5, <2>1 DEF ReviewOK, Planned, Deleting
  <2>2. CASE k # j
    BY <1>3, <1>5, <1>10, <2>2 DEF DInv, ReviewOK, registry, Round, Referrers
  <2> QED
    BY <2>1, <2>2
<1>11. ASSUME Quiet PROVE d \notin live /\ row[d] # "none"
  BY <1>1, <1>11 DEF DInv, QuietOK, GoneOK
<1>12. ASSUME Quiet PROVE Alone' /\ LiveKnown' /\ PushedStays'
  <2>1. Alone'
    BY <1>1, <1>3, <1>5, <1>12 DEF DInv, Alone, Running, Pending
  <2>2. PushedStays'
    BY <1>3, <1>12 DEF DInv, PushedStays, Pending, registry, Fetchable
  <2>3. LiveKnown'
    <3>1. \A x \in live' : x \in live /\ row'[x] = row[x]
      BY <1>3, <1>6, <1>11, <1>12 DEF registry, IInv, TypedRegistry
    <3> QED
      BY <1>3, <1>12, <3>1 DEF DInv, LiveKnown, Pending
  <2> QED
    BY <2>1, <2>2, <2>3
<1>13. ASSUME Quiet, NEW k \in Jobs, Running(k)' PROVE QuietOK(k, job[k])'
  <2>1. k = j
    BY <1>1, <1>5, <1>13 DEF DInv, Alone, Running
  <2>2. GoneOK(job[j]) /\ RecordOK(j, job[j]) /\ job[j].deleted \subseteq Digests
    BY <1>1, <1>13 DEF DInv, QuietOK, JobTyped
  <2>3. GoneOK(next)'
    <3>1. \A x \in job[j].deleted : row'[x] # "none"
      BY <1>6, <1>11, <1>13, <2>2 DEF GoneOK
    <3>2. job[j].deleted \cap live' = {} /\ job[j].todo \subseteq job[j].deleted
      BY <1>1, <1>3, <2>2 DEF GoneOK, registry
    <3> QED
      BY <1>4, <3>1, <3>2 DEF GoneOK
  <2>4. RecordOK(j, next)'
    BY <1>1, <1>3, <1>4, <1>6, <1>11, <1>13, <2>2 DEF RecordOK, Deleting
  <2>5. QuietOK(j, next)'
    BY <1>4, <2>3, <2>4 DEF QuietOK, SweepOK, ListingOK, Deleting
  <2> QED
    BY <1>5, <2>1, <2>5
<1> QED
  BY <1>7, <1>8, <1>9, <1>10, <1>12, <1>13 DEF DInv

-----------------------------------------------------------------------------
(***************************************************************************)
(* Pushes, and the initial states                                          *)
(***************************************************************************)
\* A client pushes only while no handler is in a phase about which something
\* is claimed.
LEMMA PublishMoves ==
  ASSUME IInv, DInv, NEW p \in Pushers, NEW d \in Digests, NEW t \in Tags \cup {Nothing},
         Publish(p, d, t)
  PROVE  DInv'
<1>1. /\ push[p].phase = "idle" /\ MayOverlap /\ Tree[d] \ {d} \subseteq live
      /\ live' = live \cup {d} /\ job' = MarkDirty
      /\ push' = [push EXCEPT ![p] = [phase |-> "pushed", digest |-> d, tag |-> t]]
      /\ UNCHANGED <<inventory, record>>
  BY DEF Publish
<1>2. ASSUME NEW k \in Jobs PROVE SameWork(job'[k], job[k])
  BY <1>1, MarkDirtySame DEF IInv
<1>3. \A k \in Jobs : job'[k].phase = job[k].phase
  BY <1>2, SameFields
<1>4. RecordsTyped'
  BY <1>1 DEF DInv, RecordsTyped
<1>5. ASSUME NEW k \in Jobs PROVE JobTyped(job[k])'
  <2>1. JobTyped(job'[k])
    BY <1>2, SameTyped DEF DInv
  <2> QED
    BY <2>1 DEF JobTyped
<1>6. ASSUME Undisturbed(Window), NEW k \in Jobs PROVE WindowOK(job[k])'
  <2>1. job[k].phase \notin Window
    BY <1>1, <1>6 DEF MayOverlap, Running, Undisturbed, Window
  <2> QED
    BY <1>3, <2>1 DEF WindowOK, Window
<1>7. ASSUME Undisturbed({"relations"} \cup Planned), NEW k \in Jobs PROVE ReviewOK(job[k])'
  <2>1. job[k].phase \notin {"relations"} \cup Planned
    BY <1>1, <1>7 DEF MayOverlap, Running, Undisturbed, Planned, Deleting
  <2> QED
    BY <1>3, <2>1 DEF ReviewOK, Planned, Deleting
<1>8. ASSUME Quiet PROVE /\ \A k \in Jobs : ~Running(k)'
                         /\ Alone' /\ LiveKnown' /\ PushedStays'
  <2>1. \A k \in Jobs : ~Running(k)'
    BY <1>1, <1>3, <1>8 DEF MayOverlap, Quiet, Running
  <2>2. /\ push'[p].phase = "pushed" /\ push'[p].digest = d
        /\ \A q \in Pushers : q # p => push'[q] = push[q]
    BY <1>1 DEF IInv, TypedPushes
  <2>3. d \in Tree[d]
    BY TreeFacts
  <2>4. LiveKnown'
    <3> SUFFICES ASSUME NEW x \in live', row'[x] \notin {"active", "untagged"}
                 PROVE  \E q \in Pushers : Pending(q)' /\ x \in Tree[push'[q].digest]
      BY DEF LiveKnown
    <3>1. CASE x = d
      BY <2>2, <2>3, <3>1 DEF Pending
    <3>2. CASE x # d
      <4>1. x \in live /\ row[x] \notin {"active", "untagged"}
        BY <1>1, <3>2 DEF inventory
      <4>2. PICK q \in Pushers : Pending(q) /\ x \in Tree[push[q].digest]
        BY <1>8, <4>1 DEF DInv, LiveKnown
      <4>3. q # p
        BY <1>1, <4>2 DEF Pending
      <4> QED
        BY <2>2, <4>2, <4>3 DEF Pending
    <3> QED
      BY <3>1, <3>2
  <2>5. PushedStays'
    <3> SUFFICES ASSUME NEW q \in Pushers, Pending(q)'
                 PROVE  push'[q].digest \in Digests /\ Tree[push'[q].digest] \subseteq live'
      BY DEF PushedStays, Fetchable
    <3>1. CASE q = p
      BY <1>1, <2>2, <3>1
    <3>2. CASE q # p
      BY <1>1, <1>8, <2>2, <3>2 DEF DInv, PushedStays, Fetchable, Pending
    <3> QED
      BY <3>1, <3>2
  <2> QED
    BY <2>1, <2>4, <2>5 DEF Alone
<1> QED
  BY <1>4, <1>5, <1>6, <1>7, <1>8 DEF DInv

\* An observation moves nothing but the inventory and the push it is of.
LEMMA ObserverMoves ==
  ASSUME DInv, UNCHANGED <<registry, job, record>>,
         Quiet => (\A j \in Jobs : ~Running(j)) /\ LiveKnown' /\ PushedStays'
  PROVE  DInv'
<1>1. RecordsTyped' /\ \A j \in Jobs : JobTyped(job[j])'
  BY DEF DInv, RecordsTyped, JobTyped
<1>2. ASSUME NEW j \in Jobs
      PROVE  /\ Undisturbed(Window) => WindowOK(job[j])'
             /\ Undisturbed({"relations"} \cup Planned) => ReviewOK(job[j])'
  BY DEF DInv, WindowOK, ReviewOK, Round, Referrers, registry
<1>3. ASSUME Quiet PROVE (\A j \in Jobs : ~Running(j)') /\ Alone'
  BY <1>3 DEF Alone, Running
<1> QED
  BY <1>1, <1>2, <1>3 DEF DInv

LEMMA ObserveFetchMoves == ASSUME IInv, DInv, NEW p \in Pushers, ObserveFetch(p) PROVE DInv'
<1>1. /\ push[p].phase = "pushed"
      /\ push' = [push EXCEPT ![p] = IF Fetchable(push[p].digest)
                                     THEN [push[p] EXCEPT !.phase = "fetched"]
                                     ELSE NoPush]
      /\ UNCHANGED <<registry, inventory, job, record>>
  BY DEF ObserveFetch
<1>2. ASSUME Quiet PROVE (\A j \in Jobs : ~Running(j)) /\ LiveKnown' /\ PushedStays'
  <2>1. \A j \in Jobs : ~Running(j)
    BY <1>1, <1>2 DEF DInv, Alone, Pending
  <2>2. Fetchable(push[p].digest)
    BY <1>1, <1>2 DEF DInv, PushedStays, Pending
  <2>3. PICK fetched : fetched = [push[p] EXCEPT !.phase = "fetched"]
    OBVIOUS
  <2>4. push' = [push EXCEPT ![p] = fetched]
    BY <1>1, <2>2, <2>3
  <2>5. fetched.phase = "fetched" /\ fetched.digest = push[p].digest
    BY <2>3 DEF IInv, TypedPushes
  <2>6. \A q \in Pushers : push'[q].digest = push[q].digest /\ (Pending(q)' <=> Pending(q))
    BY <1>1, <2>4, <2>5 DEF IInv, TypedPushes, Pending
  <2>7. LiveKnown' /\ PushedStays'
    BY <1>1, <1>2, <2>6 DEF DInv, LiveKnown, PushedStays, registry, inventory, Fetchable
  <2> QED
    BY <2>1, <2>7
<1> QED
  BY <1>1, <1>2, ObserverMoves

LEMMA ObserveCommitMoves ==
  ASSUME IInv, DInv, NEW p \in Pushers, ObserveCommit(p) PROVE DInv'
<1> DEFINE d == push[p].digest
           t == push[p].tag
           now == [x \in Digests |-> IF x \in Tree[d] THEN "untagged" ELSE row[x]]
           touched == Tree[d] \cup (IF t = Nothing THEN {} ELSE {tagRow[t]})
<1>1. /\ push[p].phase = "fetched"
      /\ row' = Refreshed(touched, now)
      /\ push' = [push EXCEPT ![p] = NoPush]
      /\ UNCHANGED <<registry, job, record>>
  BY DEF ObserveCommit
<1>2. ASSUME Quiet PROVE (\A j \in Jobs : ~Running(j)) /\ LiveKnown' /\ PushedStays'
  <2>1. \A j \in Jobs : ~Running(j)
    BY <1>1, <1>2 DEF DInv, Alone, Pending
  <2>2. \A q \in Pushers : Pending(q)' => q # p /\ push'[q] = push[q]
    BY <1>1 DEF Pending, NoPush, IInv, TypedPushes
  <2>3. \A q \in Pushers : q # p => push'[q] = push[q]
    BY <1>1 DEF IInv, TypedPushes
  <2>4. ASSUME NEW x \in Digests
        PROVE  row'[x] = IF x \notin touched \/ now[x] = "none" THEN now[x]
                         ELSE IF \E u \in attached' : tagRow'[u] = x THEN "active"
                         ELSE IF now[x] = "deleted" THEN "deleted" ELSE "untagged"
    BY <1>1 DEF Refreshed
  <2>5. LiveKnown'
    <3> SUFFICES ASSUME NEW x \in live', row'[x] \notin {"active", "untagged"}
                 PROVE  \E q \in Pushers : Pending(q)' /\ x \in Tree[push'[q].digest]
      BY DEF LiveKnown
    <3>1. x \in live /\ x \in Digests
      BY <1>1 DEF registry, IInv, TypedRegistry
    <3>2. x \notin Tree[d]
      BY <2>4, <3>1
    <3>3. row[x] \notin {"active", "untagged"}
      BY <2>4, <3>1, <3>2
    <3>4. PICK q \in Pushers : Pending(q) /\ x \in Tree[push[q].digest]
      BY <1>2, <3>1, <3>3 DEF DInv, LiveKnown
    <3> QED
      BY <2>3, <3>2, <3>4 DEF Pending
  <2>6. PushedStays'
    BY <1>1, <1>2, <2>2 DEF DInv, PushedStays, registry, Fetchable, Pending
  <2> QED
    BY <2>1, <2>5, <2>6
<1> QED
  BY <1>1, <1>2, ObserverMoves

LEMMA ObservationLostMoves ==
  ASSUME DInv, NEW p \in Pushers, ObservationLost(p) PROVE DInv'
  BY ObserverMoves DEF ObservationLost, Quiet

LEMMA InitDInv == Init => DInv
<1> SUFFICES ASSUME Init PROVE DInv
  OBVIOUS
<1> USE DeletionAssumption, ContentAssumption DEF Init
<1>1. /\ NoJob.phase = "idle" /\ NoJob.goal = "none" /\ NoJob.outcome = "none"
      /\ NoJob.seen = {} /\ NoJob.deleted = {} /\ NoJob.rest = <<>>
      /\ NoJob.view = <<>> /\ NoJob.digest = Nothing
  BY DEF NoJob
<1>2. JobTyped(NoJob)
  BY <1>1 DEF JobTyped, Phases, IsInventory, Planned, Deleting
<1>3. WindowOK(NoJob) /\ ReviewOK(NoJob)
  BY <1>1 DEF WindowOK, ReviewOK, Window, Planned, Deleting
<1>4. RecordsTyped
  BY DEF RecordsTyped, NoRecord
<1>5. \A j \in Jobs : job[j] = NoJob /\ ~Running(j)
  BY <1>1 DEF Running
<1>6. Alone /\ LiveKnown /\ PushedStays
  BY <1>5 DEF Alone, LiveKnown, PushedStays, Pending, NoPush
<1> QED
  BY <1>2, <1>3, <1>4, <1>5, <1>6 DEF DInv

LEMMA StepDInv == IInv /\ DInv /\ [Next]_vars => DInv'
<1> SUFFICES ASSUME IInv, DInv, [Next]_vars PROVE DInv'
  OBVIOUS
<1>1. CASE UNCHANGED vars
  <2>1. UNCHANGED <<registry, inventory, push, job, record>>
    BY <1>1 DEF vars
  <2>2. RecordsTyped' /\ \A j \in Jobs : JobTyped(job[j])'
    BY <2>1 DEF DInv, RecordsTyped, JobTyped
  <2>3. ASSUME NEW j \in Jobs
        PROVE  /\ Undisturbed(Window) => WindowOK(job[j])'
               /\ Undisturbed({"relations"} \cup Planned) => ReviewOK(job[j])'
    BY <2>1 DEF DInv, WindowOK, ReviewOK, Round, Referrers, registry
  <2>4. ASSUME Quiet PROVE Alone' /\ LiveKnown' /\ PushedStays'
    BY <2>1, <2>4 DEF DInv, Alone, LiveKnown, PushedStays, Running, Pending, Fetchable,
                      registry, inventory
  <2>5. ASSUME Quiet, NEW j \in Jobs, Running(j)' PROVE QuietOK(j, job[j])'
    <3>1. QuietOK(j, job[j])
      BY <2>1, <2>5 DEF DInv, Running
    <3> QED
      BY <2>1, <3>1 DEF QuietOK, SweepOK, GoneOK, ListingOK, RecordOK, Round, registry,
                        inventory
  <2> QED
    BY <2>2, <2>3, <2>4, <2>5 DEF DInv
<1>2. ASSUME NEW p \in Pushers, Observe(p) PROVE DInv'
  BY <1>2, ObserveFetchMoves, ObserveCommitMoves, ObservationLostMoves DEF Observe
<1>3. ASSUME NEW p \in Pushers, NEW d \in Digests, NEW t \in Tags \cup {Nothing},
             Publish(p, d, t)
      PROVE  DInv'
  BY <1>3, PublishMoves
<1>4. ASSUME NEW j \in Jobs, Reconcile(j) PROVE DInv'
  BY <1>4, ListTagsMoves, FetchTagMoves, ListKnownMoves, ProbeMoves, SweepReferrersMoves,
     CommitMoves
  DEF Reconcile
<1>5. ASSUME NEW j \in Jobs, NEW goal \in {"sweep", "preview", "execute"}, NEW r,
             Start(j, goal, r)
      PROVE  DInv'
  BY <1>5, StartMoves
<1>6. ASSUME NEW j \in Jobs, Delete(j) PROVE DInv'
  <2>1. CASE Revalidate(j)
    <3>1. CASE MayGo(j, ToRevalidate(j))
      BY <2>1, <3>1, RevalidateMoves DEF Revalidate
    <3>2. CASE ~MayGo(j, ToRevalidate(j))
      BY <2>1, <3>2, FailedMoves DEF Revalidate, Running
    <3> QED
      BY <3>1, <3>2
  <2>2. CASE TargetVanished(j)
    BY <2>2, FailedMoves DEF TargetVanished, Running
  <2>3. CASE \E d \in Digests : MarkDeleted(j, d)
    BY <2>3, MarkDeletedMoves
  <2> QED
    BY <1>6, <2>1, <2>2, <2>3, ReadViewMoves, ResolveMoves, ReadAliasesMoves,
       ReadRelationsMoves, ListInventoryMoves, RecordStartMoves, ReadLiveTagsMoves,
       RemoveMoves, CompleteMoves
    DEF Delete
<1>7. ASSUME NEW j \in Jobs, Fail(j) PROVE DInv'
  <2>1. CASE ReadFails(j) \/ Crash(j)
    BY <2>1, GiveUpMoves DEF ReadFails, Crash, Reading, Running
  <2>2. CASE DeleteFails(j)
    BY <2>2, FailedMoves DEF DeleteFails, Deleting, Running
  <2> QED
    BY <1>7, <2>1, <2>2, AuditFailsMoves, AnswerLostMoves, MarkFailsMoves DEF Fail
<1> QED
  BY <1>1, <1>2, <1>3, <1>4, <1>5, <1>6, <1>7 DEF Next

LEMMA SpecDInv == Spec => [](IInv /\ DInv)
  BY InitIInv, StepIInv, InitDInv, StepDInv, PTL DEF Spec

-----------------------------------------------------------------------------
(***************************************************************************)
(* What a step may take away                                               *)
(***************************************************************************)
Deletes(j) == Remove(j) \/ DeleteAnswerLost(j)

LEMMA DeleteFacts ==
  ASSUME NEW j \in Jobs, Deletes(j)
  PROVE  LET d == Head(job[j].rest)
         IN /\ job[j].phase = "remove"
            /\ live' = live \ {d}
            /\ tagOf' = [t \in Tags |-> IF tagOf[t] = d THEN Nothing ELSE tagOf[t]]
            /\ UNCHANGED record
  BY DEF Deletes, Remove, DeleteAnswerLost

\* The steps of a handler that neither delete nor write its record.
HandlerStays(j) ==
  Reconcile(j) \/ (Delete(j) /\ ~Remove(j)) \/ (Fail(j) /\ ~DeleteAnswerLost(j))

LEMMA RegistryStays ==
  ASSUME NEW j \in Jobs, HandlerStays(j) PROVE UNCHANGED registry
<1>1. CASE Reconcile(j)
  BY <1>1 DEF Reconcile, ListTags, FetchTag, ListKnown, Probe, SweepReferrers, CommitReconcile,
              Hold, GiveUp
<1>2. CASE Delete(j) /\ ~Remove(j)
  BY <1>2 DEF Delete, ReadView, ResolveTarget, ReadAliases, ReadRelations, ListInventory,
              RecordStart, ReadLiveTags, Revalidate, TargetVanished, Complete, MarkDeleted,
              Failed, Hold, GiveUp
<1>3. CASE Fail(j) /\ ~DeleteAnswerLost(j)
  BY <1>3 DEF Fail, ReadFails, AuditFails, DeleteFails, MarkFails, Crash, Failed, Hold, GiveUp
<1> QED
  BY <1>1, <1>2, <1>3 DEF HandlerStays

\* Nothing but the delete of a handler takes a manifest or a tag away.
LEMMA NothingElseTakes ==
  ASSUME IInv, [Next]_vars, \A j \in Jobs : ~Deletes(j)
  PROVE  /\ live \subseteq live'
         /\ \A t \in Tags : tagOf'[t] = Nothing => tagOf[t] = Nothing
<1>1. CASE UNCHANGED registry
  BY <1>1 DEF registry
<1>2. CASE UNCHANGED vars
  BY <1>1, <1>2 DEF vars
<1>3. ASSUME NEW p \in Pushers, Observe(p) PROVE UNCHANGED registry
  BY <1>3 DEF Observe, ObserveFetch, ObserveCommit, ObservationLost
<1>4. ASSUME NEW p \in Pushers, NEW d \in Digests, NEW t \in Tags \cup {Nothing},
             Publish(p, d, t)
      PROVE  /\ live \subseteq live'
             /\ \A u \in Tags : tagOf'[u] = Nothing => tagOf[u] = Nothing
  <2>1. /\ live' = live \cup {d}
        /\ tagOf' = IF t = Nothing THEN tagOf ELSE [tagOf EXCEPT ![t] = d]
    BY <1>4 DEF Publish
  <2>2. d # Nothing
    BY ContentAssumption
  <2> QED
    BY <2>1, <2>2 DEF IInv, TypedRegistry
<1>5. ASSUME NEW j \in Jobs, NEW goal, NEW r, Start(j, goal, r) PROVE UNCHANGED registry
  BY <1>5 DEF Start
<1>6. ASSUME NEW j \in Jobs, Reconcile(j) \/ Delete(j) \/ Fail(j) PROVE UNCHANGED registry
  BY <1>6, RegistryStays DEF Deletes, HandlerStays
<1> QED
  BY <1>1, <1>2, <1>3, <1>4, <1>5, <1>6 DEF Next

\* What leaves Distribution is the head of what a handler has still to delete.
LEMMA TakenByDelete ==
  ASSUME IInv, [Next]_vars, NEW d \in live, d \notin live'
  PROVE  \E j \in Jobs : Deletes(j) /\ d = Head(job[j].rest)
  BY NothingElseTakes, DeleteFacts

LEMMA TagTakenByDelete ==
  ASSUME IInv, [Next]_vars, NEW t \in Tags, tagOf[t] # Nothing, tagOf'[t] = Nothing
  PROVE  \E j \in Jobs : Deletes(j) /\ tagOf[t] = Head(job[j].rest)
<1>1. PICK j \in Jobs : Deletes(j)
  BY NothingElseTakes
<1>2. tagOf' = [u \in Tags |-> IF tagOf[u] = Head(job[j].rest) THEN Nothing ELSE tagOf[u]]
  BY <1>1, DeleteFacts
<1> QED
  BY <1>1, <1>2

-----------------------------------------------------------------------------
(***************************************************************************)
(* The theorems about deletions                                            *)
(***************************************************************************)
\* If no client pushes between the last look at the tags and the delete, no
\* child of a deletion goes while it has a tag, or while an index other than
\* the target that lists it has one: pushes at every other moment, other
\* handlers, failures and lost observations included.
THEOREM TaggedChildrenStay == ASSUME Undisturbed(Window) PROVE Spec => ChildrenUntagged
<1>1. ASSUME IInv, DInv, [Next]_vars, NEW d \in ChildrenGone, NEW t \in Tags,
             tagOf[t] \in live, d \in Tree[tagOf[t]]
      PROVE  \E j \in Jobs : tagOf[t] = job[j].digest
  <2>1. d \in live /\ d \notin live' /\ \A j \in Jobs : job[j].digest # d
    BY <1>1 DEF ChildrenGone
  <2>2. PICK j \in Jobs : Deletes(j) /\ d = Head(job[j].rest)
    BY <1>1, <2>1, TakenByDelete
  <2>3. job[j].phase = "remove" /\ Round(job[j]) = {d}
    BY <2>1, <2>2, DeleteFacts DEF Round
  <2>4. WindowOK(job[j])
    BY <1>1 DEF DInv
  <2>5. tagOf[t] # Nothing
    BY <1>1, ContentAssumption DEF IInv, TypedRegistry
  <2>6. tagOf[t] \in job[j].seen /\ d \notin job[j].seen
    BY <2>3, <2>4, <2>5 DEF WindowOK, Window
  <2>7. SUFFICES ASSUME tagOf[t] # job[j].digest PROVE FALSE
    OBVIOUS
  <2> QED
    BY <1>1, <2>3, <2>4, <2>6, <2>7 DEF WindowOK
<1>2. IInv /\ DInv /\ [Next]_vars
        => [\A d \in ChildrenGone, t \in Tags :
              tagOf[t] \in live /\ d \in Tree[tagOf[t]]
                => \E j \in Jobs : tagOf[t] = job[j].digest]_vars
  BY <1>1
<1> QED
  BY SpecDInv, <1>2, PTL DEF Spec, ChildrenUntagged

\* If no client pushes from the comparison with the review to the last
\* delete, no deletion takes a manifest that another refers to as its subject.
THEOREM ReferrersStay ==
  ASSUME Undisturbed({"relations"} \cup Planned) PROVE Spec => ReferrersProtected
<1>1. ASSUME IInv, DInv, [Next]_vars, NEW d \in live \ live' PROVE Referrers(d) = {}
  <2>1. PICK j \in Jobs : Deletes(j) /\ d = Head(job[j].rest)
    BY <1>1, TakenByDelete
  <2>2. job[j].phase = "remove"
    BY <2>1, DeleteFacts
  <2>3. ReviewOK(job[j])
    BY <1>1 DEF DInv
  <2>4. CASE d = job[j].digest
    BY <2>2, <2>3, <2>4 DEF ReviewOK, Planned, Deleting
  <2>5. CASE d # job[j].digest
    BY <2>1, <2>2, <2>3, <2>5 DEF ReviewOK, Round
  <2> QED
    BY <2>4, <2>5
<1>2. IInv /\ DInv /\ [Next]_vars => [\A d \in live \ live' : Referrers(d) = {}]_vars
  BY <1>1
<1> QED
  BY SpecDInv, <1>2, PTL DEF Spec, ReferrersProtected

\* Under the same assumption no deletion takes a protected tag, or one the
\* administrator was not shown.
THEOREM OnlyTheReviewedTagsGo ==
  ASSUME Undisturbed({"relations"} \cup Planned) PROVE Spec => OnlyReviewedTags
<1>1. Undisturbed(Window)
  BY DEF Undisturbed, Window, Planned, Deleting
<1> DEFINE Reviewed(t) ==
             /\ t \notin ProtectedTags
             /\ \E j \in Jobs : job[j].goal = "execute" /\ t \in job[j].reviewed.tags
<1>2. ASSUME IInv, DInv, [Next]_vars,
             NEW t \in Tags, tagOf[t] # Nothing, tagOf'[t] = Nothing
      PROVE  Reviewed(t)
  <2>1. PICK j \in Jobs : Deletes(j) /\ tagOf[t] = Head(job[j].rest)
    BY <1>2, TagTakenByDelete
  <2>2. job[j].phase = "remove"
    BY <2>1, DeleteFacts
  <2>3. WindowOK(job[j]) /\ ReviewOK(job[j]) /\ JobTyped(job[j])
    BY <1>1, <1>2 DEF DInv
  <2>4. tagOf[t] \in job[j].seen
    BY <1>2, <2>2, <2>3 DEF WindowOK, Window
  <2>5. tagOf[t] = job[j].digest
    BY <2>1, <2>2, <2>3, <2>4 DEF WindowOK, Round
  <2> QED
    BY <2>2, <2>3, <2>5 DEF ReviewOK, JobTyped, Planned, Deleting
<1>3. IInv /\ DInv /\ [Next]_vars
        => [\A t \in Tags : tagOf[t] # Nothing /\ tagOf'[t] = Nothing => Reviewed(t)]_vars
  BY <1>2
<1> QED
  BY SpecDInv, <1>3, PTL DEF Spec, OnlyReviewedTags

\* In a quiet repository no child goes while a served manifest lists it,
\* wherever a deletion fails: the inventory it listed accounts for all that
\* is served, and the target goes first.
THEOREM ListedChildrenStay == ASSUME Quiet PROVE Spec => ChildrenUnlisted
<1>1. ASSUME IInv, DInv, [Next]_vars, NEW d \in ChildrenGone, NEW m \in live'
      PROVE  d \notin Children(Content, m)
  <2>1. d \in live /\ d \notin live' /\ \A j \in Jobs : job[j].digest # d
    BY <1>1 DEF ChildrenGone
  <2>2. PICK j \in Jobs : Deletes(j) /\ d = Head(job[j].rest)
    BY <1>1, <2>1, TakenByDelete
  <2>3. job[j].phase = "remove" /\ live' = live \ {d}
    BY <2>2, DeleteFacts
  <2>4. ListingOK(job[j])
    BY <1>1, <2>3 DEF DInv, QuietOK, Running
  <2> QED
    BY <2>1, <2>2, <2>3, <2>4 DEF ListingOK
<1>2. IInv /\ DInv /\ [Next]_vars
        => [\A d \in ChildrenGone, m \in live' : d \notin Children(Content, m)]_vars
  BY <1>1
<1> QED
  BY SpecDInv, <1>2, PTL DEF Spec, ChildrenUnlisted

\* In a quiet repository what the inventory calls deleted is not served, or
\* a push of it is still to be observed.
THEOREM DeletedStaysGone == ASSUME Quiet PROVE Spec => []DeletedIsGone
<1>1. DInv => DeletedIsGone
  BY DEF DInv, LiveKnown, DeletedIsGone, Pending
<1> QED
  BY SpecDInv, <1>1, PTL

\* Only the completion of a handler calls its record completed.
LEMMA CompletedByComplete ==
  ASSUME IInv, DInv, [Next]_vars, NEW j \in Jobs,
         record[j].status = "running", record'[j].status = "completed"
  PROVE  Complete(j) /\ job[j].outcome = "completed"
<1>1. record'[j] # record[j]
  OBVIOUS
<1>2. ~UNCHANGED record
  BY <1>1
<1>3. \E k \in Jobs : RecordStart(k) \/ AuditFails(k) \/ Complete(k)
  <2>1. ~UNCHANGED vars
    BY <1>2 DEF vars
  <2>2. ASSUME NEW p \in Pushers, Observe(p) PROVE UNCHANGED record
    BY <2>2 DEF Observe, ObserveFetch, ObserveCommit, ObservationLost
  <2>3. ASSUME NEW p \in Pushers, NEW d \in Digests, NEW t \in Tags \cup {Nothing},
               Publish(p, d, t)
        PROVE  UNCHANGED record
    BY <2>3 DEF Publish
  <2>4. ASSUME NEW k \in Jobs, NEW goal, NEW r, Start(k, goal, r) PROVE UNCHANGED record
    BY <2>4 DEF Start
  <2>5. ASSUME NEW k \in Jobs, Reconcile(k) PROVE UNCHANGED record
    BY <2>5 DEF Reconcile, ListTags, FetchTag, ListKnown, Probe, SweepReferrers,
                CommitReconcile, Hold, GiveUp
  <2>6. ASSUME NEW k \in Jobs, Delete(k), ~RecordStart(k), ~Complete(k) PROVE UNCHANGED record
    BY <2>6 DEF Delete, ReadView, ResolveTarget, ReadAliases, ReadRelations, ListInventory,
                ReadLiveTags, Revalidate, Remove, TargetVanished, MarkDeleted, Failed, Hold,
                GiveUp
  <2>7. ASSUME NEW k \in Jobs, Fail(k), ~AuditFails(k) PROVE UNCHANGED record
    BY <2>7 DEF Fail, ReadFails, DeleteFails, DeleteAnswerLost, MarkFails, Crash, Failed, Hold,
                GiveUp
  <2> QED
    BY <1>2, <2>1, <2>2, <2>3, <2>4, <2>5, <2>6, <2>7 DEF Next
<1>4. PICK k \in Jobs : RecordStart(k) \/ AuditFails(k) \/ Complete(k)
  BY <1>3
<1>5. k = j
  BY <1>1, <1>4 DEF RecordStart, AuditFails, Complete, DInv, RecordsTyped
<1>6. ~RecordStart(j)
  BY DEF RecordStart, DInv, RecordsTyped
<1>7. ~AuditFails(j)
  BY DEF AuditFails, DInv, RecordsTyped
<1>8. Complete(j)
  BY <1>4, <1>5, <1>6, <1>7
<1>9. record'[j].status = job[j].outcome
  BY <1>8 DEF Complete, DInv, RecordsTyped
<1> QED
  BY <1>8, <1>9

\* In a quiet repository a record says completed only when all it names is
\* gone from Distribution and history in the inventory, although deletes may
\* have gone unanswered and marks may have failed.
THEOREM CompletedIsGone == ASSUME Quiet PROVE Spec => CompletedMeansGone
<1>1. ASSUME IInv, DInv, [Next]_vars, NEW j \in Jobs,
             record[j].status = "running", record'[j].status = "completed",
             NEW d \in {record[j].digest} \cup record[j].children
      PROVE  d \notin live /\ row[d] = "deleted"
  <2>1. job[j].phase = "mark" /\ job[j].todo = {} /\ job[j].outcome = "completed"
    BY <1>1, CompletedByComplete DEF Complete
  <2>2. GoneOK(job[j]) /\ RecordOK(j, job[j])
    BY <1>1, <2>1 DEF DInv, QuietOK, Running
  <2>3. d \in job[j].deleted /\ row[d] = "deleted"
    BY <1>1, <2>1, <2>2 DEF RecordOK
  <2> QED
    BY <2>2, <2>3 DEF GoneOK
<1>2. IInv /\ DInv /\ [Next]_vars
        => [\A j \in Jobs :
              record[j].status = "running" /\ record'[j].status = "completed"
                => \A d \in {record[j].digest} \cup record[j].children :
                     d \notin live /\ row[d] = "deleted"]_vars
  BY <1>1
<1> QED
  BY SpecDInv, <1>2, PTL DEF Spec, CompletedMeansGone

-----------------------------------------------------------------------------
(***************************************************************************)
(* Types                                                                   *)
(***************************************************************************)
Counted == pushes \in 0 .. MaxPushes /\ starts \in 0 .. MaxStarts

AttachedRows == \A t \in attached : tagRow[t] # Nothing

LEMMA InitRest == Init => Counted /\ AttachedRows
  BY DeletionAssumption DEF Init, Counted, AttachedRows

LEMMA StepCounted == Counted /\ [Next]_vars => Counted'
<1> SUFFICES ASSUME Counted, [Next]_vars PROVE Counted'
  OBVIOUS
<1> USE DeletionAssumption
<1>1. CASE UNCHANGED <<pushes, starts>>
  BY <1>1 DEF Counted
<1>2. CASE UNCHANGED vars
  BY <1>1, <1>2 DEF vars
<1>3. ASSUME NEW p \in Pushers, Observe(p) PROVE UNCHANGED <<pushes, starts>>
  BY <1>3 DEF Observe, ObserveFetch, ObserveCommit, ObservationLost
<1>4. ASSUME NEW p \in Pushers, NEW d \in Digests, NEW t \in Tags \cup {Nothing},
             Publish(p, d, t)
      PROVE  Counted'
  BY <1>4 DEF Publish, Counted
<1>5. ASSUME NEW j \in Jobs, NEW goal, NEW r, Start(j, goal, r) PROVE Counted'
  BY <1>5 DEF Start, Counted
<1>6. ASSUME NEW j \in Jobs, Reconcile(j) PROVE UNCHANGED <<pushes, starts>>
  BY <1>6 DEF Reconcile, ListTags, FetchTag, ListKnown, Probe, SweepReferrers,
              CommitReconcile, Hold, GiveUp
<1>7. ASSUME NEW j \in Jobs, Delete(j) PROVE UNCHANGED <<pushes, starts>>
  BY <1>7 DEF Delete, ReadView, ResolveTarget, ReadAliases, ReadRelations, ListInventory,
              RecordStart, ReadLiveTags, Revalidate, Remove, TargetVanished, Complete,
              MarkDeleted, Failed, Hold, GiveUp
<1>8. ASSUME NEW j \in Jobs, Fail(j) PROVE UNCHANGED <<pushes, starts>>
  BY <1>8 DEF Fail, ReadFails, AuditFails, DeleteFails, DeleteAnswerLost, MarkFails, Crash,
              Failed, Hold, GiveUp
<1> QED
  BY <1>1, <1>2, <1>3, <1>4, <1>5, <1>6, <1>7, <1>8 DEF Next

\* A tag row that is not detached names a manifest.
LEMMA StepAttached == IInv /\ AttachedRows /\ [Next]_vars => AttachedRows'
<1> SUFFICES ASSUME IInv, AttachedRows, [Next]_vars PROVE AttachedRows'
  OBVIOUS
<1>1. CASE UNCHANGED <<attached, tagRow>>
  BY <1>1 DEF AttachedRows
<1>2. CASE UNCHANGED vars
  BY <1>1, <1>2 DEF vars, inventory
<1>3. ASSUME NEW p \in Pushers, Observe(p) PROVE AttachedRows'
  <2>1. CASE ObserveCommit(p)
    <3>1. push[p].digest # Nothing
      BY <2>1, ContentAssumption DEF ObserveCommit, IInv, TypedPushes
    <3> DEFINE d == push[p].digest
               t == push[p].tag
    <3>2. /\ tagRow' = IF t = Nothing THEN tagRow ELSE [tagRow EXCEPT ![t] = d]
          /\ attached' = IF t = Nothing THEN attached ELSE attached \cup {t}
          /\ t \in Tags \cup {Nothing}
      BY <2>1 DEF ObserveCommit, IInv, TypedPushes
    <3> HIDE DEF d, t
    <3> QED
      BY <3>1, <3>2 DEF AttachedRows, IInv, TypedInventory, d
  <2> QED
    BY <1>1, <1>3, <2>1 DEF Observe, ObserveFetch, ObservationLost, inventory
<1>4. ASSUME NEW p \in Pushers, NEW d \in Digests, NEW t \in Tags \cup {Nothing},
             Publish(p, d, t)
      PROVE  UNCHANGED <<attached, tagRow>>
  BY <1>4 DEF Publish, inventory
<1>5. ASSUME NEW j \in Jobs, NEW goal, NEW r, Start(j, goal, r)
      PROVE  UNCHANGED <<attached, tagRow>>
  BY <1>5 DEF Start, inventory
<1>6. ASSUME NEW j \in Jobs, Reconcile(j) PROVE AttachedRows'
  <2>1. CASE CommitReconcile(j)
    BY <2>1 DEF CommitReconcile, AttachedRows
  <2> QED
    BY <1>1, <1>6, <2>1 DEF Reconcile, ListTags, FetchTag, ListKnown, Probe, SweepReferrers,
                            Hold, GiveUp, inventory
<1>7. ASSUME NEW j \in Jobs, Delete(j) PROVE AttachedRows'
  <2>1. CASE \E d \in Digests : MarkDeleted(j, d)
    BY <2>1 DEF MarkDeleted, AttachedRows
  <2> QED
    BY <1>1, <1>7, <2>1 DEF Delete, ReadView, ResolveTarget, ReadAliases, ReadRelations,
       ListInventory, RecordStart, ReadLiveTags, Revalidate, Remove, TargetVanished, Complete,
       Failed, Hold, GiveUp, inventory
<1>8. ASSUME NEW j \in Jobs, Fail(j) PROVE UNCHANGED <<attached, tagRow>>
  BY <1>8 DEF Fail, ReadFails, AuditFails, DeleteFails, DeleteAnswerLost, MarkFails, Crash,
              Failed, Hold, GiveUp, inventory
<1> QED
  BY <1>1, <1>2, <1>3, <1>4, <1>5, <1>6, <1>7, <1>8 DEF Next

\* Every variable keeps its type; in particular what a deletion has still to
\* delete is a sequence of manifests, and the inventory it decides on is one.
THEOREM TypeCorrect == Spec => []TypeOK
<1>1. IInv /\ DInv /\ Counted /\ AttachedRows => TypeOK
  <2> SUFFICES ASSUME IInv, DInv, Counted, AttachedRows PROVE TypeOK
    OBVIOUS
  <2>1. ASSUME NEW j \in Jobs
        PROVE  /\ job[j].phase \in Phases
               /\ job[j].goal \in {"none", "sweep", "preview", "execute"}
               /\ job[j].seen \cup job[j].deleted \subseteq Digests
               /\ job[j].rest \in Seq(Digests)
               /\ IsInventory(job[j].view)
               /\ job[j].digest \in Digests \cup {Nothing}
    BY DEF DInv, JobTyped
  <2>2. attached \subseteq {t \in Tags : tagRow[t] # Nothing}
    BY DEF IInv, TypedInventory, AttachedRows
  <2> QED
    BY <2>1, <2>2 DEF TypeOK, IInv, TypedRegistry, TypedInventory, TypedPushes, DInv,
                      RecordsTyped, Counted
<1> QED
  BY InitRest, StepCounted, StepAttached, SpecDInv, <1>1, PTL DEF Spec
=============================================================================
