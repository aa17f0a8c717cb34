-------------------------- MODULE ArtifactDeletion --------------------------
(***************************************************************************)
(* Manual deletion of an artifact, on one repository:                      *)
(* artifact_deletion_service.go, manifest_deletion.go and                  *)
(* inventory_service.go of backend/internal/registry/application, over the *)
(* inventory tables of infrastructure/persistence/bun/lifecycle.go.        *)
(*                                                                         *)
(* Distribution is external: a set of manifests and a map of tags.  Grom   *)
(* reads it call by call, so clients push between any two calls; what a    *)
(* handler has read is kept in its job.  A push reaches the inventory      *)
(* through ObservePush, later and not always.  An administrator previews a *)
(* deletion, confirms it, and the execution repeats the preview before it  *)
(* deletes.  A job that only reconciles stands for the inventory endpoint. *)
(*                                                                         *)
(* Grouped into one step: a resolve and the fetch or the delete right      *)
(* after it, the calls of one listing, and the sweep over the referrers.   *)
(*                                                                         *)
(* A transaction on the inventory tables is one step, as on SQLite, which  *)
(* has one writer at a time.  What PostgreSQL makes of transactions that   *)
(* overlap is in InventoryTransactions; ActiveIffTagged and ReconcileHeals *)
(* depend on it, the other properties speak of Distribution or of          *)
(* transactions that do not overlap.                                       *)
(***************************************************************************)
EXTENDS RegistryContent

CONSTANTS ProtectedTags, \* tags a policy protects from deletion
          InitialTags,   \* where the tags point at first, or Nothing
          InitialLive,   \* the manifests Distribution has at first
          Pushers, Jobs, \* clients that push; handlers that reconcile or delete
          References,    \* the tags and digests a deletion is asked for
          MaxPushes, MaxStarts, \* bounds on the pushes and the started handlers
          OverlapPhases, \* phases of a job during which others may act
          LoseObservations, \* may an ObservePush be lost?
          Faults         \* may calls fail and the process stop?

ASSUME DeletionAssumption ==
  /\ InitialTags \in [Tags -> InitialLive \cup {Nothing}]
  /\ InitialLive \subseteq Digests
  /\ References \subseteq Tags \cup Digests
  /\ MaxPushes \in Nat /\ MaxStarts \in Nat

VARIABLES row,      \* registry_manifests: the state of each digest, or "none"
          tagRow,   \* registry_tags: the manifest of each tag row, or Nothing
          attached, \* registry_tags: the rows with detached_at NULL
          push,     \* per client: the push that is being observed
          job,      \* per handler: where it is and what it has read
          record,   \* per handler: its latest artifact deletion record
          pushes, starts

inventory == <<row, tagRow, attached>>
vars == <<registry, inventory, push, job, record, pushes, starts>>

-----------------------------------------------------------------------------
\* The digests found from S by listing referrers until none is new.
WithReferrers(S) ==
  {d \in Digests :
     \A X \in SUBSET Digests :
       S \subseteq X /\ (\A s \in X : \A r \in Referrers(s) : Tree[r] \subseteq X)
         => d \in X}

\* ListManifestInventory.
View ==
  [d \in {x \in Digests : row[x] # "none"} |->
     [state |-> row[d],
      tagged |-> \E t \in attached : tagRow[t] = d,
      subject |-> SubjectOf[d],
      platforms |-> PlatformsOf[d]]]

\* refreshManifestState of the digests in S, with the tag rows as they will
\* be; a deleted row that has no tag stays deleted.
Refreshed(S, current) ==
  [d \in Digests |->
     IF d \notin S \/ current[d] = "none" THEN current[d]
     ELSE IF \E t \in attached' : tagRow'[t] = d THEN "active"
     ELSE IF current[d] = "deleted" THEN "deleted" ELSE "untagged"]

Elements(seq) == {seq[i] : i \in DOMAIN seq}

NoPush == [phase |-> "idle", digest |-> Nothing, tag |-> Nothing]
NoPreview == [digest |-> Nothing, tags |-> {}, children |-> {}]
NoRecord == [status |-> "none", digest |-> Nothing, children |-> {}]
NoJob == [phase |-> "idle", goal |-> "none", reference |-> Nothing,
          todo |-> {}, found |-> <<>>, seen |-> {}, dirty |-> FALSE,
          view |-> <<>>, digest |-> Nothing, tags |-> {},
          reviewed |-> NoPreview, rest |-> <<>>, deleted |-> {},
          outcome |-> "none"]

Reading == {"tags", "fetch", "probe", "commit", "view", "resolve", "aliases",
            "relations", "list", "record"}
Deleting == {"livetags", "check", "remove"}
Phases == {"idle", "reviewed", "mark"} \cup Reading \cup Deleting

Running(j) == job[j].phase \notin {"idle", "reviewed"}

TypeOK ==
  /\ live \subseteq Digests
  /\ tagOf \in [Tags -> Digests \cup {Nothing}]
  /\ row \in [Digests -> States \cup {"none"}]
  /\ tagRow \in [Tags -> Digests \cup {Nothing}]
  /\ attached \subseteq {t \in Tags : tagRow[t] # Nothing}
  /\ push \in [Pushers -> [phase : {"idle", "pushed", "fetched"},
                           digest : Digests \cup {Nothing},
                           tag : Tags \cup {Nothing}]]
  /\ \A j \in Jobs :
       /\ job[j].phase \in Phases
       /\ job[j].goal \in {"none", "sweep", "preview", "execute"}
       /\ job[j].seen \cup job[j].deleted \subseteq Digests
       /\ job[j].rest \in Seq(Digests)
       /\ IsInventory(job[j].view)
       /\ job[j].digest \in Digests \cup {Nothing}
  /\ record \in [Jobs -> [status : {"none", "running", "failed", "completed"},
                          digest : Digests \cup {Nothing},
                          children : SUBSET Digests]]
  /\ pushes \in 0 .. MaxPushes /\ starts \in 0 .. MaxStarts

\* A repository whose pushes so far were all observed.
Init ==
  /\ live = InitialLive
  /\ tagOf = InitialTags
  /\ row = [d \in Digests |-> IF d \notin live THEN "none"
                              ELSE IF \E t \in Tags : tagOf[t] = d THEN "active"
                              ELSE "untagged"]
  /\ tagRow = tagOf
  /\ attached = {t \in Tags : tagOf[t] # Nothing}
  /\ push = [p \in Pushers |-> NoPush]
  /\ job = [j \in Jobs |-> NoJob]
  /\ record = [j \in Jobs |-> NoRecord]
  /\ pushes = 0 /\ starts = 0

-----------------------------------------------------------------------------
(***************************************************************************)
(* Pushes, and their observation by the gateway                            *)
(***************************************************************************)
\* Handlers that are running remember that Distribution changed meanwhile.
MarkDirty == [j \in Jobs |-> IF Running(j) THEN [job[j] EXCEPT !.dirty = TRUE]
                             ELSE job[j]]

\* May a client push, given what the handlers are doing?
MayOverlap == \A j \in Jobs : Running(j) => job[j].phase \in OverlapPhases

\* Distribution accepts a manifest whose children it has.
Publish(p, d, t) ==
  /\ push[p].phase = "idle"
  /\ pushes < MaxPushes
  /\ MayOverlap
  /\ Tree[d] \ {d} \subseteq live
  /\ live' = live \cup {d}
  /\ tagOf' = IF t = Nothing THEN tagOf ELSE [tagOf EXCEPT ![t] = d]
  /\ push' = [push EXCEPT ![p] = [phase |-> "pushed", digest |-> d, tag |-> t]]
  /\ job' = MarkDirty
  /\ pushes' = pushes + 1
  /\ UNCHANGED <<inventory, record, starts>>

\* ObservePush reads the manifest back; what it cannot read it does not record.
ObserveFetch(p) ==
  /\ push[p].phase = "pushed"
  /\ push' = [push EXCEPT ![p] = IF Fetchable(push[p].digest)
                                 THEN [push[p] EXCEPT !.phase = "fetched"]
                                 ELSE NoPush]
  /\ UNCHANGED <<registry, inventory, job, record, pushes, starts>>

\* UpsertManifestObservationsAtomically: the tree gets rows that are not
\* deleted, the tag row moves, and the manifest it left is refreshed.
ObserveCommit(p) ==
  LET d == push[p].digest
      t == push[p].tag
  IN /\ push[p].phase = "fetched"
     /\ tagRow' = IF t = Nothing THEN tagRow ELSE [tagRow EXCEPT ![t] = d]
     /\ attached' = IF t = Nothing THEN attached ELSE attached \cup {t}
     /\ row' = Refreshed(Tree[d] \cup (IF t = Nothing THEN {} ELSE {tagRow[t]}),
                         [x \in Digests |-> IF x \in Tree[d] THEN "untagged" ELSE row[x]])
     /\ push' = [push EXCEPT ![p] = NoPush]
     /\ UNCHANGED <<registry, job, record, pushes, starts>>

\* The client hung up, Grom stopped, or a call failed: an error is logged.
ObservationLost(p) ==
  /\ LoseObservations
  /\ push[p].phase # "idle"
  /\ push' = [push EXCEPT ![p] = NoPush]
  /\ UNCHANGED <<registry, inventory, job, record, pushes, starts>>

-----------------------------------------------------------------------------
(***************************************************************************)
(* InventoryService.Reconcile                                              *)
(***************************************************************************)
\* A step of handler j that only changes what it holds.
Hold(j, next) ==
  /\ job' = [job EXCEPT ![j] = next]
  /\ UNCHANGED <<registry, inventory, push, record, pushes, starts>>

\* The handler answers with an error; a confirmation can be sent again.
GaveUp(j) == IF job[j].goal = "execute"
             THEN [NoJob EXCEPT !.phase = "reviewed", !.reviewed = job[j].reviewed,
                                !.reference = job[j].reference]
             ELSE NoJob

GiveUp(j) == Hold(j, GaveUp(j))

Start(j, goal, reference) ==
  /\ ~Running(j)
  /\ starts < MaxStarts
  /\ goal = "execute" => job[j].phase = "reviewed" /\ reference = job[j].reference
  /\ \/ OverlapPhases # {}
     \/ \A p \in Pushers : push[p].phase = "idle"
  /\ \A k \in Jobs \ {j} : Running(k) => job[k].phase \in OverlapPhases
  /\ job' = [job EXCEPT ![j] = [NoJob EXCEPT !.phase = "tags", !.goal = goal,
                                             !.reference = reference,
                                             !.reviewed = job[j].reviewed]]
  /\ starts' = starts + 1
  /\ UNCHANGED <<registry, inventory, push, record, pushes>>

ListTags(j) ==
  /\ job[j].phase = "tags"
  /\ Hold(j, [job[j] EXCEPT !.phase = "fetch",
                            !.todo = {t \in Tags : tagOf[t] # Nothing},
                            !.found = [t \in Tags |-> Nothing],
                            !.seen = {}, !.dirty = FALSE])

FetchTag(j, t) ==
  /\ job[j].phase = "fetch"
  /\ t \in job[j].todo
  /\ IF Fetchable(tagOf[t])
     THEN Hold(j, [job[j] EXCEPT !.todo = @ \ {t},
                                 !.found[t] = tagOf[t],
                                 !.seen = @ \cup Tree[tagOf[t]]])
     ELSE GiveUp(j)

\* Known rows that no tag led to are looked up by digest; missing ones not
\* more than once an hour.
ListKnown(j) ==
  LET unseen == {d \in Digests : row[d] \notin {"none", "deleted"}} \ job[j].seen
  IN /\ job[j].phase = "fetch"
     /\ job[j].todo = {}
     /\ \E probed \in SUBSET {d \in unseen : row[d] = "missing"} :
          Hold(j, [job[j] EXCEPT !.phase = "probe",
                                 !.todo = {d \in unseen : row[d] # "missing"} \cup probed])

Probe(j, d) ==
  /\ job[j].phase = "probe"
  /\ d \in job[j].todo
  /\ IF d \in job[j].seen \/ d \notin live
     THEN Hold(j, [job[j] EXCEPT !.todo = @ \ {d}])
     ELSE IF Fetchable(d)
          THEN Hold(j, [job[j] EXCEPT !.todo = @ \ {d}, !.seen = @ \cup Tree[d]])
          ELSE GiveUp(j)

SweepReferrers(j) ==
  LET all == WithReferrers(job[j].seen)
  IN /\ job[j].phase = "probe"
     /\ job[j].todo = {}
     /\ IF \A d \in all : \A r \in Referrers(d) : Fetchable(r)
        THEN Hold(j, [job[j] EXCEPT !.phase = "commit", !.seen = all])
        ELSE GiveUp(j)

\* Fault: a tag that was not seen stays attached.
CommitWithoutDetach(j) ==
  LET found == job[j].found
      seen == job[j].seen
      kept == {t \in Tags : found[t] # Nothing}
      now == [d \in Digests |-> IF d \in seen THEN "untagged"
                                ELSE IF row[d] \in {"none", "deleted"} THEN row[d]
                                ELSE "missing"]
  IN /\ job[j].phase = "commit"
     /\ tagRow' = [t \in Tags |-> IF t \in kept THEN found[t] ELSE tagRow[t]]
     /\ attached' = attached \cup kept
     /\ row' = Refreshed(seen, now)
     /\ job' = [job EXCEPT ![j] = IF job[j].goal = "sweep" THEN NoJob
                                  ELSE [job[j] EXCEPT !.phase = "view", !.found = <<>>,
                                                      !.seen = {}]]
     /\ UNCHANGED <<registry, push, record, pushes, starts>>

\* ReconcileManifestObservationsAtomically: upsert what was seen, detach the
\* tags that were not, and call the other rows missing.
CommitReconcile(j) ==
  LET found == job[j].found
      seen == job[j].seen
      kept == {t \in Tags : found[t] # Nothing}
      now == [d \in Digests |-> IF d \in seen THEN "untagged"
                                ELSE IF row[d] \in {"none", "deleted"} THEN row[d]
                                ELSE "missing"]
  IN /\ job[j].phase = "commit"
     /\ tagRow' = [t \in Tags |-> IF t \in kept THEN found[t] ELSE tagRow[t]]
     /\ attached' = kept
     /\ row' = Refreshed(seen, now)
     /\ job' = [job EXCEPT ![j] = IF job[j].goal = "sweep" THEN NoJob
                                  ELSE [job[j] EXCEPT !.phase = "view", !.found = <<>>,
                                                      !.seen = {}]]
     /\ UNCHANGED <<registry, push, record, pushes, starts>>

-----------------------------------------------------------------------------
(***************************************************************************)
(* ArtifactDeletionService.Preview and Execute                             *)
(***************************************************************************)
ReadView(j) ==
  /\ job[j].phase = "view"
  /\ Hold(j, [job[j] EXCEPT !.phase = "resolve", !.view = View])

ResolveTarget(j) ==
  LET ref == job[j].reference
      digest == IF ref \in Tags THEN tagOf[ref] ELSE ref
  IN /\ job[j].phase = "resolve"
     /\ IF digest \in live
        THEN Hold(j, [job[j] EXCEPT !.phase = "aliases", !.digest = digest])
        ELSE GiveUp(j)

\* The tags that go with the target, unless a policy protects one of them.
ReadAliases(j) ==
  LET aliases == {t \in Tags : tagOf[t] = job[j].digest}
  IN /\ job[j].phase = "aliases"
     /\ IF aliases \cap ProtectedTags = {}
        THEN Hold(j, [job[j] EXCEPT !.phase = "relations", !.tags = aliases])
        ELSE GiveUp(j)

\* OCI relationships that forbid a deletion.
Blocked(d) == SubjectOf[d] # NoSubject \/ Referrers(d) # {}

\* Fault: the tags of the confirmation are not compared.
AgreesButForTags(j, preview) == preview = [job[j].reviewed EXCEPT !.tags = preview.tags]

\* The confirmation names digest, tags and children, in any order; all must
\* still be so.
AgreesWithReview(j, preview) == preview = job[j].reviewed

\* Fault: from the leaves to the target.
ChildrenFirst(d, children) == children \o <<d>>

\* The target goes before its children: an index without them is of no use,
\* while they are of use without it.
DeletionOrder(d, children) == <<d>> \o children

\* The last reads of the preview, and for an execution the comparison with
\* what was reviewed.
ReadRelations(j) ==
  LET d == job[j].digest
      children == PlannedChildren(job[j].view, d)
      preview == [digest |-> d, tags |-> job[j].tags, children |-> Elements(children)]
  IN /\ job[j].phase = "relations"
     /\ \/ /\ ~Fetchable(d)
           /\ GiveUp(j)
        \/ /\ Fetchable(d) /\ job[j].goal = "preview"
           /\ Hold(j, [NoJob EXCEPT !.phase = "reviewed", !.reviewed = preview,
                                    !.reference = job[j].reference])
        \/ /\ Fetchable(d) /\ job[j].goal = "execute"
           /\ IF AgreesWithReview(j, preview) /\ ~Blocked(d)
              THEN Hold(j, [job[j] EXCEPT !.phase = "list", !.view = <<>>,
                                          !.rest = DeletionOrder(d, children)])
              ELSE GiveUp(j)

ListInventory(j) ==
  /\ job[j].phase = "list"
  /\ Hold(j, [job[j] EXCEPT !.phase = "record", !.view = View])

\* The record, and the audit event without which nothing is deleted.
RecordStart(j) ==
  /\ job[j].phase = "record"
  /\ record' = [record EXCEPT ![j] = [status |-> "running", digest |-> job[j].digest,
                                      children |-> Elements(job[j].rest) \ {job[j].digest}]]
  /\ job' = [job EXCEPT ![j].phase = "livetags"]
  /\ UNCHANGED <<registry, inventory, push, pushes, starts>>

-----------------------------------------------------------------------------
(***************************************************************************)
(* deleteManifestTree                                                      *)
(***************************************************************************)
\* Fault: the whole plan is marked, not what was deleted of it.
FailedMarksPlan(j) ==
  Hold(j, [job[j] EXCEPT !.phase = "mark", !.outcome = "failed",
                         !.todo = job[j].deleted \cup Elements(job[j].rest)])

Failed(j) == Hold(j, [job[j] EXCEPT !.phase = "mark", !.outcome = "failed",
                                    !.todo = job[j].deleted])

\* The children a round revalidates: all of them before the target goes, and
\* then one at a time.
ToRevalidate(j) ==
  IF Head(job[j].rest) = job[j].digest
  THEN Elements(job[j].rest) \ {job[j].digest}
  ELSE {Head(job[j].rest)}

\* Fault: a tag that resolves to nothing is kept.
ReadDanglingTags(j) ==
  /\ job[j].phase = "livetags"
  /\ Hold(j, [job[j] EXCEPT !.phase = "check", !.seen = {tagOf[t] : t \in Tags}])

\* Fault: the tags are read once for the whole tree.
ReadTagsOnce(j) ==
  /\ job[j].phase = "livetags"
  /\ Hold(j, [job[j] EXCEPT !.phase = "check",
                            !.seen = IF job[j].deleted = {}
                                     THEN {tagOf[t] : t \in Tags} \ {Nothing} ELSE @])

\* Tags are kept as the set of digests they resolve to.
ReadLiveTags(j) ==
  /\ job[j].phase = "livetags"
  /\ Hold(j, [job[j] EXCEPT !.phase = "check",
                            !.seen = {tagOf[t] : t \in Tags} \ {Nothing}])

\* On the tags read in this round and the inventory listed before the first.
MayGo(j, children) ==
  StillUnneeded(job[j].view, job[j].seen, job[j].digest, children)

Revalidate(j) ==
  /\ job[j].phase = "check"
  /\ IF MayGo(j, ToRevalidate(j))
     THEN Hold(j, [job[j] EXCEPT !.phase = "remove"])
     ELSE Failed(j)

\* Distribution deletes by digest, and every tag of the manifest with it;
\* a child that is gone already is passed over.
Remove(j) ==
  LET d == Head(job[j].rest)
      rest == Tail(job[j].rest)
      deleted == job[j].deleted \cup ({d} \cap live)
  IN /\ job[j].phase = "remove"
     /\ d = job[j].digest => d \in live
     /\ live' = live \ {d}
     /\ tagOf' = [t \in Tags |-> IF tagOf[t] = d THEN Nothing ELSE tagOf[t]]
     /\ job' = [MarkDirty EXCEPT ![j] =
                  IF rest = <<>>
                  THEN [job[j] EXCEPT !.phase = "mark", !.rest = rest, !.deleted = deleted,
                                      !.todo = deleted, !.outcome = "completed"]
                  ELSE [job[j] EXCEPT !.phase = "livetags", !.rest = rest, !.deleted = deleted]]
     /\ UNCHANGED <<inventory, push, record, pushes, starts>>

\* The target is no longer there: nothing is deleted.
TargetVanished(j) ==
  /\ job[j].phase = "remove"
  /\ Head(job[j].rest) = job[j].digest /\ job[j].digest \notin live
  /\ Failed(j)

\* MarkManifestDeleted: its tag rows are detached and its row is history.
MarkDeleted(j, d) ==
  /\ job[j].phase = "mark"
  /\ d \in job[j].todo
  /\ attached' = {t \in attached : tagRow[t] # d}
  /\ row' = [row EXCEPT ![d] = IF @ = "none" THEN "none" ELSE "deleted"]
  /\ job' = [job EXCEPT ![j].todo = @ \ {d}]
  /\ UNCHANGED <<registry, tagRow, push, record, pushes, starts>>

Complete(j) ==
  /\ job[j].phase = "mark"
  /\ job[j].todo = {}
  /\ record' = [record EXCEPT ![j].status = job[j].outcome]
  /\ job' = [job EXCEPT ![j] = NoJob]
  /\ UNCHANGED <<registry, inventory, push, pushes, starts>>

-----------------------------------------------------------------------------
(***************************************************************************)
(* Failures                                                                *)
(***************************************************************************)
\* A call to Distribution or the database fails while nothing is recorded.
ReadFails(j) ==
  /\ Faults
  /\ job[j].phase \in Reading
  /\ GiveUp(j)

\* The audit event cannot be written: the new record is closed as failed.
AuditFails(j) ==
  /\ Faults
  /\ job[j].phase = "livetags" /\ job[j].deleted = {}
  /\ Head(job[j].rest) = job[j].digest
  /\ record' = [record EXCEPT ![j].status = "failed"]
  /\ job' = [job EXCEPT ![j] = GaveUp(j)]
  /\ UNCHANGED <<registry, inventory, push, pushes, starts>>

DeleteFails(j) ==
  /\ Faults
  /\ job[j].phase \in Deleting
  /\ Failed(j)

\* Fault: the error of a mark is dropped in either case.
MarkFailureDropped(j) ==
  /\ Faults
  /\ job[j].phase = "mark"
  /\ \E d \in job[j].todo : Hold(j, [job[j] EXCEPT !.todo = @ \ {d}])

\* The manifest is deleted but Grom does not learn it: it is not marked.
DeleteAnswerLost(j) ==
  LET d == Head(job[j].rest)
  IN /\ Faults
     /\ job[j].phase = "remove"
     /\ d \in live
     /\ live' = live \ {d}
     /\ tagOf' = [t \in Tags |-> IF tagOf[t] = d THEN Nothing ELSE tagOf[t]]
     /\ job' = [MarkDirty EXCEPT ![j] = [job[j] EXCEPT !.phase = "mark", !.outcome = "failed",
                                                        !.todo = job[j].deleted]]
     /\ UNCHANGED <<inventory, push, record, pushes, starts>>

\* After a failed deletion the error of a mark is dropped; after a complete
\* one it fails the deletion and the other marks are not tried.
MarkFails(j) ==
  /\ Faults
  /\ job[j].phase = "mark" /\ job[j].todo # {}
  /\ \E d \in job[j].todo :
       Hold(j, [job[j] EXCEPT !.outcome = "failed",
                              !.todo = IF job[j].outcome = "failed" THEN @ \ {d} ELSE {}])

\* The handler stops where it is; also when the record cannot be completed.
Crash(j) ==
  /\ Faults
  /\ Running(j)
  /\ GiveUp(j)

Observe(p) == ObserveFetch(p) \/ ObserveCommit(p) \/ ObservationLost(p)

Reconcile(j) ==
  \/ ListTags(j) \/ ListKnown(j) \/ SweepReferrers(j) \/ CommitReconcile(j)
  \/ \E t \in Tags : FetchTag(j, t)
  \/ \E d \in Digests : Probe(j, d)

Delete(j) ==
  \/ ReadView(j) \/ ResolveTarget(j) \/ ReadAliases(j) \/ ReadRelations(j)
  \/ ListInventory(j) \/ RecordStart(j) \/ ReadLiveTags(j) \/ Revalidate(j)
  \/ Remove(j) \/ TargetVanished(j) \/ Complete(j)
  \/ \E d \in Digests : MarkDeleted(j, d)

Fail(j) ==
  \/ ReadFails(j) \/ AuditFails(j) \/ DeleteFails(j) \/ DeleteAnswerLost(j)
  \/ MarkFails(j) \/ Crash(j)

Next ==
  \/ \E p \in Pushers : \/ Observe(p)
                        \/ \E d \in Digests, t \in Tags \cup {Nothing} : Publish(p, d, t)
  \/ \E j \in Jobs : \/ Reconcile(j) \/ Delete(j) \/ Fail(j)
                     \/ \E r \in References : Start(j, "preview", r) \/ Start(j, "execute", r)
                     \/ Start(j, "sweep", Nothing)

Spec == Init /\ [][Next]_vars

-----------------------------------------------------------------------------
(***************************************************************************)
(* Safety                                                                  *)
(***************************************************************************)
\* The manifests this step deletes as children of a target.
ChildrenGone == {d \in live \ live' : \A j \in Jobs : job[j].digest # d}

\* No child is deleted while a served manifest lists it, at no moment of a
\* deletion and whatever fails in the middle of it: not even its own index.
\* (An index that lists the target loses both, since a target may be listed.)
ChildrenUnlisted ==
  [][\A d \in ChildrenGone, m \in live' : d \notin Children(Content, m)]_vars

\* No deletion takes a manifest that a served manifest refers to as its
\* subject.
ReferrersProtected ==
  [][\A d \in live \ live' : Referrers(d) = {}]_vars

\* A deletion takes no tag that the administrator was not shown, and none
\* that a policy protects.
OnlyReviewedTags ==
  [][\A t \in Tags : tagOf[t] # Nothing /\ tagOf'[t] = Nothing
       => /\ t \notin ProtectedTags
          /\ \E j \in Jobs : job[j].goal = "execute" /\ t \in job[j].reviewed.tags]_vars

\* What the inventory calls deleted is not served any more, unless it was
\* pushed again and the push is still to be observed.
DeletedIsGone ==
  \A d \in live : row[d] = "deleted" =>
    \E p \in Pushers : push[p].phase # "idle" /\ d \in Tree[push[p].digest]

\* A record says completed only when the whole reviewed tree is gone from
\* Distribution and is history in the inventory.
CompletedMeansGone ==
  [][\A j \in Jobs :
       record[j].status = "running" /\ record'[j].status = "completed"
         => \A d \in {record[j].digest} \cup record[j].children :
              d \notin live /\ row[d] = "deleted"]_vars

\* The two tables agree, on SQLite, where transactions do not overlap: a
\* manifest is active when a tag row that is not detached points at it, and at
\* no other time.
ActiveIffTagged ==
  \A d \in Digests : row[d] = "active" <=> \E t \in attached : tagRow[t] = d

\* No child is deleted with a tag on it, or with a tag on an index other than
\* the target that lists it, even one pushed while the deletion is under way.
ChildrenUntagged ==
  [][\A d \in ChildrenGone, t \in Tags :
       tagOf[t] \in live /\ d \in Tree[tagOf[t]]
         => \E j \in Jobs : tagOf[t] = job[j].digest]_vars

\* A reconciliation during which Distribution did not change repairs what
\* earlier overlaps, losses and crashes left: its tags are the tags, and
\* what it accounts for is served.  (Its transaction too overlaps no other.)
ReconcileHeals ==
  [][\A j \in Jobs :
       CommitReconcile(j) /\ ~job[j].dirty
         => /\ \A t \in Tags : IF t \in attached' THEN tagRow'[t] = tagOf[t]
                                                ELSE tagOf[t] = Nothing
            /\ \A d \in Digests : row'[d] \in {"active", "untagged"} => d \in live]_vars

\* A confirmed deletion that nothing disturbs succeeds.  It does not when an index
\* of the deletion lists a leaf that comes first (MCDeletionNested.cfg).
NeverFails == \A j \in Jobs : record[j].status # "failed"
=============================================================================
