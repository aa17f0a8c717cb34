----------------------------- MODULE Repositories -----------------------------
(***************************************************************************)
(* One project with one repository path: its row, its policies, the        *)
(* content Distribution has under that path, and the requests that create, *)
(* archive, remove, list and push to it, or delete the project.            *)
(* repository_service.go, token_service.go and gateway.go with             *)
(* persistence/bun/store.go of backend/internal/registry, the project      *)
(* service, and the handlers of backend/internal/httpapi/server.go.        *)
(*                                                                         *)
(* A job is one client: a request of the management API, or a session with *)
(* a registry token.  The gate is ExclusiveGate's; requests that only read *)
(* are outside it.  Who is allowed to do what is the subject of Access.    *)
(* A failing read or an error in between ends a handler: Fail.             *)
(***************************************************************************)
EXTENDS ExclusiveGate, FiniteSets

CONSTANTS Jobs,       \* requests and clients
          Digests,    \* what is pushed
          Nothing,    \* no digest
          MaxStarts,  \* bound on requests begun
          MaxTrouble  \* bound on failures and stops

ASSUME RepositoriesAssumption ==
  /\ Jobs = Requests /\ Jobs \subseteq Owners /\ Nobody \notin Jobs /\ IsFiniteSet(Jobs)
  /\ Nothing \notin Digests
  /\ MaxStarts \in Nat /\ MaxTrouble \in Nat

VARIABLES mode,     \* "standard" or "pull_through"
          project,  \* "present" or "deleted"
          repo,     \* the row of registry_repositories with its policies, or NoRow
          made,     \* how many rows were ever made: the last identifier
          observed, \* the live rows of registry_manifests of that repository
          stored,   \* Distribution: the manifests under the path
          tagOf,    \* and what the one tag points at
          named,    \* whether its catalog names the path
          job,      \* per job: the handler and its locals
          starts, trouble

rows == <<repo, made, observed>>
registry == <<stored, tagOf, named>>
bounds == <<starts, trouble>>

NoRow == [id |-> 0]
Idle == [op |-> "none", phase |-> "idle",
         id |-> 0, version |-> 0,                    \* of the row it read
         digest |-> Nothing, got |-> Nothing,        \* what it puts; what it copied
         tagged |-> FALSE, lead |-> FALSE]

RepositoriesInit ==
  /\ GateInit
  /\ mode \in {"standard", "pull_through"} /\ project = "present"
  /\ repo = NoRow /\ made = 0 /\ observed = {}
  /\ stored = {} /\ tagOf = Nothing /\ named = FALSE
  /\ job = [j \in Jobs |-> Idle]
  /\ starts = 0 /\ trouble = 0

RepositoriesTypeOK ==
  /\ repo # NoRow => /\ repo.id \in 1 .. made
                     /\ repo.status \in {"empty", "active", "archived"}
                     /\ repo.version \in Nat /\ repo.immutable \in BOOLEAN
  /\ observed \subseteq Digests /\ (repo = NoRow => observed = {})
  /\ stored \subseteq Digests /\ tagOf \in stored \cup {Nothing}
  /\ (stored # {} => named)
  /\ project = "deleted" => repo = NoRow
  /\ inside \subseteq Jobs /\ closer \in Jobs \cup {Nobody}
  /\ \A j \in Jobs : job[j].phase = "idle" <=> job[j] = Idle

-----------------------------------------------------------------------------
(***************************************************************************)
(* Handlers                                                                *)
(***************************************************************************)
Handler(op, phase) == [Idle EXCEPT !.op = op, !.phase = phase]

Begin(j, handler) ==
  /\ starts < MaxStarts
  /\ starts' = starts + 1 /\ UNCHANGED trouble
  /\ job' = [job EXCEPT ![j] = handler]

Start(j, handler) == job[j] = Idle /\ Begin(j, handler)

\* Requests that may write are counted, and refused while the gate is shut;
\* those that read, and the removal, go past it.
Enter(j, handler) == Start(j, handler) /\ Admit(j)
PassBy(j, handler) == Start(j, handler) /\ UNCHANGED gateVars

Trouble == trouble < MaxTrouble /\ trouble' = trouble + 1

To(j, phase) == job' = [job EXCEPT ![j].phase = phase]
At(j, op, phase) == job[j].op = op /\ job[j].phase = phase

\* The handler of a counted request returns.
Leave(j) ==
  /\ inside' = inside \ {j} /\ UNCHANGED <<closer, exclusive>>
  /\ job' = [job EXCEPT ![j] = Idle]

\* The handler of an uncounted one does.
Return(j) == job' = [job EXCEPT ![j] = Idle] /\ UNCHANGED gateVars

\* A request that is one transaction enters and leaves in that step.
Open == closer = Nobody /\ UNCHANGED gateVars

Outside == UNCHANGED <<mode, project, registry>>
Quiet == Outside /\ UNCHANGED rows

-----------------------------------------------------------------------------
(***************************************************************************)
(* The store                                                               *)
(***************************************************************************)
Archived == repo # NoRow /\ repo.status = "archived"
RepositoryExists == repo # NoRow
HasLiveManifests == observed # {}

\* What Distribution answers: its catalog, and a HEAD of the tag.
ListProjectRepositories == IF named THEN {"path"} ELSE {}
DistributionKnows == named
ManifestExists == tagOf # Nothing

NewRow(status, immutable) ==
  [id |-> made + 1, status |-> status, immutable |-> immutable,
   version |-> IF immutable THEN 1 ELSE 0]

\* CreateRepository, and EnsureRepository when there is no row yet: the row
\* refers to its project.
Insert(status, immutable) ==
  /\ repo = NoRow /\ project = "present"
  /\ repo' = NewRow(status, immutable) /\ made' = made + 1
  /\ UNCHANGED observed

\* EnsureRepository finds the row of another.
Find == repo # NoRow /\ UNCHANGED rows

\* UpsertDiscoveredRepository: an archived row stays, another becomes active,
\* and a missing one is inserted.
UpsertDiscovered ==
  \/ Insert("active", FALSE)
  \/ /\ repo # NoRow
     /\ repo' = IF Archived THEN repo ELSE [repo EXCEPT !.status = "active"]
     /\ UNCHANGED <<made, observed>>

\* SetRepositoryStatus, whatever the status has become.
SetStatus(id, status) ==
  /\ repo' = IF repo.id = id THEN [repo EXCEPT !.status = status] ELSE repo
  /\ UNCHANGED <<made, observed>>

\* DeleteRepository; what is observed goes with the row.
DeleteRow == repo' = NoRow /\ observed' = {} /\ UNCHANGED made

\* ValidateRemoval of the service.
Removable(id) == repo.id = id /\ Archived /\ ~HasLiveManifests

-----------------------------------------------------------------------------
(***************************************************************************)
(* Create, archive, unarchive, policies                                    *)
(***************************************************************************)
Create(j) ==
  /\ project = "present" /\ ~RepositoryExists
  /\ Enter(j, Handler("create", "insert"))
  /\ Quiet

CreateRow(j) ==
  /\ At(j, "create", "insert")
  /\ (\E immutable \in BOOLEAN : Insert("empty", immutable))
     \/ ((repo # NoRow \/ project = "deleted") /\ UNCHANGED rows)
  /\ Leave(j)
  /\ Outside /\ UNCHANGED bounds

\* Archive reads the row ...
Archive(j) ==
  /\ repo # NoRow /\ ~Archived
  /\ Enter(j, [Handler("archive", "write") EXCEPT !.id = repo.id])
  /\ Quiet

\* ... and so does Unarchive ...
Unarchive(j) ==
  /\ Archived
  /\ Enter(j, [Handler("unarchive", "write") EXCEPT !.id = repo.id])
  /\ Quiet

\* ... before the status is written.
WriteStatus(j) ==
  /\ job[j].phase = "write"
  /\ SetStatus(job[j].id, IF job[j].op = "archive" THEN "archived" ELSE "empty")
  /\ Leave(j)
  /\ Outside /\ UNCHANGED bounds

\* getRepositoryPolicies.
LoadPolicies(j) ==
  /\ repo # NoRow
  /\ PassBy(j, [Handler("policies", "save") EXCEPT !.id = repo.id, !.version = repo.version])
  /\ Quiet

\* ReplaceRepositoryPolicies: one transaction, under the version that the
\* administrator was shown.
SavePolicies(id, version, immutable) ==
  /\ repo' = IF repo.id = id /\ repo.version = version
             THEN [repo EXCEPT !.immutable = immutable, !.version = @ + 1] ELSE repo
  /\ UNCHANGED <<made, observed>>

ReplacePolicies(j, immutable) ==
  /\ At(j, "policies", "save")
  /\ SavePolicies(job[j].id, job[j].version, immutable)
  /\ Open
  /\ job' = [job EXCEPT ![j] = Idle]
  /\ Outside /\ UNCHANGED bounds

-----------------------------------------------------------------------------
(***************************************************************************)
(* Removal of the repository, and of content                               *)
(***************************************************************************)
\* The handler's validate: the row, its live manifests, and the catalog.
Validated(id) == Removable(id) /\ ListProjectRepositories = {}

\* Validated outside of the gate first.
RequestRemoval(j) ==
  /\ Validated(repo.id)
  /\ PassBy(j, [Handler("remove", "begin") EXCEPT !.id = repo.id])
  /\ Quiet

BeginRemoval(j) ==
  /\ At(j, "remove", "begin")
  /\ IF closer = Nobody THEN Shut(j) /\ To(j, "drain") ELSE Return(j)
  /\ Quiet /\ UNCHANGED bounds

\* The gate opens again when the handler returns.
EndRemoval(j) == Reopen(j) /\ job' = [job EXCEPT ![j] = Idle]

\* Nobody is inside any more, or two minutes have passed.
RemovalDrained(j) ==
  /\ At(j, "remove", "drain")
  /\ (Grant(j) /\ To(j, "validate")) \/ EndRemoval(j)
  /\ Quiet /\ UNCHANGED bounds

\* Fault: what was validated before the drain is taken for granted.
ValidateOnce(j) ==
  /\ At(j, "remove", "validate")
  /\ To(j, "delete") /\ UNCHANGED gateVars
  /\ Quiet /\ UNCHANGED bounds

ValidateAgain(j) ==
  /\ At(j, "remove", "validate")
  /\ IF Validated(job[j].id) THEN To(j, "delete") /\ UNCHANGED gateVars ELSE EndRemoval(j)
  /\ Quiet /\ UNCHANGED bounds

\* Remove: the row and its manifests once more, the audit event, the delete.
Remove(j) ==
  /\ At(j, "remove", "delete")
  /\ IF Removable(job[j].id) THEN DeleteRow ELSE UNCHANGED rows
  /\ EndRemoval(j)
  /\ Outside /\ UNCHANGED bounds

\* A deletion of a manifest, here in one step; the catalog may go on naming
\* a path that has nothing left.
DeleteContent(d) ==
  /\ repo # NoRow /\ d \in stored /\ starts < MaxStarts
  /\ stored' = stored \ {d} /\ observed' = observed \ {d}
  /\ tagOf' = IF tagOf = d THEN Nothing ELSE tagOf
  /\ named' \in {TRUE, stored' # {}}
  /\ Open
  /\ starts' = starts + 1
  /\ UNCHANGED <<mode, project, repo, made, job, trouble>>

-----------------------------------------------------------------------------
(***************************************************************************)
(* Listing the project's repositories                                      *)
(***************************************************************************)
\* The handler asks for a page of the catalog ...
ReadCatalog(j) ==
  /\ ListProjectRepositories # {} /\ project = "present"
  /\ PassBy(j, Handler("list", "discovered"))
  /\ Quiet

\* ... and ReconcileDiscoveredPage, outside of the gate: a read that writes.
ReconcileDiscoveredPage(j) ==
  /\ At(j, "list", "discovered")
  /\ UpsertDiscovered \/ (project = "deleted" /\ UNCHANGED rows)
  /\ Return(j)
  /\ Outside /\ UNCHANGED bounds

-----------------------------------------------------------------------------
(***************************************************************************)
(* Pushes: a token, then any number of manifests under it                  *)
(***************************************************************************)
\* The push is left out unless the project is a standard one.
AllowedActions ==
  {action \in {"pull", "push"} : project = "present" /\ (action = "push" => mode = "standard")}

\* What Issue has more to do for; users are never allowed it.
IssuesPush == "push" \in AllowedActions

RequestToken(j) ==
  /\ IssuesPush
  /\ Enter(j, Handler("push", "find"))
  /\ Quiet

\* The token is signed, and the request returns.
Granted(j) ==
  /\ inside' = inside \ {j} /\ UNCHANGED <<closer, exclusive>>
  /\ To(j, "token")

\* It is signed without the push, which is as good as none.
WithoutPush(j) == Leave(j)

\* repositoryCanReceivePush and ensureRepositoryForPush look the project up.
ProjectFound == project = "present"

\* A row that is not archived will do; without one, or when it cannot be read,
\* Distribution is asked.
CanReceivePush(j) ==
  /\ At(j, "push", "find")
  /\ \/ repo # NoRow /\ ~Archived /\ Granted(j) /\ UNCHANGED trouble
     \/ /\ Archived \/ ~ProjectFound
        /\ To(j, "ensure") /\ UNCHANGED <<gateVars, trouble>>
     \/ /\ ProjectFound
        /\ repo # NoRow => trouble < MaxTrouble
        /\ trouble' = IF repo = NoRow THEN trouble ELSE trouble + 1
        /\ To(j, IF DistributionKnows THEN "upsert" ELSE "ensure") /\ UNCHANGED gateVars
  /\ Quiet /\ UNCHANGED starts

AdoptExisting(j) ==
  /\ At(j, "push", "upsert")
  /\ \/ UpsertDiscovered /\ Granted(j)
     \/ project = "deleted" /\ UNCHANGED rows /\ Leave(j)
  /\ Outside /\ UNCHANGED bounds

\* EnsureFromPush: the row stays when the event of its creation cannot be
\* recorded, and the request fails.
EnsureFromPush(j) ==
  \/ Insert("empty", FALSE) /\ Granted(j) /\ UNCHANGED trouble
  \/ Insert("empty", FALSE) /\ Leave(j) /\ Trouble
  \/ Find /\ (IF Archived THEN WithoutPush(j) ELSE Granted(j)) /\ UNCHANGED trouble

EnsureRepositoryForPush(j) ==
  /\ At(j, "push", "ensure")
  /\ \/ EnsureFromPush(j)
     \/ ~ProjectFound /\ UNCHANGED <<rows, trouble>> /\ Leave(j)
  /\ Outside /\ UNCHANGED starts

\* A manifest is put under a tag that the gateway looks up first, or by its
\* digest, which no policy is about.
PutManifest(j, d) ==
  /\ At(j, "push", "token")
  /\ \E phase \in {"evaluate", "forward"} :
       Begin(j, [Handler("push", phase) EXCEPT !.digest = d,
                   !.tagged = phase = "evaluate" /\ ManifestExists])
  /\ Admit(j)
  /\ Quiet

EvaluateTagMutation(exists) == repo # NoRow /\ ~(repo.immutable /\ exists)

\* tagged is whether the tag was there, and from here on whether the put is by
\* tag.
EvaluateManifestPut(j) ==
  /\ At(j, "push", "evaluate")
  /\ IF ~EvaluateTagMutation(job[j].tagged) THEN Leave(j)
     ELSE job' = [job EXCEPT ![j].phase = "forward", ![j].tagged = TRUE] /\ UNCHANGED gateVars
  /\ Quiet /\ UNCHANGED bounds

Forward(j) ==
  /\ At(j, "push", "forward")
  /\ stored' = stored \cup {job[j].digest} /\ named' = TRUE
  /\ tagOf' = IF job[j].tagged THEN job[j].digest ELSE tagOf
  /\ To(j, "observe") /\ UNCHANGED gateVars
  /\ UNCHANGED <<mode, project, rows, bounds>>

\* ObservePush: the row that has the name now, and a manifest that is still
\* there.
Observe(d) ==
  observed' = IF repo # NoRow /\ d \in stored THEN observed \cup {d} ELSE observed

\* The token can be used again.
ObservePush(j) ==
  /\ At(j, "push", "observe")
  /\ Observe(job[j].digest)
  /\ inside' = inside \ {j} /\ UNCHANGED <<closer, exclusive>>
  /\ job' = [job EXCEPT ![j] = Handler("push", "token")]
  /\ Outside /\ UNCHANGED <<repo, made, bounds>>

\* It expires.
TokenExpires(j) == At(j, "push", "token") /\ Return(j) /\ Quiet /\ UNCHANGED bounds

-----------------------------------------------------------------------------
(***************************************************************************)
(* Deletion of the project                                                 *)
(***************************************************************************)
\* The handler asks ProjectHasRepositories, which looks at the imports first.
RequestProjectDeletion(j, importing) ==
  /\ project = "present" /\ ~importing
  /\ Enter(j, Handler("delete", "rows"))
  /\ Quiet

CheckRepositories(j) ==
  /\ At(j, "delete", "rows")
  /\ IF RepositoryExists THEN Leave(j) ELSE To(j, "delete") /\ UNCHANGED gateVars
  /\ Quiet /\ UNCHANGED bounds

\* DeleteProject: every row that refers to the project goes with it.
DeleteProject(j) ==
  /\ At(j, "delete", "delete")
  /\ project' = "deleted" /\ DeleteRow
  /\ Leave(j)
  /\ UNCHANGED <<mode, registry, bounds>>

-----------------------------------------------------------------------------
\* An error ends a handler that has not written yet.
Fail(j) ==
  /\ Trouble
  /\ job[j].op \in {"create", "archive", "unarchive", "push", "delete", "remove", "list"}
  /\ job[j].phase # "token"
  /\ IF closer = j THEN EndRemoval(j)
     ELSE IF j \in inside THEN Leave(j) ELSE Return(j)
  /\ Quiet /\ UNCHANGED starts

RepositoriesStep ==
  \/ \E j \in Jobs :
       \/ Create(j) \/ CreateRow(j) \/ Archive(j) \/ Unarchive(j) \/ WriteStatus(j)
       \/ LoadPolicies(j) \/ \E b \in BOOLEAN : ReplacePolicies(j, b)
       \/ RequestRemoval(j) \/ BeginRemoval(j) \/ RemovalDrained(j) \/ ValidateAgain(j)
       \/ Remove(j)
       \/ ReadCatalog(j) \/ ReconcileDiscoveredPage(j)
       \/ RequestToken(j) \/ CanReceivePush(j) \/ AdoptExisting(j) \/ EnsureRepositoryForPush(j)
       \/ \E d \in Digests : PutManifest(j, d)
       \/ EvaluateManifestPut(j) \/ Forward(j) \/ ObservePush(j) \/ TokenExpires(j)
       \/ CheckRepositories(j) \/ DeleteProject(j)
       \/ Fail(j)
  \/ \E d \in Digests : DeleteContent(d)

-----------------------------------------------------------------------------
\* A repository row is only ever removed, other than with its project, when
\* Distribution has nothing under its path, whatever was pushed, imported,
\* observed or lost while the removal validated, drained and validated again
\* (removeRepository and Remove).
RemovalKeepsContent ==
  [][repo # NoRow /\ repo' = NoRow /\ project' = "present" => stored = {}]_<<repo, project>>

\* A tag that exists under an immutable policy is not moved.
ImmutableTagsStay ==
  [][tagOf # Nothing /\ repo # NoRow /\ repo.immutable => tagOf' \in {tagOf, Nothing}]_<<tagOf, repo>>
=============================================================================
