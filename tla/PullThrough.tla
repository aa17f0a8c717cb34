------------------------------ MODULE PullThrough ------------------------------
(***************************************************************************)
(* Imports of a pull-through project: pull_through_service.go and          *)
(* gateway.go of backend/internal/registry.  A pull resolves the tag here  *)
(* and upstream; pulls that saw the same upstream digest share an import,  *)
(* led by the request of the first, which stays inside the gate until the  *)
(* import ends and lets those that wait for it go.  The project counts its *)
(* imports, and slots bound how many copy.                                 *)
(*                                                                         *)
(* Pulls by digest take the same path and move no tag.  Children of an     *)
(* index, upstream credentials and the timeout of a copy are left out.     *)
(***************************************************************************)
EXTENDS Repositories

CONSTANT MaxImports \* GROM_PULL_THROUGH_MAX_CONCURRENT_IMPORTS

ASSUME PullThroughAssumption == MaxImports \in Nat \ {0}

VARIABLES active,  \* activeImports of the project
          slots,   \* how full the channel of slots is
          pending  \* an event of pendingCreationAudits is to be recorded

importVars == <<active, slots, pending>>
vars == <<gateVars, mode, project, rows, registry, job, bounds, importVars>>

Init == RepositoriesInit /\ active = 0 /\ slots = 0 /\ pending = FALSE

\* The guard of the project's deletion.
Importing == active > 0

Copying == {"recheck", "copy", "settle", "observe"}

TypeOK ==
  /\ RepositoriesTypeOK
  /\ active \in 0 .. Cardinality(Jobs) /\ slots \in 0 .. MaxImports /\ pending \in BOOLEAN
  /\ \A j \in Jobs : job[j].lead => job[j].phase \in Copying \cup {"slot"}

-----------------------------------------------------------------------------
Followers(j) == {k \in Jobs : At(k, "pull", "wait") /\ job[k].digest = job[j].digest}

\* The pull returns; when it led an import so do those that waited for it.
Done(j) ==
  LET gone == {j} \cup IF job[j].lead THEN Followers(j) ELSE {}
  IN /\ inside' = inside \ gone /\ UNCHANGED <<closer, exclusive>>
     /\ job' = [k \in Jobs |-> IF k \in gone THEN Idle ELSE job[k]]

\* finish, and the slot of an import that has one.
Released(j) ==
  /\ active' = IF job[j].lead THEN active - 1 ELSE active
  /\ slots' = IF job[j].lead /\ job[j].phase \in Copying THEN slots - 1 ELSE slots

Ended(j) == Done(j) /\ Released(j)

\* An archived repository serves what it has, and imports nothing.
ServeArchived == Archived

\* What Resolve of the upstream registry may say: a digest, or an error.
Upstream == Digests \cup {Nothing}

\* Ensure leaves other projects, and those that are gone, to Distribution.
Ensures == mode = "pull_through" /\ project = "present" /\ ~ServeArchived

\* The gateway hands every read of a manifest to Ensure.
Pull(j) ==
  /\ Ensures
  /\ Enter(j, [Handler("pull", "resolve") EXCEPT !.id = repo.id])
  /\ Quiet /\ UNCHANGED importVars

\* Fault: the row is made before it is known that there is an image.
ResolveUnchecked(j) ==
  /\ At(j, "pull", "resolve")
  /\ job' = [job EXCEPT ![j].phase = "settle", ![j].got = tagOf] /\ UNCHANGED gateVars
  /\ Quiet /\ UNCHANGED <<importVars, bounds>>

\* The tag here, and upstream; after an error what is here is served.
Resolve(j) ==
  /\ At(j, "pull", "resolve")
  /\ \E remote \in Upstream :
       IF tagOf # Nothing /\ remote \in {tagOf, Nothing}
       THEN job' = [job EXCEPT ![j].phase = "settle", ![j].got = tagOf] /\ UNCHANGED gateVars
       ELSE IF remote = Nothing THEN Done(j)
       ELSE job' = [job EXCEPT ![j].phase = "join", ![j].digest = remote] /\ UNCHANGED gateVars
  /\ Quiet /\ UNCHANGED <<importVars, bounds>>

\* singleflight: the key is the digest that was seen upstream.  beginImport
\* counts before it waits for a slot.
Join(j) ==
  /\ At(j, "pull", "join")
  /\ IF \E k \in Jobs : job[k].lead /\ job[k].digest = job[j].digest
     THEN To(j, "wait") /\ UNCHANGED active
     ELSE /\ job' = [job EXCEPT ![j].phase = "slot", ![j].lead = TRUE]
          /\ active' = active + 1
  /\ UNCHANGED gateVars
  /\ Quiet /\ UNCHANGED <<slots, pending, bounds>>

\* Fault: imports are not bounded.
SlotAlways(j) ==
  /\ At(j, "pull", "slot")
  /\ slots' = slots + 1
  /\ To(j, "recheck") /\ UNCHANGED gateVars
  /\ Quiet /\ UNCHANGED <<active, pending, bounds>>

AcquireSlot(j) ==
  /\ At(j, "pull", "slot") /\ slots < MaxImports
  /\ slots' = slots + 1
  /\ To(j, "recheck") /\ UNCHANGED gateVars
  /\ Quiet /\ UNCHANGED <<active, pending, bounds>>

\* Fault: a wait for a slot that ends stays counted.
SlotForgets(j) ==
  /\ At(j, "pull", "slot")
  /\ Done(j) /\ UNCHANGED <<active, slots>>
  /\ Quiet /\ UNCHANGED <<pending, bounds>>

SlotTimesOut(j) ==
  /\ At(j, "pull", "slot")
  /\ Ended(j)
  /\ Quiet /\ UNCHANGED <<pending, bounds>>

\* The tag here once more: another import may have ended.
Recheck(j) ==
  /\ At(j, "pull", "recheck")
  /\ job' = [job EXCEPT ![j].phase = IF tagOf = job[j].digest THEN "settle" ELSE "copy",
                         ![j].got = tagOf]
  /\ UNCHANGED gateVars
  /\ Quiet /\ UNCHANGED <<importVars, bounds>>

\* Copy resolves the tag upstream again; it may have moved meanwhile.
Copy(j, d) ==
  /\ At(j, "pull", "copy")
  /\ stored' = stored \cup {d} /\ tagOf' = d /\ named' = TRUE
  /\ job' = [job EXCEPT ![j].phase = "settle", ![j].got = d]
  /\ UNCHANGED <<gateVars, mode, project, rows, importVars, bounds>>

\* What is here is served instead.
CopyFails(j) ==
  /\ At(j, "pull", "copy")
  /\ Trouble
  /\ IF job[j].got # Nothing THEN To(j, "settle") /\ UNCHANGED <<gateVars, active, slots>> ELSE Ended(j)
  /\ Quiet /\ UNCHANGED <<pending, starts>>

\* RecordPendingCreationAudit: the event of a new row, or of one that another
\* pull could not record; when it fails it is kept for the next.
Recorded(j, due) ==
  \/ pending' = FALSE /\ To(j, "observe") /\ UNCHANGED <<gateVars, active, slots, trouble>>
  \/ due /\ Trouble /\ pending' = TRUE /\ Ended(j)

EnsureFromPullThrough(j) ==
  \/ Insert("empty", FALSE) /\ Recorded(j, TRUE)
  \/ /\ Find /\ To(j, "observe")
     /\ UNCHANGED <<gateVars, active, slots, pending, trouble>>
  \/ /\ project = "deleted" /\ UNCHANGED <<rows, pending, trouble>>
     /\ Ended(j)

\* settle: a pull that found no row makes it, unless another did.
Settle(j) ==
  /\ At(j, "pull", "settle")
  /\ \/ job[j].id # 0 /\ UNCHANGED rows /\ Recorded(j, pending)
     \/ job[j].id = 0 /\ EnsureFromPullThrough(j)
     \/ Trouble /\ UNCHANGED <<rows, pending>> /\ Ended(j)
  /\ Outside /\ UNCHANGED starts

ManifestObserved(d) == d \in observed

\* ObservePush unless it is observed already; an error is only logged.
ObserveImport(j) ==
  /\ At(j, "pull", "observe")
  /\ \/ ~ManifestObserved(job[j].got) /\ Observe(job[j].got)
     \/ UNCHANGED observed
  /\ Ended(j)
  /\ Outside /\ UNCHANGED <<repo, made, pending, bounds>>

\* Grom stops: what it knows is gone, clients keep their tokens.
Restart ==
  /\ Trouble
  /\ inside' = {} /\ closer' = Nobody /\ exclusive' = FALSE
  /\ job' = [j \in Jobs |-> IF job[j].op = "push" /\ job[j].phase \notin {"find", "upsert", "ensure"}
                            THEN Handler("push", "token") ELSE Idle]
  /\ active' = 0 /\ slots' = 0 /\ pending' = FALSE
  /\ Quiet /\ UNCHANGED starts

ImportStep ==
  \E j \in Jobs :
    \/ Pull(j) \/ Resolve(j) \/ Join(j) \/ AcquireSlot(j) \/ SlotTimesOut(j) \/ Recheck(j)
    \/ \E d \in Digests : Copy(j, d)
    \/ CopyFails(j) \/ Settle(j) \/ ObserveImport(j)

Next ==
  \/ RepositoriesStep /\ UNCHANGED importVars
  \/ \E j \in Jobs : RequestProjectDeletion(j, Importing) /\ UNCHANGED importVars
  \/ ImportStep
  \/ Restart

Spec == Init /\ [][Next]_vars

-----------------------------------------------------------------------------
\* The counter that keeps a project from being deleted is the number of its
\* imports under way, however they end, and the slots taken are those of the
\* imports that have one: nothing is lost to a wait that was given up.
ImportsCounted ==
  /\ active = Cardinality({j \in Jobs : job[j].lead})
  /\ slots = Cardinality({j \in Jobs : job[j].lead /\ job[j].phase \in Copying})

\* A pull makes the row of a repository only over content that Distribution
\* has at that moment: a missing image, a removal or a deletion in between
\* never leaves an empty repository behind.
NoEmptyImport ==
  [][\A j \in Jobs : At(j, "pull", "settle") /\ repo = NoRow /\ repo' # NoRow /\ job'[j] # job[j]
       => stored # {}]_vars
=============================================================================
