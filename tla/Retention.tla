------------------------------ MODULE Retention ------------------------------
(***************************************************************************)
(* Retention on one repository: previews, executions under a lock row, its *)
(* takeover after thirty minutes, and the deletion of what both the        *)
(* preview and the execution select.  lifecycle_service.go of              *)
(* backend/internal/registry/application over the lifecycle tables of      *)
(* infrastructure/persistence/bun/lifecycle.go.                            *)
(*                                                                         *)
(* Time advances in ticks, and only by Tick.  Reconcile is one step here,  *)
(* and so is the deletion of one manifest with the reads before it: the    *)
(* gaps between those calls are the subject of ArtifactDeletion, and those *)
(* between the statements of a transaction of InventoryTransactions.  A    *)
(* push is observed at once or not at all.  Grom is one process: when it   *)
(* stops, every execution stops where it is, and nothing resumes it.       *)
(*                                                                         *)
(* An execution is the handler of a request, on the context of the request *)
(* but for the release of the lock: once the client has left, every call   *)
(* it still makes fails.  A call to the database that fails has changed    *)
(* nothing; one to Distribution may have.                                  *)
(***************************************************************************)
EXTENDS RegistryContent, RetentionPolicy

CONSTANTS PolicySets,   \* what the repository's policies may be
          Previews,     \* preview identifiers
          Executors,    \* executions, each with its own run identifier
          ItemOrder,    \* the order of the digests, and so of the items
          Pushable,     \* the pairs of a digest and a tag (or Nothing) clients push
          InitialRows, InitialTags, \* the inventory at first, all of it true
          PreviewTTL, LockTTL, \* fifteen and thirty minutes
          MaxClock,     \* bound on the time
          MaxTrouble    \* bound on pushes, changes of policies, asked reconciliations, failures

ASSUME RetentionAssumption ==
  /\ Nothing \notin Previews \cup Executors
  /\ DOMAIN InitialRows \subseteq Digests
  /\ \A d \in DOMAIN InitialRows :
       /\ InitialRows[d] \in [state : States, at : Int, since : Int \cup {Never}]
       /\ InitialRows[d].state = "active" => InitialRows[d].since = Never
  /\ InitialTags \in [Tags -> DOMAIN InitialRows \cup {Nothing}]
  /\ \A d \in Digests : InSeq(d, ItemOrder)
  /\ Pushable \subseteq Digests \X (Tags \cup {Nothing})
  /\ PreviewTTL \in Nat /\ LockTTL \in Nat
  /\ MaxClock \in Nat /\ MaxTrouble \in Nat

VARIABLES row,      \* registry_manifests: state, last push, untagged since
          tagRow,   \* registry_tags: the attached tags
          policies, \* the repository's policies
          preview,  \* lifecycle previews
          lock,     \* the lock row of the repository
          run,      \* per execution: the handler, its locals and its run row
          clock,
          trouble   \* how many pushes, policy changes and failures there were

inventory == <<row, tagRow>>
vars == <<registry, inventory, policies, preview, lock, run, clock, trouble>>

NoPreview == [status |-> "none", expires |-> 0, items |-> <<>>]
NoLock == [run |-> Nothing, at |-> 0]
NoRun == [phase |-> "idle", preview |-> Nothing, started |-> 0, row |-> "none",
          left |-> FALSE,     \* its client is gone
          unclosed |-> FALSE, \* its run row could not be completed
          items |-> <<>>, view |-> <<>>, chosen |-> <<>>, rules |-> {}, moved |-> {},
          item |-> Nothing, rest |-> <<>>, deleted |-> {}]

\* Between the acquisition of the lock and its release.
Holding == {"begin", "start", "sweep", "items", "remove", "mark", "update", "unaudited",
            "fail", "consume", "release"}
\* The phases in which an execution deletes.
Working == {"sweep", "items", "remove", "mark", "update"}

Init ==
  /\ live = DOMAIN InitialRows
  /\ tagOf = InitialTags
  /\ row = InitialRows
  /\ tagRow = InitialTags
  /\ policies \in PolicySets
  /\ preview = [p \in Previews |-> NoPreview]
  /\ lock = NoLock
  /\ run = [e \in Executors |-> NoRun]
  /\ clock = 0
  /\ trouble = 0

TypeOK ==
  /\ live \subseteq Digests /\ DOMAIN row \subseteq Digests
  /\ \A d \in DOMAIN row : row[d].state \in States /\ (row[d].state = "active" => row[d].since = Never)
  /\ tagOf \in [Tags -> Digests \cup {Nothing}] /\ tagRow \in [Tags -> Digests \cup {Nothing}]
  /\ policies \in PolicySets
  /\ \A p \in Previews :
       preview[p].status \in {"none", "ready", "expired", "executing", "executed"}
  /\ lock.run \in Executors \cup {Nothing}
  /\ \A e \in Executors :
       /\ run[e].phase \in {"idle", "expire", "acquire", "done", "stopped"} \cup Holding
       /\ run[e].row \in {"none", "running", "failed", "completed", "partially_completed"}
       /\ \A d \in DOMAIN run[e].items :
            run[e].items[d] \in {"waiting", "skipped", "deleted", "failed"}
       /\ run[e].phase \in Holding => run[e].preview \in Previews

\* Something happens that is bounded.
Trouble == trouble < MaxTrouble /\ trouble' = trouble + 1

-----------------------------------------------------------------------------
(***************************************************************************)
(* The inventory                                                           *)
(***************************************************************************)
View ==
  [d \in DOMAIN row |->
     [state |-> row[d].state, at |-> row[d].at, since |-> row[d].since,
      tags |-> {t \in Tags : tagRow[t] = d}, tagged |-> \E t \in Tags : tagRow[t] = d,
      subject |-> SubjectOf[d], platforms |-> PlatformsOf[d]]]

\* Fault: a manifest that is tagged again stays untagged since then.
RefreshedKeepsTime(r, tagged) ==
  [r EXCEPT !.state = IF tagged THEN "active" ELSE "untagged",
            !.since = IF r.since = Never /\ ~tagged THEN clock ELSE r.since]

\* refreshManifestState: an earlier time since which it is untagged stays.
Refreshed(r, tagged) ==
  [r EXCEPT !.state = IF tagged THEN "active" ELSE "untagged",
            !.since = IF tagged THEN Never ELSE IF r.since = Never THEN clock ELSE r.since]

Fresh == [state |-> "untagged", at |-> clock, since |-> clock]

\* The rows once the digests in seen were upserted and the tags are tags; others
\* has the new rows of what is neither seen nor deleted.
Upserted(seen, tags, others) ==
  [d \in DOMAIN row \cup seen |->
     LET tagged == \E t \in Tags : tags[t] = d
     IN IF d \in seen THEN Refreshed(IF d \in DOMAIN row THEN row[d] ELSE Fresh, tagged)
        ELSE IF row[d].state = "deleted" THEN row[d]
        ELSE others[d]]

\* A client pushes a manifest, its tree with it; ObservePush may fail.  The
\* time of the last push is written for the manifest itself alone.
Push(d, t) ==
  /\ Trouble
  /\ live' = live \cup Tree[d]
  /\ tagOf' = IF t = Nothing THEN tagOf ELSE [tagOf EXCEPT ![t] = d]
  /\ run' = [e \in Executors |-> [run[e] EXCEPT !.moved = IF run[e].phase \in Working
                                                          THEN @ \cup {t} ELSE @]]
  /\ \/ /\ tagRow' = IF t = Nothing THEN tagRow ELSE [tagRow EXCEPT ![t] = d]
        /\ LET rows == Upserted(Tree[d], tagRow',
                 [x \in DOMAIN row |->
                    IF t # Nothing /\ x = tagRow[t]
                    THEN Refreshed(row[x], \E s \in Tags : tagRow'[s] = x)
                    ELSE row[x]])
           IN row' = [rows EXCEPT ![d].at = clock]
     \/ UNCHANGED inventory
  /\ UNCHANGED <<policies, preview, lock, clock>>

\* What Reconcile looks at: the tree of every tag and of every known row that
\* is served, and what refers to any of these.
Reached == {d \in live : \/ (d \in DOMAIN row /\ row[d].state # "deleted")
                         \/ \E t \in Tags : tagOf[t] = d}
Seen == LET trees == UNION {Tree[d] : d \in Reached}
        IN trees \cup {r \in live : SubjectOf[r] \in trees}

\* It fails when one of them cannot be fetched whole.
Reconcilable == Seen \subseteq live

\* What was seen gets rows that are not deleted, the other rows are missing.
Reconciled ==
  /\ tagRow' = tagOf
  /\ row' = Upserted(Seen, tagOf, [d \in DOMAIN row |-> [row[d] EXCEPT !.state = "missing"]])

\* An administrator has the inventory reconciled.
ReconcileInventory ==
  /\ Reconcilable /\ Trouble
  /\ Reconciled
  /\ UNCHANGED <<registry, policies, preview, lock, run, clock>>

\* ReplacePolicies, in Repositories: here the policies just change.
ReplacePolicies ==
  /\ Trouble
  /\ policies' \in PolicySets \ {policies}
  /\ UNCHANGED <<registry, inventory, preview, lock, run, clock>>

\* The run row is written within thirty minutes of the look at the preview: a
\* few statements of the database.  Deleting may take as long as it likes.
StartsPromptly ==
  \A e \in Executors : run[e].phase \in {"acquire", "begin"} => clock < run[e].started + LockTTL

Tick ==
  /\ clock < MaxClock
  /\ StartsPromptly
  /\ clock' = clock + 1
  /\ UNCHANGED <<registry, inventory, policies, preview, lock, run, trouble>>

-----------------------------------------------------------------------------
(***************************************************************************)
(* Previews                                                                *)
(***************************************************************************)
\* The row and its items, in one transaction.
CreateLifecyclePreview(p, items) ==
  preview' = [preview EXCEPT ![p] = [status |-> "ready", items |-> items,
                                     expires |-> clock + PreviewTTL]]

\* The service: reconcile, evaluate, store.
CreatePreview(p) ==
  /\ Retaining(policies) # {} /\ Reconcilable
  /\ Reconciled
  /\ \E items \in Evaluations(policies, View', clock) : CreateLifecyclePreview(p, items)

RequestPreview(p) ==
  /\ preview[p].status = "none"
  /\ CreatePreview(p)
  /\ UNCHANGED <<registry, policies, lock, run, clock, trouble>>

\* What is left of an execution that ended or stopped: its run row.
Ended(r, phase) == [NoRun EXCEPT !.phase = phase, !.preview = r.preview, !.row = r.row,
                                 !.started = r.started, !.unclosed = r.unclosed]

\* A step of execution e that changes only what it holds.
Hold(e, next) ==
  /\ run' = [run EXCEPT ![e] = next]
  /\ UNCHANGED <<registry, inventory, policies, preview, lock, clock, trouble>>

\* A call of the handler fails: any may, and all do once the client has left.
Failing(e) == IF run[e].left THEN UNCHANGED trouble ELSE Trouble

\* A step that changes only what the execution holds, because a call failed.
HoldFailing(e, next) ==
  /\ Failing(e)
  /\ run' = [run EXCEPT ![e] = next]
  /\ UNCHANGED <<registry, inventory, policies, preview, lock, clock>>

\* Execute reads the preview and decides what to do with it.
Open(e, p) ==
  /\ preview[p].status = "ready"
  /\ IF clock >= preview[p].expires
     THEN Hold(e, [run[e] EXCEPT !.phase = "expire", !.preview = p])
     ELSE /\ preview[p].items # <<>>
          /\ Hold(e, [run[e] EXCEPT !.phase = "acquire", !.preview = p, !.started = clock,
                                    !.items = [d \in DOMAIN preview[p].items |-> "waiting"]])

RequestRun(e, p) == run[e].phase = "idle" /\ Open(e, p)

\* SetLifecyclePreviewStatus without a condition, also in FindPreview: another
\* execution may have taken the preview since it was read.  An error is ignored.
Expire(e) ==
  /\ run[e].phase = "expire"
  /\ \/ /\ ~run[e].left
        /\ preview' = [preview EXCEPT ![run[e].preview].status = "expired"]
        /\ run' = [run EXCEPT ![e] = Ended(@, "done")]
        /\ UNCHANGED <<registry, inventory, policies, lock, clock, trouble>>
     \/ HoldFailing(e, Ended(run[e], "done"))

\* The client hangs up: net/http cancels the context of the request.
Leave(e) ==
  /\ run[e].phase \notin {"idle", "done", "stopped"} /\ ~run[e].left
  /\ Trouble
  /\ run' = [run EXCEPT ![e].left = TRUE]
  /\ UNCHANGED <<registry, inventory, policies, preview, lock, clock>>

-----------------------------------------------------------------------------
(***************************************************************************)
(* The lock and the run row                                                *)
(***************************************************************************)
\* Fault: any lock taken before this run began is stale.
StaleAnyAge(e) == lock.run # Nothing /\ lock.at < run[e].started

\* Taken more than thirty minutes before the acquiring run began.
Stale(e) == lock.run # Nothing /\ lock.at < run[e].started - LockTTL

\* The lock is taken; a stale lock's run is closed and its preview consumed.
TakeLock(e) ==
  LET old == lock.run
  IN /\ lock' = [run |-> e, at |-> run[e].started]
     /\ IF old # Nothing /\ run[old].row # "none"
        THEN /\ run' = [run EXCEPT ![e].phase = "begin",
                                   ![old].row = IF @ = "running" THEN "failed" ELSE @]
             /\ preview' = [preview EXCEPT ![run[old].preview].status =
                              IF @ = "executing" THEN "executed" ELSE @]
        ELSE /\ run' = [run EXCEPT ![e].phase = "begin"]
             /\ UNCHANGED preview
     /\ UNCHANGED <<registry, inventory, policies, clock, trouble>>

\* AcquireLifecycleLock, one transaction: a lock that is not stale refuses it.
Acquire(e) ==
  /\ run[e].phase = "acquire"
  /\ \/ ~run[e].left /\ (lock.run # Nothing => Stale(e)) /\ TakeLock(e)
     \/ lock.run # Nothing /\ ~Stale(e) /\ Hold(e, Ended(run[e], "done"))
     \/ HoldFailing(e, Ended(run[e], "done"))

\* The preview is marked and the run row inserted, in one transaction.
InsertRun(e) ==
  /\ ~run[e].left
  /\ preview' = [preview EXCEPT ![run[e].preview].status = "executing"]
  /\ run' = [run EXCEPT ![e].phase = "start", ![e].row = "running"]
  /\ UNCHANGED <<registry, inventory, policies, lock, clock, trouble>>

\* Fault: the status of the preview is not a condition of the update.
BeginRunUnchecked(e) == run[e].phase = "begin" /\ InsertRun(e)

\* CreateLifecycleRunFromPreview: only a preview that is still ready is used.
BeginRun(e) ==
  LET refused == [run[e] EXCEPT !.phase = "release"]
  IN /\ run[e].phase = "begin"
     /\ \/ preview[run[e].preview].status = "ready" /\ InsertRun(e)
        \/ preview[run[e].preview].status # "ready" /\ Hold(e, refused)
        \/ HoldFailing(e, refused)

\* The audit event of the start; without it the run is to fail.
RecordStart(e) ==
  /\ run[e].phase = "start"
  /\ \/ ~run[e].left /\ Hold(e, [run[e] EXCEPT !.phase = "sweep"])
     \/ HoldFailing(e, [run[e] EXCEPT !.phase = "unaudited"])

\* The run row is to be completed: its items are through, an item could not be
\* written (failLifecycleRun), or the start was not recorded.
Completing(e) ==
  \/ run[e].phase \in {"fail", "unaudited"}
  \/ run[e].phase = "items" /\ \A d \in DOMAIN run[e].items : run[e].items[d] # "waiting"

\* The status that it gets.
Outcome(e) ==
  LET outcomes == {run[e].items[d] : d \in DOMAIN run[e].items}
  IN IF \/ run[e].phase \in {"fail", "unaudited"}
        \/ "failed" \in outcomes /\ "deleted" \notin outcomes
     THEN "failed"
     ELSE IF outcomes \cap {"failed", "skipped"} # {} THEN "partially_completed"
     ELSE "completed"

\* CompleteLifecycleRun, whatever the row says by now.
Complete(e) ==
  /\ Completing(e) /\ ~run[e].left
  /\ Hold(e, [run[e] EXCEPT !.phase = "consume", !.row = Outcome(e)])

\* It fails, and the handler returns without consuming the preview; only the
\* handler that could not record the start goes on.
CompleteFails(e) ==
  /\ Completing(e)
  /\ HoldFailing(e, [run[e] EXCEPT !.phase = IF @ = "unaudited" THEN "consume" ELSE "release",
                                   !.unclosed = TRUE])

Consume(e) ==
  /\ run[e].phase = "consume"
  /\ \/ /\ ~run[e].left
        /\ preview' = [preview EXCEPT ![run[e].preview].status = "executed"]
        /\ run' = [run EXCEPT ![e].phase = "release"]
        /\ UNCHANGED <<registry, inventory, policies, lock, clock, trouble>>
     \/ HoldFailing(e, [run[e] EXCEPT !.phase = "release"])

\* Fault: the lock row is deleted whoever it belongs to.
ReleaseAnyLock(e) ==
  /\ run[e].phase = "release"
  /\ lock' = NoLock
  /\ run' = [run EXCEPT ![e] = Ended(@, "done")]
  /\ UNCHANGED <<registry, inventory, policies, preview, clock, trouble>>

\* ReleaseLifecycleLock, deferred: the row of this run only.  It has a context
\* of its own, so that it works though the client has left; its error is ignored.
Release(e) ==
  /\ run[e].phase = "release"
  /\ \/ lock' = (IF lock.run = e THEN NoLock ELSE lock) /\ UNCHANGED trouble
     \/ UNCHANGED lock /\ Trouble
  /\ run' = [run EXCEPT ![e] = Ended(@, "done")]
  /\ UNCHANGED <<registry, inventory, policies, preview, clock>>

-----------------------------------------------------------------------------
(***************************************************************************)
(* The items                                                               *)
(***************************************************************************)
NothingChosen(e) == [run[e] EXCEPT !.phase = "items", !.chosen = <<>>]

\* Reconcile, the policies of now and the evaluation.  When any of them fails
\* no item is eligible any more.
Sweep(e) ==
  /\ run[e].phase = "sweep"
  /\ \/ /\ Reconcilable /\ ~run[e].left
        /\ Reconciled
        /\ \E chosen \in Evaluations(policies, View', clock) :
             run' = [run EXCEPT ![e] = [run[e] EXCEPT !.phase = "items", !.view = View',
                                                      !.chosen = chosen, !.rules = policies,
                                                      !.moved = {}]]
        /\ UNCHANGED <<registry, policies, preview, lock, clock, trouble>>
     \/ ~Reconcilable /\ Hold(e, NothingChosen(e))
     \/ HoldFailing(e, NothingChosen(e))

\* Fault: an item whose tags changed since the preview is still deleted.
UnchangedButForTags(e, d) == d \in DOMAIN run[e].chosen

\* Still eligible, and with the tags that were shown.
Unchanged(e, d) ==
  /\ d \in DOMAIN run[e].chosen
  /\ run[e].chosen[d] = preview[run[e].preview].items[d]

\* revalidateLifecycleCandidate: the reviewed tags, not others that came since.
Revalidated(e, d) ==
  /\ d \in live
  /\ \A t \in run[e].chosen[d] : tagOf[t] = d
  /\ Referrers(d) = {}

Skipped(e, d) == [run[e] EXCEPT !.phase = "update", !.item = d, !.items[d] = "skipped"]

\* Preview items, and the run's with them, are sorted by digest.
NextItem(e) ==
  LET waiting == SelectSeq(ItemOrder, LAMBDA d : d \in DOMAIN run[e].items
                                                  /\ run[e].items[d] = "waiting")
  IN IF waiting = <<>> THEN Nothing ELSE Head(waiting)

\* An item whose revalidation fails is skipped as well.
Check(e, d) ==
  LET good == Unchanged(e, d) /\ Revalidated(e, d)
  IN /\ run[e].phase = "items"
     /\ d = NextItem(e)
     /\ \/ /\ good /\ ~run[e].left
           /\ Hold(e, [run[e] EXCEPT !.phase = "remove", !.item = d, !.deleted = {},
                                     !.rest = <<d>> \o PlannedChildren(run[e].view, d)])
        \/ ~good /\ Hold(e, Skipped(e, d))
        \/ HoldFailing(e, Skipped(e, d))

\* The looks of deleteManifestTree before the next manifest goes: all children
\* before the target does, and then one at a time.
MayRemove(e) ==
  LET d == Head(run[e].rest)
      target == run[e].item
      children == IF d = target THEN {run[e].rest[i] : i \in 2 .. Len(run[e].rest)} ELSE {d}
  IN /\ StillUnneeded(run[e].view, {tagOf[t] : t \in Tags} \ {Nothing}, target, children)
     /\ d = target => d \in live

\* One manifest of deleteManifestTree; its tags go with it.
Remove(e) ==
  LET d == Head(run[e].rest)
      rest == Tail(run[e].rest)
  IN /\ run[e].phase = "remove" /\ ~run[e].left
     /\ MayRemove(e)
     /\ live' = live \ {d}
     /\ tagOf' = [t \in Tags |-> IF tagOf[t] = d THEN Nothing ELSE tagOf[t]]
     /\ run' = [run EXCEPT ![e] =
                  [run[e] EXCEPT !.rest = rest, !.deleted = @ \cup ({d} \cap live),
                                 !.phase = IF rest = <<>> THEN "mark" ELSE "remove",
                                 !.items[run[e].item] = IF rest = <<>> THEN "deleted" ELSE @]]
     /\ UNCHANGED <<inventory, policies, preview, lock, clock, trouble>>

\* It stops at a look that forbids the delete, or at a call that fails, which
\* may be a delete whose answer is lost.
RemoveFails(e) ==
  LET d == Head(run[e].rest)
  IN /\ run[e].phase = "remove"
     /\ IF MayRemove(e) THEN Failing(e) ELSE UNCHANGED trouble
     /\ run' = [run EXCEPT ![e].phase = "mark", ![e].items[run[e].item] = "failed"]
     /\ live' \in {live} \cup (IF MayRemove(e) THEN {live \ {d}} ELSE {})
     /\ tagOf' = [t \in Tags |-> IF tagOf[t] \in live' THEN tagOf[t] ELSE Nothing]
     /\ UNCHANGED <<inventory, policies, preview, lock, clock>>

\* MarkManifestDeleted for what was deleted, the target first.  After a delete
\* that failed every mark is tried and its error ignored; otherwise the first
\* mark that fails is the last, and fails the item.
Markable(e) ==
  IF run[e].left THEN {{}}
  ELSE {marked \in SUBSET run[e].deleted :
          \/ run[e].items[run[e].item] = "failed"
          \/ marked = {} \/ run[e].item \in marked}

\* The same in the local view, which the next item is planned from: what the
\* table has as deleted, and after a failed delete whatever was deleted.
Mark(e) ==
  /\ run[e].phase = "mark"
  /\ \E marked \in Markable(e) :
       LET failed == run[e].items[run[e].item] = "failed"
           forgotten == IF failed THEN run[e].deleted ELSE marked
       IN /\ IF marked = run[e].deleted THEN UNCHANGED trouble ELSE Failing(e)
          /\ tagRow' = [t \in Tags |-> IF tagRow[t] \in marked THEN Nothing ELSE tagRow[t]]
          /\ row' = [d \in DOMAIN row |-> IF d \in marked THEN [row[d] EXCEPT !.state = "deleted"]
                                          ELSE row[d]]
          /\ run' = [run EXCEPT ![e] =
               [run[e] EXCEPT
                  !.phase = "update",
                  !.items[run[e].item] = IF marked = run[e].deleted THEN @ ELSE "failed",
                  !.view = [d \in DOMAIN @ |->
                              IF d \in forgotten
                              THEN [run[e].view[d] EXCEPT !.state = "deleted", !.tags = {},
                                                          !.tagged = FALSE]
                              ELSE @[d]]]]
  /\ UNCHANGED <<registry, policies, preview, lock, clock>>

\* UpdateLifecycleRunItem and the item's audit event; failLifecycleRun when
\* either cannot be written.
Update(e) ==
  /\ run[e].phase = "update"
  /\ \/ ~run[e].left /\ Hold(e, [run[e] EXCEPT !.phase = "items"])
     \/ HoldFailing(e, [run[e] EXCEPT !.phase = "fail"])

\* Grom stops: its handlers are gone, the tables stay.
Stop ==
  /\ \E e \in Executors : run[e].phase \notin {"idle", "done", "stopped"}
  /\ run' = [e \in Executors |-> IF run[e].phase \in {"idle", "done", "stopped"} THEN run[e]
                                 ELSE Ended(run[e], "stopped")]
  /\ UNCHANGED <<registry, inventory, policies, preview, lock, clock, trouble>>

Execute(e) ==
  \/ \E p \in Previews : RequestRun(e, p)
  \/ Expire(e) \/ Acquire(e) \/ BeginRun(e) \/ RecordStart(e) \/ Sweep(e)
  \/ \E d \in DOMAIN run[e].items : Check(e, d)
  \/ Remove(e) \/ RemoveFails(e) \/ Mark(e) \/ Update(e)
  \/ Complete(e) \/ CompleteFails(e) \/ Consume(e) \/ Release(e)
  \/ Leave(e)

Next ==
  \/ \E push \in Pushable : Push(push[1], push[2])
  \/ ReplacePolicies
  \/ Tick
  \/ \E p \in Previews : RequestPreview(p)
  \/ ReconcileInventory
  \/ \E e \in Executors : Execute(e)
  \/ Stop

Spec == Init /\ [][Next]_vars

-----------------------------------------------------------------------------
(***************************************************************************)
(* Properties                                                              *)
(***************************************************************************)
\* Two executions delete in one repository only once one of them has been at
\* it for more than thirty minutes and has lost the lock to another.
ExecutorsExclude ==
  \A e, f \in Executors :
    e # f /\ run[e].phase \in Working /\ run[f].phase \in Working
      => \E x \in {e, f} : lock.run # x /\ clock > run[x].started + LockTTL

\* A preview is executed at most once, whatever stopped or was taken over.
PreviewUsedOnce ==
  \A e, f \in Executors :
    e # f /\ run[e].row # "none" /\ run[f].row # "none" => run[e].preview # run[f].preview

\* A run that says running has the lock, whoever stopped, failed or lost the
\* lock meanwhile, so that the next execution closes it if nobody else does;
\* only a run whose own completion failed may have given the lock back.
RunningHasLock ==
  \A e \in Executors : run[e].row = "running" => lock.run = e \/ run[e].unclosed

\* What the test of the stale run expects of AcquireLifecycleLock: whoever has
\* just acquired the lock finds no run still running that began longer ago
\* than a lock is good for.
StaleRunsRecovered ==
  \A e, f \in Executors :
    run[e].phase = "begin" /\ run[f].started + LockTTL < run[e].started => run[f].row # "running"

\* Retention deletes an item of its preview, or an untagged child of one; the
\* only tags that go with an item are those the preview showed, none of them
\* kept out by the policies that were read, or tags pushed since that read.
OnlyReviewedRemoved ==
  [][\A d \in live \ live' :
       \E e \in Executors :
         LET shown == preview[run[e].preview].items
             tags == {t \in Tags : tagOf[t] = d}
         IN /\ run[e].phase = "remove"
            /\ IF d # run[e].item THEN tags = {}
               ELSE \A t \in tags \ run[e].moved :
                      /\ t \in shown[d]
                      /\ \A p \in run[e].rules : KeepsOut(p) => t \notin p.patterns]_vars

\* Every index that a tag serves has the manifests it lists.
KeptIndexesWhole ==
  \A t \in Tags : tagOf[t] # Nothing => Tree[tagOf[t]] \subseteq live
=============================================================================
