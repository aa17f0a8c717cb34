---------------------------- MODULE RetentionProofs ----------------------------
(***************************************************************************)
(* Theorems about retention, for any number of executions and previews,    *)
(* any inventory and any policies.                                         *)
(*                                                                         *)
(* None of the properties is inductive.  That executions exclude one       *)
(* another needs LockInv, which says of each execution by itself what      *)
(* having lost the lock means: thirty minutes and more since it began, and *)
(* no run row that still says running, unless that row could not be        *)
(* completed.  That a preview is used once needs PreviewInv: a preview     *)
(* with a run row is never ready again, though Expire, Consume and Acquire *)
(* write its status without a condition.  That only what was reviewed goes *)
(* needs ReviewInv: from the evaluation to the delete, what was chosen     *)
(* still has its tags but for those pushed since.                          *)
(***************************************************************************)
EXTENDS Retention, TLAPS

-----------------------------------------------------------------------------
(***************************************************************************)
(* The invariant                                                           *)
(***************************************************************************)
Phases == {"idle", "expire", "acquire", "done", "stopped"} \cup Holding
RowStates == {"none", "running", "failed", "completed", "partially_completed"}
ItemStates == {"waiting", "skipped", "deleted", "failed"}
PreviewStates == {"none", "ready", "expired", "executing", "executed"}

\* The phases in which an execution has its run row and has not ended it.
Begun == {"start", "sweep", "items", "remove", "mark", "update", "unaudited", "fail", "consume"}

\* Those in which it has chosen what to delete.
Choosing == {"items", "remove", "mark", "update"}

RunFields == {"phase", "preview", "started", "row", "left", "unclosed", "items", "view", "chosen", "rules", "moved",
              "item", "rest", "deleted"}

\* An execution, by itself.
RunOK(r) ==
  /\ DOMAIN r = RunFields
  /\ r.phase \in Phases /\ r.row \in RowStates /\ r.started \in Nat
  /\ \A d \in DOMAIN r.items : r.items[d] \in ItemStates
  /\ r.phase \in Holding \cup {"expire", "acquire"} \/ r.row # "none" => r.preview \in Previews
  /\ r.phase \in {"idle", "expire", "acquire", "begin"} => r.row = "none"
  /\ r.phase \in Begun => r.row # "none"
  /\ r.phase \in {"consume", "release", "done"} => r.row # "running" \/ r.unclosed

\* Its time: the run row is written within thirty minutes.
RunTimed(r) ==
  /\ r.phase \in Holding \cup {"acquire"} => r.started <= clock
  /\ r.phase \in {"acquire", "begin"} => clock <= r.started + LockTTL

RunsTyped == DOMAIN run = Executors /\ \A e \in Executors : RunOK(run[e]) /\ RunTimed(run[e])

RowOK(r) ==
  /\ DOMAIN r = {"state", "at", "since"}
  /\ r.state \in States /\ (r.state = "active" => r.since = Never)

InventoryTyped ==
  /\ DOMAIN row \subseteq Digests /\ \A d \in DOMAIN row : RowOK(row[d])
  /\ tagRow \in [Tags -> Digests \cup {Nothing}]

ContentTyped == live \subseteq Digests /\ tagOf \in [Tags -> Digests \cup {Nothing}]

\* The lock belongs to the one that took it last.  Whoever still works without
\* it has been at it for longer than a lock is good for; and a run that is
\* running has the lock, or could not be completed.
LockOK(e, r) ==
  /\ lock.run = e => r.phase \in Holding \cup {"stopped", "done"}
  /\ lock.run = e /\ r.phase \in Holding => lock.at = r.started
  /\ lock.run # e /\ r.phase \in Holding => clock > r.started + LockTTL
  /\ r.row = "running" => lock.run = e \/ r.unclosed

LockInv ==
  /\ lock.run \in Executors \cup {Nothing}
  /\ \A e \in Executors : LockOK(e, run[e])

\* A preview that a run row refers to is no longer ready, and never will be.
PreviewInv ==
  /\ DOMAIN preview = Previews
  /\ \A p \in Previews : /\ DOMAIN preview[p] = {"status", "expires", "items"}
                         /\ preview[p].status \in PreviewStates
  /\ \A e \in Executors :
       run[e].row # "none" => preview[run[e].preview].status \in {"expired", "executing", "executed"}
  /\ PreviewUsedOnce

\* What an execution has chosen: its tags are those of the manifest, but for
\* tags pushed since, and no policy it read keeps them out.
ChosenOK(r) ==
  /\ DOMAIN r.chosen \subseteq Digests
  /\ \A d \in DOMAIN r.chosen, t \in Tags : tagOf[t] = d /\ t \notin r.moved => t \in r.chosen[d]
  /\ \A d \in DOMAIN r.chosen, p \in r.rules : KeepsOut(p) => r.chosen[d] \cap p.patterns = {}

\* The item being deleted was shown with these tags.
ShownOK(r) ==
  r.item \in DOMAIN r.chosen /\ r.chosen[r.item] = preview[r.preview].items[r.item]

ReviewOK(r) ==
  /\ r.phase \in Choosing => ChosenOK(r)
  /\ r.phase = "remove" => ShownOK(r)

ReviewInv == \A e \in Executors : ReviewOK(run[e])

IInv ==
  /\ clock \in Nat /\ policies \in PolicySets
  /\ ContentTyped /\ InventoryTyped
  /\ RunsTyped /\ LockInv /\ PreviewInv /\ ReviewInv

-----------------------------------------------------------------------------
(***************************************************************************)
(* Steps of an execution that change what it holds, and nothing else       *)
(***************************************************************************)
LEMMA NoRunOK ==
  /\ RunOK(NoRun) /\ NoRun.phase = "idle" /\ NoRun.row = "none"
BY DEF NoRun, RunOK, RunFields, Phases, RowStates, Holding, Begun

\* Execution e goes on as next.
LEMMA RunBecomes ==
  ASSUME RunsTyped, NEW e \in Executors, NEW next, RunOK(next), RunTimed(next)',
         run' = [run EXCEPT ![e] = next], clock' = clock
  PROVE  RunsTyped' /\ run'[e] = next /\ \A f \in Executors \ {e} : run'[f] = run[f]
<1>1. DOMAIN run' = Executors /\ run'[e] = next /\ \A f \in Executors \ {e} : run'[f] = run[f]
  BY DEF RunsTyped
<1>2. \A f \in Executors \ {e} : RunOK(run'[f]) /\ RunTimed(run[f])'
  BY <1>1 DEF RunsTyped, RunTimed
<1> QED
  BY <1>1, <1>2 DEF RunsTyped, RunTimed

\* What is kept from one step of a handler to the next.
Follows(r, next) ==
  /\ r.phase \notin {"stopped", "done"}
  /\ RunOK(next)
  /\ next.phase \in Holding <=> r.phase \in Holding
  /\ next.phase \in Holding => next.started = r.started
  /\ next.row = "none" <=> r.row = "none"
  /\ next.row # "none" => next.preview = r.preview
  /\ next.row = "running" => r.row = "running"
  /\ r.unclosed => next.unclosed

LEMMA FollowsKeeps ==
  ASSUME IInv, NEW e \in Executors, NEW next, Follows(run[e], next), RunTimed(next), ReviewOK(next),
         run' = [run EXCEPT ![e] = next],
         UNCHANGED <<registry, inventory, policies, preview, lock, clock>>
  PROVE  IInv'
<1>1. /\ RunsTyped' /\ run'[e] = next /\ \A f \in Executors \ {e} : run'[f] = run[f]
  BY RunBecomes DEF IInv, Follows, RunTimed
<1>2. LockInv'
  <2>1. LockOK(e, next)
    BY DEF IInv, LockInv, LockOK, Follows
  <2>2. \A f \in Executors : LockOK(f, run'[f])
    BY <1>1, <2>1 DEF IInv, LockInv
  <2> QED
    BY <2>2 DEF IInv, LockInv, LockOK
<1>3. PreviewInv'
  <2>1. \A f \in Executors : /\ run'[f].row = "none" <=> run[f].row = "none"
                             /\ run'[f].row # "none" => run'[f].preview = run[f].preview
    BY <1>1 DEF Follows
  <2>2. PreviewUsedOnce'
    BY <2>1 DEF PreviewUsedOnce, IInv, PreviewInv
  <2> QED
    BY <2>1, <2>2 DEF IInv, PreviewInv
<1>4. ReviewInv'
  <2>1. \A f \in Executors : ReviewOK(run'[f])
    BY <1>1 DEF IInv, ReviewInv
  <2> QED
    BY <2>1 DEF ReviewInv, ReviewOK, ChosenOK, ShownOK, registry
<1> QED
  BY <1>1, <1>2, <1>3, <1>4 DEF IInv, ContentTyped, InventoryTyped, registry, inventory

\* A step that only holds on, with the cases of Follows spelled out by DEF.
LEMMA HoldKeeps ==
  ASSUME IInv, NEW e \in Executors, NEW next, Hold(e, next) \/ HoldFailing(e, next),
         Follows(run[e], next), RunTimed(next), ReviewOK(next)
  PROVE  IInv'
BY FollowsKeeps DEF Hold, HoldFailing

\* The fields of an execution, and what is known of it.
LEMMA RunFacts ==
  ASSUME IInv, NEW e \in Executors
  PROVE  RunOK(run[e]) /\ RunTimed(run[e]) /\ LockOK(e, run[e]) /\ ReviewOK(run[e])
         /\ DOMAIN run = Executors
BY DEF IInv, RunsTyped, LockInv, ReviewInv

LEMMA RecordStartKeeps ==
  ASSUME IInv, NEW e \in Executors, RecordStart(e)
  PROVE  IInv'
<1>1. PICK p \in {"sweep", "unaudited"} :
        Hold(e, [run[e] EXCEPT !.phase = p]) \/ HoldFailing(e, [run[e] EXCEPT !.phase = p])
  BY DEF RecordStart
<1> DEFINE next == [run[e] EXCEPT !.phase = p]
<1>2. RunOK(run[e]) /\ RunTimed(run[e]) /\ run[e].phase = "start"
  BY RunFacts DEF RecordStart
<1>3. RunOK(next) /\ Follows(run[e], next)
  BY <1>2 DEF RunOK, RunFields, Phases, Holding, Begun, Follows
<1>4. RunTimed(next)
  BY <1>2 DEF RunOK, RunFields, RunTimed, Holding
<1>5. ReviewOK(next)
  BY <1>2 DEF RunOK, RunFields, ReviewOK, Choosing
<1> HIDE DEF next
<1> QED
  BY <1>1, <1>3, <1>4, <1>5, HoldKeeps DEF next

LEMMA RequestRunKeeps ==
  ASSUME IInv, NEW e \in Executors, NEW p \in Previews, RequestRun(e, p)
  PROVE  IInv'
<1>1. /\ RunOK(run[e]) /\ run[e].phase = "idle" /\ Open(e, p) /\ run[e].row = "none"
      /\ clock \in Nat /\ LockTTL \in Nat
  BY RunFacts, RetentionAssumption DEF RequestRun, RunOK, IInv
<1>2. CASE clock >= preview[p].expires
  <2> DEFINE next == [run[e] EXCEPT !.phase = "expire", !.preview = p]
  <2>1. Hold(e, next)
    BY <1>1, <1>2 DEF Open
  <2>2. RunOK(next) /\ Follows(run[e], next) /\ RunTimed(next) /\ ReviewOK(next)
    BY <1>1 DEF RunOK, RunFields, Phases, Holding, Begun, Follows, RunTimed, ReviewOK, Choosing
  <2> HIDE DEF next
  <2> QED
    BY <2>1, <2>2, HoldKeeps
<1>3. CASE ~(clock >= preview[p].expires)
  <2> DEFINE waiting == [d \in DOMAIN preview[p].items |-> "waiting"]
             next == [run[e] EXCEPT !.phase = "acquire", !.preview = p, !.started = clock,
                                    !.items = waiting]
  <2>1. Hold(e, next)
    BY <1>1, <1>3 DEF Open
  <2>2. \A d \in DOMAIN waiting : waiting[d] \in ItemStates
    BY DEF ItemStates
  <2> HIDE DEF waiting
  <2>3. RunOK(next)
    BY <1>1, <2>2 DEF RunOK, RunFields, Phases, Holding, Begun
  <2>4. /\ next.phase = "acquire" /\ next.started = clock /\ next.row = "none"
        /\ next.unclosed = run[e].unclosed
    BY <1>1 DEF RunOK, RunFields
  <2> HIDE DEF next
  <2>5. RunTimed(next)
    BY <1>1, <2>4 DEF RunTimed
  <2>6. Follows(run[e], next) /\ ReviewOK(next)
    BY <1>1, <2>3, <2>4 DEF Follows, Holding, ReviewOK, Choosing
  <2> QED
    BY <2>1, <2>3, <2>5, <2>6, HoldKeeps
<1> QED
  BY <1>2, <1>3

\* What is left of an execution.
LEMMA EndedRun ==
  ASSUME NEW r, RunOK(r), NEW p \in {"done", "stopped"},
         p = "done" => r.row # "running" \/ r.unclosed
  PROVE  /\ RunOK(Ended(r, p)) /\ Ended(r, p).phase = p
         /\ Ended(r, p).row = r.row /\ Ended(r, p).preview = r.preview
         /\ Ended(r, p).unclosed = r.unclosed
         /\ ReviewOK(Ended(r, p)) /\ RunTimed(Ended(r, p)) /\ RunTimed(Ended(r, p))'
<1> DEFINE x == [NoRun EXCEPT !.phase = p, !.preview = r.preview, !.row = r.row,
                              !.started = r.started, !.unclosed = r.unclosed]
<1>1. /\ DOMAIN x = RunFields /\ x.phase = p /\ x.row = r.row /\ x.preview = r.preview
      /\ x.started = r.started /\ x.unclosed = r.unclosed /\ x.items = <<>>
  BY DEF NoRun, RunFields
<1>2. DOMAIN x.items = {}
  BY <1>1
<1>3. Ended(r, p) = x
  BY DEF Ended
<1> HIDE DEF x
<1>4. RunOK(x)
  BY <1>1, <1>2 DEF RunOK, Phases, Holding, Begun
<1>5. ReviewOK(x) /\ RunTimed(x) /\ RunTimed(x)'
  BY <1>1 DEF ReviewOK, Choosing, RunTimed, Holding
<1> QED
  BY <1>1, <1>3, <1>4, <1>5

LEMMA UpdateKeeps ==
  ASSUME IInv, NEW e \in Executors, Update(e)
  PROVE  IInv'
<1>1. PICK p \in {"items", "fail"} :
        Hold(e, [run[e] EXCEPT !.phase = p]) \/ HoldFailing(e, [run[e] EXCEPT !.phase = p])
  BY DEF Update
<1> DEFINE next == [run[e] EXCEPT !.phase = p]
<1>2. RunOK(run[e]) /\ RunTimed(run[e]) /\ ReviewOK(run[e]) /\ run[e].phase = "update"
  BY RunFacts DEF Update
<1>3. RunOK(next) /\ Follows(run[e], next)
  BY <1>2 DEF RunOK, RunFields, Phases, Holding, Begun, Follows
<1>4. RunTimed(next)
  BY <1>2 DEF RunOK, RunFields, RunTimed, Holding
<1>5. ReviewOK(next)
  BY <1>2 DEF RunOK, RunFields, ReviewOK, Choosing, ChosenOK
<1> HIDE DEF next
<1> QED
  BY <1>1, <1>3, <1>4, <1>5, HoldKeeps DEF next

LEMMA CompleteKeeps ==
  ASSUME IInv, NEW e \in Executors, Complete(e)
  PROVE  IInv'
<1>1. PICK status \in {"failed", "completed", "partially_completed"} :
        Hold(e, [run[e] EXCEPT !.phase = "consume", !.row = status])
  BY DEF Complete, Outcome
<1> DEFINE next == [run[e] EXCEPT !.phase = "consume", !.row = status]
<1>2. RunOK(run[e]) /\ RunTimed(run[e]) /\ run[e].phase \in {"fail", "unaudited", "items"}
  BY RunFacts DEF Complete, Completing
<1>3. RunOK(next) /\ Follows(run[e], next)
  BY <1>2 DEF RunOK, RunFields, Phases, RowStates, Holding, Begun, Follows
<1>4. RunTimed(next)
  BY <1>2 DEF RunOK, RunFields, RunTimed, Holding
<1>5. ReviewOK(next)
  BY <1>2 DEF RunOK, RunFields, ReviewOK, Choosing
<1> HIDE DEF next
<1> QED
  BY <1>1, <1>3, <1>4, <1>5, HoldKeeps DEF next

LEMMA CompleteFailsKeeps ==
  ASSUME IInv, NEW e \in Executors, CompleteFails(e)
  PROVE  IInv'
<1>1. PICK p \in {"consume", "release"} :
        HoldFailing(e, [run[e] EXCEPT !.phase = p, !.unclosed = TRUE])
  BY DEF CompleteFails
<1> DEFINE next == [run[e] EXCEPT !.phase = p, !.unclosed = TRUE]
<1>2. RunOK(run[e]) /\ RunTimed(run[e]) /\ run[e].phase \in {"fail", "unaudited", "items"}
  BY RunFacts DEF CompleteFails, Completing
<1>3. /\ DOMAIN next = RunFields /\ next.phase = p /\ next.preview = run[e].preview
      /\ next.started = run[e].started /\ next.row = run[e].row /\ next.items = run[e].items
      /\ next.unclosed
  BY <1>2 DEF RunOK, RunFields
<1> HIDE DEF next
<1>4. RunOK(next) /\ Follows(run[e], next)
  BY <1>2, <1>3 DEF RunOK, Phases, Holding, Begun, Follows
<1>5. RunTimed(next)
  BY <1>2, <1>3 DEF RunTimed, Holding
<1>6. ReviewOK(next)
  BY <1>3 DEF ReviewOK, Choosing
<1> QED
  BY <1>1, <1>4, <1>5, <1>6, HoldKeeps DEF next

\* The client leaves, and the execution goes on without it.
LEMMA LeaveKeeps ==
  ASSUME IInv, NEW e \in Executors, Leave(e)
  PROVE  IInv'
<1>1. PICK next : next = [run[e] EXCEPT !.left = TRUE]
  OBVIOUS
<1>2. /\ RunOK(run[e]) /\ RunTimed(run[e]) /\ ReviewOK(run[e]) /\ DOMAIN run = Executors
      /\ run[e].phase \notin {"stopped", "done"}
  BY RunFacts DEF Leave
<1>3. run' = [run EXCEPT ![e] = next]
  BY <1>1, <1>2 DEF Leave
<1>4. /\ DOMAIN next = RunFields /\ next.phase = run[e].phase /\ next.preview = run[e].preview
      /\ next.started = run[e].started /\ next.row = run[e].row /\ next.item = run[e].item
      /\ next.chosen = run[e].chosen /\ next.rules = run[e].rules /\ next.moved = run[e].moved
      /\ next.items = run[e].items /\ next.unclosed = run[e].unclosed
  BY <1>1, <1>2 DEF RunOK, RunFields
<1>5. RunOK(next) /\ Follows(run[e], next)
  BY <1>2, <1>4 DEF RunOK, Follows
<1>6. RunTimed(next) /\ ReviewOK(next)
  BY <1>2, <1>4 DEF RunTimed, ReviewOK, ChosenOK, ShownOK
<1>7. UNCHANGED <<registry, inventory, policies, preview, lock, clock>>
  BY DEF Leave
<1> QED
  BY <1>3, <1>5, <1>6, <1>7, FollowsKeeps

LEMMA CheckKeeps ==
  ASSUME IInv, NEW e \in Executors, NEW d, Check(e, d)
  PROVE  IInv'
<1>1. /\ RunOK(run[e]) /\ RunTimed(run[e]) /\ ReviewOK(run[e]) /\ run[e].phase = "items"
  BY RunFacts DEF Check
<1> DEFINE plan == <<d>> \o PlannedChildren(run[e].view, d)
           removing == [run[e] EXCEPT !.phase = "remove", !.item = d, !.deleted = {}, !.rest = plan]
<1>2. CASE Unchanged(e, d) /\ Hold(e, removing)
  <2>1. PICK rest, next :
          next = [run[e] EXCEPT !.phase = "remove", !.item = d, !.deleted = {}, !.rest = rest]
          /\ Hold(e, next)
    BY <1>2
  <2>2. /\ DOMAIN next = RunFields /\ next.phase = "remove" /\ next.item = d
        /\ next.preview = run[e].preview /\ next.started = run[e].started /\ next.row = run[e].row
        /\ next.items = run[e].items /\ next.chosen = run[e].chosen /\ next.rules = run[e].rules
        /\ next.moved = run[e].moved /\ next.unclosed = run[e].unclosed
    BY <1>1, <2>1 DEF RunOK, RunFields
  <2>3. RunOK(next) /\ Follows(run[e], next)
    BY <1>1, <2>2 DEF RunOK, Phases, Holding, Begun, Follows
  <2>4. RunTimed(next)
    BY <1>1, <2>2 DEF RunTimed, Holding
  <2>5. ReviewOK(next)
    BY <1>1, <1>2, <2>2 DEF ReviewOK, Choosing, ChosenOK, ShownOK, Unchanged
  <2> QED
    BY <2>1, <2>3, <2>4, <2>5, HoldKeeps
<1>3. CASE Hold(e, Skipped(e, d)) \/ HoldFailing(e, Skipped(e, d))
  <2> DEFINE next == [run[e] EXCEPT !.phase = "update", !.item = d, !.items[d] = "skipped"]
  <2>1. Hold(e, next) \/ HoldFailing(e, next)
    BY <1>3 DEF Skipped
  <2>2. /\ DOMAIN next = RunFields /\ next.phase = "update"
        /\ next.preview = run[e].preview /\ next.started = run[e].started /\ next.row = run[e].row
        /\ next.chosen = run[e].chosen /\ next.rules = run[e].rules
        /\ next.moved = run[e].moved /\ next.unclosed = run[e].unclosed
        /\ \A x \in DOMAIN next.items : next.items[x] \in ItemStates
    BY <1>1 DEF RunOK, RunFields, ItemStates
  <2> HIDE DEF next
  <2>3. RunOK(next) /\ Follows(run[e], next)
    BY <1>1, <2>2 DEF RunOK, Phases, Holding, Begun, Follows
  <2>4. RunTimed(next)
    BY <1>1, <2>2 DEF RunTimed, Holding
  <2>5. ReviewOK(next)
    BY <1>1, <2>2 DEF ReviewOK, Choosing, ChosenOK
  <2> QED
    BY <2>1, <2>3, <2>4, <2>5, HoldKeeps
<1> QED
  BY <1>2, <1>3 DEF Check

-----------------------------------------------------------------------------
(***************************************************************************)
(* Steps that write the status of a preview, or the lock                   *)
(***************************************************************************)
LEMMA StatusWritten ==
  ASSUME PreviewInv, NEW p \in Previews, NEW s \in PreviewStates,
         preview' = [preview EXCEPT ![p].status = s]
  PROVE  /\ DOMAIN preview' = Previews
         /\ preview'[p].status = s
         /\ \A q \in Previews :
              /\ DOMAIN preview'[q] = {"status", "expires", "items"}
              /\ preview'[q].status \in PreviewStates
              /\ preview'[q].items = preview[q].items
              /\ q # p => preview'[q] = preview[q]
BY DEF PreviewInv

\* Reviews look at the tags and at the items of previews.
LEMMA ReviewStays ==
  ASSUME NEW r, RunOK(r), ReviewOK(r), UNCHANGED tagOf,
         r.row # "none" => preview'[r.preview].items = preview[r.preview].items
  PROVE  ReviewOK(r)'
BY DEF ReviewOK, Choosing, ChosenOK, ShownOK, RunOK, Begun

\* A step of e that leaves the lock as it is: LockOK of the next is enough.
LEMMA LockStays ==
  ASSUME IInv, NEW e \in Executors, NEW next, LockOK(e, next), UNCHANGED <<lock, clock>>,
         run'[e] = next, \A f \in Executors \ {e} : run'[f] = run[f]
  PROVE  LockInv'
<1>1. \A f \in Executors : LockOK(f, run'[f])
  BY DEF IInv, LockInv
<1> QED
  BY <1>1 DEF IInv, LockInv, LockOK

\* The rest of a step of e, once its preview and its lock are seen to.
LEMMA StepKeeps ==
  ASSUME IInv, NEW e \in Executors, NEW next, RunOK(next), RunTimed(next), ReviewOK(next)',
         run' = [run EXCEPT ![e] = next], LockInv', PreviewInv',
         UNCHANGED <<registry, inventory, policies, clock>>,
         \A p \in Previews : preview'[p].items = preview[p].items
  PROVE  IInv'
<1>1. RunsTyped' /\ run'[e] = next /\ \A f \in Executors \ {e} : run'[f] = run[f]
  BY RunBecomes DEF IInv, RunTimed
<1>2. \A f \in Executors : ReviewOK(run[f])'
  <2> TAKE f \in Executors
  <2>1. PICK r1 : r1 = run'[f]
    OBVIOUS
  <2>2. ReviewOK(r1)'
    <3>1. CASE f = e
      BY <1>1, <2>1, <3>1
    <3>2. CASE f # e
      <4>1. r1 = run[f] /\ RunOK(r1) /\ ReviewOK(r1) /\ UNCHANGED tagOf
        BY <1>1, <2>1, <3>2, RunFacts DEF registry
      <4>2. r1.row # "none" => preview'[r1.preview].items = preview[r1.preview].items
        BY <4>1 DEF RunOK
      <4> QED
        BY <4>1, <4>2, ReviewStays
    <3> QED
      BY <3>1, <3>2
  <2> QED
    BY <2>1, <2>2 DEF ReviewOK, ChosenOK, ShownOK
<1>3. ReviewInv'
  BY <1>2 DEF ReviewInv
<1> QED
  BY <1>1, <1>3 DEF IInv, ContentTyped, InventoryTyped, registry, inventory

\* Without the lock an execution would not have come to begin its run.
LEMMA BeginsLocked ==
  ASSUME IInv, NEW e \in Executors, run[e].phase = "begin"
  PROVE  lock.run = e
<1>1. RunTimed(run[e]) /\ LockOK(e, run[e]) /\ RunOK(run[e])
  BY RunFacts
<1>2. run[e].started \in Nat /\ clock <= run[e].started + LockTTL /\ clock \in Nat /\ LockTTL \in Nat
  BY <1>1, RetentionAssumption DEF RunTimed, RunOK, IInv
<1>3. ~(clock > run[e].started + LockTTL)
  BY <1>2
<1> QED
  BY <1>1, <1>3 DEF LockOK, Holding

LEMMA BeginRunKeeps ==
  ASSUME IInv, NEW e \in Executors, BeginRun(e)
  PROVE  IInv'
<1>1. /\ RunOK(run[e]) /\ RunTimed(run[e]) /\ LockOK(e, run[e]) /\ PreviewInv
      /\ run[e].phase = "begin" /\ run[e].preview \in Previews /\ run[e].row = "none"
  BY RunFacts DEF BeginRun, IInv, RunOK, Holding
<1> DEFINE refused == [run[e] EXCEPT !.phase = "release"]
<1>2. CASE Hold(e, refused) \/ HoldFailing(e, refused)
  <2> DEFINE next == [run[e] EXCEPT !.phase = "release"]
  <2>1. Hold(e, next) \/ HoldFailing(e, next)
    BY <1>2
  <2>2. RunOK(next) /\ Follows(run[e], next)
    BY <1>1 DEF RunOK, RunFields, Phases, Holding, Begun, Follows
  <2>3. RunTimed(next) /\ ReviewOK(next)
    BY <1>1 DEF RunOK, RunFields, RunTimed, Holding, ReviewOK, Choosing
  <2> HIDE DEF next
  <2> QED
    BY <2>1, <2>2, <2>3, HoldKeeps
<1>3. CASE preview[run[e].preview].status = "ready" /\ InsertRun(e)
  <2> DEFINE p == run[e].preview
  <2>0. PICK next : next = [run[e] EXCEPT !.phase = "start", !.row = "running"]
    OBVIOUS
  <2>1. /\ preview' = [preview EXCEPT ![p].status = "executing"]
        /\ run' = [run EXCEPT ![e] = next]
        /\ UNCHANGED <<registry, inventory, policies, lock, clock>>
    BY <1>3, <2>0, RunFacts DEF InsertRun
  <2>2. /\ DOMAIN next = RunFields /\ next.phase = "start" /\ next.row = "running"
        /\ next.preview = p /\ next.started = run[e].started /\ next.items = run[e].items
    BY <1>1, <2>0 DEF RunOK, RunFields
  <2>3. RunOK(next)
    BY <1>1, <2>2 DEF RunOK, Phases, RowStates, Holding, Begun
  <2>4. RunTimed(next)
    BY <1>1, <2>2 DEF RunTimed, Holding
  <2>5. ReviewOK(next)'
    BY <2>2 DEF ReviewOK, Choosing
  <2>6. run'[e] = next /\ \A f \in Executors \ {e} : run'[f] = run[f]
    BY <2>1, RunFacts
  <2>7. LockInv'
    <3>1. LockOK(e, next)
      BY <1>1, <2>2, BeginsLocked DEF LockOK, Holding
    <3> QED
      BY <2>1, <2>6, <3>1, LockStays
  <2>8. /\ DOMAIN preview' = Previews /\ preview'[p].status = "executing"
        /\ \A q \in Previews : /\ DOMAIN preview'[q] = {"status", "expires", "items"}
                               /\ preview'[q].status \in PreviewStates
                               /\ preview'[q].items = preview[q].items
                               /\ q # p => preview'[q] = preview[q]
    BY <1>1, <2>1, StatusWritten DEF PreviewStates
  <2>9. \A f \in Executors \ {e} : run[f].row # "none" => run[f].preview # p
    BY <1>1, <1>3 DEF PreviewInv
  <2>10. \A f \in Executors \ {e} : run[f].row # "none" => run[f].preview \in Previews
    BY RunFacts DEF RunOK
  <2>11. \A f \in Executors :
           run'[f].row # "none" => preview'[run'[f].preview].status
                                     \in {"expired", "executing", "executed"}
    BY <1>1, <2>2, <2>6, <2>8, <2>9, <2>10 DEF PreviewInv
  <2>12. PreviewUsedOnce'
    BY <1>1, <2>2, <2>6, <2>9 DEF PreviewInv, PreviewUsedOnce
  <2>13. PreviewInv'
    BY <2>8, <2>11, <2>12 DEF PreviewInv
  <2> QED
    BY <2>1, <2>3, <2>4, <2>5, <2>7, <2>8, <2>13, StepKeeps
<1> QED
  BY <1>2, <1>3 DEF BeginRun

\* A preview that is used or expired is so for good, whoever writes it.
LEMMA StatusUsed ==
  ASSUME IInv, NEW e \in Executors, NEW next, NEW s \in {"expired", "executed"},
         run[e].preview \in Previews,
         preview' = [preview EXCEPT ![run[e].preview].status = s],
         run'[e] = next, \A f \in Executors \ {e} : run'[f] = run[f],
         next.row = run[e].row, next.row # "none" => next.preview = run[e].preview
  PROVE  PreviewInv' /\ \A q \in Previews : preview'[q].items = preview[q].items
<1> DEFINE p == run[e].preview
<1>1. PreviewInv
  BY DEF IInv
<1>2. /\ DOMAIN preview' = Previews /\ preview'[p].status = s
      /\ \A q \in Previews : /\ DOMAIN preview'[q] = {"status", "expires", "items"}
                             /\ preview'[q].status \in PreviewStates
                             /\ preview'[q].items = preview[q].items
                             /\ q # p => preview'[q] = preview[q]
  BY <1>1, StatusWritten DEF PreviewStates
<1>3. \A f \in Executors : run[f].row # "none" => run[f].preview \in Previews
  BY RunFacts DEF RunOK
<1>4. \A f \in Executors : /\ run'[f].row = run[f].row
                           /\ run'[f].row # "none" => run'[f].preview = run[f].preview
  OBVIOUS
<1>5. \A f \in Executors :
        run'[f].row # "none" => preview'[run'[f].preview].status
                                  \in {"expired", "executing", "executed"}
  BY <1>1, <1>2, <1>3, <1>4 DEF PreviewInv
<1>6. PreviewUsedOnce'
  BY <1>1, <1>4 DEF PreviewInv, PreviewUsedOnce
<1> QED
  BY <1>2, <1>5, <1>6 DEF PreviewInv

\* The handler gives up before it has begun: the preview expired, the lock is
\* refused, or a call failed.
LEMMA RefusedKeeps ==
  ASSUME IInv, NEW e \in Executors, run[e].phase \in {"expire", "acquire"},
         Hold(e, Ended(run[e], "done")) \/ HoldFailing(e, Ended(run[e], "done"))
  PROVE  IInv'
<1>1. PICK next, r : next = Ended(run[e], "done") /\ r = run[e]
  OBVIOUS
<1>2. RunOK(r) /\ r.row = "none" /\ r.phase \in {"expire", "acquire"}
  BY <1>1, RunFacts DEF RunOK
<1>3. /\ RunOK(next) /\ next.phase = "done" /\ next.row = r.row /\ next.preview = r.preview
      /\ RunTimed(next) /\ next.unclosed = r.unclosed
  BY <1>1, <1>2, EndedRun
<1>4. ReviewOK(next)
  BY <1>3 DEF ReviewOK, Choosing
<1>5. Follows(run[e], next)
  BY <1>1, <1>2, <1>3 DEF Follows, Holding
<1> QED
  BY <1>1, <1>3, <1>4, <1>5, HoldKeeps

LEMMA ExpireKeeps ==
  ASSUME IInv, NEW e \in Executors, Expire(e)
  PROVE  IInv'
<1>0. SUFFICES ASSUME ~HoldFailing(e, Ended(run[e], "done")) PROVE IInv'
  BY RefusedKeeps DEF Expire
<1>1. /\ RunOK(run[e]) /\ LockOK(e, run[e]) /\ run[e].phase = "expire" /\ run[e].row = "none"
      /\ run[e].preview \in Previews
  BY RunFacts DEF Expire, RunOK
<1>2. PICK x : x = Ended(run[e], "done")
  OBVIOUS
<1>3. PICK r : r = run[e]
  OBVIOUS
<1>4. RunOK(r) /\ x = Ended(r, "done") /\ r.row = "none"
  BY <1>1, <1>2, <1>3
<1>5. /\ RunOK(x) /\ x.phase = "done" /\ x.row = run[e].row /\ x.preview = run[e].preview
      /\ RunTimed(x) /\ ReviewOK(x)'
  <2>1. /\ RunOK(x) /\ x.phase = "done" /\ x.row = r.row /\ x.preview = r.preview
        /\ RunTimed(x)
    BY <1>4, EndedRun
  <2> QED
    BY <1>3, <2>1 DEF ReviewOK, Choosing
<1>6. /\ preview' = [preview EXCEPT ![run[e].preview].status = "expired"]
      /\ run' = [run EXCEPT ![e] = x]
      /\ UNCHANGED <<registry, inventory, policies, lock, clock>>
  BY <1>0, <1>2, RunFacts DEF Expire
<1>7. run'[e] = x /\ \A f \in Executors \ {e} : run'[f] = run[f]
  BY <1>6, RunFacts
<1>8. PreviewInv' /\ \A q \in Previews : preview'[q].items = preview[q].items
  BY <1>1, <1>5, <1>6, <1>7, StatusUsed
<1>9. LockInv'
  <2>1. LockOK(e, x)
    BY <1>1, <1>5 DEF LockOK, Holding
  <2> QED
    BY <1>6, <1>7, <2>1, LockStays
<1> QED
  BY <1>5, <1>6, <1>8, <1>9, StepKeeps

LEMMA ConsumeKeeps ==
  ASSUME IInv, NEW e \in Executors, Consume(e)
  PROVE  IInv'
<1>0. PICK next : next = [run[e] EXCEPT !.phase = "release"]
  OBVIOUS
<1>1. /\ RunOK(run[e]) /\ RunTimed(run[e]) /\ LockOK(e, run[e]) /\ run[e].phase = "consume"
      /\ run[e].preview \in Previews
  BY RunFacts DEF Consume, RunOK, Holding
<1>2. /\ DOMAIN next = RunFields /\ next.phase = "release" /\ next.row = run[e].row
      /\ next.preview = run[e].preview /\ next.started = run[e].started
      /\ next.items = run[e].items /\ next.unclosed = run[e].unclosed
  BY <1>0, <1>1 DEF RunOK, RunFields
<1>4. RunOK(next) /\ RunTimed(next)
  BY <1>1, <1>2 DEF RunOK, RunTimed, Phases, Holding, Begun
<1>9. CASE HoldFailing(e, next)
  <2>1. Follows(run[e], next) /\ ReviewOK(next)
    BY <1>1, <1>2, <1>4 DEF Follows, Holding, ReviewOK, Choosing
  <2> QED
    BY <1>4, <1>9, <2>1, HoldKeeps
<1>10. SUFFICES ASSUME ~HoldFailing(e, next) PROVE IInv'
  BY <1>9
<1>3. /\ preview' = [preview EXCEPT ![run[e].preview].status = "executed"]
      /\ run' = [run EXCEPT ![e] = next]
      /\ UNCHANGED <<registry, inventory, policies, lock, clock>>
  BY <1>0, <1>10, RunFacts DEF Consume
<1>5. ReviewOK(next)'
  BY <1>2 DEF ReviewOK, Choosing
<1>6. run'[e] = next /\ \A f \in Executors \ {e} : run'[f] = run[f]
  BY <1>3, RunFacts
<1>7. PreviewInv' /\ \A q \in Previews : preview'[q].items = preview[q].items
  BY <1>1, <1>2, <1>3, <1>6, StatusUsed
<1>8. LockInv'
  <2>1. LockOK(e, next)
    BY <1>1, <1>2 DEF LockOK, Holding
  <2> QED
    BY <1>3, <1>6, <2>1, LockStays
<1> QED
  BY <1>3, <1>4, <1>5, <1>7, <1>8, StepKeeps

LEMMA ReleaseKeeps ==
  ASSUME IInv, NEW e \in Executors, Release(e)
  PROVE  IInv'
<1>1. PICK next, r : next = Ended(run[e], "done") /\ r = run[e]
  OBVIOUS
<1>2. /\ RunOK(r) /\ LockOK(e, r) /\ r.phase = "release" /\ (r.row # "running" \/ r.unclosed)
      /\ LockInv /\ PreviewInv
  BY <1>1, RunFacts DEF Release, RunOK, IInv
<1>3. /\ RunOK(next) /\ next.phase = "done" /\ next.row = r.row /\ next.preview = r.preview
      /\ RunTimed(next) /\ next.unclosed = r.unclosed
  BY <1>1, <1>2, EndedRun
<1>4. ReviewOK(next)'
  BY <1>3 DEF ReviewOK, Choosing
<1>5. /\ lock' = (IF lock.run = e THEN NoLock ELSE lock) \/ lock' = lock
      /\ run' = [run EXCEPT ![e] = next]
      /\ UNCHANGED <<registry, inventory, policies, preview, clock>>
  BY <1>1, RunFacts DEF Release
<1>6. run'[e] = next /\ \A f \in Executors \ {e} : run'[f] = run[f]
  BY <1>5, RunFacts
<1>7. LockInv'
  <2>1. lock'.run \in Executors \cup {Nothing}
    BY <1>2, <1>5 DEF LockInv, NoLock
  <2>2. ASSUME NEW f \in Executors PROVE LockOK(f, run[f])'
    <3>1. CASE f = e
      BY <1>2, <1>3, <1>6, <2>1, <3>1 DEF LockOK, Holding
    <3>2. CASE f # e
      <4>1. LockOK(f, run[f]) /\ run'[f] = run[f]
        BY <1>6, <3>2, RunFacts
      <4>2. (lock'.run = f <=> lock.run = f) /\ (lock.run = f => lock' = lock)
        BY <1>5, <3>2, RetentionAssumption DEF NoLock
      <4> QED
        BY <1>5, <4>1, <4>2 DEF LockOK
    <3> QED
      BY <3>1, <3>2
  <2> QED
    BY <2>1, <2>2 DEF LockInv
<1>8. PreviewInv'
  <2>1. \A f \in Executors : run'[f].row = run[f].row /\ run'[f].preview = run[f].preview
    BY <1>1, <1>3, <1>6
  <2> QED
    BY <1>2, <1>5, <2>1 DEF PreviewInv, PreviewUsedOnce
<1> QED
  BY <1>3, <1>4, <1>5, <1>7, <1>8, StepKeeps

\* Nobody has the lock, or a run that has held it for longer than a lock is
\* good for: that run is closed and its preview consumed.
LEMMA TakenKeeps ==
  ASSUME IInv, NEW e \in Executors, run[e].phase = "acquire", TakeLock(e),
         lock.run = Nothing \/ Stale(e)
  PROVE  IInv'
<1> DEFINE old == lock.run
           closes == old # Nothing /\ run[old].row # "none"
<1>1. /\ RunOK(run[e]) /\ RunTimed(run[e]) /\ run[e].phase = "acquire" /\ run[e].row = "none"
      /\ LockInv /\ PreviewInv /\ run[e].preview \in Previews /\ DOMAIN run = Executors
      /\ clock \in Nat /\ LockTTL \in Nat /\ run[e].started \in Nat /\ run[e].started <= clock
  BY RunFacts, RetentionAssumption DEF RunOK, RunTimed, IInv
<1>2. /\ lock' = [run |-> e, at |-> run[e].started]
      /\ UNCHANGED <<registry, inventory, policies, clock>>
      /\ IF closes
         THEN /\ run' = [run EXCEPT ![e].phase = "begin",
                                    ![old].row = IF @ = "running" THEN "failed" ELSE @]
              /\ preview' = [preview EXCEPT ![run[old].preview].status =
                               IF @ = "executing" THEN "executed" ELSE @]
         ELSE run' = [run EXCEPT ![e].phase = "begin"] /\ UNCHANGED preview
  BY DEF TakeLock
<1>3. old # Nothing => old \in Executors /\ old # e
  BY <1>1 DEF LockInv, LockOK, Holding
\* What becomes of everybody.
<1>4. /\ DOMAIN run' = Executors
      /\ run'[e] = [run[e] EXCEPT !.phase = "begin"]
      /\ closes => run'[old] = [run[old] EXCEPT !.row = IF @ = "running" THEN "failed" ELSE @]
      /\ \A f \in Executors \ {e} : ~(closes /\ f = old) => run'[f] = run[f]
  BY <1>1, <1>2, <1>3
<1>5. /\ RunOK(run'[e]) /\ run'[e].phase = "begin" /\ run'[e].row = "none"
      /\ run'[e].started = run[e].started
  BY <1>1, <1>4 DEF RunOK, RunFields, Phases, Holding, Begun
<1>6. ASSUME NEW f \in Executors \ {e}
      PROVE  /\ RunOK(run'[f]) /\ run'[f].phase = run[f].phase /\ run'[f].started = run[f].started
             /\ run'[f].row \in {run[f].row, "failed"} /\ run'[f].preview = run[f].preview
             /\ run'[f].row = "none" <=> run[f].row = "none"
             /\ run'[f].chosen = run[f].chosen /\ run'[f].rules = run[f].rules
             /\ run'[f].moved = run[f].moved /\ run'[f].item = run[f].item
             /\ run'[f].unclosed = run[f].unclosed
             /\ f = old => run'[f].row # "running"
  <2>1. RunOK(run[f])
    BY RunFacts
  <2>2. CASE closes /\ f = old
    <3>1. PICK x, s : x = run'[f] /\ x = [run[f] EXCEPT !.row = s]
                      /\ s = IF run[f].row = "running" THEN "failed" ELSE run[f].row
      BY <1>4, <2>2
    <3>2. /\ DOMAIN x = RunFields /\ x.row = s /\ x.phase = run[f].phase
          /\ x.started = run[f].started /\ x.preview = run[f].preview /\ x.items = run[f].items
          /\ x.chosen = run[f].chosen /\ x.rules = run[f].rules /\ x.moved = run[f].moved
          /\ x.item = run[f].item /\ x.unclosed = run[f].unclosed
      BY <2>1, <3>1 DEF RunOK, RunFields
    <3>3. s \in {run[f].row, "failed"} /\ s # "running" /\ s \in RowStates /\ s # "none"
      BY <2>1, <2>2, <3>1 DEF RunOK, RowStates
    <3>4. RunOK(x)
      BY <2>1, <2>2, <3>2, <3>3 DEF RunOK, Begun
    <3> QED
      BY <2>2, <3>1, <3>2, <3>3, <3>4
  <2>3. CASE ~(closes /\ f = old)
    <3>1. run'[f] = run[f]
      BY <1>4, <2>3
    <3>2. f = old => run[f].row = "none"
      BY <1>1, <2>3, RetentionAssumption
    <3> QED
      BY <2>1, <3>1, <3>2
  <2> QED
    BY <2>2, <2>3
<1>7. RunsTyped'
  <2>1. RunTimed(run[e])'
    BY <1>1, <1>2, <1>5 DEF RunTimed, Holding
  <2>2. ASSUME NEW f \in Executors \ {e} PROVE RunTimed(run[f])'
    BY <1>2, <1>6, <2>2, RunFacts DEF RunTimed
  <2>3. \A f \in Executors : RunOK(run[f])'
    BY <1>5, <1>6 DEF RunOK
  <2> QED
    BY <1>4, <2>1, <2>2, <2>3 DEF RunsTyped
<1>8. LockInv'
  <2>1. lock'.run = e /\ lock'.at = run[e].started
    BY <1>2
  <2>2. LockOK(e, run[e])'
    BY <1>5, <2>1 DEF LockOK, Holding
  <2>3. ASSUME NEW f \in Executors \ {e} PROVE LockOK(f, run[f])'
    <3>1. LockOK(f, run[f]) /\ RunOK(run[f])
      BY RunFacts
    <3>2. run'[f].row = "running" => run'[f].unclosed
      BY <1>6, <3>1 DEF LockOK
    <3>3. run[f].phase \in Holding => clock > run[f].started + LockTTL
      <4>1. SUFFICES ASSUME run[f].phase \in Holding PROVE clock > run[f].started + LockTTL
        OBVIOUS
      <4>2. CASE lock.run # f
        BY <3>1, <4>1, <4>2 DEF LockOK
      <4>3. CASE lock.run = f
        <5>1. Stale(e) /\ lock.at = run[f].started /\ run[f].started \in Nat
          BY <3>1, <4>1, <4>3, RetentionAssumption DEF LockOK, RunOK
        <5>2. run[f].started < run[e].started - LockTTL
          BY <5>1 DEF Stale
        <5> QED
          BY <1>1, <5>1, <5>2
      <4> QED
        BY <4>2, <4>3
    <3> QED
      BY <1>2, <1>6, <2>1, <3>2, <3>3 DEF LockOK
  <2> QED
    BY <2>1, <2>2, <2>3 DEF LockInv
<1>9. /\ DOMAIN preview' = Previews
      /\ \A q \in Previews : /\ DOMAIN preview'[q] = {"status", "expires", "items"}
                             /\ preview'[q].status \in PreviewStates
                             /\ preview'[q].items = preview[q].items
                             /\ preview[q].status \in {"expired", "executing", "executed"}
                                  => preview'[q].status \in {"expired", "executing", "executed"}
  <2>1. CASE closes
    <3> DEFINE p == run[old].preview
    <3>1. p \in Previews
      BY <1>3, <2>1, RunFacts DEF RunOK
    <3>2. PICK s : s = IF preview[p].status = "executing" THEN "executed" ELSE preview[p].status
      OBVIOUS
    <3>3. preview' = [preview EXCEPT ![p].status = s]
      BY <1>2, <2>1, <3>2
    <3>4. s \in PreviewStates
      BY <1>1, <3>1, <3>2 DEF PreviewInv, PreviewStates
    <3>5. preview[p].status \in {"expired", "executing", "executed"}
            => s \in {"expired", "executing", "executed"}
      BY <3>2
    <3> HIDE DEF p
    <3> QED
      BY <1>1, <3>1, <3>3, <3>4, <3>5, StatusWritten
  <2>2. CASE ~closes
    BY <1>1, <1>2, <2>2 DEF PreviewInv
  <2> QED
    BY <2>1, <2>2
<1>10. PreviewInv'
  <2>1. \A f \in Executors : run'[f].row # "none" =>
          run[f].row # "none" /\ run'[f].preview = run[f].preview
    BY <1>5, <1>6
  <2>2. PreviewUsedOnce'
    BY <1>1, <2>1 DEF PreviewInv, PreviewUsedOnce
  <2>3. \A f \in Executors : run[f].row # "none" => run[f].preview \in Previews
    BY RunFacts DEF RunOK
  <2>4. \A f \in Executors :
           run'[f].row # "none" => preview'[run'[f].preview].status
                                     \in {"expired", "executing", "executed"}
    BY <1>1, <1>9, <2>1, <2>3 DEF PreviewInv
  <2> QED
    BY <1>9, <2>2, <2>4 DEF PreviewInv
<1>11. ReviewInv'
  <2>1. ReviewOK(run[e])'
    BY <1>5 DEF ReviewOK, Choosing
  <2>2. ASSUME NEW f \in Executors \ {e} PROVE ReviewOK(run[f])'
    <3>1. PICK r : r = run[f]
      OBVIOUS
    <3>2. RunOK(r) /\ ReviewOK(r) /\ UNCHANGED tagOf
      BY <1>2, <3>1, RunFacts DEF registry
    <3>3. r.row # "none" => preview'[r.preview].items = preview[r.preview].items
      BY <1>9, <3>2 DEF RunOK
    <3>4. ReviewOK(r)'
      BY <3>2, <3>3, ReviewStays
    <3> QED
      BY <1>6, <3>1, <3>4 DEF ReviewOK, ChosenOK, ShownOK
  <2> QED
    BY <2>1, <2>2 DEF ReviewInv
<1> QED
  BY <1>2, <1>7, <1>8, <1>10, <1>11
     DEF IInv, ContentTyped, InventoryTyped, registry, inventory

LEMMA AcquireKeeps ==
  ASSUME IInv, NEW e \in Executors, Acquire(e)
  PROVE  IInv'
<1>1. CASE Hold(e, Ended(run[e], "done")) \/ HoldFailing(e, Ended(run[e], "done"))
  BY <1>1, RefusedKeeps DEF Acquire
<1>2. CASE (lock.run # Nothing => Stale(e)) /\ TakeLock(e)
  BY <1>2, TakenKeeps DEF Acquire
<1> QED
  BY <1>1, <1>2 DEF Acquire

-----------------------------------------------------------------------------
(***************************************************************************)
(* Everything else that happens                                            *)
(***************************************************************************)
LEMMA TreesInDigests == Tree \in [Digests -> SUBSET Digests]
BY DEF Tree, Descendants

LEMMA RefreshedOK ==
  ASSUME NEW r, RowOK(r), NEW tagged \in BOOLEAN
  PROVE  RowOK(Refreshed(r, tagged))
BY DEF RowOK, Refreshed, States

LEMMA UpsertedOK ==
  ASSUME InventoryTyped, NEW seen \in SUBSET Digests, NEW tags, NEW others,
         \A d \in DOMAIN row : RowOK(others[d])
  PROVE  LET rows == Upserted(seen, tags, others)
         IN DOMAIN rows = DOMAIN row \cup seen /\ \A d \in DOMAIN rows : RowOK(rows[d])
<1> DEFINE rows == Upserted(seen, tags, others)
<1>1. DOMAIN rows = DOMAIN row \cup seen
  BY DEF Upserted
<1>2. RowOK(Fresh)
  BY DEF Fresh, RowOK, States
<1>3. ASSUME NEW d \in DOMAIN row \cup seen PROVE RowOK(rows[d])
  <2> DEFINE tagged == \E t \in Tags : tags[t] = d
             was == IF d \in DOMAIN row THEN row[d] ELSE Fresh
  <2>1. rows[d] = IF d \in seen THEN Refreshed(was, tagged)
                  ELSE IF row[d].state = "deleted" THEN row[d] ELSE others[d]
    BY <1>3 DEF Upserted
  <2>2. RowOK(was) /\ tagged \in BOOLEAN
    BY <1>2 DEF InventoryTyped
  <2> HIDE DEF was, tagged, rows
  <2>3. RowOK(Refreshed(was, tagged))
    BY <2>2, RefreshedOK
  <2> QED
    BY <1>3, <2>1, <2>3 DEF InventoryTyped
<1> HIDE DEF rows
<1>4. DOMAIN rows = DOMAIN row \cup seen /\ \A d \in DOMAIN rows : RowOK(rows[d])
  BY <1>1, <1>3
<1> QED
  BY <1>4 DEF rows

LEMMA ReconciledOK ==
  ASSUME InventoryTyped, ContentTyped, Reconciled
  PROVE  InventoryTyped'
<1> DEFINE missing == [d \in DOMAIN row |-> [row[d] EXCEPT !.state = "missing"]]
<1>1. Seen \in SUBSET Digests
  BY TreesInDigests DEF Seen, Reached, ContentTyped
<1>2. \A d \in DOMAIN row : RowOK(missing[d])
  BY DEF InventoryTyped, RowOK, States
<1>3. tagRow' = tagOf /\ row' = Upserted(Seen, tagOf, missing)
  BY DEF Reconciled
<1> HIDE DEF missing
<1>4. DOMAIN row' = DOMAIN row \cup Seen /\ \A d \in DOMAIN row' : RowOK(row'[d])
  BY <1>1, <1>2, <1>3, UpsertedOK
<1> QED
  BY <1>1, <1>3, <1>4 DEF InventoryTyped, ContentTyped, RowOK

\* A step that leaves Distribution, the executions and the lock alone.
LEMMA TablesKeep ==
  ASSUME IInv, InventoryTyped', policies' \in PolicySets, PreviewInv',
         UNCHANGED <<registry, run, lock, clock>>,
         \A e \in Executors : run[e].row # "none" =>
           preview'[run[e].preview].items = preview[run[e].preview].items
  PROVE  IInv'
<1>1. RunsTyped' /\ LockInv'
  BY DEF IInv, RunsTyped, RunTimed, LockInv, LockOK
<1>2. ReviewInv'
  <2>1. ASSUME NEW e \in Executors PROVE ReviewOK(run[e])'
    <3>1. PICK r : r = run[e]
      OBVIOUS
    <3>2. RunOK(r) /\ ReviewOK(r) /\ UNCHANGED tagOf
      BY <3>1, RunFacts DEF registry
    <3>3. ReviewOK(r)'
      BY <3>1, <3>2, ReviewStays
    <3> QED
      BY <3>1, <3>3 DEF ReviewOK, ChosenOK, ShownOK
  <2> QED
    BY <2>1 DEF ReviewInv
<1> QED
  BY <1>1, <1>2 DEF IInv, ContentTyped, registry

LEMMA ReconcileInventoryKeeps ==
  ASSUME IInv, ReconcileInventory
  PROVE  IInv'
<1>1. InventoryTyped'
  BY ReconciledOK DEF ReconcileInventory, IInv
<1>2. PreviewInv'
  BY DEF ReconcileInventory, IInv, PreviewInv, PreviewUsedOnce
<1> QED
  BY <1>1, <1>2, TablesKeep DEF ReconcileInventory, IInv

LEMMA ReplacePoliciesKeeps ==
  ASSUME IInv, ReplacePolicies
  PROVE  IInv'
<1>1. InventoryTyped' /\ PreviewInv'
  BY DEF ReplacePolicies, IInv, InventoryTyped, inventory, PreviewInv, PreviewUsedOnce
<1> QED
  BY <1>1, TablesKeep DEF ReplacePolicies, IInv

LEMMA RequestPreviewKeeps ==
  ASSUME IInv, NEW p \in Previews, RequestPreview(p)
  PROVE  IInv'
<1>1. InventoryTyped'
  BY ReconciledOK DEF RequestPreview, CreatePreview, IInv
<1>2. PICK items : preview' = [preview EXCEPT ![p] = [status |-> "ready", items |-> items,
                                                      expires |-> clock + PreviewTTL]]
  BY DEF RequestPreview, CreatePreview, CreateLifecyclePreview
<1>3. preview[p].status = "none" /\ UNCHANGED <<registry, policies, run, lock, clock>>
  BY DEF RequestPreview
<1>4. PreviewInv
  BY DEF IInv
<1>5. \A e \in Executors : run[e].row # "none" => run[e].preview \in Previews \ {p}
  BY <1>3, <1>4, RunFacts DEF RunOK, PreviewInv
<1>6. \A q \in Previews \ {p} : preview'[q] = preview[q]
  BY <1>2, <1>4 DEF PreviewInv
<1>7. DOMAIN preview' = Previews /\ DOMAIN preview'[p] = {"status", "expires", "items"}
      /\ preview'[p].status \in PreviewStates
  BY <1>2, <1>4 DEF PreviewInv, PreviewStates
<1>8. PreviewInv'
  BY <1>3, <1>4, <1>5, <1>6, <1>7 DEF PreviewInv, PreviewUsedOnce
<1> QED
  BY <1>1, <1>3, <1>5, <1>6, <1>8, TablesKeep DEF IInv

LEMMA TickKeeps ==
  ASSUME IInv, Tick
  PROVE  IInv'
<1>1. /\ clock' = clock + 1 /\ clock \in Nat /\ LockTTL \in Nat /\ StartsPromptly
      /\ UNCHANGED <<registry, inventory, policies, preview, lock, run>>
  BY RetentionAssumption DEF Tick, IInv
<1>2. ASSUME NEW e \in Executors PROVE RunOK(run'[e]) /\ RunTimed(run[e])' /\ LockOK(e, run[e])'
  <2>1. RunOK(run[e]) /\ RunTimed(run[e]) /\ LockOK(e, run[e]) /\ run'[e] = run[e]
    BY <1>1, RunFacts
  <2>2. PICK s : s = run[e].started /\ s \in Nat
    BY <2>1 DEF RunOK
  <2>3. /\ s <= clock => s <= clock'
        /\ clock < s + LockTTL => clock' <= s + LockTTL
        /\ clock > s + LockTTL => clock' > s + LockTTL
    BY <1>1, <2>2
  <2>4. RunTimed(run[e])'
    BY <1>1, <2>1, <2>2, <2>3 DEF RunTimed, StartsPromptly
  <2>5. LockOK(e, run[e])'
    BY <1>1, <2>1, <2>2, <2>3 DEF LockOK
  <2> QED
    BY <2>1, <2>4, <2>5
<1>3. RunsTyped' /\ LockInv'
  BY <1>1, <1>2 DEF IInv, RunsTyped, LockInv, RunOK
<1>4. PreviewInv' /\ ReviewInv'
  BY <1>1 DEF IInv, PreviewInv, PreviewUsedOnce, ReviewInv, ReviewOK, ChosenOK, ShownOK, registry
<1> QED
  BY <1>1, <1>3, <1>4 DEF IInv, ContentTyped, InventoryTyped, registry, inventory

-----------------------------------------------------------------------------
(***************************************************************************)
(* Deleting, and what clients push meanwhile                               *)
(***************************************************************************)
\* Deletions only take tags away, so what was chosen still has its tags.
LEMMA ReviewShrinks ==
  ASSUME NEW r, ReviewOK(r), \A t \in Tags : tagOf'[t] \in {tagOf[t], Nothing}, UNCHANGED preview
  PROVE  ReviewOK(r)'
<1>1. r.phase \in Choosing => ChosenOK(r)'
  BY ContentAssumption DEF ReviewOK, ChosenOK
<1> QED
  BY <1>1 DEF ReviewOK, ShownOK

LEMMA WorkKeeps ==
  ASSUME IInv, NEW e \in Executors, NEW next, Follows(run[e], next), RunTimed(next),
         ReviewOK(next)', run' = [run EXCEPT ![e] = next], ContentTyped', InventoryTyped',
         \A t \in Tags : tagOf'[t] \in {tagOf[t], Nothing},
         UNCHANGED <<policies, preview, lock, clock>>
  PROVE  IInv'
<1>1. RunsTyped' /\ run'[e] = next /\ \A f \in Executors \ {e} : run'[f] = run[f]
  BY RunBecomes DEF IInv, Follows, RunTimed
<1>2. LockInv'
  <2>1. LockOK(e, next)
    BY DEF IInv, LockInv, LockOK, Follows
  <2> QED
    BY <1>1, <2>1, LockStays
<1>3. PreviewInv'
  <2>1. \A f \in Executors : /\ run'[f].row = "none" <=> run[f].row = "none"
                             /\ run'[f].row # "none" => run'[f].preview = run[f].preview
    BY <1>1 DEF Follows
  <2>2. PreviewUsedOnce'
    BY <2>1 DEF PreviewUsedOnce, IInv, PreviewInv
  <2> QED
    BY <2>1, <2>2 DEF IInv, PreviewInv
<1>4. ASSUME NEW f \in Executors PROVE ReviewOK(run[f])'
  <2>1. PICK r : r = run'[f]
    OBVIOUS
  <2>2. ReviewOK(r)'
    <3>1. CASE f = e
      BY <1>1, <2>1, <3>1
    <3>2. CASE f # e
      <4>1. ReviewOK(r)
        BY <1>1, <2>1, <3>2, RunFacts
      <4> QED
        BY <4>1, ReviewShrinks
    <3> QED
      BY <3>1, <3>2
  <2> QED
    BY <2>1, <2>2 DEF ReviewOK, ChosenOK, ShownOK
<1> QED
  BY <1>1, <1>2, <1>3, <1>4 DEF IInv, ReviewInv

LEMMA RemoveKeeps ==
  ASSUME IInv, NEW e \in Executors, Remove(e)
  PROVE  IInv'
<1> DEFINE d == Head(run[e].rest)
           rest == Tail(run[e].rest)
<1>1. PICK p, gone, state, next, item :
        /\ p = (IF rest = <<>> THEN "mark" ELSE "remove") /\ gone = run[e].deleted \cup ({d} \cap live)
        /\ item = run[e].item
        /\ state = IF rest = <<>> THEN "deleted" ELSE run[e].items[item]
        /\ next = [run[e] EXCEPT !.rest = rest, !.deleted = gone, !.phase = p, !.items[item] = state]
  OBVIOUS
<1>2. RunOK(run[e]) /\ RunTimed(run[e]) /\ ReviewOK(run[e]) /\ run[e].phase = "remove"
      /\ DOMAIN run = Executors
  BY RunFacts DEF Remove
<1>3. run' = [run EXCEPT ![e] = next]
  <2>1. run' = [run EXCEPT ![e] =
                  [run[e] EXCEPT !.rest = rest, !.deleted = run[e].deleted \cup ({d} \cap live),
                                 !.phase = IF rest = <<>> THEN "mark" ELSE "remove",
                                 !.items[run[e].item] = IF rest = <<>> THEN "deleted"
                                                        ELSE run[e].items[run[e].item]]]
    BY DEF Remove
  <2> QED
    BY <1>1, <2>1
<1>4. /\ live' = live \ {d}
      /\ tagOf' = [t \in Tags |-> IF tagOf[t] = d THEN Nothing ELSE tagOf[t]]
      /\ UNCHANGED <<inventory, policies, preview, lock, clock>>
  BY DEF Remove
<1> HIDE DEF d, rest
<1>5. \A x \in DOMAIN run[e].items :
        [run[e].items EXCEPT ![item] = state][x] \in ItemStates
  BY <1>1, <1>2 DEF RunOK, ItemStates
<1>6. /\ DOMAIN next = RunFields /\ next.phase = p /\ next.preview = run[e].preview
      /\ next.started = run[e].started /\ next.row = run[e].row /\ next.item = run[e].item
      /\ next.chosen = run[e].chosen /\ next.rules = run[e].rules /\ next.moved = run[e].moved
      /\ next.items = [run[e].items EXCEPT ![item] = state] /\ next.unclosed = run[e].unclosed
  BY <1>1, <1>2 DEF RunOK, RunFields
<1>7. RunOK(next) /\ Follows(run[e], next)
  BY <1>1, <1>2, <1>5, <1>6 DEF RunOK, Phases, Holding, Begun, Follows
<1>8. RunTimed(next)
  BY <1>1, <1>2, <1>6 DEF RunTimed, Holding
<1>9. ReviewOK(next)
  BY <1>1, <1>2, <1>6 DEF ReviewOK, Choosing, ChosenOK, ShownOK
<1>10. \A t \in Tags : tagOf'[t] \in {tagOf[t], Nothing}
  BY <1>4
<1>11. ReviewOK(next)'
  BY <1>4, <1>9, <1>10, ReviewShrinks
<1>12. ContentTyped' /\ InventoryTyped'
  BY <1>4 DEF IInv, ContentTyped, InventoryTyped, inventory
<1> QED
  BY <1>3, <1>4, <1>7, <1>8, <1>10, <1>11, <1>12, WorkKeeps

LEMMA RemoveFailsKeeps ==
  ASSUME IInv, NEW e \in Executors, RemoveFails(e)
  PROVE  IInv'
<1>1. PICK next, item : /\ item = run[e].item
                        /\ next = [run[e] EXCEPT !.phase = "mark", !.items[item] = "failed"]
  OBVIOUS
<1>2. RunOK(run[e]) /\ RunTimed(run[e]) /\ ReviewOK(run[e]) /\ run[e].phase = "remove"
      /\ DOMAIN run = Executors
  BY RunFacts DEF RemoveFails
<1>3. run' = [run EXCEPT ![e] = next]
  BY <1>1, <1>2 DEF RemoveFails
<1>4. /\ live' \subseteq live
      /\ tagOf' = [t \in Tags |-> IF tagOf[t] \in live' THEN tagOf[t] ELSE Nothing]
      /\ UNCHANGED <<inventory, policies, preview, lock, clock>>
  BY DEF RemoveFails
<1>5. \A x \in DOMAIN run[e].items :
        [run[e].items EXCEPT ![item] = "failed"][x] \in ItemStates
  BY <1>1, <1>2 DEF RunOK, ItemStates
<1>6. /\ DOMAIN next = RunFields /\ next.phase = "mark" /\ next.preview = run[e].preview
      /\ next.started = run[e].started /\ next.row = run[e].row
      /\ next.chosen = run[e].chosen /\ next.rules = run[e].rules /\ next.moved = run[e].moved
      /\ next.items = [run[e].items EXCEPT ![item] = "failed"] /\ next.unclosed = run[e].unclosed
  BY <1>1, <1>2 DEF RunOK, RunFields
<1>7. RunOK(next) /\ Follows(run[e], next)
  BY <1>2, <1>5, <1>6 DEF RunOK, Phases, Holding, Begun, Follows
<1>8. RunTimed(next)
  BY <1>2, <1>6 DEF RunTimed, Holding
<1>9. ReviewOK(next)
  BY <1>2, <1>6 DEF ReviewOK, Choosing, ChosenOK
<1>10. \A t \in Tags : tagOf'[t] \in {tagOf[t], Nothing}
  BY <1>4
<1>11. ReviewOK(next)'
  BY <1>4, <1>9, <1>10, ReviewShrinks
<1>12. ContentTyped' /\ InventoryTyped'
  BY <1>4 DEF IInv, ContentTyped, InventoryTyped, inventory
<1> QED
  BY <1>3, <1>4, <1>7, <1>8, <1>10, <1>11, <1>12, WorkKeeps

LEMMA MarkKeeps ==
  ASSUME IInv, NEW e \in Executors, Mark(e)
  PROVE  IInv'
<1>1. PICK marked :
        /\ tagRow' = [t \in Tags |-> IF tagRow[t] \in marked THEN Nothing ELSE tagRow[t]]
        /\ row' = [d \in DOMAIN row |-> IF d \in marked THEN [row[d] EXCEPT !.state = "deleted"]
                                        ELSE row[d]]
        /\ run' = [run EXCEPT ![e] =
             [run[e] EXCEPT
                !.phase = "update",
                !.items[run[e].item] = IF marked = run[e].deleted THEN run[e].items[run[e].item]
                                       ELSE "failed",
                !.view = [d \in DOMAIN run[e].view |->
                            IF d \in IF run[e].items[run[e].item] = "failed" THEN run[e].deleted
                                    ELSE marked
                            THEN [run[e].view[d] EXCEPT !.state = "deleted", !.tags = {},
                                                        !.tagged = FALSE]
                            ELSE run[e].view[d]]]]
  BY DEF Mark
<1>0. PICK forgotten :
        forgotten = IF run[e].items[run[e].item] = "failed" THEN run[e].deleted ELSE marked
  OBVIOUS
<1>2. PICK item, state, view, next :
        /\ item = run[e].item
        /\ state = IF marked = run[e].deleted THEN run[e].items[item] ELSE "failed"
        /\ view = [d \in DOMAIN run[e].view |->
                     IF d \in forgotten THEN [run[e].view[d] EXCEPT !.state = "deleted",
                                             !.tags = {}, !.tagged = FALSE]
                     ELSE run[e].view[d]]
        /\ next = [run[e] EXCEPT !.phase = "update", !.items[item] = state, !.view = view]
  OBVIOUS
<1>3. RunOK(run[e]) /\ RunTimed(run[e]) /\ ReviewOK(run[e]) /\ run[e].phase = "mark"
      /\ DOMAIN run = Executors
  BY RunFacts DEF Mark
<1>4. run' = [run EXCEPT ![e] = next]
  BY <1>0, <1>1, <1>2
<1>5. UNCHANGED <<registry, policies, preview, lock, clock>>
  BY DEF Mark
<1>6. \A x \in DOMAIN run[e].items :
        [run[e].items EXCEPT ![item] = state][x] \in ItemStates
  BY <1>2, <1>3 DEF RunOK, ItemStates
<1>7. /\ DOMAIN next = RunFields /\ next.phase = "update" /\ next.preview = run[e].preview
      /\ next.started = run[e].started /\ next.row = run[e].row
      /\ next.chosen = run[e].chosen /\ next.rules = run[e].rules /\ next.moved = run[e].moved
      /\ next.items = [run[e].items EXCEPT ![item] = state] /\ next.unclosed = run[e].unclosed
  BY <1>2, <1>3 DEF RunOK, RunFields
<1>8. RunOK(next) /\ Follows(run[e], next)
  BY <1>3, <1>6, <1>7 DEF RunOK, Phases, Holding, Begun, Follows
<1>9. RunTimed(next)
  BY <1>3, <1>7 DEF RunTimed, Holding
<1>10. ReviewOK(next)
  BY <1>3, <1>7 DEF ReviewOK, Choosing, ChosenOK
<1>11. \A t \in Tags : tagOf'[t] \in {tagOf[t], Nothing}
  BY <1>5 DEF registry
<1>12. ReviewOK(next)'
  BY <1>5, <1>10, <1>11, ReviewShrinks
<1>13. ContentTyped'
  BY <1>5 DEF IInv, ContentTyped, registry
<1>14. InventoryTyped'
  <2>1. \A d \in DOMAIN row : RowOK([row[d] EXCEPT !.state = "deleted"])
    BY DEF IInv, InventoryTyped, RowOK, States
  <2>2. DOMAIN row' = DOMAIN row /\ \A d \in DOMAIN row' : RowOK(row'[d])
    BY <1>1, <2>1 DEF IInv, InventoryTyped
  <2>3. tagRow' \in [Tags -> Digests \cup {Nothing}]
    BY <1>1 DEF IInv, InventoryTyped
  <2> QED
    BY <2>2, <2>3 DEF IInv, InventoryTyped, RowOK
<1> QED
  BY <1>4, <1>5, <1>8, <1>9, <1>11, <1>12, <1>13, <1>14, WorkKeeps

-----------------------------------------------------------------------------
(***************************************************************************)
(* Choosing, pushing, stopping                                             *)
(***************************************************************************)
\* What an evaluation chooses: with its tags, and outside what is protected.
LEMMA Chosen ==
  ASSUME NEW pol, NEW inv, NEW now, NEW chosen \in Evaluations(pol, inv, now)
  PROVE  /\ DOMAIN chosen \subseteq DOMAIN inv
         /\ \A d \in DOMAIN chosen :
              /\ chosen[d] = inv[d].tags
              /\ \A p \in pol : KeepsOut(p) => inv[d].tags \cap p.patterns = {}
<1>1. PICK f \in Rankings(pol, inv) : chosen = [d \in Eligible(pol, inv, now, f) |-> inv[d].tags]
  BY DEF Evaluations
<1>2. \A d \in Eligible(pol, inv, now, f) : d \in DOMAIN inv /\ d \notin Protected(pol, inv)
  BY DEF Eligible
<1> QED
  BY <1>1, <1>2 DEF Protected

LEMMA SweepKeeps ==
  ASSUME IInv, NEW e \in Executors, Sweep(e)
  PROVE  IInv'
<1>1. /\ RunOK(run[e]) /\ RunTimed(run[e]) /\ ReviewOK(run[e]) /\ run[e].phase = "sweep"
      /\ DOMAIN run = Executors
  BY RunFacts DEF Sweep
<1>2. CASE ~(Hold(e, NothingChosen(e)) \/ HoldFailing(e, NothingChosen(e)))
  <2>1. PICK chosen \in Evaluations(policies, View', clock) :
          /\ Reconciled
          /\ run' = [run EXCEPT ![e] = [run[e] EXCEPT !.phase = "items", !.view = View',
                                                       !.chosen = chosen, !.rules = policies,
                                                       !.moved = {}]]
          /\ UNCHANGED <<registry, policies, preview, lock, clock>>
    BY <1>2 DEF Sweep, Hold, HoldFailing
  <2>2. PICK next, view :
          /\ view = View'
          /\ next = [run[e] EXCEPT !.phase = "items", !.view = view, !.chosen = chosen,
                                    !.rules = policies, !.moved = {}]
    OBVIOUS
  <2>3. run' = [run EXCEPT ![e] = next]
    BY <2>1, <2>2
  <2>4. /\ DOMAIN next = RunFields /\ next.phase = "items" /\ next.preview = run[e].preview
        /\ next.started = run[e].started /\ next.row = run[e].row /\ next.items = run[e].items
        /\ next.chosen = chosen /\ next.rules = policies /\ next.moved = {}
        /\ next.unclosed = run[e].unclosed
    BY <1>1, <2>2 DEF RunOK, RunFields
  <2>5. InventoryTyped' /\ ContentTyped'
    BY <2>1, ReconciledOK DEF IInv, ContentTyped, registry
  <2>6. /\ DOMAIN view = DOMAIN row'
        /\ \A d \in DOMAIN view : view[d].tags = {t \in Tags : tagOf[t] = d}
    BY <2>1, <2>2 DEF View, Reconciled
  <2>7. /\ DOMAIN chosen \subseteq DOMAIN view
        /\ \A d \in DOMAIN chosen :
             /\ chosen[d] = view[d].tags
             /\ \A p \in policies : KeepsOut(p) => view[d].tags \cap p.patterns = {}
    BY <2>2, Chosen
  <2>8. ChosenOK(next)
    BY <2>4, <2>5, <2>6, <2>7 DEF ChosenOK, InventoryTyped
  <2>9. tagOf' = tagOf
    BY <2>1 DEF registry
  <2>10. ReviewOK(next)'
    BY <2>4, <2>8, <2>9 DEF ReviewOK, ChosenOK
  <2>11. RunOK(next) /\ Follows(run[e], next)
    BY <1>1, <2>4 DEF RunOK, Phases, Holding, Begun, Follows
  <2>12. RunTimed(next)
    BY <1>1, <2>4 DEF RunTimed, Holding
  <2> QED
    BY <2>1, <2>3, <2>5, <2>9, <2>10, <2>11, <2>12, WorkKeeps
<1>3. CASE Hold(e, NothingChosen(e)) \/ HoldFailing(e, NothingChosen(e))
  <2>1. PICK next : next = NothingChosen(e)
    OBVIOUS
  <2>2. /\ DOMAIN next = RunFields /\ next.phase = "items" /\ next.preview = run[e].preview
        /\ next.started = run[e].started /\ next.row = run[e].row /\ next.items = run[e].items
        /\ DOMAIN next.chosen = {} /\ next.unclosed = run[e].unclosed
    BY <1>1, <2>1 DEF RunOK, RunFields, NothingChosen
  <2>3. RunOK(next) /\ Follows(run[e], next)
    BY <1>1, <2>2 DEF RunOK, Phases, Holding, Begun, Follows
  <2>4. RunTimed(next)
    BY <1>1, <2>2 DEF RunTimed, Holding
  <2>5. ReviewOK(next)
    BY <2>2 DEF ReviewOK, ChosenOK
  <2> QED
    BY <1>3, <2>1, <2>3, <2>4, <2>5, HoldKeeps
<1> QED
  BY <1>2, <1>3

\* A step in which every execution keeps its place, its lock and its preview.
LEMMA InPlaceKeeps ==
  ASSUME IInv, DOMAIN run' = Executors, ContentTyped', InventoryTyped', ReviewInv',
         \A f \in Executors : /\ RunOK(run'[f])
                              /\ run'[f].phase \in {run[f].phase, "stopped"}
                              /\ run'[f].phase = run[f].phase => run'[f].started = run[f].started
                              /\ run'[f].preview = run[f].preview /\ run'[f].row = run[f].row
                              /\ run'[f].unclosed = run[f].unclosed
                              /\ lock.run = f
                                   => run'[f].phase \in Holding \cup {"stopped", "done"},
         UNCHANGED <<policies, preview, lock, clock>>
  PROVE  IInv'
<1>1. ASSUME NEW f \in Executors PROVE RunTimed(run[f])' /\ LockOK(f, run[f])'
  <2>1. RunTimed(run[f]) /\ LockOK(f, run[f])
    BY RunFacts
  <2>2. RunTimed(run[f])'
    BY <2>1 DEF RunTimed, Holding
  <2>3. LockOK(f, run[f])'
    BY <2>1 DEF LockOK, Holding
  <2> QED
    BY <2>2, <2>3
<1>2. RunsTyped'
  BY <1>1 DEF RunsTyped, RunOK
<1>3. LockInv'
  BY <1>1 DEF LockInv, IInv
<1>4. PreviewInv'
  <2>1. PreviewUsedOnce'
    BY DEF PreviewUsedOnce, IInv, PreviewInv
  <2> QED
    BY <2>1 DEF IInv, PreviewInv
<1> QED
  BY <1>2, <1>3, <1>4 DEF IInv

LEMMA PushKeeps ==
  ASSUME IInv, NEW d \in Digests, NEW t \in Tags \cup {Nothing}, Push(d, t)
  PROVE  IInv'
<1>1. /\ live' = live \cup Tree[d]
      /\ tagOf' = (IF t = Nothing THEN tagOf ELSE [tagOf EXCEPT ![t] = d])
      /\ UNCHANGED <<policies, preview, lock, clock>>
  BY DEF Push
<1>2. ASSUME NEW f \in Executors
      PROVE  /\ RunOK(run'[f]) /\ ReviewOK(run[f])'
             /\ run'[f].phase = run[f].phase /\ run'[f].started = run[f].started
             /\ run'[f].preview = run[f].preview /\ run'[f].row = run[f].row
             /\ run'[f].unclosed = run[f].unclosed
  <2>1. RunOK(run[f]) /\ ReviewOK(run[f])
    BY RunFacts
  <2>2. PICK moved, r, next :
          /\ r = run[f] /\ next = [r EXCEPT !.moved = moved]
          /\ moved = IF r.phase \in Working THEN r.moved \cup {t} ELSE r.moved
    OBVIOUS
  <2>3. run'[f] = next
    BY <2>2 DEF Push
  <2>4. /\ DOMAIN next = RunFields /\ next.phase = r.phase /\ next.preview = r.preview
        /\ next.started = r.started /\ next.row = r.row /\ next.items = r.items
        /\ next.chosen = r.chosen /\ next.rules = r.rules /\ next.moved = moved
        /\ next.item = r.item /\ next.unclosed = r.unclosed
    BY <2>1, <2>2 DEF RunOK, RunFields
  <2>5. RunOK(next)
    BY <2>1, <2>2, <2>4 DEF RunOK
  <2>6. r.phase \in Choosing => ChosenOK(next)'
    <3>1. SUFFICES ASSUME r.phase \in Choosing PROVE ChosenOK(next)'
      OBVIOUS
    <3>2. ChosenOK(r) /\ moved = r.moved \cup {t}
      BY <2>1, <2>2, <3>1 DEF ReviewOK, Choosing, Working
    <3>3. \A x \in Tags : x # t => tagOf'[x] = tagOf[x]
      BY <1>1
    <3> QED
      BY <2>4, <3>2, <3>3 DEF ChosenOK
  <2>7. r.phase = "remove" => ShownOK(next)'
    BY <1>1, <2>1, <2>2, <2>4 DEF ReviewOK, ShownOK
  <2>8. ReviewOK(next)'
    BY <2>4, <2>6, <2>7 DEF ReviewOK
  <2>9. ReviewOK(run[f])'
    BY <2>3, <2>8 DEF ReviewOK, ChosenOK, ShownOK
  <2> QED
    BY <2>2, <2>3, <2>4, <2>5, <2>9
<1>3. Tree[d] \in SUBSET Digests
  BY TreesInDigests
<1>4. ContentTyped'
  BY <1>1, <1>3 DEF IInv, ContentTyped
<1>5. InventoryTyped'
  <2>1. CASE UNCHANGED inventory
    BY <2>1 DEF IInv, InventoryTyped, RowOK, inventory
  <2>2. CASE ~UNCHANGED inventory
    <3> DEFINE others == [x \in DOMAIN row |->
                            IF t # Nothing /\ x = tagRow[t]
                            THEN Refreshed(row[x], \E s \in Tags : tagRow'[s] = x) ELSE row[x]]
               rows == Upserted(Tree[d], tagRow', others)
    <3>1. /\ tagRow' = (IF t = Nothing THEN tagRow ELSE [tagRow EXCEPT ![t] = d])
          /\ row' = [rows EXCEPT ![d].at = clock]
      BY <2>2 DEF Push
    <3>2. InventoryTyped
      BY DEF IInv
    <3>3. \A x \in DOMAIN row : RowOK(others[x])
      <4> TAKE x \in DOMAIN row
      <4>1. PICK tagged \in BOOLEAN : tagged = \E s \in Tags : tagRow'[s] = x
        OBVIOUS
      <4>2. RowOK(row[x]) /\ RowOK(Refreshed(row[x], tagged))
        BY <3>2, RefreshedOK DEF InventoryTyped
      <4> QED
        BY <4>1, <4>2
    <3> HIDE DEF others
    <3>4. DOMAIN rows = DOMAIN row \cup Tree[d] /\ \A x \in DOMAIN rows : RowOK(rows[x])
      BY <1>3, <3>2, <3>3, UpsertedOK
    <3> HIDE DEF rows
    <3>5. \A x \in DOMAIN rows : RowOK([rows[x] EXCEPT !.at = clock])
      BY <3>4 DEF RowOK
    <3>6. DOMAIN row' = DOMAIN row \cup Tree[d] /\ \A x \in DOMAIN row' : RowOK(row'[x])
      BY <3>1, <3>4, <3>5
    <3>7. tagRow' \in [Tags -> Digests \cup {Nothing}]
      BY <3>1, <3>2 DEF InventoryTyped
    <3> QED
      BY <1>3, <3>2, <3>6, <3>7 DEF InventoryTyped, RowOK
  <2> QED
    BY <2>1, <2>2
<1>6. ReviewInv'
  BY <1>2 DEF ReviewInv
<1>7. DOMAIN run' = Executors
  BY DEF Push
<1>8. \A f \in Executors : lock.run = f => run'[f].phase \in Holding \cup {"stopped", "done"}
  BY <1>2, RunFacts DEF LockOK
<1> QED
  BY <1>1, <1>2, <1>4, <1>5, <1>6, <1>7, <1>8, InPlaceKeeps

LEMMA StopKeeps ==
  ASSUME IInv, Stop
  PROVE  IInv'
<1>1. UNCHANGED <<registry, inventory, policies, preview, lock, clock>> /\ DOMAIN run' = Executors
  BY DEF Stop
<1>2. ASSUME NEW f \in Executors
      PROVE  /\ RunOK(run'[f]) /\ ReviewOK(run[f])'
             /\ run'[f].phase \in {run[f].phase, "stopped"}
             /\ run'[f].phase = run[f].phase => run'[f].started = run[f].started
             /\ run'[f].preview = run[f].preview /\ run'[f].row = run[f].row
             /\ run'[f].unclosed = run[f].unclosed
             /\ lock.run = f => run'[f].phase \in Holding \cup {"stopped", "done"}
  <2>1. PICK r, next : r = run[f] /\ next = run'[f]
    OBVIOUS
  <2>2. RunOK(r) /\ ReviewOK(r) /\ (lock.run = f => r.phase \in Holding \cup {"stopped", "done"})
    BY <2>1, RunFacts DEF LockOK
  <2>3. CASE r.phase \in {"idle", "done", "stopped"}
    <3>1. next = r
      BY <2>1, <2>3 DEF Stop
    <3>2. ReviewOK(r)'
      BY <2>3 DEF ReviewOK, Choosing
    <3>3. ReviewOK(run[f])'
      BY <2>1, <3>1, <3>2 DEF ReviewOK, ChosenOK, ShownOK
    <3> QED
      BY <2>1, <2>2, <2>3, <3>1, <3>3
  <2>4. CASE r.phase \notin {"idle", "done", "stopped"}
    <3>1. next = Ended(r, "stopped")
      BY <2>1, <2>4 DEF Stop
    <3>2. /\ RunOK(next) /\ next.phase = "stopped" /\ next.row = r.row
          /\ next.preview = r.preview /\ next.unclosed = r.unclosed
      BY <2>2, <3>1, EndedRun
    <3>3. ReviewOK(run[f])'
      BY <2>1, <3>2 DEF ReviewOK, Choosing
    <3> QED
      BY <2>1, <2>4, <3>2, <3>3
  <2> QED
    BY <2>3, <2>4
<1>3. ContentTyped' /\ InventoryTyped' /\ ReviewInv'
  BY <1>1, <1>2 DEF IInv, ContentTyped, InventoryTyped, RowOK, ReviewInv, registry, inventory
<1> QED
  BY <1>1, <1>2, <1>3, InPlaceKeeps

-----------------------------------------------------------------------------
(***************************************************************************)
(* The invariant holds                                                     *)
(***************************************************************************)
LEMMA Initially == Init => IInv
<1> SUFFICES ASSUME Init PROVE IInv
  OBVIOUS
<1>1. /\ live = DOMAIN InitialRows /\ tagOf = InitialTags /\ row = InitialRows
      /\ tagRow = InitialTags /\ policies \in PolicySets /\ lock = NoLock /\ clock = 0
      /\ preview = [p \in Previews |-> NoPreview] /\ run = [e \in Executors |-> NoRun]
  BY DEF Init
<1>2. ContentTyped
  BY <1>1, RetentionAssumption DEF ContentTyped
<1>3. InventoryTyped
  <2>1. ASSUME NEW d \in DOMAIN InitialRows PROVE RowOK(InitialRows[d])
    BY RetentionAssumption DEF RowOK
  <2> QED
    BY <1>1, <2>1, RetentionAssumption DEF InventoryTyped
<1>4. RunsTyped
  BY <1>1, NoRunOK DEF RunsTyped, RunTimed, Holding
<1>5. LockInv
  BY <1>1, NoRunOK, RetentionAssumption DEF LockInv, LockOK, NoLock, Holding
<1>6. PreviewInv
  BY <1>1, NoRunOK DEF PreviewInv, PreviewUsedOnce, PreviewStates, NoPreview
<1>7. ReviewInv
  BY <1>1, NoRunOK DEF ReviewInv, ReviewOK, Choosing
<1> QED
  BY <1>1, <1>2, <1>3, <1>4, <1>5, <1>6, <1>7 DEF IInv

LEMMA ExecuteKeeps ==
  ASSUME IInv, NEW e \in Executors, Execute(e)
  PROVE  IInv'
<1>1. CASE \E p \in Previews : RequestRun(e, p)
  BY <1>1, RequestRunKeeps
<1>2. CASE Expire(e) \/ Acquire(e) \/ BeginRun(e) \/ RecordStart(e) \/ Sweep(e)
  BY <1>2, ExpireKeeps, AcquireKeeps, BeginRunKeeps, RecordStartKeeps, SweepKeeps
<1>3. CASE \E d \in DOMAIN run[e].items : Check(e, d)
  BY <1>3, CheckKeeps
<1>4. CASE Remove(e) \/ RemoveFails(e) \/ Mark(e) \/ Update(e)
  BY <1>4, RemoveKeeps, RemoveFailsKeeps, MarkKeeps, UpdateKeeps
<1>5. CASE Complete(e) \/ CompleteFails(e) \/ Consume(e) \/ Release(e) \/ Leave(e)
  BY <1>5, CompleteKeeps, CompleteFailsKeeps, ConsumeKeeps, ReleaseKeeps, LeaveKeeps
<1> QED
  BY <1>1, <1>2, <1>3, <1>4, <1>5 DEF Execute

LEMMA NextKeeps == IInv /\ [Next]_vars => IInv'
<1> SUFFICES ASSUME IInv, [Next]_vars PROVE IInv'
  OBVIOUS
<1>1. ASSUME NEW push \in Pushable, Push(push[1], push[2]) PROVE IInv'
  <2>1. push[1] \in Digests /\ push[2] \in Tags \cup {Nothing}
    BY RetentionAssumption
  <2> QED
    BY <1>1, <2>1, PushKeeps
<1>2. CASE ReplacePolicies
  BY <1>2, ReplacePoliciesKeeps
<1>3. CASE Tick
  BY <1>3, TickKeeps
<1>4. CASE \E p \in Previews : RequestPreview(p)
  BY <1>4, RequestPreviewKeeps
<1>5. CASE ReconcileInventory
  BY <1>5, ReconcileInventoryKeeps
<1>6. CASE \E e \in Executors : Execute(e)
  BY <1>6, ExecuteKeeps
<1>7. CASE Stop
  BY <1>7, StopKeeps
<1>8. CASE UNCHANGED vars
  <2>1. UNCHANGED <<registry, inventory, policies, preview, lock, run, clock>>
    BY <1>8 DEF vars
  <2>2. InventoryTyped' /\ PreviewInv'
    BY <2>1 DEF IInv, InventoryTyped, RowOK, PreviewInv, PreviewUsedOnce, inventory
  <2> QED
    BY <2>1, <2>2, TablesKeep DEF IInv
<1> QED
  BY <1>1, <1>2, <1>3, <1>4, <1>5, <1>6, <1>7, <1>8 DEF Next

THEOREM Invariance == Spec => []IInv
BY Initially, NextKeeps, PTL DEF Spec

-----------------------------------------------------------------------------
(***************************************************************************)
(* What follows                                                            *)
(***************************************************************************)
\* Rows, tags, previews, the lock and the executions of lifecycle_service.go
\* are what the code takes them to be: an execution that holds the lock has a
\* preview, a manifest that is active is not untagged since some time.
THEOREM TypeCorrect == Spec => []TypeOK
<1>1. IInv => TypeOK
  <2> SUFFICES ASSUME IInv PROVE TypeOK
    OBVIOUS
  <2>1. /\ live \subseteq Digests /\ tagOf \in [Tags -> Digests \cup {Nothing}]
        /\ tagRow \in [Tags -> Digests \cup {Nothing}] /\ DOMAIN row \subseteq Digests
        /\ \A d \in DOMAIN row :
             row[d].state \in States /\ (row[d].state = "active" => row[d].since = Never)
        /\ policies \in PolicySets /\ lock.run \in Executors \cup {Nothing}
    BY DEF IInv, ContentTyped, InventoryTyped, RowOK, LockInv
  <2>2. \A p \in Previews :
          preview[p].status \in {"none", "ready", "expired", "executing", "executed"}
    BY DEF IInv, PreviewInv, PreviewStates
  <2>3. ASSUME NEW e \in Executors
        PROVE  /\ run[e].phase \in {"idle", "expire", "acquire", "done", "stopped"} \cup Holding
               /\ run[e].row \in {"none", "running", "failed", "completed", "partially_completed"}
               /\ \A d \in DOMAIN run[e].items :
                    run[e].items[d] \in {"waiting", "skipped", "deleted", "failed"}
               /\ run[e].phase \in Holding => run[e].preview \in Previews
    BY RunFacts DEF RunOK, Phases, RowStates, ItemStates
  <2> QED
    BY <2>1, <2>2, <2>3 DEF TypeOK
<1> QED
  BY <1>1, Invariance, PTL

\* Two executions delete in one repository only once one of them has been at
\* it for longer than the lock row is good for and has lost the lock:
\* AcquireLifecycleLock and ReleaseLifecycleLock of bun/lifecycle.go.
THEOREM ExecutionsExclude == Spec => []ExecutorsExclude
<1>1. IInv => ExecutorsExclude
  <2> SUFFICES ASSUME IInv, NEW e \in Executors, NEW f \in Executors, e # f,
                      run[e].phase \in Working, run[f].phase \in Working
               PROVE  \E x \in {e, f} : lock.run # x /\ clock > run[x].started + LockTTL
    BY DEF ExecutorsExclude
  <2>1. PICK x \in {e, f} : lock.run # x
    OBVIOUS
  <2>2. LockOK(x, run[x]) /\ run[x].phase \in Holding
    BY RunFacts DEF Working, Holding
  <2> QED
    BY <2>1, <2>2 DEF LockOK
<1> QED
  BY <1>1, Invariance, PTL

\* CreateLifecycleRunFromPreview makes at most one run of a preview, whatever
\* stopped, failed or was taken over before.
THEOREM PreviewsUsedOnce == Spec => []PreviewUsedOnce
<1>1. IInv => PreviewUsedOnce
  BY DEF IInv, PreviewInv
<1> QED
  BY <1>1, Invariance, PTL

\* A run row that says running has the lock row, in every phase and whoever
\* stopped, lost the lock or left, so that the execution that takes the lock
\* over closes it; the exception is a run whose CompleteLifecycleRun failed.
THEOREM RunningRunsHaveLock == Spec => []RunningHasLock
<1>1. IInv => RunningHasLock
  BY RunFacts DEF RunningHasLock, LockOK
<1> QED
  BY <1>1, Invariance, PTL

\* Only Remove and RemoveFails take a manifest out of Distribution, and that
\* one only.
LEMMA WhatGoes ==
  ASSUME IInv, [Next]_vars, NEW d \in live, d \notin live'
  PROVE  \E e \in Executors : /\ run[e].phase = "remove" /\ MayRemove(e)
                              /\ d = Head(run[e].rest)
<1>1. ASSUME NEW e \in Executors, Execute(e), ~Remove(e), ~RemoveFails(e)
      PROVE  UNCHANGED live
  BY <1>1 DEF Execute, RequestRun, Open, Expire, Acquire, TakeLock, BeginRun, InsertRun,
              RecordStart, Sweep, Check, Mark, Update, Complete, CompleteFails, Consume, Release,
              Leave, Hold, HoldFailing, registry
<1>2. ASSUME NEW push \in Pushable, Push(push[1], push[2]) PROVE live \subseteq live'
  BY <1>2 DEF Push
<1>3. CASE ReplacePolicies \/ Tick \/ (\E p \in Previews : RequestPreview(p)) \/ ReconcileInventory
           \/ Stop \/ UNCHANGED vars
  BY <1>3 DEF ReplacePolicies, Tick, RequestPreview, ReconcileInventory, Stop, vars, registry
<1>4. ASSUME NEW e \in Executors, Remove(e) \/ RemoveFails(e)
      PROVE  run[e].phase = "remove" /\ MayRemove(e) /\ d = Head(run[e].rest)
  BY <1>4 DEF Remove, RemoveFails
<1> QED
  BY <1>1, <1>2, <1>3, <1>4 DEF Next

\* deleteManifestTree, for retention: what goes is an item of the preview with
\* the tags that were shown, none of them kept out by the policies read, or a
\* child that no tag points at; tags pushed since the read are excepted.
THEOREM OnlyReviewed == Spec => OnlyReviewedRemoved
<1>1. IInv /\ [Next]_vars =>
        [\A d \in live \ live' :
           \E e \in Executors :
             LET shown == preview[run[e].preview].items
                 tags == {t \in Tags : tagOf[t] = d}
             IN /\ run[e].phase = "remove"
                /\ IF d # run[e].item THEN tags = {}
                   ELSE \A t \in tags \ run[e].moved :
                          /\ t \in shown[d]
                          /\ \A p \in run[e].rules : KeepsOut(p) => t \notin p.patterns]_vars
  <2> SUFFICES ASSUME IInv, [Next]_vars, NEW d \in live \ live'
               PROVE  \E e \in Executors :
                        /\ run[e].phase = "remove"
                        /\ IF d # run[e].item THEN {t \in Tags : tagOf[t] = d} = {}
                           ELSE \A t \in {s \in Tags : tagOf[s] = d} \ run[e].moved :
                                  /\ t \in preview[run[e].preview].items[d]
                                  /\ \A p \in run[e].rules : KeepsOut(p) => t \notin p.patterns
    OBVIOUS
  <2>1. PICK e \in Executors : run[e].phase = "remove" /\ MayRemove(e) /\ d = Head(run[e].rest)
    BY WhatGoes
  <2>2. ChosenOK(run[e]) /\ ShownOK(run[e])
    BY <2>1, RunFacts DEF ReviewOK, Choosing
  <2>3. CASE d # run[e].item
    <3>1. StillUnneeded(run[e].view, {tagOf[t] : t \in Tags} \ {Nothing}, run[e].item, {d})
      BY <2>1, <2>3 DEF MayRemove
    <3>2. d \notin {tagOf[t] : t \in Tags} \ {Nothing}
      BY <3>1 DEF StillUnneeded
    <3>3. d # Nothing
      BY ContentAssumption DEF IInv, ContentTyped
    <3> QED
      BY <2>1, <2>3, <3>2, <3>3
  <2>4. CASE d = run[e].item
    <3>1. \A t \in Tags : tagOf[t] = d /\ t \notin run[e].moved
            => /\ t \in run[e].chosen[d]
               /\ run[e].chosen[d] = preview[run[e].preview].items[d]
               /\ \A p \in run[e].rules : KeepsOut(p) => t \notin p.patterns
      BY <2>2, <2>4 DEF ChosenOK, ShownOK
    <3> QED
      BY <2>1, <2>4, <3>1
  <2> QED
    BY <2>3, <2>4
<1> QED
  BY <1>1, Invariance, PTL DEF Spec, OnlyReviewedRemoved
================================================================================
