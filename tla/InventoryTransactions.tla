------------------------ MODULE InventoryTransactions ------------------------
(***************************************************************************)
(* The transactions on the inventory tables of one repository, statement   *)
(* by statement: upsertManifestObservationTx, refreshManifestState,        *)
(* completeInventoryReconciliationTx and MarkManifestDeleted of            *)
(* infrastructure/persistence/bun/lifecycle.go.  ArtifactDeletion takes    *)
(* each as one step.                                                       *)
(*                                                                         *)
(* RunInTx(ctx, nil) is READ COMMITTED on PostgreSQL: a statement sees     *)
(* what is committed and what its own transaction wrote, waits for a row   *)
(* that another one has written, and looks at its conditions again.  What  *)
(* a transaction has not committed is in its record, as locks.  SQLite has *)
(* one writer: a transaction begins when no other is open.                 *)
(*                                                                         *)
(* The manifests have no referrers here.                                   *)
(***************************************************************************)
EXTENDS RegistryContent

CONSTANTS InitialTags, \* where the tags point at first, or Nothing
          Handlers,    \* handlers with one transaction each
          MaxStarts    \* bound on them

ASSUME TransactionsAssumption ==
  /\ InitialTags \in [Tags -> Digests \cup {Nothing}]
  /\ MaxStarts \in Nat

VARIABLES kind,     \* of the database
          row,      \* registry_manifests: state and whether deleted_at is set
          tagRow,   \* registry_tags: manifest_id and whether detached_at is NULL
          tx,       \* per handler: what it has read, its transaction and its locals
          starts

tables == <<row, tagRow>>
vars == <<registry, kind, tables, tx, starts>>

NoRow == [state |-> "none", deleted |-> FALSE]
NoTag == [digest |-> Nothing, attached |-> FALSE]
NoObservation == [digest |-> Nothing, tag |-> Nothing]
Idle == [op |-> "none", phase |-> "idle",
         found |-> [t \in Tags |-> Nothing], seen |-> {},  \* what it has read of Distribution
         work |-> {}, now |-> NoObservation,  \* observations to upsert, and the one under way
         target |-> Nothing, tagged |-> FALSE,  \* what it refreshes, and what Exists said
         detach |-> <<>>,   \* tag rows to detach, with the manifest_id selected
         affected |-> {}, unseen |-> {},
         rows |-> <<>>, tags |-> <<>>,  \* what it wrote
         alone |-> TRUE]    \* was no other transaction open beside it?

Open(x) == tx[x].phase \notin {"idle", "ready"}

TypeOK ==
  /\ kind \in {"sqlite", "postgres"}
  /\ row \in [Digests -> [state : States \cup {"none"}, deleted : BOOLEAN]]
  /\ tagRow \in [Tags -> [digest : Digests \cup {Nothing}, attached : BOOLEAN]]
  /\ \A x \in Handlers :
       /\ DOMAIN tx[x].rows \subseteq Digests /\ DOMAIN tx[x].tags \subseteq Tags
       /\ \A y \in Handlers \ {x} : /\ DOMAIN tx[x].rows \cap DOMAIN tx[y].rows = {}
                                    /\ DOMAIN tx[x].tags \cap DOMAIN tx[y].tags = {}
  /\ starts \in 0 .. MaxStarts

\* A repository whose pushes so far were all observed.
Init ==
  /\ kind \in {"sqlite", "postgres"}
  /\ tagOf = InitialTags
  /\ live = UNION {Tree[tagOf[t]] : t \in {n \in Tags : tagOf[n] # Nothing}}
  /\ row = [d \in Digests |->
              IF d \notin live THEN NoRow
              ELSE [state |-> IF \E t \in Tags : tagOf[t] = d THEN "active" ELSE "untagged",
                    deleted |-> FALSE]]
  /\ tagRow = [t \in Tags |-> [digest |-> tagOf[t], attached |-> tagOf[t] # Nothing]]
  /\ tx = [x \in Handlers |-> Idle] /\ starts = 0

-----------------------------------------------------------------------------
(***************************************************************************)
(* Handlers                                                                *)
(***************************************************************************)
Start(x, handler) ==
  /\ tx[x] = Idle /\ starts < MaxStarts /\ starts' = starts + 1
  /\ tx' = [tx EXCEPT ![x] = handler]
  /\ UNCHANGED <<kind, tables>>

\* The observations of what was read: a tag's manifest with its tag, and
\* everything else without one.
Observations(found, seen) ==
  LET tagged == {t \in Tags : found[t] # Nothing}
  IN {[digest |-> found[t], tag |-> t] : t \in tagged}
     \cup {[digest |-> d, tag |-> Nothing] : d \in seen \ {found[t] : t \in tagged}}

Handler(op, found, seen) ==
  [Idle EXCEPT !.op = op, !.phase = "ready", !.found = found, !.seen = seen,
               !.work = Observations(found, seen)]

\* A client pushes, and ObservePush reads the tree.
Push(x, d, t) ==
  /\ Tree[d] \ {d} \subseteq live
  /\ live' = live \cup {d}
  /\ tagOf' = IF t = Nothing THEN tagOf ELSE [tagOf EXCEPT ![t] = d]
  /\ Start(x, Handler("observe", [n \in Tags |-> IF n = t THEN d ELSE Nothing], Tree[d]))

\* Reconcile reads the tags and their trees, then the other rows it knows;
\* missing ones not more than once an hour.
ReadRegistry(x) ==
  LET tagged == UNION {Tree[tagOf[t]] : t \in {n \in Tags : tagOf[n] # Nothing}}
      known(states) == {d \in live : row[d].state \in states}
  IN /\ \A t \in Tags : tagOf[t] # Nothing => Fetchable(tagOf[t])
     /\ \E probed \in SUBSET known({"missing"}) :
          LET seen == tagged \cup UNION {Tree[d] : d \in known({"active", "untagged"}) \cup probed}
          IN seen \subseteq live /\ Start(x, Handler("reconcile", tagOf, seen))
     /\ UNCHANGED registry

\* A deletion removed a manifest it knows from Distribution, its tags with it.
RemoveManifest(x, d) ==
  /\ d \in live /\ row[d].state # "none"
  /\ live' = live \ {d}
  /\ tagOf' = [t \in Tags |-> IF tagOf[t] = d THEN Nothing ELSE tagOf[t]]
  /\ Start(x, [Idle EXCEPT !.op = "mark", !.phase = "ready", !.target = d])

\* The transaction begins.
Begin(x) ==
  LET others == {y \in Handlers \ {x} : Open(y)}
      begun == [tx[x] EXCEPT !.phase = IF tx[x].op = "mark" THEN "mark" ELSE "work",
                             !.alone = others = {}]
  IN /\ tx[x].phase = "ready"
     /\ kind = "sqlite" => others = {}
     /\ tx' = [y \in Handlers |-> IF y = x THEN begun
                                  ELSE IF y \in others THEN [tx[y] EXCEPT !.alone = FALSE]
                                  ELSE tx[y]]
     /\ UNCHANGED <<registry, kind, tables, starts>>

\* A call fails, the client is gone, the process stops, or PostgreSQL breaks
\* a deadlock: nothing is written.
RollBack(x) ==
  /\ tx[x] # Idle
  /\ tx' = [tx EXCEPT ![x] = Idle]
  /\ UNCHANGED <<registry, kind, tables, starts>>

-----------------------------------------------------------------------------
(***************************************************************************)
(* Statements                                                              *)
(***************************************************************************)
\* Tables with the rows a transaction wrote.
Over(table, wrote) == [k \in DOMAIN table |-> IF k \in DOMAIN wrote THEN wrote[k] ELSE table[k]]

RowFor(x, d) == Over(row, tx[x].rows)[d]
TagFor(x, t) == Over(tagRow, tx[x].tags)[t]

TaggedFor(x, d) == \E t \in Tags : TagFor(x, t).attached /\ TagFor(x, t).digest = d

RowFree(x, d) == \A y \in Handlers \ {x} : d \notin DOMAIN tx[y].rows
TagFree(x, t) == \A y \in Handlers \ {x} : t \notin DOMAIN tx[y].tags

\* A row among those a transaction wrote.
With(wrote, k, r) == [i \in DOMAIN wrote \cup {k} |-> IF i = k THEN r ELSE wrote[i]]

\* The transaction of x goes on as next.
Goes(x, next) ==
  /\ tx' = [tx EXCEPT ![x] = next]
  /\ UNCHANGED <<registry, kind, tables, starts>>

Wrote(x, d, r) == [tx[x] EXCEPT !.rows = With(@, d, r)]
WroteTag(x, t, r) == [tx[x] EXCEPT !.tags = With(@, t, r)]

\* Fault: an update leaves deleted_at as well.
InsertKeepsDeleted(x) ==
  /\ tx[x].phase = "work"
  /\ \E o \in tx[x].work :
       LET old == RowFor(x, o.digest)
           new == IF old.state = "none" THEN [old EXCEPT !.state = "untagged"] ELSE old
       IN /\ RowFree(x, o.digest)
          /\ Goes(x, [Wrote(x, o.digest, new) EXCEPT
                        !.work = @ \ {o}, !.now = o, !.target = o.digest,
                        !.phase = IF o.tag = Nothing THEN "exists" ELSE "old"])

\* INSERT INTO registry_manifests ... ON CONFLICT DO UPDATE, which leaves the
\* state of a row that exists.
InsertManifest(x) ==
  /\ tx[x].phase = "work"
  /\ \E o \in tx[x].work :
       LET old == RowFor(x, o.digest)
           state == IF old.state = "none" THEN "untagged" ELSE old.state
       IN /\ RowFree(x, o.digest)
          /\ Goes(x, [Wrote(x, o.digest, [state |-> state, deleted |-> FALSE]) EXCEPT
                        !.work = @ \ {o}, !.now = o, !.target = o.digest,
                        !.phase = IF o.tag = Nothing THEN "exists" ELSE "old"])

\* The manifest the tag row leaves, if it is another one ...
SelectOldManifest(x) ==
  LET old == TagFor(x, tx[x].now.tag).digest
  IN /\ tx[x].phase = "old"
     /\ Goes(x, [tx[x] EXCEPT !.phase = "tag",
                              !.target = IF old = tx[x].now.digest THEN Nothing ELSE old])

\* Fault: the manifest the tag row left keeps its state.
UpsertTagOnly(x) ==
  LET o == tx[x].now
  IN /\ tx[x].phase = "tag" /\ TagFree(x, o.tag)
     /\ Goes(x, [WroteTag(x, o.tag, [digest |-> o.digest, attached |-> TRUE]) EXCEPT
                   !.phase = "active"])

\* ... the tag row moves ...
UpsertTag(x) ==
  LET o == tx[x].now
  IN /\ tx[x].phase = "tag" /\ TagFree(x, o.tag)
     /\ Goes(x, [WroteTag(x, o.tag, [digest |-> o.digest, attached |-> TRUE]) EXCEPT
                   !.phase = IF tx[x].target = Nothing THEN "active" ELSE "exists"])

\* ... and its manifest is active, in the end.
SetActive(x) ==
  LET d == tx[x].now.digest
  IN /\ tx[x].phase = "active" /\ RowFree(x, d)
     /\ Goes(x, [Wrote(x, d, [RowFor(x, d) EXCEPT !.state = "active"]) EXCEPT
                   !.phase = "work", !.now = NoObservation, !.target = Nothing])

\* refreshManifestState asks whether an attached tag row points there ...
Exists(x) ==
  /\ tx[x].phase = "exists"
  /\ Goes(x, [tx[x] EXCEPT !.phase = "refresh", !.tagged = TaggedFor(x, tx[x].target)])

\* ... and goes on with what follows the refresh.
Refreshed(x, handler) ==
  Goes(x, [handler EXCEPT !.phase = IF tx[x].now.tag # Nothing THEN "active"
                                    ELSE IF tx[x].now # NoObservation THEN "work"
                                    ELSE "detach",
                          !.now = IF @.tag # Nothing THEN @ ELSE NoObservation,
                          !.tagged = FALSE, !.target = Nothing])

\* It sets the state, unless there is no tag and deleted_at is set.
Refresh(x) ==
  LET d == tx[x].target
      r == RowFor(x, d)
      skips == ~tx[x].tagged /\ r.deleted
  IN /\ tx[x].phase = "refresh"
     /\ skips \/ RowFree(x, d)
     /\ Refreshed(x, IF skips THEN tx[x]
                     ELSE Wrote(x, d, [r EXCEPT !.state = IF tx[x].tagged THEN "active"
                                                          ELSE "untagged"]))

-----------------------------------------------------------------------------
(***************************************************************************)
(* Completing a reconciliation                                             *)
(***************************************************************************)
\* The attached tag rows it has not seen ...
SelectTags(x) ==
  LET unseen == {t \in Tags : TagFor(x, t).attached /\ tx[x].found[t] = Nothing}
  IN /\ tx[x].op = "reconcile" /\ tx[x].phase = "work" /\ tx[x].work = {}
     /\ Goes(x, [tx[x] EXCEPT !.phase = "detach",
                              !.now = NoObservation,
                              !.detach = [t \in unseen |-> TagFor(x, t).digest],
                              !.affected = {TagFor(x, t).digest : t \in unseen}])

\* ... are written back detached, with the manifest_id they had ...
DetachTag(x) ==
  LET rest == tx[x].detach
  IN /\ tx[x].phase = "detach"
     /\ \E t \in DOMAIN rest :
          /\ TagFree(x, t)
          /\ Goes(x, [WroteTag(x, t, [digest |-> rest[t], attached |-> FALSE]) EXCEPT
                        !.detach = [n \in DOMAIN rest \ {t} |-> rest[n]]])

\* ... the manifests they left are refreshed ...
RefreshAffected(x) ==
  /\ tx[x].phase = "detach" /\ DOMAIN tx[x].detach = {}
  /\ \E d \in tx[x].affected :
       Goes(x, [tx[x] EXCEPT !.phase = "exists", !.affected = @ \ {d}, !.target = d])

\* Fault: the history is selected too.
SelectAllManifests(x) ==
  /\ tx[x].phase = "detach" /\ DOMAIN tx[x].detach = {} /\ tx[x].affected = {}
  /\ Goes(x, [tx[x] EXCEPT !.phase = "unseen",
                           !.unseen = {d \in Digests \ tx[x].seen : RowFor(x, d).state # "none"}])

\* ... and of the rows whose deleted_at is NULL those not seen ...
SelectManifests(x) ==
  /\ tx[x].phase = "detach" /\ DOMAIN tx[x].detach = {} /\ tx[x].affected = {}
  /\ Goes(x, [tx[x] EXCEPT !.phase = "unseen",
                           !.unseen = {d \in Digests \ tx[x].seen :
                                         /\ RowFor(x, d).state # "none"
                                         /\ ~RowFor(x, d).deleted}])

\* ... are written back missing, with the deleted_at they had.
MarkMissing(x) ==
  /\ tx[x].phase = "unseen"
  /\ \E d \in tx[x].unseen :
       /\ RowFree(x, d)
       /\ Goes(x, [Wrote(x, d, [state |-> "missing", deleted |-> FALSE]) EXCEPT
                     !.unseen = @ \ {d}])

-----------------------------------------------------------------------------
(***************************************************************************)
(* MarkManifestDeleted                                                     *)
(***************************************************************************)
\* The update of registry_tags starts with the rows that match now, one after
\* the other, ...
MatchTags(x) ==
  LET d == tx[x].target
      matching == {t \in Tags : TagFor(x, t).attached /\ TagFor(x, t).digest = d}
  IN /\ tx[x].phase = "mark"
     /\ Goes(x, [tx[x] EXCEPT !.phase = "marking", !.detach = [t \in matching |-> d]])

\* ... and leaves out one that another transaction has moved meanwhile.
DetachMarked(x) ==
  LET rest == tx[x].detach
  IN /\ tx[x].phase = "marking"
     /\ \E t \in DOMAIN rest :
          LET r == TagFor(x, t)
              handler == IF r.attached /\ r.digest = tx[x].target
                         THEN WroteTag(x, t, [r EXCEPT !.attached = FALSE]) ELSE tx[x]
          IN /\ TagFree(x, t)
             /\ Goes(x, [handler EXCEPT !.detach = [n \in DOMAIN rest \ {t} |-> rest[n]]])

MarkDeleted(x) ==
  LET d == tx[x].target
  IN /\ tx[x].phase = "marking" /\ DOMAIN tx[x].detach = {} /\ RowFree(x, d)
     /\ Goes(x, [Wrote(x, d, [state |-> "deleted", deleted |-> TRUE]) EXCEPT !.phase = "marked"])

-----------------------------------------------------------------------------
\* The last statement of each transaction is done.
Done(x) ==
  \/ tx[x].op = "observe" /\ tx[x].phase = "work" /\ tx[x].work = {}
  \/ tx[x].phase = "unseen" /\ tx[x].unseen = {}
  \/ tx[x].phase = "marked"

Commit(x) ==
  /\ Done(x)
  /\ row' = Over(row, tx[x].rows)
  /\ tagRow' = Over(tagRow, tx[x].tags)
  /\ tx' = [tx EXCEPT ![x] = Idle]
  /\ UNCHANGED <<registry, kind, starts>>

Statement(x) ==
  \/ InsertManifest(x) \/ SelectOldManifest(x) \/ UpsertTag(x) \/ SetActive(x)
  \/ Exists(x) \/ Refresh(x)
  \/ SelectTags(x) \/ DetachTag(x) \/ RefreshAffected(x)
  \/ SelectManifests(x) \/ MarkMissing(x)
  \/ MatchTags(x) \/ DetachMarked(x) \/ MarkDeleted(x)

Next ==
  \E x \in Handlers :
    \/ \E d \in Digests : RemoveManifest(x, d) \/ \E t \in Tags \cup {Nothing} : Push(x, d, t)
    \/ ReadRegistry(x) \/ Begin(x) \/ Statement(x) \/ Commit(x) \/ RollBack(x)

Spec == Init /\ [][Next]_vars

-----------------------------------------------------------------------------
(***************************************************************************)
(* What the transactions do to the tables                                  *)
(***************************************************************************)
Tagged(d) == \E t \in Tags : tagRow[t].attached /\ tagRow[t].digest = d

\* A row that was seen.
SeenRow(tagged) == [state |-> IF tagged THEN "active" ELSE "untagged", deleted |-> FALSE]

\* An observation as one step: its tag row moves, the rows of its tree follow
\* from the tag rows, and so does that of the manifest the tag row left.
ObservedAtOnce(x) ==
  LET left == {tagRow[t].digest : t \in {n \in Tags : tx[x].found[n] # Nothing}}
      refreshed(d) == IF Tagged(d)' THEN [row[d] EXCEPT !.state = "active"]
                      ELSE IF row[d].deleted THEN row[d]
                      ELSE [row[d] EXCEPT !.state = "untagged"]
  IN /\ tagRow' = [t \in Tags |-> IF tx[x].found[t] = Nothing THEN tagRow[t]
                                  ELSE [digest |-> tx[x].found[t], attached |-> TRUE]]
     /\ row' = [d \in Digests |-> IF d \in tx[x].seen THEN SeenRow(Tagged(d)')
                                  ELSE IF d \in left THEN refreshed(d) ELSE row[d]]

\* A reconciliation as one step: the tag rows are the tags it found, and a row
\* it has not seen is missing or stays what a deletion made of it.
ReconciledAtOnce(x) ==
  /\ tagRow' = [t \in Tags |-> IF tx[x].found[t] = Nothing
                               THEN [tagRow[t] EXCEPT !.attached = FALSE]
                               ELSE [digest |-> tx[x].found[t], attached |-> TRUE]]
  /\ \A d \in Digests :
       IF d \in tx[x].seen THEN row'[d] = SeenRow(Tagged(d)')
       ELSE IF row[d].deleted THEN row'[d].deleted /\ (Tagged(d) \/ row'[d] = row[d])
       ELSE row'[d] = IF row[d] = NoRow THEN NoRow ELSE [state |-> "missing", deleted |-> FALSE]

\* A mark as one step: no attached tag row points at the manifest any more.
MarkedAtOnce(x) ==
  LET d == tx[x].target
  IN /\ tagRow' = [t \in Tags |-> IF tagRow[t].digest = d
                                  THEN [tagRow[t] EXCEPT !.attached = FALSE] ELSE tagRow[t]]
     /\ row' = [row EXCEPT ![d] = [state |-> "deleted", deleted |-> TRUE]]

\* A transaction that no other overlaps does what it would do in one step, on
\* whatever others left before it: so does each one on SQLite, and a
\* reconciliation on PostgreSQL repairs what overlapping ones left.
AloneIsOneStep ==
  [][\A x \in Handlers :
       Commit(x) /\ tx[x].alone =>
         \/ tx[x].op = "observe" /\ ObservedAtOnce(x)
         \/ tx[x].op = "reconcile" /\ ReconciledAtOnce(x)
         \/ tx[x].op = "mark" /\ MarkedAtOnce(x)]_vars

\* Rows that other transactions still hold are never committed over, an attached
\* tag row points at a row, and history is marked as such.  On SQLite the tables
\* agree after every transaction: a manifest is active exactly when an attached
\* tag row points at it, and deleted_at is set exactly when it is deleted.
SerialTablesAgree ==
  /\ TypeOK
  /\ \A t \in Tags : tagRow[t].attached => row[tagRow[t].digest].state # "none"
  /\ \A d \in Digests : row[d].state = "deleted" => row[d].deleted
  /\ kind = "sqlite" =>
       \A d \in Digests : /\ row[d].state = "active" <=> Tagged(d)
                          /\ row[d].deleted <=> row[d].state = "deleted"

\* What an observation or a reconciliation saw is so in the tables when it
\* commits, whatever other transactions overlap it: its tag rows are attached
\* to its active manifests, and none of its manifests is history.
RecordsWhatItSaw ==
  [][\A x \in Handlers :
       Commit(x) =>
         /\ \A d \in tx[x].seen : row'[d].state \in {"active", "untagged"} /\ ~row'[d].deleted
         /\ \A t \in Tags : tx[x].found[t] # Nothing =>
              /\ tagRow'[t] = [digest |-> tx[x].found[t], attached |-> TRUE]
              /\ row'[tx[x].found[t]].state = "active"]_vars

\* docs/architecture.md: reconciliation keeps disappeared items as missing.
\* With nothing under way, no manifest is missing that Distribution serves
\* under a tag whose attached row points at it.
MissingDisappeared ==
  (\A x \in Handlers : tx[x] = Idle) =>
    \A t \in Tags : tagRow[t].attached /\ tagOf[t] = tagRow[t].digest /\ tagOf[t] \in live
      => row[tagOf[t]].state # "missing"
=============================================================================
