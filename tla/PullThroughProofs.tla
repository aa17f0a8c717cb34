-------------------------- MODULE PullThroughProofs --------------------------
(***************************************************************************)
(* Theorems about repositories and imports, for any number of clients,     *)
(* digests and slots.                                                      *)
(*                                                                         *)
(* Neither that a removal keeps content nor that an import is never empty  *)
(* is inductive: both rest on who is inside the gate.  The invariant IInv  *)
(* says whom the gate counts, by the handler and its phase, and that a     *)
(* removal past the drain has it to itself (GateInv); then that a removal  *)
(* about to delete the row has nothing stored (RemovalInv), which holds    *)
(* because whoever stores is counted; and that a pull which serves what it *)
(* saw has it there unless a row was made since (SettleInv), because the   *)
(* row is not removed while the pull is inside and content is deleted only *)
(* with a row.  CountInv is the accounting of imports: the counters are    *)
(* the sizes of the sets of leaders and of holders of a slot, and a step   *)
(* adds or takes one of them; those that wait for a leader never lead.     *)
(***************************************************************************)
EXTENDS PullThrough, FiniteSetTheorems, TLAPS

-----------------------------------------------------------------------------
(***************************************************************************)
(* Jobs                                                                    *)
(***************************************************************************)
Ops == {"none", "create", "archive", "unarchive", "policies", "remove", "list", "push",
        "delete", "pull"}
Phases == {"idle", "insert", "write", "save", "begin", "drain", "validate", "delete",
           "discovered", "find", "upsert", "ensure", "token", "evaluate", "forward", "observe",
           "rows", "resolve", "join", "wait", "slot", "recheck", "copy", "settle"}
Job == [op : Ops, phase : Phases, id : Nat, version : Nat,
        digest : Digests \cup {Nothing}, got : Digests \cup {Nothing},
        tagged : BOOLEAN, lead : BOOLEAN]

\* What a job knows that has got somewhere.
Shaped(x) ==
  /\ x.phase = "idle" <=> x = Idle
  /\ x.phase \in {"write", "save"} => x.id # 0 /\ x.op \in {"archive", "unarchive", "policies"}
  /\ x.op = "push" /\ x.phase = "forward" => x.digest \in Digests
  /\ x.op = "push" /\ x.phase = "evaluate" => x.digest \in Digests
  /\ x.op = "pull" /\ x.phase \in {"join", "wait", "slot", "recheck", "copy"} => x.digest \in Digests
  /\ x.op = "pull" /\ x.phase \in {"settle", "observe"} => x.got \in Digests
  /\ x.op = "pull" => x.phase \in {"resolve", "join", "wait", "slot"} \cup Copying
  /\ x.op = "pull" /\ x.phase \in {"slot", "recheck", "copy"} => x.lead
  /\ x.lead => x.op = "pull" /\ x.phase \in Copying \cup {"slot"}

JobsTyped == job \in [Jobs -> Job] /\ \A j \in Jobs : Shaped(job[j])

Row == [id : Nat \ {0}, status : {"empty", "active", "archived"}, immutable : BOOLEAN,
        version : Nat]

RowsTyped ==
  /\ repo \in Row \cup {NoRow} /\ made \in Nat
  /\ repo # NoRow => repo.id <= made
  /\ observed \subseteq Digests /\ (repo = NoRow => observed = {})
  /\ project \in {"present", "deleted"} /\ (project = "deleted" => repo = NoRow)

ContentTyped ==
  /\ stored \subseteq Digests /\ tagOf \in stored \cup {Nothing}
  /\ named \in BOOLEAN /\ (stored # {} => named)

\* What the gate counts.
Counted(x) ==
  \/ x.op \in {"create", "archive", "unarchive", "delete", "pull"}
  \/ x.op = "push" /\ x.phase # "token"

\* A removal that has shut the gate, and one that has it to itself.
Shutting(x) == x.op = "remove" /\ x.phase \in {"drain", "validate", "delete"}
Alone(x) == x.op = "remove" /\ x.phase \in {"validate", "delete"}

GateInv ==
  /\ inside = {j \in Jobs : Counted(job[j])}
  /\ \A j \in Jobs : Shutting(job[j]) <=> closer = j
  /\ closer \in Jobs \cup {Nobody}
  /\ \A j \in Jobs : Alone(job[j]) => inside = {}

LEMMA IdleJob ==
  /\ Idle \in Job /\ Shaped(Idle) /\ ~Counted(Idle) /\ ~Shutting(Idle)
  /\ Idle.op = "none" /\ Idle.phase = "idle" /\ Idle.lead = FALSE
BY DEF Idle, Job, Ops, Phases, Shaped, Counted, Shutting

LEMMA Names ==
  /\ "none" \in Ops /\ "create" \in Ops /\ "archive" \in Ops /\ "unarchive" \in Ops
  /\ "policies" \in Ops /\ "remove" \in Ops /\ "list" \in Ops /\ "push" \in Ops
  /\ "delete" \in Ops /\ "pull" \in Ops
  /\ "idle" \in Phases /\ "insert" \in Phases /\ "write" \in Phases /\ "save" \in Phases
  /\ "begin" \in Phases /\ "drain" \in Phases /\ "validate" \in Phases /\ "delete" \in Phases
  /\ "discovered" \in Phases /\ "find" \in Phases /\ "upsert" \in Phases /\ "ensure" \in Phases
  /\ "token" \in Phases /\ "evaluate" \in Phases /\ "forward" \in Phases /\ "observe" \in Phases
  /\ "rows" \in Phases /\ "resolve" \in Phases /\ "join" \in Phases /\ "wait" \in Phases
  /\ "slot" \in Phases /\ "recheck" \in Phases /\ "copy" \in Phases /\ "settle" \in Phases
BY DEF Ops, Phases

LEMMA HandlerJob ==
  ASSUME NEW o \in Ops, NEW p \in Phases
  PROVE  /\ Handler(o, p) \in Job /\ Handler(o, p).op = o /\ Handler(o, p).phase = p
         /\ ~Handler(o, p).lead
<1> DEFINE x == [Idle EXCEPT !.op = o, !.phase = p]
<1>1. Idle \in Job /\ Idle.lead = FALSE
  BY IdleJob
<1>2. x \in Job /\ x.op = o /\ x.phase = p /\ ~x.lead
  BY <1>1 DEF Job
<1>3. Handler(o, p) = x
  BY DEF Handler
<1> QED
  BY <1>2, <1>3

\* Job j becomes x, and the gate counts it when it is to.
Turn(j, x) ==
  /\ x \in Job /\ Shaped(x)
  /\ job' = [job EXCEPT ![j] = x]
  /\ inside' = IF Counted(x) THEN inside \cup {j} ELSE inside \ {j}
  /\ UNCHANGED <<closer, exclusive>>
  /\ ~Shutting(x) /\ ~Shutting(job[j])
  /\ Counted(x) /\ ~Counted(job[j]) => closer = Nobody

\* Nothing happens to another job.
Moved(j) == JobsTyped' /\ GateInv' /\ \A k \in Jobs \ {j} : job'[k] = job[k]

LEMMA TurnEffect ==
  ASSUME JobsTyped, GateInv, NEW j \in Jobs, NEW x, Turn(j, x)
  PROVE  Moved(j) /\ job'[j] = x
<1>1. job'[j] = x /\ \A k \in Jobs \ {j} : job'[k] = job[k]
  BY DEF Turn, JobsTyped
<1>2. JobsTyped'
  BY <1>1 DEF Turn, JobsTyped
<1>3. inside' = {k \in Jobs : Counted(job'[k])}
  BY <1>1 DEF Turn, GateInv
<1>4. \A k \in Jobs : Shutting(job'[k]) <=> closer' = k
  BY <1>1 DEF Turn, GateInv
<1>5. ASSUME NEW k \in Jobs, Alone(job'[k]) PROVE inside' = {}
  <2>1. k # j /\ Alone(job[k]) /\ Shutting(job[k])
    BY <1>1, <1>5 DEF Turn, Alone, Shutting
  <2>2. closer = k /\ inside = {} /\ closer # Nobody
    BY <2>1, RepositoriesAssumption DEF GateInv
  <2>3. ~Counted(x)
    BY <2>2 DEF Turn, GateInv
  <2> QED
    BY <2>2, <2>3 DEF Turn
<1> QED
  BY <1>1, <1>2, <1>3, <1>4, <1>5 DEF Turn, GateInv, Moved

\* The same handler at another point: what To makes of it.
LEMMA ToJob ==
  ASSUME JobsTyped, NEW j \in Jobs, NEW p \in Phases, To(j, p)
  PROVE  \E x \in Job : /\ job' = [job EXCEPT ![j] = x]
                        /\ x = [job[j] EXCEPT !.phase = p]
                        /\ x.op = job[j].op /\ x.phase = p /\ x.id = job[j].id
                        /\ x.version = job[j].version /\ x.digest = job[j].digest
                        /\ x.got = job[j].got /\ x.tagged = job[j].tagged
                        /\ x.lead = job[j].lead
<1> DEFINE x == [job[j] EXCEPT !.phase = p]
<1>1. job[j] \in Job
  BY DEF JobsTyped
<1>2. /\ x \in Job /\ x.op = job[j].op /\ x.phase = p /\ x.id = job[j].id
      /\ x.version = job[j].version /\ x.digest = job[j].digest
      /\ x.got = job[j].got /\ x.tagged = job[j].tagged /\ x.lead = job[j].lead
  BY <1>1 DEF Job
<1>3. job' = [job EXCEPT ![j] = x]
  BY DEF To
<1> QED
  BY <1>2, <1>3

\* A handler that the gate counts begins, and one that it does not.
LEMMA Entering ==
  ASSUME JobsTyped, NEW j \in Jobs, NEW x \in Job, Shaped(x), Counted(x), Enter(j, x)
  PROVE  Turn(j, x)
BY IdleJob DEF Enter, Start, Begin, Admit, Turn, Counted, Shutting

LEMMA PassingBy ==
  ASSUME JobsTyped, GateInv, NEW j \in Jobs, NEW x \in Job, Shaped(x),
         ~Counted(x), ~Shutting(x), PassBy(j, x)
  PROVE  Turn(j, x)
BY IdleJob DEF PassBy, Start, Begin, Turn, GateInv, gateVars

\* A handler the gate counts ends, and one that it does not.
LEMMA Leaving ==
  ASSUME JobsTyped, NEW j \in Jobs, ~Shutting(job[j]), Leave(j)
  PROVE  Turn(j, Idle)
BY IdleJob DEF Leave, Turn

LEMMA Returning ==
  ASSUME JobsTyped, GateInv, NEW j \in Jobs, ~Shutting(job[j]), ~Counted(job[j]), Return(j)
  PROVE  Turn(j, Idle)
BY IdleJob DEF Return, Turn, GateInv, gateVars

\* A handler goes on without passing the gate.
LEMMA GoingOn ==
  ASSUME JobsTyped, GateInv, NEW j \in Jobs, NEW x \in Job, Shaped(x),
         Counted(x) <=> Counted(job[j]), ~Shutting(x), ~Shutting(job[j]),
         job' = [job EXCEPT ![j] = x], UNCHANGED gateVars
  PROVE  Turn(j, x)
BY DEF Turn, GateInv, gateVars

-----------------------------------------------------------------------------
(***************************************************************************)
(* The handlers of Repositories                                            *)
(***************************************************************************)
\* A turn of a job that has no part in an import.
PlainTurn(j) ==
  \E x \in Job : Turn(j, x) /\ x.op # "pull" /\ ~x.lead /\ job[j].op # "pull"

\* The same with what it leads to, for removals too.
Plain(j) ==
  /\ Moved(j)
  /\ job[j].op # "pull" /\ ~job[j].lead /\ job'[j].op # "pull" /\ ~job'[j].lead

LEMMA PlainTurns ==
  ASSUME JobsTyped, GateInv, NEW j \in Jobs, PlainTurn(j)
  PROVE  Plain(j)
BY TurnEffect DEF PlainTurn, Plain, JobsTyped, Shaped

LEMMA RowFields ==
  ASSUME RowsTyped
  PROVE  /\ repo # NoRow <=> repo \in Row
         /\ repo # NoRow => /\ repo.id \in Nat \ {0} /\ repo.version \in Nat
                            /\ repo.status \in {"empty", "active", "archived"}
                            /\ repo.immutable \in BOOLEAN
         /\ NoRow.id = 0 /\ repo.id \in Nat
BY DEF RowsTyped, Row, NoRow

LEMMA CreateTurn ==
  ASSUME JobsTyped, NEW j \in Jobs, Create(j)
  PROVE  PlainTurn(j)
<1> DEFINE x == Handler("create", "insert")
<1>1. /\ x \in Job /\ x.op = "create" /\ x.phase = "insert" /\ ~x.lead
  BY HandlerJob, Names
<1>2. Enter(j, x) /\ job[j] = Idle
  BY DEF Create, Enter, Start
<1> HIDE DEF x
<1>3. Turn(j, x)
  BY <1>1, <1>2, IdleJob, Entering DEF Shaped, Counted
<1> QED
  BY <1>1, <1>2, <1>3, IdleJob DEF PlainTurn

LEMMA StatusTurn ==
  ASSUME JobsTyped, RowsTyped, NEW j \in Jobs, Archive(j) \/ Unarchive(j)
  PROVE  PlainTurn(j)
<1> DEFINE x(o) == [Handler(o, "write") EXCEPT !.id = repo.id]
<1>1. PICK o \in {"archive", "unarchive"} : Enter(j, x(o)) /\ job[j] = Idle /\ repo # NoRow
  BY DEF Archive, Unarchive, Archived, Enter, Start
<1>2. /\ Handler(o, "write") \in Job /\ Handler(o, "write").op = o
      /\ Handler(o, "write").phase = "write" /\ ~Handler(o, "write").lead
  BY HandlerJob, Names
<1>3. /\ x(o) \in Job /\ x(o).op = o /\ x(o).phase = "write" /\ ~x(o).lead /\ x(o).id = repo.id
  BY <1>2, RowFields DEF Job
<1> HIDE DEF x
<1>4. repo.id # 0
  BY <1>1, RowFields
<1>5. Turn(j, x(o))
  BY <1>1, <1>3, <1>4, IdleJob, Entering DEF Shaped, Counted
<1> QED
  BY <1>1, <1>3, <1>5, IdleJob DEF PlainTurn

LEMMA LoadPoliciesTurn ==
  ASSUME JobsTyped, GateInv, RowsTyped, NEW j \in Jobs, LoadPolicies(j)
  PROVE  PlainTurn(j)
<1> DEFINE h == Handler("policies", "save")
           x == [h EXCEPT !.id = repo.id, !.version = repo.version]
<1>1. PassBy(j, x) /\ job[j] = Idle /\ repo # NoRow
  BY DEF LoadPolicies, PassBy, Start
<1>2. h \in Job /\ h.op = "policies" /\ h.phase = "save" /\ ~h.lead
  BY HandlerJob, Names
<1>3. x \in Job /\ x.op = "policies" /\ x.phase = "save" /\ ~x.lead /\ x.id = repo.id
  BY <1>1, <1>2, RowFields DEF Job
<1> HIDE DEF x
<1>4. Turn(j, x)
  BY <1>1, <1>3, RowFields, IdleJob, PassingBy DEF Shaped, Counted, Shutting
<1> QED
  BY <1>1, <1>3, <1>4, IdleJob DEF PlainTurn

LEMMA RequestRemovalTurn ==
  ASSUME JobsTyped, GateInv, RowsTyped, NEW j \in Jobs, RequestRemoval(j)
  PROVE  PlainTurn(j)
<1> DEFINE h == Handler("remove", "begin")
           x == [h EXCEPT !.id = repo.id]
<1>1. PassBy(j, x) /\ job[j] = Idle
  BY DEF RequestRemoval, PassBy, Start
<1>2. h \in Job /\ h.op = "remove" /\ h.phase = "begin" /\ ~h.lead
  BY HandlerJob, Names
<1>3. x \in Job /\ x.op = "remove" /\ x.phase = "begin" /\ ~x.lead
  BY <1>2, RowFields DEF Job
<1> HIDE DEF x
<1>4. Turn(j, x)
  BY <1>1, <1>3, IdleJob, PassingBy DEF Shaped, Counted, Shutting
<1> QED
  BY <1>1, <1>3, <1>4, IdleJob DEF PlainTurn

LEMMA ReadCatalogTurn ==
  ASSUME JobsTyped, GateInv, NEW j \in Jobs, ReadCatalog(j)
  PROVE  PlainTurn(j)
<1> DEFINE x == Handler("list", "discovered")
<1>1. PassBy(j, x) /\ job[j] = Idle
  BY DEF ReadCatalog, PassBy, Start
<1>2. x \in Job /\ x.op = "list" /\ x.phase = "discovered" /\ ~x.lead
  BY HandlerJob, Names
<1> HIDE DEF x
<1>3. Turn(j, x)
  BY <1>1, <1>2, IdleJob, PassingBy DEF Shaped, Counted, Shutting
<1> QED
  BY <1>1, <1>2, <1>3, IdleJob DEF PlainTurn

LEMMA RequestTurn ==
  ASSUME JobsTyped, NEW j \in Jobs,
         RequestToken(j) \/ \E importing \in BOOLEAN : RequestProjectDeletion(j, importing)
  PROVE  PlainTurn(j)
<1>1. PICK o \in {"push", "delete"} :
        \E p \in {"find", "rows"} : Enter(j, Handler(o, p)) /\ job[j] = Idle
  BY DEF RequestToken, RequestProjectDeletion, Enter, Start
<1>2. PICK p \in {"find", "rows"} : Enter(j, Handler(o, p)) /\ job[j] = Idle
  BY <1>1
<1>3. /\ Handler(o, p) \in Job /\ Handler(o, p).op = o /\ Handler(o, p).phase = p
      /\ ~Handler(o, p).lead
  BY HandlerJob, Names
<1>4. Turn(j, Handler(o, p))
  BY <1>2, <1>3, IdleJob, Entering DEF Shaped, Counted
<1> QED
  BY <1>2, <1>3, <1>4, IdleJob DEF PlainTurn

LEMMA PutManifestTurn ==
  ASSUME JobsTyped, GateInv, NEW j \in Jobs, NEW d \in Digests, PutManifest(j, d)
  PROVE  PlainTurn(j)
<1>1. PICK p \in {"evaluate", "forward"} :
        Begin(j, [Handler("push", p) EXCEPT !.digest = d, !.tagged = p = "evaluate" /\ ManifestExists])
  BY DEF PutManifest
<1> DEFINE h == Handler("push", p)
           t == p = "evaluate" /\ ManifestExists
           x == [h EXCEPT !.digest = d, !.tagged = t]
<1>2. h \in Job /\ h.op = "push" /\ h.phase = p /\ ~h.lead
  BY HandlerJob, Names
<1>3. t \in BOOLEAN
  OBVIOUS
<1>4. job' = [job EXCEPT ![j] = x] /\ Admit(j) /\ At(j, "push", "token")
  BY <1>1 DEF PutManifest, Begin
<1> HIDE DEF h, t
<1>5. x \in Job /\ x.op = "push" /\ x.phase = p /\ ~x.lead /\ x.digest = d
  BY <1>2, <1>3 DEF Job
<1> HIDE DEF x
<1>6. Turn(j, x)
  BY <1>4, <1>5, IdleJob DEF Turn, Shaped, Counted, Shutting, Admit, At
<1> QED
  BY <1>4, <1>5, <1>6 DEF PlainTurn, At

LEMMA LeavingTurn ==
  ASSUME JobsTyped, NEW j \in Jobs, job[j].op \notin {"remove", "pull"}, Leave(j)
  PROVE  PlainTurn(j)
<1>1. Turn(j, Idle)
  BY Leaving DEF Shutting
<1> QED
  BY <1>1, IdleJob DEF PlainTurn

LEMMA ReturningTurn ==
  ASSUME JobsTyped, GateInv, NEW j \in Jobs, Return(j),
         \/ job[j].op \in {"none", "policies", "list"}
         \/ job[j].op = "push" /\ job[j].phase = "token"
         \/ job[j].op = "remove" /\ job[j].phase = "begin"
  PROVE  PlainTurn(j)
<1>1. Turn(j, Idle)
  BY Returning DEF Shutting, Counted
<1> QED
  BY <1>1, IdleJob DEF PlainTurn

\* What is done with a token: it is granted, or a step towards that is made.
LEMMA GrantedTurn ==
  ASSUME JobsTyped, NEW j \in Jobs, job[j].op = "push", Granted(j)
  PROVE  PlainTurn(j)
<1>1. PICK x \in Job : /\ job' = [job EXCEPT ![j] = x] /\ x.op = "push" /\ x.phase = "token"
                       /\ x.lead = job[j].lead
  BY ToJob, Names DEF Granted
<1>2. ~x.lead
  BY <1>1 DEF JobsTyped, Shaped
<1>3. Shaped(x) /\ ~Counted(x) /\ ~Shutting(x) /\ ~Shutting(job[j])
  BY <1>1, <1>2, IdleJob DEF Shaped, Counted, Shutting
<1>4. Turn(j, x)
  BY <1>1, <1>3 DEF Granted, Turn
<1> QED
  BY <1>1, <1>2, <1>4 DEF PlainTurn

LEMMA GoingTurn ==
  ASSUME JobsTyped, GateInv, NEW j \in Jobs, NEW p \in Phases, To(j, p), UNCHANGED gateVars,
         \/ job[j].op = "push" /\ job[j].phase # "token" /\ p \in {"upsert", "ensure", "observe"}
         \/ job[j].op = "delete" /\ p = "delete"
  PROVE  PlainTurn(j)
<1>1. PICK x \in Job : /\ job' = [job EXCEPT ![j] = x] /\ x.op = job[j].op /\ x.phase = p
                       /\ x.lead = job[j].lead
  BY ToJob
<1>2. ~x.lead
  BY <1>1 DEF JobsTyped, Shaped
<1>3. Shaped(x) /\ Counted(x) /\ Counted(job[j]) /\ ~Shutting(x) /\ ~Shutting(job[j])
  BY <1>1, <1>2, IdleJob DEF Shaped, Counted, Shutting
<1>4. Turn(j, x)
  BY <1>1, <1>3, GoingOn
<1> QED
  BY <1>1, <1>2, <1>4 DEF PlainTurn

LEMMA CanReceivePushTurn ==
  ASSUME JobsTyped, GateInv, NEW j \in Jobs, CanReceivePush(j)
  PROVE  PlainTurn(j)
<1>1. job[j].op = "push" /\ job[j].phase # "token"
  BY DEF CanReceivePush, At
<1>2. \/ Granted(j)
      \/ \E p \in {"upsert", "ensure"} : To(j, p) /\ UNCHANGED gateVars
  BY DEF CanReceivePush
<1>3. CASE Granted(j)
  BY <1>1, <1>3, GrantedTurn
<1>4. ASSUME NEW p \in {"upsert", "ensure"}, To(j, p), UNCHANGED gateVars PROVE PlainTurn(j)
  BY <1>1, <1>4, GoingTurn, Names
<1> QED
  BY <1>2, <1>3, <1>4

LEMMA EvaluateManifestPutTurn ==
  ASSUME JobsTyped, GateInv, NEW j \in Jobs, EvaluateManifestPut(j)
  PROVE  PlainTurn(j)
<1>1. At(j, "push", "evaluate") /\ job[j] \in Job /\ ~job[j].lead /\ job[j].digest \in Digests
  BY DEF EvaluateManifestPut, At, JobsTyped, Shaped
<1>2. CASE Leave(j)
  BY <1>1, <1>2, LeavingTurn DEF At
<1>3. ASSUME job' = [job EXCEPT ![j].phase = "forward", ![j].tagged = TRUE], UNCHANGED gateVars
      PROVE  PlainTurn(j)
  <2> DEFINE x == [job[j] EXCEPT !.phase = "forward", !.tagged = TRUE]
  <2>1. /\ x \in Job /\ x.op = "push" /\ x.phase = "forward" /\ ~x.lead
        /\ x.digest \in Digests
    BY <1>1, Names DEF Job, At
  <2>2. job' = [job EXCEPT ![j] = x]
    BY <1>3 DEF JobsTyped
  <2> HIDE DEF x
  <2>3. Turn(j, x)
    BY <1>1, <1>3, <2>1, <2>2, IdleJob, GoingOn DEF Shaped, Counted, Shutting, At
  <2> QED
    BY <1>1, <2>1, <2>3 DEF PlainTurn, At
<1> QED
  BY <1>2, <1>3 DEF EvaluateManifestPut

LEMMA ObservePushTurn ==
  ASSUME JobsTyped, NEW j \in Jobs, ObservePush(j)
  PROVE  PlainTurn(j)
<1> DEFINE x == Handler("push", "token")
<1>1. x \in Job /\ x.op = "push" /\ x.phase = "token" /\ ~x.lead
  BY HandlerJob, Names
<1>2. /\ job' = [job EXCEPT ![j] = x] /\ inside' = inside \ {j} /\ UNCHANGED <<closer, exclusive>>
      /\ job[j].op = "push"
  BY DEF ObservePush, At
<1> HIDE DEF x
<1>3. Turn(j, x)
  BY <1>1, <1>2, IdleJob DEF Turn, Shaped, Counted, Shutting
<1> QED
  BY <1>1, <1>2, <1>3 DEF PlainTurn

LEMMA PushTurn ==
  ASSUME JobsTyped, GateInv, NEW j \in Jobs,
         \/ AdoptExisting(j) \/ EnsureRepositoryForPush(j)
         \/ Forward(j) \/ TokenExpires(j)
  PROVE  PlainTurn(j)
<1>1. CASE AdoptExisting(j) \/ EnsureRepositoryForPush(j)
  <2>1. job[j].op = "push" /\ (Granted(j) \/ Leave(j))
    BY <1>1 DEF AdoptExisting, EnsureRepositoryForPush, EnsureFromPush, WithoutPush, At
  <2> QED
    BY <2>1, GrantedTurn, LeavingTurn
<1>2. CASE Forward(j)
  <2>1. /\ job[j].op = "push" /\ job[j].phase # "token"
        /\ To(j, "observe") /\ UNCHANGED gateVars
    BY <1>2 DEF Forward, At
  <2> QED
    BY <2>1, GoingTurn, Names
<1>3. CASE TokenExpires(j)
  BY <1>3, ReturningTurn DEF TokenExpires, At
<1> QED
  BY <1>1, <1>2, <1>3

LEMMA RowTurn ==
  ASSUME JobsTyped, GateInv, NEW j \in Jobs,
         \/ CreateRow(j) \/ WriteStatus(j) \/ (\E b \in BOOLEAN : ReplacePolicies(j, b))
         \/ ReconcileDiscoveredPage(j) \/ CheckRepositories(j) \/ DeleteProject(j)
  PROVE  PlainTurn(j)
<1>1. CASE CreateRow(j) \/ DeleteProject(j)
  BY <1>1, LeavingTurn DEF CreateRow, DeleteProject, At
<1>2. CASE WriteStatus(j)
  <2>1. job[j].op \notin {"remove", "pull"}
    BY <1>2 DEF WriteStatus, JobsTyped, Shaped
  <2> QED
    BY <1>2, <2>1, LeavingTurn DEF WriteStatus
<1>3. CASE \E b \in BOOLEAN : ReplacePolicies(j, b)
  <2>1. job[j].op = "policies" /\ Return(j)
    BY <1>3 DEF ReplacePolicies, Open, Return, At
  <2> QED
    BY <2>1, ReturningTurn
<1>4. CASE ReconcileDiscoveredPage(j)
  BY <1>4, ReturningTurn DEF ReconcileDiscoveredPage, At
<1>5. CASE CheckRepositories(j)
  <2>1. job[j].op = "delete" /\ (Leave(j) \/ (To(j, "delete") /\ UNCHANGED gateVars))
    BY <1>5 DEF CheckRepositories, At
  <2> QED
    BY <2>1, LeavingTurn, GoingTurn, Names
<1> QED
  BY <1>1, <1>2, <1>3, <1>4, <1>5

-----------------------------------------------------------------------------
(***************************************************************************)
(* The removal of a repository                                             *)
(***************************************************************************)
\* What RemovalKeepsContent is about: the last check and the removal of the
\* row, with nothing put in between.
RemovalInv == \A j \in Jobs : At(j, "remove", "delete") => stored = {}

LEMMA EndRemovalPlain ==
  ASSUME JobsTyped, GateInv, NEW j \in Jobs, job[j].op = "remove", EndRemoval(j)
  PROVE  Plain(j) /\ job'[j] = Idle
<1>1. closer = j /\ closer' = Nobody /\ inside' = inside /\ job' = [job EXCEPT ![j] = Idle]
  BY DEF EndRemoval, Reopen
<1>2. job'[j] = Idle /\ \A k \in Jobs \ {j} : job'[k] = job[k]
  BY <1>1 DEF JobsTyped
<1>3. JobsTyped'
  BY <1>1, <1>2, IdleJob DEF JobsTyped
<1>4. \A k \in Jobs : ~Shutting(job'[k]) /\ ~Alone(job'[k]) /\ closer' # k
  BY <1>1, <1>2, IdleJob, RepositoriesAssumption DEF GateInv, Shutting, Alone
<1>5. \A k \in Jobs : Counted(job'[k]) <=> Counted(job[k])
  BY <1>1, <1>2, IdleJob DEF Counted
<1>6. GateInv'
  BY <1>1, <1>4, <1>5 DEF GateInv
<1>7. ~job[j].lead
  BY DEF JobsTyped, Shaped
<1> QED
  BY <1>2, <1>3, <1>6, <1>7, IdleJob DEF Plain, Moved

\* A removal goes on to p, which only a gate that is its own lets it.
LEMMA RemovalGoesOn ==
  ASSUME JobsTyped, GateInv, NEW j \in Jobs, NEW p \in {"drain", "validate", "delete"},
         job[j].op = "remove", To(j, p), closer' = j, closer \in {j, Nobody}, inside' = inside,
         p # "drain" => inside = {}
  PROVE  Plain(j) /\ job'[j].op = "remove" /\ job'[j].phase = p
<1>1. PICK x \in Job : /\ job' = [job EXCEPT ![j] = x] /\ x.op = "remove" /\ x.phase = p
                       /\ x.lead = job[j].lead
  BY ToJob, Names
<1>2. ~x.lead
  BY <1>1 DEF JobsTyped, Shaped
<1>3. job'[j] = x /\ \A k \in Jobs \ {j} : job'[k] = job[k]
  BY <1>1 DEF JobsTyped
<1>4. Shaped(x) /\ ~Counted(x) /\ ~Counted(job[j]) /\ Shutting(x)
  BY <1>1, <1>2, IdleJob DEF Shaped, Counted, Shutting
<1>5. JobsTyped'
  BY <1>1, <1>3, <1>4 DEF JobsTyped
<1>6. \A k \in Jobs : Counted(job'[k]) <=> Counted(job[k])
  BY <1>3, <1>4
<1>7. \A k \in Jobs : Shutting(job'[k]) <=> closer' = k
  BY <1>3, <1>4, RepositoriesAssumption DEF GateInv
<1>8. ASSUME NEW k \in Jobs, Alone(job'[k]) PROVE inside = {}
  BY <1>1, <1>3, <1>8 DEF GateInv, Alone
<1>9. GateInv'
  BY <1>6, <1>7, <1>8 DEF GateInv
<1> QED
  BY <1>1, <1>2, <1>3, <1>5, <1>9 DEF Plain, Moved, JobsTyped, Shaped

LEMMA BeginRemovalPlain ==
  ASSUME JobsTyped, GateInv, NEW j \in Jobs, BeginRemoval(j)
  PROVE  Plain(j) /\ ~At(j, "remove", "delete")'
<1>1. job[j].op = "remove" /\ job[j].phase = "begin"
  BY DEF BeginRemoval, At
<1>2. CASE closer = Nobody
  BY <1>1, <1>2, RemovalGoesOn DEF BeginRemoval, Shut, At
<1>3. CASE closer # Nobody
  <2>1. Return(j)
    BY <1>3 DEF BeginRemoval
  <2>2. Plain(j)
    BY <1>1, <2>1, ReturningTurn, PlainTurns
  <2>3. job'[j] = Idle
    BY <2>1 DEF Return, JobsTyped
  <2> QED
    BY <2>2, <2>3, IdleJob DEF At
<1> QED
  BY <1>2, <1>3

LEMMA RemovalDrainedPlain ==
  ASSUME JobsTyped, GateInv, NEW j \in Jobs, RemovalDrained(j)
  PROVE  Plain(j) /\ ~At(j, "remove", "delete")'
<1>1. job[j].op = "remove" /\ job[j].phase = "drain"
  BY DEF RemovalDrained, At
<1>2. CASE Grant(j) /\ To(j, "validate")
  BY <1>1, <1>2, RemovalGoesOn DEF Grant, At
<1>3. CASE EndRemoval(j)
  BY <1>1, <1>3, EndRemovalPlain, IdleJob DEF At
<1> QED
  BY <1>2, <1>3 DEF RemovalDrained

LEMMA ValidateAgainPlain ==
  ASSUME JobsTyped, GateInv, ContentTyped, NEW j \in Jobs, ValidateAgain(j)
  PROVE  Plain(j) /\ (At(j, "remove", "delete")' => stored = {})
<1>1. /\ job[j].op = "remove" /\ job[j].phase = "validate"
      /\ closer = j /\ inside = {}
  BY DEF ValidateAgain, At, GateInv, Shutting, Alone
<1>2. CASE Validated(job[j].id)
  <2>1. To(j, "delete") /\ UNCHANGED gateVars
    BY <1>2 DEF ValidateAgain
  <2>2. Plain(j)
    BY <1>1, <2>1, RemovalGoesOn DEF gateVars
  <2>3. stored = {}
    BY <1>2 DEF Validated, ListProjectRepositories, ContentTyped
  <2> QED
    BY <2>2, <2>3
<1>3. CASE ~Validated(job[j].id)
  BY <1>1, <1>3, EndRemovalPlain, IdleJob DEF ValidateAgain, At
<1> QED
  BY <1>2, <1>3

LEMMA RemovePlain ==
  ASSUME JobsTyped, GateInv, NEW j \in Jobs, Remove(j)
  PROVE  Plain(j) /\ ~At(j, "remove", "delete")'
BY EndRemovalPlain, IdleJob DEF Remove, At

LEMMA FailPlain ==
  ASSUME JobsTyped, GateInv, NEW j \in Jobs, Fail(j)
  PROVE  Plain(j) /\ ~At(j, "remove", "delete")'
<1>1. /\ job[j].op \in {"create", "archive", "unarchive", "push", "delete", "remove", "list"}
      /\ job[j].phase # "token"
  BY DEF Fail
<1>2. CASE closer = j
  <2>1. job[j].op = "remove" /\ EndRemoval(j)
    BY <1>2 DEF Fail, GateInv, Shutting
  <2> QED
    BY <2>1, EndRemovalPlain, IdleJob DEF At
<1>3. CASE closer # j
  <2>1. ~Shutting(job[j])
    BY <1>3 DEF GateInv
  <2>2. job[j].op # "remove" => (Counted(job[j]) <=> job[j].op # "list")
    BY <1>1 DEF Counted
  <2>3. job[j].op = "remove" => ~Counted(job[j])
    BY DEF Counted
  <2>4. Leave(j) \/ (Return(j) /\ ~Counted(job[j]))
    BY <1>3 DEF Fail, GateInv
  <2>5. Turn(j, Idle)
    BY <2>1, <2>4, Leaving, Returning
  <2>6. Plain(j)
    BY <1>1, <2>5, IdleJob, PlainTurns DEF PlainTurn
  <2>7. job'[j] = Idle
    BY <2>5, TurnEffect, IdleJob
  <2> QED
    BY <2>6, <2>7, IdleJob DEF At
<1> QED
  BY <1>2, <1>3

-----------------------------------------------------------------------------
(***************************************************************************)
(* Rows                                                                    *)
(***************************************************************************)
\* A step that keeps the row if there is one.
RowsKept == RowsTyped' /\ project' = project /\ (repo' = NoRow => repo = NoRow)

LEMMA NoRowIsNone == NoRow \notin Row
BY DEF NoRow, Row

LEMMA InsertKeeps ==
  ASSUME RowsTyped, UNCHANGED project,
         NEW s \in {"empty", "active"}, NEW b \in BOOLEAN, Insert(s, b)
  PROVE  RowsKept /\ repo' # NoRow
<1>1. (IF b THEN 1 ELSE 0) \in Nat
  OBVIOUS
<1>2. repo' \in Row /\ repo'.id = made + 1
  <2> DEFINE v == IF b THEN 1 ELSE 0
  <2> HIDE DEF v
  <2>1. v \in Nat
    BY <1>1 DEF v
  <2>2. repo' = [id |-> made + 1, status |-> s, immutable |-> b, version |-> v]
    BY DEF Insert, NewRow, v
  <2>3. made + 1 \in Nat \ {0} /\ s \in {"empty", "active", "archived"}
    BY DEF RowsTyped
  <2> QED
    BY <2>1, <2>2, <2>3 DEF Row
<1>3. repo' # NoRow /\ made' = made + 1 /\ made' \in Nat
  BY <1>2, NoRowIsNone DEF Insert, RowsTyped
<1>4. observed' = observed /\ project = "present"
  BY DEF Insert
<1> QED
  BY <1>2, <1>3, <1>4 DEF RowsKept, RowsTyped

LEMMA NothingKeeps ==
  ASSUME RowsTyped, UNCHANGED <<project, rows>>
  PROVE  RowsKept
BY DEF RowsKept, RowsTyped, rows

\* Another status, other policies: the same row.
LEMMA SameRowKeeps ==
  ASSUME RowsTyped, UNCHANGED <<project, made, observed>>,
         \/ repo' = repo
         \/ repo # NoRow /\ repo' \in Row /\ repo'.id = repo.id
  PROVE  RowsKept
BY NoRowIsNone DEF RowsKept, RowsTyped

LEMMA StatusOfRow ==
  ASSUME RowsTyped, repo # NoRow, NEW s \in {"empty", "active", "archived"}
  PROVE  [repo EXCEPT !.status = s] \in Row /\ [repo EXCEPT !.status = s].id = repo.id
<1>1. repo \in Row
  BY DEF RowsTyped
<1> QED
  BY <1>1 DEF Row

LEMMA UpsertKeeps ==
  ASSUME RowsTyped, UNCHANGED project, UpsertDiscovered
  PROVE  RowsKept /\ repo' # NoRow
<1>1. CASE Insert("active", FALSE)
  BY <1>1, InsertKeeps
<1>2. CASE repo # NoRow /\ repo' = (IF Archived THEN repo ELSE [repo EXCEPT !.status = "active"])
           /\ UNCHANGED <<made, observed>>
  BY <1>2, StatusOfRow, SameRowKeeps, NoRowIsNone
<1> QED
  BY <1>1, <1>2 DEF UpsertDiscovered

LEMMA SetStatusKeeps ==
  ASSUME RowsTyped, UNCHANGED project, NEW id \in Nat \ {0},
         NEW s \in {"empty", "active", "archived"}, SetStatus(id, s)
  PROVE  RowsKept
<1>1. CASE repo.id = id
  <2>1. repo # NoRow
    BY <1>1, RowFields
  <2>2. repo' = [repo EXCEPT !.status = s]
    BY <1>1 DEF SetStatus
  <2> QED
    BY <2>1, <2>2, StatusOfRow, SameRowKeeps DEF SetStatus
<1>2. CASE repo.id # id
  BY <1>2, SameRowKeeps DEF SetStatus
<1> QED
  BY <1>1, <1>2

LEMMA SavePoliciesKeeps ==
  ASSUME RowsTyped, UNCHANGED project, NEW id \in Nat \ {0}, NEW version \in Nat,
         NEW b \in BOOLEAN, SavePolicies(id, version, b)
  PROVE  RowsKept
<1>1. CASE repo.id = id /\ repo.version = version
  <2>1. repo # NoRow /\ repo \in Row
    BY <1>1, RowFields DEF RowsTyped
  <2> DEFINE n == repo.version + 1
  <2>2. n \in Nat
    BY <2>1 DEF Row
  <2>3. repo' = [repo EXCEPT !.immutable = b, !.version = n]
    BY <1>1 DEF SavePolicies
  <2> HIDE DEF n
  <2>4. repo' \in Row /\ repo'.id = repo.id
    BY <2>1, <2>2, <2>3 DEF Row
  <2> QED
    BY <2>1, <2>4, SameRowKeeps DEF SavePolicies
<1>2. CASE ~(repo.id = id /\ repo.version = version)
  BY <1>2, SameRowKeeps DEF SavePolicies
<1> QED
  BY <1>1, <1>2

\* What is observed is what Distribution has.
LEMMA ObserveKeeps ==
  ASSUME RowsTyped, ContentTyped, UNCHANGED <<project, repo, made>>, NEW d, Observe(d)
  PROVE  RowsKept
BY DEF RowsKept, RowsTyped, ContentTyped, Observe

\* The steps of Repositories that leave the row and Distribution as they are.
LEMMA QuietKeeps ==
  ASSUME RowsTyped, Quiet
  PROVE  RowsKept
BY NothingKeeps DEF Quiet, Outside

LEMMA CreateRowKeeps ==
  ASSUME RowsTyped, NEW j \in Jobs, CreateRow(j)
  PROVE  RowsKept
<1>1. UNCHANGED project
  BY DEF CreateRow, Outside
<1>2. CASE \E b \in BOOLEAN : Insert("empty", b)
  BY <1>1, <1>2, InsertKeeps
<1>3. CASE UNCHANGED rows
  BY <1>1, <1>3, NothingKeeps
<1> QED
  BY <1>2, <1>3 DEF CreateRow

LEMMA WriteStatusKeeps ==
  ASSUME RowsTyped, JobsTyped, NEW j \in Jobs, WriteStatus(j)
  PROVE  RowsKept
<1>1. UNCHANGED project /\ job[j].id \in Nat \ {0}
  BY DEF WriteStatus, Outside, JobsTyped, Shaped, Job
<1>2. \E s \in {"empty", "archived"} : SetStatus(job[j].id, s)
  BY DEF WriteStatus
<1> QED
  BY <1>1, <1>2, SetStatusKeeps

LEMMA ReplacePoliciesKeeps ==
  ASSUME RowsTyped, JobsTyped, NEW j \in Jobs, NEW b \in BOOLEAN, ReplacePolicies(j, b)
  PROVE  RowsKept
<1>1. UNCHANGED project /\ job[j].id \in Nat \ {0} /\ job[j].version \in Nat
  BY DEF ReplacePolicies, At, Outside, JobsTyped, Shaped, Job
<1> QED
  BY <1>1, SavePoliciesKeeps DEF ReplacePolicies

LEMMA DiscoveredKeeps ==
  ASSUME RowsTyped, NEW j \in Jobs, ReconcileDiscoveredPage(j) \/ AdoptExisting(j)
  PROVE  RowsKept
<1>1. UNCHANGED project
  BY DEF ReconcileDiscoveredPage, AdoptExisting, Outside
<1>2. UpsertDiscovered \/ UNCHANGED rows
  BY DEF ReconcileDiscoveredPage, AdoptExisting
<1> QED
  BY <1>1, <1>2, UpsertKeeps, NothingKeeps

LEMMA EnsureKeeps ==
  ASSUME RowsTyped, NEW j \in Jobs, EnsureRepositoryForPush(j)
  PROVE  RowsKept
<1>1. UNCHANGED project
  BY DEF EnsureRepositoryForPush, Outside
<1>2. Insert("empty", FALSE) \/ UNCHANGED rows
  BY DEF EnsureRepositoryForPush, EnsureFromPush, Find
<1> QED
  BY <1>1, <1>2, InsertKeeps, NothingKeeps

LEMMA ObservePushKeeps ==
  ASSUME RowsTyped, ContentTyped, NEW j \in Jobs, ObservePush(j)
  PROVE  RowsKept
BY ObserveKeeps DEF ObservePush, Outside

-----------------------------------------------------------------------------
(***************************************************************************)
(* The invariant                                                           *)
(***************************************************************************)
\* A pull that serves what is here, and makes the row over it.
Serving(x) == x.op = "pull" /\ (x.phase = "settle" \/ (x.phase = "copy" /\ x.got # Nothing))

\* What it saw is still there, or a row has been made over it meanwhile: only
\* a deletion of content takes it away, and that needs the row.
SettleInv ==
  \A j \in Jobs : Serving(job[j]) /\ repo = NoRow /\ project = "present" => stored # {}

Leads == {j \in Jobs : job[j].lead}
Copiers == {j \in Jobs : job[j].lead /\ job[j].phase \in Copying}

CountInv ==
  /\ active = Cardinality(Leads)
  /\ slots = Cardinality(Copiers)
  /\ slots <= MaxImports

IInv ==
  /\ JobsTyped /\ GateInv /\ RowsTyped /\ ContentTyped /\ pending \in BOOLEAN
  /\ CountInv
  /\ RemovalInv
  /\ SettleInv

\* A step of a job that is no pull and has nothing to do with Distribution.
Gentle(j) ==
  /\ Plain(j) /\ RowsKept
  /\ UNCHANGED <<registry, importVars>>
  /\ At(j, "remove", "delete")' => stored = {}

LEMMA SameCount ==
  ASSUME CountInv, NEW j \in Jobs, Plain(j), UNCHANGED <<active, slots>>
  PROVE  CountInv'
<1>1. Leads' = Leads
  BY DEF Leads, Plain, Moved
<1>2. Copiers' = Copiers
  BY DEF Copiers, Plain, Moved
<1> QED
  BY <1>1, <1>2 DEF CountInv

LEMMA GentleKeeps ==
  ASSUME IInv, NEW j \in Jobs, Gentle(j)
  PROVE  IInv'
<1>1. JobsTyped' /\ GateInv' /\ RowsTyped' /\ pending' \in BOOLEAN
  BY DEF Gentle, Plain, Moved, RowsKept, importVars, IInv
<1>2. ContentTyped'
  BY DEF Gentle, IInv, ContentTyped, registry
<1>3. CountInv'
  BY SameCount DEF Gentle, IInv, importVars
<1>4. RemovalInv'
  BY DEF Gentle, Plain, Moved, RemovalInv, At, IInv, registry
<1>5. SettleInv'
  BY DEF Gentle, Plain, Moved, SettleInv, Serving, IInv, registry, RowsKept
<1> QED
  BY <1>1, <1>2, <1>3, <1>4, <1>5 DEF IInv

LEMMA Calm ==
  ASSUME JobsTyped, GateInv, NEW j \in Jobs, PlainTurn(j)
  PROVE  Plain(j) /\ ~At(j, "remove", "delete")'
<1>1. PICK x \in Job : Turn(j, x)
  BY DEF PlainTurn
<1>2. job'[j] = x /\ ~Shutting(x)
  BY <1>1, TurnEffect DEF Turn
<1> QED
  BY <1>2, PlainTurns DEF At, Shutting

\* The requests that only read the row, or make, mark or find it.
RequestSteps(j) ==
  \/ Create(j) \/ Archive(j) \/ Unarchive(j) \/ LoadPolicies(j) \/ RequestRemoval(j)
  \/ ReadCatalog(j) \/ RequestToken(j) \/ CanReceivePush(j) \/ EvaluateManifestPut(j)
  \/ (\E d \in Digests : PutManifest(j, d))
  \/ TokenExpires(j) \/ CheckRepositories(j)
  \/ \E importing \in BOOLEAN : RequestProjectDeletion(j, importing)

RowSteps(j) ==
  \/ CreateRow(j) \/ WriteStatus(j) \/ (\E b \in BOOLEAN : ReplacePolicies(j, b))
  \/ ReconcileDiscoveredPage(j) \/ AdoptExisting(j) \/ EnsureRepositoryForPush(j)
  \/ ObservePush(j)

RemovalSteps(j) == BeginRemoval(j) \/ RemovalDrained(j) \/ ValidateAgain(j) \/ Fail(j)

LEMMA RequestStepsGentle ==
  ASSUME IInv, NEW j \in Jobs, RequestSteps(j), UNCHANGED importVars
  PROVE  Gentle(j)
<1>1. JobsTyped /\ GateInv /\ RowsTyped
  BY DEF IInv
<1>2. PlainTurn(j)
  <2>1. CASE Create(j)
    BY <1>1, <2>1, CreateTurn
  <2>2. CASE Archive(j) \/ Unarchive(j)
    BY <1>1, <2>2, StatusTurn
  <2>3. CASE LoadPolicies(j)
    BY <1>1, <2>3, LoadPoliciesTurn
  <2>4. CASE RequestRemoval(j)
    BY <1>1, <2>4, RequestRemovalTurn
  <2>5. CASE ReadCatalog(j)
    BY <1>1, <2>5, ReadCatalogTurn
  <2>6. CASE RequestToken(j) \/ \E importing \in BOOLEAN : RequestProjectDeletion(j, importing)
    BY <1>1, <2>6, RequestTurn
  <2>7. CASE CanReceivePush(j)
    BY <1>1, <2>7, CanReceivePushTurn
  <2>8. CASE EvaluateManifestPut(j)
    BY <1>1, <2>8, EvaluateManifestPutTurn
  <2>9. CASE \E d \in Digests : PutManifest(j, d)
    BY <1>1, <2>9, PutManifestTurn
  <2>10. CASE TokenExpires(j)
    BY <1>1, <2>10, PushTurn
  <2>11. CASE CheckRepositories(j)
    BY <1>1, <2>11, RowTurn
  <2> QED
    BY <2>1, <2>2, <2>3, <2>4, <2>5, <2>6, <2>7, <2>8, <2>9, <2>10, <2>11 DEF RequestSteps
<1>3. Quiet
  BY DEF RequestSteps, Create, Archive, Unarchive, LoadPolicies, RequestRemoval, ReadCatalog,
         RequestToken, CanReceivePush, EvaluateManifestPut, PutManifest, TokenExpires,
         CheckRepositories, RequestProjectDeletion
<1>4. RowsKept
  BY <1>1, <1>3, QuietKeeps
<1> QED
  BY <1>1, <1>2, <1>3, <1>4, Calm DEF Gentle, Quiet, Outside

LEMMA RowStepsGentle ==
  ASSUME IInv, NEW j \in Jobs, RowSteps(j), UNCHANGED importVars
  PROVE  Gentle(j)
<1>1. JobsTyped /\ GateInv /\ RowsTyped /\ ContentTyped
  BY DEF IInv
<1>2. PlainTurn(j)
  BY <1>1, RowTurn, PushTurn, ObservePushTurn DEF RowSteps
<1>3. RowsKept
  BY <1>1, CreateRowKeeps, WriteStatusKeeps, ReplacePoliciesKeeps, DiscoveredKeeps, EnsureKeeps,
     ObservePushKeeps DEF RowSteps
<1>4. UNCHANGED registry
  BY DEF RowSteps, CreateRow, WriteStatus, ReplacePolicies, ReconcileDiscoveredPage, AdoptExisting,
         EnsureRepositoryForPush, ObservePush, Outside
<1> QED
  BY <1>1, <1>2, <1>3, <1>4, Calm DEF Gentle

LEMMA RemovalStepsGentle ==
  ASSUME IInv, NEW j \in Jobs, RemovalSteps(j), UNCHANGED importVars
  PROVE  Gentle(j)
<1>1. JobsTyped /\ GateInv /\ RowsTyped /\ ContentTyped
  BY DEF IInv
<1>2. Plain(j) /\ (At(j, "remove", "delete")' => stored = {})
  BY <1>1, BeginRemovalPlain, RemovalDrainedPlain, ValidateAgainPlain, FailPlain DEF RemovalSteps
<1>3. Quiet
  BY DEF RemovalSteps, BeginRemoval, RemovalDrained, ValidateAgain, Fail
<1>4. RowsKept
  BY <1>1, <1>3, QuietKeeps
<1> QED
  BY <1>2, <1>3, <1>4 DEF Gentle, Quiet, Outside

-----------------------------------------------------------------------------
(***************************************************************************)
(* What puts content there, and what takes rows and content away           *)
(***************************************************************************)
\* While a request is inside no removal is at its end.
LEMMA NobodyRemoves ==
  ASSUME GateInv, NEW j \in Jobs, Counted(job[j])
  PROVE  \A k \in Jobs : ~Alone(job[k])
BY DEF GateInv

\* More content: a manifest is put, or copied.
LEMMA StoredGrows ==
  ASSUME ContentTyped, NEW d \in Digests, stored' = stored \cup {d}, named' = TRUE,
         tagOf' \in {d, tagOf}
  PROVE  ContentTyped' /\ stored' # {}
BY DEF ContentTyped

LEMMA ForwardKeeps ==
  ASSUME IInv, NEW j \in Jobs, Forward(j), UNCHANGED importVars
  PROVE  IInv'
<1>1. /\ JobsTyped /\ GateInv /\ RowsTyped /\ ContentTyped /\ CountInv /\ RemovalInv
      /\ pending \in BOOLEAN
  BY DEF IInv
<1>2. Plain(j)
  BY <1>1, PushTurn, PlainTurns
<1>3. job[j].op = "push" /\ job[j].phase = "forward" /\ job[j].digest \in Digests
  BY <1>1 DEF Forward, At, JobsTyped, Shaped
<1>4. ContentTyped' /\ stored' # {}
  BY <1>1, <1>3, StoredGrows DEF Forward
<1>5. RowsKept
  BY <1>1, NothingKeeps DEF Forward
<1>6. \A k \in Jobs : ~Alone(job[k])
  BY <1>1, <1>3, NobodyRemoves DEF Counted
<1>7. job'[j].op = "push"
  BY <1>1, <1>3, ToJob, Names DEF Forward, JobsTyped
<1>8. RemovalInv'
  BY <1>2, <1>6, <1>7 DEF RemovalInv, At, Plain, Moved, Alone
<1>9. SettleInv'
  BY <1>4 DEF SettleInv
<1>10. CountInv'
  BY <1>1, <1>2, SameCount DEF importVars
<1> QED
  BY <1>1, <1>2, <1>4, <1>5, <1>8, <1>9, <1>10 DEF IInv, Plain, Moved, RowsKept, importVars

LEMMA DeleteRowKeeps ==
  ASSUME RowsTyped, DeleteRow, project' \in {project, "deleted"}
  PROVE  RowsTyped' /\ repo' = NoRow
BY DEF RowsTyped, DeleteRow

LEMMA RemoveKeeps ==
  ASSUME IInv, NEW j \in Jobs, Remove(j), UNCHANGED importVars
  PROVE  IInv' /\ stored = {} /\ UNCHANGED project
<1>1. /\ JobsTyped /\ GateInv /\ RowsTyped /\ ContentTyped /\ CountInv /\ RemovalInv
      /\ pending \in BOOLEAN
  BY DEF IInv
<1>2. Plain(j) /\ ~At(j, "remove", "delete")'
  BY <1>1, RemovePlain
<1>3. At(j, "remove", "delete") /\ UNCHANGED <<project, registry>>
  BY DEF Remove, Outside
<1>4. stored = {}
  BY <1>1, <1>3 DEF RemovalInv
<1>5. RowsTyped'
  BY <1>1, <1>3, DeleteRowKeeps, NothingKeeps DEF Remove, RowsKept
<1>6. ContentTyped'
  BY <1>1, <1>3 DEF ContentTyped, registry
<1>7. RemovalInv'
  BY <1>3, <1>4 DEF RemovalInv, registry
<1>8. inside = {}
  BY <1>1, <1>3 DEF GateInv, Alone, At
<1>9. \A k \in Jobs : ~Serving(job[k])
  BY <1>1, <1>8 DEF GateInv, Counted, Serving
<1>10. \A k \in Jobs : ~Serving(job'[k])
  BY <1>2, <1>9 DEF Plain, Moved, Serving
<1>11. CountInv'
  BY <1>1, <1>2, SameCount DEF importVars
<1> QED
  BY <1>1, <1>2, <1>3, <1>4, <1>5, <1>6, <1>7, <1>10, <1>11
     DEF IInv, Plain, Moved, importVars, SettleInv

LEMMA DeleteProjectKeeps ==
  ASSUME IInv, NEW j \in Jobs, DeleteProject(j), UNCHANGED importVars
  PROVE  IInv' /\ project' = "deleted"
<1>1. /\ JobsTyped /\ GateInv /\ RowsTyped /\ ContentTyped /\ CountInv /\ RemovalInv
      /\ pending \in BOOLEAN
  BY DEF IInv
<1>2. Plain(j) /\ ~At(j, "remove", "delete")'
  BY <1>1, RowTurn, Calm
<1>3. project' = "deleted" /\ DeleteRow /\ UNCHANGED registry
  BY DEF DeleteProject
<1>4. RowsTyped'
  BY <1>1, <1>3, DeleteRowKeeps
<1>5. ContentTyped'
  BY <1>1, <1>3 DEF ContentTyped, registry
<1>6. RemovalInv'
  BY <1>1, <1>2, <1>3 DEF RemovalInv, At, Plain, Moved, registry
<1>7. SettleInv'
  BY <1>3 DEF SettleInv
<1>8. CountInv'
  BY <1>1, <1>2, SameCount DEF importVars
<1> QED
  BY <1>1, <1>2, <1>3, <1>4, <1>5, <1>6, <1>7, <1>8 DEF IInv, Plain, Moved, importVars

LEMMA DeleteContentKeeps ==
  ASSUME IInv, NEW d \in Digests, DeleteContent(d), UNCHANGED importVars
  PROVE  IInv' /\ UNCHANGED <<repo, project>>
<1>1. /\ repo # NoRow /\ stored' = stored \ {d} /\ observed' = observed \ {d}
      /\ tagOf' = IF tagOf = d THEN Nothing ELSE tagOf
      /\ named' \in {TRUE, stored' # {}}
      /\ UNCHANGED <<project, repo, made, job, inside, closer, exclusive>>
  BY DEF DeleteContent, Open, gateVars
<1>2. JobsTyped' /\ GateInv' /\ pending' \in BOOLEAN /\ CountInv'
  BY <1>1 DEF IInv, JobsTyped, GateInv, importVars, CountInv, Leads, Copiers
<1>3. RowsTyped'
  BY <1>1 DEF IInv, RowsTyped
<1>4. ContentTyped'
  <2>1. named' \in BOOLEAN /\ (stored' # {} => named')
    BY <1>1
  <2> QED
    BY <1>1, <2>1 DEF IInv, ContentTyped
<1>5. RemovalInv' /\ SettleInv'
  BY <1>1 DEF IInv, RemovalInv, At, SettleInv
<1> QED
  BY <1>1, <1>2, <1>3, <1>4, <1>5 DEF IInv

-----------------------------------------------------------------------------
(***************************************************************************)
(* Pulls and imports                                                       *)
(***************************************************************************)
\* A pull goes on as x, still inside the gate.
Onward(j, x) ==
  /\ job[j].op = "pull" /\ x \in Job /\ Shaped(x) /\ x.op = "pull"
  /\ job' = [job EXCEPT ![j] = x] /\ UNCHANGED gateVars

LEMMA OnwardEffect ==
  ASSUME JobsTyped, GateInv, NEW j \in Jobs, NEW x, Onward(j, x)
  PROVE  Moved(j) /\ job'[j] = x
<1>1. Turn(j, x)
  BY GoingOn DEF Onward, Counted, Shutting
<1> QED
  BY <1>1, TurnEffect

\* What an import that ends does: it and those that waited for it are gone.
LEMMA DoneEffect ==
  ASSUME JobsTyped, GateInv, NEW j \in Jobs, job[j].op = "pull", Done(j)
  PROVE  /\ JobsTyped' /\ GateInv' /\ job'[j] = Idle
         /\ \A k \in Jobs \ {j} : \/ job'[k] = job[k]
                                  \/ job'[k] = Idle /\ At(k, "pull", "wait")
<1> DEFINE gone == {j} \cup IF job[j].lead THEN Followers(j) ELSE {}
<1>1. /\ gone \subseteq Jobs /\ j \in gone
      /\ \A k \in gone : job[k].op = "pull" /\ (k # j => At(k, "pull", "wait"))
  BY DEF Followers, At
<1>2. /\ inside' = inside \ gone /\ closer' = closer
      /\ job' = [k \in Jobs |-> IF k \in gone THEN Idle ELSE job[k]]
  BY DEF Done
<1> HIDE DEF gone
<1>3. \A k \in Jobs : job'[k] = IF k \in gone THEN Idle ELSE job[k]
  BY <1>2
<1>4. JobsTyped'
  BY <1>2, IdleJob DEF JobsTyped
<1>5. inside' = {k \in Jobs : Counted(job'[k])}
  BY <1>2, <1>3, IdleJob DEF GateInv
<1>6. \A k \in Jobs : Shutting(job'[k]) <=> closer' = k
  BY <1>1, <1>2, <1>3, IdleJob DEF GateInv, Shutting
<1>7. ASSUME NEW k \in Jobs, Alone(job'[k]) PROVE inside' = {}
  <2>1. job'[k] = job[k]
    BY <1>3, <1>7, IdleJob DEF Alone
  <2> QED
    BY <1>2, <1>7, <2>1 DEF GateInv
<1>8. GateInv'
  BY <1>2, <1>5, <1>6, <1>7 DEF GateInv
<1> QED
  BY <1>1, <1>3, <1>4, <1>8

\* What is counted: the requests that lead an import are finitely many.
LEMMA CountsFinite ==
  /\ IsFiniteSet(Jobs)
  /\ IsFiniteSet(Leads) /\ IsFiniteSet(Copiers)
  /\ Cardinality(Leads) \in Nat /\ Cardinality(Copiers) \in Nat
  /\ Cardinality(Leads) <= Cardinality(Jobs) /\ Cardinality(Jobs) \in Nat
<1>1. IsFiniteSet(Jobs) /\ Cardinality(Jobs) \in Nat
  BY RepositoriesAssumption, FS_CardinalityType
<1>2. Leads \subseteq Jobs /\ Copiers \subseteq Jobs
  BY DEF Leads, Copiers
<1>3. IsFiniteSet(Leads) /\ Cardinality(Leads) <= Cardinality(Jobs)
  BY <1>1, <1>2, FS_Subset
<1>4. IsFiniteSet(Copiers)
  BY <1>1, <1>2, FS_Subset
<1> QED
  BY <1>1, <1>3, <1>4, FS_CardinalityType

LEMMA EndedCount ==
  ASSUME JobsTyped, GateInv, CountInv, NEW j \in Jobs, job[j].op = "pull", Ended(j)
  PROVE  CountInv'
<1>1. /\ job'[j] = Idle
      /\ \A k \in Jobs \ {j} : \/ job'[k] = job[k]
                               \/ job'[k] = Idle /\ At(k, "pull", "wait")
  BY DoneEffect DEF Ended
<1>2. \A k \in Jobs : At(k, "pull", "wait") => ~job[k].lead
  BY DEF At, JobsTyped, Shaped, Copying
<1>3. \A k \in Jobs \ {j} : /\ job'[k].lead <=> job[k].lead
                            /\ job[k].lead => job'[k] = job[k]
  BY <1>1, <1>2, IdleJob
<1>4. Leads' = Leads \ {j}
  BY <1>1, <1>3, IdleJob DEF Leads
<1>5. Copiers' = Copiers \ {j}
  BY <1>1, <1>3, IdleJob DEF Copiers
<1>6. Cardinality(Leads') = IF j \in Leads THEN active - 1 ELSE active
  BY <1>4, CountsFinite, FS_RemoveElement DEF CountInv
<1>7. Cardinality(Copiers') = IF j \in Copiers THEN slots - 1 ELSE slots
  BY <1>5, CountsFinite, FS_RemoveElement DEF CountInv
<1>8. /\ active' = IF j \in Leads THEN active - 1 ELSE active
      /\ slots' = IF j \in Copiers THEN slots - 1 ELSE slots
  BY DEF Ended, Released, Leads, Copiers
<1>9. slots \in Nat /\ slots <= MaxImports /\ MaxImports \in Nat
  BY CountsFinite, PullThroughAssumption DEF CountInv
<1>10. slots' <= MaxImports
  BY <1>8, <1>9
<1> QED
  BY <1>6, <1>7, <1>8, <1>10 DEF CountInv

\* A pull that leads or does not, as before, on the same side of the slots.
LEMMA OnwardCount ==
  ASSUME JobsTyped, GateInv, CountInv, NEW j \in Jobs, NEW x, Onward(j, x),
         x.lead <=> job[j].lead, x.phase \in Copying <=> job[j].phase \in Copying,
         UNCHANGED <<active, slots>>
  PROVE  CountInv'
<1>1. job'[j] = x /\ \A k \in Jobs \ {j} : job'[k] = job[k]
  BY OnwardEffect DEF Moved
<1>2. Leads' = Leads
  BY <1>1 DEF Leads
<1>3. Copiers' = Copiers
  BY <1>1 DEF Copiers
<1> QED
  BY <1>2, <1>3 DEF CountInv

\* What is left to show of a step of pulls that copies nothing.
LEMMA PullKeeps ==
  ASSUME IInv, JobsTyped', GateInv', CountInv', pending' \in BOOLEAN, RowsKept,
         UNCHANGED registry,
         \A k \in Jobs : \/ job'[k] = job[k]
                         \/ /\ job'[k].op # "remove"
                            /\ Serving(job'[k]) => stored # {} \/ Serving(job[k])
  PROVE  IInv'
<1>1. ContentTyped'
  BY DEF IInv, ContentTyped, registry
<1>2. RemovalInv'
  BY DEF IInv, RemovalInv, At, registry
<1>3. SettleInv'
  BY DEF IInv, SettleInv, registry, RowsKept
<1> QED
  BY <1>1, <1>2, <1>3 DEF IInv, RowsKept

LEMMA EndedKeeps ==
  ASSUME IInv, NEW j \in Jobs, job[j].op = "pull", Ended(j), pending' \in BOOLEAN, RowsKept,
         UNCHANGED registry
  PROVE  IInv'
<1>1. JobsTyped /\ GateInv /\ CountInv
  BY DEF IInv
<1>2. /\ JobsTyped' /\ GateInv'
      /\ \A k \in Jobs : job'[k] = job[k] \/ job'[k] = Idle
  BY <1>1, DoneEffect DEF Ended
<1>3. CountInv'
  BY <1>1, EndedCount
<1> QED
  BY <1>2, <1>3, IdleJob, PullKeeps DEF Serving

LEMMA OnwardKeeps ==
  ASSUME IInv, NEW j \in Jobs, NEW x, Onward(j, x), CountInv', pending' \in BOOLEAN, RowsKept,
         UNCHANGED registry, Serving(x) => stored # {} \/ Serving(job[j])
  PROVE  IInv'
<1>1. Moved(j) /\ job'[j] = x
  BY OnwardEffect DEF IInv
<1> QED
  BY <1>1, PullKeeps DEF Moved, Onward

LEMMA PullStarts ==
  ASSUME IInv, NEW j \in Jobs, Pull(j)
  PROVE  IInv'
<1> DEFINE h == Handler("pull", "resolve")
           x == [h EXCEPT !.id = repo.id]
<1>1. JobsTyped /\ GateInv /\ RowsTyped /\ CountInv
  BY DEF IInv
<1>2. Enter(j, x) /\ job[j] = Idle /\ Quiet /\ UNCHANGED importVars
  BY DEF Pull, Enter, Start
<1>3. h \in Job /\ h.op = "pull" /\ h.phase = "resolve" /\ ~h.lead
  BY HandlerJob, Names
<1>4. x \in Job /\ x.op = "pull" /\ x.phase = "resolve" /\ ~x.lead
  BY <1>1, <1>3, RowFields DEF Job
<1> HIDE DEF x
<1>5. Turn(j, x)
  BY <1>1, <1>2, <1>4, IdleJob, Entering DEF Shaped, Counted, Copying
<1>6. Moved(j) /\ job'[j] = x
  BY <1>1, <1>5, TurnEffect
<1>7. Leads' = Leads /\ Copiers' = Copiers
  BY <1>2, <1>4, <1>6, IdleJob DEF Leads, Copiers, Moved
<1>8. CountInv'
  BY <1>1, <1>2, <1>7 DEF CountInv, importVars
<1>9. RowsKept
  BY <1>1, <1>2, QuietKeeps
<1> QED
  BY <1>2, <1>4, <1>6, <1>8, <1>9, PullKeeps
     DEF Moved, Serving, Quiet, Outside, importVars, IInv

LEMMA ResolveKeeps ==
  ASSUME IInv, NEW j \in Jobs, Resolve(j)
  PROVE  IInv'
<1>1. JobsTyped /\ GateInv /\ RowsTyped /\ ContentTyped /\ CountInv /\ pending' \in BOOLEAN
  BY DEF IInv, Resolve, importVars
<1>2. /\ job[j].op = "pull" /\ job[j].phase = "resolve" /\ ~job[j].lead
      /\ RowsKept /\ UNCHANGED <<registry, importVars>>
  BY <1>1, QuietKeeps DEF Resolve, At, Quiet, Outside, JobsTyped, Shaped, Copying
<1>3. ASSUME NEW x, Onward(j, x), ~x.lead, x.phase \notin {"recheck", "copy", "settle", "observe"},
             ~Serving(x)
      PROVE  IInv'
  BY <1>1, <1>2, <1>3, OnwardCount, OnwardKeeps DEF importVars, Copying
<1>4. CASE tagOf # Nothing /\ job' = [job EXCEPT ![j].phase = "settle", ![j].got = tagOf]
           /\ UNCHANGED gateVars
  <2> DEFINE x == [job[j] EXCEPT !.phase = "settle", !.got = tagOf]
  <2>1. tagOf \in Digests /\ stored # {} /\ job[j] \in Job
    BY <1>1, <1>4 DEF ContentTyped, JobsTyped
  <2>2. x \in Job /\ x.op = "pull" /\ x.phase = "settle" /\ x.got = tagOf /\ ~x.lead
    BY <1>2, <2>1, Names DEF Job
  <2>3. job' = [job EXCEPT ![j] = x]
    BY <1>4
  <2> HIDE DEF x
  <2>4. Onward(j, x)
    BY <1>2, <1>4, <2>1, <2>2, <2>3, IdleJob DEF Onward, Shaped, Copying
  <2>5. Moved(j) /\ job'[j] = x
    BY <1>1, <2>4, OnwardEffect
  <2>6. Leads' = Leads /\ Copiers' = Copiers
    BY <1>2, <2>2, <2>5 DEF Leads, Copiers, Moved
  <2>7. CountInv'
    BY <1>1, <1>2, <2>6 DEF CountInv, importVars
  <2> QED
    BY <1>1, <1>2, <2>1, <2>4, <2>7, OnwardKeeps
<1>5. CASE Done(j)
  <2>1. Ended(j)
    BY <1>2, <1>5 DEF Ended, Released, importVars
  <2> QED
    BY <1>1, <1>2, <2>1, EndedKeeps
<1>6. ASSUME NEW d \in Digests, UNCHANGED gateVars,
             job' = [job EXCEPT ![j].phase = "join", ![j].digest = d]
      PROVE  IInv'
  <2> DEFINE x == [job[j] EXCEPT !.phase = "join", !.digest = d]
  <2>1. job[j] \in Job
    BY <1>1 DEF JobsTyped
  <2>2. x \in Job /\ x.op = "pull" /\ x.phase = "join" /\ x.digest = d /\ ~x.lead
    BY <1>2, <2>1, Names DEF Job
  <2>3. job' = [job EXCEPT ![j] = x]
    BY <1>6
  <2> HIDE DEF x
  <2>4. Onward(j, x)
    BY <1>2, <1>6, <2>2, <2>3, IdleJob DEF Onward, Shaped, Copying
  <2> QED
    BY <1>1, <1>2, <2>2, <2>4, OnwardCount, OnwardKeeps DEF Serving, importVars, Copying
<1> QED
  BY <1>4, <1>5, <1>6 DEF Resolve, Upstream

LEMMA JoinKeeps ==
  ASSUME IInv, NEW j \in Jobs, Join(j)
  PROVE  IInv'
<1>1. /\ JobsTyped /\ GateInv /\ RowsTyped /\ CountInv /\ pending' \in BOOLEAN
      /\ UNCHANGED <<gateVars, slots, registry>>
  BY DEF IInv, Join, Quiet, Outside
<1>2. /\ job[j].op = "pull" /\ job[j].phase = "join" /\ ~job[j].lead /\ job[j].digest \in Digests
      /\ RowsKept /\ job[j] \in Job
  BY <1>1, QuietKeeps DEF Join, At, JobsTyped, Shaped, Copying
<1>3. CASE To(j, "wait") /\ UNCHANGED active
  <2>1. PICK x \in Job : /\ job' = [job EXCEPT ![j] = x] /\ x.op = "pull" /\ x.phase = "wait"
                         /\ x.digest = job[j].digest /\ x.lead = job[j].lead
    BY <1>1, <1>2, <1>3, ToJob, Names
  <2>2. Onward(j, x)
    BY <1>1, <1>2, <2>1, IdleJob DEF Onward, Shaped, Copying
  <2>3. CountInv'
    BY <1>1, <1>2, <1>3, <2>1, <2>2, OnwardCount DEF Copying
  <2> QED
    BY <1>1, <1>2, <2>1, <2>2, <2>3, OnwardKeeps DEF Serving
<1>4. CASE job' = [job EXCEPT ![j].phase = "slot", ![j].lead = TRUE] /\ active' = active + 1
  <2> DEFINE x == [job[j] EXCEPT !.phase = "slot", !.lead = TRUE]
  <2>1. x \in Job /\ x.op = "pull" /\ x.phase = "slot" /\ x.digest = job[j].digest /\ x.lead
    BY <1>2, Names DEF Job
  <2>2. job' = [job EXCEPT ![j] = x]
    BY <1>4
  <2> HIDE DEF x
  <2>3. Onward(j, x)
    BY <1>1, <1>2, <2>1, <2>2, IdleJob DEF Onward, Shaped, Copying
  <2>4. job'[j] = x /\ \A k \in Jobs \ {j} : job'[k] = job[k]
    BY <1>1, <2>3, OnwardEffect DEF Moved
  <2>5. Leads' = Leads \cup {j} /\ j \notin Leads
    BY <1>2, <2>1, <2>4 DEF Leads
  <2>6. Copiers' = Copiers
    BY <1>2, <2>1, <2>4 DEF Copiers, Copying
  <2>7. Cardinality(Leads') = Cardinality(Leads) + 1
    BY <2>5, CountsFinite, FS_AddElement
  <2>8. CountInv'
    BY <1>1, <1>4, <2>6, <2>7 DEF CountInv
  <2> QED
    BY <1>1, <1>2, <2>1, <2>3, <2>8, OnwardKeeps DEF Serving
<1> QED
  BY <1>3, <1>4 DEF Join

LEMMA AcquireSlotKeeps ==
  ASSUME IInv, NEW j \in Jobs, AcquireSlot(j)
  PROVE  IInv'
<1>1. /\ JobsTyped /\ GateInv /\ RowsTyped /\ CountInv /\ pending' \in BOOLEAN
      /\ UNCHANGED <<gateVars, active, registry>> /\ slots < MaxImports /\ slots' = slots + 1
  BY DEF IInv, AcquireSlot, Quiet, Outside
<1>2. /\ job[j].op = "pull" /\ job[j].phase = "slot" /\ job[j].lead /\ job[j].digest \in Digests
      /\ RowsKept /\ To(j, "recheck")
  BY <1>1, QuietKeeps DEF AcquireSlot, At, JobsTyped, Shaped
<1>3. PICK x \in Job : /\ job' = [job EXCEPT ![j] = x] /\ x.op = "pull" /\ x.phase = "recheck"
                       /\ x.digest = job[j].digest /\ x.lead = job[j].lead
  <2>1. JobsTyped /\ To(j, "recheck") /\ job[j].op = "pull"
    BY <1>1, <1>2
  <2> QED
    BY <2>1, ToJob, Names
<1>4. Onward(j, x)
  BY <1>1, <1>2, <1>3, IdleJob DEF Onward, Shaped, Copying
<1>5. job'[j] = x /\ \A k \in Jobs \ {j} : job'[k] = job[k]
  BY <1>1, <1>4, OnwardEffect DEF Moved
<1>6. Leads' = Leads
  BY <1>2, <1>3, <1>5 DEF Leads
<1>7. Copiers' = Copiers \cup {j} /\ j \notin Copiers
  BY <1>2, <1>3, <1>5 DEF Copiers, Copying
<1>8. Cardinality(Copiers') = Cardinality(Copiers) + 1
  BY <1>7, CountsFinite, FS_AddElement
<1>9. slots \in Nat /\ MaxImports \in Nat
  BY <1>1, CountsFinite, PullThroughAssumption DEF CountInv
<1>10. slots' <= MaxImports
  BY <1>1, <1>9
<1>11. CountInv'
  BY <1>1, <1>6, <1>8, <1>10 DEF CountInv
<1> QED
  BY <1>1, <1>2, <1>3, <1>4, <1>11, OnwardKeeps DEF Serving

LEMMA SlotTimesOutKeeps ==
  ASSUME IInv, NEW j \in Jobs, SlotTimesOut(j)
  PROVE  IInv'
<1>1. RowsKept /\ job[j].op = "pull" /\ UNCHANGED <<registry, pending>>
  BY QuietKeeps DEF SlotTimesOut, Quiet, Outside, At, IInv
<1> QED
  BY <1>1, EndedKeeps DEF SlotTimesOut, IInv

LEMMA RecheckKeeps ==
  ASSUME IInv, NEW j \in Jobs, Recheck(j)
  PROVE  IInv'
<1> DEFINE p == IF tagOf = job[j].digest THEN "settle" ELSE "copy"
           x == [job[j] EXCEPT !.phase = p, !.got = tagOf]
<1>1. /\ JobsTyped /\ GateInv /\ RowsTyped /\ ContentTyped /\ CountInv /\ pending' \in BOOLEAN
      /\ UNCHANGED <<gateVars, active, slots, registry>>
  BY DEF IInv, Recheck, Quiet, Outside, importVars
<1>2. /\ job[j].op = "pull" /\ job[j].phase = "recheck" /\ job[j].lead /\ job[j].digest \in Digests
      /\ RowsKept /\ job[j] \in Job
  BY <1>1, QuietKeeps DEF Recheck, At, JobsTyped, Shaped
<1>3. /\ p \in {"settle", "copy"} /\ tagOf \in Digests \cup {Nothing}
      /\ p = "settle" => tagOf \in Digests
      /\ tagOf # Nothing => stored # {}
  BY <1>1, <1>2 DEF ContentTyped
<1>4. job' = [job EXCEPT ![j] = x]
  BY DEF Recheck
<1> HIDE DEF p
<1>5. /\ x \in Job /\ x.op = "pull" /\ x.phase = p /\ x.got = tagOf /\ x.lead
      /\ x.digest = job[j].digest
  BY <1>2, <1>3, Names DEF Job
<1> HIDE DEF x
<1>6. Onward(j, x)
  BY <1>1, <1>2, <1>3, <1>4, <1>5, IdleJob DEF Onward, Shaped, Copying
<1>7. CountInv'
  BY <1>1, <1>2, <1>3, <1>5, <1>6, OnwardCount DEF Copying
<1>8. Serving(x) => stored # {}
  BY <1>3, <1>5, RepositoriesAssumption DEF Serving
<1> QED
  BY <1>1, <1>2, <1>6, <1>7, <1>8, OnwardKeeps

LEMMA CopyKeeps ==
  ASSUME IInv, NEW j \in Jobs, NEW d \in Digests, Copy(j, d)
  PROVE  IInv'
<1> DEFINE x == [job[j] EXCEPT !.phase = "settle", !.got = d]
<1>1. /\ JobsTyped /\ GateInv /\ RowsTyped /\ ContentTyped /\ CountInv /\ pending' \in BOOLEAN
      /\ UNCHANGED <<gateVars, active, slots, project, rows>>
  BY DEF IInv, Copy, importVars
<1>2. /\ job[j].op = "pull" /\ job[j].phase = "copy" /\ job[j].lead /\ RowsKept /\ job[j] \in Job
  BY <1>1, NothingKeeps DEF Copy, At, JobsTyped, Shaped
<1>3. x \in Job /\ x.op = "pull" /\ x.phase = "settle" /\ x.got = d /\ x.lead
  BY <1>2, Names DEF Job
<1>4. job' = [job EXCEPT ![j] = x]
  BY DEF Copy
<1> HIDE DEF x
<1>5. Onward(j, x)
  BY <1>1, <1>2, <1>3, <1>4, IdleJob DEF Onward, Shaped, Copying
<1>6. Moved(j) /\ job'[j] = x
  BY <1>1, <1>5, OnwardEffect
<1>7. CountInv'
  BY <1>1, <1>2, <1>3, <1>5, OnwardCount DEF Copying
<1>8. ContentTyped' /\ stored' # {}
  BY <1>1, StoredGrows DEF Copy
<1>9. \A k \in Jobs : ~Alone(job[k])
  BY <1>1, <1>2, NobodyRemoves DEF Counted
<1>10. RemovalInv'
  BY <1>3, <1>6, <1>9 DEF RemovalInv, At, Moved, Alone
<1>11. SettleInv'
  BY <1>8 DEF SettleInv
<1> QED
  BY <1>1, <1>2, <1>6, <1>7, <1>8, <1>10, <1>11 DEF IInv, Moved, RowsKept

\* A pull inside the slots goes on to settle, or to observe.
LEMMA CopyingGoesOn ==
  ASSUME IInv, NEW j \in Jobs, NEW p \in {"settle", "observe"},
         job[j].op = "pull", job[j].phase \in {"copy", "settle"}, job[j].got # Nothing,
         p = "settle" => Serving(job[j]),
         To(j, p), UNCHANGED <<gateVars, active, slots>>, RowsKept, UNCHANGED registry,
         pending' \in BOOLEAN
  PROVE  IInv'
<1>1. JobsTyped /\ GateInv /\ CountInv /\ job[j] \in Job
  BY DEF IInv, JobsTyped
<1>2. PICK x \in Job : /\ job' = [job EXCEPT ![j] = x] /\ x.op = "pull" /\ x.phase = p
                       /\ x.got = job[j].got /\ x.lead = job[j].lead
  BY <1>1, ToJob, Names
<1>3. x.got \in Digests
  BY <1>1, <1>2 DEF Job
<1>4. Onward(j, x)
  BY <1>2, <1>3, IdleJob DEF Onward, Shaped, Copying
<1>5. CountInv'
  BY <1>1, <1>2, <1>4, OnwardCount DEF Copying
<1> QED
  BY <1>2, <1>4, <1>5, OnwardKeeps DEF Serving

LEMMA CopyFailsKeeps ==
  ASSUME IInv, NEW j \in Jobs, CopyFails(j)
  PROVE  IInv'
<1>1. /\ job[j].op = "pull" /\ job[j].phase = "copy" /\ Quiet /\ UNCHANGED pending
      /\ pending \in BOOLEAN /\ RowsTyped
  BY DEF CopyFails, At, IInv
<1>2. RowsKept /\ UNCHANGED registry /\ pending' \in BOOLEAN
  BY <1>1, QuietKeeps DEF Quiet, Outside
<1>3. CASE job[j].got # Nothing
  <2>1. To(j, "settle") /\ UNCHANGED <<gateVars, active, slots>>
    BY <1>3 DEF CopyFails
  <2>2. Serving(job[j])
    BY <1>1, <1>3 DEF Serving
  <2> QED
    BY <1>1, <1>2, <1>3, <2>1, <2>2, CopyingGoesOn
<1>4. CASE job[j].got = Nothing
  BY <1>1, <1>2, <1>4, EndedKeeps DEF CopyFails
<1> QED
  BY <1>3, <1>4

LEMMA SettleKeeps ==
  ASSUME IInv, NEW j \in Jobs, Settle(j)
  PROVE  IInv'
<1>1. /\ job[j].op = "pull" /\ job[j].phase = "settle" /\ UNCHANGED <<project, registry>>
      /\ pending \in BOOLEAN /\ RowsTyped
  BY DEF Settle, At, IInv, Outside
<1>2. job[j].got # Nothing
  BY <1>1, RepositoriesAssumption DEF IInv, JobsTyped, Shaped
<1>3. \/ UNCHANGED rows
      \/ Insert("empty", FALSE)
  BY DEF Settle, EnsureFromPullThrough, Find
<1>4. RowsKept
  BY <1>1, <1>3, NothingKeeps, InsertKeeps
<1>5. /\ pending' \in BOOLEAN
      /\ \/ Ended(j)
         \/ To(j, "observe") /\ UNCHANGED <<gateVars, active, slots>>
  BY <1>1 DEF Settle, EnsureFromPullThrough, Recorded
<1> QED
  BY <1>1, <1>2, <1>4, <1>5, EndedKeeps, CopyingGoesOn

LEMMA ObserveImportKeeps ==
  ASSUME IInv, NEW j \in Jobs, ObserveImport(j)
  PROVE  IInv'
<1>1. /\ job[j].op = "pull" /\ Ended(j) /\ UNCHANGED <<project, registry, repo, made, pending>>
      /\ pending \in BOOLEAN /\ RowsTyped /\ ContentTyped
  BY DEF ObserveImport, At, IInv, Outside
<1>2. CASE Observe(job[j].got)
  <2>1. RowsKept
    BY <1>1, <1>2, ObserveKeeps
  <2> QED
    BY <1>1, <2>1, EndedKeeps
<1>3. CASE UNCHANGED observed
  <2>1. RowsKept
    BY <1>1, <1>3, NothingKeeps DEF rows
  <2> QED
    BY <1>1, <2>1, EndedKeeps
<1> QED
  BY <1>2, <1>3 DEF ObserveImport

\* Grom stops: nobody is inside, nothing is counted.
LEMMA RestartKeeps ==
  ASSUME IInv, Restart
  PROVE  IInv'
<1> DEFINE h == Handler("push", "token")
<1>1. h \in Job /\ h.op = "push" /\ h.phase = "token" /\ ~h.lead
  BY HandlerJob, Names
<1>2. Shaped(h) /\ ~Counted(h) /\ ~Shutting(h) /\ ~Alone(h)
  BY <1>1, IdleJob DEF Shaped, Counted, Shutting, Alone
<1>3. /\ inside' = {} /\ closer' = Nobody /\ active' = 0 /\ slots' = 0 /\ pending' = FALSE
      /\ Quiet
  BY DEF Restart
<1>4. job' \in [Jobs -> {Idle, h}]
  BY DEF Restart
<1> HIDE DEF h
<1>5. \A k \in Jobs : job'[k] = Idle \/ job'[k] = h
  BY <1>4
<1>6. JobsTyped'
  BY <1>1, <1>2, <1>4, <1>5, IdleJob DEF JobsTyped
<1>7. GateInv'
  BY <1>2, <1>3, <1>5, IdleJob, RepositoriesAssumption DEF GateInv, Shutting, Alone
<1>8. Leads' = {} /\ Copiers' = {}
  BY <1>1, <1>5, IdleJob DEF Leads, Copiers
<1>9. CountInv'
  BY <1>3, <1>8, FS_EmptySet, PullThroughAssumption DEF CountInv
<1>10. \A k \in Jobs : job'[k].op # "remove" /\ ~Serving(job'[k])
  BY <1>1, <1>5, IdleJob DEF Serving
<1>11. RowsKept
  BY <1>3, QuietKeeps DEF IInv
<1> QED
  BY <1>3, <1>6, <1>7, <1>9, <1>10, <1>11, PullKeeps DEF Quiet, Outside

-----------------------------------------------------------------------------
LEMMA Initially == Init => IInv
<1> SUFFICES ASSUME Init PROVE IInv
  OBVIOUS
<1>1. /\ inside = {} /\ closer = Nobody /\ project = "present" /\ repo = NoRow /\ made = 0
      /\ observed = {} /\ stored = {} /\ tagOf = Nothing /\ named = FALSE
      /\ job = [j \in Jobs |-> Idle] /\ active = 0 /\ slots = 0 /\ pending = FALSE
  BY DEF Init, RepositoriesInit, GateInit
<1>2. \A j \in Jobs : job[j] = Idle
  BY <1>1
<1>3. JobsTyped
  BY <1>1, <1>2, IdleJob DEF JobsTyped
<1>4. GateInv
  BY <1>1, <1>2, IdleJob, RepositoriesAssumption DEF GateInv, Shutting, Alone
<1>5. RowsTyped /\ ContentTyped
  BY <1>1 DEF RowsTyped, ContentTyped
<1>6. Leads = {} /\ Copiers = {}
  BY <1>2, IdleJob DEF Leads, Copiers
<1>7. CountInv
  BY <1>1, <1>6, FS_EmptySet, PullThroughAssumption DEF CountInv
<1>8. RemovalInv /\ SettleInv
  BY <1>1, <1>2, IdleJob DEF RemovalInv, At, SettleInv, Serving
<1> QED
  BY <1>1, <1>3, <1>4, <1>5, <1>7, <1>8 DEF IInv

\* A row that goes without its project goes while there is nothing under it,
\* and a deleted project does not come back.
Sound ==
  /\ repo # NoRow /\ repo' = NoRow /\ project' = "present" => stored = {}
  /\ project' = "present" => project = "present"

LEMMA KeptIsSound ==
  ASSUME RowsKept
  PROVE  Sound
BY DEF RowsKept, Sound

LEMMA RepositoriesStepKeeps ==
  ASSUME IInv, RepositoriesStep, UNCHANGED importVars
  PROVE  IInv' /\ Sound
<1>1. ASSUME NEW j \in Jobs, RequestSteps(j) PROVE IInv' /\ Sound
  BY <1>1, RequestStepsGentle, GentleKeeps, KeptIsSound DEF Gentle
<1>2. ASSUME NEW j \in Jobs, RowSteps(j) PROVE IInv' /\ Sound
  BY <1>2, RowStepsGentle, GentleKeeps, KeptIsSound DEF Gentle
<1>3. ASSUME NEW j \in Jobs, RemovalSteps(j) PROVE IInv' /\ Sound
  BY <1>3, RemovalStepsGentle, GentleKeeps, KeptIsSound DEF Gentle
<1>4. ASSUME NEW j \in Jobs, Remove(j) PROVE IInv' /\ Sound
  BY <1>4, RemoveKeeps DEF Sound
<1>5. ASSUME NEW j \in Jobs, Forward(j) PROVE IInv' /\ Sound
  <2>1. UNCHANGED <<repo, project>>
    BY <1>5 DEF Forward, rows
  <2> QED
    BY <1>5, <2>1, ForwardKeeps DEF Sound
<1>6. ASSUME NEW j \in Jobs, DeleteProject(j) PROVE IInv' /\ Sound
  BY <1>6, DeleteProjectKeeps DEF Sound
<1>7. ASSUME NEW d \in Digests, DeleteContent(d) PROVE IInv' /\ Sound
  BY <1>7, DeleteContentKeeps DEF Sound
<1> QED
  BY <1>1, <1>2, <1>3, <1>4, <1>5, <1>6, <1>7
     DEF RepositoriesStep, RequestSteps, RowSteps, RemovalSteps

LEMMA ImportKeepsRow ==
  ASSUME RowsTyped, ContentTyped, ImportStep \/ Restart
  PROVE  Sound
<1>1. CASE Quiet
  BY <1>1, QuietKeeps, KeptIsSound
<1>2. ASSUME NEW j \in Jobs, NEW d \in Digests, Copy(j, d) PROVE Sound
  BY <1>2 DEF Copy, rows, Sound
<1>3. ASSUME NEW j \in Jobs, Settle(j) PROVE Sound
  <2>1. UNCHANGED project /\ (UNCHANGED rows \/ Insert("empty", FALSE))
    BY <1>3 DEF Settle, Outside, EnsureFromPullThrough, Find
  <2> QED
    BY <2>1, NothingKeeps, InsertKeeps, KeptIsSound
<1>4. ASSUME NEW j \in Jobs, ObserveImport(j) PROVE Sound
  BY <1>4 DEF ObserveImport, Outside, Sound
<1> QED
  BY <1>1, <1>2, <1>3, <1>4
     DEF ImportStep, Pull, Resolve, Join, AcquireSlot, SlotTimesOut, Recheck, CopyFails, Restart

LEMMA NextKeeps ==
  ASSUME IInv, Next
  PROVE  IInv' /\ Sound
<1>1. CASE RepositoriesStep /\ UNCHANGED importVars
  BY <1>1, RepositoriesStepKeeps
<1>2. ASSUME NEW j \in Jobs, RequestProjectDeletion(j, Importing), UNCHANGED importVars
      PROVE  IInv' /\ Sound
  <2>1. Importing \in BOOLEAN
    BY DEF Importing
  <2>2. RequestSteps(j)
    BY <1>2, <2>1 DEF RequestSteps
  <2> QED
    BY <1>2, <2>2, RequestStepsGentle, GentleKeeps, KeptIsSound DEF Gentle
<1>3. CASE ImportStep
  <2>1. IInv'
    BY <1>3, PullStarts, ResolveKeeps, JoinKeeps, AcquireSlotKeeps, SlotTimesOutKeeps, RecheckKeeps,
       CopyKeeps, CopyFailsKeeps, SettleKeeps, ObserveImportKeeps DEF ImportStep
  <2> QED
    BY <1>3, <2>1, ImportKeepsRow DEF IInv
<1>4. CASE Restart
  BY <1>4, RestartKeeps, ImportKeepsRow DEF IInv
<1> QED
  BY <1>1, <1>2, <1>3, <1>4 DEF Next

LEMMA StutterKeeps ==
  ASSUME IInv, UNCHANGED vars
  PROVE  IInv'
<1>1. UNCHANGED <<inside, closer, exclusive, project, repo, made, observed, stored, tagOf, named,
                  job, active, slots, pending>>
  BY DEF vars, gateVars, rows, registry, importVars
<1> QED
  BY <1>1 DEF IInv, JobsTyped, GateInv, RowsTyped, ContentTyped, CountInv, Leads, Copiers,
              RemovalInv, At, SettleInv

LEMMA Invariance == Spec => []IInv
<1>1. IInv /\ [Next]_vars => IInv'
  BY NextKeeps, StutterKeeps
<1> QED
  BY <1>1, Initially, PTL DEF Spec

-----------------------------------------------------------------------------
LEMMA Implied ==
  ASSUME IInv
  PROVE  TypeOK /\ ImportsCounted
<1>1. repo # NoRow => /\ repo.id \in 1 .. made
                      /\ repo.status \in {"empty", "active", "archived"}
                      /\ repo.version \in Nat /\ repo.immutable \in BOOLEAN
  BY RowFields DEF IInv, RowsTyped
<1>2. RepositoriesTypeOK
  BY <1>1 DEF RepositoriesTypeOK, IInv, RowsTyped, ContentTyped, GateInv, JobsTyped, Shaped
<1>3. ImportsCounted
  BY DEF ImportsCounted, IInv, CountInv, Leads, Copiers
<1>4. active \in 0 .. Cardinality(Jobs) /\ slots \in 0 .. MaxImports
  BY CountsFinite, PullThroughAssumption DEF IInv, CountInv
<1>5. pending \in BOOLEAN /\ \A j \in Jobs : job[j].lead => job[j].phase \in Copying \cup {"slot"}
  BY DEF IInv, JobsTyped, Shaped
<1> QED
  BY <1>2, <1>3, <1>4, <1>5 DEF TypeOK

\* The row, the content and the handlers keep their types; what is tagged is
\* stored, what is stored is in the catalog, a deleted project has no row, and
\* no more imports copy than GROM_PULL_THROUGH_MAX_CONCURRENT_IMPORTS allows.
THEOREM TypeCorrect == Spec => []TypeOK
<1>1. IInv => TypeOK
  BY Implied
<1> QED
  BY <1>1, Invariance, PTL

\* The counter that keeps a project from being deleted is the number of the
\* imports under way, however each of them ends: beginImport and finish of
\* pull_through_service.go are matched on every path.
THEOREM CountsAreKept == Spec => []ImportsCounted
<1>1. IInv => ImportsCounted
  BY Implied
<1> QED
  BY <1>1, Invariance, PTL

\* removeRepository never takes away the row of a repository that has content:
\* what was validated before and after the drain still holds when Remove
\* deletes the row, since whoever puts content there is inside the gate.
THEOREM RemovalIsSafe == Spec => RemovalKeepsContent
<1>1. IInv /\ [Next]_vars =>
        [repo # NoRow /\ repo' = NoRow /\ project' = "present" => stored = {}]_<<repo, project>>
  BY NextKeeps DEF Sound, vars, rows
<1> QED
  BY <1>1, Invariance, PTL DEF Spec, RemovalKeepsContent

\* EnsureFromPullThrough makes a row only over an image that Distribution has:
\* between the moment a pull sees or copies it and the moment the row is made,
\* only a deletion of content could take it away, and that needs the row.
THEOREM ImportsAreNotEmpty == Spec => NoEmptyImport
<1> DEFINE A == \A j \in Jobs :
                  At(j, "pull", "settle") /\ repo = NoRow /\ repo' # NoRow /\ job'[j] # job[j]
                    => stored # {}
<1>1. ASSUME IInv, IInv', Next PROVE A
  <2>1. repo' # NoRow => project = "present"
    BY <1>1, NextKeeps DEF Sound, IInv, RowsTyped
  <2> QED
    BY <1>1, <2>1 DEF IInv, SettleInv, Serving, At
<1>2. ASSUME UNCHANGED vars PROVE A \/ UNCHANGED vars
  BY <1>2
<1>3. IInv /\ IInv' /\ [Next]_vars => [A]_vars
  BY <1>1, <1>2
<1> QED
  BY <1>3, Invariance, PTL DEF Spec, NoEmptyImport
=============================================================================
