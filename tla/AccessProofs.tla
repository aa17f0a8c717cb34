---------------------------- MODULE AccessProofs ----------------------------
(***************************************************************************)
(* Theorems about Access, for any number of users and of requests at once. *)
(*                                                                         *)
(* What a transaction has counted is still so at its commit only because   *)
(* of the locks it holds, so the invariant is about the jobs between the   *)
(* two: AdminInv about those past the advisory lock, KeyInv about those    *)
(* past the lock of a user's row.  LinkInv says that a link about to be    *)
(* spent is not spent, and SessionInv that a session belongs to the        *)
(* present epoch of its user unless its login was under way at the change. *)
(***************************************************************************)
EXTENDS Access, FiniteSetTheorems, TLAPS

Ops == {"none", "promote", "disable", "reset", "complete", "login", "key", "viewer"}
Phases == {"idle", "admin", "viewer", "lock", "update", "commit", "mark", "insert", "spend",
           "set", "session", "count"}
Job == [op : Ops, phase : Phases, user : Users \cup {Nobody}, link : Nat,
        marked : SUBSET Nat, epoch : Nat]

\* The operations that are about a user.
OfUser == {"promote", "disable", "reset", "complete", "login", "viewer"}

JobsTyped ==
  /\ job \in [Jobs -> Job]
  /\ \A j \in Jobs : job[j].op \in OfUser => job[j].user \in Users

Link == [user : Users, registers : BOOLEAN, state : {"unused", "used", "expired"}, uses : Nat]
Session == [user : Users, epoch : Nat, late : BOOLEAN]

UsersTyped == users \in [Users -> AnyUser]
LinksTyped == links \in Seq(Link)
SessionsTyped == sessions \subseteq Session /\ revoked \in [Users -> Nat]
TokensTyped ==
  /\ account \in {"none", "enabled", "disabled"} /\ keys \in Nat
  /\ viewerTokens \subseteq Users

-----------------------------------------------------------------------------
(***************************************************************************)
(* What a step does to the jobs                                            *)
(***************************************************************************)
LEMMA IdleJob == Idle \in Job /\ Idle.op = "none" /\ Idle.phase = "idle" /\ Idle.marked = {}
BY DEF Idle, Job, Ops, Phases

OthersStay(j) == \A k \in Jobs \ {j} : job'[k] = job[k]

LEMMA Ending ==
  ASSUME JobsTyped, NEW j \in Jobs, End(j)
  PROVE  JobsTyped' /\ OthersStay(j) /\ job'[j] = Idle
BY IdleJob DEF JobsTyped, End, OthersStay, OfUser

\* The job goes on with the same request.
SameRequest(j) ==
  /\ job'[j].op = job[j].op /\ job'[j].user = job[j].user
  /\ job'[j].link = job[j].link /\ job'[j].epoch = job[j].epoch

LEMMA Moving ==
  ASSUME JobsTyped, NEW j \in Jobs, NEW p \in Phases, To(j, p)
  PROVE  /\ JobsTyped' /\ OthersStay(j) /\ SameRequest(j)
         /\ job'[j].phase = p /\ job'[j].marked = job[j].marked
<1> DEFINE x == [job[j] EXCEPT !.phase = p]
<1>1. /\ x \in Job /\ x.op = job[j].op /\ x.user = job[j].user /\ x.phase = p
      /\ x.link = job[j].link /\ x.epoch = job[j].epoch /\ x.marked = job[j].marked
  BY DEF JobsTyped, Job
<1>2. job' = [job EXCEPT ![j] = x]
  BY DEF To
<1> QED
  BY <1>1, <1>2 DEF JobsTyped, OthersStay, SameRequest, OfUser

LEMMA Starting ==
  ASSUME JobsTyped, NEW j \in Jobs, NEW o \in Ops, NEW p \in Phases,
         NEW u \in Users \cup {Nobody}, o \in OfUser => u \in Users, Start(j, o, p, u)
  PROVE  /\ JobsTyped' /\ OthersStay(j)
         /\ job'[j].op = o /\ job'[j].phase = p /\ job'[j].marked = {}
<1> DEFINE x == [Idle EXCEPT !.op = o, !.phase = p, !.user = u]
<1>1. x \in Job /\ x.op = o /\ x.user = u /\ x.phase = p /\ x.marked = {}
  BY DEF Idle, Job, Ops, Phases
<1>2. job' = [job EXCEPT ![j] = x]
  BY DEF Start
<1> QED
  BY <1>1, <1>2 DEF JobsTyped, OthersStay, OfUser

\* What needs no job.
Directly ==
  \/ \E u \in Users : CreateUser(u) \/ ReactivateUser(u) \/ RevokeViewerToken(u)
  \/ \E l \in DOMAIN links : LinkExpires(l)
  \/ \E s \in sessions : Logout(s)
  \/ CreateServiceAccount \/ DisableServiceAccount \/ RevokeKey \/ KeyExpires
  \/ UNCHANGED vars

LEMMA DirectSteps == Directly => job' = job
BY DEF Directly, CreateUser, ReactivateUser, RevokeViewerToken, LinkExpires, Logout,
       CreateServiceAccount, DisableServiceAccount, RevokeKey, KeyExpires, vars

\* A request that takes more than one step begins.
Requests(j) ==
  \/ \E u \in Users :
       \/ \E role \in {"admin", "viewer"} : RequestPromotion(j, u, role)
       \/ \E actor \in Users : RequestDisable(j, actor, u)
       \/ RequestReset(j, u) \/ Login(j, u) \/ RequestViewerToken(j, u)
  \/ \E l \in DOMAIN links : RequestCompletion(j, l)
  \/ RequestKey(j)

\* With nothing locked, and nothing changed.
Begun(j) ==
  /\ JobsTyped' /\ OthersStay(j)
  /\ job'[j].marked = {} /\ job'[j].op # "none"
  /\ job'[j].phase \notin {"update", "commit", "set", "count"}
  /\ job'[j].op = "key" => job'[j].phase = "lock"
  /\ job'[j].op = "login" => job'[j].epoch = revoked[job'[j].user]
  /\ job'[j].op = "complete" => job'[j].link \in DOMAIN links
  /\ UNCHANGED <<people, tokens>>

LEMMA RequestSteps ==
  ASSUME JobsTyped, LinksTyped, SessionsTyped, NEW j \in Jobs, Requests(j)
  PROVE  Begun(j)
<1>1. ASSUME NEW u \in Users, NEW role \in {"admin", "viewer"}, RequestPromotion(j, u, role)
      PROVE  Begun(j)
  <2>1. Start(j, "promote", role, u) /\ UNCHANGED <<people, tokens>>
    BY <1>1 DEF RequestPromotion
  <2>2. role \in Phases /\ "promote" \in Ops
    BY DEF Phases, Ops
  <2> QED
    BY <2>1, <2>2, Starting DEF Begun
<1>2. ASSUME NEW u \in Users, NEW actor \in Users, RequestDisable(j, actor, u)
      PROVE  Begun(j)
  <2>1. Start(j, "disable", "lock", u) /\ UNCHANGED <<people, tokens>>
    BY <1>2 DEF RequestDisable
  <2>2. "lock" \in Phases /\ "disable" \in Ops
    BY DEF Phases, Ops
  <2> QED
    BY <2>1, <2>2, Starting DEF Begun
<1>3. ASSUME NEW u \in Users, RequestReset(j, u)
      PROVE  Begun(j)
  <2>1. Start(j, "reset", "mark", u) /\ UNCHANGED <<people, tokens>>
    BY <1>3 DEF RequestReset
  <2>2. "mark" \in Phases /\ "reset" \in Ops
    BY DEF Phases, Ops
  <2> QED
    BY <2>1, <2>2, Starting DEF Begun
<1>4. ASSUME NEW u \in Users, RequestViewerToken(j, u)
      PROVE  Begun(j)
  <2>1. Start(j, "viewer", "insert", u) /\ UNCHANGED <<people, tokens>>
    BY <1>4 DEF RequestViewerToken
  <2>2. "insert" \in Phases /\ "viewer" \in Ops
    BY DEF Phases, Ops
  <2> QED
    BY <2>1, <2>2, Starting DEF Begun
<1>5. ASSUME RequestKey(j)
      PROVE  Begun(j)
  <2>1. Start(j, "key", "lock", Nobody) /\ UNCHANGED <<people, tokens>>
    BY <1>5 DEF RequestKey, NewKey
  <2>2. "lock" \in Phases /\ "key" \in Ops /\ "key" \notin OfUser
    BY DEF Phases, Ops, OfUser
  <2> QED
    BY <2>1, <2>2, Starting DEF Begun
<1>6. ASSUME NEW u \in Users, Login(j, u)
      PROVE  Begun(j)
  <2> DEFINE x == [Idle EXCEPT !.op = "login", !.phase = "session", !.user = u,
                               !.epoch = revoked[u]]
  <2>1. /\ x \in Job /\ x.op = "login" /\ x.phase = "session" /\ x.user = u
        /\ x.epoch = revoked[u] /\ x.marked = {}
    BY DEF Idle, Job, Ops, Phases, SessionsTyped
  <2>2. job' = [job EXCEPT ![j] = x] /\ UNCHANGED <<people, tokens>>
    BY <1>6 DEF Login
  <2>3. JobsTyped' /\ OthersStay(j) /\ job'[j] = x
    BY <2>1, <2>2 DEF JobsTyped, OthersStay
  <2>4. revoked' = revoked
    BY <2>2 DEF people
  <2> QED
    BY <2>1, <2>2, <2>3, <2>4 DEF Begun
<1>7. ASSUME NEW l \in DOMAIN links, RequestCompletion(j, l)
      PROVE  Begun(j)
  <2> DEFINE x == [Idle EXCEPT !.op = "complete", !.phase = "spend",
                               !.user = links[l].user, !.link = l]
  <2>1. links[l] \in Link /\ l \in Nat
    BY DEF LinksTyped
  <2>2. links[l].user \in Users
    BY <2>1 DEF Link
  <2>3. /\ x \in Job /\ x.op = "complete" /\ x.phase = "spend" /\ x.user \in Users
        /\ x.link = l /\ x.marked = {}
    BY <2>1, <2>2 DEF Idle, Job, Ops, Phases
  <2>4. job' = [job EXCEPT ![j] = x] /\ UNCHANGED <<people, tokens>>
    BY <1>7 DEF RequestCompletion
  <2>5. JobsTyped' /\ OthersStay(j) /\ job'[j] = x
    BY <2>3, <2>4 DEF JobsTyped, OthersStay
  <2> QED
    BY <2>3, <2>4, <2>5 DEF Begun
<1> QED
  BY <1>1, <1>2, <1>3, <1>4, <1>5, <1>6, <1>7 DEF Requests

\* A request ends, whatever it has done.
Ends(j) ==
  \/ PromoteToAdmin(j) \/ PromoteToViewer(j) \/ DisableUser(j)
  \/ CreatePasswordReset(j) \/ ConsumePasswordReset(j) \/ CreateSession(j)
  \/ InsertKey(j) \/ CreateViewerToken(j) \/ RollBack(j)

LEMMA EndSteps ==
  ASSUME JobsTyped, NEW j \in Jobs, Ends(j)
  PROVE  JobsTyped' /\ OthersStay(j) /\ job'[j] = Idle
<1>1. End(j)
  BY DEF Ends, PromoteToAdmin, PromoteToViewer, DisableUser, CreatePasswordReset,
         ConsumePasswordReset, CreateSession, InsertKey, CreateViewerToken, RollBack
<1> QED
  BY <1>1, Ending

\* A request goes on, or ends early, and nothing else changes.
Advances(j) ==
  \/ LockDisable(j) \/ UpdateDisabled(j) \/ MarkUsed(j) \/ Spend(j)
  \/ LockAccount(j) \/ CountActive(j)

Advanced(j) ==
  /\ JobsTyped' /\ OthersStay(j)
  /\ job'[j] = Idle \/ SameRequest(j)
  /\ UNCHANGED <<people, tokens>>

LEMMA LockDisableEffect ==
  ASSUME JobsTyped, NEW j \in Jobs, LockDisable(j)
  PROVE  /\ Advanced(j) /\ SameRequest(j)
         /\ job'[j].phase = "update" /\ job'[j].marked = job[j].marked
<1>1. To(j, "update") /\ UNCHANGED <<people, tokens>> /\ "update" \in Phases
  BY DEF LockDisable, Phases
<1> QED
  BY <1>1, Moving DEF Advanced

LEMMA UpdateDisabledEffect ==
  ASSUME JobsTyped, NEW j \in Jobs, UpdateDisabled(j)
  PROVE  /\ Advanced(j)
         /\ \/ job'[j] = Idle
            \/ /\ users[job[j].user].enabled
               /\ ~users[job[j].user].admin \/ Cardinality(ActiveAdmins) > 1
               /\ job'[j].phase = "commit" /\ job'[j].marked = job[j].marked
<1>1. CASE End(j)
  BY <1>1, Ending DEF UpdateDisabled, Advanced
<1>2. CASE /\ users[job[j].user].enabled
           /\ ~users[job[j].user].admin \/ Cardinality(ActiveAdmins) > 1
           /\ To(j, "commit")
  <2>1. "commit" \in Phases /\ UNCHANGED <<people, tokens>>
    BY DEF UpdateDisabled, Phases
  <2> QED
    BY <1>2, <2>1, Moving DEF Advanced
<1> QED
  BY <1>1, <1>2 DEF UpdateDisabled

LEMMA LockAccountEffect ==
  ASSUME JobsTyped, NEW j \in Jobs, LockAccount(j)
  PROVE  /\ Advanced(j)
         /\ \/ job'[j] = Idle
            \/ job'[j].phase = "count" /\ job'[j].marked = job[j].marked
<1>1. CASE End(j)
  BY <1>1, Ending DEF LockAccount, Advanced
<1>2. CASE To(j, "count")
  <2>1. "count" \in Phases /\ UNCHANGED <<people, tokens>>
    BY DEF LockAccount, Phases
  <2> QED
    BY <1>2, <2>1, Moving DEF Advanced
<1> QED
  BY <1>1, <1>2 DEF LockAccount

LEMMA CountActiveEffect ==
  ASSUME JobsTyped, NEW j \in Jobs, CountActive(j)
  PROVE  /\ Advanced(j)
         /\ \/ job'[j] = Idle
            \/ ~(keys >= MaxKeys) /\ job'[j].phase = "insert" /\ job'[j].marked = job[j].marked
<1>1. CASE End(j)
  BY <1>1, Ending DEF CountActive, Advanced
<1>2. CASE ~(keys >= MaxKeys) /\ To(j, "insert")
  <2>1. "insert" \in Phases /\ UNCHANGED <<people, tokens>>
    BY DEF CountActive, Phases
  <2> QED
    BY <1>2, <2>1, Moving DEF Advanced
<1> QED
  BY <1>1, <1>2 DEF CountActive

LEMMA MarkUsedEffect ==
  ASSUME JobsTyped, LinksTyped, NEW j \in Jobs, MarkUsed(j)
  PROVE  /\ Advanced(j) /\ SameRequest(j)
         /\ job'[j].phase = "insert" /\ job'[j].marked = UnusedOf(job[j].user)
<1> DEFINE earlier == UnusedOf(job[j].user)
           x == [job[j] EXCEPT !.phase = "insert", !.marked = earlier]
<1>1. earlier \subseteq Nat
  BY DEF UnusedOf, LinksTyped
<1>2. /\ x \in Job /\ x.op = job[j].op /\ x.user = job[j].user /\ x.phase = "insert"
      /\ x.link = job[j].link /\ x.epoch = job[j].epoch /\ x.marked = earlier
  BY <1>1 DEF JobsTyped, Job, Phases
<1>3. job' = [job EXCEPT ![j] = x] /\ UNCHANGED <<people, tokens>>
  BY DEF MarkUsed
<1>4. job'[j] = x /\ OthersStay(j) /\ JobsTyped'
  BY <1>2, <1>3 DEF JobsTyped, OthersStay
<1> QED
  BY <1>2, <1>3, <1>4 DEF Advanced, SameRequest

LEMMA SpendEffect ==
  ASSUME JobsTyped, NEW j \in Jobs, Spend(j)
  PROVE  /\ Advanced(j)
         /\ \/ job'[j] = Idle
            \/ /\ Usable(job[j].link)
               /\ job'[j].phase = "set" /\ job'[j].marked = {job[j].link}
<1> DEFINE x == [job[j] EXCEPT !.phase = "set", !.marked = {job[j].link}]
<1>1. /\ x \in Job /\ x.op = job[j].op /\ x.user = job[j].user /\ x.phase = "set"
      /\ x.link = job[j].link /\ x.epoch = job[j].epoch /\ x.marked = {job[j].link}
  BY DEF JobsTyped, Job, Phases
<1>2. CASE Usable(job[j].link)
  <2>1. job' = [job EXCEPT ![j] = x] /\ UNCHANGED <<people, tokens>>
    BY <1>2 DEF Spend
  <2>2. job'[j] = x /\ OthersStay(j) /\ JobsTyped'
    BY <1>1, <2>1 DEF JobsTyped, OthersStay
  <2> QED
    BY <1>1, <1>2, <2>1, <2>2 DEF Advanced, SameRequest
<1>3. CASE ~Usable(job[j].link)
  <2>1. job' = [job EXCEPT ![j] = Idle] /\ UNCHANGED <<people, tokens>>
    BY <1>3 DEF Spend
  <2>2. job'[j] = Idle /\ OthersStay(j) /\ JobsTyped'
    BY <2>1, IdleJob DEF JobsTyped, OthersStay, OfUser
  <2> QED
    BY <2>1, <2>2 DEF Advanced
<1> QED
  BY <1>2, <1>3

LEMMA AdvanceSteps ==
  ASSUME JobsTyped, LinksTyped, NEW j \in Jobs, Advances(j)
  PROVE  Advanced(j)
BY LockDisableEffect, UpdateDisabledEffect, LockAccountEffect, CountActiveEffect,
   MarkUsedEffect, SpendEffect DEF Advances

LEMMA NextCases ==
  ASSUME [Next]_vars
  PROVE  Directly \/ \E j \in Jobs : Requests(j) \/ Ends(j) \/ Advances(j)
BY DEF Next, Directly, Requests, Ends, Advances

-----------------------------------------------------------------------------
(***************************************************************************)
(* The keys of the account                                                 *)
(***************************************************************************)
\* The requests that hold the row of the account.
HoldsAccount(k) == job[k].op = "key" /\ job[k].phase \in {"count", "insert"}

OneHoldsAccount == \A k, l \in Jobs : HoldsAccount(k) /\ HoldsAccount(l) => k = l

RoomForKey == \A k \in Jobs : At(k, "key", "insert") => keys < MaxKeys

KeyInv == KeysBounded /\ OneHoldsAccount /\ RoomForKey

\* A step by which nobody gets hold of the row, and no key is added.
LEMMA KeysKept ==
  ASSUME KeyInv, TokensTyped, NEW j \in Jobs, OthersStay(j), ~HoldsAccount(j)',
         keys' \in Nat, keys' <= keys
  PROVE  KeyInv'
<1>1. \A k \in Jobs : HoldsAccount(k)' => k # j /\ job'[k] = job[k]
  BY DEF OthersStay
<1>2. KeysBounded'
  BY AccessAssumption DEF KeyInv, KeysBounded, TokensTyped
<1>3. OneHoldsAccount'
  BY <1>1 DEF KeyInv, OneHoldsAccount, HoldsAccount
<1>4. \A k \in Jobs : At(k, "key", "insert")' => k # j /\ job'[k] = job[k]
  BY <1>1 DEF HoldsAccount, At
<1>5. RoomForKey'
  BY <1>4, AccessAssumption DEF KeyInv, RoomForKey, At, TokensTyped
<1> QED
  BY <1>2, <1>3, <1>5 DEF KeyInv

LEMMA InsertKeyInv ==
  ASSUME KeyInv, JobsTyped, TokensTyped, NEW j \in Jobs, InsertKey(j)
  PROVE  KeyInv'
<1>1. OthersStay(j) /\ job'[j] = Idle
  BY EndSteps DEF Ends
<1>2. HoldsAccount(j) /\ keys' = keys + 1 /\ keys < MaxKeys
  BY DEF InsertKey, At, HoldsAccount, KeyInv, RoomForKey
<1>3. \A k \in Jobs : ~HoldsAccount(k)'
  BY <1>1, <1>2, IdleJob DEF KeyInv, OneHoldsAccount, HoldsAccount, OthersStay
<1>4. KeysBounded'
  BY <1>2, AccessAssumption DEF KeysBounded, TokensTyped
<1> QED
  BY <1>3, <1>4 DEF KeyInv, OneHoldsAccount, RoomForKey, HoldsAccount, At

LEMMA LockAccountInv ==
  ASSUME KeyInv, JobsTyped, TokensTyped, NEW j \in Jobs, LockAccount(j)
  PROVE  KeyInv'
<1>1. /\ OthersStay(j) /\ keys' = keys
      /\ job'[j] = Idle \/ job'[j].phase = "count"
  BY LockAccountEffect DEF Advanced, tokens
<1>2. \A k \in Jobs : ~HoldsAccount(k)
  BY DEF LockAccount, AccountLocked, HoldsAccount
<1>3. \A k \in Jobs : HoldsAccount(k)' => k = j
  BY <1>1, <1>2 DEF HoldsAccount, OthersStay
<1>4. ~At(j, "key", "insert")'
  BY <1>1, IdleJob DEF At
<1> QED
  BY <1>1, <1>3, <1>4 DEF KeyInv, KeysBounded, OneHoldsAccount, RoomForKey, HoldsAccount, At

LEMMA CountActiveInv ==
  ASSUME KeyInv, JobsTyped, TokensTyped, NEW j \in Jobs, CountActive(j)
  PROVE  KeyInv'
<1>1. /\ OthersStay(j) /\ keys' = keys
      /\ job'[j] = Idle \/ ~(keys >= MaxKeys)
  BY CountActiveEffect DEF Advanced, tokens
<1>2. HoldsAccount(j)
  BY DEF CountActive, HoldsAccount, At
<1>3. \A k \in Jobs : HoldsAccount(k)' => k = j
  BY <1>1, <1>2 DEF KeyInv, OneHoldsAccount, HoldsAccount, OthersStay
<1>4. At(j, "key", "insert")' => keys < MaxKeys
  BY <1>1, IdleJob, AccessAssumption DEF At, TokensTyped
<1> QED
  BY <1>1, <1>3, <1>4 DEF KeyInv, KeysBounded, OneHoldsAccount, RoomForKey, HoldsAccount, At

LEMMA KeySteps ==
  ASSUME KeyInv, JobsTyped, LinksTyped, SessionsTyped, TokensTyped, [Next]_vars
  PROVE  KeyInv'
<1>1. CASE Directly
  <2>1. job' = job
    BY <1>1, DirectSteps
  <2>2. keys' \in Nat /\ keys' <= keys
    BY <1>1 DEF Directly, CreateUser, ReactivateUser, RevokeViewerToken, LinkExpires, Logout,
           CreateServiceAccount, DisableServiceAccount, RevokeKey, KeyExpires, EndKey,
           vars, tokens, TokensTyped
  <2> QED
    BY <2>1, <2>2, AccessAssumption DEF KeyInv, KeysBounded, OneHoldsAccount, RoomForKey,
           HoldsAccount, At, TokensTyped
<1>2. ASSUME NEW j \in Jobs, Requests(j)
      PROVE  KeyInv'
  <2>1. OthersStay(j) /\ ~HoldsAccount(j)' /\ keys' = keys
    BY <1>2, RequestSteps DEF Begun, HoldsAccount, tokens
  <2> QED
    BY <2>1, KeysKept DEF TokensTyped
<1>3. ASSUME NEW j \in Jobs, Ends(j), ~InsertKey(j)
      PROVE  KeyInv'
  <2>1. OthersStay(j) /\ ~HoldsAccount(j)'
    BY <1>3, EndSteps, IdleJob DEF HoldsAccount
  <2>2. keys' = keys
    BY <1>3 DEF Ends, PromoteToAdmin, PromoteToViewer, DisableUser, CreatePasswordReset,
         ConsumePasswordReset, CreateSession, CreateViewerToken, RollBack, tokens
  <2> QED
    BY <2>1, <2>2, KeysKept DEF TokensTyped
<1>4. ASSUME NEW j \in Jobs, LockDisable(j) \/ UpdateDisabled(j) \/ MarkUsed(j) \/ Spend(j)
      PROVE  KeyInv'
  <2>1. job[j].op # "key"
    BY <1>4 DEF LockDisable, UpdateDisabled, MarkUsed, Spend, At
  <2>2. Advanced(j)
    BY <1>4, AdvanceSteps DEF Advances
  <2>3. OthersStay(j) /\ ~HoldsAccount(j)' /\ keys' = keys
    BY <2>1, <2>2, IdleJob DEF Advanced, SameRequest, HoldsAccount, tokens
  <2> QED
    BY <2>3, KeysKept DEF TokensTyped
<1> QED
  BY <1>1, <1>2, <1>3, <1>4, NextCases, InsertKeyInv, LockAccountInv, CountActiveInv DEF Advances

-----------------------------------------------------------------------------
(***************************************************************************)
(* Users and administrators                                                *)
(***************************************************************************)
\* The requests that hold the advisory lock.
Disables(k) == job[k].op = "disable" /\ job[k].phase \in {"update", "commit"}

OneDisables == \A k, l \in Jobs : Disables(k) /\ Disables(l) => k = l

\* From its update to its commit somebody else is an administrator.
AnotherAdmin ==
  \A k \in Jobs : At(k, "disable", "commit") =>
    \E a \in ActiveAdmins : a # job[k].user

AdminInv == LastAdminStays /\ OneDisables /\ AnotherAdmin

\* Whoever is the only one, there are not two.
LEMMA TwoAdmins ==
  ASSUME NEW S, IsFiniteSet(S), Cardinality(S) > 1, NEW u
  PROVE  \E a \in S : a # u
<1> SUFFICES ASSUME S \subseteq {u} PROVE FALSE
  OBVIOUS
<1>1. IsFiniteSet({u}) /\ Cardinality({u}) = 1
  BY FS_Singleton
<1> QED
  BY <1>1, FS_Subset, FS_CardinalityType

LEMMA FiniteAdmins == IsFiniteSet(ActiveAdmins)
BY AccessAssumption, FS_Subset DEF ActiveAdmins

\* A user is changed into another that may be.
LEMMA UserChanges ==
  ASSUME UsersTyped, NEW u \in Users, NEW x \in AnyUser, users' = [users EXCEPT ![u] = x]
  PROVE  /\ UsersTyped' /\ users'[u] = x
         /\ \A v \in Users \ {u} : users'[v] = users[v]
BY DEF UsersTyped

\* Nobody made is unmade.
MadeStay == \A v \in Users : users[v].made => users'[v].made

LEMMA UserFields ==
  ASSUME NEW x \in AnyUser
  PROVE  /\ x = [made |-> x.made, enabled |-> x.enabled, admin |-> x.admin, viewer |-> x.viewer]
         /\ x.made \in BOOLEAN /\ x.enabled \in BOOLEAN
         /\ x.admin \in BOOLEAN /\ x.viewer \in BOOLEAN
         /\ ~(x.admin /\ x.viewer) /\ (x.enabled \/ x.admin \/ x.viewer => x.made)
BY DEF AnyUser

LEMMA PromoteToAdminUsers ==
  ASSUME UsersTyped, JobsTyped, NEW j \in Jobs, PromoteToAdmin(j)
  PROVE  UsersTyped' /\ MadeStay /\ ActiveAdmins \subseteq ActiveAdmins'
<1> DEFINE u == job[j].user
           x == [users[u] EXCEPT !.admin = TRUE, !.viewer = FALSE]
<1>1. u \in Users
  BY DEF JobsTyped, PromoteToAdmin, At, OfUser
<1>2. users[u] \in AnyUser
  BY <1>1 DEF UsersTyped
<1>3. CASE users[u].enabled
  <2>1. x \in AnyUser /\ x.enabled /\ x.admin /\ x.made = users[u].made
    BY <1>2, <1>3, UserFields DEF AnyUser
  <2>2. users' = [users EXCEPT ![u] = x]
    BY <1>3 DEF PromoteToAdmin
  <2>3. UsersTyped' /\ users'[u] = x /\ \A v \in Users \ {u} : users'[v] = users[v]
    BY <1>1, <2>1, <2>2, UserChanges
  <2> QED
    BY <1>2, <2>1, <2>3, UserFields DEF MadeStay, ActiveAdmins, Admin, Found
<1>4. CASE ~users[u].enabled
  BY <1>4 DEF PromoteToAdmin, UsersTyped, MadeStay, ActiveAdmins, Admin, Found
<1> QED
  BY <1>3, <1>4

LEMMA PromoteToViewerUsers ==
  ASSUME UsersTyped, JobsTyped, NEW j \in Jobs, PromoteToViewer(j)
  PROVE  UsersTyped' /\ MadeStay /\ ActiveAdmins \subseteq ActiveAdmins'
<1> DEFINE u == job[j].user
           x == [users[u] EXCEPT !.viewer = TRUE]
<1>1. u \in Users
  BY DEF JobsTyped, PromoteToViewer, At, OfUser
<1>2. users[u] \in AnyUser
  BY <1>1 DEF UsersTyped
<1>3. CASE users[u].enabled /\ ~users[u].admin
  <2>1. x \in AnyUser /\ ~x.admin
    BY <1>2, <1>3, UserFields DEF AnyUser
  <2>2. users' = [users EXCEPT ![u] = x]
    BY <1>3 DEF PromoteToViewer
  <2>3. UsersTyped' /\ users'[u] = x /\ \A v \in Users \ {u} : users'[v] = users[v]
    BY <1>1, <2>1, <2>2, UserChanges
  <2> QED
    BY <1>2, <1>3, <2>1, <2>3, UserFields DEF MadeStay, ActiveAdmins, Admin, Found
<1>4. CASE ~(users[u].enabled /\ ~users[u].admin)
  BY <1>4 DEF PromoteToViewer, UsersTyped, MadeStay, ActiveAdmins, Admin, Found
<1> QED
  BY <1>3, <1>4

\* A user is enabled who was made.
LEMMA EnablingUsers ==
  ASSUME UsersTyped, NEW u \in Users, users[u].made, users' = [users EXCEPT ![u].enabled = TRUE]
  PROVE  UsersTyped' /\ MadeStay /\ ActiveAdmins \subseteq ActiveAdmins'
<1> DEFINE x == [users[u] EXCEPT !.enabled = TRUE]
<1>1. users[u] \in AnyUser
  BY DEF UsersTyped
<1>2. x \in AnyUser /\ x.enabled /\ x.admin = users[u].admin
  BY <1>1, UserFields DEF AnyUser
<1>3. UsersTyped' /\ users'[u] = x /\ \A v \in Users \ {u} : users'[v] = users[v]
  BY <1>2, UserChanges
<1> QED
  BY <1>2, <1>3, UserFields DEF MadeStay, ActiveAdmins, Admin, Found

LEMMA CreateUserUsers ==
  ASSUME UsersTyped, NEW u \in Users, CreateUser(u)
  PROVE  UsersTyped' /\ MadeStay /\ ActiveAdmins \subseteq ActiveAdmins'
<1> DEFINE x == Registering(u).user
<1>1. x \in AnyUser /\ ~x.enabled
  BY DEF Registering, Regular, NotMade, AnyUser
<1>2. users' = [users EXCEPT ![u] = x] /\ ~users[u].made
  BY DEF CreateUser, CreateUserWithPasswordReset
<1>3. UsersTyped' /\ users'[u] = x /\ \A v \in Users \ {u} : users'[v] = users[v]
  BY <1>1, <1>2, UserChanges
<1>4. ~Admin(u)
  BY <1>2, UserFields DEF UsersTyped, Admin, Found
<1> QED
  BY <1>2, <1>3, <1>4 DEF MadeStay, ActiveAdmins, Admin, Found

LEMMA DisableUserUsers ==
  ASSUME UsersTyped, JobsTyped, NEW j \in Jobs, DisableUser(j)
  PROVE  UsersTyped' /\ MadeStay /\ ActiveAdmins \ {job[j].user} \subseteq ActiveAdmins'
<1> DEFINE u == job[j].user
           x == [users[u] EXCEPT !.enabled = FALSE]
<1>1. u \in Users
  BY DEF JobsTyped, DisableUser, At, OfUser
<1>2. users[u] \in AnyUser
  BY <1>1 DEF UsersTyped
<1>3. x \in AnyUser /\ x.made = users[u].made
  BY <1>2, UserFields DEF AnyUser
<1>4. users' = [users EXCEPT ![u] = x]
  BY DEF DisableUser
<1>5. UsersTyped' /\ users'[u] = x /\ \A v \in Users \ {u} : users'[v] = users[v]
  BY <1>1, <1>3, <1>4, UserChanges
<1> QED
  BY <1>3, <1>5 DEF MadeStay, ActiveAdmins, Admin, Found

\* Whoever has a link, or is the subject of a request, was made.
LinksOfMade == \A l \in DOMAIN links : users[links[l].user].made
JobsOfMade == \A k \in Jobs : job[k].op \in OfUser => users[job[k].user].made

LEMMA ConsumeUsers ==
  ASSUME UsersTyped, JobsTyped, JobsOfMade, NEW j \in Jobs, ConsumePasswordReset(j)
  PROVE  UsersTyped' /\ MadeStay /\ ActiveAdmins \subseteq ActiveAdmins'
<1>1. job[j].user \in Users /\ users[job[j].user].made
  BY DEF JobsTyped, JobsOfMade, ConsumePasswordReset, At, OfUser
<1>2. CASE users' = [users EXCEPT ![job[j].user].enabled = TRUE]
  BY <1>1, <1>2, EnablingUsers
<1>3. CASE users' = users
  BY <1>3 DEF UsersTyped, MadeStay, ActiveAdmins, Admin, Found
<1> QED
  BY <1>2, <1>3 DEF ConsumePasswordReset, people

\* What a step does to the users.
LEMMA UserSteps ==
  ASSUME UsersTyped, JobsTyped, JobsOfMade, LinksTyped, SessionsTyped, [Next]_vars
  PROVE  /\ UsersTyped' /\ MadeStay
         /\ ActiveAdmins \subseteq ActiveAdmins' \/ \E j \in Jobs : DisableUser(j)
<1>1. ASSUME NEW u \in Users, CreateUser(u)
      PROVE  UsersTyped' /\ MadeStay /\ ActiveAdmins \subseteq ActiveAdmins'
  BY <1>1, CreateUserUsers
<1>2. ASSUME NEW u \in Users, ReactivateUser(u)
      PROVE  UsersTyped' /\ MadeStay /\ ActiveAdmins \subseteq ActiveAdmins'
  BY <1>2, EnablingUsers DEF ReactivateUser, MayReactivate, Enable
<1>3. ASSUME UNCHANGED users
      PROVE  UsersTyped' /\ MadeStay /\ ActiveAdmins \subseteq ActiveAdmins'
  BY <1>3 DEF UsersTyped, MadeStay, ActiveAdmins, Admin, Found
<1>4. CASE Directly
  <2>1. UNCHANGED users \/ \E u \in Users : CreateUser(u) \/ ReactivateUser(u)
    BY <1>4 DEF Directly, RevokeViewerToken, LinkExpires, Logout, CreateServiceAccount,
           DisableServiceAccount, RevokeKey, KeyExpires, vars, people
  <2> QED
    BY <1>1, <1>2, <1>3, <2>1
<1>5. ASSUME NEW j \in Jobs, Requests(j) \/ Advances(j)
      PROVE  UNCHANGED users
  BY <1>5, RequestSteps, AdvanceSteps DEF Begun, Advanced, people
<1>6. ASSUME NEW j \in Jobs, Ends(j)
      PROVE  /\ UsersTyped' /\ MadeStay
             /\ ActiveAdmins \subseteq ActiveAdmins' \/ DisableUser(j)
  <2>1. \/ UNCHANGED users
        \/ PromoteToAdmin(j) \/ PromoteToViewer(j) \/ DisableUser(j) \/ ConsumePasswordReset(j)
    BY <1>6 DEF Ends, CreatePasswordReset, CreateSession, InsertKey, CreateViewerToken, RollBack,
           people
  <2> QED
    BY <1>3, <2>1, PromoteToAdminUsers, PromoteToViewerUsers, DisableUserUsers, ConsumeUsers
<1> QED
  BY <1>3, <1>4, <1>5, <1>6, NextCases

\* A step by which nobody gets hold of the advisory lock, and no administrator
\* is lost.
LEMMA AdminsKept ==
  ASSUME AdminInv, NEW j \in Jobs, OthersStay(j), ~Disables(j)',
         ActiveAdmins \subseteq ActiveAdmins'
  PROVE  AdminInv'
<1>1. \A k \in Jobs : Disables(k)' => k # j /\ job'[k] = job[k]
  BY DEF OthersStay
<1>2. LastAdminStays'
  BY DEF AdminInv, LastAdminStays
<1>3. OneDisables'
  BY <1>1 DEF AdminInv, OneDisables, Disables
<1>4. \A k \in Jobs : At(k, "disable", "commit")' => k # j /\ job'[k] = job[k]
  BY <1>1 DEF Disables, At
<1>5. AnotherAdmin'
  BY <1>4 DEF AdminInv, AnotherAdmin, At
<1> QED
  BY <1>2, <1>3, <1>5 DEF AdminInv

LEMMA LockDisableInv ==
  ASSUME AdminInv, JobsTyped, NEW j \in Jobs, LockDisable(j)
  PROVE  AdminInv'
<1>1. OthersStay(j) /\ job'[j].phase = "update" /\ users' = users
  BY LockDisableEffect DEF Advanced, people
<1>2. \A k \in Jobs : ~Disables(k)
  BY DEF LockDisable, AdvisoryLocked, Disables
<1>3. \A k \in Jobs : Disables(k)' => k = j
  BY <1>1, <1>2 DEF Disables, OthersStay
<1>4. \A k \in Jobs : ~At(k, "disable", "commit")'
  BY <1>1, <1>3 DEF At, Disables
<1>5. ActiveAdmins' = ActiveAdmins
  BY <1>1 DEF ActiveAdmins, Admin, Found
<1> QED
  BY <1>3, <1>4, <1>5 DEF AdminInv, LastAdminStays, OneDisables, AnotherAdmin

LEMMA UpdateDisabledInv ==
  ASSUME AdminInv, JobsTyped, UsersTyped, NEW j \in Jobs, UpdateDisabled(j)
  PROVE  AdminInv'
<1> DEFINE u == job[j].user
<1>1. /\ OthersStay(j) /\ users' = users
      /\ \/ job'[j] = Idle
         \/ /\ ~users[u].admin \/ Cardinality(ActiveAdmins) > 1
            /\ SameRequest(j)
  BY UpdateDisabledEffect DEF Advanced, people
<1>2. Disables(j)
  BY DEF UpdateDisabled, Disables, At
<1>3. \A k \in Jobs : Disables(k)' => k = j
  BY <1>1, <1>2 DEF AdminInv, OneDisables, Disables, OthersStay
<1>4. ActiveAdmins' = ActiveAdmins
  BY <1>1 DEF ActiveAdmins, Admin, Found
<1>5. At(j, "disable", "commit")' =>
        job'[j].user = u /\ (~users[u].admin \/ Cardinality(ActiveAdmins) > 1)
  BY <1>1, IdleJob DEF At, SameRequest
<1>6. ~users[u].admin => \E a \in ActiveAdmins : a # u
  BY DEF AdminInv, LastAdminStays, ActiveAdmins, Admin
<1>7. Cardinality(ActiveAdmins) > 1 => \E a \in ActiveAdmins : a # u
  BY FiniteAdmins, TwoAdmins
<1>8. \A k \in Jobs : At(k, "disable", "commit")' => k = j
  BY <1>3 DEF Disables, At
<1> QED
  BY <1>3, <1>4, <1>5, <1>6, <1>7, <1>8 DEF AdminInv, LastAdminStays, OneDisables, AnotherAdmin

LEMMA DisableUserInv ==
  ASSUME AdminInv, JobsTyped, UsersTyped, NEW j \in Jobs, DisableUser(j)
  PROVE  AdminInv'
<1>1. OthersStay(j) /\ job'[j] = Idle
  BY EndSteps DEF Ends
<1>2. At(j, "disable", "commit") /\ Disables(j)
  BY DEF DisableUser, Disables, At
<1>3. \A k \in Jobs : ~Disables(k)'
  BY <1>1, <1>2, IdleJob DEF AdminInv, OneDisables, Disables, OthersStay
<1>4. ActiveAdmins' # {}
  BY <1>2, DisableUserUsers DEF AdminInv, AnotherAdmin
<1>5. \A k \in Jobs : ~At(k, "disable", "commit")'
  BY <1>3 DEF Disables, At
<1> QED
  BY <1>3, <1>4, <1>5 DEF AdminInv, LastAdminStays, OneDisables, AnotherAdmin

LEMMA AdminSteps ==
  ASSUME AdminInv, UsersTyped, JobsTyped, JobsOfMade, LinksTyped, SessionsTyped, [Next]_vars
  PROVE  AdminInv'
<1>1. CASE \E j \in Jobs : DisableUser(j)
  BY <1>1, DisableUserInv
<1>2. CASE ActiveAdmins \subseteq ActiveAdmins'
  <2>1. CASE Directly
    BY <1>2, <2>1, DirectSteps
       DEF AdminInv, LastAdminStays, OneDisables, AnotherAdmin, Disables, At
  <2>2. ASSUME NEW j \in Jobs, Requests(j)
        PROVE  AdminInv'
    BY <1>2, <2>2, RequestSteps, AdminsKept DEF Begun, Disables
  <2>3. ASSUME NEW j \in Jobs, Ends(j)
        PROVE  AdminInv'
    BY <1>2, <2>3, EndSteps, IdleJob, AdminsKept DEF Disables
  <2>4. ASSUME NEW j \in Jobs, LockAccount(j) \/ CountActive(j) \/ MarkUsed(j) \/ Spend(j)
        PROVE  AdminInv'
    <3>1. job[j].op # "disable"
      BY <2>4 DEF LockAccount, CountActive, MarkUsed, Spend, At
    <3>2. Advanced(j)
      BY <2>4, AdvanceSteps DEF Advances
    <3>3. OthersStay(j) /\ ~Disables(j)'
      BY <3>1, <3>2, IdleJob DEF Advanced, SameRequest, Disables
    <3> QED
      BY <1>2, <3>3, AdminsKept
  <2> QED
    BY <2>1, <2>2, <2>3, <2>4, NextCases, LockDisableInv, UpdateDisabledInv DEF Advances
<1> QED
  BY <1>1, <1>2, UserSteps

-----------------------------------------------------------------------------
(***************************************************************************)
(* Links                                                                   *)
(***************************************************************************)
\* What a request has marked, and what it is to consume.
JobLinks(k) ==
  /\ job[k].marked \subseteq DOMAIN links
  /\ \A l \in job[k].marked : links[l].state # "used"
  /\ job[k].op = "complete" => job[k].link \in DOMAIN links
  /\ At(k, "complete", "set") => job[k].marked = {job[k].link}

\* A link that was not used set no password.
UsesCounted ==
  \A l \in DOMAIN links : links[l].state # "used" => links[l].uses = 0

\* No two requests have marked the same.
MarkedApart == \A k, l \in Jobs : k # l => job[k].marked \cap job[l].marked = {}

LinkInv == LinkSpentOnce /\ UsesCounted /\ MarkedApart /\ \A k \in Jobs : JobLinks(k)

LEMMA LinkAdded ==
  ASSUME LinksTyped, NEW f \in [DOMAIN links -> Link], NEW x \in Link, links' = Append(f, x)
  PROVE  /\ LinksTyped' /\ DOMAIN links' = DOMAIN links \cup {Len(links) + 1}
         /\ Len(links) + 1 \notin DOMAIN links
         /\ links'[Len(links) + 1] = x /\ \A l \in DOMAIN links : links'[l] = f[l]
<1>1. Len(links) \in Nat /\ DOMAIN links = 1 .. Len(links)
  BY DEF LinksTyped
<1>2. f \in Seq(Link) /\ Len(f) = Len(links)
  BY <1>1
<1> QED
  BY <1>1, <1>2 DEF LinksTyped

LEMMA LinkChanges ==
  ASSUME LinksTyped, NEW l \in DOMAIN links, NEW x \in Link, links' = [links EXCEPT ![l] = x]
  PROVE  /\ LinksTyped' /\ DOMAIN links' = DOMAIN links
         /\ links'[l] = x /\ \A m \in DOMAIN links \ {l} : links'[m] = links[m]
BY DEF LinksTyped

\* A link, field by field.
LEMMA LinkFields ==
  ASSUME LinksTyped, NEW l \in DOMAIN links
  PROVE  /\ links[l] \in Link /\ links[l].user \in Users /\ links[l].registers \in BOOLEAN
         /\ links[l].state \in {"unused", "used", "expired"} /\ links[l].uses \in Nat
<1>1. links[l] \in Link
  BY DEF LinksTyped
<1> QED
  BY <1>1 DEF Link

\* There are as many links as before or more, with the users they had.
LinksGrow ==
  /\ LinksTyped' /\ DOMAIN links \subseteq DOMAIN links'
  /\ \A l \in DOMAIN links : links'[l].user = links[l].user

LEMMA CreateUserLinks ==
  ASSUME LinksTyped, NEW u \in Users, CreateUser(u)
  PROVE  /\ LinksGrow
         /\ \A l \in DOMAIN links : links'[l] = links[l]
         /\ \A l \in DOMAIN links' \ DOMAIN links :
              links'[l].user = u /\ links'[l].state = "unused" /\ links'[l].uses = 0
<1> DEFINE x == Registering(u).link
<1>1. x \in Link /\ x.user = u /\ x.state = "unused" /\ x.uses = 0
  BY DEF Registering, NewLink, Link
<1>2. links' = Append(links, x) /\ links \in [DOMAIN links -> Link]
  BY DEF CreateUser, CreateUserWithPasswordReset, LinksTyped
<1> QED
  BY <1>1, <1>2, LinkAdded DEF LinksGrow

LEMMA LinkExpiresLinks ==
  ASSUME LinksTyped, NEW l \in DOMAIN links, LinkExpires(l)
  PROVE  /\ LinksGrow /\ DOMAIN links' = DOMAIN links
         /\ links[l].state = "unused" /\ links'[l].state = "expired"
         /\ links'[l].uses = links[l].uses
         /\ \A m \in DOMAIN links \ {l} : links'[m] = links[m]
<1> DEFINE x == [links[l] EXCEPT !.state = "expired"]
<1>1. x \in Link /\ x.user = links[l].user /\ x.state = "expired" /\ x.uses = links[l].uses
  BY LinkFields DEF Link
<1>2. links' = [links EXCEPT ![l] = x] /\ links[l].state = "unused"
  BY DEF LinkExpires
<1> QED
  BY <1>1, <1>2, LinkChanges DEF LinksGrow

LEMMA ResetLinks ==
  ASSUME LinksTyped, JobsTyped, NEW j \in Jobs, CreatePasswordReset(j)
  PROVE  /\ LinksGrow
         /\ \A l \in DOMAIN links \cap job[j].marked :
              links'[l].state = "used" /\ links'[l].uses = links[l].uses
         /\ \A l \in DOMAIN links \ job[j].marked : links'[l] = links[l]
         /\ \A l \in DOMAIN links' \ DOMAIN links :
              /\ links'[l].user = job[j].user
              /\ links'[l].state = "unused" /\ links'[l].uses = 0
<1> DEFINE x == ResetLink(job[j].user)
           g(l) == IF l \in job[j].marked THEN [links[l] EXCEPT !.state = "used"] ELSE links[l]
           f == [l \in DOMAIN links |-> g(l)]
<1>1. job[j].user \in Users
  BY DEF JobsTyped, CreatePasswordReset, At, OfUser
<1>2. x \in Link /\ x.user = job[j].user /\ x.state = "unused" /\ x.uses = 0
  BY <1>1 DEF ResetLink, NewLink, Link
<1>3. ASSUME NEW l \in DOMAIN links
      PROVE  /\ g(l) \in Link /\ g(l).user = links[l].user /\ g(l).uses = links[l].uses
             /\ l \in job[j].marked => g(l).state = "used"
             /\ l \notin job[j].marked => g(l) = links[l]
  BY <1>3, LinkFields DEF Link
<1> HIDE DEF g
<1>4. f \in [DOMAIN links -> Link] /\ \A l \in DOMAIN links : f[l] = g(l)
  BY <1>3
<1>5. links' = Append(f, x)
  BY DEF CreatePasswordReset, g
<1> HIDE DEF f, x
<1> QED
  BY <1>2, <1>3, <1>4, <1>5, LinkAdded DEF LinksGrow

LEMMA ConsumeLinks ==
  ASSUME LinksTyped, JobsTyped, LinkInv, NEW j \in Jobs, ConsumePasswordReset(j)
  PROVE  /\ LinksGrow /\ DOMAIN links' = DOMAIN links
         /\ \A m \in DOMAIN links \ {job[j].link} : links'[m] = links[m]
         /\ \/ links'[job[j].link] = links[job[j].link]
            \/ /\ links'[job[j].link].state = "used"
               /\ links'[job[j].link].uses = links[job[j].link].uses + 1
<1> DEFINE l == job[j].link
           x == [links[l] EXCEPT !.state = "used", !.uses = @ + 1]
<1>1. l \in DOMAIN links
  BY DEF LinkInv, JobLinks, ConsumePasswordReset, At
<1>2. x \in Link /\ x.user = links[l].user /\ x.state = "used" /\ x.uses = links[l].uses + 1
  <2> DEFINE y == links[l]
             n == y.uses + 1
  <2>1. y \in Link /\ n \in Nat
    BY <1>1, LinkFields
  <2>2. x = [y EXCEPT !.state = "used", !.uses = n]
    BY <2>1 DEF Link
  <2> HIDE DEF y, n
  <2>3. /\ [y EXCEPT !.state = "used", !.uses = n] \in Link
        /\ [y EXCEPT !.state = "used", !.uses = n].user = y.user
        /\ [y EXCEPT !.state = "used", !.uses = n].state = "used"
        /\ [y EXCEPT !.state = "used", !.uses = n].uses = n
    BY <2>1 DEF Link
  <2> QED
    BY <2>2, <2>3 DEF y, n
<1>3. CASE links' = links
  BY <1>3 DEF LinksGrow, LinksTyped
<1>4. CASE links' = [links EXCEPT ![l] = x]
  BY <1>1, <1>2, <1>4, LinkChanges DEF LinksGrow
<1> QED
  BY <1>3, <1>4 DEF ConsumePasswordReset, people

\* What the marks of the others say stays true when their links are not used up.
LEMMA OtherLinks ==
  ASSUME LinkInv, LinksGrow, NEW j \in Jobs, OthersStay(j),
         \A k \in Jobs \ {j} : \A l \in job[k].marked :
           links[l].state # "used" => links'[l].state # "used"
  PROVE  \A k \in Jobs \ {j} : JobLinks(k)'
BY DEF LinkInv, JobLinks, LinksGrow, OthersStay, At

\* A request that has nothing marked disturbs nobody's marks.
LEMMA ApartKept ==
  ASSUME LinkInv, NEW j \in Jobs, OthersStay(j), job'[j].marked \subseteq job[j].marked
  PROVE  MarkedApart'
BY DEF LinkInv, MarkedApart, OthersStay

\* Steps that leave the links alone and mark none.
LEMMA LinksKept ==
  ASSUME LinkInv, LinksTyped, NEW j \in Jobs, OthersStay(j), UNCHANGED links,
         \/ job'[j].marked = {}
         \/ job'[j].marked = job[j].marked,
         job'[j].op = "complete" =>
           job'[j].link \in DOMAIN links /\ job'[j].phase # "set"
  PROVE  LinkInv'
<1>1. LinksGrow
  BY DEF LinksGrow, LinksTyped
<1>2. \A k \in Jobs \ {j} : JobLinks(k)'
  BY <1>1, OtherLinks
<1>3. MarkedApart'
  BY ApartKept
<1>4. JobLinks(j)'
  BY DEF LinkInv, JobLinks, At
<1>5. LinkSpentOnce' /\ UsesCounted'
  BY DEF LinkInv, LinkSpentOnce, UsesCounted
<1> QED
  BY <1>2, <1>3, <1>4, <1>5 DEF LinkInv

LEMMA MarkUsedInv ==
  ASSUME LinkInv, LinksTyped, JobsTyped, NEW j \in Jobs, MarkUsed(j)
  PROVE  LinkInv'
<1>1. /\ OthersStay(j) /\ SameRequest(j) /\ UNCHANGED links
      /\ job'[j].phase = "insert" /\ job'[j].marked = UnusedOf(job[j].user)
  BY MarkUsedEffect DEF Advanced, people
<1>2. job[j].op = "reset" /\ \A l \in UnusedOf(job[j].user) : ~LinkLocked(l)
  BY DEF MarkUsed, At
<1>3. \A k \in Jobs \ {j} : JobLinks(k)'
  <2>1. LinksGrow
    BY <1>1 DEF LinksGrow, LinksTyped
  <2> QED
    BY <1>1, <2>1, OtherLinks
<1>4. JobLinks(j)'
  BY <1>1, <1>2 DEF JobLinks, SameRequest, UnusedOf, At
<1>5. MarkedApart'
  BY <1>1, <1>2 DEF LinkInv, MarkedApart, LinkLocked, OthersStay
<1>6. LinkSpentOnce' /\ UsesCounted'
  BY <1>1 DEF LinkInv, LinkSpentOnce, UsesCounted
<1> QED
  BY <1>3, <1>4, <1>5, <1>6 DEF LinkInv

LEMMA SpendInv ==
  ASSUME LinkInv, LinksTyped, JobsTyped, NEW j \in Jobs, Spend(j)
  PROVE  LinkInv'
<1>1. OthersStay(j) /\ UNCHANGED links
  BY SpendEffect DEF Advanced, people
<1>2. CASE job'[j] = Idle
  BY <1>1, <1>2, IdleJob, LinksKept
<1>3. CASE job'[j] # Idle
  <2>1. /\ SameRequest(j) /\ Usable(job[j].link)
        /\ job'[j].phase = "set" /\ job'[j].marked = {job[j].link}
    BY <1>3, SpendEffect DEF Advanced
  <2>2. job[j].op = "complete" /\ ~LinkLocked(job[j].link) /\ job[j].link \in DOMAIN links
    BY DEF Spend, At, LinkInv, JobLinks
  <2>3. LinksGrow
    BY <1>1 DEF LinksGrow, LinksTyped
  <2>4. \A k \in Jobs \ {j} : JobLinks(k)'
    BY <1>1, <2>3, OtherLinks
  <2>5. JobLinks(j)'
    BY <1>1, <2>1, <2>2 DEF JobLinks, SameRequest, Usable, At
  <2>6. MarkedApart'
    BY <1>1, <2>1, <2>2 DEF LinkInv, MarkedApart, LinkLocked, OthersStay
  <2>7. LinkSpentOnce' /\ UsesCounted'
    BY <1>1 DEF LinkInv, LinkSpentOnce, UsesCounted
  <2> QED
    BY <2>4, <2>5, <2>6, <2>7 DEF LinkInv
<1> QED
  BY <1>2, <1>3

LEMMA CreatePasswordResetInv ==
  ASSUME LinkInv, LinksTyped, JobsTyped, NEW j \in Jobs, CreatePasswordReset(j)
  PROVE  LinkInv'
<1>1. OthersStay(j) /\ job'[j] = Idle
  BY EndSteps DEF Ends
<1>2. \A k \in Jobs \ {j} : \A l \in job[k].marked : l \in DOMAIN links \ job[j].marked
  BY DEF LinkInv, MarkedApart, JobLinks
<1>3. \A k \in Jobs \ {j} : JobLinks(k)'
  BY <1>1, <1>2, ResetLinks, OtherLinks
<1>4. JobLinks(j)' /\ MarkedApart'
  BY <1>1, IdleJob, ApartKept DEF JobLinks, At
<1>5. LinkSpentOnce' /\ UsesCounted'
  <2> SUFFICES ASSUME NEW l \in DOMAIN links'
               PROVE  /\ links'[l].uses <= 1
                      /\ links'[l].state # "used" => links'[l].uses = 0
    BY DEF LinkSpentOnce, UsesCounted
  <2>1. CASE l \in DOMAIN links
    BY <2>1, ResetLinks DEF LinkInv, LinkSpentOnce, UsesCounted
  <2>2. CASE l \notin DOMAIN links
    BY <2>2, ResetLinks
  <2> QED
    BY <2>1, <2>2
<1> QED
  BY <1>3, <1>4, <1>5 DEF LinkInv

\* The link was marked by this request alone, and so it was not used.
LEMMA ConsumePasswordResetInv ==
  ASSUME LinkInv, LinksTyped, JobsTyped, NEW j \in Jobs, ConsumePasswordReset(j)
  PROVE  LinkInv'
<1> DEFINE l == job[j].link
<1>1. OthersStay(j) /\ job'[j] = Idle
  BY EndSteps DEF Ends
<1>2. job[j].marked = {l} /\ l \in DOMAIN links /\ links[l].uses = 0
  BY DEF LinkInv, JobLinks, UsesCounted, ConsumePasswordReset, At
<1>3. \A k \in Jobs \ {j} : \A m \in job[k].marked : m \in DOMAIN links \ {l}
  BY <1>2 DEF LinkInv, MarkedApart, JobLinks
<1>4. \A k \in Jobs \ {j} : JobLinks(k)'
  BY <1>1, <1>3, ConsumeLinks, OtherLinks
<1>5. JobLinks(j)' /\ MarkedApart'
  BY <1>1, IdleJob, ApartKept DEF JobLinks, At
<1>6. LinkSpentOnce' /\ UsesCounted'
  BY <1>2, ConsumeLinks DEF LinkInv, LinkSpentOnce, UsesCounted
<1> QED
  BY <1>4, <1>5, <1>6 DEF LinkInv

\* No request has a part in it.
LEMMA DirectLinks ==
  ASSUME LinkInv, LinksTyped, UsersTyped, Directly
  PROVE  LinkInv' /\ LinksGrow
<1>1. job' = job
  BY DirectSteps
<1>2. ASSUME NEW u \in Users, CreateUser(u)
      PROVE  LinkInv'
  <2>1. \A k \in Jobs : JobLinks(k)' /\ MarkedApart'
    BY <1>1, <1>2, CreateUserLinks DEF LinkInv, JobLinks, MarkedApart, LinksGrow, At
  <2> SUFFICES ASSUME NEW l \in DOMAIN links'
               PROVE  /\ links'[l].uses <= 1
                      /\ links'[l].state # "used" => links'[l].uses = 0
    BY <2>1, <1>1 DEF LinkInv, LinkSpentOnce, UsesCounted, MarkedApart
  <2>2. CASE l \in DOMAIN links
    BY <1>2, <2>2, CreateUserLinks DEF LinkInv, LinkSpentOnce, UsesCounted
  <2>3. CASE l \notin DOMAIN links
    BY <1>2, <2>3, CreateUserLinks
  <2> QED
    BY <2>2, <2>3
<1>3. ASSUME NEW l \in DOMAIN links, LinkExpires(l)
      PROVE  LinkInv'
  <2>1. \A k \in Jobs : JobLinks(k)'
    BY <1>1, <1>3, LinkExpiresLinks DEF LinkInv, JobLinks, At
  <2>2. MarkedApart'
    BY <1>1 DEF LinkInv, MarkedApart
  <2>3. LinkSpentOnce' /\ UsesCounted'
    BY <1>3, LinkExpiresLinks DEF LinkInv, LinkSpentOnce, UsesCounted
  <2> QED
    BY <2>1, <2>2, <2>3 DEF LinkInv
<1>4. ASSUME UNCHANGED links
      PROVE  LinkInv' /\ LinksGrow
  BY <1>1, <1>4 DEF LinkInv, LinkSpentOnce, UsesCounted, MarkedApart, JobLinks, At, LinksGrow,
         LinksTyped
<1>5. \/ UNCHANGED links
      \/ \E u \in Users : CreateUser(u)
      \/ \E l \in DOMAIN links : LinkExpires(l)
  BY DEF Directly, ReactivateUser, RevokeViewerToken, Logout, CreateServiceAccount,
         DisableServiceAccount, RevokeKey, KeyExpires, vars, people
<1> QED
  BY <1>2, <1>3, <1>4, <1>5, CreateUserLinks, LinkExpiresLinks

LEMMA LinkSteps ==
  ASSUME LinkInv, UsersTyped, JobsTyped, LinksTyped, SessionsTyped, [Next]_vars
  PROVE  LinkInv' /\ LinksGrow
<1>1. ASSUME UNCHANGED links
      PROVE  LinksGrow
  BY <1>1 DEF LinksGrow, LinksTyped
<1>2. ASSUME NEW j \in Jobs, Requests(j)
      PROVE  LinkInv' /\ LinksGrow
  <2>1. Begun(j) /\ UNCHANGED links
    BY <1>2, RequestSteps DEF Begun, people
  <2> QED
    BY <1>1, <2>1, LinksKept DEF Begun
<1>3. ASSUME NEW j \in Jobs, Ends(j), UNCHANGED links
      PROVE  LinkInv' /\ LinksGrow
  BY <1>1, <1>3, EndSteps, IdleJob, LinksKept
<1>4. ASSUME NEW j \in Jobs, LockDisable(j) \/ UpdateDisabled(j) \/ LockAccount(j) \/ CountActive(j)
      PROVE  LinkInv' /\ LinksGrow
  <2>1. job[j].op # "complete"
    BY <1>4 DEF LockDisable, UpdateDisabled, LockAccount, CountActive, At
  <2>2. Advanced(j) /\ (job'[j] = Idle \/ job'[j].marked = job[j].marked)
    BY <1>4, LockDisableEffect, UpdateDisabledEffect, LockAccountEffect, CountActiveEffect
  <2>3. /\ OthersStay(j) /\ UNCHANGED links /\ job'[j].op # "complete"
        /\ job'[j].marked = {} \/ job'[j].marked = job[j].marked
    BY <2>1, <2>2, IdleJob DEF Advanced, SameRequest, people
  <2> QED
    BY <1>1, <2>3, LinksKept
<1>5. ASSUME NEW j \in Jobs, MarkUsed(j) \/ Spend(j)
      PROVE  LinkInv' /\ LinksGrow
  BY <1>1, <1>5, AdvanceSteps, MarkUsedInv, SpendInv DEF Advances, Advanced, people
<1>6. ASSUME NEW j \in Jobs, Ends(j)
      PROVE  UNCHANGED links \/ CreatePasswordReset(j) \/ ConsumePasswordReset(j)
  BY <1>6 DEF Ends, PromoteToAdmin, PromoteToViewer, DisableUser, CreateSession, InsertKey,
         CreateViewerToken, RollBack, people
<1> QED
  BY <1>2, <1>3, <1>4, <1>5, <1>6, NextCases, DirectLinks, CreatePasswordResetInv, ResetLinks,
     ConsumePasswordResetInv, ConsumeLinks DEF Advances

\* A new link is for the user that was created, or of the request that resets.
LEMMA NewLinks ==
  ASSUME UsersTyped, JobsTyped, LinksTyped, SessionsTyped, LinkInv, [Next]_vars,
         NEW l \in DOMAIN links' \ DOMAIN links
  PROVE  \/ \E u \in Users : CreateUser(u) /\ links'[l].user = u
         \/ \E j \in Jobs : CreatePasswordReset(j) /\ links'[l].user = job[j].user
<1>1. ASSUME NEW j \in Jobs, Requests(j) \/ Advances(j)
      PROVE  UNCHANGED links
  BY <1>1, RequestSteps, AdvanceSteps DEF Begun, Advanced, people
<1>2. ASSUME NEW j \in Jobs, Ends(j)
      PROVE  UNCHANGED links \/ CreatePasswordReset(j) \/ ConsumePasswordReset(j)
  BY <1>2 DEF Ends, PromoteToAdmin, PromoteToViewer, DisableUser, CreateSession, InsertKey,
         CreateViewerToken, RollBack, people
<1>3. CASE Directly
  <2>1. \/ UNCHANGED links
        \/ \E u \in Users : CreateUser(u)
        \/ \E m \in DOMAIN links : LinkExpires(m)
    BY <1>3 DEF Directly, ReactivateUser, RevokeViewerToken, Logout, CreateServiceAccount,
           DisableServiceAccount, RevokeKey, KeyExpires, vars, people
  <2> QED
    BY <2>1, CreateUserLinks, LinkExpiresLinks
<1> QED
  BY <1>1, <1>2, <1>3, NextCases, ResetLinks, ConsumeLinks

LEMMA RequestsOfMade ==
  ASSUME JobsTyped, LinksTyped, UsersTyped, LinksOfMade, NEW j \in Jobs, Requests(j),
         job'[j].op \in OfUser
  PROVE  users[job'[j].user].made
<1>1. ASSUME NEW u \in Users, Found(u) PROVE users[u].made
  BY <1>1, UserFields DEF UsersTyped, Found
<1>2. ASSUME NEW u \in Users, NEW role \in {"admin", "viewer"}, RequestPromotion(j, u, role)
      PROVE  job'[j].user = u /\ Found(u)
  BY <1>2 DEF RequestPromotion, Promotable, Start, Idle, JobsTyped
<1>3. ASSUME NEW u \in Users, NEW actor \in Users, RequestDisable(j, actor, u)
      PROVE  job'[j].user = u /\ Found(u)
  BY <1>3 DEF RequestDisable, Start, Idle, JobsTyped
<1>4. ASSUME NEW u \in Users, RequestReset(j, u)
      PROVE  job'[j].user = u /\ Found(u)
  BY <1>4 DEF RequestReset, Start, Idle, JobsTyped
<1>5. ASSUME NEW u \in Users, RequestViewerToken(j, u)
      PROVE  job'[j].user = u /\ Found(u)
  BY <1>5 DEF RequestViewerToken, MayHaveToken, Start, Idle, JobsTyped
<1>6. ASSUME NEW u \in Users, Login(j, u)
      PROVE  job'[j].user = u /\ Found(u)
  BY <1>6 DEF Login, VerifiesPassword, Idle, JobsTyped
<1>7. ASSUME NEW l \in DOMAIN links, RequestCompletion(j, l)
      PROVE  users[job'[j].user].made
  <2>1. job'[j].user = links[l].user
    BY <1>7 DEF RequestCompletion, Idle, JobsTyped
  <2> QED
    BY <2>1 DEF LinksOfMade
<1>8. ~RequestKey(j)
  BY DEF RequestKey, NewKey, Start, Idle, JobsTyped, OfUser
<1> QED
  BY <1>1, <1>2, <1>3, <1>4, <1>5, <1>6, <1>7, <1>8 DEF Requests

LEMMA MadeSteps ==
  ASSUME UsersTyped, JobsTyped, LinksTyped, SessionsTyped, LinkInv, LinksOfMade, JobsOfMade,
         [Next]_vars
  PROVE  LinksOfMade' /\ JobsOfMade'
<1>1. MadeStay /\ LinksGrow
  BY UserSteps, LinkSteps
<1>2. LinksOfMade'
  <2> SUFFICES ASSUME NEW l \in DOMAIN links' PROVE users'[links'[l].user].made
    BY DEF LinksOfMade
  <2>1. CASE l \in DOMAIN links
    BY <1>1, <2>1, LinkFields DEF MadeStay, LinksGrow, LinksOfMade
  <2>2. ASSUME NEW u \in Users, CreateUser(u), links'[l].user = u
        PROVE  users'[links'[l].user].made
    BY <2>2 DEF CreateUser, CreateUserWithPasswordReset, Registering, Regular, NotMade, UsersTyped
  <2>3. ASSUME NEW j \in Jobs, CreatePasswordReset(j), links'[l].user = job[j].user
        PROVE  users'[links'[l].user].made
    BY <1>1, <2>3 DEF CreatePasswordReset, At, OfUser, JobsOfMade, JobsTyped, MadeStay
  <2> QED
    BY <2>1, <2>2, <2>3, NewLinks
<1>3. ASSUME NEW j \in Jobs, OthersStay(j),
             job'[j] = Idle \/ SameRequest(j)
                \/ (job'[j].op \in OfUser =>
                      job'[j].user \in Users /\ users[job'[j].user].made)
      PROVE  JobsOfMade'
  <2>1. \A k \in Jobs \ {j} : job'[k].op \in OfUser => users'[job'[k].user].made
    BY <1>1, <1>3 DEF JobsOfMade, MadeStay, JobsTyped, OthersStay
  <2>2. job'[j].op \in OfUser => users'[job'[j].user].made
    BY <1>1, <1>3, IdleJob DEF JobsOfMade, MadeStay, JobsTyped, SameRequest, OfUser
  <2> QED
    BY <2>1, <2>2 DEF JobsOfMade
<1>4. ASSUME Directly
      PROVE  JobsOfMade'
  <2> SUFFICES ASSUME NEW k \in Jobs, job'[k].op \in OfUser PROVE users'[job'[k].user].made
    BY DEF JobsOfMade
  <2>1. job'[k] = job[k]
    BY <1>4, DirectSteps
  <2>2. job[k].user \in Users /\ users[job[k].user].made
    BY <2>1 DEF JobsTyped, JobsOfMade
  <2> QED
    BY <1>1, <2>1, <2>2 DEF MadeStay
<1>5. ASSUME NEW j \in Jobs, Requests(j)
      PROVE  JobsOfMade'
  BY <1>3, <1>5, RequestSteps, RequestsOfMade DEF Begun, JobsTyped
<1>6. ASSUME NEW j \in Jobs, Ends(j) \/ Advances(j)
      PROVE  JobsOfMade'
  BY <1>3, <1>6, EndSteps, AdvanceSteps DEF Advanced
<1> QED
  BY <1>2, <1>4, <1>5, <1>6, NextCases

-----------------------------------------------------------------------------
(***************************************************************************)
(* Sessions                                                                *)
(***************************************************************************)
\* No session and no login knows of a revocation that has not happened.
EpochsPassed == \A s \in sessions : s.epoch <= revoked[s.user]
LoginsPassed == \A k \in Jobs : job[k].op = "login" => job[k].epoch <= revoked[job[k].user]

SessionInv == SessionsEnd /\ EpochsPassed /\ LoginsPassed

RevokedGrows == \A u \in Users : revoked[u] <= revoked'[u]

LEMMA SessionFields ==
  ASSUME SessionsTyped, NEW s \in sessions
  PROVE  s \in Session /\ s.user \in Users /\ s.epoch \in Nat
BY DEF SessionsTyped, Session

LEMMA DeleteSessionsEffect ==
  ASSUME SessionInv, SessionsTyped, NEW u \in Users, DeleteSessions(u)
  PROVE  SessionsTyped' /\ RevokedGrows /\ SessionsEnd' /\ EpochsPassed'
<1>1. /\ sessions' \subseteq sessions /\ \A s \in sessions' : s.user # u
      /\ revoked' = [revoked EXCEPT ![u] = @ + 1]
  BY DEF DeleteSessions
<1>2. /\ revoked' \in [Users -> Nat] /\ revoked'[u] = revoked[u] + 1
      /\ \A v \in Users \ {u} : revoked'[v] = revoked[v]
  BY <1>1 DEF SessionsTyped
<1>3. \A s \in sessions' : revoked'[s.user] = revoked[s.user]
  BY <1>1, <1>2, SessionFields
<1> QED
  BY <1>1, <1>2, <1>3 DEF SessionInv, SessionsTyped, RevokedGrows, SessionsEnd, EpochsPassed

LEMMA CreateSessionEffect ==
  ASSUME SessionInv, SessionsTyped, JobsTyped, NEW j \in Jobs, CreateSession(j)
  PROVE  SessionsTyped' /\ RevokedGrows /\ SessionsEnd' /\ EpochsPassed'
<1> DEFINE u == job[j].user
           x == [user |-> u, epoch |-> job[j].epoch, late |-> job[j].epoch < revoked[u]]
<1>1. u \in Users /\ job[j].epoch \in Nat /\ job[j].epoch <= revoked[u] /\ revoked[u] \in Nat
  BY DEF SessionInv, LoginsPassed, JobsTyped, Job, CreateSession, At, OfUser, SessionsTyped
<1>2. x \in Session /\ x.user = u /\ x.epoch = job[j].epoch
      /\ (x.late \/ x.epoch = revoked[u])
  <2> DEFINE r(late) == [user |-> u, epoch |-> job[j].epoch, late |-> late]
  <2>1. \A late \in BOOLEAN : /\ r(late) \in Session /\ r(late).user = u
                              /\ r(late).epoch = job[j].epoch /\ r(late).late = late
    BY <1>1 DEF Session
  <2>2. CASE job[j].epoch < revoked[u]
    <3>1. x = r(TRUE)
      BY <2>2
    <3> HIDE DEF x, r
    <3> QED
      BY <2>1, <3>1
  <2>3. CASE ~(job[j].epoch < revoked[u])
    <3>1. x = r(FALSE)
      <4>1. (job[j].epoch < revoked[u]) = FALSE
        BY <2>3
      <4> QED
        BY <4>1, Zenon
    <3>2. job[j].epoch = revoked[u]
      BY <1>1, <2>3
    <3> HIDE DEF x, r
    <3> QED
      BY <2>1, <3>1, <3>2
  <2> QED
    BY <2>2, <2>3
<1>3. sessions' = sessions \cup {x} /\ revoked' = revoked
  BY DEF CreateSession, InsertSession
<1> HIDE DEF x
<1> QED
  BY <1>1, <1>2, <1>3 DEF SessionInv, SessionsTyped, RevokedGrows, SessionsEnd, EpochsPassed

LEMMA SessionSteps ==
  ASSUME SessionInv, UsersTyped, JobsTyped, LinksTyped, SessionsTyped, [Next]_vars
  PROVE  SessionInv' /\ SessionsTyped'
<1>1. ASSUME sessions' \subseteq sessions, UNCHANGED revoked
      PROVE  SessionsTyped' /\ RevokedGrows /\ SessionsEnd' /\ EpochsPassed'
  BY <1>1 DEF SessionInv, SessionsTyped, RevokedGrows, SessionsEnd, EpochsPassed
<1>2. CASE Directly
  <2>1. sessions' \subseteq sessions /\ UNCHANGED revoked
    BY <1>2 DEF Directly, CreateUser, ReactivateUser, RevokeViewerToken, LinkExpires, Logout,
           DeleteSession, CreateServiceAccount, DisableServiceAccount, RevokeKey, KeyExpires,
           vars, people
  <2>2. LoginsPassed'
    BY <1>2, <2>1, DirectSteps DEF SessionInv, LoginsPassed
  <2> QED
    BY <1>1, <2>1, <2>2 DEF SessionInv
<1>3. ASSUME NEW j \in Jobs, OthersStay(j), SessionsTyped', RevokedGrows,
             job'[j] = Idle \/ SameRequest(j)
               \/ (job'[j].op = "login" => job'[j].epoch = revoked'[job'[j].user]),
             JobsTyped'
      PROVE  LoginsPassed'
  <2> SUFFICES ASSUME NEW k \in Jobs, job'[k].op = "login"
               PROVE  job'[k].epoch <= revoked'[job'[k].user]
    BY DEF LoginsPassed
  <2>1. /\ job'[k].user \in Users /\ job'[k].epoch \in Nat
        /\ revoked[job'[k].user] \in Nat /\ revoked'[job'[k].user] \in Nat
    BY <1>3 DEF JobsTyped, Job, OfUser, SessionsTyped
  <2>2. CASE k # j \/ SameRequest(j)
    <3>1. job[k].op = "login" /\ job[k].epoch = job'[k].epoch /\ job[k].user = job'[k].user
      BY <1>3, <2>2 DEF OthersStay, SameRequest
    <3> QED
      BY <1>3, <2>1, <3>1 DEF SessionInv, LoginsPassed, RevokedGrows
  <2>3. CASE k = j /\ ~SameRequest(j)
    BY <1>3, <2>1, <2>3, IdleJob
  <2> QED
    BY <2>2, <2>3
<1>4. ASSUME NEW j \in Jobs, Requests(j)
      PROVE  SessionInv' /\ SessionsTyped'
  <2>1. Begun(j) /\ UNCHANGED <<sessions, revoked>>
    BY <1>4, RequestSteps DEF Begun, people
  <2> QED
    BY <1>1, <1>3, <2>1 DEF Begun, SessionInv
<1>5. ASSUME NEW j \in Jobs, Ends(j)
      PROVE  SessionsTyped' /\ RevokedGrows /\ SessionsEnd' /\ EpochsPassed'
  <2>1. CASE CreateSession(j)
    BY <2>1, CreateSessionEffect
  <2>2. CASE DisableUser(j) \/ ConsumePasswordReset(j)
    <3>1. job[j].user \in Users
      BY <2>2 DEF DisableUser, ConsumePasswordReset, At, JobsTyped, OfUser
    <3>2. DeleteSessions(job[j].user) \/ UNCHANGED <<sessions, revoked>>
      BY <2>2 DEF DisableUser, ConsumePasswordReset, people
    <3> QED
      BY <1>1, <3>1, <3>2, DeleteSessionsEffect
  <2>3. CASE ~(CreateSession(j) \/ DisableUser(j) \/ ConsumePasswordReset(j))
    <3>1. UNCHANGED <<sessions, revoked>>
      BY <1>5, <2>3 DEF Ends, PromoteToAdmin, PromoteToViewer, CreatePasswordReset, InsertKey,
             CreateViewerToken, RollBack, people
    <3> QED
      BY <1>1, <3>1
  <2> QED
    BY <2>1, <2>2, <2>3
<1>6. ASSUME NEW j \in Jobs, Ends(j)
      PROVE  SessionInv' /\ SessionsTyped'
  BY <1>3, <1>5, <1>6, EndSteps DEF SessionInv
<1>7. ASSUME NEW j \in Jobs, Advances(j)
      PROVE  SessionInv' /\ SessionsTyped'
  <2>1. Advanced(j) /\ UNCHANGED <<sessions, revoked>>
    BY <1>7, AdvanceSteps DEF Advanced, people
  <2> QED
    BY <1>1, <1>3, <2>1 DEF Advanced, SessionInv
<1> QED
  BY <1>2, <1>4, <1>6, <1>7, NextCases

LEMMA TokenSteps ==
  ASSUME TokensTyped, UsersTyped, JobsTyped, LinksTyped, SessionsTyped, [Next]_vars
  PROVE  TokensTyped'
<1>1. CASE Directly
  BY <1>1 DEF Directly, CreateUser, ReactivateUser, RevokeViewerToken, RevokeToken, LinkExpires,
         Logout, CreateServiceAccount, InsertAccount, DisableServiceAccount, DisableAccount,
         RevokeKey, KeyExpires, EndKey, vars, tokens, TokensTyped
<1>2. ASSUME NEW j \in Jobs, Requests(j) \/ Advances(j)
      PROVE  TokensTyped'
  BY <1>2, RequestSteps, AdvanceSteps DEF Begun, Advanced, tokens, TokensTyped
<1>3. ASSUME NEW j \in Jobs, Ends(j)
      PROVE  TokensTyped'
  <2>1. CASE CreateViewerToken(j)
    BY <2>1 DEF CreateViewerToken, At, JobsTyped, OfUser, TokensTyped
  <2>2. CASE InsertKey(j)
    BY <2>2 DEF InsertKey, TokensTyped
  <2>3. CASE UNCHANGED tokens
    BY <2>3 DEF tokens, TokensTyped
  <2> QED
    BY <1>3, <2>1, <2>2, <2>3 DEF Ends, PromoteToAdmin, PromoteToViewer, DisableUser,
       CreatePasswordReset, ConsumePasswordReset, CreateSession, RollBack, tokens
<1> QED
  BY <1>1, <1>2, <1>3, NextCases

-----------------------------------------------------------------------------
(***************************************************************************)
(* The invariant                                                           *)
(***************************************************************************)
IInv ==
  /\ UsersTyped /\ LinksTyped /\ SessionsTyped /\ TokensTyped /\ JobsTyped
  /\ LinksOfMade /\ JobsOfMade
  /\ AdminInv /\ KeyInv /\ LinkInv /\ SessionInv

LEMMA JobSteps ==
  ASSUME JobsTyped, LinksTyped, SessionsTyped, [Next]_vars
  PROVE  JobsTyped'
<1>1. CASE Directly
  BY <1>1, DirectSteps DEF JobsTyped
<1> QED
  BY <1>1, NextCases, RequestSteps, EndSteps, AdvanceSteps DEF Begun, Advanced

LEMMA InitIInv == Init => IInv
<1> SUFFICES ASSUME Init PROVE IInv
  OBVIOUS
<1>1. UsersTyped /\ TokensTyped
  BY AccessAssumption DEF Init, UsersTyped, TokensTyped
<1>2. links = <<>> /\ DOMAIN links = {} /\ LinksTyped
  BY DEF Init, LinksTyped
<1>3. SessionsTyped
  BY DEF Init, SessionsTyped
<1>4. JobsTyped /\ \A k \in Jobs : job[k] = Idle
  BY IdleJob DEF Init, JobsTyped, OfUser
<1>5. LinksOfMade /\ JobsOfMade
  BY <1>2, <1>4, IdleJob DEF LinksOfMade, JobsOfMade, OfUser
<1>6. AdminInv
  BY <1>4, IdleJob DEF Init, AdminInv, LastAdminStays, OneDisables, AnotherAdmin, Disables, At
<1>7. KeyInv
  <2>1. KeysBounded
    BY AccessAssumption DEF Init, KeysBounded
  <2> QED
    BY <1>4, <2>1, IdleJob DEF KeyInv, OneHoldsAccount, RoomForKey, HoldsAccount, At
<1>8. LinkInv
  BY <1>2, <1>4, IdleJob DEF LinkInv, LinkSpentOnce, UsesCounted, MarkedApart, JobLinks, At
<1>9. SessionInv
  BY <1>4, IdleJob DEF Init, SessionInv, SessionsEnd, EpochsPassed, LoginsPassed
<1> QED
  BY <1>1, <1>2, <1>3, <1>4, <1>5, <1>6, <1>7, <1>8, <1>9 DEF IInv

LEMMA NextIInv == IInv /\ [Next]_vars => IInv'
BY UserSteps, LinkSteps, SessionSteps, TokenSteps, JobSteps, MadeSteps, AdminSteps, KeySteps
   DEF IInv, LinksGrow

LEMMA Invariance == Spec => []IInv
BY InitIInv, NextIInv, PTL DEF Spec

\* Users, links, sessions, keys and requests stay what they are declared to
\* be, and no administrator is a viewer too (repository.go).
THEOREM TypeCorrect == Spec => []TypeOK
<1>1. IInv => TypeOK
  <2> SUFFICES ASSUME IInv PROVE TypeOK
    OBVIOUS
  <2>1. \A l \in DOMAIN links : /\ links[l].user \in Users /\ links[l].registers \in BOOLEAN
                                /\ links[l].state \in {"unused", "used", "expired"}
    BY LinkFields DEF IInv
  <2>2. \A s \in sessions : s.user \in Users /\ s.epoch \in 0 .. revoked[s.user] /\ s.late \in BOOLEAN
    BY SessionFields DEF IInv, SessionInv, EpochsPassed, SessionsTyped, Session
  <2>3. \A j \in Jobs : job[j].user \in Users \cup {Nobody} /\ job[j].marked \subseteq DOMAIN links
    BY DEF IInv, JobsTyped, Job, LinkInv, JobLinks
  <2> QED
    BY <2>1, <2>2, <2>3 DEF IInv, TypeOK, UsersTyped, TokensTyped
<1> QED
  BY <1>1, Invariance, PTL

\* However any number of administrators disable each other, one who is enabled
\* remains (DisableUser under its advisory lock).
THEOREM AnAdministratorRemains == Spec => []LastAdminStays
<1>1. IInv => LastAdminStays
  BY DEF IInv, AdminInv
<1> QED
  BY <1>1, Invariance, PTL

\* However many keys are asked for at once, the account never has more active
\* ones than allowed (CreateServiceAccountAPIToken under its row lock).
THEOREM KeyLimitHolds == Spec => []KeysBounded
<1>1. IInv => KeysBounded
  BY DEF IInv, KeyInv
<1> QED
  BY <1>1, Invariance, PTL

\* A link sets one password, and a session from before a revocation is gone
\* unless its login was under way (ConsumePasswordReset, DisableUser).
THEOREM EndedForGood == Spec => []EndedStaysEnded
<1>1. IInv => EndedStaysEnded
  BY DEF IInv, LinkInv, SessionInv, EndedStaysEnded
<1> QED
  BY <1>1, Invariance, PTL
=============================================================================
