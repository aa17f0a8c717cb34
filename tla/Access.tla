-------------------------------- MODULE Access --------------------------------
(***************************************************************************)
(* Users, reset links, sessions and access keys: the identity service and  *)
(* its handlers, with the transactions of persistence/bun/repository.go.   *)
(*                                                                         *)
(* PostgreSQL runs them at READ COMMITTED: a statement sees what has been  *)
(* committed, waits for a row that another transaction has updated, and    *)
(* looks at its conditions again.  A job is one request; an update that it *)
(* has not committed is in its record, as a lock.  The transactions of     *)
(* SQLite are some of these interleavings.  There is one service account.  *)
(***************************************************************************)
EXTENDS Naturals, Sequences, FiniteSets

CONSTANTS Users, Jobs,
          Nobody,     \* not a user
          MaxKeys,    \* MaxActiveServiceAccountAccessKeys
          MaxStarts   \* bound on requests

ASSUME AccessAssumption ==
  /\ Nobody \notin Users /\ IsFiniteSet(Users)
  /\ MaxKeys \in Nat \ {0} /\ MaxStarts \in Nat

VARIABLES users,        \* rows of users
          links,        \* rows of password_resets, numbered in their order
          sessions,     \* rows of sessions
          revoked,      \* how often the sessions of a user were to end
          account,      \* the row of the service account
          keys,         \* how many of its rows of api_tokens are active
          viewerTokens, \* users with an unrevoked row there
          job,          \* per job: the handler and its locals
          starts

people == <<users, links, sessions, revoked>>
tokens == <<account, keys, viewerTokens>>
vars == <<people, tokens, job, starts>>

Idle == [op |-> "none", phase |-> "idle", user |-> Nobody,
         link |-> 0, marked |-> {},   \* the link to consume; the links it has updated
         epoch |-> 0]                 \* revoked, when it read the user

NotMade == [made |-> FALSE, enabled |-> FALSE, admin |-> FALSE, viewer |-> FALSE]
Regular == [NotMade EXCEPT !.made = TRUE, !.enabled = TRUE]
AnyUser == {user \in [made : BOOLEAN, enabled : BOOLEAN, admin : BOOLEAN, viewer : BOOLEAN] :
              /\ ~(user.admin /\ user.viewer)
              /\ user.enabled \/ user.admin \/ user.viewer => user.made}

\* A look-up by identifier, name or email leaves out who is disabled.
Found(u) == users[u].enabled

\* What AuthenticateSession says of the user of a session.
Admin(u) == Found(u) /\ users[u].admin
ActiveAdmins == {u \in Users : Admin(u)}

\* An installation some time after BootstrapAdmin made the first user.
Init ==
  /\ users \in [Users -> AnyUser] /\ ActiveAdmins # {}
  /\ links = <<>> /\ sessions = {} /\ revoked = [u \in Users |-> 0]
  /\ account \in {"none", "enabled"} /\ keys \in 0 .. (IF account = "none" THEN 0 ELSE MaxKeys)
  /\ viewerTokens = {}
  /\ job = [j \in Jobs |-> Idle] /\ starts = 0

\* An administrator is never a viewer too.
TypeOK ==
  /\ users \in [Users -> AnyUser]
  /\ \A l \in DOMAIN links : /\ links[l].user \in Users /\ links[l].registers \in BOOLEAN
                             /\ links[l].state \in {"unused", "used", "expired"}
  /\ \A s \in sessions : s.user \in Users /\ s.epoch \in 0 .. revoked[s.user] /\ s.late \in BOOLEAN
  /\ account \in {"none", "enabled", "disabled"} /\ keys \in Nat
  /\ viewerTokens \subseteq Users
  /\ \A j \in Jobs : job[j].user \in Users \cup {Nobody} /\ job[j].marked \subseteq DOMAIN links

-----------------------------------------------------------------------------
(***************************************************************************)
(* Requests and transactions                                               *)
(***************************************************************************)
Counted == starts < MaxStarts /\ starts' = starts + 1

Start(j, op, phase, u) ==
  /\ job[j] = Idle /\ Counted
  /\ job' = [job EXCEPT ![j] = [Idle EXCEPT !.op = op, !.phase = phase, !.user = u]]

At(j, op, phase) == job[j].op = op /\ job[j].phase = phase
To(j, phase) == job' = [job EXCEPT ![j].phase = phase] /\ UNCHANGED starts
End(j) == job' = [job EXCEPT ![j] = Idle] /\ UNCHANGED starts

\* requireSession and requireSystemAdmin.
RequireAdmin == ActiveAdmins # {}

\* Rows that an open transaction has updated.
UserLocked(u) == \E k \in Jobs : At(k, "disable", "commit") /\ job[k].user = u
LinkLocked(l) == \E k \in Jobs : l \in job[k].marked
AccountLocked == \E k \in Jobs : job[k].op = "key" /\ job[k].phase \in {"count", "insert"}
AdvisoryLocked == \E k \in Jobs : job[k].op = "disable" /\ job[k].phase \in {"update", "commit"}

\* A transaction that fails, or whose process stops, leaves nothing.
RollBack(j) == job[j] # Idle /\ End(j) /\ UNCHANGED <<people, tokens>>

-----------------------------------------------------------------------------
(***************************************************************************)
(* Users                                                                   *)
(***************************************************************************)
NewLink(u, registers) == [user |-> u, registers |-> registers, state |-> "unused", uses |-> 0]

\* What the service makes for the one who is to register: a user, disabled,
\* and a link.
Registering(u) == [user |-> [Regular EXCEPT !.enabled = FALSE], link |-> NewLink(u, TRUE)]

\* Both in one transaction.
CreateUserWithPasswordReset(u) ==
  /\ users' = [users EXCEPT ![u] = Registering(u).user]
  /\ links' = Append(links, Registering(u).link)

CreateUser(u) ==
  /\ RequireAdmin /\ ~users[u].made /\ Counted
  /\ CreateUserWithPasswordReset(u)
  /\ UNCHANGED <<sessions, revoked, tokens, job>>

\* The service looks at the user first ...
Promotable(u, role) ==
  /\ Found(u) /\ ~users[u].admin
  /\ role = "viewer" => ~users[u].viewer

RequestPromotion(j, u, role) ==
  /\ RequireAdmin /\ Promotable(u, role)
  /\ Start(j, "promote", role, u)
  /\ UNCHANGED <<people, tokens>>

\* ... and the conditions of the update look once more.
PromoteToAdmin(j) ==
  LET u == job[j].user
  IN /\ At(j, "promote", "admin") /\ ~UserLocked(u)
     /\ users' = IF users[u].enabled
                 THEN [users EXCEPT ![u].admin = TRUE, ![u].viewer = FALSE] ELSE users
     /\ End(j) /\ UNCHANGED <<links, sessions, revoked, tokens>>

\* Fault: that the user is no administrator is not looked at again.
PromoteAnyToViewer(j) ==
  LET u == job[j].user
  IN /\ At(j, "promote", "viewer") /\ ~UserLocked(u)
     /\ users' = IF users[u].enabled THEN [users EXCEPT ![u].viewer = TRUE] ELSE users
     /\ End(j) /\ UNCHANGED <<links, sessions, revoked, tokens>>

PromoteToViewer(j) ==
  LET u == job[j].user
  IN /\ At(j, "promote", "viewer") /\ ~UserLocked(u)
     /\ users' = IF users[u].enabled /\ ~users[u].admin
                 THEN [users EXCEPT ![u].viewer = TRUE] ELSE users
     /\ End(j) /\ UNCHANGED <<links, sessions, revoked, tokens>>

\* Not one's own account, and one that is enabled.
RequestDisable(j, actor, u) ==
  /\ Admin(actor) /\ actor # u /\ Found(u)
  /\ Start(j, "disable", "lock", u)
  /\ UNCHANGED <<people, tokens>>

\* Fault: nothing serialises disabling.
DisableUnlocked(j) ==
  /\ At(j, "disable", "lock")
  /\ To(j, "update") /\ UNCHANGED <<people, tokens>>

\* pg_advisory_xact_lock.
LockDisable(j) ==
  /\ At(j, "disable", "lock") /\ ~AdvisoryLocked
  /\ To(j, "update") /\ UNCHANGED <<people, tokens>>

\* The update counts the administrators in what is committed.
UpdateDisabled(j) ==
  LET u == job[j].user
  IN /\ At(j, "disable", "update") /\ ~UserLocked(u)
     /\ IF users[u].enabled /\ (~users[u].admin \/ Cardinality(ActiveAdmins) > 1)
        THEN To(j, "commit") ELSE End(j)
     /\ UNCHANGED <<people, tokens>>

\* What a disabling and a completed reset do to the user's sessions.
DeleteSessions(u) ==
  /\ sessions' = {s \in sessions : s.user # u}
  /\ revoked' = [revoked EXCEPT ![u] = @ + 1]

\* Its sessions are deleted, and it commits.
DisableUser(j) ==
  LET u == job[j].user
  IN /\ At(j, "disable", "commit")
     /\ users' = [users EXCEPT ![u].enabled = FALSE]
     /\ DeleteSessions(u)
     /\ End(j) /\ UNCHANGED <<links, tokens>>

\* The service has nothing to do for one who is enabled.
MayReactivate(u) == users[u].made /\ ~users[u].enabled

Enable(u) == ~UserLocked(u) /\ users' = [users EXCEPT ![u].enabled = TRUE]

ReactivateUser(u) ==
  /\ RequireAdmin /\ MayReactivate(u) /\ Counted
  /\ Enable(u)
  /\ UNCHANGED <<links, sessions, revoked, tokens, job>>

-----------------------------------------------------------------------------
(***************************************************************************)
(* Registration and reset links                                            *)
(***************************************************************************)
\* Expired ones among them.
UnusedOf(u) == {l \in DOMAIN links : links[l].user = u /\ links[l].state # "used"}

\* An email that cannot be sent changes only what the answer says.
RequestReset(j, u) ==
  /\ RequireAdmin /\ Found(u)
  /\ Start(j, "reset", "mark", u)
  /\ UNCHANGED <<people, tokens>>

\* The first statement of CreatePasswordReset: the unused links it can see.
MarkUsed(j) ==
  LET earlier == UnusedOf(job[j].user)
  IN /\ At(j, "reset", "mark") /\ \A l \in earlier : ~LinkLocked(l)
     /\ job' = [job EXCEPT ![j].phase = "insert", ![j].marked = earlier]
     /\ UNCHANGED <<people, tokens, starts>>

\* The link that the service has made.
ResetLink(u) == NewLink(u, FALSE)

\* The second one, and the commit.
CreatePasswordReset(j) ==
  /\ At(j, "reset", "insert")
  /\ links' = Append([l \in DOMAIN links |-> IF l \in job[j].marked
                                             THEN [links[l] EXCEPT !.state = "used"] ELSE links[l]],
                     ResetLink(job[j].user))
  /\ End(j) /\ UNCHANGED <<users, sessions, revoked, tokens>>

LinkExpires(l) ==
  /\ links[l].state = "unused"
  /\ links' = [links EXCEPT ![l].state = "expired"]
  /\ UNCHANGED <<users, sessions, revoked, tokens, job, starts>>

\* CompletePasswordReset looks at the link before it hashes the password, and
\* the update does so again.
Usable(l) == links[l].state = "unused"

RequestCompletion(j, l) ==
  /\ Usable(l)
  /\ job[j] = Idle /\ Counted
  /\ job' = [job EXCEPT ![j] = [Idle EXCEPT !.op = "complete", !.phase = "spend",
                                            !.user = links[l].user, !.link = l]]
  /\ UNCHANGED <<people, tokens>>

\* Fault: a link that was good at first is taken for good.
SpendAgain(j) ==
  /\ At(j, "complete", "spend") /\ ~LinkLocked(job[j].link)
  /\ job' = [job EXCEPT ![j].phase = "set", ![j].marked = {job[j].link}]
  /\ UNCHANGED <<people, tokens, starts>>

\* The first statement of ConsumePasswordReset.
Spend(j) ==
  /\ At(j, "complete", "spend") /\ ~LinkLocked(job[j].link)
  /\ job' = [job EXCEPT ![j] = IF Usable(job[j].link)
                               THEN [@ EXCEPT !.phase = "set", !.marked = {job[j].link}] ELSE Idle]
  /\ UNCHANGED <<people, tokens, starts>>

\* The password of the user, who is enabled or becomes so by registering, the
\* sessions, and the commit.
ConsumePasswordReset(j) ==
  LET l == job[j].link
      u == job[j].user
  IN /\ At(j, "complete", "set") /\ ~UserLocked(u)
     /\ IF links[l].registers \/ users[u].enabled
        THEN /\ users' = [users EXCEPT ![u].enabled = TRUE]
             /\ links' = [links EXCEPT ![l].state = "used", ![l].uses = @ + 1]
             /\ DeleteSessions(u)
        ELSE UNCHANGED people
     /\ End(j) /\ UNCHANGED tokens

-----------------------------------------------------------------------------
(***************************************************************************)
(* Sessions                                                                *)
(***************************************************************************)
\* The service reads the user and verifies the password ...
VerifiesPassword(u) == Found(u)

Login(j, u) ==
  /\ VerifiesPassword(u)
  /\ job[j] = Idle /\ Counted
  /\ job' = [job EXCEPT ![j] = [Idle EXCEPT !.op = "login", !.phase = "session",
                                            !.user = u, !.epoch = revoked[u]]]
  /\ UNCHANGED <<people, tokens>>

InsertSession(u, epoch) ==
  sessions' = sessions \cup {[user |-> u, epoch |-> epoch, late |-> epoch < revoked[u]]}

\* ... and makes a session, late when the user's sessions ended meanwhile.
CreateSession(j) ==
  /\ At(j, "login", "session")
  /\ InsertSession(job[j].user, job[j].epoch)
  /\ End(j) /\ UNCHANGED <<users, links, revoked, tokens>>

DeleteSession(s) == sessions' = sessions \ {s}

Logout(s) ==
  /\ DeleteSession(s)
  /\ UNCHANGED <<users, links, revoked, tokens, job, starts>>

-----------------------------------------------------------------------------
(***************************************************************************)
(* The service account's keys, and the registry tokens of viewers          *)
(***************************************************************************)
InsertAccount == account = "none" /\ account' = "enabled"

CreateServiceAccount ==
  /\ RequireAdmin /\ InsertAccount /\ Counted
  /\ UNCHANGED <<people, keys, viewerTokens, job>>

DisableAccount == account = "enabled" /\ ~AccountLocked /\ account' = "disabled"

DisableServiceAccount ==
  /\ RequireAdmin /\ DisableAccount /\ Counted
  /\ UNCHANGED <<people, keys, viewerTokens, job>>

\* The service looks for an enabled account, and makes the key.
NewKey(j) == account = "enabled" /\ Start(j, "key", "lock", Nobody)

RequestKey(j) == RequireAdmin /\ NewKey(j) /\ UNCHANGED <<people, tokens>>

\* Fault: the row of the account is not locked.
LockNothing(j) ==
  /\ At(j, "key", "lock")
  /\ IF account = "enabled" THEN To(j, "count") ELSE End(j)
  /\ UNCHANGED <<people, tokens>>

\* SELECT ... FOR UPDATE.
LockAccount(j) ==
  /\ At(j, "key", "lock") /\ ~AccountLocked
  /\ IF account = "enabled" THEN To(j, "count") ELSE End(j)
  /\ UNCHANGED <<people, tokens>>

CountActive(j) ==
  /\ At(j, "key", "count")
  /\ IF keys >= MaxKeys THEN End(j) ELSE To(j, "insert")
  /\ UNCHANGED <<people, tokens>>

InsertKey(j) ==
  /\ At(j, "key", "insert")
  /\ keys' = keys + 1
  /\ End(j) /\ UNCHANGED <<people, account, viewerTokens>>

EndKey == keys > 0 /\ keys' = keys - 1

\* Whether the account is enabled does not matter.
RevokeKey ==
  /\ RequireAdmin /\ EndKey /\ Counted
  /\ UNCHANGED <<people, account, viewerTokens, job>>

KeyExpires == EndKey /\ UNCHANGED <<people, account, viewerTokens, job, starts>>

MayHaveToken(u) == Found(u) /\ users[u].viewer

RequestViewerToken(j, u) ==
  /\ MayHaveToken(u)
  /\ Start(j, "viewer", "insert", u)
  /\ UNCHANGED <<people, tokens>>

\* ON CONFLICT DO NOTHING, under the index of the unrevoked ones.
CreateViewerToken(j) ==
  /\ At(j, "viewer", "insert")
  /\ viewerTokens' = viewerTokens \cup {job[j].user}
  /\ End(j) /\ UNCHANGED <<people, account, keys>>

RevokeToken(u) == u \in viewerTokens /\ viewerTokens' = viewerTokens \ {u}

RevokeViewerToken(u) ==
  /\ MayHaveToken(u) /\ RevokeToken(u)
  /\ UNCHANGED <<people, account, keys, job, starts>>

-----------------------------------------------------------------------------
Next ==
  \/ \E u \in Users : CreateUser(u) \/ ReactivateUser(u) \/ RevokeViewerToken(u)
  \/ \E l \in DOMAIN links : LinkExpires(l)
  \/ \E s \in sessions : Logout(s)
  \/ CreateServiceAccount \/ DisableServiceAccount \/ RevokeKey \/ KeyExpires
  \/ \E j \in Jobs :
       \/ \E u \in Users :
            \/ \E role \in {"admin", "viewer"} : RequestPromotion(j, u, role)
            \/ \E actor \in Users : RequestDisable(j, actor, u)
            \/ RequestReset(j, u) \/ Login(j, u) \/ RequestViewerToken(j, u)
       \/ \E l \in DOMAIN links : RequestCompletion(j, l)
       \/ PromoteToAdmin(j) \/ PromoteToViewer(j)
       \/ LockDisable(j) \/ UpdateDisabled(j) \/ DisableUser(j)
       \/ MarkUsed(j) \/ CreatePasswordReset(j) \/ Spend(j) \/ ConsumePasswordReset(j)
       \/ CreateSession(j)
       \/ RequestKey(j) \/ LockAccount(j) \/ CountActive(j) \/ InsertKey(j)
       \/ CreateViewerToken(j)
       \/ RollBack(j)

Spec == Init /\ [][Next]_vars

-----------------------------------------------------------------------------
\* However administrators disable each other, one who is enabled remains:
\* nobody who could reactivate the others would be left (DisableUser).
LastAdminStays == ActiveAdmins # {}

\* No interleaving of requests for keys gives the account more active ones
\* than are allowed (CreateServiceAccountAPIToken).
KeysBounded == keys <= MaxKeys

\* A link sets a password once (ConsumePasswordReset).
LinkSpentOnce == \A l \in DOMAIN links : links[l].uses <= 1

\* A session from before its user was disabled or the password was reset is
\* gone, but for one of a login that was under way then.
SessionsEnd == \A s \in sessions : s.late \/ s.epoch = revoked[s.user]

\* Credentials that ended stay ended: links that were used, and sessions.
EndedStaysEnded == LinkSpentOnce /\ SessionsEnd
=============================================================================
