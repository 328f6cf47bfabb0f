------------------------------- MODULE Accounts -------------------------------
(***************************************************************************)
(* Accounts and who may act for them: the users and sessions tables of     *)
(* auth.go, the sign-ins of handlers.go and oidc.go, the handlers of       *)
(* handlers_users.go and the provisioning of the first super-admin.  No    *)
(* handler runs in a transaction: every statement is a step of its own,    *)
(* the signed-in user is the snapshot sessionUser made when the request    *)
(* came in, and revoking sessions or clearing a step-up may fail with      *)
(* nothing but a log line.                                                 *)
(*                                                                         *)
(* A request signs somebody in, changes something, or does not come.  The  *)
(* session it opens is named after it, and so is the password it sets.     *)
(* An account is a row of users: its username, e-mail and limits do not    *)
(* decide who may do what, and a row once deleted does not come back.      *)
(***************************************************************************)
EXTENDS FiniteSets, Naturals

CONSTANTS
  Users,          \* rows the users table may ever hold
  Root,           \* the row made for ADMIN_USERNAME
  Sso,            \* rows backed by an external identity
  Founders,       \* admins of a database older than super-admins
  Requests,
  Nobody,         \* no user
  NoPassword,     \* password_hash NULL
  FirstPassword   \* a password older than every request, or ADMIN_PASSWORD

ASSUME UserAssumption ==
  /\ IsFiniteSet(Users)
  /\ Root \in Users \ (Sso \cup Founders)
  /\ Sso \cup Founders \subseteq Users
  /\ Sso \cap Founders = {}
  /\ Nobody \notin Users
  /\ NoPassword # FirstPassword
  /\ Requests \cap {Nobody, NoPassword, FirstPassword} = {}

VARIABLES
  server,     \* "down", "promoting" (bootstrapAdmin's two statements), "up"
  exists,     \* rows of users
  used,       \* rows users has or had
  admin,      \* is_admin
  super,      \* is_super_admin
  password,   \* password_hash
  live,       \* rows of sessions
  stepUp,     \* sessions with a reauth_at inside reauthWindow
  pc,         \* where each request is
  ctx,        \* what each request read when it came in and what it asks for
  born,       \* history: sessions whose user was an admin when they were inserted
  era         \* history: the password their user had then

users == <<exists, used, admin, super, password>>
sessions == <<live, stepUp, born, era>>
vars == <<server, users, sessions, pc, ctx>>

SignIns == {"login", "callback"}
Flags == {"grant", "revoke"}
AdminOps == Flags \cup {"reset", "remove", "create"}
Ops == SignIns \cup AdminOps \cup {"change"}

Passwords == Requests \cup {NoPassword, FirstPassword}
Contexts == [op : Ops \cup {"none"}, user : Users \cup {Nobody},
             cookie : Requests \cup {Nobody}, super : BOOLEAN, target : Users \cup {Nobody}]
NoContext == [op |-> "none", user |-> Nobody, cookie |-> Nobody, super |-> FALSE,
              target |-> Nobody]

(* A request that changed something and still has sessions to see to ("revoke", then
   "clear"; "clearLate" when the revocation failed), or stopped before it did. *)
Pending == {"revoke", "clear", "clearLate", "halfDone"}
Ended == {"done", "failed", "halfDone"}
Phases == {"new", "unknown", "known", "prove", "look", "count", "write"} \cup Pending \cup Ended

TypeOK ==
  /\ server \in {"down", "promoting", "up"}
  /\ exists \subseteq used /\ used \subseteq Users
  /\ admin \subseteq exists /\ super \subseteq exists
  /\ password \in [Users -> Passwords]
  /\ live \subseteq Requests /\ \A s \in live : ctx[s].user \in exists
  /\ stepUp \subseteq live /\ born \subseteq live
  /\ era \in [Requests -> Passwords]
  /\ pc \in [Requests -> Phases]
  /\ ctx \in [Requests -> Contexts]

Init ==
  /\ server = "down"
  /\ exists = Founders /\ used = Founders
  /\ admin = Founders /\ super = {}
  /\ password = [u \in Users |-> IF u \in Founders THEN FirstPassword ELSE NoPassword]
  /\ live = {} /\ stepUp = {} /\ born = {}
  /\ era = [r \in Requests |-> NoPassword]
  /\ pc = [r \in Requests |-> "new"]
  /\ ctx = [r \in Requests |-> NoContext]

-----------------------------------------------------------------------------
(* bootstrapAdmin, before the server listens. *)

AddUser(u, secret, isAdmin) ==
  /\ u \notin used
  /\ used' = used \cup {u}
  /\ exists' = exists \cup {u}
  /\ admin' = IF isAdmin THEN admin \cup {u} ELSE admin
  /\ password' = [password EXCEPT ![u] = secret]
  /\ UNCHANGED super

(* There is a super-admin, or the name is taken: nobody is promoted. Nor is
   anybody when this start's environment names no administrator, or gives it
   a password that is too short, so any start may pass this way. *)
SkipBootstrap ==
  /\ server = "down"
  /\ server' = "up"
  /\ UNCHANGED <<users, sessions, pc, ctx>>

CreateRoot ==
  /\ server = "down"
  /\ super = {}
  /\ AddUser(Root, FirstPassword, TRUE)
  /\ server' = "promoting"
  /\ UNCHANGED <<sessions, pc, ctx>>

PromoteRoot ==
  /\ server = "promoting"
  /\ super' = super \cup {Root}
  /\ server' = "up"
  /\ UNCHANGED <<exists, used, admin, password, sessions, pc, ctx>>

(* The process stops, and with it every request that has not been answered. *)
CutOff(phase) ==
  IF phase \in Ended \cup {"new"} THEN phase
  ELSE IF phase \in Pending THEN "halfDone" ELSE "failed"

Crash ==
  /\ server # "down"
  /\ server' = "down"
  /\ pc' = [r \in Requests |-> CutOff(pc[r])]
  /\ ctx' = [r \in Requests |-> IF CutOff(pc[r]) = "failed" THEN NoContext ELSE ctx[r]]
  /\ UNCHANGED <<users, sessions>>

-----------------------------------------------------------------------------
(* Signing in. *)

Begin(r, op, u, phase) ==
  /\ server = "up" /\ pc[r] = "new"
  /\ ctx' = [ctx EXCEPT ![r] = [NoContext EXCEPT !.op = op, !.user = u]]
  /\ pc' = [pc EXCEPT ![r] = phase]
  /\ UNCHANGED <<server, users, sessions>>

(* handleLoginPost: the hash is read and the password matches it. *)
CheckLogin(r, u) ==
  /\ u \in exists /\ password[u] # NoPassword
  /\ Begin(r, "login", u, "known")

(* handleOIDCCallback: findUserByOIDCIdentity. *)
Identify(r, u) ==
  /\ u \in Sso
  /\ \/ u \in exists /\ Begin(r, "callback", u, "known")
     \/ u \notin used /\ Begin(r, "callback", u, "unknown")

(* upsertOIDCUser inserts the account; the unique identity refuses a second one. *)
Register(r) ==
  LET u == ctx[r].user IN
  /\ server = "up" /\ pc[r] = "unknown"
  /\ \/ AddUser(u, NoPassword, FALSE) /\ pc' = [pc EXCEPT ![r] = "known"]
     \/ u \in used /\ pc' = [pc EXCEPT ![r] = "failed"] /\ UNCHANGED users
  /\ UNCHANGED <<server, sessions, ctx>>

(* Mutant: sessions does not reference users. *)
OpenSessionOfAnyone(r, fresh) ==
  LET u == ctx[r].user IN
  /\ server = "up" /\ pc[r] = "known"
  /\ fresh => ctx[r].op = "callback"
  /\ live' = live \cup {r}
  /\ stepUp' = IF fresh THEN stepUp \cup {r} ELSE stepUp
  /\ born' = IF u \in admin THEN born \cup {r} ELSE born
  /\ era' = [era EXCEPT ![r] = password[u]]
  /\ pc' = [pc EXCEPT ![r] = "done"]
  /\ UNCHANGED <<server, users, ctx>>

(* createSession.  The step-up is the provider's, and only a callback brings one; the
   foreign key refuses a session of a deleted account. *)
OpenSession(r, fresh) ==
  LET u == ctx[r].user IN
  /\ server = "up" /\ pc[r] = "known"
  /\ fresh => ctx[r].op = "callback"
  /\ u \in exists
  /\ live' = live \cup {r}
  /\ stepUp' = IF fresh THEN stepUp \cup {r} ELSE stepUp
  /\ born' = IF u \in admin THEN born \cup {r} ELSE born
  /\ era' = [era EXCEPT ![r] = password[u]]
  /\ pc' = [pc EXCEPT ![r] = "done"]
  /\ UNCHANGED <<server, users, ctx>>

DropSessions(S) ==
  /\ live' = live \ S
  /\ stepUp' = stepUp \ S
  /\ born' = born \ S
  /\ UNCHANGED era

(* Logging out, running out of sessionTTL. *)
EndSession(s) ==
  /\ s \in live
  /\ DropSessions({s})
  /\ UNCHANGED <<server, users, pc, ctx>>

(* reauthWindow passes. *)
StepUpAges(s) ==
  /\ s \in stepUp
  /\ stepUp' = stepUp \ {s}
  /\ UNCHANGED <<server, users, live, born, era, pc, ctx>>

-----------------------------------------------------------------------------
(* What a signed-in user asks for. *)

SessionsOf(u) == {s \in live : ctx[s].user = u}

Arrive(r, s, op, t, phase) ==
  /\ server = "up" /\ pc[r] = "new" /\ s \in live
  /\ ctx' = [ctx EXCEPT ![r] = [op |-> op, user |-> ctx[s].user, cookie |-> s,
                                super |-> ctx[s].user \in super, target |-> t]]
  /\ pc' = [pc EXCEPT ![r] = phase]
  /\ UNCHANGED <<server, users, sessions>>

(* handleAccountPassword: whoever has a password proves it, an account of the identity
   provider alone needs a step-up. *)
AskChange(r, s) ==
  LET u == ctx[s].user IN
  \/ password[u] # NoPassword /\ Arrive(r, s, "change", u, "prove")
  \/ /\ password[u] = NoPassword
     /\ u \notin Sso \/ s \in stepUp
     /\ Arrive(r, s, "change", u, "write")

(* requireAdmin; nobody revokes or deletes themselves. *)
AskAdmin(r, s, op, t) ==
  /\ op \in AdminOps
  /\ ctx[s].user \in admin
  /\ op \in {"revoke", "remove"} => t # ctx[s].user
  /\ op = "create" => t \notin Sso
  /\ Arrive(r, s, op, t, "look")

GoTo(r, phase) ==
  /\ pc' = [pc EXCEPT ![r] = phase]
  /\ UNCHANGED <<server, users, sessions, ctx>>

(* checkPassword on the hash of this moment. *)
Prove(r) ==
  /\ server = "up" /\ pc[r] = "prove"
  /\ ctx[r].user \in exists /\ password[ctx[r].user] # NoPassword
  /\ GoTo(r, "write")

(* Mutant: only the sole-admin rule protects a super-admin. *)
AllowedDemotion(c) ==
  CASE c.op = "create" -> c.target \notin exists
    [] c.op = "reset"  -> c.target \in exists /\ (c.target \in super => c.super)
    [] OTHER           -> c.target \in exists

(* Mutant: any admin resets any password. *)
AllowedReset(c) ==
  CASE c.op = "create" -> c.target \notin exists
    [] c.op \in {"reset", "grant"} -> c.target \in exists
    [] OTHER           -> c.target \in exists \ super

(* What each handler demands of its target's row. *)
Allowed(c) ==
  CASE c.op = "create" -> c.target \notin exists
    [] c.op = "reset"  -> c.target \in exists /\ (c.target \in super => c.super)
    [] c.op = "grant"  -> c.target \in exists
    [] OTHER           -> c.target \in exists \ super

Look(r) ==
  LET c == ctx[r] IN
  /\ server = "up" /\ pc[r] = "look"
  /\ Allowed(c)
  /\ GoTo(r, IF c.op = "revoke" \/ (c.op = "remove" /\ c.target \in admin)
             THEN "count" ELSE "write")

(* countAdmins: not the last one. *)
Count(r) ==
  /\ server = "up" /\ pc[r] = "count"
  /\ Cardinality(admin) > 1
  /\ GoTo(r, "write")

(* A check fails, a statement fails or the client goes away before anything is written:
   nothing of the request is left. *)
Refuse(r) ==
  /\ server = "up" /\ pc[r] \notin {"new"} \cup Pending \cup Ended
  /\ pc' = [pc EXCEPT ![r] = "failed"]
  /\ ctx' = [ctx EXCEPT ![r] = NoContext]
  /\ UNCHANGED <<server, users, sessions>>

Writes(r, ops, phase) ==
  /\ server = "up" /\ pc[r] = "write"
  /\ ctx[r].op \in ops
  /\ pc' = [pc EXCEPT ![r] = phase]
  /\ UNCHANGED <<server, ctx>>

(* updatePassword: no row, nothing changed, no error. *)
SetPassword(r) ==
  LET t == ctx[r].target IN
  /\ Writes(r, {"change", "reset"}, "revoke")
  /\ password' = IF t \in exists THEN [password EXCEPT ![t] = r] ELSE password
  /\ UNCHANGED <<exists, used, admin, super, sessions>>

SetAdminFlag(r) ==
  LET t == ctx[r].target IN
  /\ Writes(r, Flags, "revoke")
  /\ admin' = IF ctx[r].op = "grant" THEN admin \cup ({t} \cap exists) ELSE admin \ {t}
  /\ UNCHANGED <<exists, used, super, password, sessions>>

(* deleteUser; the sessions go with the row. *)
DeleteUser(r) ==
  LET t == ctx[r].target IN
  /\ Writes(r, {"remove"}, "done")
  /\ exists' = exists \ {t}
  /\ admin' = admin \ {t}
  /\ super' = super \ {t}
  /\ DropSessions(SessionsOf(t))
  /\ UNCHANGED <<used, password>>

CreateUser(r, isAdmin) ==
  /\ Writes(r, {"create"}, "done")
  /\ AddUser(ctx[r].target, r, isAdmin)
  /\ UNCHANGED sessions

(* Mutant: granting rights signs nobody out. *)
RevocableUnlessGranted(c) ==
  IF c.op = "change" THEN SessionsOf(c.target) \ {c.cookie}
  ELSE IF c.op = "grant" THEN {} ELSE SessionsOf(c.target)

(* Mutant: id = $2 for id <> $2. *)
RevocableHere(c) ==
  IF c.op = "change" THEN SessionsOf(c.target) \cap {c.cookie} ELSE SessionsOf(c.target)

(* deleteUserSessions: a change of one's own password keeps the session that made it. *)
Revocable(c) ==
  IF c.op = "change" THEN SessionsOf(c.target) \ {c.cookie} ELSE SessionsOf(c.target)

RevokeSessions(r) ==
  /\ server = "up" /\ pc[r] = "revoke"
  /\ DropSessions(Revocable(ctx[r]))
  /\ pc' = [pc EXCEPT ![r] = IF ctx[r].op = "change" THEN "clear" ELSE "done"]
  /\ UNCHANGED <<server, users, ctx>>

RevocationFails(r) ==
  /\ server = "up" /\ pc[r] = "revoke"
  /\ GoTo(r, IF ctx[r].op = "change" THEN "clearLate" ELSE "halfDone")

(* Mutant: the session that made the change keeps its step-up. *)
SpentElsewhere(c) == SessionsOf(c.target) \ {c.cookie}

(* clearSessionReauth: the step-up is spent. *)
Spent(c) == SessionsOf(c.target)

ClearStepUp(r) ==
  /\ server = "up" /\ pc[r] \in {"clear", "clearLate"}
  /\ stepUp' = stepUp \ Spent(ctx[r])
  /\ pc' = [pc EXCEPT ![r] = IF pc[r] = "clear" THEN "done" ELSE "halfDone"]
  /\ UNCHANGED <<server, users, live, born, era, ctx>>

ClearFails(r) ==
  /\ server = "up" /\ pc[r] \in {"clear", "clearLate"}
  /\ GoTo(r, "halfDone")

-----------------------------------------------------------------------------
Boot == SkipBootstrap \/ CreateRoot \/ PromoteRoot

SigningIn(r) ==
  \/ \E u \in Users : CheckLogin(r, u) \/ Identify(r, u)
  \/ Register(r)
  \/ \E fresh \in BOOLEAN : OpenSession(r, fresh)

Asking(r) ==
  \/ \E s \in live : AskChange(r, s)
  \/ \E s \in live, op \in AdminOps, t \in Users : AskAdmin(r, s, op, t)
  \/ Prove(r) \/ Look(r) \/ Count(r) \/ Refuse(r)

Changing(r) ==
  \/ SetPassword(r) \/ SetAdminFlag(r) \/ DeleteUser(r)
  \/ \E isAdmin \in BOOLEAN : CreateUser(r, isAdmin)
  \/ RevokeSessions(r) \/ RevocationFails(r) \/ ClearStepUp(r) \/ ClearFails(r)

Next ==
  \/ Boot \/ Crash
  \/ \E r \in Requests : SigningIn(r) \/ Asking(r) \/ Changing(r)
  \/ \E s \in live : EndSession(s) \/ StepUpAges(s)

Spec == Init /\ [][Next]_vars

-----------------------------------------------------------------------------
(* A change of u's password or rights whose sessions are not, or never were, seen to. *)
Unsettled(u) == \E r \in Requests : pc[r] \in Pending /\ ctx[r].target = u

(* A super-admin is never demoted and never deleted: the flag is read statements before
   the row is changed (handleAdminToggleAdmin, handleAdminDeleteUser). *)
SuperAdminsStay == [][super \subseteq super' /\ super \cap admin \subseteq admin']_vars

(* Only a super-admin or the account itself sets a super-admin's password
   (handleAdminResetPassword). *)
SuperPasswordSafe ==
  \A u \in super : password[u] \in Requests =>
    ctx[password[u]].user = u \/ ctx[password[u]].super

(* "Privilege changes invalidate existing sessions so the new role takes effect on a
   fresh, deliberate sign-in": no session opened in one role lives on in the other, once
   the request that changed it is through. *)
RoleIsFresh ==
  \A s \in live : ~Unsettled(ctx[s].user) => (s \in born <=> ctx[s].user \in admin)

(* A change or reset of a password ends the sessions that were there before it: the only
   one to outlive it is the one that asked for it (handleAccountPassword). *)
OldSessionsEnd ==
  \A s \in live : LET secret == password[ctx[s].user] IN
    \/ Unsettled(ctx[s].user)
    \/ era[s] = secret
    \/ secret \in Requests /\ ctx[secret].op = "change" /\ ctx[secret].cookie = s

(* A step-up does not outlive the change of password it authorised: no session opened
   before the change still has one (clearSessionReauth). *)
StepUpSpent ==
  \A s \in stepUp : Unsettled(ctx[s].user) \/ era[s] = password[ctx[s].user]

(* While there is an admin there stays one: "Can't revoke the last admin." and "Can't
   delete the last admin.", the messages of the handlers that count first. *)
LastAdminStays == [][admin # {} => admin' # {}]_vars
=============================================================================
