---------------------------- MODULE AccountsProofs ----------------------------
(***************************************************************************)
(* The safety of Accounts for any rows, requests and order of statements.  *)
(* IInv has the shape of a request at each phase, that the one promotion   *)
(* happens while nobody is served, what a handler still knows of its       *)
(* target when it writes, and for each history property the reason an old  *)
(* session may still be there: not any unsettled request, but the one      *)
(* whose own revocation is outstanding.  From it, that super-admins stay   *)
(* what they are, and that with one of them an admin always remains.       *)
(***************************************************************************)
EXTENDS Accounts, TLAPS

(* What a request asks for at each phase, and that nothing is named after one that has
   not written yet. *)
RequestsReal ==
  /\ \A r \in Requests : pc[r] \notin Pending \cup {"done"} =>
       r \notin live /\ \A u \in Users : password[u] # r
  /\ \A s \in live : pc[s] = "done"
  /\ \A r \in Requests : pc[r] \in {"known", "unknown"} =>
       ctx[r].op \in SignIns /\ ctx[r].user \in Users
  /\ \A r \in Requests : pc[r] \in {"look", "count", "revoke"} => ctx[r].op \notin SignIns
  /\ \A r \in Requests : pc[r] \in {"prove", "clear", "clearLate"} => ctx[r].op = "change"
  /\ \A r \in Requests : pc[r] \notin {"new", "known", "unknown"} \cup Ended =>
       ctx[r].target \in Users
  /\ \A r \in Requests : ctx[r].op = "change" => ctx[r].target = ctx[r].user

(* While bootstrapAdmin runs nobody is served, and the row it made is as it made it. *)
BootAlone ==
  /\ server # "up" => \A r \in Requests : pc[r] \in {"new"} \cup Ended
  /\ server = "promoting" => Root \in exists /\ password[Root] = FirstPassword

(* Between reading a target's is_super_admin and writing, it does not change. *)
TargetsKnown ==
  \A r \in Requests : pc[r] \in {"count", "write"} =>
    /\ ctx[r].op \in {"revoke", "remove"} => ctx[r].target \notin super
    /\ ctx[r].op = "reset" /\ ctx[r].target \in super => ctx[r].super

(* A session opened in another role waits for the request that changed the role. *)
RolesFollow ==
  \A s \in live :
    \/ s \in born <=> ctx[s].user \in admin
    \/ \E r \in Requests : /\ ctx[r].op \in Flags /\ ctx[r].target = ctx[s].user
                           /\ pc[r] \in {"revoke", "halfDone"}

(* The request that set the password of s's user has still to see to its sessions. *)
Setter(s) == password[ctx[s].user]
SetterAt(s, phases) ==
  /\ Setter(s) \in Requests
  /\ ctx[Setter(s)].target = ctx[s].user
  /\ pc[Setter(s)] \in phases

(* A session older than its user's password waits for the request that set it, or asked
   for it. *)
PasswordsFollow ==
  \A s \in live :
    \/ era[s] = Setter(s)
    \/ Setter(s) \in Requests /\ ctx[Setter(s)].op = "change" /\ ctx[Setter(s)].cookie = s
    \/ SetterAt(s, {"revoke", "clearLate", "halfDone"})

StepUpsFollow ==
  \A s \in stepUp : era[s] = Setter(s) \/ SetterAt(s, Pending)

IInv ==
  /\ TypeOK /\ RequestsReal /\ BootAlone /\ TargetsKnown
  /\ SuperPasswordSafe /\ RolesFollow /\ PasswordsFollow /\ StepUpsFollow

(* What a sign-in writes down. *)
LEMMA SignInType ==
  ASSUME NEW op \in SignIns, NEW u \in Users
  PROVE  [NoContext EXCEPT !.op = op, !.user = u] \in Contexts
BY DEF NoContext, Contexts, SignIns, Ops

(* What a crash leaves of a request that has written. *)
LEMMA CrashKeeps ==
  TypeOK /\ Crash =>
    \A q \in Requests :
      /\ pc[q] = "done" => pc'[q] = "done" /\ ctx'[q] = ctx[q]
      /\ pc[q] \in Pending => pc'[q] = "halfDone" /\ ctx'[q] = ctx[q]
BY DEF TypeOK, Crash, CutOff, Pending, Ended

(* Every step keeps every variable in its type. *)
LEMMA TypeStep ==
  TypeOK /\ RequestsReal /\ BootAlone /\ [Next]_vars => TypeOK'
<1> SUFFICES ASSUME TypeOK, RequestsReal, BootAlone, [Next]_vars PROVE TypeOK'
  OBVIOUS
<1> USE DEF TypeOK, users, sessions, Passwords, Contexts, Phases, Pending, Ended, Ops, AdminOps,
     Flags, SignIns, RequestsReal
<1>1. ASSUME SkipBootstrap PROVE TypeOK'
  BY <1>1, UserAssumption DEF SkipBootstrap
<1>2. ASSUME CreateRoot PROVE TypeOK'
  BY <1>2, UserAssumption DEF CreateRoot, AddUser
<1>3. ASSUME PromoteRoot PROVE TypeOK'
  BY <1>3 DEF PromoteRoot, BootAlone
<1>4. ASSUME Crash PROVE TypeOK'
  BY <1>4, UserAssumption DEF Crash, CutOff, NoContext
<1>5. ASSUME NEW r \in Requests, NEW u \in Users, CheckLogin(r, u) PROVE TypeOK'
  BY <1>5, SignInType DEF CheckLogin, Begin
<1>6. ASSUME NEW r \in Requests, NEW u \in Users, Identify(r, u) PROVE TypeOK'
  <2>1. PICK phase \in {"known", "unknown"} : Begin(r, "callback", u, phase)
    BY <1>6 DEF Identify
  <2>2. QED
    BY <2>1, SignInType DEF Begin
<1>7. ASSUME NEW r \in Requests, Register(r) PROVE TypeOK'
  BY <1>7, UserAssumption DEF Register, AddUser
<1>8. ASSUME NEW r \in Requests, NEW fresh \in BOOLEAN, OpenSession(r, fresh) PROVE TypeOK'
  BY <1>8, UserAssumption DEF OpenSession
<1>9. ASSUME NEW s \in live, EndSession(s) PROVE TypeOK'
  BY <1>9, UserAssumption DEF EndSession, DropSessions
<1>10. ASSUME NEW s \in live, StepUpAges(s) PROVE TypeOK'
  BY <1>10, UserAssumption DEF StepUpAges
<1>11. ASSUME NEW r \in Requests, NEW s \in live, AskChange(r, s) PROVE TypeOK'
  <2>1. PICK phase \in {"prove", "write"} : Arrive(r, s, "change", ctx[s].user, phase)
    BY <1>11 DEF AskChange
  <2>2. ctx[s].user \in Users /\ s \in Requests
    OBVIOUS
  <2>3. ctx' \in [Requests -> Contexts]
    BY <2>1, <2>2 DEF Arrive
  <2>4. \A q \in live : ctx'[q] = ctx[q]
    BY <2>1 DEF Arrive
  <2>5. QED
    BY <2>1, <2>3, <2>4 DEF Arrive
<1>12. ASSUME NEW r \in Requests, NEW s \in live, NEW op \in AdminOps, NEW t \in Users, AskAdmin(r, s, op, t) PROVE TypeOK'
  BY <1>12, UserAssumption DEF AskAdmin, Arrive
<1>13. ASSUME NEW r \in Requests, Prove(r) PROVE TypeOK'
  BY <1>13, UserAssumption DEF Prove, GoTo
<1>14. ASSUME NEW r \in Requests, Look(r) PROVE TypeOK'
  BY <1>14, UserAssumption DEF Look, GoTo, Allowed
<1>15. ASSUME NEW r \in Requests, Count(r) PROVE TypeOK'
  BY <1>15, UserAssumption DEF Count, GoTo
<1>16. ASSUME NEW r \in Requests, Refuse(r) PROVE TypeOK'
  BY <1>16, UserAssumption DEF Refuse, NoContext
<1>17. ASSUME NEW r \in Requests, SetPassword(r) PROVE TypeOK'
  BY <1>17, UserAssumption DEF SetPassword, Writes
<1>18. ASSUME NEW r \in Requests, SetAdminFlag(r) PROVE TypeOK'
  BY <1>18, UserAssumption DEF SetAdminFlag, Writes
<1>19. ASSUME NEW r \in Requests, DeleteUser(r) PROVE TypeOK'
  BY <1>19, UserAssumption DEF DeleteUser, Writes, DropSessions, SessionsOf
<1>20. ASSUME NEW r \in Requests, NEW isAdmin \in BOOLEAN, CreateUser(r, isAdmin) PROVE TypeOK'
  BY <1>20, UserAssumption DEF CreateUser, Writes, AddUser
<1>21. ASSUME NEW r \in Requests, RevokeSessions(r) PROVE TypeOK'
  BY <1>21, UserAssumption DEF RevokeSessions, DropSessions, Revocable, SessionsOf
<1>22. ASSUME NEW r \in Requests, RevocationFails(r) PROVE TypeOK'
  BY <1>22, UserAssumption DEF RevocationFails, GoTo
<1>23. ASSUME NEW r \in Requests, ClearStepUp(r) PROVE TypeOK'
  BY <1>23, UserAssumption DEF ClearStepUp, Spent, SessionsOf
<1>24. ASSUME NEW r \in Requests, ClearFails(r) PROVE TypeOK'
  BY <1>24, UserAssumption DEF ClearFails, GoTo
<1>25. ASSUME UNCHANGED vars PROVE TypeOK'
  BY <1>25 DEF vars
<1>26. QED
  BY <1>1, <1>2, <1>3, <1>4, <1>5, <1>6, <1>7, <1>8, <1>9, <1>10, <1>11, <1>12,
     <1>13, <1>14, <1>15, <1>16, <1>17, <1>18, <1>19, <1>20, <1>21, <1>22, <1>23, <1>24, <1>25,
     UserAssumption DEF Next, Boot, SigningIn, Asking, Changing

(* Every step keeps the shape of every request. *)
LEMMA RealStep ==
  TypeOK /\ RequestsReal /\ [Next]_vars => RequestsReal'
<1> SUFFICES ASSUME TypeOK, RequestsReal, [Next]_vars PROVE RequestsReal'
  OBVIOUS
<1> USE DEF TypeOK, users, sessions, Passwords, Contexts, Phases, Pending, Ended, Ops, AdminOps,
     Flags, SignIns, RequestsReal
<1>1. ASSUME SkipBootstrap PROVE RequestsReal'
  BY <1>1, UserAssumption DEF SkipBootstrap
<1>2. ASSUME CreateRoot PROVE RequestsReal'
  BY <1>2, UserAssumption DEF CreateRoot, AddUser
<1>3. ASSUME PromoteRoot PROVE RequestsReal'
  BY <1>3, UserAssumption DEF PromoteRoot
<1>4. ASSUME Crash PROVE RequestsReal'
  BY <1>4, UserAssumption DEF Crash, CutOff, NoContext
<1>5. ASSUME NEW r \in Requests, NEW u \in Users, CheckLogin(r, u) PROVE RequestsReal'
  BY <1>5, UserAssumption DEF CheckLogin, Begin, NoContext
<1>6. ASSUME NEW r \in Requests, NEW u \in Users, Identify(r, u) PROVE RequestsReal'
  <2>1. PICK phase \in {"known", "unknown"} : Begin(r, "callback", u, phase)
    BY <1>6 DEF Identify
  <2>2. ctx'[r].op = "callback" /\ ctx'[r].user = u
    BY <2>1 DEF Begin, NoContext
  <2>3. QED
    BY <2>1, <2>2 DEF Begin
<1>7. ASSUME NEW r \in Requests, Register(r) PROVE RequestsReal'
  BY <1>7, UserAssumption DEF Register, AddUser
<1>8. ASSUME NEW r \in Requests, NEW fresh \in BOOLEAN, OpenSession(r, fresh) PROVE RequestsReal'
  BY <1>8, UserAssumption DEF OpenSession
<1>9. ASSUME NEW s \in live, EndSession(s) PROVE RequestsReal'
  BY <1>9, UserAssumption DEF EndSession, DropSessions
<1>10. ASSUME NEW s \in live, StepUpAges(s) PROVE RequestsReal'
  BY <1>10, UserAssumption DEF StepUpAges
<1>11. ASSUME NEW r \in Requests, NEW s \in live, AskChange(r, s) PROVE RequestsReal'
  <2>1. PICK phase \in {"prove", "write"} : Arrive(r, s, "change", ctx[s].user, phase)
    BY <1>11 DEF AskChange
  <2>2. ctx'[r].op = "change"
    BY <2>1 DEF Arrive
  <2>3. QED
    BY <2>1, <2>2 DEF Arrive
<1>12. ASSUME NEW r \in Requests, NEW s \in live, NEW op \in AdminOps, NEW t \in Users, AskAdmin(r, s, op, t) PROVE RequestsReal'
  BY <1>12, UserAssumption DEF AskAdmin, Arrive
<1>13. ASSUME NEW r \in Requests, Prove(r) PROVE RequestsReal'
  BY <1>13, UserAssumption DEF Prove, GoTo
<1>14. ASSUME NEW r \in Requests, Look(r) PROVE RequestsReal'
  BY <1>14, UserAssumption DEF Look, GoTo, Allowed
<1>15. ASSUME NEW r \in Requests, Count(r) PROVE RequestsReal'
  BY <1>15, UserAssumption DEF Count, GoTo
<1>16. ASSUME NEW r \in Requests, Refuse(r) PROVE RequestsReal'
  BY <1>16, UserAssumption DEF Refuse, NoContext
<1>17. ASSUME NEW r \in Requests, SetPassword(r) PROVE RequestsReal'
  BY <1>17, UserAssumption DEF SetPassword, Writes
<1>18. ASSUME NEW r \in Requests, SetAdminFlag(r) PROVE RequestsReal'
  BY <1>18, UserAssumption DEF SetAdminFlag, Writes
<1>19. ASSUME NEW r \in Requests, DeleteUser(r) PROVE RequestsReal'
  BY <1>19, UserAssumption DEF DeleteUser, Writes, DropSessions, SessionsOf
<1>20. ASSUME NEW r \in Requests, NEW isAdmin \in BOOLEAN, CreateUser(r, isAdmin) PROVE RequestsReal'
  BY <1>20, UserAssumption DEF CreateUser, Writes, AddUser
<1>21. ASSUME NEW r \in Requests, RevokeSessions(r) PROVE RequestsReal'
  BY <1>21, UserAssumption DEF RevokeSessions, DropSessions, Revocable, SessionsOf
<1>22. ASSUME NEW r \in Requests, RevocationFails(r) PROVE RequestsReal'
  BY <1>22, UserAssumption DEF RevocationFails, GoTo
<1>23. ASSUME NEW r \in Requests, ClearStepUp(r) PROVE RequestsReal'
  BY <1>23, UserAssumption DEF ClearStepUp, Spent, SessionsOf
<1>24. ASSUME NEW r \in Requests, ClearFails(r) PROVE RequestsReal'
  BY <1>24, UserAssumption DEF ClearFails, GoTo
<1>25. ASSUME UNCHANGED vars PROVE RequestsReal'
  BY <1>25 DEF vars
<1> HIDE DEF TypeOK, RequestsReal, Passwords, Contexts, Phases, Pending, Ended, Ops
<1>26. QED
  BY <1>1, <1>2, <1>3, <1>4, <1>5, <1>6, <1>7, <1>8, <1>9, <1>10, <1>11, <1>12,
     <1>13, <1>14, <1>15, <1>16, <1>17, <1>18, <1>19, <1>20, <1>21, <1>22, <1>23, <1>24, <1>25,
     UserAssumption DEF Next, Boot, SigningIn, Asking, Changing

(* Every step leaves the bootstrap alone. *)
LEMMA BootStep ==
  TypeOK /\ BootAlone /\ [Next]_vars => BootAlone'
<1> SUFFICES ASSUME TypeOK, BootAlone, [Next]_vars PROVE BootAlone'
  OBVIOUS
<1> USE DEF TypeOK, users, sessions, Passwords, Contexts, Phases, Pending, Ended, Ops, AdminOps,
     Flags, SignIns, BootAlone
<1>1. ASSUME SkipBootstrap PROVE BootAlone'
  BY <1>1, UserAssumption DEF SkipBootstrap
<1>2. ASSUME CreateRoot PROVE BootAlone'
  BY <1>2, UserAssumption DEF CreateRoot, AddUser
<1>3. ASSUME PromoteRoot PROVE BootAlone'
  BY <1>3, UserAssumption DEF PromoteRoot
<1>4. ASSUME Crash PROVE BootAlone'
  BY <1>4, UserAssumption DEF Crash, CutOff, NoContext
<1>5. ASSUME NEW r \in Requests, NEW u \in Users, CheckLogin(r, u) PROVE BootAlone'
  BY <1>5, UserAssumption DEF CheckLogin, Begin, NoContext
<1>6. ASSUME NEW r \in Requests, NEW u \in Users, Identify(r, u) PROVE BootAlone'
  BY <1>6, UserAssumption DEF Identify, Begin, NoContext
<1>7. ASSUME NEW r \in Requests, Register(r) PROVE BootAlone'
  BY <1>7, UserAssumption DEF Register, AddUser
<1>8. ASSUME NEW r \in Requests, NEW fresh \in BOOLEAN, OpenSession(r, fresh) PROVE BootAlone'
  BY <1>8, UserAssumption DEF OpenSession
<1>9. ASSUME NEW s \in live, EndSession(s) PROVE BootAlone'
  BY <1>9, UserAssumption DEF EndSession, DropSessions
<1>10. ASSUME NEW s \in live, StepUpAges(s) PROVE BootAlone'
  BY <1>10, UserAssumption DEF StepUpAges
<1>11. ASSUME NEW r \in Requests, NEW s \in live, AskChange(r, s) PROVE BootAlone'
  BY <1>11, UserAssumption DEF AskChange, Arrive
<1>12. ASSUME NEW r \in Requests, NEW s \in live, NEW op \in AdminOps, NEW t \in Users, AskAdmin(r, s, op, t) PROVE BootAlone'
  BY <1>12, UserAssumption DEF AskAdmin, Arrive
<1>13. ASSUME NEW r \in Requests, Prove(r) PROVE BootAlone'
  BY <1>13, UserAssumption DEF Prove, GoTo
<1>14. ASSUME NEW r \in Requests, Look(r) PROVE BootAlone'
  BY <1>14, UserAssumption DEF Look, GoTo, Allowed
<1>15. ASSUME NEW r \in Requests, Count(r) PROVE BootAlone'
  BY <1>15, UserAssumption DEF Count, GoTo
<1>16. ASSUME NEW r \in Requests, Refuse(r) PROVE BootAlone'
  BY <1>16, UserAssumption DEF Refuse, NoContext
<1>17. ASSUME NEW r \in Requests, SetPassword(r) PROVE BootAlone'
  BY <1>17, UserAssumption DEF SetPassword, Writes
<1>18. ASSUME NEW r \in Requests, SetAdminFlag(r) PROVE BootAlone'
  BY <1>18, UserAssumption DEF SetAdminFlag, Writes
<1>19. ASSUME NEW r \in Requests, DeleteUser(r) PROVE BootAlone'
  BY <1>19, UserAssumption DEF DeleteUser, Writes, DropSessions, SessionsOf
<1>20. ASSUME NEW r \in Requests, NEW isAdmin \in BOOLEAN, CreateUser(r, isAdmin) PROVE BootAlone'
  BY <1>20, UserAssumption DEF CreateUser, Writes, AddUser
<1>21. ASSUME NEW r \in Requests, RevokeSessions(r) PROVE BootAlone'
  BY <1>21, UserAssumption DEF RevokeSessions, DropSessions, Revocable, SessionsOf
<1>22. ASSUME NEW r \in Requests, RevocationFails(r) PROVE BootAlone'
  BY <1>22, UserAssumption DEF RevocationFails, GoTo
<1>23. ASSUME NEW r \in Requests, ClearStepUp(r) PROVE BootAlone'
  BY <1>23, UserAssumption DEF ClearStepUp, Spent, SessionsOf
<1>24. ASSUME NEW r \in Requests, ClearFails(r) PROVE BootAlone'
  BY <1>24, UserAssumption DEF ClearFails, GoTo
<1>25. ASSUME UNCHANGED vars PROVE BootAlone'
  BY <1>25 DEF vars
<1>26. QED
  BY <1>1, <1>2, <1>3, <1>4, <1>5, <1>6, <1>7, <1>8, <1>9, <1>10, <1>11, <1>12,
     <1>13, <1>14, <1>15, <1>16, <1>17, <1>18, <1>19, <1>20, <1>21, <1>22, <1>23, <1>24, <1>25,
     UserAssumption DEF Next, Boot, SigningIn, Asking, Changing

(* Every step keeps what a request knows of its target. *)
LEMMA TargetStep ==
  TypeOK /\ RequestsReal /\ BootAlone /\ TargetsKnown /\ [Next]_vars => TargetsKnown'
<1> SUFFICES ASSUME TypeOK, RequestsReal, BootAlone, TargetsKnown, [Next]_vars PROVE TargetsKnown'
  OBVIOUS
<1> USE DEF TypeOK, users, sessions, Passwords, Contexts, Phases, Pending, Ended, Ops, AdminOps,
     Flags, SignIns, RequestsReal, BootAlone, TargetsKnown
<1>1. ASSUME SkipBootstrap PROVE TargetsKnown'
  BY <1>1 DEF SkipBootstrap
<1>2. ASSUME CreateRoot PROVE TargetsKnown'
  BY <1>2 DEF CreateRoot, AddUser
<1>3. ASSUME PromoteRoot PROVE TargetsKnown'
  BY <1>3 DEF PromoteRoot
<1>4. ASSUME Crash PROVE TargetsKnown'
  BY <1>4 DEF Crash, CutOff, NoContext
<1>5. ASSUME NEW r \in Requests, NEW u \in Users, CheckLogin(r, u) PROVE TargetsKnown'
  BY <1>5 DEF CheckLogin, Begin, NoContext
<1>6. ASSUME NEW r \in Requests, NEW u \in Users, Identify(r, u) PROVE TargetsKnown'
  BY <1>6 DEF Identify, Begin, NoContext
<1>7. ASSUME NEW r \in Requests, Register(r) PROVE TargetsKnown'
  BY <1>7 DEF Register, AddUser
<1>8. ASSUME NEW r \in Requests, NEW fresh \in BOOLEAN, OpenSession(r, fresh) PROVE TargetsKnown'
  BY <1>8 DEF OpenSession
<1>9. ASSUME NEW s \in live, EndSession(s) PROVE TargetsKnown'
  BY <1>9 DEF EndSession, DropSessions
<1>10. ASSUME NEW s \in live, StepUpAges(s) PROVE TargetsKnown'
  BY <1>10 DEF StepUpAges
<1>11. ASSUME NEW r \in Requests, NEW s \in live, AskChange(r, s) PROVE TargetsKnown'
  BY <1>11 DEF AskChange, Arrive
<1>12. ASSUME NEW r \in Requests, NEW s \in live, NEW op \in AdminOps, NEW t \in Users, AskAdmin(r, s, op, t) PROVE TargetsKnown'
  BY <1>12 DEF AskAdmin, Arrive
<1>13. ASSUME NEW r \in Requests, Prove(r) PROVE TargetsKnown'
  BY <1>13 DEF Prove, GoTo
<1>14. ASSUME NEW r \in Requests, Look(r) PROVE TargetsKnown'
  BY <1>14 DEF Look, GoTo, Allowed
<1>15. ASSUME NEW r \in Requests, Count(r) PROVE TargetsKnown'
  BY <1>15 DEF Count, GoTo
<1>16. ASSUME NEW r \in Requests, Refuse(r) PROVE TargetsKnown'
  BY <1>16 DEF Refuse, NoContext
<1>17. ASSUME NEW r \in Requests, SetPassword(r) PROVE TargetsKnown'
  BY <1>17 DEF SetPassword, Writes
<1>18. ASSUME NEW r \in Requests, SetAdminFlag(r) PROVE TargetsKnown'
  BY <1>18 DEF SetAdminFlag, Writes
<1>19. ASSUME NEW r \in Requests, DeleteUser(r) PROVE TargetsKnown'
  BY <1>19 DEF DeleteUser, Writes, DropSessions, SessionsOf
<1>20. ASSUME NEW r \in Requests, NEW isAdmin \in BOOLEAN, CreateUser(r, isAdmin) PROVE TargetsKnown'
  BY <1>20 DEF CreateUser, Writes, AddUser
<1>21. ASSUME NEW r \in Requests, RevokeSessions(r) PROVE TargetsKnown'
  BY <1>21 DEF RevokeSessions, DropSessions, Revocable, SessionsOf
<1>22. ASSUME NEW r \in Requests, RevocationFails(r) PROVE TargetsKnown'
  BY <1>22 DEF RevocationFails, GoTo
<1>23. ASSUME NEW r \in Requests, ClearStepUp(r) PROVE TargetsKnown'
  BY <1>23 DEF ClearStepUp, Spent, SessionsOf
<1>24. ASSUME NEW r \in Requests, ClearFails(r) PROVE TargetsKnown'
  BY <1>24 DEF ClearFails, GoTo
<1>25. ASSUME UNCHANGED vars PROVE TargetsKnown'
  BY <1>25 DEF vars
<1>26. QED
  BY <1>1, <1>2, <1>3, <1>4, <1>5, <1>6, <1>7, <1>8, <1>9, <1>10, <1>11, <1>12,
     <1>13, <1>14, <1>15, <1>16, <1>17, <1>18, <1>19, <1>20, <1>21, <1>22, <1>23, <1>24, <1>25,
     UserAssumption DEF Next, Boot, SigningIn, Asking, Changing

(* Every step keeps the super-admins' passwords to themselves. *)
LEMMA SuperPasswordStep ==
  TypeOK /\ RequestsReal /\ BootAlone /\ TargetsKnown /\ SuperPasswordSafe /\ [Next]_vars => SuperPasswordSafe'
<1> SUFFICES ASSUME TypeOK, RequestsReal, BootAlone, TargetsKnown, SuperPasswordSafe, [Next]_vars PROVE SuperPasswordSafe'
  OBVIOUS
<1> USE DEF TypeOK, users, sessions, Passwords, Contexts, Phases, Pending, Ended, Ops, AdminOps,
     Flags, SignIns, RequestsReal, BootAlone, TargetsKnown, SuperPasswordSafe
<1>1. ASSUME SkipBootstrap PROVE SuperPasswordSafe'
  BY <1>1, UserAssumption DEF SkipBootstrap
<1>2. ASSUME CreateRoot PROVE SuperPasswordSafe'
  BY <1>2, UserAssumption DEF CreateRoot, AddUser
<1>3. ASSUME PromoteRoot PROVE SuperPasswordSafe'
  BY <1>3, UserAssumption DEF PromoteRoot
<1>4. ASSUME Crash PROVE SuperPasswordSafe'
  BY <1>4, UserAssumption DEF Crash, CutOff, NoContext
<1>5. ASSUME NEW r \in Requests, NEW u \in Users, CheckLogin(r, u) PROVE SuperPasswordSafe'
  BY <1>5, UserAssumption DEF CheckLogin, Begin, NoContext
<1>6. ASSUME NEW r \in Requests, NEW u \in Users, Identify(r, u) PROVE SuperPasswordSafe'
  BY <1>6, UserAssumption DEF Identify, Begin, NoContext
<1>7. ASSUME NEW r \in Requests, Register(r) PROVE SuperPasswordSafe'
  BY <1>7, UserAssumption DEF Register, AddUser
<1>8. ASSUME NEW r \in Requests, NEW fresh \in BOOLEAN, OpenSession(r, fresh) PROVE SuperPasswordSafe'
  BY <1>8, UserAssumption DEF OpenSession
<1>9. ASSUME NEW s \in live, EndSession(s) PROVE SuperPasswordSafe'
  BY <1>9, UserAssumption DEF EndSession, DropSessions
<1>10. ASSUME NEW s \in live, StepUpAges(s) PROVE SuperPasswordSafe'
  BY <1>10, UserAssumption DEF StepUpAges
<1>11. ASSUME NEW r \in Requests, NEW s \in live, AskChange(r, s) PROVE SuperPasswordSafe'
  BY <1>11, UserAssumption DEF AskChange, Arrive
<1>12. ASSUME NEW r \in Requests, NEW s \in live, NEW op \in AdminOps, NEW t \in Users, AskAdmin(r, s, op, t) PROVE SuperPasswordSafe'
  BY <1>12, UserAssumption DEF AskAdmin, Arrive
<1>13. ASSUME NEW r \in Requests, Prove(r) PROVE SuperPasswordSafe'
  BY <1>13, UserAssumption DEF Prove, GoTo
<1>14. ASSUME NEW r \in Requests, Look(r) PROVE SuperPasswordSafe'
  BY <1>14, UserAssumption DEF Look, GoTo, Allowed
<1>15. ASSUME NEW r \in Requests, Count(r) PROVE SuperPasswordSafe'
  BY <1>15, UserAssumption DEF Count, GoTo
<1>16. ASSUME NEW r \in Requests, Refuse(r) PROVE SuperPasswordSafe'
  BY <1>16, UserAssumption DEF Refuse, NoContext
<1>17. ASSUME NEW r \in Requests, SetPassword(r) PROVE SuperPasswordSafe'
  BY <1>17, UserAssumption DEF SetPassword, Writes
<1>18. ASSUME NEW r \in Requests, SetAdminFlag(r) PROVE SuperPasswordSafe'
  BY <1>18, UserAssumption DEF SetAdminFlag, Writes
<1>19. ASSUME NEW r \in Requests, DeleteUser(r) PROVE SuperPasswordSafe'
  BY <1>19, UserAssumption DEF DeleteUser, Writes, DropSessions, SessionsOf
<1>20. ASSUME NEW r \in Requests, NEW isAdmin \in BOOLEAN, CreateUser(r, isAdmin) PROVE SuperPasswordSafe'
  BY <1>20, UserAssumption DEF CreateUser, Writes, AddUser
<1>21. ASSUME NEW r \in Requests, RevokeSessions(r) PROVE SuperPasswordSafe'
  BY <1>21, UserAssumption DEF RevokeSessions, DropSessions, Revocable, SessionsOf
<1>22. ASSUME NEW r \in Requests, RevocationFails(r) PROVE SuperPasswordSafe'
  BY <1>22, UserAssumption DEF RevocationFails, GoTo
<1>23. ASSUME NEW r \in Requests, ClearStepUp(r) PROVE SuperPasswordSafe'
  BY <1>23, UserAssumption DEF ClearStepUp, Spent, SessionsOf
<1>24. ASSUME NEW r \in Requests, ClearFails(r) PROVE SuperPasswordSafe'
  BY <1>24, UserAssumption DEF ClearFails, GoTo
<1>25. ASSUME UNCHANGED vars PROVE SuperPasswordSafe'
  BY <1>25 DEF vars
<1>26. QED
  BY <1>1, <1>2, <1>3, <1>4, <1>5, <1>6, <1>7, <1>8, <1>9, <1>10, <1>11, <1>12,
     <1>13, <1>14, <1>15, <1>16, <1>17, <1>18, <1>19, <1>20, <1>21, <1>22, <1>23, <1>24, <1>25,
     UserAssumption DEF Next, Boot, SigningIn, Asking, Changing

(* Every step keeps old roles tied to an outstanding revocation. *)
LEMMA RoleStep ==
  TypeOK /\ RequestsReal /\ RolesFollow /\ [Next]_vars => RolesFollow'
<1> SUFFICES ASSUME TypeOK, RequestsReal, RolesFollow, [Next]_vars PROVE RolesFollow'
  OBVIOUS
<1> USE DEF TypeOK, users, sessions, Passwords, Contexts, Phases, Pending, Ended, Ops, AdminOps,
     Flags, SignIns, RequestsReal, RolesFollow
<1>1. ASSUME SkipBootstrap PROVE RolesFollow'
  BY <1>1, UserAssumption DEF SkipBootstrap
<1>2. ASSUME CreateRoot PROVE RolesFollow'
  BY <1>2, UserAssumption DEF CreateRoot, AddUser
<1>3. ASSUME PromoteRoot PROVE RolesFollow'
  BY <1>3, UserAssumption DEF PromoteRoot
<1>4. ASSUME Crash PROVE RolesFollow'
  <2>1. UNCHANGED <<users, sessions>>
    BY <1>4 DEF Crash
  <2>2. \A s \in live : ctx'[s] = ctx[s]
    BY <1>4, CrashKeeps
  <2>3. QED
    BY <1>4, <2>1, <2>2, CrashKeeps
<1>5. ASSUME NEW r \in Requests, NEW u \in Users, CheckLogin(r, u) PROVE RolesFollow'
  BY <1>5, UserAssumption DEF CheckLogin, Begin, NoContext
<1>6. ASSUME NEW r \in Requests, NEW u \in Users, Identify(r, u) PROVE RolesFollow'
  BY <1>6, UserAssumption DEF Identify, Begin, NoContext
<1>7. ASSUME NEW r \in Requests, Register(r) PROVE RolesFollow'
  BY <1>7, UserAssumption DEF Register, AddUser
<1>8. ASSUME NEW r \in Requests, NEW fresh \in BOOLEAN, OpenSession(r, fresh) PROVE RolesFollow'
  BY <1>8, UserAssumption DEF OpenSession
<1>9. ASSUME NEW s \in live, EndSession(s) PROVE RolesFollow'
  BY <1>9, UserAssumption DEF EndSession, DropSessions
<1>10. ASSUME NEW s \in live, StepUpAges(s) PROVE RolesFollow'
  BY <1>10, UserAssumption DEF StepUpAges
<1>11. ASSUME NEW r \in Requests, NEW s \in live, AskChange(r, s) PROVE RolesFollow'
  BY <1>11, UserAssumption DEF AskChange, Arrive
<1>12. ASSUME NEW r \in Requests, NEW s \in live, NEW op \in AdminOps, NEW t \in Users, AskAdmin(r, s, op, t) PROVE RolesFollow'
  BY <1>12, UserAssumption DEF AskAdmin, Arrive
<1>13. ASSUME NEW r \in Requests, Prove(r) PROVE RolesFollow'
  BY <1>13, UserAssumption DEF Prove, GoTo
<1>14. ASSUME NEW r \in Requests, Look(r) PROVE RolesFollow'
  BY <1>14, UserAssumption DEF Look, GoTo, Allowed
<1>15. ASSUME NEW r \in Requests, Count(r) PROVE RolesFollow'
  BY <1>15, UserAssumption DEF Count, GoTo
<1>16. ASSUME NEW r \in Requests, Refuse(r) PROVE RolesFollow'
  BY <1>16, UserAssumption DEF Refuse, NoContext
<1>17. ASSUME NEW r \in Requests, SetPassword(r) PROVE RolesFollow'
  BY <1>17, UserAssumption DEF SetPassword, Writes
<1>18. ASSUME NEW r \in Requests, SetAdminFlag(r) PROVE RolesFollow'
  BY <1>18, UserAssumption DEF SetAdminFlag, Writes
<1>19. ASSUME NEW r \in Requests, DeleteUser(r) PROVE RolesFollow'
  BY <1>19, UserAssumption DEF DeleteUser, Writes, DropSessions, SessionsOf
<1>20. ASSUME NEW r \in Requests, NEW isAdmin \in BOOLEAN, CreateUser(r, isAdmin) PROVE RolesFollow'
  BY <1>20, UserAssumption DEF CreateUser, Writes, AddUser
<1>21. ASSUME NEW r \in Requests, RevokeSessions(r) PROVE RolesFollow'
  BY <1>21, UserAssumption DEF RevokeSessions, DropSessions, Revocable, SessionsOf
<1>22. ASSUME NEW r \in Requests, RevocationFails(r) PROVE RolesFollow'
  BY <1>22, UserAssumption DEF RevocationFails, GoTo
<1>23. ASSUME NEW r \in Requests, ClearStepUp(r) PROVE RolesFollow'
  BY <1>23, UserAssumption DEF ClearStepUp, Spent, SessionsOf
<1>24. ASSUME NEW r \in Requests, ClearFails(r) PROVE RolesFollow'
  BY <1>24, UserAssumption DEF ClearFails, GoTo
<1>25. ASSUME UNCHANGED vars PROVE RolesFollow'
  BY <1>25 DEF vars
<1>26. QED
  BY <1>1, <1>2, <1>3, <1>4, <1>5, <1>6, <1>7, <1>8, <1>9, <1>10, <1>11, <1>12,
     <1>13, <1>14, <1>15, <1>16, <1>17, <1>18, <1>19, <1>20, <1>21, <1>22, <1>23, <1>24, <1>25,
     UserAssumption DEF Next, Boot, SigningIn, Asking, Changing

(* Every step keeps old passwords tied to the request that set the new one. *)
LEMMA PasswordStep ==
  TypeOK /\ RequestsReal /\ PasswordsFollow /\ [Next]_vars => PasswordsFollow'
<1> SUFFICES ASSUME TypeOK, RequestsReal, PasswordsFollow, [Next]_vars PROVE PasswordsFollow'
  OBVIOUS
<1> USE DEF TypeOK, users, sessions, Passwords, Contexts, Phases, Pending, Ended, Ops, AdminOps,
     Flags, SignIns, RequestsReal, PasswordsFollow, Setter, SetterAt
<1>1. ASSUME SkipBootstrap PROVE PasswordsFollow'
  BY <1>1, UserAssumption DEF SkipBootstrap
<1>2. ASSUME CreateRoot PROVE PasswordsFollow'
  BY <1>2, UserAssumption DEF CreateRoot, AddUser
<1>3. ASSUME PromoteRoot PROVE PasswordsFollow'
  BY <1>3, UserAssumption DEF PromoteRoot
<1>4. ASSUME Crash PROVE PasswordsFollow'
  <2>1. UNCHANGED <<users, sessions>>
    BY <1>4 DEF Crash
  <2>2. SUFFICES ASSUME NEW s \in live
                 PROVE  \/ era[s] = Setter(s)'
                        \/ /\ Setter(s)' \in Requests
                           /\ ctx'[Setter(s)'].op = "change" /\ ctx'[Setter(s)'].cookie = s
                        \/ SetterAt(s, {"revoke", "clearLate", "halfDone"})'
    BY <2>1
  <2>3. ctx'[s] = ctx[s] /\ Setter(s)' = Setter(s)
    BY <1>4, <2>1, CrashKeeps
  <2>4. CASE Setter(s) \in Requests
    <3>1. pc[Setter(s)] \in Pending \cup {"done"}
      BY <2>4
    <3>2. QED
      BY <1>4, <2>3, <2>4, <3>1, CrashKeeps
  <2>5. CASE Setter(s) \notin Requests
    BY <2>3, <2>5
  <2>6. QED
    BY <2>4, <2>5
<1>5. ASSUME NEW r \in Requests, NEW u \in Users, CheckLogin(r, u) PROVE PasswordsFollow'
  BY <1>5, UserAssumption DEF CheckLogin, Begin, NoContext
<1>6. ASSUME NEW r \in Requests, NEW u \in Users, Identify(r, u) PROVE PasswordsFollow'
  BY <1>6, UserAssumption DEF Identify, Begin, NoContext
<1>7. ASSUME NEW r \in Requests, Register(r) PROVE PasswordsFollow'
  BY <1>7, UserAssumption DEF Register, AddUser
<1>8. ASSUME NEW r \in Requests, NEW fresh \in BOOLEAN, OpenSession(r, fresh) PROVE PasswordsFollow'
  BY <1>8, UserAssumption DEF OpenSession
<1>9. ASSUME NEW s \in live, EndSession(s) PROVE PasswordsFollow'
  BY <1>9, UserAssumption DEF EndSession, DropSessions
<1>10. ASSUME NEW s \in live, StepUpAges(s) PROVE PasswordsFollow'
  BY <1>10, UserAssumption DEF StepUpAges
<1>11. ASSUME NEW r \in Requests, NEW s \in live, AskChange(r, s) PROVE PasswordsFollow'
  BY <1>11, UserAssumption DEF AskChange, Arrive
<1>12. ASSUME NEW r \in Requests, NEW s \in live, NEW op \in AdminOps, NEW t \in Users, AskAdmin(r, s, op, t) PROVE PasswordsFollow'
  BY <1>12, UserAssumption DEF AskAdmin, Arrive
<1>13. ASSUME NEW r \in Requests, Prove(r) PROVE PasswordsFollow'
  BY <1>13, UserAssumption DEF Prove, GoTo
<1>14. ASSUME NEW r \in Requests, Look(r) PROVE PasswordsFollow'
  BY <1>14, UserAssumption DEF Look, GoTo, Allowed
<1>15. ASSUME NEW r \in Requests, Count(r) PROVE PasswordsFollow'
  BY <1>15, UserAssumption DEF Count, GoTo
<1>16. ASSUME NEW r \in Requests, Refuse(r) PROVE PasswordsFollow'
  BY <1>16, UserAssumption DEF Refuse, NoContext
<1>17. ASSUME NEW r \in Requests, SetPassword(r) PROVE PasswordsFollow'
  BY <1>17, UserAssumption DEF SetPassword, Writes
<1>18. ASSUME NEW r \in Requests, SetAdminFlag(r) PROVE PasswordsFollow'
  BY <1>18, UserAssumption DEF SetAdminFlag, Writes
<1>19. ASSUME NEW r \in Requests, DeleteUser(r) PROVE PasswordsFollow'
  BY <1>19, UserAssumption DEF DeleteUser, Writes, DropSessions, SessionsOf
<1>20. ASSUME NEW r \in Requests, NEW isAdmin \in BOOLEAN, CreateUser(r, isAdmin) PROVE PasswordsFollow'
  BY <1>20, UserAssumption DEF CreateUser, Writes, AddUser
<1>21. ASSUME NEW r \in Requests, RevokeSessions(r) PROVE PasswordsFollow'
  BY <1>21, UserAssumption DEF RevokeSessions, DropSessions, Revocable, SessionsOf
<1>22. ASSUME NEW r \in Requests, RevocationFails(r) PROVE PasswordsFollow'
  BY <1>22, UserAssumption DEF RevocationFails, GoTo
<1>23. ASSUME NEW r \in Requests, ClearStepUp(r) PROVE PasswordsFollow'
  BY <1>23, UserAssumption DEF ClearStepUp, Spent, SessionsOf
<1>24. ASSUME NEW r \in Requests, ClearFails(r) PROVE PasswordsFollow'
  BY <1>24, UserAssumption DEF ClearFails, GoTo
<1>25. ASSUME UNCHANGED vars PROVE PasswordsFollow'
  BY <1>25 DEF vars
<1> HIDE DEF PasswordsFollow, Setter, SetterAt
<1>26. QED
  BY <1>1, <1>2, <1>3, <1>4, <1>5, <1>6, <1>7, <1>8, <1>9, <1>10, <1>11, <1>12,
     <1>13, <1>14, <1>15, <1>16, <1>17, <1>18, <1>19, <1>20, <1>21, <1>22, <1>23, <1>24, <1>25,
     UserAssumption DEF Next, Boot, SigningIn, Asking, Changing

(* Every step keeps an old step-up tied to the request that will spend it. *)
LEMMA StepUpStep ==
  TypeOK /\ RequestsReal /\ StepUpsFollow /\ [Next]_vars => StepUpsFollow'
<1> SUFFICES ASSUME TypeOK, RequestsReal, StepUpsFollow, [Next]_vars PROVE StepUpsFollow'
  OBVIOUS
<1> USE DEF TypeOK, users, sessions, Passwords, Contexts, Phases, Pending, Ended, Ops, AdminOps,
     Flags, SignIns, RequestsReal, StepUpsFollow, Setter, SetterAt
<1>1. ASSUME SkipBootstrap PROVE StepUpsFollow'
  BY <1>1, UserAssumption DEF SkipBootstrap
<1>2. ASSUME CreateRoot PROVE StepUpsFollow'
  BY <1>2, UserAssumption DEF CreateRoot, AddUser
<1>3. ASSUME PromoteRoot PROVE StepUpsFollow'
  BY <1>3, UserAssumption DEF PromoteRoot
<1>4. ASSUME Crash PROVE StepUpsFollow'
  BY <1>4, UserAssumption DEF Crash, CutOff, NoContext
<1>5. ASSUME NEW r \in Requests, NEW u \in Users, CheckLogin(r, u) PROVE StepUpsFollow'
  BY <1>5, UserAssumption DEF CheckLogin, Begin, NoContext
<1>6. ASSUME NEW r \in Requests, NEW u \in Users, Identify(r, u) PROVE StepUpsFollow'
  BY <1>6, UserAssumption DEF Identify, Begin, NoContext
<1>7. ASSUME NEW r \in Requests, Register(r) PROVE StepUpsFollow'
  BY <1>7, UserAssumption DEF Register, AddUser
<1>8. ASSUME NEW r \in Requests, NEW fresh \in BOOLEAN, OpenSession(r, fresh) PROVE StepUpsFollow'
  BY <1>8, UserAssumption DEF OpenSession
<1>9. ASSUME NEW s \in live, EndSession(s) PROVE StepUpsFollow'
  BY <1>9, UserAssumption DEF EndSession, DropSessions
<1>10. ASSUME NEW s \in live, StepUpAges(s) PROVE StepUpsFollow'
  BY <1>10, UserAssumption DEF StepUpAges
<1>11. ASSUME NEW r \in Requests, NEW s \in live, AskChange(r, s) PROVE StepUpsFollow'
  BY <1>11, UserAssumption DEF AskChange, Arrive
<1>12. ASSUME NEW r \in Requests, NEW s \in live, NEW op \in AdminOps, NEW t \in Users, AskAdmin(r, s, op, t) PROVE StepUpsFollow'
  BY <1>12, UserAssumption DEF AskAdmin, Arrive
<1>13. ASSUME NEW r \in Requests, Prove(r) PROVE StepUpsFollow'
  BY <1>13, UserAssumption DEF Prove, GoTo
<1>14. ASSUME NEW r \in Requests, Look(r) PROVE StepUpsFollow'
  BY <1>14, UserAssumption DEF Look, GoTo, Allowed
<1>15. ASSUME NEW r \in Requests, Count(r) PROVE StepUpsFollow'
  BY <1>15, UserAssumption DEF Count, GoTo
<1>16. ASSUME NEW r \in Requests, Refuse(r) PROVE StepUpsFollow'
  BY <1>16, UserAssumption DEF Refuse, NoContext
<1>17. ASSUME NEW r \in Requests, SetPassword(r) PROVE StepUpsFollow'
  BY <1>17, UserAssumption DEF SetPassword, Writes
<1>18. ASSUME NEW r \in Requests, SetAdminFlag(r) PROVE StepUpsFollow'
  BY <1>18, UserAssumption DEF SetAdminFlag, Writes
<1>19. ASSUME NEW r \in Requests, DeleteUser(r) PROVE StepUpsFollow'
  BY <1>19, UserAssumption DEF DeleteUser, Writes, DropSessions, SessionsOf
<1>20. ASSUME NEW r \in Requests, NEW isAdmin \in BOOLEAN, CreateUser(r, isAdmin) PROVE StepUpsFollow'
  BY <1>20, UserAssumption DEF CreateUser, Writes, AddUser
<1>21. ASSUME NEW r \in Requests, RevokeSessions(r) PROVE StepUpsFollow'
  BY <1>21, UserAssumption DEF RevokeSessions, DropSessions, Revocable, SessionsOf
<1>22. ASSUME NEW r \in Requests, RevocationFails(r) PROVE StepUpsFollow'
  BY <1>22, UserAssumption DEF RevocationFails, GoTo
<1>23. ASSUME NEW r \in Requests, ClearStepUp(r) PROVE StepUpsFollow'
  BY <1>23, UserAssumption DEF ClearStepUp, Spent, SessionsOf
<1>24. ASSUME NEW r \in Requests, ClearFails(r) PROVE StepUpsFollow'
  BY <1>24, UserAssumption DEF ClearFails, GoTo
<1>25. ASSUME UNCHANGED vars PROVE StepUpsFollow'
  BY <1>25 DEF vars
<1> HIDE DEF StepUpsFollow, Setter, SetterAt
<1>26. QED
  BY <1>1, <1>2, <1>3, <1>4, <1>5, <1>6, <1>7, <1>8, <1>9, <1>10, <1>11, <1>12,
     <1>13, <1>14, <1>15, <1>16, <1>17, <1>18, <1>19, <1>20, <1>21, <1>22, <1>23, <1>24, <1>25,
     UserAssumption DEF Next, Boot, SigningIn, Asking, Changing

LEMMA InitInv ==
  Init => IInv
<1> SUFFICES ASSUME Init PROVE IInv
  OBVIOUS
<1>1. TypeOK
  BY UserAssumption DEF Init, TypeOK, Passwords, Contexts, Phases, NoContext
<1>2. RequestsReal
  BY UserAssumption DEF Init, RequestsReal, NoContext, Ended
<1>3. BootAlone /\ TargetsKnown
  BY DEF Init, BootAlone, TargetsKnown
<1>4. SuperPasswordSafe /\ RolesFollow /\ PasswordsFollow /\ StepUpsFollow
  BY DEF Init, SuperPasswordSafe, RolesFollow, PasswordsFollow, StepUpsFollow
<1>5. QED
  BY <1>1, <1>2, <1>3, <1>4 DEF IInv

LEMMA NextInv ==
  IInv /\ [Next]_vars => IInv'
BY TypeStep, RealStep, BootStep, TargetStep, SuperPasswordStep, RoleStep, PasswordStep,
   StepUpStep DEF IInv

(* The invariant holds throughout. *)
LEMMA Invariant ==
  Spec => []IInv
BY InitInv, NextInv, PTL DEF Spec

(* Every variable keeps its type, and no session outlives its account. *)
THEOREM TypeCorrect ==
  Spec => []TypeOK
<1>1. IInv => TypeOK
  BY DEF IInv
<1>2. QED
  BY <1>1, Invariant, PTL

(* However many requests run, only a super-admin or the account itself sets a
   super-admin's password. *)
THEOREM SuperPasswordsSafe ==
  Spec => []SuperPasswordSafe
<1>1. IInv => SuperPasswordSafe
  BY DEF IInv
<1>2. QED
  BY <1>1, Invariant, PTL

(* Nobody acts in a new role on an old session once the request that changed the role is
   through. *)
THEOREM RolesFresh ==
  Spec => []RoleIsFresh
<1>1. IInv => RoleIsFresh
  BY DEF IInv, RolesFollow, RoleIsFresh, Unsettled, Pending
<1>2. QED
  BY <1>1, Invariant, PTL

(* Of the sessions there before a change of password only the one that asked for it is
   there after it. *)
THEOREM OldSessionsEnded ==
  Spec => []OldSessionsEnd
<1>1. IInv => OldSessionsEnd
  BY DEF IInv, PasswordsFollow, Setter, SetterAt, OldSessionsEnd, Unsettled, Pending
<1>2. QED
  BY <1>1, Invariant, PTL

(* No session from before a change of password keeps a step-up after it. *)
THEOREM StepUpsSpent ==
  Spec => []StepUpSpent
<1>1. IInv => StepUpSpent
  BY DEF IInv, StepUpsFollow, Setter, SetterAt, StepUpSpent, Unsettled, Pending
<1>2. QED
  BY <1>1, Invariant, PTL

(* One step at a time: the rows a step removes from super, or from admin, are no
   super-admins', because the request that writes has known its target since it looked. *)
LEMMA SuperStep ==
  TypeOK /\ RequestsReal /\ TargetsKnown /\ [Next]_vars => (super \subseteq super' /\ super \cap admin \subseteq admin')
<1> SUFFICES ASSUME TypeOK, RequestsReal, TargetsKnown, [Next]_vars PROVE (super \subseteq super' /\ super \cap admin \subseteq admin')
  OBVIOUS
<1> USE DEF TypeOK, users, sessions, RequestsReal, TargetsKnown, Flags
<1>1. ASSUME SkipBootstrap PROVE (super \subseteq super' /\ super \cap admin \subseteq admin')
  BY <1>1 DEF SkipBootstrap
<1>2. ASSUME CreateRoot PROVE (super \subseteq super' /\ super \cap admin \subseteq admin')
  BY <1>2 DEF CreateRoot, AddUser
<1>3. ASSUME PromoteRoot PROVE (super \subseteq super' /\ super \cap admin \subseteq admin')
  BY <1>3 DEF PromoteRoot
<1>4. ASSUME Crash PROVE (super \subseteq super' /\ super \cap admin \subseteq admin')
  BY <1>4 DEF Crash, CutOff, NoContext
<1>5. ASSUME NEW r \in Requests, NEW u \in Users, CheckLogin(r, u) PROVE (super \subseteq super' /\ super \cap admin \subseteq admin')
  BY <1>5 DEF CheckLogin, Begin, NoContext
<1>6. ASSUME NEW r \in Requests, NEW u \in Users, Identify(r, u) PROVE (super \subseteq super' /\ super \cap admin \subseteq admin')
  BY <1>6 DEF Identify, Begin, NoContext
<1>7. ASSUME NEW r \in Requests, Register(r) PROVE (super \subseteq super' /\ super \cap admin \subseteq admin')
  BY <1>7 DEF Register, AddUser
<1>8. ASSUME NEW r \in Requests, NEW fresh \in BOOLEAN, OpenSession(r, fresh) PROVE (super \subseteq super' /\ super \cap admin \subseteq admin')
  BY <1>8 DEF OpenSession
<1>9. ASSUME NEW s \in live, EndSession(s) PROVE (super \subseteq super' /\ super \cap admin \subseteq admin')
  BY <1>9 DEF EndSession, DropSessions
<1>10. ASSUME NEW s \in live, StepUpAges(s) PROVE (super \subseteq super' /\ super \cap admin \subseteq admin')
  BY <1>10 DEF StepUpAges
<1>11. ASSUME NEW r \in Requests, NEW s \in live, AskChange(r, s) PROVE (super \subseteq super' /\ super \cap admin \subseteq admin')
  BY <1>11 DEF AskChange, Arrive
<1>12. ASSUME NEW r \in Requests, NEW s \in live, NEW op \in AdminOps, NEW t \in Users, AskAdmin(r, s, op, t) PROVE (super \subseteq super' /\ super \cap admin \subseteq admin')
  BY <1>12 DEF AskAdmin, Arrive
<1>13. ASSUME NEW r \in Requests, Prove(r) PROVE (super \subseteq super' /\ super \cap admin \subseteq admin')
  BY <1>13 DEF Prove, GoTo
<1>14. ASSUME NEW r \in Requests, Look(r) PROVE (super \subseteq super' /\ super \cap admin \subseteq admin')
  BY <1>14 DEF Look, GoTo, Allowed
<1>15. ASSUME NEW r \in Requests, Count(r) PROVE (super \subseteq super' /\ super \cap admin \subseteq admin')
  BY <1>15 DEF Count, GoTo
<1>16. ASSUME NEW r \in Requests, Refuse(r) PROVE (super \subseteq super' /\ super \cap admin \subseteq admin')
  BY <1>16 DEF Refuse, NoContext
<1>17. ASSUME NEW r \in Requests, SetPassword(r) PROVE (super \subseteq super' /\ super \cap admin \subseteq admin')
  BY <1>17 DEF SetPassword, Writes
<1>18. ASSUME NEW r \in Requests, SetAdminFlag(r) PROVE (super \subseteq super' /\ super \cap admin \subseteq admin')
  BY <1>18 DEF SetAdminFlag, Writes
<1>19. ASSUME NEW r \in Requests, DeleteUser(r) PROVE (super \subseteq super' /\ super \cap admin \subseteq admin')
  BY <1>19 DEF DeleteUser, Writes, DropSessions, SessionsOf
<1>20. ASSUME NEW r \in Requests, NEW isAdmin \in BOOLEAN, CreateUser(r, isAdmin) PROVE (super \subseteq super' /\ super \cap admin \subseteq admin')
  BY <1>20 DEF CreateUser, Writes, AddUser
<1>21. ASSUME NEW r \in Requests, RevokeSessions(r) PROVE (super \subseteq super' /\ super \cap admin \subseteq admin')
  BY <1>21 DEF RevokeSessions, DropSessions, Revocable, SessionsOf
<1>22. ASSUME NEW r \in Requests, RevocationFails(r) PROVE (super \subseteq super' /\ super \cap admin \subseteq admin')
  BY <1>22 DEF RevocationFails, GoTo
<1>23. ASSUME NEW r \in Requests, ClearStepUp(r) PROVE (super \subseteq super' /\ super \cap admin \subseteq admin')
  BY <1>23 DEF ClearStepUp, Spent, SessionsOf
<1>24. ASSUME NEW r \in Requests, ClearFails(r) PROVE (super \subseteq super' /\ super \cap admin \subseteq admin')
  BY <1>24 DEF ClearFails, GoTo
<1>25. ASSUME UNCHANGED vars PROVE (super \subseteq super' /\ super \cap admin \subseteq admin')
  BY <1>25 DEF vars
<1>26. QED
  BY <1>1, <1>2, <1>3, <1>4, <1>5, <1>6, <1>7, <1>8, <1>9, <1>10, <1>11, <1>12,
     <1>13, <1>14, <1>15, <1>16, <1>17, <1>18, <1>19, <1>20, <1>21, <1>22, <1>23, <1>24, <1>25,
     UserAssumption DEF Next, Boot, SigningIn, Asking, Changing

(* A super-admin stays a super-admin, and stays an admin, whatever requests race. *)
THEOREM SuperAdminsKept ==
  Spec => SuperAdminsStay
<1>1. IInv /\ [Next]_vars =>
        [super \subseteq super' /\ super \cap admin \subseteq admin']_vars
  BY SuperStep DEF IInv
<1>2. QED
  BY <1>1, Invariant, PTL DEF Spec, SuperAdminsStay
(* Every super-admin is an admin, the one about to be promoted too. *)
SuperAdminsAreAdmins ==
  /\ super \subseteq admin
  /\ server = "promoting" => Root \in admin

(* Only the promotion makes a super-admin, and only the bootstrap begins one. *)
LEMMA PromotedAlone ==
  TypeOK /\ [Next]_vars =>
    \/ CreateRoot \/ PromoteRoot
    \/ super' \subseteq super /\ (server' = "promoting" => UNCHANGED <<server, users>>)
<1> SUFFICES ASSUME TypeOK, [Next]_vars, ~CreateRoot, ~PromoteRoot
             PROVE  super' \subseteq super /\ (server' = "promoting" => UNCHANGED <<server, users>>)
  OBVIOUS
<1> USE DEF users
<1>1. CASE SkipBootstrap \/ Crash
  BY <1>1 DEF SkipBootstrap, Crash
<1>2. ASSUME NEW r \in Requests, SigningIn(r)
      PROVE  super' \subseteq super /\ server' = "up"
  BY <1>2 DEF SigningIn, CheckLogin, Identify, Begin, Register, OpenSession, AddUser
<1>3. ASSUME NEW r \in Requests, Asking(r)
      PROVE  super' \subseteq super /\ server' = "up"
  BY <1>3 DEF Asking, AskChange, AskAdmin, Arrive, Prove, Look, Count, Refuse, GoTo
<1>4. ASSUME NEW r \in Requests, Changing(r)
      PROVE  super' \subseteq super /\ server' = "up"
  BY <1>4 DEF Changing, SetPassword, SetAdminFlag, DeleteUser, CreateUser, Writes, AddUser,
     RevokeSessions, RevocationFails, ClearStepUp, ClearFails, GoTo
<1>5. ASSUME NEW s \in live, EndSession(s) \/ StepUpAges(s)
      PROVE  UNCHANGED <<server, users>>
  BY <1>5 DEF EndSession, StepUpAges
<1>6. CASE UNCHANGED vars
  BY <1>6 DEF vars
<1>7. QED
  BY <1>1, <1>2, <1>3, <1>4, <1>5, <1>6 DEF Next, Boot

LEMMA AdminsStep ==
  IInv /\ SuperAdminsAreAdmins /\ [Next]_vars => SuperAdminsAreAdmins'
<1> SUFFICES ASSUME IInv, SuperAdminsAreAdmins, [Next]_vars PROVE SuperAdminsAreAdmins'
  OBVIOUS
<1>1. super \subseteq admin'
  BY SuperStep DEF IInv, SuperAdminsAreAdmins
<1>2. CASE CreateRoot
  BY <1>1, <1>2 DEF CreateRoot, AddUser, SuperAdminsAreAdmins
<1>3. CASE PromoteRoot
  BY <1>1, <1>3 DEF PromoteRoot, SuperAdminsAreAdmins
<1>4. CASE super' \subseteq super /\ (server' = "promoting" => UNCHANGED <<server, users>>)
  BY <1>1, <1>4 DEF users, SuperAdminsAreAdmins
<1>5. QED
  BY <1>2, <1>3, <1>4, PromotedAlone DEF IInv

(* "Can't revoke the last admin." and "Can't delete the last admin." are kept, whatever
   requests race, while there is a super-admin: no step then leaves the instance without
   an admin. *)
THEOREM AdminRemains ==
  Spec => [][super # {} => super' # {} /\ admin' # {}]_vars
<1>1. Init => SuperAdminsAreAdmins
  BY DEF Init, SuperAdminsAreAdmins
<1>2. IInv /\ SuperAdminsAreAdmins /\ [Next]_vars =>
        [super # {} => super' # {} /\ admin' # {}]_vars
  BY SuperStep DEF IInv, SuperAdminsAreAdmins
<1>3. QED
  BY <1>1, <1>2, Invariant, AdminsStep, PTL DEF Spec
=============================================================================
