------------------------------ MODULE Accounts ------------------------------
(***************************************************************************)
(* Staff accounts, the sessions they are signed in with, and what an       *)
(* administrator does to both: the two doors of auth (POST /auth/login and *)
(* POST /auth/magic/consume), the links for the second one, logout, and    *)
(* the account management of /admin.                                       *)
(*                                                                         *)
(* A sign-in checks the account in one statement and inserts its session   *)
(* in a later one; an administrator's request resolves its session, with   *)
(* the role the account has at that moment, before its handler runs.       *)
(* Between any two statements other requests come in.                      *)
(***************************************************************************)
EXTENDS Integers, FiniteSets

CONSTANTS User,     \* staff accounts
          Founder,  \* the administrators seed-staff has made
          Door,     \* sign-ins; a session is named by the one that made it
          Link,     \* magic links
          Failures, \* whether a sign-in's handler may die
          Nobody    \* no user, no link

ASSUME AccountsAssumption ==
  /\ Founder \subseteq User
  /\ Founder # {}
  /\ Failures \in BOOLEAN
  /\ Nobody \notin User \cup Link

VARIABLES role,      \* role[u]: users.role, "absent" before the insert
          disabled,  \* disabled[u]: disabled_at IS NOT NULL
          link,      \* link[l]: the login_tokens row
          owner,     \* owner[l]: login_tokens.user_id
          door,      \* door[d]: where the sign-in stands
          who,       \* who[d]: the account it is for
          by,        \* by[d]: the link it has consumed, if any
          sess,      \* sess[d]: the row in sessions
          req,       \* req[d]: the administrator's request under session d
          overtaken, \* sign-ins whose account was disabled after their check
          overlapped \* whether a request has come in while another was under way

accounts == <<role, disabled>>
links == <<link, owner>>
signins == <<door, who, by>>
history == <<overtaken, overlapped>>
vars == <<accounts, links, signins, sess, req, history>>

Changes == {"created", "role_changed", "disabled", "enabled", "revoked"}

TypeOK ==
  /\ role \in [User -> {"absent", "operator", "admin"}]
  /\ disabled \in [User -> BOOLEAN]
  /\ link \in [Link -> {"none", "asked", "issued", "used", "expired"}]
  /\ owner \in [Link -> User \cup {Nobody}]
  /\ door \in [Door -> {"idle", "admitted", "opened", "in", "out", "dead"}]
  /\ who \in [Door -> User \cup {Nobody}]
  /\ by \in [Door -> Link \cup {Nobody}]
  /\ sess \in [Door -> {"none", "live", "revoked", "expired"}]
  /\ req \in [Door -> {"none", "admitted"} \cup Changes]
  /\ overtaken \subseteq Door
  /\ overlapped \in BOOLEAN

Init ==
  /\ role = [u \in User |-> IF u \in Founder THEN "admin" ELSE "absent"]
  /\ disabled = [u \in User |-> FALSE]
  /\ link = [l \in Link |-> "none"]
  /\ owner = [l \in Link |-> Nobody]
  /\ door = [d \in Door |-> "idle"]
  /\ who = [d \in Door |-> Nobody]
  /\ by = [d \in Door |-> Nobody]
  /\ sess = [d \in Door |-> "none"]
  /\ req = [d \in Door |-> "none"]
  /\ overtaken = {}
  /\ overlapped = FALSE

\* No request is under way.
Idle ==
  /\ \A d \in Door : door[d] \notin {"admitted", "opened"} /\ req[d] = "none"
  /\ \A l \in Link : link[l] # "asked"

\* A request comes in.
Arrive ==
  /\ overlapped' = (overlapped \/ ~Idle)
  /\ UNCHANGED overtaken

-----------------------------------------------------------------------------
(* Magic links *)

\* WHERE role <> 'customer' AND disabled_at IS NULL.
\* Slip: disabled_at is not looked at.
AnyStaff(u) == role[u] # "absent"

MayEnter(u) == role[u] # "absent" /\ ~disabled[u]

AskLink(l, u) ==
  /\ Arrive
  /\ link[l] = "none"
  /\ MayEnter(u)
  /\ link' = [link EXCEPT ![l] = "asked"]
  /\ owner' = [owner EXCEPT ![l] = u]
  /\ UNCHANGED <<accounts, signins, sess, req>>

\* The token row and the job that mails it.
IssueLink(l) ==
  /\ link[l] = "asked"
  /\ link' = [link EXCEPT ![l] = "issued"]
  /\ UNCHANGED <<accounts, owner, signins, sess, req, history>>

ExpireLink(l) ==
  /\ link[l] = "issued"
  /\ link' = [link EXCEPT ![l] = "expired"]
  /\ UNCHANGED <<accounts, owner, signins, sess, req, history>>

-----------------------------------------------------------------------------
(* Signing in *)

Goto(d, step) == door' = [door EXCEPT ![d] = step]

\* The account is found and the password is right.
EnterPassword(d, u) ==
  /\ Arrive
  /\ door[d] = "idle"
  /\ MayEnter(u)
  /\ Goto(d, "admitted")
  /\ who' = [who EXCEPT ![d] = u]
  /\ UNCHANGED <<accounts, links, by, sess, req>>

\* Slip: used_at is not looked at.
Clickable(l) == link[l] \in {"issued", "used"}

Unused(l) == link[l] = "issued"

ConsumeLink(d, l) ==
  /\ Arrive
  /\ door[d] = "idle"
  /\ Unused(l)
  /\ MayEnter(owner[l])
  /\ link' = [link EXCEPT ![l] = "used"]
  /\ Goto(d, "admitted")
  /\ who' = [who EXCEPT ![d] = owner[l]]
  /\ by' = [by EXCEPT ![d] = l]
  /\ UNCHANGED <<accounts, owner, sess, req>>

\* createSession
OpenSession(d) ==
  /\ door[d] = "admitted"
  /\ Goto(d, "opened")
  /\ sess' = [sess EXCEPT ![d] = "live"]
  /\ UNCHANGED <<accounts, links, who, by, req, history>>

\* last_login_at, the session's own row for the audit entry, and the reply:
\* a session that has been ended meanwhile is answered with a cookie as well.
Reply(d) ==
  /\ door[d] = "opened"
  /\ Goto(d, "in")
  /\ UNCHANGED <<accounts, links, who, by, sess, req, history>>

SignInDies(d) ==
  /\ Failures
  /\ door[d] \in {"admitted", "opened"}
  /\ Goto(d, "dead")
  /\ UNCHANGED <<accounts, links, who, by, sess, req, history>>

\* What becomes of the row of a session that is ended.
Ended == "revoked"

\* revokeSession, by the cookie.
Logout(d) ==
  /\ door[d] = "in"
  /\ Goto(d, "out")
  /\ sess' = [sess EXCEPT ![d] = IF @ = "live" THEN Ended ELSE @]
  /\ UNCHANGED <<accounts, links, who, by, req, history>>

ExpireSession(d) ==
  /\ sess[d] = "live"
  /\ sess' = [sess EXCEPT ![d] = "expired"]
  /\ UNCHANGED <<accounts, links, signins, req, history>>

-----------------------------------------------------------------------------
(* Account management *)

Advance(d, step) == req' = [req EXCEPT ![d] = step]

\* resolveSession and requireRole("admin"): disabled_at is not looked at.
Admit(d) ==
  /\ Arrive
  /\ door[d] = "in"
  /\ sess[d] = "live"
  /\ req[d] = "none"
  /\ role[who[d]] = "admin"
  /\ Advance(d, "admitted")
  /\ UNCHANGED <<accounts, links, signins, sess>>

\* The handler writes nothing: 403, 404 or 409.
Refuse(d) ==
  /\ req[d] = "admitted"
  /\ Advance(d, "none")
  /\ UNCHANGED <<accounts, links, signins, sess, history>>

CreateUser(d, u) ==
  /\ req[d] = "admitted"
  /\ role[u] = "absent"
  /\ \E r \in {"operator", "admin"} : role' = [role EXCEPT ![u] = r]
  /\ Advance(d, "created")
  /\ UNCHANGED <<disabled, links, signins, sess, history>>

\* Not aimed at oneself.  Slip: it may be.
AnyTarget(d, u) == TRUE

NotSelf(d, u) == u # who[d]

ChangeRole(d, u) ==
  /\ req[d] = "admitted"
  /\ NotSelf(d, u)
  /\ role[u] # "absent"
  /\ \E r \in {"operator", "admin"} : role' = [role EXCEPT ![u] = r]
  /\ Advance(d, "role_changed")
  /\ UNCHANGED <<disabled, links, signins, sess, history>>

\* The second half of the statement: every live session of the account.
\* Slip: the account is disabled and its sessions are left alone.
LeaveSessions(u) == UNCHANGED sess

EndSessions(u) ==
  sess' = [d \in Door |-> IF who[d] = u /\ sess[d] = "live" THEN Ended ELSE sess[d]]

Disable(d, u) ==
  /\ req[d] = "admitted"
  /\ NotSelf(d, u)
  /\ role[u] # "absent"
  /\ ~disabled[u]
  /\ disabled' = [disabled EXCEPT ![u] = TRUE]
  /\ EndSessions(u)
  /\ overtaken' = overtaken \cup {e \in Door : who[e] = u /\ door[e] = "admitted"}
  /\ Advance(d, "disabled")
  /\ UNCHANGED <<role, links, signins, overlapped>>

Enable(d, u) ==
  /\ req[d] = "admitted"
  /\ disabled[u]
  /\ disabled' = [disabled EXCEPT ![u] = FALSE]
  /\ Advance(d, "enabled")
  /\ UNCHANGED <<role, links, signins, sess, history>>

RevokeSession(d, e) ==
  /\ req[d] = "admitted"
  /\ sess[e] = "live"
  /\ sess' = [sess EXCEPT ![e] = Ended]
  /\ Advance(d, "revoked")
  /\ UNCHANGED <<accounts, links, signins, history>>

\* recordAudit, the handler's last statement: whether its entry is written or
\* refused, the change stays.
RecordChange(d) ==
  /\ req[d] \in Changes
  /\ Advance(d, "none")
  /\ UNCHANGED <<accounts, links, signins, sess, history>>

-----------------------------------------------------------------------------
Next ==
  \/ \E l \in Link :
       \/ \E u \in User : AskLink(l, u)
       \/ IssueLink(l) \/ ExpireLink(l)
       \/ \E d \in Door : ConsumeLink(d, l)
  \/ \E d \in Door :
       \/ \E u \in User : EnterPassword(d, u)
       \/ OpenSession(d) \/ Reply(d) \/ SignInDies(d) \/ Logout(d) \/ ExpireSession(d)
       \/ Admit(d) \/ Refuse(d) \/ RecordChange(d)
       \/ \E u \in User : CreateUser(d, u) \/ ChangeRole(d, u) \/ Disable(d, u) \/ Enable(d, u)
       \/ \E e \in Door : RevokeSession(d, e)

Spec == Init /\ [][Next]_vars

-----------------------------------------------------------------------------
(* Safety *)

(***************************************************************************)
(* "Two clicks racing on the same link produce exactly one session": two   *)
(* sign-ins that came through one link are one sign-in.                    *)
(***************************************************************************)
OneSessionPerLink ==
  \A d, e \in Door :
    sess[d] # "none" /\ sess[e] # "none" /\ by[d] # Nobody /\ by[d] = by[e] => d = e

(***************************************************************************)
(* "An account that cannot sign in but whose existing sessions keep        *)
(* working is not disabled, it is decorative": a disabled account has no   *)
(* live session.  It holds until a first request overlaps another.         *)
(***************************************************************************)
DisabledHasNoSession ==
  ~overlapped => \A d \in Door : sess[d] = "live" => ~disabled[who[d]]

(***************************************************************************)
(* How far an overlap can break it: the only live session a disabled       *)
(* account may have is one whose sign-in had passed its check when the     *)
(* account was disabled.                                                   *)
(***************************************************************************)
OnlyOvertaken ==
  \A d \in Door : sess[d] = "live" /\ disabled[who[d]] => d \in overtaken

(***************************************************************************)
(* "How a platform loses its last administrator": because none of it may   *)
(* be aimed at oneself, and a disabled administrator has no session to act *)
(* with, requests made one after the other always leave an administrator   *)
(* who can sign in.                                                        *)
(***************************************************************************)
SomeAdmin == ~overlapped => \E u \in User : role[u] = "admin" /\ ~disabled[u]

=============================================================================
