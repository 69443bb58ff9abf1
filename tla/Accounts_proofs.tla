--------------------------- MODULE Accounts_proofs ---------------------------
(***************************************************************************)
(* Proofs about Accounts, for every set of accounts, sign-ins and links.   *)
(*                                                                         *)
(* The first part holds for any overlap of requests: the type invariant,   *)
(* one session per link, and OnlyOvertaken, the bound on how a session can *)
(* outlive the disabling of its account.  The second part is about         *)
(* requests that do not overlap, and shows what the code's own argument    *)
(* needs: that there always is an administrator follows from the ban on    *)
(* aiming at oneself only because a disabled administrator has no session. *)
(***************************************************************************)
EXTENDS Accounts, TLAPS

\* A sign-in that is under way, or over, is somebody's; a session is made by
\* a sign-in that has got that far.
Signed ==
  \A d \in Door :
    /\ door[d] # "idle" => who[d] \in User
    /\ door[d] \in {"idle", "admitted"} => sess[d] = "none"
    /\ door[d] = "idle" => by[d] = Nobody
    /\ req[d] # "none" => who[d] \in User

Owned == \A l \in Link : link[l] # "none" => owner[l] \in User

\* A link that has let somebody in is used, and has let in nobody else.
LinkSpent ==
  \A d \in Door : by[d] # Nobody =>
    /\ link[by[d]] = "used"
    /\ \A e \in Door : by[e] = by[d] => e = d

\* A sign-in that is past its check while its account is disabled was past it
\* when the account was disabled.
Late ==
  \A d \in Door : door[d] = "admitted" /\ disabled[who[d]] => d \in overtaken

Inductive == TypeOK /\ Signed /\ Owned /\ LinkSpent /\ Late /\ OnlyOvertaken

LEMMA InitInductive == Init => Inductive
<1> SUFFICES ASSUME Init PROVE Inductive
  OBVIOUS
<1>1. overlapped \in BOOLEAN
  BY DEF Init
<1>2. TypeOK
  BY <1>1, AccountsAssumption DEF Init, TypeOK
<1>3. Signed /\ Owned /\ LinkSpent /\ Late /\ OnlyOvertaken
  BY AccountsAssumption DEF Init, Signed, Owned, LinkSpent, Late, OnlyOvertaken
<1>4. QED
  BY <1>2, <1>3 DEF Inductive

-----------------------------------------------------------------------------
(* Types *)

LEMMA TypeStep == TypeOK /\ Signed /\ Owned /\ [Next]_vars => TypeOK'
<1> SUFFICES ASSUME TypeOK, Signed, Owned, [Next]_vars PROVE TypeOK'
  OBVIOUS
<1> USE AccountsAssumption
    DEF TypeOK, accounts, links, signins, history, Arrive, Goto, Advance, Changes, Ended
<1>1. ASSUME NEW l \in Link, NEW u \in User, AskLink(l, u) PROVE TypeOK'
  BY <1>1 DEF AskLink
<1>2. ASSUME NEW l \in Link, IssueLink(l) \/ ExpireLink(l) PROVE TypeOK'
  BY <1>2 DEF IssueLink, ExpireLink
<1>3. ASSUME NEW l \in Link, NEW d \in Door, ConsumeLink(d, l) PROVE TypeOK'
  BY <1>3 DEF ConsumeLink
<1>4. ASSUME NEW d \in Door, NEW u \in User, EnterPassword(d, u) PROVE TypeOK'
  BY <1>4 DEF EnterPassword
<1>5. ASSUME NEW d \in Door, OpenSession(d) \/ Reply(d) \/ SignInDies(d) PROVE TypeOK'
  BY <1>5 DEF OpenSession, Reply, SignInDies
<1>6. ASSUME NEW d \in Door, Logout(d) \/ ExpireSession(d) PROVE TypeOK'
  BY <1>6 DEF Logout, ExpireSession
<1>7. ASSUME NEW d \in Door, Admit(d) \/ Refuse(d) \/ RecordChange(d) PROVE TypeOK'
  BY <1>7 DEF Admit, Refuse, RecordChange
<1>8. ASSUME NEW d \in Door, NEW u \in User, CreateUser(d, u) \/ ChangeRole(d, u) PROVE TypeOK'
  <2>1. PICK r \in {"operator", "admin"} : role' = [role EXCEPT ![u] = r]
    BY <1>8 DEF CreateUser, ChangeRole
  <2>2. PICK c \in Changes : req' = [req EXCEPT ![d] = c]
    BY <1>8 DEF CreateUser, ChangeRole
  <2>3. UNCHANGED <<disabled, links, signins, sess, history>>
    BY <1>8 DEF CreateUser, ChangeRole
  <2>4. QED
    BY <2>1, <2>2, <2>3
<1>9. ASSUME NEW d \in Door, NEW u \in User, Disable(d, u) PROVE TypeOK'
  BY <1>9 DEF Disable, EndSessions
<1>10. ASSUME NEW d \in Door, NEW u \in User, Enable(d, u) PROVE TypeOK'
  BY <1>10 DEF Enable
<1>11. ASSUME NEW d \in Door, NEW e \in Door, RevokeSession(d, e) PROVE TypeOK'
  BY <1>11 DEF RevokeSession
<1>12. CASE UNCHANGED vars
  BY <1>12 DEF vars
<1>13. QED
  BY <1>1, <1>2, <1>3, <1>4, <1>5, <1>6, <1>7, <1>8, <1>9, <1>10, <1>11, <1>12 DEF Next

-----------------------------------------------------------------------------
(* The two doors *)

Doors == Signed /\ Owned /\ LinkSpent

LEMMA DoorsStep == TypeOK /\ Doors /\ [Next]_vars => Doors'
<1> SUFFICES ASSUME TypeOK, Doors, [Next]_vars PROVE Doors'
  OBVIOUS
<1> USE AccountsAssumption
    DEF TypeOK, Doors, Signed, Owned, LinkSpent, accounts, links, signins, history, Arrive,
        Goto, Advance, Changes, Ended
<1>1. ASSUME NEW l \in Link, NEW u \in User, AskLink(l, u) PROVE Doors'
  BY <1>1 DEF AskLink
<1>2. ASSUME NEW l \in Link, IssueLink(l) \/ ExpireLink(l) PROVE Doors'
  BY <1>2 DEF IssueLink, ExpireLink
<1>3. ASSUME NEW l \in Link, NEW d \in Door, ConsumeLink(d, l) PROVE Doors'
  <2>1. \A e \in Door : by[e] # l
    BY <1>3 DEF ConsumeLink, Unused
  <2>2. owner[l] \in User
    BY <1>3 DEF ConsumeLink, Unused
  <2>3. Signed' /\ Owned'
    BY <1>3, <2>2 DEF ConsumeLink
  <2>4. LinkSpent'
    BY <1>3, <2>1 DEF ConsumeLink
  <2>5. QED
    BY <2>3, <2>4
<1>4. ASSUME NEW d \in Door, NEW u \in User, EnterPassword(d, u) PROVE Doors'
  BY <1>4 DEF EnterPassword
<1>5. ASSUME NEW d \in Door, OpenSession(d) \/ Reply(d) \/ SignInDies(d) PROVE Doors'
  BY <1>5 DEF OpenSession, Reply, SignInDies
<1>6. ASSUME NEW d \in Door, Logout(d) \/ ExpireSession(d) PROVE Doors'
  BY <1>6 DEF Logout, ExpireSession
<1>7. ASSUME NEW d \in Door, Admit(d) \/ Refuse(d) \/ RecordChange(d)
      PROVE Doors'
  BY <1>7 DEF Admit, Refuse, RecordChange
<1>8. ASSUME NEW d \in Door, NEW u \in User,
             CreateUser(d, u) \/ ChangeRole(d, u) \/ Enable(d, u)
      PROVE Doors'
  BY <1>8 DEF CreateUser, ChangeRole, Enable
<1>9. ASSUME NEW d \in Door, NEW u \in User, Disable(d, u) PROVE Doors'
  BY <1>9 DEF Disable, EndSessions
<1>10. ASSUME NEW d \in Door, NEW e \in Door, RevokeSession(d, e) PROVE Doors'
  BY <1>10 DEF RevokeSession
<1>11. CASE UNCHANGED vars
  BY <1>11 DEF vars
<1>12. QED
  BY <1>1, <1>2, <1>3, <1>4, <1>5, <1>6, <1>7, <1>8, <1>9, <1>10, <1>11 DEF Next

-----------------------------------------------------------------------------
(* Sessions of disabled accounts *)

Bounded == Late /\ OnlyOvertaken

LEMMA BoundedStep == TypeOK /\ Signed /\ Owned /\ Bounded /\ [Next]_vars => Bounded'
<1> SUFFICES ASSUME TypeOK, Signed, Owned, Bounded, [Next]_vars PROVE Bounded'
  OBVIOUS
<1> USE AccountsAssumption
    DEF TypeOK, Signed, Owned, Bounded, Late, OnlyOvertaken, accounts, links, signins, history, Arrive,
        Goto, Advance, Changes, Ended
<1>1. ASSUME NEW l \in Link,
             IssueLink(l) \/ ExpireLink(l) \/ \E u \in User : AskLink(l, u)
      PROVE Bounded'
  BY <1>1 DEF IssueLink, ExpireLink, AskLink
<1>2. ASSUME NEW l \in Link, NEW d \in Door, ConsumeLink(d, l) PROVE Bounded'
  <2>1. ~disabled[owner[l]] /\ sess[d] = "none"
    BY <1>2 DEF ConsumeLink, MayEnter
  <2>2. QED
    BY <1>2, <2>1 DEF ConsumeLink
<1>3. ASSUME NEW d \in Door, NEW u \in User, EnterPassword(d, u) PROVE Bounded'
  <2>1. ~disabled[u] /\ sess[d] = "none"
    BY <1>3 DEF EnterPassword, MayEnter
  <2>2. QED
    BY <1>3, <2>1 DEF EnterPassword
<1>4. ASSUME NEW d \in Door, OpenSession(d) \/ Reply(d) \/ SignInDies(d) PROVE Bounded'
  BY <1>4 DEF OpenSession, Reply, SignInDies
<1>5. ASSUME NEW d \in Door, Logout(d) \/ ExpireSession(d) PROVE Bounded'
  BY <1>5 DEF Logout, ExpireSession
<1>6. ASSUME NEW d \in Door, Admit(d) \/ Refuse(d) \/ RecordChange(d)
      PROVE Bounded'
  BY <1>6 DEF Admit, Refuse, RecordChange
<1>7. ASSUME NEW d \in Door, NEW u \in User, CreateUser(d, u) \/ ChangeRole(d, u)
      PROVE Bounded'
  BY <1>7 DEF CreateUser, ChangeRole
<1>8. ASSUME NEW d \in Door, NEW u \in User, Enable(d, u) PROVE Bounded'
  BY <1>8 DEF Enable
<1>9. ASSUME NEW d \in Door, NEW u \in User, Disable(d, u) PROVE Bounded'
  <2>1. Late'
    BY <1>9 DEF Disable
  <2>2. OnlyOvertaken'
    BY <1>9 DEF Disable, EndSessions
  <2>3. QED
    BY <2>1, <2>2
<1>10. ASSUME NEW d \in Door, NEW e \in Door, RevokeSession(d, e) PROVE Bounded'
  BY <1>10 DEF RevokeSession
<1>11. CASE UNCHANGED vars
  BY <1>11 DEF vars
<1>12. QED
  BY <1>1, <1>2, <1>3, <1>4, <1>5, <1>6, <1>7, <1>8, <1>9, <1>10, <1>11 DEF Next

-----------------------------------------------------------------------------
(***************************************************************************)
(* The inductive invariant holds whatever requests overlap.                *)
(***************************************************************************)
THEOREM InductiveHolds == Spec => []Inductive
<1>1. Inductive /\ [Next]_vars => Inductive'
  BY TypeStep, DoorsStep, BoundedStep DEF Inductive, Doors, Bounded
<1>2. QED
  BY <1>1, InitInductive, PTL DEF Spec

(***************************************************************************)
(* Every reachable state is well typed.                                    *)
(***************************************************************************)
THEOREM TypeCorrect == Spec => []TypeOK
<1>1. Inductive => TypeOK
  BY DEF Inductive
<1>2. QED
  BY <1>1, InductiveHolds, PTL

(***************************************************************************)
(* However many clicks race on a magic link, it makes one session.         *)
(***************************************************************************)
THEOREM OneSessionPerLinkHolds == Spec => []OneSessionPerLink
<1>1. Inductive => OneSessionPerLink
  BY DEF Inductive, LinkSpent, OneSessionPerLink
<1>2. QED
  BY <1>1, InductiveHolds, PTL

(***************************************************************************)
(* A live session of a disabled account belongs to a sign-in that was past *)
(* its check when the account was disabled.                                *)
(***************************************************************************)
THEOREM OnlyOvertakenHolds == Spec => []OnlyOvertaken
<1>1. Inductive => OnlyOvertaken
  BY DEF Inductive
<1>2. QED
  BY <1>1, InductiveHolds, PTL

-----------------------------------------------------------------------------
(* Requests that do not overlap *)

AtWork(d) == door[d] \in {"admitted", "opened"} \/ req[d] # "none"

\* One request at a time; and those of administrators come after a sign-in.
Alone ==
  /\ \A d, e \in Door : AtWork(d) /\ AtWork(e) => d = e
  /\ \A d \in Door : req[d] # "none" => door[d] \in {"in", "out"}

\* What a request has checked is still true when it acts on it.
StillTrue ==
  \A d \in Door :
    /\ door[d] = "admitted" => ~disabled[who[d]]
    /\ req[d] = "admitted" => role[who[d]] = "admin" /\ ~disabled[who[d]]

NoStraySession == \A d \in Door : sess[d] = "live" => ~disabled[who[d]]

AdminLeft == \E u \in User : role[u] = "admin" /\ ~disabled[u]

Sound == StillTrue /\ NoStraySession /\ AdminLeft

Quiet == ~overlapped => Alone /\ Sound

LEMMA InitQuiet == Init => Quiet
BY AccountsAssumption
DEF Init, Quiet, Sound, Alone, AtWork, StillTrue, NoStraySession, AdminLeft

\* A request that comes in without an overlap comes in alone.
LEMMA ArrivesAlone == Arrive /\ ~overlapped' => Idle /\ ~overlapped
BY DEF Arrive

\* An overlap is never forgotten.
LEMMA StaysOverlapped == [Next]_vars /\ ~overlapped' => ~overlapped
BY ArrivesAlone
DEF Next, vars, history, AskLink, IssueLink, ExpireLink, ConsumeLink, EnterPassword, OpenSession,
    Reply, SignInDies, Logout, ExpireSession, Admit, Refuse, RecordChange, CreateUser,
    ChangeRole, Disable, Enable, RevokeSession

LEMMA AloneStep == TypeOK /\ Alone /\ [Next]_vars /\ ~overlapped' => Alone'
<1> SUFFICES ASSUME TypeOK, Alone, [Next]_vars, ~overlapped' PROVE Alone'
  OBVIOUS
<1> USE DEF TypeOK, Alone, AtWork, accounts, links, signins, Goto, Advance, Changes
<1>1. ASSUME NEW l \in Link,
             IssueLink(l) \/ ExpireLink(l) \/ \E u \in User : AskLink(l, u)
      PROVE Alone'
  BY <1>1 DEF IssueLink, ExpireLink, AskLink
<1>2. ASSUME NEW d \in Door,
             (\E l \in Link : ConsumeLink(d, l)) \/ (\E u \in User : EnterPassword(d, u))
      PROVE Alone'
  <2>1. \A e \in Door : ~AtWork(e)
    BY <1>2, ArrivesAlone DEF ConsumeLink, EnterPassword, Idle
  <2>2. door' = [door EXCEPT ![d] = "admitted"] /\ req' = req
    BY <1>2 DEF ConsumeLink, EnterPassword
  <2>3. QED
    BY <2>1, <2>2
<1>3. ASSUME NEW d \in Door, OpenSession(d) \/ Reply(d) \/ SignInDies(d) PROVE Alone'
  BY <1>3 DEF OpenSession, Reply, SignInDies
<1>4. ASSUME NEW d \in Door, Logout(d) \/ ExpireSession(d) PROVE Alone'
  BY <1>4 DEF Logout, ExpireSession
<1>5. ASSUME NEW d \in Door, Admit(d) PROVE Alone'
  <2>1. (\A e \in Door : ~AtWork(e)) /\ door[d] = "in"
    BY <1>5, ArrivesAlone DEF Admit, Idle
  <2>2. QED
    BY <1>5, <2>1 DEF Admit
<1>6. ASSUME NEW d \in Door, req[d] # "none", UNCHANGED door,
             NEW step \in {"none"} \cup Changes, Advance(d, step)
      PROVE Alone'
  BY <1>6
<1>7. ASSUME NEW d \in Door, Refuse(d) \/ RecordChange(d) PROVE Alone'
  BY <1>6, <1>7 DEF Refuse, RecordChange
<1>8. ASSUME NEW d \in Door, NEW u \in User,
             CreateUser(d, u) \/ ChangeRole(d, u) \/ Disable(d, u) \/ Enable(d, u)
      PROVE Alone'
  BY <1>6, <1>8 DEF CreateUser, ChangeRole, Disable, Enable
<1>9. ASSUME NEW d \in Door, NEW e \in Door, RevokeSession(d, e) PROVE Alone'
  BY <1>6, <1>9 DEF RevokeSession
<1>10. CASE UNCHANGED vars
  BY <1>10 DEF vars
<1>11. QED
  BY <1>1, <1>2, <1>3, <1>4, <1>5, <1>7, <1>8, <1>9, <1>10 DEF Next

\* An administrator's request about somebody else leaves its own account as
\* it is, and no other request is there to be overtaken.
LEMMA SoundStep ==
  TypeOK /\ Signed /\ Owned /\ Alone /\ Sound /\ [Next]_vars => Sound'
<1> SUFFICES ASSUME TypeOK, Signed, Owned, Alone, Sound, [Next]_vars PROVE Sound'
  OBVIOUS
<1> USE AccountsAssumption
    DEF TypeOK, Signed, Owned, Sound, StillTrue, NoStraySession, AdminLeft,
        accounts, links, signins, history, Arrive, Goto, Advance, Changes, Ended
<1>1. ASSUME NEW l \in Link,
             IssueLink(l) \/ ExpireLink(l) \/ \E u \in User : AskLink(l, u)
      PROVE Sound'
  BY <1>1 DEF IssueLink, ExpireLink, AskLink
<1>2. ASSUME NEW l \in Link, NEW d \in Door, ConsumeLink(d, l) PROVE Sound'
  <2>1. ~disabled[owner[l]] /\ sess[d] = "none" /\ req[d] = "none"
    BY <1>2 DEF ConsumeLink, MayEnter, Alone
  <2>2. QED
    BY <1>2, <2>1 DEF ConsumeLink
<1>3. ASSUME NEW d \in Door, NEW u \in User, EnterPassword(d, u) PROVE Sound'
  <2>1. ~disabled[u] /\ sess[d] = "none" /\ req[d] = "none"
    BY <1>3 DEF EnterPassword, MayEnter, Alone
  <2>2. QED
    BY <1>3, <2>1 DEF EnterPassword
<1>4. ASSUME NEW d \in Door, OpenSession(d) \/ Reply(d) \/ SignInDies(d) PROVE Sound'
  BY <1>4 DEF OpenSession, Reply, SignInDies
<1>5. ASSUME NEW d \in Door, Logout(d) \/ ExpireSession(d) PROVE Sound'
  BY <1>5 DEF Logout, ExpireSession
<1>6. ASSUME NEW d \in Door, Admit(d) \/ Refuse(d) \/ RecordChange(d)
      PROVE Sound'
  BY <1>6 DEF Admit, Refuse, RecordChange
<1>7. ASSUME NEW d \in Door, req[d] = "admitted"
      PROVE  /\ role[who[d]] = "admin" /\ ~disabled[who[d]]
             /\ \A e \in Door : door[e] # "admitted"
             /\ \A e \in Door \ {d} : req[e] # "admitted"
  BY <1>7 DEF Alone, AtWork
<1>8. ASSUME NEW d \in Door, NEW u \in User, CreateUser(d, u) PROVE Sound'
  <2>1. PICK r \in {"operator", "admin"} : role' = [role EXCEPT ![u] = r]
    BY <1>8 DEF CreateUser
  <2>2. u # who[d]
    BY <1>7, <1>8 DEF CreateUser
  <2>3. QED
    BY <1>7, <1>8, <2>1, <2>2 DEF CreateUser
<1>9. ASSUME NEW d \in Door, NEW u \in User, ChangeRole(d, u) PROVE Sound'
  <2>1. PICK r \in {"operator", "admin"} : role' = [role EXCEPT ![u] = r]
    BY <1>9 DEF ChangeRole
  <2>2. u # who[d]
    BY <1>9 DEF ChangeRole, NotSelf
  <2>3. QED
    BY <1>7, <1>9, <2>1, <2>2 DEF ChangeRole
<1>10. ASSUME NEW d \in Door, NEW u \in User, Disable(d, u) PROVE Sound'
  <2>1. u # who[d]
    BY <1>10 DEF Disable, NotSelf
  <2>2. StillTrue' /\ AdminLeft'
    BY <1>7, <1>10, <2>1 DEF Disable
  <2>3. NoStraySession'
    BY <1>10 DEF Disable, EndSessions
  <2>4. QED
    BY <2>2, <2>3
<1>11. ASSUME NEW d \in Door, NEW u \in User, Enable(d, u) PROVE Sound'
  BY <1>11 DEF Enable
<1>12. ASSUME NEW d \in Door, NEW e \in Door, RevokeSession(d, e) PROVE Sound'
  BY <1>12 DEF RevokeSession
<1>13. CASE UNCHANGED vars
  BY <1>13 DEF vars
<1>14. QED
  BY <1>1, <1>2, <1>3, <1>4, <1>5, <1>6, <1>8, <1>9, <1>10, <1>11, <1>12, <1>13 DEF Next

(***************************************************************************)
(* The inductive invariant of requests that do not overlap.                *)
(***************************************************************************)
THEOREM QuietHolds == Spec => []Quiet
<1>1. Inductive /\ Quiet /\ [Next]_vars => Quiet'
  BY AloneStep, SoundStep, StaysOverlapped DEF Inductive, Quiet
<1>2. QED
  BY <1>1, InitQuiet, InductiveHolds, PTL DEF Spec

(***************************************************************************)
(* Until a request overlaps another, a disabled account has no live        *)
(* session.                                                                *)
(***************************************************************************)
THEOREM DisabledHasNoSessionHolds == Spec => []DisabledHasNoSession
<1>1. Quiet => DisabledHasNoSession
  BY DEF Quiet, Sound, NoStraySession, DisabledHasNoSession
<1>2. QED
  BY <1>1, QuietHolds, PTL

(***************************************************************************)
(* Until a request overlaps another, there is an administrator who can     *)
(* sign in.                                                                *)
(***************************************************************************)
THEOREM SomeAdminHolds == Spec => []SomeAdmin
<1>1. Quiet => SomeAdmin
  BY DEF Quiet, Sound, AdminLeft, SomeAdmin
<1>2. QED
  BY <1>1, QuietHolds, PTL
=============================================================================
